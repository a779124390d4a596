SPECIFICATION Spec
CONSTANTS
  o1 = o1  o2 = o2  u1 = u1  u2 = u2  pasta = pasta  riso = riso
  nessuna = nessuna
  Nessuna = nessuna
  Operatori = {o1}
  Utenti = {u1}
  Piatti = {pasta}
  AVGREFILL = 2
  MAXPORZIONI = 3
  Rifornimenti = 1
  Giorni = 1
  Capacita = 2
  Puntuale = TRUE
SYMMETRY Simmetria
INVARIANT PorzioniConservate
CHECK_DEADLOCK FALSE
