SPECIFICATION Spec
CONSTANTS
  o1 = o1  o2 = o2  u1 = u1  u2 = u2  pasta = pasta  riso = riso
  nessuna = nessuna
  Nessuna = nessuna
  Operatori = {o1, o2}
  Utenti = {u1}
  Piatti = {pasta}
  AVGREFILL = 1
  MAXPORZIONI = 2
  Rifornimenti = 2
  Giorni = 2
  Capacita = 2
  Puntuale = FALSE
SYMMETRY Simmetria
INVARIANTS TypeOK PorzioniLimitate
CHECK_DEADLOCK FALSE
