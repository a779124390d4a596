SPECIFICATION FairSpec
CONSTANTS
  o1 = o1  o2 = o2  u1 = u1  u2 = u2  pasta = pasta  riso = riso
  nessuna = nessuna
  Nessuna = nessuna
  Operatori = {o1, o2}
  Utenti = {u1, u2}
  Piatti = {pasta, riso}
  AVGREFILL = 1
  MAXPORZIONI = 2
  Rifornimenti = 0
  Giorni = 2
  Capacita = 2
  Puntuale = TRUE
INVARIANTS UnaDomanda RispostaAllaDomanda PorzioniConservate
PROPERTIES OgniDomandaHaRisposta ImplementaSportello
CHECK_DEADLOCK FALSE
