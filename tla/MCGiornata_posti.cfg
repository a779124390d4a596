SPECIFICATION Spec
CONSTANTS
  o1 = o1  o2 = o2  o3 = o3  u1 = u1  u2 = u2  primi = primi
  Operatori = {o1, o2}
  Utenti = {u1}
  Stazioni = {primi}
  StazioneDi <- UnaStazione
  PostazioniTotali <- DuePosti
  NOFPAUSE = 1
  NOFTABLESEATS = 1
  SIMDURATION = 2
  OVERLOADTHRESHOLD = 1
  Puntuale = TRUE
SYMMETRY Simmetria
INVARIANT PostiEsatti
CHECK_DEADLOCK FALSE
