SPECIFICATION Spec
CONSTANTS
  p1 = p1  c1 = c1  u1 = u1
  nessuno = nessuno
  Utenti = {u1}
  Operatori = {p1, c1}
  StazioneDi <- DoveLavora
  Menu = {"primi"}
  NOFPAUSE = 1
  SIMDURATION = 2
  Nessuno = nessuno
INVARIANTS TypeOK BilancioTotali
PROPERTY ImplementaRegistro
CHECK_DEADLOCK FALSE
