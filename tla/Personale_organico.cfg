SPECIFICATION Spec
CONSTANTS
  Organici = {2, 4, 5, 7, 9, 12}
  Tempi = {0, 1, 2, 5}
INVARIANTS TypeOK PostiQuantiOperatori PiuLentoPiuPosti StazioniServite
CHECK_DEADLOCK FALSE
