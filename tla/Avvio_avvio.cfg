SPECIFICATION FairSpec
CONSTANTS
  Organici = {3, 4}
  Utenze = {0, 1}
INVARIANTS TypeOK TuttiPartiti PartenzaInsieme NessunoBloccato ChiusuraPulita
PROPERTY AvvioCompleto
CHECK_DEADLOCK FALSE
