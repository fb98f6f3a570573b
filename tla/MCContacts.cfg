CONSTANTS
  None = None
  Devices = {d1, d2}  Slow = {d1}  Old = {d2}
  Answers <- MCAnswers  Messages <- MCMessages  Filters <- MCFilters
  MaxActs = 2  MaxTurns = 1
SPECIFICATION Spec
INVARIANTS PinGuardsReader AdviceAgrees
PROPERTIES  Settles
CHECK_DEADLOCK FALSE
