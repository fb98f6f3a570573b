CONSTANTS
  c1 = c1  c2 = c2  d1 = d1  d2 = d2  p = p
  Composers = {c1}  Devices = {d1, d2}  Keeps = {d1}
  First = c1  Layouts <- OneComposer
  MaxEdits = 2  Parts = {p}  Flaky = {d1, d2}  MaxFails = 1  None = None
SPECIFICATION Spec
INVARIANTS RowHasParts RemovedIsSilent
PROPERTIES PutAwayEnds TypedIsSaved
CHECK_DEADLOCK FALSE
