SPECIFICATION Spec
CONSTANTS
  Ladders <- PlaybookLadders
  MaxActions = 3
  MaxLen = 3
INVARIANT ApprovedActionRuns
CHECK_DEADLOCK FALSE
