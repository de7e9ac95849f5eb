SPECIFICATION Spec
CONSTANTS
  Ladders <- MCLadders
  MaxActions = 3
  MaxLen = 4
INVARIANTS TypeOK HighRiskNeedsApproval UndoneBeforeEscalating RecordIsTrue
PROPERTY ImplementsContract
CHECK_DEADLOCK FALSE
