SPECIFICATION FwdSpec
CONSTANTS
  Calls = {c1, c2}
  Conns = {k1, k2}
  None = None
  MaxCrashes = 1
  Forwarded = {c2}
INVARIANTS PendingIsLive ReplyIsOwn DispatchHasRoom
PROPERTIES ForwardingImplementsRemoteCall CancelledCallEnds LiveSessionAnswers
CHECK_DEADLOCK FALSE
