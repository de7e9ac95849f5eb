SPECIFICATION TickersSpec
CONSTANTS
  Replicas = {r1, r2}
  Clusters = {c1}
  Sessions = {s1, s2}
  None = None
  TTL = 3
  Fleets <- OrderlyFleet
  MaxErrors = 1
  MaxCrashes = 1
  Documents <- MCDocuments
  FirstDoc <- MCFirstDoc
  Lookups = {"l1", "l2"}
  KindOf <- MCKindOf
  LogTexts <- MCLogTexts
  NoEntry = NoEntry
  MaxEdits = 3
INVARIANTS BookTypeOK CatalogueIsWhole ConfirmedByOwnLog
PROPERTIES EditsAreSeen LiveClusterIsReachable GoneClusterIsDelisted
