SPECIFICATION Spec
CONSTANTS
  Replicas = {r1, r2}
  Clusters = {c1}
  Sessions = {s1, s2, s3}
  None = None
  TTL = 3
  Fleets <- AnyFleet
  MaxErrors = 1
  MaxCrashes = 1
SYMMETRY Symmetry
INVARIANTS TypeOK NoStaleEntry HeartbeatOwned
PROPERTY LeaseSurvivesMisses
