SPECIFICATION Spec
CONSTANTS
  Replicas = {r1, r2}
  Clusters = {c1}
  Sessions = {s1, s2}
  None = None
  TTL = 3
  Fleets <- OverlapFleet
  MaxErrors = 0
  MaxCrashes = 0
PROPERTY LiveClusterIsReachable
