SPECIFICATION Spec
CONSTANTS
  Groups <- MCGroups
  Mapping <- MCMapping
  Callers <- MCCallers
INVARIANT OnlyKnownTiersRun
