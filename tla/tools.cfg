SPECIFICATION Spec
CONSTANTS
  Requests = {q1, q2}
  Callers = {"viewer", "dev", "admin"}
  GroupsOf <- MCGroupsOf
  Mapping <- MCMapping
  Clusters = {"k1", "k2"}
  ProdClusters = {"k2"}
  Scope <- MCScope
  Kinds = {"crashloop", "oom", "arch", "calico", "unknown"}
SYMMETRY Symmetry
INVARIANTS HighRiskIsApproved AutoRunIsAllowed AnswerIsOnRecord
  ApprovalRunsItsAction
