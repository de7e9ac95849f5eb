SPECIFICATION Spec
CONSTANTS
  Requests = {q1}
  Callers = {"dev", "admin"}
  GroupsOf <- MCGroupsOf
  Mapping <- MCMapping
  Clusters = {"k1", "k3"}
  ProdClusters = {"k3"}
  Scope <- MCScope
  Kinds = {"crashloop"}
INVARIANT MediumInProdByProdAdmin
