------------------------------ MODULE MCParts ------------------------------
(* The parts of the system that share no state with each other or with the *)
(* sessions, in one model: a behaviour is one of one part, the others stay *)
(* at their start.                                                         *)
EXTENDS MCPolicy, AuditTrail, RoleAccess, PodScan, MemoryRaise

VARIABLE part  \* the part that moves

partsVars == <<vars, auditVars, accessVars, scanVars, deployVars, part>>

PartsInit ==
  /\ Init /\ AuditInit /\ AccessInit /\ ScanInit /\ DeployInit
  /\ part \in {"policy", "audit", "access", "scan", "deployment"}
  \* only the part that moves has more than one start
  /\ part # "policy" => groups = <<>> /\ env = "prod" /\ ~flag /\ risks = {"safe"}
  /\ part # "access" => ~scopesOn /\ ~inventoryOn /\ home = "unknown"
  /\ part # "scan" => width = 1
  /\ part # "deployment" => ready = 0 /\ limit = (CHOOSE m \in Limits : TRUE)

Policy == part = "policy" /\ Next /\ UNCHANGED <<auditVars, accessVars, scanVars, deployVars>>
Audit  == part = "audit" /\ AuditNext /\ UNCHANGED <<vars, accessVars, scanVars, deployVars>>
Access == part = "access" /\ AccessNext /\ UNCHANGED <<vars, auditVars, scanVars, deployVars>>
Scan   == part = "scan" /\ ScanNext /\ UNCHANGED <<vars, auditVars, accessVars, deployVars>>
Deploy == part = "deployment" /\ DeployNext /\ UNCHANGED <<vars, auditVars, accessVars, scanVars>>

PartsNext == (Policy \/ Audit \/ Access \/ Scan \/ Deploy) /\ UNCHANGED part
PartsSpec == PartsInit /\ [][PartsNext]_partsVars

\* Every part's variables keep their types.
PartsTypeOK == AuditTypeOK /\ AccessTypeOK /\ ScanTypeOK /\ DeployTypeOK

-----------------------------------------------------------------------------

\* Audit trail: two replicas, with a writer and a reader each, and one more
\* writer whose entry is longer than a reader takes.
MCStoreOf == ("w1" :> "hub1") @@ ("r1" :> "hub1") @@ ("w2" :> "hub2") @@ ("r2" :> "hub2")
             @@ ("long" :> "hub2")

\* Role clusters: a token of one account, one of two and a group, one nobody
\* configured.
MCBearerOf == ("c1" :> "mars") @@ ("c2" :> "venus") @@ ("c3" :> "stray")
MCAccountsOf == ("mars" :> {"111"}) @@ ("venus" :> {"111", "222"})
MCGroupsIn == ("mars" :> {}) @@ ("venus" :> {"SRE"})
MCRequired == ("scan_cluster" :> "") @@ ("list_nodes" :> "SRE") @@ ("get_postmortem" :> "")

\* Scan: an instance killed for memory, one that could not be executed, one
\* that failed, one that was done.
MCEndings ==
  {[why |-> "OOMKilled", exit |-> 1, text |-> ""], [why |-> "Error", exit |-> 1, text |-> "exec"],
   [why |-> "Error", exit |-> 1, text |-> "other"], [why |-> "Completed", exit |-> 0, text |-> ""]}
=============================================================================
