---------------------------- MODULE Parts_proofs ----------------------------
(***************************************************************************)
(* The run `parts' checks five specifications in one model.  Each part     *)
(* moves there as its own specification lets it, so what the other modules *)
(* prove of a part alone holds in that model too, for every value of the   *)
(* constants.                                                              *)
(***************************************************************************)
EXTENDS MCParts, Callers_proofs, AuditTrail_proofs, Playbooks_proofs

\* A behaviour of the parts together is, seen by each, a behaviour of its own
\* specification: none reads or writes another's state.
THEOREM PartsKeepTheirSpecs ==
  PartsSpec => Spec /\ AuditSpec /\ AccessSpec /\ ScanSpec /\ DeploySpec
<1>1. PartsInit => Init /\ AuditInit /\ AccessInit /\ ScanInit /\ DeployInit
  BY DEF PartsInit
<1>2. [PartsNext]_partsVars => [Next]_vars
  BY DEF PartsNext, partsVars, Policy, Audit, Access, Scan, Deploy
<1>3. [PartsNext]_partsVars => [AuditNext]_auditVars
  BY DEF PartsNext, partsVars, Policy, Audit, Access, Scan, Deploy
<1>4. [PartsNext]_partsVars => [AccessNext]_accessVars
  BY DEF PartsNext, partsVars, Policy, Audit, Access, Scan, Deploy
<1>5. [PartsNext]_partsVars => [ScanNext]_scanVars
  BY DEF PartsNext, partsVars, Policy, Audit, Access, Scan, Deploy
<1>6. [PartsNext]_partsVars => [DeployNext]_deployVars
  BY DEF PartsNext, partsVars, Policy, Audit, Access, Scan, Deploy
<1> QED BY <1>1, <1>2, <1>3, <1>4, <1>5, <1>6, PTL
        DEF PartsSpec, Spec, AuditSpec, AccessSpec, ScanSpec, DeploySpec

\* Every part's variables keep their types.
THEOREM PartsTypeCorrect == PartsSpec => []PartsTypeOK
<1>1. CoreInv => AuditTypeOK
  BY DEF CoreInv
<1>2. AuditTypeOK /\ AccessTypeOK /\ ScanTypeOK /\ DeployTypeOK => PartsTypeOK
  BY DEF PartsTypeOK
<1> QED BY <1>1, <1>2, PartsKeepTheirSpecs, CoreAlways, AccessTypeCorrect, ScanTypeCorrect,
           DeployTypeCorrect, PTL

\* What the run `parts' checks of its model, proved of its model: the rules of
\* the policy, the audit trail's file, the role clusters, the scan of a pod
\* and the writes to a Deployment, side by side.
THEOREM PartsAreCorrect ==
  PartsSpec => /\ [](RulesAreDisjoint /\ GateCoversLadder /\ MoreGroupsRunMore /\ RunsAreEntitled)
               /\ FileImplementsStore /\ [](ReadsMissNothing /\ ReadersAreUndisturbed)
               /\ [](OneClient /\ ReachIsInScope /\ TokenOutlivesRequest)
               /\ [](ScanReportsTheUnhealthy /\ DiagnosisFitsScan)
               /\ [](DownIsAccountedFor /\ RaisesAreKept)
  BY PartsKeepTheirSpecs, RulesNeverConflict, GateIsEnough, MoreGroupsNeverHurt,
     EntitlementNeeded, FileIsStore, ReadsAreComplete, ReadsAreIsolated, ClientIsShared,
     ScopeIsKept, TokenIsGood, UnhealthyAreReported, DiagnosesFit, DownIsReported, RaisesAddUp,
     PTL
=============================================================================
