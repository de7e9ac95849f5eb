---------------------------- MODULE MemoryRaise ----------------------------
(***************************************************************************)
(* Approvals of core/oomkilled's rung "increase memory limit" of one       *)
(* Deployment, which the rung of ScaleRemediation may be scaling: Recheck  *)
(* (internal/playbooks/corek8s/oomkilled.go), then the two updates of its  *)
(* Run (internal/k8sclient), each a Get and an Update of the whole object. *)
(***************************************************************************)
EXTENDS ScaleRemediation

CONSTANT Raisers  \* approvals, of one incident or of several (a bound)

VARIABLES
  stop,     \* where each approval is
  want,     \* the replicas Recheck saw wanted
  copy,     \* the object as the last Get returned it
  raisedBy, \* the approvals whose update of the limit was applied
  report    \* what each approval's attempt says

raiseVars == <<stop, want, copy, raisedBy, report>>
deployVars == <<scaleVars, raiseVars>>

Stops == {"recheck", "compare", "get", "put", "restartGet", "restartPut", "over"}
Reports == {"none", "notNeeded", "failed", "raisedOnly", "raised"}

DeployInit ==
  /\ ScaleInit
  /\ stop = [a \in Raisers |-> "recheck"]
  /\ want = [a \in Raisers |-> 0]
  /\ copy = [a \in Raisers |-> [version |-> 0, replicas |-> 0, limit |-> 0]]
  /\ raisedBy = {}
  /\ report = [a \in Raisers |-> "none"]

jobVars == <<step, snap, size, got, ctxDone, verdict>>

StopAt(a, s) == stop' = [stop EXCEPT ![a] = s] /\ UNCHANGED report
Over(a, r)  == stop' = [stop EXCEPT ![a] = "over"] /\ report' = [report EXCEPT ![a] = r]

\* Recheck reads what is wanted ...
RecheckWant(a) ==
  /\ stop[a] = "recheck"
  /\ \/ want' = [want EXCEPT ![a] = replicas] /\ StopAt(a, "compare")
     \/ UNCHANGED want /\ Over(a, "failed")
  /\ UNCHANGED <<object, jobVars, copy, raisedBy>>

StillNeeded(a) == ready < want[a]

\* ... and then what is ready.
RecheckReady(a) ==
  /\ stop[a] = "compare"
  /\ \/ StillNeeded(a) /\ StopAt(a, "get")
     \/ ~StillNeeded(a) /\ Over(a, "notNeeded")
     \/ Over(a, "failed")
  /\ UNCHANGED <<object, jobVars, want, copy, raisedBy>>

GetObject(a, from, to) ==
  /\ stop[a] = from
  /\ copy' = [copy EXCEPT ![a] = [version |-> version, replicas |-> replicas, limit |-> limit]]
  /\ StopAt(a, to)
  /\ UNCHANGED <<object, jobVars, want, raisedBy>>

\* int64(value * 1.5): nothing is raised from nothing.
Increased(m) == (3 * m) \div 2

PutLimit(a) ==
  /\ Update(copy[a].version, copy[a].replicas, Increased(copy[a].limit))
  /\ raisedBy' = raisedBy \cup {a}

PutRestart(a) ==
  /\ Update(copy[a].version, copy[a].replicas, copy[a].limit)
  /\ UNCHANGED raisedBy

IncreaseContainerMemoryLimit(a) ==
  \/ GetObject(a, "get", "put")
  \/ stop[a] = "put" /\ PutLimit(a) /\ StopAt(a, "restartGet") /\ UNCHANGED <<jobVars, want, copy>>

RolloutRestartDeployment(a) ==
  \/ GetObject(a, "restartGet", "restartPut")
  \/ stop[a] = "restartPut" /\ PutRestart(a) /\ Over(a, "raised") /\ UNCHANGED <<jobVars, want, copy>>

\* What Run had to say of the limit comes with the restart's error.
ErrorOf(a) == IF stop[a] \in {"restartGet", "restartPut"} THEN "raisedOnly" ELSE "failed"

\* A call fails; an update whose answer is lost may have been applied.
RaiseFails(a) ==
  /\ stop[a] \in {"get", "put", "restartGet", "restartPut"}
  /\ Over(a, ErrorOf(a))
  /\ \/ UNCHANGED <<object, raisedBy>>
     \/ stop[a] = "put" /\ PutLimit(a)
     \/ stop[a] = "restartPut" /\ PutRestart(a)
  /\ UNCHANGED <<jobVars, want, copy>>

Approval(a) ==
  RecheckWant(a) \/ RecheckReady(a) \/ IncreaseContainerMemoryLimit(a)
  \/ RolloutRestartDeployment(a) \/ RaiseFails(a)

DeployNext ==
  \/ ScaleNext /\ UNCHANGED raiseVars
  \/ \E a \in Raisers : Approval(a)

DeploySpec == DeployInit /\ [][DeployNext]_deployVars

-----------------------------------------------------------------------------
(* Properties.                                                             *)

DeployTypeOK ==
  /\ ScaleTypeOK
  /\ stop \in [Raisers -> Stops] /\ report \in [Raisers -> Reports]
  /\ want \in [Raisers -> {0, Original}]
  /\ raisedBy \subseteq Raisers
  /\ \A a \in Raisers : copy[a].version \in 0..version

RaisedTimes(m, n) ==
  LET f[i \in 0..n] == IF i = 0 THEN m ELSE Increased(f[i-1]) IN f[n]

\* The limit is the one the Deployment started with, increased once for each
\* approval whose update was applied: neither a concurrent approval nor a job
\* that scales the same object from an older copy takes a raise back, and no
\* approval, whatever it is told, raises it twice (RunApproved, Update).
RaisesAreKept == \E m \in Limits : limit = RaisedTimes(m, Cardinality(raisedBy))
=============================================================================
