-------------------------- MODULE ScaleRemediation --------------------------
(***************************************************************************)
(* The rung "scale deployment down and up" of core/crashloopbackoff        *)
(* (internal/playbooks/corek8s), as execengine's runOne drives it against  *)
(* one Deployment (internal/k8sclient).  The API server is shared: other   *)
(* ladders, and the Deployment's controller, write the same object, and an *)
(* update made from an outdated read is refused.                           *)
(***************************************************************************)
EXTENDS Integers, FiniteSets

CONSTANTS
  Jobs,       \* ladders that reach the rung (a bound)
  Original,   \* spec.replicas before any of them
  Limits,     \* memory limits the first container may have, 0 for none
  MaxTouches  \* writes by the controller (a bound)

ASSUME OriginalAssumption == Original \in Nat \ {0}
ASSUME TouchAssumption == MaxTouches \in Nat /\ Limits \subseteq Nat

VARIABLES
  replicas,  \* spec.replicas
  limit,     \* the first container's memory limit
  ready,     \* status.readyReplicas
  version,   \* resourceVersion
  touches,
  step,      \* where each job is
  snap,      \* the snapshot's "replicas"
  size,      \* n, as Run read it
  got,       \* of the object ScaleDeployment got: its version and limit
  ctxDone,   \* the job's context is cancelled
  verdict    \* what the attempt reports

object == <<replicas, limit, ready, version, touches>>
scaleVars == <<object, step, snap, size, got, ctxDone, verdict>>

Steps == {"snapshot", "read", "down", "downPut", "up", "upPut", "validate",
          "back", "backPut", "done"}
Verdicts == {"none", "validated", "rolledBack", "undoFailed", "notStarted"}

ScaleInit ==
  /\ replicas = Original /\ limit \in Limits /\ ready \in {0, Original}
  /\ version = 1 /\ touches = 0
  /\ step = [j \in Jobs |-> "snapshot"]
  /\ snap = [j \in Jobs |-> 0]
  /\ size = [j \in Jobs |-> 0]
  /\ got = [j \in Jobs |-> [version |-> 0, limit |-> 0]]
  /\ ctxDone = [j \in Jobs |-> FALSE]
  /\ verdict = [j \in Jobs |-> "none"]

Goto(j, s) == step' = [step EXCEPT ![j] = s]
Finish(j, v) == Goto(j, "done") /\ verdict' = [verdict EXCEPT ![j] = v]

\* A failure inside Run is an error of Run, and is rolled back.
FailedAsDone(j) == Finish(j, "validated")       \* mutant of RunFails
RunFails(j) == Goto(j, "back") /\ UNCHANGED verdict

\* DeploymentReplicas, for Snapshot.
Snapshot(j) ==
  /\ step[j] = "snapshot"
  /\ \/ /\ ~ctxDone[j]
        /\ snap' = [snap EXCEPT ![j] = replicas]
        /\ Goto(j, "read") /\ UNCHANGED verdict
     \/ Finish(j, "notStarted") /\ UNCHANGED snap
  /\ UNCHANGED <<object, size, got, ctxDone>>

\* DeploymentReplicas again, by Run.
Read(j) ==
  /\ step[j] = "read"
  /\ \/ /\ ~ctxDone[j]
        /\ size' = [size EXCEPT ![j] = replicas]
        /\ Goto(j, "down") /\ UNCHANGED verdict
     \/ RunFails(j) /\ UNCHANGED size
  /\ UNCHANGED <<object, snap, got, ctxDone>>

\* ScaleDeployment's Get.
Get(j, at, next) ==
  /\ step[j] = at /\ ~ctxDone[j]
  /\ got' = [got EXCEPT ![j] = [version |-> version, limit |-> limit]]
  /\ Goto(j, next)
  /\ UNCHANGED <<object, snap, size, ctxDone, verdict>>

\* An Update of the whole object, made from what a Get returned: applied if
\* nothing was written since.  One whose answer is lost may have been applied.
BlindUpdate(v, n, m) == /\ replicas' = n /\ limit' = m   \* mutant of Update
                        /\ version' = version + 1
                        /\ UNCHANGED <<ready, touches>>
Update(v, n, m) == v = version /\ BlindUpdate(v, n, m)

Write(j, n) == Update(got[j].version, n, got[j].limit)

Put(j, at, n, next) ==
  /\ step[j] = at /\ ~ctxDone[j]
  /\ Write(j, n)
  /\ Goto(j, next)
  /\ UNCHANGED <<snap, size, got, ctxDone, verdict>>

\* The Get or the Update fails; Run gives up.
ScaleFails(j, steps) ==
  /\ step[j] \in steps
  /\ RunFails(j)
  /\ \/ UNCHANGED object
     \/ step[j] = "downPut" /\ Write(j, 0)
     \/ step[j] = "upPut" /\ Write(j, size[j])
  /\ UNCHANGED <<snap, size, got, ctxDone>>

ScaleDown(j) == Get(j, "down", "downPut") \/ Put(j, "downPut", 0, "up")
ScaleUp(j)   == Get(j, "up", "upPut") \/ Put(j, "upPut", size[j], "validate")
RunBreaks(j) == ScaleFails(j, {"down", "downPut", "up", "upPut"})

\* Healthy once ready >= want, at once when no replica is wanted; else the
\* wait runs out or a call of it fails.
Validate(j) ==
  /\ step[j] = "validate"
  /\ \/ ~ctxDone[j] /\ Finish(j, "validated")
     \/ Goto(j, "back") /\ UNCHANGED verdict
  /\ UNCHANGED <<object, snap, size, got, ctxDone>>

OneReplica(j) == 1                                        \* mutant of Restored
Restored(j) == snap[j]

\* Rollback: ScaleDeployment with the snapshot's size.
Rollback(j) ==
  \/ Get(j, "back", "backPut")
  \/ /\ step[j] = "backPut" /\ ~ctxDone[j]
     /\ Write(j, Restored(j))
     /\ Finish(j, "rolledBack")
     /\ UNCHANGED <<snap, size, got, ctxDone>>
  \/ /\ step[j] \in {"back", "backPut"}
     /\ Finish(j, "undoFailed")
     /\ UNCHANGED object \/ (step[j] = "backPut" /\ Write(j, Restored(j)))
     /\ UNCHANGED <<snap, size, got, ctxDone>>

\* The request is abandoned, or the agent shuts down.
Cancel(j) ==
  /\ ~ctxDone[j] /\ step[j] # "done"
  /\ ctxDone' = [ctxDone EXCEPT ![j] = TRUE]
  /\ UNCHANGED <<object, step, snap, size, got, verdict>>

\* The controller updates the object's status, not its size.
Touch ==
  /\ touches < MaxTouches
  /\ touches' = touches + 1 /\ version' = version + 1
  /\ ready' \in {0, Original}
  /\ UNCHANGED <<replicas, limit, step, snap, size, got, ctxDone, verdict>>

Job(j) == Snapshot(j) \/ Read(j) \/ ScaleDown(j) \/ ScaleUp(j) \/ RunBreaks(j)
          \/ Validate(j) \/ Rollback(j)
ScaleNext == Touch \/ \E j \in Jobs : Job(j) \/ Cancel(j)

ScaleSpec == ScaleInit /\ [][ScaleNext]_scaleVars

-----------------------------------------------------------------------------
(* Properties.                                                             *)

ScaleTypeOK ==
  /\ replicas \in {0, Original} /\ limit \in Nat /\ ready \in {0, Original}
  /\ version \in Nat /\ touches \in 0..MaxTouches
  /\ step \in [Jobs -> Steps]
  /\ snap \in [Jobs -> {0, Original}] /\ size \in [Jobs -> {0, Original}]
  /\ \A j \in Jobs : got[j].version \in 0..version
  /\ ctxDone \in [Jobs -> BOOLEAN]
  /\ verdict \in [Jobs -> Verdicts]

AllDone == \A j \in Jobs : step[j] = "done"

\* "Rollback undoes Run using the snapshot taken before it, when Run either
\* failed outright or Validate reports the incident persists": once every
\* ladder is over the Deployment has the size it had, unless one of them
\* reports that its rollback failed (runOne, crashloopbackoff Run, Rollback).
SizeIsKept ==
  AllDone => replicas = Original \/ \E j \in Jobs : verdict[j] = "undoFailed"

\* A rung does nothing it does not report: while no job is between its first
\* write and its verdict the Deployment is not scaled down, except by a job
\* that said so.  For one job at a time.
DownIsAccountedFor ==
  \A j \in Jobs : Jobs = {j} /\ replicas = 0 =>
    \/ step[j] \in {"up", "upPut", "back", "backPut"}
    \/ step[j] = "done" /\ verdict[j] = "undoFailed"
=============================================================================
