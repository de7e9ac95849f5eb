------------------------------ MODULE PodScan ------------------------------
(***************************************************************************)
(* The agent's cluster scan on one pod (internal/agentcore Scan,           *)
(* classifyPod, refineExecFormatError) and the diagnosis asked for with    *)
(* the kind the scan reported (internal/k8sclient's reads, for the         *)
(* playbooks of internal/playbooks/corek8s).  Each reads the pod when it   *)
(* runs, while the kubelet goes on.                                        *)
(***************************************************************************)
EXTENDS Integers, Sequences, FiniteSetsExt

CONSTANTS
  Sizes,      \* how many containers the pod may have
  Endings,    \* how an instance may end: [why, exit, text]
  WaitsFor,   \* the reasons a container may wait for, but CrashLoopBackOff
  MaxEndings  \* instances that end (a bound)

ASSUME ScanAssumption == Sizes \subseteq Nat \ {0} /\ MaxEndings \in Nat
\* "none" stands for a termination the status does not hold.
ASSUME EndingsAssumption == \A e \in Endings : e.why # "none"

VARIABLES
  width,      \* how many it has
  pod,        \* status.containerStatuses: <<>> while it is not scheduled
  log,        \* the first container's log: of the current instance and the last
  endings,
  scan,       \* where the scan is
  listed,     \* the pod as ListPods returned it
  kind,       \* what is reported of it, "" for nothing
  diagnosis,  \* what Diagnose read of the first container
  fresh       \* no container has ended since the pod was listed

podVars == <<width, pod, log, endings>>
scanVars == <<podVars, scan, listed, kind, diagnosis, fresh>>

NoEnd == [why |-> "none", exit |-> 0]
Creating == [is |-> "waiting", why |-> "ContainerCreating", exit |-> 0, last |-> NoEnd, restarts |-> 0]
NotRead == [found |-> FALSE, why |-> "none"]

ScanInit ==
  /\ width \in Sizes /\ pod = <<>> /\ endings = 0
  /\ log = [current |-> "", previous |-> ""]
  /\ scan = "idle" /\ listed = <<>> /\ kind = ""
  /\ diagnosis = NotRead /\ fresh = TRUE

-----------------------------------------------------------------------------
(* The kubelet.                                                            *)

EndOf(c) == [why |-> c.why, exit |-> c.exit]

\* The container's state changes; an instance that had ended becomes the last.
Becomes(i, state, why, exit) ==
  pod' = [pod EXCEPT ![i] =
    [is |-> state, why |-> why, exit |-> exit,
     last |-> IF @.is = "terminated" THEN EndOf(@) ELSE @.last,
     restarts |-> IF state = "running" /\ (@.is = "terminated" \/ @.last # NoEnd)
                  THEN @.restarts + 1 ELSE @.restarts]]

PodIs == UNCHANGED <<width, scan, listed, kind, diagnosis>>

Schedule ==
  /\ pod = <<>>
  /\ pod' = [i \in 1..width |-> Creating]
  /\ UNCHANGED <<log, endings, fresh>> /\ PodIs

Wait(i) ==
  /\ pod[i].is # "running"
  /\ \/ \E why \in WaitsFor : Becomes(i, "waiting", why, 0)
     \/ pod[i].is = "terminated" /\ Becomes(i, "waiting", "CrashLoopBackOff", 0)
  /\ UNCHANGED <<log, endings, fresh>> /\ PodIs

Start(i) ==
  /\ pod[i].is # "running"
  /\ Becomes(i, "running", "", 0)
  /\ log' = IF i = 1 /\ (pod[i].is = "terminated" \/ pod[i].last # NoEnd)
            THEN [current |-> "", previous |-> log.current] ELSE log
  /\ UNCHANGED <<endings, fresh>> /\ PodIs

Stop(i) ==
  /\ pod[i].is = "running" /\ endings < MaxEndings
  /\ \E e \in Endings :
       /\ Becomes(i, "terminated", e.why, e.exit)
       /\ log' = IF i = 1 THEN [log EXCEPT !.current = e.text] ELSE log
  /\ endings' = endings + 1
  /\ fresh' = FALSE
  /\ PodIs

-----------------------------------------------------------------------------
(* classifyPod.                                                            *)

transientWaitingReasons == {"ContainerCreating", "PodInitializing", ""}
ImageFaults  == {"ImagePullBackOff", "ErrImagePull"}
ConfigFaults == {"CreateContainerConfigError", "CreateContainerError"}

Waits(c, reasons) == c.is = "waiting" /\ c.why \in reasons

\* The termination of the current state, or else the last one.
LastEnd(c) == IF c.is = "terminated" THEN EndOf(c) ELSE c.last

\* The first rule that applies: a cause before the back-off it leads to.
Verdict(c) ==
  IF c.is = "running" THEN ""
  ELSE IF Waits(c, ImageFaults) THEN "PodImagePullBackOff"
  ELSE IF Waits(c, ConfigFaults) THEN "PodCreateContainerError"
  ELSE IF LastEnd(c).why = "OOMKilled" THEN "PodOOMKilled"
  ELSE IF Waits(c, {"CrashLoopBackOff"}) THEN "PodCrashLoopBackOff"
  ELSE IF \/ LastEnd(c).exit # 0 /\ c.restarts > 0
          \/ c.is = "waiting" /\ c.why \notin transientWaitingReasons
       THEN "PodUnknownError"
  ELSE ""

UpToRunning(p) == {i \in DOMAIN p : \A j \in 1..i : p[j].is # "running"} \* mutant of Considered
Considered(p) == DOMAIN p

\* Of the containers with a verdict, the first speaks for the pod.
classifyPod(p) ==
  LET bad == {i \in Considered(p) : Verdict(p[i]) # ""} IN
    IF p = <<>> THEN "PodPending" ELSE IF bad = {} THEN "" ELSE Verdict(p[Min(bad)])

-----------------------------------------------------------------------------
(* Scan.                                                                   *)

Report(k) == scan' = "reported" /\ kind' = k

ListPods ==
  /\ scan = "idle"
  /\ listed' = pod /\ fresh' = TRUE
  /\ IF classifyPod(pod) = "PodUnknownError" THEN scan' = "logs" /\ UNCHANGED kind
     ELSE Report(classifyPod(pod))
  /\ UNCHANGED <<podVars, diagnosis>>

\* ContainerLogs names no container, which the API server refuses for a pod
\* with several; the read may fail anyway.
LogRead(previous) ==
  {"error"} \cup
  (IF Len(pod) > 1 \/ (previous /\ pod[1].restarts = 0) THEN {}
   ELSE {IF previous THEN log.previous ELSE log.current})

Refined(text) == IF text = "exec" THEN "PodExecFormatError" ELSE "PodUnknownError"

RefineByCurrent ==
  /\ scan = "logs"
  /\ \E text \in LogRead(FALSE) :
       IF text \in {"error", ""} /\ listed[1].restarts > 0
       THEN scan' = "previousLogs" /\ UNCHANGED kind
       ELSE Report(Refined(text))
  /\ UNCHANGED <<podVars, listed, diagnosis, fresh>>

RefineByPrevious ==
  /\ scan = "previousLogs"
  /\ \E text \in LogRead(TRUE) : Report(Refined(text))
  /\ UNCHANGED <<podVars, listed, diagnosis, fresh>>

-----------------------------------------------------------------------------
(* Diagnose, of the playbook that takes the reported kind.                 *)

CurrentOnly(c) == IF c.is = "terminated" THEN EndOf(c) ELSE NoEnd \* mutant of ContainerTermination
ContainerTermination(c) == IF c.is = "terminated" THEN EndOf(c) ELSE c.last

Diagnose ==
  /\ scan = "reported" /\ kind \in {"PodOOMKilled", "PodExecFormatError"}
  /\ LET e == ContainerTermination(pod[1])
     IN diagnosis' = [found |-> e # NoEnd, why |-> e.why]
  /\ scan' = "diagnosed"
  /\ UNCHANGED <<podVars, listed, kind, fresh>>

Kubelet == Schedule \/ \E i \in DOMAIN pod : Wait(i) \/ Start(i) \/ Stop(i)
ScanNext == Kubelet \/ ListPods \/ RefineByCurrent \/ RefineByPrevious \/ Diagnose
ScanSpec == ScanInit /\ [][ScanNext]_scanVars

-----------------------------------------------------------------------------
(* Properties.                                                             *)

ScanTypeOK ==
  /\ endings \in 0..MaxEndings /\ Len(pod) \in {0, width} /\ Len(listed) \in {0, width}
  /\ \A i \in DOMAIN pod : /\ pod[i].is \in {"waiting", "running", "terminated"}
                           /\ pod[i].restarts \in 0..MaxEndings
  /\ scan \in {"idle", "logs", "previousLogs", "reported", "diagnosed"}
  /\ fresh \in BOOLEAN

\* What is wrong with a container that is not up, said without the order in
\* which the code asks.
Ails(c) ==
  /\ c.is # "running"
  /\ \/ c.is = "waiting" /\ c.why \notin transientWaitingReasons
     \/ LastEnd(c).why = "OOMKilled"
     \/ LastEnd(c).exit # 0 /\ c.restarts > 0

\* A pod is reported exactly if one of its containers, wherever in the list,
\* is down for a reason; one that has recovered is not, whatever its history
\* says (Scan, classifyPod).
ScanReportsTheUnhealthy ==
  scan \in {"reported", "diagnosed"} =>
    (kind # "" <=> listed = <<>> \/ \E i \in DOMAIN listed : Ails(listed[i]))

\* The diagnosis asked for with a reported kind still finds how the container
\* ended, out of memory if that was the kind, although it may have gone on to
\* back off or to run again since: only another end hides it.  For the pods of
\* one container the read is made for (ContainerTermination).
DiagnosisFitsScan ==
  scan = "diagnosed" /\ width = 1 /\ fresh =>
    diagnosis.found /\ (kind = "PodOOMKilled" => diagnosis.why = "OOMKilled")
=============================================================================
