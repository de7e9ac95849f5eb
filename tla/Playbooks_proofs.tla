-------------------------- MODULE Playbooks_proofs --------------------------
(***************************************************************************)
(* Proofs about what a diagnosis and its remedy rest on: the cluster scan  *)
(* (PodScan), the writes two rungs make to one Deployment (MemoryRaise,    *)
(* with ScaleRemediation) and the runbooks that stand in where no playbook *)
(* knows the signal (Runbooks).  The three share no state.                 *)
(***************************************************************************)
EXTENDS PodScan, MemoryRaise, Runbooks, FiniteSetTheorems, SequenceTheorems,
        WellFoundedInduction, TLAPS

\* Induction on the natural numbers, from the minimum principle of
\* WellFoundedInduction: a set, unlike a predicate, can be instantiated.
LEMMA InductionOnNat ==
  ASSUME NEW S \in SUBSET Nat, 0 \in S, \A n \in S : n + 1 \in S
  PROVE  S = Nat
<1> DEFINE Rest == Nat \ S
<1>1. SUFFICES ASSUME Rest # {} PROVE FALSE
  BY DEF Rest
<1>2. PICK x \in Rest : \A y \in Rest : ~(<<y, x>> \in OpToRel(<, Nat))
  BY <1>1, NatLessThanWellFounded, WFMin
<1>3. \A y \in Rest : ~(y < x)
  BY <1>2 DEF OpToRel
<1>4. x - 1 \in S
  BY <1>3
<1> QED BY <1>4

(***************************************************************************)
(* PodScan: what is reported of a pod.                                     *)
(***************************************************************************)

LEMMA LeastOf ==
  ASSUME NEW S \in SUBSET Nat, S # {}
  PROVE  Min(S) \in S /\ \A y \in S : Min(S) <= y
<1>1. PICK x \in S : \A y \in S : ~(<<y, x>> \in OpToRel(<, Nat))
  BY NatLessThanWellFounded, WFMin
<1>2. \A y \in S : ~(y < x)
  BY <1>1 DEF OpToRel
<1>3. \E z \in S : \A y \in S : z <= y
  BY <1>2
<1> QED BY <1>3 DEF Min

\* The rules of classifyPod, applied in order, say of one container that it is
\* at fault exactly if it is.
LEMMA VerdictIsAils == \A c : Verdict(c) # "" <=> Ails(c)
<1> TAKE c
<1>1. CASE c.is = "running"
  BY <1>1 DEF Verdict, Ails
<1>2. CASE c.is # "running"
  <2>1. ImageFaults \cap transientWaitingReasons = {}
        /\ ConfigFaults \cap transientWaitingReasons = {}
        /\ "CrashLoopBackOff" \notin transientWaitingReasons
    BY DEF ImageFaults, ConfigFaults, transientWaitingReasons
  <2> QED BY <1>2, <2>1 DEF Verdict, Ails, Waits
<1> QED BY <1>1, <1>2

\* A pod's statuses: none yet, or one for each of its containers.
Statuses(p) == p = <<>> \/ (p # <<>> /\ DOMAIN p = 1..width)

LEMMA ClassifyIs ==
  ASSUME width \in Nat \ {0}, NEW p, Statuses(p)
  PROVE  /\ classifyPod(p) # "" <=> p = <<>> \/ \E i \in DOMAIN p : Ails(p[i])
         /\ classifyPod(p) = "PodUnknownError" => p # <<>>
         /\ p # <<>> /\ classifyPod(p) # "" =>
              \E i \in DOMAIN p : classifyPod(p) = Verdict(p[i])
<1> DEFINE bad == {i \in DOMAIN p : Verdict(p[i]) # ""}
<1>1. classifyPod(p) = IF p = <<>> THEN "PodPending"
                       ELSE IF bad = {} THEN "" ELSE Verdict(p[Min(bad)])
  BY DEF classifyPod, Considered
<1>2. CASE p = <<>>
  BY <1>1, <1>2
<1>3. CASE p # <<>> /\ bad = {}
  <2>1. \A i \in DOMAIN p : ~Ails(p[i])
    BY <1>3, VerdictIsAils
  <2> QED BY <1>1, <1>3, <2>1
<1>4. CASE p # <<>> /\ bad # {}
  <2>1. bad \in SUBSET Nat
    <3>1. DOMAIN p = 1..width
      BY <1>4 DEF Statuses
    <3>2. bad \subseteq DOMAIN p
      OBVIOUS
    <3> HIDE DEF bad
    <3> QED BY <3>1, <3>2
  <2>2. Min(bad) \in bad
    <3> HIDE DEF bad
    <3> QED BY <1>4, <2>1, LeastOf
  <2>3. classifyPod(p) = Verdict(p[Min(bad)])
    BY <1>1, <1>4
  <2>4. Min(bad) \in DOMAIN p /\ Verdict(p[Min(bad)]) # "" /\ Ails(p[Min(bad)])
    BY <2>2, VerdictIsAils
  <2> HIDE DEF bad
  <2> QED BY <1>4, <2>3, <2>4
<1> QED BY <1>2, <1>3, <1>4

\* What the scan goes on is what it listed; while it reads the log it has
\* already found the pod at fault.
ReportInv ==
  /\ width \in Nat \ {0} /\ Statuses(pod) /\ Statuses(listed)
  /\ scan \in {"idle", "logs", "previousLogs", "reported", "diagnosed"}
  /\ scan \in {"logs", "previousLogs"} =>
       listed # <<>> /\ \E i \in DOMAIN listed : Ails(listed[i])
  /\ ScanReportsTheUnhealthy

LEMMA KubeletStatuses ==
  ASSUME Statuses(pod), width \in Nat \ {0}, Kubelet
  PROVE  Statuses(pod') /\ PodIs /\ pod' # <<>>
<1>1. CASE Schedule
  <2>1. pod' = [i \in 1..width |-> Creating] /\ PodIs
    BY <1>1 DEF Schedule
  <2>2. 1 \in DOMAIN pod' /\ DOMAIN pod' = 1..width
    BY <2>1
  <2>3. 1 \notin DOMAIN <<>>
    OBVIOUS
  <2> QED BY <2>1, <2>2, <2>3 DEF Statuses
<1>2. CASE \E i \in DOMAIN pod : Wait(i) \/ Start(i) \/ Stop(i)
  <2>1. PICK i \in DOMAIN pod : Wait(i) \/ Start(i) \/ Stop(i)
    BY <1>2
  <2>2. PodIs /\ DOMAIN pod' = DOMAIN pod
    BY <2>1 DEF Wait, Start, Stop, Becomes
  <2>3. DOMAIN pod = 1..width /\ i \in DOMAIN pod'
    BY <2>1, <2>2 DEF Statuses
  <2>4. i \notin DOMAIN <<>>
    OBVIOUS
  <2> QED BY <2>2, <2>3, <2>4 DEF Statuses, PodIs
<1> QED BY <1>1, <1>2 DEF Kubelet

LEMMA ReportInvAlways == ScanSpec => []ReportInv
<1>1. ScanInit => ReportInv
  BY ScanAssumption DEF ScanInit, ReportInv, Statuses, ScanReportsTheUnhealthy
<1>2. ReportInv /\ [ScanNext]_scanVars => ReportInv'
  <2> SUFFICES ASSUME ReportInv, [ScanNext]_scanVars PROVE ReportInv'
    OBVIOUS
  <2> USE DEF ReportInv, ScanReportsTheUnhealthy
  <2>1. CASE Kubelet
    BY <2>1, KubeletStatuses DEF PodIs, Statuses
  <2>2. CASE ListPods
    <3>1. Statuses(listed)' /\ listed' = pod /\ UNCHANGED podVars
      BY <2>2 DEF ListPods, podVars, Statuses
    <3>2. CASE classifyPod(pod) = "PodUnknownError"
      BY <2>2, <3>1, <3>2, ClassifyIs DEF ListPods, podVars, Statuses
    <3>3. CASE classifyPod(pod) # "PodUnknownError"
      BY <2>2, <3>1, <3>3, ClassifyIs DEF ListPods, Report, podVars, Statuses
    <3> QED BY <3>2, <3>3
  <2>3. CASE RefineByCurrent \/ RefineByPrevious
    BY <2>3 DEF RefineByCurrent, RefineByPrevious, Report, Refined, podVars, Statuses
  <2>4. CASE Diagnose
    BY <2>4 DEF Diagnose, podVars, Statuses
  <2>5. CASE UNCHANGED scanVars
    BY <2>5 DEF scanVars, podVars, Statuses
  <2> QED BY <2>1, <2>2, <2>3, <2>4, <2>5 DEF ScanNext
<1> QED BY <1>1, <1>2, PTL DEF ScanSpec

\* A pod is reported exactly if one of its containers, wherever in the list,
\* is down for a reason, however many containers it has and whatever happened
\* to them before (Scan, classifyPod).
THEOREM UnhealthyAreReported == ScanSpec => []ScanReportsTheUnhealthy
<1>1. ReportInv => ScanReportsTheUnhealthy
  BY DEF ReportInv
<1> QED BY <1>1, ReportInvAlways, PTL

\* A container's list of statuses, as a sequence.
IsList(p) == p = <<>> \/ p = [i \in 1..width |-> p[i]]

\* An instance of the container has ended: its restart is yet to be counted if
\* it is not running.
HasEnded(c) == c.is = "terminated" \/ c.last # NoEnd
StatusOK(c) ==
  /\ c.is \in {"waiting", "running", "terminated"}
  /\ c.restarts \in 0..endings
  /\ c.is # "running" /\ HasEnded(c) => c.restarts < endings

\* ScanTypeOK is not inductive: that the restarts of a container are bounded
\* rests on each being preceded by an end of its own.
ScanTypeInv ==
  /\ width \in Nat \ {0} /\ endings \in 0..MaxEndings /\ fresh \in BOOLEAN
  /\ scan \in {"idle", "logs", "previousLogs", "reported", "diagnosed"}
  /\ IsList(pod) /\ IsList(listed)
  /\ \A i \in DOMAIN pod : StatusOK(pod[i])

LEMMA ListLength ==
  ASSUME width \in Nat, NEW p, IsList(p)
  PROVE  Len(p) \in {0, width} /\ (p # <<>> => DOMAIN p = 1..width)
<1>1. CASE p = <<>>
  BY <1>1
<1>2. CASE p = [i \in 1..width |-> p[i]]
  <2> DEFINE S == {p[i] : i \in 1..width}
  <2>1. p \in [1..width -> S]
    BY <1>2
  <2>2. p \in Seq(S)
    BY <2>1, SeqDef
  <2>3. DOMAIN p = 1..width
    BY <2>1
  <2> HIDE DEF S
  <2> QED BY <2>2, <2>3
<1> QED BY <1>1, <1>2 DEF IsList

\* A container that changes state, its instances counted.
LEMMA BecomesOK ==
  ASSUME ScanTypeInv, NEW i \in DOMAIN pod, NEW state \in {"waiting", "running", "terminated"},
         NEW why, NEW exit, Becomes(i, state, why, exit), UNCHANGED width,
         pod[i].is # "running" \/ state = "terminated",
         endings' \in 0..MaxEndings, endings <= endings',
         state = "terminated" => endings' = endings + 1
  PROVE  /\ IsList(pod') /\ \A j \in DOMAIN pod' : StatusOK(pod[j])'
<1>t. endings \in Nat /\ endings' \in Nat /\ MaxEndings \in Nat
  BY ScanAssumption DEF ScanTypeInv
<1>0. pod = [j \in 1..width |-> pod[j]] /\ i \in 1..width
  BY DEF ScanTypeInv, IsList
<1> DEFINE new == [is |-> state, why |-> why, exit |-> exit,
                   last |-> IF pod[i].is = "terminated" THEN EndOf(pod[i]) ELSE pod[i].last,
                   restarts |-> IF state = "running"
                                   /\ (pod[i].is = "terminated" \/ pod[i].last # NoEnd)
                                THEN pod[i].restarts + 1 ELSE pod[i].restarts]
<1>1. pod' = [pod EXCEPT ![i] = new]
  BY DEF Becomes
<1>2. StatusOK(pod[i])
  BY DEF ScanTypeInv
<1>3. /\ new.is = state
      /\ new.restarts = IF state = "running" /\ HasEnded(pod[i])
                        THEN pod[i].restarts + 1 ELSE pod[i].restarts
      /\ new.last = IF pod[i].is = "terminated" THEN EndOf(pod[i]) ELSE pod[i].last
  BY DEF HasEnded
<1> HIDE DEF new
<1>4. state = "waiting" /\ new.last # NoEnd => HasEnded(pod[i])
  BY <1>3 DEF HasEnded
<1>5. new.is \in {"waiting", "running", "terminated"} /\ new.restarts \in 0..endings'
  BY <1>2, <1>3, <1>t DEF StatusOK
<1>6. new.is # "running" /\ HasEnded(new) => new.restarts < endings'
  <2>1. CASE state = "terminated"
    BY <1>2, <1>3, <1>t, <2>1 DEF StatusOK
  <2>2. CASE state = "waiting"
    BY <1>2, <1>3, <1>4, <1>t, <2>2 DEF StatusOK, HasEnded
  <2> QED BY <1>3, <2>1, <2>2
<1>7. IsList(pod')
  BY <1>0, <1>1 DEF IsList
<1>8. ASSUME NEW j \in DOMAIN pod' PROVE StatusOK(pod[j])'
  <2>1. CASE j = i
    BY <1>0, <1>1, <1>5, <1>6, <2>1 DEF StatusOK, HasEnded
  <2>2. CASE j # i
    <3>1. j \in DOMAIN pod /\ pod'[j] = pod[j]
      BY <1>0, <1>1, <1>8, <2>2
    <3>2. StatusOK(pod[j])
      BY <3>1 DEF ScanTypeInv
    <3> QED BY <1>t, <3>1, <3>2 DEF StatusOK, HasEnded
  <2> QED BY <2>1, <2>2
<1> QED BY <1>7, <1>8

LEMMA ScanTypeStep == ScanTypeInv /\ [ScanNext]_scanVars => ScanTypeInv'
<1> SUFFICES ASSUME ScanTypeInv, [ScanNext]_scanVars PROVE ScanTypeInv'
  OBVIOUS
<1>t. endings \in Nat /\ MaxEndings \in Nat
  BY ScanAssumption DEF ScanTypeInv
<1>l. ASSUME UNCHANGED <<width, scan, listed, kind, diagnosis>>, fresh' \in BOOLEAN,
             endings' \in 0..MaxEndings, IsList(pod'), \A j \in DOMAIN pod' : StatusOK(pod[j])'
      PROVE  ScanTypeInv'
  BY <1>l DEF ScanTypeInv, IsList
<1>1. CASE Schedule
  <2>1. pod' = [i \in 1..width |-> Creating] /\ UNCHANGED <<endings, fresh>> /\ PodIs
    BY <1>1 DEF Schedule
  <2>2. IsList(pod')
    BY <2>1 DEF IsList, PodIs
  <2>3. \A j \in DOMAIN pod' : StatusOK(pod[j])'
    BY <1>t, <2>1 DEF StatusOK, HasEnded, Creating
  <2> QED BY <1>l, <2>1, <2>2, <2>3 DEF PodIs, ScanTypeInv
<1>2. ASSUME NEW i \in DOMAIN pod, Wait(i) PROVE ScanTypeInv'
  <2>1. PICK why : Becomes(i, "waiting", why, 0)
    BY <1>2 DEF Wait
  <2>2. UNCHANGED <<endings, fresh>> /\ PodIs /\ pod[i].is # "running"
    BY <1>2 DEF Wait
  <2>3. IsList(pod') /\ \A j \in DOMAIN pod' : StatusOK(pod[j])'
    BY <1>t, <2>1, <2>2, BecomesOK DEF PodIs, ScanTypeInv
  <2> QED BY <1>l, <2>2, <2>3 DEF PodIs, ScanTypeInv
<1>3. ASSUME NEW i \in DOMAIN pod, Start(i) PROVE ScanTypeInv'
  <2>s. Becomes(i, "running", "", 0) /\ UNCHANGED <<endings, fresh>> /\ PodIs /\ pod[i].is # "running"
    BY <1>3, Zenon DEF Start
  <2>1. PICK why : Becomes(i, "running", why, 0) /\ UNCHANGED <<endings, fresh>> /\ PodIs
                   /\ pod[i].is # "running"
    BY <2>s, Zenon
  <2>2. IsList(pod') /\ \A j \in DOMAIN pod' : StatusOK(pod[j])'
    BY <1>t, <2>1, BecomesOK DEF PodIs, ScanTypeInv
  <2> QED BY <1>l, <2>1, <2>2 DEF PodIs, ScanTypeInv
<1>4. ASSUME NEW i \in DOMAIN pod, Stop(i) PROVE ScanTypeInv'
  <2>1. PICK e \in Endings : Becomes(i, "terminated", e.why, e.exit)
    BY <1>4 DEF Stop
  <2>2. endings < MaxEndings /\ endings' = endings + 1 /\ fresh' = FALSE /\ PodIs
    BY <1>4 DEF Stop
  <2>3. endings' \in 0..MaxEndings
    BY <1>t, <2>2
  <2>4. IsList(pod') /\ \A j \in DOMAIN pod' : StatusOK(pod[j])'
    BY <1>t, <2>1, <2>2, <2>3, BecomesOK DEF PodIs
  <2> QED BY <1>l, <2>2, <2>3, <2>4 DEF PodIs
<1>5. CASE ListPods
  <2>1. UNCHANGED <<width, pod, endings>> /\ listed' = pod /\ fresh' = TRUE
    BY <1>5 DEF ListPods, podVars
  <2>2. scan' \in {"logs", "reported"}
    BY <1>5 DEF ListPods, Report
  <2> QED BY <2>1, <2>2 DEF ScanTypeInv, IsList, StatusOK
<1>6. CASE RefineByCurrent \/ RefineByPrevious \/ Diagnose
  <2>1. UNCHANGED <<podVars, listed, fresh>>
    BY <1>6, Zenon DEF RefineByCurrent, RefineByPrevious, Diagnose
  <2>2. scan' \in {"previousLogs", "reported", "diagnosed"}
    <3>1. CASE RefineByCurrent
      BY <3>1, Zenon DEF RefineByCurrent, Report
    <3>2. CASE RefineByPrevious \/ Diagnose
      BY <3>2, Zenon DEF RefineByPrevious, Diagnose, Report
    <3> QED BY <1>6, <3>1, <3>2
  <2> QED BY <2>1, <2>2 DEF podVars, ScanTypeInv, IsList, StatusOK
<1>7. CASE UNCHANGED scanVars
  BY <1>7 DEF scanVars, podVars, ScanTypeInv, IsList, StatusOK
<1> QED BY <1>1, <1>2, <1>3, <1>4, <1>5, <1>6, <1>7 DEF ScanNext, Kubelet

\* The pod's statuses and the list the scan keeps have one entry for each of
\* its containers, and no container restarts more often than instances ended,
\* for any number of either (classifyPod).
THEOREM ScanTypeCorrect == ScanSpec => []ScanTypeOK
<1>1. ScanInit => ScanTypeInv
  <2> SUFFICES ASSUME ScanInit PROVE ScanTypeInv
    OBVIOUS
  <2>1. /\ width \in Sizes /\ pod = <<>> /\ listed = <<>> /\ endings = 0
        /\ scan = "idle" /\ fresh = TRUE
    BY Zenon DEF ScanInit
  <2>2. DOMAIN pod = {}
    BY <2>1
  <2> QED BY <2>1, <2>2, ScanAssumption DEF ScanTypeInv, IsList
<1>2. ScanTypeInv => ScanTypeOK
  <2> SUFFICES ASSUME ScanTypeInv PROVE ScanTypeOK
    OBVIOUS
  <2>1. Len(pod) \in {0, width} /\ Len(listed) \in {0, width}
    BY ListLength DEF ScanTypeInv
  <2>2. \A i \in DOMAIN pod : pod[i].restarts \in 0..MaxEndings
    BY ScanAssumption DEF ScanTypeInv, StatusOK
  <2> QED BY <2>1, <2>2 DEF ScanTypeInv, ScanTypeOK, StatusOK
<1> QED BY <1>1, <1>2, ScanTypeStep, PTL DEF ScanSpec

(***************************************************************************)
(* PodScan: the diagnosis asked for with the reported kind.                *)
(***************************************************************************)

\* How the first container ended, as the diagnosis will read it.
FirstEnd(p) == ContainerTermination(p[1])

\* DiagnosisFitsScan reaches back to the list the kind came from: while no
\* container has ended since, the diagnosis would read the end the scan saw,
\* and a log with something in it is that of a container that has ended.
DiagInv ==
  /\ pod = <<>> => log = [current |-> "", previous |-> ""]
  /\ log.current # "" \/ log.previous # "" => FirstEnd(pod) # NoEnd
  /\ scan # "idle" /\ listed # <<>> => pod # <<>>
  /\ scan # "idle" /\ listed # <<>> /\ fresh => FirstEnd(pod) = FirstEnd(listed)
  /\ scan \in {"reported", "diagnosed"} /\ kind # "" /\ kind # "PodPending" => listed # <<>>
  /\ scan \in {"reported", "diagnosed"} /\ width = 1 /\ kind = "PodOOMKilled" =>
       FirstEnd(listed).why = "OOMKilled"
  /\ scan = "reported" /\ kind = "PodExecFormatError" => FirstEnd(pod) # NoEnd
  /\ scan = "diagnosed" => kind \in {"PodOOMKilled", "PodExecFormatError"}
  /\ DiagnosisFitsScan

\* How a container's next state changes what is known of its end.
LEMMA EndAfter ==
  ASSUME width \in Nat \ {0}, Statuses(pod), NEW i \in DOMAIN pod,
         NEW st, NEW why, NEW ex, Becomes(i, st, why, ex)
  PROVE  /\ i # 1 \/ st # "terminated" => FirstEnd(pod') = FirstEnd(pod)
         /\ i = 1 /\ st = "terminated" => FirstEnd(pod') = [why |-> why, exit |-> ex]
<1> DEFINE new == [is |-> st, why |-> why, exit |-> ex,
                   last |-> IF pod[i].is = "terminated" THEN EndOf(pod[i]) ELSE pod[i].last,
                   restarts |-> IF st = "running" /\ (pod[i].is = "terminated" \/ pod[i].last # NoEnd)
                                THEN pod[i].restarts + 1 ELSE pod[i].restarts]
<1>1. pod' = [pod EXCEPT ![i] = new]
  BY DEF Becomes
<1>2. 1 \in DOMAIN pod
  <2>1. i \notin DOMAIN <<>>
    OBVIOUS
  <2> QED BY <2>1 DEF Statuses
<1>3. CASE i # 1
  <2>1. pod'[1] = pod[1]
    <3> HIDE DEF new
    <3> QED BY <1>1, <1>2, <1>3
  <2> QED BY <1>3, <2>1 DEF FirstEnd
<1>4. CASE i = 1
  <2>1. pod'[1] = new
    <3> HIDE DEF new
    <3> QED BY <1>1, <1>2, <1>4
  <2>2. /\ new.is = st /\ new.why = why /\ new.exit = ex
        /\ new.last = IF pod[1].is = "terminated" THEN EndOf(pod[1]) ELSE pod[1].last
    BY <1>4
  <2> HIDE DEF new
  <2> QED BY <1>4, <2>1, <2>2 DEF FirstEnd, ContainerTermination, EndOf
<1> QED BY <1>3, <1>4

\* The kubelet loses no end but by another end.
LEMMA KubeletKeepsEnds ==
  ASSUME ReportInv, DiagInv, Kubelet
  PROVE  /\ pod' # <<>>
         /\ pod # <<>> /\ fresh' => fresh /\ FirstEnd(pod') = FirstEnd(pod)
         /\ pod # <<>> /\ FirstEnd(pod) # NoEnd => FirstEnd(pod') # NoEnd
         /\ log'.current # "" \/ log'.previous # "" => FirstEnd(pod') # NoEnd
         /\ pod = <<>> => UNCHANGED log
<1>w. width \in Nat \ {0} /\ Statuses(pod)
  BY DEF ReportInv
<1>0. pod' # <<>>
  BY <1>w, KubeletStatuses
<1>1. CASE Schedule
  <2>1. pod = <<>> /\ log' = log
    BY <1>1 DEF Schedule
  <2>2. log = [current |-> "", previous |-> ""]
    BY <2>1 DEF DiagInv
  <2>3. log.current = "" /\ log.previous = ""
    BY <2>2
  <2> QED BY <1>0, <2>1, <2>3
<1>2. ASSUME NEW i \in DOMAIN pod, Wait(i) \/ Start(i) \/ Stop(i)
      PROVE  pod # <<>>
  BY <1>2, SMT
<1>3. ASSUME NEW i \in DOMAIN pod, Wait(i) \/ Start(i)
      PROVE  /\ fresh' = fresh /\ FirstEnd(pod') = FirstEnd(pod)
             /\ log'.current # "" \/ log'.previous # "" => FirstEnd(pod) # NoEnd
  <2>1. \E st, why, ex : Becomes(i, st, why, ex) /\ st # "terminated"
    <3>1. CASE Wait(i)
      <4>1. \E why : Becomes(i, "waiting", why, 0)
        BY <3>1 DEF Wait
      <4> QED BY <4>1, "waiting" # "terminated", Zenon
    <3>2. CASE Start(i)
      <4>1. Becomes(i, "running", "", 0)
        BY <3>2 DEF Start
      <4> QED BY <4>1, "running" # "terminated", Zenon
    <3> QED BY <1>3, <3>1, <3>2
  <2>2. FirstEnd(pod') = FirstEnd(pod)
    BY <1>w, <2>1, EndAfter
  <2>3. fresh' = fresh
    BY <1>3 DEF Wait, Start
  <2>4. log' = log \/ log' = [current |-> "", previous |-> log.current]
    BY <1>3 DEF Wait, Start
  <2>5. log'.current # "" \/ log'.previous # "" => log.current # "" \/ log.previous # ""
    <3>1. CASE log' = log
      BY <3>1
    <3>2. CASE log' = [current |-> "", previous |-> log.current]
      <4>1. log'.current = "" /\ log'.previous = log.current
        BY <3>2
      <4> QED BY <4>1
    <3> QED BY <2>4, <3>1, <3>2
  <2>6. log.current # "" \/ log.previous # "" => FirstEnd(pod) # NoEnd
    BY DEF DiagInv
  <2> QED BY <2>2, <2>3, <2>5, <2>6
<1>4. ASSUME NEW i \in DOMAIN pod, Stop(i)
      PROVE  /\ ~fresh'
             /\ FirstEnd(pod) # NoEnd => FirstEnd(pod') # NoEnd
             /\ log'.current # "" \/ log'.previous # "" => FirstEnd(pod') # NoEnd
  <2>1. PICK e \in Endings : /\ Becomes(i, "terminated", e.why, e.exit)
                             /\ log' = IF i = 1 THEN [log EXCEPT !.current = e.text] ELSE log
    BY <1>4 DEF Stop
  <2>2. ~fresh'
    BY <1>4 DEF Stop
  <2>3. CASE i = 1
    <3>1. FirstEnd(pod') = [why |-> e.why, exit |-> e.exit]
      BY <1>w, <2>1, <2>3, EndAfter
    <3>2. FirstEnd(pod').why # NoEnd.why
      BY <3>1, EndingsAssumption DEF NoEnd
    <3> QED BY <2>2, <3>2
  <2>4. CASE i # 1
    <3>1. FirstEnd(pod') = FirstEnd(pod)
      BY <1>w, <2>1, <2>4, EndAfter
    <3> QED BY <2>1, <2>2, <2>4, <3>1 DEF DiagInv
  <2> QED BY <2>3, <2>4
<1>5. CASE \E i \in DOMAIN pod : Wait(i) \/ Start(i)
  BY <1>0, <1>2, <1>3, <1>5
<1>6. CASE \E i \in DOMAIN pod : Stop(i)
  BY <1>0, <1>2, <1>4, <1>6
<1> QED BY <1>1, <1>5, <1>6 DEF Kubelet

\* A log read that shows the format error is that of a container that ended.
LEMMA ExecTextEnded ==
  ASSUME DiagInv, NEW previous \in BOOLEAN, "exec" \in LogRead(previous)
  PROVE  FirstEnd(pod) # NoEnd
<1>1. log.current = "exec" \/ log.previous = "exec"
  BY DEF LogRead
<1> QED BY <1>1 DEF DiagInv

LEMMA DiagInvStep == ReportInv /\ DiagInv /\ [ScanNext]_scanVars => DiagInv'
<1> SUFFICES ASSUME ReportInv, DiagInv, [ScanNext]_scanVars PROVE DiagInv'
  OBVIOUS
<1>w. width \in Nat \ {0} /\ Statuses(pod) /\ Statuses(listed)
  BY DEF ReportInv
<1>1. CASE Kubelet
  <2>1. UNCHANGED <<width, scan, listed, kind, diagnosis>>
    BY <1>w, <1>1, KubeletStatuses DEF PodIs
  <2>2. /\ pod' # <<>>
        /\ pod # <<>> /\ fresh' => fresh /\ FirstEnd(pod') = FirstEnd(pod)
        /\ pod # <<>> /\ FirstEnd(pod) # NoEnd => FirstEnd(pod') # NoEnd
        /\ log'.current # "" \/ log'.previous # "" => FirstEnd(pod') # NoEnd
    BY <1>1, KubeletKeepsEnds
  <2>3. scan = "diagnosed" => listed # <<>> /\ pod # <<>>
    BY DEF DiagInv
  <2>4. scan = "reported" /\ kind = "PodExecFormatError" => pod # <<>>
    BY DEF DiagInv
  <2>5. scan # "idle" /\ listed # <<>> => pod # <<>>
    BY DEF DiagInv
  <2>6. DiagnosisFitsScan'
    BY <2>1, <2>2, <2>3 DEF DiagInv, DiagnosisFitsScan
  <2> QED BY <2>1, <2>2, <2>4, <2>5, <2>6 DEF DiagInv
<1>2. CASE ListPods
  <2>1. listed' = pod /\ UNCHANGED <<width, pod, log, diagnosis>> /\ scan' \in {"logs", "reported"}
    BY <1>2 DEF ListPods, podVars, Report
  <2>2. scan' = "reported" => kind' = classifyPod(pod)
    BY <1>2 DEF ListPods, Report
  <2>3. pod = <<>> => classifyPod(pod) = "PodPending"
    BY DEF classifyPod
  <2>4. ASSUME pod # <<>>, classifyPod(pod) # ""
        PROVE  /\ classifyPod(pod) # "PodExecFormatError"
               /\ width = 1 /\ classifyPod(pod) = "PodOOMKilled" => FirstEnd(pod).why = "OOMKilled"
    <3>1. PICK i \in DOMAIN pod : classifyPod(pod) = Verdict(pod[i])
      BY <1>w, <2>4, ClassifyIs
    <3>2. Verdict(pod[i]) # "PodExecFormatError"
          /\ (Verdict(pod[i]) = "PodOOMKilled" => LastEnd(pod[i]).why = "OOMKilled")
      BY DEF Verdict
    <3>3. width = 1 => i = 1
      <4>1. i \in 1..width
        BY <1>w, <2>4 DEF Statuses
      <4> QED BY <4>1
    <3> QED BY <3>1, <3>2, <3>3 DEF FirstEnd, LastEnd, ContainerTermination
  <2> QED BY <2>1, <2>2, <2>3, <2>4 DEF DiagInv, DiagnosisFitsScan
<1>3. CASE RefineByCurrent \/ RefineByPrevious
  <2>1. /\ scan \in {"logs", "previousLogs"} /\ scan' \in {"previousLogs", "reported"}
        /\ UNCHANGED <<width, pod, log, listed, diagnosis, fresh>>
    BY <1>3 DEF RefineByCurrent, RefineByPrevious, Report, podVars
  <2>2. scan' = "reported" =>
          \E previous \in BOOLEAN : \E found \in LogRead(previous) : kind' = Refined(found)
    BY <1>3 DEF RefineByCurrent, RefineByPrevious, Report
  <2>3. scan' = "reported" => kind' \in {"PodExecFormatError", "PodUnknownError"}
        /\ (kind' = "PodExecFormatError" => \E previous \in BOOLEAN : "exec" \in LogRead(previous))
    BY <2>2 DEF Refined
  <2>4. scan' = "reported" /\ kind' = "PodExecFormatError" => FirstEnd(pod) # NoEnd
    BY <2>3, ExecTextEnded
  <2>5. listed # <<>>
    BY <2>1 DEF ReportInv
  <2> QED BY <2>1, <2>3, <2>4, <2>5 DEF DiagInv, DiagnosisFitsScan
<1>4. CASE Diagnose
  <2>1. /\ scan = "reported" /\ scan' = "diagnosed" /\ UNCHANGED <<width, pod, log, listed, kind, fresh>>
        /\ kind \in {"PodOOMKilled", "PodExecFormatError"}
        /\ diagnosis' = [found |-> FirstEnd(pod) # NoEnd, why |-> FirstEnd(pod).why]
    BY <1>4 DEF Diagnose, podVars, FirstEnd
  <2>2. ASSUME width = 1, fresh
        PROVE  /\ FirstEnd(pod) # NoEnd
               /\ kind = "PodOOMKilled" => FirstEnd(pod).why = "OOMKilled"
    <3>1. kind = "PodOOMKilled" => FirstEnd(pod).why = "OOMKilled"
      BY <2>1, <2>2 DEF DiagInv
    <3>2. kind = "PodOOMKilled" => FirstEnd(pod).why # NoEnd.why
      BY <3>1 DEF NoEnd
    <3>3. kind = "PodExecFormatError" => FirstEnd(pod) # NoEnd
      BY <2>1 DEF DiagInv
    <3> QED BY <2>1, <3>1, <3>2, <3>3
  <2>3. DiagnosisFitsScan'
    BY <2>1, <2>2 DEF DiagnosisFitsScan
  <2> QED BY <2>1, <2>3 DEF DiagInv
<1>5. CASE UNCHANGED scanVars
  BY <1>5 DEF scanVars, podVars, DiagInv, DiagnosisFitsScan
<1> QED BY <1>1, <1>2, <1>3, <1>4, <1>5 DEF ScanNext

\* The diagnosis asked for with a reported kind finds how the container ended,
\* out of memory if that was the kind, through any number of restarts and
\* back-offs: only another end hides it (ContainerTermination).
THEOREM DiagnosesFit == ScanSpec => []DiagnosisFitsScan
<1>1. ScanInit => DiagInv
  <2> SUFFICES ASSUME ScanInit PROVE DiagInv
    OBVIOUS
  <2>1. log = [current |-> "", previous |-> ""] /\ scan = "idle"
    BY DEF ScanInit
  <2>2. log.current = "" /\ log.previous = ""
    BY <2>1
  <2> QED BY <2>1, <2>2 DEF DiagInv, DiagnosisFitsScan
<1>2. DiagInv => DiagnosisFitsScan
  BY DEF DiagInv
<1> QED BY <1>1, <1>2, DiagInvStep, ReportInvAlways, PTL DEF ScanSpec

(***************************************************************************)
(* MemoryRaise: what two rungs write to one Deployment.                    *)
(***************************************************************************)

ObjectCopies == [version : Nat, replicas : {0, Original}, limit : Nat]

\* A copy of the Deployment that no write has outdated is still the truth.
CopiesFit ==
  /\ \A a \in Raisers : copy[a].version = version =>
       copy[a].replicas = replicas /\ copy[a].limit = limit
  /\ \A j \in Jobs : got[j].version = version => got[j].limit = limit

\* DownIsAccountedFor with what Run and Rollback will write: the size the only
\* ladder noted down is the original one, and so is that of the Deployment
\* wherever it has to be.
OneJob ==
  \A j \in Jobs : Jobs = {j} =>
    /\ step[j] \in {"snapshot", "read", "down", "downPut", "validate"} => replicas = Original
    /\ step[j] \in {"down", "downPut", "up", "upPut"} => size[j] = Original
    /\ step[j] \notin {"snapshot", "done"} => snap[j] = Original
    /\ step[j] = "done" => replicas = Original \/ verdict[j] = "undoFailed"

DeployInv ==
  /\ DeployTypeOK
  /\ copy \in [Raisers -> ObjectCopies]
  /\ got \in [Jobs -> [version : Nat, limit : Nat]]
  /\ CopiesFit /\ OneJob

\* Every write of a job, its step aside, is one of these two.
JobWrites(j) ==
  \/ UNCHANGED object
  \/ \E n \in {0, snap[j], size[j]} : Write(j, n)

LEMMA JobTypes ==
  ASSUME DeployInv, NEW j \in Jobs, Job(j)
  PROVE  /\ step' \in [Jobs -> Steps] /\ verdict' \in [Jobs -> Verdicts]
         /\ snap' \in [Jobs -> {0, Original}] /\ size' \in [Jobs -> {0, Original}]
         /\ ctxDone' = ctxDone /\ got' \in [Jobs -> [version : Nat, limit : Nat]]
         /\ JobWrites(j)
         /\ \/ got' = got
            \/ /\ UNCHANGED object
               /\ got' = [got EXCEPT ![j] = [version |-> version, limit |-> limit]]
<1>t. /\ step \in [Jobs -> Steps] /\ verdict \in [Jobs -> Verdicts]
      /\ snap \in [Jobs -> {0, Original}] /\ size \in [Jobs -> {0, Original}]
      /\ got \in [Jobs -> [version : Nat, limit : Nat]]
      /\ replicas \in {0, Original} /\ version \in Nat /\ limit \in Nat
  BY DEF DeployInv, DeployTypeOK, ScaleTypeOK
<1>g. ASSUME NEW s \in Steps PROVE [step EXCEPT ![j] = s] \in [Jobs -> Steps]
  BY <1>t
<1>f. ASSUME NEW v \in Verdicts PROVE [verdict EXCEPT ![j] = v] \in [Jobs -> Verdicts]
  BY <1>t
<1>1. CASE Snapshot(j)
  BY <1>1, <1>t, <1>g, <1>f DEF Snapshot, Goto, Finish, Steps, Verdicts, JobWrites
<1>2. CASE Read(j)
  <2>1. step' \in [Jobs -> Steps]
    BY <1>2, <1>g DEF Read, RunFails, Goto, Steps
  <2>2. size' \in [Jobs -> {0, Original}]
    BY <1>2, <1>t DEF Read
  <2>3. UNCHANGED <<object, snap, got, ctxDone, verdict>>
    BY <1>2 DEF Read, RunFails
  <2> QED BY <1>t, <2>1, <2>2, <2>3 DEF JobWrites
<1>3. ASSUME NEW s \in Steps, NEW at, Get(j, at, s)
      PROVE  /\ step' \in [Jobs -> Steps] /\ UNCHANGED <<object, snap, size, ctxDone, verdict>>
             /\ got' \in [Jobs -> [version : Nat, limit : Nat]]
             /\ got' = [got EXCEPT ![j] = [version |-> version, limit |-> limit]]
  BY <1>3, <1>t, <1>g DEF Get, Goto
<1>4. ASSUME NEW s \in Steps, NEW at, NEW n \in {0, size[j]}, Put(j, at, n, s)
      PROVE  /\ step' \in [Jobs -> Steps] /\ UNCHANGED <<snap, size, got, ctxDone, verdict>>
             /\ JobWrites(j)
  BY <1>4, <1>g DEF Put, Goto, JobWrites
<1>5. CASE ScaleDown(j) \/ ScaleUp(j)
  BY <1>5, <1>3, <1>4, <1>t DEF ScaleDown, ScaleUp, Steps, JobWrites
<1>6. CASE RunBreaks(j)
  BY <1>6, <1>t, <1>g DEF RunBreaks, ScaleFails, RunFails, Goto, Steps, JobWrites
<1>7. CASE Validate(j)
  BY <1>7, <1>t, <1>g, <1>f DEF Validate, Goto, Finish, Steps, Verdicts, JobWrites
<1>8. CASE Rollback(j)
  <2>1. CASE Get(j, "back", "backPut")
    BY <1>3, <1>t, <2>1 DEF Steps, JobWrites
  <2>2. CASE ~Get(j, "back", "backPut")
    BY <1>8, <1>t, <1>g, <1>f, <2>2
    DEF Rollback, Finish, Goto, Restored, Steps, Verdicts, JobWrites
  <2> QED BY <2>1, <2>2
<1> QED BY <1>1, <1>2, <1>5, <1>6, <1>7, <1>8 DEF Job

\* A write of a job outdates every copy, and touches no limit.
LEMMA JobWriteTypes ==
  ASSUME DeployInv, NEW j \in Jobs, JobWrites(j)
  PROVE  /\ replicas' \in {0, Original} /\ limit' = limit /\ UNCHANGED <<ready, touches>>
         /\ version' \in {version, version + 1}
         /\ UNCHANGED object \/ version' = version + 1
<1>1. /\ version \in Nat /\ replicas \in {0, Original} /\ limit \in Nat
      /\ snap[j] \in {0, Original} /\ size[j] \in {0, Original} /\ got[j].limit \in Nat
  BY DEF DeployInv, DeployTypeOK, ScaleTypeOK
<1>2. CASE UNCHANGED object
  BY <1>1, <1>2 DEF object
<1>3. ASSUME NEW n \in {0, Original}, Write(j, n)
      PROVE  /\ replicas' = n /\ limit' = limit /\ UNCHANGED <<ready, touches>>
             /\ version' = version + 1
  <2>1. got[j].limit = limit
    BY <1>3 DEF Write, Update, DeployInv, CopiesFit
  <2> QED BY <1>3, <2>1 DEF Write, Update, BlindUpdate
<1> QED BY <1>1, <1>2, <1>3 DEF JobWrites

LEMMA OneJobStep ==
  ASSUME DeployInv, NEW j \in Jobs, Job(j)
  PROVE  OneJob'
<1> SUFFICES ASSUME Jobs = {j}
             PROVE  /\ step'[j] \in {"snapshot", "read", "down", "downPut", "validate"} =>
                         replicas' = Original
                    /\ step'[j] \in {"down", "downPut", "up", "upPut"} => size'[j] = Original
                    /\ step'[j] \notin {"snapshot", "done"} => snap'[j] = Original
                    /\ step'[j] = "done" => replicas' = Original \/ verdict'[j] = "undoFailed"
  BY DEF OneJob
<1>t. /\ step \in [Jobs -> Steps] /\ verdict \in [Jobs -> Verdicts]
      /\ snap \in [Jobs -> {0, Original}] /\ size \in [Jobs -> {0, Original}]
  BY DEF DeployInv, DeployTypeOK, ScaleTypeOK
<1>o. /\ step[j] \in {"snapshot", "read", "down", "downPut", "validate"} => replicas = Original
      /\ step[j] \in {"down", "downPut", "up", "upPut"} => size[j] = Original
      /\ step[j] \notin {"snapshot", "done"} => snap[j] = Original
  BY DEF DeployInv, OneJob
<1>g. ASSUME NEW s, Goto(j, s) PROVE step'[j] = s
  BY <1>g, <1>t DEF Goto
<1>f. ASSUME NEW v, Finish(j, v) PROVE step'[j] = "done" /\ verdict'[j] = v
  BY <1>f, <1>g, <1>t DEF Finish
<1>1. CASE Snapshot(j)
  BY <1>1, <1>t, <1>o, <1>g, <1>f DEF Snapshot, object
<1>2. CASE Read(j)
  BY <1>2, <1>t, <1>o, <1>g DEF Read, RunFails, object
<1>3. CASE ScaleDown(j)
  BY <1>3, <1>o, <1>g DEF ScaleDown, Get, Put, object
<1>4. CASE ScaleUp(j)
  BY <1>4, <1>o, <1>g DEF ScaleUp, Get, Put, Write, Update, BlindUpdate, object
<1>5. CASE RunBreaks(j)
  BY <1>5, <1>o, <1>g DEF RunBreaks, ScaleFails, RunFails
<1>6. CASE Validate(j)
  BY <1>6, <1>o, <1>g, <1>f DEF Validate, object
<1>7. CASE Rollback(j)
  BY <1>7, <1>o, <1>g, <1>f DEF Rollback, Restored, Get, Write, Update, BlindUpdate, object
<1> QED BY <1>1, <1>2, <1>3, <1>4, <1>5, <1>6, <1>7 DEF Job

\* Whatever is written takes effect as a new version.
LEMMA CopiesKept ==
  ASSUME DeployInv, UNCHANGED <<replicas, limit, version>> \/ version' = version + 1
  PROVE  /\ \A a \in Raisers : copy[a].version = version' =>
              copy[a].replicas = replicas' /\ copy[a].limit = limit'
         /\ \A j \in Jobs : got[j].version = version' => got[j].limit = limit'
<1>1. /\ version \in Nat /\ \A a \in Raisers : copy[a].version \in 0..version
      /\ \A j \in Jobs : got[j].version \in 0..version
  BY DEF DeployInv, DeployTypeOK, ScaleTypeOK
<1> QED BY <1>1 DEF DeployInv, CopiesFit

LEMMA ScaleStepKeeps ==
  ASSUME DeployInv, ScaleNext, UNCHANGED raiseVars
  PROVE  DeployInv'
<1>t. /\ version \in Nat /\ replicas \in {0, Original} /\ limit \in Nat /\ ready \in {0, Original}
      /\ touches \in 0..MaxTouches /\ MaxTouches \in Nat
      /\ \A j \in Jobs : got[j].version \in 0..version
      /\ \A a \in Raisers : copy[a].version \in 0..version
      /\ got \in [Jobs -> [version : Nat, limit : Nat]]
  BY TouchAssumption DEF DeployInv, DeployTypeOK, ScaleTypeOK
<1>r. UNCHANGED <<stop, want, copy, raisedBy, report>>
  BY DEF raiseVars
<1>1. CASE Touch
  <2>1. /\ UNCHANGED <<replicas, limit, step, snap, size, got, ctxDone, verdict>>
        /\ touches' \in 0..MaxTouches /\ version' = version + 1 /\ ready' \in {0, Original}
    BY <1>1, <1>t DEF Touch
  <2>2. CopiesFit'
    BY <1>r, <2>1, CopiesKept DEF CopiesFit
  <2>3. OneJob'
    BY <2>1 DEF DeployInv, OneJob
  <2>4. /\ \A j \in Jobs : got'[j].version \in 0..version'
        /\ \A a \in Raisers : copy'[a].version \in 0..version'
    BY <1>t, <1>r, <2>1
  <2>5. ScaleTypeOK'
    BY <1>t, <2>1, <2>4 DEF DeployInv, DeployTypeOK, ScaleTypeOK
  <2>6. DeployTypeOK'
    BY <1>r, <2>4, <2>5 DEF DeployInv, DeployTypeOK
  <2> QED BY <1>r, <2>1, <2>2, <2>3, <2>6 DEF DeployInv
<1>2. ASSUME NEW j \in Jobs, Cancel(j) PROVE DeployInv'
  <2>1. /\ UNCHANGED <<replicas, limit, ready, version, touches, step, snap, size, got, verdict>>
        /\ ctxDone' \in [Jobs -> BOOLEAN]
    BY <1>2 DEF Cancel, object, DeployInv, DeployTypeOK, ScaleTypeOK
  <2>2. CopiesFit' /\ OneJob'
    BY <1>r, <2>1 DEF DeployInv, CopiesFit, OneJob
  <2>3. ScaleTypeOK'
    BY <2>1 DEF DeployInv, DeployTypeOK, ScaleTypeOK
  <2> QED BY <1>r, <2>1, <2>2, <2>3 DEF DeployInv, DeployTypeOK
<1>3. ASSUME NEW j \in Jobs, Job(j) PROVE DeployInv'
  <2>1. /\ step' \in [Jobs -> Steps] /\ verdict' \in [Jobs -> Verdicts]
        /\ snap' \in [Jobs -> {0, Original}] /\ size' \in [Jobs -> {0, Original}]
        /\ ctxDone' = ctxDone /\ got' \in [Jobs -> [version : Nat, limit : Nat]]
    BY <1>3, JobTypes
  <2>2. /\ JobWrites(j)
        /\ \/ got' = got
           \/ /\ UNCHANGED object
              /\ got' = [got EXCEPT ![j] = [version |-> version, limit |-> limit]]
    BY <1>3, JobTypes
  <2>3. /\ replicas' \in {0, Original} /\ limit' = limit /\ UNCHANGED <<ready, touches>>
        /\ version' \in {version, version + 1}
        /\ UNCHANGED object \/ version' = version + 1
    BY <2>2, JobWriteTypes
  <2>4. /\ \A a \in Raisers : copy[a].version = version' =>
             copy[a].replicas = replicas' /\ copy[a].limit = limit'
        /\ \A k \in Jobs : got[k].version = version' => got[k].limit = limit'
    BY <2>3, CopiesKept DEF object
  <2>5. \A k \in Jobs :
          \/ got'[k] = got[k]
          \/ got'[k].version = version' /\ got'[k].limit = limit'
    <3> SUFFICES ASSUME NEW k \in Jobs
                 PROVE  \/ got'[k] = got[k]
                        \/ got'[k].version = version' /\ got'[k].limit = limit'
      OBVIOUS
    <3>1. CASE got' = got
      BY <3>1
    <3>2. CASE /\ UNCHANGED object
               /\ got' = [got EXCEPT ![j] = [version |-> version, limit |-> limit]]
      <4>1. version' = version /\ limit' = limit
        BY <3>2 DEF object
      <4> DEFINE read == [version |-> version, limit |-> limit]
      <4>2. DOMAIN got = Jobs /\ got' = [got EXCEPT ![j] = read]
        BY <1>t, <3>2
      <4>3. read.version = version' /\ read.limit = limit'
        BY <4>1
      <4> HIDE DEF read
      <4>4. got'[k] = IF k = j THEN read ELSE got[k]
        BY <4>2
      <4> QED BY <4>3, <4>4
    <3> QED BY <2>2, <3>1, <3>2
  <2>6. CopiesFit'
    <3>1. \A k \in Jobs : got'[k].version = version' => got'[k].limit = limit'
      <4> SUFFICES ASSUME NEW k \in Jobs, got'[k].version = version'
                   PROVE  got'[k].limit = limit'
        OBVIOUS
      <4>1. CASE got'[k] = got[k]
        BY <2>4, <4>1
      <4>2. CASE got'[k].limit = limit'
        BY <4>2
      <4> QED BY <2>5, <4>1, <4>2
    <3>2. \A a \in Raisers : copy'[a].version = version' =>
            copy'[a].replicas = replicas' /\ copy'[a].limit = limit'
      BY <1>r, <2>4
    <3> QED BY <3>1, <3>2 DEF CopiesFit
  <2>7. OneJob'
    BY <1>3, OneJobStep
  <2>8. \A k \in Jobs : got'[k].version \in 0..version'
    BY <1>t, <2>3, <2>5
  <2>9. \A a \in Raisers : copy'[a].version \in 0..version'
    BY <1>t, <1>r, <2>3
  <2>10. version' \in Nat /\ ready' \in {0, Original} /\ touches' \in 0..MaxTouches
    BY <1>t, <2>3
  <2>11. ctxDone' \in [Jobs -> BOOLEAN]
    BY <2>1 DEF DeployInv, DeployTypeOK, ScaleTypeOK
  <2>12. ScaleTypeOK'
    BY <1>t, <2>1, <2>3, <2>8, <2>10, <2>11 DEF ScaleTypeOK
  <2>13. DeployTypeOK'
    BY <1>r, <2>9, <2>12 DEF DeployInv, DeployTypeOK
  <2> QED BY <1>r, <2>1, <2>6, <2>7, <2>13 DEF DeployInv
<1> QED BY <1>1, <1>2, <1>3 DEF ScaleNext

LEMMA RaiseStepKeeps ==
  ASSUME DeployInv, NEW a \in Raisers, Approval(a)
  PROVE  DeployInv'
<1>t. /\ version \in Nat /\ replicas \in {0, Original} /\ limit \in Nat
      /\ \A j \in Jobs : got[j].version \in 0..version
      /\ \A b \in Raisers : copy[b].version \in 0..version
      /\ copy \in [Raisers -> ObjectCopies]
  BY DEF DeployInv, DeployTypeOK, ScaleTypeOK
<1>u. /\ stop \in [Raisers -> Stops] /\ report \in [Raisers -> Reports]
      /\ want \in [Raisers -> {0, Original}] /\ raisedBy \subseteq Raisers
  BY DEF DeployInv, DeployTypeOK
<1>s. ASSUME NEW s \in Stops, StopAt(a, s)
      PROVE  stop' \in [Raisers -> Stops] /\ report' \in [Raisers -> Reports]
  BY <1>s, <1>u DEF StopAt
<1>v. ASSUME NEW r \in Reports, Over(a, r)
      PROVE  stop' \in [Raisers -> Stops] /\ report' \in [Raisers -> Reports]
  BY <1>v, <1>u DEF Over, Stops
<1>j. UNCHANGED jobVars
  BY DEF Approval, RecheckWant, RecheckReady, IncreaseContainerMemoryLimit,
         RolloutRestartDeployment, RaiseFails, GetObject
<1>p. ASSUME PutLimit(a) \/ PutRestart(a)
      PROVE  /\ replicas' = replicas /\ limit' \in Nat /\ version' = version + 1
             /\ UNCHANGED <<ready, touches>> /\ raisedBy' \subseteq Raisers
  <2>1. copy[a].version = version
    BY <1>p DEF PutLimit, PutRestart, Update
  <2>2. copy[a].replicas = replicas /\ copy[a].limit \in Nat
    BY <1>t, <2>1 DEF DeployInv, CopiesFit, ObjectCopies
  <2>3. Increased(copy[a].limit) \in Nat
    BY <2>2 DEF Increased
  <2> QED BY <1>p, <1>u, <2>2, <2>3 DEF PutLimit, PutRestart, Update, BlindUpdate
<1>g. ASSUME NEW from, NEW to \in Stops, GetObject(a, from, to)
      PROVE  /\ UNCHANGED <<object, raisedBy, want>> /\ StopAt(a, to)
             /\ copy' = [copy EXCEPT ![a] =
                  [version |-> version, replicas |-> replicas, limit |-> limit]]
  BY <1>g DEF GetObject
<1>w. /\ \/ UNCHANGED <<object, raisedBy>>
         \/ PutLimit(a) \/ PutRestart(a)
      /\ stop' \in [Raisers -> Stops] /\ report' \in [Raisers -> Reports]
      /\ want' \in [Raisers -> {0, Original}]
      /\ \/ UNCHANGED copy
         \/ /\ UNCHANGED object
            /\ copy' = [copy EXCEPT ![a] =
                 [version |-> version, replicas |-> replicas, limit |-> limit]]
  <2>1. CASE RecheckWant(a)
    BY <2>1, <1>t, <1>u, <1>s, <1>v DEF RecheckWant, Stops, Reports
  <2>2. CASE RecheckReady(a)
    BY <2>2, <1>u, <1>s, <1>v DEF RecheckReady, Stops, Reports
  <2>3. CASE IncreaseContainerMemoryLimit(a)
    <3>1. CASE GetObject(a, "get", "put")
      BY <1>g, <1>s, <1>u, <3>1 DEF Stops
    <3>2. CASE PutLimit(a) /\ StopAt(a, "restartGet") /\ UNCHANGED <<want, copy>>
      BY <1>s, <1>u, <3>2 DEF Stops
    <3> QED BY <2>3, <3>1, <3>2 DEF IncreaseContainerMemoryLimit
  <2>4. CASE RolloutRestartDeployment(a)
    <3>1. CASE GetObject(a, "restartGet", "restartPut")
      BY <1>g, <1>s, <1>u, <3>1 DEF Stops
    <3>2. CASE PutRestart(a) /\ Over(a, "raised") /\ UNCHANGED <<want, copy>>
      BY <1>v, <1>u, <3>2 DEF Reports
    <3> QED BY <2>4, <3>1, <3>2 DEF RolloutRestartDeployment
  <2>5. CASE RaiseFails(a)
    <3>1. ErrorOf(a) \in Reports
      BY DEF ErrorOf, Reports
    <3> QED BY <2>5, <1>u, <1>v, <3>1 DEF RaiseFails
  <2> QED BY <2>1, <2>2, <2>3, <2>4, <2>5 DEF Approval
<1>1. /\ replicas' = replicas /\ limit' \in Nat /\ UNCHANGED <<ready, touches>>
      /\ version' \in {version, version + 1} /\ raisedBy' \subseteq Raisers
  BY <1>t, <1>u, <1>w, <1>p DEF object
<1>2. UNCHANGED <<step, snap, size, got, ctxDone, verdict>>
  BY <1>j DEF jobVars
<1>3. copy' \in [Raisers -> ObjectCopies]
  <2>1. [version |-> version, replicas |-> replicas, limit |-> limit] \in ObjectCopies
    BY <1>t DEF ObjectCopies
  <2> QED BY <1>t, <1>w, <2>1
<1>4. /\ \A b \in Raisers : copy'[b].version \in 0..version'
      /\ CopiesFit'
  <2>1. CASE UNCHANGED copy
    <3>1. UNCHANGED <<replicas, limit, version>> \/ version' = version + 1
      BY <1>w, <1>p DEF object
    <3> QED BY <1>t, <1>1, <1>2, <2>1, <3>1, CopiesKept DEF CopiesFit
  <2>2. CASE /\ UNCHANGED object
             /\ copy' = [copy EXCEPT ![a] =
                  [version |-> version, replicas |-> replicas, limit |-> limit]]
    <3>1. version' = version /\ limit' = limit
      BY <2>2 DEF object
    <3>2. \A b \in Raisers : copy'[b] = IF b = a
            THEN [version |-> version, replicas |-> replicas, limit |-> limit] ELSE copy[b]
      BY <1>t, <2>2
    <3>3. \A b \in Raisers :
            \/ copy'[b].version = version /\ copy'[b].replicas = replicas /\ copy'[b].limit = limit
            \/ copy'[b] = copy[b]
      BY <3>2
    <3> QED BY <1>t, <1>1, <1>2, <3>1, <3>3 DEF DeployInv, CopiesFit
  <2> QED BY <1>w, <2>1, <2>2
<1>5. OneJob'
  BY <1>1, <1>2 DEF DeployInv, OneJob
<1>6. ScaleTypeOK'
  <2>1. \A j \in Jobs : got'[j].version \in 0..version'
    BY <1>t, <1>1, <1>2
  <2>2. version' \in Nat
    BY <1>t, <1>1
  <2> QED BY <1>1, <1>2, <2>1, <2>2 DEF DeployInv, DeployTypeOK, ScaleTypeOK
<1>7. DeployTypeOK'
  BY <1>1, <1>w, <1>4, <1>6 DEF DeployTypeOK
<1> QED BY <1>2, <1>3, <1>4, <1>5, <1>7 DEF DeployInv

LEMMA DeployInvAlways == DeploySpec => []DeployInv
<1>1. DeployInit => DeployInv
  <2> SUFFICES ASSUME DeployInit PROVE DeployInv
    OBVIOUS
  <2>1. ScaleTypeOK
    BY TouchAssumption, OriginalAssumption
    DEF DeployInit, ScaleInit, ScaleTypeOK, Steps, Verdicts
  <2>2. DeployTypeOK /\ copy \in [Raisers -> ObjectCopies]
    BY <2>1 DEF DeployInit, ScaleInit, DeployTypeOK, Stops, Reports, ObjectCopies
  <2>3. got \in [Jobs -> [version : Nat, limit : Nat]]
    BY DEF DeployInit, ScaleInit
  <2>4. CopiesFit /\ OneJob
    BY DEF DeployInit, ScaleInit, CopiesFit, OneJob
  <2> QED BY <2>2, <2>3, <2>4 DEF DeployInv
<1>2. DeployInv /\ [DeployNext]_deployVars => DeployInv'
  <2> SUFFICES ASSUME DeployInv, [DeployNext]_deployVars PROVE DeployInv'
    OBVIOUS
  <2>1. CASE UNCHANGED deployVars
    BY <2>1 DEF deployVars, scaleVars, raiseVars, object, DeployInv, DeployTypeOK,
                ScaleTypeOK, CopiesFit, OneJob
  <2> QED BY <2>1, ScaleStepKeeps, RaiseStepKeeps DEF DeployNext
<1> QED BY <1>1, <1>2, PTL DEF DeploySpec

\* The variables of the Deployment and of those who write it keep their types
\* (internal/k8sclient's updates, runOne, RunApproved).
THEOREM DeployTypeCorrect == DeploySpec => []DeployTypeOK
<1>1. DeployInv => DeployTypeOK
  BY DEF DeployInv
<1> QED BY <1>1, DeployInvAlways, PTL

\* While the only ladder of a Deployment is not between its first write and
\* its verdict, the Deployment is not scaled down unless the ladder said its
\* rollback failed, whatever approvals raise the memory of it meanwhile
\* (crashloopbackoff Run and Rollback, runOne, ScaleDeployment).
THEOREM DownIsReported == DeploySpec => []DownIsAccountedFor
<1>1. DeployInv => DownIsAccountedFor
  <2> SUFFICES ASSUME DeployInv, NEW j \in Jobs, Jobs = {j}, replicas = 0
               PROVE  \/ step[j] \in {"up", "upPut", "back", "backPut"}
                      \/ step[j] = "done" /\ verdict[j] = "undoFailed"
    BY DEF DownIsAccountedFor
  <2>1. step[j] \in Steps /\ replicas # Original
    BY OriginalAssumption DEF DeployInv, DeployTypeOK, ScaleTypeOK
  <2> QED BY <2>1 DEF DeployInv, OneJob, Steps
<1> QED BY <1>1, DeployInvAlways, PTL

\* Where only one ladder ever reaches the rung the Deployment has its size back
\* when that ladder is over, unless it says its rollback failed, next to any
\* number of approvals: the run scale_two needs its second ladder (crashloop-
\* backoff Snapshot, Run and Rollback, runOne).
THEOREM OneLadderKeepsSize == (\E j : Jobs = {j}) => (DeploySpec => []SizeIsKept)
<1> SUFFICES ASSUME NEW j, Jobs = {j} PROVE DeploySpec => []SizeIsKept
  OBVIOUS
<1>1. DeployInv => SizeIsKept
  BY DEF DeployInv, OneJob, SizeIsKept, AllDone
<1> QED BY <1>1, DeployInvAlways, PTL

(***************************************************************************)
(* MemoryRaise: the memory limit.                                          *)
(***************************************************************************)

BeforeRaise == {"recheck", "compare", "get", "put"}

\* An approval that has yet to update the limit has not raised it.
RaisedOnce == \A a \in Raisers : stop[a] \in BeforeRaise => a \notin raisedBy

\* The limit and the record of the raises change together, once for each
\* approval.  RaisesAreKept is this step, counted.
LimitStep ==
  \/ UNCHANGED <<limit, raisedBy>>
  \/ \E a \in Raisers \ raisedBy :
       limit' = Increased(limit) /\ raisedBy' = raisedBy \cup {a}

LEMMA ApprovalLimitStep ==
  ASSUME DeployInv, RaisedOnce, NEW a \in Raisers, Approval(a)
  PROVE  LimitStep /\ RaisedOnce'
<1>t. stop \in [Raisers -> Stops]
  BY DEF DeployInv, DeployTypeOK
<1>l. ASSUME PutLimit(a), stop[a] = "put" PROVE LimitStep /\ raisedBy' = raisedBy \cup {a}
  <2>1. copy[a].limit = limit
    BY <1>l DEF PutLimit, Update, DeployInv, CopiesFit
  <2>2. a \notin raisedBy
    BY <1>l DEF RaisedOnce, BeforeRaise
  <2> QED BY <1>l, <2>1, <2>2 DEF PutLimit, Update, BlindUpdate, LimitStep
<1>r. ASSUME PutRestart(a) PROVE UNCHANGED <<limit, raisedBy>>
  <2>1. copy[a].limit = limit
    BY <1>r DEF PutRestart, Update, DeployInv, CopiesFit
  <2> QED BY <1>r, <2>1 DEF PutRestart, Update, BlindUpdate
<1>s. ASSUME NEW s, stop' = [stop EXCEPT ![a] = s], raisedBy' = raisedBy,
             s \in BeforeRaise => stop[a] \in BeforeRaise
      PROVE  RaisedOnce'
  BY <1>s, <1>t DEF RaisedOnce
<1>f. ASSUME NEW s, stop' = [stop EXCEPT ![a] = s], raisedBy' \subseteq raisedBy \cup {a},
             s \notin BeforeRaise
      PROVE  RaisedOnce'
  BY <1>f, <1>t DEF RaisedOnce
<1>1. CASE RecheckWant(a)
  BY <1>1, <1>s DEF RecheckWant, StopAt, Over, BeforeRaise, LimitStep, object
<1>2. CASE RecheckReady(a)
  BY <1>2, <1>s DEF RecheckReady, StopAt, Over, BeforeRaise, LimitStep, object
<1>3. CASE IncreaseContainerMemoryLimit(a)
  <2>1. CASE GetObject(a, "get", "put")
    BY <2>1, <1>s DEF GetObject, StopAt, BeforeRaise, LimitStep, object
  <2>2. CASE stop[a] = "put" /\ PutLimit(a) /\ StopAt(a, "restartGet")
    BY <2>2, <1>l, <1>f DEF StopAt, BeforeRaise
  <2> QED BY <1>3, <2>1, <2>2 DEF IncreaseContainerMemoryLimit
<1>4. CASE RolloutRestartDeployment(a)
  <2>1. CASE GetObject(a, "restartGet", "restartPut")
    BY <2>1, <1>f DEF GetObject, StopAt, BeforeRaise, LimitStep, object
  <2>2. CASE PutRestart(a) /\ Over(a, "raised")
    BY <2>2, <1>r, <1>f DEF Over, BeforeRaise, LimitStep
  <2> QED BY <1>4, <2>1, <2>2 DEF RolloutRestartDeployment
<1>5. CASE RaiseFails(a)
  <2>1. stop' = [stop EXCEPT ![a] = "over"]
    BY <1>5 DEF RaiseFails, Over
  <2>2. LimitStep /\ raisedBy' \subseteq raisedBy \cup {a}
    BY <1>5, <1>l, <1>r DEF RaiseFails, LimitStep, object
  <2> QED BY <2>1, <2>2, <1>f DEF BeforeRaise
<1> QED BY <1>1, <1>2, <1>3, <1>4, <1>5 DEF Approval

LEMMA JobLimitStep ==
  ASSUME DeployInv, RaisedOnce, ScaleNext, UNCHANGED raiseVars
  PROVE  LimitStep /\ RaisedOnce'
<1>1. limit' = limit
  <2>1. CASE Touch
    BY <2>1 DEF Touch
  <2>2. ASSUME NEW j \in Jobs, Cancel(j) PROVE limit' = limit
    BY <2>2 DEF Cancel, object
  <2>3. ASSUME NEW j \in Jobs, Job(j) PROVE limit' = limit
    BY <2>3, JobTypes, JobWriteTypes
  <2> QED BY <2>1, <2>2, <2>3 DEF ScaleNext
<1> QED BY <1>1 DEF raiseVars, LimitStep, RaisedOnce

\* Neither a concurrent approval nor a job that scales the same Deployment
\* from an older copy ever takes a raise back, and no approval, whatever it is
\* told, raises the limit twice: the step of which RaisesAreKept is the sum,
\* for any number of approvals and jobs (RunApproved, Update).
THEOREM RaisesAreSteps == DeploySpec => [][LimitStep]_deployVars
<1>1. DeployInit => RaisedOnce
  BY DEF DeployInit, RaisedOnce
<1>2. DeployInv /\ RaisedOnce /\ [DeployNext]_deployVars => RaisedOnce' /\ [LimitStep]_deployVars
  <2> SUFFICES ASSUME DeployInv, RaisedOnce, [DeployNext]_deployVars
               PROVE  RaisedOnce' /\ [LimitStep]_deployVars
    OBVIOUS
  <2>1. CASE UNCHANGED deployVars
    BY <2>1 DEF deployVars, raiseVars, RaisedOnce
  <2>2. CASE DeployNext
    BY <2>2, ApprovalLimitStep, JobLimitStep DEF DeployNext
  <2> QED BY <2>1, <2>2
<1> QED BY <1>1, <1>2, DeployInvAlways, PTL DEF DeploySpec

(***************************************************************************)
(* MemoryRaise: the sum of the raises.                                     *)
(***************************************************************************)

\* What the recursive function in RaisedTimes is chosen to be.
Fold(f, m, n) == f = [i \in 0..n |-> IF i = 0 THEN m ELSE Increased(f[i-1])]

LEMMA FoldExists == \A m : \A n \in Nat : \E f : Fold(f, m, n)
<1> TAKE m
<1> DEFINE S == {n \in Nat : \E f : Fold(f, m, n)}
<1>1. 0 \in S
  <2>1. Fold([i \in 0..0 |-> m], m, 0)
    BY DEF Fold
  <2> QED BY <2>1
<1>2. ASSUME NEW n \in S PROVE n + 1 \in S
  <2>1. PICK f : Fold(f, m, n)
    OBVIOUS
  <2> DEFINE g == [i \in 0..(n+1) |-> IF i = n + 1 THEN Increased(f[n]) ELSE f[i]]
  <2>2. \A i \in 0..(n+1) : g[i] = IF i = 0 THEN m ELSE Increased(g[i-1])
    <3> TAKE i \in 0..(n+1)
    <3>1. CASE i = n + 1
      BY <3>1
    <3>2. CASE i \in 0..n
      BY <2>1, <3>2 DEF Fold
    <3> QED BY <3>1, <3>2
  <2>3. Fold(g, m, n + 1)
    BY <2>2 DEF Fold
  <2> QED BY <2>3
<1> HIDE DEF S
<1>3. S = Nat
  BY <1>1, <1>2, InductionOnNat DEF S
<1> QED BY <1>3 DEF S

LEMMA FoldGrows ==
  ASSUME NEW m, NEW n \in Nat, NEW f, NEW g, Fold(f, m, n), Fold(g, m, n + 1)
  PROVE  g[n] = f[n]
<1> DEFINE S == {i \in Nat : i <= n => g[i] = f[i]}
<1>1. 0 \in S
  BY DEF Fold
<1>2. ASSUME NEW i \in S PROVE i + 1 \in S
  BY DEF Fold
<1> HIDE DEF S
<1>3. S = Nat
  BY <1>1, <1>2, InductionOnNat DEF S
<1> QED BY <1>3 DEF S

LEMMA RaisedOnceMore ==
  ASSUME NEW m, NEW n \in Nat
  PROVE  /\ RaisedTimes(m, 0) = m
         /\ RaisedTimes(m, n + 1) = Increased(RaisedTimes(m, n))
<1> DEFINE F(k) == CHOOSE f : Fold(f, m, k)
<1>1. \A k \in Nat : RaisedTimes(m, k) = F(k)[k]
  BY DEF RaisedTimes, Fold
<1>2. \A k \in Nat : Fold(F(k), m, k)
  BY FoldExists
<1> HIDE DEF F
<1>3. F(n+1)[n] = F(n)[n]
  BY <1>2, FoldGrows
<1>4. F(0)[0] = m /\ F(n+1)[n+1] = Increased(F(n+1)[n])
  BY <1>2 DEF Fold
<1> QED BY <1>1, <1>3, <1>4

\* The memory limit is the one the Deployment started with, increased once for
\* each approval whose update was applied, for any number of approvals and of
\* jobs that write the same object (RunApproved, Update).
THEOREM RaisesAddUp == DeploySpec => []RaisesAreKept
<1> DEFINE Kept == IsFiniteSet(raisedBy) /\ RaisesAreKept
<1>1. DeployInit => Kept
  <2> SUFFICES ASSUME DeployInit PROVE Kept
    OBVIOUS
  <2>1. limit \in Limits /\ raisedBy = {}
    BY DEF DeployInit, ScaleInit
  <2>2. limit = RaisedTimes(limit, Cardinality(raisedBy))
    BY <2>1, FS_EmptySet, RaisedOnceMore
  <2> QED BY <2>1, <2>2, FS_EmptySet DEF RaisesAreKept
<1>2. Kept /\ [LimitStep]_deployVars => Kept'
  <2> SUFFICES ASSUME Kept, [LimitStep]_deployVars PROVE Kept'
    OBVIOUS
  <2>1. CASE UNCHANGED <<limit, raisedBy>>
    BY <2>1 DEF RaisesAreKept
  <2>2. ASSUME NEW a \in Raisers \ raisedBy,
               limit' = Increased(limit), raisedBy' = raisedBy \cup {a}
        PROVE  Kept'
    <3>1. PICK m \in Limits : limit = RaisedTimes(m, Cardinality(raisedBy))
      BY DEF RaisesAreKept
    <3>2. /\ Cardinality(raisedBy) \in Nat
          /\ IsFiniteSet(raisedBy') /\ Cardinality(raisedBy') = Cardinality(raisedBy) + 1
      BY <2>2, FS_AddElement, FS_CardinalityType
    <3>3. limit' = RaisedTimes(m, Cardinality(raisedBy'))
      BY <2>2, <3>1, <3>2, RaisedOnceMore
    <3> QED BY <3>2, <3>3 DEF RaisesAreKept
  <2>3. UNCHANGED deployVars => UNCHANGED <<limit, raisedBy>>
    BY DEF deployVars, scaleVars, raiseVars, object
  <2> QED BY <2>1, <2>2, <2>3 DEF LimitStep
<1> QED BY <1>1, <1>2, RaisesAreSteps, PTL DEF DeploySpec

(***************************************************************************)
(* Runbooks: the catalogue that is swapped in, and the answers from it.    *)
(***************************************************************************)

\* While the file has only been replaced or removed it is a document as a
\* whole or missing, and so is what Reload has read of it.
WholeInv ==
  /\ text \in Documents
  /\ ~rewritten => /\ onDisk \in {text, Gone}
                   /\ data \in Documents \cup {Gone, NoEntry}
                   /\ catalogue \in Catalogues

\* The entry Find picked is the one the answer is about.
PickInv ==
  /\ DOMAIN told = Lookups /\ DOMAIN pick = Lookups /\ DOMAIN asked = Lookups
  /\ \A l \in Lookups :
       /\ asked[l] = "new" => told[l] = NoAnswer
       /\ asked[l] = "logs" => pick[l] # NoEntry /\ told[l] = NoAnswer
  /\ ConfirmedByOwnLog

LEMMA WholeInvAlways == BookSpec => []WholeInv
<1>1. BookInit => WholeInv
  BY DocumentsAssumption DEF BookInit, WholeInv, Catalogues
<1>2. WholeInv /\ [BookNext]_bookVars => WholeInv'
  <2> SUFFICES ASSUME WholeInv, [BookNext]_bookVars PROVE WholeInv'
    OBVIOUS
  <2> USE DEF WholeInv, Catalogues
  <2>1. ASSUME NEW d \in Documents, Replace(d) \/ Rewrite(d) PROVE WholeInv'
    BY <2>1 DEF Replace, Rewrite, Edited
  <2>2. CASE RemoveFile
    BY <2>2 DEF RemoveFile, Edited
  <2>3. CASE WriteOn
    BY <2>3 DEF WriteOn
  <2>4. CASE ReloadReads
    BY <2>4 DEF ReloadReads
  <2>5. CASE ReloadSwaps
    BY <2>5 DEF ReloadSwaps, NewSet
  <2>6. ASSUME NEW l \in Lookups, Find(l) \/ Confirm(l) PROVE WholeInv'
    BY <2>6 DEF Find, Confirm
  <2>7. CASE UNCHANGED bookVars
    BY <2>7 DEF bookVars
  <2> QED BY <2>1, <2>2, <2>3, <2>4, <2>5, <2>6, <2>7 DEF BookNext
<1> QED BY <1>1, <1>2, PTL DEF BookSpec

\* While the file is only ever replaced as a whole or missing, the catalogue
\* is that of one of its documents, whatever reloads fail: "the previous good
\* set of entries in place" (Reload).
THEOREM CatalogueStaysWhole == BookSpec => []CatalogueIsWhole
<1>1. WholeInv => CatalogueIsWhole
  BY DEF WholeInv, CatalogueIsWhole
<1> QED BY <1>1, WholeInvAlways, PTL

\* What must be true of an answer.
AnswerOK(a) ==
  a.confirmed => /\ a.entry # NoEntry
                 /\ a.source = a.entry.source
                 /\ a.log \cap a.entry.signatures # {}

LEMMA AnsweredSets ==
  ASSUME PickInv, NEW l \in Lookups, NEW a, Answered(l, a), AnswerOK(a),
         DOMAIN pick' = Lookups, \A k \in Lookups \ {l} : pick'[k] = pick[k]
  PROVE  PickInv'
<1>1. /\ DOMAIN told' = Lookups /\ DOMAIN asked' = Lookups
      /\ told'[l] = a /\ asked'[l] = "answered"
      /\ \A k \in Lookups \ {l} : told'[k] = told[k] /\ asked'[k] = asked[k]
  BY DEF Answered, PickInv
<1>2. ConfirmedByOwnLog'
  <2> SUFFICES ASSUME NEW k \in Lookups PROVE AnswerOK(told'[k])
    BY DEF ConfirmedByOwnLog, AnswerOK
  <2>1. CASE k = l
    BY <1>1, <2>1
  <2>2. CASE k # l
    BY <1>1, <2>2 DEF PickInv, ConfirmedByOwnLog, AnswerOK
  <2> QED BY <2>1, <2>2
<1>3. \A k \in Lookups :
        /\ asked'[k] = "new" => told'[k] = NoAnswer
        /\ asked'[k] = "logs" => pick'[k] # NoEntry /\ told'[k] = NoAnswer
  <2> SUFFICES ASSUME NEW k \in Lookups
               PROVE  /\ asked'[k] = "new" => told'[k] = NoAnswer
                      /\ asked'[k] = "logs" => pick'[k] # NoEntry /\ told'[k] = NoAnswer
    OBVIOUS
  <2>1. CASE k = l
    BY <1>1, <2>1
  <2>2. CASE k # l
    BY <1>1, <2>2 DEF PickInv
  <2> QED BY <2>1, <2>2
<1> QED BY <1>1, <1>2, <1>3 DEF PickInv

\* The plain answer confirms nothing.
LEMMA PlainOK == \A e : AnswerOK(Plain(e))
  BY DEF AnswerOK, Plain, NoAnswer

LEMMA PickInvStep == PickInv /\ [BookNext]_bookVars => PickInv'
<1> SUFFICES ASSUME PickInv, [BookNext]_bookVars PROVE PickInv'
  OBVIOUS
<1>0. ASSUME UNCHANGED lookupVars PROVE PickInv'
  BY <1>0 DEF lookupVars, PickInv, ConfirmedByOwnLog
<1>1. ASSUME NEW d \in Documents, Replace(d) \/ Rewrite(d) PROVE PickInv'
  BY <1>0, <1>1 DEF Replace, Rewrite
<1>2. CASE RemoveFile \/ WriteOn \/ ReloadReads \/ ReloadSwaps
  BY <1>0, <1>2 DEF RemoveFile, WriteOn, ReloadReads, ReloadSwaps
<1>3. ASSUME NEW l \in Lookups, Find(l) PROVE PickInv'
  <2>1. PICK e \in Candidates(KindOf[l]) :
          /\ pick' = [pick EXCEPT ![l] = e]
          /\ IF e # NoEntry /\ e.signatures # {}
             THEN asked' = [asked EXCEPT ![l] = "logs"] /\ UNCHANGED told
             ELSE Answered(l, Plain(e))
    BY <1>3 DEF Find
  <2>2. /\ DOMAIN pick' = Lookups /\ pick'[l] = e
        /\ \A k \in Lookups \ {l} : pick'[k] = pick[k]
    BY <2>1 DEF PickInv
  <2>3. CASE Answered(l, Plain(e))
    BY <2>2, <2>3, AnsweredSets, PlainOK
  <2>4. CASE e # NoEntry /\ asked' = [asked EXCEPT ![l] = "logs"] /\ UNCHANGED told
    <3>1. /\ DOMAIN asked' = Lookups /\ asked'[l] = "logs" /\ told' = told
          /\ \A k \in Lookups \ {l} : asked'[k] = asked[k]
      BY <2>4 DEF PickInv
    <3>2. told[l] = NoAnswer
      BY <1>3 DEF Find, PickInv
    <3>3. \A k \in Lookups :
            /\ asked'[k] = "new" => told'[k] = NoAnswer
            /\ asked'[k] = "logs" => pick'[k] # NoEntry /\ told'[k] = NoAnswer
      BY <2>2, <2>4, <3>1, <3>2 DEF PickInv
    <3>4. ConfirmedByOwnLog'
      BY <3>1 DEF PickInv, ConfirmedByOwnLog
    <3> QED BY <2>2, <3>1, <3>3, <3>4 DEF PickInv
  <2> QED BY <2>1, <2>3, <2>4
<1>4. ASSUME NEW l \in Lookups, Confirm(l) PROVE PickInv'
  <2>1. pick' = pick /\ asked[l] = "logs"
    BY <1>4 DEF Confirm
  <2>2. pick[l] # NoEntry /\ DOMAIN pick = Lookups
    BY <2>1 DEF PickInv
  <2>3. PICK log0 \in GetLogs :
          IF pick[l].signatures \cap log0 # {}
          THEN Answered(l, [entry |-> Picked(l), confirmed |-> TRUE,
                            log |-> log0, source |-> pick[l].source])
          ELSE Answered(l, Plain(Picked(l)))
    BY <1>4 DEF Confirm
  <2>4. CASE pick[l].signatures \cap log0 # {}
    <3> DEFINE a == [entry |-> Picked(l), confirmed |-> TRUE,
                     log |-> log0, source |-> pick[l].source]
    <3>1. AnswerOK(a)
      BY <2>2, <2>4 DEF AnswerOK, Picked
    <3>2. Answered(l, a)
      BY <2>3, <2>4
    <3> HIDE DEF a
    <3> QED BY <2>1, <2>2, <3>1, <3>2, AnsweredSets
  <2>5. CASE Answered(l, Plain(Picked(l)))
    BY <2>1, <2>2, <2>5, AnsweredSets, PlainOK
  <2> QED BY <2>3, <2>4, <2>5
<1>5. CASE UNCHANGED bookVars
  BY <1>0, <1>5 DEF bookVars, lookupVars
<1> QED BY <1>1, <1>2, <1>3, <1>4, <1>5 DEF BookNext

\* An answer said to be confirmed by the log is one entry's, with its own log
\* source and one of its signatures found there, although the catalogue may
\* have been reloaded while the log was fetched (confirmViaLogs).
THEOREM ConfirmationsAreOwn == BookSpec => []ConfirmedByOwnLog
<1>1. BookInit => PickInv
  BY DEF BookInit, PickInv, ConfirmedByOwnLog, NoAnswer
<1>2. PickInv => ConfirmedByOwnLog
  BY DEF PickInv
<1> QED BY <1>1, <1>2, PickInvStep, PTL DEF BookSpec

\* What parse keeps of the first n sections.
KeptOf(d, n, f) ==
  f = [k \in 0..n |-> IF k = 0 THEN <<>>
                      ELSE IF CanBeFound(d[k]) THEN Append(f[k-1], d[k]) ELSE f[k-1]]

LEMMA KeptExists == \A d : \A n \in Nat : \E f : KeptOf(d, n, f)
<1> TAKE d
<1> DEFINE S == {n \in Nat : \E f : KeptOf(d, n, f)}
<1>1. 0 \in S
  <2>1. KeptOf(d, 0, [k \in 0..0 |-> <<>>])
    BY DEF KeptOf
  <2> QED BY <2>1
<1>2. ASSUME NEW n \in S PROVE n + 1 \in S
  <2>1. PICK f : KeptOf(d, n, f)
    OBVIOUS
  <2> DEFINE g == [k \in 0..(n+1) |->
                     IF k # n + 1 THEN f[k]
                     ELSE IF CanBeFound(d[k]) THEN Append(f[n], d[k]) ELSE f[n]]
  <2>2. \A k \in 0..(n+1) :
          g[k] = IF k = 0 THEN <<>>
                 ELSE IF CanBeFound(d[k]) THEN Append(g[k-1], d[k]) ELSE g[k-1]
    <3> TAKE k \in 0..(n+1)
    <3>1. CASE k = n + 1
      BY <3>1
    <3>2. CASE k \in 0..n
      <4>1. g[k] = f[k] /\ (k # 0 => g[k-1] = f[k-1])
        BY <3>2
      <4>2. f[k] = IF k = 0 THEN <<>>
                   ELSE IF CanBeFound(d[k]) THEN Append(f[k-1], d[k]) ELSE f[k-1]
        BY <2>1, <3>2 DEF KeptOf
      <4> QED BY <4>1, <4>2
    <3> QED BY <3>1, <3>2
  <2>3. KeptOf(d, n + 1, g)
    BY <2>2 DEF KeptOf
  <2> QED BY <2>3
<1> HIDE DEF S
<1>3. S = Nat
  BY <1>1, <1>2, InductionOnNat DEF S
<1> QED BY <1>3 DEF S

\* parse keeps sections that can be found, and only those.
LEMMA ParseKeeps ==
  ASSUME NEW d \in Seq(Section)
  PROVE  Parse(d) \in Seq({e \in Section : CanBeFound(e)})
<1> DEFINE K == {e \in Section : CanBeFound(e)}
           f == CHOOSE g : KeptOf(d, Len(d), g)
           S == {n \in Nat : n <= Len(d) => f[n] \in Seq(K)}
<1>1. Parse(d) = f[Len(d)]
  BY DEF Parse, KeptOf
<1>2. KeptOf(d, Len(d), f)
  BY KeptExists
<1> HIDE DEF f, K
<1>n. Len(d) \in Nat
  OBVIOUS
<1>3. 0 \in S
  <2>1. f[0] = <<>>
    BY <1>n, <1>2 DEF KeptOf
  <2> QED BY <2>1, EmptySeq
<1>4. ASSUME NEW n \in S PROVE n + 1 \in S
  <2> SUFFICES ASSUME n + 1 <= Len(d) PROVE f[n+1] \in Seq(K)
    OBVIOUS
  <2>1. f[n+1] = IF CanBeFound(d[n+1]) THEN Append(f[n], d[n+1]) ELSE f[n]
    <3>1. n + 1 \in 0..Len(d) /\ n + 1 # 0 /\ (n + 1) - 1 = n
      BY <1>n
    <3> QED BY <1>2, <3>1 DEF KeptOf
  <2>2. f[n] \in Seq(K)
    BY <1>n
  <2>3. d[n+1] \in Section
    BY <1>n
  <2>4. CanBeFound(d[n+1]) => d[n+1] \in K
    BY <2>3 DEF K
  <2> QED BY <2>1, <2>2, <2>4
<1> HIDE DEF S
<1>5. S = Nat
  BY <1>3, <1>4, InductionOnNat DEF S
<1> QED BY <1>n, <1>1, <1>5 DEF S, K

\* The file is a beginning of the text it is meant to hold, its last section
\* perhaps cut short.
Beginning ==
  onDisk # Gone =>
    /\ Len(onDisk) <= Len(text)
    /\ \A i \in 1..Len(onDisk) :
         onDisk[i] = text[i] \/ (i = Len(onDisk) /\ onDisk[i] = Half(text[i]))

\* BookTypeOK in parts: what is on file, what is in memory, the flags.
FileFits ==
  /\ text \in Documents /\ edits \in 0..MaxEdits
  /\ onDisk \in Seq(Section) \cup {Gone}
  /\ Beginning

MemoryFits ==
  /\ catalogue \in Seq(Section) /\ \A e \in Entries : CanBeFound(e)
  /\ data \in Seq(Section) \cup {Gone, NoEntry}

LookupsFit ==
  /\ asked \in [Lookups -> {"new", "logs", "answered"}]
  /\ pick \in [Lookups -> Section \cup {NoEntry}]
  /\ DOMAIN told = Lookups /\ \A l \in Lookups : told[l].confirmed \in BOOLEAN

BookInv ==
  FileFits /\ MemoryFits /\ LookupsFit /\ rewritten \in BOOLEAN /\ watching \in BOOLEAN

\* The entry Find answers with is one of the catalogue's.
LEMMA CandidatesAreEntries ==
  ASSUME NEW k, catalogue \in Seq(Section)
  PROVE  Candidates(k) \subseteq Section \cup {NoEntry}
<1>1. Entries \subseteq Section
  BY DEF Entries, ToSet
<1>2. CASE Exact(k) # {}
  <2> DEFINE S == {i \in 1..Len(catalogue) : catalogue[i].kind = k}
  <2>1. S # {} /\ S \in SUBSET Nat
    BY <1>2 DEF Exact, Entries, ToSet
  <2>2. Min(S) \in S /\ \A i \in S : Min(S) <= i
    BY <2>1, LeastOf
  <2>3. \E i \in 1..Len(catalogue) :
          catalogue[i].kind = k /\ \A j \in 1..(i-1) : catalogue[j].kind # k
    <3>1. Min(S) \in 1..Len(catalogue) /\ catalogue[Min(S)].kind = k
      BY <2>2
    <3>2. \A j \in 1..(Min(S)-1) : j \in 1..Len(catalogue) /\ j \notin S
      BY <2>2
    <3>3. \A j \in 1..(Min(S)-1) : catalogue[j].kind # k
      BY <3>2
    <3> QED BY <3>1, <3>3
  <2> DEFINE first == CHOOSE i \in 1..Len(catalogue) :
               catalogue[i].kind = k /\ \A j \in 1..(i-1) : catalogue[j].kind # k
  <2>4. first \in 1..Len(catalogue)
    BY <2>3
  <2>5. Candidates(k) \subseteq {catalogue[first], NoEntry} \cup Similar(k)
    BY DEF Candidates
  <2>6. catalogue[first] \in Section
    BY <2>4
  <2>7. Similar(k) \subseteq Section
    BY <1>1 DEF Similar
  <2> HIDE DEF first
  <2> QED BY <2>5, <2>6, <2>7
<1>3. CASE Exact(k) = {}
  BY <1>1, <1>3 DEF Candidates, Similar
<1> QED BY <1>2, <1>3

LEMMA DocumentFits ==
  ASSUME NEW d \in Documents
  PROVE  d \in Seq(Section) /\ \A i \in 1..Len(d) : ~d[i].cut
  BY DocumentsAssumption

\* The steps of the person, or the volume, that edits the file.
LEMMA WriteOnFits == ASSUME FileFits, WriteOn PROVE FileFits'
<1>1. /\ onDisk \in Seq(Section) /\ onDisk # Gone /\ onDisk # text
      /\ text \in Documents /\ text' = text /\ edits' = edits
  BY DEF WriteOn, FileFits
<1>2. text \in Seq(Section) /\ \A i \in 1..Len(text) : ~text[i].cut
  BY <1>1, DocumentFits
<1>b. /\ Len(onDisk) <= Len(text)
      /\ \A i \in 1..Len(onDisk) :
           onDisk[i] = text[i] \/ (i = Len(onDisk) /\ onDisk[i] = Half(text[i]))
  BY <1>1 DEF FileFits, Beginning
<1>3. CASE onDisk # <<>> /\ Last(onDisk).cut
  <2>1. onDisk' = SubSeq(text, 1, Len(onDisk))
    BY <1>3 DEF WriteOn
  <2>2. onDisk' \in Seq(Section) /\ Len(onDisk') = Len(onDisk)
        /\ \A i \in 1..Len(onDisk') : onDisk'[i] = text[i]
    BY <1>1, <1>2, <1>b, <2>1
  <2>3. Beginning'
    BY <1>1, <1>b, <2>2 DEF Beginning
  <2> QED BY <1>1, <2>2, <2>3 DEF FileFits
<1>4. CASE ~(onDisk # <<>> /\ Last(onDisk).cut)
  <2>1. \A i \in 1..Len(onDisk) : onDisk[i] = text[i]
    <3> SUFFICES ASSUME NEW i \in 1..Len(onDisk), onDisk[i] # text[i] PROVE FALSE
      OBVIOUS
    <3>1. i = Len(onDisk) /\ onDisk[i] = Half(text[i]) /\ text[i] \in Section
      BY <1>1, <1>2, <1>b
    <3>2. Half(text[i]).cut
      BY <3>1 DEF Half, Section
    <3>3. onDisk # <<>>
      BY <1>1
    <3> QED BY <1>4, <3>1, <3>2, <3>3 DEF Last
  <2>2. Len(onDisk) < Len(text)
    BY <1>1, <1>2, <1>b, <2>1
  <2> DEFINE n == Len(onDisk) + 1
  <2>3. n \in 1..Len(text) /\ text[n] \in Section
    BY <1>1, <1>2, <2>2
  <2>h. Half(text[n]) \in Section
    BY <2>3 DEF Half, Section
  <2>4. onDisk' = Append(onDisk, Half(text[n]))
    BY <1>4 DEF WriteOn
  <2>5. /\ onDisk' \in Seq(Section) /\ Len(onDisk') = n
        /\ onDisk'[n] = Half(text[n])
        /\ \A i \in 1..Len(onDisk) : onDisk'[i] = onDisk[i]
    BY <1>1, <2>h, <2>4
  <2>6. \A i \in 1..n : onDisk'[i] = text[i] \/ (i = n /\ onDisk'[i] = Half(text[i]))
    BY <1>1, <2>1, <2>5
  <2>7. Beginning'
    BY <1>1, <2>3, <2>5, <2>6 DEF Beginning
  <2> QED BY <1>1, <2>5, <2>7 DEF FileFits
<1> QED BY <1>3, <1>4

LEMMA EditFits ==
  ASSUME FileFits, NEW d \in Documents, Replace(d) \/ Rewrite(d) PROVE FileFits'
<1>1. /\ text' = d /\ edits' = edits + 1 /\ edits < MaxEdits
      /\ onDisk' = d \/ onDisk' = <<>>
  BY DEF Replace, Rewrite, Edited
<1>2. d \in Seq(Section)
  BY DocumentFits
<1>3. edits' \in 0..MaxEdits
  BY <1>1, DocumentsAssumption DEF FileFits
<1>4. onDisk' \in Seq(Section)
  BY <1>1, <1>2, EmptySeq
<1>5. Len(onDisk') <= Len(text') /\ \A i \in 1..Len(onDisk') : onDisk'[i] = text'[i]
  <2>1. CASE onDisk' = d
    BY <1>1, <1>2, <2>1
  <2>2. CASE onDisk' = <<>>
    BY <1>1, <1>2, <2>2, EmptySeq
  <2> QED BY <1>1, <2>1, <2>2
<1> QED BY <1>1, <1>3, <1>4, <1>5 DEF FileFits, Beginning

LEMMA RemovalFits == ASSUME FileFits, RemoveFile PROVE FileFits'
<1>1. onDisk' = Gone /\ text' = text /\ edits' = edits + 1 /\ edits < MaxEdits
  BY DEF RemoveFile, Edited
<1>2. edits' \in 0..MaxEdits
  BY <1>1, DocumentsAssumption DEF FileFits
<1> QED BY <1>1, <1>2 DEF FileFits, Beginning

\* Reload takes up what it read, or keeps what it had.
LEMMA SwapFits == ASSUME MemoryFits, ReloadSwaps PROVE MemoryFits'
<1>1. data \in Seq(Section) \cup {Gone} /\ catalogue' = NewSet(data) /\ data' = NoEntry
  BY DEF MemoryFits, ReloadSwaps
<1>2. CASE data = Gone
  BY <1>1, <1>2 DEF MemoryFits, NewSet, Entries
<1>3. CASE data \in Seq(Section) /\ data # Gone
  <2>1. catalogue' \in Seq({e \in Section : CanBeFound(e)})
    BY <1>1, <1>3, ParseKeeps DEF NewSet
  <2>2. catalogue' \in Seq(Section) /\ \A e \in Entries' : CanBeFound(e)
    BY <2>1 DEF Entries, ToSet
  <2> QED BY <1>1, <2>2 DEF MemoryFits
<1> QED BY <1>1, <1>2, <1>3

LEMMA AnswerFits ==
  ASSUME LookupsFit, NEW l \in Lookups, NEW a, Answered(l, a), a.confirmed \in BOOLEAN,
         pick' \in [Lookups -> Section \cup {NoEntry}]
  PROVE  LookupsFit'
<1>1. told' = [told EXCEPT ![l] = a] /\ asked' = [asked EXCEPT ![l] = "answered"]
  BY DEF Answered
<1>2. DOMAIN told' = Lookups /\ told'[l] = a /\ \A k \in Lookups \ {l} : told'[k] = told[k]
  BY <1>1 DEF LookupsFit
<1>3. \A k \in Lookups : told'[k].confirmed \in BOOLEAN
  <2> TAKE k \in Lookups
  <2>1. CASE k = l
    BY <1>2, <2>1
  <2>2. CASE k # l
    BY <1>2, <2>2 DEF LookupsFit
  <2> QED BY <2>1, <2>2
<1>4. asked' \in [Lookups -> {"new", "logs", "answered"}]
  BY <1>1 DEF LookupsFit
<1> QED BY <1>2, <1>3, <1>4 DEF LookupsFit

LEMMA FindFits ==
  ASSUME LookupsFit, MemoryFits, NEW l \in Lookups, Find(l) PROVE LookupsFit'
<1>1. PICK e \in Candidates(KindOf[l]) :
        /\ pick' = [pick EXCEPT ![l] = e]
        /\ \/ asked' = [asked EXCEPT ![l] = "logs"] /\ UNCHANGED told
           \/ Answered(l, Plain(e))
  BY DEF Find
<1>2. pick' \in [Lookups -> Section \cup {NoEntry}]
  BY <1>1, CandidatesAreEntries DEF LookupsFit, MemoryFits
<1>3. CASE asked' = [asked EXCEPT ![l] = "logs"] /\ UNCHANGED told
  BY <1>2, <1>3 DEF LookupsFit
<1>4. CASE Answered(l, Plain(e))
  <2>1. Plain(e).confirmed \in BOOLEAN
    BY DEF Plain, NoAnswer
  <2> QED BY <1>2, <1>4, <2>1, AnswerFits
<1> QED BY <1>1, <1>3, <1>4

LEMMA ConfirmFits == ASSUME LookupsFit, NEW l \in Lookups, Confirm(l) PROVE LookupsFit'
<1>1. pick' = pick
  BY DEF Confirm
<1>2. PICK found \in GetLogs :
        IF pick[l].signatures \cap found # {}
        THEN Answered(l, [entry |-> Picked(l), confirmed |-> TRUE,
                          log |-> found, source |-> pick[l].source])
        ELSE Answered(l, Plain(Picked(l)))
  BY DEF Confirm
<1>3. \E a : Answered(l, a) /\ a.confirmed \in BOOLEAN
  <2>1. Plain(Picked(l)).confirmed \in BOOLEAN
    BY DEF Plain, NoAnswer
  <2>2. [entry |-> Picked(l), confirmed |-> TRUE,
         log |-> found, source |-> pick[l].source].confirmed \in BOOLEAN
    OBVIOUS
  <2> QED BY <1>2, <2>1, <2>2
<1> QED BY <1>1, <1>3, AnswerFits DEF LookupsFit

LEMMA BookInvStep == BookInv /\ [BookNext]_bookVars => BookInv'
<1> SUFFICES ASSUME BookInv, [BookNext]_bookVars PROVE BookInv'
  OBVIOUS
<1>1. FileFits'
  <2>1. CASE UNCHANGED <<text, onDisk, edits>>
    BY <2>1 DEF BookInv, FileFits, Beginning
  <2>2. \/ UNCHANGED <<text, onDisk, edits>> \/ WriteOn \/ RemoveFile
        \/ \E d \in Documents : Replace(d) \/ Rewrite(d)
    BY DEF BookNext, bookVars, ReloadReads, ReloadSwaps, Find, Confirm
  <2> QED BY <2>1, <2>2, WriteOnFits, RemovalFits, EditFits DEF BookInv
<1>2. MemoryFits'
  <2>1. CASE UNCHANGED catalogue /\ data' \in {data, onDisk}
    BY <2>1 DEF BookInv, FileFits, MemoryFits, Entries
  <2>2. ReloadSwaps \/ (UNCHANGED catalogue /\ data' \in {data, onDisk})
    BY DEF BookNext, bookVars, Replace, Rewrite, RemoveFile, WriteOn, ReloadReads, Find, Confirm
  <2> QED BY <2>1, <2>2, SwapFits DEF BookInv
<1>3. LookupsFit'
  <2>1. CASE UNCHANGED lookupVars
    BY <2>1 DEF BookInv, LookupsFit, lookupVars
  <2>2. UNCHANGED lookupVars \/ \E l \in Lookups : Find(l) \/ Confirm(l)
    BY DEF BookNext, bookVars, lookupVars, Replace, Rewrite, RemoveFile, WriteOn,
           ReloadReads, ReloadSwaps
  <2> QED BY <2>1, <2>2, FindFits, ConfirmFits DEF BookInv
<1>4. rewritten' \in BOOLEAN
  <2>1. rewritten' = rewritten \/ rewritten' = TRUE
    BY DEF BookNext, bookVars, Replace, Rewrite, RemoveFile, WriteOn, ReloadReads, ReloadSwaps,
           Find, Confirm
  <2> QED BY <2>1 DEF BookInv
<1>5. watching' \in BOOLEAN
  <2>1. watching' = watching \/ watching' = (onDisk = Gone => AfterReadError)
    BY DEF BookNext, bookVars, Replace, Rewrite, RemoveFile, WriteOn, ReloadReads, ReloadSwaps,
           Find, Confirm
  <2> QED BY <2>1 DEF BookInv
<1> QED BY <1>1, <1>2, <1>3, <1>4, <1>5 DEF BookInv

\* The catalogue only ever holds entries that a lookup can find, also while
\* the file is being written under the reload, which may read any beginning of
\* it (parse, Reload).
THEOREM CatalogueIsFindable == BookSpec => []BookTypeOK
<1>1. BookInit => BookInv
  <2> SUFFICES ASSUME BookInit PROVE BookInv
    OBVIOUS
  <2>1. /\ FirstDoc \in Documents /\ FirstDoc \in Seq(Section)
        /\ text = FirstDoc /\ onDisk = FirstDoc
    BY DocumentFits, DocumentsAssumption DEF BookInit
  <2>2. catalogue \in Seq({e \in Section : CanBeFound(e)})
    BY <2>1, ParseKeeps DEF BookInit
  <2>3. MemoryFits
    BY <2>2 DEF BookInit, MemoryFits, Entries, ToSet
  <2>4. Beginning
    BY <2>1 DEF Beginning
  <2>5. FileFits
    BY <2>1, <2>4, DocumentsAssumption DEF BookInit, FileFits
  <2>6. LookupsFit
    BY DEF BookInit, LookupsFit, NoAnswer
  <2> QED BY <2>3, <2>5, <2>6 DEF BookInit, BookInv
<1>2. BookInv => BookTypeOK
  BY DEF BookInv, FileFits, MemoryFits, LookupsFit, BookTypeOK
<1> QED BY <1>1, <1>2, BookInvStep, PTL DEF BookSpec

=============================================================================
