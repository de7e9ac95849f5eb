------------------------ MODULE Troubleshoot_proofs ------------------------
(***************************************************************************)
(* Proofs about the troubleshoot and approve_action tools, for any number  *)
(* of requests, callers and clusters, any group mapping and any account    *)
(* scope: what may run a high-risk action, what may run by itself, what an *)
(* approval runs and what an incident id stands for.                       *)
(***************************************************************************)
EXTENDS Troubleshoot, TLAPS

Entries == [by : Requests, cluster : Clusters, kind : Kinds, actions : Seq(Rungs),
            owned : BOOLEAN, attempts : Seq(Rungs)]
PCs  == {"idle", "diagnosing", "executing", "approving", "recording", "returned"}
Jobs == {"none", "sent", "walking", "approved", "replied", "failed"}

ArgsOK ==
  /\ tool \in [Requests -> {"", "troubleshoot", "approve"}]
  /\ caller \in [Requests -> Callers \cup {""}]
  /\ cluster \in [Requests -> Clusters \cup {""}]
  /\ kind \in [Requests -> Kinds \cup {""}]
  /\ target \in [Requests -> [incident : Nat, action : Rungs \cup {""}]]
HubOK ==
  /\ pc \in [Requests -> PCs]
  /\ ladder \in [Requests -> Seq(Rungs)]
  /\ owned \in [Requests -> BOOLEAN]
  /\ audit \in Seq(Entries)
  /\ incident \in [Requests -> Nat]
JobOK ==
  /\ job \in [Requests -> Jobs]
  /\ plan \in [Requests -> Seq(Rungs)]
  /\ attempts \in [Requests -> Seq(Rungs)]

TypeInv == enabled \in BOOLEAN /\ ArgsOK /\ HubOK /\ JobOK

\* How far the hub's goroutine and the agent's can be apart.
StageOK(r) ==
  /\ pc[r] \notin {"idle", "returned"} => cluster[r] \in Clusters /\ kind[r] \in Kinds
  /\ pc[r] = "idle" => tool[r] = ""
  /\ pc[r] = "diagnosing" => /\ tool[r] = "troubleshoot"
                             /\ <<caller[r], cluster[r]>> \in Scope
  /\ pc[r] \in {"idle", "diagnosing"} => job[r] = "none"
  /\ pc[r] = "recording" => job[r] \in {"none", "replied"}
  /\ pc[r] # "returned" => incident[r] = 0
  /\ tool[r] = "" => job[r] = "none"
  /\ job[r] \in {"none", "sent", "approved"} => attempts[r] = <<>>
  /\ job[r] = "walking" => tool[r] = "troubleshoot"
  /\ job[r] = "approved" => tool[r] = "approve" /\ plan[r] = <<target[r].action>>

\* A job the policy let run, and what it may have run.
RunOK(r) ==
  tool[r] = "troubleshoot" /\ job[r] # "none" =>
    /\ enabled /\ TierOf(caller[r]).ok /\ TierOf(caller[r]).tier # "readonly"
    /\ <<caller[r], cluster[r]>> \in Scope
    /\ kind[r] \in Kinds \ {"unknown"}
    /\ \A n \in DOMAIN attempts[r] : RiskOf(attempts[r][n]) # "high"

\* An approval stands on the record it named.
ApprovalOK(r) ==
  tool[r] = "approve" =>
    /\ enabled /\ TierOf(caller[r]).tier = "prod-admin" /\ <<caller[r], cluster[r]>> \in Scope
    /\ target[r].incident \in DOMAIN audit
    /\ audit[target[r].incident].cluster = cluster[r]
    /\ audit[target[r].incident].kind = kind[r]
    /\ audit[target[r].incident].by # r
    /\ Proposed(target[r].incident, target[r].action) /\ RiskOf(target[r].action) = "high"
    /\ attempts[r] \in {<<>>, <<target[r].action>>}

\* Nothing can be run for a request after it was recorded.
RecordOK(r) ==
  incident[r] # 0 =>
    /\ incident[r] \in DOMAIN audit /\ job[r] \in {"none", "replied"}
    /\ audit[incident[r]].by = r /\ audit[incident[r]].cluster = cluster[r]
    /\ audit[incident[r]].attempts = attempts[r]

Stages == \A r \in Requests : StageOK(r)
Troubleshooting == \A r \in Requests : RunOK(r)
Approving == \A r \in Requests : ApprovalOK(r)
Recorded == /\ \A r \in Requests : RecordOK(r)
            /\ \A i \in DOMAIN audit : pc[audit[i].by] = "returned"

\* None of the properties is inductive: they speak of what ran, and a job may
\* run long after the answer that let it.
Inv == TypeInv /\ Stages /\ Troubleshooting /\ Approving /\ Recorded

LEMMA InvInit == Init => Inv
<1> SUFFICES ASSUME Init PROVE Inv
  OBVIOUS
<1>1. ArgsOK
  <2>1. target \in [Requests -> [incident : Nat, action : Rungs \cup {""}]]
    BY DEF Init, NoTarget
  <2> QED BY <2>1 DEF Init, ArgsOK
<1>2. JobOK
  <2>1. /\ job = [r \in Requests |-> "none"] /\ plan = [r \in Requests |-> <<>>]
        /\ attempts = [r \in Requests |-> <<>>]
    BY DEF Init
  <2> QED BY <2>1 DEF JobOK, Jobs
<1>3. /\ audit = <<>> /\ pc = [r \in Requests |-> "idle"] /\ enabled \in BOOLEAN
      /\ ladder = [r \in Requests |-> <<>>] /\ owned = [r \in Requests |-> FALSE]
      /\ incident = [r \in Requests |-> 0]
  BY DEF Init
<1>4. HubOK
  BY <1>3 DEF HubOK, PCs
<1>5. Stages /\ Troubleshooting /\ Approving
  BY DEF Init, Stages, Troubleshooting, Approving, StageOK, RunOK, ApprovalOK
<1>6. Recorded
  BY <1>3 DEF Recorded, RecordOK
<1> QED BY <1>1, <1>2, <1>3, <1>4, <1>5, <1>6 DEF Inv, TypeInv

-----------------------------------------------------------------------------
(* The operators the actions are built from.                               *)

LEMMA LadderTyping ==
  ASSUME NEW k \in Kinds, k # "unknown", NEW own \in BOOLEAN
  PROVE  Ladder(k, own) \in Seq(Rungs)
<1>1. /\ CrashLoopLadder(own) \in Seq(Rungs) /\ OOMLadder(own) \in Seq(Rungs)
      /\ ImagePullLadder \in Seq(Rungs) /\ ExecFormatLadder \in Seq(Rungs)
      /\ CalicoLadder \in Seq(Rungs) /\ KedaLadder \in Seq(Rungs)
  <2>1. \A a, b, c \in Rungs : /\ <<a>> \in Seq(Rungs) /\ <<b, c>> \in Seq(Rungs)
                                /\ <<>> \in Seq(Rungs)
    OBVIOUS
  <2>2. \A p, q \in Seq(Rungs) : p \o q \in Seq(Rungs)
    OBVIOUS
  <2>3. <<"restart pod">> \in Seq(Rungs)
    BY <2>1 DEF Rungs
  <2>4. /\ <<"scale deployment down and up", "rollout restart deployment">> \in Seq(Rungs)
        /\ <<"increase memory limit">> \in Seq(Rungs) /\ <<>> \in Seq(Rungs)
    BY <2>1 DEF Rungs
  <2>5. CrashLoopLadder(own) \in Seq(Rungs)
    BY <2>2, <2>3, <2>4 DEF CrashLoopLadder
  <2>6. OOMLadder(own) \in Seq(Rungs)
    BY <2>2, <2>3, <2>4 DEF OOMLadder
  <2>7. /\ ImagePullLadder \in Seq(Rungs) /\ ExecFormatLadder \in Seq(Rungs)
        /\ CalicoLadder \in Seq(Rungs) /\ KedaLadder \in Seq(Rungs)
    BY <2>1 DEF ImagePullLadder, ExecFormatLadder, CalicoLadder, KedaLadder, Rungs
  <2> QED BY <2>5, <2>6, <2>7
<1> QED BY <1>1, KindsAssumption DEF Ladder

\* A decision that executes was made for a known caller above readonly.
LEMMA ExecutionIsEntitled ==
  ASSUME NEW m, NEW gs, NEW e, NEW risk, NEW f \in BOOLEAN, Executes(Decide(m, gs, e, risk, f))
  PROVE  f /\ HighestTier(m, gs).ok /\ HighestTier(m, gs).tier # "readonly"
<1> DEFINE in == [tier |-> HighestTier(m, gs).tier, env |-> e, risk |-> risk, flag |-> f]
<1>1. HighestTier(m, gs).ok /\ Decide(m, gs, e, risk, f) = Result(in)
  BY DEF Decide, Executes
<1>2. f /\ Applicable(in) \cap {"safe", "nonprod", "prod"} # {}
  BY <1>1 DEF Executes, Result
<1>3. SafeRule(in) \/ NonProdRule(in) \/ ProdRule(in)
  BY <1>2 DEF Applicable
<1> QED BY <1>1, <1>2, <1>3 DEF SafeRule, NonProdRule, ProdRule

\* A rung the agent takes by itself.
LEMMA RungTyping ==
  ASSUME TypeInv, NEW r \in Requests, ~LadderOver(r)
  PROVE  NextRung(r) \in Rungs /\ RiskOf(NextRung(r)) # "high"
<1>1. plan[r] \in Seq(Rungs) /\ attempts[r] \in Seq(Rungs)
  BY DEF TypeInv, JobOK
<1>2. Len(attempts[r]) + 1 \in 1..Len(plan[r])
  BY <1>1 DEF LadderOver
<1> QED BY <1>1, <1>2 DEF LadderOver, NextRung

-----------------------------------------------------------------------------
(* Types.                                                                  *)

LEMMA TypeStep == TypeInv /\ Stages /\ Troubleshooting /\ Approving /\ [Next]_vars => TypeInv'
<1> SUFFICES ASSUME TypeInv, Stages, Troubleshooting, Approving, [Next]_vars PROVE TypeInv'
  OBVIOUS
<1>t. enabled \in BOOLEAN /\ ArgsOK /\ HubOK /\ JobOK
  BY DEF TypeInv
<1>k. \A r \in Requests : pc[r] \notin {"idle", "returned"} =>
        cluster[r] \in Clusters /\ kind[r] \in Kinds
  BY DEF Stages, StageOK
<1>f. \A r \in Requests : Fail(r) => HubOK'
  BY <1>t DEF Fail, HubOK, PCs
<1>1. ASSUME NEW r \in Requests, NEW u \in Callers, NEW c \in Clusters, NEW k \in Kinds,
             Troubleshoot(r, u, c, k)
      PROVE  TypeInv'
  <2>1. ArgsOK'
    BY <1>1, <1>t DEF Troubleshoot, ArgsOK
  <2>2. HubOK'
    BY <1>1, <1>t DEF Troubleshoot, HubOK, PCs
  <2> QED BY <1>1, <1>t, <2>1, <2>2 DEF Troubleshoot, TypeInv, JobOK, jobVars
<1>2. ASSUME NEW r \in Requests, NEW u \in Callers, NEW i \in DOMAIN audit, NEW a \in Rungs,
             Approve(r, u, i, a)
      PROVE  TypeInv'
  <2>1. audit[i] \in Entries /\ i \in Nat
    BY <1>t DEF HubOK
  <2>2. /\ [incident |-> i, action |-> a] \in [incident : Nat, action : Rungs \cup {""}]
        /\ audit[i].cluster \in Clusters /\ audit[i].kind \in Kinds
    BY <2>1 DEF Entries
  <2>3. ArgsOK'
    BY <1>2, <1>t, <2>2 DEF Approve, ArgsOK
  <2>4. HubOK'
    BY <1>2, <1>t DEF Approve, HubOK, PCs
  <2>5. JobOK'
    BY <1>2, <1>t DEF Approve, JobOK, Jobs
  <2> QED BY <1>2, <1>t, <2>3, <2>4, <2>5 DEF Approve, TypeInv
<1>3. ASSUME NEW r \in Requests, Refuse(r) PROVE TypeInv'
  BY <1>3, <1>t, <1>f DEF Refuse, TypeInv, ArgsOK, JobOK, args, jobVars
<1>4. ASSUME NEW r \in Requests, Diagnosed(r) PROVE TypeInv'
  <2>1. UNCHANGED <<enabled, args, plan, attempts>>
    BY <1>4 DEF Diagnosed
  <2>2. JobOK'
    BY <1>4, <1>t, <2>1 DEF Diagnosed, JobOK, Jobs
  <2>3. CASE Fail(r)
    BY <1>t, <1>f, <2>1, <2>2, <2>3 DEF TypeInv, ArgsOK, args
  <2>4. ASSUME kind[r] = "unknown", pc' = [pc EXCEPT ![r] = "recording"],
               UNCHANGED <<ladder, owned, audit, incident>>
        PROVE  HubOK'
    BY <1>t, <2>4 DEF HubOK, PCs
  <2>5. ASSUME kind[r] # "unknown", NEW own \in BOOLEAN, NEW p \in {"executing", "recording"},
               ladder' = [ladder EXCEPT ![r] = Ladder(kind[r], own)],
               owned' = [owned EXCEPT ![r] = own], pc' = [pc EXCEPT ![r] = p],
               UNCHANGED <<audit, incident>>
        PROVE  HubOK'
    <3>1. Ladder(kind[r], own) \in Seq(Rungs)
      BY <1>4, <1>k, <2>5, LadderTyping DEF Diagnosed
    <3> QED BY <1>t, <2>5, <3>1 DEF HubOK, PCs
  <2>6. HubOK'
    BY <1>4, <1>f, <2>4, <2>5 DEF Diagnosed, OwnerFound
  <2> QED BY <1>t, <2>1, <2>2, <2>6 DEF TypeInv, ArgsOK, args
<1>5. ASSUME NEW r \in Requests, CallReturns(r) PROVE TypeInv'
  <2>1. HubOK'
    BY <1>5, <1>t, <1>f DEF CallReturns, HubOK, PCs
  <2> QED BY <1>5, <1>t, <2>1 DEF CallReturns, TypeInv, ArgsOK, JobOK, args, jobVars
<1>6. ASSUME NEW r \in Requests, Record(r) PROVE TypeInv'
  <2>1. /\ cluster[r] \in Clusters /\ kind[r] \in Kinds
        /\ ladder[r] \in Seq(Rungs) /\ owned[r] \in BOOLEAN /\ attempts[r] \in Seq(Rungs)
    BY <1>6, <1>t, <1>k DEF Record, HubOK, JobOK
  <2>2. Entry(r) \in Entries
    BY <2>1 DEF Entry, Entries
  <2>3. CASE ~Fail(r)
    <3>1. audit \in Seq(Entries)
      BY <1>t DEF HubOK
    <3>2. audit' \in Seq(Entries) /\ Len(audit) + 1 \in Nat
      BY <1>6, <2>2, <2>3, <3>1 DEF Record, Appended
    <3>3. HubOK'
      BY <1>6, <1>t, <2>3, <3>2 DEF Record, HubOK, PCs
    <3> QED BY <1>6, <1>t, <3>3 DEF Record, TypeInv, ArgsOK, JobOK, args, jobVars
  <2>4. CASE Fail(r)
    BY <1>6, <1>t, <1>f, <2>4 DEF Record, TypeInv, ArgsOK, JobOK, args, jobVars
  <2> QED BY <2>3, <2>4
<1>7. ASSUME NEW r \in Requests, AgentDerives(r) PROVE TypeInv'
  <2>1. kind[r] \in Kinds \ {"unknown"}
    BY <1>7 DEF AgentDerives, Troubleshooting, RunOK
  <2>2. \A own \in BOOLEAN : Ladder(kind[r], own) \in Seq(Rungs)
    BY <2>1, LadderTyping
  <2>3. JobOK'
    BY <1>7, <1>t, <2>2 DEF AgentDerives, JobFails, OwnerFound, JobOK, Jobs
  <2> QED BY <1>7, <1>t, <2>3 DEF AgentDerives, TypeInv, ArgsOK, HubOK, args, hubVars
<1>8. ASSUME NEW r \in Requests, AgentRung(r) PROVE TypeInv'
  <2>1. attempts[r] \in Seq(Rungs) /\ NextRung(r) \in Rungs
    BY <1>8, <1>t, RungTyping DEF AgentRung, JobOK
  <2>2. Append(attempts[r], NextRung(r)) \in Seq(Rungs)
    BY <2>1
  <2>3. JobOK'
    BY <1>8, <1>t, <2>2 DEF AgentRung, JobOK, Jobs
  <2> QED BY <1>8, <1>t, <2>3 DEF AgentRung, TypeInv, ArgsOK, HubOK, args, hubVars
<1>9. ASSUME NEW r \in Requests, AgentDone(r) PROVE TypeInv'
  <2>1. JobOK'
    BY <1>9, <1>t DEF AgentDone, JobOK, Jobs
  <2> QED BY <1>9, <1>t, <2>1 DEF AgentDone, TypeInv, ArgsOK, HubOK, args, hubVars
<1>10. ASSUME NEW r \in Requests, AgentRechecks(r) PROVE TypeInv'
  <2>1. target[r].action \in Rungs
    BY <1>10 DEF AgentRechecks, Approving, ApprovalOK, RiskOf, Rungs
  <2>2. <<target[r].action>> \in Seq(Rungs)
    BY <2>1
  <2>3. JobOK'
    BY <1>10, <1>t, <2>2 DEF AgentRechecks, JobFails, Chosen, JobOK, Jobs
  <2> QED BY <1>10, <1>t, <2>3 DEF AgentRechecks, TypeInv, ArgsOK, HubOK, args, hubVars
<1>11. ASSUME NEW r \in Requests, AgentRunsApproved(r) PROVE TypeInv'
  <2>1. target[r].action \in Rungs
    BY <1>11 DEF AgentRunsApproved, Stages, StageOK, Approving, ApprovalOK, RiskOf, Rungs
  <2>2. attempts[r] = <<>> /\ NextRung(r) = target[r].action
    <3>1. attempts[r] = <<>> /\ plan[r] = <<target[r].action>>
      BY <1>11 DEF AgentRunsApproved, Stages, StageOK
    <3> QED BY <3>1 DEF NextRung
  <2>3. Append(attempts[r], NextRung(r)) \in Seq(Rungs)
    BY <2>1, <2>2
  <2>4. JobOK'
    BY <1>11, <1>t, <2>3 DEF AgentRunsApproved, JobOK, Jobs
  <2> QED BY <1>11, <1>t, <2>4 DEF AgentRunsApproved, TypeInv, ArgsOK, HubOK, args, hubVars
<1>12. ASSUME NEW c \in Clusters, Drift(c) PROVE TypeInv'
  BY <1>12, <1>t DEF Drift, TypeInv, ArgsOK, HubOK, JobOK, args, hubVars, jobVars
<1>13. CASE UNCHANGED vars
  BY <1>13, <1>t DEF TypeInv, ArgsOK, HubOK, JobOK, vars
<1> QED
  BY <1>1, <1>2, <1>3, <1>4, <1>5, <1>6, <1>7, <1>8, <1>9, <1>10, <1>11, <1>12, <1>13
  DEF Next, Hub, Agent

-----------------------------------------------------------------------------
(* What no step changes.                                                   *)

\* The audit trail is only appended to.
LEMMA AuditKept ==
  ASSUME TypeInv, [Next]_vars
  PROVE  /\ DOMAIN audit \subseteq DOMAIN audit'
         /\ \A i \in DOMAIN audit : audit'[i] = audit[i]
<1>1. audit \in Seq(Entries)
  BY DEF TypeInv, HubOK
<1>2. ASSUME NEW r \in Requests, audit' = Appended(r)
      PROVE  /\ DOMAIN audit \subseteq DOMAIN audit'
             /\ \A i \in DOMAIN audit : audit'[i] = audit[i]
  BY <1>1, <1>2 DEF Appended
<1>3. audit' = audit \/ \E r \in Requests : audit' = Appended(r)
  BY DEF Next, Hub, Agent, Troubleshoot, Approve, Refuse, Diagnosed, CallReturns, Record, Fail,
         AgentDerives, AgentRung, AgentDone, AgentRechecks, AgentRunsApproved, Drift,
         hubVars, vars
<1> QED BY <1>2, <1>3

\* A request's arguments are set once, when it leaves idle.
LEMMA ArgsKept ==
  ASSUME TypeInv, [Next]_vars, NEW q \in Requests, pc[q] # "idle"
  PROVE  /\ tool'[q] = tool[q] /\ caller'[q] = caller[q] /\ cluster'[q] = cluster[q]
         /\ kind'[q] = kind[q] /\ target'[q] = target[q] /\ enabled' = enabled
         /\ pc'[q] # "idle"
<1>t. /\ pc \in [Requests -> PCs] /\ ArgsOK
  BY DEF TypeInv, HubOK
<1>1. ASSUME NEW r \in Requests, NEW u \in Callers, NEW c \in Clusters, NEW k \in Kinds,
             Troubleshoot(r, u, c, k)
      PROVE  /\ UNCHANGED <<tool[q], caller[q], cluster[q], kind[q], target[q], enabled>>
             /\ pc'[q] # "idle"
  BY <1>1, <1>t DEF Troubleshoot, ArgsOK
<1>2. ASSUME NEW r \in Requests, NEW u \in Callers, NEW i \in DOMAIN audit, NEW a \in Rungs,
             Approve(r, u, i, a)
      PROVE  /\ UNCHANGED <<tool[q], caller[q], cluster[q], kind[q], target[q], enabled>>
             /\ pc'[q] # "idle"
  BY <1>2, <1>t DEF Approve, ArgsOK
<1>3. ASSUME NEW r \in Requests,
             Refuse(r) \/ Diagnosed(r) \/ CallReturns(r) \/ Record(r)
      PROVE  UNCHANGED args /\ enabled' = enabled /\ pc'[q] # "idle"
  BY <1>3, <1>t DEF Refuse, Diagnosed, CallReturns, Record, Fail
<1>4. ASSUME \/ \E r \in Requests : Agent(r)
             \/ \E c \in Clusters : Drift(c)
             \/ UNCHANGED vars
      PROVE  UNCHANGED args /\ enabled' = enabled /\ pc' = pc
  BY <1>4 DEF Agent, AgentDerives, AgentRung, AgentDone, AgentRechecks, AgentRunsApproved,
              Drift, hubVars, args, vars
<1> QED BY <1>1, <1>2, <1>3, <1>4 DEF Next, Hub, args

\* A step of request r's goroutines leaves the others alone, but for the jobs
\* a panic of their agent ends.
LEMMA OthersKept ==
  ASSUME TypeInv, NEW r \in Requests, Hub(r) \/ Agent(r), NEW q \in Requests, q # r
  PROVE  /\ UNCHANGED <<tool[q], caller[q], cluster[q], kind[q], target[q], pc[q], plan[q],
                        attempts[q], incident[q]>>
         /\ job'[q] = job[q] \/ (UnderWay(q) /\ job'[q] = "failed")
<1>t. ArgsOK /\ HubOK /\ JobOK
  BY DEF TypeInv
<1>1. ASSUME NEW u \in Callers, NEW c \in Clusters, NEW k \in Kinds, Troubleshoot(r, u, c, k)
      PROVE  UNCHANGED <<tool[q], caller[q], cluster[q], kind[q], target[q], pc[q], plan[q],
                         attempts[q], incident[q], job[q]>>
  BY <1>1, <1>t DEF Troubleshoot, jobVars, ArgsOK, HubOK
<1>2. ASSUME NEW u \in Callers, NEW i \in DOMAIN audit, NEW a \in Rungs, Approve(r, u, i, a)
      PROVE  UNCHANGED <<tool[q], caller[q], cluster[q], kind[q], target[q], pc[q], plan[q],
                         attempts[q], incident[q], job[q]>>
  <2>1. /\ UNCHANGED <<tool[q], caller[q], cluster[q], kind[q], target[q]>>
    BY <1>2, <1>t DEF Approve, ArgsOK
  <2>2. UNCHANGED <<pc[q], job[q]>>
    BY <1>2, <1>t DEF Approve, HubOK, JobOK
  <2> QED BY <1>2, <2>1, <2>2 DEF Approve
<1>3. ASSUME Refuse(r) \/ Diagnosed(r) \/ CallReturns(r) \/ Record(r)
      PROVE  UNCHANGED <<tool[q], caller[q], cluster[q], kind[q], target[q], pc[q], plan[q],
                         attempts[q], incident[q], job[q]>>
  <2>1. UNCHANGED <<args, plan, attempts>>
    BY <1>3 DEF Refuse, Diagnosed, CallReturns, Record, jobVars
  <2>2. UNCHANGED <<pc[q], incident[q], job[q]>>
    BY <1>3, <1>t DEF Refuse, Diagnosed, CallReturns, Record, Fail, jobVars, HubOK, JobOK
  <2> QED BY <2>1, <2>2 DEF args
<1>4. ASSUME Agent(r)
      PROVE  /\ UNCHANGED <<args, hubVars, plan[q], attempts[q]>>
             /\ job'[q] = job[q] \/ (UnderWay(q) /\ job'[q] = "failed")
  BY <1>4, <1>t DEF Agent, AgentDerives, AgentRung, AgentDone, AgentRechecks,
                    AgentRunsApproved, JobFails, JobOK
<1> QED BY <1>1, <1>2, <1>3, <1>4 DEF Hub, args, hubVars

-----------------------------------------------------------------------------
(* The inductive step.                                                     *)

\* What has been found of a request holds while its own goroutines rest.
LEMMA OthersOK ==
  ASSUME Inv, [Next]_vars, NEW r \in Requests, Hub(r) \/ Agent(r), NEW q \in Requests, q # r
  PROVE  StageOK(q)' /\ RunOK(q)' /\ ApprovalOK(q)' /\ RecordOK(q)'
<1>1. TypeInv /\ StageOK(q) /\ RunOK(q) /\ ApprovalOK(q) /\ RecordOK(q)
  BY DEF Inv, Stages, Troubleshooting, Approving, Recorded
<1>2. /\ UNCHANGED <<tool[q], caller[q], cluster[q], kind[q], target[q], pc[q], plan[q],
                     attempts[q], incident[q]>>
      /\ job'[q] = job[q] \/ (job[q] \in {"sent", "walking", "approved"} /\ job'[q] = "failed")
  BY <1>1, OthersKept DEF UnderWay
<1>3. /\ DOMAIN audit \subseteq DOMAIN audit'
      /\ \A i \in DOMAIN audit : audit'[i] = audit[i]
  BY <1>1, AuditKept
<1>4. tool[q] # "" => enabled' = enabled
  BY <1>1, ArgsKept DEF StageOK
<1>5. StageOK(q)'
  BY <1>1, <1>2 DEF StageOK
<1>6. RunOK(q)'
  BY <1>1, <1>2, <1>4 DEF RunOK, TierOf
<1>7. ApprovalOK(q)'
  BY <1>1, <1>2, <1>3, <1>4 DEF ApprovalOK, Proposed, TierOf
<1>8. RecordOK(q)'
  BY <1>1, <1>2, <1>3 DEF RecordOK
<1> QED BY <1>5, <1>6, <1>7, <1>8

RequestOK(r) == StageOK(r) /\ RunOK(r) /\ ApprovalOK(r) /\ RecordOK(r)

\* A step that leaves the arguments, the agent's side and the answer of r.
LEMMA StillOK ==
  ASSUME Inv, [Next]_vars, NEW r \in Requests, pc[r] # "idle",
         UNCHANGED <<job[r], plan[r], attempts[r], incident[r]>>,
         StageOK(r)'
  PROVE  RequestOK(r)'
<1>1. TypeInv /\ RunOK(r) /\ ApprovalOK(r) /\ RecordOK(r)
  BY DEF Inv, Troubleshooting, Approving, Recorded
<1>2. UNCHANGED <<tool[r], caller[r], cluster[r], kind[r], target[r], enabled>>
  BY <1>1, ArgsKept
<1>3. /\ DOMAIN audit \subseteq DOMAIN audit'
      /\ \A i \in DOMAIN audit : audit'[i] = audit[i]
  BY <1>1, AuditKept
<1>4. RunOK(r)'
  BY <1>1, <1>2 DEF RunOK, TierOf
<1>5. ApprovalOK(r)'
  BY <1>1, <1>2, <1>3 DEF ApprovalOK, Proposed, TierOf
<1>6. RecordOK(r)'
  BY <1>1, <1>2, <1>3 DEF RecordOK
<1> QED BY <1>4, <1>5, <1>6 DEF RequestOK

LEMMA HubOKStep ==
  ASSUME Inv, [Next]_vars, NEW r \in Requests, Hub(r)
  PROVE  RequestOK(r)'
<1>i. TypeInv /\ StageOK(r) /\ RunOK(r) /\ ApprovalOK(r) /\ RecordOK(r)
  BY DEF Inv, Stages, Troubleshooting, Approving, Recorded
<1>t. ArgsOK /\ HubOK /\ JobOK /\ enabled \in BOOLEAN
  BY <1>i DEF TypeInv
<1>1. ASSUME NEW u \in Callers, NEW c \in Clusters, NEW k \in Kinds, Troubleshoot(r, u, c, k)
      PROVE  RequestOK(r)'
  <2>1. /\ tool'[r] = "troubleshoot" /\ caller'[r] = u /\ cluster'[r] = c /\ kind'[r] = k
    BY <1>1, <1>t DEF Troubleshoot, ArgsOK
  <2>2. /\ pc[r] = "idle" /\ pc'[r] = "diagnosing" /\ <<u, c>> \in Scope
        /\ UNCHANGED <<job, plan, attempts, incident>>
    BY <1>1, <1>t DEF Troubleshoot, HubOK, InScope, jobVars
  <2>3. job[r] = "none" /\ attempts[r] = <<>> /\ incident[r] = 0
    BY <1>i, <2>2 DEF StageOK
  <2> QED BY <2>1, <2>2, <2>3 DEF RequestOK, StageOK, RunOK, ApprovalOK, RecordOK
<1>2. ASSUME NEW u \in Callers, NEW i \in DOMAIN audit, NEW a \in Rungs, Approve(r, u, i, a)
      PROVE  RequestOK(r)'
  <2>1. /\ tool'[r] = "approve" /\ caller'[r] = u /\ target'[r] = [incident |-> i, action |-> a]
        /\ cluster'[r] = audit[i].cluster /\ kind'[r] = audit[i].kind
    BY <1>2, <1>t DEF Approve, ArgsOK
  <2>2. pc[r] = "idle" /\ pc'[r] = "approving" /\ job'[r] = "sent"
    BY <1>2, <1>t DEF Approve, HubOK, JobOK
  <2>3. /\ UNCHANGED <<attempts, incident, audit, enabled>> /\ Approvable(u, i, a)
        /\ attempts[r] = <<>> /\ incident[r] = 0
    BY <1>2, <1>i, <2>2 DEF Approve, StageOK
  <2>4. audit[i] \in Entries /\ audit[i].by # r
    BY <2>2, <1>t DEF Inv, Recorded, HubOK
  <2>5. StageOK(r)'
    BY <2>1, <2>2, <2>3, <2>4 DEF StageOK, Entries
  <2>6. ApprovalOK(r)'
    BY <2>1, <2>3, <2>4 DEF ApprovalOK, Approvable, InScope, Proposed, TierOf
  <2> QED BY <2>1, <2>3, <2>5, <2>6 DEF RequestOK, RunOK, RecordOK
<1>3. ASSUME Refuse(r) PROVE RequestOK(r)'
  <2>1. /\ pc[r] = "idle" /\ pc'[r] = "returned" /\ UNCHANGED <<args, job, plan, attempts, incident>>
    BY <1>3, <1>t DEF Refuse, Fail, HubOK, jobVars
  <2>2. tool[r] = "" /\ job[r] = "none" /\ attempts[r] = <<>> /\ incident[r] = 0
    BY <1>i, <2>1 DEF StageOK
  <2> QED BY <2>1, <2>2 DEF RequestOK, StageOK, RunOK, ApprovalOK, RecordOK, args
<1>4. ASSUME Diagnosed(r) PROVE RequestOK(r)'
  <2>1. /\ pc[r] = "diagnosing" /\ UNCHANGED <<args, plan, attempts, incident, enabled>>
        /\ tool[r] = "troubleshoot" /\ <<caller[r], cluster[r]>> \in Scope
        /\ job[r] = "none" /\ attempts[r] = <<>> /\ incident[r] = 0
        /\ cluster[r] \in Clusters /\ kind[r] \in Kinds
    BY <1>4, <1>i DEF Diagnosed, Fail, StageOK
  <2>2. CASE job'[r] = "none" /\ pc'[r] \in {"returned", "recording"}
    BY <2>1, <2>2 DEF RequestOK, StageOK, RunOK, ApprovalOK, RecordOK, args
  <2>3. CASE /\ job'[r] = "sent" /\ pc'[r] = "executing" /\ kind[r] # "unknown"
             /\ \E e, risk : Executes(Decide(Mapping, GroupsOf[caller[r]], e, risk, enabled))
    <3>1. enabled /\ TierOf(caller[r]).ok /\ TierOf(caller[r]).tier # "readonly"
      BY <1>t, <2>3, ExecutionIsEntitled DEF TierOf
    <3> QED BY <2>1, <2>3, <3>1 DEF RequestOK, StageOK, RunOK, ApprovalOK, RecordOK, args, TierOf
  <2>4. ASSUME NEW own \in OwnerFound, kind[r] # "unknown",
               LET l == Ladder(kind[r], own)
                   d == Decide(Mapping, GroupsOf[caller[r]], clusterEnv(cluster[r]),
                               maxRisk(RisksOf(l)), enabled)
               IN /\ pc' = [pc EXCEPT ![r] = IF Executes(d) THEN "executing" ELSE "recording"]
                  /\ job' = IF Executes(d) THEN [job EXCEPT ![r] = "sent"] ELSE job
        PROVE  RequestOK(r)'
    <3> DEFINE e == clusterEnv(cluster[r])
               risk == maxRisk(RisksOf(Ladder(kind[r], own)))
               d == Decide(Mapping, GroupsOf[caller[r]], e, risk, enabled)
    <3> HIDE DEF e, risk
    <3>0. /\ pc' = [pc EXCEPT ![r] = IF Executes(d) THEN "executing" ELSE "recording"]
          /\ job' = IF Executes(d) THEN [job EXCEPT ![r] = "sent"] ELSE job
      BY <2>4 DEF e, risk
    <3>1. CASE Executes(d)
      BY <1>t, <2>3, <2>4, <3>0, <3>1 DEF HubOK, JobOK
    <3>2. CASE ~Executes(d)
      BY <1>t, <2>1, <2>2, <3>0, <3>2 DEF HubOK, JobOK
    <3> QED BY <3>1, <3>2
  <2>5. CASE Fail(r) /\ UNCHANGED job
    BY <1>t, <2>1, <2>2, <2>5 DEF Fail, HubOK
  <2>6. CASE pc' = [pc EXCEPT ![r] = "recording"] /\ UNCHANGED job
    BY <1>t, <2>1, <2>2, <2>6 DEF HubOK
  <2> QED BY <1>4, <2>4, <2>5, <2>6 DEF Diagnosed
<1>5. ASSUME CallReturns(r) PROVE RequestOK(r)'
  <2>1. /\ pc[r] \in {"executing", "approving"}
        /\ UNCHANGED <<args, job, plan, attempts, incident>>
        /\ pc'[r] = "returned" \/ (pc'[r] = "recording" /\ job[r] = "replied")
    BY <1>5, <1>t DEF CallReturns, Fail, HubOK, jobVars
  <2>2. StageOK(r)'
    BY <1>i, <2>1 DEF StageOK, args
  <2> QED BY <2>1, <2>2, StillOK
<1>6. ASSUME Record(r) PROVE RequestOK(r)'
  <2>1. /\ pc[r] = "recording" /\ UNCHANGED <<args, job, plan, attempts>> /\ pc'[r] = "returned"
    BY <1>6, <1>t DEF Record, Fail, HubOK, jobVars
  <2>2. StageOK(r)'
    BY <1>i, <2>1 DEF StageOK, args
  <2>3. CASE incident' = incident
    BY <2>1, <2>2, <2>3, StillOK
  <2>4. CASE audit' = Appended(r) /\ incident' = [incident EXCEPT ![r] = Len(audit) + 1]
    <3>1. audit \in Seq(Entries)
      BY <1>t DEF HubOK
    <3>2. Len(audit) + 1 \in DOMAIN audit' /\ audit'[Len(audit) + 1] = Entry(r)
      BY <2>4, <3>1 DEF Appended
    <3>3. incident'[r] = Len(audit) + 1
      BY <1>t, <2>4 DEF HubOK
    <3>4. RecordOK(r)'
      <4>1. /\ Entry(r).by = r /\ Entry(r).cluster = cluster[r]
            /\ Entry(r).attempts = attempts[r] /\ job[r] \in {"none", "replied"}
        BY <1>i, <2>1 DEF Entry, StageOK
      <4>2. incident'[r] \in DOMAIN audit' /\ audit'[incident'[r]] = Entry(r)
        BY <3>2, <3>3
      <4> QED BY <2>1, <4>1, <4>2 DEF RecordOK, args
    <3>5. /\ DOMAIN audit \subseteq DOMAIN audit'
          /\ \A i \in DOMAIN audit : audit'[i] = audit[i]
      BY <1>i, AuditKept
    <3>6. enabled' = enabled
      BY <1>6 DEF Record
    <3>7. ApprovalOK(r)'
      BY <1>i, <2>1, <3>5, <3>6 DEF ApprovalOK, Proposed, TierOf, args
    <3>8. RunOK(r)'
      BY <1>i, <2>1, <3>6 DEF RunOK, TierOf, args
    <3> QED BY <2>2, <3>4, <3>7, <3>8 DEF RequestOK
  <2> QED BY <1>6, <2>3, <2>4 DEF Record, Fail
<1> QED BY <1>1, <1>2, <1>3, <1>4, <1>5, <1>6 DEF Hub

LEMMA AgentOKStep ==
  ASSUME Inv, [Next]_vars, NEW r \in Requests, Agent(r)
  PROVE  RequestOK(r)'
<1>i. TypeInv /\ StageOK(r) /\ RunOK(r) /\ ApprovalOK(r) /\ RecordOK(r)
  BY DEF Inv, Stages, Troubleshooting, Approving, Recorded
<1>t. JobOK
  BY <1>i DEF TypeInv
<1>h. /\ UNCHANGED <<tool, caller, cluster, kind, target, enabled, pc, audit, incident>>
      /\ job[r] \in {"sent", "walking", "approved"}
  BY DEF Agent, AgentDerives, AgentRung, AgentDone, AgentRechecks, AgentRunsApproved, args, hubVars
<1>k. incident[r] = 0 /\ pc[r] \notin {"idle", "diagnosing", "recording"}
  BY <1>h, <1>i DEF StageOK, RecordOK
\* The jobs that end or go on without having run anything more.
<1>n. ASSUME attempts'[r] = attempts[r],
             \/ job'[r] \in {"failed", "replied"}
             \/ job'[r] = "walking" /\ tool[r] = "troubleshoot"
             \/ /\ job'[r] = "approved" /\ tool[r] = "approve" /\ job[r] = "sent"
                /\ plan'[r] = <<target[r].action>>
      PROVE  RequestOK(r)'
  BY <1>h, <1>i, <1>k, <1>n
  DEF RequestOK, StageOK, RunOK, ApprovalOK, RecordOK, Proposed, TierOf
<1>1. CASE AgentDerives(r)
  BY <1>1, <1>n, <1>t DEF AgentDerives, JobFails, JobOK
<1>2. CASE AgentRung(r)
  <2>1. /\ attempts'[r] = Append(attempts[r], NextRung(r))
        /\ job'[r] \in {"walking", "replied"} /\ tool[r] = "troubleshoot"
    BY <1>2, <1>i, <1>t DEF AgentRung, JobOK, StageOK
  <2>2. RiskOf(NextRung(r)) # "high" /\ attempts[r] \in Seq(Rungs)
    BY <1>2, <1>i, <1>t, RungTyping DEF AgentRung, JobOK
  <2>3. \A n \in DOMAIN attempts[r] : RiskOf(attempts[r][n]) # "high"
    BY <1>i, <1>h, <2>1 DEF RunOK
  <2>4. \A n \in DOMAIN attempts'[r] : RiskOf(attempts'[r][n]) # "high"
    <3> SUFFICES ASSUME NEW n \in DOMAIN attempts'[r] PROVE RiskOf(attempts'[r][n]) # "high"
      OBVIOUS
    <3>1. CASE n \in DOMAIN attempts[r]
      <4>1. attempts'[r][n] = attempts[r][n]
        BY <2>1, <2>2, <3>1
      <4> QED BY <2>3, <3>1, <4>1
    <3>2. CASE n = Len(attempts[r]) + 1
      <4>1. attempts'[r][n] = NextRung(r)
        BY <2>1, <2>2, <3>2
      <4> QED BY <2>2, <4>1
    <3> QED BY <2>1, <2>2, <3>1, <3>2
  <2> QED BY <1>h, <1>i, <1>k, <2>1, <2>4
      DEF RequestOK, StageOK, RunOK, ApprovalOK, RecordOK, TierOf
<1>3. CASE AgentDone(r)
  BY <1>3, <1>n, <1>t DEF AgentDone, JobOK
<1>4. CASE AgentRechecks(r)
  BY <1>4, <1>n, <1>t DEF AgentRechecks, JobFails, Chosen, JobOK
<1>5. CASE AgentRunsApproved(r)
  <2>1. /\ tool[r] = "approve" /\ attempts[r] = <<>> /\ plan[r] = <<target[r].action>>
    BY <1>5, <1>i DEF AgentRunsApproved, StageOK
  <2>2. NextRung(r) = target[r].action
    BY <2>1 DEF NextRung
  <2>3. CASE attempts' = [attempts EXCEPT ![r] = Append(@, NextRung(r))] /\ job' = [job EXCEPT ![r] = "replied"]
    <3>1. attempts'[r] = <<target[r].action>> /\ job'[r] = "replied"
      BY <1>t, <2>1, <2>2, <2>3 DEF JobOK
    <3> QED BY <1>h, <1>i, <1>k, <2>1, <3>1
        DEF RequestOK, StageOK, RunOK, ApprovalOK, RecordOK, Proposed, TierOf
  <2>4. CASE attempts' = attempts /\ job'[r] = "failed"
    BY <1>n, <2>4
  <2> QED BY <1>5, <2>3, <2>4 DEF AgentRunsApproved, UnderWay
<1> QED BY <1>1, <1>2, <1>3, <1>4, <1>5 DEF Agent

\* Who is on record has been answered.
LEMMA RecordedReturned ==
  ASSUME Inv, [Next]_vars
  PROVE  \A i \in DOMAIN audit' : pc'[audit'[i].by] = "returned"
<1>t. audit \in Seq(Entries) /\ pc \in [Requests -> PCs]
  BY DEF Inv, TypeInv, HubOK
<1>1. ASSUME NEW q \in Requests, pc[q] = "returned" PROVE pc'[q] = "returned"
  <2>1. ASSUME NEW r \in Requests, Hub(r) PROVE pc'[q] = pc[q]
    <3>1. pc[r] # "returned"
      BY <2>1 DEF Hub, Troubleshoot, Approve, Refuse, Diagnosed, CallReturns, Record
    <3> QED BY <1>1, <2>1, <3>1, OthersKept DEF Inv
  <2>2. ASSUME \/ \E r \in Requests : Agent(r)
               \/ \E c \in Clusters : Drift(c)
               \/ UNCHANGED vars
        PROVE  pc' = pc
    BY <2>2 DEF Agent, AgentDerives, AgentRung, AgentDone, AgentRechecks, AgentRunsApproved,
                Drift, hubVars, vars
  <2> QED BY <1>1, <2>1, <2>2 DEF Next
<1>2. \A i \in DOMAIN audit : audit[i].by \in Requests /\ pc[audit[i].by] = "returned"
  <2>1. \A i \in DOMAIN audit : audit[i] \in Entries
    BY <1>t
  <2> QED BY <2>1 DEF Inv, Recorded, Entries
<1>3. CASE audit' = audit
  BY <1>1, <1>2, <1>3
<1>4. ASSUME NEW r \in Requests, audit' = Appended(r), pc'[r] = "returned"
      PROVE  \A i \in DOMAIN audit' : pc'[audit'[i].by] = "returned"
  <2> SUFFICES ASSUME NEW i \in DOMAIN audit' PROVE pc'[audit'[i].by] = "returned"
    OBVIOUS
  <2>1. i \in DOMAIN audit \/ i = Len(audit) + 1
    BY <1>t, <1>4 DEF Appended
  <2>2. CASE i \in DOMAIN audit
    <3>1. audit'[i] = audit[i]
      BY <1>t, <1>4, <2>2 DEF Appended
    <3> QED BY <1>1, <1>2, <2>2, <3>1
  <2>3. CASE i = Len(audit) + 1
    <3>1. audit'[i] = Entry(r)
      BY <1>t, <1>4, <2>3 DEF Appended
    <3> QED BY <1>4, <3>1 DEF Entry
  <2> QED BY <2>1, <2>2, <2>3
<1>5. audit' = audit \/ \E r \in Requests : audit' = Appended(r) /\ pc'[r] = "returned"
  <2>1. ASSUME NEW r \in Requests, Record(r)
        PROVE  audit' = audit \/ (audit' = Appended(r) /\ pc'[r] = "returned")
    BY <1>t, <2>1 DEF Record, Fail
  <2>2. ASSUME NEW r \in Requests, Agent(r) \/ Refuse(r) \/ Diagnosed(r) \/ CallReturns(r)
        PROVE  audit' = audit
    BY <2>2 DEF Agent, Refuse, Diagnosed, CallReturns, Fail, AgentDerives, AgentRung, AgentDone,
                AgentRechecks, AgentRunsApproved, hubVars
  <2>3. ASSUME NEW r \in Requests,
               \/ \E u \in Callers, c \in Clusters, k \in Kinds : Troubleshoot(r, u, c, k)
               \/ \E u \in Callers, i \in DOMAIN audit, a \in Rungs : Approve(r, u, i, a)
        PROVE  audit' = audit
    BY <2>3 DEF Troubleshoot, Approve
  <2>4. ASSUME (\E c \in Clusters : Drift(c)) \/ UNCHANGED vars PROVE audit' = audit
    BY <2>4 DEF Drift, hubVars, vars
  <2> QED BY <2>1, <2>2, <2>3, <2>4 DEF Next, Hub
<1> QED BY <1>3, <1>4, <1>5

LEMMA InvStep == Inv /\ [Next]_vars => Inv'
<1> SUFFICES ASSUME Inv, [Next]_vars PROVE Inv'
  OBVIOUS
<1>1. TypeInv'
  BY TypeStep DEF Inv
<1>2. ASSUME NEW r \in Requests, Hub(r) \/ Agent(r), NEW q \in Requests PROVE RequestOK(q)'
  <2>1. CASE q = r
    BY <1>2, <2>1, HubOKStep, AgentOKStep
  <2>2. CASE q # r
    BY <1>2, <2>2, OthersOK DEF RequestOK
  <2> QED BY <2>1, <2>2
<1>3. ASSUME (\E c \in Clusters : Drift(c)) \/ UNCHANGED vars, NEW q \in Requests
      PROVE  RequestOK(q)'
  <2>1. UNCHANGED <<enabled, args, hubVars, jobVars>>
    BY <1>3 DEF Drift, args, hubVars, jobVars, vars
  <2>2. RequestOK(q)
    BY DEF Inv, Stages, Troubleshooting, Approving, Recorded, RequestOK
  <2> QED BY <2>1, <2>2 DEF RequestOK, StageOK, RunOK, ApprovalOK, RecordOK, Proposed, TierOf,
                            args, hubVars, jobVars
<1>4. \A q \in Requests : RequestOK(q)'
  BY <1>2, <1>3 DEF Next
<1> QED BY <1>1, <1>4, RecordedReturned
    DEF Inv, Stages, Troubleshooting, Approving, Recorded, RequestOK

LEMMA InvAlways == Spec => []Inv
  BY InvInit, InvStep, PTL DEF Spec

-----------------------------------------------------------------------------
(* The properties.                                                         *)

\* A high-risk action reaches a cluster only with execution on, for a
\* prod-admin with the cluster in scope, and only the one action an incident
\* on record proposed for that cluster, however late the agent acts and
\* whatever else runs (approveActionHandler, execengine.Run).
THEOREM HighRiskNeedsApproval == Spec => []HighRiskIsApproved
<1>1. Inv => HighRiskIsApproved
  <2> SUFFICES ASSUME Inv, NEW r \in Requests, NEW a \in RanBy(r), RiskOf(a) = "high"
               PROVE  /\ enabled /\ TierOf(caller[r]).tier = "prod-admin"
                      /\ <<caller[r], cluster[r]>> \in Scope
                      /\ attempts[r] = <<a>>
                      /\ \E i \in DOMAIN audit : audit[i].cluster = cluster[r] /\ Proposed(i, a)
    BY DEF HighRiskIsApproved
  <2>1. StageOK(r) /\ RunOK(r) /\ ApprovalOK(r)
    BY DEF Inv, Stages, Troubleshooting, Approving
  <2>2. PICK n \in DOMAIN attempts[r] : a = attempts[r][n]
    BY DEF RanBy
  <2>3. attempts[r] # <<>>
    BY <2>2
  <2>4. tool[r] \in {"", "troubleshoot", "approve"} /\ job[r] # "none" /\ tool[r] # ""
    BY <2>1, <2>3 DEF StageOK, Inv, TypeInv, ArgsOK
  <2>5. tool[r] = "approve"
    BY <2>1, <2>2, <2>4 DEF RunOK
  <2>6. attempts[r] = <<target[r].action>>
    BY <2>1, <2>3, <2>5 DEF ApprovalOK
  <2>7. a = target[r].action
    BY <2>2, <2>6
  <2> QED BY <2>1, <2>5, <2>6, <2>7 DEF ApprovalOK
<1> QED BY <1>1, InvAlways, PTL

\* Nothing runs by itself while execution is off, for a readonly or unknown
\* caller or out of scope, even long after the request was answered
\* (troubleshootHandler, Decide).
THEOREM AutoRunNeedsPolicy == Spec => []AutoRunIsAllowed
<1>1. Inv => AutoRunIsAllowed
  <2> SUFFICES ASSUME Inv, NEW r \in Requests, tool[r] = "troubleshoot", RanBy(r) # {}
               PROVE  /\ enabled /\ TierOf(caller[r]).ok /\ TierOf(caller[r]).tier # "readonly"
                      /\ <<caller[r], cluster[r]>> \in Scope
    BY DEF AutoRunIsAllowed
  <2>1. StageOK(r) /\ RunOK(r)
    BY DEF Inv, Stages, Troubleshooting
  <2>2. attempts[r] # <<>>
    BY DEF RanBy
  <2> QED BY <2>1, <2>2 DEF StageOK, RunOK
<1> QED BY <1>1, InvAlways, PTL

\* An incident id given to a caller leads to a record of that request with
\* all the agent ran for it, then and later (Record, CallReturns).
THEOREM AnswersAreOnRecord == Spec => []AnswerIsOnRecord
<1>1. Inv => AnswerIsOnRecord
  BY DEF Inv, Recorded, RecordOK, AnswerIsOnRecord
<1> QED BY <1>1, InvAlways, PTL

\* An approval runs the action it names, once, on the cluster and for the kind
\* of problem of the incident it names, and that incident is another request's
\* (approveActionHandler, ApproveAction).
THEOREM ApprovalsRunOneAction == Spec => []ApprovalRunsItsAction
<1>1. Inv => ApprovalRunsItsAction
  BY DEF Inv, Approving, ApprovalOK, ApprovalRunsItsAction
<1> QED BY <1>1, InvAlways, PTL

-----------------------------------------------------------------------------
(* What the ladder judged says of the rungs run.                           *)

\* The kinds of problem whose ladder may hold a medium rung.
MediumKinds == {"crashloop", "calico", "keda"}

RungsOf(l) == {l[n] : n \in DOMAIN l}

LEMMA LadderRungs ==
  ASSUME NEW own \in BOOLEAN
  PROVE  /\ RungsOf(Ladder("crashloop", own)) =
              {"restart pod"} \cup
              (IF own THEN {"scale deployment down and up", "rollout restart deployment"} ELSE {})
         /\ RungsOf(Ladder("oom", own)) =
              {"restart pod"} \cup (IF own THEN {"increase memory limit"} ELSE {})
         /\ RungsOf(Ladder("imagepull", own)) = {"restart pod"}
         /\ RungsOf(Ladder("arch", own)) = {"fix architecture"}
         /\ RungsOf(Ladder("calico", own)) = {"restart calico-node pod"}
         /\ RungsOf(Ladder("keda", own)) = {"delete stuck HPA"}
<1>1. \A a \in Rungs : RungsOf(<<a>>) = {a}
  BY DEF RungsOf
<1>2. \A a, b \in Rungs : RungsOf(<<a, b>>) = {a, b}
  BY DEF RungsOf
<1>3. RungsOf(<<>>) = {}
  BY DEF RungsOf
<1>4. ASSUME NEW p \in Seq(Rungs), NEW q \in Seq(Rungs)
      PROVE  RungsOf(p \o q) = RungsOf(p) \cup RungsOf(q)
  <2>1. ASSUME NEW n \in DOMAIN (p \o q) PROVE (p \o q)[n] \in RungsOf(p) \cup RungsOf(q)
    <3>1. CASE n \in DOMAIN p
      BY <3>1 DEF RungsOf
    <3>2. CASE n \notin DOMAIN p
      <4>1. n - Len(p) \in DOMAIN q /\ (p \o q)[n] = q[n - Len(p)]
        BY <2>1, <3>2
      <4> QED BY <4>1 DEF RungsOf
    <3> QED BY <3>1, <3>2
  <2>2. ASSUME NEW n \in DOMAIN p PROVE n \in DOMAIN (p \o q) /\ (p \o q)[n] = p[n]
    BY <2>2
  <2>3. ASSUME NEW n \in DOMAIN q
        PROVE  Len(p) + n \in DOMAIN (p \o q) /\ (p \o q)[Len(p) + n] = q[n]
    BY <2>3
  <2>4. RungsOf(p \o q) \subseteq RungsOf(p) \cup RungsOf(q)
    BY <2>1 DEF RungsOf
  <2>5. RungsOf(p) \subseteq RungsOf(p \o q)
    BY <2>2 DEF RungsOf
  <2>6. RungsOf(q) \subseteq RungsOf(p \o q)
    BY <2>3 DEF RungsOf
  <2> QED BY <2>4, <2>5, <2>6
<1>t. /\ <<"restart pod">> \in Seq(Rungs) /\ <<>> \in Seq(Rungs)
      /\ <<"scale deployment down and up", "rollout restart deployment">> \in Seq(Rungs)
      /\ <<"increase memory limit">> \in Seq(Rungs)
  <2>1. \A a, b \in Rungs : <<a>> \in Seq(Rungs) /\ <<a, b>> \in Seq(Rungs) /\ <<>> \in Seq(Rungs)
    OBVIOUS
  <2> QED BY <2>1 DEF Rungs
<1>s. /\ RungsOf(<<"restart pod">>) = {"restart pod"}
      /\ RungsOf(<<"scale deployment down and up", "rollout restart deployment">>)
           = {"scale deployment down and up", "rollout restart deployment"}
      /\ RungsOf(<<"increase memory limit">>) = {"increase memory limit"}
      /\ RungsOf(<<"fix architecture">>) = {"fix architecture"}
      /\ RungsOf(<<"restart calico-node pod">>) = {"restart calico-node pod"}
      /\ RungsOf(<<"delete stuck HPA">>) = {"delete stuck HPA"}
  BY <1>1, <1>2 DEF Rungs
<1>5. RungsOf(CrashLoopLadder(own)) =
        {"restart pod"} \cup
        (IF own THEN {"scale deployment down and up", "rollout restart deployment"} ELSE {})
  <2>1. CASE own
    <3>1. CrashLoopLadder(own) = <<"restart pod">> \o <<"scale deployment down and up", "rollout restart deployment">>
      BY <2>1 DEF CrashLoopLadder
    <3>2. RungsOf(<<"restart pod">> \o <<"scale deployment down and up", "rollout restart deployment">>)
            = RungsOf(<<"restart pod">>) \cup RungsOf(<<"scale deployment down and up", "rollout restart deployment">>)
      BY <1>4, <1>t, Zenon
    <3> QED BY <2>1, <3>1, <3>2, <1>s, Zenon
  <2>2. CASE ~own
    <3>1. CrashLoopLadder(own) = <<"restart pod">> \o <<>>
      BY <2>2 DEF CrashLoopLadder
    <3>2. RungsOf(<<"restart pod">> \o <<>>) = RungsOf(<<"restart pod">>) \cup RungsOf(<<>>)
      BY <1>4, <1>t, Zenon
    <3>3. RungsOf(CrashLoopLadder(own)) = {"restart pod"} \cup {}
      BY <3>1, <3>2, <1>3, <1>s, Zenon
    <3> QED BY <2>2, <3>3, Zenon
  <2> QED BY <2>1, <2>2
<1>6. RungsOf(OOMLadder(own)) =
        {"restart pod"} \cup (IF own THEN {"increase memory limit"} ELSE {})
  <2>1. CASE own
    <3>1. OOMLadder(own) = <<"restart pod">> \o <<"increase memory limit">>
      BY <2>1 DEF OOMLadder
    <3>2. RungsOf(<<"restart pod">> \o <<"increase memory limit">>)
            = RungsOf(<<"restart pod">>) \cup RungsOf(<<"increase memory limit">>)
      BY <1>4, <1>t, Zenon
    <3> QED BY <2>1, <3>1, <3>2, <1>s, Zenon
  <2>2. CASE ~own
    <3>1. OOMLadder(own) = <<"restart pod">> \o <<>>
      BY <2>2 DEF OOMLadder
    <3>2. RungsOf(<<"restart pod">> \o <<>>) = RungsOf(<<"restart pod">>) \cup RungsOf(<<>>)
      BY <1>4, <1>t, Zenon
    <3>3. RungsOf(OOMLadder(own)) = {"restart pod"} \cup {}
      BY <3>1, <3>2, <1>3, <1>s, Zenon
    <3> QED BY <2>2, <3>3, Zenon
  <2> QED BY <2>1, <2>2
<1> QED BY <1>s, <1>5, <1>6
    DEF Ladder, ImagePullLadder, ExecFormatLadder, CalicoLadder, KedaLadder

\* The ladders that hold a medium rung, and what maxRisk makes of them.
LEMMA MediumLadders ==
  ASSUME NEW k \in Kinds \ {"unknown"}, NEW own \in BOOLEAN
  PROVE  /\ (\E a \in RungsOf(Ladder(k, own)) : RiskOf(a) = "medium") => k \in MediumKinds
         /\ k \in MediumKinds /\ ~(k = "crashloop" /\ ~own) =>
              maxRisk(RisksOf(Ladder(k, own))) = "medium"
<1>1. RisksOf(Ladder(k, own)) = {RiskOf(a) : a \in RungsOf(Ladder(k, own))}
  BY DEF RisksOf, RungsOf
<1>2. ASSUME \E a \in RungsOf(Ladder(k, own)) : RiskOf(a) = "medium"
      PROVE  k \in MediumKinds
  BY <1>2, LadderRungs, KindsAssumption DEF MediumKinds, RiskOf
<1>3. ASSUME k \in MediumKinds, ~(k = "crashloop" /\ ~own)
      PROVE  "medium" \in RisksOf(Ladder(k, own))
  <2>1. /\ k = "crashloop" => "scale deployment down and up" \in RungsOf(Ladder(k, own))
        /\ k = "calico" => "restart calico-node pod" \in RungsOf(Ladder(k, own))
        /\ k = "keda" => "delete stuck HPA" \in RungsOf(Ladder(k, own))
    BY <1>3, LadderRungs
  <2>2. /\ RiskOf("scale deployment down and up") = "medium"
        /\ RiskOf("restart calico-node pod") = "medium"
        /\ RiskOf("delete stuck HPA") = "medium"
    BY DEF RiskOf
  <2> QED BY <1>1, <1>3, <2>1, <2>2 DEF MediumKinds
<1> QED BY <1>2, <1>3 DEF maxRisk

\* A medium ladder is executed in prod for a prod-admin only.
LEMMA MediumIsJudged ==
  ASSUME NEW m, NEW gs, NEW f \in BOOLEAN, Executes(Decide(m, gs, "prod", "medium", f))
  PROVE  HighestTier(m, gs).tier = "prod-admin"
<1> DEFINE in == [tier |-> HighestTier(m, gs).tier, env |-> "prod", risk |-> "medium", flag |-> f]
<1>1. Decide(m, gs, "prod", "medium", f) = Result(in)
  BY DEF Decide, Executes
<1>2. Applicable(in) \cap {"safe", "nonprod", "prod"} # {}
  BY <1>1 DEF Executes, Result
<1>3. SafeRule(in) \/ NonProdRule(in) \/ ProdRule(in)
  BY <1>2 DEF Applicable
<1> QED BY <1>3 DEF SafeRule, NonProdRule, ProdRule

\* The ladder judged had no medium rung because Diagnose found no Deployment.
Unowned(r) == kind[r] = "crashloop" /\ ~owned[r]

\* What the policy saw of a job, and what the agent may take from its own plan.
JudgedOK(r) ==
  tool[r] = "troubleshoot" /\ job[r] # "none" =>
    /\ cluster[r] \in ProdClusters /\ kind[r] \in MediumKinds =>
         TierOf(caller[r]).tier = "prod-admin" \/ Unowned(r)
    /\ job[r] = "walking" =>
         \A a \in RungsOf(plan[r]) : RiskOf(a) = "medium" => kind[r] \in MediumKinds
    /\ \A a \in RanBy(r) : RiskOf(a) = "medium" => kind[r] \in MediumKinds
Judged == \A r \in Requests : JudgedOK(r)

\* What was found of the owner stays once a job is under way.
LEMMA JudgedKept ==
  ASSUME Inv, [Next]_vars, NEW q \in Requests, job[q] # "none"
  PROVE  UNCHANGED <<tool[q], caller[q], cluster[q], kind[q], owned[q]>>
<1>t. TypeInv /\ HubOK /\ StageOK(q)
  BY DEF Inv, Stages, TypeInv
<1>1. pc[q] \notin {"idle", "diagnosing"}
  BY <1>t DEF StageOK
<1>2. UNCHANGED <<tool[q], caller[q], cluster[q], kind[q]>>
  BY <1>1, <1>t, ArgsKept
<1>3. ASSUME NEW r \in Requests, Diagnosed(r) PROVE owned'[q] = owned[q]
  BY <1>3, <1>1, <1>t DEF Diagnosed, Fail, HubOK
<1>4. owned' = owned \/ \E r \in Requests : Diagnosed(r)
  BY DEF Next, Hub, Agent, Troubleshoot, Approve, Refuse, CallReturns, Record, Fail,
         AgentDerives, AgentRung, AgentDone, AgentRechecks, AgentRunsApproved, Drift,
         hubVars, vars
<1> QED BY <1>2, <1>3, <1>4

LEMMA JudgedStep == Inv /\ Judged /\ [Next]_vars => Judged'
<1> SUFFICES ASSUME Inv, Judged, [Next]_vars PROVE Judged'
  OBVIOUS
<1>t. /\ TypeInv /\ ArgsOK /\ HubOK /\ JobOK /\ enabled \in BOOLEAN
  BY DEF Inv, TypeInv
\* A job that was under way and has run nothing more.
<1>n. ASSUME NEW q \in Requests, job[q] # "none", attempts'[q] = attempts[q],
             job'[q] = "walking" => job[q] = "walking" /\ plan'[q] = plan[q]
      PROVE  JudgedOK(q)'
  <2>1. UNCHANGED <<tool[q], caller[q], cluster[q], kind[q], owned[q]>>
    BY <1>n, JudgedKept
  <2>2. JudgedOK(q)
    BY DEF Judged
  <2> QED BY <1>n, <2>1, <2>2 DEF JudgedOK, Unowned, RanBy, TierOf
<1>1. ASSUME NEW r \in Requests, Diagnosed(r) PROVE JudgedOK(r)'
  <2>1. /\ tool' = tool /\ attempts' = attempts /\ job[r] = "none" /\ attempts[r] = <<>>
        /\ caller' = caller /\ cluster' = cluster /\ kind' = kind
    BY <1>1 DEF Diagnosed, args, Inv, Stages, StageOK
  <2>2. RanBy(r)' = {}
    BY <2>1 DEF RanBy
  <2>3. CASE job' = job
    BY <2>1, <2>3 DEF JudgedOK
  <2>4. CASE \E own \in BOOLEAN :
               /\ kind[r] # "unknown" /\ owned' = [owned EXCEPT ![r] = own]
               /\ Executes(Decide(Mapping, GroupsOf[caller[r]], clusterEnv(cluster[r]),
                                  maxRisk(RisksOf(Ladder(kind[r], own))), enabled))
               /\ job' = [job EXCEPT ![r] = "sent"]
    <3>1. PICK own \in BOOLEAN :
               /\ kind[r] # "unknown" /\ owned' = [owned EXCEPT ![r] = own]
               /\ Executes(Decide(Mapping, GroupsOf[caller[r]], clusterEnv(cluster[r]),
                                  maxRisk(RisksOf(Ladder(kind[r], own))), enabled))
               /\ job' = [job EXCEPT ![r] = "sent"]
      BY <2>4
    <3>2. kind[r] \in Kinds \ {"unknown"} /\ owned'[r] = own /\ job'[r] = "sent"
      BY <1>1, <1>t, <3>1 DEF Diagnosed, Inv, Stages, StageOK, HubOK, JobOK
    <3>3. ASSUME cluster[r] \in ProdClusters, kind[r] \in MediumKinds, ~(kind[r] = "crashloop" /\ ~own)
          PROVE  TierOf(caller[r]).tier = "prod-admin"
      <4>1. maxRisk(RisksOf(Ladder(kind[r], own))) = "medium"
        BY <3>2, <3>3, MediumLadders
      <4>2. clusterEnv(cluster[r]) = "prod"
        BY <3>3 DEF clusterEnv
      <4> QED BY <1>t, <3>1, <4>1, <4>2, MediumIsJudged DEF TierOf
    <3> QED BY <2>1, <2>2, <3>2, <3>3 DEF JudgedOK, Unowned, TierOf
  <2> QED BY <1>1, <2>3, <2>4 DEF Diagnosed, OwnerFound
<1>2. ASSUME NEW r \in Requests, Agent(r) PROVE JudgedOK(r)'
  <2>1. /\ job[r] \in {"sent", "walking", "approved"}
        /\ JudgedOK(r) /\ StageOK(r)
    BY <1>2 DEF Agent, AgentDerives, AgentRung, AgentDone, AgentRechecks, AgentRunsApproved,
                Judged, Inv, Stages
  <2>2. UNCHANGED <<tool[r], caller[r], cluster[r], kind[r], owned[r]>>
    BY <2>1, JudgedKept
  <2>3. CASE AgentDerives(r)
    <3>1. CASE job'[r] = "failed" /\ attempts' = attempts
      BY <1>n, <2>1, <3>1
    <3>2. CASE \E own \in BOOLEAN : plan' = [plan EXCEPT ![r] = Ladder(kind[r], own)] /\ attempts' = attempts
      <4>1. PICK own \in BOOLEAN : plan'[r] = Ladder(kind[r], own) /\ attempts' = attempts
        BY <1>t, <3>2 DEF JobOK
      <4>2. kind[r] \in Kinds \ {"unknown"}
        BY <2>1, <2>3 DEF AgentDerives, Inv, Troubleshooting, RunOK
      <4>3. \A a \in RungsOf(plan'[r]) : RiskOf(a) = "medium" => kind[r] \in MediumKinds
        BY <4>1, <4>2, MediumLadders
      <4> QED BY <2>1, <2>2, <4>1, <4>3 DEF JudgedOK, Unowned, RanBy, TierOf
    <3> QED BY <1>t, <2>3, <3>1, <3>2 DEF AgentDerives, JobFails, OwnerFound, JobOK
  <2>4. CASE AgentRung(r)
    <3>1. /\ tool[r] = "troubleshoot" /\ job[r] = "walking"
          /\ attempts'[r] = Append(attempts[r], NextRung(r)) /\ plan'[r] = plan[r]
          /\ attempts[r] \in Seq(Rungs) /\ plan[r] \in Seq(Rungs)
      BY <1>t, <2>1, <2>4 DEF AgentRung, StageOK, JobOK
    <3>2. NextRung(r) \in RungsOf(plan[r])
      <4>1. Len(attempts[r]) + 1 \in DOMAIN plan[r]
        BY <2>4, <3>1 DEF AgentRung, LadderOver
      <4> QED BY <4>1 DEF NextRung, RungsOf
    <3>3. \A a \in RanBy(r)' : a \in RanBy(r) \/ a = NextRung(r)
      <4> SUFFICES ASSUME NEW n \in DOMAIN attempts'[r]
                   PROVE  attempts'[r][n] \in RanBy(r) \/ attempts'[r][n] = NextRung(r)
        BY DEF RanBy
      <4>1. CASE n \in DOMAIN attempts[r]
        <5>1. attempts'[r][n] = attempts[r][n]
          BY <3>1, <4>1
        <5> QED BY <4>1, <5>1 DEF RanBy
      <4>2. CASE n = Len(attempts[r]) + 1
        BY <3>1, <4>2
      <4> QED BY <3>1, <4>1, <4>2
    <3> QED BY <2>1, <2>2, <3>1, <3>2, <3>3 DEF JudgedOK, Unowned, TierOf
  <2>5. CASE AgentDone(r)
    BY <1>n, <1>t, <2>1, <2>5 DEF AgentDone, JobOK
  <2>6. CASE AgentRechecks(r) \/ AgentRunsApproved(r)
    <3>1. tool[r] = "approve"
      BY <2>1, <2>6 DEF AgentRechecks, AgentRunsApproved, StageOK
    <3> QED BY <2>2, <3>1 DEF JudgedOK
  <2> QED BY <1>2, <2>3, <2>4, <2>5, <2>6 DEF Agent
<1>3. ASSUME NEW r \in Requests,
             \/ \E u \in Callers, c \in Clusters, k \in Kinds : Troubleshoot(r, u, c, k)
             \/ Refuse(r) \/ CallReturns(r) \/ Record(r)
      PROVE  JudgedOK(r)'
  <2>1. UNCHANGED <<job, plan, attempts>>
    BY <1>3 DEF Troubleshoot, Refuse, CallReturns, Record, jobVars
  <2>2. CASE job[r] = "none"
    BY <2>1, <2>2 DEF JudgedOK
  <2>3. CASE job[r] # "none"
    BY <1>n, <2>1, <2>3
  <2> QED BY <2>2, <2>3
<1>4. ASSUME NEW r \in Requests, NEW u \in Callers, NEW i \in DOMAIN audit, NEW a \in Rungs,
             Approve(r, u, i, a)
      PROVE  JudgedOK(r)'
  <2>1. tool'[r] = "approve"
    BY <1>4, <1>t DEF Approve, ArgsOK
  <2> QED BY <2>1 DEF JudgedOK
<1>5. ASSUME NEW r \in Requests, Hub(r) \/ Agent(r), NEW q \in Requests, q # r
      PROVE  JudgedOK(q)'
  <2>1. /\ UNCHANGED <<plan[q], attempts[q]>>
        /\ job'[q] = job[q] \/ (UnderWay(q) /\ job'[q] = "failed")
    BY <1>t, <1>5, OthersKept
  <2>2. CASE job[q] = "none"
    BY <2>1, <2>2 DEF JudgedOK, UnderWay
  <2>3. CASE job[q] # "none"
    BY <1>n, <2>1, <2>3
  <2> QED BY <2>2, <2>3
<1>6. ASSUME (\E c \in Clusters : Drift(c)) \/ UNCHANGED vars, NEW q \in Requests
      PROVE  JudgedOK(q)'
  <2>1. UNCHANGED <<args, hubVars, jobVars>>
    BY <1>6 DEF Drift, args, hubVars, jobVars, vars
  <2>2. JudgedOK(q)
    BY DEF Judged
  <2> QED BY <2>1, <2>2 DEF JudgedOK, Unowned, RanBy, TierOf, args, hubVars, jobVars
<1>7. ASSUME NEW r \in Requests, Hub(r) \/ Agent(r) PROVE JudgedOK(r)'
  BY <1>1, <1>2, <1>3, <1>4, <1>7 DEF Hub
<1>8. ASSUME NEW r \in Requests, Hub(r) \/ Agent(r), NEW q \in Requests PROVE JudgedOK(q)'
  BY <1>5, <1>7, <1>8
<1> QED BY <1>6, <1>8 DEF Judged, Next

LEMMA JudgedAlways == Spec => []Judged
<1>1. Init => Judged
  BY DEF Init, Judged, JudgedOK
<1> QED BY <1>1, InvAlways, JudgedStep, PTL DEF Spec

\* "Medium risk in prod: only prod-admin may execute", as far as it goes.
MediumInProdAsJudged ==
  \A r \in Requests : \A a \in RanBy(r) :
    RiskOf(a) = "medium" /\ cluster[r] \in ProdClusters =>
      TierOf(caller[r]).tier = "prod-admin" \/ Unowned(r)

\* The run tools_late has found the one way around that rule: a medium action
\* runs in prod for a prod-admin, or for the CrashLoopBackOff of a pod whose
\* Deployment Diagnose did not find and the agent, deriving the ladder again,
\* did (troubleshootHandler, Execute, policy.rego).
THEOREM MediumRungsAreJudged == Spec => []MediumInProdAsJudged
<1>1. Inv /\ Judged => MediumInProdAsJudged
  <2> SUFFICES ASSUME Inv, Judged, NEW r \in Requests, NEW a \in RanBy(r),
                      RiskOf(a) = "medium", cluster[r] \in ProdClusters
               PROVE  TierOf(caller[r]).tier = "prod-admin" \/ Unowned(r)
    BY DEF MediumInProdAsJudged
  <2>1. StageOK(r) /\ ApprovalOK(r) /\ JudgedOK(r)
    BY DEF Inv, Stages, Approving, Judged
  <2>2. PICK n \in DOMAIN attempts[r] : a = attempts[r][n]
    BY DEF RanBy
  <2>3. attempts[r] # <<>>
    BY <2>2
  <2>4. tool[r] \in {"", "troubleshoot", "approve"} /\ job[r] # "none" /\ tool[r] # ""
    BY <2>1, <2>3 DEF StageOK, Inv, TypeInv, ArgsOK
  <2>5. tool[r] # "approve"
    <3> SUFFICES ASSUME tool[r] = "approve" PROVE FALSE
      OBVIOUS
    <3>1. attempts[r] = <<target[r].action>> /\ RiskOf(target[r].action) = "high"
      BY <2>1, <2>3 DEF ApprovalOK
    <3>2. a = target[r].action
      BY <2>2, <3>1
    <3> QED BY <3>1, <3>2
  <2> QED BY <2>1, <2>4, <2>5 DEF JudgedOK
<1> QED BY <1>1, InvAlways, JudgedAlways, PTL
=============================================================================
