---------------------------- MODULE Troubleshoot ----------------------------
(***************************************************************************)
(* The two tools that may change a cluster, troubleshoot and               *)
(* approve_action (internal/mcptools), with the agent's side of them       *)
(* (internal/agentcore), the policy and the audit trail.                   *)
(*                                                                         *)
(* A tool call is a goroutine on the hub.  Its calls to the agent are      *)
(* remote calls as RemoteCall promises them: an error says nothing about   *)
(* the work, which the agent may do all the same, now or later.  The       *)
(* agent derives a playbook's ladder again for every request, from what    *)
(* the cluster answers at that moment.                                     *)
(***************************************************************************)
EXTENDS Policy

CONSTANTS
  Requests,      \* tool calls made (a bound)
  Callers,       \* MCP sessions
  GroupsOf,      \* the directory groups of each
  Mapping,       \* the group mapping
  Clusters,
  ProdClusters,
  Scope,         \* <<caller, cluster>> where the AWS account is in scope
  Kinds          \* the kinds of signal asked about

Rungs == {"restart pod", "scale deployment down and up",
          "rollout restart deployment", "increase memory limit", "fix architecture",
          "restart calico-node pod", "delete stuck HPA"}
RiskOf(a) == CASE a = "restart pod" -> "safe"
               [] a \in {"increase memory limit", "fix architecture"} -> "high"
               [] OTHER -> "medium"
HasRun(a) == a # "fix architecture"
RisksOf(ladder) == {RiskOf(ladder[i]) : i \in DOMAIN ladder}

ASSUME ScopeAssumption == Scope \subseteq Callers \X Clusters
ASSUME ProdAssumption == ProdClusters \subseteq Clusters
\* One for each playbook; none detects the last.
ASSUME KindsAssumption ==
  Kinds \subseteq {"crashloop", "oom", "imagepull", "arch", "calico", "keda", "unknown"}

VARIABLES
  enabled,   \* Server.ExecutionFlag
  pod,       \* the pod a signal names still exists
  ready,     \* its Deployment has all its replicas
  tool, caller, cluster, kind,  \* the request's arguments
  target,    \* the incident and action an approval names
  pc,        \* where its goroutine is
  ladder,    \* the actions Diagnose proposed
  owned,     \* Diagnose found the owning Deployment (Finding.Meta)
  decision,
  job,       \* the agent's goroutine for it
  plan,      \* the ladder it derived
  attempts,  \* the actions it ran
  audit,     \* the audit trail
  incident   \* the id returned, 0 for an error

args     == <<tool, caller, cluster, kind, target>>
hubVars  == <<pc, ladder, owned, decision, audit, incident>>
jobVars  == <<job, plan, attempts>>
live     == <<pod, ready>>
vars == <<enabled, pod, ready, tool, caller, cluster, kind, target, pc, ladder,
          owned, decision, job, plan, attempts, audit, incident>>

NoDecision == [allow |-> FALSE, dryRun |-> TRUE, error |-> FALSE]
NoTarget == [incident |-> 0, action |-> ""]

Init ==
  /\ enabled \in BOOLEAN
  /\ pod = [c \in Clusters |-> TRUE] /\ ready = [c \in Clusters |-> FALSE]
  /\ tool = [r \in Requests |-> ""]
  /\ caller = [r \in Requests |-> ""]
  /\ cluster = [r \in Requests |-> ""]
  /\ kind = [r \in Requests |-> ""]
  /\ target = [r \in Requests |-> NoTarget]
  /\ pc = [r \in Requests |-> "idle"]
  /\ ladder = [r \in Requests |-> <<>>]
  /\ owned = [r \in Requests |-> FALSE]
  /\ decision = [r \in Requests |-> NoDecision]
  /\ job = [r \in Requests |-> "none"]
  /\ plan = [r \in Requests |-> <<>>]
  /\ attempts = [r \in Requests |-> <<>>]
  /\ audit = <<>>
  /\ incident = [r \in Requests |-> 0]

TierOf(u) == HighestTier(Mapping, GroupsOf[u])
clusterEnv(c) == IF c \in ProdClusters THEN "prod" ELSE "nonprod"

-----------------------------------------------------------------------------
(* Playbooks.                                                              *)

CrashLoopLadder(own) == <<"restart pod">> \o
  (IF own THEN <<"scale deployment down and up", "rollout restart deployment">> ELSE <<>>)
OOMLadder(own)   == <<"restart pod">> \o (IF own THEN <<"increase memory limit">> ELSE <<>>)
ImagePullLadder  == <<"restart pod">>
ExecFormatLadder == <<"fix architecture">>
CalicoLadder     == <<"restart calico-node pod">>
KedaLadder       == <<"delete stuck HPA">>

\* Ladder of the playbook that detects the signal.
Ladder(k, own) == CASE k = "crashloop" -> CrashLoopLadder(own)
                    [] k = "oom"       -> OOMLadder(own)
                    [] k = "imagepull" -> ImagePullLadder
                    [] k = "arch"      -> ExecFormatLadder
                    [] k = "calico"    -> CalicoLadder
                    [] k = "keda"      -> KedaLadder

NamesPod(k) == k \in {"crashloop", "oom", "imagepull", "arch"}

\* Diagnose succeeds only while the pod exists; the owner lookups are best
\* effort, so a Deployment may be found on one call and not on the next.
CanDiagnose(k, c) == NamesPod(k) => pod[c]
OwnerFound == BOOLEAN

-----------------------------------------------------------------------------
(* The troubleshoot tool.                                                  *)

InScope(u, c) == <<u, c>> \in Scope

Fail(r) ==
  /\ pc' = [pc EXCEPT ![r] = "returned"]
  /\ UNCHANGED <<ladder, owned, decision, audit, incident>>

\* A request is turned down before anything is asked of a cluster: scope,
\* an inventory that fails, execution off, an incident or action not found.
Refuse(r) ==
  /\ pc[r] = "idle"
  /\ Fail(r)
  /\ UNCHANGED <<enabled, live, args, jobVars>>

\* Within scope, Diagnose is called.
Troubleshoot(r, u, c, k) ==
  /\ pc[r] = "idle" /\ InScope(u, c)
  /\ tool' = [tool EXCEPT ![r] = "troubleshoot"]
  /\ caller' = [caller EXCEPT ![r] = u]
  /\ cluster' = [cluster EXCEPT ![r] = c]
  /\ kind' = [kind EXCEPT ![r] = k]
  /\ pc' = [pc EXCEPT ![r] = "diagnosing"]
  /\ UNCHANGED <<enabled, live, target, jobVars, ladder, owned, decision, audit,
                 incident>>

\* mutant of Executes: a permission to propose is taken for one to run
AllowIsRun(d) == d.allow
Executes(d) == d.allow /\ ~d.dryRun

\* No compiled playbook: a runbook's text, always a proposal.
RunbookOnly == [allow |-> TRUE, dryRun |-> TRUE, error |-> FALSE]

\* Diagnose returns.  The policy judges what it proposed.
Diagnosed(r) ==
  /\ pc[r] = "diagnosing"
  /\ \/ Fail(r) /\ UNCHANGED job
     \/ /\ kind[r] = "unknown"
        /\ decision' = [decision EXCEPT ![r] = RunbookOnly]
        /\ pc' = [pc EXCEPT ![r] = "recording"]
        /\ UNCHANGED <<ladder, owned, audit, incident, job>>
     \/ /\ kind[r] # "unknown" /\ CanDiagnose(kind[r], cluster[r])
        /\ \E own \in OwnerFound :
             LET l == Ladder(kind[r], own)
                 d == Decide(Mapping, GroupsOf[caller[r]], clusterEnv(cluster[r]),
                             maxRisk(RisksOf(l)), enabled)
             IN /\ ladder' = [ladder EXCEPT ![r] = l]
                /\ owned' = [owned EXCEPT ![r] = own]
                /\ decision' = [decision EXCEPT ![r] = d]
                /\ pc' = [pc EXCEPT ![r] = IF Executes(d) THEN "executing" ELSE "recording"]
                /\ job' = IF Executes(d) THEN [job EXCEPT ![r] = "sent"] ELSE job
        /\ UNCHANGED <<audit, incident>>
  /\ UNCHANGED <<enabled, live, args, plan, attempts>>

\* Execute, or ApproveAction, returns: with the agent's reply, or with an
\* error at any time before.
CallReturns(r) ==
  /\ pc[r] \in {"executing", "approving"}
  /\ \/ Fail(r)
     \/ /\ job[r] = "replied"
        /\ pc' = [pc EXCEPT ![r] = "recording"]
        /\ UNCHANGED <<ladder, owned, decision, audit, incident>>
  /\ UNCHANGED <<enabled, live, args, jobVars>>

ResultForgotten(r) == [by |-> r, cluster |-> cluster[r], kind |-> kind[r],   \* mutant of Entry
                       actions |-> ladder[r], owned |-> owned[r], attempts |-> <<>>]
Entry(r) == [by |-> r, cluster |-> cluster[r], kind |-> kind[r],
             actions |-> ladder[r], owned |-> owned[r], attempts |-> attempts[r]]

Appended(r) == Append(audit, Entry(r))

\* Audit.Append; only then is the incident's id returned.
Record(r) ==
  /\ pc[r] = "recording"
  /\ \/ Fail(r)
     \/ /\ audit' = Appended(r)
        /\ incident' = [incident EXCEPT ![r] = Len(audit) + 1]
        /\ pc' = [pc EXCEPT ![r] = "returned"]
        /\ UNCHANGED <<ladder, owned, decision>>
  /\ UNCHANGED <<enabled, live, args, jobVars>>

-----------------------------------------------------------------------------
(* The approve_action tool.                                                *)

Proposed(i, a) == \E n \in DOMAIN audit[i].actions : audit[i].actions[n] = a

AnyTier(u, i, a) == /\ enabled /\ InScope(u, audit[i].cluster)  \* mutant of Approvable
                    /\ Proposed(i, a) /\ RiskOf(a) = "high"
Approvable(u, i, a) ==
  /\ enabled
  /\ InScope(u, audit[i].cluster)
  /\ Proposed(i, a) /\ RiskOf(a) = "high"
  /\ TierOf(u).ok /\ TierOf(u).tier = "prod-admin"

\* The cluster and signal are those of the incident, whatever the caller says.
Approve(r, u, i, a) ==
  /\ pc[r] = "idle" /\ Approvable(u, i, a)
  /\ tool' = [tool EXCEPT ![r] = "approve"]
  /\ caller' = [caller EXCEPT ![r] = u]
  /\ target' = [target EXCEPT ![r] = [incident |-> i, action |-> a]]
  /\ cluster' = [cluster EXCEPT ![r] = audit[i].cluster]
  /\ kind' = [kind EXCEPT ![r] = audit[i].kind]
  /\ pc' = [pc EXCEPT ![r] = "approving"]
  /\ job' = [job EXCEPT ![r] = "sent"]
  /\ UNCHANGED <<enabled, live, plan, attempts, ladder, owned, decision, audit,
                 incident>>

-----------------------------------------------------------------------------
(* The agent.                                                              *)

JobFails(r) == job' = [job EXCEPT ![r] = "failed"] /\ UNCHANGED <<plan, attempts>>

\* Execute: the finding and the ladder are derived anew.
AgentDerives(r) ==
  /\ job[r] = "sent" /\ tool[r] = "troubleshoot"
  /\ \/ JobFails(r)
     \/ /\ CanDiagnose(kind[r], cluster[r])
        /\ \E own \in OwnerFound : plan' = [plan EXCEPT ![r] = Ladder(kind[r], own)]
        /\ job' = [job EXCEPT ![r] = "walking"]
        /\ UNCHANGED attempts
  /\ UNCHANGED <<enabled, live, args, hubVars>>

NextRung(r) == plan[r][Len(attempts[r]) + 1]
LadderOver(r) ==
  Len(attempts[r]) < Len(plan[r]) => RiskOf(NextRung(r)) = "high"

\* A rung may change what the cluster answers next, resolved or not: the pod
\* it deletes is gone for good.
Effect(c) ==
  /\ pod' \in {pod, [pod EXCEPT ![c] = FALSE]}
  /\ ready' \in {ready, [ready EXCEPT ![c] = ~@]}

\* execengine.Run, one rung: it resolves the incident or the next is tried.
AgentRung(r) ==
  /\ job[r] = "walking" /\ ~LadderOver(r)
  /\ attempts' = [attempts EXCEPT ![r] = Append(@, NextRung(r))]
  /\ Effect(cluster[r])
  /\ job' \in {job, [job EXCEPT ![r] = "replied"]}
  /\ UNCHANGED <<enabled, args, hubVars, plan>>

AgentDone(r) ==
  /\ job[r] = "walking" /\ LadderOver(r)
  /\ job' = [job EXCEPT ![r] = "replied"]
  /\ UNCHANGED <<enabled, live, args, hubVars, plan, attempts>>

\* The incident's own Finding.Meta, where a playbook can be rechecked.
MetaOwned(r) == audit[target[r].incident].owned

WholeLadder(r, l) == l                                    \* mutant of Chosen
Chosen(r, l) == <<target[r].action>>

\* ApproveAction: core/oomkilled asks whether its Deployment still lacks
\* replicas, the others diagnose again; the action must still be on the ladder.
AgentRechecks(r) ==
  /\ job[r] = "sent" /\ tool[r] = "approve"
  /\ \/ JobFails(r)
     \/ /\ IF kind[r] = "oom" THEN MetaOwned(r) /\ ~ready[cluster[r]]
           ELSE CanDiagnose(kind[r], cluster[r])
        /\ \E own \in IF kind[r] = "oom" THEN {TRUE} ELSE OwnerFound :
             \E n \in DOMAIN Ladder(kind[r], own) :
               /\ Ladder(kind[r], own)[n] = target[r].action
               /\ plan' = [plan EXCEPT ![r] = Chosen(r, Ladder(kind[r], own))]
        /\ job' = [job EXCEPT ![r] = "approved"]
        /\ UNCHANGED attempts
  /\ UNCHANGED <<enabled, live, args, hubVars>>

UnderWay(q) == job[q] \in {"sent", "walking", "approved"}

\* execengine.RunApproved.  Without a Run closure the agent process panics,
\* and every job in it is lost.
AgentRunsApproved(r) ==
  /\ job[r] = "approved"
  /\ IF HasRun(NextRung(r))
     THEN /\ attempts' = [attempts EXCEPT ![r] = Append(@, NextRung(r))]
          /\ Effect(cluster[r])
          /\ job' = [job EXCEPT ![r] = "replied"]
     ELSE /\ job' = [q \in Requests |->
                       IF UnderWay(q) /\ cluster[q] = cluster[r] THEN "failed" ELSE job[q]]
          /\ UNCHANGED <<live, attempts>>
  /\ UNCHANGED <<enabled, args, hubVars, plan>>

\* The cluster changes by itself.
Drift(c) ==
  /\ \/ pod[c] /\ pod' = [pod EXCEPT ![c] = FALSE] /\ UNCHANGED ready
     \/ ready' = [ready EXCEPT ![c] = ~@] /\ UNCHANGED pod
  /\ UNCHANGED <<enabled, args, hubVars, jobVars>>

Hub(r) == \/ \E u \in Callers, c \in Clusters, k \in Kinds : Troubleshoot(r, u, c, k)
          \/ \E u \in Callers, i \in DOMAIN audit, a \in Rungs : Approve(r, u, i, a)
          \/ Refuse(r) \/ Diagnosed(r) \/ CallReturns(r) \/ Record(r)
Agent(r) == AgentDerives(r) \/ AgentRung(r) \/ AgentDone(r) \/ AgentRechecks(r)
            \/ AgentRunsApproved(r)

Next == (\E r \in Requests : Hub(r) \/ Agent(r)) \/ (\E c \in Clusters : Drift(c))

Spec == Init /\ [][Next]_vars

-----------------------------------------------------------------------------
(* Properties.                                                             *)

RanBy(r) == {attempts[r][n] : n \in DOMAIN attempts[r]}

\* Whatever was refused, failed or came late, a high-risk action reaches a
\* cluster only with execution on, for a prod-admin with that cluster in
\* scope, and only the one action, on the one cluster, that an incident on
\* record proposed (approveActionHandler, execengine.Run).
HighRiskIsApproved ==
  \A r \in Requests : \A a \in RanBy(r) : RiskOf(a) = "high" =>
    /\ enabled /\ TierOf(caller[r]).tier = "prod-admin" /\ <<caller[r], cluster[r]>> \in Scope
    /\ attempts[r] = <<a>>
    /\ \E i \in DOMAIN audit : audit[i].cluster = cluster[r] /\ Proposed(i, a)

\* Nothing runs by itself while execution is off, for a readonly or unknown
\* caller, or on a cluster out of scope, even when the agent acts long after
\* the request was answered (troubleshootHandler, Decide).
AutoRunIsAllowed ==
  \A r \in Requests : tool[r] = "troubleshoot" /\ RanBy(r) # {} =>
    /\ enabled /\ TierOf(caller[r]).ok /\ TierOf(caller[r]).tier # "readonly"
    /\ <<caller[r], cluster[r]>> \in Scope

\* An incident id given to a caller leads to a record of that request, with
\* every action the agent ran for it, then and later (Record, CallReturns).
AnswerIsOnRecord ==
  \A r \in Requests : incident[r] # 0 =>
    /\ audit[incident[r]].by = r /\ audit[incident[r]].cluster = cluster[r]
    /\ audit[incident[r]].attempts = attempts[r]

\* One approval, one action: two approvals of an incident may both run, but
\* no approval runs anything else, and none runs a rung that no prior
\* incident on that cluster and kind of problem led to (ApproveAction).
ApprovalRunsItsAction ==
  \A r \in Requests : tool[r] = "approve" =>
    /\ attempts[r] \in {<<>>, <<target[r].action>>}
    /\ audit[target[r].incident].cluster = cluster[r]
    /\ audit[target[r].incident].kind = kind[r]
    /\ audit[target[r].incident].by # r

\* "Package audit records every troubleshooting request and execution": once a
\* request has been answered and its job is over, what ran is on record.
EveryExecutionIsRecorded ==
  \A r \in Requests : pc[r] = "returned" /\ ~UnderWay(r) /\ RanBy(r) # {} =>
    \E i \in DOMAIN audit : audit[i].by = r

\* "Medium risk in prod: only prod-admin may execute" (policy.rego).
MediumInProdByProdAdmin ==
  \A r \in Requests : \A a \in RanBy(r) :
    RiskOf(a) = "medium" /\ cluster[r] \in ProdClusters =>
      TierOf(caller[r]).tier = "prod-admin"
=============================================================================
