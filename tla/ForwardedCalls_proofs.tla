----------------------- MODULE ForwardedCalls_proofs -----------------------
(***************************************************************************)
(* Proofs about calls to an agent, made on the replica that holds its      *)
(* session or forwarded to it, for any number of calls and sessions: type  *)
(* correctness, the pending table, what the receive loop holds, whose      *)
(* reply a call gets, and RemoteCall's contract.                           *)
(***************************************************************************)
EXTENDS ForwardedCalls, SequenceTheorems, TLAPS

(***************************************************************************)
(* A stream as the calls it carries.                                       *)
(***************************************************************************)

Carries(s, c) == \E i \in 1..Len(s) : s[i] = c

\* No message twice on a stream.
Once(s) == \A i, j \in 1..Len(s) : s[i] = s[j] => i = j

LEMMA AppendCarries ==
  ASSUME NEW s \in Seq(Calls), NEW c \in Calls
  PROVE  /\ Append(s, c) \in Seq(Calls)
         /\ \A d : Carries(Append(s, c), d) <=> Carries(s, d) \/ d = c
         /\ Once(s) /\ ~Carries(s, c) => Once(Append(s, c))
<1>1. /\ Append(s, c) \in Seq(Calls) /\ Len(s) \in Nat
      /\ Len(Append(s, c)) = Len(s) + 1
      /\ \A i \in 1..Len(s) : Append(s, c)[i] = s[i]
      /\ Append(s, c)[Len(s) + 1] = c
  OBVIOUS
<1> QED BY <1>1 DEF Carries, Once

LEMMA TailCarries ==
  ASSUME NEW s \in Seq(Calls), s # <<>>
  PROVE  /\ Head(s) \in Calls /\ Carries(s, Head(s))
         /\ Tail(s) \in Seq(Calls)
         /\ \A d : Carries(Tail(s), d) => Carries(s, d)
         /\ Once(s) => Once(Tail(s)) /\ ~Carries(Tail(s), Head(s))
<1>1. /\ Head(s) \in Calls /\ Tail(s) \in Seq(Calls)
      /\ Len(s) \in Nat \ {0} /\ Len(Tail(s)) = Len(s) - 1 /\ Head(s) = s[1]
      /\ \A i \in 1..Len(Tail(s)) : Tail(s)[i] = s[i + 1]
  BY HeadTailProperties, EmptySeq
<1>2. \A i \in 1..Len(Tail(s)) : i + 1 \in 1..Len(s) /\ i + 1 # 1
  BY <1>1
<1> QED BY <1>1, <1>2 DEF Carries, Once

LEMMA EmptyCarries == /\ <<>> \in Seq(Calls) /\ Once(<<>>)
                      /\ \A d : ~Carries(<<>>, d)
  BY EmptySeq DEF Carries, Once

(***************************************************************************)
(* What happens between the replicas leaves the replica that serves alone, *)
(* but for the contexts.                                                   *)
(***************************************************************************)

hubStateVars == <<call, conn, chan, result, pending, dispatching, link,
                  toAgent, toHub, job, worked, crashes>>

LEMMA HopLeavesHub ==
  ASSUME NEW c \in Forwarded, Hop(c) \/ CallerLeaves(c)
  PROVE  UNCHANGED hubStateVars
<1>1. UNCHANGED vars => UNCHANGED hubStateVars
  BY DEF vars, hubStateVars
<1>2. CASE HopLost(c) \/ LeftBehind(c)
  BY <1>2 DEF HopLost, LeftBehind, hubStateVars, tableVars, wireVars, agentVars
<1>3. CASE ~(HopLost(c) \/ LeftBehind(c))
  BY <1>1, <1>3 DEF Hop, Forward, Misdirected, Served, AnswerOf, CallerLeaves
<1> QED BY <1>2, <1>3

\* A step of the specification is one of the replica that serves, which
\* leaves the hop alone, or one of the hop, or a stutter.
HubStep ==
  \/ \E c \in Calls : HubCall(c) \/ (c \notin Forwarded /\ Cancel(c)) \/ Job(c)
  \/ \E k \in Conns : \/ Connect(k) \/ Break(k) \/ HubNotices(k)
                      \/ Loop(k) \/ AgentReceive(k)
  \/ AgentCrash
HopStep == \E c \in Forwarded : Hop(c) \/ CallerLeaves(c)

LEMMA StepCases ==
  ASSUME [FwdNext]_fwdVars
  PROVE  \/ HubStep /\ UNCHANGED hopVars
         \/ HopStep /\ UNCHANGED hubStateVars
         \/ UNCHANGED fwdVars
<1>1. CASE \E c \in Calls : Serve(c) \/ OwnCancel(c) \/ AgentJob(c)
  BY <1>1 DEF Serve, OwnCancel, AgentJob, HubStep
<1>2. CASE \E k \in Conns : Session(k) \/ Notices(k) \/ HubLoop(k) \/ Receive(k)
  BY <1>2 DEF Session, Notices, HubLoop, Receive, HubStep
<1>3. CASE \E c \in Forwarded : Hop(c) \/ CallerLeaves(c)
  BY <1>3, HopLeavesHub DEF HopStep
<1> QED BY <1>1, <1>2, <1>3 DEF FwdNext

(***************************************************************************)
(* Type correctness.                                                       *)
(***************************************************************************)

TypeInv ==
  /\ TypeOK
  /\ hop \in [Calls -> Hops]
  /\ final \in [Calls -> Results]
  /\ left \in [Calls -> BOOLEAN]

LEMMA AppendAt ==
  ASSUME NEW q \in [Conns -> Seq(Calls)], NEW k, NEW c \in Calls
  PROVE  [q EXCEPT ![k] = Append(@, c)] \in [Conns -> Seq(Calls)]
  BY AppendCarries

LEMMA TailAt ==
  ASSUME NEW q \in [Conns -> Seq(Calls)], NEW k \in Conns, q[k] # <<>>
  PROVE  [q EXCEPT ![k] = Tail(@)] \in [Conns -> Seq(Calls)]
  BY TailCarries

LEMMA TypeInvInit == FwdInit => TypeInv
<1> SUFFICES ASSUME FwdInit PROVE TypeInv
  OBVIOUS
<1>1. <<>> \in Seq(Calls)
  BY EmptyCarries
<1> QED BY <1>1, BoundAssumption
        DEF FwdInit, Init, TypeInv, TypeOK, Hops, Results, CallStates, LinkStates, JobStates

LEMMA TypeInvStep == TypeInv /\ [FwdNext]_fwdVars => TypeInv'
<1> SUFFICES ASSUME TypeInv, [FwdNext]_fwdVars PROVE TypeInv'
  OBVIOUS
<1> USE DEF TypeInv, TypeOK
<1>t. SUFFICES TypeOK'
  <2>1. CASE UNCHANGED hopVars
    BY <1>t, <2>1 DEF hopVars
  <2>2. CASE HopStep
    <3> PICK c \in Forwarded : Hop(c) \/ CallerLeaves(c)
      BY <2>2 DEF HopStep
    <3>1. CASE CallerLeaves(c)
      BY <1>t, <3>1 DEF CallerLeaves
    <3>2. ASSUME NEW h \in Hops, HopTo(c, h) PROVE TypeInv'
      <4>1. hop' \in [Calls -> Hops]
        BY <3>2 DEF HopTo
      <4> QED BY <1>t, <3>2, <4>1 DEF HopTo
    <3>3. ASSUME NEW r \in Results, HopEnds(c, r) PROVE TypeInv'
      <4>1. hop' \in [Calls -> Hops] /\ final' \in [Calls -> Results]
        BY <3>3 DEF HopEnds, Hops
      <4> QED BY <1>t, <3>3, <4>1 DEF HopEnds
    <3>4. \A d \in Calls : result[d] \in Results
      OBVIOUS
    <3>5. c \in Calls
      BY ForwardedAssumption
    <3> QED BY <3>1, <3>2, <3>3, <3>4, <3>5
            DEF Hop, Forward, Misdirected, Served, AnswerOf, HopLost, LeftBehind, Hops, Results
  <2>3. CASE UNCHANGED fwdVars
    BY <1>t, <2>3 DEF fwdVars, hopVars
  <2> QED BY <2>1, <2>2, <2>3, StepCases
<1>1. ASSUME NEW c \in Calls, HubCall(c) PROVE TypeOK'
  <2>1. CASE Choose(c)
    <3>1. call' \in [Calls -> CallStates]
      BY <2>1 DEF Choose, CallStates
    <3>2. conn' \in [Calls -> Conns \cup {None}]
      BY <2>1 DEF Choose
    <3>3. result' \in [Calls -> Results]
      BY <2>1 DEF Choose, Results
    <3> QED BY <2>1, <3>1, <3>2, <3>3 DEF Choose, tableVars, wireVars, agentVars
  <2>2. CASE Await(c)
    BY <2>2 DEF Await, TableWith, CallStates, wireVars, agentVars
  <2>3. CASE Send(c)
    <3>1. toAgent' \in [Conns -> Seq(Calls)]
      <4>1. \/ toAgent' = [toAgent EXCEPT ![conn[c]] = Append(@, c)]
            \/ toAgent' = toAgent
        BY <2>3 DEF Send
      <4>2. [toAgent EXCEPT ![conn[c]] = Append(@, c)] \in [Conns -> Seq(Calls)]
        BY AppendAt
      <4> QED BY <4>1, <4>2
    <3>2. call' \in [Calls -> CallStates]
      BY <2>3 DEF Send, CallStates
    <3>3. result' \in [Calls -> Results]
      BY <2>3 DEF Send, Results
    <3> QED BY <2>3, <3>1, <3>2, <3>3 DEF Send, tableVars, agentVars
  <2>4. CASE TakeReply(c)
    BY <2>4 DEF TakeReply, CallStates, Results, tableVars, wireVars, agentVars
  <2>5. CASE GiveUp(c)
    BY <2>5 DEF GiveUp, CallStates, Results, tableVars, wireVars, agentVars
  <2>6. CASE Forget(c)
    BY <2>6 DEF Forget, TableWithout, CallStates, wireVars, agentVars
  <2> QED BY <1>1, <2>1, <2>2, <2>3, <2>4, <2>5, <2>6 DEF HubCall
<1>2. ASSUME NEW c \in Calls, Cancel(c) PROVE TypeOK'
  BY <1>2 DEF Cancel, tableVars, wireVars, agentVars
<1>3. ASSUME NEW c \in Calls, Work(c) PROVE TypeOK'
  BY <1>3 DEF Work, JobStates, hubVars, tableVars, wireVars
<1>4. ASSUME NEW c \in Calls, Reply(c) PROVE TypeOK'
  <2>1. toHub' \in [Conns -> Seq(Calls)]
    BY <1>4, AppendAt DEF Reply
  <2> QED BY <1>4, <2>1 DEF Reply, AfterReply, JobStates, hubVars, tableVars
<1>5. ASSUME NEW k \in Conns, Connect(k) \/ Break(k) \/ HubNotices(k) PROVE TypeOK'
  BY <1>5 DEF Connect, Break, HubNotices, LinkStates, hubVars, tableVars, wireVars, agentVars
<1>6. ASSUME NEW k \in Conns, Dispatch(k) PROVE TypeOK'
  <2> DEFINE m == Head(toHub[k])
  <2>1. m \in Calls /\ toHub' \in [Conns -> Seq(Calls)]
    BY <1>6, TailAt, TailCarries DEF Dispatch
  <2>2. Held(Addressee(k, m), m) \in {None} \cup [to : Calls, reply : Calls]
    BY <2>1 DEF Held, Addressee
  <2> QED BY <1>6, <2>1, <2>2 DEF Dispatch, hubVars, agentVars
<1>7. ASSUME NEW k \in Conns, Deliver(k) PROVE TypeOK'
  <2>1. dispatching[k].reply \in Calls
    BY <1>7 DEF Deliver
  <2> QED BY <1>7, <2>1 DEF Deliver, wireVars, agentVars
<1>8. ASSUME NEW k \in Conns, AgentReceive(k) PROVE TypeOK'
  <2>1. toAgent' \in [Conns -> Seq(Calls)]
    BY <1>8, TailAt DEF AgentReceive
  <2> QED BY <1>8, <2>1 DEF AgentReceive, JobStates, hubVars, tableVars
<1>9. CASE AgentCrash
  BY <1>9, EmptyCarries, BoundAssumption
     DEF AgentCrash, JobStates, LinkStates, hubVars, tableVars
<1>10. CASE HopStep
  <2> PICK c \in Forwarded : Hop(c) \/ CallerLeaves(c)
    BY <1>10 DEF HopStep
  <2>1. ctxDone' \in [Calls -> BOOLEAN]
    BY DEF Hop, Forward, Misdirected, Served, AnswerOf, HopLost, LeftBehind, PassedOn,
           CallerLeaves, vars
  <2> QED BY <2>1, HopLeavesHub DEF hubStateVars
<1>11. CASE UNCHANGED fwdVars
  BY <1>11 DEF fwdVars, vars
<1>12. CASE HubStep
  BY <1>1, <1>2, <1>3, <1>4, <1>5, <1>6, <1>7, <1>8, <1>9, <1>12 DEF HubStep, Job, Loop
<1> QED BY <1>10, <1>11, <1>12, StepCases

\* Every variable holds a value of its kind, for calls and sessions in any
\* number (AgentCalls, ForwardedCalls).
THEOREM TypeCorrect == FwdSpec => []TypeInv
<1> QED BY TypeInvInit, TypeInvStep, PTL DEF FwdSpec

(***************************************************************************)
(* The pending table.                                                      *)
(***************************************************************************)

\* PendingIsLive needs to know that a call keeps its connection while it is
\* in the table, and has one while it is under way.
TableInv ==
  /\ PendingIsLive
  /\ \A c \in Calls : call[c] \in {"chosen", "registered", "waiting", "leaving"} => conn[c] \in Conns

LEMMA TableInvInit == FwdInit => TableInv
  BY DEF FwdInit, Init, TableInv, PendingIsLive

LEMMA TableInvStep == TypeInv /\ TableInv /\ [FwdNext]_fwdVars => TableInv'
<1> SUFFICES ASSUME TypeInv, TableInv, [FwdNext]_fwdVars PROVE TableInv'
  OBVIOUS
<1>t. /\ call \in [Calls -> CallStates] /\ conn \in [Calls -> Conns \cup {None}]
      /\ pending \in [Conns -> SUBSET Calls]
  BY DEF TypeInv, TypeOK
<1> USE <1>t DEF TableInv, PendingIsLive
<1>1. ASSUME NEW c \in Calls, HubCall(c) PROVE TableInv'
  <2>1. CASE Choose(c)
    BY <2>1 DEF Choose, tableVars
  <2>2. CASE Await(c)
    BY <2>2 DEF Await, TableWith
  <2>3. CASE Send(c)
    BY <2>3 DEF Send, tableVars
  <2>4. CASE TakeReply(c) \/ GiveUp(c)
    BY <2>4 DEF TakeReply, GiveUp, tableVars
  <2>5. CASE Forget(c)
    BY <2>5 DEF Forget, TableWithout
  <2> QED BY <1>1, <2>1, <2>2, <2>3, <2>4, <2>5 DEF HubCall
<1>2. ASSUME NEW k \in Conns, Dispatch(k) PROVE TableInv'
  BY <1>2 DEF Dispatch, hubVars
<1>3. CASE UNCHANGED <<call, conn, pending>>
  BY <1>3
<1>4. CASE HubStep
  <2>1. ASSUME NEW c \in Calls, Cancel(c) \/ Job(c) PROVE UNCHANGED <<call, conn, pending>>
    BY <2>1 DEF Cancel, Job, Work, Reply, hubVars, tableVars
  <2>2. ASSUME NEW k \in Conns,
               Connect(k) \/ Break(k) \/ HubNotices(k) \/ Deliver(k) \/ AgentReceive(k)
        PROVE  UNCHANGED <<call, conn, pending>>
    BY <2>2 DEF Connect, Break, HubNotices, Deliver, AgentReceive, hubVars, tableVars
  <2>3. CASE AgentCrash
    BY <2>3 DEF AgentCrash, hubVars, tableVars
  <2> QED BY <1>1, <1>2, <1>3, <1>4, <2>1, <2>2, <2>3 DEF HubStep, Loop
<1>5. CASE HopStep /\ UNCHANGED hubStateVars
  BY <1>3, <1>5 DEF hubStateVars
<1>6. CASE UNCHANGED fwdVars
  BY <1>3, <1>6 DEF fwdVars, vars
<1> QED BY <1>4, <1>5, <1>6, StepCases

\* No call that has returned is left in a pending table, whatever the order
\* of its reply, its context's end and the end of its session (await, forget).
THEOREM TableIsClean == FwdSpec => []PendingIsLive
<1>1. TableInv => PendingIsLive
  BY DEF TableInv
<1> QED BY <1>1, TableInvInit, TableInvStep, TypeCorrect, PTL DEF FwdSpec

(***************************************************************************)
(* The receive loop has room.                                              *)
(***************************************************************************)

\* The loop of session k is about to send on c's channel.
Holds(k, c) == dispatching[k] # None /\ dispatching[k].to = c

\* A channel has room for one reply.  That no second one comes rests on the
\* table: a call has at most one of an entry in it, a loop that has taken the
\* entry out, and a reply in its channel.
RoomInv ==
  /\ \A k \in Conns : \A c \in pending[k] : chan[c] = None /\ \A m \in Conns : ~Holds(m, c)
  /\ \A k \in Conns, c \in Calls : Holds(k, c) =>
       /\ chan[c] = None /\ dispatching[k].reply = c
       /\ \A m \in Conns : Holds(m, c) => m = k
       /\ call[c] \notin {"idle", "chosen"}
  /\ \A c \in Calls : chan[c] \in {None, c} /\ (call[c] \in {"idle", "chosen"} => chan[c] = None)

LEMMA RoomInvInit == FwdInit => RoomInv
  BY DEF FwdInit, Init, RoomInv, Holds

LEMMA RoomInvStep == TypeInv /\ TableInv /\ RoomInv /\ [FwdNext]_fwdVars => RoomInv'
<1> SUFFICES ASSUME TypeInv, TableInv, RoomInv, [FwdNext]_fwdVars PROVE RoomInv'
  OBVIOUS
<1>t. /\ call \in [Calls -> CallStates] /\ chan \in [Calls -> Calls \cup {None}]
      /\ pending \in [Conns -> SUBSET Calls]
      /\ dispatching \in [Conns -> {None} \cup [to : Calls, reply : Calls]]
      /\ toHub \in [Conns -> Seq(Calls)]
      /\ None \notin Calls
  BY NoneAssumption DEF TypeInv, TypeOK
<1>u. \A k \in Conns : \A c \in pending[k] :
        /\ conn[c] = k /\ call[c] \in {"registered", "waiting", "leaving"}
        /\ \A m \in Conns : c \in pending[m] => m = k
  BY DEF TableInv, PendingIsLive
<1> USE <1>t DEF RoomInv, Holds
<1>1. ASSUME NEW c \in Calls, HubCall(c) PROVE RoomInv'
  <2>1. CASE Choose(c)
    BY <2>1 DEF Choose, tableVars
  <2>2. CASE Await(c)
    <3>1. chan[c] = None /\ \A m \in Conns : ~Holds(m, c)
      BY <2>2 DEF Await
    <3>2. \A m \in Conns : pending'[m] \subseteq pending[m] \cup {c}
      BY <2>2 DEF Await, TableWith
    <3>3. /\ UNCHANGED <<chan, dispatching>>
          /\ call' = [call EXCEPT ![c] = "registered"]
      BY <2>2 DEF Await
    <3> QED BY <3>1, <3>2, <3>3
  <2>3. CASE Send(c)
    BY <2>3 DEF Send, tableVars
  <2>4. CASE TakeReply(c)
    BY <2>4 DEF TakeReply, tableVars
  <2>5. CASE GiveUp(c)
    BY <2>5 DEF GiveUp, tableVars
  <2>6. CASE Forget(c)
    BY <2>6 DEF Forget, TableWithout
  <2> QED BY <1>1, <2>1, <2>2, <2>3, <2>4, <2>5, <2>6 DEF HubCall
<1>2. ASSUME NEW k \in Conns, Dispatch(k) PROVE RoomInv'
  <2> DEFINE c == Head(toHub[k])
  <2>1. c \in Calls
    BY <1>2, TailCarries DEF Dispatch
  <2>2. UNCHANGED <<call, chan>>
    BY <1>2 DEF Dispatch, hubVars
  <2>3. CASE c \in pending[k]
    <3>1. /\ dispatching' = [dispatching EXCEPT ![k] = [to |-> c, reply |-> c]]
          /\ pending' = [pending EXCEPT ![k] = @ \ {c}]
      BY <1>2, <2>1, <2>3 DEF Dispatch, Addressee, Held
    <3> HIDE DEF c
    <3>2. /\ chan[c] = None /\ \A m \in Conns : ~Holds(m, c)
          /\ call[c] \notin {"idle", "chosen"}
      BY <1>u, <2>1, <2>3
    <3>3. \A m \in Conns : c \notin pending'[m] /\ pending'[m] \subseteq pending[m]
      BY <1>u, <2>1, <2>3, <3>1
    <3>4. /\ \A d : Holds(k, d)' => d = c /\ dispatching'[k].reply = c
          /\ \A m \in Conns \ {k} : dispatching'[m] = dispatching[m]
      BY <3>1
    <3>5. \A m \in Conns : \A d \in pending'[m] :
             d # c /\ chan'[d] = None /\ \A n \in Conns : ~Holds(n, d)'
      BY <2>2, <3>3, <3>4
    <3>6. ASSUME NEW m \in Conns, NEW d \in Calls, Holds(m, d)'
          PROVE  /\ chan'[d] = None /\ dispatching'[m].reply = d
                 /\ \A n \in Conns : Holds(n, d)' => n = m
                 /\ call'[d] \notin {"idle", "chosen"}
      <4>1. CASE m = k
        BY <2>2, <3>2, <3>4, <3>6, <4>1
      <4>2. CASE m # k
        <5>1. Holds(m, d) /\ d # c
          BY <3>2, <3>4, <3>6, <4>2
        <5> QED BY <2>2, <3>4, <4>2, <5>1
      <4> QED BY <4>1, <4>2
    <3> QED BY <2>2, <3>5, <3>6
  <2>4. CASE c \notin pending[k]
    <3>1. /\ dispatching' = [dispatching EXCEPT ![k] = None]
          /\ pending' = [pending EXCEPT ![k] = @ \ {None}]
      BY <1>2, <2>4 DEF Dispatch, Addressee, Held
    <3> QED BY <2>2, <3>1
  <2> QED BY <2>3, <2>4
<1>3. ASSUME NEW k \in Conns, Deliver(k) PROVE RoomInv'
  <2> DEFINE c == dispatching[k].to
  <2>1. /\ c \in Calls /\ Holds(k, c) /\ UNCHANGED <<call, pending>>
        /\ chan' = [chan EXCEPT ![c] = c]
        /\ dispatching' = [dispatching EXCEPT ![k] = None]
    BY <1>3 DEF Deliver
  <2> HIDE DEF c
  <2> QED BY <2>1
<1>4. CASE UNCHANGED <<call, chan, pending, dispatching>>
  BY <1>4
<1>5. CASE HubStep
  <2>1. ASSUME NEW c \in Calls, Cancel(c) \/ Job(c)
        PROVE  UNCHANGED <<call, chan, pending, dispatching>>
    BY <2>1 DEF Cancel, Job, Work, Reply, hubVars, tableVars
  <2>2. ASSUME NEW k \in Conns, Connect(k) \/ Break(k) \/ HubNotices(k) \/ AgentReceive(k)
        PROVE  UNCHANGED <<call, chan, pending, dispatching>>
    BY <2>2 DEF Connect, Break, HubNotices, AgentReceive, hubVars, tableVars
  <2>3. CASE AgentCrash
    BY <2>3 DEF AgentCrash, hubVars, tableVars
  <2> QED BY <1>1, <1>2, <1>3, <1>4, <1>5, <2>1, <2>2, <2>3 DEF HubStep, Loop
<1>6. CASE HopStep /\ UNCHANGED hubStateVars
  BY <1>4, <1>6 DEF hubStateVars
<1>7. CASE UNCHANGED fwdVars
  BY <1>4, <1>7 DEF fwdVars, vars
<1> QED BY <1>5, <1>6, <1>7, StepCases

\* The receive loop never blocks on the channel of a call, one that has given
\* up meanwhile included: no call can stall its session (dispatch).
THEOREM LoopHasRoom == FwdSpec => []DispatchHasRoom
<1>1. TypeInv /\ RoomInv => DispatchHasRoom
  <2> SUFFICES ASSUME TypeInv, RoomInv, NEW k \in Conns, dispatching[k] # None
               PROVE  chan[dispatching[k].to] = None
    BY DEF DispatchHasRoom, HasRoom
  <2>1. dispatching[k].to \in Calls
    BY DEF TypeInv, TypeOK
  <2> QED BY <2>1 DEF RoomInv, Holds
<1> QED BY <1>1, RoomInvInit, RoomInvStep, TableInvInit, TableInvStep, TypeCorrect,
           PTL DEF FwdSpec

(***************************************************************************)
(* A reply follows its call's own execution.                               *)
(***************************************************************************)

\* Wherever a reply is on its way back, the agent has done that call's work.
WorkInv ==
  /\ \A k \in Conns, c \in Calls : Carries(toHub[k], c) \/ Holds(k, c) => worked[c] > 0
  /\ \A c \in Calls : job[c] = "replying" \/ chan[c] = c \/ result[c] = "reply"
                      => worked[c] > 0

LEMMA WorkInvInit == FwdInit => WorkInv
  BY EmptyCarries, NoneAssumption DEF FwdInit, Init, WorkInv, Holds

LEMMA WorkInvStep == TypeInv /\ RoomInv /\ WorkInv /\ [FwdNext]_fwdVars => WorkInv'
<1> SUFFICES ASSUME TypeInv, RoomInv, WorkInv, [FwdNext]_fwdVars PROVE WorkInv'
  OBVIOUS
<1>t. /\ chan \in [Calls -> Calls \cup {None}] /\ result \in [Calls -> Results]
      /\ dispatching \in [Conns -> {None} \cup [to : Calls, reply : Calls]]
      /\ toHub \in [Conns -> Seq(Calls)]
      /\ job \in [Calls -> JobStates] /\ worked \in [Calls -> Nat]
      /\ None \notin Calls
  BY NoneAssumption DEF TypeInv, TypeOK
<1>r. \A c \in Calls : chan[c] \in {None, c}
  BY DEF RoomInv
<1> USE <1>t DEF WorkInv, Holds
<1>1. ASSUME NEW c \in Calls, HubCall(c) PROVE WorkInv'
  <2>1. UNCHANGED <<dispatching, toHub, job, worked>>
    BY <1>1 DEF HubCall, Choose, Await, Send, TakeReply, GiveUp, Forget,
                tableVars, wireVars, agentVars
  <2>2. CASE TakeReply(c)
    <3>1. worked[c] > 0
      BY <1>r, <2>2 DEF TakeReply
    <3> QED BY <2>1, <2>2, <3>1 DEF TakeReply
  <2>3. CASE ~TakeReply(c)
    <3>1. /\ UNCHANGED chan
          /\ \A d \in Calls : result'[d] = "reply" => result[d] = "reply"
      BY <1>1, <2>3 DEF HubCall, Choose, Await, Send, GiveUp, Forget
    <3> QED BY <2>1, <3>1
  <2> QED BY <2>2, <2>3
<1>2. ASSUME NEW c \in Calls, Work(c) PROVE WorkInv'
  <2>1. worked' = [worked EXCEPT ![c] = @ + 1] /\ job' = [job EXCEPT ![c] = "replying"]
    BY <1>2 DEF Work
  <2>2. \A d \in Calls : (worked[d] > 0 => worked'[d] > 0) /\ worked'[c] > 0
    BY <2>1
  <2> QED BY <1>2, <2>1, <2>2 DEF Work, hubVars, tableVars, wireVars
<1>3. ASSUME NEW c \in Calls, Reply(c) PROVE WorkInv'
  <2>1. \A k \in Conns, d \in Calls : Carries(toHub'[k], d) => Carries(toHub[k], d) \/ d = c
    BY <1>3, AppendCarries DEF Reply
  <2>2. worked[c] > 0 /\ job' = [job EXCEPT ![c] = "over"]
    BY <1>3 DEF Reply, AfterReply
  <2>3. UNCHANGED <<chan, result, dispatching, worked>>
    BY <1>3 DEF Reply, hubVars, tableVars
  <2> QED BY <2>1, <2>2, <2>3
<1>4. ASSUME NEW k \in Conns, Dispatch(k) PROVE WorkInv'
  <2> DEFINE c == Head(toHub[k])
  <2>1. c \in Calls /\ worked[c] > 0
    BY <1>4, TailCarries DEF Dispatch
  <2>2. \A m \in Conns, d \in Calls : Carries(toHub'[m], d) => Carries(toHub[m], d)
    BY <1>4, TailCarries DEF Dispatch
  <2>3. \A m \in Conns, d \in Calls : Holds(m, d)' => Holds(m, d) \/ d = c
    BY <1>4 DEF Dispatch, Addressee, Held
  <2>4. UNCHANGED <<chan, result, job, worked>>
    BY <1>4 DEF Dispatch, hubVars, agentVars
  <2> HIDE DEF c
  <2> QED BY <2>1, <2>2, <2>3, <2>4
<1>5. ASSUME NEW k \in Conns, Deliver(k) PROVE WorkInv'
  <2> DEFINE c == dispatching[k].to
  <2>1. c \in Calls /\ worked[c] > 0 /\ dispatching[k].reply = c
    BY <1>5 DEF Deliver, RoomInv
  <2>2. /\ chan' = [chan EXCEPT ![c] = c]
        /\ dispatching' = [dispatching EXCEPT ![k] = None]
        /\ UNCHANGED <<result, toHub, job, worked>>
    BY <1>5, <2>1 DEF Deliver, wireVars, agentVars
  <2> HIDE DEF c
  <2> QED BY <2>1, <2>2
<1>6. ASSUME NEW k \in Conns, AgentReceive(k) PROVE WorkInv'
  BY <1>6 DEF AgentReceive, hubVars, tableVars
<1>7. CASE AgentCrash
  BY <1>7 DEF AgentCrash, hubVars, tableVars
<1>8. CASE UNCHANGED <<chan, result, dispatching, toHub, job, worked>>
  BY <1>8
<1>9. CASE HubStep
  <2>1. ASSUME NEW c \in Calls, Cancel(c)
        PROVE  UNCHANGED <<chan, result, dispatching, toHub, job, worked>>
    BY <2>1 DEF Cancel, tableVars, wireVars, agentVars
  <2>2. ASSUME NEW k \in Conns, Connect(k) \/ Break(k) \/ HubNotices(k)
        PROVE  UNCHANGED <<chan, result, dispatching, toHub, job, worked>>
    BY <2>2 DEF Connect, Break, HubNotices, hubVars, tableVars, wireVars, agentVars
  <2> QED BY <1>1, <1>2, <1>3, <1>4, <1>5, <1>6, <1>7, <1>8, <1>9, <2>1, <2>2
          DEF HubStep, Loop, Job
<1>10. CASE HopStep /\ UNCHANGED hubStateVars
  BY <1>8, <1>10 DEF hubStateVars
<1>11. CASE UNCHANGED fwdVars
  BY <1>8, <1>11 DEF fwdVars, vars
<1> QED BY <1>9, <1>10, <1>11, StepCases

LEMMA RoomInvariant == FwdSpec => []RoomInv
<1> QED BY RoomInvInit, RoomInvStep, TableInvInit, TableInvStep, TypeCorrect, PTL DEF FwdSpec

\* A call gets the reply to its own request, and only once the agent has done
\* the work, in whatever order replies, timeouts and sessions' ends come
\* (dispatch).
THEOREM OwnReply == FwdSpec => []ReplyIsOwn
<1>1. RoomInv /\ WorkInv => ReplyIsOwn
  BY DEF RoomInv, WorkInv, ReplyIsOwn
<1> QED BY <1>1, RoomInvariant, WorkInvInit, WorkInvStep, TypeCorrect, PTL DEF FwdSpec

(***************************************************************************)
(* RemoteCall's contract.                                                  *)
(***************************************************************************)

\* At most one execution: a request is on one stream, once, and gone from it
\* before the agent's goroutine exists, which carries it out once.
OnceInv ==
  /\ \A c \in Calls :
       /\ worked[c] \in {0, 1}
       /\ job[c] \in {"none", "running"} => worked[c] = 0
       /\ call[c] \in {"idle", "chosen", "registered"} => job[c] = "none"
  /\ \A k \in Conns : Once(toAgent[k])
  /\ \A k \in Conns, c \in Calls : Carries(toAgent[k], c) =>
       conn[c] = k /\ job[c] = "none" /\ call[c] \notin {"idle", "chosen", "registered"}

LEMMA OnceInvInit == FwdInit => OnceInv
  BY EmptyCarries DEF FwdInit, Init, OnceInv

LEMMA OnceInvStep == TypeInv /\ TableInv /\ OnceInv /\ [FwdNext]_fwdVars => OnceInv'
<1> SUFFICES ASSUME TypeInv, TableInv, OnceInv, [FwdNext]_fwdVars PROVE OnceInv'
  OBVIOUS
<1>t. /\ call \in [Calls -> CallStates] /\ conn \in [Calls -> Conns \cup {None}]
      /\ toAgent \in [Conns -> Seq(Calls)]
      /\ job \in [Calls -> JobStates] /\ worked \in [Calls -> Nat]
  BY DEF TypeInv, TypeOK
<1> USE <1>t DEF OnceInv
<1>1. ASSUME NEW c \in Calls, HubCall(c) PROVE OnceInv'
  <2>1. UNCHANGED <<job, worked>>
    BY <1>1 DEF HubCall, Choose, Await, Send, TakeReply, GiveUp, Forget, agentVars
  <2>2. CASE Choose(c)
    <3>1. UNCHANGED toAgent /\ \A k \in Conns : ~Carries(toAgent[k], c)
      BY <2>2 DEF Choose, wireVars
    <3>2. /\ \A d \in Calls \ {c} : conn'[d] = conn[d] /\ call'[d] = call[d]
          /\ job[c] = "none"
      BY <2>2 DEF Choose
    <3> QED BY <2>1, <3>1, <3>2
  <2>3. CASE Send(c)
    <3>1. conn[c] \in Conns /\ job[c] = "none" /\ UNCHANGED conn
      BY <2>3 DEF Send, TableInv
    <3>2. \A k \in Conns : ~Carries(toAgent[k], c)
      BY <2>3 DEF Send
    <3>3. /\ \A d \in Calls \ {c} : call'[d] = call[d]
          /\ call'[c] \in {"waiting", "leaving"}
      BY <2>3 DEF Send
    <3>4. CASE UNCHANGED toAgent
      BY <2>1, <3>1, <3>2, <3>3, <3>4
    <3>5. CASE toAgent' = [toAgent EXCEPT ![conn[c]] = Append(@, c)]
      <4>1. /\ \A k \in Conns, d \in Calls :
                  Carries(toAgent'[k], d) => Carries(toAgent[k], d) \/ (d = c /\ k = conn[c])
            /\ \A k \in Conns : Once(toAgent'[k])
        BY <3>1, <3>2, <3>5, AppendCarries
      <4> QED BY <2>1, <3>1, <3>3, <4>1
    <3> QED BY <2>3, <3>4, <3>5 DEF Send
  <2>4. CASE Await(c) \/ TakeReply(c) \/ GiveUp(c) \/ Forget(c)
    <3>1. UNCHANGED <<conn, toAgent>>
      BY <2>4 DEF Await, TakeReply, GiveUp, Forget, wireVars
    <3>2. /\ \A d \in Calls \ {c} : call'[d] = call[d]
          /\ \/ call[c] = "chosen" /\ call'[c] = "registered"
             \/ call'[c] \notin {"idle", "chosen", "registered"}
      BY <2>4 DEF Await, TakeReply, GiveUp, Forget
    <3> QED BY <2>1, <3>1, <3>2
  <2> QED BY <1>1, <2>2, <2>3, <2>4 DEF HubCall
<1>2. ASSUME NEW c \in Calls, Work(c) PROVE OnceInv'
  BY <1>2 DEF Work, hubVars, wireVars
<1>3. ASSUME NEW c \in Calls, Reply(c) PROVE OnceInv'
  BY <1>3 DEF Reply, AfterReply, hubVars
<1>4. ASSUME NEW k \in Conns, AgentReceive(k) PROVE OnceInv'
  <2> DEFINE c == Head(toAgent[k])
  <2>1. c \in Calls /\ Carries(toAgent[k], c)
    BY <1>4, TailCarries DEF AgentReceive
  <2>2. /\ \A m \in Conns, d \in Calls :
              Carries(toAgent'[m], d) => Carries(toAgent[m], d) /\ ~(m = k /\ d = c)
        /\ \A m \in Conns : Once(toAgent'[m])
    BY <1>4, TailCarries DEF AgentReceive
  <2>3. job' = [job EXCEPT ![c] = "running"] /\ UNCHANGED <<call, conn, worked>>
    BY <1>4 DEF AgentReceive, hubVars
  <2> HIDE DEF c
  <2> QED BY <2>1, <2>2, <2>3
<1>5. CASE AgentCrash
  <2>1. \A k \in Conns : toAgent'[k] = <<>>
    BY <1>5 DEF AgentCrash
  <2>2. \A c \in Calls : job'[c] = job[c] \/ (job'[c] = "over" /\ job[c] # "none")
    BY <1>5 DEF AgentCrash
  <2>3. UNCHANGED <<call, conn, worked>>
    BY <1>5 DEF AgentCrash, hubVars
  <2> QED BY <2>1, <2>2, <2>3, EmptyCarries
<1>6. CASE UNCHANGED <<call, conn, toAgent, job, worked>>
  BY <1>6
<1>7. CASE HubStep
  <2>1. ASSUME NEW c \in Calls, Cancel(c)
        PROVE  UNCHANGED <<call, conn, toAgent, job, worked>>
    BY <2>1 DEF Cancel, wireVars, agentVars
  <2>2. ASSUME NEW k \in Conns, Connect(k) \/ Break(k) \/ HubNotices(k) \/ Loop(k)
        PROVE  UNCHANGED <<call, conn, toAgent, job, worked>>
    BY <2>2 DEF Connect, Break, HubNotices, Loop, Dispatch, Deliver, hubVars, wireVars, agentVars
  <2> QED BY <1>1, <1>2, <1>3, <1>4, <1>5, <1>6, <1>7, <2>1, <2>2 DEF HubStep, Job
<1>8. CASE HopStep /\ UNCHANGED hubStateVars
  BY <1>6, <1>8 DEF hubStateVars
<1>9. CASE UNCHANGED fwdVars
  BY <1>6, <1>9 DEF fwdVars, vars
<1> QED BY <1>7, <1>8, <1>9, StepCases

\* One outcome: what a call returns is set once, when it stops waiting.
OutcomeInv ==
  \A c \in Calls :
    /\ call[c] \in {"idle", "chosen", "registered", "waiting"} => result[c] = "none"
    /\ c \in Forwarded => hop[c] # "local" /\ (hop[c] # "over" => final[c] = "none")

LEMMA OutcomeInvInit == FwdInit => OutcomeInv
  BY DEF FwdInit, Init, OutcomeInv

LEMMA OutcomeInvStep == TypeInv /\ OutcomeInv /\ [FwdNext]_fwdVars => OutcomeInv'
<1> SUFFICES ASSUME TypeInv, OutcomeInv, [FwdNext]_fwdVars PROVE OutcomeInv'
  OBVIOUS
<1>t. /\ call \in [Calls -> CallStates] /\ result \in [Calls -> Results]
      /\ hop \in [Calls -> Hops] /\ final \in [Calls -> Results]
  BY DEF TypeInv, TypeOK
<1> USE <1>t DEF OutcomeInv
<1>1. CASE HubStep /\ UNCHANGED hopVars
  <2>1. ASSUME NEW c \in Calls, HubCall(c)
        PROVE  /\ \A d \in Calls \ {c} : call'[d] = call[d] /\ result'[d] = result[d]
               /\ call'[c] \in {"idle", "chosen", "registered", "waiting"}
                    => call[c] \in {"idle", "chosen", "registered"} /\ UNCHANGED result
    BY <2>1 DEF HubCall, Choose, Await, Send, TakeReply, GiveUp, Forget
  <2>2. ASSUME NEW c \in Calls, Cancel(c) \/ Job(c) PROVE UNCHANGED <<call, result>>
    BY <2>2 DEF Cancel, Job, Work, Reply, hubVars
  <2>3. ASSUME NEW k \in Conns,
               Connect(k) \/ Break(k) \/ HubNotices(k) \/ Loop(k) \/ AgentReceive(k)
        PROVE  UNCHANGED <<call, result>>
    <3>1. CASE Loop(k)
      BY <3>1 DEF Loop, Dispatch, Deliver, hubVars
    <3>2. CASE ~Loop(k)
      BY <2>3, <3>2 DEF Connect, Break, HubNotices, AgentReceive, hubVars
    <3> QED BY <3>1, <3>2
  <2>4. AgentCrash => UNCHANGED <<call, result>>
    BY DEF AgentCrash, hubVars
  <2>5. CASE UNCHANGED <<call, result>>
    BY <1>1, <2>5 DEF hopVars
  <2>6. ASSUME NEW c \in Calls, HubCall(c) PROVE OutcomeInv'
    BY <1>1, <2>1, <2>6 DEF hopVars
  <2> QED BY <1>1, <2>2, <2>3, <2>4, <2>5, <2>6 DEF HubStep
<1>2. CASE HopStep /\ UNCHANGED hubStateVars
  <2> PICK c \in Forwarded : Hop(c) \/ CallerLeaves(c)
    BY <1>2 DEF HopStep
  <2>1. /\ \A d \in Calls \ {c} : hop'[d] = hop[d] /\ final'[d] = final[d]
        /\ hop'[c] # "local" /\ (hop'[c] # "over" => UNCHANGED final /\ hop[c] # "over")
    BY DEF Hop, Forward, Misdirected, Served, AnswerOf, HopLost, LeftBehind, CallerLeaves,
           HopTo, HopEnds
  <2> QED BY <1>2, <2>1 DEF hubStateVars
<1>3. CASE UNCHANGED fwdVars
  BY <1>3 DEF fwdVars, vars, hopVars
<1> QED BY <1>1, <1>2, <1>3, StepCases

LEMMA CallEnds ==
  ASSUME TypeInv, OnceInv, WorkInv, OutcomeInv, NEW c \in Calls, Seen(c) = "none",
         UNCHANGED worked,
         \A d \in Calls \ {c} : Seen(d)' = Seen(d),
         Seen(c)' \in Results, Seen(c)' = "reply" => worked[c] > 0
  PROVE  [FwdRemote!Next]_(FwdRemote!callVars)
<1> DEFINE o == [d \in Calls |-> IF Seen(d) \in {"none", "reply"} THEN Seen(d) ELSE "error"]
<1>1. o[c] = "none"
  OBVIOUS
<1>2. \A d \in Calls \ {c} : o'[d] = o[d]
  OBVIOUS
<1>3. o'[c] \in {"none", "error"} \/ (o'[c] = "reply" /\ worked[c] = 1)
  BY DEF OnceInv
<1>4. o' = [o EXCEPT ![c] = o'[c]]
  BY <1>2
<1>5. CASE o'[c] = "none"
  BY <1>1, <1>4, <1>5 DEF FwdRemote!callVars
<1>6. CASE o'[c] # "none"
  BY <1>1, <1>3, <1>4, <1>6 DEF FwdRemote!Next, FwdRemote!Return
<1> QED BY <1>5, <1>6

LEMMA RemoteCallStep ==
  TypeInv /\ RoomInv /\ OnceInv /\ WorkInv /\ OutcomeInv /\ [FwdNext]_fwdVars
    => [FwdRemote!Next]_(FwdRemote!callVars)
<1> SUFFICES ASSUME TypeInv, RoomInv, OnceInv, WorkInv, OutcomeInv, [FwdNext]_fwdVars
             PROVE  [FwdRemote!Next]_(FwdRemote!callVars)
  OBVIOUS
<1>t. /\ result \in [Calls -> Results] /\ hop \in [Calls -> Hops]
      /\ final \in [Calls -> Results]
      /\ job \in [Calls -> JobStates] /\ worked \in [Calls -> Nat]
      /\ chan \in [Calls -> Calls \cup {None}]
  BY DEF TypeInv, TypeOK
<1>i. CASE UNCHANGED <<result, final, worked>>
  BY <1>i DEF FwdRemote!callVars, Seen
<1>1. CASE HubStep /\ UNCHANGED hopVars
  <2>1. ASSUME NEW c \in Calls, HubCall(c) PROVE [FwdRemote!Next]_(FwdRemote!callVars)
    <3>1. UNCHANGED worked /\ UNCHANGED final
      BY <1>1, <2>1 DEF HubCall, Choose, Await, Send, TakeReply, GiveUp, Forget,
                        agentVars, hopVars
    <3>2. CASE UNCHANGED result
      BY <1>i, <3>1, <3>2
    <3>3. CASE ~UNCHANGED result
      <4>1. /\ call[c] \in {"idle", "registered", "waiting"}
            /\ \A d \in Calls \ {c} : result'[d] = result[d]
            /\ result'[c] \in Results
            /\ result'[c] = "reply" => chan[c] # None
        BY <1>t, <2>1, <3>3 DEF HubCall, Choose, Await, Send, TakeReply, GiveUp, Forget, Results
      <4>2. result[c] = "none"
        BY <4>1 DEF OutcomeInv
      <4>3. result'[c] = "reply" => worked[c] > 0
        BY <4>1 DEF WorkInv, RoomInv
      <4>4. CASE c \in Forwarded
        <5>1. \A d \in Calls : Seen(d)' = Seen(d)
          BY <3>1, <4>1, <4>4 DEF Seen
        <5> QED BY <3>1, <5>1 DEF FwdRemote!callVars
      <4>5. CASE c \notin Forwarded
        <5>1. /\ Seen(c) = "none" /\ Seen(c)' = result'[c]
              /\ \A d \in Calls \ {c} : Seen(d)' = Seen(d)
          BY <3>1, <4>1, <4>2, <4>5 DEF Seen
        <5> QED BY <3>1, <4>1, <4>3, <5>1, CallEnds
      <4> QED BY <4>4, <4>5
    <3> QED BY <3>2, <3>3
  <2>2. ASSUME NEW c \in Calls, Work(c) PROVE [FwdRemote!Next]_(FwdRemote!callVars)
    <3>1. worked[c] = 0 /\ worked' = [worked EXCEPT ![c] = worked[c] + 1]
      BY <2>2 DEF Work, OnceInv
    <3>2. worked' = [worked EXCEPT ![c] = 1]
      BY <3>1
    <3>3. UNCHANGED <<result, final>>
      BY <1>1, <2>2 DEF Work, hubVars, hopVars
    <3> QED BY <3>1, <3>2, <3>3 DEF FwdRemote!Next, FwdRemote!Execute, Seen
  <2>3. ASSUME NEW c \in Calls, Cancel(c) \/ Reply(c) PROVE UNCHANGED <<result, final, worked>>
    BY <1>1, <2>3 DEF Cancel, Reply, hubVars, agentVars, hopVars
  <2>4. ASSUME NEW k \in Conns, Loop(k) PROVE UNCHANGED <<result, final, worked>>
    BY <1>1, <2>4 DEF Loop, Dispatch, Deliver, hubVars, agentVars, hopVars
  <2>5. ASSUME NEW k \in Conns, Connect(k) \/ Break(k) \/ HubNotices(k) \/ AgentReceive(k)
        PROVE  UNCHANGED <<result, final, worked>>
    BY <1>1, <2>5 DEF Connect, Break, HubNotices, AgentReceive, hubVars, agentVars, hopVars
  <2>6. AgentCrash => UNCHANGED <<result, final, worked>>
    BY <1>1 DEF AgentCrash, hubVars, hopVars
  <2> QED BY <1>1, <1>i, <2>1, <2>2, <2>3, <2>4, <2>5, <2>6 DEF HubStep, Job
<1>2. CASE HopStep /\ UNCHANGED hubStateVars
  <2> PICK c \in Forwarded : Hop(c) \/ CallerLeaves(c)
    BY <1>2 DEF HopStep
  <2>1. UNCHANGED <<result, worked>> /\ c \in Calls
    BY <1>2, ForwardedAssumption DEF hubStateVars
  <2>2. CASE UNCHANGED final
    BY <1>i, <2>1, <2>2
  <2>3. CASE ~UNCHANGED final
    <3>1. /\ hop[c] # "over"
          /\ \A d \in Calls \ {c} : final'[d] = final[d]
          /\ final'[c] \in {"notConnected", "sendError", "cancelled", result[c]}
      BY <1>t, <2>1, <2>3 DEF Hop, Forward, Misdirected, Served, AnswerOf, HopLost, LeftBehind,
                              CallerLeaves, HopTo, HopEnds
    <3>2. /\ Seen(c) = "none" /\ Seen(c)' = final'[c]
          /\ \A d \in Calls \ {c} : Seen(d)' = Seen(d)
      BY <2>1, <3>1 DEF Seen, OutcomeInv
    <3>3. final'[c] \in Results /\ (final'[c] = "reply" => worked[c] > 0)
      BY <1>t, <2>1, <3>1 DEF Results, WorkInv
    <3> QED BY <2>1, <3>2, <3>3, CallEnds
  <2> QED BY <2>2, <2>3
<1>3. CASE UNCHANGED fwdVars
  BY <1>i, <1>3 DEF fwdVars, vars, hopVars
<1> QED BY <1>1, <1>2, <1>3, StepCases

\* Every behaviour, of any number of calls over any number of sessions, some
\* of them forwarded, is one of RemoteCall: an agent carries a call out at
\* most once, and a reply is the outcome of that execution.
THEOREM ForwardingIsRemoteCall == FwdSpec => ForwardingImplementsRemoteCall
<1>1. FwdInit => FwdRemote!Init
  BY DEF FwdInit, Init, FwdRemote!Init, Seen
<1>2. FwdSpec => []OnceInv
  BY OnceInvInit, OnceInvStep, TableInvInit, TableInvStep, TypeCorrect, PTL DEF FwdSpec
<1>3. FwdSpec => []WorkInv
  BY WorkInvInit, WorkInvStep, RoomInvariant, TypeCorrect, PTL DEF FwdSpec
<1>4. FwdSpec => []OutcomeInv
  BY OutcomeInvInit, OutcomeInvStep, TypeCorrect, PTL DEF FwdSpec
<1> QED BY <1>1, <1>2, <1>3, <1>4, RemoteCallStep, RoomInvariant, TypeCorrect,
           PTL DEF FwdSpec, ForwardingImplementsRemoteCall, FwdRemote!Spec
=============================================================================
