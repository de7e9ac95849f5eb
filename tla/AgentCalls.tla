---------------------------- MODULE AgentCalls ----------------------------
(***************************************************************************)
(* Calls from the hub to one cluster's agent over the agent's session      *)
(* stream: internal/transport/server.go on the hub, client.go on the       *)
(* agent.                                                                  *)
(*                                                                         *)
(* On the hub each call is a goroutine (diagnoseLocal, executeLocal, ...): *)
(* it takes the connection found under the cluster id, puts a channel in   *)
(* the connection's pending table, sends the request and waits for the     *)
(* channel or for its context.  The session's receive loop dispatches      *)
(* replies to pending channels by request id.  On the agent the receive    *)
(* loop starts a goroutine per request, which replies when its work is     *)
(* done on the stream the request came from.  A request id is the call     *)
(* itself: newRequestID draws 64 random bits.  ForwardedCalls puts the     *)
(* steps together.                                                         *)
(***************************************************************************)
EXTENDS Integers, Sequences, FiniteSets

CONSTANTS
  Calls,      \* calls made (a bound)
  Conns,      \* sessions the agent opens, one after the other (a bound)
  None,       \* a value that is neither
  MaxCrashes  \* crashes of the agent process (a bound)

ASSUME NoneAssumption == None \notin Calls \cup Conns
ASSUME BoundAssumption == MaxCrashes \in Nat

VARIABLES
  call,         \* where each call's goroutine is
  conn,         \* the agentConn it uses
  ctxDone,      \* its context is cancelled or past its deadline
  chan,         \* the reply in its channel
  result,       \* what it returns
  pending,      \* agentConn.pending: the calls whose channel is in the table
  dispatching,  \* the reply whose channel the receive loop has looked up
  link,         \* state of each session's stream
  toAgent,      \* requests on the stream
  toHub,        \* replies on the stream
  job,          \* the agent's goroutine for each call
  worked,       \* how often the agent has carried each call out
  crashes

hubVars   == <<call, conn, ctxDone, chan, result>>
tableVars == <<pending, dispatching>>
wireVars  == <<toAgent, toHub>>
agentVars == <<job, worked, crashes>>
vars == <<call, conn, ctxDone, chan, result, pending, dispatching, link,
          toAgent, toHub, job, worked, crashes>>

CallStates == {"idle", "chosen", "registered", "waiting", "leaving", "returned"}
Results == {"none", "reply", "notConnected", "sendError", "cancelled"}
\* "broken": dead, but the hub's handler has not noticed.
LinkStates == {"new", "up", "broken", "closed"}
JobStates == {"none", "running", "replying", "over"}

Init ==
  /\ call = [c \in Calls |-> "idle"]
  /\ conn = [c \in Calls |-> None]
  /\ ctxDone = [c \in Calls |-> FALSE]
  /\ chan = [c \in Calls |-> None]
  /\ result = [c \in Calls |-> "none"]
  /\ pending = [k \in Conns |-> {}]
  /\ dispatching = [k \in Conns |-> None]
  /\ link = [k \in Conns |-> "new"]
  /\ toAgent = [k \in Conns |-> <<>>]
  /\ toHub = [k \in Conns |-> <<>>]
  /\ job = [c \in Calls |-> "none"]
  /\ worked = [c \in Calls |-> 0]
  /\ crashes = 0

-----------------------------------------------------------------------------
(* The session stream.                                                     *)

\* The hub's map holds the session until its handler has returned.
InMap(k) == link[k] \in {"up", "broken"}

\* The agent (re)connects once its previous session is gone.
Connect(k) ==
  /\ link[k] = "new"
  /\ ~ \E m \in Conns : InMap(m)
  /\ link' = [link EXCEPT ![k] = "up"]
  /\ UNCHANGED <<hubVars, tableVars, wireVars, agentVars>>

Break(k) ==
  /\ link[k] = "up"
  /\ link' = [link EXCEPT ![k] = "broken"]
  /\ UNCHANGED <<hubVars, tableVars, wireVars, agentVars>>

\* The hub's Recv fails: the handler unregisters the session and returns.
\* Nobody tells the calls waiting on it.
HubNotices(k) ==
  /\ link[k] = "broken" /\ dispatching[k] = None
  /\ link' = [link EXCEPT ![k] = "closed"]
  /\ UNCHANGED <<hubVars, tableVars, wireVars, agentVars>>

-----------------------------------------------------------------------------
(* A call on the hub.                                                      *)

\* The connection under the cluster id, or an error at once.
Choose(c) ==
  /\ call[c] = "idle"
  /\ \/ \E k \in Conns :
          /\ InMap(k)
          /\ conn' = [conn EXCEPT ![c] = k]
          /\ call' = [call EXCEPT ![c] = "chosen"]
          /\ UNCHANGED result
     \/ /\ ~ \E k \in Conns : InMap(k)
        /\ call' = [call EXCEPT ![c] = "returned"]
        /\ result' = [result EXCEPT ![c] = "notConnected"]
        /\ UNCHANGED conn
  /\ UNCHANGED <<ctxDone, chan, tableVars, link, wireVars, agentVars>>

TableUnchanged(c) == pending                              \* mutant of TableWith
TableWith(c) == [pending EXCEPT ![conn[c]] = @ \cup {c}]

Await(c) ==
  /\ call[c] = "chosen"
  /\ pending' = TableWith(c)
  /\ call' = [call EXCEPT ![c] = "registered"]
  /\ UNCHANGED <<conn, ctxDone, chan, result, dispatching, link, wireVars, agentVars>>

\* Send may still succeed on a broken stream.
Send(c) ==
  /\ call[c] = "registered"
  /\ \/ /\ link[conn[c]] \in {"up", "broken"}
        /\ toAgent' = [toAgent EXCEPT ![conn[c]] = Append(@, c)]
        /\ call' = [call EXCEPT ![c] = "waiting"]
        /\ UNCHANGED result
     \/ /\ link[conn[c]] \in {"broken", "closed"}
        /\ call' = [call EXCEPT ![c] = "leaving"]
        /\ result' = [result EXCEPT ![c] = "sendError"]
        /\ UNCHANGED toAgent
  /\ UNCHANGED <<conn, ctxDone, chan, tableVars, link, toHub, agentVars>>

\* The two cases of the select.
TakeReply(c) ==
  /\ call[c] = "waiting" /\ chan[c] # None
  /\ chan' = [chan EXCEPT ![c] = None]
  /\ result' = [result EXCEPT ![c] = "reply"]
  /\ call' = [call EXCEPT ![c] = "leaving"]
  /\ UNCHANGED <<conn, ctxDone, tableVars, link, wireVars, agentVars>>

GiveUp(c) ==
  /\ call[c] = "waiting" /\ ctxDone[c]
  /\ result' = [result EXCEPT ![c] = "cancelled"]
  /\ call' = [call EXCEPT ![c] = "leaving"]
  /\ UNCHANGED <<conn, ctxDone, chan, tableVars, link, wireVars, agentVars>>

TableKept(c) == pending                                \* mutant of TableWithout
TableWithout(c) == [pending EXCEPT ![conn[c]] = @ \ {c}]

\* The deferred forget.
Forget(c) ==
  /\ call[c] = "leaving"
  /\ pending' = TableWithout(c)
  /\ call' = [call EXCEPT ![c] = "returned"]
  /\ UNCHANGED <<conn, ctxDone, chan, result, dispatching, link, wireVars, agentVars>>

\* The caller's context ends: a deadline, or the client went away.
Cancel(c) ==
  /\ ~ctxDone[c] /\ call[c] \in {"chosen", "registered", "waiting"}
  /\ ctxDone' = [ctxDone EXCEPT ![c] = TRUE]
  /\ UNCHANGED <<call, conn, chan, result, tableVars, link, wireVars, agentVars>>

-----------------------------------------------------------------------------
(* The session's receive loop on the hub.                                  *)

\* mutant of Addressee: the call that has waited longest is taken to be meant
AnyPending(k, m) == IF pending[k] = {} THEN None ELSE CHOOSE c \in pending[k] : TRUE
Addressee(k, m) == IF m \in pending[k] THEN m ELSE None

\* The loop goes on to send only if a channel was found.
Held(c, m) == IF c = None THEN None ELSE [to |-> c, reply |-> m]

\* dispatch, up to the unlock: the channel leaves the table.
Dispatch(k) ==
  /\ InMap(k) /\ dispatching[k] = None /\ toHub[k] # <<>>
  /\ LET c == Addressee(k, Head(toHub[k])) IN
       /\ dispatching' = [dispatching EXCEPT ![k] = Held(c, Head(toHub[k]))]
       /\ pending' = [pending EXCEPT ![k] = @ \ {c}]
  /\ toHub' = [toHub EXCEPT ![k] = Tail(@)]
  /\ UNCHANGED <<hubVars, link, toAgent, agentVars>>

\* mutant of HasRoom: an unbuffered channel needs its reader
ReaderReady(c) == call[c] = "waiting" /\ chan[c] = None
HasRoom(c) == chan[c] = None

\* ch <- msg, outside the lock: the loop is stuck here while there is no room.
Deliver(k) ==
  /\ dispatching[k] # None /\ HasRoom(dispatching[k].to)
  /\ chan' = [chan EXCEPT ![dispatching[k].to] = dispatching[k].reply]
  /\ dispatching' = [dispatching EXCEPT ![k] = None]
  /\ UNCHANGED <<call, conn, ctxDone, result, pending, link, wireVars, agentVars>>

-----------------------------------------------------------------------------
(* The agent.                                                              *)

\* runOnce's receive loop starts a goroutine for the request.
AgentReceive(k) ==
  /\ link[k] \in {"up", "broken"} /\ toAgent[k] # <<>>
  /\ toAgent' = [toAgent EXCEPT ![k] = Tail(@)]
  /\ job' = [job EXCEPT ![Head(toAgent[k])] = "running"]
  /\ UNCHANGED <<hubVars, tableVars, link, toHub, worked, crashes>>

\* The handler's work.  Its context is the client's, not the session's: a
\* session that breaks does not stop it.
Work(c) ==
  /\ job[c] = "running"
  /\ worked' = [worked EXCEPT ![c] = @ + 1]
  /\ job' = [job EXCEPT ![c] = "replying"]
  /\ UNCHANGED <<hubVars, tableVars, link, wireVars, crashes>>

RetryOnFailure(c) == IF link[conn[c]] = "up" THEN "over" ELSE "running"  \* mutant of AfterReply
AfterReply(c) == "over"

\* The reply goes to the stream the request came from; if that is gone the
\* error is logged and the reply lost.
Reply(c) ==
  /\ job[c] = "replying"
  /\ job' = [job EXCEPT ![c] = AfterReply(c)]
  /\ toHub' = IF link[conn[c]] = "up"
              THEN [toHub EXCEPT ![conn[c]] = Append(@, c)] ELSE toHub
  /\ UNCHANGED <<hubVars, tableVars, link, toAgent, worked, crashes>>

\* The process dies with every goroutine in it.
AgentCrash ==
  /\ crashes < MaxCrashes
  /\ \E c \in Calls : job[c] \in {"running", "replying"}
  /\ crashes' = crashes + 1
  /\ job' = [c \in Calls |-> IF job[c] \in {"running", "replying"} THEN "over" ELSE job[c]]
  /\ link' = [k \in Conns |-> IF link[k] = "up" THEN "broken" ELSE link[k]]
  /\ toAgent' = [k \in Conns |-> <<>>]
  /\ UNCHANGED <<hubVars, tableVars, toHub, worked>>

HubCall(c) == Choose(c) \/ Await(c) \/ Send(c) \/ TakeReply(c) \/ GiveUp(c) \/ Forget(c)
Loop(k)    == Dispatch(k) \/ Deliver(k)
Job(c)     == Work(c) \/ Reply(c)

-----------------------------------------------------------------------------
(* Properties.                                                             *)

TypeOK ==
  /\ call \in [Calls -> CallStates]
  /\ conn \in [Calls -> Conns \cup {None}]
  /\ ctxDone \in [Calls -> BOOLEAN]
  /\ chan \in [Calls -> Calls \cup {None}]
  /\ result \in [Calls -> Results]
  /\ pending \in [Conns -> SUBSET Calls]
  /\ dispatching \in [Conns -> {None} \cup [to : Calls, reply : Calls]]
  /\ link \in [Conns -> LinkStates]
  /\ toAgent \in [Conns -> Seq(Calls)]
  /\ toHub \in [Conns -> Seq(Calls)]
  /\ job \in [Calls -> JobStates]
  /\ worked \in [Calls -> Nat]
  /\ crashes \in 0..MaxCrashes

\* A pending table holds only calls still under way on that connection: no
\* order of reply, timeout and broken stream leaks an entry (await, forget).
PendingIsLive ==
  \A k \in Conns : \A c \in pending[k] :
    conn[c] = k /\ call[c] \in {"registered", "waiting", "leaving"}

\* A call is only ever handed the reply to its own request, and only after
\* the agent has done the work, whatever order the replies come in (dispatch).
ReplyIsOwn ==
  \A c \in Calls : /\ chan[c] \in {None, c}
                   /\ chan[c] = c \/ result[c] = "reply" => worked[c] > 0

\* The receive loop, holding a reply for a call that may have given up in the
\* meantime, never blocks on its channel: one call cannot stall the session.
DispatchHasRoom ==
  \A k \in Conns : dispatching[k] # None => HasRoom(dispatching[k].to)

OnLiveSession(c) == \E k \in Conns : conn[c] = k /\ link[k] = "up"

\* A call waiting on a session that stays up is answered without its context
\* having to end.
LiveSessionAnswers ==
  \A c \in Calls :
    call[c] = "waiting" ~> call[c] = "returned" \/ ~OnLiveSession(c)
=============================================================================
