--------------------------- MODULE ForwardedCalls ---------------------------
(***************************************************************************)
(* Calls made on a hub replica that does not hold the cluster's session:   *)
(* the replica looks the cluster up in the directory and forwards the call *)
(* to the replica named there (internal/transport peerFor, peerConn and    *)
(* internalServiceServer), where it is a call of AgentCalls.               *)
(*                                                                         *)
(* The replica asked serves only sessions of its own, so that a stale      *)
(* directory entry ends in an error, not in a chain of replicas.           *)
(***************************************************************************)
EXTENDS AgentCalls

CONSTANT Forwarded  \* the calls made elsewhere

ASSUME ForwardedAssumption == Forwarded \subseteq Calls

VARIABLES
  hop,    \* where each forwarded call is, seen from the replica it was made on
  final,  \* what that replica returns
  left    \* its caller's context is done

hopVars == <<hop, final, left>>
fwdVars == <<vars, hopVars>>

Hops == {"local", "start", "sent", "served", "over"}

FwdInit ==
  /\ Init
  /\ hop = [c \in Calls |-> IF c \in Forwarded THEN "start" ELSE "local"]
  /\ final = [c \in Calls |-> "none"]
  /\ left = [c \in Calls |-> FALSE]

HopTo(c, h) == hop' = [hop EXCEPT ![c] = h] /\ UNCHANGED <<final, left>>
HopEnds(c, r) == hop' = [hop EXCEPT ![c] = "over"] /\ final' = [final EXCEPT ![c] = r]
                 /\ UNCHANGED left

\* peerFor and the call on the peer's client: the directory fails, does not
\* know the cluster, or names a replica, rightly or not.
Forward(c) ==
  /\ hop[c] = "start"
  /\ HopTo(c, "sent") \/ HopEnds(c, "notConnected")
  /\ UNCHANGED vars

\* The request reaches a replica that has no session of the cluster.
Misdirected(c) ==
  /\ hop[c] = "sent"
  /\ HopEnds(c, "notConnected")
  /\ UNCHANGED vars

\* It reaches the one that may have: the rest is that replica's own call.
Served(c) ==
  /\ hop[c] = "sent"
  /\ HopTo(c, "served")
  /\ UNCHANGED vars

AnswerOf(c) ==
  /\ hop[c] = "served" /\ call[c] = "returned"
  /\ HopEnds(c, result[c])
  /\ UNCHANGED vars

\* The connection between the replicas is lost, before the answer or with it:
\* the replica that serves the call sees its context cancelled.
HopLost(c) ==
  /\ hop[c] \in {"sent", "served"}
  /\ HopEnds(c, "sendError")
  /\ ctxDone' = [ctxDone EXCEPT ![c] = hop[c] = "served"]
  /\ UNCHANGED <<call, conn, chan, result, tableVars, link, wireVars, agentVars>>

CallerLeaves(c) ==
  /\ hop[c] \in {"start", "sent", "served"} /\ ~left[c]
  /\ left' = [left EXCEPT ![c] = TRUE]
  /\ UNCHANGED <<vars, hop, final>>

NotPassedOn(c) == ctxDone                                 \* mutant of PassedOn
PassedOn(c) == [ctxDone EXCEPT ![c] = hop[c] = "served"]

\* The forwarding call returns its context's error at once, and the end of
\* the context travels to the replica that serves it.
LeftBehind(c) ==
  /\ left[c] /\ hop[c] \in {"start", "sent", "served"}
  /\ HopEnds(c, "cancelled")
  /\ ctxDone' = PassedOn(c)
  /\ UNCHANGED <<call, conn, chan, result, tableVars, link, wireVars, agentVars>>

\* A forwarded call is made on the other replica once it has arrived there,
\* whether or not anybody still waits for it.
Arrived(c) == c \in Forwarded => hop[c] = "served" \/ ctxDone[c]
Serve(c) == HubCall(c) /\ Arrived(c) /\ UNCHANGED hopVars
OwnCancel(c) == c \notin Forwarded /\ Cancel(c) /\ UNCHANGED hopVars
AgentJob(c) == Job(c) /\ UNCHANGED hopVars
HubLoop(k) == Loop(k) /\ UNCHANGED hopVars
Receive(k) == AgentReceive(k) /\ UNCHANGED hopVars
Notices(k) == HubNotices(k) /\ UNCHANGED hopVars
Session(k) == (Connect(k) \/ Break(k) \/ AgentCrash) /\ UNCHANGED hopVars

Hop(c) == Forward(c) \/ Misdirected(c) \/ Served(c) \/ AnswerOf(c) \/ HopLost(c)
          \/ LeftBehind(c)

FwdNext ==
  \/ \E c \in Calls : Serve(c) \/ OwnCancel(c) \/ AgentJob(c)
  \/ \E k \in Conns : Session(k) \/ Notices(k) \/ HubLoop(k) \/ Receive(k)
  \/ \E c \in Forwarded : Hop(c) \/ CallerLeaves(c)

\* As in AgentCalls; and the network between the replicas delivers or fails.
FwdFairness ==
  /\ \A c \in Calls : WF_fwdVars(Serve(c)) /\ WF_fwdVars(AgentJob(c))
  /\ \A k \in Conns : WF_fwdVars(HubLoop(k)) /\ WF_fwdVars(Receive(k)) /\ WF_fwdVars(Notices(k))
  /\ \A c \in Forwarded : WF_fwdVars(Hop(c))

FwdSpec == FwdInit /\ [][FwdNext]_fwdVars /\ FwdFairness

-----------------------------------------------------------------------------
(* Properties.                                                             *)

\* What the tools see of a call, whichever replica it is made on.
Seen(c) == IF c \in Forwarded THEN final[c] ELSE result[c]

FwdRemote == INSTANCE RemoteCall WITH
  outcome <- [c \in Calls |-> IF Seen(c) \in {"none", "reply"} THEN Seen(c) ELSE "error"],
  executed <- worked

\* A call forwarded to another replica, over a connection that may be lost
\* and with a directory that may name the wrong one, is still a remote call:
\* executed at most once, and answered with its own execution or an error.
ForwardingImplementsRemoteCall == FwdRemote!Spec

OverHere(c) == hop[c] \in {"local", "over"}
NeverServed(c) == c \in Forwarded /\ call[c] = "idle" /\ ~ctxDone[c]

\* "blocking until it replies or ctx is done", on both replicas: once the
\* caller's context is done the call returns where it was made, and nothing
\* waits for its answer where it was served.
CancelledCallEnds ==
  \A c \in Calls :
    left[c] \/ ctxDone[c] ~> OverHere(c) /\ (call[c] = "returned" \/ NeverServed(c))
=============================================================================
