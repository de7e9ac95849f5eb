---------------------------- MODULE HubSessions ----------------------------
(***************************************************************************)
(* The hub's side of agent sessions (internal/transport/server.go) and the *)
(* fleet directory the replicas share (internal/registry).                 *)
(*                                                                         *)
(* Each replica runs one handler goroutine per agent stream: it enters the *)
(* session in the replica's own map, announces the cluster in the          *)
(* directory, starts a heartbeat goroutine, and serves until the stream    *)
(* breaks, when a deferred call undoes all three.  The steps of different  *)
(* handlers interleave freely: each lock region and each directory call is *)
(* an action of its own.                                                   *)
(*                                                                         *)
(* Time is counted in heartbeat intervals.  Tick passes one interval: the  *)
(* directory's records lose one interval of their TTL and every heartbeat  *)
(* loop has a tick to take.                                                *)
(***************************************************************************)
EXTENDS Integers, FiniteSets

CONSTANTS
  Replicas,            \* hub-server processes
  Clusters,            \* cluster ids
  Sessions,            \* streams agents may ever open (a bound)
  None,                \* a value that is no session, replica or cluster
  TTL,                 \* life of a directory record, in heartbeat intervals
  Fleets,              \* deployments looked at (see Fleet)
  MaxErrors,           \* failed directory calls (a bound)
  MaxCrashes           \* replica crashes (a bound)

ASSUME NoneAssumption == None \notin Sessions \cup Replicas \cup Clusters
ASSUME TTLAssumption == TTL \in Nat /\ TTL >= 2

\* How the hub is deployed: the replicas run, whether they share a directory
\* (--redis-addr), and whether an agent may open a stream on a replica that
\* has not yet seen the end of an earlier one.  A replica without a directory
\* is alone.
Fleet == [replicas : SUBSET Replicas, registry : BOOLEAN, overlap : BOOLEAN]

ASSUME FleetAssumption ==
  /\ Fleets \subseteq Fleet
  /\ \A f \in Fleets : ~f.registry => \A r, q \in f.replicas : r = q
ASSUME BoundAssumption == MaxErrors \in Nat /\ MaxCrashes \in Nat

VARIABLES
  fleet,      \* the deployment, fixed at start
  phase,      \* where session s's handler goroutine is
  replica,    \* the replica that accepted s
  cluster,    \* the cluster_id of s's Hello
  broken,     \* s's stream is dead, whether or not the handler knows
  hasStop,    \* agentConn.stopHeartbeat is set
  cancelled,  \* ... and has been called
  beat,       \* where s's heartbeat goroutine is
  found,      \* the connection unregister found under its cluster id
  agents,     \* Server.agents of every replica
  record,     \* the directory: cluster id -> replica address
  left,       \* intervals until that record expires
  errors, crashes

origin   == <<fleet, replica, cluster>>
beatVars == <<hasStop, cancelled, beat>>
dirVars  == <<record, left>>
bounds   == <<errors, crashes>>
vars == <<fleet, phase, replica, cluster, broken, hasStop, cancelled, beat,
          found, agents, record, left, errors, crashes>>

Phases == {"new", "hello", "registered", "announcing", "serving", "ending",
           "stopping", "forgetting", "done"}
BeatStates == {"off", "idle", "due", "calling"}

Init ==
  /\ fleet \in Fleets
  /\ phase = [s \in Sessions |-> "new"]
  /\ replica = [s \in Sessions |-> None]
  /\ cluster = [s \in Sessions |-> None]
  /\ broken = [s \in Sessions |-> FALSE]
  /\ hasStop = [s \in Sessions |-> FALSE]
  /\ cancelled = [s \in Sessions |-> FALSE]
  /\ beat = [s \in Sessions |-> "off"]
  /\ found = [s \in Sessions |-> None]
  /\ agents = [r \in Replicas |-> [c \in Clusters |-> None]]
  /\ record = [c \in Clusters |-> None]
  /\ left = [c \in Clusters |-> 0]
  /\ errors = 0
  /\ crashes = 0

-----------------------------------------------------------------------------
(* The directory.  A call either takes effect or returns an error, which   *)
(* the callers only log.                                                   *)

LeaseTooShort == TTL - 1                                  \* mutant of Lease
Lease == TTL

\* SET with the TTL.
Announce(c, r) ==
  /\ record' = [record EXCEPT ![c] = r]
  /\ left' = [left EXCEPT ![c] = Lease]
  /\ UNCHANGED errors

\* Heartbeat is Announce: it creates the record when there is none.
RefreshExisting(c, r) ==                                  \* mutant of Refresh
  /\ left' = IF record[c] = r THEN [left EXCEPT ![c] = Lease] ELSE left
  /\ UNCHANGED <<record, errors>>
Refresh(c, r) == Announce(c, r)

\* DEL, whatever address the record holds.
Forget(c) ==
  /\ record' = [record EXCEPT ![c] = None]
  /\ left' = [left EXCEPT ![c] = 0]
  /\ UNCHANGED errors

CallFails ==
  /\ errors < MaxErrors
  /\ errors' = errors + 1
  /\ UNCHANGED dirVars

\* A call made with a context that was cancelled under it.
CallCancelled(s) ==
  /\ cancelled[s]
  /\ UNCHANGED <<record, left, errors>>

-----------------------------------------------------------------------------
(* Session: the handler of one stream.                                     *)

IsOpen(s) == phase[s] \notin {"new", "done"}

\* The first message on a new stream is a Hello naming the cluster.  The
\* stream belongs to an agent that reconnects or to a second agent process.
Open(s, r, c) ==
  /\ phase[s] = "new"
  /\ r \in fleet.replicas
  /\ fleet.overlap \/ ~ \E t \in Sessions :
        IsOpen(t) /\ replica[t] = r /\ cluster[t] = c
  /\ phase' = [phase EXCEPT ![s] = "hello"]
  /\ replica' = [replica EXCEPT ![s] = r]
  /\ cluster' = [cluster EXCEPT ![s] = c]
  /\ UNCHANGED <<fleet, broken, beatVars, found, agents, dirVars, bounds>>

\* register, up to the unlock.
RegisterLocal(s) ==
  /\ phase[s] = "hello"
  /\ agents' = [agents EXCEPT ![replica[s]][cluster[s]] = s]
  /\ phase' = [phase EXCEPT ![s] =
                IF fleet.registry THEN "registered" ELSE "serving"]
  /\ UNCHANGED <<origin, broken, beatVars, found, dirVars, bounds>>

\* c.stopHeartbeat = cancel, written without the lock; then Announce is called.
SetStop(s) ==
  /\ phase[s] = "registered"
  /\ hasStop' = [hasStop EXCEPT ![s] = TRUE]
  /\ phase' = [phase EXCEPT ![s] = "announcing"]
  /\ UNCHANGED <<origin, broken, cancelled, beat, found, agents, dirVars,
                 bounds>>

\* Announce returns; whatever it returned, the heartbeat goroutine starts.
Announced(s) ==
  /\ phase[s] = "announcing"
  /\ Announce(cluster[s], replica[s]) \/ CallFails \/ CallCancelled(s)
  /\ phase' = [phase EXCEPT ![s] = "serving"]
  /\ beat' = [beat EXCEPT ![s] = "idle"]
  /\ UNCHANGED <<origin, broken, hasStop, cancelled, found, agents, crashes>>

\* The connection dies; neither end need know yet.
Break(s) ==
  /\ IsOpen(s) /\ ~broken[s]
  /\ broken' = [broken EXCEPT ![s] = TRUE]
  /\ UNCHANGED <<origin, phase, beatVars, found, agents, dirVars, bounds>>

\* Recv fails and the deferred unregister is about to run.
Notice(s) ==
  /\ phase[s] = "serving" /\ broken[s]
  /\ phase' = [phase EXCEPT ![s] = "ending"]
  /\ UNCHANGED <<origin, broken, beatVars, found, agents, dirVars, bounds>>

EntryKept(s) == agents                             \* mutant of EntryDeleted
EntryDeleted(s) == [agents EXCEPT ![replica[s]][cluster[s]] = None]

\* unregister, up to the unlock: whatever connection is under the id goes.
UnregisterLocal(s) ==
  /\ phase[s] = "ending"
  /\ found' = [found EXCEPT ![s] = agents[replica[s]][cluster[s]]]
  /\ agents' = EntryDeleted(s)
  /\ phase' = [phase EXCEPT ![s] = "stopping"]
  /\ UNCHANGED <<origin, broken, beatVars, dirVars, bounds>>

NeverStopped(s) == cancelled                          \* mutant of Stopped
\* The heartbeat stopped is that of the connection found.
Stopped(s) == IF found[s] # None /\ hasStop[found[s]]
              THEN [cancelled EXCEPT ![found[s]] = TRUE] ELSE cancelled

StopHeartbeat(s) ==
  /\ phase[s] = "stopping"
  /\ cancelled' = Stopped(s)
  /\ phase' = [phase EXCEPT ![s] =
                IF fleet.registry THEN "forgetting" ELSE "done"]
  /\ UNCHANGED <<origin, broken, hasStop, beat, found, agents, dirVars,
                 bounds>>

\* Registry.Forget returns and the handler with it.
Forgotten(s) ==
  /\ phase[s] = "forgetting"
  /\ Forget(cluster[s]) \/ CallFails
  /\ phase' = [phase EXCEPT ![s] = "done"]
  /\ UNCHANGED <<origin, broken, beatVars, found, agents, crashes>>

-----------------------------------------------------------------------------
(* heartbeatLoop.  Both cases of its select may be ready at once.          *)

HeartbeatFires(s) ==
  /\ beat[s] = "due"
  /\ beat' = [beat EXCEPT ![s] = "calling"]
  /\ UNCHANGED <<origin, phase, broken, hasStop, cancelled, found, agents,
                 dirVars, bounds>>

HeartbeatReturns(s) ==
  /\ beat[s] = "calling"
  /\ Refresh(cluster[s], replica[s]) \/ CallFails \/ CallCancelled(s)
  /\ beat' = [beat EXCEPT ![s] = "idle"]
  /\ UNCHANGED <<origin, phase, broken, hasStop, cancelled, found, agents,
                 crashes>>

HeartbeatEnds(s) ==
  /\ beat[s] \in {"idle", "due"} /\ cancelled[s]
  /\ beat' = [beat EXCEPT ![s] = "off"]
  /\ UNCHANGED <<origin, phase, broken, hasStop, cancelled, found, agents,
                 dirVars, bounds>>

-----------------------------------------------------------------------------
(* Time and failures.                                                      *)

Unfloored(c) == left[c] - 1                            \* mutant of OneLess
OneLess(c) == IF left[c] > 0 THEN left[c] - 1 ELSE 0

\* One heartbeat interval passes.  A loop takes its tick and gets an answer
\* from the directory within the interval.
Tick ==
  /\ \A s \in Sessions : beat[s] \in {"off", "idle"}
  /\ beat' = [s \in Sessions |-> IF beat[s] = "idle" THEN "due" ELSE "off"]
  /\ left' = [c \in Clusters |-> OneLess(c)]
  /\ record' = [c \in Clusters |-> IF left[c] > 1 THEN record[c] ELSE None]
  /\ UNCHANGED <<origin, phase, broken, hasStop, cancelled, found, agents,
                 bounds>>

\* The process dies with its sessions, its map and its goroutines, and is
\* restarted under the same address.
Crash(r) ==
  /\ crashes < MaxCrashes
  /\ crashes' = crashes + 1
  /\ \E s \in Sessions : IsOpen(s) /\ replica[s] = r
  /\ phase' = [s \in Sessions |->
                 IF IsOpen(s) /\ replica[s] = r THEN "done" ELSE phase[s]]
  /\ beat' = [s \in Sessions |-> IF replica[s] = r THEN "off" ELSE beat[s]]
  /\ agents' = [agents EXCEPT ![r] = [c \in Clusters |-> None]]
  /\ UNCHANGED <<origin, broken, hasStop, cancelled, found, dirVars, errors>>

Handler(s) == RegisterLocal(s) \/ SetStop(s) \/ Announced(s) \/ Notice(s)
              \/ UnregisterLocal(s) \/ StopHeartbeat(s) \/ Forgotten(s)
Heartbeat(s) == HeartbeatFires(s) \/ HeartbeatReturns(s) \/ HeartbeatEnds(s)

Next ==
  \/ \E s \in Sessions, r \in Replicas, c \in Clusters : Open(s, r, c)
  \/ \E s \in Sessions : Handler(s) \/ Break(s) \/ Heartbeat(s)
  \/ Tick
  \/ \E r \in Replicas : Crash(r)

\* Goroutines are scheduled, calls return, the transport reports a dead
\* connection, the clock advances, and a loop whose context is cancelled does
\* not take the other case of its select for ever.
Fairness ==
  /\ \A s \in Sessions : WF_vars(Handler(s)) /\ WF_vars(Heartbeat(s))
  /\ \A s \in Sessions : SF_vars(HeartbeatEnds(s))
  /\ WF_vars(Tick)

Spec == Init /\ [][Next]_vars /\ Fairness

-----------------------------------------------------------------------------
(* Routing a request for cluster c received by replica r.                  *)

\* The replica holding c according to the directory.
Lookup(c) == record[c]

\* mutant of Route: asks the directory only
RouteByDirectory(r, c) ==
  IF fleet.registry /\ Lookup(c) # None THEN agents[Lookup(c)][c] ELSE None

\* The session that serves the request, or None for ErrClusterNotConnected:
\* this replica's own, else that of the one peer the directory names.
Route(r, c) ==
  IF agents[r][c] # None THEN agents[r][c]
  ELSE IF fleet.registry /\ Lookup(c) # None THEN agents[Lookup(c)][c]
  ELSE None

\* The ids list_clusters reports on r.
ConnectedClusters(r) ==
  {c \in Clusters :
     IF fleet.registry THEN Lookup(c) # None ELSE agents[r][c] # None}

-----------------------------------------------------------------------------
(* Properties.                                                             *)

TypeOK ==
  /\ fleet \in Fleets
  /\ phase \in [Sessions -> Phases]
  /\ replica \in [Sessions -> Replicas \cup {None}]
  /\ cluster \in [Sessions -> Clusters \cup {None}]
  /\ broken \in [Sessions -> BOOLEAN]
  /\ hasStop \in [Sessions -> BOOLEAN]
  /\ cancelled \in [Sessions -> BOOLEAN]
  /\ beat \in [Sessions -> BeatStates]
  /\ found \in [Sessions -> Sessions \cup {None}]
  /\ agents \in [Replicas -> [Clusters -> Sessions \cup {None}]]
  /\ record \in [Clusters -> Replicas \cup {None}]
  /\ left \in [Clusters -> 0..TTL]
  /\ errors \in 0..MaxErrors
  /\ crashes \in 0..MaxCrashes

\* A replica's map never holds a session whose handler has returned or has
\* not registered, nor one of another replica or cluster: a request is never
\* queued on a connection that nobody receives from (Session, unregister).
NoStaleEntry ==
  \A r \in Replicas, c \in Clusters : agents[r][c] # None =>
    LET s == agents[r][c] IN
      /\ replica[s] = r /\ cluster[s] = c
      /\ phase[s] \in {"registered", "announcing", "serving", "ending"}

\* While streams of one cluster never overlap on a replica, a heartbeat loop
\* that nobody has cancelled belongs to a session still in that replica's
\* map, or whose own handler is about to cancel it (register, unregister).
HeartbeatOwned ==
  ~fleet.overlap =>
    \A s \in Sessions : (beat[s] # "off" /\ ~cancelled[s]) =>
      \/ agents[replica[s]][cluster[s]] = s
      \/ phase[s] = "stopping" /\ found[s] = s

\* Time never removes the record of a cluster's one session while its loop
\* runs and at most TTL - 2 directory calls failed: with 30s of TTL and a 10s
\* interval one missed heartbeat is free (heartbeatLoop).
LeaseSurvivesMisses ==
  [][\A s \in Sessions :
       /\ Tick /\ beat[s] = "idle" /\ ~cancelled[s] /\ errors <= TTL - 2
       /\ record[cluster[s]] = replica[s]
       /\ \A t \in Sessions \ {s} : cluster[t] # cluster[s]
       => record'[cluster[s]] = replica[s]]_vars

Serving(s) == phase[s] = "serving" /\ ~broken[s]
HasLiveSession(c) == \E s \in Sessions : cluster[s] = c /\ Serving(s)

\* "ErrClusterNotConnected is returned ... when no agent for the requested
\* cluster currently has a live session anywhere in the fleet": a cluster that
\* keeps a live session is, from some time on, reached through every replica.
LiveClusterIsReachable ==
  \A c \in Clusters :
    <>[]HasLiveSession(c) =>
      <>[](\A r \in fleet.replicas : Route(r, c) # None /\ Serving(Route(r, c)))

\* "self-heals within one TTL window instead of leaving a stale record
\* forever": once a cluster has no session anywhere, whether by a disconnect
\* or by a crash that skipped Forget, every replica stops listing it.
GoneClusterIsDelisted ==
  \A c \in Clusters :
    <>[](\A s \in Sessions : cluster[s] = c => ~IsOpen(s)) =>
      <>[](\A r \in fleet.replicas : c \notin ConnectedClusters(r))
=============================================================================
