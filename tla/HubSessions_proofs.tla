------------------------ MODULE HubSessions_proofs ------------------------
(***************************************************************************)
(* Proofs about the hub's sessions and the fleet directory, for any number *)
(* of replicas, clusters and streams and any lease: type correctness, the  *)
(* soundness of every replica's session map, the ownership of heartbeat    *)
(* loops, and the lease that outlives missed heartbeats.                   *)
(***************************************************************************)
EXTENDS MCTickers, TLAPS

(***************************************************************************)
(* Type correctness.                                                       *)
(***************************************************************************)

\* TypeOK is not inductive: a handler uses the replica and the cluster of its
\* session, and a heartbeat loop those of the session that started it.
TypeInv ==
  /\ TypeOK
  /\ \A s \in Sessions : phase[s] # "new" => /\ replica[s] \in Replicas
                                             /\ cluster[s] \in Clusters
  /\ \A s \in Sessions : beat[s] # "off" => phase[s] # "new"

LEMMA FleetTyping ==
  ASSUME fleet \in Fleets
  PROVE  /\ fleet.replicas \subseteq Replicas
         /\ fleet.registry \in BOOLEAN /\ fleet.overlap \in BOOLEAN
  BY FleetAssumption DEF Fleet

LEMMA LeaseTyping == Lease \in 0..TTL /\ TTL \in Nat
  BY TTLAssumption DEF Lease

\* A directory call leaves the directory and the error count well typed.
LEMMA CallTyping ==
  ASSUME TypeOK, NEW c \in Clusters, NEW r \in Replicas, NEW s \in Sessions,
         Announce(c, r) \/ Forget(c) \/ CallFails \/ CallCancelled(s)
  PROVE  /\ record' \in [Clusters -> Replicas \cup {None}]
         /\ left' \in [Clusters -> 0..TTL]
         /\ errors' \in 0..MaxErrors
<1>t. /\ record \in [Clusters -> Replicas \cup {None}]
      /\ left \in [Clusters -> 0..TTL] /\ errors \in 0..MaxErrors
      /\ MaxErrors \in Nat
  BY BoundAssumption DEF TypeOK
<1>1. CASE Announce(c, r)
  BY <1>1, <1>t, LeaseTyping DEF Announce
<1>2. CASE Forget(c)
  BY <1>2, <1>t, LeaseTyping DEF Forget
<1>3. CASE CallFails
  BY <1>3, <1>t DEF CallFails, dirVars
<1>4. CASE CallCancelled(s)
  BY <1>4, <1>t DEF CallCancelled
<1> QED BY <1>1, <1>2, <1>3, <1>4

LEMMA TypeInvInit == Init => TypeInv
<1> SUFFICES ASSUME Init PROVE TypeInv
  OBVIOUS
<1>1. 0 \in 0..TTL /\ 0 \in 0..MaxErrors /\ 0 \in 0..MaxCrashes
  BY TTLAssumption, BoundAssumption
<1> QED BY <1>1 DEF Init, TypeInv, TypeOK, Phases, BeatStates

LEMMA TypeInvStep == TypeInv /\ [Next]_vars => TypeInv'
<1> SUFFICES ASSUME TypeInv, [Next]_vars PROVE TypeInv'
  OBVIOUS
<1>t. TypeOK
  BY DEF TypeInv
<1>k. \A s \in Sessions : phase[s] # "new" => replica[s] \in Replicas /\ cluster[s] \in Clusters
  BY DEF TypeInv
<1>b. \A s \in Sessions : beat[s] # "off" => phase[s] # "new"
  BY DEF TypeInv
<1>1. ASSUME NEW s \in Sessions, NEW r \in Replicas, NEW c \in Clusters, Open(s, r, c)
      PROVE  TypeInv'
  <2>1. TypeOK'
    BY <1>1, <1>t DEF Open, TypeOK, Phases, beatVars, dirVars, bounds
  <2> QED BY <1>1, <1>t, <1>k, <1>b, <2>1 DEF Open, TypeInv, TypeOK, beatVars
<1>2. ASSUME NEW s \in Sessions, RegisterLocal(s) PROVE TypeInv'
  <2>1. replica[s] \in Replicas /\ cluster[s] \in Clusters
    BY <1>2, <1>k DEF RegisterLocal
  <2>2. agents' \in [Replicas -> [Clusters -> Sessions \cup {None}]]
    BY <1>2, <1>t, <2>1 DEF RegisterLocal, TypeOK
  <2>3. TypeOK'
    BY <1>2, <1>t, <2>2 DEF RegisterLocal, TypeOK, Phases, origin, beatVars, dirVars, bounds
  <2> QED BY <1>2, <1>t, <1>k, <1>b, <2>3 DEF RegisterLocal, TypeInv, TypeOK, origin, beatVars
<1>3. ASSUME NEW s \in Sessions, SetStop(s) PROVE TypeInv'
  <2>1. TypeOK'
    BY <1>3, <1>t DEF SetStop, TypeOK, Phases, origin, dirVars, bounds
  <2> QED BY <1>3, <1>t, <1>k, <1>b, <2>1 DEF SetStop, TypeInv, TypeOK, origin
<1>4. ASSUME NEW s \in Sessions, Announced(s) PROVE TypeInv'
  <2>1. replica[s] \in Replicas /\ cluster[s] \in Clusters
    BY <1>4, <1>k DEF Announced
  <2>2. /\ record' \in [Clusters -> Replicas \cup {None}]
        /\ left' \in [Clusters -> 0..TTL] /\ errors' \in 0..MaxErrors
    BY <1>4, <1>t, <2>1, CallTyping DEF Announced
  <2>3. TypeOK'
    BY <1>4, <1>t, <2>2 DEF Announced, TypeOK, Phases, BeatStates, origin
  <2> QED BY <1>4, <1>t, <1>k, <1>b, <2>3 DEF Announced, TypeInv, TypeOK, origin
<1>5. ASSUME NEW s \in Sessions, Break(s) PROVE TypeInv'
  <2>1. TypeOK'
    BY <1>5, <1>t DEF Break, TypeOK, origin, beatVars, dirVars, bounds
  <2> QED BY <1>5, <1>k, <1>b, <2>1 DEF Break, TypeInv, origin, beatVars
<1>6. ASSUME NEW s \in Sessions, Notice(s) PROVE TypeInv'
  <2>1. TypeOK'
    BY <1>6, <1>t DEF Notice, TypeOK, Phases, origin, beatVars, dirVars, bounds
  <2> QED BY <1>6, <1>t, <1>k, <1>b, <2>1 DEF Notice, TypeInv, TypeOK, origin, beatVars
<1>7. ASSUME NEW s \in Sessions, UnregisterLocal(s) PROVE TypeInv'
  <2>1. replica[s] \in Replicas /\ cluster[s] \in Clusters
    BY <1>7, <1>k DEF UnregisterLocal
  <2>2. /\ agents' \in [Replicas -> [Clusters -> Sessions \cup {None}]]
        /\ found' \in [Sessions -> Sessions \cup {None}]
    BY <1>7, <1>t, <2>1 DEF UnregisterLocal, EntryDeleted, TypeOK
  <2>3. TypeOK'
    BY <1>7, <1>t, <2>2 DEF UnregisterLocal, TypeOK, Phases, origin, beatVars, dirVars, bounds
  <2> QED BY <1>7, <1>t, <1>k, <1>b, <2>3 DEF UnregisterLocal, TypeInv, TypeOK, origin, beatVars
<1>8. ASSUME NEW s \in Sessions, StopHeartbeat(s) PROVE TypeInv'
  <2>1. cancelled' \in [Sessions -> BOOLEAN]
    BY <1>8, <1>t DEF StopHeartbeat, Stopped, TypeOK
  <2>2. TypeOK'
    BY <1>8, <1>t, <2>1 DEF StopHeartbeat, TypeOK, Phases, origin, dirVars, bounds
  <2> QED BY <1>8, <1>t, <1>k, <1>b, <2>2 DEF StopHeartbeat, TypeInv, TypeOK, origin
<1>9. ASSUME NEW s \in Sessions, Forgotten(s) PROVE TypeInv'
  <2>1. replica[s] \in Replicas /\ cluster[s] \in Clusters
    BY <1>9, <1>k DEF Forgotten
  <2>2. /\ record' \in [Clusters -> Replicas \cup {None}]
        /\ left' \in [Clusters -> 0..TTL] /\ errors' \in 0..MaxErrors
    BY <1>9, <1>t, <2>1, CallTyping DEF Forgotten
  <2>3. TypeOK'
    BY <1>9, <1>t, <2>2 DEF Forgotten, TypeOK, Phases, origin, beatVars
  <2> QED BY <1>9, <1>t, <1>k, <1>b, <2>3 DEF Forgotten, TypeInv, TypeOK, origin, beatVars
<1>10. ASSUME NEW s \in Sessions, HeartbeatFires(s) PROVE TypeInv'
  <2>1. TypeOK'
    BY <1>10, <1>t DEF HeartbeatFires, TypeOK, BeatStates, origin, dirVars, bounds
  <2> QED BY <1>10, <1>t, <1>k, <1>b, <2>1 DEF HeartbeatFires, TypeInv, TypeOK, origin
<1>11. ASSUME NEW s \in Sessions, HeartbeatReturns(s) PROVE TypeInv'
  <2>1. replica[s] \in Replicas /\ cluster[s] \in Clusters
    BY <1>11, <1>k, <1>b DEF HeartbeatReturns
  <2>2. /\ record' \in [Clusters -> Replicas \cup {None}]
        /\ left' \in [Clusters -> 0..TTL] /\ errors' \in 0..MaxErrors
    BY <1>11, <1>t, <2>1, CallTyping DEF HeartbeatReturns, Refresh
  <2>3. TypeOK'
    BY <1>11, <1>t, <2>2 DEF HeartbeatReturns, TypeOK, BeatStates, origin
  <2> QED BY <1>11, <1>t, <1>k, <1>b, <2>3 DEF HeartbeatReturns, TypeInv, TypeOK, origin
<1>12. ASSUME NEW s \in Sessions, HeartbeatEnds(s) PROVE TypeInv'
  <2>1. TypeOK'
    BY <1>12, <1>t DEF HeartbeatEnds, TypeOK, BeatStates, origin, dirVars, bounds
  <2> QED BY <1>12, <1>t, <1>k, <1>b, <2>1 DEF HeartbeatEnds, TypeInv, TypeOK, origin
<1>13. CASE Tick
  <2>1. \A c \in Clusters : OneLess(c) \in 0..TTL
    BY <1>t, TTLAssumption DEF OneLess, TypeOK
  <2>2. left' \in [Clusters -> 0..TTL] /\ record' \in [Clusters -> Replicas \cup {None}]
    BY <1>13, <1>t, <2>1 DEF Tick, TypeOK
  <2>3. beat' \in [Sessions -> BeatStates]
    BY <1>13 DEF Tick, BeatStates
  <2>4. TypeOK'
    BY <1>13, <1>t, <2>2, <2>3 DEF Tick, TypeOK, origin, bounds
  <2> QED BY <1>13, <1>k, <1>b, <2>4 DEF Tick, TypeInv, origin
<1>14. ASSUME NEW r \in Replicas, Crash(r) PROVE TypeInv'
  <2>1. phase' \in [Sessions -> Phases] /\ beat' \in [Sessions -> BeatStates]
    BY <1>14, <1>t DEF Crash, TypeOK, Phases, BeatStates
  <2>2. agents' \in [Replicas -> [Clusters -> Sessions \cup {None}]]
    BY <1>14, <1>t DEF Crash, TypeOK
  <2>3. crashes' \in 0..MaxCrashes
    BY <1>14, <1>t, BoundAssumption DEF Crash, TypeOK
  <2>4. TypeOK'
    BY <1>14, <1>t, <2>1, <2>2, <2>3 DEF Crash, TypeOK, origin, dirVars
  <2> QED BY <1>14, <1>k, <1>b, <2>4 DEF Crash, IsOpen, TypeInv, origin
<1>15. CASE UNCHANGED vars
  BY <1>15 DEF TypeInv, TypeOK, vars
<1> QED
  BY <1>1, <1>2, <1>3, <1>4, <1>5, <1>6, <1>7, <1>8, <1>9, <1>10, <1>11, <1>12,
     <1>13, <1>14, <1>15 DEF Next, Handler, Heartbeat

LEMMA TypeInvAlways == Spec => []TypeInv
  BY TypeInvInit, TypeInvStep, PTL DEF Spec

\* The hub's sessions and the directory stay within their types: every map
\* entry is a session, every record a replica and every lease at most TTL
\* (register, unregister, Announce, Forget).
THEOREM TypeCorrect == Spec => []TypeOK
<1>1. TypeInv => TypeOK
  BY DEF TypeInv
<1> QED BY <1>1, TypeInvAlways, PTL

(***************************************************************************)
(* The session map of a replica (Server.agents).                           *)
(***************************************************************************)

\* The handler has entered its session and not yet removed it.
Registered == {"registered", "announcing", "serving", "ending"}

\* A step that leaves the maps alone and takes no session out of them.
LEMMA EntriesKept ==
  ASSUME TypeInv, NoStaleEntry, agents' = agents,
         \A s \in Sessions : phase[s] \in Registered =>
            /\ phase'[s] \in Registered
            /\ replica'[s] = replica[s] /\ cluster'[s] = cluster[s]
  PROVE  NoStaleEntry'
  BY DEF NoStaleEntry, Registered, TypeInv, TypeOK

LEMMA NoStaleEntryInit == Init => NoStaleEntry
  BY DEF Init, NoStaleEntry

LEMMA NoStaleEntryStep == TypeInv /\ NoStaleEntry /\ [Next]_vars => NoStaleEntry'
<1> SUFFICES ASSUME TypeInv, NoStaleEntry, [Next]_vars PROVE NoStaleEntry'
  OBVIOUS
<1>t. /\ phase \in [Sessions -> Phases]
      /\ replica \in [Sessions -> Replicas \cup {None}]
      /\ cluster \in [Sessions -> Clusters \cup {None}]
      /\ agents \in [Replicas -> [Clusters -> Sessions \cup {None}]]
  BY DEF TypeInv, TypeOK
<1>k. \A s \in Sessions : phase[s] # "new" => replica[s] \in Replicas /\ cluster[s] \in Clusters
  BY DEF TypeInv
<1>1. ASSUME NEW s \in Sessions, NEW r \in Replicas, NEW c \in Clusters, Open(s, r, c)
      PROVE  NoStaleEntry'
  BY <1>1, <1>t, EntriesKept DEF Open, Registered
<1>2. ASSUME NEW s \in Sessions, RegisterLocal(s) PROVE NoStaleEntry'
  <2>1. /\ replica[s] \in Replicas /\ cluster[s] \in Clusters
        /\ replica' = replica /\ cluster' = cluster
    BY <1>2, <1>k DEF RegisterLocal, origin
  <2>2. /\ phase'[s] \in Registered
        /\ \A u \in Sessions \ {s} : phase'[u] = phase[u]
    BY <1>2, <1>t DEF RegisterLocal, Registered
  <2> SUFFICES ASSUME NEW r \in Replicas, NEW c \in Clusters, agents'[r][c] # None
               PROVE  /\ replica[agents'[r][c]] = r /\ cluster[agents'[r][c]] = c
                      /\ phase'[agents'[r][c]] \in Registered
    BY <2>1 DEF NoStaleEntry, Registered
  <2>3. CASE r = replica[s] /\ c = cluster[s]
    <3>1. agents'[r][c] = s
      BY <1>2, <1>t, <2>1, <2>3 DEF RegisterLocal
    <3> QED BY <2>2, <2>3, <3>1
  <2>4. CASE ~(r = replica[s] /\ c = cluster[s])
    <3>1. agents'[r][c] = agents[r][c]
      BY <1>2, <1>t, <2>1, <2>4 DEF RegisterLocal
    <3> QED BY <1>t, <2>2, <2>4, <3>1 DEF NoStaleEntry, Registered
  <2> QED BY <2>3, <2>4
<1>3. ASSUME NEW s \in Sessions, UnregisterLocal(s) PROVE NoStaleEntry'
  <2>1. /\ replica[s] \in Replicas /\ cluster[s] \in Clusters
        /\ replica' = replica /\ cluster' = cluster
    BY <1>3, <1>k DEF UnregisterLocal, origin
  <2>2. \A u \in Sessions \ {s} : phase'[u] = phase[u]
    BY <1>3, <1>t DEF UnregisterLocal
  <2> SUFFICES ASSUME NEW r \in Replicas, NEW c \in Clusters, agents'[r][c] # None
               PROVE  /\ replica[agents'[r][c]] = r /\ cluster[agents'[r][c]] = c
                      /\ phase'[agents'[r][c]] \in Registered
    BY <2>1 DEF NoStaleEntry, Registered
  <2>3. ~(r = replica[s] /\ c = cluster[s])
    BY <1>3, <1>t, <2>1 DEF UnregisterLocal, EntryDeleted
  <2>4. agents'[r][c] = agents[r][c]
    BY <1>3, <1>t, <2>1, <2>3 DEF UnregisterLocal, EntryDeleted
  <2> QED BY <1>t, <2>2, <2>3, <2>4 DEF NoStaleEntry, Registered
<1>4. ASSUME NEW s \in Sessions,
             SetStop(s) \/ Announced(s) \/ Notice(s) \/ StopHeartbeat(s) \/ Forgotten(s)
      PROVE  NoStaleEntry'
  <2>1. agents' = agents /\ replica' = replica /\ cluster' = cluster
    BY <1>4 DEF SetStop, Announced, Notice, StopHeartbeat, Forgotten, origin
  <2>2. \A u \in Sessions : phase[u] \in Registered => phase'[u] \in Registered
    BY <1>4, <1>t DEF SetStop, Announced, Notice, StopHeartbeat, Forgotten, Registered
  <2> QED BY <2>1, <2>2, EntriesKept
<1>5. ASSUME NEW s \in Sessions, Break(s) \/ Heartbeat(s) PROVE NoStaleEntry'
  BY <1>5, EntriesKept
  DEF Break, Heartbeat, HeartbeatFires, HeartbeatReturns, HeartbeatEnds, origin
<1>6. CASE Tick
  BY <1>6, EntriesKept DEF Tick, origin
<1>7. ASSUME NEW q \in Replicas, Crash(q) PROVE NoStaleEntry'
  <2>1. \A r \in Replicas, c \in Clusters :
          agents'[r][c] = IF r = q THEN None ELSE agents[r][c]
    BY <1>7, <1>t DEF Crash
  <2>2. /\ replica' = replica /\ cluster' = cluster
        /\ \A u \in Sessions : replica[u] # q => phase'[u] = phase[u]
    BY <1>7, <1>t DEF Crash, origin
  <2> QED BY <1>t, <2>1, <2>2 DEF NoStaleEntry
<1>8. CASE UNCHANGED vars
  BY <1>8 DEF NoStaleEntry, vars
<1> QED BY <1>1, <1>2, <1>3, <1>4, <1>5, <1>6, <1>7, <1>8 DEF Next, Handler

\* A replica's map never holds a session whose handler has not registered or
\* has unregistered, nor one of another replica or cluster, with or without
\* overlapping streams (Session, register, unregister).
THEOREM MapHoldsLiveSessions == Spec => []NoStaleEntry
  BY TypeInvAlways, NoStaleEntryInit, NoStaleEntryStep, PTL DEF Spec

(***************************************************************************)
(* Who owns a heartbeat loop.                                              *)
(***************************************************************************)

\* A loop runs only for a session that has set stopHeartbeat and announced.
BeatInv ==
  \A s \in Sessions :
    /\ phase[s] = "announcing" => hasStop[s]
    /\ beat[s] # "off" =>
         /\ hasStop[s]
         /\ phase[s] \in {"serving", "ending", "stopping", "forgetting", "done"}

SameKey(s, t) == replica[s] = replica[t] /\ cluster[s] = cluster[t]

OneStream ==
  \A s, t \in Sessions : IsOpen(s) /\ IsOpen(t) /\ SameKey(s, t) => s = t

\* A handler finds its own session wherever unregister looks for one.
OwnEntry ==
  \A s \in Sessions :
    /\ phase[s] \in Registered => agents[replica[s]][cluster[s]] = s
    /\ phase[s] = "stopping" => found[s] = s
    /\ phase[s] \in {"forgetting", "done"} => beat[s] = "off" \/ cancelled[s]

\* HeartbeatOwned is not inductive: that a handler cancels its own loop rests
\* on no other stream having replaced or removed its entry.
OwnInv == BeatInv /\ (~fleet.overlap => OneStream /\ OwnEntry)

LEMMA OwnInvInit == Init => OwnInv
  BY DEF Init, OwnInv, BeatInv, OneStream, OwnEntry, IsOpen, SameKey, Registered

LEMMA OwnInvOwns == TypeInv /\ OwnInv => HeartbeatOwned
<1> SUFFICES ASSUME TypeInv, OwnInv, ~fleet.overlap,
                    NEW s \in Sessions, beat[s] # "off", ~cancelled[s]
             PROVE  \/ agents[replica[s]][cluster[s]] = s
                    \/ phase[s] = "stopping" /\ found[s] = s
  BY DEF HeartbeatOwned
<1> QED BY DEF OwnInv, BeatInv, OwnEntry, Registered

\* A step opens no stream unless it is Open.
LEMMA StreamsKept ==
  ASSUME OneStream, replica' = replica, cluster' = cluster,
         \A s \in Sessions : ~IsOpen(s) => ~IsOpen(s)'
  PROVE  OneStream'
  BY DEF OneStream, SameKey

LEMMA BeatInvStep == TypeInv /\ BeatInv /\ [Next]_vars => BeatInv'
<1> SUFFICES ASSUME TypeInv, BeatInv, [Next]_vars PROVE BeatInv'
  OBVIOUS
<1>t. /\ phase \in [Sessions -> Phases] /\ beat \in [Sessions -> BeatStates]
      /\ hasStop \in [Sessions -> BOOLEAN]
  BY DEF TypeInv, TypeOK
<1>1. ASSUME NEW s \in Sessions, NEW r \in Replicas, NEW c \in Clusters, Open(s, r, c)
      PROVE  BeatInv'
  BY <1>1, <1>t DEF Open, BeatInv, beatVars
<1>2. ASSUME NEW s \in Sessions,
             RegisterLocal(s) \/ Notice(s) \/ UnregisterLocal(s) \/ Forgotten(s)
      PROVE  BeatInv'
  BY <1>2, <1>t DEF RegisterLocal, Notice, UnregisterLocal, Forgotten, BeatInv, beatVars
<1>3. ASSUME NEW s \in Sessions, SetStop(s) PROVE BeatInv'
  BY <1>3, <1>t DEF SetStop, BeatInv
<1>4. ASSUME NEW s \in Sessions, Announced(s) PROVE BeatInv'
  BY <1>4, <1>t DEF Announced, BeatInv
<1>5. ASSUME NEW s \in Sessions, StopHeartbeat(s) PROVE BeatInv'
  BY <1>5, <1>t DEF StopHeartbeat, BeatInv
<1>6. ASSUME NEW s \in Sessions, Break(s) PROVE BeatInv'
  BY <1>6 DEF Break, BeatInv, beatVars
<1>7. ASSUME NEW s \in Sessions, Heartbeat(s) PROVE BeatInv'
  BY <1>7, <1>t DEF Heartbeat, HeartbeatFires, HeartbeatReturns, HeartbeatEnds, BeatInv
<1>8. CASE Tick
  BY <1>8, <1>t DEF Tick, BeatInv
<1>9. ASSUME NEW r \in Replicas, Crash(r) PROVE BeatInv'
  BY <1>9, <1>t DEF Crash, BeatInv
<1>10. CASE UNCHANGED vars
  BY <1>10 DEF BeatInv, vars
<1> QED BY <1>1, <1>2, <1>3, <1>4, <1>5, <1>6, <1>7, <1>8, <1>9, <1>10 DEF Next, Handler

LEMMA OwnInvStep == TypeInv /\ OwnInv /\ [Next]_vars => OwnInv'
<1> SUFFICES ASSUME TypeInv, OwnInv, [Next]_vars PROVE OwnInv'
  OBVIOUS
<1>0. BeatInv /\ BeatInv'
  BY BeatInvStep DEF OwnInv
<1>f. fleet' = fleet
  BY DEF Next, Handler, Heartbeat, Open, RegisterLocal, SetStop, Announced, Break, Notice,
         UnregisterLocal, StopHeartbeat, Forgotten, HeartbeatFires, HeartbeatReturns,
         HeartbeatEnds, Tick, Crash, origin, vars
<1> SUFFICES ASSUME ~fleet.overlap PROVE OneStream' /\ OwnEntry'
  BY <1>0, <1>f DEF OwnInv
<1>i. OneStream /\ OwnEntry
  BY DEF OwnInv
<1>t. /\ phase \in [Sessions -> Phases] /\ beat \in [Sessions -> BeatStates]
      /\ replica \in [Sessions -> Replicas \cup {None}]
      /\ cluster \in [Sessions -> Clusters \cup {None}]
      /\ found \in [Sessions -> Sessions \cup {None}]
      /\ cancelled \in [Sessions -> BOOLEAN]
      /\ agents \in [Replicas -> [Clusters -> Sessions \cup {None}]]
  BY DEF TypeInv, TypeOK
<1>k. \A s \in Sessions : phase[s] # "new" => replica[s] \in Replicas /\ cluster[s] \in Clusters
  BY DEF TypeInv
<1>1. ASSUME NEW s \in Sessions, NEW r \in Replicas, NEW c \in Clusters, Open(s, r, c)
      PROVE  OneStream' /\ OwnEntry'
  <2>1. /\ replica'[s] = r /\ cluster'[s] = c /\ phase'[s] = "hello"
        /\ \A u \in Sessions \ {s} : /\ replica'[u] = replica[u] /\ cluster'[u] = cluster[u]
                                     /\ phase'[u] = phase[u]
    BY <1>1, <1>t DEF Open
  <2>2. \A u \in Sessions : IsOpen(u) => ~(replica[u] = r /\ cluster[u] = c)
    BY <1>1 DEF Open
  <2>3. OneStream'
    BY <1>i, <2>1, <2>2 DEF OneStream, SameKey, IsOpen
  <2>4. UNCHANGED <<agents, found, beat, cancelled>>
    BY <1>1 DEF Open, beatVars
  <2> QED BY <1>i, <2>1, <2>3, <2>4 DEF OwnEntry, Registered
<1>2. ASSUME NEW s \in Sessions, RegisterLocal(s) PROVE OneStream' /\ OwnEntry'
  <2>1. /\ replica[s] \in Replicas /\ cluster[s] \in Clusters
        /\ UNCHANGED <<replica, cluster, found, beat, cancelled>>
    BY <1>2, <1>k DEF RegisterLocal, origin, beatVars
  <2>2. /\ phase[s] = "hello" /\ phase'[s] \in {"registered", "serving"}
        /\ \A u \in Sessions \ {s} : phase'[u] = phase[u]
    BY <1>2, <1>t DEF RegisterLocal
  <2>3. agents'[replica[s]][cluster[s]] = s
    BY <1>2, <1>t, <2>1 DEF RegisterLocal
  <2>4. \A u \in Sessions \ {s} : phase[u] \in Registered =>
          agents'[replica[u]][cluster[u]] = agents[replica[u]][cluster[u]]
    <3> SUFFICES ASSUME NEW u \in Sessions \ {s}, phase[u] \in Registered
                 PROVE  agents'[replica[u]][cluster[u]] = agents[replica[u]][cluster[u]]
      OBVIOUS
    <3>1. ~SameKey(u, s)
      BY <1>i, <2>2 DEF OneStream, IsOpen, Registered
    <3>2. replica[u] \in Replicas /\ cluster[u] \in Clusters
      BY <1>k DEF Registered
    <3> QED BY <1>2, <1>t, <2>1, <3>1, <3>2 DEF RegisterLocal, SameKey
  <2>5. OneStream'
    BY <1>i, <2>1, <2>2, StreamsKept DEF IsOpen
  <2> QED BY <1>i, <2>1, <2>2, <2>3, <2>4, <2>5 DEF OwnEntry, Registered
<1>3. ASSUME NEW s \in Sessions, SetStop(s) PROVE OneStream' /\ OwnEntry'
  <2>1. /\ UNCHANGED <<replica, cluster, agents, found, beat, cancelled>>
        /\ phase[s] = "registered" /\ phase'[s] = "announcing"
        /\ \A u \in Sessions \ {s} : phase'[u] = phase[u]
    BY <1>3, <1>t DEF SetStop, origin
  <2>2. OneStream'
    BY <1>i, <2>1, StreamsKept DEF IsOpen
  <2> QED BY <1>i, <2>1, <2>2 DEF OwnEntry, Registered
<1>4. ASSUME NEW s \in Sessions, Announced(s) PROVE OneStream' /\ OwnEntry'
  <2>1. /\ UNCHANGED <<replica, cluster, agents, found, cancelled>>
        /\ phase[s] = "announcing" /\ phase'[s] = "serving"
        /\ \A u \in Sessions \ {s} : phase'[u] = phase[u] /\ beat'[u] = beat[u]
    BY <1>4, <1>t DEF Announced, origin
  <2>2. OneStream'
    BY <1>i, <2>1, StreamsKept DEF IsOpen
  <2> QED BY <1>i, <2>1, <2>2 DEF OwnEntry, Registered
<1>5. ASSUME NEW s \in Sessions, Break(s) PROVE OneStream' /\ OwnEntry'
  <2>1. UNCHANGED <<replica, cluster, agents, found, beat, cancelled, phase>>
    BY <1>5 DEF Break, origin, beatVars
  <2>2. OneStream'
    BY <1>i, <2>1, StreamsKept DEF IsOpen
  <2> QED BY <1>i, <2>1, <2>2 DEF OwnEntry
<1>6. ASSUME NEW s \in Sessions, Notice(s) PROVE OneStream' /\ OwnEntry'
  <2>1. /\ UNCHANGED <<replica, cluster, agents, found, beat, cancelled>>
        /\ phase[s] = "serving" /\ phase'[s] = "ending"
        /\ \A u \in Sessions \ {s} : phase'[u] = phase[u]
    BY <1>6, <1>t DEF Notice, origin, beatVars
  <2>2. OneStream'
    BY <1>i, <2>1, StreamsKept DEF IsOpen
  <2> QED BY <1>i, <2>1, <2>2 DEF OwnEntry, Registered
<1>7. ASSUME NEW s \in Sessions, UnregisterLocal(s) PROVE OneStream' /\ OwnEntry'
  <2>1. /\ replica[s] \in Replicas /\ cluster[s] \in Clusters
        /\ UNCHANGED <<replica, cluster, beat, cancelled>>
    BY <1>7, <1>k DEF UnregisterLocal, origin, beatVars
  <2>2. /\ phase[s] = "ending" /\ phase'[s] = "stopping"
        /\ \A u \in Sessions \ {s} : phase'[u] = phase[u] /\ found'[u] = found[u]
    BY <1>7, <1>t DEF UnregisterLocal
  <2>3. found'[s] = s
    BY <1>7, <1>i, <1>t DEF UnregisterLocal, OwnEntry, Registered
  <2>4. \A u \in Sessions \ {s} : phase[u] \in Registered =>
          agents'[replica[u]][cluster[u]] = agents[replica[u]][cluster[u]]
    <3> SUFFICES ASSUME NEW u \in Sessions \ {s}, phase[u] \in Registered
                 PROVE  agents'[replica[u]][cluster[u]] = agents[replica[u]][cluster[u]]
      OBVIOUS
    <3>1. ~SameKey(u, s)
      BY <1>i, <2>2 DEF OneStream, IsOpen, Registered
    <3>2. replica[u] \in Replicas /\ cluster[u] \in Clusters
      BY <1>k DEF Registered
    <3> QED BY <1>7, <1>t, <2>1, <3>1, <3>2 DEF UnregisterLocal, EntryDeleted, SameKey
  <2>5. OneStream'
    BY <1>i, <2>1, <2>2, StreamsKept DEF IsOpen
  <2> QED BY <1>i, <2>1, <2>2, <2>3, <2>4, <2>5 DEF OwnEntry, Registered
<1>8. ASSUME NEW s \in Sessions, StopHeartbeat(s) PROVE OneStream' /\ OwnEntry'
  <2>1. /\ UNCHANGED <<replica, cluster, agents, found, beat>>
        /\ phase[s] = "stopping" /\ phase'[s] \in {"forgetting", "done"}
        /\ \A u \in Sessions \ {s} : phase'[u] = phase[u]
    BY <1>8, <1>t DEF StopHeartbeat, origin
  <2>2. found[s] = s /\ s # None
    BY <1>i, <2>1, NoneAssumption DEF OwnEntry
  <2>3. \A u \in Sessions : cancelled[u] => cancelled'[u]
    BY <1>8, <1>t DEF StopHeartbeat, Stopped
  <2>4. beat[s] = "off" \/ cancelled'[s]
    BY <1>8, <1>t, <1>0, <2>2 DEF StopHeartbeat, Stopped, BeatInv
  <2>5. OneStream'
    BY <1>i, <2>1, StreamsKept DEF IsOpen
  <2> QED BY <1>i, <2>1, <2>3, <2>4, <2>5 DEF OwnEntry, Registered
<1>9. ASSUME NEW s \in Sessions, Forgotten(s) PROVE OneStream' /\ OwnEntry'
  <2>1. /\ UNCHANGED <<replica, cluster, agents, found, beat, cancelled>>
        /\ phase[s] = "forgetting" /\ phase'[s] = "done"
        /\ \A u \in Sessions \ {s} : phase'[u] = phase[u]
    BY <1>9, <1>t DEF Forgotten, origin, beatVars
  <2>2. OneStream'
    BY <1>i, <2>1, StreamsKept DEF IsOpen
  <2> QED BY <1>i, <2>1, <2>2 DEF OwnEntry, Registered
<1>10. ASSUME NEW s \in Sessions, Heartbeat(s) PROVE OneStream' /\ OwnEntry'
  <2>1. /\ UNCHANGED <<replica, cluster, agents, found, cancelled, phase>>
        /\ \A u \in Sessions : beat[u] = "off" => beat'[u] = "off"
    BY <1>10, <1>t
    DEF Heartbeat, HeartbeatFires, HeartbeatReturns, HeartbeatEnds, origin
  <2>2. OneStream'
    BY <1>i, <2>1, StreamsKept DEF IsOpen
  <2> QED BY <1>i, <2>1, <2>2 DEF OwnEntry
<1>11. CASE Tick
  <2>1. /\ UNCHANGED <<replica, cluster, agents, found, cancelled, phase>>
        /\ \A u \in Sessions : beat[u] = "off" => beat'[u] = "off"
    BY <1>11, <1>t DEF Tick, origin
  <2>2. OneStream'
    BY <1>i, <2>1, StreamsKept DEF IsOpen
  <2> QED BY <1>i, <2>1, <2>2 DEF OwnEntry
<1>12. ASSUME NEW r \in Replicas, Crash(r) PROVE OneStream' /\ OwnEntry'
  <2>1. UNCHANGED <<replica, cluster, found, cancelled>>
    BY <1>12 DEF Crash, origin
  <2>2. \A u \in Sessions : IF replica[u] = r
          THEN phase'[u] \in {"new", "done"} /\ beat'[u] = "off"
          ELSE phase'[u] = phase[u] /\ beat'[u] = beat[u]
    BY <1>12, <1>t DEF Crash, IsOpen
  <2>3. \A q \in Replicas : q # r => agents'[q] = agents[q]
    BY <1>12, <1>t DEF Crash
  <2>4. OneStream'
    BY <1>i, <2>1, <2>2, StreamsKept DEF IsOpen
  <2>5. OwnEntry'
    BY <1>i, <1>k, <2>1, <2>2, <2>3 DEF OwnEntry, Registered
  <2> QED BY <2>4, <2>5
<1>13. CASE UNCHANGED vars
  BY <1>13, <1>i DEF OneStream, OwnEntry, SameKey, IsOpen, vars
<1> QED
  BY <1>1, <1>2, <1>3, <1>4, <1>5, <1>6, <1>7, <1>8, <1>9, <1>10, <1>11, <1>12, <1>13
  DEF Next, Handler

LEMMA OwnInvAlways == Spec => []OwnInv
  BY TypeInvAlways, OwnInvInit, OwnInvStep, PTL DEF Spec

\* While streams of one cluster never overlap on a replica, a heartbeat loop
\* nobody has cancelled belongs to a session in the map or to one whose
\* handler is about to cancel it: no loop goes on announcing a cluster whose
\* agent has left (register, unregister).
THEOREM HeartbeatsAreOwned == Spec => []HeartbeatOwned
  BY TypeInvAlways, OwnInvAlways, OwnInvOwns, PTL

\* What LiveClusterIsReachable waits for is the directory: a session that
\* serves is always found on its own replica, and through any other as soon
\* as the directory names that one.
ServedWhenListed ==
  ~fleet.overlap =>
    \A s \in Sessions : Serving(s) =>
      /\ Route(replica[s], cluster[s]) = s
      /\ fleet.registry /\ Lookup(cluster[s]) = replica[s] =>
           \A r \in fleet.replicas : Route(r, cluster[s]) # None

\* While streams of one cluster never overlap on a replica, no request for a
\* cluster is refused on the replica that serves it, nor on any other while
\* the directory names that replica (get, register, unregister): the run
\* hub_overlap needs its overlap.
THEOREM LiveSessionsAreServed == Spec => []ServedWhenListed
<1>1. TypeInv /\ OwnInv => ServedWhenListed
  <2> SUFFICES ASSUME TypeInv, OwnInv, ~fleet.overlap, NEW s \in Sessions, Serving(s)
               PROVE  /\ Route(replica[s], cluster[s]) = s
                      /\ fleet.registry /\ Lookup(cluster[s]) = replica[s] =>
                           \A r \in fleet.replicas : Route(r, cluster[s]) # None
    BY DEF ServedWhenListed
  <2>1. agents[replica[s]][cluster[s]] = s /\ s # None
    BY NoneAssumption DEF OwnInv, OwnEntry, Serving, Registered
  <2>2. replica[s] # None
    BY NoneAssumption DEF TypeInv, Serving
  <2> QED BY <2>1, <2>2 DEF Route, Lookup
<1> QED BY <1>1, TypeInvAlways, OwnInvAlways, PTL

(***************************************************************************)
(* The lease.                                                              *)
(***************************************************************************)

\* The handler has not called Announce yet.
Early == {"new", "hello", "registered", "announcing"}

\* Every directory record was put there for a session of its cluster.
Authored ==
  \A c \in Clusters : record[c] # None =>
    \E t \in Sessions : cluster[t] = c /\ phase[t] \notin Early

\* A stream belongs to no cluster before its Hello.
Unnamed == \A s \in Sessions : phase[s] = "new" => cluster[s] = None

Sole(s) == \A t \in Sessions \ {s} : cluster[t] # cluster[s]

\* The interval a loop owes the record: it has ticked and not renewed it yet.
Owed(s) == IF beat[s] = "idle" THEN 0 ELSE 1

\* Each failed call costs the record of a cluster's one session one interval.
Funded ==
  \A s \in Sessions :
    beat[s] # "off" /\ ~cancelled[s] /\ Sole(s) /\ record[cluster[s]] = replica[s]
      => left[cluster[s]] + errors + Owed(s) >= TTL

LeaseInv == Unnamed /\ Authored /\ Funded

LEMMA LeaseInvInit == Init => LeaseInv
  BY DEF Init, LeaseInv, Unnamed, Authored, Funded

\* A step that leaves the directory alone and starts no loop.
LEMMA LeaseKept ==
  ASSUME TypeInv, LeaseInv, UNCHANGED <<record, left>>,
         errors' \in Nat, errors' >= errors,
         \A t \in Sessions : phase'[t] = "new" => phase[t] = "new" /\ cluster'[t] = cluster[t],
         \A t \in Sessions : phase[t] \notin Early =>
            phase'[t] \notin Early /\ cluster'[t] = cluster[t],
         \A t \in Sessions : beat'[t] # "off" =>
            beat[t] # "off" /\ (beat'[t] = "idle" => beat[t] = "idle" \/ errors' > errors),
         \A t \in Sessions : beat'[t] # "off" /\ ~cancelled'[t] =>
            ~cancelled[t] /\ (Sole(t)' => Sole(t))
                          /\ cluster'[t] = cluster[t] /\ replica'[t] = replica[t]
  PROVE  LeaseInv'
<1>1. Authored'
  BY DEF LeaseInv, Authored
<1>2. Funded'
  <2> SUFFICES ASSUME NEW s \in Sessions, beat'[s] # "off", ~cancelled'[s], Sole(s)',
                      record[cluster[s]] = replica[s]
               PROVE  left[cluster[s]] + errors' + Owed(s)' >= TTL
    BY DEF Funded
  <2>1. beat[s] # "off" /\ cluster[s] \in Clusters
    BY DEF TypeInv
  <2>2. left[cluster[s]] + errors + Owed(s) >= TTL
    BY <2>1 DEF LeaseInv, Funded
  <2>3. left[cluster[s]] \in Int /\ errors \in Int /\ TTL \in Int
    BY <2>1, TTLAssumption DEF TypeInv, TypeOK
  <2>4. Owed(s) + errors <= Owed(s)' + errors'
    BY <2>3 DEF Owed
  <2> QED BY <2>2, <2>3, <2>4 DEF Owed
<1>3. Unnamed'
  BY DEF LeaseInv, Unnamed
<1> QED BY <1>1, <1>2, <1>3 DEF LeaseInv

\* A directory call made for session s.
LEMMA CallFunds ==
  ASSUME TypeInv, LeaseInv, NEW s \in Sessions, phase[s] # "new",
         Announce(cluster[s], replica[s]) \/ CallFails \/ CallCancelled(s),
         UNCHANGED <<cluster, replica, cancelled>>,
         phase'[s] \notin Early, beat'[s] = "idle",
         \A t \in Sessions \ {s} : phase'[t] = phase[t] /\ beat'[t] = beat[t],
         beat[s] = "off" => phase[s] \in Early,
         beat[s] # "idle"
  PROVE  LeaseInv'
<1>t. /\ record \in [Clusters -> Replicas \cup {None}]
      /\ left \in [Clusters -> 0..TTL] /\ errors \in Nat /\ TTL \in Nat
      /\ phase \in [Sessions -> Phases] /\ cluster[s] \in Clusters /\ replica[s] \in Replicas
  BY BoundAssumption, TTLAssumption DEF TypeInv, TypeOK
<1>k. \A u \in Sessions : beat[u] # "off" => cluster[u] \in Clusters
  BY DEF TypeInv
<1>u. Unnamed'
  BY DEF LeaseInv, Unnamed, Early
<1>1. CASE Announce(cluster[s], replica[s])
  <2>1. /\ errors' = errors /\ record'[cluster[s]] = replica[s] /\ left'[cluster[s]] = TTL
        /\ \A c \in Clusters \ {cluster[s]} : record'[c] = record[c] /\ left'[c] = left[c]
    BY <1>1, <1>t DEF Announce, Lease
  <2>2. Authored'
    BY <2>1 DEF LeaseInv, Authored
  <2>3. Funded'
    <3> SUFFICES ASSUME NEW u \in Sessions, beat'[u] # "off", ~cancelled[u], Sole(u),
                        record'[cluster[u]] = replica[u]
                 PROVE  left'[cluster[u]] + errors + Owed(u)' >= TTL
      BY <2>1 DEF Funded, Sole
    <3>1. CASE u = s
      BY <1>t, <2>1, <3>1 DEF Owed
    <3>2. CASE u # s
      <4>1. cluster[u] # cluster[s] /\ beat[u] # "off" /\ Owed(u)' = Owed(u)
        BY <3>2 DEF Sole, Owed
      <4> QED BY <1>k, <2>1, <4>1 DEF LeaseInv, Funded
    <3> QED BY <3>1, <3>2
  <2> QED BY <1>u, <2>2, <2>3 DEF LeaseInv
<1>2. CASE CallFails \/ CallCancelled(s)
  <2>1. /\ UNCHANGED <<record, left>>
        /\ errors' \in Nat /\ errors' >= errors
        /\ ~cancelled[s] => errors' = errors + 1
    BY <1>2, <1>t DEF CallFails, CallCancelled, dirVars
  <2>2. Authored'
    BY <2>1 DEF LeaseInv, Authored
  <2>3. Funded'
    <3> SUFFICES ASSUME NEW u \in Sessions, beat'[u] # "off", ~cancelled[u], Sole(u),
                        record[cluster[u]] = replica[u]
                 PROVE  left[cluster[u]] + errors' + Owed(u)' >= TTL
      BY <2>1 DEF Funded, Sole
    <3>1. CASE u = s
      <4>1. phase[s] \notin Early
        BY <1>t, <3>1, NoneAssumption DEF LeaseInv, Authored, Sole
      <4>2. left[cluster[s]] + errors + Owed(s) >= TTL
        BY <3>1, <4>1 DEF LeaseInv, Funded
      <4>3. Owed(s)' = 0 /\ Owed(s) = 1 /\ errors' = errors + 1
        BY <2>1, <3>1 DEF Owed
      <4>4. left[cluster[s]] \in Int
        BY <1>t
      <4> QED BY <1>t, <3>1, <4>2, <4>3, <4>4
    <3>2. CASE u # s
      <4>1. beat[u] # "off" /\ Owed(u)' = Owed(u) /\ Owed(u) \in Nat
        BY <3>2 DEF Owed
      <4>2. left[cluster[u]] + errors + Owed(u) >= TTL /\ left[cluster[u]] \in Int
        BY <1>k, <1>t, <4>1 DEF LeaseInv, Funded
      <4> QED BY <1>t, <2>1, <4>1, <4>2
    <3> QED BY <3>1, <3>2
  <2> QED BY <1>u, <2>2, <2>3 DEF LeaseInv
<1> QED BY <1>1, <1>2

LEMMA LeaseInvStep == TypeInv /\ BeatInv /\ LeaseInv /\ [Next]_vars => LeaseInv'
<1> SUFFICES ASSUME TypeInv, BeatInv, LeaseInv, [Next]_vars PROVE LeaseInv'
  OBVIOUS
<1>t. /\ phase \in [Sessions -> Phases] /\ beat \in [Sessions -> BeatStates]
      /\ replica \in [Sessions -> Replicas \cup {None}]
      /\ cluster \in [Sessions -> Clusters \cup {None}]
      /\ cancelled \in [Sessions -> BOOLEAN]
      /\ record \in [Clusters -> Replicas \cup {None}]
      /\ left \in [Clusters -> 0..TTL] /\ errors \in Nat /\ TTL \in Nat
  BY BoundAssumption, TTLAssumption DEF TypeInv, TypeOK
<1>b. \A u \in Sessions : beat[u] # "off" =>
         /\ phase[u] \notin Early /\ phase[u] # "new"
         /\ replica[u] \in Replicas /\ cluster[u] \in Clusters
  BY DEF TypeInv, BeatInv, Early
<1>1. ASSUME NEW s \in Sessions, NEW r \in Replicas, NEW c \in Clusters, Open(s, r, c)
      PROVE  LeaseInv'
  <2>1. /\ UNCHANGED <<record, left, errors, beat, cancelled>>
        /\ phase[s] = "new" /\ phase'[s] = "hello" /\ cluster'[s] = c
        /\ \A u \in Sessions \ {s} : /\ replica'[u] = replica[u] /\ cluster'[u] = cluster[u]
                                     /\ phase'[u] = phase[u]
    BY <1>1, <1>t DEF Open, dirVars, beatVars, bounds
  <2>2. Authored'
    BY <2>1 DEF LeaseInv, Authored, Early
  <2>3. Funded'
    <3> SUFFICES ASSUME NEW u \in Sessions, beat[u] # "off", ~cancelled[u], Sole(u)',
                        record[cluster'[u]] = replica'[u]
                 PROVE  left[cluster'[u]] + errors + Owed(u) >= TTL
      BY <2>1 DEF Funded, Owed
    <3>1. u # s
      BY <1>b, <2>1
    <3>2. \A v \in Sessions \ {u} : cluster[v] # cluster[u]
      <4>1. cluster[s] # cluster[u]
        BY <1>b, <2>1, NoneAssumption DEF LeaseInv, Unnamed
      <4> QED BY <2>1, <3>1, <4>1 DEF Sole
    <3> QED BY <2>1, <3>1, <3>2 DEF LeaseInv, Funded, Sole
  <2>4. Unnamed'
    BY <2>1 DEF LeaseInv, Unnamed
  <2> QED BY <2>2, <2>3, <2>4 DEF LeaseInv
<1>2. ASSUME NEW s \in Sessions, RegisterLocal(s) \/ SetStop(s) \/ Notice(s) \/ UnregisterLocal(s)
      PROVE  LeaseInv'
  <2>1. /\ UNCHANGED <<record, left, errors, beat, cancelled, replica, cluster>>
        /\ \A u \in Sessions : /\ phase[u] \notin Early => phase'[u] \notin Early
                               /\ phase'[u] = "new" => phase[u] = "new"
    BY <1>2, <1>t DEF RegisterLocal, SetStop, Notice, UnregisterLocal, Early, origin,
                      dirVars, beatVars, bounds
  <2> QED BY <1>t, <2>1, LeaseKept DEF Sole
<1>3. ASSUME NEW s \in Sessions, Announced(s) PROVE LeaseInv'
  <2>1. /\ UNCHANGED <<cancelled, replica, cluster>>
        /\ phase[s] = "announcing" /\ phase'[s] = "serving" /\ beat'[s] = "idle"
        /\ \A u \in Sessions \ {s} : phase'[u] = phase[u] /\ beat'[u] = beat[u]
    BY <1>3, <1>t DEF Announced, origin
  <2>2. beat[s] = "off"
    BY <1>b, <2>1 DEF Early
  <2> QED BY <1>3, <2>1, <2>2, CallFunds DEF Announced, Early
<1>4. ASSUME NEW s \in Sessions, Break(s) PROVE LeaseInv'
  <2>1. UNCHANGED <<record, left, errors, beat, cancelled, replica, cluster, phase>>
    BY <1>4 DEF Break, origin, dirVars, beatVars, bounds
  <2> QED BY <1>t, <2>1, LeaseKept DEF Sole
<1>5. ASSUME NEW s \in Sessions, StopHeartbeat(s) PROVE LeaseInv'
  <2>1. /\ UNCHANGED <<record, left, errors, beat, replica, cluster>>
        /\ \A u \in Sessions : /\ phase[u] \notin Early => phase'[u] \notin Early
                               /\ phase'[u] = "new" => phase[u] = "new"
                               /\ cancelled[u] => cancelled'[u]
    BY <1>5, <1>t DEF StopHeartbeat, Stopped, Early, origin, dirVars, bounds
  <2> QED BY <1>t, <2>1, LeaseKept DEF Sole
<1>6. ASSUME NEW s \in Sessions, Forgotten(s) PROVE LeaseInv'
  <2>1. /\ UNCHANGED <<beat, cancelled, replica, cluster>>
        /\ \A u \in Sessions : /\ phase[u] \notin Early => phase'[u] \notin Early
                               /\ phase'[u] = "new" => phase[u] = "new"
    BY <1>6, <1>t DEF Forgotten, Early, origin, beatVars
  <2>2. CASE CallFails
    <3>1. UNCHANGED <<record, left>> /\ errors' = errors + 1
      BY <2>2 DEF CallFails, dirVars
    <3> QED BY <1>t, <2>1, <3>1, LeaseKept DEF Sole
  <2>3. CASE Forget(cluster[s])
    <3>1. /\ UNCHANGED errors
          /\ \A c \in Clusters : record'[c] # None => record'[c] = record[c] /\ left'[c] = left[c]
      BY <1>t, <2>3 DEF Forget
    <3>2. Authored'
      BY <2>1, <3>1 DEF LeaseInv, Authored
    <3>3. Funded'
      <4> SUFFICES ASSUME NEW u \in Sessions, beat[u] # "off", ~cancelled[u], Sole(u),
                          record'[cluster[u]] = replica[u]
                   PROVE  left'[cluster[u]] + errors + Owed(u) >= TTL
        BY <2>1, <3>1 DEF Funded, Owed, Sole
      <4> QED BY <1>b, <3>1, NoneAssumption DEF LeaseInv, Funded
    <3>4. Unnamed'
      BY <2>1 DEF LeaseInv, Unnamed
    <3> QED BY <3>2, <3>3, <3>4 DEF LeaseInv
  <2> QED BY <1>6, <2>2, <2>3 DEF Forgotten
<1>7. ASSUME NEW s \in Sessions, HeartbeatFires(s) \/ HeartbeatEnds(s) PROVE LeaseInv'
  <2>1. /\ UNCHANGED <<record, left, errors, phase, cancelled, replica, cluster>>
        /\ \A u \in Sessions : /\ beat'[u] # "off" => beat[u] # "off"
                               /\ beat'[u] = "idle" => beat[u] = "idle"
    BY <1>7, <1>t DEF HeartbeatFires, HeartbeatEnds, origin, dirVars, bounds
  <2> QED BY <1>t, <2>1, LeaseKept DEF Sole
<1>8. ASSUME NEW s \in Sessions, HeartbeatReturns(s) PROVE LeaseInv'
  <2>1. /\ UNCHANGED <<cancelled, replica, cluster, phase>>
        /\ beat[s] = "calling" /\ beat'[s] = "idle"
        /\ \A u \in Sessions \ {s} : beat'[u] = beat[u]
    BY <1>8, <1>t DEF HeartbeatReturns, origin
  <2> QED BY <1>8, <1>b, <2>1, CallFunds DEF HeartbeatReturns, Refresh
<1>9. CASE Tick
  <2>1. /\ UNCHANGED <<phase, cancelled, replica, cluster, errors>>
        /\ \A u \in Sessions : beat'[u] # "off" => beat[u] = "idle" /\ beat'[u] = "due"
        /\ \A c \in Clusters : record'[c] # None =>
             record'[c] = record[c] /\ left'[c] = left[c] - 1
    BY <1>9, <1>t DEF Tick, OneLess, origin, bounds
  <2>2. Authored'
    BY <2>1 DEF LeaseInv, Authored
  <2>3. Funded'
    <3> SUFFICES ASSUME NEW u \in Sessions, beat'[u] # "off", ~cancelled[u], Sole(u),
                        record'[cluster[u]] = replica[u]
                 PROVE  left'[cluster[u]] + errors + Owed(u)' >= TTL
      BY <2>1 DEF Funded, Sole
    <3>1. beat[u] = "idle" /\ Owed(u) = 0 /\ Owed(u)' = 1
      BY <2>1 DEF Owed
    <3>2. record'[cluster[u]] # None /\ cluster[u] \in Clusters
      BY <1>b, <3>1, NoneAssumption
    <3>3. left[cluster[u]] + errors + Owed(u) >= TTL
      BY <2>1, <3>1, <3>2 DEF LeaseInv, Funded
    <3> QED BY <1>t, <2>1, <3>1, <3>2, <3>3
  <2>4. Unnamed'
    BY <2>1 DEF LeaseInv, Unnamed
  <2> QED BY <2>2, <2>3, <2>4 DEF LeaseInv
<1>10. ASSUME NEW r \in Replicas, Crash(r) PROVE LeaseInv'
  <2>1. /\ UNCHANGED <<record, left, errors, cancelled, replica, cluster>>
        /\ \A u \in Sessions : /\ phase[u] \notin Early => phase'[u] \notin Early
                               /\ phase'[u] = "new" => phase[u] = "new"
                               /\ beat'[u] # "off" => beat'[u] = beat[u]
    BY <1>10, <1>t DEF Crash, IsOpen, Early, origin, dirVars
  <2> QED BY <1>t, <2>1, LeaseKept DEF Sole
<1>11. CASE UNCHANGED vars
  <2>1. UNCHANGED <<record, left, errors, beat, cancelled, replica, cluster, phase>>
    BY <1>11 DEF vars
  <2> QED BY <1>t, <2>1, LeaseKept DEF Sole
<1> QED
  BY <1>1, <1>2, <1>3, <1>4, <1>5, <1>6, <1>7, <1>8, <1>9, <1>10, <1>11
  DEF Next, Handler, Heartbeat

LEMMA LeaseInvAlways == Spec => []LeaseInv
<1>1. OwnInv => BeatInv
  BY DEF OwnInv
<1> QED BY <1>1, TypeInvAlways, OwnInvAlways, LeaseInvInit, LeaseInvStep, PTL DEF Spec

\* Time never removes the record of a cluster's one session while its loop
\* runs and at most TTL - 2 directory calls failed, whatever the TTL: one
\* missed heartbeat of the code's 30s and 10s is free (heartbeatLoop, Announce).
THEOREM LeasesSurviveMisses == Spec => LeaseSurvivesMisses
<1>1. TypeInv /\ LeaseInv =>
       [\A s \in Sessions :
          /\ Tick /\ beat[s] = "idle" /\ ~cancelled[s] /\ errors <= TTL - 2
          /\ record[cluster[s]] = replica[s]
          /\ \A t \in Sessions \ {s} : cluster[t] # cluster[s]
          => record'[cluster[s]] = replica[s]]_vars
  <2> SUFFICES ASSUME TypeInv, LeaseInv, Tick, NEW s \in Sessions, beat[s] = "idle",
                      ~cancelled[s], errors <= TTL - 2, Sole(s),
                      record[cluster[s]] = replica[s]
               PROVE  record'[cluster[s]] = replica[s]
    BY DEF Sole
  <2>1. cluster[s] \in Clusters
    BY DEF TypeInv
  <2>2. left[cluster[s]] + errors >= TTL
    BY TTLAssumption, BoundAssumption DEF LeaseInv, Funded, Owed, TypeInv, TypeOK
  <2>3. left[cluster[s]] \in Int /\ errors \in Int /\ TTL \in Int
    BY <2>1, TTLAssumption, BoundAssumption DEF TypeInv, TypeOK
  <2>4. left[cluster[s]] > 1
    BY <2>2, <2>3
  <2> QED BY <2>1, <2>4 DEF Tick
<1> QED BY <1>1, TypeInvAlways, LeaseInvAlways, PTL DEF LeaseSurvivesMisses

(***************************************************************************)
(* What keeps a record in the directory.  That the record of a cluster     *)
(* which is gone goes away is a liveness property (GoneClusterIsDelisted); *)
(* these are the safety facts under it: a record has a lease, time runs it *)
(* down, and nobody renews it but an open session of the cluster.          *)
(***************************************************************************)

\* A step changes the directory only as time passing, as a Forget, or as an
\* Announce made by a handler or by a loop for its own session.
LEMMA DirectorySteps ==
  ASSUME [Next]_vars
  PROVE  \/ UNCHANGED dirVars
         \/ Tick
         \/ \E s \in Sessions : phase[s] = "forgetting" /\ Forget(cluster[s])
         \/ \E s \in Sessions : /\ phase[s] = "announcing" \/ beat[s] = "calling"
                                /\ Announce(cluster[s], replica[s])
<1>1. ASSUME NEW s \in Sessions, NEW r \in Replicas, NEW c \in Clusters, Open(s, r, c)
      PROVE  UNCHANGED dirVars
  BY <1>1 DEF Open
<1>2. ASSUME NEW s \in Sessions,
             \/ RegisterLocal(s) \/ SetStop(s) \/ Notice(s) \/ UnregisterLocal(s)
             \/ StopHeartbeat(s) \/ Break(s) \/ HeartbeatFires(s) \/ HeartbeatEnds(s)
      PROVE  UNCHANGED dirVars
  BY <1>2 DEF RegisterLocal, SetStop, Notice, UnregisterLocal, StopHeartbeat, Break,
              HeartbeatFires, HeartbeatEnds
<1>3. ASSUME NEW s \in Sessions, Announced(s)
      PROVE  \/ UNCHANGED dirVars
             \/ phase[s] = "announcing" /\ Announce(cluster[s], replica[s])
  BY <1>3 DEF Announced, CallFails, CallCancelled, dirVars
<1>4. ASSUME NEW s \in Sessions, HeartbeatReturns(s)
      PROVE  \/ UNCHANGED dirVars
             \/ beat[s] = "calling" /\ Announce(cluster[s], replica[s])
  BY <1>4 DEF HeartbeatReturns, Refresh, CallFails, CallCancelled, dirVars
<1>5. ASSUME NEW s \in Sessions, Forgotten(s)
      PROVE  \/ UNCHANGED dirVars
             \/ phase[s] = "forgetting" /\ Forget(cluster[s])
  BY <1>5 DEF Forgotten, CallFails
<1>6. ASSUME NEW r \in Replicas, Crash(r) PROVE UNCHANGED dirVars
  BY <1>6 DEF Crash
<1>7. CASE UNCHANGED vars
  BY <1>7 DEF vars, dirVars
<1> QED BY <1>1, <1>2, <1>3, <1>4, <1>5, <1>6, <1>7 DEF Next, Handler, Heartbeat

\* A record is listed exactly as long as its lease runs.
RecordIsLeased == \A c \in Clusters : record[c] # None <=> left[c] > 0

LEMMA RecordIsLeasedStep == TypeInv /\ BeatInv /\ RecordIsLeased /\ [Next]_vars => RecordIsLeased'
<1> SUFFICES ASSUME TypeInv, BeatInv, RecordIsLeased, [Next]_vars PROVE RecordIsLeased'
  OBVIOUS
<1>t. /\ record \in [Clusters -> Replicas \cup {None}] /\ left \in [Clusters -> 0..TTL]
      /\ TTL \in Nat /\ TTL >= 2
  BY TTLAssumption DEF TypeInv, TypeOK
<1>1. CASE UNCHANGED dirVars
  BY <1>1 DEF RecordIsLeased, dirVars
<1>2. CASE Tick
  BY <1>2, <1>t DEF RecordIsLeased, Tick, OneLess
<1>3. ASSUME NEW s \in Sessions, Forget(cluster[s]) PROVE RecordIsLeased'
  BY <1>3, <1>t DEF RecordIsLeased, Forget
<1>4. ASSUME NEW s \in Sessions, phase[s] = "announcing" \/ beat[s] = "calling",
             Announce(cluster[s], replica[s])
      PROVE  RecordIsLeased'
  <2>1. replica[s] # None
    BY <1>4, NoneAssumption DEF TypeInv
  <2> QED BY <1>4, <1>t, <2>1 DEF RecordIsLeased, Announce, Lease
<1> QED BY <1>1, <1>2, <1>3, <1>4, DirectorySteps

\* No record outlives its lease and none is dropped before it, but by Forget:
\* Tick takes the record away in the step that brings its lease to zero
\* (Announce, Lookup and the TTL of the directory's keys).
THEOREM RecordsExpire == Spec => []RecordIsLeased
<1>1. Init => RecordIsLeased
  BY DEF Init, RecordIsLeased
<1>2. OwnInv => BeatInv
  BY DEF OwnInv
<1> QED BY <1>1, <1>2, TypeInvAlways, OwnInvAlways, RecordIsLeasedStep, PTL DEF Spec

\* A lease grows only by a call of an open session of the cluster, or by the
\* last call of a loop that has been cancelled under it.
RenewedByOwners ==
  ~fleet.overlap =>
    \A c \in Clusters : left'[c] > left[c] =>
      \E s \in Sessions : cluster[s] = c /\ (IsOpen(s) \/ (beat[s] = "calling" /\ cancelled[s]))

\* While streams of one cluster never overlap on a replica, the record of a
\* cluster without an open session is renewed at most by the calls its loops
\* had already begun when they were cancelled; a crash leaves none.  With
\* RecordsExpire: the record goes within one TTL of those (unregister,
\* heartbeatLoop).  An overlap leaves a loop that nobody cancels.
THEOREM OwnersRenew == Spec => [][RenewedByOwners]_vars
<1>1. TypeInv /\ OwnInv /\ [Next]_vars => [RenewedByOwners]_vars
  <2> SUFFICES ASSUME TypeInv, OwnInv, [Next]_vars, ~fleet.overlap,
                      NEW c \in Clusters, left'[c] > left[c]
               PROVE  \E s \in Sessions :
                        cluster[s] = c /\ (IsOpen(s) \/ (beat[s] = "calling" /\ cancelled[s]))
    BY DEF RenewedByOwners
  <2>t. left \in [Clusters -> 0..TTL] /\ TTL \in Nat /\ left[c] \in Int
    BY TTLAssumption DEF TypeInv, TypeOK
  <2>1. ~UNCHANGED dirVars
    BY <2>t DEF dirVars
  <2>2. ~Tick
    BY <2>t DEF Tick, OneLess
  <2>3. ASSUME NEW s \in Sessions, Forget(cluster[s]) PROVE FALSE
    BY <2>3, <2>t DEF Forget
  <2>4. PICK s \in Sessions : /\ phase[s] = "announcing" \/ beat[s] = "calling"
                              /\ Announce(cluster[s], replica[s])
    BY <2>1, <2>2, <2>3, DirectorySteps
  <2>5. cluster[s] = c
    BY <2>4, <2>t DEF Announce
  <2>6. phase[s] = "announcing" => IsOpen(s)
    BY DEF IsOpen
  <2>7. beat[s] = "calling" => IsOpen(s) \/ cancelled[s]
    BY DEF IsOpen, OwnInv, BeatInv, OwnEntry
  <2> QED BY <2>4, <2>5, <2>6, <2>7
<1> QED BY <1>1, TypeInvAlways, OwnInvAlways, PTL DEF Spec

(***************************************************************************)
(* The run of both tickers.                                                *)
(***************************************************************************)

\* A behaviour of the two tickers together is, seen by each, one of its own
\* specification, fairness included: none reads or writes what the other does.
THEOREM TickersKeepTheirSpecs == TickersSpec => Spec /\ BookSpec
<1>1. TickersInit => Init /\ BookInit
  BY DEF TickersInit
<1>2. [TickersNext]_tickersVars => [Next]_vars
  BY DEF TickersNext, tickersVars, SessionsStep, BookStep
<1>3. [TickersNext]_tickersVars => [BookNext]_bookVars
  BY DEF TickersNext, tickersVars, SessionsStep, BookStep
<1> QED BY <1>1, <1>2, <1>3, PTL DEF TickersSpec, Spec, BookSpec
=============================================================================
