--------------------------- MODULE MCHubSessions ---------------------------
(* The deployments the runs of HubSessions look at, and the symmetry of its *)
(* safety run: sessions, and replicas, are interchangeable everywhere.      *)
EXTENDS HubSessions, TLC

Shared(overlap) == [replicas |-> Replicas, registry |-> TRUE, overlap |-> overlap]
Alone(r, overlap) == [replicas |-> {r}, registry |-> FALSE, overlap |-> overlap]

AnyFleet == {Shared(o) : o \in BOOLEAN}
            \cup {Alone(r, o) : r \in Replicas, o \in BOOLEAN}
OrderlyFleet == {f \in AnyFleet : ~f.overlap}
OverlapFleet == {Shared(TRUE)}

Symmetry == Permutations(Sessions) \cup Permutations(Replicas)
=============================================================================
