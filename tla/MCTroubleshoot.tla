--------------------------- MODULE MCTroubleshoot ---------------------------
(* Callers of each tier.  The developers' account scope leaves the second  *)
(* cluster out.                                                            *)
EXTENDS Troubleshoot, TLC

MCMapping  == ("viewers" :> "readonly") @@ ("devs" :> "nonprod-admin")
              @@ ("sre" :> "prod-admin")
MCGroupsOf == ("viewer" :> <<"viewers">>) @@ ("dev" :> <<"viewers", "devs">>)
              @@ ("admin" :> <<"devs", "sre">>)
MCScope    == (Callers \X Clusters) \ {<<"dev", "k2">>}

Symmetry == Permutations(Requests)
=============================================================================
