------------------------------ MODULE MCPolicy ------------------------------
(* Five groups, one of them not in the mapping, one with a tier name that   *)
(* does not exist, and every list of up to three of them.                   *)
EXTENDS PolicyRequests, SequencesExt, TLC

MCGroups == {"viewers", "devs", "sre", "typo", "sales"}
MCMapping == ("viewers" :> "readonly") @@ ("devs" :> "nonprod-admin")
             @@ ("sre" :> "prod-admin") @@ ("typo" :> "misspelt")
MCCallers == SeqOf(MCGroups, 3)
=============================================================================
