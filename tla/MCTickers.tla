------------------------------ MODULE MCTickers ------------------------------
(* Two tickers of the hub and what they bring about in the end: the records *)
(* of the fleet directory and the runbook catalogue.  In a behaviour one of *)
(* the two is busy; the sessions have none, or nobody edits or looks up     *)
(* runbooks.  A ticker with nothing to do ticks on.                         *)
EXTENDS MCHubSessions, Runbooks

VARIABLE busy

tickersVars == <<vars, bookVars, busy>>

TickersInit ==
  /\ Init /\ BookInit /\ busy \in {"sessions", "runbooks"}
  /\ busy = "runbooks" => fleet = Shared(FALSE)

SessionsStep == busy = "sessions" /\ Next /\ UNCHANGED bookVars
BookStep ==
  /\ BookNext
  /\ busy = "sessions" => UNCHANGED <<text, onDisk, edits, rewritten, lookupVars>>
  /\ UNCHANGED vars

TickersNext == (SessionsStep \/ BookStep) /\ UNCHANGED busy
TickersSpec == TickersInit /\ [][TickersNext]_tickersVars /\ Fairness /\ BookFairness

-----------------------------------------------------------------------------

\* Two versions of the file: one with a section that cannot be looked up and
\* a general one, and one that renames the cause and adds a section.
Sect(kind, keywords, signatures, source) ==
  [kind |-> kind, keywords |-> keywords, signatures |-> signatures,
   source |-> source, cut |-> FALSE]

MCFirstDoc == <<Sect("", {}, {}, "self"),
                Sect("dns", {"dns"}, {"nxdomain"}, "self"),
                Sect("", {"dns", "evicted"}, {}, "self")>>
MCSecondDoc == <<Sect("dns", {"dns"}, {"timeout"}, "coredns"),
                 Sect("evicted", {"evicted"}, {}, "self")>>
MCDocuments == {MCFirstDoc, MCSecondDoc}

MCKindOf == ("l1" :> "dns") @@ ("l2" :> "evicted")
MCLogTexts == SUBSET {"nxdomain", "timeout"}
=============================================================================
