------------------------------ MODULE Runbooks ------------------------------
(***************************************************************************)
(* The runbook catalogue (internal/runbooks) and the answers troubleshoot  *)
(* takes from it when no playbook knows the signal (runbookFallback and    *)
(* confirmViaLogs in internal/mcptools).  People edit the markdown file    *)
(* under the running hub, which reads it again on every tick.              *)
(*                                                                         *)
(* A document is a sequence of sections.  A section is its metadata, with  *)
(* keywords standing for all the words Find compares, and the part of its  *)
(* text that is there.                                                     *)
(***************************************************************************)
EXTENDS Integers, Sequences, SequencesExt

CONSTANTS
  Documents,  \* the texts the file is given
  FirstDoc,   \* the one the hub starts with
  Lookups,    \* requests with a signal no playbook knows (a bound)
  KindOf,     \* the kind of each, which is also the query
  LogTexts,   \* what a fetched log may hold: sets of signatures
  NoEntry,    \* a value that is not a section
  MaxEdits    \* edits of the file (a bound)

Section == [kind : STRING, keywords : SUBSET STRING, signatures : SUBSET STRING,
            source : STRING, cut : BOOLEAN]

\* The texts are whole: no section is cut short by the end of the file.
ASSUME DocumentsAssumption ==
  /\ FirstDoc \in Documents /\ MaxEdits \in Nat
  /\ \A d \in Documents : d \in Seq(Section) /\ \A i \in DOMAIN d : ~d[i].cut
ASSUME NoEntryAssumption == NoEntry \notin Section

VARIABLES
  text,     \* the document the file is meant to hold
  onDisk,   \* what it holds; Gone if there is no file
  edits,
  rewritten,\* an edit has been made in place, not by renaming
  catalogue,\* Store.entries
  data,     \* what Reload has read and not yet swapped in, or NoEntry
  watching, \* WatchAndReload's loop goes on
  asked,    \* where each lookup is
  pick,     \* the entry Find gave it
  told      \* its answer: [entry, confirmed, log, source]

bookVars == <<text, onDisk, edits, rewritten, catalogue, data, watching, asked, pick, told>>
lookupVars == <<asked, pick, told>>

Gone == <<NoEntry>>
NoAnswer == [entry |-> NoEntry, confirmed |-> FALSE, log |-> {}, source |-> "none"]

\* parse: a section that cannot be looked up is dropped.
CanBeFound(e) == e.kind # "" \/ e.keywords # {}
KeptAll(d) == d                                             \* mutant of Parse
Parse(d) ==
  LET kept[n \in 0..Len(d)] ==
        IF n = 0 THEN <<>>
        ELSE IF CanBeFound(d[n]) THEN Append(kept[n-1], d[n]) ELSE kept[n-1]
  IN  kept[Len(d)]

BookInit ==
  /\ text = FirstDoc /\ onDisk = FirstDoc
  /\ edits = 0 /\ rewritten = FALSE
  /\ catalogue = Parse(FirstDoc)
  /\ data = NoEntry /\ watching = TRUE
  /\ asked = [l \in Lookups |-> "new"]
  /\ pick = [l \in Lookups |-> NoEntry]
  /\ told = [l \in Lookups |-> NoAnswer]

-----------------------------------------------------------------------------
(* The file.                                                               *)

Edited(d) ==
  /\ edits < MaxEdits /\ onDisk \in {text, Gone}
  /\ edits' = edits + 1
  /\ text' = d

\* A new file takes the place of the old one (a mounted ConfigMap).
Replace(d) ==
  /\ Edited(d)
  /\ onDisk' = d
  /\ UNCHANGED <<rewritten, catalogue, data, watching, lookupVars>>

RemoveFile ==
  /\ onDisk # Gone /\ Edited(text)
  /\ onDisk' = Gone
  /\ UNCHANGED <<rewritten, catalogue, data, watching, lookupVars>>

\* The file is emptied, and written section by section.
Rewrite(d) ==
  /\ Edited(d)
  /\ onDisk' = <<>>
  /\ rewritten' = TRUE
  /\ UNCHANGED <<catalogue, data, watching, lookupVars>>

Half(e) == [e EXCEPT !.keywords = {}, !.signatures = {}, !.cut = TRUE]

WriteOn ==
  /\ onDisk \notin {text, Gone}
  /\ onDisk' = IF onDisk # <<>> /\ Last(onDisk).cut
               THEN SubSeq(text, 1, Len(onDisk))
               ELSE Append(onDisk, Half(text[Len(onDisk) + 1]))
  /\ UNCHANGED <<text, edits, rewritten, catalogue, data, watching, lookupVars>>

-----------------------------------------------------------------------------
(* Reload, called by WatchAndReload alone.                                 *)

StopsOnError == FALSE                              \* mutant of AfterReadError
AfterReadError == TRUE

\* ReadFile, outside the lock.
ReloadReads ==
  /\ watching /\ data = NoEntry
  /\ data' = onDisk
  /\ watching' = (onDisk = Gone => AfterReadError)
  /\ UNCHANGED <<text, onDisk, edits, rewritten, catalogue, lookupVars>>

AnyData(d) == Parse(IF d = Gone THEN <<>> ELSE d)            \* mutant of NewSet
NewSet(d) == IF d = Gone THEN catalogue ELSE Parse(d)

ReloadSwaps ==
  /\ data # NoEntry
  /\ catalogue' = NewSet(data)
  /\ data' = NoEntry
  /\ UNCHANGED <<text, onDisk, edits, rewritten, watching, lookupVars>>

-----------------------------------------------------------------------------
(* A lookup.                                                               *)

Entries == ToSet(catalogue)
Exact(k) == {e \in Entries : e.kind = k}
Similar(k) == {e \in Entries : k \in e.keywords}

\* Find: the first entry of exactly this kind, or the one most like it.
\* Which of those that share a word with the query scores best, and whether
\* the score is enough, depends on every text in the catalogue: left open.
Candidates(k) ==
  IF k # "" /\ Exact(k) # {}
  THEN {catalogue[CHOOSE i \in 1..Len(catalogue) :
          /\ catalogue[i].kind = k
          /\ \A j \in 1..(i-1) : catalogue[j].kind # k]}
  ELSE Similar(k) \cup {NoEntry}

Answered(l, a) ==
  /\ asked' = [asked EXCEPT ![l] = "answered"]
  /\ told' = [told EXCEPT ![l] = a]

Plain(e) == [NoAnswer EXCEPT !.entry = e]

Find(l) ==
  /\ asked[l] = "new"
  /\ \E e \in Candidates(KindOf[l]) :
       /\ pick' = [pick EXCEPT ![l] = e]
       /\ IF e # NoEntry /\ e.signatures # {}
          THEN asked' = [asked EXCEPT ![l] = "logs"] /\ UNCHANGED told
          ELSE Answered(l, Plain(e))
  /\ UNCHANGED <<text, onDisk, edits, rewritten, catalogue, data, watching>>

\* mutant of Picked: the entry is looked up again once the log is there
PickedAgain(l) == IF Exact(KindOf[l]) = {} THEN pick[l]
                  ELSE CHOOSE e \in Exact(KindOf[l]) : TRUE
Picked(l) == pick[l]

\* GetLogs: a log of the signal's pod, or of one of the Deployment's that the
\* entry names.  One that cannot be had is as good as one without a signature.
GetLogs == LogTexts \cup {{}}

\* confirmViaLogs: the entry's own log source is asked; without one of its
\* signatures there the answer is the plain one.
Confirm(l) ==
  /\ asked[l] = "logs"
  /\ \E log \in GetLogs :
       IF pick[l].signatures \cap log # {}
       THEN Answered(l, [entry |-> Picked(l), confirmed |-> TRUE,
                         log |-> log, source |-> pick[l].source])
       ELSE Answered(l, Plain(Picked(l)))
  /\ UNCHANGED <<text, onDisk, edits, rewritten, catalogue, data, watching, pick>>

BookNext ==
  \/ \E d \in Documents : Replace(d) \/ Rewrite(d)
  \/ RemoveFile \/ WriteOn
  \/ ReloadReads \/ ReloadSwaps
  \/ \E l \in Lookups : Find(l) \/ Confirm(l)

\* The ticker fires and its reload is finished; an edit in place is finished.
Reload == ReloadReads \/ ReloadSwaps
BookFairness == WF_bookVars(Reload) /\ WF_bookVars(WriteOn)

BookSpec == BookInit /\ [][BookNext]_bookVars /\ BookFairness

-----------------------------------------------------------------------------
(* Properties.                                                             *)

BookTypeOK ==
  /\ text \in Documents /\ edits \in 0..MaxEdits
  /\ onDisk \in Seq(Section) \cup {Gone}
  /\ rewritten \in BOOLEAN /\ watching \in BOOLEAN
  /\ catalogue \in Seq(Section) /\ \A e \in Entries : CanBeFound(e)
  /\ data \in Seq(Section) \cup {Gone, NoEntry}
  /\ asked \in [Lookups -> {"new", "logs", "answered"}]
  /\ pick \in [Lookups -> Section \cup {NoEntry}]
  /\ \A l \in Lookups : told[l].confirmed \in BOOLEAN

Catalogues == {Parse(d) : d \in Documents}

\* While the file is only ever replaced as a whole, or missing for a time,
\* the catalogue is that of one of its documents, never a part of one and
\* never empty because the file was: a failed reload leaves "the previous
\* good set of entries in place" (Reload).
CatalogueIsWhole == ~rewritten => catalogue \in Catalogues

\* What a caller is told was confirmed by the log comes from one entry: its
\* text, its log source and one of its signatures found there, although the
\* catalogue may be reloaded while the log is fetched (confirmViaLogs).
ConfirmedByOwnLog ==
  \A l \in Lookups :
    LET a == told[l] IN
    a.confirmed => /\ a.entry # NoEntry
                   /\ a.source = a.entry.source
                   /\ a.log \cap a.entry.signatures # {}

\* An edited document is in the catalogue in the end unless it is edited
\* again, whatever reloads failed before (WatchAndReload).
EditsAreSeen ==
  \A d \in Documents : onDisk = d ~> catalogue = Parse(d) \/ onDisk # d
=============================================================================
