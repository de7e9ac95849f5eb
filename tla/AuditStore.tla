---------------------------- MODULE AuditStore ----------------------------
(***************************************************************************)
(* What internal/audit's Store promises the tools, whatever it keeps the   *)
(* entries in: an immutable trail, safe for concurrent use.  A call that   *)
(* succeeds takes effect at one moment between its start and its return:   *)
(* an Append puts its entry behind all others, a read (Get, ListByCluster) *)
(* sees every entry there is.  A call may fail at any time, with others,   *)
(* and then says nothing: the entry of an Append that fails may be there.  *)
(***************************************************************************)
EXTENDS Sequences

CONSTANTS Writers, Readers
StoreCalls == Writers \cup Readers

VARIABLES log,    \* the entries, each named by its Append
          call,   \* "out", "called", "done" or "failed", for each call
          answer  \* what a read returned
storeVars == <<log, call, answer>>

Init ==
  /\ log = <<>>
  /\ call = [c \in StoreCalls |-> "out"]
  /\ answer = [r \in Readers |-> <<>>]

Begin(c) ==
  /\ call[c] = "out"
  /\ call' = [call EXCEPT ![c] = "called"]
  /\ UNCHANGED <<log, answer>>

Appends(w) ==
  /\ call[w] = "called"
  /\ log' = Append(log, w)
  /\ call' = [call EXCEPT ![w] = "done"]
  /\ UNCHANGED answer

Reads(r) ==
  /\ call[r] = "called"
  /\ answer' = [answer EXCEPT ![r] = log]
  /\ call' = [call EXCEPT ![r] = "done"]
  /\ UNCHANGED log

\* An error, or the death of the process all of them were made in; one of
\* them at most was writing.
Fail(lost) ==
  /\ \A c \in lost : call[c] = "called"
  /\ call' = [c \in StoreCalls |-> IF c \in lost THEN "failed" ELSE call[c]]
  /\ log' \in {log} \cup {Append(log, w) : w \in lost \cap Writers}
  /\ UNCHANGED answer

Next ==
  \/ \E c \in StoreCalls : Begin(c)
  \/ \E w \in Writers : Appends(w)
  \/ \E r \in Readers : Reads(r)
  \/ \E lost \in SUBSET StoreCalls : Fail(lost)

Spec == Init /\ [][Next]_storeVars
=============================================================================
