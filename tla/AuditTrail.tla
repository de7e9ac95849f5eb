----------------------------- MODULE AuditTrail -----------------------------
(***************************************************************************)
(* The audit trail's file (internal/audit FileStore): one JSON line for    *)
(* each entry, appended by the hub-server replicas that mount the same     *)
(* volume and read back as a whole.  The store's mutex orders the calls of *)
(* one process; between processes there is only the file system, which     *)
(* keeps two O_APPEND writes apart but shows a reader a write under way.   *)
(***************************************************************************)
EXTENDS Integers, Sequences, SequencesExt

CONSTANTS
  Writers,       \* calls of Append, each with an entry of its own (a bound)
  Oversized,     \* those whose entry is a line of more than 8 MiB
  Readers,       \* calls of Get and ListByCluster (a bound)
  StoreOf,       \* the process each call is made in
  Nobody,        \* a value that is not a call
  MaxStoreDeaths \* processes that die (a bound)

AuditCalls == Writers \cup Readers
Stores == {StoreOf[c] : c \in AuditCalls}

ASSUME AuditCallsAssumption ==
  /\ Writers \cap Readers = {} /\ Oversized \subseteq Writers /\ Nobody \notin AuditCalls
  /\ DOMAIN StoreOf = AuditCalls
ASSUME DeathsAssumption == MaxStoreDeaths \in Nat

VARIABLES
  file,    \* what was written, in order: [of, part]
  holder,  \* who holds each store's mutex
  stage,   \* where each call is
  outcome, \* what it returned
  answer,  \* the entries a read returned
  known,   \* the appends that had returned when a read was called
  deaths

auditVars == <<file, holder, stage, outcome, answer, known, deaths>>

\* How much of a line is in the file: all of it, all but the newline, or less.
Parts == {"line", "bare", "torn"}
Stages == {"out", "called", "inside", "writing", "returned"}
Outcomes == {"none", "done", "failed", "died"}

AuditInit ==
  /\ file = <<>>
  /\ holder = [s \in Stores |-> Nobody]
  /\ stage = [c \in AuditCalls |-> "out"]
  /\ outcome = [c \in AuditCalls |-> "none"]
  /\ answer = [r \in Readers |-> <<>>]
  /\ known = [r \in Readers |-> {}]
  /\ deaths = 0

\* The write under way, if any, is the last of the file.
Writing == \E w \in Writers : stage[w] = "writing"

Returned(c, o) ==
  /\ stage' = [stage EXCEPT ![c] = "returned"]
  /\ outcome' = [outcome EXCEPT ![c] = o]
  /\ holder' = [holder EXCEPT ![StoreOf[c]] = Nobody]

CallStore(c) ==
  /\ stage[c] = "out"
  /\ stage' = [stage EXCEPT ![c] = "called"]
  /\ known' = IF c \in Readers
              THEN [known EXCEPT ![c] = {w \in Writers : outcome[w] = "done"}] ELSE known
  /\ UNCHANGED <<file, holder, outcome, answer, deaths>>

AnyTime(s) == TRUE                                      \* mutant of MutexFree
MutexFree(s) == holder[s] = Nobody

Lock(c) ==
  /\ stage[c] = "called" /\ MutexFree(StoreOf[c])
  /\ holder' = [holder EXCEPT ![StoreOf[c]] = c]
  /\ stage' = [stage EXCEPT ![c] = "inside"]
  /\ UNCHANGED <<file, outcome, answer, known, deaths>>

\* The open of either call fails.
OpenFails(c) ==
  /\ stage[c] = "inside"
  /\ Returned(c, "failed")
  /\ UNCHANGED <<file, answer, known, deaths>>

Truncated(w) == <<[of |-> w, part |-> "torn"]>>           \* mutant of Appending
Appending(w) == Append(file, [of |-> w, part |-> "torn"])

\* Append's one Write begins, ...
StartWrite(w) ==
  /\ stage[w] = "inside" /\ ~Writing
  /\ file' = Appending(w)
  /\ stage' = [stage EXCEPT ![w] = "writing"]
  /\ UNCHANGED <<holder, outcome, answer, known, deaths>>

Upto(p) == [file EXCEPT ![Len(file)].part = p]

\* ... and ends with the whole line, ...
EndWrite(w) ==
  /\ stage[w] = "writing"
  /\ file' = Upto("line")
  /\ Returned(w, "done")
  /\ UNCHANGED <<answer, known, deaths>>

IgnoredError == "done"                             \* mutant of WriteErrorIs
WriteErrorIs == "failed"

\* ... or short of it, on a full disk or an I/O error; nothing is taken back.
ShortWrite(w) ==
  /\ stage[w] = "writing"
  /\ file' \in {Front(file), Upto("torn"), Upto("bare")}
  /\ Returned(w, WriteErrorIs)
  /\ UNCHANGED <<answer, known, deaths>>

\* A line is read if it is one entry's JSON and nothing else, and the scanner's
\* buffer holds it; a last line needs no newline.  Append has no such limit.
FitsBuffer(i) == file[i].of \notin Oversized
Decodes(i) == file[i].part # "torn" /\ (i > 1 => file[i-1].part = "line")

Readable == \A i \in 1..Len(file) : Decodes(i) /\ FitsBuffer(i)

\* all(): every entry of the file, or an error: a line that does not decode,
\* one that is too long (sc.Err), or a read that fails.
ReadAll(r) ==
  /\ stage[r] = "inside"
  /\ \/ /\ Readable
        /\ answer' = [answer EXCEPT ![r] = [i \in 1..Len(file) |-> file[i].of]]
        /\ Returned(r, "done")
     \/ Returned(r, "failed") /\ UNCHANGED answer
  /\ UNCHANGED <<file, known, deaths>>

\* A process dies, with what it had written of a line in the file, and is
\* started again: NewFileStore opens the file as it is.
StoreDies(s) ==
  /\ deaths < MaxStoreDeaths /\ holder[s] # Nobody
  /\ deaths' = deaths + 1
  /\ \E p \in Parts : file' = IF stage[holder[s]] = "writing" THEN Upto(p) ELSE file
  /\ holder' = [holder EXCEPT ![s] = Nobody]
  /\ LET lost == {c \in AuditCalls : StoreOf[c] = s /\ stage[c] \in {"called", "inside", "writing"}}
     IN /\ stage' = [c \in AuditCalls |-> IF c \in lost THEN "returned" ELSE stage[c]]
        /\ outcome' = [c \in AuditCalls |-> IF c \in lost THEN "died" ELSE outcome[c]]
  /\ UNCHANGED <<answer, known>>

AuditNext ==
  \/ \E c \in AuditCalls : CallStore(c) \/ Lock(c) \/ OpenFails(c)
  \/ \E w \in Writers : StartWrite(w) \/ EndWrite(w) \/ ShortWrite(w)
  \/ \E r \in Readers : ReadAll(r)
  \/ \E s \in Stores : StoreDies(s)

AuditSpec == AuditInit /\ [][AuditNext]_auditVars

-----------------------------------------------------------------------------
(* Properties.                                                             *)

AuditTypeOK ==
  /\ file \in Seq([of : Writers, part : Parts])
  /\ holder \in [Stores -> AuditCalls \cup {Nobody}]
  /\ stage \in [AuditCalls -> Stages] /\ outcome \in [AuditCalls -> Outcomes]
  /\ answer \in [Readers -> Seq(Writers)]
  /\ known \in [Readers -> SUBSET Writers]
  /\ deaths \in 0..MaxStoreDeaths

ReadDone(r) == r \in Readers /\ outcome[r] = "done"

\* A read that succeeds misses no entry whose Append had returned before the
\* read was called, on any replica: an approval finds the incident it names.
ReadsMissNothing ==
  \A r \in Readers : ReadDone(r) => known[r] \subseteq ToSet(answer[r])

\* A read cannot succeed, its own open and reads of the device aside, only
\* after some Append was cut short, while another replica is writing, or with
\* an entry in the file that Append took and no reader's buffer holds: the
\* calls of one process cannot disturb each other (mu), and no order of whole
\* writes by several spoils the file.
ReadersAreUndisturbed ==
  \A r \in Readers :
    stage[r] = "inside" /\ ~Readable =>
      \/ \E w \in Writers : outcome[w] \in {"failed", "died"}
      \/ \E w \in Writers : stage[w] = "writing" /\ StoreOf[w] # StoreOf[r]
      \/ \E w \in Oversized : outcome[w] = "done"

\* The log of AuditStore is the file without the write under way, which no
\* read that succeeds has seen.
Written == IF Writing THEN Front(file) ELSE file
FileLog == [i \in 1..Len(Written) |-> Written[i].of]
Ended(c) == IF outcome[c] = "done" THEN "done" ELSE "failed"
FileCall == [c \in AuditCalls |-> IF stage[c] = "returned" THEN Ended(c)
                                  ELSE IF stage[c] = "out" THEN "out" ELSE "called"]
Store == INSTANCE AuditStore WITH log <- FileLog, call <- FileCall

\* Several processes with a mutex each over one file that nothing locks keep
\* the interface's word: "Implementations must be safe for concurrent use".
\* Reads agree on one order of the entries and none sees an Append that is
\* still to be taken back, however writes are cut and processes die.
FileImplementsStore == Store!Spec
=============================================================================
