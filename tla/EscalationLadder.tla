------------------------- MODULE EscalationLadder -------------------------
(***************************************************************************)
(* internal/execengine: one request walking a playbook's escalation ladder *)
(* (Run) or running the single action a human approved (RunApproved).      *)
(*                                                                         *)
(* A rung's closures call the Kubernetes API, so each is a step of its     *)
(* own, between which the request's context may be cancelled.  Any call    *)
(* may fail; once the context is cancelled all of them do.  What a closure *)
(* does to the cluster is kept as the set of rungs whose effect is in      *)
(* force; a Run that failed may or may not have had an effect.             *)
(***************************************************************************)
EXTENDS Integers, Sequences

CONSTANTS
  Ladders,     \* the ladders playbooks build
  MaxActions,  \* the cap on a ladder's length
  MaxLen       \* longest ladder in Ladders (a bound)

Risks == {"safe", "medium", "high"}

\* One rung: its risk and which of its closures are set.
Action == [risk : Risks, snapshot : BOOLEAN, run : BOOLEAN,
           validate : BOOLEAN, rollback : BOOLEAN]

\* A rung with no Run closure is a suggestion for a human and high risk.
WellFormed(l) == \A i \in 1..Len(l) : l[i].run \/ l[i].risk = "high"

ASSUME LaddersAssumption ==
  /\ MaxActions \in Nat \ {0} /\ MaxLen \in Nat
  /\ Ladders \subseteq Seq(Action)
  /\ \A l \in Ladders : Len(l) <= MaxLen /\ WellFormed(l)

VARIABLES
  mode,      \* "run" for Run, "approve" for RunApproved
  ladder,
  rung,      \* the action being considered
  step,      \* where the goroutine is
  taken,     \* runOne's snap is not nil
  attempt,   \* runOne's AttemptResult so far
  attempts,  \* Result.Attempts
  resolved,  \* Result.Resolved
  ctxDone,   \* the request's context is cancelled
  ran,       \* rungs whose Run was called
  inForce    \* rungs whose effect is on the cluster

vars == <<mode, ladder, rung, step, taken, attempt, attempts, resolved,
          ctxDone, ran, inForce>>

Steps == {"start", "next", "snapshot", "run", "validate", "rollback",
          "done", "panic"}
Errors == {"none", "refused", "snapshot", "run", "validate"}

\* AttemptResult: which rung, what went wrong, and the flags it reports.
AttemptResult == [rung : 1..MaxLen, err : Errors, validated : BOOLEAN,
                  rolledBack : BOOLEAN, undoFailed : BOOLEAN, skipped : BOOLEAN]
\* mutant of NewAttempt
AttemptFromZero(i) == [rung |-> i - 1, err |-> "none", validated |-> FALSE,
                  rolledBack |-> FALSE, undoFailed |-> FALSE, skipped |-> FALSE]
NewAttempt(i) == [rung |-> i, err |-> "none", validated |-> FALSE,
                  rolledBack |-> FALSE, undoFailed |-> FALSE, skipped |-> FALSE]

Terminated == step \in {"done", "panic"}

Init ==
  /\ mode \in {"run", "approve"}
  /\ ladder \in Ladders
  /\ rung \in 1..MaxLen
  /\ IF mode = "run" THEN rung = 1 ELSE rung <= Len(ladder)
  /\ step = "start"
  /\ taken = FALSE
  /\ attempt = NewAttempt(rung)
  /\ attempts = <<>>
  /\ resolved = FALSE
  /\ ctxDone = FALSE
  /\ ran = {}
  /\ inForce = {}

\* runOne begins on rung i.
Enter(i) ==
  /\ rung' = i
  /\ attempt' = NewAttempt(i)
  /\ taken' = FALSE
  /\ step' = "snapshot"

\* runOne returns a: it is recorded, and Run stops or goes to the next rung.
ReturnFrom(a) ==
  /\ attempts' = Append(attempts, a)
  /\ attempt' = a
  /\ resolved' = (mode = "run" /\ a.validated)
  /\ step' = IF mode = "approve" \/ a.validated THEN "done" ELSE "next"

AnyLength == TRUE                                   \* mutant of LengthAllowed
LengthAllowed == Len(ladder) \in 1..MaxActions

\* Run refuses an empty or too long ladder; RunApproved has no ladder to check.
Start ==
  /\ step = "start"
  /\ IF mode = "approve" THEN Enter(rung)
     ELSE /\ step' = IF LengthAllowed THEN "next" ELSE "done"
          /\ UNCHANGED <<rung, taken, attempt>>
  /\ UNCHANGED <<mode, ladder, attempts, resolved, ctxDone, ran, inForce>>

NextRung == Len(attempts) + 1

NeverRefused == FALSE                                     \* mutant of Refused
Refused == ladder[NextRung].risk = "high"

\* The ladder stops at a high-risk rung, recorded as skipped.
RefuseHighRisk ==
  /\ step = "next" /\ NextRung <= Len(ladder) /\ Refused
  /\ LET a == [NewAttempt(NextRung) EXCEPT !.err = "refused", !.skipped = TRUE]
     IN attempts' = Append(attempts, a) /\ attempt' = a
  /\ rung' = NextRung
  /\ step' = "done"
  /\ UNCHANGED <<mode, ladder, taken, resolved, ctxDone, ran, inForce>>

BeginRung ==
  /\ step = "next" /\ NextRung <= Len(ladder) /\ ~Refused
  /\ Enter(NextRung)
  /\ UNCHANGED <<mode, ladder, attempts, resolved, ctxDone, ran, inForce>>

Exhausted ==
  /\ step = "next" /\ NextRung > Len(ladder)
  /\ step' = "done"
  /\ UNCHANGED <<mode, ladder, rung, taken, attempt, attempts, resolved,
                 ctxDone, ran, inForce>>

\* A failed snapshot ends the rung before anything was done.
TakeSnapshot ==
  /\ step = "snapshot"
  /\ \/ /\ ladder[rung].snapshot => ~ctxDone
        /\ taken' = ladder[rung].snapshot
        /\ step' = "run"
        /\ UNCHANGED <<attempt, attempts, resolved>>
     \/ /\ ladder[rung].snapshot
        /\ ReturnFrom([attempt EXCEPT !.err = "snapshot"])
        /\ UNCHANGED taken
  /\ UNCHANGED <<mode, ladder, rung, ctxDone, ran, inForce>>

\* The rung's Run closure: success, an error with or without an effect, or,
\* when there is none, a call of a nil function.
RunAction ==
  /\ step = "run"
  /\ IF ladder[rung].run
     THEN /\ ran' = ran \cup {rung}
          /\ \/ /\ ~ctxDone
                /\ inForce' = inForce \cup {rung}
                /\ step' = "validate"
                /\ UNCHANGED attempt
             \/ /\ inForce' \in {inForce, inForce \cup {rung}}
                /\ step' = "rollback"
                /\ attempt' = [attempt EXCEPT !.err = "run"]
     ELSE step' = "panic" /\ UNCHANGED <<attempt, ran, inForce>>
  /\ UNCHANGED <<mode, ladder, rung, taken, attempts, resolved, ctxDone>>

\* Without a Validate closure the success of Run is the verdict.
Validate ==
  /\ step = "validate"
  /\ \/ /\ ladder[rung].validate => ~ctxDone
        /\ ReturnFrom([attempt EXCEPT !.validated = TRUE])
     \/ /\ ladder[rung].validate
        /\ \E e \in IF ctxDone THEN {"validate"} ELSE {"none", "validate"} :
             attempt' = [attempt EXCEPT !.err = e]
        /\ step' = "rollback"
        /\ UNCHANGED <<attempts, resolved>>
  /\ UNCHANGED <<mode, ladder, rung, taken, ctxDone, ran, inForce>>

RollbackNever == FALSE                                   \* mutant of CanUndo
CanUndo == ladder[rung].rollback /\ taken

\* mutant of UndoFailure
UndoReported(a) == [a EXCEPT !.undoFailed = TRUE, !.rolledBack = TRUE]
UndoFailure(a) == [a EXCEPT !.undoFailed = TRUE]

Rollback ==
  /\ step = "rollback"
  /\ \/ ~CanUndo /\ ReturnFrom(attempt) /\ UNCHANGED inForce
     \/ /\ CanUndo /\ ~ctxDone
        /\ ReturnFrom([attempt EXCEPT !.rolledBack = TRUE])
        /\ inForce' = inForce \ {rung}
     \/ /\ CanUndo
        /\ ReturnFrom(UndoFailure(attempt))
        /\ UNCHANGED inForce
  /\ UNCHANGED <<mode, ladder, rung, taken, ctxDone, ran>>

\* The caller gave up, or the agent is shutting down.
Cancel ==
  /\ ~ctxDone /\ ~Terminated
  /\ ctxDone' = TRUE
  /\ UNCHANGED <<mode, ladder, rung, step, taken, attempt, attempts, resolved,
                 ran, inForce>>

Walk == Start \/ RefuseHighRisk \/ BeginRung \/ Exhausted \/ TakeSnapshot
        \/ RunAction \/ Validate \/ Rollback
Next == Walk \/ Cancel

\* The goroutine runs and every call to the API server returns.
Spec == Init /\ [][Next]_vars /\ WF_vars(Walk)

-----------------------------------------------------------------------------
(* Properties.                                                             *)

TypeOK ==
  /\ mode \in {"run", "approve"}
  /\ ladder \in Ladders
  /\ rung \in 1..MaxLen
  /\ step \in Steps
  /\ taken \in BOOLEAN
  /\ attempt \in AttemptResult
  /\ attempts \in Seq(AttemptResult)
  /\ resolved \in BOOLEAN
  /\ ctxDone \in BOOLEAN
  /\ ran \subseteq 1..MaxLen
  /\ inForce \subseteq 1..MaxLen

\* "A policy.RiskHigh action is never run" by Run: whatever failed before it,
\* no high-risk closure is called unless that one action was approved, and an
\* approval runs nothing else.
HighRiskNeedsApproval ==
  /\ mode = "run" => \A i \in ran : ladder[i].risk # "high"
  /\ mode = "approve" => ran \subseteq {rung}

\* Rung i could have been undone and nothing went wrong undoing it.
Undoable(i) == /\ ladder[i].snapshot /\ ladder[i].rollback
               /\ \A k \in 1..Len(attempts) :
                    attempts[k].rung = i => ~attempts[k].undoFailed

\* "Every action that doesn't resolve the incident is rolled back
\* (best-effort) before the next one runs": when a rung begins, and when the
\* ladder ends unresolved, nothing that could be undone is still in force.
UndoneBeforeEscalating ==
  (\/ step \in {"next", "snapshot"}
   \/ step = "done" /\ \A k \in 1..Len(attempts) : ~attempts[k].validated)
  => \A i \in inForce : ~Undoable(i)

\* The audit record tells what happened on the cluster: a rung reported
\* validated was run and is in force, one reported rolled back is not, one
\* skipped or stopped by its snapshot was never run.
RecordIsTrue ==
  \A k \in 1..Len(attempts) :
    LET a == attempts[k] IN
      /\ mode = "run" => a.rung = k
      /\ a.validated => a.rung \in inForce
      /\ a.rolledBack => a.rung \in ran /\ a.rung \notin inForce
      /\ a.skipped \/ a.err = "snapshot" <=> a.rung \notin ran

\* What a reader of the record concludes from each attempt.
Verdict(a) == IF a.validated THEN "healthy"
              ELSE IF a.skipped THEN "refused" ELSE "failed"

Contract == INSTANCE LadderContract WITH
  verdicts <- [k \in 1..Len(attempts) |-> Verdict(attempts[k])],
  finished <- Terminated

\* The engine implements its contract, its termination included.
ImplementsContract == Contract!Spec

\* "RunApproved runs exactly one action, unconditionally -- including a
\* policy.RiskHigh action": an approved action is run, not a cause of a panic.
ApprovedActionRuns == mode = "approve" => step # "panic"
=============================================================================
