---------------------- MODULE EscalationLadder_proofs ----------------------
(***************************************************************************)
(* Proofs about execengine's escalation ladder, for ladders of any length  *)
(* and any rungs: type correctness, the gate before high-risk actions, the *)
(* rollback before escalating, and the safety part of LadderContract.      *)
(***************************************************************************)
EXTENDS EscalationLadder, SequenceTheorems, TLAPS

\* runOne is executing the closures of rung `rung'.
InRung == step \in {"snapshot", "run", "validate", "rollback"}

(***************************************************************************)
(* Type correctness.                                                       *)
(***************************************************************************)

\* Every rung of a ladder has a place in 1..MaxLen.
LEMMA LadderTyping ==
  ASSUME NEW l \in Ladders
  PROVE  /\ l \in Seq(Action) /\ Len(l) \in Nat /\ Len(l) <= MaxLen
         /\ \A i \in 1..Len(l) : l[i] \in Action
  BY LaddersAssumption

LEMMA ReturnTyping ==
  ASSUME TypeOK, NEW a \in AttemptResult, ReturnFrom(a)
  PROVE  /\ attempts' \in Seq(AttemptResult) /\ attempt' \in AttemptResult
         /\ resolved' \in BOOLEAN /\ step' \in Steps
  BY DEF TypeOK, ReturnFrom, AttemptResult, Steps

\* TypeOK is not inductive: TakeSnapshot reads the rung of a ladder that has
\* to reach that far.
TypeInv ==
  /\ TypeOK
  /\ InRung \/ mode = "approve" => rung \in 1..Len(ladder)

LEMMA TypeInvInit == Init => TypeInv
<1> SUFFICES ASSUME Init PROVE TypeInv
  OBVIOUS
<1>1. ladder \in Ladders /\ Len(ladder) \in Nat /\ Len(ladder) <= MaxLen
  BY LadderTyping DEF Init
<1>2. rung \in 1..MaxLen /\ NewAttempt(rung) \in AttemptResult
  BY LaddersAssumption DEF Init, NewAttempt, AttemptResult, Errors
<1>3. TypeOK
  <2>1. attempts \in Seq(AttemptResult)
    BY DEF Init
  <2>2. attempt \in AttemptResult
    BY <1>2 DEF Init
  <2> QED BY <1>1, <1>2, <2>1, <2>2 DEF Init, TypeOK, Steps
<1>4. ~InRung /\ (mode = "approve" => rung \in 1..Len(ladder))
  BY <1>1, <1>2 DEF Init, InRung
<1> QED BY <1>3, <1>4 DEF TypeInv

LEMMA TypeInvStep == TypeInv /\ [Next]_vars => TypeInv'
<1> SUFFICES ASSUME TypeInv, [Next]_vars PROVE TypeInv'
  OBVIOUS
<1> USE DEF TypeInv, TypeOK, Steps, InRung
<1>l. /\ ladder \in Ladders /\ Len(ladder) \in Nat /\ Len(ladder) <= MaxLen
      /\ \A i \in 1..Len(ladder) : ladder[i] \in Action
  BY LadderTyping
<1>n. NextRung <= Len(ladder) => /\ NextRung \in 1..Len(ladder)
                                 /\ NextRung \in 1..MaxLen
                                 /\ NewAttempt(NextRung) \in AttemptResult
  <2>1. Len(attempts) \in Nat
    OBVIOUS
  <2>2. NextRung <= Len(ladder) => NextRung \in 1..Len(ladder) /\ NextRung \in 1..MaxLen
    BY <1>l, <2>1, LaddersAssumption DEF NextRung
  <2> QED BY <2>2 DEF NewAttempt, AttemptResult, Errors
<1>1. CASE Start
  <2>1. NewAttempt(rung) \in AttemptResult
    BY DEF NewAttempt, AttemptResult, Errors
  <2> QED BY <1>1, <1>l, <2>1 DEF Start, Enter
<1>2. CASE RefuseHighRisk
  <2> DEFINE a == [NewAttempt(NextRung) EXCEPT !.err = "refused", !.skipped = TRUE]
  <2>1. NextRung \in 1..Len(ladder) /\ NextRung \in 1..MaxLen
    BY <1>2, <1>n DEF RefuseHighRisk
  <2>2. a \in AttemptResult
    BY <2>1 DEF NewAttempt, AttemptResult, Errors
  <2>3. attempts' \in Seq(AttemptResult)
    BY <1>2, <2>2 DEF RefuseHighRisk
  <2> QED BY <1>2, <1>l, <2>1, <2>2, <2>3 DEF RefuseHighRisk
<1>3. CASE BeginRung
  BY <1>3, <1>l, <1>n DEF BeginRung, Enter
<1>4. CASE Exhausted
  BY <1>4 DEF Exhausted
<1>5. CASE TakeSnapshot
  <2>1. [attempt EXCEPT !.err = "snapshot"] \in AttemptResult
    BY DEF AttemptResult, Errors
  <2>2. ladder[rung] \in Action
    BY <1>5, <1>l DEF TakeSnapshot
  <2>3. CASE ReturnFrom([attempt EXCEPT !.err = "snapshot"]) /\ UNCHANGED taken
    BY <1>5, <2>1, <2>3, ReturnTyping DEF TakeSnapshot
  <2>4. CASE UNCHANGED <<attempt, attempts, resolved>> /\ step' = "run"
             /\ taken' = ladder[rung].snapshot
    BY <1>5, <2>2, <2>4 DEF TakeSnapshot, Action
  <2> QED BY <1>5, <2>3, <2>4 DEF TakeSnapshot
<1>6. CASE RunAction
  <2>1. [attempt EXCEPT !.err = "run"] \in AttemptResult
    BY DEF AttemptResult, Errors
  <2> QED BY <1>6, <2>1 DEF RunAction
<1>7. CASE Validate
  <2>1. [attempt EXCEPT !.validated = TRUE] \in AttemptResult
    BY DEF AttemptResult
  <2>2. \A e \in Errors : [attempt EXCEPT !.err = e] \in AttemptResult
    BY DEF AttemptResult
  <2>3. CASE ReturnFrom([attempt EXCEPT !.validated = TRUE])
    BY <1>7, <2>1, <2>3, ReturnTyping DEF Validate
  <2>4. CASE /\ \E e \in {"none", "validate"} : attempt' = [attempt EXCEPT !.err = e]
             /\ step' = "rollback"
             /\ UNCHANGED <<attempts, resolved>>
    BY <1>7, <2>2, <2>4 DEF Validate, Errors
  <2> QED BY <1>7, <2>3, <2>4 DEF Validate
<1>8. CASE Rollback
  <2>1. /\ attempt \in AttemptResult
        /\ [attempt EXCEPT !.rolledBack = TRUE] \in AttemptResult
        /\ UndoFailure(attempt) \in AttemptResult
    BY DEF AttemptResult, UndoFailure
  <2>2. PICK a \in AttemptResult : ReturnFrom(a)
    BY <1>8, <2>1 DEF Rollback
  <2>3. inForce' \subseteq 1..MaxLen
    BY <1>8 DEF Rollback
  <2> QED BY <1>8, <2>2, <2>3, ReturnTyping DEF Rollback
<1>9. CASE Cancel
  BY <1>9 DEF Cancel
<1>10. CASE UNCHANGED vars
  BY <1>10 DEF vars
<1> QED BY <1>1, <1>2, <1>3, <1>4, <1>5, <1>6, <1>7, <1>8, <1>9, <1>10
    DEF Next, Walk

LEMMA TypeInvariant == Spec => []TypeInv
  BY TypeInvInit, TypeInvStep, PTL DEF Spec

\* Each variable of the engine keeps its type (execengine.Run, RunApproved).
THEOREM TypeCorrect == Spec => []TypeOK
<1>1. TypeInv => TypeOK
  BY DEF TypeInv
<1> QED BY <1>1, TypeInvariant, PTL

(***************************************************************************)
(* No high-risk action without an approval.                                *)
(***************************************************************************)

\* What makes the property inductive: RunApproved never reaches the loop of
\* Run, and whatever rung Run is executing passed the loop's risk check.
RiskInv ==
  /\ HighRiskNeedsApproval
  /\ mode = "approve" => step # "next" /\ (step = "start" => ran = {})
  /\ mode = "run" /\ InRung => ladder[rung].risk # "high"

LEMMA RiskInvStep == TypeInv /\ RiskInv /\ [Next]_vars => RiskInv'
<1> SUFFICES ASSUME TypeInv, RiskInv, [Next]_vars PROVE RiskInv'
  OBVIOUS
<1> USE DEF TypeInv, TypeOK, RiskInv, HighRiskNeedsApproval, InRung
<1>1. CASE Start
  BY <1>1 DEF Start, Enter
<1>2. CASE RefuseHighRisk
  BY <1>2 DEF RefuseHighRisk
<1>3. CASE BeginRung
  BY <1>3 DEF BeginRung, Enter, Refused
<1>4. CASE Exhausted
  BY <1>4 DEF Exhausted
<1>5. CASE TakeSnapshot
  BY <1>5 DEF TakeSnapshot, ReturnFrom
<1>6. CASE RunAction
  BY <1>6 DEF RunAction
<1>7. CASE Validate
  BY <1>7 DEF Validate, ReturnFrom
<1>8. CASE Rollback
  BY <1>8 DEF Rollback, ReturnFrom
<1>9. CASE Cancel
  BY <1>9 DEF Cancel
<1>10. CASE UNCHANGED vars
  BY <1>10 DEF vars
<1> QED BY <1>1, <1>2, <1>3, <1>4, <1>5, <1>6, <1>7, <1>8, <1>9, <1>10
    DEF Next, Walk

\* "A policy.RiskHigh action is never run" by execengine.Run, and RunApproved
\* runs no other action than the one approved, for every ladder.
THEOREM HighRiskIsGated == Spec => []HighRiskNeedsApproval
<1>1. Init => RiskInv
  BY DEF Init, RiskInv, HighRiskNeedsApproval, InRung
<1>2. RiskInv => HighRiskNeedsApproval
  BY DEF RiskInv
<1> QED BY <1>1, <1>2, RiskInvStep, TypeInvariant, PTL DEF Spec

(***************************************************************************)
(* What can be undone is undone before the ladder escalates.               *)
(***************************************************************************)

SomeValidated == \E k \in 1..Len(attempts) : attempts[k].validated

\* The bookkeeping that ties attempts to rungs (the first five parts), and
\* the heart of it: an effect that could be undone is that of the rung being
\* validated or rolled back, unless it resolved the incident.
UndoInv ==
  /\ mode = "run" => \A k \in 1..Len(attempts) : attempts[k].rung = k
  /\ InRung => /\ attempt.rung = rung
               /\ mode = "run" => rung = Len(attempts) + 1
               /\ mode = "approve" => attempts = <<>>
  /\ mode = "run" => /\ step = "start" => attempts = <<>> /\ inForce = {}
                     /\ inForce \subseteq 1..Len(attempts) + 1
                     /\ step = "next" => inForce \subseteq 1..Len(attempts)
  /\ mode = "approve" /\ step = "start" => attempts = <<>> /\ inForce = {}
  /\ step \in {"run", "validate", "rollback"} => taken = ladder[rung].snapshot
  /\ step \in {"snapshot", "run"} => rung \notin inForce
  /\ SomeValidated => step = "done"
  /\ \A i \in inForce :
       Undoable(i) => SomeValidated \/ (i = rung /\ step \in {"validate", "rollback"})

\* runOne returns `a' having left its rung's effect undone, resolved, without
\* a way back, or with a failed rollback on record.
LEMMA UndoReturn ==
  ASSUME TypeInv, UndoInv, InRung, NEW a \in AttemptResult, a.rung = rung,
         ReturnFrom(a), UNCHANGED <<mode, ladder, rung>>, inForce' \subseteq inForce,
         mode = "approve" => step # "next",
         \/ a.validated
         \/ rung \notin inForce'
         \/ ~(ladder[rung].snapshot /\ ladder[rung].rollback)
         \/ a.undoFailed
  PROVE  UndoInv'
<1> USE DEF TypeInv, TypeOK, UndoInv, InRung
<1>1. /\ attempts' = Append(attempts, a) /\ Len(attempts) \in Nat
      /\ Len(attempts') = Len(attempts) + 1
      /\ attempts'[Len(attempts) + 1] = a
      /\ \A k \in 1..Len(attempts) : attempts'[k] = attempts[k]
      /\ Len(attempts) + 1 \in 1..Len(attempts')
      /\ \A k \in 1..Len(attempts') : k \in 1..Len(attempts) \/ k = Len(attempts) + 1
  BY DEF ReturnFrom
<1>2. step' \in {"next", "done"} /\ (step' = "next" => mode # "approve" /\ ~a.validated)
  BY DEF ReturnFrom
<1>3. SomeValidated' => step' = "done"
  BY <1>1, <1>2 DEF SomeValidated, ReturnFrom
<1>4. \A i : Undoable(i)' => Undoable(i)
  BY <1>1 DEF Undoable
<1>5. \A i \in inForce' : Undoable(i)' => SomeValidated'
  <2> SUFFICES ASSUME NEW i \in inForce', Undoable(i)' PROVE SomeValidated'
    OBVIOUS
  <2>1. i = rung
    BY <1>4, <1>1 DEF SomeValidated
  <2>2. ~a.undoFailed
    BY <2>1, <1>1 DEF Undoable
  <2>3. ladder[rung].snapshot /\ ladder[rung].rollback
    BY <2>1 DEF Undoable
  <2>4. a.validated
    BY <2>1, <2>2, <2>3
  <2> QED BY <2>4, <1>1 DEF SomeValidated
<1>6. mode' = "run" => /\ \A k \in 1..Len(attempts') : attempts'[k].rung = k
                       /\ inForce' \subseteq 1..Len(attempts')
                       /\ inForce' \subseteq 1..Len(attempts') + 1
  BY <1>1
<1> QED BY <1>2, <1>3, <1>5, <1>6

LEMMA UndoInvStep == TypeInv /\ RiskInv /\ UndoInv /\ [Next]_vars => UndoInv'
<1> SUFFICES ASSUME TypeInv, RiskInv, UndoInv, [Next]_vars PROVE UndoInv'
  OBVIOUS
<1> USE DEF TypeInv, TypeOK, UndoInv, InRung, SomeValidated, Undoable
<1>l. Len(attempts) \in Nat /\ \A i \in 1..Len(ladder) : ladder[i] \in Action
  BY LadderTyping
<1>a. mode = "approve" => step # "next"
  BY DEF RiskInv
<1>1. CASE Start
  BY <1>1 DEF Start, Enter, NewAttempt
<1>2. CASE RefuseHighRisk
  <2> DEFINE a == [NewAttempt(NextRung) EXCEPT !.err = "refused", !.skipped = TRUE]
  <2>1. a.rung = NextRung /\ ~a.validated
    BY DEF NewAttempt
  <2>2. /\ attempts' = Append(attempts, a) /\ NextRung = Len(attempts) + 1
        /\ Len(attempts') = Len(attempts) + 1
        /\ attempts'[NextRung] = a
        /\ \A k \in 1..Len(attempts) : attempts'[k] = attempts[k]
    BY <1>2, <1>l DEF RefuseHighRisk, NextRung
  <2>3. step' = "done" /\ step = "next" /\ UNCHANGED <<mode, ladder, inForce>>
    BY <1>2 DEF RefuseHighRisk
  <2> HIDE DEF a
  <2> QED BY <1>l, <1>a, <2>1, <2>2, <2>3
<1>3. CASE BeginRung
  BY <1>3, <1>l, <1>a DEF BeginRung, Enter, NewAttempt, NextRung
<1>4. CASE Exhausted
  BY <1>4 DEF Exhausted
<1>5. CASE TakeSnapshot
  <2> DEFINE a == [attempt EXCEPT !.err = "snapshot"]
  <2>1. a \in AttemptResult /\ (attempt.rung = rung => a.rung = rung)
    BY DEF AttemptResult, Errors
  <2>2. step = "snapshot" /\ UNCHANGED <<mode, ladder, rung, inForce>>
    BY <1>5 DEF TakeSnapshot
  <2>3. CASE ReturnFrom(a)
    <3> HIDE DEF a
    <3> QED BY <2>1, <2>2, <2>3, UndoReturn
  <2>4. CASE UNCHANGED <<attempt, attempts, resolved>> /\ step' = "run"
             /\ taken' = ladder[rung].snapshot
    BY <2>2, <2>4
  <2> QED BY <1>5, <2>3, <2>4 DEF TakeSnapshot
<1>6. CASE RunAction
  <2>1. attempt'.rung = attempt.rung
    BY <1>6 DEF RunAction, AttemptResult
  <2> QED BY <1>6, <1>l, <2>1 DEF RunAction
<1>7. CASE Validate
  <2> DEFINE a == [attempt EXCEPT !.validated = TRUE]
  <2>1. a \in AttemptResult /\ (attempt.rung = rung => a.rung = rung) /\ a.validated
    BY DEF AttemptResult
  <2>2. step = "validate" /\ UNCHANGED <<mode, ladder, rung, taken, inForce>>
    BY <1>7 DEF Validate
  <2>3. CASE ReturnFrom(a)
    <3> HIDE DEF a
    <3> QED BY <2>1, <2>2, <2>3, UndoReturn
  <2>4. CASE /\ \E e \in {"none", "validate"} : attempt' = [attempt EXCEPT !.err = e]
             /\ step' = "rollback"
             /\ UNCHANGED <<attempts, resolved>>
    <3>1. attempt'.rung = attempt.rung
      BY <2>4 DEF AttemptResult
    <3> QED BY <2>2, <2>4, <3>1
  <2> QED BY <1>7, <2>3, <2>4 DEF Validate
<1>8. CASE Rollback
  <2>1. step = "rollback" /\ UNCHANGED <<mode, ladder, rung>>
    BY <1>8 DEF Rollback
  <2>2. PICK a \in AttemptResult :
          /\ a.rung = rung /\ ReturnFrom(a) /\ inForce' \subseteq inForce
          /\ rung \notin inForce' \/ ~CanUndo \/ a.undoFailed
    <3>1. attempt.rung = rung /\ attempt \in AttemptResult
      BY <2>1
    <3>2. LET b == [attempt EXCEPT !.rolledBack = TRUE]
              c == UndoFailure(attempt)
          IN /\ b \in AttemptResult /\ b.rung = rung
             /\ c \in AttemptResult /\ c.rung = rung /\ c.undoFailed
      BY <3>1 DEF UndoFailure, AttemptResult
    <3>3. CASE ~CanUndo /\ ReturnFrom(attempt) /\ UNCHANGED inForce
      BY <3>1, <3>3
    <3>4. CASE /\ ReturnFrom([attempt EXCEPT !.rolledBack = TRUE])
               /\ inForce' = inForce \ {rung}
      BY <3>2, <3>4
    <3>5. CASE ReturnFrom(UndoFailure(attempt)) /\ UNCHANGED inForce
      BY <3>2, <3>5
    <3> QED BY <1>8, <3>3, <3>4, <3>5 DEF Rollback
  <2>3. ~CanUndo => ~(ladder[rung].snapshot /\ ladder[rung].rollback)
    BY <2>1 DEF CanUndo
  <2> QED BY <2>1, <2>2, <2>3, UndoReturn
<1>9. CASE Cancel
  BY <1>9 DEF Cancel
<1>10. CASE UNCHANGED vars
  BY <1>10 DEF vars
<1> QED BY <1>1, <1>2, <1>3, <1>4, <1>5, <1>6, <1>7, <1>8, <1>9, <1>10
    DEF Next, Walk

\* "Every action that doesn't resolve the incident is rolled back (best-effort)
\* before the next one runs", for every ladder (execengine.Run, runOne).
THEOREM UndoBeforeNext == Spec => []UndoneBeforeEscalating
<1>1. Init => RiskInv
  BY DEF Init, RiskInv, HighRiskNeedsApproval, InRung
<1>2. Init => UndoInv
  BY DEF Init, UndoInv, InRung, SomeValidated
<1>3. UndoInv => UndoneBeforeEscalating
  BY DEF UndoInv, UndoneBeforeEscalating, SomeValidated
<1> QED BY <1>1, <1>2, <1>3, RiskInvStep, UndoInvStep, TypeInvariant, PTL DEF Spec

(***************************************************************************)
(* The audit record is true.                                               *)
(***************************************************************************)

\* What the attempt `a' says when `force' is in force and `called' was run.
Fits(a, force, called) ==
  /\ a.validated => a.rung \in force
  /\ a.rolledBack => a.rung \in called /\ a.rung \notin force
  /\ a.skipped \/ a.err = "snapshot" <=> a.rung \notin called

\* RecordIsTrue alone is not inductive: what runOne will report of its rung
\* has to be tied to what it has done of it so far, and a rung still to come
\* must not have been run.
RecordInv ==
  /\ \A k \in 1..Len(attempts) : Fits(attempts[k], inForce, ran)
  /\ step = "start" => ran = {}
  /\ mode = "run" /\ step = "next" => ran \subseteq 1..Len(attempts)
  /\ mode = "run" /\ InRung => ran \subseteq 1..Len(attempts) + 1
  /\ step \in {"snapshot", "run"} => rung \notin ran
  /\ step \in {"validate", "rollback"} => rung \in ran
  /\ step = "validate" => rung \in inForce
  /\ InRung => ~attempt.validated /\ ~attempt.rolledBack /\ ~attempt.skipped
  /\ InRung => attempt.err # "snapshot"

\* What runOne does to its own rung's effect takes no truth from the record of
\* another rung.
LEMMA OthersFit ==
  ASSUME TypeInv, UndoInv, RecordInv, InRung,
         ran \cup {rung} = ran' \cup {rung}, inForce \cup {rung} = inForce' \cup {rung}
  PROVE  \A k \in 1..Len(attempts) : Fits(attempts[k], inForce', ran')
<1> SUFFICES ASSUME NEW k \in 1..Len(attempts) PROVE Fits(attempts[k], inForce', ran')
  OBVIOUS
<1>1. attempts[k].rung # rung
  <2>1. mode = "run" /\ attempts[k].rung = k /\ rung = Len(attempts) + 1
    BY DEF TypeInv, TypeOK, UndoInv
  <2>2. Len(attempts) \in Nat
    BY DEF TypeInv, TypeOK
  <2> QED BY <2>1, <2>2
<1>2. /\ attempts[k].rung \in ran' <=> attempts[k].rung \in ran
      /\ attempts[k].rung \in inForce' <=> attempts[k].rung \in inForce
  BY <1>1
<1> QED BY <1>2 DEF RecordInv, Fits

\* runOne returns `a', which is true of its rung.
LEMMA FitReturn ==
  ASSUME TypeInv, UndoInv, RecordInv, InRung, NEW a \in AttemptResult, ReturnFrom(a),
         a.rung = rung, Fits(a, inForce', ran'), UNCHANGED <<mode, ran>>,
         inForce \cup {rung} = inForce' \cup {rung}, mode = "approve" => step' # "next"
  PROVE  RecordInv'
<1>1. /\ attempts' = Append(attempts, a) /\ Len(attempts) \in Nat
      /\ Len(attempts') = Len(attempts) + 1 /\ attempts'[Len(attempts) + 1] = a
      /\ \A k \in 1..Len(attempts) : attempts'[k] = attempts[k]
  BY DEF ReturnFrom, TypeInv, TypeOK
<1>2. \A k \in 1..Len(attempts') : Fits(attempts'[k], inForce', ran')
  BY <1>1, OthersFit
<1>3. step' \in {"next", "done"}
  BY DEF ReturnFrom
<1> QED BY <1>1, <1>2, <1>3 DEF RecordInv, InRung

LEMMA RecordInvStep == TypeInv /\ RiskInv /\ UndoInv /\ RecordInv /\ [Next]_vars => RecordInv'
<1> SUFFICES ASSUME TypeInv, RiskInv, UndoInv, RecordInv, [Next]_vars PROVE RecordInv'
  OBVIOUS
<1>t. /\ Len(attempts) \in Nat /\ attempt \in AttemptResult
      /\ attempts \in Seq(AttemptResult) /\ (mode = "run" \/ mode = "approve")
  BY DEF TypeInv, TypeOK
<1>u. /\ InRung => attempt.rung = rung /\ (mode = "run" => rung = Len(attempts) + 1)
      /\ mode = "approve" => step # "next"
  BY DEF UndoInv, RiskInv
<1>0. ASSUME UNCHANGED <<mode, rung, step, attempt, attempts, ran, inForce>> PROVE RecordInv'
  BY <1>0 DEF RecordInv, InRung
<1>1. CASE Start
  BY <1>1, <1>t DEF RecordInv, InRung, Start, Enter, NewAttempt
<1>2. CASE RefuseHighRisk
  <2> DEFINE a == [NewAttempt(NextRung) EXCEPT !.err = "refused", !.skipped = TRUE]
  <2>1. a.rung = NextRung /\ ~a.validated /\ ~a.rolledBack /\ a.skipped
    BY DEF NewAttempt
  <2>2. /\ attempts' = Append(attempts, a) /\ step = "next" /\ step' = "done"
        /\ UNCHANGED <<mode, inForce, ran>>
    BY <1>2 DEF RefuseHighRisk
  <2>3. NextRung = Len(attempts) + 1 /\ NextRung \notin ran
    BY <1>t, <1>u, <2>2 DEF RecordInv, NextRung
  <2>4. Fits(a, inForce', ran')
    BY <2>1, <2>2, <2>3 DEF Fits
  <2> HIDE DEF a
  <2>5. \A k \in 1..Len(attempts') : attempts'[k] = a \/ (k \in 1..Len(attempts) /\ attempts'[k] = attempts[k])
    BY <1>t, <2>2
  <2>6. \A k \in 1..Len(attempts') : Fits(attempts'[k], inForce', ran')
    BY <2>2, <2>4, <2>5 DEF RecordInv
  <2> QED BY <2>2, <2>6 DEF RecordInv, InRung
<1>3. CASE BeginRung
  BY <1>3, <1>t, <1>u DEF RecordInv, InRung, BeginRung, Enter, NewAttempt, NextRung
<1>4. CASE Exhausted
  BY <1>4 DEF RecordInv, InRung, Exhausted
<1>5. CASE TakeSnapshot
  <2> DEFINE a == [attempt EXCEPT !.err = "snapshot"]
  <2>1. InRung /\ step = "snapshot" /\ UNCHANGED <<mode, rung, ran, inForce>>
    BY <1>5 DEF TakeSnapshot, InRung
  <2>2. a \in AttemptResult /\ a.rung = rung /\ Fits(a, inForce', ran')
    BY <1>t, <1>u, <2>1 DEF AttemptResult, Errors, Fits, RecordInv
  <2>3. CASE ReturnFrom(a)
    <3>1. mode = "approve" => step' # "next"
      BY <2>3 DEF ReturnFrom
    <3> HIDE DEF a
    <3> QED BY <2>1, <2>2, <2>3, <3>1, FitReturn
  <2>4. CASE UNCHANGED <<attempt, attempts, resolved>> /\ step' = "run"
    BY <2>1, <2>4 DEF RecordInv, InRung
  <2> QED BY <1>5, <2>3, <2>4 DEF TakeSnapshot
<1>6. CASE RunAction
  <2>1. InRung /\ step = "run" /\ UNCHANGED <<mode, rung, attempts>>
    BY <1>6 DEF RunAction, InRung
  <2>2. CASE step' = "panic" /\ UNCHANGED <<attempt, ran, inForce>>
    BY <2>1, <2>2 DEF RecordInv, InRung
  <2>3. CASE /\ ran' = ran \cup {rung}
             /\ \/ inForce' = inForce \cup {rung} /\ step' = "validate" /\ UNCHANGED attempt
                \/ /\ inForce' \in {inForce, inForce \cup {rung}} /\ step' = "rollback"
                   /\ attempt' = [attempt EXCEPT !.err = "run"]
    <3>1. \A k \in 1..Len(attempts') : Fits(attempts'[k], inForce', ran')
      BY <2>1, <2>3, OthersFit
    <3>2. ~attempt'.validated /\ ~attempt'.rolledBack /\ ~attempt'.skipped
          /\ attempt'.err # "snapshot"
      BY <1>t, <2>1, <2>3 DEF RecordInv, AttemptResult
    <3>3. mode' = "run" => ran' \subseteq 1..Len(attempts') + 1
      BY <1>t, <1>u, <2>1, <2>3 DEF RecordInv
    <3> QED BY <2>1, <2>3, <3>1, <3>2, <3>3 DEF RecordInv, InRung
  <2> QED BY <1>6, <2>2, <2>3 DEF RunAction
<1>7. CASE Validate
  <2> DEFINE a == [attempt EXCEPT !.validated = TRUE]
  <2>1. InRung /\ step = "validate" /\ UNCHANGED <<mode, rung, ran, inForce>>
    BY <1>7 DEF Validate, InRung
  <2>2. a \in AttemptResult /\ a.rung = rung /\ Fits(a, inForce', ran')
    BY <1>t, <1>u, <2>1 DEF AttemptResult, Fits, RecordInv
  <2>3. CASE ReturnFrom(a)
    <3>1. mode = "approve" => step' # "next"
      BY <2>3 DEF ReturnFrom
    <3> HIDE DEF a
    <3> QED BY <2>1, <2>2, <2>3, <3>1, FitReturn
  <2>4. CASE /\ \E e \in {"none", "validate"} : attempt' = [attempt EXCEPT !.err = e]
             /\ step' = "rollback" /\ UNCHANGED attempts
    <3>1. ~attempt'.validated /\ ~attempt'.rolledBack /\ ~attempt'.skipped
          /\ attempt'.err # "snapshot"
      BY <1>t, <2>1, <2>4 DEF RecordInv, AttemptResult
    <3> QED BY <2>1, <2>4, <3>1 DEF RecordInv, InRung
  <2> QED BY <1>7, <2>3, <2>4 DEF Validate
<1>8. CASE Rollback
  <2>1. InRung /\ step = "rollback" /\ UNCHANGED <<mode, rung, ran>>
    BY <1>8 DEF Rollback, InRung
  <2>2. rung \in ran /\ attempt.rung = rung
    BY <1>u, <2>1 DEF RecordInv
  <2> DEFINE b == [attempt EXCEPT !.rolledBack = TRUE]
             c == UndoFailure(attempt)
  <2>3. /\ b \in AttemptResult /\ b.rung = rung /\ Fits(b, inForce \ {rung}, ran)
        /\ c \in AttemptResult /\ c.rung = rung /\ Fits(c, inForce, ran)
        /\ Fits(attempt, inForce, ran)
    BY <1>t, <2>1, <2>2 DEF UndoFailure, AttemptResult, Fits, RecordInv
  <2>4. PICK a \in AttemptResult :
          /\ a.rung = rung /\ ReturnFrom(a) /\ Fits(a, inForce', ran')
          /\ inForce \cup {rung} = inForce' \cup {rung}
    <3>1. CASE ReturnFrom(attempt) /\ UNCHANGED inForce
      BY <1>t, <2>1, <2>2, <2>3, <3>1
    <3>2. CASE ReturnFrom(b) /\ inForce' = inForce \ {rung}
      BY <2>1, <2>3, <3>2
    <3>3. CASE ReturnFrom(c) /\ UNCHANGED inForce
      BY <2>1, <2>3, <3>3
    <3> QED BY <1>8, <3>1, <3>2, <3>3 DEF Rollback
  <2>5. mode = "approve" => step' # "next"
    BY <2>4 DEF ReturnFrom
  <2> QED BY <2>1, <2>4, <2>5, FitReturn
<1>9. CASE Cancel
  BY <1>0, <1>9 DEF Cancel
<1>10. CASE UNCHANGED vars
  BY <1>0, <1>10 DEF vars
<1> QED BY <1>1, <1>2, <1>3, <1>4, <1>5, <1>6, <1>7, <1>8, <1>9, <1>10
    DEF Next, Walk

\* The audit record tells what happened on the cluster, for every ladder and
\* whatever fails or is cancelled: validated means run and in force, rolled
\* back means run and undone, skipped or stopped by its snapshot means never
\* run (runOne).
THEOREM RecordsAreTrue == Spec => []RecordIsTrue
<1>1. Init => RiskInv /\ UndoInv
  BY DEF Init, RiskInv, HighRiskNeedsApproval, UndoInv, InRung, SomeValidated
<1>2. Init => RecordInv
  BY DEF Init, RecordInv, InRung
<1>3. UndoInv /\ RecordInv => RecordIsTrue
  BY DEF UndoInv, RecordInv, Fits, RecordIsTrue
<1> QED BY <1>1, <1>2, <1>3, RiskInvStep, UndoInvStep, RecordInvStep, TypeInvariant, PTL DEF Spec

(***************************************************************************)
(* The engine implements LadderContract (its safety part).                 *)
(***************************************************************************)

Verdicts(s) == [k \in 1..Len(s) |-> Verdict(s[k])]
VerdictSet == {"failed", "healthy", "refused"}

\* Recording one more attempt appends its verdict.
LEMMA VerdictsAppend ==
  ASSUME NEW s \in Seq(AttemptResult), NEW a \in AttemptResult
  PROVE  Verdicts(Append(s, a)) = Append(Verdicts(s), Verdict(a))
<1> DEFINE t == Append(s, a)
           v == Verdicts(s)
<1>1. /\ t \in Seq(AttemptResult) /\ Len(s) \in Nat /\ Len(t) = Len(s) + 1
      /\ t[Len(s) + 1] = a /\ \A k \in 1..Len(s) : t[k] = s[k]
  OBVIOUS
<1>2. \A r : Verdict(r) \in VerdictSet
  BY DEF Verdict, VerdictSet
<1>3. v \in Seq(VerdictSet) /\ Len(v) = Len(s) /\ \A k \in 1..Len(s) : v[k] = Verdict(s[k])
  BY <1>1, <1>2 DEF Verdicts
<1>4. Verdicts(t) \in Seq(VerdictSet) /\ Len(Verdicts(t)) = Len(t)
      /\ \A k \in 1..Len(t) : Verdicts(t)[k] = Verdict(t[k])
  <2> HIDE DEF t
  <2> QED BY <1>1, <1>2 DEF Verdicts
<1>5. Append(v, Verdict(a)) \in Seq(VerdictSet) /\ Len(Append(v, Verdict(a))) = Len(v) + 1
      /\ Append(v, Verdict(a))[Len(v) + 1] = Verdict(a)
      /\ \A k \in 1..Len(v) : Append(v, Verdict(a))[k] = v[k]
  <2> HIDE DEF v
  <2> QED BY <1>2, <1>3
<1> HIDE DEF t, v
<1>6. \A k \in 1..Len(t) : Verdicts(t)[k] = Append(v, Verdict(a))[k]
  BY <1>1, <1>3, <1>4, <1>5
<1>7. Verdicts(t) = Append(v, Verdict(a))
  BY <1>1, <1>3, <1>4, <1>5, <1>6, SeqEqual
<1> QED BY <1>7 DEF t, v

\* Run only walks ladders it accepted, and a rung being run is not skipped.
LengthInv ==
  /\ mode = "run" /\ (InRung \/ step = "next") => Len(ladder) <= MaxActions
  /\ InRung => ~attempt.skipped

LEMMA LengthInvStep == TypeInv /\ LengthInv /\ [Next]_vars => LengthInv'
<1> SUFFICES ASSUME TypeInv, LengthInv, [Next]_vars PROVE LengthInv'
  OBVIOUS
<1> USE DEF TypeInv, TypeOK, LengthInv, InRung
<1>l. Len(ladder) \in Nat /\ MaxActions \in Nat
  BY LadderTyping, LaddersAssumption
<1>1. CASE Start
  BY <1>1, <1>l DEF Start, Enter, LengthAllowed, NewAttempt
<1>2. CASE RefuseHighRisk \/ BeginRung \/ Exhausted \/ Cancel
  BY <1>2 DEF RefuseHighRisk, BeginRung, Enter, Exhausted, Cancel, NewAttempt
<1>3. CASE TakeSnapshot
  BY <1>3 DEF TakeSnapshot, ReturnFrom
<1>4. CASE RunAction
  <2>1. attempt'.skipped = attempt.skipped
    BY <1>4 DEF RunAction, AttemptResult
  <2> QED BY <1>4, <2>1 DEF RunAction
<1>5. CASE Validate
  <2>1. step' = "rollback" => attempt'.skipped = attempt.skipped
    BY <1>5 DEF Validate, ReturnFrom, AttemptResult
  <2> QED BY <1>5, <2>1 DEF Validate, ReturnFrom
<1>6. CASE Rollback
  BY <1>6 DEF Rollback, ReturnFrom
<1>7. CASE UNCHANGED vars
  BY <1>7 DEF vars
<1> QED BY <1>1, <1>2, <1>3, <1>4, <1>5, <1>6, <1>7 DEF Next, Walk

\* Recording an attempt is a step of the contract.
LEMMA RecordIsAttempt ==
  ASSUME TypeInv, UndoInv, LengthInv, InRung \/ (step = "next" /\ NextRung <= Len(ladder)),
         mode = "approve" => step # "next", NEW a \in AttemptResult,
         attempts' = Append(attempts, a), step' \in {"next", "done"},
         Verdict(a) # "failed" => step' = "done"
  PROVE  Contract!Next
<1>1. Len(attempts) \in Nat /\ Len(ladder) \in Nat /\ MaxActions \in Nat \ {0}
  BY LadderTyping, LaddersAssumption DEF TypeInv, TypeOK
<1>2. Len(attempts) < MaxActions
  BY <1>1 DEF TypeInv, TypeOK, UndoInv, LengthInv, InRung, NextRung
<1>3. Verdicts(attempts') = Append(Verdicts(attempts), Verdict(a))
  BY VerdictsAppend DEF TypeInv, TypeOK
<1>4. Len(Verdicts(attempts)) = Len(attempts)
  BY <1>1 DEF Verdicts
<1>5. ~Terminated /\ Terminated' \in BOOLEAN /\ (Verdict(a) # "failed" => Terminated')
  BY DEF Terminated, InRung
<1>6. Verdict(a) \in {"failed", "healthy", "refused"}
  BY DEF Verdict
<1>7. Contract!Attempt(Verdict(a))
  BY <1>2, <1>3, <1>4, <1>5 DEF Contract!Attempt, Verdicts
<1> QED BY <1>6, <1>7 DEF Contract!Next

LEMMA ContractStep ==
  TypeInv /\ RiskInv /\ UndoInv /\ LengthInv /\ [Next]_vars
    => [Contract!Next]_(Contract!contractVars)
<1> SUFFICES ASSUME TypeInv, RiskInv, UndoInv, LengthInv, [Next]_vars
             PROVE  [Contract!Next]_(Contract!contractVars)
  OBVIOUS
<1> USE DEF TypeInv, TypeOK, InRung
<1>a. mode = "approve" => step # "next"
  BY DEF RiskInv
<1>q. ASSUME UNCHANGED <<attempts, step>> \/ (UNCHANGED attempts /\ ~Terminated)
      PROVE  [Contract!Next]_(Contract!contractVars)
  <2>1. CASE Terminated' = Terminated /\ UNCHANGED attempts
    BY <2>1 DEF Contract!contractVars, Verdict
  <2>2. CASE ~Terminated /\ Terminated' /\ UNCHANGED attempts
    BY <2>2 DEF Contract!Next, Contract!Finish, Verdict, Terminated
  <2> QED BY <1>q, <2>1, <2>2 DEF Terminated
<1>r. ASSUME NEW a \in AttemptResult, InRung, ReturnFrom(a), ~a.skipped
      PROVE  [Contract!Next]_(Contract!contractVars)
  <2>1. Verdict(a) # "failed" => a.validated
    BY <1>r DEF Verdict
  <2>2. /\ attempts' = Append(attempts, a) /\ step' \in {"next", "done"}
        /\ a.validated => step' = "done"
    BY <1>r DEF ReturnFrom
  <2> QED BY <1>r, <1>a, <2>1, <2>2, RecordIsAttempt
<1>s. InRung => attempt \in AttemptResult /\ ~attempt.skipped
  BY DEF LengthInv
<1>1. CASE Start \/ BeginRung \/ Exhausted \/ RunAction \/ Cancel
  BY <1>1, <1>q DEF Start, BeginRung, Exhausted, RunAction, Cancel, Enter, Terminated
<1>2. CASE RefuseHighRisk
  <2> DEFINE a == [NewAttempt(NextRung) EXCEPT !.err = "refused", !.skipped = TRUE]
  <2>1. NextRung \in 1..MaxLen
    BY <1>2, LadderTyping, LaddersAssumption DEF RefuseHighRisk, NextRung
  <2>2. a \in AttemptResult
    BY <2>1 DEF NewAttempt, AttemptResult, Errors
  <2>3. /\ step = "next" /\ NextRung <= Len(ladder) /\ step' = "done"
        /\ attempts' = Append(attempts, a)
    BY <1>2 DEF RefuseHighRisk
  <2> QED BY <1>a, <2>2, <2>3, RecordIsAttempt
<1>3. CASE TakeSnapshot
  <2>1. CASE ReturnFrom([attempt EXCEPT !.err = "snapshot"])
    <3>1. LET a == [attempt EXCEPT !.err = "snapshot"]
          IN  step = "snapshot" /\ a \in AttemptResult /\ ~a.skipped
      BY <1>3, <1>s DEF TakeSnapshot, AttemptResult, Errors
    <3> QED BY <1>r, <2>1, <3>1
  <2>2. CASE UNCHANGED attempts
    BY <1>3, <1>q, <2>2 DEF TakeSnapshot, Terminated
  <2> QED BY <1>3, <2>1, <2>2 DEF TakeSnapshot
<1>4. CASE Validate
  <2>1. CASE ReturnFrom([attempt EXCEPT !.validated = TRUE])
    <3>1. LET a == [attempt EXCEPT !.validated = TRUE]
          IN  step = "validate" /\ a \in AttemptResult /\ ~a.skipped
      BY <1>4, <1>s DEF Validate, AttemptResult
    <3> QED BY <1>r, <2>1, <3>1
  <2>2. CASE UNCHANGED attempts
    BY <1>4, <1>q, <2>2 DEF Validate, Terminated
  <2> QED BY <1>4, <2>1, <2>2 DEF Validate
<1>5. CASE Rollback
  <2>1. InRung
    BY <1>5 DEF Rollback
  <2>2. LET b == [attempt EXCEPT !.rolledBack = TRUE]
            c == UndoFailure(attempt)
        IN /\ b \in AttemptResult /\ ~b.skipped
           /\ c \in AttemptResult /\ ~c.skipped
    BY <1>s, <2>1 DEF UndoFailure, AttemptResult
  <2>3. CASE ReturnFrom(attempt)
    BY <1>r, <1>s, <2>1, <2>3
  <2>4. CASE ReturnFrom([attempt EXCEPT !.rolledBack = TRUE])
    BY <1>r, <2>1, <2>2, <2>4
  <2>5. CASE ReturnFrom(UndoFailure(attempt))
    BY <1>r, <2>1, <2>2, <2>5
  <2> QED BY <1>5, <2>3, <2>4, <2>5 DEF Rollback
<1>6. CASE UNCHANGED vars
  BY <1>6, <1>q DEF vars
<1> QED BY <1>1, <1>2, <1>3, <1>4, <1>5, <1>6 DEF Next, Walk

\* The engine's records read as LadderContract says they do, whatever fails:
\* at most MaxActions verdicts, in order, none after a rung that resolved the
\* incident or was refused (execengine.Run, RunApproved).
THEOREM EngineImplementsContract ==
  Spec => Contract!Init /\ [][Contract!Next]_(Contract!contractVars)
<1>1. Init => RiskInv /\ UndoInv /\ LengthInv
  BY DEF Init, RiskInv, HighRiskNeedsApproval, UndoInv, LengthInv, InRung, SomeValidated
<1>2. Init => Contract!Init
  <2>1. ASSUME attempts = <<>> PROVE [k \in 1..Len(attempts) |-> Verdict(attempts[k])] = <<>>
    BY <2>1
  <2> QED BY <2>1 DEF Init, Contract!Init, Terminated
<1> QED BY <1>1, <1>2, RiskInvStep, UndoInvStep, LengthInvStep, ContractStep,
           TypeInvariant, PTL DEF Spec

(***************************************************************************)
(* Why a walk ends.  That it does is liveness (ImplementsContract) and     *)
(* rests on the scheduler; that it cannot go on for ever is a safety fact: *)
(* every step but a cancellation brings the end nearer.                    *)
(***************************************************************************)

\* How far the goroutine is from returning, within a rung and in all: a rung
\* recorded is worth more than all the steps within one.
StepRank == CASE step = "start"    -> 7
              [] step = "next"     -> 6
              [] step = "snapshot" -> 5
              [] step = "run"      -> 4
              [] step = "validate" -> 3
              [] step = "rollback" -> 2
              [] OTHER             -> 0
StepsLeft == 8 * (Len(ladder) - Len(attempts)) + StepRank

\* No rung is recorded twice.
WalkInv == Len(attempts) <= Len(ladder)

LEMMA LengthTyping ==
  ASSUME TypeInv
  PROVE  /\ Len(ladder) \in Nat /\ Len(ladder) <= MaxLen /\ MaxLen \in Nat
         /\ Len(attempts) \in Nat /\ attempts \in Seq(AttemptResult)
         /\ StepRank \in 0..7
  BY LadderTyping, LaddersAssumption DEF TypeInv, TypeOK, StepRank

\* While a rung is run it has not been recorded.
LEMMA RungIsAhead ==
  ASSUME TypeInv, UndoInv, RiskInv, InRung \/ (step = "next" /\ NextRung <= Len(ladder))
  PROVE  Len(attempts) < Len(ladder)
<1>1. mode \in {"run", "approve"} /\ Len(ladder) \in Nat /\ Len(attempts) \in Nat
  BY LengthTyping DEF TypeInv, TypeOK
<1>2. CASE InRung
  BY <1>1, <1>2 DEF TypeInv, UndoInv
<1>3. CASE step = "next" /\ NextRung <= Len(ladder)
  BY <1>1, <1>3 DEF NextRung
<1> QED BY <1>2, <1>3

\* A step of the goroutine records a rung and stops or goes to the next, or
\* goes on within the rung.
LEMMA WalkStep ==
  ASSUME TypeInv, UndoInv, RiskInv, Walk
  PROVE  /\ ladder' = ladder
         /\ \/ /\ \E a : attempts' = Append(attempts, a)
               /\ step' \in {"next", "done"}
               /\ InRung \/ (step = "next" /\ NextRung <= Len(ladder))
            \/ attempts' = attempts /\ StepRank' < StepRank
<1>1. CASE Start
  BY <1>1 DEF Start, Enter, StepRank
<1>2. CASE RefuseHighRisk
  <2>1. \E a : attempts' = Append(attempts, a)
    BY <1>2 DEF RefuseHighRisk
  <2> QED BY <1>2, <2>1 DEF RefuseHighRisk
<1>3. CASE BeginRung \/ Exhausted
  BY <1>3 DEF BeginRung, Enter, Exhausted, StepRank
<1>r. ASSUME NEW a, InRung, ReturnFrom(a)
      PROVE  (\E b : attempts' = Append(attempts, b)) /\ step' \in {"next", "done"}
  BY <1>r DEF ReturnFrom
<1>4. CASE TakeSnapshot
  <2>1. CASE ReturnFrom([attempt EXCEPT !.err = "snapshot"])
    BY <1>4, <1>r, <2>1 DEF TakeSnapshot, InRung
  <2>2. CASE attempts' = attempts /\ step' = "run"
    BY <1>4, <2>2 DEF TakeSnapshot, StepRank
  <2> QED BY <1>4, <2>1, <2>2 DEF TakeSnapshot
<1>5. CASE RunAction
  <2>1. /\ ladder' = ladder /\ attempts' = attempts
        /\ step = "run" /\ step' \in {"validate", "rollback", "panic"}
    BY <1>5 DEF RunAction
  <2> QED BY <2>1 DEF StepRank
<1>6. CASE Validate
  <2>1. CASE ReturnFrom([attempt EXCEPT !.validated = TRUE])
    BY <1>6, <1>r, <2>1 DEF Validate, InRung
  <2>2. CASE attempts' = attempts /\ step' = "rollback"
    BY <1>6, <2>2 DEF Validate, StepRank
  <2> QED BY <1>6, <2>1, <2>2 DEF Validate
<1>7. CASE Rollback
  BY <1>7, <1>r DEF Rollback, InRung
<1> QED BY <1>1, <1>2, <1>3, <1>4, <1>5, <1>6, <1>7 DEF Walk

LEMMA WalkDescends ==
  ASSUME TypeInv, UndoInv, RiskInv, WalkInv, Walk
  PROVE  StepsLeft' < StepsLeft /\ WalkInv'
<1>1. /\ Len(ladder) \in Nat /\ Len(attempts) \in Nat /\ attempts \in Seq(AttemptResult)
      /\ StepRank \in 0..7 /\ StepRank' \in 0..7 /\ ladder' = ladder
  BY LengthTyping, WalkStep DEF StepRank
<1>2. CASE attempts' = attempts /\ StepRank' < StepRank
  BY <1>1, <1>2 DEF StepsLeft, WalkInv
<1>3. CASE /\ \E a : attempts' = Append(attempts, a)
           /\ step' \in {"next", "done"}
           /\ InRung \/ (step = "next" /\ NextRung <= Len(ladder))
  <2>1. Len(attempts') = Len(attempts) + 1
    BY <1>1, <1>3
  <2>2. Len(attempts) < Len(ladder)
    BY <1>3, RungIsAhead
  <2>3. StepRank' <= 6 /\ StepRank >= 2
    BY <1>3 DEF StepRank, InRung
  <2> QED BY <1>1, <2>1, <2>2, <2>3 DEF StepsLeft, WalkInv
<1> QED BY <1>2, <1>3, WalkStep

\* A request's goroutine takes at most 8 * MaxLen + 7 steps, whatever fails,
\* hangs up or panics on the way: each one lowers StepsLeft, a cancellation
\* leaves it alone (Run, RunApproved).
THEOREM WalksAreBounded ==
  Spec => /\ [](StepsLeft \in 0..(8 * MaxLen + 7))
          /\ [][(Walk => StepsLeft' < StepsLeft) /\ (Cancel => StepsLeft' = StepsLeft)]_vars
<1>1. Init => RiskInv /\ UndoInv
  BY DEF Init, RiskInv, HighRiskNeedsApproval, UndoInv, InRung, SomeValidated
<1>2. TypeInv /\ Init => WalkInv
  BY LengthTyping DEF Init, WalkInv
<1>3. ASSUME Cancel \/ UNCHANGED vars PROVE UNCHANGED <<ladder, attempts, step>>
  BY <1>3 DEF Cancel, vars
<1>4. TypeInv /\ UndoInv /\ RiskInv /\ WalkInv /\ [Next]_vars => WalkInv'
  BY <1>3, WalkDescends DEF Next, WalkInv
<1>5. TypeInv /\ UndoInv /\ RiskInv /\ WalkInv /\ [Next]_vars
        => [(Walk => StepsLeft' < StepsLeft) /\ (Cancel => StepsLeft' = StepsLeft)]_vars
  BY <1>3, WalkDescends DEF StepsLeft, StepRank
<1>6. TypeInv /\ WalkInv => StepsLeft \in 0..(8 * MaxLen + 7)
  BY LengthTyping DEF WalkInv, StepsLeft
<1> QED BY <1>1, <1>2, <1>4, <1>5, <1>6, RiskInvStep, UndoInvStep, TypeInvariant, PTL DEF Spec
=============================================================================
