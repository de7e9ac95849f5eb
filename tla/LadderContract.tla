-------------------------- MODULE LadderContract --------------------------
(***************************************************************************)
(* What a caller of internal/execengine is promised, with the work of one  *)
(* rung as a single step: the record of a request is a sequence of         *)
(* verdicts, one per rung in order, at most MaxActions of them; nothing    *)
(* follows a rung that resolved the incident or one that was refused.      *)
(***************************************************************************)
EXTENDS Integers, Sequences

CONSTANT MaxActions

VARIABLES verdicts, finished
contractVars == <<verdicts, finished>>

Init == verdicts = <<>> /\ finished = FALSE

\* A rung is tried; a healthy one is the last.
Attempt(v) ==
  /\ ~finished /\ Len(verdicts) < MaxActions
  /\ verdicts' = Append(verdicts, v)
  /\ finished' \in BOOLEAN
  /\ v # "failed" => finished'

\* The request ends with the verdicts it has.
Finish == ~finished /\ finished' = TRUE /\ UNCHANGED verdicts

Next == Finish \/ \E v \in {"failed", "healthy", "refused"} : Attempt(v)

Spec == Init /\ [][Next]_contractVars /\ WF_contractVars(Next)
=============================================================================
