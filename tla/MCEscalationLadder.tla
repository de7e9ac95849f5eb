------------------------ MODULE MCEscalationLadder ------------------------
(* The kinds of rung the playbooks build, and every ladder of up to four   *)
(* of them: longer than execengine.MaxActions by one.                      *)
EXTENDS EscalationLadder, SequencesExt

Rung(risk, snapshot, run, validate, rollback) ==
  [risk |-> risk, snapshot |-> snapshot, run |-> run, validate |-> validate,
   rollback |-> rollback]

MCKinds == { Rung("safe", FALSE, TRUE, TRUE, FALSE),    \* restart pod
             Rung("medium", TRUE, TRUE, TRUE, TRUE),    \* scale down and up
             Rung("medium", FALSE, TRUE, TRUE, FALSE),  \* rollout restart, HPA
             Rung("high", FALSE, TRUE, FALSE, FALSE),   \* memory limit
             Rung("high", FALSE, FALSE, FALSE, FALSE) } \* architecture

MCLadders == SeqOf(MCKinds, MaxLen)

\* The ladders of the six playbooks, with and without an owning Deployment.
PlaybookLadders ==
  LET restart == Rung("safe", FALSE, TRUE, TRUE, FALSE)
      medium  == Rung("medium", FALSE, TRUE, TRUE, FALSE)
  IN { <<restart>>,
       <<restart, Rung("medium", TRUE, TRUE, TRUE, TRUE), medium>>,
       <<restart, Rung("high", FALSE, TRUE, FALSE, FALSE)>>,
       <<Rung("high", FALSE, FALSE, FALSE, FALSE)>>,
       <<medium>> }
=============================================================================
