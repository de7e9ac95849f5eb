---------------------------- MODULE RemoteCall ----------------------------
(***************************************************************************)
(* What internal/transport promises the tools that call it: a call is      *)
(* executed by an agent at most once, a reply is the outcome of that       *)
(* call's own execution, and each call has one outcome.  An error says     *)
(* nothing about the execution, which may even come after it.              *)
(***************************************************************************)
EXTENDS Naturals

CONSTANT Calls

VARIABLES outcome,  \* "none", "reply" or "error", for each call
          executed  \* how often an agent has carried each out
callVars == <<outcome, executed>>

Init == outcome = [c \in Calls |-> "none"] /\ executed = [c \in Calls |-> 0]

Execute(c) ==
  /\ executed[c] = 0
  /\ executed' = [executed EXCEPT ![c] = 1]
  /\ UNCHANGED outcome

Return(c) ==
  /\ outcome[c] = "none"
  /\ \E o \in {"error"} \cup {r \in {"reply"} : executed[c] = 1} :
       outcome' = [outcome EXCEPT ![c] = o]
  /\ UNCHANGED executed

Next == \E c \in Calls : Execute(c) \/ Return(c)

Spec == Init /\ [][Next]_callVars
=============================================================================
