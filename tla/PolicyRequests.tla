--------------------------- MODULE PolicyRequests ---------------------------
(***************************************************************************)
(* One authorization question put to internal/policy by the troubleshoot   *)
(* tool: a caller's groups against a ladder's risks.  The mapping is the   *)
(* ops-owned file, fixed while the hub runs.                               *)
(***************************************************************************)
EXTENDS Policy

CONSTANTS
  Groups,    \* directory groups
  Mapping,   \* the group mapping loaded at start
  Callers    \* the lists of groups callers present

ASSUME MappingAssumption ==
  /\ DOMAIN Mapping \subseteq Groups
  /\ \A g \in DOMAIN Mapping : Mapping[g] \in TierNames
  /\ Callers \subseteq Seq(Groups)

VARIABLES groups, env, flag, risks, decision
vars == <<groups, env, flag, risks, decision>>

Unasked == [allow |-> FALSE, dryRun |-> TRUE, error |-> FALSE]

Init ==
  /\ groups \in Callers
  /\ env \in Envs
  /\ flag \in BOOLEAN
  /\ risks \in SUBSET Risks \ {{}}
  /\ decision = Unasked

\* A caller asks; the same hub may be asked again, by the same caller.
Ask ==
  /\ decision' = Decide(Mapping, groups, env, maxRisk(risks), flag)
  /\ UNCHANGED <<groups, env, flag, risks>>

Next == Ask
Spec == Init /\ [][Next]_vars

-----------------------------------------------------------------------------
(* Properties.                                                             *)

\* No two rules of policy.rego apply to one input with different results,
\* which would make Eval fail for every caller in that situation.
RulesAreDisjoint == ~decision.error

\* A ladder let run is one whose every rung that may run by itself the same
\* caller may run alone: judging only the worst of them lets nothing else
\* through (maxRisk with Decide).
GateCoversLadder ==
  Runs(decision) =>
    \A r \in risks \ {"high"} : Runs(Decide(Mapping, groups, env, r, flag))

\* "letting a high-risk rung further down the ladder force the whole request
\* into dry-run would block even the safe/medium actions before it": with the
\* high-risk rungs taken away the answer is the same.
HighRungBlocksNothing ==
  risks \ {"high"} # {} =>
    Runs(Decide(Mapping, groups, env, maxRisk(risks), flag))
      = Runs(Decide(Mapping, groups, env, maxRisk(risks \ {"high"}), flag))

KnownTier(g) == g \in DOMAIN Mapping => Mapping[g] \in Tiers
SpeltRight == \A i \in DOMAIN groups : KnownTier(groups[i])

\* One of the caller's groups is mapped to tier t, or to one above readonly.
Holds(t) == \E i \in DOMAIN groups :
              groups[i] \in DOMAIN Mapping /\ Mapping[groups[i]] = t
AboveReadonly == \E t \in Tiers \ {"readonly"} : Holds(t)

\* Being in one more group never takes away what a caller may run, wherever
\* in the list the group appears, if the mapping misspells none of its tiers
\* (HighestTier with Decide).
MoreGroupsRunMore ==
  SpeltRight =>
    \A g \in {h \in Groups : KnownTier(h)} : Runs(decision) =>
      /\ Runs(Decide(Mapping, Append(groups, g), env, maxRisk(risks), flag))
      /\ Runs(Decide(Mapping, <<g>> \o groups, env, maxRisk(risks), flag))

\* Whatever list of groups brought the caller there, a misspelt tier among
\* them included, medium risk runs in production for a prod-admin only and
\* elsewhere for an admin; and where all tiers are spelt right nothing at all
\* runs for a caller without a tier above readonly (Decide).
RunsAreEntitled ==
  Runs(decision) =>
    /\ flag /\ risks \ {"high"} # {}
    /\ "medium" \in risks => Holds("prod-admin") \/ (env = "nonprod" /\ Holds("nonprod-admin"))
    /\ SpeltRight => AboveReadonly

\* What is said of every mapping: "A caller whose groups don't map to any
\* known tier is always denied" (engine.go:48), and a safe action is run by
\* "qualquer tier acima de readonly" (policy.rego:30).  So nothing runs for a
\* caller none of whose groups has a tier above readonly.
OnlyKnownTiersRun == Runs(decision) => AboveReadonly
=============================================================================
