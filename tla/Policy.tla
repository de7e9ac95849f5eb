------------------------------- MODULE Policy -------------------------------
(***************************************************************************)
(* internal/policy: may this caller run an action of this risk in this     *)
(* environment?  The caller's directory groups resolve to a tier           *)
(* (types.go), the tier is judged by the rules of policy.rego, and the     *)
(* risk judged is that of a whole ladder (mcptools.maxRisk).               *)
(***************************************************************************)
EXTENDS Integers, Sequences, FiniteSets

Risks == {"safe", "medium", "high"}
Envs  == {"prod", "nonprod"}
Tiers == {"readonly", "nonprod-admin", "prod-admin"}

\* What the mapping file may say: LoadGroupMapping takes any string.
TierNames == Tiers \cup {"misspelt"}

\* Go's zero value for a name tierRank does not hold.
tierRank(t) == CASE t = "prod-admin" -> 2 [] t = "nonprod-admin" -> 1 [] OTHER -> 0

\* The first of the best ranked of the caller's groups the mapping knows.
Known(mapping, groups) == {i \in DOMAIN groups : groups[i] \in DOMAIN mapping}

LastOfBest(mapping, groups, i) ==                          \* mutant of Best
  \A j \in Known(mapping, groups) : i >= j
Best(mapping, groups, i) ==
  \A j \in Known(mapping, groups) :
    LET rank(k) == tierRank(mapping[groups[k]]) IN
      rank(i) > rank(j) \/ (rank(i) = rank(j) /\ i <= j)

HighestTier(mapping, groups) ==
  IF Known(mapping, groups) = {} THEN [ok |-> FALSE, tier |-> ""]
  ELSE [ok |-> TRUE,
        tier |-> mapping[groups[CHOOSE i \in Known(mapping, groups) :
                                  Best(mapping, groups, i)]]]

-----------------------------------------------------------------------------
(* policy.rego.  Each rule is a condition on the input and the result it   *)
(* gives; rules that apply together are an evaluation error.               *)

Inputs == [tier : TierNames, env : Envs, risk : Risks, flag : BOOLEAN]

ReadonlyAnyRisk(in) == in.tier = "readonly"        \* mutant of ReadonlyRule

HighRule(in)     == in.risk = "high"
ReadonlyRule(in) == in.risk # "high" /\ in.tier = "readonly"
SafeRule(in)     == in.risk = "safe" /\ in.tier # "readonly"
NonProdRule(in)  == /\ in.risk = "medium" /\ in.env = "nonprod"
                    /\ in.tier \in {"nonprod-admin", "prod-admin"}
ProdByAnyAdmin(in) ==                                   \* mutant of ProdRule
                    /\ in.risk = "medium" /\ in.env = "prod"
                    /\ in.tier \in {"nonprod-admin", "prod-admin"}
ProdRule(in)     == /\ in.risk = "medium" /\ in.env = "prod"
                    /\ in.tier = "prod-admin"

\* The rules that apply: the last three exist once for each value of the flag.
Applicable(in) ==
  {r \in {"high", "readonly", "safe", "nonprod", "prod"} :
     \/ r = "high" /\ HighRule(in)
     \/ r = "readonly" /\ ReadonlyRule(in)
     \/ r = "safe" /\ SafeRule(in)
     \/ r = "nonprod" /\ NonProdRule(in)
     \/ r = "prod" /\ ProdRule(in)}

Decisions == [allow : BOOLEAN, dryRun : BOOLEAN, error : BOOLEAN]

Result(in) ==
  [allow  |-> Applicable(in) # {},
   dryRun |-> ~(in.flag /\ Applicable(in) \cap {"safe", "nonprod", "prod"} # {}),
   error  |-> \E r, s \in Applicable(in) : r # s]

\* Engine.Decide.
Decide(mapping, groups, env, risk, flag) ==
  LET h == HighestTier(mapping, groups) IN
    IF h.ok THEN Result([tier |-> h.tier, env |-> env, risk |-> risk, flag |-> flag])
    ELSE [allow |-> FALSE, dryRun |-> TRUE, error |-> FALSE]

Runs(d) == d.allow /\ ~d.dryRun /\ ~d.error

-----------------------------------------------------------------------------
(* The risk a ladder is judged by: the highest its high-risk rungs, which  *)
(* never run by themselves, left out; "high" when nothing else is there.   *)

FirstSafe(risks) ==                                      \* mutant of maxRisk
  IF risks \subseteq {"high"} THEN "high"
  ELSE IF "safe" \in risks THEN "safe" ELSE "medium"
maxRisk(risks) ==
  IF risks \subseteq {"high"} THEN "high"
  ELSE IF "medium" \in risks THEN "medium" ELSE "safe"
=============================================================================
