--------------------------- MODULE Callers_proofs ---------------------------
(***************************************************************************)
(* What a caller of the hub may do, for every mapping, list of groups,     *)
(* token and account.  PolicyRequests: what the policy lets a caller run;  *)
(* the decision kept is always one Decide gave (DecisionInv, the inductive    *)
(* invariant), the rest is about the rules themselves.  RoleAccess: what a *)
(* token reaches in a role cluster, through the one client and with a      *)
(* token of its own, for any number of calls and moves.                    *)
(***************************************************************************)
EXTENDS PolicyRequests, RoleAccess, WellFoundedInduction, SequenceTheorems, TLAPS

DecisionInv ==
  /\ groups \in Callers /\ env \in Envs /\ flag \in BOOLEAN
  /\ risks \in SUBSET Risks \ {{}}
  /\ decision \in {Unasked, Decide(Mapping, groups, env, maxRisk(risks), flag)}

LEMMA AnsweredIsInvariant == Spec => []DecisionInv
<1>1. Init => DecisionInv
  BY DEF Init, DecisionInv
<1>2. DecisionInv /\ [Next]_vars => DecisionInv'
  BY DEF DecisionInv, Next, Ask, vars, Unasked
<1> QED BY <1>1, <1>2, PTL DEF Spec

-----------------------------------------------------------------------------
(* The tier resolved is the mapping's value for one of the caller's groups. *)

LEMMA LeastExists ==
  ASSUME NEW S \in SUBSET Nat, S # {}
  PROVE  \E x \in S : \A y \in S : x <= y
<1>1. PICK x \in S : \A y \in S : ~(<<y, x>> \in OpToRel(<, Nat))
  BY NatLessThanWellFounded, WFMin
<1>2. \A y \in S : ~(y < x)
  BY <1>1 DEF OpToRel
<1> QED BY <1>2

LEMMA BestExists ==
  ASSUME NEW m, NEW gs \in Seq(Groups), Known(m, gs) # {}
  PROVE  \E i \in Known(m, gs) : Best(m, gs, i)
<1> DEFINE K == Known(m, gs)
           rank(i) == tierRank(m[gs[i]])
           Top(n) == {i \in K : rank(i) = n}
<1>1. K \subseteq Nat
  BY DEF Known
<1>2. \A i \in K : rank(i) \in 0..2
  BY DEF tierRank
<1>3. PICK n \in 0..2 : Top(n) # {} /\ \A i \in K : rank(i) <= n
  <2>1. CASE Top(2) # {}
    BY <1>2, <2>1
  <2>2. CASE Top(2) = {} /\ Top(1) # {}
    BY <1>2, <2>2
  <2>3. CASE Top(2) = {} /\ Top(1) = {}
    <3>1. \A i \in K : rank(i) = 0
      BY <1>2, <2>3
    <3> QED BY <3>1
  <2> QED BY <2>1, <2>2, <2>3
<1>4. PICK j \in Top(n) : TRUE
  BY <1>3
<1>5. PICK i \in Top(n) : \A k \in Top(n) : i <= k
  <2> Top(n) \in SUBSET Nat
    BY <1>1
  <2> HIDE DEF Top
  <2> QED BY <1>4, LeastExists
<1>6. \A k \in K : rank(i) > rank(k) \/ (rank(i) = rank(k) /\ i <= k)
  BY <1>1, <1>2, <1>3, <1>5
<1> QED BY <1>5, <1>6 DEF Best

LEMMA TierIsHeld ==
  ASSUME NEW m, NEW gs \in Seq(Groups), HighestTier(m, gs).ok
  PROVE  \E i \in DOMAIN gs : gs[i] \in DOMAIN m /\ HighestTier(m, gs).tier = m[gs[i]]
<1> DEFINE i == CHOOSE i \in Known(m, gs) : Best(m, gs, i)
<1>1. Known(m, gs) # {}
  BY DEF HighestTier
<1>2. i \in Known(m, gs)
  BY <1>1, BestExists
<1>3. HighestTier(m, gs).tier = m[gs[i]]
  BY <1>1 DEF HighestTier
<1> QED BY <1>2, <1>3 DEF Known

\* The tier of a longer list ranks as high, whatever was put where.
LEMMA MoreGroupsRankHigher ==
  ASSUME NEW m, NEW gs \in Seq(Groups), NEW hs \in Seq(Groups),
         \A i \in DOMAIN gs : \E j \in DOMAIN hs : hs[j] = gs[i],
         HighestTier(m, gs).ok
  PROVE  /\ HighestTier(m, hs).ok
         /\ tierRank(HighestTier(m, gs).tier) <= tierRank(HighestTier(m, hs).tier)
<1>1. PICK i \in DOMAIN gs : gs[i] \in DOMAIN m /\ HighestTier(m, gs).tier = m[gs[i]]
  BY TierIsHeld
<1>2. PICK j \in DOMAIN hs : hs[j] = gs[i]
  OBVIOUS
<1>3. j \in Known(m, hs)
  BY <1>1, <1>2 DEF Known
<1> DEFINE k == CHOOSE k \in Known(m, hs) : Best(m, hs, k)
<1>4. k \in Known(m, hs) /\ Best(m, hs, k)
  BY <1>3, BestExists
<1>5. tierRank(m[hs[k]]) >= tierRank(m[hs[j]])
  <2> HIDE DEF k
  <2>1. \A t : tierRank(t) \in 0..2
    BY DEF tierRank
  <2> QED BY <1>3, <1>4, <2>1 DEF Best
<1>6. HighestTier(m, hs).ok /\ HighestTier(m, hs).tier = m[hs[k]]
  BY <1>3 DEF HighestTier
<1> QED BY <1>1, <1>2, <1>5, <1>6

-----------------------------------------------------------------------------
(* The rules, for every input.                                             *)

LEMMA RulesExclude ==
  ASSUME NEW in, NEW r \in Applicable(in), NEW q \in Applicable(in)
  PROVE  r = q
BY DEF Applicable, HighRule, ReadonlyRule, SafeRule, NonProdRule, ProdRule

\* When the answer of Decide lets a risk run.
LEMMA DecideRuns ==
  ASSUME NEW m, NEW gs, NEW e, NEW r, NEW f \in BOOLEAN, Runs(Decide(m, gs, e, r, f))
  PROVE  /\ HighestTier(m, gs).ok /\ f
         /\ \/ r = "safe" /\ HighestTier(m, gs).tier # "readonly"
            \/ /\ r = "medium" /\ e = "nonprod"
               /\ HighestTier(m, gs).tier \in {"nonprod-admin", "prod-admin"}
            \/ r = "medium" /\ e = "prod" /\ HighestTier(m, gs).tier = "prod-admin"
<1> DEFINE in == [tier |-> HighestTier(m, gs).tier, env |-> e, risk |-> r, flag |-> f]
<1>1. HighestTier(m, gs).ok /\ Decide(m, gs, e, r, f) = Result(in)
  BY DEF Decide, Runs
<1>2. f /\ Applicable(in) \cap {"safe", "nonprod", "prod"} # {}
  BY <1>1 DEF Runs, Result
<1>3. PICK a \in Applicable(in) : a \in {"safe", "nonprod", "prod"}
  BY <1>2
<1>4. SafeRule(in) \/ NonProdRule(in) \/ ProdRule(in)
  BY <1>3 DEF Applicable
<1> QED BY <1>1, <1>2, <1>4 DEF SafeRule, NonProdRule, ProdRule

\* ... and conversely.
LEMMA RunsDecide ==
  ASSUME NEW m, NEW gs, NEW e, NEW r, HighestTier(m, gs).ok,
         \/ r = "safe" /\ HighestTier(m, gs).tier # "readonly"
         \/ /\ r = "medium" /\ e = "nonprod"
            /\ HighestTier(m, gs).tier \in {"nonprod-admin", "prod-admin"}
         \/ r = "medium" /\ e = "prod" /\ HighestTier(m, gs).tier = "prod-admin"
  PROVE  Runs(Decide(m, gs, e, r, TRUE))
<1> DEFINE in == [tier |-> HighestTier(m, gs).tier, env |-> e, risk |-> r, flag |-> TRUE]
<1>1. Decide(m, gs, e, r, TRUE) = Result(in)
  BY DEF Decide
<1>2. SafeRule(in) \/ NonProdRule(in) \/ ProdRule(in)
  BY DEF SafeRule, NonProdRule, ProdRule
<1>3. Applicable(in) \cap {"safe", "nonprod", "prod"} # {}
  BY <1>2 DEF Applicable
<1>4. ~ \E a, b \in Applicable(in) : a # b
  BY RulesExclude
<1>5. Result(in).allow /\ ~Result(in).dryRun /\ ~Result(in).error
  BY <1>3, <1>4 DEF Result
<1> QED BY <1>1, <1>5 DEF Runs

-----------------------------------------------------------------------------
(* The properties.                                                         *)

\* No caller, whatever the mapping says, meets two rules at once: Eval never
\* fails with a conflict (policy.rego, Engine.Decide).
THEOREM RulesNeverConflict == Spec => []RulesAreDisjoint
<1>1. DecisionInv => RulesAreDisjoint
  <2> SUFFICES ASSUME NEW m, NEW gs, NEW e, NEW r, NEW f
               PROVE  ~Decide(m, gs, e, r, f).error
    BY DEF DecisionInv, RulesAreDisjoint, Unasked
  <2> DEFINE in == [tier |-> HighestTier(m, gs).tier, env |-> e, risk |-> r, flag |-> f]
  <2>1. ~Result(in).error
    BY RulesExclude DEF Result
  <2> QED BY <2>1 DEF Decide
<1> QED BY <1>1, AnsweredIsInvariant, PTL

\* A decision that lets a ladder run, read back from DecisionInv.
LEMMA RunningWasDecided ==
  ASSUME DecisionInv, Runs(decision)
  PROVE  flag /\ Runs(Decide(Mapping, groups, env, maxRisk(risks), flag))
<1>1. decision = Decide(Mapping, groups, env, maxRisk(risks), flag)
  BY DEF DecisionInv, Runs, Unasked
<1> QED BY <1>1, DecideRuns DEF DecisionInv

\* Judging a ladder by its worst rung lets no rung through that the caller
\* could not run alone, for every mapping, caller and ladder (maxRisk).
THEOREM GateIsEnough == Spec => []GateCoversLadder
<1>1. DecisionInv => GateCoversLadder
  <2> SUFFICES ASSUME DecisionInv, Runs(decision), NEW r \in risks \ {"high"}
               PROVE  Runs(Decide(Mapping, groups, env, r, flag))
    BY DEF GateCoversLadder
  <2>1. flag = TRUE /\ Runs(Decide(Mapping, groups, env, maxRisk(risks), flag))
    BY RunningWasDecided DEF DecisionInv
  <2>2. r \in {"safe", "medium"} /\ (r = "medium" => maxRisk(risks) = "medium")
    BY DEF DecisionInv, Risks, maxRisk
  <2> DEFINE h == HighestTier(Mapping, groups)
  <2>3. /\ h.ok
        /\ \/ maxRisk(risks) = "safe" /\ h.tier # "readonly"
           \/ /\ maxRisk(risks) = "medium" /\ env = "nonprod"
              /\ h.tier \in {"nonprod-admin", "prod-admin"}
           \/ maxRisk(risks) = "medium" /\ env = "prod" /\ h.tier = "prod-admin"
    BY <2>1, DecideRuns
  <2>4. \/ r = "safe" /\ h.tier # "readonly"
        \/ /\ r = "medium" /\ env = "nonprod"
           /\ h.tier \in {"nonprod-admin", "prod-admin"}
        \/ r = "medium" /\ env = "prod" /\ h.tier = "prod-admin"
    BY <2>2, <2>3
  <2>5. Runs(Decide(Mapping, groups, env, r, TRUE))
    BY <2>3, <2>4, RunsDecide
  <2> QED BY <2>1, <2>5
<1> QED BY <1>1, AnsweredIsInvariant, PTL

\* Whatever the mapping and the order of the groups, medium risk is run only
\* for a caller one of whose own groups carries the tier it needs; and if the
\* mapping misspells none of the caller's tiers, nothing runs without a tier
\* above readonly (HighestTier, Decide).
THEOREM EntitlementNeeded == Spec => []RunsAreEntitled
<1>1. DecisionInv => RunsAreEntitled
  <2> SUFFICES ASSUME DecisionInv, Runs(decision)
               PROVE  /\ flag /\ risks \ {"high"} # {}
                      /\ "medium" \in risks =>
                           Holds("prod-admin") \/ (env = "nonprod" /\ Holds("nonprod-admin"))
                      /\ SpeltRight => AboveReadonly
    BY DEF RunsAreEntitled
  <2> DEFINE h == HighestTier(Mapping, groups)
  <2>1. flag /\ Runs(Decide(Mapping, groups, env, maxRisk(risks), flag))
    BY RunningWasDecided
  <2>2. /\ h.ok
        /\ \/ maxRisk(risks) = "safe" /\ h.tier # "readonly"
           \/ /\ maxRisk(risks) = "medium" /\ env = "nonprod"
              /\ h.tier \in {"nonprod-admin", "prod-admin"}
           \/ maxRisk(risks) = "medium" /\ env = "prod" /\ h.tier = "prod-admin"
    BY <2>1, DecideRuns DEF DecisionInv
  <2>3. groups \in Seq(Groups)
    BY MappingAssumption DEF DecisionInv
  <2>4. PICK i \in DOMAIN groups : groups[i] \in DOMAIN Mapping /\ h.tier = Mapping[groups[i]]
    BY <2>2, <2>3, TierIsHeld
  <2>5. Holds(h.tier)
    BY <2>4 DEF Holds
  <2>6. risks \ {"high"} # {}
    BY <2>2 DEF maxRisk
  <2>7. ASSUME "medium" \in risks
        PROVE  Holds("prod-admin") \/ (env = "nonprod" /\ Holds("nonprod-admin"))
    <3>1. maxRisk(risks) = "medium"
      BY <2>7 DEF maxRisk
    <3> QED BY <2>2, <2>5, <3>1
  <2>8. ASSUME SpeltRight PROVE AboveReadonly
    <3>1. h.tier \in Tiers \ {"readonly"}
      BY <2>2, <2>4, <2>8 DEF SpeltRight, KnownTier
    <3> QED BY <2>5, <3>1 DEF AboveReadonly
  <2> QED BY <2>1, <2>6, <2>7, <2>8
<1> QED BY <1>1, AnsweredIsInvariant, PTL

\* One group more, first or last in the caller's list, never takes away what
\* the caller may run, for every mapping that misspells none of the caller's
\* tiers (HighestTier, Decide).
THEOREM MoreGroupsNeverHurt == Spec => []MoreGroupsRunMore
<1>1. DecisionInv => MoreGroupsRunMore
  <2> SUFFICES ASSUME DecisionInv, SpeltRight,
                      NEW g \in Groups, Runs(decision),
                      NEW hs \in {Append(groups, g), <<g>> \o groups}
               PROVE  Runs(Decide(Mapping, hs, env, maxRisk(risks), flag))
    BY DEF MoreGroupsRunMore
  <2> DEFINE h == HighestTier(Mapping, groups)
             hh == HighestTier(Mapping, hs)
  <2>1. flag = TRUE /\ Runs(Decide(Mapping, groups, env, maxRisk(risks), flag))
    BY RunningWasDecided DEF DecisionInv
  <2>2. /\ h.ok
        /\ \/ maxRisk(risks) = "safe" /\ h.tier # "readonly"
           \/ /\ maxRisk(risks) = "medium" /\ env = "nonprod"
              /\ h.tier \in {"nonprod-admin", "prod-admin"}
           \/ maxRisk(risks) = "medium" /\ env = "prod" /\ h.tier = "prod-admin"
    BY <2>1, DecideRuns
  <2>3. groups \in Seq(Groups)
    BY MappingAssumption DEF DecisionInv
  <2>4. hs \in Seq(Groups) /\ \A i \in DOMAIN groups : \E j \in DOMAIN hs : hs[j] = groups[i]
    <3>1. CASE hs = Append(groups, g)
      <4>1. \A i \in DOMAIN groups : i \in DOMAIN hs /\ hs[i] = groups[i]
        BY <2>3, <3>1
      <4> QED BY <2>3, <3>1, <4>1
    <3>2. CASE hs = <<g>> \o groups
      <4>1. \A i \in DOMAIN groups : i + 1 \in DOMAIN hs /\ hs[i + 1] = groups[i]
        BY <2>3, <3>2
      <4>2. <<g>> \in Seq(Groups)
        OBVIOUS
      <4>3. hs \in Seq(Groups)
        BY <2>3, <3>2, <4>2, ConcatProperties
      <4> QED BY <4>1, <4>3
    <3> QED BY <3>1, <3>2
  <2>5. hh.ok /\ tierRank(h.tier) <= tierRank(hh.tier)
    BY <2>2, <2>3, <2>4, MoreGroupsRankHigher
  <2>6. h.tier \in {"nonprod-admin", "prod-admin"}
    <3>1. h.tier \in Tiers
      BY <2>2, <2>3, TierIsHeld DEF SpeltRight, KnownTier
    <3> QED BY <2>2, <3>1 DEF Tiers
  <2>7. hh.tier = "prod-admin" \/ (hh.tier = "nonprod-admin" /\ h.tier = "nonprod-admin")
    BY <2>5, <2>6 DEF tierRank
  <2> QED BY <2>1, <2>2, <2>5, <2>7, RunsDecide
<1> QED BY <1>1, AnsweredIsInvariant, PTL

\* A high-risk rung added to a ladder never changes whether the rest may run.
THEOREM HighRungIsIgnored == Spec => []HighRungBlocksNothing
<1>1. HighRungBlocksNothing
  <2> SUFFICES ASSUME risks \ {"high"} # {}
               PROVE  maxRisk(risks) = maxRisk(risks \ {"high"})
    BY DEF HighRungBlocksNothing
  <2> QED BY DEF maxRisk
<1> QED BY <1>1, PTL

(***************************************************************************)
(* Type correctness.                                                       *)
(***************************************************************************)

\* AccessTypeOK is not inductive: a call that asks for a token asks the client
\* it has got, and the times it was given are of no use unless bounded.
TypeInv ==
  /\ scopesOn \in BOOLEAN /\ inventoryOn \in BOOLEAN
  /\ home \in Accounts \cup {"unknown"} /\ moves \in 0..MaxMoves
  /\ cached \in ToolCalls \cup {NoClient}
  /\ at \in [ToolCalls -> Points] /\ result \in [ToolCalls -> ToolResults]
  /\ client \in [ToolCalls -> ToolCalls \cup {NoClient}]
  /\ accountOf \in [ToolCalls -> Accounts \cup {"unknown"}]
  /\ expiry \in [ToolCalls -> Nat] /\ bearer \in [ToolCalls -> Nat]
  /\ sentAt \in [ToolCalls -> Nat]
  /\ busy \in [ToolCalls -> ToolCalls \cup {NoClient}]
  /\ clock \in 0..MaxTime
  /\ \A c \in ToolCalls : at[c] \in {"token", "fetch", "send"} => client[c] \in ToolCalls
  /\ \A c \in ToolCalls : /\ expiry[c] \in 0..(MaxTime + TokenLife)
                           /\ bearer[c] \in 0..(MaxTime + TokenLife)

LEMMA TypeInvInit == AccessInit => TypeInv
<1>1. 0 \in 0..(MaxTime + TokenLife) /\ 0 \in 0..MaxTime /\ 0 \in 0..MaxMoves
  BY AccessAssumption, TokenAssumption
<1> QED BY <1>1, AccessAssumption DEF AccessInit, TypeInv, Points, ToolResults

LEMMA MovesOn ==
  ASSUME TypeInv, NEW c \in ToolCalls,
         (\E p \in Points : GoOn(c, p)) \/ (\E x \in ToolResults : End(c, x))
  PROVE  at' \in [ToolCalls -> Points] /\ result' \in [ToolCalls -> ToolResults]
<1>1. ASSUME NEW p \in Points, GoOn(c, p)
      PROVE  at' \in [ToolCalls -> Points] /\ result' \in [ToolCalls -> ToolResults]
  BY <1>1 DEF TypeInv, GoOn
<1>2. ASSUME NEW x \in ToolResults, End(c, x)
      PROVE  at' \in [ToolCalls -> Points] /\ result' \in [ToolCalls -> ToolResults]
  BY <1>2 DEF TypeInv, End, Points
<1> QED BY <1>1, <1>2

LEMMA TypeInvStep == TypeInv /\ [AccessNext]_accessVars => TypeInv'
<1> SUFFICES ASSUME TypeInv, [AccessNext]_accessVars PROVE TypeInv'
  OBVIOUS
<1> USE DEF TypeInv
<1>1. ASSUME NEW c \in ToolCalls,
             StartTool(c) \/ CheckScope(c) \/ WrongRegion(c) \/ BuildClient(c)
      PROVE  TypeInv'
  <2>1. /\ (\E p \in {"scope", "cache", "store"} : GoOn(c, p)) \/ (\E x \in ToolResults : End(c, x))
        /\ UNCHANGED <<worldVars, clientVars, tokenVars, clock>>
    BY <1>1 DEF StartTool, CheckScope, WrongRegion, BuildClient, ToolResults, Refusals
  <2>2. at' \in [ToolCalls -> Points] /\ result' \in [ToolCalls -> ToolResults]
    BY <2>1, MovesOn DEF Points
  <2>3. \A d \in ToolCalls : at'[d] \in {"token", "fetch", "send"} => at'[d] = at[d]
    BY <2>1 DEF GoOn, End
  <2> QED BY <2>1, <2>2, <2>3 DEF worldVars, clientVars, tokenVars
<1>2. ASSUME NEW c \in ToolCalls, CacheOrMiss(c) PROVE TypeInv'
  <2>1. at' \in [ToolCalls -> Points] /\ result' \in [ToolCalls -> ToolResults]
    BY <1>2, MovesOn DEF CacheOrMiss, Uses, Points, ToolResults
  <2>2. /\ client' \in [ToolCalls -> ToolCalls \cup {NoClient}]
        /\ \A d \in ToolCalls : at'[d] \in {"token", "fetch", "send"} => client'[d] \in ToolCalls
    BY <1>2 DEF CacheOrMiss, Uses, GoOn, End
  <2> QED BY <1>2, <2>1, <2>2 DEF CacheOrMiss, worldVars, tokenVars
<1>3. ASSUME NEW c \in ToolCalls, LookUpHome(c) PROVE TypeInv'
  <2>1. at' \in [ToolCalls -> Points] /\ result' \in [ToolCalls -> ToolResults]
    BY <1>3, MovesOn DEF LookUpHome, Points, ToolResults, Refusals
  <2>2. \A d \in ToolCalls : at'[d] \in {"token", "fetch", "send"} => at'[d] = at[d]
    BY <1>3 DEF LookUpHome, GoOn, End
  <2>3. accountOf' \in [ToolCalls -> Accounts \cup {"unknown"}]
    BY <1>3 DEF LookUpHome, Lookup
  <2> QED BY <1>3, <2>1, <2>2, <2>3 DEF LookUpHome, worldVars, tokenVars
<1>4. ASSUME NEW c \in ToolCalls, StoreClient(c) PROVE TypeInv'
  <2>1. Kept(c) \in ToolCalls
    BY DEF Kept
  <2>2. at' \in [ToolCalls -> Points] /\ result' \in [ToolCalls -> ToolResults]
    BY <1>4, MovesOn DEF StoreClient, Uses, Points
  <2>3. /\ client' \in [ToolCalls -> ToolCalls \cup {NoClient}]
        /\ \A d \in ToolCalls : at'[d] \in {"token", "fetch", "send"} => client'[d] \in ToolCalls
    BY <1>4, <2>1 DEF StoreClient, Uses, GoOn
  <2> QED BY <1>4, <2>1, <2>2, <2>3 DEF StoreClient, worldVars, tokenVars
<1>5. ASSUME NEW c \in ToolCalls, CurrentToken(c) \/ Fetched(c) \/ FetchFails(c) PROVE TypeInv'
  <2>1. at' \in [ToolCalls -> Points] /\ result' \in [ToolCalls -> ToolResults]
    BY <1>5, MovesOn DEF CurrentToken, Fetched, FetchFails, Carries, Points, ToolResults, Refusals
  <2>2. \A d \in ToolCalls : at'[d] \in {"token", "fetch", "send"}
                              => at[d] \in {"token", "fetch", "send"}
    BY <1>5 DEF CurrentToken, Fetched, FetchFails, Carries, GoOn, End
  <2>3. client[c] \in ToolCalls
    BY <1>5 DEF CurrentToken, Fetched, FetchFails
  <2>4. busy' \in [ToolCalls -> ToolCalls \cup {NoClient}]
    BY <1>5, <2>3 DEF CurrentToken, Fetched, FetchFails
  <2>5. clock \in Nat /\ clock + TokenLife \in Nat /\ expiry[client[c]] \in Nat
    BY <2>3, AccessAssumption, TokenAssumption
  <2>6. expiry' \in [ToolCalls -> Nat]
    BY <1>5, <2>5 DEF CurrentToken, Fetched, FetchFails
  <2>7. bearer' \in [ToolCalls -> Nat] /\ sentAt' \in [ToolCalls -> Nat]
    BY <1>5, <2>5 DEF CurrentToken, Fetched, FetchFails, Carries
  <2>8. UNCHANGED <<worldVars, clientVars, clock>>
    BY <1>5 DEF CurrentToken, Fetched, FetchFails
  <2>9. \A d \in ToolCalls : /\ expiry'[d] \in 0..(MaxTime + TokenLife)
                             /\ bearer'[d] \in 0..(MaxTime + TokenLife)
    <3>1. clock + TokenLife \in 0..(MaxTime + TokenLife)
      BY <2>5, AccessAssumption, TokenAssumption
    <3>2. expiry[client[c]] \in 0..(MaxTime + TokenLife)
      BY <2>3
    <3> QED BY <1>5, <3>1, <3>2 DEF CurrentToken, Fetched, FetchFails, Carries
  <2> QED BY <2>1, <2>2, <2>4, <2>6, <2>7, <2>8, <2>9 DEF worldVars, clientVars
<1>6. ASSUME NEW c \in ToolCalls, Arrive(c) PROVE TypeInv'
  <2>1. at' \in [ToolCalls -> Points] /\ result' \in [ToolCalls -> ToolResults]
    BY <1>6, MovesOn DEF Arrive, ToolResults
  <2>2. \A d \in ToolCalls : at'[d] \in {"token", "fetch", "send"} => at'[d] = at[d]
    BY <1>6 DEF Arrive, End
  <2> QED BY <1>6, <2>1, <2>2 DEF Arrive, worldVars, clientVars, tokenVars
<1>7. CASE Minute
  BY <1>7, AccessAssumption DEF Minute, worldVars, clientVars, tokenVars
<1>8. CASE Move
  BY <1>8, AccessAssumption DEF Move, clientVars, tokenVars
<1>9. CASE UNCHANGED accessVars
  BY <1>9 DEF accessVars, worldVars, clientVars, tokenVars
<1> QED BY <1>1, <1>2, <1>3, <1>4, <1>5, <1>6, <1>7, <1>8, <1>9 DEF AccessNext, ToolStep

LEMMA TypeInvAlways == AccessSpec => []TypeInv
  BY TypeInvInit, TypeInvStep, PTL DEF AccessSpec

\* Every variable holds a value of its kind, for any number of calls, and no
\* token lasts longer than one fetched at the very end.
THEOREM AccessTypeCorrect == AccessSpec => []AccessTypeOK
<1>1. TypeInv => AccessTypeOK
  BY DEF TypeInv, AccessTypeOK
<1> QED BY <1>1, TypeInvAlways, PTL

(***************************************************************************)
(* One client.                                                             *)
(***************************************************************************)

BeforeUse == {"start", "scope", "cache", "lookup", "build", "store"}

\* OneClient needs that only a call which has looked the cluster up stores a
\* client, that it looks it up no second time, and that nobody has a client
\* before the cache has one.
ClientInv ==
  /\ \A c \in ToolCalls :
       /\ client[c] # NoClient => client[c] = cached
       /\ at[c] \in BeforeUse => client[c] = NoClient
       /\ at[c] \in {"build", "store"} => accountOf[c] # "unknown"
  /\ cached # NoClient => accountOf[cached] # "unknown" /\ at[cached] \notin BeforeUse

LEMMA ClientInvInit == AccessInit => ClientInv
  BY DEF AccessInit, ClientInv

LEMMA ClientInvStep == TypeInv /\ ClientInv /\ [AccessNext]_accessVars => ClientInv'
<1> SUFFICES ASSUME TypeInv, ClientInv, [AccessNext]_accessVars PROVE ClientInv'
  OBVIOUS
<1>t. /\ cached \in ToolCalls \cup {NoClient} /\ at \in [ToolCalls -> Points]
      /\ client \in [ToolCalls -> ToolCalls \cup {NoClient}]
      /\ accountOf \in [ToolCalls -> Accounts \cup {"unknown"}]
      /\ NoClient \notin ToolCalls
  BY AccessAssumption DEF TypeInv
<1> USE <1>t DEF ClientInv, BeforeUse
<1>1. ASSUME NEW c \in ToolCalls,
             StartTool(c) \/ CheckScope(c) \/ WrongRegion(c) \/ BuildClient(c)
             \/ CurrentToken(c) \/ Fetched(c) \/ FetchFails(c) \/ Arrive(c)
      PROVE  ClientInv'
  <2>1. UNCHANGED <<cached, client, accountOf>>
    BY <1>1 DEF StartTool, CheckScope, WrongRegion, BuildClient, CurrentToken, Fetched,
                FetchFails, Arrive, clientVars
  <2>2. \A d \in ToolCalls : /\ at'[d] \in BeforeUse => at[d] \in BeforeUse
                             /\ at'[d] \in {"build", "store"} => at[d] \in {"build", "store"}
    BY <1>1 DEF StartTool, CheckScope, WrongRegion, BuildClient, CurrentToken, Fetched,
                FetchFails, Arrive, Carries, GoOn, End
  <2> QED BY <2>1, <2>2
<1>2. ASSUME NEW c \in ToolCalls, CacheOrMiss(c) PROVE ClientInv'
  BY <1>2 DEF CacheOrMiss, Uses, GoOn, End
<1>3. ASSUME NEW c \in ToolCalls, LookUpHome(c) PROVE ClientInv'
  <2>1. c # cached /\ UNCHANGED <<cached, client>>
    BY <1>3 DEF LookUpHome
  <2>2. /\ \A d \in ToolCalls \ {c} : at'[d] = at[d] /\ accountOf'[d] = accountOf[d]
        /\ at'[c] \in {"ended", "build"} /\ client[c] = NoClient
        /\ at'[c] = "build" => accountOf'[c] # "unknown"
    BY <1>3 DEF LookUpHome, GoOn, End
  <2> QED BY <2>1, <2>2
<1>4. ASSUME NEW c \in ToolCalls, StoreClient(c) PROVE ClientInv'
  <2>1. /\ at[c] = "store" /\ cached' = Kept(c) /\ UNCHANGED accountOf
        /\ client' = [client EXCEPT ![c] = Kept(c)]
        /\ at' = [at EXCEPT ![c] = "token"]
    BY <1>4 DEF StoreClient, Uses, GoOn
  <2>2. CASE cached = NoClient
    BY <2>1, <2>2 DEF Kept
  <2>3. CASE cached # NoClient
    BY <2>1, <2>3 DEF Kept
  <2> QED BY <2>2, <2>3
<1>5. CASE Minute \/ Move \/ UNCHANGED accessVars
  BY <1>5 DEF Minute, Move, accessVars, clientVars
<1> QED BY <1>1, <1>2, <1>3, <1>4, <1>5 DEF AccessNext, ToolStep

LEMMA ClientInvariant == AccessSpec => []ClientInv
<1> QED BY ClientInvInit, ClientInvStep, TypeInvAlways, PTL DEF AccessSpec

\* All calls that get a client get the same, and one built for an account the
\* inventory named, however many build at once (Handler).
THEOREM ClientIsShared == AccessSpec => []OneClient
<1>1. TypeInv /\ ClientInv => OneClient
  BY DEF ClientInv, OneClient, TypeInv
<1> QED BY <1>1, ClientInvariant, TypeInvAlways, PTL DEF AccessSpec

(***************************************************************************)
(* What is reached is in scope.                                            *)
(***************************************************************************)

AfterCheck == {"cache", "lookup", "build", "store", "token", "fetch", "send"}

\* While the inventory stands still, the account that was checked, the one
\* looked up for the client and the one the client was built for are all
\* `home'.
ScopeInv ==
  moves = 0 =>
    /\ \A c \in ToolCalls :
         /\ scopesOn /\ at[c] \in AfterCheck => home \in ScopeOf(c)
         /\ at[c] \in {"build", "store"} => accountOf[c] = home
    /\ cached # NoClient => accountOf[cached] = home

LEMMA ScopeInvInit == AccessInit => ScopeInv
  BY DEF AccessInit, ScopeInv, AfterCheck

LEMMA ScopeInvStep == TypeInv /\ ClientInv /\ ScopeInv /\ [AccessNext]_accessVars => ScopeInv'
<1> SUFFICES ASSUME TypeInv, ClientInv, ScopeInv, [AccessNext]_accessVars, moves' = 0
             PROVE  ScopeInv'
  BY DEF ScopeInv
<1>t. /\ cached \in ToolCalls \cup {NoClient} /\ at \in [ToolCalls -> Points]
      /\ accountOf \in [ToolCalls -> Accounts \cup {"unknown"}]
      /\ moves \in Nat /\ NoClient \notin ToolCalls
  BY AccessAssumption DEF TypeInv
<1>m. moves = 0 /\ UNCHANGED <<scopesOn, home>> /\ \A c \in ToolCalls : ScopeOf(c)' = ScopeOf(c)
  <2>1. ~Move
    BY <1>t DEF Move
  <2> QED BY <2>1 DEF AccessNext, ToolStep, Minute, accessVars, worldVars, StartTool, CheckScope,
             WrongRegion, CacheOrMiss, LookUpHome, BuildClient, StoreClient, CurrentToken,
             Fetched, FetchFails, Arrive
<1> USE <1>t, <1>m DEF ScopeInv, AfterCheck
<1>1. ASSUME NEW c \in ToolCalls, CheckScope(c) PROVE ScopeInv'
  <2>1. UNCHANGED clientVars
    BY <1>1 DEF CheckScope
  <2>2. /\ \A d \in ToolCalls \ {c} : at'[d] = at[d]
        /\ at'[c] \in {"cache", "ended"}
    BY <1>1 DEF CheckScope, GoOn, End
  <2>3. at'[c] = "cache" => \E h \in Lookup : h # "failure" /\ AllowsAccount(c, h)
    BY <1>1 DEF CheckScope, GoOn, End
  <2>4. at'[c] = "cache" /\ scopesOn => home \in ScopeOf(c)
    BY <2>3 DEF Lookup, AllowsAccount
  <2> QED BY <2>1, <2>2, <2>4 DEF clientVars
<1>2. ASSUME NEW c \in ToolCalls, LookUpHome(c) PROVE ScopeInv'
  <2>1. c # cached /\ UNCHANGED cached
    BY <1>2 DEF LookUpHome, ClientInv, BeforeUse
  <2>2. /\ \A d \in ToolCalls \ {c} : at'[d] = at[d] /\ accountOf'[d] = accountOf[d]
        /\ at[c] = "lookup" /\ at'[c] \in {"ended", "build"}
    BY <1>2 DEF LookUpHome, GoOn, End
  <2>3. at'[c] = "build" => accountOf'[c] = home
    BY <1>2 DEF LookUpHome, Lookup, GoOn, End
  <2> QED BY <2>1, <2>2, <2>3
<1>3. ASSUME NEW c \in ToolCalls, StoreClient(c) PROVE ScopeInv'
  BY <1>3 DEF StoreClient, Uses, Kept, GoOn
<1>4. ASSUME NEW c \in ToolCalls,
             StartTool(c) \/ WrongRegion(c) \/ CacheOrMiss(c) \/ BuildClient(c)
             \/ CurrentToken(c) \/ Fetched(c) \/ FetchFails(c) \/ Arrive(c)
      PROVE  ScopeInv'
  <2>1. UNCHANGED <<cached, accountOf>>
    BY <1>4 DEF StartTool, WrongRegion, CacheOrMiss, BuildClient, CurrentToken, Fetched,
                FetchFails, Arrive, clientVars
  <2>2. \A d \in ToolCalls : /\ at'[d] \in AfterCheck => at[d] \in AfterCheck
                             /\ at'[d] \in {"build", "store"} => at[d] \in {"build", "store"}
    BY <1>4 DEF StartTool, WrongRegion, CacheOrMiss, BuildClient, CurrentToken, Fetched,
                FetchFails, Arrive, Uses, Carries, GoOn, End
  <2> QED BY <2>1, <2>2
<1>5. CASE Minute \/ UNCHANGED accessVars
  BY <1>5 DEF Minute, accessVars, worldVars, clientVars
<1>6. ~Move
  BY DEF Move
<1> QED BY <1>1, <1>2, <1>3, <1>4, <1>5, <1>6 DEF AccessNext, ToolStep

\* As long as clusters stay in their accounts no request reaches an account
\* outside its session's scope, although another session's call may have
\* built the client it uses (checkClusterScope, Handler).
THEOREM ScopeIsKept == AccessSpec => []ReachIsInScope
<1>1. TypeInv /\ ClientInv /\ ScopeInv => ReachIsInScope
  BY AccessAssumption DEF TypeInv, ClientInv, ScopeInv, ReachIsInScope, AfterCheck
<1> QED BY <1>1, ScopeInvInit, ScopeInvStep, ClientInvariant, TypeInvAlways, PTL DEF AccessSpec

(***************************************************************************)
(* The token outlives its request.                                         *)
(***************************************************************************)

\* A request on its way was given its token no more than the margin ago, and
\* the token was good for longer than that then.
TokenInv ==
  \A c \in ToolCalls :
    /\ result[c] # "rejected"
    /\ at[c] = "send" => /\ sentAt[c] <= clock /\ clock <= sentAt[c] + earlyRefresh
                         /\ bearer[c] > sentAt[c] + earlyRefresh

LEMMA TokenInvInit == AccessInit => TokenInv
  BY DEF AccessInit, TokenInv

LEMMA TokenInvStep == TypeInv /\ TokenInv /\ [AccessNext]_accessVars => TokenInv'
<1> SUFFICES ASSUME TypeInv, TokenInv, [AccessNext]_accessVars PROVE TokenInv'
  OBVIOUS
<1>t. /\ at \in [ToolCalls -> Points] /\ result \in [ToolCalls -> ToolResults]
      /\ client \in [ToolCalls -> ToolCalls \cup {NoClient}]
      /\ expiry \in [ToolCalls -> Nat] /\ bearer \in [ToolCalls -> Nat]
      /\ sentAt \in [ToolCalls -> Nat] /\ clock \in Nat
      /\ TokenLife \in Nat /\ TokenLife > 1
      /\ \A c \in ToolCalls : at[c] = "token" => client[c] \in ToolCalls
  BY AccessAssumption, TokenAssumption DEF TypeInv, earlyRefresh
<1> USE <1>t DEF TokenInv, earlyRefresh
<1>1. ASSUME NEW c \in ToolCalls, NEW e \in Nat, Carries(c, e), e > clock + 1, UNCHANGED clock
      PROVE  TokenInv'
  BY <1>1 DEF Carries, GoOn
<1>2. ASSUME NEW c \in ToolCalls, CurrentToken(c) \/ Fetched(c) PROVE TokenInv'
  <2>1. CASE CurrentToken(c) /\ StillGood(client[c])
    <3>1. expiry[client[c]] \in Nat /\ expiry[client[c]] > clock + 1
      BY <2>1 DEF CurrentToken, StillGood
    <3> QED BY <1>1, <2>1, <3>1 DEF CurrentToken
  <2>2. CASE CurrentToken(c) /\ ~StillGood(client[c])
    BY <2>2 DEF CurrentToken, GoOn
  <2>3. CASE Fetched(c)
    <3>1. clock + TokenLife \in Nat /\ clock + TokenLife > clock + 1
      OBVIOUS
    <3> QED BY <1>1, <2>3, <3>1 DEF Fetched
  <2> QED BY <1>2, <2>1, <2>2, <2>3
<1>3. ASSUME NEW c \in ToolCalls, Arrive(c) PROVE TokenInv'
  <2>1. clock < bearer[c]
    BY <1>3 DEF Arrive
  <2>2. End(c, "served") /\ UNCHANGED <<tokenVars, clock>>
    BY <1>3, <2>1 DEF Arrive
  <2> QED BY <2>2 DEF End, tokenVars
<1>4. ASSUME NEW c \in ToolCalls,
             StartTool(c) \/ CheckScope(c) \/ WrongRegion(c) \/ CacheOrMiss(c) \/ LookUpHome(c)
             \/ BuildClient(c) \/ StoreClient(c) \/ FetchFails(c)
      PROVE  TokenInv'
  <2>1. UNCHANGED <<bearer, sentAt, clock>>
    BY <1>4 DEF StartTool, CheckScope, WrongRegion, CacheOrMiss, LookUpHome, BuildClient,
                StoreClient, FetchFails, tokenVars
  <2>2. \A d \in ToolCalls : /\ at'[d] = "send" => at[d] = "send"
                             /\ result'[d] = "rejected" => result[d] = "rejected"
    BY <1>4 DEF StartTool, CheckScope, WrongRegion, CacheOrMiss, LookUpHome, BuildClient,
                StoreClient, FetchFails, Uses, GoOn, End
  <2> QED BY <2>1, <2>2
<1>5. CASE Minute
  BY <1>5 DEF Minute, tokenVars
<1>6. CASE Move \/ UNCHANGED accessVars
  BY <1>6 DEF Move, accessVars, tokenVars
<1> QED BY <1>2, <1>3, <1>4, <1>5, <1>6 DEF AccessNext, ToolStep

\* The API server never gets a token that has run out on the way, whichever
\* request refreshed it and whenever (current).
THEOREM TokenIsGood == AccessSpec => []TokenOutlivesRequest
<1>1. TokenInv => TokenOutlivesRequest
  BY DEF TokenInv, TokenOutlivesRequest
<1> QED BY <1>1, TokenInvInit, TokenInvStep, TypeInvAlways, PTL DEF AccessSpec
=============================================================================
