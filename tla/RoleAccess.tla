----------------------------- MODULE RoleAccess -----------------------------
(***************************************************************************)
(* A tool call on a cluster that the hub reaches with an IAM role instead  *)
(* of an agent: the session's scope and tools (cmd/hub-server, agentauth,  *)
(* mcptools.ToolAccess), the scope check (checkClusterScope), the shared   *)
(* client, built on first use and kept for good (rolecluster.Manager), and *)
(* the bearer token every Kubernetes request of that client carries        *)
(* (k8sclient's roleTokenSource).  One cluster; time in minutes.           *)
(***************************************************************************)
EXTENDS Integers, FiniteSets

CONSTANTS
  ToolCalls,   \* one call each of a session of its own (a bound)
  BearerOf,    \* the token each session presents
  AccountsOf,  \* the accounts of each configured token (agent-scopes-config)
  GroupsIn,    \* the groups of each
  DefaultGroups, \* --test-caller-groups, where there are no configured tokens
  Required,    \* ToolAccess: the group a tool asks for, "" for none; a group
               \* stands for those whose names contain what is asked for
  Accounts,    \* AWS accounts
  NoClient,    \* a value that is not a call
  TokenLife,   \* minutes a bearer token is good for
  MaxTime, MaxMoves \* bounds

Tools == DOMAIN Required
Configured == DOMAIN AccountsOf

ASSUME AccessAssumption ==
  /\ DOMAIN BearerOf = ToolCalls /\ DOMAIN GroupsIn = Configured
  /\ NoClient \notin ToolCalls
  /\ MaxTime \in Nat /\ MaxMoves \in Nat

earlyRefresh == 1

\* A token lives a quarter of an hour, longer than the margin.
ASSUME TokenAssumption == TokenLife \in Nat /\ TokenLife > earlyRefresh

VARIABLES
  scopesOn,   \* an agent-scopes-config was given
  inventoryOn,\* there is an inventory, and with it a role resolver
  home,       \* the account the inventory has for the cluster, or "unknown"
  moves,
  cached,     \* Manager.handlers: the call that built the client
  at,         \* where each call is
  client,     \* the client it uses
  accountOf,  \* the account whose role the client it built assumes
  expiry,     \* when that client's current token ends (0: it has none)
  busy,       \* who holds that client's token mutex
  bearer,     \* the expiry of the token the call's request carries
  sentAt,     \* when the call was given it
  clock,
  result      \* what the call came to

worldVars  == <<scopesOn, inventoryOn, home, moves>>
clientVars == <<cached, client, accountOf>>
tokenVars  == <<expiry, busy, bearer, sentAt>>
accessVars == <<worldVars, clientVars, tokenVars, at, clock, result>>

Points == {"start", "scope", "cache", "lookup", "build", "store", "token",
           "fetch", "send", "ended"}
Refusals == {"noSuchTool", "outOfScope", "wrongRegion", "inventoryError",
             "buildError", "tokenError"}
ToolResults == {"none", "served", "rejected", "auditOnly", "viaAgent"} \cup Refusals

AccessInit ==
  /\ scopesOn \in BOOLEAN /\ inventoryOn \in BOOLEAN
  /\ home \in Accounts \cup {"unknown"} /\ moves = 0
  /\ cached = NoClient
  /\ at = [c \in ToolCalls |-> "start"]
  /\ client = [c \in ToolCalls |-> NoClient]
  /\ accountOf = [c \in ToolCalls |-> "unknown"]
  /\ expiry = [c \in ToolCalls |-> 0]
  /\ busy = [c \in ToolCalls |-> NoClient]
  /\ bearer = [c \in ToolCalls |-> 0]
  /\ sentAt = [c \in ToolCalls |-> 0]
  /\ clock = 0
  /\ result = [c \in ToolCalls |-> "none"]

GoOn(c, p) == at' = [at EXCEPT ![c] = p] /\ UNCHANGED result
End(c, r)  == at' = [at EXCEPT ![c] = "ended"] /\ result' = [result EXCEPT ![c] = r]

-----------------------------------------------------------------------------
(* The session.                                                            *)

\* Resolve, and newSessionServer's choice for a token nobody configured.
Resolves(c) == BearerOf[c] \in Configured

DenyAllScope == {}
ScopeOf(c) == IF Resolves(c) THEN AccountsOf[BearerOf[c]] ELSE DenyAllScope

\* What the inventory may say of the cluster.
Lookup == IF inventoryOn THEN {home, "failure"} ELSE {"unknown"}

NilIfUnresolved(c, h) ==                         \* mutant of AllowsAccount
  ~scopesOn \/ ~Resolves(c) \/ (h # "unknown" /\ h \in ScopeOf(c))
\* A nil scope allows everything; otherwise the cluster must be known, and
\* its account in the caller's scope.
AllowsAccount(c, h) == ~scopesOn \/ (h # "unknown" /\ h \in ScopeOf(c))

CallerGroups(c) == IF ~scopesOn THEN DefaultGroups
                   ELSE IF Resolves(c) THEN GroupsIn[BearerOf[c]] ELSE {}
Registered(c) == {t \in Tools : Required[t] = "" \/ Required[t] \in CallerGroups(c)}

\* A tool that was not registered in the session cannot be called.
\* get_postmortem reads the audit trail and no cluster.
StartTool(c) ==
  /\ at[c] = "start"
  /\ \E t \in Tools :
       \/ t \notin Registered(c) /\ End(c, "noSuchTool")
       \/ t \in Registered(c) /\ t = "get_postmortem" /\ End(c, "auditOnly")
       \/ t \in Registered(c) /\ t # "get_postmortem" /\ GoOn(c, "scope")
  /\ UNCHANGED <<worldVars, clientVars, tokenVars, clock>>

CheckScope(c) ==
  /\ at[c] = "scope"
  /\ \E h \in Lookup :
       IF h = "failure" THEN End(c, "inventoryError")
       ELSE IF AllowsAccount(c, h) THEN GoOn(c, "cache") ELSE End(c, "outOfScope")
  /\ UNCHANGED <<worldVars, clientVars, tokenVars, clock>>

\* list_nodes refuses a region that is not the inventory's.
WrongRegion(c) ==
  /\ at[c] = "scope"
  /\ \E h \in Lookup \cap Accounts : AllowsAccount(c, h)
  /\ End(c, "wrongRegion")
  /\ UNCHANGED <<worldVars, clientVars, tokenVars, clock>>

-----------------------------------------------------------------------------
(* Server.tryRole and Manager.Handler.                                     *)

Uses(c, k) == client' = [client EXCEPT ![c] = k] /\ GoOn(c, "token")

\* With no resolver, and for a cluster the inventory does not know, the call
\* goes on to the agents' sessions.
CacheOrMiss(c) ==
  /\ at[c] = "cache"
  /\ \/ ~inventoryOn /\ End(c, "viaAgent") /\ UNCHANGED client
     \/ inventoryOn /\ cached # NoClient /\ Uses(c, cached)
     \/ inventoryOn /\ cached = NoClient /\ GoOn(c, "lookup") /\ UNCHANGED client
  /\ UNCHANGED <<worldVars, cached, accountOf, tokenVars, clock>>

LookUpHome(c) ==
  /\ at[c] = "lookup"
  /\ \E h \in Lookup :
       /\ accountOf' = [accountOf EXCEPT ![c] = IF h = "failure" THEN @ ELSE h]
       /\ IF h = "failure" THEN End(c, "inventoryError")
          ELSE IF h = "unknown" THEN End(c, "viaAgent") ELSE GoOn(c, "build")
  /\ UNCHANGED <<worldVars, cached, client, tokenVars, clock>>

\* NewFromAWSRole: any of its AWS calls may fail.
BuildClient(c) ==
  /\ at[c] = "build"
  /\ GoOn(c, "store") \/ End(c, "buildError")
  /\ UNCHANGED <<worldVars, clientVars, tokenVars, clock>>

LastLanded(c) == c                                         \* mutant of Kept
\* The first client stored is kept, whoever built it.
Kept(c) == IF cached = NoClient THEN c ELSE cached

StoreClient(c) ==
  /\ at[c] = "store"
  /\ cached' = Kept(c)
  /\ Uses(c, Kept(c))
  /\ UNCHANGED <<worldVars, accountOf, tokenVars, clock>>

-----------------------------------------------------------------------------
(* bearerRoundTripper and roleTokenSource.current.                         *)

UntilExpiry(k) == clock < expiry[k]                      \* mutant of StillGood
StillGood(k) == clock < expiry[k] - earlyRefresh

Carries(c, e) ==
  /\ bearer' = [bearer EXCEPT ![c] = e]
  /\ sentAt' = [sentAt EXCEPT ![c] = clock]
  /\ GoOn(c, "send")

CurrentToken(c) ==
  /\ at[c] = "token" /\ busy[client[c]] = NoClient
  /\ \/ StillGood(client[c]) /\ Carries(c, expiry[client[c]]) /\ UNCHANGED busy
     \/ /\ ~StillGood(client[c])
        /\ busy' = [busy EXCEPT ![client[c]] = c]
        /\ GoOn(c, "fetch") /\ UNCHANGED <<bearer, sentAt>>
  /\ UNCHANGED <<worldVars, clientVars, expiry, clock>>

Fetched(c) ==
  /\ at[c] = "fetch"
  /\ expiry' = [expiry EXCEPT ![client[c]] = clock + TokenLife]
  /\ Carries(c, clock + TokenLife)
  /\ busy' = [busy EXCEPT ![client[c]] = NoClient]
  /\ UNCHANGED <<worldVars, clientVars, clock>>

\* The token that is there is kept, but not used.
FetchFails(c) ==
  /\ at[c] = "fetch"
  /\ End(c, "tokenError")
  /\ busy' = [busy EXCEPT ![client[c]] = NoClient]
  /\ UNCHANGED <<worldVars, clientVars, expiry, bearer, sentAt, clock>>

\* The API server looks at the token when the request gets there.
Arrive(c) ==
  /\ at[c] = "send"
  /\ End(c, IF clock < bearer[c] THEN "served" ELSE "rejected")
  /\ UNCHANGED <<worldVars, clientVars, tokenVars, clock>>

-----------------------------------------------------------------------------

\* A minute passes; a request takes no longer than that to arrive.
Minute ==
  /\ clock < MaxTime
  /\ \A c \in ToolCalls : at[c] = "send" => clock < sentAt[c] + earlyRefresh
  /\ clock' = clock + 1
  /\ UNCHANGED <<worldVars, clientVars, tokenVars, at, result>>

\* The company's inventory changes.
Move ==
  /\ moves < MaxMoves
  /\ moves' = moves + 1
  /\ home' \in Accounts \cup {"unknown"} /\ home' # home
  /\ UNCHANGED <<scopesOn, inventoryOn, clientVars, tokenVars, at, clock, result>>

ToolStep(c) ==
  StartTool(c) \/ CheckScope(c) \/ WrongRegion(c) \/ CacheOrMiss(c) \/ LookUpHome(c) \/ BuildClient(c)
  \/ StoreClient(c) \/ CurrentToken(c) \/ Fetched(c) \/ FetchFails(c) \/ Arrive(c)

AccessNext == Minute \/ Move \/ \E c \in ToolCalls : ToolStep(c)

AccessSpec == AccessInit /\ [][AccessNext]_accessVars

-----------------------------------------------------------------------------
(* Properties.                                                             *)

AccessTypeOK ==
  /\ home \in Accounts \cup {"unknown"} /\ moves \in 0..MaxMoves
  /\ cached \in ToolCalls \cup {NoClient}
  /\ at \in [ToolCalls -> Points] /\ result \in [ToolCalls -> ToolResults]
  /\ client \in [ToolCalls -> ToolCalls \cup {NoClient}]
  /\ accountOf \in [ToolCalls -> Accounts \cup {"unknown"}]
  /\ busy \in [ToolCalls -> ToolCalls \cup {NoClient}]
  /\ clock \in 0..MaxTime
  /\ \A c \in ToolCalls : {expiry[c], bearer[c]} \subseteq 0..(MaxTime + TokenLife)

\* However many first calls build a client at once, and whichever of them
\* fail, all that get one use the client that stays (Handler's second look
\* under the lock), so that they share its token.
OneClient ==
  \A c \in ToolCalls :
    client[c] # NoClient => client[c] = cached /\ accountOf[cached] # "unknown"

\* A request reaches no account outside the scope of the token its session
\* presented, none at all without a configured token, as long as the
\* inventory does not change under the hub: the checked account and the one
\* of the shared client, looked up by different calls, are the same
\* (checkClusterScope, Handler).
ReachIsInScope ==
  \A c \in ToolCalls :
    at[c] \in {"token", "fetch", "send"} /\ scopesOn /\ moves = 0 =>
      accountOf[client[c]] \in ScopeOf(c)

\* A token is never handed out so late that it ends before the request it
\* goes with has arrived (earlyRefresh).
TokenOutlivesRequest == \A c \in ToolCalls : result[c] # "rejected"
=============================================================================
