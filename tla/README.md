# Verification of k8s-ts-mcp

TLA+ models of the hub, the cluster agent and the execution engine of
k8s-ts-mcp, checked with TLC. Every safety property that a passing run checks
is also proved with TLAPS, for any number of sessions, calls, requests, ladders,
writers and so on. `PROJECT.json` ties every definition to the lines it models
and lists the runs, the hazards, the findings and the theorems.

## The system

An MCP client asks the **hub** about an incident on a Kubernetes cluster. The
hub forwards the question to the cluster's **agent**, which dialled in over a
long-lived gRPC stream, judges the proposed remedy with a policy, and may have
the agent carry it out. Several hub replicas may share a Redis directory that
says which replica holds which cluster.

| component | state it keeps | operations | talks to |
|---|---|---|---|
| hub sessions (`transport/server.go`) | `agents`: cluster id → connection; `stopHeartbeat` per connection | `Session`, `register`, `heartbeatLoop`, `unregister`, `get`, `ConnectedClusters` | directory, agents |
| fleet directory (`registry`) | cluster id → replica, with a TTL | `Announce`, `Heartbeat`, `Lookup`, `Forget`, `List` | every replica |
| calls (`transport/server.go`, `client.go`) | `pending`: request id → channel, per connection | `diagnoseLocal`, `executeLocal`, …, `dispatch`; the agent's receive loop and one goroutine per request | tools on one side, agent core on the other |
| agent core (`agentcore`) | none: a ladder is derived anew for each request | `Diagnose`, `Execute`, `ApproveAction`, `Scan`, `GetLogs`, `ListNodes` | playbooks, engine |
| playbooks (`playbooks`) | none | `Detect`, `Diagnose`, `Ladder`, `Recheck` | Kubernetes API |
| Deployments (`k8sclient`) | the API server's object | `ScaleDeployment`, `IncreaseContainerMemoryLimit`, `RolloutRestartDeployment` | rungs of several ladders |
| execution engine (`execengine`) | the record of one request | `Run`, `RunApproved` | a rung's closures |
| policy (`policy`) | group mapping, compiled rules | `HighestTier`, `Decide` | tools |
| tools (`mcptools`) | none of their own | `troubleshoot`, `approve_action`, and read-only tools | all of the above |
| audit trail (`audit`) | a file of JSON lines, shared by the replicas | `Append`, `Get`, `ListByCluster` | tools |
| runbooks (`runbooks`) | parsed catalogue, reloaded on a timer | `Find`, `Reload` | `troubleshoot` |
| role clusters (`rolecluster`, `k8sclient/awsrole.go`) | client cache, a token per client | `Handler`, `current` | hub, AWS |
| access (`agentauth`, `toolaccess`, `inventory`) | configuration read once; the company's inventory | `Resolve`, `AllowsAccount`, `Register`, `Lookup` | every session and tool call |
| scan (`agentcore/scan.go`, `playbooks`' reads) | none | `Scan`, `classifyPod`, `refineExecFormatError` | Kubernetes API |
| post-mortem, redaction, TLS | none | rendering, loading | tools, processes |

Where it is hard, and what has to be right there:

- *Sessions.* Handler and heartbeat goroutines of several streams of one
  cluster, on one replica or several, interleave at each lock and each
  directory call; the directory's calls fail, its records expire, replicas die
  without `Forget`. A live cluster must be reachable, a gone one delisted, no
  map entry or heartbeat may outlive its session.
- *Calls.* Replies, timeouts and broken streams race. A reply must reach its
  own call, nothing may leak or block the receive loop, an action must be done
  at most once.
- *The engine.* Each call of a rung may fail, half done, and the request's
  context may end between any two, which makes the rollback fail as well. What
  does not help must be undone before the next rung, high risk must not run by
  itself, the record must be true.
- *The tools.* The policy judges one ladder and another is executed; the agent
  may act after its caller was told of an error; approvals come late.
- *Several ladders on one object.* Read-modify-write against the API server:
  nobody's write may be lost, and none may be done twice.
- *Files under the running hub.* Replicas append to and read one audit file
  with a mutex each and no locks between them; writes are cut short. The
  runbook file is edited while it is read and while its answers are used.
- *Caches.* A client per cluster built by whichever call comes first, a token
  per client refreshed by whichever request finds it old, and a scope checked
  with one look at the inventory and used after another.
- *A cluster that moves on.* The scan, its log reads and the diagnosis that
  follows each see the pod at a moment of their own.

## Modules

| module | models |
|---|---|
| `HubSessions` | sessions of several agents over several replicas, and the directory |
| `AgentCalls` | the steps of calls over one cluster's successive sessions |
| `ForwardedCalls` | the same with calls forwarded by another replica, and the specification of both |
| `RemoteCall` | what the tools may assume of such a call (abstract) |
| `EscalationLadder` | `execengine.Run` and `RunApproved` |
| `LadderContract` | what a caller of the engine is promised (abstract) |
| `Policy` | tiers, the rules of `policy.rego`, `Decide`, `maxRisk` as operators |
| `PolicyRequests` | one question put to the policy, and its properties |
| `Troubleshoot` | the two tools with the agent's side, on top of `Policy` |
| `ScaleRemediation` | the rung that writes a Deployment twice and rolls back, API call by API call |
| `MemoryRaise` | approvals that raise the memory limit of the same Deployment |
| `AuditTrail` | the audit file, its writers and readers in several processes |
| `AuditStore` | what the interface `audit.Store` promises its callers (abstract) |
| `Runbooks` | the runbook file, its reloads, and the answers taken from it |
| `RoleAccess` | what a session may call and reach, the client cache and the token cache |
| `PodScan` | one pod under the kubelet, its scan and its diagnosis |
| `HubSessions_proofs`, `ForwardedCalls_proofs`, `EscalationLadder_proofs`, `Troubleshoot_proofs`, `AuditTrail_proofs` | theorems about the module of that name |
| `Callers_proofs` | theorems about `PolicyRequests` and `RoleAccess` |
| `Playbooks_proofs` | theorems about `PodScan`, `MemoryRaise` with `ScaleRemediation`, and `Runbooks` |
| `Parts_proofs` | the theorems of the five parts, carried to `MCParts` |
| `MCParts` | five parts that share no state, for one run |
| `MCTickers` | `HubSessions` and `Runbooks`, likewise, with the fairness of both |
| other `MC...` | constants of the runs |

How they fit: `ForwardedCalls` extends `AgentCalls` and implements
`RemoteCall`, whose promise (at most one execution, an error says nothing about
it) is the behaviour `Troubleshoot` gives its calls. `Troubleshoot` uses the
rungs' risks and `Policy`, and treats one rung as one step, which
`EscalationLadder` opens up; `ScaleRemediation` opens up one rung further, and
`MemoryRaise` adds another that writes the same object. `AuditTrail` is what
`Troubleshoot` writes its records to and `Runbooks` what it falls back on.
`RoleAccess` decides which calls come that far.

### HubSessions

A variable per field of `Server` and `agentConn` that matters: `agents`,
`hasStop`/`cancelled` for `stopHeartbeat`, `phase` for where the handler is,
`beat` for the heartbeat goroutine, `record`/`left` for the directory.
`register` is three actions (`RegisterLocal`, `SetStop`, `Announced`) because
it releases the lock before it writes `stopHeartbeat` and calls the directory;
`unregister` is three (`UnregisterLocal`, `StopHeartbeat`, `Forgotten`) for the
same reason. `found` is the connection `unregister` took from the map, which
need not be the handler's own. A directory call takes effect or fails; one made
with a cancelled context may do either. `Tick` is one heartbeat interval.
`fleet` is the deployment, chosen at the start: replicas that share a
directory, or one alone; and whether an agent may come back to a replica that
has not yet seen the end of its earlier stream. The latter is routine: neither
server nor client configures keepalive, so a connection lost without a FIN is
noticed late, and an agent that is rolled out is briefly there twice.

### AgentCalls, ForwardedCalls

`call` follows the goroutine of a call through `await`, `send`, the `select`
and the deferred `forget`; `pending` is the table; `chan` the buffered channel;
`Dispatch` is `dispatch` under its lock, `Deliver` the send after it. A request
id is the call itself (64 random bits). Sessions follow one another; sessions
that overlap are the subject of `HubSessions`. `Break` leaves the stream
`broken` until the hub's `Recv` fails. The agent's `Work` uses the client's
context, so a session's end does not stop it; its reply goes to the stream the
request came from and is lost with it.

`ForwardedCalls` adds, for the calls in `Forwarded`, the replica they are made
on: `Forward` is `peerFor` and the call of the peer's client, with a directory
that fails or names any replica; `Misdirected` is the peer's own
`ErrClusterNotConnected`; `Served` lets the call of `AgentCalls` begin.
`HopLost` and `LeftBehind` end the call where it was made and cancel the
context where it is served, which may be before that call has begun.

### EscalationLadder

`runOne`'s calls are actions: `TakeSnapshot`, `RunAction`, `Validate`,
`Rollback`. Each may fail, and after `Cancel` each does. `inForce` is not in
the code: it holds the rungs whose effect is on the cluster, a failed `Run`
may or may not have left one, and a rollback that succeeded takes it away.
A nil `Run` is the step `panic`. A `Validate` that returns an error counts as
unhealthy, as every playbook's does.

### Policy, PolicyRequests

Each rule of `policy.rego` is a condition, `Applicable` the set that holds for
an input; the rules come in pairs for the two values of the flag, which
`Result` joins. Two rules that give different results are an evaluation error.
`TierNames` holds one misspelt name, which the mapping file may well contain:
nothing checks it at load. `tierRank` gives it the 0 that a Go map gives a missing
key, which is also the rank of `readonly`.

### Troubleshoot

A request is a record of its arguments, the hub's goroutine `pc`, and the
agent's goroutine `job`. `Diagnosed` is the handler from the return of
`Diagnose` to the call of `Execute`; `CallReturns` is an answer or an error at
any time; `Record` is `Audit.Append` and the answer. On the agent a ladder is
derived again, with an owning Deployment that may be found on one call and not
on another (`OwnerFound`: the lookup is best effort and the pod moves on).
`AgentRechecks` is `ApproveAction` with `Recheck` for `core/oomkilled`. A
rung may change the pod or the Deployment's readiness, and so may the cluster
by itself (`Drift`). Playbooks read the API in one step. A role cluster runs
the same agent code in the hub's process. `core/imagepullbackoff` and
`keda/scaledobject_stuck` have ladders of the shapes of `core/crashloopbackoff`
without an owner and of `calico/node_degraded`, so the run leaves them out.

### ScaleRemediation, MemoryRaise

`ScaleDeployment` is a `Get` and an `Update` that the API server refuses when
the object was written in between (by the controller, `Touch`, or by another
ladder). An update whose answer is lost may have been applied.

An approval of `MemoryRaise` is `Recheck` in its two reads (`RecheckWant`,
`RecheckReady`), `IncreaseContainerMemoryLimit` and
`RolloutRestartDeployment`, each again a `Get` and an `Update` of the whole
object as it was read; `copy` is that object. `Increased` is the limit times
1.5, rounded down; `raisedBy` is not in the code and counts what was applied.

### AuditTrail

`holder` is each store's mutex, one per process, as `FileStore.mu`; nothing
orders the processes but the file system, which keeps two `O_APPEND` writes
apart and lets a reader see a write under way. A line is in the `file` whole,
without its newline, or torn. `Append` is `StartWrite` and `EndWrite` or
`ShortWrite`; `all` is `ReadAll`, which fails if any line does not decode, the
one that another process is writing included, if any does not fit the
scanner's buffer of 8 MiB, and whenever the read itself fails. `Append` has no
such limit: the `Oversized` writers' entries go in without an error, and from
then on every read fails, on every replica. `StoreDies` is a crash at any
point with the lock held; `NewFileStore` does not look at what is in the file,
so a cut line stays, and what is appended behind a bare or torn line is
unreadable with it, with the same consequence.

`AuditStore` is the interface without the file: a log to which each call that
succeeds does one thing at one moment while it is under way. `FileLog` and
`FileCall` map the file to it: the log is the file without the write under way,
lines that were cut included, which a read that succeeds has never met.

### Runbooks

A document is a sequence of sections (`Section`): kind, keywords, signatures,
log source, and whether its text is there to the end.
The file is replaced as a whole (`Replace`, as a mounted ConfigMap is),
removed, or edited in place (`Rewrite`, then `WriteOn` section by section).
`ReloadReads` is `os.ReadFile` outside the lock, `ReloadSwaps` the parse and
the swap; `Parse`, a recursive function over the sections, drops what cannot
be looked up. `Find` takes the first
section of exactly the kind, or any that shares a word, or none: the TF-IDF
scores depend on every text and are left open. `Confirm` is `confirmViaLogs`
with the log it fetched, after any number of reloads.

### RoleAccess

A behaviour is a few tool calls, each in an MCP session of its own with the
bearer token `BearerOf`. `StartTool` is what `Register` put into the session,
`CheckScope` `checkClusterScope`, `WrongRegion` `list_nodes`' own check.
`CacheOrMiss`, `LookUpHome`, `BuildClient` and `StoreClient` are
`Manager.Handler` and `tryRole`: the cache is looked at under the lock, the
client is built outside it, and the cache is looked at again. A client is
named by the call that built it. `CurrentToken`, `Fetched` and `FetchFails`
are `roleTokenSource.current`; `busy` is its mutex, which the code holds over
the call to AWS (`awsrole.go:129`), so that a slow answer holds up every
request of that cluster. `Arrive` is the API server looking at the token.
`Minute` is the time unit of `earlyRefresh`, and a request takes no more than
that to arrive. `Move` changes the inventory.

### PodScan

The kubelet's steps (`Schedule`, `Wait`, `Start`, `Stop`) change the pod's
container statuses as Kubernetes does; they are external. `ListPods` is the
read of `Scan` and `classifyPod` on it: `Verdict` gives the rules in the code's
order. `RefineByCurrent` and `RefineByPrevious` are the log reads, which name
no container and are refused by the API server for a pod with several.
`Diagnose` is `ContainerTermination` on the first container.

## Runs

| run | question | bounds |
|---|---|---|
| `hub_safety` | stale entries, orphan heartbeats, leases | 3 sessions, 2 replicas, 1 cluster, TTL 3, 1 failed call, 1 crash; every fleet |
| `hub_overlap` | the same with overlap: **violated** | 2 sessions, no failure |
| `ladder` | the engine's safety and its contract | every ladder of at most 4 of the 5 kinds of rung, cap 3 |
| `ladder_panic` | an approved action runs: **violated** | the playbooks' own ladders |
| `calls` | correlation, leaks, blocking, termination, the contract | 2 calls, one of them forwarded, 2 sessions, 1 agent crash |
| `tools` | what runs was permitted, what was answered is on record | 2 requests, 3 callers, 2 clusters, 5 kinds of signal |
| `tools_late` | medium risk in prod only for prod-admin: **violated** | 1 request |
| `tools_unrecorded` | every execution is on record: **violated** | 1 request |
| `parts`, policy | consistency and monotonicity | 5 groups, lists of at most 3 |
| `parts`, audit | the file implements `audit.Store`; reads miss nothing, fail only for a cause | 2 replicas with a writer and a reader each, a third writer with an over-long entry, 1 crash |
| `parts`, access | one client, scopes, token lifetime | 3 calls, 2 accounts, 2 configured tokens, token life 2, time 4, 1 move |
| `parts`, scan | who is reported, what the diagnosis finds | pods of 1 and 2 containers, 2 endings |
| `parts`, deployment | raises kept, scale-down accounted for | 1 scaling ladder, 2 approvals, limit 4, 1 controller write |
| `policy_misspelt` | nothing runs without a tier above readonly: **violated** | as `parts`, policy |
| `tickers`, sessions | reachable when live, delisted when gone | 2 sessions, 2 replicas, TTL 3, 1 failed call, 1 crash; fleets without overlap |
| `tickers`, runbooks | whole catalogues, own confirmation, edits arrive | 2 documents, 2 lookups, 3 edits |
| `scale_two` | the size is kept: **violated** | 2 scaling ladders |

`parts` is one model of five parts: in a behaviour one of them moves and the
others stay at their start, so that its states are the sum of theirs and not
the product. Its type invariant joins theirs.

`tickers` joins two modules in the same way and keeps the fairness of each.
`busy` says which of them has work in a behaviour: no session opens, or nobody
edits and looks up runbooks. The fairness of the idle one still holds, so a
runbook reload goes on with nothing to find while sessions come and go.

Why the bounds are enough. Clusters never share a map entry, a record or a
stream, so one cluster shows what happens to each. Two sessions are what the
races in `register` and `unregister` need; the third in `hub_safety` lets one
run after both. TTL 3 is the ratio of the defaults (30s and 10s). Two calls
are what a reply needs to go astray; one forwarded and one not share the
session's table and loop. A ladder of four rungs is one more than
`MaxActions`. Two requests in `tools` are an incident and its approval, or two
that race. One crash and one failed call per run keep the state spaces
small; `errors` and `crashes` count them in the guards.

A writer and a reader on each of two replicas give every pair that shares a
mutex and every pair that does not; two writes are what one cut line and a
line behind it need, and one over-long entry is as bad as several. Three calls let two build a client while a third finds
it, with tokens of one account, of both, and of nobody; time 4 is two lives of
a token. Two containers are what hides one behind the other, two endings a
crash and its repetition. Three approvals and ladders are each interrupted by
any other; limit 4 stays a whole number for two raises. Three edits are one
replacement during another's reload and one more.

`HeartbeatOwned` is stated for fleets without overlap, where it is true;
`MoreGroupsRunMore` for groups whose tiers are spelt right. With a misspelt
tier it is false: the name has rank 0 like `readonly`, so the order of the
caller's groups decides, and `policy.rego`'s safe rule only asks that the tier
is not `readonly`. `RunsAreEntitled` says what is true of every mapping, that
medium risk needs an admin tier, and that anything needs a tier above
`readonly` if the caller's tiers are spelt right. Without that condition the
last part is `OnlyKnownTiersRun`, which the comments promise and
`policy_misspelt` refutes.

Some properties hold under a condition that is part of what they show:

- `ReadersAreUndisturbed`: of a file's being readable. That opening it or
  reading the device may fail at any time is in the model (`OpenFails`,
  `ReadAll`) and not in the property. Its three causes of an unreadable file
  are the code's: a cut line, another replica's write under way, and an entry
  longer than the scanner's buffer.
- `CatalogueIsWhole`: while the file is only replaced. A reload that meets an
  edit in place parses what is there without an error, and the half replaces
  the good set until a later tick, although `runbooks.go:136-139` counts being
  "caught mid-write" among the failed reloads that leave it in place.
  `EditsAreSeen` says the whole text arrives in the end.
- `ReachIsInScope`: while the inventory does not change. A cached client keeps
  the role of the account its cluster was in at its first use; after a move
  the scope is checked against the new account and the old one is reached.
- `DiagnosisFitsScan`: for pods of one container. With several, the diagnosis
  reads the first, whichever one was reported, and no log can be read.
- `DownIsAccountedFor`: for one scaling ladder, next to approvals and the
  controller. At a ladder's end it says what `SizeIsKept` says of that ladder.

### What the violations show

- `hub_overlap`: `unregister` takes a cluster id, not a connection. When an
  agent is back before the end of its old stream is seen, the old handler's
  `unregister` removes the new connection and stops its heartbeat; the agent
  sits on a healthy stream that nobody will ever use.
- `ladder_panic`: the only rung of `core/execformaterror` has no `Run`, and
  `runOne` calls it without looking.
- `tools_late`: the policy judges the ladder of `Diagnose`, the agent executes
  one it derives later. If a Deployment is found only then, the ladder has
  grown by medium-risk rungs.
- `tools_unrecorded`: an error from `Execute` returns before `Audit.Append`,
  whatever the agent did.
- `policy_misspelt`: "A caller whose groups don't map to any known tier is
  always denied" (`engine.go:48`), but one whose only group is mapped to a
  misspelt tier is handed on with that name, and the safe rule's
  `tier != "readonly"` lets it run safe actions, in prod too.
- `scale_two`: a snapshot taken while another ladder has scaled to zero is zero.

## Fairness

- `HubSessions`: handlers and heartbeat goroutines are scheduled and their
  calls return (each has a deadline or is a Redis call with the client's own);
  the transport reports a dead connection in the end, so `Notice` is fair; the
  clock advances. `HeartbeatEnds` is strongly fair: Go's `select` picks at
  random among the ready cases, so a loop whose context is cancelled does not
  take the tick for ever. Nothing is assumed of agents, breaks or crashes.
- `ForwardedCalls`: calls, the receive loop, its end on a broken stream and the
  agent's goroutines proceed, streams deliver, and the hop between replicas
  delivers or fails. No fairness for cancellations (an MCP call has no
  deadline of its own), `Connect` or `Break`.
- `Runbooks`: the ticker fires and a reload is finished; an edit in place is
  finished. None for lookups.
- `EscalationLadder`: the goroutine proceeds; the closures' waits are bounded
  (`waitFor`).
- All others are checked for safety only. Of the token cache in particular
  nothing is said about progress: a call to AWS that never returns keeps the
  mutex.

Deadlock checking is off where the work simply ends (`ladder`,
`ladder_panic`, `calls`, `parts`, `scale_two`).

## Proofs

`EscalationLadder_proofs` assumes only `LaddersAssumption`: ladders are
sequences of rungs, no longer than `MaxLen`, and a rung without `Run` is high
risk. Five inductive invariants build on one another, each preserved by one
proof step per action of `Next`:

- `TypeInv`: `TypeOK` alone is not inductive, for a closure's step reads
  `ladder[rung]`; it adds that the rung being run is on the ladder.
- `RiskInv`: `HighRiskNeedsApproval` does not say how `Run` got where it is; it
  adds that the rung in hand passed the loop's risk check and that an approval
  never enters the loop.
- `UndoInv`: which rung an attempt belongs to, what `taken` says of its
  snapshot, that nothing follows a validated rung, and the heart of it: an
  effect that could be undone and is in force is that of the rung being
  validated or rolled back, or has resolved the incident. `UndoReturn` is the
  lemma for every way `runOne` may return.
- `RecordInv`: `RecordIsTrue` speaks of attempts that have been recorded; it
  adds what the rung in hand has done so far and that no rung to come has been
  run. Its lemmas are `OthersFit` (a rung takes no truth from the record of
  another) and `FitReturn`.
- `LengthInv`: a walk that is under way was accepted, so its ladder is within
  the cap; a rung being run is not marked skipped.

`TypeCorrect`, `HighRiskIsGated`, `UndoBeforeNext` and `RecordsAreTrue` follow
from the first four; `EngineImplementsContract` takes `TypeInv`, `RiskInv`,
`UndoInv`, `LengthInv` and `ContractStep`, which maps every step to a step of
`LadderContract` or a stutter.

`WalksAreBounded` adds a measure: `StepsLeft`, at most `8 * MaxLen + 7`, falls
with every step of the request's goroutine and is left alone by `Cancel`. What
is left to TLC of the walk's end is only that the goroutine goes on.

`Callers_proofs` joins the two components that decide who may do what.

- `PolicyRequests`, from `MappingAssumption`. The state is one question and its
  decision; `DecisionInv` says the decision is the initial one or `Decide` of
  the question, and the theorems follow from the rules by cases over risk, tier
  and environment: rules do not conflict, judging `maxRisk` covers every rung
  that may run, a high rung changes nothing, what runs is entitled, and a longer
  list of groups ranks as high (`MoreGroupsRankHigher`), so that
  `MoreGroupsRunMore` holds; of the added group nothing is assumed. They hold
  for every mapping and every list of groups.
- `RoleAccess`, from `AccessAssumption` and `TokenAssumption` (a token lives
  longer than the refresh margin). `TypeInv` adds to the types that no token
  ends later than a life from now. `ClientInv` adds to `OneClient` that only a
  call which has looked the cluster up stores a client, and never looks it up
  again; `ScopeInv` that, while nothing has moved, the account checked, the one
  looked up and the one of the cached client are all the inventory's;
  `TokenInv` that a request on its way got its token no longer ago than the
  margin, when it was good for more. They hold for any number of calls, tokens
  and accounts.

`ForwardedCalls_proofs` holds for any number of calls, forwarded or not, and of
sessions, and assumes `NoneAssumption`, `BoundAssumption` and
`ForwardedAssumption`. `HopLeavesHub` separates the steps between the replicas
from those of the replica that serves; a stream is seen as the calls it
`Carries`. The invariants:

- `TypeInv`.
- `TableInv`: `PendingIsLive`, and that a call under way has a connection.
- `RoomInv`: a call has at most one of an entry in a table, a loop that has
  taken the entry out, and a reply in its channel. `DispatchHasRoom` alone is
  not inductive, for `Deliver` fills a channel that another loop, or a later
  `Dispatch`, might be about to fill.
- `WorkInv`: wherever a reply is on its way back, the work has been done.
- `OnceInv`: a request is on one stream, once, before its goroutine exists.
- `OutcomeInv`: results are set once, on either replica.

`TableIsClean`, `LoopHasRoom` and `OwnReply` follow; `ForwardingIsRemoteCall`
takes them all and maps every step to a step of `RemoteCall` or a stutter
(`RemoteCallStep`).

`HubSessions_proofs` assumes `NoneAssumption`, `TTLAssumption` (the lease is
at least two intervals), `FleetAssumption` and `BoundAssumption`.

- `TypeInv` adds to `TypeOK` that a session has its replica and cluster once
  it is opened, and no loop before.
- `MapHoldsLiveSessions` needs no more than that and `EntriesKept`: an entry is
  removed by whoever unregisters before that handler is gone. It holds with
  overlapping streams too; what overlap breaks is reachability (`hub_overlap`).
- `OwnInv`, for fleets without overlap: one stream per replica and cluster
  between `Hello` and the end of its handler (`OneStream`), so the handler
  finds its own entry in the map (`OwnEntry`), and with it its own loop.
- `LeaseInv`: records are put there for sessions of their cluster (`Authored`),
  and for a cluster with one session what is left of the lease, the failed
  calls and the interval the loop owes make up the TTL (`Funded`). From this
  follows `LeaseSurvivesMisses`, an action property.

Two results stand where liveness would need `ENABLED`. `LiveSessionsAreServed`:
without overlap a serving session is found on its own replica, and through any
other as soon as the directory names that replica; so of
`LiveClusterIsReachable` only the arrival of the `Announce` is left to TLC.
`RecordsExpire` (a cluster is listed exactly while its record has a lease) and
`OwnersRenew` (a lease grows only by an open session of its cluster, or by the
last call of a loop already cancelled) are the same for `GoneClusterIsDelisted`:
what is left is that the clock goes on.

`TickersKeepTheirSpecs`, in the same module, says that a behaviour of
`TickersSpec` is one of `HubSessions` and one of `Runbooks`, fairness included,
so that the theorems of both hold of the run `tickers`.

`Troubleshoot_proofs` assumes `ScopeAssumption`, `ProdAssumption` and
`KindsAssumption` (every kind of signal is that of a playbook, or of none).
None of the four properties is inductive, for an agent may run an action long
after the hub has answered. `Stages` says how far the two goroutines of a
request can be apart; `Troubleshooting` that a job under way was let run by the
policy, and what it may have run; `Approving` that an approval stands on a
record which the trail keeps; `Recorded` that a job has ended, or runs nothing
more, by the time its request is recorded. Each is a conjunction over requests,
preserved for the others by `OthersKept` and `OthersOK`.

`MediumRungsAreJudged` is the counterpart of the violation `tools_late`:
medium risk runs in prod for a prod-admin, or for a crash loop whose Deployment
`Diagnose` had not found (`Unowned`). Its invariant `Judged` says of every job
how its plan relates to the ladder the policy saw; the theorem shows that the
counterexample is the only kind there is.

`AuditTrail_proofs` assumes `AuditCallsAssumption` and `DeathsAssumption`.
`CoreInv` is the types, the mutex of each process and one write at a time at
the end of the file. `SettledStay`: whatever fails or dies, the lines no write
is under way on stay as they are. On it rest `AnswersHold` (an answer is still
the start of the file), `Acknowledged` (an entry whose `Append` returned is in
the file, for every read called since) and `Whole` (while no write was cut, every
line but one under way is whole and of an `Append` that succeeded, so that an
over-long line is the only cause left), which give `TrailIsImmutable`, `ReadsAreComplete` and
`ReadsAreIsolated`. They hold for any number of replicas.

`FileIsStore` is the refinement `AuditSpec => FileImplementsStore`. `FileLogStep`
makes of `SettledStay` that the log is known by its length, `LogMoves` says
which steps lengthen it, and `StoreStep` maps each step to one of `AuditStore`
or a stutter: the end of a write is the `Append`, a read that succeeds the read,
a crash the failure of all the calls of its process. The types, mutexes and
`OneWrite` of `CoreInv` are all it takes, for none of `AuditStore`'s promises
depends on a write being whole.

`Playbooks_proofs` joins three small components. The library's induction
theorems take an operator as a parameter, which the provers cannot instantiate;
`InductionOnNat` states induction for a set of numbers instead, by the least
number outside it, and `RaisesAddUp` and `ParseKeeps` use it.

- `PodScan`, from `ScanAssumption` and `EndingsAssumption` (a termination has a
  reason): `VerdictIsAils` compares the code's ordered rules with the unordered
  description, `ReportInv` carries it from the list to the report. `DiagInv`
  ties the diagnosis back to the list: while no container has ended since, the
  end the diagnosis reads is the one the scan saw, and a log with text in it
  belongs to a container that has ended. `ScanTypeInv` adds to the types that
  a container restarts only after it has ended.
- `MemoryRaise` with `ScaleRemediation`, from `OriginalAssumption` and
  `TouchAssumption`: `CopiesFit` says that a copy nobody's write has outdated
  is the truth, `OneJob` what the only ladder has noted down and where the
  Deployment has its size; from it also follows `OneLadderKeepsSize`, that
  `SizeIsKept` holds for one ladder, so that the violation `scale_two` needs
  its second. `RaisesAreSteps` says that each step leaves the limit and
  `raisedBy` alone or raises the one and adds a new member to the other, whoever
  else writes the object. `RaisesAddUp` sums these steps: the recursive function
  in `RaisesAreKept` exists (`FoldExists`) and one more raise is one more
  application (`FoldGrows`).
- `Runbooks`, from `DocumentsAssumption` and `NoEntryAssumption`: `WholeInv` and
  `PickInv`, and `BookInv` for `CatalogueIsFindable`: whatever beginning of a
  document, its last section half written, is on disk is a sequence of
  sections, and `ParseKeeps` says of every such sequence that `Parse` leaves
  only entries that can be found.

`Parts_proofs`: no part reads or writes another's variables, so a behaviour of
`PartsSpec` is one of each part's specification (`PartsKeepTheirSpecs`), and
every property that the run `parts` checks follows for `PartsSpec` from the
theorem of its part (`PartsTypeCorrect`, `PartsAreCorrect`).

Only model-checked is liveness, for the prover has no `ENABLED`:
`LiveClusterIsReachable`, `GoneClusterIsDelisted`, `CancelledCallEnds`,
`LiveSessionAnswers`, `EditsAreSeen`, and the fairness of `ImplementsContract`,
whose safety part `EngineImplementsContract` proves.
`ForwardingImplementsRemoteCall` and `FileImplementsStore` have no fairness and
are proved whole. The properties of the violation runs are false; where the
code keeps them under a condition, a theorem says so (`MediumRungsAreJudged`,
`OneLadderKeepsSize`, `LiveSessionsAreServed`, and for `policy_misspelt`
`EntitlementNeeded`).

## Not modelled

- A directory write in flight when its process dies, and a replica restarted
  under another address. `GracefulStop` never returns while an agent's session
  is open, so a shutdown is a kill, which is `Crash`.
- The agent's reconnect backoff and the cache of connections to peers: when and
  over what a session or a hop is made, not what it does.
- Flag parsing, TLS, protocol definitions and generated code: no behaviour of
  their own.
- Texts: summaries, redaction, post-mortems, log heuristics beyond the one
  text the scan tells apart, and the scores of the runbook search.
- `list_clusters`: its handler is in the source, but the program does not
  register it.
- Init containers in the scan, and the nodes' reads, which report what they
  find without a decision.
- That the policy file, the scopes and the required groups are read once at
  start and that an error there ends the process.

## Plan

Done, in the order of the work:

1. `EscalationLadder` with `LadderContract` and proofs.
2. `HubSessions`.
3. `AgentCalls` with `RemoteCall`, then `ForwardedCalls` and proofs.
4. `Policy`, `PolicyRequests` with proofs.
5. `Troubleshoot`, `ScaleRemediation`, then `MemoryRaise`.
6. `AuditTrail`, `Runbooks`, `RoleAccess` with proofs, `PodScan`, joined in
   `MCParts`, `Runbooks` with the sessions in `MCTickers`.

7. Proofs about `HubSessions`, `Troubleshoot`, `AuditTrail`, and in one module
   about `PodScan`, `MemoryRaise` and `Runbooks`.
8. The sums and types that take induction, the measure of a walk, the leases'
   end, the conditions under which the violated properties hold, `AuditStore`
   with its refinement, and `MCParts` from the theorems of its parts.

Left: what needs fairness in a proof.
