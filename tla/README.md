# LadderAirport: a verification project

LadderAirport manages a fleet of sing-box nodes. One process, the **Panel**
(`src/panel`), holds the operators' intent in SQLite and serves the web UI; one
**Agent** per node (`src/agent`) runs sing-box and, optionally, an FRP server.
The two talk either by gRPC dialled by the Panel (push) or over the **uplink**,
which the Agent dials: HTTP long polls for commands, a periodic configuration
pull, and a WebSocket that carries the same gRPC methods in the other direction.

The project models the parts of this system whose correctness depends on the
order of events. It is written in TLA+, checked with TLC on small instances, and
the central results are proved with TLAPS for every value of the constants.

- [The system](#the-system): components, state, operations, interactions
- [The modules](#the-modules): what each models and how it corresponds to the code
- [The runs](#the-runs): what is checked, with which bounds and fairness
- [The proofs](#the-proofs): what is proved, from what, and how
- [Findings](#findings)
- [Not modelled](#not-modelled) and [Plan](#plan)

All paths below are relative to `src/`. Line numbers of each definition are in
`PROJECT.json` under `map`.

## The system

### Components

| Component | State | Operations | Hard behaviour |
|---|---|---|---|
| Command queue (`panel/internal/store/store.go`, `api/handlers_agent_commands.go`, `agent/internal/uplink/commands.go`) | table `agent_commands`, one wakeup channel per node, the Agent's batch | enqueue, notify, long poll, lease, sweep, execute, post result | at-least-once delivery, lost wakeups, stale handlers, restarts |
| WebSocket uplink (`panel/internal/uplinkhub`, `agent/internal/uplinkws`, `pkg/uplinkws`) | Hub's connection per node, a Conn's pending calls and buffers, the Agent's session and handlers | register, remove, call, stream, cancel, dispatch, shutdown | overlapping sockets, teardown racing calls, one reader for all calls |
| Configuration delivery (`agent/internal/uplink/client.go`, `api/handlers_agent.go`, `handlers_frps.go`, `nodeconfig`, `certmanager`, `control/runtime_box.go`, `frpsruntime`) | rows of the node, its inbounds, FRPS settings and certificates; hashes the Agent remembers; the two runtimes | edit, HEAD, POST, apply, live push, certificate deployment, restore | remembered hash versus running configuration, failed applies, restarts |
| Node store and reports (`store.go`, `handlers_agent.go`, `handlers_fleet.go`) | node rows | report, probe, mark unreachable, edit, delete | whole-row writes of stale reads, report order |
| Batch runner and bootstrap (`panel/internal/batch`) | tasks and task items, node rows | create task, run one node, retry nodes never configured | node changes during an RPC, one failing node |
| Automation jobs (`panel/internal/automation`, `store/automation.go`) | table of jobs with leases | enqueue, force, claim, renew, finish | lease expiry under a running job |
| Protocol certificates (`certmanager`, `store/certificates.go`, `agent/internal/protocolcert`) | certificate rows, generations on the Agent's disk | prepare, install, deploy, retry | staged candidate, rollback baseline |
| DNS reconciliation (`dnsreconcile`, `store/dns.go`) | bindings, records at the provider | reconcile, cleanup | who owns a record, partial failure |
| Proxy chains (`proxychain/service.go`) | chains, configurations of all hops | deploy, disable, preflight, rollback, probe | failure between hops |
| Management PKI (`pki/manager.go`, `store/pki.go`, `handlers_agent_enroll.go`, `agent/internal/managementpki`) | root, intermediate, certificates, enrolment tokens | enrol, renew, revoke, rotate | lost response to a renewal |
| Builder, converter, inbound fill (`nodeconfig`, `converter`, `inboundfill`, `handlers_inbounds.go`) | rows of inbounds | fill, edit, rows to sing-box JSON | refusal of a build, parameters left over from another protocol |
| Subscriptions (`subscription`, source rows of `store.go`) | cached bodies per source | fetch, refresh, merge, parse, render | coalesced refreshes, edits of a source under a refresh |
| Agent control server, upgrade, traffic (`agent/internal/control`) | running box, log buffer, counters, staged binary | apply, start, stop, stream logs, stage | restore on failure, several files without a lock |
| Panel PKI files (`pki/manager.go`, `cmd/panel`) | key and certificate files | open, create, renew, rotate | a stop between two files |
| API: auth and settings (`api/auth.go`, `handlers_settings.go`, `handlers_subscription.go`) | cookies, settings row, subscription rows, failed logins | requests | session versions, whole-row writes of overlapping requests |
| Providers, FRP bridge, push client, wiring | none of their own | calls | see [Not modelled](#not-modelled) |

### Interactions

- The Panel's HTTP handlers and background loops share SQLite under `Store.mu`
  (`SetMaxOpenConns(1)`): a store method is one atomic step, what lies between two
  store calls is not.
- `batch.Runner` and `certmanager.Service` share one *Coordinator* lock, which
  `agentDesiredConfig` also takes: a pull never sees the middle of a deployment.
- The Agent runs four independent loops: commands, config-sync, reports and the
  WebSocket session. The WebSocket session calls the same `control.Server` as
  `applySync`, which is why the remembered hashes of `syncConfig` and the
  runtimes can differ.
- An uplink command is enqueued by an HTTP handler, wakes a long poll of the
  node, runs on the Agent and comes back in a separate POST; the browser polls
  the row.

### What makes each part correct

- *Command queue*: a command ends in exactly one answer; it is not run more often
  than it was leased; leases are bounded by the TTL; an enqueue wakes a parked poll;
  every command ends if the Agent lives.
- *Uplink*: a waiting caller can always still be answered; an old socket never
  evicts the new one; a superseded socket goes away; a log stream has no gap;
  one stuck call does not stop the others.
- *Configuration delivery*: what the Agent remembers is what runs; the node
  converges to the latest intent.
- *Node store*: a write never undoes a concurrent one; an older report never
  replaces a newer one. *Automation*: a job runs once at a time and ends.
  *Certificates*: a failed renewal never takes a working certificate away. *Chains*:
  all hops of a chain run the same version, or the old one. *PKI*: the Panel expects
  only certificates the Agent has. *DNS*: a record the Panel created is
  never forgotten; an enabled domain comes to be published.
- *Batch*: a task's row says what happened; every push node comes to run the latest
  configuration. *Sources*: a row never goes back to an older success. *Sessions and
  rows*: what was revoked or changed stays so. *Upgrade*: only what was verified is
  installed. *PKI files*: a start finds files it can open and an identity it can use.
  *Formats*: a client that reads a subscription can connect to the listener of its row.

## The modules

| Module | Role |
|---|---|
| `CommandQueue`, `CommandContract` | command queue of one node, and what it promises |
| `UplinkHub` | the WebSocket uplink of one node, both ends |
| `ConfigSync` | configuration delivery to one uplink node |
| `AutomationJobs` | the job table with its leases, and the runner |
| `ProtocolCertificates` | the life of one managed certificate, run by `AutomationJobs` |
| `NodeRows` | one row of the nodes table and everybody who writes it |
| `ManagementPki` | the management identity of one node, on the row of `NodeRows` |
| `BatchRunner` | tasks over many nodes and the bootstrap loop |
| `ProxyChains` | deployment, replacement and rollback of a proxy chain |
| `DnsReconcile` | the records of a managed domain |
| `ExternalSources` | the cache of external subscription sources |
| `AdminSettings` | sessions, the settings row, the rows of subscriptions |
| `AgentUpgrade` | the files of the Agent's self-upgrade and its root helper |
| `PanelPkiFiles` | the files of the Panel's PKI through starts and rotations |
| `InboundRows` | rows of inbounds: fill, edit, conversion to a listener |
| `SubscriptionFormats` | the three formats of a subscription, written and read |
| `SubscriptionEndpoints` | deduplication, unique names, port mappings |
| `Versions` | the order of versions behind "upgrade available" |
| `CommandQueue_proofs`, `UplinkHub_proofs`, `ConfigSync_proofs`, `ProtocolCertificates_proofs`, `BatchRunner_proofs` | theorems about these modules |
| `Nodes_proofs`, `Deployments_proofs`, `Services_proofs` | theorems about what `MCNodes`, `MCDeployments` and `MCServices` bring together |
| `MC...` | instances for TLC |

`ProtocolCertificates` extends `AutomationJobs` and `ManagementPki` extends `NodeRows`, because
the one works on the state of the other. `MCNodes`, `MCDeployments` and `MCServices` each bring
together several modules that share no state (or, in `MCNodes`, the node's row): a variable `part`,
fixed in the initial state, says which of them moves, so that their state spaces add up and do
not multiply. An operator whose comment begins with `MUTANT` is not part of a model: it is a
plausible slip in the definition after it, kept to show that the named property would notice
(`PROJECT.json`, `mutants`).

### CommandQueue

One node, because rows, wakeup channel and poll are all per node. Variables
`status`, `attempt`, `lease`, `created` are the columns of `agent_commands`;
`wakeup` is `cmdWaiters[node]`, absent until a poll has made it and then a channel
of capacity one. A handler is a goroutine with its own program counter: `lease`,
`parked` in the `select`, `reply`. A poll the Agent gave up on keeps its goroutine
(`hconn = FALSE`) and may take the next wakeup or lease commands for nobody.

`Enqueue` and `Notify` are two actions because the INSERT commits before
`notifyNode` runs; a Panel restart in between loses the wakeup. `PollLease` is
`LeaseAgentCommands`, which holds `Store.mu`: sweep, SELECT with its LIMIT, UPDATE.
The three statements are not one transaction, so `PollLeaseFails` lets any of them
fail, with a prefix of the claimed rows already leased. Results are messages that may
arrive late, in any order, or never.

Abstracted: payloads and results (only success or failure), seconds (ticks), the
number of pollers (`Handlers`). `MaxTime`, `LastEnqueue` and `MaxRestarts` are bounds.

`CommandContract` says what the caller of the queue may rely on: a command is closed
once and its answer never changes, success and failure only after a run, at most
`ceil(TTL / lease)` runs. The refinement hides attempts, leases, handlers and messages.

### UplinkHub

One node with several sockets over time. `serve[k]` is the program counter of the
goroutine of `Hub.Serve` for socket `k`, from `Register` through `readLoop` to
`Remove`; `shut[k]` splits `Conn.shutdown` in two (the channel is closed, then
`pending` is swept), because a caller may register between them. `DisplacePrevious`
waits for the shutdown of the Conn it displaced, as `closeOnce.Do` does. Callers have
the steps `Get`, the look at `closed`, `register`, write, `select`. `down` and `up`
are the two directions of a socket, FIFO as a WebSocket is; frames on a dead
socket are lost. The Agent's `session` answers a request in a goroutine of its own. The reader
of a closed Conn may drop a frame for which there is room, as the code's `select` may.

Abstracted: payloads, `nextID` (a call is its own id), unsolicited reports (they change
node rows only), pings (a socket may die at any time). `MaxSockets` and `MaxItems` are
bounds; `StreamDepth` stands for the code's 64.

### ConfigSync

One uplink node. A configuration is identified with its hash: a base (inbounds and
bindings) and the certificate generation that `applyManagedTLSBinding` overlays.
`certSt`, `gen`, `staged` and `deployer` follow `certmanager.Issue` and
`deployCandidate`; `deployer = "waiting"` holds the Coordinator. `pc` walks through
`syncConfig`: HEAD, POST, `ApplyConfig`, remembering its hash, FRPS, run state. `wire`
holds what was pushed over the socket and not yet handled, in no particular order,
since the Agent handles each request in a goroutine of its own.

`BoxApply` is `BoxRuntime.Apply` with its fallback: a configuration that does not
parse changes nothing, one that does not start gives way to the previous one, or to
none. `FRPSApply` is the same for frps, with the file that `Restore` reads.

Abstracted: the JSON, the push control plane, other nodes. `drifted` is a history
variable: the runtimes last written by something other than a successful `applySync`.
`calm` is set once, nondeterministically, and from then on there are no edits and no
faults: a fault is allowed any number of times before, never after, which states
"eventually requests succeed" without strong fairness on each request.

### AutomationJobs and ProtocolCertificates

One target, because every statement of `automation_jobs` selects by type and target. Each
operator of the table (`EnqueueAutomationJob`, `ForceEnqueueAutomationJob`, the rows that
`ClaimAutomationJobs` selects, `Finished`) is one transaction. An execution is a goroutine `w`
with `held[w]`, and a heartbeat of its own (`beating[w]`) that gives up at its first error. A
lease runs out when nothing renews it or when the process stalls; there is no clock.

`ProtocolCertificates` says what an execution does: `Service.Issue` reads the certificate's row
once, changes its `copy[w]`, and writes every column at each step (`step[w]`: prepare, order,
install, deploy, settle, fail). Every step may fail before or after its effect. `key` and `chain`
are the files of the generations on the Agent's disk; a stop during `Manager.Prepare` leaves a
torn key. `deployCandidate` waits for the Coordinator (`lock`). Beside it run the poll for due
certificates, operators who force, bind and delete, and restarts of the Panel at any step.

Abstracted: ACME and DNS-01 (success or failure), dates (an active certificate may be due at any
time), the rest of the node's configuration.

### NodeRows and ManagementPki

`NodeRows` is one row with three kinds of writers: operators set columns (the control token among
them); reports and the
fleet's mark "unreachable" carry a condition in the statement; probe, refresh, batch task and
upgrade write back every column of a row they read before a dial (`sess[w].copy`). `undone` is a
history variable: the columns that such a late write has taken back. The properties name it as
their exception, which is the finding. A tick is 45 seconds, and a report's time may lie ahead by
`Ahead`.

`ManagementPki` adds the certificates of the node (`certs`, `valid`), enrolment tokens, the
handlers that issue and renew (`req[h].step`, one step per transaction of `handlers_pki.go` and
`handlers_agent_enroll.go`), revocation, the sweep at expiry, and the Agent, which gives up after
30 seconds while its handler goes on, may restart, and installs whatever answer reaches it.
Serials and tokens nobody refers to are used again.

### BatchRunner

`table` is what the Panel's rows say, `agents` what the nodes run. A task is a goroutine per node,
`jobs[t][n].pc`: waiting for a slot, call or Coordinator, apply, save, result, done. Two tasks exist:
the operator's (`batch`) and the loop's (`bootstrap`), at most `MaxConcurrency` goroutines each.
`tasks[t].nodes` are the nodes that were asked for, so that a result that is missing is noticed. A task
that cannot be marked as running stays pending (`NotStarted`); a slot may be followed by a row that
cannot be read or an intent that cannot be written (`SlotFails`), an uplink node's is the end of its
job (`NotesIntent`). Results are written under one mutex with every finish (`Records`), the final status
by `Finishes`, when every goroutine of the task is done; each of these writes may fail.
`cache.same` keeps of the fingerprint whether it still equals the cached one; two updates within a
second do not change it (`Touched`).

### ProxyChains

One chain; of a node's configuration only this chain's part is kept (`runs[n]`), and `shown[n]` is
the part whose hash is in the node's row. `op` is the deployment in progress, which holds the
Coordinator: preflight, applies from the last hop to the first, undo of the changed nodes in
reverse, two writes of the row, the probe. `Order` is `planConfigs`. A handler reads the chain before it
waits for the Coordinator (`DeployAsks`, `DeployBegins`, `waiting`), so what it deploys may be older than
the row. Of the two writes at the end the first (`Updates`) is rolled back when it fails, the second
(`Runtime`), which is the only one of `Disable`, is not: the deployment ends as "failed", with the new
parts running. An uplink hop is only given a snapshot, which may fail as well. The handlers that edit or
delete a disabled chain do not take the Coordinator and are modelled beside it (`EditReads`,
`ReplaceWrites`, `DeleteWrites`). `doubt[n]` is a history variable: "lost" when an answer or a write about
node n was lost, "left" when a rollback failed or was not made.

### DnsReconcile

`zone[t]` holds the records under the name, `domain` the row. The reconcile job and the cleanup job
work on a copy of the row and write every column at the end, as does the operator's update.
`ReconcileCleans` deletes records of types no longer used; `ReconcileLooks` and
`ReconcileUpserts` are `reconcileRecord`. Every call to the provider may fail before or after its
effect. Others write to the zone (`ForeignWrite`). `domain.manual` says that the operator gives the addresses,
without which there is no CNAME (`Allowed`); otherwise they are the node's, and the job of a node whose
DDNS is switched off only writes the row (`ReconcilePauses`). `written[t]` is a history variable: the value
of a record the Panel created.

### ExternalSources

`caller[c]` is a goroutine in `RefreshSource`: a client, the goroutine of a stale answer, the
operator's refresh, or the background pass. `inflight[s]` is the map of that name; callers that
find an entry wait for its end (`Join`, `Learn`). A body stands for the URL it was fetched from.
The operator's update reads and writes the row in two statements (`edit`).

### AdminSettings

Handlers that change the settings row or a subscription read it, change the copy and write it
back; `session_version` is incremented by a statement of its own. A login reads the settings twice
(the password, then the version of the cookie). Sources of a subscription are set in a transaction
of their own; when one does not exist the row is rolled back. Every statement may fail and the Panel may
stop between two: the new password is saved and the sessions are not ended (`BumpFails`), the row of
a failed request is not taken back (`RollbackFails`). `history` holds what the last request
answered without error left, which rows were written by overlapping requests, and which were left
half done (`half`) until a later request makes up for it.

### AgentUpgrade and PanelPkiFiles

Both are about several files and stops between them. `AgentUpgrade` distinguishes a name and an
inode: two stagings open the same partial file and truncate the same inode. The helper checks the
sums, reads the staged file again and installs. `PanelPkiFiles` goes file by file through the
creation at the first start, `Load`, the renewal of the client identity and the command that
rotates the intermediate. `torn` is a history variable: a stop between two files that belong
together. A renewal of the client identity may also fail between its two files while the Panel runs on
with the pair it holds (`RenewalFails`, `renewalFailed`).

### InboundRows, SubscriptionFormats, SubscriptionEndpoints, Versions

Mostly functions. `Fill` is `inboundfill`, `Converts` what `converter` accepts, `Render` and `Parse`
the entry of a client in Clash, sing-box and link format, reduced to what decides whether a
client can connect: secrets, the kind of TLS, the Reality key and short id, the name and the
verification. A password is one of a few (`PasswordForms`, and one with a blank) that differ in the characters the
reading of a link tells apart: `QueryUnescaped` is what `parseSSURI` does to a decoded password, `UserPart` and `UserName` what
`url.Parse` and the parsers leave of one that was written unescaped. `InboundRows` also has the handlers of the row, so that parameters come from a
series of requests, emptied and left over. `MergeEndpoints` is the three passes of `merge.go`: what cannot be
dialled goes (`DialableOnes`), then what reaches an address that is taken (`Kept`), then names are made unique
(`UniquifyNames`). `WithMapping` is one round of the loop of `NormalizePortMappings`: the first place of a listen
port stands for `order`, the row in it for `byListen`. `Compare` and `IsOutdated` are those of `semver.go`.
Each pass over a slice is a recursive function of the number of elements passed.

## The runs

| Run | Question | Result |
|---|---|---|
| `command_queue` | types, runs charged to leases, bounded redelivery, no lost wakeup, refinement of the contract | holds |
| `command_liveness` | every command ends | holds |
| `command_expired` | "expired" means not executed | violated, finding |
| `uplink_hub` | types, no orphaned caller, newest socket kept, superseded socket closed and ended, no gap in a stream | holds |
| `uplink_wedge` | the reader waits only for a stream somebody reads | violated, finding |
| `config_sync` | types, remembered hash is the running one, convergence unless drifted | holds |
| `config_sync_stale` | FRPS settings converge | violated, finding |
| `certificates` | one active job, executions overlap only after a lost lease, no renewal abandoned, what a build may overlay is installed, the confirmed generation is never taken back, a renewal ends | holds |
| `nodes` | what the operator stored stays, the newest report wins, the pinned serial is that of the one active certificate, a running Agent gets it again | holds |
| `batch` | a final row has a result for each node of the request and the status of these results, an "ok" is true; every push node comes to run the latest configuration | holds |
| `deployments` | a deployment that ends well has all new parts (one whose last write fails too), one that is rolled back the old ones, nodes converge; no record is forgotten, an enabled domain comes to be published | holds |
| `services` | files, sources, sessions, inbounds, formats, names, versions (below) | holds |

**Exceptions are part of the statements.** Where the code has a hole, the property names it
instead of leaving the case out of the model, so that the property says exactly how far the promise
goes: a late write of a whole row (`undone` in `EditsKept`, `ReportsWin` and `PinnedIsActive`); two
executions after a lost lease (`overlapped` in `NoAbandonedRenewal`, `BaselineKept` and
`RenewalEnds`) and a torn key; a hidden edit, a blank row and a node that cannot be built in
`BootstrapConverges`; a lost answer (`doubt = "lost"`) in `ChainsConverge`, and that or a failed rollback
("left") in `DeployOutcome`, which also says what a failed last write leaves; a failed
step (`failed`) in `OwnedAccounted`; requests that overlap or stay half done in `AnswersHold` and
`SessionsRevoked`, stagings in `OnlyVerifiedInstalled`, and edits in `LastGoodKept`; a torn stop in
`OpensAgain`, a failed renewal in `IdentityUsable`; a skipped `Fill` in `ListenerMeetsClients`; the characters a
link loses (`LinkLoses`) and Reality without a name in `SurvivesSource`. Each of these is a finding below. A
hazard that lies in such an exception is not caught by the property when it bites: `hazards` in `PROJECT.json`
says so where it is the case, and what the property shows there is that nothing else goes wrong.

**The services run** has five properties, each of several parts, one for each module it composes:
`FilesConsistent` is `OnlyVerifiedInstalled` (AgentUpgrade), `IdentityUsable` and `OpensAgain`
(PanelPkiFiles); `GoodKept` is `LastGoodKept` (ExternalSources) and `RootKept` (PanelPkiFiles);
`RevokedStaysRevoked` is `SessionsRevoked` and `AnswersHold` (AdminSettings); `FunctionsAgree` evaluates
`SurvivesSource`, `Meets`, `MergeSound`, `MappingsSound` and `UpgradesEnd` on every input of small sets
and checks `ListenerMeetsClients` and `ChainKeepsRow` (InboundRows) on every reachable row. The
inputs are initial states, so that each is a state of its own.

**Bounds.** *command_queue*: two commands and a limit of one row per lease make the
LIMIT bite; two handlers give one abandoned poll beside a live one; TTL of two leases
gives a redelivery before the sweep; one restart of either side; the clock reaches
the TTL, so every command expires (`ClockAssumption`). *uplink_hub*: two sockets are
one takeover; a third adds only more of the same, because `Register` looks at one
predecessor. One unary call and one stream of two lines against a buffer of one: the
buffer fills while the call's answer is behind it. *config_sync*: one renewal, two edits,
two inbound settings of which one binds the certificate, one FRPS setting. Three FRPS
edits in *config_sync_stale* are the shortest way back to a remembered hash.
*certificates*: two executions and two rows of the table are what an overlap takes; two generations
are a first issue and a renewal, so there is a baseline to lose; one restart, which may come at any
step; at most one stall, and no further disturbance once executions have overlapped.
*nodes*: one writer with an older copy is enough to undo anything, two reports can be
delivered in the wrong order, and the clock goes far enough for a row to be stale. For the
identity, two handlers are one the Agent gave up on and its retry; three serials (pinned, recorded, signed) and
two tokens are as many as can be referred to at once; three faults.
*batch*: a push and an uplink node, one slot, so that a goroutine waits; two configurations,
so that a node can be behind; one trouble of any kind. *deployments*: two push nodes and an uplink
node, two hop lists that share their first node, so a replacement has a hop to add and one to drop; three
requests, two failures, so that the rollback can fail too. Two values of records, three modes, of which
CNAME is the operator's, three edits, one failing step. *services*: two goroutines refresh one source with two URLs, TTL and
grace of one tick against a clock of three; two requests overlap on a row, four requests in all (log in,
change, log in again, look); two stagings; the CA lives three ticks and the client certificate two
against a clock of four, so that both are renewed and run out; four protocols stand for the
four ways of filling (two kinds of password, UUID, both); endpoints of all protocols with every form of a
password, through each pair of formats; two requests after the creation of a row.

**Symmetry** is used where no liveness is checked: over commands and handlers in
`command_queue`, over callers and requests in `services`.

**Fairness.** *CommandQueue*: the clock, notifications and handlers run on (WF:
goroutines are scheduled); a lease is strongly fair (SF) because it may fail any
number of times, and a statement does not fail for ever; the Agent polls again,
executes its batch and returns from a POST (WF: `runCommandLoop` has no exit but its
context). The network is not fair at all: every poll may be abandoned and every result
lost, and the command still ends, as expired. *UplinkHub*: only Panel goroutines are
fair; the Agent, the network, the callers and the browser are not. *ConfigSync*:
loops and handlers (WF), the reconnect loop (WF `LinkUp`), and `CalmDown`.
*ProtocolCertificates*: every execution goes on, the loop polls, a lease nobody renews runs out, the
create handler reaches its second statement (WF), and claims are strongly fair (SF), because a
round may find the loop busy with an enqueue again and again; `CalmDown` as above.
*ManagementPki*: handlers and the Agent's renewal loop (WF); the administrator, who may run the
installer or not, is not fair. *BatchRunner*: goroutines, the end of a task, both passes of the loop.
*ProxyChains*: the deployment, the handler's second statement, and the loops that repair a node.
*DnsReconcile*: the two jobs, which the job table retries (a target with a job due is claimed, as
`AutomationJobs` shows), and the handler's second statement. Failures there are bounded, so that
they stop. The modules of *services* state no fairness and check no liveness.

`CHECK_DEADLOCK FALSE` is set in all runs but those of the queue: these systems are
legitimately quiet once their bounded requests, edits, sockets or inputs are used up.

## The proofs

All theorems hold for every value of the constants that satisfies the module's
named assumption: finite numbers are naturals, limits are positive, serials and tokens are not 0, the sets of
calls are disjoint, goroutines and nodes are finitely many. Those that say more than that:

| Assumption | What it says | Why |
|---|---|---|
| `RowsAssumption` | there is a control token to give | tokens are random strings |
| `ChainAssumption` | a hop list has two to eight different nodes | `validateProxyChain` (`store.go:2596`) refuses others |
| `DnsAssumption` | a mode is one of the four sets of record types | `dnsreconcile` |
| `PkiFilesAssumption` | `0 < RenewBefore < ClientLife <= IntermediateLife` | `pki/manager.go:159`: with no time left before the end a certificate is renewed too late, and `IdentityUsable` is false |
| `SourcesAssumption` | the empty string is no source and no URL; `NoCaller` is no caller | `handlers_external_sources.go` refuses them |
| `EndpointsAssumption` | hosts that cannot be dialled are hosts | a literal address resolves to itself |

TLC evaluates the same assumptions in the runs. Nothing else is assumed.

**CommandQueue_proofs.** `TypeCorrect` is inductive as it stands. `QueueInvariant`
states the inductive invariant `QueueInv`, which adds to the types:

- `Handover`: one poll at most has a client, a handler holds leased commands only while it
  replies, the Agent holds a batch only while it works on it, and a result under way is of
  a command that ran;
- `RunsAreCharged`, with the commands in hand counted as runs still to come, which is
  why it is inductive: without them a delivery would not be visible until it ran;
- the spacing of leases: the k-th lease of a row ends no earlier than k lease times after
  the row was created. Together with the sweep at the TTL this bounds `attempt`
  (`RedeliveryBounded`).

`RunsAlwaysCharged` and `RedeliveryAlwaysBounded` follow. `WakeupNeverLost` needs
`Subscribed` besides: a handler past its first line implies that the channel exists,
which is the reason `waiterFor` is called before the first lease.
`QueueImplementsContract` maps every step of the queue to a step of
`CommandContract` or a stutter: a lease turn to `Expire`, an execution to `Run`
(`RunsAreCharged` and the bound on attempts give the contract's guard, by the
arithmetic of `LeasesInTTL`), a result to `Answer`.

**UplinkHub_proofs.** `TypeCorrect` includes that no channel exceeds its buffer, which
needs `Routed` (responses are for unary calls, items and ends for streams), `Buffers`,
`Holding` (a reader holds a frame exactly while it is blocked), `Placed` and `Fresh`.
`NewestAlwaysKept` is inductive by itself; `DisplacedAlwaysClosed` needs `Superseded`,
which makes the same claim while a socket is still closing its own predecessor: another
socket may supersede it before its reader starts. `NoCallOrphaned` rests on
`EveryCallCanEnd`: a caller that has registered has a closed Conn, a registration, or
an *ending* frame under way. A log line does not count, because the caller waits again
after it; that is what makes it inductive.
`StreamsNeverGap` follows a log line through its four stations: the socket, the hands of a
blocked reader, the stream's channel, the caller. `Ordered` cuts the numbers between them, so
that every station's lines rise above those of the next; it holds on closed Conns too, where a
freed reader drops a line. `Exact` adds, while the Conn is open, that the lines received, buffered
and held are `1, 2, ...` and that, as long as the stream is registered, the socket holds all the
others that were sent; an end frame is the last of its channel. Both need `Shape`: nothing is sent
for a call that has not been written (`Unsent`), a call is registered on its own Conn only (`Mine`),
and a channel holds its own call's frames (`Addressed`).

**ConfigSync_proofs.** `TypeCorrect` needs that a renewal under way leaves a generation
to install (`RoomForCandidate`) and that the only awaited push is that of the waiting
deployment (`OneAwaited`), or else a late answer could settle another deployment.
`RememberedAlwaysRuns` adds `ApplyUnderWay`: between the apply and the note, the box runs
what is about to be remembered.

**Nodes_proofs.** Of the row alone (`RowsInvariant`): the type invariant, `EditsKept` and `CutoffPast`: a
refresh that is about to mark compares with a time at least 45 seconds ago. Without the last the
mark of a refresh could hit a fresh report, which `ReportsAlwaysWin` excludes. `EditsAlwaysKept` follows for
any number of writers. Of row and identity together (`PkiInvariant`): `AtMostOneActive`, as a statement
about any two serials, from which `PinnedAlwaysActive` counts them at the end, and `PinnedHolds`. It is
inductive because every way a serial gets into the row is one of three: the handler signs and records in one
transaction (`store.go`), revokes in one, or writes back a whole copy, which says so in `undone`. The steps of
the handlers that write neither are proved to leave both halves alone, once and for all (`RestKept`); a handler's
copy needs no invariant of its own but its types.

**ProtocolCertificates_proofs.** `CertInvariant` states the inductive invariant of table, executions and row
together. Of the table: a row with an owner is running (`OwnerRuns`), active jobs are one (`OneActive`), who
executes a job has its lease as long as none was lost (`HoldersLease`), and there is one execution as long as none
was lost or none overlapped (`OneHolder`). Of the certificate: the candidate of a row or a copy is its active
generation or the next one (`RowsGood`), whatever row or copy names has its files on the disk (`FilesKept`), a copy
fits the step of its execution (`StepsFit`) and, without an overlap, is no older than the row (`CopyCurrent`); an
issuance has an active job (`StillWorking`), and an execution that ends well has settled the row (`SettledRow`). From it:
`AlwaysOneActiveJob`, `OverlapAlwaysNeedsLostLease`, `NeverAbandoned`, `AlwaysInstalled`, and the action property `BaselineAlwaysKept`.
Assumed: the goroutines are finitely many (`IsFiniteSet(Workers)`: `batchSize`).

**BatchRunner_proofs.** `BatchInvariant`: nobody runs a configuration that does not exist yet
(`Known`); an apply that succeeded, recorded or still in memory, left a configuration no older
than its task (`OkRuns`), which holds later too because the tables only move forward; while `RunTask` is at work
each node of its task, and no other, has a goroutine, and one that has ended has left its result (`Gathered`), so
that nothing is missing when the status is computed (`StatusFits`) and nothing changes after it. The loop's task is
begun anew only when the one before has ended (`LoopWaits`). `ResultsAlwaysExact` follows for any number of nodes.

**Deployments_proofs.** *Domain.* A record the Panel created stands in the zone until it is replaced or deleted
(`WrittenStands`): that holds whatever fails, and everything else holds as long as nothing failed
(`Undisturbed`). Of job, cleanup and handler one is at work (`OneAtATime`), on the row as it is; the records
are known to the row until the job has them in its copy (`RowAccounts`), and to the copy, type by type, as the
work goes on (`JobAccounts`): a type left to do may hold an older value, one that is done holds the desired one.
`NoRecordOrphaned` is that between jobs. That a failure or an overtaking leaves its trace in `failed` is a lemma
of its own (`Undisturbing`), so that each step is proved for the case without one. *Chain.* `DeploymentsAreAtomic` rests on two
facts about the order of nodes: while it applies, every node concerned has its new part or is still on the list
(`AppliedOrLeft`); and who runs neither what it ran before nor the old part is in doubt or on the list the rollback
goes through (`OldOrChanged`). Both start from `orderNodes`: every hop, of the old list and of the new one, is on the list
(the two loops of `appendUnique`, proved for lists of any length).

**Services_proofs.** One section for each module that `MCServices` extends; the last one puts them together.

- *Upgrade*: while no two stagings overlap, each step of one finds the files as its own earlier
  steps left them (`AtStep`), under its own inode (`FilesApart`). `VerifiedAlwaysInstalled` follows.
- *PKI files*: the invariant says, for each point of each of the three writers (first start, renewal of the client
  identity, rotation), which files exist and which key made which (`FilesPhase`). Keys are numbered in the order they are
  generated, so two files match or not by arithmetic. `IdentityAlwaysUsable`, `AlwaysOpensAgain` and the
  action property `RootAlwaysKept` follow.
- *Sessions and rows*: the version counts the revocations and no cookie is of a later one (`SessionsInv`); a request that is
  alone with the settings row or with the subscription has a copy that agrees with it, and what it has written so far
  is what its answer will say (`SettingsAlone`, `SubAlone`), as long as nothing was left half done. `RevokedAlwaysRevoked` covers sessions and answers.
- *Sources*: the copy of the one caller who fetches is the row unless the row was edited since (`CallerGood`); a
  source has one fetch (`FetchersKnown`). `LastGoodAlwaysKept` is an action property.
- *Inbounds*: a row is filled for its protocol or marked as skipped. `FilledMeets` says what `Fill` gives for any
  parameters of any protocol, `ListenersAlwaysMeetClients` for any series of requests.
- *Formats*: `EndpointsSurvive`, for any parameters, format by format.
- *Versions*: an order is given by the first place two versions differ at (`FirstTold`): three numbers, then the parts of
  the prereleases, with a missing part first. `Ordered` (what compares less twice, compares less) carries over from the places to the
  whole. `UpgradesAlwaysEnd` is for numbers and prereleases of any length.
- *Merging and mappings*: `MergeAlwaysSound` and `LastMappingCounts`, for inputs of any length. Each pass is
  described by an invariant of what it has made of the first `i` elements: for names, that the keys of `seen`
  are exactly the names given (`NamesApart`), so that the search for a number ends (`FreeNumberIs`: among one number more
  than there are names, one is free); for mappings, that the rows kept are those that count so far (`Settled`).

`FunctionsAlwaysAgree`, `FilesAlwaysConsistent`, `GoodAlwaysKept` and `RevokedAlwaysRevoked` are the run's properties. The
first is about the inputs of the instance, as the run is; the theorems it rests on are not.

**Forms the provers ask for.** Induction over the length of a sequence is done without an operator parameter, over the
*set* of the numbers for which the claim holds: its complement would have a least element
(`LeastPlace`, `Inductive`, from the well-foundedness of `<` on the naturals). A recursive definition is a `CHOOSE`
of a function that satisfies its equation; `PassExists` builds one, by the same induction, and `PassChosen` concludes that the
chosen one satisfies it. The bound 65535 of a port is expanded in one lemma (`SmallPorts`): the rest of the proofs only uses
that two ports are the same or not. Where two guards of a `CASE` hold at once TLA+ leaves the choice open; TLC takes the first, so no run notices. Two
definitions (`Compare`, `NormalizePortMappings`) said less than the code for that reason, and their guards exclude each other now.

**Model-checked only.** Liveness (`CommandTerminates`, `DisplacedSocketEnds`, `ConvergesUnlessDrifted`,
`RenewalEnds`, `PinnedEventually`, `BootstrapConverges`, `ChainsConverge`, `DnsConverges`): temporal
properties under fairness, out of the prover's reach. Every safety and action property of the passing runs is
proved. The three violations are counterexamples of TLC.

## Findings

Places where the code does not do what its documents, comments or its own other parts say. The first
three are violations a run shows; the others were met while modelling and are either the named
exceptions of a property or outside of what a run can show.

**Commands, sockets, configuration**

1. *"Not executed" may have been executed* (`command_expired`). The sweep in
   `LeaseAgentCommands` also expires leased rows and stores "命令超时未被节点执行"
   (`panel/internal/store/store.go:1940`). A command that ran and whose result is late is
   reported so.
2. *A log viewer that goes away can stop a node's socket* (`uplink_wedge`).
   `handleNodeLogs` returns on a failed write without closing the stream, and a stream
   that is closed is not drained: in both cases the reader of the node's only socket can
   be left waiting for room in a channel nobody reads. Only a new socket frees it
   (`DisplacedSocketEnds`), and the Agent dials a new one only if it notices.
3. *Stale FRPS settings* (`config_sync_stale`). A push over the socket does not update
   the hash `syncConfig` remembers; a later edit that returns to the remembered
   settings, without a socket, is never applied.
4. *A command of a node that never polls again* stays pending, although
   `docs/agent-uplink.md:106` says it is expired at once: the only sweep is in the poll.
5. `docs/agent-uplink.md:116` still lists operations as refused on uplink nodes that the
   WebSocket uplink serves.

**Whole-row writes of older copies**

6. `UpdateNode` with a row read before a dial takes back what others wrote meanwhile: operators'
   edits, reports, and the serial of a renewed or revoked certificate (`EditsKept`, `ReportsWin`,
   `PinnedIsActive` except these writes).
7. `handlePutSettings` restores the old password's hash when it overlaps a change of the password, and
   clears the mark of the one-shot migration to chains; `handleUpdateSubscription` and its kin restore a
   rotated token or a disabled link (`AnswersHold`).
8. `UpdateExternalSource` undoes a refresh that ends between its two statements, and a refresh of the old
   URL that ends after an edit is stored as a success of the new one (`LastGoodKept`).

**Certificates, identity, bootstrap**

9. While a certificate waits for the retry of a failed renewal, no configuration of its node can be built
   (`panel/internal/nodeconfig/builder.go:404`), although `docs/dns-acme.md:48` promises the last valid one.
10. A lost answer to the enrolment leaves a node that cannot enrol again until its serial is revoked
    (`panel/internal/api/install_script.go:134`). `PinnedEventually` is about Agents that have a certificate.
11. A row without a configuration hash that a "start" task marked running passes for synced
    (`panel/internal/batch/bootstrap.go:128`, `Blank` in `BootstrapConverges`).

**Chains and DNS**

12. When the answer of an `ApplyConfig` is lost, neither the rollback nor the bootstrap loop repairs the
    node (`ChainsConverge`); the error of the rollback after a failed write of the chain is dropped. When the last
    write fails (`panel/internal/proxychain/service.go:163`, `:200`) the caller gets an error and nothing is rolled
    back, although `:115` calls the replacement atomic (`DeployOutcome`, "failed"). The handler that enables a chain
    reads its hops before it waits for the Coordinator: an edit answered in between is overwritten.
13. A record that an operator adds after a failed `Upsert` is taken for the Panel's; a record of a type no longer
    used is forgotten when its deletion fails; CNAME records the Panel created are never cleaned up
    (`OwnedAccounted` is about histories without a failing step, and about addresses).

**Sessions and requests**

14. When `BumpSessionVersion` fails, or the Panel stops before it, the password is changed and the old sessions go
    on (`panel/internal/api/handlers_settings.go:132`); a login that overlaps the change gets a session of the new
    version with the old password (`panel/internal/api/auth.go:262`; `SessionsRevoked`).
15. A failed request about a subscription stays half done when its cleanup or rollback fails too, although
    `panel/internal/api/handlers_subscription.go:97` says that no hidden row is left behind (`AnswersHold`).

**Files and formats**

16. Two stagings of an upgrade share their files without a lock (`OnlyVerifiedInstalled`).
17. A stop between two files of the CA leaves what `Open` refuses for good (`OpensAgain`); the command that
    rotates the intermediate opens it first, and cannot be run when it is over. A renewal of the Panel's identity that
    fails between key and certificate leaves two files that do not match until the next one (`IdentityUsable`).
18. An update of an inbound with a protocol and no parameters skips `Fill` (`ListenerMeetsClients`), and one that
    overlaps the enabling of a chain changes its hop (`ChainKeepsRow`); a public key accepted as an alias is not the
    listener's (`Meets`).
19. Links do not carry every password: `parseSSURI` makes a space of the `+` of a generated 2022 key
    (`panel/internal/subscription/parse_links.go:84`), and the others write passwords unescaped
    (`render_links.go:154`, `:172`, `:194`, `:212`). A Reality endpoint without a name gets one in documents only
    (`SurvivesSource`).
20. Links to IPv6 addresses carry two pairs of brackets; sing-box sources lose `insecure`
    (`SurvivesSource`); one endpoint that cannot be written fails the whole subscription, where
    `panel/internal/subscription/cache.go:50` says that failures are soft; a client that hangs up fails the refresh for all
    callers that wait for it.

`PROJECT.json` quotes the lines on both sides of each.

## Not modelled

- *ACME and DNS providers, certificates of the ACME account*: clients of external services. Their outcomes
  are success, failure, and failure after the effect, in `ProtocolCertificates` and `DnsReconcile`.
- *FRP connections and the FRPC bridge*: derived from one inbound and dialled per request; the Panel keeps no state
  of them. The FRPS side is in `ConfigSync`.
- *Push control plane client*: one dial per call. Its outcomes are choices in `BatchRunner`, `ProxyChains`,
  `ConfigSync` and `NodeRows`; the serial it pins is `ManagementPki`'s.
- *Process wiring*: start-up and shutdown order; read to decide which parts run beside each other.
- *Secret store*: encryption with a key read once; no protocol. *Traffic counters* and metrics: values that
  are only displayed. *Audit log*: appended and displayed.
- *The JSON around an inbound, transports, DNS rules, routing groups and templates*: layout, no state of their own;
  what a client must share with the listener is in `SubscriptionFormats`.
- *Web UI, generated protobuf code, the installer* apart from the requests it makes.

Delays, backoffs and dates are nondeterministic or a few ticks. Unsolicited reports on the socket change node
rows only and are reports of `NodeRows`. Several chains on one node, several targets of the job table and several nodes
of one uplink do not meet in the code but through the Coordinator, which the modules that need it have as a lock.

## Plan

Done: the modules above, their runs, and the proofs of every safety and action property of the runs.

Next:

1. An abstract specification of the hub (one current connection, calls answered once) with a refinement, and one of a
   chain's deployment (all hops old or all hops new) for histories without lost answers.
2. A refinement of the job table: what `ProtocolCertificates` assumes of its executions, for any kind of job, so that
   `DnsReconcile` can rest on it.
3. The steps of the liveness arguments that are not temporal: that every step of `ProxyChains` and of
   `ProtocolCertificates` shortens what is left to do, or names the fault that lengthens it.
