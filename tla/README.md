# amagi-codebox: verification of its session control, input path and shared state

amagi-codebox is a desktop application (Go, Wails) that runs command-line AI
sessions in pseudo-terminals and lets paired devices watch and drive them over
the network. Several parties compete for everything it keeps:

- for a session: the desktop window, remote devices whose connections come and
  go, timers, an administrator who revokes devices, a server that stops and
  starts, and the process itself (`internal/remote`, `internal/session`);
- for an input: the outbox that sends it again and the ledger that writes it once
  (`internal/remoteclient`, `session_input_ledger.go`);
- for the server's one listener: starts, stops and the end of the listener;
- for the list of paired devices: pairing, revocation, connections that have
  authenticated already, and crashes between two files;
- for the services that sessions share, a Headroom proxy or the Claude
  credentials: launches, the ends of their runs, reconfigurations, an uninstall
  and the application's shutdown;
- for the Claude credentials on disk: the rotation of accounts, the native
  clients that refresh and log in on their own, and crashes.

The code that decides who may act, and makes sure that what was decided still
holds when the action takes place, is what this project models, checks and proves
about.

- [Inventory](#inventory): the system's parts
- [Plan](#plan): modules, in order; what is done
- [The modules](#the-modules): which code each one stands for
- [The runs](#the-runs): what TLC checks, the bounds, the fairness
- [What the code does against its own words](#what-the-code-does-against-its-own-words)
- [The proofs](#the-proofs)
- [What is not modelled](#what-is-not-modelled)

## Inventory

`PROJECT.json` lists every component with its sources. The ones that carry the
program's own logic:

| Component | State it keeps | Operations | Hard because |
|---|---|---|---|
| Control arbiter (`control_arbiter.go`, `control_types.go`) | per session, under `stateMu`: holder, `controlEpoch`, `holderGeneration`, run, backend, pending intent, current operation, prepared token, grace timer; arbiter-wide: `acceptingRemote`, `acceptanceGeneration`, revoked devices | acquire, release, desktop takeover, force release, grace, revocation, stop and start of remote admission | several methods take `stateMu` more than once or read admission before it; timer callbacks cannot be recalled |
| Control gate (`control_gate.go`, `control_permit.go`, `control_lane.go`) | one lane slot per session, permits, prepared tokens | write, resize, stop, remove, restart, run, launch, bootstrap | a permit outlives the decision it records; a raw effect outlives its caller; quarantine and detach receipts |
| Attachment directory (`control_attachment.go`) | one slot per device and session: live lease, reserved lease, generation | reserve, commit, abort, detach | a reconnect overtakes the notice of the old connection |
| Composite restart (`restart_activation.go`), run observations (`run_continuity.go`) | staged run, buffered output and exit | prepare, no-fail commit, finish, abort, commit an observation | exits arrive while the run they belong to is being replaced |
| Session authority (`internal/session`) | membership, order, revisions, one pending token per session | prepare, commit, abort, guard | a stale token is refused after its effect happened |
| Session adapter (`remote_session_adapter.go`) | the journal and the transaction of each lifecycle | launch, stop, restart, remove, reconcile | an effect succeeded and its commit failed |
| Server lifecycle (`server.go`, `server_security.go`, `start_retry.go`) | the current run, the one being stopped, its listener, what accepts, the service events | start, stop, the shutdown of a run, its acceptance | stops and failing listeners between any two sections of a start; the shutdown waits for an event and others wait for it |
| Device service, revocation ledger, device store, connection registry | an append-only ledger of revocations, a snapshot of the devices, both in memory, a latch; the live connections, a fence per device | pair, touch, revoke, load, recover; authenticate, register, cut | crashes and failed syncs between two files; a connection authenticated before its revocation and registered after |
| Causal hub, event feed, snapshot replacement | ordered records, cursors, cutovers | publish, attach, replay, resync | gaps and duplicates between snapshot and live feed |
| Session journal, removal garbage collection | intents and outcomes | begin, finish, retry | intents without outcomes |
| Shared service coordinator (`shared_coordinator.go`) and the application around it | claims, leases, the ticket of a transfer, mutations, a drain; the registry of leases that somebody releases | claim, lease, transfer, release, mutate, uninstall, close | a launch fails anywhere and undoes what it did; a restart hands its leases over; releasers overtake each other; shutdown closes all of it |
| Input ledger and client outbox (`session_input_ledger.go`, `internal/remoteclient`) | accepted inputs, unacknowledged inputs | send, reserve, acknowledge, replay | an attempt is answered late, twice or never, over an old connection or a new one; stopped timers still call back; the writer outlives its caller and its session |
| Claude account rotation (`internal/claudeaccounts`) | three native slots, a pool of snapshots, a swap journal, a refresh intent | swap, capture, harvest, adopt, remove, recover | native clients write between any two reads; crashes between two stores; a refresh that was answered and not stored |
| Cleanup store, WSL supply, launch planning | a reservation journal, a supply transaction | reserve, replay, commit, compensate | crashes between two stores |

How they interact. A request enters through HTTP or the WebSocket protocol and
is authenticated; the adapter asks the Manager for a token (lifecycles) and the
gate for the session's lane; the gate mints a permit under `stateMu`; the raw
effect runs in a goroutine that calls `Checkpoint` before each irreversible
step; the caller waits for it within a budget and then finishes, or seals a
prepared token which is committed inside the Manager's critical section. The
PTY reports exits and detach receipts through callbacks. A canonical input is a
write whose raw effect first reserves its MessageID in the session's ledger and
acknowledges it after the write; the client's outbox sends one input at a time,
again and again, until it is acknowledged or frozen. The attachment
directory tells the arbiter of lost connections. Revocation and server stop
fence, wait for a sealed commit, terminate connections and release the holder. A
revocation is written to the ledger and the snapshot first, then the device's
connections are cut. A launch that depends on a shared service claims it before it
touches anything; its lease belongs to the run and is released by whoever sees
the run end first. The rotation of accounts swaps the credentials under such a
claim's opposite, a mutation.

What makes each correct:

- arbiter: every change of controlling authority opens a new tenure; a removed
  entry is final; a holder in grace is always covered by a timer that matches;
- gate: no irreversible effect for a caller who lost control, whatever happened
  since the permit; the lane is released exactly once on every path; two effects
  never share a backend; every call returns;
- lifecycles: a sealed token still owns what its no-fail commit installs; an
  intent never dangles; a process that is gone is not presented as running;
- stop and revocation: nothing of a fenced party reaches a process; both end;
- input: an input reaches a terminal at most once and is confirmed only if it
  did; inputs keep their order; whoever reserves an input resolves it; what may
  still be sent again will be;
- server: one run at a time; nothing accepts for a run that was stopped; its events
  come in order; nobody waits for ever;
- devices: a revocation that was synced is in force after any crash; memory and
  files agree; a revoked device is served by no connection;
- shared services: a change has the service for itself; users agree on a
  configuration; no lease is lost; a stop returns when the leases are gone;
- accounts: a snapshot holds its own user's grants; nothing a client wrote is
  replaced before it was kept; a journal is closed by slots that agree;
- the parts not modelled yet: see the plan.

`hazards` in `PROJECT.json` gives the line where each danger bites and the
property that would catch it.

## Plan

Most important first. Done in this version: 1 to 11.

1. `ControlEntry`, `ControlArbiter`: who controls a session.
2. `ControlGate`, `ControlLifecycle`: what a caller may do to the process.
3. `ControlSession`, `MCControl`: their composition, properties and instances.
4. `ControlTokens_proofs`: type correctness of the composition, ownership of lane,
   tokens and intent.
5. `ControlPromises_proofs`, permits: effects only for their holder and one at a
   time, the fence of a server stop, tenure and the tombstone.
6. `ControlPromises_proofs`, the run: no ghost, the close of a fenced restart, the
   timer of a grace.
7. `InputOutbox`, `InputLedger`, `InputExchange`: the canonical input path, with
   at-most-once delivery as the abstract specification `AtMostOnceInput`;
   `InputExchange_proofs`: the refinement, one input on its way at a time, and the
   order of the inputs that reach one terminal.
8. `AccountPool`, `AccountRotation`: three slots, a pool and crashes, with
   `AccountRotation_proofs`.
9. `DeviceFiles`, `ConnectionRegistry`, `DeviceStore`: the ledger, the snapshot and
   the connections under crashes, with `DeviceStore_proofs`.
10. `ServerLifecycle` and `ServerLifecycle_proofs`: stops and starts that overlap.
11. `SharedCoordinator`, `SharedLaunches`: claims, leases and transfers, with
    `LaunchMoves_proofs` and `SharedLaunches_proofs`.
12. `ExclusiveControl`: the abstract promise of the control plane (one holder,
    tenures, effects by the holder only) and `ControlSession` shown to implement it.
13. `LaunchGate`: run, launch and bootstrap permits, initial activation, the
    shutdown of the runtime.
14. `SessionAuthority`: the Manager's membership, ordering, revisions and tokens,
    with the composite commits and the session journal.
15. `RunContinuity`, causal hub and snapshot replacement: no gap, no duplicate.
16. `CleanupStore`, `SupplyCoordinator`: reservations and compensation.

Every safety property of the runs that is expected to hold is a theorem. What comes
next is the refinement of 12.

## The modules

Within each part (control plane, input path, accounts, devices, server, shared
services) a module extends the one before it; `map` in `PROJECT.json` gives the
lines of every definition.

| Module | Models |
|---|---|
| `ControlEntry` | the variables: one session's `controlEntry`, the arbiter-wide admission state, the attachment slots, the Manager's token; the helpers under `stateMu`: `CommitTransition`, `TakeDesktop`, `Quarantine`, `FencedCurrent`, `PermitCurrent` |
| `ControlArbiter` | attach, detach, grace, acquire, release, force release, revocation, server stop and start |
| `ControlGate` | entering a call, the intent of a lifecycle, the lane with its two ways to give up, permits, the raw-effect goroutine with its checkpoints, its timeout |
| `ControlLifecycle` | seal, composite prepare, the three no-fail commits, finish, abort, reconcile; process exit and detach receipt |
| `ControlSession` | `Next`, fairness, the type invariant and the properties |
| `MCControl` | instances for TLC |
| `ControlTokens_proofs` | proves type correctness, and who owns the lane, the tokens and the intent |
| `ControlPromises_proofs` | proves what a permit is worth while its generations are current, what becomes of a run, and from both the promises made to a session's users |
| `InputOutbox` | the client: the outbox of one session under its mutex, its timers, and the connection loop that pauses, resumes, freezes, halts and disposes it |
| `InputLedger` | the server: the read loop of each connection, the gate as an input meets it, the goroutine that reserves, writes and commits, the ledger; takeover, restart and removal of the session |
| `AtMostOnceInput` | the abstract promise: an input is delivered at most once and confirmed after that |
| `InputExchange` | `Next`, the type invariant and the properties of client and server together |
| `MCInput` | symmetry for TLC |
| `InputExchange_proofs` | proves the types, the refinement of the promise, the ownership of pending entries, the outbox's single flight and the order of what a terminal is given |
| `AccountPool` | the three native slots, the pool document, what the authorization server has issued; the native clients |
| `AccountRotation` | the transaction service: swap, enrollment, capture, harvest, adoption, removal, recovery, with failed steps and crashes |
| `AccountRotation_proofs` | proves the pool's soundness in the store and in memory, and the properties that rest on it |
| `DeviceFiles` | the revocation ledger and the snapshot: appends, syncs, truncation, the rename; what a kill or a power loss leaves |
| `ConnectionRegistry` | registration, the fence of a device, the latch, the cut; what `RevokeDevice` does once the store has answered |
| `DeviceStore` | load, initialise, recover, pair, touch and revoke, step by step; start and stop of the server; the properties |
| `DeviceStore_proofs` | proves the properties of the store and of the cut |
| `ServerLifecycle` | `Start`, `Stop` and the shutdown of a run, one section under the mutex at a time |
| `ServerLifecycle_proofs` | proves its types and the safety properties of the run |
| `SharedCoordinator` | the coordinator: one operator per operation |
| `SharedLaunches` | its callers: creates, restarts, desktop launches, the ends of runs, mutations, the uninstall, shutdown |
| `LaunchMoves_proofs` | the programs of the launches: what each step leaves of them; the inductive invariant, and the facts about single operations of the coordinator |
| `SharedLaunches_proofs` | proves that invariant, and the properties |
| `MCAccounts`, `MCDevices`, `MCServer`, `MCShared` | instances for TLC |

### Control plane

One session is modelled: entries never lock each other and share only the
admission state, which is here. A critical section of the code is one action. A
method that reads shared state before it takes `stateMu`, or takes it twice, is
one action per section (`AcquireCheck` and `AcquireCommit`; `ForceCheck`,
`ForceTake` and `ForceRelease`; the four steps of a server stop). A call is two
processes, as in the code: `pc` is the caller's goroutine and `raw` the effect's
goroutine, which goes on after its caller timed out.

Correspondences that are not one to one:

- `runEpoch` stands for the pair `currentRun`, `runEpoch`; it is 0 after removal.
- A permit is the tuple of generations that `Checkpoint` compares. The token's
  `resolved` channel is the caller's place (`TokenUnresolved`).
- `mgr` is the Manager's pending lifecycle token and `stale` says that the
  revisions it was prepared with have moved; `acq` is the Manager's guard while
  an Acquire runs inside it.
- The lane's wait has a budget and a context whose deadline equals it; Go's
  `select` may take either, so both `LaneTimeout` (which quarantines) and
  `LaneCancelled` (which does not) are actions.
- `post` is the pair of flags a revocation or a server stop sets on a prepared
  token.
- `CloseExact`, the launch of a process, exits and detach receipts are the
  operating system's: they succeed, fail or never come.
- `DetachSession` kills a process to isolate its backend; the kill is covered by
  `ProcessExit`, which may happen at any time.
- A call is used once. Lifecycles, when begun by a device, are authenticated
  (`stopPc = "serving"`, not revoked) when they begin; they may wait for ever
  after that.

### Input path

The input path is one device and one session. A wire attempt is a pair of an input
and a number: the code draws both identifiers at random, and random identifiers
are taken never to repeat or to fail. Correspondences that are not one to one:

- `timer` says whether `o.timer` refers to a timer; `due` counts the timers that
  are armed or whose callback waits for the mutex. `Timer.Stop` does not recall
  such a callback, so a stop may leave it (`Stopped`), and its callback then
  drops the reference to whichever timer is armed by then (`RetryDue`).
- The 30 second window is `WindowElapses`, which may happen any time after the
  first attempt; it is recorded only where it can still stop one.
- `toServer` and `toClient` are one ordered channel per connection. Either end
  may give the connection up at any time (`ReadError`, `ServerDrop`), which loses
  what is under way; a frame that cannot be written is lost with it.
- `client` is where `run` is: `"backoff"` is the wait before the next dial after
  an attached connection broke, when the state shown is still attached and
  `SendInput` passes its check; `typing` is a `SendInput` between that check and
  `Accept`. A revocation and the closing codes that end a session are one event,
  `Terminal`.
- `link` is the server's view of a connection, `lease` the live attachment. The
  client's idea of control may lag behind the server's `held`, so the client only
  looks at its own connection state.
- `phase` is the place of an attempt, first of the read loop's call (`"lane"`),
  then of the raw effect's goroutine. When the call gives up (`RawTimeout`) the
  goroutine goes on with a context that is done (`cancelled`), which `WriteRaw`
  looks at once, before it writes.
- A removal replaces the ledger. A goroutine that had reserved keeps the ledger it
  has (`orphan`); one that had not reserves in the new one and then finds no
  session to write to.
- A write that fails may have reached the terminal or not.
- The gate is reduced to what an input can tell of it: lane, current permits,
  quarantine, who holds the session. A permit that any fence would make stale is
  taken out of `current`. `ControlGate` has the gate in full.
- All inputs are charged alike, so the byte limit is a number of inputs.

### Accounts

A slot is an account and the version of its grant; a refresh, by whomever, makes
the version before it worthless. `withLocks` serialises the service's operations,
so one runs at a time, cut into a step per write to a store together with the reads
that decide it; the native clients write between any two steps.

- A step fails as a whole (`StepFails`), and so does a save, except that a patch or a
  save may have taken effect with its read-back failing. A crash keeps the stores
  and loses the rest; recovery begins the next operation.
- A login of Claude Code writes its keychain item and `.claude.json` in one step.
- `Twins` are accounts of one user in two organizations: the harvest compares the
  user only, as the code does.
- The running-sessions check and the fingerprint gate are steps that may refuse.
  `RenameAccount` touches nothing modelled.

### Devices

The ledger's hash chain is modelled by the sequence of revocations it stands for.
A line that was written and not synced is lost or kept by a power loss (`log`,
`dur`); after a failed sync it stays readable and a later sync makes all of it
durable. A rename is durable once the parent directory was synced; until then a
power loss brings back any of the older snapshots (`olds`).

- The temporary file stands for all of them: their budget is one.
- One `RevokeDevice` runs at a time, as the desktop calls it. A server start and a
  server stop are one step each here: `ServerLifecycle` has them in full.
- The pairing window, the duplicate and epoch checks of `Register`, and the
  maintenance permits are left out; which fresh identity a pairing draws does not
  matter (`FreshID`).

### Server

A section under the server's mutex is one step; what happens between two sections
is where others interleave. Of the pairing service, the registry and the control
plane the module keeps whether they accept. `ServeEnds` is both a failing listener
and the cancelled context of a stop, which may be noticed at any time. The store is
ready; the maintenance gate is left out.

A `Stop` that finds no current run while another shutdown is at work returns at
once, as the code does: `App.Shutdown` may then close the security state before the
stopped event is written (`app.go:2279`).

### Shared services

Every operation of the coordinator is one critical section, hence one operator. A
claim and the lease it becomes are named by run and kind. A launch is a list of
steps; a step that fails replaces the list by what undoes the steps before it.
A releaser (the exit of a run, a stop, a watcher, the undoing of a restart, the
shutdown) moves leases from the registry to its hand and drops them one by one.

- The compensating stop of a proxy runs outside the lock: its authorization and the
  stop itself are two steps (`Authorize`, `RawStop`). A proxy whose `Mark` fails
  after a shutdown is left running, as in the code.
- `FinishLeaseTransfer` and `AbortLeaseTransfer` read `consumed` without the lock
  and close the channel under it: with a `ClearAll` in between the second close
  panics. `Resolved` models it: the launch's goroutine goes no further.
- A desktop launch that does not use Headroom stops it without asking anyone
  (`ServiceStops`), and one that uses it takes whatever runs, or starts it for its
  own upstream (`Use`). `OneConfig` compares the leased service with what its run
  leased, and leaves out a proxy that stopped or that a desktop launch needs.
- The close of a process may stay unconfirmed (`ClosedUnsure`): the exit is still to
  come, or is refused and lost. A restart goes back then (`CloseFails`), a stop
  returns an error (`StopFails`), which is also what a gate's denial and a refused
  commit do. The run becomes unavailable, its leases stay registered, and nobody is
  set to release them. It stays the Manager's: a late exit, another stop or another
  restart still takes it, so `live` keeps it. After a confirmed close the restart
  has released the leases and the binding, and the run is gone (`reconcile`).
- The registry counts as a releaser. `NoOrphanLease` and `NoOneWaitsForEver`
  therefore accept the leases of such an unavailable run: the first asks that
  somebody can still release a lease, the second speaks of runs whose exit the
  Manager accepted.
- Left out: a restart of a session whose run has ended or been stopped,
  runs of the external launcher and their records, the `codex` global
  configuration, the reservation for absent credentials, the sweep of the removal
  queue, and the second close of a restart that a fence met after its commit.

## The runs

Deadlock checking is off everywhere: calls are used once, and inputs, connections
and attempts are bounded, so the instances may really stop.

| Run | Instance | Shows |
|---|---|---|
| `Ownership` | 2 devices, 2 connections each, 1 force release, fair | grace always has a live timer, and ends; a new holder is a new tenure |
| `Fences` | 1 device, 1 call of any kind, a revocation, a server stop and start, fair | no device write while stopped; a restart met by a fence leaves no run presented as running; stop and revocation end |
| `Calls` | 1 device, 2 calls of write, stop, remove, restart, fair | no run without a process; lane, tokens and intents have their owners; effects never share a backend and only for the holder; the tombstone is final; every call returns |
| `InputRetry` | 1 input, 2 attempts, 2 connections, 2 runs, 1 takeover, a removal | a pending entry has its owner; the exchange implements at-most-once delivery |
| `InputOrder` | 2 inputs, 2 attempts each, 2 connections, 1 run, a removal | one input on its way at a time; inputs keep their order |
| `Accounts` | 2 accounts, 2 operations, 2 logins, 1 refresh, 1 fault, 1 crash, fair | slots move together; snapshots are their own; nothing is overwritten before it was kept; a journal settles, and ends |
| `Devices` | 3 identities with room for 2, 1 connection, 2 troubles, fair | revocations survive; memory and files agree; only damage latches the store; a revoked device's connections are cut |
| `Server` | 2 starters, 1 stopper, 3 listeners, fair | one run; events in order; nothing accepts for a stopped run; calls end |
| `Shared` | 2 launches of any route, 1 proxy and the credentials, 2 configurations, 1 trouble and a shutdown, fair | changes are exclusive; one configuration, and it is the one that runs; no lease or transfer is lost; a stop discharges; nobody waits for ever |
| `StaleGrant`, `LateRestart`, `LeakedClaim` | the smallest instance that has the behaviour | the disagreements below |

Bounds. `MaxEpoch` guards only the steps that open a new round of control
(acquire, force release): no other step is cut, so no behaviour is stopped half
way and generations go beyond it. With `MaxEpoch` 2 a device acquires, loses
control and another device or the desktop takes it, which is what a permit has to
survive; with 1 only the desktop does. `MaxLease` 2 gives a device a reconnection while the notice of its first
connection is still under way (`Ownership`); elsewhere 1 is enough
because a lost holder already covers grace and expiry. Two calls are what the
interesting races need: one that is stuck, timed out or sealed, and one that takes
the lane after it. `MaxStops` 1 is a stop followed by a start. `CloseKinds`
chooses lost transports and protocol closes. Symmetry is used only in `InputOrder`,
over its two inputs.

In the input runs two attempts over two connections give a retry on the same
connection and one on the next, each with the first attempt still anywhere
between its frame and its acknowledgement; a third would meet no other kind of
predecessor, and the proof covers any number. `MaxRuns` 2 is a restart between
the attempts; order within a terminal needs only one run, and control that is
lost and won back is left to `InputRetry`. `MaxTakes` bounds takeovers by others.
The limits `MaxEntries`, `MaxTotal` and `LedgerMax` refuse an input and change
nothing; they are not reached in these instances, where they would only hide the
inputs whose order and delivery are the question, and the proofs hold for every
value of them.

Two accounts are a source and a target; `StaleGrant` needs a third. Two logins are
one before and one during an operation, and one fault with one crash is a recovery
that is itself interrupted. Two troubles (a failed read, write, sync, rename or
removal, a kill, a power loss) are a failure and the crash that meets its
aftermath; room for two devices with three identities fills the ledger and asks for
one more. Three listeners and two starters let a start meet the stop of the run
before it and the start of the run after it. Two launches are a run and whoever
succeeds it, shares with it or comes after it; the trouble is one of a failed start
or commit, an exit, a stop, a mutation, an uninstall or a proxy that dies, at any
point, and the shutdown comes in addition. The launches begin in the order of their
numbers and the first asks for the first configuration: the others are renamings.

Fairness (`Fairness` in `ControlSession`) is weak and is given to what the Go
runtime schedules once begun: a call's goroutine with its timeouts, a timer and
its callback, an Acquire in its guard, a revocation and a stop in progress. Users
need not act, connections need not be lost, and raw effects, detach receipts and
process exits need not happen: `CallsReturn` holds with effects that hang for
ever. Elsewhere fairness is weak as well:

- accounts: the steps of an operation that runs, the recovery of an open journal
  (by the next start or the user's next operation) and the release of a native
  client's lock; nobody need ask for an operation;
- devices: the store's steps and the steps of a revocation or a connection, which
  run under no wait but their mutexes;
- server: the sections of a call once begun, and the steps of a shutdown, whose
  waits the code bounds (five seconds for the HTTP server); a start need not give
  up, a listener need not end;
- shared services: all goroutines together (`Work`). A launch, a release, a stop
  and a shutdown have finitely many steps, so fairness to all of them is fairness
  to each. Mutations and uninstalls may take for ever.

Two properties have an exception, written in their antecedent, and the proofs show
that it is the only one.

- `NoGhostRun`: when a restart commits over a quarantine, the new run's observations
  carry a backend generation that is no longer current, its exit is dropped and the
  session is presented as running for ever.
- `GraceHasTimer`: once a removal of the session has been sealed. The seal takes the
  timer and makes a callback that already started pass; an abort gives neither back.

Two are stated for what the code promises and no more:

- `FencedRestartCloses` speaks of the run that the restart published and of the one
  it set out to replace. A restart that failed gives the Manager's token back before
  it reconciles, so another restart may publish a run of its own in between, which
  is then running when the first one returns.
- `SlotsMoveTogether` compares users, not accounts. `AdoptCurrentLogin` finds the
  account of the current login by its UUID, so it may take a login for another
  organization's account of the same user.

## What the code does against its own words

Three runs end in a counterexample; each quotes the sentence it contradicts.

- `StaleGrant`: a refresh was answered and its answer not saved. What remembers it
  is the pool's one refresh intent, and the refresh of another account replaces it:
  the first account's grant, which the server may have rotated, is taken for ready.
  `harvest.go:375` says that it is marked uncertain.
- `LateRestart`: `Start` tells the control plane to accept outside the mutex. A stop
  in between has fenced it already, and it stays open with the server stopped.
  `control_hooks.go:19` puts `RestartRemote` before acceptance.
- `LeakedClaim`: when the activation of a remote create cannot be sealed or
  committed, its leases are released and its claims are not. They refuse every later
  launch with another configuration until the application restarts.
  `shared_coordinator.go:134` says that callers release them on every path.

Met while modelling, and in the models as the code has them, without a run:

- a device's stop or restart that waited for the lane across a server stop mints
  its permit after the fence (`control_gate.go:1430`): lifecycle permits do not look
  at `acceptingRemote`;
- Acquire reads admission, lease and revocation before `stateMu` and not again
  (`control_arbiter.go:413`), so it may install a holder after `ReleaseAllRemote`.
  No property forbids that holder itself; `NoDeviceWriteWhileStopped` says that it
  writes nothing before the next start;
- a restart that commits over a quarantine makes the backend healthy without a
  receipt (`restart_activation.go:247`), which is the case `NoGhostRun` leaves out;
- an exit that is refused while a lifecycle token is pending is not repeated
  (`control_runtime.go:1521`);
- aborting a sealed removal does not arm the grace timer again
  (`control_gate.go:1302`);
- bootstrap writes check the launch but not `runPhase` (`control_gate.go:1581`);
- the outbox never gives back what it charged (`outbox.go:207`), and its one timer
  is stopped by a late acknowledgement of another input (`outbox.go:334`);
- a commit line that a restart finds is never synced (`revocation_ledger.go:199`):
  a second power loss may take it, which is why `OnlyDamageLatches` speaks of the
  first;
- an error that latches the store latches the device service only where it is
  returned as indeterminate (`device.go:1050`);
- a `Start` that meets a run being stopped, with `running` still set, returns
  success (`server.go:197`);
- the late sweep of a desktop launch's watcher releases every lease of the session,
  those of a restarted run included (`app.go:2803`).

Three things a reader may trip over, which no run states: between the takeover and
the release of a force release the mutex is free and a device may acquire, though
`control_arbiter.go:742` calls the window closed;
`commitPreparedControlRemoveNoFail` installs the control epoch computed at the
seal, so a TakeDesktop in between makes the epoch go back (the tenure still
advances and the entry is a tombstone); and phase 1 of a lifecycle fences the
operation in flight before anyone has checked who is calling.

## The proofs

The proof modules are about `Spec` for any sets of devices, calls, inputs, accounts,
connections, runs and services, and any bounds. Those of the control plane use only `ConstantsAssumption` (the desktop,
"no device" and "no call" are distinct from the members of their sets; kinds are
kinds), those of the input path only `InputConstants` and `LedgerConstants` (limits
are numbers, at least one attempt, connection and run; "no input" is none). Those of
the accounts use `AccountConstants` (the accounts in the pool at the start are
finitely many), those of the devices `BoundsAssumption` and `RoomAssumption` (there
are at least as many identities as may be known), those of the shared services
`KindsAssumption` and `LaunchesAssumption` (finitely many proxies; the route, plan
and wishes of a launch are of their sets), those of the server `RunsAssumption`
(the bound is a number). TLC evaluates them in every run.

`ControlTokens_proofs` first proves `Spec => []TypeOK`. `TypeOK` is not inductive alone:
that a slot's lease was handed out needs the reservation's generation not to exceed
the slot's counter, and that an Acquire installs a device needs the guard's argument
to be one. `TypeInv` adds the two (`AttachInv`).

It then proves `LaneOwned`, `PreparedOwnsSession` and `DrainOwned`,
together `TokensOwned`.
The code keeps five references to a call: the lane, the current operation, the
prepared token, the Manager's token and the intent. Several of them are replaced
or cleared without being compared (`mintOperationPermit` overwrites the current
operation, `ReleaseManager` does not look at the lane), so none of the three
properties is inductive. `TokenInv` ties each reference to the places its owner may
be at: the current operation's owner has the lane, so nobody else mints; a prepared
token's owner is between its seal and its resolution; a lifecycle between its intent
and its commit has the Manager's token, so no second lifecycle records an intent.
Steps that move no call are covered by one lemma (`TokensQuiet`), since they can
only close the intent; each step of a call has its own.

`ControlPromises_proofs` first proves what makes a checkpoint sufficient. A permit is
compared with the entry by generation numbers alone, so the question is what equal
numbers say about the caller. `PermitInv` answers in five parts:

- `PermitBehind`: a permit's generations never run ahead of the entry's;
- `PermitHolds`: where they are equal, the caller still holds the session (a data
  call on the very attachment it was admitted on), admission has been open all
  along, and an effect still running has its caller waiting for it. Every change of
  holder moves the epoch, every change of admission its generation, and every way
  of giving up an effect quarantines the backend, so a step either leaves both sides
  alone or breaks the equality (`PermitsAge`, `PermitsAlone`);
- `HolderInv`: the one transition that gives an old epoch a new attachment is a
  reconnection, and it can only find the epoch of its reservation with its own
  device still holding;
- `EntryInv`: a removed entry has neither holder nor run, and no call is sealed on
  it; admission is open exactly while the server serves;
- `SealInv`: a no-fail commit of a removal installs numbers that were fixed at the
  seal. They are safe because a sealed removal refuses every transition (the
  desktop can only refresh its own epoch) and keeps the lane, so the tenure stays
  what it was and no permit is minted with the backend that will be installed.

From this it draws the theorems about steps. A step that starts an
irreversible effect is one of three checkpoints (`EffectIsChecked`), a checkpoint
passes on equal generations (`CheckedIsHolder`), hence `AdmittedByHolder` and
`NoDeviceWriteWhileStopped`; two effects on one backend would both have their caller
in the lane, hence `SerialEffects`; `TenureAdvances` and `TombstoneIsFinal` go by the
actions that write the holder or the tombstone.

The second half of the module is about the run. `NoGhostRun`,
`FencedRestartCloses` and `GraceHasTimer` all say that somebody will still act on
something: close a run, undo a commit, end a grace. None is inductive, since each
speaks of the moment when that somebody is done. `RunInv` adds who it is:

- `GhostIsMet`: a process that is gone while its run is presented as running has a
  lifecycle that will make that very run terminal (`WillClose`): it is at its
  reconcile, on its way there, or sealed for a stop or a removal;
- for `WillClose` to survive other calls the run must stay the one the permit names:
  only whoever has the lane or the Manager's token changes it (`OwnRun`), and only a
  device's restart, with the Manager's token and the run hidden, stages another
  (`Stages`);
- `QuarantineEnds`, `Abandoned`: a quarantined backend never carries a running run,
  an effect that was given up keeps its backend quarantined, and no restart that
  would end the quarantine is under way or can begin;
- `Commits`: what a seal relies on, and that a stop or a removal leaves its run
  closed;
- `FencesTold`: a revocation or a stop that waits for a sealed call has left its
  mark on it, so a restart's finish goes to the close;
- `GraceInv`: a grace is a device's, and its timer is the one armed for it.

A step of one call leaves the parts that speak of the others alone (`OthersStay`);
`RunQuiet` lists what each part reads, and covers every step that writes none of it.

`InputExchange_proofs` proves that `InputExchange` implements `AtMostOnceInput`
(`InputIsAtMostOnce`) and that a pending entry has one owner (`PendingIsOwned`).
The promise mentions only what was delivered and confirmed, but keeping it takes an
account of every place an input may be at. `IInv` gives it in three layers:

- the wire: an attempt that was not made is nowhere, and one that waits on a
  connection waits there once and has not been read (`Unmade`, `FramesOnce`), so the
  server reads an attempt at most once and each has one goroutine;
- the ledger: a goroutine that has reserved owns a pending entry, nobody else owns
  that entry, and a pending entry has an owner (`Ownership`, `Owned`); until the
  removal whatever is not in the ledger, and whatever is owned and not yet written,
  has not reached a terminal (`Remembered`); at most one goroutine, orphans
  included, is about to write an input, and it was not written before (`WritesOnce`,
  `Orphans`); what is committed was written (`CommittedReached`);
- the answers: an acknowledgement under way speaks of an input that reached a
  terminal (`AckInv`), and only connections that were dialled have a frame
  (`Dialled`).

A removal is the hard case: it forgets the ledger while goroutines still hold the
old one. They may write what they had reserved; nothing new is written, since
`WriteRaw` finds no session. A delivering step then maps to `Deliver`, an
acknowledgement that settles an input to `Confirm`, all others to stuttering.

`SingleFlight` (`OneInFlight`) rests on the queue alone. `QueueInv` says that an
input stands in the queue at most once and behind those accepted before it, and that
while an input waits nothing accepted after it was sent. The queue loses inputs in
the middle, when a late acknowledgement settles one that is not the head; what was
second then becomes first, and the proof needs no more of `SelectSeq` than that it keeps the
order of what it keeps.

`InOrder` (`InputsKeepOrder`) is the property with the longest way to go: an input
may be frozen or given up by the client while it waits on an old connection, in the
gate, or in a goroutine whose call has timed out, and the next one overtakes it.
`OrderInv` follows it:

- `Pausing`, `Greeted`: the outbox is paused until the attach is confirmed, so an
  input is only on connections whose attach the server has handled. This is what
  makes an old connection useless: its attachment is replaced for good;
- `Fifo`: the client sends nothing accepted before an input that it has sent
  (`ClientSends`, from `QueueInv`), so a connection carries, and its read loop reads,
  inputs in the order they were typed;
- `Calls`: a read loop waits for its call, so two calls come from two connections,
  and a goroutine has the lane or its context is done;
- `Writers`: a write whose call was given up goes to a run whose backend is
  quarantined, or that is over. Nothing else is minted before the restart, so no two
  writes go to one run;
- `Overtaken`: once an attempt has its permit, no attempt of an earlier input will
  begin to write: it has written, its context is done, or it is on a connection
  whose attachment is not the live one (`Spent`, which no step undoes);
- `Deliveries`: so a write that has begun is of an input typed after all that its run
  was given, and what it delivers is in order.

`ExchangeTypes` adds the bounds that the other invariants have no use for: no attempt
beyond `MaxAttempts` is sent, and a timer is never stopped twice.

`ServerLifecycle_proofs` proves the types of the server's life cycle and, for any
number of callers and listeners, `EventOrder`, `OneRun` and `AcceptsForARun`. None of
the three is inductive: each speaks of a run's place and is kept by the places of
those who may move it. `IInv` says where they are: one start at most is between the
gate and its publication, with no run current or stopping beside it (`Gate`); until
the publication nobody else knows the run (`Publisher`), and nobody else carries on
an accepted one (`Followers`); every run but the newest is over, and the newest is
being published, current or the one that is stopping (`Places`); a shutdown does not
get past an accepted run's started event (`Awaited`), and the log agrees with where
the runs are (`Logged`). The run that a start carries from publication to acceptance
is therefore either still current, or a stop has begun its shutdown and the
acceptance refuses it.

`AccountRotation_proofs` proves all safety properties of the accounts. `RotationInv`
says that the pool in the store is sound by itself at every moment (`PoolOK`): it
decodes, its snapshots are of their own users, and an open journal stands between
the snapshots of its source, which is active, and of its target. A crash keeps the
stores and loses the rest, so this part must not need an operation that knows what it
was doing. What a running operation relies on from its earlier steps is `Places`:
that no journal is open before it opens its own, that what it has read of the slots
is what the journal's `before` says or what the snapshot keeps, that memory and store
agree except while it saves progress. `SlotsMoveTogether` and `SnapshotsAreTheirOwn`
are parts of it; `OverwrittenIsKept` and `JournalSettles` follow for the two steps
that write a slot or close a journal.

`DeviceStore_proofs` proves all safety properties of the devices. `DeviceInv` relates
what there is of a device's revocation: the ledger file and what of it is synced
(`LogInv`), the snapshots that a power loss may bring back (`Room`, `Orderly`), the
memory (`SnapInv`) and the connections (`Fencing`). `Room` is what lets a revocation
succeed: whichever snapshot comes back, its devices and those of the ledger fit the
ledger's limit together, because a pairing is refused when both together would exceed it.
`Orderly` holds until something has failed and is why `OnlyDamageLatches` speaks of
the first restart. `TombstonesStay` follows because what is synced is a prefix of
what the file holds, and a truncation takes only an unfinished line.

`LaunchMoves_proofs` and `SharedLaunches_proofs` prove all safety properties of the
shared services. A launch carries the list of what it has left to do, and most of
what one wants to say of it is where in that list something stands: `Programs` says
that the list is in the order of the steps, fits the route and the plan, and
remembers what was taken. The first module proves what a step and a failure leave
of such a list. The invariant then ties the coordinator's sets to the lists: a
service is used only under a claim (`UsesClaimed`), a claim becomes a lease before
the commit (`LeasesAhead`), a lease that is not promoted is its launch's to commit or
to give back (`Leasing`), a promoted one is in the registry, in a releaser's hand or
about to be registered (`Registered`), and the ticket is intact from its reservation
to the commit (`Tickets`). A launch finds or starts its proxy under the claim and in
the planned configuration, and it stays so until the lease (`Fitting`), which is how
`OneConfig` gets from the coordinator's books to the service. `Exclusion` says that the callers' idea of who changes a
service is the coordinator's. After the shutdown cleared the coordinator most of this
is void, and what is left is `Closed`.

Two things came out of the proofs. The refresh sends the token that the target's
snapshot holds, so its answer is a new grant of the account that the token belongs to,
which may be another account of the same user: `PostPi` and `RefreshResult` had the
target's. And the exceptions and limits named under "The runs" were met as steps that
break an invariant; TLC then showed each of them on a larger instance.

Model-checked only:

- liveness (`CallsReturn`, `GraceResolves`, `FencesComplete`, `JournalEnds`,
  `RevokedIsCut`, `CallsEnd`, `NoOneWaitsForEver`), which the prover does not reach
  under fairness.

## What is not modelled

- The launch, run and bootstrap permits, initial activation and shutdown; the
  legacy lifecycles that commit without a prepared token (production uses the
  prepared ones); `ReleaseDesktop` and `ClearStopped` on their own.
- A second desktop source, the control plane's health latch and the overflow of a
  generation: counters are 64-bit in the code and unbounded here.
- Legacy inputs (per-connection identifiers, no acknowledgement); other frames of
  the protocol; `ReleaseUncalled`, which a server with a PTY never calls; a random
  source that fails; degraded and read-only client states, which only refuse.
- A process that starts after its restart gave up: it belongs to no entry.
- Data races on `isEntryPublic`: each read is atomic with the section it belongs
  to, except where the gap is a step of its own.
- The contents of messages, journals, events and files, and every component that
  `PROJECT.json` lists as not modelled, with its reason.
