# Lychee Dev: TLA+ specifications

Lychee Dev lets command line programs on a desktop run Lua code in a running
game client and read back what the code reports. The two sides have no pipe
between them. The host writes *slot files* into the addon directory, posts a key
chord to the game window, and reads the addon's records from the client's
memory. The addon can load each slot file once per Lua runtime. A `/reload`
destroys the runtime and everything it knows, and the host program can be
stopped at any point and resumed later from a journal. The business code it
carries must nevertheless run at most once, its report must not be lost, and
the slots, which all connections of an installation share, must not be lost
either. Several programs share such a connection through its journal and
through claims on game windows, and other programs install, upgrade, remove and
reset the addon in the same directories. Finally, Lychee Dev publishes addons and
backups on five platforms whose answers may be lost, and must not publish
anything twice; and it answers questions about a game's source code from a store
of checkouts and caches that programs and a background server share within a
budget. These specifications are about that machinery.

The files here are TLA+ modules, TLC configurations (`MC*.cfg`), proof modules
(`*Proofs.tla`) and `PROJECT.json`, which lists for every definition the source
lines it models.

## 1. Inventory

| Component | State | Operations | Hard parts | What makes it correct |
|---|---|---|---|---|
| Live channel driver, `internal/live/channel` | journal of one connection (`State`): identity, transaction, operation, reload, recovery, last input, bound, closing, proofs, closed; result files | `Connect`, `PrepareRequest`, `Run`, `Disconnect`, `RequestReload`, `stepReload`, `RecoverRuntime`, `finishRecovery`, `closeReplacedRuntime`, `disconnectEnded`; `next` chooses among them | crash at every save; key that may or may not have been posted; runtime that changes under an exchange; end of the game | code runs at most once; result authentic and durable before release; journal always loadable; closing leaves nothing behind |
| Addon slot engine, `addon/Bridge/SlotProtocol.lua`, `SlotRuntime.lua`, `ProbeExecution.lua` | per runtime: next slot, owner, jobs, active and pending job, receipts | wake; bind, prepare, commit, confirm, release, unbind; finish of a job; close | delayed keys; slots of other connections and of earlier runtimes; capacity | no stray refusal; cancel before commit |
| Shared slot pool, `internal/delivery/slots.go`, `slot_route.go`, `slot_retirement.go` | per slot: reservation, recorded and pending hash, consumed and retired marks; the slot files | publish (three writes), verify publication and route, consume, retire runtime or process, inspect | two connections; torn publication; retirement repeated | no drift, no orphaned reservation, a key finds its target |
| Physical input, `input_windows.go` and `internal/desktop` | none of its own | post a key, sample the keyboard | key late or lost | at most one key per exchange |
| Goal budgets, `channel/budget.go` | deadline, last observed time, exhausted | observe, renew | clock that runs back | exhaustion is sticky until another goal is set |
| Channel projects and activation, `project_windows.go`, `activation_windows.go`, `request.go`, `continuation.go` | metadata, journal, activation record; what a program has in memory | connect, execute, resume, disconnect, activate, cancel an activation | state read before the lease, programs that end anywhere, a torn journal | who drives acts on the last event; no request is forgotten or run twice; a cancelled activation stays cancelled |
| Diagnosis, `doctor_*.go`, `blocker.go` | none | inspect, propose | - | proposes only what the driver accepts |
| Window admission, `internal/live/journal/window_owner.go`, `installation_admission.go`, `window_run.go` | markers, gate of an installation, execution lease of a window | begin, publish a claim, lock, retire, maintain | a claim between two durable writes of somebody else; maintenance | a claim for each live connection, one per process, none under maintenance |
| Memory log, `journal/memory_log.go`, `channel/history.go` | chained segments, torn tail | append, repair, checkpoint, search | crash in a write or a checkpoint, segment limits | nothing that preceded an effect is forgotten, and a search never mistakes a gap for absence |
| Work book, `journal/book.go` | stages of an offline work item | record a stage | - | stages only go forward |
| Slot removal and reset, `slot_remove.go`, `slot_reset.go` | intents, directories moved aside | remove, reset, ask again | crash between two renames | no reserved slot is lost, an archive is complete before anything replaces it |
| Managed installation, `internal/delivery/{install,update,upgrade}.go` and others | installed addon, its pool, staged and replaced trees, notes | install, upgrade, resume, update, discard | crash between two steps; another command before the first is asked for again | an addon stays installed or recoverable; a pool that says ready is whole |
| Client memory reader, `internal/live/memory`; bridge records | none | locate and decode records | - | only records of the named runtime |
| Vault, `internal/vault` | files, leases, blobs, cache | replace, lock, store, evict | crash in a write | atomic replacement |
| Source store, `internal/codebase/{worktree,worktree_prune,cache_budget,environment,semantic_cache}.go` | maps, caches, checkouts with manifests, staging, leases | get a map, an environment, relations or a checkout; prune, evict, recover, reclaim | use of a file while another program prunes; bytes added by several; death with staging or half a checkout | within the budget; what is in use is there |
| Source broker, `internal/command/source_broker.go`, and the requests of `batch.go`, `query_semantic.go` | one process, its queue, wake signal and kept checkout | ask, cancel, answer, retire, exit | wake and close races; a deadline against an answer; locks taken in different orders | no task sleeps; reported closed means gone; waiting is ordered |
| Codebase index, the rest of `internal/codebase` | facts and offsets derived from a commit | build, query | - | equal to the commit's contents |
| Publication, `internal/publish` | a receipt for each request, files copied beside it | run, resume, verify, on CurseForge, NewBee, DD, BlackBox and ModUs | a call whose answer is lost, programs that end between a save and a call, a readback that finds somebody else's work | nothing is sent twice; what counts as complete is whole; a verdict stays; a doubt that can be read back ends |
| Addon core, modules, UI; language service, commands, records, tools | in-game views, static checks, output | - | - | outside the protocols |

How they interact: `next` (`wait.go`) inspects the journal and calls one of the
driver's operations. An operation opens a *transaction* (one exchange) whose
`advance` reserves and writes a slot file through the pool, records it, journals
an input intent, posts a key, and waits for a receipt. The key makes the addon
load the slots one after another, skipping what is not meant for its runtime,
until it has received one of its own. The addon publishes a record in its
memory, the reader yields it, `receive` journals it, `finishTransaction` gives
the reservation back, and the operation goes to its next stage:

    bind -> (prepare -> commit -> run -> confirm -> result file -> release)* -> unbind

A command (`project_windows.go`) reads the journal without a lease to find out
whether there is something to do, takes the execution lease of the connection's
window, reads the journal again and drives. A window is claimed for a connection
by a marker that outlives programs; commands that change the installation keep
the gate, the operating system lock under which markers are made, and are only
admitted while there is none.

## 2. Modules

| Module | Models | Uses |
|---|---|---|
| `SlotWire` | envelopes and receipts: what slot files and records say | - |
| `SlotPool` | one pool: entries and payloads, each write of a publication, the checks, consumption, retirement, `InspectSlots` (as `NoDrift`) | `SlotWire` |
| `SlotEngine` | the addon: wake, the six actions and their refusals, jobs, runtimes, the game process | `SlotWire` |
| `Channel` | one connection: the driver, with pool and engine | `SlotPool`, `SlotEngine` |
| `SharedPool` | several connections with a game each on one pool, slot by slot | `SlotPool` |
| `OperationPromise` | what a connection promises for an operation, without any of this | - |
| `ChannelPromise` | refinement mapping from `Channel` to `OperationPromise` | `Channel` |
| `ChannelClaims` | statements of comments and documents that the code does not keep | `Channel` |
| `Connections` | the identifiers of connections | - |
| `WindowAdmission` | markers, gate and execution lease | `Connections` |
| `MemoryLog` | journal files: append, torn tail, repair, checkpoint, search | `Connections` |
| `DurableBudget` | the budget of one goal | - |
| `Project` | the programs that share connections, command by command | the three above |
| `RequestLedger` | what a project promises for the requests of a connection | - |
| `ProjectLedger` | refinement mapping from `Project` to `RequestLedger` | `Project` |
| `AddonDelivery` | install, upgrade, update, remove and reset, rename by rename, with connections that reserve slots | `WindowAdmission` |
| `Publishing` | what the platforms have in common: a request, its receipt on disk and in memory, the lease, calls on the wire, what others do | - |
| `CurseForge`, `NewBee`, `DD`, `BlackBox`, `ModUs` | when each platform's commands save and when they post | `Publishing` |
| `Publication` | a request of any platform and kind | the five above |
| `SourceStore` | the store: what each owner does to one item under which leases, the budget, eviction, cancellation and death | - |
| `SourceResearch` | requests, the broker, closing and pruning, on that store | `SourceStore` |
| `SlotPoolProofs` | lemmas about the pool's operations, used by the next two | `SlotPool` |
| `ChannelProofs`, `SharedPoolProofs`, `ProjectProofs`, `RequestLedgerProofs`, `DeliveryProofs`, `PublicationProofs`, `SourceProofs` | theorems | the above |
| `MCChannel`, `MCSharedPool`, `MCProject`, `MCDelivery`, `MCPublication`, `MCSource` | instances for TLC | the above |

`Channel` composes driver, pool and engine because the hazards are between
them. Another connection appears there only as the constant `ForeignSlots`,
reserved slots that the route has to pass. What two moving connections do to
each other is the question of `SharedPool`, which in exchange forgets what an
exchange is *about*: bind, prepare and the rest are all one kind of envelope.
`Project` goes up one level: `Channel` assumes a single driver whose saves are
atomic, and `Project` is about the programs and files that make it so, with a
turn of the driver cut down to a few saves. `AddonDelivery` is about what other
commands do to the files under a connection; the two share `WindowAdmission`.

### Correspondence

* Journal variables (`identity`, `bound`, `tx`, `op`, `reload`, `recovery`,
  `input`, `closing`, `closed`, `runtimeEnd`, `processEnd`) are the fields of
  `State`. An action ends at a durable save (`Driver.Save`), at a write to the
  pool, or at a posted key; what the code does between two of them is volatile
  and belongs to the action. A crash between two actions therefore is simply
  that the program's next action comes from resuming the journal. The one
  volatile state that outlives an action is `sending`, the inside of `perform`
  between a durable input intent and its durable outcome. `Crash` empties it.
* Guards such as `Connecting`, `Running`, `Disconnecting` and `Recovering` are
  the branches of `next`; `Advancing` is the pending transaction each starts
  with; `Muted` and `InputObserved` are the refusals before a key is posted.
* `PublishReserve`, `PublishWrite` and `PublishSeal` are the three writes of
  `PublishSlot`; hashes are represented by the payload they are the hash of.
* A *token* (nonce, ticket, runtime token) is a number handed out once. A
  ticket is the pair (operation, attempt).
* `keys` counts posted chords that have not arrived. A key may arrive at any
  later time, even in a later runtime, or never.
* In `Channel` a wake is one step (`WakeReceives`, `WakeStops`), between two
  writes of the host. `SharedPool` takes a wake slot by slot, with the writes of
  every connection in between, and checks that a key still finds its target.
* `runs` and `outcome` are history variables: how often the code of a ticket was
  started and what its job ended with. `sent` remembers the exchanges a key was
  posted for, `nonces` the last token handed out.
* In `Project`, `pc` is where a program is in the command it was asked for and
  `view` is the state it has in memory. What a command reads before it takes the
  lease only decides where it goes, so those reads are one step (`Reach`,
  `ReachJournal`, `ReachActivation`); everything after `Enter` is again a step
  per durable write. `SaveAnd` is `Driver.Save`: it appends, or the program ends
  in the middle of the write, or the segment is full. `effects`, `saved` and
  `outrun` are history. Commands may reach a connection before the program that
  creates it has had its first turn, as in the code. A connection is *outrun* when
  that turn begins (`LockCreated`) and what the creator has in memory is no longer
  the end of the journal (`Current`): finding 3.
* In `MemoryLog` an event carries the whole state and its checksum is the number
  of events up to it, which identifies the prefix because there is one writer at
  a time. `torn` is a partial last line. The loop of `historicalState` from segment
  to segment is stated by what it reaches: `Chain` is the smallest set with the
  active segment and, with each segment, the one its last event names; `Walked` is
  the newest `MaxSegments` of it, since a segment names only older ones.
* In `WindowAdmission` an operating system lock goes back with the program that
  holds it (`ProgramEnds`), a marker does not.
* In `AddonDelivery` a slot is a directory with the generated files of one
  version, "empty" while they are partly written. A rename is a step, a file is
  replaced atomically, and a program may stop between any two of them and be
  asked again (`Ends`, `Command`). An archive or staging directory is named
  after what it is for, one for each kind of command. `holds` is what the journal
  of a connection says it has reserved; `deployed` and `pending` are history.
* In `Publishing` a *call* is a request that changes something on the platform;
  reads are part of the action that uses what they show (`Stored`, `Shows`). A
  receipt is the map from calls to how far each got (`Marks`) with the verdict;
  the code writes the same as stage, submission and verification fields. A
  program has a copy in memory (`prog[p].copy`), as it loaded or last saved it.
  `kind` stands for the action and its input: a request ID always comes with the
  input it was first given, as the comparison of digests enforces. A call not
  needed (a file the platform has, a name not asked for) is "spared". `Stop` is
  any end of a command, an error returned or the death of the program; what it
  posted stays on the wire. `already` is what somebody else has done that a
  readback cannot tell from the request's own effect. `posted` is history.
* In `SourceStore` every file has a lease of its own name, so an item is both. An
  owner works on one item at a time: `job` is where it is (`step`), what it has
  still to look at (`left`), what it is removing (`victim`) and the bytes it was
  granted. `Own` are the leases that a job holds, and the way out of every
  function (its `defer`s) is `End`. `WithinBudget` counts as the code's inventory
  does: a checkout in full, staging as granted. In `SourceResearch` a program is
  at a place of its request while its job is at a step of the store; `kept` is the
  checkout under a language server that is still running, whose lease outlives the
  job that took it. A broker's process is a number (`gen`); `asker` is the task it
  is answering, `queue` the ones that wait, `wake` its channel of capacity one.
  `closed` is history. A request names one pin, and environments are named after
  it, so whether a kept checkout is the right one is decided by its pin.
* Actions whose names end in a circumstance (`RecordDurableUnwritten`,
  `CancelCommitting`, `BeginUnchecked`, ...) and are not used by `Next` are
  faulty variants that `PROJECT.json` lists as mutants, kept next to the
  definition they spoil.

## 3. Runs

The two runs of `Publication` check for deadlock: a command can always be given.
All others take it as allowed (`CHECK_DEADLOCK FALSE`): a closed connection of an
ended game has nothing left to do, the driver may wait for a player, and in a
bounded instance nobody may be left to ask for anything.

| Run | Configuration | Question | Distinct states |
|---|---|---|---|
| session | `MCChannelSession.cfg` | one opaque operation: journal, execution, keys, refusals | 1.07 M |
| observation | `MCChannelObservation.cfg` | an operation that may be repeated after a reload, from a fresh, a full or a nearly used-up runtime: automatic reloads; refinement of `OperationPromise` | 0.78 M |
| process_end | `MCChannelProcessEnd.cfg` | three runtimes, recovery of a recovery; liveness: after the end of the game a repeated disconnect closes the connection | 0.44 M |
| sharing | `MCSharedPool.cfg` | two connections on one pool | 0.97 M |
| project | `MCProject.cfg` | two programs, one window, every command, also while the connection is being created; refinement of `RequestLedger` | 0.37 M |
| delivery | `MCDelivery.cfg` | three commands that change the installation, stopped anywhere, between connections | 0.43 M |
| publication | `MCPublication.cfg` | two programs on one request of each of twenty kinds, lost answers, others' changes; liveness: a doubt ends | 0.10 M |
| source | `MCSource.cfg` | two programs and the broker on one store: every request, close and prune, one of them dying | 0.59 M |
| retirement_conflict, reload_authorize, stale_turn, unleased_verify | `MCChannelConflict.cfg`, `MCChannelAuthorize.cfg`, `MCProjectConnect.cfg`, `MCPublicationUnleased.cfg` | documented claims that do not hold, see section 6 | violated |

What the properties say:

* `AtMostOnce`: the code of an opaque operation is started at most once over all
  tickets, and of any operation once per ticket.
* `CancelledNeverRan`: an operation reported as cancelled never ran.
* `ResultAuthentic`: the report in journal and result file is what the job of
  the present ticket ended with.
* `ReleaseAfterDurable`, `ReloadLosesNothing`: the game forgets a report, by a
  release or by a reload the driver starts by itself, only when it is on disk.
* `RetiredNeverLoads`, `LoadableIsReserved`: a slot the live runtime may still
  load is still reserved.
* `ClosedIsClean`: a closed connection has no reservation and no bound engine.
* `BoundAgrees`: journal and game agree about the binding.
* `NoStrayRefusal`: the game refuses only what the driver can deal with.
* `JournalValid`: the driver never saves a state its own `validate` refuses.
* `OneKeyPerExchange`: no exchange gets a second key.
* `NoDrift`, `NoOrphan`, `KeyFindsTarget`: about the pool, see section 1.
* `ProcessEndCloses`: `~alive ~> closed`, given that disconnect is repeated.
* `Promise`: refinement of `OperationPromise`. Beyond the invariants, it says
  that nothing of an operation executes once the journal says how it ended.
* `OnlyCreatorsBehind`: the state a driver has in memory is the last event on disk,
  except for a creator that was outrun (finding 3). Run stale_turn refutes the same
  without the exception (`ActsOnLatest`).
* `NothingForgotten`: what a search finds about a request is what was last saved
  about it, over repairs and checkpoints.
* `StoppedStaysStopped`: nothing is sent for a goal that the journal has stopped.
* `CancelledNeverDriven`, `ReleasedWhenOver`, `ClaimLostWhenOver`: a cancelled
  activation has no journal, and a claim goes only with the connection.
* `KeepsLedger`: refinement of `RequestLedger`: one request at a time, none
  twice, no stage taken back. `NothingForgotten`, `StoppedStaysStopped`,
  `ReleasedWhenOver` and `KeepsLedger` say nothing of a connection that was outrun,
  once it was.
* `MaintenanceAlone`, `OneClaimPerProcess`: about claims, see section 1.
* `ArchiveKeepsAll`, `AddonRecoverable`, `ReadyIsWhole`, `ReservationsKept`: no
  archive, addon, pool or reservation is lost, wherever a command stops.
* `SubmittedOnce`: no call of a request is posted twice.
* `NothingMissing`: a request that says complete has all its effects on the
  platform, and a backup is only made visible with every file it refers to.
* `VerdictStays`: a receipt that says rejected or complete goes on saying it. The
  two kinds that DD verifies without the lease are exempt: finding 4.
* `DoubtEnds`: once the effect of a call in doubt shows, some command finds it,
  from whatever stage the request stopped at. Calls whose identity only the lost
  answer gave (`Unreadable`) are exempt: the code says of them that they stay
  pending.

* `WithinBudget`: published, checked out, staged and left behind, the store never
  holds more than its budget, although programs ask for bytes one after the other
  and the dead leave staging.
* `UseIsSound`: a checkout under a language server is whole, listed and held; a
  cache that is read is stored; a task is analysed in its own pin's checkout.
* `OrderedWaits`: owners that wait for each other in a circle do so only through a
  request that keeps a checkout and goes on to the next symbol's lease.
* `NoLostWake`: a worker that sleeps over a waiting task has been woken.
* `ClosedIsGone`: a broker reported closed has ended with all it held.

`TypeOK` is a run's invariant for `Channel` only; the type invariants of the other
modules are theorems (`Typing` of section 4).

### Bounds

| Constant | Values | Why this is enough |
|---|---|---|
| `MaxRuntime` | 1, 2, 3 | code compares the runtime with the one in the journal and the one under recovery: three are all different |
| `MaxOps` | 1 | a connection keeps one operation at a time; what several connections do to each other is run sharing |
| `MaxAttempts` | 3 | the limit of the code (`recovery.go:111`) |
| `MaxKeys` | 1, 2 | chords under way; two let a stray key meet a later exchange |
| `MaxNonce` | 3 | exchanges over both connections in `SharedPool`: one for each and a later one that reuses a slot |
| `Slots` | 4, 5, 8 | enough for a full sequence of exchanges and, with `MaxRuntime` of 2 or more, for running out |
| `DriverReserve`, `MoveReserve`, `EngineReserve` | 4-5, 4, 2-3 | scaled down from 15, 4 and 3 with `Slots`, in the same order |
| `MaxJobs` | 2, 3 | scaled down from 121; reached in run observation |
| `InitialCursors`, `InitialJobs` | {1}, {1, 9}, {0}, {2} | a runtime that has served other connections before |
| `ForeignSlots` | {}, {2} | a reservation on the route, with an envelope for another runtime |
| `SlotStates` | BOOLEAN, {FALSE} | whether a starting runtime finds slots to enable and asks for one more reload |
| `GameMayEnd`, `LoadsMayFail` | BOOLEAN | switch off the end of the game, or a failing load of a slot file, where the run is about something else |
| `Policies` | opaque, observation | one policy per run |
| `Programs` | two | the races are between a program and one that came in between; symmetric |
| `Requests` | four | with `SegmentFull` 2 and `MaxSegments` 2, more requests than a search walks through |
| `SegmentFull`, `LogLimit`, `MaxSegments` | 2, 5, 2 | scaled down from 256, 1024 and 1024, in the same order; all three are reached |
| `Times`, `Starts`, `Duration` | 1..3, {2}, 1 | a clock before the start, at it and at the deadline |
| `MaxClaims` | 1, 2 | scaled down from 256; reached |
| `SlotCount` | 2 | scaled down from 500: one slot moved or converted and one not |
| `MaxCommands` | 3 | one command stops, another comes between, the first is asked again |
| `Versions`, `Windows`, `Conns` | 2, 2, 2 in delivery; one window and connection in project | an old and a new release; a second window of the same process |
| `OutrunEvents` | 6 in project | events of an outrun connection, after which it is not followed further (`FollowOutrun`). Such a connection is exempt from the other properties; `OnlyCreatorsBehind` and `CancelledNeverDriven` are about it still, and six leave room for another command after the creator's first saves. The proofs have no such bound |
| `NFiles` | 2 | one part done and one not; parts go one after the other |
| `MaxOutside` | 1 | effects of others are independent of each other, and calls in doubt come one at a time |
| `Kinds` | all twenty; one in unleased_verify | every kind of request with an order of calls of its own |
| `Pins`, `Symbols`, `Batches` | 2, 3, {2 symbols of one pin, 1 of the other} | a request that goes on to a second symbol; two pins that compete for room |
| `TreeBytes`, `MapBytes`, `FirstGrant`, `CacheBytes`, `Room`, `PruneTarget` | 6, 2, 1, 1, 11, 0 | scaled down from gigabytes: one checkout fits with some files, two never do, so checkouts and caches are displaced and requests refused |
| `Stale` | one pin | a manifest and a map from before whose checkout is gone |
| `QueueLimit`, `MaxBrokers` | 1, 1 | scaled down from 16; reached. With one task in the queue `next` never signals again (`source_broker.go:784-789`), and a broker is not launched again: both are in the proofs (`WakesUp`, `ClosedGone`), not in the run |
| `MaxCommands`, `MaxCrashes` | 2, 1 in source | two requests at a time, in every pair; one owner dies |

In `Publication` the commands of one request are only bounded by the two that may
run at a time: any number may follow one another.

In `MCSource` an owner dies only while it holds the capacity lease (`Deaths`): a
death elsewhere leaves the store as a deadline does that passes there.

`GameMayEnd` is FALSE only in run observation, `LoadsMayFail` only in runs
session and process_end.

### Fairness

`FairSpec` of `Channel`, used by process_end, has weak fairness of
`RepeatedDisconnect` and of `RecordInputOutcome`. The first says that somebody
who wants the connection closed gives `disconnect` again until one gets through
each of the steps of `disconnectEnded`: the proof that the process has ended is
saved, the claims are retired, the closed state is saved. The closes that a
repair asks for share its code (`disconnectMode`); no other command gets there.
`Resume` (unless an unbind is pending, when it calls `Disconnect`), `Execute` and
`Reload` open the process first, fail and save nothing, so nothing is assumed of
them: a connection that is only resumed after its game has ended stays open for
ever, and its claim with it. The second says that
`Input` returns, or its program dies, so `perform` ends. Nothing is assumed of
the game, the player or the keys.

`FairSpec` of `Publication` says that somebody keeps giving each of the three
commands (strong fairness of `Begin` for each, because the lease is at times with
another program), that commands end (`Stop`: every request has a time-out), and
that a command that could go on infinitely often does so at some time (strong
fairness of `Step`, not of any particular step). Nothing is assumed of the
platform: calls may stay on the wire for ever. `DoubtEnds` therefore is about what
the commands can find out by themselves.

## 4. Theorems

Proved with TLAPS for all values of the constants:

| Module | Theorem | Statement |
|---|---|---|
| `ChannelProofs` | `Typing` | `Spec => []TypeOK` |
| `ChannelProofs` | `PoolNeverDrifts` | `Spec => []NoDrift` |
| `ChannelProofs` | `CommitsAtMostOnce` | `Spec => []AtMostOnce` |
| `ChannelProofs` | `CancellationHolds` | `Spec => []CancelledNeverRan` |
| `ChannelProofs` | `ResultsAuthentic` | `Spec => []ResultAuthentic` |
| `ChannelProofs` | `ReleasesAfterDurable` | `Spec => []ReleaseAfterDurable` |
| `ChannelProofs` | `ReloadsLoseNothing` | `Spec => []ReloadLosesNothing` |
| `ChannelProofs` | `RetirementIsSafe` | `Spec => []RetiredNeverLoads` |
| `ChannelProofs` | `ClosesCleanly` | `Spec => []ClosedIsClean` |
| `ChannelProofs` | `BindingAgrees` | `Spec => []BoundAgrees` |
| `ChannelProofs` | `RefusalsExpected` | `Spec => []NoStrayRefusal` |
| `ChannelProofs` | `JournalStaysValid` | `Spec => []JournalValid` |
| `ChannelProofs` | `OneKey` | `Spec => OneKeyPerExchange` |
| `ChannelProofs` | `KeepsPromise` | `Spec => Promise`: `Channel` implements `OperationPromise` |
| `SharedPoolProofs` | `Typing` | `Spec => []TypeOK` |
| `SharedPoolProofs` | `PoolNeverDrifts` | `Spec => []NoDrift` |
| `SharedPoolProofs` | `NothingOrphaned` | `Spec => []NoOrphan` |
| `SharedPoolProofs` | `KeysFindTheirTarget` | `Spec => []KeyFindsTarget` |
| `SharedPoolProofs` | `LoadablesAreReserved` | `Spec => []LoadableIsReserved` |
| `ProjectProofs` | `Typing` | `Spec => []TypeOK` |
| `ProjectProofs` | `DriversAreCurrent` | `Spec => []OnlyCreatorsBehind` |
| `ProjectProofs` | `ClaimsOutlive` | `Spec => ReleasedWhenOver` |
| `ProjectProofs` | `CancelledIsFinal` | `Spec => []CancelledNeverDriven` |
| `ProjectProofs` | `NothingIsForgotten` | `Spec => []NothingForgotten` |
| `ProjectProofs` | `StoppedGoalsStay` | `Spec => StoppedStaysStopped` |
| `ProjectProofs` | `RequestsRunOnce` | `Spec => []RunsAtMostOnce`: no code of a connection that was not outrun runs twice, and none of a cancelled request |
| `ProjectProofs` | `LedgerIsKept` | `Spec => KeepsLedger`: `Project` implements `RequestLedger` |
| `RequestLedgerProofs` | `LedgerRunsOnce` | of a connection whose ledger is not lost, a request runs at most once, one that was cancelled never runs, and one is under way at a time |
| `DeliveryProofs` | `Typing` | `Spec => []TypeOK` |
| `DeliveryProofs` | `MaintenanceExcludes` | `Spec => []MaintenanceAlone` |
| `DeliveryProofs` | `OneClaim` | `Spec => []OneClaimPerProcess` |
| `DeliveryProofs` | `ClaimKept` | `Spec => ClaimLostWhenOver` |
| `DeliveryProofs` | `AddonSurvives` | `Spec => []AddonRecoverable` |
| `DeliveryProofs` | `ArchivesAreWhole` | `Spec => []ArchiveKeepsAll` |
| `DeliveryProofs` | `ReadyPoolsAreWhole` | `Spec => []ReadyIsWhole` |
| `DeliveryProofs` | `ReservationsSurvive` | `Spec => []ReservationsKept` |
| `PublicationProofs` | `Typing` | `Spec => []TypeOK` |
| `PublicationProofs` | `NothingSentTwice` | `Spec => []SubmittedOnce` |
| `PublicationProofs` | `VerdictsAreFinal` | `Spec => VerdictStays` |
| `PublicationProofs` | `NothingIsMissing` | `Spec => []NothingMissing` |
| `SourceProofs` | `BudgetHolds` | `RSpec => []WithinBudget` |
| `SourceProofs` | `UseSound` | `RSpec => []UseIsSound` |
| `SourceProofs` | `ClosedGone` | `RSpec => []ClosedIsGone` |
| `SourceProofs` | `WakesUp` | `RSpec => []NoLostWake` |
| `SourceProofs` | `WaitsInOrder` | `RSpec => []OrderedWaits` |

Assumptions: those the modules state by name. `None` and `Inert` differ from the
values they stand beside, reserves and bounds are naturals, `Self` is one of
`Drivers`, and in `SharedPool` there are between one and `MaxRuntime`
connections. In `SourceStore` a broker is no program, sizes are naturals, a map's
first reservation is part of its size, and what is stored when the programs start
fits (`StartAssumption`): without it the budget would be exceeded before the
first step. The theorems about `Project` assume nothing about the order in which
programs come, so they are about the code with finding 3 in it: what the code does
not ensure for a connection that was outrun is excluded in the statement, by the
history variable `outrun`, and for all other connections, also those commands
reach while they are being created, the statements are unconditional. The exclusion is
needed: for outrun connections TLC refutes `ActsOnLatest`, `ReleasedWhenOver` and
`KeepsLedger` at the bounds above, and `NothingForgotten` and `RunsAtMostOnce` with
`MaxSegments` 4, because a stale save names no archive, a search ends there, and a
request that it does not find runs again. `StoppedStaysStopped` rests on the same
numbering of events.

* *Typing of a connection.* `TypeOK` is not inductive as it stands. A wake
  commits the job of a pending ticket, so that a pending or active ticket must
  have a job; and an outcome is recorded into an input, so that an input must
  exist while one is being sent. `IInv` adds these two facts
  (`BesideTyped`, `EngineDesk`).
* *A connection.* None of the properties of `Channel` is inductive, and each
  needs most of the others, so one invariant carries them: `Conduct`. Its parts
  say that the journal is consistent in itself (`JournalFits`); what the engine of
  the running runtime holds at each stage of the journal, and which answers can
  still be read (`DeskAgrees`: `Desk` for the operation, `Bench` for the binding);
  that jobs belong to tickets which were begun and reports are what the code
  ended with (`JobsFit`, `RunsFit`); when a reload may start by itself
  (`AutomaticFits`); that what is released is on disk (`Kept`); that the journal is
  never ahead of the game (`EndFits`); that no token comes before it is handed out,
  and the exchange under way carries the latest (`TokensGrow`); that the one
  envelope a key can still load is that of this exchange (`OnlyCurrent`); that
  every reservation is answered for (`Owned`); and that a key in hand belongs to a
  durable intent (`Keyed`). The link between the two sides is `OnlyCurrent` with
  `TokensGrow`: a stray key, however late, loads the present envelope or nothing.
  The steps of the driver change the journal and those of the game the engine;
  each lemma shows what its side disturbs (`JournalKeeps`, `PoolStepsKeep`,
  `InputKeeps`, `GameKeeps`).
* *The promise.* The mapping of `ChannelPromise` counts the starts of code over
  all attempts of an operation and reads status and answer off the journal and the
  result files. Beside `Conduct` it needs that an answer was earned: a job that
  runs, and an outcome other than a failure, belong to code that was started
  (`Earned`). Then every step is a step of the promise or shows nothing: the driver
  changes the operation only by a save, which keeps its identity or takes the next
  request (`SaveMoves`), and takes that only when the last one is complete and its
  answer on disk; code is started only by the commit of the present ticket, while
  the operation is open (`GameShows`), and the attempts then suffice, because each
  runs once (`StartShows`). The run that checks the same has one operation, so
  that it cannot see how one follows another; the theorem has any number.
* *No drift.* A publication records its new payload as pending before it writes,
  a reservation by another connection resets what is pending, so drift needs a
  reservation taken while a publication is torn. `PoolSettled` adds to `NoDrift`
  that an unreserved slot has no pending publication (`FreeIsSettled`). The
  lemmas of `SlotPoolProofs` show it for each operation of the pool, so that
  both composed modules cite them.
* *No orphan.* `NoOrphan` is strengthened to `Owned`: the consumer of a reserved
  slot is a connection whose journal holds, as transaction or as recovered
  transaction, the envelope that claims the slot. Each action of the driver that
  removes an envelope from the journal does so after the pool says that it was
  consumed or retired.
* *Keys find their target.* `VerifySlotPublication` checks the route before the
  key, so what happens after it has to be excluded by an invariant, `Routed`: no
  two envelopes carry one token (`TokensDiffer`); the runtime in a journal and in
  its envelopes is not ahead of the game (`Current`); a slot that the runtime of a
  connection can load has the envelope of its exchange, reserved (`Loaded`); one
  that was received is behind the cursor (`Received`); and between the key and the
  receipt nothing touches the slot (`Sent`). Other connections only write where
  they have reserved, and only reserve what is free.
* *Programs on one journal.* A driver stays current because nobody else writes
  while it holds the lease, and it holds the lease because its window is claimed
  for its connection. `IInv` of `ProjectProofs` says so: a program in a place
  that needs a lease has it (`Exclusive`), a marker stands for a connection with
  that window (`Claims`), whoever drives has the end of the journal in memory
  (`Informed`), a connection without metadata has no activation and a cancelled
  activation no journal (`Fresh`). A creator that was outrun is the exception (`Outrun`): it only knows that the
  journal is not empty. One that has the end of the journal in memory when it takes
  its first lease drives like everybody else from then on. `OneDriver` follows, and each action changes
  the journal of one connection, so that the drivers of the others keep theirs.
* *Nothing forgotten.* `JInv` of `ProjectProofs` relates the journals of the
  connections that were not outrun to the requests, on top of `IInv`. The events of a connection are numbered without a
  gap: inside a segment they follow each other and all name one older segment,
  which ends where this one begins (`Numbered`) and is there (`Linked`). An event
  behind no segment of the chain would have a least number (`WFMin` of
  `WellFoundedInduction` over the naturals), and the segment it stands in is named
  by the event after it; so the chain holds every event (`ChainWhole`), and what a
  search finds is the last of all events about a request. That this is what was
  saved is `KeptOf`. It needs to know that at most one request is under way
  (`UnderWay`) and that the state shows it (`Shown`).
* *Stopped goals and the ledger.* A request whose goal was stopped is still
  prepared and still stopped, or cancelled (`Halted`), and a program that is about
  to run one has saved "sent" and not run it yet (`Diligent`, `Ran`); so nothing is
  sent for it. Each of the actions is of one of these
  kinds (`Kind`): it saves one state of a driver, archives a segment, begins the
  journal after it, runs what was sent, leaves journal and requests alone
  (`Quietly`), adds a connection to those that were outrun (`Outruns`), or works on
  such a connection (`Astray`), where it touches no other. `JInv` is shown for
  kinds, and so is that a step is a step of the ledger or a stutter
  (`SavesLedger`). `Outruns` is `Lose` of the ledger and `Astray` is its `Stray`, so
  that the ledgers of the other connections are kept whatever becomes of a lost
  one.
* *Installation.* `IInv` of `DeliveryProofs` says that a command inside the
  installation has the gate and no window is claimed (`Alone`), that a program
  works on what it was given (`Placed`, `Charged`) and that this is there
  (`Stocked`). `AddonSurvives` adds that the old tree only moves into a directory
  whose journal and new tree are complete, and that while it is there nobody
  but the resumed upgrade changes that directory.
* *Archives and reservations.* `ArchiveKeepsAll`, `ReadyIsWhole` and
  `ReservationsKept` are shown together, by `PoolKept`. An intent on disk says what
  a reset or removal found (`ResetTold`, `RemovalTold`), a pool that is not ready
  has no reservations (`UnreadyUnreserved`), and a reset that was left half done
  (`Half`) has taken the pool whole, has taken part of what is still in its place,
  or shares it with a removal (`HalfKept`); a program in the middle of a command is
  where its copy of the intent says (`Working`). The three properties do not
  suffice, because a command that was stopped is carried on after others have
  changed the directory: the attempt to prove the first one as it was stated before
  ("every member is in the archive of the reset once the pool has left") failed in
  just that case. With five commands, more than the run allows, an installation
  is removed in part, installed again in part, reset in part and then removed
  further, and the members are spread over the archives of the reset and the
  removal. Nothing is lost, and the property now says what is true.
* *Publication.* Nothing is sent twice because the intent is on disk before the
  call is on the wire, and every command that may post has loaded what is on disk
  under the lease. `IInv` says so: a program that is not reading only has the
  lease (`LeaseHeld`), and the receipt in its memory is the one on disk
  (`CopiesCurrent`); a call ever posted is not "unsent" in the receipt on disk
  (`ReceiptTruthful`) nor in any copy (`CopiesTruthful`), and a call about to be
  posted is marked and was not posted (`PostingMarked`). The shape lemmas reduce
  the sixty steps of five platforms to four forms (`Writes`, `Keeps`), so that the
  invariant is shown for forms and not for steps. An unleased reader only ever
  saves a verdict in which no call is unsent (`ReadsOnly`, `Over`), which is why
  `NothingSentTwice` holds for DD also where `VerdictStays` does not.
* *Nothing missing.* `Whole` says that a receipt is sound: what it calls settled
  shows, and what may only follow other calls was posted after they had shown. This
  must hold of the file and of every copy in memory (`ReceiptSound`, `CopiesSound`),
  also of a copy held for long, because a command may save it. Effects do not go
  away, so a sound copy stays sound while others work.
* *Source store.* `IInv` of `SourceProofs` says what a job has got hold of at
  each of its steps: the lease of its item and of its victim (`Leased`), and the
  capacity from the moment it counts bytes to the moment it publishes or gives up
  (`Granted`). Hence a step leaves alone what others hold (`OthersUndisturbed`):
  whatever is removed is first leased. A grant fits beside what was counted, and
  nobody else adds to it meanwhile, so `Used <= Room` is inductive; a death turns
  what it had staged into litter of the same size. On top, a request that has
  left the store has a job at rest (`Asking`), a program that fetches a checkout
  has no other (`Fetching`), and the broker's worker keeps no checkout but its
  task's (`Answering`). Between two jobs an owner only gives leases back and sets
  out for the next item; `TurnKeeps` shows that once, for some forty steps of
  programs and broker. `ClosedIsGone` is strengthened by: no program waits for
  the exit of a broker not started yet (`Ended`).
* *No lost wake.* The signal is there whenever the queue is not empty, also while
  the worker is busy (`Queued`): whoever makes the queue non-empty signals, and a
  worker that takes the signal either empties the queue or signals again. Only so
  is a signal that was dropped, because there was one already, no loss.
* *Waiting in order.* `NeededOnly` says that every lease an owner has is one that
  its job (`Held`) or its request (`Uses`) needs at this place, and in which places
  a checkout is kept. The circle is then excluded from the inside out (`NoCircle`):
  who has the capacity lease waits for nobody, so nobody in the circle waits for
  room; then nobody waits for a map or an environment, whose holders only wait for
  room; then nobody for a checkout, because who keeps one either computes with it
  or is the exception that the property names; the broker then waits for nobody
  either; and who computes relations does not wait for other relations. This needs no
  order of the leases, which the code does not have.

Only model-checked are two properties, `ProcessEndCloses` and `DoubtEnds`. They
are liveness, which is outside the prover's reach.

## 5. What is not modelled

* Time. Cooldowns, sampling of keyboard and mouse: a driver may do nothing for
  as long as it likes, and refusals to post a key appear as that. Of the budgets,
  only that of a request is modelled; the others use the same functions.
* Contents. Code, reports and their paging, payloads, signatures, checksums.
  Receipts are decoded correctly or not seen. A journal line damaged in the
  middle does not occur.
* In `Project`: the saves of a blocker (`recordBlocker`) and of the checkpoints
  for reload and unbind, which change fields no property is about; what a
  command prints; the identity of the client.
* In `AddonDelivery`: earlier layouts of the pool (64 and 200 slots), files edited
  by hand, staging and verification of a release, the skill, several targets in
  one update, what a doctor proposes for an interrupted reset, and the deletion
  of a discarded tree, which is one step.
* In `Publication`: forms, credentials, sessions, the comparison of inputs and the
  packing of local archives. What a readback compares is one bit: the effect is
  there or not. A platform answers a posted call or loses it, and carries it out at
  most once.
* In `SourceStore`: the lease of the repository around one Git command, the file
  facts and the offset file published with a map, the order in which candidates are
  tried (any), what a manifest says besides its pin. In `SourceResearch`: how the
  two ends authenticate each other, status requests, frames, what is asked of the
  language server. The limit on open connections acts like the limit of the queue.
* Durable writes that follow each other without a decision in between are at some
  places one step, so that a program does not end between them in the model: the
  save of a ready manifest and that of the reset's "complete" in `AddonDelivery`,
  DD's stages "components" and "finish" in `Publication`. In `SourceResearch` a
  worker's receipt of the signal and `next` of the queue are one step. A candidate
  that `prune` skips because Git fails is one it passes over for any other reason.
* Work items offline (`book.go`, `BeginWindowWork`): the same claim protocol for
  another kind of record.
* `SharedPool` lets a connection have one key under way at a time; a
  second, stray key is covered by `Channel`.
* Components with status `not_modelled` in `PROJECT.json`, each with its reason.
  Most of the repository's lines are of that kind: readers of game data and
  indexes over it, forms of publication platforms, static checks, views inside
  the game, parsing of arguments and printing.

## 6. Findings

1. **Retirement conflict** (`slot_retirement.go:75`, run retirement_conflict).
   `State.Recovery` is never cleared. After one completed recovery and a further
   reload, `closeReplacedRuntime` retires `Recovery.Transaction` again, now with
   another runtime as proof, and `RetireSlotRuntime` refuses it as a conflict on
   every resume. The comment in `reload.go:110-111` says the proof is enough to
   retire the original claims.
2. **Reload authorisation** (`input.go:224`, run reload_authorize). The comment
   above it says a lost receipt must not disable the reload, but the owner
   shown by the game has to be that of the envelope, and after a lost receipt of
   a bind or an unbind it is not. A reload by the player still continues.
3. **Stale turn** (`project_windows.go:371-380`, run stale_turn). `Connect` makes
   the claim, leaves the gate and then takes the execution lease, and drives with
   the state it created. Between the two another program may resume the
   connection, which is already claimed and journalled, and have a whole turn.
   The comment in `project_windows.go:430-431` on the other commands says that
   state read before the lease may belong to another driver's turn; `Connect` is
   the one that does not read again. What it saves then names no archive either,
   so that later searches miss what was checkpointed meanwhile. The properties and
   theorems about `Project` leave out what follows for that connection (section 4).
4. **Unleased verification** (`dd.go:94-112`, run unleased_verify). "operation
   verify" of DD loads the receipt without the lease under which the submitting
   command works. It may hold the uncertain receipt of a call under way while the
   platform declines the call and the submitting command saves "rejected"; if the
   resource shows the requested fields by then, because somebody else set them,
   the verification saves "verified" over the rejection. `dd_operation.go:94` says
   that the receipt of a rejected operation is retained, and
   `dd_rejection_test.go` that a rejected stage is never verified; the test calls
   one after the other.

Smaller observations, not claimed to contradict anything written:

* A stray key can consume a published slot before its own key is sent, which
  leaves the exchange waiting until a reload; one that finds no envelope of its
  own runtime uses up the remaining slots.
* Turning the bridge off and on between prepare and commit makes the commit
  refused, and only an explicit reload continues.
* `closeEndedState` completes an operation at `result_verified` without writing
  the result file, the journal still holding the report.
* If a reset stops while it archives and the same version of the addon is then
  installed again, the pool's directory is created anew, and continuing the reset
  answers conflict every time; the same goes for an interrupted removal. With both
  interrupted, the members of one pool can end up in two archives
  (`ArchiveKeepsAll`).
* An interrupted update whose addon was meanwhile upgraded by hand leaves the
  updates of both versions refused.
* If a closing connection has an explicit reload pending and `RecoverRuntime` has
  already saved the new runtime as candidate, `stepReload` (`reload.go:109`) looks
  for a runtime other than that candidate, and waits for one more reload.
* ModUs: a release whose number was asked for without an answer is refused by both
  commands. "resume" says that the original write requires readback
  (`modus_operation.go:286`), "verify" that its saved operation has to be resumed
  first (`modus_write.go:299`).
* ModUs claims a manifest by a file that must not exist and writes it afterwards;
  a program that ends between the two leaves an empty claim, which is refused for
  ever. BlackBox copies what it uploads before the first save, likewise by files
  that must not exist, so that after a crash there the request cannot be made.
* A DD request whose program ends between its first save and the save of the
  intent is never sent and cannot be continued.
* What is created without learning its name is looked for by content. An identical
  item of somebody else leaves a NewBee backup or a BlackBox creation in doubt for
  ever (`Shows`).
* A program that ends inside the very first event of a journal leaves a claim
  whose log is torn and has no prefix to be repaired to.

* A request for several symbols keeps its checkout while it waits for the next
  symbol's relations. Another program that computes those may be waiting for the
  same checkout, or for the broker, which waits for it; then both end with the 90
  seconds of their commands (the exception in `OrderedWaits`).
* A checkout that Git was killed in stays partial: it does not verify, is not
  evicted (`PassOver`) and is not begun again, so its pin has no checkout until it
  is removed by hand. Staging of a program that died counts for ever.
* `source session close` asks whether the pipe exists. While the broker is already
  leaving, it answers "closed" at once although the process still holds its leases
  (`NoBroker`), and a prune that follows passes over that checkout.

## 7. Plan

Done: the modules of section 2.

Left, in this order:

1. The work book and the vault's cache.
