------------------------------ MODULE Channel -------------------------------
(***************************************************************************)
(* One connection: the durable driver of internal/live/channel, the addon  *)
(* engine it talks to (SlotEngine) and the slot pool both use (SlotPool).  *)
(*                                                                         *)
(* The journal variables are the driver's State as of the last Save.  The  *)
(* driver runs in short turns of a command line program, which can die     *)
(* between any two steps; it then continues from the journal alone.  Each  *)
(* action is one Save, or one effect on the world outside the journal (a   *)
(* write to the pool, a key, a result file) that the code performs before  *)
(* its next Save.  All of these effects but the key are repeated by the    *)
(* code when it resumes and are harmless to repeat, so an effect action    *)
(* is enabled as long as its effect is missing, and the Save that follows  *)
(* it only once it is there: dying between the two needs no action of its  *)
(* own.  The key cannot be repeated; the volatile `sending' is what dies.  *)
(***************************************************************************)
EXTENDS SlotPool, SlotEngine

CONSTANTS
    Self,           \* this connection
    DriverReserve,  \* slots a new operation must find left (15 in the code)
    MoveReserve,    \* slots a moved prepare must leave (4 in the code)
    MaxKeys,        \* bound: wake chords under way at the same time
    ForeignSlots,   \* slots another connection has reserved
    InitialCursors, \* slots this runtime has used before, plus one
    InitialJobs,    \* jobs this runtime has admitted before
    Policies        \* recovery policies the requests of a run may have

ASSUME ChannelAssumption ==
    /\ Self \in Drivers
    /\ DriverReserve \in Nat /\ MoveReserve \in Nat /\ EngineReserve \in Nat
    /\ MaxKeys \in Nat /\ MaxJobs \in Nat
    /\ ForeignSlots \subseteq Index
    /\ InitialCursors \subseteq NextSlot
    /\ InitialJobs \subseteq Nat
    /\ SlotStates \subseteq BOOLEAN /\ GameMayEnd \in BOOLEAN
    /\ LoadsMayFail \in BOOLEAN
    /\ Policies \subseteq {"opaque", "observation"}

VARIABLES
    \* the journal
    identity,   \* Identity: the runtime, slot cursor and owner last received
    bound, closing, closed,
    runtimeEnd, \* RuntimeEnd: runtime that proved the destruction of identity's
    processEnd, \* ProcessEnd
    tx,         \* Transaction: the exchange under way
    op,         \* Operation
    reload,     \* Reload
    recovery,   \* Recovery
    input,      \* Input: the last physical input and what is known of it
    \* beside the journal
    sending,    \* volatile: progress of perform() inside the running turn
    results,    \* result files: operation |-> report
    policy,     \* operation |-> "opaque" or "observation", by its request
    keys,       \* wake chords sent and not yet delivered or lost
    \* history
    nonces,     \* the last token handed out
    sent        \* nonces a wake chord was sent for

journal == <<identity, bound, closing, closed, runtimeEnd, processEnd, tx, op,
             reload, recovery, input>>

beside == <<sending, results, policy, keys, nonces, sent>>
control == <<closing, closed, runtimeEnd, processEnd>>
external == <<poolVars, engineVars, historyVars>>

vars == <<journal, sending, results, policy, keys, nonces, sent,
          poolVars, engineVars, historyVars>>

-----------------------------------------------------------------------------
Operations == 1..MaxOps

Identity == [runtime : Runtimes, next : NextSlot, owner : Drivers \cup {None}]

Transaction ==
    [env   : Envelope,
     phase : {"intent", "published", "input_attempted", "received"},
     rcpt  : Receipt \cup {None}]

Operation ==
    [id      : Operations,
     attempt : 1..MaxAttempts,
     stage   : {"prepared", "commit_ready", "running", "confirm_ready",
                "result_verified", "release_ready", "complete", "cancelled",
                "execution_unknown"},
     prep    : Nat,
     report  : Report \cup {None},
     cleanup : {"", "reload_required", "released", "runtime_destroyed"}]

Reload ==
    [phase     : {"intent", "input_attempted", "binding", "complete"},
     from      : Runtimes,
     automatic : BOOLEAN,
     slots     : BOOLEAN,        \* SlotEnablement
     reconcile : BOOLEAN]        \* ReconcilePending

Recovery ==
    [phase : {"binding", "bound", "complete"},
     from  : Runtimes,
     tx    : Transaction \cup {None}]

Input ==
    [kind     : {"invoke", "reload"},
     exchange : Nat,             \* the nonce; 0 for a reload
     runtime  : Runtimes,
     outcome  : {"not_sent", "sent", "missing"}]

ASSUME NoneIsNoRecord ==
    /\ None \notin Transaction /\ None \notin Operation /\ None \notin Reload
    /\ None \notin Recovery /\ None \notin Input /\ None \notin Receipt

TypeOK ==
    /\ PoolTypeOK /\ EngineTypeOK
    /\ identity \in Identity
    /\ bound \in BOOLEAN /\ closing \in BOOLEAN /\ closed \in BOOLEAN
    /\ runtimeEnd \in Runtimes \cup {None}
    /\ processEnd \in BOOLEAN
    /\ tx \in Transaction \cup {None}
    /\ op \in Operation \cup {None}
    /\ reload \in Reload \cup {None}
    /\ recovery \in Recovery \cup {None}
    /\ input \in Input \cup {None}
    /\ sending \in {"idle", "intent", "sent"}
    /\ results \in [Operations -> Report \cup {None}]
    /\ policy \in [Operations -> {"opaque", "observation"}]
    /\ keys \in 0..MaxKeys
    /\ nonces \in Nat
    /\ sent \subseteq Nat

-----------------------------------------------------------------------------
(* The other connection's reservations.  Their tokens are 1..Slots.        *)
ForeignEnvelope(i, c) ==
    [nonce |-> i, action |-> "bind", runtime |-> 0, owner |-> c,
     ticket |-> None, start |-> i, index |-> i, prep |-> 0, report |-> None]

ForeignEntry(i, c) ==
    [FreshEntry EXCEPT !.nonce = i, !.consumer = c,
                       !.hash = ForeignEnvelope(i, c)]

\* The driver has selected the runtime that is live: New() after Discover().
Init ==
    /\ \E c \in Drivers :
         /\ ForeignSlots # {} => c # Self
         /\ entry = [i \in Index |-> IF i \in ForeignSlots
                                     THEN ForeignEntry(i, c) ELSE FreshEntry]
         /\ payload = [i \in Index |-> IF i \in ForeignSlots
                                       THEN ForeignEnvelope(i, c) ELSE Inert]
    /\ live = 1 /\ alive = TRUE
    /\ cursor \in InitialCursors
    /\ count \in InitialJobs
    /\ owner = None /\ active = None /\ pending = None
    /\ jobs = [t \in Ticket |-> None]
    /\ receipts = {}
    /\ needSlots \in SlotStates
    /\ runs = [t \in Ticket |-> 0]
    /\ outcome = [t \in Ticket |-> None]
    /\ identity = [runtime |-> live, next |-> cursor, owner |-> None]
    /\ bound = FALSE /\ closing = FALSE /\ closed = FALSE
    /\ runtimeEnd = None /\ processEnd = FALSE
    /\ tx = None /\ op = None /\ reload = None /\ recovery = None
    /\ input = None
    /\ sending = "idle"
    /\ results = [o \in Operations |-> None]
    /\ policy \in [Operations -> Policies]
    /\ keys = 0
    /\ nonces = Slots
    /\ sent = {}

-----------------------------------------------------------------------------
(* Where the scheduler is (next() in wait.go): an unfinished reload comes  *)
(* first, then an unfinished recovery, then closing, binding, the          *)
(* operation.                                                              *)

OpTicket == <<op.id, op.attempt>>

ReloadActive   == reload # None /\ reload.phase # "complete"
RecoveryActive == recovery # None /\ recovery.phase # "complete"
OpSettled == op # None => op.stage \in {"complete", "cancelled", "execution_unknown"}
ClosingExplicitReload == closing /\ ReloadActive /\ ~reload.automatic

\* A turn of the driver may act: the guard finds the process, nothing ended.
Admitted == alive /\ ~closed /\ runtimeEnd = None /\ ~processEnd

Scheduled == Admitted /\ ~ReloadActive /\ ~RecoveryActive

\* closing (or unbinding) and quiescent in next(): only Disconnect is left.
Ending == ~closing => tx # None /\ tx.env.action = "unbind"
Disconnecting ==
    /\ Scheduled /\ Ending /\ OpSettled
    /\ tx # None => tx.env.action = "unbind"

\* finishRecovery is what the scheduler runs.
Recovering ==
    /\ Admitted /\ RecoveryActive
    /\ ReloadActive => reload.phase = "binding" /\ ~ClosingExplicitReload

\* Connect is what the scheduler runs.
Connecting ==
    /\ ~bound
    /\ \/ Scheduled /\ ~Disconnecting
       \/ Recovering /\ recovery.phase = "binding"

\* Run is what the scheduler runs.
Running == op # None /\ bound /\ Scheduled /\ ~Disconnecting

\* The transaction is what the scheduler runs: advance().
Advancing == tx # None /\ (Connecting \/ Running \/ (Disconnecting /\ bound))

\* A closing connection observes these exchanges; it never starts them.
Muted ==
    /\ closing
    /\ \/ tx.env.action \in {"prepare", "commit"}
       \/ /\ tx.env.action = "bind"
          /\ ~RecoveryActive
          /\ ~(reload # None /\ reload.phase = "binding")

\* A fresh INPUT sample of the engine authorizes a key for e.
InputObserved(e) ==
    /\ live = e.runtime
    /\ cursor = e.start
    /\ owner = Self \/ (e.action = "bind" /\ owner = None)

-----------------------------------------------------------------------------
(* begin(): the durable intent of a new exchange.                          *)
\* A new envelope, for the slot the engine will load next.
NewEnvelope(action, ticket) ==
    [nonce |-> nonces + 1, action |-> action, runtime |-> identity.runtime,
     owner |-> Self, ticket |-> ticket, start |-> identity.next,
     index |-> identity.next, prep |-> 0, report |-> None]

\* Mutation of Begin: does not notice that the slots are used up.
BeginUnchecked(e) ==
    /\ tx = None
    /\ tx' = [env |-> e, phase |-> "intent", rcpt |-> None]
    /\ nonces' = nonces + 1
    /\ UNCHANGED <<identity, bound, control, op, reload, recovery, input,
                   sending, results, policy, keys, sent, external>>

Begin(e) ==
    /\ tx = None
    /\ identity.next <= Slots
    /\ tx' = [env |-> e, phase |-> "intent", rcpt |-> None]
    /\ nonces' = nonces + 1
    /\ UNCHANGED <<identity, bound, control, op, reload, recovery, input,
                   sending, results, policy, keys, sent, external>>

\* Connect looks at the engine before it reserves a slot.
ConnectBegin ==
    /\ Connecting
    /\ tx = None
    /\ InputObserved(NewEnvelope("bind", None))
    /\ ~needSlots
    /\ Begin(NewEnvelope("bind", None))

RunPrepare ==
    /\ Running /\ ~closing
    /\ op.stage = "prepared"
    /\ identity.next + DriverReserve <= Slots
    /\ Begin(NewEnvelope("prepare", OpTicket))

RunCommit ==
    /\ Running /\ ~closing
    /\ op.stage = "commit_ready"
    /\ Begin([NewEnvelope("commit", OpTicket) EXCEPT !.prep = op.prep])

RunConfirm ==
    /\ Running
    /\ op.stage = "confirm_ready"
    /\ Begin(NewEnvelope("confirm", OpTicket))

RunRelease ==
    /\ Running
    /\ op.stage = "release_ready"
    /\ op.cleanup # "reload_required"
    /\ Begin([NewEnvelope("release", OpTicket) EXCEPT !.report = op.report])

DisconnectBegin ==
    /\ Disconnecting
    /\ bound
    /\ Begin(NewEnvelope("unbind", None))

-----------------------------------------------------------------------------
(* advance(): publish, wake the engine once, wait for the receipt.         *)
Publishing == tx # None /\ tx.phase = "intent" /\ Advancing /\ ~Muted

TxPublishReserve ==
    /\ Publishing
    /\ PublishReserve(Self, tx.env)
    /\ UNCHANGED <<journal, beside, engineVars, historyVars>>

TxPublishWrite ==
    /\ Publishing
    /\ PublishWrite(Self, tx.env)
    /\ UNCHANGED <<journal, beside, engineVars, historyVars>>

TxPublishSeal ==
    /\ Publishing
    /\ PublishSeal(Self, tx.env)
    /\ UNCHANGED <<journal, beside, engineVars, historyVars>>

\* The slot is somebody else's: the intent moves to a later one, same nonce.
Reallocate ==
    /\ Publishing
    /\ ReservedByOther(Self, tx.env)
    /\ FreeAfter(tx.env.index) # {}
    /\ tx.env.action = "prepare" => NextFreeSlot(tx.env.index) + MoveReserve <= Slots
    /\ input # None => input.exchange # tx.env.nonce
    /\ tx' = [tx EXCEPT !.env.index = NextFreeSlot(tx.env.index)]
    /\ UNCHANGED <<identity, bound, control, op, reload, recovery, input,
                   beside, external>>

RecordPublished ==
    /\ Publishing
    /\ Published(tx.env)
    /\ tx' = [tx EXCEPT !.phase = "published"]
    /\ UNCHANGED <<identity, bound, control, op, reload, recovery, input,
                   beside, external>>

\* Mutation of Attempted: an outcome that was never saved counts as not sent.
AttemptedIfKnown(kind, exchange, runtime) ==
    /\ input # None
    /\ input.kind = kind /\ input.exchange = exchange /\ input.runtime = runtime
    /\ input.outcome = "sent"

\* submitInput() finds an attempt of this very exchange that may have been
\* sent: the key must not be sent again.
Attempted(kind, exchange, runtime) ==
    /\ input # None
    /\ input.kind = kind /\ input.exchange = exchange /\ input.runtime = runtime
    /\ input.outcome # "not_sent"

\* perform(): the intent of an input is durable before the input.
RecordInputIntent(kind, exchange, runtime) ==
    /\ ~Attempted(kind, exchange, runtime)
    /\ input' = [kind |-> kind, exchange |-> exchange, runtime |-> runtime,
                 outcome |-> "missing"]
    /\ sending' = "intent"
    /\ UNCHANGED <<identity, bound, control, tx, op, reload, recovery,
                   results, policy, keys, nonces, sent, external>>

Invoking == tx # None /\ tx.phase = "published" /\ Advancing /\ ~Muted

InvokeIntent ==
    /\ Invoking
    /\ InputObserved(tx.env)
    /\ ~needSlots
    /\ RecordInputIntent("invoke", tx.env.nonce, tx.env.runtime)

\* Input(): publication and route are verified under the publication lease,
\* the INPUT sample is read once more, then the chord is posted.
SendKey ==
    /\ sending = "intent"
    /\ input.kind = "invoke"
    /\ Invoking
    /\ PublicationVerified(Self, tx.env)
    /\ RouteVerified(tx.env)
    /\ InputObserved(tx.env)
    /\ keys < MaxKeys
    /\ keys' = keys + 1
    /\ sent' = sent \cup {tx.env.nonce}
    /\ sending' = "sent"
    /\ UNCHANGED <<journal, results, policy, nonces, external>>

\* The reload chord needs no slot; RuntimeStarts is what it brings about.
SendReloadKey ==
    /\ sending = "intent"
    /\ input.kind = "reload"
    /\ Admitted
    /\ live = identity.runtime /\ owner = identity.owner
    /\ sending' = "sent"
    /\ UNCHANGED <<journal, results, policy, keys, nonces, sent, external>>

\* The outcome is saved: sent, or, for whatever reason, known not to be.
RecordInputOutcome ==
    /\ sending # "idle"
    /\ input' = [input EXCEPT !.outcome = IF sending = "sent" THEN "sent"
                                          ELSE "not_sent"]
    /\ sending' = "idle"
    /\ UNCHANGED <<identity, bound, control, tx, op, reload, recovery,
                   results, policy, keys, nonces, sent, external>>

\* The program dies inside perform(): the outcome stays unknown.
Crash ==
    /\ sending # "idle"
    /\ sending' = "idle"
    /\ UNCHANGED <<journal, results, policy, keys, nonces, sent, external>>

RecordInputAttempted ==
    /\ Invoking
    /\ Attempted("invoke", tx.env.nonce, tx.env.runtime)
    /\ tx' = [tx EXCEPT !.phase = "input_attempted"]
    /\ UNCHANGED <<identity, bound, control, op, reload, recovery, input,
                   beside, external>>

\* receive(): the receipt, refusals included, is durable before the
\* reservation of its slot is given up.
ReceiveReceipt ==
    /\ tx # None /\ tx.rcpt = None
    /\ Advancing
    /\ ~Muted => tx.phase = "input_attempted"
    /\ live = tx.env.runtime
    /\ \E r \in receipts :
         /\ r.nonce = tx.env.nonce /\ r.ticket = tx.env.ticket
         /\ r.action = tx.env.action
         /\ r.next > tx.env.index
         /\ r.owner = Self
         /\ tx' = [tx EXCEPT !.phase = "received", !.rcpt = r]
    /\ UNCHANGED <<identity, bound, control, op, reload, recovery, input,
                   beside, external>>

-----------------------------------------------------------------------------
(* finishTransaction(): the slot's reservation is retired first, then the  *)
(* logical transition, the identity the receipt carries and the end of the *)
(* exchange become durable in one Save.                                    *)

Answered(action, state) ==
    /\ tx # None
    /\ tx.env.action = action
    /\ tx.rcpt # None
    /\ tx.rcpt.state = state

RefusedFor(action, reason) ==
    Answered(action, "rejected") /\ tx.rcpt.reason = reason

\* The receipts that finishTransaction is called for.  Any other one, an
\* unexpected refusal for instance, makes the turn fail, now and on resume.
Bound        == Answered("bind", "bound") /\ Connecting
Prepared     == /\ Answered("prepare", "prepared") \/ Answered("prepare", "reported")
                /\ Running /\ op.stage = "prepared"
NoCapacity   == RefusedFor("prepare", "slot_capacity") /\ Running /\ op.stage = "prepared"
Accepted     == Answered("commit", "accepted") /\ Running /\ op.stage = "commit_ready"
Confirmed    == /\ Answered("confirm", "reported")
                /\ Running /\ op.stage = "confirm_ready"
                /\ tx.rcpt.prep = op.prep /\ tx.rcpt.report = op.report
Released     == Answered("release", "released") /\ Running /\ op.stage = "release_ready"
StillHeld    == /\ RefusedFor("release", "slot_resources_pending")
                /\ Running /\ op.stage = "release_ready"
Unbound      == Answered("unbind", "unbound") /\ bound /\ Disconnecting

Finishing ==
    \/ Bound \/ Prepared \/ NoCapacity \/ Accepted \/ Confirmed \/ Released
    \/ StillHeld \/ Unbound

ConfirmConsumed ==
    /\ Finishing
    /\ ConfirmSlotConsumed(Self, tx.env)
    /\ UNCHANGED <<journal, beside, engineVars, historyVars>>

FinishTransaction ==
    /\ ~ConsumeConflict(Self, tx.env)
    /\ ConsumeDone(tx.env)
    /\ identity' = [runtime |-> tx.rcpt.runtime, next |-> tx.rcpt.next,
                    owner |-> tx.rcpt.owner]
    /\ tx' = None
    /\ UNCHANGED <<control, recovery, input, beside, external>>

FinishBind ==
    /\ Bound
    /\ FinishTransaction
    /\ bound' = TRUE
    /\ UNCHANGED <<op, reload>>

FinishPrepare ==
    /\ Prepared
    /\ FinishTransaction
    /\ op' = [op EXCEPT !.prep = tx.env.nonce,
                        !.stage = IF tx.rcpt.state = "reported" THEN "running"
                                  ELSE "commit_ready"]
    /\ UNCHANGED <<bound, reload>>

NewReload(automatic, slots, reconcile) ==
    [phase |-> "intent", from |-> identity.runtime, automatic |-> automatic,
     slots |-> slots, reconcile |-> reconcile]

FinishPrepareCapacity ==
    /\ NoCapacity
    /\ FinishTransaction
    /\ reload' = NewReload(TRUE, FALSE, FALSE)
    /\ UNCHANGED <<bound, op>>

FinishCommit ==
    /\ Accepted
    /\ FinishTransaction
    /\ op' = [op EXCEPT !.stage = "running"]
    /\ UNCHANGED <<bound, reload>>

FinishConfirm ==
    /\ Confirmed
    /\ FinishTransaction
    /\ op' = [op EXCEPT !.stage = "result_verified"]
    /\ UNCHANGED <<bound, reload>>

FinishRelease ==
    /\ Released
    /\ FinishTransaction
    /\ op' = [op EXCEPT !.stage = "complete", !.cleanup = "released"]
    /\ UNCHANGED <<bound, reload>>

FinishReleaseHeld ==
    /\ StillHeld
    /\ FinishTransaction
    /\ op' = [op EXCEPT !.cleanup = "reload_required"]
    /\ UNCHANGED <<bound, reload>>

FinishUnbind ==
    /\ Unbound
    /\ FinishTransaction
    /\ bound' = FALSE
    /\ UNCHANGED <<op, reload>>

-----------------------------------------------------------------------------
(* The operation, outside of an exchange.                                  *)

\* PrepareRequest: the next request of the user.
PrepareRequest ==
    /\ Scheduled /\ ~closing /\ bound /\ tx = None
    /\ op # None => op.stage = "complete" /\ op.id < MaxOps
    /\ op' = [id |-> IF op = None THEN 1 ELSE op.id + 1, attempt |-> 1,
              stage |-> "prepared", prep |-> 0, report |-> None, cleanup |-> ""]
    /\ UNCHANGED <<identity, bound, control, tx, reload, recovery, input,
                   beside, external>>

SaveOp(o) ==
    /\ op' = o
    /\ UNCHANGED <<identity, bound, control, tx, reload, recovery, input,
                   beside, external>>

\* Mutation of CancelPrepared: a commit under way is forgotten.
CancelCommitting ==
    /\ Running /\ closing
    /\ op.stage \in {"prepared", "commit_ready"}
    /\ op' = [op EXCEPT !.stage = "cancelled"]
    /\ tx' = None
    /\ UNCHANGED <<identity, bound, control, reload, recovery, input, beside,
                   external>>

CancelPrepared ==
    /\ Running /\ closing /\ tx = None
    /\ op.stage = "prepared"
    /\ SaveOp([op EXCEPT !.stage = "cancelled"])

\* Mutation of ObserveResult: any record of the job is taken for its report.
ObserveResultEarly ==
    /\ Running /\ tx = None
    /\ op.stage = "running"
    /\ live = identity.runtime
    /\ \E r \in receipts :
         /\ r.action = "prepare" /\ r.ticket = OpTicket
         /\ SaveOp([op EXCEPT !.stage = "confirm_ready", !.report = r.report])

\* HEAD and BODY of the report of exactly this prepare nonce and ticket.
ObserveResult ==
    /\ Running /\ tx = None
    /\ op.stage = "running"
    /\ live = identity.runtime
    /\ \E r \in receipts :
         /\ r.state = "reported" /\ r.action = "prepare"
         /\ r.nonce = op.prep /\ r.ticket = OpTicket
         /\ r.owner = Self
         /\ jobs[OpTicket] # None /\ jobs[OpTicket].state = "reported"
         /\ SaveOp([op EXCEPT !.stage = "confirm_ready", !.report = r.report])

\* A verified result goes to a file before anything else is done with it.
WriteResult ==
    /\ \/ Running /\ op.stage = "result_verified"
       \/ /\ Recovering /\ recovery.phase = "bound" /\ op # None
          /\ op.stage \in {"result_verified", "release_ready"}
    /\ results[op.id] # op.report
    /\ results' = [results EXCEPT ![op.id] = op.report]
    /\ UNCHANGED <<journal, sending, policy, keys, nonces, sent, external>>

\* Mutation of RecordDurable: does not wait for the result file.
RecordDurableUnwritten ==
    /\ Running /\ tx = None
    /\ op.stage = "result_verified"
    /\ SaveOp([op EXCEPT !.stage = "release_ready"])

RecordDurable ==
    /\ Running /\ tx = None
    /\ op.stage = "result_verified"
    /\ results[op.id] = op.report
    /\ SaveOp([op EXCEPT !.stage = "release_ready"])

-----------------------------------------------------------------------------
(* Reloads: requested by the user, for lack of slots or jobs, to enable    *)
(* slots, or to get rid of what a release left behind.                     *)

SaveReload(r) ==
    /\ reload' = r
    /\ UNCHANGED <<identity, bound, control, tx, op, recovery, input, beside,
                   external>>

\* requestSlotReload, from Connect
SlotReload ==
    /\ Connecting /\ tx = None
    /\ InputObserved(NewEnvelope("bind", None))
    /\ needSlots
    /\ ReloadActive => reload.from # identity.runtime
    /\ SaveReload(IF ReloadActive
                  THEN [reload EXCEPT !.from = identity.runtime,
                                      !.phase = "intent", !.slots = TRUE]
                  ELSE NewReload(TRUE, TRUE, TRUE))

\* Mutation of AutomaticReload: does not spare an operation that is running.
AutomaticReloadWhileRunning ==
    /\ Running /\ tx = None
    /\ \/ op.stage = "release_ready" /\ op.cleanup = "reload_required"
       \/ /\ ~closing /\ op.stage \in {"prepared", "running"}
          /\ identity.next + DriverReserve > Slots
    /\ SaveReload(NewReload(TRUE, FALSE, FALSE))

AutomaticReload ==
    /\ Running /\ tx = None
    /\ \/ op.stage = "release_ready" /\ op.cleanup = "reload_required"
       \/ /\ ~closing /\ op.stage = "prepared"
          /\ identity.next + DriverReserve > Slots
    /\ SaveReload(NewReload(TRUE, FALSE, FALSE))

\* recoverMissingRelease: no receipt came for five seconds.
MissingRelease ==
    /\ Running /\ tx # None
    /\ op.stage = "release_ready"
    /\ tx.phase = "input_attempted"
    /\ SaveReload(NewReload(TRUE, FALSE, TRUE))

\* Mutation of RequestReload: does not mark the exchange for reconciliation.
RequestReloadUnreconciled ==
    /\ Admitted /\ ~ReloadActive /\ ~RecoveryActive
    /\ bound \/ (closing /\ tx # None /\ tx.env.action = "bind")
    /\ SaveReload(NewReload(FALSE, FALSE, FALSE))

RequestReload ==
    /\ Admitted /\ ~ReloadActive /\ ~RecoveryActive
    /\ bound \/ (closing /\ tx # None /\ tx.env.action = "bind")
    /\ SaveReload(NewReload(FALSE, FALSE,
                     tx # None \/ (op # None /\ op.stage # "complete")))

ReloadIntent ==
    /\ Admitted /\ ReloadActive
    /\ reload.phase = "intent"
    /\ live = identity.runtime /\ owner = identity.owner
    /\ RecordInputIntent("reload", 0, reload.from)

RecordReloadAttempted ==
    /\ Admitted /\ ReloadActive
    /\ reload.phase = "intent"
    /\ Attempted("reload", 0, reload.from)
    /\ SaveReload([reload EXCEPT !.phase = "input_attempted"])

ReloadComplete ==
    /\ Admitted /\ ReloadActive
    /\ reload.phase = "binding"
    /\ ~RecoveryActive /\ ~ClosingExplicitReload
    /\ SaveReload([reload EXCEPT !.phase = "complete"])

-----------------------------------------------------------------------------
(* Recovery: another runtime has taken the place of the journal's.         *)

\* A turn that polls in vain looks for another runtime.
Polling ==
    \/ ReloadActive /\ reload.phase \in {"intent", "input_attempted"}
    \/ tx = None /\ Connecting
    \/ Advancing /\ tx.rcpt = None /\ (Muted \/ tx.phase # "intent")
    \/ Running /\ tx = None /\ op.stage = "running"
    \/ Running /\ tx = None /\ op.stage = "commit_ready" /\ closing

\* The descriptor of a fresh, unowned runtime that started later.
Candidate ==
    /\ Admitted /\ ~ClosingExplicitReload
    /\ live > identity.runtime
    /\ owner = None

OldAutomatic ==
    /\ ~reload.reconcile
    /\ op # None
    /\ \/ op.stage = "prepared" /\ op.prep = 0
       \/ op.stage = "release_ready" /\ op.cleanup = "reload_required"

\* Mutation of RecoverRuntime: the new runtime is taken to be bound already.
RecoverRuntimeStillBound ==
    /\ Candidate /\ Polling
    /\ ~RecoveryActive
    /\ reload' = IF ReloadActive
                 THEN [reload EXCEPT !.phase = "binding", !.reconcile = TRUE,
                                     !.automatic = @ \/ OldAutomatic]
                 ELSE reload
    /\ recovery' = [phase |-> "binding", from |-> identity.runtime, tx |-> tx]
    /\ tx' = None
    /\ identity' = [runtime |-> live, next |-> cursor, owner |-> None]
    /\ UNCHANGED <<bound, control, op, input, beside, external>>

RecoverRuntime ==
    /\ Candidate /\ Polling
    /\ ~RecoveryActive
    /\ reload' = IF ReloadActive
                 THEN [reload EXCEPT !.phase = "binding", !.reconcile = TRUE,
                                     !.automatic = @ \/ OldAutomatic]
                 ELSE reload
    /\ recovery' = [phase |-> "binding", from |-> identity.runtime, tx |-> tx]
    /\ tx' = None
    /\ identity' = [runtime |-> live, next |-> cursor, owner |-> None]
    /\ bound' = FALSE
    /\ UNCHANGED <<control, op, input, beside, external>>

\* Mutation of RecoverThirdRuntime: starts a recovery of its own and loses
\* the exchange that the first one has kept.
RecoverThirdRuntimeAfresh ==
    /\ Candidate
    /\ RecoveryActive /\ recovery.phase = "binding"
    /\ ReloadActive /\ reload.slots /\ reload.from = identity.runtime
    /\ reload.phase \in {"intent", "input_attempted"}
    /\ ~bound /\ tx = None
    /\ reload' = [reload EXCEPT !.phase = "binding"]
    /\ recovery' = [phase |-> "binding", from |-> identity.runtime, tx |-> None]
    /\ identity' = [runtime |-> live, next |-> cursor, owner |-> None]
    /\ UNCHANGED <<bound, control, tx, op, input, beside, external>>

\* The runtime being bound asked for a reload itself: a third runtime.
RecoverThirdRuntime ==
    /\ Candidate
    /\ RecoveryActive /\ recovery.phase = "binding"
    /\ ReloadActive /\ reload.slots /\ reload.from = identity.runtime
    /\ reload.phase \in {"intent", "input_attempted"}
    /\ ~bound /\ tx = None
    /\ reload' = [reload EXCEPT !.phase = "binding"]
    /\ identity' = [runtime |-> live, next |-> cursor, owner |-> None]
    /\ UNCHANGED <<bound, control, tx, op, recovery, input, beside, external>>

RecoveryBound ==
    /\ Recovering
    /\ recovery.phase = "binding"
    /\ bound
    /\ recovery' = [recovery EXCEPT !.phase = "bound"]
    /\ UNCHANGED <<identity, bound, control, tx, op, reload, input, beside,
                   external>>

\* The fresh binding retires the reservation of the exchange it cut off.
Supersede ==
    /\ Recovering
    /\ recovery.phase = "bound" /\ recovery.tx # None
    /\ RetireSlotRuntime(Self, recovery.tx.env, identity.runtime)
    /\ UNCHANGED <<journal, beside, engineVars, historyVars>>

\* Mutation of NeverCommitted: overlooks the commit that may be under way.
NeverCommittedUnlessRunning == op.stage \in {"prepared", "commit_ready"}

\* No commit of this operation can have reached the pool.
NeverCommitted ==
    \/ op.stage = "prepared"
    \/ op.stage = "commit_ready" /\ recovery.tx = None

\* Mutation of Reconciled: the next attempt keeps the stage of this one.
ReconciledSameStage ==
    IF OpSettled THEN op
    ELSE IF op.stage \in {"result_verified", "release_ready"}
         THEN [op EXCEPT !.stage = "complete", !.cleanup = "runtime_destroyed"]
    ELSE IF closing /\ NeverCommitted THEN [op EXCEPT !.stage = "cancelled"]
    ELSE IF ~closing /\ (NeverCommitted \/ policy[op.id] = "observation")
         THEN [op EXCEPT !.attempt = @ + 1]
    ELSE [op EXCEPT !.stage = "execution_unknown"]

Reconciled ==
    IF OpSettled THEN op
    ELSE IF op.stage \in {"result_verified", "release_ready"}
         THEN [op EXCEPT !.stage = "complete", !.cleanup = "runtime_destroyed"]
    ELSE IF closing /\ NeverCommitted THEN [op EXCEPT !.stage = "cancelled"]
    ELSE IF ~closing /\ (NeverCommitted \/ policy[op.id] = "observation")
         THEN [op EXCEPT !.attempt = @ + 1, !.stage = "prepared", !.prep = 0,
                         !.report = None]
    ELSE [op EXCEPT !.stage = "execution_unknown"]

Reconcile ==
    /\ Recovering
    /\ recovery.phase = "bound"
    /\ recovery.tx # None =>
         /\ ~RetireRuntimeConflict(Self, recovery.tx.env, identity.runtime)
         /\ RetireRuntimeDone(recovery.tx.env, identity.runtime)
    /\ op # None /\ op.stage \in {"result_verified", "release_ready"} =>
         results[op.id] = op.report
    /\ ~OpSettled => Reconciled.attempt <= MaxAttempts
    /\ op' = Reconciled
    /\ recovery' = [recovery EXCEPT !.phase = "complete"]
    /\ UNCHANGED <<identity, bound, control, tx, reload, input, beside,
                   external>>

-----------------------------------------------------------------------------
(* The end: by unbinding, by the proof that the runtime is gone, by the    *)
(* proof that the process is.                                              *)

RequestClose ==
    /\ alive /\ ~closed /\ ~closing
    /\ closing' = TRUE
    /\ UNCHANGED <<identity, bound, closed, runtimeEnd, processEnd, tx, op,
                   reload, recovery, input, beside, external>>

CloseConnection ==
    /\ Disconnecting
    /\ ~bound /\ tx = None
    /\ closing' = FALSE /\ closed' = TRUE
    /\ UNCHANGED <<identity, bound, runtimeEnd, processEnd, tx, op, reload,
                   recovery, input, beside, external>>

\* The claims this connection may still hold in the pool.
OldClaims == {t \in {tx, IF recovery = None THEN None ELSE recovery.tx} : t # None}

\* continueOrRetireWith: closing, or the budget of some goal is used up.
MayRetire == closing \/ ~bound \/ ~OpSettled \/ ReloadActive

BookkeepingOnly ==
    /\ closing /\ ~bound /\ tx = None
    /\ OpSettled /\ ~ReloadActive /\ ~RecoveryActive

\* Mutation of ObserveReplacement: any runtime seen alive is taken for proof.
ObserveSameRuntime ==
    /\ Admitted
    /\ MayRetire /\ ~BookkeepingOnly
    /\ runtimeEnd' = live
    /\ UNCHANGED <<identity, bound, closing, closed, processEnd, tx, op,
                   reload, recovery, input, beside, external>>

\* Another runtime is seen alive in the same process; its proof is durable
\* and from then on the connection can only end.
ObserveReplacement ==
    /\ Admitted
    /\ MayRetire /\ ~BookkeepingOnly
    /\ live # identity.runtime
    /\ recovery # None => recovery.from # live
    /\ \A t \in OldClaims : t.env.runtime # live
    /\ runtimeEnd' = live
    /\ UNCHANGED <<identity, bound, closing, closed, processEnd, tx, op,
                   reload, recovery, input, beside, external>>

RetireReplaced ==
    /\ alive /\ ~closed /\ runtimeEnd # None
    /\ \E t \in OldClaims : RetireSlotRuntime(Self, t.env, runtimeEnd)
    /\ UNCHANGED <<journal, beside, engineVars, historyVars>>

\* closeEndedState
CloseEndedState ==
    /\ op' = IF op = None THEN op
             ELSE IF op.stage \in {"complete", "cancelled"} THEN op
             ELSE IF op.stage \in {"result_verified", "release_ready"}
             THEN [op EXCEPT !.stage = "complete", !.cleanup = "runtime_destroyed"]
             ELSE [op EXCEPT !.stage = "execution_unknown", !.cleanup = ""]
    /\ bound' = FALSE /\ closed' = TRUE /\ closing' = FALSE
    /\ tx' = None /\ recovery' = None
    /\ UNCHANGED <<identity, runtimeEnd, processEnd, input, beside, external>>

\* Mutation of CloseReplaced: does not wait for the claims to be retired.
CloseReplacedAtOnce ==
    /\ alive /\ ~closed /\ runtimeEnd # None
    /\ CloseEndedState
    /\ reload' = IF ClosingExplicitReload
                 THEN [reload EXCEPT !.phase = "complete"] ELSE None

CloseReplaced ==
    /\ alive /\ ~closed /\ runtimeEnd # None
    /\ \A t \in OldClaims :
         /\ ~RetireRuntimeConflict(Self, t.env, runtimeEnd)
         /\ RetireRuntimeDone(t.env, runtimeEnd)
    /\ CloseEndedState
    /\ reload' = IF ClosingExplicitReload
                 THEN [reload EXCEPT !.phase = "complete"] ELSE None

ObserveProcessEnd ==
    /\ ~alive /\ ~closed /\ ~processEnd
    /\ processEnd' = TRUE
    /\ UNCHANGED <<identity, bound, closing, closed, runtimeEnd, tx, op,
                   reload, recovery, input, beside, external>>

\* Mutation of RetireEnded: overlooks the exchange kept by a recovery.
RetireEndedCurrent ==
    /\ processEnd /\ ~closed
    /\ tx # None
    /\ RetireSlotProcess(Self, tx.env)
    /\ UNCHANGED <<journal, beside, engineVars, historyVars>>

RetireEnded ==
    /\ processEnd /\ ~closed
    /\ \E t \in OldClaims : RetireSlotProcess(Self, t.env)
    /\ UNCHANGED <<journal, beside, engineVars, historyVars>>

CloseEnded ==
    /\ processEnd /\ ~closed
    /\ \A t \in OldClaims :
         /\ entry[t.env.index].nonce = t.env.nonce => Claims(Self, t.env)
         /\ RetireProcessDone(t.env)
    /\ CloseEndedState
    /\ reload' = None

\* disconnectEnded: only a disconnect, or the close before a repair, closes a
\* connection whose process has ended.
DisconnectEnded == ObserveProcessEnd \/ RetireEnded \/ CloseEnded

-----------------------------------------------------------------------------
Beside == <<journal, sending, results, policy, nonces, sent, poolVars>>

DeliverKey ==
    /\ keys > 0
    /\ keys' = keys - 1
    /\ Wake(payload)
    /\ UNCHANGED Beside

\* Not delivered, or delivered while the addon was not ready for input.
LoseKey ==
    /\ keys > 0
    /\ keys' = keys - 1
    /\ UNCHANGED <<Beside, engineVars, historyVars>>

Game ==
    \/ DeliverKey
    \/ LoseKey
    \/ /\ JobSettles \/ CloseCancelsPrepared \/ RuntimeStarts \/ ProcessEnds
       /\ UNCHANGED <<Beside, keys>>

Perform == SendKey \/ SendReloadKey \/ RecordInputOutcome \/ Crash

User == PrepareRequest \/ RequestReload \/ RequestClose

Driver ==
    \/ ConnectBegin \/ RunPrepare \/ RunCommit \/ RunConfirm \/ RunRelease
    \/ DisconnectBegin
    \/ TxPublishReserve \/ TxPublishWrite \/ TxPublishSeal
    \/ Reallocate \/ RecordPublished
    \/ InvokeIntent \/ RecordInputAttempted \/ ReceiveReceipt
    \/ ConfirmConsumed
    \/ FinishBind \/ FinishPrepare \/ FinishPrepareCapacity \/ FinishCommit
    \/ FinishConfirm \/ FinishRelease \/ FinishReleaseHeld \/ FinishUnbind
    \/ CancelPrepared \/ ObserveResult \/ WriteResult \/ RecordDurable
    \/ SlotReload \/ AutomaticReload \/ MissingRelease
    \/ ReloadIntent \/ RecordReloadAttempted \/ ReloadComplete
    \/ RecoverRuntime \/ RecoverThirdRuntime \/ RecoveryBound \/ Supersede
    \/ Reconcile
    \/ CloseConnection \/ ObserveReplacement \/ RetireReplaced \/ CloseReplaced
    \/ DisconnectEnded

\* One program drives a connection at a time (the driver lease); while it is
\* inside perform() no other step of the connection happens.
Next ==
    \/ sending = "idle" /\ (Driver \/ User)
    \/ Perform
    \/ Game

Spec == Init /\ [][Next]_vars

\* Somebody who wants the connection closed repeats the disconnect until one of
\* them gets through, and the program that is inside perform() returns from it
\* or dies.  A resume or an execute cannot open a process that has ended, and
\* nothing is assumed of them.
RepeatedDisconnect == sending = "idle" /\ DisconnectEnded
FairSpec == Spec /\ WF_vars(RepeatedDisconnect) /\ WF_vars(RecordInputOutcome)

-----------------------------------------------------------------------------
(* Properties.                                                             *)

AttemptsOf(o) == {<<o, a>> : a \in 1..MaxAttempts}

(* Business code of an opaque operation is started at most once, and of    *)
(* any operation at most once per ticket, whatever is lost, delayed,       *)
(* reloaded or resumed ("It cannot repeat a commit", Driver.Run).          *)
AtMostOnce ==
    /\ \A t \in Ticket : runs[t] <= 1
    /\ \A o \in Operations : policy[o] = "opaque" =>
         \A t, u \in AttemptsOf(o) : runs[t] = 1 /\ runs[u] = 1 => t = u

(* An operation that is reported as cancelled was not executed under its   *)
(* last ticket and never will be; an opaque one under none at all.         *)
CancelledNeverRan ==
    op # None /\ op.stage = "cancelled" =>
        /\ runs[OpTicket] = 0
        /\ policy[op.id] = "opaque" => \A t \in AttemptsOf(op.id) : runs[t] = 0

(* The report the journal keeps for an operation, and the one in the       *)
(* result file, is what the job of the operation's present ticket ended    *)
(* with: never the report of another attempt, operation or runtime.        *)
ResultAuthentic ==
    op # None =>
        /\ op.stage \in {"confirm_ready", "result_verified", "release_ready", "complete"} =>
             op.report # None /\ op.report = outcome[OpTicket]
        /\ results[op.id] # None => results[op.id] = outcome[OpTicket]

(* The engine forgets the body of a report only after the host has it in   *)
(* its result file (Driver.Run: both precede game release).                *)
ReleaseAfterDurable ==
    \A t \in Ticket :
        jobs[t] # None /\ jobs[t].state = "released" => results[t[1]] # None

(* A reservation of this connection is given up only when the live engine  *)
(* can no longer load the envelope: an envelope that can still be loaded   *)
(* is still reserved, however its publication, receipt, recovery or        *)
(* retirement was interrupted.                                             *)
RetiredNeverLoads ==
    \A i \in Index :
        /\ alive /\ cursor <= i /\ payload[i] # Inert
        /\ payload[i].runtime = live /\ payload[i].owner = Self
        => Reserved(i)

(* A closed connection leaves no reservation behind in the shared pool and *)
(* no engine bound to it.                                                  *)
ClosedIsClean ==
    closed =>
        /\ \A i \in Index : entry[i].consumer = Self => ~Reserved(i)
        /\ alive => owner # Self

(* While the journal says bound, the runtime it names is bound to this     *)
(* connection, except in the time an unbind is under way.                  *)
BoundAgrees ==
    bound /\ alive /\ live = identity.runtime =>
        owner = Self \/ (tx # None /\ tx.env.action = "unbind")

(* The engine never refuses this connection anything but a prepare for     *)
(* lack of room and a release of resources still held, which Run handles,  *)
(* and a commit whose prepared job the player cancelled by turning the     *)
(* bridge off, whose code then has not run.  Any other refusal would leave *)
(* the connection with an exchange it cannot finish.                       *)
NoStrayRefusal ==
    tx # None /\ tx.rcpt # None /\ tx.rcpt.state = "rejected" =>
        \/ tx.env.action = "prepare" /\ tx.rcpt.reason = "slot_capacity"
        \/ tx.env.action = "release" /\ tx.rcpt.reason = "slot_resources_pending"
        \/ /\ tx.env.action = "commit" /\ tx.rcpt.reason = "slot_commit_mismatch"
           /\ runs[tx.env.ticket] = 0

(* State.validate accepts every state a step produces.  Save validates     *)
(* before it writes, so a step to a state that validate refuses could      *)
(* never be saved and the connection would stop there.                     *)
JournalValid ==
    /\ closed => ~bound /\ tx = None /\ OpSettled
    /\ recovery # None =>
         /\ recovery.from < identity.runtime
         /\ recovery.tx # None => recovery.tx.env.runtime = recovery.from
    /\ ReloadActive =>
         /\ ~closed
         /\ \/ reload.reconcile \/ op = None \/ op.stage = "complete"
            \/ op.stage = "prepared" /\ op.prep = 0
            \/ op.stage = "release_ready" /\ op.cleanup = "reload_required"
    /\ tx # None => tx.env.runtime = identity.runtime
    /\ op # None =>
         /\ op.cleanup \in {"released", "runtime_destroyed"} => op.stage = "complete"
         /\ op.cleanup = "reload_required" => op.stage = "release_ready"
         /\ op.stage \notin {"prepared", "cancelled", "execution_unknown"} => op.prep # 0

(* No wake chord is sent twice for one exchange: not after a crash between *)
(* the durable intent and the outcome, not on resume, not after a reload.  *)
OneKeyPerExchange ==
    [][keys' > keys => tx.env.nonce \notin sent]_vars

(* Whatever a connection was doing when the game process ended, a          *)
(* disconnect that is repeated gets it closed: every torn publication,     *)
(* interrupted recovery and saved proof leaves claims that can still be    *)
(* retired, and nothing another command does can prevent it.               *)
ProcessEndCloses == ~alive ~> closed

(* A reload that the driver starts by itself destroys nothing that is not  *)
(* safe: whatever the runtime it is about to destroy has been asked to run *)
(* and has reported is in a result file (AutomaticReload, MissingRelease,  *)
(* FinishPrepareCapacity; SlotReload meets an engine nobody has used).     *)
ReloadLosesNothing ==
    ReloadActive /\ reload.automatic /\ alive /\ live = reload.from =>
        \A t \in Ticket : jobs[t] # None => results[t[1]] # None

=============================================================================
