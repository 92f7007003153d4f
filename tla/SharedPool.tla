----------------------------- MODULE SharedPool -----------------------------
(***************************************************************************)
(* Several connections, each with a game of its own, on one slot pool.     *)
(* An exchange of a connection is what Channel makes of it (advance,       *)
(* finishTransaction, finishRecovery), without what it is about; the game  *)
(* is what SlotRuntime.lua makes of it, one slot file at a time, because   *)
(* the files may change under a wake that is on its way through them.      *)
(*                                                                         *)
(* Publications, retirements and keys happen under the publication lease   *)
(* of the installation.  The lease is an operating system lock: it ends    *)
(* with the program that holds it, at whatever point of a publication.     *)
(***************************************************************************)
EXTENDS SlotPool

CONSTANT MaxNonce   \* bound: exchanges, over all connections

ASSUME SharedPoolAssumption ==
    /\ Cardinality(Drivers) \in 1..MaxRuntime
    /\ MaxNonce \in Nat

VARIABLES
    holder,    \* the program inside a publication, or None
    alive,     \* the game process of a connection exists
    live,      \* the runtime of the game, by its unique token
    started,   \* the last runtime token handed out
    cursor,    \* nextSlot() of that runtime
    waking,    \* the runtime is inside wake()
    loaded,    \* nonces of the envelopes that the runtime has received
    key,       \* a wake chord is on its way
    runtime,   \* journal: Identity.Runtime
    next,      \* journal: Identity.NextSlot
    bound,     \* journal: an exchange with this runtime has succeeded
    tx,        \* journal: Transaction
    old,       \* journal: Recovery.Transaction, until it is retired
    nonces     \* the last nonce handed out

game    == <<alive, live, started, cursor, waking, loaded>>
journal == <<runtime, next, bound, tx, old, nonces>>
vars    == <<poolVars, holder, game, key, journal>>

Phase == {"intent", "published", "input_attempted", "received"}

ASSUME NoneIsNoExchange == None \notin [env : Envelope, phase : Phase]

TypeOK ==
    /\ PoolTypeOK
    /\ holder \in Drivers \cup {None}
    /\ alive \in [Drivers -> BOOLEAN]
    /\ live \in [Drivers -> Runtimes] /\ started \in Runtimes
    /\ cursor \in [Drivers -> NextSlot]
    /\ waking \in [Drivers -> BOOLEAN]
    /\ loaded \in [Drivers -> SUBSET Nat]
    /\ key \in [Drivers -> BOOLEAN]
    /\ runtime \in [Drivers -> Runtimes]
    /\ next \in [Drivers -> NextSlot]
    /\ bound \in [Drivers -> BOOLEAN]
    /\ tx \in [Drivers -> [env : Envelope, phase : Phase] \cup {None}]
    /\ old \in [Drivers -> Envelope \cup {None}]
    /\ nonces \in Nat

\* Every game has started its first runtime.
Init ==
    /\ entry = [i \in Index |-> FreshEntry]
    /\ payload = [i \in Index |-> Inert]
    /\ holder = None
    /\ alive = [d \in Drivers |-> TRUE]
    /\ started = Cardinality(Drivers)
    /\ live \in {f \in [Drivers -> 1..started] :
                    \A c, d \in Drivers : c # d => f[c] # f[d]}
    /\ cursor = [d \in Drivers |-> 1]
    /\ waking = [d \in Drivers |-> FALSE]
    /\ loaded = [d \in Drivers |-> {}]
    /\ key = [d \in Drivers |-> FALSE]
    /\ runtime = live
    /\ next = [d \in Drivers |-> 1]
    /\ bound = [d \in Drivers |-> FALSE]
    /\ tx = [d \in Drivers |-> None]
    /\ old = [d \in Drivers |-> None]
    /\ nonces = 0

-----------------------------------------------------------------------------
(* The driver.                                                             *)
NewEnvelope(d) ==
    [nonce |-> nonces + 1, action |-> "bind", runtime |-> runtime[d],
     owner |-> d, ticket |-> None, start |-> next[d], index |-> next[d],
     prep |-> 0, report |-> None]

Begin(d) ==
    /\ alive[d] /\ tx[d] = None
    /\ next[d] <= Slots /\ nonces < MaxNonce
    /\ tx' = [tx EXCEPT ![d] = [env |-> NewEnvelope(d), phase |-> "intent"]]
    /\ nonces' = nonces + 1
    /\ UNCHANGED <<poolVars, holder, game, key, runtime, next, bound, old>>

InPhase(d, phase) == alive[d] /\ tx[d] # None /\ tx[d].phase = phase

\* PublishSlot, from the reservation to the end of the lease.
Reserve(d) ==
    /\ InPhase(d, "intent") /\ holder = None
    /\ PublishReserve(d, tx[d].env)
    /\ holder' = d
    /\ UNCHANGED <<game, key, journal>>

Write(d) ==
    /\ InPhase(d, "intent") /\ holder = d
    /\ PublishWrite(d, tx[d].env)
    /\ UNCHANGED <<holder, game, key, journal>>

Seal(d) ==
    /\ InPhase(d, "intent") /\ holder = d
    /\ PublishSeal(d, tx[d].env)
    /\ holder' = None
    /\ UNCHANGED <<game, key, journal>>

\* The program dies; the journal stays as it is and so does the pool.
Crash(d) ==
    /\ holder = d
    /\ holder' = None
    /\ UNCHANGED <<poolVars, game, key, journal>>

SaveTx(d, t) ==
    /\ tx' = [tx EXCEPT ![d] = t]
    /\ UNCHANGED <<poolVars, holder, game, key, runtime, next, bound, old, nonces>>

Reallocate(d) ==
    /\ InPhase(d, "intent") /\ holder = None
    /\ ReservedByOther(d, tx[d].env)
    /\ FreeAfter(tx[d].env.index) # {}
    /\ SaveTx(d, [tx[d] EXCEPT !.env.index = NextFreeSlot(@)])

RecordPublished(d) ==
    /\ InPhase(d, "intent") /\ holder = None
    /\ Published(tx[d].env)
    /\ SaveTx(d, [tx[d] EXCEPT !.phase = "published"])

SendKey(d) ==
    /\ InPhase(d, "published") /\ holder = None
    /\ PublicationVerified(d, tx[d].env)
    /\ RouteVerified(tx[d].env)
    /\ live[d] = tx[d].env.runtime /\ cursor[d] = tx[d].env.start
    /\ ~key[d] /\ ~waking[d]
    /\ key' = [key EXCEPT ![d] = TRUE]
    /\ tx' = [tx EXCEPT ![d].phase = "input_attempted"]
    /\ UNCHANGED <<poolVars, holder, game, runtime, next, bound, old, nonces>>

Receive(d) ==
    /\ InPhase(d, "input_attempted")
    /\ live[d] = tx[d].env.runtime /\ ~waking[d]
    /\ tx[d].env.nonce \in loaded[d]
    /\ SaveTx(d, [tx[d] EXCEPT !.phase = "received"])

\* Mutation of Consume: the reservation is given up before the receipt.
ConsumeEarly(d) ==
    /\ InPhase(d, "input_attempted") /\ holder = None
    /\ ConfirmSlotConsumed(d, tx[d].env)
    /\ UNCHANGED <<holder, game, key, journal>>

Consume(d) ==
    /\ InPhase(d, "received") /\ holder = None
    /\ ConfirmSlotConsumed(d, tx[d].env)
    /\ UNCHANGED <<holder, game, key, journal>>

Finish(d) ==
    /\ InPhase(d, "received")
    /\ ~ConsumeConflict(d, tx[d].env) /\ ConsumeDone(tx[d].env)
    /\ next' = [next EXCEPT ![d] = tx[d].env.index + 1]
    /\ bound' = [bound EXCEPT ![d] = TRUE]
    /\ tx' = [tx EXCEPT ![d] = None]
    /\ UNCHANGED <<poolVars, holder, game, key, runtime, old, nonces>>

\* Mutation of Recover: the exchange that the reload cut off is forgotten.
RecoverForgetting(d) ==
    /\ alive[d] /\ holder # d
    /\ live[d] > runtime[d] /\ ~waking[d]
    /\ old[d] = None
    /\ tx' = [tx EXCEPT ![d] = None]
    /\ runtime' = [runtime EXCEPT ![d] = live[d]]
    /\ next' = [next EXCEPT ![d] = cursor[d]]
    /\ bound' = [bound EXCEPT ![d] = FALSE]
    /\ UNCHANGED <<poolVars, holder, game, key, old, nonces>>

\* A later runtime takes the place of the one that was lost.
Recover(d) ==
    /\ alive[d] /\ holder # d
    /\ live[d] > runtime[d] /\ ~waking[d]
    /\ old[d] = None
    /\ old' = [old EXCEPT ![d] = IF tx[d] = None THEN None ELSE tx[d].env]
    /\ tx' = [tx EXCEPT ![d] = None]
    /\ runtime' = [runtime EXCEPT ![d] = live[d]]
    /\ next' = [next EXCEPT ![d] = cursor[d]]
    /\ bound' = [bound EXCEPT ![d] = FALSE]
    /\ UNCHANGED <<poolVars, holder, game, key, nonces>>

\* Supersede, once an exchange with the new runtime has succeeded.
Supersede(d) ==
    /\ alive[d] /\ old[d] # None /\ holder = None
    /\ tx[d] = None /\ bound[d]
    /\ RetireSlotRuntime(d, old[d], runtime[d])
    /\ UNCHANGED <<holder, game, key, journal>>

Superseded(d) ==
    /\ alive[d] /\ old[d] # None
    /\ tx[d] = None /\ bound[d]
    /\ ~RetireRuntimeConflict(d, old[d], runtime[d])
    /\ RetireRuntimeDone(old[d], runtime[d])
    /\ old' = [old EXCEPT ![d] = None]
    /\ UNCHANGED <<poolVars, holder, game, key, runtime, next, bound, tx, nonces>>

Envelopes(d) ==
    {e \in {IF tx[d] = None THEN None ELSE tx[d].env, old[d]} : e # None}

\* disconnectEnded
RetireEnded(d) ==
    /\ ~alive[d] /\ holder = None
    /\ \E e \in Envelopes(d) : RetireSlotProcess(d, e)
    /\ UNCHANGED <<holder, game, key, journal>>

CloseEnded(d) ==
    /\ ~alive[d] /\ holder # d
    /\ Envelopes(d) # {}
    /\ \A e \in Envelopes(d) :
         /\ entry[e.index].nonce = e.nonce => Claims(d, e)
         /\ RetireProcessDone(e)
    /\ tx' = [tx EXCEPT ![d] = None] /\ old' = [old EXCEPT ![d] = None]
    /\ UNCHANGED <<poolVars, holder, game, key, runtime, next, bound, nonces>>

-----------------------------------------------------------------------------
(* The game.                                                               *)
DeliverKey(d) ==
    /\ alive[d] /\ key[d] /\ ~waking[d]
    /\ key' = [key EXCEPT ![d] = FALSE]
    /\ waking' = [waking EXCEPT ![d] = TRUE]
    /\ UNCHANGED <<poolVars, holder, alive, live, started, cursor, loaded, journal>>

LoseKey(d) ==
    /\ key[d]
    /\ key' = [key EXCEPT ![d] = FALSE]
    /\ UNCHANGED <<poolVars, holder, game, journal>>

\* LoadInputSlot: one file, as it is on disk at this moment.
LoadSlot(d) ==
    LET e == payload[cursor[d]]
        own == e # Inert /\ e.runtime = live[d]
    IN
    /\ alive[d] /\ waking[d] /\ cursor[d] <= Slots
    /\ loaded' = IF own THEN [loaded EXCEPT ![d] = @ \cup {e.nonce}] ELSE loaded
    /\ waking' = [waking EXCEPT ![d] = ~own]
    /\ cursor' = [cursor EXCEPT ![d] = @ + 1]
    /\ UNCHANGED <<poolVars, holder, alive, live, started, key, journal>>

\* The slots are used up, or the client fails to load the next one.
StopWaking(d) ==
    /\ alive[d] /\ waking[d]
    /\ waking' = [waking EXCEPT ![d] = FALSE]
    /\ UNCHANGED <<poolVars, holder, alive, live, started, cursor, loaded, key, journal>>

RuntimeStarts(d) ==
    /\ alive[d] /\ ~waking[d] /\ started < MaxRuntime
    /\ started' = started + 1
    /\ live' = [live EXCEPT ![d] = started + 1]
    /\ cursor' = [cursor EXCEPT ![d] = 1]
    /\ loaded' = [loaded EXCEPT ![d] = {}]
    /\ UNCHANGED <<poolVars, holder, alive, waking, key, journal>>

ProcessEnds(d) ==
    /\ alive[d]
    /\ alive' = [alive EXCEPT ![d] = FALSE]
    /\ waking' = [waking EXCEPT ![d] = FALSE]
    /\ UNCHANGED <<poolVars, holder, live, started, cursor, loaded, key, journal>>

-----------------------------------------------------------------------------
Driver(d) ==
    \/ Begin(d) \/ Reserve(d) \/ Write(d) \/ Seal(d) \/ Reallocate(d)
    \/ RecordPublished(d) \/ SendKey(d) \/ Receive(d) \/ Consume(d)
    \/ Finish(d) \/ Recover(d) \/ Supersede(d) \/ Superseded(d)
    \/ RetireEnded(d) \/ CloseEnded(d) \/ Crash(d)

Game(d) ==
    \/ DeliverKey(d) \/ LoseKey(d) \/ LoadSlot(d) \/ StopWaking(d)
    \/ RuntimeStarts(d) \/ ProcessEnds(d)

Next == \E d \in Drivers : Driver(d) \/ Game(d)

Spec == Init /\ [][Next]_vars

-----------------------------------------------------------------------------
(* Whatever the other connections publish, move, retire or leave torn, a   *)
(* key that has been sent finds its envelope: it stays where it is, no     *)
(* other envelope of the same runtime gets in front of it, and the engine  *)
(* does not pass its slot without receiving it (VerifySlotPublication      *)
(* checks this only up to the key).                                        *)
KeyFindsTarget ==
    \A d \in Drivers :
        InPhase(d, "input_attempted") /\ live[d] = tx[d].env.runtime
        /\ tx[d].env.nonce \notin loaded[d] =>
            /\ cursor[d] <= tx[d].env.index
            /\ payload[tx[d].env.index] = tx[d].env
            /\ \A i \in cursor[d] .. (tx[d].env.index - 1) :
                 payload[i] # Inert => payload[i].runtime # live[d]

(* No slot is lost to the pool: every reservation that blocks a slot is    *)
(* the claim of an exchange that its connection still has in its journal   *)
(* and so can still consume or retire.                                     *)
NoOrphan ==
    \A i \in Index : Reserved(i) =>
        \E e \in Envelopes(entry[i].consumer) :
            e.index = i /\ Claims(entry[i].consumer, e)

(* An envelope that a game can still load is reserved for its connection,  *)
(* so that no other connection overwrites it before it is received.        *)
LoadableIsReserved ==
    \A d \in Drivers : \A i \in Index :
        /\ alive[d] /\ cursor[d] <= i /\ payload[i] # Inert
        /\ payload[i].runtime = live[d]
        => Reserved(i) /\ entry[i].consumer = d
=============================================================================
