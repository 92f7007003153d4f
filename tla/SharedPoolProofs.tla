--------------------------- MODULE SharedPoolProofs --------------------------
(***************************************************************************)
(* Theorems about SharedPool, for any number of connections, slots,        *)
(* runtimes and exchanges: types, no drift, no orphaned reservation, what  *)
(* a key finds and what can be loaded.                                     *)
(***************************************************************************)
EXTENDS SharedPool, SlotPoolProofs, TLAPS

-----------------------------------------------------------------------------
(* Types.                                                                  *)
Exchange == [env : Envelope, phase : Phase]

HolderTyped == holder \in Drivers \cup {None}

GameTyped ==
    /\ alive \in [Drivers -> BOOLEAN]
    /\ live \in [Drivers -> Runtimes] /\ started \in Runtimes
    /\ cursor \in [Drivers -> NextSlot]
    /\ waking \in [Drivers -> BOOLEAN]
    /\ loaded \in [Drivers -> SUBSET Nat]
    /\ key \in [Drivers -> BOOLEAN]

JournalTyped ==
    /\ runtime \in [Drivers -> Runtimes]
    /\ next \in [Drivers -> NextSlot]
    /\ bound \in [Drivers -> BOOLEAN]
    /\ tx \in [Drivers -> Exchange \cup {None}]
    /\ old \in [Drivers -> Envelope \cup {None}]
    /\ nonces \in Nat

Typed == PoolTypeOK /\ HolderTyped /\ GameTyped /\ JournalTyped

LEMMA TypedImpliesTypeOK == Typed => TypeOK
BY DEF Typed, TypeOK, HolderTyped, GameTyped, JournalTyped, Exchange

LEMMA InitTyped == Init => Typed
<1> SUFFICES ASSUME Init PROVE Typed OBVIOUS
<1> USE SlotWireAssumption, SharedPoolAssumption
<1>1. FreshEntry \in Entry
  BY DEF FreshEntry, Entry, Payload, Runtimes
<1>2. PoolTypeOK
  BY <1>1 DEF Init, PoolTypeOK, Payload
<1>3. started \in Runtimes /\ 1..started \subseteq Runtimes
  BY DEF Init, Runtimes
<1>4. live \in [Drivers -> Runtimes]
  BY <1>3 DEF Init
<1>5. 1 \in NextSlot
  BY DEF NextSlot
<1> QED BY <1>2, <1>3, <1>4, <1>5
        DEF Typed, Init, HolderTyped, GameTyped, JournalTyped

(* Steps that change the pool, the game, the exchange of one connection.   *)
LEMMA JournalStepTyped ==
    ASSUME Typed, JournalTyped', UNCHANGED <<poolVars, holder, game, key>>
    PROVE  Typed'
BY DEF Typed, poolVars, game, PoolTypeOK, HolderTyped, GameTyped

LEMMA SaveTxTyped ==
    ASSUME Typed, NEW d \in Drivers, NEW t \in Exchange, SaveTx(d, t)
    PROVE  Typed'
<1>1. JournalTyped' BY DEF SaveTx, Typed, JournalTyped
<1> QED BY <1>1, JournalStepTyped DEF SaveTx

LEMMA InPhaseTyped ==
    ASSUME Typed, NEW d \in Drivers, tx[d] # None
    PROVE  tx[d] \in Exchange /\ tx[d].env \in Envelope
BY DEF Typed, JournalTyped, Exchange

LEMMA PoolStepTyped ==
    ASSUME Typed, PoolTypeOK', HolderTyped', UNCHANGED <<game, key, journal>>
    PROVE  Typed'
BY DEF Typed, game, journal, GameTyped, JournalTyped

LEMMA GameStepTyped ==
    ASSUME Typed, GameTyped', UNCHANGED <<poolVars, holder, journal>>
    PROVE  Typed'
BY DEF Typed, poolVars, journal, PoolTypeOK, HolderTyped, JournalTyped

(* Publications and retirements.                                           *)
PoolStep(d) ==
    \/ Reserve(d) \/ Write(d) \/ Seal(d) \/ Consume(d) \/ Supersede(d)
    \/ RetireEnded(d)

LEMMA EnvelopesTyped ==
    ASSUME Typed, NEW d \in Drivers, NEW e \in Envelopes(d)
    PROVE  e \in Envelope
BY InPhaseTyped DEF Typed, JournalTyped, Envelopes

LEMMA PoolStepTypes ==
    ASSUME Typed, NEW d \in Drivers, PoolStep(d)
    PROVE  PoolTypeOK' /\ Typed'
<1>0. PoolTypeOK /\ HolderTyped BY DEF Typed
<1>1. CASE Reserve(d)
  <2>1. tx[d].env \in Envelope BY <1>1, InPhaseTyped DEF Reserve, InPhase
  <2>2. PoolTypeOK' BY <1>0, <1>1, <2>1, PublishReserveTyped DEF Reserve
  <2>3. HolderTyped' BY <1>1 DEF Reserve, HolderTyped
  <2> QED BY <1>1, <2>2, <2>3, PoolStepTyped DEF Reserve
<1>2. CASE Write(d)
  <2>1. tx[d].env \in Envelope BY <1>2, InPhaseTyped DEF Write, InPhase
  <2>2. PoolTypeOK' BY <1>0, <1>2, <2>1, PublishWriteTyped DEF Write
  <2>3. HolderTyped' BY <1>0, <1>2 DEF Write, HolderTyped
  <2> QED BY <1>2, <2>2, <2>3, PoolStepTyped DEF Write
<1>3. CASE Seal(d)
  <2>1. tx[d].env \in Envelope BY <1>3, InPhaseTyped DEF Seal, InPhase
  <2>2. PoolTypeOK' BY <1>0, <1>3, <2>1, PublishSealTyped DEF Seal
  <2>3. HolderTyped' BY <1>3 DEF Seal, HolderTyped
  <2> QED BY <1>3, <2>2, <2>3, PoolStepTyped DEF Seal
<1>4. CASE Consume(d)
  <2>1. tx[d].env \in Envelope BY <1>4, InPhaseTyped DEF Consume, InPhase
  <2>2. PoolTypeOK' BY <1>0, <1>4, <2>1, ConfirmSlotConsumedTyped DEF Consume
  <2>3. HolderTyped' BY <1>0, <1>4 DEF Consume, HolderTyped
  <2> QED BY <1>4, <2>2, <2>3, PoolStepTyped DEF Consume
<1>5. CASE Supersede(d)
  <2>1. old[d] \in Envelope /\ runtime[d] \in Runtimes
    BY <1>5 DEF Supersede, Typed, JournalTyped
  <2>2. PoolTypeOK' BY <1>0, <1>5, <2>1, RetireSlotRuntimeTyped DEF Supersede
  <2>3. HolderTyped' BY <1>0, <1>5 DEF Supersede, HolderTyped
  <2> QED BY <1>5, <2>2, <2>3, PoolStepTyped DEF Supersede
<1>6. CASE RetireEnded(d)
  <2>1. PICK e \in Envelopes(d) : RetireSlotProcess(d, e)
    BY <1>6 DEF RetireEnded
  <2>2. e \in Envelope BY EnvelopesTyped
  <2>3. PoolTypeOK' BY <1>0, <2>1, <2>2, RetireSlotProcessTyped
  <2>4. HolderTyped' BY <1>0, <1>6 DEF RetireEnded, HolderTyped
  <2> QED BY <1>6, <2>3, <2>4, PoolStepTyped DEF RetireEnded
<1> QED BY <1>1, <1>2, <1>3, <1>4, <1>5, <1>6 DEF PoolStep

(* The exchanges of a connection.                                          *)
ExchangeStep(d) ==
    \/ Begin(d) \/ Reallocate(d) \/ RecordPublished(d) \/ SendKey(d) \/ Receive(d)
    \/ Finish(d) \/ Recover(d) \/ Superseded(d) \/ CloseEnded(d) \/ Crash(d)

LEMMA ExchangeStepTypes ==
    ASSUME Typed, NEW d \in Drivers, ExchangeStep(d)
    PROVE  Typed'
<1>0. JournalTyped /\ GameTyped BY DEF Typed
<1>1. CASE Begin(d)
  <2>1. next[d] \in Index /\ next[d] \in Nat /\ runtime[d] \in Runtimes
    BY <1>0, <1>1, SlotWireAssumption DEF Begin, JournalTyped, NextSlot, Index
  <2>2. nonces + 1 \in Nat \ {0} /\ nonces + 1 \in Nat
    BY <1>0 DEF JournalTyped
  <2>3. NewEnvelope(d) \in Envelope
    BY <2>1, <2>2 DEF NewEnvelope, Envelope, Action
  <2>4. [env |-> NewEnvelope(d), phase |-> "intent"] \in Exchange
    BY <2>3 DEF Exchange, Phase
  <2>5. JournalTyped'
    BY <1>0, <1>1, <2>2, <2>4 DEF Begin, JournalTyped
  <2> QED BY <1>1, <2>5, JournalStepTyped DEF Begin
<1>2. CASE Reallocate(d)
  <2>1. tx[d] \in Exchange /\ tx[d].env \in Envelope
    BY <1>2, InPhaseTyped DEF Reallocate, InPhase
  <2>2. NextFreeSlot(tx[d].env.index) \in Index
    BY <1>2, <2>1, NextFreeSlotBehind DEF Reallocate, Envelope
  <2>3. [tx[d].env EXCEPT !.index = NextFreeSlot(tx[d].env.index)] \in Envelope
    BY <2>1, <2>2 DEF Envelope
  <2>4. [tx[d] EXCEPT !.env =
            [tx[d].env EXCEPT !.index = NextFreeSlot(tx[d].env.index)]] \in Exchange
    BY <2>1, <2>3 DEF Exchange
  <2>5. [tx[d] EXCEPT !.env.index = NextFreeSlot(@)] =
          [tx[d] EXCEPT !.env =
              [tx[d].env EXCEPT !.index = NextFreeSlot(tx[d].env.index)]]
    BY <2>1 DEF Exchange, Envelope
  <2> QED BY <1>2, <2>4, <2>5, SaveTxTyped DEF Reallocate
<1>3. CASE RecordPublished(d)
  <2>1. tx[d] \in Exchange
    BY <1>3, InPhaseTyped DEF RecordPublished, InPhase
  <2>2. [tx[d] EXCEPT !.phase = "published"] \in Exchange
    BY <2>1 DEF Exchange, Phase
  <2> QED BY <1>3, <2>2, SaveTxTyped DEF RecordPublished
<1>4. CASE SendKey(d)
  <2>1. tx[d] \in Exchange
    BY <1>4, InPhaseTyped DEF SendKey, InPhase
  <2>2. [tx[d] EXCEPT !.phase = "input_attempted"] \in Exchange
    BY <2>1 DEF Exchange, Phase
  <2>3. JournalTyped'
    BY <1>0, <1>4, <2>2 DEF SendKey, JournalTyped
  <2>4. GameTyped'
    BY <1>0, <1>4 DEF SendKey, GameTyped, game
  <2> QED BY <1>4, <2>3, <2>4
          DEF SendKey, Typed, poolVars, PoolTypeOK, HolderTyped
<1>5. CASE Receive(d)
  <2>1. tx[d] \in Exchange
    BY <1>5, InPhaseTyped DEF Receive, InPhase
  <2>2. [tx[d] EXCEPT !.phase = "received"] \in Exchange
    BY <2>1 DEF Exchange, Phase
  <2> QED BY <1>5, <2>2, SaveTxTyped DEF Receive
<1>6. CASE Finish(d)
  <2>1. tx[d].env.index \in Index
    BY <1>6, InPhaseTyped DEF Finish, InPhase, Envelope
  <2>2. tx[d].env.index + 1 \in NextSlot
    BY <2>1, SlotWireAssumption DEF Index, NextSlot
  <2>3. JournalTyped'
    BY <1>0, <1>6, <2>2 DEF Finish, JournalTyped
  <2> QED BY <1>6, <2>3, JournalStepTyped DEF Finish
<1>7. CASE Recover(d)
  <2>1. (IF tx[d] = None THEN None ELSE tx[d].env) \in Envelope \cup {None}
    BY InPhaseTyped
  <2>2. live[d] \in Runtimes /\ cursor[d] \in NextSlot
    BY <1>0 DEF GameTyped
  <2>3. JournalTyped'
    BY <1>0, <1>7, <2>1, <2>2 DEF Recover, JournalTyped
  <2> QED BY <1>7, <2>3, JournalStepTyped DEF Recover
<1>8. CASE Superseded(d)
  <2>1. JournalTyped' BY <1>0, <1>8 DEF Superseded, JournalTyped
  <2> QED BY <1>8, <2>1, JournalStepTyped DEF Superseded
<1>9. CASE CloseEnded(d)
  <2>1. JournalTyped' BY <1>0, <1>9 DEF CloseEnded, JournalTyped
  <2> QED BY <1>9, <2>1, JournalStepTyped DEF CloseEnded
<1>10. CASE Crash(d)
  <2>1. PoolTypeOK' /\ HolderTyped'
    BY <1>10 DEF Crash, Typed, poolVars, PoolTypeOK, HolderTyped
  <2> QED BY <1>10, <2>1, PoolStepTyped DEF Crash
<1> QED BY <1>1, <1>2, <1>3, <1>4, <1>5, <1>6, <1>7, <1>8, <1>9, <1>10
        DEF ExchangeStep

LEMMA GameStepTypes ==
    ASSUME Typed, NEW d \in Drivers, Game(d)
    PROVE  Typed'
<1>0. GameTyped /\ payload \in [Index -> Payload] BY DEF Typed, PoolTypeOK
<1>1. CASE DeliverKey(d)
  <2>1. GameTyped' BY <1>0, <1>1 DEF DeliverKey, GameTyped
  <2> QED BY <1>1, <2>1, GameStepTyped DEF DeliverKey
<1>2. CASE LoseKey(d)
  <2>1. GameTyped' BY <1>0, <1>2 DEF LoseKey, GameTyped, game
  <2> QED BY <1>2, <2>1, GameStepTyped DEF LoseKey
<1>3. CASE LoadSlot(d)
  <2>1. cursor[d] \in Index /\ cursor[d] + 1 \in NextSlot
    BY <1>0, <1>3, SlotWireAssumption DEF LoadSlot, GameTyped, NextSlot, Index
  <2> DEFINE e == payload[cursor[d]]
             own == e # Inert /\ e.runtime = live[d]
  <2>2. own => e.nonce \in Nat
    BY <1>0, <2>1 DEF Payload, Envelope
  <2>3. /\ loaded' = IF own THEN [loaded EXCEPT ![d] = @ \cup {e.nonce}] ELSE loaded
        /\ waking' = [waking EXCEPT ![d] = ~own]
        /\ cursor' = [cursor EXCEPT ![d] = @ + 1]
        /\ UNCHANGED <<alive, live, started, key>>
    BY <1>3 DEF LoadSlot
  <2>4. (~own) \in BOOLEAN OBVIOUS
  <2> HIDE DEF own
  <2>5. loaded' \in [Drivers -> SUBSET Nat]
    BY <1>0, <2>2, <2>3 DEF GameTyped
  <2>6. waking' \in [Drivers -> BOOLEAN]
    <3>1. waking \in [Drivers -> BOOLEAN] BY <1>0 DEF GameTyped
    <3> QED BY <2>3, <2>4, <3>1, Zenon
  <2>7. cursor' \in [Drivers -> NextSlot]
    BY <1>0, <2>1, <2>3 DEF GameTyped
  <2>8. GameTyped' BY <1>0, <2>3, <2>5, <2>6, <2>7 DEF GameTyped
  <2> QED BY <1>3, <2>8, GameStepTyped DEF LoadSlot
<1>4. CASE StopWaking(d)
  <2>1. GameTyped' BY <1>0, <1>4 DEF StopWaking, GameTyped
  <2> QED BY <1>4, <2>1, GameStepTyped DEF StopWaking
<1>5. CASE RuntimeStarts(d)
  <2>1. started + 1 \in Runtimes
    BY <1>0, <1>5, SlotWireAssumption DEF RuntimeStarts, GameTyped, Runtimes
  <2>2. 1 \in NextSlot
    BY SlotWireAssumption DEF NextSlot
  <2>3. GameTyped' BY <1>0, <1>5, <2>1, <2>2 DEF RuntimeStarts, GameTyped
  <2> QED BY <1>5, <2>3, GameStepTyped DEF RuntimeStarts
<1>6. CASE ProcessEnds(d)
  <2>1. GameTyped' BY <1>0, <1>6 DEF ProcessEnds, GameTyped
  <2> QED BY <1>6, <2>1, GameStepTyped DEF ProcessEnds
<1> QED BY <1>1, <1>2, <1>3, <1>4, <1>5, <1>6 DEF Game

(* Every step is one of these, or stutters.                                *)
LEMMA Steps ==
    ASSUME [Next]_vars
    PROVE  \/ \E d \in Drivers : PoolStep(d) \/ ExchangeStep(d) \/ Game(d)
           \/ UNCHANGED vars
BY DEF Next, Driver, PoolStep, ExchangeStep

LEMMA StepTyped == Typed /\ [Next]_vars => Typed'
<1> SUFFICES ASSUME Typed, [Next]_vars PROVE Typed' OBVIOUS
<1>1. CASE UNCHANGED vars
  <2>1. JournalTyped'
    BY <1>1 DEF vars, journal, Typed, JournalTyped
  <2> QED BY <1>1, <2>1, JournalStepTyped DEF vars
<1> QED BY <1>1, Steps, PoolStepTypes, ExchangeStepTypes, GameStepTypes

(* Every variable keeps its type whatever the connections do to each       *)
(* other: no exchange is ever moved out of the pool, no wake runs past its *)
(* end, no reservation is left half built.                                 *)
THEOREM Typing == Spec => []TypeOK
<1>1. Init => Typed BY InitTyped
<1>2. Typed /\ [Next]_vars => Typed' BY StepTyped
<1>3. Typed => TypeOK BY TypedImpliesTypeOK
<1> QED BY <1>1, <1>2, <1>3, PTL DEF Spec

-----------------------------------------------------------------------------
(* Drift.                                                                  *)
LEMMA PoolStepSettles ==
    ASSUME Typed, PoolSettled, NEW d \in Drivers, PoolStep(d)
    PROVE  PoolSettled'
<1>0. PoolTypeOK BY DEF Typed
<1>1. CASE Reserve(d)
  <2>1. tx[d].env \in Envelope BY <1>1, InPhaseTyped DEF Reserve, InPhase
  <2> QED BY <1>0, <1>1, <2>1, PublishReserveSettled DEF Reserve
<1>2. CASE Write(d)
  <2>1. tx[d].env \in Envelope BY <1>2, InPhaseTyped DEF Write, InPhase
  <2> QED BY <1>0, <1>2, <2>1, PublishWriteSettled DEF Write
<1>3. CASE Seal(d)
  <2>1. tx[d].env \in Envelope BY <1>3, InPhaseTyped DEF Seal, InPhase
  <2> QED BY <1>0, <1>3, <2>1, PublishSealSettled DEF Seal
<1>4. CASE Consume(d)
  <2>1. tx[d].env \in Envelope BY <1>4, InPhaseTyped DEF Consume, InPhase
  <2> QED BY <1>0, <1>4, <2>1, ConfirmSlotConsumedSettled DEF Consume
<1>5. CASE Supersede(d)
  <2>1. old[d] \in Envelope /\ runtime[d] \in Runtimes
    BY <1>5 DEF Supersede, Typed, JournalTyped
  <2> QED BY <1>0, <1>5, <2>1, RetireSlotRuntimeSettled DEF Supersede
<1>6. CASE RetireEnded(d)
  <2>1. PICK e \in Envelopes(d) : RetireSlotProcess(d, e)
    BY <1>6 DEF RetireEnded
  <2>2. e \in Envelope BY EnvelopesTyped
  <2> QED BY <1>0, <2>1, <2>2, RetireSlotProcessSettled
<1> QED BY <1>1, <1>2, <1>3, <1>4, <1>5, <1>6 DEF PoolStep

LEMMA PoolUntouched ==
    ASSUME NEW d \in Drivers, ExchangeStep(d) \/ Game(d)
    PROVE  UNCHANGED poolVars
<1>1. CASE ExchangeStep(d)
  BY <1>1 DEF ExchangeStep, Begin, Reallocate, RecordPublished, SendKey, Receive,
              Finish, Recover, Superseded, CloseEnded, Crash, SaveTx
<1>2. CASE Game(d)
  BY <1>2 DEF Game, DeliverKey, LoseKey, LoadSlot, StopWaking, RuntimeStarts,
              ProcessEnds
<1> QED BY <1>1, <1>2

LEMMA StepSettles == Typed /\ PoolSettled /\ [Next]_vars => PoolSettled'
<1> SUFFICES ASSUME Typed, PoolSettled, [Next]_vars PROVE PoolSettled' OBVIOUS
<1>1. CASE UNCHANGED poolVars
  BY <1>1 DEF poolVars, PoolSettled, NoDrift, FreeIsSettled, Reserved
<1>2. CASE \E d \in Drivers : PoolStep(d)
  BY <1>2, PoolStepSettles
<1> QED BY <1>1, <1>2, Steps, PoolUntouched DEF vars

(* However many programs publish into one pool, die in the middle of it    *)
(* and retire what they find, no payload file ever differs from what       *)
(* pool.json records or expects (the check that slots.go starts with).     *)
THEOREM PoolNeverDrifts == Spec => []NoDrift
<1>1. Init => Typed /\ PoolSettled
  BY InitTyped DEF Init, FreshEntry, PoolSettled, NoDrift, FreeIsSettled
<1>2. Typed /\ PoolSettled /\ [Next]_vars => (Typed /\ PoolSettled)'
  BY StepTyped, StepSettles
<1>3. Typed /\ PoolSettled => NoDrift
  BY DEF PoolSettled
<1> QED BY <1>1, <1>2, <1>3, PTL DEF Spec

-----------------------------------------------------------------------------
(* Reservations.  NoOrphan, with the consumer known to be a connection.    *)
ClaimedBy(c, i) == \E e \in Envelopes(c) : e.index = i /\ Claims(c, e)

Owned ==
    \A i \in Index : Reserved(i) =>
        entry[i].consumer \in Drivers /\ ClaimedBy(entry[i].consumer, i)

(* A step that reserves nothing and rewrites no claim, with the journals   *)
(* as they are, orphans nothing.                                           *)
LEMMA LoosenedOwned ==
    ASSUME Owned, UNCHANGED <<tx, old>>,
           \A i \in Index : Reserved(i)' =>
             /\ Reserved(i)
             /\ entry'[i].nonce = entry[i].nonce
             /\ entry'[i].consumer = entry[i].consumer
             /\ entry'[i].runtime = entry[i].runtime
    PROVE  Owned'
BY DEF Owned, ClaimedBy, Envelopes, Claims

(* A step of d that leaves the pool alone orphans nothing if what d drops  *)
(* from its journal is no claim on a reserved slot any more.               *)
LEMMA JournalOwned ==
    ASSUME Typed, Owned, NEW d \in Drivers, UNCHANGED poolVars,
           \A c \in Drivers \ {d} : tx'[c] = tx[c] /\ old'[c] = old[c],
           \A e \in Envelopes(d) :
             Reserved(e.index) /\ Claims(d, e) => e \in Envelopes(d)'
    PROVE  Owned'
<1>1. \A c \in Drivers \ {d} : Envelopes(c)' = Envelopes(c)
  BY DEF Envelopes
<1>2. SUFFICES ASSUME NEW i \in Index, Reserved(i), NEW c \in Drivers,
                      entry[i].consumer = c
               PROVE  \E e \in Envelopes(c)' : e.index = i /\ Claims(c, e)
  BY DEF poolVars, Owned, ClaimedBy, Reserved, Claims
<1>3. PICK e \in Envelopes(c) : e.index = i /\ Claims(c, e)
  BY <1>2 DEF Owned, ClaimedBy
<1>4. CASE c = d
  BY <1>2, <1>3, <1>4
<1>5. CASE c # d
  BY <1>1, <1>2, <1>3, <1>5
<1> QED BY <1>4, <1>5

LEMMA PoolStepOwned ==
    ASSUME Typed, Owned, NEW d \in Drivers, PoolStep(d)
    PROVE  Owned'
<1>0. UNCHANGED <<tx, old>>
  BY DEF PoolStep, Reserve, Write, Seal, Consume, Supersede, RetireEnded, journal
<1>1. CASE Reserve(d)
  <2>1. PICK e \in Envelope : e = tx[d].env
    BY <1>1, InPhaseTyped DEF Reserve, InPhase
  <2>2. e.index \in Index /\ e \in Envelopes(d)
    BY <1>1, <2>1, NoneIsNoPayload DEF Reserve, InPhase, Envelope, Envelopes, Payload
  <2>3. /\ \A i \in Index \ {e.index} : entry'[i] = entry[i]
        /\ entry'[e.index].nonce = e.nonce /\ entry'[e.index].consumer = d
        /\ entry'[e.index].runtime = e.runtime
    BY <1>1, <2>1, <2>2 DEF Reserve, PublishReserve, Typed, PoolTypeOK
  <2>4. ClaimedBy(d, e.index)'
    BY <1>0, <2>2, <2>3 DEF ClaimedBy, Claims, Envelopes
  <2>5. SUFFICES ASSUME NEW i \in Index, Reserved(i)', NEW c, entry'[i].consumer = c
                 PROVE  c \in Drivers /\ ClaimedBy(c, i)'
    BY DEF Owned
  <2>6. CASE i = e.index
    BY <2>3, <2>4, <2>5, <2>6
  <2>7. CASE i # e.index
    <3>1. entry'[i] = entry[i] BY <2>3, <2>7
    <3>2. Reserved(i) BY <2>5, <3>1 DEF Reserved
    <3> QED BY <1>0, <2>5, <3>1, <3>2 DEF Owned, ClaimedBy, Claims, Envelopes
  <2> QED BY <2>6, <2>7
<1>2. CASE Write(d)
  BY <1>0, <1>2, LoosenedOwned DEF Write, PublishWrite, Reserved
<1>3. CASE Seal(d)
  <2>1. \A i \in Index : /\ entry'[i].nonce = entry[i].nonce
                         /\ entry'[i].consumer = entry[i].consumer
                         /\ entry'[i].runtime = entry[i].runtime
                         /\ Reserved(i)' => Reserved(i)
    BY <1>3, InPhaseTyped, SMTT(30)
       DEF Seal, InPhase, PublishSeal, Typed, PoolTypeOK, Entry, Reserved, Envelope
  <2> QED BY <1>0, <2>1, LoosenedOwned
<1>4. CASE Consume(d)
  <2>1. \A i \in Index : /\ entry'[i].nonce = entry[i].nonce
                         /\ entry'[i].consumer = entry[i].consumer
                         /\ entry'[i].runtime = entry[i].runtime
                         /\ Reserved(i)' => Reserved(i)
    BY <1>4, InPhaseTyped
       DEF Consume, InPhase, ConfirmSlotConsumed, Typed, PoolTypeOK, Entry, Reserved,
           Envelope
  <2> QED BY <1>0, <2>1, LoosenedOwned
<1>5. CASE Supersede(d)
  <2>0. runtime[d] # None /\ old[d] \in Envelope
    BY <1>5, NoneIsNoValue DEF Supersede, Typed, JournalTyped
  <2>1. \A i \in Index : /\ entry'[i].nonce = entry[i].nonce
                         /\ entry'[i].consumer = entry[i].consumer
                         /\ entry'[i].runtime = entry[i].runtime
                         /\ Reserved(i)' => Reserved(i)
    BY <1>5, <2>0
       DEF Supersede, RetireSlotRuntime, Typed, PoolTypeOK, Entry, Reserved, Envelope
  <2> QED BY <1>0, <2>1, LoosenedOwned
<1>6. CASE RetireEnded(d)
  <2>0. PICK e \in Envelope : RetireSlotProcess(d, e)
    BY <1>6, EnvelopesTyped DEF RetireEnded
  <2>1. \A i \in Index : /\ entry'[i].nonce = entry[i].nonce
                         /\ entry'[i].consumer = entry[i].consumer
                         /\ entry'[i].runtime = entry[i].runtime
                         /\ Reserved(i)' => Reserved(i)
    BY <2>0
       DEF RetireSlotProcess, Typed, PoolTypeOK, Entry, Reserved, Envelope
  <2> QED BY <1>0, <2>1, LoosenedOwned
<1> QED BY <1>1, <1>2, <1>3, <1>4, <1>5, <1>6 DEF PoolStep

LEMMA ExchangeStepOwned ==
    ASSUME Typed, Owned, NEW d \in Drivers, ExchangeStep(d)
    PROVE  Owned'
<1>0. /\ UNCHANGED poolVars
      /\ \A c \in Drivers \ {d} : tx'[c] = tx[c] /\ old'[c] = old[c]
  BY PoolUntouched
     DEF ExchangeStep, Typed, JournalTyped, Begin, Reallocate, RecordPublished,
         SendKey, Receive, Finish, Recover, Superseded, CloseEnded, Crash, SaveTx,
         journal
<1>1. SUFFICES ASSUME NEW e \in Envelopes(d), Reserved(e.index), Claims(d, e)
               PROVE  e \in Envelopes(d)'
  BY <1>0, JournalOwned
<1>2. /\ e # None
      /\ (e = old[d]) \/ (tx[d] # None /\ e = tx[d].env)
  BY <1>1 DEF Envelopes
<1>j. tx \in [Drivers -> Exchange \cup {None}] /\ old \in [Drivers -> Envelope \cup {None}]
  BY DEF Typed, JournalTyped
<1>3. CASE Begin(d)
  BY <1>2, <1>3, <1>j DEF Begin, Envelopes
<1>4. CASE Reallocate(d)
  <2>1. e # tx[d].env
    BY <1>1, <1>4 DEF Reallocate, ReservedByOther
  <2>2. e = old[d] /\ UNCHANGED old
    BY <1>2, <1>4, <2>1 DEF Reallocate, SaveTx
  <2>3. e = old'[d]
    BY <2>2
  <2> QED BY <1>2, <2>3 DEF Envelopes
<1>5. CASE RecordPublished(d) \/ SendKey(d) \/ Receive(d)
  <2>1. PICK p \in Phase : tx' = [tx EXCEPT ![d].phase = p]
    BY <1>5 DEF RecordPublished, SendKey, Receive, SaveTx, Phase
  <2>2. tx[d] # None /\ tx[d] \in Exchange
    BY <1>5, <1>j DEF RecordPublished, SendKey, Receive, InPhase
  <2>3. tx'[d] # None /\ tx'[d].env = tx[d].env
    BY <1>j, <2>1, <2>2, NoneIsNoExchange DEF Exchange
  <2>4. UNCHANGED old
    BY <1>5 DEF RecordPublished, SendKey, Receive, SaveTx
  <2> QED BY <1>2, <2>3, <2>4 DEF Envelopes
<1>6. CASE Finish(d)
  <2>1. e # tx[d].env
    BY <1>1, <1>6 DEF Finish, ConsumeDone, Claims, Reserved
  <2> QED BY <1>2, <1>6, <2>1 DEF Finish, Envelopes
<1>7. CASE Recover(d)
  BY <1>2, <1>7, <1>j DEF Recover, Envelopes
<1>8. CASE Superseded(d)
  <2>1. runtime[d] # None
    BY NoneIsNoValue DEF Typed, JournalTyped
  <2>2. e # old[d]
    BY <1>1, <1>8, <2>1 DEF Superseded, RetireRuntimeDone, Claims, Reserved
  <2> QED BY <1>2, <1>8, <2>2 DEF Superseded
<1>9. CASE CloseEnded(d)
  BY <1>1, <1>9 DEF CloseEnded, RetireProcessDone, Claims, Reserved
<1>10. CASE Crash(d)
  BY <1>2, <1>10 DEF Crash, journal, Envelopes
<1> QED BY <1>3, <1>4, <1>5, <1>6, <1>7, <1>8, <1>9, <1>10 DEF ExchangeStep

LEMMA StepOwned == Typed /\ Owned /\ [Next]_vars => Owned'
<1> SUFFICES ASSUME Typed, Owned, [Next]_vars PROVE Owned' OBVIOUS
<1>1. CASE \E d \in Drivers : PoolStep(d)
  BY <1>1, PoolStepOwned
<1>2. CASE \E d \in Drivers : ExchangeStep(d)
  BY <1>2, ExchangeStepOwned
<1>3. CASE (\E d \in Drivers : Game(d)) \/ UNCHANGED vars
  <2>1. UNCHANGED poolVars
    BY <1>3, PoolUntouched DEF vars
  <2>2. UNCHANGED <<tx, old>>
    BY <1>3 DEF Game, DeliverKey, LoseKey, LoadSlot, StopWaking, RuntimeStarts,
                ProcessEnds, vars, journal
  <2> QED BY <2>1, <2>2, LoosenedOwned DEF poolVars, Reserved
<1> QED BY <1>1, <1>2, <1>3, Steps

(* No slot is ever lost to the pool: as long as a reservation blocks a     *)
(* slot, its connection has the exchange in its journal, as the one under  *)
(* way or as the one a recovery keeps, and with it the right to retire it. *)
THEOREM NothingOrphaned == Spec => []NoOrphan
<1>1. Init => Typed /\ Owned
  BY InitTyped DEF Init, FreshEntry, Owned, Reserved
<1>2. Typed /\ Owned /\ [Next]_vars => (Typed /\ Owned)'
  BY StepTyped, StepOwned
<1>3. Typed /\ Owned => NoOrphan
  BY DEF Owned, ClaimedBy, NoOrphan
<1> QED BY <1>1, <1>2, <1>3, PTL DEF Spec

-----------------------------------------------------------------------------
(* What a key finds.  Neither property below is inductive: both rest on    *)
(* what the journal, the pool and the runtime of a connection know of its  *)
(* exchange, and on runtimes being told apart by their tokens.             *)

\* A runtime is newer than what its connection knew before, and an exchange is
\* addressed to the runtime its journal names.
JournalsFit ==
    \A d \in Drivers :
        /\ runtime[d] <= live[d] /\ live[d] <= started
        /\ tx[d] # None => LET e == tx[d].env IN
             /\ e.owner = d /\ e.runtime = runtime[d]
             /\ e.start <= e.index /\ e.nonce <= nonces
        /\ old[d] # None => old[d].nonce <= nonces
        /\ tx[d] # None /\ old[d] # None => old[d].nonce < tx[d].env.nonce
        /\ \A n \in loaded[d] : n <= nonces

\* No two connections mean the same runtime, and no file on disk names one that
\* has not started.
TokensDiffer ==
    /\ \A c, d \in Drivers : runtime[c] = live[d] \/ live[c] = live[d] => c = d
    /\ \A i \in Index : payload[i] # Inert => payload[i].runtime <= started

Holds(d) == Claims(d, tx[d].env) /\ Reserved(tx[d].env.index)

\* Only the exchange under way can be loaded, from the slot it reserved.
Current(d) ==
    \A i \in Index :
        alive[d] /\ cursor[d] <= i /\ payload[i] # Inert /\ payload[i].runtime = live[d] =>
            /\ tx[d] # None /\ payload[i] = tx[d].env /\ tx[d].env.index = i
            /\ Holds(d)

\* The exchange of this runtime has been loaded by it.
Arrived(d) ==
    tx[d] # None /\ live[d] = tx[d].env.runtime /\ tx[d].env.nonce \in loaded[d]

\* Once loaded it is behind the cursor, and it keeps its slot until the receipt
\* is in the journal, even when a late key loads it before it is recorded as
\* published.
Loaded(d) ==
    alive[d] /\ Arrived(d) =>
        /\ tx[d].env.index < cursor[d]
        /\ tx[d].phase # "received" => Holds(d)

Received(d) ==
    InPhase(d, "received") /\ live[d] = tx[d].env.runtime => Arrived(d)

\* Between the key and the receipt nothing touches the slot.
Sent(d) ==
    InPhase(d, "input_attempted") =>
        /\ Holds(d) /\ payload[tx[d].env.index] = tx[d].env
        /\ live[d] = tx[d].env.runtime /\ ~Arrived(d) => cursor[d] <= tx[d].env.index

Route(d) == Current(d) /\ Loaded(d) /\ Received(d) /\ Sent(d)

Routed == JournalsFit /\ TokensDiffer /\ \A d \in Drivers : Route(d)

\* Nothing below depends on what an exchange looks like.
LEMMA Numbers ==
    ASSUME Typed, NEW d \in Drivers
    PROVE  /\ live[d] \in Nat /\ runtime[d] \in Nat /\ started \in Nat /\ nonces \in Nat
           /\ cursor[d] \in Nat /\ loaded[d] \subseteq Nat
           /\ \A i \in Index : payload[i] # Inert =>
                payload[i] \in Envelope /\ payload[i].runtime \in Nat /\ payload[i].nonce \in Nat
           /\ Index \subseteq Nat
           /\ d # None
           /\ tx[d] # None =>
                /\ tx[d].env \in Envelope /\ tx[d].env.index \in Index
                /\ tx[d].env.start \in Nat /\ tx[d].env.nonce \in Nat \ {0}
                /\ tx[d].env.runtime \in Nat /\ tx[d].env.runtime \in Runtimes
           /\ old[d] # None =>
                /\ old[d] \in Envelope /\ old[d].index \in Index /\ old[d].nonce \in Nat \ {0}
<1>0. /\ JournalTyped /\ GameTyped /\ payload \in [Index -> Payload]
  BY DEF Typed, PoolTypeOK
<1>1. Runtimes \subseteq Nat /\ NextSlot \subseteq Nat /\ Index \subseteq Nat
  BY SlotWireAssumption DEF Runtimes, NextSlot, Index
<1>2. \A e \in Envelope :
        /\ e.index \in Index /\ e.start \in Index /\ e.nonce \in Nat \ {0}
        /\ e.runtime \in Runtimes
  BY DEF Envelope
<1>3. /\ live[d] \in Runtimes /\ runtime[d] \in Runtimes /\ started \in Runtimes
      /\ nonces \in Nat /\ cursor[d] \in NextSlot /\ loaded[d] \subseteq Nat
  BY <1>0 DEF GameTyped, JournalTyped
<1>4. \A i \in Index : payload[i] # Inert => payload[i] \in Envelope
  BY <1>0 DEF Payload
<1>5. tx[d] # None => tx[d].env \in Envelope BY InPhaseTyped
<1>6. old[d] # None => old[d] \in Envelope BY <1>0 DEF JournalTyped
<1>7. d # None BY SlotWireAssumption
<1> QED BY <1>1, <1>2, <1>3, <1>4, <1>5, <1>6, <1>7

(* A publication or retirement of c touches no slot that is reserved for   *)
(* another connection, and writes nothing but the envelope of c.           *)
LEMMA PoolTouches ==
    ASSUME Typed, NEW c \in Drivers, PoolStep(c)
    PROVE  /\ \A i \in Index : Reserved(i) /\ entry[i].consumer # c =>
                entry'[i] = entry[i] /\ payload'[i] = payload[i]
           /\ \A i \in Index : payload'[i] = payload[i]
                               \/ (tx[c] # None /\ payload'[i] = tx[c].env)
           /\ UNCHANGED <<game, key, journal>>
<1>0. entry \in [Index -> Entry] /\ payload \in [Index -> Payload]
  BY DEF Typed, PoolTypeOK
<1>1. CASE Reserve(c)
  <2>1. tx[c].env.index \in Index BY <1>1, Numbers DEF Reserve, InPhase
  <2> QED BY <1>0, <1>1, <2>1 DEF Reserve, PublishReserve, ReservedByOther, Claims
<1>2. CASE Write(c)
  <2>1. tx[c] # None /\ tx[c].env.index \in Index BY <1>2, Numbers DEF Write, InPhase
  <2> QED BY <1>0, <1>2, <2>1 DEF Write, PublishWrite, Claims
<1>3. CASE Seal(c)
  <2>1. tx[c].env.index \in Index BY <1>3, Numbers DEF Seal, InPhase
  <2> QED BY <1>0, <1>3, <2>1 DEF Seal, PublishSeal, Claims
<1>4. CASE Consume(c)
  <2>1. tx[c].env.index \in Index BY <1>4, Numbers DEF Consume, InPhase
  <2>2. entry[tx[c].env.index].consumer = c
    BY <1>4 DEF Consume, ConfirmSlotConsumed, ConsumeConflict, ConsumeDone
  <2>3. \A i \in Index \ {tx[c].env.index} : entry'[i] = entry[i]
    BY <1>0, <1>4, <2>1 DEF Consume, ConfirmSlotConsumed
  <2> QED BY <1>4, <2>2, <2>3 DEF Consume, ConfirmSlotConsumed
<1>5. CASE Supersede(c)
  <2>1. old[c].index \in Index BY <1>5, Numbers DEF Supersede
  <2>2. entry[old[c].index].consumer = c
    BY <1>5 DEF Supersede, RetireSlotRuntime, RetireRuntimeConflict, RetireRuntimeDone
  <2> QED BY <1>0, <1>5, <2>1, <2>2 DEF Supersede, RetireSlotRuntime
<1>6. CASE RetireEnded(c)
  <2>1. PICK e \in Envelope : RetireSlotProcess(c, e)
    BY <1>6, EnvelopesTyped DEF RetireEnded
  <2>2. e.index \in Index BY DEF Envelope
  <2> QED BY <1>0, <1>6, <2>1, <2>2 DEF RetireEnded, RetireSlotProcess, Claims
<1> QED BY <1>1, <1>2, <1>3, <1>4, <1>5, <1>6 DEF PoolStep

(* What does not change for d, and what nobody else may change, keeps its  *)
(* route.                                                                  *)
LEMMA OthersKeep ==
    ASSUME Typed, NEW d \in Drivers, Route(d),
           alive'[d] = alive[d], live'[d] = live[d], cursor'[d] = cursor[d],
           loaded'[d] = loaded[d], tx'[d] = tx[d],
           \A i \in Index : Reserved(i) /\ entry[i].consumer = d =>
             entry'[i] = entry[i] /\ payload'[i] = payload[i],
           \A i \in Index : payload'[i] = payload[i]
                            \/ (payload'[i] # Inert /\ payload'[i].runtime # live[d])
    PROVE  Route(d)'
<1>0. tx[d] # None => tx[d].env.index \in Index BY Numbers
<1>1. tx[d] # None /\ Holds(d) => /\ Holds(d)'
                                  /\ payload'[tx[d].env.index] = payload[tx[d].env.index]
  BY <1>0 DEF Holds, Claims, Reserved
<1>2. Current(d)'
  <2> SUFFICES ASSUME NEW i \in Index, alive[d], cursor[d] <= i, payload'[i] # Inert,
                      payload'[i].runtime = live[d]
               PROVE  /\ tx[d] # None /\ payload'[i] = tx[d].env /\ tx[d].env.index = i
                      /\ Holds(d)'
    BY DEF Current
  <2>1. payload'[i] = payload[i] OBVIOUS
  <2>2. tx[d] # None /\ payload[i] = tx[d].env /\ tx[d].env.index = i /\ Holds(d)
    BY <2>1 DEF Route, Current
  <2> QED BY <1>1, <2>1, <2>2
<1>3. Arrived(d)' <=> Arrived(d) BY DEF Arrived
<1>4. Loaded(d)' BY <1>1, <1>3 DEF Route, Loaded, Arrived
<1>5. Received(d)' BY <1>3 DEF Route, Received, InPhase
<1>6. Sent(d)' BY <1>1, <1>3 DEF Route, Sent, InPhase
<1> QED BY <1>2, <1>4, <1>5, <1>6 DEF Route

LEMMA TableStep ==
    ASSUME Typed, PoolSettled, Routed, NEW c \in Drivers, PoolStep(c)
    PROVE  Routed'
<1>0. UNCHANGED <<game, key, journal>> BY PoolTouches
<1>g. UNCHANGED <<alive, live, started, cursor, loaded, runtime, tx, old, nonces>>
  BY <1>0 DEF game, journal
<1>t. \A i \in Index : payload'[i] = payload[i] \/ (tx[c] # None /\ payload'[i] = tx[c].env)
  BY PoolTouches
<1>1. JournalsFit' BY <1>g DEF Routed, JournalsFit
<1>2. TokensDiffer'
  <2>1. tx[c] # None => tx[c].env.runtime <= started
    BY Numbers DEF Routed, JournalsFit
  <2> QED BY <1>g, <1>t, <2>1 DEF Routed, TokensDiffer
<1>3. ASSUME NEW d \in Drivers \ {c} PROVE Route(d)'
  <2>1. Route(d) BY DEF Routed
  <2>2. tx[c] # None => tx[c].env # Inert /\ tx[c].env.runtime # live[d]
    <3>1. tx[c] # None => tx[c].env.runtime = runtime[c] /\ tx[c].env \in Envelope
      BY Numbers DEF Routed, JournalsFit
    <3>2. runtime[c] # live[d] BY DEF Routed, TokensDiffer
    <3> QED BY <3>1, <3>2, NoneIsNoPayload
  <2>3. \A i \in Index : Reserved(i) /\ entry[i].consumer = d =>
             entry'[i] = entry[i] /\ payload'[i] = payload[i]
    BY PoolTouches
  <2> QED BY <1>g, <1>t, <2>1, <2>2, <2>3, OthersKeep
<1>4. Route(c)'
  <2>0. /\ entry \in [Index -> Entry] /\ payload \in [Index -> Payload]
        /\ Route(c)
        /\ tx[c] # None /\ old[c] # None => old[c].nonce # tx[c].env.nonce
    BY Numbers DEF Typed, PoolTypeOK, Routed, JournalsFit
  <2>a. Arrived(c)' <=> Arrived(c) BY <1>g DEF Arrived
  <2>n. tx[c] # None => tx[c].env.index \in Index /\ tx[c].env # Inert
    BY Numbers, NoneIsNoPayload
  <2>k. ASSUME Holds(c) /\ tx[c] # None =>
                 Holds(c)' /\ (tx[c].phase # "intent" =>
                                 payload'[tx[c].env.index] = payload[tx[c].env.index]),
               \A i \in Index : payload'[i] # payload[i] =>
                 tx[c] # None /\ i = tx[c].env.index /\ Holds(c)'
        PROVE  Route(c)'
    <3>1. Current(c)' BY <1>g, <1>t, <2>0, <2>k DEF Route, Current
    <3>2. Loaded(c)' BY <1>g, <2>0, <2>a, <2>k DEF Route, Loaded, Arrived
    <3>3. Received(c)' BY <1>g, <2>0, <2>a DEF Route, Received, InPhase
    <3>4. Sent(c)' BY <1>g, <2>0, <2>a, <2>k DEF Route, Sent, InPhase
    <3> QED BY <3>1, <3>2, <3>3, <3>4 DEF Route
  <2>1. CASE Reserve(c)
    <3>1. /\ UNCHANGED payload
          /\ entry'[tx[c].env.index].nonce = tx[c].env.nonce
          /\ entry'[tx[c].env.index].consumer = c
          /\ entry'[tx[c].env.index].runtime = tx[c].env.runtime
          /\ ~entry'[tx[c].env.index].consumed /\ ~entry'[tx[c].env.index].retProc
          /\ entry'[tx[c].env.index].retRt = None
      BY <2>0, <2>1, <2>n DEF Reserve, InPhase, PublishReserve
    <3>2. Holds(c)' BY <1>g, <2>1, <2>n, <3>1, Numbers DEF Reserve, InPhase, Holds, Claims, Reserved
    <3> QED BY <2>k, <3>1, <3>2
  <2>2. CASE Write(c)
    <3>1. /\ UNCHANGED entry /\ Claims(c, tx[c].env) /\ tx[c].phase = "intent"
          /\ tx[c] # None /\ entry[tx[c].env.index].pend # None
          /\ \A i \in Index : payload'[i] # payload[i] => i = tx[c].env.index
      BY <2>0, <2>2, <2>n, NoneIsNoPayload, Numbers DEF Write, InPhase, PublishWrite, Payload
    <3>2. Holds(c)' BY <1>g, <2>n, <3>1 DEF Holds, Claims, Reserved, PoolSettled, FreeIsSettled
    <3> QED BY <2>k, <3>1, <3>2
  <2>3. CASE Seal(c)
    <3>1. UNCHANGED payload /\ tx[c] # None
      BY <2>3 DEF Seal, InPhase, PublishSeal
    <3>2. /\ entry'[tx[c].env.index].nonce = entry[tx[c].env.index].nonce
          /\ entry'[tx[c].env.index].consumer = entry[tx[c].env.index].consumer
          /\ entry'[tx[c].env.index].runtime = entry[tx[c].env.index].runtime
          /\ entry'[tx[c].env.index].consumed = entry[tx[c].env.index].consumed
          /\ entry'[tx[c].env.index].retProc = entry[tx[c].env.index].retProc
          /\ entry'[tx[c].env.index].retRt = entry[tx[c].env.index].retRt
      BY <2>0, <2>3, <2>n, <3>1 DEF Seal, PublishSeal, Entry
    <3>3. Holds(c) => Holds(c)' BY <1>g, <3>1, <3>2 DEF Holds, Claims, Reserved
    <3> QED BY <2>k, <3>1, <3>3
  <2>4. CASE Consume(c)
    <3>1. UNCHANGED payload /\ tx[c] # None /\ tx[c].phase = "received" /\ alive[c]
      BY <2>4 DEF Consume, InPhase, ConfirmSlotConsumed
    <3>2. live[c] = tx[c].env.runtime => tx[c].env.index < cursor[c]
      BY <2>0, <3>1 DEF Route, Received, Loaded, InPhase
    <3>3. \A i \in Index : cursor[c] <= i /\ payload[i] # Inert => payload[i].runtime # live[c]
      BY <2>0, <2>n, <3>1, <3>2, Numbers DEF Route, Current
    <3>4. Current(c)' BY <1>g, <3>1, <3>3 DEF Current
    <3>5. Loaded(c)' BY <1>g, <2>0, <2>a, <3>1 DEF Route, Loaded
    <3>6. Received(c)' BY <1>g, <2>0, <2>a DEF Route, Received, InPhase
    <3>7. Sent(c)' BY <1>g, <3>1 DEF Sent, InPhase
    <3> QED BY <3>4, <3>5, <3>6, <3>7 DEF Route
  <2>5. CASE Supersede(c)
    <3>1. UNCHANGED payload /\ tx[c] = None BY <2>5 DEF Supersede, RetireSlotRuntime
    <3> QED BY <2>k, <3>1
  <2>6. CASE RetireEnded(c)
    <3>1. ~alive[c] BY <2>6 DEF RetireEnded
    <3> QED BY <1>g, <3>1 DEF Route, Current, Loaded, Received, Sent, InPhase
  <2> QED BY <2>1, <2>2, <2>3, <2>4, <2>5, <2>6 DEF PoolStep
<1> QED BY <1>1, <1>2, <1>3, <1>4 DEF Routed

LEMMA NewExchange ==
    ASSUME Typed, NEW d \in Drivers, Begin(d)
    PROVE  [env |-> NewEnvelope(d), phase |-> "intent"] \in Exchange
<1>1. next[d] \in Index /\ runtime[d] \in Runtimes
  BY SlotWireAssumption DEF Begin, Typed, JournalTyped, NextSlot, Index
<1>2. nonces + 1 \in Nat \ {0} BY DEF Typed, JournalTyped
<1>3. NewEnvelope(d) \in Envelope BY <1>1, <1>2 DEF NewEnvelope, Envelope, Action
<1> QED BY <1>3 DEF Exchange, Phase

(* A step that leaves the pool alone disturbs only the connection that     *)
(* takes it.                                                               *)
LEMMA BesideKeeps ==
    ASSUME Typed, Routed, UNCHANGED poolVars, NEW c \in Drivers,
           \A d \in Drivers \ {c} :
             /\ alive'[d] = alive[d] /\ live'[d] = live[d] /\ cursor'[d] = cursor[d]
             /\ loaded'[d] = loaded[d] /\ tx'[d] = tx[d],
           Route(c)'
    PROVE  \A d \in Drivers : Route(d)'
<1> SUFFICES ASSUME NEW d \in Drivers \ {c} PROVE Route(d)' OBVIOUS
<1>1. Route(d) BY DEF Routed
<1>2. \A i \in Index : entry'[i] = entry[i] /\ payload'[i] = payload[i] BY DEF poolVars
<1> QED BY <1>1, <1>2, OthersKeep

(* With no exchange under way, nothing may be left to load.                *)
LEMMA EmptyRoute ==
    ASSUME NEW d \in Drivers, tx'[d] = None,
           \A i \in Index : alive'[d] /\ cursor'[d] <= i /\ payload'[i] # Inert =>
             payload'[i].runtime # live'[d]
    PROVE  Route(d)'
BY DEF Route, Current, Loaded, Received, Sent, Arrived, InPhase

LEMMA ExchangeRoute ==
    ASSUME Typed, PoolSettled, Routed, NEW c \in Drivers, ExchangeStep(c)
    PROVE  Routed'
<1>0. /\ UNCHANGED poolVars
      /\ UNCHANGED <<alive, live, started, cursor, loaded>>
      /\ \A d \in Drivers \ {c} : /\ tx'[d] = tx[d] /\ old'[d] = old[d]
                                  /\ runtime'[d] = runtime[d]
      /\ nonces' >= nonces /\ nonces' \in Nat
  BY PoolUntouched, Numbers
     DEF ExchangeStep, Typed, JournalTyped, Begin, Reallocate, RecordPublished,
         SendKey, Receive, Finish, Recover, Superseded, CloseEnded, Crash, SaveTx,
         journal, game
<1>p. UNCHANGED <<entry, payload>> BY <1>0 DEF poolVars
<1>j. /\ tx \in [Drivers -> Exchange \cup {None}] /\ old \in [Drivers -> Envelope \cup {None}]
      /\ runtime \in [Drivers -> Runtimes]
  BY DEF Typed, JournalTyped
<1>r. Route(c) /\ Current(c) BY DEF Routed, Route
\* The journal of c, and what it may know.
<1> DEFINE fit == /\ runtime[c] <= live[c] /\ live[c] <= started
                  /\ tx[c] # None => LET e == tx[c].env IN
                       /\ e.owner = c /\ e.runtime = runtime[c]
                       /\ e.start <= e.index /\ e.nonce <= nonces
                  /\ old[c] # None => old[c].nonce <= nonces
                  /\ tx[c] # None /\ old[c] # None => old[c].nonce < tx[c].env.nonce
                  /\ \A n \in loaded[c] : n <= nonces
<1>f. fit BY DEF Routed, JournalsFit
<1>a. ASSUME fit', Route(c)', runtime'[c] \in {runtime[c], live[c]} PROVE Routed'
  <2>1. JournalsFit'
    <3>1. ASSUME NEW d \in Drivers \ {c}
          PROVE  /\ runtime[d] <= live[d] /\ live[d] <= started
                 /\ tx[d] # None => LET e == tx[d].env IN
                      /\ e.owner = d /\ e.runtime = runtime[d]
                      /\ e.start <= e.index /\ e.nonce <= nonces'
                 /\ old[d] # None => old[d].nonce <= nonces'
                 /\ tx[d] # None /\ old[d] # None => old[d].nonce < tx[d].env.nonce
                 /\ \A n \in loaded[d] : n <= nonces'
      BY <1>0, <3>1, Numbers DEF Routed, JournalsFit
    <3> QED BY <1>0, <1>a, <3>1 DEF JournalsFit
  <2>2. TokensDiffer'
    BY <1>0, <1>p, <1>a DEF Routed, TokensDiffer
  <2>3. \A d \in Drivers : Route(d)' BY <1>0, <1>a, BesideKeeps
  <2> QED BY <2>1, <2>2, <2>3 DEF Routed
<1>n. tx[c] # None => /\ tx[c].env.index \in Index /\ tx[c].env # Inert
                      /\ tx[c].env.nonce \in Nat /\ tx[c].env.start \in Nat
  BY Numbers, NoneIsNoPayload
<1>i. Index \subseteq Nat /\ nonces \in Nat /\ cursor[c] \in Nat /\ runtime[c] \in Nat /\ live[c] \in Nat
      /\ loaded[c] \subseteq Nat
  BY Numbers
<1>1. CASE Begin(c)
  <2>1. /\ tx[c] = None /\ nonces' = nonces + 1 /\ UNCHANGED <<runtime, old>> /\ tx'[c] # None
        /\ tx'[c] = [env |-> NewEnvelope(c), phase |-> "intent"] /\ alive[c]
    BY <1>1, <1>j, NoneIsNoExchange, NewExchange DEF Begin, Exchange
  <2>2. /\ tx'[c].env.owner = c /\ tx'[c].env.runtime = runtime[c]
        /\ tx'[c].env.start = next[c] /\ tx'[c].env.index = next[c]
        /\ tx'[c].env.nonce = nonces + 1 /\ tx'[c].phase = "intent" /\ next[c] \in Nat
    BY <2>1, SlotWireAssumption DEF NewEnvelope, Typed, JournalTyped, NextSlot
  <2>3. fit' BY <1>0, <1>f, <1>i, <2>1, <2>2, Numbers
  <2>4. \A i \in Index : alive[c] /\ cursor[c] <= i /\ payload[i] # Inert =>
             payload[i].runtime # live[c]
    BY <1>r, <2>1 DEF Current
  <2>5. ~Arrived(c)'
    <3>1. nonces + 1 \notin loaded[c] BY <1>f, <1>i
    <3> QED BY <1>0, <2>2, <3>1 DEF Arrived
  <2>6. Route(c)'
    BY <1>0, <1>p, <2>2, <2>4, <2>5 DEF Route, Current, Loaded, Received, Sent, InPhase
  <2> QED BY <1>a, <2>1, <2>3, <2>6
<1>2. CASE Reallocate(c)
  <2>1. /\ tx[c] # None /\ tx[c].phase = "intent" /\ alive[c]
        /\ ~Holds(c) /\ UNCHANGED <<nonces, runtime, old>>
        /\ tx[c] \in Exchange /\ tx[c].env \in Envelope
    BY <1>2, <1>j, InPhaseTyped DEF Reallocate, InPhase, ReservedByOther, Holds, SaveTx
  <2>j. PICK j : j = NextFreeSlot(tx[c].env.index) OBVIOUS
  <2>2. j \in FreeAfter(tx[c].env.index) /\ j \in Index
    BY <1>2, <1>n, <2>1, <2>j, NextFreeSlotBehind DEF Reallocate
  <2>3. j > tx[c].env.index BY <1>i, <1>n, <2>1, <2>2, SlotWireAssumption DEF FreeAfter, Index
  <2>4. tx' = [tx EXCEPT ![c] = [tx[c] EXCEPT !.env.index = NextFreeSlot(@)]]
    BY <1>2 DEF Reallocate, SaveTx
  <2>5. tx'[c] = [tx[c] EXCEPT !.env = [tx[c].env EXCEPT !.index = j]]
    BY <1>j, <2>1, <2>4, <2>j DEF Exchange, Envelope
  <2>6. /\ tx'[c].env.owner = tx[c].env.owner /\ tx'[c].env.runtime = tx[c].env.runtime
        /\ tx'[c].env.start = tx[c].env.start /\ tx'[c].env.index = j
        /\ tx'[c].env.nonce = tx[c].env.nonce /\ tx'[c].phase = "intent"
    BY <2>1, <2>5 DEF Exchange, Envelope
  <2>7. fit'
    <3>1. /\ tx[c].env.owner = c /\ tx[c].env.runtime = runtime[c]
          /\ tx[c].env.start <= tx[c].env.index /\ tx[c].env.nonce <= nonces
          /\ old[c] # None => old[c].nonce <= nonces /\ old[c].nonce < tx[c].env.nonce
      BY <1>f, <2>1
    <3>2. tx[c].env.start <= j
      <4>1. j \in Nat /\ tx[c].env.index \in Nat /\ tx[c].env.start \in Nat
        BY <1>i, <1>n, <2>1, <2>2
      <4> QED BY <2>3, <3>1, <4>1
    <3> QED BY <1>0, <1>f, <2>1, <2>6, <3>1, <3>2
  <2>8. \A i \in Index : alive[c] /\ cursor[c] <= i /\ payload[i] # Inert =>
             payload[i].runtime # live[c]
    BY <1>r, <2>1 DEF Current
  <2>9. ~Arrived(c)'
    <3>1. ~Arrived(c) BY <1>r, <2>1 DEF Route, Loaded
    <3> QED BY <1>0, <2>1, <2>6, <3>1 DEF Arrived
  <2>10. Route(c)'
    BY <1>0, <1>p, <2>6, <2>8, <2>9 DEF Route, Current, Loaded, Received, Sent, InPhase
  <2> QED BY <1>a, <2>1, <2>7, <2>10
<1>3. CASE RecordPublished(c) \/ SendKey(c) \/ Receive(c)
  <2>1. PICK p \in Phase : tx' = [tx EXCEPT ![c].phase = p]
    BY <1>3 DEF RecordPublished, SendKey, Receive, SaveTx, Phase
  <2>2. /\ tx[c] # None /\ tx[c] \in Exchange /\ alive[c]
        /\ tx[c].phase # "received" /\ UNCHANGED <<nonces, runtime, old>>
    BY <1>3, <1>j DEF RecordPublished, SendKey, Receive, InPhase, SaveTx
  <2>3. /\ tx'[c] # None /\ tx'[c].env = tx[c].env /\ tx'[c].phase = p
    BY <1>j, <2>1, <2>2, NoneIsNoExchange DEF Exchange
  <2>4. fit' BY <1>0, <1>f, <2>2, <2>3
  <2>5. Holds(c)' <=> Holds(c) BY <1>p, <2>3 DEF Holds, Claims, Reserved
  <2>6. Arrived(c)' <=> Arrived(c) BY <1>0, <2>2, <2>3 DEF Arrived
  <2>7. Current(c)' BY <1>0, <1>p, <1>r, <2>3, <2>5 DEF Current
  <2>8. Loaded(c)' BY <1>0, <1>r, <2>2, <2>3, <2>5, <2>6 DEF Route, Loaded
  <2>9. Received(c)'
    <3>1. CASE Receive(c) BY <1>0, <2>2, <2>3, <2>6, <3>1 DEF Receive, Received, InPhase, Arrived
    <3>2. CASE RecordPublished(c) \/ SendKey(c)
      <4>1. tx'[c].phase # "received"
        BY <1>j, <2>2, <3>2 DEF RecordPublished, SendKey, SaveTx, Exchange
      <4> QED BY <4>1 DEF Received, InPhase
    <3> QED BY <1>3, <3>1, <3>2
  <2>10. Sent(c)'
    <3>1. CASE SendKey(c)
      <4>1. /\ Claims(c, tx[c].env) /\ Published(tx[c].env) /\ Reserved(tx[c].env.index)
            /\ cursor[c] = tx[c].env.start
        BY <3>1 DEF SendKey, PublicationVerified
      <4>2. payload[tx[c].env.index] = tx[c].env
        <5>1. tx[c].env # None BY <1>n, <2>2, NoneIsNoPayload, Numbers DEF Payload
        <5>2. payload[tx[c].env.index] \in {tx[c].env, None} /\ payload[tx[c].env.index] \in Payload
          BY <1>n, <2>2, <4>1 DEF Published, PoolSettled, NoDrift, Typed, PoolTypeOK
        <5> QED BY <5>2, NoneIsNoPayload
      <4>3. Holds(c) BY <4>1 DEF Holds
      <4>4. cursor[c] <= tx[c].env.index BY <1>f, <2>2, <4>1
      <4> QED BY <1>0, <1>p, <2>3, <2>5, <4>2, <4>3, <4>4 DEF Sent
    <3>2. CASE RecordPublished(c) \/ Receive(c)
      <4>1. tx'[c].phase # "input_attempted"
        BY <1>j, <2>2, <3>2 DEF RecordPublished, Receive, SaveTx, Exchange
      <4> QED BY <4>1 DEF Sent, InPhase
    <3> QED BY <1>3, <3>1, <3>2
  <2> QED BY <1>a, <2>2, <2>4, <2>7, <2>8, <2>9, <2>10 DEF Route
<1>4. CASE Finish(c)
  <2>1. /\ tx[c] # None /\ tx[c].phase = "received" /\ alive[c] /\ tx'[c] = None
        /\ UNCHANGED <<runtime, old, nonces>>
    BY <1>4, <1>j DEF Finish, InPhase
  <2>2. live[c] = tx[c].env.runtime => tx[c].env.index < cursor[c]
    BY <1>r, <2>1 DEF Route, Received, Loaded, InPhase
  <2>3. \A i \in Index : cursor[c] <= i /\ payload[i] # Inert => payload[i].runtime # live[c]
    BY <1>r, <1>n, <1>i, <2>1, <2>2 DEF Current
  <2>4. Route(c)' BY <1>0, <1>p, <2>1, <2>3, EmptyRoute
  <2>5. fit' BY <1>0, <1>f, <2>1
  <2> QED BY <1>a, <2>1, <2>4, <2>5
<1>5. CASE Recover(c)
  <2>1. /\ live[c] > runtime[c] /\ tx'[c] = None /\ runtime'[c] = live[c]
        /\ old'[c] = (IF tx[c] = None THEN None ELSE tx[c].env) /\ UNCHANGED nonces
    BY <1>5, <1>j DEF Recover
  <2>2. \A i \in Index : alive[c] /\ cursor[c] <= i /\ payload[i] # Inert =>
             payload[i].runtime # live[c]
    BY <1>f, <1>r, <1>i, <2>1 DEF Current
  <2>3. Route(c)' BY <1>0, <1>p, <2>1, <2>2, EmptyRoute
  <2>4. fit' BY <1>0, <1>f, <1>i, <2>1
  <2> QED BY <1>a, <2>1, <2>3, <2>4
<1>6. CASE Superseded(c) \/ Crash(c)
  <2>1. /\ tx' = tx /\ UNCHANGED <<runtime, nonces>> /\ old'[c] \in {old[c], None}
    BY <1>6, <1>j DEF Superseded, Crash, journal
  <2>2. fit' BY <1>0, <1>f, <2>1
  <2>3. \A i \in Index : entry'[i] = entry[i] /\ payload'[i] = payload[i] BY <1>p
  <2>4. Route(c)' BY <1>0, <1>r, <2>1, <2>3, OthersKeep
  <2> QED BY <1>a, <2>1, <2>2, <2>4
<1>7. CASE CloseEnded(c)
  <2>1. /\ ~alive[c] /\ tx'[c] = None /\ old'[c] = None /\ UNCHANGED <<runtime, nonces>>
    BY <1>7, <1>j DEF CloseEnded
  <2>2. fit' BY <1>0, <1>f, <2>1
  <2>3. Route(c)' BY <1>0, <2>1, EmptyRoute
  <2> QED BY <1>a, <2>1, <2>2, <2>3
<1> QED BY <1>1, <1>2, <1>3, <1>4, <1>5, <1>6, <1>7 DEF ExchangeStep

LEMMA GameRoute ==
    ASSUME Typed, Routed, NEW c \in Drivers, Game(c)
    PROVE  Routed'
<1>0. UNCHANGED poolVars /\ UNCHANGED <<runtime, tx, old, nonces>> /\ UNCHANGED <<entry, payload>>
  BY PoolUntouched
     DEF poolVars, Game, DeliverKey, LoseKey, LoadSlot, StopWaking, RuntimeStarts, ProcessEnds, journal
<1>t. /\ alive \in [Drivers -> BOOLEAN] /\ live \in [Drivers -> Runtimes]
      /\ cursor \in [Drivers -> NextSlot] /\ loaded \in [Drivers -> SUBSET Nat]
  BY DEF Typed, GameTyped
<1>r. Route(c) /\ Current(c) BY DEF Routed, Route
<1>i. Index \subseteq Nat /\ cursor[c] \in Nat /\ live[c] \in Nat /\ started \in Nat BY Numbers
<1>f. JournalsFit BY DEF Routed
<1>o. ASSUME UNCHANGED <<live, started>>, Route(c)',
             \A d \in Drivers : \A n \in loaded'[d] : n \in loaded[d] \/ n <= nonces,
             \A d \in Drivers \ {c} :
               /\ alive'[d] = alive[d] /\ cursor'[d] = cursor[d] /\ loaded'[d] = loaded[d]
      PROVE  Routed'
  <2>1. JournalsFit' BY <1>0, <1>f, <1>o DEF JournalsFit
  <2>2. TokensDiffer' BY <1>0, <1>o DEF Routed, TokensDiffer
  <2>3. \A d \in Drivers : Route(d)' BY <1>0, <1>o, BesideKeeps
  <2> QED BY <2>1, <2>2, <2>3 DEF Routed
<1>1. CASE DeliverKey(c) \/ LoseKey(c) \/ StopWaking(c)
  <2>1. UNCHANGED <<alive, live, started, cursor, loaded>>
    BY <1>1 DEF DeliverKey, LoseKey, StopWaking, game
  <2>2. \A i \in Index : entry'[i] = entry[i] /\ payload'[i] = payload[i] BY <1>0
  <2>3. Route(c)' BY <1>0, <1>r, <2>1, <2>2, OthersKeep
  <2> QED BY <1>o, <2>1, <2>3
<1>2. CASE LoadSlot(c)
  <2>1. /\ alive[c] /\ cursor[c] \in Index /\ UNCHANGED <<alive, live, started>>
        /\ cursor' = [cursor EXCEPT ![c] = @ + 1]
        /\ loaded' = IF payload[cursor[c]] # Inert /\ payload[cursor[c]].runtime = live[c]
                     THEN [loaded EXCEPT ![c] = @ \cup {payload[cursor[c]].nonce}] ELSE loaded
    BY <1>2, <1>t, SlotWireAssumption DEF LoadSlot, NextSlot, Index
  <2>2. cursor'[c] = cursor[c] + 1 BY <1>t, <2>1
  <2>3. \A d \in Drivers \ {c} : cursor'[d] = cursor[d] /\ loaded'[d] = loaded[d]
    BY <1>t, <2>1
  <2>4. CASE payload[cursor[c]] # Inert /\ payload[cursor[c]].runtime = live[c]
    <3>1. /\ tx[c] # None /\ payload[cursor[c]] = tx[c].env /\ tx[c].env.index = cursor[c]
          /\ Holds(c)
      BY <1>r, <1>i, <2>1, <2>4 DEF Current
    <3>2. loaded'[c] = loaded[c] \cup {tx[c].env.nonce}
      BY <1>t, <2>1, <2>4, <3>1
    <3>3. Holds(c)' BY <1>0, <3>1 DEF Holds, Claims, Reserved
    <3>4. Arrived(c)' BY <1>0, <2>1, <2>4, <3>1, <3>2 DEF Arrived
    <3>5. Current(c)'
      <4>1. ASSUME NEW i \in Index, cursor[c] + 1 <= i, payload[i] # Inert,
                   payload[i].runtime = live[c]
            PROVE  FALSE
        <5>1. cursor[c] <= i /\ i # cursor[c] BY <1>i, <4>1
        <5> QED BY <1>r, <2>1, <3>1, <4>1, <5>1 DEF Current
      <4> QED BY <1>0, <2>1, <2>2, <4>1 DEF Current
    <3>6. Loaded(c)' BY <1>0, <1>i, <2>2, <3>1, <3>3 DEF Loaded
    <3>7. Received(c)' BY <3>4 DEF Received
    <3>8. Sent(c)' BY <1>0, <1>r, <2>1, <3>1, <3>3, <3>4 DEF Route, Sent, InPhase
    <3>9. tx[c].env.nonce <= nonces BY <1>f, <3>1 DEF JournalsFit
    <3> QED BY <1>o, <2>1, <2>3, <3>2, <3>5, <3>6, <3>7, <3>8, <3>9 DEF Route
  <2>5. CASE ~(payload[cursor[c]] # Inert /\ payload[cursor[c]].runtime = live[c])
    <3>1. loaded' = loaded BY <2>1, <2>5
    <3>2. Holds(c)' <=> Holds(c) BY <1>0 DEF Holds, Claims, Reserved
    <3>3. Arrived(c)' <=> Arrived(c) BY <1>0, <2>1, <3>1 DEF Arrived
    <3>4. Current(c)' BY <1>0, <1>i, <1>r, <2>1, <2>2, <3>2 DEF Current
    <3>n. tx[c] # None => tx[c].env.index \in Nat /\ tx[c].env # Inert
      BY Numbers, NoneIsNoPayload
    <3>5. Loaded(c)'
      BY <1>0, <1>i, <1>r, <2>1, <2>2, <3>2, <3>3, <3>n DEF Route, Loaded, Arrived
    <3>6. Received(c)' BY <1>0, <1>r, <2>1, <3>3 DEF Route, Received, InPhase
    <3>7. Sent(c)'
      <4> SUFFICES ASSUME InPhase(c, "input_attempted")
                   PROVE  /\ Holds(c) /\ payload[tx[c].env.index] = tx[c].env
                          /\ live[c] = tx[c].env.runtime /\ ~Arrived(c) =>
                               cursor[c] + 1 <= tx[c].env.index
        BY <1>0, <2>1, <2>2, <3>2, <3>3 DEF Sent, InPhase
      <4>1. /\ Holds(c) /\ payload[tx[c].env.index] = tx[c].env /\ tx[c] # None
            /\ live[c] = tx[c].env.runtime /\ ~Arrived(c) => cursor[c] <= tx[c].env.index
        BY <1>r DEF Route, Sent, InPhase
      <4>2. live[c] = tx[c].env.runtime => cursor[c] # tx[c].env.index
        BY <2>5, <3>n, <4>1
      <4> QED BY <1>i, <3>n, <4>1, <4>2
    <3> QED BY <1>o, <2>1, <2>3, <3>1, <3>4, <3>5, <3>6, <3>7 DEF Route
  <2> QED BY <2>4, <2>5
<1>3. CASE RuntimeStarts(c)
  <2>1. /\ started' = started + 1 /\ UNCHANGED alive
        /\ live'[c] = started + 1 /\ loaded'[c] = {}
        /\ \A d \in Drivers \ {c} : /\ live'[d] = live[d] /\ cursor'[d] = cursor[d]
                                    /\ loaded'[d] = loaded[d]
    BY <1>3, <1>t DEF RuntimeStarts
  <2>2. \A d \in Drivers : /\ runtime[d] < started + 1 /\ live[d] < started + 1
                           /\ runtime[d] \in Nat /\ live[d] \in Nat
                           /\ tx[d] # None => tx[d].env.runtime = runtime[d]
    BY <1>f, <1>i, Numbers DEF JournalsFit
  <2>3. \A i \in Index : payload[i] # Inert =>
          payload[i].runtime <= started /\ payload[i].runtime < started + 1
    BY <1>i, Numbers DEF Routed, TokensDiffer
  <2>4. JournalsFit'
    <3>1. ASSUME NEW d \in Drivers
          PROVE  /\ runtime[d] <= live'[d] /\ live'[d] <= started'
                 /\ \A n \in loaded'[d] : n <= nonces
      BY <1>f, <1>i, <2>1, <2>2 DEF JournalsFit
    <3> QED BY <1>0, <1>f, <3>1 DEF JournalsFit
  <2>5. TokensDiffer'
    <3>1. \A e, d \in Drivers : runtime[e] = live'[d] \/ live'[e] = live'[d] => e = d
      BY <2>1, <2>2 DEF Routed, TokensDiffer
    <3>2. \A i \in Index : payload[i] # Inert => payload[i].runtime <= started + 1
      BY <1>i, <2>3, Numbers DEF Routed, TokensDiffer
    <3> QED BY <1>0, <2>1, <3>1, <3>2 DEF TokensDiffer
  <2>6. Route(c)'
    <3>1. Current(c)' BY <1>0, <1>i, <2>1, <2>3, Numbers DEF Current
    <3>2. ~Arrived(c)' BY <1>0, <2>1 DEF Arrived
    <3>3. tx[c] # None => tx[c].env.runtime # live'[c] BY <2>1, <2>2
    <3>4. Holds(c)' <=> Holds(c) BY <1>0 DEF Holds, Claims, Reserved
    <3>5. Sent(c)' BY <1>0, <1>r, <2>1, <3>3, <3>4 DEF Route, Sent, InPhase
    <3>6. Received(c)' BY <1>0, <3>3 DEF Received, InPhase
    <3> QED BY <3>1, <3>2, <3>5, <3>6 DEF Route, Loaded
  <2>7. \A d \in Drivers : Route(d)' BY <1>0, <2>1, <2>6, BesideKeeps
  <2> QED BY <2>4, <2>5, <2>7 DEF Routed
<1>4. CASE ProcessEnds(c)
  <2>1. /\ ~alive'[c] /\ UNCHANGED <<live, started, cursor, loaded>>
        /\ \A d \in Drivers \ {c} : alive'[d] = alive[d]
    BY <1>4, <1>t DEF ProcessEnds
  <2>2. Route(c)' BY <2>1 DEF Route, Current, Loaded, Received, Sent, InPhase
  <2> QED BY <1>o, <2>1, <2>2
<1> QED BY <1>1, <1>2, <1>3, <1>4 DEF Game

LEMMA StepRouted == Typed /\ PoolSettled /\ Routed /\ [Next]_vars => Routed'
<1> SUFFICES ASSUME Typed, PoolSettled, Routed, [Next]_vars PROVE Routed' OBVIOUS
<1>1. CASE UNCHANGED vars
  <2>1. /\ UNCHANGED <<alive, live, started, cursor, loaded, runtime, tx, old, nonces>>
        /\ UNCHANGED <<entry, payload>>
    BY <1>1 DEF vars, poolVars, game, journal
  <2>2. JournalsFit' /\ TokensDiffer' BY <2>1 DEF Routed, JournalsFit, TokensDiffer
  <2>3. ASSUME NEW d \in Drivers PROVE Route(d)'
    <3>1. Route(d) BY DEF Routed
    <3> QED BY <2>1, <3>1, OthersKeep
  <2> QED BY <2>2, <2>3 DEF Routed
<1> QED BY <1>1, Steps, TableStep, ExchangeRoute, GameRoute

LEMMA InitRouted == Init => Routed
<1> SUFFICES ASSUME Init PROVE Routed OBVIOUS
<1>1. /\ \A d \in Drivers : /\ tx[d] = None /\ old[d] = None /\ loaded[d] = {}
                            /\ runtime[d] = live[d]
      /\ \A i \in Index : payload[i] = Inert
      /\ live \in [Drivers -> 1..started]
      /\ \A c, d \in Drivers : c # d => live[c] # live[d]
  BY DEF Init
<1>2. started \in Nat BY InitTyped DEF Typed, GameTyped, Runtimes
<1>3. JournalsFit BY <1>1, <1>2 DEF JournalsFit
<1>4. TokensDiffer BY <1>1 DEF TokensDiffer
<1>5. \A d \in Drivers : Route(d)
  BY <1>1 DEF Route, Current, Loaded, Received, Sent, Arrived, InPhase
<1> QED BY <1>3, <1>4, <1>5 DEF Routed

LEMMA AlwaysRouted == Spec => [](Typed /\ Routed)
<1>1. Init => Typed /\ PoolSettled /\ Routed
  BY InitTyped, InitRouted DEF Init, FreshEntry, PoolSettled, NoDrift, FreeIsSettled
<1>2. Typed /\ PoolSettled /\ Routed /\ [Next]_vars => (Typed /\ PoolSettled /\ Routed)'
  BY StepTyped, StepSettles, StepRouted
<1> QED BY <1>1, <1>2, PTL DEF Spec

(* Whatever the other connections publish, move, retire or leave torn      *)
(* after VerifySlotRoute has passed, a wake that a key starts comes to the *)
(* envelope the key was sent for, and to no other of its runtime before.   *)
THEOREM KeysFindTheirTarget == Spec => []KeyFindsTarget
<1>1. Typed /\ Routed => KeyFindsTarget
  <2> SUFFICES ASSUME Typed, Routed, NEW d \in Drivers, InPhase(d, "input_attempted"),
                      live[d] = tx[d].env.runtime, tx[d].env.nonce \notin loaded[d]
               PROVE  /\ cursor[d] <= tx[d].env.index
                      /\ payload[tx[d].env.index] = tx[d].env
                      /\ \A i \in cursor[d] .. (tx[d].env.index - 1) :
                           payload[i] # Inert => payload[i].runtime # live[d]
    BY DEF KeyFindsTarget
  <2>1. Current(d) /\ Sent(d) BY DEF Routed, Route
  <2>2. ~Arrived(d) BY DEF Arrived
  <2>3. cursor[d] <= tx[d].env.index /\ payload[tx[d].env.index] = tx[d].env
    BY <2>1, <2>2 DEF Sent
  <2>4. alive[d] /\ tx[d] # None BY DEF InPhase
  <2>5. cursor[d] \in Nat \ {0} /\ tx[d].env.index \in Index /\ Slots \in Nat
    BY <2>4, Numbers, SlotWireAssumption DEF Typed, GameTyped, NextSlot
  <2>6. \A i \in cursor[d] .. (tx[d].env.index - 1) :
          i \in Index /\ cursor[d] <= i /\ i # tx[d].env.index
    BY <2>5 DEF Index
  <2> QED BY <2>1, <2>3, <2>4, <2>6 DEF Current
<1> QED BY <1>1, AlwaysRouted, PTL

(* An envelope that a game can still load is reserved for its connection:  *)
(* no other connection takes the slot, and moves into it, before the       *)
(* engine has received what is there.                                      *)
THEOREM LoadablesAreReserved == Spec => []LoadableIsReserved
<1>1. Typed /\ Routed => LoadableIsReserved
  BY DEF Routed, Route, Current, Holds, Claims, LoadableIsReserved
<1> QED BY <1>1, AlwaysRouted, PTL
=============================================================================
