---------------------------- MODULE SlotPoolProofs ---------------------------
(***************************************************************************)
(* Lemmas about the operations of SlotPool, for every module whose steps   *)
(* are built from them: what they keep typed, and what keeps the payload   *)
(* on disk one that pool.json accounts for.                                *)
(***************************************************************************)
EXTENDS SlotPool, TLAPS, WellFoundedInduction

-----------------------------------------------------------------------------
(* Types.                                                                  *)

(* The slot a moved intent goes to is a slot behind the one it leaves.     *)
LEMMA NextFreeSlotBehind ==
    ASSUME NEW i \in Index, FreeAfter(i) # {}
    PROVE  NextFreeSlot(i) \in FreeAfter(i) /\ NextFreeSlot(i) \in Index
<1>0. Slots \in Nat BY SlotWireAssumption
<1>1. FreeAfter(i) \subseteq Index
  BY <1>0 DEF FreeAfter, Index
<1>2. FreeAfter(i) \subseteq Nat
  BY <1>0, <1>1 DEF Index
<1>3. PICK j \in FreeAfter(i) :
        \A k \in FreeAfter(i) : ~(<<k, j>> \in OpToRel(<, Nat))
  BY <1>2, NatLessThanWellFounded, WFMin
<1>4. \A k \in FreeAfter(i) : j <= k
  <2> SUFFICES ASSUME NEW k \in FreeAfter(i), k < j PROVE FALSE
    BY <1>2
  <2>1. <<k, j>> \in OpToRel(<, Nat)
    BY <1>2 DEF OpToRel
  <2> QED BY <1>3, <2>1
<1> QED BY <1>1, <1>4 DEF NextFreeSlot

(* Each step of a publication and of a retirement keeps the pool typed.    *)
LEMMA PublishReserveTyped ==
    ASSUME PoolTypeOK, NEW c \in Drivers, NEW e \in Envelope, PublishReserve(c, e)
    PROVE  PoolTypeOK'
<1>1. e.index \in Index /\ e.nonce \in Nat /\ e.runtime \in Runtimes /\ e \in Payload
  BY DEF Envelope, Payload
<1>2. [nonce |-> e.nonce, runtime |-> e.runtime, consumer |-> c,
       hash |-> entry[e.index].hash, pend |-> e, consumed |-> FALSE,
       retRt |-> None, retProc |-> FALSE] \in Entry
  BY <1>1 DEF PoolTypeOK, Entry
<1> QED BY <1>1, <1>2 DEF PoolTypeOK, PublishReserve

LEMMA PublishWriteTyped ==
    ASSUME PoolTypeOK, NEW c \in Drivers, NEW e \in Envelope, PublishWrite(c, e)
    PROVE  PoolTypeOK'
BY DEF PoolTypeOK, PublishWrite, Payload, Envelope

LEMMA PublishSealTyped ==
    ASSUME PoolTypeOK, NEW c \in Drivers, NEW e \in Envelope, PublishSeal(c, e)
    PROVE  PoolTypeOK'
<1>1. e.index \in Index /\ e \in Payload /\ entry[e.index] \in Entry
  BY DEF PoolTypeOK, Envelope, Payload
<1>2. [entry[e.index] EXCEPT !.hash = e, !.pend = None] \in Entry
  BY <1>1 DEF Entry
<1> QED BY <1>1, <1>2 DEF PoolTypeOK, PublishSeal

LEMMA ConfirmSlotConsumedTyped ==
    ASSUME PoolTypeOK, NEW c \in Drivers, NEW e \in Envelope,
           ConfirmSlotConsumed(c, e)
    PROVE  PoolTypeOK'
<1>1. e.index \in Index /\ entry[e.index] \in Entry
  BY DEF PoolTypeOK, Envelope
<1>2. [entry[e.index] EXCEPT !.consumed = TRUE] \in Entry
  BY <1>1 DEF Entry
<1> QED BY <1>1, <1>2 DEF PoolTypeOK, ConfirmSlotConsumed

LEMMA RetireSlotRuntimeTyped ==
    ASSUME PoolTypeOK, NEW c \in Drivers, NEW e \in Envelope,
           NEW r \in Runtimes, RetireSlotRuntime(c, e, r)
    PROVE  PoolTypeOK'
<1>1. e.index \in Index /\ payload[e.index] \in Payload /\ entry[e.index] \in Entry
  BY DEF PoolTypeOK, Envelope
<1>2. [entry[e.index] EXCEPT !.hash = payload[e.index], !.pend = None, !.retRt = r]
        \in Entry
  BY <1>1 DEF Entry
<1> QED BY <1>1, <1>2 DEF PoolTypeOK, RetireSlotRuntime

LEMMA RetireSlotProcessTyped ==
    ASSUME PoolTypeOK, NEW c \in Drivers, NEW e \in Envelope,
           RetireSlotProcess(c, e)
    PROVE  PoolTypeOK'
<1>1. e.index \in Index /\ payload[e.index] \in Payload /\ entry[e.index] \in Entry
  BY DEF PoolTypeOK, Envelope
<1>2. [entry[e.index] EXCEPT !.hash = payload[e.index], !.pend = None, !.retProc = TRUE]
        \in Entry
  BY <1>1 DEF Entry
<1> QED BY <1>1, <1>2 DEF PoolTypeOK, RetireSlotProcess

-----------------------------------------------------------------------------
(* Drift.  A slot that nobody holds has no publication pending: that is    *)
(* what makes the reservation of a free slot harmless to its content, and  *)
(* a write possible only while the slot is held.                           *)

FreeIsSettled == \A i \in Index : ~Reserved(i) => entry[i].pend = None

PoolSettled == NoDrift /\ FreeIsSettled

LEMMA PublishReserveSettled ==
    ASSUME PoolTypeOK, PoolSettled, NEW c \in Drivers, NEW e \in Envelope,
           PublishReserve(c, e)
    PROVE  PoolSettled'
<1>1. e.index \in Index /\ e.nonce # 0
  BY DEF Envelope
<1>2. /\ \A i \in Index \ {e.index} : entry'[i] = entry[i]
      /\ entry'[e.index] =
           [nonce |-> e.nonce, runtime |-> e.runtime, consumer |-> c,
            hash |-> entry[e.index].hash, pend |-> e, consumed |-> FALSE,
            retRt |-> None, retProc |-> FALSE]
      /\ payload' = payload
  BY <1>1 DEF PublishReserve, PoolTypeOK
<1>3. payload[e.index] \in {entry[e.index].hash, e}
  <2>1. CASE entry[e.index].nonce = e.nonce
    BY <1>1, <2>1 DEF PublishReserve, PoolSettled, NoDrift
  <2>2. CASE entry[e.index].nonce # e.nonce
    <3>1. entry[e.index].pend = None
      BY <1>1, <2>2 DEF PublishReserve, ReservedByOther, Claims, PoolSettled, FreeIsSettled
    <3>2. payload[e.index] # None
      BY <1>1, NoneIsNoPayload DEF PoolTypeOK
    <3> QED BY <1>1, <3>1, <3>2 DEF PoolSettled, NoDrift
  <2> QED BY <2>1, <2>2
<1>4. NoDrift'
  BY <1>1, <1>2, <1>3 DEF PoolSettled, NoDrift
<1>5. Reserved(e.index)'
  BY <1>1, <1>2 DEF Reserved
<1>6. FreeIsSettled'
  BY <1>2, <1>5 DEF PoolSettled, FreeIsSettled, Reserved
<1> QED BY <1>4, <1>6 DEF PoolSettled

LEMMA PublishWriteSettled ==
    ASSUME PoolTypeOK, PoolSettled, NEW c \in Drivers, NEW e \in Envelope,
           PublishWrite(c, e)
    PROVE  PoolSettled'
BY DEF PublishWrite, PoolSettled, NoDrift, FreeIsSettled, Reserved, PoolTypeOK

LEMMA PublishSealSettled ==
    ASSUME PoolTypeOK, PoolSettled, NEW c \in Drivers, NEW e \in Envelope,
           PublishSeal(c, e)
    PROVE  PoolSettled'
<1>1. /\ \A i \in Index \ {e.index} : entry'[i] = entry[i]
      /\ e.index \in Index
      /\ entry'[e.index].hash = payload[e.index] /\ entry'[e.index].pend = None
      /\ payload' = payload
  BY DEF PublishSeal, PoolTypeOK, Entry, Envelope
<1> QED BY <1>1 DEF PoolSettled, NoDrift, FreeIsSettled, Reserved

LEMMA ConfirmSlotConsumedSettled ==
    ASSUME PoolTypeOK, PoolSettled, NEW c \in Drivers, NEW e \in Envelope,
           ConfirmSlotConsumed(c, e)
    PROVE  PoolSettled'
<1>1. /\ \A i \in Index \ {e.index} : entry'[i] = entry[i]
      /\ e.index \in Index
      /\ entry'[e.index].hash = entry[e.index].hash
      /\ entry'[e.index].pend = entry[e.index].pend
      /\ payload' = payload
  BY DEF ConfirmSlotConsumed, PoolTypeOK, Entry, Envelope
<1>2. entry[e.index].pend = None
  BY DEF ConfirmSlotConsumed, ConsumeConflict, ConsumeDone
<1> QED BY <1>1, <1>2 DEF PoolSettled, NoDrift, FreeIsSettled, Reserved

LEMMA RetireSlotRuntimeSettled ==
    ASSUME PoolTypeOK, PoolSettled, NEW c \in Drivers, NEW e \in Envelope,
           NEW r \in Runtimes, RetireSlotRuntime(c, e, r)
    PROVE  PoolSettled'
<1>1. /\ \A i \in Index \ {e.index} : entry'[i] = entry[i]
      /\ e.index \in Index
      /\ entry'[e.index].hash = payload[e.index] /\ entry'[e.index].pend = None
      /\ payload' = payload
  BY DEF RetireSlotRuntime, PoolTypeOK, Entry, Envelope
<1> QED BY <1>1 DEF PoolSettled, NoDrift, FreeIsSettled, Reserved

LEMMA RetireSlotProcessSettled ==
    ASSUME PoolTypeOK, PoolSettled, NEW c \in Drivers, NEW e \in Envelope,
           RetireSlotProcess(c, e)
    PROVE  PoolSettled'
<1>1. /\ \A i \in Index \ {e.index} : entry'[i] = entry[i]
      /\ e.index \in Index
      /\ entry'[e.index].hash = payload[e.index] /\ entry'[e.index].pend = None
      /\ payload' = payload
  BY DEF RetireSlotProcess, PoolTypeOK, Entry, Envelope
<1> QED BY <1>1 DEF PoolSettled, NoDrift, FreeIsSettled, Reserved
=============================================================================
