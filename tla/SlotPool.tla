------------------------------ MODULE SlotPool ------------------------------
(***************************************************************************)
(* The slot pool of one addon installation: pool.json, one entry per       *)
(* physical slot, and the Payload.lua file of every slot.  All connections *)
(* on this installation share it (internal/delivery/slots.go, slot_route,  *)
(* slot_retirement).                                                       *)
(*                                                                         *)
(* A digest of a payload is modelled by the payload itself.  pool.json is  *)
(* replaced atomically, and so is every payload file, but a publication    *)
(* needs both files: it is three steps (reserve, write, seal) and the      *)
(* process may die between any two of them.                                *)
(***************************************************************************)
EXTENDS SlotWire

VARIABLES
    entry,      \* pool.json: slot |-> reservation record
    payload     \* Payload.lua: slot |-> bytes on disk

poolVars == <<entry, payload>>

Entry ==
    [nonce    : Nat,                       \* 0: never reserved
     runtime  : Runtimes,
     consumer : Drivers \cup {None},
     hash     : Payload,
     pend     : Payload \cup {None},
     consumed : BOOLEAN,
     retRt    : Runtimes \cup {None},      \* RetiredRuntime
     retProc  : BOOLEAN]                   \* RetiredProcess

FreshEntry ==
    [nonce |-> 0, runtime |-> 0, consumer |-> None, hash |-> Inert,
     pend |-> None, consumed |-> FALSE, retRt |-> None, retProc |-> FALSE]

PoolTypeOK ==
    /\ entry \in [Index -> Entry]
    /\ payload \in [Index -> Payload]

-----------------------------------------------------------------------------
\* A reservation that nothing has retired yet.
Reserved(i) ==
    /\ entry[i].nonce # 0
    /\ ~entry[i].consumed
    /\ entry[i].retRt = None
    /\ ~entry[i].retProc

Claims(c, e) ==
    /\ entry[e.index].nonce = e.nonce
    /\ entry[e.index].consumer = c
    /\ entry[e.index].runtime = e.runtime

\* Mutation of ReservedByOther: a torn publication does not count.
ReservedByOtherSealed(c, e) ==
    /\ Reserved(e.index) /\ entry[e.index].pend = None
    /\ ~Claims(c, e)

\* Mutation of ReservedByOther: once published, a slot is free again.
ReservedByOtherPending(c, e) ==
    /\ Reserved(e.index) /\ entry[e.index].pend # None
    /\ ~Claims(c, e)

\* ErrSlotReserved
ReservedByOther(c, e) == Reserved(e.index) /\ ~Claims(c, e)

\* PublishSlot has nothing left to do and returns nil.
Published(e) ==
    /\ entry[e.index].nonce = e.nonce
    /\ entry[e.index].hash = e
    /\ entry[e.index].pend = None

PublishReserve(c, e) ==
    /\ ~ReservedByOther(c, e)
    /\ entry[e.index].nonce = e.nonce => entry[e.index].pend = e
    /\ entry' = [entry EXCEPT ![e.index] =
                    [nonce |-> e.nonce, runtime |-> e.runtime, consumer |-> c,
                     hash |-> @.hash, pend |-> e, consumed |-> FALSE,
                     retRt |-> None, retProc |-> FALSE]]
    /\ UNCHANGED payload

PublishWrite(c, e) ==
    /\ Claims(c, e)
    /\ entry[e.index].pend = e
    /\ payload' = [payload EXCEPT ![e.index] = e]
    /\ UNCHANGED entry

PublishSeal(c, e) ==
    /\ Claims(c, e)
    /\ entry[e.index].pend = e
    /\ payload[e.index] = e
    /\ entry' = [entry EXCEPT ![e.index] = [@ EXCEPT !.hash = e, !.pend = None]]
    /\ UNCHANGED payload

\* VerifySlotPublication: what has to hold when a key is about to be sent.
PublicationVerified(c, e) ==
    /\ Claims(c, e)
    /\ Published(e)
    /\ Reserved(e.index)

\* VerifySlotRoute: every slot the addon will skip on its way to e.
RouteVerified(e) ==
    \A i \in e.start .. (e.index - 1) :
        payload[i] # Inert => payload[i].runtime # e.runtime

\* NextFreeSlot, as the set of slots it chooses the smallest of.
FreeAfter(i) ==
    {j \in (i + 1)..Slots : entry[j].pend = None /\ ~Reserved(j)}

NextFreeSlot(i) == CHOOSE j \in FreeAfter(i) : \A k \in FreeAfter(i) : j <= k

-----------------------------------------------------------------------------
(* Retirement of a reservation: by an exact receipt, by the proof that the *)
(* runtime it was meant for is gone, by the proof that the process is.     *)

ConsumeConflict(c, e) ==
    /\ entry[e.index].nonce = e.nonce
    /\ entry[e.index].consumer # c \/ entry[e.index].pend # None

ConsumeDone(e) == entry[e.index].nonce = e.nonce => entry[e.index].consumed

ConfirmSlotConsumed(c, e) ==
    /\ ~ConsumeConflict(c, e)
    /\ ~ConsumeDone(e)
    /\ entry' = [entry EXCEPT ![e.index].consumed = TRUE]
    /\ UNCHANGED payload

RetireRuntimeConflict(c, e, current) ==
    LET slot == entry[e.index] IN
    /\ slot.nonce = e.nonce
    /\ \/ slot.consumer # c \/ slot.runtime # e.runtime
       \/ (~slot.consumed /\ slot.retRt \notin {None, current})

RetireRuntimeDone(e, current) ==
    LET slot == entry[e.index] IN
    slot.nonce = e.nonce =>
        slot.consumed \/ (slot.retRt = current /\ slot.pend = None)

RetireSlotRuntime(c, e, current) ==
    /\ ~RetireRuntimeConflict(c, e, current)
    /\ ~RetireRuntimeDone(e, current)
    /\ payload[e.index] \in {entry[e.index].hash, entry[e.index].pend}
    /\ entry' = [entry EXCEPT ![e.index] =
                    [@ EXCEPT !.hash = payload[e.index], !.pend = None,
                              !.retRt = current]]
    /\ UNCHANGED payload

RetireProcessDone(e) ==
    LET slot == entry[e.index] IN
    slot.nonce = e.nonce => slot.consumed \/ slot.retProc

RetireSlotProcess(c, e) ==
    /\ Claims(c, e)
    /\ ~RetireProcessDone(e)
    /\ payload[e.index] \in {entry[e.index].hash, entry[e.index].pend}
    /\ entry' = [entry EXCEPT ![e.index] =
                    [@ EXCEPT !.hash = payload[e.index], !.pend = None,
                              !.retProc = TRUE]]
    /\ UNCHANGED payload

-----------------------------------------------------------------------------
(* InspectSlots accepts the pool: every payload on disk is the one its     *)
(* entry records or the one whose publication is pending.  Every entry     *)
(* point above starts with this check, so that a drifted slot would block  *)
(* every connection of the installation; no interleaving of publications,  *)
(* crashes and retirements may ever produce one.                           *)
NoDrift == \A i \in Index : payload[i] \in {entry[i].hash, entry[i].pend}
=============================================================================
