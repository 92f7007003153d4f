--------------------------- MODULE ChannelProofs ----------------------------
(***************************************************************************)
(* Theorems about Channel, for any number of slots, runtimes, operations,  *)
(* keys and connections: the type invariant, that the shared slot pool     *)
(* never drifts, and, from the invariant Conduct, what the protocol of     *)
(* driver and engine promises: no commit is repeated, no result is lost or *)
(* invented, nothing is given up that can still be loaded.  At the end,    *)
(* that Channel implements OperationPromise.                               *)
(***************************************************************************)
EXTENDS ChannelPromise, SlotPoolProofs, FiniteSetTheorems, TLAPS

-----------------------------------------------------------------------------
(* The engine.  A ticket that is active or pending has a job: without that *)
(* the type invariant is not inductive, because Commit, JobSettles and     *)
(* CloseCancelsPrepared change the job of such a ticket.                   *)

EngineClock ==
    /\ live \in Runtimes /\ alive \in BOOLEAN
    /\ cursor \in NextSlot /\ needSlots \in BOOLEAN

EngineDesk ==
    /\ owner \in Drivers \cup {None}
    /\ jobs \in [Ticket -> Job \cup {None}]
    /\ count \in Nat
    /\ active \in Ticket \cup {None} /\ pending \in Ticket \cup {None}
    /\ receipts \subseteq Receipt
    /\ runs \in [Ticket -> Nat]
    /\ outcome \in [Ticket -> Report \cup {None}]
    /\ active # None => jobs[active] # None
    /\ pending # None => jobs[pending] # None

deskVars == <<owner, jobs, count, active, pending, receipts, runs, outcome>>

LEMMA EngineParts ==
    EngineClock /\ EngineDesk => EngineTypeOK
BY DEF EngineClock, EngineDesk, EngineTypeOK

LEMMA AnswerTyped ==
    ASSUME EngineClock, NEW e \in Envelope,
           NEW own \in Drivers \cup {None}, NEW s \in ReceiptState
    PROVE  Answer(e, own, s) \in Receipt
<1>1. e.index + 1 \in NextSlot
  BY SlotWireAssumption DEF Envelope, Index, NextSlot
<1>2. /\ e.nonce \in Nat /\ e.action \in Action /\ e.ticket \in Ticket \cup {None}
      /\ 0 \in Nat /\ "" \in Reason
  BY DEF Envelope, Reason
<1> QED BY <1>1, <1>2 DEF Answer, Receipt, EngineClock

LEMMA PublishTyped ==
    ASSUME receipts \subseteq Receipt, NEW r \in Receipt, Publish(r)
    PROVE  receipts' \subseteq Receipt
BY DEF Publish

LEMMA RefusalIsReason == ASSUME NEW e \in Envelope PROVE Refusal(e) \in Reason
BY DEF Refusal, Reason

(* Whatever the engine receives, its tables stay typed.                    *)
LEMMA ReceiveTyped ==
    ASSUME EngineClock, EngineDesk, NEW e \in Envelope, Receive(e)
    PROVE  EngineDesk'
<1>0. /\ e.nonce \in Nat /\ e.owner \in Drivers /\ e.prep \in Nat
      /\ e.ticket \in Ticket \cup {None}
      /\ e.action \in {"prepare", "commit", "confirm", "release"} => e.ticket \in Ticket
  BY DEF Envelope
<1>1. CASE Refuse(e)
  <2>1. [Answer(e, owner, "rejected") EXCEPT !.reason = Refusal(e)] \in Receipt
    BY AnswerTyped, RefusalIsReason DEF EngineDesk, ReceiptState, Receipt
  <2>2. receipts' \subseteq Receipt
    BY <1>1, <2>1, PublishTyped DEF Refuse, EngineDesk
  <2> QED BY <1>1, <2>2 DEF Refuse, EngineDesk, historyVars
<1>2. CASE Bind(e)
  <2>1. Answer(e, e.owner, "bound") \in Receipt
    BY <1>0, AnswerTyped DEF ReceiptState
  <2>2. receipts' \subseteq Receipt
    BY <1>2, <2>1, PublishTyped DEF Bind, EngineDesk
  <2> QED BY <1>0, <1>2, <2>2 DEF Bind, EngineDesk, historyVars
<1>3. CASE Prepare(e)
  <2>0. e.ticket \in Ticket BY <1>0, <1>3 DEF Prepare
  <2>1. Answer(e, owner, "prepared") \in Receipt
    BY AnswerTyped DEF EngineDesk, ReceiptState
  <2>2. receipts' \subseteq Receipt
    BY <1>3, <2>1, PublishTyped DEF Prepare, EngineDesk
  <2>3. [state |-> "prepared", nonce |-> e.nonce, report |-> None, held |-> FALSE]
           \in Job
    BY <1>0 DEF Job
  <2>4. jobs' \in [Ticket -> Job \cup {None}]
    BY <1>3, <2>0, <2>3 DEF Prepare, EngineDesk
  <2>5. /\ jobs'[e.ticket] # None
        /\ \A t \in Ticket : jobs[t] # None => jobs'[t] # None
    BY <1>3, <2>0, <2>3, NoneIsNoJob DEF Prepare, EngineDesk
  <2>6. count' \in Nat
    <3>1. count + 1 \in Nat BY DEF EngineDesk
    <3>2. count' = count + 1 BY <1>3 DEF Prepare
    <3> QED BY <3>1, <3>2
  <2>7. /\ active' # None => jobs'[active'] # None
        /\ pending' # None => jobs'[pending'] # None
    BY <1>3, <2>5 DEF Prepare, EngineDesk
  <2> QED BY <1>3, <2>0, <2>2, <2>4, <2>6, <2>7 DEF Prepare, EngineDesk, historyVars
<1>4. CASE PrepareUncompilable(e)
  <2>0. e.ticket \in Ticket BY <1>0, <1>4 DEF PrepareUncompilable
  <2>1. [Answer(e, owner, "reported") EXCEPT !.report = "failed"] \in Receipt
    BY AnswerTyped DEF EngineDesk, ReceiptState, Receipt, Report
  <2>2. receipts' \subseteq Receipt
    BY <1>4, <2>1, PublishTyped DEF PrepareUncompilable, EngineDesk
  <2>3. [state |-> "reported", nonce |-> e.nonce, report |-> "failed", held |-> FALSE]
           \in Job
    BY <1>0 DEF Job, Report
  <2>4. jobs' \in [Ticket -> Job \cup {None}]
    BY <1>4, <2>0, <2>3 DEF PrepareUncompilable, EngineDesk
  <2>5. /\ jobs'[e.ticket] # None
        /\ \A t \in Ticket : jobs[t] # None => jobs'[t] # None
    BY <1>4, <2>0, <2>3, NoneIsNoJob DEF PrepareUncompilable, EngineDesk
  <2>6. outcome' \in [Ticket -> Report \cup {None}]
    BY <1>4, <2>0 DEF PrepareUncompilable, EngineDesk, Report
  <2>7. count' \in Nat
    <3>1. count + 1 \in Nat BY DEF EngineDesk
    <3>2. count' = count + 1 BY <1>4 DEF PrepareUncompilable
    <3> QED BY <3>1, <3>2
  <2>8. /\ active' # None => jobs'[active'] # None
        /\ pending' # None => jobs'[pending'] # None
    BY <1>4, <2>5 DEF PrepareUncompilable, EngineDesk
  <2> QED
    BY <1>4, <2>0, <2>2, <2>4, <2>6, <2>7, <2>8 DEF PrepareUncompilable, EngineDesk
<1>5. CASE Commit(e)
  <2>0. e.ticket \in Ticket /\ pending = e.ticket
    BY <1>0, <1>5 DEF Commit, Refusal
  <2>a. e.ticket # None
    BY NoneIsNoValue, <2>0
  <2>1. jobs[e.ticket] \in Job
    BY <2>0, <2>a DEF EngineDesk
  <2>2. receipts' \subseteq Receipt
    <3>1. Answer(e, owner, "accepted") \in Receipt
      BY AnswerTyped DEF EngineDesk, ReceiptState
    <3> QED BY <1>5, <3>1, PublishTyped DEF Commit, EngineDesk
  <2>3. [jobs[e.ticket] EXCEPT !.state = "running"] \in Job
    BY <2>1 DEF Job
  <2>4. /\ jobs' \in [Ticket -> Job \cup {None}]
        /\ jobs'[e.ticket] # None
    BY <1>5, <2>0, <2>3, NoneIsNoJob DEF Commit, EngineDesk
  <2>5. runs' \in [Ticket -> Nat]
    <3>1. runs[e.ticket] + 1 \in Nat BY <2>0 DEF EngineDesk
    <3> QED BY <1>5, <3>1 DEF Commit, EngineDesk
  <2> QED BY <1>5, <2>0, <2>2, <2>4, <2>5 DEF Commit, EngineDesk
<1>6. CASE Confirm(e)
  <2>0. e.ticket \in Ticket BY <1>0, <1>6 DEF Confirm
  <2>1. CASE jobs[e.ticket] = None
    <3>1. Answer(e, owner, "absent") \in Receipt
      BY AnswerTyped DEF EngineDesk, ReceiptState
    <3>2. receipts' \subseteq Receipt
      BY <1>6, <2>1, <3>1, PublishTyped DEF Confirm, EngineDesk
    <3> QED BY <1>6, <3>2 DEF Confirm, EngineDesk, historyVars
  <2>2. CASE jobs[e.ticket] # None
    <3>1. /\ jobs[e.ticket].state \in ReceiptState
          /\ jobs[e.ticket].nonce \in Nat
          /\ jobs[e.ticket].report \in Report \cup {None}
      BY <2>0, <2>2 DEF EngineDesk, Job, ReceiptState
    <3>2. Answer(e, owner, jobs[e.ticket].state) \in Receipt
      BY <3>1, AnswerTyped DEF EngineDesk
    <3>3. [Answer(e, owner, jobs[e.ticket].state) EXCEPT
              !.prep = jobs[e.ticket].nonce, !.report = jobs[e.ticket].report]
            \in Receipt
      BY <3>1, <3>2 DEF Receipt
    <3>4. receipts' \subseteq Receipt
      BY <1>6, <2>2, <3>3, PublishTyped DEF Confirm, EngineDesk
    <3> QED BY <1>6, <3>4 DEF Confirm, EngineDesk, historyVars
  <2> QED BY <2>1, <2>2
<1>7. CASE Release(e)
  <2>0. e.ticket \in Ticket /\ jobs[e.ticket] # None
    BY <1>0, <1>7 DEF Release, Refusal
  <2>1. jobs[e.ticket] \in Job
    BY <2>0 DEF EngineDesk
  <2>2. receipts' \subseteq Receipt
    <3>1. Answer(e, owner, "released") \in Receipt
      BY AnswerTyped DEF EngineDesk, ReceiptState
    <3> QED BY <1>7, <3>1, PublishTyped DEF Release, EngineDesk
  <2>3. [jobs[e.ticket] EXCEPT !.state = "released"] \in Job
    BY <2>1 DEF Job
  <2>4. /\ jobs' \in [Ticket -> Job \cup {None}]
        /\ \A t \in Ticket : jobs[t] # None => jobs'[t] # None
    BY <1>7, <2>0, <2>3, NoneIsNoJob DEF Release, EngineDesk
  <2>5. active' \in {None, active}
    BY <1>7 DEF Release
  <2> QED BY <1>7, <2>2, <2>4, <2>5 DEF Release, EngineDesk, historyVars
<1>8. CASE Unbind(e)
  <2>1. Answer(e, owner, "unbound") \in Receipt
    BY AnswerTyped DEF EngineDesk, ReceiptState
  <2>2. receipts' \subseteq Receipt
    BY <1>8, <2>1, PublishTyped DEF Unbind, EngineDesk
  <2> QED BY <1>8, <2>2 DEF Unbind, EngineDesk, historyVars
<1> QED BY <1>1, <1>2, <1>3, <1>4, <1>5, <1>6, <1>7, <1>8 DEF Receive

(* A wake loads a slot that exists, and leaves the cursor behind it.       *)
LEMMA WakeTyped ==
    ASSUME EngineClock, EngineDesk, payload \in [Index -> Payload], Wake(payload)
    PROVE  EngineClock' /\ EngineDesk'
<1>0. Slots \in Nat BY SlotWireAssumption
<1>1. CASE WakeReceives(payload)
  <2>1. PICK i \in Own(payload) :
          /\ cursor' = i + 1
          /\ IF Repeated(payload[i])
             THEN UNCHANGED <<owner, jobs, count, active, pending, receipts, historyVars>>
             ELSE Receive(payload[i])
    BY <1>1 DEF WakeReceives
  <2>2. i \in Index /\ payload[i] \in Envelope
    BY <1>0, <2>1 DEF Own, EngineClock, NextSlot, Index, Payload
  <2>3. EngineClock'
    BY <1>0, <1>1, <2>1, <2>2 DEF WakeReceives, EngineClock, NextSlot, Index
  <2>4. CASE Repeated(payload[i])
    BY <2>1, <2>3, <2>4 DEF EngineDesk, historyVars
  <2>5. CASE ~Repeated(payload[i])
    BY <2>1, <2>2, <2>3, <2>5, ReceiveTyped
  <2> QED BY <2>3, <2>4, <2>5
<1>2. CASE WakeStops(payload)
  <2>1. EngineClock'
    BY <1>0, <1>2 DEF WakeStops, EngineClock, NextSlot
  <2> QED BY <1>2, <2>1 DEF WakeStops, EngineDesk, historyVars
<1> QED BY <1>1, <1>2 DEF Wake

LEMMA FinishJobTyped ==
    ASSUME EngineClock, EngineDesk, NEW t \in Ticket, jobs[t] # None,
           NEW r \in Report, NEW held \in BOOLEAN, FinishJob(t, r, held),
           active' \in {t, active}, pending' \in {None, pending}
    PROVE  EngineClock' /\ EngineDesk'
<1>1. jobs[t] \in Job BY DEF EngineDesk
<1>2. [jobs[t] EXCEPT !.state = "reported", !.report = r, !.held = held] \in Job
  BY <1>1 DEF Job
<1>3. jobs' = [jobs EXCEPT ![t] = [jobs[t] EXCEPT !.state = "reported",
                                      !.report = r, !.held = held]]
  BY DEF FinishJob, EngineDesk
<1>4. /\ jobs' \in [Ticket -> Job \cup {None}]
      /\ \A u \in Ticket : jobs[u] # None => jobs'[u] # None
  BY <1>2, <1>3, NoneIsNoJob DEF EngineDesk
<1>5. outcome' \in [Ticket -> Report \cup {None}]
  BY DEF FinishJob, EngineDesk
<1>6. [nonce |-> jobs[t].nonce, action |-> "prepare", ticket |-> t,
       runtime |-> live, owner |-> owner, next |-> cursor,
       state |-> "reported", reason |-> "", prep |-> 0, report |-> r] \in Receipt
  BY <1>1 DEF Receipt, Job, Action, ReceiptState, Reason, EngineClock, EngineDesk
<1>7. receipts' \subseteq Receipt
  BY <1>6, PublishTyped DEF FinishJob, EngineDesk
<1>8. EngineClock' BY DEF FinishJob, EngineClock
<1>9. /\ active' # None => jobs'[active'] # None
      /\ pending' # None => jobs'[pending'] # None
  BY <1>4 DEF EngineDesk
<1> QED BY <1>4, <1>5, <1>7, <1>8, <1>9 DEF FinishJob, EngineDesk

(* What the game does by itself keeps the engine typed.                    *)
LEMMA GameTyped ==
    ASSUME EngineClock, EngineDesk,
           JobSettles \/ CloseCancelsPrepared \/ RuntimeStarts \/ ProcessEnds
    PROVE  EngineClock' /\ EngineDesk'
<1>1. CASE JobSettles
  <2>1. active \in Ticket /\ jobs[active] # None
    BY <1>1 DEF JobSettles, EngineDesk
  <2>2. PICK r \in Report, held \in BOOLEAN : FinishJob(active, r, held)
    BY <1>1 DEF JobSettles
  <2>3. active' \in {active} /\ pending' = pending
    BY <1>1 DEF JobSettles
  <2> QED BY <2>1, <2>2, <2>3, FinishJobTyped
<1>2. CASE CloseCancelsPrepared
  <2>1. pending \in Ticket /\ jobs[pending] # None
    BY <1>2 DEF CloseCancelsPrepared, EngineDesk
  <2>2. "failed" \in Report /\ FALSE \in BOOLEAN
    BY DEF Report
  <2>3. FinishJob(pending, "failed", FALSE)
    BY <1>2 DEF CloseCancelsPrepared
  <2>4. active' \in {pending, active} /\ pending' \in {None, pending}
    BY <1>2 DEF CloseCancelsPrepared
  <2> QED BY <2>1, <2>2, <2>3, <2>4, FinishJobTyped
<1>3. CASE RuntimeStarts
  <2>1. live' \in Runtimes /\ cursor' \in NextSlot
    BY <1>3, SlotWireAssumption DEF RuntimeStarts, EngineClock, Runtimes, NextSlot
  <2>2. needSlots' \in BOOLEAN /\ alive' \in BOOLEAN
    BY <1>3, ChannelAssumption DEF RuntimeStarts, EngineClock
  <2> QED BY <1>3, <2>1, <2>2 DEF RuntimeStarts, EngineClock, EngineDesk, historyVars
<1>4. CASE ProcessEnds
  BY <1>4 DEF ProcessEnds, EngineClock, EngineDesk, historyVars
<1> QED BY <1>1, <1>2, <1>3, <1>4

-----------------------------------------------------------------------------
(* The driver.  The volatile part of an input always has an intent in the  *)
(* journal; RecordInputOutcome relies on it.                               *)

JournalTyped ==
    /\ identity \in Identity
    /\ bound \in BOOLEAN /\ closing \in BOOLEAN /\ closed \in BOOLEAN
    /\ runtimeEnd \in Runtimes \cup {None}
    /\ processEnd \in BOOLEAN
    /\ tx \in Transaction \cup {None}
    /\ op \in Operation \cup {None}
    /\ reload \in Reload \cup {None}
    /\ recovery \in Recovery \cup {None}
    /\ input \in Input \cup {None}

BesideTyped ==
    /\ sending \in {"idle", "intent", "sent"}
    /\ results \in [Operations -> Report \cup {None}]
    /\ policy \in [Operations -> {"opaque", "observation"}]
    /\ keys \in 0..MaxKeys
    /\ nonces \in Nat
    /\ sent \subseteq Nat
    /\ sending # "idle" => input \in Input

IInv == PoolTypeOK /\ EngineClock /\ EngineDesk /\ JournalTyped /\ BesideTyped

LEMMA IInvImpliesTypeOK == IInv => TypeOK
BY EngineParts DEF IInv, TypeOK, JournalTyped, BesideTyped

LEMMA InitTyped == Init => IInv
<1> SUFFICES ASSUME Init PROVE IInv OBVIOUS
<1> USE SlotWireAssumption, ChannelAssumption
<1>1. PoolTypeOK
  <2>1. PICK c \in Drivers :
          /\ entry = [i \in Index |-> IF i \in ForeignSlots
                                      THEN ForeignEntry(i, c) ELSE FreshEntry]
          /\ payload = [i \in Index |-> IF i \in ForeignSlots
                                        THEN ForeignEnvelope(i, c) ELSE Inert]
    BY DEF Init
  <2>2. \A i \in Index : ForeignEnvelope(i, c) \in Payload
    BY DEF ForeignEnvelope, Payload, Envelope, Index, Runtimes, Action
  <2>3. FreshEntry \in Entry
    BY DEF FreshEntry, Entry, Payload, Runtimes
  <2>4. \A i \in Index : ForeignEntry(i, c) \in Entry
    <3> SUFFICES ASSUME NEW i \in Index PROVE ForeignEntry(i, c) \in Entry
      OBVIOUS
    <3>1. i \in Nat /\ ForeignEnvelope(i, c) \in Payload
      BY <2>2 DEF Index
    <3> QED BY <2>3, <3>1 DEF ForeignEntry, Entry
  <2> QED BY <2>1, <2>2, <2>3, <2>4 DEF PoolTypeOK, Payload
<1>2. EngineClock
  BY DEF Init, EngineClock, Runtimes
<1>3. EngineDesk
  BY DEF Init, EngineDesk
<1>4. JournalTyped
  BY <1>2 DEF Init, JournalTyped, Identity, EngineClock
<1>5. BesideTyped
  <2>1. policy \in [Operations -> {"opaque", "observation"}]
    BY DEF Init
  <2>2. keys \in 0..MaxKeys /\ nonces \in Nat /\ sent \subseteq Nat
    BY DEF Init
  <2> QED BY <2>1, <2>2 DEF Init, BesideTyped
<1> QED BY <1>1, <1>2, <1>3, <1>4, <1>5 DEF IInv

(* What the schedule says of the journal.                                  *)
LEMMA Scheduling ==
    ASSUME JournalTyped
    PROVE  /\ Running => op \in Operation
           /\ Advancing => tx \in Transaction
           /\ Finishing => tx \in Transaction /\ tx.rcpt \in Receipt
           /\ RecoveryActive => recovery \in Recovery
           /\ ReloadActive => reload \in Reload
           /\ ~OpSettled => op \in Operation
BY DEF JournalTyped, Running, Advancing, Finishing, RecoveryActive, ReloadActive,
       OpSettled, Bound, Prepared, NoCapacity, Accepted, Confirmed, Released,
       StillHeld, Unbound, RefusedFor, Answered, Transaction

(* An action that changes neither the pool nor the game.                   *)
LEMMA ExternalUnchanged ==
    ASSUME IInv, UNCHANGED external
    PROVE  PoolTypeOK' /\ EngineClock' /\ EngineDesk'
BY DEF IInv, external, poolVars, engineVars, historyVars, PoolTypeOK, EngineClock,
       EngineDesk

LEMMA BesideUnchanged ==
    ASSUME IInv, UNCHANGED <<beside, input>>
    PROVE  BesideTyped'
BY DEF IInv, beside, BesideTyped

(* A new exchange.                                                         *)
LEMMA BeginTyped ==
    ASSUME IInv, NEW e, e \in Envelope \/ identity.next > Slots, Begin(e)
    PROVE  IInv' /\ tx' \in Transaction
<1>1. e \in Envelope
  BY SlotWireAssumption DEF Begin, IInv, JournalTyped, Identity, NextSlot
<1>2. [env |-> e, phase |-> "intent", rcpt |-> None] \in Transaction
  BY <1>1 DEF Transaction
<1>3. JournalTyped'
  BY <1>2 DEF Begin, IInv, JournalTyped, control
<1>4. BesideTyped'
  BY DEF Begin, IInv, BesideTyped
<1> QED BY <1>2, <1>3, <1>4, ExternalUnchanged DEF Begin, IInv

LEMMA NewEnvelopeTyped ==
    ASSUME IInv, identity.next <= Slots, NEW a \in Action,
           NEW t \in Ticket \cup {None},
           a \in {"prepare", "commit", "confirm", "release"} => t \in Ticket
    PROVE  NewEnvelope(a, t) \in Envelope
<1>1. identity.next \in Index
  BY SlotWireAssumption DEF IInv, JournalTyped, Identity, NextSlot, Index
<1> QED BY <1>1, ChannelAssumption
        DEF NewEnvelope, Envelope, IInv, JournalTyped, BesideTyped, Identity

LEMMA OpTicketTyped == ASSUME op \in Operation PROVE OpTicket \in Ticket
BY DEF OpTicket, Operation, Ticket, Operations

LEMMA BeginsTyped ==
    ASSUME IInv,
           ConnectBegin \/ RunPrepare \/ RunCommit \/ RunConfirm \/ RunRelease
           \/ DisconnectBegin
    PROVE  IInv' /\ tx' \in Transaction
<1>0. JournalTyped BY DEF IInv
<1>1. \A a \in {"bind", "unbind"} :
        NewEnvelope(a, None) \in Envelope \/ identity.next > Slots
  BY NewEnvelopeTyped, <1>0, SlotWireAssumption
     DEF Action, JournalTyped, Identity, NextSlot
<1>2. CASE ConnectBegin
  BY <1>1, <1>2, BeginTyped DEF ConnectBegin
<1>3. CASE DisconnectBegin
  BY <1>1, <1>3, BeginTyped DEF DisconnectBegin
<1>4. CASE Running
  <2>0. op \in Operation /\ OpTicket \in Ticket
    BY <1>0, <1>4, Scheduling, OpTicketTyped
  <2>1. \A a \in {"prepare", "commit", "confirm", "release"} :
          NewEnvelope(a, OpTicket) \in Envelope \/ identity.next > Slots
    BY <1>0, <2>0, NewEnvelopeTyped, SlotWireAssumption
       DEF Action, JournalTyped, Identity, NextSlot
  <2>2. CASE RunPrepare
    BY <2>1, <2>2, BeginTyped DEF RunPrepare
  <2>3. CASE RunConfirm
    BY <2>1, <2>3, BeginTyped DEF RunConfirm
  <2>4. CASE RunCommit
    <3>1. [NewEnvelope("commit", OpTicket) EXCEPT !.prep = op.prep] \in Envelope
          \/ identity.next > Slots
      BY <2>0, <2>1 DEF Envelope, Operation
    <3> QED BY <2>4, <3>1, BeginTyped DEF RunCommit
  <2>5. CASE RunRelease
    <3>1. [NewEnvelope("release", OpTicket) EXCEPT !.report = op.report] \in Envelope
          \/ identity.next > Slots
      BY <2>0, <2>1 DEF Envelope, Operation
    <3> QED BY <2>5, <3>1, BeginTyped DEF RunRelease
  <2> QED BY <1>2, <1>3, <2>2, <2>3, <2>4, <2>5
<1> QED BY <1>2, <1>3, <1>4 DEF RunPrepare, RunCommit, RunConfirm, RunRelease

(* Steps that change the pool alone, the exchange alone, the operation     *)
(* alone, the reload alone.                                                *)
LEMMA PoolOnly ==
    ASSUME IInv, PoolTypeOK', UNCHANGED <<journal, beside, engineVars, historyVars>>
    PROVE  IInv'
BY DEF IInv, journal, beside, engineVars, historyVars, EngineClock, EngineDesk,
       JournalTyped, BesideTyped

LEMMA TxOnly ==
    ASSUME IInv, tx' \in Transaction,
           UNCHANGED <<identity, bound, control, op, reload, recovery, input,
                       beside, external>>
    PROVE  IInv'
<1>1. JournalTyped' BY DEF IInv, JournalTyped, control
<1> QED BY <1>1, ExternalUnchanged, BesideUnchanged DEF IInv

LEMMA OpOnly ==
    ASSUME IInv, NEW o \in Operation, SaveOp(o)
    PROVE  IInv'
<1>1. JournalTyped' BY DEF SaveOp, IInv, JournalTyped, control
<1> QED BY <1>1, ExternalUnchanged, BesideUnchanged DEF SaveOp, IInv

LEMMA ReloadOnly ==
    ASSUME IInv, NEW r \in Reload, SaveReload(r)
    PROVE  IInv'
<1>1. JournalTyped' BY DEF SaveReload, IInv, JournalTyped, control
<1> QED BY <1>1, ExternalUnchanged, BesideUnchanged DEF SaveReload, IInv

(* Everything the driver does to the pool.                                 *)
LEMMA PoolStepsTyped ==
    ASSUME IInv,
           TxPublishReserve \/ TxPublishWrite \/ TxPublishSeal
           \/ ConfirmConsumed \/ Supersede \/ RetireReplaced \/ RetireEnded
    PROVE  IInv'
<1> USE ChannelAssumption
<1>0. PoolTypeOK /\ JournalTyped BY DEF IInv
<1>1. CASE TxPublishReserve
  <2>1. tx.env \in Envelope
    BY <1>0, <1>1, Scheduling DEF TxPublishReserve, Publishing, Transaction
  <2> QED BY <1>0, <1>1, <2>1, PublishReserveTyped, PoolOnly DEF TxPublishReserve
<1>2. CASE TxPublishWrite
  <2>1. tx.env \in Envelope
    BY <1>0, <1>2, Scheduling DEF TxPublishWrite, Publishing, Transaction
  <2> QED BY <1>0, <1>2, <2>1, PublishWriteTyped, PoolOnly DEF TxPublishWrite
<1>3. CASE TxPublishSeal
  <2>1. tx.env \in Envelope
    BY <1>0, <1>3, Scheduling DEF TxPublishSeal, Publishing, Transaction
  <2> QED BY <1>0, <1>3, <2>1, PublishSealTyped, PoolOnly DEF TxPublishSeal
<1>4. CASE ConfirmConsumed
  <2>1. tx.env \in Envelope
    BY <1>0, <1>4, Scheduling DEF ConfirmConsumed, Transaction
  <2> QED BY <1>0, <1>4, <2>1, ConfirmSlotConsumedTyped, PoolOnly DEF ConfirmConsumed
<1>5. CASE Supersede
  <2>1. recovery.tx.env \in Envelope /\ identity.runtime \in Runtimes
    BY <1>0, <1>5, Scheduling
       DEF Supersede, Recovering, Recovery, Transaction, JournalTyped, Identity
  <2> QED BY <1>0, <1>5, <2>1, RetireSlotRuntimeTyped, PoolOnly DEF Supersede
<1>6. \A t \in OldClaims : t.env \in Envelope
  BY <1>0 DEF OldClaims, JournalTyped, Recovery, Transaction
<1>7. CASE RetireReplaced
  <2>1. PICK t \in OldClaims : RetireSlotRuntime(Self, t.env, runtimeEnd)
    BY <1>7 DEF RetireReplaced
  <2>2. runtimeEnd \in Runtimes
    BY <1>0, <1>7 DEF RetireReplaced, JournalTyped
  <2> QED BY <1>0, <1>6, <1>7, <2>1, <2>2, RetireSlotRuntimeTyped, PoolOnly
          DEF RetireReplaced
<1>8. CASE RetireEnded
  <2>1. PICK t \in OldClaims : RetireSlotProcess(Self, t.env)
    BY <1>8 DEF RetireEnded
  <2> QED BY <1>0, <1>6, <1>8, <2>1, RetireSlotProcessTyped, PoolOnly DEF RetireEnded
<1> QED BY <1>1, <1>2, <1>3, <1>4, <1>5, <1>7, <1>8

(* The exchange under way: moved, published, keyed, answered.              *)
LEMMA ExchangeStepsTyped ==
    ASSUME IInv,
           Reallocate \/ RecordPublished \/ RecordInputAttempted \/ ReceiveReceipt
    PROVE  IInv'
<1>0. JournalTyped /\ receipts \subseteq Receipt BY DEF IInv, EngineDesk
<1>1. CASE Reallocate
  <2>1. tx \in Transaction /\ tx.env \in Envelope
    BY <1>0, <1>1, Scheduling DEF Reallocate, Publishing, Transaction
  <2>2. NextFreeSlot(tx.env.index) \in Index
    BY <1>1, <2>1, NextFreeSlotBehind DEF Reallocate, Envelope
  <2>3. [tx.env EXCEPT !.index = NextFreeSlot(tx.env.index)] \in Envelope
    BY <2>1, <2>2 DEF Envelope
  <2>4. [tx EXCEPT !.env = [tx.env EXCEPT !.index = NextFreeSlot(tx.env.index)]]
          \in Transaction
    BY <2>1, <2>3 DEF Transaction
  <2>5. tx' = [tx EXCEPT !.env = [tx.env EXCEPT !.index = NextFreeSlot(tx.env.index)]]
    BY <1>1, <2>1 DEF Reallocate, Transaction
  <2> QED BY <1>1, <2>4, <2>5, TxOnly DEF Reallocate
<1>2. CASE RecordPublished
  <2>1. tx \in Transaction
    BY <1>0, <1>2, Scheduling DEF RecordPublished, Publishing
  <2>2. tx' \in Transaction
    BY <1>2, <2>1 DEF RecordPublished, Transaction
  <2> QED BY <1>2, <2>2, TxOnly DEF RecordPublished
<1>3. CASE RecordInputAttempted
  <2>1. tx \in Transaction
    BY <1>0, <1>3, Scheduling DEF RecordInputAttempted, Invoking
  <2>2. tx' \in Transaction
    BY <1>3, <2>1 DEF RecordInputAttempted, Transaction
  <2> QED BY <1>3, <2>2, TxOnly DEF RecordInputAttempted
<1>4. CASE ReceiveReceipt
  <2>1. tx \in Transaction
    BY <1>0, <1>4, Scheduling DEF ReceiveReceipt
  <2>2. PICK r \in receipts : tx' = [tx EXCEPT !.phase = "received", !.rcpt = r]
    BY <1>4 DEF ReceiveReceipt
  <2>3. tx' \in Transaction
    BY <1>0, <2>1, <2>2 DEF Transaction
  <2> QED BY <1>4, <2>3, TxOnly DEF ReceiveReceipt
<1> QED BY <1>1, <1>2, <1>3, <1>4

(* The input: intent, effect, outcome.                                     *)
LEMMA RecordInputIntentTyped ==
    ASSUME IInv, NEW k \in {"invoke", "reload"}, NEW n \in Nat, NEW r \in Runtimes,
           RecordInputIntent(k, n, r)
    PROVE  IInv'
<1>1. [kind |-> k, exchange |-> n, runtime |-> r, outcome |-> "missing"] \in Input
  BY DEF Input
<1>2. input' \in Input BY <1>1 DEF RecordInputIntent
<1>4. JournalTyped' BY <1>2 DEF RecordInputIntent, IInv, JournalTyped, control
<1>5. BesideTyped' BY <1>2 DEF RecordInputIntent, IInv, BesideTyped
<1> QED BY <1>4, <1>5, ExternalUnchanged DEF RecordInputIntent, IInv

LEMMA InputStepsTyped ==
    ASSUME IInv,
           InvokeIntent \/ ReloadIntent \/ SendKey \/ SendReloadKey
           \/ RecordInputOutcome \/ Crash
    PROVE  IInv'
<1>0. JournalTyped /\ BesideTyped BY DEF IInv
<1>1. CASE InvokeIntent
  <2>1. tx.env \in Envelope
    BY <1>0, <1>1, Scheduling DEF InvokeIntent, Invoking, Transaction
  <2>2. tx.env.nonce \in Nat /\ tx.env.runtime \in Runtimes
    BY <2>1 DEF Envelope
  <2> QED BY <1>1, <2>2, RecordInputIntentTyped DEF InvokeIntent
<1>2. CASE ReloadIntent
  <2>1. reload.from \in Runtimes
    BY <1>0, <1>2, Scheduling DEF ReloadIntent, Reload
  <2> QED BY <1>2, <2>1, RecordInputIntentTyped DEF ReloadIntent
<1>3. CASE SendKey
  <2>1. tx.env.nonce \in Nat
    BY <1>0, <1>3, Scheduling DEF SendKey, Invoking, Transaction, Envelope
  <2>2. keys' \in 0..MaxKeys
    BY <1>0, <1>3, ChannelAssumption DEF SendKey, BesideTyped
  <2>3. BesideTyped'
    BY <1>0, <1>3, <2>1, <2>2 DEF SendKey, BesideTyped, journal
  <2>4. JournalTyped'
    BY <1>0, <1>3 DEF SendKey, JournalTyped, journal
  <2> QED BY <1>3, <2>3, <2>4, ExternalUnchanged DEF SendKey, IInv
<1>4. CASE SendReloadKey
  <2>1. JournalTyped'
    BY <1>0, <1>4 DEF SendReloadKey, JournalTyped, journal
  <2>2. BesideTyped'
    BY <1>0, <1>4 DEF SendReloadKey, BesideTyped, journal
  <2> QED BY <1>4, <2>1, <2>2, ExternalUnchanged DEF SendReloadKey, IInv
<1>5. CASE RecordInputOutcome
  <2>1. input' \in Input
    BY <1>0, <1>5 DEF RecordInputOutcome, BesideTyped, Input
  <2>2. JournalTyped'
    BY <1>0, <1>5, <2>1 DEF RecordInputOutcome, JournalTyped, control
  <2>3. BesideTyped'
    BY <1>0, <1>5 DEF RecordInputOutcome, BesideTyped
  <2> QED BY <1>5, <2>2, <2>3, ExternalUnchanged DEF RecordInputOutcome, IInv
<1>6. CASE Crash
  <2>1. JournalTyped'
    BY <1>0, <1>6 DEF Crash, JournalTyped, journal
  <2>2. BesideTyped'
    BY <1>0, <1>6 DEF Crash, BesideTyped, journal
  <2> QED BY <1>6, <2>1, <2>2, ExternalUnchanged DEF Crash, IInv
<1> QED BY <1>1, <1>2, <1>3, <1>4, <1>5, <1>6

(* The end of an exchange.                                                 *)
LEMMA FinishTyped ==
    ASSUME IInv, Finishing, FinishTransaction,
           bound' \in BOOLEAN, op' \in Operation \cup {None},
           reload' \in Reload \cup {None}
    PROVE  IInv'
<1>0. JournalTyped BY DEF IInv
<1>1. tx.rcpt.runtime \in Runtimes /\ tx.rcpt.next \in NextSlot
      /\ tx.rcpt.owner \in Drivers \cup {None}
  BY <1>0, Scheduling DEF Receipt
<1>2. identity' \in Identity
  BY <1>1 DEF FinishTransaction, Identity
<1>3. tx' = None BY DEF FinishTransaction
<1>4. JournalTyped'
  BY <1>0, <1>2, <1>3 DEF FinishTransaction, JournalTyped, control
<1> QED BY <1>4, ExternalUnchanged, BesideUnchanged DEF FinishTransaction, IInv

LEMMA NewReloadTyped ==
    ASSUME JournalTyped, NEW a \in BOOLEAN, NEW s \in BOOLEAN, NEW r \in BOOLEAN
    PROVE  NewReload(a, s, r) \in Reload
BY DEF JournalTyped, Identity, NewReload, Reload

LEMMA FinishStepsTyped ==
    ASSUME IInv,
           FinishBind \/ FinishPrepare \/ FinishPrepareCapacity \/ FinishCommit
           \/ FinishConfirm \/ FinishRelease \/ FinishReleaseHeld \/ FinishUnbind
    PROVE  IInv'
<1>0. JournalTyped BY DEF IInv
<1>1. CASE FinishBind
  BY <1>0, <1>1, FinishTyped DEF FinishBind, Finishing, JournalTyped
<1>2. CASE FinishPrepare
  <2>1. op \in Operation BY <1>0, <1>2, Scheduling DEF FinishPrepare, Prepared
  <2>2. tx.env.nonce \in Nat
    BY <1>0, <1>2, Scheduling
       DEF FinishPrepare, Finishing, Transaction, Envelope
  <2>3. op' \in Operation
    BY <1>2, <2>1, <2>2 DEF FinishPrepare, Operation
  <2> QED BY <1>0, <1>2, <2>3, FinishTyped DEF FinishPrepare, Finishing, JournalTyped
<1>3. CASE FinishPrepareCapacity
  <2>1. reload' \in Reload
    BY <1>0, <1>3, NewReloadTyped DEF FinishPrepareCapacity
  <2> QED BY <1>0, <1>3, <2>1, FinishTyped
          DEF FinishPrepareCapacity, Finishing, JournalTyped
<1>4. CASE FinishCommit
  <2>1. op \in Operation BY <1>0, <1>4, Scheduling DEF FinishCommit, Accepted
  <2>2. op' \in Operation BY <1>4, <2>1 DEF FinishCommit, Operation
  <2> QED BY <1>0, <1>4, <2>2, FinishTyped DEF FinishCommit, Finishing, JournalTyped
<1>5. CASE FinishConfirm
  <2>1. op \in Operation BY <1>0, <1>5, Scheduling DEF FinishConfirm, Confirmed
  <2>2. op' \in Operation BY <1>5, <2>1 DEF FinishConfirm, Operation
  <2> QED BY <1>0, <1>5, <2>2, FinishTyped DEF FinishConfirm, Finishing, JournalTyped
<1>6. CASE FinishRelease
  <2>1. op \in Operation BY <1>0, <1>6, Scheduling DEF FinishRelease, Released
  <2>2. op' \in Operation BY <1>6, <2>1 DEF FinishRelease, Operation
  <2> QED BY <1>0, <1>6, <2>2, FinishTyped DEF FinishRelease, Finishing, JournalTyped
<1>7. CASE FinishReleaseHeld
  <2>1. op \in Operation BY <1>0, <1>7, Scheduling DEF FinishReleaseHeld, StillHeld
  <2>2. op' \in Operation BY <1>7, <2>1 DEF FinishReleaseHeld, Operation
  <2> QED BY <1>0, <1>7, <2>2, FinishTyped
          DEF FinishReleaseHeld, Finishing, JournalTyped
<1>8. CASE FinishUnbind
  BY <1>0, <1>8, FinishTyped DEF FinishUnbind, Finishing, JournalTyped
<1> QED BY <1>1, <1>2, <1>3, <1>4, <1>5, <1>6, <1>7, <1>8

(* The operation and the reload, outside of an exchange.                   *)
LEMMA OperationStepsTyped ==
    ASSUME IInv,
           PrepareRequest \/ CancelPrepared \/ ObserveResult \/ WriteResult
           \/ RecordDurable
    PROVE  IInv'
<1>0. JournalTyped /\ BesideTyped /\ receipts \subseteq Receipt
  BY DEF IInv, EngineDesk
<1>1. CASE PrepareRequest
  <2>1. (IF op = None THEN 1 ELSE op.id + 1) \in Operations
    <3>1. CASE op = None
      BY <3>1, SlotWireAssumption DEF Operations
    <3>2. CASE op # None
      <4>1. op.id \in 1..MaxOps /\ op.id < MaxOps
        BY <1>0, <1>1, <3>2 DEF PrepareRequest, JournalTyped, Operation, Operations
      <4>2. op.id + 1 \in Operations
        BY <4>1, SlotWireAssumption DEF Operations
      <4> QED BY <3>2, <4>2
    <3> QED BY <3>1, <3>2
  <2>2. 1 \in 1..MaxAttempts /\ 0 \in Nat
    BY SlotWireAssumption
  <2>3. op' \in Operation
    BY <1>1, <2>1, <2>2 DEF PrepareRequest, Operation
  <2>4. SaveOp(op')
    BY <1>1 DEF PrepareRequest, SaveOp
  <2> QED BY <2>3, <2>4, OpOnly
<1>2. CASE CancelPrepared
  <2>1. op \in Operation BY <1>0, <1>2, Scheduling DEF CancelPrepared
  <2>2. [op EXCEPT !.stage = "cancelled"] \in Operation BY <2>1 DEF Operation
  <2> QED BY <1>2, <2>2, OpOnly DEF CancelPrepared
<1>3. CASE ObserveResult
  <2>1. op \in Operation BY <1>0, <1>3, Scheduling DEF ObserveResult
  <2>2. PICK r \in receipts :
          SaveOp([op EXCEPT !.stage = "confirm_ready", !.report = r.report])
    BY <1>3 DEF ObserveResult
  <2>3. [op EXCEPT !.stage = "confirm_ready", !.report = r.report] \in Operation
    BY <1>0, <2>1 DEF Operation, Receipt
  <2> QED BY <2>2, <2>3, OpOnly
<1>4. CASE WriteResult
  <2>1. op \in Operation
    BY <1>0, <1>4, Scheduling DEF WriteResult, JournalTyped
  <2>2. results' \in [Operations -> Report \cup {None}]
    BY <1>0, <1>4, <2>1 DEF WriteResult, BesideTyped, Operation
  <2>3. JournalTyped'
    BY <1>0, <1>4 DEF WriteResult, JournalTyped, journal
  <2>4. BesideTyped'
    BY <1>0, <1>4, <2>2 DEF WriteResult, BesideTyped, journal
  <2> QED BY <1>4, <2>3, <2>4, ExternalUnchanged DEF WriteResult, IInv
<1>5. CASE RecordDurable
  <2>1. op \in Operation BY <1>0, <1>5, Scheduling DEF RecordDurable
  <2>2. [op EXCEPT !.stage = "release_ready"] \in Operation BY <2>1 DEF Operation
  <2> QED BY <1>5, <2>2, OpOnly DEF RecordDurable
<1> QED BY <1>1, <1>2, <1>3, <1>4, <1>5

LEMMA ReloadStepsTyped ==
    ASSUME IInv,
           SlotReload \/ AutomaticReload \/ MissingRelease \/ RequestReload
           \/ RecordReloadAttempted \/ ReloadComplete
    PROVE  IInv'
<1>0. JournalTyped BY DEF IInv
<1>1. CASE SlotReload
  <2>1. CASE ReloadActive
    <3>1. [reload EXCEPT !.from = identity.runtime, !.phase = "intent", !.slots = TRUE]
            \in Reload
      BY <1>0, <2>1, Scheduling DEF Reload, JournalTyped, Identity
    <3> QED BY <1>1, <2>1, <3>1, ReloadOnly DEF SlotReload
  <2>2. CASE ~ReloadActive
    <3>1. NewReload(TRUE, TRUE, TRUE) \in Reload BY <1>0, NewReloadTyped
    <3> QED BY <1>1, <2>2, <3>1, ReloadOnly DEF SlotReload
  <2> QED BY <2>1, <2>2
<1>2. CASE AutomaticReload
  BY <1>0, <1>2, NewReloadTyped, ReloadOnly DEF AutomaticReload
<1>3. CASE MissingRelease
  BY <1>0, <1>3, NewReloadTyped, ReloadOnly DEF MissingRelease
<1>4. CASE RequestReload
  BY <1>0, <1>4, NewReloadTyped, ReloadOnly DEF RequestReload
<1>5. CASE RecordReloadAttempted
  <2>1. [reload EXCEPT !.phase = "input_attempted"] \in Reload
    BY <1>0, <1>5, Scheduling DEF RecordReloadAttempted, Reload
  <2> QED BY <1>5, <2>1, ReloadOnly DEF RecordReloadAttempted
<1>6. CASE ReloadComplete
  <2>1. [reload EXCEPT !.phase = "complete"] \in Reload
    BY <1>0, <1>6, Scheduling DEF ReloadComplete, Reload
  <2> QED BY <1>6, <2>1, ReloadOnly DEF ReloadComplete
<1> QED BY <1>1, <1>2, <1>3, <1>4, <1>5, <1>6

(* A step of the journal alone.                                            *)
LEMMA JournalOnly ==
    ASSUME IInv, JournalTyped', UNCHANGED <<input, beside, external>>
    PROVE  IInv'
BY ExternalUnchanged, BesideUnchanged DEF IInv

LEMMA RecoveryStepsTyped ==
    ASSUME IInv,
           RecoverRuntime \/ RecoverThirdRuntime \/ RecoveryBound \/ Reconcile
    PROVE  IInv'
<1>0. JournalTyped BY DEF IInv
<1>1. [runtime |-> live, next |-> cursor, owner |-> None] \in Identity
  BY DEF IInv, EngineClock, Identity
<1>2. CASE RecoverRuntime
  <2>1. reload' \in Reload \cup {None}
    <3>1. CASE ReloadActive
      <4>1. reload \in Reload BY <1>0, <3>1, Scheduling
      <4>2. (reload.automatic \/ OldAutomatic) \in BOOLEAN OBVIOUS
      <4>3. [reload EXCEPT !.phase = "binding", !.reconcile = TRUE,
                           !.automatic = @ \/ OldAutomatic] \in Reload
        BY <4>1, <4>2, Zenon DEF Reload
      <4> QED BY <1>2, <3>1, <4>3 DEF RecoverRuntime
    <3>2. CASE ~ReloadActive
      BY <1>0, <1>2, <3>2 DEF RecoverRuntime, JournalTyped
    <3> QED BY <3>1, <3>2
  <2>2. [phase |-> "binding", from |-> identity.runtime, tx |-> tx] \in Recovery
    BY <1>0 DEF JournalTyped, Identity, Recovery
  <2>3. JournalTyped'
    BY <1>0, <1>1, <1>2, <2>1, <2>2 DEF RecoverRuntime, JournalTyped, control
  <2> QED BY <1>2, <2>3, JournalOnly DEF RecoverRuntime
<1>3. CASE RecoverThirdRuntime
  <2>1. reload' \in Reload
    BY <1>0, <1>3, Scheduling DEF RecoverThirdRuntime, Reload
  <2>2. JournalTyped'
    BY <1>0, <1>1, <1>3, <2>1 DEF RecoverThirdRuntime, JournalTyped, control
  <2> QED BY <1>3, <2>2, JournalOnly DEF RecoverThirdRuntime
<1>4. CASE RecoveryBound
  <2>1. recovery' \in Recovery
    BY <1>0, <1>4, Scheduling DEF RecoveryBound, Recovering, Recovery
  <2>2. JournalTyped'
    BY <1>0, <1>4, <2>1 DEF RecoveryBound, JournalTyped, control
  <2> QED BY <1>4, <2>2, JournalOnly DEF RecoveryBound
<1>5. CASE Reconcile
  <2>1. recovery' \in Recovery
    BY <1>0, <1>5, Scheduling DEF Reconcile, Recovering, Recovery
  <2>2. op' \in Operation \cup {None}
    <3>1. CASE OpSettled
      BY <1>0, <1>5, <3>1 DEF Reconcile, Reconciled, JournalTyped
    <3>2. CASE ~OpSettled
      <4>1. op \in Operation /\ Reconciled.attempt <= MaxAttempts
        BY <1>0, <1>5, <3>2, Scheduling DEF Reconcile
      <4>2. /\ [op EXCEPT !.stage = "complete", !.cleanup = "runtime_destroyed"]
                  \in Operation
            /\ [op EXCEPT !.stage = "cancelled"] \in Operation
            /\ [op EXCEPT !.stage = "execution_unknown"] \in Operation
        BY <4>1 DEF Operation
      <4> DEFINE again == [op EXCEPT !.attempt = @ + 1, !.stage = "prepared",
                                     !.prep = 0, !.report = None]
      <4>3. again.attempt <= MaxAttempts => again \in Operation
        <5>0. op.attempt \in 1..MaxAttempts
          BY <4>1 DEF Operation
        <5>1. op.attempt + 1 <= MaxAttempts => op.attempt + 1 \in 1..MaxAttempts
          BY <5>0, SlotWireAssumption
        <5> QED BY <4>1, <5>1 DEF Operation
      <4>4. op' = Reconciled
        BY <1>5 DEF Reconcile
      <4>5. op' \in {again, [op EXCEPT !.stage = "complete", !.cleanup = "runtime_destroyed"],
                     [op EXCEPT !.stage = "cancelled"],
                     [op EXCEPT !.stage = "execution_unknown"]}
        BY <3>2, <4>4 DEF Reconciled
      <4> HIDE DEF again
      <4> QED BY <4>1, <4>2, <4>3, <4>4, <4>5
    <3> QED BY <3>1, <3>2
  <2>3. JournalTyped'
    BY <1>0, <1>5, <2>1, <2>2 DEF Reconcile, JournalTyped, control
  <2> QED BY <1>5, <2>3, JournalOnly DEF Reconcile
<1> QED BY <1>2, <1>3, <1>4, <1>5

(* The end of the connection.                                              *)
LEMMA CloseStepsTyped ==
    ASSUME IInv,
           RequestClose \/ CloseConnection \/ ObserveReplacement \/ CloseReplaced
           \/ ObserveProcessEnd \/ CloseEnded
    PROVE  IInv'
<1>0. JournalTyped /\ live \in Runtimes BY DEF IInv, EngineClock
<1>1. CASE RequestClose
  <2>1. JournalTyped' BY <1>0, <1>1 DEF RequestClose, JournalTyped
  <2> QED BY <1>1, <2>1, JournalOnly DEF RequestClose
<1>2. CASE CloseConnection
  <2>1. JournalTyped' BY <1>0, <1>2 DEF CloseConnection, JournalTyped
  <2> QED BY <1>2, <2>1, JournalOnly DEF CloseConnection
<1>3. CASE ObserveReplacement
  <2>1. JournalTyped' BY <1>0, <1>3 DEF ObserveReplacement, JournalTyped
  <2> QED BY <1>3, <2>1, JournalOnly DEF ObserveReplacement
<1>4. CASE ObserveProcessEnd
  <2>1. JournalTyped' BY <1>0, <1>4 DEF ObserveProcessEnd, JournalTyped
  <2> QED BY <1>4, <2>1, JournalOnly DEF ObserveProcessEnd
<1>5. ASSUME CloseEndedState, reload' \in Reload \cup {None} PROVE IInv'
  <2>1. op' \in Operation \cup {None}
    <3>1. CASE op = None
      BY <1>5, <3>1 DEF CloseEndedState
    <3>2. CASE op \in Operation
      BY <1>5, <3>2 DEF CloseEndedState, Operation
    <3> QED BY <1>0, <3>1, <3>2 DEF JournalTyped
  <2>2. JournalTyped' BY <1>0, <1>5, <2>1 DEF CloseEndedState, JournalTyped
  <2> QED BY <1>5, <2>2, JournalOnly DEF CloseEndedState
<1>6. CASE CloseReplaced
  <2>1. reload' \in Reload \cup {None}
    <3>1. CASE ClosingExplicitReload
      <4>1. [reload EXCEPT !.phase = "complete"] \in Reload
        BY <1>0, <3>1, Scheduling DEF ClosingExplicitReload, Reload
      <4> QED BY <1>6, <3>1, <4>1 DEF CloseReplaced
    <3>2. CASE ~ClosingExplicitReload
      BY <1>6, <3>2 DEF CloseReplaced
    <3> QED BY <3>1, <3>2
  <2> QED BY <1>5, <1>6, <2>1 DEF CloseReplaced
<1>7. CASE CloseEnded
  BY <1>5, <1>7 DEF CloseEnded
<1> QED BY <1>1, <1>2, <1>3, <1>4, <1>6, <1>7

(* The game.                                                               *)
LEMMA GameStepsTyped == ASSUME IInv, Game PROVE IInv'
<1>0. PoolTypeOK /\ EngineClock /\ EngineDesk /\ JournalTyped /\ BesideTyped
  BY DEF IInv
<1>1. ASSUME UNCHANGED Beside PROVE PoolTypeOK' /\ JournalTyped'
  BY <1>0, <1>1 DEF Beside, journal, poolVars, PoolTypeOK, JournalTyped
<1>2. ASSUME UNCHANGED Beside, keys' \in 0..MaxKeys PROVE BesideTyped'
  BY <1>0, <1>2 DEF Beside, journal, BesideTyped
<1>3. keys > 0 => keys - 1 \in 0..MaxKeys
  BY <1>0, ChannelAssumption DEF BesideTyped
<1>4. CASE DeliverKey
  <2>1. EngineClock' /\ EngineDesk'
    BY <1>0, <1>4, WakeTyped DEF DeliverKey, PoolTypeOK
  <2>2. keys' \in 0..MaxKeys BY <1>3, <1>4 DEF DeliverKey
  <2> QED BY <1>1, <1>2, <1>4, <2>1, <2>2 DEF DeliverKey, IInv
<1>5. CASE LoseKey
  <2>1. EngineClock' /\ EngineDesk'
    BY <1>0, <1>5 DEF LoseKey, engineVars, historyVars, EngineClock, EngineDesk
  <2>2. keys' \in 0..MaxKeys BY <1>3, <1>5 DEF LoseKey
  <2>3. UNCHANGED Beside BY <1>5 DEF LoseKey
  <2> QED BY <1>1, <1>2, <2>1, <2>2, <2>3 DEF IInv
<1>6. CASE /\ JobSettles \/ CloseCancelsPrepared \/ RuntimeStarts \/ ProcessEnds
           /\ UNCHANGED <<Beside, keys>>
  <2>1. EngineClock' /\ EngineDesk' BY <1>0, <1>6, GameTyped
  <2>2. keys' \in 0..MaxKeys BY <1>0, <1>6 DEF BesideTyped
  <2> QED BY <1>1, <1>2, <1>6, <2>1, <2>2 DEF IInv
<1> QED BY <1>4, <1>5, <1>6 DEF Game

LEMMA StepTyped == IInv /\ [Next]_vars => IInv'
<1> SUFFICES ASSUME IInv, [Next]_vars PROVE IInv' OBVIOUS
<1>1. CASE Driver
  BY <1>1, BeginsTyped, PoolStepsTyped, ExchangeStepsTyped, InputStepsTyped,
     FinishStepsTyped, OperationStepsTyped, ReloadStepsTyped, RecoveryStepsTyped,
     CloseStepsTyped
  DEF Driver, DisconnectEnded
<1>2. CASE User
  BY <1>2, OperationStepsTyped, ReloadStepsTyped, CloseStepsTyped DEF User
<1>3. CASE Perform
  BY <1>3, InputStepsTyped DEF Perform
<1>4. CASE Game
  BY <1>4, GameStepsTyped
<1>5. CASE UNCHANGED vars
  <2>1. UNCHANGED <<input, beside, external>>
    BY <1>5 DEF vars, journal, beside, external
  <2>2. JournalTyped'
    BY <1>5 DEF vars, journal, IInv, JournalTyped
  <2> QED BY <2>1, <2>2, JournalOnly
<1> QED BY <1>1, <1>2, <1>3, <1>4, <1>5 DEF Next

-----------------------------------------------------------------------------
(* Every variable keeps its type, whatever is lost, delayed or reloaded:   *)
(* no step of the driver, the engine or the pool ever leaves a record half *)
(* built, an exchange without an envelope of its shape, an index outside   *)
(* of the pool or an active ticket without its job.                        *)
THEOREM Typing == Spec => []TypeOK
<1>1. Init => IInv BY InitTyped
<1>2. IInv /\ [Next]_vars => IInv' BY StepTyped
<1>3. IInv => TypeOK BY IInvImpliesTypeOK
<1> QED BY <1>1, <1>2, <1>3, PTL DEF Spec

-----------------------------------------------------------------------------
(* The pool never drifts.  The only steps that touch it are the seven of   *)
(* PoolStepsTyped; all others leave poolVars alone.                        *)
LEMMA PoolUntouched ==
    ASSUME PoolSettled, UNCHANGED poolVars
    PROVE  PoolSettled'
BY DEF poolVars, PoolSettled, NoDrift, FreeIsSettled, Reserved

LEMMA PoolStepsSettled ==
    ASSUME IInv, PoolSettled,
           TxPublishReserve \/ TxPublishWrite \/ TxPublishSeal
           \/ ConfirmConsumed \/ Supersede \/ RetireReplaced \/ RetireEnded
    PROVE  PoolSettled'
<1> USE ChannelAssumption
<1>0. PoolTypeOK /\ JournalTyped BY DEF IInv
<1>1. CASE TxPublishReserve
  <2>1. tx.env \in Envelope
    BY <1>0, <1>1, Scheduling DEF TxPublishReserve, Publishing, Transaction
  <2> QED BY <1>0, <1>1, <2>1, PublishReserveSettled DEF TxPublishReserve
<1>2. CASE TxPublishWrite
  <2>1. tx.env \in Envelope
    BY <1>0, <1>2, Scheduling DEF TxPublishWrite, Publishing, Transaction
  <2> QED BY <1>0, <1>2, <2>1, PublishWriteSettled DEF TxPublishWrite
<1>3. CASE TxPublishSeal
  <2>1. tx.env \in Envelope
    BY <1>0, <1>3, Scheduling DEF TxPublishSeal, Publishing, Transaction
  <2> QED BY <1>0, <1>3, <2>1, PublishSealSettled DEF TxPublishSeal
<1>4. CASE ConfirmConsumed
  <2>1. tx.env \in Envelope
    BY <1>0, <1>4, Scheduling DEF ConfirmConsumed, Transaction
  <2> QED BY <1>0, <1>4, <2>1, ConfirmSlotConsumedSettled DEF ConfirmConsumed
<1>5. CASE Supersede
  <2>1. recovery.tx.env \in Envelope /\ identity.runtime \in Runtimes
    BY <1>0, <1>5, Scheduling
       DEF Supersede, Recovering, Recovery, Transaction, JournalTyped, Identity
  <2> QED BY <1>0, <1>5, <2>1, RetireSlotRuntimeSettled DEF Supersede
<1>6. \A t \in OldClaims : t.env \in Envelope
  BY <1>0 DEF OldClaims, JournalTyped, Recovery, Transaction
<1>7. CASE RetireReplaced
  <2>1. PICK t \in OldClaims : RetireSlotRuntime(Self, t.env, runtimeEnd)
    BY <1>7 DEF RetireReplaced
  <2>2. runtimeEnd \in Runtimes
    BY <1>0, <1>7 DEF RetireReplaced, JournalTyped
  <2> QED BY <1>0, <1>6, <2>1, <2>2, RetireSlotRuntimeSettled
<1>8. CASE RetireEnded
  <2>1. PICK t \in OldClaims : RetireSlotProcess(Self, t.env)
    BY <1>8 DEF RetireEnded
  <2> QED BY <1>0, <1>6, <2>1, RetireSlotProcessSettled
<1> QED BY <1>1, <1>2, <1>3, <1>4, <1>5, <1>7, <1>8

LEMMA StepSettled == IInv /\ PoolSettled /\ [Next]_vars => PoolSettled'
<1> SUFFICES ASSUME IInv, PoolSettled, [Next]_vars PROVE PoolSettled' OBVIOUS
<1>1. CASE TxPublishReserve \/ TxPublishWrite \/ TxPublishSeal
           \/ ConfirmConsumed \/ Supersede \/ RetireReplaced \/ RetireEnded
  BY <1>1, PoolStepsSettled
<1>2. CASE ConnectBegin \/ RunPrepare \/ RunCommit \/ RunConfirm \/ RunRelease
           \/ DisconnectBegin
  BY <1>2, PoolUntouched
  DEF ConnectBegin, RunPrepare, RunCommit, RunConfirm, RunRelease, DisconnectBegin,
      Begin, external
<1>3. CASE Reallocate \/ RecordPublished \/ RecordInputAttempted \/ ReceiveReceipt
  BY <1>3, PoolUntouched
  DEF Reallocate, RecordPublished, RecordInputAttempted, ReceiveReceipt, external
<1>4. CASE InvokeIntent \/ ReloadIntent \/ Perform
  BY <1>4, PoolUntouched
  DEF InvokeIntent, ReloadIntent, RecordInputIntent, Perform, SendKey,
      SendReloadKey, RecordInputOutcome, Crash, external
<1>5. CASE FinishBind \/ FinishPrepare \/ FinishPrepareCapacity \/ FinishCommit
           \/ FinishConfirm \/ FinishRelease \/ FinishReleaseHeld \/ FinishUnbind
  <2>1. FinishTransaction
    BY <1>5 DEF FinishBind, FinishPrepare, FinishPrepareCapacity, FinishCommit,
                FinishConfirm, FinishRelease, FinishReleaseHeld, FinishUnbind
  <2> QED BY <2>1, PoolUntouched DEF FinishTransaction, external
<1>6. CASE PrepareRequest \/ CancelPrepared \/ ObserveResult \/ WriteResult
           \/ RecordDurable
  BY <1>6, PoolUntouched
  DEF PrepareRequest, CancelPrepared, ObserveResult, WriteResult, RecordDurable,
      SaveOp, external
<1>7. CASE SlotReload \/ AutomaticReload \/ MissingRelease \/ RequestReload
           \/ RecordReloadAttempted \/ ReloadComplete
  <2>1. \E r : SaveReload(r)
    BY <1>7 DEF SlotReload, AutomaticReload, MissingRelease, RequestReload,
                RecordReloadAttempted, ReloadComplete
  <2> QED BY <2>1, PoolUntouched DEF SaveReload, external
<1>8. CASE RecoverRuntime \/ RecoverThirdRuntime \/ RecoveryBound \/ Reconcile
  BY <1>8, PoolUntouched
  DEF RecoverRuntime, RecoverThirdRuntime, RecoveryBound, Reconcile, external
<1>9. CASE RequestClose \/ CloseConnection \/ ObserveReplacement \/ CloseReplaced
           \/ ObserveProcessEnd \/ CloseEnded
  BY <1>9, PoolUntouched
  DEF RequestClose, CloseConnection, ObserveReplacement, CloseReplaced,
      ObserveProcessEnd, CloseEnded, CloseEndedState, external
<1>10. CASE Game
  BY <1>10, PoolUntouched DEF Game, DeliverKey, LoseKey, Beside
<1>11. CASE UNCHANGED vars
  BY <1>11, PoolUntouched DEF vars, poolVars
<1> QED
  BY <1>1, <1>2, <1>3, <1>4, <1>5, <1>6, <1>7, <1>8, <1>9, <1>10, <1>11
  DEF Next, Driver, DisconnectEnded, User

LEMMA InitSettled == Init => PoolSettled
<1> SUFFICES ASSUME Init PROVE PoolSettled OBVIOUS
<1>0. PICK c \in Drivers :
        /\ entry = [i \in Index |-> IF i \in ForeignSlots
                                    THEN ForeignEntry(i, c) ELSE FreshEntry]
        /\ payload = [i \in Index |-> IF i \in ForeignSlots
                                      THEN ForeignEnvelope(i, c) ELSE Inert]
  BY DEF Init
<1>a. FreshEntry.pend = None /\ FreshEntry.hash = Inert
  BY DEF FreshEntry
<1>b. \A i \in Index : /\ ForeignEntry(i, c).pend = None
                       /\ ForeignEntry(i, c).hash = ForeignEnvelope(i, c)
  BY DEF ForeignEntry, FreshEntry
<1>1. \A i \in Index : entry[i].pend = None /\ payload[i] = entry[i].hash
  BY <1>0, <1>a, <1>b
<1> QED BY <1>1 DEF PoolSettled, NoDrift, FreeIsSettled

(* No interleaving of publications, crashes, receipts, recoveries and      *)
(* retirements ever leaves a payload on disk that pool.json does not       *)
(* account for: InspectSlots, with which every entry point of slots.go     *)
(* starts, never refuses the pool because of what this connection did.     *)
THEOREM PoolNeverDrifts == Spec => []NoDrift
<1>1. Init => IInv /\ PoolSettled
  BY InitTyped, InitSettled
<1>2. IInv /\ PoolSettled /\ [Next]_vars => (IInv /\ PoolSettled)'
  BY StepTyped, StepSettled
<1>3. IInv /\ PoolSettled => NoDrift
  BY DEF PoolSettled
<1> QED BY <1>1, <1>2, <1>3, PTL DEF Spec

-----------------------------------------------------------------------------
(* The protocol.  None of the safety properties of Channel is inductive    *)
(* as it stands.  The invariant that carries them relates four parties:    *)
(* the journal, what the pool and the disk hold for this connection, the   *)
(* keys, and the desk of the engine (its owner, jobs and receipts), which  *)
(* the driver sees only through receipts.                                  *)

\* The journal names the runtime that is running.
Here == alive /\ live = identity.runtime

\* The exchange under way is this action.
Under(action) == tx # None /\ tx.env.action = action

\* An exchange under way is the one that the stage of the operation calls for:
\* this is what finishTransaction, which looks at the action alone, relies on.
Fits(t) ==
    /\ t.env.owner = Self
    /\ t.env.action \in {"prepare", "commit", "confirm", "release"} =>
         op # None /\ t.env.ticket = OpTicket
    /\ t.env.action = "prepare" => op.stage = "prepared"
    /\ t.env.action = "commit" => op.stage = "commit_ready" /\ t.env.prep = op.prep
    /\ t.env.action = "confirm" => op.stage = "confirm_ready"
    /\ t.env.action = "release" =>
         op.stage = "release_ready" /\ op.cleanup # "reload_required"
         /\ t.env.report = op.report
    /\ t.env.action = "unbind" => OpSettled

\* An exchange under way is of this runtime and this stage.
Exchanging ==
    tx # None =>
      /\ Fits(tx)
      /\ tx.env.runtime = identity.runtime
      /\ tx.env.action = "bind" <=> ~bound
      /\ tx.env.action = "unbind" => closing
      /\ RecoveryActive => tx.env.action = "bind"
      /\ tx.rcpt # None <=> tx.phase = "received"
      /\ tx.rcpt # None => /\ tx.rcpt.runtime = tx.env.runtime
                           /\ tx.rcpt.owner = Self
                           /\ tx.rcpt.next > tx.env.index

\* A recovery leaves a dead runtime for a live one, and what it keeps of the
\* exchange it interrupted still fits the operation.
RecoveryFits ==
    recovery # None =>
      /\ recovery.from < identity.runtime
      /\ recovery.tx # None => recovery.tx.env.runtime = recovery.from
                               /\ recovery.tx.env.owner = Self
      /\ RecoveryActive /\ recovery.tx # None => Fits(recovery.tx)
      /\ recovery.phase = "bound" => bound

\* A reload under way that does not reconcile finds nothing running.
ReloadFits ==
    ReloadActive =>
      /\ reload.from <= identity.runtime
      /\ RecoveryActive => reload.reconcile
      /\ reload.phase = "binding" => reload.reconcile /\ reload.from < identity.runtime
      /\ \/ reload.reconcile \/ op = None \/ op.stage = "complete"
         \/ op.stage = "prepared" /\ op.prep = 0
         \/ op.stage = "release_ready" /\ op.cleanup = "reload_required"

\* Between operations and connections: a stage has the prepare nonce, the
\* cleanup and the binding it needs.
OpFits ==
    op # None =>
      /\ op.cleanup \in {"released", "runtime_destroyed"} => op.stage = "complete"
      /\ op.cleanup = "reload_required" => op.stage = "release_ready"
      /\ op.stage = "prepared" => op.prep = 0
      /\ op.stage \notin {"prepared", "cancelled", "execution_unknown"} => op.prep # 0
      /\ ~bound => RecoveryActive \/ closed \/ (closing /\ OpSettled)

ClosedFits ==
    closed => ~bound /\ tx = None /\ OpSettled /\ ~ReloadActive /\ ~RecoveryActive

\* The journal is never ahead of the game, and what it records as ended has
\* ended.  The receipts that can be read are of the runtime that is running.
EndFits ==
    /\ identity.runtime <= live /\ live >= 1
    /\ runtimeEnd # None => live > identity.runtime
    /\ processEnd => ~alive
    /\ \A r \in receipts : r.runtime = live /\ r.next <= cursor

\* What the journal says is consistent in itself.
JournalFits == Exchanging /\ RecoveryFits /\ ReloadFits /\ OpFits /\ ClosedFits

\* Nothing carries a token that was not handed out, and the exchange under
\* way carries the latest of those the journal holds.
TokensGrow ==
    /\ tx # None => tx.env.nonce <= nonces
    /\ op # None => op.prep <= nonces
    /\ tx # None /\ op # None => op.prep < tx.env.nonce
    /\ recovery # None /\ recovery.tx # None =>
         /\ recovery.tx.env.nonce <= nonces
         /\ tx # None => recovery.tx.env.nonce < tx.env.nonce
    /\ \A i \in Index : entry[i].nonce <= nonces
    /\ \A r \in receipts : r.nonce <= nonces
    /\ \A t \in Ticket : jobs[t] # None => jobs[t].nonce <= nonces
    /\ \A n \in sent : n <= nonces

\* A reload of the runtime running now would load the envelope of this slot.
Loadable(i) ==
    alive /\ cursor <= i /\ payload[i] # Inert /\ payload[i].runtime = live

\* The one envelope a wake can still load is that of the exchange under way.
OnlyCurrent ==
    /\ \A i \in Index : payload[i] # Inert => payload[i].runtime <= live
    /\ \A i \in Index : Loadable(i) =>
         /\ tx # None /\ payload[i] = tx.env /\ tx.env.index = i
         /\ Claims(Self, tx.env) /\ Reserved(i)
    /\ Here /\ tx # None /\ tx.rcpt # None => cursor > tx.env.index

\* A reservation of this connection is one that the journal answers for.
Owned ==
    \A i \in Index : entry[i].consumer = Self /\ Reserved(i) =>
        \/ tx # None /\ tx.env.index = i /\ Claims(Self, tx.env)
        \/ /\ RecoveryActive /\ recovery.tx # None
           /\ recovery.tx.env.index = i /\ Claims(Self, recovery.tx.env)

\* A chord is in hand only for a durable intent whose outcome is not known,
\* and an exchange that was sent one has it in its journal, or lost its
\* runtime to a reload.
Keyed ==
    /\ sending # "idle" => input # None /\ input.outcome = "missing"
    /\ sending # "idle" /\ input.kind = "invoke" =>
         /\ tx # None /\ tx.phase = "published"
         /\ input.exchange = tx.env.nonce /\ input.runtime = tx.env.runtime
         /\ sending = "intent" => tx.env.nonce \notin sent
    /\ tx # None /\ tx.phase = "intent" => tx.env.nonce \notin sent
    /\ tx # None /\ tx.phase = "published" /\ tx.env.nonce \in sent =>
         \/ Attempted("invoke", tx.env.nonce, tx.env.runtime)
         \/ ReloadActive /\ reload.phase # "binding"

\* A receipt for the exchange under way can be read.
Seen == \E r \in receipts : r.nonce = tx.env.nonce
Idle == active = None /\ pending = None
NoJobs == Idle /\ \A t \in Ticket : jobs[t] = None

\* The job of the present ticket, as the desk of the engine has it.
JobIs(n, states) ==
    /\ jobs[OpTicket] # None
    /\ jobs[OpTicket].nonce = n /\ jobs[OpTicket].state \in states
Waiting(n) ==
    JobIs(n, {"prepared"}) /\ pending = OpTicket /\ active = None /\ runs[OpTicket] = 0
InHand(n, states) ==
    JobIs(n, states) /\ active = OpTicket /\ pending = None
Unrun(n) == InHand(n, {"reported"}) /\ runs[OpTicket] = 0
Held == InHand(op.prep, {"reported"}) /\ jobs[OpTicket].report = op.report

\* While no exchange that changes it has been answered, the desk of the engine
\* holds for every stage of the operation what the driver believes it holds.
StageDesk ==
    /\ OpSettled => Idle
    /\ op # None =>
         /\ op.stage = "prepared" => Idle /\ jobs[OpTicket] = None
         /\ op.stage = "commit_ready" => Waiting(op.prep) \/ Unrun(op.prep)
         /\ op.stage = "running" => InHand(op.prep, {"running", "reported"})
         /\ op.stage \in {"confirm_ready", "result_verified", "release_ready"} => Held

\* Once answered, it holds what the receipt says.
AnswerDesk(r) ==
    /\ Under("bind") => r.state = "bound" /\ owner = Self
    /\ Under("unbind") => r.state = "unbound" /\ owner = None
    /\ Under("prepare") =>
         \/ r.state = "rejected" /\ r.reason = "slot_capacity" /\ Idle /\ jobs[OpTicket] = None
         \/ r.state = "prepared" /\ (Waiting(tx.env.nonce) \/ Unrun(tx.env.nonce))
         \/ r.state = "reported" /\ Unrun(tx.env.nonce)
    /\ Under("commit") =>
         \/ r.state = "rejected" /\ r.reason = "slot_commit_mismatch" /\ Unrun(op.prep)
         \/ r.state = "accepted" /\ InHand(op.prep, {"running", "reported"})
    /\ Under("confirm") => r.state = "reported"
    /\ Under("release") =>
         \/ r.state = "rejected" /\ r.reason = "slot_resources_pending" /\ Held
         \/ r.state = "released" /\ Idle

Binding == Under("bind") \/ Under("unbind")
Working == Under("prepare") \/ Under("commit") \/ Under("release")

\* A runtime that the journal does not know has done nothing for anyone, one
\* in recovery has no jobs, and none is bound to another connection.
Desk ==
    /\ live > identity.runtime => NoJobs /\ owner = None /\ receipts = {}
    /\ RecoveryActive => NoJobs
    /\ owner \in {None, Self}

\* The desk of the runtime that the journal names.
Bench ==
    /\ ~(Binding /\ Seen) => owner = IF bound THEN Self ELSE None
    /\ ~RecoveryActive /\ ~(Working /\ Seen) => StageDesk
    /\ tx # None =>
         /\ \A r \in receipts : r.nonce = tx.env.nonce => AnswerDesk(r)
         /\ tx.rcpt # None => Seen /\ AnswerDesk(tx.rcpt)

DeskAgrees == Desk /\ (Here => Bench) /\ NoStrayRefusal

\* Tickets whose attempt the journal has begun.
Past(t) == op # None /\ (t[1] < op.id \/ t = OpTicket)
Begun(t) == op # None /\ (t[1] < op.id \/ (t[1] = op.id /\ t[2] <= op.attempt))

\* Jobs belong to tickets that were begun, stand where the two desks have
\* them, and carry the report that the business code ended with.
JobsFit ==
    /\ \A t \in Ticket : jobs[t] # None => Past(t)
    /\ pending # None => jobs[pending].state = "prepared"
    /\ active # None => jobs[active].state \in {"running", "reported"}
    /\ \A t \in Ticket : jobs[t] # None /\ jobs[t].state \in {"reported", "released"} =>
         (jobs[t].report = outcome[t] /\ outcome[t] # None)
    /\ \A r \in receipts : (r.action = "prepare" /\ r.state = "reported") =>
         /\ r.ticket \in Ticket /\ jobs[r.ticket] # None
         /\ jobs[r.ticket].state \in {"reported", "released"}
         /\ r.report = jobs[r.ticket].report

\* A commit was published and its receipt is not in the journal.
CommitUnderWay ==
    \/ Under("commit")
    \/ RecoveryActive /\ recovery.tx # None /\ recovery.tx.env.action = "commit"

\* Business code ran only under tickets that were begun; not before a commit,
\* and for an opaque operation under one ticket alone.
RunsFit ==
    /\ \A t \in Ticket : runs[t] <= 1
    /\ \A t \in Ticket : runs[t] # 0 => Begun(t)
    /\ op # None =>
         /\ op.stage \in {"prepared", "cancelled"} => runs[OpTicket] = 0
         /\ op.stage = "commit_ready" /\ runs[OpTicket] # 0 => CommitUnderWay
         /\ policy[op.id] = "opaque" =>
              \A t \in Ticket : t[1] = op.id /\ t[2] < op.attempt => runs[t] = 0
    /\ \A t, u \in Ticket :
         t[1] = u[1] /\ policy[t[1]] = "opaque" /\ runs[t] # 0 /\ runs[u] # 0 => t = u

\* A result file is there from the stage on that claims it, and it is the
\* report of the present ticket.
ResultsFit ==
    /\ \A o \in Operations : results[o] # None => op # None /\ o <= op.id
    /\ op # None =>
         /\ results[op.id] # None =>
              /\ op.stage \in {"result_verified", "release_ready", "complete"}
              /\ results[op.id] = op.report
         /\ op.stage = "release_ready" => results[op.id] = op.report
         /\ op.stage = "complete" /\ ~closed => results[op.id] = op.report
         /\ \A o \in Operations : o < op.id => results[o] # None
         /\ op.stage \in {"confirm_ready", "result_verified", "release_ready", "complete"} =>
              op.report # None /\ op.report = outcome[OpTicket]

\* A reload the driver starts by itself interrupts no exchange but a release.
AutomaticFits ==
    ReloadActive /\ reload.automatic /\ reload.phase # "binding" =>
        (tx # None => tx.env.action = "release")

-----------------------------------------------------------------------------
(* What the types say of a record, field by field.                         *)
LEMMA OperationRecord ==
    ASSUME NEW o \in Operation
    PROVE  /\ o # None /\ o.id \in Operations /\ o.attempt \in 1..MaxAttempts
           /\ o.prep \in Nat /\ o.report \in Report \cup {None}
           /\ <<o.id, o.attempt>> \in Ticket
           /\ o.id \in Nat /\ o.attempt \in Nat
<1>1. o # None BY NoneIsNoRecord
<1>2. o.id \in Operations /\ o.attempt \in 1..MaxAttempts /\ o.prep \in Nat
      /\ o.report \in Report \cup {None}
  BY DEF Operation
<1> QED BY <1>1, <1>2 DEF Ticket, Operations

LEMMA EnvelopeRecord ==
    ASSUME NEW e \in Envelope
    PROVE  /\ e # None /\ e # Inert
           /\ e.nonce \in Nat /\ e.nonce # 0 /\ e.action \in Action
           /\ e.runtime \in Runtimes /\ e.owner \in Drivers
           /\ e.ticket \in Ticket \cup {None} /\ e.index \in Index
           /\ e.start \in Index /\ e.prep \in Nat
           /\ e.index \in Nat /\ e.runtime \in Nat
           /\ e.action \in {"prepare", "commit", "confirm", "release"} =>
                e.ticket \in Ticket
BY NoneIsNoPayload DEF Envelope, Payload, Index, Runtimes

LEMMA TransactionRecord ==
    ASSUME NEW t \in Transaction
    PROVE  /\ t # None /\ t.env \in Envelope
           /\ t.phase \in {"intent", "published", "input_attempted", "received"}
           /\ t.rcpt \in Receipt \cup {None}
BY NoneIsNoRecord DEF Transaction

LEMMA ReceiptRecord ==
    ASSUME NEW r \in Receipt
    PROVE  /\ r # None /\ r.nonce \in Nat /\ r.action \in Action
           /\ r.ticket \in Ticket \cup {None} /\ r.runtime \in Runtimes
           /\ r.runtime \in Nat /\ r.owner \in Drivers \cup {None}
           /\ r.next \in NextSlot /\ r.next \in Nat /\ r.prep \in Nat
           /\ r.report \in Report \cup {None}
BY NoneIsNoRecord DEF Receipt, Runtimes, NextSlot

JournalFacts ==
    /\ bound \in BOOLEAN /\ closing \in BOOLEAN /\ closed \in BOOLEAN
    /\ processEnd \in BOOLEAN /\ alive \in BOOLEAN
    /\ identity.runtime \in Nat /\ identity.runtime \in Runtimes
    /\ identity.next \in NextSlot /\ identity.next \in Nat
    /\ live \in Nat /\ live \in Runtimes /\ cursor \in Nat /\ nonces \in Nat
    /\ tx # None => tx \in Transaction /\ tx.env \in Envelope
    /\ op # None => op \in Operation
    /\ reload # None => reload \in Reload /\ reload.from \in Nat
    /\ recovery # None =>
         /\ recovery \in Recovery /\ recovery.from \in Nat
         /\ recovery.tx # None => recovery.tx \in Transaction /\ recovery.tx.env \in Envelope

LEMMA JournalRead == ASSUME IInv PROVE JournalFacts
<1>1. JournalTyped /\ EngineClock /\ nonces \in Nat BY DEF IInv, BesideTyped
<1>2. Runtimes \subseteq Nat /\ NextSlot \subseteq Nat
  BY SlotWireAssumption DEF Runtimes, NextSlot
<1>3. tx # None => tx \in Transaction /\ tx.env \in Envelope
  BY <1>1, TransactionRecord DEF JournalTyped
<1>4. reload # None => reload \in Reload /\ reload.from \in Nat
  BY <1>1, <1>2 DEF JournalTyped, Reload
<1>5. recovery # None =>
         /\ recovery \in Recovery /\ recovery.from \in Nat
         /\ recovery.tx # None => recovery.tx \in Transaction /\ recovery.tx.env \in Envelope
  <2> SUFFICES ASSUME recovery # None
               PROVE  /\ recovery \in Recovery /\ recovery.from \in Nat
                      /\ recovery.tx # None =>
                           recovery.tx \in Transaction /\ recovery.tx.env \in Envelope
    OBVIOUS
  <2>1. recovery \in Recovery BY <1>1 DEF JournalTyped
  <2>2. recovery.from \in Runtimes /\ recovery.tx \in Transaction \cup {None}
    BY <2>1 DEF Recovery
  <2> QED BY <1>2, <2>1, <2>2, TransactionRecord
<1>6. identity.runtime \in Runtimes /\ identity.next \in NextSlot
  BY <1>1 DEF JournalTyped, Identity
<1>7. op # None => op \in Operation BY <1>1 DEF JournalTyped
<1> QED BY <1>1, <1>2, <1>3, <1>4, <1>5, <1>6, <1>7
        DEF JournalFacts, JournalTyped, EngineClock

-----------------------------------------------------------------------------
(* What the steps that change several fields of a record make of it.       *)
LEMMA ReallocateStep ==
    ASSUME IInv, Reallocate
    PROVE  /\ tx \in Transaction /\ tx' \in Transaction /\ tx'.env \in Envelope
           /\ tx'.phase = tx.phase /\ tx'.rcpt = tx.rcpt
           /\ tx'.env.nonce = tx.env.nonce /\ tx'.env.action = tx.env.action
           /\ tx'.env.runtime = tx.env.runtime /\ tx'.env.owner = tx.env.owner
           /\ tx'.env.ticket = tx.env.ticket /\ tx'.env.prep = tx.env.prep
           /\ tx'.env.report = tx.env.report
           /\ tx'.env.index = NextFreeSlot(tx.env.index)
           /\ tx'.env.index \in FreeAfter(tx.env.index)
<1>1. tx \in Transaction /\ tx.env \in Envelope /\ tx.env.index \in Index
  <2>1. JournalTyped /\ tx # None BY DEF IInv, Reallocate, Publishing
  <2> QED BY <2>1, TransactionRecord, EnvelopeRecord DEF JournalTyped
<1>2. NextFreeSlot(tx.env.index) \in FreeAfter(tx.env.index)
      /\ NextFreeSlot(tx.env.index) \in Index
  BY <1>1, NextFreeSlotBehind DEF Reallocate
<1> DEFINE moved == [tx.env EXCEPT !.index = NextFreeSlot(tx.env.index)]
<1>3. /\ moved \in Envelope /\ moved.index = NextFreeSlot(tx.env.index)
      /\ moved.nonce = tx.env.nonce /\ moved.action = tx.env.action
      /\ moved.runtime = tx.env.runtime /\ moved.owner = tx.env.owner
      /\ moved.ticket = tx.env.ticket /\ moved.prep = tx.env.prep
      /\ moved.report = tx.env.report
  BY <1>1, <1>2 DEF Envelope
<1>4. tx' = [tx EXCEPT !.env = moved]
  BY <1>1 DEF Reallocate, Transaction
<1> HIDE DEF moved
<1>5. tx' \in Transaction /\ tx'.env = moved /\ tx'.phase = tx.phase /\ tx'.rcpt = tx.rcpt
  BY <1>1, <1>3, <1>4 DEF Transaction
<1> QED BY <1>1, <1>2, <1>3, <1>5

LEMMA PhaseStep ==
    ASSUME IInv, RecordPublished \/ RecordInputAttempted
    PROVE  /\ tx \in Transaction /\ tx' \in Transaction
           /\ tx'.env = tx.env /\ tx'.rcpt = tx.rcpt
           /\ tx'.phase = IF tx.phase = "intent" THEN "published" ELSE "input_attempted"
           /\ RecordPublished => tx.phase = "intent"
           /\ RecordInputAttempted => tx.phase = "published"
<1>1. tx \in Transaction
  BY DEF IInv, JournalTyped, RecordPublished, RecordInputAttempted, Publishing, Invoking
<1>2. CASE RecordPublished
  BY <1>1, <1>2 DEF RecordPublished, Publishing, Transaction, RecordInputAttempted, Invoking
<1>3. CASE RecordInputAttempted
  BY <1>1, <1>3 DEF RecordPublished, Publishing, Transaction, RecordInputAttempted, Invoking
<1> QED BY <1>2, <1>3

LEMMA ReceiptStep ==
    ASSUME IInv, ReceiveReceipt
    PROVE  /\ tx \in Transaction /\ tx' \in Transaction
           /\ tx'.env = tx.env /\ tx'.phase = "received"
           /\ tx'.rcpt \in receipts /\ tx'.rcpt \in Receipt
           /\ tx'.rcpt.nonce = tx.env.nonce /\ tx'.rcpt.ticket = tx.env.ticket
           /\ tx'.rcpt.action = tx.env.action /\ tx'.rcpt.next > tx.env.index
           /\ tx'.rcpt.owner = Self
<1>1. tx \in Transaction
  BY DEF IInv, JournalTyped, ReceiveReceipt
<1>2. PICK r \in receipts :
         /\ r.nonce = tx.env.nonce /\ r.ticket = tx.env.ticket
         /\ r.action = tx.env.action
         /\ r.next > tx.env.index
         /\ r.owner = Self
         /\ tx' = [tx EXCEPT !.phase = "received", !.rcpt = r]
  BY DEF ReceiveReceipt
<1>3. r \in Receipt BY DEF IInv, EngineDesk
<1>4. tx' \in Transaction /\ tx'.env = tx.env /\ tx'.phase = "received" /\ tx'.rcpt = r
  BY <1>1, <1>2, <1>3 DEF Transaction
<1> QED BY <1>1, <1>2, <1>3, <1>4

SameTicket == op'.id = op.id /\ op'.attempt = op.attempt /\ OpTicket' = OpTicket

LEMMA FinishPrepareStep ==
    ASSUME IInv, FinishPrepare
    PROVE  /\ op \in Operation /\ op' \in Operation /\ SameTicket
           /\ op'.prep = tx.env.nonce /\ op'.report = op.report /\ op'.cleanup = op.cleanup
           /\ op'.stage = IF tx.rcpt.state = "reported" THEN "running" ELSE "commit_ready"
<1>1. op \in Operation BY DEF IInv, JournalTyped, FinishPrepare, Prepared, Running
<1>3. tx.env.nonce \in Nat
  BY JournalRead, EnvelopeRecord DEF JournalFacts, FinishPrepare, Prepared, Answered
<1>2. op' \in Operation BY <1>1, <1>3 DEF FinishPrepare, SaveOp, Operation
<1> QED BY <1>1, <1>2, <1>3 DEF FinishPrepare, SaveOp, Operation, SameTicket, OpTicket

LEMMA FinishCommitStep ==
    ASSUME IInv, FinishCommit
    PROVE  /\ op \in Operation /\ op' \in Operation /\ SameTicket
           /\ op'.prep = op.prep /\ op'.report = op.report /\ op'.cleanup = op.cleanup
           /\ op'.stage = "running"
<1>1. op \in Operation BY DEF IInv, JournalTyped, FinishCommit, Accepted, Running
<1>2. op' \in Operation BY <1>1 DEF FinishCommit, SaveOp, Operation
<1> QED BY <1>1, <1>2 DEF FinishCommit, SaveOp, Operation, SameTicket, OpTicket

LEMMA FinishConfirmStep ==
    ASSUME IInv, FinishConfirm
    PROVE  /\ op \in Operation /\ op' \in Operation /\ SameTicket
           /\ op'.prep = op.prep /\ op'.report = op.report /\ op'.cleanup = op.cleanup
           /\ op'.stage = "result_verified"
<1>1. op \in Operation BY DEF IInv, JournalTyped, FinishConfirm, Confirmed, Running
<1>2. op' \in Operation BY <1>1 DEF FinishConfirm, SaveOp, Operation
<1> QED BY <1>1, <1>2 DEF FinishConfirm, SaveOp, Operation, SameTicket, OpTicket

LEMMA FinishReleaseStep ==
    ASSUME IInv, FinishRelease
    PROVE  /\ op \in Operation /\ op' \in Operation /\ SameTicket
           /\ op'.prep = op.prep /\ op'.report = op.report /\ op'.cleanup = "released"
           /\ op'.stage = "complete"
<1>1. op \in Operation BY DEF IInv, JournalTyped, FinishRelease, Released, Running
<1>2. op' \in Operation BY <1>1 DEF FinishRelease, SaveOp, Operation
<1> QED BY <1>1, <1>2 DEF FinishRelease, SaveOp, Operation, SameTicket, OpTicket

LEMMA FinishReleaseHeldStep ==
    ASSUME IInv, FinishReleaseHeld
    PROVE  /\ op \in Operation /\ op' \in Operation /\ SameTicket
           /\ op'.prep = op.prep /\ op'.report = op.report
           /\ op'.cleanup = "reload_required" /\ op'.stage = op.stage
<1>1. op \in Operation BY DEF IInv, JournalTyped, FinishReleaseHeld, StillHeld, Running
<1>2. op' \in Operation BY <1>1 DEF FinishReleaseHeld, SaveOp, Operation
<1> QED BY <1>1, <1>2 DEF FinishReleaseHeld, SaveOp, Operation, SameTicket, OpTicket

LEMMA CancelPreparedStep ==
    ASSUME IInv, CancelPrepared
    PROVE  /\ op \in Operation /\ op' \in Operation /\ SameTicket
           /\ op'.prep = op.prep /\ op'.report = op.report /\ op'.cleanup = op.cleanup
           /\ op'.stage = "cancelled"
<1>1. op \in Operation BY DEF IInv, JournalTyped, CancelPrepared, Running
<1>2. op' \in Operation BY <1>1 DEF CancelPrepared, SaveOp, Operation
<1> QED BY <1>1, <1>2 DEF CancelPrepared, SaveOp, Operation, SameTicket, OpTicket

LEMMA RecordDurableStep ==
    ASSUME IInv, RecordDurable
    PROVE  /\ op \in Operation /\ op' \in Operation /\ SameTicket
           /\ op'.prep = op.prep /\ op'.report = op.report /\ op'.cleanup = op.cleanup
           /\ op'.stage = "release_ready"
<1>1. op \in Operation BY DEF IInv, JournalTyped, RecordDurable, Running
<1>2. op' \in Operation BY <1>1 DEF RecordDurable, SaveOp, Operation
<1> QED BY <1>1, <1>2 DEF RecordDurable, SaveOp, Operation, SameTicket, OpTicket

LEMMA ObserveResultStep ==
    ASSUME IInv, ObserveResult
    PROVE  /\ op \in Operation /\ op' \in Operation /\ SameTicket
           /\ op'.prep = op.prep /\ op'.cleanup = op.cleanup
           /\ op'.stage = "confirm_ready"
           /\ jobs[OpTicket] # None /\ jobs[OpTicket].state = "reported"
           /\ \E r \in receipts :
                /\ r \in Receipt /\ r.state = "reported" /\ r.action = "prepare"
                /\ r.nonce = op.prep /\ r.ticket = OpTicket /\ op'.report = r.report
<1>1. op \in Operation BY DEF IInv, JournalTyped, ObserveResult, Running
<1>2. PICK r \in receipts :
         /\ r.state = "reported" /\ r.action = "prepare"
         /\ r.nonce = op.prep /\ r.ticket = OpTicket
         /\ op' = [op EXCEPT !.stage = "confirm_ready", !.report = r.report]
  BY DEF ObserveResult, SaveOp
<1>3. r \in Receipt /\ r.report \in Report \cup {None}
  BY ReceiptRecord DEF IInv, EngineDesk
<1>4. op' \in Operation BY <1>1, <1>2, <1>3 DEF Operation
<1>5. /\ op'.id = op.id /\ op'.attempt = op.attempt /\ op'.prep = op.prep
      /\ op'.cleanup = op.cleanup /\ op'.stage = "confirm_ready" /\ op'.report = r.report
  BY <1>1, <1>2 DEF Operation
<1>6. jobs[OpTicket] # None /\ jobs[OpTicket].state = "reported"
  BY DEF ObserveResult
<1> QED BY <1>1, <1>2, <1>3, <1>4, <1>5, <1>6 DEF SameTicket, OpTicket

LEMMA PrepareRequestStep ==
    ASSUME IInv, PrepareRequest
    PROVE  /\ op' \in Operation /\ op'.attempt = 1
           /\ op'.id = IF op = None THEN 1 ELSE op.id + 1
           /\ op'.stage = "prepared" /\ op'.prep = 0 /\ op'.report = None
           /\ op'.cleanup \notin {"reload_required", "released", "runtime_destroyed"}
<1>1. (IF op = None THEN 1 ELSE op.id + 1) \in Operations
  <2>1. CASE op = None BY <2>1, SlotWireAssumption DEF Operations
  <2>2. CASE op # None
    <3>1. op \in Operation /\ op.id < MaxOps
      BY <2>2, JournalRead DEF JournalFacts, PrepareRequest
    <3>2. op.id \in 1..MaxOps BY <3>1, OperationRecord DEF Operations
    <3>3. op.id + 1 \in Operations
      BY <3>1, <3>2, SlotWireAssumption DEF Operations
    <3> QED BY <2>2, <3>3
  <2> QED BY <2>1, <2>2
<1>2. 1 \in 1..MaxAttempts /\ 0 \in Nat
  BY SlotWireAssumption
<1>3. op' \in Operation
  BY <1>1, <1>2 DEF PrepareRequest, Operation
<1> QED BY <1>3 DEF PrepareRequest

LEMMA NewReloadRecord ==
    ASSUME IInv, NEW a \in BOOLEAN, NEW s \in BOOLEAN, NEW r \in BOOLEAN
    PROVE  LET n == NewReload(a, s, r) IN
           /\ n \in Reload /\ n # None /\ n.phase = "intent"
           /\ n.from = identity.runtime /\ n.automatic = a /\ n.slots = s
           /\ n.reconcile = r
<1>1. NewReload(a, s, r) \in Reload BY NewReloadTyped DEF IInv
<1> QED BY <1>1, NoneIsNoRecord DEF NewReload

LEMMA SlotReloadStep ==
    ASSUME IInv, SlotReload
    PROVE  /\ reload' \in Reload /\ reload' # None /\ reload'.phase = "intent"
           /\ reload'.from = identity.runtime
           /\ reload'.automatic = (ReloadActive => reload.automatic)
           /\ reload'.reconcile = (ReloadActive => reload.reconcile)
<1>1. CASE ReloadActive
  <2>1. reload \in Reload /\ identity.runtime \in Runtimes
    BY <1>1, JournalRead DEF JournalFacts, ReloadActive
  <2>2. reload' = [reload EXCEPT !.from = identity.runtime, !.phase = "intent",
                                 !.slots = TRUE]
    BY <1>1 DEF SlotReload, SaveReload
  <2>3. /\ reload' \in Reload /\ reload'.phase = "intent"
        /\ reload'.from = identity.runtime
        /\ reload'.automatic = reload.automatic /\ reload'.reconcile = reload.reconcile
        /\ reload.automatic \in BOOLEAN /\ reload.reconcile \in BOOLEAN
    BY <2>1, <2>2 DEF Reload
  <2> QED BY <1>1, <2>3, NoneIsNoRecord
<1>2. CASE ~ReloadActive
  <2>1. reload' = NewReload(TRUE, TRUE, TRUE)
    BY <1>2 DEF SlotReload, SaveReload
  <2> QED BY <1>2, <2>1, NewReloadRecord
<1> QED BY <1>1, <1>2

LEMMA ReloadPhaseStep ==
    ASSUME IInv, RecordReloadAttempted \/ ReloadComplete
    PROVE  /\ reload \in Reload /\ reload' \in Reload /\ reload' # None
           /\ reload'.from = reload.from /\ reload'.automatic = reload.automatic
           /\ reload'.reconcile = reload.reconcile /\ reload'.slots = reload.slots
           /\ RecordReloadAttempted => reload'.phase = "input_attempted"
           /\ ReloadComplete => reload'.phase = "complete"
<1>1. reload \in Reload
  BY JournalRead DEF JournalFacts, ReloadActive, RecordReloadAttempted, ReloadComplete
<1>2. CASE RecordReloadAttempted
  BY <1>1, <1>2, NoneIsNoRecord DEF RecordReloadAttempted, SaveReload, Reload, ReloadComplete
<1>3. CASE ReloadComplete
  BY <1>1, <1>3, NoneIsNoRecord DEF ReloadComplete, SaveReload, Reload, RecordReloadAttempted
<1> QED BY <1>2, <1>3

LEMMA RecoverRuntimeStep ==
    ASSUME IInv, RecoverRuntime
    PROVE  /\ recovery' # None /\ recovery'.phase = "binding"
           /\ recovery'.from = identity.runtime /\ recovery'.tx = tx
           /\ identity'.runtime = live /\ identity'.next = cursor
           /\ identity'.owner = None
           /\ ~ReloadActive => reload' = reload
           /\ ReloadActive =>
                /\ reload' # None /\ reload'.phase = "binding"
                /\ reload'.from = reload.from /\ reload'.reconcile
                /\ reload'.automatic = (reload.automatic \/ OldAutomatic)
<1>1. recovery' = [phase |-> "binding", from |-> identity.runtime, tx |-> tx]
      /\ identity' = [runtime |-> live, next |-> cursor, owner |-> None]
  BY DEF RecoverRuntime
<1>2. recovery' # None
  <2>1. recovery' \in Recovery
    BY <1>1, JournalRead DEF JournalFacts, Recovery
  <2> QED BY <2>1, NoneIsNoRecord
<1>3. ASSUME ReloadActive
      PROVE  /\ reload' # None /\ reload'.phase = "binding"
             /\ reload'.from = reload.from /\ reload'.reconcile
             /\ reload'.automatic = (reload.automatic \/ OldAutomatic)
  <2>1. reload \in Reload BY <1>3, JournalRead DEF JournalFacts, ReloadActive
  <2> DEFINE a == reload.automatic \/ OldAutomatic
  <2>2. reload' = [reload EXCEPT !.phase = "binding", !.reconcile = TRUE, !.automatic = a]
    BY <1>3, <2>1, Zenon DEF RecoverRuntime, Reload
  <2>3. a \in BOOLEAN OBVIOUS
  <2> HIDE DEF a
  <2>4. reload' \in Reload BY <2>1, <2>2, <2>3, Zenon DEF Reload
  <2>5. /\ reload'.phase = "binding" /\ reload'.from = reload.from
        /\ reload'.reconcile /\ reload'.automatic = a
    BY <2>1, <2>2 DEF Reload
  <2> QED BY <2>4, <2>5, NoneIsNoRecord DEF a
<1> QED BY <1>1, <1>2, <1>3 DEF RecoverRuntime

LEMMA ThirdRuntimeStep ==
    ASSUME IInv, RecoverThirdRuntime
    PROVE  /\ identity'.runtime = live /\ identity'.next = cursor
           /\ identity'.owner = None
           /\ reload' # None /\ reload'.phase = "binding"
           /\ reload'.from = reload.from /\ reload'.reconcile = reload.reconcile
           /\ reload'.automatic = reload.automatic
<1>1. reload \in Reload
  BY JournalRead DEF JournalFacts, ReloadActive, RecoverThirdRuntime
<1>2. reload' = [reload EXCEPT !.phase = "binding"]
      /\ identity' = [runtime |-> live, next |-> cursor, owner |-> None]
  BY DEF RecoverThirdRuntime
<1>3. reload' \in Reload BY <1>1, <1>2 DEF Reload
<1> QED BY <1>1, <1>2, <1>3, NoneIsNoRecord DEF Reload

LEMMA RecoveryPhaseStep ==
    ASSUME IInv, RecoveryBound \/ Reconcile
    PROVE  /\ recovery \in Recovery /\ recovery' \in Recovery
           /\ recovery # None /\ recovery' # None
           /\ recovery'.from = recovery.from /\ recovery'.tx = recovery.tx
           /\ RecoveryBound => recovery'.phase = "bound"
           /\ Reconcile => recovery'.phase = "complete"
<1>1. recovery \in Recovery
  BY JournalRead DEF JournalFacts, RecoveryActive, Recovering, RecoveryBound, Reconcile
<1>2. CASE RecoveryBound
  BY <1>1, <1>2, NoneIsNoRecord DEF RecoveryBound, Recovery, Reconcile
<1>3. CASE Reconcile
  BY <1>1, <1>3, NoneIsNoRecord DEF RecoveryBound, Recovery, Reconcile
<1> QED BY <1>2, <1>3

(* The outcomes of Reconcile: nothing to do, destroyed with its runtime,   *)
(* cancelled, another attempt, unknown.                                    *)
Destroyed ==
    /\ op.stage \in {"result_verified", "release_ready"}
    /\ op'.stage = "complete" /\ op'.cleanup = "runtime_destroyed"
    /\ op'.prep = op.prep /\ op'.report = op.report /\ SameTicket
Abandoned ==
    /\ closing /\ NeverCommitted
    /\ op'.stage = "cancelled" /\ op'.cleanup = op.cleanup
    /\ op'.prep = op.prep /\ op'.report = op.report /\ SameTicket
Again ==
    /\ NeverCommitted \/ policy[op.id] = "observation"
    /\ op'.id = op.id /\ op'.attempt = op.attempt + 1 /\ op'.stage = "prepared"
    /\ op'.prep = 0 /\ op'.report = None /\ op'.cleanup = op.cleanup
GivenUp ==
    /\ op'.stage = "execution_unknown" /\ op'.cleanup = op.cleanup
    /\ op'.prep = op.prep /\ op'.report = op.report /\ SameTicket

LEMMA ReconcileStep ==
    ASSUME IInv, Reconcile
    PROVE  /\ OpSettled => op' = op
           /\ ~OpSettled =>
                /\ op \in Operation /\ op' \in Operation
                /\ \/ Destroyed
                   \/ /\ op.stage \notin {"result_verified", "release_ready"}
                      /\ Abandoned \/ Again \/ GivenUp
<1>1. op' = Reconciled BY DEF Reconcile
<1>2. CASE OpSettled BY <1>1, <1>2 DEF Reconciled
<1>3. CASE ~OpSettled
  <2>1. op \in Operation BY <1>3, JournalRead DEF JournalFacts, OpSettled
  <2>2. op' \in Operation \cup {None}
    BY RecoveryStepsTyped DEF IInv, JournalTyped
  <2>3. CASE op.stage \in {"result_verified", "release_ready"}
    <3>1. op' = [op EXCEPT !.stage = "complete", !.cleanup = "runtime_destroyed"]
      BY <1>1, <1>3, <2>3 DEF Reconciled
    <3>2. op' \in Operation BY <2>1, <3>1 DEF Operation
    <3>3. /\ op'.id = op.id /\ op'.attempt = op.attempt /\ op'.prep = op.prep
          /\ op'.report = op.report
          /\ op'.stage = "complete" /\ op'.cleanup = "runtime_destroyed"
      BY <2>1, <3>1 DEF Operation
    <3> QED BY <1>3, <2>1, <2>3, <3>2, <3>3 DEF Destroyed, SameTicket, OpTicket
  <2>4. CASE op.stage \notin {"result_verified", "release_ready"}
    <3>1. CASE closing /\ NeverCommitted
      <4>1. op' = [op EXCEPT !.stage = "cancelled"]
        BY <1>1, <1>3, <2>4, <3>1 DEF Reconciled
      <4>2. op' \in Operation BY <2>1, <4>1 DEF Operation
      <4>3. /\ op'.id = op.id /\ op'.attempt = op.attempt /\ op'.prep = op.prep
            /\ op'.report = op.report
            /\ op'.stage = "cancelled" /\ op'.cleanup = op.cleanup
        BY <2>1, <4>1 DEF Operation
      <4> QED BY <1>3, <2>1, <2>4, <3>1, <4>2, <4>3 DEF Abandoned, SameTicket, OpTicket
    <3>2. CASE /\ ~(closing /\ NeverCommitted)
               /\ ~closing /\ (NeverCommitted \/ policy[op.id] = "observation")
      <4>1. op' = [op EXCEPT !.attempt = @ + 1, !.stage = "prepared", !.prep = 0,
                             !.report = None]
        BY <1>1, <1>3, <2>4, <3>2 DEF Reconciled
      <4>2. /\ op'.id = op.id /\ op'.attempt = op.attempt + 1 /\ op'.stage = "prepared"
            /\ op'.prep = 0 /\ op'.report = None /\ op'.cleanup = op.cleanup
        BY <2>1, <4>1 DEF Operation
      <4>3. op' # None
        <5>1. op.attempt + 1 <= MaxAttempts
          BY <1>1, <1>3, <4>2 DEF Reconcile
        <5>2. op.attempt + 1 \in 1..MaxAttempts
          <6>1. op.attempt \in 1..MaxAttempts BY <2>1, OperationRecord
          <6> QED BY <5>1, <6>1, SlotWireAssumption
        <5>3. op' \in Operation BY <2>1, <4>1, <5>2 DEF Operation
        <5> QED BY <5>3, NoneIsNoRecord
      <4> QED BY <1>3, <2>1, <2>2, <2>4, <3>2, <4>2, <4>3 DEF Again
    <3>3. CASE /\ ~(closing /\ NeverCommitted)
               /\ ~(~closing /\ (NeverCommitted \/ policy[op.id] = "observation"))
      <4>1. op' = [op EXCEPT !.stage = "execution_unknown"]
        BY <1>1, <1>3, <2>4, <3>3 DEF Reconciled
      <4>2. op' \in Operation BY <2>1, <4>1 DEF Operation
      <4>3. /\ op'.id = op.id /\ op'.attempt = op.attempt /\ op'.prep = op.prep
            /\ op'.report = op.report
            /\ op'.stage = "execution_unknown" /\ op'.cleanup = op.cleanup
        BY <2>1, <4>1 DEF Operation
      <4> QED BY <1>3, <2>1, <2>4, <3>3, <4>2, <4>3 DEF GivenUp, SameTicket, OpTicket
    <3> QED BY <3>1, <3>2, <3>3
  <2> QED BY <2>3, <2>4
<1> QED BY <1>2, <1>3

(* closeEndedState, by either of its callers.                              *)
LEMMA EndedStep ==
    ASSUME IInv, CloseReplaced \/ CloseEnded
    PROVE  /\ bound' = FALSE /\ closed' = TRUE /\ closing' = FALSE
           /\ tx' = None /\ recovery' = None
           /\ ~(reload' # None /\ reload'.phase # "complete")
           /\ op = None => op' = None
           /\ op # None =>
                /\ op \in Operation /\ op' \in Operation /\ SameTicket
                /\ op'.prep = op.prep /\ op'.report = op.report
                /\ \/ op.stage \in {"complete", "cancelled"} /\ op' = op
                   \/ /\ op.stage \in {"result_verified", "release_ready"}
                      /\ op'.stage = "complete" /\ op'.cleanup = "runtime_destroyed"
                   \/ /\ op.stage \notin {"complete", "cancelled", "result_verified",
                                          "release_ready"}
                      /\ op'.stage = "execution_unknown"
                      /\ op'.cleanup \notin {"reload_required", "released",
                                             "runtime_destroyed"}
           /\ UNCHANGED <<identity, runtimeEnd, processEnd, input, beside, external>>
<1>1. CloseEndedState BY DEF CloseReplaced, CloseEnded
<1>2. ~(reload' # None /\ reload'.phase # "complete")
  <2>1. CASE CloseReplaced /\ ClosingExplicitReload
    <3>1. reload \in Reload
      BY <2>1, JournalRead DEF JournalFacts, ClosingExplicitReload, ReloadActive
    <3>2. reload' = [reload EXCEPT !.phase = "complete"]
      BY <2>1 DEF CloseReplaced
    <3> QED BY <3>1, <3>2 DEF Reload
  <2>2. CASE ~(CloseReplaced /\ ClosingExplicitReload)
    BY <2>2 DEF CloseReplaced, CloseEnded
  <2> QED BY <2>1, <2>2
<1>3. ASSUME op # None
      PROVE  /\ op \in Operation /\ op' \in Operation /\ SameTicket
             /\ op'.prep = op.prep /\ op'.report = op.report
             /\ \/ op.stage \in {"complete", "cancelled"} /\ op' = op
                \/ /\ op.stage \in {"result_verified", "release_ready"}
                   /\ op'.stage = "complete" /\ op'.cleanup = "runtime_destroyed"
                \/ /\ op.stage \notin {"complete", "cancelled", "result_verified",
                                       "release_ready"}
                   /\ op'.stage = "execution_unknown"
                   /\ op'.cleanup \notin {"reload_required", "released",
                                          "runtime_destroyed"}
  <2>1. op \in Operation BY <1>3, JournalRead DEF JournalFacts
  <2>2. CASE op.stage \in {"complete", "cancelled"}
    BY <1>1, <1>3, <2>1, <2>2 DEF CloseEndedState, SameTicket, OpTicket
  <2>3. CASE op.stage \in {"result_verified", "release_ready"}
    <3>1. op' = [op EXCEPT !.stage = "complete", !.cleanup = "runtime_destroyed"]
      BY <1>1, <1>3, <2>3 DEF CloseEndedState
    <3>2. op' \in Operation BY <2>1, <3>1 DEF Operation
    <3>3. /\ op'.id = op.id /\ op'.attempt = op.attempt /\ op'.prep = op.prep
          /\ op'.report = op.report
          /\ op'.stage = "complete" /\ op'.cleanup = "runtime_destroyed"
      BY <2>1, <3>1 DEF Operation
    <3> QED BY <2>1, <2>3, <3>2, <3>3 DEF SameTicket, OpTicket
  <2>4. CASE op.stage \notin {"complete", "cancelled", "result_verified", "release_ready"}
    <3>1. op' = [op EXCEPT !.stage = "execution_unknown", !.cleanup = ""]
      BY <1>1, <1>3, <2>4 DEF CloseEndedState
    <3>2. op' \in Operation BY <2>1, <3>1 DEF Operation
    <3>3. /\ op'.id = op.id /\ op'.attempt = op.attempt /\ op'.prep = op.prep
          /\ op'.report = op.report /\ op'.stage = "execution_unknown"
          /\ op'.cleanup \notin {"reload_required", "released", "runtime_destroyed"}
      BY <2>1, <3>1 DEF Operation
    <3> QED BY <2>1, <2>4, <3>2, <3>3 DEF SameTicket, OpTicket
  <2> QED BY <2>2, <2>3, <2>4
<1> QED BY <1>1, <1>2, <1>3 DEF CloseEndedState

LEMMA ReloadStart ==
    ASSUME IInv,
           NEW r \in BOOLEAN, NEW a \in BOOLEAN, reload' = NewReload(a, FALSE, r)
    PROVE  /\ reload' # None /\ reload'.phase = "intent"
           /\ reload'.from = identity.runtime
           /\ reload'.automatic = a /\ reload'.reconcile = r
BY NewReloadRecord

-----------------------------------------------------------------------------
(* The journal alone: each kind of step keeps it consistent.               *)
LEMMA BeginsJournal ==
    ASSUME IInv, JournalFits, EndFits,
           ConnectBegin \/ RunPrepare \/ RunCommit \/ RunConfirm \/ RunRelease
           \/ DisconnectBegin
    PROVE  JournalFits'
<1>0. JournalFacts BY JournalRead
<1> USE <1>0, NoneIsNoRecord
    DEF JournalFits, Exchanging, RecoveryFits, ReloadFits, OpFits, ClosedFits, EndFits,
        JournalFacts, Fits, OpTicket, RecoveryActive, ReloadActive, OpSettled, Admitted, Scheduled,
        Ending, Disconnecting, Recovering, Connecting, Running, control, Begin, NewEnvelope
<1>1. CASE ConnectBegin BY <1>1 DEF ConnectBegin
<1>2. CASE RunPrepare BY <1>2 DEF RunPrepare
<1>3. CASE RunCommit BY <1>3 DEF RunCommit
<1>4. CASE RunConfirm BY <1>4 DEF RunConfirm
<1>5. CASE RunRelease BY <1>5 DEF RunRelease
<1>6. CASE DisconnectBegin BY <1>6 DEF DisconnectBegin
<1> QED BY <1>1, <1>2, <1>3, <1>4, <1>5, <1>6

LEMMA ExchangesJournal ==
    ASSUME IInv, JournalFits, EndFits,
           Reallocate \/ RecordPublished \/ RecordInputAttempted \/ ReceiveReceipt
    PROVE  JournalFits'
<1>0. JournalFacts BY JournalRead
<1> USE <1>0
    DEF JournalFits, Exchanging, RecoveryFits, ReloadFits, OpFits, ClosedFits, EndFits,
        JournalFacts, Fits, OpTicket, RecoveryActive, ReloadActive, OpSettled, control
<1>1. CASE Reallocate
  BY <1>1, ReallocateStep, TransactionRecord DEF Reallocate, Publishing
<1>2. CASE RecordPublished
  BY <1>2, PhaseStep, TransactionRecord DEF RecordPublished, Publishing
<1>3. CASE RecordInputAttempted
  BY <1>3, PhaseStep, TransactionRecord DEF RecordInputAttempted
<1>4. CASE ReceiveReceipt
  <2>1. UNCHANGED <<identity, bound, closing, closed, op, reload, recovery>>
    BY <1>4 DEF ReceiveReceipt
  <2>2. tx # None /\ tx.rcpt = None /\ live = tx.env.runtime
    BY <1>4 DEF ReceiveReceipt
  <2> QED BY <1>4, <2>1, <2>2, ReceiptStep, TransactionRecord, ReceiptRecord
<1> QED BY <1>1, <1>2, <1>3, <1>4

LEMMA FinishesJournal ==
    ASSUME IInv, JournalFits, EndFits,
           FinishBind \/ FinishPrepare \/ FinishPrepareCapacity \/ FinishCommit
           \/ FinishConfirm \/ FinishRelease \/ FinishReleaseHeld \/ FinishUnbind
    PROVE  JournalFits'
<1>0. JournalFacts BY JournalRead
<1> USE <1>0, NoneIsNoRecord
    DEF JournalFits, Exchanging, RecoveryFits, ReloadFits, OpFits, ClosedFits, EndFits,
        JournalFacts, Fits, OpTicket, RecoveryActive, ReloadActive, OpSettled, Admitted, Scheduled,
        Ending, Disconnecting, Recovering, Connecting, Running, control,
        FinishTransaction, Answered
<1>1. CASE FinishBind BY <1>1 DEF FinishBind, Bound
<1>2. CASE FinishPrepare
  BY <1>2, FinishPrepareStep, EnvelopeRecord DEF FinishPrepare, Prepared, SameTicket
<1>3. CASE FinishPrepareCapacity
  <2>1. reload' = NewReload(TRUE, FALSE, FALSE) BY <1>3 DEF FinishPrepareCapacity
  <2>2. reload'.phase = "intent" /\ reload'.from = identity.runtime
    BY <2>1, ReloadStart
  <2>3. /\ op # None /\ bound /\ ~RecoveryActive /\ ~closed /\ op.stage = "prepared"
        /\ tx # None /\ tx.rcpt # None
        /\ tx' = None /\ identity'.runtime = tx.rcpt.runtime
        /\ UNCHANGED <<bound, closing, closed, op, recovery>>
    BY <1>3 DEF FinishPrepareCapacity, NoCapacity, RefusedFor
  <2> QED BY <2>2, <2>3
<1>4. CASE FinishCommit BY <1>4, FinishCommitStep DEF FinishCommit, Accepted, SameTicket
<1>5. CASE FinishConfirm BY <1>5, FinishConfirmStep DEF FinishConfirm, Confirmed, SameTicket
<1>6. CASE FinishRelease BY <1>6, FinishReleaseStep DEF FinishRelease, Released, SameTicket
<1>7. CASE FinishReleaseHeld
  BY <1>7, FinishReleaseHeldStep DEF FinishReleaseHeld, StillHeld, RefusedFor, SameTicket
<1>8. CASE FinishUnbind BY <1>8 DEF FinishUnbind, Unbound
<1> QED BY <1>1, <1>2, <1>3, <1>4, <1>5, <1>6, <1>7, <1>8

LEMMA OperationsJournal ==
    ASSUME IInv, JournalFits, EndFits,
           PrepareRequest \/ CancelPrepared \/ ObserveResult \/ RecordDurable
    PROVE  JournalFits'
<1>0. JournalFacts BY JournalRead
<1> USE <1>0
    DEF JournalFits, Exchanging, RecoveryFits, ReloadFits, OpFits, ClosedFits, EndFits,
        JournalFacts, Fits, OpTicket, RecoveryActive, ReloadActive, OpSettled, Admitted, Scheduled,
        Running, control, SaveOp, SameTicket
<1>1. CASE PrepareRequest BY <1>1, PrepareRequestStep DEF PrepareRequest
<1>2. CASE CancelPrepared BY <1>2, CancelPreparedStep DEF CancelPrepared
<1>3. CASE ObserveResult
  <2>1. /\ Running /\ tx = None /\ op.stage = "running"
        /\ UNCHANGED <<identity, bound, closing, closed, tx, reload, recovery>>
    BY <1>3 DEF ObserveResult
  <2> QED BY <1>3, <2>1, ObserveResultStep
<1>4. CASE RecordDurable BY <1>4, RecordDurableStep DEF RecordDurable
<1> QED BY <1>1, <1>2, <1>3, <1>4

LEMMA ReloadsJournal ==
    ASSUME IInv, JournalFits, EndFits,
           SlotReload \/ AutomaticReload \/ MissingRelease \/ RequestReload
           \/ RecordReloadAttempted \/ ReloadComplete
    PROVE  JournalFits'
<1>0. JournalFacts BY JournalRead
<1> USE <1>0
    DEF JournalFits, Exchanging, RecoveryFits, ReloadFits, OpFits, ClosedFits, EndFits,
        JournalFacts, Fits, OpTicket, RecoveryActive, ReloadActive, OpSettled, Admitted, Scheduled,
        Running, control, SaveReload
<1>1. CASE SlotReload
  <2>1. /\ UNCHANGED <<identity, bound, closing, closed, tx, op, recovery>>
        /\ Connecting /\ tx = None
        /\ ReloadActive => reload.from # identity.runtime
    BY <1>1 DEF SlotReload
  <2> QED BY <1>1, <2>1, SlotReloadStep DEF Connecting, Recovering
<1>2. CASE AutomaticReload
  <2>1. reload' = NewReload(TRUE, FALSE, FALSE) BY <1>2 DEF AutomaticReload
  <2>2. reload'.phase = "intent" /\ reload'.from = identity.runtime
    BY <2>1, ReloadStart
  <2>3. /\ ~RecoveryActive /\ ~closed
        /\ op.stage = "prepared" \/ (op.stage = "release_ready" /\ op.cleanup = "reload_required")
        /\ op # None /\ tx = None
        /\ UNCHANGED <<identity, bound, closing, closed, tx, op, recovery>>
    BY <1>2 DEF AutomaticReload
  <2> QED BY <2>2, <2>3
<1>3. CASE MissingRelease
  <2>1. reload' = NewReload(TRUE, FALSE, TRUE) BY <1>3 DEF MissingRelease
  <2>2. reload'.phase = "intent" /\ reload'.from = identity.runtime /\ reload'.reconcile
    BY <2>1, ReloadStart
  <2>3. /\ ~RecoveryActive /\ ~closed
        /\ UNCHANGED <<identity, bound, closing, closed, tx, op, recovery>>
    BY <1>3 DEF MissingRelease
  <2> QED BY <2>2, <2>3
<1>4. CASE RequestReload
  <2> DEFINE due == tx # None \/ (op # None /\ op.stage # "complete")
  <2>a. reload' = NewReload(FALSE, FALSE, due) BY <1>4, Zenon DEF RequestReload, SaveReload
  <2>b. due \in BOOLEAN OBVIOUS
  <2>0. /\ reload'.phase = "intent" /\ reload'.from = identity.runtime
        /\ reload'.reconcile = due
    <3> HIDE DEF due
    <3> QED BY <2>a, <2>b, ReloadStart
  <2>1. /\ UNCHANGED <<identity, bound, closing, closed, tx, op, recovery>>
        /\ Admitted /\ ~RecoveryActive
    BY <1>4 DEF RequestReload
  <2> QED BY <2>0, <2>1
<1>5. CASE RecordReloadAttempted BY <1>5, ReloadPhaseStep DEF RecordReloadAttempted
<1>6. CASE ReloadComplete BY <1>6, ReloadPhaseStep DEF ReloadComplete
<1> QED BY <1>1, <1>2, <1>3, <1>4, <1>5, <1>6

LEMMA RecoveriesJournal ==
    ASSUME IInv, JournalFits, EndFits,
           RecoverRuntime \/ RecoverThirdRuntime \/ RecoveryBound \/ Reconcile
    PROVE  JournalFits'
<1>0. JournalFacts BY JournalRead
<1> USE <1>0
    DEF JournalFits, Exchanging, RecoveryFits, ReloadFits, OpFits, ClosedFits, EndFits,
        JournalFacts, Fits, OpTicket, RecoveryActive, ReloadActive, OpSettled, Admitted,
        Recovering, control, Candidate
<1>1. CASE RecoverRuntime
  <2>1. /\ Candidate /\ ~RecoveryActive /\ tx' = None /\ bound' = FALSE
        /\ UNCHANGED <<closing, closed, op>>
    BY <1>1 DEF RecoverRuntime
  <2>2. op # None /\ ~bound => closing /\ OpSettled
    BY <2>1
  <2> QED BY <1>1, <2>1, <2>2, RecoverRuntimeStep
<1>2. CASE RecoverThirdRuntime
  <2>1. /\ Candidate /\ RecoveryActive /\ recovery.phase = "binding" /\ tx = None /\ ~bound
        /\ ReloadActive /\ reload.from = identity.runtime
        /\ UNCHANGED <<bound, closing, closed, op, recovery, tx>>
    BY <1>2 DEF RecoverThirdRuntime
  <2> QED BY <1>2, <2>1, ThirdRuntimeStep
<1>3. CASE RecoveryBound BY <1>3, RecoveryPhaseStep DEF RecoveryBound
<1>4. CASE Reconcile
  <2>1. /\ Recovering /\ recovery.phase = "bound"
        /\ UNCHANGED <<identity, bound, closing, closed, tx, reload>>
    BY <1>4 DEF Reconcile
  <2> QED BY <1>4, <2>1, RecoveryPhaseStep, ReconcileStep
          DEF Destroyed, Abandoned, Again, GivenUp, SameTicket
<1> QED BY <1>1, <1>2, <1>3, <1>4

LEMMA ClosesJournal ==
    ASSUME IInv, JournalFits, EndFits,
           RequestClose \/ CloseConnection \/ ObserveReplacement \/ CloseReplaced
           \/ ObserveProcessEnd \/ CloseEnded
    PROVE  JournalFits'
<1>0. JournalFacts BY JournalRead
<1> USE <1>0
    DEF JournalFits, Exchanging, RecoveryFits, ReloadFits, OpFits, ClosedFits, EndFits,
        JournalFacts, Fits, OpTicket, RecoveryActive, ReloadActive, OpSettled, Admitted, Scheduled,
        Ending, Disconnecting, control
<1>1. CASE RequestClose BY <1>1 DEF RequestClose
<1>2. CASE CloseConnection BY <1>2 DEF CloseConnection
<1>3. CASE ObserveReplacement BY <1>3 DEF ObserveReplacement
<1>4. CASE CloseReplaced \/ CloseEnded
  BY <1>4, EndedStep, OperationRecord DEF SameTicket
<1>5. CASE ObserveProcessEnd BY <1>5 DEF ObserveProcessEnd
<1> QED BY <1>1, <1>2, <1>3, <1>4, <1>5

-----------------------------------------------------------------------------
(* The steps of the driver, by what they change.                           *)
Begins ==
    ConnectBegin \/ RunPrepare \/ RunCommit \/ RunConfirm \/ RunRelease \/ DisconnectBegin
Exchanges ==
    Reallocate \/ RecordPublished \/ RecordInputAttempted \/ ReceiveReceipt
Finishes ==
    FinishBind \/ FinishPrepare \/ FinishPrepareCapacity \/ FinishCommit
    \/ FinishConfirm \/ FinishRelease \/ FinishReleaseHeld \/ FinishUnbind
OperationSteps == PrepareRequest \/ CancelPrepared \/ ObserveResult \/ RecordDurable
Reloads ==
    SlotReload \/ AutomaticReload \/ MissingRelease \/ RequestReload
    \/ RecordReloadAttempted \/ ReloadComplete
Recoveries == RecoverRuntime \/ RecoverThirdRuntime \/ RecoveryBound \/ Reconcile
Closes ==
    RequestClose \/ CloseConnection \/ ObserveReplacement \/ CloseReplaced
    \/ ObserveProcessEnd \/ CloseEnded

JournalStep ==
    Begins \/ Exchanges \/ Finishes \/ OperationSteps \/ Reloads \/ Recoveries \/ Closes

(* A Save leaves the pool, the game and the files as they are.             *)
Quiet ==
    UNCHANGED <<sending, results, policy, keys, sent, input, entry, payload, live, alive,
                cursor, owner, jobs, count, active, pending, receipts, needSlots, runs,
                outcome>>

LEMMA JournalStepQuiet ==
    ASSUME JournalStep
    PROVE  /\ Quiet
           /\ Exchanges \/ Finishes \/ OperationSteps \/ Reloads \/ Recoveries \/ Closes =>
                nonces' = nonces
<1> USE DEF Quiet, external, poolVars, engineVars, historyVars, beside
<1>1. Begins => Quiet
  BY DEF Begins, ConnectBegin, RunPrepare, RunCommit, RunConfirm, RunRelease,
         DisconnectBegin, Begin
<1>2. Exchanges => Quiet /\ nonces' = nonces
  BY DEF Exchanges, Reallocate, RecordPublished, RecordInputAttempted, ReceiveReceipt
<1>3. Finishes => Quiet /\ nonces' = nonces
  BY DEF Finishes, FinishTransaction, FinishBind, FinishPrepare, FinishPrepareCapacity,
         FinishCommit, FinishConfirm, FinishRelease, FinishReleaseHeld, FinishUnbind
<1>4. OperationSteps => Quiet /\ nonces' = nonces
  BY DEF OperationSteps, PrepareRequest, CancelPrepared, ObserveResult, RecordDurable, SaveOp
<1>5. Reloads => Quiet /\ nonces' = nonces
  BY DEF Reloads, SlotReload, AutomaticReload, MissingRelease, RequestReload,
         RecordReloadAttempted, ReloadComplete, SaveReload
<1>6. Recoveries => Quiet /\ nonces' = nonces
  BY DEF Recoveries, RecoverRuntime, RecoverThirdRuntime, RecoveryBound, Reconcile
<1>7. Closes => Quiet /\ nonces' = nonces
  BY DEF Closes, RequestClose, CloseConnection, ObserveReplacement, CloseReplaced,
         ObserveProcessEnd, CloseEnded, CloseEndedState
<1> QED BY <1>1, <1>2, <1>3, <1>4, <1>5, <1>6, <1>7 DEF JournalStep

LEMMA BeginStep ==
    ASSUME IInv, Begins
    PROVE  /\ tx = None /\ tx' # None /\ tx' \in Transaction /\ tx'.env \in Envelope
           /\ tx'.phase = "intent" /\ tx'.rcpt = None
           /\ tx'.env.nonce = nonces + 1 /\ nonces' = nonces + 1
           /\ UNCHANGED <<identity, bound, control, op, reload, recovery>>
           /\ Connecting \/ Running \/ Disconnecting
           /\ Recovering => tx'.env.action = "bind"
<1>1. \E e : tx' = [env |-> e, phase |-> "intent", rcpt |-> None] /\ e.nonce = nonces + 1
             /\ (Recovering => e.action = "bind")
  <2> USE DEF Begin, NewEnvelope
  <2>1. CASE ConnectBegin BY <2>1 DEF ConnectBegin
  <2>2. CASE RunPrepare
    BY <2>2 DEF RunPrepare, Running, Scheduled, Recovering
  <2>3. CASE RunCommit BY <2>3 DEF RunCommit, Running, Scheduled, Recovering
  <2>4. CASE RunConfirm BY <2>4 DEF RunConfirm, Running, Scheduled, Recovering
  <2>5. CASE RunRelease BY <2>5 DEF RunRelease, Running, Scheduled, Recovering
  <2>6. CASE DisconnectBegin
    BY <2>6 DEF DisconnectBegin, Disconnecting, Scheduled, Recovering
  <2> QED BY <2>1, <2>2, <2>3, <2>4, <2>5, <2>6 DEF Begins
<1>2. tx = None /\ nonces' = nonces + 1
      /\ UNCHANGED <<identity, bound, control, op, reload, recovery>>
  BY DEF Begins, ConnectBegin, RunPrepare, RunCommit, RunConfirm, RunRelease,
         DisconnectBegin, Begin
<1>3. Connecting \/ Running \/ Disconnecting
  BY DEF Begins, ConnectBegin, RunPrepare, RunCommit, RunConfirm, RunRelease, DisconnectBegin
<1>4. tx' \in Transaction
  BY BeginsTyped DEF Begins
<1>5. PICK e : tx' = [env |-> e, phase |-> "intent", rcpt |-> None] /\ e.nonce = nonces + 1
               /\ (Recovering => e.action = "bind")
  BY <1>1
<1> QED BY <1>2, <1>3, <1>4, <1>5, TransactionRecord

LEMMA FinishStep ==
    ASSUME IInv, JournalFits, Finishes
    PROVE  /\ tx # None /\ tx \in Transaction /\ tx.env \in Envelope
           /\ tx.rcpt # None /\ tx.rcpt \in Receipt
           /\ tx' = None /\ identity'.runtime = identity.runtime
           /\ ConsumeDone(tx.env)
           /\ UNCHANGED <<closing, closed, runtimeEnd, processEnd, recovery>>
           /\ alive
<1>0. FinishTransaction
  BY DEF Finishes, FinishBind, FinishPrepare, FinishPrepareCapacity,
         FinishCommit, FinishConfirm, FinishRelease, FinishReleaseHeld, FinishUnbind
<1>1. /\ tx' = None /\ ConsumeDone(tx.env)
      /\ identity'.runtime = tx.rcpt.runtime
      /\ UNCHANGED <<closing, closed, runtimeEnd, processEnd, recovery>>
  BY <1>0 DEF FinishTransaction, control
<1>2. Finishing
  BY DEF Finishes, FinishBind, FinishPrepare, FinishPrepareCapacity, FinishCommit,
         FinishConfirm, FinishRelease, FinishReleaseHeld, FinishUnbind, Finishing
<1>3. tx \in Transaction /\ tx.rcpt \in Receipt
  BY <1>2, Scheduling DEF IInv
<1>4. tx # None /\ tx.rcpt # None /\ tx.env \in Envelope
  BY <1>3, TransactionRecord, ReceiptRecord
<1>5. tx.rcpt.runtime = identity.runtime
  BY <1>4 DEF JournalFits, Exchanging
<1>6. alive
  BY <1>2 DEF Finishing, Bound, Prepared, NoCapacity, Accepted, Confirmed, Released, StillHeld,
              Unbound, Connecting, Running, Disconnecting, Scheduled, Recovering, Admitted
<1> QED BY <1>1, <1>3, <1>4, <1>5, <1>6

LEMMA MarkStep ==
    ASSUME IInv, Exchanges
    PROVE  /\ tx # None /\ tx' # None /\ tx \in Transaction /\ tx' \in Transaction
           /\ tx'.env.nonce = tx.env.nonce /\ tx'.env.action = tx.env.action
           /\ tx'.env.prep = tx.env.prep /\ tx'.env.ticket = tx.env.ticket
           /\ tx'.env.runtime = tx.env.runtime
           /\ ~Reallocate => tx'.env = tx.env
           /\ ~ReceiveReceipt => tx'.rcpt = tx.rcpt
           /\ UNCHANGED <<identity, bound, closing, closed, runtimeEnd, processEnd, op, reload,
                          recovery>>
           /\ alive
<1>1. UNCHANGED <<identity, bound, closing, closed, runtimeEnd, processEnd, op, reload, recovery>>
  BY DEF Exchanges, Reallocate, RecordPublished, RecordInputAttempted, ReceiveReceipt, control
<1>2. alive
  BY DEF Exchanges, Reallocate, RecordPublished, RecordInputAttempted, ReceiveReceipt,
         Publishing, Invoking, Advancing, Connecting, Running, Disconnecting, Scheduled,
         Recovering, Admitted
<1>3. /\ tx \in Transaction /\ tx' \in Transaction
      /\ tx'.env.nonce = tx.env.nonce /\ tx'.env.action = tx.env.action
      /\ tx'.env.prep = tx.env.prep /\ tx'.env.ticket = tx.env.ticket
      /\ tx'.env.runtime = tx.env.runtime
  BY ReallocateStep, PhaseStep, ReceiptStep DEF Exchanges
<1>4. ~Reallocate => tx'.env = tx.env
  BY PhaseStep, ReceiptStep DEF Exchanges
<1>5. ~ReceiveReceipt => tx'.rcpt = tx.rcpt
  BY PhaseStep, ReallocateStep DEF Exchanges
<1> QED BY <1>1, <1>2, <1>3, <1>4, <1>5, TransactionRecord

LEMMA OperationStepsLeave ==
    ASSUME OperationSteps
    PROVE  UNCHANGED <<identity, bound, closing, closed, runtimeEnd, processEnd, tx, reload,
                       recovery>>
BY DEF OperationSteps, PrepareRequest, CancelPrepared, ObserveResult, RecordDurable, SaveOp,
       control

LEMMA ReloadsLeave ==
    ASSUME Reloads
    PROVE  UNCHANGED <<identity, bound, closing, closed, runtimeEnd, processEnd, tx, op,
                       recovery>>
BY DEF Reloads, SlotReload, AutomaticReload, MissingRelease, RequestReload,
       RecordReloadAttempted, ReloadComplete, SaveReload, control

LEMMA RecoveriesLeave ==
    ASSUME Recoveries
    PROVE  /\ UNCHANGED <<closing, closed, runtimeEnd, processEnd>>
           /\ alive /\ ~closed /\ runtimeEnd = None
BY DEF Recoveries, RecoverRuntime, RecoverThirdRuntime, RecoveryBound, Reconcile, control,
       Candidate, Recovering, Admitted

(* The steps of the end that change no more than a mark.                   *)
Marks == RequestClose \/ CloseConnection \/ ObserveReplacement \/ ObserveProcessEnd

LEMMA MarksLeave ==
    ASSUME Marks
    PROVE  UNCHANGED <<identity, bound, tx, op, reload, recovery>>
BY DEF Marks, RequestClose, CloseConnection, ObserveReplacement, ObserveProcessEnd

LEMMA ClosesAre == ASSUME Closes PROVE Marks \/ CloseReplaced \/ CloseEnded
BY DEF Closes, Marks

-----------------------------------------------------------------------------
(* A Save and the clocks, and the tokens.                                  *)
LEMMA JournalClock ==
    ASSUME IInv, JournalFits, EndFits, TokensGrow, JournalStep
    PROVE  EndFits'
<1>0. Quiet /\ JournalFacts BY JournalStepQuiet, JournalRead
<1> USE <1>0 DEF EndFits, Quiet, JournalFacts
<1>1. CASE Begins BY <1>1, BeginStep DEF control
<1>2. CASE Exchanges BY <1>2, MarkStep
<1>3. CASE Finishes BY <1>3, FinishStep
<1>4. CASE OperationSteps BY <1>4, OperationStepsLeave
<1>5. CASE Reloads BY <1>5, ReloadsLeave
<1>6. CASE Recoveries
  <2>1. UNCHANGED <<runtimeEnd, processEnd>>
    BY <1>6 DEF Recoveries, RecoverRuntime, RecoverThirdRuntime, RecoveryBound, Reconcile,
                control
  <2>2. \/ identity' = identity
        \/ identity'.runtime = live /\ runtimeEnd = None
    BY <1>6, RecoverRuntimeStep, ThirdRuntimeStep
       DEF Recoveries, RecoverRuntime, RecoverThirdRuntime, RecoveryBound, Reconcile,
           Candidate, Admitted
  <2> QED BY <2>1, <2>2
<1>7. CASE Marks
  <2>1. identity' = identity BY <1>7, MarksLeave
  <2>2. runtimeEnd' = runtimeEnd \/ (runtimeEnd' = live /\ live # identity.runtime)
    BY <1>7 DEF Marks, RequestClose, CloseConnection, ObserveReplacement, ObserveProcessEnd
  <2>3. processEnd' = processEnd \/ ~alive
    BY <1>7 DEF Marks, RequestClose, CloseConnection, ObserveReplacement, ObserveProcessEnd
  <2> QED BY <2>1, <2>2, <2>3
<1>8. CASE CloseReplaced \/ CloseEnded
  <2>1. UNCHANGED <<identity, runtimeEnd, processEnd>>
    BY <1>8 DEF CloseReplaced, CloseEnded, CloseEndedState
  <2> QED BY <2>1
<1> QED BY <1>1, <1>2, <1>3, <1>4, <1>5, <1>6, <1>7, <1>8, ClosesAre DEF JournalStep

LEMMA JournalTokens ==
    ASSUME IInv, JournalFits, EndFits, TokensGrow, JournalStep
    PROVE  TokensGrow'
<1>0. /\ Quiet /\ JournalFacts
      /\ Exchanges \/ Finishes \/ OperationSteps \/ Reloads \/ Recoveries \/ Closes =>
           nonces' = nonces
  BY JournalStepQuiet, JournalRead
<1>a. /\ \A i \in Index : entry[i].nonce \in Nat
      /\ \A r \in receipts : r.nonce \in Nat
      /\ \A t \in Ticket : jobs[t] # None => jobs[t].nonce \in Nat
      /\ \A n \in sent : n \in Nat
  BY DEF IInv, PoolTypeOK, Entry, EngineDesk, Receipt, Job, BesideTyped
<1>b. /\ op # None => op.prep \in Nat
      /\ tx # None => tx.env.nonce \in Nat
      /\ recovery # None /\ recovery.tx # None => recovery.tx.env.nonce \in Nat
  BY <1>0, OperationRecord, EnvelopeRecord DEF JournalFacts
<1>c. nonces \in Nat BY <1>0 DEF JournalFacts
<1>d. ASSUME nonces' >= nonces
      PROVE  /\ \A i \in Index : entry'[i].nonce <= nonces'
             /\ \A r \in receipts' : r.nonce <= nonces'
             /\ \A t \in Ticket : jobs'[t] # None => jobs'[t].nonce <= nonces'
             /\ \A n \in sent' : n <= nonces'
  <2>1. nonces' = nonces \/ nonces' = nonces + 1 BY <1>0, BeginStep DEF JournalStep
  <2> QED BY <1>0, <1>a, <1>c, <2>1 DEF Quiet, TokensGrow
<1> DEFINE mine ==
      /\ tx # None => tx.env.nonce <= nonces
      /\ op # None => op.prep <= nonces
      /\ tx # None /\ op # None => op.prep < tx.env.nonce
      /\ recovery # None /\ recovery.tx # None =>
           /\ recovery.tx.env.nonce <= nonces
           /\ tx # None => recovery.tx.env.nonce < tx.env.nonce
<1>e. mine BY DEF TokensGrow
<1>f. ASSUME mine' PROVE TokensGrow'
  <2>1. nonces' >= nonces BY <1>0, <1>c, BeginStep DEF JournalStep
  <2> QED BY <1>d, <1>f, <2>1 DEF TokensGrow
<1>1. CASE Begins BY <1>1, <1>b, <1>c, <1>e, <1>f, BeginStep
<1>2. CASE Exchanges BY <1>0, <1>2, <1>e, <1>f, MarkStep
<1>3. CASE Finishes
  <2>1. /\ tx' = None /\ UNCHANGED recovery
        /\ op' = op \/ (op # None /\ op'.prep \in {op.prep, tx.env.nonce})
    BY <1>3, FinishStep, FinishPrepareStep, FinishCommitStep, FinishConfirmStep,
       FinishReleaseStep, FinishReleaseHeldStep, OperationRecord
       DEF Finishes, FinishBind, FinishPrepareCapacity, FinishUnbind
  <2> QED BY <1>0, <1>3, <1>e, <1>f, <2>1, FinishStep
<1>4. CASE OperationSteps
  <2>1. (op # None /\ op'.prep = op.prep) \/ op'.prep = 0
    BY <1>4, PrepareRequestStep, CancelPreparedStep, ObserveResultStep, RecordDurableStep,
       OperationRecord DEF OperationSteps
  <2>2. tx # None => tx.env.nonce # 0 BY <1>0, EnvelopeRecord DEF JournalFacts
  <2> QED BY <1>0, <1>4, <1>b, <1>c, <1>e, <1>f, <2>1, <2>2, OperationStepsLeave
<1>5. CASE Reloads BY <1>0, <1>5, <1>e, <1>f, ReloadsLeave
<1>6. CASE Recoveries
  <2>1. CASE RecoverRuntime
    BY <1>0, <1>6, <1>e, <1>f, <2>1, RecoverRuntimeStep DEF RecoverRuntime
  <2>2. CASE RecoverThirdRuntime
    BY <1>0, <1>6, <1>e, <1>f, <2>2 DEF RecoverThirdRuntime
  <2>3. CASE RecoveryBound \/ Reconcile
    <3>1. UNCHANGED tx /\ recovery # None /\ recovery'.tx = recovery.tx
      BY <2>3, RecoveryPhaseStep DEF RecoveryBound, Reconcile
    <3>2. op' = op \/ (op # None /\ op'.prep = op.prep) \/ op'.prep = 0
      BY <2>3, ReconcileStep, OperationRecord
         DEF RecoveryBound, Destroyed, Abandoned, Again, GivenUp
    <3>3. tx # None => tx.env.nonce # 0 BY <1>0, EnvelopeRecord DEF JournalFacts
    <3> QED BY <1>0, <1>6, <1>b, <1>c, <1>e, <1>f, <3>1, <3>2, <3>3
  <2> QED BY <1>6, <2>1, <2>2, <2>3 DEF Recoveries
<1>7. CASE Marks BY <1>0, <1>7, <1>e, <1>f, MarksLeave DEF Closes, Marks
<1>8. CASE CloseReplaced \/ CloseEnded
  BY <1>0, <1>8, <1>e, <1>f, EndedStep DEF Closes
<1> QED BY <1>1, <1>2, <1>3, <1>4, <1>5, <1>6, <1>7, <1>8, ClosesAre DEF JournalStep

-----------------------------------------------------------------------------
(* A Save and the slots.                                                   *)
LEMMA LoadableStays == ASSUME Quiet, NEW i \in Index PROVE Loadable(i)' = Loadable(i)
BY DEF Quiet, Loadable

LEMMA ReservedStays == ASSUME Quiet, NEW i \in Index PROVE Reserved(i)' = Reserved(i)
BY DEF Quiet, Reserved

LEMMA ConsumedIsFree ==
    ASSUME NEW e \in Envelope, ConsumeDone(e), Claims(Self, e)
    PROVE  ~Reserved(e.index)
BY DEF ConsumeDone, Claims, Reserved

LEMMA JournalOnlyCurrent ==
    ASSUME IInv, JournalFits, EndFits, OnlyCurrent, JournalStep
    PROVE  OnlyCurrent'
<1>0. /\ Quiet /\ JournalFacts BY JournalStepQuiet, JournalRead
<1>a. /\ \A i \in Index : payload'[i] # Inert => payload'[i].runtime <= live'
      /\ \A i \in Index : Loadable(i)' = Loadable(i)
      /\ \A i \in Index : Reserved(i)' = Reserved(i)
  BY <1>0, LoadableStays, ReservedStays DEF OnlyCurrent, Quiet
<1>b. /\ \A i \in Index : Loadable(i) =>
           /\ tx # None /\ payload[i] = tx.env /\ tx.env.index = i
           /\ Claims(Self, tx.env) /\ Reserved(i)
      /\ Here /\ tx # None /\ tx.rcpt # None => cursor > tx.env.index
  BY DEF OnlyCurrent
<1>c. ASSUME \A i \in Index : ~Loadable(i), tx' # None => tx'.rcpt = None
      PROVE  OnlyCurrent'
  BY <1>a, <1>c DEF OnlyCurrent
<1>d. ASSUME UNCHANGED <<identity, tx>> PROVE OnlyCurrent'
  BY <1>0, <1>a, <1>b, <1>d DEF OnlyCurrent, Quiet, Here, Claims
<1>1. CASE Begins BY <1>1, <1>b, <1>c, BeginStep
<1>2. CASE Reallocate
  <2>1. ~Claims(Self, tx.env) /\ tx.phase = "intent"
    BY <1>2 DEF Reallocate, Publishing, ReservedByOther
  <2>2. tx' # None => tx'.rcpt = None
    BY <1>2, <2>1, ReallocateStep, TransactionRecord DEF JournalFits, Exchanging
  <2> QED BY <1>b, <1>c, <2>1, <2>2
<1>3. CASE RecordPublished \/ RecordInputAttempted \/ ReceiveReceipt
  <2>1. /\ tx # None /\ tx' # None /\ tx'.env = tx.env /\ identity' = identity
        /\ ReceiveReceipt \/ tx'.rcpt = tx.rcpt
    BY <1>3, PhaseStep, ReceiptStep, TransactionRecord
       DEF RecordPublished, RecordInputAttempted, ReceiveReceipt
  <2>2. ReceiveReceipt => cursor > tx.env.index
    BY <1>0, ReceiptStep, ReceiptRecord, EnvelopeRecord, TransactionRecord
       DEF EndFits, JournalFacts
  <2> QED BY <1>0, <1>a, <1>b, <2>1, <2>2 DEF OnlyCurrent, Quiet, Here, Claims
<1>4. CASE Finishes
  <2>1. /\ tx # None /\ tx.env \in Envelope /\ tx' = None /\ ConsumeDone(tx.env)
    BY <1>4, FinishStep
  <2> QED BY <1>b, <1>c, <2>1, ConsumedIsFree
<1>5. CASE OperationSteps BY <1>5, <1>d, OperationStepsLeave
<1>6. CASE Reloads BY <1>6, <1>d, ReloadsLeave
<1>7. CASE RecoverRuntime \/ RecoverThirdRuntime
  <2>1. tx' = None /\ live > identity.runtime
    BY <1>7 DEF RecoverRuntime, RecoverThirdRuntime, Candidate
  <2>2. \A i \in Index : ~Loadable(i)
    BY <1>0, <1>b, <2>1 DEF Loadable, JournalFits, Exchanging, JournalFacts
  <2> QED BY <1>c, <2>1, <2>2
<1>8. CASE RecoveryBound \/ Reconcile BY <1>8, <1>d DEF RecoveryBound, Reconcile
<1>9. CASE Marks BY <1>9, <1>d, MarksLeave
<1>10. CASE CloseReplaced
  <2>1. tx' = None BY <1>10, EndedStep
  <2>2. tx # None => RetireRuntimeDone(tx.env, runtimeEnd) /\ runtimeEnd # None
    BY <1>10 DEF CloseReplaced, OldClaims
  <2>3. \A i \in Index : ~Loadable(i)
    BY <1>b, <2>2 DEF RetireRuntimeDone, Claims, Reserved
  <2> QED BY <1>c, <2>1, <2>3
<1>11. CASE CloseEnded
  <2>1. tx' = None BY <1>11, EndedStep
  <2>2. \A i \in Index : ~Loadable(i)
    BY <1>11 DEF CloseEnded, EndFits, Loadable
  <2> QED BY <1>c, <2>1, <2>2
<1> QED BY <1>1, <1>2, <1>3, <1>4, <1>5, <1>6, <1>7, <1>8, <1>9, <1>10, <1>11, ClosesAre
        DEF JournalStep, Exchanges, Recoveries

LEMMA JournalOwned ==
    ASSUME IInv, JournalFits, Owned, JournalStep
    PROVE  Owned'
<1>0. /\ Quiet /\ JournalFacts BY JournalStepQuiet, JournalRead
<1>a. \A i \in Index : Reserved(i)' = Reserved(i) /\ entry'[i] = entry[i]
  BY <1>0, ReservedStays DEF Quiet
<1> DEFINE kept(i) ==
      /\ RecoveryActive /\ recovery.tx # None
      /\ recovery.tx.env.index = i /\ Claims(Self, recovery.tx.env)
<1>b. \A i \in Index : entry[i].consumer = Self /\ Reserved(i) =>
        (tx # None /\ tx.env.index = i /\ Claims(Self, tx.env)) \/ kept(i)
  BY DEF Owned
<1>c. ASSUME UNCHANGED <<tx, recovery>> PROVE Owned'
  BY <1>0, <1>a, <1>b, <1>c DEF Owned, Quiet, Claims, RecoveryActive
<1>d. ASSUME UNCHANGED recovery,
             tx # None => ~Claims(Self, tx.env) \/ ~Reserved(tx.env.index)
      PROVE  Owned'
  BY <1>0, <1>a, <1>b, <1>d DEF Owned, Quiet, Claims, RecoveryActive
<1>1. CASE Begins BY <1>1, <1>d, BeginStep
<1>2. CASE Reallocate
  BY <1>2, <1>d DEF Reallocate, Publishing, ReservedByOther
<1>3. CASE RecordPublished \/ RecordInputAttempted \/ ReceiveReceipt
  <2>1. tx # None /\ tx' # None /\ tx'.env = tx.env /\ recovery' = recovery
    BY <1>3, PhaseStep, ReceiptStep, TransactionRecord
       DEF RecordPublished, RecordInputAttempted, ReceiveReceipt
  <2> QED BY <1>0, <1>a, <1>b, <2>1 DEF Owned, Quiet, Claims, RecoveryActive
<1>4. CASE Finishes
  <2>1. tx # None /\ tx.env \in Envelope /\ recovery' = recovery /\ ConsumeDone(tx.env)
    BY <1>4, FinishStep
  <2> QED BY <1>d, <2>1, ConsumedIsFree
<1>5. CASE OperationSteps BY <1>5, <1>c, OperationStepsLeave
<1>6. CASE Reloads BY <1>6, <1>c, ReloadsLeave
<1>7. CASE RecoverRuntime
  <2>1. /\ tx' = None /\ ~RecoveryActive /\ recovery' # None
        /\ recovery'.phase = "binding" /\ recovery'.tx = tx
    BY <1>7, RecoverRuntimeStep DEF RecoverRuntime
  <2> QED BY <1>0, <1>a, <1>b, <2>1 DEF Owned, Quiet, Claims, RecoveryActive
<1>8. CASE RecoverThirdRuntime BY <1>8, <1>c DEF RecoverThirdRuntime
<1>9. CASE RecoveryBound
  <2>1. /\ tx' = tx /\ recovery' # None
        /\ recovery'.phase = "bound" /\ recovery'.tx = recovery.tx
    BY <1>9, RecoveryPhaseStep DEF RecoveryBound
  <2> QED BY <1>0, <1>a, <1>b, <2>1 DEF Owned, Quiet, Claims, RecoveryActive
<1>10. CASE Reconcile
  <2>1. tx' = tx BY <1>10 DEF Reconcile
  <2>2. recovery.tx # None =>
          RetireRuntimeDone(recovery.tx.env, identity.runtime) /\ identity.runtime # None
    BY <1>0, <1>10, NoneIsNoValue DEF Reconcile, JournalFacts
  <2>3. \A i \in Index : Reserved(i) => ~kept(i)
    BY <2>2 DEF RetireRuntimeDone, Claims, Reserved
  <2> QED BY <1>0, <1>a, <1>b, <2>1, <2>3 DEF Owned, Quiet, Claims
<1>11. CASE Marks BY <1>11, <1>c, MarksLeave
<1>12. CASE CloseReplaced
  <2>1. /\ tx # None => RetireRuntimeDone(tx.env, runtimeEnd)
        /\ recovery # None /\ recovery.tx # None =>
             RetireRuntimeDone(recovery.tx.env, runtimeEnd)
        /\ runtimeEnd # None
    BY <1>12 DEF CloseReplaced, OldClaims
  <2>2. \A i \in Index : ~(entry[i].consumer = Self /\ Reserved(i))
    BY <1>b, <2>1 DEF RetireRuntimeDone, Claims, Reserved, RecoveryActive
  <2> QED BY <1>a, <2>2 DEF Owned
<1>13. CASE CloseEnded
  <2>1. /\ tx # None => RetireProcessDone(tx.env)
        /\ recovery # None /\ recovery.tx # None => RetireProcessDone(recovery.tx.env)
    BY <1>13 DEF CloseEnded, OldClaims
  <2>2. \A i \in Index : ~(entry[i].consumer = Self /\ Reserved(i))
    BY <1>b, <2>1 DEF RetireProcessDone, Claims, Reserved, RecoveryActive
  <2> QED BY <1>a, <2>2 DEF Owned
<1> QED BY <1>1, <1>2, <1>3, <1>4, <1>5, <1>6, <1>7, <1>8, <1>9, <1>10, <1>11, <1>12, <1>13,
           ClosesAre
        DEF JournalStep, Exchanges, Recoveries

-----------------------------------------------------------------------------
(* A Save and the keys.                                                    *)
LEMMA JournalKeyed ==
    ASSUME IInv, JournalFits, TokensGrow, Keyed, JournalStep, sending = "idle"
    PROVE  Keyed'
<1>0. /\ Quiet /\ JournalFacts BY JournalStepQuiet, JournalRead
<1>a. /\ sending' = "idle" /\ sent' = sent /\ input' = input
      /\ \A n, r : Attempted("invoke", n, r)' = Attempted("invoke", n, r)
  BY <1>0 DEF Quiet, Attempted
<1>b. /\ tx # None /\ tx.phase = "intent" => tx.env.nonce \notin sent
      /\ tx # None /\ tx.phase = "published" /\ tx.env.nonce \in sent =>
           \/ Attempted("invoke", tx.env.nonce, tx.env.runtime)
           \/ ReloadActive /\ reload.phase # "binding"
  BY DEF Keyed
<1>c. ASSUME tx' = None PROVE Keyed' BY <1>a, <1>c DEF Keyed
<1>d. ASSUME tx' = tx, ReloadActive /\ reload.phase # "binding" =>
                         ReloadActive' /\ reload'.phase # "binding"
      PROVE  Keyed'
  <2> SUFFICES ASSUME tx # None
               PROVE  /\ tx.phase = "intent" => tx.env.nonce \notin sent
                      /\ tx.phase = "published" /\ tx.env.nonce \in sent =>
                           \/ Attempted("invoke", tx.env.nonce, tx.env.runtime)
                           \/ ReloadActive' /\ reload'.phase # "binding"
    BY <1>a, <1>d DEF Keyed, Attempted
  <2> QED BY <1>b, <1>d
<1>1. CASE Begins
  <2>1. nonces + 1 \notin sent
    BY <1>0 DEF TokensGrow, IInv, BesideTyped, JournalFacts
  <2> QED BY <1>1, <1>a, <2>1, BeginStep DEF Keyed
<1>2. CASE Reallocate
  <2>1. /\ tx.phase = "intent" /\ tx'.phase = "intent" /\ tx'.env.nonce = tx.env.nonce
        /\ tx # None
    BY <1>2, ReallocateStep, TransactionRecord DEF Reallocate, Publishing
  <2> QED BY <1>a, <1>b, <2>1 DEF Keyed
<1>3. CASE RecordPublished
  <2>1. /\ tx.phase = "intent" /\ tx'.env = tx.env /\ tx # None
        /\ tx'.phase = "published"
    BY <1>3, PhaseStep, TransactionRecord
  <2> QED BY <1>a, <1>b, <2>1 DEF Keyed
<1>4. CASE RecordInputAttempted
  <2>1. tx'.phase = "input_attempted"
    BY <1>4, PhaseStep
  <2> QED BY <1>a, <2>1 DEF Keyed
<1>5. CASE ReceiveReceipt
  <2>1. tx'.phase = "received" BY <1>5, ReceiptStep
  <2> QED BY <1>a, <2>1 DEF Keyed
<1>6. CASE Finishes BY <1>6, <1>c, FinishStep
<1>7. CASE OperationSteps BY <1>7, <1>d, OperationStepsLeave DEF ReloadActive
<1>8. CASE SlotReload BY <1>8, <1>c DEF SlotReload, SaveReload
<1>9. CASE AutomaticReload BY <1>9, <1>c DEF AutomaticReload, SaveReload
<1>10. CASE MissingRelease \/ RequestReload
  <2>1. reload' # None /\ reload'.phase = "intent"
    <3>1. PICK a \in BOOLEAN, r \in BOOLEAN : reload' = NewReload(a, FALSE, r)
      <4>1. CASE MissingRelease BY <4>1 DEF MissingRelease, SaveReload
      <4>2. CASE RequestReload
        <5> DEFINE due == tx # None \/ (op # None /\ op.stage # "complete")
        <5>1. reload' = NewReload(FALSE, FALSE, due) /\ due \in BOOLEAN
          BY <4>2, Zenon DEF RequestReload, SaveReload
        <5> HIDE DEF due
        <5> QED BY <5>1
      <4> QED BY <1>10, <4>1, <4>2
    <3> QED BY <3>1, ReloadStart
  <2>2. tx' = tx BY <1>10 DEF MissingRelease, RequestReload, SaveReload
  <2> QED BY <1>d, <2>1, <2>2 DEF ReloadActive
<1>11. CASE RecordReloadAttempted
  <2>1. reload' # None /\ reload'.phase = "input_attempted" /\ tx' = tx
    BY <1>11, ReloadPhaseStep DEF RecordReloadAttempted, SaveReload
  <2> QED BY <1>d, <2>1 DEF ReloadActive
<1>12. CASE ReloadComplete
  BY <1>12, <1>d DEF ReloadComplete, SaveReload
<1>13. CASE RecoverRuntime BY <1>13, <1>c DEF RecoverRuntime
<1>14. CASE RecoverThirdRuntime BY <1>14, <1>c DEF RecoverThirdRuntime
<1>15. CASE RecoveryBound \/ Reconcile
  BY <1>15, <1>d DEF RecoveryBound, Reconcile, ReloadActive
<1>16. CASE Marks BY <1>16, <1>d, MarksLeave DEF ReloadActive
<1>17. CASE CloseReplaced \/ CloseEnded BY <1>17, <1>c, EndedStep
<1> QED BY <1>1, <1>2, <1>3, <1>4, <1>5, <1>6, <1>7, <1>8, <1>9, <1>10, <1>11, <1>12, <1>13,
           <1>14, <1>15, <1>16, <1>17, ClosesAre
        DEF JournalStep, Exchanges, Reloads, Recoveries

-----------------------------------------------------------------------------
(* A Save and the jobs and their runs.                                     *)
LEMMA JournalJobs ==
    ASSUME IInv, JournalFits, DeskAgrees, JobsFit, JournalStep
    PROVE  JobsFit'
<1>0. /\ Quiet /\ JournalFacts BY JournalStepQuiet, JournalRead
<1>a. ASSUME \A t \in Ticket : jobs[t] # None /\ Past(t) => Past(t)'
      PROVE  JobsFit'
  BY <1>0, <1>a DEF JobsFit, Quiet
<1>b. ASSUME op' = op \/ (op # None /\ op' # None /\ SameTicket) PROVE JobsFit'
  <2>1. \A t \in Ticket : Past(t) => Past(t)'
    BY <1>b DEF Past, SameTicket, OpTicket
  <2> QED BY <1>a, <2>1
<1>1. CASE Begins BY <1>1, <1>b, BeginStep
<1>2. CASE Exchanges BY <1>2, <1>b, MarkStep
<1>3. CASE Finishes
  BY <1>3, <1>b, FinishPrepareStep, FinishCommitStep, FinishConfirmStep, FinishReleaseStep,
     FinishReleaseHeldStep, OperationRecord
  DEF Finishes, FinishBind, FinishPrepareCapacity, FinishUnbind
<1>4. CASE CancelPrepared \/ ObserveResult \/ RecordDurable
  BY <1>4, <1>b, CancelPreparedStep, ObserveResultStep, RecordDurableStep, OperationRecord
<1>5. CASE PrepareRequest
  <2>1. op' # None /\ (op # None => op'.id = op.id + 1 /\ op.id \in Nat)
    BY <1>0, <1>5, PrepareRequestStep, OperationRecord DEF JournalFacts
  <2>2. \A t \in Ticket : t[1] \in Nat
    BY DEF Ticket
  <2>3. \A t \in Ticket : Past(t) => Past(t)'
    BY <2>1, <2>2 DEF Past, OpTicket
  <2> QED BY <1>a, <2>3
<1>6. CASE Reloads BY <1>6, <1>b, ReloadsLeave
<1>7. CASE RecoverRuntime \/ RecoverThirdRuntime \/ RecoveryBound
  BY <1>7, <1>b DEF RecoverRuntime, RecoverThirdRuntime, RecoveryBound
<1>8. CASE Reconcile
  <2>1. \A t \in Ticket : jobs[t] = None
    BY <1>8 DEF DeskAgrees, Desk, Reconcile, Recovering, NoJobs
  <2> QED BY <1>a, <2>1
<1>9. CASE Marks BY <1>9, <1>b, MarksLeave
<1>10. CASE CloseReplaced \/ CloseEnded
  <2>1. op = None => op' = None BY <1>10, EndedStep
  <2>2. op # None => op' # None /\ SameTicket BY <1>10, EndedStep, OperationRecord
  <2> QED BY <1>b, <2>1, <2>2
<1> QED BY <1>1, <1>2, <1>3, <1>4, <1>5, <1>6, <1>7, <1>8, <1>9, <1>10, ClosesAre
        DEF JournalStep, OperationSteps, Recoveries

LEMMA JournalRuns ==
    ASSUME IInv, JournalFits, RunsFit, JournalStep
    PROVE  RunsFit'
<1>0. /\ Quiet /\ JournalFacts BY JournalStepQuiet, JournalRead
<1> DEFINE mine ==
      op # None =>
        /\ op.stage \in {"prepared", "cancelled"} => runs[OpTicket] = 0
        /\ op.stage = "commit_ready" /\ runs[OpTicket] # 0 => CommitUnderWay
        /\ policy[op.id] = "opaque" =>
             \A t \in Ticket : t[1] = op.id /\ t[2] < op.attempt => runs[t] = 0
<1>a. mine /\ \A t \in Ticket : runs[t] # 0 => Begun(t)
  BY DEF RunsFit
<1>b. ASSUME \A t \in Ticket : runs[t] # 0 /\ Begun(t) => Begun(t)', mine'
      PROVE  RunsFit'
  BY <1>0, <1>b DEF RunsFit, Quiet
<1>c. ASSUME op' = op, CommitUnderWay => CommitUnderWay' PROVE RunsFit'
  <2>1. \A t \in Ticket : Begun(t) => Begun(t)' BY <1>c DEF Begun
  <2>2. mine' BY <1>0, <1>a, <1>c DEF Quiet, OpTicket
  <2> QED BY <1>b, <2>1, <2>2
<1>d. ASSUME op # None, op' # None, SameTicket,
             op'.stage \in {"prepared", "cancelled", "commit_ready"} =>
               runs[OpTicket] = 0 \/ (op'.stage = "commit_ready" /\ CommitUnderWay')
      PROVE  RunsFit'
  <2>1. \A t \in Ticket : Begun(t) => Begun(t)' BY <1>d DEF Begun, SameTicket
  <2>2. mine' BY <1>0, <1>a, <1>d DEF Quiet, SameTicket
  <2> QED BY <1>b, <2>1, <2>2
<1>1. CASE Begins
  BY <1>1, <1>c, BeginStep DEF CommitUnderWay, Under, RecoveryActive
<1>2. CASE Exchanges
  BY <1>2, <1>c, MarkStep DEF CommitUnderWay, Under, RecoveryActive
<1>3. CASE FinishBind \/ FinishPrepareCapacity \/ FinishUnbind
  <2>1. op' = op /\ ~Under("commit") /\ recovery' = recovery
    BY <1>3 DEF FinishBind, FinishPrepareCapacity, FinishUnbind, FinishTransaction,
                Bound, NoCapacity, Unbound, RefusedFor, Answered, Under
  <2> QED BY <1>c, <2>1 DEF CommitUnderWay, RecoveryActive
<1>4. CASE FinishPrepare
  <2>1. runs[OpTicket] = 0
    BY <1>4, <1>a DEF FinishPrepare, Prepared, Running
  <2> QED BY <1>4, <1>d, <2>1, FinishPrepareStep, OperationRecord
<1>5. CASE FinishCommit \/ FinishConfirm \/ FinishRelease
  BY <1>5, <1>d, FinishCommitStep, FinishConfirmStep, FinishReleaseStep, OperationRecord
<1>6. CASE FinishReleaseHeld
  <2>1. op.stage = "release_ready" BY <1>6 DEF FinishReleaseHeld, StillHeld
  <2> QED BY <1>6, <1>d, <2>1, FinishReleaseHeldStep, OperationRecord
<1>7. CASE CancelPrepared
  <2>1. runs[OpTicket] = 0
    BY <1>7, <1>a DEF CancelPrepared, Running
  <2> QED BY <1>7, <1>d, <2>1, CancelPreparedStep, OperationRecord
<1>8. CASE ObserveResult \/ RecordDurable
  BY <1>8, <1>d, ObserveResultStep, RecordDurableStep, OperationRecord
<1>9. CASE PrepareRequest
  <2>1. /\ op' # None /\ op' \in Operation /\ op'.attempt = 1 /\ op'.stage = "prepared"
        /\ op'.id = IF op = None THEN 1 ELSE op.id + 1
        /\ op # None => op.id \in Nat
    BY <1>0, <1>9, PrepareRequestStep, OperationRecord DEF JournalFacts
  <2>2. \A t \in Ticket : t[1] \in Nat BY DEF Ticket
  <2>3. \A t \in Ticket : runs[t] # 0 => op # None /\ t[1] <= op.id
    BY <1>a, <2>1, <2>2 DEF Begun
  <2>4. \A t \in Ticket : runs[t] # 0 => Begun(t)'
    BY <2>1, <2>2, <2>3 DEF Begun
  <2>5. \A t \in Ticket : t[1] = op'.id => runs[t] = 0
    BY <2>1, <2>2, <2>3
  <2>6. OpTicket' \in Ticket /\ OpTicket'[1] = op'.id
    BY <2>1, OperationRecord DEF OpTicket
  <2>7. mine'
    BY <1>0, <2>1, <2>5, <2>6 DEF Quiet
  <2> QED BY <1>b, <2>4, <2>7
<1>10. CASE Reloads
  BY <1>10, <1>c, ReloadsLeave DEF CommitUnderWay, Under, RecoveryActive
<1>11. CASE RecoverRuntime
  <2>1. /\ op' = op /\ ~RecoveryActive /\ recovery' # None
        /\ recovery'.phase = "binding" /\ recovery'.tx = tx
    BY <1>11, RecoverRuntimeStep DEF RecoverRuntime
  <2> QED BY <1>c, <2>1 DEF CommitUnderWay, Under, RecoveryActive
<1>12. CASE RecoverThirdRuntime
  BY <1>12, <1>c DEF RecoverThirdRuntime, CommitUnderWay, Under, RecoveryActive
<1>13. CASE RecoveryBound
  <2>1. /\ op' = op /\ tx' = tx /\ recovery' # None
        /\ recovery'.phase = "bound" /\ recovery'.tx = recovery.tx
    BY <1>13, RecoveryPhaseStep DEF RecoveryBound
  <2> QED BY <1>c, <2>1 DEF CommitUnderWay, Under, RecoveryActive
<1>14. CASE Reconcile
  <2>0. ~Under("commit")
    BY <1>14 DEF Reconcile, Recovering, JournalFits, Exchanging, Under
  <2>1. op # None /\ NeverCommitted => runs[OpTicket] = 0
    BY <1>a, <2>0 DEF NeverCommitted, CommitUnderWay
  <2>2. CASE OpSettled
    <3>1. op' = op /\ (op # None => op.stage # "commit_ready")
      BY <1>14, <2>2, ReconcileStep DEF OpSettled
    <3>2. CASE op = None BY <1>0, <1>a, <1>b, <3>1, <3>2 DEF Begun
    <3>3. CASE op # None BY <1>a, <1>d, <3>1, <3>3 DEF SameTicket, OpTicket
    <3> QED BY <3>2, <3>3
  <2>3. CASE ~OpSettled
    <3>1. /\ op \in Operation /\ op' \in Operation /\ op # None /\ op' # None
          /\ op.attempt \in Nat /\ op.id \in Nat
      BY <1>14, <2>3, ReconcileStep, OperationRecord
    <3>2. CASE Destroyed \/ GivenUp
      BY <1>d, <3>1, <3>2 DEF Destroyed, GivenUp
    <3>3. CASE Abandoned
      BY <1>d, <2>1, <3>1, <3>3 DEF Abandoned
    <3>4. CASE Again
      <4>1. \A t \in Ticket : t[1] \in Nat /\ t[2] \in Nat BY DEF Ticket
      <4>2. \A t \in Ticket : Begun(t) => Begun(t)'
        BY <3>1, <3>4, <4>1 DEF Begun, Again
      <4>3. OpTicket' \in Ticket /\ OpTicket'[1] = op.id /\ OpTicket'[2] = op.attempt + 1
        BY <3>1, <3>4, OperationRecord DEF OpTicket, Again
      <4>4. runs[OpTicket'] = 0
        BY <1>a, <3>1, <4>3 DEF Begun
      <4>5. ASSUME policy[op.id] = "opaque", NEW t \in Ticket, t[1] = op.id,
                   t[2] < op.attempt + 1
            PROVE  runs[t] = 0
        <5>1. CASE t[2] < op.attempt BY <1>a, <3>1, <4>5, <5>1
        <5>2. CASE t[2] = op.attempt
          <6>1. t = OpTicket BY <4>5, <5>2 DEF OpTicket, Ticket
          <6> QED BY <2>1, <3>1, <3>4, <4>5, <6>1 DEF Again
        <5> QED BY <3>1, <4>1, <4>5, <5>1, <5>2
      <4>6. mine'
        BY <1>0, <3>1, <3>4, <4>4, <4>5 DEF Quiet, Again
      <4> QED BY <1>b, <4>2, <4>6
    <3> QED BY <1>14, <2>3, <3>2, <3>3, <3>4, ReconcileStep
  <2> QED BY <2>2, <2>3
<1>15. CASE Marks
  BY <1>15, <1>c, MarksLeave DEF CommitUnderWay, Under, RecoveryActive
<1>16. CASE CloseReplaced \/ CloseEnded
  <2>1. CASE op = None
    <3>1. op' = None BY <1>16, <2>1, EndedStep
    <3> QED BY <1>a, <1>b, <2>1, <3>1 DEF Begun
  <2>2. CASE op # None
    <3>1. /\ op' # None /\ SameTicket
          /\ op' = op \/ op'.stage \in {"complete", "execution_unknown"}
      BY <1>16, <2>2, EndedStep, OperationRecord
    <3>2. op' = op => op.stage # "commit_ready"
      BY <1>16, <2>2, EndedStep
    <3> QED BY <1>a, <1>d, <2>2, <3>1, <3>2
  <2> QED BY <2>1, <2>2
<1> QED BY <1>1, <1>2, <1>3, <1>4, <1>5, <1>6, <1>7, <1>8, <1>9, <1>10, <1>11, <1>12, <1>13,
           <1>14, <1>15, <1>16, ClosesAre
        DEF JournalStep, Finishes, OperationSteps, Recoveries

-----------------------------------------------------------------------------
(* A Save and the desk of the engine.                                      *)
(* The same operation at the same stage finds the same things there.       *)
LEMMA QuietDesk ==
    ASSUME Quiet
    PROVE  /\ NoJobs' = NoJobs /\ Idle' = Idle
           /\ OpTicket' = OpTicket => \A n, S : /\ JobIs(n, S)' = JobIs(n, S)
                                                /\ Waiting(n)' = Waiting(n)
                                                /\ InHand(n, S)' = InHand(n, S)
                                                /\ Unrun(n)' = Unrun(n)
BY DEF Quiet, NoJobs, Idle, JobIs, Waiting, InHand, Unrun

LEMMA QuietStage ==
    ASSUME Quiet, op' = op
    PROVE  StageDesk' = StageDesk
BY DEF Quiet, StageDesk, Idle, JobIs, Waiting, InHand, Unrun, Held, OpSettled, OpTicket

LEMMA QuietAnswer ==
    ASSUME Quiet, op' = op, tx # None, tx' # None, tx'.env.nonce = tx.env.nonce,
           tx'.env.action = tx.env.action, NEW r, AnswerDesk(r)
    PROVE  AnswerDesk(r)'
BY DEF Quiet, AnswerDesk, Under, Idle, JobIs, Waiting, InHand, Unrun, Held, OpTicket

LEMMA DeskFrame ==
    ASSUME Quiet, DeskAgrees, UNCHANGED <<identity, bound, tx, op, recovery>>
    PROVE  DeskAgrees'
<1>1. Desk' /\ Here' = Here
  BY DEF Quiet, DeskAgrees, Desk, Here, NoJobs, Idle, RecoveryActive
<1>2. NoStrayRefusal' BY DEF Quiet, DeskAgrees, Desk, NoStrayRefusal
<1>3. ASSUME Bench PROVE Bench'
  <2>1. StageDesk' = StageDesk BY QuietStage
  <2>2. tx # None => \A r : AnswerDesk(r) => AnswerDesk(r)' BY QuietAnswer
  <2> QED BY <1>3, <2>1, <2>2
          DEF Quiet, Bench, Binding, Working, Under, Seen, RecoveryActive
<1> QED BY <1>1, <1>2, <1>3 DEF DeskAgrees

LEMMA BeginsDesk ==
    ASSUME IInv, JournalFits, TokensGrow, DeskAgrees, Begins
    PROVE  DeskAgrees'
<1>0. Quiet /\ JournalFacts BY JournalStepQuiet, JournalRead DEF JournalStep
<1>1. /\ tx = None /\ tx' # None /\ tx'.rcpt = None /\ tx'.env.nonce = nonces + 1
      /\ UNCHANGED <<identity, bound, op, recovery>>
  BY BeginStep
<1>2. \A r \in receipts : r.nonce # nonces + 1
  BY <1>0 DEF TokensGrow, IInv, EngineDesk, Receipt, JournalFacts
<1>3. ~Seen' BY <1>0, <1>1, <1>2 DEF Seen, Quiet
<1>4. Desk' /\ Here' = Here
  BY <1>0, <1>1 DEF Quiet, DeskAgrees, Desk, Here, NoJobs, Idle, RecoveryActive
<1>5. NoStrayRefusal' BY <1>1 DEF NoStrayRefusal
<1>6. ASSUME Bench PROVE Bench'
  <2>1. StageDesk' = StageDesk BY <1>0, <1>1, QuietStage
  <2> QED BY <1>0, <1>1, <1>2, <1>3, <1>6, <2>1
          DEF Quiet, Bench, Binding, Working, Under, RecoveryActive
<1> QED BY <1>4, <1>5, <1>6 DEF DeskAgrees

LEMMA ExchangesDesk ==
    ASSUME IInv, JournalFits, DeskAgrees, Exchanges
    PROVE  DeskAgrees'
<1>0. Quiet /\ JournalFacts BY JournalStepQuiet, JournalRead DEF JournalStep
<1>1. /\ tx # None /\ tx' # None /\ tx'.env.nonce = tx.env.nonce
      /\ tx'.env.action = tx.env.action /\ tx'.env.ticket = tx.env.ticket
      /\ UNCHANGED <<identity, bound, op, recovery>> /\ alive
      /\ ~ReceiveReceipt => tx'.rcpt = tx.rcpt
  BY MarkStep
<1>2. Desk' /\ Here' = Here
  BY <1>0, <1>1 DEF Quiet, DeskAgrees, Desk, Here, NoJobs, Idle, RecoveryActive
<1>3. ASSUME ReceiveReceipt PROVE Here /\ tx'.rcpt \in receipts /\ tx'.rcpt.nonce = tx.env.nonce
  BY <1>0, <1>1, <1>3, ReceiptStep DEF ReceiveReceipt, JournalFits, Exchanging, Here
<1>4. ASSUME Bench
      PROVE  Bench' /\ (ReceiveReceipt => AnswerDesk(tx'.rcpt))
  <2>1. StageDesk' = StageDesk BY <1>0, <1>1, QuietStage
  <2>2. \A r : AnswerDesk(r) => AnswerDesk(r)' BY <1>0, <1>1, QuietAnswer
  <2>3. Seen' = Seen BY <1>0, <1>1 DEF Seen, Quiet
  <2>4. ReceiveReceipt => Seen /\ AnswerDesk(tx'.rcpt) BY <1>1, <1>3, <1>4 DEF Seen, Bench
  <2> QED BY <1>0, <1>1, <1>4, <2>1, <2>2, <2>3, <2>4
          DEF Quiet, Bench, Binding, Working, Under, RecoveryActive
<1>5. NoStrayRefusal'
  <2>1. CASE ReceiveReceipt
    <3>1. AnswerDesk(tx'.rcpt) BY <1>3, <1>4, <2>1 DEF DeskAgrees
    <3>2. /\ tx.env.action \in {"bind", "prepare", "commit", "confirm", "release", "unbind"}
          /\ tx.env.action = "commit" => tx.env.ticket = OpTicket
      BY <1>0, <1>1, EnvelopeRecord DEF JournalFits, Exchanging, Fits, JournalFacts, Action
    <3> QED BY <1>0, <1>1, <3>1, <3>2 DEF NoStrayRefusal, AnswerDesk, Under, Quiet, Unrun
  <2>2. CASE ~ReceiveReceipt
    BY <1>0, <1>1, <2>2 DEF DeskAgrees, Desk, NoStrayRefusal, Quiet
  <2> QED BY <2>1, <2>2
<1> QED BY <1>2, <1>4, <1>5 DEF DeskAgrees

LEMMA FinishesDesk ==
    ASSUME IInv, JournalFits, DeskAgrees, Finishes
    PROVE  DeskAgrees'
<1>0. Quiet /\ JournalFacts BY JournalStepQuiet, JournalRead DEF JournalStep
<1>1. /\ tx # None /\ tx.rcpt # None /\ tx' = None /\ identity'.runtime = identity.runtime
      /\ UNCHANGED recovery
  BY FinishStep
<1>2. Desk' /\ Here' = Here
  BY <1>0, <1>1 DEF Quiet, DeskAgrees, Desk, Here, NoJobs, Idle, RecoveryActive
<1>3. NoStrayRefusal' BY <1>1 DEF NoStrayRefusal
<1>4. ASSUME Here, owner = (IF bound' THEN Self ELSE None), ~RecoveryActive => StageDesk'
      PROVE  DeskAgrees'
  <2>1. Bench' BY <1>0, <1>1, <1>4 DEF Bench, Quiet, Binding, Working, Under, RecoveryActive
  <2> QED BY <1>2, <1>3, <2>1 DEF DeskAgrees
<1>5. ASSUME ~Here PROVE DeskAgrees' BY <1>2, <1>3, <1>5 DEF DeskAgrees
<1> SUFFICES ASSUME Here PROVE DeskAgrees' BY <1>5
<1>6. Bench /\ AnswerDesk(tx.rcpt) BY <1>1 DEF DeskAgrees, Bench
<1>7. ASSUME ~Binding PROVE owner = IF bound THEN Self ELSE None
  BY <1>6, <1>7 DEF Bench
<1>8. ASSUME ~Working, ~RecoveryActive PROVE StageDesk BY <1>6, <1>8 DEF Bench
<1> USE DEF Answered, RefusedFor, Running, Scheduled
<1>9. CASE FinishBind \/ FinishUnbind
  <2>1. /\ Under("bind") \/ Under("unbind")
        /\ Under("bind") => bound' = TRUE
        /\ Under("unbind") => bound' = FALSE
        /\ op' = op
    BY <1>9 DEF FinishBind, FinishUnbind, Bound, Unbound, Under
  <2>2. owner = IF bound' THEN Self ELSE None BY <1>6, <2>1 DEF AnswerDesk
  <2>3. ~RecoveryActive => StageDesk'
    BY <1>0, <1>8, <2>1, QuietStage DEF Working, Under
  <2> QED BY <1>4, <2>2, <2>3
<1>10. CASE FinishPrepare
  <2>1. /\ Under("prepare") /\ tx.rcpt.state \in {"prepared", "reported"}
        /\ bound' = bound /\ op' # None /\ OpTicket' = OpTicket
        /\ op'.prep = tx.env.nonce
        /\ op'.stage = IF tx.rcpt.state = "reported" THEN "running" ELSE "commit_ready"
    BY <1>1, <1>10, FinishPrepareStep, OperationRecord
       DEF FinishPrepare, Prepared, Under, SameTicket
  <2>2. \/ tx.rcpt.state = "prepared" /\ (Waiting(op'.prep) \/ Unrun(op'.prep))
        \/ tx.rcpt.state = "reported" /\ Unrun(op'.prep)
    BY <1>6, <2>1 DEF AnswerDesk
  <2>3. StageDesk'
    BY <1>0, <2>1, <2>2 DEF StageDesk, OpSettled, Quiet, Waiting, Unrun, InHand, JobIs
  <2> QED BY <1>4, <1>7, <2>1, <2>3 DEF Binding, Under
<1>11. CASE FinishPrepareCapacity
  <2>1. /\ Under("prepare") /\ tx.rcpt.state = "rejected" /\ op # None
        /\ op.stage = "prepared" /\ bound' = bound /\ op' = op
    BY <1>11 DEF FinishPrepareCapacity, NoCapacity, Under
  <2>2. Idle /\ jobs[OpTicket] = None BY <1>6, <2>1 DEF AnswerDesk
  <2>3. StageDesk BY <2>1, <2>2 DEF StageDesk, OpSettled
  <2>4. StageDesk' BY <1>0, <2>1, <2>3, QuietStage
  <2> QED BY <1>4, <1>7, <2>1, <2>4 DEF Binding, Under
<1>12. CASE FinishCommit
  <2>1. /\ Under("commit") /\ tx.rcpt.state = "accepted"
        /\ bound' = bound /\ op' # None /\ OpTicket' = OpTicket
        /\ op'.prep = op.prep /\ op'.stage = "running"
    BY <1>1, <1>12, FinishCommitStep, OperationRecord
       DEF FinishCommit, Accepted, Under, SameTicket
  <2>2. InHand(op'.prep, {"running", "reported"})
    BY <1>6, <2>1 DEF AnswerDesk
  <2>3. StageDesk'
    BY <1>0, <2>1, <2>2 DEF StageDesk, OpSettled, Quiet, InHand, JobIs
  <2> QED BY <1>4, <1>7, <2>1, <2>3 DEF Binding, Under
<1>13. CASE FinishConfirm
  <2>1. /\ Under("confirm") /\ ~RecoveryActive /\ op # None /\ op.stage = "confirm_ready"
        /\ bound' = bound /\ op' # None /\ OpTicket' = OpTicket
        /\ op'.prep = op.prep /\ op'.report = op.report /\ op'.stage = "result_verified"
    BY <1>1, <1>13, FinishConfirmStep, OperationRecord
       DEF FinishConfirm, Confirmed, Under, SameTicket
  <2>2. Held BY <1>8, <2>1 DEF StageDesk, Working, Under
  <2>3. StageDesk'
    BY <1>0, <2>1, <2>2 DEF StageDesk, OpSettled, Quiet, Held, InHand, JobIs
  <2> QED BY <1>4, <1>7, <2>1, <2>3 DEF Binding, Under
<1>14. CASE FinishRelease
  <2>1. /\ Under("release") /\ tx.rcpt.state = "released"
        /\ bound' = bound /\ op' # None /\ op'.stage = "complete"
    BY <1>1, <1>14, FinishReleaseStep, OperationRecord
       DEF FinishRelease, Released, Under
  <2>2. Idle BY <1>6, <2>1 DEF AnswerDesk
  <2>3. StageDesk' BY <1>0, <2>1, <2>2 DEF StageDesk, Quiet, Idle
  <2> QED BY <1>4, <1>7, <2>1, <2>3 DEF Binding, Under
<1>15. CASE FinishReleaseHeld
  <2>1. /\ Under("release") /\ tx.rcpt.state = "rejected" /\ op.stage = "release_ready"
        /\ bound' = bound /\ op' # None /\ OpTicket' = OpTicket
        /\ op'.prep = op.prep /\ op'.report = op.report /\ op'.stage = "release_ready"
    BY <1>1, <1>15, FinishReleaseHeldStep, OperationRecord
       DEF FinishReleaseHeld, StillHeld, Under, SameTicket
  <2>2. Held BY <1>6, <2>1 DEF AnswerDesk
  <2>3. StageDesk'
    BY <1>0, <2>1, <2>2 DEF StageDesk, OpSettled, Quiet, Held, InHand, JobIs
  <2> QED BY <1>4, <1>7, <2>1, <2>3 DEF Binding, Under
<1> QED BY <1>9, <1>10, <1>11, <1>12, <1>13, <1>14, <1>15 DEF Finishes

LEMMA OperationsDesk ==
    ASSUME IInv, JournalFits, DeskAgrees, JobsFit, OperationSteps
    PROVE  DeskAgrees'
<1>0. Quiet /\ JournalFacts BY JournalStepQuiet, JournalRead DEF JournalStep
<1>1. UNCHANGED <<identity, bound, tx, recovery>> BY OperationStepsLeave
<1>2. tx = None /\ Scheduled
  BY DEF OperationSteps, PrepareRequest, CancelPrepared, ObserveResult, RecordDurable, Running
<1>3. Desk' /\ Here' = Here
  BY <1>0, <1>1 DEF Quiet, DeskAgrees, Desk, Here, NoJobs, Idle, RecoveryActive
<1>4. NoStrayRefusal' BY <1>1, <1>2 DEF NoStrayRefusal
<1>5. ASSUME Here => StageDesk'
      PROVE  DeskAgrees'
  <2>1. Here => Bench'
    BY <1>0, <1>1, <1>2, <1>5
       DEF DeskAgrees, Bench, Quiet, Binding, Working, Under, RecoveryActive
  <2> QED BY <1>3, <1>4, <2>1 DEF DeskAgrees
<1> SUFFICES ASSUME Here PROVE StageDesk' BY <1>5
<1>6. StageDesk BY <1>2 DEF DeskAgrees, Bench, Working, Under, Scheduled
<1>7. CASE PrepareRequest
  <2>1. OpSettled BY <1>7 DEF PrepareRequest, OpSettled
  <2>2. Idle BY <1>6, <2>1 DEF StageDesk
  <2>3. /\ op' # None /\ op' \in Operation /\ op'.stage = "prepared"
        /\ op'.id = IF op = None THEN 1 ELSE op.id + 1
        /\ op # None => op.id \in Nat
    BY <1>0, <1>7, PrepareRequestStep, OperationRecord DEF JournalFacts
  <2>4. OpTicket' \in Ticket /\ OpTicket'[1] = op'.id
    BY <2>3, OperationRecord DEF OpTicket
  <2>5. ~Past(OpTicket') BY <2>3, <2>4 DEF Past, OpTicket
  <2>6. jobs[OpTicket'] = None BY <2>4, <2>5 DEF JobsFit
  <2> QED BY <1>0, <2>2, <2>3, <2>6 DEF StageDesk, OpSettled, Quiet, Idle
<1>8. CASE CancelPrepared
  <2>1. Idle BY <1>6, <1>8 DEF CancelPrepared, Running, StageDesk
  <2> QED BY <1>0, <1>8, <2>1, CancelPreparedStep, OperationRecord
          DEF StageDesk, OpSettled, Quiet, Idle
<1>9. CASE ObserveResult
  <2>1. /\ op # None /\ op' # None /\ OpTicket' = OpTicket /\ op'.prep = op.prep
        /\ op'.stage = "confirm_ready" /\ OpTicket \in Ticket
        /\ jobs[OpTicket] # None /\ jobs[OpTicket].state = "reported"
    BY <1>9, ObserveResultStep, OperationRecord DEF SameTicket, OpTicket
  <2>2. InHand(op.prep, {"running", "reported"})
    BY <1>6, <1>9, <2>1 DEF ObserveResult, StageDesk
  <2>3. jobs[OpTicket].report = op'.report
    BY <1>9, ObserveResultStep DEF JobsFit
  <2> QED BY <1>0, <2>1, <2>2, <2>3 DEF StageDesk, OpSettled, Quiet, Held, InHand, JobIs
<1>10. CASE RecordDurable
  <2>1. /\ op # None /\ op' # None /\ OpTicket' = OpTicket /\ op'.prep = op.prep
        /\ op'.report = op.report /\ op'.stage = "release_ready"
    BY <1>10, RecordDurableStep, OperationRecord DEF SameTicket
  <2>2. Held BY <1>6, <1>10, <2>1 DEF RecordDurable, StageDesk
  <2> QED BY <1>0, <2>1, <2>2 DEF StageDesk, OpSettled, Quiet, Held, InHand, JobIs
<1> QED BY <1>7, <1>8, <1>9, <1>10 DEF OperationSteps

LEMMA RecoveriesDesk ==
    ASSUME IInv, JournalFits, EndFits, DeskAgrees, Recoveries
    PROVE  DeskAgrees'
<1>0. Quiet /\ JournalFacts BY JournalStepQuiet, JournalRead DEF JournalStep
<1>1. CASE RecoverRuntime \/ RecoverThirdRuntime
  <2>1. /\ live > identity.runtime /\ identity'.runtime = live /\ tx' = None
        /\ recovery' # None /\ recovery'.phase = "binding" /\ ~bound'
    <3>1. CASE RecoverRuntime
      BY <3>1, RecoverRuntimeStep DEF RecoverRuntime, Candidate
    <3>2. CASE RecoverThirdRuntime
      BY <3>2, ThirdRuntimeStep DEF RecoverThirdRuntime, Candidate, RecoveryActive
    <3> QED BY <1>1, <3>1, <3>2
  <2>2. NoJobs /\ owner = None /\ receipts = {}
    BY <2>1 DEF DeskAgrees, Desk
  <2>3. Desk'
    BY <1>0, <2>1, <2>2 DEF Desk, Quiet, NoJobs, Idle, JournalFacts
  <2>4. Bench' BY <1>0, <2>1, <2>2 DEF Bench, Quiet, RecoveryActive
  <2>5. NoStrayRefusal' BY <2>1 DEF NoStrayRefusal
  <2> QED BY <2>3, <2>4, <2>5 DEF DeskAgrees
<1>2. CASE RecoveryBound \/ Reconcile
  <2>1. /\ UNCHANGED <<identity, bound, tx>> /\ RecoveryActive
        /\ Reconcile => bound /\ tx = None
    BY <1>2 DEF RecoveryBound, Reconcile, Recovering, RecoveryActive, JournalFits, Exchanging,
                RecoveryFits
  <2>2. NoJobs BY <2>1 DEF DeskAgrees, Desk
  <2>3. Desk' /\ Here' = Here
    BY <1>0, <2>1, <2>2 DEF DeskAgrees, Desk, Quiet, NoJobs, Idle, Here
  <2>4. NoStrayRefusal' BY <1>0, <2>1 DEF DeskAgrees, Desk, NoStrayRefusal, Quiet
  <2>5. ASSUME Here PROVE Bench'
    <3>1. Bench BY <2>5 DEF DeskAgrees
    <3>2. CASE RecoveryBound
      <4>1. op' = op /\ RecoveryActive'
        BY <3>2, RecoveryPhaseStep DEF RecoveryBound, RecoveryActive
      <4>2. tx # None => \A r : AnswerDesk(r) => AnswerDesk(r)'
        BY <1>0, <2>1, <4>1, QuietAnswer
      <4> QED BY <1>0, <2>1, <3>1, <4>1, <4>2
              DEF Bench, Quiet, Binding, Working, Under, Seen
    <3>3. CASE Reconcile
      <4>1. \A t \in Ticket : jobs[t] = None BY <2>2 DEF NoJobs
      <4>2. op' # None => OpTicket' \in Ticket
        <5>1. op' \in Operation \cup {None}
          BY RecoveryStepsTyped DEF Recoveries, IInv, JournalTyped
        <5> QED BY <5>1, OperationRecord DEF OpTicket
      <4>3. op' # None => op'.stage \in {"complete", "cancelled", "execution_unknown", "prepared"}
        BY <3>3, ReconcileStep
           DEF OpSettled, Destroyed, Abandoned, Again, GivenUp
      <4>4. StageDesk'
        BY <1>0, <2>2, <4>1, <4>2, <4>3 DEF StageDesk, OpSettled, Quiet, NoJobs, Idle
      <4> QED BY <1>0, <2>1, <3>1, <3>3, <4>4
              DEF Bench, Quiet, Binding, Working, Under, Seen
    <3> QED BY <1>2, <3>2, <3>3
  <2> QED BY <2>3, <2>4, <2>5 DEF DeskAgrees
<1> QED BY <1>1, <1>2 DEF Recoveries

LEMMA JournalDesk ==
    ASSUME IInv, JournalFits, EndFits, TokensGrow, DeskAgrees, JobsFit, JournalStep
    PROVE  DeskAgrees'
<1>0. Quiet /\ JournalFacts BY JournalStepQuiet, JournalRead
<1>1. CASE Begins BY <1>1, BeginsDesk
<1>2. CASE Exchanges BY <1>2, ExchangesDesk
<1>3. CASE Finishes BY <1>3, FinishesDesk
<1>4. CASE OperationSteps BY <1>4, OperationsDesk
<1>5. CASE Reloads BY <1>0, <1>5, ReloadsLeave, DeskFrame
<1>6. CASE Recoveries BY <1>6, RecoveriesDesk
<1>7. CASE Marks BY <1>0, <1>7, MarksLeave, DeskFrame
<1>8. CASE CloseReplaced \/ CloseEnded
  <2>1. tx' = None /\ recovery' = None /\ identity' = identity
    BY <1>8, EndedStep
  <2>2. ~Here
    <3>1. CASE CloseReplaced
      BY <1>0, <3>1 DEF CloseReplaced, EndFits, Here, JournalFacts
    <3>2. CASE CloseEnded BY <3>2 DEF CloseEnded, EndFits, Here
    <3> QED BY <1>8, <3>1, <3>2
  <2>3. Desk' /\ ~Here'
    BY <1>0, <2>1, <2>2 DEF DeskAgrees, Desk, Quiet, NoJobs, Idle, Here, RecoveryActive
  <2>4. NoStrayRefusal' BY <2>1 DEF NoStrayRefusal
  <2> QED BY <2>3, <2>4 DEF DeskAgrees
<1> QED BY <1>1, <1>2, <1>3, <1>4, <1>5, <1>6, <1>7, <1>8, ClosesAre DEF JournalStep

-----------------------------------------------------------------------------
(* The results, and what a reload may destroy, at a Save.                  *)
LEMMA JournalResults ==
    ASSUME IInv, JournalFits, JobsFit, ResultsFit, JournalStep
    PROVE  ResultsFit'
<1>0. /\ Quiet /\ JournalFacts BY JournalStepQuiet, JournalRead
<1> DEFINE verified == {"confirm_ready", "result_verified", "release_ready", "complete"}
<1> DEFINE written == {"result_verified", "release_ready", "complete"}
<1>a. ASSUME op' = op, closed => closed' PROVE ResultsFit'
  BY <1>0, <1>a DEF ResultsFit, Quiet, OpTicket
<1>b. ASSUME op # None, op' # None, SameTicket, op'.report = op.report,
             op'.stage \in verified => op.stage \in verified,
             op.stage \in written => op'.stage \in written,
             op'.stage = "release_ready" \/ (op'.stage = "complete" /\ ~closed') =>
               results[op.id] = op.report
      PROVE  ResultsFit'
  BY <1>0, <1>b DEF ResultsFit, Quiet, SameTicket
<1>1. CASE Begins BY <1>1, <1>a, BeginStep DEF control
<1>2. CASE Exchanges BY <1>2, <1>a, MarkStep
<1>3. CASE FinishBind \/ FinishPrepareCapacity \/ FinishUnbind
  <2>1. op' = op /\ closed' = closed
    BY <1>3 DEF FinishBind, FinishPrepareCapacity, FinishUnbind, FinishTransaction, control
  <2> QED BY <1>a, <2>1
<1>4. CASE FinishPrepare
  <2>1. op.stage = "prepared" BY <1>4 DEF FinishPrepare, Prepared
  <2> QED BY <1>4, <1>b, <2>1, FinishPrepareStep, OperationRecord
<1>5. CASE FinishCommit
  <2>1. op.stage = "commit_ready" BY <1>5 DEF FinishCommit, Accepted
  <2> QED BY <1>5, <1>b, <2>1, FinishCommitStep, OperationRecord
<1>6. CASE FinishConfirm
  <2>1. op.stage = "confirm_ready" BY <1>6 DEF FinishConfirm, Confirmed
  <2> QED BY <1>6, <1>b, <2>1, FinishConfirmStep, OperationRecord
<1>7. CASE FinishRelease
  <2>1. op.stage = "release_ready" BY <1>7 DEF FinishRelease, Released
  <2> QED BY <1>7, <1>b, <2>1, FinishReleaseStep, OperationRecord DEF ResultsFit
<1>8. CASE FinishReleaseHeld
  <2>1. op.stage = "release_ready" BY <1>8 DEF FinishReleaseHeld, StillHeld
  <2> QED BY <1>8, <1>b, <2>1, FinishReleaseHeldStep, OperationRecord DEF ResultsFit
<1>9. CASE CancelPrepared
  <2>1. op.stage = "prepared" BY <1>9 DEF CancelPrepared
  <2> QED BY <1>9, <1>b, <2>1, CancelPreparedStep, OperationRecord
<1>10. CASE RecordDurable
  <2>1. op.stage = "result_verified" /\ results[op.id] = op.report
    BY <1>10 DEF RecordDurable
  <2> QED BY <1>10, <1>b, <2>1, RecordDurableStep, OperationRecord
<1>11. CASE ObserveResult
  <2>1. op.stage = "running" BY <1>11 DEF ObserveResult
  <2>2. /\ op # None /\ op' # None /\ SameTicket /\ op'.stage = "confirm_ready"
        /\ OpTicket \in Ticket /\ jobs[OpTicket] # None /\ jobs[OpTicket].state = "reported"
        /\ op'.report = jobs[OpTicket].report
    BY <1>11, ObserveResultStep, OperationRecord DEF JobsFit, OpTicket
  <2>3. op'.report = outcome[OpTicket] /\ op'.report # None
    BY <2>2 DEF JobsFit
  <2> QED BY <1>0, <2>1, <2>2, <2>3 DEF ResultsFit, Quiet, SameTicket
<1>12. CASE PrepareRequest
  <2>1. /\ op' # None /\ op' \in Operation /\ op'.stage = "prepared"
        /\ op'.id = IF op = None THEN 1 ELSE op.id + 1
        /\ op # None => op.id \in Operations
    BY <1>0, <1>12, PrepareRequestStep, OperationRecord DEF JournalFacts
  <2>2. ~closed /\ (op # None => op.stage = "complete")
    BY <1>12 DEF PrepareRequest, Scheduled, Admitted
  <2>3. op # None => results[op.id] # None
    BY <2>2 DEF ResultsFit
  <2>4. \A o \in Operations : o \in Nat /\ o >= 1 BY DEF Operations
  <2>5. \A o \in Operations : results[o] # None => op # None /\ o <= op.id
    BY DEF ResultsFit
  <2>6. op'.id \in Operations BY <2>1, OperationRecord
  <2>7. results[op'.id] = None
    BY <2>1, <2>4, <2>5, <2>6
  <2>8. \A o \in Operations : o < op'.id => results[o] # None
    <3> SUFFICES ASSUME NEW o \in Operations, o < op'.id PROVE results[o] # None OBVIOUS
    <3>1. op # None BY <2>1, <2>4
    <3>2. CASE o = op.id BY <2>3, <3>1, <3>2
    <3>3. CASE o < op.id BY <3>1, <3>3 DEF ResultsFit
    <3> QED BY <2>1, <2>4, <3>1, <3>2, <3>3
  <2>9. \A o \in Operations : results[o] # None => o <= op'.id
    BY <2>1, <2>4, <2>5
  <2> QED BY <1>0, <2>1, <2>7, <2>8, <2>9 DEF ResultsFit, Quiet
<1>13. CASE Reloads BY <1>13, <1>a, ReloadsLeave
<1>14. CASE RecoverRuntime \/ RecoverThirdRuntime \/ RecoveryBound
  BY <1>14, <1>a DEF RecoverRuntime, RecoverThirdRuntime, RecoveryBound, control
<1>15. CASE Reconcile
  <2>1. closed' = closed BY <1>15 DEF Reconcile, control
  <2>2. CASE OpSettled BY <1>15, <1>a, <2>1, <2>2, ReconcileStep
  <2>3. CASE ~OpSettled
    <3>1. /\ op \in Operation /\ op' \in Operation /\ op # None /\ op' # None
          /\ op.attempt \in Nat /\ op.id \in Operations
      BY <1>15, <2>3, ReconcileStep, OperationRecord
    <3>2. CASE Destroyed
      <4>1. results[op.id] = op.report
        BY <1>15, <3>1, <3>2 DEF Reconcile, Destroyed
      <4> QED BY <1>b, <3>1, <3>2, <4>1 DEF Destroyed
    <3>3. ASSUME op.stage \notin {"result_verified", "release_ready"}
          PROVE  op.stage \notin written
      BY <2>3, <3>3 DEF OpSettled
    <3>4. CASE op.stage \notin written /\ (Abandoned \/ GivenUp)
      BY <1>b, <3>1, <3>4 DEF Abandoned, GivenUp
    <3>5. CASE op.stage \notin written /\ Again
      <4>1. results[op.id] = None BY <3>1, <3>5 DEF ResultsFit
      <4> QED BY <1>0, <3>1, <3>5, <4>1 DEF ResultsFit, Quiet, Again
    <3> QED BY <1>15, <2>3, <3>2, <3>3, <3>4, <3>5, ReconcileStep
  <2> QED BY <2>2, <2>3
<1>16. CASE Marks
  <2>1. closed => closed'
    BY <1>16 DEF Marks, RequestClose, CloseConnection, ObserveReplacement, ObserveProcessEnd
  <2> QED BY <1>16, <1>a, <2>1, MarksLeave
<1>17. CASE CloseReplaced \/ CloseEnded
  <2>1. closed' BY <1>17, EndedStep
  <2>2. CASE op = None BY <1>17, <1>a, <2>1, <2>2, EndedStep
  <2>3. CASE op # None
    <3>1. /\ op' # None /\ SameTicket /\ op'.report = op.report
      BY <1>17, <2>3, EndedStep, OperationRecord
    <3>2. CASE op' = op BY <1>a, <2>1, <3>2
    <3>3. CASE /\ op.stage \in {"result_verified", "release_ready"}
               /\ op'.stage = "complete"
      BY <1>b, <2>1, <2>3, <3>1, <3>3
    <3>4. CASE /\ op.stage \notin {"complete", "cancelled", "result_verified", "release_ready"}
               /\ op'.stage = "execution_unknown"
      BY <1>b, <2>1, <2>3, <3>1, <3>4
    <3> QED BY <1>17, <2>3, <3>2, <3>3, <3>4, EndedStep
  <2> QED BY <2>2, <2>3
<1> QED BY <1>1, <1>2, <1>3, <1>4, <1>5, <1>6, <1>7, <1>8, <1>9, <1>10, <1>11, <1>12, <1>13,
           <1>14, <1>15, <1>16, <1>17, ClosesAre
        DEF JournalStep, Finishes, OperationSteps, Recoveries

LEMMA JournalAutomatic ==
    ASSUME IInv, JournalFits, AutomaticFits, JournalStep
    PROVE  AutomaticFits'
<1>0. /\ Quiet /\ JournalFacts BY JournalStepQuiet, JournalRead
<1>a. ASSUME reload' = reload, tx # None /\ tx' # None => tx'.env.action = tx.env.action,
             tx = None => tx' = None
      PROVE  AutomaticFits'
  BY <1>a DEF AutomaticFits, ReloadActive
<1>b. ASSUME tx' = None PROVE AutomaticFits' BY <1>b DEF AutomaticFits
<1>1. CASE Begins
  <2>1. reload' = reload /\ (ReloadActive => reload.phase = "binding")
    BY <1>1, BeginStep DEF Connecting, Running, Disconnecting, Scheduled, Recovering
  <2> QED BY <2>1 DEF AutomaticFits, ReloadActive
<1>2. CASE Exchanges BY <1>2, <1>a, MarkStep
<1>3. CASE Finishes BY <1>3, <1>b, FinishStep
<1>4. CASE OperationSteps BY <1>4, <1>a, OperationStepsLeave
<1>5. CASE SlotReload BY <1>5, <1>b DEF SlotReload, SaveReload
<1>6. CASE AutomaticReload BY <1>6, <1>b DEF AutomaticReload, SaveReload
<1>7. CASE MissingRelease
  <2>1. /\ tx' = tx /\ tx # None /\ bound /\ op # None /\ op.stage = "release_ready"
    BY <1>7 DEF MissingRelease, SaveReload, Running
  <2>2. tx.env.action \in Action BY <1>0, <2>1, EnvelopeRecord DEF JournalFacts
  <2>3. tx.env.action = "release"
    BY <2>1, <2>2 DEF JournalFits, Exchanging, Fits, OpSettled, Action
  <2> QED BY <2>1, <2>3 DEF AutomaticFits
<1>8. CASE RequestReload
  <2> DEFINE due == tx # None \/ (op # None /\ op.stage # "complete")
  <2>1. reload' = NewReload(FALSE, FALSE, due) /\ due \in BOOLEAN
    BY <1>8, Zenon DEF RequestReload, SaveReload
  <2>2. ~reload'.automatic
    <3> HIDE DEF due
    <3> QED BY <2>1, ReloadStart
  <2> QED BY <2>2 DEF AutomaticFits
<1>9. CASE RecordReloadAttempted
  <2>1. /\ tx' = tx /\ ReloadActive /\ reload.phase = "intent"
        /\ reload'.automatic = reload.automatic
    BY <1>9, ReloadPhaseStep DEF RecordReloadAttempted, SaveReload
  <2> QED BY <2>1 DEF AutomaticFits
<1>10. CASE ReloadComplete
  BY <1>10, ReloadPhaseStep DEF AutomaticFits, ReloadActive
<1>11. CASE RecoverRuntime BY <1>11, <1>b DEF RecoverRuntime
<1>12. CASE RecoverThirdRuntime BY <1>12, <1>b DEF RecoverThirdRuntime
<1>13. CASE RecoveryBound \/ Reconcile BY <1>13, <1>a DEF RecoveryBound, Reconcile
<1>14. CASE Marks BY <1>14, <1>a, MarksLeave
<1>15. CASE CloseReplaced \/ CloseEnded BY <1>15, <1>b, EndedStep
<1> QED BY <1>1, <1>2, <1>3, <1>4, <1>5, <1>6, <1>7, <1>8, <1>9, <1>10, <1>11, <1>12, <1>13,
           <1>14, <1>15, ClosesAre
        DEF JournalStep, Reloads, Recoveries

LEMMA JournalLosesNothing ==
    ASSUME IInv, JournalFits, EndFits, DeskAgrees, JobsFit, ResultsFit, ReloadLosesNothing,
           JournalStep
    PROVE  ReloadLosesNothing'
<1>0. /\ Quiet /\ JournalFacts BY JournalStepQuiet, JournalRead
<1> DEFINE saved == \A t \in Ticket : jobs[t] # None => results[t[1]] # None
<1>a. ASSUME ReloadActive' => reload' = reload PROVE ReloadLosesNothing'
  BY <1>0, <1>a DEF ReloadLosesNothing, ReloadActive, Quiet
<1>b. ASSUME alive /\ live = reload'.from => saved PROVE ReloadLosesNothing'
  BY <1>0, <1>b DEF ReloadLosesNothing, Quiet
<1>c. op # None => OpTicket \in Ticket /\ OpTicket[1] = op.id
  BY <1>0, OperationRecord DEF OpTicket, JournalFacts
<1>d. \A t \in Ticket : t[1] \in Operations BY DEF Ticket, Operations
<1>e. ASSUME op # None => jobs[OpTicket] = None \/ results[op.id] # None PROVE saved
  <2> SUFFICES ASSUME NEW t \in Ticket, jobs[t] # None PROVE results[t[1]] # None OBVIOUS
  <2>1. Past(t) BY DEF JobsFit
  <2>2. CASE t = OpTicket BY <1>c, <1>e, <2>1, <2>2 DEF Past
  <2>3. CASE t[1] < op.id BY <1>d, <2>1, <2>3 DEF Past, ResultsFit
  <2> QED BY <2>1, <2>2, <2>3 DEF Past
<1>1. CASE Begins BY <1>1, <1>a, BeginStep
<1>2. CASE Exchanges BY <1>2, <1>a, MarkStep
<1>3. CASE FinishPrepareCapacity
  <2>1. reload'.from = identity.runtime BY <1>3, ReloadStart DEF FinishPrepareCapacity
  <2>2. Under("prepare") /\ tx.rcpt # None /\ tx.rcpt.state = "rejected"
    BY <1>3 DEF FinishPrepareCapacity, NoCapacity, RefusedFor, Answered, Under
  <2>3. Here => jobs[OpTicket] = None
    BY <2>2 DEF DeskAgrees, Bench, AnswerDesk, Under
  <2> QED BY <1>b, <1>e, <2>1, <2>3 DEF Here
<1>4. CASE Finishes /\ ~FinishPrepareCapacity
  BY <1>4, <1>a DEF Finishes, FinishBind, FinishPrepare, FinishCommit, FinishConfirm,
                    FinishRelease, FinishReleaseHeld, FinishUnbind
<1>5. CASE OperationSteps BY <1>5, <1>a, OperationStepsLeave
<1>6. CASE SlotReload
  <2>1. /\ Connecting /\ tx = None /\ reload'.from = identity.runtime
    BY <1>6, SlotReloadStep DEF SlotReload
  <2>2. CASE RecoveryActive BY <1>b, <2>2 DEF DeskAgrees, Desk, NoJobs
  <2>3. CASE ~RecoveryActive
    <3>1. op = None
      BY <2>1, <2>3 DEF Connecting, Recovering, Scheduled, Admitted, Disconnecting, Ending,
                        JournalFits, OpFits
    <3> QED BY <1>b, <1>e, <3>1
  <2> QED BY <2>2, <2>3
<1>7. CASE AutomaticReload \/ MissingRelease
  <2>1. /\ Running /\ op # None
        /\ op.stage = "release_ready" \/ (op.stage = "prepared" /\ tx = None)
    BY <1>7 DEF AutomaticReload, MissingRelease, Running
  <2>2. reload'.from = identity.runtime
    BY <1>7, ReloadStart DEF AutomaticReload, MissingRelease, SaveReload
  <2>3. CASE op.stage = "release_ready"
    BY <1>b, <1>e, <2>1, <2>3 DEF ResultsFit
  <2>4. CASE op.stage = "prepared" /\ tx = None
    <3>1. Here => jobs[OpTicket] = None
      BY <2>1, <2>4 DEF DeskAgrees, Bench, StageDesk, Working, Under, Running, Scheduled
    <3> QED BY <1>b, <1>e, <2>2, <3>1 DEF Here
  <2> QED BY <2>1, <2>3, <2>4
<1>8. CASE RequestReload
  <2> DEFINE due == tx # None \/ (op # None /\ op.stage # "complete")
  <2>1. reload' = NewReload(FALSE, FALSE, due) /\ due \in BOOLEAN
    BY <1>8, Zenon DEF RequestReload, SaveReload
  <2>2. ~reload'.automatic
    <3> HIDE DEF due
    <3> QED BY <2>1, ReloadStart
  <2> QED BY <2>2 DEF ReloadLosesNothing
<1>9. CASE RecordReloadAttempted
  <2>1. /\ ReloadActive /\ reload'.from = reload.from /\ reload'.automatic = reload.automatic
    BY <1>9, ReloadPhaseStep DEF RecordReloadAttempted
  <2> QED BY <1>0, <2>1 DEF ReloadLosesNothing, Quiet
<1>10. CASE ReloadComplete
  BY <1>10, ReloadPhaseStep DEF ReloadLosesNothing, ReloadActive
<1>11. CASE RecoverRuntime
  <2>1. live > identity.runtime BY <1>11 DEF RecoverRuntime, Candidate
  <2>2. CASE ReloadActive
    <3>1. reload'.from = reload.from BY <1>11, <2>2, RecoverRuntimeStep
    <3>2. reload.from < live
      BY <1>0, <2>1, <2>2 DEF JournalFits, ReloadFits, JournalFacts, ReloadActive
    <3> QED BY <1>0, <1>b, <2>2, <3>1, <3>2 DEF JournalFacts, ReloadActive
  <2>3. CASE ~ReloadActive BY <1>11, <1>a, <2>3, RecoverRuntimeStep DEF ReloadActive
  <2> QED BY <2>2, <2>3
<1>12. CASE RecoverThirdRuntime
  <2>1. live > identity.runtime /\ reload.from = identity.runtime
    BY <1>12 DEF RecoverThirdRuntime, Candidate
  <2> QED BY <1>0, <1>12, <1>b, <2>1, ThirdRuntimeStep DEF JournalFacts
<1>13. CASE RecoveryBound \/ Reconcile BY <1>13, <1>a DEF RecoveryBound, Reconcile
<1>14. CASE Marks BY <1>14, <1>a, MarksLeave
<1>15. CASE CloseReplaced \/ CloseEnded
  BY <1>15, <1>a, EndedStep DEF ReloadActive
<1> QED BY <1>1, <1>2, <1>3, <1>4, <1>5, <1>6, <1>7, <1>8, <1>9, <1>10, <1>11, <1>12, <1>13,
           <1>14, <1>15, ClosesAre
        DEF JournalStep, Reloads, Recoveries

-----------------------------------------------------------------------------
(* What a step leaves alone when it leaves its variables alone: the journal *)
(* and the desk of the engine, and the results.                            *)
Agreed == JournalFits /\ DeskAgrees /\ JobsFit /\ RunsFit /\ AutomaticFits
agreedVars ==
    <<identity, bound, closing, closed, tx, op, reload, recovery, policy,
      live, alive, owner, jobs, active, pending, receipts, runs, outcome>>

LEMMA AgreedStays ==
    ASSUME Agreed, UNCHANGED agreedVars
    PROVE  Agreed'
<1> USE DEF agreedVars
<1>1. JournalFits'
  BY DEF Agreed, JournalFits, Exchanging, RecoveryFits, ReloadFits, OpFits, ClosedFits, Fits,
         OpTicket, RecoveryActive, ReloadActive, OpSettled
<1>2. DeskAgrees'
  <2>1. NoJobs' = NoJobs /\ Idle' = Idle /\ OpTicket' = OpTicket /\ Here' = Here
        /\ RecoveryActive' = RecoveryActive /\ OpSettled' = OpSettled
    BY DEF NoJobs, Idle, OpTicket, Here, RecoveryActive, OpSettled
  <2>2. Desk' = Desk BY <2>1 DEF Desk
  <2>3. StageDesk' = StageDesk
    BY <2>1 DEF StageDesk, Waiting, Unrun, InHand, JobIs, Held, Idle
  <2>4. \A r : AnswerDesk(r)' = AnswerDesk(r)
    BY <2>1 DEF AnswerDesk, Under, Waiting, Unrun, InHand, JobIs, Held, Idle
  <2>5. Bench' = Bench BY <2>1, <2>3, <2>4 DEF Bench, Binding, Working, Under, Seen
  <2>6. NoStrayRefusal' = NoStrayRefusal BY DEF NoStrayRefusal
  <2> QED BY <2>1, <2>2, <2>5, <2>6 DEF Agreed, DeskAgrees
<1>3. JobsFit' BY DEF Agreed, JobsFit, Past, OpTicket
<1>4. RunsFit'
  BY DEF Agreed, RunsFit, Begun, OpTicket, CommitUnderWay, Under, RecoveryActive
<1>5. AutomaticFits' BY DEF Agreed, AutomaticFits, ReloadActive
<1> QED BY <1>1, <1>2, <1>3, <1>4, <1>5 DEF Agreed

Kept == ResultsFit /\ ReloadLosesNothing /\ ReleaseAfterDurable

LEMMA KeptStays ==
    ASSUME Kept, UNCHANGED <<results, closed, op, reload, live, alive, jobs, outcome>>
    PROVE  Kept'
<1>1. ResultsFit' BY DEF Kept, ResultsFit, OpTicket
<1>2. ReloadLosesNothing' BY DEF Kept, ReloadLosesNothing, ReloadActive
<1>3. ReleaseAfterDurable' BY DEF Kept, ReleaseAfterDurable
<1> QED BY <1>1, <1>2, <1>3 DEF Kept

-----------------------------------------------------------------------------
(* The steps on the pool: they move nothing but the entry, or the file, of *)
(* the slot of an exchange this connection holds.                          *)
PoolSteps ==
    TxPublishReserve \/ TxPublishWrite \/ TxPublishSeal
    \/ ConfirmConsumed \/ Supersede \/ RetireReplaced \/ RetireEnded

LEMMA PoolLeaves ==
    ASSUME PoolSteps
    PROVE  UNCHANGED <<journal, beside, engineVars, historyVars>>
BY DEF PoolSteps, TxPublishReserve, TxPublishWrite, TxPublishSeal, ConfirmConsumed, Supersede,
       RetireReplaced, RetireEnded

(* Each step, as what it does to one slot.                                 *)
Takes(i) ==
    /\ tx # None /\ tx.env \in Envelope /\ i = tx.env.index
    /\ \A j \in Index \ {i} : entry'[j] = entry[j]
    /\ entry'[i].nonce = tx.env.nonce /\ Claims(Self, tx.env)' /\ Reserved(i)'
    /\ payload' = payload
Keeps(i) ==
    /\ \A j \in Index \ {i} : entry'[j] = entry[j]
    /\ entry'[i].nonce = entry[i].nonce
    /\ entry'[i].consumer = entry[i].consumer
    /\ entry'[i].runtime = entry[i].runtime
    /\ Reserved(i)' => Reserved(i)
Writes(i) ==
    /\ tx # None /\ tx.env \in Envelope /\ i = tx.env.index
    /\ Claims(Self, tx.env) /\ Reserved(i)
    /\ entry' = entry /\ payload' = [payload EXCEPT ![i] = tx.env]
Seals(i) ==
    /\ Keeps(i) /\ Reserved(i)' = Reserved(i) /\ payload' = payload
Ends(i) ==
    /\ Keeps(i) /\ payload' = payload /\ ~Loadable(i)

LEMMA PoolStepIs ==
    ASSUME IInv, PoolSettled, JournalFits, EndFits, TokensGrow, OnlyCurrent, PoolSteps
    PROVE  \E i \in Index : Takes(i) \/ Writes(i) \/ Seals(i) \/ Ends(i)
<1>0. JournalFacts /\ PoolTypeOK BY JournalRead DEF IInv
<1>a. ASSUME NEW i \in Index, Loadable(i)
      PROVE  /\ tx # None /\ tx.env.index = i /\ entry[i].nonce = tx.env.nonce
             /\ live = identity.runtime /\ alive
             /\ tx.rcpt = None
  <2>1. /\ tx # None /\ payload[i] = tx.env /\ tx.env.index = i /\ Claims(Self, tx.env)
        /\ payload[i].runtime = live /\ alive /\ cursor <= i
    BY <1>a DEF OnlyCurrent, Loadable
  <2>2. tx.env.runtime = identity.runtime BY <2>1 DEF JournalFits, Exchanging
  <2>3. tx.env.index \in Nat /\ cursor \in Nat
    BY <1>0, <2>1, EnvelopeRecord DEF JournalFacts
  <2>4. tx.rcpt = None
    BY <2>1, <2>2, <2>3 DEF OnlyCurrent, Here
  <2> QED BY <2>1, <2>2, <2>4 DEF Claims
<1>b. ASSUME tx # None PROVE tx.env \in Envelope /\ tx.env.index \in Index /\ tx.env.nonce # 0
  BY <1>0, <1>b, EnvelopeRecord DEF JournalFacts
<1>1. CASE TxPublishReserve
  <2>0. PICK i \in Index : i = tx.env.index
    BY <1>1, <1>b DEF TxPublishReserve, Publishing
  <2>1. tx # None /\ PublishReserve(Self, tx.env) /\ tx' = tx
    BY <1>1 DEF TxPublishReserve, Publishing, journal
  <2>2. /\ \A j \in Index \ {i} : entry'[j] = entry[j]
        /\ entry'[i] =
             [nonce |-> tx.env.nonce, runtime |-> tx.env.runtime, consumer |-> Self,
              hash |-> entry[i].hash, pend |-> tx.env, consumed |-> FALSE,
              retRt |-> None, retProc |-> FALSE]
        /\ payload' = payload
    BY <1>0, <1>b, <2>0, <2>1 DEF PublishReserve, PoolTypeOK
  <2>3. Takes(i) BY <1>b, <2>0, <2>1, <2>2 DEF Takes, Claims, Reserved
  <2> QED BY <2>0, <2>1, <2>3
<1>2. CASE TxPublishWrite
  <2>0. PICK i \in Index : i = tx.env.index
    BY <1>2, <1>b DEF TxPublishWrite, Publishing
  <2>1. tx # None /\ PublishWrite(Self, tx.env) /\ tx' = tx
    BY <1>2 DEF TxPublishWrite, Publishing, journal
  <2>2. Reserved(i)
    BY <1>b, <2>0, <2>1, EnvelopeRecord DEF PublishWrite, PoolSettled, FreeIsSettled
  <2>3. Writes(i) BY <1>b, <2>0, <2>1, <2>2 DEF Writes, PublishWrite
  <2> QED BY <2>0, <2>1, <2>3
<1>3. CASE TxPublishSeal
  <2>0. PICK i \in Index : i = tx.env.index
    BY <1>3, <1>b DEF TxPublishSeal, Publishing
  <2>1. tx # None /\ PublishSeal(Self, tx.env) BY <1>3 DEF TxPublishSeal, Publishing
  <2>2. entry[i] \in Entry BY <1>0, <1>b, <2>0, <2>1 DEF PoolTypeOK
  <2>3. /\ \A j \in Index \ {i} : entry'[j] = entry[j]
        /\ entry'[i] = [entry[i] EXCEPT !.hash = tx.env, !.pend = None]
        /\ payload' = payload
    BY <1>0, <1>b, <2>0, <2>1 DEF PublishSeal, PoolTypeOK
  <2>4. /\ entry'[i].nonce = entry[i].nonce
        /\ entry'[i].consumer = entry[i].consumer
        /\ entry'[i].runtime = entry[i].runtime
        /\ entry'[i].consumed = entry[i].consumed
        /\ entry'[i].retRt = entry[i].retRt
        /\ entry'[i].retProc = entry[i].retProc
    BY <2>2, <2>3 DEF Entry
  <2>5. Seals(i) BY <2>3, <2>4 DEF Seals, Keeps, Reserved
  <2> QED BY <2>0, <2>1, <2>5
<1>4. CASE ConfirmConsumed
  <2>0. PICK i \in Index : i = tx.env.index
    BY <1>4, <1>b
       DEF ConfirmConsumed, Finishing, Bound, Prepared, NoCapacity, Accepted, Confirmed,
           Released, StillHeld, Unbound, Answered, RefusedFor
  <2>1. /\ tx # None /\ tx.rcpt # None /\ ConfirmSlotConsumed(Self, tx.env)
    BY <1>4 DEF ConfirmConsumed, Finishing, Bound, Prepared, NoCapacity, Accepted, Confirmed,
                Released, StillHeld, Unbound, Answered, RefusedFor
  <2>a. entry[i] \in Entry BY <1>0, <1>b, <2>0, <2>1 DEF PoolTypeOK
  <2>b. /\ \A j \in Index \ {i} : entry'[j] = entry[j]
        /\ entry'[i] = [entry[i] EXCEPT !.consumed = TRUE]
        /\ payload' = payload
    BY <1>0, <1>b, <2>0, <2>1 DEF ConfirmSlotConsumed, PoolTypeOK
  <2>c. /\ entry'[i].nonce = entry[i].nonce
        /\ entry'[i].consumer = entry[i].consumer
        /\ entry'[i].runtime = entry[i].runtime
        /\ entry'[i].consumed
    BY <2>a, <2>b DEF Entry
  <2>2. Keeps(i) /\ payload' = payload
    BY <2>b, <2>c DEF Keeps, Reserved
  <2>3. ~Loadable(i) BY <1>a, <1>b, <2>0, <2>1
  <2> QED BY <2>0, <2>1, <2>2, <2>3 DEF Ends
<1>5. ASSUME NEW e \in Envelope, NEW r \in Runtimes, RetireSlotRuntime(Self, e, r)
      PROVE  Keeps(e.index) /\ payload' = payload /\ e.index \in Index
             /\ entry[e.index].nonce = e.nonce
  <2>1. e.index \in Index BY EnvelopeRecord
  <2>2. /\ entry' = [entry EXCEPT ![e.index] =
                      [@ EXCEPT !.hash = payload[e.index], !.pend = None, !.retRt = r]]
        /\ payload' = payload /\ entry[e.index].nonce = e.nonce
    BY <1>5 DEF RetireSlotRuntime, RetireRuntimeDone
  <2>3. entry[e.index] \in Entry /\ r # None
    BY <1>0, <2>1, NoneIsNoValue DEF PoolTypeOK
  <2> QED BY <1>0, <2>1, <2>2, <2>3 DEF Keeps, Reserved, PoolTypeOK, Entry
<1>6. CASE Supersede
  <2>1. /\ recovery.tx # None /\ recovery # None
        /\ RetireSlotRuntime(Self, recovery.tx.env, identity.runtime)
    BY <1>6 DEF Supersede, Recovering, RecoveryActive
  <2>2. PICK e \in Envelope, r \in Runtimes : e = recovery.tx.env /\ r = identity.runtime
    BY <1>0, <2>1 DEF JournalFacts
  <2>3. ~Loadable(e.index)
    BY <1>0, <1>a, <1>5, <2>1, <2>2, EnvelopeRecord DEF TokensGrow, JournalFacts
  <2> QED BY <1>5, <2>1, <2>2, <2>3 DEF Ends
<1>7. \A t \in OldClaims : t.env \in Envelope
  BY <1>0 DEF OldClaims, JournalFacts
<1>8. CASE RetireReplaced
  <2>1. PICK t \in OldClaims : RetireSlotRuntime(Self, t.env, runtimeEnd)
    BY <1>8 DEF RetireReplaced
  <2>2. PICK r \in Runtimes : r = runtimeEnd /\ live > identity.runtime
    BY <1>8 DEF RetireReplaced, IInv, JournalTyped, EndFits
  <2>3. ~Loadable(t.env.index)
    BY <1>0, <1>a, <1>5, <1>7, <2>1, <2>2 DEF JournalFacts
  <2> QED BY <1>5, <1>7, <2>1, <2>2, <2>3 DEF Ends
<1>9. CASE RetireEnded
  <2>1. PICK t \in OldClaims : RetireSlotProcess(Self, t.env)
    BY <1>9 DEF RetireEnded
  <2>2. t.env.index \in Index BY <1>7, EnvelopeRecord
  <2>3. /\ entry' = [entry EXCEPT ![t.env.index] =
                      [@ EXCEPT !.hash = payload[t.env.index], !.pend = None, !.retProc = TRUE]]
        /\ payload' = payload
    BY <2>1 DEF RetireSlotProcess
  <2>4. entry[t.env.index] \in Entry BY <1>0, <2>2 DEF PoolTypeOK
  <2>5. Keeps(t.env.index)
    BY <1>0, <2>2, <2>3, <2>4 DEF Keeps, Reserved, PoolTypeOK, Entry
  <2>6. ~Loadable(t.env.index) BY <1>9 DEF RetireEnded, EndFits, Loadable
  <2> QED BY <2>2, <2>3, <2>5, <2>6 DEF Ends
<1> QED BY <1>1, <1>2, <1>3, <1>4, <1>6, <1>8, <1>9 DEF PoolSteps

LEMMA PoolKeeps ==
    ASSUME IInv, PoolSettled, JournalFits, EndFits, TokensGrow, OnlyCurrent, Owned, PoolSteps
    PROVE  TokensGrow' /\ OnlyCurrent' /\ Owned'
<1>0. JournalFacts /\ PoolTypeOK BY JournalRead DEF IInv
<1>1. UNCHANGED <<journal, beside, engineVars, historyVars>> BY PoolLeaves
<1> USE <1>1 DEF journal, beside, engineVars, historyVars
<1>2. PICK i \in Index : Takes(i) \/ Writes(i) \/ Seals(i) \/ Ends(i)
  BY PoolStepIs
<1>3. TokensGrow'
  <2>1. \A j \in Index : entry'[j].nonce <= nonces
    <3>1. \A j \in Index : entry[j].nonce <= nonces /\ (tx # None => tx.env.nonce <= nonces)
      BY DEF TokensGrow
    <3> QED BY <1>2, <3>1 DEF Takes, Writes, Seals, Keeps, Ends
  <2> QED BY <2>1 DEF TokensGrow
<1>4. OnlyCurrent'
  <2>1. /\ \A j \in Index : payload[j] # Inert => payload[j].runtime <= live
        /\ \A j \in Index : Loadable(j) =>
             /\ tx # None /\ payload[j] = tx.env /\ tx.env.index = j
             /\ Claims(Self, tx.env) /\ Reserved(j)
        /\ Here /\ tx # None /\ tx.rcpt # None => cursor > tx.env.index
    BY DEF OnlyCurrent
  <2>2. Here' = Here BY DEF Here
  <2>3. \A j \in Index \ {i} : /\ payload'[j] = payload[j] /\ entry'[j] = entry[j]
                               /\ Loadable(j)' = Loadable(j) /\ Reserved(j)' = Reserved(j)
    BY <1>2, <1>0 DEF Takes, Writes, Seals, Keeps, Ends, Loadable, Reserved, PoolTypeOK
  <2>4. \A j \in Index \ {i} : Loadable(j)' =>
             /\ tx # None /\ payload'[j] = tx.env /\ tx.env.index = j
             /\ Claims(Self, tx.env)' /\ Reserved(j)'
    BY <2>1, <2>3 DEF Claims
  <2>5. /\ payload'[i] # Inert => payload'[i].runtime <= live
        /\ Loadable(i)' =>
             /\ tx # None /\ payload'[i] = tx.env /\ tx.env.index = i
             /\ Claims(Self, tx.env)' /\ Reserved(i)'
    <3>1. CASE Takes(i) BY <2>1, <3>1 DEF Takes, Loadable
    <3>2. CASE Writes(i)
      <4>1. tx.env.runtime <= live
        BY <1>0, <3>2 DEF Writes, JournalFits, Exchanging, EndFits
      <4> QED BY <1>0, <3>2, <4>1 DEF Writes, Loadable, Claims, Reserved, PoolTypeOK
    <3>3. CASE Seals(i) BY <2>1, <3>3 DEF Seals, Keeps, Loadable, Claims
    <3>4. CASE Ends(i) BY <2>1, <3>4 DEF Ends, Keeps, Loadable
    <3> QED BY <1>2, <3>1, <3>2, <3>3, <3>4
  <2> QED BY <2>1, <2>2, <2>3, <2>4, <2>5 DEF OnlyCurrent
<1>5. Owned'
  <2> DEFINE own(j) ==
        \/ tx # None /\ tx.env.index = j /\ Claims(Self, tx.env)
        \/ /\ RecoveryActive /\ recovery.tx # None
           /\ recovery.tx.env.index = j /\ Claims(Self, recovery.tx.env)
  <2>1. \A j \in Index : entry[j].consumer = Self /\ Reserved(j) => own(j)
    BY DEF Owned
  <2>2. \A j \in Index \ {i} : entry'[j] = entry[j] /\ Reserved(j)' = Reserved(j)
    BY <1>2 DEF Takes, Writes, Seals, Keeps, Ends, Reserved
  <2>3. \A j \in Index : entry'[j].nonce = entry[j].nonce /\ entry'[j].consumer = entry[j].consumer
                   /\ entry'[j].runtime = entry[j].runtime => (own(j) => own(j)')
    BY DEF Claims, RecoveryActive
  <2>4. \A j \in Index \ {i} : entry'[j].consumer = Self /\ Reserved(j)' => own(j)'
    BY <2>1, <2>2, <2>3
  <2>5. entry'[i].consumer = Self /\ Reserved(i)' => own(i)'
    <3>1. CASE Takes(i) BY <3>1 DEF Takes
    <3>2. CASE Writes(i) BY <3>2 DEF Writes, Claims
    <3>3. CASE Keeps(i) BY <2>1, <2>3, <3>3 DEF Keeps
    <3> QED BY <1>2, <3>1, <3>2, <3>3 DEF Seals, Ends
  <2> QED BY <2>4, <2>5 DEF Owned
<1> QED BY <1>3, <1>4, <1>5

LEMMA PoolStepsKeep ==
    ASSUME Agreed, Kept, EndFits, Keyed, PoolSteps
    PROVE  Agreed' /\ Kept' /\ EndFits' /\ Keyed'
<1>1. UNCHANGED <<journal, beside, engineVars, historyVars>> BY PoolLeaves
<1> USE <1>1 DEF journal, beside, engineVars, historyVars
<1>2. Agreed' BY AgreedStays DEF agreedVars
<1>3. Kept' BY KeptStays
<1>4. EndFits' BY DEF EndFits
<1>5. Keyed' BY DEF Keyed, Attempted, ReloadActive
<1> QED BY <1>2, <1>3, <1>4, <1>5

-----------------------------------------------------------------------------
(* The input: intent, key, outcome, death in between.                      *)
InputSteps == InvokeIntent \/ ReloadIntent \/ Perform

LEMMA InputLeaves ==
    ASSUME InputSteps
    PROVE  UNCHANGED <<identity, bound, control, tx, op, reload, recovery, results, policy, nonces,
                       external>>
BY DEF InputSteps, InvokeIntent, ReloadIntent, RecordInputIntent, Perform, SendKey, SendReloadKey,
       RecordInputOutcome, Crash, journal, control

LEMMA InputKeeps ==
    ASSUME IInv, TokensGrow, Agreed, Kept, EndFits, OnlyCurrent, Owned, InputSteps
    PROVE  TokensGrow' /\ Agreed' /\ Kept' /\ EndFits' /\ OnlyCurrent' /\ Owned'
<1>1. UNCHANGED <<identity, bound, closing, closed, runtimeEnd, processEnd, tx, op, reload, recovery,
                  results, policy, nonces, entry, payload, live, alive, cursor, owner, jobs, active,
                  pending, receipts, runs, outcome>>
  BY InputLeaves DEF control, external, poolVars, engineVars, historyVars
<1> USE <1>1
<1>2. Agreed' BY AgreedStays DEF agreedVars
<1>3. Kept' BY KeptStays
<1>4. EndFits' BY DEF EndFits
<1>5. OnlyCurrent' BY DEF OnlyCurrent, Loadable, Reserved, Claims, Here
<1>6. Owned' BY DEF Owned, Reserved, Claims, RecoveryActive
<1>7. TokensGrow'
  <2>1. sent' = sent \/ (tx # None /\ sent' = sent \cup {tx.env.nonce})
    BY DEF InputSteps, InvokeIntent, ReloadIntent, RecordInputIntent, Perform, SendKey,
           SendReloadKey, RecordInputOutcome, Crash, Invoking
  <2> QED BY <2>1 DEF TokensGrow
<1> QED BY <1>2, <1>3, <1>4, <1>5, <1>6, <1>7

LEMMA InputKeyed ==
    ASSUME IInv, Keyed, InputSteps, sending = "idle" \/ Perform
    PROVE  Keyed'
<1>0. /\ tx' = tx /\ reload' = reload /\ ReloadActive' = ReloadActive
      /\ input # None => input \in Input
  BY InputLeaves DEF IInv, JournalTyped, ReloadActive
<1> USE <1>0 DEF Keyed, Attempted
<1>1. CASE InvokeIntent
  <2>1. /\ tx # None /\ tx.phase = "published"
        /\ ~(ReloadActive /\ reload.phase # "binding")
    BY <1>1 DEF InvokeIntent, Invoking, Advancing, Connecting, Running, Disconnecting, Scheduled,
                Recovering
  <2>2. ~Attempted("invoke", tx.env.nonce, tx.env.runtime) /\ sent' = sent
        /\ sending' = "intent"
        /\ input' = [kind |-> "invoke", exchange |-> tx.env.nonce, runtime |-> tx.env.runtime,
                     outcome |-> "missing"]
    BY <1>1 DEF InvokeIntent, RecordInputIntent
  <2>3. tx.env.nonce \notin sent BY <2>1, <2>2
  <2>4. input' # None
    <3>1. input' \in Input
      BY <2>1, <2>2, JournalRead, EnvelopeRecord DEF JournalFacts, Input
    <3> QED BY <3>1, NoneIsNoRecord
  <2> QED BY <2>1, <2>2, <2>3, <2>4
<1>2. CASE ReloadIntent
  <2>1. ReloadActive /\ reload.phase = "intent" /\ sent' = sent
        /\ input' = [kind |-> "reload", exchange |-> 0, runtime |-> reload.from,
                     outcome |-> "missing"]
    BY <1>2 DEF ReloadIntent, RecordInputIntent
  <2>2. input' # None
    <3>1. input' \in Input
      BY <2>1, JournalRead DEF JournalFacts, Input, Reload, ReloadActive
    <3> QED BY <3>1, NoneIsNoRecord
  <2> QED BY <2>1, <2>2
<1>3. CASE SendKey
  <2>1. /\ sending = "intent" /\ input.kind = "invoke" /\ tx # None
        /\ sent' = sent \cup {tx.env.nonce} /\ sending' = "sent" /\ input' = input
    BY <1>3 DEF SendKey, Invoking, journal
  <2> QED BY <2>1
<1>4. CASE SendReloadKey
  <2>1. /\ sending = "intent" /\ input.kind = "reload"
        /\ sent' = sent /\ sending' = "sent" /\ input' = input
    BY <1>4 DEF SendReloadKey, journal
  <2> QED BY <2>1
<1>5. CASE RecordInputOutcome
  <2>1. /\ sending # "idle" /\ sending' = "idle" /\ sent' = sent
        /\ input' = [input EXCEPT !.outcome = IF sending = "sent" THEN "sent" ELSE "not_sent"]
    BY <1>5 DEF RecordInputOutcome
  <2>2. input # None /\ input \in Input BY <2>1
  <2>3. /\ input' \in Input /\ input'.kind = input.kind /\ input'.exchange = input.exchange
        /\ input'.runtime = input.runtime
        /\ input'.outcome = IF sending = "sent" THEN "sent" ELSE "not_sent"
    BY <2>1, <2>2 DEF Input
  <2>4. input' # None BY <2>3, NoneIsNoRecord
  <2>5. sending \in {"idle", "intent", "sent"} BY DEF IInv, BesideTyped
  <2>6. CASE sending = "sent" BY <2>1, <2>2, <2>3, <2>4, <2>6
  <2>7. CASE sending = "intent" BY <2>1, <2>2, <2>3, <2>4, <2>7
  <2> QED BY <2>1, <2>5, <2>6, <2>7
<1>6. CASE Crash
  <2>1. sending' = "idle" /\ sent' = sent /\ input' = input
    BY <1>6 DEF Crash, journal
  <2> QED BY <2>1
<1> QED BY <1>1, <1>2, <1>3, <1>4, <1>5, <1>6 DEF InputSteps, Perform

(* Writing the result file.                                                *)
LEMMA WriteKeeps ==
    ASSUME IInv, TokensGrow, Agreed, Kept, EndFits, OnlyCurrent, Owned, Keyed, WriteResult
    PROVE  TokensGrow' /\ Agreed' /\ Kept' /\ EndFits' /\ OnlyCurrent' /\ Owned' /\ Keyed'
<1>0. JournalFacts BY JournalRead
<1>1. UNCHANGED <<identity, bound, closing, closed, runtimeEnd, processEnd, tx, op, reload, recovery,
                  input, sending, sent, policy, nonces, entry, payload, live, alive, cursor, owner,
                  jobs, active, pending, receipts, runs, outcome>>
  BY DEF WriteResult, journal, external, poolVars, engineVars, historyVars
<1> USE <1>1
<1>2. Agreed' BY AgreedStays DEF agreedVars
<1>3. EndFits' BY DEF EndFits
<1>4. OnlyCurrent' BY DEF OnlyCurrent, Loadable, Reserved, Claims, Here
<1>5. Owned' BY DEF Owned, Reserved, Claims, RecoveryActive
<1>6. TokensGrow' BY DEF TokensGrow
<1>7. Keyed' BY DEF Keyed, Attempted, ReloadActive
<1>8. Kept'
  <2>1. /\ op # None /\ op.stage \in {"result_verified", "release_ready"}
        /\ results[op.id] # op.report
        /\ results' = [results EXCEPT ![op.id] = op.report]
    BY DEF WriteResult, Running
  <2>2. /\ op.stage = "result_verified" /\ op.report # None
    BY <2>1 DEF Kept, ResultsFit
  <2>3. op.id \in Operations /\ op.id \in Nat BY <1>0, <2>1, OperationRecord DEF JournalFacts
  <2>4. /\ results'[op.id] = op.report
        /\ \A o \in Operations \ {op.id} : results'[o] = results[o]
    BY <2>1, <2>3 DEF IInv, BesideTyped
  <2>5. \A o \in Operations : results[o] # None => results'[o] # None
    BY <2>2, <2>4
  <2>6. ResultsFit'
    BY <2>1, <2>2, <2>3, <2>4, <2>5 DEF Kept, ResultsFit, OpTicket
  <2>7. \A t \in Ticket : t[1] \in Operations BY DEF Ticket, Operations
  <2>8. ReloadLosesNothing' BY <2>5, <2>7 DEF Kept, ReloadLosesNothing, ReloadActive
  <2>9. ReleaseAfterDurable' BY <2>5, <2>7 DEF Kept, ReleaseAfterDurable
  <2> QED BY <2>6, <2>8, <2>9 DEF Kept
<1> QED BY <1>2, <1>3, <1>4, <1>5, <1>6, <1>7, <1>8

-----------------------------------------------------------------------------
(* What the engine makes of an envelope it receives, field by field.       *)
Admits(e) == Refusal(e) = ""

Turned(e, r) ==
    /\ ~Admits(e) /\ r.state = "rejected" /\ r.reason = Refusal(e)
    /\ UNCHANGED <<owner, jobs, active, pending, runs, outcome>>
Binds(e, r) ==
    /\ e.action = "bind" /\ Admits(e) /\ r.state = "bound"
    /\ owner' = e.owner
    /\ UNCHANGED <<jobs, active, pending, runs, outcome>>
Prepares(e, r) ==
    /\ e.action = "prepare" /\ Admits(e) /\ r.state = "prepared"
    /\ jobs' = [jobs EXCEPT ![e.ticket] = [state |-> "prepared", nonce |-> e.nonce,
                                          report |-> None, held |-> FALSE]]
    /\ pending' = e.ticket
    /\ UNCHANGED <<owner, active, runs, outcome>>
Rejects(e, r) ==
    /\ e.action = "prepare" /\ Admits(e) /\ r.state = "reported" /\ r.report = "failed"
    /\ jobs' = [jobs EXCEPT ![e.ticket] = [state |-> "reported", nonce |-> e.nonce,
                                          report |-> "failed", held |-> FALSE]]
    /\ active' = e.ticket /\ outcome' = [outcome EXCEPT ![e.ticket] = "failed"]
    /\ UNCHANGED <<owner, pending, runs>>
Commits(e, r) ==
    /\ e.action = "commit" /\ Admits(e) /\ r.state = "accepted"
    /\ jobs' = [jobs EXCEPT ![e.ticket].state = "running"]
    /\ active' = e.ticket /\ pending' = None
    /\ runs' = [runs EXCEPT ![e.ticket] = @ + 1]
    /\ UNCHANGED <<owner, outcome>>
Confirms(e, r) ==
    /\ e.action = "confirm" /\ Admits(e)
    /\ jobs[e.ticket] # None => r.state = jobs[e.ticket].state
    /\ UNCHANGED <<owner, jobs, active, pending, runs, outcome>>
Releases(e, r) ==
    /\ e.action = "release" /\ Admits(e) /\ r.state = "released"
    /\ jobs' = [jobs EXCEPT ![e.ticket].state = "released"]
    /\ active' = IF active = e.ticket THEN None ELSE active
    /\ UNCHANGED <<owner, pending, runs, outcome>>
Unbinds(e, r) ==
    /\ e.action = "unbind" /\ Admits(e) /\ r.state = "unbound"
    /\ owner' = None
    /\ UNCHANGED <<jobs, active, pending, runs, outcome>>

Effect(e, r) ==
    \/ Turned(e, r) \/ Binds(e, r) \/ Prepares(e, r) \/ Rejects(e, r) \/ Commits(e, r)
    \/ Confirms(e, r) \/ Releases(e, r) \/ Unbinds(e, r)

Answers(e, r) ==
    /\ r.nonce = e.nonce /\ r.action = e.action /\ r.ticket = e.ticket
    /\ r.runtime = live /\ r.next = e.index + 1

LEMMA AnswerFields ==
    ASSUME NEW e, NEW own, NEW s
    PROVE  Answers(e, Answer(e, own, s)) /\ Answer(e, own, s).state = s
BY Zenon DEF Answers, Answer

LEMMA RefusalIs ==
    ASSUME NEW e
    PROVE  /\ e.action = "bind" /\ owner = None => Admits(e)
           /\ e.action # "bind" /\ owner = e.owner =>
                /\ e.action = "prepare" /\ active = None /\ pending = None
                   /\ jobs[e.ticket] = None /\ ~Admits(e) =>
                     Refusal(e) = "slot_capacity"
                /\ e.action = "commit" =>
                     /\ pending = e.ticket /\ jobs[e.ticket].nonce = e.prep => Admits(e)
                     /\ pending # e.ticket => ~Admits(e)
                     /\ ~Admits(e) => Refusal(e) = "slot_commit_mismatch"
                /\ e.action = "confirm" => Admits(e)
                /\ e.action = "release" /\ jobs[e.ticket] # None
                   /\ jobs[e.ticket].state = "reported" /\ jobs[e.ticket].report = e.report
                   /\ ~Admits(e) =>
                     Refusal(e) = "slot_resources_pending"
                /\ e.action = "unbind" /\ active = None /\ pending = None => Admits(e)
BY Zenon DEF Refusal, Admits

LEMMA ReceiveIs ==
    ASSUME NEW e, Receive(e)
    PROVE  \E r : Publish(r) /\ Answers(e, r) /\ Effect(e, r)
<1>0. ASSUME NEW r, Publish(r), Answers(e, r), Effect(e, r)
      PROVE  \E q : Publish(q) /\ Answers(e, q) /\ Effect(e, q)
  BY <1>0
<1> USE DEF Admits, historyVars
<1>1. CASE Refuse(e)
  <2>0. PICK r : r = [Answer(e, owner, "rejected") EXCEPT !.reason = Refusal(e)]
    OBVIOUS
  <2>1. Publish(r) BY <2>0, <1>1, Zenon DEF Refuse
  <2>2. Answers(e, r) /\ r.state = "rejected" /\ r.reason = Refusal(e)
    BY <2>0, Zenon DEF Answers, Answer
  <2>3. Turned(e, r) BY <1>1, <2>2, Zenon DEF Refuse, Turned
  <2> QED BY <1>0, <2>1, <2>2, <2>3, Zenon DEF Effect
<1>2. CASE Bind(e)
  <2> DEFINE r == Answer(e, e.owner, "bound")
  <2>1. Publish(r) BY <1>2, Zenon DEF Bind
  <2>2. Answers(e, r) /\ r.state = "bound" BY AnswerFields, Zenon
  <2> HIDE DEF r
  <2>3. Binds(e, r) BY <1>2, <2>2, Zenon DEF Bind, Binds
  <2> QED BY <1>0, <2>1, <2>2, <2>3, Zenon DEF Effect
<1>3. CASE Prepare(e)
  <2> DEFINE r == Answer(e, owner, "prepared")
  <2>1. Publish(r) BY <1>3, Zenon DEF Prepare
  <2>2. Answers(e, r) /\ r.state = "prepared" BY AnswerFields, Zenon
  <2> HIDE DEF r
  <2>3. Prepares(e, r) BY <1>3, <2>2, Zenon DEF Prepare, Prepares
  <2> QED BY <1>0, <2>1, <2>2, <2>3, Zenon DEF Effect
<1>4. CASE PrepareUncompilable(e)
  <2>0. PICK r : r = [Answer(e, owner, "reported") EXCEPT !.report = "failed"]
    OBVIOUS
  <2>1. Publish(r) BY <2>0, <1>4, Zenon DEF PrepareUncompilable
  <2>2. Answers(e, r) /\ r.state = "reported" /\ r.report = "failed"
    BY <2>0, Zenon DEF Answers, Answer
  <2>3. Rejects(e, r) BY <1>4, <2>2, Zenon DEF PrepareUncompilable, Rejects
  <2> QED BY <1>0, <2>1, <2>2, <2>3, Zenon DEF Effect
<1>5. CASE Commit(e)
  <2> DEFINE r == Answer(e, owner, "accepted")
  <2>1. Publish(r) BY <1>5, Zenon DEF Commit
  <2>2. Answers(e, r) /\ r.state = "accepted" BY AnswerFields, Zenon
  <2> HIDE DEF r
  <2>3. Commits(e, r) BY <1>5, <2>2, Zenon DEF Commit, Commits
  <2> QED BY <1>0, <2>1, <2>2, <2>3, Zenon DEF Effect
<1>6. CASE Confirm(e)
  <2>1. CASE jobs[e.ticket] = None
    <3> DEFINE r == Answer(e, owner, "absent")
    <3>1. Publish(r) BY <1>6, <2>1, Zenon DEF Confirm
    <3>2. Answers(e, r) BY AnswerFields, Zenon
    <3> HIDE DEF r
    <3>3. Confirms(e, r) BY <1>6, <2>1, <3>2, Zenon DEF Confirm, Confirms
    <3> QED BY <1>0, <3>1, <3>2, <3>3, Zenon DEF Effect
  <2>2. CASE jobs[e.ticket] # None
    <3>0. PICK r : r = [Answer(e, owner, jobs[e.ticket].state) EXCEPT
                          !.prep = jobs[e.ticket].nonce, !.report = jobs[e.ticket].report]
      OBVIOUS
    <3>1. Publish(r) BY <3>0, <1>6, <2>2, Zenon DEF Confirm
    <3>2. Answers(e, r) /\ r.state = jobs[e.ticket].state
      BY <3>0, Zenon DEF Answers, Answer
    <3>3. Confirms(e, r) BY <1>6, <3>2, Zenon DEF Confirm, Confirms
    <3> QED BY <1>0, <3>1, <3>2, <3>3, Zenon DEF Effect
  <2> QED BY <2>1, <2>2
<1>7. CASE Release(e)
  <2> DEFINE r == Answer(e, owner, "released")
  <2>1. Publish(r) BY <1>7, Zenon DEF Release
  <2>2. Answers(e, r) /\ r.state = "released" BY AnswerFields, Zenon
  <2> HIDE DEF r
  <2>3. Releases(e, r) BY <1>7, <2>2, Zenon DEF Release, Releases
  <2> QED BY <1>0, <2>1, <2>2, <2>3, Zenon DEF Effect
<1>8. CASE Unbind(e)
  <2> DEFINE r == Answer(e, owner, "unbound")
  <2>1. Publish(r) BY <1>8, Zenon DEF Unbind
  <2>2. Answers(e, r) /\ r.state = "unbound" BY AnswerFields, Zenon
  <2> HIDE DEF r
  <2>3. Unbinds(e, r) BY <1>8, <2>2, Zenon DEF Unbind, Unbinds
  <2> QED BY <1>0, <2>1, <2>2, <2>3, Zenon DEF Effect
<1> QED BY <1>1, <1>2, <1>3, <1>4, <1>5, <1>6, <1>7, <1>8, Zenon DEF Receive

-----------------------------------------------------------------------------
(* A wake that finds an envelope finds the one of the exchange under way,  *)
(* and the engine answers it from a desk that the stage of the operation   *)
(* describes.                                                              *)

\* The job of a ticket, and no other, becomes this one.
Sets(t, state, nonce, report) ==
    /\ jobs'[t] # None
    /\ jobs'[t].state = state /\ jobs'[t].nonce = nonce /\ jobs'[t].report = report
    /\ \A u \in Ticket \ {t} : jobs'[u] = jobs[u]

LEMMA JobRead ==
    ASSUME IInv, NEW t \in Ticket, jobs[t] # None
    PROVE  jobs[t] \in Job /\ jobs[t].nonce \in Nat
BY DEF IInv, EngineDesk, Job

LEMMA JobMoves ==
    ASSUME IInv, NEW t \in Ticket, jobs[t] # None,
           NEW s \in {"running", "released"},
           jobs' = [jobs EXCEPT ![t].state = s]
    PROVE  Sets(t, s, jobs[t].nonce, jobs[t].report)
<1>1. jobs[t] \in Job BY JobRead
<1>2. [jobs[t] EXCEPT !.state = s] \in Job BY <1>1 DEF Job
<1>3. /\ jobs'[t] = [jobs[t] EXCEPT !.state = s]
      /\ \A u \in Ticket \ {t} : jobs'[u] = jobs[u]
  BY DEF IInv, EngineDesk
<1>4. /\ jobs'[t].state = s /\ jobs'[t].nonce = jobs[t].nonce
      /\ jobs'[t].report = jobs[t].report
  BY <1>1, <1>3 DEF Job
<1> QED BY <1>2, <1>3, <1>4, NoneIsNoJob DEF Sets

LEMMA JobEnters ==
    ASSUME IInv, NEW t \in Ticket, NEW s \in {"prepared", "reported"}, NEW n \in Nat,
           NEW p \in Report \cup {None},
           jobs' = [jobs EXCEPT ![t] = [state |-> s, nonce |-> n, report |-> p,
                                        held |-> FALSE]]
    PROVE  Sets(t, s, n, p)
<1> DEFINE j == [state |-> s, nonce |-> n, report |-> p, held |-> FALSE]
<1>1. j \in Job /\ j.state = s /\ j.nonce = n /\ j.report = p BY DEF Job
<1> HIDE DEF j
<1>2. /\ jobs'[t] = j
      /\ \A u \in Ticket \ {t} : jobs'[u] = jobs[u]
  BY DEF IInv, EngineDesk, j
<1> QED BY <1>1, <1>2, NoneIsNoJob DEF Sets

deskTables == <<jobs, active, pending, runs, outcome>>

Woken(e, r) ==
    /\ e \in Envelope /\ tx # None /\ e = tx.env /\ tx.rcpt = None
    /\ Here /\ ~Seen
    /\ UNCHANGED <<live, alive>> /\ cursor' = e.index + 1 /\ cursor <= e.index
    /\ Publish(r) /\ Answers(e, r) /\ Effect(e, r)

LEMMA WakeIs ==
    ASSUME IInv, JournalFits, OnlyCurrent, WakeReceives(payload)
    PROVE  \/ /\ tx # None /\ tx.env.index \in Nat
              /\ cursor <= tx.env.index /\ cursor' = tx.env.index + 1
              /\ tx.rcpt = None
              /\ UNCHANGED <<live, alive, owner, deskTables, receipts>>
           \/ \E e, r : Woken(e, r)
<1>0. JournalFacts BY JournalRead
<1>1. alive /\ UNCHANGED <<live, alive>> BY DEF WakeReceives
<1>2. PICK i \in Own(payload) :
        /\ cursor' = i + 1
        /\ IF Repeated(payload[i])
           THEN UNCHANGED <<owner, jobs, count, active, pending, receipts, historyVars>>
           ELSE Receive(payload[i])
  BY DEF WakeReceives
<1>3. i \in Index /\ cursor <= i /\ payload[i] # Inert /\ payload[i].runtime = live
  BY <1>0, SlotWireAssumption DEF Own, Index, IInv, EngineClock, NextSlot
<1>4. /\ tx # None /\ payload[i] = tx.env /\ tx.env.index = i
  BY <1>1, <1>3 DEF OnlyCurrent, Loadable
<1>5. PICK e \in Envelope : e = tx.env BY <1>0, <1>4 DEF JournalFacts
<1>6. Here BY <1>1, <1>3, <1>4 DEF Here, JournalFits, Exchanging
<1>7. e.index = i /\ i \in Nat /\ cursor \in Nat /\ cursor' = e.index + 1 /\ cursor <= e.index
  BY <1>0, <1>2, <1>3, <1>4, <1>5 DEF JournalFacts, Index
<1>8. tx.rcpt = None BY <1>4, <1>5, <1>6, <1>7 DEF OnlyCurrent
<1>9. CASE Repeated(e)
  <2>1. UNCHANGED <<owner, jobs, count, active, pending, receipts, historyVars>>
    BY <1>2, <1>4, <1>5, <1>9
  <2> QED BY <1>1, <1>4, <1>5, <1>7, <1>8, <2>1 DEF historyVars, deskTables
<1>10. CASE ~Repeated(e)
  <2>1. Receive(e) BY <1>2, <1>4, <1>5, <1>10
  <2>2. PICK r : Publish(r) /\ Answers(e, r) /\ Effect(e, r) BY <2>1, ReceiveIs
  <2>3. ~Seen BY <1>5, <1>10 DEF Repeated, Seen
  <2>4. Woken(e, r) BY <1>1, <1>4, <1>5, <1>6, <1>7, <1>8, <2>2, <2>3 DEF Woken
  <2> QED BY <2>4
<1> QED BY <1>9, <1>10

\* What the engine answers to the exchange under way, and from which desk.
OfBind(e, r) ==
    /\ e.action = "bind" /\ ~bound /\ r.state = "bound"
    /\ owner' = Self /\ UNCHANGED deskTables
OfUnbind(e, r) ==
    /\ e.action = "unbind" /\ Idle /\ r.state = "unbound"
    /\ owner' = None /\ UNCHANGED deskTables
OfConfirm(e, r) ==
    /\ e.action = "confirm" /\ r.state = "reported" /\ UNCHANGED <<owner, deskTables>>
OfPrepare(e, r) ==
    /\ e.action = "prepare" /\ op.stage = "prepared" /\ Idle /\ jobs[OpTicket] = None
    /\ owner' = owner /\ runs' = runs
    /\ \/ /\ r.state = "rejected" /\ r.reason = "slot_capacity" /\ UNCHANGED deskTables
       \/ /\ r.state = "prepared" /\ Sets(OpTicket, "prepared", e.nonce, None)
          /\ pending' = OpTicket /\ active' = None /\ outcome' = outcome
       \/ /\ r.state = "reported" /\ Sets(OpTicket, "reported", e.nonce, "failed")
          /\ r.report = "failed"
          /\ active' = OpTicket /\ pending' = None
          /\ outcome' = [outcome EXCEPT ![OpTicket] = "failed"]
OfCommit(e, r) ==
    /\ e.action = "commit" /\ op.stage = "commit_ready" /\ owner' = owner
    /\ \/ /\ r.state = "rejected" /\ r.reason = "slot_commit_mismatch"
          /\ Unrun(op.prep) /\ UNCHANGED deskTables
       \/ /\ r.state = "accepted" /\ Waiting(op.prep)
          /\ Sets(OpTicket, "running", op.prep, jobs[OpTicket].report)
          /\ active' = OpTicket /\ pending' = None
          /\ runs' = [runs EXCEPT ![OpTicket] = @ + 1] /\ outcome' = outcome
OfRelease(e, r) ==
    /\ e.action = "release" /\ op.stage = "release_ready" /\ Held /\ owner' = owner
    /\ \/ /\ r.state = "rejected" /\ r.reason = "slot_resources_pending"
          /\ UNCHANGED deskTables
       \/ /\ r.state = "released"
          /\ Sets(OpTicket, "released", op.prep, jobs[OpTicket].report)
          /\ active' = None /\ UNCHANGED <<pending, runs, outcome>>

Result(e, r) ==
    \/ OfBind(e, r) \/ OfUnbind(e, r)
    \/ /\ op # None /\ e.ticket = OpTicket /\ OpTicket \in Ticket
       /\ bound /\ ~RecoveryActive /\ owner = Self
       /\ OfConfirm(e, r) \/ OfPrepare(e, r) \/ OfCommit(e, r) \/ OfRelease(e, r)

LEMMA ResultIs ==
    ASSUME IInv, JournalFits, DeskAgrees, NEW e, NEW r, Woken(e, r)
    PROVE  Result(e, r)
<1>0. JournalFacts BY JournalRead
<1>1. /\ tx # None /\ e \in Envelope /\ e = tx.env /\ e.owner = Self
      /\ e.action = "bind" <=> ~bound
      /\ RecoveryActive => e.action = "bind"
      /\ e.action \in {"prepare", "commit", "confirm", "release"} =>
           op # None /\ e.ticket = OpTicket
      /\ e.action = "prepare" => op.stage = "prepared"
      /\ e.action = "commit" => op.stage = "commit_ready" /\ e.prep = op.prep
      /\ e.action = "confirm" => op.stage = "confirm_ready"
      /\ e.action = "release" => op.stage = "release_ready" /\ e.report = op.report
      /\ e.action = "unbind" => OpSettled
      /\ e.action \in Action
  BY EnvelopeRecord DEF JournalFits, Exchanging, Fits, Woken
<1>2. owner = IF bound THEN Self ELSE None BY DEF Woken, DeskAgrees, Bench
<1>3. ~RecoveryActive => StageDesk BY DEF Woken, DeskAgrees, Bench
<1>4. Effect(e, r) BY DEF Woken
<1>5. op # None => op \in Operation /\ OpTicket \in Ticket
  BY <1>0, OperationRecord DEF JournalFacts, OpTicket
<1>6. CASE e.action = "bind"
  <2>1. Admits(e) BY <1>1, <1>2, <1>6, RefusalIs
  <2> QED BY <1>1, <1>4, <1>6, <2>1
          DEF Effect, Turned, Binds, Prepares, Rejects, Commits, Confirms, Releases, Unbinds,
              Result, OfBind, deskTables
<1>7. ASSUME e.action # "bind"
      PROVE  bound /\ ~RecoveryActive /\ owner = Self /\ owner = e.owner /\ StageDesk
  BY <1>1, <1>2, <1>3, <1>7
<1>8. CASE e.action = "unbind"
  <2>1. Idle BY <1>1, <1>7, <1>8 DEF StageDesk
  <2>2. Admits(e) BY <1>7, <1>8, <2>1, RefusalIs DEF Idle
  <2> QED BY <1>4, <1>8, <2>1, <2>2
          DEF Effect, Turned, Binds, Prepares, Rejects, Commits, Confirms, Releases, Unbinds,
              Result, OfUnbind, deskTables
<1>9. CASE e.action = "confirm"
  <2>1. Held BY <1>1, <1>7, <1>9 DEF StageDesk
  <2>2. jobs[e.ticket] # None /\ jobs[e.ticket].state = "reported"
    BY <1>1, <1>9, <2>1 DEF Held, InHand, JobIs
  <2>3. Admits(e) BY <1>7, <1>9, RefusalIs
  <2>4. Confirms(e, r)
    BY <1>4, <1>9, <2>3 DEF Effect, Turned, Binds, Prepares, Rejects, Commits, Releases, Unbinds
  <2>5. OfConfirm(e, r) BY <1>9, <2>2, <2>4 DEF OfConfirm, Confirms, deskTables
  <2> QED BY <1>1, <1>5, <1>7, <1>9, <2>5 DEF Result
<1>10. CASE e.action = "prepare"
  <2> SUFFICES OfPrepare(e, r)
    BY <1>1, <1>5, <1>7, <1>10 DEF Result
  <2>1. Idle /\ jobs[OpTicket] = None /\ op.stage = "prepared" /\ OpTicket \in Ticket
        /\ e.ticket = OpTicket /\ e.nonce \in Nat
    BY <1>1, <1>5, <1>7, <1>10, EnvelopeRecord DEF StageDesk
  <2>2. ~Admits(e) => Refusal(e) = "slot_capacity"
    BY <1>7, <1>10, <2>1, RefusalIs DEF Idle
  <2>3. Turned(e, r) \/ Prepares(e, r) \/ Rejects(e, r)
    BY <1>4, <1>10 DEF Effect, Binds, Commits, Confirms, Releases, Unbinds
  <2>4. CASE Turned(e, r)
    BY <1>10, <2>1, <2>2, <2>4 DEF Turned, OfPrepare, deskTables
  <2>5. CASE Prepares(e, r)
    <3>1. Sets(OpTicket, "prepared", e.nonce, None)
      BY <2>1, <2>5, JobEnters DEF Prepares
    <3> QED BY <1>10, <2>1, <2>5, <3>1 DEF Prepares, OfPrepare, Idle
  <2>6. CASE Rejects(e, r)
    <3>1. Sets(OpTicket, "reported", e.nonce, "failed")
      BY <2>1, <2>6, JobEnters DEF Rejects, Report
    <3> QED BY <1>10, <2>1, <2>6, <3>1 DEF Rejects, OfPrepare, Idle
  <2> QED BY <2>3, <2>4, <2>5, <2>6
<1>11. CASE e.action = "commit"
  <2> SUFFICES OfCommit(e, r)
    BY <1>1, <1>5, <1>7, <1>11 DEF Result
  <2>1. Waiting(op.prep) \/ Unrun(op.prep)
    BY <1>1, <1>7, <1>11 DEF StageDesk
  <2>2. e.ticket = OpTicket /\ e.prep = op.prep /\ op.stage = "commit_ready"
        /\ OpTicket \in Ticket
    BY <1>1, <1>5, <1>11
  <2>3. Turned(e, r) \/ Commits(e, r)
    BY <1>4, <1>11 DEF Effect, Binds, Prepares, Rejects, Confirms, Releases, Unbinds
  <2>4. CASE Waiting(op.prep)
    <3>1. Admits(e)
      BY <1>7, <1>11, <2>2, <2>4, RefusalIs DEF Waiting, JobIs
    <3>2. Commits(e, r) BY <2>3, <3>1 DEF Turned
    <3>3. jobs[OpTicket] # None /\ jobs[OpTicket].nonce = op.prep
      BY <2>4 DEF Waiting, JobIs
    <3>4. Sets(OpTicket, "running", op.prep, jobs[OpTicket].report)
      BY <2>2, <3>2, <3>3, JobMoves DEF Commits
    <3> QED BY <1>11, <2>2, <2>4, <3>2, <3>4 DEF Commits, OfCommit
  <2>5. CASE Unrun(op.prep)
    <3>1. pending # e.ticket BY <2>2, <2>5, NoneIsNoValue DEF Unrun, InHand
    <3>2. ~Admits(e) /\ Refusal(e) = "slot_commit_mismatch"
      BY <1>7, <1>11, <3>1, RefusalIs
    <3>3. Turned(e, r) BY <2>3, <3>2 DEF Commits
    <3> QED BY <1>11, <2>2, <2>5, <3>2, <3>3 DEF Turned, OfCommit, deskTables
  <2> QED BY <2>1, <2>4, <2>5
<1>12. CASE e.action = "release"
  <2> SUFFICES OfRelease(e, r)
    BY <1>1, <1>5, <1>7, <1>12 DEF Result
  <2>1. Held BY <1>1, <1>7, <1>12 DEF StageDesk
  <2>2. e.ticket = OpTicket /\ e.report = op.report /\ op.stage = "release_ready"
        /\ OpTicket \in Ticket
    BY <1>1, <1>5, <1>12
  <2>3. /\ jobs[OpTicket] # None /\ jobs[OpTicket].state = "reported"
        /\ jobs[OpTicket].report = op.report /\ active = OpTicket
        /\ jobs[OpTicket].nonce = op.prep
    BY <2>1 DEF Held, InHand, JobIs
  <2>4. Turned(e, r) \/ Releases(e, r)
    BY <1>4, <1>12 DEF Effect, Binds, Prepares, Rejects, Confirms, Commits, Unbinds
  <2>5. CASE Turned(e, r)
    <3>1. Refusal(e) = "slot_resources_pending"
      BY <1>7, <1>12, <2>2, <2>3, <2>5, RefusalIs DEF Turned
    <3> QED BY <1>12, <2>1, <2>2, <2>5, <3>1 DEF Turned, OfRelease, deskTables
  <2>6. CASE Releases(e, r)
    <3>1. Sets(OpTicket, "released", op.prep, jobs[OpTicket].report)
      BY <2>2, <2>3, <2>6, JobMoves DEF Releases
    <3> QED BY <1>12, <2>1, <2>2, <2>3, <2>6, <3>1 DEF Releases, OfRelease
  <2> QED BY <2>4, <2>5, <2>6
<1> QED BY <1>1, <1>6, <1>8, <1>9, <1>10, <1>11, <1>12 DEF Action

-----------------------------------------------------------------------------
(* The game moves neither the journal nor the pool.                        *)
gameLeaves == <<journal, sending, results, policy, nonces, sent, entry, payload>>

LEMMA JournalStays ==
    ASSUME JournalFits, AutomaticFits, Owned, Keyed, UNCHANGED gameLeaves
    PROVE  JournalFits' /\ AutomaticFits' /\ Owned' /\ Keyed'
<1> USE DEF gameLeaves, journal
<1>1. JournalFits'
  BY DEF JournalFits, Exchanging, RecoveryFits, ReloadFits, OpFits, ClosedFits, Fits,
         OpTicket, RecoveryActive, ReloadActive, OpSettled
<1>2. AutomaticFits' BY DEF AutomaticFits, ReloadActive
<1>3. Owned' BY DEF Owned, Reserved, Claims, RecoveryActive
<1>4. Keyed' BY DEF Keyed, Attempted, ReloadActive
<1> QED BY <1>1, <1>2, <1>3, <1>4

\* What of the journal the desk of the engine is compared with.
LEMMA JournalHeld ==
    ASSUME UNCHANGED gameLeaves
    PROVE  /\ UNCHANGED <<identity, bound, tx, op, reload, recovery, closed, processEnd, runtimeEnd,
                          results, policy, nonces, sent, entry, payload>>
           /\ OpTicket' = OpTicket /\ RecoveryActive' = RecoveryActive
           /\ ReloadActive' = ReloadActive /\ OpSettled' = OpSettled
           /\ CommitUnderWay' = CommitUnderWay
           /\ \A t : Begun(t)' = Begun(t) /\ Past(t)' = Past(t)
           /\ \A a : Under(a)' = Under(a)
           /\ Binding' = Binding /\ Working' = Working
BY DEF gameLeaves, journal, OpTicket, RecoveryActive, ReloadActive, OpSettled, CommitUnderWay,
       Under, Begun, Past, Binding, Working

LEMMA WokenAnswer ==
    ASSUME IInv, Agreed, NEW e, NEW r, Woken(e, r), UNCHANGED gameLeaves
    PROVE  AnswerDesk(r)'
<1>1. Result(e, r) BY ResultIs DEF Agreed
<1>2. tx # None /\ e = tx.env BY DEF Woken
<1>3. tx' = tx /\ op' = op /\ OpTicket' = OpTicket /\ \A a : Under(a)' = Under(a)
  BY JournalHeld
<1>4. \A a : Under(a)' <=> e.action = a BY <1>2, <1>3 DEF Under
<1>5. CASE OfBind(e, r) BY <1>4, <1>5 DEF OfBind, AnswerDesk
<1>6. CASE OfUnbind(e, r) BY <1>4, <1>6 DEF OfUnbind, AnswerDesk
<1>7. CASE OfConfirm(e, r) BY <1>4, <1>7 DEF OfConfirm, AnswerDesk
<1>8. CASE /\ op # None /\ OpTicket \in Ticket
           /\ OfPrepare(e, r) \/ OfCommit(e, r) \/ OfRelease(e, r)
  <2>1. CASE OfPrepare(e, r)
    <3>1. /\ e.action = "prepare" /\ op.stage = "prepared" /\ Idle /\ jobs[OpTicket] = None
          /\ runs'[OpTicket] = 0
      BY <1>8, <2>1 DEF OfPrepare, Agreed, RunsFit
    <3>2. CASE r.state = "rejected"
      BY <1>3, <1>4, <2>1, <3>1, <3>2 DEF OfPrepare, AnswerDesk, deskTables, Idle
    <3>3. CASE r.state = "prepared"
      <4>1. /\ Sets(OpTicket, "prepared", e.nonce, None)
            /\ pending' = OpTicket /\ active' = None
        BY <2>1, <3>3 DEF OfPrepare
      <4>2. Waiting(tx.env.nonce)'
        BY <1>2, <1>3, <3>1, <4>1 DEF Waiting, JobIs, Sets
      <4> QED BY <1>4, <3>1, <3>3, <4>2 DEF AnswerDesk
    <3>4. CASE r.state = "reported"
      <4>1. /\ Sets(OpTicket, "reported", e.nonce, "failed")
            /\ active' = OpTicket /\ pending' = None
        BY <2>1, <3>4 DEF OfPrepare
      <4>2. Unrun(tx.env.nonce)'
        BY <1>2, <1>3, <3>1, <4>1 DEF Unrun, InHand, JobIs, Sets
      <4> QED BY <1>4, <3>1, <3>4, <4>2 DEF AnswerDesk
    <3> QED BY <2>1, <3>2, <3>3, <3>4 DEF OfPrepare
  <2>2. CASE OfCommit(e, r)
    <3>1. e.action = "commit" BY <2>2 DEF OfCommit
    <3>2. CASE r.state = "rejected"
      BY <1>3, <1>4, <2>2, <3>1, <3>2
         DEF OfCommit, AnswerDesk, deskTables, Unrun, InHand, JobIs
    <3>3. CASE r.state = "accepted"
      <4>1. /\ Sets(OpTicket, "running", op.prep, jobs[OpTicket].report)
            /\ active' = OpTicket /\ pending' = None
        BY <2>2, <3>3 DEF OfCommit
      <4>2. InHand(op.prep, {"running", "reported"})'
        BY <1>3, <4>1 DEF InHand, JobIs, Sets
      <4> QED BY <1>4, <3>1, <3>3, <4>2 DEF AnswerDesk
    <3> QED BY <2>2, <3>2, <3>3 DEF OfCommit
  <2>3. CASE OfRelease(e, r)
    BY <1>3, <1>4, <2>3
       DEF OfRelease, AnswerDesk, deskTables, Held, InHand, JobIs, Idle
  <2> QED BY <1>8, <2>1, <2>2, <2>3
<1> QED BY <1>1, <1>5, <1>6, <1>7, <1>8 DEF Result

LEMMA WokenDesk ==
    ASSUME IInv, Agreed, NEW e, NEW r, Woken(e, r), UNCHANGED gameLeaves
    PROVE  DeskAgrees'
<1>1. Result(e, r) BY ResultIs DEF Agreed
<1>2. /\ tx # None /\ e = tx.env /\ tx.rcpt = None /\ Here /\ ~Seen
      /\ live' = live /\ alive' = alive /\ Publish(r) /\ r.nonce = e.nonce
  BY DEF Woken, Answers
<1>3. /\ UNCHANGED <<identity, bound, tx, op>>
      /\ OpTicket' = OpTicket /\ RecoveryActive' = RecoveryActive /\ OpSettled' = OpSettled
      /\ Binding' = Binding /\ Working' = Working /\ \A a : Under(a)' = Under(a)
  BY JournalHeld
<1>4. AnswerDesk(r)' BY WokenAnswer
<1>5. Here' /\ live = identity.runtime BY <1>2, <1>3 DEF Here
<1>6. Desk /\ Bench BY <1>2 DEF Agreed, DeskAgrees
<1>7. Self # None BY ChannelAssumption, SlotWireAssumption
<1>8. Desk'
  <2>1. owner' \in {None, Self}
    BY <1>1, <1>6 DEF Result, OfBind, OfUnbind, OfConfirm, OfPrepare, OfCommit, OfRelease, Desk
  <2>2. RecoveryActive => NoJobs'
    <3>1. RecoveryActive => OfBind(e, r) \/ OfUnbind(e, r) BY <1>1 DEF Result
    <3> QED BY <1>6, <3>1 DEF OfBind, OfUnbind, deskTables, Desk, NoJobs, Idle
  <2>3. live \in Nat BY JournalRead DEF JournalFacts
  <2> QED BY <1>2, <1>3, <1>5, <2>1, <2>2, <2>3 DEF Desk
<1>9. NoStrayRefusal' BY <1>2, <1>3 DEF NoStrayRefusal
<1>10. Bench'
  <2>1. Seen' BY <1>2, <1>3 DEF Seen, Publish
  <2>2. ~Binding => owner' = IF bound THEN Self ELSE None
    BY <1>1, <1>2, <1>6
       DEF Result, OfBind, OfUnbind, OfConfirm, OfPrepare, OfCommit, OfRelease, Binding, Under,
           Bench
  <2>3. ~RecoveryActive /\ ~Working => StageDesk'
    <3>1. ~Working => UNCHANGED deskTables
      BY <1>1, <1>2
         DEF Result, OfBind, OfUnbind, OfConfirm, OfPrepare, OfCommit, OfRelease, Working, Under
    <3> QED BY <1>3, <1>6, <3>1
            DEF Bench, StageDesk, deskTables, Idle, Waiting, Unrun, Held, InHand, JobIs
  <2>4. \A q \in receipts' : q.nonce = tx.env.nonce => q = r
    BY <1>2 DEF Publish, Seen
  <2> QED BY <1>2, <1>3, <1>4, <2>1, <2>2, <2>3, <2>4 DEF Bench
<1> QED BY <1>8, <1>9, <1>10 DEF DeskAgrees

LEMMA TicketPair ==
    ASSUME NEW t \in Ticket
    PROVE  /\ t = <<t[1], t[2]>> /\ t[1] \in Nat /\ t[2] \in Nat /\ t[1] \in Operations
BY DEF Ticket, Operations

LEMMA OpTicketPair == OpTicket[1] = op.id /\ OpTicket[2] = op.attempt
BY DEF OpTicket

(* Sets, ticket by ticket: every other job is the one it was.              *)
LEMMA WokenJobs ==
    ASSUME IInv, Agreed, NEW e, NEW r, Woken(e, r), UNCHANGED gameLeaves
    PROVE  JobsFit'
<1>1. Result(e, r) BY ResultIs DEF Agreed
<1>2. tx # None /\ e = tx.env /\ Publish(r) /\ r.action = e.action /\ r.ticket = e.ticket
  BY DEF Woken, Answers
<1>3. /\ op' = op /\ OpTicket' = OpTicket /\ \A t : Past(t)' = Past(t)
  BY JournalHeld
<1>4. JobsFit BY DEF Agreed
<1>a. receipts \subseteq Receipt /\ active \in Ticket \cup {None} /\ pending \in Ticket \cup {None}
      /\ outcome \in [Ticket -> Report \cup {None}]
  BY DEF IInv, EngineDesk
<1>5. CASE UNCHANGED deskTables /\ ~(r.action = "prepare" /\ r.state = "reported")
  <2>1. \A q \in receipts' : q \in receipts \/ q = r BY <1>2 DEF Publish
  <2> QED BY <1>3, <1>4, <1>5, <2>1 DEF JobsFit, deskTables
<1>6. ASSUME NEW s \in {"prepared", "reported", "running", "released"}, NEW n, NEW p,
             OpTicket \in Ticket, op # None, Sets(OpTicket, s, n, p),
             pending' # None => pending' = OpTicket /\ s = "prepared",
             active' # None => active' = OpTicket /\ s \in {"running", "reported"},
             \A t \in Ticket \ {OpTicket} : outcome'[t] = outcome[t],
             s \in {"reported", "released"} => p = outcome'[OpTicket] /\ p # None,
             r.action = "prepare" /\ r.state = "reported" =>
               r.ticket = OpTicket /\ s = "reported" /\ r.report = p,
             jobs[OpTicket] # None /\ jobs[OpTicket].state \in {"reported", "released"} =>
               s \in {"reported", "released"} /\ p = jobs[OpTicket].report
      PROVE  JobsFit'
  <2>1. \A t \in Ticket : jobs'[t] # None => Past(t)'
    BY <1>3, <1>4, <1>6 DEF Sets, JobsFit, Past
  <2>2. pending' # None => jobs'[pending'].state = "prepared" BY <1>6 DEF Sets
  <2>3. active' # None => jobs'[active'].state \in {"running", "reported"} BY <1>6 DEF Sets
  <2>4. \A t \in Ticket : jobs'[t] # None /\ jobs'[t].state \in {"reported", "released"} =>
          (jobs'[t].report = outcome'[t] /\ outcome'[t] # None)
    BY <1>4, <1>6 DEF Sets, JobsFit
  <2>5. \A q \in receipts' : (q.action = "prepare" /\ q.state = "reported") =>
          /\ q.ticket \in Ticket /\ jobs'[q.ticket] # None
          /\ jobs'[q.ticket].state \in {"reported", "released"}
          /\ q.report = jobs'[q.ticket].report
    <3>1. TAKE q \in receipts'
    <3>2. HAVE q.action = "prepare" /\ q.state = "reported"
    <3>3. CASE q = r BY <1>6, <3>2, <3>3 DEF Sets
    <3>4. CASE q \in receipts
      <4>1. /\ q.ticket \in Ticket /\ jobs[q.ticket] # None
            /\ jobs[q.ticket].state \in {"reported", "released"}
            /\ q.report = jobs[q.ticket].report
        BY <1>4, <3>2, <3>4 DEF JobsFit
      <4>2. CASE q.ticket = OpTicket BY <1>6, <4>1, <4>2 DEF Sets
      <4>3. CASE q.ticket # OpTicket BY <1>6, <4>1, <4>3 DEF Sets
      <4> QED BY <4>2, <4>3
    <3> QED BY <1>2, <3>3, <3>4 DEF Publish
  <2> QED BY <2>1, <2>2, <2>3, <2>4, <2>5 DEF JobsFit
<1>7. CASE OfBind(e, r) \/ OfUnbind(e, r) \/ OfConfirm(e, r)
  BY <1>2, <1>5, <1>7 DEF OfBind, OfUnbind, OfConfirm, deskTables
<1>8. CASE OfPrepare(e, r) /\ op # None /\ OpTicket \in Ticket /\ e.ticket = OpTicket
  <2>1. CASE r.state = "rejected"
    BY <1>5, <1>8, <2>1 DEF OfPrepare
  <2>2. CASE r.state = "prepared"
    <3>1. /\ Sets(OpTicket, "prepared", e.nonce, None) /\ jobs[OpTicket] = None
          /\ pending' = OpTicket /\ active' = None /\ outcome' = outcome
      BY <1>8, <2>2 DEF OfPrepare
    <3> QED BY <1>6, <1>8, <2>2, <3>1
  <2>3. CASE r.state = "reported"
    <3>1. /\ Sets(OpTicket, "reported", e.nonce, "failed") /\ jobs[OpTicket] = None
          /\ pending' = None /\ active' = OpTicket /\ r.report = "failed"
          /\ outcome' = [outcome EXCEPT ![OpTicket] = "failed"]
      BY <1>8, <2>3 DEF OfPrepare
    <3>2. outcome'[OpTicket] = "failed" /\ "failed" # None
          /\ \A t \in Ticket \ {OpTicket} : outcome'[t] = outcome[t]
      BY <1>a, <1>8, <3>1, NoneIsNoValue DEF Report
    <3> QED BY <1>2, <1>6, <1>8, <3>1, <3>2
  <2> QED BY <1>8, <2>1, <2>2, <2>3 DEF OfPrepare
<1>9. CASE OfCommit(e, r) /\ op # None /\ OpTicket \in Ticket
  <2>0. r.action # "prepare" BY <1>2, <1>9 DEF OfCommit
  <2>1. CASE r.state = "rejected"
    BY <1>5, <1>9, <2>0, <2>1 DEF OfCommit
  <2>2. CASE r.state = "accepted"
    <3>1. /\ Sets(OpTicket, "running", op.prep, jobs[OpTicket].report)
          /\ jobs[OpTicket].state = "prepared"
          /\ pending' = None /\ active' = OpTicket /\ outcome' = outcome
      BY <1>9, <2>2 DEF OfCommit, Waiting, JobIs
    <3> QED BY <1>6, <1>9, <2>0, <3>1
  <2> QED BY <1>9, <2>1, <2>2 DEF OfCommit
<1>10. CASE OfRelease(e, r) /\ op # None /\ OpTicket \in Ticket
  <2>0. r.action # "prepare" BY <1>2, <1>10 DEF OfRelease
  <2>1. CASE r.state = "rejected"
    BY <1>5, <1>10, <2>0, <2>1 DEF OfRelease
  <2>2. CASE r.state = "released"
    <3>1. /\ Sets(OpTicket, "released", op.prep, jobs[OpTicket].report)
          /\ jobs[OpTicket] # None /\ jobs[OpTicket].state = "reported"
          /\ pending' = pending /\ pending = None /\ active' = None /\ outcome' = outcome
      BY <1>10, <2>2 DEF OfRelease, Held, InHand, JobIs
    <3>2. jobs[OpTicket].report = outcome[OpTicket] /\ outcome[OpTicket] # None
      BY <1>4, <1>10, <3>1 DEF JobsFit
    <3> QED BY <1>6, <1>10, <2>0, <3>1, <3>2
  <2> QED BY <1>10, <2>1, <2>2 DEF OfRelease
<1> QED BY <1>1, <1>7, <1>8, <1>9, <1>10 DEF Result

LEMMA WokenRuns ==
    ASSUME IInv, Agreed, NEW e, NEW r, Woken(e, r), UNCHANGED gameLeaves
    PROVE  RunsFit'
<1>1. Result(e, r) BY ResultIs DEF Agreed
<1>2. tx # None /\ e = tx.env BY DEF Woken
<1>3. /\ UNCHANGED <<op, policy>> /\ OpTicket' = OpTicket /\ \A t : Begun(t)' = Begun(t)
      /\ CommitUnderWay' = CommitUnderWay
  BY JournalHeld
<1>4. RunsFit BY DEF Agreed
<1>5. CASE runs' = runs BY <1>3, <1>4, <1>5 DEF RunsFit
<1>6. CASE runs' # runs
  <2>1. /\ op # None /\ OpTicket \in Ticket
        /\ e.action = "commit" /\ op.stage = "commit_ready" /\ runs[OpTicket] = 0
        /\ runs' = [runs EXCEPT ![OpTicket] = @ + 1]
    BY <1>1, <1>6
       DEF Result, OfBind, OfUnbind, OfConfirm, OfPrepare, OfCommit, OfRelease, deskTables, Waiting
  <2>2. runs'[OpTicket] = 1 /\ \A t \in Ticket \ {OpTicket} : runs'[t] = runs[t]
    BY <2>1 DEF IInv, EngineDesk
  <2>3. CommitUnderWay BY <1>2, <2>1 DEF CommitUnderWay, Under
  <2>a. op.id \in Nat /\ op.attempt \in Nat
    BY <2>1, JournalRead, OperationRecord DEF JournalFacts
  <2>4. Begun(OpTicket) BY <2>1, <2>a, OpTicketPair DEF Begun
  <2>5. \A t \in Ticket : t[1] = op.id /\ t[2] < op.attempt => t # OpTicket
    BY <2>a, OpTicketPair
  <2>6. ASSUME NEW u \in Ticket, u # OpTicket, u[1] = op.id, policy[op.id] = "opaque"
        PROVE  runs[u] = 0
    <3>1. Begun(u) => u[2] <= op.attempt BY <2>a, <2>6 DEF Begun
    <3>2. u[2] # op.attempt BY <2>6, TicketPair DEF OpTicket
    <3>3. Begun(u) => u[2] < op.attempt
      BY <2>a, <3>1, <3>2, TicketPair
    <3> QED BY <1>4, <2>1, <2>6, <3>3 DEF RunsFit
  <2>7. \A t, u \in Ticket :
          t[1] = u[1] /\ policy[t[1]] = "opaque" /\ runs'[t] # 0 /\ runs'[u] # 0 => t = u
    <3>1. TAKE t, u \in Ticket
    <3>2. HAVE t[1] = u[1] /\ policy[t[1]] = "opaque" /\ runs'[t] # 0 /\ runs'[u] # 0
    <3>3. CASE t = OpTicket /\ u # OpTicket BY <2>2, <2>6, <3>2, <3>3, OpTicketPair
    <3>4. CASE u = OpTicket /\ t # OpTicket BY <2>2, <2>6, <3>2, <3>4, OpTicketPair
    <3>5. CASE t # OpTicket /\ u # OpTicket BY <1>4, <2>2, <3>2, <3>5 DEF RunsFit
    <3> QED BY <3>3, <3>4, <3>5
  <2>8. \A t \in Ticket : runs'[t] <= 1 BY <1>4, <2>2 DEF RunsFit
  <2>9. \A t \in Ticket : runs'[t] # 0 => Begun(t) BY <1>4, <2>2, <2>4 DEF RunsFit
  <2>10. policy[op.id] = "opaque" =>
           \A t \in Ticket : t[1] = op.id /\ t[2] < op.attempt => runs'[t] = 0
    BY <1>4, <2>1, <2>2, <2>5 DEF RunsFit
  <2> QED BY <1>3, <2>1, <2>3, <2>7, <2>8, <2>9, <2>10 DEF RunsFit
<1> QED BY <1>5, <1>6

LEMMA WokenKept ==
    ASSUME IInv, Agreed, Kept, NEW e, NEW r, Woken(e, r), UNCHANGED gameLeaves
    PROVE  Kept'
<1>1. Result(e, r) BY ResultIs DEF Agreed
<1>2. tx # None /\ e = tx.env /\ live' = live /\ alive' = alive /\ live = identity.runtime
  BY DEF Woken, Here
<1>3. /\ UNCHANGED <<op, reload, results, closed>> /\ OpTicket' = OpTicket
      /\ ReloadActive' = ReloadActive
  BY JournalHeld
<1>4. ResultsFit'
  <2>1. op # None /\ op.stage \in {"confirm_ready", "result_verified", "release_ready", "complete"} =>
          outcome' = outcome
    BY <1>1 DEF Result, OfBind, OfUnbind, OfConfirm, OfPrepare, OfCommit, OfRelease, deskTables
  <2> QED BY <1>3, <2>1 DEF Kept, ResultsFit
<1>5. ReloadLosesNothing'
  <2>1. CASE \A t \in Ticket : jobs'[t] # None => jobs[t] # None
    BY <1>2, <1>3, <2>1 DEF Kept, ReloadLosesNothing
  <2>2. CASE e.action = "prepare"
    <3>1. ~(ReloadActive /\ reload.automatic /\ live = reload.from)
      <4>1. ReloadActive /\ reload.automatic => reload.phase = "binding"
        BY <1>2, <2>2 DEF Agreed, AutomaticFits
      <4>2. ReloadActive /\ reload.phase = "binding" => reload.from < identity.runtime
        BY DEF Agreed, JournalFits, ReloadFits
      <4>3. ReloadActive => reload.from \in Nat /\ identity.runtime \in Nat
        BY JournalRead DEF JournalFacts, ReloadActive
      <4> QED BY <1>2, <4>1, <4>2, <4>3
    <3> QED BY <1>2, <1>3, <3>1 DEF ReloadLosesNothing
  <2>3. e.action # "prepare" => \A t \in Ticket : jobs'[t] # None => jobs[t] # None
    BY <1>1 DEF Result, OfBind, OfUnbind, OfConfirm, OfPrepare, OfCommit, OfRelease, deskTables,
                Sets, Waiting, Held, InHand, JobIs
  <2> QED BY <2>1, <2>2, <2>3
<1>6. ReleaseAfterDurable'
  <2>1. CASE OfRelease(e, r) /\ op # None /\ OpTicket \in Ticket /\ r.state = "released"
    <3>1. results[op.id] # None
      BY <2>1 DEF OfRelease, Kept, ResultsFit
    <3>2. \A t \in Ticket \ {OpTicket} : jobs'[t] = jobs[t]
      BY <2>1 DEF OfRelease, Sets
    <3> QED BY <1>3, <3>1, <3>2, OpTicketPair DEF Kept, ReleaseAfterDurable
  <2>2. \A t \in Ticket : jobs'[t] # None /\ jobs'[t].state = "released" =>
          \/ jobs[t] # None /\ jobs[t].state = "released"
          \/ OfRelease(e, r) /\ op # None /\ OpTicket \in Ticket /\ r.state = "released"
    BY <1>1 DEF Result, OfBind, OfUnbind, OfConfirm, OfPrepare, OfCommit, OfRelease, deskTables,
                Sets
  <2> QED BY <1>3, <2>1, <2>2 DEF Kept, ReleaseAfterDurable
<1> QED BY <1>4, <1>5, <1>6 DEF Kept

\* What happens to the cursor, whoever answered.
LEMMA CursorMoves ==
    ASSUME IInv, OnlyCurrent, UNCHANGED gameLeaves, live' = live, alive' = alive,
           cursor <= cursor', cursor' \in Nat
    PROVE  OnlyCurrent'
<1>1. UNCHANGED <<identity, tx, payload, entry>> BY JournalHeld
<1>2. Here' = Here BY <1>1 DEF Here
<1>3. cursor \in Nat BY JournalRead DEF JournalFacts
<1>4. \A i \in Index : i \in Nat /\ (Loadable(i)' => Loadable(i)) /\ Reserved(i)' = Reserved(i)
  BY <1>1, <1>3 DEF Loadable, Index, Reserved
<1>5. tx # None => tx.env.index \in Nat BY JournalRead, EnvelopeRecord DEF JournalFacts
<1> QED BY <1>1, <1>2, <1>3, <1>4, <1>5 DEF OnlyCurrent, Claims

LEMMA WokenClock ==
    ASSUME IInv, EndFits, TokensGrow, OnlyCurrent, Agreed, NEW e, NEW r, Woken(e, r),
           UNCHANGED gameLeaves
    PROVE  EndFits' /\ TokensGrow' /\ OnlyCurrent'
<1>1. Result(e, r) BY ResultIs DEF Agreed
<1>2. /\ tx # None /\ e = tx.env /\ e.index \in Nat /\ e.nonce \in Nat
      /\ live' = live /\ alive' = alive /\ cursor' = e.index + 1 /\ cursor <= e.index
      /\ Publish(r) /\ r.runtime = live /\ r.next = cursor' /\ r.nonce = e.nonce
  BY EnvelopeRecord DEF Woken, Answers
<1>3. UNCHANGED <<identity, tx, op, recovery, runtimeEnd, processEnd, nonces, sent, entry, payload>>
  BY JournalHeld
<1>4. \A q \in receipts' : q \in receipts \/ q = r BY <1>2 DEF Publish
<1>5. cursor \in Nat /\ cursor' \in Nat BY <1>2, JournalRead DEF JournalFacts
<1>6. EndFits'
  <2>1. \A q \in receipts : q.next <= cursor /\ q.next \in Nat
    BY ReceiptRecord DEF EndFits, IInv, EngineDesk
  <2> QED BY <1>2, <1>3, <1>4, <1>5, <2>1 DEF EndFits
<1>7. TokensGrow'
  <2>1. e.nonce <= nonces BY <1>2 DEF TokensGrow
  <2>2. \A t \in Ticket : jobs'[t] # None =>
          \/ jobs[t] # None /\ jobs'[t].nonce = jobs[t].nonce
          \/ jobs'[t].nonce = e.nonce
          \/ op # None /\ jobs'[t].nonce = op.prep
    BY <1>1 DEF Result, OfBind, OfUnbind, OfConfirm, OfPrepare, OfCommit, OfRelease, deskTables,
                Sets
  <2> QED BY <1>2, <1>3, <1>4, <2>1, <2>2 DEF TokensGrow
<1>8. OnlyCurrent' BY <1>2, <1>5, CursorMoves
<1> QED BY <1>6, <1>7, <1>8

-----------------------------------------------------------------------------
(* A job that ends by itself, and one that the player cancels: both are    *)
(* jobs of the operation under way.                                        *)

\* finish(), field by field.
Reports(t, p) ==
    /\ Sets(t, "reported", jobs[t].nonce, p)
    /\ outcome'[t] = p /\ \A u \in Ticket \ {t} : outcome'[u] = outcome[u]
    /\ UNCHANGED <<live, alive, cursor, owner, runs>>
    /\ \E q : /\ q.nonce = jobs[t].nonce /\ q.action = "prepare" /\ q.ticket = t
              /\ q.runtime = live /\ q.next = cursor /\ q.state = "reported"
              /\ q.report = p /\ Publish(q)

LEMMA ReportsIs ==
    ASSUME IInv, NEW t \in Ticket, jobs[t] # None, NEW p \in Report, NEW h \in BOOLEAN,
           FinishJob(t, p, h)
    PROVE  Reports(t, p)
<1>1. jobs[t] \in Job BY JobRead
<1>2. jobs' = [jobs EXCEPT ![t] = [jobs[t] EXCEPT !.state = "reported",
                                      !.report = p, !.held = h]]
  BY DEF FinishJob, IInv, EngineDesk
<1> DEFINE j == [jobs[t] EXCEPT !.state = "reported", !.report = p, !.held = h]
<1>3. j \in Job /\ j.state = "reported" /\ j.report = p /\ j.nonce = jobs[t].nonce
  BY <1>1 DEF Job
<1> HIDE DEF j
<1>4. jobs'[t] = j /\ \A u \in Ticket \ {t} : jobs'[u] = jobs[u]
  BY <1>2 DEF IInv, EngineDesk, j
<1>5. Sets(t, "reported", jobs[t].nonce, p) BY <1>3, <1>4, NoneIsNoJob DEF Sets
<1>6. outcome'[t] = p /\ \A u \in Ticket \ {t} : outcome'[u] = outcome[u]
  BY DEF FinishJob, IInv, EngineDesk
<1>7. UNCHANGED <<live, alive, cursor, owner, runs>> BY DEF FinishJob
<1>8. \E q : /\ q.nonce = jobs[t].nonce /\ q.action = "prepare" /\ q.ticket = t
             /\ q.runtime = live /\ q.next = cursor /\ q.state = "reported"
             /\ q.report = p /\ Publish(q)
  <2>1. PICK q : q = [nonce |-> jobs[t].nonce, action |-> "prepare", ticket |-> t,
                      runtime |-> live, owner |-> owner, next |-> cursor,
                      state |-> "reported", reason |-> "", prep |-> 0, report |-> p]
    OBVIOUS
  <2>2. Publish(q) BY <2>1, Zenon DEF FinishJob
  <2>3. /\ q.nonce = jobs[t].nonce /\ q.action = "prepare" /\ q.ticket = t
        /\ q.runtime = live /\ q.next = cursor /\ q.state = "reported" /\ q.report = p
    BY <2>1, Zenon
  <2> QED BY <2>2, <2>3
<1> QED BY <1>5, <1>6, <1>7, <1>8 DEF Reports

\* A job is there only in the runtime the journal names, and not while a
\* recovery is under way.
LEMMA WithJob ==
    ASSUME IInv, Agreed, EndFits, alive, NEW t \in Ticket, jobs[t] # None
    PROVE  Here /\ ~RecoveryActive /\ Bench
<1>1. JournalFacts BY JournalRead
<1>2. ~NoJobs BY DEF NoJobs
<1>3. live = identity.runtime /\ ~RecoveryActive
  BY <1>1, <1>2 DEF Agreed, DeskAgrees, Desk, EndFits, JournalFacts
<1> QED BY <1>3 DEF Here, Agreed, DeskAgrees

LEMMA Settling ==
    ASSUME IInv, Agreed, EndFits, JobSettles
    PROVE  /\ Here /\ op # None /\ OpTicket \in Ticket /\ active = OpTicket
           /\ InHand(op.prep, {"running"})
           /\ \/ op.stage = "running" /\ tx = None
              \/ op.stage = "commit_ready" /\ Under("commit") /\ Seen
           /\ \E p \in Report : Reports(OpTicket, p)
           /\ UNCHANGED <<active, pending>>
<1>0. JournalFacts BY JournalRead
<1>1. /\ alive /\ active # None /\ jobs[active].state = "running"
      /\ UNCHANGED <<active, pending>>
  BY DEF JobSettles
<1>2. active \in Ticket /\ jobs[active] # None BY <1>1 DEF IInv, EngineDesk
<1>3. Here /\ ~RecoveryActive /\ Bench BY <1>1, <1>2, WithJob
<1>4. op # None => op \in Operation /\ OpTicket \in Ticket
  BY <1>0, OperationRecord DEF JournalFacts, OpTicket
<1>5. Exchanging /\ OpFits /\ ClosedFits BY DEF Agreed, JournalFits
<1> DEFINE found == /\ Here /\ op # None /\ OpTicket \in Ticket /\ active = OpTicket
                    /\ InHand(op.prep, {"running"})
                    /\ \/ op.stage = "running" /\ tx = None
                       \/ op.stage = "commit_ready" /\ Under("commit") /\ Seen
<1>6. ASSUME Working /\ Seen PROVE found
  <2>1. PICK r \in receipts : r.nonce = tx.env.nonce BY <1>6 DEF Seen
  <2>2. tx # None /\ AnswerDesk(r) /\ Fits(tx)
    BY <1>3, <1>5, <1>6, <2>1 DEF Bench, Working, Under, Exchanging
  <2>3. ~Under("prepare")
    BY <1>1, <2>2 DEF AnswerDesk, Idle, Waiting, Unrun, InHand, JobIs
  <2>4. ~Under("release")
    BY <1>1, <2>2 DEF AnswerDesk, Idle, Held, InHand, JobIs
  <2>5. Under("commit") BY <1>6, <2>3, <2>4 DEF Working
  <2>6. op # None /\ op.stage = "commit_ready" BY <2>2, <2>5 DEF Fits, Under
  <2>7. InHand(op.prep, {"running"})
    BY <1>1, <2>2, <2>5 DEF AnswerDesk, Unrun, InHand, JobIs
  <2> QED BY <1>3, <1>4, <1>6, <2>5, <2>6, <2>7 DEF InHand
<1>7. ASSUME ~(Working /\ Seen) PROVE found
  <2>1. StageDesk BY <1>3, <1>7 DEF Bench
  <2>2. ~OpSettled BY <1>1, <2>1 DEF StageDesk, Idle
  <2>3. op # None /\ op.stage \notin {"complete", "cancelled", "execution_unknown"}
    BY <2>2 DEF OpSettled
  <2>4. op.stage \notin {"prepared", "commit_ready", "confirm_ready", "result_verified",
                         "release_ready"}
    BY <1>1, <2>1, <2>3 DEF StageDesk, Idle, Waiting, Unrun, Held, InHand, JobIs
  <2>5. op.stage = "running"
    <3>1. op \in Operation BY <1>4, <2>3
    <3> QED BY <2>3, <2>4, <3>1 DEF Operation
  <2>6. InHand(op.prep, {"running"})
    BY <1>1, <2>1, <2>3, <2>5 DEF StageDesk, InHand, JobIs
  <2>7. tx = None
    <3>1. SUFFICES ASSUME tx # None PROVE FALSE OBVIOUS
    <3>2. tx.env.action \in Action BY <1>0, <3>1, EnvelopeRecord DEF JournalFacts
    <3>3. Fits(tx) /\ (tx.env.action = "bind" <=> ~bound) BY <1>5, <3>1 DEF Exchanging
    <3>4. tx.env.action = "bind" BY <2>2, <2>5, <3>2, <3>3 DEF Fits, Action
    <3>5. ~bound BY <3>3, <3>4
    <3> QED BY <1>3, <1>5, <2>2, <2>3, <3>5 DEF OpFits, ClosedFits
  <2> QED BY <1>3, <1>4, <2>3, <2>5, <2>6, <2>7 DEF InHand
<1>8. found BY <1>6, <1>7
<1>9. \E p \in Report : Reports(OpTicket, p)
  <2>1. PICK p \in Report, h \in BOOLEAN : FinishJob(active, p, h) BY DEF JobSettles
  <2> QED BY <1>2, <1>8, <2>1, ReportsIs
<1> QED BY <1>1, <1>8, <1>9

LEMMA Cancelling ==
    ASSUME IInv, Agreed, EndFits, CloseCancelsPrepared
    PROVE  /\ Here /\ op # None /\ OpTicket \in Ticket
           /\ jobs[OpTicket] # None /\ jobs[OpTicket].state = "prepared"
           /\ runs[OpTicket] = 0
           /\ \/ /\ op.stage = "commit_ready" /\ jobs[OpTicket].nonce = op.prep
                 /\ ~(Working /\ Seen)
              \/ /\ op.stage = "prepared" /\ jobs[OpTicket].nonce = tx.env.nonce
                 /\ Under("prepare") /\ Seen
                 /\ tx.rcpt # None => tx.rcpt.state = "prepared"
           /\ Reports(OpTicket, "failed")
           /\ active' = OpTicket /\ pending' = None
<1>0. JournalFacts BY JournalRead
<1>1. /\ alive /\ pending # None /\ active' = pending /\ pending' = None
      /\ FinishJob(pending, "failed", FALSE)
  BY DEF CloseCancelsPrepared
<1>2. pending \in Ticket /\ jobs[pending] # None /\ jobs[pending].state = "prepared"
  BY <1>1 DEF IInv, EngineDesk, Agreed, JobsFit
<1>3. Here /\ ~RecoveryActive /\ Bench BY <1>1, <1>2, WithJob
<1>4. op # None => op \in Operation /\ OpTicket \in Ticket
  BY <1>0, OperationRecord DEF JournalFacts, OpTicket
<1> DEFINE found == /\ Here /\ op # None /\ OpTicket \in Ticket /\ pending = OpTicket
                    /\ runs[OpTicket] = 0
                    /\ \/ /\ op.stage = "commit_ready" /\ jobs[OpTicket].nonce = op.prep
                          /\ ~(Working /\ Seen)
                       \/ /\ op.stage = "prepared" /\ jobs[OpTicket].nonce = tx.env.nonce
                          /\ Under("prepare") /\ Seen
                          /\ tx.rcpt # None => tx.rcpt.state = "prepared"
<1>5. ASSUME Working /\ Seen PROVE found
  <2>1. PICK r \in receipts : r.nonce = tx.env.nonce BY <1>5 DEF Seen
  <2>2. tx # None /\ AnswerDesk(r) /\ Fits(tx) /\ (tx.rcpt # None => AnswerDesk(tx.rcpt))
    BY <1>3, <1>5, <2>1 DEF Bench, Working, Under, Agreed, JournalFits, Exchanging
  <2>3. ~Under("commit")
    BY <1>1, <2>2 DEF AnswerDesk, Unrun, InHand, JobIs
  <2>4. ~Under("release")
    BY <1>1, <2>2 DEF AnswerDesk, Idle, Held, InHand, JobIs
  <2>5. Under("prepare") BY <1>5, <2>3, <2>4 DEF Working
  <2>6. op # None /\ op.stage = "prepared" BY <2>2, <2>5 DEF Fits, Under
  <2>7. Waiting(tx.env.nonce)
    BY <1>1, <2>2, <2>5 DEF AnswerDesk, Idle, Unrun, InHand
  <2>8. tx.rcpt # None => tx.rcpt.state = "prepared"
    BY <1>1, <2>2, <2>5 DEF AnswerDesk, Idle, Unrun, InHand
  <2> QED BY <1>3, <1>4, <1>5, <2>5, <2>6, <2>7, <2>8 DEF Waiting, JobIs
<1>6. ASSUME ~(Working /\ Seen) PROVE found
  <2>1. StageDesk BY <1>3, <1>6 DEF Bench
  <2>2. ~OpSettled BY <1>1, <2>1 DEF StageDesk, Idle
  <2>3. op # None /\ op.stage \notin {"complete", "cancelled", "execution_unknown"}
    BY <2>2 DEF OpSettled
  <2>4. op.stage \notin {"prepared", "running", "confirm_ready", "result_verified",
                         "release_ready"}
    BY <1>1, <2>1, <2>3 DEF StageDesk, Idle, Held, InHand
  <2>5. op.stage = "commit_ready"
    <3>1. op \in Operation BY <1>4, <2>3
    <3> QED BY <2>3, <2>4, <3>1 DEF Operation
  <2>6. Waiting(op.prep)
    BY <1>1, <2>1, <2>3, <2>5 DEF StageDesk, Unrun, InHand
  <2> QED BY <1>3, <1>4, <1>6, <2>3, <2>5, <2>6 DEF Waiting, JobIs
<1>7. found BY <1>5, <1>6
<1>8. Reports(OpTicket, "failed") BY <1>1, <1>2, <1>7, ReportsIs DEF Report
<1> QED BY <1>1, <1>2, <1>7, <1>8

(* Either way, what the desk says of the job stays true of it.             *)
LEMMA ReportKeeps ==
    ASSUME IInv, Agreed, Kept, EndFits, TokensGrow, OnlyCurrent, UNCHANGED gameLeaves,
           op # None, OpTicket \in Ticket, jobs[OpTicket] # None,
           jobs[OpTicket].state \in {"prepared", "running"},
           op.stage \in {"prepared", "commit_ready", "running"},
           NEW p \in Report, Reports(OpTicket, p), active' = OpTicket, pending' = None
    PROVE  JobsFit' /\ RunsFit' /\ Kept' /\ EndFits' /\ TokensGrow' /\ OnlyCurrent'
<1>1. /\ UNCHANGED <<identity, tx, op, reload, recovery, closed, processEnd, runtimeEnd, results,
                     policy, nonces, sent, entry, payload>>
      /\ OpTicket' = OpTicket /\ ReloadActive' = ReloadActive
      /\ CommitUnderWay' = CommitUnderWay
      /\ \A t : Begun(t)' = Begun(t) /\ Past(t)' = Past(t)
  BY JournalHeld
<1>2. /\ Sets(OpTicket, "reported", jobs[OpTicket].nonce, p)
      /\ outcome'[OpTicket] = p /\ \A u \in Ticket \ {OpTicket} : outcome'[u] = outcome[u]
      /\ UNCHANGED <<live, alive, cursor, owner, runs>>
  BY DEF Reports
<1>3. PICK q : /\ q.nonce = jobs[OpTicket].nonce /\ q.action = "prepare" /\ q.ticket = OpTicket
               /\ q.runtime = live /\ q.next = cursor /\ q.state = "reported"
               /\ q.report = p /\ Publish(q)
  BY DEF Reports
<1>4. \A r \in receipts' : r \in receipts \/ r = q BY <1>3 DEF Publish
<1>5. p # None BY NoneIsNoValue
<1>6. JobsFit'
  <2>1. JobsFit BY DEF Agreed
  <2>2. \A t \in Ticket : jobs'[t] # None => Past(t)' BY <1>1, <1>2, <2>1 DEF Sets, JobsFit
  <2>3. jobs'[OpTicket].state = "reported" BY <1>2 DEF Sets
  <2>4. \A t \in Ticket : jobs'[t] # None /\ jobs'[t].state \in {"reported", "released"} =>
          (jobs'[t].report = outcome'[t] /\ outcome'[t] # None)
    BY <1>2, <1>5, <2>1 DEF Sets, JobsFit
  <2>5. \A r \in receipts' : (r.action = "prepare" /\ r.state = "reported") =>
          /\ r.ticket \in Ticket /\ jobs'[r.ticket] # None
          /\ jobs'[r.ticket].state \in {"reported", "released"}
          /\ r.report = jobs'[r.ticket].report
    <3>1. TAKE r \in receipts'
    <3>2. HAVE r.action = "prepare" /\ r.state = "reported"
    <3>3. CASE r = q BY <1>2, <1>3, <3>3 DEF Sets
    <3>4. CASE r \in receipts
      <4>1. /\ r.ticket \in Ticket /\ jobs[r.ticket] # None
            /\ jobs[r.ticket].state \in {"reported", "released"}
            /\ r.report = jobs[r.ticket].report
        BY <2>1, <3>2, <3>4 DEF JobsFit
      <4>2. r.ticket # OpTicket BY <4>1
      <4> QED BY <1>2, <4>1, <4>2 DEF Sets
    <3> QED BY <1>4, <3>3, <3>4
  <2> QED BY <2>2, <2>3, <2>4, <2>5 DEF JobsFit
<1>7. RunsFit' BY <1>1, <1>2 DEF Agreed, RunsFit
<1>8. /\ \A t \in Ticket : jobs'[t] # None => jobs[t] # None /\ jobs'[t].nonce = jobs[t].nonce
      /\ \A t \in Ticket : jobs'[t] # None /\ jobs'[t].state = "released" =>
           jobs[t] # None /\ jobs[t].state = "released"
  BY <1>2 DEF Sets
<1>9. Kept'
  <2>1. ResultsFit' BY <1>1 DEF Kept, ResultsFit
  <2>2. ReloadLosesNothing' BY <1>1, <1>2, <1>8 DEF Kept, ReloadLosesNothing
  <2>3. ReleaseAfterDurable' BY <1>1, <1>8 DEF Kept, ReleaseAfterDurable
  <2> QED BY <2>1, <2>2, <2>3 DEF Kept
<1>a. cursor \in Nat BY JournalRead DEF JournalFacts
<1>10. EndFits' BY <1>1, <1>2, <1>3, <1>4, <1>a DEF EndFits
<1>11. TokensGrow'
  <2>1. jobs[OpTicket].nonce <= nonces BY DEF TokensGrow
  <2> QED BY <1>1, <1>3, <1>4, <1>8, <2>1 DEF TokensGrow
<1>12. OnlyCurrent' BY <1>2, <1>a, CursorMoves
<1> QED BY <1>6, <1>7, <1>9, <1>10, <1>11, <1>12

\* The record of the report replaces only the one of the job's own nonce.
LEMMA SettlesDesk ==
    ASSUME IInv, Agreed, EndFits, TokensGrow, JobSettles, UNCHANGED gameLeaves
    PROVE  DeskAgrees'
<1>1. /\ Here /\ op # None /\ OpTicket \in Ticket /\ active = OpTicket
      /\ InHand(op.prep, {"running"})
      /\ \/ op.stage = "running" /\ tx = None
         \/ op.stage = "commit_ready" /\ Under("commit") /\ Seen
      /\ UNCHANGED <<active, pending>>
  BY Settling
<1>2. PICK p \in Report : Reports(OpTicket, p) BY Settling
<1>3. /\ UNCHANGED <<identity, bound, tx, op>>
      /\ OpTicket' = OpTicket /\ RecoveryActive' = RecoveryActive /\ OpSettled' = OpSettled
      /\ Binding' = Binding /\ Working' = Working /\ \A a : Under(a)' = Under(a)
  BY JournalHeld
<1>4. /\ Sets(OpTicket, "reported", op.prep, p) /\ jobs[OpTicket].nonce = op.prep
      /\ UNCHANGED <<live, alive, owner, runs>>
      /\ \E q : q.nonce = op.prep /\ Publish(q)
  BY <1>1, <1>2 DEF Reports, InHand, JobIs
<1>5. Desk /\ Bench /\ NoStrayRefusal BY <1>1 DEF Agreed, DeskAgrees
<1>6. Here' BY <1>1, <1>3, <1>4 DEF Here
<1>7. ~RecoveryActive BY <1>1, <1>5 DEF Desk, NoJobs, InHand, JobIs
<1>8. live \in Nat BY JournalRead DEF JournalFacts
<1>9. Desk' BY <1>3, <1>4, <1>5, <1>6, <1>7, <1>8 DEF Desk, Here
<1>10. NoStrayRefusal' BY <1>3, <1>4, <1>5 DEF NoStrayRefusal
<1>11. InHand(op.prep, {"running", "reported"})'
  BY <1>1, <1>3, <1>4 DEF InHand, JobIs, Sets
<1>12. Bench'
  <2>1. CASE op.stage = "running" /\ tx = None
    <3>1. ~OpSettled BY <1>1, <2>1 DEF OpSettled
    <3>2. StageDesk' BY <1>1, <1>3, <1>11, <2>1, <3>1 DEF StageDesk
    <3>3. ~Binding /\ owner' = IF bound THEN Self ELSE None
      BY <1>4, <1>5, <2>1 DEF Bench, Binding, Under
    <3> QED BY <1>3, <2>1, <3>2, <3>3 DEF Bench
  <2>2. CASE op.stage = "commit_ready" /\ Under("commit") /\ Seen
    <3>1. tx # None /\ tx.env.action = "commit" /\ Working /\ ~Binding
      BY <2>2 DEF Under, Working, Binding
    <3>2. tx.env.nonce # op.prep
      <4>1. op.prep < tx.env.nonce /\ op.prep \in Nat /\ tx.env.nonce \in Nat
        BY <1>1, <3>1, JournalRead, OperationRecord, EnvelopeRecord DEF TokensGrow, JournalFacts
      <4> QED BY <4>1
    <3>3. \A r : r.nonce = tx.env.nonce => (r \in receipts' <=> r \in receipts)
      BY <1>4, <3>2 DEF Publish
    <3>4. Seen' BY <1>3, <2>2, <3>3 DEF Seen
    <3>5. ASSUME NEW r, AnswerDesk(r) PROVE AnswerDesk(r)'
      <4>1. r.state = "accepted"
        BY <1>1, <2>2, <3>5 DEF AnswerDesk, Unrun, InHand, JobIs
      <4> QED BY <1>3, <1>11, <3>1, <4>1 DEF AnswerDesk, Under
    <3>6. owner' = IF bound THEN Self ELSE None BY <1>4, <1>5, <3>1 DEF Bench
    <3> QED BY <1>3, <1>5, <3>1, <3>3, <3>4, <3>5, <3>6 DEF Bench
  <2> QED BY <1>1, <2>1, <2>2
<1> QED BY <1>9, <1>10, <1>12 DEF DeskAgrees

LEMMA CancelsDesk ==
    ASSUME IInv, Agreed, EndFits, TokensGrow, CloseCancelsPrepared, UNCHANGED gameLeaves
    PROVE  DeskAgrees'
<1>1. /\ Here /\ op # None /\ OpTicket \in Ticket
      /\ jobs[OpTicket] # None /\ jobs[OpTicket].state = "prepared"
      /\ runs[OpTicket] = 0
      /\ \/ /\ op.stage = "commit_ready" /\ jobs[OpTicket].nonce = op.prep
            /\ ~(Working /\ Seen)
         \/ /\ op.stage = "prepared" /\ jobs[OpTicket].nonce = tx.env.nonce
            /\ Under("prepare") /\ Seen
            /\ tx.rcpt # None => tx.rcpt.state = "prepared"
      /\ Reports(OpTicket, "failed")
      /\ active' = OpTicket /\ pending' = None
  BY Cancelling
<1>2. /\ UNCHANGED <<identity, bound, tx, op>>
      /\ OpTicket' = OpTicket /\ RecoveryActive' = RecoveryActive /\ OpSettled' = OpSettled
      /\ Binding' = Binding /\ Working' = Working /\ \A a : Under(a)' = Under(a)
  BY JournalHeld
<1>3. /\ Sets(OpTicket, "reported", jobs[OpTicket].nonce, "failed")
      /\ UNCHANGED <<live, alive, owner, runs>>
      /\ \E q : q.nonce = jobs[OpTicket].nonce /\ q.state = "reported" /\ Publish(q)
  BY <1>1 DEF Reports
<1>4. Desk /\ Bench /\ NoStrayRefusal BY <1>1 DEF Agreed, DeskAgrees
<1>5. Here' BY <1>1, <1>2, <1>3 DEF Here
<1>6. ~RecoveryActive BY <1>1, <1>4 DEF Desk, NoJobs
<1>7. live \in Nat BY JournalRead DEF JournalFacts
<1>8. Desk' BY <1>2, <1>3, <1>4, <1>5, <1>6, <1>7 DEF Desk, Here
<1>9. NoStrayRefusal' BY <1>2, <1>3, <1>4 DEF NoStrayRefusal
<1>11. Bench'
  <2>1. CASE /\ op.stage = "commit_ready" /\ jobs[OpTicket].nonce = op.prep
             /\ ~(Working /\ Seen)
    <3>1. ~OpSettled BY <1>1, <2>1 DEF OpSettled
    <3>2. Unrun(op.prep)'
      BY <1>1, <1>2, <1>3, <2>1 DEF Unrun, InHand, JobIs, Sets
    <3>3. StageDesk' BY <1>1, <1>2, <2>1, <3>1, <3>2 DEF StageDesk
    <3>4. tx # None => tx.env.nonce # op.prep
      <4>1. SUFFICES ASSUME tx # None PROVE tx.env.nonce # op.prep OBVIOUS
      <4>2. op.prep < tx.env.nonce /\ op.prep \in Nat /\ tx.env.nonce \in Nat
        BY <1>1, <4>1, JournalRead, OperationRecord, EnvelopeRecord DEF TokensGrow, JournalFacts
      <4> QED BY <4>2
    <3>5. tx # None => \A r : r.nonce = tx.env.nonce => (r \in receipts' <=> r \in receipts)
      BY <1>3, <2>1, <3>4 DEF Publish
    <3>6. tx # None => Seen' = Seen BY <1>2, <3>5 DEF Seen
    <3>7. ASSUME tx # None, Seen, NEW r, AnswerDesk(r) PROVE AnswerDesk(r)'
      <4>1. ~Working BY <2>1, <3>7
      <4> QED BY <1>2, <1>3, <3>7, <4>1 DEF AnswerDesk, Working
    <3>8. tx # None => \A r \in receipts : r.nonce = tx.env.nonce => Seen BY DEF Seen
    <3>9. ~(Binding /\ Seen) => owner' = IF bound THEN Self ELSE None
      BY <1>3, <1>4 DEF Bench
    <3>10. Binding => tx # None BY DEF Binding, Under
    <3> QED BY <1>2, <1>4, <3>3, <3>5, <3>6, <3>7, <3>8, <3>9, <3>10 DEF Bench
  <2>2. CASE /\ op.stage = "prepared" /\ jobs[OpTicket].nonce = tx.env.nonce
             /\ Under("prepare") /\ Seen
             /\ tx.rcpt # None => tx.rcpt.state = "prepared"
    <3>1. tx # None /\ tx.env.action = "prepare" /\ Working /\ ~Binding
      BY <2>2 DEF Under, Working, Binding
    <3>2. Unrun(tx.env.nonce)'
      BY <1>1, <1>2, <1>3, <2>2 DEF Unrun, InHand, JobIs, Sets
    <3>3. PICK q : q.nonce = tx.env.nonce /\ q.state = "reported" /\ Publish(q)
      BY <1>3, <2>2
    <3>4. Seen' BY <1>2, <3>3 DEF Seen, Publish
    <3>5. \A r \in receipts' : r.nonce = tx.env.nonce => r.state = "reported"
      BY <3>3 DEF Publish
    <3>6. \A r : r.state \in {"prepared", "reported"} => AnswerDesk(r)'
      BY <1>2, <3>1, <3>2 DEF AnswerDesk, Under
    <3>7. owner' = IF bound THEN Self ELSE None BY <1>3, <1>4, <3>1 DEF Bench
    <3> QED BY <1>2, <2>2, <3>1, <3>4, <3>5, <3>6, <3>7 DEF Bench
  <2> QED BY <1>1, <2>1, <2>2
<1> QED BY <1>8, <1>9, <1>11 DEF DeskAgrees

Conduct ==
    Agreed /\ Kept /\ EndFits /\ TokensGrow /\ OnlyCurrent /\ Owned /\ Keyed

\* The other runtime knows of nothing.
LEMMA StartKeeps ==
    ASSUME IInv, Conduct, RuntimeStarts, UNCHANGED gameLeaves
    PROVE  DeskAgrees' /\ JobsFit' /\ RunsFit' /\ Kept' /\ EndFits' /\ TokensGrow' /\ OnlyCurrent'
<1>0. JournalFacts BY JournalRead
<1>1. /\ alive' = alive /\ live' = live + 1 /\ cursor' = 1 /\ owner' = None
      /\ jobs' = [t \in Ticket |-> None] /\ active' = None /\ pending' = None /\ receipts' = {}
      /\ UNCHANGED <<runs, outcome>>
  BY DEF RuntimeStarts, historyVars
<1>2. /\ UNCHANGED <<identity, tx, op, reload, recovery, closed, processEnd, runtimeEnd, results,
                     policy, nonces, sent, entry, payload>>
      /\ OpTicket' = OpTicket /\ ReloadActive' = ReloadActive
      /\ CommitUnderWay' = CommitUnderWay /\ \A t : Begun(t)' = Begun(t)
  BY JournalHeld
<1>3. \A t \in Ticket : jobs'[t] = None BY <1>1
<1>4. live \in Nat /\ identity.runtime \in Nat /\ identity.runtime <= live /\ live >= 1
  BY <1>0 DEF JournalFacts, Conduct, EndFits
<1>5. ~Here' BY <1>1, <1>2, <1>4 DEF Here
<1>6. DeskAgrees'
  <2>1. NoJobs' BY <1>1, <1>3 DEF NoJobs, Idle
  <2>2. Desk' BY <1>1, <2>1 DEF Desk
  <2>3. NoStrayRefusal' BY <1>1, <1>2 DEF Conduct, Agreed, DeskAgrees, NoStrayRefusal
  <2> QED BY <1>5, <2>2, <2>3 DEF DeskAgrees
<1>7. JobsFit' BY <1>1, <1>3 DEF JobsFit
<1>8. RunsFit' BY <1>1, <1>2 DEF Conduct, Agreed, RunsFit
<1>9. Kept'
  <2>1. ResultsFit' BY <1>1, <1>2 DEF Conduct, Kept, ResultsFit
  <2>2. ReloadLosesNothing' /\ ReleaseAfterDurable'
    BY <1>3 DEF ReloadLosesNothing, ReleaseAfterDurable
  <2> QED BY <2>1, <2>2 DEF Kept
<1>10. EndFits'
  <2>1. runtimeEnd # None => live > identity.runtime BY DEF Conduct, EndFits
  <2>2. processEnd => ~alive BY DEF Conduct, EndFits
  <2> QED BY <1>1, <1>2, <1>4, <2>1, <2>2 DEF EndFits
<1>11. TokensGrow' BY <1>1, <1>2, <1>3 DEF Conduct, TokensGrow
<1>12. OnlyCurrent'
  <2>1. \A i \in Index : payload[i] # Inert => payload[i].runtime \in Nat /\ payload[i].runtime <= live
    BY EnvelopeRecord DEF Conduct, OnlyCurrent, IInv, PoolTypeOK, Payload
  <2>2. \A i \in Index : payload'[i] # Inert => payload'[i].runtime < live'
    BY <1>1, <1>2, <1>4, <2>1
  <2>3. \A i \in Index : ~Loadable(i)' BY <1>1, <1>2, <1>4, <2>1 DEF Loadable
  <2> QED BY <1>1, <1>2, <1>4, <1>5, <2>1, <2>3 DEF OnlyCurrent
<1> QED BY <1>6, <1>7, <1>8, <1>9, <1>10, <1>11, <1>12

LEMMA EndKeeps ==
    ASSUME IInv, Conduct, ProcessEnds, UNCHANGED gameLeaves
    PROVE  DeskAgrees' /\ JobsFit' /\ RunsFit' /\ Kept' /\ EndFits' /\ TokensGrow' /\ OnlyCurrent'
<1>1. /\ alive' = FALSE
      /\ UNCHANGED <<live, cursor, owner, jobs, active, pending, receipts, runs, outcome>>
  BY DEF ProcessEnds, historyVars
<1>2. /\ UNCHANGED <<identity, tx, op, reload, recovery, closed, processEnd, runtimeEnd, results,
                     policy, nonces, sent, entry, payload>>
      /\ OpTicket' = OpTicket /\ ReloadActive' = ReloadActive /\ RecoveryActive' = RecoveryActive
      /\ CommitUnderWay' = CommitUnderWay /\ \A t : Begun(t)' = Begun(t) /\ Past(t)' = Past(t)
  BY JournalHeld
<1> USE DEF Conduct
<1>3. DeskAgrees'
  <2>1. ~Here' BY <1>1 DEF Here
  <2>2. Desk' BY <1>1, <1>2 DEF Agreed, DeskAgrees, Desk, NoJobs, Idle
  <2>3. NoStrayRefusal' BY <1>1, <1>2 DEF Agreed, DeskAgrees, NoStrayRefusal
  <2> QED BY <2>1, <2>2, <2>3 DEF DeskAgrees
<1>4. JobsFit' BY <1>1, <1>2 DEF Agreed, JobsFit
<1>5. RunsFit' BY <1>1, <1>2 DEF Agreed, RunsFit
<1>6. Kept' BY <1>1, <1>2 DEF Kept, ResultsFit, ReloadLosesNothing, ReleaseAfterDurable
<1>7. EndFits' BY <1>1, <1>2 DEF EndFits
<1>8. TokensGrow' BY <1>1, <1>2 DEF TokensGrow
<1>9. OnlyCurrent' BY <1>1, <1>2 DEF OnlyCurrent, Loadable, Here
<1> QED BY <1>3, <1>4, <1>5, <1>6, <1>7, <1>8, <1>9

\* The cursor moves, and nothing else does.
LEMMA SkipKeeps ==
    ASSUME IInv, Conduct, UNCHANGED gameLeaves,
           UNCHANGED <<live, alive, owner, deskTables, receipts>>,
           cursor <= cursor', cursor' \in Nat
    PROVE  Agreed' /\ Kept' /\ EndFits' /\ TokensGrow' /\ OnlyCurrent'
<1>1. /\ UNCHANGED <<identity, tx, op, reload, recovery, closed, processEnd, runtimeEnd, results,
                     policy, nonces, sent, entry, payload>>
  BY JournalHeld
<1> USE DEF Conduct
<1>2. Agreed' BY AgreedStays DEF agreedVars, deskTables, gameLeaves, journal
<1>3. Kept' BY <1>1, KeptStays DEF deskTables
<1>4. EndFits'
  <2>1. \A q \in receipts : q.next <= cursor /\ q.next \in Nat
    BY ReceiptRecord DEF EndFits, IInv, EngineDesk
  <2>2. cursor \in Nat BY JournalRead DEF JournalFacts
  <2> QED BY <1>1, <2>1, <2>2 DEF EndFits
<1>5. TokensGrow' BY <1>1 DEF TokensGrow, deskTables
<1>6. OnlyCurrent' BY CursorMoves
<1> QED BY <1>2, <1>3, <1>4, <1>5, <1>6

LEMMA GameKeeps == ASSUME IInv, Conduct, Game PROVE Conduct'
<1>0. JournalFacts BY JournalRead
<1>1. UNCHANGED gameLeaves
  BY DEF Game, DeliverKey, LoseKey, Beside, gameLeaves, journal, poolVars
<1>2. JournalFits' /\ AutomaticFits' /\ Owned' /\ Keyed'
  BY <1>1, JournalStays DEF Conduct, Agreed
<1>3. SUFFICES DeskAgrees' /\ JobsFit' /\ RunsFit' /\ Kept' /\ EndFits' /\ TokensGrow' /\ OnlyCurrent'
  BY <1>2 DEF Conduct, Agreed
<1> USE DEF Conduct
<1>4. CASE WakeReceives(payload)
  <2>1. CASE /\ tx # None /\ tx.env.index \in Nat
             /\ cursor <= tx.env.index /\ cursor' = tx.env.index + 1
             /\ UNCHANGED <<live, alive, owner, deskTables, receipts>>
    <3>1. cursor <= cursor' /\ cursor' \in Nat BY <1>0, <2>1 DEF JournalFacts
    <3> QED BY <1>1, <2>1, <3>1, SkipKeeps DEF Agreed
  <2>2. ASSUME NEW e, NEW r, Woken(e, r)
        PROVE  DeskAgrees' /\ JobsFit' /\ RunsFit' /\ Kept' /\ EndFits' /\ TokensGrow' /\ OnlyCurrent'
    BY <1>1, <2>2, WokenDesk, WokenJobs, WokenRuns, WokenKept, WokenClock
  <2> QED BY <1>4, <2>1, <2>2, WakeIs DEF Agreed
<1>5. CASE WakeStops(payload)
  <2>1. UNCHANGED <<live, alive, owner, deskTables, receipts>>
    BY <1>5 DEF WakeStops, deskTables, historyVars
  <2>2. cursor <= cursor' /\ cursor' \in Nat
    BY <1>0, <1>5, SlotWireAssumption DEF WakeStops, JournalFacts
  <2> QED BY <1>1, <2>1, <2>2, SkipKeeps DEF Agreed
<1>6. CASE LoseKey
  <2>1. UNCHANGED <<live, alive, owner, deskTables, receipts>> /\ cursor' = cursor
    BY <1>6 DEF LoseKey, deskTables, historyVars, engineVars
  <2>2. cursor <= cursor' /\ cursor' \in Nat BY <1>0, <2>1 DEF JournalFacts
  <2> QED BY <1>1, <2>1, <2>2, SkipKeeps DEF Agreed
<1>7. CASE JobSettles
  <2>1. /\ op # None /\ OpTicket \in Ticket /\ active' = OpTicket /\ pending' = None
        /\ jobs[OpTicket] # None /\ jobs[OpTicket].state = "running"
        /\ op.stage \in {"running", "commit_ready"}
    BY <1>7, Settling DEF InHand, JobIs
  <2>2. PICK p \in Report : Reports(OpTicket, p) BY <1>7, Settling
  <2> QED BY <1>1, <1>7, <2>1, <2>2, SettlesDesk, ReportKeeps
<1>8. CASE CloseCancelsPrepared
  <2>1. /\ op # None /\ OpTicket \in Ticket /\ active' = OpTicket /\ pending' = None
        /\ jobs[OpTicket] # None /\ jobs[OpTicket].state = "prepared"
        /\ op.stage \in {"prepared", "commit_ready"} /\ Reports(OpTicket, "failed")
    BY <1>8, Cancelling
  <2>2. "failed" \in Report BY DEF Report
  <2> QED BY <1>1, <1>8, <2>1, <2>2, CancelsDesk, ReportKeeps
<1>9. CASE RuntimeStarts BY <1>1, <1>9, StartKeeps
<1>10. CASE ProcessEnds BY <1>1, <1>10, EndKeeps
<1> QED BY <1>4, <1>5, <1>6, <1>7, <1>8, <1>9, <1>10 DEF Game, DeliverKey, Wake

-----------------------------------------------------------------------------
(* All of it together, over one step and over a behaviour.                 *)
LEMMA JournalKeeps ==
    ASSUME IInv, Conduct, JournalStep, sending = "idle"
    PROVE  Conduct'
<1> USE DEF Conduct, Agreed, Kept
<1>1. JournalFits'
  BY BeginsJournal, ExchangesJournal, FinishesJournal, OperationsJournal, ReloadsJournal,
     RecoveriesJournal, ClosesJournal
     DEF JournalStep, Begins, Exchanges, Finishes, OperationSteps, Reloads, Recoveries, Closes
<1>2. EndFits' BY JournalClock
<1>3. TokensGrow' BY JournalTokens
<1>4. OnlyCurrent' BY JournalOnlyCurrent
<1>5. Owned' BY JournalOwned
<1>6. Keyed' BY JournalKeyed
<1>7. DeskAgrees' BY JournalDesk
<1>8. JobsFit' BY JournalJobs
<1>9. RunsFit' BY JournalRuns
<1>10. ResultsFit' BY JournalResults
<1>11. AutomaticFits' BY JournalAutomatic
<1>12. ReloadLosesNothing' BY JournalLosesNothing
<1>13. ReleaseAfterDurable' BY JournalStepQuiet DEF Quiet, ReleaseAfterDurable
<1> QED BY <1>1, <1>2, <1>3, <1>4, <1>5, <1>6, <1>7, <1>8, <1>9, <1>10, <1>11, <1>12, <1>13

LEMMA ConductStep == IInv /\ PoolSettled /\ Conduct /\ [Next]_vars => Conduct'
<1> SUFFICES ASSUME IInv, PoolSettled, Conduct, [Next]_vars PROVE Conduct' OBVIOUS
<1>1. CASE PoolSteps
  BY <1>1, PoolKeeps, PoolStepsKeep DEF Conduct, Agreed
<1>2. CASE InputSteps /\ (sending = "idle" \/ Perform)
  BY <1>2, InputKeeps, InputKeyed DEF Conduct
<1>3. CASE WriteResult BY <1>3, WriteKeeps DEF Conduct
<1>4. CASE JournalStep /\ sending = "idle" BY <1>4, JournalKeeps
<1>5. CASE Game BY <1>5, GameKeeps
<1>6. CASE UNCHANGED vars
  <2>1. UNCHANGED <<journal, sending, results, policy, keys, nonces, sent, poolVars, engineVars,
                    historyVars>>
    BY <1>6 DEF vars
  <2>2. UNCHANGED gameLeaves /\ UNCHANGED <<live, alive, owner, deskTables, receipts>>
        /\ cursor' = cursor
    BY <2>1 DEF gameLeaves, poolVars, engineVars, historyVars, deskTables
  <2>3. cursor <= cursor' /\ cursor' \in Nat BY <2>2, JournalRead DEF JournalFacts
  <2>4. Agreed' /\ Kept' /\ EndFits' /\ TokensGrow' /\ OnlyCurrent' BY <2>2, <2>3, SkipKeeps
  <2>5. Owned' /\ Keyed' BY <2>2, JournalStays DEF Conduct, Agreed
  <2> QED BY <2>4, <2>5 DEF Conduct
<1>7. Next => \/ PoolSteps \/ WriteResult \/ Game
              \/ InputSteps /\ (sending = "idle" \/ Perform)
              \/ JournalStep /\ sending = "idle"
  BY DEF Next, Driver, DisconnectEnded, User, PoolSteps, InputSteps, JournalStep, Begins, Exchanges, Finishes,
         OperationSteps, Reloads, Recoveries, Closes
<1> QED BY <1>1, <1>2, <1>3, <1>4, <1>5, <1>6, <1>7

LEMMA ConductInit == Init => Conduct
<1> SUFFICES ASSUME Init PROVE Conduct OBVIOUS
<1>1. /\ tx = None /\ op = None /\ reload = None /\ recovery = None
      /\ bound = FALSE /\ closing = FALSE /\ closed = FALSE
      /\ runtimeEnd = None /\ processEnd = FALSE /\ sending = "idle"
      /\ live = 1 /\ alive = TRUE /\ owner = None /\ active = None /\ pending = None
      /\ receipts = {} /\ nonces = Slots /\ sent = {}
      /\ identity.runtime = 1
      /\ \A t \in Ticket : jobs[t] = None /\ runs[t] = 0
      /\ \A o \in Operations : results[o] = None
  BY DEF Init
<1>2. PICK c \in Drivers :
        /\ ForeignSlots # {} => c # Self
        /\ entry = [i \in Index |-> IF i \in ForeignSlots
                                    THEN ForeignEntry(i, c) ELSE FreshEntry]
        /\ payload = [i \in Index |-> IF i \in ForeignSlots
                                      THEN ForeignEnvelope(i, c) ELSE Inert]
  BY DEF Init
<1>3. FreshEntry.nonce = 0 /\ FreshEntry.consumer = None BY DEF FreshEntry
<1>4. \A i \in Index : /\ ForeignEntry(i, c).nonce = i
                       /\ ForeignEntry(i, c).consumer = c
  BY DEF ForeignEntry, FreshEntry
<1>5. \A i \in Index : ForeignEnvelope(i, c).runtime = 0 BY DEF ForeignEnvelope
<1>6. ~RecoveryActive /\ ~ReloadActive /\ OpSettled
  BY <1>1 DEF RecoveryActive, ReloadActive, OpSettled
<1>7. JournalFits
  BY <1>1, <1>6
     DEF JournalFits, Exchanging, RecoveryFits, ReloadFits, OpFits, ClosedFits
<1>8. DeskAgrees
  <2>1. Desk BY <1>1, <1>6 DEF Desk
  <2>2. StageDesk BY <1>1 DEF StageDesk, Idle
  <2>3. Bench BY <1>1, <2>2 DEF Bench
  <2>4. NoStrayRefusal BY <1>1 DEF NoStrayRefusal
  <2> QED BY <2>1, <2>3, <2>4 DEF DeskAgrees
<1>9. JobsFit /\ RunsFit /\ AutomaticFits
  BY <1>1, <1>6 DEF JobsFit, RunsFit, AutomaticFits
<1>10. Kept BY <1>1, <1>6 DEF Kept, ResultsFit, ReloadLosesNothing, ReleaseAfterDurable
<1>11. EndFits BY <1>1 DEF EndFits
<1>12. TokensGrow
  <2>1. \A i \in Index : entry[i].nonce <= nonces
    BY <1>1, <1>2, <1>3, <1>4, SlotWireAssumption DEF Index
  <2> QED BY <1>1, <2>1 DEF TokensGrow
<1>13. OnlyCurrent
  <2>1. \A i \in Index : payload[i] # Inert => payload[i].runtime = 0
    BY <1>2, <1>5
  <2> QED BY <1>1, <2>1 DEF OnlyCurrent, Loadable
<1>14. Owned
  <2>1. \A i \in Index : entry[i].consumer = Self => entry[i].nonce = 0
    BY <1>2, <1>3, <1>4
  <2> QED BY <2>1 DEF Owned, Reserved
<1>15. Keyed BY <1>1 DEF Keyed
<1> QED BY <1>7, <1>8, <1>9, <1>10, <1>11, <1>12, <1>13, <1>14, <1>15 DEF Conduct, Agreed

LEMMA Conducted == Spec => [](IInv /\ Conduct)
<1>1. Init => IInv /\ PoolSettled /\ Conduct BY InitTyped, InitSettled, ConductInit
<1>2. IInv /\ PoolSettled /\ Conduct /\ [Next]_vars => (IInv /\ PoolSettled /\ Conduct)'
  BY StepTyped, StepSettled, ConductStep
<1> QED BY <1>1, <1>2, PTL DEF Spec

-----------------------------------------------------------------------------
(* Business code of an opaque operation is started at most once, and of    *)
(* any operation at most once per ticket, whatever is lost, delayed,       *)
(* reloaded or resumed: Driver.Run cannot repeat a commit.                 *)
THEOREM CommitsAtMostOnce == Spec => []AtMostOnce
<1>1. IInv /\ Conduct => AtMostOnce
  <2> SUFFICES ASSUME IInv, Conduct PROVE AtMostOnce OBVIOUS
  <2>1. RunsFit BY DEF Conduct, Agreed
  <2>2. \A o \in Operations : \A t \in AttemptsOf(o) : t \in Ticket /\ t[1] = o
    BY DEF AttemptsOf, Ticket, Operations
  <2> QED BY <2>1, <2>2 DEF RunsFit, AtMostOnce
<1> QED BY <1>1, Conducted, PTL

LEMMA CancelledRan == IInv /\ Conduct => CancelledNeverRan
<1> SUFFICES ASSUME IInv, Conduct, op # None, op.stage = "cancelled"
             PROVE  /\ runs[OpTicket] = 0
                    /\ policy[op.id] = "opaque" =>
                         \A t \in AttemptsOf(op.id) : runs[t] = 0
  BY DEF CancelledNeverRan
<1>1. RunsFit BY DEF Conduct, Agreed
<1>2. op.id \in Operations /\ op.id \in Nat /\ op.attempt \in Nat
  BY JournalRead, OperationRecord DEF JournalFacts
<1>3. \A t \in AttemptsOf(op.id) : /\ t \in Ticket /\ t[1] = op.id /\ t[2] \in Nat
                                   /\ t[2] = op.attempt => t = OpTicket
  BY <1>2 DEF AttemptsOf, Ticket, Operations, OpTicket
<1>4. ASSUME policy[op.id] = "opaque", NEW t \in AttemptsOf(op.id) PROVE runs[t] = 0
  <2>1. CASE t[2] < op.attempt BY <1>1, <1>3, <1>4, <2>1 DEF RunsFit
  <2>2. CASE t[2] = op.attempt BY <1>1, <1>3, <2>2 DEF RunsFit
  <2>3. CASE t[2] > op.attempt
    <3>1. ~Begun(t) BY <1>2, <1>3, <2>3 DEF Begun
    <3> QED BY <1>1, <1>3, <3>1 DEF RunsFit
  <2> QED BY <1>2, <1>3, <2>1, <2>2, <2>3
<1> QED BY <1>1, <1>4 DEF RunsFit

(* An operation reported as cancelled has not run under its last ticket,   *)
(* nor, when it is opaque, under any (CancelPrepared, finishRecovery).     *)
THEOREM CancellationHolds == Spec => []CancelledNeverRan
BY Conducted, CancelledRan, PTL

(* The report in the journal and the one in the result file are the one    *)
(* the job of the present ticket ended with.                               *)
THEOREM ResultsAuthentic == Spec => []ResultAuthentic
<1>1. IInv /\ Conduct => ResultAuthentic
  BY DEF Conduct, Kept, ResultsFit, ResultAuthentic
<1> QED BY <1>1, Conducted, PTL

(* The engine is not asked to forget the body of a report before the host  *)
(* has the report in its result file.                                      *)
THEOREM ReleasesAfterDurable == Spec => []ReleaseAfterDurable
<1>1. IInv /\ Conduct => ReleaseAfterDurable BY DEF Conduct, Kept
<1> QED BY <1>1, Conducted, PTL

(* A reload the driver starts by itself destroys no job whose report is    *)
(* not in a result file.                                                   *)
THEOREM ReloadsLoseNothing == Spec => []ReloadLosesNothing
<1>1. IInv /\ Conduct => ReloadLosesNothing BY DEF Conduct, Kept
<1> QED BY <1>1, Conducted, PTL

(* A reservation given up belongs to an envelope that the live engine can  *)
(* no longer load.                                                         *)
THEOREM RetirementIsSafe == Spec => []RetiredNeverLoads
<1>1. IInv /\ Conduct => RetiredNeverLoads
  BY DEF Conduct, OnlyCurrent, Loadable, RetiredNeverLoads
<1> QED BY <1>1, Conducted, PTL

(* A closed connection leaves no reservation in the shared pool, and no    *)
(* engine bound to it.                                                     *)
THEOREM ClosesCleanly == Spec => []ClosedIsClean
<1>1. IInv /\ Conduct => ClosedIsClean
  <2> SUFFICES ASSUME IInv, Conduct, closed
               PROVE  /\ \A i \in Index : entry[i].consumer = Self => ~Reserved(i)
                      /\ alive => owner # Self
    BY DEF ClosedIsClean
  <2>1. ~bound /\ tx = None /\ ~RecoveryActive
    BY DEF Conduct, Agreed, JournalFits, ClosedFits
  <2>2. \A i \in Index : entry[i].consumer = Self => ~Reserved(i)
    BY <2>1 DEF Conduct, Owned
  <2>3. Self # None BY ChannelAssumption, SlotWireAssumption
  <2>4. alive => owner = None
    <3>1. live > identity.runtime => owner = None
      BY DEF Conduct, Agreed, DeskAgrees, Desk
    <3>2. Here => owner = None
      BY <2>1 DEF Conduct, Agreed, DeskAgrees, Bench, Binding, Under
    <3>3. live \in Nat /\ identity.runtime \in Nat /\ identity.runtime <= live
      BY JournalRead DEF JournalFacts, Conduct, EndFits
    <3> QED BY <3>1, <3>2, <3>3 DEF Here
  <2> QED BY <2>2, <2>3, <2>4
<1> QED BY <1>1, Conducted, PTL

(* While the journal says bound, the runtime it names is bound to this     *)
(* connection, or an unbind is under way.                                  *)
THEOREM BindingAgrees == Spec => []BoundAgrees
<1>1. IInv /\ Conduct => BoundAgrees
  <2> SUFFICES ASSUME IInv, Conduct, bound, alive, live = identity.runtime
               PROVE  owner = Self \/ (tx # None /\ tx.env.action = "unbind")
    BY DEF BoundAgrees
  <2>1. Bench /\ Exchanging BY DEF Conduct, Agreed, DeskAgrees, Here, JournalFits
  <2> QED BY <2>1 DEF Bench, Binding, Under, Exchanging
<1> QED BY <1>1, Conducted, PTL

(* Every refusal the driver can meet is one it handles: no capacity for a  *)
(* prepare, resources still held at a release, a commit of a job that was  *)
(* cancelled before it ran.                                                *)
THEOREM RefusalsExpected == Spec => []NoStrayRefusal
<1>1. IInv /\ Conduct => NoStrayRefusal BY DEF Conduct, Agreed, DeskAgrees
<1> QED BY <1>1, Conducted, PTL

(* State.validate accepts every state that a step produces.                *)
THEOREM JournalStaysValid == Spec => []JournalValid
<1>1. IInv /\ Conduct => JournalValid
  BY DEF Conduct, Agreed, JournalFits, Exchanging, RecoveryFits, ReloadFits, OpFits, ClosedFits,
         JournalValid
<1> QED BY <1>1, Conducted, PTL

(* No wake chord is sent twice for one exchange: a key is sent only from   *)
(* a durable intent of its own, and a nonce with an intent that was saved  *)
(* as sent, or never resolved, gets no second one.                         *)
THEOREM OneKey == Spec => OneKeyPerExchange
<1>1. IInv /\ Conduct /\ [Next]_vars => [keys' > keys => tx.env.nonce \notin sent]_vars
  <2> SUFFICES ASSUME IInv, Conduct, Next, keys' > keys PROVE tx.env.nonce \notin sent
    OBVIOUS
  <2>1. keys \in Nat BY ChannelAssumption DEF IInv, BesideTyped
  <2>2. SendKey
    <3>1. ~(keys' = keys) /\ ~(keys' = keys - 1) BY <2>1
    <3>2. ~JournalStep BY <3>1, JournalStepQuiet DEF Quiet
    <3>3. ~PoolSteps BY <3>1, PoolLeaves DEF beside
    <3>4. ~Game BY <3>1 DEF Game, DeliverKey, LoseKey
    <3>5. ~WriteResult BY <3>1 DEF WriteResult
    <3>6. ~(InvokeIntent \/ ReloadIntent \/ SendReloadKey \/ RecordInputOutcome \/ Crash)
      BY <3>1 DEF InvokeIntent, ReloadIntent, RecordInputIntent, SendReloadKey,
                  RecordInputOutcome, Crash
    <3> QED BY <3>2, <3>3, <3>4, <3>5, <3>6
            DEF Next, Driver, DisconnectEnded, User, Perform, PoolSteps, JournalStep, Begins, Exchanges, Finishes,
                OperationSteps, Reloads, Recoveries, Closes
  <2>3. sending = "intent" /\ input.kind = "invoke" BY <2>2 DEF SendKey
  <2> QED BY <2>3 DEF Conduct, Keyed
<1> QED BY <1>1, Conducted, PTL DEF Spec, OneKeyPerExchange

-----------------------------------------------------------------------------
(* The promise.  An answer other than a failure was earned: the code ran.  *)
Earned ==
    \A t \in Ticket :
        /\ outcome[t] \notin {None, "failed"} => runs[t] # 0
        /\ jobs[t] # None /\ jobs[t].state = "running" => runs[t] # 0

LEMMA EarnedStays ==
    ASSUME Earned, UNCHANGED <<jobs, runs, outcome>>
    PROVE  Earned'
BY DEF Earned

\* A job that is not running starts no code, and earns nothing but a failure.
LEMMA EarnedSets ==
    ASSUME Earned, NEW u \in Ticket, NEW s, NEW n, NEW p, Sets(u, s, n, p), s # "running",
           runs' = runs, \A t \in Ticket \ {u} : outcome'[t] = outcome[t],
           \/ outcome'[u] \in {outcome[u], None, "failed"}
           \/ runs[u] # 0
    PROVE  Earned'
BY DEF Earned, Sets

LEMMA EarnedWoken ==
    ASSUME IInv, Agreed, Earned, NEW e, NEW r, Woken(e, r)
    PROVE  Earned'
<1>1. Result(e, r) BY ResultIs DEF Agreed
<1>2. CASE UNCHANGED deskTables BY <1>2, EarnedStays DEF deskTables
<1>3. CASE OfPrepare(e, r) /\ op # None /\ OpTicket \in Ticket
  <2>1. outcome \in [Ticket -> Report \cup {None}] BY DEF IInv, EngineDesk
  <2>2. CASE Sets(OpTicket, "prepared", e.nonce, None) /\ outcome' = outcome
    BY <1>3, <2>2, EarnedSets DEF OfPrepare
  <2>3. CASE /\ Sets(OpTicket, "reported", e.nonce, "failed")
             /\ outcome' = [outcome EXCEPT ![OpTicket] = "failed"]
    <3>1. /\ outcome'[OpTicket] = "failed"
          /\ \A t \in Ticket \ {OpTicket} : outcome'[t] = outcome[t]
      BY <1>3, <2>1, <2>3
    <3>2. runs' = runs BY <1>3 DEF OfPrepare
    <3> QED BY <1>3, <2>3, <3>1, <3>2, EarnedSets
  <2> QED BY <1>2, <1>3, <2>2, <2>3 DEF OfPrepare
<1>4. CASE OfCommit(e, r) /\ op # None /\ OpTicket \in Ticket
  <2>1. CASE Sets(OpTicket, "running", op.prep, jobs[OpTicket].report)
             /\ runs' = [runs EXCEPT ![OpTicket] = @ + 1] /\ outcome' = outcome
    <3>1. runs \in [Ticket -> Nat] BY DEF IInv, EngineDesk
    <3>2. runs'[OpTicket] # 0 /\ \A t \in Ticket \ {OpTicket} : runs'[t] = runs[t]
      BY <1>4, <2>1, <3>1
    <3>3. \A t \in Ticket \ {OpTicket} : jobs'[t] = jobs[t] BY <2>1 DEF Sets
    <3> QED BY <2>1, <3>2, <3>3 DEF Earned
  <2> QED BY <1>2, <1>4, <2>1 DEF OfCommit
<1>5. CASE OfRelease(e, r) /\ op # None /\ OpTicket \in Ticket
  <2>1. CASE Sets(OpTicket, "released", op.prep, jobs[OpTicket].report)
             /\ UNCHANGED <<runs, outcome>>
    BY <1>5, <2>1, EarnedSets
  <2> QED BY <1>2, <1>5, <2>1 DEF OfRelease
<1> QED BY <1>1, <1>2, <1>3, <1>4, <1>5 DEF Result, OfBind, OfUnbind, OfConfirm

LEMMA EarnedGame == ASSUME IInv, Conduct, Earned, Game PROVE Earned'
<1>0. Agreed /\ EndFits BY DEF Conduct
<1>1. CASE WakeReceives(payload)
  <2>1. CASE UNCHANGED deskTables BY <2>1, EarnedStays DEF deskTables
  <2>2. ASSUME NEW e, NEW r, Woken(e, r) PROVE Earned' BY <1>0, <2>2, EarnedWoken
  <2> QED BY <1>0, <1>1, <2>1, <2>2, WakeIs DEF Conduct, Agreed
<1>2. CASE WakeStops(payload) \/ LoseKey \/ ProcessEnds
  BY <1>2, EarnedStays DEF WakeStops, LoseKey, ProcessEnds, engineVars, historyVars
<1>3. CASE JobSettles
  <2>1. /\ OpTicket \in Ticket /\ jobs[OpTicket] # None /\ jobs[OpTicket].state = "running"
    BY <1>0, <1>3, Settling DEF InHand, JobIs
  <2>2. PICK p \in Report : Reports(OpTicket, p) BY <1>0, <1>3, Settling
  <2>3. runs[OpTicket] # 0 BY <2>1 DEF Earned
  <2> QED BY <2>1, <2>2, <2>3, EarnedSets DEF Reports
<1>4. CASE CloseCancelsPrepared
  <2>1. OpTicket \in Ticket /\ Reports(OpTicket, "failed") BY <1>0, <1>4, Cancelling
  <2> QED BY <2>1, EarnedSets DEF Reports
<1>5. CASE RuntimeStarts
  BY <1>5 DEF RuntimeStarts, Earned, historyVars
<1> QED BY <1>1, <1>2, <1>3, <1>4, <1>5 DEF Game, DeliverKey, Wake

\* Only the game starts code or ends a job.
LEMMA HostLeaves ==
    ASSUME [Next]_vars, ~Game
    PROVE  /\ UNCHANGED <<policy, jobs, runs, outcome>>
           /\ ~JournalStep => op' = op
           /\ ~WriteResult => results' = results
<1>1. CASE JournalStep BY <1>1, JournalStepQuiet DEF Quiet
<1>2. CASE PoolSteps BY <1>2, PoolLeaves DEF beside, journal, engineVars, historyVars
<1>3. CASE InputSteps
  BY <1>3 DEF InputSteps, InvokeIntent, ReloadIntent, RecordInputIntent, Perform, SendKey,
              SendReloadKey, RecordInputOutcome, Crash, external, engineVars, historyVars, journal
<1>4. CASE WriteResult
  BY <1>4 DEF WriteResult, external, engineVars, historyVars, journal
<1>5. CASE UNCHANGED vars BY <1>5 DEF vars, engineVars, historyVars, journal
<1> QED BY <1>1, <1>2, <1>3, <1>4, <1>5
        DEF Next, Driver, DisconnectEnded, User, PoolSteps, InputSteps, JournalStep, Begins, Exchanges, Finishes,
            OperationSteps, Reloads, Recoveries, Closes

LEMMA EarnedStep == IInv /\ Conduct /\ Earned /\ [Next]_vars => Earned'
BY EarnedGame, HostLeaves, EarnedStays

LEMMA EarnedInit == Init => Earned
BY DEF Init, Earned

-----------------------------------------------------------------------------
(* The steps of the promise, as they look from here.                       *)
Statuses == [o \in Operations |-> StatusOf(o)]
Executed == [o \in Operations |-> ExecutionsOf(o)]
Delivered == [o \in Operations |-> AnswerOf(o)]

Accepts(o) ==
    /\ Statuses[o] = "none" /\ \A p \in 1..(o - 1) : Statuses[p] = "delivered"
    /\ Statuses' = [Statuses EXCEPT ![o] = "open"]
    /\ UNCHANGED <<policy, Executed, Delivered>>
Starts(o) ==
    /\ Statuses[o] = "open"
    /\ Executed[o] < IF policy[o] = "opaque" THEN 1 ELSE MaxAttempts
    /\ Executed' = [Executed EXCEPT ![o] = @ + 1]
    /\ UNCHANGED <<policy, Statuses, Delivered>>
Delivers(o) ==
    /\ Statuses[o] = "open"
    /\ \E r \in Report : /\ r = "failed" \/ Executed[o] > 0
                         /\ Delivered' = [Delivered EXCEPT ![o] = r]
    /\ Statuses' = [Statuses EXCEPT ![o] = "delivered"]
    /\ UNCHANGED <<policy, Executed>>
Cancels(o) ==
    /\ Statuses[o] = "open"
    /\ policy[o] = "opaque" => Executed[o] = 0
    /\ Statuses' = [Statuses EXCEPT ![o] = "cancelled"]
    /\ UNCHANGED <<policy, Executed, Delivered>>
GivesUp(o) ==
    /\ Statuses[o] = "open"
    /\ Statuses' = [Statuses EXCEPT ![o] = "unknown"]
    /\ UNCHANGED <<policy, Executed, Delivered>>

LEMMA PromiseSteps ==
    /\ UNCHANGED <<policy, Statuses, Executed, Delivered>> => UNCHANGED Abstract!vars
    /\ \A o \in Operations :
         Accepts(o) \/ Starts(o) \/ Delivers(o) \/ Cancels(o) \/ GivesUp(o) => Abstract!Next
<1>1. UNCHANGED <<policy, Statuses, Executed, Delivered>> => UNCHANGED Abstract!vars
  BY DEF Abstract!vars, Statuses, Executed, Delivered
<1>2. ASSUME NEW o \in Operations
      PROVE  /\ Accepts(o) => Abstract!Accept(o)
             /\ Starts(o) => Abstract!Execute(o)
             /\ Delivers(o) => Abstract!Deliver(o)
             /\ Cancels(o) => Abstract!Cancel(o)
             /\ GivesUp(o) => Abstract!GiveUp(o)
  <2>1. Accepts(o) => Abstract!Accept(o)
    BY DEF Accepts, Abstract!Accept, Statuses, Executed, Delivered
  <2>2. Starts(o) => Abstract!Execute(o)
    BY DEF Starts, Abstract!Execute, Statuses, Executed, Delivered
  <2>3. Delivers(o) => Abstract!Deliver(o)
    BY DEF Delivers, Abstract!Deliver, Statuses, Executed, Delivered
  <2>4. Cancels(o) => Abstract!Cancel(o)
    BY DEF Cancels, Abstract!Cancel, Statuses, Executed, Delivered
  <2>5. GivesUp(o) => Abstract!GiveUp(o)
    BY DEF GivesUp, Abstract!GiveUp, Statuses, Executed, Delivered
  <2> QED BY <2>1, <2>2, <2>3, <2>4, <2>5
<1>3. Abstract!Operations = Operations BY DEF Abstract!Operations, Operations
<1> QED BY <1>1, <1>2, <1>3 DEF Abstract!Next

(* What the mapping shows of an operation.                                 *)
LEMMA Shows ==
    ASSUME op # None, op.id \in Nat
    PROVE  /\ \A o \in Operations : o < op.id =>
                Statuses[o] = "delivered" /\ Delivered[o] = results[o]
           /\ \A o \in Operations : o > op.id => Statuses[o] = "none" /\ Delivered[o] = None
           /\ \A o \in Operations : o = op.id =>
                /\ op.stage = "complete" => Statuses[o] = "delivered" /\ Delivered[o] = op.report
                /\ op.stage = "cancelled" => Statuses[o] = "cancelled" /\ Delivered[o] = None
                /\ op.stage = "execution_unknown" =>
                     Statuses[o] = "unknown" /\ Delivered[o] = None
                /\ ~OpSettled => Statuses[o] = "open" /\ Delivered[o] = None
<1>1. \A o \in Operations : o \in Nat BY DEF Operations
<1> QED BY <1>1 DEF Statuses, Delivered, StatusOf, AnswerOf, OpSettled

LEMMA ShowsNext ==
    ASSUME op' # None, op'.id \in Nat
    PROVE  /\ \A o \in Operations : o < op'.id =>
                Statuses'[o] = "delivered" /\ Delivered'[o] = results'[o]
           /\ \A o \in Operations : o > op'.id => Statuses'[o] = "none" /\ Delivered'[o] = None
           /\ \A o \in Operations : o = op'.id =>
                /\ op'.stage = "complete" =>
                     Statuses'[o] = "delivered" /\ Delivered'[o] = op'.report
                /\ op'.stage = "cancelled" => Statuses'[o] = "cancelled" /\ Delivered'[o] = None
                /\ op'.stage = "execution_unknown" =>
                     Statuses'[o] = "unknown" /\ Delivered'[o] = None
                /\ ~OpSettled' => Statuses'[o] = "open" /\ Delivered'[o] = None
<1>1. \A o \in Operations : o \in Nat BY DEF Operations
<1> QED BY <1>1 DEF Statuses, Delivered, StatusOf, AnswerOf, OpSettled

LEMMA Maps ==
    /\ DOMAIN Statuses = Operations /\ DOMAIN Delivered = Operations
    /\ DOMAIN Executed = Operations
    /\ Statuses = [o \in Operations |-> Statuses[o]] /\ Delivered = [o \in Operations |-> Delivered[o]]
    /\ Statuses' = [o \in Operations |-> Statuses'[o]]
    /\ Delivered' = [o \in Operations |-> Delivered'[o]]
    /\ Executed' = [o \in Operations |-> Executed'[o]]
BY DEF Statuses, Delivered, Executed

LEMMA RunsShow == ASSUME runs' = runs PROVE Executed' = Executed
BY DEF Executed, ExecutionsOf, StartsOf

LEMMA FewStarts == \A n \in {0, 1} : 1..n = IF n = 0 THEN {} ELSE {1}
<1>1. 1..0 = {} /\ 1..1 = {1} OBVIOUS
<1> QED BY <1>1

\* Each attempt runs at most once, so that the starts are as many as the
\* attempts that ran.
LEMMA StartsAre ==
    ASSUME RunsFit, IInv, NEW o \in Operations
    PROVE  /\ StartsOf(o) = {<<t, 1>> : t \in {u \in AttemptsOf(o) : runs[u] # 0}}
           /\ StartsOf(o) \subseteq AttemptsOf(o) \X {1}
<1>1. \A t \in AttemptsOf(o) : runs[t] \in {0, 1}
  <2>1. AttemptsOf(o) \subseteq Ticket BY DEF AttemptsOf, Ticket, Operations
  <2>2. \A t \in Ticket : runs[t] \in Nat /\ runs[t] <= 1 BY DEF RunsFit, IInv, EngineDesk
  <2> QED BY <2>1, <2>2
<1>2. \A t \in AttemptsOf(o) : 1..runs[t] = IF runs[t] = 0 THEN {} ELSE {1}
  BY <1>1, FewStarts
<1> QED BY <1>1, <1>2 DEF StartsOf

LEMMA PairsWith ==
    ASSUME NEW S, NEW x, IsFiniteSet(S)
    PROVE  /\ IsFiniteSet(S \X {x}) /\ Cardinality(S \X {x}) = Cardinality(S)
           /\ IsFiniteSet({x} \X S) /\ Cardinality({x} \X S) = Cardinality(S)
<1>1. IsFiniteSet({x}) /\ Cardinality({x}) = 1 BY FS_Singleton
<1>2. Cardinality(S) \in Nat BY FS_CardinalityType
<1>3. IsFiniteSet(S \X {x}) /\ Cardinality(S \X {x}) = Cardinality(S) * Cardinality({x})
  BY <1>1, FS_Product
<1>4. IsFiniteSet({x} \X S) /\ Cardinality({x} \X S) = Cardinality({x}) * Cardinality(S)
  BY <1>1, FS_Product
<1> QED BY <1>1, <1>2, <1>3, <1>4

LEMMA StartsFinite ==
    ASSUME NEW o \in Operations
    PROVE  /\ IsFiniteSet(AttemptsOf(o) \X {1})
           /\ Cardinality(AttemptsOf(o) \X {1}) = MaxAttempts
<1>1. AttemptsOf(o) = {o} \X (1..MaxAttempts) BY DEF AttemptsOf
<1>2. IsFiniteSet(1..MaxAttempts) /\ Cardinality(1..MaxAttempts) = MaxAttempts
  BY SlotWireAssumption, FS_Interval
<1>3. /\ IsFiniteSet({o} \X (1..MaxAttempts))
      /\ Cardinality({o} \X (1..MaxAttempts)) = MaxAttempts
  BY <1>2, PairsWith
<1>4. IsFiniteSet(AttemptsOf(o)) /\ Cardinality(AttemptsOf(o)) = MaxAttempts
  BY <1>1, <1>3, Zenon
<1> QED BY <1>4, PairsWith

LEMMA Counted ==
    ASSUME IInv, Conduct, NEW o \in Operations
    PROVE  /\ IsFiniteSet(StartsOf(o)) /\ Executed[o] = Cardinality(StartsOf(o))
           /\ Executed[o] \in Nat
           /\ Executed[o] = 0 <=> \A t \in AttemptsOf(o) : runs[t] = 0
<1>1. RunsFit BY DEF Conduct, Agreed
<1>2. IsFiniteSet(StartsOf(o)) BY <1>1, StartsAre, StartsFinite, FS_Subset
<1>3. Cardinality(StartsOf(o)) \in Nat BY <1>2, FS_CardinalityType
<1>4. Cardinality(StartsOf(o)) = 0 <=> StartsOf(o) = {} BY <1>2, FS_EmptySet
<1>5. StartsOf(o) = {} <=> \A t \in AttemptsOf(o) : runs[t] = 0
  <2>1. StartsOf(o) = {<<t, 1>> : t \in {u \in AttemptsOf(o) : runs[u] # 0}}
    BY <1>1, StartsAre
  <2>2. ASSUME NEW t \in AttemptsOf(o), runs[t] # 0 PROVE <<t, 1>> \in StartsOf(o)
    BY <2>1, <2>2
  <2>3. ASSUME NEW s \in StartsOf(o) PROVE \E t \in AttemptsOf(o) : runs[t] # 0
    BY <2>1, <2>3
  <2> QED BY <2>2, <2>3
<1>6. Executed[o] = Cardinality(StartsOf(o)) BY DEF Executed, ExecutionsOf
<1> QED BY <1>2, <1>3, <1>4, <1>5, <1>6

\* The one step that starts code.
LEMMA StartShows ==
    ASSUME IInv, Conduct, (IInv /\ Conduct)', op # None, op' = op, policy' = policy,
           op.stage = "commit_ready", runs[OpTicket] = 0,
           runs' = [runs EXCEPT ![OpTicket] = @ + 1], results' = results
    PROVE  Abstract!Next
<1> DEFINE o == op.id
<1> DEFINE s == <<OpTicket, 1>>
<1>1. /\ op \in Operation /\ o \in Operations /\ o \in Nat /\ OpTicket \in Ticket
      /\ OpTicket \in AttemptsOf(o)
  BY JournalRead, OperationRecord DEF JournalFacts, OpTicket, AttemptsOf
<1>2. RunsFit /\ RunsFit' /\ IInv' BY DEF Conduct, Agreed
<1>3. /\ runs'[OpTicket] = 1 /\ \A t \in Ticket \ {OpTicket} : runs'[t] = runs[t]
  BY <1>1 DEF IInv, EngineDesk
<1>4. \A p \in Operations : AttemptsOf(p) \subseteq Ticket
  BY DEF AttemptsOf, Ticket, Operations
<1>5. \A p \in Operations \ {o} : OpTicket \notin AttemptsOf(p)
  BY <1>1 DEF AttemptsOf, OpTicket
<1>6. \A p \in Operations \ {o} : Executed'[p] = Executed[p]
  <2>1. TAKE p \in Operations \ {o}
  <2>2. \A t \in AttemptsOf(p) : runs'[t] = runs[t] BY <1>3, <1>4, <1>5
  <2>3. StartsOf(p)' = StartsOf(p) BY <2>2 DEF StartsOf
  <2> QED BY <2>3 DEF Executed, ExecutionsOf
<1>7. StartsOf(o)' = StartsOf(o) \cup {s} /\ s \notin StartsOf(o)
      /\ StartsOf(o)' \subseteq AttemptsOf(o) \X {1}
  <2>1. StartsOf(o) = {<<t, 1>> : t \in {u \in AttemptsOf(o) : runs[u] # 0}}
    BY <1>1, <1>2, StartsAre
  <2>2. StartsOf(o)' = {<<t, 1>> : t \in {u \in AttemptsOf(o) : runs'[u] # 0}}
    <3>1. \A t \in AttemptsOf(o) : runs'[t] \in {0, 1}
      <4>1. \A t \in Ticket : runs'[t] \in Nat /\ runs'[t] <= 1
        BY <1>2 DEF RunsFit, IInv, EngineDesk
      <4> QED BY <1>1, <1>4, <4>1
    <3>2. \A t \in AttemptsOf(o) : 1..(runs'[t]) = IF runs'[t] = 0 THEN {} ELSE {1}
      BY <3>1, FewStarts
    <3> QED BY <3>1, <3>2 DEF StartsOf
  <2>3. \A t \in AttemptsOf(o) : runs'[t] # 0 <=> (runs[t] # 0 \/ t = OpTicket)
    BY <1>1, <1>3, <1>4
  <2> QED BY <1>1, <2>1, <2>2, <2>3
<1>8. /\ IsFiniteSet(StartsOf(o)) /\ Executed[o] = Cardinality(StartsOf(o))
      /\ Executed[o] \in Nat
  BY <1>1, Counted
<1>9. Cardinality(StartsOf(o)') = Executed[o] + 1 /\ Executed[o] + 1 <= MaxAttempts
  <2>1. Cardinality(StartsOf(o) \cup {s}) = Cardinality(StartsOf(o)) + 1
    BY <1>7, <1>8, FS_AddElement
  <2>2. Cardinality(StartsOf(o)') <= MaxAttempts
    <3>1. ASSUME NEW S, S \subseteq AttemptsOf(o) \X {1} PROVE Cardinality(S) <= MaxAttempts
      <4>1. /\ IsFiniteSet(AttemptsOf(o) \X {1})
            /\ Cardinality(AttemptsOf(o) \X {1}) = MaxAttempts
        BY <1>1, StartsFinite
      <4> QED BY <3>1, <4>1, FS_Subset
    <3> QED BY <1>7, <3>1
  <2> QED BY <1>7, <1>8, <2>1, <2>2
<1>10. Executed' = [Executed EXCEPT ![o] = @ + 1]
  <2>1. Executed'[o] = Executed[o] + 1 BY <1>1, <1>9 DEF Executed, ExecutionsOf
  <2> QED BY <1>1, <1>6, <2>1, Maps
<1>11. policy[o] = "opaque" => Executed[o] = 0
  <2>1. SUFFICES ASSUME policy[o] = "opaque", NEW t \in AttemptsOf(o), runs[t] # 0 PROVE FALSE
    BY <1>1, Counted
  <2>2. t \in Ticket /\ t # OpTicket /\ t[1] = o BY <1>1, <1>4, <2>1 DEF AttemptsOf
  <2>3. runs'[t] # 0 /\ runs'[OpTicket] # 0 /\ t[1] = OpTicket[1] /\ policy'[t[1]] = "opaque"
    BY <1>3, <2>1, <2>2, OpTicketPair
  <2> QED BY <1>1, <1>2, <2>2, <2>3 DEF RunsFit
<1>12. Statuses[o] = "open"
  <2>1. ~OpSettled BY DEF OpSettled
  <2> QED BY <1>1, <2>1, Shows
<1>13. Statuses' = Statuses /\ Delivered' = Delivered
  BY DEF Statuses, StatusOf, Delivered, AnswerOf
<1>14. MaxAttempts \in Nat /\ Executed[o] < IF policy[o] = "opaque" THEN 1 ELSE MaxAttempts
  BY <1>8, <1>9, <1>11, SlotWireAssumption
<1> HIDE DEF o
<1>15. Starts(o) BY <1>10, <1>12, <1>13, <1>14 DEF Starts
<1> QED BY <1>1, <1>15, PromiseSteps DEF o

(* Nothing that shows has changed.                                         *)
LEMMA NothingShows ==
    ASSUME IInv, UNCHANGED <<op, runs, policy>>,
           \A o \in Operations : op # None /\ o < op.id => results'[o] = results[o]
    PROVE  UNCHANGED Abstract!vars
<1>0. \A o \in Operations : o \in Nat BY DEF Operations
<1>1. op # None => op.id \in Nat BY JournalRead, OperationRecord DEF JournalFacts
<1>2. Statuses' = Statuses BY DEF Statuses, StatusOf
<1>3. \A o \in Operations : AnswerOf(o)' = AnswerOf(o)
  BY <1>0, <1>1 DEF AnswerOf, StatusOf
<1>4. Delivered' = Delivered BY <1>3 DEF Delivered
<1> QED BY <1>2, <1>4, RunsShow, PromiseSteps

\* An operation that is under way goes on, or ends.
LEMMA StageShows ==
    ASSUME IInv, Conduct, Earned, (IInv /\ Conduct)', Earned', op # None, ~OpSettled, op' # None,
           op'.id = op.id, UNCHANGED <<runs, policy, results>>
    PROVE  Abstract!Next \/ UNCHANGED Abstract!vars
<1>0. \A o \in Operations : o \in Nat BY DEF Operations
<1>1. op.id \in Operations /\ op.id \in Nat /\ op'.id \in Nat
  BY <1>0, JournalRead, OperationRecord DEF JournalFacts
<1>2. Executed' = Executed BY RunsShow
<1>3. \A o \in Operations \ {op.id} : Statuses'[o] = Statuses[o] /\ Delivered'[o] = Delivered[o]
  BY <1>0, <1>1, Shows, ShowsNext
<1>4. Statuses[op.id] = "open" /\ Delivered[op.id] = None BY <1>1, Shows
<1>5. ASSUME NEW s, Statuses'[op.id] = s PROVE Statuses' = [Statuses EXCEPT ![op.id] = s]
  BY <1>1, <1>3, <1>5, Maps
<1>6. ASSUME NEW a, Delivered'[op.id] = a PROVE Delivered' = [Delivered EXCEPT ![op.id] = a]
  BY <1>1, <1>3, <1>6, Maps
<1>7. Delivered'[op.id] = None => Delivered' = Delivered
  BY <1>1, <1>3, <1>4, Maps
<1>8. CASE op'.stage = "complete"
  <2>1. Statuses'[op.id] = "delivered" /\ Delivered'[op.id] = op'.report
    BY <1>1, <1>8, ShowsNext
  <2>2. op'.report # None /\ op'.report = outcome'[OpTicket']
    BY <1>8 DEF Conduct, Kept, ResultsFit
  <2>3. op' \in Operation BY DEF IInv, JournalTyped
  <2>4. op'.report \in Report /\ OpTicket' \in Ticket /\ OpTicket' \in AttemptsOf(op.id)
    BY <2>2, <2>3, OperationRecord DEF OpTicket, Operation, AttemptsOf
  <2>5. op'.report = "failed" \/ runs[OpTicket'] # 0
    BY <2>2, <2>4 DEF Earned
  <2>6. runs[OpTicket'] # 0 => Executed[op.id] > 0
    BY <1>1, <2>4, Counted
  <2>7. Delivers(op.id)
    BY <1>1, <1>2, <1>4, <1>5, <1>6, <2>1, <2>4, <2>5, <2>6 DEF Delivers
  <2> QED BY <1>1, <2>7, PromiseSteps
<1>9. CASE op'.stage = "cancelled"
  <2>1. Statuses'[op.id] = "cancelled" /\ Delivered'[op.id] = None BY <1>1, <1>9, ShowsNext
  <2>2. policy[op.id] = "opaque" => Executed[op.id] = 0
    <3>1. CancelledNeverRan' BY CancelledRan, PTL
    <3>2. policy[op.id] = "opaque" => \A t \in AttemptsOf(op.id) : runs[t] = 0
      BY <1>9, <3>1 DEF CancelledNeverRan
    <3> QED BY <1>1, <3>2, Counted
  <2>3. Cancels(op.id)
    BY <1>1, <1>2, <1>4, <1>5, <1>7, <2>1, <2>2 DEF Cancels
  <2> QED BY <1>1, <2>3, PromiseSteps
<1>10. CASE op'.stage = "execution_unknown"
  <2>1. Statuses'[op.id] = "unknown" /\ Delivered'[op.id] = None BY <1>1, <1>10, ShowsNext
  <2>2. GivesUp(op.id) BY <1>1, <1>2, <1>4, <1>5, <1>7, <2>1 DEF GivesUp
  <2> QED BY <1>1, <2>2, PromiseSteps
<1>11. CASE ~OpSettled'
  <2>1. Statuses'[op.id] = "open" /\ Delivered'[op.id] = None BY <1>1, <1>11, ShowsNext
  <2>2. Statuses' = Statuses BY <1>1, <1>3, <1>4, <2>1, Maps
  <2> QED BY <1>2, <1>7, <2>1, <2>2, PromiseSteps
<1> QED BY <1>8, <1>9, <1>10, <1>11 DEF OpSettled

\* A new request is only taken when the last one has its answer.
LEMMA RequestShows ==
    ASSUME IInv, Conduct, PrepareRequest
    PROVE  Abstract!Next
<1>0. \A o \in Operations : o \in Nat /\ o >= 1 BY DEF Operations
<1>1. /\ op' # None /\ op' \in Operation /\ op'.stage = "prepared"
      /\ op'.id = IF op = None THEN 1 ELSE op.id + 1
      /\ op'.id \in Operations /\ op'.id \in Nat
      /\ op # None => op.id \in Operations /\ op.id \in Nat
  BY PrepareRequestStep, JournalRead, OperationRecord DEF JournalFacts
<1> DEFINE o == op'.id
<1>2. /\ ~closed /\ (op # None => op.stage = "complete")
      /\ UNCHANGED <<results, policy, runs>>
  BY DEF PrepareRequest, Scheduled, Admitted, beside, external, historyVars
<1>3. op # None => results[op.id] = op.report BY <1>2 DEF Conduct, Kept, ResultsFit
<1>4. ~OpSettled' BY <1>1 DEF OpSettled
<1>5. Statuses'[o] = "open" /\ Delivered'[o] = None BY <1>1, <1>4, ShowsNext
<1>6. CASE op = None
  <2>1. \A p \in Operations : Statuses[p] = "none" /\ Delivered[p] = None
    BY <1>6 DEF Statuses, StatusOf, Delivered, AnswerOf
  <2>2. \A p \in Operations \ {o} : Statuses'[p] = "none" /\ Delivered'[p] = None
    BY <1>0, <1>1, <1>6, ShowsNext
  <2>3. \A p \in 1..(o - 1) : Statuses[p] = "delivered" BY <1>1, <1>6
  <2> HIDE DEF o
  <2>4. o \in Operations BY <1>1 DEF o
  <2>5. Statuses' = [Statuses EXCEPT ![o] = "open"] /\ Delivered' = Delivered
    BY <1>5, <2>1, <2>2, <2>4, Maps
  <2>6. Accepts(o) BY <1>2, <2>1, <2>3, <2>4, <2>5, RunsShow DEF Accepts
  <2> QED BY <2>4, <2>6, PromiseSteps
<1>7. CASE op # None
  <2>0. o = op.id + 1 /\ op.id \in Nat BY <1>1, <1>7
  <2>1. \A p \in Operations : p < o =>
          /\ Statuses[p] = "delivered" /\ Statuses'[p] = "delivered"
          /\ Delivered'[p] = Delivered[p]
    <3>1. TAKE p \in Operations
    <3>2. HAVE p < o
    <3>3. Statuses'[p] = "delivered" /\ Delivered'[p] = results[p]
      BY <1>1, <1>2, <3>2, ShowsNext
    <3>4. CASE p = op.id BY <1>2, <1>3, <1>7, <2>0, <3>3, <3>4, Shows
    <3>5. CASE p < op.id BY <1>7, <2>0, <3>3, <3>5, Shows
    <3> QED BY <1>0, <2>0, <3>2, <3>4, <3>5
  <2>2. \A p \in Operations : p > o =>
          /\ Statuses[p] = "none" /\ Statuses'[p] = "none"
          /\ Delivered[p] = None /\ Delivered'[p] = None
    BY <1>0, <1>1, <1>7, <2>0, Shows, ShowsNext
  <2>3. Statuses[o] = "none" /\ Delivered[o] = None
    BY <1>1, <1>7, <2>0, Shows
  <2>4. \A p \in 1..(o - 1) : p \in Operations /\ p < o
    BY <1>1, SlotWireAssumption DEF Operations
  <2>5. \A p \in Operations \ {o} : p < o \/ p > o BY <1>0, <1>1
  <2>6. o \in Operations BY <1>1
  <2> HIDE DEF o
  <2>7. Statuses' = [Statuses EXCEPT ![o] = "open"] /\ Delivered' = Delivered
    BY <1>5, <2>1, <2>2, <2>3, <2>5, <2>6, Maps
  <2>8. Accepts(o) BY <1>2, <2>1, <2>3, <2>4, <2>7, RunsShow DEF Accepts
  <2> QED BY <2>6, <2>8, PromiseSteps
<1> QED BY <1>6, <1>7

\* What a save does to the operation.
LEMMA SaveMoves ==
    ASSUME IInv, JournalStep
    PROVE  \/ op' = op
           \/ PrepareRequest
           \/ op # None /\ op' # None /\ op'.id = op.id /\ ~OpSettled
           \/ /\ op # None /\ op' # None /\ op'.id = op.id
              /\ op.stage = "execution_unknown" /\ op'.stage = "execution_unknown"
<1>1. CASE Begins BY <1>1, BeginStep DEF control
<1>2. CASE Exchanges BY <1>2, MarkStep
<1>3. CASE FinishBind \/ FinishPrepareCapacity \/ FinishUnbind
  BY <1>3 DEF FinishBind, FinishPrepareCapacity, FinishUnbind
<1>4. CASE FinishPrepare
  BY <1>4, FinishPrepareStep, OperationRecord, OpTicketPair
     DEF FinishPrepare, Prepared, OpSettled, SameTicket
<1>5. CASE FinishCommit
  BY <1>5, FinishCommitStep, OperationRecord DEF FinishCommit, Accepted, OpSettled, SameTicket
<1>6. CASE FinishConfirm
  BY <1>6, FinishConfirmStep, OperationRecord DEF FinishConfirm, Confirmed, OpSettled, SameTicket
<1>7. CASE FinishRelease
  BY <1>7, FinishReleaseStep, OperationRecord DEF FinishRelease, Released, OpSettled, SameTicket
<1>8. CASE FinishReleaseHeld
  BY <1>8, FinishReleaseHeldStep, OperationRecord
     DEF FinishReleaseHeld, StillHeld, OpSettled, SameTicket
<1>9. CASE CancelPrepared
  BY <1>9, CancelPreparedStep, OperationRecord DEF CancelPrepared, OpSettled, SameTicket
<1>10. CASE RecordDurable
  BY <1>10, RecordDurableStep, OperationRecord DEF RecordDurable, OpSettled, SameTicket
<1>11. CASE ObserveResult
  BY <1>11, ObserveResultStep, OperationRecord DEF ObserveResult, OpSettled, SameTicket
<1>12. CASE Reloads BY <1>12, ReloadsLeave
<1>13. CASE RecoverRuntime \/ RecoverThirdRuntime \/ RecoveryBound
  BY <1>13 DEF RecoverRuntime, RecoverThirdRuntime, RecoveryBound
<1>14. CASE Reconcile
  <2>1. CASE OpSettled BY <1>14, <2>1, ReconcileStep
  <2>2. CASE ~OpSettled
    <3>1. op \in Operation /\ op' \in Operation BY <1>14, <2>2, ReconcileStep
    <3>2. op # None /\ op' # None BY <3>1, OperationRecord
    <3>3. op'.id = op.id
      BY <1>14, <2>2, ReconcileStep DEF Destroyed, Abandoned, Again, GivenUp, SameTicket
    <3> QED BY <2>2, <3>2, <3>3
  <2> QED BY <2>1, <2>2
<1>15. CASE Marks BY <1>15, MarksLeave
<1>16. CASE CloseReplaced \/ CloseEnded
  <2>1. CASE op = None BY <1>16, <2>1, EndedStep
  <2>2. CASE op # None
    <3>1. op' # None /\ op'.id = op.id
      BY <1>16, <2>2, EndedStep, OperationRecord DEF SameTicket
    <3> QED BY <1>16, <2>2, <3>1, EndedStep DEF OpSettled
  <2> QED BY <2>1, <2>2
<1> QED BY <1>1, <1>2, <1>3, <1>4, <1>5, <1>6, <1>7, <1>8, <1>9, <1>10, <1>11, <1>12, <1>13,
           <1>14, <1>15, <1>16, ClosesAre
        DEF JournalStep, Finishes, OperationSteps, Recoveries

\* The game takes an operation up only by a commit of its present ticket.
LEMMA GameShows ==
    ASSUME IInv, Conduct, (IInv /\ Conduct)', Game
    PROVE  Abstract!Next \/ UNCHANGED Abstract!vars
<1>0. UNCHANGED gameLeaves
  BY DEF Game, DeliverKey, LoseKey, Beside, gameLeaves, journal, poolVars
<1>1. UNCHANGED <<op, policy, results>> BY <1>0 DEF gameLeaves, journal
<1>2. CASE runs' = runs BY <1>1, <1>2, NothingShows
<1>3. Agreed /\ EndFits BY DEF Conduct
<1>4. CASE WakeReceives(payload)
  <2>1. CASE UNCHANGED deskTables BY <1>2, <2>1 DEF deskTables
  <2>2. ASSUME NEW e, NEW r, Woken(e, r) PROVE Abstract!Next \/ runs' = runs
    <3>1. Result(e, r) BY <1>3, <2>2, ResultIs DEF Agreed
    <3>2. CASE OfCommit(e, r) /\ op # None /\ OpTicket \in Ticket
      <4>1. CASE Waiting(op.prep) /\ runs' = [runs EXCEPT ![OpTicket] = @ + 1]
        <5>1. runs[OpTicket] = 0 BY <4>1 DEF Waiting
        <5>2. op.stage = "commit_ready" BY <3>2 DEF OfCommit
        <5> QED BY <1>1, <3>2, <4>1, <5>1, <5>2, StartShows
      <4>2. CASE UNCHANGED deskTables BY <4>2 DEF deskTables
      <4> QED BY <3>2, <4>1, <4>2 DEF OfCommit
    <3>3. CASE OfBind(e, r) \/ OfUnbind(e, r) \/ OfConfirm(e, r) \/ OfPrepare(e, r)
               \/ OfRelease(e, r)
      BY <3>3 DEF OfBind, OfUnbind, OfConfirm, OfPrepare, OfRelease, deskTables
    <3> QED BY <3>1, <3>2, <3>3 DEF Result
  <2> QED BY <1>2, <1>3, <1>4, <2>1, <2>2, WakeIs DEF Conduct, Agreed
<1>5. CASE WakeStops(payload) \/ LoseKey \/ ProcessEnds
  BY <1>2, <1>5 DEF WakeStops, LoseKey, ProcessEnds, engineVars, historyVars
<1>6. CASE JobSettles
  <2>1. PICK p \in Report : Reports(OpTicket, p) BY <1>3, <1>6, Settling
  <2> QED BY <1>2, <2>1 DEF Reports
<1>7. CASE CloseCancelsPrepared BY <1>2, <1>3, <1>7, Cancelling DEF Reports
<1>8. CASE RuntimeStarts BY <1>2, <1>8 DEF RuntimeStarts, historyVars
<1> QED BY <1>4, <1>5, <1>6, <1>7, <1>8 DEF Game, DeliverKey, Wake

\* Only the result of the present operation is written.
LEMMA WriteShows ==
    ASSUME IInv, WriteResult
    PROVE  UNCHANGED Abstract!vars
<1>1. UNCHANGED <<op, runs, policy>>
  BY DEF WriteResult, external, engineVars, historyVars, journal
<1>2. \A o \in Operations : o \in Nat BY DEF Operations
<1>3. op # None => op.id \in Nat BY JournalRead, OperationRecord DEF JournalFacts
<1>4. results \in [Operations -> Report \cup {None}] BY DEF IInv, BesideTyped
<1>5. \A o \in Operations : op # None /\ o < op.id => results'[o] = results[o]
  BY <1>2, <1>3, <1>4 DEF WriteResult
<1> QED BY <1>1, <1>5, NothingShows

\* A save moves the operation by one step of the promise at most.
LEMMA SaveShows ==
    ASSUME IInv, Conduct, Earned, (IInv /\ Conduct)', Earned', JournalStep
    PROVE  Abstract!Next \/ UNCHANGED Abstract!vars
<1>1. UNCHANGED <<runs, policy, results>>
  BY JournalStepQuiet DEF Quiet, external, historyVars, engineVars, beside
<1>2. CASE op' = op BY <1>1, <1>2, NothingShows
<1>3. CASE PrepareRequest BY <1>3, RequestShows
<1>4. CASE op # None /\ op' # None /\ op'.id = op.id /\ ~OpSettled
  BY <1>1, <1>4, StageShows
<1>5. CASE /\ op # None /\ op' # None /\ op'.id = op.id
           /\ op.stage = "execution_unknown" /\ op'.stage = "execution_unknown"
  <2>1. Statuses' = Statuses /\ Delivered' = Delivered
    BY <1>1, <1>5 DEF Statuses, StatusOf, Delivered, AnswerOf
  <2> QED BY <1>1, <2>1, RunsShow, PromiseSteps
<1> QED BY <1>2, <1>3, <1>4, <1>5, SaveMoves

LEMMA StepShows ==
    /\ IInv /\ Conduct /\ Earned
    /\ (IInv /\ Conduct /\ Earned)'
    /\ [Next]_vars
    => Abstract!Next \/ UNCHANGED Abstract!vars
<1> SUFFICES ASSUME IInv, Conduct, Earned, (IInv /\ Conduct /\ Earned)', [Next]_vars
             PROVE  Abstract!Next \/ UNCHANGED Abstract!vars
  OBVIOUS
<1>1. CASE Game BY <1>1, GameShows
<1>2. CASE JournalStep BY <1>2, SaveShows
<1>3. CASE WriteResult BY <1>3, WriteShows
<1>4. CASE ~Game /\ ~JournalStep /\ ~WriteResult
  <2>1. UNCHANGED <<op, runs, policy, results>> BY <1>4, HostLeaves
  <2> QED BY <2>1, NothingShows
<1> QED BY <1>1, <1>2, <1>3, <1>4

LEMMA InitShows == Init => Abstract!Init
<1> SUFFICES ASSUME Init PROVE Abstract!Init OBVIOUS
<1>1. /\ op = None /\ policy \in [Operations -> {"opaque", "observation"}]
      /\ \A t \in Ticket : runs[t] = 0
  BY ChannelAssumption DEF Init
<1>2. \A o \in Operations : StatusOf(o) = "none" /\ AnswerOf(o) = None
  BY <1>1 DEF StatusOf, AnswerOf
<1>3. ASSUME NEW o \in Operations PROVE ExecutionsOf(o) = 0
  <2>1. \A t \in AttemptsOf(o) : 1..runs[t] = {}
    BY <1>1, FewStarts DEF AttemptsOf, Ticket, Operations
  <2>2. StartsOf(o) = {} BY <2>1 DEF StartsOf
  <2>3. Cardinality({}) = 0 BY FS_EmptySet
  <2> QED BY <2>2, <2>3 DEF ExecutionsOf
<1> QED BY <1>1, <1>2, <1>3 DEF Abstract!Init, Abstract!Operations, Operations

(* The driver keeps the promise of OperationPromise for every operation it *)
(* is given, in any number: every step of journal, pool, input and game is *)
(* a step of the promise for one operation or shows nothing.  Operations   *)
(* are taken one at a time, code starts only while its operation is open,  *)
(* an answer was earned, a cancelled opaque operation has not run          *)
(* (Driver.Run, Transact, finishRecovery).                                 *)
THEOREM KeepsPromise == Spec => Promise
<1>1. Init => IInv /\ PoolSettled /\ Conduct /\ Earned
  BY InitTyped, InitSettled, ConductInit, EarnedInit
<1>2. IInv /\ PoolSettled /\ Conduct /\ Earned /\ [Next]_vars
        => (IInv /\ PoolSettled /\ Conduct /\ Earned)'
  BY StepTyped, StepSettled, ConductStep, EarnedStep
<1>3. /\ IInv /\ Conduct /\ Earned
      /\ (IInv /\ Conduct /\ Earned)'
      /\ [Next]_vars
      => [Abstract!Next]_(Abstract!vars)
  BY StepShows
<1> QED BY <1>1, <1>2, <1>3, InitShows, PTL DEF Spec, Promise, Abstract!Spec
=============================================================================
