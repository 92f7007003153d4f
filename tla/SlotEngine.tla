----------------------------- MODULE SlotEngine -----------------------------
(***************************************************************************)
(* The addon's side of the slot protocol: one engine per Lua runtime       *)
(* (addon/Bridge/SlotProtocol.lua), woken by a key chord                   *)
(* (addon/Bridge/SlotRuntime.lua).  A reload of the game's user interface  *)
(* destroys the engine with everything it knows and starts another one.    *)
(*                                                                         *)
(* A slot file can be loaded once per runtime; slots are loaded in order,  *)
(* so the consumed slots are a prefix and cursor is the first one left.    *)
(***************************************************************************)
EXTENDS SlotWire

CONSTANTS
    EngineReserve,  \* slots that must be left behind a prepare (3 in the code)
    MaxJobs,        \* jobs one engine admits (MAX_OPERATIONS, 121 in the code)
    GameMayEnd,     \* bound: FALSE in runs where the game process keeps running
    LoadsMayFail,   \* bound: FALSE in runs where every slot file can be loaded
    SlotStates      \* whether a starting runtime finds slots to enable: BOOLEAN,
                    \* or {FALSE} to bound a run

VARIABLES
    live,       \* number of the runtime that is running
    alive,      \* the game process exists
    cursor,     \* nextSlot()
    owner,      \* the connection this engine is bound to
    jobs,       \* operations: ticket |-> job, None when never admitted
    count,      \* jobs admitted by this engine
    active,     \* the ticket whose job is committed and not yet released
    pending,    \* the ticket whose job is prepared and not yet committed
    receipts,   \* published records, at most one per nonce
    needSlots,  \* slotReloadRequired: slots were enabled, a reload is due
    runs,       \* history: ticket |-> how often its code was started
    outcome     \* history: ticket |-> what its job ended with

engineVars == <<live, alive, cursor, owner, jobs, count, active, pending,
                receipts, needSlots>>
historyVars == <<runs, outcome>>

Job ==
    [state  : {"prepared", "running", "reported", "released"},
     nonce  : Nat,                  \* of the prepare envelope
     report : Report \cup {None},
     held   : BOOLEAN]              \* resourcesReleased = false

ASSUME NoneIsNoJob == None \notin Job

EngineTypeOK ==
    /\ live \in Runtimes
    /\ alive \in BOOLEAN
    /\ cursor \in NextSlot
    /\ owner \in Drivers \cup {None}
    /\ jobs \in [Ticket -> Job \cup {None}]
    /\ count \in Nat
    /\ active \in Ticket \cup {None}
    /\ pending \in Ticket \cup {None}
    /\ receipts \subseteq Receipt
    /\ needSlots \in BOOLEAN
    /\ runs \in [Ticket -> Nat]
    /\ outcome \in [Ticket -> Report \cup {None}]

-----------------------------------------------------------------------------
\* publish(): a later record under the same nonce replaces the earlier one.
Publish(r) == receipts' = {x \in receipts : x.nonce # r.nonce} \cup {r}

\* The record published in answer to e, which came from slot e.index.
Answer(e, own, state) ==
    [nonce |-> e.nonce, action |-> e.action, ticket |-> e.ticket,
     runtime |-> live, owner |-> own, next |-> e.index + 1,
     state |-> state, reason |-> "", prep |-> 0, report |-> None]

\* The checks of Receive, in the order the code makes them; "" admits e.
Refusal(e) ==
    IF e.action = "bind"
    THEN IF owner \notin {None, e.owner} THEN "slot_owner_busy" ELSE ""
    ELSE IF owner # e.owner THEN "slot_owner_mismatch"
    ELSE IF e.action = "prepare" THEN
         IF active # None \/ pending # None THEN "slot_busy"
         ELSE IF jobs[e.ticket] # None THEN "slot_operation_exists"
         ELSE IF e.index + 1 > Slots - EngineReserve \/ count >= MaxJobs
              THEN "slot_capacity" ELSE ""
    ELSE IF e.action = "commit" THEN
         IF pending # e.ticket \/ jobs[e.ticket].nonce # e.prep
         THEN "slot_commit_mismatch" ELSE ""
    ELSE IF e.action = "release" THEN
         IF jobs[e.ticket] = None THEN "slot_release_mismatch"
         ELSE IF \/ jobs[e.ticket].state \notin {"reported", "released"}
                 \/ jobs[e.ticket].report # e.report
              THEN "slot_release_mismatch"
         ELSE IF jobs[e.ticket].held THEN "slot_resources_pending" ELSE ""
    ELSE IF e.action = "unbind" /\ (active # None \/ pending # None)
         THEN "slot_busy" ELSE ""

Refuse(e) ==
    /\ Refusal(e) # ""
    /\ Publish([Answer(e, owner, "rejected") EXCEPT !.reason = Refusal(e)])
    /\ UNCHANGED <<owner, jobs, count, active, pending, historyVars>>

Bind(e) ==
    /\ e.action = "bind" /\ Refusal(e) = ""
    /\ owner' = e.owner
    /\ Publish(Answer(e, e.owner, "bound"))
    /\ UNCHANGED <<jobs, count, active, pending, historyVars>>

Prepare(e) ==
    /\ e.action = "prepare" /\ Refusal(e) = ""
    /\ jobs' = [jobs EXCEPT ![e.ticket] =
                   [state |-> "prepared", nonce |-> e.nonce,
                    report |-> None, held |-> FALSE]]
    /\ pending' = e.ticket
    /\ count' = count + 1
    /\ Publish(Answer(e, owner, "prepared"))
    /\ UNCHANGED <<owner, active, historyVars>>

\* The code does not compile: the job is reported at once and never runs.
PrepareUncompilable(e) ==
    /\ e.action = "prepare" /\ Refusal(e) = ""
    /\ jobs' = [jobs EXCEPT ![e.ticket] =
                   [state |-> "reported", nonce |-> e.nonce,
                    report |-> "failed", held |-> FALSE]]
    /\ active' = e.ticket
    /\ count' = count + 1
    /\ outcome' = [outcome EXCEPT ![e.ticket] = "failed"]
    /\ Publish([Answer(e, owner, "reported") EXCEPT !.report = "failed"])
    /\ UNCHANGED <<owner, pending, runs>>

\* The only way into execution.
Commit(e) ==
    /\ e.action = "commit" /\ Refusal(e) = ""
    /\ jobs' = [jobs EXCEPT ![e.ticket].state = "running"]
    /\ active' = e.ticket
    /\ pending' = None
    /\ runs' = [runs EXCEPT ![e.ticket] = @ + 1]
    /\ Publish(Answer(e, owner, "accepted"))
    /\ UNCHANGED <<owner, count, outcome>>

Confirm(e) ==
    /\ e.action = "confirm" /\ Refusal(e) = ""
    /\ Publish(IF jobs[e.ticket] = None
               THEN Answer(e, owner, "absent")
               ELSE [Answer(e, owner, jobs[e.ticket].state) EXCEPT
                        !.prep = jobs[e.ticket].nonce,
                        !.report = jobs[e.ticket].report])
    /\ UNCHANGED <<owner, jobs, count, active, pending, historyVars>>

Release(e) ==
    /\ e.action = "release" /\ Refusal(e) = ""
    /\ jobs' = [jobs EXCEPT ![e.ticket].state = "released"]
    /\ active' = IF active = e.ticket THEN None ELSE active
    /\ Publish(Answer(e, owner, "released"))
    /\ UNCHANGED <<owner, count, pending, historyVars>>

\* The receipt still names the owner; only then is the engine released.
Unbind(e) ==
    /\ e.action = "unbind" /\ Refusal(e) = ""
    /\ Publish(Answer(e, owner, "unbound"))
    /\ owner' = None
    /\ UNCHANGED <<jobs, count, active, pending, historyVars>>

Receive(e) ==
    \/ Refuse(e)
    \/ Bind(e)
    \/ Prepare(e)
    \/ PrepareUncompilable(e)
    \/ Commit(e)
    \/ Confirm(e)
    \/ Release(e)
    \/ Unbind(e)

\* slot_nonce_reused: the old record stands.
Repeated(e) == \E r \in receipts : r.nonce = e.nonce

-----------------------------------------------------------------------------
(* One wake loads slots from the cursor on, skips inert and foreign ones   *)
(* and stops behind the first envelope of this runtime; without one it     *)
(* uses up every slot that is left, or stops before a slot that the client *)
(* fails to load.  disk is the content of the slots.                       *)
Own(disk) == {i \in cursor..Slots : disk[i] # Inert /\ disk[i].runtime = live}

WakeReceives(disk) ==
    /\ alive
    /\ \E i \in Own(disk) :
         /\ \A j \in Own(disk) : i <= j
         /\ cursor' = i + 1
         /\ IF Repeated(disk[i])
            THEN UNCHANGED <<owner, jobs, count, active, pending, receipts, historyVars>>
            ELSE Receive(disk[i])
    /\ UNCHANGED <<live, alive, needSlots>>

WakeStops(disk) ==
    /\ alive
    /\ \E i \in cursor..(Slots + 1) :
         /\ \A j \in Own(disk) : i <= j
         /\ i = Slots + 1 \/ LoadsMayFail
         /\ cursor' = i
    /\ UNCHANGED <<live, alive, owner, jobs, count, active, pending, receipts,
                   needSlots, historyVars>>

Wake(disk) == WakeReceives(disk) \/ WakeStops(disk)

\* finish(): job t ends with r; its prepare nonce now answers "reported".
FinishJob(t, r, held) ==
    /\ jobs' = [jobs EXCEPT ![t].state = "reported", ![t].report = r,
                            ![t].held = held]
    /\ outcome' = [outcome EXCEPT ![t] = r]
    /\ Publish([nonce |-> jobs[t].nonce, action |-> "prepare", ticket |-> t,
                runtime |-> live, owner |-> owner, next |-> cursor,
                state |-> "reported", reason |-> "", prep |-> 0, report |-> r])
    /\ UNCHANGED <<live, alive, cursor, owner, count, needSlots, runs>>

\* The running probe settles; its cleanup may leave resources behind.
JobSettles ==
    /\ alive
    /\ active # None
    /\ jobs[active].state = "running"
    /\ \E r \in Report, held \in BOOLEAN : FinishJob(active, r, held)
    /\ UNCHANGED <<active, pending>>

\* Close(): the player turns the bridge off.  A running job is cancelled by
\* JobSettles with "failed"; a prepared one is reported without having run.
CloseCancelsPrepared ==
    /\ alive
    /\ pending # None
    /\ active' = pending
    /\ pending' = None
    /\ FinishJob(pending, "failed", FALSE)

\* The user interface is reloaded: by the reload chord, or by the player.
RuntimeStarts ==
    /\ alive
    /\ live < MaxRuntime
    /\ live' = live + 1
    /\ cursor' = 1
    /\ owner' = None
    /\ jobs' = [t \in Ticket |-> None]
    /\ count' = 0
    /\ active' = None
    /\ pending' = None
    /\ receipts' = {}
    /\ needSlots' \in SlotStates
    /\ UNCHANGED <<alive, historyVars>>

ProcessEnds ==
    /\ alive /\ GameMayEnd
    /\ alive' = FALSE
    /\ UNCHANGED <<live, cursor, owner, jobs, count, active, pending, receipts,
                   needSlots, historyVars>>
=============================================================================
