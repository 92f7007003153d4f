------------------------------- MODULE Project -------------------------------
(***************************************************************************)
(* Command line programs that share connections: connect, execute, resume  *)
(* and disconnect, each a program of its own that may end anywhere.  What  *)
(* a connection does with the game is Channel; here it is a few turns that *)
(* save the state and, once a request is saved as sent, run its code.  The *)
(* question is whether many programs, taking turns, keep one journal.      *)
(***************************************************************************)
EXTENDS WindowAdmission, MemoryLog, DurableBudget

CONSTANT Requests       \* request keys of a connection

ASSUME ProjectAssumption == None \notin Requests \cup {"cancelled"}

VARIABLES
    target,       \* the window in the metadata of a connection
    activation,   \* phase of the activation, or None
    pc,           \* where a program is
    command,      \* what it was asked to do
    on,           \* the connection it works on
    at,           \* the window of that connection
    ask,          \* the request it executes
    view,         \* the state it has in memory
    sending,      \* it has saved a request as sent and is about to run it
    effects,      \* history: how often the code of a request was run
    saved,        \* history: the stage that was last saved for a request
    outrun        \* history: connections whose creator was outrun (LockCreated)

records  == <<log, target, activation>>
programs == <<pc, command, on, at, ask, view, sending>>
history  == <<effects, saved, outrun>>
vars     == <<admission, records, programs, history>>

Stage == {"prepared", "sent", "complete", "cancelled"}
Op    == [req : Requests, stage : Stage, budget : Budget]
State == [bound : BOOLEAN, op : Op \cup {None}, closing : BOOLEAN,
          closed : BOOLEAN, archive : Nat]

ASSUME NoneIsNoOp == None \notin Op

NewState == [bound |-> FALSE, op |-> None, closing |-> FALSE,
             closed |-> FALSE, archive |-> 0]

Settled(s) == IF s.op = None THEN TRUE ELSE s.op.stage \in {"complete", "cancelled"}

Counter ==
    {"idle", "begin", "persist", "publish", "lock", "reach", "mend_lock", "mend",
     "enter", "admitted", "prepare", "rotate", "turn", "retire",
     "activate", "activated", "selected", "maintain"}

TypeOK ==
    /\ AdmissionTypeOK
    /\ log \in [Conns -> [active : Seq([sum : Nat, state : State]), torn : BOOLEAN,
                          history : SUBSET Seq([sum : Nat, state : State])]]
    /\ target \in [Conns -> Windows \cup {None}]
    /\ activation \in [Conns -> {"prepared", "waiting_manual_reload",
                                 "runtime_selected", "cancelled", None}]
    /\ pc \in [Programs -> Counter]
    /\ command \in [Programs -> {"connect", "activate", "execute", "resume",
                                 "disconnect", "maintain", None}]
    /\ on \in [Programs -> Conns \cup {None}]
    /\ at \in [Programs -> Windows \cup {None}]
    /\ ask \in [Programs -> Requests \cup {None}]
    /\ view \in [Programs -> State \cup {None}]
    /\ sending \in [Programs -> BOOLEAN]
    /\ effects \in [Conns -> [Requests -> Nat]]
    /\ saved \in [Conns -> [Requests -> Stage \cup {"absent"}]]
    /\ outrun \subseteq Conns

Init ==
    /\ AdmissionInit /\ LogInit
    /\ target = [c \in Conns |-> None]
    /\ activation = [c \in Conns |-> None]
    /\ pc = [p \in Programs |-> "idle"]
    /\ command = [p \in Programs |-> None]
    /\ on = [p \in Programs |-> None]
    /\ at = [p \in Programs |-> None]
    /\ ask = [p \in Programs |-> None]
    /\ view = [p \in Programs |-> None]
    /\ sending = [p \in Programs |-> FALSE]
    /\ effects = [c \in Conns |-> [r \in Requests |-> 0]]
    /\ saved = [c \in Conns |-> [r \in Requests |-> "absent"]]
    /\ outrun = {}

-----------------------------------------------------------------------------
(* Steps of a program.                                                     *)
Goto(p, to) ==
    /\ pc' = [pc EXCEPT ![p] = to]
    /\ UNCHANGED <<command, on, at, ask, view, sending>>

\* The command is over.
Done(p) ==
    /\ pc' = [pc EXCEPT ![p] = "idle"] /\ command' = [command EXCEPT ![p] = None]
    /\ on' = [on EXCEPT ![p] = None] /\ at' = [at EXCEPT ![p] = None]
    /\ ask' = [ask EXCEPT ![p] = None]
    /\ view' = [view EXCEPT ![p] = None] /\ sending' = [sending EXCEPT ![p] = FALSE]

Start(p, cmd, c, w, r, to) ==
    /\ pc[p] = "idle"
    /\ pc' = [pc EXCEPT ![p] = to] /\ command' = [command EXCEPT ![p] = cmd]
    /\ on' = [on EXCEPT ![p] = c] /\ at' = [at EXCEPT ![p] = w]
    /\ ask' = [ask EXCEPT ![p] = r]
    /\ UNCHANGED <<view, sending>>

\* The driver has the state s in memory.
See(p, s, to) ==
    /\ view' = [view EXCEPT ![p] = s] /\ pc' = [pc EXCEPT ![p] = to]
    /\ UNCHANGED <<command, on, at, ask, sending>>

\* The end of a command that holds the lease.
Leave(p) == Done(p) /\ Unlock(p)

\* Save: the state s is durable before anything else happens, or the program
\* ends inside the write, or the segment is full and the command fails.
SaveAnd(p, s, Then) ==
    /\ \/ /\ AppendMemoryEvent(on[p], s) /\ Then
          /\ saved' = IF s.op = None THEN saved
                      ELSE [saved EXCEPT ![on[p]][s.op.req] = s.op.stage]
          /\ UNCHANGED admission
       \/ AppendTorn(on[p]) /\ ProgramEnds(p) /\ Done(p) /\ UNCHANGED saved
       \/ /\ Len(Events(on[p])) >= LogLimit
          /\ Leave(p) /\ UNCHANGED <<log, saved>>
    /\ UNCHANGED <<target, activation, effects, outrun>>

Save(p, s, to) == SaveAnd(p, s, See(p, s, to))

-----------------------------------------------------------------------------
(* Commands.                                                               *)

\* Connect to a window: a connection of its own, or the one that claims it.
Connect(p, w) ==
    /\ \/ /\ marker[w] = None
          /\ \E c \in Conns, cmd \in {"connect", "activate"} :
               /\ target[c] = None /\ \A q \in Programs : on[q] # c
               /\ Start(p, cmd, c, w, None, "begin")
       \/ /\ marker[w] # None
          /\ Start(p, "resume", marker[w], w, None, "reach")
    /\ UNCHANGED <<admission, records, history>>

Command(p, c) ==
    /\ target[c] # None
    /\ \/ Start(p, "resume", c, target[c], None, "reach")
       \/ Start(p, "disconnect", c, target[c], None, "reach")
       \/ \E r \in Requests : Start(p, "execute", c, target[c], r, "reach")
    /\ UNCHANGED <<admission, records, history>>

-----------------------------------------------------------------------------
(* A new connection: BeginConnectionWindow with what it persists.          *)
Begin(p) ==
    /\ pc[p] = "begin" /\ gate = None
    /\ IF Admissible(at[p])
       THEN EnterGate(p) /\ Goto(p, "persist")
       ELSE UNCHANGED admission /\ Done(p)
    /\ UNCHANGED <<records, history>>

\* The metadata, then the first event of the log or the activation record;
\* the program may end between them or inside the second.
PersistRecord(p) ==
    /\ pc[p] = "persist"
    /\ target' = [target EXCEPT ![on[p]] = at[p]]
    /\ \/ /\ command[p] = "connect"
          /\ AppendMemoryEvent(on[p], NewState)
          /\ See(p, NewState, "publish")
          /\ UNCHANGED <<admission, activation>>
       \/ /\ command[p] = "activate"
          /\ activation' = [activation EXCEPT ![on[p]] = "prepared"]
          /\ Goto(p, "publish")
          /\ UNCHANGED <<admission, log>>
       \/ /\ ProgramEnds(p) /\ Done(p)
          /\ (command[p] = "connect" /\ AppendTorn(on[p])) \/ UNCHANGED log
          /\ UNCHANGED activation
    /\ UNCHANGED history

Publish(p) ==
    /\ pc[p] = "publish"
    /\ \/ /\ publishWindowOwner(p, at[p], on[p])
          /\ Goto(p, IF command[p] = "connect" THEN "lock" ELSE "activate")
       \/ /\ Siblings(at[p]) # {}
          /\ LeaveGate(p) /\ Done(p)
    /\ UNCHANGED <<records, history>>

\* Its memory is the end of the journal.
Current(p) == ~Torn(on[p]) /\ Events(on[p]) # <<>> /\ view[p] = Latest(on[p])

\* Connect goes on with the state it has created.  It does not read again, and
\* other programs may have had turns since it gave up the gate: then it has
\* been outrun.
LockCreated(p) ==
    /\ pc[p] = "lock"
    /\ \/ /\ LockBootstrapWindow(p, at[p], on[p]) /\ Goto(p, "turn")
          /\ outrun' = IF Current(p) THEN outrun ELSE outrun \cup {on[p]}
       \/ /\ Busy(at[p], on[p]) /\ Done(p)
          /\ UNCHANGED <<admission, outrun>>
    /\ UNCHANGED <<records, effects, saved>>

-----------------------------------------------------------------------------
(* Commands on a connection: what they read without the lease only decides *)
(* where they go.                                                          *)
requestState(c, r) == historicalState(c, r)

\* The search has an answer that ends the command: it failed, or it is over.
Answered(known) ==
    \/ known.kind \in {"torn", "limit", "missing"}
    \/ known.kind = "found" /\ known.state.op.stage = "complete"

\* Where a command goes whose connection has no journal yet.
ReachActivation(p) ==
    IF command[p] = "execute" \/ activation[on[p]] = None THEN Done(p)
    ELSE Goto(p, IF activation[on[p]] = "cancelled" THEN "retire" ELSE "activate")

ReachJournal(p) ==
    LET s == Latest(on[p]) IN
    IF command[p] = "execute"
    THEN IF Answered(requestState(on[p], ask[p])) \/ s.closed
         THEN Done(p) ELSE Goto(p, "enter")
    ELSE IF s.closed THEN Goto(p, "retire")
    ELSE IF command[p] = "resume" /\ ~s.closing /\ s.op # None /\ s.op.stage = "complete"
    THEN Done(p)
    ELSE Goto(p, "enter")

Reach(p) ==
    /\ pc[p] = "reach"
    /\ IF Torn(on[p]) THEN Goto(p, "mend_lock")
       ELSE IF Missing(on[p]) THEN ReachActivation(p)
       ELSE ReachJournal(p)
    /\ UNCHANGED <<admission, records, history>>

\* recoverTail
MendLock(p) ==
    /\ pc[p] = "mend_lock"
    /\ \/ LockBootstrapWindow(p, at[p], on[p]) /\ Goto(p, "mend")
       \/ Busy(at[p], on[p]) /\ Done(p) /\ UNCHANGED admission
    /\ UNCHANGED <<records, history>>

Mend(p) ==
    /\ pc[p] = "mend"
    /\ \/ RecoverMemoryTail(on[p]) /\ Goto(p, "reach")
       \/ ~Torn(on[p]) /\ Goto(p, "reach") /\ UNCHANGED log
       \/ Torn(on[p]) /\ Events(on[p]) = <<>> /\ Done(p) /\ UNCHANGED log
    /\ Unlock(p)
    /\ UNCHANGED <<target, activation, history>>

\* drive: the lease, and then everything is read again.
Enter(p) ==
    /\ pc[p] = "enter"
    /\ \/ LockBootstrapWindow(p, at[p], on[p]) /\ Goto(p, "admitted")
       \/ Busy(at[p], on[p]) /\ Done(p) /\ UNCHANGED admission
    /\ UNCHANGED <<records, history>>

\* Execute, under the lease: the request is new, under way or answered.
Refused(p) ==
    LET s == Latest(on[p])
        known == requestState(on[p], ask[p])
    IN
    \/ Torn(on[p]) \/ s.closed
    \/ /\ command[p] = "execute"
       /\ \/ Answered(known)
          \/ known.kind = "found" /\ (s.op = None \/ s.op.req # ask[p])

\* Mutation of Admit: the driver keeps to the state that it read before.
AdmitUnread(p) ==
    /\ pc[p] = "admitted"
    /\ \E k \in 1..Len(Events(on[p])) :
         See(p, Events(on[p])[k].state,
             IF command[p] = "resume" THEN "turn" ELSE "prepare")
    /\ UNCHANGED <<admission, records, history>>

Admit(p) ==
    /\ pc[p] = "admitted"
    /\ IF Refused(p) THEN Leave(p)
       ELSE /\ See(p, Latest(on[p]),
                   IF \/ command[p] = "disconnect"
                      \/ command[p] = "execute"
                         /\ requestState(on[p], ask[p]).kind = "absent"
                   THEN "prepare" ELSE "turn")
            /\ UNCHANGED admission
    /\ UNCHANGED <<records, history>>

RequestClose(p) ==
    /\ pc[p] = "prepare" /\ command[p] = "disconnect"
    /\ \/ ~view[p].closing /\ Save(p, [view[p] EXCEPT !.closing = TRUE], "turn")
       \/ /\ view[p].closing /\ Goto(p, "turn")
          /\ UNCHANGED <<admission, records, history>>

\* Mutation of Preparable: a request may follow one that is under way.
PreparableAnyTime(s) == ~s.closing /\ s.bound

Preparable(s) ==
    /\ ~s.closing /\ s.bound
    /\ IF s.op = None THEN TRUE ELSE s.op.stage = "complete"

PrepareRefused(p) ==
    /\ pc[p] = "prepare" /\ command[p] = "execute"
    /\ ~Preparable(view[p])
    /\ Leave(p)
    /\ UNCHANGED <<records, history>>

\* checkpointLog, in two steps.
Checkpoint(p) ==
    /\ pc[p] = "prepare" /\ command[p] = "execute"
    /\ Preparable(view[p]) /\ Len(Events(on[p])) >= SegmentFull
    /\ ArchiveSegment(on[p])
    /\ See(p, [view[p] EXCEPT !.archive = Checksum(Events(on[p]))], "rotate")
    /\ UNCHANGED <<admission, target, activation, history>>

Rotate(p) ==
    /\ pc[p] = "rotate"
    /\ ReplaceActive(on[p], view[p])
    /\ Goto(p, "prepare")
    /\ UNCHANGED <<admission, target, activation, history>>

NewOp(r, now) == [req |-> r, stage |-> "prepared", budget |-> NewDurableBudget(now)]

PrepareRequest(p) ==
    /\ pc[p] = "prepare" /\ command[p] = "execute"
    /\ Preparable(view[p]) /\ Len(Events(on[p])) < SegmentFull
    /\ \E now \in Starts : Save(p, [view[p] EXCEPT !.op = NewOp(ask[p], now)], "turn")

-----------------------------------------------------------------------------
(* Continue: what a turn may save and do.                                  *)
Turn(p) == pc[p] = "turn" /\ ~sending[p] /\ ~view[p].closed

Bind(p) ==
    /\ Turn(p) /\ ~view[p].bound /\ ~view[p].closing
    /\ Save(p, [view[p] EXCEPT !.bound = TRUE], "turn")

\* budgetContext: the clock is read and saved before any input.
Observed(s, now) == [s EXCEPT !.op.budget = Observe(@, now)]

SpendBudget(p) ==
    /\ Turn(p) /\ view[p].bound /\ ~view[p].closing
    /\ ~Settled(view[p])
    /\ \E now \in Times :
         /\ Observed(view[p], now) # view[p]
         /\ Save(p, Observed(view[p], now), "turn")

\* finishBudget: the time of the goal is over in the middle of a turn.
FinishBudget(p) ==
    /\ Turn(p) /\ ~Settled(view[p]) /\ ~view[p].op.budget.exhausted
    /\ Save(p, [view[p] EXCEPT !.op.budget.exhausted = TRUE], "turn")

\* The request goes out at most once: saved as sent, then sent.
Send(p) ==
    /\ Turn(p) /\ view[p].bound /\ ~view[p].closing
    /\ view[p].op # None /\ view[p].op.stage = "prepared"
    /\ ~view[p].op.budget.exhausted
    /\ LET s == [view[p] EXCEPT !.op.stage = "sent"] IN
       SaveAnd(p, s, /\ view' = [view EXCEPT ![p] = s]
                     /\ sending' = [sending EXCEPT ![p] = TRUE]
                     /\ UNCHANGED <<pc, command, on, at, ask>>)

RunCode(p) ==
    /\ pc[p] = "turn" /\ sending[p]
    /\ effects' = [effects EXCEPT ![on[p]][view[p].op.req] = @ + 1]
    /\ sending' = [sending EXCEPT ![p] = FALSE]
    /\ UNCHANGED <<admission, records, saved, outrun, pc, command, on, at, ask, view>>

Settle(p) ==
    /\ Turn(p) /\ view[p].op # None
    /\ \/ /\ view[p].op.stage = "sent"
          /\ view[p].closing \/ ~view[p].op.budget.exhausted
          /\ Save(p, [view[p] EXCEPT !.op.stage = "complete"], "turn")
       \/ /\ view[p].op.stage = "prepared" /\ view[p].closing
          /\ Save(p, [view[p] EXCEPT !.op.stage = "cancelled"], "turn")

Close(p) ==
    /\ Turn(p) /\ view[p].closing /\ Settled(view[p])
    /\ Save(p, [view[p] EXCEPT !.closing = FALSE, !.closed = TRUE, !.bound = FALSE], "turn")

\* Mutation of Return: the window is given up when the close is requested.
ReturnEarly(p) ==
    /\ pc[p] = "turn" /\ ~sending[p]
    /\ Unlock(p)
    /\ IF view[p].closed \/ view[p].closing THEN Goto(p, "retire") ELSE Done(p)
    /\ UNCHANGED <<records, history>>

\* The end of a turn, whatever the reason; a closed connection is retired.
Return(p) ==
    /\ pc[p] = "turn" /\ ~sending[p]
    /\ Unlock(p)
    /\ IF view[p].closed THEN Goto(p, "retire") ELSE Done(p)
    /\ UNCHANGED <<records, history>>

Retire(p) ==
    /\ pc[p] = "retire"
    /\ RetireConnectionWindow(at[p], on[p])
    /\ Done(p)
    /\ UNCHANGED <<records, history>>

-----------------------------------------------------------------------------
(* A connection whose runtime is not there yet: resumeActivation and       *)
(* disconnectActivation.                                                   *)
Activate(p) ==
    /\ pc[p] = "activate"
    /\ \/ LockBootstrapWindow(p, at[p], on[p]) /\ Goto(p, "activated")
       \/ Busy(at[p], on[p]) /\ Done(p) /\ UNCHANGED admission
    /\ UNCHANGED <<records, history>>

Activating(p) == pc[p] = "activated" /\ Missing(on[p])
Waiting(p)    == activation[on[p]] \in {"prepared", "waiting_manual_reload"}

\* Another driver has finished the activation.
ActivateElsewhere(p) ==
    /\ pc[p] = "activated" /\ ~Missing(on[p])
    /\ Unlock(p)
    /\ IF Torn(on[p]) THEN Done(p) ELSE Goto(p, "reach")
    /\ UNCHANGED <<records, history>>

ActivateCancelled(p) ==
    /\ Activating(p) /\ activation[on[p]] = "cancelled"
    /\ Unlock(p) /\ Goto(p, "retire")
    /\ UNCHANGED <<records, history>>

ActivateWait(p) ==
    /\ Activating(p) /\ command[p] # "disconnect" /\ Waiting(p)
    /\ activation' = [activation EXCEPT ![on[p]] = "waiting_manual_reload"]
    /\ Leave(p)
    /\ UNCHANGED <<log, target, history>>

\* Mutation of ActivateObserved: the phase is the one read without the lease.
ActivateObservedUnread(p) ==
    /\ Activating(p) /\ command[p] # "disconnect"
    /\ Save(p, NewState, "turn")

\* A runtime whose input can be observed: the driver goes on at once.
ActivateObserved(p) ==
    /\ Activating(p) /\ command[p] # "disconnect" /\ Waiting(p)
    /\ Save(p, NewState, "turn")

\* The runtime that the player has reloaded.
ActivateSelect(p) ==
    /\ Activating(p) /\ command[p] # "disconnect"
    /\ activation[on[p]] = "waiting_manual_reload"
    /\ Save(p, NewState, "selected")

ActivateRecord(p) ==
    /\ pc[p] = "selected"
    /\ activation' = [activation EXCEPT ![on[p]] = "runtime_selected"]
    /\ Goto(p, "turn")
    /\ UNCHANGED <<admission, log, target, history>>

CancelActivation(p) ==
    /\ Activating(p) /\ command[p] = "disconnect" /\ Waiting(p)
    /\ activation' = [activation EXCEPT ![on[p]] = "cancelled"]
    /\ Unlock(p) /\ Goto(p, "retire")
    /\ UNCHANGED <<log, target, history>>

-----------------------------------------------------------------------------
Maintain(p) ==
    /\ AcquireInstallationMaintenance(p)
    /\ Start(p, "maintain", None, None, None, "maintain")
    /\ UNCHANGED <<records, history>>

EndMaintain(p) ==
    /\ pc[p] = "maintain"
    /\ LeaveGate(p) /\ Done(p)
    /\ UNCHANGED <<records, history>>

Crash(p) ==
    /\ pc[p] # "idle"
    /\ ProgramEnds(p) /\ Done(p)
    /\ UNCHANGED <<records, history>>

Create(p) == Begin(p) \/ PersistRecord(p) \/ Publish(p) \/ LockCreated(p)

Drive(p) ==
    \/ Reach(p) \/ MendLock(p) \/ Mend(p) \/ Enter(p) \/ Admit(p)
    \/ RequestClose(p) \/ PrepareRefused(p) \/ Checkpoint(p) \/ Rotate(p)
    \/ PrepareRequest(p) \/ Bind(p) \/ SpendBudget(p) \/ FinishBudget(p)
    \/ Send(p) \/ RunCode(p) \/ Settle(p) \/ Close(p) \/ Return(p)
    \/ Retire(p)

Activation(p) ==
    \/ Activate(p) \/ ActivateElsewhere(p) \/ ActivateCancelled(p)
    \/ ActivateWait(p) \/ ActivateObserved(p) \/ ActivateSelect(p)
    \/ ActivateRecord(p) \/ CancelActivation(p)

Next ==
    \E p \in Programs :
        \/ \E w \in Windows : Connect(p, w)
        \/ \E c \in Conns : Command(p, c)
        \/ Create(p) \/ Drive(p) \/ Activation(p)
        \/ Maintain(p) \/ EndMaintain(p) \/ Crash(p)

Spec == Init /\ [][Next]_vars

-----------------------------------------------------------------------------
(* A driver acts on the state that is durable at that moment: what it has  *)
(* in memory is the last event of the journal.                             *)
Driving == {"prepare", "turn", "selected"}

ActsOnLatest == \A p \in Programs : pc[p] \in Driving => Current(p)

(* Every driver does so but one: the program that created the connection   *)
(* and was outrun before its first turn.                                   *)
OnlyCreatorsBehind ==
    \A p \in Programs :
        pc[p] \in Driving /\ ~(command[p] = "connect" /\ on[p] \in outrun) => Current(p)

(* A claim is given up only when the journal says closed or the activation *)
(* says cancelled, so that no connection loses its window before, unless   *)
(* its creator was outrun.                                                 *)
Over(c) ==
    IF Missing(c) THEN activation[c] = "cancelled"
    ELSE ~Torn(c) /\ Latest(c).closed

ReleasedWhenOver ==
    [][\A w \in Windows :
        marker[w] # None /\ marker'[w] # marker[w] =>
            Over(marker[w]) \/ marker[w] \in outrun]_vars

(* What a search through the segments finds of a request is what was last  *)
(* saved of it: no repair, no checkpoint and no crash in one of them loses *)
(* an event, and every archive that the journal names is there.  A creator *)
(* that was outrun may have saved over what others had saved.              *)
Recalled(c) == EventsOf(Chain(c))

Recorded(c, r) ==
    LET about == About(Recalled(c), r)
    IN  IF about = {} THEN "absent" ELSE Newest(about).state.op.stage

NothingForgotten ==
    \A c \in Conns \ outrun :
        ~Broken(c) /\ \A r \in Requests : Recorded(c, r) = saved[c][r]

(* A goal that has been stopped in the journal stays stopped: nothing is   *)
(* sent for it, whatever the clock shows later.                            *)
Stopped(c, r) ==
    \E e \in About(Recalled(c), r) :
        e.state.op.stage = "prepared" /\ e.state.op.budget.exhausted

StoppedStaysStopped ==
    [][\A c \in Conns \ outrun, r \in Requests :
        effects'[c][r] # effects[c][r] => ~Stopped(c, r)]_vars

(* An activation that was cancelled was never handed to a driver.          *)
CancelledNeverDriven ==
    \A c \in Conns : activation[c] = "cancelled" => Missing(c)
=============================================================================
