---------------------------- MODULE SourceResearch ----------------------------
(***************************************************************************)
(* Requests to the source store: "source refs", "context" and "batch",     *)
(* answered by a language server of the request's own or by the broker,    *)
(* and "source session close" and "source prune", which retire the broker  *)
(* first.  The broker is one process at a time with one worker, a bounded  *)
(* queue and one checkout kept between tasks.                              *)
(*                                                                         *)
(* Code: src/internal/command (source_broker.go, dispatch_source.go,       *)
(* entry.go), src/internal/codebase (batch.go, relations.go,               *)
(* query_semantic.go, query_session.go, semantic_workspace.go).  Left out: *)
(* how the two ends authenticate each other, status requests, frames and   *)
(* batches, and what is asked of the language server.  The bound on open   *)
(* connections acts like the bound on the queue.                           *)
(***************************************************************************)
EXTENDS SourceStore, Sequences

CONSTANTS
    PinOf,          \* [Symbols -> Pins]
    Batches,        \* sets of symbols one request may ask for
    QueueLimit,     \* tasks the broker keeps waiting
    MaxCommands,    \* bound: commands given
    MaxBrokers,     \* bound: broker processes started
    MaxCrashes      \* bound: processes that die

VARIABLES
    request,        \* what each program was asked to do, and how far it is
    kept,           \* [Owners -> Pins \union {None}]: checkout under a language server
    broker,         \* the broker's process and its queue
    closed,         \* history: last broker whose retirement was reported
    crashes,
    commands        \* given so far

ASSUME PinOfAssumption == PinOf \in [Symbols -> Pins]
ASSUME BatchesAssumption == Batches \subseteq SUBSET Symbols

vars == <<checkout, manifest, stored, litter, holder, job,
          request, kept, broker, closed, crashes, commands>>

Places == {"idle", "map", "environment", "symbols", "relations", "tree",
           "analyse", "asking", "good", "bad",
           "retire", "closing", "exit", "pruning"}
NoRequest == [at |-> "idle", pin |-> None, todo |-> {}, symbol |-> None,
              reuse |-> FALSE, prune |-> FALSE, late |-> FALSE, peer |-> 0]

Off == [phase |-> "off", gen |-> 0, at |-> "select", queue |-> <<>>,
        wake |-> FALSE, task |-> None, asker |-> None]

RInit ==
    /\ Init
    /\ request = [c \in Programs |-> NoRequest]
    /\ kept = [o \in Owners |-> None]
    /\ broker = Off
    /\ closed = 0
    /\ crashes = 0
    /\ commands = 0

Is(c, place) == request[c].at = place
Go(c, place) == request' = [request EXCEPT ![c].at = place]
Start(o, x) == job' = [job EXCEPT ![o] = Job("wait", x)]
files == <<checkout, manifest, stored, litter>>

(***************************************************************************)
(* A program's request.                                                    *)
(***************************************************************************)
BeginResearch(c, p, S, reuse) ==
    /\ Is(c, "idle") /\ commands < MaxCommands
    /\ commands' = commands + 1
    /\ \A s \in S : PinOf[s] = p
    /\ request' = [request EXCEPT ![c] =
                       [NoRequest EXCEPT !.at = "map", !.pin = p, !.todo = S, !.reuse = reuse]]
    /\ Start(c, Map(p))
    /\ UNCHANGED <<files, holder, kept, broker, closed, crashes>>

MapReady(c) ==
    /\ Is(c, "map") /\ At(c, "done")
    /\ Go(c, "environment")
    /\ Start(c, Environment(request[c].pin))
    /\ UNCHANGED <<files, holder, kept, broker, closed, crashes, commands>>

\* The environment is remembered for the rest of the request.
EnvironmentReady(c) ==
    /\ Is(c, "environment") /\ At(c, "done")
    /\ Go(c, "symbols")
    /\ UNCHANGED <<store, kept, broker, closed, crashes, commands>>

\* Without map or environment the whole request fails.
ResearchFails(c) ==
    /\ request[c].at \in {"map", "environment"} /\ At(c, "failed")
    /\ request' = [request EXCEPT ![c] = NoRequest]
    /\ job' = [job EXCEPT ![c] = Rest("done")]
    /\ UNCHANGED <<files, holder, kept, broker, closed, crashes, commands>>

NextSymbol(c, s) ==
    /\ Is(c, "symbols") /\ ~request[c].late
    /\ s \in request[c].todo
    /\ request' = [request EXCEPT ![c].at = "relations", ![c].symbol = s]
    /\ Start(c, Relations(s))
    /\ UNCHANGED <<files, holder, kept, broker, closed, crashes, commands>>

\* The symbol's relations were read, or computed and stored (or not stored:
\* a cache that cannot be written is no error).
SymbolDone(c) ==
    /\ Is(c, "relations") /\ Over(c)
    /\ request' = [request EXCEPT ![c].at = "symbols", ![c].todo = @ \ {request[c].symbol},
                                  ![c].symbol = None]
    /\ UNCHANGED <<store, kept, broker, closed, crashes, commands>>

\* The first miss of a request takes the checkout's lease, underneath the
\* symbol's; it is kept until the request ends.
Compute(c) ==
    /\ Is(c, "relations") /\ At(c, "miss") /\ ~request[c].reuse
    /\ IF kept[c] = None
       THEN /\ Go(c, "tree")
            /\ Start(c, Tree(request[c].pin))
       ELSE /\ Go(c, "analyse")
            /\ UNCHANGED job
    /\ UNCHANGED <<files, holder, kept, broker, closed, crashes, commands>>

OpenWorker(c) ==
    /\ Is(c, "tree") /\ At(c, "done")
    /\ kept' = [kept EXCEPT ![c] = request[c].pin]
    /\ Go(c, "analyse")
    /\ UNCHANGED <<store, broker, closed, crashes, commands>>

\* The language server does not start, or there is no checkout.
NoWorker(c) ==
    /\ Is(c, "tree") /\ Over(c)
    /\ holder' = Released(c, {Tree(request[c].pin)})
    /\ Go(c, "bad")
    /\ UNCHANGED <<files, job, kept, broker, closed, crashes, commands>>

\* A complete answer is stored under the symbol's lease ...
StoreRelations(c) ==
    /\ request[c].at \in {"analyse", "good"} /\ ~request[c].late
    /\ job' = [job EXCEPT ![c] = Job("room", Relations(request[c].symbol))]
    /\ Go(c, "relations")
    /\ UNCHANGED <<files, holder, kept, broker, closed, crashes, commands>>

\* ... any other is only reported.
Discard(c) ==
    /\ \/ request[c].at \in {"analyse", "bad"}
       \/ Is(c, "good") /\ request[c].late
    /\ holder' = Released(c, {Relations(request[c].symbol)})
    /\ job' = [job EXCEPT ![c] = Rest("failed")]
    /\ Go(c, "relations")
    /\ UNCHANGED <<files, kept, broker, closed, crashes, commands>>

\* The request closes its language server, then the checkout's lease.
FinishResearch(c) ==
    /\ Is(c, "symbols")
    /\ request[c].todo = {} \/ request[c].late
    /\ holder' = Released(c, Trees)
    /\ kept' = [kept EXCEPT ![c] = None]
    /\ request' = [request EXCEPT ![c] = NoRequest]
    /\ job' = [job EXCEPT ![c] = Rest("done")]
    /\ UNCHANGED <<files, broker, closed, crashes, commands>>

\* The deadline of the command (90 s for research, 5 s for a session command)
\* passes, and what the program is at is cancelled.  Pruning has no deadline,
\* and where nothing looks at it the deadline might as well pass later.
Expire(c) ==
    /\ request[c].at \notin {"idle", "pruning"} /\ ~request[c].late
    /\ Stoppable(c) \/ request[c].at \in {"symbols", "asking", "retire", "closing", "exit"}
    /\ request' = [request EXCEPT ![c].late = TRUE]
    /\ IF Stoppable(c) THEN GiveUp(c) ELSE UNCHANGED store
    /\ UNCHANGED <<kept, broker, closed, crashes, commands>>

(***************************************************************************)
(* Asking the broker.                                                      *)
(***************************************************************************)
Wants(c) == Is(c, "relations") /\ At(c, "miss") /\ request[c].reuse
Full == Len(broker.queue) >= QueueLimit

\* The pipe does not exist: under the launch lease one program starts a
\* process and waits until the pipe answers.
Launch(c) ==
    /\ Wants(c) /\ broker.phase = "off" /\ broker.gen < MaxBrokers
    /\ broker' = [Off EXCEPT !.phase = "up", !.gen = broker.gen + 1]
    /\ UNCHANGED <<store, request, kept, closed, crashes, commands>>

\* A process that still finds the owner's lease taken, or no usable language
\* server, leaves at once.
Unavailable(c) ==
    /\ Wants(c)
    /\ broker.phase # "up" \/ Full
    /\ Go(c, "bad")
    /\ UNCHANGED <<store, kept, broker, closed, crashes, commands>>

\* Mutation of Submit: the signal is lost unless the worker waits for it.
SubmitUnbuffered(c) ==
    broker' = [broker EXCEPT !.queue = Append(@, c), !.wake = @ \/ broker.at = "select"]

Submit(c) == broker' = [broker EXCEPT !.queue = Append(@, c), !.wake = TRUE]

Ask(c) ==
    /\ Wants(c) /\ broker.phase = "up" /\ ~Full
    /\ Submit(c)
    /\ Go(c, "asking")
    /\ UNCHANGED <<store, kept, closed, crashes, commands>>

\* Where a program goes on when its task came to nothing.
Unanswered(c) ==
    IF Is(c, "asking") THEN [request EXCEPT ![c].at = "bad"]
                       ELSE [request EXCEPT ![c] = NoRequest]

\* The deadline closes the connection; the handler takes the task out of the
\* queue, or the worker sees that nobody waits for it.
Others(c, q) ==
    IF \E i \in 1..Len(q) : q[i] = c
    THEN LET i == CHOOSE i \in 1..Len(q) : q[i] = c
         IN  SubSeq(q, 1, i - 1) \o SubSeq(q, i + 1, Len(q))
    ELSE q
Leave(c) == [broker EXCEPT !.queue = Others(c, @),
                           !.asker = IF @ = c THEN None ELSE @]
Withdraw(c) ==
    /\ request[c].at \in {"asking", "closing"} /\ request[c].late
    /\ broker' = Leave(c)
    /\ request' = Unanswered(c)
    /\ UNCHANGED <<store, kept, closed, crashes, commands>>

\* The broker's end of the connection is gone.
Waiting(c) == broker.asker = c \/ \E i \in 1..Len(broker.queue) : broker.queue[i] = c
Disconnected(c) ==
    /\ request[c].at \in {"asking", "closing"}
    /\ ~Waiting(c)
    /\ request' = Unanswered(c)
    /\ UNCHANGED <<store, kept, broker, closed, crashes, commands>>

(***************************************************************************)
(* The broker's worker: one task after another, woken by a channel of      *)
(* capacity one.                                                           *)
(***************************************************************************)
Serving == broker.phase # "off"
Next1 == [broker EXCEPT !.queue = Tail(@), !.wake = Len(broker.queue) > 1,
                        !.asker = Head(broker.queue)]

WakeInVain ==
    /\ Serving /\ broker.at = "select" /\ broker.wake
    /\ broker.queue = <<>>
    /\ broker' = [broker EXCEPT !.wake = FALSE]
    /\ UNCHANGED <<store, request, kept, closed, crashes, commands>>

\* The language server is closed and the checkout's lease given back.
Retired(drop) ==
    /\ kept' = IF drop THEN [kept EXCEPT ![Broker] = None] ELSE kept
    /\ holder' = IF drop THEN Released(Broker, Trees) ELSE holder

Takes(c) == Serving /\ broker.at = "select" /\ broker.wake
            /\ broker.queue # <<>> /\ Head(broker.queue) = c

\* Nobody but the program that waits for it has put the task there.
TakeLate(c, worn) ==
    /\ Takes(c) /\ request[c].at \in {"asking", "closing"} /\ request[c].late
    /\ Retired(worn)
    /\ broker' = [Next1 EXCEPT !.asker = None]
    /\ request' = Unanswered(c)
    /\ UNCHANGED <<files, job, closed, crashes, commands>>

\* A worn out language server is retired whatever the task; a checkout of
\* another pin before the task's inputs are verified again from the map on.
TakeAnalysis(c, worn) ==
    /\ Takes(c) /\ Is(c, "asking") /\ ~request[c].late
    /\ LET p == request[c].pin
       IN  /\ Retired(worn \/ kept[Broker] # p)
           /\ broker' = [Next1 EXCEPT !.at = "map", !.task = p]
           /\ Start(Broker, Map(p))
    /\ UNCHANGED <<files, request, closed, crashes, commands>>

BrokerMap ==
    /\ broker.at = "map" /\ At(Broker, "done")
    /\ broker' = [broker EXCEPT !.at = "environment"]
    /\ Start(Broker, Environment(broker.task))
    /\ UNCHANGED <<files, holder, request, kept, closed, crashes, commands>>

BrokerEnvironment ==
    /\ broker.at = "environment" /\ At(Broker, "done")
    /\ IF kept[Broker] = None
       THEN /\ broker' = [broker EXCEPT !.at = "tree"]
            /\ Start(Broker, Tree(broker.task))
       ELSE /\ broker' = [broker EXCEPT !.at = "analyse"]
            /\ UNCHANGED job
    /\ UNCHANGED <<files, holder, request, kept, closed, crashes, commands>>

BrokerTree ==
    /\ broker.at = "tree" /\ At(Broker, "done")
    /\ broker' = [broker EXCEPT !.at = "analyse"]
    /\ kept' = [kept EXCEPT ![Broker] = broker.task]
    /\ UNCHANGED <<store, request, closed, crashes, commands>>

Idle(b) == [b EXCEPT !.at = "select", !.task = None, !.asker = None]
Told(place) ==
    IF broker.asker = None THEN request
    ELSE [request EXCEPT ![broker.asker].at = place]

Answer(worn) ==
    /\ broker.at = "analyse"
    /\ request' = Told("good")
    /\ Retired(worn)
    /\ broker' = Idle(broker)
    /\ UNCHANGED <<files, job, closed, crashes, commands>>

BrokerFails ==
    /\ \/ broker.at \in {"map", "environment", "tree"} /\ At(Broker, "failed")
       \/ broker.at = "tree" /\ At(Broker, "done")
       \/ broker.at = "analyse"
    /\ request' = Told("bad")
    /\ Retired(TRUE)
    /\ broker' = Idle(broker)
    /\ job' = [job EXCEPT ![Broker] = Rest("done")]
    /\ UNCHANGED <<files, closed, crashes, commands>>

(***************************************************************************)
(* Retiring the broker: the checkout is given back, the closer is told,    *)
(* and only then do listener, leases and process go.                       *)
(***************************************************************************)
TakeRetirement(c) ==
    /\ Takes(c) /\ Is(c, "closing") /\ ~request[c].late
    /\ Retired(TRUE)
    /\ broker' = [Next1 EXCEPT !.at = "parting"]
    /\ UNCHANGED <<files, job, request, closed, crashes, commands>>

Confirm ==
    /\ broker.at = "parting" /\ broker.asker # None
    /\ request' = [request EXCEPT ![broker.asker].at = "exit",
                                  ![broker.asker].peer = broker.gen]
    /\ broker' = [broker EXCEPT !.asker = None]
    /\ UNCHANGED <<store, kept, closed, crashes, commands>>

\* Retirement, idleness, the end of its ten minutes or a new release: the
\* pipe is closed and every caller is cancelled.
CloseListener ==
    /\ broker.phase = "up"
    /\ broker' = [broker EXCEPT !.phase = "leaving", !.queue = <<>>, !.wake = FALSE]
    /\ UNCHANGED <<store, request, kept, closed, crashes, commands>>

ProcessExits ==
    /\ broker.phase = "leaving" /\ broker.at \in {"select", "parting"}
    /\ Retired(TRUE)
    /\ broker' = [Off EXCEPT !.gen = broker.gen]
    /\ UNCHANGED <<files, job, request, closed, crashes, commands>>

BeginClose(c, prune) ==
    /\ Is(c, "idle") /\ commands < MaxCommands
    /\ commands' = commands + 1
    /\ request' = [request EXCEPT ![c] = [NoRequest EXCEPT !.at = "retire", !.prune = prune]]
    /\ UNCHANGED <<store, kept, broker, closed, crashes>>

\* The broker is out of the way: pruning starts, or the command is over.
Proceed(c) ==
    IF request[c].prune
    THEN /\ request' = [request EXCEPT ![c].at = "pruning", ![c].late = FALSE]
         /\ job' = [job EXCEPT ![c] = Job("room", Capacity)]
    ELSE /\ request' = [request EXCEPT ![c] = NoRequest]
         /\ UNCHANGED job

NoBroker(c) ==
    /\ Is(c, "retire") /\ broker.phase # "up"
    /\ Proceed(c)
    /\ UNCHANGED <<files, holder, kept, broker, closed, crashes, commands>>

AskRetirement(c) ==
    /\ Is(c, "retire") /\ broker.phase = "up" /\ ~Full
    /\ Submit(c)
    /\ Go(c, "closing")
    /\ UNCHANGED <<store, kept, closed, crashes, commands>>

\* Mutation of Gone: the pipe that is gone is taken for the process.
GoneFromPipe(g) == broker.gen # g \/ broker.phase # "up"

Gone(g) == broker.gen # g \/ broker.phase = "off"

\* Told "closed", the command waits for the exit of the very process it
\* shook hands with.
Exited(c) ==
    /\ Is(c, "exit") /\ Gone(request[c].peer)
    /\ closed' = IF closed < request[c].peer THEN request[c].peer ELSE closed
    /\ Proceed(c)
    /\ UNCHANGED <<files, holder, kept, broker, crashes, commands>>

CloseFails(c) ==
    /\ \/ request[c].at \in {"retire", "exit"} /\ request[c].late
       \/ Is(c, "retire") /\ broker.phase = "up" /\ Full
    /\ request' = [request EXCEPT ![c] = NoRequest]
    /\ UNCHANGED <<store, kept, broker, closed, crashes, commands>>

PruneEnds(c) ==
    /\ Is(c, "pruning") /\ Over(c)
    /\ request' = [request EXCEPT ![c] = NoRequest]
    /\ job' = [job EXCEPT ![c] = Rest("done")]
    /\ UNCHANGED <<files, holder, kept, broker, closed, crashes, commands>>

(***************************************************************************)
(* Cancellation and death.                                                 *)
(***************************************************************************)
CancelTask ==
    /\ \/ broker.phase = "leaving"
       \/ broker.asker \notin {c \in Programs : ~request[c].late}
    /\ GiveUp(Broker)
    /\ UNCHANGED <<request, kept, broker, closed, crashes, commands>>

Work(o) == StoreStep(o) /\ UNCHANGED <<request, kept, broker, closed, crashes, commands>>

ProgramDies(c) ==
    /\ crashes < MaxCrashes /\ ~Is(c, "idle")
    /\ Die(c)
    /\ request' = [request EXCEPT ![c] = NoRequest]
    /\ kept' = [kept EXCEPT ![c] = None]
    /\ broker' = Leave(c)
    /\ crashes' = crashes + 1
    /\ UNCHANGED <<closed, commands>>

BrokerDies ==
    /\ crashes < MaxCrashes /\ Serving
    /\ Die(Broker)
    /\ kept' = [kept EXCEPT ![Broker] = None]
    /\ broker' = [Off EXCEPT !.gen = broker.gen]
    /\ crashes' = crashes + 1
    /\ UNCHANGED <<request, closed, commands>>

ProgramStep(c) ==
    \/ \E p \in Pins, S \in Batches, reuse \in BOOLEAN : BeginResearch(c, p, S, reuse)
    \/ MapReady(c) \/ EnvironmentReady(c) \/ ResearchFails(c)
    \/ \E s \in Symbols : NextSymbol(c, s)
    \/ SymbolDone(c) \/ Compute(c) \/ OpenWorker(c) \/ NoWorker(c)
    \/ StoreRelations(c) \/ Discard(c) \/ FinishResearch(c) \/ Expire(c)
    \/ Launch(c) \/ Unavailable(c) \/ Ask(c) \/ Withdraw(c) \/ Disconnected(c)
    \/ \E prune \in BOOLEAN : BeginClose(c, prune)
    \/ NoBroker(c) \/ AskRetirement(c) \/ Exited(c) \/ CloseFails(c) \/ PruneEnds(c)
    \/ ProgramDies(c)

BrokerStep ==
    \/ WakeInVain
    \/ \E c \in Programs : TakeRetirement(c)
    \/ \E c \in Programs, worn \in BOOLEAN : TakeLate(c, worn) \/ TakeAnalysis(c, worn)
    \/ BrokerMap \/ BrokerEnvironment \/ BrokerTree
    \/ \E worn \in BOOLEAN : Answer(worn)
    \/ BrokerFails \/ Confirm \/ CloseListener \/ ProcessExits \/ BrokerDies

RNext ==
    \/ \E c \in Programs : ProgramStep(c)
    \/ BrokerStep
    \/ CancelTask
    \/ \E o \in Owners : Work(o)

RSpec == RInit /\ [][RNext]_vars

(***************************************************************************)
(* Properties.                                                             *)
(***************************************************************************)

TypeOK ==
    /\ checkout \in [Pins -> {"none", "partial", "whole"}]
    /\ manifest \in SUBSET Pins
    /\ stored \in SUBSET Files
    /\ litter \in Nat
    /\ holder \in [Items -> Owners \union {None}]
    /\ job \in [Owners -> [step : Steps, item : Items, left : SUBSET (Pins \union Caches),
                           victim : Pins \union {None}, granted : Nat]]
    /\ request \in [Programs -> [at : Places, pin : Pins \union {None},
                                 todo : SUBSET Symbols, symbol : Symbols \union {None},
                                 reuse : BOOLEAN, prune : BOOLEAN, late : BOOLEAN, peer : Nat]]
    /\ kept \in [Owners -> Pins \union {None}]
    /\ broker \in [phase : {"off", "up", "leaving"}, gen : Nat,
                   at : {"select", "map", "environment", "tree", "analyse", "parting"},
                   queue : Seq(Programs), wake : BOOLEAN,
                   task : Pins \union {None}, asker : Programs \union {None}]
    /\ closed \in Nat /\ crashes \in Nat /\ commands \in Nat

\* Whatever is published, checked out, staged or left behind by the dead,
\* the store never holds more than its budget (cache_budget.go:17-19).
WithinBudget == Used <= Room

\* What is in use is there: a checkout under a language server is whole,
\* listed and held by that very owner, and a cache that is being read is
\* stored, whatever others prune, evict, recover or reclaim; and the broker
\* analyses a task in the checkout of the pin the task is about
\* (worktree.go:33-34).
UseIsSound ==
    /\ \A o \in Owners :
           /\ At(o, "read") => job[o].item \in stored
           /\ \A p \in Pins :
                  kept[o] = p => /\ checkout[p] = "whole"
                                 /\ p \in manifest
                                 /\ holder[Tree(p)] = o
    /\ broker.at = "analyse" => kept[Broker] = broker.task

WaitsFor(o, d) ==
    \/ At(o, "wait") /\ holder[job[o].item] = d
    \/ At(o, "room") /\ holder[Capacity] = d
    \/ d = Broker /\ o \in Programs
       /\ \/ request[o].at \in {"asking", "closing"} /\ Waiting(o)
          \/ Is(o, "exit") /\ ~Gone(request[o].peer)

\* Owners that wait for one another without end: only if one of them waits
\* for a symbol's relations while its request keeps a checkout, which
\* a request for several symbols does (query_semantic.go:12-13).
OrderedWaits ==
    \A S \in (SUBSET Owners) \ {{}} :
        (\A o \in S : \E d \in S : WaitsFor(o, d))
            => \E c \in S : /\ At(c, "wait") /\ job[c].item \in SymbolFiles
                          /\ kept[c] # None

\* A worker that goes to sleep over a task that waits has been woken.
NoLostWake == broker.at = "select" /\ broker.queue # <<>> => broker.wake

\* A broker reported closed is gone with everything it held; what is up now
\* is another one.
ClosedIsGone == closed = broker.gen /\ closed > 0 => broker.phase = "off"
=============================================================================
