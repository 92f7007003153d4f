---------------------------- MODULE ProjectProofs ----------------------------
(***************************************************************************)
(* Theorems about Project, for any number of programs, connections,        *)
(* windows and requests and any limits: types, drivers act on the durable  *)
(* state, claims are given up only by connections that are over, nothing   *)
(* that was saved is forgotten, a stopped goal sends nothing more, a       *)
(* request runs once, and the journals keep the ledger of requests; all of *)
(* them with the exception of connections whose creator was outrun, which  *)
(* the definitions in Project and in ProjectLedger name.                   *)
(***************************************************************************)
EXTENDS ProjectLedger, SequenceTheorems, FiniteSetTheorems, WellFoundedInduction, TLAPS

Event == [sum : Nat, state : State]
File  == [active : Seq(Event), torn : BOOLEAN, history : SUBSET Seq(Event)]

-----------------------------------------------------------------------------
(* The inductive invariant: what is true of a program wherever it is.      *)
Early   == {"begin", "persist"}
Created == {"publish", "lock"}
Locked  == {"mend", "admitted", "prepare", "rotate", "turn", "activated", "selected"}
Placed  == Counter \ (Early \cup {"idle", "maintain"})

\* It creates a connection, which nobody else has.
Creating(p) == pc[p] \in Early

Exclusive(p) ==
    /\ Creating(p) => \A q \in Programs : q # p => on[q] # on[p]
    /\ pc[p] \in Early \cup Placed => on[p] \in Conns /\ at[p] \in Windows
    /\ pc[p] \in Early => target[on[p]] = None
    /\ pc[p] \in Placed => target[on[p]] = at[p]
    /\ pc[p] = "lock" => command[p] = "connect"
    /\ pc[p] \in Early \cup Created => command[p] \in {"connect", "activate"}
    /\ pc[p] \in {"persist", "publish"} => gate = p /\ marker[at[p]] = None
    /\ pc[p] \in Locked => lease[at[p]] = p

\* It goes on with what it has created, which others have changed since.
Outrun(p) == command[p] = "connect" /\ on[p] \in outrun

Weak(p)  == Events(on[p]) # <<>> /\ view[p] \in State
Knows(p) == IF Outrun(p) THEN Weak(p) ELSE Current(p)

Informed(p) ==
    /\ pc[p] \in Created /\ command[p] = "connect" => Weak(p)
    /\ pc[p] \in Driving => Knows(p)
    /\ pc[p] \in {"enter", "admitted"} => Events(on[p]) # <<>>
    /\ pc[p] = "rotate" => ~Torn(on[p]) /\ Events(on[p]) # <<>> /\ ~Latest(on[p]).closed
                           /\ view[p] \in State
    /\ pc[p] = "rotate" => ~view[p].closed
    /\ pc[p] \in {"prepare", "selected"} => ~view[p].closed
    /\ pc[p] = "retire" => on[p] \in outrun \/ Over(on[p])

\* An event may follow.
Writable(c) == ~Over(c) \/ (c \in outrun /\ Events(c) # <<>>)

Able(p) ==
    /\ pc[p] \in Placed /\ command[p] = "execute" => ask[p] \in Requests
    /\ sending[p] => pc[p] = "turn" /\ view[p].op \in Op

Claims == \A w \in Windows : marker[w] # None => target[marker[w]] = w
Fresh  == \A c \in Conns : /\ target[c] = None => activation[c] = None
                           /\ activation[c] = "cancelled" => Missing(c)

IInv ==
    /\ TypeOK /\ Claims /\ Fresh
    /\ \A p \in Programs : Exclusive(p) /\ Informed(p) /\ Able(p)

LEMMA Typed ==
    /\ TypeOK <=> /\ AdmissionTypeOK
                  /\ log \in [Conns -> File]
                  /\ target \in [Conns -> Windows \cup {None}]
                  /\ activation \in [Conns -> {"prepared", "waiting_manual_reload",
                                               "runtime_selected", "cancelled", None}]
                  /\ pc \in [Programs -> Counter]
                  /\ command \in [Programs -> {"connect", "activate", "execute", "resume",
                                               "disconnect", "maintain", None}]
                  /\ on \in [Programs -> Conns \cup {None}]
                  /\ at \in [Programs -> Windows \cup {None}]
                  /\ ask \in [Programs -> Requests \cup {None}]
                  /\ view \in [Programs -> State \cup {None}]
                  /\ sending \in [Programs -> BOOLEAN]
                  /\ effects \in [Conns -> [Requests -> Nat]]
                  /\ saved \in [Conns -> [Requests -> Stage \cup {"absent"}]]
                  /\ outrun \subseteq Conns
BY DEF TypeOK, File, Event

LEMMA NewStateTyped == NewState \in State /\ ~NewState.closed
BY DEF NewState, State

LEMMA InitInv == Init => IInv
<1> SUFFICES ASSUME Init PROVE IInv OBVIOUS
<1>1. TypeOK
  <2>1. NoFile \in File
    BY EmptySeq DEF NoFile, File
  <2>2. log \in [Conns -> File]
    BY <2>1 DEF Init, LogInit
  <2>3. AdmissionTypeOK
    BY DEF Init, AdmissionInit, AdmissionTypeOK
  <2>4. pc \in [Programs -> Counter]
    BY DEF Init, Counter
  <2> QED BY <2>2, <2>3, <2>4, Typed DEF Init
<1>2. Claims /\ Fresh
  BY ProjectAssumption DEF Init, AdmissionInit, Claims, Fresh
<1>3. ASSUME NEW p \in Programs PROVE Exclusive(p) /\ Informed(p) /\ Able(p)
  <2>1. pc[p] = "idle" /\ command[p] = None /\ ~sending[p]
    BY DEF Init
  <2>2. pc[p] \notin Early \cup Placed \cup Locked \cup Created \cup Driving
    BY <2>1 DEF Early, Created, Locked, Placed, Driving
  <2>3. pc[p] \notin {"lock", "persist", "publish", "enter", "admitted", "rotate", "prepare",
                       "selected", "retire"}
    BY <2>1
  <2>4. Exclusive(p) /\ Able(p)
    BY <2>1, <2>2, <2>3 DEF Exclusive, Able, Creating
  <2>5. Informed(p)
    BY <2>1, <2>2, <2>3 DEF Informed
  <2> QED BY <2>4, <2>5
<1> QED BY <1>1, <1>2, <1>3 DEF IInv

-----------------------------------------------------------------------------
(* Types.                                                                  *)
ProgramsTyped ==
    /\ pc \in [Programs -> Counter]
    /\ command \in [Programs -> {"connect", "activate", "execute", "resume",
                                 "disconnect", "maintain", None}]
    /\ on \in [Programs -> Conns \cup {None}]
    /\ at \in [Programs -> Windows \cup {None}]
    /\ ask \in [Programs -> Requests \cup {None}]
    /\ view \in [Programs -> State \cup {None}]
    /\ sending \in [Programs -> BOOLEAN]

RecordsTyped ==
    /\ log \in [Conns -> File]
    /\ target \in [Conns -> Windows \cup {None}]
    /\ activation \in [Conns -> {"prepared", "waiting_manual_reload",
                                 "runtime_selected", "cancelled", None}]

HistoryTyped ==
    /\ effects \in [Conns -> [Requests -> Nat]]
    /\ saved \in [Conns -> [Requests -> Stage \cup {"absent"}]]
    /\ outrun \subseteq Conns

LEMMA TypeParts ==
    /\ TypeOK <=> AdmissionTypeOK /\ RecordsTyped /\ ProgramsTyped /\ HistoryTyped
    /\ TypeOK' <=> AdmissionTypeOK' /\ RecordsTyped' /\ ProgramsTyped' /\ HistoryTyped'
BY DEF TypeOK, RecordsTyped, ProgramsTyped, HistoryTyped, File, Event

LEMMA ChecksumTyped ==
    ASSUME NEW g \in Seq(Event)
    PROVE  Checksum(g) \in Nat /\ (g # <<>> => Last(g) \in Event)
<1>1. CASE g = <<>>
  BY <1>1 DEF Checksum
<1>2. CASE g # <<>>
  <2>1. Len(g) \in 1..Len(g)
    BY <1>2, EmptySeq, LenProperties
  <2>2. Last(g) \in Event
    BY <2>1, ElementOfSeq DEF Last
  <2> QED BY <1>2, <2>2 DEF Checksum, Event
<1> QED BY <1>1, <1>2

LEMMA JournalTyped ==
    ASSUME RecordsTyped, NEW c \in Conns
    PROVE  /\ log[c] \in File /\ Events(c) \in Seq(Event)
           /\ Events(c) # <<>> => Latest(c) \in State
<1>1. Events(c) \in Seq(Event)
  BY DEF RecordsTyped, File, Events
<1>2. ASSUME Events(c) # <<>> PROVE Latest(c) \in State
  BY <1>1, <1>2, ChecksumTyped DEF Latest, Event
<1> QED BY <1>1, <1>2 DEF RecordsTyped

-----------------------------------------------------------------------------
(* What one program may do without disturbing the others.                  *)
OthersSame(p) ==
    \A q \in Programs : q # p =>
        UNCHANGED <<pc[q], command[q], on[q], at[q], ask[q], view[q], sending[q]>>

KeepsLocks(p) ==
    \A q \in Programs : q # p =>
        /\ gate = q => gate' = q
        /\ \A w \in Windows : lease[w] = q => lease'[w] = q

KeepsClaims(p) ==
    \A w \in Windows :
        \/ marker'[w] \in {marker[w], None}
        \/ gate = p /\ marker'[w] = on[p] /\ target[on[p]] = w /\ target'[on[p]] = w

KeepsRecords(p) ==
    /\ outrun \subseteq outrun'
    /\ \A c \in Conns :
        \/ UNCHANGED <<log[c], target[c], activation[c]>>
        \/ /\ c = on[p]
           /\ \/ Creating(p)
              \/ /\ pc[p] \in Locked
                 /\ c \in outrun \/ (Over(c) => Over(c)')
                 /\ Events(c) # <<>> => Events(c)' # <<>>
                 /\ UNCHANGED target[c]
           /\ \A w \in Windows : marker[w] = c => UNCHANGED target[c]

Joins(p) ==
    \/ on'[p] = on[p]
    \/ \A q \in Programs : q # p /\ on[q] = on'[p] => ~Creating(q)

\* Two programs never have the records of one connection in their hands.
LEMMA OneDriver ==
    ASSUME IInv, NEW p \in Programs, NEW q \in Programs, q # p, on[q] = on[p],
           pc[p] \in Locked \/ Creating(p)
    PROVE  ~Creating(q) /\ pc[q] \notin Locked
<1>1. ~Creating(q) /\ ~Creating(p)
  BY DEF IInv, Exclusive
<1>2. ASSUME pc[q] \in Locked PROVE FALSE
  <2>1. pc[p] \in Placed /\ pc[q] \in Placed
    BY <1>1, <1>2 DEF Locked, Placed, Counter, Early
  <2>2. at[p] = at[q]
    BY <2>1 DEF IInv, Exclusive
  <2> QED BY <1>1, <1>2, <2>2 DEF IInv, Exclusive
<1> QED BY <1>1, <1>2

LEMMA StepLemma ==
    ASSUME IInv, NEW p \in Programs, TypeOK', Fresh',
           OthersSame(p), KeepsLocks(p), KeepsClaims(p), KeepsRecords(p), Joins(p),
           (Exclusive(p) /\ Informed(p) /\ Able(p))'
    PROVE  IInv'
<1>1. Claims'
  <2> SUFFICES ASSUME NEW w \in Windows, marker'[w] # None
               PROVE  target'[marker'[w]] = w
    BY DEF Claims
  <2>1. CASE marker'[w] = marker[w]
    <3>1. marker[w] \in Conns /\ target[marker[w]] = w
      BY <2>1 DEF IInv, TypeOK, AdmissionTypeOK, Claims
    <3> QED BY <2>1, <3>1 DEF KeepsRecords
  <2> QED BY <2>1 DEF KeepsClaims
<1>2. ASSUME NEW q \in Programs, q # p PROVE (Exclusive(q) /\ Informed(q) /\ Able(q))'
  <2>0. /\ UNCHANGED <<pc[q], command[q], on[q], at[q], ask[q], view[q], sending[q]>>
        /\ Exclusive(q) /\ Informed(q) /\ Able(q)
        /\ Creating(q) <=> Creating(q)'
    BY <1>2 DEF OthersSame, IInv, Creating
  <2>1. Able(q)'
    BY <2>0 DEF Able
  <2>2. CASE /\ log'[on[q]] = log[on[q]] /\ target'[on[q]] = target[on[q]]
             /\ activation'[on[q]] = activation[on[q]]
    <3>0. /\ UNCHANGED <<Weak(q), Current(q), Over(on[q]), Torn(on[q]), Events(on[q]),
                          Latest(on[q])>>
          /\ outrun \subseteq outrun'
      BY <2>0, <2>2
         DEF Weak, Current, Over, Missing, Torn, Events, Latest, KeepsRecords
    <3>5. on[q] \in Conns /\ Current(q) => Weak(q)
      BY TypeParts, JournalTyped DEF IInv, Current, Weak
    <3>6. pc[q] \in Driving => on[q] \in Conns
      BY <2>0 DEF Exclusive, Driving, Placed, Counter, Early
    <3>7. pc[q] \in Driving => Knows(q)'
      BY <2>0, <3>0, <3>5, <3>6 DEF Informed, Knows, Outrun
    <3>1. Informed(q)'
      BY <2>0, <3>0, <3>7 DEF Informed
    <3>2. Creating(q) => \A r \in Programs : r # q => on'[r] # on'[q]
      BY <2>0 DEF OthersSame, Joins, Exclusive
    <3>3. pc[q] \in {"persist", "publish"} => gate' = q /\ marker'[at[q]] = None
      BY <1>2, <2>0 DEF Exclusive, KeepsLocks, KeepsClaims, Placed, Early, Counter
    <3>4. pc[q] \in Locked => lease'[at[q]] = q
      BY <1>2, <2>0 DEF Exclusive, KeepsLocks, Placed, Early, Counter, Locked
    <3> QED BY <2>0, <2>1, <2>2, <3>1, <3>2, <3>3, <3>4 DEF Exclusive
  <2>3. CASE on[q] \notin Conns
    <3>1. pc[q] \notin Early \cup Placed
      BY <2>0, <2>3 DEF Exclusive
    <3>2. pc[q] \in {"idle", "maintain"}
      BY <3>1 DEF IInv, TypeOK, Placed
    <3> QED BY <2>0, <2>1, <3>2
            DEF Exclusive, Informed, Creating, Early, Placed, Created, Locked, Driving
  <2>4. ASSUME NEW c \in Conns, on[q] = c, c = on[p],
               \/ Creating(p)
               \/ /\ pc[p] \in Locked
                  /\ c \in outrun \/ (Over(c) => Over(c)')
                  /\ Events(c) # <<>> => Events(c)' # <<>>
                  /\ UNCHANGED target[c]
        PROVE  (Exclusive(q) /\ Informed(q) /\ Able(q))'
    <3>1. ~Creating(q) /\ pc[q] \notin Locked
      BY <1>2, <2>4, OneDriver
    <3>2. ~Creating(p)
      BY <1>2, <2>4 DEF IInv, Exclusive
    <3>3. pc[q] # "rotate" /\ pc[q] \notin Driving /\ pc[q] # "admitted"
          /\ pc[q] \notin {"prepare", "selected"}
      BY <3>1 DEF Locked, Driving
    <3>4. pc[q] = "enter" => (Events(on[q]) # <<>>)'
      BY <2>0, <2>4, <3>2 DEF Informed, Events
    <3>5. pc[q] = "retire" => (on[q] \in outrun \/ Over(on[q]))'
      BY <2>0, <2>4, <3>2 DEF Informed, Over, Missing, Torn, Events, Latest, KeepsRecords
    <3>11. pc[q] \in Created /\ command[q] = "connect" => Weak(q)'
      BY <2>0, <2>4, <3>2 DEF Informed, Weak, Events
    <3>6. Informed(q)'
      BY <2>0, <3>3, <3>4, <3>5, <3>11 DEF Informed
    <3>7. pc[q] \in {"persist", "publish"} => gate' = q /\ marker'[at[q]] = None
      BY <1>2, <2>0 DEF Exclusive, KeepsLocks, KeepsClaims, Placed, Early, Counter
    <3>8. target'[on'[q]] = target[on[q]]
      BY <2>0, <2>4, <3>2
    <3>9. ~Creating(q)' /\ pc'[q] \notin Locked /\ pc'[q] \notin Early
      BY <2>0, <3>1 DEF Creating
    <3>10. Exclusive(q)'
      BY <2>0, <3>7, <3>8, <3>9 DEF Exclusive
    <3> QED BY <2>1, <3>6, <3>10
  <2>5. ASSUME NEW c \in Conns, on[q] = c
        PROVE  (Exclusive(q) /\ Informed(q) /\ Able(q))'
    <3>1. CASE UNCHANGED <<log[c], target[c], activation[c]>>
      BY <2>2, <2>5, <3>1
    <3>2. CASE ~UNCHANGED <<log[c], target[c], activation[c]>>
      <4>1. /\ c = on[p]
            /\ \/ Creating(p)
               \/ /\ pc[p] \in Locked
                  /\ c \in outrun \/ (Over(c) => Over(c)')
                  /\ Events(c) # <<>> => Events(c)' # <<>>
                  /\ UNCHANGED target[c]
        BY <3>2 DEF KeepsRecords
      <4> QED BY <2>4, <2>5, <4>1
    <3> QED BY <3>1, <3>2
  <2> QED BY <2>3, <2>5
<1> QED BY <1>1, <1>2 DEF IInv

-----------------------------------------------------------------------------
(* The parts that steps are made of.                                       *)
\* What happens to the locks.
Locks(p) == AdmissionTypeOK' /\ KeepsLocks(p) /\ KeepsClaims(p)

LEMMA LockSteps ==
    ASSUME IInv, NEW p \in Programs,
           \/ ProgramEnds(p) \/ Unlock(p) \/ LeaveGate(p) \/ UNCHANGED admission
    PROVE  Locks(p) /\ marker' = marker
BY DEF IInv, TypeOK, AdmissionTypeOK, ProgramEnds, Unlock, LeaveGate, admission, Locks,
       KeepsLocks, KeepsClaims

LEMMA LeaseSteps ==
    ASSUME IInv, NEW p \in Programs, NEW w \in Windows, NEW c \in Conns,
           LockBootstrapWindow(p, w, c)
    PROVE  Locks(p) /\ marker' = marker /\ lease'[w] = p /\ marker[w] = c
<1>1. None \notin Programs
  BY WindowAssumption
<1> QED BY <1>1 DEF IInv, TypeOK, AdmissionTypeOK, LockBootstrapWindow, Locks, KeepsLocks,
                    KeepsClaims

LEMMA GotoSteps ==
    ASSUME IInv, NEW p \in Programs, NEW to \in Counter, Goto(p, to)
    PROVE  /\ OthersSame(p) /\ Joins(p) /\ ProgramsTyped' /\ pc'[p] = to
           /\ UNCHANGED <<command, on, at, ask, view, sending>>
BY DEF Goto, IInv, TypeOK, OthersSame, Joins, ProgramsTyped

LEMMA SeeSteps ==
    ASSUME IInv, NEW p \in Programs, NEW to \in Counter, NEW s \in State, See(p, s, to)
    PROVE  /\ OthersSame(p) /\ Joins(p) /\ ProgramsTyped' /\ pc'[p] = to /\ view'[p] = s
           /\ UNCHANGED <<command, on, at, ask, sending>>
BY DEF See, IInv, TypeOK, OthersSame, Joins, ProgramsTyped

LEMMA DoneSteps ==
    ASSUME IInv, NEW p \in Programs, Done(p)
    PROVE  /\ OthersSame(p) /\ Joins(p) /\ ProgramsTyped'
           /\ (Exclusive(p) /\ Informed(p) /\ Able(p))'
<1>1. OthersSame(p) /\ ProgramsTyped'
  BY DEF Done, IInv, TypeOK, OthersSame, ProgramsTyped, Counter
<1>2. pc'[p] = "idle" /\ on'[p] = None /\ ~sending'[p]
  BY DEF Done, IInv, TypeOK
<1>3. ASSUME NEW q \in Programs, Creating(q) PROVE on[q] # None
  BY <1>3, NoneIsNoConnection DEF IInv, Exclusive, Creating, Early, Created, Placed, Counter
<1>4. Joins(p)
  BY <1>2, <1>3 DEF Joins
<1>5. (Exclusive(p) /\ Able(p))'
  BY <1>2 DEF Exclusive, Able, Creating, Early, Created, Placed, Locked
<1>6. Informed(p)'
  BY <1>2 DEF Informed, Created, Driving
<1> QED BY <1>1, <1>4, <1>5, <1>6

\* A step that changes no record.
LEMMA Quiet ==
    ASSUME IInv, NEW p \in Programs, UNCHANGED <<records, history>>, Locks(p),
           OthersSame(p), Joins(p), ProgramsTyped',
           (Exclusive(p) /\ Informed(p) /\ Able(p))'
    PROVE  IInv'
<1>1. TypeOK' /\ Fresh'
  BY TypeParts DEF IInv, Fresh, Missing, Torn, Events, Locks, records, history, RecordsTyped,
                   HistoryTyped
<1>2. KeepsRecords(p)
  BY DEF KeepsRecords, records, history
<1> QED BY <1>1, <1>2, StepLemma DEF Locks

LEMMA DoneKeeps ==
    ASSUME IInv, NEW p \in Programs, Done(p), UNCHANGED <<records, history>>, Locks(p)
    PROVE  IInv'
BY DoneSteps, Quiet

LEMMA LeaveKeeps ==
    ASSUME IInv, NEW p \in Programs, Leave(p), UNCHANGED <<records, history>>
    PROVE  IInv'
BY LockSteps, DoneKeeps DEF Leave

\* A step to another place, with the same records and claims.
LEMMA GotoKeeps ==
    ASSUME IInv, NEW p \in Programs, NEW to \in Placed \ {"lock", "publish"}, Goto(p, to),
           pc[p] \in Placed, ~sending[p], UNCHANGED <<records, history>>, Locks(p),
           to \in Locked => lease'[at[p]] = p,
           to \in Driving => Knows(p),
           to \in {"enter", "admitted"} => Events(on[p]) # <<>>,
           to # "rotate",
           to \in {"prepare", "selected"} => ~view[p].closed,
           to = "retire" => on[p] \in outrun \/ Over(on[p])
    PROVE  IInv'
<1>1. /\ OthersSame(p) /\ Joins(p) /\ ProgramsTyped' /\ pc'[p] = to
      /\ UNCHANGED <<command, on, at, ask, view, sending>>
  BY GotoSteps DEF Placed
<1>2. Exclusive(p) /\ Able(p)
  BY DEF IInv
<1>3. ~Creating(p)' /\ to \notin Early \cup Created
  BY <1>1 DEF Creating, Placed, Early, Created
<1>4. Exclusive(p)'
  BY <1>1, <1>2, <1>3 DEF Exclusive, records, Created, Early
<1>5. Able(p)'
  BY <1>1, <1>2 DEF Able
<1>6. UNCHANGED <<Torn(on[p]), Events(on[p]), Latest(on[p]), Over(on[p]), view[p], on[p]>>
  BY <1>1 DEF records, Torn, Events, Latest, Over, Missing
<1>7. Informed(p)'
  BY <1>1, <1>3, <1>6 DEF Informed, Knows, Weak, Outrun, Current, history
<1> QED BY <1>1, <1>4, <1>5, <1>7, Quiet

-----------------------------------------------------------------------------
(* The journal.                                                            *)
LEMMA NewEventTyped ==
    ASSUME RecordsTyped, NEW c \in Conns, NEW s \in State
    PROVE  NewEvent(c, s) \in Event /\ NewEvent(c, s).state = s
<1>1. Checksum(Events(c)) + 1 \in Nat
  BY JournalTyped, ChecksumTyped
<1> QED BY <1>1 DEF NewEvent, Event

LEMMA AppendSteps ==
    ASSUME RecordsTyped, NEW c \in Conns, NEW s \in State, AppendMemoryEvent(c, s)
    PROVE  /\ log' \in [Conns -> File]
           /\ \A d \in Conns : d # c => log'[d] = log[d]
           /\ ~Torn(c)' /\ Events(c)' # <<>> /\ Latest(c)' = s
<1> DEFINE e == NewEvent(c, s)
           g == Append(Events(c), e)
<1>1. e \in Event /\ e.state = s /\ Events(c) \in Seq(Event) /\ log[c] \in File
  BY NewEventTyped, JournalTyped
<1> HIDE DEF e
<1>2. /\ g \in Seq(Event) /\ g # <<>> /\ Last(g) = e
  <2>1. /\ g \in Seq(Event) /\ g # <<>> /\ Len(g) = Len(Events(c)) + 1
        /\ g[Len(Events(c)) + 1] = e
    BY <1>1, AppendProperties
  <2> QED BY <2>1 DEF Last
<1>3. log' = [log EXCEPT ![c].active = g] /\ ~Torn(c)
  BY DEF AppendMemoryEvent, e, Events
<1> HIDE DEF g
<1>4. [log[c] EXCEPT !.active = g] \in File
  BY <1>1, <1>2 DEF File
<1>5. log' \in [Conns -> File] /\ log'[c] = [log[c] EXCEPT !.active = g]
  BY <1>3, <1>4 DEF RecordsTyped
<1>6. Events(c)' = g /\ ~Torn(c)'
  BY <1>1, <1>3, <1>5 DEF Events, Torn, File
<1>7. Latest(c)' = s
  BY <1>1, <1>2, <1>6 DEF Latest
<1> QED BY <1>2, <1>3, <1>5, <1>6, <1>7 DEF RecordsTyped

LEMMA TornSteps ==
    ASSUME RecordsTyped, NEW c \in Conns, AppendTorn(c)
    PROVE  /\ log' \in [Conns -> File]
           /\ \A d \in Conns : d # c => log'[d] = log[d]
           /\ Events(c)' = Events(c)
<1>1. log[c] \in File /\ log' = [log EXCEPT ![c].torn = TRUE]
  BY JournalTyped DEF AppendTorn
<1>2. [log[c] EXCEPT !.torn = TRUE] \in File
  BY <1>1 DEF File
<1> QED BY <1>1, <1>2 DEF RecordsTyped, Events, File

LEMMA LockedFacts ==
    ASSUME IInv, NEW p \in Programs, pc[p] \in Locked
    PROVE  /\ on[p] \in Conns /\ at[p] \in Windows /\ pc[p] \in Placed /\ ~Creating(p)
           /\ target[on[p]] = at[p] /\ lease[at[p]] = p
           /\ RecordsTyped /\ HistoryTyped /\ AdmissionTypeOK /\ ProgramsTyped
           /\ Exclusive(p) /\ Informed(p) /\ Able(p)
<1>1. pc[p] \in Placed /\ ~Creating(p)
  BY DEF Locked, Placed, Counter, Early, Creating, Created
<1> QED BY <1>1, TypeParts DEF IInv, Exclusive

\* The driver of a connection changes its journal.
LEMMA JournalKeeps ==
    ASSUME IInv, NEW p \in Programs, NEW c \in Conns, on[p] = c, pc[p] \in Locked,
           log' \in [Conns -> File], \A d \in Conns : d # c => log'[d] = log[d],
           Writable(c), Events(c) # <<>> => Events(c)' # <<>>,
           UNCHANGED <<target, activation, outrun>>, HistoryTyped',
           Locks(p), OthersSame(p), Joins(p), ProgramsTyped',
           (Exclusive(p) /\ Informed(p) /\ Able(p))'
    PROVE  IInv'
<1>1. TypeOK'
  BY LockedFacts, TypeParts DEF RecordsTyped, Locks
<1>2. activation[c] # "cancelled"
  BY DEF IInv, Fresh, Writable, Over, Missing
<1>3. Fresh'
  BY <1>2 DEF IInv, Fresh, Missing, Torn, Events
<1>4. KeepsRecords(p)
  BY LockedFacts DEF KeepsRecords, Writable
<1> QED BY <1>1, <1>3, <1>4, StepLemma DEF Locks

\* The driver goes on with the journal.
LEMMA StaysKeeps ==
    ASSUME IInv, NEW p \in Programs, pc[p] \in Locked,
           pc'[p] \in Placed \ {"lock", "publish"},
           UNCHANGED <<command[p], on[p], at[p], ask[p], target>>,
           pc'[p] \in Locked => lease'[at[p]] = p,
           sending'[p] => pc'[p] = "turn" /\ view'[p].op \in Op
    PROVE  Exclusive(p)' /\ Able(p)'
<1>1. pc'[p] \notin Early \cup Created \cup {"persist", "publish", "lock"}
  BY DEF Placed, Counter, Early, Created
<1>2. ~Creating(p)'
  BY <1>1 DEF Creating
<1>3. Exclusive(p)'
  BY LockedFacts, <1>1, <1>2 DEF Exclusive
<1> QED BY LockedFacts, <1>3 DEF Able

LEMMA AppendKeeps ==
    ASSUME IInv, NEW p \in Programs, NEW s \in State, NEW to \in {"turn", "selected"},
           pc[p] \in Locked, Writable(on[p]), AppendMemoryEvent(on[p], s),
           saved' = IF s.op = None THEN saved
                    ELSE [saved EXCEPT ![on[p]][s.op.req] = s.op.stage],
           UNCHANGED <<admission, target, activation, effects, outrun>>,
           OthersSame(p), Joins(p), ProgramsTyped', pc'[p] = to, view'[p] = s,
           UNCHANGED <<command, on, at, ask>>,
           sending'[p] => to = "turn" /\ s.op \in Op,
           to = "selected" => ~s.closed
    PROVE  IInv'
<1>1. PICK c \in Conns : on[p] = c
  BY LockedFacts
<1>2. /\ log' \in [Conns -> File]
      /\ \A d \in Conns : d # c => log'[d] = log[d]
      /\ ~Torn(c)' /\ Events(c)' # <<>> /\ Latest(c)' = s
  BY <1>1, LockedFacts, AppendSteps
<1>3. Locks(p) /\ UNCHANGED <<marker, lease>>
  BY LockSteps DEF admission
<1>4. HistoryTyped'
  <2>1. CASE s.op = None
    BY LockedFacts, <2>1 DEF HistoryTyped
  <2>2. CASE s.op # None
    <3>1. s.op.stage \in Stage
      BY <2>2 DEF State, Op
    <3> QED BY LockedFacts, <2>2, <3>1 DEF HistoryTyped
  <2> QED BY <2>1, <2>2
<1>5. Exclusive(p)' /\ Able(p)'
  BY <1>3, LockedFacts, StaysKeeps DEF Placed, Counter, Early
<1>6. Current(p)'
  BY <1>1, <1>2 DEF Current, Torn, Events, Latest
<1>7. Knows(p)'
  BY <1>1, <1>2, <1>6 DEF Knows, Weak, Current, Events
<1>8. Informed(p)'
  BY <1>7 DEF Informed, Created
<1> QED BY <1>1, <1>2, <1>3, <1>4, <1>5, <1>8, JournalKeeps

LEMMA EndInWriteKeeps ==
    ASSUME IInv, NEW p \in Programs, pc[p] \in Locked, Writable(on[p]),
           AppendTorn(on[p]), ProgramEnds(p), Done(p),
           UNCHANGED <<target, activation, history>>
    PROVE  IInv'
<1>1. PICK c \in Conns : on[p] = c
  BY LockedFacts
<1>2. /\ log' \in [Conns -> File]
      /\ \A d \in Conns : d # c => log'[d] = log[d]
      /\ Events(c)' = Events(c)
  BY <1>1, LockedFacts, TornSteps
<1>3. Locks(p) /\ HistoryTyped'
  BY LockedFacts, LockSteps DEF HistoryTyped, history
<1> QED BY <1>1, <1>2, <1>3, DoneSteps, JournalKeeps DEF history

\* A save is the last event, or the end of the program.
LEMMA SaveKeeps ==
    ASSUME IInv, NEW p \in Programs, NEW s \in State, NEW to \in {"turn", "selected"},
           pc[p] \in Locked, ~sending[p], Writable(on[p]),
           Save(p, s, to), to = "selected" => ~s.closed
    PROVE  IInv'
<1>1. CASE /\ AppendMemoryEvent(on[p], s) /\ See(p, s, to)
           /\ saved' = IF s.op = None THEN saved
                       ELSE [saved EXCEPT ![on[p]][s.op.req] = s.op.stage]
           /\ UNCHANGED admission
  <2>1. UNCHANGED <<target, activation, effects, outrun>> /\ to \in Counter
    BY DEF Save, SaveAnd, Counter
  <2>2. /\ OthersSame(p) /\ Joins(p) /\ ProgramsTyped' /\ pc'[p] = to /\ view'[p] = s
        /\ UNCHANGED <<command, on, at, ask, sending>>
    BY <1>1, <2>1, SeeSteps
  <2> QED BY <1>1, <2>1, <2>2, AppendKeeps
<1>2. CASE AppendTorn(on[p]) /\ ProgramEnds(p) /\ Done(p) /\ UNCHANGED saved
  BY <1>2, EndInWriteKeeps DEF Save, SaveAnd, history
<1>3. CASE Leave(p) /\ UNCHANGED <<log, saved>>
  BY <1>3, LeaveKeeps DEF Save, SaveAnd, records, history
<1> QED BY <1>1, <1>2, <1>3 DEF Save, SaveAnd

-----------------------------------------------------------------------------
(* Commands.                                                               *)
LEMMA ReachableAlone ==
    ASSUME IInv, NEW c \in Conns, target[c] # None, NEW q \in Programs, on[q] = c
    PROVE  ~Creating(q)
BY DEF IInv, Exclusive, Creating

LEMMA StartKeeps ==
    ASSUME IInv, NEW p \in Programs, NEW c \in Conns, NEW w \in Windows,
           NEW r \in Requests \cup {None}, NEW cmd \in {"resume", "disconnect", "execute"},
           Start(p, cmd, c, w, r, "reach"), UNCHANGED <<admission, records, history>>,
           cmd = "execute" => r \in Requests,
           target[c] = w, \A q \in Programs : on[q] = c => ~Creating(q)
    PROVE  IInv'
<1>1. /\ OthersSame(p) /\ ProgramsTyped' /\ on'[p] = c /\ at'[p] = w /\ pc'[p] = "reach"
      /\ command'[p] = cmd /\ ask'[p] = r /\ sending' = sending
  BY DEF Start, OthersSame, ProgramsTyped, IInv, TypeOK, Counter
<1>2. Joins(p)
  BY <1>1 DEF Joins
<1>3. Locks(p)
  BY LockSteps
<1>4. ~Creating(p)' /\ Exclusive(p)'
  BY <1>1 DEF Exclusive, Creating, Early, Created, Locked, records
<1>5. Informed(p)'
  BY <1>1 DEF Informed, Created, Driving
<1>6. Able(p)'
  BY <1>1 DEF Able, IInv, Start
<1> QED BY <1>1, <1>2, <1>3, <1>4, <1>5, <1>6, Quiet

LEMMA ConnectKeeps ==
    ASSUME IInv, NEW p \in Programs, NEW w \in Windows, Connect(p, w)
    PROVE  IInv'
<1>1. ASSUME NEW c \in Conns, NEW cmd \in {"connect", "activate"}, target[c] = None,
             \A q \in Programs : on[q] # c, Start(p, cmd, c, w, None, "begin"),
             UNCHANGED <<admission, records, history>>
      PROVE  IInv'
  <2>1. /\ OthersSame(p) /\ ProgramsTyped' /\ on'[p] = c /\ at'[p] = w /\ pc'[p] = "begin"
        /\ command'[p] = cmd /\ sending' = sending
    BY <1>1 DEF Start, OthersSame, ProgramsTyped, IInv, TypeOK, Counter
  <2>2. Joins(p)
    BY <1>1, <2>1 DEF Joins
  <2>3. Locks(p)
    BY <1>1, LockSteps
  <2>4. \A q \in Programs : q # p => on'[q] # c
    BY <1>1, <2>1 DEF OthersSame
  <2>5. Exclusive(p)'
    BY <1>1, <2>1, <2>4 DEF Exclusive, Early, Created, Placed, Locked, records
  <2>6. Informed(p)'
    BY <2>1 DEF Informed, Created, Driving
  <2>7. Able(p)'
    BY <1>1, <2>1 DEF Able, IInv, Start, Placed, Early
  <2> QED BY <1>1, <2>1, <2>2, <2>3, <2>5, <2>6, <2>7, Quiet
<1>2. ASSUME marker[w] # None,
             Start(p, "resume", marker[w], w, None, "reach"),
             UNCHANGED <<admission, records, history>>
      PROVE  IInv'
  <2>1. marker[w] \in Conns /\ target[marker[w]] = w
    BY <1>2 DEF IInv, Claims, TypeOK, AdmissionTypeOK
  <2>2. w # None
    BY WindowAssumption
  <2> QED BY <1>2, <2>1, <2>2, ReachableAlone, StartKeeps
<1> QED BY <1>1, <1>2 DEF Connect

LEMMA CommandKeeps ==
    ASSUME IInv, NEW p \in Programs, NEW c \in Conns, Command(p, c)
    PROVE  IInv'
<1>1. target[c] \in Windows
  BY DEF Command, IInv, TypeOK
<1>2. \A q \in Programs : on[q] = c => ~Creating(q)
  BY ReachableAlone DEF Command
<1>3. CASE \/ Start(p, "resume", c, target[c], None, "reach")
           \/ Start(p, "disconnect", c, target[c], None, "reach")
  BY <1>1, <1>2, <1>3, StartKeeps DEF Command
<1>4. ASSUME NEW r \in Requests, Start(p, "execute", c, target[c], r, "reach") PROVE IInv'
  BY <1>1, <1>2, <1>4, StartKeeps DEF Command
<1> QED BY <1>3, <1>4 DEF Command

-----------------------------------------------------------------------------
(* A new connection.                                                       *)
LEMMA EarlyFacts ==
    ASSUME IInv, NEW p \in Programs, pc[p] \in Early \cup Created
    PROVE  ~sending[p] /\ Exclusive(p) /\ on[p] \in Conns /\ at[p] \in Windows
BY DEF IInv, Able, Exclusive, Early, Created, Placed, Counter

LEMMA BeginKeeps ==
    ASSUME IInv, NEW p \in Programs, Begin(p)
    PROVE  IInv'
<1>0. pc[p] = "begin" /\ UNCHANGED <<records, history>> /\ gate = None
  BY DEF Begin
<1>1. CASE UNCHANGED admission /\ Done(p)
  BY <1>0, <1>1, LockSteps, DoneKeeps
<1>2. CASE Admissible(at[p]) /\ EnterGate(p) /\ Goto(p, "persist")
  <2>1. Locks(p) /\ gate' = p /\ marker' = marker
    BY <1>0, <1>2, WindowAssumption
       DEF EnterGate, Locks, KeepsLocks, KeepsClaims, IInv, TypeOK, AdmissionTypeOK
  <2>2. /\ OthersSame(p) /\ Joins(p) /\ ProgramsTyped' /\ pc'[p] = "persist"
        /\ UNCHANGED <<command, on, at, ask, view, sending>>
    BY <1>2, GotoSteps DEF Counter
  <2>3. ~sending[p] /\ Exclusive(p) /\ on[p] \in Conns /\ at[p] \in Windows
    BY <1>0, EarlyFacts DEF Early
  <2>4. Exclusive(p)'
    BY <1>0, <1>2, <2>1, <2>2, <2>3
       DEF Exclusive, Creating, Early, Created, Placed, Locked, Admissible, records
  <2>5. (Informed(p) /\ Able(p))'
    BY <2>2, <2>3 DEF Informed, Able, Created, Driving, Placed, Early
  <2> QED BY <1>0, <2>1, <2>2, <2>4, <2>5, Quiet
<1> QED BY <1>1, <1>2 DEF Begin

LEMMA PersistKeeps ==
    ASSUME IInv, NEW p \in Programs, PersistRecord(p)
    PROVE  IInv'
<1>0. /\ pc[p] = "persist" /\ UNCHANGED history /\ on[p] \in Conns /\ at[p] \in Windows
      /\ Exclusive(p) /\ ~sending[p] /\ Creating(p)
  BY EarlyFacts DEF PersistRecord, Early, Creating
<1>1. PICK c \in Conns : on[p] = c
  BY <1>0
<1>2. PICK w \in Windows : at[p] = w
  BY <1>0
<1>3. /\ target[c] = None /\ target' = [target EXCEPT ![c] = w]
      /\ activation[c] = None /\ activation[c] # "cancelled"
      /\ gate = p /\ marker[w] = None
      /\ command[p] \in {"connect", "activate"}
      /\ \A q \in Programs : q # p => on[q] # c
  BY <1>0, <1>1, <1>2, ProjectAssumption DEF PersistRecord, Exclusive, Early, IInv, Fresh
<1>4. \A v \in Windows : marker[v] # c
  BY <1>3, WindowAssumption, NoneIsNoConnection DEF IInv, Claims
<1>5. /\ RecordsTyped /\ HistoryTyped /\ AdmissionTypeOK
      /\ target' \in [Conns -> Windows \cup {None}] /\ target'[c] = w
      /\ \A d \in Conns : d # c => target'[d] = target[d]
  BY <1>3, TypeParts DEF IInv, RecordsTyped
<1>6. ASSUME UNCHANGED <<effects, saved, outrun>>, log' \in [Conns -> File],
             activation' \in [Conns -> {"prepared", "waiting_manual_reload",
                                       "runtime_selected", "cancelled", None}],
             \A d \in Conns : d # c => log'[d] = log[d] /\ activation'[d] = activation[d],
             activation'[c] # "cancelled",
             Locks(p), OthersSame(p), Joins(p), ProgramsTyped',
             (Exclusive(p) /\ Informed(p) /\ Able(p))'
      PROVE  IInv'
  <2>1. TypeOK'
    BY <1>5, <1>6, TypeParts DEF RecordsTyped, HistoryTyped, Locks
  <2>2. Fresh'
    BY <1>5, <1>6, WindowAssumption DEF IInv, Fresh, Missing, Torn, Events
  <2>3. KeepsRecords(p)
    BY <1>0, <1>1, <1>4, <1>5, <1>6 DEF KeepsRecords
  <2> QED BY <1>6, <2>1, <2>2, <2>3, StepLemma DEF Locks
<1>7. CASE /\ ProgramEnds(p) /\ Done(p) /\ UNCHANGED activation
           /\ AppendTorn(c) \/ UNCHANGED log
  <2>1. /\ Locks(p) /\ OthersSame(p) /\ Joins(p) /\ ProgramsTyped'
        /\ (Exclusive(p) /\ Informed(p) /\ Able(p))' /\ UNCHANGED <<effects, saved, outrun>>
    BY <1>0, <1>7, LockSteps, DoneSteps DEF history
  <2>2. CASE AppendTorn(c) /\ UNCHANGED activation
    <3>1. /\ log' \in [Conns -> File]
          /\ \A d \in Conns : d # c => log'[d] = log[d]
      BY <1>5, <2>2, TornSteps
    <3> QED BY <1>3, <1>5, <1>6, <2>1, <2>2, <3>1 DEF RecordsTyped
  <2>3. CASE UNCHANGED <<log, activation>>
    BY <1>3, <1>5, <1>6, <2>1, <2>3 DEF RecordsTyped
  <2> QED BY <1>7, <2>2, <2>3
<1>8. ASSUME ~Creating(p)' \/ \A q \in Programs : q # p => on'[q] # on'[p],
             OthersSame(p), pc'[p] = "publish", gate' = p,
             UNCHANGED <<command, on, at, ask, sending, marker>>
      PROVE  Exclusive(p)' /\ Able(p)'
  BY <1>0, <1>1, <1>2, <1>3, <1>5, <1>8
     DEF Exclusive, Able, Placed, Locked, Early, Created, Counter
<1>9. ASSUME OthersSame(p), UNCHANGED on
      PROVE  \A q \in Programs : q # p => on'[q] # on'[p]
  BY <1>1, <1>3, <1>9
<1>10. CASE /\ AppendMemoryEvent(c, NewState) /\ See(p, NewState, "publish")
            /\ UNCHANGED <<admission, activation>>
  <2>1. /\ log' \in [Conns -> File]
        /\ \A d \in Conns : d # c => log'[d] = log[d]
        /\ ~Torn(c)' /\ Events(c)' # <<>> /\ Latest(c)' = NewState
    BY <1>5, <1>10, AppendSteps, NewStateTyped
  <2>2. /\ OthersSame(p) /\ Joins(p) /\ ProgramsTyped' /\ pc'[p] = "publish"
        /\ view'[p] = NewState /\ UNCHANGED <<command, on, at, ask, sending>>
    BY <1>10, SeeSteps, NewStateTyped DEF Counter
  <2>3. Locks(p) /\ gate' = p /\ marker' = marker
    BY <1>3, <1>10, LockSteps DEF admission
  <2>4. Current(p)'
    BY <1>1, <2>1, <2>2 DEF Current, Torn, Events, Latest
  <2>7. Weak(p)'
    BY <2>2, <2>4, NewStateTyped DEF Weak, Current
  <2>5. Informed(p)'
    BY <2>2, <2>7 DEF Informed, Driving
  <2>6. Exclusive(p)' /\ Able(p)'
    BY <1>8, <1>9, <2>2, <2>3
  <2> QED BY <1>0, <1>3, <1>5, <1>6, <1>10, <2>1, <2>2, <2>3, <2>5, <2>6 DEF RecordsTyped, history
<1>11. CASE /\ command[p] = "activate" /\ Goto(p, "publish")
            /\ activation' = [activation EXCEPT ![c] = "prepared"]
            /\ UNCHANGED <<admission, log>>
  <2>1. /\ OthersSame(p) /\ Joins(p) /\ ProgramsTyped' /\ pc'[p] = "publish"
        /\ UNCHANGED <<command, on, at, ask, view, sending>>
    BY <1>11, GotoSteps DEF Counter
  <2>2. Locks(p) /\ gate' = p /\ marker' = marker
    BY <1>3, <1>11, LockSteps DEF admission
  <2>3. Informed(p)'
    BY <1>11, <2>1 DEF Informed, Driving
  <2>4. Exclusive(p)' /\ Able(p)'
    BY <1>8, <1>9, <2>1, <2>2
  <2>5. /\ activation' \in [Conns -> {"prepared", "waiting_manual_reload",
                                      "runtime_selected", "cancelled", None}]
        /\ \A d \in Conns : d # c => activation'[d] = activation[d]
        /\ activation'[c] # "cancelled"
    BY <1>5, <1>11 DEF RecordsTyped
  <2> QED BY <1>0, <1>5, <1>6, <1>11, <2>1, <2>2, <2>3, <2>4, <2>5 DEF RecordsTyped, history
<1> QED BY <1>1, <1>7, <1>10, <1>11 DEF PersistRecord

LEMMA PublishKeeps ==
    ASSUME IInv, NEW p \in Programs, Publish(p)
    PROVE  IInv'
<1>0. /\ pc[p] = "publish" /\ UNCHANGED <<records, history>> /\ on[p] \in Conns
      /\ at[p] \in Windows /\ Exclusive(p) /\ ~sending[p] /\ gate = p
      /\ target[on[p]] = at[p] /\ command[p] \in {"connect", "activate"}
  <2>1. pc[p] = "publish" /\ UNCHANGED <<records, history>>
    BY DEF Publish
  <2>2. on[p] \in Conns /\ at[p] \in Windows /\ Exclusive(p) /\ ~sending[p]
    BY <2>1, EarlyFacts DEF Created
  <2> QED BY <2>1, <2>2 DEF Exclusive, Created, Placed, Counter, Early
<1>1. CASE LeaveGate(p) /\ Done(p)
  BY <1>0, <1>1, LockSteps, DoneKeeps
<1>2. ASSUME publishWindowOwner(p, at[p], on[p]), NEW to \in {"lock", "activate"}, Goto(p, to),
             to = "lock" <=> command[p] = "connect"
      PROVE  IInv'
  <2>1. /\ OthersSame(p) /\ Joins(p) /\ ProgramsTyped' /\ pc'[p] = to
        /\ UNCHANGED <<command, on, at, ask, view, sending>>
    BY <1>2, GotoSteps DEF Counter
  <2>2. marker' = [marker EXCEPT ![at[p]] = on[p]] /\ gate' = None /\ lease' = lease
    BY <1>2 DEF publishWindowOwner
  <2>3. AdmissionTypeOK' /\ KeepsLocks(p)
    BY <1>0, <2>2, WindowAssumption DEF KeepsLocks, IInv, TypeOK, AdmissionTypeOK
  <2>4. KeepsClaims(p)
    BY <1>0, <2>2 DEF KeepsClaims, IInv, TypeOK, AdmissionTypeOK, records
  <2>6. Exclusive(p)'
    BY <1>0, <1>2, <2>1
       DEF Exclusive, Creating, Early, Created, Placed, Locked, Counter, records
  <2>7. Weak(p) => Weak(p)'
    BY <2>1, <1>0 DEF Weak, Events, records
  <2>8. (Informed(p) /\ Able(p))'
    BY <1>0, <1>2, <2>1, <2>7 DEF IInv, Informed, Able, Created, Driving
  <2> QED BY <1>0, <2>1, <2>3, <2>4, <2>6, <2>8, Quiet DEF Locks
<1> QED BY <1>0, <1>1, <1>2 DEF Publish

LEMMA LockCreatedKeeps ==
    ASSUME IInv, NEW p \in Programs, LockCreated(p)
    PROVE  IInv'
<1>0. /\ pc[p] = "lock" /\ UNCHANGED <<records, effects, saved>> /\ on[p] \in Conns
      /\ at[p] \in Windows /\ Exclusive(p) /\ ~sending[p] /\ Weak(p)
      /\ command[p] = "connect"
  <2>1. pc[p] = "lock" /\ UNCHANGED <<records, effects, saved>>
    BY DEF LockCreated
  <2> QED BY <2>1, EarlyFacts DEF Created, IInv, Informed, Exclusive
<1>1. CASE Busy(at[p], on[p]) /\ Done(p) /\ UNCHANGED <<admission, outrun>>
  BY <1>0, <1>1, LockSteps, DoneKeeps DEF history
<1>2. CASE /\ LockBootstrapWindow(p, at[p], on[p]) /\ Goto(p, "turn")
           /\ outrun' = IF Current(p) THEN outrun ELSE outrun \cup {on[p]}
  <2>1. Locks(p) /\ lease'[at[p]] = p
    BY <1>0, <1>2, LeaseSteps
  <2>2. /\ OthersSame(p) /\ Joins(p) /\ ProgramsTyped' /\ pc'[p] = "turn"
        /\ UNCHANGED <<command, on, at, ask, view, sending>>
    BY <1>2, GotoSteps DEF Counter
  <2>3. Exclusive(p)' /\ Able(p)'
    BY <1>0, <2>1, <2>2
       DEF Exclusive, Able, Creating, Placed, Counter, Early, Created, Locked, records
  <2>4. UNCHANGED <<Weak(p), Current(p)>>
    BY <1>0, <2>2 DEF Weak, Current, Torn, Events, Latest, records
  <2>5. Knows(p)'
    BY <1>0, <1>2, <2>2, <2>4 DEF Knows, Outrun
  <2>6. Informed(p)'
    BY <2>2, <2>5 DEF Informed, Created
  <2>7. /\ TypeOK' /\ Fresh' /\ KeepsRecords(p)
    BY <1>0, <1>2, <2>1, <2>2, TypeParts
       DEF IInv, Fresh, Missing, Torn, Events, Locks, records, RecordsTyped, HistoryTyped,
           KeepsRecords
  <2> QED BY <2>1, <2>2, <2>3, <2>6, <2>7, StepLemma DEF Locks
<1> QED BY <1>1, <1>2 DEF LockCreated

-----------------------------------------------------------------------------
(* Drivers.                                                                *)
LEMMA PlacedFacts ==
    ASSUME IInv, NEW p \in Programs, pc[p] \in Placed
    PROVE  /\ on[p] \in Conns /\ at[p] \in Windows /\ target[on[p]] = at[p]
           /\ Informed(p) /\ (pc[p] # "turn" => ~sending[p])
BY DEF IInv, Exclusive, Able

\* To take the lease, or to find the window busy.
LEMMA LeaseKeeps ==
    ASSUME IInv, NEW p \in Programs, pc[p] \in Placed \ Locked,
           UNCHANGED <<records, history>>,
           NEW to \in {"mend", "admitted", "activated"},
           to = "admitted" => Events(on[p]) # <<>>,
           \/ LockBootstrapWindow(p, at[p], on[p]) /\ Goto(p, to)
           \/ Busy(at[p], on[p]) /\ Done(p) /\ UNCHANGED admission
    PROVE  IInv'
<1>1. on[p] \in Conns /\ at[p] \in Windows /\ ~sending[p] /\ to \notin Driving
  BY PlacedFacts DEF Locked, Driving
<1>2. CASE LockBootstrapWindow(p, at[p], on[p]) /\ Goto(p, to)
  <2>1. Locks(p) /\ lease'[at[p]] = p
    BY <1>1, <1>2, LeaseSteps
  <2>2. to \in Placed \ {"lock", "publish"}
    BY DEF Placed, Counter, Early
  <2> QED BY <1>1, <1>2, <2>1, <2>2, GotoKeeps
<1>3. CASE Busy(at[p], on[p]) /\ Done(p) /\ UNCHANGED admission
  BY <1>3, LockSteps, DoneKeeps
<1> QED BY <1>2, <1>3

LEMMA ReachKeeps ==
    ASSUME IInv, NEW p \in Programs, Reach(p)
    PROVE  IInv'
<1>0. /\ pc[p] = "reach" /\ UNCHANGED <<admission, records, history>> /\ pc[p] \in Placed
      /\ ~sending[p] /\ Locks(p)
  <2>1. pc[p] = "reach" /\ pc[p] \in Placed /\ UNCHANGED <<admission, records, history>>
    BY DEF Reach, Placed, Counter, Early
  <2> QED BY <2>1, PlacedFacts, LockSteps
<1>1. CASE Done(p)
  BY <1>0, <1>1, DoneKeeps
<1>2. ASSUME NEW to \in {"mend_lock", "activate", "enter", "retire"}, Goto(p, to),
             to = "enter" => Events(on[p]) # <<>>,
             to = "retire" => Over(on[p])
      PROVE  IInv'
  <2>1. to \in Placed \ {"lock", "publish"} /\ to \notin Locked /\ to \notin Driving
    BY DEF Placed, Counter, Early, Locked, Driving
  <2> QED BY <1>0, <1>2, <2>1, GotoKeeps
<1>3. CASE Torn(on[p]) /\ Goto(p, "mend_lock")
  BY <1>2, <1>3
<1>4. CASE Missing(on[p]) /\ ReachActivation(p)
  BY <1>1, <1>2, <1>4 DEF ReachActivation, Over
<1>5. CASE ~Torn(on[p]) /\ ~Missing(on[p]) /\ ReachJournal(p)
  BY <1>1, <1>2, <1>5 DEF ReachJournal, Over, Missing
<1> QED BY <1>3, <1>4, <1>5 DEF Reach

LEMMA MendLockKeeps ==
    ASSUME IInv, NEW p \in Programs, MendLock(p)
    PROVE  IInv'
BY LeaseKeeps DEF MendLock, Placed, Locked, Counter, Early

LEMMA EnterKeeps ==
    ASSUME IInv, NEW p \in Programs, Enter(p)
    PROVE  IInv'
<1>1. pc[p] = "enter" /\ Events(on[p]) # <<>>
  BY DEF Enter, IInv, Informed
<1> QED BY <1>1, LeaseKeeps DEF Enter, Placed, Locked, Counter, Early

LEMMA ActivateKeeps ==
    ASSUME IInv, NEW p \in Programs, Activate(p)
    PROVE  IInv'
BY LeaseKeeps DEF Activate, Placed, Locked, Counter, Early

\* To leave the lease for another place.
LEMMA UnlockKeeps ==
    ASSUME IInv, NEW p \in Programs, pc[p] \in Locked, ~sending[p],
           UNCHANGED <<records, history>>, Unlock(p),
           NEW to \in {"reach", "retire"}, Goto(p, to),
           to = "retire" => on[p] \in outrun \/ Over(on[p])
    PROVE  IInv'
<1>1. Locks(p)
  BY LockSteps
<1>2. to \in Placed \ {"lock", "publish"} /\ to \notin Locked /\ to \notin Driving
  BY DEF Placed, Counter, Early, Locked, Driving
<1> QED BY <1>1, <1>2, LockedFacts, GotoKeeps

LEMMA MendKeeps ==
    ASSUME IInv, NEW p \in Programs, Mend(p)
    PROVE  IInv'
<1>0. /\ pc[p] = "mend" /\ pc[p] \in Locked /\ ~sending[p] /\ Locks(p)
      /\ UNCHANGED <<target, activation, history>>
  <2>1. pc[p] = "mend" /\ pc[p] \in Locked
    BY DEF Mend, Locked
  <2> QED BY <2>1, LockedFacts, PlacedFacts, LockSteps DEF Mend
<1>1. CASE Goto(p, "reach") /\ UNCHANGED log
  BY <1>0, <1>1, UnlockKeeps DEF Mend, records
<1>2. CASE Done(p) /\ UNCHANGED log
  BY <1>0, <1>2, DoneKeeps DEF records
<1>3. CASE RecoverMemoryTail(on[p]) /\ Goto(p, "reach")
  <2>1. PICK c \in Conns : on[p] = c
    BY <1>0, LockedFacts
  <2>2. log[c] \in File /\ log' = [log EXCEPT ![c].torn = FALSE] /\ Torn(c)
    BY <1>0, <1>3, <2>1, LockedFacts, JournalTyped DEF RecoverMemoryTail
  <2>3. [log[c] EXCEPT !.torn = FALSE] \in File
    BY <2>2 DEF File
  <2>4. /\ log' \in [Conns -> File] /\ \A d \in Conns : d # c => log'[d] = log[d]
        /\ Events(c)' = Events(c) /\ ~Over(c)
    BY <1>0, <2>2, <2>3, LockedFacts DEF RecordsTyped, Events, File, Over, Missing
  <2>8. Writable(c)
    BY <2>4 DEF Writable
  <2>5. /\ OthersSame(p) /\ Joins(p) /\ ProgramsTyped' /\ pc'[p] = "reach"
        /\ UNCHANGED <<command, on, at, ask, view, sending>>
    BY <1>3, GotoSteps DEF Counter
  <2>6. Exclusive(p)' /\ Able(p)'
    BY <1>0, <2>5, StaysKeeps DEF Placed, Counter, Early, Locked
  <2>7. Informed(p)' /\ HistoryTyped'
    BY <1>0, <2>5, LockedFacts DEF Informed, Created, Driving, HistoryTyped, history
  <2> QED BY <1>0, <2>1, <2>4, <2>5, <2>6, <2>7, <2>8, JournalKeeps DEF history
<1> QED BY <1>1, <1>2, <1>3 DEF Mend

LEMMA AdmitKeeps ==
    ASSUME IInv, NEW p \in Programs, Admit(p)
    PROVE  IInv'
<1>0. /\ pc[p] = "admitted" /\ pc[p] \in Locked /\ ~sending[p] /\ Events(on[p]) # <<>>
      /\ UNCHANGED <<records, history>>
  <2>1. pc[p] = "admitted" /\ pc[p] \in Locked
    BY DEF Admit, Locked
  <2> QED BY <2>1, LockedFacts, PlacedFacts DEF Admit, Informed
<1>1. CASE Refused(p) /\ Leave(p)
  BY <1>0, <1>1, LeaveKeeps
<1>2. ASSUME ~Refused(p), NEW to \in {"prepare", "turn"}, See(p, Latest(on[p]), to),
             UNCHANGED admission
      PROVE  IInv'
  <2>1. PICK c \in Conns : on[p] = c
    BY <1>0, LockedFacts
  <2>2. Latest(c) \in State /\ ~Torn(c) /\ ~Latest(c).closed /\ Events(c) # <<>>
    BY <1>0, <1>2, <2>1, LockedFacts, JournalTyped DEF Refused
  <2>3. /\ OthersSame(p) /\ Joins(p) /\ ProgramsTyped' /\ pc'[p] = to
        /\ view'[p] = Latest(c) /\ UNCHANGED <<command, on, at, ask, sending>>
    BY <1>2, <2>1, <2>2, SeeSteps DEF Counter
  <2>4. Locks(p) /\ UNCHANGED lease
    BY <1>2, LockSteps DEF admission
  <2>5. Exclusive(p)' /\ Able(p)'
    BY <1>0, <2>3, <2>4, StaysKeeps, LockedFacts DEF Placed, Counter, Early, records
  <2>6. Current(p)' /\ ~view'[p].closed
    BY <1>0, <2>1, <2>2, <2>3 DEF Current, Torn, Events, Latest, records
  <2>8. Knows(p)'
    BY <2>2, <2>3, <2>6 DEF Knows, Weak, Current
  <2>7. Informed(p)'
    BY <2>3, <2>6, <2>8 DEF Informed, Created
  <2> QED BY <1>0, <2>3, <2>4, <2>5, <2>7, Quiet
<1> QED BY <1>1, <1>2 DEF Admit

\* A driver that is not outrun acts on the end of the journal.
LEMMA DriverFacts ==
    ASSUME IInv, NEW p \in Programs, pc[p] \in Driving
    PROVE  /\ pc[p] \in Locked /\ on[p] \in Conns /\ Able(p) /\ Knows(p)
           /\ view[p] \in State /\ Events(on[p]) \in Seq(Event)
           /\ ~Outrun(p) => Current(p) /\ (~view[p].closed => ~Over(on[p]))
           /\ ~view[p].closed => Writable(on[p])
<1>1. pc[p] \in Locked
  BY DEF Driving, Locked
<1>2. Knows(p)
  BY DEF IInv, Informed
<1>3. ~Outrun(p) => Current(p) /\ (~view[p].closed => ~Over(on[p]))
  BY <1>2 DEF Knows, Current, Over, Missing
<1>4. ~view[p].closed => Writable(on[p])
  BY <1>2, <1>3 DEF Knows, Weak, Outrun, Writable
<1> QED BY <1>1, <1>2, <1>3, <1>4, LockedFacts, JournalTyped DEF Knows, Weak, Current

LEMMA TurnFacts ==
    ASSUME IInv, NEW p \in Programs, Turn(p)
    PROVE  /\ pc[p] \in Locked /\ Writable(on[p]) /\ view[p] \in State /\ ~sending[p]
BY DriverFacts DEF Turn, Driving

LEMMA PreparingFacts ==
    ASSUME IInv, NEW p \in Programs, pc[p] = "prepare"
    PROVE  /\ pc[p] \in Locked /\ Writable(on[p]) /\ view[p] \in State /\ ~sending[p]
           /\ on[p] \in Conns /\ Knows(p) /\ Events(on[p]) \in Seq(Event)
           /\ ~view[p].closed
           /\ ~Outrun(p) => Current(p) /\ ~Over(on[p])
<1>1. ~view[p].closed /\ pc[p] \in Driving
  BY DEF IInv, Informed, Driving
<1> QED BY <1>1, DriverFacts, PlacedFacts DEF Able

LEMMA RequestCloseKeeps ==
    ASSUME IInv, NEW p \in Programs, RequestClose(p)
    PROVE  IInv'
<1>0. pc[p] = "prepare"
  BY DEF RequestClose
<1>1. CASE Save(p, [view[p] EXCEPT !.closing = TRUE], "turn")
  <2>1. [view[p] EXCEPT !.closing = TRUE] \in State
    BY <1>0, PreparingFacts DEF State
  <2> QED BY <1>0, <1>1, <2>1, PreparingFacts, SaveKeeps
<1>2. CASE Goto(p, "turn") /\ UNCHANGED <<admission, records, history>>
  <2>1. Locks(p) /\ UNCHANGED lease
    BY <1>2, LockSteps DEF admission
  <2> QED BY <1>0, <1>2, <2>1, PreparingFacts, LockedFacts, GotoKeeps
          DEF Placed, Counter, Early, Driving
<1> QED BY <1>1, <1>2 DEF RequestClose

LEMMA PrepareRefusedKeeps ==
    ASSUME IInv, NEW p \in Programs, PrepareRefused(p)
    PROVE  IInv'
BY LeaveKeeps DEF PrepareRefused

LEMMA CheckpointKeeps ==
    ASSUME IInv, NEW p \in Programs, Checkpoint(p)
    PROVE  IInv'
<1>0. /\ pc[p] = "prepare" /\ UNCHANGED <<admission, target, activation, history>>
  BY DEF Checkpoint
<1>1. PICK c \in Conns : on[p] = c
  BY <1>0, PreparingFacts
<1> DEFINE s == [view[p] EXCEPT !.archive = Checksum(Events(c))]
<1>2. /\ pc[p] \in Locked /\ Writable(c) /\ view[p] \in State /\ ~sending[p] /\ Current(p)
      /\ Events(c) \in Seq(Event) /\ ~view[p].closed /\ RecordsTyped /\ HistoryTyped
  <2>1. ~Outrun(p)
    BY DEF Outrun, Checkpoint
  <2> QED BY <1>0, <1>1, <2>1, PreparingFacts, LockedFacts
<1>3. s \in State /\ ~s.closed
  <2>1. Checksum(Events(c)) \in Nat
    BY <1>2, ChecksumTyped
  <2> QED BY <1>2, <2>1 DEF State
<1>4. See(p, s, "rotate") /\ ArchiveSegment(c)
  BY <1>1 DEF Checkpoint
<1> HIDE DEF s
<1>5. /\ log[c] \in File /\ log' = [log EXCEPT ![c].history = @ \cup {Events(c)}]
  BY <1>2, <1>4, JournalTyped DEF ArchiveSegment
<1>6. [log[c] EXCEPT !.history = @ \cup {Events(c)}] \in File
  BY <1>2, <1>5 DEF File
<1>7. /\ log' \in [Conns -> File] /\ \A d \in Conns : d # c => log'[d] = log[d]
      /\ Events(c)' = Events(c) /\ Torn(c)' = Torn(c)
  BY <1>2, <1>5, <1>6 DEF RecordsTyped, Events, Torn, File
<1>8. /\ OthersSame(p) /\ Joins(p) /\ ProgramsTyped' /\ pc'[p] = "rotate" /\ view'[p] = s
      /\ UNCHANGED <<command, on, at, ask, sending>>
  BY <1>3, <1>4, SeeSteps DEF Counter
<1>9. Locks(p) /\ UNCHANGED lease
  BY <1>0, LockSteps DEF admission
<1>10. Exclusive(p)' /\ Able(p)'
  BY <1>0, <1>2, <1>8, <1>9, StaysKeeps, LockedFacts DEF Placed, Counter, Early
<1>11. Informed(p)'
  <2>1. /\ ~Torn(c) /\ Events(c) # <<>> /\ ~Latest(c).closed
    BY <1>1, <1>2 DEF Current
  <2>2. /\ ~Torn(on[p])' /\ (Events(on[p]) # <<>>)' /\ ~Latest(on[p]).closed'
    BY <1>1, <1>7, <1>8, <2>1 DEF Torn, Events, Latest
  <2> QED BY <1>3, <1>8, <2>2 DEF Informed, Created, Driving
<1> QED BY <1>0, <1>1, <1>2, <1>7, <1>8, <1>9, <1>10, <1>11, JournalKeeps
        DEF HistoryTyped, history

LEMMA RotateKeeps ==
    ASSUME IInv, NEW p \in Programs, Rotate(p)
    PROVE  IInv'
<1>0. /\ pc[p] = "rotate" /\ UNCHANGED <<admission, target, activation, history>>
      /\ pc[p] \in Locked
  BY DEF Rotate, Locked
<1>1. PICK c \in Conns : on[p] = c
  BY <1>0, LockedFacts
<1>2. /\ view[p] \in State /\ ~view[p].closed /\ ~sending[p] /\ ~Torn(c)
      /\ Events(c) # <<>> /\ Writable(c) /\ RecordsTyped /\ HistoryTyped
  BY <1>0, <1>1, LockedFacts, PlacedFacts DEF Informed, Writable, Over, Missing
<1> DEFINE e == NewEvent(c, view[p])
<1>3. e \in Event /\ e.state = view[p]
  BY <1>2, NewEventTyped
<1>4. log[c] \in File /\ log' = [log EXCEPT ![c].active = <<e>>]
  BY <1>1, <1>2, JournalTyped DEF Rotate, ReplaceActive
<1> HIDE DEF e
<1>5. <<e>> \in Seq(Event) /\ <<e>> # <<>> /\ Last(<<e>>) = e
  BY <1>3 DEF Last
<1>6. [log[c] EXCEPT !.active = <<e>>] \in File
  BY <1>4, <1>5 DEF File
<1>7. /\ log' \in [Conns -> File] /\ \A d \in Conns : d # c => log'[d] = log[d]
      /\ Events(c)' = <<e>> /\ ~Torn(c)'
  BY <1>2, <1>4, <1>6 DEF RecordsTyped, Events, Torn, File
<1>8. /\ OthersSame(p) /\ Joins(p) /\ ProgramsTyped' /\ pc'[p] = "prepare"
      /\ UNCHANGED <<command, on, at, ask, view, sending>>
  BY GotoSteps DEF Counter, Rotate
<1>9. Locks(p) /\ UNCHANGED lease
  BY <1>0, LockSteps DEF admission
<1>10. Exclusive(p)' /\ Able(p)'
  BY <1>0, <1>2, <1>8, <1>9, StaysKeeps, LockedFacts DEF Placed, Counter, Early
<1>11. Informed(p)'
  <2>1. Latest(c)' = view[p]
    BY <1>3, <1>5, <1>7 DEF Latest
  <2>2. Current(p)'
    BY <1>1, <1>5, <1>7, <1>8, <2>1 DEF Current, Torn, Events, Latest
  <2>3. Knows(p)'
    BY <1>2, <1>8, <2>2 DEF Knows, Weak, Current
  <2> QED BY <1>2, <1>8, <2>3 DEF Informed, Created
<1> QED BY <1>0, <1>1, <1>2, <1>5, <1>7, <1>8, <1>9, <1>10, <1>11, JournalKeeps
        DEF HistoryTyped, history

-----------------------------------------------------------------------------
(* What a turn saves.                                                      *)
LEMMA OperationTyped ==
    ASSUME NEW s \in State
    PROVE  /\ \A o \in Op \cup {None} : [s EXCEPT !.op = o] \in State
           /\ s.op # None => s.op \in Op
           /\ ~Settled(s) => s.op \in Op
BY DEF State, Settled

LEMMA BudgetTyped ==
    ASSUME NEW b \in Budget, NEW now \in Times
    PROVE  Observe(b, now) \in Budget
<1>1. now \in Nat /\ (now >= b.deadline) \in BOOLEAN
  BY BudgetAssumption
<1>2. \A x \in BOOLEAN : [b EXCEPT !.last = now, !.exhausted = x] \in Budget
  BY <1>1 DEF Budget
<1>3. [b EXCEPT !.last = now, !.exhausted = now >= b.deadline] \in Budget
  BY <1>1, <1>2
<1>4. [b EXCEPT !.exhausted = TRUE, !.rollback = TRUE] \in Budget
  BY DEF Budget
<1> QED BY <1>3, <1>4 DEF Observe

LEMMA PrepareRequestKeeps ==
    ASSUME IInv, NEW p \in Programs, PrepareRequest(p)
    PROVE  IInv'
<1>0. pc[p] = "prepare" /\ ask[p] \in Requests
  BY DEF PrepareRequest, IInv, Able, Placed, Counter, Early
<1>1. ASSUME NEW now \in Starts, Save(p, [view[p] EXCEPT !.op = NewOp(ask[p], now)], "turn")
      PROVE  IInv'
  <2>1. now \in Nat /\ now + Duration \in Nat
    BY BudgetAssumption
  <2>2. NewOp(ask[p], now) \in Op
    BY <1>0, <2>1 DEF NewOp, NewDurableBudget, Op, Stage, Budget
  <2>3. [view[p] EXCEPT !.op = NewOp(ask[p], now)] \in State
    BY <1>0, <2>2, PreparingFacts, OperationTyped
  <2> QED BY <1>0, <1>1, <2>3, PreparingFacts, SaveKeeps
<1> QED BY <1>1 DEF PrepareRequest

LEMMA BindKeeps ==
    ASSUME IInv, NEW p \in Programs, Bind(p)
    PROVE  IInv'
<1>1. [view[p] EXCEPT !.bound = TRUE] \in State
  BY TurnFacts DEF Bind, State
<1> QED BY <1>1, TurnFacts, SaveKeeps DEF Bind

LEMMA SpendBudgetKeeps ==
    ASSUME IInv, NEW p \in Programs, SpendBudget(p)
    PROVE  IInv'
<1>0. view[p] \in State /\ view[p].op \in Op
  BY TurnFacts, OperationTyped DEF SpendBudget
<1>1. ASSUME NEW now \in Times, Save(p, Observed(view[p], now), "turn")
      PROVE  IInv'
  <2> DEFINE b == Observe(view[p].op.budget, now)
  <2>1. b \in Budget
    BY <1>0, BudgetTyped DEF Op
  <2>2. Observed(view[p], now) = [view[p] EXCEPT !.op = [view[p].op EXCEPT !.budget = b]]
    BY DEF Observed
  <2> HIDE DEF b
  <2>3. [view[p].op EXCEPT !.budget = b] \in Op
    BY <1>0, <2>1 DEF Op
  <2>4. Observed(view[p], now) \in State
    BY <1>0, <2>2, <2>3, OperationTyped
  <2> QED BY <1>1, <2>4, TurnFacts, SaveKeeps DEF SpendBudget
<1> QED BY <1>1 DEF SpendBudget

LEMMA FinishBudgetKeeps ==
    ASSUME IInv, NEW p \in Programs, FinishBudget(p)
    PROVE  IInv'
<1> DEFINE b == [view[p].op.budget EXCEPT !.exhausted = TRUE]
           s == [view[p] EXCEPT !.op.budget.exhausted = TRUE]
<1>0. view[p] \in State /\ view[p].op \in Op
  BY TurnFacts, OperationTyped DEF FinishBudget
<1>1. b \in Budget
  BY <1>0 DEF Op, Budget
<1>2. s = [view[p] EXCEPT !.op = [view[p].op EXCEPT !.budget = b]]
  OBVIOUS
<1>3. Save(p, s, "turn")
  BY DEF FinishBudget
<1> HIDE DEF b, s
<1>4. [view[p].op EXCEPT !.budget = b] \in Op
  BY <1>0, <1>1 DEF Op
<1>5. s \in State
  BY <1>0, <1>2, <1>4, OperationTyped
<1> QED BY <1>3, <1>5, TurnFacts, SaveKeeps DEF FinishBudget

LEMMA SettleKeeps ==
    ASSUME IInv, NEW p \in Programs, Settle(p)
    PROVE  IInv'
<1>0. view[p] \in State /\ view[p].op \in Op
  BY TurnFacts, OperationTyped DEF Settle
<1>1. ASSUME NEW st \in {"complete", "cancelled"}, Save(p, [view[p] EXCEPT !.op.stage = st], "turn")
      PROVE  IInv'
  <2>1. [view[p].op EXCEPT !.stage = st] \in Op
    BY <1>0 DEF Op, Stage
  <2>2. [view[p] EXCEPT !.op.stage = st] = [view[p] EXCEPT !.op = [view[p].op EXCEPT !.stage = st]]
    OBVIOUS
  <2>3. [view[p] EXCEPT !.op.stage = st] \in State
    BY <1>0, <2>1, <2>2, OperationTyped
  <2> QED BY <1>1, <2>3, TurnFacts, SaveKeeps DEF Settle
<1> QED BY <1>1 DEF Settle

LEMMA CloseKeeps ==
    ASSUME IInv, NEW p \in Programs, Close(p)
    PROVE  IInv'
<1>1. [view[p] EXCEPT !.closing = FALSE, !.closed = TRUE, !.bound = FALSE] \in State
  BY TurnFacts DEF Close, State
<1> QED BY <1>1, TurnFacts, SaveKeeps DEF Close

LEMMA SendKeeps ==
    ASSUME IInv, NEW p \in Programs, Send(p)
    PROVE  IInv'
<1> DEFINE s == [view[p] EXCEPT !.op.stage = "sent"]
<1>0. /\ view[p] \in State /\ view[p].op \in Op /\ Turn(p) /\ pc[p] = "turn"
  BY TurnFacts, OperationTyped DEF Send, Turn
<1>1. [view[p].op EXCEPT !.stage = "sent"] \in Op
  BY <1>0 DEF Op, Stage
<1>2. s = [view[p] EXCEPT !.op = [view[p].op EXCEPT !.stage = "sent"]]
  OBVIOUS
<1>3. s \in State /\ s.op \in Op
  BY <1>0, <1>1, <1>2, OperationTyped DEF State
<1> DEFINE T == /\ view' = [view EXCEPT ![p] = s]
                /\ sending' = [sending EXCEPT ![p] = TRUE]
                /\ UNCHANGED <<pc, command, on, at, ask>>
<1>4. \/ /\ AppendMemoryEvent(on[p], s) /\ T
         /\ saved' = IF s.op = None THEN saved
                     ELSE [saved EXCEPT ![on[p]][s.op.req] = s.op.stage]
         /\ UNCHANGED <<admission, target, activation, effects, outrun>>
      \/ /\ AppendTorn(on[p]) /\ ProgramEnds(p) /\ Done(p)
         /\ UNCHANGED <<saved, target, activation, effects, outrun>>
      \/ Leave(p) /\ UNCHANGED <<log, saved, target, activation, effects, outrun>>
  BY DEF Send, SaveAnd
<1> HIDE DEF s
<1>5. ASSUME T
      PROVE  /\ OthersSame(p) /\ Joins(p) /\ ProgramsTyped' /\ pc'[p] = "turn" /\ view'[p] = s
  BY <1>0, <1>3, <1>5 DEF IInv, TypeOK, OthersSame, Joins, ProgramsTyped
<1> QED BY <1>0, <1>3, <1>4, <1>5, TurnFacts, AppendKeeps, EndInWriteKeeps, LeaveKeeps
        DEF history, records

LEMMA RunCodeKeeps ==
    ASSUME IInv, NEW p \in Programs, RunCode(p)
    PROVE  IInv'
<1>0. /\ pc[p] = "turn" /\ pc[p] \in Locked /\ view[p].op \in Op
      /\ UNCHANGED <<admission, records, saved, outrun, pc, command, on, at, ask, view>>
      /\ sending' = [sending EXCEPT ![p] = FALSE]
  BY DEF RunCode, IInv, Able, Locked
<1>1. PICK c \in Conns : on[p] = c
  BY <1>0, LockedFacts
<1>2. RecordsTyped /\ HistoryTyped /\ AdmissionTypeOK /\ ProgramsTyped
  BY <1>0, LockedFacts
<1>3. HistoryTyped'
  <2>1. view[p].op.req \in Requests
    BY <1>0 DEF Op
  <2>2. effects' = [effects EXCEPT ![c][view[p].op.req] = @ + 1]
    BY <1>1 DEF RunCode
  <2> QED BY <1>0, <1>2, <2>1, <2>2 DEF HistoryTyped
<1>4. Locks(p)
  BY <1>0, LockSteps
<1>5. OthersSame(p) /\ Joins(p) /\ ProgramsTyped' /\ ~sending'[p]
  BY <1>0, <1>2 DEF OthersSame, Joins, ProgramsTyped
<1>6. TypeOK' /\ Fresh'
  BY <1>0, <1>2, <1>3, <1>4, <1>5, TypeParts
     DEF RecordsTyped, records, Locks, IInv, Fresh, Missing, Torn, Events
<1>7. KeepsRecords(p)
  BY <1>0 DEF KeepsRecords, records
<1>8. Exclusive(p) /\ Informed(p) /\ Able(p)
  BY DEF IInv
<1>9. Exclusive(p)'
  BY <1>0, <1>8 DEF Exclusive, Creating, records, admission
<1>10. Informed(p)'
  BY <1>0, <1>8
     DEF Informed, Knows, Weak, Outrun, Current, Over, Missing, Torn, Events, Latest, records
<1>11. Able(p)'
  BY <1>0, <1>5, <1>8 DEF Able
<1> QED BY <1>4, <1>5, <1>6, <1>7, <1>9, <1>10, <1>11, StepLemma DEF Locks

LEMMA ReturnKeeps ==
    ASSUME IInv, NEW p \in Programs, Return(p)
    PROVE  IInv'
<1>0. pc[p] = "turn" /\ pc[p] \in Locked /\ ~sending[p] /\ Unlock(p) /\ Knows(p)
      /\ UNCHANGED <<records, history>>
  BY DEF Return, Locked, Driving, IInv, Informed
<1>1. view[p].closed => on[p] \in outrun \/ Over(on[p])
  BY <1>0 DEF Knows, Outrun, Current, Over, Missing
<1> QED BY <1>0, <1>1, UnlockKeeps, LockSteps, DoneKeeps DEF Return

LEMMA RetireKeeps ==
    ASSUME IInv, NEW p \in Programs, Retire(p)
    PROVE  IInv'
<1>0. AdmissionTypeOK
  BY DEF IInv, TypeOK
<1>1. Locks(p)
  BY <1>0 DEF Retire, RetireConnectionWindow, Locks, AdmissionTypeOK, KeepsLocks, KeepsClaims
<1> QED BY <1>1, DoneKeeps DEF Retire

-----------------------------------------------------------------------------
(* Activation.                                                             *)
LEMMA ActivatedFacts ==
    ASSUME IInv, NEW p \in Programs, pc[p] = "activated"
    PROVE  pc[p] \in Locked /\ ~sending[p] /\ on[p] \in Conns
<1>1. pc[p] \in Locked
  BY DEF Locked
<1> QED BY <1>1, LockedFacts, PlacedFacts

LEMMA ActivateEndKeeps ==
    ASSUME IInv, NEW p \in Programs, ActivateElsewhere(p) \/ ActivateCancelled(p)
    PROVE  IInv'
<1>0. pc[p] = "activated" /\ Unlock(p) /\ UNCHANGED <<records, history>>
  BY DEF ActivateElsewhere, ActivateCancelled, Activating
<1>1. CASE Done(p)
  BY <1>0, <1>1, LockSteps, DoneKeeps
<1>2. CASE Goto(p, "reach")
  BY <1>0, <1>2, ActivatedFacts, UnlockKeeps
<1>3. CASE ActivateCancelled(p)
  <2>1. Over(on[p])
    BY <1>3 DEF ActivateCancelled, Activating, Over
  <2> QED BY <1>0, <1>3, <2>1, ActivatedFacts, UnlockKeeps DEF ActivateCancelled
<1> QED BY <1>1, <1>2, <1>3 DEF ActivateElsewhere

\* The driver changes the activation record.
LEMMA ActivationKeeps ==
    ASSUME IInv, NEW p \in Programs, NEW c \in Conns, on[p] = c, pc[p] \in Locked,
           NEW a \in {"waiting_manual_reload", "runtime_selected", "cancelled"},
           activation' = [activation EXCEPT ![c] = a], UNCHANGED <<log, target, history>>,
           Writable(c), a = "cancelled" => Missing(c),
           Locks(p), OthersSame(p), Joins(p), ProgramsTyped',
           (Exclusive(p) /\ Informed(p) /\ Able(p))'
    PROVE  IInv'
<1>0. target[c] = at[p] /\ at[p] \in Windows /\ ~Creating(p) /\ RecordsTyped /\ HistoryTyped
  BY LockedFacts
<1>1. TypeOK'
  BY <1>0, TypeParts DEF RecordsTyped, HistoryTyped, Locks, history
<1>2. Fresh'
  BY <1>0, WindowAssumption DEF IInv, Fresh, RecordsTyped, Missing, Torn, Events
<1>3. KeepsRecords(p)
  BY <1>0 DEF KeepsRecords, RecordsTyped, Events, Writable, history
<1> QED BY <1>1, <1>2, <1>3, StepLemma DEF Locks

LEMMA ActivateWaitKeeps ==
    ASSUME IInv, NEW p \in Programs, ActivateWait(p)
    PROVE  IInv'
<1>0. pc[p] = "activated"
  BY DEF ActivateWait, Activating
<1>1. PICK c \in Conns : on[p] = c
  BY <1>0, ActivatedFacts
<1>2. Writable(c)
  BY <1>1 DEF ActivateWait, Activating, Waiting, Over, Writable
<1>3. Locks(p)
  BY LockSteps DEF ActivateWait, Leave
<1> QED BY <1>0, <1>1, <1>2, <1>3, ActivatedFacts, DoneSteps, ActivationKeeps
        DEF ActivateWait, Leave

LEMMA CancelActivationKeeps ==
    ASSUME IInv, NEW p \in Programs, CancelActivation(p)
    PROVE  IInv'
<1>0. pc[p] = "activated" /\ pc[p] \in Locked /\ ~sending[p] /\ RecordsTyped
  BY ActivatedFacts, LockedFacts DEF CancelActivation, Activating
<1>1. PICK c \in Conns : on[p] = c
  BY <1>0, LockedFacts
<1>2. Writable(c) /\ Missing(c)
  BY <1>1 DEF CancelActivation, Activating, Waiting, Over, Writable
<1>3. Locks(p)
  BY LockSteps DEF CancelActivation
<1>4. /\ OthersSame(p) /\ Joins(p) /\ ProgramsTyped' /\ pc'[p] = "retire"
      /\ UNCHANGED <<command, on, at, ask, view, sending>>
  BY GotoSteps DEF CancelActivation, Counter
<1>5. Exclusive(p)' /\ Able(p)'
  BY <1>0, <1>4, StaysKeeps DEF CancelActivation, Placed, Counter, Early, Locked
<1>6. activation' = [activation EXCEPT ![c] = "cancelled"] /\ UNCHANGED <<log, target, history>>
  BY <1>1 DEF CancelActivation
<1>7. Over(on[p])'
  BY <1>0, <1>1, <1>2, <1>4, <1>6 DEF Over, Missing, Events, Torn, RecordsTyped
<1>8. Informed(p)'
  BY <1>4, <1>7 DEF Informed, Created, Driving
<1> QED BY <1>0, <1>1, <1>2, <1>3, <1>4, <1>5, <1>6, <1>8, ActivationKeeps

LEMMA ActivateRecordKeeps ==
    ASSUME IInv, NEW p \in Programs, ActivateRecord(p)
    PROVE  IInv'
<1>0. /\ pc[p] = "selected" /\ pc[p] \in Driving /\ ~view[p].closed /\ ~sending[p]
      /\ pc[p] \in Placed
  BY PlacedFacts DEF ActivateRecord, Driving, IInv, Informed, Placed, Counter, Early
<1>1. pc[p] \in Locked /\ on[p] \in Conns /\ Knows(p) /\ Writable(on[p])
  BY <1>0, DriverFacts
<1>2. PICK c \in Conns : on[p] = c
  BY <1>1
<1>3. Locks(p) /\ UNCHANGED lease
  BY LockSteps DEF ActivateRecord, admission
<1>4. /\ OthersSame(p) /\ Joins(p) /\ ProgramsTyped' /\ pc'[p] = "turn"
      /\ UNCHANGED <<command, on, at, ask, view, sending>>
  BY GotoSteps DEF ActivateRecord, Counter
<1>5. Exclusive(p)' /\ Able(p)'
  BY <1>0, <1>1, <1>3, <1>4, StaysKeeps, LockedFacts DEF ActivateRecord, Placed, Counter, Early
<1>6. activation' = [activation EXCEPT ![c] = "runtime_selected"]
      /\ UNCHANGED <<log, target, history>>
  BY <1>2 DEF ActivateRecord
<1>7. Knows(p)'
  BY <1>1, <1>4, <1>6 DEF Knows, Weak, Outrun, Current, Torn, Events, Latest, history
<1>8. Informed(p)'
  BY <1>4, <1>7 DEF Informed, Created
<1> QED BY <1>1, <1>2, <1>3, <1>4, <1>5, <1>6, <1>8, ActivationKeeps

LEMMA ActivateSaveKeeps ==
    ASSUME IInv, NEW p \in Programs, ActivateObserved(p) \/ ActivateSelect(p)
    PROVE  IInv'
<1>1. pc[p] = "activated" /\ Writable(on[p])
  BY DEF ActivateObserved, ActivateSelect, Activating, Waiting, Over, Writable
<1> QED BY <1>1, ActivatedFacts, NewStateTyped, SaveKeeps DEF ActivateObserved, ActivateSelect

-----------------------------------------------------------------------------
LEMMA MaintainKeeps ==
    ASSUME IInv, NEW p \in Programs, Maintain(p)
    PROVE  IInv'
<1>1. /\ OthersSame(p) /\ ProgramsTyped' /\ on'[p] = None /\ pc'[p] = "maintain"
      /\ sending' = sending /\ UNCHANGED <<records, history>> /\ pc[p] = "idle"
  BY DEF Maintain, Start, OthersSame, ProgramsTyped, IInv, TypeOK, Counter
<1>2. ASSUME NEW q \in Programs, Creating(q) PROVE on[q] # None
  BY <1>2, NoneIsNoConnection DEF IInv, Exclusive, Creating, Early, Created, Placed, Counter
<1>3. Joins(p)
  BY <1>1, <1>2 DEF Joins
<1>4. Locks(p)
  BY WindowAssumption
     DEF Maintain, AcquireInstallationMaintenance, Locks, KeepsLocks, KeepsClaims, IInv,
         TypeOK, AdmissionTypeOK
<1>5. ~sending[p]
  BY <1>1 DEF IInv, Able
<1>6. (Exclusive(p) /\ Able(p))'
  BY <1>1, <1>5 DEF Exclusive, Able, Creating, Early, Created, Placed, Locked
<1>7. Informed(p)'
  BY <1>1 DEF Informed, Created, Driving
<1> QED BY <1>1, <1>3, <1>4, <1>6, <1>7, Quiet

LEMMA StepKeeps == IInv /\ [Next]_vars => IInv'
<1> SUFFICES ASSUME IInv, [Next]_vars PROVE IInv' OBVIOUS
<1>1. ASSUME NEW p \in Programs, Create(p) PROVE IInv'
  BY <1>1, BeginKeeps, PersistKeeps, PublishKeeps, LockCreatedKeeps DEF Create
<1>2. ASSUME NEW p \in Programs, Drive(p) PROVE IInv'
  BY <1>2, ReachKeeps, MendLockKeeps, MendKeeps, EnterKeeps, AdmitKeeps, RequestCloseKeeps,
     PrepareRefusedKeeps, CheckpointKeeps, RotateKeeps, PrepareRequestKeeps, BindKeeps,
     SpendBudgetKeeps, FinishBudgetKeeps, SendKeeps, RunCodeKeeps, SettleKeeps, CloseKeeps,
     ReturnKeeps, RetireKeeps
     DEF Drive
<1>3. ASSUME NEW p \in Programs, Activation(p) PROVE IInv'
  BY <1>3, ActivateKeeps, ActivateEndKeeps, ActivateWaitKeeps, ActivateSaveKeeps,
     ActivateRecordKeeps, CancelActivationKeeps
     DEF Activation
<1>4. ASSUME NEW p \in Programs, EndMaintain(p) PROVE IInv'
  BY <1>4, LockSteps, DoneKeeps DEF EndMaintain
<1>5. ASSUME NEW p \in Programs, Crash(p) PROVE IInv'
  BY <1>5, LockSteps, DoneKeeps DEF Crash
<1>6. CASE UNCHANGED vars
  <2>1. UNCHANGED <<admission, records, programs, history>>
    BY <1>6 DEF vars
  <2>2. TypeOK' /\ Claims' /\ Fresh'
    BY <2>1 DEF admission, records, programs, history, IInv, TypeOK, AdmissionTypeOK,
                Claims, Fresh, Missing, Torn, Events
  <2>3. ASSUME NEW q \in Programs PROVE (Exclusive(q) /\ Informed(q) /\ Able(q))'
    <3>1. Exclusive(q) /\ Informed(q) /\ Able(q)
      BY DEF IInv
    <3>2. Exclusive(q)' /\ Able(q)'
      BY <2>1, <3>1 DEF admission, records, programs, Exclusive, Able, Creating
    <3>3. Informed(q)'
      BY <2>1, <3>1 DEF records, programs, history, Informed, Knows, Weak, Outrun, Current,
                        Over, Missing, Torn, Events, Latest
    <3> QED BY <3>2, <3>3
  <2> QED BY <2>2, <2>3 DEF IInv
<1> QED BY <1>1, <1>2, <1>3, <1>4, <1>5, <1>6, ConnectKeeps, CommandKeeps, MaintainKeeps
        DEF Next

LEMMA Invariance == Spec => []IInv
<1>1. IInv /\ [Next]_vars => IInv'
  BY StepKeeps
<1> QED BY <1>1, InitInv, PTL DEF Spec

(* Types: records and programs keep theirs.                                *)
THEOREM Typing == Spec => []TypeOK
<1>1. IInv => TypeOK
  BY DEF IInv
<1> QED BY <1>1, Invariance, PTL

(* A driver acts on the durable state: whoever has read the journal under  *)
(* the lease, and a creator unless it was outrun.                          *)
THEOREM DriversAreCurrent == Spec => []OnlyCreatorsBehind
<1>1. IInv => OnlyCreatorsBehind
  BY DEF IInv, Informed, Knows, Outrun, OnlyCreatorsBehind
<1> QED BY <1>1, Invariance, PTL

\* Claims change only in two steps.
LEMMA ClaimSteps ==
    ASSUME [Next]_vars
    PROVE  \/ UNCHANGED marker
           \/ \E p \in Programs : pc[p] = "publish" /\ publishWindowOwner(p, at[p], on[p])
           \/ \E p \in Programs : Retire(p)
<1>1. ASSUME NEW p \in Programs,
             \/ ProgramEnds(p) \/ Unlock(p) \/ LeaveGate(p) \/ EnterGate(p) \/ Leave(p)
             \/ \E w \in Windows, c \in Conns : LockBootstrapWindow(p, w, c)
             \/ UNCHANGED admission
      PROVE  UNCHANGED marker
  BY <1>1 DEF ProgramEnds, Unlock, LeaveGate, EnterGate, Leave, LockBootstrapWindow, admission
<1>2. ASSUME NEW p \in Programs, NEW w, NEW c, LockBootstrapWindow(p, w, c)
      PROVE  UNCHANGED marker
  BY <1>2 DEF LockBootstrapWindow
<1>3. ASSUME NEW p \in Programs, NEW s, NEW to, Save(p, s, to) PROVE UNCHANGED marker
  BY <1>1, <1>3 DEF Save, SaveAnd
<1>4. ASSUME NEW p \in Programs, Send(p) PROVE UNCHANGED marker
  BY <1>1, <1>4 DEF Send, SaveAnd
<1>5. ASSUME NEW p \in Programs, Create(p)
      PROVE  \/ UNCHANGED marker
             \/ pc[p] = "publish" /\ publishWindowOwner(p, at[p], on[p])
  BY <1>1, <1>2, <1>5 DEF Create, Begin, PersistRecord, Publish, LockCreated
<1>6. ASSUME NEW p \in Programs, Drive(p)
      PROVE  UNCHANGED marker \/ Retire(p)
  BY <1>1, <1>2, <1>3, <1>4, <1>6
     DEF Drive, Reach, MendLock, Mend, Enter, Admit, RequestClose, PrepareRefused, Checkpoint,
         Rotate, PrepareRequest, Bind, SpendBudget, FinishBudget, RunCode, Settle, Close, Return
<1>7. ASSUME NEW p \in Programs, Activation(p) PROVE UNCHANGED marker
  BY <1>1, <1>2, <1>3, <1>7
     DEF Activation, Activate, ActivateElsewhere, ActivateCancelled, ActivateWait,
         ActivateObserved, ActivateSelect, ActivateRecord, CancelActivation
<1>8. ASSUME NEW p \in Programs, Maintain(p) \/ EndMaintain(p) \/ Crash(p)
      PROVE  UNCHANGED marker
  BY <1>1, <1>8 DEF Maintain, AcquireInstallationMaintenance, EndMaintain, Crash
<1>9. ASSUME NEW p \in Programs, NEW x, Connect(p, x) \/ Command(p, x) PROVE UNCHANGED marker
  BY <1>1, <1>9 DEF Connect, Command
<1>10. CASE UNCHANGED vars
  BY <1>10 DEF vars, admission
<1> QED BY <1>5, <1>6, <1>7, <1>8, <1>9, <1>10 DEF Next

(* A claim is given up only when the journal or the activation says that   *)
(* the connection is over, or its creator was outrun.                      *)
THEOREM ClaimsOutlive == Spec => ReleasedWhenOver
<1>1. IInv /\ [Next]_vars =>
        [\A w \in Windows :
            marker[w] # None /\ marker'[w] # marker[w] =>
                Over(marker[w]) \/ marker[w] \in outrun]_vars
  <2> SUFFICES ASSUME IInv, [Next]_vars, NEW w \in Windows,
                      marker[w] # None, marker'[w] # marker[w]
               PROVE  Over(marker[w]) \/ marker[w] \in outrun
    OBVIOUS
  <2>0. marker \in [Windows -> Conns \cup {None}]
    BY DEF IInv, TypeOK, AdmissionTypeOK
  <2>1. ASSUME NEW p \in Programs, pc[p] = "publish", publishWindowOwner(p, at[p], on[p])
        PROVE  FALSE
    BY <2>0, <2>1 DEF IInv, Exclusive, publishWindowOwner
  <2>2. ASSUME NEW p \in Programs, Retire(p) PROVE Over(marker[w]) \/ marker[w] \in outrun
    BY <2>0, <2>2 DEF IInv, Informed, Retire, RetireConnectionWindow
  <2> QED BY <2>1, <2>2, ClaimSteps
<1> QED BY <1>1, Invariance, PTL DEF Spec, ReleasedWhenOver


(* An activation that was cancelled is never handed to a driver.           *)
THEOREM CancelledIsFinal == Spec => []CancelledNeverDriven
<1>1. IInv => CancelledNeverDriven
  BY DEF IInv, Fresh, CancelledNeverDriven
<1> QED BY <1>1, Invariance, PTL

-----------------------------------------------------------------------------
(* What the journal has to do with the requests.  The events of a          *)
(* connection, archived or not, are numbered without a gap: a segment      *)
(* continues the one that its events name.                                 *)
Base(g) == g[1].state.archive

Numbered(g) ==
    \A i \in 1..Len(g) : g[i].sum = Base(g) + i /\ g[i].state.archive = Base(g)

AllEvents(c) == EventsOf(Segments(c))

Linked(c, g) == Base(g) # 0 => Archived(c, Base(g)) # {}

Whole(c) ==
    /\ IsFiniteSet(log[c].history)
    /\ \A g \in Segments(c) : g # <<>> => Numbered(g) /\ Linked(c, g)
    /\ \A g \in log[c].history : g # <<>> /\ Checksum(g) <= Checksum(Events(c))
    /\ \A e, f \in AllEvents(c) : e.sum = f.sum => e = f

\* The last event about a request has the stage that was saved of it.
Final(e, events) == \A f \in events : f.sum <= e.sum

KeptOf(c, r) ==
    /\ About(AllEvents(c), r) = {} => saved[c][r] = "absent"
    /\ \A e \in About(AllEvents(c), r) :
         Final(e, About(AllEvents(c), r)) => saved[c][r] = e.state.op.stage

\* The state has the request that is under way, of which there is at most one.
UnderWay(c, r) ==
    saved[c][r] \in {"prepared", "sent"} =>
        Events(c) # <<>> /\ Latest(c).op # None /\ Latest(c).op.req = r

Shown(c) ==
    Events(c) # <<>> /\ Latest(c).op # None =>
        saved[c][Latest(c).op.req] = Latest(c).op.stage

Cancelled(c, r) ==
    saved[c][r] = "cancelled" =>
        Events(c) # <<>> /\ (Latest(c).closing \/ Latest(c).closed)

Ran(c, r) ==
    /\ effects[c][r] \in {0, 1}
    /\ effects[c][r] = 1 => saved[c][r] \in {"sent", "complete"}

\* A goal that was stopped has not been sent and is still stopped.
Expired(e) == e.state.op.stage = "prepared" /\ e.state.op.budget.exhausted

Halted(c, r) ==
    (\E e \in About(AllEvents(c), r) : Expired(e)) =>
        /\ saved[c][r] \in {"prepared", "cancelled"}
        /\ saved[c][r] = "prepared" => Latest(c).op.budget.exhausted

Accounted(c) ==
    /\ Whole(c) /\ Shown(c)
    /\ \A r \in Requests : /\ KeptOf(c, r) /\ UnderWay(c, r) /\ Cancelled(c, r)
                           /\ Ran(c, r) /\ Halted(c, r)

\* What a program knows of the request it is about to save or to run.
Diligent(p) ==
    on[p] \notin outrun =>
        /\ pc[p] = "rotate" =>
             /\ command[p] = "execute"
             /\ view[p] = [Latest(on[p]) EXCEPT !.archive = Checksum(Events(on[p]))]
             /\ Events(on[p]) \in log[on[p]].history
        /\ pc[p] \in {"prepare", "rotate"} /\ command[p] = "execute" =>
             saved[on[p]][ask[p]] = "absent"
        /\ sending[p] => view[p].op.stage = "sent" /\ effects[on[p]][view[p].op.req] = 0

\* A connection without metadata has no journal, and nobody was outrun on it.
Unborn(c) == target[c] = None => Events(c) = <<>> /\ c \notin outrun

JInv ==
    /\ \A c \in Conns \ outrun : Accounted(c)
    /\ \A c \in Conns : Unborn(c)
    /\ \A p \in Programs : Diligent(p)

-----------------------------------------------------------------------------
(* Bounded sets of numbers.                                                *)
LEMMA Least ==
    ASSUME NEW S \in SUBSET Nat, S # {}
    PROVE  \E n \in S : \A m \in S : n <= m
<1>1. IsWellFoundedOn(OpToRel(<, Nat), Nat)
  BY NatLessThanWellFounded
<1>2. PICK n \in S : \A m \in S : ~(<<m, n>> \in OpToRel(<, Nat))
  BY <1>1, WFMin
<1>3. \A m \in S : m < n => <<m, n>> \in OpToRel(<, Nat)
  BY DEF OpToRel
<1>4. \A m \in S : ~(m < n)
  BY <1>2, <1>3
<1>5. \A m \in S : m \in Int /\ n \in Int
  OBVIOUS
<1> QED BY <1>4, <1>5

LEMMA Greatest ==
    ASSUME NEW S \in SUBSET Nat, S # {}, NEW b \in Nat, \A m \in S : m <= b
    PROVE  \E n \in S : \A m \in S : m <= n
<1> DEFINE T == {b - m : m \in S}
<1>1. \A m \in S : b - m \in Nat
  OBVIOUS
<1>2. T \in SUBSET Nat /\ T # {}
  BY <1>1
<1>3. \A m \in S : b - m \in T
  OBVIOUS
<1>4. \A n \in T : \E k \in S : n = b - k
  OBVIOUS
<1> HIDE DEF T
<1>5. PICK n \in T : \A m \in T : n <= m
  BY <1>2, Least
<1>6. PICK k \in S : n = b - k
  BY <1>4
<1>7. \A m \in S : b - k <= b - m /\ m \in Nat
  BY <1>5, <1>6, <1>3
<1> QED BY <1>7

-----------------------------------------------------------------------------
(* What a search finds.                                                    *)
LEMMA SegmentFacts ==
    ASSUME NEW g \in Seq(Event), g # <<>>, Numbered(g)
    PROVE  /\ Len(g) \in Nat \ {0} /\ Base(g) \in Nat /\ DOMAIN g = 1..Len(g)
           /\ Checksum(g) = Base(g) + Len(g) /\ Last(g).state.archive = Base(g)
           /\ \A e \in ToSet(g) : e \in Event /\ Base(g) < e.sum /\ e.sum <= Checksum(g)
           /\ \A n \in Nat : Base(g) < n /\ n <= Checksum(g) => \E e \in ToSet(g) : e.sum = n
           /\ Last(g) \in ToSet(g)
<1>1. Len(g) \in Nat \ {0} /\ DOMAIN g = 1..Len(g) /\ \A i \in 1..Len(g) : g[i] \in Event
  BY EmptySeq, LenProperties, ElementOfSeq
<1>2. Base(g) \in Nat
  <2>1. g[1] \in Event
    BY <1>1
  <2> QED BY <2>1 DEF Base, Event, State
<1>3. \A i \in 1..Len(g) : g[i].sum = Base(g) + i /\ g[i].state.archive = Base(g)
  BY DEF Numbered
<1>4. Last(g) = g[Len(g)] /\ Len(g) \in 1..Len(g)
  BY <1>1 DEF Last
<1>5. Checksum(g) = Base(g) + Len(g) /\ Last(g).state.archive = Base(g)
  BY <1>3, <1>4 DEF Checksum
<1>6. \A e \in ToSet(g) : \E i \in 1..Len(g) : e = g[i]
  BY <1>1 DEF ToSet
<1>7. \A i \in 1..Len(g) : g[i] \in ToSet(g)
  BY <1>1 DEF ToSet
<1>8. ASSUME NEW e \in ToSet(g)
      PROVE  e \in Event /\ Base(g) < e.sum /\ e.sum <= Checksum(g)
  <2>1. PICK i \in 1..Len(g) : e = g[i]
    BY <1>6
  <2> QED BY <1>1, <1>2, <1>3, <1>5, <2>1
<1>9. ASSUME NEW n \in Nat, Base(g) < n, n <= Checksum(g)
      PROVE  \E e \in ToSet(g) : e.sum = n
  <2>1. n - Base(g) \in 1..Len(g)
    BY <1>1, <1>2, <1>5, <1>9
  <2>2. g[n - Base(g)].sum = n /\ g[n - Base(g)] \in ToSet(g)
    BY <1>2, <1>3, <1>7, <2>1
  <2> QED BY <2>2
<1> QED BY <1>1, <1>2, <1>4, <1>5, <1>7, <1>8, <1>9

LEMMA InSegments ==
    ASSUME NEW segments
    PROVE  /\ \A g \in segments : \A e \in ToSet(g) : e \in EventsOf(segments)
           /\ \A e \in EventsOf(segments) : \E g \in segments : e \in ToSet(g)
BY DEF EventsOf

LEMMA NoEvents == ToSet(<<>>) = {}
BY DEF ToSet

LEMMA WholeFacts ==
    ASSUME RecordsTyped, NEW c \in Conns, Whole(c)
    PROVE  /\ Events(c) \in Segments(c) /\ Checksum(Events(c)) \in Nat
           /\ \A g \in Segments(c) : g \in Seq(Event) /\ Checksum(g) <= Checksum(Events(c))
           /\ \A g \in log[c].history : g \in Segments(c) /\ g # <<>>
           /\ \A e \in AllEvents(c) : e \in Event /\ e.sum <= Checksum(Events(c))
           /\ Events(c) # <<>> =>
                /\ Last(Events(c)) \in AllEvents(c)
                /\ Last(Events(c)).sum = Checksum(Events(c))
           /\ Events(c) = <<>> => AllEvents(c) = {}
<1>1. Events(c) \in Seq(Event) /\ log[c].history \in SUBSET Seq(Event)
  BY JournalTyped DEF File
<1>2. /\ Events(c) \in Segments(c) /\ Segments(c) = log[c].history \cup {Events(c)}
      /\ Checksum(Events(c)) \in Nat
      /\ \A g \in log[c].history : g # <<>> /\ Checksum(g) <= Checksum(Events(c))
  BY <1>1, ChecksumTyped DEF Segments, Whole
<1>3. \A g \in Segments(c) : g \in Seq(Event) /\ Checksum(g) <= Checksum(Events(c))
  BY <1>1, <1>2
<1>4. \A g \in Segments(c) : g # <<>> => Numbered(g)
  BY DEF Whole
<1>5. ASSUME NEW e \in AllEvents(c)
      PROVE  e \in Event /\ e.sum <= Checksum(Events(c)) /\ Events(c) # <<>>
  <2>1. PICK g \in Segments(c) : e \in ToSet(g)
    BY InSegments DEF AllEvents
  <2>2. g # <<>>
    BY <2>1, NoEvents
  <2>3. /\ e \in Event /\ e.sum <= Checksum(g) /\ Checksum(g) \in Nat
        /\ Checksum(g) # 0
    BY <1>3, <1>4, <2>1, <2>2, SegmentFacts
  <2>4. e.sum \in Nat /\ Checksum(g) <= Checksum(Events(c))
    BY <1>3, <2>3 DEF Event
  <2>5. Events(c) # <<>>
    BY <1>2, <2>3, <2>4 DEF Checksum
  <2> QED BY <1>2, <2>3, <2>4, <2>5
<1>6. ASSUME Events(c) # <<>>
      PROVE  /\ Last(Events(c)) \in AllEvents(c)
             /\ Last(Events(c)).sum = Checksum(Events(c))
  <2>1. Last(Events(c)) \in ToSet(Events(c))
    BY <1>1, <1>2, <1>4, <1>6, SegmentFacts
  <2> QED BY <1>2, <1>6, <2>1, InSegments DEF AllEvents, Checksum
<1> QED BY <1>2, <1>3, <1>5, <1>6

LEMMA ChainFacts ==
    ASSUME NEW c \in Conns
    PROVE  /\ Chain(c) \subseteq Segments(c) /\ Events(c) \in Chain(c)
           /\ \A g \in Chain(c) : Older(c, g) \subseteq Chain(c)
<1>1. Chain(c) \subseteq Segments(c)
  BY DEF Chain
<1>2. Events(c) \in Chain(c)
  BY DEF Chain, Segments
<1>3. ASSUME NEW g \in Chain(c), NEW h \in Older(c, g) PROVE h \in Chain(c)
  <2>1. h \in Segments(c)
    BY <1>3 DEF Older, Archived, Segments
  <2>2. ASSUME NEW found \in SUBSET Segments(c), Events(c) \in found,
               \A k \in found : Older(c, k) \subseteq found
        PROVE  h \in found
    <3>1. g \in found
      BY <2>2 DEF Chain
    <3> QED BY <1>3, <2>2, <3>1
  <2> QED BY <2>1, <2>2 DEF Chain
<1> QED BY <1>1, <1>2, <1>3

\* The chain has every number.
LEMMA ChainReaches ==
    ASSUME RecordsTyped, NEW c \in Conns, Whole(c),
           NEW n \in Nat, 0 < n, n <= Checksum(Events(c))
    PROVE  \E g \in Chain(c) : \E e \in ToSet(g) : e.sum = n
<1> DEFINE S == {Base(g) : g \in {h \in Chain(c) : h # <<>> /\ n <= Checksum(h)}}
<1>1. ASSUME NEW g \in Chain(c), g # <<>>
      PROVE  g \in Seq(Event) /\ Numbered(g) /\ Linked(c, g) /\ Base(g) \in Nat
             /\ Checksum(g) \in Nat /\ Base(g) < Checksum(g) /\ Last(g).state.archive = Base(g)
  <2>1. g \in Seq(Event) /\ Numbered(g) /\ Linked(c, g)
    BY <1>1, ChainFacts, WholeFacts DEF Whole
  <2> QED BY <1>1, <2>1, SegmentFacts
<1>2. Events(c) # <<>>
  BY DEF Checksum
<1>3. S \in SUBSET Nat
  BY <1>1
<1>4. Base(Events(c)) \in S
  BY <1>2, ChainFacts
<1>5. \A b \in S : \E g \in Chain(c) : g # <<>> /\ n <= Checksum(g) /\ b = Base(g)
  OBVIOUS
<1>6. \A g \in Chain(c) : g # <<>> /\ n <= Checksum(g) => Base(g) \in S
  OBVIOUS
<1> HIDE DEF S
<1>7. PICK b \in S : \A m \in S : b <= m
  BY <1>3, <1>4, Least
<1>8. PICK g \in Chain(c) : g # <<>> /\ n <= Checksum(g) /\ b = Base(g)
  BY <1>5
<1>9. b < n
  <2> SUFFICES ASSUME n <= b PROVE FALSE
    BY <1>1, <1>8
  <2>1. b # 0 /\ Archived(c, b) # {}
    BY <1>1, <1>8 DEF Linked
  <2>2. PICK h \in Archived(c, b) : TRUE
    BY <2>1
  <2>3. h \in Older(c, g)
    BY <1>1, <1>8, <2>2 DEF Older
  <2>4. h \in Chain(c) /\ Checksum(h) = b /\ h # <<>>
    BY <1>8, <2>2, <2>3, ChainFacts, WholeFacts DEF Archived
  <2>5. Base(h) \in S /\ Base(h) < b /\ Base(h) \in Nat /\ b \in Nat
    BY <1>1, <1>6, <1>8, <2>4
  <2> QED BY <1>7, <2>5
<1>10. \E e \in ToSet(g) : e.sum = n
  BY <1>1, <1>8, <1>9, SegmentFacts
<1> QED BY <1>10

LEMMA ChainWhole ==
    ASSUME RecordsTyped, NEW c \in Conns, Whole(c)
    PROVE  EventsOf(Chain(c)) = AllEvents(c) /\ ~Broken(c)
<1>1. ASSUME NEW e \in EventsOf(Chain(c)) PROVE e \in AllEvents(c)
  <2>1. PICK g \in Chain(c) : e \in ToSet(g)
    BY InSegments
  <2> QED BY <2>1, ChainFacts, InSegments DEF AllEvents
<1>2. ASSUME NEW e \in AllEvents(c) PROVE e \in EventsOf(Chain(c))
  <2>1. e \in Event /\ e.sum <= Checksum(Events(c)) /\ e.sum \in Nat
    BY WholeFacts DEF Event
  <2>2. 0 < e.sum
    <3>1. PICK g \in Segments(c) : e \in ToSet(g)
      BY InSegments DEF AllEvents
    <3>2. g # <<>> /\ g \in Seq(Event) /\ Numbered(g)
      BY <3>1, NoEvents, WholeFacts DEF Whole
    <3> QED BY <2>1, <3>1, <3>2, SegmentFacts
  <2>3. PICK g \in Chain(c) : \E f \in ToSet(g) : f.sum = e.sum
    BY <2>1, <2>2, ChainReaches
  <2>4. PICK f \in ToSet(g) : f.sum = e.sum
    BY <2>3
  <2>5. f \in EventsOf(Chain(c))
    BY <2>4, InSegments
  <2>6. f = e
    BY <1>1, <2>4, <2>5 DEF Whole
  <2> QED BY <2>5, <2>6
<1>3. ASSUME NEW g \in Chain(c), g # <<>>, Last(g).state.archive # 0, Older(c, g) = {}
      PROVE  FALSE
  <2>1. g \in Seq(Event) /\ Numbered(g) /\ Linked(c, g)
    BY <1>3, ChainFacts, WholeFacts DEF Whole
  <2>2. Last(g).state.archive = Base(g)
    BY <1>3, <2>1, SegmentFacts
  <2> QED BY <1>3, <2>1, <2>2 DEF Older, Linked
<1>4. ~Broken(c)
  BY <1>3 DEF Broken
<1> QED BY <1>1, <1>2, <1>4

LEMMA FinalExists ==
    ASSUME RecordsTyped, NEW c \in Conns, Whole(c),
           NEW events \in SUBSET AllEvents(c), events # {}
    PROVE  \E e \in events : Final(e, events)
<1> DEFINE S == {e.sum : e \in events}
<1>1. \A e \in events : e.sum \in Nat /\ e.sum <= Checksum(Events(c))
  BY WholeFacts DEF Event
<1>2. /\ S \in SUBSET Nat /\ S # {} /\ \A n \in S : n <= Checksum(Events(c))
      /\ \A n \in S : \E e \in events : n = e.sum
      /\ \A e \in events : e.sum \in S
  BY <1>1
<1> HIDE DEF S
<1>3. Checksum(Events(c)) \in Nat
  BY WholeFacts
<1>4. PICK n \in S : \A m \in S : m <= n
  BY <1>2, <1>3, Greatest
<1>5. PICK e \in events : n = e.sum
  BY <1>2
<1>6. Final(e, events)
  BY <1>2, <1>4, <1>5 DEF Final
<1> QED BY <1>6

LEMMA AboutFacts ==
    ASSUME NEW events, NEW r
    PROVE  /\ About(events, r) \subseteq events
           /\ \A e \in events :
                e \in About(events, r) <=> e.state.op # None /\ e.state.op.req = r
BY DEF About

\* The search finds what was saved.
LEMMA Recollection ==
    ASSUME RecordsTyped, NEW c \in Conns, Accounted(c)
    PROVE  ~Broken(c) /\ \A r \in Requests : Recorded(c, r) = saved[c][r]
<1>1. Whole(c) /\ Recalled(c) = AllEvents(c) /\ ~Broken(c)
  BY ChainWhole DEF Accounted, Recalled
<1>2. ASSUME NEW r \in Requests PROVE Recorded(c, r) = saved[c][r]
  <2> DEFINE about == About(AllEvents(c), r)
  <2>1. KeptOf(c, r)
    BY DEF Accounted
  <2>2. CASE about = {}
    BY <1>1, <2>1, <2>2 DEF Recorded, KeptOf
  <2>3. CASE about # {}
    <3>1. \E e \in about : Final(e, about)
      BY <1>1, <2>3, AboutFacts, FinalExists
    <3>2. Newest(about) \in about /\ Final(Newest(about), about)
      BY <3>1 DEF Newest, Final
    <3>3. saved[c][r] = Newest(about).state.op.stage
      BY <2>1, <3>2 DEF KeptOf
    <3>4. Recorded(c, r) = Newest(about).state.op.stage
      BY <1>1, <2>3 DEF Recorded
    <3> QED BY <3>3, <3>4
  <2> QED BY <2>2, <2>3
<1> QED BY <1>1, <1>2

\* A request that the search does not find was never saved.
LEMMA SearchAbsent ==
    ASSUME RecordsTyped, NEW c \in Conns, Whole(c), NEW r,
           historicalState(c, r).kind = "absent"
    PROVE  About(AllEvents(c), r) = {}
<1>1. About(EventsOf(Walked(c)), r) = {} /\ ~(Cardinality(Chain(c)) > MaxSegments)
  BY DEF historicalState, Answer
<1>2. IsFiniteSet(Chain(c))
  <2>1. IsFiniteSet(Segments(c))
    BY FS_AddElement DEF Whole, Segments
  <2> QED BY <2>1, ChainFacts, FS_Subset
<1>3. Cardinality(Chain(c)) \in Nat /\ MaxSegments \in Nat
  BY <1>2, FS_CardinalityType, MemoryLogAssumption
<1>4. ASSUME NEW g \in Chain(c) PROVE g \in Walked(c)
  <2> DEFINE newer == {h \in Chain(c) : Checksum(g) <= Checksum(h)}
  <2>1. newer \subseteq Chain(c)
    OBVIOUS
  <2> HIDE DEF newer
  <2>2. IsFiniteSet(newer) /\ Cardinality(newer) <= Cardinality(Chain(c))
    BY <1>2, <2>1, FS_Subset
  <2>3. Cardinality(newer) \in Nat
    BY <2>2, FS_CardinalityType
  <2>4. Cardinality(newer) <= MaxSegments
    BY <1>1, <1>3, <2>2, <2>3
  <2> QED BY <2>4 DEF Walked, newer
<1>5. Walked(c) = Chain(c)
  BY <1>4 DEF Walked
<1> QED BY <1>1, <1>5, ChainWhole

-----------------------------------------------------------------------------
(* What a step does to the events of a connection.                         *)
Extends(c, e) ==
    /\ e \in Event /\ e.sum = Checksum(Events(c)) + 1
    /\ (Events(c) # <<>>)' /\ Latest(c)' = e.state
    /\ AllEvents(c)' = AllEvents(c) \cup {e}
    /\ Whole(c)'

LEMMA EventsOfUnion ==
    ASSUME NEW S, NEW g
    PROVE  EventsOf(S \cup {g}) = EventsOf(S) \cup ToSet(g)
BY DEF EventsOf

LEMMA AllParts ==
    ASSUME NEW c
    PROVE  AllEvents(c) = EventsOf(log[c].history) \cup ToSet(Events(c))
BY EventsOfUnion DEF AllEvents, Segments

\* A new active segment that holds one event more.
LEMMA WholeExtended ==
    ASSUME RecordsTyped, NEW c \in Conns, Whole(c), RecordsTyped',
           UNCHANGED log[c].history, NEW e \in Event, NEW g \in Seq(Event), g # <<>>,
           Events(c)' = g, Last(g) = e, e.sum = Checksum(Events(c)) + 1, Numbered(g),
           Linked(c, g), AllEvents(c)' = AllEvents(c) \cup {e}
    PROVE  Extends(c, e)
<1>1. \A h \in log[c].history : h # <<>> /\ Numbered(h) /\ Linked(c, h)
                                 /\ Checksum(h) <= Checksum(Events(c))
                                 /\ h \in Seq(Event)
  BY WholeFacts DEF Whole
<1>2. \A h : Linked(c, h)' <=> Linked(c, h)
  BY DEF Linked, Archived
<1>3. Segments(c)' = log[c].history \cup {g}
  BY DEF Segments
<1>4. Checksum(Events(c)) \in Nat
  BY WholeFacts
<1>5. Checksum(g) = Checksum(Events(c)) + 1
  BY DEF Checksum
<1>6. \A h \in log[c].history : Checksum(h) \in Nat
  BY <1>1, ChecksumTyped
<1>7. \A h \in log[c].history : Checksum(h) <= Checksum(g)
  BY <1>1, <1>4, <1>5, <1>6
<1>8. ASSUME NEW d \in AllEvents(c)' , NEW f \in AllEvents(c)', d.sum = f.sum
      PROVE  d = f
  <2>1. \A k \in AllEvents(c) : k.sum \in Nat /\ k.sum <= Checksum(Events(c))
    BY WholeFacts DEF Event
  <2>2. \A k \in AllEvents(c) : k.sum # e.sum
    BY <1>4, <2>1
  <2>3. \A k, l \in AllEvents(c) : k.sum = l.sum => k = l
    BY DEF Whole
  <2> QED BY <1>8, <2>2, <2>3
<1>9. IsFiniteSet(log[c].history)'
  BY DEF Whole
<1>10. \A h \in Segments(c)' : h # <<>> => Numbered(h) /\ Linked(c, h)'
  BY <1>1, <1>2, <1>3
<1>11. \A h \in log[c].history' : h # <<>> /\ Checksum(h) <= Checksum(Events(c)')
  BY <1>1, <1>7
<1>12. \A d, f \in AllEvents(c)' : d.sum = f.sum => d = f
  BY <1>8
<1>13. Whole(c)'
  BY <1>9, <1>10, <1>11, <1>12 DEF Whole, Numbered, Base, Checksum
<1>14. (Events(c) # <<>>)' /\ Latest(c)' = e.state
  BY DEF Latest
<1> QED BY <1>13, <1>14 DEF Extends

LEMMA AppendExtends ==
    ASSUME RecordsTyped, NEW c \in Conns, Whole(c), NEW s \in State,
           RecordsTyped', AppendMemoryEvent(c, s),
           s.archive = IF Events(c) = <<>> THEN 0 ELSE Latest(c).archive
    PROVE  Extends(c, NewEvent(c, s)) /\ NewEvent(c, s).state = s
<1> DEFINE e == NewEvent(c, s)
           g == Append(Events(c), e)
<1>1. /\ e \in Event /\ e.state = s /\ Events(c) \in Seq(Event) /\ log[c] \in File
      /\ e.sum = Checksum(Events(c)) + 1
  BY NewEventTyped, JournalTyped DEF NewEvent
<1> HIDE DEF e
<1>2. /\ g \in Seq(Event) /\ g # <<>> /\ Last(g) = e /\ Len(g) = Len(Events(c)) + 1
      /\ g[Len(Events(c)) + 1] = e /\ Len(Events(c)) \in Nat
      /\ \A i \in 1..Len(Events(c)) : g[i] = Events(c)[i]
      /\ DOMAIN g = 1..Len(g) /\ DOMAIN Events(c) = 1..Len(Events(c))
  <2>1. /\ g \in Seq(Event) /\ g # <<>> /\ Len(g) = Len(Events(c)) + 1
        /\ g[Len(Events(c)) + 1] = e
        /\ \A i \in 1..Len(Events(c)) : g[i] = Events(c)[i]
    BY <1>1, AppendProperties
  <2>2. Len(Events(c)) \in Nat /\ DOMAIN Events(c) = 1..Len(Events(c)) /\ DOMAIN g = 1..Len(g)
    BY <1>1, <2>1, LenProperties
  <2> QED BY <2>1, <2>2 DEF Last
<1>3. log' = [log EXCEPT ![c].active = g]
  BY DEF AppendMemoryEvent, e, Events
<1> HIDE DEF g
<1>4. Events(c)' = g /\ UNCHANGED log[c].history
  BY <1>1, <1>3 DEF RecordsTyped, Events, File
<1>5. ToSet(g) = ToSet(Events(c)) \cup {e}
  <2>1. 1..Len(g) = 1..Len(Events(c)) \cup {Len(Events(c)) + 1}
    BY <1>2
  <2> QED BY <1>2, <2>1 DEF ToSet
<1>6. AllEvents(c)' = AllEvents(c) \cup {e}
  <2>1. AllEvents(c)' = EventsOf(log[c].history) \cup ToSet(g)
    BY <1>4 DEF AllEvents, Segments, EventsOf
  <2> QED BY <1>5, <2>1, AllParts
<1>7. Numbered(g) /\ Linked(c, g)
  <2>1. CASE Events(c) = <<>>
    <3>1. Len(g) = 1 /\ g[1] = e /\ Checksum(Events(c)) = 0
      BY <1>2, <2>1 DEF Checksum
    <3>2. Base(g) = 0 /\ e.sum = 1 /\ e.state.archive = 0
      BY <1>1, <2>1, <3>1 DEF Base
    <3> QED BY <3>1, <3>2 DEF Numbered, Linked
  <2>2. CASE Events(c) # <<>>
    <3>1. Numbered(Events(c)) /\ Linked(c, Events(c))
      BY <2>2, WholeFacts DEF Whole
    <3>2. /\ Len(Events(c)) \in Nat \ {0} /\ Base(Events(c)) \in Nat
          /\ Checksum(Events(c)) = Base(Events(c)) + Len(Events(c))
          /\ Latest(c).archive = Base(Events(c))
      BY <1>1, <2>2, <3>1, SegmentFacts DEF Latest
    <3>3. Base(g) = Base(Events(c))
      BY <1>2, <3>2 DEF Base
    <3>4. ASSUME NEW i \in 1..Len(g) PROVE g[i].sum = Base(g) + i /\ g[i].state.archive = Base(g)
      <4>1. CASE i \in 1..Len(Events(c))
        BY <1>2, <3>1, <3>3, <4>1 DEF Numbered
      <4>2. CASE i = Len(Events(c)) + 1
        BY <1>1, <1>2, <2>2, <3>2, <3>3, <4>2
      <4> QED BY <1>2, <4>1, <4>2
    <3> QED BY <3>1, <3>3, <3>4 DEF Numbered, Linked
  <2> QED BY <2>1, <2>2
<1>8. Extends(c, e)
  BY <1>1, <1>2, <1>4, <1>6, <1>7, WholeExtended
<1> QED BY <1>1, <1>8 DEF e

LEMMA ReplaceExtends ==
    ASSUME RecordsTyped, NEW c \in Conns, Whole(c), NEW s \in State,
           RecordsTyped', ReplaceActive(c, s), Events(c) \in log[c].history,
           s.archive = Checksum(Events(c))
    PROVE  Extends(c, NewEvent(c, s)) /\ NewEvent(c, s).state = s
<1> DEFINE e == NewEvent(c, s)
           g == <<e>>
<1>1. /\ e \in Event /\ e.state = s /\ Events(c) \in Seq(Event) /\ log[c] \in File
      /\ e.sum = Checksum(Events(c)) + 1
  BY NewEventTyped, JournalTyped DEF NewEvent
<1>2. log' = [log EXCEPT ![c].active = g]
  BY DEF ReplaceActive
<1> HIDE DEF e
<1>3. g \in Seq(Event) /\ g # <<>> /\ Last(g) = e /\ Len(g) = 1 /\ g[1] = e /\ ToSet(g) = {e}
  BY <1>1 DEF Last, ToSet
<1> HIDE DEF g
<1>4. Events(c)' = g /\ UNCHANGED log[c].history
  BY <1>1, <1>2 DEF RecordsTyped, Events, File
<1>5. AllEvents(c)' = AllEvents(c) \cup {e}
  <2>1. AllEvents(c)' = EventsOf(log[c].history) \cup ToSet(g)
    BY <1>4 DEF AllEvents, Segments, EventsOf
  <2>2. ToSet(Events(c)) \subseteq EventsOf(log[c].history)
    BY InSegments
  <2> QED BY <1>3, <2>1, <2>2, AllParts
<1>6. Numbered(g) /\ Linked(c, g)
  <2>1. Base(g) = Checksum(Events(c)) /\ Checksum(Events(c)) \in Nat
    BY <1>1, <1>3, WholeFacts DEF Base
  <2>2. Events(c) \in Archived(c, Base(g))
    BY <2>1 DEF Archived
  <2>3. Numbered(g)
    BY <1>1, <1>3, <2>1 DEF Numbered
  <2> QED BY <2>2, <2>3 DEF Linked
<1>7. Extends(c, e)
  BY <1>1, <1>3, <1>4, <1>5, <1>6, WholeExtended
<1> QED BY <1>1, <1>7 DEF e

LEMMA ArchiveExtends ==
    ASSUME RecordsTyped, NEW c \in Conns, Whole(c), ArchiveSegment(c)
    PROVE  /\ Whole(c)' /\ AllEvents(c)' = AllEvents(c) /\ Events(c)' = Events(c)
           /\ Events(c) \in log'[c].history
<1>1. log[c] \in File /\ Events(c) # <<>> /\ Checksum(Events(c)) \in Nat
  BY JournalTyped, WholeFacts DEF ArchiveSegment
<1>2. Events(c)' = Events(c) /\ log'[c].history = log[c].history \cup {Events(c)}
  BY <1>1 DEF ArchiveSegment, RecordsTyped, Events, File
<1>3. Segments(c)' = Segments(c)
  BY <1>2 DEF Segments
<1>4. AllEvents(c)' = AllEvents(c)
  BY <1>3 DEF AllEvents, EventsOf
<1>5. IsFiniteSet(log'[c].history)
  BY <1>2, FS_AddElement DEF Whole
<1>6. \A g : Linked(c, g) => Linked(c, g)'
  BY <1>2 DEF Linked, Archived, Base, Checksum
<1>7. \A g \in Segments(c)' : g # <<>> => Numbered(g) /\ Linked(c, g)'
  BY <1>3, <1>6 DEF Whole
<1>8. \A g \in log'[c].history : g # <<>> /\ Checksum(g) <= Checksum(Events(c))
  BY <1>1, <1>2 DEF Whole
<1>9. \A e, f \in AllEvents(c)' : e.sum = f.sum => e = f
  BY <1>4 DEF Whole
<1>10. Whole(c)'
  BY <1>2, <1>5, <1>7, <1>8, <1>9 DEF Whole, Numbered, Base, Checksum
<1> QED BY <1>2, <1>4, <1>10

-----------------------------------------------------------------------------
(* What a save may change of the request that the state shows.             *)
SameMode(s0, s) == s.closing = s0.closing /\ s.closed = s0.closed

SameStage(s0, s) ==
    /\ s0.op # None /\ s.op # None /\ s.op.req = s0.op.req /\ s.op.stage = s0.op.stage
    /\ s0.op.budget.exhausted => s.op.budget.exhausted

Moves(s0, s, from, to) ==
    /\ s0.op # None /\ s.op # None /\ s.op.req = s0.op.req
    /\ s0.op.stage = from /\ s.op.stage = to

Prepares(c, s0, s) ==
    /\ s.op # None /\ saved[c][s.op.req] = "absent" /\ s.op.stage = "prepared"
    /\ ~s0.closing
    /\ IF s0.op = None THEN TRUE ELSE s0.op.stage = "complete"

OpFollows(c, s0, s) ==
    \/ s.op = s0.op \/ SameStage(s0, s) \/ Prepares(c, s0, s)
    \/ Moves(s0, s, "prepared", "sent") /\ ~s0.closing /\ ~s0.op.budget.exhausted
    \/ Moves(s0, s, "sent", "complete")
    \/ Moves(s0, s, "prepared", "cancelled") /\ s0.closing

Follows(c, s0, s) ==
    /\ ~s0.closed
    /\ \/ SameMode(s0, s) /\ OpFollows(c, s0, s)
       \/ s.op = s0.op /\ ~s0.closing /\ s.closing /\ ~s.closed
       \/ s.op = s0.op /\ s0.closing /\ s.closed /\ Settled(s0)

After(c, s) ==
    IF Events(c) = <<>> THEN s.op = None /\ ~s.closing /\ ~s.closed
    ELSE Follows(c, Latest(c), s)

SavedAs(c, s) ==
    saved'[c] = IF s.op = None THEN saved[c]
                ELSE [saved[c] EXCEPT ![s.op.req] = s.op.stage]

LEMMA SavedValues ==
    ASSUME HistoryTyped, NEW c \in Conns, NEW s \in State, SavedAs(c, s)
    PROVE  /\ s.op # None => s.op.req \in Requests /\ s.op \in Op
           /\ \A r \in Requests :
                saved'[c][r] = IF s.op # None /\ s.op.req = r THEN s.op.stage ELSE saved[c][r]
<1>1. saved[c] \in [Requests -> Stage \cup {"absent"}]
  BY DEF HistoryTyped
<1>2. s.op # None => s.op.req \in Requests /\ s.op \in Op
  BY DEF State, Op
<1> QED BY <1>1, <1>2 DEF SavedAs

LEMMA AccountedExtended ==
    ASSUME RecordsTyped, HistoryTyped, NEW c \in Conns, Accounted(c), NEW s \in State,
           NEW e \in Event, Extends(c, e), e.state = s, After(c, s), SavedAs(c, s),
           UNCHANGED effects[c]
    PROVE  Accounted(c)'
<1>0. /\ Whole(c)' /\ AllEvents(c)' = AllEvents(c) \cup {e} /\ (Events(c) # <<>>)'
      /\ Latest(c)' = s /\ e.sum = Checksum(Events(c)) + 1
  BY DEF Extends
<1>1. /\ s.op # None => s.op.req \in Requests
      /\ \A r \in Requests :
           saved'[c][r] = IF s.op # None /\ s.op.req = r THEN s.op.stage ELSE saved[c][r]
  BY SavedValues
<1>2. \A r \in Requests : /\ KeptOf(c, r) /\ UnderWay(c, r) /\ Cancelled(c, r)
                          /\ Ran(c, r) /\ Halted(c, r)
  BY DEF Accounted
<1>3. \A f \in AllEvents(c) : f.sum \in Nat /\ f.sum < e.sum
  <2>1. \A f \in AllEvents(c) : f.sum \in Nat /\ f.sum <= Checksum(Events(c))
    BY WholeFacts DEF Accounted, Event
  <2>2. Checksum(Events(c)) \in Nat
    BY WholeFacts DEF Accounted
  <2> QED BY <1>0, <2>1, <2>2
<1>4. Shown(c)'
  BY <1>0, <1>1 DEF Shown
<1>5. Events(c) = <<>> => \A r \in Requests : saved[c][r] = "absent"
  <2> SUFFICES ASSUME Events(c) = <<>>, NEW r \in Requests PROVE saved[c][r] = "absent"
    OBVIOUS
  <2>1. AllEvents(c) = {}
    BY WholeFacts DEF Accounted
  <2> QED BY <1>2, <2>1, AboutFacts DEF KeptOf
<1>6. Events(c) # <<>> /\ Latest(c).op # None =>
        /\ saved[c][Latest(c).op.req] = Latest(c).op.stage
        /\ Latest(c).op.req \in Requests
  BY JournalTyped DEF Accounted, Shown, State, Op
<1>7. ASSUME NEW r \in Requests
      PROVE  (KeptOf(c, r) /\ UnderWay(c, r) /\ Cancelled(c, r) /\ Ran(c, r) /\ Halted(c, r))'
  <2> DEFINE about == About(AllEvents(c), r)
             about1 == About(AllEvents(c) \cup {e}, r)
             shows == s.op # None /\ s.op.req = r
  <2>1. /\ about1 = IF shows THEN about \cup {e} ELSE about
        /\ about \subseteq AllEvents(c) /\ (e \in about1 => shows)
    <3>1. about1 = IF shows THEN about \cup {e} ELSE about
      BY DEF About
    <3>2. about \subseteq AllEvents(c) /\ e \notin AllEvents(c)
      BY <1>3, AboutFacts DEF Event
    <3> QED BY <3>1, <3>2
  <2>2. saved'[c][r] = IF shows THEN s.op.stage ELSE saved[c][r]
    BY <1>1
  <2> HIDE DEF about, about1, shows
  <2>3. KeptOf(c, r)'
    <3>1. CASE shows
      <4>1. \A f \in about1 : Final(f, about1) => f = e
        BY <1>3, <2>1, <3>1 DEF Final, Event
      <4> QED BY <1>0, <2>1, <2>2, <3>1, <4>1 DEF KeptOf, about1, Final
    <3>2. CASE ~shows
      BY <1>0, <1>2, <2>1, <2>2, <3>2 DEF KeptOf, about, about1, Final
    <3> QED BY <3>1, <3>2
  <2>4. UnderWay(c, r)'
    <3>1. ASSUME ~shows, saved[c][r] \in {"prepared", "sent"} PROVE FALSE
      <4>1. Events(c) # <<>> /\ Latest(c).op # None /\ Latest(c).op.req = r
        BY <1>2, <3>1 DEF UnderWay
      <4>2. Latest(c).op.stage \in {"prepared", "sent"} /\ Follows(c, Latest(c), s)
        BY <1>6, <3>1, <4>1 DEF After
      <4> QED BY <3>1, <4>1, <4>2
              DEF shows, Follows, OpFollows, SameStage, Moves, Prepares
    <3> QED BY <1>0, <2>2, <3>1 DEF UnderWay, shows
  <2>5. Cancelled(c, r)'
    <3>1. ASSUME saved'[c][r] = "cancelled" PROVE s.closing \/ s.closed
      <4>1. Events(c) # <<>>
        BY <1>5, <2>2, <3>1 DEF After, shows
      <4>2. Follows(c, Latest(c), s)
        BY <4>1 DEF After
      <4>3. CASE saved[c][r] = "cancelled"
        BY <1>2, <4>2, <4>3 DEF Cancelled, Follows, SameMode
      <4>4. CASE saved[c][r] # "cancelled"
        <5>1. shows /\ s.op.stage = "cancelled"
          BY <2>2, <3>1, <4>4
        <5>2. s.op = Latest(c).op => saved[c][r] = "cancelled"
          BY <1>6, <4>1, <5>1 DEF shows
        <5>3. SameStage(Latest(c), s) => saved[c][r] = "cancelled"
          BY <1>6, <4>1, <5>1 DEF shows, SameStage
        <5> QED BY <4>2, <4>4, <5>1, <5>2, <5>3 DEF Follows, SameMode, OpFollows, Moves, Prepares
      <4> QED BY <4>3, <4>4
    <3> QED BY <1>0, <3>1 DEF Cancelled
  <2>6. Ran(c, r)'
    <3>1. ASSUME effects[c][r] = 1 PROVE saved'[c][r] \in {"sent", "complete"}
      <4>1. saved[c][r] \in {"sent", "complete"}
        BY <1>2, <3>1 DEF Ran
      <4>2. CASE ~shows
        BY <2>2, <4>1, <4>2
      <4>3. CASE shows
        <5>1. Follows(c, Latest(c), s) /\ Events(c) # <<>>
          BY <1>5, <4>1, <4>3 DEF After
        <5>2. s.op = Latest(c).op => saved[c][r] = s.op.stage
          BY <1>6, <5>1, <4>3 DEF shows
        <5>3. SameStage(Latest(c), s) => saved[c][r] = s.op.stage
          BY <1>6, <5>1, <4>3 DEF shows, SameStage
        <5>4. ~Prepares(c, Latest(c), s)
          BY <4>1, <4>3 DEF shows, Prepares
        <5>5. ~Moves(Latest(c), s, "prepared", "cancelled")
          BY <1>6, <4>1, <4>3, <5>1 DEF shows, Moves
        <5> QED BY <2>2, <4>1, <4>3, <5>1, <5>2, <5>3, <5>4, <5>5
                DEF Follows, OpFollows, Moves
      <4> QED BY <4>2, <4>3
    <3> QED BY <1>2, <3>1 DEF Ran
  <2>7. Halted(c, r)'
    <3>1. ASSUME NEW f \in about1, Expired(f)
          PROVE  /\ saved'[c][r] \in {"prepared", "cancelled"}
                 /\ saved'[c][r] = "prepared" => s.op.budget.exhausted
      <4>1. CASE f = e
        BY <2>1, <2>2, <3>1, <4>1 DEF Expired
      <4>2. CASE f \in about
        <5>1. /\ saved[c][r] \in {"prepared", "cancelled"}
              /\ saved[c][r] = "prepared" => Latest(c).op.budget.exhausted
          BY <1>2, <3>1, <4>2 DEF Halted, about
        <5>2. Follows(c, Latest(c), s) /\ Events(c) # <<>>
          BY <1>5, <5>1 DEF After
        <5>3. CASE saved[c][r] = "prepared"
          <6>1. /\ Latest(c).op # None /\ Latest(c).op.req = r /\ Latest(c).op.stage = "prepared"
                /\ Latest(c).op.budget.exhausted
            BY <1>2, <1>6, <5>1, <5>2, <5>3 DEF UnderWay
          <6>2. ~Prepares(c, Latest(c), s)
            BY <6>1 DEF Prepares
          <6> QED BY <2>2, <5>2, <5>3, <6>1, <6>2
                  DEF shows, Follows, OpFollows, SameStage, Moves
        <5>4. CASE saved[c][r] = "cancelled"
          <6>1. CASE ~shows
            BY <2>2, <5>4, <6>1
          <6>2. CASE shows
            <7>1. Latest(c).op # None /\ Latest(c).op.req = r => Latest(c).op.stage = "cancelled"
              BY <1>6, <5>2, <5>4
            <7>2. ~Prepares(c, Latest(c), s)
              BY <5>4, <6>2 DEF shows, Prepares
            <7> QED BY <2>2, <5>2, <6>2, <7>1, <7>2
                    DEF shows, Follows, OpFollows, SameStage, Moves
          <6> QED BY <6>1, <6>2
        <5> QED BY <5>1, <5>3, <5>4
      <4> QED BY <2>1, <3>1, <4>1, <4>2
    <3> QED BY <1>0, <3>1 DEF Halted, about1
  <2> QED BY <2>3, <2>4, <2>5, <2>6, <2>7
<1> QED BY <1>0, <1>4, <1>7 DEF Accounted

LEMMA AccountedSame ==
    ASSUME NEW c \in Conns, Accounted(c),
           UNCHANGED <<Events(c), log[c].history, saved[c], effects[c]>>
    PROVE  Accounted(c)'
<1>1. Segments(c)' = Segments(c) /\ AllEvents(c)' = AllEvents(c) /\ Latest(c)' = Latest(c)
  BY DEF Segments, AllEvents, EventsOf, Latest
<1>2. \A g : Linked(c, g)' <=> Linked(c, g)
  BY DEF Linked, Archived
<1>3. Whole(c)'
  BY <1>1, <1>2 DEF Accounted, Whole, Numbered, Base, Checksum
<1>4. Shown(c)'
  BY <1>1 DEF Accounted, Shown
<1>5. ASSUME NEW r \in Requests
      PROVE  (KeptOf(c, r) /\ UnderWay(c, r) /\ Cancelled(c, r) /\ Ran(c, r) /\ Halted(c, r))'
  <2>1. KeptOf(c, r) /\ UnderWay(c, r) /\ Cancelled(c, r) /\ Ran(c, r) /\ Halted(c, r)
    BY DEF Accounted
  <2>2. KeptOf(c, r)'
    BY <1>1, <2>1 DEF KeptOf
  <2>3. (UnderWay(c, r) /\ Cancelled(c, r) /\ Ran(c, r))'
    BY <1>1, <2>1 DEF UnderWay, Cancelled, Ran
  <2>4. Halted(c, r)'
    BY <1>1, <2>1 DEF Halted
  <2> QED BY <2>2, <2>3, <2>4
<1> QED BY <1>3, <1>4, <1>5 DEF Accounted

-----------------------------------------------------------------------------
(* A step leaves the journals alone, saves a state, or is one of three;    *)
(* what is done to a connection whose creator was outrun does not count.   *)
Still == \A c \in Conns : UNCHANGED <<Events(c), log[c].history, saved[c], effects[c]>>

Quietly == Still /\ UNCHANGED outrun

\* Its creator is outrun.
Outruns(p) ==
    /\ Still
    /\ on[p] \in Conns /\ target[on[p]] # None /\ outrun' = outrun \cup {on[p]}

Astray(p) ==
    /\ on[p] \in outrun /\ target[on[p]] # None /\ UNCHANGED <<target, outrun>>
    /\ \A d \in Conns : d # on[p] => UNCHANGED <<log[d], saved[d], effects[d]>>

Saves(p, s) ==
    /\ pc[p] \in Locked \/ Creating(p)
    /\ AppendMemoryEvent(on[p], s) /\ After(on[p], s)
    /\ s.archive = IF Events(on[p]) = <<>> THEN 0 ELSE Latest(on[p]).archive
    /\ saved' = IF s.op = None THEN saved
                ELSE [saved EXCEPT ![on[p]][s.op.req] = s.op.stage]
    /\ UNCHANGED effects
    /\ on[p] \in Conns /\ target'[on[p]] # None

Kind(p) ==
    /\ OthersSame(p) /\ Diligent(p)'
    /\ \A c \in Conns : target'[c] = None => target[c] = None
    /\ \/ Quietly \/ Outruns(p) \/ Astray(p)
       \/ /\ on[p] \notin outrun /\ UNCHANGED outrun
          /\ \/ Checkpoint(p) \/ Rotate(p) \/ RunCode(p)
             \/ \E s \in State : Saves(p, s)

LEMMA AtEase ==
    ASSUME NEW p, pc'[p] \notin {"prepare", "rotate"}, ~sending'[p]
    PROVE  Diligent(p)'
BY DEF Diligent

LEMMA QuietSteps ==
    ASSUME IInv
    PROVE  /\ UNCHANGED <<records, history>> => Quietly
           /\ UNCHANGED <<log, history>> => Quietly
           /\ \A c \in Conns : AppendTorn(c) /\ UNCHANGED history => Quietly
           /\ \A c \in Conns : RecoverMemoryTail(c) /\ UNCHANGED history => Quietly
<1>1. \A c \in Conns : log[c] \in File
  BY DEF IInv, TypeOK, File, Event
<1>2. UNCHANGED <<log, history>> => Quietly
  BY DEF Quietly, Still, history, Events
<1>3. ASSUME NEW c \in Conns, UNCHANGED history, NEW b \in BOOLEAN,
             log' = [log EXCEPT ![c].torn = b]
      PROVE  Quietly
  <2>1. log \in [Conns -> File]
    BY DEF IInv, TypeOK, File, Event
  <2> QED BY <1>1, <1>3, <2>1 DEF Quietly, Still, history, Events, File
<1> QED BY <1>2, <1>3 DEF records, AppendTorn, RecoverMemoryTail

LEMMA MoveKind ==
    ASSUME IInv, NEW p \in Programs, Quietly \/ Outruns(p),
           \A c \in Conns : target'[c] = None => target[c] = None,
           \/ Done(p)
           \/ \E to \in Counter \ {"prepare", "rotate"} : Goto(p, to) /\ ~sending[p]
    PROVE  Kind(p)
<1>1. CASE Done(p)
  <2>1. pc'[p] = "idle" /\ ~sending'[p]
    BY <1>1 DEF Done, IInv, TypeOK
  <2> QED BY <1>1, <2>1, AtEase, DoneSteps DEF Kind
<1>2. ASSUME NEW to \in Counter \ {"prepare", "rotate"}, Goto(p, to), ~sending[p]
      PROVE  Kind(p)
  <2>1. OthersSame(p) /\ pc'[p] = to /\ sending' = sending
    BY <1>2, GotoSteps
  <2> QED BY <1>2, <2>1, AtEase DEF Kind
<1> QED BY <1>1, <1>2

\* A save is an event, or the end of the command.
LEMMA SaveKind ==
    ASSUME IInv, NEW p \in Programs, NEW s \in State, NEW to \in {"turn", "selected"},
           on[p] \notin outrun,
           pc[p] \in Locked, ~sending[p], Save(p, s, to), After(on[p], s),
           s.archive = IF Events(on[p]) = <<>> THEN 0 ELSE Latest(on[p]).archive
    PROVE  Kind(p)
<1>1. /\ UNCHANGED <<target, activation, effects, outrun>>
      /\ on[p] \in Conns /\ target[on[p]] # None
  BY LockedFacts, WindowAssumption DEF Save, SaveAnd
<1>2. CASE /\ AppendMemoryEvent(on[p], s) /\ See(p, s, to)
           /\ saved' = IF s.op = None THEN saved
                       ELSE [saved EXCEPT ![on[p]][s.op.req] = s.op.stage]
  <2>1. OthersSame(p) /\ pc'[p] = to /\ sending' = sending
    BY <1>2, SeeSteps DEF Counter
  <2>2. Diligent(p)'
    BY <2>1, AtEase
  <2>3. Saves(p, s)
    BY <1>1, <1>2 DEF Saves
  <2> QED BY <1>1, <2>1, <2>2, <2>3 DEF Kind
<1>3. CASE AppendTorn(on[p]) /\ ProgramEnds(p) /\ Done(p) /\ UNCHANGED saved
  BY <1>1, <1>3, QuietSteps, MoveKind DEF history
<1>4. CASE Leave(p) /\ UNCHANGED <<log, saved>>
  BY <1>1, <1>4, QuietSteps, MoveKind DEF history, Leave
<1> QED BY <1>2, <1>3, <1>4 DEF Save, SaveAnd

LEMMA DriverSaves ==
    ASSUME IInv, NEW p \in Programs, on[p] \notin outrun,
           NEW s \in State, pc[p] \in Driving, ~view[p].closed,
           ~sending[p], Save(p, s, "turn"), Follows(on[p], view[p], s),
           s.archive = view[p].archive
    PROVE  Kind(p)
<1>1. pc[p] \in Locked /\ Current(p)
  BY DriverFacts DEF Outrun
<1>2. After(on[p], s) /\ s.archive = IF Events(on[p]) = <<>> THEN 0 ELSE Latest(on[p]).archive
  BY <1>1 DEF Current, After
<1> QED BY <1>1, <1>2, SaveKind

LEMMA TurnSaves ==
    ASSUME IInv, NEW p \in Programs, on[p] \notin outrun,
           NEW s \in State, Turn(p), Save(p, s, "turn"),
           Follows(on[p], view[p], s), s.archive = view[p].archive
    PROVE  Kind(p)
BY DriverSaves DEF Turn, Driving

LEMMA PrepareSaves ==
    ASSUME IInv, NEW p \in Programs, on[p] \notin outrun,
           NEW s \in State, pc[p] = "prepare", Save(p, s, "turn"),
           Follows(on[p], view[p], s), s.archive = view[p].archive
    PROVE  Kind(p)
BY PreparingFacts, DriverSaves DEF Driving

-----------------------------------------------------------------------------
(* Which step is of which kind.                                            *)
LEMMA CommandKind ==
    ASSUME IInv, NEW p \in Programs,
           \/ \E w \in Windows : Connect(p, w)
           \/ \E c \in Conns : Command(p, c)
           \/ Maintain(p)
    PROVE  Kind(p)
<1>1. PICK cmd, c, w, r, to : Start(p, cmd, c, w, r, to) /\ to \in {"begin", "reach", "maintain"}
  BY Zenon DEF Connect, Command, Maintain
<1>2. UNCHANGED <<records, history>>
  BY DEF Connect, Command, Maintain
<1>3. /\ pc[p] = "idle" /\ OthersSame(p) /\ pc'[p] = to /\ sending' = sending
      /\ to \notin {"prepare", "rotate"}
  BY <1>1 DEF Start, OthersSame, IInv, TypeOK
<1>4. ~sending'[p]
  BY <1>3 DEF IInv, Able
<1> QED BY <1>2, <1>3, <1>4, AtEase, QuietSteps DEF Kind, records

LEMMA CreateKind ==
    ASSUME IInv, JInv, NEW p \in Programs, Create(p)
    PROVE  Kind(p)
<1>0. pc[p] \in Early \cup Created /\ ~sending[p] /\ on[p] \in Conns /\ at[p] \in Windows
      /\ Exclusive(p)
  <2>1. pc[p] \in Early \cup Created
    BY DEF Create, Begin, PersistRecord, Publish, LockCreated, Early, Created
  <2> QED BY <2>1, EarlyFacts
<1>1. CASE Begin(p) \/ Publish(p) \/ LockCreated(p)
  <2>1. UNCHANGED target
    BY <1>1 DEF Begin, Publish, LockCreated, records
  <2>2. \/ Done(p)
        \/ \E to \in {"persist", "lock", "activate", "turn"} : Goto(p, to)
    BY <1>1 DEF Begin, Publish, LockCreated
  <2>3. CASE Begin(p) \/ Publish(p)
    BY <2>3, QuietSteps, <1>0, <2>1, <2>2, MoveKind DEF Counter, Begin, Publish, records
  <2>4. CASE LockCreated(p)
    <3>1. UNCHANGED <<log, saved, effects>>
      BY <2>4 DEF LockCreated, records
    <3>2. Still
      BY <3>1 DEF Still, Events
    <3>3. pc[p] = "lock" /\ target[on[p]] # None
      BY <2>4, <1>0, WindowAssumption DEF LockCreated, Exclusive, Placed, Counter, Early
    <3>4. Quietly \/ Outruns(p)
      BY <1>0, <2>4, <3>2, <3>3 DEF LockCreated, Quietly, Outruns
    <3> QED BY <1>0, <2>1, <2>2, <3>4, MoveKind DEF Counter
  <2> QED BY <1>1, <2>3, <2>4
<1>2. CASE PersistRecord(p)
  <2>1. PICK c \in Conns : on[p] = c
    BY <1>0
  <2>2. /\ pc[p] = "persist" /\ UNCHANGED history /\ target' = [target EXCEPT ![c] = at[p]]
    BY <1>2, <2>1 DEF PersistRecord
  <2>3. /\ target'[c] # None /\ \A d \in Conns : target'[d] = None => target[d] = None
        /\ target[c] = None
    BY <1>0, <2>1, <2>2, WindowAssumption DEF IInv, TypeOK, Exclusive, Early
  <2>4. CASE AppendMemoryEvent(c, NewState) /\ See(p, NewState, "publish")
    <3>1. OthersSame(p) /\ pc'[p] = "publish" /\ sending' = sending
      BY <2>4, SeeSteps, NewStateTyped DEF Counter
    <3>2. Diligent(p)'
      BY <1>0, <3>1, AtEase
    <3>3. Events(c) = <<>> /\ c \notin outrun /\ UNCHANGED outrun /\ Creating(p)
      BY <2>2, <2>3 DEF JInv, Unborn, Creating, Early, history
    <3>4. Saves(p, NewState)
      BY <2>1, <2>2, <2>3, <2>4, <3>3 DEF Saves, After, NewState, history
    <3> QED BY <2>1, <2>3, <3>1, <3>2, <3>3, <3>4, NewStateTyped DEF Kind
  <2>5. CASE Goto(p, "publish") /\ UNCHANGED log
    BY <1>0, <2>2, <2>3, <2>5, QuietSteps, MoveKind DEF Counter, history
  <2>6. CASE Done(p) /\ (AppendTorn(c) \/ UNCHANGED log)
    BY <2>2, <2>3, <2>6, QuietSteps, MoveKind
  <2> QED BY <1>2, <2>1, <2>4, <2>5, <2>6 DEF PersistRecord
<1> QED BY <1>1, <1>2 DEF Create

\* Steps that only go somewhere.
LEMMA GoKind ==
    ASSUME IInv, NEW p \in Programs,
           \/ Reach(p) \/ MendLock(p) \/ Mend(p) \/ Enter(p) \/ PrepareRefused(p)
           \/ Return(p) \/ Retire(p) \/ Activate(p) \/ ActivateElsewhere(p)
           \/ ActivateCancelled(p) \/ ActivateWait(p) \/ ActivateRecord(p)
           \/ CancelActivation(p)
    PROVE  Kind(p)
<1>1. pc[p] \in Placed /\ ~sending[p] /\ on[p] \in Conns
  <2>1. pc[p] \in {"reach", "mend_lock", "mend", "enter", "prepare", "turn", "retire",
                   "activate", "activated", "selected"}
        /\ (pc[p] = "turn" => ~sending[p])
    BY DEF Reach, MendLock, Mend, Enter, PrepareRefused, Return, Retire, Activate,
           ActivateElsewhere, ActivateCancelled, ActivateWait, ActivateRecord,
           CancelActivation, Activating
  <2>2. pc[p] \in Placed
    BY <2>1 DEF Placed, Counter, Early
  <2> QED BY <2>1, <2>2, PlacedFacts
<1>2. Quietly /\ UNCHANGED target
  BY <1>1, QuietSteps
     DEF Reach, MendLock, Mend, Enter, PrepareRefused, Return, Retire, Activate,
         ActivateElsewhere, ActivateCancelled, ActivateWait, ActivateRecord,
         CancelActivation, records
<1>3. \/ Done(p)
      \/ \E to \in {"mend_lock", "retire", "activate", "enter", "mend", "reach", "admitted",
                    "activated", "turn"} : Goto(p, to)
  <2>1. CASE Reach(p)
    BY <2>1 DEF Reach, ReachActivation, ReachJournal
  <2> QED BY <2>1
          DEF MendLock, Mend, Enter, PrepareRefused, Return, Retire, Activate,
              ActivateElsewhere, ActivateCancelled, ActivateWait, ActivateRecord,
              CancelActivation, Leave
<1> QED BY <1>1, <1>2, <1>3, MoveKind DEF Counter

LEMMA AdmitKind ==
    ASSUME IInv, JInv, NEW p \in Programs, on[p] \notin outrun, Admit(p)
    PROVE  Kind(p)
<1>0. /\ pc[p] = "admitted" /\ pc[p] \in Locked /\ ~sending[p] /\ on[p] \in Conns
      /\ Events(on[p]) # <<>> /\ UNCHANGED <<records, history>> /\ RecordsTyped /\ Able(p)
      /\ pc[p] \in Placed
  <2>1. pc[p] = "admitted" /\ pc[p] \in Locked
    BY DEF Admit, Locked
  <2> QED BY <2>1, LockedFacts, PlacedFacts DEF Admit, Informed
<1>1. Quietly /\ UNCHANGED target
  BY <1>0, QuietSteps DEF records
<1>2. CASE Leave(p)
  BY <1>1, <1>2, MoveKind DEF Leave
<1>3. ASSUME NEW to \in {"prepare", "turn"}, See(p, Latest(on[p]), to),
             to = "prepare" /\ command[p] = "execute" =>
                requestState(on[p], ask[p]).kind = "absent"
      PROVE  Kind(p)
  <2>1. PICK c \in Conns : on[p] = c
    BY <1>0
  <2>2. Latest(c) \in State
    BY <1>0, <2>1, JournalTyped
  <2>3. OthersSame(p) /\ pc'[p] = to /\ UNCHANGED <<command, on, ask, sending>>
    BY <1>3, <2>1, <2>2, SeeSteps DEF Counter
  <2>4. CASE to = "turn"
    BY <1>0, <1>1, <2>3, <2>4, AtEase DEF Kind
  <2>5. CASE to = "prepare"
    <3>1. ASSUME command[p] = "execute" PROVE saved[c][ask[p]] = "absent"
      <4>1. ask[p] \in Requests
        BY <1>0, <3>1 DEF Able
      <4>2. Accounted(c)
        BY <2>1 DEF JInv
      <4>3. historicalState(c, ask[p]).kind = "absent"
        BY <1>3, <2>1, <2>5, <3>1 DEF requestState
      <4>4. About(AllEvents(c), ask[p]) = {}
        BY <1>0, <4>2, <4>3, SearchAbsent DEF Accounted
      <4> QED BY <4>1, <4>2, <4>4 DEF Accounted, KeptOf
    <3>2. Diligent(p)'
      BY <1>0, <2>1, <2>3, <2>5, <3>1 DEF Diligent, history
    <3> QED BY <1>1, <2>3, <3>2 DEF Kind
  <2> QED BY <2>4, <2>5
<1>4. CASE Refused(p) /\ Leave(p)
  BY <1>2, <1>4
<1> QED BY <1>3, <1>4 DEF Admit

LEMMA CheckpointKind ==
    ASSUME IInv, JInv, NEW p \in Programs, on[p] \notin outrun, Checkpoint(p)
    PROVE  Kind(p)
<1>0. /\ pc[p] = "prepare" /\ command[p] = "execute"
      /\ UNCHANGED <<admission, target, activation, history>>
  BY DEF Checkpoint
<1>1. PICK c \in Conns : on[p] = c
  BY <1>0, PreparingFacts
<1> DEFINE s == [view[p] EXCEPT !.archive = Checksum(Events(c))]
<1>2. /\ view[p] \in State /\ ~sending[p] /\ Current(p) /\ Events(c) \in Seq(Event)
      /\ RecordsTyped /\ Whole(c)
  BY <1>0, <1>1, PreparingFacts, LockedFacts DEF JInv, Accounted, Outrun
<1>3. s \in State
  BY <1>2, ChecksumTyped DEF State
<1>4. See(p, s, "rotate") /\ ArchiveSegment(c)
  BY <1>1 DEF Checkpoint
<1>5. s = [Latest(c) EXCEPT !.archive = Checksum(Events(c))]
  BY <1>1, <1>2 DEF Current
<1> HIDE DEF s
<1>6. /\ OthersSame(p) /\ pc'[p] = "rotate" /\ view'[p] = s
      /\ UNCHANGED <<command, on, at, ask, sending>>
  BY <1>3, <1>4, SeeSteps DEF Counter
<1>7. Events(c)' = Events(c) /\ Events(c) \in log'[c].history
  BY <1>2, <1>4, ArchiveExtends
<1>8. /\ view'[p] = [Latest(on[p])' EXCEPT !.archive = Checksum(Events(on[p])')]
      /\ (Events(on[p]) \in log[on[p]].history)'
  BY <1>1, <1>5, <1>6, <1>7 DEF Latest, Events
<1>9. saved[c][ask[p]] = "absent"
  BY <1>0, <1>1 DEF JInv, Diligent
<1>10. Diligent(p)'
  BY <1>0, <1>1, <1>2, <1>6, <1>8, <1>9 DEF Diligent, history, Checksum, Latest
<1> QED BY <1>0, <1>6, <1>10 DEF Kind, history

LEMMA RotateKind ==
    ASSUME IInv, JInv, NEW p \in Programs, on[p] \notin outrun, Rotate(p)
    PROVE  Kind(p)
<1>0. /\ pc[p] = "rotate" /\ UNCHANGED <<admission, target, activation, history>>
      /\ pc[p] \in Locked
  BY DEF Rotate, Locked
<1>1. /\ OthersSame(p) /\ pc'[p] = "prepare"
      /\ UNCHANGED <<command, on, at, ask, view, sending>>
  BY GotoSteps DEF Counter, Rotate
<1>2. ~sending[p]
  BY <1>0, LockedFacts, PlacedFacts
<1>3. Diligent(p)'
  BY <1>0, <1>1, <1>2 DEF JInv, Diligent, history
<1> QED BY <1>0, <1>1, <1>3 DEF Kind, history

LEMMA RunCodeKind ==
    ASSUME IInv, NEW p \in Programs, on[p] \notin outrun, RunCode(p)
    PROVE  Kind(p)
<1>1. /\ UNCHANGED <<records, pc, command, on, at, ask, view>> /\ pc[p] = "turn"
      /\ sending' = [sending EXCEPT ![p] = FALSE]
  BY DEF RunCode
<1>2. OthersSame(p) /\ ~sending'[p]
  BY <1>1 DEF OthersSame, IInv, TypeOK
<1> QED BY <1>1, <1>2, AtEase DEF Kind, RunCode, records

LEMMA SendKind ==
    ASSUME IInv, JInv, NEW p \in Programs, on[p] \notin outrun, Send(p)
    PROVE  Kind(p)
<1> DEFINE s == [view[p] EXCEPT !.op.stage = "sent"]
<1>0. /\ view[p] \in State /\ view[p].op \in Op /\ Turn(p) /\ pc[p] = "turn"
      /\ pc[p] \in Locked /\ ~sending[p]
  BY TurnFacts, OperationTyped DEF Send, Turn
<1>1. [view[p].op EXCEPT !.stage = "sent"] \in Op
  BY <1>0 DEF Op, Stage
<1>2. s = [view[p] EXCEPT !.op = [view[p].op EXCEPT !.stage = "sent"]]
  OBVIOUS
<1>3. /\ s \in State /\ s.op = [view[p].op EXCEPT !.stage = "sent"]
      /\ SameMode(view[p], s) /\ s.archive = view[p].archive
  BY <1>0, <1>1, <1>2, OperationTyped DEF State, SameMode
<1>13. s.op # None /\ s.op.req = view[p].op.req /\ s.op.stage = "sent"
  BY <1>0, <1>1, <1>3, NoneIsNoOp DEF Op
<1> DEFINE T == /\ view' = [view EXCEPT ![p] = s]
                /\ sending' = [sending EXCEPT ![p] = TRUE]
                /\ UNCHANGED <<pc, command, on, at, ask>>
<1>4. /\ UNCHANGED <<target, activation, effects, outrun>>
      /\ \/ /\ AppendMemoryEvent(on[p], s) /\ T
            /\ saved' = IF s.op = None THEN saved
                        ELSE [saved EXCEPT ![on[p]][s.op.req] = s.op.stage]
         \/ AppendTorn(on[p]) /\ Done(p) /\ UNCHANGED saved
         \/ Leave(p) /\ UNCHANGED <<log, saved>>
  BY DEF Send, SaveAnd
<1> HIDE DEF s
<1>5. PICK c \in Conns : on[p] = c
  BY <1>0, LockedFacts
<1>6. Current(p) /\ target[c] # None
  BY <1>0, <1>5, DriverFacts, LockedFacts, WindowAssumption DEF Turn, Driving, Outrun
<1>7. Events(c) # <<>> /\ view[p] = Latest(c)
  BY <1>5, <1>6 DEF Current
<1>8. Follows(c, view[p], s)
  BY <1>0, <1>3, <1>13 DEF Follows, OpFollows, Moves, Turn, Send
<1>9. effects[c][view[p].op.req] = 0
  <2>1. view[p].op.req \in Requests /\ view[p].op # None /\ view[p].op.stage = "prepared"
    BY <1>0 DEF Op, Send
  <2>2. saved[c][view[p].op.req] = "prepared"
    BY <1>5, <1>7, <2>1 DEF JInv, Accounted, Shown
  <2> QED BY <1>5, <2>1, <2>2 DEF JInv, Accounted, Ran
<1>10. CASE /\ AppendMemoryEvent(on[p], s) /\ T
            /\ saved' = IF s.op = None THEN saved
                        ELSE [saved EXCEPT ![on[p]][s.op.req] = s.op.stage]
  <2>1. OthersSame(p) /\ pc'[p] = "turn" /\ view'[p] = s /\ on' = on
    BY <1>0, <1>10 DEF IInv, TypeOK, OthersSame
  <2>2. Diligent(p)'
    BY <1>4, <1>5, <1>9, <1>13, <2>1 DEF Diligent
  <2>3. After(on[p], s) /\ s.archive = Latest(on[p]).archive
    BY <1>3, <1>5, <1>7, <1>8 DEF After
  <2>4. Saves(p, s)
    BY <1>0, <1>4, <1>5, <1>6, <1>7, <1>10, <2>3 DEF Saves
  <2> QED BY <1>3, <1>4, <2>1, <2>2, <2>4 DEF Kind
<1>11. CASE AppendTorn(on[p]) /\ Done(p) /\ UNCHANGED saved
  BY <1>4, <1>5, <1>11, QuietSteps, MoveKind DEF history
<1>12. CASE Leave(p) /\ UNCHANGED <<log, saved>>
  BY <1>4, <1>12, QuietSteps, MoveKind DEF history, Leave
<1> QED BY <1>4, <1>10, <1>11, <1>12

\* A state that differs in its operation, or in its mode.
LEMMA OpChanges ==
    ASSUME NEW s0 \in State, NEW o \in Op, NEW s, s = [s0 EXCEPT !.op = o]
    PROVE  /\ s \in State /\ s.op = o /\ s.op # None /\ SameMode(s0, s)
           /\ s.archive = s0.archive
<1>1. s \in State /\ s.op = o /\ SameMode(s0, s) /\ s.archive = s0.archive
  BY DEF State, SameMode
<1> QED BY <1>1, NoneIsNoOp

LEMMA RequestCloseKind ==
    ASSUME IInv, NEW p \in Programs, on[p] \notin outrun, RequestClose(p)
    PROVE  Kind(p)
<1>0. pc[p] = "prepare" /\ view[p] \in State /\ ~sending[p] /\ ~view[p].closed
  BY PreparingFacts DEF RequestClose
<1>1. CASE Goto(p, "turn") /\ UNCHANGED <<admission, records, history>>
  BY <1>0, <1>1, QuietSteps, MoveKind DEF records, Counter
<1>2. CASE ~view[p].closing /\ Save(p, [view[p] EXCEPT !.closing = TRUE], "turn")
  <2> DEFINE s == [view[p] EXCEPT !.closing = TRUE]
  <2>1. /\ s \in State /\ s.op = view[p].op /\ s.closing /\ ~s.closed
        /\ s.archive = view[p].archive
    BY <1>0 DEF State
  <2>2. Save(p, s, "turn")
    BY <1>2
  <2> HIDE DEF s
  <2>3. Follows(on[p], view[p], s)
    BY <1>0, <1>2, <2>1 DEF Follows
  <2> QED BY <1>0, <2>1, <2>2, <2>3, PrepareSaves
<1> QED BY <1>1, <1>2 DEF RequestClose

LEMMA PrepareRequestKind ==
    ASSUME IInv, JInv, NEW p \in Programs, on[p] \notin outrun, PrepareRequest(p)
    PROVE  Kind(p)
<1>0. /\ pc[p] = "prepare" /\ command[p] = "execute" /\ ask[p] \in Requests
      /\ Preparable(view[p]) /\ view[p] \in State /\ ~view[p].closed
      /\ saved[on[p]][ask[p]] = "absent"
  <2>1. pc[p] = "prepare" /\ command[p] = "execute" /\ Preparable(view[p])
    BY DEF PrepareRequest
  <2>2. ask[p] \in Requests /\ saved[on[p]][ask[p]] = "absent"
    BY <2>1 DEF IInv, Able, Placed, Counter, Early, JInv, Diligent
  <2> QED BY <2>1, <2>2, PreparingFacts
<1>1. ASSUME NEW now \in Starts, Save(p, [view[p] EXCEPT !.op = NewOp(ask[p], now)], "turn")
      PROVE  Kind(p)
  <2> DEFINE o == NewOp(ask[p], now)
             s == [view[p] EXCEPT !.op = o]
  <2>1. now \in Nat /\ now + Duration \in Nat
    BY BudgetAssumption
  <2>2. o \in Op /\ o.req = ask[p] /\ o.stage = "prepared"
    BY <1>0, <2>1 DEF NewOp, NewDurableBudget, Op, Stage, Budget
  <2>3. Save(p, s, "turn")
    BY <1>1
  <2> HIDE DEF o
  <2>4. /\ s \in State /\ s.op = o /\ s.op # None /\ SameMode(view[p], s)
        /\ s.archive = view[p].archive
    BY <1>0, <2>2, OpChanges
  <2> HIDE DEF s
  <2>5. Follows(on[p], view[p], s)
    BY <1>0, <2>2, <2>4 DEF Follows, OpFollows, Prepares, Preparable
  <2> QED BY <1>0, <2>3, <2>4, <2>5, PrepareSaves
<1> QED BY <1>1 DEF PrepareRequest

LEMMA BindKind ==
    ASSUME IInv, NEW p \in Programs, on[p] \notin outrun, Bind(p)
    PROVE  Kind(p)
<1> DEFINE s == [view[p] EXCEPT !.bound = TRUE]
<1>0. Turn(p) /\ view[p] \in State
  BY TurnFacts DEF Bind
<1>1. s \in State /\ s.op = view[p].op /\ SameMode(view[p], s) /\ s.archive = view[p].archive
  BY <1>0 DEF State, SameMode
<1>2. Save(p, s, "turn")
  BY DEF Bind
<1> HIDE DEF s
<1>3. Follows(on[p], view[p], s)
  BY <1>0, <1>1 DEF Follows, OpFollows, Turn
<1> QED BY <1>0, <1>1, <1>2, <1>3, TurnSaves

LEMMA SpendBudgetKind ==
    ASSUME IInv, NEW p \in Programs, on[p] \notin outrun, SpendBudget(p)
    PROVE  Kind(p)
<1>0. Turn(p) /\ view[p] \in State /\ view[p].op \in Op
  BY TurnFacts, OperationTyped DEF SpendBudget
<1>1. ASSUME NEW now \in Times, Save(p, Observed(view[p], now), "turn")
      PROVE  Kind(p)
  <2> DEFINE b == Observe(view[p].op.budget, now)
             o == [view[p].op EXCEPT !.budget = b]
             s == Observed(view[p], now)
  <2>1. b \in Budget
    BY <1>0, BudgetTyped DEF Op
  <2>2. view[p].op.budget.exhausted => b.exhausted
    BY DEF Observe
  <2>3. s = [view[p] EXCEPT !.op = o]
    BY DEF Observed
  <2> HIDE DEF b
  <2>4. /\ o \in Op /\ o.req = view[p].op.req /\ o.stage = view[p].op.stage /\ o.budget = b
    BY <1>0, <2>1 DEF Op
  <2>5. Save(p, s, "turn")
    BY <1>1
  <2> HIDE DEF o, s
  <2>6. /\ s \in State /\ s.op = o /\ s.op # None /\ SameMode(view[p], s)
        /\ s.archive = view[p].archive
    BY <1>0, <2>3, <2>4, OpChanges
  <2>7. Follows(on[p], view[p], s)
    BY <1>0, <2>2, <2>4, <2>6, NoneIsNoOp DEF Follows, OpFollows, SameStage, Turn
  <2> QED BY <1>0, <2>5, <2>6, <2>7, TurnSaves
<1> QED BY <1>1 DEF SpendBudget

LEMMA FinishBudgetKind ==
    ASSUME IInv, NEW p \in Programs, on[p] \notin outrun, FinishBudget(p)
    PROVE  Kind(p)
<1> DEFINE b == [view[p].op.budget EXCEPT !.exhausted = TRUE]
           o == [view[p].op EXCEPT !.budget = b]
           s == [view[p] EXCEPT !.op.budget.exhausted = TRUE]
<1>0. Turn(p) /\ view[p] \in State /\ view[p].op \in Op
  BY TurnFacts, OperationTyped DEF FinishBudget
<1>1. b \in Budget /\ b.exhausted
  BY <1>0 DEF Op, Budget
<1>2. s = [view[p] EXCEPT !.op = o]
  OBVIOUS
<1>3. Save(p, s, "turn")
  BY DEF FinishBudget
<1> HIDE DEF b
<1>4. o \in Op /\ o.req = view[p].op.req /\ o.stage = view[p].op.stage /\ o.budget = b
  BY <1>0, <1>1 DEF Op
<1> HIDE DEF o, s
<1>5. /\ s \in State /\ s.op = o /\ s.op # None /\ SameMode(view[p], s)
      /\ s.archive = view[p].archive
  BY <1>0, <1>2, <1>4, OpChanges
<1>6. Follows(on[p], view[p], s)
  BY <1>0, <1>1, <1>4, <1>5, NoneIsNoOp DEF Follows, OpFollows, SameStage, Turn
<1> QED BY <1>0, <1>3, <1>5, <1>6, TurnSaves

LEMMA SettleKind ==
    ASSUME IInv, NEW p \in Programs, on[p] \notin outrun, Settle(p)
    PROVE  Kind(p)
<1>0. Turn(p) /\ view[p] \in State /\ view[p].op \in Op
  BY TurnFacts, OperationTyped DEF Settle
<1>1. ASSUME NEW st \in {"complete", "cancelled"}, Save(p, [view[p] EXCEPT !.op.stage = st], "turn"),
             \/ view[p].op.stage = "sent" /\ st = "complete"
             \/ view[p].op.stage = "prepared" /\ st = "cancelled" /\ view[p].closing
      PROVE  Kind(p)
  <2> DEFINE o == [view[p].op EXCEPT !.stage = st]
             s == [view[p] EXCEPT !.op.stage = st]
  <2>1. o \in Op /\ o.req = view[p].op.req /\ o.stage = st
    BY <1>0 DEF Op, Stage
  <2>2. s = [view[p] EXCEPT !.op = o]
    OBVIOUS
  <2>3. Save(p, s, "turn")
    BY <1>1
  <2> HIDE DEF o, s
  <2>4. /\ s \in State /\ s.op = o /\ s.op # None /\ SameMode(view[p], s)
        /\ s.archive = view[p].archive
    BY <1>0, <2>1, <2>2, OpChanges
  <2>5. Follows(on[p], view[p], s)
    BY <1>0, <1>1, <2>1, <2>4, NoneIsNoOp DEF Follows, OpFollows, Moves, Turn
  <2> QED BY <1>0, <2>3, <2>4, <2>5, TurnSaves
<1> QED BY <1>1 DEF Settle

LEMMA CloseKind ==
    ASSUME IInv, NEW p \in Programs, on[p] \notin outrun, Close(p)
    PROVE  Kind(p)
<1> DEFINE s == [view[p] EXCEPT !.closing = FALSE, !.closed = TRUE, !.bound = FALSE]
<1>0. Turn(p) /\ view[p] \in State /\ view[p].closing /\ Settled(view[p])
  BY TurnFacts DEF Close
<1>1. s \in State /\ s.op = view[p].op /\ s.closed /\ s.archive = view[p].archive
  BY <1>0 DEF State
<1>2. Save(p, s, "turn")
  BY DEF Close
<1> HIDE DEF s
<1>3. Follows(on[p], view[p], s)
  BY <1>0, <1>1 DEF Follows, Turn
<1> QED BY <1>0, <1>1, <1>2, <1>3, TurnSaves

LEMMA ActivateSaveKind ==
    ASSUME IInv, NEW p \in Programs, on[p] \notin outrun, ActivateObserved(p) \/ ActivateSelect(p)
    PROVE  Kind(p)
<1>1. /\ pc[p] = "activated" /\ Events(on[p]) = <<>>
      /\ Save(p, NewState, "turn") \/ Save(p, NewState, "selected")
  BY DEF ActivateObserved, ActivateSelect, Activating, Missing
<1>2. After(on[p], NewState) /\ NewState.archive = 0
  BY <1>1 DEF After, NewState
<1> QED BY <1>1, <1>2, ActivatedFacts, NewStateTyped, SaveKind

\* A command changes no connection but its own.
Own(p) ==
    /\ OthersSame(p) /\ UNCHANGED <<target, outrun>>
    /\ \A d \in Conns : d # on[p] => UNCHANGED <<log[d], saved[d], effects[d]>>
    /\ on'[p] = on[p] \/ (pc'[p] = "idle" /\ ~sending'[p])

LEMMA OwnSteps ==
    ASSUME IInv, NEW p \in Programs, Drive(p) \/ Activation(p)
    PROVE  Own(p)
<1>0. /\ log \in [Conns -> File] /\ HistoryTyped /\ ProgramsTyped
  BY TypeParts DEF IInv, RecordsTyped
<1>1. Done(p) => OthersSame(p) /\ pc'[p] = "idle" /\ ~sending'[p]
  BY <1>0 DEF Done, OthersSame, ProgramsTyped
<1>2. \A to : Goto(p, to) => OthersSame(p) /\ on' = on
  BY <1>0 DEF Goto, OthersSame, ProgramsTyped
<1>3. \A s, to : See(p, s, to) => OthersSame(p) /\ on' = on
  BY <1>0 DEF See, OthersSame, ProgramsTyped
<1>4. ASSUME NEW s, NEW T, SaveAnd(p, s, T), T => OthersSame(p) /\ on' = on
      PROVE  Own(p)
  <2>1. UNCHANGED <<target, effects, outrun>>
    BY <1>4 DEF SaveAnd
  <2>2. \A d \in Conns : d # on[p] => UNCHANGED <<log[d], saved[d], effects[d]>>
    <3>1. \A d \in Conns : d # on[p] => log'[d] = log[d]
      BY <1>0, <1>4 DEF SaveAnd, AppendMemoryEvent, AppendTorn
    <3>2. \A d \in Conns : d # on[p] => saved'[d] = saved[d]
      BY <1>0, <1>4 DEF SaveAnd, HistoryTyped
    <3> QED BY <2>1, <3>1, <3>2
  <2>3. OthersSame(p) /\ (on'[p] = on[p] \/ (pc'[p] = "idle" /\ ~sending'[p]))
    BY <1>1, <1>4 DEF SaveAnd, Leave
  <2> QED BY <2>1, <2>2, <2>3 DEF Own
<1>5. ASSUME NEW s, NEW to, Save(p, s, to) PROVE Own(p)
  BY <1>3, <1>4, <1>5 DEF Save
<1>6. ASSUME UNCHANGED <<log, target, history>>,
             Done(p) \/ (\E to : Goto(p, to)) \/ (\E s, to : See(p, s, to))
      PROVE  Own(p)
  BY <1>1, <1>2, <1>3, <1>6 DEF Own, history
<1>7. CASE \/ Reach(p) \/ MendLock(p) \/ Enter(p) \/ Admit(p) \/ PrepareRefused(p)
           \/ Return(p) \/ Retire(p)
  BY <1>6, <1>7
     DEF Reach, ReachActivation, ReachJournal, MendLock, Enter, Admit, PrepareRefused, Return,
         Retire, Leave, records
<1>8. CASE \/ Activate(p) \/ ActivateElsewhere(p) \/ ActivateCancelled(p) \/ ActivateWait(p)
           \/ ActivateRecord(p) \/ CancelActivation(p)
  BY <1>6, <1>8
     DEF Activate, ActivateElsewhere, ActivateCancelled, ActivateWait, ActivateRecord,
         CancelActivation, Leave, records
<1>9. CASE Mend(p) \/ Checkpoint(p) \/ Rotate(p)
  <2>1. UNCHANGED <<target, history>>
    BY <1>9 DEF Mend, Checkpoint, Rotate
  <2>2. \A d \in Conns : d # on[p] => log'[d] = log[d]
    BY <1>0, <1>9 DEF Mend, Checkpoint, Rotate, RecoverMemoryTail, ArchiveSegment, ReplaceActive
  <2>3. OthersSame(p) /\ (on'[p] = on[p] \/ (pc'[p] = "idle" /\ ~sending'[p]))
    BY <1>1, <1>2, <1>3, <1>9 DEF Mend, Checkpoint, Rotate
  <2> QED BY <2>1, <2>2, <2>3 DEF Own, history
<1>10. CASE RequestClose(p)
  BY <1>5, <1>6, <1>10 DEF RequestClose, records
<1>11. CASE \/ PrepareRequest(p) \/ Bind(p) \/ SpendBudget(p) \/ FinishBudget(p) \/ Settle(p)
            \/ Close(p) \/ ActivateObserved(p) \/ ActivateSelect(p)
  BY <1>5, <1>11
     DEF PrepareRequest, Bind, SpendBudget, FinishBudget, Settle, Close, ActivateObserved,
         ActivateSelect
<1>12. CASE Send(p)
  <2> DEFINE s == [view[p] EXCEPT !.op.stage = "sent"]
             T == /\ view' = [view EXCEPT ![p] = s]
                  /\ sending' = [sending EXCEPT ![p] = TRUE]
                  /\ UNCHANGED <<pc, command, on, at, ask>>
  <2>1. SaveAnd(p, s, T)
    BY <1>12 DEF Send
  <2>2. T => OthersSame(p) /\ on' = on
    BY <1>0 DEF OthersSame, ProgramsTyped
  <2> HIDE DEF s, T
  <2> QED BY <1>4, <2>1, <2>2
<1>13. CASE RunCode(p)
  <2>1. /\ UNCHANGED <<log, target, saved, outrun, on>>
        /\ \A d \in Conns : d # on[p] => effects'[d] = effects[d]
    BY <1>0, <1>13 DEF RunCode, records, HistoryTyped
  <2>2. OthersSame(p)
    BY <1>0, <1>13 DEF RunCode, OthersSame, ProgramsTyped
  <2> QED BY <2>1, <2>2 DEF Own
<1> QED BY <1>7, <1>8, <1>9, <1>10, <1>11, <1>12, <1>13 DEF Drive, Activation

\* Whatever is done to a connection whose creator was outrun.
LEMMA AstrayKind ==
    ASSUME IInv, NEW p \in Programs, Drive(p) \/ Activation(p), pc[p] \in Locked,
           on[p] \in outrun
    PROVE  Kind(p)
<1>1. Own(p)
  BY OwnSteps
<1>2. target[on[p]] # None
  BY LockedFacts, WindowAssumption
<1>3. Diligent(p)'
  BY <1>1, AtEase DEF Own, Diligent
<1> QED BY <1>1, <1>2, <1>3 DEF Own, Kind, Astray

LEMMA Kinds ==
    ASSUME IInv, JInv, [Next]_vars
    PROVE  UNCHANGED vars \/ \E p \in Programs : Kind(p)
<1>1. ASSUME NEW p \in Programs, Drive(p) PROVE Kind(p)
  <2>1. CASE on[p] \notin outrun
    BY <1>1, <2>1, GoKind, AdmitKind, RequestCloseKind, CheckpointKind, RotateKind,
       PrepareRequestKind, BindKind, SpendBudgetKind, FinishBudgetKind, SendKind, RunCodeKind,
       SettleKind, CloseKind
       DEF Drive
  <2>2. CASE pc[p] \notin Locked
    <3>1. Reach(p) \/ MendLock(p) \/ Enter(p) \/ Retire(p)
      BY <1>1, <2>2
         DEF Drive, Locked, Mend, Admit, RequestClose, PrepareRefused, Checkpoint, Rotate,
             PrepareRequest, Bind, SpendBudget, FinishBudget, Send, RunCode, Settle, Close,
             Return, Turn
    <3> QED BY <3>1, GoKind
  <2> QED BY <1>1, <2>1, <2>2, AstrayKind
<1>2. ASSUME NEW p \in Programs, Activation(p) PROVE Kind(p)
  <2>1. CASE on[p] \notin outrun
    BY <1>2, <2>1, GoKind, ActivateSaveKind DEF Activation
  <2>2. CASE pc[p] \notin Locked
    <3>1. Activate(p)
      BY <1>2, <2>2
         DEF Activation, Locked, ActivateElsewhere, ActivateCancelled, ActivateWait,
             ActivateObserved, ActivateSelect, ActivateRecord, CancelActivation, Activating
    <3> QED BY <3>1, GoKind
  <2> QED BY <1>2, <2>1, <2>2, AstrayKind
<1>3. ASSUME NEW p \in Programs, EndMaintain(p) \/ Crash(p) PROVE Kind(p)
  BY <1>3, QuietSteps, MoveKind DEF EndMaintain, Crash, records
<1> QED BY <1>1, <1>2, <1>3, CommandKind, CreateKind DEF Next

-----------------------------------------------------------------------------
(* The invariant is kept.                                                  *)
LEMMA InitAccounted == Init => JInv
<1> SUFFICES ASSUME Init PROVE JInv OBVIOUS
<1>1. ASSUME NEW c \in Conns PROVE Accounted(c) /\ Unborn(c)
  <2>1. /\ Events(c) = <<>> /\ log[c].history = {} /\ effects[c] = [r \in Requests |-> 0]
        /\ saved[c] = [r \in Requests |-> "absent"]
    BY DEF Init, LogInit, NoFile, Events
  <2>2. AllEvents(c) = {} /\ Segments(c) = {<<>>}
    BY <2>1, NoEvents DEF AllEvents, Segments, EventsOf
  <2>3. Whole(c) /\ Shown(c)
    BY <2>1, <2>2, FS_EmptySet DEF Whole, Shown
  <2>4. ASSUME NEW r \in Requests
        PROVE  KeptOf(c, r) /\ UnderWay(c, r) /\ Cancelled(c, r) /\ Ran(c, r) /\ Halted(c, r)
    <3>1. About(AllEvents(c), r) = {} /\ saved[c][r] = "absent" /\ effects[c][r] = 0
      BY <2>1, <2>2 DEF About
    <3> QED BY <3>1 DEF KeptOf, UnderWay, Cancelled, Ran, Halted
  <2> QED BY <2>1, <2>3, <2>4 DEF Accounted, Unborn, Init
<1>2. ASSUME NEW p \in Programs PROVE Diligent(p)
  BY DEF Init, Diligent
<1> QED BY <1>1, <1>2 DEF JInv

\* The others do not notice what the driver of a connection does to it.
LEMMA DriverAlone ==
    ASSUME IInv, JInv, NEW p \in Programs, NEW c \in Conns, on[p] = c, Kind(p),
           pc[p] \in Locked \/ Creating(p), Unborn(c)',
           c \notin outrun => Accounted(c)', UNCHANGED outrun,
           \A d \in Conns : d # c =>
               UNCHANGED <<Events(d), log[d].history, saved[d], effects[d]>>
    PROVE  JInv'
<1>1. ASSUME NEW d \in Conns PROVE (d \notin outrun => Accounted(d)') /\ Unborn(d)'
  <2>1. CASE d = c
    BY <2>1
  <2>2. CASE d # c
    <3>1. /\ d \notin outrun => Accounted(d)
          /\ Unborn(d) /\ (target'[d] = None => target[d] = None)
      BY DEF JInv, Kind
    <3> QED BY <2>2, <3>1, AccountedSame DEF Unborn
  <2> QED BY <2>1, <2>2
<1>2. ASSUME NEW q \in Programs, q # p PROVE Diligent(q)'
  <2>0. /\ UNCHANGED <<pc[q], command[q], on[q], at[q], ask[q], view[q], sending[q]>>
        /\ Diligent(q) /\ Able(q) /\ Exclusive(q)
    BY <1>2 DEF Kind, OthersSame, JInv, IInv
  <2>1. CASE on[q] = c
    <3>1. pc[q] \notin Locked
      BY <1>2, <2>1, OneDriver
    <3>2. pc[q] \notin {"prepare", "rotate"} /\ ~sending[q]
      BY <2>0, <3>1 DEF Locked, Able
    <3> QED BY <2>0, <3>2 DEF Diligent
  <2>2. CASE on[q] # c /\ on[q] \in Conns
    <3>1. UNCHANGED <<Events(on[q]), log[on[q]].history, saved[on[q]], effects[on[q]]>>
      BY <2>0, <2>2 DEF Events
    <3>2. UNCHANGED <<Latest(on[q]), Checksum(Events(on[q]))>>
      BY <3>1 DEF Latest, Checksum
    <3> QED BY <2>0, <3>1, <3>2 DEF Diligent
  <2>3. CASE on[q] \notin Conns
    <3>1. pc[q] \notin {"prepare", "rotate"} /\ ~sending[q]
      BY <2>0, <2>3 DEF Exclusive, Able, Placed, Counter, Early
    <3> QED BY <2>0, <3>1 DEF Diligent
  <2> QED BY <2>1, <2>2, <2>3
<1>3. Diligent(p)'
  BY DEF Kind
<1> QED BY <1>1, <1>2, <1>3 DEF JInv

\* A step that leaves the journals alone.
LEMMA StillAccounted ==
    ASSUME IInv, JInv, NEW p \in Programs, Kind(p), Quietly \/ Outruns(p)
    PROVE  JInv'
<1>0. /\ Still /\ outrun \subseteq outrun'
      /\ \A c \in Conns : c \in outrun' /\ c \notin outrun => target[c] # None
  BY DEF Quietly, Outruns
<1>1. ASSUME NEW d \in Conns PROVE (d \notin outrun' => Accounted(d)') /\ Unborn(d)'
  <2>1. /\ d \notin outrun => Accounted(d)
        /\ Unborn(d) /\ (target'[d] = None => target[d] = None)
        /\ UNCHANGED <<Events(d), log[d].history, saved[d], effects[d]>>
    BY <1>0 DEF JInv, Kind, Still
  <2> QED BY <1>0, <2>1, AccountedSame DEF Unborn
<1>2. ASSUME NEW q \in Programs, q # p PROVE Diligent(q)'
  <2>0. /\ UNCHANGED <<pc[q], command[q], on[q], at[q], ask[q], view[q], sending[q]>>
        /\ Diligent(q) /\ Able(q) /\ Exclusive(q)
    BY <1>2 DEF Kind, OthersSame, JInv, IInv
  <2>1. CASE on[q] \in Conns
    <3>1. UNCHANGED <<Events(on[q]), log[on[q]].history, saved[on[q]], effects[on[q]]>>
      BY <1>0, <2>0, <2>1 DEF Events, Still
    <3>2. UNCHANGED <<Latest(on[q]), Checksum(Events(on[q]))>>
      BY <3>1 DEF Latest, Checksum
    <3>3. on'[q] \notin outrun' => on[q] \notin outrun
      BY <1>0, <2>0
    <3> QED BY <2>0, <3>1, <3>2, <3>3 DEF Diligent
  <2>2. CASE on[q] \notin Conns
    <3>1. pc[q] \notin {"prepare", "rotate"} /\ ~sending[q]
      BY <2>0, <2>2 DEF Exclusive, Able, Placed, Counter, Early
    <3> QED BY <2>0, <3>1 DEF Diligent
  <2> QED BY <2>1, <2>2
<1>3. Diligent(p)'
  BY DEF Kind
<1> QED BY <1>1, <1>2, <1>3 DEF JInv

\* A step on a connection whose creator was outrun.
LEMMA AstrayAccounted ==
    ASSUME IInv, JInv, NEW p \in Programs, Kind(p), Astray(p)
    PROVE  JInv'
<1>1. ASSUME NEW d \in Conns PROVE (d \notin outrun' => Accounted(d)') /\ Unborn(d)'
  <2>1. (d \notin outrun => Accounted(d)) /\ Unborn(d) /\ UNCHANGED <<target, outrun>>
    BY DEF JInv, Astray
  <2>2. CASE d = on[p]
    BY <2>1, <2>2 DEF Astray, Unborn
  <2>3. CASE d # on[p]
    <3>1. UNCHANGED <<Events(d), log[d].history, saved[d], effects[d]>>
      BY <2>3 DEF Astray, Events
    <3> QED BY <2>1, <3>1, AccountedSame DEF Unborn
  <2> QED BY <2>2, <2>3
<1>2. ASSUME NEW q \in Programs, q # p PROVE Diligent(q)'
  <2>0. /\ UNCHANGED <<pc[q], command[q], on[q], at[q], ask[q], view[q], sending[q]>>
        /\ Diligent(q) /\ Able(q) /\ Exclusive(q) /\ outrun' = outrun /\ on[p] \in outrun
    BY <1>2 DEF Kind, OthersSame, JInv, IInv, Astray
  <2>1. CASE on[q] \in Conns /\ on[q] # on[p]
    <3>1. UNCHANGED <<log[on[q]], saved[on[q]], effects[on[q]]>>
      BY <2>0, <2>1 DEF Astray
    <3>2. UNCHANGED <<Latest(on[q]), Events(on[q]), Checksum(Events(on[q]))>>
      BY <2>0, <3>1 DEF Latest, Checksum, Events
    <3> QED BY <2>0, <3>1, <3>2 DEF Diligent
  <2>2. CASE on[q] = on[p]
    BY <2>0, <2>2 DEF Diligent
  <2>3. CASE on[q] \notin Conns
    <3>1. pc[q] \notin {"prepare", "rotate"} /\ ~sending[q]
      BY <2>0, <2>3 DEF Exclusive, Able, Placed, Counter, Early
    <3> QED BY <2>0, <3>1 DEF Diligent
  <2> QED BY <2>1, <2>2, <2>3
<1>3. Diligent(p)'
  BY DEF Kind
<1> QED BY <1>1, <1>2, <1>3 DEF JInv

LEMMA SavesAccounted ==
    ASSUME IInv, IInv', JInv, NEW p \in Programs, Kind(p), NEW s \in State, Saves(p, s),
           on[p] \notin outrun, UNCHANGED outrun
    PROVE  JInv'
<1>1. PICK c \in Conns : on[p] = c
  BY DEF Saves
<1>2. /\ AppendMemoryEvent(c, s) /\ After(c, s) /\ UNCHANGED effects /\ target'[c] # None
      /\ s.archive = IF Events(c) = <<>> THEN 0 ELSE Latest(c).archive
      /\ saved' = IF s.op = None THEN saved
                  ELSE [saved EXCEPT ![c][s.op.req] = s.op.stage]
      /\ RecordsTyped /\ RecordsTyped' /\ HistoryTyped /\ Accounted(c)
  BY <1>1, TypeParts DEF Saves, IInv, JInv
<1>3. Extends(c, NewEvent(c, s)) /\ NewEvent(c, s).state = s
  BY <1>2, AppendExtends DEF Accounted
<1>4. NewEvent(c, s) \in Event
  BY <1>2, NewEventTyped
<1>5. SavedAs(c, s) /\ \A d \in Conns : d # c => UNCHANGED saved[d]
  BY <1>2 DEF SavedAs, HistoryTyped
<1>6. Accounted(c)'
  BY <1>2, <1>3, <1>4, <1>5, AccountedExtended
<1>7. \A d \in Conns : d # c => log'[d] = log[d]
  BY <1>2, AppendSteps
<1>8. Unborn(c)'
  BY <1>2 DEF Unborn
<1> QED BY <1>1, <1>2, <1>5, <1>6, <1>7, <1>8, DriverAlone DEF Saves, Events

LEMMA CheckpointAccounted ==
    ASSUME IInv, JInv, NEW p \in Programs, Kind(p), Checkpoint(p), on[p] \notin outrun
    PROVE  JInv'
<1>0. pc[p] = "prepare" /\ UNCHANGED <<target, history>>
  BY DEF Checkpoint
<1>1. PICK c \in Conns : on[p] = c
  BY <1>0, PreparingFacts
<1>2. /\ ArchiveSegment(c) /\ RecordsTyped /\ pc[p] \in Locked
      /\ Accounted(c) /\ Unborn(c)
  BY <1>0, <1>1, PreparingFacts, LockedFacts DEF JInv, Checkpoint
<1>3. /\ Whole(c)' /\ AllEvents(c)' = AllEvents(c) /\ Events(c)' = Events(c)
      /\ Latest(c)' = Latest(c)
  BY <1>2, ArchiveExtends DEF Accounted, Latest
<1>4. Shown(c)' /\ Unborn(c)'
  BY <1>0, <1>2, <1>3 DEF Accounted, Shown, history, Unborn
<1>5. ASSUME NEW r \in Requests
      PROVE  (KeptOf(c, r) /\ UnderWay(c, r) /\ Cancelled(c, r) /\ Ran(c, r) /\ Halted(c, r))'
  <2>1. KeptOf(c, r) /\ UnderWay(c, r) /\ Cancelled(c, r) /\ Ran(c, r) /\ Halted(c, r)
    BY <1>2 DEF Accounted
  <2>2. UNCHANGED <<saved, effects>>
    BY <1>0 DEF history
  <2>3. KeptOf(c, r)' /\ Halted(c, r)'
    BY <1>3, <2>1, <2>2 DEF KeptOf, Halted
  <2>4. (UnderWay(c, r) /\ Cancelled(c, r) /\ Ran(c, r))'
    BY <1>3, <2>1, <2>2 DEF UnderWay, Cancelled, Ran
  <2> QED BY <2>3, <2>4
<1>6. Accounted(c)'
  BY <1>3, <1>4, <1>5 DEF Accounted
<1>7. \A d \in Conns : d # c => log'[d] = log[d]
  BY <1>2 DEF ArchiveSegment, RecordsTyped
<1> QED BY <1>0, <1>1, <1>2, <1>4, <1>6, <1>7, DriverAlone DEF history, Events

LEMMA RotateAccounted ==
    ASSUME IInv, IInv', JInv, NEW p \in Programs, Kind(p), Rotate(p), on[p] \notin outrun
    PROVE  JInv'
<1>0. /\ pc[p] = "rotate" /\ pc[p] \in Locked /\ UNCHANGED <<target, history>>
      /\ RecordsTyped /\ RecordsTyped' /\ HistoryTyped
  <2>1. pc[p] = "rotate" /\ pc[p] \in Locked /\ UNCHANGED <<target, history>>
    BY DEF Rotate, Locked
  <2> QED BY <2>1, LockedFacts, TypeParts DEF IInv
<1>1. PICK c \in Conns : on[p] = c
  BY <1>0, LockedFacts
<1>2. PICK s \in State : view[p] = s
  BY <1>0, LockedFacts DEF Informed
<1>3. /\ ReplaceActive(c, s) /\ Events(c) # <<>> /\ ~Latest(c).closed /\ Accounted(c)
      /\ Events(c) \in log[c].history /\ s = [Latest(c) EXCEPT !.archive = Checksum(Events(c))]
  BY <1>0, <1>1, <1>2, LockedFacts DEF Rotate, Informed, JInv, Diligent
<1>4. Latest(c) \in State
  BY <1>0, <1>3, JournalTyped
<1>5. /\ s.archive = Checksum(Events(c)) /\ s.op = Latest(c).op /\ SameMode(Latest(c), s)
  BY <1>3, <1>4 DEF State, SameMode
<1>6. Extends(c, NewEvent(c, s)) /\ NewEvent(c, s).state = s
  BY <1>0, <1>3, <1>5, ReplaceExtends DEF Accounted
<1>7. NewEvent(c, s) \in Event
  BY <1>0, NewEventTyped
<1>8. After(c, s)
  BY <1>3, <1>5 DEF After, Follows, OpFollows
<1>9. SavedAs(c, s)
  <2>1. saved' = saved /\ saved[c] \in [Requests -> Stage \cup {"absent"}]
    BY <1>0 DEF history, HistoryTyped
  <2>2. s.op # None => saved[c][s.op.req] = s.op.stage
    BY <1>3, <1>5 DEF Accounted, Shown
  <2> QED BY <2>1, <2>2 DEF SavedAs
<1>10. Accounted(c)'
  BY <1>0, <1>3, <1>6, <1>7, <1>8, <1>9, AccountedExtended DEF history
<1>11. \A d \in Conns : d # c => log'[d] = log[d]
  BY <1>0, <1>3 DEF ReplaceActive, RecordsTyped
<1>12. Unborn(c)'
  BY <1>0, <1>1, LockedFacts, WindowAssumption DEF Unborn
<1> QED BY <1>0, <1>1, <1>10, <1>11, <1>12, DriverAlone DEF history, Events

\* The code of a request runs once.
LEMMA RunFacts ==
    ASSUME IInv, JInv, NEW p \in Programs, RunCode(p), NEW c \in Conns, on[p] = c,
           c \notin outrun
    PROVE  /\ view[p].op.req \in Requests /\ saved[c][view[p].op.req] = "sent"
           /\ effects[c][view[p].op.req] = 0
           /\ effects' = [effects EXCEPT ![c][view[p].op.req] = 1]
           /\ pc[p] \in Locked
<1>1. /\ pc[p] = "turn" /\ sending[p] /\ pc[p] \in Locked /\ pc[p] \in Driving
      /\ effects' = [effects EXCEPT ![c][view[p].op.req] = @ + 1]
  BY DEF RunCode, Locked, Driving
<1>2. /\ view[p].op \in Op /\ Current(p) /\ view[p].op.stage = "sent"
      /\ effects[c][view[p].op.req] = 0
  BY <1>1 DEF IInv, Able, Informed, Knows, Outrun, JInv, Diligent
<1>3. view[p].op.req \in Requests /\ view[p].op # None
  BY <1>2, NoneIsNoOp DEF Op
<1>4. saved[c][view[p].op.req] = "sent"
  BY <1>2, <1>3 DEF Current, JInv, Accounted, Shown
<1>5. effects' = [effects EXCEPT ![c][view[p].op.req] = 1]
  BY <1>1, <1>2
<1> QED BY <1>1, <1>2, <1>3, <1>4, <1>5

LEMMA RunCodeAccounted ==
    ASSUME IInv, JInv, NEW p \in Programs, Kind(p), RunCode(p), on[p] \notin outrun
    PROVE  JInv'
<1>0. UNCHANGED <<records, saved, outrun>> /\ pc[p] \in Locked
  BY DEF RunCode, Locked
<1>1. PICK c \in Conns : on[p] = c
  BY <1>0, LockedFacts
<1> DEFINE k == view[p].op.req
<1>2. /\ k \in Requests /\ saved[c][k] = "sent" /\ effects[c][k] = 0
      /\ effects' = [effects EXCEPT ![c][k] = 1] /\ HistoryTyped /\ Accounted(c) /\ Unborn(c)
  BY <1>0, <1>1, RunFacts, LockedFacts DEF JInv
<1> HIDE DEF k
<1>3. /\ \A d \in Conns : d # c => effects'[d] = effects[d]
      /\ \A r \in Requests : effects'[c][r] = IF r = k THEN 1 ELSE effects[c][r]
  BY <1>2 DEF HistoryTyped
<1>4. /\ Segments(c)' = Segments(c) /\ AllEvents(c)' = AllEvents(c)
      /\ Latest(c)' = Latest(c) /\ Events(c)' = Events(c) /\ UNCHANGED <<log, saved, target>>
  BY <1>0 DEF records, Segments, AllEvents, EventsOf, Latest, Events
<1>5. \A g : Linked(c, g)' <=> Linked(c, g)
  BY <1>4 DEF Linked, Archived
<1>6. Whole(c)' /\ Shown(c)' /\ Unborn(c)'
  BY <1>0, <1>2, <1>4, <1>5 DEF Accounted, Whole, Shown, Unborn, Numbered, Base, Checksum
<1>7. ASSUME NEW r \in Requests
      PROVE  (KeptOf(c, r) /\ UnderWay(c, r) /\ Cancelled(c, r) /\ Ran(c, r) /\ Halted(c, r))'
  <2>1. KeptOf(c, r) /\ UnderWay(c, r) /\ Cancelled(c, r) /\ Ran(c, r) /\ Halted(c, r)
    BY <1>2 DEF Accounted
  <2>2. KeptOf(c, r)' /\ Halted(c, r)'
    BY <1>4, <2>1 DEF KeptOf, Halted
  <2>3. (UnderWay(c, r) /\ Cancelled(c, r))'
    BY <1>4, <2>1 DEF UnderWay, Cancelled
  <2>4. Ran(c, r)'
    BY <1>2, <1>3, <1>4, <2>1 DEF Ran
  <2> QED BY <2>2, <2>3, <2>4
<1>8. Accounted(c)'
  BY <1>6, <1>7 DEF Accounted
<1> QED BY <1>0, <1>1, <1>3, <1>4, <1>6, <1>8, DriverAlone DEF Events

LEMMA KindKeeps ==
    ASSUME IInv, IInv', JInv, NEW p \in Programs, Kind(p)
    PROVE  JInv'
<1>1. ASSUME NEW s \in State, Saves(p, s), on[p] \notin outrun, UNCHANGED outrun PROVE JInv'
  BY <1>1, SavesAccounted
<1> QED BY <1>1, StillAccounted, AstrayAccounted, CheckpointAccounted, RotateAccounted,
           RunCodeAccounted
        DEF Kind

LEMMA StepAccounted == IInv /\ IInv' /\ JInv /\ [Next]_vars => JInv'
<1> SUFFICES ASSUME IInv, IInv', JInv, [Next]_vars PROVE JInv' OBVIOUS
<1>1. CASE UNCHANGED vars
  <2>1. UNCHANGED <<records, programs, history>>
    BY <1>1 DEF vars
  <2>2. UNCHANGED <<log, target, saved, effects, outrun>>
    BY <2>1 DEF records, history
  <2>3. ASSUME NEW d \in Conns PROVE (d \notin outrun => Accounted(d)') /\ Unborn(d)'
    <3>1. (d \notin outrun => Accounted(d)) /\ Unborn(d)
      BY DEF JInv
    <3> QED BY <2>2, <3>1, AccountedSame DEF Unborn, Events
  <2>4. ASSUME NEW q \in Programs PROVE Diligent(q)'
    <3>1. Diligent(q)
      BY DEF JInv
    <3> QED BY <2>1, <2>2, <3>1 DEF programs, Diligent, Latest, Events, Checksum
  <2> QED BY <2>2, <2>3, <2>4 DEF JInv
<1>2. ASSUME NEW p \in Programs, Kind(p) PROVE JInv'
  BY <1>2, KindKeeps
<1> QED BY <1>1, <1>2, Kinds

LEMMA AccountsInvariance == Spec => [](IInv /\ JInv)
<1>1. IInv /\ JInv /\ [Next]_vars => (IInv /\ JInv)'
  BY StepKeeps, StepAccounted
<1>2. Init => IInv /\ JInv
  BY InitInv, InitAccounted
<1> QED BY <1>1, <1>2, PTL DEF Spec

(* What a search finds of a request is what was last saved of it: no       *)
(* repair, checkpoint or crash loses an event of a connection whose        *)
(* creator was not outrun.                                                 *)
THEOREM NothingIsForgotten == Spec => []NothingForgotten
<1>1. IInv /\ JInv => NothingForgotten
  <2> SUFFICES ASSUME IInv, JInv, NEW c \in Conns, c \notin outrun
               PROVE  ~Broken(c) /\ \A r \in Requests : Recorded(c, r) = saved[c][r]
    BY DEF NothingForgotten
  <2>1. RecordsTyped /\ Accounted(c)
    BY TypeParts DEF IInv, JInv
  <2> QED BY <2>1, Recollection
<1> QED BY <1>1, AccountsInvariance, PTL

(* The code of a request never runs after a save in which its goal was     *)
(* stopped, on a connection whose creator was not outrun.                  *)
THEOREM StoppedGoalsStay == Spec => StoppedStaysStopped
<1>1. IInv /\ JInv /\ [Next]_vars =>
        [\A c \in Conns \ outrun, r \in Requests :
            effects'[c][r] # effects[c][r] => ~Stopped(c, r)]_vars
  <2> SUFFICES ASSUME IInv, JInv, [Next]_vars, NEW c \in Conns, c \notin outrun,
                      NEW r \in Requests, effects'[c][r] # effects[c][r], Stopped(c, r)
               PROVE  FALSE
    OBVIOUS
  <2>1. /\ RecordsTyped /\ HistoryTyped /\ Accounted(c)
    BY TypeParts DEF IInv, JInv
  <2>2. saved[c][r] \in {"prepared", "cancelled"}
    <3>1. \E e \in About(AllEvents(c), r) : Expired(e)
      BY <2>1, ChainWhole DEF Stopped, Recalled, Accounted, Expired
    <3> QED BY <2>1, <3>1 DEF Accounted, Halted
  <2>3. PICK p \in Programs : RunCode(p) /\ on[p] \notin outrun
    <3>1. ~UNCHANGED vars
      BY DEF vars, history
    <3>2. PICK p \in Programs : Kind(p)
      BY <3>1, Kinds
    <3>3. ~Still /\ ~Astray(p)
      BY DEF Still, Astray
    <3> QED BY <3>2, <3>3 DEF Kind, Quietly, Outruns, Checkpoint, Rotate, Saves, history
  <2>4. pc[p] \in Locked
    BY <2>3 DEF RunCode, Locked
  <2>5. PICK d \in Conns : on[p] = d
    BY <2>4, LockedFacts
  <2>6. /\ saved[d][view[p].op.req] = "sent" /\ view[p].op.req \in Requests
        /\ effects' = [effects EXCEPT ![d][view[p].op.req] = 1]
    BY <2>3, <2>5, RunFacts
  <2>7. d = c /\ r = view[p].op.req
    BY <2>1, <2>6 DEF HistoryTyped
  <2> QED BY <2>2, <2>6, <2>7
<1> QED BY <1>1, AccountsInvariance, PTL DEF Spec, StoppedStaysStopped

(* The code of a request runs at most once, and never if the request was   *)
(* cancelled, however many programs are asked for it and wherever they     *)
(* end, on a connection whose creator was not outrun.                      *)
RunsAtMostOnce ==
    \A c \in Conns \ outrun, r \in Requests :
        effects[c][r] <= 1 /\ (saved[c][r] = "cancelled" => effects[c][r] = 0)

THEOREM RequestsRunOnce == Spec => []RunsAtMostOnce
<1>1. IInv /\ JInv => RunsAtMostOnce
  BY DEF JInv, Accounted, Ran, RunsAtMostOnce
<1> QED BY <1>1, AccountsInvariance, PTL

-----------------------------------------------------------------------------
(* Every step is a step of the ledger.                                     *)
Phases == [c \in Conns |-> Phase(c)]

LedgerStep == Ledger!Next \/ UNCHANGED <<saved, Phases, effects, outrun>>

LEMMA PhaseSteps ==
    ASSUME NEW c \in Conns, \A d \in Conns : d # c => UNCHANGED Events(d)
    PROVE  /\ Phases' = [Phases EXCEPT ![c] = Phase(c)'] /\ Phases[c] = Phase(c)
           /\ Phase(c)' = Phase(c) => Phases' = Phases
<1>1. \A d \in Conns : d # c => Phase(d)' = Phase(d)
  BY DEF Phase, Latest
<1> QED BY <1>1 DEF Phases

LEMMA LedgerMoves ==
    ASSUME NEW c \in Conns, NEW r \in Requests
    PROVE  /\ \A from, to \in {"new", "open", "closing", "closed"} :
                Phases[c] = from /\ Phases' = [Phases EXCEPT ![c] = to]
                /\ UNCHANGED <<saved, effects, outrun>> => Ledger!Turn(c, from, to)
           /\ \A from, to :
                saved[c][r] = from /\ saved' = [saved EXCEPT ![c][r] = to]
                /\ UNCHANGED <<Phases, effects, outrun>> => Ledger!Set(c, r, from, to)
BY DEF Ledger!Turn, Ledger!Set, Phases

\* What is under way is in the state.
LEMMA NothingElse ==
    ASSUME HistoryTyped, NEW c \in Conns, Accounted(c), Events(c) # <<>>,
           Settled(Latest(c)), NEW r \in Requests
    PROVE  /\ saved[c][r] \in {"absent", "complete", "cancelled"}
           /\ ~Latest(c).closing /\ ~Latest(c).closed => saved[c][r] \in {"absent", "complete"}
<1>1. saved[c][r] \in Stage \cup {"absent"}
  BY DEF HistoryTyped
<1>2. UnderWay(c, r) /\ Cancelled(c, r) /\ Shown(c)
  BY DEF Accounted
<1>3. saved[c][r] \notin {"prepared", "sent"}
  BY <1>2 DEF UnderWay, Shown, Settled
<1> QED BY <1>1, <1>2, <1>3 DEF Cancelled, Stage

LEMMA SavesLedger ==
    ASSUME IInv, IInv', JInv, NEW p \in Programs, NEW s \in State, Saves(p, s),
           on[p] \notin outrun, UNCHANGED outrun
    PROVE  LedgerStep
<1>1. PICK c \in Conns : on[p] = c
  BY DEF Saves
<1>2. /\ AppendMemoryEvent(c, s) /\ After(c, s) /\ UNCHANGED effects
      /\ saved' = IF s.op = None THEN saved
                  ELSE [saved EXCEPT ![c][s.op.req] = s.op.stage]
      /\ RecordsTyped /\ HistoryTyped /\ Accounted(c)
  BY <1>1, TypeParts DEF Saves, IInv, JInv
<1>3. /\ \A d \in Conns : d # c => log'[d] = log[d]
      /\ Events(c)' # <<>> /\ Latest(c)' = s
  BY <1>2, AppendSteps
<1>4. /\ Phases' = [Phases EXCEPT ![c] = Phase(c)'] /\ Phases[c] = Phase(c)
      /\ Phase(c)' = Phase(c) => Phases' = Phases
  BY <1>3, PhaseSteps DEF Events
<1>5. Phase(c)' = IF s.closed THEN "closed" ELSE IF s.closing THEN "closing" ELSE "open"
  BY <1>3 DEF Phase
<1>6. CASE Events(c) = <<>>
  <2>1. Phases[c] = "new" /\ Phases' = [Phases EXCEPT ![c] = "open"] /\ UNCHANGED <<saved, effects, outrun>>
    BY <1>2, <1>4, <1>5, <1>6 DEF Phase, After
  <2>2. Ledger!Turn(c, "new", "open")
    BY <2>1 DEF Ledger!Turn, Phases
  <2> QED BY <2>2 DEF LedgerStep, Ledger!Next
<1>7. CASE Events(c) # <<>>
  <2> DEFINE s0 == Latest(c)
  <2>1. /\ s0 \in State /\ Follows(c, s0, s) /\ ~s0.closed
        /\ Phases[c] = IF s0.closing THEN "closing" ELSE "open"
    BY <1>2, <1>4, <1>7, JournalTyped DEF After, Phase, Follows
  <2>2. /\ saved \in [Conns -> [Requests -> Stage \cup {"absent"}]]
        /\ s0.op # None => saved[c][s0.op.req] = s0.op.stage /\ s0.op.req \in Requests
    BY <1>2, <1>7, <2>1 DEF HistoryTyped, Accounted, Shown, State, Op
  <2>3. \A r \in Requests : Settled(s0) => saved[c][r] \in {"absent", "complete", "cancelled"}
    BY <1>2, <1>7, NothingElse
  <2>4. \A r \in Requests : Settled(s0) /\ ~s0.closing => saved[c][r] \in {"absent", "complete"}
    BY <1>2, <1>7, <2>1, NothingElse
  <2> HIDE DEF s0
  <2>5. s.op = s0.op \/ SameStage(s0, s) => saved' = saved
    <3>1. ASSUME s.op # None, s.op.req = s0.op.req, s.op.stage = s0.op.stage, s0.op # None
          PROVE  saved' = saved
      BY <1>2, <2>2, <3>1
    <3> QED BY <1>2, <3>1 DEF SameStage
  <2>6. SameMode(s0, s) => Phases' = Phases
    BY <1>4, <1>5, <2>1 DEF SameMode
  <2>7. CASE SameMode(s0, s) /\ (s.op = s0.op \/ SameStage(s0, s))
    BY <1>2, <2>5, <2>6, <2>7 DEF LedgerStep
  <2>8. CASE SameMode(s0, s) /\ Prepares(c, s0, s)
    <3>1. PICK r \in Requests : s.op.req = r
      BY <2>8 DEF Prepares, State, Op
    <3>2. /\ saved[c][r] = "absent" /\ saved' = [saved EXCEPT ![c][r] = "prepared"]
          /\ UNCHANGED <<Phases, effects, outrun>> /\ Phases[c] = "open" /\ Settled(s0)
      BY <1>2, <2>1, <2>6, <2>8, <3>1 DEF Prepares, Settled
    <3>3. \A q \in Requests : saved[c][q] \in {"absent", "complete"}
      BY <2>4, <2>8, <3>2 DEF Prepares
    <3>4. Ledger!Set(c, r, "absent", "prepared")
      BY <3>2, LedgerMoves
    <3>5. Ledger!Prepare(c, r)
      BY <3>2, <3>3, <3>4 DEF Ledger!Prepare, Phases
    <3> QED BY <3>5 DEF LedgerStep, Ledger!Next
  <2>9. ASSUME SameMode(s0, s), NEW from, NEW to, Moves(s0, s, from, to)
        PROVE  \E r \in Requests : Ledger!Set(c, r, from, to)
    <3>1. PICK r \in Requests : s0.op.req = r
      BY <2>2, <2>9 DEF Moves
    <3>2. /\ saved[c][r] = from /\ saved' = [saved EXCEPT ![c][r] = to]
          /\ UNCHANGED <<Phases, effects, outrun>>
      BY <1>2, <2>2, <2>6, <2>9, <3>1 DEF Moves
    <3> QED BY <3>2, LedgerMoves
  <2>10. CASE SameMode(s0, s) /\ Moves(s0, s, "prepared", "sent") /\ ~s0.closing
    <3>1. PICK r \in Requests : Ledger!Set(c, r, "prepared", "sent")
      BY <2>9, <2>10
    <3>2. Ledger!Send(c, r)
      BY <2>1, <2>10, <3>1 DEF Ledger!Send, Phases
    <3> QED BY <3>2 DEF LedgerStep, Ledger!Next
  <2>11. CASE SameMode(s0, s) /\ Moves(s0, s, "sent", "complete")
    <3>1. PICK r \in Requests : Ledger!Set(c, r, "sent", "complete")
      BY <2>9, <2>11
    <3> QED BY <3>1 DEF LedgerStep, Ledger!Next, Ledger!Complete
  <2>12. CASE SameMode(s0, s) /\ Moves(s0, s, "prepared", "cancelled") /\ s0.closing
    <3>1. PICK r \in Requests : Ledger!Set(c, r, "prepared", "cancelled")
      BY <2>9, <2>12
    <3>2. Ledger!Cancel(c, r)
      BY <2>1, <2>12, <3>1 DEF Ledger!Cancel, Phases
    <3> QED BY <3>2 DEF LedgerStep, Ledger!Next
  <2>13. CASE s.op = s0.op /\ ~s0.closing /\ s.closing /\ ~s.closed
    <3>1. Phases[c] = "open" /\ Phases' = [Phases EXCEPT ![c] = "closing"]
      BY <1>4, <1>5, <2>1, <2>13
    <3>2. Ledger!Turn(c, "open", "closing")
      BY <1>2, <2>5, <2>13, <3>1 DEF Ledger!Turn, Phases
    <3> QED BY <3>2 DEF LedgerStep, Ledger!Next
  <2>14. CASE s.op = s0.op /\ s0.closing /\ s.closed /\ Settled(s0)
    <3>1. Phases[c] = "closing" /\ Phases' = [Phases EXCEPT ![c] = "closed"]
      BY <1>4, <1>5, <2>1, <2>14
    <3>2. Ledger!Turn(c, "closing", "closed")
      BY <1>2, <2>5, <2>14, <3>1 DEF Ledger!Turn, Phases
    <3>3. Ledger!Close(c)
      BY <2>3, <2>14, <3>2 DEF Ledger!Close, Ledger!Finished
    <3> QED BY <3>3 DEF LedgerStep, Ledger!Next
  <2> QED BY <2>1, <2>7, <2>8, <2>10, <2>11, <2>12, <2>13, <2>14 DEF Follows, OpFollows
<1> QED BY <1>6, <1>7

\* A step after which every state shows the same mode.
LEMMA SamePhases ==
    ASSUME UNCHANGED <<saved, effects, outrun>>, \A c \in Conns : Phase(c)' = Phase(c)
    PROVE  LedgerStep
BY DEF LedgerStep, Phases

LEMMA KindLedger ==
    ASSUME IInv, IInv', JInv, JInv', NEW p \in Programs, Kind(p)
    PROVE  LedgerStep
<1>0. ASSUME Still PROVE UNCHANGED <<saved, effects>> /\ \A c \in Conns : Phase(c)' = Phase(c)
  <2>1. \A c \in Conns : Phase(c)' = Phase(c)
    BY <1>0 DEF Still, Phase, Latest
  <2>2. UNCHANGED <<saved, effects>>
    BY <1>0 DEF Still, IInv, TypeOK
  <2> QED BY <2>1, <2>2
<1>1. CASE Quietly
  BY <1>0, <1>1, SamePhases DEF Quietly
<1>6. CASE Outruns(p)
  <2>1. Ledger!Lose(on[p])
    BY <1>0, <1>6 DEF Ledger!Lose, Outruns
  <2> QED BY <1>6, <2>1 DEF LedgerStep, Ledger!Next, Outruns
<1>7. CASE Astray(p)
  <2>1. HistoryTyped' /\ on[p] \in Conns
    BY <1>7, TypeParts DEF IInv, HistoryTyped, Astray
  <2>2. saved' \in [Conns -> [Requests -> Ledger!Stages]]
    BY <2>1 DEF HistoryTyped, Stage, Ledger!Stages, Ledger!Finished
  <2>3. \A d \in Conns \ {on[p]} : UNCHANGED <<saved[d], Phase(d), effects[d]>>
    BY <1>7 DEF Astray, Phase, Latest, Events
  <2>4. Ledger!Stray(on[p])
    BY <1>7, <2>1, <2>2, <2>3 DEF Ledger!Stray, Astray, HistoryTyped
  <2> QED BY <2>1, <2>4 DEF LedgerStep, Ledger!Next
<1>2. CASE Checkpoint(p) /\ on[p] \notin outrun
  <2>1. pc[p] = "prepare" /\ UNCHANGED history
    BY <1>2 DEF Checkpoint
  <2>2. PICK c \in Conns : on[p] = c
    BY <2>1, PreparingFacts
  <2>3. ArchiveSegment(c) /\ RecordsTyped /\ Whole(c)
    BY <1>2, <2>1, <2>2, PreparingFacts, LockedFacts DEF Checkpoint, JInv, Accounted
  <2>4. Events(c)' = Events(c) /\ \A d \in Conns : d # c => log'[d] = log[d]
    BY <2>3, ArchiveExtends DEF ArchiveSegment, RecordsTyped
  <2>5. \A d \in Conns : Events(d)' = Events(d)
    BY <2>4 DEF Events
  <2>6. \A d \in Conns : Phase(d)' = Phase(d)
    BY <2>5 DEF Phase, Latest
  <2> QED BY <2>1, <2>6, SamePhases DEF history
<1>3. CASE Rotate(p) /\ on[p] \notin outrun
  <2>1. pc[p] = "rotate" /\ pc[p] \in Locked /\ UNCHANGED history /\ Goto(p, "prepare")
    BY <1>3 DEF Rotate, Locked
  <2>2. PICK c \in Conns : on[p] = c
    BY <2>1, LockedFacts
  <2>3. /\ Events(c) # <<>> /\ Latest(c) \in State
        /\ view[p] = [Latest(c) EXCEPT !.archive = Checksum(Events(c))]
    BY <1>3, <2>1, <2>2, LockedFacts, JournalTyped DEF Informed, JInv, Diligent
  <2>4. view[p].closed = Latest(c).closed /\ view[p].closing = Latest(c).closing
    BY <2>3 DEF State
  <2>5. pc'[p] = "prepare" /\ UNCHANGED <<on, view>>
    BY <2>1, GotoSteps DEF Counter
  <2>6. Current(p)'
    BY <1>3, <2>1, <2>5 DEF IInv, Informed, Knows, Outrun, Driving, history
  <2>7. (Events(c) # <<>>)' /\ Latest(c)' = view[p]
    BY <2>2, <2>5, <2>6 DEF Current, Events, Latest
  <2>8. Phase(c)' = Phase(c)
    BY <2>3, <2>4, <2>7 DEF Phase
  <2>9. \A d \in Conns : d # c => log'[d] = log[d]
    BY <1>3, <2>2 DEF Rotate, ReplaceActive, IInv, TypeOK
  <2>10. \A d \in Conns : Phase(d)' = Phase(d)
    BY <2>8, <2>9 DEF Phase, Latest, Events
  <2> QED BY <2>1, <2>10, SamePhases DEF history
<1>4. CASE RunCode(p) /\ on[p] \notin outrun
  <2>1. pc[p] \in Locked /\ UNCHANGED <<records, saved, outrun>>
    BY <1>4 DEF RunCode, Locked
  <2>2. PICK c \in Conns : on[p] = c
    BY <2>1, LockedFacts
  <2>3. PICK r \in Requests : view[p].op.req = r
    BY <1>4, <2>2, RunFacts
  <2>4. saved[c][r] = "sent" /\ effects[c][r] = 0 /\ effects' = [effects EXCEPT ![c][r] = 1]
    BY <1>4, <2>2, <2>3, RunFacts
  <2>5. \A d \in Conns : Phase(d)' = Phase(d)
    BY <2>1 DEF records, Phase, Latest, Events
  <2>6. Ledger!Run(c, r)
    BY <2>1, <2>4, <2>5 DEF Ledger!Run
  <2> QED BY <2>6 DEF LedgerStep, Ledger!Next
<1>5. ASSUME NEW s \in State, Saves(p, s), on[p] \notin outrun, UNCHANGED outrun
      PROVE  LedgerStep
  BY <1>5, SavesLedger
<1> QED BY <1>1, <1>2, <1>3, <1>4, <1>5, <1>6, <1>7 DEF Kind

LEMMA LedgerInit == Init => Ledger!Init
<1> SUFFICES ASSUME Init PROVE Ledger!Init OBVIOUS
<1>1. \A c \in Conns : Phase(c) = "new"
  BY DEF Init, LogInit, NoFile, Events, Phase
<1> QED BY <1>1 DEF Init, Ledger!Init

(* The programs keep the ledger of requests: every step of theirs is a     *)
(* step of it, or none; the ledger of a connection is lost when its        *)
(* creator is outrun.                                                      *)
THEOREM LedgerIsKept == Spec => KeepsLedger
<1>1. IInv /\ JInv /\ (IInv /\ JInv)' /\ [Next]_vars => [Ledger!Next]_(Ledger!vars)
  <2> SUFFICES ASSUME IInv, JInv, IInv', JInv', [Next]_vars
               PROVE  Ledger!Next \/ UNCHANGED Ledger!vars
    OBVIOUS
  <2>1. LedgerStep => Ledger!Next \/ UNCHANGED Ledger!vars
    BY DEF LedgerStep, Ledger!vars, Phases
  <2>2. CASE UNCHANGED vars
    <3>1. UNCHANGED <<saved, effects, outrun>> /\ \A c \in Conns : Phase(c)' = Phase(c)
      BY <2>2 DEF vars, records, history, Phase, Latest, Events
    <3> QED BY <2>1, <3>1, SamePhases
  <2>3. ASSUME NEW p \in Programs, Kind(p)
        PROVE  Ledger!Next \/ UNCHANGED Ledger!vars
    BY <2>1, <2>3, KindLedger
  <2> QED BY <2>2, <2>3, Kinds
<1> QED BY <1>1, AccountsInvariance, LedgerInit, PTL DEF Spec, KeepsLedger, Ledger!Spec
=============================================================================
