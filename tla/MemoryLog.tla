------------------------------ MODULE MemoryLog ------------------------------
(***************************************************************************)
(* The journal of a connection: an append-only file of chained events (the *)
(* active segment), which a checkpoint replaces by a single event that     *)
(* names the archived segment before it.  Every event carries the whole    *)
(* state.  The checksum of an event identifies all that precedes it; it is *)
(* represented by the number of events written up to it.                   *)
(*                                                                         *)
(* A program may stop in the middle of an append and leave a partial last  *)
(* line.  Files that are replaced are replaced atomically.                 *)
(***************************************************************************)
EXTENDS Connections, Integers, FiniteSets, Sequences, SequencesExt

CONSTANTS SegmentFull,   \* events from which a checkpoint archives: 256
          LogLimit,      \* events a segment may have: 1024
          MaxSegments    \* segments a search walks through: 1024

ASSUME MemoryLogAssumption ==
    /\ SegmentFull \in Nat \ {0, 1} /\ LogLimit \in Nat /\ SegmentFull < LogLimit
    /\ MaxSegments \in Nat \ {0}

VARIABLE log

NoFile == [active |-> <<>>, torn |-> FALSE, history |-> {}]

LogInit == log = [c \in Conns |-> NoFile]

Events(c) == log[c].active
Torn(c)   == log[c].torn
Missing(c) == Events(c) = <<>> /\ ~Torn(c)
Latest(c) == Last(Events(c)).state

Checksum(segment) == IF segment = <<>> THEN 0 ELSE Last(segment).sum

NewEvent(c, s) == [sum |-> Checksum(Events(c)) + 1, state |-> s]

-----------------------------------------------------------------------------
(* Writing.                                                                *)

AppendMemoryEvent(c, s) ==
    /\ ~Torn(c) /\ Len(Events(c)) < LogLimit
    /\ log' = [log EXCEPT ![c].active = Append(@, NewEvent(c, s))]

\* The program ends inside the write.
AppendTorn(c) ==
    /\ ~Torn(c) /\ Len(Events(c)) < LogLimit
    /\ log' = [log EXCEPT ![c].torn = TRUE]

RecoverMemoryTail(c) ==
    /\ Torn(c) /\ Events(c) # <<>>
    /\ log' = [log EXCEPT ![c].torn = FALSE]

\* CheckpointMemoryLog: archive, then replace.  An archive has the checksum of
\* its last event for a name; one that is there already must be the same.
Archived(c, sum) == {g \in log[c].history : Checksum(g) = sum}

\* Mutation of ArchiveSegment: the old segment is not kept.
ArchiveNothing(c) == ~Torn(c) /\ Events(c) # <<>> /\ UNCHANGED log

ArchiveSegment(c) ==
    /\ ~Torn(c) /\ Events(c) # <<>>
    /\ \A g \in Archived(c, Checksum(Events(c))) : g = Events(c)
    /\ log' = [log EXCEPT ![c].history = @ \cup {Events(c)}]

ReplaceActive(c, s) ==
    log' = [log EXCEPT ![c].active = <<NewEvent(c, s)>>]

-----------------------------------------------------------------------------
(* Reading.                                                                *)

\* A checkpoint leaves the checksum of the segment before it in the state.
Older(c, g) == IF g = <<>> THEN {} ELSE Archived(c, Last(g).state.archive)

Segments(c) == log[c].history \cup {Events(c)}

\* The segments that can be found from the active one.
Chain(c) ==
    {g \in Segments(c) :
        \A found \in SUBSET Segments(c) :
            Events(c) \in found /\ (\A h \in found : Older(c, h) \subseteq found)
                => g \in found}

\* A segment names an older one that is not there.
Broken(c) ==
    \E g \in Chain(c) : g # <<>> /\ Last(g).state.archive # 0 /\ Older(c, g) = {}

\* The newest segments of the chain.
Walked(c) ==
    {g \in Chain(c) :
        Cardinality({h \in Chain(c) : Checksum(g) <= Checksum(h)}) <= MaxSegments}

EventsOf(chain) == UNION {ToSet(g) : g \in chain}

\* The events about a request.
About(events, key) == {e \in events : e.state.op # None /\ e.state.op.req = key}

Newest(events) == CHOOSE e \in events : \A f \in events : f.sum <= e.sum

Answer(kind, s) == [kind |-> kind, state |-> s]

historicalState(c, key) ==
    LET found == About(EventsOf(Walked(c)), key)
    IN  IF Torn(c) THEN Answer("torn", None)
        ELSE IF found # {} THEN Answer("found", Newest(found).state)
        ELSE IF Broken(c) /\ Cardinality(Chain(c)) < MaxSegments THEN Answer("missing", None)
        ELSE IF Broken(c) \/ Cardinality(Chain(c)) > MaxSegments THEN Answer("limit", None)
        ELSE Answer("absent", None)
=============================================================================
