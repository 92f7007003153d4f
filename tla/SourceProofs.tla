---------------------------- MODULE SourceProofs ----------------------------
(* Theorems about SourceResearch, for any number of programs, pins, symbols   *)
(* and brokers, and any sizes: the budget, what is in use, what is closed,     *)
(* who wakes the worker, and who waits for whom.                              *)
EXTENDS SourceResearch, FiniteSetTheorems, TLAPS

-----------------------------------------------------------------------------
(* The inductive invariant.                                                   *)

\* The broker's queue is of no account for these; it comes last but one.
Typed ==
    /\ checkout \in [Pins -> {"none", "partial", "whole"}]
    /\ manifest \in SUBSET Pins
    /\ stored \in SUBSET Files
    /\ litter \in Nat
    /\ holder \in [Items -> Owners \union {None}]
    /\ job \in [Owners -> [step : Steps, item : Items, left : SUBSET (Pins \union Caches),
                           victim : Pins \union {None}, granted : Nat]]
RequestType == [at : Places, pin : Pins \union {None}, todo : SUBSET Symbols,
                symbol : Symbols \union {None}, reuse : BOOLEAN, prune : BOOLEAN,
                late : BOOLEAN, peer : Nat]
BrokerType == [phase : {"off", "up", "leaving"}, gen : Nat,
               at : {"select", "map", "environment", "tree", "analyse", "parting"},
               queue : {broker.queue}, wake : {broker.wake},
               task : Pins \union {None}, asker : Programs \union {None}]
Asked ==
    /\ request \in [Programs -> RequestType]
    /\ broker \in BrokerType
    /\ closed \in Nat /\ crashes \in Nat /\ commands \in Nat

Quiet(o) == job[o].step \in {"done", "failed", "miss"}
Removing(o) == job[o].step \in {"remove", "forget"}
Reserving(o) == job[o].step \in {"evict", "remove", "forget", "reclaim", "write", "verify"}

\* The leases that a job holds, and what it knows of what they protect.
Leased(o) ==
    /\ IF Removing(o)
       THEN /\ job[o].victim \in Pins
            /\ holder[Tree(job[o].victim)] = o
            /\ job[o].item # Tree(job[o].victim)
            /\ kept[o] # job[o].victim
       ELSE job[o].victim = None
    /\ At(o, "read") => job[o].item \in stored \intersect Caches /\ holder[job[o].item] = o
    /\ job[o].item \in Trees /\ ~Quiet(o) =>
           /\ kept[o] = None
           /\ ~At(o, "wait") => holder[job[o].item] = o
    /\ At(o, "verify") => job[o].item \in Trees
    /\ At(o, "write") /\ job[o].item \in Trees => checkout[job[o].item[2]] # "none"

\* What a job was granted is what its file needs, and only while it has the
\* capacity.
Granted(o) ==
    /\ Reserving(o) => holder[Capacity] = o
    /\ job[o].granted # 0 => job[o].step \in {"reclaim", "write"} /\ job[o].item \in Files
    /\ At(o, "reclaim") /\ job[o].item \in Maps =>
           job[o].granted = 0 \/ (job[o].granted = FirstGrant /\ FirstGrant < MapBytes)
    /\ At(o, "reclaim") /\ job[o].item \in Caches => job[o].granted = 0
    /\ At(o, "write") /\ job[o].item \in Files => job[o].granted = Size(job[o].item)

Holds(o, p) == checkout[p] = "whole" /\ p \in manifest /\ holder[Tree(p)] = o
InUse == \A o \in Owners : \A p \in Pins : kept[o] = p => Holds(o, p)

\* Whoever fetches a checkout for pin p has no other.
Fetching(o, p) ==
    /\ p \in Pins /\ kept[o] = None
    /\ At(o, "done") => Holds(o, p)
    /\ ~Over(o) => job[o].item = Tree(p)

Asking(c) ==
    /\ request[c].at \in {"relations", "tree", "analyse", "asking", "good", "bad"}
           => request[c].symbol \in Symbols
    /\ request[c].at \in {"map", "environment", "symbols", "relations", "tree", "analyse",
                          "asking", "good", "bad"}
           => request[c].pin \in Pins
    /\ request[c].at \notin {"map", "environment", "relations", "tree", "pruning"} => Quiet(c)
    /\ Is(c, "tree") => Fetching(c, request[c].pin)

Answering ==
    /\ broker.asker # None =>
           request[broker.asker].at = IF broker.at = "parting" THEN "closing" ELSE "asking"
    /\ broker.phase = "off" => broker.at = "select"
    /\ broker.at \in {"select", "analyse", "parting"} => Over(Broker)
    /\ broker.at = "tree" => Fetching(Broker, broker.task)
    /\ broker.at \in {"map", "environment", "analyse"} =>
           broker.task \in Pins /\ kept[Broker] \in {None, broker.task}
    /\ broker.at = "analyse" => kept[Broker] = broker.task

Within == IsFiniteSet(stored) /\ Used <= Room

\* What a report of retirement has seen the end of is no more.
Ended ==
    /\ closed <= broker.gen
    /\ \A c \in Programs : Is(c, "exit") => request[c].peer <= broker.gen
    /\ ClosedIsGone

Requests == \A c \in Programs : Asking(c)

-----------------------------------------------------------------------------
(* Names of items.                                                            *)
LEMMA Names ==
    /\ Capacity \in Items /\ Capacity \notin Files /\ Capacity \notin Trees
    /\ Items = Files \union Trees \union {Capacity}
    /\ Files = Maps \union Caches /\ Maps \intersect Caches = {}
    /\ Files \intersect Trees = {} /\ SymbolFiles \subseteq Caches
    /\ \A p \in Pins : Map(p) \in Maps /\ Environment(p) \in Caches /\ Tree(p) \in Trees
    /\ \A s \in Symbols : Relations(s) \in SymbolFiles
    /\ \A p : Tree(p)[2] = p
    /\ \A p, q : Tree(p) = Tree(q) => p = q
    /\ \A x \in Trees : x[2] \in Pins /\ x = Tree(x[2])
BY DEF Capacity, Items, Files, Trees, Maps, Caches, SymbolFiles, Map, Environment, Tree,
       Relations

LEMMA NoVictim == \A p \in Pins : Tree(p) # Tree(None)
BY PinsAssumption, Names

LEMMA OwnersFacts == None \notin Owners /\ Broker \in Owners /\ Programs \subseteq Owners
BY OwnersAssumption DEF Owners

\* Giving leases back.
LEMMA ReleasedFacts ==
    ASSUME Typed, NEW o \in Owners, NEW xs
    PROVE  /\ Released(o, xs) \in [Items -> Owners \union {None}]
           /\ \A x \in Items : /\ Released(o, xs)[x] \in {holder[x], None}
                               /\ x \notin xs => Released(o, xs)[x] = holder[x]
                               /\ holder[x] # o => Released(o, xs)[x] = holder[x]
BY DEF Typed, Released

LEMMA TakenFacts ==
    ASSUME Typed, NEW o \in Owners, NEW y \in Items
    PROVE  /\ Taken(o, y) \in [Items -> Owners \union {None}]
           /\ Taken(o, y)[y] = o
           /\ \A x \in Items : x # y => Taken(o, y)[x] = holder[x]
BY DEF Typed, Taken

LEMMA RestFacts ==
    ASSUME NEW s \in {"done", "failed"}
    PROVE  /\ Rest(s).step = s /\ Rest(s).item = Capacity /\ Rest(s).victim = None
           /\ Rest(s).granted = 0 /\ Rest(s).left = {}
BY DEF Rest, Job

-----------------------------------------------------------------------------
(* Types.                                                                     *)
JobType == [step : Steps, item : Items, left : SUBSET (Pins \union Caches),
            victim : Pins \union {None}, granted : Nat]

LEMMA RestTyped == ASSUME NEW s \in {"done", "failed"} PROVE Rest(s) \in JobType
BY Names DEF Rest, Job, JobType, Steps

LEMMA JobTyped ==
    ASSUME NEW s \in {"wait", "room"}, NEW x \in Items PROVE Job(s, x) \in JobType
BY DEF Job, JobType, Steps

LEMMA EndTyped ==
    ASSUME Typed, NEW o \in Owners, NEW s \in {"done", "failed"}, End(o, s)
    PROVE  /\ holder' \in [Items -> Owners \union {None}]
           /\ job' \in [Owners -> JobType]
<1>1. holder' \in [Items -> Owners \union {None}]
  BY ReleasedFacts DEF End
<1>2. job' \in [Owners -> JobType]
  <2>1. job \in [Owners -> JobType]  BY DEF Typed, JobType
  <2>. QED  BY <2>1, RestTyped DEF End
<1>. QED  BY <1>1, <1>2

LEMMA NeedTyped == ASSUME Typed, NEW o \in Owners PROVE Need(o) \in Nat
BY SizesAssumption DEF Need

LEMMA JobUpdates ==
    ASSUME job \in [Owners -> JobType], NEW o \in Owners, NEW s \in Steps,
           NEW l \in SUBSET (Pins \union Caches), NEW v \in Pins \union {None}, NEW g \in Nat
    PROVE  /\ [job EXCEPT ![o].step = s] \in [Owners -> JobType]
           /\ [job EXCEPT ![o].left = l] \in [Owners -> JobType]
           /\ [job EXCEPT ![o].step = s, ![o].left = l] \in [Owners -> JobType]
           /\ [job EXCEPT ![o].step = s, ![o].victim = v] \in [Owners -> JobType]
           /\ [job EXCEPT ![o].step = s, ![o].victim = v, ![o].left = l]
                 \in [Owners -> JobType]
           /\ [job EXCEPT ![o].granted = g, ![o].step = s, ![o].left = l]
                 \in [Owners -> JobType]
BY DEF JobType

LEMMA StoreTyping ==
    ASSUME Typed, NEW o \in Owners, Leased(o), StoreStep(o) \/ GiveUp(o)
    PROVE  Typed'
<1>t. /\ checkout \in [Pins -> {"none", "partial", "whole"}]
      /\ manifest \in SUBSET Pins
      /\ stored \in SUBSET Files
      /\ litter \in Nat
      /\ holder \in [Items -> Owners \union {None}]
      /\ job \in [Owners -> JobType]
  BY DEF Typed, JobType
<1>i. job[o].item \in Items /\ job[o].left \in SUBSET (Pins \union Caches)
      /\ job[o].victim \in Pins \union {None} /\ job[o].granted \in Nat
  BY <1>t DEF JobType
<1>s. {"done", "failed", "wait", "read", "miss", "room", "evict", "remove",
       "forget", "reclaim", "write", "verify"} \subseteq Steps
  BY DEF Steps
<1>r. Reclaimable(o) \in SUBSET (Pins \union Caches)
  BY DEF Reclaimable
<1>g. ASSUME /\ checkout' \in [Pins -> {"none", "partial", "whole"}]
             /\ manifest' \in SUBSET Pins
             /\ stored' \in SUBSET Files
             /\ litter' \in Nat,
             holder' \in [Items -> Owners \union {None}],
             job' \in [Owners -> JobType]
      PROVE  Typed'
  BY <1>g DEF Typed, JobType
<1>e. ASSUME NEW s \in {"done", "failed"}, End(o, s), UNCHANGED <<checkout, manifest, stored, litter>>
      PROVE  Typed'
  BY <1>e, <1>t, <1>g, EndTyped
<1>1. CASE OpenMap(o)
  <2>1. job' \in [Owners -> JobType]  BY <1>1, <1>t, RestTyped DEF OpenMap
  <2>. QED  BY <1>1, <2>1, <1>t, <1>g DEF OpenMap
<1>2. CASE OpenCache(o)
  <2>1. job' \in [Owners -> JobType]  BY <1>2, <1>t, <1>s, JobUpdates DEF OpenCache
  <2>2. holder' \in [Items -> Owners \union {None}]  BY <1>2, <1>i, TakenFacts DEF OpenCache
  <2>. QED  BY <1>2, <2>1, <2>2, <1>t, <1>g DEF OpenCache
<1>3. CASE CloseCache(o)
  <2>1. job' \in [Owners -> JobType]  BY <1>3, <1>t, RestTyped DEF CloseCache
  <2>2. holder' \in [Items -> Owners \union {None}]  BY <1>3, ReleasedFacts DEF CloseCache
  <2>. QED  BY <1>3, <2>1, <2>2, <1>t, <1>g DEF CloseCache
<1>4. CASE Lock(o)
  <2>1. job' \in [Owners -> JobType]
    <3>1. CASE job[o].item \in SymbolFiles
      <4>1. job' = [job EXCEPT ![o].step = "miss"]  BY <1>4, <3>1 DEF Lock
      <4>. QED  BY <4>1, <1>s, <1>t, JobUpdates
    <3>2. CASE job[o].item \notin SymbolFiles
      <4>1. job' = [job EXCEPT ![o].step = "room"]  BY <1>4, <3>2 DEF Lock
      <4>. QED  BY <4>1, <1>s, <1>t, JobUpdates
    <3>. QED  BY <3>1, <3>2
  <2>2. holder' \in [Items -> Owners \union {None}]  BY <1>4, <1>i, TakenFacts DEF Lock
  <2>. QED  BY <1>4, <2>1, <2>2, <1>t, <1>g DEF Lock
<1>5. CASE ReserveFile(o)
  <2>1. job' \in [Owners -> JobType]
    <3>1. job' = [job EXCEPT ![o].step = "reclaim", ![o].left = Reclaimable(o)]
      BY <1>5 DEF ReserveFile
    <3>. QED  BY <3>1, <1>r, <1>s, <1>t, JobUpdates
  <2>2. holder' \in [Items -> Owners \union {None}]
    BY <1>5, TakenFacts, Names DEF ReserveFile
  <2>. QED  BY <1>5, <2>1, <2>2, <1>t, <1>g DEF ReserveFile
<1>6. CASE ReserveTree(o)
  <2>0. manifest' \in SUBSET Pins  BY <1>6, <1>t DEF ReserveTree, Orphans
  <2>1. job' \in [Owners -> JobType]
    <3>1. CASE job[o].item[2] \in manifest
      <4>1. job' = [job EXCEPT ![o].step = "reclaim", ![o].left = Reclaimable(o)]
        BY <1>6, <3>1 DEF ReserveTree
      <4>. QED  BY <4>1, <1>r, <1>s, <1>t, JobUpdates
    <3>2. CASE job[o].item[2] \notin manifest
      <4>1. job' = [job EXCEPT ![o].step = "evict", ![o].left = manifest']
        BY <1>6, <3>2 DEF ReserveTree
      <4>2. manifest' \in SUBSET (Pins \union Caches)  BY <2>0
      <4>. QED  BY <4>1, <4>2, <1>s, <1>t, JobUpdates
    <3>. QED  BY <3>1, <3>2
  <2>2. holder' \in [Items -> Owners \union {None}]
    BY <1>6, TakenFacts, Names DEF ReserveTree
  <2>. QED  BY <1>6, <2>0, <2>1, <2>2, <1>t, <1>g DEF ReserveTree
<1>7. CASE BeginPrune(o)
  <2>0. manifest' \in SUBSET Pins  BY <1>7, <1>t DEF BeginPrune, Orphans
  <2>1. job' \in [Owners -> JobType]
    <3>1. job' = [job EXCEPT ![o].step = "evict", ![o].left = manifest']
      BY <1>7 DEF BeginPrune
    <3>2. manifest' \in SUBSET (Pins \union Caches)  BY <2>0
    <3>. QED  BY <3>1, <3>2, <1>s, <1>t, JobUpdates
  <2>2. holder' \in [Items -> Owners \union {None}]
    BY <1>7, TakenFacts, Names DEF BeginPrune
  <2>. QED  BY <1>7, <2>0, <2>1, <2>2, <1>t, <1>g DEF BeginPrune
<1>8. ASSUME NEW p \in Pins, PassOver(o, p) \/ ForgetStale(o, p) PROVE Typed'
  <2>1. job' \in [Owners -> JobType]
    <3>1. job[o].left \ {p} \in SUBSET (Pins \union Caches)  BY <1>i
    <3>2. job' = [job EXCEPT ![o].left = job[o].left \ {p}]
      BY <1>8, <1>t DEF PassOver, ForgetStale
    <3>. QED  BY <3>1, <3>2, <1>s, <1>t, JobUpdates
  <2>. QED  BY <1>8, <2>1, <1>t, <1>g DEF PassOver, ForgetStale
<1>10. ASSUME NEW p \in Pins, Evict(o, p) PROVE Typed'
  <2>1. job' \in [Owners -> JobType]
    <3>1. job[o].left \ {p} \in SUBSET (Pins \union Caches)  BY <1>i
    <3>2. job' = [job EXCEPT ![o].step = "remove", ![o].victim = p,
                             ![o].left = job[o].left \ {p}]
      BY <1>10, <1>t DEF Evict
    <3>. QED  BY <3>1, <3>2, <1>s, <1>t, JobUpdates
  <2>2. holder' \in [Items -> Owners \union {None}]
    BY <1>10, TakenFacts, Names DEF Evict
  <2>. QED  BY <1>10, <2>1, <2>2, <1>t, <1>g DEF Evict
<1>11. CASE Removed(o)
  <2>1. job' \in [Owners -> JobType]  BY <1>11, <1>s, <1>t, JobUpdates DEF Removed
  <2>. QED  BY <1>11, <2>1, <1>t, <1>g DEF Removed
<1>12. CASE Forget(o)
  <2>1. job' \in [Owners -> JobType]
    <3>1. job' = [job EXCEPT ![o].step = "evict", ![o].victim = None]
      BY <1>12 DEF Forget
    <3>. QED  BY <3>1, <1>s, <1>t, JobUpdates
  <2>2. holder' \in [Items -> Owners \union {None}]  BY <1>12, ReleasedFacts DEF Forget
  <2>. QED  BY <1>12, <2>1, <2>2, <1>t, <1>g DEF Forget
<1>13. CASE Evicted(o)
  <2>1. CASE job[o].item = Capacity
    BY <1>13, <2>1, <1>e DEF Evicted
  <2>2. CASE job[o].item # Capacity /\ TreeUse > Target(o)
    BY <1>13, <2>2, <1>e DEF Evicted
  <2>3. CASE job[o].item # Capacity /\ ~(TreeUse > Target(o))
    <3>1. job' \in [Owners -> JobType]
      <4>1. job' = [job EXCEPT ![o].step = "reclaim", ![o].left = Reclaimable(o)]
        BY <1>13, <2>3 DEF Evicted
      <4>. QED  BY <4>1, <1>r, <1>s, <1>t, JobUpdates
    <3>. QED  BY <1>13, <2>3, <3>1, <1>t, <1>g DEF Evicted
  <2>. QED  BY <2>1, <2>2, <2>3
<1>14. ASSUME NEW x \in Caches, Reclaim(o, x) PROVE Typed'
  <2>1. job' \in [Owners -> JobType]
    <3>1. job[o].left \ {x} \in SUBSET (Pins \union Caches)  BY <1>i
    <3>2. job' = [job EXCEPT ![o].left = job[o].left \ {x}]
      BY <1>14, <1>t DEF Reclaim
    <3>. QED  BY <3>1, <3>2, <1>s, <1>t, JobUpdates
  <2>. QED  BY <1>14, <2>1, <1>t, <1>g DEF Reclaim
<1>15. CASE Refuse(o)
  BY <1>15, <1>e DEF Refuse
<1>16. CASE GrantTree(o)
  <2>1. job' \in [Owners -> JobType] /\ checkout' \in [Pins -> {"none", "partial", "whole"}]
    <3>1. CASE checkout[job[o].item[2]] = "none"
      <4>1. /\ job' = [job EXCEPT ![o].step = "write"]
            /\ checkout' = [checkout EXCEPT ![job[o].item[2]] = "partial"]
        BY <1>16, <3>1 DEF GrantTree
      <4>. QED  BY <4>1, <1>s, <1>t, JobUpdates
    <3>2. CASE checkout[job[o].item[2]] # "none"
      <4>1. job' = [job EXCEPT ![o].step = "verify"] /\ checkout' = checkout
        BY <1>16, <3>2 DEF GrantTree
      <4>. QED  BY <4>1, <1>s, <1>t, JobUpdates
    <3>. QED  BY <3>1, <3>2
  <2>. QED  BY <1>16, <2>1, <1>t, <1>g DEF GrantTree
<1>17. CASE GrantFile(o)
  <2>1. job[o].granted + Need(o) \in Nat  BY <1>i, NeedTyped
  <2>2. job' \in [Owners -> JobType]
    <3>. DEFINE granted == job[o].granted + Need(o)
                step == IF granted < Size(job[o].item) THEN "reclaim" ELSE "write"
    <3>1. job' = [job EXCEPT ![o].granted = granted, ![o].step = step,
                             ![o].left = Reclaimable(o)]
      BY <1>17 DEF GrantFile
    <3>2. step \in Steps  BY <1>s
    <3>. HIDE DEF granted, step
    <3>3. granted \in Nat  BY <2>1 DEF granted
    <3>. QED  BY <3>1, <3>2, <3>3, <1>t, <1>r, JobUpdates
  <2>. QED  BY <1>17, <2>2, <1>t, <1>g DEF GrantFile
<1>18. CASE Publish(o)
  <2>1. holder' \in [Items -> Owners \union {None}] /\ job' \in [Owners -> JobType]
    BY <1>18, EndTyped DEF Publish
  <2>. QED  BY <1>18, <2>1, <1>t, <1>g DEF Publish
<1>19. CASE CheckedOut(o)
  <2>1. job' \in [Owners -> JobType]  BY <1>19, <1>s, <1>t, JobUpdates DEF CheckedOut
  <2>. QED  BY <1>19, <2>1, <1>t, <1>g DEF CheckedOut
<1>20. CASE Verify(o)
  <2>1. job' \in [Owners -> JobType]  BY <1>20, <1>t, RestTyped DEF Verify
  <2>2. holder' \in [Items -> Owners \union {None}]  BY <1>20, ReleasedFacts DEF Verify
  <2>3. job[o].item[2] \in Pins  BY <1>20, Names DEF Verify, Leased
  <2>. QED  BY <1>20, <2>1, <2>2, <2>3, <1>t, <1>g DEF Verify
<1>21. CASE Mismatch(o)
  BY <1>21, <1>e DEF Mismatch
<1>22. CASE GiveUp(o)
  BY <1>22, <1>e DEF GiveUp
<1>. QED
  BY <1>1, <1>2, <1>3, <1>4, <1>5, <1>6, <1>7, <1>8, <1>10, <1>11, <1>12, <1>13, <1>14,
     <1>15, <1>16, <1>17, <1>18, <1>19, <1>20, <1>21, <1>22 DEF StoreStep

-----------------------------------------------------------------------------
(* What an owner does leaves alone what others hold.                          *)
Undisturbed(o, d) ==
    /\ job'[d] = job[d]
    /\ \A x \in Items : holder[x] = d => holder'[x] = d
    /\ \A p \in Pins : holder[Tree(p)] = d =>
           checkout'[p] = checkout[p] /\ (p \in manifest => p \in manifest')
    /\ \A x \in stored : holder[x] = d => x \in stored'

LEMMA OthersUndisturbed ==
    ASSUME Typed, NEW o \in Owners, Leased(o), StoreStep(o) \/ GiveUp(o),
           NEW d \in Owners, d # o
    PROVE  Undisturbed(o, d)
<1>t. /\ checkout \in [Pins -> {"none", "partial", "whole"}]
      /\ holder \in [Items -> Owners \union {None}]
      /\ job \in [Owners -> JobType]
  BY DEF Typed, JobType
<1>n. d # None  BY OwnersFacts
<1>f. UNCHANGED <<checkout, manifest, stored>> /\ job'[d] = job[d]
        /\ (\A x \in Items : holder[x] = d => holder'[x] = d) => Undisturbed(o, d)
  BY DEF Undisturbed
<1>r. \A xs : \A x \in Items : holder[x] = d => Released(o, xs)[x] = d
  BY ReleasedFacts
<1>k. \A y \in Items : Free(y) => \A x \in Items : holder[x] = d => Taken(o, y)[x] = d
  BY <1>n, TakenFacts DEF Free
<1>i. job[o].item \in Items  BY <1>t DEF JobType
<1>c. Capacity \in Items /\ \A p \in Pins : Tree(p) \in Items  BY Names
<1>e. ASSUME NEW s \in {"done", "failed"}, End(o, s), UNCHANGED <<checkout, manifest, stored, litter>>
      PROVE  Undisturbed(o, d)
  BY <1>e, <1>t, <1>f, <1>r DEF End
<1>h. job[o].item \in Trees /\ job[o].step \in {"reclaim", "write", "verify"} =>
        job[o].item = Tree(job[o].item[2]) /\ job[o].item[2] \in Pins
        /\ holder[Tree(job[o].item[2])] = o
  BY Names DEF Leased, Quiet, At
<1>1. CASE OpenMap(o)
  BY <1>1, <1>t, <1>f DEF OpenMap
<1>2. CASE OpenCache(o)
  BY <1>2, <1>t, <1>f, <1>k, <1>i DEF OpenCache
<1>3. CASE CloseCache(o)
  BY <1>3, <1>t, <1>f, <1>r DEF CloseCache
<1>4. CASE Lock(o)
  BY <1>4, <1>t, <1>f, <1>k, <1>i DEF Lock
<1>5. CASE ReserveFile(o)
  BY <1>5, <1>t, <1>f, <1>k, <1>c DEF ReserveFile
<1>6. CASE ReserveTree(o)
  <2>1. job'[d] = job[d] /\ \A x \in Items : holder[x] = d => holder'[x] = d
    BY <1>6, <1>t, <1>k, <1>c DEF ReserveTree
  <2>. QED  BY <1>6, <2>1 DEF ReserveTree, Undisturbed
<1>7. CASE BeginPrune(o)
  <2>1. job'[d] = job[d] /\ \A x \in Items : holder[x] = d => holder'[x] = d
    BY <1>7, <1>t, <1>k, <1>c DEF BeginPrune
  <2>. QED  BY <1>7, <2>1 DEF BeginPrune, Undisturbed
<1>8. ASSUME NEW p \in Pins, PassOver(o, p) PROVE Undisturbed(o, d)
  BY <1>8, <1>t, <1>f DEF PassOver
<1>9. ASSUME NEW p \in Pins, ForgetStale(o, p) PROVE Undisturbed(o, d)
  <2>1. holder[Tree(p)] # d  BY <1>9, <1>n DEF ForgetStale, Free
  <2>2. job'[d] = job[d]  BY <1>9, <1>t DEF ForgetStale
  <2>. QED  BY <1>9, <2>1, <2>2 DEF ForgetStale, Undisturbed
<1>10. ASSUME NEW p \in Pins, Evict(o, p) PROVE Undisturbed(o, d)
  <2>1. holder[Tree(p)] # d  BY <1>10, <1>n DEF Evict, Free
  <2>2. job'[d] = job[d]  BY <1>10, <1>t DEF Evict
  <2>3. \A x \in Items : holder[x] = d => holder'[x] = d  BY <1>10, <1>k, <1>c DEF Evict
  <2>. QED  BY <1>10, <1>t, <2>1, <2>2, <2>3 DEF Evict, Undisturbed
<1>11. CASE Removed(o)
  <2>1. job[o].victim \in Pins /\ holder[Tree(job[o].victim)] = o
    BY <1>11 DEF Removed, Leased, Removing, At
  <2>2. job'[d] = job[d]  BY <1>11, <1>t DEF Removed
  <2>. QED  BY <1>11, <1>t, <2>1, <2>2 DEF Removed, Undisturbed
<1>12. CASE Forget(o)
  <2>1. job[o].victim \in Pins /\ holder[Tree(job[o].victim)] = o
    BY <1>12 DEF Forget, Leased, Removing, At
  <2>2. job'[d] = job[d]  BY <1>12, <1>t DEF Forget
  <2>3. \A x \in Items : holder[x] = d => holder'[x] = d  BY <1>12, <1>r DEF Forget
  <2>. QED  BY <1>12, <2>1, <2>2, <2>3 DEF Forget, Undisturbed
<1>13. CASE Evicted(o)
  <2>1. CASE job[o].item = Capacity
    BY <1>13, <2>1, <1>e DEF Evicted
  <2>2. CASE job[o].item # Capacity /\ TreeUse > Target(o)
    BY <1>13, <2>2, <1>e DEF Evicted
  <2>3. CASE job[o].item # Capacity /\ ~(TreeUse > Target(o))
    BY <1>13, <2>3, <1>t, <1>f DEF Evicted
  <2>. QED  BY <2>1, <2>2, <2>3
<1>14. ASSUME NEW x \in Caches, Reclaim(o, x) PROVE Undisturbed(o, d)
  <2>1. Free(x) => holder[x] # d  BY <1>n DEF Free
  <2>2. job'[d] = job[d]  BY <1>14, <1>t DEF Reclaim
  <2>. QED  BY <1>14, <2>1, <2>2 DEF Reclaim, Undisturbed
<1>15. CASE Refuse(o)
  BY <1>15, <1>e DEF Refuse
<1>16. CASE GrantTree(o)
  <2>1. job'[d] = job[d] /\ UNCHANGED <<manifest, stored, holder>>
    BY <1>16, <1>t DEF GrantTree
  <2>2. \A p \in Pins : holder[Tree(p)] = d => checkout'[p] = checkout[p]
    BY <1>16, <1>t, <1>h DEF GrantTree, At
  <2>. QED  BY <2>1, <2>2 DEF Undisturbed
<1>17. CASE GrantFile(o)
  BY <1>17, <1>t, <1>f DEF GrantFile
<1>18. CASE Publish(o)
  <2>1. job'[d] = job[d] /\ \A x \in Items : holder[x] = d => holder'[x] = d
    BY <1>18, <1>t, <1>r DEF Publish, End
  <2>. QED  BY <1>18, <2>1 DEF Publish, Undisturbed
<1>19. CASE CheckedOut(o)
  <2>1. job'[d] = job[d]  BY <1>19, <1>t DEF CheckedOut
  <2>. QED  BY <1>19, <1>t, <1>h, <2>1 DEF CheckedOut, At, Undisturbed
<1>20. CASE Verify(o)
  <2>1. job'[d] = job[d] /\ \A x \in Items : holder[x] = d => holder'[x] = d
    BY <1>20, <1>t, <1>r DEF Verify
  <2>. QED  BY <1>20, <2>1 DEF Verify, Undisturbed
<1>21. CASE Mismatch(o)
  BY <1>21, <1>e DEF Mismatch
<1>22. CASE GiveUp(o)
  BY <1>22, <1>e DEF GiveUp
<1>. QED
  BY <1>1, <1>2, <1>3, <1>4, <1>5, <1>6, <1>7, <1>8, <1>9, <1>10, <1>11, <1>12, <1>13, <1>14,
     <1>15, <1>16, <1>17, <1>18, <1>19, <1>20, <1>21, <1>22 DEF StoreStep

-----------------------------------------------------------------------------
(* A job keeps its own account.                                               *)
LEMMA AtRest ==
    ASSUME NEW o, NEW s \in {"done", "failed"}, job'[o] = Rest(s)
    PROVE  Leased(o)' /\ Granted(o)'
BY RestFacts, Names DEF Leased, Granted, Removing, Reserving, Quiet, At

LEMMA OwnAccount ==
    ASSUME Typed, NEW o \in Owners, Leased(o), Granted(o), InUse, kept' = kept,
           StoreStep(o) \/ GiveUp(o)
    PROVE  Leased(o)' /\ Granted(o)'
<1>t. /\ checkout \in [Pins -> {"none", "partial", "whole"}]
      /\ holder \in [Items -> Owners \union {None}]
      /\ job \in [Owners -> JobType]
  BY DEF Typed, JobType
<1>i. job[o].item \in Items  BY <1>t DEF JobType
<1>n. o # None  BY OwnersFacts
<1>e. ASSUME NEW s \in {"done", "failed"}, End(o, s) PROVE Leased(o)' /\ Granted(o)'
  BY <1>e, <1>t, AtRest DEF End
<1>k. \A y \in Items : /\ Taken(o, y)[y] = o
                       /\ \A x \in Items : holder[x] = o => Taken(o, y)[x] = o
  BY TakenFacts
<1>c. Capacity \in Items /\ \A p \in Pins : Tree(p) \in Items  BY Names
<1>. USE DEF At, Quiet, Removing, Reserving
<1>1. CASE OpenMap(o)
  BY <1>1, <1>t, AtRest DEF OpenMap
<1>2. CASE OpenCache(o)
  <2>1. /\ job'[o].step = "read" /\ job'[o].item = job[o].item
        /\ job'[o].victim = job[o].victim /\ job'[o].granted = job[o].granted
    BY <1>2, <1>t DEF OpenCache, JobType
  <2>2. job'[o].item \in stored' \intersect Caches /\ holder'[job'[o].item] = o
    BY <1>2, <2>1, <1>i, <1>k DEF OpenCache
  <2>. QED  BY <1>2, <2>1, <2>2, Names DEF OpenCache, Leased, Granted
<1>3. CASE CloseCache(o)
  BY <1>3, <1>t, AtRest DEF CloseCache
<1>4. CASE Lock(o)
  <2>1. /\ job'[o].step \in {"miss", "room"} /\ job'[o].item = job[o].item
        /\ job'[o].victim = job[o].victim /\ job'[o].granted = job[o].granted
    BY <1>4, <1>t DEF Lock, JobType
  <2>2. holder'[job[o].item] = o  BY <1>4, <1>i, <1>k DEF Lock
  <2>. QED  BY <1>4, <2>1, <2>2 DEF Lock, Leased, Granted
<1>5. CASE ReserveFile(o)
  <2>1. /\ job'[o].step = "reclaim" /\ job'[o].item = job[o].item
        /\ job'[o].victim = job[o].victim /\ job'[o].granted = job[o].granted
    BY <1>5, <1>t DEF ReserveFile, JobType
  <2>2. holder'[Capacity] = o  BY <1>5, <1>c, <1>k DEF ReserveFile
  <2>. QED  BY <1>5, <2>1, <2>2, Names DEF ReserveFile, Leased, Granted
<1>6. CASE ReserveTree(o)
  <2>1. /\ job'[o].step \in {"reclaim", "evict"} /\ job'[o].item = job[o].item
        /\ job'[o].victim = job[o].victim /\ job'[o].granted = job[o].granted
    BY <1>6, <1>t DEF ReserveTree, JobType
  <2>2. holder'[Capacity] = o /\ (holder[job[o].item] = o => holder'[job[o].item] = o)
    BY <1>6, <1>i, <1>c, <1>k DEF ReserveTree
  <2>. QED  BY <1>6, <2>1, <2>2, Names DEF ReserveTree, Leased, Granted
<1>7. CASE BeginPrune(o)
  <2>1. /\ job'[o].step = "evict" /\ job'[o].item = Capacity
        /\ job'[o].victim = job[o].victim /\ job'[o].granted = job[o].granted
    BY <1>7, <1>t DEF BeginPrune, JobType
  <2>2. holder'[Capacity] = o  BY <1>7, <1>c, <1>k DEF BeginPrune
  <2>. QED  BY <1>7, <2>1, <2>2, Names DEF BeginPrune, Leased, Granted
<1>8. ASSUME NEW p \in Pins, PassOver(o, p) \/ ForgetStale(o, p)
      PROVE  Leased(o)' /\ Granted(o)'
  <2>1. /\ job'[o].step = "evict" /\ job'[o].item = job[o].item
        /\ job'[o].victim = job[o].victim /\ job'[o].granted = job[o].granted
    BY <1>8, <1>t DEF PassOver, ForgetStale, JobType
  <2>. QED  BY <1>8, <2>1 DEF PassOver, ForgetStale, Leased, Granted
<1>10. ASSUME NEW p \in Pins, Evict(o, p) PROVE Leased(o)' /\ Granted(o)'
  <2>1. /\ job'[o].step = "remove" /\ job'[o].item = job[o].item
        /\ job'[o].victim = p /\ job'[o].granted = job[o].granted
    BY <1>10, <1>t DEF Evict, JobType
  <2>2. /\ holder'[Tree(p)] = o
        /\ holder[job[o].item] = o => holder'[job[o].item] = o
        /\ holder[Capacity] = o => holder'[Capacity] = o
    BY <1>10, <1>i, <1>c, <1>k DEF Evict
  <2>3. job[o].item # Tree(p) /\ kept[o] # p
    BY <1>10, <1>n, Names DEF Evict, Free, Leased, InUse, Holds
  <2>. QED  BY <1>10, <2>1, <2>2, <2>3 DEF Evict, Leased, Granted
<1>11. CASE Removed(o)
  <2>1. /\ job'[o].step = "forget" /\ job'[o].item = job[o].item
        /\ job'[o].victim = job[o].victim /\ job'[o].granted = job[o].granted
    BY <1>11, <1>t DEF Removed, JobType
  <2>. QED  BY <1>11, <2>1 DEF Removed, Leased, Granted
<1>12. CASE Forget(o)
  <2>1. /\ job'[o].step = "evict" /\ job'[o].item = job[o].item
        /\ job'[o].victim = None /\ job'[o].granted = job[o].granted
    BY <1>12, <1>t DEF Forget, JobType
  <2>2. /\ holder'[job[o].item] = holder[job[o].item]
        /\ holder'[Capacity] = holder[Capacity]
    BY <1>12, <1>i, <1>c, ReleasedFacts, Names DEF Forget, Leased
  <2>. QED  BY <1>12, <2>1, <2>2 DEF Forget, Leased, Granted
<1>13. CASE Evicted(o)
  <2>1. CASE job[o].item = Capacity
    BY <1>13, <2>1, <1>e DEF Evicted
  <2>2. CASE job[o].item # Capacity /\ TreeUse > Target(o)
    BY <1>13, <2>2, <1>e DEF Evicted
  <2>3. CASE job[o].item # Capacity /\ ~(TreeUse > Target(o))
    <3>1. /\ job'[o].step = "reclaim" /\ job'[o].item = job[o].item
          /\ job'[o].victim = job[o].victim /\ job'[o].granted = job[o].granted
      BY <1>13, <2>3, <1>t DEF Evicted, JobType
    <3>. QED  BY <1>13, <2>3, <3>1 DEF Evicted, Leased, Granted
  <2>. QED  BY <2>1, <2>2, <2>3
<1>14. ASSUME NEW x \in Caches, Reclaim(o, x) PROVE Leased(o)' /\ Granted(o)'
  <2>1. /\ job'[o].step = "reclaim" /\ job'[o].item = job[o].item
        /\ job'[o].victim = job[o].victim /\ job'[o].granted = job[o].granted
    BY <1>14, <1>t DEF Reclaim, JobType
  <2>. QED  BY <1>14, <2>1 DEF Reclaim, Leased, Granted
<1>15. CASE Refuse(o)
  BY <1>15, <1>e DEF Refuse
<1>16. CASE GrantTree(o)
  <2>1. /\ job'[o].step \in {"write", "verify"} /\ job'[o].item = job[o].item
        /\ job'[o].victim = job[o].victim /\ job'[o].granted = job[o].granted
    BY <1>16, <1>t DEF GrantTree, JobType
  <2>2. job'[o].step = "write" => checkout'[job[o].item[2]] # "none"
    BY <1>16, <1>t, Names DEF GrantTree, JobType
  <2>. QED  BY <1>16, <2>1, <2>2, Names DEF GrantTree, Leased, Granted
<1>17. CASE GrantFile(o)
  <2>. DEFINE g == job[o].granted + Need(o)
  <2>1. /\ job'[o].item = job[o].item /\ job'[o].victim = job[o].victim
        /\ job'[o].granted = g
        /\ job'[o].step = IF g < Size(job[o].item) THEN "reclaim" ELSE "write"
    BY <1>17, <1>t DEF GrantFile, JobType
  <2>2. CASE job[o].item \in Maps
    <3>1. CASE job[o].granted = 0
      <4>1. g = FirstGrant /\ Size(job[o].item) = MapBytes
        BY <2>2, <3>1, Names, SizesAssumption DEF Need, Size
      <4>2. FirstGrant \in Nat /\ MapBytes \in Nat /\ FirstGrant <= MapBytes
        BY SizesAssumption
      <4>. HIDE DEF g
      <4>. QED  BY <1>17, <2>1, <2>2, <4>1, <4>2, Names DEF GrantFile, Leased, Granted
    <3>2. CASE job[o].granted # 0
      <4>1. job[o].granted = FirstGrant /\ g = MapBytes /\ Size(job[o].item) = MapBytes
        BY <1>17, <2>2, <3>2, Names, SizesAssumption DEF GrantFile, Granted, Need, Size
      <4>2. FirstGrant \in Nat /\ MapBytes \in Nat
        BY SizesAssumption
      <4>. HIDE DEF g
      <4>. QED  BY <1>17, <2>1, <2>2, <4>1, <4>2, Names DEF GrantFile, Leased, Granted
    <3>. QED  BY <3>1, <3>2
  <2>3. CASE job[o].item \in Caches
    <3>1. job[o].granted = 0  BY <1>17, <2>3 DEF GrantFile, Granted
    <3>2. g = CacheBytes /\ Size(job[o].item) = CacheBytes
      BY <2>3, <3>1, Names, SizesAssumption DEF Need, Size
    <3>3. CacheBytes \in Nat  BY SizesAssumption
    <3>. HIDE DEF g
    <3>. QED  BY <1>17, <2>1, <2>3, <3>2, <3>3, Names DEF GrantFile, Leased, Granted
  <2>. QED  BY <1>17, <2>2, <2>3, Names DEF GrantFile
<1>18. CASE Publish(o)
  BY <1>18, <1>e DEF Publish
<1>19. CASE CheckedOut(o)
  <2>1. /\ job'[o].step = "verify" /\ job'[o].item = job[o].item
        /\ job'[o].victim = job[o].victim /\ job'[o].granted = job[o].granted
    BY <1>19, <1>t DEF CheckedOut, JobType
  <2>. QED  BY <1>19, <2>1, Names DEF CheckedOut, Leased, Granted
<1>20. CASE Verify(o)
  BY <1>20, <1>t, AtRest DEF Verify
<1>21. CASE Mismatch(o)
  BY <1>21, <1>e DEF Mismatch
<1>22. CASE GiveUp(o)
  BY <1>22, <1>e DEF GiveUp
<1>. QED
  BY <1>1, <1>2, <1>3, <1>4, <1>5, <1>6, <1>7, <1>8, <1>10, <1>11, <1>12, <1>13, <1>14,
     <1>15, <1>16, <1>17, <1>18, <1>19, <1>20, <1>21, <1>22 DEF StoreStep

LEMMA OthersAccount ==
    ASSUME Typed, NEW o \in Owners, NEW d \in Owners, Undisturbed(o, d), kept' = kept,
           Leased(d), Granted(d)
    PROVE  Leased(d)' /\ Granted(d)'
<1>1. job[d].item \in Items  BY DEF Typed
<1>2. Granted(d)'
  BY Names DEF Undisturbed, Granted, Reserving, At
<1>3. IF Removing(d)
      THEN /\ job[d].victim \in Pins /\ holder'[Tree(job[d].victim)] = d
           /\ job[d].item # Tree(job[d].victim) /\ kept[d] # job[d].victim
      ELSE job[d].victim = None
  BY Names DEF Undisturbed, Leased
<1>4. At(d, "write") /\ job[d].item \in Trees => checkout'[job[d].item[2]] # "none"
  BY Names DEF Undisturbed, Leased, Quiet, At
<1>. QED  BY <1>1, <1>2, <1>3, <1>4 DEF Undisturbed, Leased, Removing, Quiet, At

(* What an owner keeps or fetches, through its own steps.                     *)
LEMMA StepsAreBusy ==
    ASSUME NEW o, StoreStep(o) \/ GiveUp(o) PROVE ~Quiet(o) /\ ~Over(o)
BY DEF StoreStep, OpenMap, OpenCache, CloseCache, Lock, ReserveFile, ReserveTree, BeginPrune,
       PassOver, ForgetStale, Evict, Removed, Forget, Evicted, Reclaim, Refuse, GrantTree,
       GrantFile, Publish, CheckedOut, Verify, Mismatch, GiveUp, Stoppable, Quiet, Over, At

LEMMA KeptStays ==
    ASSUME Typed, NEW o \in Owners, Leased(o), NEW p \in Pins, kept[o] = p, Holds(o, p),
           StoreStep(o) \/ GiveUp(o)
    PROVE  Holds(o, p)'
<1>t. /\ checkout \in [Pins -> {"none", "partial", "whole"}]
      /\ holder \in [Items -> Owners \union {None}]
      /\ job \in [Owners -> JobType]
  BY DEF Typed, JobType
<1>n. o # None /\ p # None  BY OwnersFacts, PinsAssumption
<1>p. Tree(p) \in Items /\ Tree(p) # Capacity  BY Names
<1>q. ~Quiet(o)  BY StepsAreBusy
<1>x. job[o].item # Tree(p)  BY <1>n, <1>q, Names DEF Leased
<1>v. job[o].victim # p  BY <1>n, PinsAssumption DEF Leased
<1>f. ASSUME UNCHANGED <<checkout, manifest>>, holder'[Tree(p)] = holder[Tree(p)]
      PROVE  Holds(o, p)'
  BY <1>f DEF Holds
<1>r. \A xs : Tree(p) \notin xs => Released(o, xs)[Tree(p)] = holder[Tree(p)]
  BY <1>p, ReleasedFacts
<1>k. \A y \in Items : Taken(o, y)[Tree(p)] = o
  BY <1>p, TakenFacts DEF Holds
<1>o. Tree(p) \notin Own(o)  BY <1>p, <1>x, <1>v, Names DEF Own
<1>e. ASSUME NEW s \in {"done", "failed"}, End(o, s), UNCHANGED <<checkout, manifest>>
      PROVE  Holds(o, p)'
  BY <1>e, <1>f, <1>o, <1>r DEF End
<1>i. job[o].item \in Items  BY <1>t DEF JobType
<1>c. Capacity \in Items  BY Names
<1>h. holder[Tree(p)] = o  BY DEF Holds
<1>1. CASE OpenMap(o) \/ Removed(o) \/ GrantFile(o) \/ \E x \in Caches : Reclaim(o, x)
  <2>1. CASE Removed(o)
    BY <2>1, <1>t, <1>v DEF Removed, Holds
  <2>. QED  BY <1>1, <2>1, <1>f DEF OpenMap, GrantFile, Reclaim
<1>2. CASE OpenCache(o) \/ Lock(o) \/ ReserveFile(o)
  BY <1>2, <1>f, <1>h, <1>k, <1>i, <1>c DEF OpenCache, Lock, ReserveFile
<1>3. CASE CloseCache(o)
  BY <1>3, <1>f, <1>r, <1>x DEF CloseCache
<1>4. CASE ReserveTree(o)
  BY <1>4, <1>c, <1>k DEF ReserveTree, Holds
<1>5. CASE BeginPrune(o)
  BY <1>5, <1>c, <1>k DEF BeginPrune, Holds
<1>6. ASSUME NEW q \in Pins, PassOver(o, q) \/ ForgetStale(o, q) \/ Evict(o, q)
      PROVE  Holds(o, p)'
  <2>1. CASE PassOver(o, q)  BY <2>1, <1>f DEF PassOver
  <2>2. CASE ForgetStale(o, q)
    BY <2>2, <1>h, <1>n DEF ForgetStale, Free, Holds
  <2>3. CASE Evict(o, q)
    <3>1. q # p /\ Tree(q) \in Items  BY <2>3, <1>h, <1>n, Names DEF Evict, Free
    <3>. QED  BY <2>3, <3>1, <1>t, <1>k DEF Evict, Holds
  <2>. QED  BY <1>6, <2>1, <2>2, <2>3
<1>7. CASE Forget(o)
  <2>1. Tree(p) # Tree(job[o].victim)  BY <1>v, Names
  <2>. QED  BY <1>7, <2>1, <1>r, <1>v DEF Forget, Holds
<1>8. CASE Evicted(o)
  BY <1>8, <1>e, <1>f DEF Evicted
<1>9. CASE Refuse(o) \/ Publish(o) \/ Mismatch(o) \/ GiveUp(o)
  BY <1>9, <1>e DEF Refuse, Publish, Mismatch, GiveUp
<1>10. CASE GrantTree(o) \/ CheckedOut(o)
  <2>1. job[o].item[2] # p  BY <1>10, <1>x, Names DEF GrantTree, CheckedOut
  <2>. QED  BY <1>10, <2>1, <1>t DEF GrantTree, CheckedOut, Holds
<1>11. CASE Verify(o)
  BY <1>11, <1>r, <1>p DEF Verify, Holds
<1>. QED
  BY <1>1, <1>2, <1>3, <1>4, <1>5, <1>6, <1>7, <1>8, <1>9, <1>10, <1>11 DEF StoreStep

LEMMA Fetched ==
    ASSUME Typed, NEW o \in Owners, Leased(o), NEW p \in Pins, Fetching(o, p), kept' = kept,
           StoreStep(o) \/ GiveUp(o)
    PROVE  Fetching(o, p)'
<1>t. /\ checkout \in [Pins -> {"none", "partial", "whole"}]
      /\ holder \in [Items -> Owners \union {None}]
      /\ job \in [Owners -> JobType]
  BY DEF Typed, JobType
<1>q. ~Quiet(o) /\ ~Over(o)  BY StepsAreBusy
<1>x. job[o].item = Tree(p)  BY <1>q DEF Fetching
<1>y. /\ Tree(p) \in Trees /\ Tree(p) \in Items /\ Tree(p) # Capacity
      /\ Tree(p) \notin Files /\ Tree(p) \notin Maps /\ Tree(p) \notin Caches
      /\ Tree(p)[2] = p
  BY Names
<1>e. ASSUME End(o, "failed") PROVE Fetching(o, p)'
  <2>1. job'[o] = Rest("failed")  BY <1>e, <1>t DEF End
  <2>. QED  BY <2>1, RestFacts DEF Fetching, Over, At
<1>f. ASSUME job'[o].item = job[o].item, job'[o].step # "done" PROVE Fetching(o, p)'
  BY <1>f, <1>x DEF Fetching, Over, At
<1>1. CASE OpenMap(o) \/ OpenCache(o) \/ ReserveFile(o) \/ BeginPrune(o) \/ GrantFile(o)
             \/ Publish(o)
  BY <1>1, <1>x, <1>y
     DEF OpenMap, OpenCache, ReserveFile, BeginPrune, GrantFile, Publish
<1>2. CASE CloseCache(o)
  BY <1>2, <1>x, <1>y DEF CloseCache, Leased
<1>3. CASE Lock(o) \/ ReserveTree(o)
  BY <1>3, <1>t, <1>f DEF Lock, ReserveTree, JobType
<1>4. ASSUME NEW q \in Pins, PassOver(o, q) \/ ForgetStale(o, q) \/ Evict(o, q)
      PROVE  Fetching(o, p)'
  BY <1>4, <1>t, <1>f DEF PassOver, ForgetStale, Evict, JobType, At
<1>5. CASE Removed(o) \/ Forget(o)
  BY <1>5, <1>t, <1>f DEF Removed, Forget, JobType
<1>6. CASE Evicted(o)
  <2>1. CASE TreeUse > Target(o)
    BY <1>6, <2>1, <1>x, <1>y, <1>e DEF Evicted
  <2>2. CASE ~(TreeUse > Target(o))
    BY <1>6, <2>2, <1>x, <1>y, <1>t, <1>f DEF Evicted, JobType
  <2>. QED  BY <2>1, <2>2
<1>7. ASSUME NEW x \in Caches, Reclaim(o, x) PROVE Fetching(o, p)'
  BY <1>7, <1>t, <1>f DEF Reclaim, JobType, At
<1>8. CASE Refuse(o) \/ Mismatch(o) \/ GiveUp(o)
  BY <1>8, <1>e DEF Refuse, Mismatch, GiveUp
<1>9. CASE GrantTree(o) \/ CheckedOut(o)
  BY <1>9, <1>t, <1>f DEF GrantTree, CheckedOut, JobType
<1>10. CASE Verify(o)
  <2>1. job'[o] = Rest("done")  BY <1>10, <1>t DEF Verify
  <2>2. holder[Tree(p)] = o  BY <1>10, <1>q, <1>x, <1>y DEF Verify, Leased, At
  <2>3. holder'[Tree(p)] = o  BY <1>10, <2>2, <1>y, ReleasedFacts DEF Verify
  <2>4. Holds(o, p)'  BY <1>10, <2>3, <1>x, <1>y DEF Verify, Holds
  <2>. QED  BY <2>1, <2>4, RestFacts DEF Fetching, Over, At
<1>. QED
  BY <1>1, <1>2, <1>3, <1>4, <1>5, <1>6, <1>7, <1>8, <1>9, <1>10 DEF StoreStep

-----------------------------------------------------------------------------
(* Bytes.                                                                     *)
TreesUse(c) == TreeBytes * Cardinality({p \in Pins : c[p] # "none"})
FilesUse(s) == MapBytes * Cardinality(s \intersect Maps)
               + CacheBytes * Cardinality(s \intersect Caches)

LEMMA Product ==
    /\ \A a, n \in Nat : a * n \in Nat /\ a * (n + 1) = a * n + a
    /\ \A a, m, n \in Nat : m <= n => a * m <= a * n
<1>1. \A a, n \in Nat : a * n \in Nat /\ a * (n + 1) = a * n + a
  OBVIOUS
<1>2. ASSUME NEW a \in Nat, NEW m \in Nat, NEW n \in Nat, m <= n PROVE a * m <= a * n
  <2>1. PICK k \in Nat : n = m + k  BY <1>2
  <2>2. a * n = a * m + a * k /\ a * k \in Nat /\ a * m \in Nat  BY <2>1
  <2>. QED  BY <2>2
<1>. QED  BY <1>1, <1>2

LEMMA TreesBytes ==
    ASSUME NEW c \in [Pins -> {"none", "partial", "whole"}]
    PROVE  /\ TreesUse(c) \in Nat
           /\ \A p \in Pins : \A v \in {"none", "partial", "whole"} :
                 LET d == [c EXCEPT ![p] = v]
                 IN  /\ TreesUse(d) <= TreesUse(c) + TreeBytes
                     /\ c[p] # "none" \/ v = "none" => TreesUse(d) <= TreesUse(c)
<1>. DEFINE Out(f) == {p \in Pins : f[p] # "none"}
<1>1. ASSUME NEW f PROVE IsFiniteSet(Out(f)) /\ Cardinality(Out(f)) \in Nat
  BY StartAssumption, FS_Subset, FS_CardinalityType
<1>2. TreesUse(c) \in Nat
  BY <1>1, SizesAssumption, Product DEF TreesUse
<1>3. ASSUME NEW p \in Pins, NEW v \in {"none", "partial", "whole"}
      PROVE  LET d == [c EXCEPT ![p] = v]
             IN  /\ TreesUse(d) <= TreesUse(c) + TreeBytes
                 /\ c[p] # "none" \/ v = "none" => TreesUse(d) <= TreesUse(c)
  <2>. DEFINE d == [c EXCEPT ![p] = v]
  <2>1. Out(d) \subseteq Out(c) \union {p}  OBVIOUS
  <2>2. c[p] # "none" \/ v = "none" => Out(d) \subseteq Out(c)  OBVIOUS
  <2>3. /\ IsFiniteSet(Out(c) \union {p})
        /\ Cardinality(Out(c) \union {p}) <= Cardinality(Out(c)) + 1
    BY <1>1, FS_AddElement
  <2>4. Cardinality(Out(d)) <= Cardinality(Out(c)) + 1
    <3>1. Cardinality(Out(d)) <= Cardinality(Out(c) \union {p})  BY <2>1, <2>3, FS_Subset
    <3>2. Cardinality(Out(c) \union {p}) \in Nat  BY <2>3, FS_CardinalityType
    <3>3. Cardinality(Out(c)) \in Nat /\ Cardinality(Out(d)) \in Nat  BY <1>1
    <3>. HIDE DEF Out, d
    <3>. QED  BY <3>1, <3>2, <3>3, <2>3
  <2>5. c[p] # "none" \/ v = "none" => Cardinality(Out(d)) <= Cardinality(Out(c))
    BY <2>2, <1>1, FS_Subset
  <2>. HIDE DEF Out, d
  <2>6. Cardinality(Out(c)) \in Nat /\ Cardinality(Out(d)) \in Nat  BY <1>1
  <2>7. /\ TreesUse(c) = TreeBytes * Cardinality(Out(c))
        /\ TreesUse(d) = TreeBytes * Cardinality(Out(d))
    BY DEF TreesUse, Out
  <2>8. TreesUse(d) <= TreesUse(c) + TreeBytes
    <3>1. TreeBytes * Cardinality(Out(d)) <= TreeBytes * (Cardinality(Out(c)) + 1)
      BY <2>4, <2>6, SizesAssumption, Product
    <3>. QED  BY <3>1, <2>6, <2>7, SizesAssumption, Product
  <2>9. c[p] # "none" \/ v = "none" => TreesUse(d) <= TreesUse(c)
    BY <2>5, <2>6, <2>7, SizesAssumption, Product
  <2>. QED  BY <2>8, <2>9 DEF d
<1>. QED  BY <1>2, <1>3

LEMMA Shares ==
    ASSUME NEW s, IsFiniteSet(s), NEW T, NEW x
    PROVE  /\ Cardinality(s \intersect T) \in Nat
           /\ IsFiniteSet(s \union {x}) /\ IsFiniteSet(s \ {x})
           /\ Cardinality((s \ {x}) \intersect T) \in Nat
           /\ Cardinality((s \ {x}) \intersect T) <= Cardinality(s \intersect T)
           /\ Cardinality((s \union {x}) \intersect T) \in Nat
           /\ Cardinality((s \union {x}) \intersect T) <= Cardinality(s \intersect T) + 1
           /\ x \notin T => Cardinality((s \union {x}) \intersect T) = Cardinality(s \intersect T)
<1>1. IsFiniteSet(s \intersect T) /\ Cardinality(s \intersect T) \in Nat
  BY FS_Intersection, FS_CardinalityType
<1>2. IsFiniteSet(s \union {x}) /\ IsFiniteSet(s \ {x})
  BY FS_AddElement, FS_RemoveElement
<1>3. Cardinality((s \ {x}) \intersect T) \in Nat
      /\ Cardinality((s \union {x}) \intersect T) \in Nat
  BY <1>2, FS_Intersection, FS_CardinalityType
<1>4. Cardinality((s \ {x}) \intersect T) <= Cardinality(s \intersect T)
  <2>1. (s \ {x}) \intersect T \in SUBSET (s \intersect T)  OBVIOUS
  <2>. QED  BY <1>1, <2>1, FS_Subset
<1>5. CASE x \in T
  <2>1. (s \union {x}) \intersect T = (s \intersect T) \union {x}  BY <1>5
  <2>2. Cardinality((s \union {x}) \intersect T) <= Cardinality(s \intersect T) + 1
    <3>. DEFINE i == s \intersect T
    <3>1. Cardinality(i \union {x}) = IF x \in i THEN Cardinality(i) ELSE Cardinality(i) + 1
      BY <1>1, FS_AddElement
    <3>2. (s \union {x}) \intersect T = i \union {x}  BY <2>1
    <3>3. Cardinality(i) \in Nat  BY <1>1
    <3>. HIDE DEF i
    <3>4. Cardinality(i \union {x}) <= Cardinality(i) + 1  BY <3>1, <3>3
    <3>. QED  BY <3>2, <3>4 DEF i
  <2>. QED  BY <1>1, <1>2, <1>3, <1>4, <1>5, <2>2
<1>6. CASE x \notin T
  <2>1. (s \union {x}) \intersect T = s \intersect T  BY <1>6
  <2>. QED  BY <1>1, <1>2, <1>3, <1>4, <1>6, <2>1
<1>. QED  BY <1>5, <1>6

LEMMA FilesBytes ==
    ASSUME NEW s \in SUBSET Files, IsFiniteSet(s), NEW x \in Files
    PROVE  /\ FilesUse(s) \in Nat
           /\ FilesUse(s \ {x}) \in Nat /\ FilesUse(s \ {x}) <= FilesUse(s)
           /\ FilesUse(s \union {x}) \in Nat
           /\ FilesUse(s \union {x}) <= FilesUse(s) + Size(x)
<1>. DEFINE M(u) == Cardinality(u \intersect Maps)
            C(u) == Cardinality(u \intersect Caches)
            a == s \ {x}
            b == s \union {x}
<1>1. /\ M(s) \in Nat /\ M(a) \in Nat /\ M(b) \in Nat /\ M(a) <= M(s) /\ M(b) <= M(s) + 1
      /\ x \notin Maps => M(b) = M(s)
  BY Shares
<1>2. /\ C(s) \in Nat /\ C(a) \in Nat /\ C(b) \in Nat /\ C(a) <= C(s) /\ C(b) <= C(s) + 1
      /\ x \notin Caches => C(b) = C(s)
  BY Shares
<1>3. \A u : FilesUse(u) = MapBytes * M(u) + CacheBytes * C(u)  BY DEF FilesUse
<1>4. MapBytes \in Nat /\ CacheBytes \in Nat  BY SizesAssumption
<1>5. IF x \in Maps THEN x \notin Caches /\ Size(x) = MapBytes
                    ELSE x \in Caches /\ Size(x) = CacheBytes
  BY Names DEF Size
<1>. HIDE DEF M, C, a, b
<1>6. /\ MapBytes * M(s) \in Nat /\ MapBytes * M(a) \in Nat /\ MapBytes * M(b) \in Nat
      /\ MapBytes * M(a) <= MapBytes * M(s)
      /\ MapBytes * M(b) <= MapBytes * (M(s) + 1)
      /\ MapBytes * (M(s) + 1) = MapBytes * M(s) + MapBytes
  BY <1>1, <1>4, Product
<1>7. /\ CacheBytes * C(s) \in Nat /\ CacheBytes * C(a) \in Nat /\ CacheBytes * C(b) \in Nat
      /\ CacheBytes * C(a) <= CacheBytes * C(s)
      /\ CacheBytes * C(b) <= CacheBytes * (C(s) + 1)
      /\ CacheBytes * (C(s) + 1) = CacheBytes * C(s) + CacheBytes
  BY <1>2, <1>4, Product
<1>8. FilesUse(b) <= FilesUse(s) + Size(x)
  <2>1. CASE x \in Maps
    <3>1. MapBytes * M(b) <= MapBytes * M(s) + MapBytes  BY <1>6
    <3>2. C(b) = C(s)  BY <2>1, <1>5, <1>2
    <3>. QED  BY <2>1, <3>1, <3>2, <1>3, <1>4, <1>5, <1>6, <1>7
  <2>2. CASE x \notin Maps
    <3>1. CacheBytes * C(b) <= CacheBytes * C(s) + CacheBytes  BY <1>7
    <3>2. M(b) = M(s)  BY <2>2, <1>1
    <3>. QED  BY <2>2, <3>1, <3>2, <1>3, <1>4, <1>5, <1>6, <1>7
  <2>. QED  BY <2>1, <2>2
<1>9. FilesUse(a) <= FilesUse(s)  BY <1>3, <1>6, <1>7
<1>. QED  BY <1>3, <1>6, <1>7, <1>8, <1>9 DEF a, b

Sum ==
    /\ Used = TreesUse(checkout) + FilesUse(stored) + litter + Staged
    /\ TreesUse(checkout) \in Nat /\ FilesUse(stored) \in Nat
    /\ litter \in Nat /\ Staged \in Nat

LEMMA UsedSum == Typed /\ IsFiniteSet(stored) => Sum
<1>. SUFFICES ASSUME Typed, IsFiniteSet(stored) PROVE Sum
  OBVIOUS
<1>1. TreesUse(checkout) \in Nat  BY TreesBytes DEF Typed
<1>2. /\ Cardinality(stored \intersect Maps) \in Nat
      /\ Cardinality(stored \intersect Caches) \in Nat
  BY Shares
<1>3. /\ MapBytes * Cardinality(stored \intersect Maps) \in Nat
      /\ CacheBytes * Cardinality(stored \intersect Caches) \in Nat
  BY <1>2, SizesAssumption, Product
<1>4. FilesUse(stored) \in Nat  BY <1>3 DEF FilesUse
<1>5. Staged \in Nat  BY Names DEF Staged, Typed, Free
<1>6. Used = TreesUse(checkout) + FilesUse(stored) + litter + Staged
  BY <1>3, <1>1, <1>5 DEF Used, TreeUse, TreesUse, FilesUse, Typed
<1>. QED  BY <1>1, <1>4, <1>5, <1>6 DEF Typed, Sum

\* Nobody else has been granted anything while o has the capacity.
LEMMA StagedBytes ==
    ASSUME Typed, NEW o \in Owners, Granted(o)
    PROVE  /\ holder[Capacity] = o => Staged = job[o].granted
           /\ Free(Capacity) => Staged = 0 /\ job[o].granted = 0
           /\ Reserving(o) => Staged = job[o].granted
BY OwnersFacts DEF Staged, Free, Granted, Reserving

\* A job that ends gives back what it was granted.
LEMMA EndStaged ==
    ASSUME Typed, Typed', NEW o \in Owners, Granted(o), NEW s \in {"done", "failed"}, End(o, s)
    PROVE  /\ Staged' <= Staged
           /\ holder[Capacity] = o => Staged' = 0
<1>1. Capacity \in Own(o) /\ Capacity \in Items  BY Names DEF Own
<1>2. CASE holder[Capacity] = o
  <2>1. holder'[Capacity] = None  BY <1>1, <1>2 DEF End, Released
  <2>2. Staged \in Nat  BY Names DEF Staged, Typed, Free
  <2>. QED  BY <2>1, <2>2 DEF Staged, Free
<1>3. CASE holder[Capacity] # o
  <2>1. holder'[Capacity] = holder[Capacity]  BY <1>1, <1>3 DEF End, Released
  <2>2. Staged' = Staged  BY <2>1, <1>3, <1>1 DEF Staged, Free, Typed, End
  <2>3. Staged \in Nat  BY Names DEF Staged, Typed, Free
  <2>. QED  BY <2>2, <2>3, <1>3
<1>. QED  BY <1>2, <1>3

LEMMA StoreWithin ==
    ASSUME Typed, Typed', NEW o \in Owners, Leased(o), Granted(o), Within,
           StoreStep(o) \/ GiveUp(o)
    PROVE  Within'
<1>t. /\ checkout \in [Pins -> {"none", "partial", "whole"}]
      /\ holder \in [Items -> Owners \union {None}]
      /\ job \in [Owners -> JobType] /\ stored \in SUBSET Files
  BY DEF Typed, JobType
<1>u. Sum  BY UsedSum DEF Within
<1>w. (Typed /\ IsFiniteSet(stored) => Sum)'  BY UsedSum, PTL
<1>l. Room \in Nat /\ TreeBytes \in Nat /\ MapBytes \in Nat /\ CacheBytes \in Nat
  BY SizesAssumption
\* It is enough that the sum does not grow, or that it fits.
<1>f. ASSUME IsFiniteSet(stored'),
             Sum' => \/ TreesUse(checkout') + FilesUse(stored') + litter' + Staged'
                           <= TreesUse(checkout) + FilesUse(stored) + litter + Staged
                     \/ TreesUse(checkout') + FilesUse(stored') + litter' + Staged' <= Room
      PROVE  Within'
  <2>1. Sum'  BY <1>f, <1>w
  <2>2. Used' = TreesUse(checkout') + FilesUse(stored') + litter' + Staged'
        /\ TreesUse(checkout') \in Nat /\ FilesUse(stored') \in Nat
        /\ litter' \in Nat /\ Staged' \in Nat
    BY <2>1 DEF Sum
  <2>3. Used' <= Room  BY <1>f, <2>1, <2>2, <1>u, <1>l DEF Sum, Within
  <2>. QED  BY <2>3, <1>f DEF Within
<1>g. ASSUME UNCHANGED <<checkout, stored, litter>>, Staged' <= Staged PROVE Within'
  BY <1>g, <1>f, <1>u DEF Sum, Within
<1>c. Capacity \in Items /\ holder[Capacity] \in Owners \union {None}  BY <1>t, Names
\* Steps that keep the capacity's holder and everybody's grant.
<1>s. ASSUME holder'[Capacity] = holder[Capacity],
             \A d \in Owners : job'[d].granted = job[d].granted
      PROVE  Staged' = Staged
  BY <1>s, <1>c DEF Staged, Free
<1>r. ASSUME Free(Capacity), holder' = Taken(o, Capacity), job'[o].granted = job[o].granted
      PROVE  Staged' = Staged
  <2>1. holder'[Capacity] = o  BY <1>r, <1>c, TakenFacts
  <2>. QED  BY <1>r, <2>1, StagedBytes, OwnersFacts DEF Staged, Free
<1>e. ASSUME NEW s \in {"done", "failed"}, End(o, s), UNCHANGED <<checkout, stored, litter>>
      PROVE  Within'
  BY <1>e, <1>g, EndStaged
<1>o. ASSUME NEW x \in Items, x # Capacity
      PROVE  Taken(o, x)[Capacity] = holder[Capacity]
  BY <1>o, <1>c, TakenFacts
<1>y. ASSUME NEW xs, Capacity \notin xs
      PROVE  Released(o, xs)[Capacity] = holder[Capacity]
  BY <1>y, <1>c, ReleasedFacts
<1>i. job[o].item \in Items  BY <1>t DEF JobType
<1>q. Reserving(o) => Staged = job[o].granted  BY StagedBytes
<1>z. ~Quiet(o) /\ job[o].granted # 0 => job[o].step \in {"reclaim", "write"}
  BY DEF Granted
<1>1. CASE OpenMap(o)
  <2>1. job[o].granted = 0  BY <1>1, <1>z DEF OpenMap, At, Quiet
  <2>2. \A d \in Owners : job'[d].granted = job[d].granted
    BY <1>1, <1>t, <2>1, RestFacts DEF OpenMap
  <2>3. holder'[Capacity] = holder[Capacity]  BY <1>1 DEF OpenMap
  <2>. QED  BY <1>1, <2>2, <2>3, <1>s, <1>g, <1>u DEF OpenMap, Sum
<1>2. CASE OpenCache(o) \/ Lock(o)
  <2>1. \A d \in Owners : job'[d].granted = job[d].granted
    BY <1>2, <1>t DEF OpenCache, Lock, JobType
  <2>2. CASE job[o].item # Capacity
    <3>1. holder'[Capacity] = holder[Capacity]
      BY <1>2, <2>2, <1>o, <1>i DEF OpenCache, Lock
    <3>. QED  BY <1>2, <2>1, <3>1, <1>s, <1>g, <1>u DEF OpenCache, Lock, Sum
  <2>3. CASE job[o].item = Capacity
    <3>1. Staged' = Staged  BY <1>2, <2>1, <2>3, <1>r DEF OpenCache, Lock
    <3>. QED  BY <1>2, <3>1, <1>g, <1>u DEF OpenCache, Lock, Sum
  <2>. QED  BY <2>2, <2>3
<1>3. CASE CloseCache(o)
  <2>1. job[o].granted = 0  BY <1>3, <1>z DEF CloseCache, At, Quiet
  <2>2. \A d \in Owners : job'[d].granted = job[d].granted
    BY <1>3, <1>t, <2>1, RestFacts DEF CloseCache
  <2>3. job[o].item # Capacity  BY <1>3, Names DEF CloseCache, Leased
  <2>4. holder'[Capacity] = holder[Capacity]  BY <1>3, <2>3, <1>y DEF CloseCache
  <2>. QED  BY <1>3, <2>2, <2>4, <1>s, <1>g, <1>u DEF CloseCache, Sum
<1>4. CASE ReserveFile(o) \/ ReserveTree(o) \/ BeginPrune(o)
  <2>1. job'[o].granted = job[o].granted
    BY <1>4, <1>t DEF ReserveFile, ReserveTree, BeginPrune, JobType
  <2>2. Staged' = Staged  BY <1>4, <2>1, <1>r DEF ReserveFile, ReserveTree, BeginPrune
  <2>. QED  BY <1>4, <2>2, <1>g, <1>u DEF ReserveFile, ReserveTree, BeginPrune, Sum
<1>5. ASSUME NEW p \in Pins, PassOver(o, p) \/ ForgetStale(o, p) PROVE Within'
  <2>1. \A d \in Owners : job'[d].granted = job[d].granted
    BY <1>5, <1>t DEF PassOver, ForgetStale, JobType
  <2>. QED  BY <1>5, <2>1, <1>s, <1>g, <1>u DEF PassOver, ForgetStale, Sum
<1>6. ASSUME NEW p \in Pins, Evict(o, p) PROVE Within'
  <2>1. \A d \in Owners : job'[d].granted = job[d].granted
    BY <1>6, <1>t DEF Evict, JobType
  <2>2. holder'[Capacity] = holder[Capacity]
    BY <1>6, <1>o, Names DEF Evict
  <2>3. TreesUse(checkout') <= TreesUse(checkout)
    BY <1>6, <1>t, TreesBytes DEF Evict
  <2>4. Staged' = Staged  BY <2>1, <2>2, <1>s
  <2>5. stored' = stored /\ litter' = litter  BY <1>6 DEF Evict
  <2>. QED  BY <2>3, <2>4, <2>5, <1>f, <1>u DEF Sum, Within
<1>7. CASE Removed(o)
  <2>1. \A d \in Owners : job'[d].granted = job[d].granted
    BY <1>7, <1>t DEF Removed, JobType
  <2>2. holder'[Capacity] = holder[Capacity]  BY <1>7 DEF Removed
  <2>3. job[o].victim \in Pins  BY <1>7 DEF Removed, Leased, Removing, At
  <2>4. TreesUse(checkout') <= TreesUse(checkout)
    BY <1>7, <2>3, <1>t, TreesBytes DEF Removed
  <2>5. Staged' = Staged  BY <2>1, <2>2, <1>s
  <2>6. stored' = stored /\ litter' = litter  BY <1>7 DEF Removed
  <2>7. IsFiniteSet(stored')  BY <2>6 DEF Within
  <2>. QED  BY <2>4, <2>5, <2>6, <2>7, <1>f, <1>u DEF Sum
<1>8. CASE Forget(o)
  <2>1. \A d \in Owners : job'[d].granted = job[d].granted
    BY <1>8, <1>t DEF Forget, JobType
  <2>2. Capacity # Tree(job[o].victim)
    BY <1>8, Names DEF Forget, Leased, Removing, At
  <2>3. holder'[Capacity] = holder[Capacity]  BY <1>8, <2>2, <1>y DEF Forget
  <2>4. Staged' = Staged  BY <2>1, <2>3, <1>s
  <2>. QED  BY <1>8, <2>4, <1>g, <1>u DEF Forget, Sum
<1>9. CASE Evicted(o)
  <2>1. CASE job[o].item = Capacity
    BY <1>9, <2>1, <1>e DEF Evicted
  <2>2. CASE job[o].item # Capacity /\ TreeUse > Target(o)
    BY <1>9, <2>2, <1>e DEF Evicted
  <2>3. CASE job[o].item # Capacity /\ ~(TreeUse > Target(o))
    <3>1. \A d \in Owners : job'[d].granted = job[d].granted
      BY <1>9, <2>3, <1>t DEF Evicted, JobType
    <3>2. holder'[Capacity] = holder[Capacity]  BY <1>9, <2>3 DEF Evicted
    <3>. QED  BY <1>9, <3>1, <3>2, <1>s, <1>g, <1>u DEF Evicted, Sum
  <2>. QED  BY <2>1, <2>2, <2>3
<1>10. ASSUME NEW x \in Caches, Reclaim(o, x) PROVE Within'
  <2>1. \A d \in Owners : job'[d].granted = job[d].granted
    BY <1>10, <1>t DEF Reclaim, JobType
  <2>2. Staged' = Staged  BY <1>10, <2>1, <1>s DEF Reclaim
  <2>3. stored' \in {stored, stored \ {x}} /\ checkout' = checkout /\ litter' = litter
    BY <1>10 DEF Reclaim
  <2>4. x \in Files  BY Names
  <2>5. IsFiniteSet(stored')  BY <2>3, FS_RemoveElement DEF Within
  <2>6. FilesUse(stored') <= FilesUse(stored)
    <3>1. FilesUse(stored \ {x}) <= FilesUse(stored)  BY <2>4, <1>t, FilesBytes DEF Within
    <3>2. CASE stored' = stored  BY <3>2, <1>u DEF Sum
    <3>3. CASE stored' = stored \ {x}  BY <3>1, <3>3
    <3>. QED  BY <2>3, <3>2, <3>3
  <2>. QED  BY <2>2, <2>3, <2>5, <2>6, <1>f, <1>u DEF Sum
<1>11. CASE Refuse(o) \/ Mismatch(o) \/ GiveUp(o)
  BY <1>11, <1>e DEF Refuse, Mismatch, GiveUp
<1>12. CASE GrantTree(o)
  <2>1. \A d \in Owners : job'[d].granted = job[d].granted
    BY <1>12, <1>t DEF GrantTree, JobType
  <2>2. Staged' = Staged  BY <1>12, <2>1, <1>s DEF GrantTree
  <2>3. stored' = stored /\ litter' = litter /\ IsFiniteSet(stored')
    BY <1>12 DEF GrantTree, Within
  <2>4. job[o].item[2] \in Pins  BY <1>12, Names DEF GrantTree
  <2>5. CASE checkout[job[o].item[2]] = "none"
    <3>1. Used + TreeBytes <= Room  BY <1>12, <2>5 DEF GrantTree, Fits, Need
    <3>2. TreesUse(checkout') <= TreesUse(checkout) + TreeBytes
      BY <1>12, <2>4, <2>5, <1>t, TreesBytes DEF GrantTree
    <3>. QED  BY <2>2, <2>3, <3>1, <3>2, <1>f, <1>u, <1>l DEF Sum
  <2>6. CASE checkout[job[o].item[2]] # "none"
    BY <1>12, <2>6, <2>2, <1>g, <1>u DEF GrantTree, Sum
  <2>. QED  BY <2>5, <2>6
<1>13. CASE GrantFile(o)
  <2>1. Used + Need(o) <= Room /\ UNCHANGED <<checkout, stored, litter, holder>>
    BY <1>13 DEF GrantFile, Fits
  <2>2. job'[o].granted = job[o].granted + Need(o)  BY <1>13, <1>t DEF GrantFile, JobType
  <2>3. holder[Capacity] = o  BY <1>13 DEF GrantFile, Granted, Reserving, At
  <2>4. Staged = job[o].granted  BY <2>3, StagedBytes
  <2>5. Staged' = Staged + Need(o)  BY <2>1, <2>2, <2>3, <2>4, OwnersFacts DEF Staged, Free
  <2>6. Need(o) \in Nat  BY NeedTyped
  <2>. QED  BY <2>1, <2>5, <2>6, <1>f, <1>u, <1>l DEF Sum, Within
<1>14. CASE Publish(o)
  <2>1. holder[Capacity] = o /\ job[o].granted = Size(job[o].item) /\ job[o].item \in Files
    BY <1>14 DEF Publish, Granted, Reserving, At
  <2>2. Staged = Size(job[o].item)  BY <2>1, StagedBytes
  <2>3. Staged' = 0  BY <1>14, <2>1, EndStaged DEF Publish
  <2>4. /\ stored' = stored \union {job[o].item}
        /\ checkout' = checkout /\ litter' = litter
    BY <1>14 DEF Publish
  <2>5. IsFiniteSet(stored')  BY <2>4, FS_AddElement DEF Within
  <2>6. FilesUse(stored') <= FilesUse(stored) + Size(job[o].item)
    BY <2>1, <2>4, <1>t, FilesBytes DEF Within
  <2>7. Size(job[o].item) \in Nat  BY <1>l DEF Size
  <2>. QED  BY <2>2, <2>3, <2>4, <2>5, <2>6, <2>7, <1>f, <1>u DEF Sum
<1>15. CASE CheckedOut(o)
  <2>1. \A d \in Owners : job'[d].granted = job[d].granted
    BY <1>15, <1>t DEF CheckedOut, JobType
  <2>2. Staged' = Staged  BY <1>15, <2>1, <1>s DEF CheckedOut
  <2>3. job[o].item[2] \in Pins /\ checkout[job[o].item[2]] # "none"
    BY <1>15, Names DEF CheckedOut, Leased
  <2>4. TreesUse(checkout') <= TreesUse(checkout)
    BY <1>15, <2>3, <1>t, TreesBytes DEF CheckedOut
  <2>5. stored' = stored /\ litter' = litter  BY <1>15 DEF CheckedOut
  <2>. QED  BY <2>2, <2>4, <2>5, <1>f, <1>u DEF Sum, Within
<1>16. CASE Verify(o)
  <2>1. holder[Capacity] = o  BY <1>16 DEF Verify, Granted, Reserving, At
  <2>2. holder'[Capacity] = None  BY <1>16, <2>1, <1>c DEF Verify, Released
  <2>3. Staged' <= Staged  BY <2>2, <1>u DEF Staged, Free, Sum
  <2>. QED  BY <1>16, <2>3, <1>g DEF Verify
<1>. QED
  BY <1>1, <1>2, <1>3, <1>4, <1>5, <1>6, <1>7, <1>8, <1>9, <1>10, <1>11, <1>12, <1>13, <1>14,
     <1>15, <1>16 DEF StoreStep

-----------------------------------------------------------------------------
(* The store's part of the invariant, and what every step leaves of it.       *)
Jobs == \A o \in Owners : Leased(o) /\ Granted(o)
StoreInv == Typed /\ Jobs /\ InUse /\ Within /\ kept \in [Owners -> Pins \union {None}]

\* Nobody but o notices.
Framed(o) ==
    \A d \in Owners \ {o} :
        /\ job'[d] = job[d] /\ kept'[d] = kept[d]
        /\ \A p : Fetching(d, p) => Fetching(d, p)'

LEMMA StoreWork ==
    ASSUME StoreInv, NEW o \in Owners, StoreStep(o) \/ GiveUp(o), kept' = kept
    PROVE  /\ StoreInv' /\ Framed(o) /\ ~Quiet(o) /\ ~Over(o)
           /\ \A p : Fetching(o, p) => Fetching(o, p)'
<1>1. Typed' /\ Within'  BY StoreTyping, StoreWithin DEF StoreInv, Jobs
<1>2. \A d \in Owners : d # o => Undisturbed(o, d)  BY OthersUndisturbed DEF StoreInv, Jobs
<1>3. Jobs'  BY <1>2, OwnAccount, OthersAccount DEF StoreInv, Jobs
<1>4. \A d \in Owners : \A p \in Pins : d # o /\ Holds(d, p) => Holds(d, p)'
  BY <1>2, Names DEF Undisturbed, Holds
<1>5. InUse'  BY <1>4, KeptStays DEF StoreInv, Jobs, InUse
<1>6. Framed(o)  BY <1>2, <1>4 DEF Framed, Fetching, Undisturbed, Over, At
<1>7. \A p : Fetching(o, p) => Fetching(o, p)'
  BY Fetched DEF StoreInv, Jobs, Fetching
<1>. QED  BY <1>1, <1>3, <1>5, <1>6, <1>7, StepsAreBusy DEF StoreInv

LEMMA Still ==
    ASSUME StoreInv, UNCHANGED <<store, kept>>
    PROVE  StoreInv' /\ (\A o : Framed(o)) /\ \A d, p : Fetching(d, p) => Fetching(d, p)'
<1>1. StoreInv'
  BY DEF store, StoreInv, Typed, Jobs, Leased, Granted, Removing, Reserving, Quiet, At, InUse,
         Holds, Within, Used, TreeUse, Staged, Free
<1>2. \A d, p : Fetching(d, p) => Fetching(d, p)'
  BY DEF store, Fetching, Holds, Over, At
<1>. QED  BY <1>1, <1>2 DEF Framed, store

\* Between two jobs an owner gives leases back and sets out for something else.
Turn(o) ==
    /\ Quiet(o)
    /\ UNCHANGED <<checkout, manifest, stored, litter>>
    /\ holder' \in [Items -> Owners \union {None}]
    /\ holder'[Capacity] = holder[Capacity]
    /\ \A x \in Items : holder[x] # o => holder'[x] = holder[x]
    /\ job' \in [Owners -> JobType]
    /\ \A d \in Owners \ {o} : job'[d] = job[d] /\ kept'[d] = kept[d]
    /\ \/ job'[o] = job[o]
       \/ /\ job'[o].victim = None /\ job'[o].granted = 0
          /\ \/ job'[o].step \in {"wait", "done", "failed"}
             \/ job'[o].step = "room" /\ job'[o].item \notin Trees
          /\ job'[o].item \in Trees => kept'[o] = None
    /\ kept' \in [Owners -> Pins \union {None}]
    /\ \A p \in Pins : kept'[o] = p => Holds(o, p)'

LEMMA TurnKeeps ==
    ASSUME StoreInv, NEW o \in Owners, Turn(o)
    PROVE  StoreInv' /\ Framed(o)
<1>1. Typed'  BY DEF Turn, StoreInv, Typed, JobType
<1>2. \A d \in Owners : d # o => \A x \in Items : holder[x] = d => holder'[x] = d
  BY DEF Turn
<1>3. ASSUME NEW d \in Owners, d # o PROVE Leased(d)' /\ Granted(d)'
  <2>1. /\ Leased(d) /\ Granted(d) /\ job[d].item \in Items
        /\ job'[d] = job[d] /\ kept'[d] = kept[d]
        /\ UNCHANGED <<checkout, manifest, stored>>
    BY <1>3 DEF StoreInv, Jobs, Typed, Turn
  <2>2. Granted(d)'
    BY <1>3, <2>1, <1>2, Names DEF Granted, Reserving, At
  <2>3. Leased(d)'
    BY <1>3, <2>1, <1>2, Names DEF Leased, Removing, Quiet, At
  <2>. QED  BY <2>2, <2>3
<1>4. Leased(o)' /\ Granted(o)'
  <2>1. Leased(o) /\ Granted(o)  BY DEF StoreInv, Jobs
  <2>2. CASE job'[o] = job[o]
    BY <2>1, <2>2 DEF Turn, Leased, Granted, Removing, Reserving, Quiet, At
  <2>3. CASE job'[o] # job[o]
    BY <2>1, <2>3 DEF Turn, Leased, Granted, Removing, Reserving, Quiet, At
  <2>. QED  BY <2>2, <2>3
<1>5. InUse'
  BY <1>2, Names DEF Turn, StoreInv, InUse, Holds
<1>6. Within'
  <2>1. job[o].granted = 0 /\ job'[o].granted = 0
    <3>1. job[o].granted = 0  BY DEF StoreInv, Jobs, Granted, Turn, Quiet
    <3>. QED  BY <3>1 DEF Turn
  <2>2. \A d \in Owners : job'[d].granted = job[d].granted  BY <2>1 DEF Turn
  <2>3. holder[Capacity] \in Owners \union {None}  BY Names DEF StoreInv, Typed
  <2>4. Staged' = Staged  BY <2>2, <2>3 DEF Staged, Free, Turn
  <2>. QED  BY <2>4 DEF StoreInv, Within, Used, TreeUse, Turn
<1>7. Framed(o)
  <2>1. ASSUME NEW d \in Owners, d # o, NEW p, Fetching(d, p) PROVE Fetching(d, p)'
    BY <2>1, <1>2, Names DEF Turn, Fetching, Holds, Over, At
  <2>. QED  BY <2>1 DEF Framed, Turn
<1>. QED  BY <1>1, <1>3, <1>4, <1>5, <1>6, <1>7 DEF StoreInv, Jobs, Turn

LEMMA DeathKeeps ==
    ASSUME StoreInv, NEW o \in Owners, Die(o), kept' = [kept EXCEPT ![o] = None]
    PROVE  StoreInv' /\ Framed(o) /\ Over(o)'
<1>t. /\ holder \in [Items -> Owners \union {None}] /\ litter \in Nat
      /\ job \in [Owners -> JobType] /\ kept \in [Owners -> Pins \union {None}]
  BY DEF StoreInv, Typed, JobType
<1>r. /\ holder' \in [Items -> Owners \union {None}]
      /\ \A x \in Items : /\ holder[x] # o => holder'[x] = holder[x]
                          /\ holder[x] = o => holder'[x] = None
  BY <1>t, OwnersFacts DEF Die, Released
<1>j. /\ job' \in [Owners -> JobType] /\ job'[o] = Rest("done")
      /\ \A d \in Owners \ {o} : job'[d] = job[d] /\ kept'[d] = kept[d]
  BY <1>t, RestTyped DEF Die
<1>u. UNCHANGED <<checkout, manifest, stored>>  BY DEF Die
<1>k. kept' \in [Owners -> Pins \union {None}] /\ kept'[o] = None  BY <1>t
<1>1. Typed'
  <2>1. litter' \in Nat  BY <1>t DEF Die, JobType
  <2>. QED  BY <2>1, <1>r, <1>j, <1>u DEF StoreInv, Typed, JobType
<1>2. ASSUME NEW d \in Owners, d # o PROVE Leased(d)' /\ Granted(d)'
  <2>1. /\ Leased(d) /\ Granted(d) /\ job[d].item \in Items
        /\ job'[d] = job[d] /\ kept'[d] = kept[d]
        /\ \A x \in Items : holder[x] = d => holder'[x] = d
    BY <1>2, <1>r, <1>j DEF StoreInv, Jobs, Typed
  <2>2. Granted(d)'
    BY <1>2, <2>1, <1>u, Names DEF Granted, Reserving, At
  <2>3. Leased(d)'
    BY <1>2, <2>1, <1>u, Names DEF Leased, Removing, Quiet, At
  <2>. QED  BY <2>2, <2>3
<1>3. Leased(o)' /\ Granted(o)'  BY <1>j, AtRest
<1>4. InUse'
  BY <1>r, <1>j, <1>k, <1>u, PinsAssumption, Names DEF StoreInv, InUse, Holds
<1>5. Within'
  <2>1. Sum /\ (Typed /\ IsFiniteSet(stored) => Sum)'
    <3>1. (Typed /\ IsFiniteSet(stored) => Sum)'  BY UsedSum, PTL
    <3>. QED  BY <3>1, UsedSum DEF StoreInv, Within
  <2>2. Sum'  BY <2>1, <1>1, <1>u DEF StoreInv, Within
  <2>3. litter' + Staged' <= litter + Staged
    <3>1. CASE holder[Capacity] = o
      <4>1. holder'[Capacity] = None  BY <3>1, <1>r, Names
      <4>2. Staged = job[o].granted  BY <3>1, OwnersFacts DEF Staged, Free
      <4>3. Staged' = 0  BY <4>1 DEF Staged, Free
      <4>. QED  BY <4>2, <4>3, <1>t DEF Die, JobType
    <3>2. CASE holder[Capacity] # o
      <4>1. job[o].granted = 0
        BY <3>2 DEF StoreInv, Jobs, Granted, Reserving
      <4>2. holder'[Capacity] = holder[Capacity]  BY <3>2, <1>r, Names
      <4>3. Staged' = Staged
        BY <3>2, <4>2, <1>j, <1>t, Names DEF Staged, Free
      <4>4. litter' = litter  BY <4>1, <1>t DEF Die
      <4>. QED  BY <4>3, <4>4, <2>1 DEF Sum
    <3>. QED  BY <3>1, <3>2
  <2>4. Used' <= Used
    <3>1. Used' = TreesUse(checkout') + FilesUse(stored') + litter' + Staged'
          /\ litter' \in Nat /\ Staged' \in Nat
      BY <2>2 DEF Sum
    <3>2. TreesUse(checkout') = TreesUse(checkout) /\ FilesUse(stored') = FilesUse(stored)
      BY <1>u
    <3>3. /\ Used = TreesUse(checkout) + FilesUse(stored) + litter + Staged
          /\ TreesUse(checkout) \in Nat /\ FilesUse(stored) \in Nat
          /\ litter \in Nat /\ Staged \in Nat
      BY <2>1 DEF Sum
    <3>4. ASSUME NEW a \in Nat, NEW b \in Nat, NEW l \in Nat, NEW m \in Nat, NEW r \in Nat,
                 NEW s \in Nat, m + s <= l + r
          PROVE  a + b + m + s <= a + b + l + r
      BY <3>4
    <3>5. TreesUse(checkout) + FilesUse(stored) + litter' + Staged'
            <= TreesUse(checkout) + FilesUse(stored) + litter + Staged
      BY <2>3, <3>1, <3>3, <3>4
    <3>. QED  BY <3>1, <3>2, <3>3, <3>5
  <2>. QED
    BY <2>1, <2>2, <2>4, <1>u, SizesAssumption DEF StoreInv, Within, Sum
<1>6. Framed(o)
  <2>1. ASSUME NEW d \in Owners, d # o, NEW p, Fetching(d, p) PROVE Fetching(d, p)'
    BY <2>1, <1>r, <1>j, <1>u, Names DEF Fetching, Holds, Over, At
  <2>. QED  BY <2>1, <1>j DEF Framed
<1>. QED
  BY <1>1, <1>2, <1>3, <1>4, <1>5, <1>6, <1>j, <1>k, RestFacts DEF StoreInv, Jobs, Over

-----------------------------------------------------------------------------
(* Requests.                                                                  *)
IInv == StoreInv /\ Asked /\ Requests /\ Answering

LEMMA PlacesFacts ==
    /\ "idle" \in Places /\ "map" \in Places /\ "environment" \in Places
    /\ "symbols" \in Places /\ "relations" \in Places /\ "tree" \in Places
    /\ "analyse" \in Places /\ "asking" \in Places /\ "good" \in Places /\ "bad" \in Places
    /\ "retire" \in Places /\ "closing" \in Places /\ "exit" \in Places /\ "pruning" \in Places
BY DEF Places

LEMMA NoRequestTyped == NoRequest \in RequestType
BY DEF NoRequest, RequestType, Places

\* What a program's request needs to know of the others' and of the broker.
LEMMA ProgramShape ==
    ASSUME IInv, NEW c \in Programs, StoreInv', Framed(c), Asking(c)',
           request' \in [Programs -> RequestType],
           \A d \in Programs \ {c} : request'[d] = request[d],
           closed' \in Nat, crashes' \in Nat, commands' \in Nat,
           broker' \in [phase : {"off", "up", "leaving"}, gen : Nat, at : {broker.at},
                        queue : {broker'.queue}, wake : {broker'.wake},
                        task : Pins \union {None}, asker : {broker.asker, None}],
           broker.at # "select" => broker'.task = broker.task,
           broker'.phase = "off" => broker.phase = "off",
           broker'.asker = c => request'[c].at = request[c].at
    PROVE  IInv'
<1>o. c # Broker /\ Broker \in Owners /\ c \in Owners /\ Programs \subseteq Owners /\ None \notin Programs
  BY OwnersAssumption DEF Owners
<1>1. Asked'  BY DEF IInv, Asked, BrokerType
<1>2. ASSUME NEW d \in Programs, d # c PROVE Asking(d)'
  <2>1. Asking(d) /\ request'[d] = request[d]  BY <1>2 DEF IInv, Requests
  <2>2. job'[d] = job[d] /\ \A p : Fetching(d, p) => Fetching(d, p)'
    BY <1>2, <1>o DEF Framed
  <2>. QED  BY <2>1, <2>2 DEF Asking, Quiet, Is
<1>3. Requests'  BY <1>2 DEF Requests
<1>4. Answering'
  <2>1. /\ job'[Broker] = job[Broker] /\ kept'[Broker] = kept[Broker]
        /\ \A p : Fetching(Broker, p) => Fetching(Broker, p)'
    BY <1>o DEF Framed
  <2>2. broker'.at = broker.at /\ broker'.asker \in {broker.asker, None}  OBVIOUS
  <2>3. broker'.asker # None =>
           request'[broker'.asker].at = IF broker.at = "parting" THEN "closing" ELSE "asking"
    BY <2>2 DEF IInv, Answering, Asked, BrokerType
  <2>. QED  BY <2>1, <2>2, <2>3 DEF IInv, Answering, Over
<1>. QED  BY <1>1, <1>3, <1>4 DEF IInv

LEMMA SameBroker ==
    ASSUME IInv, NEW c \in Programs, StoreInv', Framed(c), Asking(c)',
           request' \in [Programs -> RequestType],
           \A d \in Programs \ {c} : request'[d] = request[d],
           closed' \in Nat, crashes' \in Nat, commands' \in Nat, broker' = broker,
           broker.asker = c => request'[c].at = request[c].at
    PROVE  IInv'
<1>1. broker \in [phase : {"off", "up", "leaving"}, gen : Nat, at : {broker.at},
                  queue : {broker.queue}, wake : {broker.wake},
                  task : Pins \union {None}, asker : {broker.asker, None}]
  BY DEF IInv, Asked, BrokerType
<1>. QED  BY <1>1, ProgramShape

\* A program that is not waiting for the broker is not the one it answers.
LEMMA NotAsker ==
    ASSUME IInv, NEW c \in Programs, request[c].at \notin {"asking", "closing"}
    PROVE  broker.asker # c
BY OwnersAssumption DEF IInv, Answering

\* The forms a turn takes.
LEMMA SetsOut ==
    ASSUME StoreInv, NEW o \in Owners, Quiet(o), kept' = kept,
           UNCHANGED <<checkout, manifest, stored, litter, holder>>,
           NEW j \in JobType, job' = [job EXCEPT ![o] = j],
           j.victim = None, j.granted = 0,
           j.step \in {"wait", "done", "failed"} \/ (j.step = "room" /\ j.item \notin Trees),
           j.item \in Trees => kept[o] = None
    PROVE  StoreInv' /\ Framed(o) /\ job'[o] = j
<1>1. job \in [Owners -> JobType] /\ holder \in [Items -> Owners \union {None}]
  BY DEF StoreInv, Typed, JobType
<1>2. \A p \in Pins : kept'[o] = p => Holds(o, p)'
  BY DEF StoreInv, InUse, Holds
<1>3. Turn(o)  BY <1>1, <1>2 DEF StoreInv, Turn
<1>. QED  BY <1>1, <1>3, TurnKeeps

LEMMA GivesBack ==
    ASSUME StoreInv, NEW o \in Owners, Quiet(o),
           UNCHANGED <<checkout, manifest, stored, litter>>,
           NEW xs, holder' = Released(o, xs), Capacity \notin xs,
           NEW j \in JobType, job' = [job EXCEPT ![o] = j],
           j = job[o] \/ j \in {Rest("done"), Rest("failed")},
           \/ kept' = kept /\ (\A p \in Pins : kept[o] = p => Tree(p) \notin xs)
           \/ kept' = [kept EXCEPT ![o] = None]
    PROVE  StoreInv' /\ Framed(o) /\ job'[o] = j
<1>1. job \in [Owners -> JobType] /\ holder \in [Items -> Owners \union {None}]
      /\ kept \in [Owners -> Pins \union {None}]
  BY DEF StoreInv, Typed, JobType
<1>2. /\ holder' \in [Items -> Owners \union {None}]
      /\ \A x \in Items : /\ x \notin xs => holder'[x] = holder[x]
                          /\ holder[x] # o => holder'[x] = holder[x]
  BY ReleasedFacts DEF StoreInv
<1>3. \A p \in Pins : kept'[o] = p => Holds(o, p)'
  BY <1>1, <1>2, PinsAssumption, Names DEF StoreInv, InUse, Holds
<1>4. job'[o] = j /\ job' \in [Owners -> JobType] /\ \A d \in Owners \ {o} : job'[d] = job[d]
  BY <1>1
<1>5. \/ job'[o] = job[o]
      \/ /\ job'[o].victim = None /\ job'[o].granted = 0
         /\ job'[o].step \in {"wait", "done", "failed"} /\ job'[o].item \notin Trees
  BY <1>4, RestFacts, Names
<1>6. kept' \in [Owners -> Pins \union {None}] /\ \A d \in Owners \ {o} : kept'[d] = kept[d]
  BY <1>1
<1>7. holder'[Capacity] = holder[Capacity]  BY <1>2, Names
<1>8. Turn(o)  BY <1>2, <1>3, <1>4, <1>5, <1>6, <1>7 DEF Turn
<1>. QED  BY <1>4, <1>8, TurnKeeps

LEMMA JobFields ==
    \A s, x : /\ Job(s, x).step = s /\ Job(s, x).item = x
              /\ Job(s, x).victim = None /\ Job(s, x).granted = 0
BY DEF Job

LEMMA Starts ==
    ASSUME StoreInv, NEW o \in Owners, Quiet(o), kept' = kept,
           UNCHANGED <<checkout, manifest, stored, litter, holder>>,
           NEW x \in Items, Start(o, x), x \in Trees => kept[o] = None
    PROVE  /\ StoreInv' /\ Framed(o)
           /\ job'[o] \in JobType /\ job'[o].step = "wait" /\ job'[o].item = x
<1>. DEFINE j == Job("wait", x)
<1>1. j \in JobType  BY JobTyped
<1>2. j.step = "wait" /\ j.item = x /\ j.victim = None /\ j.granted = 0  BY JobFields
<1>3. job' = [job EXCEPT ![o] = j]  BY DEF Start
<1>. HIDE DEF j
<1>4. StoreInv' /\ Framed(o) /\ job'[o] = j  BY <1>1, <1>2, <1>3, SetsOut
<1>. QED  BY <1>1, <1>2, <1>4

LEMMA Unchanged ==
    ASSUME IInv, UNCHANGED <<store, kept>>, NEW c \in Owners
    PROVE  StoreInv' /\ Framed(c) /\ job' = job /\ kept' = kept
           /\ \A p : Fetching(c, p) => Fetching(c, p)'
BY Still DEF IInv, store

LEMMA Research ==
    ASSUME IInv, NEW c \in Programs,
           \/ \E p \in Pins, S \in Batches, reuse \in BOOLEAN : BeginResearch(c, p, S, reuse)
           \/ MapReady(c) \/ EnvironmentReady(c) \/ ResearchFails(c)
           \/ \E s \in Symbols : NextSymbol(c, s)
           \/ SymbolDone(c) \/ Compute(c) \/ OpenWorker(c) \/ NoWorker(c)
           \/ StoreRelations(c) \/ Discard(c) \/ FinishResearch(c)
    PROVE  IInv'
<1>. c \in Owners /\ c # None  BY OwnersFacts
<1>t. /\ request \in [Programs -> RequestType] /\ request[c] \in RequestType
      /\ closed \in Nat /\ crashes \in Nat /\ commands \in Nat
      /\ StoreInv /\ Asking(c)
  BY DEF IInv, Asked, Requests
<1>j. job \in [Owners -> JobType] /\ job[c] \in JobType
  BY <1>t DEF StoreInv, Typed, JobType
<1>r. Rest("done") \in JobType /\ Rest("failed") \in JobType  BY RestTyped
<1>n. NoRequest \in RequestType /\ NoRequest.at = "idle"
  BY NoRequestTyped DEF NoRequest
\* Every step is a turn, and its request is sound.
<1>g. ASSUME StoreInv', Framed(c), NEW r \in RequestType, request' = [request EXCEPT ![c] = r],
             commands' \in Nat, UNCHANGED <<broker, closed, crashes>>,
             request[c].at \notin {"asking", "closing"}, Asking(c)'
      PROVE  IInv'
  <2>1. request' \in [Programs -> RequestType]
        /\ \A d \in Programs \ {c} : request'[d] = request[d]
    BY <1>t, <1>g
  <2>2. broker.asker # c  BY <1>g, NotAsker
  <2>. QED  BY <1>g, <1>t, <2>1, <2>2, SameBroker
<1>1. ASSUME NEW p \in Pins, NEW S \in Batches, NEW reuse \in BOOLEAN,
             BeginResearch(c, p, S, reuse)
      PROVE  IInv'
  <2>. DEFINE r == [NoRequest EXCEPT !.at = "map", !.pin = p, !.todo = S, !.reuse = reuse]
  <2>1. request' = [request EXCEPT ![c] = r]  BY <1>1 DEF BeginResearch
  <2>2. S \in SUBSET Symbols  BY BatchesAssumption
  <2>3. r \in RequestType /\ r.at = "map" /\ r.pin = p
    BY <2>2, PlacesFacts DEF NoRequest, RequestType
  <2>. HIDE DEF r
  <2>4. Quiet(c)  BY <1>1, <1>t DEF BeginResearch, Is, Asking
  <2>6. StoreInv' /\ Framed(c)
    <3>1. UNCHANGED <<checkout, manifest, stored, litter, holder>> /\ kept' = kept
          /\ Start(c, Map(p))
      BY <1>1 DEF BeginResearch, files
    <3>2. Map(p) \in Items /\ Map(p) \notin Trees  BY Names
    <3>. QED  BY <3>1, <3>2, <1>t, <2>4, Starts
  <2>7. request'[c] = r  BY <1>t, <2>1
  <2>8. Asking(c)'  BY <2>7, <2>3 DEF Asking, Is
  <2>9. commands' \in Nat /\ UNCHANGED <<broker, closed, crashes>> /\ request[c].at = "idle"
    <3>1. commands' = commands + 1 /\ UNCHANGED <<broker, closed, crashes>>
      BY <1>1 DEF BeginResearch
    <3>2. request[c].at = "idle"  BY <1>1 DEF BeginResearch, Is
    <3>. QED  BY <3>1, <3>2, <1>t
  <2>. QED  BY <1>g, <2>1, <2>3, <2>6, <2>8, <2>9
<1>2. CASE MapReady(c)
  <2>. DEFINE r == [request[c] EXCEPT !.at = "environment"]
  <2>1. request' = [request EXCEPT ![c] = r]  BY <1>2 DEF MapReady, Go
  <2>3. r \in RequestType /\ r.at = "environment" /\ r.pin = request[c].pin
    BY <1>t, PlacesFacts DEF RequestType
  <2>. HIDE DEF r
  <2>4. Quiet(c) /\ request[c].pin \in Pins  BY <1>2, <1>t DEF MapReady, Is, Asking, Quiet, At
  <2>6. StoreInv' /\ Framed(c)
    <3>1. UNCHANGED <<checkout, manifest, stored, litter, holder>> /\ kept' = kept
          /\ Start(c, Environment(request[c].pin))
      BY <1>2 DEF MapReady, files
    <3>2. Environment(request[c].pin) \in Items /\ Environment(request[c].pin) \notin Trees  BY Names, <2>4
    <3>. QED  BY <3>1, <3>2, <1>t, <2>4, Starts
  <2>7. request'[c] = r  BY <1>t, <2>1
  <2>8. Asking(c)'  BY <2>7, <2>3, <2>4 DEF Asking, Is
  <2>9. commands' \in Nat /\ UNCHANGED <<broker, closed, crashes>> /\ request[c].at = "map"
    BY <1>2, <1>t DEF MapReady, Is
  <2>. QED  BY <1>g, <2>1, <2>3, <2>6, <2>8, <2>9
<1>3. CASE EnvironmentReady(c)
  <2>. DEFINE r == [request[c] EXCEPT !.at = "symbols"]
  <2>1. request' = [request EXCEPT ![c] = r]  BY <1>3 DEF EnvironmentReady, Go
  <2>3. r \in RequestType /\ r.at = "symbols" /\ r.pin = request[c].pin
    BY <1>t, PlacesFacts DEF RequestType
  <2>. HIDE DEF r
  <2>4. Quiet(c) /\ request[c].pin \in Pins
    BY <1>3, <1>t DEF EnvironmentReady, Is, Asking, Quiet, At
  <2>6. StoreInv' /\ Framed(c) /\ job' = job  BY <1>3, Unchanged DEF EnvironmentReady
  <2>7. request'[c] = r  BY <1>t, <2>1
  <2>8. Asking(c)'  BY <2>7, <2>3, <2>4, <2>6 DEF Asking, Is, Quiet
  <2>9. commands' \in Nat /\ UNCHANGED <<broker, closed, crashes>> /\ request[c].at = "environment"
    BY <1>3, <1>t DEF EnvironmentReady, Is
  <2>. QED  BY <1>g, <2>1, <2>3, <2>6, <2>8, <2>9
<1>4. CASE ResearchFails(c)
  <2>1. request' = [request EXCEPT ![c] = NoRequest]  BY <1>4 DEF ResearchFails
  <2>4. Quiet(c)  BY <1>4 DEF ResearchFails, Quiet, At
  <2>6. StoreInv' /\ Framed(c) /\ job'[c] = Rest("done")
    <3>1. /\ UNCHANGED <<checkout, manifest, stored, litter, holder>> /\ kept' = kept
          /\ job' = [job EXCEPT ![c] = Rest("done")]
      BY <1>4 DEF ResearchFails, files
    <3>2. Capacity \notin Trees  BY Names
    <3>. QED  BY <3>1, <3>2, <1>t, <1>r, <2>4, RestFacts, SetsOut
  <2>7. request'[c] = NoRequest  BY <1>t, <2>1
  <2>8. Asking(c)'  BY <2>7, <1>n, <2>6, RestFacts DEF Asking, Is, Quiet
  <2>9. commands' \in Nat /\ UNCHANGED <<broker, closed, crashes>>
        /\ request[c].at \in {"map", "environment"}
    BY <1>4, <1>t DEF ResearchFails
  <2>. QED  BY <1>g, <1>n, <2>1, <2>6, <2>8, <2>9
<1>5. ASSUME NEW s \in Symbols, NextSymbol(c, s) PROVE IInv'
  <2>. DEFINE r == [request[c] EXCEPT !.at = "relations", !.symbol = s]
  <2>1. request' = [request EXCEPT ![c] = r]  BY <1>5 DEF NextSymbol
  <2>3. r \in RequestType /\ r.at = "relations" /\ r.pin = request[c].pin /\ r.symbol = s
    BY <1>t, PlacesFacts DEF RequestType
  <2>. HIDE DEF r
  <2>4. Quiet(c) /\ request[c].pin \in Pins  BY <1>5, <1>t DEF NextSymbol, Is, Asking
  <2>6. StoreInv' /\ Framed(c)
    <3>1. UNCHANGED <<checkout, manifest, stored, litter, holder>> /\ kept' = kept
          /\ Start(c, Relations(s))
      BY <1>5 DEF NextSymbol, files
    <3>2. Relations(s) \in Items /\ Relations(s) \notin Trees  BY Names
    <3>. QED  BY <3>1, <3>2, <1>t, <2>4, Starts
  <2>7. request'[c] = r  BY <1>t, <2>1
  <2>8. Asking(c)'  BY <2>7, <2>3, <2>4 DEF Asking, Is
  <2>9. commands' \in Nat /\ UNCHANGED <<broker, closed, crashes>> /\ request[c].at = "symbols"
    BY <1>5, <1>t DEF NextSymbol, Is
  <2>. QED  BY <1>g, <2>1, <2>3, <2>6, <2>8, <2>9
<1>6. CASE SymbolDone(c)
  <2>. DEFINE r == [request[c] EXCEPT !.at = "symbols",
                                      !.todo = request[c].todo \ {request[c].symbol},
                                      !.symbol = None]
  <2>1. request' = [request EXCEPT ![c] = r]  BY <1>6, <1>t DEF SymbolDone
  <2>3. r \in RequestType /\ r.at = "symbols" /\ r.pin = request[c].pin
    BY <1>t, PlacesFacts DEF RequestType
  <2>. HIDE DEF r
  <2>4. Quiet(c) /\ request[c].pin \in Pins  BY <1>6, <1>t DEF SymbolDone, Is, Asking, Quiet, Over
  <2>6. StoreInv' /\ Framed(c) /\ job' = job  BY <1>6, Unchanged DEF SymbolDone
  <2>7. request'[c] = r  BY <1>t, <2>1
  <2>8. Asking(c)'  BY <2>7, <2>3, <2>4, <2>6 DEF Asking, Is, Quiet
  <2>9. commands' \in Nat /\ UNCHANGED <<broker, closed, crashes>> /\ request[c].at = "relations"
    BY <1>6, <1>t DEF SymbolDone, Is
  <2>. QED  BY <1>g, <2>1, <2>3, <2>6, <2>8, <2>9
<1>7. CASE Compute(c)
  <2>4. /\ Quiet(c) /\ request[c].pin \in Pins /\ request[c].symbol \in Symbols
        /\ ~At(c, "done") /\ request[c].at = "relations"
    BY <1>7, <1>t DEF Compute, Is, Asking, Quiet, At
  <2>9. commands' \in Nat /\ UNCHANGED <<broker, closed, crashes>>  BY <1>7, <1>t DEF Compute
  <2>1. CASE kept[c] = None
    <3>. DEFINE r == [request[c] EXCEPT !.at = "tree"]
                p == request[c].pin
    <3>1. request' = [request EXCEPT ![c] = r]  BY <1>7, <2>1 DEF Compute, Go
    <3>3. r \in RequestType /\ r.at = "tree" /\ r.pin = p /\ r.symbol = request[c].symbol
      BY <1>t, PlacesFacts DEF RequestType
    <3>. HIDE DEF r
    <3>4. p \in Pins  BY <2>4
    <3>5. Tree(p) \in Items  BY <3>4, Names
    <3>6. /\ StoreInv' /\ Framed(c) /\ kept'[c] = None
          /\ job'[c].step = "wait" /\ job'[c].item = Tree(p)
      <4>1. UNCHANGED <<checkout, manifest, stored, litter, holder>> /\ kept' = kept
            /\ Start(c, Tree(p))
        BY <1>7, <2>1 DEF Compute, files
      <4>. HIDE DEF p
      <4>. QED  BY <4>1, <1>t, <2>1, <2>4, <3>5, Starts
    <3>7. request'[c] = r  BY <1>t, <3>1
    <3>. HIDE DEF p
    <3>8. Asking(c)'
      BY <3>7, <3>3, <3>4, <3>5, <2>4, <3>6 DEF Asking, Is, Fetching, At, Over
    <3>. QED  BY <1>g, <3>1, <3>3, <3>6, <3>8, <2>4, <2>9
  <2>2. CASE kept[c] # None
    <3>. DEFINE r == [request[c] EXCEPT !.at = "analyse"]
    <3>1. request' = [request EXCEPT ![c] = r]  BY <1>7, <2>2 DEF Compute, Go
    <3>3. r \in RequestType /\ r.at = "analyse" /\ r.pin = request[c].pin
          /\ r.symbol = request[c].symbol
      BY <1>t, PlacesFacts DEF RequestType
    <3>. HIDE DEF r
    <3>6. StoreInv' /\ Framed(c) /\ job' = job
      BY <1>7, <2>2, Unchanged DEF Compute, files, store
    <3>7. request'[c] = r  BY <1>t, <3>1
    <3>8. Asking(c)'  BY <3>7, <3>3, <2>4, <3>6 DEF Asking, Is, Quiet
    <3>. QED  BY <1>g, <3>1, <3>3, <3>6, <3>8, <2>4, <2>9
  <2>. QED  BY <2>1, <2>2
<1>8. CASE OpenWorker(c)
  <2>. DEFINE r == [request[c] EXCEPT !.at = "analyse"]
  <2>1. request' = [request EXCEPT ![c] = r]  BY <1>8 DEF OpenWorker, Go
  <2>3. r \in RequestType /\ r.at = "analyse" /\ r.pin = request[c].pin
        /\ r.symbol = request[c].symbol
    BY <1>t, PlacesFacts DEF RequestType
  <2>. HIDE DEF r
  <2>4. /\ Quiet(c) /\ request[c].pin \in Pins /\ request[c].symbol \in Symbols
        /\ Holds(c, request[c].pin)
    BY <1>8, <1>t DEF OpenWorker, Is, Asking, Quiet, At, Fetching
  <2>5. /\ UNCHANGED <<checkout, manifest, stored, litter, holder, job>>
        /\ kept' = [kept EXCEPT ![c] = request[c].pin]
    BY <1>8 DEF OpenWorker, store
  <2>6. StoreInv' /\ Framed(c)
    <3>1. kept' \in [Owners -> Pins \union {None}] /\ kept'[c] = request[c].pin
          /\ \A d \in Owners \ {c} : kept'[d] = kept[d]
      BY <2>4, <2>5, <1>t DEF StoreInv
    <3>2. \A p \in Pins : kept'[c] = p => Holds(c, p)'
      BY <3>1, <2>4, <2>5 DEF Holds
    <3>3. holder \in [Items -> Owners \union {None}]  BY <1>t DEF StoreInv, Typed
    <3>4. Turn(c)  BY <3>1, <3>2, <3>3, <2>4, <2>5, <1>j DEF Turn
    <3>. QED  BY <3>4, <1>t, TurnKeeps
  <2>7. request'[c] = r  BY <1>t, <2>1
  <2>8. Asking(c)'  BY <2>7, <2>3, <2>4, <2>5 DEF Asking, Is, Quiet
  <2>9. commands' \in Nat /\ UNCHANGED <<broker, closed, crashes>> /\ request[c].at = "tree"
    BY <1>8, <1>t DEF OpenWorker, Is
  <2>. QED  BY <1>g, <2>1, <2>3, <2>6, <2>8, <2>9
<1>9. CASE NoWorker(c)
  <2>. DEFINE r == [request[c] EXCEPT !.at = "bad"]
  <2>1. request' = [request EXCEPT ![c] = r]  BY <1>9 DEF NoWorker, Go
  <2>3. r \in RequestType /\ r.at = "bad" /\ r.pin = request[c].pin
        /\ r.symbol = request[c].symbol
    BY <1>t, PlacesFacts DEF RequestType
  <2>. HIDE DEF r
  <2>4. /\ Quiet(c) /\ request[c].pin \in Pins /\ request[c].symbol \in Symbols
        /\ kept[c] = None
    BY <1>9, <1>t DEF NoWorker, Is, Asking, Quiet, Over, Fetching
  <2>5. job' = [job EXCEPT ![c] = job[c]]  BY <1>9, <1>j DEF NoWorker
  <2>6. StoreInv' /\ Framed(c) /\ job'[c] = job[c]
    <3>1. Capacity \notin {Tree(request[c].pin)}  BY <2>4, Names
    <3>2. \A p \in Pins : kept[c] # p  BY <2>4, PinsAssumption
    <3>3. /\ UNCHANGED <<checkout, manifest, stored, litter>> /\ kept' = kept
          /\ holder' = Released(c, {Tree(request[c].pin)})
      BY <1>9 DEF NoWorker, files
    <3>. QED  BY <1>t, <1>j, <2>4, <2>5, <3>1, <3>2, <3>3, GivesBack
  <2>7. request'[c] = r  BY <1>t, <2>1
  <2>8. Asking(c)'  BY <2>7, <2>3, <2>4, <2>6 DEF Asking, Is, Quiet
  <2>9. commands' \in Nat /\ UNCHANGED <<broker, closed, crashes>> /\ request[c].at = "tree"
    BY <1>9, <1>t DEF NoWorker, Is
  <2>. QED  BY <1>g, <2>1, <2>3, <2>6, <2>8, <2>9
<1>10. CASE StoreRelations(c)
  <2>. DEFINE r == [request[c] EXCEPT !.at = "relations"]
  <2>1. request' = [request EXCEPT ![c] = r]  BY <1>10 DEF StoreRelations, Go
  <2>3. r \in RequestType /\ r.at = "relations" /\ r.pin = request[c].pin
        /\ r.symbol = request[c].symbol
    BY <1>t, PlacesFacts DEF RequestType
  <2>. HIDE DEF r
  <2>4. /\ Quiet(c) /\ request[c].pin \in Pins /\ request[c].symbol \in Symbols
    BY <1>10, <1>t DEF StoreRelations, Asking
  <2>5. Relations(request[c].symbol) \in Items /\ Relations(request[c].symbol) \notin Trees
    BY <2>4, Names
  <2>6. StoreInv' /\ Framed(c)
    <3>1. Job("room", Relations(request[c].symbol)) \in JobType  BY <2>5, JobTyped
    <3>. QED  BY <1>10, <1>t, <2>4, <2>5, <3>1, SetsOut DEF StoreRelations, files, Job
  <2>7. request'[c] = r  BY <1>t, <2>1
  <2>8. Asking(c)'  BY <2>7, <2>3, <2>4 DEF Asking, Is
  <2>9. commands' \in Nat /\ UNCHANGED <<broker, closed, crashes>>
        /\ request[c].at \in {"analyse", "good"}
    BY <1>10, <1>t DEF StoreRelations
  <2>. QED  BY <1>g, <2>1, <2>3, <2>6, <2>8, <2>9
<1>11. CASE Discard(c)
  <2>. DEFINE r == [request[c] EXCEPT !.at = "relations"]
  <2>1. request' = [request EXCEPT ![c] = r]  BY <1>11 DEF Discard, Go
  <2>3. r \in RequestType /\ r.at = "relations" /\ r.pin = request[c].pin
        /\ r.symbol = request[c].symbol
    BY <1>t, PlacesFacts DEF RequestType
  <2>. HIDE DEF r
  <2>9. commands' \in Nat /\ UNCHANGED <<broker, closed, crashes>>
        /\ request[c].at \in {"analyse", "bad", "good"}
    BY <1>11, <1>t DEF Discard, Is
  <2>4. /\ Quiet(c) /\ request[c].pin \in Pins /\ request[c].symbol \in Symbols
    BY <2>9, <1>t DEF Asking
  <2>6. StoreInv' /\ Framed(c)
    <3>1. Capacity \notin {Relations(request[c].symbol)}
          /\ \A p \in Pins : Tree(p) \notin {Relations(request[c].symbol)}
      BY <2>4, Names
    <3>2. /\ UNCHANGED <<checkout, manifest, stored, litter>> /\ kept' = kept
          /\ holder' = Released(c, {Relations(request[c].symbol)})
          /\ job' = [job EXCEPT ![c] = Rest("failed")]
      BY <1>11 DEF Discard, files
    <3>. QED  BY <1>t, <1>r, <2>4, <3>1, <3>2, GivesBack
  <2>7. request'[c] = r  BY <1>t, <2>1
  <2>8. Asking(c)'  BY <2>7, <2>3, <2>4 DEF Asking, Is
  <2>. QED  BY <1>g, <2>1, <2>3, <2>6, <2>8, <2>9
<1>12. CASE FinishResearch(c)
  <2>1. request' = [request EXCEPT ![c] = NoRequest]  BY <1>12 DEF FinishResearch
  <2>4. Quiet(c)  BY <1>12, <1>t DEF FinishResearch, Is, Asking
  <2>6. StoreInv' /\ Framed(c) /\ job'[c] = Rest("done")
    <3>1. /\ UNCHANGED <<checkout, manifest, stored, litter>>
          /\ kept' = [kept EXCEPT ![c] = None]
          /\ holder' = Released(c, Trees)
          /\ job' = [job EXCEPT ![c] = Rest("done")]
      BY <1>12 DEF FinishResearch, files
    <3>. QED  BY <1>t, <1>r, <2>4, <3>1, Names, GivesBack
  <2>7. request'[c] = NoRequest  BY <1>t, <2>1
  <2>8. Asking(c)'  BY <2>7, <1>n, <2>6, RestFacts DEF Asking, Is, Quiet
  <2>9. commands' \in Nat /\ UNCHANGED <<broker, closed, crashes>> /\ request[c].at = "symbols"
    BY <1>12, <1>t DEF FinishResearch, Is
  <2>. QED  BY <1>g, <1>n, <2>1, <2>6, <2>8, <2>9
<1>. QED
  BY <1>1, <1>2, <1>3, <1>4, <1>5, <1>6, <1>7, <1>8, <1>9, <1>10, <1>11, <1>12

\* Submitting to the broker and leaving it change its queue and its asker.
LEMMA SubmitTyped ==
    ASSUME IInv, NEW c \in Programs, Submit(c)
    PROVE  /\ broker' \in [phase : {"off", "up", "leaving"}, gen : Nat, at : {broker.at},
                           queue : {broker'.queue}, wake : {broker'.wake},
                           task : Pins \union {None}, asker : {broker.asker, None}]
           /\ broker'.task = broker.task /\ broker'.phase = broker.phase
           /\ broker'.asker = broker.asker
BY DEF IInv, Asked, BrokerType, Submit

LEMMA LeaveTyped ==
    ASSUME IInv, NEW c \in Programs
    PROVE  /\ Leave(c) \in [phase : {"off", "up", "leaving"}, gen : Nat, at : {broker.at},
                            queue : {Leave(c).queue}, wake : {Leave(c).wake},
                            task : Pins \union {None}, asker : {broker.asker, None}]
           /\ Leave(c).task = broker.task /\ Leave(c).phase = broker.phase
           /\ Leave(c).asker # c
<1>1. c # None  BY OwnersFacts
<1>. QED  BY <1>1 DEF IInv, Asked, BrokerType, Leave

LEMMA UnansweredSound ==
    ASSUME IInv, NEW c \in Programs, request[c].at \in {"asking", "closing"},
           job'[c] = job[c], request' = Unanswered(c)
    PROVE  /\ request' \in [Programs -> RequestType] /\ Asking(c)'
           /\ \A d \in Programs \ {c} : request'[d] = request[d]
<1>t. /\ request \in [Programs -> RequestType] /\ request[c] \in RequestType /\ Asking(c)
  BY DEF IInv, Asked, Requests
<1>q. Quiet(c) /\ (Is(c, "asking") => request[c].pin \in Pins /\ request[c].symbol \in Symbols)
  BY <1>t DEF Asking, Is
<1>1. CASE Is(c, "asking")
  <2>. DEFINE r == [request[c] EXCEPT !.at = "bad"]
  <2>1. request' = [request EXCEPT ![c] = r]  BY <1>1 DEF Unanswered
  <2>2. r \in RequestType /\ r.at = "bad" /\ r.pin = request[c].pin
        /\ r.symbol = request[c].symbol
    BY <1>t, PlacesFacts DEF RequestType
  <2>. HIDE DEF r
  <2>3. request'[c] = r /\ request' \in [Programs -> RequestType]
        /\ \A d \in Programs \ {c} : request'[d] = request[d]
    BY <2>1, <2>2, <1>t
  <2>4. Asking(c)'  BY <2>2, <2>3, <1>1, <1>q DEF Asking, Is, Quiet
  <2>. QED  BY <2>3, <2>4
<1>2. CASE ~Is(c, "asking")
  <2>1. request' = [request EXCEPT ![c] = NoRequest]  BY <1>2 DEF Unanswered
  <2>2. NoRequest \in RequestType /\ NoRequest.at = "idle"  BY NoRequestTyped DEF NoRequest
  <2>3. request'[c] = NoRequest /\ request' \in [Programs -> RequestType]
        /\ \A d \in Programs \ {c} : request'[d] = request[d]
    BY <2>1, <2>2, <1>t
  <2>4. Asking(c)'  BY <2>2, <2>3, <1>q DEF Asking, Is, Quiet
  <2>. QED  BY <2>3, <2>4
<1>. QED  BY <1>1, <1>2

LEMMA Broking ==
    ASSUME IInv, NEW c \in Programs,
           \/ Launch(c) \/ Unavailable(c) \/ Ask(c) \/ Withdraw(c) \/ Disconnected(c)
    PROVE  IInv'
<1>. c \in Owners /\ c # None  BY OwnersFacts
<1>t. /\ request \in [Programs -> RequestType] /\ request[c] \in RequestType
      /\ closed \in Nat /\ crashes \in Nat /\ commands \in Nat
      /\ StoreInv /\ Asking(c) /\ broker \in BrokerType
  BY DEF IInv, Asked, Requests
<1>u. UNCHANGED <<store, kept, closed, crashes, commands>>
  BY DEF Launch, Unavailable, Ask, Withdraw, Disconnected
<1>s. /\ StoreInv' /\ Framed(c) /\ job' = job /\ kept' = kept
      /\ closed' \in Nat /\ crashes' \in Nat /\ commands' \in Nat
  BY <1>u, <1>t, Unchanged
<1>w. Wants(c) => /\ Quiet(c) /\ request[c].at = "relations" /\ request[c].pin \in Pins
                  /\ request[c].symbol \in Symbols
  BY <1>t DEF Wants, Is, At, Quiet, Asking
<1>g. ASSUME NEW place \in {"bad", "asking"}, Wants(c), Go(c, place)
      PROVE  /\ request' \in [Programs -> RequestType] /\ Asking(c)'
             /\ \A d \in Programs \ {c} : request'[d] = request[d]
  <2>. DEFINE r == [request[c] EXCEPT !.at = place]
  <2>1. request' = [request EXCEPT ![c] = r]  BY <1>g DEF Go
  <2>2. r \in RequestType /\ r.at = place /\ r.pin = request[c].pin
        /\ r.symbol = request[c].symbol
    BY <1>t, <1>g, PlacesFacts DEF RequestType
  <2>. HIDE DEF r
  <2>3. request'[c] = r /\ request' \in [Programs -> RequestType]
        /\ \A d \in Programs \ {c} : request'[d] = request[d]
    BY <2>1, <2>2, <1>t
  <2>4. Asking(c)'  BY <2>2, <2>3, <1>g, <1>w, <1>s DEF Asking, Is, Quiet
  <2>. QED  BY <2>3, <2>4
<1>a. Wants(c) => broker.asker # c  BY <1>w, NotAsker
<1>1. CASE Launch(c)
  <2>1. request' = request  BY <1>1 DEF Launch
  <2>2. broker.phase = "off" /\ broker.at = "select"
    BY <1>1 DEF Launch, IInv, Answering
  <2>3. /\ broker' \in [phase : {"off", "up", "leaving"}, gen : Nat, at : {broker.at},
                        queue : {broker'.queue}, wake : {broker'.wake},
                        task : Pins \union {None}, asker : {broker.asker, None}]
        /\ broker'.phase = "up" /\ broker'.asker = None
    <3>1. broker.gen + 1 \in Nat  BY <1>t DEF BrokerType
    <3>2. broker' = [phase |-> "up", gen |-> broker.gen + 1, at |-> "select", queue |-> <<>>,
                     wake |-> FALSE, task |-> None, asker |-> None]
      BY <1>1 DEF Launch, Off
    <3>. QED  BY <2>2, <3>1, <3>2
  <2>4. Asking(c)'  BY <1>t, <1>w, <1>1, <1>s, <2>1 DEF Launch, Asking, Is, Quiet
  <2>. QED  BY <1>s, <1>t, <2>1, <2>2, <2>3, <2>4, ProgramShape
<1>2. CASE Unavailable(c)
  <2>1. Wants(c) /\ Go(c, "bad") /\ broker' = broker  BY <1>2 DEF Unavailable
  <2>. QED  BY <1>s, <1>a, <1>g, <2>1, SameBroker
<1>3. CASE Ask(c)
  <2>1. Wants(c) /\ Go(c, "asking") /\ Submit(c)  BY <1>3 DEF Ask
  <2>. QED  BY <1>s, <1>a, <1>g, <2>1, SubmitTyped, ProgramShape
<1>4. CASE Withdraw(c)
  <2>1. /\ request[c].at \in {"asking", "closing"} /\ request' = Unanswered(c)
        /\ broker' = Leave(c)
    BY <1>4 DEF Withdraw
  <2>2. /\ request' \in [Programs -> RequestType] /\ Asking(c)'
        /\ \A d \in Programs \ {c} : request'[d] = request[d]
    BY <2>1, <1>s, UnansweredSound
  <2>. QED  BY <1>s, <2>1, <2>2, LeaveTyped, ProgramShape
<1>5. CASE Disconnected(c)
  <2>1. /\ request[c].at \in {"asking", "closing"} /\ request' = Unanswered(c)
        /\ broker' = broker /\ broker.asker # c
    BY <1>5 DEF Disconnected, Waiting
  <2>2. /\ request' \in [Programs -> RequestType] /\ Asking(c)'
        /\ \A d \in Programs \ {c} : request'[d] = request[d]
    BY <2>1, <1>s, UnansweredSound
  <2>. QED  BY <1>s, <2>1, <2>2, SameBroker
<1>. QED  BY <1>1, <1>2, <1>3, <1>4, <1>5

LEMMA Closing ==
    ASSUME IInv, NEW c \in Programs,
           \/ \E prune \in BOOLEAN : BeginClose(c, prune)
           \/ NoBroker(c) \/ AskRetirement(c) \/ Exited(c) \/ CloseFails(c) \/ PruneEnds(c)
    PROVE  IInv'
<1>. c \in Owners /\ c # None  BY OwnersFacts
<1>t. /\ request \in [Programs -> RequestType] /\ request[c] \in RequestType
      /\ closed \in Nat /\ crashes \in Nat /\ commands \in Nat
      /\ StoreInv /\ Asking(c) /\ broker \in BrokerType
  BY DEF IInv, Asked, Requests
<1>n. NoRequest \in RequestType /\ NoRequest.at = "idle"
  BY NoRequestTyped DEF NoRequest
<1>g. ASSUME StoreInv', Framed(c), NEW r \in RequestType, request' = [request EXCEPT ![c] = r],
             commands' \in Nat, closed' \in Nat, UNCHANGED <<broker, crashes>>,
             request[c].at \notin {"asking", "closing"}, Asking(c)'
      PROVE  IInv'
  <2>1. request' \in [Programs -> RequestType]
        /\ \A d \in Programs \ {c} : request'[d] = request[d]
    BY <1>t, <1>g
  <2>2. broker.asker # c  BY <1>g, NotAsker
  <2>. QED  BY <1>g, <1>t, <2>1, <2>2, SameBroker
<1>i. ASSUME request' = [request EXCEPT ![c] = NoRequest], Quiet(c)'
      PROVE  Asking(c)'
  BY <1>i, <1>t, <1>n DEF Asking, Is
\* The broker is out of the way.
<1>p. ASSUME Proceed(c), request[c].at \in {"retire", "exit"}, closed' \in Nat,
             UNCHANGED <<files, holder, kept, broker, crashes, commands>>
      PROVE  IInv'
  <2>q. Quiet(c)  BY <1>p, <1>t DEF Asking
  <2>u. UNCHANGED <<checkout, manifest, stored, litter, holder>> /\ kept' = kept
        /\ commands' \in Nat
    BY <1>p, <1>t DEF files
  <2>1. CASE request[c].prune
    <3>. DEFINE r == [request[c] EXCEPT !.at = "pruning", !.late = FALSE]
                j == Job("room", Capacity)
    <3>1. request' = [request EXCEPT ![c] = r] /\ job' = [job EXCEPT ![c] = j]
      BY <1>p, <2>1 DEF Proceed
    <3>2. r \in RequestType /\ r.at = "pruning"
      BY <1>t, PlacesFacts DEF RequestType
    <3>3. /\ j \in JobType /\ j.step = "room" /\ j.item = Capacity /\ j.victim = None
          /\ j.granted = 0 /\ Capacity \notin Trees
      BY JobTyped, JobFields, Names
    <3>. HIDE DEF r, j
    <3>4. StoreInv' /\ Framed(c)  BY <1>t, <2>q, <2>u, <3>1, <3>3, SetsOut
    <3>5. Asking(c)'  BY <1>t, <3>1, <3>2 DEF Asking, Is
    <3>. QED  BY <1>p, <1>g, <2>u, <3>1, <3>2, <3>4, <3>5
  <2>2. CASE ~request[c].prune
    <3>1. request' = [request EXCEPT ![c] = NoRequest] /\ job' = job
      BY <1>p, <2>2 DEF Proceed
    <3>2. UNCHANGED <<store, kept>>  BY <2>u, <3>1 DEF store
    <3>3. StoreInv' /\ Framed(c)  BY <3>2, Unchanged
    <3>4. Asking(c)'  BY <1>i, <2>q, <3>1 DEF Quiet
    <3>. QED  BY <1>p, <1>g, <1>n, <2>u, <3>1, <3>3, <3>4
  <2>. QED  BY <2>1, <2>2
<1>1. ASSUME NEW prune \in BOOLEAN, BeginClose(c, prune) PROVE IInv'
  <2>. DEFINE r == [NoRequest EXCEPT !.at = "retire", !.prune = prune]
  <2>1. request' = [request EXCEPT ![c] = r] /\ request[c].at = "idle"
    BY <1>1 DEF BeginClose, Is
  <2>2. r \in RequestType /\ r.at = "retire"
    BY PlacesFacts DEF NoRequest, RequestType
  <2>. HIDE DEF r
  <2>3. UNCHANGED <<store, kept, broker, closed, crashes>> /\ commands' = commands + 1
    BY <1>1 DEF BeginClose
  <2>4. commands' \in Nat /\ closed' \in Nat  BY <2>3, <1>t
  <2>5. StoreInv' /\ Framed(c) /\ job' = job  BY <2>3, Unchanged
  <2>6. Asking(c)'  BY <1>t, <2>1, <2>2, <2>5 DEF Asking, Is, Quiet
  <2>. QED  BY <1>g, <2>1, <2>2, <2>3, <2>4, <2>5, <2>6
<1>2. CASE NoBroker(c)
  <2>1. /\ Proceed(c) /\ request[c].at = "retire" /\ closed' = closed
        /\ UNCHANGED <<files, holder, kept, broker, crashes, commands>>
    BY <1>2 DEF NoBroker, Is
  <2>. QED  BY <1>p, <1>t, <2>1
<1>3. CASE AskRetirement(c)
  <2>. DEFINE r == [request[c] EXCEPT !.at = "closing"]
  <2>1. /\ request' = [request EXCEPT ![c] = r] /\ request[c].at = "retire" /\ Submit(c)
        /\ UNCHANGED <<store, kept, closed, crashes, commands>>
    BY <1>3 DEF AskRetirement, Is, Go
  <2>2. r \in RequestType /\ r.at = "closing"
    BY <1>t, PlacesFacts DEF RequestType
  <2>. HIDE DEF r
  <2>3. StoreInv' /\ Framed(c) /\ job' = job  BY <2>1, Unchanged
  <2>4. Asking(c)'  BY <1>t, <2>1, <2>2, <2>3 DEF Asking, Is, Quiet
  <2>5. request' \in [Programs -> RequestType]
        /\ \A d \in Programs \ {c} : request'[d] = request[d]
    BY <1>t, <2>1, <2>2
  <2>6. broker.asker # c  BY <2>1, NotAsker
  <2>. QED  BY <1>t, <2>1, <2>3, <2>4, <2>5, <2>6, SubmitTyped, ProgramShape
<1>4. CASE Exited(c)
  <2>1. /\ Proceed(c) /\ request[c].at = "exit"
        /\ closed' \in {closed, request[c].peer}
        /\ UNCHANGED <<files, holder, kept, broker, crashes, commands>>
    BY <1>4 DEF Exited, Is
  <2>2. closed' \in Nat  BY <1>t, <2>1 DEF RequestType
  <2>. QED  BY <1>p, <2>1, <2>2
<1>5. CASE CloseFails(c)
  <2>1. /\ request' = [request EXCEPT ![c] = NoRequest] /\ request[c].at \in {"retire", "exit"}
        /\ UNCHANGED <<store, kept, broker, closed, crashes, commands>>
    BY <1>5 DEF CloseFails, Is
  <2>2. Quiet(c)  BY <2>1, <1>t DEF Asking
  <2>3. StoreInv' /\ Framed(c) /\ job' = job  BY <2>1, Unchanged
  <2>4. Asking(c)'  BY <1>i, <2>1, <2>2, <2>3 DEF Quiet
  <2>. QED  BY <1>g, <1>t, <1>n, <2>1, <2>3, <2>4
<1>6. CASE PruneEnds(c)
  <2>1. /\ request' = [request EXCEPT ![c] = NoRequest] /\ request[c].at = "pruning"
        /\ job' = [job EXCEPT ![c] = Rest("done")] /\ Quiet(c) /\ kept' = kept
        /\ UNCHANGED <<checkout, manifest, stored, litter, holder, broker, closed, crashes,
                       commands>>
    BY <1>6 DEF PruneEnds, Is, Over, Quiet, files
  <2>2. StoreInv' /\ Framed(c) /\ job'[c] = Rest("done")
    <3>1. Rest("done") \in JobType /\ Capacity \notin Trees  BY RestTyped, Names
    <3>. QED  BY <1>t, <2>1, <3>1, RestFacts, SetsOut
  <2>3. Asking(c)'  BY <1>i, <2>1, <2>2, RestFacts DEF Quiet
  <2>. QED  BY <1>g, <1>t, <1>n, <2>1, <2>2, <2>3
<1>. QED  BY <1>1, <1>2, <1>3, <1>4, <1>5, <1>6

\* Steps in the store, and cancellation, under a request that stays where it is.
LEMMA WorkKeeps ==
    ASSUME IInv, NEW o \in Owners, StoreStep(o) \/ GiveUp(o),
           UNCHANGED <<kept, broker, closed, crashes, commands>>,
           request' \in [Programs -> RequestType],
           \A c \in Programs : /\ request'[c].at = request[c].at
                               /\ request'[c].pin = request[c].pin
                               /\ request'[c].symbol = request[c].symbol
    PROVE  IInv'
<1>1. /\ StoreInv' /\ Framed(o) /\ ~Quiet(o) /\ ~Over(o)
      /\ \A p : Fetching(o, p) => Fetching(o, p)'
  BY StoreWork DEF IInv
<1>2. \A d \in Owners : \A p : Fetching(d, p) => Fetching(d, p)'
  BY <1>1 DEF Framed
<1>3. ASSUME NEW c \in Programs PROVE Asking(c)'
  <2>1. c \in Owners /\ Asking(c)  BY OwnersFacts DEF IInv, Requests
  <2>2. CASE c = o
    BY <2>1, <2>2, <1>1, <1>2 DEF Asking, Is
  <2>3. CASE c # o
    <3>1. job'[c] = job[c]  BY <2>1, <2>3, <1>1 DEF Framed
    <3>. QED  BY <2>1, <3>1, <1>2 DEF Asking, Is, Quiet
  <2>. QED  BY <2>2, <2>3
<1>4. Asked'  BY DEF IInv, Asked, BrokerType
<1>5. Answering'
  <2>1. Answering /\ Broker \in Owners /\ broker' = broker /\ kept' = kept
    BY OwnersFacts DEF IInv
  <2>2. broker.at \in {"select", "analyse", "parting"} => Over(Broker)'
    <3>1. CASE o = Broker  BY <3>1, <2>1, <1>1 DEF Answering
    <3>2. CASE o # Broker
      <4>1. job'[Broker] = job[Broker]  BY <3>2, <2>1, <1>1 DEF Framed
      <4>. QED  BY <4>1, <2>1 DEF Answering, Over
    <3>. QED  BY <3>1, <3>2
  <2>3. broker.asker # None => request'[broker.asker].at = request[broker.asker].at
    BY DEF IInv, Asked, BrokerType
  <2>. QED  BY <2>1, <2>2, <2>3, <1>2 DEF Answering
<1>. QED  BY <1>1, <1>3, <1>4, <1>5 DEF IInv, Requests

LEMMA ExpireKeeps == ASSUME IInv, NEW c \in Programs, Expire(c) PROVE IInv'
<1>. c \in Owners /\ c # None  BY OwnersFacts
<1>t. request \in [Programs -> RequestType] /\ closed \in Nat /\ crashes \in Nat /\ commands \in Nat
  BY DEF IInv, Asked
<1>1. /\ request' \in [Programs -> RequestType]
      /\ \A d \in Programs : /\ request'[d].at = request[d].at
                             /\ request'[d].pin = request[d].pin
                             /\ request'[d].symbol = request[d].symbol
      /\ \A d \in Programs \ {c} : request'[d] = request[d]
  <2>1. request' = [request EXCEPT ![c].late = TRUE]  BY DEF Expire
  <2>. QED  BY <2>1, <1>t DEF RequestType
<1>2. CASE Stoppable(c)
  <2>1. GiveUp(c) /\ UNCHANGED <<kept, broker, closed, crashes, commands>>
    BY <1>2 DEF Expire
  <2>. QED  BY <2>1, <1>1, WorkKeeps
<1>3. CASE ~Stoppable(c)
  <2>1. UNCHANGED <<store, kept, broker, closed, crashes, commands>>  BY <1>3 DEF Expire
  <2>2. /\ StoreInv' /\ Framed(c) /\ job' = job
        /\ \A p : Fetching(c, p) => Fetching(c, p)'
    BY <2>1, Unchanged
  <2>3. Asking(c)  BY DEF IInv, Requests
  <2>4. Asking(c)'  BY <1>1, <2>2, <2>3 DEF Asking, Is, Quiet
  <2>. QED  BY <1>1, <1>t, <2>1, <2>2, <2>4, SameBroker
<1>. QED  BY <1>2, <1>3

LEMMA ProgramDiesKeeps == ASSUME IInv, NEW c \in Programs, ProgramDies(c) PROVE IInv'
<1>. c \in Owners /\ c # None  BY OwnersFacts
<1>t. request \in [Programs -> RequestType] /\ closed \in Nat /\ crashes \in Nat /\ commands \in Nat
      /\ StoreInv
  BY DEF IInv, Asked
<1>1. /\ Die(c) /\ kept' = [kept EXCEPT ![c] = None] /\ broker' = Leave(c)
      /\ request' = [request EXCEPT ![c] = NoRequest] /\ crashes' = crashes + 1
      /\ UNCHANGED <<closed, commands>>
  BY DEF ProgramDies
<1>2. StoreInv' /\ Framed(c) /\ Over(c)'  BY <1>1, <1>t, DeathKeeps
<1>3. /\ request' \in [Programs -> RequestType] /\ request'[c] = NoRequest
      /\ \A d \in Programs \ {c} : request'[d] = request[d]
  BY <1>1, <1>t, NoRequestTyped
<1>4. Asking(c)'  BY <1>2, <1>3 DEF Asking, Is, Quiet, Over, NoRequest
<1>5. closed' \in Nat /\ crashes' \in Nat /\ commands' \in Nat  BY <1>1, <1>t
<1>. QED  BY <1>1, <1>2, <1>3, <1>4, <1>5, LeaveTyped, ProgramShape

-----------------------------------------------------------------------------
(* The broker.                                                                *)
LEMMA BrokerShape ==
    ASSUME IInv, StoreInv', Framed(Broker), Answering',
           request' \in [Programs -> RequestType],
           \A d \in Programs : request'[d] = request[d] \/ Asking(d)',
           NEW b, broker' = b,
           b \in [phase : {"off", "up", "leaving"}, gen : Nat,
                  at : {"select", "map", "environment", "tree", "analyse", "parting"},
                  queue : {b.queue}, wake : {b.wake},
                  task : Pins \union {None}, asker : Programs \union {None}],
           crashes' \in Nat, UNCHANGED <<closed, commands>>
    PROVE  IInv'
<1>1. Asked'  BY DEF IInv, Asked, BrokerType
<1>2. ASSUME NEW d \in Programs PROVE Asking(d)'
  <2>1. d \in Owners /\ d # Broker  BY OwnersAssumption DEF Owners
  <2>2. Asking(d)  BY DEF IInv, Requests
  <2>3. job'[d] = job[d] /\ \A p : Fetching(d, p) => Fetching(d, p)'
    BY <2>1 DEF Framed
  <2>4. CASE request'[d] = request[d]
    BY <2>2, <2>3, <2>4 DEF Asking, Quiet, Is
  <2>. QED  BY <2>4
<1>. QED  BY <1>1, <1>2 DEF IInv, Requests

\* Telling the program that asked.
LEMMA ToldSound ==
    ASSUME IInv, NEW place \in {"good", "bad", "exit"}, Framed(Broker),
           NEW c, c = broker.asker, c # None,
           place \in {"good", "bad"} => broker.at # "parting",
           NEW r \in RequestType, r.at = place, r.pin = request[c].pin,
           r.symbol = request[c].symbol,
           request' = [request EXCEPT ![c] = r]
    PROVE  /\ request' \in [Programs -> RequestType]
           /\ \A d \in Programs : request'[d] = request[d] \/ Asking(d)'
<1>t. request \in [Programs -> RequestType] /\ c \in Programs /\ c \in Owners /\ c # Broker
  BY OwnersAssumption DEF IInv, Asked, BrokerType, Owners
<1>1. request' \in [Programs -> RequestType] /\ request'[c] = r
      /\ \A d \in Programs \ {c} : request'[d] = request[d]
  BY <1>t
<1>2. request[c].at = IF broker.at = "parting" THEN "closing" ELSE "asking"
  BY DEF IInv, Answering
<1>3. Asking(c)  BY <1>t DEF IInv, Requests
<1>4. job'[c] = job[c]  BY <1>t DEF Framed
<1>5. Asking(c)'
  BY <1>1, <1>2, <1>3, <1>4 DEF Asking, Is, Quiet
<1>. QED  BY <1>1, <1>5

LEMMA RetireKeeps ==
    ASSUME StoreInv, NEW drop \in BOOLEAN, Retired(drop), Quiet(Broker),
           UNCHANGED <<checkout, manifest, stored, litter>>,
           NEW j \in JobType, job' = [job EXCEPT ![Broker] = j],
           \/ j = job[Broker]
           \/ /\ j.victim = None /\ j.granted = 0 /\ j.item \notin Trees
              /\ j.step \in {"wait", "done", "failed"}
    PROVE  /\ StoreInv' /\ Framed(Broker) /\ job'[Broker] = j
           /\ kept'[Broker] = IF drop THEN None ELSE kept[Broker]
<1>. Broker \in Owners  BY OwnersFacts
<1>1. /\ job \in [Owners -> JobType] /\ holder \in [Items -> Owners \union {None}]
      /\ kept \in [Owners -> Pins \union {None}]
  BY DEF StoreInv, Typed, JobType
<1>2. job'[Broker] = j /\ job' \in [Owners -> JobType]
      /\ \A d \in Owners \ {Broker} : job'[d] = job[d]
  BY <1>1
<1>3. /\ kept' \in [Owners -> Pins \union {None}]
      /\ kept'[Broker] = IF drop THEN None ELSE kept[Broker]
      /\ \A d \in Owners \ {Broker} : kept'[d] = kept[d]
  BY <1>1 DEF Retired
<1>4. /\ holder' \in [Items -> Owners \union {None}]
      /\ holder'[Capacity] = holder[Capacity]
      /\ \A x \in Items : holder[x] # Broker => holder'[x] = holder[x]
  <2>1. CASE drop
    <3>1. holder' = Released(Broker, Trees)  BY <2>1 DEF Retired
    <3>2. /\ Released(Broker, Trees) \in [Items -> Owners \union {None}]
          /\ \A x \in Items : /\ x \notin Trees => Released(Broker, Trees)[x] = holder[x]
                              /\ holder[x] # Broker => Released(Broker, Trees)[x] = holder[x]
      BY ReleasedFacts DEF StoreInv
    <3>. QED  BY <3>1, <3>2, Names
  <2>2. CASE ~drop
    BY <2>2, <1>1 DEF Retired
  <2>. QED  BY <2>1, <2>2
<1>5. \A p \in Pins : kept'[Broker] = p => Holds(Broker, p)'
  <2>1. CASE drop  BY <2>1, <1>3, PinsAssumption
  <2>2. CASE ~drop
    <3>1. holder' = holder  BY <2>2 DEF Retired
    <3>2. \A p \in Pins : kept[Broker] = p => Holds(Broker, p)  BY DEF StoreInv, InUse
    <3>. QED  BY <2>2, <3>1, <3>2, <1>3 DEF Holds
  <2>. QED  BY <2>1, <2>2
<1>6. \/ job'[Broker] = job[Broker]
      \/ /\ job'[Broker].victim = None /\ job'[Broker].granted = 0
         /\ job'[Broker].step \in {"wait", "done", "failed"} /\ job'[Broker].item \notin Trees
  BY <1>2
<1>7. Turn(Broker)  BY <1>2, <1>3, <1>4, <1>5, <1>6 DEF Turn
<1>. QED  BY <1>2, <1>3, <1>7, TurnKeeps

\* The same with a job that stays as it is.
LEMMA RetireAlone ==
    ASSUME StoreInv, NEW drop \in BOOLEAN, Retired(drop), Quiet(Broker), UNCHANGED <<files, job>>
    PROVE  /\ StoreInv' /\ Framed(Broker)
           /\ kept'[Broker] = IF drop THEN None ELSE kept[Broker]
<1>1. /\ job \in [Owners -> JobType] /\ Broker \in Owners
  BY OwnersFacts DEF StoreInv, Typed, JobType
<1>2. job[Broker] \in JobType /\ job' = [job EXCEPT ![Broker] = job[Broker]]
  BY <1>1
<1>3. UNCHANGED <<checkout, manifest, stored, litter>>  BY DEF files
<1>. QED  BY <1>2, <1>3, RetireKeeps

\* The worker takes a task.
LEMMA Taking ==
    ASSUME IInv, \/ WakeInVain
                 \/ \E c \in Programs : TakeRetirement(c)
                 \/ \E c \in Programs, worn \in BOOLEAN : TakeLate(c, worn) \/ TakeAnalysis(c, worn)
    PROVE  IInv'
<1>t. /\ StoreInv /\ broker \in BrokerType /\ request \in [Programs -> RequestType]
      /\ crashes \in Nat /\ Answering /\ Broker \in Owners
  BY OwnersFacts DEF IInv, Asked
<1>q. broker.at = "select" => Over(Broker) /\ Quiet(Broker)
  BY <1>t DEF Answering, Over, Quiet
<1>1. CASE WakeInVain
  <2>. DEFINE b == [broker EXCEPT !.wake = FALSE]
  <2>1. broker' = b /\ UNCHANGED <<store, request, kept, closed, crashes, commands>>
    BY <1>1 DEF WakeInVain
  <2>2. b \in [phase : {"off", "up", "leaving"}, gen : Nat,
               at : {"select", "map", "environment", "tree", "analyse", "parting"},
               queue : {b.queue}, wake : {b.wake},
               task : Pins \union {None}, asker : Programs \union {None}]
        /\ b.at = broker.at /\ b.phase = broker.phase /\ b.task = broker.task
        /\ b.asker = broker.asker
    BY <1>t DEF BrokerType
  <2>. HIDE DEF b
  <2>3. /\ StoreInv' /\ Framed(Broker) /\ job' = job /\ kept' = kept
        /\ \A p : Fetching(Broker, p) => Fetching(Broker, p)'
    BY <1>t, <2>1, Unchanged
  <2>4. Answering'  BY <1>t, <2>1, <2>2, <2>3 DEF Answering, Over
  <2>. QED  BY <1>t, <2>1, <2>2, <2>3, <2>4, BrokerShape
<1>2. ASSUME NEW c \in Programs, TakeRetirement(c) PROVE IInv'
  <2>. DEFINE b == [Next1 EXCEPT !.at = "parting"]
  <2>1. /\ broker' = b /\ Retired(TRUE) /\ request[c].at = "closing"
        /\ broker.phase # "off" /\ broker.at = "select" /\ Head(broker.queue) = c
        /\ UNCHANGED <<files, job, request, closed, crashes, commands>>
    BY <1>2 DEF TakeRetirement, Takes, Serving, Is
  <2>2. b \in [phase : {"off", "up", "leaving"}, gen : Nat,
               at : {"select", "map", "environment", "tree", "analyse", "parting"},
               queue : {b.queue}, wake : {b.wake},
               task : Pins \union {None}, asker : Programs \union {None}]
        /\ b.at = "parting" /\ b.phase # "off" /\ b.asker = c
    BY <1>t, <2>1 DEF BrokerType, Next1
  <2>. HIDE DEF b
  <2>3. StoreInv' /\ Framed(Broker)  BY <1>t, <1>q, <2>1, RetireAlone
  <2>4. Answering'  BY <1>t, <1>q, <2>1, <2>2 DEF Answering, Over
  <2>. QED  BY <1>t, <2>1, <2>2, <2>3, <2>4, BrokerShape
<1>3. ASSUME NEW c \in Programs, NEW worn \in BOOLEAN, TakeLate(c, worn) PROVE IInv'
  <2>. DEFINE b == [Next1 EXCEPT !.asker = None]
  <2>1. /\ broker' = b /\ Retired(worn) /\ request[c].at \in {"asking", "closing"}
        /\ broker.phase # "off" /\ broker.at = "select" /\ request' = Unanswered(c)
        /\ UNCHANGED <<files, job, closed, crashes, commands>>
    BY <1>3 DEF TakeLate, Takes, Serving
  <2>2. b \in [phase : {"off", "up", "leaving"}, gen : Nat,
               at : {"select", "map", "environment", "tree", "analyse", "parting"},
               queue : {b.queue}, wake : {b.wake},
               task : Pins \union {None}, asker : Programs \union {None}]
        /\ b.at = "select" /\ b.phase # "off" /\ b.asker = None
    BY <1>t, <2>1 DEF BrokerType, Next1
  <2>. HIDE DEF b
  <2>3. StoreInv' /\ Framed(Broker)  BY <1>t, <1>q, <2>1, RetireAlone
  <2>4. Answering'  BY <1>t, <1>q, <2>1, <2>2 DEF Answering, Over
  <2>5. request' \in [Programs -> RequestType]
        /\ \A d \in Programs : request'[d] = request[d] \/ Asking(d)'
    BY <2>1, UnansweredSound
  <2>. QED  BY <1>t, <2>1, <2>2, <2>3, <2>4, <2>5, BrokerShape
<1>4. ASSUME NEW c \in Programs, NEW worn \in BOOLEAN, TakeAnalysis(c, worn) PROVE IInv'
  <2>. DEFINE p == request[c].pin
              b == [Next1 EXCEPT !.at = "map", !.task = p]
              j == Job("wait", Map(p))
              drop == worn \/ kept[Broker] # p
  <2>1. /\ broker' = b /\ Retired(drop) /\ request[c].at = "asking"
        /\ broker.phase # "off" /\ broker.at = "select" /\ Head(broker.queue) = c
        /\ job' = [job EXCEPT ![Broker] = j]
        /\ UNCHANGED <<files, request, closed, crashes, commands>>
    BY <1>4 DEF TakeAnalysis, Takes, Serving, Is, Start
  <2>0. p \in Pins  BY <2>1 DEF IInv, Requests, Asking
  <2>2. b \in [phase : {"off", "up", "leaving"}, gen : Nat,
               at : {"select", "map", "environment", "tree", "analyse", "parting"},
               queue : {b.queue}, wake : {b.wake},
               task : Pins \union {None}, asker : Programs \union {None}]
        /\ b.at = "map" /\ b.phase # "off" /\ b.asker = c /\ b.task = p
    BY <1>t, <2>0, <2>1 DEF BrokerType, Next1
  <2>3. /\ j \in JobType /\ j.step = "wait" /\ j.item \notin Trees /\ j.victim = None
        /\ j.granted = 0
    BY <2>0, JobTyped, JobFields, Names
  <2>4. (kept[Broker] = p \/ drop) /\ drop \in BOOLEAN  OBVIOUS
  <2>. HIDE DEF b, j, p, drop
  <2>5. UNCHANGED <<checkout, manifest, stored, litter>>  BY <2>1 DEF files
  <2>6. /\ StoreInv' /\ Framed(Broker)
        /\ kept'[Broker] = IF drop THEN None ELSE kept[Broker]
    BY <1>t, <1>q, <2>1, <2>3, <2>4, <2>5, RetireKeeps
  <2>7. Answering'  BY <1>t, <2>0, <2>1, <2>2, <2>4, <2>6, OwnersAssumption DEF Answering
  <2>. QED  BY <1>t, <2>1, <2>2, <2>6, <2>7, BrokerShape
<1>. QED  BY <1>1, <1>2, <1>3, <1>4

\* The worker verifies the task's inputs and fetches its checkout.
LEMMA Preparing ==
    ASSUME IInv, BrokerMap \/ BrokerEnvironment \/ BrokerTree
    PROVE  IInv'
<1>. Broker \in Owners  BY OwnersFacts
<1>t. /\ StoreInv /\ broker \in BrokerType /\ request \in [Programs -> RequestType]
      /\ crashes \in Nat /\ Answering
  BY DEF IInv, Asked
<1>b. ASSUME NEW at \in {"environment", "tree", "analyse"}, broker' = [broker EXCEPT !.at = at],
             broker.at \in {"map", "environment", "tree"}, StoreInv', Framed(Broker),
             UNCHANGED <<request, closed, crashes, commands>>,
             broker.task \in Pins, kept'[Broker] \in {None, broker.task},
             at = "tree" => Fetching(Broker, broker.task)',
             at = "analyse" => Over(Broker)' /\ kept'[Broker] = broker.task
      PROVE  IInv'
  <2>. DEFINE b == [broker EXCEPT !.at = at]
  <2>1. broker' = b  BY <1>b
  <2>2. b \in [phase : {"off", "up", "leaving"}, gen : Nat,
               at : {"select", "map", "environment", "tree", "analyse", "parting"},
               queue : {b.queue}, wake : {b.wake},
               task : Pins \union {None}, asker : Programs \union {None}]
        /\ b.at = at /\ b.phase = broker.phase /\ b.asker = broker.asker
        /\ b.task = broker.task
    BY <1>t DEF BrokerType
  <2>. HIDE DEF b
  <2>3. broker.phase # "off"  BY <1>b, <1>t DEF Answering
  <2>4. Answering'
    <3>1. /\ broker'.at = at /\ broker'.phase # "off" /\ broker'.asker = broker.asker
          /\ broker'.task = broker.task
      BY <2>1, <2>2, <2>3
    <3>. QED  BY <1>b, <1>t, <3>1 DEF Answering
  <2>. QED  BY <1>b, <1>t, <2>1, <2>2, <2>4, BrokerShape
<1>1. CASE BrokerMap
  <2>1. /\ broker.at = "map" /\ Quiet(Broker) /\ kept' = kept
        /\ broker' = [broker EXCEPT !.at = "environment"]
        /\ Start(Broker, Environment(broker.task))
        /\ UNCHANGED <<checkout, manifest, stored, litter, holder>>
        /\ UNCHANGED <<request, closed, crashes, commands>>
    BY <1>1 DEF BrokerMap, Quiet, At, files
  <2>2. broker.task \in Pins /\ kept[Broker] \in {None, broker.task}
    BY <2>1, <1>t DEF Answering
  <2>3. Environment(broker.task) \in Items /\ Environment(broker.task) \notin Trees
    BY <2>2, Names
  <2>4. StoreInv' /\ Framed(Broker)  BY <1>t, <2>1, <2>3, Starts
  <2>. QED  BY <1>b, <2>1, <2>2, <2>4
<1>2. CASE BrokerEnvironment
  <2>1. /\ broker.at = "environment" /\ Quiet(Broker) /\ Over(Broker) /\ kept' = kept
        /\ UNCHANGED <<checkout, manifest, stored, litter, holder>>
        /\ UNCHANGED <<request, closed, crashes, commands>>
    BY <1>2 DEF BrokerEnvironment, Quiet, Over, At, files
  <2>2. broker.task \in Pins /\ kept[Broker] \in {None, broker.task}
    BY <2>1, <1>t DEF Answering
  <2>3. CASE kept[Broker] = None
    <3>1. /\ broker' = [broker EXCEPT !.at = "tree"]
          /\ Start(Broker, Tree(broker.task))
      BY <1>2, <2>3 DEF BrokerEnvironment
    <3>2. Tree(broker.task) \in Items  BY <2>2, Names
    <3>3. /\ StoreInv' /\ Framed(Broker)
          /\ job'[Broker].step = "wait" /\ job'[Broker].item = Tree(broker.task)
      BY <1>t, <2>1, <2>3, <3>1, <3>2, Starts
    <3>4. Fetching(Broker, broker.task)'
      <4>1. broker'.task = broker.task  BY <3>1, <1>t DEF BrokerType
      <4>. QED  BY <2>1, <2>2, <2>3, <3>3, <4>1 DEF Fetching, At
    <3>. QED  BY <1>b, <2>1, <2>2, <3>1, <3>3, <3>4
  <2>4. CASE kept[Broker] # None
    <3>1. broker' = [broker EXCEPT !.at = "analyse"] /\ job' = job
      BY <1>2, <2>4 DEF BrokerEnvironment
    <3>2. UNCHANGED <<store, kept>>  BY <2>1, <3>1 DEF store
    <3>3. StoreInv' /\ Framed(Broker)  BY <1>t, <3>2, Unchanged
    <3>4. Over(Broker)'  BY <2>1, <3>1 DEF Over
    <3>. QED  BY <1>b, <2>1, <2>2, <2>4, <3>1, <3>3, <3>4
  <2>. QED  BY <2>3, <2>4
<1>3. CASE BrokerTree
  <2>1. /\ broker.at = "tree" /\ At(Broker, "done") /\ Quiet(Broker) /\ Over(Broker)
        /\ broker' = [broker EXCEPT !.at = "analyse"]
        /\ kept' = [kept EXCEPT ![Broker] = broker.task]
        /\ UNCHANGED <<checkout, manifest, stored, litter, holder, job>>
        /\ UNCHANGED <<request, closed, crashes, commands>>
    BY <1>3 DEF BrokerTree, Quiet, Over, At, store
  <2>2. broker.task \in Pins /\ Holds(Broker, broker.task)
    BY <2>1, <1>t DEF Answering, Fetching
  <2>3. /\ holder \in [Items -> Owners \union {None}] /\ job \in [Owners -> JobType]
        /\ kept \in [Owners -> Pins \union {None}]
    BY <1>t DEF StoreInv, Typed, JobType
  <2>4. kept' \in [Owners -> Pins \union {None}] /\ kept'[Broker] = broker.task
        /\ \A d \in Owners \ {Broker} : kept'[d] = kept[d]
    BY <2>1, <2>2, <2>3
  <2>5. \A p \in Pins : kept'[Broker] = p => Holds(Broker, p)'
    BY <2>1, <2>2, <2>4 DEF Holds
  <2>6. Turn(Broker)  BY <2>1, <2>3, <2>4, <2>5 DEF Turn
  <2>7. StoreInv' /\ Framed(Broker)  BY <1>t, <2>6, TurnKeeps
  <2>8. Over(Broker)'  BY <2>1 DEF Over
  <2>. QED  BY <1>b, <2>1, <2>2, <2>4, <2>7, <2>8
<1>. QED  BY <1>1, <1>2, <1>3

\* The worker is through with a task, or with its last.
LEMMA Finishing ==
    ASSUME IInv, \/ \E worn \in BOOLEAN : Answer(worn)
                 \/ BrokerFails \/ Confirm
    PROVE  IInv'
<1>. Broker \in Owners  BY OwnersFacts
<1>t. /\ StoreInv /\ broker \in BrokerType /\ request \in [Programs -> RequestType]
      /\ crashes \in Nat /\ Answering
  BY DEF IInv, Asked
<1>q. Over(Broker) => Quiet(Broker)  BY DEF Over, Quiet
<1>a. broker.asker # None => broker.asker \in Programs  BY <1>t DEF BrokerType
\* What the program that asked is told.
<1>w. ASSUME NEW place \in {"good", "bad"}, request' = Told(place), broker.at # "parting",
             Framed(Broker)
      PROVE  /\ request' \in [Programs -> RequestType]
             /\ \A d \in Programs : request'[d] = request[d] \/ Asking(d)'
  <2>1. CASE broker.asker = None
    <3>1. request' = request  BY <1>w, <2>1 DEF Told
    <3>. QED  BY <3>1, <1>t
  <2>2. CASE broker.asker # None
    <3>1. PICK c : c = broker.asker  OBVIOUS
    <3>2. PICK r : r = [request[c] EXCEPT !.at = place]  OBVIOUS
    <3>3. c \in Programs /\ c # None /\ request' = [request EXCEPT ![c] = r]
      BY <1>w, <1>a, <2>2, <3>1, <3>2 DEF Told
    <3>4. request[c] \in RequestType  BY <3>3, <1>t
    <3>5. r \in RequestType /\ r.at = place /\ r.pin = request[c].pin
          /\ r.symbol = request[c].symbol
      BY <3>2, <3>4, <1>w, PlacesFacts DEF RequestType
    <3>6. place \in {"good", "bad", "exit"} /\ broker.at # "parting" /\ Framed(Broker)
      BY <1>w
    <3>. QED  BY <3>1, <3>3, <3>5, <3>6, ToldSound
  <2>. QED  BY <2>1, <2>2
\* The worker is free.
<1>f. ASSUME NEW place \in {"good", "bad"}, request' = Told(place), broker.at # "parting",
             broker' = Idle(broker), StoreInv', Framed(Broker), Over(Broker)',
             UNCHANGED <<closed, crashes, commands>>
      PROVE  IInv'
  <2>. DEFINE b == Idle(broker)
  <2>1. b \in [phase : {"off", "up", "leaving"}, gen : Nat,
               at : {"select", "map", "environment", "tree", "analyse", "parting"},
               queue : {b.queue}, wake : {b.wake},
               task : Pins \union {None}, asker : Programs \union {None}]
        /\ b.at = "select" /\ b.asker = None
    BY <1>t DEF BrokerType, Idle
  <2>2. broker' = b  BY <1>f
  <2>. HIDE DEF b
  <2>3. Answering'  BY <1>f, <2>1, <2>2 DEF Answering
  <2>4. /\ request' \in [Programs -> RequestType]
        /\ \A d \in Programs : request'[d] = request[d] \/ Asking(d)'
    BY <1>f, <1>w
  <2>. QED  BY <1>f, <1>t, <2>1, <2>2, <2>3, <2>4, BrokerShape
<1>1. ASSUME NEW worn \in BOOLEAN, Answer(worn) PROVE IInv'
  <2>1. /\ broker.at = "analyse" /\ request' = Told("good") /\ Retired(worn)
        /\ broker' = Idle(broker) /\ UNCHANGED <<files, job, closed, crashes, commands>>
    BY <1>1 DEF Answer
  <2>2. Over(Broker)  BY <2>1, <1>t DEF Answering
  <2>3. StoreInv' /\ Framed(Broker)  BY <1>t, <1>q, <2>1, <2>2, RetireAlone
  <2>4. Over(Broker)'  BY <2>1, <2>2 DEF Over
  <2>. QED  BY <1>f, <2>1, <2>3, <2>4
<1>2. CASE BrokerFails
  <2>. DEFINE j == Rest("done")
  <2>1. /\ broker.at # "parting" /\ request' = Told("bad") /\ Retired(TRUE)
        /\ broker' = Idle(broker) /\ UNCHANGED <<files, closed, crashes, commands>>
        /\ job' = [job EXCEPT ![Broker] = j]
    BY <1>2 DEF BrokerFails
  <2>2. Quiet(Broker)  BY <1>2, <1>q, <1>t DEF BrokerFails, Answering, Quiet, At
  <2>3. /\ j \in JobType /\ j.victim = None /\ j.granted = 0 /\ j.item \notin Trees
        /\ j.step = "done"
    BY RestTyped, RestFacts, Names
  <2>. HIDE DEF j
  <2>4. UNCHANGED <<checkout, manifest, stored, litter>>  BY <2>1 DEF files
  <2>5. StoreInv' /\ Framed(Broker) /\ job'[Broker] = j
    BY <1>t, <2>1, <2>2, <2>3, <2>4, RetireKeeps
  <2>6. Over(Broker)'  BY <2>3, <2>5 DEF Over
  <2>. QED  BY <1>f, <2>1, <2>5, <2>6
<1>3. CASE Confirm
  <2>. DEFINE b == [broker EXCEPT !.asker = None]
              c == broker.asker
              r == [request[c] EXCEPT !.at = "exit", !.peer = broker.gen]
  <2>1. /\ broker.at = "parting" /\ c # None /\ broker' = b
        /\ UNCHANGED <<store, kept, closed, crashes, commands>>
    BY <1>3 DEF Confirm
  <2>2. c \in Programs  BY <2>1, <1>a
  <2>3. request' = [request EXCEPT ![c] = r]  BY <1>3, <2>2, <1>t DEF Confirm
  <2>4. b \in [phase : {"off", "up", "leaving"}, gen : Nat,
               at : {"select", "map", "environment", "tree", "analyse", "parting"},
               queue : {b.queue}, wake : {b.wake},
               task : Pins \union {None}, asker : Programs \union {None}]
        /\ b.at = "parting" /\ b.asker = None /\ b.phase = broker.phase
    BY <1>t, <2>1 DEF BrokerType
  <2>5. r \in RequestType /\ r.at = "exit" /\ r.pin = request[c].pin
        /\ r.symbol = request[c].symbol
    <3>1. request[c] \in RequestType /\ broker.gen \in Nat  BY <1>t, <2>2 DEF BrokerType
    <3>. QED  BY <3>1, PlacesFacts DEF RequestType
  <2>6. c = broker.asker  OBVIOUS
  <2>. HIDE DEF b, r, c
  <2>7. StoreInv' /\ Framed(Broker) /\ job' = job  BY <1>t, <2>1, Unchanged
  <2>8. Answering'  BY <1>t, <2>1, <2>4, <2>7 DEF Answering, Over
  <2>9. /\ request' \in [Programs -> RequestType]
        /\ \A d \in Programs : request'[d] = request[d] \/ Asking(d)'
    BY <2>1, <2>3, <2>5, <2>6, <2>7, ToldSound
  <2>. QED  BY <1>t, <2>1, <2>4, <2>7, <2>8, <2>9, BrokerShape
<1>. QED  BY <1>1, <1>2, <1>3

\* The process goes.
LEMMA Leaving ==
    ASSUME IInv, CloseListener \/ ProcessExits \/ BrokerDies
    PROVE  IInv'
<1>. Broker \in Owners  BY OwnersFacts
<1>t. /\ StoreInv /\ broker \in BrokerType /\ request \in [Programs -> RequestType]
      /\ crashes \in Nat /\ Answering
  BY DEF IInv, Asked
<1>o. /\ [Off EXCEPT !.gen = broker.gen] \in
             [phase : {"off", "up", "leaving"}, gen : Nat,
              at : {"select", "map", "environment", "tree", "analyse", "parting"},
              queue : {[Off EXCEPT !.gen = broker.gen].queue},
              wake : {[Off EXCEPT !.gen = broker.gen].wake},
              task : Pins \union {None}, asker : Programs \union {None}]
      /\ [Off EXCEPT !.gen = broker.gen].at = "select"
      /\ [Off EXCEPT !.gen = broker.gen].asker = None
  BY <1>t DEF BrokerType, Off
<1>1. CASE CloseListener
  <2>. DEFINE b == [broker EXCEPT !.phase = "leaving", !.queue = <<>>, !.wake = FALSE]
  <2>1. broker' = b /\ UNCHANGED <<store, request, kept, closed, crashes, commands>>
    BY <1>1 DEF CloseListener
  <2>2. b \in [phase : {"off", "up", "leaving"}, gen : Nat,
               at : {"select", "map", "environment", "tree", "analyse", "parting"},
               queue : {b.queue}, wake : {b.wake},
               task : Pins \union {None}, asker : Programs \union {None}]
        /\ b.at = broker.at /\ b.phase # "off" /\ b.task = broker.task
        /\ b.asker = broker.asker
    BY <1>t DEF BrokerType
  <2>. HIDE DEF b
  <2>3. /\ StoreInv' /\ Framed(Broker) /\ job' = job /\ kept' = kept
        /\ \A p : Fetching(Broker, p) => Fetching(Broker, p)'
    BY <1>t, <2>1, Unchanged
  <2>4. Answering'  BY <1>t, <2>1, <2>2, <2>3 DEF Answering, Over
  <2>. QED  BY <1>t, <2>1, <2>2, <2>3, <2>4, BrokerShape
<1>2. CASE ProcessExits
  <2>1. /\ broker.at \in {"select", "parting"} /\ Retired(TRUE)
        /\ broker' = [Off EXCEPT !.gen = broker.gen]
        /\ UNCHANGED <<files, job, request, closed, crashes, commands>>
    BY <1>2 DEF ProcessExits
  <2>2. Over(Broker) /\ Quiet(Broker)  BY <2>1, <1>t DEF Answering, Over, Quiet
  <2>3. StoreInv' /\ Framed(Broker)  BY <1>t, <2>1, <2>2, RetireAlone
  <2>4. Answering'  BY <1>o, <2>1, <2>2 DEF Answering, Over
  <2>. QED  BY <1>o, <1>t, <2>1, <2>3, <2>4, BrokerShape
<1>3. CASE BrokerDies
  <2>1. /\ Die(Broker) /\ kept' = [kept EXCEPT ![Broker] = None]
        /\ broker' = [Off EXCEPT !.gen = broker.gen] /\ crashes' = crashes + 1
        /\ UNCHANGED <<request, closed, commands>>
    BY <1>3 DEF BrokerDies
  <2>2. StoreInv' /\ Framed(Broker) /\ Over(Broker)'  BY <1>t, <2>1, DeathKeeps
  <2>3. crashes' \in Nat  BY <2>1, <1>t
  <2>4. Answering'  BY <1>o, <2>1, <2>2 DEF Answering
  <2>. QED  BY <1>o, <1>t, <2>1, <2>2, <2>3, <2>4, BrokerShape
<1>. QED  BY <1>1, <1>2, <1>3

-----------------------------------------------------------------------------
(* The invariant holds.                                                       *)
LEMMA Beginning == RInit => IInv
<1>. SUFFICES ASSUME RInit PROVE IInv
  OBVIOUS
<1>i. Init /\ kept = [o \in Owners |-> None]
      /\ request = [c \in Programs |-> NoRequest] /\ broker = Off
      /\ closed = 0 /\ crashes = 0 /\ commands = 0
  BY DEF RInit
<1>1. Typed
  <2>1. /\ checkout \in [Pins -> {"none", "partial", "whole"}] /\ manifest \in SUBSET Pins
        /\ stored \in SUBSET Files /\ litter \in Nat
    BY <1>i, PinsAssumption, Names DEF Init
  <2>2. holder \in [Items -> Owners \union {None}]  BY <1>i DEF Init
  <2>3. job \in [Owners -> JobType]  BY <1>i, RestTyped DEF Init
  <2>. QED  BY <2>1, <2>2, <2>3 DEF Typed, JobType
<1>2. \A o \in Owners : job[o] = Rest("done") /\ kept[o] = None
  BY <1>i DEF Init
<1>3. Jobs
  BY <1>2, RestFacts, Names
     DEF Jobs, Leased, Granted, Removing, Reserving, Quiet, At
<1>4. InUse  BY <1>2, PinsAssumption DEF InUse
<1>5. Within
  <2>. DEFINE f == [p \in Stale |-> Map(p)]
  <2>1. IsFiniteSet(Stale)  BY StartAssumption, PinsAssumption, FS_Subset
  <2>2. f \in Surjection(Stale, stored)
    BY <1>i DEF Init, Surjection
  <2>3. IsFiniteSet(stored) /\ Cardinality(stored) <= Cardinality(Stale)
    BY <2>1, <2>2, FS_Surjection
  <2>4. stored \intersect Maps = stored /\ stored \intersect Caches = {}
    BY <1>i, PinsAssumption, Names DEF Init
  <2>5. TreeUse = 0 /\ litter = 0 /\ Staged = 0
    <3>1. {p \in Pins : checkout[p] # "none"} = {}  BY <1>i DEF Init
    <3>2. TreeUse = 0  BY <3>1, FS_EmptySet, SizesAssumption DEF TreeUse
    <3>3. Staged = 0  BY <1>i, Names DEF Init, Staged, Free
    <3>. QED  BY <1>i, <3>2, <3>3 DEF Init
  <2>6. Used = MapBytes * Cardinality(stored)
    <3>1. /\ Cardinality({}) = 0 /\ MapBytes \in Nat /\ CacheBytes \in Nat
          /\ Cardinality(stored) \in Nat
      BY <2>3, FS_EmptySet, FS_CardinalityType, SizesAssumption
    <3>2. MapBytes * Cardinality(stored) \in Nat  BY <3>1, Product
    <3>3. CacheBytes * 0 = 0  BY <3>1
    <3>4. Used = 0 + MapBytes * Cardinality(stored) + CacheBytes * 0 + 0 + 0
      BY <2>4, <2>5, <3>1 DEF Used
    <3>. QED  BY <3>2, <3>3, <3>4
  <2>7. MapBytes * Cardinality(stored) <= MapBytes * Cardinality(Stale)
    BY <2>1, <2>3, FS_CardinalityType, SizesAssumption, Product
  <2>8. MapBytes * Cardinality(stored) \in Nat /\ MapBytes * Cardinality(Stale) \in Nat
        /\ Room \in Nat
    BY <2>1, <2>3, FS_CardinalityType, SizesAssumption, Product
  <2>. QED  BY <2>3, <2>6, <2>7, <2>8, StartAssumption DEF Within
<1>6. StoreInv  BY <1>1, <1>3, <1>4, <1>5, <1>i DEF StoreInv
<1>7. Asked
  BY <1>i, NoRequestTyped DEF Asked, BrokerType, Off
<1>8. Requests
  <2>1. Programs \subseteq Owners  BY OwnersFacts
  <2>. QED  BY <1>i, <1>2, <2>1, RestFacts DEF Requests, Asking, Is, Quiet, NoRequest
<1>9. Answering
  BY <1>i, <1>2, OwnersFacts, RestFacts DEF Answering, Off, Over
<1>. QED  BY <1>6, <1>7, <1>8, <1>9 DEF IInv

LEMMA Idling == ASSUME IInv, UNCHANGED vars PROVE IInv'
<1>1. /\ UNCHANGED <<store, kept>>
      /\ UNCHANGED <<request, broker, closed, crashes, commands>>
  BY DEF vars, store
<1>2. /\ StoreInv' /\ job' = job /\ kept' = kept
      /\ \A d, p : Fetching(d, p) => Fetching(d, p)'
  BY <1>1, Still DEF IInv, store
<1>3. Asked'  BY <1>1 DEF IInv, Asked, BrokerType
<1>4. Requests'
  BY <1>1, <1>2 DEF IInv, Requests, Asking, Is, Quiet
<1>5. Answering'
  BY <1>1, <1>2 DEF IInv, Answering, Over
<1>. QED  BY <1>2, <1>3, <1>4, <1>5 DEF IInv

LEMMA Stepping == IInv /\ [RNext]_vars => IInv'
<1>. SUFFICES ASSUME IInv, [RNext]_vars PROVE IInv'
  OBVIOUS
<1>t. request \in [Programs -> RequestType]  BY DEF IInv, Asked
<1>1. ASSUME NEW c \in Programs, ProgramStep(c) PROVE IInv'
  BY <1>1, Research, Broking, Closing, ExpireKeeps, ProgramDiesKeeps DEF ProgramStep
<1>2. CASE BrokerStep
  BY <1>2, Taking, Preparing, Finishing, Leaving DEF BrokerStep
<1>3. CASE CancelTask
  <2>1. GiveUp(Broker) /\ UNCHANGED <<request, kept, broker, closed, crashes, commands>>
    BY <1>3 DEF CancelTask
  <2>. QED  BY <2>1, <1>t, OwnersFacts, WorkKeeps
<1>4. ASSUME NEW o \in Owners, Work(o) PROVE IInv'
  <2>1. StoreStep(o) /\ UNCHANGED <<request, kept, broker, closed, crashes, commands>>
    BY <1>4 DEF Work
  <2>. QED  BY <2>1, <1>t, WorkKeeps
<1>5. CASE UNCHANGED vars
  BY <1>5, Idling
<1>. QED  BY <1>1, <1>2, <1>3, <1>4, <1>5 DEF RNext

LEMMA Invariance == RSpec => []IInv
BY Beginning, Stepping, PTL DEF RSpec

(* Brokers that are gone.                                                     *)
LEMMA EndedKeeps == ASSUME IInv, Ended, [RNext]_vars PROVE Ended'
<1>t. /\ broker \in BrokerType /\ broker.gen \in Nat /\ closed \in Nat
      /\ request \in [Programs -> RequestType]
      /\ \A c \in Programs : request[c].peer \in Nat
  BY DEF IInv, Asked, BrokerType, RequestType
\* Nobody starts waiting for an exit.
<1>. DEFINE NoneJoins ==
         \A c \in Programs : request'[c].at = "exit" =>
             request[c].at = "exit" /\ request'[c].peer = request[c].peer
<1>f. ASSUME closed' = closed, broker'.gen = broker.gen,
             broker'.phase \in {broker.phase, "leaving", "off"},
             broker.phase = "off" => broker'.phase = "off", NoneJoins
      PROVE  Ended'
  BY <1>f, <1>t DEF Ended, ClosedIsGone, Is
<1>u. request' = request => NoneJoins  OBVIOUS
<1>s. ASSUME NEW c \in Programs, NEW r, request' = [request EXCEPT ![c] = r],
             r.at = "exit" => request[c].at = "exit" /\ r.peer = request[c].peer
      PROVE  NoneJoins
  BY <1>s, <1>t
<1>m. \A c \in Programs, at \in Places \ {"exit"} :
          request' = [request EXCEPT ![c].at = at] => NoneJoins
  <2>. SUFFICES ASSUME NEW c \in Programs, NEW at \in Places \ {"exit"},
                       request' = [request EXCEPT ![c].at = at]
                PROVE  NoneJoins
    OBVIOUS
  <2>1. [request[c] EXCEPT !.at = at].at # "exit"  BY <1>t DEF RequestType
  <2>. QED  BY <2>1, <1>s
<1>n. \A c \in Programs : request' = [request EXCEPT ![c] = NoRequest] => NoneJoins
  BY <1>s DEF NoRequest
<1>w. \A c \in Programs : request' = Unanswered(c) => NoneJoins
  <2>. SUFFICES ASSUME NEW c \in Programs, request' = Unanswered(c) PROVE NoneJoins
    OBVIOUS
  <2>1. CASE Is(c, "asking")
    <3>1. request' = [request EXCEPT ![c].at = "bad"] /\ "bad" \in Places \ {"exit"}
      BY <2>1, PlacesFacts DEF Unanswered
    <3>. QED  BY <3>1, <1>m
  <2>2. CASE ~Is(c, "asking")
    BY <2>2, <1>n DEF Unanswered
  <2>. QED  BY <2>1, <2>2
<1>p. \A c \in Programs : Proceed(c) => NoneJoins
  <2>. SUFFICES ASSUME NEW c \in Programs, Proceed(c), request[c].prune PROVE NoneJoins
    BY <1>n DEF Proceed
  <2>1. request' = [request EXCEPT ![c] = [request[c] EXCEPT !.at = "pruning", !.late = FALSE]]
    BY DEF Proceed
  <2>2. [request[c] EXCEPT !.at = "pruning", !.late = FALSE].at # "exit"
    BY <1>t DEF RequestType
  <2>. QED  BY <2>1, <2>2, <1>s
<1>l. \A place \in {"good", "bad"} : request' = Told(place) => NoneJoins
  BY <1>m, <1>u, <1>t, PlacesFacts DEF Told, BrokerType
<1>1. ASSUME NEW c \in Programs, ProgramStep(c) PROVE Ended'
  <2>1. ASSUME NEW p \in Pins, NEW S \in Batches, NEW reuse \in BOOLEAN,
               BeginResearch(c, p, S, reuse)
        PROVE  Ended'
    <3>. DEFINE r == [NoRequest EXCEPT !.at = "map", !.pin = p, !.todo = S, !.reuse = reuse]
    <3>1. request' = [request EXCEPT ![c] = r] /\ UNCHANGED <<broker, closed>>
      BY <2>1 DEF BeginResearch
    <3>2. r.at # "exit"  BY DEF NoRequest
    <3>. QED  BY <3>1, <3>2, <1>s, <1>f
  <2>2. CASE MapReady(c) \/ EnvironmentReady(c) \/ Compute(c) \/ OpenWorker(c) \/ NoWorker(c)
             \/ StoreRelations(c) \/ Discard(c) \/ Unavailable(c)
    <3>1. \E at \in Places \ {"exit"} : Go(c, at)
      BY <2>2, PlacesFacts DEF MapReady, EnvironmentReady, Compute, OpenWorker, NoWorker,
                               StoreRelations, Discard, Unavailable
    <3>2. UNCHANGED <<broker, closed>>
      BY <2>2 DEF MapReady, EnvironmentReady, Compute, OpenWorker, NoWorker,
                  StoreRelations, Discard, Unavailable
    <3>. QED  BY <3>1, <3>2, <1>m, <1>f DEF Go
  <2>3. CASE ResearchFails(c) \/ FinishResearch(c) \/ CloseFails(c) \/ PruneEnds(c)
             \/ Disconnected(c)
    BY <2>3, <1>n, <1>w, <1>f DEF ResearchFails, FinishResearch, CloseFails, PruneEnds,
                                  Disconnected
  <2>4. ASSUME NEW s \in Symbols, NextSymbol(c, s) PROVE Ended'
    <3>. DEFINE r == [request[c] EXCEPT !.at = "relations", !.symbol = s]
    <3>1. request' = [request EXCEPT ![c] = r] /\ UNCHANGED <<broker, closed>>
      BY <2>4 DEF NextSymbol
    <3>2. r.at # "exit"  BY <1>t DEF RequestType
    <3>. QED  BY <3>1, <3>2, <1>s, <1>f
  <2>5. CASE SymbolDone(c)
    <3>. DEFINE r == [request[c] EXCEPT !.at = "symbols",
                                        !.todo = request[c].todo \ {request[c].symbol},
                                        !.symbol = None]
    <3>1. request' = [request EXCEPT ![c] = r] /\ UNCHANGED <<broker, closed>>
      BY <2>5, <1>t DEF SymbolDone
    <3>2. r.at # "exit"  BY <1>t DEF RequestType
    <3>. QED  BY <3>1, <3>2, <1>s, <1>f
  <2>6. CASE Expire(c)
    <3>. DEFINE r == [request[c] EXCEPT !.late = TRUE]
    <3>1. request' = [request EXCEPT ![c] = r] /\ UNCHANGED <<broker, closed>>
      BY <2>6 DEF Expire
    <3>2. r.at = request[c].at /\ r.peer = request[c].peer  BY <1>t DEF RequestType
    <3>. HIDE DEF r
    <3>. QED  BY <3>1, <3>2, <1>s, <1>f
  <2>7. CASE Launch(c)
    <3>1. UNCHANGED <<request, closed>> /\ broker'.gen = broker.gen + 1
      BY <2>7 DEF Launch, Off
    <3>. QED  BY <3>1, <1>t DEF Ended, ClosedIsGone, Is
  <2>8. CASE Ask(c) \/ AskRetirement(c)
    <3>1. broker'.gen = broker.gen /\ broker'.phase = broker.phase /\ closed' = closed
      BY <2>8, <1>t DEF Ask, AskRetirement, Submit, BrokerType
    <3>2. NoneJoins  BY <2>8, <1>m, PlacesFacts DEF Ask, AskRetirement, Go
    <3>. QED  BY <3>1, <3>2, <1>f
  <2>9. CASE Withdraw(c) \/ ProgramDies(c)
    <3>1. broker'.gen = broker.gen /\ broker'.phase = broker.phase /\ closed' = closed
      BY <2>9, <1>t DEF Withdraw, ProgramDies, Leave, BrokerType
    <3>2. NoneJoins  BY <2>9, <1>n, <1>w DEF Withdraw, ProgramDies
    <3>. QED  BY <3>1, <3>2, <1>f
  <2>10. ASSUME NEW prune \in BOOLEAN, BeginClose(c, prune) PROVE Ended'
    <3>. DEFINE r == [NoRequest EXCEPT !.at = "retire", !.prune = prune]
    <3>1. request' = [request EXCEPT ![c] = r] /\ UNCHANGED <<broker, closed>>
      BY <2>10 DEF BeginClose
    <3>2. r.at # "exit"  BY DEF NoRequest
    <3>. QED  BY <3>1, <3>2, <1>s, <1>f
  <2>11. CASE NoBroker(c)
    BY <2>11, <1>p, <1>f DEF NoBroker
  <2>12. CASE Exited(c)
    <3>1. /\ request[c].at = "exit" /\ Gone(request[c].peer) /\ broker' = broker
          /\ closed' = IF closed < request[c].peer THEN request[c].peer ELSE closed
          /\ NoneJoins
      BY <2>12, <1>p DEF Exited, Is
    <3>2. request[c].peer <= broker.gen  BY <3>1 DEF Ended, Is
    <3>3. closed' <= broker.gen /\ (closed' = broker.gen /\ closed' > 0 => broker.phase = "off")
      BY <3>1, <3>2, <1>t DEF Ended, ClosedIsGone, Gone
    <3>. QED  BY <3>1, <3>3, <1>t DEF Ended, ClosedIsGone, Is
  <2>. QED
    BY <1>1, <2>1, <2>2, <2>3, <2>4, <2>5, <2>6, <2>7, <2>8, <2>9, <2>10, <2>11, <2>12
       DEF ProgramStep
<1>2. CASE BrokerStep
  <2>1. ASSUME WakeInVain \/ CloseListener \/ ProcessExits \/ BrokerDies
               \/ BrokerMap \/ BrokerEnvironment \/ BrokerTree
               \/ \E c \in Programs : \/ TakeRetirement(c)
                                      \/ \E worn \in BOOLEAN : TakeAnalysis(c, worn)
        PROVE  Ended'
    <3>1. request' = request /\ closed' = closed
      BY <2>1 DEF WakeInVain, CloseListener, ProcessExits, BrokerDies, BrokerMap,
                  BrokerEnvironment, BrokerTree, TakeRetirement, TakeAnalysis
    <3>2. CASE \/ WakeInVain \/ CloseListener \/ ProcessExits \/ BrokerDies
      <4>1. /\ broker'.gen = broker.gen /\ broker'.phase \in {broker.phase, "leaving", "off"}
            /\ broker.phase = "off" => broker'.phase = "off"
        BY <3>2, <1>t DEF WakeInVain, CloseListener, ProcessExits, BrokerDies, Off, BrokerType
      <4>. QED  BY <3>1, <4>1, <1>u, <1>f
    <3>3. CASE \/ BrokerMap \/ BrokerEnvironment \/ BrokerTree
      <4>1. broker'.gen = broker.gen /\ broker'.phase = broker.phase
        BY <3>3, <1>t DEF BrokerMap, BrokerEnvironment, BrokerTree, BrokerType
      <4>. QED  BY <3>1, <4>1, <1>u, <1>f
    <3>4. ASSUME NEW c \in Programs, \/ TakeRetirement(c)
                                     \/ \E worn \in BOOLEAN : TakeAnalysis(c, worn)
          PROVE  Ended'
      <4>1. broker'.gen = broker.gen /\ broker'.phase = broker.phase
        BY <3>4, <1>t DEF TakeRetirement, TakeAnalysis, Next1, BrokerType
      <4>. QED  BY <3>1, <4>1, <1>u, <1>f
    <3>. QED  BY <2>1, <3>2, <3>3, <3>4
  <2>2. ASSUME NEW c \in Programs, NEW worn \in BOOLEAN, TakeLate(c, worn) PROVE Ended'
    <3>1. broker'.gen = broker.gen /\ broker'.phase = broker.phase /\ closed' = closed
      BY <2>2, <1>t DEF TakeLate, Next1, BrokerType
    <3>2. NoneJoins  BY <2>2, <1>w DEF TakeLate
    <3>. QED  BY <3>1, <3>2, <1>f
  <2>3. ASSUME BrokerFails \/ \E worn \in BOOLEAN : Answer(worn) PROVE Ended'
    <3>1. broker'.gen = broker.gen /\ broker'.phase = broker.phase /\ closed' = closed
      BY <2>3, <1>t DEF BrokerFails, Answer, Idle, BrokerType
    <3>2. NoneJoins  BY <2>3, <1>l DEF BrokerFails, Answer
    <3>. QED  BY <3>1, <3>2, <1>f
  <2>4. CASE Confirm
    <3>. DEFINE c == broker.asker
                r == [request[c] EXCEPT !.at = "exit", !.peer = broker.gen]
    <3>1. /\ broker'.gen = broker.gen /\ broker'.phase = broker.phase /\ closed' = closed
          /\ request' = [request EXCEPT ![c] = r] /\ c \in Programs
      BY <2>4, <1>t DEF Confirm, BrokerType
    <3>2. r.peer = broker.gen  BY <3>1, <1>t DEF RequestType
    <3>. HIDE DEF r, c
    <3>3. \A d \in Programs : request'[d] = request[d] \/ request'[d].peer = broker.gen
      BY <3>1, <3>2, <1>t
    <3>. QED  BY <3>1, <3>3, <1>t DEF Ended, ClosedIsGone, Is
  <2>. QED  BY <1>2, <2>1, <2>2, <2>3, <2>4 DEF BrokerStep
<1>3. CASE CancelTask \/ (\E o \in Owners : Work(o)) \/ UNCHANGED vars
  <2>1. UNCHANGED <<request, broker, closed>>  BY <1>3 DEF CancelTask, Work, vars
  <2>. QED  BY <2>1, <1>u, <1>f
<1>. QED  BY <1>1, <1>2, <1>3 DEF RNext

\* Whatever is published, checked out, staged or left behind by programs that
\* died, the workspace's source store stays within its budget
\* (cache_budget.go:17-19): whoever adds bytes counts them, and what is there,
\* while it alone has the capacity lease.
THEOREM BudgetHolds == RSpec => []WithinBudget
<1>1. IInv => WithinBudget  BY DEF IInv, StoreInv, Within, WithinBudget
<1>. QED  BY <1>1, Invariance, PTL

\* Evictions, prunes, reclaiming, recoveries and deaths of others leave a
\* checkout that a language server works in whole, listed and leased, and a
\* cache that is being read where it is; and the broker answers a task from the
\* checkout of that task's own pin (worktree.go:33-34, source_broker.go:434-447).
THEOREM UseSound == RSpec => []UseIsSound
<1>1. IInv => UseIsSound
  BY DEF IInv, StoreInv, Jobs, Leased, InUse, Holds, Answering, UseIsSound
<1>. QED  BY <1>1, Invariance, PTL

\* "source session close" reports the retirement of the very broker it shook
\* hands with, and only when that process is gone: the broker that was closed
\* last is never up again (source_broker.go:557-565).
THEOREM ClosedGone == RSpec => []ClosedIsGone
<1>. DEFINE Inv == IInv /\ Ended
<1>1. RInit => Inv
  <2>1. RInit => Ended
    BY DEF RInit, Ended, ClosedIsGone, Off, NoRequest, Is
  <2>. QED  BY <2>1, Beginning
<1>2. Inv /\ [RNext]_vars => Inv'
  <2>. SUFFICES ASSUME IInv, Ended, [RNext]_vars PROVE Ended'
    BY Stepping
  <2>. QED  BY EndedKeeps
<1>3. Inv => ClosedIsGone  BY DEF Ended
<1>. QED  BY <1>1, <1>2, <1>3, PTL DEF RSpec

(* The broker's queue and its channel of capacity one.                        *)
Queued ==
    /\ broker.queue \in Seq(Programs) /\ broker.wake \in BOOLEAN
    /\ broker.queue # <<>> => broker.wake

LEMMA OthersFacts ==
    ASSUME NEW c
    PROVE  /\ Others(c, <<>>) = <<>>
           /\ \A q \in Seq(Programs) : Others(c, q) \in Seq(Programs)
<1>1. Others(c, <<>>) = <<>>  BY DEF Others
<1>2. ASSUME NEW q \in Seq(Programs) PROVE Others(c, q) \in Seq(Programs)
  <2>1. CASE \E i \in 1..Len(q) : q[i] = c
    <3>. DEFINE i == CHOOSE i \in 1..Len(q) : q[i] = c
    <3>1. i \in 1..Len(q)  BY <2>1
    <3>. HIDE DEF i
    <3>2. SubSeq(q, 1, i - 1) \in Seq(Programs) /\ SubSeq(q, i + 1, Len(q)) \in Seq(Programs)
      BY <3>1
    <3>3. Others(c, q) = SubSeq(q, 1, i - 1) \o SubSeq(q, i + 1, Len(q))
      BY <2>1 DEF Others, i
    <3>. QED  BY <3>2, <3>3
  <2>2. CASE ~\E i \in 1..Len(q) : q[i] = c
    BY <2>2 DEF Others
  <2>. QED  BY <2>1, <2>2
<1>. QED  BY <1>1, <1>2

LEMMA QueuedKeeps == ASSUME IInv, Queued, [RNext]_vars PROVE Queued'
<1>b. broker \in BrokerType  BY DEF IInv, Asked
<1>f. ASSUME broker'.queue = broker.queue, broker'.wake = broker.wake PROVE Queued'
  BY <1>f DEF Queued
<1>e. ASSUME broker'.queue = <<>>, broker'.wake \in BOOLEAN PROVE Queued'
  BY <1>e DEF Queued
<1>s. ASSUME NEW c \in Programs, Submit(c) PROVE Queued'
  <2>1. broker'.queue = Append(broker.queue, c) /\ broker'.wake = TRUE
    BY <1>b, <1>s DEF Submit, BrokerType
  <2>2. Append(broker.queue, c) \in Seq(Programs)  BY DEF Queued
  <2>. QED  BY <2>1, <2>2 DEF Queued
<1>l. ASSUME NEW c \in Programs, broker' = Leave(c) PROVE Queued'
  <2>1. broker'.queue = Others(c, broker.queue) /\ broker'.wake = broker.wake
    BY <1>b, <1>l DEF Leave, BrokerType
  <2>2. broker'.queue \in Seq(Programs)  BY <2>1, OthersFacts DEF Queued
  <2>3. broker'.queue # <<>> => broker.queue # <<>>  BY <2>1, OthersFacts
  <2>. QED  BY <2>1, <2>2, <2>3 DEF Queued
\* Whoever takes a task passes the signal on while others wait.
<1>n. ASSUME NEW c \in Programs, Takes(c), broker'.queue = Next1.queue,
             broker'.wake = Next1.wake
      PROVE  Queued'
  <2>1. broker.queue \in Seq(Programs) /\ broker.queue # <<>>
    BY <1>n DEF Takes, Queued
  <2>2. broker'.queue = Tail(broker.queue) /\ broker'.wake = (Len(broker.queue) > 1)
    BY <1>b, <1>n DEF Next1, BrokerType
  <2>3. Tail(broker.queue) \in Seq(Programs)
        /\ Len(Tail(broker.queue)) = Len(broker.queue) - 1 /\ Len(broker.queue) \in Nat
    BY <2>1
  <2>4. Tail(broker.queue) # <<>> => Len(Tail(broker.queue)) > 0
    BY <2>3
  <2>5. Tail(broker.queue) # <<>> => Len(broker.queue) > 1
    BY <2>3, <2>4
  <2>. QED  BY <2>2, <2>3, <2>5 DEF Queued
<1>1. ASSUME NEW c \in Programs, ProgramStep(c) PROVE Queued'
  <2>1. CASE Ask(c) \/ AskRetirement(c)
    BY <2>1, <1>s DEF Ask, AskRetirement
  <2>2. CASE Withdraw(c) \/ ProgramDies(c)
    BY <2>2, <1>l DEF Withdraw, ProgramDies
  <2>3. CASE Launch(c)
    <3>1. broker'.queue = <<>> /\ broker'.wake = FALSE
      BY <2>3 DEF Launch, Off
    <3>. QED  BY <3>1, <1>e
  <2>4. CASE UNCHANGED broker
    BY <2>4, <1>f
  <2>5. CASE \/ \E p \in Pins, S \in Batches, reuse \in BOOLEAN : BeginResearch(c, p, S, reuse)
             \/ MapReady(c) \/ EnvironmentReady(c) \/ ResearchFails(c)
             \/ \E s \in Symbols : NextSymbol(c, s)
             \/ SymbolDone(c) \/ Compute(c) \/ OpenWorker(c) \/ NoWorker(c)
             \/ StoreRelations(c) \/ Discard(c) \/ FinishResearch(c) \/ Expire(c)
             \/ Unavailable(c) \/ Disconnected(c)
             \/ \E prune \in BOOLEAN : BeginClose(c, prune)
             \/ NoBroker(c) \/ Exited(c) \/ CloseFails(c) \/ PruneEnds(c)
    <3>1. UNCHANGED broker
      BY <2>5 DEF BeginResearch, MapReady, EnvironmentReady, ResearchFails, NextSymbol,
                  SymbolDone, Compute, OpenWorker, NoWorker, StoreRelations, Discard,
                  FinishResearch, Expire, Unavailable, Disconnected, BeginClose, NoBroker,
                  Exited, CloseFails, PruneEnds
    <3>. QED  BY <3>1, <2>4
  <2>. QED  BY <1>1, <2>1, <2>2, <2>3, <2>5 DEF ProgramStep
<1>2. CASE BrokerStep
  <2>1. CASE WakeInVain \/ CloseListener \/ ProcessExits \/ BrokerDies
    <3>1. broker'.queue = <<>> /\ broker'.wake = FALSE
      BY <2>1, <1>b DEF WakeInVain, CloseListener, ProcessExits, BrokerDies, Off, BrokerType
    <3>. QED  BY <3>1, <1>e
  <2>2. CASE BrokerMap \/ BrokerEnvironment \/ BrokerTree \/ BrokerFails \/ Confirm
             \/ \E worn \in BOOLEAN : Answer(worn)
    <3>1. broker'.queue = broker.queue /\ broker'.wake = broker.wake
      BY <2>2, <1>b DEF BrokerMap, BrokerEnvironment, BrokerTree, BrokerFails, Confirm, Answer,
                        Idle, BrokerType
    <3>. QED  BY <3>1, <1>f
  <2>3. ASSUME NEW c \in Programs,
               TakeRetirement(c) \/ \E worn \in BOOLEAN : TakeLate(c, worn) \/ TakeAnalysis(c, worn)
        PROVE  Queued'
    <3>1. Takes(c) /\ broker'.queue = Next1.queue /\ broker'.wake = Next1.wake
      BY <2>3, <1>b DEF TakeRetirement, TakeLate, TakeAnalysis, Next1, BrokerType
    <3>. QED  BY <3>1, <1>n
  <2>. QED  BY <1>2, <2>1, <2>2, <2>3 DEF BrokerStep
<1>3. CASE CancelTask \/ (\E o \in Owners : Work(o)) \/ UNCHANGED vars
  <2>1. UNCHANGED broker  BY <1>3 DEF CancelTask, Work, vars
  <2>. QED  BY <2>1, <1>f
<1>. QED  BY <1>1, <1>2, <1>3 DEF RNext

\* The worker never sleeps over a task: the channel that wakes it holds one
\* signal, which submissions that find it full may drop, and whoever takes a
\* task while others wait puts it back (source_broker.go:749-791).
THEOREM WakesUp == RSpec => []NoLostWake
<1>. DEFINE Inv == IInv /\ Queued
<1>1. RInit => Inv
  <2>1. RInit => Queued  BY DEF RInit, Queued, Off
  <2>. QED  BY <2>1, Beginning
<1>2. Inv /\ [RNext]_vars => Inv'
  <2>. SUFFICES ASSUME IInv, Queued, [RNext]_vars PROVE Queued'
    BY Stepping
  <2>. QED  BY QueuedKeeps
<1>3. Inv => NoLostWake  BY DEF Queued, NoLostWake
<1>. QED  BY <1>1, <1>2, <1>3, PTL DEF RSpec

-----------------------------------------------------------------------------
(* Leases are held only for what their owner is about.                        *)
Busy(o, x) == job[o].item = x /\ job[o].step \notin {"done", "failed", "miss", "wait"}

\* Whoever fetches a checkout is at the step of its work that needs one.
Fetches(o, p) ==
    IF o = Broker THEN broker.at = "tree" /\ broker.task = p
                  ELSE Is(o, "tree") /\ request[o].pin = p
KeepsTree(o, p) ==
    \/ kept[o] = p
    \/ Removing(o) /\ job[o].victim = p
    \/ At(o, "done") /\ Fetches(o, p)

\* The relations a program computes, from the miss to what is stored.
Computing(o, s) ==
    /\ o \in Programs /\ request[o].symbol = s
    /\ \/ request[o].at \in {"tree", "analyse", "asking", "good", "bad"}
       \/ Is(o, "relations") /\ At(o, "miss")
Looking(o, s) ==
    /\ o \in Programs /\ request[o].symbol = s
    /\ \/ Is(o, "relations")
       \/ At(o, "miss") /\ request[o].at \in {"analyse", "asking", "good", "bad"}

Uses(o, x) ==
    \/ x = Capacity /\ Reserving(o)
    \/ x # Capacity /\ Busy(o, x)
    \/ \E p \in Pins : x = Tree(p) /\ KeepsTree(o, p)
    \/ \E s \in Symbols : x = Relations(s) /\ Computing(o, s)
Held(o) == \A x \in Items : holder[x] = o => Uses(o, x)
Purpose(o) ==
    /\ At(o, "miss") => job[o].item \in SymbolFiles
    /\ At(o, "wait") => job[o].item # Capacity
    /\ ~Over(o) => /\ \A p \in Pins : job[o].item = Tree(p) => Fetches(o, p)
                   /\ \A s \in Symbols : job[o].item = Relations(s) => Looking(o, s)
Keeping(o) ==
    o \in Programs =>
        /\ kept[o] # None => request[o].at \in {"symbols", "relations", "analyse"}
                             /\ ~request[o].reuse
        /\ Is(o, "tree") => ~request[o].reuse
Needed(o) == Held(o) /\ Purpose(o) /\ Keeping(o)
NeededOnly == \A o \in Owners : Needed(o)

LEMMA ItemNames ==
    /\ \A s \in Symbols : Relations(s) \in Items /\ Relations(s) # Capacity
    /\ \A p \in Pins : /\ Tree(p) \in Items /\ Tree(p) # Capacity
                       /\ Map(p) \in Items /\ Map(p) # Capacity
                       /\ Environment(p) \in Items /\ Environment(p) # Capacity
    /\ \A p \in Pins, s \in Symbols : Tree(p) # Relations(s)
    /\ \A p, q : Map(p) # Tree(q) /\ Environment(p) # Tree(q) /\ Map(p) # Relations(q)
                 /\ Environment(p) # Relations(q)
    /\ \A s, t : Relations(s) = Relations(t) => s = t
    /\ \A p : Capacity # Tree(p) /\ Capacity # Relations(p)
    /\ \A x \in SymbolFiles : \E s \in Symbols : x = Relations(s)
    /\ \A x \in Trees : \E p \in Pins : x = Tree(p)
BY DEF Capacity, Items, Files, Trees, Maps, Caches, SymbolFiles, Map, Environment, Tree,
       Relations

\* The owner's work is where it was.
SameErrand(o) ==
    /\ kept'[o] = kept[o]
    /\ o \in Programs => /\ request'[o].at = request[o].at
                         /\ request'[o].pin = request[o].pin
                         /\ request'[o].symbol = request[o].symbol
                         /\ request'[o].reuse = request[o].reuse
    /\ o = Broker => /\ broker'.at = "tree" <=> broker.at = "tree"
                     /\ broker.at = "tree" => broker'.task = broker.task

LEMMA SameFacts ==
    ASSUME NEW o \in Owners, SameErrand(o)
    PROVE  /\ kept'[o] = kept[o]
           /\ \A p : Fetches(o, p)' <=> Fetches(o, p)
           /\ Keeping(o) => Keeping(o)'
           /\ \A s : At(o, "miss") \/ ~At(o, "miss")' =>
                  /\ Computing(o, s)' => Computing(o, s)
                  /\ Looking(o, s)' => Looking(o, s)
           /\ \A s : At(o, "miss")' \/ ~At(o, "miss") =>
                  /\ Computing(o, s) => Computing(o, s)'
                  /\ Looking(o, s) => Looking(o, s)'
           /\ \A s : Looking(o, s) /\ ~At(o, "miss") /\ At(o, "miss")' => Computing(o, s)'
<1>o. o = Broker \/ o \in Programs  BY DEF Owners
<1>1. \A p : Fetches(o, p)' <=> Fetches(o, p)
  BY <1>o, OwnersAssumption DEF SameErrand, Fetches, Is
<1>. QED  BY <1>1 DEF SameErrand, Computing, Looking, Keeping, Is, At

\* What others do leaves an owner's leases, job and purpose alone.
LEMMA Apart ==
    ASSUME NEW d \in Owners, Needed(d), SameErrand(d), job'[d] = job[d],
           \A x \in Items : holder'[x] = d => holder[x] = d
    PROVE  Needed(d)'
<1>m. At(d, "miss")' <=> At(d, "miss")  BY DEF At
<1>1. \A p : KeepsTree(d, p) => KeepsTree(d, p)'
  BY SameFacts DEF KeepsTree, Removing, At
<1>2. Held(d)'
  <2>. SUFFICES ASSUME NEW x \in Items, holder'[x] = d PROVE Uses(d, x)'
    BY DEF Held
  <2>1. Uses(d, x)  BY DEF Needed, Held
  <2>2. x = Capacity /\ Reserving(d) => Reserving(d)'  BY DEF Reserving
  <2>3. Busy(d, x) => Busy(d, x)'  BY DEF Busy
  <2>4. \A s : Computing(d, s) => Computing(d, s)'  BY <1>m, SameFacts
  <2>. QED  BY <2>1, <2>2, <2>3, <2>4, <1>1 DEF Uses
<1>3. Purpose(d)'
  <2>1. \A s : Looking(d, s) => Looking(d, s)'  BY <1>m, SameFacts
  <2>. QED  BY <2>1, SameFacts DEF Needed, Purpose, At, Over
<1>4. Keeping(d)'  BY SameFacts DEF Needed
<1>. QED  BY <1>2, <1>3, <1>4 DEF Needed

\* A job goes on with its item: it may take the capacity, or a victim's lease.
LEMMA GoesOn ==
    ASSUME NEW o \in Owners, Needed(o), SameErrand(o),
           job'[o].item = job[o].item,
           job[o].step \notin {"done", "failed", "miss", "wait"},
           job'[o].step \notin {"done", "failed", "miss", "wait"},
           Reserving(o) => Reserving(o)',
           \A x \in Items : holder'[x] = o =>
               \/ x = Capacity /\ Reserving(o)'
               \/ \E p \in Pins : x = Tree(p) /\ Removing(o)' /\ job'[o].victim = p
               \/ /\ holder[x] = o
                  /\ Removing(o) /\ x = Tree(job[o].victim) =>
                         Removing(o)' /\ job'[o].victim = job[o].victim
    PROVE  Needed(o)'
<1>1. Held(o)'
  <2>. SUFFICES ASSUME NEW x \in Items, holder'[x] = o PROVE Uses(o, x)'
    BY DEF Held
  <2>1. CASE x = Capacity /\ Reserving(o)'  BY <2>1 DEF Uses
  <2>2. CASE \E p \in Pins : x = Tree(p) /\ Removing(o)' /\ job'[o].victim = p
    BY <2>2 DEF Uses, KeepsTree
  <2>3. CASE /\ holder[x] = o
             /\ Removing(o) /\ x = Tree(job[o].victim) =>
                    Removing(o)' /\ job'[o].victim = job[o].victim
    <3>1. Uses(o, x)  BY <2>3 DEF Needed, Held
    <3>2. Busy(o, x) => Busy(o, x)'  BY DEF Busy
    <3>3. \A s : Computing(o, s) => Computing(o, s)'  BY SameFacts DEF At
    <3>4. \A p : x = Tree(p) /\ KeepsTree(o, p) => KeepsTree(o, p)'
      BY <2>3, SameFacts DEF KeepsTree, At
    <3>. QED  BY <3>1, <3>2, <3>3, <3>4 DEF Uses
  <2>. QED  BY <2>1, <2>2, <2>3
<1>2. Purpose(o)'
  BY SameFacts DEF Needed, Purpose, Over, At
<1>3. Keeping(o)'  BY SameFacts DEF Needed
<1>. QED  BY <1>1, <1>2, <1>3 DEF Needed

\* A job begins: the item's lease is free, and taken.
LEMMA Begins ==
    ASSUME NEW o \in Owners, Needed(o), SameErrand(o),
           At(o, "wait"), job'[o].item = job[o].item,
           \/ job'[o].step \in {"read", "room"}
           \/ job'[o].step = "miss" /\ job[o].item \in SymbolFiles,
           job'[o].step = "room" => job[o].item \notin SymbolFiles,
           \A x \in Items : holder'[x] = o => holder[x] = o \/ x = job[o].item
    PROVE  Needed(o)'
<1>1. Purpose(o)'
  BY SameFacts DEF Needed, Purpose, Over, At
<1>2. Held(o)'
  <2>. SUFFICES ASSUME NEW x \in Items, holder'[x] = o PROVE Uses(o, x)'
    BY DEF Held
  <2>1. CASE holder[x] = o
    <3>1. Uses(o, x)  BY <2>1 DEF Needed, Held
    <3>2. ~Reserving(o) /\ ~Busy(o, x)  BY DEF Reserving, Busy, At
    <3>3. \A s : Computing(o, s) => Computing(o, s)'  BY SameFacts DEF At
    <3>4. \A p : KeepsTree(o, p) => KeepsTree(o, p)'
      BY SameFacts DEF KeepsTree, At, Removing
    <3>. QED  BY <3>1, <3>2, <3>3, <3>4 DEF Uses
  <2>2. CASE x = job[o].item /\ job'[o].step # "miss"
    <3>1. x # Capacity  BY <2>2 DEF Needed, Purpose
    <3>. QED  BY <2>2, <3>1 DEF Uses, Busy
  <2>3. CASE x = job[o].item /\ job'[o].step = "miss"
    <3>1. PICK s \in Symbols : x = Relations(s)  BY <2>3, ItemNames
    <3>2. Looking(o, s)  BY <2>3, <3>1 DEF Needed, Purpose, Over, At
    <3>3. Computing(o, s)'  BY <3>2, <2>3, SameFacts DEF At
    <3>. QED  BY <3>1, <3>3 DEF Uses
  <2>. QED  BY <2>1, <2>2, <2>3
<1>3. Keeping(o)'  BY SameFacts DEF Needed
<1>. QED  BY <1>1, <1>2, <1>3 DEF Needed

\* A job ends: the leases it held are given back, but for a checkout's.
LEMMA Finishes ==
    ASSUME NEW o \in Owners, Needed(o), SameErrand(o),
           NEW s \in {"done", "failed"}, job'[o] = Rest(s), ~Quiet(o),
           \A x \in Items : holder'[x] = o =>
               /\ holder[x] = o
               /\ x # Capacity \/ ~Reserving(o)
               /\ Busy(o, x) => s = "done" /\ x \in Trees
               /\ Removing(o) => x # Tree(job[o].victim)
    PROVE  Needed(o)'
<1>r. job'[o].step = s  BY RestFacts
<1>1. Held(o)'
  <2>. SUFFICES ASSUME NEW x \in Items, holder'[x] = o PROVE Uses(o, x)'
    BY DEF Held
  <2>1. Uses(o, x)  BY DEF Needed, Held
  <2>2. \A t : Computing(o, t) => Computing(o, t)'
    BY <1>r, SameFacts DEF At, Quiet
  <2>3. \A p : x = Tree(p) /\ KeepsTree(o, p) => KeepsTree(o, p)'
    BY SameFacts DEF KeepsTree, At, Quiet
  <2>4. ASSUME Busy(o, x) PROVE Uses(o, x)'
    <3>1. s = "done" /\ x \in Trees  BY <2>4
    <3>2. PICK p \in Pins : x = Tree(p)  BY <3>1, ItemNames
    <3>3. Fetches(o, p)  BY <2>4, <3>2 DEF Needed, Purpose, Busy, Over
    <3>4. KeepsTree(o, p)'  BY <3>1, <3>3, <1>r, SameFacts DEF KeepsTree, At
    <3>. QED  BY <3>2, <3>4 DEF Uses
  <2>. QED  BY <2>1, <2>2, <2>3, <2>4 DEF Uses
<1>2. Purpose(o)'  BY <1>r DEF Purpose, Over, At
<1>3. Keeping(o)'  BY SameFacts DEF Needed
<1>. QED  BY <1>1, <1>2, <1>3 DEF Needed

LEMMA Given ==
    ASSUME Typed, NEW o \in Owners, NEW xs, NEW x \in Items
    PROVE  /\ \A d \in Owners : Released(o, xs)[x] = d => holder[x] = d
           /\ Released(o, xs)[x] = o => x \notin xs
BY OwnersFacts DEF Typed, Released

LEMMA EndNeeded ==
    ASSUME StoreInv, NEW o \in Owners, Needed(o), SameErrand(o),
           NEW s \in {"done", "failed"}, End(o, s), ~Quiet(o)
    PROVE  Needed(o)'
<1>1. job'[o] = Rest(s)  BY DEF End, StoreInv, Typed
<1>2. \A x \in Items : holder'[x] = o => holder[x] = o /\ x \notin Own(o)
  BY Given DEF End, StoreInv
<1>3. ~Busy(o, Capacity) \/ Busy(o, Capacity)  OBVIOUS
<1>. QED  BY <1>1, <1>2, Finishes DEF Own, Busy

LEMMA StoreNeeded ==
    ASSUME StoreInv, NEW o \in Owners, Needed(o), StoreStep(o) \/ GiveUp(o),
           SameErrand(o)
    PROVE  Needed(o)'
<1>t. /\ job \in [Owners -> JobType] /\ Typed
  BY DEF StoreInv, Typed, JobType
<1>c. Capacity \in Items /\ \A p \in Pins : Tree(p) \in Items  BY Names
<1>k. ASSUME NEW y \in Items, Free(y), holder' = Taken(o, y)
      PROVE  \A x \in Items : holder'[x] = o => holder[x] = o \/ x = y
  BY <1>k, <1>t, TakenFacts
<1>q. ~Quiet(o)  BY StepsAreBusy DEF StoreInv, Jobs
<1>m. ~Removing(o) \/ job[o].victim \in Pins
  BY DEF StoreInv, Jobs, Leased
\* Steps that only go on.
<1>g. ASSUME job'[o].item = job[o].item,
             job[o].step \in {"room", "evict", "remove", "reclaim", "write"},
             job'[o].step \in {"evict", "forget", "reclaim", "write", "verify"},
             job'[o].step = "forget" <=> job[o].step = "remove",
             job'[o].victim = job[o].victim,
             holder' = holder \/ (Free(Capacity) /\ holder' = Taken(o, Capacity))
      PROVE  Needed(o)'
  <2>1. \A x \in Items : holder'[x] = o => holder[x] = o \/ x = Capacity
    BY <1>g, <1>c, <1>k
  <2>2. Reserving(o)'  BY <1>g DEF Reserving
  <2>. QED  BY <1>g, <2>1, <2>2, GoesOn DEF Removing
<1>1. CASE OpenMap(o)
  <2>1. /\ job'[o] = Rest("done") /\ job[o].step = "wait" /\ holder' = holder
    BY <1>1, <1>t DEF OpenMap, At
  <2>. QED  BY <2>1, <1>q, Finishes DEF Reserving, Busy, Removing
<1>2. CASE OpenCache(o)
  <2>1. /\ job'[o].item = job[o].item /\ job'[o].step = "read" /\ At(o, "wait")
        /\ job[o].item \in Items
    BY <1>2, <1>t DEF OpenCache, JobType
  <2>2. \A x \in Items : holder'[x] = o => holder[x] = o \/ x = job[o].item
    BY <1>2, <2>1, <1>k DEF OpenCache
  <2>. QED  BY <2>1, <2>2, Begins
<1>3. CASE CloseCache(o)
  <2>1. /\ job'[o] = Rest("done") /\ job[o].step = "read"
    BY <1>3, <1>t DEF CloseCache, At
  <2>2. \A x \in Items : holder'[x] = o => holder[x] = o /\ x # job[o].item
    BY <1>3, <1>t, Given DEF CloseCache
  <2>. QED  BY <2>1, <2>2, <1>q, Finishes DEF Reserving, Busy, Removing
<1>4. CASE Lock(o)
  <2>1. /\ job'[o].item = job[o].item /\ At(o, "wait") /\ job[o].item \in Items
        /\ job'[o].step = IF job[o].item \in SymbolFiles THEN "miss" ELSE "room"
    BY <1>4, <1>t DEF Lock, JobType
  <2>2. \A x \in Items : holder'[x] = o => holder[x] = o \/ x = job[o].item
    BY <1>4, <2>1, <1>k DEF Lock
  <2>. QED  BY <2>1, <2>2, Begins
<1>5. CASE ReserveFile(o)
  <2>1. /\ job'[o].item = job[o].item /\ job[o].step = "room" /\ job'[o].step = "reclaim"
        /\ job'[o].victim = job[o].victim
    BY <1>5, <1>t DEF ReserveFile, JobType, At
  <2>. QED  BY <1>5, <2>1, <1>g DEF ReserveFile
<1>6. CASE ReserveTree(o)
  <2>1. /\ job'[o].item = job[o].item /\ job[o].step = "room"
        /\ job'[o].step \in {"reclaim", "evict"}
        /\ job'[o].victim = job[o].victim
    BY <1>6, <1>t DEF ReserveTree, JobType, At
  <2>. QED  BY <1>6, <2>1, <1>g DEF ReserveTree
<1>7. CASE BeginPrune(o)
  <2>1. /\ job'[o].item = job[o].item /\ job[o].step = "room" /\ job'[o].step = "evict"
        /\ job'[o].victim = job[o].victim
    BY <1>7, <1>t DEF BeginPrune, JobType, At
  <2>. QED  BY <1>7, <2>1, <1>g DEF BeginPrune
<1>8. ASSUME NEW p \in Pins, PassOver(o, p) \/ ForgetStale(o, p) PROVE Needed(o)'
  <2>1. /\ job'[o].item = job[o].item /\ job[o].step = "evict" /\ job'[o].step = "evict"
        /\ job'[o].victim = job[o].victim /\ holder' = holder
    BY <1>8, <1>t DEF PassOver, ForgetStale, JobType, At
  <2>. QED  BY <2>1, <1>g
<1>9. ASSUME NEW p \in Pins, Evict(o, p) PROVE Needed(o)'
  <2>1. /\ job'[o].item = job[o].item /\ job[o].step = "evict" /\ job'[o].step = "remove"
        /\ job'[o].victim = p
    BY <1>9, <1>t DEF Evict, JobType, At
  <2>2. \A x \in Items : holder'[x] = o => holder[x] = o \/ x = Tree(p)
    BY <1>9, <1>c, <1>k DEF Evict
  <2>. QED  BY <2>1, <2>2, GoesOn DEF Reserving, Removing
<1>10. CASE Removed(o)
  <2>1. /\ job'[o].item = job[o].item /\ job[o].step = "remove" /\ job'[o].step = "forget"
        /\ job'[o].victim = job[o].victim /\ holder' = holder
    BY <1>10, <1>t DEF Removed, JobType, At
  <2>. QED  BY <2>1, <1>g
<1>11. CASE Forget(o)
  <2>1. /\ job'[o].item = job[o].item /\ job[o].step = "forget" /\ job'[o].step = "evict"
    BY <1>11, <1>t DEF Forget, JobType, At
  <2>2. \A x \in Items : holder'[x] = o => holder[x] = o /\ x # Tree(job[o].victim)
    BY <1>11, <1>t, Given DEF Forget
  <2>. QED  BY <2>1, <2>2, GoesOn DEF Reserving
<1>12. CASE Evicted(o)
  <2>1. CASE job[o].item = Capacity
    BY <1>12, <2>1, <1>q, EndNeeded DEF Evicted
  <2>2. CASE job[o].item # Capacity /\ TreeUse > Target(o)
    BY <1>12, <2>2, <1>q, EndNeeded DEF Evicted
  <2>3. CASE job[o].item # Capacity /\ ~(TreeUse > Target(o))
    <3>1. /\ job'[o].item = job[o].item /\ job[o].step = "evict" /\ job'[o].step = "reclaim"
          /\ job'[o].victim = job[o].victim /\ holder' = holder
      BY <1>12, <2>3, <1>t DEF Evicted, JobType, At
    <3>. QED  BY <3>1, <1>g
  <2>. QED  BY <2>1, <2>2, <2>3
<1>13. ASSUME NEW x \in Caches, Reclaim(o, x) PROVE Needed(o)'
  <2>1. /\ job'[o].item = job[o].item /\ job[o].step = "reclaim" /\ job'[o].step = "reclaim"
        /\ job'[o].victim = job[o].victim /\ holder' = holder
    BY <1>13, <1>t DEF Reclaim, JobType, At
  <2>. QED  BY <2>1, <1>g
<1>14. CASE Refuse(o)
  BY <1>14, <1>q, EndNeeded DEF Refuse
<1>15. CASE GrantTree(o)
  <2>1. /\ job'[o].item = job[o].item /\ job[o].step = "reclaim"
        /\ job'[o].step \in {"write", "verify"}
        /\ job'[o].victim = job[o].victim /\ holder' = holder
    BY <1>15, <1>t DEF GrantTree, JobType, At
  <2>. QED  BY <2>1, <1>g
<1>16. CASE GrantFile(o)
  <2>1. /\ job'[o].item = job[o].item /\ job[o].step = "reclaim"
        /\ job'[o].step \in {"reclaim", "write"}
        /\ job'[o].victim = job[o].victim /\ holder' = holder
    BY <1>16, <1>t DEF GrantFile, JobType, At
  <2>. QED  BY <2>1, <1>g
<1>17. CASE Publish(o)
  BY <1>17, <1>q, EndNeeded DEF Publish
<1>18. CASE CheckedOut(o)
  <2>1. /\ job'[o].item = job[o].item /\ job[o].step = "write" /\ job'[o].step = "verify"
        /\ job'[o].victim = job[o].victim /\ holder' = holder
    BY <1>18, <1>t DEF CheckedOut, JobType, At
  <2>. QED  BY <2>1, <1>g
<1>19. CASE Verify(o)
  <2>1. /\ job'[o] = Rest("done") /\ job[o].step = "verify"
    BY <1>19, <1>t DEF Verify, At
  <2>2. \A x \in Items : holder'[x] = o => holder[x] = o /\ x # Capacity
    BY <1>19, <1>t, Given DEF Verify
  <2>3. job[o].item \in Trees
    BY <2>1 DEF StoreInv, Jobs, Leased, At
  <2>. QED  BY <2>1, <2>2, <2>3, <1>q, Finishes DEF Busy, Removing
<1>20. CASE Mismatch(o)
  BY <1>20, <1>q, EndNeeded DEF Mismatch
<1>21. CASE GiveUp(o)
  BY <1>21, <1>q, EndNeeded DEF GiveUp
<1>. QED
  BY <1>1, <1>2, <1>3, <1>4, <1>5, <1>6, <1>7, <1>8, <1>9, <1>10, <1>11, <1>12, <1>13, <1>14,
     <1>15, <1>16, <1>17, <1>18, <1>19, <1>20, <1>21 DEF StoreStep

-----------------------------------------------------------------------------
(* What the requests do to leases.                                            *)

\* A program between its jobs has only the checkout it keeps, and the
\* relations it computes.
LEMMA BetweenJobs ==
    ASSUME NEW o \in Owners, Needed(o), Quiet(o), NEW x \in Items, holder[x] = o
    PROVE  \/ \E p \in Pins : x = Tree(p) /\ (kept[o] = p \/ (At(o, "done") /\ Fetches(o, p)))
           \/ \E s \in Symbols : x = Relations(s) /\ Computing(o, s)
<1>1. Uses(o, x)  BY DEF Needed, Held
<1>. QED  BY <1>1 DEF Uses, KeepsTree, Busy, Quiet, Reserving, Removing

Elsewhere == {"idle", "map", "environment", "retire", "closing", "exit", "pruning"}

LEMMA HoldsNothing ==
    ASSUME NEW c \in Programs, Needed(c), Quiet(c), request[c].at \in Elsewhere
    PROVE  /\ \A x \in Items : holder[x] # c
           /\ kept[c] = None
<1>o. c \in Owners /\ c # Broker  BY OwnersAssumption DEF Owners
<1>1. kept[c] = None  BY DEF Needed, Keeping, Elsewhere
<1>2. \A p \in Pins : ~Fetches(c, p)  BY <1>o DEF Fetches, Is, Elsewhere
<1>3. \A s : ~Computing(c, s)  BY DEF Computing, Is, Elsewhere
<1>. QED  BY <1>1, <1>2, <1>3, <1>o, BetweenJobs, PinsAssumption

\* A miss is only known to a request that computes the relations.
LEMMA NoMiss ==
    ASSUME NEW c \in Programs, Needed(c), Quiet(c),
           request[c].at \notin {"relations", "analyse", "asking", "good", "bad"}
    PROVE  Over(c)
<1>1. CASE At(c, "miss")
  <2>1. PICK s \in Symbols : job[c].item = Relations(s)
    BY <1>1, ItemNames DEF Needed, Purpose
  <2>. QED  BY <1>1, <2>1 DEF Needed, Purpose, Looking, Is, Over, At
<1>. QED  BY <1>1 DEF Quiet, Over, At

\* A job that is about neither a checkout nor a symbol's relations.
Plain(j) ==
    \/ j.step \in {"done", "failed"}
    \/ /\ j.step \in {"wait", "room"}
       /\ j.item \in {Map(p) : p \in Pins} \union {Environment(p) : p \in Pins}
                        \union {Capacity}
       /\ j.step = "wait" => j.item # Capacity

LEMMA PlainPurpose == ASSUME NEW o, Plain(job'[o]) PROVE Purpose(o)'
<1>1. CASE job'[o].step \in {"done", "failed"}
  BY <1>1 DEF Purpose, Over, At
<1>2. CASE job'[o].step \in {"wait", "room"}
  <2>1. /\ \A p \in Pins : job'[o].item # Tree(p)
        /\ \A s \in Symbols : job'[o].item # Relations(s)
    BY <1>2, ItemNames DEF Plain
  <2>. QED  BY <1>2, <2>1 DEF Purpose, Over, At, Plain
<1>. QED  BY <1>1, <1>2 DEF Plain

LEMMA EmptyHanded ==
    ASSUME NEW o \in Owners, \A x \in Items : holder'[x] # o, Plain(job'[o]),
           o \in Programs => kept'[o] = None /\ request'[o].at # "tree"
    PROVE  Needed(o)'
BY PlainPurpose DEF Needed, Held, Keeping, Is

\* From one place to another with nothing in hand.
LEMMA Onwards ==
    ASSUME NEW c \in Programs, Needed(c), Quiet(c), request[c].at \in Elsewhere,
           \A x \in Items : holder'[x] = c => holder[x] = c,
           Plain(job'[c]), kept'[c] = kept[c], request'[c].at # "tree"
    PROVE  Needed(c)'
<1>o. c \in Owners  BY DEF Owners
<1>. QED  BY <1>o, HoldsNothing, EmptyHanded

\* From one place to another with a checkout or with relations.
CarriesTrees(c) ==
    \A p \in Pins :
        (kept[c] = p \/ (At(c, "done") /\ Fetches(c, p))) /\ holder'[Tree(p)] = c =>
            kept'[c] = p
CarriesRelations(c) ==
    \A s \in Symbols :
        Computing(c, s) /\ holder'[Relations(s)] = c =>
            Computing(c, s)' \/ Busy(c, Relations(s))'

LEMMA Carries ==
    ASSUME NEW c \in Programs, Needed(c), Quiet(c),
           \A x \in Items : holder'[x] = c => holder[x] = c,
           Purpose(c)', Keeping(c)', CarriesTrees(c), CarriesRelations(c)
    PROVE  Needed(c)'
<1>o. c \in Owners  BY DEF Owners
<1>1. Held(c)'
  <2>. SUFFICES ASSUME NEW x \in Items, holder'[x] = c PROVE Uses(c, x)'
    BY DEF Held
  <2>1. CASE \E p \in Pins : x = Tree(p) /\ (kept[c] = p \/ (At(c, "done") /\ Fetches(c, p)))
    BY <2>1 DEF Uses, KeepsTree, CarriesTrees
  <2>2. CASE \E s \in Symbols : x = Relations(s) /\ Computing(c, s)
    BY <2>2, ItemNames DEF Uses, CarriesRelations
  <2>. QED  BY <1>o, <2>1, <2>2, BetweenJobs
<1>. QED  BY <1>1 DEF Needed

LEMMA Places2 ==
    ASSUME IInv, NEW c \in Programs, NEW place \in Places, Go(c, place)
    PROVE  /\ request'[c].at = place /\ request'[c].pin = request[c].pin
           /\ request'[c].symbol = request[c].symbol /\ request'[c].reuse = request[c].reuse
BY DEF Go, IInv, Asked, RequestType

LEMMA StartJob ==
    ASSUME StoreInv, NEW o \in Owners, NEW x, Start(o, x)
    PROVE  job'[o].step = "wait" /\ job'[o].item = x
BY JobFields DEF Start, StoreInv, Typed

LEMMA ResearchNeeded ==
    ASSUME IInv, NEW c \in Programs, Needed(c),
           \/ \E p \in Pins, S \in Batches, reuse \in BOOLEAN : BeginResearch(c, p, S, reuse)
           \/ MapReady(c) \/ EnvironmentReady(c) \/ ResearchFails(c)
           \/ \E s \in Symbols : NextSymbol(c, s)
           \/ SymbolDone(c) \/ Compute(c) \/ OpenWorker(c) \/ NoWorker(c)
           \/ StoreRelations(c) \/ Discard(c) \/ FinishResearch(c)
    PROVE  Needed(c)'
<1>o. c \in Owners /\ c # Broker  BY OwnersAssumption DEF Owners
<1>t. /\ StoreInv /\ Typed /\ Asking(c) /\ request \in [Programs -> RequestType]
      /\ job \in [Owners -> JobType] /\ kept \in [Owners -> Pins \union {None}]
  BY DEF IInv, StoreInv, Typed, JobType, Asked, Requests
<1>n. NoRequest.at = "idle"  BY DEF NoRequest
<1>p. \A p \in Pins : \A j : j.step = "wait" /\ (j.item = Map(p) \/ j.item = Environment(p)) => Plain(j)
  BY ItemNames DEF Plain
<1>k. Keeping(c) /\ Purpose(c)  BY DEF Needed
<1>1. ASSUME NEW p \in Pins, NEW S \in Batches, NEW reuse \in BOOLEAN,
             BeginResearch(c, p, S, reuse)
      PROVE  Needed(c)'
  <2>1. /\ request[c].at = "idle" /\ UNCHANGED <<holder, kept>>
        /\ request'[c] = [NoRequest EXCEPT !.at = "map", !.pin = p, !.todo = S, !.reuse = reuse]
        /\ Start(c, Map(p))
    BY <1>1, <1>t DEF BeginResearch, Is
  <2>2. request'[c].at = "map"  BY <2>1 DEF NoRequest
  <2>3. Plain(job'[c])  BY <2>1, <1>o, <1>t, <1>p, StartJob
  <2>4. Quiet(c)  BY <2>1, <1>t DEF Asking
  <2>. QED  BY <2>1, <2>2, <2>3, <2>4, Onwards DEF Elsewhere
<1>2. CASE MapReady(c)
  <2>1. /\ request[c].at = "map" /\ UNCHANGED <<holder, kept>> /\ Quiet(c)
        /\ Go(c, "environment") /\ Start(c, Environment(request[c].pin))
    BY <1>2 DEF MapReady, Is, At, Quiet
  <2>2. request'[c].at = "environment"  BY <2>1, Places2, PlacesFacts
  <2>3. request[c].pin \in Pins  BY <2>1, <1>t DEF Asking
  <2>4. Plain(job'[c])  BY <2>1, <2>3, <1>o, <1>t, <1>p, StartJob
  <2>. QED  BY <2>1, <2>2, <2>4, Onwards DEF Elsewhere
<1>3. CASE EnvironmentReady(c)
  <2>1. /\ request[c].at = "environment" /\ UNCHANGED <<holder, kept, job>> /\ Quiet(c)
        /\ Go(c, "symbols") /\ job[c].step = "done"
    BY <1>3 DEF EnvironmentReady, Is, At, Quiet, store
  <2>2. request'[c].at = "symbols"  BY <2>1, Places2, PlacesFacts
  <2>4. Plain(job'[c])  BY <2>1 DEF Plain
  <2>. QED  BY <2>1, <2>2, <2>4, Onwards DEF Elsewhere
<1>4. CASE ResearchFails(c)
  <2>1. /\ request[c].at \in {"map", "environment"} /\ UNCHANGED <<holder, kept>> /\ Quiet(c)
        /\ request'[c] = NoRequest /\ job'[c] = Rest("done")
    BY <1>4, <1>o, <1>t DEF ResearchFails, At, Quiet
  <2>4. Plain(job'[c])  BY <2>1, RestFacts DEF Plain
  <2>. QED  BY <2>1, <2>4, <1>n, Onwards DEF Elsewhere
<1>5. ASSUME NEW s \in Symbols, NextSymbol(c, s) PROVE Needed(c)'
  <2>1. /\ Is(c, "symbols") /\ UNCHANGED <<holder, kept>> /\ Start(c, Relations(s))
        /\ request'[c] = [request[c] EXCEPT !.at = "relations", !.symbol = s]
    BY <1>5, <1>t DEF NextSymbol
  <2>2. /\ request'[c].at = "relations" /\ request'[c].symbol = s
        /\ request'[c].reuse = request[c].reuse
    BY <2>1, <1>t DEF RequestType
  <2>3. job'[c].step = "wait" /\ job'[c].item = Relations(s)
    BY <2>1, <1>o, <1>t, StartJob
  <2>4. Quiet(c)  BY <2>1, <1>t DEF Asking, Is
  <2>5. Purpose(c)'
    <3>1. Looking(c, s)'  BY <2>2 DEF Looking, Is
    <3>. QED  BY <2>3, <3>1, ItemNames DEF Purpose, At
  <2>6. Keeping(c)'  BY <2>1, <2>2, <1>k DEF Keeping, Is
  <2>7. \A p : ~Fetches(c, p)  BY <2>1, <1>o DEF Fetches, Is
  <2>8. \A q : ~Computing(c, q)  BY <2>1 DEF Computing, Is
  <2>10. CarriesTrees(c)  BY <2>1, <2>7 DEF CarriesTrees
  <2>11. CarriesRelations(c)  BY <2>8 DEF CarriesRelations
  <2>. QED  BY <2>1, <2>4, <2>5, <2>6, <2>10, <2>11, Carries
<1>6. CASE SymbolDone(c)
  <2>1. /\ Is(c, "relations") /\ UNCHANGED <<holder, kept, job>> /\ Over(c)
        /\ request'[c] = [request[c] EXCEPT !.at = "symbols",
                             !.todo = request[c].todo \ {request[c].symbol}, !.symbol = None]
    BY <1>6, <1>t DEF SymbolDone, store
  <2>2. request'[c].at = "symbols" /\ request'[c].reuse = request[c].reuse
    BY <2>1, <1>t DEF RequestType
  <2>4. Quiet(c)  BY <2>1 DEF Quiet, Over
  <2>5. Purpose(c)'  BY <2>1 DEF Purpose, Over, At
  <2>6. Keeping(c)'  BY <2>1, <2>2, <1>k DEF Keeping, Is
  <2>7. \A p : ~Fetches(c, p)  BY <2>1, <1>o DEF Fetches, Is
  <2>8. \A q : ~Computing(c, q)  BY <2>1 DEF Computing, Is, Over, At
  <2>10. CarriesTrees(c)  BY <2>1, <2>7 DEF CarriesTrees
  <2>11. CarriesRelations(c)  BY <2>8 DEF CarriesRelations
  <2>. QED  BY <2>1, <2>4, <2>5, <2>6, <2>10, <2>11, Carries
<1>7. CASE Compute(c) /\ kept[c] = None
  <2>1. /\ Is(c, "relations") /\ At(c, "miss") /\ UNCHANGED <<holder, kept>>
        /\ ~request[c].reuse /\ Go(c, "tree") /\ Start(c, Tree(request[c].pin))
    BY <1>7 DEF Compute
  <2>2. /\ request'[c].at = "tree" /\ request'[c].pin = request[c].pin
        /\ request'[c].symbol = request[c].symbol /\ request'[c].reuse = request[c].reuse
    BY <2>1, Places2, PlacesFacts
  <2>3. job'[c].step = "wait" /\ job'[c].item = Tree(request[c].pin) /\ request[c].pin \in Pins
    BY <2>1, <1>o, <1>t, StartJob DEF Asking, Is
  <2>4. Quiet(c)  BY <2>1 DEF Quiet, At
  <2>5. Purpose(c)'
    <3>1. \A p : Tree(request[c].pin) = Tree(p) => Fetches(c, p)'
      BY <2>2, <1>o, Names DEF Fetches, Is
    <3>. QED  BY <2>3, <3>1, ItemNames DEF Purpose, At
  <2>6. Keeping(c)'  BY <2>1, <2>2, <1>7 DEF Keeping, Is
  <2>7. \A p : ~At(c, "done") /\ (p \in Pins => kept[c] # p)
    BY <2>1, <1>7, PinsAssumption DEF At
  <2>8. \A q : Computing(c, q) => Computing(c, q)'  BY <2>2 DEF Computing, Is
  <2>10. CarriesTrees(c)  BY <2>1, <2>7 DEF CarriesTrees
  <2>11. CarriesRelations(c)  BY <2>8 DEF CarriesRelations
  <2>. QED  BY <2>1, <2>4, <2>5, <2>6, <2>10, <2>11, Carries
<1>8. CASE Compute(c) /\ kept[c] # None
  <2>1. /\ Is(c, "relations") /\ At(c, "miss") /\ UNCHANGED <<holder, kept, job>>
        /\ ~request[c].reuse /\ Go(c, "analyse")
    BY <1>8 DEF Compute
  <2>2. /\ request'[c].at = "analyse" /\ request'[c].pin = request[c].pin
        /\ request'[c].symbol = request[c].symbol /\ request'[c].reuse = request[c].reuse
    BY <2>1, Places2, PlacesFacts
  <2>4. Quiet(c)  BY <2>1 DEF Quiet, At
  <2>7. \A p : ~Fetches(c, p)  BY <2>1, <1>o DEF Fetches, Is
  <2>8. \A q : /\ Computing(c, q) => Computing(c, q)'
               /\ Looking(c, q) => Looking(c, q)'
    BY <2>1, <2>2 DEF Computing, Looking, Is, At
  <2>5. Purpose(c)'  BY <2>1, <2>7, <2>8, <1>k DEF Purpose, At, Over
  <2>6. Keeping(c)'  BY <2>1, <2>2, <1>k DEF Keeping, Is
  <2>10. CarriesTrees(c)  BY <2>1, <2>7 DEF CarriesTrees
  <2>11. CarriesRelations(c)  BY <2>8 DEF CarriesRelations
  <2>. QED  BY <2>1, <2>4, <2>5, <2>6, <2>10, <2>11, Carries
<1>9. CASE OpenWorker(c)
  <2>1. /\ Is(c, "tree") /\ At(c, "done") /\ UNCHANGED <<holder, job>>
        /\ kept'[c] = request[c].pin /\ Go(c, "analyse")
    BY <1>9, <1>o, <1>t DEF OpenWorker, store
  <2>2. /\ request'[c].at = "analyse" /\ request'[c].symbol = request[c].symbol
        /\ request'[c].reuse = request[c].reuse
    BY <2>1, Places2, PlacesFacts
  <2>3. ~request[c].reuse /\ kept[c] = None  BY <2>1, <1>k DEF Keeping, Is
  <2>4. Quiet(c)  BY <2>1 DEF Quiet, At
  <2>5. Purpose(c)'  BY <2>1 DEF Purpose, Over, At
  <2>6. Keeping(c)'  BY <2>2, <2>3 DEF Keeping, Is
  <2>7. \A p \in Pins : kept[c] # p /\ (Fetches(c, p) => kept'[c] = p)
    BY <2>1, <2>3, <1>o, PinsAssumption DEF Fetches
  <2>8. \A q : Computing(c, q) => Computing(c, q)'  BY <2>2 DEF Computing, Is
  <2>10. CarriesTrees(c)  BY <2>1, <2>7 DEF CarriesTrees
  <2>11. CarriesRelations(c)  BY <2>8 DEF CarriesRelations
  <2>. QED  BY <2>1, <2>4, <2>5, <2>6, <2>10, <2>11, Carries
<1>10. CASE NoWorker(c)
  <2>1. /\ Is(c, "tree") /\ Over(c) /\ UNCHANGED <<kept, job>>
        /\ holder' = Released(c, {Tree(request[c].pin)}) /\ Go(c, "bad")
    BY <1>10 DEF NoWorker
  <2>2. /\ request'[c].at = "bad" /\ request'[c].symbol = request[c].symbol
        /\ request'[c].reuse = request[c].reuse
    BY <2>1, Places2, PlacesFacts
  <2>3. kept[c] = None  BY <2>1, <1>k DEF Keeping, Is
  <2>4. Quiet(c)  BY <2>1 DEF Quiet, Over
  <2>5. Purpose(c)'  BY <2>1 DEF Purpose, Over, At
  <2>6. Keeping(c)'  BY <2>1, <2>2, <2>3 DEF Keeping, Is
  <2>7. \A p \in Pins : kept[c] # p /\ (Fetches(c, p) => p = request[c].pin)
    BY <2>3, <1>o, PinsAssumption DEF Fetches
  <2>8. \A q : Computing(c, q) => Computing(c, q)'  BY <2>2 DEF Computing, Is
  <2>9. \A x \in Items : holder'[x] = c => holder[x] = c /\ x # Tree(request[c].pin)
    BY <2>1, <1>o, <1>t, Given
  <2>10. CarriesTrees(c)  BY <2>7, <2>9, ItemNames DEF CarriesTrees
  <2>11. CarriesRelations(c)  BY <2>8 DEF CarriesRelations
  <2>. QED  BY <2>4, <2>5, <2>6, <2>9, <2>10, <2>11, Carries
<1>11. CASE StoreRelations(c)
  <2>. DEFINE j == Job("room", Relations(request[c].symbol))
  <2>1. /\ request[c].at \in {"analyse", "good"} /\ UNCHANGED <<holder, kept>>
        /\ job'[c] = j /\ Go(c, "relations")
    BY <1>11, <1>o, <1>t DEF StoreRelations
  <2>2. /\ request'[c].at = "relations" /\ request'[c].symbol = request[c].symbol
        /\ request'[c].reuse = request[c].reuse
    BY <2>1, Places2, PlacesFacts
  <2>3. j.step = "room" /\ j.item = Relations(request[c].symbol)  BY JobFields
  <2>. HIDE DEF j
  <2>4. Quiet(c)  BY <2>1, <1>t DEF Asking
  <2>5. Purpose(c)'
    <3>1. \A s : Relations(request[c].symbol) = Relations(s) => Looking(c, s)'
      BY <2>2, ItemNames DEF Looking, Is
    <3>2. request[c].symbol \in Symbols  BY <2>1, <1>t DEF Asking
    <3>. QED  BY <2>1, <2>3, <3>1, <3>2, ItemNames DEF Purpose, At
  <2>6. Keeping(c)'  BY <2>1, <2>2, <1>k DEF Keeping, Is
  <2>7. \A p : ~Fetches(c, p)  BY <2>1, <1>o DEF Fetches, Is
  <2>8. \A q : Computing(c, q) => Busy(c, Relations(q))'
    BY <2>1, <2>3 DEF Computing, Busy
  <2>10. CarriesTrees(c)  BY <2>1, <2>7 DEF CarriesTrees
  <2>11. CarriesRelations(c)  BY <2>8 DEF CarriesRelations
  <2>. QED  BY <2>1, <2>4, <2>5, <2>6, <2>10, <2>11, Carries
<1>12. CASE Discard(c)
  <2>1. /\ request[c].at \in {"analyse", "bad", "good"} /\ UNCHANGED kept
        /\ holder' = Released(c, {Relations(request[c].symbol)})
        /\ job'[c] = Rest("failed") /\ Go(c, "relations")
    BY <1>12, <1>o, <1>t DEF Discard, Is
  <2>2. /\ request'[c].at = "relations" /\ request'[c].symbol = request[c].symbol
        /\ request'[c].reuse = request[c].reuse
    BY <2>1, Places2, PlacesFacts
  <2>4. Quiet(c)  BY <2>1, <1>t DEF Asking
  <2>5. Purpose(c)'  BY <2>1, RestFacts DEF Purpose, Over, At
  <2>6. Keeping(c)'  BY <2>1, <2>2, <1>k DEF Keeping, Is
  <2>7. \A p : ~Fetches(c, p)  BY <2>1, <1>o DEF Fetches, Is
  <2>8. \A q : Computing(c, q) => q = request[c].symbol  BY DEF Computing
  <2>9. \A x \in Items : holder'[x] = c => holder[x] = c /\ x # Relations(request[c].symbol)
    BY <2>1, <1>o, <1>t, Given
  <2>10. CarriesTrees(c)  BY <2>1, <2>7 DEF CarriesTrees
  <2>11. CarriesRelations(c)  BY <2>8, <2>9, ItemNames DEF CarriesRelations
  <2>. QED  BY <2>4, <2>5, <2>6, <2>9, <2>10, <2>11, Carries
<1>13. CASE FinishResearch(c)
  <2>1. /\ Is(c, "symbols") /\ holder' = Released(c, Trees) /\ kept'[c] = None
        /\ job'[c] = Rest("done") /\ request'[c] = NoRequest
    BY <1>13, <1>o, <1>t DEF FinishResearch
  <2>2. Quiet(c)  BY <2>1, <1>t DEF Asking, Is
  <2>3. \A q : ~Computing(c, q)  BY <2>1 DEF Computing, Is
  <2>4. \A x \in Items : holder'[x] = c => holder[x] = c /\ x \notin Trees
    BY <2>1, <1>o, <1>t, Given
  <2>5. \A x \in Items : holder'[x] # c
    BY <2>2, <2>3, <2>4, <1>o, BetweenJobs, Names
  <2>6. Plain(job'[c])  BY <2>1, RestFacts DEF Plain
  <2>. QED  BY <2>1, <2>5, <2>6, <1>n, <1>o, EmptyHanded
<1>14. Compute(c) => kept[c] = None \/ kept[c] # None  OBVIOUS
<1>. QED
  BY <1>1, <1>2, <1>3, <1>4, <1>5, <1>6, <1>7, <1>8, <1>9, <1>10, <1>11, <1>12, <1>13, <1>14

\* A program with a miss in hand goes to the broker, or is sent on.
LEMMA Sends ==
    ASSUME IInv, NEW c \in Programs, Needed(c),
           \A x \in Items : holder'[x] = c => holder[x] = c,
           job'[c] = job[c], kept'[c] = kept[c],
           request'[c].at \in {"asking", "good", "bad"},
           request'[c].symbol = request[c].symbol, request'[c].reuse = request[c].reuse,
           \/ Is(c, "relations") /\ At(c, "miss") /\ request[c].reuse
           \/ Is(c, "asking")
    PROVE  Needed(c)'
<1>o. c # Broker  BY OwnersAssumption
<1>t. Asking(c) /\ Keeping(c) /\ Purpose(c)  BY DEF IInv, Requests, Needed
<1>1. Quiet(c)  BY <1>t DEF Asking, Quiet, Is, At
<1>3. kept[c] = None  BY <1>t DEF Keeping, Is
<1>4. \A p : ~Fetches(c, p)  BY <1>o DEF Fetches, Is
<1>5. \A s : /\ Computing(c, s) => Computing(c, s)'
             /\ Looking(c, s) /\ At(c, "miss") => Looking(c, s)'
  BY DEF Computing, Looking, Is, At
<1>6. Purpose(c)'
  BY <1>1, <1>4, <1>5, <1>t DEF Purpose, At, Over, Quiet
<1>7. Keeping(c)'  BY <1>3 DEF Keeping, Is
<1>8. CarriesTrees(c)  BY <1>3, <1>4, PinsAssumption DEF CarriesTrees
<1>9. CarriesRelations(c)  BY <1>5 DEF CarriesRelations
<1>. QED  BY <1>1, <1>6, <1>7, <1>8, <1>9, Carries

\* A command that waited for the broker's retirement has nothing in hand.
LEMMA Dismisses ==
    ASSUME IInv, NEW c \in Programs, Needed(c), Is(c, "closing"),
           \A x \in Items : holder'[x] = c => holder[x] = c,
           job'[c] = job[c], kept'[c] = kept[c], request'[c].at # "tree"
    PROVE  Needed(c)'
<1>1. Quiet(c)  BY DEF IInv, Requests, Asking, Is
<1>2. Plain(job'[c])  BY <1>1, NoMiss DEF Plain, Over, Is
<1>. QED  BY <1>1, <1>2, Onwards DEF Elsewhere, Is

LEMMA UnansweredNeeded ==
    ASSUME IInv, NEW c \in Programs, Needed(c), request[c].at \in {"asking", "closing"},
           request' = Unanswered(c),
           \A x \in Items : holder'[x] = c => holder[x] = c,
           job'[c] = job[c], kept'[c] = kept[c]
    PROVE  Needed(c)'
<1>1. CASE Is(c, "asking")
  <2>1. Go(c, "bad")  BY <1>1 DEF Unanswered, Go
  <2>. QED  BY <1>1, <2>1, Places2, PlacesFacts, Sends
<1>2. CASE Is(c, "closing")
  <2>1. request'[c] = NoRequest  BY <1>2 DEF Unanswered, Is, IInv, Asked
  <2>. QED  BY <1>2, <2>1, Dismisses DEF NoRequest
<1>. QED  BY <1>1, <1>2 DEF Is

LEMMA BrokingNeeded ==
    ASSUME IInv, NEW c \in Programs, Needed(c),
           \/ Expire(c) \/ Launch(c) \/ Unavailable(c) \/ Ask(c) \/ Withdraw(c)
           \/ Disconnected(c) \/ ProgramDies(c)
    PROVE  Needed(c)'
<1>o. c \in Owners /\ c # Broker  BY OwnersAssumption DEF Owners
<1>t. /\ StoreInv /\ Typed /\ Asking(c) /\ request \in [Programs -> RequestType]
      /\ job \in [Owners -> JobType] /\ kept \in [Owners -> Pins \union {None}]
  BY DEF IInv, StoreInv, Typed, JobType, Asked, Requests
<1>n. NoRequest.at = "idle"  BY DEF NoRequest
<1>k. Keeping(c) /\ Purpose(c)  BY DEF Needed
<1>g. ASSUME NEW place \in {"asking", "bad"}, Go(c, place), UNCHANGED <<holder, kept, job>>,
             \/ Is(c, "relations") /\ At(c, "miss") /\ request[c].reuse
             \/ Is(c, "asking")
      PROVE  Needed(c)'
  BY <1>g, Places2, PlacesFacts, Sends
<1>u. ASSUME request[c].at \in {"asking", "closing"}, request' = Unanswered(c),
             UNCHANGED <<holder, kept, job>>
      PROVE  Needed(c)'
  BY <1>u, UnansweredNeeded
<1>1. CASE Expire(c)
  <2>1. UNCHANGED <<kept, broker>> /\ request' = [request EXCEPT ![c].late = TRUE]
        /\ (GiveUp(c) \/ (UNCHANGED <<holder, job>>))
    BY <1>1 DEF Expire, store
  <2>2. SameErrand(c)  BY <2>1, <1>o, <1>t DEF SameErrand, RequestType
  <2>3. CASE GiveUp(c)  BY <2>2, <2>3, <1>o, <1>t, StoreNeeded
  <2>4. CASE UNCHANGED <<holder, job>>  BY <2>2, <2>4, <1>o, Apart
  <2>. QED  BY <2>1, <2>3, <2>4
<1>2. CASE Launch(c)
  <2>1. UNCHANGED <<holder, job, kept, request>>  BY <1>2 DEF Launch, store
  <2>. QED  BY <2>1, <1>o, Apart DEF SameErrand
<1>3. CASE Unavailable(c)
  BY <1>3, <1>g DEF Unavailable, Wants, store
<1>4. CASE Ask(c)
  BY <1>4, <1>g DEF Ask, Wants, store
<1>5. CASE Withdraw(c) \/ Disconnected(c)
  BY <1>5, <1>u DEF Withdraw, Disconnected, store
<1>6. CASE ProgramDies(c)
  <2>1. /\ holder' = Released(c, Items) /\ job'[c] = Rest("done")
        /\ kept'[c] = None /\ request'[c] = NoRequest
    BY <1>6, <1>o, <1>t DEF ProgramDies, Die
  <2>2. \A x \in Items : holder'[x] # c  BY <2>1, <1>o, <1>t, Given
  <2>3. Plain(job'[c])  BY <2>1, RestFacts DEF Plain
  <2>. QED  BY <2>1, <2>2, <2>3, <1>o, <1>n, EmptyHanded
<1>. QED  BY <1>1, <1>2, <1>3, <1>4, <1>5, <1>6

LEMMA ClosingNeeded ==
    ASSUME IInv, NEW c \in Programs, Needed(c),
           \/ \E prune \in BOOLEAN : BeginClose(c, prune)
           \/ NoBroker(c) \/ AskRetirement(c) \/ Exited(c) \/ CloseFails(c) \/ PruneEnds(c)
    PROVE  Needed(c)'
<1>o. c \in Owners /\ c # Broker  BY OwnersAssumption DEF Owners
<1>t. /\ StoreInv /\ Typed /\ Asking(c) /\ request \in [Programs -> RequestType]
      /\ job \in [Owners -> JobType] /\ kept \in [Owners -> Pins \union {None}]
  BY DEF IInv, StoreInv, Typed, JobType, Asked, Requests
<1>n. NoRequest.at = "idle"  BY DEF NoRequest
<1>q. /\ request[c].at \in {"idle", "retire", "closing", "exit"} => Quiet(c)
      /\ Over(c) => Quiet(c)
  BY <1>t DEF Asking, Quiet, Over
<1>h. UNCHANGED <<holder, kept>>
  BY DEF BeginClose, NoBroker, AskRetirement, Exited, CloseFails, PruneEnds, store
<1>s. Quiet(c) /\ request[c].at \in Elsewhere
  BY <1>q DEF BeginClose, NoBroker, AskRetirement, Exited, CloseFails, PruneEnds, Is, Elsewhere
<1>m. job'[c] = job[c] => Plain(job'[c])
  <2>1. request[c].at \notin {"relations", "analyse", "asking", "good", "bad"}
    BY <1>s DEF Elsewhere
  <2>. QED  BY <1>s, <2>1, NoMiss DEF Plain, Over
<1>e. ASSUME request'[c].at # "tree", Plain(job'[c]) PROVE Needed(c)'
  BY <1>e, <1>h, <1>s, Onwards
<1>p. ASSUME Proceed(c) PROVE Needed(c)'
  <2>1. CASE request[c].prune
    <3>1. /\ request'[c] = [request[c] EXCEPT !.at = "pruning", !.late = FALSE]
          /\ job'[c] = Job("room", Capacity)
      BY <1>p, <2>1, <1>o, <1>t DEF Proceed
    <3>2. request'[c].at = "pruning"  BY <3>1, <1>t DEF RequestType
    <3>3. Plain(job'[c])  BY <3>1, JobFields DEF Plain
    <3>. QED  BY <3>2, <3>3, <1>e
  <2>2. CASE ~request[c].prune
    <3>1. request'[c] = NoRequest /\ job' = job
      BY <1>p, <2>2, <1>t DEF Proceed
    <3>. QED  BY <3>1, <1>m, <1>n, <1>e
  <2>. QED  BY <2>1, <2>2
<1>1. ASSUME NEW prune \in BOOLEAN, BeginClose(c, prune) PROVE Needed(c)'
  <2>1. request'[c] = [NoRequest EXCEPT !.at = "retire", !.prune = prune] /\ job' = job
    BY <1>1, <1>t DEF BeginClose, store
  <2>2. request'[c].at = "retire"  BY <2>1 DEF NoRequest
  <2>. QED  BY <2>1, <2>2, <1>m, <1>e
<1>2. CASE NoBroker(c) \/ Exited(c)
  BY <1>2, <1>p DEF NoBroker, Exited
<1>3. CASE AskRetirement(c)
  <2>1. Go(c, "closing") /\ job' = job  BY <1>3 DEF AskRetirement, store
  <2>2. request'[c].at = "closing"  BY <2>1, Places2, PlacesFacts
  <2>. QED  BY <2>1, <2>2, <1>m, <1>e
<1>4. CASE CloseFails(c)
  <2>1. request'[c] = NoRequest /\ job' = job  BY <1>4, <1>t DEF CloseFails, store
  <2>. QED  BY <2>1, <1>m, <1>n, <1>e
<1>5. CASE PruneEnds(c)
  <2>1. request'[c] = NoRequest /\ job'[c] = Rest("done")
    BY <1>5, <1>o, <1>t DEF PruneEnds
  <2>2. Plain(job'[c])  BY <2>1, RestFacts DEF Plain
  <2>. QED  BY <2>1, <2>2, <1>n, <1>e
<1>. QED  BY <1>1, <1>2, <1>3, <1>4, <1>5

\* A program's step is nobody else's.
LEMMA OthersApart ==
    ASSUME IInv, NEW c \in Programs, ProgramStep(c), NEW d \in Owners, d # c, Needed(d)
    PROVE  Needed(d)'
<1>o. c \in Owners /\ c # Broker  BY OwnersAssumption DEF Owners
<1>t. /\ StoreInv /\ Typed /\ request \in [Programs -> RequestType]
      /\ job \in [Owners -> JobType] /\ kept \in [Owners -> Pins \union {None}]
      /\ broker \in BrokerType
  BY DEF IInv, StoreInv, Typed, JobType, Asked
<1>g. \A xs : \A x \in Items : Released(c, xs)[x] = d => holder[x] = d
  BY <1>o, <1>t, Given
<1>1. \A x \in Items : holder'[x] = d => holder[x] = d
  <2>1. UNCHANGED holder \/ \E xs : holder' = Released(c, xs)
    BY DEF ProgramStep, BeginResearch, MapReady, EnvironmentReady, ResearchFails, NextSymbol,
           SymbolDone, Compute, OpenWorker, NoWorker, StoreRelations, Discard, FinishResearch,
           Expire, GiveUp, End, Launch, Unavailable, Ask, Withdraw, Disconnected, BeginClose,
           NoBroker, AskRetirement, Exited, CloseFails, PruneEnds, ProgramDies, Die, store
  <2>. QED  BY <2>1, <1>g
<1>2. job'[d] = job[d]
  <2>1. UNCHANGED job \/ \E j : job' = [job EXCEPT ![c] = j]
    BY DEF ProgramStep, BeginResearch, MapReady, EnvironmentReady, ResearchFails, NextSymbol,
           SymbolDone, Compute, OpenWorker, NoWorker, StoreRelations, Discard, FinishResearch,
           Expire, GiveUp, End, Launch, Unavailable, Ask, Withdraw, Disconnected, BeginClose,
           NoBroker, Proceed, AskRetirement, Exited, CloseFails, PruneEnds, ProgramDies, Die,
           Start, store
  <2>. QED  BY <2>1, <1>t
<1>3. kept'[d] = kept[d]
  <2>1. UNCHANGED kept \/ \E k : kept' = [kept EXCEPT ![c] = k]
    BY DEF ProgramStep, BeginResearch, MapReady, EnvironmentReady, ResearchFails, NextSymbol,
           SymbolDone, Compute, OpenWorker, NoWorker, StoreRelations, Discard, FinishResearch,
           Expire, Launch, Unavailable, Ask, Withdraw, Disconnected, BeginClose,
           NoBroker, AskRetirement, Exited, CloseFails, PruneEnds, ProgramDies
  <2>. QED  BY <2>1, <1>t
<1>4. d \in Programs => request'[d] = request[d]
  <2>1. UNCHANGED request \/ \E r : request' = [request EXCEPT ![c] = r]
    BY DEF ProgramStep, BeginResearch, MapReady, EnvironmentReady, ResearchFails, NextSymbol,
           SymbolDone, Compute, OpenWorker, NoWorker, StoreRelations, Discard, FinishResearch,
           Expire, Launch, Unavailable, Ask, Withdraw, Disconnected, Unanswered, BeginClose,
           NoBroker, Proceed, AskRetirement, Exited, CloseFails, PruneEnds, ProgramDies, Go
  <2>. QED  BY <2>1, <1>t
<1>5. d = Broker => /\ broker'.at = "tree" <=> broker.at = "tree"
                    /\ broker.at = "tree" => broker'.task = broker.task
  <2>1. CASE Launch(c)
    <3>1. broker.at = "select"  BY <2>1 DEF Launch, IInv, Answering
    <3>. QED  BY <2>1, <3>1 DEF Launch, Off
  <2>2. CASE ~Launch(c)
    <3>1. UNCHANGED broker \/ Submit(c) \/ broker' = Leave(c)
      BY <2>2 DEF ProgramStep, BeginResearch, MapReady, EnvironmentReady, ResearchFails, NextSymbol,
           SymbolDone, Compute, OpenWorker, NoWorker, StoreRelations, Discard, FinishResearch,
           Expire, Unavailable, Ask, Withdraw, Disconnected, BeginClose,
           NoBroker, AskRetirement, Exited, CloseFails, PruneEnds, ProgramDies
    <3>. QED  BY <3>1, <1>t DEF Submit, Leave, BrokerType
  <2>. QED  BY <2>1, <2>2
<1>6. SameErrand(d)  BY <1>3, <1>4, <1>5 DEF SameErrand
<1>. QED  BY <1>1, <1>2, <1>6, Apart

-----------------------------------------------------------------------------
(* What the broker does to leases.                                            *)

BrokerCarries ==
    \A p \in Pins :
        (kept[Broker] = p \/ (broker.at = "tree" /\ broker.task = p)) /\ holder'[Tree(p)] = Broker
            => kept'[Broker] = p

\* Between its jobs the broker has only the checkout it keeps.
LEMMA BrokerTurn ==
    ASSUME Needed(Broker), Over(Broker),
           \A x \in Items : holder'[x] = Broker => holder[x] = Broker,
           \/ Plain(job'[Broker])
           \/ /\ job'[Broker].step = "wait" /\ broker'.at = "tree"
              /\ broker'.task \in Pins /\ job'[Broker].item = Tree(broker'.task),
           BrokerCarries
    PROVE  Needed(Broker)'
<1>o. Broker \in Owners /\ Broker \notin Programs  BY OwnersAssumption DEF Owners
<1>q. Quiet(Broker)  BY DEF Quiet, Over
<1>1. Held(Broker)'
  <2>. SUFFICES ASSUME NEW x \in Items, holder'[x] = Broker PROVE Uses(Broker, x)'
    BY DEF Held
  <2>1. PICK p \in Pins : /\ x = Tree(p)
                          /\ kept[Broker] = p \/ (At(Broker, "done") /\ Fetches(Broker, p))
    BY <1>o, <1>q, BetweenJobs DEF Computing
  <2>2. kept'[Broker] = p  BY <2>1 DEF BrokerCarries, Fetches
  <2>. QED  BY <2>1, <2>2 DEF Uses, KeepsTree
<1>2. Purpose(Broker)'
  <2>1. CASE Plain(job'[Broker])  BY <2>1, PlainPurpose
  <2>2. CASE /\ job'[Broker].step = "wait" /\ broker'.at = "tree"
             /\ broker'.task \in Pins /\ job'[Broker].item = Tree(broker'.task)
    <3>1. \A p : Tree(broker'.task) = Tree(p) => Fetches(Broker, p)'
      BY <2>2, Names DEF Fetches
    <3>. QED  BY <2>2, <3>1, ItemNames DEF Purpose, At
  <2>. QED  BY <2>1, <2>2
<1>3. Keeping(Broker)'  BY <1>o DEF Keeping
<1>. QED  BY <1>1, <1>2, <1>3 DEF Needed

LEMMA RetiredFacts ==
    ASSUME StoreInv, NEW drop \in BOOLEAN, Retired(drop)
    PROVE  /\ \A x \in Items, d \in Owners : holder'[x] = d => holder[x] = d
           /\ \A d \in Programs : kept'[d] = kept[d]
           /\ drop => \A p \in Pins : holder'[Tree(p)] # Broker
           /\ ~drop => kept' = kept
<1>o. Broker \in Owners /\ Broker \notin Programs /\ Programs \subseteq Owners
  BY OwnersAssumption DEF Owners
<1>1. CASE drop
  <2>1. holder' = Released(Broker, Trees) /\ kept' = [kept EXCEPT ![Broker] = None]
    BY <1>1 DEF Retired
  <2>2. /\ \A x \in Items, d \in Owners : holder'[x] = d => holder[x] = d
        /\ \A x \in Items : holder'[x] = Broker => x \notin Trees
    BY <2>1, <1>o, Given DEF StoreInv
  <2>3. \A d \in Programs : kept'[d] = kept[d]  BY <2>1, <1>o DEF StoreInv
  <2>. QED  BY <1>1, <2>2, <2>3, Names
<1>2. CASE ~drop
  BY <1>2 DEF Retired
<1>. QED  BY <1>1, <1>2

LEMMA BrokerNeeded ==
    ASSUME IInv, Needed(Broker), BrokerStep
    PROVE  Needed(Broker)'
<1>o. Broker \in Owners /\ Broker \notin Programs /\ Programs \subseteq Owners
  BY OwnersAssumption DEF Owners
<1>t. /\ StoreInv /\ Typed /\ broker \in BrokerType
      /\ job \in [Owners -> JobType] /\ kept \in [Owners -> Pins \union {None}]
  BY DEF IInv, StoreInv, Typed, JobType, Asked
<1>a. /\ broker.at \in {"select", "analyse", "parting"} => Over(Broker)
      /\ broker.at \in {"map", "environment", "analyse"} => broker.task \in Pins
      /\ broker.at = "tree" => broker.task \in Pins
  BY DEF IInv, Answering, Fetching
<1>p. \A p \in Pins : \A j : j.step = "wait" /\ (j.item = Map(p) \/ j.item = Environment(p)) => Plain(j)
  BY ItemNames DEF Plain
<1>j. Over(Broker) => Plain(job[Broker])  BY DEF Over, Plain
\* Nothing but the broker's place changes, if that.
<1>s. ASSUME Over(Broker), broker.at # "tree", UNCHANGED <<holder, kept>>, job' = job
      PROVE  Needed(Broker)'
  <2>1. BrokerCarries  BY <1>s DEF BrokerCarries
  <2>. QED  BY <1>s, <2>1, <1>j, BrokerTurn
<1>r. ASSUME NEW drop \in BOOLEAN, Retired(drop), Over(Broker), Plain(job'[Broker]),
             drop \/ broker.at # "tree"
      PROVE  Needed(Broker)'
  <2>1. BrokerCarries  BY <1>r, <1>t, RetiredFacts DEF BrokerCarries
  <2>2. \A x \in Items : holder'[x] = Broker => holder[x] = Broker
    BY <1>r, <1>t, <1>o, RetiredFacts
  <2>. QED  BY <1>r, <2>1, <2>2, BrokerTurn
<1>1. CASE WakeInVain \/ Confirm
  <2>1. broker.at \in {"select", "parting"} /\ UNCHANGED <<holder, kept>> /\ job' = job
    BY <1>1 DEF WakeInVain, Confirm, store
  <2>. QED  BY <2>1, <1>a, <1>s
<1>2. CASE CloseListener
  <2>1. UNCHANGED <<holder, kept, job>> /\ broker'.at = broker.at /\ broker'.task = broker.task
    BY <1>2, <1>t DEF CloseListener, BrokerType, store
  <2>. QED  BY <2>1, <1>o, Apart DEF SameErrand
<1>3. ASSUME NEW c \in Programs, TakeRetirement(c) PROVE Needed(Broker)'
  <2>1. broker.at = "select" /\ Retired(TRUE) /\ job' = job
    BY <1>3 DEF TakeRetirement, Takes
  <2>. QED  BY <2>1, <1>a, <1>j, <1>r
<1>4. ASSUME NEW c \in Programs, NEW worn \in BOOLEAN, TakeLate(c, worn) PROVE Needed(Broker)'
  <2>1. broker.at = "select" /\ Retired(worn) /\ job' = job
    BY <1>4 DEF TakeLate, Takes
  <2>. QED  BY <2>1, <1>a, <1>j, <1>r
<1>5. ASSUME NEW c \in Programs, NEW worn \in BOOLEAN, TakeAnalysis(c, worn)
      PROVE  Needed(Broker)'
  <2>1. broker.at = "select" /\ Retired(worn \/ kept[Broker] # request[c].pin)
        /\ Start(Broker, Map(request[c].pin)) /\ Is(c, "asking")
    BY <1>5 DEF TakeAnalysis, Takes
  <2>2. request[c].pin \in Pins  BY <2>1 DEF IInv, Requests, Asking, Is
  <2>3. Plain(job'[Broker])  BY <2>1, <2>2, <1>o, <1>t, <1>p, StartJob
  <2>4. (worn \/ kept[Broker] # request[c].pin) \in BOOLEAN  OBVIOUS
  <2>. QED  BY <2>1, <2>3, <2>4, <1>a, <1>r
<1>6. CASE BrokerMap
  <2>1. broker.at = "map" /\ Over(Broker) /\ Start(Broker, Environment(broker.task))
        /\ UNCHANGED <<holder, kept>>
    BY <1>6 DEF BrokerMap, At, Over
  <2>2. Plain(job'[Broker])  BY <2>1, <1>o, <1>t, <1>p, <1>a, StartJob
  <2>3. BrokerCarries  BY <2>1 DEF BrokerCarries
  <2>. QED  BY <2>1, <2>2, <2>3, BrokerTurn
<1>7. CASE BrokerEnvironment /\ kept[Broker] = None
  <2>1. /\ broker.at = "environment" /\ Over(Broker) /\ Start(Broker, Tree(broker.task))
        /\ UNCHANGED <<holder, kept>> /\ broker' = [broker EXCEPT !.at = "tree"]
    BY <1>7 DEF BrokerEnvironment, At, Over
  <2>2. broker'.at = "tree" /\ broker'.task = broker.task  BY <2>1, <1>t DEF BrokerType
  <2>3. job'[Broker].step = "wait" /\ job'[Broker].item = Tree(broker.task)
    BY <2>1, <1>o, <1>t, StartJob
  <2>4. BrokerCarries  BY <2>1 DEF BrokerCarries
  <2>5. broker'.task \in Pins  BY <2>1, <2>2, <1>a
  <2>. QED  BY <2>1, <2>2, <2>3, <2>4, <2>5, BrokerTurn
<1>8. CASE BrokerEnvironment /\ kept[Broker] # None
  <2>1. /\ broker.at = "environment" /\ Over(Broker) /\ job' = job
        /\ UNCHANGED <<holder, kept>>
    BY <1>8 DEF BrokerEnvironment, At, Over
  <2>. QED  BY <2>1, <1>s
<1>9. CASE BrokerTree
  <2>1. /\ broker.at = "tree" /\ Over(Broker) /\ job' = job /\ UNCHANGED holder
        /\ kept'[Broker] = broker.task
    BY <1>9, <1>o, <1>t DEF BrokerTree, At, Over, store
  <2>2. kept[Broker] = None
    BY <2>1 DEF IInv, Answering, Fetching
  <2>3. BrokerCarries  BY <2>1, <2>2, PinsAssumption DEF BrokerCarries
  <2>. QED  BY <2>1, <2>3, <1>j, BrokerTurn
<1>10. ASSUME NEW worn \in BOOLEAN, Answer(worn) PROVE Needed(Broker)'
  <2>1. broker.at = "analyse" /\ Retired(worn) /\ job' = job  BY <1>10 DEF Answer
  <2>. QED  BY <2>1, <1>a, <1>j, <1>r
<1>11. CASE BrokerFails
  <2>1. Over(Broker) /\ Retired(TRUE) /\ job'[Broker] = Rest("done")
    BY <1>11, <1>a, <1>o, <1>t DEF BrokerFails, At, Over
  <2>2. Plain(job'[Broker])  BY <2>1, RestFacts DEF Plain
  <2>. QED  BY <2>1, <2>2, <1>r
<1>12. CASE ProcessExits
  <2>1. broker.at \in {"select", "parting"} /\ Retired(TRUE) /\ job' = job
    BY <1>12 DEF ProcessExits
  <2>. QED  BY <2>1, <1>a, <1>j, <1>r
<1>13. CASE BrokerDies
  <2>1. holder' = Released(Broker, Items) /\ job'[Broker] = Rest("done")
    BY <1>13, <1>o, <1>t DEF BrokerDies, Die
  <2>2. \A x \in Items : holder'[x] # Broker  BY <2>1, <1>o, <1>t, Given
  <2>3. Plain(job'[Broker])  BY <2>1, RestFacts DEF Plain
  <2>. QED  BY <2>1, <2>2, <2>3, <1>o, EmptyHanded
<1>14. BrokerEnvironment => kept[Broker] = None \/ kept[Broker] # None  OBVIOUS
<1>. QED
  BY <1>1, <1>2, <1>3, <1>4, <1>5, <1>6, <1>7, <1>8, <1>9, <1>10, <1>11, <1>12, <1>13, <1>14
     DEF BrokerStep

\* The broker's steps tell programs something, and touch nothing of theirs.
LEMMA ToldNeeded ==
    ASSUME IInv, BrokerStep, NEW d \in Programs, Needed(d)
    PROVE  Needed(d)'
<1>o. Broker \in Owners /\ Broker \notin Programs /\ Programs \subseteq Owners /\ d \in Owners
  BY OwnersAssumption DEF Owners
<1>t. /\ StoreInv /\ Typed /\ broker \in BrokerType /\ request \in [Programs -> RequestType]
      /\ job \in [Owners -> JobType] /\ kept \in [Owners -> Pins \union {None}]
  BY DEF IInv, StoreInv, Typed, JobType, Asked
<1>1. \A x \in Items : holder'[x] = d => holder[x] = d
  <2>1. UNCHANGED holder \/ (\E drop \in BOOLEAN : Retired(drop))
        \/ holder' = Released(Broker, Items)
    <3>1. ASSUME NEW c \in Programs, NEW worn \in BOOLEAN, TakeAnalysis(c, worn)
          PROVE  \E drop \in BOOLEAN : Retired(drop)
      BY <3>1 DEF TakeAnalysis
    <3>. QED  BY <3>1 DEF BrokerStep, WakeInVain, TakeRetirement, TakeLate, BrokerMap, BrokerEnvironment,
                    BrokerTree, Answer, BrokerFails, Confirm, CloseListener, ProcessExits,
                    BrokerDies, Die, store
  <2>. QED  BY <2>1, <1>o, <1>t, RetiredFacts, Given
<1>2. job'[d] = job[d]
  <2>1. UNCHANGED job \/ \E j : job' = [job EXCEPT ![Broker] = j]
    BY DEF BrokerStep, WakeInVain, TakeRetirement, TakeLate, TakeAnalysis, BrokerMap,
           BrokerEnvironment, BrokerTree, Answer, BrokerFails, Confirm, CloseListener,
           ProcessExits, BrokerDies, Die, Start, store
  <2>. QED  BY <2>1, <1>o, <1>t
<1>3. kept'[d] = kept[d]
  <2>1. UNCHANGED kept \/ \E k : kept' = [kept EXCEPT ![Broker] = k]
    BY DEF BrokerStep, WakeInVain, TakeRetirement, TakeLate, TakeAnalysis, BrokerMap,
           BrokerEnvironment, BrokerTree, Answer, BrokerFails, Confirm, CloseListener,
           ProcessExits, BrokerDies, Retired
  <2>. QED  BY <2>1, <1>o, <1>t
<1>s. ASSUME request'[d] = request[d] PROVE Needed(d)'
  <2>1. SameErrand(d)  BY <1>s, <1>o, <1>3 DEF SameErrand
  <2>. QED  BY <2>1, <1>o, <1>1, <1>2, Apart
<1>l. ASSUME NEW place \in {"good", "bad"}, request' = Told(place), broker.at # "parting"
      PROVE  Needed(d)'
  <2>1. CASE broker.asker = d
    <3>1. /\ request'[d] = [request[d] EXCEPT !.at = place] /\ Is(d, "asking")
      BY <1>l, <2>1, <1>o, <1>t, OwnersAssumption DEF Told, IInv, Answering, Is
    <3>2. /\ request'[d].at = place /\ request'[d].symbol = request[d].symbol
          /\ request'[d].reuse = request[d].reuse
      BY <3>1, <1>t DEF RequestType
    <3>. QED  BY <3>1, <3>2, <1>1, <1>2, <1>3, Sends
  <2>2. CASE broker.asker # d
    <3>1. request'[d] = request[d]  BY <1>l, <2>2, <1>t DEF Told
    <3>. QED  BY <3>1, <1>s
  <2>. QED  BY <2>1, <2>2
<1>4. CASE BrokerFails \/ \E worn \in BOOLEAN : Answer(worn)
  BY <1>4, <1>l DEF BrokerFails, Answer
<1>5. CASE Confirm
  <2>1. CASE broker.asker = d
    <3>1. /\ request'[d] = [request[d] EXCEPT !.at = "exit", !.peer = broker.gen]
          /\ Is(d, "closing")
      BY <1>5, <2>1, <1>o, <1>t, OwnersAssumption DEF Confirm, IInv, Answering, Is
    <3>2. request'[d].at = "exit"  BY <3>1, <1>t DEF RequestType
    <3>. QED  BY <3>1, <3>2, <1>1, <1>2, <1>3, Dismisses
  <2>2. CASE broker.asker # d
    <3>1. request'[d] = request[d]  BY <1>5, <2>2, <1>t DEF Confirm
    <3>. QED  BY <3>1, <1>s
  <2>. QED  BY <2>1, <2>2
<1>6. ASSUME NEW c \in Programs, NEW worn \in BOOLEAN, TakeLate(c, worn) PROVE Needed(d)'
  <2>1. request' = Unanswered(c) /\ request[c].at \in {"asking", "closing"}
    BY <1>6 DEF TakeLate
  <2>2. CASE c = d
    BY <2>1, <2>2, <1>1, <1>2, <1>3, UnansweredNeeded
  <2>3. CASE c # d
    <3>1. request'[d] = request[d]  BY <2>1, <2>3, <1>t DEF Unanswered
    <3>. QED  BY <3>1, <1>s
  <2>. QED  BY <2>2, <2>3
<1>7. CASE UNCHANGED request
  BY <1>7, <1>s
<1>. QED
  BY <1>4, <1>5, <1>6, <1>7
     DEF BrokerStep, WakeInVain, TakeRetirement, TakeAnalysis, BrokerMap, BrokerEnvironment,
         BrokerTree, CloseListener, ProcessExits, BrokerDies

\* A lease that another owner's step leaves to d was d's before.
LEMMA OthersGain ==
    ASSUME StoreInv, NEW o \in Owners, StoreStep(o) \/ GiveUp(o), NEW d \in Owners, d # o
    PROVE  \A x \in Items : holder'[x] = d => holder[x] = d
<1>t. Typed /\ job[o].item \in Items  BY DEF StoreInv, Typed
<1>c. Capacity \in Items /\ \A p \in Pins : Tree(p) \in Items  BY Names
<1>g. \A xs : \A x \in Items : Released(o, xs)[x] = d => holder[x] = d
  BY <1>t, Given
<1>k. \A y \in Items : \A x \in Items : Taken(o, y)[x] = d => holder[x] = d
  BY <1>t, TakenFacts
<1>1. ASSUME NEW p \in Pins, Evict(o, p) PROVE \E y \in Items : holder' = Taken(o, y)
  BY <1>1, <1>c DEF Evict
<1>2. UNCHANGED holder \/ (\E xs : holder' = Released(o, xs))
      \/ \E y \in Items : holder' = Taken(o, y)
  BY <1>t, <1>c, <1>1
     DEF StoreStep, OpenMap, OpenCache, CloseCache, Lock, ReserveFile, ReserveTree, BeginPrune,
         PassOver, ForgetStale, Removed, Forget, Evicted, Reclaim, Refuse, GrantTree,
         GrantFile, Publish, CheckedOut, Verify, Mismatch, GiveUp, End
<1>. QED  BY <1>2, <1>g, <1>k

LEMMA NeededStart == RInit => NeededOnly
<1>. SUFFICES ASSUME RInit, NEW o \in Owners PROVE Needed(o)
  BY DEF NeededOnly
<1>1. /\ job[o] = Rest("done") /\ kept[o] = None /\ \A x \in Items : holder[x] = None
      /\ o \in Programs => request[o].at = "idle"
  BY DEF RInit, Init, NoRequest
<1>2. Over(o)  BY <1>1, RestFacts DEF Over
<1>. QED  BY <1>1, <1>2, OwnersFacts DEF Needed, Held, Purpose, Keeping, Over, At, Is

LEMMA NeededKeeps == ASSUME IInv, NeededOnly, [RNext]_vars PROVE NeededOnly'
<1>. SUFFICES ASSUME NEW o \in Owners PROVE Needed(o)'
  BY DEF NeededOnly
<1>n. \A d \in Owners : Needed(d)  BY DEF NeededOnly
<1>o. Broker \in Owners /\ Programs \subseteq Owners /\ (o # Broker => o \in Programs)
  BY DEF Owners
<1>t. StoreInv /\ Typed  BY DEF IInv, StoreInv
<1>1. ASSUME NEW c \in Programs, ProgramStep(c) PROVE Needed(o)'
  <2>1. CASE o = c
    BY <1>1, <2>1, <1>n, ResearchNeeded, BrokingNeeded, ClosingNeeded DEF ProgramStep
  <2>2. CASE o # c
    BY <1>1, <2>2, <1>n, OthersApart
  <2>. QED  BY <2>1, <2>2
<1>2. CASE BrokerStep
  BY <1>2, <1>n, <1>o, BrokerNeeded, ToldNeeded
<1>w. ASSUME NEW d \in Owners, StoreStep(d) \/ GiveUp(d), UNCHANGED <<request, kept, broker>>
      PROVE  Needed(o)'
  <2>1. SameErrand(o)  BY <1>w DEF SameErrand
  <2>2. CASE o = d
    BY <1>w, <2>1, <2>2, <1>n, <1>t, StoreNeeded
  <2>3. CASE o # d
    <3>1. StoreInv' /\ job'[o] = job[o]  BY <1>w, <2>3, <1>t, StoreWork DEF Framed
    <3>2. \A x \in Items : holder'[x] = o => holder[x] = o
      BY <1>w, <2>3, <1>t, OthersGain
    <3>. QED  BY <2>1, <3>1, <3>2, <1>n, Apart
  <2>. QED  BY <2>2, <2>3
<1>3. CASE CancelTask
  BY <1>3, <1>o, <1>w DEF CancelTask
<1>4. ASSUME NEW d \in Owners, Work(d) PROVE Needed(o)'
  BY <1>4, <1>w DEF Work
<1>5. CASE UNCHANGED vars
  <2>1. UNCHANGED <<holder, job, kept, request, broker>>  BY <1>5 DEF vars
  <2>. QED  BY <2>1, <1>n, Apart DEF SameErrand
<1>. QED  BY <1>1, <1>2, <1>3, <1>4, <1>5 DEF RNext

-----------------------------------------------------------------------------
(* Who waits for whom.                                                        *)
Waits(o) ==
    \/ At(o, "wait") \/ At(o, "room")
    \/ o \in Programs /\ request[o].at \in {"asking", "closing", "exit"}

LEMMA WaitersWait ==
    ASSUME NEW o, NEW d, WaitsFor(o, d)
    PROVE  /\ Waits(o)
           /\ d = Broker \/ At(o, "wait") \/ At(o, "room")
           /\ \/ At(o, "wait") /\ holder[job[o].item] = d
              \/ At(o, "room") /\ holder[Capacity] = d
              \/ d = Broker /\ o \in Programs /\ request[o].at \in {"asking", "closing", "exit"}
BY DEF WaitsFor, Waits, Is

LEMMA NoCircle == IInv /\ NeededOnly => OrderedWaits
<1>. SUFFICES ASSUME IInv, NeededOnly, NEW S \in (SUBSET Owners) \ {{}},
                     \A o \in S : \E d \in S : WaitsFor(o, d),
                     ~\E c \in S : /\ At(c, "wait") /\ job[c].item \in SymbolFiles
                                   /\ kept[c] # None
              PROVE  FALSE
  BY Zenon DEF OrderedWaits
<1>o. Broker \in Owners /\ Broker \notin Programs /\ None \notin Owners
  BY OwnersAssumption, OwnersFacts DEF Owners
<1>n. \A o \in S : Held(o) /\ Purpose(o) /\ Keeping(o) /\ Waits(o)
  BY WaitersWait DEF NeededOnly, Needed
<1>j. \A o \in S : job[o].item \in Items /\ Leased(o)  BY DEF IInv, StoreInv, Typed, Jobs
<1>q. \A o \in S : o \in Programs /\ request[o].at \in {"asking", "closing", "exit"} => Quiet(o)
  BY DEF IInv, Requests, Asking
\* Who has the capacity does not wait.
<1>1. \A d \in S : holder[Capacity] # d
  <2>. SUFFICES ASSUME NEW d \in S, holder[Capacity] = d PROVE FALSE
    OBVIOUS
  <2>1. Reserving(d)
    BY <1>n, ItemNames, Names DEF Held, Uses
  <2>. QED  BY <2>1, <1>n, <1>q DEF Waits, Reserving, Quiet, At
\* So nobody waits for it, and nobody is busy with anything.
<1>2. \A o \in S : ~At(o, "room")
  <2>. SUFFICES ASSUME NEW o \in S, At(o, "room") PROVE FALSE
    OBVIOUS
  <2>1. PICK d \in S : WaitsFor(o, d)  OBVIOUS
  <2>2. ~(o \in Programs /\ request[o].at \in {"asking", "closing", "exit"})
    BY <1>q DEF Quiet, At
  <2>3. holder[Capacity] = d  BY <2>1, <2>2, WaitersWait DEF At
  <2>. QED  BY <2>3, <1>1
<1>3. \A d \in S : \A x \in Items : holder[x] = d =>
          \/ \E p \in Pins : x = Tree(p) /\ kept[d] = p
          \/ \E s \in Symbols : x = Relations(s) /\ Computing(d, s)
  <2>. SUFFICES ASSUME NEW d \in S, NEW x \in Items, holder[x] = d
                PROVE  \/ \E p \in Pins : x = Tree(p) /\ kept[d] = p
                       \/ \E s \in Symbols : x = Relations(s) /\ Computing(d, s)
    OBVIOUS
  <2>1. Uses(d, x)  BY <1>n DEF Held
  <2>2. ~Reserving(d) /\ ~Busy(d, x) /\ ~Removing(d)
    BY <1>n, <1>2, <1>q DEF Waits, Reserving, Removing, Busy, Quiet, At
  <2>3. \A p : ~(At(d, "done") /\ Fetches(d, p))
    BY <1>n, <1>2, <1>o DEF Waits, At, Fetches, Is
  <2>. QED  BY <2>1, <2>2, <2>3 DEF Uses, KeepsTree
\* Whoever waits for a lease waits for a symbol's relations or a checkout ...
<1>4. ASSUME NEW o \in S, At(o, "wait")
      PROVE  \E d \in S : /\ holder[job[o].item] = d
                          /\ \/ \E p \in Pins : job[o].item = Tree(p) /\ kept[d] = p
                             \/ \E s \in Symbols : /\ job[o].item = Relations(s)
                                                   /\ Computing(d, s)
  <2>1. PICK d \in S : WaitsFor(o, d)  OBVIOUS
  <2>2. ~(o \in Programs /\ request[o].at \in {"asking", "closing", "exit"})
    BY <1>4, <1>q DEF Quiet, At
  <2>3. holder[job[o].item] = d  BY <1>4, <2>1, <2>2, WaitersWait DEF At
  <2>. QED  BY <2>3, <1>3, <1>j
\* ... but not for a checkout: who keeps one never waits.
<1>5. ASSUME NEW d \in S, kept[d] # None PROVE FALSE
  <2>1. At(d, "wait")
    BY <1>5, <1>n, <1>2, <1>o DEF Waits, Keeping
  <2>2. CASE \E p \in Pins : job[d].item = Tree(p)
    <3>1. job[d].item \in Trees /\ ~Quiet(d)
      BY <2>1, <2>2, Names DEF Quiet, At
    <3>. QED  BY <3>1, <1>5, <1>j DEF Leased
  <2>3. CASE \E s \in Symbols : job[d].item = Relations(s)
    <3>1. job[d].item \in SymbolFiles  BY <2>3, Names
    <3>. QED  BY <2>1, <3>1, <1>5
  <2>. QED  BY <2>1, <2>2, <2>3, <1>4
<1>6. ASSUME NEW o \in S, At(o, "wait")
      PROVE  \E s \in Symbols, d \in S : job[o].item = Relations(s) /\ Computing(d, s)
  <2>1. PICK d \in S :
            \/ \E p \in Pins : job[o].item = Tree(p) /\ kept[d] = p
            \/ \E s \in Symbols : job[o].item = Relations(s) /\ Computing(d, s)
    BY <1>6, <1>4
  <2>2. \A p \in Pins : kept[d] # p  BY <1>5, PinsAssumption
  <2>. QED  BY <2>1, <2>2
\* The broker looks for no relations: it is not among them.
<1>7. Broker \notin S
  <2>. SUFFICES ASSUME Broker \in S PROVE FALSE
    OBVIOUS
  <2>1. At(Broker, "wait")  BY <1>n, <1>2, <1>o DEF Waits
  <2>2. PICK s \in Symbols : job[Broker].item = Relations(s)  BY <2>1, <1>6
  <2>3. Looking(Broker, s)  BY <2>1, <2>2, <1>n DEF Purpose, Over, At
  <2>. QED  BY <2>3, <1>o DEF Looking
<1>8. \A o \in S : At(o, "wait")
  BY <1>2, <1>7, WaitersWait
\* And who computes a symbol's relations does not look for others.
<1>e. S # {}  OBVIOUS
<1>9. PICK o \in S : TRUE  BY <1>e
<1>10. PICK s \in Symbols, d \in S : job[o].item = Relations(s) /\ Computing(d, s)
  BY <1>8, <1>6
<1>11. At(d, "wait")  BY <1>8
<1>12. PICK t \in Symbols : job[d].item = Relations(t)  BY <1>11, <1>6
<1>13. Looking(d, t)  BY <1>11, <1>12, <1>n DEF Purpose, Over, At
<1>14. Is(d, "relations")  BY <1>11, <1>13 DEF Looking, At
<1>. QED  BY <1>10, <1>11, <1>14 DEF Computing, Is, At

\* Programs and the broker never wait for one another in a circle of leases,
\* the capacity and the broker's answers, unless one of them waits for a
\* symbol's relations with a checkout in hand, as requests for several symbols
\* do (query_semantic.go:12-13).
THEOREM WaitsInOrder == RSpec => []OrderedWaits
<1>. DEFINE Inv == IInv /\ NeededOnly
<1>1. RInit => Inv  BY Beginning, NeededStart
<1>2. Inv /\ [RNext]_vars => Inv'
  <2>. SUFFICES ASSUME IInv, NeededOnly, [RNext]_vars PROVE NeededOnly'
    BY Stepping
  <2>. QED  BY NeededKeeps
<1>3. Inv => OrderedWaits  BY NoCircle
<1>. QED  BY <1>1, <1>2, <1>3, PTL DEF RSpec
=============================================================================
