------------------------------ MODULE SourceStore ------------------------------
(***************************************************************************)
(* The source store of a workspace, <home>/source/v1: maps of facts, the   *)
(* caches derived from them, and detached Git checkouts with manifests,    *)
(* all within one budget of bytes.  Its owners are programs and the one    *)
(* source broker; they share nothing but files and operating-system        *)
(* leases.  An owner works on one item at a time (job), and every file has *)
(* a lease of its own name.  The capacity lease serialises whoever adds    *)
(* bytes; its holder only tries the leases of other items.                 *)
(*                                                                         *)
(* Code: src/internal/codebase (worktree.go, worktree_prune.go,            *)
(* cache_budget.go, environment.go, semantic_cache.go, index.go).  Left    *)
(* out: the short repository lease around a Git command, the file facts    *)
(* and the offset file published with a map (counted in MapBytes), and     *)
(* the order in which candidates are tried (any).                          *)
(***************************************************************************)
EXTENDS Integers, FiniteSets

CONSTANTS
    Programs,       \* command-line programs
    Broker,         \* the broker's process
    None,
    Pins,           \* exact source commits
    Symbols,        \* symbols whose semantic relations are cached
    TreeBytes,      \* size of a checkout
    MapBytes,       \* size of a map, of which
    FirstGrant,     \* so much is reserved before it is built
    CacheBytes,     \* size of an environment or of a symbol's relations
    Room,           \* budget of the whole namespace and of all checkouts
    Stale,          \* pins that lost their checkout to a program which died
                    \* before it removed the manifest
    PruneTarget     \* what "source prune" is told to shrink checkouts to

VARIABLES
    checkout,       \* [Pins -> {"none", "partial", "whole"}]
    manifest,       \* pins whose checkout has a manifest
    stored,         \* published maps and caches
    litter,         \* bytes of staging that dead writers left
    holder,         \* who holds each lease
    job             \* what each owner is doing to which item

ASSUME OwnersAssumption == Broker \notin Programs /\ None \notin Programs \union {Broker}
ASSUME PinsAssumption == Stale \subseteq Pins /\ None \notin Pins
ASSUME SizesAssumption ==
    /\ TreeBytes \in Nat /\ MapBytes \in Nat /\ CacheBytes \in Nat
    /\ Room \in Nat /\ PruneTarget \in Nat
    /\ FirstGrant \in 1..MapBytes
\* What is there when the programs start fits.
ASSUME StartAssumption == IsFiniteSet(Pins) /\ MapBytes * Cardinality(Stale) <= Room

store == <<checkout, manifest, stored, litter, holder, job>>

Owners == Programs \union {Broker}

\* An item is also the name of its lease.
Map(p) == <<"map", p>>
Environment(p) == <<"environment", p>>
Relations(s) == <<"semantic", s>>
Tree(p) == <<"worktree", p>>
Capacity == <<"worktree-capacity", None>>

Maps == {Map(p) : p \in Pins}
SymbolFiles == {Relations(s) : s \in Symbols}
Caches == {Environment(p) : p \in Pins} \union SymbolFiles
Trees == {Tree(p) : p \in Pins}
Files == Maps \union Caches
Items == Files \union Trees \union {Capacity}

\* A job that "source prune" starts has the capacity itself for its item.
Steps == {"done", "failed", "wait", "read", "miss", "room", "evict", "remove",
          "forget", "reclaim", "write", "verify"}
Job(step, item) ==
    [step |-> step, item |-> item, left |-> {}, victim |-> None, granted |-> 0]
Rest(outcome) == Job(outcome, Capacity)
Over(o) == job[o].step \in {"done", "failed"}
At(o, s) == job[o].step = s

Free(x) == holder[x] = None
Taken(o, x) == [holder EXCEPT ![x] = o]
Released(o, xs) ==
    [x \in Items |-> IF x \in xs /\ holder[x] = o THEN None ELSE holder[x]]

(***************************************************************************)
(* Accounting.  A checkout counts in full as soon as it exists; a writer's *)
(* staging counts as much as it was granted.                               *)
(***************************************************************************)
TreeUse == TreeBytes * Cardinality({p \in Pins : checkout[p] # "none"})
Staged == IF Free(Capacity) THEN 0 ELSE job[holder[Capacity]].granted
Used == TreeUse + MapBytes * Cardinality(stored \intersect Maps)
        + CacheBytes * Cardinality(stored \intersect Caches) + litter + Staged

Size(x) == IF x \in Maps THEN MapBytes ELSE CacheBytes

\* The bytes asked for next: a checkout that does not exist yet, a cache, a
\* map's first grant or what it grows by.
Need(o) ==
    LET x == job[o].item
    IN  IF x \in Trees THEN IF checkout[x[2]] = "none" THEN TreeBytes ELSE 0
        ELSE IF x \in Maps
             THEN IF job[o].granted = 0 THEN FirstGrant ELSE MapBytes - FirstGrant
             ELSE CacheBytes
\* Mutation of Fits: only what is published or checked out is counted.
FitsPublished(o) == Used - Staged - litter + Need(o) <= Room
Fits(o) == Used + Need(o) <= Room

\* Caches that may have to give way to the item an owner makes room for.
Reclaimable(o) == (stored \intersect Caches) \ {job[o].item}

Init ==
    /\ checkout = [p \in Pins |-> "none"]
    /\ manifest = Stale
    /\ stored = {Map(p) : p \in Stale}
    /\ litter = 0
    /\ holder = [x \in Items |-> None]
    /\ job = [o \in Owners |-> Rest("done")]

(***************************************************************************)
(* Getting at an item.                                                     *)
(***************************************************************************)

\* A map that is there is opened without its lease, a cache read under it.
OpenMap(o) ==
    /\ At(o, "wait")
    /\ job[o].item \in stored \intersect Maps
    /\ job' = [job EXCEPT ![o] = Rest("done")]
    /\ UNCHANGED <<checkout, manifest, stored, litter, holder>>

OpenCache(o) ==
    /\ At(o, "wait")
    /\ job[o].item \in stored \intersect Caches
    /\ Free(job[o].item)
    /\ holder' = Taken(o, job[o].item)
    /\ job' = [job EXCEPT ![o].step = "read"]
    /\ UNCHANGED <<checkout, manifest, stored, litter>>

\* Mutation of CloseCache: the lease is kept until the request ends.
CloseCacheKeepingLease(o) ==
    /\ At(o, "read")
    /\ job' = [job EXCEPT ![o] = Rest("done")]
    /\ UNCHANGED <<checkout, manifest, stored, litter, holder>>

CloseCache(o) ==
    /\ At(o, "read")
    /\ holder' = Released(o, {job[o].item})
    /\ job' = [job EXCEPT ![o] = Rest("done")]
    /\ UNCHANGED <<checkout, manifest, stored, litter>>

\* The lease is taken and there is no file: a symbol's relations have to be
\* computed first, everything else goes on to ask for room.
Lock(o) ==
    /\ At(o, "wait")
    /\ job[o].item \notin stored
    /\ Free(job[o].item)
    /\ holder' = Taken(o, job[o].item)
    /\ job' = [job EXCEPT ![o].step =
                   IF job[o].item \in SymbolFiles THEN "miss" ELSE "room"]
    /\ UNCHANGED <<checkout, manifest, stored, litter>>

\* Checkouts without a manifest that nobody holds are verified under the
\* capacity lease; the whole ones get their manifest, the others are left.
Orphans(o) ==
    {p \in Pins : checkout[p] = "whole" /\ Free(Tree(p)) /\ job[o].item # Tree(p)}

ReserveFile(o) ==
    /\ At(o, "room")
    /\ job[o].item \in Files
    /\ Free(Capacity)
    /\ holder' = Taken(o, Capacity)
    /\ job' = [job EXCEPT ![o].step = "reclaim", ![o].left = Reclaimable(o)]
    /\ UNCHANGED <<checkout, manifest, stored, litter>>

\* Only a checkout without a manifest makes other checkouts give way.
ReserveTree(o) ==
    /\ At(o, "room")
    /\ job[o].item \in Trees
    /\ Free(Capacity)
    /\ holder' = Taken(o, Capacity)
    /\ manifest' = manifest \union Orphans(o)
    /\ job' = IF job[o].item[2] \in manifest
              THEN [job EXCEPT ![o].step = "reclaim", ![o].left = Reclaimable(o)]
              ELSE [job EXCEPT ![o].step = "evict", ![o].left = manifest']
    /\ UNCHANGED <<checkout, stored, litter>>

BeginPrune(o) ==
    /\ At(o, "room")
    /\ job[o].item = Capacity
    /\ Free(Capacity)
    /\ holder' = Taken(o, Capacity)
    /\ manifest' = manifest \union Orphans(o)
    /\ job' = [job EXCEPT ![o].step = "evict", ![o].left = manifest']
    /\ UNCHANGED <<checkout, stored, litter>>

(***************************************************************************)
(* Eviction of checkouts, one manifest after the other.                    *)
(***************************************************************************)
Target(o) == IF job[o].item = Capacity THEN PruneTarget ELSE Room - TreeBytes

\* A manifest whose checkout is gone is always cleared, a checkout only
\* while there are too many bytes.
Victims(o) ==
    {p \in job[o].left : checkout[p] = "none" \/ TreeUse > Target(o)}

\* Kept: somebody holds its lease (waited for at most 50 ms), or it does not
\* verify.
PassOver(o, p) ==
    /\ At(o, "evict")
    /\ p \in Victims(o)
    /\ ~Free(Tree(p)) \/ checkout[p] = "partial"
    /\ job' = [job EXCEPT ![o].left = @ \ {p}]
    /\ UNCHANGED <<checkout, manifest, stored, litter, holder>>

ForgetStale(o, p) ==
    /\ At(o, "evict")
    /\ p \in Victims(o)
    /\ Free(Tree(p))
    /\ checkout[p] = "none"
    /\ manifest' = manifest \ {p}
    /\ job' = [job EXCEPT ![o].left = @ \ {p}]
    /\ UNCHANGED <<checkout, stored, litter, holder>>

\* Mutation of Evict: the lease of the checkout is not taken.
EvictInUse(o, p) ==
    /\ At(o, "evict")
    /\ p \in Victims(o)
    /\ checkout[p] = "whole"
    /\ checkout' = [checkout EXCEPT ![p] = "partial"]
    /\ job' = [job EXCEPT ![o].step = "remove", ![o].victim = p, ![o].left = @ \ {p}]
    /\ UNCHANGED <<manifest, stored, litter, holder>>

\* git worktree remove, during which the checkout is neither whole nor gone.
Evict(o, p) ==
    /\ At(o, "evict")
    /\ p \in Victims(o)
    /\ Free(Tree(p))
    /\ checkout[p] = "whole"
    /\ holder' = Taken(o, Tree(p))
    /\ checkout' = [checkout EXCEPT ![p] = "partial"]
    /\ job' = [job EXCEPT ![o].step = "remove", ![o].victim = p, ![o].left = @ \ {p}]
    /\ UNCHANGED <<manifest, stored, litter>>

Removed(o) ==
    /\ At(o, "remove")
    /\ checkout' = [checkout EXCEPT ![job[o].victim] = "none"]
    /\ job' = [job EXCEPT ![o].step = "forget"]
    /\ UNCHANGED <<manifest, stored, litter, holder>>

Forget(o) ==
    /\ At(o, "forget")
    /\ manifest' = manifest \ {job[o].victim}
    /\ holder' = Released(o, {Tree(job[o].victim)})
    /\ job' = [job EXCEPT ![o].step = "evict", ![o].victim = None]
    /\ UNCHANGED <<checkout, stored, litter>>

\* The leases an operation holds: its item's, the capacity, its victim's.
Own(o) == {job[o].item, Capacity, Tree(job[o].victim)}
End(o, outcome) ==
    /\ holder' = Released(o, Own(o))
    /\ job' = [job EXCEPT ![o] = Rest(outcome)]

\* A prune ends here whatever it reached; a checkout that still does not fit
\* beside the others is refused.
Evicted(o) ==
    /\ At(o, "evict")
    /\ Victims(o) = {}
    /\ IF job[o].item = Capacity THEN End(o, "done")
       ELSE IF TreeUse > Target(o) THEN End(o, "failed")
       ELSE /\ job' = [job EXCEPT ![o].step = "reclaim", ![o].left = Reclaimable(o)]
            /\ UNCHANGED holder
    /\ UNCHANGED <<checkout, manifest, stored, litter>>

(***************************************************************************)
(* Making room among the caches, writing, publishing.                      *)
(***************************************************************************)
Reclaim(o, x) ==
    /\ At(o, "reclaim")
    /\ ~Fits(o)
    /\ x \in job[o].left
    /\ stored' = IF Free(x) THEN stored \ {x} ELSE stored
    /\ job' = [job EXCEPT ![o].left = @ \ {x}]
    /\ UNCHANGED <<checkout, manifest, litter, holder>>

Refuse(o) ==
    /\ At(o, "reclaim")
    /\ ~Fits(o)
    /\ job[o].left = {}
    /\ End(o, "failed")
    /\ UNCHANGED <<checkout, manifest, stored, litter>>

\* A checkout is begun, or the one that is there is looked at.
GrantTree(o) ==
    /\ At(o, "reclaim")
    /\ Fits(o)
    /\ job[o].item \in Trees
    /\ LET p == job[o].item[2]
       IN  IF checkout[p] = "none"
           THEN /\ checkout' = [checkout EXCEPT ![p] = "partial"]
                /\ job' = [job EXCEPT ![o].step = "write"]
           ELSE /\ job' = [job EXCEPT ![o].step = "verify"]
                /\ UNCHANGED checkout
    /\ UNCHANGED <<manifest, stored, litter, holder>>

\* A map grows while it is written: the next grant may again displace caches.
GrantFile(o) ==
    /\ At(o, "reclaim")
    /\ Fits(o)
    /\ job[o].item \in Files
    /\ LET granted == job[o].granted + Need(o)
       IN  job' = [job EXCEPT ![o].granted = granted,
                       ![o].step = IF granted < Size(job[o].item) THEN "reclaim" ELSE "write",
                       ![o].left = Reclaimable(o)]
    /\ UNCHANGED <<checkout, manifest, stored, litter, holder>>

Publish(o) ==
    /\ At(o, "write")
    /\ job[o].item \in Files
    /\ stored' = stored \union {job[o].item}
    /\ End(o, "done")
    /\ UNCHANGED <<checkout, manifest, litter>>

CheckedOut(o) ==
    /\ At(o, "write")
    /\ job[o].item \in Trees
    /\ checkout' = [checkout EXCEPT ![job[o].item[2]] = "whole"]
    /\ job' = [job EXCEPT ![o].step = "verify"]
    /\ UNCHANGED <<manifest, stored, litter, holder>>

\* A verified checkout gets its manifest, and its lease stays with the owner.
Verify(o) ==
    /\ At(o, "verify")
    /\ checkout[job[o].item[2]] = "whole"
    /\ manifest' = manifest \union {job[o].item[2]}
    /\ holder' = Released(o, {Capacity})
    /\ job' = [job EXCEPT ![o] = Rest("done")]
    /\ UNCHANGED <<checkout, stored, litter>>

Mismatch(o) ==
    /\ At(o, "verify")
    /\ checkout[job[o].item[2]] # "whole"
    /\ End(o, "failed")
    /\ UNCHANGED <<checkout, manifest, stored, litter>>

StoreStep(o) ==
    \/ OpenMap(o) \/ OpenCache(o) \/ CloseCache(o) \/ Lock(o) \/ ReserveFile(o) \/ ReserveTree(o) \/ BeginPrune(o)
    \/ \E p \in Pins : PassOver(o, p) \/ ForgetStale(o, p) \/ Evict(o, p)
    \/ Removed(o) \/ Forget(o) \/ Evicted(o)
    \/ \E x \in Caches : Reclaim(o, x)
    \/ Refuse(o) \/ GrantTree(o) \/ GrantFile(o)
    \/ Publish(o) \/ CheckedOut(o) \/ Verify(o) \/ Mismatch(o)

(***************************************************************************)
(* Ends that come from outside.                                            *)
(***************************************************************************)

\* The context is cancelled.  Staging is removed on the way out, a checkout
\* Git was working on stays as it is.
Stoppable(o) ==
    job[o].step \in {"wait", "read", "room", "evict", "remove", "reclaim", "write", "verify"}
GiveUp(o) ==
    /\ Stoppable(o)
    /\ End(o, "failed")
    /\ UNCHANGED <<checkout, manifest, stored, litter>>

\* The process dies: the system frees its leases, its staging stays for ever.
Die(o) ==
    /\ holder' = Released(o, Items)
    /\ litter' = litter + job[o].granted
    /\ job' = [job EXCEPT ![o] = Rest("done")]
    /\ UNCHANGED <<checkout, manifest, stored>>
=============================================================================
