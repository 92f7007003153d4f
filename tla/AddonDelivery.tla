----------------------------- MODULE AddonDelivery -----------------------------
(***************************************************************************)
(* The addon of one game installation and its pool of slots as files:      *)
(* command line programs install, upgrade, update, remove and reset them,  *)
(* each under the gate of WindowAdmission, each a series of renames that   *)
(* may stop anywhere and is continued by asking for it again.  Connections *)
(* reserve slots in between.                                               *)
(*                                                                         *)
(* A slot is a directory with generated files of one version; a partly     *)
(* written one counts as empty.  What is in an archive or beside it is     *)
(* kept until it is discarded.                                             *)
(***************************************************************************)
EXTENDS WindowAdmission, FiniteSetsExt

CONSTANTS Versions,    \* releases of the addon
          SlotCount,   \* slots in a pool: 500
          Own,         \* the archive of an upgrade asked for by hand
          MaxCommands  \* bound: commands that change the installation

ASSUME DeliveryAssumption ==
    /\ None \notin Versions \cup {"empty"} /\ "empty" \notin Versions
    /\ Own \notin Versions
    /\ SlotCount \in Nat \ {0} /\ MaxCommands \in Nat

Slots    == 1..SlotCount
Places   == {"installed", "reset", "removed"}
Archives == Versions \cup {Own}

VARIABLES
    addon,         \* the addon in every place: its version
    slot,          \* the slot directories in every place
    manifest,      \* the manifest of the pool in every place
    reset,         \* intent of a reset: what it found, and its phase
    removal,       \* intent of a removal: what it found
    replacement,   \* directory of an upgrade: its journal and both trees
    cleanup,       \* the old tree of an update is being deleted
    updating,      \* lease of an update
    tree,          \* lease of the installed addon
    phase,         \* of a connection
    holds,         \* slots that the journal of a connection names
    pc, on, at,    \* a program: where it is, its connection and window
    job,           \*   and what it was asked to do
    deployed,      \* history: an addon was installed and not removed
    pending,       \* history: reservations that nobody has settled
    commands       \* history: commands that were given

files    == <<addon, slot, manifest, reset, removal, replacement, cleanup>>
leases   == <<updating, tree>>
projects == <<phase, holds>>
programs == <<pc, on, at, job>>
history  == <<deployed, pending, commands>>
vars     == <<admission, files, leases, projects, programs, history>>

Manifest == [version : Versions, state : {"installing", "ready", "upgrading"},
             next : Versions \cup {None}, reserved : [Slots -> Conns \cup {None}]]
Directory == Versions \cup {"empty", None}
Reset     == [version : Versions, phase : {"archiving", "installing", "complete"},
              slot : [Slots -> Directory], manifest : Manifest \cup {None}]
Removal   == [version : Versions, manifest : Manifest]
Replacement == [previous : Versions, next : Versions,
                old : Versions \cup {None}, new : Versions \cup {None}]

ASSUME NoneIsNoRecord == None \notin Replacement \cup Manifest \cup Reset \cup Removal

Job == [op : {"install", "upgrade", "resume", "remove", "reset"},
        version : Versions \cup {None}, archive : Archives,
        update : BOOLEAN, absent : BOOLEAN]

Maintaining == {"install", "upgrade", "resume", "replace", "pool", "fill", "convert",
                "remove", "move", "reset", "archive"}

TypeOK ==
    /\ AdmissionTypeOK
    /\ addon \in [Places -> Versions \cup {None}]
    /\ slot \in [Places -> [Slots -> Directory]]
    /\ manifest \in [Places -> Manifest \cup {None}]
    /\ reset \in Reset \cup {None} /\ removal \in Removal \cup {None}
    /\ replacement \in [Archives -> Replacement \cup {None}]
    /\ cleanup \in [Versions -> BOOLEAN]
    /\ updating \in Programs \cup {None} /\ tree \in Programs \cup {None}
    /\ phase \in [Conns -> {"new", "open", "over"}]
    /\ holds \in [Conns -> SUBSET Slots]
    /\ pc \in [Programs -> {"idle", "begin", "drive", "retire", "update", "acquire",
                            "discard"} \cup Maintaining]
    /\ on \in [Programs -> Conns \cup {None}]
    /\ at \in [Programs -> Windows \cup {None}]
    /\ job \in [Programs -> Job \cup {None}]
    /\ deployed \in BOOLEAN /\ pending \subseteq Conns \X Slots
    /\ commands \in 0..MaxCommands

Init ==
    /\ AdmissionInit
    /\ addon = [x \in Places |-> None]
    /\ slot = [x \in Places |-> [i \in Slots |-> None]]
    /\ manifest = [x \in Places |-> None]
    /\ reset = None /\ removal = None
    /\ replacement = [a \in Archives |-> None]
    /\ cleanup = [v \in Versions |-> FALSE]
    /\ updating = None /\ tree = None
    /\ phase = [c \in Conns |-> "new"]
    /\ holds = [c \in Conns |-> {}]
    /\ pc = [p \in Programs |-> "idle"]
    /\ on = [p \in Programs |-> None]
    /\ at = [p \in Programs |-> None]
    /\ job = [p \in Programs |-> None]
    /\ deployed = FALSE /\ pending = {} /\ commands = 0

-----------------------------------------------------------------------------
(* Steps of a program.                                                     *)
Goto(p, to) == pc' = [pc EXCEPT ![p] = to] /\ UNCHANGED <<on, at, job>>

\* A program ends, with an answer, with an error or stopped from outside; the
\* operating system takes back its locks.
Ends(p) ==
    /\ ProgramEnds(p)
    /\ updating' = IF updating = p THEN None ELSE updating
    /\ tree' = IF tree = p THEN None ELSE tree
    /\ pc' = [pc EXCEPT ![p] = "idle"]
    /\ on' = [on EXCEPT ![p] = None] /\ at' = [at EXCEPT ![p] = None]
    /\ job' = [job EXCEPT ![p] = None]

Fails(p) == Ends(p) /\ UNCHANGED <<files, projects, history>>

\* A step to another place that changes the files of F alone.
Only(p, to, F) ==
    /\ Goto(p, to) /\ F
    /\ UNCHANGED <<admission, leases, projects, history>>

-----------------------------------------------------------------------------
(* Connections, as far as claims and slots are concerned.                  *)
Begin(p, w, c) ==
    /\ pc[p] = "idle" /\ phase[c] = "new" /\ \A q \in Programs : on[q] # c
    /\ Admissible(w) /\ EnterGate(p)
    /\ pc' = [pc EXCEPT ![p] = "begin"] /\ on' = [on EXCEPT ![p] = c]
    /\ at' = [at EXCEPT ![p] = w]
    /\ UNCHANGED <<job, files, leases, projects, history>>

Claim(p) ==
    /\ pc[p] = "begin"
    /\ \/ /\ publishWindowOwner(p, at[p], on[p])
          /\ phase' = [phase EXCEPT ![on[p]] = "open"]
          /\ pc' = [pc EXCEPT ![p] = "idle"] /\ on' = [on EXCEPT ![p] = None]
          /\ at' = [at EXCEPT ![p] = None]
          /\ UNCHANGED <<job, files, leases, holds, history>>
       \/ Siblings(at[p]) # {} /\ Fails(p)

\* Resume and Disconnect; a connection that is over is only retired.
Drive(p, w, c) ==
    /\ pc[p] = "idle" /\ phase[c] = "open"
    /\ LockBootstrapWindow(p, w, c)
    /\ pc' = [pc EXCEPT ![p] = "drive"] /\ on' = [on EXCEPT ![p] = c]
    /\ at' = [at EXCEPT ![p] = w]
    /\ UNCHANGED <<job, files, leases, projects, history>>

Finish(p, w, c) ==
    /\ pc[p] = "idle" /\ phase[c] = "over" /\ marker[w] = c
    /\ pc' = [pc EXCEPT ![p] = "retire"] /\ on' = [on EXCEPT ![p] = c]
    /\ at' = [at EXCEPT ![p] = w]
    /\ UNCHANGED <<job, admission, files, leases, projects, history>>

Pool     == manifest["installed"]
Slot(i)  == slot["installed"][i]
Fits(v)  == \A i \in Slots : Slot(i) = v
Unresolved(m) == {i \in Slots : m.reserved[i] # None}

\* InspectSlots: the pool is ready and every slot has the files of its version.
Inspected == Pool # None /\ Pool.state = "ready" /\ Fits(Pool.version)

Reserve(p) ==
    /\ pc[p] = "drive" /\ phase[on[p]] = "open" /\ Inspected
    /\ \E i \in Slots \ Unresolved(Pool) :
         /\ manifest' = [manifest EXCEPT !["installed"].reserved[i] = on[p]]
         /\ holds' = [holds EXCEPT ![on[p]] = @ \cup {i}]
         /\ pending' = pending \cup {<<on[p], i>>}
    /\ UNCHANGED <<admission, addon, slot, reset, removal, replacement, cleanup,
                   leases, phase, programs, deployed, commands>>

\* Consumed, or retired with its runtime or process.
Resolve(p) ==
    /\ pc[p] = "drive" /\ Inspected
    /\ \E i \in holds[on[p]] :
         /\ manifest' = [manifest EXCEPT !["installed"].reserved[i] =
                            IF @ = on[p] THEN None ELSE @]
         /\ holds' = [holds EXCEPT ![on[p]] = @ \ {i}]
         /\ pending' = pending \ {<<on[p], i>>}
    /\ UNCHANGED <<admission, addon, slot, reset, removal, replacement, cleanup,
                   leases, phase, programs, deployed, commands>>

\* A connection that closes for the repair of a damaged pool leaves what it has
\* reserved for the archive of a reset.
Close(p) ==
    /\ pc[p] = "drive"
    /\ phase' = [phase EXCEPT ![on[p]] = "over"]
    /\ holds' = [holds EXCEPT ![on[p]] = {}]
    /\ Unlock(p) /\ Goto(p, "retire")
    /\ UNCHANGED <<files, leases, history>>

Retire(p) ==
    /\ pc[p] = "retire"
    /\ RetireConnectionWindow(at[p], on[p])
    /\ pc' = [pc EXCEPT ![p] = "idle"] /\ on' = [on EXCEPT ![p] = None]
    /\ at' = [at EXCEPT ![p] = None]
    /\ UNCHANGED <<job, files, leases, projects, history>>

-----------------------------------------------------------------------------
(* Commands that change the installation.                                  *)
Ask(p, j, to) ==
    /\ pc[p] = "idle" /\ commands < MaxCommands
    /\ commands' = commands + 1
    /\ job' = [job EXCEPT ![p] = j] /\ pc' = [pc EXCEPT ![p] = to]
    /\ UNCHANGED <<on, at, admission, files, leases, projects, deployed, pending>>

Asked(op, v, a) ==
    [op |-> op, version |-> v, archive |-> a, update |-> FALSE, absent |-> FALSE]

Command(p) ==
    \/ \E v \in Versions, op \in {"install", "upgrade", "reset"} :
          Ask(p, Asked(op, v, Own), "acquire")
    \/ \E op \in {"resume", "remove"} : Ask(p, Asked(op, None, Own), "acquire")

\* UpdateManaged, up to its lease: it looks whether the installation is free and
\* which update is unfinished.
Unfinished == {v \in Versions : replacement[v] # None \/ cleanup[v]}

UpdateManaged(p, v) ==
    /\ gate = None /\ Claimed = {} /\ Unfinished \subseteq {v}
    /\ Ask(p, [Asked("install", v, v) EXCEPT !.update = TRUE,
                   !.absent = addon["installed"] = None], "update")

UpdateLease(p) ==
    /\ pc[p] = "update" /\ updating = None
    /\ updating' = p
    /\ LET v == job[p].version IN
       /\ pc' = [pc EXCEPT ![p] = IF cleanup[v] THEN "discard" ELSE "acquire"]
       /\ job' = [job EXCEPT ![p].op =
                     IF ~cleanup[v] /\ replacement[v] # None THEN "resume" ELSE @]
    /\ UNCHANGED <<on, at, admission, files, tree, projects, history>>

Acquire(p) ==
    /\ pc[p] = "acquire" /\ gate = None
    /\ \/ /\ AcquireInstallationMaintenance(p) /\ Goto(p, job[p].op)
          /\ UNCHANGED <<files, leases, projects, history>>
       \/ Claimed # {} /\ Fails(p)

\* The command is over; an update goes on to discard the old tree.
Finished(p) ==
    IF job[p].update
    THEN /\ LeaveGate(p) /\ Goto(p, "discard")
         /\ tree' = IF tree = p THEN None ELSE tree
         /\ UNCHANGED updating
    ELSE Ends(p)

\* An error that makes an update replace what it cannot install.
Conflict(p) ==
    IF job[p].update /\ job[p].op = "install" /\ ~job[p].absent
    THEN /\ LeaveGate(p)
         /\ job' = [job EXCEPT ![p].op = "upgrade"]
         /\ pc' = [pc EXCEPT ![p] = "acquire"]
         /\ UNCHANGED <<on, at, files, leases, projects, history>>
    ELSE Fails(p)

\* InstallFresh: an absent addon is installed, an identical one stays.
InstallFresh(p) ==
    /\ pc[p] = "install" /\ tree = None
    /\ LET v == job[p].version IN
       \/ /\ addon["installed"] = None
          /\ addon' = [addon EXCEPT !["installed"] = v]
          /\ deployed' = TRUE
          /\ Goto(p, "pool")
          /\ UNCHANGED <<admission, slot, manifest, reset, removal, replacement,
                         cleanup, leases, projects, pending, commands>>
       \/ addon["installed"] = v /\ Only(p, "pool", UNCHANGED files)
       \/ addon["installed"] \notin {None, v} /\ Conflict(p)

-----------------------------------------------------------------------------
(* installSlotPool and upgradeSlotPool.                                    *)
NewManifest(v, st) ==
    [version |-> v, state |-> st, next |-> None, reserved |-> [i \in Slots |-> None]]

SaveManifest(m) ==
    /\ manifest' = [manifest EXCEPT !["installed"] = m]
    /\ UNCHANGED <<addon, slot, reset, removal, replacement, cleanup>>

WriteSlot(i, d) ==
    /\ slot' = [slot EXCEPT !["installed"][i] = d]
    /\ UNCHANGED <<addon, manifest, reset, removal, replacement, cleanup>>

InstallSlotPool(p) ==
    /\ pc[p] = "pool"
    /\ LET v == job[p].version IN
       IF Pool = None
       THEN IF \A i \in Slots : Slot(i) = None
            THEN Only(p, "fill", SaveManifest(NewManifest(v, "installing")))
            ELSE Fails(p)
       ELSE Only(p, IF \/ Pool.state = "upgrading"
                       \/ Pool.state = "ready" /\ Pool.version # v
                    THEN "convert" ELSE "fill", UNCHANGED files)

\* Mutation of Misfits: a slot directory counts as written as soon as it is there.
MisfitsMissing(v) == {i \in Slots : Slot(i) = None}

Misfits(v) == {i \in Slots : Slot(i) # v}

FillSlot(p) ==
    /\ pc[p] = "fill" /\ Misfits(Pool.version) # {}
    /\ LET i == Min(Misfits(Pool.version)) IN
       \/ Slot(i) = None /\ Only(p, "fill", WriteSlot(i, "empty"))
       \/ /\ Slot(i) = "empty" /\ Pool.state = "installing"
          /\ Only(p, "fill", WriteSlot(i, Pool.version))
       \/ /\ Slot(i) # None /\ ~(Slot(i) = "empty" /\ Pool.state = "installing")
          /\ Fails(p)

\* The pool is delivered; a reset notes that before anything else.
Delivered(p) ==
    /\ Finished(p)
    /\ reset' = IF job[p].op = "reset" THEN [reset EXCEPT !.phase = "complete"] ELSE reset
    /\ UNCHANGED <<addon, slot, removal, replacement, cleanup, projects, history>>

FinishFill(p) ==
    /\ pc[p] = "fill" /\ Misfits(Pool.version) = {}
    /\ LET ready == [Pool EXCEPT !.state = "ready"] IN
       IF Pool.version = job[p].version
       THEN manifest' = [manifest EXCEPT !["installed"] = ready] /\ Delivered(p)
       ELSE Only(p, "convert", SaveManifest(ready))

\* Mutation of StartConvert: does not look at the reservations.
StartConvertReserved(p) ==
    /\ pc[p] = "convert" /\ Pool.state = "ready"
    /\ IF ~Fits(Pool.version) THEN Fails(p)
       ELSE Only(p, "convert", SaveManifest([Pool EXCEPT !.state = "upgrading",
                                                         !.next = job[p].version]))

StartConvert(p) ==
    /\ pc[p] = "convert" /\ Pool.state = "ready"
    /\ IF ~Fits(Pool.version) THEN Fails(p)
       ELSE IF Unresolved(Pool) # {} THEN Conflict(p)
       ELSE Only(p, "convert", SaveManifest([Pool EXCEPT !.state = "upgrading",
                                                         !.next = job[p].version]))

\* Every slot is old or new, or nothing is written.
Convertible(v) ==
    Pool.next = v /\ \A i \in Slots : Slot(i) \in {Pool.version, v}

ConvertSlot(p) ==
    /\ pc[p] = "convert" /\ Pool.state = "upgrading"
    /\ LET v == job[p].version IN
       \/ Pool.next # v /\ Conflict(p)
       \/ Pool.next = v /\ ~Convertible(v) /\ Fails(p)
       \/ /\ Convertible(v) /\ Misfits(v) # {}
          /\ Only(p, "convert", WriteSlot(Min(Misfits(v)), v))
       \/ /\ Convertible(v) /\ Misfits(v) = {}
          /\ manifest' = [manifest EXCEPT !["installed"] = NewManifest(v, "ready")]
          /\ Delivered(p)

-----------------------------------------------------------------------------
(* UpgradeInstallation and ResumeUpgrade: the journal and the new tree are *)
(* complete in one directory before the old tree moves there.              *)
SaveReplacement(a, r) ==
    /\ replacement' = [replacement EXCEPT ![a] = r]
    /\ UNCHANGED <<slot, manifest, reset, removal, cleanup>>

Upgradable(a) == addon["installed"] # None /\ replacement[a] = None

UpgradeInstallation(p) ==
    /\ pc[p] = "upgrade" /\ tree = None
    /\ LET a == job[p].archive v == job[p].version IN
       IF ~Upgradable(a) THEN Fails(p)
       ELSE /\ SaveReplacement(a, [previous |-> addon["installed"], next |-> v,
                                   old |-> None, new |-> v])
            /\ tree' = p /\ Goto(p, "replace")
            /\ UNCHANGED <<admission, addon, updating, projects, history>>

ResumeUpgrade(p) ==
    /\ pc[p] = "resume" /\ tree = None
    /\ IF replacement[job[p].archive] = None THEN Fails(p)
       ELSE /\ tree' = p
            /\ job' = [job EXCEPT ![p].version = replacement[job[p].archive].next]
            /\ pc' = [pc EXCEPT ![p] = "replace"]
            /\ UNCHANGED <<on, at, admission, files, updating, projects, history>>

Replaced(r) ==
    addon["installed"] = r.next /\ r.old = r.previous /\ r.new = None

\* Mutation of MoveOld: the old tree is deleted.
DeleteOld(p, a, r) ==
    /\ r.new = r.next /\ r.old = None /\ addon["installed"] = r.previous
    /\ Only(p, "replace", /\ UNCHANGED <<slot, manifest, reset, removal, replacement,
                                         cleanup>>
                          /\ addon' = [addon EXCEPT !["installed"] = None])

MoveOld(p, a, r) ==
    /\ r.new = r.next /\ r.old = None /\ addon["installed"] = r.previous
    /\ Only(p, "replace", /\ SaveReplacement(a, [r EXCEPT !.old = addon["installed"]])
                          /\ addon' = [addon EXCEPT !["installed"] = None])

MoveNew(p, a, r) ==
    /\ r.new = r.next /\ r.old = r.previous /\ addon["installed"] = None
    /\ SaveReplacement(a, [r EXCEPT !.new = None])
    /\ addon' = [addon EXCEPT !["installed"] = r.next]
    /\ tree' = None /\ Goto(p, "pool")
    /\ UNCHANGED <<admission, updating, projects, history>>

ResumeReplacement(p) ==
    /\ pc[p] = "replace"
    /\ LET a == job[p].archive r == replacement[a] IN
       \/ /\ Replaced(r) /\ tree' = None /\ Goto(p, "pool")
          /\ UNCHANGED <<admission, files, updating, projects, history>>
       \/ MoveOld(p, a, r) \/ MoveNew(p, a, r)
       \/ /\ ~Replaced(r)
          /\ \/ r.new # r.next
             \/ /\ ~(r.old = None /\ addon["installed"] = r.previous)
                /\ ~(r.old = r.previous /\ addon["installed"] = None)
          /\ Fails(p)

-----------------------------------------------------------------------------
(* discardReplacement: the old tree of a finished update is deleted, after *)
(* a note that it may be found half deleted.                               *)
NoteCleanup(v, b) == cleanup' = [cleanup EXCEPT ![v] = b] /\ UNCHANGED replacement

Discardable(v) ==
    /\ addon["installed"] = v
    /\ cleanup[v] \/ (replacement[v] # None /\ Replaced(replacement[v]))

Discard(p) ==
    /\ pc[p] = "discard" /\ tree \in {None, p}
    /\ LET v == job[p].version IN
       IF ~Discardable(v) THEN Fails(p)
       ELSE /\ \/ ~cleanup[v] /\ NoteCleanup(v, TRUE)
               \/ /\ cleanup[v] /\ replacement[v] # None
                  /\ replacement' = [replacement EXCEPT ![v] = None]
                  /\ UNCHANGED cleanup
               \/ cleanup[v] /\ replacement[v] = None /\ NoteCleanup(v, FALSE)
            /\ tree' = p /\ Goto(p, "discard")
            /\ UNCHANGED <<admission, addon, slot, manifest, reset, removal, updating,
                           projects, history>>

-----------------------------------------------------------------------------
(* What an intent has found is on exactly one of two sides, unchanged.     *)
Kept(here, there, found) == {here, there} = {None, found}

MoveSlot(i, x) ==
    /\ slot' = [slot EXCEPT !["installed"][i] = None, ![x][i] = Slot(i)]
    /\ UNCHANGED <<addon, manifest, reset, removal, replacement, cleanup>>

MoveManifest(x) ==
    /\ manifest' = [manifest EXCEPT !["installed"] = None, ![x] = Pool]
    /\ UNCHANGED <<addon, slot, reset, removal, replacement, cleanup>>

\* The last move of a removal.
MoveAddon(p) ==
    /\ addon' = [addon EXCEPT !["installed"] = None, !["removed"] = addon["installed"]]
    /\ deployed' = FALSE
    /\ Ends(p)
    /\ UNCHANGED <<slot, manifest, reset, removal, replacement, cleanup, projects, pending,
                   commands>>

\* removeAddonAndSlots: slots, manifest, addon.
Removable ==
    /\ Inspected /\ Unresolved(Pool) = {}
    /\ addon["installed"] # None /\ addon["removed"] = None

RemovalKept ==
    /\ \A i \in Slots : Kept(Slot(i), slot["removed"][i], removal.manifest.version)
    /\ Kept(Pool, manifest["removed"], removal.manifest)
    /\ Kept(addon["installed"], addon["removed"], removal.version)

Remove(p) ==
    /\ pc[p] = "remove"
    /\ IF removal # None
       THEN IF RemovalKept THEN Only(p, "move", UNCHANGED files) ELSE Fails(p)
       ELSE IF Pool = None
       THEN IF addon["installed"] # None /\ addon["removed"] = None
            THEN tree = None /\ MoveAddon(p) ELSE Fails(p)
       ELSE IF Removable
       THEN Only(p, "move",
                 /\ removal' = [version |-> addon["installed"], manifest |-> Pool]
                 /\ UNCHANGED <<addon, slot, manifest, reset, replacement, cleanup>>)
       ELSE Fails(p)

Move(p) ==
    /\ pc[p] = "move"
    /\ LET left == {i \in Slots : Slot(i) # None} IN
       \/ left # {} /\ Only(p, "move", MoveSlot(Min(left), "removed"))
       \/ left = {} /\ Pool # None /\ Only(p, "move", MoveManifest("removed"))
       \/ left = {} /\ Pool = None /\ addon["installed"] # None /\ MoveAddon(p)
       \/ left = {} /\ Pool = None /\ addon["installed"] = None /\ Fails(p)

-----------------------------------------------------------------------------
(* ResetAddonSlots: the pool moves to an archive as it is, and a new one   *)
(* is installed.                                                           *)
\* An original that was absent is absent still.
ArchivingKept ==
    /\ \A i \in Slots :
         {Slot(i), slot["reset"][i]} = {None, reset.slot[i]}
    /\ {Pool, manifest["reset"]} = {None, reset.manifest}

ResetKept ==
    IF reset.phase = "archiving" THEN ArchivingKept
    ELSE slot["reset"] = reset.slot /\ manifest["reset"] = reset.manifest

BeginReset(p) ==
    /\ pc[p] = "reset"
    /\ LET v == job[p].version IN
       IF addon["installed"] # v THEN Fails(p)
       ELSE IF reset = None
       THEN Only(p, "archive",
                 /\ reset' = [version |-> v, phase |-> "archiving",
                              slot |-> slot["installed"], manifest |-> Pool]
                 /\ UNCHANGED <<addon, slot, manifest, removal, replacement, cleanup>>)
       ELSE IF reset.version # v \/ ~ResetKept \/ reset.phase = "complete" THEN Fails(p)
       ELSE Only(p, IF reset.phase = "archiving" THEN "archive" ELSE "pool", UNCHANGED files)

\* Mutation of ArchiveReset: the archive counts as complete without the manifest.
ArchiveResetSlots(p) ==
    /\ pc[p] = "archive"
    /\ LET left == {i \in Slots : Slot(i) # None} IN
       \/ left # {} /\ Only(p, "archive", MoveSlot(Min(left), "reset"))
       \/ /\ left = {}
          /\ Only(p, "pool", /\ reset' = [reset EXCEPT !.phase = "installing"]
                             /\ UNCHANGED <<addon, slot, manifest, removal, replacement,
                                            cleanup>>)

ArchiveReset(p) ==
    /\ pc[p] = "archive"
    /\ LET left == {i \in Slots : Slot(i) # None} IN
       \/ left # {} /\ Only(p, "archive", MoveSlot(Min(left), "reset"))
       \/ left = {} /\ Pool # None /\ Only(p, "archive", MoveManifest("reset"))
       \/ /\ left = {} /\ Pool = None
          /\ Only(p, "pool", /\ reset' = [reset EXCEPT !.phase = "installing"]
                             /\ UNCHANGED <<addon, slot, manifest, removal, replacement,
                                            cleanup>>)

Crash(p) == pc[p] # "idle" /\ Fails(p)

Connection(p) ==
    \/ \E w \in Windows, c \in Conns : Begin(p, w, c) \/ Drive(p, w, c) \/ Finish(p, w, c)
    \/ Claim(p) \/ Reserve(p) \/ Resolve(p) \/ Close(p) \/ Retire(p)

Maintenance(p) ==
    \/ Command(p) \/ \E v \in Versions : UpdateManaged(p, v)
    \/ UpdateLease(p) \/ Acquire(p) \/ InstallFresh(p)
    \/ InstallSlotPool(p) \/ FillSlot(p) \/ FinishFill(p) \/ StartConvert(p) \/ ConvertSlot(p)
    \/ UpgradeInstallation(p) \/ ResumeUpgrade(p) \/ ResumeReplacement(p) \/ Discard(p)
    \/ Remove(p) \/ Move(p) \/ BeginReset(p) \/ ArchiveReset(p)

Next == \E p \in Programs : Connection(p) \/ Maintenance(p) \/ Crash(p)

Spec == Init /\ [][Next]_vars

-----------------------------------------------------------------------------
(* No program drives a window, and none holds a claim, while a command     *)
(* changes the installation.                                               *)
MaintenanceAlone ==
    \A p \in Programs : pc[p] \in Maintaining =>
        gate = p /\ \A w \in Windows : marker[w] = None /\ lease[w] = None

(* A game process is claimed by one connection, although it may have more  *)
(* than one window.                                                        *)
OneClaimPerProcess ==
    \A v, w \in Claimed : Process[v] = Process[w] => v = w

(* A connection loses its claim only when it is over, although programs    *)
(* that retire one that was over may come late, when another connection    *)
(* has the window.                                                         *)
ClaimLostWhenOver ==
    [][\A w \in Windows :
        marker[w] # None /\ marker'[w] # marker[w] => phase[marker[w]] = "over"]_vars

(* Nothing that a reset found is lost: once something is in its archive,   *)
(* every member is in it, or still in its place or in the archive of a     *)
(* removal that goes on in between, as it was found; and all is in it when *)
(* the reset goes on to install (a pool that was found half installed may  *)
(* be completed before).                                                   *)
Archiving == {i \in Slots : slot["reset"][i] # None} # {} \/ manifest["reset"] # None

ArchiveKeepsAll ==
    /\ reset # None /\ (Archiving \/ reset.phase # "archiving")
    /\ reset.manifest # None /\ reset.manifest.state # "installing"
    =>  /\ \A i \in Slots :
             \/ slot["reset"][i] = reset.slot[i]
             \/ /\ reset.phase = "archiving"
                /\ reset.slot[i] \in {Slot(i), slot["removed"][i]}
        /\ \/ manifest["reset"] = reset.manifest
           \/ /\ reset.phase = "archiving"
              /\ reset.manifest \in {Pool, manifest["removed"]}

(* An addon that was installed is there until it is removed, or one        *)
(* journal of an upgrade has all that it needs to finish.                  *)
AddonRecoverable ==
    deployed => \/ addon["installed"] # None
                \/ \E a \in Archives :
                     /\ replacement[a] # None
                     /\ replacement[a].old = replacement[a].previous
                     /\ replacement[a].new = replacement[a].next

(* A pool that says it is ready has the files of one version in every      *)
(* slot, unless it is on its way to an archive.                            *)
OnItsWay ==
    \/ reset # None /\ reset.phase = "archiving" /\ Archiving
    \/ removal # None /\ addon["removed"] = None

ReadyIsWhole ==
    Pool # None /\ Pool.state = "ready" /\ ~OnItsWay => Fits(Pool.version)

(* A reservation that nobody has settled is in the pool or in the archive  *)
(* of a reset: no upgrade, update or removal loses it.                     *)
ReservationsKept ==
    \A r \in pending :
        \E x \in {"installed", "reset"} :
            manifest[x] # None /\ manifest[x].reserved[r[2]] = r[1]
=============================================================================
