----------------------------- MODULE DeliveryProofs -----------------------------
(***************************************************************************)
(* Theorems about AddonDelivery, for any number of programs, connections,  *)
(* windows, versions and slots: types, maintenance excludes connections,   *)
(* claims, the addon survives its upgrades, and the pool and what is       *)
(* reserved in it survive whatever is interrupted.                         *)
(***************************************************************************)
EXTENDS AddonDelivery, FiniteSetTheorems, WellFoundedInduction, TLAPS

(* The least of some slots is one of them.                                 *)
LEMMA MinMember ==
    ASSUME NEW S \in SUBSET Slots, S # {}
    PROVE  Min(S) \in S
<1> DEFINE Below(x) == {y \in S : y <= x}
           T == {Below(x) : x \in S}
<1>1. S \subseteq Int /\ IsFiniteSet(Slots)
  BY FS_Interval, DeliveryAssumption DEF Slots
<1>2. IsWellFoundedOn(StrictSubsetOrdering(Slots), SUBSET Slots)
  BY <1>1, FS_StrictSubsetOrderingWellFounded, FS_FiniteSubsetsOfFinite
<1>3. T \subseteq SUBSET Slots /\ T # {}
  OBVIOUS
<1>4. PICK t \in T : \A u \in T : <<u, t>> \notin StrictSubsetOrdering(Slots)
  <2> HIDE DEF T
  <2> QED BY <1>2, <1>3, WFMin
<1>5. PICK x \in S : t = Below(x)
  BY <1>4
<1>6. ASSUME NEW y \in S, ~(x <= y) PROVE FALSE
  <2>1. y < x /\ x \in S /\ x \in Int /\ y \in Int
    BY <1>1, <1>6
  <2>2. \A z \in S : z <= y => z <= x
    BY <1>1, <2>1
  <2>3. x \in Below(x) /\ x \notin Below(y)
    BY <2>1
  <2>4. Below(y) \subseteq Below(x) /\ Below(y) # Below(x)
    BY <2>2, <2>3
  <2>5. <<Below(y), t>> \in StrictSubsetOrdering(Slots)
    BY <1>5, <2>4 DEF StrictSubsetOrdering
  <2> QED BY <1>4, <2>5
<1> QED BY <1>6 DEF Min

-----------------------------------------------------------------------------
(* The inductive invariant.  A program that works on a connection has one; *)
(* one that creates a connection has found the window free and keeps the   *)
(* gate; one that retires a connection works for one that is over.         *)
Placed(p) ==
    /\ pc[p] \in {"begin", "drive", "retire"} => on[p] \in Conns /\ at[p] \in Windows
    /\ pc[p] = "begin" => gate = p /\ marker[at[p]] = None /\ phase[on[p]] = "new"
    /\ pc[p] = "drive" => phase[on[p]] # "new"
    /\ pc[p] = "retire" => phase[on[p]] = "over"

\* A command has a job, and the version to work with.
Commanded == Maintaining \cup {"update", "acquire", "discard"}

Charged(p) ==
    pc[p] \in Commanded =>
        /\ job[p] \in Job
        /\ \/ job[p].op \in {"resume", "remove"} /\ pc[p] \in {"acquire", "resume", "remove", "move"}
           \/ job[p].version \in Versions
        /\ pc[p] = "acquire" => job[p].op \in Maintaining
        /\ pc[p] = "install" => job[p].op = "install"
        /\ pc[p] \in {"upgrade", "resume", "replace"} => job[p].op # "reset"

\* A command that is under way has the gate, and no window is claimed.
Alone(p) == pc[p] \in Maintaining => gate = p /\ Claimed = {}

\* What a command works on is there.
Stocked(p) ==
    /\ pc[p] \in {"fill", "convert"} => Pool \in Manifest
    /\ pc[p] = "archive" => reset \in Reset
    /\ pc[p] \in {"pool", "fill", "convert"} /\ job[p].op = "reset" => reset \in Reset
    /\ pc[p] = "replace" => tree = p /\ replacement[job[p].archive] \in Replacement

\* Only claimed windows are driven.
Leased == \A w \in Windows : lease[w] # None => marker[w] # None

IInv ==
    /\ TypeOK /\ Leased
    /\ \A p \in Programs : Placed(p) /\ Charged(p) /\ Alone(p) /\ Stocked(p)

LEMMA InitInv == Init => IInv
<1> SUFFICES ASSUME Init PROVE IInv OBVIOUS
<1>1. TypeOK
  <2>1. AdmissionTypeOK
    BY DEF Init, AdmissionInit, AdmissionTypeOK
  <2>2. slot \in [Places -> [Slots -> Directory]]
    BY DEF Init, Directory
  <2>3. commands \in 0..MaxCommands
    BY DeliveryAssumption DEF Init
  <2> QED BY <2>1, <2>2, <2>3 DEF Init, TypeOK
<1>2. Leased
  BY DEF Init, AdmissionInit, Leased
<1>3. ASSUME NEW p \in Programs PROVE pc[p] = "idle"
  BY DEF Init
<1> QED BY <1>1, <1>2, <1>3 DEF IInv, Placed, Charged, Alone, Stocked, Commanded, Maintaining

LEMMA EndsKeeps ==
    ASSUME IInv, NEW p \in Programs, Fails(p)
    PROVE  IInv'
<1>1. TypeOK'
  BY DEF IInv, TypeOK, AdmissionTypeOK, Fails, Ends, ProgramEnds, files, projects, history
<1>2. Leased'
  BY DEF IInv, TypeOK, AdmissionTypeOK, Leased, Fails, Ends, ProgramEnds
<1>3. ASSUME NEW q \in Programs PROVE (Placed(q) /\ Charged(q) /\ Alone(q) /\ Stocked(q))'
  <2>1. CASE q = p
    BY <2>1 DEF IInv, TypeOK, Fails, Ends, Placed, Charged, Alone, Stocked, Commanded, Maintaining
  <2>2. CASE q # p
    <3>1. UNCHANGED <<pc[q], on[q], at[q], job[q], marker, files, projects>>
      BY <2>2 DEF IInv, TypeOK, Fails, Ends, ProgramEnds
    <3>2. (gate = q => gate' = q) /\ (tree = q => tree' = q)
      BY <2>2 DEF Fails, Ends, ProgramEnds
    <3>3. Placed(q) /\ Charged(q) /\ Alone(q) /\ Stocked(q)
      BY DEF IInv
    <3> QED BY <3>1, <3>2, <3>3
            DEF files, projects, Placed, Charged, Alone, Stocked, Claimed, Pool
  <2> QED BY <2>1, <2>2
<1> QED BY <1>1, <1>2, <1>3 DEF IInv

-----------------------------------------------------------------------------
(* Connections.                                                            *)
LEMMA BeginKeeps ==
    ASSUME IInv, NEW p \in Programs, NEW w \in Windows, NEW c \in Conns, Begin(p, w, c)
    PROVE  IInv'
<1> USE DEF Begin, EnterGate
<1>1. TypeOK'
  BY DEF IInv, TypeOK, AdmissionTypeOK, files, leases, projects, history
<1>2. Leased'
  BY DEF IInv, Leased
<1>3. ASSUME NEW q \in Programs PROVE (Placed(q) /\ Charged(q) /\ Alone(q) /\ Stocked(q))'
  <2>1. CASE q = p
    <3>1. /\ pc'[q] = "begin" /\ on'[q] = c /\ at'[q] = w /\ gate' = q
          /\ marker'[w] = None /\ phase'[c] = "new"
      BY <2>1 DEF IInv, TypeOK, Admissible, projects
    <3> QED BY <3>1 DEF Placed, Charged, Alone, Stocked, Commanded, Maintaining
  <2>2. CASE q # p
    <3>1. UNCHANGED <<pc[q], on[q], at[q], job[q], marker, files, tree, phase>>
      BY <2>2 DEF IInv, TypeOK, leases, projects
    <3>2. gate # q
      BY WindowAssumption DEF Admissible
    <3>3. Placed(q) /\ Charged(q) /\ Alone(q) /\ Stocked(q)
      BY DEF IInv
    <3> QED BY <3>1, <3>2, <3>3
            DEF files, Placed, Charged, Alone, Stocked, Claimed, Pool
  <2> QED BY <2>1, <2>2
<1> QED BY <1>1, <1>2, <1>3 DEF IInv

LEMMA ClaimKeeps ==
    ASSUME IInv, NEW p \in Programs, Claim(p)
    PROVE  IInv'
<1>1. CASE Fails(p)
  BY <1>1, EndsKeeps
<1>2. CASE /\ publishWindowOwner(p, at[p], on[p])
           /\ phase' = [phase EXCEPT ![on[p]] = "open"]
           /\ pc' = [pc EXCEPT ![p] = "idle"] /\ on' = [on EXCEPT ![p] = None]
           /\ at' = [at EXCEPT ![p] = None]
           /\ UNCHANGED <<job, files, leases, holds, history>>
  <2>0. /\ on[p] \in Conns /\ at[p] \in Windows /\ pc[p] = "begin" /\ gate = p
        /\ phase[on[p]] = "new"
    BY DEF Claim, IInv, Placed
  <2>1. TypeOK'
    BY <1>2, <2>0 DEF IInv, TypeOK, AdmissionTypeOK, publishWindowOwner, files, leases, history
  <2>2. Leased'
    BY <1>2, <2>0, NoneIsNoConnection DEF IInv, TypeOK, AdmissionTypeOK, Leased, publishWindowOwner
  <2>3. ASSUME NEW q \in Programs PROVE (Placed(q) /\ Charged(q) /\ Alone(q) /\ Stocked(q))'
    <3>1. CASE q = p
      BY <1>2, <3>1 DEF IInv, TypeOK, Placed, Charged, Alone, Stocked, Commanded, Maintaining
    <3>2. CASE q # p
      <4>1. UNCHANGED <<pc[q], on[q], at[q], job[q], files, tree>>
        BY <1>2, <3>2 DEF IInv, TypeOK, leases
      <4>2. pc[q] \notin Maintaining \cup {"begin"}
        BY <2>0, <3>2 DEF IInv, Placed, Alone
      <4>3. Placed(q) /\ Charged(q)
        BY DEF IInv
      <4>4. /\ pc[q] = "retire" => phase'[on[q]] = "over"
            /\ pc[q] = "drive" => phase'[on[q]] # "new"
        BY <1>2, <2>0, <4>3 DEF Placed, IInv, TypeOK
      <4> QED BY <4>1, <4>2, <4>3, <4>4
              DEF files, Placed, Charged, Alone, Stocked, Maintaining
    <3> QED BY <3>1, <3>2
  <2> QED BY <2>1, <2>2, <2>3 DEF IInv
<1> QED BY <1>1, <1>2 DEF Claim

LEMMA DriveKeeps ==
    ASSUME IInv, NEW p \in Programs, NEW w \in Windows, NEW c \in Conns,
           Drive(p, w, c) \/ Finish(p, w, c)
    PROVE  IInv'
<1> USE DEF Drive, Finish, LockBootstrapWindow
<1>0. pc[p] = "idle" /\ pc' \in {[pc EXCEPT ![p] = "drive"], [pc EXCEPT ![p] = "retire"]}
  OBVIOUS
<1>1. TypeOK'
  <2>1. AdmissionTypeOK'
    BY DEF IInv, TypeOK, AdmissionTypeOK, admission
  <2>2. pc' \in [Programs -> {"idle", "begin", "drive", "retire", "update", "acquire",
                             "discard"} \cup Maintaining]
    BY <1>0 DEF IInv, TypeOK
  <2>3. UNCHANGED <<job, files, leases, projects, history>>
    OBVIOUS
  <2>4. on' = [on EXCEPT ![p] = c] /\ at' = [at EXCEPT ![p] = w]
    OBVIOUS
  <2> HIDE DEF Drive, Finish
  <2> QED BY <2>1, <2>2, <2>3, <2>4 DEF IInv, TypeOK, files, leases, projects, history
<1>2. Leased'
  BY NoneIsNoConnection DEF IInv, TypeOK, AdmissionTypeOK, Leased, admission
<1>3. ASSUME NEW q \in Programs PROVE (Placed(q) /\ Charged(q) /\ Alone(q) /\ Stocked(q))'
  <2>1. CASE q = p
    BY <1>0, <2>1
       DEF IInv, TypeOK, projects, Placed, Charged, Alone, Stocked, Commanded, Maintaining
  <2>2. CASE q # p
    <3>1. UNCHANGED <<pc[q], on[q], at[q], job[q], gate, marker, files, leases, phase>>
      BY <2>2 DEF IInv, TypeOK, projects, admission
    <3>2. Placed(q) /\ Charged(q) /\ Alone(q) /\ Stocked(q)
      BY DEF IInv
    <3> QED BY <3>1, <3>2
            DEF files, leases, Placed, Charged, Alone, Stocked, Claimed, Pool
  <2> QED BY <2>1, <2>2
<1> QED BY <1>1, <1>2, <1>3 DEF IInv

\* A step of a driver that settles or takes reservations.
LEMMA ReserveKeeps ==
    ASSUME IInv, NEW p \in Programs, Reserve(p) \/ Resolve(p)
    PROVE  IInv'
<1>0. on[p] \in Conns /\ Pool \in Manifest
  BY DEF Reserve, Resolve, IInv, TypeOK, Placed, Inspected, Pool, Places
<1>1. TypeOK' /\ Pool' \in Manifest
  <2>1. CASE Reserve(p)
    <3>1. PICK i \in Slots :
            /\ manifest' = [manifest EXCEPT !["installed"].reserved[i] = on[p]]
            /\ holds' = [holds EXCEPT ![on[p]] = @ \cup {i}]
            /\ pending' = pending \cup {<<on[p], i>>}
      BY <2>1 DEF Reserve
    <3>2. [Pool EXCEPT !.reserved[i] = on[p]] \in Manifest
      BY <1>0 DEF Manifest
    <3>3. manifest' = [manifest EXCEPT !["installed"] = [Pool EXCEPT !.reserved[i] = on[p]]]
      BY <3>1 DEF Pool
    <3>4. manifest' \in [Places -> Manifest \cup {None}] /\ Pool' \in Manifest
      BY <3>2, <3>3 DEF IInv, TypeOK, Pool, Places
    <3>5. holds' \in [Conns -> SUBSET Slots] /\ pending' \subseteq Conns \X Slots
      BY <1>0, <3>1 DEF IInv, TypeOK
    <3> QED BY <2>1, <3>4, <3>5
        DEF Reserve, IInv, TypeOK, AdmissionTypeOK, admission, leases, programs
  <2>2. CASE Resolve(p)
    <3>1. PICK i \in Slots :
            /\ manifest' = [manifest EXCEPT !["installed"].reserved[i] =
                               IF @ = on[p] THEN None ELSE @]
            /\ holds' = [holds EXCEPT ![on[p]] = @ \ {i}]
            /\ pending' = pending \ {<<on[p], i>>}
      BY <1>0, <2>2 DEF Resolve, IInv, TypeOK
    <3>2. [Pool EXCEPT !.reserved[i] = IF @ = on[p] THEN None ELSE @] \in Manifest
      BY <1>0 DEF Manifest
    <3>3. manifest' = [manifest EXCEPT !["installed"] =
                         [Pool EXCEPT !.reserved[i] = IF @ = on[p] THEN None ELSE @]]
      BY <3>1 DEF Pool
    <3>4. manifest' \in [Places -> Manifest \cup {None}] /\ Pool' \in Manifest
      BY <3>2, <3>3 DEF IInv, TypeOK, Pool, Places
    <3>5. holds' \in [Conns -> SUBSET Slots] /\ pending' \subseteq Conns \X Slots
      BY <1>0, <3>1 DEF IInv, TypeOK
    <3> QED BY <2>2, <3>4, <3>5
        DEF Resolve, IInv, TypeOK, AdmissionTypeOK, admission, leases, programs
  <2> QED BY <2>1, <2>2
<1>2. UNCHANGED <<admission, reset, replacement, leases, phase, programs>>
  BY DEF Reserve, Resolve
<1> QED BY <1>1, <1>2
        DEF IInv, admission, leases, programs, Leased, Placed, Charged, Alone, Stocked, Claimed

LEMMA CloseKeeps ==
    ASSUME IInv, NEW p \in Programs, Close(p)
    PROVE  IInv'
<1> USE DEF Close, Unlock, Goto
<1>0. on[p] \in Conns
  BY DEF IInv, Placed
<1>1. TypeOK'
  BY <1>0 DEF IInv, TypeOK, AdmissionTypeOK, files, leases, history
<1>2. Leased'
  BY DEF IInv, TypeOK, AdmissionTypeOK, Leased
<1>3. ASSUME NEW q \in Programs PROVE (Placed(q) /\ Charged(q) /\ Alone(q) /\ Stocked(q))'
  <2>1. CASE q = p
    BY <1>0, <2>1 DEF IInv, TypeOK, Placed, Charged, Alone, Stocked, Commanded, Maintaining
  <2>2. CASE q # p
    <3>1. UNCHANGED <<pc[q], on[q], at[q], job[q], gate, marker, files, tree>>
      BY <2>2 DEF IInv, TypeOK, leases
    <3>2. Placed(q) /\ Charged(q) /\ Alone(q) /\ Stocked(q)
      BY DEF IInv
    <3>3. /\ pc[q] = "begin" => phase'[on[q]] = "new"
          /\ pc[q] = "drive" => phase'[on[q]] # "new"
          /\ pc[q] = "retire" => phase'[on[q]] = "over"
      BY <1>0, <3>2 DEF IInv, TypeOK, Placed
    <3> QED BY <3>1, <3>2, <3>3
            DEF files, Placed, Charged, Alone, Stocked, Claimed, Pool
  <2> QED BY <2>1, <2>2
<1> QED BY <1>1, <1>2, <1>3 DEF IInv

LEMMA RetireKeeps ==
    ASSUME IInv, NEW p \in Programs, Retire(p)
    PROVE  IInv'
<1> USE DEF Retire, RetireConnectionWindow
<1>0. at[p] \in Windows
  BY DEF IInv, Placed
<1>1. TypeOK'
  BY <1>0 DEF IInv, TypeOK, AdmissionTypeOK, files, leases, projects, history
<1>2. Leased'
  BY <1>0 DEF IInv, TypeOK, AdmissionTypeOK, Leased
<1>3. ASSUME NEW q \in Programs PROVE (Placed(q) /\ Charged(q) /\ Alone(q) /\ Stocked(q))'
  <2>1. CASE q = p
    BY <1>0, <2>1 DEF IInv, TypeOK, Placed, Charged, Alone, Stocked, Commanded, Maintaining
  <2>2. CASE q # p
    <3>1. UNCHANGED <<pc[q], on[q], at[q], job[q], gate, files, tree, phase>>
      BY <2>2 DEF IInv, TypeOK, leases, projects
    <3>2. Placed(q) /\ Charged(q) /\ Alone(q) /\ Stocked(q)
      BY DEF IInv
    <3>3. Claimed' \subseteq Claimed /\ (pc[q] = "begin" => marker'[at[q]] = None)
      BY <1>0, <3>2 DEF IInv, TypeOK, AdmissionTypeOK, Claimed, Placed
    <3> QED BY <3>1, <3>2, <3>3
            DEF files, Placed, Charged, Alone, Stocked, Pool
  <2> QED BY <2>1, <2>2
<1> QED BY <1>1, <1>2, <1>3 DEF IInv

-----------------------------------------------------------------------------
(* Commands, until they have the gate.                                     *)
LEMMA AskKeeps ==
    ASSUME IInv, NEW p \in Programs, NEW j \in Job, NEW to \in {"acquire", "update"},
           Ask(p, j, to),
           to = "acquire" => j.op \in Maintaining,
           \/ j.op \in {"resume", "remove"} /\ to = "acquire"
           \/ j.version \in Versions
    PROVE  IInv'
<1> USE DEF Ask
<1>1. TypeOK'
  BY DeliveryAssumption
     DEF IInv, TypeOK, AdmissionTypeOK, admission, files, leases, projects
<1>2. Leased'
  BY DEF IInv, Leased, admission
<1>3. ASSUME NEW q \in Programs PROVE (Placed(q) /\ Charged(q) /\ Alone(q) /\ Stocked(q))'
  <2>1. CASE q = p
    <3>1. pc'[q] = to /\ job'[q] = j
      BY <2>1 DEF IInv, TypeOK
    <3> QED BY <3>1 DEF Placed, Charged, Alone, Stocked, Commanded, Maintaining
  <2>2. CASE q # p
    <3>1. UNCHANGED <<pc[q], on[q], at[q], job[q], admission, files, leases, projects>>
      BY <2>2 DEF IInv, TypeOK
    <3>2. Placed(q) /\ Charged(q) /\ Alone(q) /\ Stocked(q)
      BY DEF IInv
    <3> QED BY <3>1, <3>2
            DEF admission, files, leases, projects, Placed, Charged, Alone, Stocked, Claimed, Pool
  <2> QED BY <2>1, <2>2
<1> QED BY <1>1, <1>2, <1>3 DEF IInv

LEMMA CommandKeeps ==
    ASSUME IInv, NEW p \in Programs,
           Command(p) \/ \E v \in Versions : UpdateManaged(p, v)
    PROVE  IInv'
<1>1. CASE \E v \in Versions, op \in {"install", "upgrade", "reset"} :
             Ask(p, Asked(op, v, Own), "acquire")
  BY <1>1, AskKeeps DEF Asked, Job, Archives, Maintaining
<1>2. CASE \E op \in {"resume", "remove"} : Ask(p, Asked(op, None, Own), "acquire")
  BY <1>2, AskKeeps DEF Asked, Job, Archives, Maintaining
<1>3. ASSUME NEW v \in Versions, UpdateManaged(p, v) PROVE IInv'
  <2> DEFINE j == [Asked("install", v, v) EXCEPT !.update = TRUE,
                       !.absent = addon["installed"] = None]
  <2>1. j \in Job /\ j.version = v
    BY DEF Asked, Job, Archives
  <2>2. Ask(p, j, "update")
    BY <1>3 DEF UpdateManaged
  <2> HIDE DEF j
  <2> QED BY <2>1, <2>2, AskKeeps
<1> QED BY <1>1, <1>2, <1>3 DEF Command

LEMMA UpdateLeaseKeeps ==
    ASSUME IInv, NEW p \in Programs, UpdateLease(p)
    PROVE  IInv'
<1> DEFINE v == job[p].version
<1>0. job[p] \in Job /\ v \in Versions /\ pc[p] = "update"
  BY DEF UpdateLease, IInv, Charged, Commanded
<1>1. /\ job'[p] \in Job /\ job'[p].version = v
      /\ job'[p].op \in {"resume", job[p].op}
      /\ job' = [job EXCEPT ![p] = job'[p]]
  BY <1>0 DEF UpdateLease, IInv, TypeOK, Job
<1>2. /\ pc'[p] \in {"discard", "acquire"} /\ pc' = [pc EXCEPT ![p] = pc'[p]]
      /\ UNCHANGED <<on, at, admission, files, tree, projects, history>>
      /\ updating' = p
  BY DEF UpdateLease, IInv, TypeOK
<1>3. TypeOK'
  BY <1>1, <1>2 DEF IInv, TypeOK, AdmissionTypeOK, admission, files, projects, history
<1>4. Leased'
  BY <1>2 DEF IInv, Leased, admission
<1>5. ASSUME NEW q \in Programs PROVE (Placed(q) /\ Charged(q) /\ Alone(q) /\ Stocked(q))'
  <2>1. CASE q = p
    BY <1>0, <1>1, <1>2, <2>1 DEF Placed, Charged, Alone, Stocked, Commanded, Maintaining, Job
  <2>2. CASE q # p
    <3>1. UNCHANGED <<pc[q], on[q], at[q], job[q], admission, files, tree, projects>>
      BY <1>1, <1>2, <2>2 DEF IInv, TypeOK
    <3>2. Placed(q) /\ Charged(q) /\ Alone(q) /\ Stocked(q)
      BY DEF IInv
    <3> QED BY <3>1, <3>2
            DEF admission, files, projects, Placed, Charged, Alone, Stocked, Claimed, Pool
  <2> QED BY <2>1, <2>2
<1> QED BY <1>3, <1>4, <1>5 DEF IInv

LEMMA AcquireKeeps ==
    ASSUME IInv, NEW p \in Programs, Acquire(p)
    PROVE  IInv'
<1>1. CASE Fails(p)
  BY <1>1, EndsKeeps
<1>2. CASE /\ AcquireInstallationMaintenance(p) /\ Goto(p, job[p].op)
           /\ UNCHANGED <<files, leases, projects, history>>
  <2> USE DEF AcquireInstallationMaintenance, Goto
  <2>0. /\ pc[p] = "acquire" /\ job[p].op \in Maintaining /\ job[p] \in Job /\ Charged(p)
        /\ gate = None /\ Claimed = {}
    BY <1>2 DEF Acquire, IInv, Charged, Commanded
  <2>1. TypeOK'
    BY <1>2, <2>0 DEF IInv, TypeOK, AdmissionTypeOK, files, leases, projects, history
  <2>2. Leased'
    BY <1>2 DEF IInv, Leased
  <2>3. ASSUME NEW q \in Programs PROVE (Placed(q) /\ Charged(q) /\ Alone(q) /\ Stocked(q))'
    <3>1. CASE q = p
      BY <1>2, <2>0, <3>1 DEF IInv, TypeOK, Job, Placed, Charged, Alone, Stocked, Commanded,
                              Claimed, Maintaining
    <3>2. CASE q # p
      <4>1. UNCHANGED <<pc[q], on[q], at[q], job[q], marker, files, leases, projects>>
        BY <1>2, <3>2 DEF IInv, TypeOK
      <4>2. Placed(q) /\ Charged(q) /\ Alone(q) /\ Stocked(q) /\ gate # q
        BY <2>0, WindowAssumption DEF IInv
      <4> QED BY <4>1, <4>2
              DEF files, leases, projects, Placed, Charged, Alone, Stocked, Claimed, Pool
    <3> QED BY <3>1, <3>2
  <2> QED BY <2>1, <2>2, <2>3 DEF IInv
<1> QED BY <1>1, <1>2 DEF Acquire

-----------------------------------------------------------------------------
(* Commands that have the gate: nobody else has it.                        *)
LEMMA WorkKeeps ==
    ASSUME IInv, NEW p \in Programs, pc[p] \in Maintaining,
           TypeOK', UNCHANGED <<marker, lease, phase>>,
           \A q \in Programs \ {p} : /\ pc'[q] = pc[q] /\ on'[q] = on[q]
                                     /\ at'[q] = at[q] /\ job'[q] = job[q],
           pc'[p] \notin {"begin", "drive", "retire"},
           Charged(p)', Alone(p)', Stocked(p)'
    PROVE  IInv'
<1>1. Leased'
  BY DEF IInv, Leased
<1>2. gate = p
  BY DEF IInv, Alone
<1>3. ASSUME NEW q \in Programs, q # p
      PROVE  (Placed(q) /\ Charged(q) /\ Alone(q) /\ Stocked(q))'
  <2>1. pc[q] \notin Maintaining \cup {"begin"} /\ Placed(q) /\ Charged(q)
    BY <1>2, <1>3 DEF IInv, Placed, Alone
  <2> QED BY <1>3, <2>1 DEF Placed, Charged, Alone, Stocked, Maintaining
<1> QED BY <1>1, <1>3 DEF IInv, Placed

FilesTyped ==
    /\ addon \in [Places -> Versions \cup {None}]
    /\ slot \in [Places -> [Slots -> Directory]]
    /\ manifest \in [Places -> Manifest \cup {None}]
    /\ reset \in Reset \cup {None} /\ removal \in Removal \cup {None}
    /\ replacement \in [Archives -> Replacement \cup {None}]
    /\ cleanup \in [Versions -> BOOLEAN]

LEMMA GotoKeeps ==
    ASSUME IInv, NEW p \in Programs, pc[p] \in Maintaining, NEW to \in Maintaining,
           Goto(p, to), UNCHANGED <<admission, updating, projects>>,
           FilesTyped', tree' \in Programs \cup {None},
           deployed' \in BOOLEAN, UNCHANGED <<pending, commands>>,
           to \in {"replace", "pool", "fill", "convert", "archive"} => job[p].version \in Versions,
           to \in {"move"} \/ job[p].version \in Versions,
           to \notin {"install", "upgrade", "resume"},
           to = "replace" => job[p].op # "reset",
           to \in {"fill", "convert"} => Pool' \in Manifest,
           to = "archive" => reset' \in Reset,
           to \in {"pool", "fill", "convert"} /\ job[p].op = "reset" => reset' \in Reset,
           to = "replace" => tree' = p /\ replacement'[job[p].archive] \in Replacement
    PROVE  IInv'
<1> USE DEF Goto
<1>0. Charged(p) /\ Alone(p) /\ job[p] \in Job
  BY DEF IInv, Charged, Commanded
<1>1. TypeOK'
  BY DEF IInv, TypeOK, AdmissionTypeOK, FilesTyped, admission, projects
<1>2. \A q \in Programs : pc'[q] = IF q = p THEN to ELSE pc[q]
  BY DEF IInv, TypeOK
<1>3. Charged(p)'
  BY <1>0, <1>2 DEF Charged, Commanded, Maintaining
<1>4. Alone(p)'
  BY <1>0, <1>2 DEF Alone, admission, Claimed
<1>5. Stocked(p)'
  BY <1>2 DEF Stocked
<1> QED BY <1>1, <1>2, <1>3, <1>4, <1>5, WorkKeeps DEF admission, projects, Maintaining

LEMMA EndKeeps ==
    ASSUME IInv, NEW p \in Programs, pc[p] \in Maintaining, Ends(p),
           FilesTyped', deployed' \in BOOLEAN, UNCHANGED <<projects, pending, commands>>
    PROVE  IInv'
<1> USE DEF Ends, ProgramEnds
<1>1. UNCHANGED lease
  BY DEF IInv, TypeOK, AdmissionTypeOK, Leased, Alone, Claimed
<1>2. TypeOK'
  BY DEF IInv, TypeOK, AdmissionTypeOK, FilesTyped, projects
<1>3. pc'[p] = "idle"
  BY DEF IInv, TypeOK
<1>4. \A q \in Programs \ {p} : /\ pc'[q] = pc[q] /\ on'[q] = on[q]
                                /\ at'[q] = at[q] /\ job'[q] = job[q]
  BY DEF IInv, TypeOK
<1> HIDE DEF Ends
<1> QED BY <1>1, <1>2, <1>3, <1>4, WorkKeeps
        DEF projects, Ends, Charged, Alone, Stocked, Commanded, Maintaining

LEMMA ConflictKeeps ==
    ASSUME IInv, NEW p \in Programs, pc[p] \in Maintaining, job[p].version \in Versions,
           Conflict(p)
    PROVE  IInv'
<1>1. CASE Fails(p)
  BY <1>1, EndsKeeps
<1>2. CASE /\ LeaveGate(p)
           /\ job' = [job EXCEPT ![p].op = "upgrade"]
           /\ pc' = [pc EXCEPT ![p] = "acquire"]
           /\ UNCHANGED <<on, at, files, leases, projects, history>>
  <2>0. job[p] \in Job
    BY DEF IInv, Charged, Commanded
  <2>1. job' = [job EXCEPT ![p] = [job[p] EXCEPT !.op = "upgrade"]]
    BY <1>2
  <2>2. job'[p] = [job[p] EXCEPT !.op = "upgrade"] /\ job'[p] \in Job
        /\ job'[p].op = "upgrade" /\ job'[p].version = job[p].version /\ pc'[p] = "acquire"
    BY <1>2, <2>0, <2>1 DEF IInv, TypeOK, Job
  <2>3. TypeOK'
    BY <1>2, <2>1, <2>2
       DEF IInv, TypeOK, AdmissionTypeOK, LeaveGate, files, leases, projects, history
  <2>4. \A q \in Programs \ {p} : /\ pc'[q] = pc[q] /\ on'[q] = on[q]
                                  /\ at'[q] = at[q] /\ job'[q] = job[q]
    BY <1>2, <2>1 DEF IInv, TypeOK
  <2>5. (Charged(p) /\ Alone(p) /\ Stocked(p))'
    BY <2>2 DEF Charged, Alone, Stocked, Commanded, Maintaining
  <2> QED BY <1>2, <2>2, <2>3, <2>4, <2>5, WorkKeeps DEF LeaveGate, projects
<1> QED BY <1>1, <1>2 DEF Conflict

LEMMA DeliveredKeeps ==
    ASSUME IInv, NEW p \in Programs, pc[p] \in {"fill", "convert"}, Delivered(p),
           manifest' \in [Places -> Manifest \cup {None}]
    PROVE  IInv'
<1>0. pc[p] \in Maintaining /\ job[p].version \in Versions /\ job[p] \in Job
  BY DEF Maintaining, IInv, Charged, Commanded
<1>1. reset' \in Reset \cup {None}
  BY DEF Delivered, IInv, TypeOK, Stocked, Reset
<1>2. FilesTyped'
  BY <1>1 DEF Delivered, IInv, TypeOK, FilesTyped
<1>3. CASE Ends(p)
  BY <1>0, <1>2, <1>3, EndKeeps DEF Delivered, history, IInv, TypeOK
<1>4. CASE /\ LeaveGate(p) /\ Goto(p, "discard")
           /\ tree' = IF tree = p THEN None ELSE tree
           /\ UNCHANGED updating
  <2> USE DEF Goto
  <2>1. TypeOK'
    BY <1>2, <1>4
       DEF IInv, TypeOK, AdmissionTypeOK, FilesTyped, LeaveGate, Delivered, projects, history
  <2>2. pc'[p] = "discard" /\ job'[p] = job[p]
    BY <1>4 DEF IInv, TypeOK
  <2>3. \A q \in Programs \ {p} : /\ pc'[q] = pc[q] /\ on'[q] = on[q]
                                  /\ at'[q] = at[q] /\ job'[q] = job[q]
    BY <1>4 DEF IInv, TypeOK
  <2>4. (Charged(p) /\ Alone(p) /\ Stocked(p))'
    BY <1>0, <2>2 DEF Charged, Alone, Stocked, Commanded, Maintaining
  <2> QED BY <1>0, <1>4, <2>1, <2>2, <2>3, <2>4, WorkKeeps DEF LeaveGate, Delivered, projects
<1> QED BY <1>3, <1>4 DEF Delivered, Finished

LEMMA InstallFreshKeeps ==
    ASSUME IInv, NEW p \in Programs, InstallFresh(p)
    PROVE  IInv'
<1> DEFINE v == job[p].version
<1>0. /\ pc[p] = "install" /\ pc[p] \in Maintaining /\ v \in Versions
      /\ job[p].op = "install" /\ "pool" \in Maintaining
  BY DEF InstallFresh, Maintaining, IInv, Charged, Commanded
<1>1. CASE /\ addon' = [addon EXCEPT !["installed"] = v]
           /\ deployed' = TRUE
           /\ Goto(p, "pool")
           /\ UNCHANGED <<admission, slot, manifest, reset, removal, replacement,
                          cleanup, leases, projects, pending, commands>>
  <2>1. FilesTyped'
    BY <1>0, <1>1 DEF IInv, TypeOK, FilesTyped
  <2> QED BY <1>0, <1>1, <2>1, GotoKeeps DEF leases, IInv, TypeOK
<1>2. CASE Only(p, "pool", UNCHANGED files)
  <2>1. FilesTyped'
    BY <1>2 DEF IInv, TypeOK, FilesTyped, Only, files
  <2> QED BY <1>0, <1>2, <2>1, GotoKeeps DEF Only, leases, history, IInv, TypeOK
<1>3. CASE Conflict(p)
  BY <1>0, <1>3, ConflictKeeps
<1> QED BY <1>1, <1>2, <1>3 DEF InstallFresh

-----------------------------------------------------------------------------
(* The pool.                                                               *)
LEMMA NewManifestTyped ==
    ASSUME NEW v \in Versions, NEW st \in {"installing", "ready"}
    PROVE  NewManifest(v, st) \in Manifest
BY DEF NewManifest, Manifest

LEMMA InstallSlotPoolKeeps ==
    ASSUME IInv, NEW p \in Programs, InstallSlotPool(p)
    PROVE  IInv'
<1>0. /\ pc[p] = "pool" /\ pc[p] \in Maintaining /\ job[p].version \in Versions
      /\ {"fill", "convert"} \subseteq Maintaining
      /\ job[p].op = "reset" => reset \in Reset
  BY DEF InstallSlotPool, Maintaining, IInv, Charged, Commanded, Stocked
<1>1. CASE Fails(p)
  BY <1>1, EndsKeeps
<1>2. CASE Only(p, "fill", SaveManifest(NewManifest(job[p].version, "installing")))
  <2>1. FilesTyped' /\ Pool' \in Manifest
    BY <1>0, <1>2, NewManifestTyped DEF IInv, TypeOK, FilesTyped, Only, SaveManifest, Pool, Places
  <2>2. reset' = reset
    BY <1>2 DEF Only, SaveManifest
  <2> QED BY <1>0, <1>2, <2>1, <2>2, GotoKeeps DEF Only, leases, history, IInv, TypeOK
<1>3. ASSUME Pool # None, NEW to \in {"fill", "convert"}, Only(p, to, UNCHANGED files)
      PROVE  IInv'
  <2>1. FilesTyped' /\ Pool' \in Manifest /\ reset' = reset
    BY <1>3 DEF IInv, TypeOK, FilesTyped, Only, files, Pool, Places
  <2> QED BY <1>0, <1>3, <2>1, GotoKeeps DEF Only, leases, history, IInv, TypeOK
<1> QED BY <1>1, <1>2, <1>3 DEF InstallSlotPool

LEMMA WriteSlotKeeps ==
    ASSUME IInv, NEW p \in Programs, NEW i \in Slots, NEW d \in Directory,
           pc[p] \in {"fill", "convert"}, Only(p, pc[p], WriteSlot(i, d))
    PROVE  IInv'
<1>0. /\ pc[p] \in Maintaining /\ job[p].version \in Versions
      /\ Pool \in Manifest /\ (job[p].op = "reset" => reset \in Reset)
  BY DEF Maintaining, IInv, Charged, Commanded, Stocked
<1>1. FilesTyped' /\ Pool' = Pool /\ reset' = reset
  BY DEF IInv, TypeOK, FilesTyped, Only, WriteSlot, Pool, Places
<1> QED BY <1>0, <1>1, GotoKeeps DEF Only, leases, history, IInv, TypeOK

LEMMA FillSlotKeeps ==
    ASSUME IInv, NEW p \in Programs, FillSlot(p)
    PROVE  IInv'
<1> DEFINE i == Min(Misfits(Pool.version))
<1>1. i \in Slots
  <2>1. Misfits(Pool.version) \subseteq Slots /\ Misfits(Pool.version) # {}
    BY DEF Misfits, FillSlot
  <2> QED BY <2>1, MinMember
<1>2. pc[p] = "fill" /\ Pool \in Manifest
  BY DEF FillSlot, IInv, Stocked
<1>3. "empty" \in Directory /\ Pool.version \in Directory
  BY <1>2 DEF Directory, Manifest
<1>4. \/ Only(p, "fill", WriteSlot(i, "empty"))
      \/ Only(p, "fill", WriteSlot(i, Pool.version))
      \/ Fails(p)
  BY DEF FillSlot
<1> HIDE DEF i
<1> QED BY <1>1, <1>2, <1>3, <1>4, WriteSlotKeeps, EndsKeeps

LEMMA SaveManifestKeeps ==
    ASSUME IInv, NEW p \in Programs, NEW m \in Manifest,
           pc[p] \in {"fill", "convert"}, Only(p, "convert", SaveManifest(m))
    PROVE  IInv'
<1>0. /\ pc[p] \in Maintaining /\ job[p].version \in Versions /\ "convert" \in Maintaining
      /\ (job[p].op = "reset" => reset \in Reset)
  BY DEF Maintaining, IInv, Charged, Commanded, Stocked
<1>1. FilesTyped' /\ Pool' = m /\ reset' = reset
  BY DEF IInv, TypeOK, FilesTyped, Only, SaveManifest, Pool, Places
<1> QED BY <1>0, <1>1, GotoKeeps DEF Only, leases, history, IInv, TypeOK

LEMMA FinishFillKeeps ==
    ASSUME IInv, NEW p \in Programs, FinishFill(p)
    PROVE  IInv'
<1> DEFINE ready == [Pool EXCEPT !.state = "ready"]
<1>1. pc[p] = "fill" /\ ready \in Manifest
  BY DEF FinishFill, IInv, Stocked, Manifest
<1>2. CASE manifest' = [manifest EXCEPT !["installed"] = ready] /\ Delivered(p)
  <2>1. manifest' \in [Places -> Manifest \cup {None}]
    BY <1>1, <1>2 DEF IInv, TypeOK
  <2> QED BY <1>1, <1>2, <2>1, DeliveredKeeps
<1>3. CASE Only(p, "convert", SaveManifest(ready))
  BY <1>1, <1>3, SaveManifestKeeps
<1> QED BY <1>2, <1>3 DEF FinishFill

LEMMA StartConvertKeeps ==
    ASSUME IInv, NEW p \in Programs, StartConvert(p)
    PROVE  IInv'
<1>1. /\ pc[p] = "convert" /\ pc[p] \in Maintaining /\ job[p].version \in Versions
      /\ Pool \in Manifest
  BY DEF StartConvert, IInv, Charged, Stocked, Commanded, Maintaining
<1>2. [Pool EXCEPT !.state = "upgrading", !.next = job[p].version] \in Manifest
  BY <1>1 DEF Manifest
<1>3. CASE Fails(p)
  BY <1>3, EndsKeeps
<1>4. CASE Conflict(p)
  BY <1>1, <1>4, ConflictKeeps
<1>5. CASE Only(p, "convert", SaveManifest([Pool EXCEPT !.state = "upgrading",
                                                     !.next = job[p].version]))
  BY <1>1, <1>2, <1>5, SaveManifestKeeps
<1> QED BY <1>3, <1>4, <1>5 DEF StartConvert

LEMMA ConvertSlotKeeps ==
    ASSUME IInv, NEW p \in Programs, ConvertSlot(p)
    PROVE  IInv'
<1> DEFINE v == job[p].version
<1>1. pc[p] = "convert" /\ pc[p] \in Maintaining /\ v \in Versions /\ v \in Directory
  BY DEF ConvertSlot, IInv, Charged, Commanded, Maintaining, Directory
<1>2. CASE Fails(p)
  BY <1>2, EndsKeeps
<1>3. CASE Conflict(p)
  BY <1>1, <1>3, ConflictKeeps
<1>4. CASE Misfits(v) # {} /\ Only(p, "convert", WriteSlot(Min(Misfits(v)), v))
  <2>1. Misfits(v) \subseteq Slots
    BY DEF Misfits
  <2>2. Min(Misfits(v)) \in Slots
    BY <1>4, <2>1, MinMember
  <2> QED BY <1>1, <1>4, <2>2, WriteSlotKeeps
<1>5. CASE /\ manifest' = [manifest EXCEPT !["installed"] = NewManifest(v, "ready")]
           /\ Delivered(p)
  <2>1. manifest' \in [Places -> Manifest \cup {None}]
    BY <1>1, <1>5, NewManifestTyped DEF IInv, TypeOK
  <2> QED BY <1>1, <1>5, <2>1, DeliveredKeeps
<1> QED BY <1>2, <1>3, <1>4, <1>5 DEF ConvertSlot

-----------------------------------------------------------------------------
(* Upgrades.                                                               *)
LEMMA UpgradeKeeps ==
    ASSUME IInv, NEW p \in Programs, UpgradeInstallation(p)
    PROVE  IInv'
<1> DEFINE a == job[p].archive
           r == [previous |-> addon["installed"], next |-> job[p].version,
                 old |-> None, new |-> job[p].version]
<1>0. /\ pc[p] = "upgrade" /\ pc[p] \in Maintaining /\ "replace" \in Maintaining
      /\ job[p].version \in Versions /\ a \in Archives /\ job[p].op # "reset"
  BY DEF UpgradeInstallation, IInv, Charged, Commanded, Maintaining, Job
<1>1. CASE Fails(p)
  BY <1>1, EndsKeeps
<1>2. CASE /\ Upgradable(a) /\ SaveReplacement(a, r) /\ tree' = p /\ Goto(p, "replace")
           /\ UNCHANGED <<admission, addon, updating, projects, history>>
  <2>1. r \in Replacement
    BY <1>0, <1>2 DEF Upgradable, Replacement, IInv, TypeOK, Places
  <2>2. FilesTyped' /\ replacement'[a] \in Replacement
    <3> HIDE DEF r, a
    <3> QED BY <1>0, <1>2, <2>1 DEF IInv, TypeOK, FilesTyped, SaveReplacement
  <2> QED BY <1>0, <1>2, <2>2, GotoKeeps DEF history, IInv, TypeOK
<1> QED BY <1>1, <1>2 DEF UpgradeInstallation

LEMMA ResumeUpgradeKeeps ==
    ASSUME IInv, NEW p \in Programs, ResumeUpgrade(p)
    PROVE  IInv'
<1> DEFINE r == replacement[job[p].archive]
<1>0. pc[p] = "resume" /\ pc[p] \in Maintaining /\ job[p] \in Job
      /\ job[p].archive \in Archives /\ job[p].op # "reset"
  BY DEF ResumeUpgrade, IInv, Charged, Commanded, Maintaining, Job
<1>1. CASE Fails(p)
  BY <1>1, EndsKeeps
<1>2. CASE /\ r # None /\ tree' = p
           /\ job' = [job EXCEPT ![p].version = r.next]
           /\ pc' = [pc EXCEPT ![p] = "replace"]
           /\ UNCHANGED <<on, at, admission, files, updating, projects, history>>
  <2>1. r \in Replacement /\ r.next \in Versions
    BY <1>0, <1>2 DEF IInv, TypeOK, Replacement
  <2>2. job' = [job EXCEPT ![p] = [job[p] EXCEPT !.version = r.next]]
    BY <1>2
  <2>3. /\ job'[p] \in Job /\ job'[p].version \in Versions /\ job'[p].archive = job[p].archive
        /\ pc'[p] = "replace" /\ job'[p].op # "reset"
    <3> HIDE DEF r
    <3> QED BY <1>0, <1>2, <2>1, <2>2 DEF IInv, TypeOK, Job
  <2>4. TypeOK'
    BY <1>2, <2>2, <2>3
       DEF IInv, TypeOK, AdmissionTypeOK, Maintaining, admission, files, projects, history
  <2>5. \A q \in Programs \ {p} : /\ pc'[q] = pc[q] /\ on'[q] = on[q]
                                  /\ at'[q] = at[q] /\ job'[q] = job[q]
    BY <1>2, <2>2 DEF IInv, TypeOK
  <2>6. (Charged(p) /\ Stocked(p))'
    BY <1>2, <2>1, <2>3 DEF Charged, Stocked, Commanded, Maintaining, files
  <2>7. Alone(p)'
    BY <1>0, <1>2 DEF IInv, Alone, Claimed, admission
  <2> QED BY <1>0, <1>2, <2>3, <2>4, <2>5, <2>6, <2>7, WorkKeeps DEF admission, projects
<1> QED BY <1>1, <1>2 DEF ResumeUpgrade

LEMMA ReplacementKeeps ==
    ASSUME IInv, NEW p \in Programs, ResumeReplacement(p)
    PROVE  IInv'
<1> DEFINE a == job[p].archive
           r == replacement[a]
<1>0. /\ pc[p] = "replace" /\ pc[p] \in Maintaining /\ {"replace", "pool"} \subseteq Maintaining
      /\ job[p].version \in Versions /\ a \in Archives /\ r \in Replacement /\ tree = p
      /\ job[p].op # "reset"
  BY DEF ResumeReplacement, IInv, Charged, Stocked, Commanded, Maintaining, Job
<1>1. CASE Fails(p)
  BY <1>1, EndsKeeps
<1>2. CASE /\ tree' = None /\ Goto(p, "pool")
           /\ UNCHANGED <<admission, files, updating, projects, history>>
  <2>1. FilesTyped'
    BY <1>2 DEF IInv, TypeOK, FilesTyped, files
  <2> QED BY <1>0, <1>2, <2>1, GotoKeeps DEF history, IInv, TypeOK
<1>3. CASE MoveOld(p, a, r)
  <2>1. [r EXCEPT !.old = addon["installed"]] \in Replacement
    BY <1>0, <1>3 DEF MoveOld, Replacement
  <2>2. FilesTyped' /\ replacement'[a] \in Replacement
    BY <1>0, <1>3, <2>1 DEF MoveOld, Only, IInv, TypeOK, FilesTyped, SaveReplacement
  <2> QED BY <1>0, <1>3, <2>2, GotoKeeps DEF MoveOld, Only, leases, history, IInv, TypeOK
<1>4. CASE MoveNew(p, a, r)
  <2>1. [r EXCEPT !.new = None] \in Replacement /\ r.next \in Versions
    BY <1>0 DEF Replacement
  <2>2. FilesTyped'
    BY <1>0, <1>4, <2>1 DEF MoveNew, IInv, TypeOK, FilesTyped, SaveReplacement
  <2> QED BY <1>0, <1>4, <2>2, GotoKeeps DEF MoveNew, history, IInv, TypeOK
<1> QED BY <1>1, <1>2, <1>3, <1>4 DEF ResumeReplacement

LEMMA DiscardKeeps ==
    ASSUME IInv, NEW p \in Programs, Discard(p)
    PROVE  IInv'
<1> DEFINE v == job[p].version
<1>0. /\ pc[p] = "discard" /\ job[p] \in Job /\ v \in Versions /\ v \in Archives
      /\ tree \in {None, p}
  BY DEF Discard, IInv, Charged, Commanded, Maintaining, Archives
<1>1. CASE Fails(p)
  BY <1>1, EndsKeeps
<1>2. CASE /\ \/ ~cleanup[v] /\ NoteCleanup(v, TRUE)
              \/ /\ cleanup[v] /\ replacement[v] # None
                 /\ replacement' = [replacement EXCEPT ![v] = None]
                 /\ UNCHANGED cleanup
              \/ cleanup[v] /\ replacement[v] = None /\ NoteCleanup(v, FALSE)
           /\ tree' = p /\ Goto(p, "discard")
           /\ UNCHANGED <<admission, addon, slot, manifest, reset, removal, updating,
                          projects, history>>
  <2> USE DEF Goto
  <2>1. TypeOK'
    <3>1. /\ replacement' \in [Archives -> Replacement \cup {None}]
          /\ cleanup' \in [Versions -> BOOLEAN]
      BY <1>0, <1>2 DEF NoteCleanup, IInv, TypeOK
    <3> QED BY <1>2, <3>1 DEF IInv, TypeOK, AdmissionTypeOK, admission, projects, history
  <2>2. Leased'
    BY <1>2 DEF IInv, Leased, admission
  <2>3. ASSUME NEW q \in Programs PROVE (Placed(q) /\ Charged(q) /\ Alone(q) /\ Stocked(q))'
    <3>1. UNCHANGED <<pc[q], on[q], at[q], job[q], admission, manifest, reset, projects>>
      BY <1>0, <1>2 DEF IInv, TypeOK
    <3>2. pc[q] # "replace"
      BY <1>0, WindowAssumption DEF IInv, Stocked
    <3>3. Placed(q) /\ Charged(q) /\ Alone(q) /\ Stocked(q)
      BY DEF IInv
    <3> QED BY <3>1, <3>2, <3>3
            DEF admission, projects, Placed, Charged, Alone, Stocked, Claimed, Pool
  <2> QED BY <2>1, <2>2, <2>3 DEF IInv
<1> QED BY <1>1, <1>2 DEF Discard

-----------------------------------------------------------------------------
(* Removal and reset.                                                      *)
LEMMA MoveSlotTyped ==
    ASSUME TypeOK, NEW S \in SUBSET Slots, S # {}, NEW x \in Places, MoveSlot(Min(S), x)
    PROVE  FilesTyped'
<1>1. PICK i \in Slots : MoveSlot(i, x)
  BY MinMember
<1> DEFINE cut == [slot EXCEPT !["installed"][i] = None]
<1>2. slot \in [Places -> [Slots -> Directory]] /\ "installed" \in Places
  BY DEF TypeOK, Places
<1>3. slot["installed"] \in [Slots -> Directory]
  BY <1>2
<1>4. Slot(i) \in Directory
  BY <1>1, <1>3 DEF Slot
<1>5. [slot["installed"] EXCEPT ![i] = None] \in [Slots -> Directory]
  BY <1>3 DEF Directory
<1>6. cut \in [Places -> [Slots -> Directory]]
  BY <1>2, <1>5
<1>7. [cut[x] EXCEPT ![i] = Slot(i)] \in [Slots -> Directory]
  BY <1>4, <1>6
<1>8. slot' = [cut EXCEPT ![x] = [cut[x] EXCEPT ![i] = Slot(i)]]
  BY <1>1 DEF MoveSlot
<1> HIDE DEF cut
<1>9. slot' \in [Places -> [Slots -> Directory]]
  BY <1>6, <1>7, <1>8
<1> QED BY <1>1, <1>9 DEF TypeOK, FilesTyped, MoveSlot

LEMMA MoveManifestTyped ==
    ASSUME TypeOK, NEW x \in Places, MoveManifest(x)
    PROVE  FilesTyped'
BY DEF TypeOK, FilesTyped, MoveManifest, Pool, Places

LEMMA MoveAddonKeeps ==
    ASSUME IInv, NEW p \in Programs, pc[p] \in Maintaining, MoveAddon(p)
    PROVE  IInv'
<1>1. FilesTyped'
  BY DEF MoveAddon, IInv, TypeOK, FilesTyped, Places
<1> QED BY <1>1, EndKeeps DEF MoveAddon

LEMMA RemoveKeeps ==
    ASSUME IInv, NEW p \in Programs, Remove(p)
    PROVE  IInv'
<1>0. pc[p] \in Maintaining /\ "move" \in Maintaining
  BY DEF Remove, Maintaining
<1>1. CASE Fails(p)
  BY <1>1, EndsKeeps
<1>2. CASE Only(p, "move", UNCHANGED files)
  <2>1. FilesTyped'
    BY <1>2 DEF IInv, TypeOK, FilesTyped, Only, files
  <2> QED BY <1>0, <1>2, <2>1, GotoKeeps DEF Only, leases, history, IInv, TypeOK
<1>3. CASE MoveAddon(p)
  BY <1>0, <1>3, MoveAddonKeeps
<1>4. CASE /\ Removable
           /\ Only(p, "move",
                 /\ removal' = [version |-> addon["installed"], manifest |-> Pool]
                 /\ UNCHANGED <<addon, slot, manifest, reset, replacement, cleanup>>)
  <2>1. [version |-> addon["installed"], manifest |-> Pool] \in Removal
    BY <1>4 DEF Removable, Inspected, Removal, IInv, TypeOK, Pool, Places
  <2>2. FilesTyped'
    BY <1>4, <2>1 DEF IInv, TypeOK, FilesTyped, Only
  <2> QED BY <1>0, <1>4, <2>2, GotoKeeps DEF Only, leases, history, IInv, TypeOK
<1> QED BY <1>1, <1>2, <1>3, <1>4 DEF Remove

LEMMA MoveKeeps ==
    ASSUME IInv, NEW p \in Programs, Move(p)
    PROVE  IInv'
<1> DEFINE left == {i \in Slots : Slot(i) # None}
<1>0. pc[p] = "move" /\ pc[p] \in Maintaining /\ "removed" \in Places
  BY DEF Move, Maintaining, Places
<1>1. CASE Fails(p)
  BY <1>1, EndsKeeps
<1>2. CASE MoveAddon(p)
  BY <1>0, <1>2, MoveAddonKeeps
<1>3. ASSUME Goto(p, "move"), FilesTyped',
             UNCHANGED <<admission, leases, projects, history>>
      PROVE  IInv'
  BY <1>0, <1>3, GotoKeeps DEF leases, history, IInv, TypeOK
<1>4. CASE left # {} /\ Only(p, "move", MoveSlot(Min(left), "removed"))
  <2>1. left \in SUBSET Slots
    OBVIOUS
  <2> HIDE DEF left
  <2>2. FilesTyped'
    BY <1>0, <1>4, <2>1, MoveSlotTyped DEF Only, IInv
  <2> QED BY <1>3, <1>4, <2>2 DEF Only
<1>5. CASE Only(p, "move", MoveManifest("removed"))
  <2>1. FilesTyped'
    BY <1>0, <1>5, MoveManifestTyped DEF Only, IInv
  <2> QED BY <1>3, <1>5, <2>1 DEF Only
<1> QED BY <1>1, <1>2, <1>4, <1>5 DEF Move

LEMMA BeginResetKeeps ==
    ASSUME IInv, NEW p \in Programs, BeginReset(p)
    PROVE  IInv'
<1> DEFINE v == job[p].version
           found == [version |-> v, phase |-> "archiving",
                     slot |-> slot["installed"], manifest |-> Pool]
<1>0. /\ pc[p] = "reset" /\ pc[p] \in Maintaining /\ {"archive", "pool"} \subseteq Maintaining
      /\ v \in Versions
  BY DEF BeginReset, IInv, Charged, Commanded, Maintaining
<1>1. CASE Fails(p)
  BY <1>1, EndsKeeps
<1>2. CASE Only(p, "archive", /\ reset' = found
                              /\ UNCHANGED <<addon, slot, manifest, removal, replacement,
                                             cleanup>>)
  <2>1. found \in Reset
    BY <1>0 DEF Reset, IInv, TypeOK, Pool, Places
  <2>2. FilesTyped' /\ reset' \in Reset
    <3> HIDE DEF found
    <3> QED BY <1>2, <2>1 DEF IInv, TypeOK, FilesTyped, Only
  <2> QED BY <1>0, <1>2, <2>2, GotoKeeps DEF Only, leases, history, IInv, TypeOK
<1>3. ASSUME reset # None, NEW to \in {"archive", "pool"}, Only(p, to, UNCHANGED files)
      PROVE  IInv'
  <2>1. FilesTyped' /\ reset' \in Reset
    BY <1>3 DEF IInv, TypeOK, FilesTyped, Only, files
  <2> QED BY <1>0, <1>3, <2>1, GotoKeeps DEF Only, leases, history, IInv, TypeOK
<1> QED BY <1>1, <1>2, <1>3 DEF BeginReset

LEMMA ArchiveResetKeeps ==
    ASSUME IInv, NEW p \in Programs, ArchiveReset(p)
    PROVE  IInv'
<1> DEFINE left == {i \in Slots : Slot(i) # None}
<1>0. /\ pc[p] = "archive" /\ pc[p] \in Maintaining /\ "pool" \in Maintaining
      /\ job[p].version \in Versions /\ "reset" \in Places /\ reset \in Reset
  BY DEF ArchiveReset, IInv, Charged, Stocked, Commanded, Maintaining, Places
<1>1. ASSUME NEW to \in {"archive", "pool"}, Goto(p, to), FilesTyped', reset' \in Reset,
             UNCHANGED <<admission, leases, projects, history>>
      PROVE  IInv'
  BY <1>0, <1>1, GotoKeeps DEF leases, history, IInv, TypeOK
<1>2. CASE left # {} /\ Only(p, "archive", MoveSlot(Min(left), "reset"))
  <2>1. left \in SUBSET Slots
    OBVIOUS
  <2> HIDE DEF left
  <2>2. FilesTyped' /\ reset' = reset
    BY <1>0, <1>2, <2>1, MoveSlotTyped DEF Only, IInv, MoveSlot
  <2> QED BY <1>0, <1>1, <1>2, <2>2 DEF Only
<1>3. CASE Only(p, "archive", MoveManifest("reset"))
  <2>1. FilesTyped' /\ reset' = reset
    BY <1>0, <1>3, MoveManifestTyped DEF Only, IInv, MoveManifest
  <2> QED BY <1>0, <1>1, <1>3, <2>1 DEF Only
<1>4. CASE Only(p, "pool", /\ reset' = [reset EXCEPT !.phase = "installing"]
                           /\ UNCHANGED <<addon, slot, manifest, removal, replacement,
                                          cleanup>>)
  <2>1. reset' \in Reset
    BY <1>0, <1>4 DEF Only, Reset
  <2>2. FilesTyped'
    BY <1>4, <2>1 DEF IInv, TypeOK, FilesTyped, Only
  <2> QED BY <1>1, <1>4, <2>1, <2>2 DEF Only
<1> QED BY <1>2, <1>3, <1>4 DEF ArchiveReset

-----------------------------------------------------------------------------
LEMMA StepKeeps == IInv /\ [Next]_vars => IInv'
<1> SUFFICES ASSUME IInv, [Next]_vars PROVE IInv' OBVIOUS
<1>1. ASSUME NEW p \in Programs, Connection(p) PROVE IInv'
  BY <1>1, BeginKeeps, DriveKeeps, ClaimKeeps, ReserveKeeps, CloseKeeps, RetireKeeps
     DEF Connection
<1>2. ASSUME NEW p \in Programs, Maintenance(p) PROVE IInv'
  BY <1>2, CommandKeeps, UpdateLeaseKeeps, AcquireKeeps, InstallFreshKeeps,
     InstallSlotPoolKeeps, FillSlotKeeps, FinishFillKeeps, StartConvertKeeps, ConvertSlotKeeps,
     UpgradeKeeps, ResumeUpgradeKeeps, ReplacementKeeps, DiscardKeeps, RemoveKeeps, MoveKeeps,
     BeginResetKeeps, ArchiveResetKeeps
     DEF Maintenance
<1>3. ASSUME NEW p \in Programs, Crash(p) PROVE IInv'
  BY <1>3, EndsKeeps DEF Crash
<1>4. CASE UNCHANGED vars
  BY <1>4 DEF vars, admission, files, leases, projects, programs, history, IInv, TypeOK,
              AdmissionTypeOK, Leased, Placed, Charged, Alone, Stocked, Claimed, Pool
<1> QED BY <1>1, <1>2, <1>3, <1>4 DEF Next

LEMMA Invariance == Spec => []IInv
BY InitInv, StepKeeps, PTL DEF Spec

(* Types: files, claims, locks and programs keep theirs.                   *)
THEOREM Typing == Spec => []TypeOK
<1>1. IInv => TypeOK
  BY DEF IInv
<1> QED BY <1>1, Invariance, PTL

(* A command that changes the installation never meets a connection.       *)
THEOREM MaintenanceExcludes == Spec => []MaintenanceAlone
<1>1. IInv => MaintenanceAlone
  BY DEF IInv, Alone, Leased, Claimed, MaintenanceAlone
<1> QED BY <1>1, Invariance, PTL

-----------------------------------------------------------------------------
(* Claims change only in two steps.                                        *)
LEMMA ClaimSteps ==
    ASSUME IInv, [Next]_vars
    PROVE  \/ UNCHANGED <<marker, phase>>
           \/ \E p \in Programs : Claim(p) /\ publishWindowOwner(p, at[p], on[p])
           \/ \E p \in Programs : Close(p) /\ UNCHANGED marker
           \/ \E p \in Programs : Retire(p)
<1>1. CASE UNCHANGED vars
  BY <1>1 DEF vars, admission, projects
<1>2. ASSUME NEW p \in Programs, Crash(p) PROVE UNCHANGED <<marker, phase>>
  BY <1>2 DEF Crash, Fails, Ends, ProgramEnds, projects
<1>3. ASSUME NEW p \in Programs, Fails(p) PROVE UNCHANGED <<marker, phase>>
  BY <1>3 DEF Fails, Ends, ProgramEnds, projects
<1>4. ASSUME NEW p \in Programs, NEW to, NEW F, Only(p, to, F)
      PROVE  UNCHANGED <<marker, phase>>
  BY <1>4 DEF Only, admission, projects
<1>5. ASSUME NEW p \in Programs, Connection(p)
      PROVE  \/ UNCHANGED <<marker, phase>>
             \/ Claim(p) /\ publishWindowOwner(p, at[p], on[p])
             \/ Close(p) /\ UNCHANGED marker
             \/ Retire(p)
  <2>1. CASE Claim(p)
    BY <1>3, <2>1 DEF Claim
  <2>2. CASE Close(p)
    BY <2>2 DEF Close, Unlock
  <2>3. CASE Reserve(p) \/ Resolve(p)
    BY <2>3 DEF Reserve, Resolve, admission
  <2>4. ASSUME NEW w \in Windows, NEW c \in Conns,
               Begin(p, w, c) \/ Drive(p, w, c) \/ Finish(p, w, c)
        PROVE  UNCHANGED <<marker, phase>>
    BY <2>4 DEF Begin, Drive, Finish, EnterGate, LockBootstrapWindow, admission, projects
  <2> QED BY <1>5, <2>1, <2>2, <2>3, <2>4 DEF Connection
<1>6. ASSUME NEW p \in Programs, Maintenance(p) PROVE UNCHANGED <<marker, phase>>
  <2>1. ASSUME Ends(p) \/ Finished(p) PROVE UNCHANGED marker
    BY <2>1 DEF Ends, ProgramEnds, Finished, LeaveGate
  <2>2. ASSUME Conflict(p) PROVE UNCHANGED <<marker, phase>>
    BY <1>3, <2>2 DEF Conflict, LeaveGate, projects
  <2>3. ASSUME MoveAddon(p) \/ Delivered(p) PROVE UNCHANGED <<marker, phase>>
    BY <2>1, <2>3 DEF MoveAddon, Delivered, projects
  <2>4. CASE Command(p) \/ \E v \in Versions : UpdateManaged(p, v)
    BY <2>4 DEF Command, UpdateManaged, Ask, admission, projects
  <2>5. CASE UpdateLease(p) \/ Acquire(p) \/ InstallFresh(p)
    BY <1>3, <1>4, <2>2, <2>5
       DEF UpdateLease, Acquire, AcquireInstallationMaintenance, InstallFresh, admission, projects
  <2>6. CASE InstallSlotPool(p) \/ FillSlot(p) \/ FinishFill(p)
    BY <1>3, <1>4, <2>3, <2>6 DEF InstallSlotPool, FillSlot, FinishFill
  <2>7. CASE StartConvert(p) \/ ConvertSlot(p)
    BY <1>3, <1>4, <2>2, <2>3, <2>7 DEF StartConvert, ConvertSlot
  <2>8. CASE UpgradeInstallation(p) \/ ResumeUpgrade(p)
    BY <1>3, <2>8 DEF UpgradeInstallation, ResumeUpgrade, admission, projects
  <2>9. CASE ResumeReplacement(p)
    BY <1>3, <1>4, <2>9 DEF ResumeReplacement, MoveOld, MoveNew, admission, projects
  <2>10. CASE Discard(p)
    BY <1>3, <2>10 DEF Discard, admission, projects
  <2>11. CASE Remove(p) \/ Move(p)
    BY <1>3, <1>4, <2>3, <2>11 DEF Remove, Move
  <2>12. CASE BeginReset(p) \/ ArchiveReset(p)
    BY <1>3, <1>4, <2>12 DEF BeginReset, ArchiveReset
  <2> QED BY <1>6, <2>4, <2>5, <2>6, <2>7, <2>8, <2>9, <2>10, <2>11, <2>12 DEF Maintenance
<1> QED BY <1>1, <1>2, <1>5, <1>6 DEF Next

(* A game process is claimed by one connection: the claim is published     *)
(* under the gate, after a look at the other windows of the process.       *)
THEOREM OneClaim == Spec => []OneClaimPerProcess
<1>1. Init => OneClaimPerProcess
  BY DEF Init, AdmissionInit, OneClaimPerProcess, Claimed
<1>2. IInv /\ OneClaimPerProcess /\ [Next]_vars => OneClaimPerProcess'
  <2> SUFFICES ASSUME IInv, OneClaimPerProcess, [Next]_vars PROVE OneClaimPerProcess'
    OBVIOUS
  <2>0. marker \in [Windows -> Conns \cup {None}]
    BY DEF IInv, TypeOK, AdmissionTypeOK
  <2>1. CASE UNCHANGED marker
    BY <2>1 DEF OneClaimPerProcess, Claimed
  <2>2. ASSUME NEW p \in Programs, publishWindowOwner(p, at[p], on[p])
        PROVE  OneClaimPerProcess'
    BY <2>0, <2>2 DEF publishWindowOwner, Siblings, OneClaimPerProcess, Claimed
  <2>3. ASSUME NEW p \in Programs, Retire(p) PROVE OneClaimPerProcess'
    BY <2>0, <2>3 DEF Retire, RetireConnectionWindow, OneClaimPerProcess, Claimed
  <2> QED BY <2>1, <2>2, <2>3, ClaimSteps
<1> QED BY <1>1, <1>2, Invariance, PTL DEF Spec

(* A connection keeps its window until it is over.                         *)
THEOREM ClaimKept == Spec => ClaimLostWhenOver
<1>1. IInv /\ [Next]_vars =>
        [\A w \in Windows :
            marker[w] # None /\ marker'[w] # marker[w] => phase[marker[w]] = "over"]_vars
  <2> SUFFICES ASSUME IInv, [Next]_vars, NEW w \in Windows,
                      marker[w] # None, marker'[w] # marker[w]
               PROVE  phase[marker[w]] = "over"
    OBVIOUS
  <2>0. marker \in [Windows -> Conns \cup {None}]
    BY DEF IInv, TypeOK, AdmissionTypeOK
  <2>1. ASSUME NEW p \in Programs, Claim(p), publishWindowOwner(p, at[p], on[p]) PROVE FALSE
    BY <2>0, <2>1 DEF IInv, Placed, Claim, publishWindowOwner
  <2>2. ASSUME NEW p \in Programs, Retire(p) PROVE phase[marker[w]] = "over"
    BY <2>0, <2>2 DEF IInv, Placed, Retire, RetireConnectionWindow
  <2> QED BY <2>1, <2>2, ClaimSteps
<1> QED BY <1>1, Invariance, PTL DEF Spec, ClaimLostWhenOver

-----------------------------------------------------------------------------
(* The addon and the journals of upgrades.                                 *)
LEMMA AddonSteps ==
    ASSUME IInv, [Next]_vars
    PROVE  \/ UNCHANGED <<addon, replacement, deployed>>
           \/ addon'["installed"] # None
           \/ ~deployed'
           \/ \E p \in Programs :
                 pc[p] = "replace" /\ MoveOld(p, job[p].archive, replacement[job[p].archive])
<1> DEFINE same == UNCHANGED <<addon, replacement, deployed>>
           there == addon'["installed"] # None
<1>0. addon \in [Places -> Versions \cup {None}] /\ "installed" \in Places
  BY DEF IInv, TypeOK, Places
<1>1. CASE UNCHANGED vars
  BY <1>1 DEF vars, files, history
<1>2. ASSUME NEW p \in Programs, Fails(p) PROVE same
  BY <1>2 DEF Fails, files, history
<1>3. ASSUME NEW p \in Programs, Crash(p) PROVE same
  BY <1>2, <1>3 DEF Crash
<1>4. ASSUME NEW p \in Programs, NEW to, Only(p, to, UNCHANGED files) PROVE same
  BY <1>4 DEF Only, files, history
<1>5. ASSUME NEW p \in Programs, Connection(p) PROVE same
  <2>1. CASE Claim(p)
    BY <1>2, <2>1 DEF Claim, files, history
  <2>2. CASE Reserve(p) \/ Resolve(p) \/ Close(p) \/ Retire(p)
    BY <2>2 DEF Reserve, Resolve, Close, Retire, files, history
  <2>3. ASSUME NEW w \in Windows, NEW c \in Conns,
               Begin(p, w, c) \/ Drive(p, w, c) \/ Finish(p, w, c)
        PROVE  same
    BY <2>3 DEF Begin, Drive, Finish, files, history
  <2> QED BY <1>5, <2>1, <2>2, <2>3 DEF Connection
<1>6. ASSUME NEW p \in Programs, Maintenance(p)
      PROVE  \/ same \/ there \/ ~deployed'
             \/ pc[p] = "replace" /\ MoveOld(p, job[p].archive, replacement[job[p].archive])
  <2>1. ASSUME NEW to, NEW m, Only(p, to, SaveManifest(m)) PROVE same
    BY <2>1 DEF Only, SaveManifest, history
  <2>2. ASSUME NEW to, NEW i, NEW d, Only(p, to, WriteSlot(i, d)) PROVE same
    BY <2>2 DEF Only, WriteSlot, history
  <2>3. ASSUME Delivered(p) PROVE same
    BY <2>3 DEF Delivered, history
  <2>4. ASSUME Conflict(p) PROVE same
    BY <1>2, <2>4 DEF Conflict, files, history
  <2>5. CASE Command(p) \/ \E v \in Versions : UpdateManaged(p, v)
    BY <2>5 DEF Command, UpdateManaged, Ask, files
  <2>6. CASE UpdateLease(p)
    BY <2>6 DEF UpdateLease, files, history
  <2>7. CASE Acquire(p)
    BY <1>2, <2>7 DEF Acquire, files, history
  <2>8. CASE InstallFresh(p)
    <3>1. pc[p] \in Maintaining /\ job[p].version \in Versions /\ None \notin Versions
      BY <2>8, DeliveryAssumption DEF InstallFresh, IInv, Charged, Commanded, Maintaining
    <3> QED BY <1>0, <1>4, <2>4, <2>8, <3>1 DEF InstallFresh
  <2>9. CASE InstallSlotPool(p) \/ FillSlot(p)
    BY <1>2, <1>4, <2>1, <2>2, <2>9 DEF InstallSlotPool, FillSlot
  <2>10. CASE FinishFill(p)
    BY <2>1, <2>3, <2>10 DEF FinishFill
  <2>11. CASE StartConvert(p) \/ ConvertSlot(p)
    BY <1>2, <2>1, <2>2, <2>3, <2>4, <2>11 DEF StartConvert, ConvertSlot
  <2>12. CASE UpgradeInstallation(p) \/ ResumeUpgrade(p)
    BY <1>2, <2>12 DEF UpgradeInstallation, ResumeUpgrade, Upgradable, files, history
  <2>13. CASE ResumeReplacement(p)
    <3> DEFINE r == replacement[job[p].archive]
    <3>1. pc[p] = "replace" /\ r.next \in Versions /\ None \notin Versions
      BY <2>13, DeliveryAssumption DEF ResumeReplacement, IInv, Stocked, Replacement
    <3>2. CASE MoveNew(p, job[p].archive, r)
      BY <1>0, <3>1, <3>2 DEF MoveNew
    <3>3. ASSUME tree' = None, UNCHANGED <<files, history>> PROVE same
      BY <3>3 DEF files, history
    <3> QED BY <1>2, <2>13, <3>1, <3>2, <3>3 DEF ResumeReplacement
  <2>14. CASE Discard(p)
    <3>1. job[p].version \in Versions /\ None \notin Versions
      BY <2>14, DeliveryAssumption DEF Discard, IInv, Charged, Commanded, Maintaining
    <3> QED BY <1>2, <2>14, <3>1 DEF Discard, Discardable
  <2>15. ASSUME MoveAddon(p) PROVE ~deployed'
    BY <2>15 DEF MoveAddon
  <2>16. CASE Remove(p)
    <3>1. CASE Fails(p) \/ Only(p, "move", UNCHANGED files) \/ MoveAddon(p)
      BY <1>2, <1>4, <2>15, <3>1
    <3>2. CASE Only(p, "move",
                 /\ removal' = [version |-> addon["installed"], manifest |-> Pool]
                 /\ UNCHANGED <<addon, slot, manifest, reset, replacement, cleanup>>)
      BY <3>2 DEF Only, history
    <3> QED BY <2>16, <3>1, <3>2 DEF Remove
  <2>17. ASSUME NEW x, NEW to, Only(p, to, MoveManifest(x)) PROVE same
    BY <2>17 DEF Only, MoveManifest, history
  <2>18. ASSUME NEW x, NEW i, NEW to, Only(p, to, MoveSlot(i, x)) PROVE same
    BY <2>18 DEF Only, MoveSlot, history
  <2>19. CASE Move(p)
    BY <1>2, <2>15, <2>17, <2>18, <2>19 DEF Move
  <2>20. CASE BeginReset(p)
    <3>1. CASE Only(p, "archive",
                 /\ reset' = [version |-> job[p].version, phase |-> "archiving",
                              slot |-> slot["installed"], manifest |-> Pool]
                 /\ UNCHANGED <<addon, slot, manifest, removal, replacement, cleanup>>)
      BY <3>1 DEF Only, history
    <3> QED BY <1>2, <1>4, <2>20, <3>1 DEF BeginReset
  <2>21. CASE ArchiveReset(p)
    <3>1. CASE Only(p, "pool", /\ reset' = [reset EXCEPT !.phase = "installing"]
                             /\ UNCHANGED <<addon, slot, manifest, removal, replacement,
                                            cleanup>>)
      BY <3>1 DEF Only, history
    <3> QED BY <2>17, <2>18, <2>21, <3>1 DEF ArchiveReset
  <2> QED BY <1>6, <2>5, <2>6, <2>7, <2>8, <2>9, <2>10, <2>11, <2>12, <2>13, <2>14, <2>16,
             <2>19, <2>20, <2>21 DEF Maintenance
<1> QED BY <1>1, <1>3, <1>5, <1>6 DEF Next

(* An upgrade that stops anywhere can be finished: the addon is there, or  *)
(* its journal has the old tree and the whole new one.                     *)
THEOREM AddonSurvives == Spec => []AddonRecoverable
<1>1. Init => AddonRecoverable
  BY DEF Init, AddonRecoverable
<1>2. IInv /\ AddonRecoverable /\ [Next]_vars => AddonRecoverable'
  <2> SUFFICES ASSUME IInv, AddonRecoverable, [Next]_vars PROVE AddonRecoverable'
    OBVIOUS
  <2>1. CASE \/ UNCHANGED <<addon, replacement, deployed>>
             \/ addon'["installed"] # None
             \/ ~deployed'
    BY <2>1 DEF AddonRecoverable
  <2>2. ASSUME NEW p \in Programs, pc[p] = "replace",
               MoveOld(p, job[p].archive, replacement[job[p].archive])
        PROVE  AddonRecoverable'
    <3> DEFINE a == job[p].archive
               r == replacement[a]
    <3>1. a \in Archives /\ r \in Replacement
      BY <2>2 DEF IInv, Charged, Stocked, Commanded, Maintaining, Job
    <3>2. replacement' = [replacement EXCEPT ![a] = [r EXCEPT !.old = addon["installed"]]]
      BY <2>2 DEF MoveOld, Only, SaveReplacement
    <3>3. r.new = r.next /\ addon["installed"] = r.previous
      BY <2>2 DEF MoveOld
    <3>4. replacement'[a] = [r EXCEPT !.old = r.previous]
      BY <3>1, <3>2, <3>3 DEF IInv, TypeOK
    <3>5. /\ replacement'[a] \in Replacement /\ None \notin Replacement
          /\ replacement'[a].old = replacement'[a].previous
          /\ replacement'[a].new = replacement'[a].next
      BY <3>1, <3>3, <3>4, NoneIsNoRecord DEF Replacement
    <3> QED BY <3>1, <3>5 DEF AddonRecoverable
  <2> QED BY <2>1, <2>2, AddonSteps
<1> QED BY <1>1, <1>2, Invariance, PTL DEF Spec

-----------------------------------------------------------------------------
(* The pool.  An inductive invariant of the files: what a reset and a      *)
(* removal have taken and what is left, beside what the theorems state.    *)
\* A reset takes what it has noted, and has all of it when it installs.
ResetTold ==
    IF reset = None
    THEN manifest["reset"] = None /\ \A i \in Slots : slot["reset"][i] = None
    ELSE /\ manifest["reset"] \in {None, reset.manifest}
         /\ \A i \in Slots : slot["reset"][i] \in {None, reset.slot[i]}
         /\ reset.phase # "archiving" =>
              slot["reset"] = reset.slot /\ manifest["reset"] = reset.manifest

\* A removal takes a pool without reservations, and the addon last.
RemovalTold ==
    IF removal = None
    THEN manifest["removed"] = None /\ \A i \in Slots : slot["removed"][i] = None
    ELSE /\ Unresolved(removal.manifest) = {}
         /\ addon["removed"] # None => manifest["removed"] # None

\* Slots are only reserved in a pool that is ready.
UnreadyUnreserved == Pool # None /\ Pool.state # "ready" => Unresolved(Pool) = {}

\* What a program relies on from one step to the next.
Working(p) ==
    /\ pc[p] = "drive" => lease[at[p]] = p
    /\ pc[p] = "archive" =>
         reset # None /\ reset.phase = "archiving" /\ ArchivingKept
    /\ pc[p] \in {"pool", "fill", "convert"} /\ job[p].op = "reset" =>
         reset.phase = "installing"
    /\ pc[p] = "move" => removal # None /\ RemovalKept

\* A reset that was left with part of the pool in its archive.  Until the
\* manifest is in it, one slot that is in it is not in the pool; a removal
\* that goes on then takes the rest, and no pool that is ready can be taken
\* for the one that was found again.
Half ==
    /\ reset # None /\ reset.phase = "archiving" /\ Archiving
    /\ reset.manifest # None /\ reset.manifest.state # "installing"

TakenWhole ==
    manifest["reset"] = reset.manifest /\ slot["reset"] = reset.slot

TakenPart ==
    /\ Pool = reset.manifest /\ manifest["reset"] = None
    /\ \A i \in Slots :
         \/ slot["reset"][i] = reset.slot[i]
         \/ reset.slot[i] # None /\ reset.slot[i] \in {Slot(i), slot["removed"][i]}
    /\ \E j \in Slots : slot["reset"][j] # None /\ Slot(j) \in {None, "empty"}

TakenByBoth ==
    /\ manifest["removed"] = reset.manifest /\ manifest["reset"] = None
    /\ \A i \in Slots :
         \/ slot["reset"][i] = reset.slot[i]
         \/ reset.slot[i] # None /\ reset.slot[i] = slot["removed"][i]
    /\ \E j \in Slots :
         /\ slot["reset"][j] # None
         /\ Pool # None /\ Pool.state # "installing" => Slot(j) # None

HalfKept == Half => TakenWhole \/ TakenPart \/ TakenByBoth

FilesKept ==
    /\ ResetTold /\ RemovalTold /\ UnreadyUnreserved /\ HalfKept
    /\ ReadyIsWhole /\ ReservationsKept

PoolKept == FilesKept /\ \A p \in Programs : Working(p)

\* What a step of a program leaves alone.
OthersStay(p) ==
    /\ \A q \in Programs \ {p} : pc'[q] = pc[q] /\ at'[q] = at[q] /\ job'[q] = job[q]
    /\ \A w \in Windows : lease[w] \notin {None, p} => lease'[w] = lease[w]

NoFiles == UNCHANGED <<addon, slot, manifest, reset, removal>>

LEMMA OthersWork ==
    ASSUME IInv, \A q \in Programs : Working(q), NEW p \in Programs, OthersStay(p),
           pc[p] \in Maintaining \cup {"drive"} \/ NoFiles
    PROVE  \A q \in Programs \ {p} : Working(q)'
<1> SUFFICES ASSUME NEW q \in Programs \ {p} PROVE Working(q)'
  OBVIOUS
<1>1. pc'[q] = pc[q] /\ at'[q] = at[q] /\ job'[q] = job[q] /\ Working(q)
  BY DEF OthersStay
<1>2. pc[q] = "drive" => lease'[at[q]] = q
  <2> SUFFICES ASSUME pc[q] = "drive" PROVE lease'[at[q]] = q
    OBVIOUS
  <2>1. at[q] \in Windows /\ lease[at[q]] = q
    BY <1>1 DEF IInv, Placed, Working
  <2>2. q \notin {None, p}
    BY WindowAssumption
  <2> QED BY <2>1, <2>2 DEF OthersStay
<1>3. CASE NoFiles
  <2>1. /\ pc[q] = "archive" => (ArchivingKept)' /\ (reset # None /\ reset.phase = "archiving")'
        /\ pc[q] = "move" => (removal # None /\ RemovalKept)'
        /\ pc[q] \in {"pool", "fill", "convert"} /\ job[q].op = "reset" =>
             (reset.phase = "installing")'
    BY <1>1, <1>3 DEF NoFiles, Working, ArchivingKept, RemovalKept, Kept, Pool, Slot
  <2> QED BY <1>1, <1>2, <2>1 DEF Working
<1>4. CASE pc[p] \in Maintaining \cup {"drive"}
  <2>1. pc[q] \notin Maintaining
    <3> SUFFICES ASSUME pc[q] \in Maintaining PROVE FALSE
      OBVIOUS
    <3>1. gate = q /\ Claimed = {}
      BY DEF IInv, Alone
    <3>2. CASE pc[p] \in Maintaining
      BY <3>1, <3>2 DEF IInv, Alone
    <3>3. CASE pc[p] = "drive"
      <4>1. at[p] \in Windows /\ lease[at[p]] = p
        BY <3>3 DEF IInv, Placed, Working
      <4>2. marker[at[p]] # None
        BY <4>1, WindowAssumption DEF IInv, Leased
      <4> QED BY <3>1, <4>1, <4>2 DEF Claimed
    <3> QED BY <1>4, <3>2, <3>3
  <2> QED BY <1>1, <1>2, <2>1 DEF Working, Maintaining
<1> QED BY <1>3, <1>4

LEMMA StillKeeps ==
    ASSUME FilesKept, UNCHANGED <<slot, manifest, reset, removal, pending>>,
           addon'["removed"] = addon["removed"]
    PROVE  FilesKept'
BY DEF FilesKept, ResetTold, RemovalTold, UnreadyUnreserved, HalfKept, Half, TakenWhole,
       TakenPart, TakenByBoth, ReadyIsWhole, OnItsWay, Archiving, ReservationsKept, Fits,
       Slot, Pool, Unresolved

LEMMA EndsStay ==
    ASSUME IInv, NEW p \in Programs, Ends(p)
    PROVE  OthersStay(p) /\ pc'[p] = "idle"
BY DEF IInv, TypeOK, AdmissionTypeOK, Ends, ProgramEnds, OthersStay

LEMMA GotoStays ==
    ASSUME IInv, NEW p \in Programs, NEW to, Goto(p, to), UNCHANGED lease
    PROVE  /\ OthersStay(p)
           /\ pc'[p] = to /\ at'[p] = at[p] /\ job'[p] = job[p]
BY DEF IInv, TypeOK, Goto, OthersStay

LEMMA FailsStay ==
    ASSUME IInv, PoolKept, NEW p \in Programs, Fails(p)
    PROVE  PoolKept'
<1>1. OthersStay(p) /\ pc'[p] = "idle"
  BY EndsStay DEF Fails
<1>2. NoFiles /\ FilesKept'
  BY StillKeeps DEF Fails, files, history, PoolKept, NoFiles
<1>3. Working(p)'
  BY <1>1 DEF Working
<1> QED BY <1>1, <1>2, <1>3, OthersWork DEF PoolKept

\* A step of a program that leaves the files as they are.
LEMMA QuietStep ==
    ASSUME IInv, PoolKept, NEW p \in Programs, OthersStay(p), NoFiles, UNCHANGED pending,
           Working(p)'
    PROVE  PoolKept'
<1>1. FilesKept'
  BY StillKeeps DEF NoFiles, PoolKept
<1> QED BY <1>1, OthersWork DEF PoolKept

LEMMA BusyStep ==
    ASSUME IInv, PoolKept, NEW p \in Programs, OthersStay(p),
           pc[p] \in Maintaining \cup {"drive"}, FilesKept', Working(p)'
    PROVE  PoolKept'
BY OthersWork DEF PoolKept

-----------------------------------------------------------------------------
(* What saving a manifest and writing a slot keep.                         *)
Saves(m) ==
    /\ manifest' = [manifest EXCEPT !["installed"] = m]
    /\ UNCHANGED <<slot, removal>> /\ addon'["removed"] = addon["removed"]
    /\ \/ reset' = reset
       \/ /\ reset # None /\ reset.phase # "archiving"
          /\ reset' = [reset EXCEPT !.phase = "complete"]

LEMMA SavesKeep ==
    ASSUME IInv, FilesKept, NEW m \in Manifest, Saves(m), ReservationsKept',
           m.state # "ready" => Unresolved(m) = {},
           \/ Pool = None /\ m.state = "installing"
           \/ \E v \in Versions : Fits(v) /\ (m.state = "ready" => m.version = v)
    PROVE  FilesKept'
<1>0. /\ manifest \in [Places -> Manifest \cup {None}] /\ reset \in Reset \cup {None}
      /\ None \notin Versions /\ "empty" \notin Versions
  BY DeliveryAssumption DEF IInv, TypeOK
<1>1. /\ Pool' = m /\ manifest'["reset"] = manifest["reset"]
      /\ manifest'["removed"] = manifest["removed"]
  BY <1>0 DEF Saves, Pool, Places
<1>2. PICK r : r = reset'
  OBVIOUS
<1>3. \/ r = reset
      \/ /\ reset # None /\ reset.phase # "archiving" /\ r # None
         /\ r.phase = "complete" /\ r.slot = reset.slot /\ r.manifest = reset.manifest
  <2>1. CASE r = [reset EXCEPT !.phase = "complete"] /\ reset # None /\ reset.phase # "archiving"
    <3>1. reset \in Reset
      BY <1>0, <2>1
    <3>2. /\ r.phase = "complete" /\ r.slot = reset.slot /\ r.manifest = reset.manifest
          /\ r \in Reset
      BY <2>1, <3>1 DEF Reset
    <3> QED BY <2>1, <3>2, NoneIsNoRecord
  <2> QED BY <1>2, <2>1 DEF Saves
<1>4. ResetTold'
  BY <1>1, <1>2, <1>3 DEF FilesKept, ResetTold, Saves
<1>5. RemovalTold'
  BY <1>1 DEF FilesKept, RemovalTold, Saves, Unresolved
<1>6. UnreadyUnreserved'
  BY <1>1 DEF UnreadyUnreserved, Unresolved
<1>7. ASSUME NEW v \in Versions, Fits(v) PROVE \A i \in Slots : Slot(i) \notin {None, "empty"}
  BY <1>0, <1>7 DEF Fits
<1>8. ReadyIsWhole'
  <2>1. CASE m.state = "ready"
    <3>1. Fits(m.version)'
      BY <2>1 DEF Saves, Fits, Slot
    <3> QED BY <1>1, <3>1 DEF ReadyIsWhole, Fits
  <2>2. CASE m.state # "ready"
    BY <1>1, <2>2 DEF ReadyIsWhole
  <2> QED BY <2>1, <2>2
<1>9. HalfKept'
  <2> SUFFICES ASSUME Half' PROVE (TakenWhole \/ TakenPart \/ TakenByBoth)'
    BY DEF HalfKept
  <2>1. reset' = reset /\ Half
    BY <1>1, <1>2, <1>3 DEF Half, Archiving, Saves
  <2>2. TakenWhole => TakenWhole'
    BY <1>1, <2>1 DEF TakenWhole, Saves
  <2>3. ~TakenPart
    BY <1>0, <1>7, <2>1 DEF TakenPart, Half
  <2>4. TakenByBoth => TakenByBoth'
    <3> SUFFICES ASSUME TakenByBoth PROVE TakenByBoth'
      OBVIOUS
    <3>1. \/ m.state = "installing" \/ \A i \in Slots : Slot(i) # None
      BY <1>7
    <3> QED BY <1>1, <2>1, <3>1 DEF TakenByBoth, Saves, Slot
  <2> QED BY <2>1, <2>2, <2>3, <2>4 DEF FilesKept, HalfKept
<1> QED BY <1>4, <1>5, <1>6, <1>8, <1>9 DEF FilesKept

Writes(i, d) ==
    /\ slot' = [slot EXCEPT !["installed"][i] = d]
    /\ UNCHANGED <<manifest, reset, removal, pending>>
    /\ addon'["removed"] = addon["removed"]

LEMMA WritesKeep ==
    ASSUME IInv, FilesKept, NEW i \in Slots, NEW d \in Directory \ {None}, Writes(i, d),
           Pool.state = "ready" => Slot(i) # Pool.version,
           \/ Slot(i) = None /\ d = "empty"
           \/ Pool.state = "installing"
           \/ \A j \in Slots : Slot(j) \in Versions
    PROVE  FilesKept'
<1>0. /\ slot \in [Places -> [Slots -> Directory]]
      /\ None \notin Versions /\ "empty" \notin Versions /\ None # "empty"
  BY DeliveryAssumption DEF IInv, TypeOK
<1>1. /\ \A j \in Slots : Slot(j)' = IF j = i THEN d ELSE Slot(j)
      /\ slot'["reset"] = slot["reset"] /\ slot'["removed"] = slot["removed"]
      /\ Pool' = Pool
  BY <1>0 DEF Writes, Slot, Places, Pool
<1>2. ResetTold' /\ RemovalTold' /\ UnreadyUnreserved' /\ ReservationsKept'
  BY <1>1 DEF Writes, FilesKept, ResetTold, RemovalTold, UnreadyUnreserved, ReservationsKept,
              Unresolved
<1>3. ReadyIsWhole'
  <2>1. ~(Pool # None /\ Pool.state = "ready" /\ ~OnItsWay)
    BY DEF FilesKept, ReadyIsWhole, Fits
  <2> QED BY <1>1, <2>1 DEF ReadyIsWhole, OnItsWay, Archiving, Writes
<1>4. HalfKept'
  <2> SUFFICES ASSUME Half' PROVE (TakenWhole \/ TakenPart \/ TakenByBoth)'
    BY DEF HalfKept
  <2>1. reset' = reset /\ Half
    BY <1>1 DEF Half, Archiving, Writes
  <2>2. TakenWhole => TakenWhole'
    BY <1>1, <2>1 DEF TakenWhole, Writes
  <2>3. TakenPart => TakenPart'
    <3> SUFFICES ASSUME TakenPart PROVE TakenPart'
      OBVIOUS
    <3>1. PICK j \in Slots : slot["reset"][j] # None /\ Slot(j) \in {None, "empty"}
      BY DEF TakenPart
    <3>2. Slot(i) = None /\ d = "empty"
      BY <1>0, <2>1, <3>1 DEF TakenPart, Half
    <3>3. Slot(j)' \in {None, "empty"}
      BY <1>1, <3>1, <3>2
    <3>4. \A k \in Slots : reset.slot[k] # None /\ reset.slot[k] \in {Slot(k), slot["removed"][k]}
              => reset.slot[k] \in {Slot(k)', slot'["removed"][k]}
      BY <1>1, <3>2
    <3>5. manifest' = manifest
      BY DEF Writes
    <3> QED BY <1>1, <2>1, <3>1, <3>3, <3>4, <3>5 DEF TakenPart
  <2>4. TakenByBoth => TakenByBoth'
    <3> SUFFICES ASSUME TakenByBoth PROVE TakenByBoth'
      OBVIOUS
    <3>1. manifest' = manifest
      BY DEF Writes
    <3>2. \A k \in Slots : Slot(k) # None => Slot(k)' # None
      BY <1>1
    <3> QED BY <1>1, <2>1, <3>1, <3>2 DEF TakenByBoth
  <2> QED BY <2>1, <2>2, <2>3, <2>4 DEF FilesKept, HalfKept
<1> QED BY <1>2, <1>3, <1>4 DEF FilesKept

-----------------------------------------------------------------------------
(* A removal: RemovalKept is what it works with.                           *)
MoveSlotMap(i, x) ==
    /\ \A j \in Slots : Slot(j)' = IF j = i THEN None ELSE Slot(j)
    /\ \A j \in Slots : slot'[x][j] = IF j = i THEN Slot(i) ELSE slot[x][j]
    /\ \A y \in Places \ {"installed", x} : slot'[y] = slot[y]

LEMMA MovedSlot ==
    ASSUME IInv, NEW i \in Slots, NEW x \in {"reset", "removed"}, MoveSlot(i, x)
    PROVE  MoveSlotMap(i, x)
<1>1. slot \in [Places -> [Slots -> Directory]] /\ {"installed", x} \subseteq Places
  BY DEF IInv, TypeOK, Places
<1>2. x # "installed"
  OBVIOUS
<1>3. PICK d : d = Slot(i)
  OBVIOUS
<1>4. slot' = [slot EXCEPT !["installed"][i] = None, ![x][i] = d]
  BY <1>3 DEF MoveSlot
<1>5. PICK cut : cut = [slot EXCEPT !["installed"][i] = None]
  OBVIOUS
<1>6. /\ cut \in [Places -> [Slots -> Directory \cup {None}]]
      /\ cut["installed"] = [slot["installed"] EXCEPT ![i] = None]
      /\ \A y \in Places \ {"installed"} : cut[y] = slot[y]
  BY <1>1, <1>5
<1>7. slot' = [cut EXCEPT ![x][i] = d]
  BY <1>4, <1>5
<1>8. /\ slot'["installed"] = cut["installed"]
      /\ slot'[x] = [slot[x] EXCEPT ![i] = d]
      /\ \A y \in Places \ {"installed", x} : slot'[y] = slot[y]
  BY <1>1, <1>2, <1>6, <1>7
<1>9. slot["installed"] \in [Slots -> Directory] /\ slot[x] \in [Slots -> Directory]
  BY <1>1
<1> QED BY <1>3, <1>6, <1>8, <1>9 DEF MoveSlotMap, Slot

LEMMA RemovesSlot ==
    ASSUME IInv, FilesKept, NEW i \in Slots, Slot(i) # None, MoveSlot(i, "removed"),
           removal # None, RemovalKept, UNCHANGED pending
    PROVE  FilesKept' /\ (removal # None /\ RemovalKept)'
<1>0. /\ removal.manifest \in Manifest /\ None \notin Manifest
      /\ UNCHANGED <<addon, manifest, reset, removal>>
  BY NoneIsNoRecord DEF IInv, TypeOK, Removal, MoveSlot
<1>1. /\ \A j \in Slots : Slot(j)' = IF j = i THEN None ELSE Slot(j)
      /\ \A j \in Slots : slot'["removed"][j] = IF j = i THEN Slot(i) ELSE slot["removed"][j]
      /\ slot'["reset"] = slot["reset"] /\ Pool' = Pool
  BY <1>0, MovedSlot DEF MoveSlotMap, Places, Pool
<1>2. Slot(i) = removal.manifest.version /\ slot["removed"][i] = None
  BY DEF RemovalKept, Kept
<1>3. RemovalKept'
  <2>1. ASSUME NEW j \in Slots
        PROVE  Kept(Slot(j), slot["removed"][j], removal.manifest.version)'
    <3>1. CASE j = i
      BY <1>0, <1>1, <1>2, <3>1 DEF Kept
    <3>2. CASE j # i
      BY <1>0, <1>1, <3>2 DEF Kept, RemovalKept
    <3> QED BY <3>1, <3>2
  <2> QED BY <1>0, <1>1, <2>1 DEF RemovalKept, Kept
<1>4. ResetTold' /\ RemovalTold' /\ UnreadyUnreserved' /\ ReservationsKept'
  BY <1>0, <1>1 DEF FilesKept, ResetTold, RemovalTold, UnreadyUnreserved, ReservationsKept,
                    Unresolved
<1>5. ReadyIsWhole'
  <2>1. Pool # None => manifest["removed"] = None
    BY <1>0 DEF RemovalKept, Kept
  <2>2. Pool # None => addon["removed"] = None
    BY <2>1 DEF FilesKept, RemovalTold
  <2> QED BY <1>0, <1>1, <2>2 DEF ReadyIsWhole, OnItsWay
<1>6. HalfKept'
  <2> SUFFICES ASSUME Half' PROVE (TakenWhole \/ TakenPart \/ TakenByBoth)'
    BY DEF HalfKept
  <2>1. Half
    BY <1>0, <1>1 DEF Half, Archiving
  <2>2. TakenWhole => TakenWhole'
    BY <1>0, <1>1 DEF TakenWhole
  <2>3. TakenPart => TakenPart'
    <3> SUFFICES ASSUME TakenPart PROVE TakenPart'
      OBVIOUS
    <3>1. PICK j \in Slots : slot["reset"][j] # None /\ Slot(j) \in {None, "empty"}
      BY DEF TakenPart
    <3>2. Slot(j)' \in {None, "empty"}
      BY <1>1, <3>1
    <3>3. \A k \in Slots : reset.slot[k] # None /\ reset.slot[k] \in {Slot(k), slot["removed"][k]}
              => reset.slot[k] \in {Slot(k)', slot'["removed"][k]}
      BY <1>1, <1>2
    <3> QED BY <1>0, <1>1, <3>1, <3>2, <3>3 DEF TakenPart
  <2>4. TakenByBoth => TakenByBoth'
    <3> SUFFICES ASSUME TakenByBoth PROVE TakenByBoth'
      OBVIOUS
    <3>1. Pool = None
      BY <1>0, <2>1 DEF TakenByBoth, RemovalKept, Kept, Half
    <3>2. \A k \in Slots : reset.slot[k] # None /\ reset.slot[k] = slot["removed"][k]
              => reset.slot[k] = slot'["removed"][k]
      BY <1>1, <1>2
    <3> QED BY <1>0, <1>1, <3>1, <3>2 DEF TakenByBoth
  <2> QED BY <2>1, <2>2, <2>3, <2>4 DEF FilesKept, HalfKept
<1> QED BY <1>0, <1>3, <1>4, <1>5, <1>6 DEF FilesKept

LEMMA MovedManifest ==
    ASSUME IInv, NEW x \in {"reset", "removed"}, MoveManifest(x)
    PROVE  /\ Pool' = None /\ manifest'[x] = Pool
           /\ \A y \in Places \ {"installed", x} : manifest'[y] = manifest[y]
           /\ UNCHANGED <<addon, slot, reset, removal>>
<1>1. manifest \in [Places -> Manifest \cup {None}] /\ {"installed", x} \subseteq Places
  BY DEF IInv, TypeOK, Places
<1>2. x # "installed"
  OBVIOUS
<1> QED BY <1>1, <1>2 DEF MoveManifest, Pool

LEMMA RemovesManifest ==
    ASSUME IInv, FilesKept, \A i \in Slots : Slot(i) = None, Pool # None,
           MoveManifest("removed"), removal # None, RemovalKept, UNCHANGED pending
    PROVE  FilesKept' /\ (removal # None /\ RemovalKept)'
<1>0. removal.manifest \in Manifest /\ None \notin Manifest /\ None \notin Conns
      /\ pending \subseteq Conns \X Slots
  BY NoneIsNoRecord, NoneIsNoConnection DEF IInv, TypeOK, Removal
<1>1. /\ Pool' = None /\ manifest'["removed"] = Pool /\ manifest'["reset"] = manifest["reset"]
      /\ UNCHANGED <<addon, slot, reset, removal>> /\ \A i \in Slots : Slot(i)' = Slot(i)
  BY MovedManifest DEF Places, Slot
<1>2. Pool = removal.manifest /\ manifest["removed"] = None
  BY <1>0 DEF RemovalKept, Kept
<1>3. RemovalKept'
  BY <1>1, <1>2 DEF RemovalKept, Kept
<1>4. ResetTold' /\ RemovalTold' /\ UnreadyUnreserved' /\ ReadyIsWhole'
  BY <1>1, <1>2 DEF FilesKept, ResetTold, RemovalTold, UnreadyUnreserved, ReadyIsWhole, Unresolved
<1>5. ReservationsKept'
  <2> SUFFICES ASSUME NEW r \in pending
               PROVE  /\ manifest'["reset"] # None
                      /\ manifest'["reset"].reserved[r[2]] = r[1]
    BY DEF ReservationsKept
  <2>1. r[1] \in Conns /\ r[2] \in Slots
    BY <1>0
  <2>2. Unresolved(Pool) = {}
    BY <1>2 DEF FilesKept, RemovalTold
  <2>3. manifest["installed"].reserved[r[2]] # r[1]
    BY <1>0, <2>1, <2>2 DEF Unresolved, Pool
  <2> QED BY <1>1, <2>3 DEF FilesKept, ReservationsKept
<1>6. HalfKept'
  <2> SUFFICES ASSUME Half' PROVE (TakenWhole \/ TakenPart \/ TakenByBoth)'
    BY DEF HalfKept
  <2>1. Half
    BY <1>1 DEF Half, Archiving
  <2>2. TakenWhole => TakenWhole'
    BY <1>1 DEF TakenWhole
  <2>3. TakenPart => TakenByBoth'
    BY <1>1 DEF TakenPart, TakenByBoth
  <2>4. ~TakenByBoth
    BY <1>0, <1>2, <2>1 DEF TakenByBoth, Half
  <2> QED BY <2>1, <2>2, <2>3, <2>4 DEF FilesKept, HalfKept
<1> QED BY <1>1, <1>3, <1>4, <1>5, <1>6 DEF FilesKept

LEMMA RemovesAddon ==
    ASSUME IInv, FilesKept, Pool = None, removal = None \/ RemovalKept,
           UNCHANGED <<slot, manifest, reset, removal, pending>>
    PROVE  FilesKept'
<1>0. removal # None => removal.manifest \in Manifest /\ removal.manifest # None
  BY NoneIsNoRecord DEF IInv, TypeOK, Removal
<1>1. removal # None => manifest["removed"] # None
  BY <1>0 DEF RemovalKept, Kept
<1>2. Pool' = None
  BY DEF Pool
<1>3. ResetTold' /\ UnreadyUnreserved' /\ ReadyIsWhole' /\ ReservationsKept'
  BY <1>2 DEF FilesKept, ResetTold, UnreadyUnreserved, ReadyIsWhole, ReservationsKept
<1>4. RemovalTold'
  BY <1>1 DEF FilesKept, RemovalTold, Unresolved
<1>5. HalfKept'
  BY <1>2 DEF FilesKept, HalfKept, Half, Archiving, TakenWhole, TakenPart, TakenByBoth, Slot
<1> QED BY <1>3, <1>4, <1>5 DEF FilesKept

-----------------------------------------------------------------------------
(* A reset: ArchivingKept is what it works with.                           *)
LEMMA ResetBegins ==
    ASSUME IInv, FilesKept, NEW v \in Versions, reset = None,
           reset' = [version |-> v, phase |-> "archiving",
                     slot |-> slot["installed"], manifest |-> Pool],
           UNCHANGED <<addon, slot, manifest, removal, pending>>
    PROVE  FilesKept' /\ (reset # None /\ reset.phase = "archiving" /\ ArchivingKept)'
<1>0. slot["installed"] \in [Slots -> Directory] /\ Pool \in Manifest \cup {None}
  BY DEF IInv, TypeOK, Places, Pool
<1>1. PICK r : r = reset'
  OBVIOUS
<1>2. /\ r \in Reset /\ r.phase = "archiving" /\ r.slot = slot["installed"]
      /\ r.manifest = Pool
  BY <1>0, <1>1 DEF Reset
<1>3. r # None
  BY <1>2, NoneIsNoRecord
<1>4. manifest["reset"] = None /\ \A i \in Slots : slot["reset"][i] = None
  BY DEF FilesKept, ResetTold
<1>5. ~Archiving'
  BY <1>4 DEF Archiving
<1>6. ResetTold'
  BY <1>1, <1>2, <1>3, <1>4 DEF ResetTold
<1>7. RemovalTold' /\ UnreadyUnreserved' /\ ReservationsKept' /\ HalfKept'
  BY <1>5 DEF FilesKept, RemovalTold, UnreadyUnreserved, ReservationsKept, HalfKept, Half,
              Unresolved, Pool
<1>8. ReadyIsWhole'
  BY <1>5 DEF FilesKept, ReadyIsWhole, OnItsWay, Fits, Slot, Pool
<1>9. ArchivingKept'
  <2>1. \A i \in Slots : {Slot(i)', slot'["reset"][i]} = {None, r.slot[i]}
    BY <1>2, <1>4 DEF Slot
  <2>2. {Pool', manifest'["reset"]} = {None, r.manifest}
    BY <1>2, <1>4 DEF Pool
  <2> QED BY <1>1, <2>1, <2>2 DEF ArchivingKept
<1> QED BY <1>1, <1>2, <1>3, <1>6, <1>7, <1>8, <1>9 DEF FilesKept

LEMMA ArchivesSlot ==
    ASSUME IInv, FilesKept, NEW i \in Slots, Slot(i) # None, MoveSlot(i, "reset"),
           reset # None, reset.phase = "archiving", ArchivingKept, UNCHANGED pending
    PROVE  FilesKept' /\ (reset # None /\ reset.phase = "archiving" /\ ArchivingKept)'
<1>0. UNCHANGED <<addon, manifest, reset, removal>>
  BY DEF MoveSlot
<1>1. /\ \A j \in Slots : Slot(j)' = IF j = i THEN None ELSE Slot(j)
      /\ \A j \in Slots : slot'["reset"][j] = IF j = i THEN Slot(i) ELSE slot["reset"][j]
      /\ slot'["removed"] = slot["removed"] /\ Pool' = Pool
  BY <1>0, MovedSlot DEF MoveSlotMap, Places, Pool
<1>2. Slot(i) = reset.slot[i] /\ slot["reset"][i] = None
  BY DEF ArchivingKept
<1>3. ArchivingKept'
  <2>1. ASSUME NEW j \in Slots
        PROVE  {Slot(j)', slot'["reset"][j]} = {None, reset.slot[j]}
    <3>1. CASE j = i
      BY <1>1, <1>2, <3>1
    <3>2. CASE j # i
      BY <1>1, <3>2 DEF ArchivingKept
    <3> QED BY <3>1, <3>2
  <2> QED BY <1>0, <1>1, <2>1 DEF ArchivingKept
<1>4. ResetTold' /\ RemovalTold' /\ UnreadyUnreserved' /\ ReservationsKept'
  <2>1. \A j \in Slots : slot'["reset"][j] \in {None, reset.slot[j]}
    BY <1>1, <1>2 DEF FilesKept, ResetTold
  <2> QED BY <1>0, <1>1, <2>1 DEF FilesKept, ResetTold, RemovalTold, UnreadyUnreserved,
                                  ReservationsKept, Unresolved
<1>5. ReadyIsWhole'
  <2>1. slot'["reset"][i] # None
    BY <1>1
  <2> QED BY <1>0, <2>1 DEF ReadyIsWhole, OnItsWay, Archiving
<1>6. HalfKept'
  <2> SUFFICES ASSUME Half' PROVE TakenPart'
    BY DEF HalfKept
  <2>1. reset.manifest # None
    BY <1>0 DEF Half
  <2>2. Pool = reset.manifest
    <3> SUFFICES ASSUME Pool # reset.manifest PROVE FALSE
      OBVIOUS
    <3>1. manifest["reset"] = reset.manifest
      BY DEF ArchivingKept
    <3>2. Half
      BY <1>0, <2>1, <3>1 DEF Half, Archiving
    <3>3. ~TakenWhole
      BY <1>2 DEF TakenWhole
    <3>4. ~TakenPart /\ ~TakenByBoth
      BY <2>1, <3>1 DEF TakenPart, TakenByBoth
    <3> QED BY <3>2, <3>3, <3>4 DEF FilesKept, HalfKept
  <2>3. manifest["reset"] = None
    BY <2>1, <2>2 DEF ArchivingKept
  <2>4. ASSUME NEW k \in Slots
        PROVE  \/ slot'["reset"][k] = reset.slot[k]
               \/ reset.slot[k] # None /\ reset.slot[k] = Slot(k)'
    <3>1. {Slot(k)', slot'["reset"][k]} = {None, reset.slot[k]}
      BY <1>0, <1>3 DEF ArchivingKept
    <3> QED BY <3>1
  <2>5. slot'["reset"][i] # None /\ Slot(i)' = None
    BY <1>1
  <2> QED BY <1>0, <1>1, <2>2, <2>3, <2>4, <2>5 DEF TakenPart
<1> QED BY <1>0, <1>3, <1>4, <1>5, <1>6 DEF FilesKept

LEMMA ArchivesManifest ==
    ASSUME IInv, FilesKept, \A i \in Slots : Slot(i) = None, Pool # None,
           MoveManifest("reset"), reset \in Reset, reset.phase = "archiving",
           ArchivingKept, UNCHANGED pending
    PROVE  FilesKept' /\ (reset # None /\ reset.phase = "archiving" /\ ArchivingKept)'
<1>0. reset # None /\ reset.slot \in [Slots -> Directory] /\ slot["reset"] \in [Slots -> Directory]
  BY NoneIsNoRecord DEF IInv, TypeOK, Places, Reset
<1>1. /\ Pool' = None /\ manifest'["reset"] = Pool /\ manifest'["removed"] = manifest["removed"]
      /\ UNCHANGED <<addon, slot, reset, removal>> /\ \A i \in Slots : Slot(i)' = Slot(i)
  BY MovedManifest DEF Places, Slot
<1>2. Pool = reset.manifest /\ manifest["reset"] = None
  BY DEF ArchivingKept
<1>3. \A i \in Slots : slot["reset"][i] = reset.slot[i]
  BY DEF ArchivingKept
<1>4. slot["reset"] = reset.slot
  BY <1>0, <1>3
<1>5. ArchivingKept'
  BY <1>1, <1>2 DEF ArchivingKept
<1>6. ResetTold' /\ RemovalTold' /\ UnreadyUnreserved' /\ ReadyIsWhole'
  <2>1. ResetTold'
    BY <1>0, <1>1, <1>2, <1>4 DEF FilesKept, ResetTold
  <2>2. RemovalTold'
    BY <1>1 DEF FilesKept, RemovalTold, Unresolved
  <2> QED BY <1>1, <2>1, <2>2 DEF UnreadyUnreserved, ReadyIsWhole
<1>7. ReservationsKept'
  BY <1>1, <1>2 DEF FilesKept, ReservationsKept, Pool
<1>8. HalfKept'
  BY <1>1, <1>2, <1>4 DEF HalfKept, TakenWhole
<1> QED BY <1>0, <1>1, <1>5, <1>6, <1>7, <1>8 DEF FilesKept

LEMMA ResetGoesOn ==
    ASSUME IInv, FilesKept, \A i \in Slots : Slot(i) = None, Pool = None,
           reset \in Reset, reset.phase = "archiving", ArchivingKept,
           reset' = [reset EXCEPT !.phase = "installing"],
           UNCHANGED <<addon, slot, manifest, removal, pending>>
    PROVE  FilesKept' /\ (reset.phase = "installing")'
<1>0. reset.slot \in [Slots -> Directory] /\ slot["reset"] \in [Slots -> Directory]
  BY DEF IInv, TypeOK, Places, Reset
<1>1. PICK r : r = reset'
  OBVIOUS
<1>2. /\ r \in Reset /\ r.phase = "installing" /\ r.slot = reset.slot
      /\ r.manifest = reset.manifest
  BY <1>1 DEF Reset
<1>3. r # None
  BY <1>2, NoneIsNoRecord
<1>4. \A i \in Slots : slot["reset"][i] = reset.slot[i]
  BY DEF ArchivingKept
<1>5. slot["reset"] = reset.slot /\ manifest["reset"] = reset.manifest
  BY <1>0, <1>4 DEF ArchivingKept
<1>6. ResetTold'
  BY <1>1, <1>2, <1>3, <1>5 DEF ResetTold
<1>7. RemovalTold' /\ UnreadyUnreserved' /\ ReservationsKept' /\ ReadyIsWhole'
  BY DEF FilesKept, RemovalTold, UnreadyUnreserved, ReservationsKept, ReadyIsWhole,
         Unresolved, Pool
<1>8. HalfKept'
  BY <1>1, <1>2 DEF HalfKept, Half
<1> QED BY <1>1, <1>2, <1>6, <1>7, <1>8 DEF FilesKept

-----------------------------------------------------------------------------
(* Steps of connections.                                                   *)
LEMMA ConnectionStays ==
    ASSUME IInv, PoolKept, NEW p \in Programs, Connection(p)
    PROVE  PoolKept'
<1>0. /\ pc \in [Programs -> {"idle", "begin", "drive", "retire", "update", "acquire",
                              "discard"} \cup Maintaining]
      /\ at \in [Programs -> Windows \cup {None}]
      /\ lease \in [Windows -> Programs \cup {None}]
  BY DEF IInv, TypeOK, AdmissionTypeOK
<1>1. ASSUME OthersStay(p), UNCHANGED <<files, pending>>, pc'[p] \in {"idle", "begin", "retire"}
      PROVE  PoolKept'
  BY <1>1, QuietStep DEF files, NoFiles, Working
<1>2. ASSUME NEW w \in Windows, NEW c \in Conns, Begin(p, w, c) \/ Finish(p, w, c)
      PROVE  PoolKept'
  BY <1>0, <1>1, <1>2 DEF Begin, Finish, EnterGate, OthersStay, files, history, admission
<1>3. ASSUME NEW w \in Windows, NEW c \in Conns, Drive(p, w, c)
      PROVE  PoolKept'
  <2>1. OthersStay(p) /\ pc'[p] = "drive" /\ at'[p] = w /\ lease'[w] = p
    BY <1>0, <1>3, WindowAssumption DEF Drive, LockBootstrapWindow, OthersStay
  <2> QED BY <1>3, <2>1, QuietStep DEF Drive, files, history, NoFiles, Working
<1>4. CASE Claim(p)
  <2>1. CASE Fails(p)
    BY <2>1, FailsStay
  <2>2. CASE publishWindowOwner(p, at[p], on[p]) /\ ~Fails(p)
    BY <1>0, <1>1, <1>4, <2>2 DEF Claim, publishWindowOwner, OthersStay, history
  <2> QED BY <1>4, <2>1, <2>2 DEF Claim
<1>5. CASE Close(p)
  <2>1. OthersStay(p) /\ pc'[p] = "retire"
    BY <1>0, <1>5 DEF Close, Unlock, Goto, OthersStay
  <2> QED BY <1>1, <1>5, <2>1 DEF Close, history
<1>6. CASE Retire(p)
  BY <1>0, <1>1, <1>6 DEF Retire, RetireConnectionWindow, OthersStay, history
<1>7. CASE Reserve(p) \/ Resolve(p)
  <2>0. /\ on[p] \in Conns /\ Pool \in Manifest /\ Pool.state = "ready" /\ Fits(Pool.version)
        /\ Pool.version \in Versions /\ pc[p] = "drive" /\ None \notin Conns
        /\ pending \subseteq Conns \X Slots
    BY <1>7, NoneIsNoConnection
       DEF Reserve, Resolve, IInv, TypeOK, Placed, Inspected, Pool, Places, Manifest
  <2>1. OthersStay(p) /\ UNCHANGED <<pc, at, lease>>
    BY <1>7 DEF Reserve, Resolve, programs, OthersStay, admission
  <2>2. Working(p)'
    BY <2>0, <2>1 DEF PoolKept, Working
  <2>3. ASSUME NEW m \in Manifest, m.state = "ready", m.version = Pool.version,
               manifest' = [manifest EXCEPT !["installed"] = m], ReservationsKept'
        PROVE  FilesKept'
    BY <1>7, <2>0, <2>3, SavesKeep DEF Reserve, Resolve, Saves, PoolKept
  <2>4. manifest \in [Places -> Manifest \cup {None}] /\ "installed" \in Places
        /\ "reset" \in Places
    BY DEF IInv, TypeOK, Places
  <2>5. CASE Reserve(p)
    <3>1. PICK i \in Slots \ Unresolved(Pool) :
            /\ manifest' = [manifest EXCEPT !["installed"].reserved[i] = on[p]]
            /\ pending' = pending \cup {<<on[p], i>>}
      BY <2>5 DEF Reserve
    <3>2. PICK m : m = [Pool EXCEPT !.reserved[i] = on[p]]
      OBVIOUS
    <3>3. /\ m \in Manifest /\ m.state = "ready" /\ m.version = Pool.version
          /\ m.reserved = [Pool.reserved EXCEPT ![i] = on[p]]
      BY <2>0, <3>2 DEF Manifest
    <3>4. manifest' = [manifest EXCEPT !["installed"] = m]
      BY <3>1, <3>2 DEF Pool
    <3>5. ReservationsKept'
      <4>1. manifest'["installed"] = m /\ manifest'["reset"] = manifest["reset"] /\ m # None
        BY <2>4, <3>3, <3>4, NoneIsNoRecord
      <4>2. Pool.reserved \in [Slots -> Conns \cup {None}] /\ Pool.reserved[i] = None
        BY <2>0, <3>1 DEF Manifest, Unresolved
      <4>3. ASSUME NEW r \in pending, manifest["installed"].reserved[r[2]] = r[1]
            PROVE  m.reserved[r[2]] = r[1]
        BY <2>0, <3>3, <4>2, <4>3 DEF Pool
      <4>4. m.reserved[i] = on[p]
        BY <3>3, <4>2
      <4>5. \A r \in pending : \/ m.reserved[r[2]] = r[1]
                               \/ /\ manifest["reset"] # None
                                  /\ manifest["reset"].reserved[r[2]] = r[1]
        BY <4>3 DEF PoolKept, FilesKept, ReservationsKept
      <4>6. ASSUME NEW r \in pending'
            PROVE  \/ m.reserved[r[2]] = r[1]
                   \/ manifest["reset"] # None /\ manifest["reset"].reserved[r[2]] = r[1]
        <5>1. CASE r \in pending
          BY <4>5, <5>1
        <5>2. CASE r = <<on[p], i>>
          BY <4>4, <5>2
        <5> QED BY <3>1, <5>1, <5>2
      <4> QED BY <4>1, <4>6 DEF ReservationsKept
    <3> QED BY <2>0, <2>1, <2>2, <2>3, <3>3, <3>4, <3>5, BusyStep
  <2>6. CASE Resolve(p)
    <3>1. PICK i \in Slots :
            /\ manifest' = [manifest EXCEPT !["installed"].reserved[i] =
                               IF @ = on[p] THEN None ELSE @]
            /\ pending' = pending \ {<<on[p], i>>}
      BY <2>0, <2>6 DEF Resolve, IInv, TypeOK
    <3>2. PICK m : m = [Pool EXCEPT !.reserved[i] = IF @ = on[p] THEN None ELSE @]
      OBVIOUS
    <3>3. /\ m \in Manifest /\ m.state = "ready" /\ m.version = Pool.version
          /\ m.reserved = [Pool.reserved EXCEPT ![i] = IF @ = on[p] THEN None ELSE @]
      BY <2>0, <3>2 DEF Manifest
    <3>4. manifest' = [manifest EXCEPT !["installed"] = m]
      BY <3>1, <3>2 DEF Pool
    <3>5. ReservationsKept'
      <4>1. manifest'["installed"] = m /\ manifest'["reset"] = manifest["reset"] /\ m # None
        BY <2>4, <3>3, <3>4, NoneIsNoRecord
      <4>2. Pool.reserved \in [Slots -> Conns \cup {None}]
        BY <2>0 DEF Manifest
      <4>3. ASSUME NEW r \in pending', manifest["installed"].reserved[r[2]] = r[1]
            PROVE  m.reserved[r[2]] = r[1]
        <5>1. r \in Conns \X Slots /\ r # <<on[p], i>>
          BY <2>0, <3>1
        <5>2. r[2] # i \/ r[1] # on[p]
          BY <5>1
        <5> QED BY <3>3, <4>2, <4>3, <5>1, <5>2 DEF Pool
      <4>5. \A r \in pending' : \/ m.reserved[r[2]] = r[1]
                                \/ /\ manifest["reset"] # None
                                   /\ manifest["reset"].reserved[r[2]] = r[1]
        BY <3>1, <4>3 DEF PoolKept, FilesKept, ReservationsKept
      <4> QED BY <4>1, <4>5 DEF ReservationsKept
    <3> QED BY <2>0, <2>1, <2>2, <2>3, <3>3, <3>4, <3>5, BusyStep
  <2> QED BY <1>7, <2>5, <2>6
<1> QED BY <1>2, <1>3, <1>4, <1>5, <1>6, <1>7 DEF Connection

-----------------------------------------------------------------------------
(* Steps of commands that leave the pool as it is.                         *)
LEMMA QuietGoto ==
    ASSUME IInv, PoolKept, NEW p \in Programs, NEW to, Goto(p, to), UNCHANGED lease,
           NoFiles, UNCHANGED pending,
           to \notin {"drive", "archive", "move"},
           to \in {"pool", "fill", "convert"} /\ job[p].op = "reset" => reset.phase = "installing"
    PROVE  PoolKept'
<1>1. OthersStay(p) /\ pc'[p] = to /\ job'[p] = job[p]
  BY GotoStays
<1>2. Working(p)'
  BY <1>1 DEF Working, NoFiles
<1> QED BY <1>1, <1>2, QuietStep

LEMMA ConflictStays ==
    ASSUME IInv, PoolKept, NEW p \in Programs, Conflict(p)
    PROVE  PoolKept'
<1>1. CASE Fails(p)
  BY <1>1, FailsStay
<1>2. CASE /\ LeaveGate(p)
           /\ job' = [job EXCEPT ![p].op = "upgrade"]
           /\ pc' = [pc EXCEPT ![p] = "acquire"]
           /\ UNCHANGED <<on, at, files, leases, projects, history>>
  <2>1. OthersStay(p) /\ pc'[p] = "acquire"
    BY <1>2 DEF IInv, TypeOK, LeaveGate, OthersStay
  <2> QED BY <1>2, <2>1, QuietStep DEF files, history, NoFiles, Working
<1> QED BY <1>1, <1>2 DEF Conflict

LEMMA CommandStays ==
    ASSUME IInv, PoolKept, NEW p \in Programs,
           Command(p) \/ \E v \in Versions : UpdateManaged(p, v)
    PROVE  PoolKept'
<1>1. ASSUME NEW j, NEW to \in {"acquire", "update"}, Ask(p, j, to) PROVE PoolKept'
  <2>1. OthersStay(p) /\ pc'[p] = to
    BY <1>1 DEF Ask, IInv, TypeOK, OthersStay, admission
  <2> QED BY <1>1, <2>1, QuietStep DEF Ask, files, NoFiles, Working
<1>2. CASE Command(p)
  BY <1>1, <1>2 DEF Command
<1>3. ASSUME NEW v \in Versions, UpdateManaged(p, v) PROVE PoolKept'
  BY <1>1, <1>3 DEF UpdateManaged
<1> QED BY <1>2, <1>3

LEMMA LeaseStays ==
    ASSUME IInv, PoolKept, NEW p \in Programs, UpdateLease(p) \/ Acquire(p)
    PROVE  PoolKept'
<1>1. CASE UpdateLease(p)
  <2>1. OthersStay(p) /\ pc'[p] \in {"discard", "acquire"}
    BY <1>1 DEF UpdateLease, IInv, TypeOK, OthersStay, admission
  <2> QED BY <1>1, <2>1, QuietStep DEF UpdateLease, files, history, NoFiles, Working
<1>2. CASE Acquire(p)
  <2>1. CASE Fails(p)
    BY <2>1, FailsStay
  <2>2. CASE /\ AcquireInstallationMaintenance(p) /\ Goto(p, job[p].op)
             /\ UNCHANGED <<files, leases, projects, history>>
    <3>1. pc[p] = "acquire"
      BY <1>2 DEF Acquire
    <3>2. job[p].op \in {"install", "upgrade", "resume", "remove", "reset"}
      BY <3>1 DEF IInv, Charged, Commanded, Job
    <3>3. UNCHANGED lease /\ NoFiles /\ UNCHANGED pending
      BY <2>2 DEF AcquireInstallationMaintenance, files, history, NoFiles
    <3> QED BY <2>2, <3>2, <3>3, QuietGoto
  <2> QED BY <1>2, <2>1, <2>2 DEF Acquire
<1> QED BY <1>1, <1>2

LEMMA FreshStays ==
    ASSUME IInv, PoolKept, NEW p \in Programs, InstallFresh(p)
    PROVE  PoolKept'
<1>0. pc[p] = "install" /\ job[p].op = "install" /\ pc[p] \in Maintaining
  BY DEF InstallFresh, IInv, Charged, Commanded, Maintaining
<1>1. CASE /\ addon' = [addon EXCEPT !["installed"] = job[p].version]
           /\ Goto(p, "pool")
           /\ UNCHANGED <<admission, slot, manifest, reset, removal, pending>>
  <2>1. addon'["removed"] = addon["removed"]
    BY <1>1 DEF IInv, TypeOK
  <2>2. FilesKept'
    BY <1>1, <2>1, StillKeeps DEF PoolKept
  <2>3. OthersStay(p) /\ pc'[p] = "pool" /\ job'[p] = job[p]
    BY <1>1, GotoStays DEF admission
  <2> QED BY <1>0, <2>2, <2>3, BusyStep DEF Working
<1>2. CASE Only(p, "pool", UNCHANGED files)
  BY <1>0, <1>2, QuietGoto DEF Only, files, history, NoFiles, admission
<1>3. CASE Conflict(p)
  BY <1>3, ConflictStays
<1> QED BY <1>1, <1>2, <1>3 DEF InstallFresh

LEMMA UpgradeStays ==
    ASSUME IInv, PoolKept, NEW p \in Programs,
           UpgradeInstallation(p) \/ ResumeUpgrade(p) \/ Discard(p)
    PROVE  PoolKept'
<1>1. CASE Fails(p)
  BY <1>1, FailsStay
<1>2. CASE UpgradeInstallation(p) /\ ~Fails(p)
  <2>1. Goto(p, "replace") /\ UNCHANGED <<admission, addon, slot, manifest, reset, removal, history>>
    BY <1>2 DEF UpgradeInstallation, SaveReplacement
  <2> QED BY <2>1, QuietGoto DEF admission, history, NoFiles
<1>3. CASE ResumeUpgrade(p) /\ ~Fails(p)
  <2>1. OthersStay(p) /\ pc'[p] = "replace"
    BY <1>3 DEF ResumeUpgrade, IInv, TypeOK, OthersStay, admission
  <2>2. NoFiles /\ UNCHANGED pending
    BY <1>3 DEF ResumeUpgrade, files, history, NoFiles
  <2> QED BY <2>1, <2>2, QuietStep DEF Working
<1>4. CASE Discard(p) /\ ~Fails(p)
  BY <1>4, QuietGoto DEF Discard, history, NoFiles, admission
<1> QED BY <1>1, <1>2, <1>3, <1>4

LEMMA ReplacementStays ==
    ASSUME IInv, PoolKept, NEW p \in Programs, ResumeReplacement(p)
    PROVE  PoolKept'
<1>0. pc[p] = "replace" /\ pc[p] \in Maintaining /\ job[p].op # "reset"
  BY DEF ResumeReplacement, IInv, Charged, Commanded, Maintaining
<1>1. CASE Fails(p)
  BY <1>1, FailsStay
<1>2. ASSUME NEW to \in {"replace", "pool"}, Goto(p, to),
             UNCHANGED <<admission, slot, manifest, reset, removal, pending>>,
             addon'["removed"] = addon["removed"]
      PROVE  PoolKept'
  <2>1. FilesKept'
    BY <1>2, StillKeeps DEF PoolKept
  <2>2. OthersStay(p) /\ pc'[p] = to /\ job'[p] = job[p]
    BY <1>2, GotoStays DEF admission
  <2>3. Working(p)'
    BY <1>0, <2>2 DEF Working
  <2> QED BY <1>0, <2>1, <2>2, <2>3, BusyStep
<1>3. CASE tree' = None /\ Goto(p, "pool")
           /\ UNCHANGED <<admission, files, updating, projects, history>>
  BY <1>2, <1>3 DEF files, history
<1>4. CASE \/ MoveOld(p, job[p].archive, replacement[job[p].archive])
           \/ MoveNew(p, job[p].archive, replacement[job[p].archive])
  <2>1. addon'["removed"] = addon["removed"]
    <3>1. \E x : addon' = [addon EXCEPT !["installed"] = x]
      BY <1>4 DEF MoveOld, MoveNew, Only
    <3> QED BY <3>1 DEF IInv, TypeOK
  <2>2. UNCHANGED <<admission, slot, manifest, reset, removal, pending>>
    BY <1>4 DEF MoveOld, MoveNew, Only, SaveReplacement, history
  <2>3. Goto(p, "replace") \/ Goto(p, "pool")
    BY <1>4 DEF MoveOld, MoveNew, Only
  <2> QED BY <1>2, <2>1, <2>2, <2>3
<1> QED BY <1>1, <1>3, <1>4 DEF ResumeReplacement

-----------------------------------------------------------------------------
(* Steps of commands that install, fill and convert the pool.              *)
Filling == {"pool", "fill", "convert"}

\* A step to another place of the installation, which goes on with its job.
LEMMA FillingStep ==
    ASSUME IInv, PoolKept, NEW p \in Programs, NEW to \in Filling, pc[p] \in Filling,
           Goto(p, to), UNCHANGED <<lease, reset>>, FilesKept'
    PROVE  PoolKept'
<1>1. OthersStay(p) /\ pc'[p] = to /\ job'[p] = job[p]
  BY GotoStays
<1>2. Working(p)'
  BY <1>1 DEF PoolKept, Working, Filling
<1> QED BY <1>1, <1>2, BusyStep DEF Filling, Maintaining

LEMMA SavesStays ==
    ASSUME IInv, PoolKept, NEW p \in Programs, NEW to \in Filling, pc[p] \in Filling,
           NEW m \in Manifest, Only(p, to, SaveManifest(m)), ReservationsKept',
           m.state # "ready" => Unresolved(m) = {},
           \/ Pool = None /\ m.state = "installing"
           \/ \E v \in Versions : Fits(v) /\ (m.state = "ready" => m.version = v)
    PROVE  PoolKept'
<1>1. Saves(m) /\ reset' = reset
  BY DEF Only, SaveManifest, Saves
<1>2. FilesKept'
  BY <1>1, SavesKeep DEF PoolKept
<1> QED BY <1>1, <1>2, FillingStep DEF Only, admission

LEMMA WritesStays ==
    ASSUME IInv, PoolKept, NEW p \in Programs, pc[p] \in Filling,
           NEW i \in Slots, NEW d \in Directory \ {None}, Only(p, pc[p], WriteSlot(i, d)),
           Pool.state = "ready" => Slot(i) # Pool.version,
           \/ Slot(i) = None /\ d = "empty"
           \/ Pool.state = "installing"
           \/ \A j \in Slots : Slot(j) \in Versions
    PROVE  PoolKept'
<1>1. Writes(i, d) /\ reset' = reset
  BY DEF Only, WriteSlot, Writes, history
<1>2. FilesKept'
  BY <1>1, WritesKeep DEF PoolKept
<1> QED BY <1>1, <1>2, FillingStep DEF Only, admission

\* What is reserved in the pool is as before.
LEMMA SameReservations ==
    ASSUME IInv, PoolKept, NEW m \in Manifest, Pool # None, m.reserved = Pool.reserved,
           manifest' = [manifest EXCEPT !["installed"] = m], UNCHANGED pending
    PROVE  ReservationsKept'
<1>1. manifest'["installed"] = m /\ manifest'["reset"] = manifest["reset"] /\ m # None
  BY NoneIsNoRecord DEF IInv, TypeOK, Places
<1> QED BY <1>1 DEF PoolKept, FilesKept, ReservationsKept, Pool

\* Nothing is reserved in the pool, or there is none.
LEMMA NoReservations ==
    ASSUME IInv, PoolKept, Pool = None \/ Unresolved(Pool) = {}, UNCHANGED pending,
           manifest'["reset"] = manifest["reset"]
    PROVE  ReservationsKept'
<1> SUFFICES ASSUME NEW r \in pending
             PROVE  manifest["reset"] # None /\ manifest["reset"].reserved[r[2]] = r[1]
  BY DEF ReservationsKept
<1>1. r[1] \in Conns /\ r[2] \in Slots /\ None \notin Conns
  BY NoneIsNoConnection DEF IInv, TypeOK
<1>2. ~(manifest["installed"] # None /\ manifest["installed"].reserved[r[2]] = r[1])
  BY <1>1 DEF Unresolved, Pool
<1> QED BY <1>2 DEF PoolKept, FilesKept, ReservationsKept

LEMMA InstallStays ==
    ASSUME IInv, PoolKept, NEW p \in Programs, InstallSlotPool(p)
    PROVE  PoolKept'
<1>0. pc[p] = "pool" /\ job[p].version \in Versions /\ Working(p)
  BY DEF InstallSlotPool, IInv, Charged, Commanded, Maintaining, PoolKept
<1>1. CASE Fails(p)
  BY <1>1, FailsStay
<1>2. CASE /\ Pool = None
           /\ Only(p, "fill", SaveManifest(NewManifest(job[p].version, "installing")))
  <2>1. PICK m : m = NewManifest(job[p].version, "installing")
    OBVIOUS
  <2>2. m \in Manifest /\ m.state = "installing" /\ Unresolved(m) = {}
    <3>1. m \in Manifest
      BY <1>0, <2>1, NewManifestTyped
    <3>2. m.state = "installing" /\ m.reserved = [i \in Slots |-> None]
      BY <2>1 DEF NewManifest
    <3> QED BY <3>1, <3>2 DEF Unresolved
  <2>3. ReservationsKept'
    <3>1. manifest' = [manifest EXCEPT !["installed"] = m] /\ UNCHANGED pending
      BY <1>2, <2>1 DEF Only, SaveManifest, history
    <3>2. manifest'["reset"] = manifest["reset"]
      BY <3>1 DEF IInv, TypeOK, Places
    <3> QED BY <1>2, <3>1, <3>2, NoReservations
  <2> QED BY <1>0, <1>2, <2>1, <2>2, <2>3, SavesStays DEF Filling
<1>3. ASSUME NEW to \in {"fill", "convert"}, Only(p, to, UNCHANGED files)
      PROVE  PoolKept'
  BY <1>0, <1>3, QuietGoto DEF Only, files, history, NoFiles, admission, Working
<1> QED BY <1>1, <1>2, <1>3 DEF InstallSlotPool

LEMMA FillStays ==
    ASSUME IInv, PoolKept, NEW p \in Programs, FillSlot(p)
    PROVE  PoolKept'
<1>1. PICK i \in Misfits(Pool.version) : i = Min(Misfits(Pool.version))
  <2>1. Misfits(Pool.version) \subseteq Slots /\ Misfits(Pool.version) # {}
    BY DEF Misfits, FillSlot
  <2> QED BY <2>1, MinMember
<1>2. i \in Slots /\ Slot(i) # Pool.version
  BY <1>1 DEF Misfits
<1>3. pc[p] = "fill" /\ Pool \in Manifest
  BY DEF FillSlot, IInv, Stocked
<1>4. "empty" \in Directory \ {None} /\ Pool.version \in Directory \ {None}
  BY <1>3, DeliveryAssumption DEF Directory, Manifest
<1>5. \/ Slot(i) = None /\ Only(p, "fill", WriteSlot(i, "empty"))
      \/ Pool.state = "installing" /\ Only(p, "fill", WriteSlot(i, Pool.version))
      \/ Fails(p)
  BY <1>1 DEF FillSlot
<1> QED BY <1>2, <1>3, <1>4, <1>5, WritesStays, FailsStay DEF Filling

\* The pool is delivered.
LEMMA DeliveredStays ==
    ASSUME IInv, PoolKept, NEW p \in Programs, pc[p] \in {"fill", "convert"}, Delivered(p),
           NEW m \in Manifest, m.state = "ready",
           manifest' = [manifest EXCEPT !["installed"] = m], ReservationsKept',
           \E v \in Versions : Fits(v) /\ m.version = v
    PROVE  PoolKept'
<1>1. OthersStay(p) /\ pc'[p] \in {"idle", "discard"}
  <2>1. CASE Ends(p)
    BY <2>1, EndsStay
  <2>2. CASE LeaveGate(p) /\ Goto(p, "discard")
    BY <2>2, GotoStays DEF LeaveGate
  <2> QED BY <2>1, <2>2 DEF Delivered, Finished
<1>2. reset' # reset => reset # None /\ reset.phase = "installing"
  BY NoneIsNoRecord DEF Delivered, PoolKept, Working, IInv, Stocked
<1>3. Saves(m)
  BY <1>2 DEF Delivered, Saves
<1>4. FilesKept'
  BY <1>3, SavesKeep DEF PoolKept
<1> QED BY <1>1, <1>4, BusyStep DEF Working, Maintaining

LEMMA FinishFillStays ==
    ASSUME IInv, PoolKept, NEW p \in Programs, FinishFill(p)
    PROVE  PoolKept'
<1>0. pc[p] = "fill" /\ Pool \in Manifest /\ Pool.version \in Versions /\ Pool # None
  BY NoneIsNoRecord DEF FinishFill, IInv, Stocked, Manifest
<1>1. PICK m : m = [Pool EXCEPT !.state = "ready"]
  OBVIOUS
<1>2. m \in Manifest /\ m.state = "ready" /\ m.version = Pool.version /\ m.reserved = Pool.reserved
  BY <1>0, <1>1 DEF Manifest
<1>3. Fits(Pool.version)
  BY DEF FinishFill, Misfits, Fits
<1>4. CASE manifest' = [manifest EXCEPT !["installed"] = m] /\ Delivered(p)
  <2>1. ReservationsKept'
    BY <1>0, <1>2, <1>4, SameReservations DEF Delivered, history
  <2> QED BY <1>0, <1>2, <1>3, <1>4, <2>1, DeliveredStays
<1>5. CASE Only(p, "convert", SaveManifest(m))
  <2>1. ReservationsKept'
    BY <1>0, <1>2, <1>5, SameReservations DEF Only, SaveManifest, history
  <2> QED BY <1>0, <1>2, <1>3, <1>5, <2>1, SavesStays DEF Filling
<1> QED BY <1>1, <1>4, <1>5 DEF FinishFill

LEMMA StartConvertStays ==
    ASSUME IInv, PoolKept, NEW p \in Programs, StartConvert(p)
    PROVE  PoolKept'
<1>0. /\ pc[p] = "convert" /\ Pool \in Manifest /\ Pool.version \in Versions /\ Pool # None
      /\ job[p].version \in Versions
  BY NoneIsNoRecord DEF StartConvert, IInv, Stocked, Charged, Commanded, Maintaining, Manifest
<1>1. CASE Fails(p)
  BY <1>1, FailsStay
<1>2. CASE Conflict(p)
  BY <1>2, ConflictStays
<1>3. CASE /\ Fits(Pool.version) /\ Unresolved(Pool) = {}
           /\ Only(p, "convert", SaveManifest([Pool EXCEPT !.state = "upgrading",
                                                           !.next = job[p].version]))
  <2>1. PICK m : m = [Pool EXCEPT !.state = "upgrading", !.next = job[p].version]
    OBVIOUS
  <2>2. m \in Manifest /\ m.state = "upgrading" /\ m.reserved = Pool.reserved
    BY <1>0, <2>1 DEF Manifest
  <2>3. Unresolved(m) = {}
    BY <1>3, <2>2 DEF Unresolved
  <2>4. Only(p, "convert", SaveManifest(m))
    BY <1>3, <2>1
  <2>5. ReservationsKept'
    BY <1>0, <2>2, <2>4, SameReservations DEF Only, SaveManifest, history
  <2> QED BY <1>0, <1>3, <2>2, <2>3, <2>4, <2>5, SavesStays DEF Filling
<1> QED BY <1>1, <1>2, <1>3 DEF StartConvert

LEMMA ConvertStays ==
    ASSUME IInv, PoolKept, NEW p \in Programs, ConvertSlot(p)
    PROVE  PoolKept'
<1> DEFINE v == job[p].version
<1>0. /\ pc[p] = "convert" /\ Pool \in Manifest /\ Pool.version \in Versions
      /\ v \in Versions /\ v \in Directory \ {None} /\ Pool.state = "upgrading" /\ Pool # None
  BY NoneIsNoRecord, DeliveryAssumption
     DEF ConvertSlot, IInv, Stocked, Charged, Commanded, Maintaining, Manifest, Directory
<1>1. CASE Fails(p)
  BY <1>1, FailsStay
<1>2. CASE Conflict(p)
  BY <1>2, ConflictStays
<1>3. CASE /\ Convertible(v) /\ Misfits(v) # {}
           /\ Only(p, "convert", WriteSlot(Min(Misfits(v)), v))
  <2>1. PICK i \in Slots : i = Min(Misfits(v))
    <3>1. Misfits(v) \subseteq Slots
      BY DEF Misfits
    <3> QED BY <1>3, <3>1, MinMember
  <2>2. \A j \in Slots : Slot(j) \in Versions
    BY <1>0, <1>3 DEF Convertible
  <2>3. Only(p, "convert", WriteSlot(i, v))
    BY <1>3, <2>1
  <2> HIDE DEF v
  <2> QED BY <1>0, <2>2, <2>3, WritesStays DEF Filling
<1>4. CASE /\ Misfits(v) = {}
           /\ manifest' = [manifest EXCEPT !["installed"] = NewManifest(v, "ready")]
           /\ Delivered(p)
  <2>1. PICK m : m = NewManifest(v, "ready")
    OBVIOUS
  <2>2. m \in Manifest /\ m.state = "ready" /\ m.version = v
    BY <1>0, <2>1, NewManifestTyped DEF NewManifest
  <2>3. Unresolved(Pool) = {}
    BY <1>0 DEF PoolKept, FilesKept, UnreadyUnreserved
  <2>4. manifest' = [manifest EXCEPT !["installed"] = m] /\ UNCHANGED pending
    BY <1>4, <2>1 DEF Delivered, history
  <2>5. ReservationsKept'
    <3>1. manifest'["reset"] = manifest["reset"]
      BY <2>4 DEF IInv, TypeOK, Places
    <3> QED BY <2>3, <2>4, <3>1, NoReservations
  <2>6. Fits(v)
    BY <1>4 DEF Misfits, Fits
  <2> HIDE DEF v
  <2> QED BY <1>0, <1>4, <2>2, <2>4, <2>5, <2>6, DeliveredStays
<1> QED BY <1>1, <1>2, <1>3, <1>4 DEF ConvertSlot

-----------------------------------------------------------------------------
(* Steps of commands that remove and reset the pool.                       *)
LEMMA RemoveStays ==
    ASSUME IInv, PoolKept, NEW p \in Programs, Remove(p)
    PROVE  PoolKept'
<1>0. pc[p] \in Maintaining
  BY DEF Remove, Maintaining
<1>1. CASE Fails(p)
  BY <1>1, FailsStay
<1>2. CASE removal # None /\ RemovalKept /\ Only(p, "move", UNCHANGED files)
  <2>1. OthersStay(p) /\ pc'[p] = "move"
    BY <1>2, GotoStays DEF Only, admission
  <2>2. (removal # None /\ RemovalKept)'
    BY <1>2 DEF Only, files, RemovalKept, Kept, Slot, Pool
  <2>3. Working(p)'
    BY <2>1, <2>2 DEF Working
  <2> QED BY <1>2, <2>1, <2>3, QuietStep DEF Only, files, history, NoFiles
<1>3. CASE removal = None /\ Pool = None /\ MoveAddon(p)
  <2>1. OthersStay(p) /\ pc'[p] = "idle"
    BY <1>3, EndsStay DEF MoveAddon
  <2>2. FilesKept'
    BY <1>3, RemovesAddon DEF MoveAddon, PoolKept
  <2> QED BY <1>0, <2>1, <2>2, BusyStep DEF Working
<1>4. CASE /\ removal = None /\ Removable
           /\ Only(p, "move",
                 /\ removal' = [version |-> addon["installed"], manifest |-> Pool]
                 /\ UNCHANGED <<addon, slot, manifest, reset, replacement, cleanup>>)
  <2>1. OthersStay(p) /\ pc'[p] = "move"
    BY <1>4, GotoStays DEF Only, admission
  <2>2. PICK r : r = [version |-> addon["installed"], manifest |-> Pool]
    OBVIOUS
  <2>3. /\ removal' = r /\ UNCHANGED <<addon, slot, manifest, reset, pending>>
        /\ Pool' = Pool /\ \A i \in Slots : Slot(i)' = Slot(i)
    BY <1>4, <2>2 DEF Only, history, Pool, Slot
  <2>4. r \in Removal /\ r # None /\ r.version = addon["installed"] /\ r.manifest = Pool
    BY <1>4, <2>2, NoneIsNoRecord DEF Removable, Inspected, Removal, IInv, TypeOK, Pool, Places
  <2>5. manifest["removed"] = None /\ \A i \in Slots : slot["removed"][i] = None
    BY <1>4 DEF PoolKept, FilesKept, RemovalTold
  <2>6. Fits(Pool.version) /\ Unresolved(Pool) = {} /\ addon["removed"] = None
    BY <1>4 DEF Removable, Inspected
  <2>7. RemovalKept'
    BY <2>3, <2>4, <2>5, <2>6 DEF RemovalKept, Kept, Fits
  <2>8. RemovalTold'
    BY <2>3, <2>4, <2>6 DEF RemovalTold, Unresolved
  <2>9. ReadyIsWhole'
    BY <2>3, <2>6 DEF ReadyIsWhole, Fits
  <2>10. ResetTold' /\ UnreadyUnreserved' /\ ReservationsKept' /\ HalfKept'
    BY <2>3 DEF PoolKept, FilesKept, ResetTold, UnreadyUnreserved, ReservationsKept, HalfKept,
                Half, Archiving, TakenWhole, TakenPart, TakenByBoth, Unresolved
  <2>11. Working(p)'
    BY <2>1, <2>3, <2>4, <2>7 DEF Working
  <2> QED BY <1>0, <2>1, <2>8, <2>9, <2>10, <2>11, BusyStep DEF FilesKept
<1> QED BY <1>1, <1>2, <1>3, <1>4 DEF Remove

LEMMA MoveStays ==
    ASSUME IInv, PoolKept, NEW p \in Programs, Move(p)
    PROVE  PoolKept'
<1> DEFINE left == {i \in Slots : Slot(i) # None}
<1>0. pc[p] = "move" /\ pc[p] \in Maintaining /\ removal # None /\ RemovalKept
  BY DEF Move, Maintaining, PoolKept, Working
<1>1. CASE Fails(p)
  BY <1>1, FailsStay
<1>2. ASSUME Goto(p, "move"), UNCHANGED lease, FilesKept', (removal # None /\ RemovalKept)'
      PROVE  PoolKept'
  <2>1. OthersStay(p) /\ pc'[p] = "move"
    BY <1>2, GotoStays
  <2> QED BY <1>0, <1>2, <2>1, BusyStep DEF Working
<1>3. CASE left # {} /\ Only(p, "move", MoveSlot(Min(left), "removed"))
  <2>1. PICK i \in Slots : Slot(i) # None /\ i = Min(left)
    <3>1. left \in SUBSET Slots
      OBVIOUS
    <3>2. Min(left) \in left
      <4> HIDE DEF left
      <4> QED BY <1>3, <3>1, MinMember
    <3> QED BY <3>2
  <2> HIDE DEF left
  <2>2. MoveSlot(i, "removed") /\ Goto(p, "move") /\ UNCHANGED <<lease, pending>>
    BY <1>3, <2>1 DEF Only, admission, history
  <2> QED BY <1>0, <1>2, <2>1, <2>2, RemovesSlot DEF PoolKept
<1>4. CASE left = {} /\ Pool # None /\ Only(p, "move", MoveManifest("removed"))
  <2>1. MoveManifest("removed") /\ Goto(p, "move") /\ UNCHANGED <<lease, pending>>
    BY <1>4 DEF Only, admission, history
  <2>2. \A i \in Slots : Slot(i) = None
    BY <1>4
  <2> QED BY <1>0, <1>2, <1>4, <2>1, <2>2, RemovesManifest DEF PoolKept
<1>5. CASE Pool = None /\ MoveAddon(p)
  <2>1. OthersStay(p) /\ pc'[p] = "idle"
    BY <1>5, EndsStay DEF MoveAddon
  <2>2. FilesKept'
    BY <1>0, <1>5, RemovesAddon DEF MoveAddon, PoolKept
  <2> QED BY <1>0, <2>1, <2>2, BusyStep DEF Working
<1> QED BY <1>1, <1>3, <1>4, <1>5 DEF Move

LEMMA ArchivingGoto ==
    ASSUME IInv, PoolKept, NEW p \in Programs, pc[p] \in Maintaining,
           Goto(p, "archive"), UNCHANGED lease, FilesKept',
           (reset # None /\ reset.phase = "archiving" /\ ArchivingKept)'
    PROVE  PoolKept'
<1>1. OthersStay(p) /\ pc'[p] = "archive"
  BY GotoStays
<1> QED BY <1>1, BusyStep DEF Working

LEMMA BeginResetStays ==
    ASSUME IInv, PoolKept, NEW p \in Programs, BeginReset(p)
    PROVE  PoolKept'
<1> DEFINE v == job[p].version
<1>0. pc[p] = "reset" /\ pc[p] \in Maintaining /\ v \in Versions
  BY DEF BeginReset, IInv, Charged, Commanded, Maintaining
<1>1. CASE Fails(p)
  BY <1>1, FailsStay
<1>2. CASE /\ reset = None
           /\ Only(p, "archive",
                 /\ reset' = [version |-> v, phase |-> "archiving",
                              slot |-> slot["installed"], manifest |-> Pool]
                 /\ UNCHANGED <<addon, slot, manifest, removal, replacement, cleanup>>)
  <2>1. Goto(p, "archive") /\ UNCHANGED <<lease, addon, slot, manifest, removal, pending>>
    BY <1>2 DEF Only, admission, history
  <2>2. reset' = [version |-> v, phase |-> "archiving",
                  slot |-> slot["installed"], manifest |-> Pool]
    BY <1>2 DEF Only
  <2> HIDE DEF v
  <2>3. FilesKept' /\ (reset # None /\ reset.phase = "archiving" /\ ArchivingKept)'
    BY <1>0, <1>2, <2>1, <2>2, ResetBegins DEF PoolKept
  <2> QED BY <1>0, <2>1, <2>3, ArchivingGoto
<1>3. CASE /\ reset # None /\ ResetKept /\ reset.phase = "archiving"
           /\ Only(p, "archive", UNCHANGED files)
  <2>1. Goto(p, "archive") /\ UNCHANGED <<lease, files, pending>>
    BY <1>3 DEF Only, admission, history
  <2>2. FilesKept'
    BY <2>1, StillKeeps DEF files, PoolKept
  <2>3. (reset # None /\ reset.phase = "archiving" /\ ArchivingKept)'
    BY <1>3, <2>1 DEF ResetKept, ArchivingKept, files, Slot, Pool
  <2> QED BY <1>0, <2>1, <2>2, <2>3, ArchivingGoto
<1>4. CASE /\ reset # None /\ reset.phase = "installing"
           /\ Only(p, "pool", UNCHANGED files)
  BY <1>4, QuietGoto DEF Only, files, history, NoFiles, admission
<1>5. reset # None => reset.phase \in {"archiving", "installing", "complete"}
  BY DEF IInv, TypeOK, Reset
<1> QED BY <1>1, <1>2, <1>3, <1>4, <1>5 DEF BeginReset

LEMMA ArchiveStays ==
    ASSUME IInv, PoolKept, NEW p \in Programs, ArchiveReset(p)
    PROVE  PoolKept'
<1> DEFINE left == {i \in Slots : Slot(i) # None}
<1>0. /\ pc[p] = "archive" /\ pc[p] \in Maintaining /\ reset \in Reset
      /\ reset # None /\ reset.phase = "archiving" /\ ArchivingKept
  BY DEF ArchiveReset, Maintaining, PoolKept, Working, IInv, Stocked
<1>1. CASE left # {} /\ Only(p, "archive", MoveSlot(Min(left), "reset"))
  <2>1. PICK i \in Slots : Slot(i) # None /\ i = Min(left)
    <3>1. left \in SUBSET Slots
      OBVIOUS
    <3>2. Min(left) \in left
      <4> HIDE DEF left
      <4> QED BY <1>1, <3>1, MinMember
    <3> QED BY <3>2
  <2> HIDE DEF left
  <2>2. MoveSlot(i, "reset") /\ Goto(p, "archive") /\ UNCHANGED <<lease, pending>>
    BY <1>1, <2>1 DEF Only, admission, history
  <2> QED BY <1>0, <2>1, <2>2, ArchivesSlot, ArchivingGoto DEF PoolKept
<1>2. CASE left = {} /\ Pool # None /\ Only(p, "archive", MoveManifest("reset"))
  <2>1. MoveManifest("reset") /\ Goto(p, "archive") /\ UNCHANGED <<lease, pending>>
    BY <1>2 DEF Only, admission, history
  <2>2. \A i \in Slots : Slot(i) = None
    BY <1>2
  <2> QED BY <1>0, <1>2, <2>1, <2>2, ArchivesManifest, ArchivingGoto DEF PoolKept
<1>3. CASE /\ left = {} /\ Pool = None
           /\ Only(p, "pool", /\ reset' = [reset EXCEPT !.phase = "installing"]
                              /\ UNCHANGED <<addon, slot, manifest, removal, replacement,
                                             cleanup>>)
  <2>1. Goto(p, "pool") /\ UNCHANGED <<lease, addon, slot, manifest, removal, pending>>
    BY <1>3 DEF Only, admission, history
  <2>2. reset' = [reset EXCEPT !.phase = "installing"]
    BY <1>3 DEF Only
  <2>3. \A i \in Slots : Slot(i) = None
    BY <1>3
  <2>4. FilesKept' /\ (reset.phase = "installing")'
    BY <1>0, <1>3, <2>1, <2>2, <2>3, ResetGoesOn DEF PoolKept
  <2>5. OthersStay(p) /\ pc'[p] = "pool"
    BY <2>1, GotoStays
  <2> QED BY <1>0, <2>4, <2>5, BusyStep DEF Working
<1> QED BY <1>1, <1>2, <1>3 DEF ArchiveReset

-----------------------------------------------------------------------------
LEMMA InitPool == Init => PoolKept
<1> SUFFICES ASSUME Init PROVE PoolKept OBVIOUS
<1>1. /\ reset = None /\ removal = None /\ pending = {} /\ Pool = None
      /\ \A x \in Places : manifest[x] = None /\ \A i \in Slots : slot[x][i] = None
  BY DEF Init, Pool, Places
<1>2. \A p \in Programs : pc[p] = "idle"
  BY DEF Init
<1> QED BY <1>1, <1>2 DEF PoolKept, FilesKept, ResetTold, RemovalTold, UnreadyUnreserved,
                          HalfKept, Half, ReadyIsWhole, ReservationsKept, Working, Places

LEMMA StepKeepsPool == IInv /\ PoolKept /\ [Next]_vars => PoolKept'
<1> SUFFICES ASSUME IInv, PoolKept, [Next]_vars PROVE PoolKept' OBVIOUS
<1>1. ASSUME NEW p \in Programs, Maintenance(p) PROVE PoolKept'
  BY <1>1, CommandStays, LeaseStays, FreshStays, InstallStays, FillStays, FinishFillStays,
     StartConvertStays, ConvertStays, UpgradeStays, ReplacementStays, RemoveStays, MoveStays,
     BeginResetStays, ArchiveStays
     DEF Maintenance
<1>2. CASE UNCHANGED vars
  <2>1. UNCHANGED <<files, programs, lease, pending>>
    BY <1>2 DEF vars, admission, history
  <2>2. FilesKept'
    BY <2>1, StillKeeps DEF files, PoolKept
  <2>3. \A p \in Programs : Working(p)'
    BY <2>1 DEF PoolKept, Working, ArchivingKept, RemovalKept, Kept, Slot, Pool, files, programs
  <2> QED BY <2>2, <2>3 DEF PoolKept
<1> QED BY <1>1, <1>2, ConnectionStays, FailsStay DEF Next, Crash

LEMMA PoolInvariance == Spec => []PoolKept
<1> QED BY InitPool, StepKeepsPool, Invariance, PTL DEF Spec

(* Whatever a reset found is in its archive, in its place, or in the       *)
(* archive of the removal that went on in between; when the reset goes on  *)
(* to install, all of it is in its own archive.                            *)
THEOREM ArchivesAreWhole == Spec => []ArchiveKeepsAll
<1>1. PoolKept => ArchiveKeepsAll
  <2> SUFFICES ASSUME PoolKept, reset # None, Archiving \/ reset.phase # "archiving",
                      reset.manifest # None, reset.manifest.state # "installing"
               PROVE  /\ \A i \in Slots :
                           \/ slot["reset"][i] = reset.slot[i]
                           \/ /\ reset.phase = "archiving"
                              /\ reset.slot[i] \in {Slot(i), slot["removed"][i]}
                      /\ \/ manifest["reset"] = reset.manifest
                         \/ /\ reset.phase = "archiving"
                            /\ reset.manifest \in {Pool, manifest["removed"]}
    BY DEF ArchiveKeepsAll
  <2>1. CASE reset.phase # "archiving"
    BY <2>1 DEF PoolKept, FilesKept, ResetTold
  <2>2. CASE reset.phase = "archiving"
    <3>1. TakenWhole \/ TakenPart \/ TakenByBoth
      BY <2>2 DEF PoolKept, FilesKept, HalfKept, Half
    <3> QED BY <2>2, <3>1 DEF TakenWhole, TakenPart, TakenByBoth
  <2> QED BY <2>1, <2>2
<1> QED BY <1>1, PoolInvariance, PTL

(* A pool that says it is ready has the files of its version in every      *)
(* slot, wherever an install, an upgrade, a removal or a reset stopped.    *)
THEOREM ReadyPoolsAreWhole == Spec => []ReadyIsWhole
<1>1. PoolKept => ReadyIsWhole
  BY DEF PoolKept, FilesKept
<1> QED BY <1>1, PoolInvariance, PTL

(* No install, upgrade, update, removal or reset loses a reservation that  *)
(* nobody has settled.                                                     *)
THEOREM ReservationsSurvive == Spec => []ReservationsKept
<1>1. PoolKept => ReservationsKept
  BY DEF PoolKept, FilesKept
<1> QED BY <1>1, PoolInvariance, PTL
=============================================================================
