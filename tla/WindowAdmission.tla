--------------------------- MODULE WindowAdmission ---------------------------
(***************************************************************************)
(* Who may use a game window.  A marker file claims a window for a         *)
(* connection for as long as the connection exists.  Two operating system  *)
(* locks, which end with the program that holds them, are short: the gate  *)
(* of an installation, held while markers are looked at and changed, and   *)
(* the execution lease of a window, held while a program drives it.        *)
(* Maintenance of the installation keeps the gate.                         *)
(***************************************************************************)
EXTENDS Connections, Integers, FiniteSets

CONSTANTS Programs,     \* command line programs
          Windows,      \* windows of games of one installation
          Process,      \* the process a window belongs to
          MaxClaims     \* markers an installation may have: 256

ASSUME WindowAssumption ==
    /\ None \notin Programs \cup Windows
    /\ MaxClaims \in Nat \ {0}

VARIABLES marker,   \* the connection that claims a window
          gate,     \* the program inside the admission scope
          lease     \* the program that drives a window

admission == <<marker, gate, lease>>

AdmissionTypeOK ==
    /\ marker \in [Windows -> Conns \cup {None}]
    /\ gate \in Programs \cup {None}
    /\ lease \in [Windows -> Programs \cup {None}]

AdmissionInit ==
    /\ marker = [w \in Windows |-> None]
    /\ gate = None
    /\ lease = [w \in Windows |-> None]

Claimed == {w \in Windows : marker[w] # None}

\* beginScopedWindow, up to what the program persists of its own.
Admissible(w) == gate = None /\ marker[w] = None /\ Cardinality(Claimed) < MaxClaims

EnterGate(p) == gate = None /\ gate' = p /\ UNCHANGED <<marker, lease>>

\* publishWindowOwner: one process, one claim.
Siblings(w) == {v \in Claimed : v # w /\ Process[v] = Process[w]}

\* Mutation of publishWindowOwner: claims the window whatever else is claimed.
publishWindowOwnerAlways(p, w, c) ==
    /\ gate = p
    /\ marker' = [marker EXCEPT ![w] = c]
    /\ gate' = None
    /\ UNCHANGED lease

publishWindowOwner(p, w, c) ==
    /\ gate = p /\ Siblings(w) = {}
    /\ marker' = [marker EXCEPT ![w] = c]
    /\ gate' = None
    /\ UNCHANGED lease

LeaveGate(p) == gate = p /\ gate' = None /\ UNCHANGED <<marker, lease>>

\* The lease of a window for the connection that claims it; never queues.
LockBootstrapWindow(p, w, c) ==
    /\ gate = None /\ marker[w] = c /\ lease[w] = None
    /\ lease' = [lease EXCEPT ![w] = p]
    /\ UNCHANGED <<marker, gate>>

Busy(w, c) == gate = None /\ ~(marker[w] = c /\ lease[w] = None)

Unlock(p) ==
    /\ lease' = [w \in Windows |-> IF lease[w] = p THEN None ELSE lease[w]]
    /\ UNCHANGED <<marker, gate>>

\* Mutation of RetireConnectionWindow: removes whatever claim it finds.
RetireAnyClaim(w, c) ==
    /\ gate = None
    /\ IF lease[w] = None THEN marker' = [marker EXCEPT ![w] = None] ELSE UNCHANGED marker
    /\ UNCHANGED <<gate, lease>>

\* retireScopedWindow, by a program without the lease.
RetireConnectionWindow(w, c) ==
    /\ gate = None
    /\ IF marker[w] = c /\ lease[w] = None
       THEN marker' = [marker EXCEPT ![w] = None] ELSE UNCHANGED marker
    /\ UNCHANGED <<gate, lease>>

\* Mutation of AcquireInstallationMaintenance: asks for leases, not for claims.
AcquireIfIdle(p) ==
    /\ gate = None /\ \A w \in Windows : lease[w] = None
    /\ gate' = p
    /\ UNCHANGED <<marker, lease>>

AcquireInstallationMaintenance(p) ==
    /\ gate = None /\ Claimed = {}
    /\ gate' = p
    /\ UNCHANGED <<marker, lease>>

\* The operating system takes back what a program held.
ProgramEnds(p) ==
    /\ gate' = IF gate = p THEN None ELSE gate
    /\ lease' = [w \in Windows |-> IF lease[w] = p THEN None ELSE lease[w]]
    /\ UNCHANGED marker
=============================================================================
