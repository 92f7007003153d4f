---------------------------- MODULE Publication -----------------------------
(* A publication request of any of the platforms, and what every one of them  *)
(* must keep.                                                                 *)
EXTENDS CurseForge, NewBee, DD, BlackBox, ModUs
CONSTANT Kinds

ASSUME KindsAssumption ==
    Kinds \subseteq
        {"cf_upload", "nb_edit", "nb_create", "nb_official", "nb_delete",
         "nb_backup", "dd_object", "dd_change", "dd_backup", "dd_delete",
         "bb_edit", "bb_create", "bb_backup", "bb_delete", "bb_rename",
         "modus_change", "modus_release", "modus_backup", "modus_rename",
         "modus_delete"}

Init ==
    /\ kind \in Kinds
    /\ receipt = None
    /\ local = "none"
    /\ prog = [p \in Programs |-> Idle]
    /\ holder = None
    /\ wire = {} /\ applied = {} /\ already = {}
    /\ posted = [c \in Calls |-> 0]

Step(p) == CFStep(p) \/ NBStep(p) \/ DDStep(p) \/ BBStep(p) \/ MUStep(p)

Next ==
    \/ \E p \in Programs :
           \/ \E cmd \in Commands : Begin(p, cmd)
           \/ Step(p) \/ PostCall(p) \/ Stop(p)
    \/ \E c \in Calls : Arrive(c) \/ Decline(c) \/ Outside(c)

Spec == Init /\ [][Next]_vars

(* The commands are given again and again, and a command that could go on     *)
(* again and again does; any of them may end at any point.                    *)
FairSpec ==
    /\ Spec
    /\ \A cmd \in Commands : SF_vars(\E p \in Programs : Begin(p, cmd))
    /\ SF_vars(\E p \in Programs : Step(p))
    /\ \A p \in Programs : WF_vars(Stop(p))
-----------------------------------------------------------------------------
TypeOK ==
    /\ kind \in Kinds
    /\ receipt \in Receipts \union {None}
    /\ local \in {"none", "made", "whole", "linked"}
    /\ prog \in [Programs -> ProgramStates]
    /\ holder \in Programs \union {None}
    /\ wire \subseteq Calls /\ applied \subseteq Calls /\ already \subseteq Calls
    /\ posted \in [Calls -> Nat]

(* No call is ever posted twice for one request, whatever command is given    *)
(* after whatever crash, time-out or lost answer: a second upload or deletion *)
(* is what the receipts are there to prevent.                                 *)
SubmittedOnce == \A c \in Calls : posted[c] <= 1

(* A request that says it is complete is: everything it was to do shows on    *)
(* the platform, except what was not needed. And nothing becomes visible      *)
(* before its parts: a backup or release is finished only with every file it  *)
(* refers to stored.                                                          *)
CompleteIsWhole ==
    receipt # None /\ receipt.over = "complete" =>
        \A c \in Calls : receipt.says[c] # "spared" => Stored(c)
PartsFirst ==
    receipt # None /\ applied \intersect {Finish, Post} # {} =>
        \A c \in Puts \union Stores : receipt.says[c] # "spared" => Stored(c)
NothingMissing == CompleteIsWhole /\ PartsFirst

(* A verdict is final: a rejected request is never verified from what         *)
(* somebody else did, a complete one never reopened. The two DD operations    *)
(* that are verified without the lease are left out; see RejectionRetained.   *)
Final == receipt # None /\ receipt.over # "open" => receipt'.over = receipt.over
VerdictStays == [][kind \notin {"dd_change", "dd_backup"} => Final]_vars

(* Intents that no command reads back: the platform's answer is needed to go  *)
(* on, and it is lost with the program that waited for it.                    *)
Unreadable(c) ==
    \/ c = Allocate \/ c = Reserve \/ c \in Stores
    \/ c \in Puts /\ kind = "nb_backup"
    \/ c = Post /\ kind \in {"nb_create", "nb_official", "dd_object"}

ShowsInDoubt ==
    receipt # None /\ receipt.over = "open" /\
        \E c \in Calls :
            receipt.says[c] = "uncertain" /\ Shows(c) /\ ~Unreadable(c)

(* A call whose answer was lost is not left in doubt for ever once its effect *)
(* shows: some command finds it, from whatever stage the request stopped at.  *)
(* (At most one call of a request is in doubt at a time.)                     *)
DoubtEnds == ShowsInDoubt ~> ~ShowsInDoubt

(* A rejected request keeps its rejection (dd_operation.go: "retain its       *)
(* receipt"), also where "operation verify" takes no lease.                   *)
RejectionRetained ==
    [][receipt # None /\ receipt.over = "rejected"
           => receipt'.over = "rejected"]_vars
=============================================================================
