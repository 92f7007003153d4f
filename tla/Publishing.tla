----------------------------- MODULE Publishing -----------------------------
(* One publication request of internal/publish: the calls it makes to a       *)
(* platform, the receipt it keeps of them in the home directory, and the      *)
(* programs that work on it. Every program is one command ("run", "resume" or *)
(* "verify") that may end at any point; a call it posted stays on the wire.   *)
(* What is common to the five platforms is here; CurseForge, NewBee, DD,      *)
(* BlackBox and ModUs say when a command saves its receipt and when it posts. *)
EXTENDS Integers, FiniteSets
CONSTANTS
    Programs,   \* commands that may run at the same time
    NFiles,     \* files, or items to delete, of a request
    MaxOutside, \* effects somebody else may bring about (bound)
    None

ASSUME PublishingAssumption ==
    /\ NFiles \in Nat /\ MaxOutside \in Nat
    /\ None \notin Programs

Files == 1..NFiles
Post == <<"post", 0>>              \* the one call of an ordinary change
Reserve == <<"reserve", 0>>        \* the number of a new release
Metadata == <<"metadata", 0>>
Binary == <<"binary", 0>>
Allocate == <<"allocate", 0>>      \* the identity of a new backup
Finish == <<"finish", 0>>          \* what makes a backup visible
Rename == <<"rename", 0>>
Put(i) == <<"put", i>>             \* the bytes of one file
Store(i) == <<"store", i>>         \* the platform's record of one file
Delete(i) == <<"delete", i>>
Puts == {Put(i) : i \in Files}
Stores == {Store(i) : i \in Files}
Deletes == {Delete(i) : i \in Files}
Calls == {Post, Reserve, Metadata, Binary, Allocate, Finish, Rename}
            \union Puts \union Stores \union Deletes

(* What a receipt says of a call: not made; intended, so perhaps made;        *)
(* acknowledged by the platform; confirmed; not needed.                       *)
Marks == {"unsent", "uncertain", "submitted", "settled", "spared"}
Receipts == [says : [Calls -> Marks], over : {"open", "rejected", "complete"}]
ASSUME ReceiptAssumption == None \notin Receipts
Commands == {"run", "resume", "verify"}
Phases == {"idle", "turn", "preparing", "posting", "waiting", "answered",
           "refused"}
ProgramStates == [pc : Phases, command : Commands \union {None},
                  copy : Receipts \union {None}, call : Calls \union {None},
                  checked : BOOLEAN]
Idle == [pc |-> "idle", command |-> None, copy |-> None, call |-> None,
         checked |-> FALSE]

VARIABLES
    kind,      \* what the request asks for; fixed when it is made
    receipt,   \* the receipt on disk, None before the first save
    local,     \* the request's own files beside it: "none", "made", "whole"
    prog,      \* the programs, each with the receipt it holds in memory
    holder,    \* the program that holds the lease of the request
    wire,      \* calls on their way
    applied,   \* calls the platform has carried out
    already,   \* calls whose effect somebody else has brought about
    posted     \* how often each call was put on the wire (history)
vars == <<kind, receipt, local, prog, holder, wire, applied, already, posted>>
remote == <<wire, applied, already, posted>>

(* The calls a request of this kind may come to make.                         *)
MayMake ==
    CASE kind \in {"nb_delete", "dd_delete", "bb_delete", "modus_delete"} ->
            Deletes
      [] kind \in {"bb_rename", "modus_rename"} -> {Rename}
      [] kind \in {"bb_edit", "bb_create"} -> {Binary, Post}
      [] kind = "modus_release" -> {Reserve, Metadata, Binary}
      [] kind = "nb_backup" -> Puts \union {Post, Rename}
      [] kind = "dd_backup" -> Puts \union {Allocate, Finish, Rename}
      [] kind = "bb_backup" -> Puts \union {Allocate, Finish}
      [] kind = "modus_backup" -> Puts \union Stores \union {Finish}
      [] OTHER -> {Post}

(* The effect of a call is there, whoever brought it about.                   *)
Stored(c) == c \in applied \union already

(* Readback finds it. What a request creates without learning its name is     *)
(* found as the one item of that content that was not there before.           *)
Creates(c) == c = Post /\ kind \in {"nb_backup", "bb_create"}
Shows(c) == Stored(c) /\ (Creates(c) => ~(c \in applied /\ c \in already))

Says(r, c) == r.says[c]
Those(r, C, m) == {c \in C : r.says[c] = m}
Mark(r, c, m) == [r EXCEPT !.says[c] = m]
Close(r, verdict) == [r EXCEPT !.over = verdict]
Settle(r, c) == Mark(r, c, "settled")
Complete(r) ==
    [says |-> [c \in Calls |->
                  IF r.says[c] = "spared" THEN "spared" ELSE "settled"],
     over |-> "complete"]
Done(r, C) == \A c \in C : r.says[c] \in {"settled", "spared"}

(* A receipt that a new request with these calls starts from.                 *)
FreshReceipt(C) ==
    [says |-> [c \in Calls |-> IF c \in C THEN "unsent" ELSE "spared"],
     over |-> "open"]

InTurn(p) == prog[p].pc = "turn"
New(p) ==
    InTurn(p) /\ prog[p].command = "run" /\ prog[p].copy = None /\ receipt = None
Holding(p) == prog[p].copy # None /\ prog[p].copy.over = "open"
Open(p) == InTurn(p) /\ Holding(p)
Answered(p) == prog[p].pc = "answered" /\ Holding(p)
Preparing(p) == prog[p].pc = "preparing" /\ Holding(p)
Refused(p) == prog[p].pc = "refused" /\ Holding(p)
Does(p, c) == prog[p].call = c
Command(p, C) == prog[p].command \in C
Has(p, c, m) == prog[p].copy.says[c] = m
-----------------------------------------------------------------------------
(* vault.ReplaceFile: the receipt is replaced as a whole.                     *)
Save(p, r) ==
    /\ receipt' = r
    /\ prog' = [prog EXCEPT ![p].pc = "turn", ![p].copy = r, ![p].call = None]
    /\ UNCHANGED <<kind, local, holder, remote>>

(* The first save of a new request.                                           *)
Create(p, r) ==
    /\ receipt' = r
    /\ prog' = [prog EXCEPT ![p].pc = "turn", ![p].copy = r, ![p].checked = TRUE]
    /\ UNCHANGED <<kind, local, holder, remote>>

\* Mutation of Intend: the receipt is only changed in memory.
IntendUnsaved(p, c, r) ==
    /\ prog' = [prog EXCEPT ![p].pc = "posting", ![p].call = c,
                            ![p].copy = Mark(r, c, "uncertain"),
                            ![p].checked = TRUE]
    /\ UNCHANGED <<kind, receipt, local, holder, remote>>

(* The intent to make a call is saved, and the call is next.                  *)
Intend(p, c, r) ==
    /\ receipt' = Mark(r, c, "uncertain")
    /\ prog' = [prog EXCEPT ![p].pc = "posting", ![p].call = c,
                            ![p].copy = Mark(r, c, "uncertain"),
                            ![p].checked = TRUE]
    /\ UNCHANGED <<kind, local, holder, remote>>

(* The files of the request are made, and its receipt so far only in memory.  *)
PrepareFiles(p, state, r) ==
    /\ local' = state
    /\ prog' = [prog EXCEPT ![p].pc = "preparing", ![p].copy = r]
    /\ UNCHANGED <<kind, receipt, holder, remote>>

(* A command has looked at all it must see before its first call.             *)
Check(p) ==
    /\ prog' = [prog EXCEPT ![p].checked = TRUE]
    /\ UNCHANGED <<kind, receipt, local, holder, remote>>

\* Mutation of Unleased: the verification of no platform takes the lease.
UnleasedAll(cmd) == cmd = "verify"

(* Of DD's commands "operation verify" takes no lease (dd.go).                *)
Unleased(cmd) == kind \in {"dd_change", "dd_backup"} /\ cmd = "verify"

(* A command takes the lease of its request and reads the receipt.            *)
Begin(p, cmd) ==
    /\ prog[p].pc = "idle"
    /\ IF Unleased(cmd) THEN UNCHANGED holder
                        ELSE holder = None /\ holder' = p
    /\ prog' = [prog EXCEPT ![p] = [Idle EXCEPT !.pc = "turn", !.command = cmd,
                                                !.copy = receipt]]
    /\ UNCHANGED <<kind, receipt, local, remote>>

(* A command ends: its work is done, it was refused, an error or a time-out   *)
(* was returned, or the program died. The lease is released with it.          *)
Stop(p) ==
    /\ prog[p].pc # "idle"
    /\ prog' = [prog EXCEPT ![p] = Idle]
    /\ holder' = IF holder = p THEN None ELSE holder
    /\ UNCHANGED <<kind, receipt, local, remote>>

(* The call goes out.                                                         *)
PostCall(p) ==
    /\ prog[p].pc = "posting"
    /\ prog' = [prog EXCEPT ![p].pc = "waiting"]
    /\ wire' = wire \union {prog[p].call}
    /\ posted' = [posted EXCEPT ![prog[p].call] = @ + 1]
    /\ UNCHANGED <<kind, receipt, local, holder, applied, already>>

(* The platform carries a call out; the answer reaches the program that       *)
(* waits for it, if one still does, or is lost.                               *)
Arrive(c) ==
    /\ c \in wire
    /\ wire' = wire \ {c}
    /\ applied' = applied \union {c}
    /\ \/ UNCHANGED prog
       \/ \E p \in Programs :
              /\ prog[p].pc = "waiting" /\ prog[p].call = c
              /\ prog' = [prog EXCEPT ![p].pc = "answered"]
    /\ UNCHANGED <<kind, receipt, local, holder, already, posted>>

(* The platform turns a call down, or the call is lost.                       *)
Decline(c) ==
    /\ c \in wire
    /\ wire' = wire \ {c}
    /\ \/ UNCHANGED prog
       \/ \E p \in Programs :
              /\ prog[p].pc = "waiting" /\ prog[p].call = c
              /\ prog' = [prog EXCEPT ![p].pc = "refused"]
    /\ UNCHANGED <<kind, receipt, local, holder, applied, already, posted>>

(* Somebody else uploads the same bytes, sets the same fields or removes the  *)
(* same item: a readback cannot tell. What carries an identity that only this *)
(* request was given comes from nobody else.                                  *)
Outside(c) ==
    /\ c \in MayMake \ ({Reserve, Allocate, Finish} \union Stores)
    /\ c \notin already /\ (Creates(c) => receipt # None)
    /\ Cardinality(already) < MaxOutside
    /\ already' = already \union {c}
    /\ UNCHANGED <<kind, receipt, local, prog, holder, wire, applied, posted>>
=============================================================================
