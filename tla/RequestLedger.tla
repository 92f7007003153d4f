---------------------------- MODULE RequestLedger ----------------------------
(***************************************************************************)
(* What a connection project promises: a ledger of requests per            *)
(* connection.  No programs, files, locks or crashes.  The ledger of a     *)
(* connection may be lost; then nothing is promised of it any more, and    *)
(* the others are kept as before.                                          *)
(***************************************************************************)
EXTENDS Naturals

CONSTANTS Conns, Requests

VARIABLES stage,   \* of every request that a connection was ever asked
          phase,   \* of a connection
          ran,     \* how often the code of a request was run
          lost     \* connections whose ledger is lost

vars == <<stage, phase, ran, lost>>

Finished == {"complete", "cancelled"}
Stages   == {"absent", "prepared", "sent"} \cup Finished

Init ==
    /\ stage = [c \in Conns |-> [r \in Requests |-> "absent"]]
    /\ phase = [c \in Conns |-> "new"]
    /\ ran = [c \in Conns |-> [r \in Requests |-> 0]]
    /\ lost = {}

Set(c, r, from, to) ==
    /\ stage[c][r] = from
    /\ stage' = [stage EXCEPT ![c][r] = to]
    /\ UNCHANGED <<phase, ran, lost>>

Turn(c, from, to) ==
    /\ phase[c] = from
    /\ phase' = [phase EXCEPT ![c] = to]
    /\ UNCHANGED <<stage, ran, lost>>

\* One request at a time, and never one that was asked before.
Prepare(c, r) ==
    /\ phase[c] = "open"
    /\ \A q \in Requests : stage[c][q] \in {"absent", "complete"}
    /\ Set(c, r, "absent", "prepared")

Send(c, r) == phase[c] = "open" /\ Set(c, r, "prepared", "sent")

Run(c, r) ==
    /\ stage[c][r] = "sent" /\ ran[c][r] = 0
    /\ ran' = [ran EXCEPT ![c][r] = 1]
    /\ UNCHANGED <<stage, phase, lost>>

Complete(c, r) == Set(c, r, "sent", "complete")

Cancel(c, r) == phase[c] = "closing" /\ Set(c, r, "prepared", "cancelled")

Close(c) ==
    /\ \A r \in Requests : stage[c][r] \in {"absent"} \cup Finished
    /\ Turn(c, "closing", "closed")

Lose(c) == lost' = lost \cup {c} /\ UNCHANGED <<stage, phase, ran>>

\* A lost ledger may read as anything.
Stray(c) ==
    /\ c \in lost
    /\ stage' \in [Conns -> [Requests -> Stages]] /\ ran' \in [Conns -> [Requests -> Nat]]
    /\ \A d \in Conns \ {c} :
         UNCHANGED <<stage[d], phase[d], ran[d]>>
    /\ UNCHANGED lost

Next ==
    \E c \in Conns :
        \/ Turn(c, "new", "open") \/ Turn(c, "open", "closing") \/ Close(c)
        \/ Lose(c) \/ Stray(c)
        \/ \E r \in Requests :
             \/ Prepare(c, r) \/ Send(c, r) \/ Run(c, r)
             \/ Complete(c, r) \/ Cancel(c, r)

Spec == Init /\ [][Next]_vars
=============================================================================
