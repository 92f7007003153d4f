------------------------------ MODULE SlotWire ------------------------------
(***************************************************************************)
(* What travels between a connection driver (internal/live/channel) and    *)
(* the addon of the game it is attached to (addon/Bridge): envelopes,      *)
(* written into numbered slot files that the addon loads, and receipts,    *)
(* which the driver reads from the memory of the game.                     *)
(*                                                                         *)
(* Random 128-bit tokens (nonces, tickets) are natural numbers, handed     *)
(* out once.  The runtime token starts with a generation counter that the  *)
(* addon persists, so runtimes are numbered in the order they start.       *)
(* fence (always 1 in this code), guid, build, product and release never   *)
(* change inside one connection and are left out.  The challenge of a      *)
(* prepared job is always checked together with its prepare nonce and is   *)
(* merged with it.                                                         *)
(***************************************************************************)
EXTENDS Naturals, FiniteSets

CONSTANTS
    Slots,          \* number of physical slot files (500 in the code)
    MaxRuntime,     \* bound: how many Lua runtimes one game process starts
    MaxOps,         \* bound: business operations of one connection
    MaxAttempts,    \* attempts per operation (3 in the code)
    Drivers,        \* connections that share the pool, one game process each
    None,           \* the absent value
    Inert           \* the payload of a slot nobody published to

ASSUME SlotWireAssumption ==
    /\ Slots \in Nat \ {0}
    /\ MaxRuntime \in Nat \ {0}
    /\ MaxOps \in Nat \ {0}
    /\ MaxAttempts \in Nat \ {0}
    /\ None \notin Drivers

-----------------------------------------------------------------------------
Index    == 1..Slots
NextSlot == 1..(Slots + 1)
Runtimes == 0..MaxRuntime      \* 0 is a runtime of some other client
Action   == {"bind", "prepare", "commit", "confirm", "release", "unbind"}
Ticket   == (1..MaxOps) \X (1..MaxAttempts)
Report   == {"ok", "failed"}

ASSUME NoneIsNoValue == None \notin Ticket /\ None \notin Runtimes /\ None \notin Report

\* Every action on an operation carries the ticket of its attempt.
Envelope ==
    {e \in [nonce   : Nat \ {0},
            action  : Action,
            runtime : Runtimes,
            owner   : Drivers,
            ticket  : Ticket \cup {None},
            start   : Index,              \* first slot of the route
            index   : Index,              \* the slot that holds the envelope
            prep    : Nat,                \* prepare nonce, of a commit; else 0
            report  : Report \cup {None}] : \* digest, of a release
        e.action \in {"prepare", "commit", "confirm", "release"} =>
            e.ticket \in Ticket}

Payload == Envelope \cup {Inert}

ASSUME NoneIsNoPayload == None \notin Payload /\ Inert \notin Envelope

ReceiptState ==
    {"bound", "prepared", "accepted", "running", "reported", "released",
     "absent", "unbound", "rejected"}

Reason ==
    {"", "slot_owner_busy", "slot_owner_mismatch", "slot_busy",
     "slot_operation_exists", "slot_capacity", "slot_commit_mismatch",
     "slot_release_mismatch", "slot_resources_pending"}

Receipt ==
    [nonce   : Nat,
     action  : Action,
     ticket  : Ticket \cup {None},
     runtime : Runtimes,
     owner   : Drivers \cup {None},
     next    : NextSlot,
     state   : ReceiptState,
     reason  : Reason,
     prep    : Nat,
     report  : Report \cup {None}]
=============================================================================
