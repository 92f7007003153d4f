---------------------------- MODULE ProjectLedger ----------------------------
(* The ledger that the journals of a project keep. *)
EXTENDS Project

Phase(c) ==
    IF Events(c) = <<>> THEN "new"
    ELSE LET s == Latest(c) IN
         IF s.closed THEN "closed" ELSE IF s.closing THEN "closing" ELSE "open"

Ledger == INSTANCE RequestLedger WITH
    stage <- saved,
    phase <- [c \in Conns |-> Phase(c)],
    ran   <- effects,
    lost  <- outrun

(* The project keeps the ledger: whatever programs do at the same time,    *)
(* wherever they end and however the journal is repaired and archived, no  *)
(* request is forgotten, taken back or run a second time, one is under way *)
(* at a time, and a closed connection stays closed.  A connection whose    *)
(* creator was outrun is lost to the ledger from then on.                  *)
KeepsLedger == Ledger!Spec
=============================================================================
