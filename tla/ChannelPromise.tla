--------------------------- MODULE ChannelPromise ---------------------------
(***************************************************************************)
(* Channel implements OperationPromise: how the journal, the result files  *)
(* and the history of the game show the state of every operation.          *)
(***************************************************************************)
EXTENDS Channel

StatusOf(o) ==
    IF op = None \/ op.id < o THEN "none"
    ELSE IF op.id > o \/ op.stage = "complete" THEN "delivered"
    ELSE IF op.stage = "cancelled" THEN "cancelled"
    ELSE IF op.stage = "execution_unknown" THEN "unknown"
    ELSE "open"

AnswerOf(o) ==
    IF StatusOf(o) # "delivered" THEN None
    ELSE IF op.id = o THEN op.report
    ELSE results[o]

\* The starts of the code of o, numbered for each of its attempts.
StartsOf(o) == UNION {{t} \X (1..runs[t]) : t \in AttemptsOf(o)}
ExecutionsOf(o) == Cardinality(StartsOf(o))

Abstract ==
    INSTANCE OperationPromise WITH
        status     <- [o \in Operations |-> StatusOf(o)],
        executions <- [o \in Operations |-> ExecutionsOf(o)],
        answer     <- [o \in Operations |-> AnswerOf(o)]

(* The whole machinery of slots, keys, receipts, reloads, recoveries and   *)
(* retirements keeps the promise of OperationPromise: in particular no     *)
(* code of an operation starts after the journal says how it ended, which  *)
(* no property of a single component says.                                 *)
Promise == Abstract!Spec
=============================================================================
