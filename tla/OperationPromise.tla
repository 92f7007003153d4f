-------------------------- MODULE OperationPromise --------------------------
(***************************************************************************)
(* What a connection promises for the business operations it is given,     *)
(* without slots, receipts, runtimes or journals (docs/live-protocol.md,   *)
(* section 5, and the comment of Driver.Run): operations are taken one at  *)
(* a time; each ends delivered, cancelled or with its execution unknown,   *)
(* and nothing is executed for it once it has ended; an opaque one is      *)
(* executed at most once; an answer is that of the execution which ended   *)
(* last; a cancelled opaque operation was not executed.                    *)
(***************************************************************************)
EXTENDS Naturals

CONSTANTS
    MaxOps,       \* bound: operations of one connection
    MaxAttempts,  \* executions that an observation may take
    Report,       \* what an execution ends with
    None

VARIABLES
    policy,       \* operation |-> "opaque" or "observation"
    status,       \* operation |-> how far it is
    executions,   \* operation |-> how often its code was started
    answer        \* operation |-> the report handed to the user

vars == <<policy, status, executions, answer>>

Operations == 1..MaxOps
Status == {"none", "open", "delivered", "cancelled", "unknown"}

Init ==
    /\ policy \in [Operations -> {"opaque", "observation"}]
    /\ status = [o \in Operations |-> "none"]
    /\ executions = [o \in Operations |-> 0]
    /\ answer = [o \in Operations |-> None]

Accept(o) ==
    /\ status[o] = "none"
    /\ \A p \in 1..(o - 1) : status[p] = "delivered"
    /\ status' = [status EXCEPT ![o] = "open"]
    /\ UNCHANGED <<policy, executions, answer>>

Execute(o) ==
    /\ status[o] = "open"
    /\ executions[o] < IF policy[o] = "opaque" THEN 1 ELSE MaxAttempts
    /\ executions' = [executions EXCEPT ![o] = @ + 1]
    /\ UNCHANGED <<policy, status, answer>>

\* Code that does not compile, or that the player stops before it starts,
\* is answered with a failure without having been executed.
Deliver(o) ==
    /\ status[o] = "open"
    /\ \E r \in Report :
         /\ r = "failed" \/ executions[o] > 0
         /\ answer' = [answer EXCEPT ![o] = r]
    /\ status' = [status EXCEPT ![o] = "delivered"]
    /\ UNCHANGED <<policy, executions>>

Cancel(o) ==
    /\ status[o] = "open"
    /\ policy[o] = "opaque" => executions[o] = 0
    /\ status' = [status EXCEPT ![o] = "cancelled"]
    /\ UNCHANGED <<policy, executions, answer>>

\* The connection ended, or was recovered, in doubt.
GiveUp(o) ==
    /\ status[o] = "open"
    /\ status' = [status EXCEPT ![o] = "unknown"]
    /\ UNCHANGED <<policy, executions, answer>>

Next ==
    \E o \in Operations :
        Accept(o) \/ Execute(o) \/ Deliver(o) \/ Cancel(o) \/ GiveUp(o)

Spec == Init /\ [][Next]_vars
=============================================================================
