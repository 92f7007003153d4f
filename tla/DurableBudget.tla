---------------------------- MODULE DurableBudget ----------------------------
(***************************************************************************)
(* The budget of one goal: an absolute window of wall clock time, kept in  *)
(* the journal.  The wall clock may show anything when it is read.         *)
(***************************************************************************)
EXTENDS Integers

CONSTANTS Times,     \* bound: what the wall clock may show
          Starts,    \* bound: what it shows when a goal is set
          Duration   \* the length of a budget

ASSUME BudgetAssumption ==
    /\ Times \subseteq Nat /\ Starts \subseteq Times
    /\ Duration \in Nat \ {0}

Budget == [deadline : Nat, last : Nat, exhausted : BOOLEAN, rollback : BOOLEAN]

NewDurableBudget(now) ==
    [deadline |-> now + Duration, last |-> now,
     exhausted |-> FALSE, rollback |-> FALSE]

\* Mutation of Observe: exhaustion is not sticky.
ObserveAfresh(b, now) ==
    IF now < b.last THEN [b EXCEPT !.exhausted = TRUE, !.rollback = TRUE]
    ELSE [b EXCEPT !.last = now, !.exhausted = now >= b.deadline]

Observe(b, now) ==
    IF b.exhausted THEN b
    ELSE IF now < b.last THEN [b EXCEPT !.exhausted = TRUE, !.rollback = TRUE]
    ELSE [b EXCEPT !.last = now, !.exhausted = now >= b.deadline]
=============================================================================
