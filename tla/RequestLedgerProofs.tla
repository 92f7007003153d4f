------------------------- MODULE RequestLedgerProofs -------------------------
(***************************************************************************)
(* What the ledger of requests means to a caller.                          *)
(***************************************************************************)
EXTENDS RequestLedger, TLAPS

\* The connections whose ledger is kept.
Kept == Conns \ lost

(* The code of a request is run at most once.                              *)
RunsOnce == \A c \in Kept, r \in Requests : ran[c][r] \in {0, 1}

(* A request that is cancelled was not run, and will not be.               *)
CancelledNeverRuns ==
    \A c \in Kept, r \in Requests : stage[c][r] = "cancelled" => ran[c][r] = 0

(* One request is under way at a time.                                     *)
OneUnderWay ==
    \A c \in Kept, q, r \in Requests :
        stage[c][q] \in {"prepared", "sent"} /\ stage[c][r] \in {"prepared", "sent"} => q = r

LedgerTyped ==
    /\ stage \in [Conns -> [Requests -> Stages]]
    /\ ran \in [Conns -> [Requests -> Nat]]

\* What was run was sent before; what is under way is alone; after a close
\* nothing is under way.
LedgerInv ==
    /\ LedgerTyped /\ RunsOnce /\ OneUnderWay
    /\ \A c \in Kept, r \in Requests : ran[c][r] # 0 => stage[c][r] \in {"sent", "complete"}

LEMMA LedgerStep == LedgerInv /\ [Next]_vars => LedgerInv'
<1> SUFFICES ASSUME LedgerInv, [Next]_vars PROVE LedgerInv' OBVIOUS
<1> USE DEF LedgerInv, LedgerTyped, RunsOnce, OneUnderWay, Stages, Finished, Kept
<1>1. CASE UNCHANGED vars
  BY <1>1 DEF vars
<1>2. ASSUME NEW c \in Conns, NEW from, NEW to, Turn(c, from, to) PROVE LedgerInv'
  BY <1>2 DEF Turn
<1>3. ASSUME NEW c \in Conns, Close(c) PROVE LedgerInv'
  BY <1>2, <1>3 DEF Close
<1>4. ASSUME NEW c \in Conns, NEW r \in Requests, Prepare(c, r) PROVE LedgerInv'
  BY <1>4 DEF Prepare, Set
<1>5. ASSUME NEW c \in Conns, NEW r \in Requests, Send(c, r) PROVE LedgerInv'
  BY <1>5 DEF Send, Set
<1>6. ASSUME NEW c \in Conns, NEW r \in Requests, Run(c, r) PROVE LedgerInv'
  BY <1>6 DEF Run
<1>7. ASSUME NEW c \in Conns, NEW r \in Requests, Complete(c, r) PROVE LedgerInv'
  BY <1>7 DEF Complete, Set
<1>8. ASSUME NEW c \in Conns, NEW r \in Requests, Cancel(c, r) PROVE LedgerInv'
  BY <1>8 DEF Cancel, Set
<1>9. ASSUME NEW c \in Conns, Lose(c) PROVE LedgerInv'
  BY <1>9 DEF Lose
<1>10. ASSUME NEW c \in Conns, Stray(c) PROVE LedgerInv'
  BY <1>10 DEF Stray
<1> QED BY <1>1, <1>2, <1>3, <1>4, <1>5, <1>6, <1>7, <1>8, <1>9, <1>10 DEF Next

(* What KeepsLedger means: no program, crash or repair makes the code of a *)
(* request run twice, or run although the caller was told that it was      *)
(* cancelled, as long as the ledger of the connection is not lost.         *)
THEOREM LedgerRunsOnce == Spec => [](RunsOnce /\ CancelledNeverRuns /\ OneUnderWay)
<1>1. Init => LedgerInv
  BY DEF Init, LedgerInv, LedgerTyped, RunsOnce, OneUnderWay, Stages, Finished, Kept
<1>2. LedgerInv => RunsOnce /\ CancelledNeverRuns /\ OneUnderWay
  BY DEF LedgerInv, CancelledNeverRuns
<1> QED BY <1>1, <1>2, LedgerStep, PTL DEF Spec
=============================================================================
