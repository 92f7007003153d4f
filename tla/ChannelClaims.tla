--------------------------- MODULE ChannelClaims ----------------------------
(***************************************************************************)
(* What comments and documents of the repository promise of a connection   *)
(* and the code of internal/live/channel does not keep: each formula is    *)
(* refuted by a run of its own.                                            *)
(***************************************************************************)
EXTENDS Channel

(* A saved proof that the old runtime is gone is enough to retire the      *)
(* claims of this connection ("Its positive destruction proof is enough to *)
(* retire the original claims without replaying business", stepReload; it  *)
(* "remains usable after another reload/crash", closeReplacedRuntime).     *)
(* The transaction kept by a completed recovery was already retired under  *)
(* the proof of an earlier runtime, and RetireSlotRuntime refuses to       *)
(* retire it again under another one.                                      *)
RetirementNeverConflicts ==
    runtimeEnd # None =>
        \A t \in OldClaims : ~RetireRuntimeConflict(Self, t.env, runtimeEnd)

(* A reload that is due can be asked for whatever receipt was lost ("A     *)
(* lost receipt must not disable the control action", inputObservation).   *)
(* After a lost bind or unbind receipt the engine and the journal differ   *)
(* about the owner, and the observation that a reload needs is refused.    *)
ReloadAuthorizable ==
    /\ Admitted /\ ReloadActive /\ reload.phase = "intent"
    /\ live = identity.runtime
    => owner = identity.owner
=============================================================================
