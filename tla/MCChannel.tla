----------------------------- MODULE MCChannel ------------------------------
(* Small instances of Channel for TLC. *)
EXTENDS ChannelClaims, ChannelPromise
CONSTANTS me, other

MCDrivers == {me, other}
MCForeignSlots == {2}
MCNoForeign == {}
MCFreshCursor == {1}
MCUsedCursors == {1, 9}
MCFreshJobs == {0}
MCAnyJobs == {0, 2}
MCSlotsReady == {FALSE}
MCSlotsUnready == BOOLEAN
MCOpaque == {"opaque"}
MCObservation == {"observation"}
=============================================================================
