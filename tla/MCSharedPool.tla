---------------------------- MODULE MCSharedPool ----------------------------
(* Two connections on a pool of a few slots. *)
EXTENDS SharedPool, TLC
CONSTANTS here, there

MCDrivers == {here, there}
MCSymmetry == Permutations(MCDrivers)
=============================================================================
