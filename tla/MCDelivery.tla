------------------------------ MODULE MCDelivery ------------------------------
(* Two programs, two connections and two windows of one game. *)
EXTENDS AddonDelivery, TLC
CONSTANTS one, two, first, second, west, east, older, newer

MCPrograms == {one, two}
MCConns    == {first, second}
MCWindows  == {west, east}
MCProcess  == [w \in Windows |-> 1]
MCVersions == {older, newer}
MCSymmetry ==
    {p @@ c @@ w @@ v : p \in Permutations(MCPrograms), c \in Permutations(MCConns),
                        w \in Permutations(MCWindows), v \in Permutations(MCVersions)}
=============================================================================
