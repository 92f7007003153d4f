------------------------------ MODULE MCProject ------------------------------
(* Two programs that share a connection. *)
EXTENDS ProjectLedger, TLC
CONSTANTS one, two, first, west, ask1, ask2, ask3, ask4,
          OutrunEvents   \* bound: events written to an outrun connection, in all

MCPrograms == {one, two}
MCConns    == {first}
MCWindows  == {west}
MCProcess  == [w \in Windows |-> 1]
MCRequests == {ask1, ask2, ask3, ask4}
MCStarts   == {2}
MCClock    == 1..3
MCSymmetry == Permutations(MCPrograms) \cup Permutations(MCRequests)

\* A connection that was outrun is not followed for ever.
FollowOutrun == \A c \in outrun : Checksum(Events(c)) <= OutrunEvents
=============================================================================
