----------------------------- MODULE Connections -----------------------------
(* What the parts of a connection project share: the connections. *)
CONSTANTS None,     \* nothing, where something may be
          Conns     \* connections, by identifier

ASSUME NoneIsNoConnection == None \notin Conns
=============================================================================
