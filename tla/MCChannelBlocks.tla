---------------------------- MODULE MCChannelBlocks ----------------------------
(* Small instances of ChannelBlocks for TLC: blocks are changed in one channel, the other is somewhere  *)
(* else to sit, to join and to be moved to.                                                             *)
EXTENDS ChannelBlocks

CONSTANT Blocked

Requesting == {r \in Requests : request[r] # Idle}

\* Changes in the one channel (a kick's clear has the keys of both); at most two ways in; and with one of
\* them into the other channel, one request at a time.
FewWays ==
  /\ \A r \in Requests : \A k \in request[r].keys : k[1] = Blocked \/ request[r].kind = "clear"
  /\ \A u \in Users : Cardinality(seat[u]) + Cardinality({joining[u], grant[u]} \cap Channels) <= 2
  /\ (\E u \in Users : Ways(u) \ {Blocked} # {}) => Cardinality(Requesting) <= 1 /\ clashed = {}
===============================================================================
