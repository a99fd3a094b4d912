-------------------------------- MODULE MCHub --------------------------------
(* Small instances of Hub for TLC. *)
EXTENDS Hub, FiniteSets, TLC

\* Connections are alike, and so are users and games.
Symmetry == Permutations(Conns) \cup Permutations(Users) \cup Permutations(Games)

\* Bound of the run about safety: one connection at a time is frozen, one waits with a report, one is in
\* its handshake or about to close, and none closes during its handshake.
OneAtATime ==
  /\ Cardinality(silent) <= 1
  /\ Cardinality({c \in Conns : waiting[c] # <<>>}) <= 1
  /\ Cardinality(joining \cup dying) <= 1
  /\ over = {}

\* Bound of the run about liveness: nobody plays.
NobodyPlays == cooling = {}
==============================================================================
