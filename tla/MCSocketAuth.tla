----------------------------- MODULE MCSocketAuth -----------------------------
(* Small instance of SocketAuth for TLC. *)
EXTENDS SocketAuth, Naturals

CONSTANT u1

\* Everything belongs to one user: the interesting races are between one user's own rights.
OneOwner == [t \in Sessions |-> u1]

\* Of what cannot be undone one thing happens: a session (its end, its refused device), a suspension or
\* a deleted account; a state beyond it is checked, and nothing follows it.
OneLoss == Cardinality(past \cup refused) + Cardinality(suspended) + Cardinality(Users \ known) <= 1
===============================================================================
