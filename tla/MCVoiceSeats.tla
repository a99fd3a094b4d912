----------------------------- MODULE MCVoiceSeats -----------------------------
(* Small instances of VoiceSeats for TLC. *)
EXTENDS VoiceSeats, TLC

CONSTANT u1

\* All connections belong to one user: what a user's devices do to each other is the question.
OneOwner == [c \in Conns |-> u1]

Symmetry == Permutations(Conns) \cup Permutations(Jobs)
===============================================================================
