------------------------------- MODULE MCVoteKick -------------------------------
(* Small instances of VoteKick for TLC. *)
EXTENDS VoteKick, TLC

Alike == Permutations(Users \ Moderators) \cup Permutations(Votes)
=================================================================================
