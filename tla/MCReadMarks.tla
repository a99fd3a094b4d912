------------------------------ MODULE MCReadMarks ------------------------------
(* A small instance of ReadMarks for TLC. *)
EXTENDS ReadMarks

\* What is under way to the tab or from it: events, acknowledgements, requests.
Pending ==
  Cardinality(wire) + Cardinality(acks)
    + Cardinality({r \in Syncs : syncs[r] # Nothing}) + Cardinality({r \in Loads : loads[r] # Nothing})

\* Bound: a state with three things under way is checked, and nothing follows it.
AFewAtATime == Pending <= 2
===============================================================================
