-------------------------------- MODULE BlockBook --------------------------------
(***************************************************************************)
(* What a book of channel blocks promises, whatever keeps it (the server   *)
(* keeps a map in memory and a table, ChannelBlocks.tla): per channel and  *)
(* member one block or none is in force; while a change is asked for,      *)
(* either the old or the new value shows, also after a crash; once it is   *)
(* answered, the new one.  A block ends by itself when its time is over.   *)
(* Nothing is promised of a key on which changes clash, until the next     *)
(* crash has made the table the truth again.                               *)
(***************************************************************************)
CONSTANTS
  Keys,    \* channel and member
  Blocks,
  None,    \* no block
  Nobody,  \* no change is asked for
  Unsure   \* changes clashed

VARIABLES
  book,   \* what is in force
  may,    \* what a crash or the change under way may make of it
  asked   \* the value a change under way is to bring

vars == <<book, may, asked>>

Values == Blocks \cup {None}

Init ==
  /\ book = [k \in Keys |-> None]
  /\ may = [k \in Keys |-> {None}]
  /\ asked = [k \in Keys |-> Nobody]

Same(k) == book'[k] = book[k] /\ may'[k] = may[k] /\ asked'[k] = asked[k]

\* A change is asked for.
Begin(k) ==
  \E v \in Values :
    /\ asked[k] = Nobody /\ asked'[k] = v
    /\ may'[k] = may[k] \cup {v} /\ book'[k] \in may'[k]

\* The change gets on.
Narrow(k) ==
  /\ asked[k] # Nobody /\ asked'[k] = asked[k]
  /\ may'[k] \subseteq may[k] /\ book'[k] \in may'[k]

\* The change is over: it has happened, or it failed and may have happened in part.
End(k) ==
  /\ asked[k] # Nobody /\ asked'[k] = Nobody
  /\ may'[k] \subseteq may[k] /\ book'[k] \in may'[k]

Clash(k) == book'[k] = Unsure /\ may'[k] = {Unsure} /\ asked'[k] = Nobody

Change == \A k \in Keys : Same(k) \/ Begin(k) \/ Narrow(k) \/ End(k) \/ Clash(k)

\* The time of some blocks is over.
Without(bs, v) == IF v \in bs THEN None ELSE v
Over ==
  \E bs \in SUBSET Blocks :
    /\ book' = [k \in Keys |-> Without(bs, book[k])]
    /\ may' = [k \in Keys |-> {Without(bs, v) : v \in may[k]}]
    /\ asked' = [k \in Keys |-> Without(bs, asked[k])]

Crash ==
  \A k \in Keys :
    /\ book'[k] \in Values
    /\ Unsure \in may[k] \/ book'[k] \in may[k]
    /\ may'[k] = {book'[k]} /\ asked'[k] = Nobody

Next == Change \/ Over \/ Crash

Spec == Init /\ [][Next]_vars
==================================================================================
