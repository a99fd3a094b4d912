---------------------------- MODULE ReadMarksProofs ----------------------------
(* Proofs about ReadMarks: the type invariant and that marks are kept.     *)
EXTENDS ReadMarks, WellFoundedInduction, TLAPS

-------------------------------------------------------------------------------
(* The newest of a set of messages.                                        *)

\* A set of bounded numbers has a greatest one: the rest to the bound has a least one.
LEMMA Greatest ==
  ASSUME NEW n \in Nat, NEW T, T \subseteq 0..n, T # {}
  PROVE  \E x \in T : \A y \in T : x >= y
<1> DEFINE D == {n - x : x \in T}
<1>1. D \subseteq Nat /\ D # {}
  <2>1. PICK t \in T : TRUE  OBVIOUS
  <2>2. n - t \in D  BY <2>1
  <2>3. \A x \in T : n - x \in Nat  OBVIOUS
  <2> QED  BY <2>2, <2>3
<1>2. PICK d \in D : \A e \in D : ~ (<<e, d>> \in OpToRel(<, Nat))
  <2> HIDE DEF D
  <2> QED  BY <1>1, NatLessThanWellFounded, WFMin
<1>3. \A e \in D : ~ (e < d)  BY <1>1, <1>2 DEF OpToRel
<1>4. PICK x \in T : d = n - x  OBVIOUS
<1>5. \A y \in T : x >= y
  <2> SUFFICES ASSUME NEW y \in T PROVE x >= y  OBVIOUS
  <2>1. n - y \in D /\ ~ (n - y < n - x)  BY <1>3, <1>4
  <2> QED  BY <2>1
<1> QED  BY <1>5

LEMMA LatestFacts ==
  ASSUME NEW n \in Nat, NEW T, T \subseteq 1..n
  PROVE  /\ Latest(T) \in 0..n
         /\ Latest(T) \in T \cup {0}
         /\ \A y \in T : y <= Latest(T)
<1> DEFINE U == T \cup {0}
<1>1. U \subseteq 0..n /\ U # {}  OBVIOUS
<1>2. \E x \in U : \A y \in U : x >= y  BY <1>1, Greatest
<1>3. Max(U) \in U /\ \A y \in U : Max(U) >= y  BY <1>2 DEF Max
<1> QED  BY <1>1, <1>3 DEF Latest
-------------------------------------------------------------------------------
(* The inductive invariant.                                                *)

\* Events tell of what happened.
WireSound ==
  \A e \in wire : /\ e.type = "create" => e.seq \in 1..posted
                  /\ e.type = "read" => e.seq <= lastRead

\* An answer was right when it was given.
AnswersSound ==
  /\ \A r \in Syncs : syncs[r].st = "answered" =>
       syncs[r].last <= lastRead /\ (syncs[r].unread <=> syncs[r].latest > syncs[r].last)
  /\ \A r \in Loads : loads[r].st = "answered" => loads[r].page \subseteq 1..posted
  /\ \A a \in acks : a.seq <= posted /\ (a.st = "answered" => a.seq <= lastRead)
  /\ cache.list \subseteq 1..posted

DueSound ==
  /\ \A m \in due : m <= liveLatest
  /\ due # {} => serverRead
  /\ onScreen => due = {}

IInv == TypeOK /\ WireSound /\ AnswersSound /\ DueSound /\ KeptUntilRead

LEMMA InitIInv == Init => IInv
<1> SUFFICES ASSUME Init PROVE IInv  OBVIOUS
<1> USE BoundsAreNatural DEF Init
<1>1. TypeOK
  <2>1. wire \subseteq Event /\ msgs \subseteq 1..posted /\ due \subseteq msgs  OBVIOUS
  <2>2. posted \in 0..MaxSeq /\ lastRead \in 0..posted  OBVIOUS
  <2>3. cache \in [loaded : BOOLEAN, loading : BOOLEAN, list : SUBSET Seqs]  BY DEF Empty
  <2>4. syncs \in [Syncs -> {Nothing, Sent} \cup Answer] /\ loads \in [Loads -> {Nothing, Sent} \cup Page]
    OBVIOUS
  <2>5. acks \subseteq [st : {"sent", "answered"}, seq : 0..MaxSeq]  OBVIOUS
  <2> QED  BY <2>1, <2>2, <2>3, <2>4, <2>5 DEF TypeOK
<1>2. WireSound  BY DEF WireSound
<1>3. AnswersSound  BY DEF AnswersSound, Nothing, Empty
<1>4. DueSound /\ KeptUntilRead  BY DEF DueSound, KeptUntilRead
<1> QED  BY <1>1, <1>2, <1>3, <1>4 DEF IInv

-------------------------------------------------------------------------------
(* What actions have in common.                                            *)

\* A new event is as sound as those on their way.
LEMMA TellsKeeps ==
  ASSUME TypeOK, WireSound, NEW e \in Event, Tells(e),
         posted' \in Nat, lastRead' \in Nat, posted <= posted', lastRead <= lastRead',
         e.type = "create" => e.seq \in 1..posted',
         e.type = "read" => e.seq <= lastRead'
  PROVE  wire' \subseteq Event /\ WireSound'
<1> USE BoundsAreNatural
<1>1. wire' \subseteq Event  BY DEF Tells, TypeOK
<1>2. WireSound'
  <2> SUFFICES ASSUME NEW f \in wire'
               PROVE  /\ f.type = "create" => f.seq \in 1..posted'
                      /\ f.type = "read" => f.seq <= lastRead'
    BY DEF WireSound
  <2>1. CASE f = e  BY <2>1
  <2>2. CASE f \in wire  BY <2>2 DEF WireSound, TypeOK, Event
  <2> QED  BY <2>1, <2>2 DEF Tells
<1> QED  BY <1>1, <1>2

\* An event that is handled says something sound, and the others stay so.
LEMMA HandlesFacts ==
  ASSUME TypeOK, WireSound, NEW type, NEW e, Handles(type, e), UNCHANGED server
  PROVE  /\ e \in Event
         /\ type = "create" => e.seq \in 1..posted
         /\ type = "read" => e.seq <= lastRead
         /\ wire' \subseteq Event
         /\ WireSound'
BY DEF Handles, TypeOK, WireSound, server

LEMMA RemembersFacts ==
  ASSUME TypeOK, NEW shown, shown \subseteq 1..posted, NEW known, NEW keeps, Remembers(shown, known, keeps)
  PROVE  read' \in 0..posted /\ ackTimer' \in BOOLEAN
<1>0. posted \in Nat  BY BoundsAreNatural DEF TypeOK
<1>1. Latest(shown) \in 0..posted  BY <1>0, LatestFacts
<1> QED  BY <1>1, BoundsAreNatural DEF Remembers, Larger, TypeOK

LEMMA AsksFacts ==
  ASSUME NEW requests, NEW r \in DOMAIN requests
  PROVE  /\ Asks(requests)[r] = requests[r] \/ Asks(requests)[r] = Sent
         /\ DOMAIN Asks(requests) = DOMAIN requests
BY DEF Asks

-------------------------------------------------------------------------------
(* The server's steps.                                                     *)

LEMMA PostKeeps == IInv /\ Post => IInv'
<1> SUFFICES ASSUME IInv, Post PROVE IInv'  OBVIOUS
<1> USE BoundsAreNatural DEF Post, IInv
<1>1. posted' = posted + 1 /\ posted' \in 0..MaxSeq /\ posted \in Nat  BY DEF TypeOK
<1>2. wire' \subseteq Event /\ WireSound'
  <2> DEFINE e == [type |-> "create", seq |-> posted']
  <2>1. e \in Event /\ Tells(e) /\ e.type = "create" /\ e.seq \in 1..posted'  BY <1>1 DEF Event
  <2>2. lastRead' \in Nat /\ lastRead <= lastRead'  BY <1>1 DEF TypeOK, marks
  <2> HIDE DEF e
  <2> QED  BY <1>1, <2>1, <2>2, TellsKeeps
<1>3. TypeOK'  BY <1>1, <1>2 DEF TypeOK, marks, reading
<1>4. AnswersSound'
  <2>1. 1..posted \subseteq 1..posted'  BY <1>1
  <2>2. \A a \in acks : a.seq \in Nat  BY DEF TypeOK, Seqs
  <2> QED  BY <1>1, <2>1, <2>2 DEF AnswersSound
<1>5. DueSound' /\ KeptUntilRead'  BY DEF DueSound, KeptUntilRead, marks
<1> QED  BY <1>2, <1>3, <1>4, <1>5

LEMMA DeleteKeeps == ASSUME NEW m \in Seqs PROVE IInv /\ Delete(m) => IInv'
<1> SUFFICES ASSUME IInv, Delete(m) PROVE IInv'  OBVIOUS
<1> USE BoundsAreNatural DEF Delete, IInv
<1>1. wire' \subseteq Event /\ WireSound'
  <2> DEFINE e == [type |-> "delete", seq |-> m]
  <2>1. e \in Event /\ Tells(e) /\ e.type = "delete"  BY DEF Event, Seqs
  <2>2. /\ posted' \in Nat /\ posted <= posted'
        /\ lastRead' \in Nat /\ lastRead <= lastRead'
    BY DEF TypeOK, marks
  <2> HIDE DEF e
  <2> QED  BY <2>1, <2>2, TellsKeeps
<1>2. TypeOK'  BY <1>1 DEF TypeOK, marks, reading
<1>3. AnswersSound'  BY DEF AnswersSound
<1>4. DueSound' /\ KeptUntilRead'  BY DEF DueSound, KeptUntilRead, marks
<1> QED  BY <1>1, <1>2, <1>3, <1>4

\* A reading moves the number on, and not past the newest message.
LEMMA MarkedFacts ==
  ASSUME TypeOK, NEW s \in Nat, Marked(s)
  PROVE  lastRead' \in 0..posted /\ lastRead <= lastRead'
<1>0. posted \in Nat /\ lastRead \in 0..posted /\ msgs \subseteq 1..posted  BY BoundsAreNatural DEF TypeOK
<1>1. PICK cap \in Latest(msgs)..posted : lastRead' = Larger(lastRead, IF s > cap THEN cap ELSE s)
  BY DEF Marked
<1>2. cap \in 0..posted
  <2>1. Latest(msgs) \in 0..posted  BY <1>0, LatestFacts
  <2> QED  BY <1>0, <1>1, <2>1
<1> QED  BY <1>0, <1>1, <1>2 DEF Larger

LEMMA ReadElsewhereKeeps == ASSUME NEW s \in Seqs PROVE IInv /\ ReadElsewhere(s) => IInv'
<1> SUFFICES ASSUME IInv, ReadElsewhere(s) PROVE IInv'  OBVIOUS
<1> USE BoundsAreNatural DEF ReadElsewhere, IInv
<1>1. lastRead' \in 0..posted /\ lastRead' \in 0..MaxSeq /\ lastRead \in Nat /\ lastRead <= lastRead'
  BY MarkedFacts DEF Seqs, TypeOK
<1>2. wire' \subseteq Event /\ WireSound'
  <2> DEFINE e == [type |-> "read", seq |-> lastRead']
  <2>1. e \in Event /\ Tells(e) /\ e.type = "read" /\ e.seq = lastRead'  BY <1>1 DEF Event
  <2>2. posted' \in Nat /\ posted <= posted'  BY DEF TypeOK, marks
  <2> HIDE DEF e
  <2> QED  BY <1>1, <2>1, <2>2, TellsKeeps
<1>3. TypeOK'  BY <1>1, <1>2 DEF TypeOK, marks, reading
<1>4. AnswersSound'
  <2>1. \A r \in Syncs : syncs[r].st = "answered" => syncs[r].last \in Nat
    BY DEF TypeOK, Nothing, Sent, Answer
  <2>2. \A a \in acks : a.seq \in Nat  BY DEF TypeOK, Seqs
  <2> QED  BY <1>1, <2>1, <2>2 DEF AnswersSound
<1>5. DueSound' /\ KeptUntilRead'
  <2>1. \A m \in due : m \in Nat  BY DEF TypeOK
  <2> QED  BY <1>1, <2>1 DEF DueSound, KeptUntilRead, marks
<1> QED  BY <1>2, <1>3, <1>4, <1>5

LEMMA ServeAckKeeps == ASSUME NEW a \in acks PROVE IInv /\ ServeAck(a) => IInv'
<1> SUFFICES ASSUME IInv, ServeAck(a) PROVE IInv'  OBVIOUS
<1> USE BoundsAreNatural DEF ServeAck, IInv
<1>0. a.seq \in Nat  BY DEF TypeOK
<1>1. lastRead' \in 0..posted /\ lastRead' \in 0..MaxSeq /\ lastRead \in Nat /\ lastRead <= lastRead'
  BY <1>0, MarkedFacts DEF TypeOK
<1>2. wire' \subseteq Event /\ WireSound'
  <2> DEFINE e == [type |-> "read", seq |-> lastRead']
  <2>1. e \in Event /\ Tells(e) /\ e.type = "read" /\ e.seq = lastRead'  BY <1>1 DEF Event
  <2>2. posted' \in Nat /\ posted <= posted'  BY DEF TypeOK, marks
  <2> HIDE DEF e
  <2> QED  BY <1>1, <2>1, <2>2, TellsKeeps
<1>3. acks' \subseteq [st : {"sent", "answered"}, seq : 0..MaxSeq]  BY <1>1 DEF TypeOK, Seqs
<1>4. TypeOK'  BY <1>1, <1>2, <1>3 DEF TypeOK, marks, reading
<1>5. AnswersSound'
  <2>1. \A r \in Syncs : syncs[r].st = "answered" => syncs[r].last \in Nat
    BY DEF TypeOK, Nothing, Sent, Answer
  <2>2. \A b \in acks : b.seq \in Nat  BY DEF TypeOK, Seqs
  <2>3. \A b \in acks' : b.seq <= posted' /\ (b.st = "answered" => b.seq <= lastRead')
    BY <1>1, <2>2 DEF AnswersSound
  <2> QED  BY <1>1, <2>1, <2>3 DEF AnswersSound
<1>6. DueSound' /\ KeptUntilRead'
  <2>1. \A m \in due : m \in Nat  BY DEF TypeOK
  <2> QED  BY <1>1, <2>1 DEF DueSound, KeptUntilRead, marks
<1> QED  BY <1>2, <1>4, <1>5, <1>6

LEMMA ServeSyncKeeps == ASSUME NEW r \in Syncs PROVE IInv /\ ServeSync(r) => IInv'
<1> SUFFICES ASSUME IInv, ServeSync(r) PROVE IInv'  OBVIOUS
<1> USE BoundsAreNatural DEF ServeSync, IInv, server, marks, reading
<1>0. posted \in Nat /\ msgs \subseteq 1..posted  BY DEF TypeOK
<1>1. Latest(msgs) \in 0..posted  BY <1>0, LatestFacts
<1>2. syncs' \in [Syncs -> {Nothing, Sent} \cup Answer]  BY <1>1 DEF TypeOK, Answer
<1>3. TypeOK'  BY <1>2 DEF TypeOK
<1>4. WireSound'  BY DEF WireSound
<1>5. AnswersSound'
  <2>1. \A q \in Syncs : q # r => syncs'[q] = syncs[q]  BY DEF TypeOK
  <2>2. /\ syncs'[r].last = lastRead
        /\ syncs'[r].unread <=> syncs'[r].latest > syncs'[r].last
    BY DEF TypeOK
  <2> QED  BY <2>1, <2>2 DEF AnswersSound, TypeOK
<1>6. DueSound' /\ KeptUntilRead'  BY DEF DueSound, KeptUntilRead
<1> QED  BY <1>3, <1>4, <1>5, <1>6

LEMMA ServeLoadKeeps == ASSUME NEW r \in Loads PROVE IInv /\ ServeLoad(r) => IInv'
<1> SUFFICES ASSUME IInv, ServeLoad(r) PROVE IInv'  OBVIOUS
<1> USE BoundsAreNatural DEF ServeLoad, IInv, server, marks, reading
<1>1. msgs \subseteq Seqs  BY DEF TypeOK, Seqs
<1>2. loads' \in [Loads -> {Nothing, Sent} \cup Page]  BY <1>1 DEF TypeOK, Page
<1>3. TypeOK'  BY <1>2 DEF TypeOK
<1>4. WireSound'  BY DEF WireSound
<1>5. AnswersSound'
  <2>1. \A q \in Loads : q # r => loads'[q] = loads[q]  BY DEF TypeOK
  <2>2. loads'[r].page \subseteq 1..posted  BY DEF TypeOK
  <2> QED  BY <2>1, <2>2 DEF AnswersSound
<1>6. DueSound' /\ KeptUntilRead'  BY DEF DueSound, KeptUntilRead
<1> QED  BY <1>3, <1>4, <1>5, <1>6

-------------------------------------------------------------------------------
(* The client's steps: events.                                             *)

LEMMA HandleCreateKeeps == ASSUME NEW e \in wire PROVE IInv /\ HandleCreate(e) => IInv'
<1> SUFFICES ASSUME IInv, HandleCreate(e) PROVE IInv'  OBVIOUS
<1> USE BoundsAreNatural DEF HandleCreate, IInv
<1> DEFINE m == e.seq
<1>1. Handles("create", e) /\ UNCHANGED server  OBVIOUS
<1>2. m \in 1..posted /\ m \in Seqs /\ wire' \subseteq Event
  BY <1>1, HandlesFacts DEF TypeOK, Seqs
<1>4. WireSound'  BY <1>1, HandlesFacts
<1>5. /\ cache' \in [loaded : BOOLEAN, loading : BOOLEAN, list : SUBSET Seqs]
      /\ cache'.list \subseteq cache.list \cup {m}
  <2> HIDE DEF m
  <2>1. cache' = IF cache.loaded THEN [cache EXCEPT !.list = @ \cup {m}] ELSE cache  BY DEF m
  <2> QED  BY <1>2, <2>1 DEF TypeOK
<1>6. CASE onScreen
  <2>1. Remembers({m}, acked, serverRead) /\ UNCHANGED <<unread, liveLatest, due>>  BY <1>6
  <2>2. read' \in 0..posted /\ ackTimer' \in BOOLEAN
    <3> HIDE DEF m
    <3> QED  BY <1>2, <2>1, RemembersFacts
  <2>3. TypeOK'  BY <1>2, <1>5, <2>1, <2>2 DEF TypeOK, server
  <2>4. AnswersSound'  BY <1>2, <1>5, <2>1 DEF AnswersSound, server
  <2>5. DueSound' /\ KeptUntilRead'  BY <1>6, <2>1 DEF DueSound, KeptUntilRead, server
  <2> QED  BY <1>4, <2>3, <2>4, <2>5
<1>7. CASE ~onScreen
  <2>1. /\ unread' = TRUE /\ liveLatest' = m /\ UNCHANGED <<read, ackTimer>>
        /\ due' = {d \in due \cup ({m} \cap msgs) : serverRead /\ d <= m}
    BY <1>7
  <2> HIDE DEF m
  <2>2. TypeOK'
    <3>1. due' \subseteq msgs /\ liveLatest' \in 0..posted  BY <1>2, <2>1 DEF TypeOK
    <3> QED  BY <1>2, <1>5, <2>1, <3>1 DEF TypeOK, server
  <2>3. AnswersSound'  BY <1>2, <1>5 DEF AnswersSound, server
  <2>4. DueSound'  BY <1>7, <2>1 DEF DueSound
  <2>5. KeptUntilRead'  BY <2>1 DEF KeptUntilRead
  <2> QED  BY <1>4, <2>2, <2>3, <2>4, <2>5
<1> QED  BY <1>6, <1>7 DEF TypeOK

LEMMA HandleDeleteKeeps == ASSUME NEW e \in wire PROVE IInv /\ HandleDelete(e) => IInv'
<1> SUFFICES ASSUME IInv, HandleDelete(e) PROVE IInv'  OBVIOUS
<1> USE BoundsAreNatural DEF HandleDelete, IInv
<1> DEFINE list == cache.list \ {e.seq}
<1>1. Handles("delete", e) /\ UNCHANGED server  OBVIOUS
<1>2. wire' \subseteq Event  BY <1>1, HandlesFacts
<1>4. WireSound'  BY <1>1, HandlesFacts
<1>5. cache' = [cache EXCEPT !.list = list] /\ list \subseteq cache.list  OBVIOUS
<1>6. \/ UNCHANGED <<unread, liveLatest, recountTimer, due>>
      \/ ~onScreen /\ serverRead /\ liveLatest' = 0 /\ recountTimer' = TRUE /\ due' = {} /\ UNCHANGED unread
      \/ ~serverRead /\ unread' \in BOOLEAN /\ UNCHANGED <<liveLatest, recountTimer, due>>
  BY DEF TypeOK
<1> HIDE DEF list
<1>7. cache' \in [loaded : BOOLEAN, loading : BOOLEAN, list : SUBSET Seqs] /\ cache'.list \subseteq cache.list
  BY <1>5 DEF TypeOK
<1>8. TypeOK'
  <2>1. liveLatest' \in 0..posted /\ due' \subseteq msgs  BY <1>6 DEF TypeOK
  <2>2. unread' \in BOOLEAN /\ recountTimer' \in BOOLEAN  BY <1>6 DEF TypeOK
  <2> QED  BY <1>2, <1>7, <2>1, <2>2 DEF TypeOK, server, reading
<1>9. AnswersSound'  BY <1>7 DEF AnswersSound, server
<1>10. DueSound' /\ KeptUntilRead'  BY <1>6 DEF DueSound, KeptUntilRead, server
<1> QED  BY <1>4, <1>8, <1>9, <1>10

LEMMA HandleReadKeeps == ASSUME NEW e \in wire PROVE IInv /\ HandleRead(e) => IInv'
<1> SUFFICES ASSUME IInv, HandleRead(e) PROVE IInv'  OBVIOUS
<1> USE BoundsAreNatural DEF HandleRead, IInv, marks
<1> DEFINE s == e.seq
<1>0. PICK last \in IF cache.list = {} THEN {0} ELSE cache.list :
        IF onScreen THEN UNCHANGED <<unread, syncs>>
        ELSE IF Larger(liveLatest, last) <= s THEN unread' = FALSE /\ UNCHANGED syncs
        ELSE Free(syncs) # {} /\ syncs' = Asks(syncs) /\ UNCHANGED unread
  OBVIOUS
<1> DEFINE newest == Larger(liveLatest, last)
<1>1. Handles("read", e) /\ UNCHANGED server  OBVIOUS
<1>2. s <= lastRead /\ s \in 0..MaxSeq /\ wire' \subseteq Event
  BY <1>1, HandlesFacts DEF Event
<1>3. WireSound'  BY <1>1, HandlesFacts
<1>4. acked' \in 0..lastRead /\ read' \in 0..posted
  <2>1. acked' = Larger(acked, s) /\ read' = Larger(read, s)  OBVIOUS
  <2> HIDE DEF s
  <2> QED  BY <1>2, <2>1 DEF TypeOK, Larger
<1>5. \/ UNCHANGED <<unread, syncs>>
      \/ ~onScreen /\ newest <= s /\ unread' = FALSE /\ UNCHANGED syncs
      \/ syncs' = Asks(syncs) /\ UNCHANGED unread
  BY <1>0
<1>6. \A r \in Syncs : syncs'[r] = syncs[r] \/ syncs'[r] = Sent
  <2>1. CASE UNCHANGED syncs  BY <2>1
  <2>2. CASE syncs' = Asks(syncs)  BY <2>2, AsksFacts DEF TypeOK
  <2> QED  BY <1>5, <2>1, <2>2
<1>7. syncs' \in [Syncs -> {Nothing, Sent} \cup Answer]
  <2>1. CASE UNCHANGED syncs  BY <2>1 DEF TypeOK
  <2>2. CASE syncs' = Asks(syncs)  BY <2>2 DEF TypeOK, Asks
  <2> QED  BY <1>5, <2>1, <2>2
<1>8. TypeOK'
  <2>1. unread' \in BOOLEAN  BY <1>5 DEF TypeOK
  <2> QED  BY <1>2, <1>4, <1>7, <2>1 DEF TypeOK, server
<1>9. AnswersSound'
  <2>1. \A r \in Syncs : syncs'[r].st = "answered" => syncs'[r] = syncs[r]  BY <1>6 DEF Sent
  <2> QED  BY <2>1 DEF AnswersSound, server
<1>10. DueSound'  BY DEF DueSound, server
<1>11. KeptUntilRead'
  <2>1. CASE UNCHANGED unread  BY <2>1 DEF KeptUntilRead, server
  <2>2. CASE newest <= s
    <3>1. last \in Nat
      <4>1. cache.list \subseteq Nat  BY DEF TypeOK, AnswersSound
      <4> QED  BY <4>1
    <3>2. liveLatest <= s
      <4> HIDE DEF s
      <4> QED  BY <1>2, <2>2, <3>1 DEF Larger, TypeOK
    <3>3. \A d \in due : d <= liveLatest /\ d \in Nat  BY DEF DueSound, TypeOK
    <3>4. s \in Nat /\ liveLatest \in Nat /\ lastRead \in Nat  BY <1>2 DEF TypeOK
    <3> HIDE DEF s
    <3>5. \A d \in due : ~ (d > lastRead)  BY <1>2, <3>2, <3>3, <3>4
    <3> QED  BY <3>5 DEF KeptUntilRead, server
  <2> QED  BY <1>5, <2>1, <2>2
<1> QED  BY <1>3, <1>8, <1>9, <1>10, <1>11

-------------------------------------------------------------------------------
(* The client's steps: the connection, the user, the timers, the answers.  *)

\* Requests that are sent leave the answers as they are.
LEMMA AsksKeeps ==
  ASSUME TypeOK, AnswersSound, UNCHANGED server,
         \/ UNCHANGED syncs
         \/ syncs' = Asks(syncs),
         \/ UNCHANGED loads
         \/ loads' = Asks(loads),
         UNCHANGED acks, cache'.list \subseteq 1..posted
  PROVE  /\ syncs' \in [Syncs -> {Nothing, Sent} \cup Answer]
         /\ loads' \in [Loads -> {Nothing, Sent} \cup Page]
         /\ AnswersSound'
<1>1. \A r \in Syncs : syncs'[r] = syncs[r] \/ syncs'[r] = Sent
  <2>1. CASE UNCHANGED syncs  BY <2>1
  <2>2. CASE syncs' = Asks(syncs)  BY <2>2, AsksFacts DEF TypeOK
  <2> QED  BY <2>1, <2>2
<1>2. \A r \in Loads : loads'[r] = loads[r] \/ loads'[r] = Sent
  <2>1. CASE UNCHANGED loads  BY <2>1
  <2>2. CASE loads' = Asks(loads)  BY <2>2, AsksFacts DEF TypeOK
  <2> QED  BY <2>1, <2>2
<1>3. syncs' \in [Syncs -> {Nothing, Sent} \cup Answer]
  <2>1. CASE UNCHANGED syncs  BY <2>1 DEF TypeOK
  <2>2. CASE syncs' = Asks(syncs)  BY <2>2 DEF TypeOK, Asks
  <2> QED  BY <2>1, <2>2
<1>4. loads' \in [Loads -> {Nothing, Sent} \cup Page]
  <2>1. CASE UNCHANGED loads  BY <2>1 DEF TypeOK
  <2>2. CASE loads' = Asks(loads)  BY <2>2 DEF TypeOK, Asks
  <2> QED  BY <2>1, <2>2
<1>5. \A r \in Syncs : syncs'[r].st = "answered" => syncs'[r] = syncs[r]  BY <1>1 DEF Sent
<1>6. \A r \in Loads : loads'[r].st = "answered" => loads'[r] = loads[r]  BY <1>2 DEF Sent
<1> QED  BY <1>3, <1>4, <1>5, <1>6 DEF AnswersSound, server

LEMMA MissKeeps == ASSUME NEW e \in wire PROVE IInv /\ Miss(e) => IInv'
<1> SUFFICES ASSUME IInv, Miss(e) PROVE IInv'  OBVIOUS
<1> USE DEF Miss, IInv, server, marks, reading
<1>1. wire' \subseteq wire /\ WireSound'  BY DEF WireSound
<1>2. TypeOK'  BY <1>1 DEF TypeOK
<1> QED  BY <1>1, <1>2 DEF AnswersSound, DueSound, KeptUntilRead

LEMMA DisconnectKeeps == IInv /\ Disconnect => IInv'
<1> SUFFICES ASSUME IInv, Disconnect PROVE IInv'  OBVIOUS
<1> USE DEF Disconnect, IInv, server, marks, reading
<1>1. wire' \subseteq Event /\ WireSound'  BY DEF WireSound, TypeOK
<1>2. TypeOK'  BY <1>1 DEF TypeOK
<1> QED  BY <1>1, <1>2 DEF AnswersSound, DueSound, KeptUntilRead

LEMMA WelcomeKeeps == IInv /\ Welcome => IInv'
<1> SUFFICES ASSUME IInv, Welcome PROVE IInv'  OBVIOUS
<1> USE DEF Welcome, IInv, server, marks, reading
<1>1. /\ cache' \in [loaded : BOOLEAN, loading : BOOLEAN, list : SUBSET Seqs]
      /\ cache'.list = {}
  <2>1. cache' = Empty \/ cache' = [Empty EXCEPT !.loading = TRUE]  OBVIOUS
  <2>2. /\ Empty \in [loaded : BOOLEAN, loading : BOOLEAN, list : SUBSET Seqs]
        /\ Empty.list = {}
    BY DEF Empty
  <2> HIDE DEF Welcome
  <2> QED  BY <2>1, <2>2
<1>2. UNCHANGED loads \/ loads' = Asks(loads)  OBVIOUS
<1>3. /\ syncs' \in [Syncs -> {Nothing, Sent} \cup Answer]
      /\ loads' \in [Loads -> {Nothing, Sent} \cup Page]
      /\ AnswersSound'
  BY <1>1, <1>2, AsksKeeps
<1>4. WireSound'  BY DEF WireSound
<1>5. TypeOK'  BY <1>1, <1>3 DEF TypeOK
<1> QED  BY <1>3, <1>4, <1>5 DEF DueSound, KeptUntilRead

LEMMA OpenKeeps == IInv /\ Open => IInv'
<1> SUFFICES ASSUME IInv, Open PROVE IInv'  OBVIOUS
<1> USE DEF Open, IInv, server
<1>1. read' \in 0..posted /\ ackTimer' \in BOOLEAN
  <2>1. cache.list \subseteq 1..posted  BY DEF AnswersSound
  <2> QED  BY <2>1, RemembersFacts
<1>2. /\ cache' \in [loaded : BOOLEAN, loading : BOOLEAN, list : SUBSET Seqs]
      /\ cache'.list \subseteq 1..posted
  BY DEF TypeOK, AnswersSound
<1>3. UNCHANGED loads \/ loads' = Asks(loads)  OBVIOUS
<1>4. /\ syncs' \in [Syncs -> {Nothing, Sent} \cup Answer]
      /\ loads' \in [Loads -> {Nothing, Sent} \cup Page]
      /\ AnswersSound'
  BY <1>2, <1>3, AsksKeeps
<1>5. WireSound'  BY DEF WireSound
<1>6. TypeOK'  BY <1>1, <1>2, <1>4 DEF TypeOK
<1> QED  BY <1>4, <1>5, <1>6 DEF DueSound, KeptUntilRead

LEMMA OpenOtherKeeps == IInv /\ OpenOther => IInv'
<1> SUFFICES ASSUME IInv, OpenOther PROVE IInv'  OBVIOUS
<1> USE DEF OpenOther, IInv, server, marks, reading
<1>1. TypeOK'  BY DEF TypeOK
<1>2. WireSound'  BY DEF WireSound
<1> QED  BY <1>1, <1>2 DEF AnswersSound, DueSound, KeptUntilRead

LEMMA SyncKeeps == IInv /\ Sync => IInv'
<1> SUFFICES ASSUME IInv, Sync PROVE IInv'  OBVIOUS
<1> USE DEF Sync, IInv, server, reading
<1>1. /\ syncs' \in [Syncs -> {Nothing, Sent} \cup Answer]
      /\ AnswersSound'
  BY AsksKeeps DEF AnswersSound
<1>2. recountTimer' \in BOOLEAN  BY DEF TypeOK
<1>3. TypeOK'  BY <1>1, <1>2 DEF TypeOK
<1>4. WireSound'  BY DEF WireSound
<1> QED  BY <1>1, <1>3, <1>4 DEF DueSound, KeptUntilRead

LEMMA TakeSyncKeeps == ASSUME NEW r \in Syncs PROVE IInv /\ TakeSync(r) => IInv'
<1> SUFFICES ASSUME IInv, TakeSync(r) PROVE IInv'  OBVIOUS
<1> USE BoundsAreNatural DEF TakeSync, IInv, server
<1> DEFINE a == syncs[r]
<1>1. a \in Answer /\ a.last <= lastRead /\ (a.unread <=> a.latest > a.last)
  BY DEF TypeOK, AnswersSound, Nothing, Sent
<1>2. a.last \in Nat /\ a.latest \in Nat /\ a.unread \in BOOLEAN  BY <1>1 DEF Answer
<1>3. acked' \in 0..lastRead
  <2>1. acked' = Larger(acked, a.last)  OBVIOUS
  <2> HIDE DEF a
  <2> QED  BY <1>1, <1>2, <2>1 DEF Larger, TypeOK
<1>4. read' \in 0..posted /\ ackTimer' \in BOOLEAN
  <2>1. CASE onScreen
    <3>1. cache.list \subseteq 1..posted  BY DEF AnswersSound
    <3> QED  BY <2>1, <3>1, RemembersFacts
  <2>2. CASE ~onScreen  BY <2>2 DEF TypeOK
  <2> QED  BY <2>1, <2>2
<1>5. syncs' \in [Syncs -> {Nothing, Sent} \cup Answer]  BY DEF TypeOK
<1>6. TypeOK'
  <2>1. unread' \in BOOLEAN  BY <1>2 DEF TypeOK
  <2> QED  BY <1>3, <1>4, <1>5, <2>1 DEF TypeOK
<1>7. WireSound'  BY DEF WireSound
<1>8. AnswersSound'
  <2>1. \A q \in Syncs : syncs'[q].st = "answered" => syncs'[q] = syncs[q]  BY DEF TypeOK, Nothing
  <2> QED  BY <2>1 DEF AnswersSound
<1>9. DueSound'  BY DEF DueSound
<1>10. KeptUntilRead'
  <2> SUFFICES ASSUME ~onScreen', NEW d \in due', d > lastRead' PROVE unread'  BY DEF KeptUntilRead
  <2>1. d \in due /\ d > lastRead /\ ~onScreen /\ unread  BY DEF KeptUntilRead
  <2>2. d <= liveLatest /\ d \in Nat /\ liveLatest \in Nat /\ lastRead \in Nat
    BY <2>1 DEF DueSound, TypeOK
  <2>3. CASE liveLatest > a.latest  BY <2>1, <2>3
  <2>4. CASE ~ (liveLatest > a.latest)
    <3>1. unread' = a.unread  BY <2>1, <2>4
    <3> HIDE DEF a
    <3>2. a.latest > a.last  BY <1>1, <1>2, <2>1, <2>2, <2>4
    <3> QED  BY <1>1, <3>1, <3>2
  <2> QED  BY <2>3, <2>4
<1> QED  BY <1>6, <1>7, <1>8, <1>9, <1>10

LEMMA TakeLoadKeeps == ASSUME NEW r \in Loads PROVE IInv /\ TakeLoad(r) => IInv'
<1> SUFFICES ASSUME IInv, TakeLoad(r) PROVE IInv'  OBVIOUS
<1> USE BoundsAreNatural DEF TakeLoad, IInv, server
<1> DEFINE list == cache.list \cup loads[r].page
<1>1. loads[r].page \subseteq 1..posted /\ loads[r].page \subseteq Seqs
  BY DEF TypeOK, AnswersSound, Nothing, Sent, Page
<1>2. list \subseteq 1..posted /\ list \subseteq Seqs  BY <1>1 DEF AnswersSound, TypeOK
<1>3. read' \in 0..posted /\ ackTimer' \in BOOLEAN
  <2>1. CASE onScreen
    <3>1. Remembers(list, acked, serverRead)  BY <2>1
    <3> HIDE DEF list
    <3> QED  BY <1>2, <3>1, RemembersFacts
  <2>2. CASE ~onScreen  BY <2>2 DEF TypeOK
  <2> QED  BY <2>1, <2>2
<1>4. loads' \in [Loads -> {Nothing, Sent} \cup Page]  BY DEF TypeOK
<1>5. cache' = [loaded |-> TRUE, loading |-> FALSE, list |-> list]  OBVIOUS
<1>6. TypeOK'  BY <1>2, <1>3, <1>4, <1>5 DEF TypeOK
<1>7. WireSound'  BY DEF WireSound
<1>8. AnswersSound'
  <2>1. \A q \in Loads : loads'[q].st = "answered" => loads'[q] = loads[q]  BY DEF TypeOK, Nothing
  <2> HIDE DEF list
  <2> QED  BY <1>2, <1>5, <2>1 DEF AnswersSound
<1>9. DueSound' /\ KeptUntilRead'  BY DEF DueSound, KeptUntilRead
<1> QED  BY <1>6, <1>7, <1>8, <1>9

LEMMA SendAckKeeps == IInv /\ SendAck => IInv'
<1> SUFFICES ASSUME IInv, SendAck PROVE IInv'  OBVIOUS
<1> USE BoundsAreNatural DEF SendAck, IInv, server, marks
<1>1. read > 0 => read \in Seqs /\ read <= posted  BY DEF TypeOK, Seqs
<1>2. acks' \subseteq [st : {"sent", "answered"}, seq : 0..MaxSeq]  BY <1>1 DEF TypeOK
<1>3. TypeOK'  BY <1>2 DEF TypeOK
<1>4. WireSound'  BY DEF WireSound
<1>5. AnswersSound'  BY <1>1 DEF AnswersSound
<1> QED  BY <1>3, <1>4, <1>5 DEF DueSound, KeptUntilRead

LEMMA TakeAckKeeps == ASSUME NEW a \in acks PROVE IInv /\ TakeAck(a) => IInv'
<1> SUFFICES ASSUME IInv, TakeAck(a) PROVE IInv'  OBVIOUS
<1> USE BoundsAreNatural DEF TakeAck, IInv, server, marks
<1>1. a.seq \in Nat /\ a.seq <= lastRead  BY DEF TypeOK, AnswersSound, Seqs
<1>2. acked' \in 0..lastRead  BY <1>1 DEF Larger, TypeOK
<1>3. TypeOK'  BY <1>2 DEF TypeOK
<1>4. WireSound'  BY DEF WireSound
<1>5. AnswersSound'  BY DEF AnswersSound
<1> QED  BY <1>3, <1>4, <1>5 DEF DueSound, KeptUntilRead

LEMMA ReloadKeeps == IInv /\ Reload => IInv'
<1> SUFFICES ASSUME IInv, Reload PROVE IInv'  OBVIOUS
<1> USE BoundsAreNatural DEF Reload, IInv, server
<1>1. syncs' \in [Syncs -> {Nothing, Sent} \cup Answer] /\ loads' \in [Loads -> {Nothing, Sent} \cup Page]
  OBVIOUS
<1>2. cache' \in [loaded : BOOLEAN, loading : BOOLEAN, list : SUBSET Seqs] /\ cache'.list = {}  BY DEF Empty
<1>3. TypeOK'
  <2>1. liveLatest' \in 0..posted /\ acked' \in 0..lastRead /\ wire' \subseteq Event  BY DEF TypeOK
  <2>2. acks' \subseteq [st : {"sent", "answered"}, seq : 0..MaxSeq] /\ due' \subseteq msgs  OBVIOUS
  <2> QED  BY <1>1, <1>2, <2>1, <2>2 DEF TypeOK
<1>4. WireSound'  BY DEF WireSound
<1>5. AnswersSound'  BY <1>2 DEF AnswersSound, Nothing
<1> QED  BY <1>3, <1>4, <1>5 DEF DueSound, KeptUntilRead

LEMMA StutterKeeps == IInv /\ UNCHANGED vars => IInv'
<1> SUFFICES ASSUME IInv, UNCHANGED vars PROVE IInv'  OBVIOUS
<1> USE DEF vars, IInv
<1>1. TypeOK'  BY DEF TypeOK
<1>2. WireSound'  BY DEF WireSound
<1> QED  BY <1>1, <1>2 DEF AnswersSound, DueSound, KeptUntilRead

-------------------------------------------------------------------------------
(* The theorems.                                                           *)

\* The inductive invariant holds in every state of every instance.
THEOREM SpecIInv == Spec => []IInv
<1>1. IInv /\ [Next]_vars => IInv'
  BY PostKeeps, DeleteKeeps, ReadElsewhereKeeps, ServeAckKeeps, ServeSyncKeeps, ServeLoadKeeps, HandleCreateKeeps,
     HandleDeleteKeeps, HandleReadKeeps, MissKeeps, DisconnectKeeps, WelcomeKeeps, OpenKeeps, OpenOtherKeeps, SyncKeeps,
     TakeSyncKeeps, TakeLoadKeeps, SendAckKeeps, TakeAckKeeps, ReloadKeeps, StutterKeeps
  DEF Next
<1> QED  BY InitIInv, <1>1, PTL DEF Spec

\* The client's numbers stay within the server's: in particular it never takes the server to have remembered more
\* (acked) than it has.
THEOREM TypeCorrect == Spec => []TypeOK
<1>1. IInv => TypeOK  BY DEF IInv
<1> QED  BY SpecIInv, <1>1, PTL

\* However many messages, requests and devices there are, the mark of an unread live message stays.
THEOREM MarksAreKept == Spec => []KeptUntilRead
<1>1. IInv => KeptUntilRead  BY DEF IInv
<1> QED  BY SpecIInv, <1>1, PTL
===============================================================================
