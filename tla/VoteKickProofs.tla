---------------------------- MODULE VoteKickProofs ----------------------------
(***************************************************************************)
(* The invariants of VoteKick hold for all sets of channels, members and   *)
(* votes.  A running vote is sound because a start that nothing overtook   *)
(* still has what its checks saw (AsksSound); a passed vote is out of its  *)
(* place, so that no ballot reaches it any more (EndsSound).  Every action *)
(* ends in Aftermath, so one lemma (AftermathKeeps) says what an action    *)
(* has to bring, and the rest shows that each brings it.                   *)
(***************************************************************************)
EXTENDS VoteKick, FiniteSetTheorems, TLAPS

\* What a vote object that is in use looks like.
WellFormed(b) ==
  b \in VoteType /\ b.yes \cap b.no = {} /\ b.yes \cup b.no \subseteq b.room \ {b.target}

\* A vote b at its place in channel c, with the timers ts, the seats s and the cooldowns cd.
SoundAt(v, b, c, ts, s, cd) ==
  v \in ts /\ b.channel = c /\ (b.late \/ (s[b.target] = c /\ <<c, b.target>> \notin cd))

\* A start past its checks: unless it was overtaken, they still hold.
AskSound(u, a) ==
  a # Nothing =>
    /\ a \in AskType /\ u \in a.room /\ u # a.target
    /\ a.late \/ (seat[a.target] = a.channel /\ running[a.channel] = None /\ <<a.channel, a.target>> \notin cooldown)
AsksSound == \A u \in Users : AskSound(u, asking[u])

\* The end of a passed vote: decided by its room, and in no channel's place any more.
Decided(b) ==
  Cardinality(b.yes) > Cardinality(b.no) /\ 2 * (Cardinality(b.yes) + Cardinality(b.no)) >= Cardinality(b.room)
EndsSound == \A v \in Votes : ending[v] # "no" =>
               Decided(vote[v]) /\ \A c \in Channels : running[c] # v

ObjectsSound == \A v \in Votes : IF v \in InUse THEN WellFormed(vote[v]) ELSE vote[v] = Unused

IInv == TypeOK /\ VoteIsSound /\ AsksSound /\ EndsSound /\ ObjectsSound

\* The variables but the requests and the vote objects.
Frame ==
  /\ seat \in [Users -> Channels \cup {None}] /\ channels \subseteq Channels
  /\ running \in [Channels -> Votes \cup {None}] /\ timers \subseteq Votes /\ cooldown \subseteq Places
  /\ ending \in [Votes -> {"no", "blocking", "leaving"}]

-------------------------------------------------------------------------------
(* Counting votes.                                                         *)

\* A vote passes only with half of the room voting, and more of it for than against.
LEMMA PassingNeedsHalf ==
  ASSUME NEW yes \in Nat, NEW no \in Nat, NEW room \in Nat, Outcome(yes, no, room) = "passed"
  PROVE  yes > no /\ 2 * (yes + no) >= room
  BY SMT DEF Outcome, Quorum

\* The vote the room passed is decided.
LEMMA PassedIsDecided ==
  ASSUME NEW b, WellFormed(b), Passes(b)
  PROVE  Decided(b)
  <1>1. IsFiniteSet(b.yes) /\ IsFiniteSet(b.no) /\ IsFiniteSet(b.room)
    BY FS_Subset, UsersAreFinite DEF WellFormed, VoteType
  <1>2. Cardinality(b.yes) \in Nat /\ Cardinality(b.no) \in Nat /\ Cardinality(b.room) \in Nat
    BY <1>1, FS_CardinalityType
  <1> QED BY <1>2, PassingNeedsHalf DEF Passes, Decided

-------------------------------------------------------------------------------
(* What every step has to bring.                                           *)

LEMMA AftermathKeeps ==
  ASSUME IInv, Frame', NEW asked \in [Users -> AskType \cup {Nothing}], NEW votes, Aftermath(asked, votes),
         \A u \in Users : AskSound(u, asked[u]),
         \A v \in InUse' : WellFormed(votes[v]),
         \A c \in Channels : running'[c] # None =>
           SoundAt(running'[c], votes[running'[c]], c, timers', seat', cooldown'),
         \A p \in cooldown' \ cooldown : running'[p[1]] # running[p[1]],
         \A v \in Votes : ending'[v] # "no" =>
           Decided(votes[v]) /\ \A c \in Channels : running'[c] # v
  PROVE  IInv'
  <1>a. InUse' \subseteq Votes
    BY DEF InUse, Frame
  <1>1. \A v \in Votes :
          /\ v \notin InUse' => vote'[v] = Unused
          /\ v \in InUse' => WellFormed(vote'[v]) /\ vote'[v] = votes[v]
    BY DEF Aftermath
  <1>2. ObjectsSound'
    BY <1>1 DEF ObjectsSound
  <1>3. VoteIsSound'
    <2> SUFFICES ASSUME NEW c \in Channels, running'[c] # None
                 PROVE  SoundAt(running'[c], vote'[running'[c]], c, timers', seat', cooldown')
      BY DEF VoteIsSound, SoundAt
    <2>1. running'[c] \in Votes /\ running'[c] \in InUse'
      BY DEF Frame, InUse
    <2> QED BY <1>1, <2>1 DEF SoundAt
  <1>4. EndsSound'
    <2> SUFFICES ASSUME NEW v \in Votes, ending'[v] # "no"
                 PROVE  Decided(vote'[v]) /\ \A c \in Channels : running'[c] # v
      BY DEF EndsSound, Decided
    <2>1. v \in InUse'
      BY DEF InUse
    <2> QED BY <1>1, <2>1
  <1>5. /\ asking' \in [Users -> AskType \cup {Nothing}]
        /\ \A u \in Users :
             /\ asking'[u] # Nothing => asked[u] # Nothing
             /\ asked[u] # Nothing =>
                  /\ asking'[u].channel = asked[u].channel /\ asking'[u].target = asked[u].target
                  /\ asking'[u].room = asked[u].room
                  /\ asking'[u].late = (asked[u].late \/ Overtaken(asked[u]))
    BY DEF Aftermath, AskType, Nothing
  <1>6. AsksSound'
    <2> SUFFICES ASSUME NEW u \in Users, asking'[u] # Nothing PROVE AskSound(u, asking[u])'
      BY DEF AsksSound, AskSound
    <2> DEFINE a == asking'[u]
    <2>0. asked[u] # Nothing /\ asked[u] \in AskType /\ a \in AskType
      BY <1>5
    <2>1. asked[u] # Nothing /\ asked[u] \in AskType /\ a \in AskType /\ u \in a.room /\ u # a.target
      <3>1. AskSound(u, asked[u])
        OBVIOUS
      <3> QED BY <2>0, <3>1, <1>5 DEF AskSound
    <2>2. SUFFICES ASSUME ~a.late
                   PROVE  seat'[a.target] = a.channel /\ running'[a.channel] = None
                          /\ <<a.channel, a.target>> \notin cooldown'
      BY <2>1 DEF AskSound
    <2>3. ~asked[u].late /\ ~Overtaken(asked[u])
      BY <2>1, <2>2, <1>5
    <2>4. running[a.channel] = None /\ <<a.channel, a.target>> \notin cooldown
      BY <1>5, <2>1, <2>3 DEF AskSound
    <2>5. seat'[a.target] = a.channel /\ running'[a.channel] = running[a.channel]
      BY <1>5, <2>1, <2>3 DEF Overtaken
    <2> QED BY <2>4, <2>5
  <1>7. TypeOK'
    <2>1. vote' \in [Votes -> VoteType \cup {Unused}]
      BY <1>1, <1>a DEF Aftermath, WellFormed
    <2>2. \A v \in Votes : (vote[v].yes \cap vote[v].no = {} /\ vote[v].yes \cup vote[v].no \subseteq Electorate(v))'
      BY <1>1 DEF WellFormed, Unused, Electorate
    <2> QED BY <2>1, <2>2, <1>5 DEF TypeOK, Frame
  <1> QED BY <1>2, <1>3, <1>4, <1>6, <1>7 DEF IInv
-------------------------------------------------------------------------------
(* The actions.                                                            *)

\* What holds of the requests and the vote objects as they are.
LEMMA AsTheyAre ==
  ASSUME IInv
  PROVE  /\ asking \in [Users -> AskType \cup {Nothing}] /\ \A u \in Users : AskSound(u, asking[u])
         /\ InUse \subseteq Votes /\ \A v \in InUse : WellFormed(vote[v])
         /\ \A c \in Channels : running[c] # None =>
              /\ SoundAt(running[c], vote[running[c]], c, timers, seat, cooldown)
              /\ running[c] \in Votes /\ running[c] \in InUse
         /\ \A v \in Votes : ending[v] # "no" =>
              v \in InUse /\ Decided(vote[v]) /\ \A c \in Channels : running[c] # v
         /\ Frame
  BY DEF IInv, TypeOK, AsksSound, ObjectsSound, VoteIsSound, EndsSound, SoundAt, InUse, Frame

\* The votes of the channels in gone end without a decision, the others go on.
LEMMA EndingKeeps ==
  ASSUME IInv, NEW gone \in SUBSET Channels, NEW s \in [Users -> Channels \cup {None}], seat' = s,
         channels' \subseteq Channels, ending' \in [Votes -> {"no", "blocking", "leaving"}],
         \A v \in Votes : ending'[v] # "no" => ending[v] # "no",
         running' = [c \in Channels |-> IF c \in gone THEN None ELSE running[c]],
         timers' = timers \ {running[c] : c \in gone},
         cooldown' \subseteq Places,
         \A p \in cooldown' \ cooldown : p[1] \in gone /\ running[p[1]] # None,
         \A c \in Channels \ gone : running[c] # None => s[vote[running[c]].target] = c \/ vote[running[c]].late
                                                       \/ seat[vote[running[c]].target] # c,
         Aftermath(asking, vote)
  PROVE  IInv'
  <1> USE AsTheyAre
  <1>1. Frame'
    BY DEF Frame
  <1>a. \A c \in Channels : running'[c] # None => c \notin gone /\ running'[c] = running[c]
    OBVIOUS
  <1>2. InUse' \subseteq InUse
    <2> SUFFICES ASSUME NEW v \in InUse' PROVE v \in InUse
      OBVIOUS
    <2>1. CASE v \in timers'
      BY <2>1 DEF InUse
    <2>2. CASE v \in Votes /\ ending'[v] # "no"
      BY <2>2 DEF InUse
    <2>3. CASE \E c \in Channels : v \in Votes /\ running'[c] = v
      BY <2>3, <1>a, NoneIsNothing DEF InUse
    <2> QED BY <2>1, <2>2, <2>3 DEF InUse
  <1>3. \A c \in Channels : running'[c] # None =>
          SoundAt(running'[c], vote[running'[c]], c, timers', seat', cooldown')
    <2> SUFFICES ASSUME NEW c \in Channels, running'[c] # None
                 PROVE  SoundAt(running[c], vote[running[c]], c, timers', s, cooldown')
      BY DEF Frame
    <2>1. c \notin gone /\ running[c] # None
      BY <1>a
    <2>2. \A d \in gone : running[d] # running[c]
      <3> SUFFICES ASSUME NEW d \in gone, running[d] = running[c] PROVE FALSE
        OBVIOUS
      <3>1. vote[running[c]].channel = c /\ vote[running[d]].channel = d
        BY <2>1 DEF SoundAt
      <3> QED BY <3>1, <2>1
    <2>3. running[c] \in timers' /\ vote[running[c]].channel = c
      BY <2>1, <2>2 DEF SoundAt
    <2>4. vote[running[c]].late \/ (s[vote[running[c]].target] = c /\ <<c, vote[running[c]].target>> \notin cooldown')
      BY <2>1 DEF SoundAt
    <2> QED BY <2>3, <2>4 DEF SoundAt
  <1>4. \A p \in cooldown' \ cooldown : running'[p[1]] # running[p[1]]
    OBVIOUS
  <1>5. \A v \in Votes : ending'[v] # "no" =>
          Decided(vote[v]) /\ \A c \in Channels : running'[c] # v
    BY NoneIsNothing
  <1> QED BY <1>1, <1>2, <1>3, <1>4, <1>5, AftermathKeeps

\* Seats(): a member who is still where the votes say keeps the votes that go on sound.
LEMMA SeatsKeep ==
  ASSUME IInv, NEW s \in [Users -> Channels \cup {None}], NEW cs \in SUBSET Channels, Seats(s, cs),
         UNCHANGED channels, ending' \in [Votes -> {"no", "blocking", "leaving"}],
         \A v \in Votes : ending'[v] # "no" => ending[v] # "no",
         \A u \in Users : s[u] # seat[u] => seat[u] \in cs \cup {None},
         Aftermath(asking, vote)
  PROVE  IInv'
  <1> DEFINE gone == {c \in cs : running[c] # None /\ s[vote[running[c]].target] # c}
  <1> USE AsTheyAre
  <1>1. \A c \in Channels : running[c] # None => vote[running[c]].target \in Users
    BY DEF WellFormed, VoteType
  <1>2. /\ gone \in SUBSET Channels /\ seat' = s
        /\ running' = [c \in Channels |-> IF c \in gone THEN None ELSE running[c]]
        /\ timers' = timers \ {running[c] : c \in gone}
        /\ cooldown' = cooldown \cup {<<c, vote[running[c]].target>> : c \in gone}
    BY DEF Seats, End
  <1>3. cooldown' \subseteq Places /\ \A p \in cooldown' \ cooldown : p[1] \in gone /\ running[p[1]] # None
    BY <1>1, <1>2 DEF Frame, Places
  <1>4. ASSUME NEW c \in Channels \ gone, running[c] # None
        PROVE  s[vote[running[c]].target] = c \/ seat[vote[running[c]].target] # c
    BY <1>1, <1>4, NoneIsNothing
  <1>5. channels' \subseteq Channels
    BY DEF Frame
  <1> HIDE DEF gone
  <1> QED BY <1>2, <1>3, <1>4, <1>5, EndingKeeps

\* Only the requests, the ends under way and the cooldowns change, the latter two by going away.
LEMMA QuietKeeps ==
  ASSUME IInv, UNCHANGED <<seat, channels, running, timers>>, cooldown' \subseteq cooldown,
         ending' \in [Votes -> {"no", "blocking", "leaving"}],
         \A v \in Votes : ending'[v] # "no" => ending[v] # "no",
         NEW asked \in [Users -> AskType \cup {Nothing}], \A u \in Users : AskSound(u, asked[u]),
         Aftermath(asked, vote)
  PROVE  IInv'
  <1> USE AsTheyAre
  <1>1. Frame' /\ InUse' \subseteq InUse
    BY DEF Frame, InUse
  <1>2. \A c \in Channels : running'[c] # None =>
          SoundAt(running'[c], vote[running'[c]], c, timers', seat', cooldown')
    BY DEF SoundAt
  <1>3. \A p \in cooldown' \ cooldown : running'[p[1]] # running[p[1]]
    OBVIOUS
  <1>4. \A v \in Votes : ending'[v] # "no" =>
          Decided(vote[v]) /\ \A c \in Channels : running'[c] # v
    OBVIOUS
  <1> QED BY <1>1, <1>2, <1>3, <1>4, AftermathKeeps

\* A start that has passed its checks.
LEMMA AskKeeps ==
  ASSUME IInv, NEW u \in Users, NEW c \in Channels, NEW t \in Users, Ask(u, c, t)
  PROVE  IInv'
  <1> DEFINE a == [channel |-> c, target |-> t, room |-> Members(c), late |-> FALSE]
             asked == [asking EXCEPT ![u] = a]
  <1>1. a \in AskType /\ AskSound(u, a)
    BY DEF Ask, AskSound, AskType, Members
  <1>2. asked \in [Users -> AskType \cup {Nothing}] /\ \A w \in Users : AskSound(w, asked[w])
    BY <1>1, AsTheyAre
  <1>3. /\ UNCHANGED <<seat, channels, running, timers, cooldown, ending>> /\ Aftermath(asked, vote)
        /\ ending \in [Votes -> {"no", "blocking", "leaving"}]
    BY AsTheyAre DEF Ask, Frame
  <1> HIDE DEF asked
  <1> QED BY <1>2, <1>3, QuietKeeps

\* A start given up.
LEMMA AskFailsKeeps ==
  ASSUME IInv, NEW u \in Users, AskFails(u)
  PROVE  IInv'
  <1> DEFINE asked == [asking EXCEPT ![u] = Nothing]
  <1>1. asked \in [Users -> AskType \cup {Nothing}] /\ \A w \in Users : AskSound(w, asked[w])
    BY AsTheyAre DEF AskSound
  <1>2. /\ UNCHANGED <<seat, channels, running, timers, cooldown, ending>> /\ Aftermath(asked, vote)
        /\ ending \in [Votes -> {"no", "blocking", "leaving"}]
    BY AsTheyAre DEF AskFails, Frame
  <1> HIDE DEF asked
  <1> QED BY <1>1, <1>2, QuietKeeps

\* A new vote, which may take the place of one that is running.
LEMMA StartKeeps ==
  ASSUME IInv, NEW u \in Users, NEW v \in Votes, Start(u, v)
  PROVE  IInv'
  <1> DEFINE a == asking[u]
             b == [channel |-> a.channel, target |-> a.target, room |-> a.room,
                   yes |-> {u}, no |-> {}, late |-> a.late]
             asked == [asking EXCEPT ![u] = Nothing]
             votes == [vote EXCEPT ![v] = b]
  <1> USE AsTheyAre
  <1>1. /\ a # Nothing /\ v \notin InUse /\ running' = [running EXCEPT ![a.channel] = v]
        /\ timers' = timers \cup {v} /\ UNCHANGED <<seat, channels, cooldown, ending>>
        /\ Aftermath(asked, votes)
    BY DEF Start
  <1>2. /\ a \in AskType /\ u \in a.room /\ u # a.target
        /\ a.late \/ (seat[a.target] = a.channel /\ running[a.channel] = None /\ <<a.channel, a.target>> \notin cooldown)
    BY <1>1 DEF AskSound
  <1>3. asked \in [Users -> AskType \cup {Nothing}] /\ \A w \in Users : AskSound(w, asked[w])
    BY DEF AskSound
  <1>4. Frame'
    BY <1>1, <1>2 DEF Frame, AskType
  <1>5. vote \in [Votes -> VoteType \cup {Unused}]
    BY DEF IInv, TypeOK
  <1>6. \A w \in Votes : votes[w] = IF w = v THEN b ELSE vote[w]
    BY <1>5
  <1>7. WellFormed(b)
    BY <1>2 DEF WellFormed, VoteType, AskType
  <1>8. InUse' \subseteq InUse \cup {v}
    <2> SUFFICES ASSUME NEW w \in InUse', w # v PROVE w \in InUse
      OBVIOUS
    <2>1. CASE w \in timers'
      BY <1>1, <2>1 DEF InUse
    <2>2. CASE w \in Votes /\ ending'[w] # "no"
      BY <1>1, <2>2 DEF InUse
    <2>3. CASE \E c \in Channels : w \in Votes /\ running'[c] = w
      BY <1>1, <1>2, <2>3 DEF InUse, Frame, AskType
    <2> QED BY <2>1, <2>2, <2>3 DEF InUse
  <1>9. \A w \in InUse' : WellFormed(votes[w])
    BY <1>6, <1>7, <1>8
  <1>10. ASSUME NEW c \in Channels, running'[c] # None
         PROVE  SoundAt(running'[c], votes[running'[c]], c, timers', seat', cooldown')
    <2>1. CASE c = a.channel
      BY <1>1, <1>2, <1>6, <2>1 DEF SoundAt, Frame, AskType
    <2>2. CASE c # a.channel
      <3>1. running'[c] = running[c] /\ running[c] # None
        BY <1>1, <1>2, <1>10, <2>2 DEF Frame, AskType
      <3>2. running[c] \in InUse /\ running[c] \in Votes /\ running[c] # v
        BY <1>1, <3>1
      <3>3. SoundAt(running[c], vote[running[c]], c, timers, seat, cooldown)
        BY <3>1
      <3> QED BY <1>1, <1>6, <3>1, <3>2, <3>3 DEF SoundAt
    <2> QED BY <2>1, <2>2
  <1>11. \A w \in Votes : ending'[w] # "no" =>
           Decided(votes[w]) /\ \A c \in Channels : running'[c] # w
    BY <1>1, <1>2, <1>6 DEF Frame, AskType
  <1>12. \A p \in cooldown' \ cooldown : running'[p[1]] # running[p[1]]
    BY <1>1
  <1> HIDE DEF asked, votes
  <1> QED BY <1>1, <1>3, <1>4, <1>9, <1>10, <1>11, <1>12, AftermathKeeps

\* A vote is over with b as it stands.
LEMMA DecideKeeps ==
  ASSUME IInv, NEW c \in Channels, running[c] # None, NEW b, WellFormed(b),
         b.channel = c, b.target = vote[running[c]].target, b.late = vote[running[c]].late,
         timers' \subseteq timers, \A d \in Channels \ {c} : running[d] # None => running[d] \in timers',
         Decide(c, b)
  PROVE  IInv'
  <1> DEFINE v == running[c]
             votes == [vote EXCEPT ![v] = b]
  <1> USE AsTheyAre
  <1>0. v \in Votes /\ v \in InUse /\ SoundAt(v, vote[v], c, timers, seat, cooldown) /\ b.target \in Users
    BY DEF WellFormed, VoteType
  <1>1. /\ running' = [d \in Channels |-> IF d = c THEN None ELSE running[d]]
        /\ cooldown' = cooldown \cup {<<c, b.target>>}
        /\ ending' = IF Passes(b) THEN [ending EXCEPT ![v] = "blocking"] ELSE ending
        /\ UNCHANGED <<seat, channels>> /\ Aftermath(asking, votes)
    BY DEF Decide, End
  <1>2. Frame'
    BY <1>0, <1>1 DEF Frame, Places
  <1>3. vote \in [Votes -> VoteType \cup {Unused}]
    BY DEF IInv, TypeOK
  <1>4. \A w \in Votes : votes[w] = IF w = v THEN b ELSE vote[w]
    BY <1>3
  <1>5. InUse' \subseteq InUse
    <2> SUFFICES ASSUME NEW w \in InUse' PROVE w \in InUse
      OBVIOUS
    <2>1. CASE w \in timers'
      BY <2>1 DEF InUse
    <2>2. CASE w \in Votes /\ ending'[w] # "no"
      BY <1>0, <1>1, <2>2 DEF InUse, Frame
    <2>3. CASE \E d \in Channels : w \in Votes /\ running'[d] = w
      BY <1>1, <2>3, NoneIsNothing DEF InUse, Frame
    <2> QED BY <2>1, <2>2, <2>3 DEF InUse
  <1>6. \A w \in InUse' : WellFormed(votes[w])
    BY <1>4, <1>5
  <1>7. \A d \in Channels : running'[d] # None => d # c /\ running'[d] = running[d] /\ running[d] # v
    BY <1>0, <1>1 DEF SoundAt
  <1>8. ASSUME NEW d \in Channels, running'[d] # None
        PROVE  SoundAt(running'[d], votes[running'[d]], d, timers', seat', cooldown')
    BY <1>1, <1>4, <1>7, <1>8 DEF SoundAt
  <1>9. \A p \in cooldown' \ cooldown : running'[p[1]] # running[p[1]]
    BY <1>1
  <1>10. ASSUME NEW w \in Votes, ending'[w] # "no"
         PROVE  Decided(votes[w]) /\ \A d \in Channels : running'[d] # w
    <2>1. CASE w = v
      <3>1. Passes(b)
        BY <1>0, <1>1, <1>10, <2>1
      <3>2. Decided(b)
        BY <1>0, <3>1, PassedIsDecided
      <3>3. \A d \in Channels : running'[d] # w
        BY <1>0, <1>7, <2>1, NoneIsNothing
      <3> QED BY <1>1, <1>4, <2>1, <3>2, <3>3
    <2>2. CASE w # v
      <3>1. ending[w] # "no"
        BY <1>0, <1>1, <1>10, <2>2 DEF Frame
      <3>2. \A d \in Channels : running'[d] # w
        BY <1>7, <3>1, NoneIsNothing
      <3> QED BY <1>1, <1>4, <2>2, <3>1, <3>2
    <2> QED BY <2>1, <2>2
  <1> HIDE DEF votes
  <1> QED BY <1>1, <1>2, <1>6, <1>8, <1>9, <1>10, AftermathKeeps

LEMMA CastKeeps ==
  ASSUME IInv, NEW u \in Users, NEW c \in Channels, NEW yes \in BOOLEAN, Cast(u, c, yes)
  PROVE  IInv'
  <1> DEFINE v == running[c]
             b == [vote[v] EXCEPT !.yes = IF yes THEN @ \cup {u} ELSE @, !.no = IF yes THEN @ ELSE @ \cup {u}]
             votes == [vote EXCEPT ![v] = b]
  <1> USE AsTheyAre
  <1>1. /\ v # None /\ v \in Votes /\ v \in InUse /\ WellFormed(vote[v])
        /\ SoundAt(v, vote[v], c, timers, seat, cooldown)
        /\ u \in Electorate(v) \ (vote[v].yes \cup vote[v].no)
    BY DEF Cast
  <1>2. /\ WellFormed(b) /\ b.channel = c /\ b.target = vote[v].target /\ b.late = vote[v].late
    <2>1. /\ vote[v] \in VoteType /\ vote[v].yes \cap vote[v].no = {}
          /\ vote[v].yes \cup vote[v].no \subseteq vote[v].room \ {vote[v].target}
          /\ u \in vote[v].room \ {vote[v].target} /\ u \notin vote[v].yes /\ u \notin vote[v].no
          /\ vote[v].channel = c
      BY <1>1 DEF WellFormed, Electorate, SoundAt
    <2>2. CASE yes
      <3>1. b = [vote[v] EXCEPT !.yes = @ \cup {u}]
        BY <2>1, <2>2 DEF VoteType
      <3>2. b \in VoteType /\ b.yes = vote[v].yes \cup {u} /\ b.no = vote[v].no
            /\ b.channel = vote[v].channel /\ b.target = vote[v].target /\ b.late = vote[v].late /\ b.room = vote[v].room
        BY <2>1, <3>1 DEF VoteType
      <3> HIDE DEF b
      <3> QED BY <2>1, <3>2 DEF WellFormed
    <2>3. CASE ~yes
      <3>1. b = [vote[v] EXCEPT !.no = @ \cup {u}]
        BY <2>1, <2>3 DEF VoteType
      <3>2. b \in VoteType /\ b.yes = vote[v].yes /\ b.no = vote[v].no \cup {u}
            /\ b.channel = vote[v].channel /\ b.target = vote[v].target /\ b.late = vote[v].late /\ b.room = vote[v].room
        BY <2>1, <3>1 DEF VoteType
      <3> HIDE DEF b
      <3> QED BY <2>1, <3>2 DEF WellFormed
    <2> QED BY <2>2, <2>3
  <1>3. CASE timers' = timers \ {v} /\ Decide(c, b)
    <2>1. \A d \in Channels \ {c} : running[d] # None => running[d] \in timers'
      BY <1>1, <1>3 DEF SoundAt
    <2> HIDE DEF b
    <2> QED BY <1>1, <1>2, <1>3, <2>1, DecideKeeps
  <1>4. CASE UNCHANGED <<seat, channels, running, timers, cooldown, ending>> /\ Aftermath(asking, votes)
    <2>1. vote \in [Votes -> VoteType \cup {Unused}]
      BY DEF IInv, TypeOK
    <2>2. \A w \in Votes : votes[w] = IF w = v THEN b ELSE vote[w]
      BY <2>1
    <2>3. Frame' /\ InUse' = InUse
      BY <1>4 DEF Frame, InUse
    <2>4. \A w \in InUse' : WellFormed(votes[w])
      BY <1>2, <2>2, <2>3
    <2>5. ASSUME NEW d \in Channels, running'[d] # None
          PROVE  SoundAt(running'[d], votes[running'[d]], d, timers', seat', cooldown')
      BY <1>1, <1>2, <1>4, <2>2, <2>5 DEF SoundAt
    <2>6. \A w \in Votes : ending'[w] # "no" =>
            Decided(votes[w]) /\ \A d \in Channels : running'[d] # w
      BY <1>4, <2>2
    <2>7. \A p \in cooldown' \ cooldown : running'[p[1]] # running[p[1]]
      BY <1>4
    <2> HIDE DEF votes
    <2> QED BY <1>4, <2>3, <2>4, <2>5, <2>6, <2>7, AftermathKeeps
  <1> QED BY <1>3, <1>4 DEF Cast

LEMMA TimeOverKeeps ==
  ASSUME IInv, NEW v \in Votes, TimeOver(v)
  PROVE  IInv'
  <1> DEFINE c == vote[v].channel
             gone == {}
  <1> USE AsTheyAre
  <1>1. v \in timers /\ WellFormed(vote[v]) /\ c \in Channels
    BY DEF TimeOver, InUse, WellFormed, VoteType
  <1>2. \A d \in Channels \ {c} : running[d] # None => running[d] \in timers' /\ running[d] # v
    BY <1>1 DEF TimeOver, SoundAt
  <1>3. CASE running[c] = None
    <2>1. UNCHANGED <<seat, channels, running, cooldown, ending>> /\ Aftermath(asking, vote) /\ timers' \subseteq timers
      BY <1>3 DEF TimeOver
    <2>2. Frame' /\ InUse' \subseteq InUse
      BY <2>1 DEF Frame, InUse
    <2>3. ASSUME NEW d \in Channels, running'[d] # None
          PROVE  SoundAt(running'[d], vote[running'[d]], d, timers', seat', cooldown')
      BY <1>2, <1>3, <2>1, <2>3 DEF SoundAt
    <2>4. \A w \in Votes : ending'[w] # "no" =>
            Decided(vote[w]) /\ \A d \in Channels : running'[d] # w
      BY <2>1
    <2>5. \A p \in cooldown' \ cooldown : running'[p[1]] # running[p[1]]
      BY <2>1
    <2> QED BY <2>1, <2>2, <2>3, <2>4, <2>5, AftermathKeeps
  <1>4. CASE running[c] # None
    <2>1. Decide(c, vote[running[c]]) /\ timers' \subseteq timers
      BY <1>4 DEF TimeOver
    <2>2. WellFormed(vote[running[c]]) /\ vote[running[c]].channel = c
      BY <1>1, <1>4 DEF SoundAt
    <2> QED BY <1>1, <1>2, <1>4, <2>1, <2>2, DecideKeeps
  <1> QED BY <1>3, <1>4

LEMMA BlockKeeps ==
  ASSUME IInv, NEW v \in Votes, BlockSet(v) \/ BlockFails(v)
  PROVE  IInv'
  <1> USE AsTheyAre
  <1>1. UNCHANGED <<seat, channels, running, timers, cooldown>> /\ Aftermath(asking, vote)
    BY DEF BlockSet, BlockFails
  <1>2. /\ ending' \in [Votes -> {"no", "blocking", "leaving"}]
        /\ \A w \in Votes : ending'[w] # "no" => ending[w] # "no"
    BY DEF BlockSet, BlockFails, Frame
  <1> QED BY <1>1, <1>2, QuietKeeps

LEMMA RemoveKeeps ==
  ASSUME IInv, NEW v \in Votes, Remove(v)
  PROVE  IInv'
  <1> DEFINE t == vote[v].target
             s == [seat EXCEPT ![t] = None]
             cs == {seat[t]} \ {None}
  <1> USE AsTheyAre
  <1>1. t \in Users
    BY DEF Remove, WellFormed, VoteType
  <1>2. s \in [Users -> Channels \cup {None}] /\ cs \in SUBSET Channels
    BY <1>1 DEF Frame
  <1>3. Seats(s, cs) /\ UNCHANGED channels /\ Aftermath(asking, vote)
    BY DEF Remove
  <1>4. /\ ending' \in [Votes -> {"no", "blocking", "leaving"}]
        /\ \A w \in Votes : ending'[w] # "no" => ending[w] # "no"
    BY DEF Remove, Frame
  <1>5. \A u \in Users : s[u] # seat[u] => seat[u] \in cs \cup {None}
    BY <1>1 DEF Frame
  <1> HIDE DEF s, cs
  <1> QED BY <1>2, <1>3, <1>4, <1>5, SeatsKeep

LEMMA PresenceKeeps ==
  ASSUME IInv, NEW u \in Users, Stand(u) \/ Status(u) \/ \E c \in Channels : Sit(u, c)
  PROVE  IInv'
  <1> USE AsTheyAre
  <1>1. UNCHANGED <<channels, ending>> /\ Aftermath(asking, vote)
    BY DEF Stand, Status, Sit
  <1>2. ending' \in [Votes -> {"no", "blocking", "leaving"}] /\ \A w \in Votes : ending'[w] # "no" => ending[w] # "no"
    BY <1>1 DEF Frame
  <1>3. PICK s \in [Users -> Channels \cup {None}], cs \in SUBSET Channels :
          Seats(s, cs) /\ \A w \in Users : s[w] # seat[w] => seat[w] \in cs \cup {None}
    <2>1. CASE Stand(u)
      <3> DEFINE s == [seat EXCEPT ![u] = None]
      <3>1. s \in [Users -> Channels \cup {None}] /\ {seat[u]} \in SUBSET Channels /\ Seats(s, {seat[u]})
        BY <2>1 DEF Stand, Frame
      <3>2. \A w \in Users : s[w] # seat[w] => seat[w] \in {seat[u]} \cup {None}
        BY DEF Frame
      <3> HIDE DEF s
      <3> QED BY <3>1, <3>2
    <2>2. CASE Status(u)
      <3>1. seat \in [Users -> Channels \cup {None}] /\ {seat[u]} \in SUBSET Channels /\ Seats(seat, {seat[u]})
        BY <2>2 DEF Status, Frame
      <3> QED BY <3>1
    <2>3. ASSUME NEW c \in Channels, Sit(u, c)
          PROVE  \E s \in [Users -> Channels \cup {None}], cs \in SUBSET Channels :
                   Seats(s, cs) /\ \A w \in Users : s[w] # seat[w] => seat[w] \in cs \cup {None}
      <3> DEFINE s == [seat EXCEPT ![u] = c]
                 cs == {seat[u], c} \ {None}
      <3>1. s \in [Users -> Channels \cup {None}] /\ cs \in SUBSET Channels /\ Seats(s, cs)
        BY <2>3 DEF Sit, Frame
      <3>2. \A w \in Users : s[w] # seat[w] => seat[w] \in cs \cup {None}
        BY DEF Frame
      <3> HIDE DEF s, cs
      <3> QED BY <3>1, <3>2
    <2> QED BY <2>1, <2>2, <2>3
  <1> QED BY <1>1, <1>2, <1>3, SeatsKeep

\* removeMember() ends the votes about the member and forgets their cooldowns.
LEMMA KickKeeps ==
  ASSUME IInv, NEW u \in Users, Kick(u)
  PROVE  IInv'
  <1> DEFINE s == [seat EXCEPT ![u] = None]
             gone == {c \in {seat[u]} \ {None} : running[c] # None /\ vote[running[c]].target = u}
  <1> USE AsTheyAre
  <1>1. s \in [Users -> Channels \cup {None}] /\ gone \in SUBSET Channels
    BY DEF Frame
  <1>2. /\ seat' = s /\ running' = [c \in Channels |-> IF c \in gone THEN None ELSE running[c]]
        /\ timers' = timers \ {running[c] : c \in gone} /\ cooldown' \subseteq cooldown
        /\ UNCHANGED <<channels, ending>> /\ Aftermath(asking, vote)
    BY DEF Kick
  <1>3. ASSUME NEW c \in Channels \ gone, running[c] # None, seat[vote[running[c]].target] = c
        PROVE  s[vote[running[c]].target] = c
    <2>1. vote[running[c]].target \in Users
      BY <1>3 DEF WellFormed, VoteType
    <2> QED BY <1>3, <2>1, NoneIsNothing DEF Frame
  <1>4. /\ cooldown' \subseteq Places /\ channels' \subseteq Channels
        /\ ending' \in [Votes -> {"no", "blocking", "leaving"}] /\ \A v \in Votes : ending'[v] # "no" => ending[v] # "no"
    BY <1>2 DEF Frame
  <1> HIDE DEF s, gone
  <1> QED BY <1>1, <1>2, <1>3, <1>4, EndingKeeps

LEMMA DeleteKeeps ==
  ASSUME IInv, NEW c \in Channels, Delete(c)
  PROVE  IInv'
  <1> DEFINE s == [u \in Users |-> IF seat[u] = c THEN None ELSE seat[u]]
             gone == {c}
  <1> USE AsTheyAre
  <1>1. s \in [Users -> Channels \cup {None}]
    BY DEF Frame
  <1>2. /\ seat' = s /\ running' = [d \in Channels |-> IF d \in gone THEN None ELSE running[d]]
        /\ timers' = timers \ {running[d] : d \in gone} /\ cooldown' \subseteq cooldown
        /\ UNCHANGED ending /\ channels' \subseteq channels /\ Aftermath(asking, vote)
    <2>1. running' = [d \in Channels |-> IF d \in gone THEN None ELSE running[d]]
      BY DEF Delete, Frame
    <2>2. timers' = timers \ {running[d] : d \in gone}
      BY DEF Delete
    <2> QED BY <2>1, <2>2 DEF Delete
  <1>3. ASSUME NEW d \in Channels \ gone, running[d] # None, seat[vote[running[d]].target] = d
        PROVE  s[vote[running[d]].target] = d
    <2>1. vote[running[d]].target \in Users
      BY <1>3 DEF WellFormed, VoteType
    <2> QED BY <1>3, <2>1
  <1>4. /\ cooldown' \subseteq Places /\ channels' \subseteq Channels
        /\ ending' \in [Votes -> {"no", "blocking", "leaving"}] /\ \A v \in Votes : ending'[v] # "no" => ending[v] # "no"
    BY <1>2 DEF Frame
  <1>5. gone \in SUBSET Channels /\ \A p \in cooldown' \ cooldown : p[1] \in gone /\ running[p[1]] # None
    BY <1>2
  <1> HIDE DEF s, gone
  <1> QED BY <1>1, <1>2, <1>3, <1>4, <1>5, EndingKeeps

LEMMA CooldownOverKeeps ==
  ASSUME IInv, NEW p \in Places, CooldownOver(p)
  PROVE  IInv'
  <1>1. /\ UNCHANGED <<seat, channels, running, timers, ending>> /\ cooldown' \subseteq cooldown /\ Aftermath(asking, vote)
        /\ ending \in [Votes -> {"no", "blocking", "leaving"}]
    BY AsTheyAre DEF CooldownOver, Frame
  <1> QED BY <1>1, AsTheyAre, QuietKeeps

\* A server with nothing in memory.
LEMMA EmptyIsSound ==
  ASSUME seat = [u \in Users |-> None], channels \subseteq Channels, vote = [v \in Votes |-> Unused],
         running = [c \in Channels |-> None], timers = {}, cooldown = {},
         asking = [u \in Users |-> Nothing], ending = [v \in Votes |-> "no"]
  PROVE  IInv
  <1>1. InUse = {}
    BY NoneIsNothing DEF InUse
  <1>2. TypeOK
    BY DEF TypeOK, Unused, Electorate
  <1>3. ObjectsSound
    BY <1>1 DEF ObjectsSound
  <1> QED BY <1>2, <1>3 DEF IInv, VoteIsSound, AsksSound, AskSound, EndsSound

LEMMA RestartKeeps ==
  ASSUME IInv, Restart
  PROVE  IInv'
  <1>1. channels' \subseteq Channels
    BY AsTheyAre DEF Restart, Frame
  <1>2. InUse' = {}
    BY NoneIsNothing DEF Restart, InUse
  <1>3. TypeOK'
    BY <1>1 DEF Restart, TypeOK, Unused, Electorate
  <1>4. ObjectsSound'
    BY <1>2 DEF Restart, ObjectsSound
  <1> QED BY <1>3, <1>4 DEF Restart, IInv, VoteIsSound, AsksSound, AskSound, EndsSound

LEMMA StutterKeeps ==
  ASSUME IInv, UNCHANGED vars
  PROVE  IInv'
  BY DEF IInv, TypeOK, VoteIsSound, AsksSound, AskSound, EndsSound, Decided, ObjectsSound, InUse, WellFormed,
         Electorate, vars

-------------------------------------------------------------------------------
(* The theorems.                                                           *)

LEMMA NextKeeps ==
  ASSUME IInv, [Next]_vars
  PROVE  IInv'
  <1>1. CASE Restart
    BY <1>1, RestartKeeps
  <1>2. ASSUME NEW u \in Users, AskFails(u) \/ Stand(u) \/ Status(u) \/ Kick(u)
        PROVE  IInv'
    BY <1>2, AskFailsKeeps, PresenceKeeps, KickKeeps
  <1>3. ASSUME NEW u \in Users, NEW v \in Votes, Start(u, v)
        PROVE  IInv'
    BY <1>3, StartKeeps
  <1>4. ASSUME NEW u \in Users, NEW c \in Channels, NEW t \in Users, Ask(u, c, t)
        PROVE  IInv'
    BY <1>4, AskKeeps
  <1>5. ASSUME NEW u \in Users, NEW c \in Channels, Sit(u, c) \/ \E yes \in BOOLEAN : Cast(u, c, yes)
        PROVE  IInv'
    BY <1>5, PresenceKeeps, CastKeeps
  <1>6. ASSUME NEW v \in Votes, TimeOver(v) \/ BlockSet(v) \/ BlockFails(v) \/ Remove(v)
        PROVE  IInv'
    BY <1>6, TimeOverKeeps, BlockKeeps, RemoveKeeps
  <1>7. ASSUME NEW c \in Channels, Delete(c)
        PROVE  IInv'
    BY <1>7, DeleteKeeps
  <1>8. ASSUME NEW p \in Places, CooldownOver(p)
        PROVE  IInv'
    BY <1>8, CooldownOverKeeps
  <1>9. CASE UNCHANGED vars
    BY <1>9, StutterKeeps
  <1> QED BY <1>1, <1>2, <1>3, <1>4, <1>5, <1>6, <1>7, <1>8, <1>9 DEF Next

\* The strengthening is an invariant of every step of voting, of the presence and of the ends under way.
THEOREM SpecIInv == Spec => []IInv
  <1>1. Init => IInv
    BY EmptyIsSound DEF Init
  <1>2. IInv /\ [Next]_vars => IInv'
    BY NextKeeps
  <1> QED BY <1>1, <1>2, PTL DEF Spec

\* Votes, timers and requests keep their shape, and nobody votes twice or about themselves.
THEOREM TypeCorrect == Spec => []TypeOK
  <1>1. IInv => TypeOK
    BY DEF IInv
  <1> QED BY <1>1, SpecIInv, PTL

\* A running vote has its timer and is about a member in the channel, unless its start was overtaken.
THEOREM VotesAreSound == Spec => []VoteIsSound
  <1>1. IInv => VoteIsSound
    BY DEF IInv
  <1> QED BY <1>1, SpecIInv, PTL

\* Whoever is voted out had half of the room of the start voting and more of it for than against (voteKickQuorum,
\* voteKickOutcome): who comes, goes or votes later changes nothing.
THEOREM TheRoomDecides == Spec => []DecidedByTheRoom
  <1>1. IInv => DecidedByTheRoom
    BY DEF IInv, EndsSound, Decided, DecidedByTheRoom
  <1> QED BY <1>1, SpecIInv, PTL

-------------------------------------------------------------------------------
(* The ballots.                                                            *)

\* a and b are the same vote, with the same ballots.
Same(a, b) ==
  /\ <<b.channel, b.target, b.room>> = <<a.channel, a.target, a.room>>
  /\ b.yes = a.yes /\ b.no = a.no

\* b is the vote a, perhaps with another ballot.
Onward(a, b) ==
  /\ <<b.channel, b.target, b.room>> = <<a.channel, a.target, a.room>>
  /\ a.yes \subseteq b.yes /\ a.no \subseteq b.no

\* A step that leaves an object a vote leaves it the vote it made of it.
LEMMA AftermathIsSame ==
  ASSUME NEW asked, NEW votes \in [Votes -> VoteType \cup {Unused}], Aftermath(asked, votes),
         NEW v \in Votes, vote'[v] \in VoteType
  PROVE  votes[v] \in VoteType /\ Same(votes[v], vote'[v])
  <1>1. Unused \notin VoteType
    BY NoneIsNothing DEF Unused, VoteType
  <1>2. vote'[v] = votes[v]
    BY <1>1 DEF Aftermath
  <1> QED BY <1>2 DEF Same

\* A ballot is added to a vote that is not decided.
LEMMA CastGoesOn ==
  ASSUME IInv, NEW u \in Users, NEW c \in Channels, NEW yes \in BOOLEAN, Cast(u, c, yes),
         NEW w \in Votes, vote[w] \in VoteType, vote'[w] \in VoteType
  PROVE  Onward(vote[w], vote'[w]) /\ (ending[w] # "no" => Same(vote[w], vote'[w]))
  <1> DEFINE v == running[c]
             b == [vote[v] EXCEPT !.yes = IF yes THEN @ \cup {u} ELSE @, !.no = IF yes THEN @ ELSE @ \cup {u}]
             votes == [vote EXCEPT ![v] = b]
  <1>1. v \in Votes /\ WellFormed(vote[v]) /\ vote \in [Votes -> VoteType \cup {Unused}] /\ ending[v] = "no"
    BY AsTheyAre DEF Cast, IInv, TypeOK
  <1>2. b \in VoteType /\ Onward(vote[v], b)
    BY <1>1 DEF WellFormed, VoteType, Onward
  <1>3. votes \in [Votes -> VoteType \cup {Unused}] /\ votes[w] = IF w = v THEN b ELSE vote[w]
    BY <1>1, <1>2
  <1>4. Aftermath(asking, votes)
    BY DEF Cast, Decide
  <1> HIDE DEF votes
  <1>5. Same(votes[w], vote'[w])
    BY <1>3, <1>4, AftermathIsSame
  <1> HIDE DEF b
  <1> QED BY <1>1, <1>2, <1>3, <1>5 DEF Same, Onward

\* A vote is about what it began with, ballots are only added, and none once it is decided.
THEOREM BallotsAreFinal == Spec => BallotsStand
  <1> DEFINE Stands == \A v \in Votes : {vote[v], vote'[v]} \subseteq VoteType =>
               /\ Onward(vote[v], vote'[v])
               /\ ending[v] # "no" => Same(vote[v], vote'[v])
  <1>1. ASSUME IInv, Next PROVE Stands
    <2> SUFFICES ASSUME NEW v \in Votes, vote[v] \in VoteType, vote'[v] \in VoteType
                 PROVE  Onward(vote[v], vote'[v]) /\ (ending[v] # "no" => Same(vote[v], vote'[v]))
      OBVIOUS
    <2>1. vote \in [Votes -> VoteType \cup {Unused}] /\ v \in InUse
      BY <1>1, NoneIsNothing DEF IInv, TypeOK, ObjectsSound, Unused, VoteType
    <2>2. ASSUME NEW asked, Aftermath(asked, vote) PROVE Same(vote[v], vote'[v])
      BY <2>1, <2>2, AftermathIsSame
    <2>3. ASSUME NEW u \in Users, NEW w \in Votes, Start(u, w) PROVE Same(vote[v], vote'[v])
      <3> DEFINE a == asking[u]
                 new == [channel |-> a.channel, target |-> a.target, room |-> a.room,
                         yes |-> {u}, no |-> {}, late |-> a.late]
                 votes == [vote EXCEPT ![w] = new]
      <3>1. new \in VoteType
        <4>1. a \in AskType /\ u \in a.room
          BY <1>1, <2>3, AsTheyAre DEF Start, AskSound
        <4> QED BY <4>1 DEF AskType, VoteType
      <3>2. votes \in [Votes -> VoteType \cup {Unused}] /\ votes[v] = vote[v]
        BY <2>1, <2>3, <3>1 DEF Start
      <3>3. Aftermath([asking EXCEPT ![u] = Nothing], votes)
        BY <2>3 DEF Start
      <3> HIDE DEF votes
      <3>4. Same(votes[v], vote'[v])
        BY <3>2, <3>3, AftermathIsSame
      <3> QED BY <3>2, <3>4
    <2>4. ASSUME NEW w \in Votes, TimeOver(w) PROVE Same(vote[v], vote'[v])
      <3>1. ASSUME NEW c \in Channels PROVE [vote EXCEPT ![running[c]] = vote[running[c]]] = vote
        BY <2>1
      <3>2. CASE running[vote[w].channel] = None
        BY <2>2, <2>4, <3>2 DEF TimeOver
      <3>3. CASE running[vote[w].channel] # None
        <4>1. vote[w].channel \in Channels
          BY <1>1, <2>4, AsTheyAre DEF TimeOver, InUse, WellFormed, VoteType
        <4>2. Aftermath(asking, [vote EXCEPT ![running[vote[w].channel]] = vote[running[vote[w].channel]]])
          BY <2>4, <3>3 DEF TimeOver, Decide
        <4> QED BY <2>2, <3>1, <4>1, <4>2
      <3> QED BY <3>2, <3>3
    <2>5. ASSUME NEW u \in Users, NEW c \in Channels, NEW yes \in BOOLEAN, Cast(u, c, yes)
          PROVE  Onward(vote[v], vote'[v]) /\ (ending[v] # "no" => Same(vote[v], vote'[v]))
      BY <1>1, <2>5, CastGoesOn
    <2>6. CASE Restart
      BY <2>6, NoneIsNothing DEF Restart, Unused, VoteType
    <2>7. ASSUME NEW u \in Users, NEW c \in Channels, NEW t \in Users, Ask(u, c, t)
          PROVE  Same(vote[v], vote'[v])
      BY <2>2, <2>7 DEF Ask
    <2>8. Aftermath(asking, vote) => Same(vote[v], vote'[v])
      BY <2>1, AftermathIsSame
    <2>9. Same(vote[v], vote'[v]) => Onward(vote[v], vote'[v])
      BY DEF Same, Onward
    <2>10. ASSUME NEW u \in Users, AskFails(u) PROVE Same(vote[v], vote'[v])
      BY <2>2, <2>10 DEF AskFails
    <2>11. ASSUME NEW u \in Users, Stand(u) \/ Status(u) \/ Kick(u) \/ \E c \in Channels : Sit(u, c)
           PROVE  Aftermath(asking, vote)
      BY <2>11 DEF Stand, Status, Kick, Sit
    <2>12. ASSUME NEW w \in Votes, BlockSet(w) \/ BlockFails(w) \/ Remove(w) PROVE Aftermath(asking, vote)
      BY <2>12 DEF BlockSet, BlockFails, Remove
    <2>13. ASSUME (\E c \in Channels : Delete(c)) \/ \E p \in Places : CooldownOver(p)
           PROVE  Aftermath(asking, vote)
      BY <2>13 DEF Delete, CooldownOver
    <2> QED BY <1>1, <2>3, <2>4, <2>5, <2>6, <2>7, <2>8, <2>9, <2>10, <2>11, <2>12, <2>13 DEF Next
  <1>2. IInv /\ [Next]_vars => [Stands]_vars
    BY <1>1
  <1>3. Stands => (\A v \in Votes : {vote[v], vote'[v]} \subseteq VoteType =>
          /\ <<vote'[v].channel, vote'[v].target, vote'[v].room>> = <<vote[v].channel, vote[v].target, vote[v].room>>
          /\ vote[v].yes \subseteq vote'[v].yes /\ vote[v].no \subseteq vote'[v].no
          /\ ending[v] # "no" => vote'[v].yes = vote[v].yes /\ vote'[v].no = vote[v].no)
    BY DEF Same, Onward
  <1> HIDE DEF Stands
  <1> QED BY <1>2, <1>3, SpecIInv, PTL DEF Spec, BallotsStand
===============================================================================
