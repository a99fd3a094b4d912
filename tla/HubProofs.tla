------------------------------ MODULE HubProofs ------------------------------
(***************************************************************************)
(* Proofs about Hub, for any number of connections, users and games and    *)
(* any terms.  AFK is inductive once the books agree (the sweep's and the  *)
(* hub's idea of a silent client, and that a closed connection is in none  *)
(* of the hub's sets) and a grace belongs to somebody who is online.       *)
(***************************************************************************)
EXTENDS Hub, TLAPS

GraceSound == \A u \in Users : grace[u] # None => Online(u)

\* What waits for the timer, or what counts, is what the client said last.
ReportSound ==
  \A c \in Conns : reported[c] = IF waiting[c] = <<>> THEN playing[c] ELSE waiting[c][1]

\* Reports wait only on connections that are in, and a handshake's socket is not watched yet.
WaitSound == \A c \in Conns : waiting[c] # <<>> => userOf[c] # None
JoinSound == \A c \in joining : seen[c] = None

IInv ==
  /\ TypeOK /\ BooksAgree /\ AfkMeansAway /\ AwayMeansAfk /\ GraceSound /\ ReportSound
  /\ WaitSound /\ JoinSound

\* Nobody is online at the start.
LEMMA InitSound == Init => IInv
BY NoneIsNothing, TermsArePositive DEF Init, IInv, TypeOK, BooksAgree, AfkMeansAway, AwayMeansAfk, GraceSound,
   ReportSound, WaitSound, JoinSound, Online, ConnsOf, Shown

\* A new connection counts as active: its user is not away any more.
LEMMA AddKeeps ==
  ASSUME IInv, NEW c \in Conns, NEW u \in Users, NEW late \in BOOLEAN, Add(c, u, late)
  PROVE  IInv'
<1>1. TypeOK'
  BY NoneIsNothing, TermsArePositive DEF IInv, TypeOK, Entry, Shown, Show, GameOf, Reporting, ConnsOf,
     Add, Tell, games, shake, ends, report
<1>2. BooksAgree'
  BY NoneIsNothing, TermsArePositive DEF IInv, TypeOK, BooksAgree, JoinSound, Entry, Add, Tell, games,
     shake, ends, report
<1>3. AfkMeansAway'
  BY NoneIsNothing, TermsArePositive DEF IInv, TypeOK, BooksAgree, AfkMeansAway, Online, ConnsOf, Add,
     Tell, games, shake, ends, report
<1>4. AwayMeansAfk'
  BY NoneIsNothing, TermsArePositive DEF IInv, TypeOK, BooksAgree, AwayMeansAfk, AfkMeansAway,
     GraceSound, Online, ConnsOf, Add, Tell, games, shake, ends, report
<1>5. GraceSound'
  BY NoneIsNothing, TermsArePositive DEF IInv, TypeOK, GraceSound, Online, ConnsOf, Add, Tell, games,
     shake, ends, report
<1>6. ReportSound'
  BY NoneIsNothing, TermsArePositive DEF IInv, TypeOK, ReportSound, Add, Tell, games, shake, ends, report
<1>7. WaitSound'
  BY NoneIsNothing, TermsArePositive DEF IInv, TypeOK, WaitSound, Add, Tell, games, shake, ends, report
<1>8. JoinSound'
  BY NoneIsNothing, TermsArePositive DEF IInv, TypeOK, JoinSound, Add, Tell, games, shake, ends, report
<1> QED BY <1>1, <1>2, <1>3, <1>4, <1>5, <1>6, <1>7, <1>8 DEF IInv

\* The sweep's book opens fresh.
LEMMA WatchKeeps ==
  ASSUME IInv, NEW c \in Conns, Watch(c)
  PROVE  IInv'
<1>1. TypeOK'
  BY NoneIsNothing, TermsArePositive DEF IInv, TypeOK, Entry, Shown, Show, GameOf, Reporting, ConnsOf,
     Watch, games, shake, ends, report
<1>2. BooksAgree'
  <2>1. c \notin stale
    BY DEF Watch, IInv, BooksAgree, JoinSound
  <2>2. \A d \in Conns : seen'[d] = IF d = c THEN [any |-> 0, app |-> 0, stale |-> FALSE] ELSE seen[d]
    BY DEF Watch, IInv, TypeOK
  <2>3. seen'[c] # None /\ ~seen'[c].stale
    <3>1. [any |-> 0, app |-> 0, stale |-> FALSE] \in Entry
      BY TermsArePositive DEF Entry
    <3> QED BY <2>2, <3>1, NoneIsNothing
  <2> QED BY <2>1, <2>2, <2>3 DEF Watch, IInv, BooksAgree, games
<1>3. AfkMeansAway'
  BY NoneIsNothing, TermsArePositive DEF IInv, TypeOK, BooksAgree, AfkMeansAway, Online, ConnsOf, Watch,
     games, shake, ends, report
<1>4. AwayMeansAfk'
  BY NoneIsNothing, TermsArePositive DEF IInv, TypeOK, BooksAgree, AwayMeansAfk, AfkMeansAway,
     GraceSound, Online, ConnsOf, Watch, games, shake, ends, report
<1>5. GraceSound'
  BY NoneIsNothing, TermsArePositive DEF IInv, TypeOK, GraceSound, Online, ConnsOf, Watch, games, shake,
     ends, report
<1>6. ReportSound'
  BY NoneIsNothing, TermsArePositive DEF IInv, TypeOK, ReportSound, Watch, games, shake, ends, report
<1>7. WaitSound'
  BY NoneIsNothing, TermsArePositive DEF IInv, TypeOK, WaitSound, Watch, games, shake, ends, report
<1>8. JoinSound'
  BY NoneIsNothing, TermsArePositive DEF IInv, TypeOK, JoinSound, Watch, games, shake, ends, report
<1> QED BY <1>1, <1>2, <1>3, <1>4, <1>5, <1>6, <1>7, <1>8 DEF IInv

\* A refused handshake touches no user's state.
LEMMA TurnAwayKeeps ==
  ASSUME IInv, NEW c \in Conns, TurnAway(c)
  PROVE  IInv'
<1>1. TypeOK'
  BY NoneIsNothing, TermsArePositive DEF IInv, TypeOK, Entry, Shown, Show, GameOf, Reporting, ConnsOf,
     TurnAway, games, shake, ends, report
<1>2. BooksAgree'
  BY NoneIsNothing, TermsArePositive DEF IInv, TypeOK, BooksAgree, JoinSound, Entry, TurnAway, games,
     shake, ends, report
<1>3. AfkMeansAway'
  BY NoneIsNothing, TermsArePositive DEF IInv, TypeOK, BooksAgree, AfkMeansAway, Online, ConnsOf,
     TurnAway, games, shake, ends, report
<1>4. AwayMeansAfk'
  BY NoneIsNothing, TermsArePositive DEF IInv, TypeOK, BooksAgree, AwayMeansAfk, AfkMeansAway,
     GraceSound, Online, ConnsOf, TurnAway, games, shake, ends, report
<1>5. GraceSound'
  BY NoneIsNothing, TermsArePositive DEF IInv, TypeOK, GraceSound, Online, ConnsOf, TurnAway, games,
     shake, ends, report
<1>6. ReportSound'
  BY NoneIsNothing, TermsArePositive DEF IInv, TypeOK, ReportSound, TurnAway, games, shake, ends, report
<1>7. WaitSound'
  BY NoneIsNothing, TermsArePositive DEF IInv, TypeOK, WaitSound, TurnAway, games, shake, ends, report
<1>8. JoinSound'
  BY NoneIsNothing, TermsArePositive DEF IInv, TypeOK, JoinSound, TurnAway, games, shake, ends, report
<1> QED BY <1>1, <1>2, <1>3, <1>4, <1>5, <1>6, <1>7, <1>8 DEF IInv

\* What is left of the user is away, or the grace runs.
LEMMA CloseKeeps ==
  ASSUME IInv, NEW c \in Conns, Close(c)
  PROVE  IInv'
<1>1. TypeOK'
  BY NoneIsNothing, TermsArePositive DEF IInv, TypeOK, Entry, Shown, Show, GameOf, Reporting, ConnsOf,
     Close, SetGame, Tell, games, shake, ends, report
<1>2. BooksAgree'
  BY NoneIsNothing, TermsArePositive DEF IInv, TypeOK, BooksAgree, JoinSound, Entry, Close, SetGame,
     Tell, games, shake, ends, report
<1>3. AfkMeansAway'
  BY NoneIsNothing, TermsArePositive DEF IInv, TypeOK, BooksAgree, AfkMeansAway, Online, ConnsOf, Close,
     SetGame, Tell, games, shake, ends, report
<1>4. AwayMeansAfk'
  BY NoneIsNothing, TermsArePositive DEF IInv, TypeOK, BooksAgree, AwayMeansAfk, AfkMeansAway,
     GraceSound, Online, ConnsOf, Close, SetGame, Tell, games, shake, ends, report
<1>5. GraceSound'
  BY NoneIsNothing, TermsArePositive DEF IInv, TypeOK, GraceSound, Online, ConnsOf, Close, SetGame, Tell,
     games, shake, ends, report
<1>6. ReportSound'
  BY NoneIsNothing, TermsArePositive DEF IInv, TypeOK, ReportSound, Close, SetGame, Tell, games, shake,
     ends, report
<1>7. WaitSound'
  BY NoneIsNothing, TermsArePositive DEF IInv, TypeOK, WaitSound, Close, SetGame, Tell, games, shake,
     ends, report
<1>8. JoinSound'
  BY NoneIsNothing, TermsArePositive DEF IInv, TypeOK, JoinSound, Close, SetGame, Tell, games, shake,
     ends, report
<1> QED BY <1>1, <1>2, <1>3, <1>4, <1>5, <1>6, <1>7, <1>8 DEF IInv

\* The server does not notice.
LEMMA FreezeKeeps ==
  ASSUME IInv, NEW c \in Conns, Freeze(c)
  PROVE  IInv'
<1>1. TypeOK'
  BY NoneIsNothing, TermsArePositive DEF IInv, TypeOK, Entry, Shown, Show, GameOf, Reporting, ConnsOf,
     Freeze, games, shake, ends, report
<1>2. BooksAgree'
  BY NoneIsNothing, TermsArePositive DEF IInv, TypeOK, BooksAgree, JoinSound, Entry, Freeze, games,
     shake, ends, report
<1>3. AfkMeansAway'
  BY NoneIsNothing, TermsArePositive DEF IInv, TypeOK, BooksAgree, AfkMeansAway, Online, ConnsOf, Freeze,
     games, shake, ends, report
<1>4. AwayMeansAfk'
  BY NoneIsNothing, TermsArePositive DEF IInv, TypeOK, BooksAgree, AwayMeansAfk, AfkMeansAway,
     GraceSound, Online, ConnsOf, Freeze, games, shake, ends, report
<1>5. GraceSound'
  BY NoneIsNothing, TermsArePositive DEF IInv, TypeOK, GraceSound, Online, ConnsOf, Freeze, games, shake,
     ends, report
<1>6. ReportSound'
  BY NoneIsNothing, TermsArePositive DEF IInv, TypeOK, ReportSound, Freeze, games, shake, ends, report
<1>7. WaitSound'
  BY NoneIsNothing, TermsArePositive DEF IInv, TypeOK, WaitSound, Freeze, games, shake, ends, report
<1>8. JoinSound'
  BY NoneIsNothing, TermsArePositive DEF IInv, TypeOK, JoinSound, Freeze, games, shake, ends, report
<1> QED BY <1>1, <1>2, <1>3, <1>4, <1>5, <1>6, <1>7, <1>8 DEF IInv

\* The server does not notice.
LEMMA ThawKeeps ==
  ASSUME IInv, NEW c \in Conns, Thaw(c)
  PROVE  IInv'
<1>1. TypeOK'
  BY NoneIsNothing, TermsArePositive DEF IInv, TypeOK, Entry, Shown, Show, GameOf, Reporting, ConnsOf,
     Thaw, games, shake, ends, report
<1>2. BooksAgree'
  BY NoneIsNothing, TermsArePositive DEF IInv, TypeOK, BooksAgree, JoinSound, Entry, Thaw, games, shake,
     ends, report
<1>3. AfkMeansAway'
  BY NoneIsNothing, TermsArePositive DEF IInv, TypeOK, BooksAgree, AfkMeansAway, Online, ConnsOf, Thaw,
     games, shake, ends, report
<1>4. AwayMeansAfk'
  BY NoneIsNothing, TermsArePositive DEF IInv, TypeOK, BooksAgree, AwayMeansAfk, AfkMeansAway,
     GraceSound, Online, ConnsOf, Thaw, games, shake, ends, report
<1>5. GraceSound'
  BY NoneIsNothing, TermsArePositive DEF IInv, TypeOK, GraceSound, Online, ConnsOf, Thaw, games, shake,
     ends, report
<1>6. ReportSound'
  BY NoneIsNothing, TermsArePositive DEF IInv, TypeOK, ReportSound, Thaw, games, shake, ends, report
<1>7. WaitSound'
  BY NoneIsNothing, TermsArePositive DEF IInv, TypeOK, WaitSound, Thaw, games, shake, ends, report
<1>8. JoinSound'
  BY NoneIsNothing, TermsArePositive DEF IInv, TypeOK, JoinSound, Thaw, games, shake, ends, report
<1> QED BY <1>1, <1>2, <1>3, <1>4, <1>5, <1>6, <1>7, <1>8 DEF IInv

\* The server does not notice.
LEMMA VanishKeeps ==
  ASSUME IInv, NEW c \in Conns, Vanish(c)
  PROVE  IInv'
<1>1. TypeOK'
  BY NoneIsNothing, TermsArePositive DEF IInv, TypeOK, Entry, Shown, Show, GameOf, Reporting, ConnsOf,
     Vanish, games, shake, ends, report
<1>2. BooksAgree'
  BY NoneIsNothing, TermsArePositive DEF IInv, TypeOK, BooksAgree, JoinSound, Entry, Vanish, games,
     shake, ends, report
<1>3. AfkMeansAway'
  BY NoneIsNothing, TermsArePositive DEF IInv, TypeOK, BooksAgree, AfkMeansAway, Online, ConnsOf, Vanish,
     games, shake, ends, report
<1>4. AwayMeansAfk'
  BY NoneIsNothing, TermsArePositive DEF IInv, TypeOK, BooksAgree, AwayMeansAfk, AfkMeansAway,
     GraceSound, Online, ConnsOf, Vanish, games, shake, ends, report
<1>5. GraceSound'
  BY NoneIsNothing, TermsArePositive DEF IInv, TypeOK, GraceSound, Online, ConnsOf, Vanish, games, shake,
     ends, report
<1>6. ReportSound'
  BY NoneIsNothing, TermsArePositive DEF IInv, TypeOK, ReportSound, Vanish, games, shake, ends, report
<1>7. WaitSound'
  BY NoneIsNothing, TermsArePositive DEF IInv, TypeOK, WaitSound, Vanish, games, shake, ends, report
<1>8. JoinSound'
  BY NoneIsNothing, TermsArePositive DEF IInv, TypeOK, JoinSound, Vanish, games, shake, ends, report
<1> QED BY <1>1, <1>2, <1>3, <1>4, <1>5, <1>6, <1>7, <1>8 DEF IInv

\* A pong is no word of the client.
LEMMA PongKeeps ==
  ASSUME IInv, NEW c \in Conns, Pong(c)
  PROVE  IInv'
<1>1. TypeOK'
  BY NoneIsNothing, TermsArePositive DEF IInv, TypeOK, Entry, Shown, Show, GameOf, Reporting, ConnsOf,
     Pong, games, shake, ends, report
<1>2. BooksAgree'
  BY NoneIsNothing, TermsArePositive DEF IInv, TypeOK, BooksAgree, JoinSound, Entry, Pong, games, shake,
     ends, report
<1>3. AfkMeansAway'
  BY NoneIsNothing, TermsArePositive DEF IInv, TypeOK, BooksAgree, AfkMeansAway, Online, ConnsOf, Pong,
     games, shake, ends, report
<1>4. AwayMeansAfk'
  BY NoneIsNothing, TermsArePositive DEF IInv, TypeOK, BooksAgree, AwayMeansAfk, AfkMeansAway,
     GraceSound, Online, ConnsOf, Pong, games, shake, ends, report
<1>5. GraceSound'
  BY NoneIsNothing, TermsArePositive DEF IInv, TypeOK, GraceSound, Online, ConnsOf, Pong, games, shake,
     ends, report
<1>6. ReportSound'
  BY NoneIsNothing, TermsArePositive DEF IInv, TypeOK, ReportSound, Pong, games, shake, ends, report
<1>7. WaitSound'
  BY NoneIsNothing, TermsArePositive DEF IInv, TypeOK, WaitSound, Pong, games, shake, ends, report
<1>8. JoinSound'
  BY NoneIsNothing, TermsArePositive DEF IInv, TypeOK, JoinSound, Pong, games, shake, ends, report
<1> QED BY <1>1, <1>2, <1>3, <1>4, <1>5, <1>6, <1>7, <1>8 DEF IInv

\* Each change of the books is followed by a look at the user.
LEMMA ActivityKeeps ==
  ASSUME IInv, NEW c \in Conns, NEW lazy \in BOOLEAN,
      NEW rep \in {<<>>} \cup {<<g>> : g \in Games \cup {None}}, Activity(c, lazy, rep)
  PROVE  IInv'
<1>1. TypeOK'
  <2>1. userOf[c] \in Users /\ (rep # <<>> => rep[1] \in Games \cup {None})
    BY DEF Activity, IInv, TypeOK
  <2>2. playing' \in [Conns -> Games \cup {None}] /\ after' \subseteq Conns \X Conns
    BY <2>1 DEF Activity, SetGame, IInv, TypeOK, games
  <2>3. told' \in [Users -> Shown]
    BY <2>1, <2>2 DEF Activity, Tell, IInv, TypeOK, Shown, Show, GameOf, Reporting, ConnsOf
  <2>4. seen' \in [Conns -> Entry \cup {None}]
    BY TermsArePositive DEF Activity, Heard, IInv, TypeOK, Entry
  <2>5. afk' \subseteq Users
    BY DEF Activity, Refreshed, IInv, TypeOK
  <2>6. waiting' \in [Conns -> {<<>>} \cup {<<g>> : g \in Games \cup {None}}] /\ reported' \in [Conns -> Games \cup {None}]
    BY <2>1 DEF Activity, IInv, TypeOK
  <2>7. idle' \subseteq Conns /\ stale' \subseteq Conns /\ cooling' \subseteq Conns
    BY DEF Activity, IInv, TypeOK
  <2> QED BY <2>2, <2>3, <2>4, <2>5, <2>6, <2>7 DEF Activity, IInv, TypeOK, shake, ends
<1>2. BooksAgree'
  BY NoneIsNothing, TermsArePositive DEF IInv, TypeOK, BooksAgree, JoinSound, Entry, Activity, Heard,
     WasStale, Refreshed, Away, SetGame, Tell, games, shake, ends, report
<1>3. AfkMeansAway'
  BY NoneIsNothing, TermsArePositive DEF IInv, TypeOK, BooksAgree, AfkMeansAway, Online, ConnsOf,
     Activity, Heard, WasStale, Refreshed, Away, SetGame, Tell, games, shake, ends, report
<1>4. AwayMeansAfk'
  BY NoneIsNothing, TermsArePositive DEF IInv, TypeOK, BooksAgree, AwayMeansAfk, AfkMeansAway,
     GraceSound, Online, ConnsOf, Activity, Heard, WasStale, Refreshed, Away, SetGame, Tell, games, shake, ends, report
<1>5. GraceSound'
  BY NoneIsNothing, TermsArePositive DEF IInv, TypeOK, GraceSound, Online, ConnsOf, Activity, Heard,
     WasStale, Refreshed, Away, SetGame, Tell, games, shake, ends, report
<1>6. ReportSound'
  BY NoneIsNothing, TermsArePositive DEF IInv, TypeOK, ReportSound, Activity, Heard, WasStale, Refreshed,
     Away, SetGame, Tell, games, shake, ends, report
<1>7. WaitSound'
  BY NoneIsNothing, TermsArePositive DEF IInv, TypeOK, WaitSound, Activity, Heard, WasStale, Refreshed,
     Away, SetGame, Tell, games, shake, ends, report
<1>8. JoinSound'
  BY NoneIsNothing, TermsArePositive DEF IInv, TypeOK, JoinSound, Activity, Heard, WasStale, Refreshed,
     Away, SetGame, Tell, games, shake, ends, report
<1> QED BY <1>1, <1>2, <1>3, <1>4, <1>5, <1>6, <1>7, <1>8 DEF IInv

\* Only the throttle changes.
LEMMA CoolDownKeeps ==
  ASSUME IInv, NEW c \in Conns, CoolDown(c)
  PROVE  IInv'
<1>1. TypeOK'
  BY NoneIsNothing, TermsArePositive DEF IInv, TypeOK, Entry, Shown, Show, GameOf, Reporting, ConnsOf,
     CoolDown, games, shake, ends, report
<1>2. BooksAgree'
  BY NoneIsNothing, TermsArePositive DEF IInv, TypeOK, BooksAgree, JoinSound, Entry, CoolDown, games,
     shake, ends, report
<1>3. AfkMeansAway'
  BY NoneIsNothing, TermsArePositive DEF IInv, TypeOK, BooksAgree, AfkMeansAway, Online, ConnsOf,
     CoolDown, games, shake, ends, report
<1>4. AwayMeansAfk'
  BY NoneIsNothing, TermsArePositive DEF IInv, TypeOK, BooksAgree, AwayMeansAfk, AfkMeansAway,
     GraceSound, Online, ConnsOf, CoolDown, games, shake, ends, report
<1>5. GraceSound'
  BY NoneIsNothing, TermsArePositive DEF IInv, TypeOK, GraceSound, Online, ConnsOf, CoolDown, games,
     shake, ends, report
<1>6. ReportSound'
  BY NoneIsNothing, TermsArePositive DEF IInv, TypeOK, ReportSound, CoolDown, games, shake, ends, report
<1>7. WaitSound'
  BY NoneIsNothing, TermsArePositive DEF IInv, TypeOK, WaitSound, CoolDown, games, shake, ends, report
<1>8. JoinSound'
  BY NoneIsNothing, TermsArePositive DEF IInv, TypeOK, JoinSound, CoolDown, games, shake, ends, report
<1> QED BY <1>1, <1>2, <1>3, <1>4, <1>5, <1>6, <1>7, <1>8 DEF IInv

\* The waiting report is the last one.
LEMMA GameTimerKeeps ==
  ASSUME IInv, NEW c \in Conns, GameTimer(c)
  PROVE  IInv'
<1>1. TypeOK'
  <2>1. waiting[c] \in {<<g>> : g \in Games \cup {None}} /\ waiting[c][1] \in Games \cup {None}
    BY DEF GameTimer, IInv, TypeOK
  <2>2. playing' \in [Conns -> Games \cup {None}] /\ after' \subseteq Conns \X Conns
    BY <2>1 DEF GameTimer, SetGame, IInv, TypeOK
  <2>3. told' \in [Users -> Shown]
    <3>1. userOf[c] \in Users
      BY DEF GameTimer, IInv, TypeOK, WaitSound
    <3>2. Show(userOf', afk', playing', after', userOf[c]) \in Shown
      BY <2>2 DEF Shown, Show, GameOf, Reporting, ConnsOf
    <3> QED BY <3>1, <3>2 DEF GameTimer, Tell, IInv, TypeOK
  <2> QED BY <2>2, <2>3 DEF GameTimer, IInv, TypeOK, shake, ends
<1>2. BooksAgree'
  <2>1. waiting[c] # <<>> /\ userOf[c] # None
    BY DEF GameTimer, IInv, WaitSound
  <2>2. playing \in [Conns -> Games \cup {None}] /\ after \subseteq Conns \X Conns
    BY DEF IInv, TypeOK
  <2>3. \A d \in Conns : d # c => playing'[d] = playing[d]
    BY <2>2 DEF GameTimer, SetGame
  <2>4. \A d, e \in Conns : d # e /\ playing'[d] # None /\ playing'[e] # None =>
          (<<d, e>> \in after' <=> <<e, d>> \notin after')
    <3>1. \A d, e \in Conns \ {c} : <<d, e>> \in after' <=> <<d, e>> \in after
      BY DEF GameTimer, SetGame
    <3>2. \A d \in Conns \ {c} : playing'[c] # None /\ playing[d] # None => <<c, d>> \in after' /\ <<d, c>> \notin after'
      BY <2>2 DEF GameTimer, SetGame
    <3> QED BY <2>3, <3>1, <3>2 DEF IInv, BooksAgree
  <2> QED BY <2>1, <2>3, <2>4 DEF GameTimer, IInv, BooksAgree
<1>3. AfkMeansAway'
  BY NoneIsNothing, TermsArePositive DEF IInv, TypeOK, BooksAgree, AfkMeansAway, Online, ConnsOf,
     GameTimer, SetGame, Tell, games, shake, ends, report
<1>4. AwayMeansAfk'
  BY NoneIsNothing, TermsArePositive DEF IInv, TypeOK, BooksAgree, AwayMeansAfk, AfkMeansAway,
     GraceSound, Online, ConnsOf, GameTimer, SetGame, Tell, games, shake, ends, report
<1>5. GraceSound'
  BY NoneIsNothing, TermsArePositive DEF IInv, TypeOK, GraceSound, Online, ConnsOf, GameTimer, SetGame,
     Tell, games, shake, ends, report
<1>6. ReportSound'
  BY NoneIsNothing, TermsArePositive DEF IInv, TypeOK, ReportSound, GameTimer, SetGame, Tell, games,
     shake, ends, report
<1>7. WaitSound'
  BY NoneIsNothing, TermsArePositive DEF IInv, TypeOK, WaitSound, GameTimer, SetGame, Tell, games, shake,
     ends, report
<1>8. JoinSound'
  BY NoneIsNothing, TermsArePositive DEF IInv, TypeOK, JoinSound, GameTimer, SetGame, Tell, games, shake,
     ends, report
<1> QED BY <1>1, <1>2, <1>3, <1>4, <1>5, <1>6, <1>7, <1>8 DEF IInv

\* A tick makes the entries of the sweep's book older and keeps whose they are.
LEMMA TickAges ==
  ASSUME seen \in [Conns -> Entry \cup {None}], Tick
  PROVE  \A c \in Conns : /\ seen'[c] \in Entry \cup {None}
                          /\ seen'[c] = None <=> seen[c] = None
                          /\ seen[c] # None => seen'[c].stale = seen[c].stale
<1> TAKE c \in Conns
<1>1. CASE seen[c] = None
  BY <1>1 DEF Tick
<1>2. CASE seen[c] # None
  <2>1. seen[c] \in Entry
    BY <1>2
  <2>2. Older(seen[c].any, DeadAfter) \in 0..DeadAfter /\ Older(seen[c].app, StaleAfter) \in 0..StaleAfter
    <3>1. seen[c].any \in 0..DeadAfter /\ seen[c].app \in 0..StaleAfter
      BY <2>1 DEF Entry
    <3>2. DeadAfter \in Nat /\ StaleAfter \in Nat
      BY TermsArePositive
    <3> QED BY <3>1, <3>2 DEF Older
  <2>3. seen'[c] = [seen[c] EXCEPT !.any = Older(@, DeadAfter), !.app = Older(@, StaleAfter)]
    BY <1>2 DEF Tick
  <2>4. seen'[c] = [any |-> Older(seen[c].any, DeadAfter), app |-> Older(seen[c].app, StaleAfter),
                    stale |-> seen[c].stale]
    BY <2>1, <2>3 DEF Entry
  <2>5. seen'[c] \in Entry
    BY <2>1, <2>2, <2>4 DEF Entry
  <2> QED BY <1>2, <2>4, <2>5, NoneIsNothing
<1> QED BY <1>1, <1>2

\* A grace ends only through its timer.
LEMMA TickKeeps ==
  ASSUME IInv, Tick
  PROVE  IInv'
<1>1. \A u \in Users : /\ grace'[u] \in (0..AfkAfter) \cup {None}
                       /\ grace'[u] = None <=> grace[u] = None
                       /\ grace[u] = 0 => grace'[u] = 0
  <2> TAKE u \in Users
  <2>1. grace[u] \in (0..AfkAfter) \cup {None} /\ AfkAfter \in Nat /\ None \notin Nat
    BY TermsArePositive, NoneIsNothing DEF IInv, TypeOK
  <2>2. grace'[u] = IF grace[u] \in {None, 0} THEN grace[u] ELSE grace[u] - 1
    BY DEF Tick
  <2> QED BY <2>1, <2>2
<1>2. \A c \in Conns : /\ seen'[c] \in Entry \cup {None}
                       /\ seen'[c] = None <=> seen[c] = None
                       /\ seen[c] # None => seen'[c].stale = seen[c].stale
  <2>1. seen \in [Conns -> Entry \cup {None}]
    BY DEF IInv, TypeOK
  <2> QED BY <2>1, TickAges
<1>3. UNCHANGED <<userOf, idle, stale, afk, playing, after, waiting, cooling, joining, over, dying, silent,
    gone,
                  told, reported>>
  BY DEF Tick, games, shake, ends, report
<1>4. TypeOK'
  <2>1. seen' \in [Conns -> Entry \cup {None}]
    BY <1>2 DEF Tick
  <2>2. grace' \in [Users -> (0..AfkAfter) \cup {None}]
    BY <1>1 DEF Tick
  <2> QED BY <1>3, <2>1, <2>2 DEF IInv, TypeOK
<1>5. BooksAgree'
  BY <1>2, <1>3 DEF IInv, BooksAgree
<1>6. AfkMeansAway'
  BY <1>1, <1>3 DEF IInv, AfkMeansAway, Online, ConnsOf, TypeOK
<1>7. AwayMeansAfk'
  BY <1>1, <1>3 DEF IInv, AwayMeansAfk, Online, ConnsOf
<1>8. GraceSound'
  BY <1>1, <1>3 DEF IInv, GraceSound, Online, ConnsOf
<1>9. ReportSound'
  BY <1>3 DEF IInv, ReportSound
<1>10. WaitSound' /\ JoinSound'
  BY <1>2, <1>3 DEF IInv, TypeOK, WaitSound, JoinSound
<1> QED BY <1>4, <1>5, <1>6, <1>7, <1>8, <1>9, <1>10 DEF IInv

\* The timer looks again.
LEMMA GraceEndsKeeps ==
  ASSUME IInv, NEW u \in Users, GraceEnds(u)
  PROVE  IInv'
<1>1. TypeOK'
  BY NoneIsNothing, TermsArePositive DEF IInv, TypeOK, Entry, Shown, Show, GameOf, Reporting, ConnsOf,
     GraceEnds, Refreshed, Away, Tell, games, shake, ends, report
<1>2. BooksAgree'
  BY NoneIsNothing, TermsArePositive DEF IInv, TypeOK, BooksAgree, JoinSound, Entry, GraceEnds,
     Refreshed, Away, Tell, games, shake, ends, report
<1>3. AfkMeansAway'
  BY NoneIsNothing, TermsArePositive DEF IInv, TypeOK, BooksAgree, AfkMeansAway, Online, ConnsOf,
     GraceEnds, Refreshed, Away, Tell, games, shake, ends, report
<1>4. AwayMeansAfk'
  BY NoneIsNothing, TermsArePositive DEF IInv, TypeOK, BooksAgree, AwayMeansAfk, AfkMeansAway,
     GraceSound, Online, ConnsOf, GraceEnds, Refreshed, Away, Tell, games, shake, ends, report
<1>5. GraceSound'
  BY NoneIsNothing, TermsArePositive DEF IInv, TypeOK, GraceSound, Online, ConnsOf, GraceEnds, Refreshed,
     Away, Tell, games, shake, ends, report
<1>6. ReportSound'
  BY NoneIsNothing, TermsArePositive DEF IInv, TypeOK, ReportSound, GraceEnds, Refreshed, Away, Tell,
     games, shake, ends, report
<1>7. WaitSound'
  BY NoneIsNothing, TermsArePositive DEF IInv, TypeOK, WaitSound, GraceEnds, Refreshed, Away, Tell,
     games, shake, ends, report
<1>8. JoinSound'
  BY NoneIsNothing, TermsArePositive DEF IInv, TypeOK, JoinSound, GraceEnds, Refreshed, Away, Tell,
     games, shake, ends, report
<1> QED BY <1>1, <1>2, <1>3, <1>4, <1>5, <1>6, <1>7, <1>8 DEF IInv

\* Both books are written in one sweep.
LEMMA SweepKeeps ==
  ASSUME IInv, Sweep
  PROVE  IInv'
<1>0. \A c \in Conns : /\ seen'[c] \in Entry \cup {None}
                       /\ seen'[c] = None <=> seen[c] = None
                       /\ seen[c] # None => (seen'[c].stale <=> seen[c].stale \/ c \in NewlyStale)
  <2> TAKE c \in Conns
  <2>1. CASE c \in NewlyStale
    <3>1. seen[c] \in Entry /\ seen'[c] = [seen[c] EXCEPT !.stale = TRUE]
      BY <2>1 DEF Sweep, NewlyStale, IInv, TypeOK
    <3>2. seen'[c] = [any |-> seen[c].any, app |-> seen[c].app, stale |-> TRUE]
      BY <3>1 DEF Entry
    <3> QED BY <2>1, <3>1, <3>2, NoneIsNothing DEF Entry, NewlyStale
  <2>2. CASE c \notin NewlyStale
    BY <2>2 DEF Sweep, IInv, TypeOK
  <2> QED BY <2>1, <2>2
<1>1. TypeOK'
  <2>1. seen' \in [Conns -> Entry \cup {None}]
    BY <1>0 DEF Sweep
  <2>2. told' \in [Users -> Shown]
    BY DEF Sweep, IInv, TypeOK, Shown, Show, GameOf, Reporting, ConnsOf, games
  <2>3. dying' \subseteq Conns /\ stale' \subseteq Conns /\ afk' \subseteq Users
    BY DEF Sweep, Dead, NewlyStale, Refreshed, IInv, TypeOK
  <2> QED BY <2>1, <2>2, <2>3 DEF Sweep, IInv, TypeOK, games, shake, ends, report
<1>2. BooksAgree'
  BY <1>0 DEF Sweep, NewlyStale, IInv, BooksAgree, games
<1>3. AfkMeansAway'
  BY NoneIsNothing, TermsArePositive DEF IInv, TypeOK, BooksAgree, AfkMeansAway, Online, ConnsOf, Sweep,
     Dead, NewlyStale, Refreshed, Away, games, shake, ends, report
<1>4. AwayMeansAfk'
  BY NoneIsNothing, TermsArePositive DEF IInv, TypeOK, BooksAgree, AwayMeansAfk, AfkMeansAway,
     GraceSound, Online, ConnsOf, Sweep, Dead, NewlyStale, Refreshed, Away, games, shake, ends, report
<1>5. GraceSound'
  BY NoneIsNothing, TermsArePositive DEF IInv, TypeOK, GraceSound, Online, ConnsOf, Sweep, Dead,
     NewlyStale, Refreshed, Away, games, shake, ends, report
<1>6. ReportSound'
  BY NoneIsNothing, TermsArePositive DEF IInv, TypeOK, ReportSound, Sweep, Dead, NewlyStale, Refreshed,
     Away, games, shake, ends, report
<1>7. WaitSound'
  BY NoneIsNothing, TermsArePositive DEF IInv, TypeOK, WaitSound, Sweep, Dead, NewlyStale, Refreshed,
     Away, games, shake, ends, report
<1>8. JoinSound'
  BY <1>0, NoneIsNothing, TermsArePositive DEF IInv, TypeOK, JoinSound, Sweep, Dead, NewlyStale,
     Refreshed, Away, games, shake, ends, report
<1> QED BY <1>1, <1>2, <1>3, <1>4, <1>5, <1>6, <1>7, <1>8 DEF IInv

\* Nothing happens.
LEMMA StutterKeeps == ASSUME IInv, UNCHANGED vars PROVE IInv'
BY DEF IInv, TypeOK, BooksAgree, AfkMeansAway, AwayMeansAfk, GraceSound, ReportSound, WaitSound, JoinSound,
    Online,
   ConnsOf, vars

LEMMA StepKeeps == IInv /\ [Next]_vars => IInv'
BY AddKeeps, WatchKeeps, TurnAwayKeeps, CloseKeeps, FreezeKeeps, ThawKeeps, VanishKeeps, PongKeeps,
   ActivityKeeps, CoolDownKeeps, GameTimerKeeps, TickKeeps, GraceEndsKeeps, SweepKeeps, StutterKeeps DEF Next

LEMMA SpecIInv == Spec => []IInv
BY InitSound, StepKeeps, PTL DEF Spec

\* What is shown of a user depends on their own connections, reports and absence alone.
LEMMA SameShow ==
  ASSUME NEW o, NEW a, NEW p, NEW l, NEW o2, NEW a2, NEW p2, NEW l2, NEW u,
         ConnsOf(o, u) = {} <=> ConnsOf(o2, u) = {}, u \in a <=> u \in a2,
         Reporting(o, p, u) = Reporting(o2, p2, u),
         \A c \in Reporting(o, p, u) : p[c] = p2[c],
         \A c, d \in Reporting(o, p, u) : <<c, d>> \in l <=> <<c, d>> \in l2
  PROVE  Show(o, a, p, l, u) = Show(o2, a2, p2, l2, u)
<1>1. GameOf(o, p, l, u) = GameOf(o2, p2, l2, u)
  BY DEF GameOf
<1> QED BY <1>1 DEF Show

\* A report of one connection changes nothing about the order of the others.
LEMMA ReportOfOne ==
  ASSUME TypeOK, NEW c \in Conns, NEW g, SetGame(c, g)
  PROVE  \A d, e \in Conns \ {c} : playing'[d] = playing[d] /\ (<<d, e>> \in after' <=> <<d, e>> \in after)
BY DEF TypeOK, SetGame

\* Every change of what is shown is told, and told with what is shown then.
LEMMA TellingKeeps == ASSUME IInv, ListenersKnow, [Next]_vars PROVE ListenersKnow'
<1>1. ASSUME NEW c \in Conns, NEW u \in Users, NEW late \in BOOLEAN, Add(c, u, late) PROVE ListenersKnow'
  <2>1. playing[c] = None /\ userOf[c] = None /\ None \notin Users
    BY <1>1, NoneIsNothing DEF Add, IInv, BooksAgree
  <2>2. \A v \in Users : /\ Reporting(userOf', playing', v) = Reporting(userOf, playing, v)
                         /\ v # u => ConnsOf(userOf', v) = ConnsOf(userOf, v) /\ (v \in afk' <=> v \in afk)
    BY <1>1, <2>1 DEF Add, games, Reporting, ConnsOf, IInv, TypeOK
  <2>3. c \in ConnsOf(userOf', u)
    BY <1>1 DEF Add, ConnsOf, IInv, TypeOK
  <2>4. CASE Online(u) /\ u \notin afk
    <3>1. \A v \in Users : Show(userOf', afk', playing', after', v) = Show(userOf, afk, playing, after, v)
      <4> TAKE v \in Users
      <4>1. ConnsOf(userOf', v) = {} <=> ConnsOf(userOf, v) = {}
        BY <2>2, <2>3, <2>4 DEF Online
      <4>2. v \in afk' <=> v \in afk
        BY <1>1, <2>4 DEF Add
      <4>3. playing' = playing /\ after' = after /\ Reporting(userOf', playing', v) = Reporting(userOf, playing, v)
        BY <1>1, <2>2 DEF Add, games
      <4> QED BY <4>1, <4>2, <4>3, SameShow
    <3> QED BY <1>1, <2>4, <3>1 DEF Add, Tell, ListenersKnow
  <2>5. CASE ~Online(u) \/ u \in afk
    <3>1. \A v \in Users \ {u} : Show(userOf', afk', playing', after', v) = Show(userOf, afk, playing, after, v)
      <4> TAKE v \in Users \ {u}
      <4>1. playing' = playing /\ after' = after /\ Reporting(userOf', playing', v) = Reporting(userOf, playing, v)
        BY <1>1, <2>2 DEF Add, games
      <4>2. ConnsOf(userOf', v) = ConnsOf(userOf, v) /\ (v \in afk' <=> v \in afk)
        BY <2>2
      <4> QED BY <4>1, <4>2, SameShow
    <3>2. told' = [told EXCEPT ![u] = Show(userOf', afk', playing', after', u)]
      BY <1>1, <2>5 DEF Add, Tell
    <3> QED BY <3>1, <3>2 DEF ListenersKnow, IInv, TypeOK
  <2> QED BY <2>4, <2>5
<1>2. ASSUME NEW c \in Conns, Close(c) PROVE ListenersKnow'
  <2> DEFINE u == userOf[c]
  <2>1. u \in Users /\ userOf' = [userOf EXCEPT ![c] = None] /\ None \notin Users /\ SetGame(c, None)
    BY <1>2, NoneIsNothing DEF Close, IInv, TypeOK
  <2>2. \A d, e \in Conns \ {c} : playing'[d] = playing[d] /\ (<<d, e>> \in after' <=> <<d, e>> \in after)
    BY <2>1, ReportOfOne DEF IInv
  <2>3. \A v \in Users \ {u} : /\ ConnsOf(userOf', v) = ConnsOf(userOf, v) /\ c \notin ConnsOf(userOf, v)
                               /\ v \in afk' <=> v \in afk
    BY <1>2, <2>1 DEF Close, ConnsOf, IInv, TypeOK
  <2>4. \A v \in Users \ {u} : Show(userOf', afk', playing', after', v) = Show(userOf, afk, playing, after, v)
    <3> TAKE v \in Users \ {u}
    <3>1. Reporting(userOf', playing', v) = Reporting(userOf, playing, v) /\ Reporting(userOf, playing, v) \subseteq Conns \ {c}
      BY <2>2, <2>3 DEF Reporting, ConnsOf
    <3>2. ConnsOf(userOf', v) = {} <=> ConnsOf(userOf, v) = {}
      BY <2>3 DEF ConnsOf
    <3>3. \A d \in Reporting(userOf', playing', v) : playing'[d] = playing[d]
      BY <2>2, <3>1
    <3>4. \A d, e \in Reporting(userOf', playing', v) : <<d, e>> \in after' <=> <<d, e>> \in after
      BY <2>2, <3>1
    <3>5. v \in afk' <=> v \in afk
      BY <2>3
    <3> QED BY <3>1, <3>2, <3>3, <3>4, <3>5, SameShow
  <2>5. CASE ConnsOf(userOf, u) = {c} \/ GameChanged(u)
    <3>1. told' = [told EXCEPT ![u] = Show(userOf', afk', playing', after', u)]
      BY <1>2, <2>5 DEF Close, Tell
    <3> QED BY <2>4, <3>1 DEF ListenersKnow, IInv, TypeOK
  <2>6. CASE ConnsOf(userOf, u) # {c} /\ ~GameChanged(u)
    <3>1. told' = told /\ afk' = afk
      BY <1>2, <2>6 DEF Close, Tell
    <3>2. ConnsOf(userOf, u) # {} /\ ConnsOf(userOf', u) # {}
      BY <2>1, <2>6 DEF ConnsOf, IInv, TypeOK
    <3>3. Show(userOf', afk', playing', after', u) = Show(userOf, afk, playing, after, u)
      BY <2>6, <3>1, <3>2 DEF Show, GameChanged
    <3> QED BY <2>4, <3>1, <3>3 DEF ListenersKnow
  <2> QED BY <2>5, <2>6
<1>3. ASSUME NEW c \in Conns, NEW g, userOf[c] \in Users, userOf' = userOf,
             \A v \in Users \ {userOf[c]} : v \in afk' <=> v \in afk,
             SetGame(c, g) \/ UNCHANGED games,
             Tell(userOf[c], (userOf[c] \in afk') # (userOf[c] \in afk) \/ GameChanged(userOf[c]))
      PROVE  ListenersKnow'
  <2> DEFINE u == userOf[c]
  <2>1. \A d, e \in Conns \ {c} : playing'[d] = playing[d] /\ (<<d, e>> \in after' <=> <<d, e>> \in after)
    BY <1>3, ReportOfOne DEF IInv, games
  <2>2. \A v \in Users \ {u} : Show(userOf', afk', playing', after', v) = Show(userOf, afk, playing, after, v)
    <3> TAKE v \in Users \ {u}
    <3>1. Reporting(userOf', playing', v) = Reporting(userOf, playing, v) /\ Reporting(userOf, playing, v) \subseteq Conns \ {c}
      BY <1>3, <2>1 DEF Reporting, ConnsOf
    <3>2. ConnsOf(userOf', v) = {} <=> ConnsOf(userOf, v) = {}
      BY <1>3 DEF ConnsOf
    <3>3. \A d \in Reporting(userOf', playing', v) : playing'[d] = playing[d]
      BY <2>1, <3>1
    <3>4. \A d, e \in Reporting(userOf', playing', v) : <<d, e>> \in after' <=> <<d, e>> \in after
      BY <2>1, <3>1
    <3>5. v \in afk' <=> v \in afk
      BY <1>3
    <3> QED BY <3>1, <3>2, <3>3, <3>4, <3>5, SameShow
  <2>3. CASE (u \in afk') # (u \in afk) \/ GameChanged(u)
    <3>1. told' = [told EXCEPT ![u] = Show(userOf', afk', playing', after', u)]
      BY <1>3, <2>3 DEF Tell
    <3> QED BY <1>3, <2>2, <3>1 DEF ListenersKnow, IInv, TypeOK
  <2>4. CASE ~((u \in afk') # (u \in afk) \/ GameChanged(u))
    <3>1. told' = told
      BY <1>3, <2>4 DEF Tell
    <3>2. Show(userOf', afk', playing', after', u) = Show(userOf, afk, playing, after, u)
      BY <1>3, <2>4 DEF Show, GameChanged
    <3> QED BY <2>2, <3>1, <3>2 DEF ListenersKnow
  <2> QED BY <2>3, <2>4
<1>4. ASSUME NEW c \in Conns, NEW lazy \in BOOLEAN, NEW rep, Activity(c, lazy, rep) PROVE ListenersKnow'
  <2>1. userOf[c] \in Users /\ userOf' = userOf /\ (SetGame(c, rep[1]) \/ UNCHANGED games)
    BY <1>4 DEF Activity, IInv, TypeOK
  <2>2. \A v \in Users \ {userOf[c]} : v \in afk' <=> v \in afk
    BY <1>4 DEF Activity, Refreshed
  <2>3. Tell(userOf[c], (userOf[c] \in afk') # (userOf[c] \in afk) \/ GameChanged(userOf[c]))
    BY <1>4 DEF Activity
  <2> QED BY <1>3, <2>1, <2>2, <2>3
<1>5. ASSUME NEW c \in Conns, GameTimer(c) PROVE ListenersKnow'
  <2>1. userOf[c] \in Users /\ userOf' = userOf /\ SetGame(c, waiting[c][1]) /\ afk' = afk
    BY <1>5 DEF GameTimer, IInv, TypeOK, WaitSound
  <2>2. Tell(userOf[c], (userOf[c] \in afk') # (userOf[c] \in afk) \/ GameChanged(userOf[c]))
    <3>1. GameChanged(userOf[c]) = ((userOf[c] \in afk') # (userOf[c] \in afk) \/ GameChanged(userOf[c]))
      BY <2>1 DEF GameChanged
    <3> QED BY <1>5, <3>1 DEF GameTimer, Tell
  <2> QED BY <1>3, <2>1, <2>2
<1>6. ASSUME NEW u \in Users, GraceEnds(u) PROVE ListenersKnow'
  <2>1. UNCHANGED <<userOf, playing, after>> /\ \A v \in Users \ {u} : v \in afk' <=> v \in afk
    BY <1>6 DEF GraceEnds, games, Refreshed
  <2>2. \A v \in Users : (v \in afk' <=> v \in afk)
                         => Show(userOf', afk', playing', after', v) = Show(userOf, afk, playing, after, v)
    BY <2>1, SameShow
  <2>3. CASE (u \in afk') # (u \in afk)
    BY <1>6, <2>1, <2>2, <2>3 DEF GraceEnds, Tell, ListenersKnow, IInv, TypeOK
  <2>4. CASE (u \in afk') = (u \in afk)
    BY <1>6, <2>1, <2>2, <2>4 DEF GraceEnds, Tell, ListenersKnow
  <2> QED BY <2>3, <2>4
<1>7. ASSUME Sweep PROVE ListenersKnow'
  <2>1. UNCHANGED <<userOf, playing, after>>
    BY <1>7 DEF Sweep, games
  <2>2. \A v \in Users : (v \in afk' <=> v \in afk)
                         => Show(userOf', afk', playing', after', v) = Show(userOf, afk, playing, after, v)
    BY <2>1, SameShow
  <2>3. \A v \in Users : told'[v] = IF (v \in afk') # (v \in afk)
                                     THEN Show(userOf', afk', playing', after', v) ELSE told[v]
    BY <1>7 DEF Sweep
  <2> QED BY <2>2, <2>3 DEF ListenersKnow
<1>8. ASSUME UNCHANGED <<userOf, afk, playing, after, told>> PROVE ListenersKnow'
  BY <1>8 DEF ListenersKnow
<1>9. CASE Tick
  BY <1>8, <1>9 DEF Tick, games
<1>10. ASSUME NEW c \in Conns,
              Watch(c) \/ TurnAway(c) \/ Freeze(c) \/ Thaw(c) \/ Vanish(c) \/ Pong(c) \/ CoolDown(c)
       PROVE  ListenersKnow'
  BY <1>8, <1>10 DEF Watch, TurnAway, Freeze, Thaw, Vanish, Pong, CoolDown, games
<1>11. CASE UNCHANGED vars
  BY <1>8, <1>11 DEF vars
<1> QED BY <1>1, <1>2, <1>4, <1>5, <1>6, <1>7, <1>9, <1>10, <1>11 DEF Next

\* Type correctness of the hub, the sweep's book and the throttle.
THEOREM TypeCorrect == Spec => []TypeOK
<1>1. IInv => TypeOK
  BY DEF IInv
<1> QED BY <1>1, SpecIInv, PTL

\* The hub and the liveness book agree on who is silent, and neither keeps a closed connection.
THEOREM BooksStayTogether == Spec => []BooksAgree
<1>1. IInv => BooksAgree
  BY DEF IInv
<1> QED BY <1>1, SpecIInv, PTL

\* Nobody is shown AFK who has a connection in use or used one a moment ago.
THEOREM AfkIsAway == Spec => []AfkMeansAway
<1>1. IInv => AfkMeansAway
  BY DEF IInv
<1> QED BY <1>1, SpecIInv, PTL

\* Nobody who is away on all of their connections is shown present.
THEOREM AwayIsAfk == Spec => []AwayMeansAfk
<1>1. IInv => AwayMeansAfk
  BY DEF IInv
<1> QED BY <1>1, SpecIInv, PTL

\* The throttle of game reports loses none but those a later one replaced.
THEOREM LastReportStays == Spec => []LastReportCounts
<1>1. IInv => LastReportCounts
  BY DEF IInv, ReportSound, LastReportCounts
<1> QED BY <1>1, SpecIInv, PTL

\* A report that takes effect is what is shown of the member from then on.
THEOREM NewestReportIsShown == Spec => NewestReportShows
<1> DEFINE Shows ==
      \A c \in Conns : playing'[c] \notin {None, playing[c]}
                         => GameOf(userOf', playing', after', userOf'[c]) = {playing'[c]}
<1>1. IInv /\ [Next]_vars => [Shows]_vars
  <2> SUFFICES ASSUME IInv, Next, NEW c \in Conns, playing'[c] \notin {None, playing[c]}
               PROVE  GameOf(userOf', playing', after', userOf'[c]) = {playing'[c]}
    BY DEF vars
  <2>1. playing \in [Conns -> Games \cup {None}] /\ after \subseteq Conns \X Conns
    BY DEF IInv, TypeOK
  <2>2. ASSUME NEW d \in Conns, NEW g, SetGame(d, g)
        PROVE  d = c /\ g = playing'[c] /\ g # None
    BY <2>1, <2>2 DEF SetGame
  <2>3. SetGame(c, playing'[c]) /\ playing'[c] # None
    <3>1. ASSUME NEW d \in Conns, Close(d) PROVE FALSE
      BY <2>2, <3>1 DEF Close
    <3>2. ASSUME NEW d \in Conns, NEW lazy, NEW rep, Activity(d, lazy, rep)
        PROVE SetGame(c, playing'[c]) /\ playing'[c] # None
      BY <2>2, <3>2 DEF Activity, games
    <3>3. ASSUME NEW d \in Conns, GameTimer(d) PROVE SetGame(c, playing'[c]) /\ playing'[c] # None
      BY <2>2, <3>3 DEF GameTimer
    <3> QED BY <3>1, <3>2, <3>3 DEF Next, Add, Watch, TurnAway, Freeze, Thaw, Vanish, Pong, CoolDown, Tick,
            GraceEnds, Sweep, games
  <2> DEFINE mine == Reporting(userOf', playing', userOf'[c])
             top == {d \in mine : \A e \in mine \ {d} : <<d, e>> \in after'}
  <2>4. c \in mine /\ mine \subseteq Conns
    BY <2>3 DEF Reporting, ConnsOf
  <2>5. \A d \in mine \ {c} : <<c, d>> \in after' /\ <<d, c>> \notin after'
    BY <2>1, <2>3 DEF SetGame, Reporting, ConnsOf
  <2>6. top = {c}
    BY <2>4, <2>5
  <2>7. GameOf(userOf', playing', after', userOf'[c]) = {playing'[d] : d \in top}
    BY DEF GameOf
  <2> QED BY <2>6, <2>7
<1> QED BY <1>1, SpecIInv, PTL DEF Spec, NewestReportShows

\* No change of who is online, AFK or playing what goes untold.
THEOREM ListenersAreTold == Spec => []ListenersKnow
<1>1. Init => ListenersKnow
  <2> SUFFICES ASSUME Init, NEW u \in Users
               PROVE  told[u] = Show(userOf, afk, playing, after, u)
    BY DEF ListenersKnow
  <2>1. ConnsOf(userOf, u) = {} /\ u \notin afk
    BY NoneIsNothing DEF Init, ConnsOf
  <2>2. GameOf(userOf, playing, after, u) = {}
    BY <2>1 DEF GameOf, Reporting
  <2>3. told[u] = [online |-> FALSE, afk |-> FALSE, game |-> {}]
    BY DEF Init
  <2>4. (u \in afk) = FALSE /\ (ConnsOf(userOf, u) # {}) = FALSE
    BY <2>1
  <2> QED BY <2>2, <2>3, <2>4 DEF Show
<1> QED BY <1>1, SpecIInv, TellingKeeps, PTL DEF Spec

\* Whatever opens, closes, is turned away or goes silent, no connection stays in the hub that neither the sweep
\* nor the handshake nor a close event will ever touch again, but one whose socket closed before hub.add.
THEOREM KeptConnectionsAreWatched == Spec => []KeptIsWatched
<1>1. Init => KeptIsWatched
  BY DEF Init, KeptIsWatched
<1>2. IInv /\ KeptIsWatched /\ [Next]_vars => KeptIsWatched'
  <2> SUFFICES ASSUME IInv, KeptIsWatched, [Next]_vars PROVE KeptIsWatched'
    OBVIOUS
  <2> USE DEF KeptIsWatched
  <2>0. /\ userOf \in [Conns -> Users \cup {None}] /\ seen \in [Conns -> Entry \cup {None}]
        /\ None \notin Entry
    BY NoneIsNothing DEF IInv, TypeOK
  <2>1. ASSUME NEW c \in Conns, NEW u \in Users, NEW late \in BOOLEAN, Add(c, u, late) PROVE KeptIsWatched'
    BY <2>0, <2>1 DEF Add
  <2>2. ASSUME NEW c \in Conns, Watch(c) PROVE KeptIsWatched'
    <3>1. [any |-> 0, app |-> 0, stale |-> FALSE] \in Entry
      BY TermsArePositive DEF Entry
    <3>2. seen'[c] # None /\ \A d \in Conns \ {c} : seen'[d] = seen[d]
      BY <2>0, <2>2, <3>1 DEF Watch
    <3> QED BY <2>2, <3>2 DEF Watch
  <2>3. ASSUME NEW c \in Conns, TurnAway(c) PROVE KeptIsWatched'
    BY <2>3 DEF TurnAway
  <2>4. ASSUME NEW c \in Conns, Close(c) PROVE KeptIsWatched'
    <3>1. userOf'[c] = None /\ \A d \in Conns \ {c} : userOf'[d] = userOf[d] /\ seen'[d] = seen[d]
      BY <2>0, <2>4 DEF Close
    <3>2. joining' = joining /\ over \subseteq over' /\ dying' = dying \ {c}
      BY <2>4 DEF Close
    <3> QED BY <3>1, <3>2
  <2>5. ASSUME NEW c \in Conns, Pong(c) PROVE KeptIsWatched'
    <3>1. \A d \in Conns : seen[d] # None => seen'[d] # None
      <4>1. seen[c] \in Entry /\ [seen[c] EXCEPT !.any = 0] \in Entry
        BY <2>0, <2>5, TermsArePositive DEF Pong, Entry
      <4>2. seen' = [seen EXCEPT ![c] = [seen[c] EXCEPT !.any = 0]]
        BY <2>5 DEF Pong
      <4> QED BY <2>0, <4>1, <4>2
    <3> QED BY <2>5, <3>1 DEF Pong, shake
  <2>6. ASSUME NEW c \in Conns, NEW lazy \in BOOLEAN, NEW rep, Activity(c, lazy, rep) PROVE KeptIsWatched'
    <3>1. \A d \in Conns : seen[d] # None => seen'[d] # None
      <4>1. [any |-> 0, app |-> 0, stale |-> FALSE] \in Entry
        BY TermsArePositive DEF Entry
      <4> QED BY <2>0, <2>6, <4>1 DEF Activity, Heard
    <3> QED BY <2>6, <3>1 DEF Activity, shake
  <2>7. CASE Tick
    <3>1. \A d \in Conns : seen[d] # None => seen'[d] # None
      BY <2>0, <2>7, TickAges
    <3> QED BY <2>7, <3>1 DEF Tick, shake
  <2>8. CASE Sweep
    <3>1. \A d \in Conns : seen[d] # None => seen'[d] # None
      BY <2>0, <2>8, NoneIsNothing DEF Sweep, Entry, NewlyStale
    <3> QED BY <2>8, <3>1 DEF Sweep, shake
  <2>9. CASE UNCHANGED <<userOf, seen, shake, dying>>
    BY <2>9 DEF shake
  <2> QED BY <2>1, <2>2, <2>3, <2>4, <2>5, <2>6, <2>7, <2>8, <2>9
          DEF Next, vars, Freeze, Thaw, Vanish, CoolDown, GameTimer, GraceEnds
<1> QED BY <1>1, <1>2, SpecIInv, PTL DEF Spec
==============================================================================
