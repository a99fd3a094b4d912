------------------------- MODULE ServerConnectionProofs -------------------------
(***************************************************************************)
(* The client's connection for all sets of sessions and sockets: its type, *)
(* that only one socket can still deliver, that the stored session goes    *)
(* only when the server refuses it, and that a wanted connection and the   *)
(* notice that the server does not answer are always carried on.  Each     *)
(* method of the connection object has a lemma that says it keeps the      *)
(* object sound (Sound), and one that says what it does to the fields that *)
(* carry a connection on; the actions are compositions of methods.         *)
(***************************************************************************)
EXTENDS ServerConnection, TLAPS

Delivering == {"connecting", "helloed", "welcomed"}

\* A connection object with one socket at most that can still deliver.
Sound(c) == c \in ConnType /\ \A s \in Sockets : c.sock[s].st \in Delivering <=> s = c.ws

\* The session whose sign-in is being completed is the stored one.
AdoptsWhatIsStored == signing \in Sessions => conn.stored \in {None, signing}

IInv == TypeOK /\ Sound(conn) /\ AdoptsWhatIsStored

-------------------------------------------------------------------------------
(* The methods.                                                            *)

LEMMA TriesAreThere == AutoTries \in 0..(AutoTries + TriesAfterUser) /\ TriesAfterUser \in 0..(AutoTries + TriesAfterUser)
  BY TriesArePositive

LEMMA ResumeIsSound ==
  ASSUME NEW c, Sound(c), NEW t \in SessionOrNone
  PROVE  Sound(Resume(c, t)) /\ Resume(c, t).stored = c.stored
  BY DEF Sound, Resume, ConnType

LEMMA LoadedIsSound ==
  ASSUME NEW t \in SessionOrNone
  PROVE  /\ Sound(Loaded(t)) /\ Loaded(t).stored = t
         /\ Sound(Resume(Loaded(t), t)) /\ Resume(Loaded(t), t).stored = t
  <1> DEFINE sock == [s \in Sockets |-> Free]
  <1>1. sock \in [Sockets -> SocketStates] /\ \A s \in Sockets : sock[s].st \notin Delivering
    BY DEF SocketStates, Free, Delivering
  <1> HIDE DEF sock
  <1>2. Loaded(t) \in ConnType /\ Loaded(t).sock = sock /\ Loaded(t).ws = None /\ Loaded(t).stored = t
    BY <1>1, TriesAreThere DEF Loaded, ConnType, SessionOrNone, sock
  <1>3. Sound(Loaded(t))
    BY <1>1, <1>2, NoneIsNothing DEF Sound
  <1> QED BY <1>2, <1>3, ResumeIsSound

LEMMA CancelRetryIsSound ==
  ASSUME NEW c, Sound(c)
  PROVE  /\ Sound(CancelRetry(c)) /\ CancelRetry(c).stored = c.stored /\ CancelRetry(c).left = c.left
         /\ CancelRetry(c).ws = c.ws /\ CancelRetry(c).sock = c.sock
  BY DEF Sound, CancelRetry, ConnType, SessionOrNone

LEMMA RetrySettledIsSound ==
  ASSUME NEW c, Sound(c)
  PROVE  Sound(RetrySettled(c)) /\ RetrySettled(c).stored = c.stored /\ RetrySettled(c).ws = c.ws
         /\ RetrySettled(c).sock = c.sock
  <1> DEFINE d == CancelRetry(c)
  <1>1. Sound(d) /\ d.stored = c.stored /\ d.ws = c.ws /\ d.sock = c.sock
    BY CancelRetryIsSound
  <1>2. RetrySettled(c) = [d EXCEPT !.left = AutoTries, !.paused = FALSE]
    BY DEF RetrySettled
  <1> HIDE DEF d
  <1> QED BY <1>1, <1>2, TriesAreThere DEF Sound, ConnType

LEMMA RetryLaterIsSound ==
  ASSUME NEW c, Sound(c), NEW t \in Sessions
  PROVE  Sound(RetryLater(c, t)) /\ RetryLater(c, t).stored = c.stored
  <1> DEFINE d == CancelRetry(c)
  <1>1. Sound(d) /\ d.stored = c.stored /\ d.left = c.left
    BY CancelRetryIsSound
  <1>2. t \in SessionOrNone
    BY DEF SessionOrNone
  <1> HIDE DEF d
  <1>3. CASE c.left = 0
    <2>1. RetryLater(c, t) = [d EXCEPT !.retry = t, !.paused = TRUE]
      BY <1>3 DEF RetryLater, d
    <2> QED BY <1>1, <1>2, <2>1 DEF Sound, ConnType
  <1>4. CASE c.left # 0
    <2>1. RetryLater(c, t) = [d EXCEPT !.retry = t, !.timer = TRUE, !.left = d.left - 1]
      BY <1>4, <1>1 DEF RetryLater, d
    <2>2. d.left - 1 \in 0..(AutoTries + TriesAfterUser)
      <3>1. d.left \in 0..(AutoTries + TriesAfterUser)
        BY <1>1 DEF Sound, ConnType
      <3> QED BY <3>1, <1>1, <1>4, TriesArePositive
    <2> QED BY <1>1, <1>2, <2>1, <2>2 DEF Sound, ConnType
  <1> QED BY <1>3, <1>4

LEMMA CloseIsSound ==
  ASSUME NEW c, Sound(c)
  PROVE  Sound(Close(c)) /\ Close(c).stored = c.stored /\ Close(c).ws = None
  <1> DEFINE d == RetrySettled(c)
             sock == [s \in Sockets |-> IF s = c.ws THEN [c.sock[s] EXCEPT !.st = "closing", !.dead = FALSE] ELSE c.sock[s]]
  <1>1. Sound(d) /\ d.stored = c.stored
    BY RetrySettledIsSound
  <1>2. sock \in [Sockets -> SocketStates] /\ \A s \in Sockets : sock[s].st \notin Delivering
    <2> SUFFICES ASSUME NEW s \in Sockets PROVE sock[s] \in SocketStates /\ sock[s].st \notin Delivering
      OBVIOUS
    <2>1. c.sock[s] \in SocketStates
      BY DEF Sound, ConnType
    <2>2. CASE s = c.ws
      <3>1. c.sock[s].st \in Delivering
        BY <2>2 DEF Sound
      <3>2. c.sock[s] \in [st : Phases, sess : Sessions, dead : BOOLEAN]
        BY <2>1, <3>1 DEF SocketStates, Free, Delivering
      <3> QED BY <2>2, <3>2 DEF SocketStates, Phases, Delivering
    <2>3. CASE s # c.ws
      BY <2>1, <2>3 DEF Sound
    <2> QED BY <2>2, <2>3
  <1>3. Close(c) = [d EXCEPT !.want = FALSE, !.reconnect = FALSE, !.ping = FALSE, !.ws = None, !.sock = sock]
    BY DEF Close
  <1> HIDE DEF d, sock
  <1>4. Close(c) \in ConnType /\ Close(c).ws = None /\ Close(c).sock = sock /\ Close(c).stored = d.stored
    BY <1>1, <1>2, <1>3 DEF Sound, ConnType
  <1> QED BY <1>1, <1>2, <1>4, NoneIsNothing DEF Sound

LEMMA ClearSessionIsSound ==
  ASSUME NEW c, Sound(c)
  PROVE  Sound(ClearSession(c)) /\ ClearSession(c).stored = None
  <1> DEFINE d == Close(c)
  <1>1. Sound(d) /\ c.orphan \in BOOLEAN /\ d.stray \in BOOLEAN
    BY CloseIsSound DEF Sound, ConnType
  <1>2. ClearSession(c) = [d EXCEPT !.token = None, !.stored = None, !.me = None, !.claim = FALSE,
                                    !.waiting = None, !.server = FALSE, !.stray = d.stray \/ c.orphan]
    BY DEF ClearSession
  <1> HIDE DEF d
  <1> QED BY <1>1, <1>2 DEF Sound, ConnType, SessionOrNone

LEMMA SuspendedIsSound ==
  ASSUME NEW c, Sound(c)
  PROVE  Sound(Suspended(c)) /\ Suspended(c).stored = c.stored
  <1>1. Sound(Close(c)) /\ Close(c).stored = c.stored
    BY CloseIsSound
  <1> QED BY <1>1 DEF Sound, Suspended, ConnType, SessionOrNone

LEMMA DropSocketIsSound ==
  ASSUME NEW c, Sound(c)
  PROVE  /\ Sound(DropSocket(c)) /\ DropSocket(c).stored = c.stored /\ DropSocket(c).ws = None
         /\ DropSocket(c).token = c.token
         /\ FreeSockets(c) # {} \/ c.ws # None => FreeSockets(DropSocket(c)) # {}
  <1>1. CASE c.ws = None
    BY <1>1 DEF DropSocket
  <1>2. CASE c.ws # None
    <2>1. c.ws \in Sockets
      BY <1>2 DEF Sound, ConnType
    <2>2. DropSocket(c).sock = [c.sock EXCEPT ![c.ws] = Free] /\ DropSocket(c).ws = None
          /\ DropSocket(c).stored = c.stored /\ DropSocket(c).token = c.token
      BY <1>2 DEF DropSocket, Sound, ConnType
    <2>3. DropSocket(c) \in ConnType
      BY <1>2, <2>1 DEF DropSocket, Sound, ConnType, SocketStates
    <2>4. c.sock \in [Sockets -> SocketStates]
      BY DEF Sound, ConnType
    <2>5. Sound(DropSocket(c))
      BY <2>1, <2>2, <2>3, <2>4, NoneIsNothing DEF Sound, Delivering, Free
    <2>6. c.ws \in FreeSockets(DropSocket(c))
      BY <2>1, <2>2, <2>4 DEF FreeSockets
    <2> QED BY <2>2, <2>5, <2>6
  <1> QED BY <1>1, <1>2

LEMMA ConnectIsSound ==
  ASSUME NEW c, Sound(c), FreeSockets(c) # {} \/ c.ws # None
  PROVE  Sound(Connect(c)) /\ Connect(c).stored = c.stored
  <1>1. CASE c.token = None
    BY <1>1 DEF Connect, Sound, ConnType
  <1>2. CASE c.token # None
    <2> DEFINE d == DropSocket(c)
               s == CHOOSE s \in FreeSockets(d) : TRUE
               fresh == [st |-> "connecting", sess |-> d.token, dead |-> FALSE]
    <2>1. Sound(d) /\ d.stored = c.stored /\ d.ws = None /\ d.token = c.token /\ s \in FreeSockets(d)
      BY DropSocketIsSound
    <2>2. s \in Sockets
      BY <2>1 DEF FreeSockets
    <2>3. fresh \in SocketStates
      BY <1>2, <2>1 DEF Sound, ConnType, SessionOrNone, SocketStates, Phases
    <2>4. Connect(c) = [d EXCEPT !.want = TRUE, !.reconnect = FALSE, !.ws = s, !.sock[s] = fresh]
      BY <1>2 DEF Connect
    <2> HIDE DEF d, s, fresh
    <2>a. Connect(c) = [d EXCEPT !.want = TRUE, !.reconnect = FALSE, !.ws = s, !.sock = [d.sock EXCEPT ![s] = fresh]]
      BY <2>1, <2>4 DEF Sound, ConnType
    <2>b. [d.sock EXCEPT ![s] = fresh] \in [Sockets -> SocketStates] /\ s \in Sockets \cup {None} /\ d \in ConnType
      BY <2>1, <2>2, <2>3 DEF Sound, ConnType
    <2>5. Connect(c) \in ConnType /\ Connect(c).ws = s /\ Connect(c).stored = d.stored
          /\ Connect(c).sock = [d.sock EXCEPT ![s] = fresh]
      BY <2>a, <2>b DEF ConnType
    <2>6. \A w \in Sockets : d.sock[w].st \notin Delivering
      BY <2>1, NoneIsNothing DEF Sound
    <2>7. d.sock \in [Sockets -> SocketStates] /\ fresh.st \in Delivering
      BY <2>1 DEF Sound, ConnType, fresh, Delivering
    <2> QED BY <2>1, <2>2, <2>5, <2>6, <2>7 DEF Sound
  <1> QED BY <1>1, <1>2

LEMMA EnterIsSound ==
  ASSUME NEW c, Sound(c), NEW t \in Sessions, NEW register \in BOOLEAN, FreeSockets(c) # {} \/ c.ws # None
  PROVE  Sound(Enter(c, t, register)) /\ Enter(c, t, register).stored = c.stored
  <1>1. CASE register
    BY <1>1 DEF Enter, Sound, ConnType, SessionOrNone
  <1>2. CASE ~register
    <2> DEFINE d == [c EXCEPT !.me = t, !.claim = FALSE]
    <2>1. Sound(d) /\ d.stored = c.stored /\ d.ws = c.ws /\ d.sock = c.sock
      BY DEF Sound, ConnType, SessionOrNone
    <2>2. FreeSockets(d) # {} \/ d.ws # None
      BY <2>1 DEF FreeSockets
    <2>3. Enter(c, t, register) = Connect(d)
      BY <1>2 DEF Enter
    <2> HIDE DEF d
    <2> QED BY <2>1, <2>2, <2>3, ConnectIsSound
  <1> QED BY <1>1, <1>2

LEMMA OnUnauthorizedIsSound ==
  ASSUME NEW c, Sound(c)
  PROVE  Sound(OnUnauthorized(c)) /\ OnUnauthorized(c).stored \in {None, c.stored}
  BY ClearSessionIsSound DEF OnUnauthorized

LEMMA SocketGoneIsSound ==
  ASSUME Sound(conn), NEW s \in Sockets
  PROVE  Sound(SocketGone(s)) /\ SocketGone(s).stored = conn.stored
  <1> DEFINE sock == [conn.sock EXCEPT ![s] = Free]
             ws == IF conn.ws = s THEN None ELSE conn.ws
  <1>1. SocketGone(s) = [conn EXCEPT !.ws = ws, !.ping = FALSE, !.sock = sock]
    BY DEF SocketGone, Sound, ConnType
  <1>2. conn.sock \in [Sockets -> SocketStates] /\ conn.ws \in Sockets \cup {None}
    BY DEF Sound, ConnType
  <1>3. /\ sock \in [Sockets -> SocketStates] /\ ws \in Sockets \cup {None}
        /\ \A w \in Sockets : sock[w].st \in Delivering <=> w = ws
    BY <1>2, NoneIsNothing DEF Sound, SocketStates, Free, Delivering
  <1> HIDE DEF sock, ws
  <1>4. SocketGone(s) \in ConnType /\ SocketGone(s).ws = ws /\ SocketGone(s).sock = sock
        /\ SocketGone(s).stored = conn.stored
    BY <1>1, <1>3 DEF Sound, ConnType
  <1> QED BY <1>3, <1>4 DEF Sound

-------------------------------------------------------------------------------
(* The actions.                                                            *)

\* TypeOK but for the connection object.
Rest ==
  /\ resuming \subseteq Sessions /\ refreshing \subseteq Sessions
  /\ signing \in SessionOrNone \cup {"challenge"}
  /\ leaving \in BOOLEAN /\ out \in BOOLEAN /\ up \in BOOLEAN
  /\ farewell \subseteq Sessions
  /\ live \subseteq issued /\ issued \subseteq Sessions

\* A step keeps the stored session, or the server refuses it, or the user signs out, or something is left over.
KeepsStored ==
  conn.stored # None /\ conn'.stored = None => conn.stored \notin live \/ Left \/ Logout \/ Leftover(conn.stored)

Good == Sound(conn') /\ Rest' /\ AdoptsWhatIsStored' /\ KeepsStored

\* Most steps leave the stored session and the sign-in alone.
LEMMA QuietIsGood ==
  ASSUME IInv, Sound(conn'), Rest', conn'.stored = conn.stored, signing' \in {signing, None, "challenge"}
  PROVE  Good
  BY NoneIsNothing, ChallengeIsNoSession DEF IInv, Good, AdoptsWhatIsStored, KeepsStored

LEMMA RestStays ==
  ASSUME IInv, UNCHANGED <<calls, goodbye, server>>
  PROVE  Rest' /\ signing' = signing
  BY DEF IInv, TypeOK, Rest, calls, goodbye, server

LEMMA ReloadIsGood ==
  ASSUME IInv, Reload
  PROVE  Good
  <1>1. conn.stored \in SessionOrNone
    BY DEF IInv, Sound, ConnType
  <1>2. Sound(conn') /\ conn'.stored = conn.stored
    BY <1>1, LoadedIsSound DEF Reload
  <1>3. Rest' /\ signing' = None
    BY <1>1 DEF IInv, TypeOK, Reload, Rest, The, server, SessionOrNone
  <1> QED BY <1>2, <1>3, QuietIsGood

LEMMA ResumedIsGood ==
  ASSUME IInv, NEW t \in Sessions, ResumeOk(t) \/ ResumeSuspended(t) \/ ResumeRejected(t) \/ ResumeUnreachable(t)
  PROVE  Good
  <1>1. t \in resuming /\ resuming' = resuming \ {t} /\ UNCHANGED <<signing, refreshing, goodbye, server>> /\ Sound(conn)
    BY DEF ResumeOk, ResumeSuspended, ResumeRejected, ResumeUnreachable, IInv
  <1>2. Rest'
    BY <1>1 DEF IInv, TypeOK, Rest, goodbye, server
  <1>3. CASE ResumeOk(t)
    <2>1. PICK register \in BOOLEAN : conn' = Enter(RetrySettled(conn), t, register)
      BY <1>3 DEF ResumeOk
    <2>2. Sound(RetrySettled(conn)) /\ RetrySettled(conn).stored = conn.stored
          /\ (FreeSockets(RetrySettled(conn)) # {} \/ RetrySettled(conn).ws # None)
      BY <1>1, <1>3, RetrySettledIsSound DEF ResumeOk, Room, FreeSockets
    <2>3. Sound(conn') /\ conn'.stored = conn.stored
      BY <2>1, <2>2, EnterIsSound
    <2> QED BY <1>1, <1>2, <2>3, QuietIsGood
  <1>4. CASE ResumeSuspended(t)
    <2>1. Sound(conn') /\ conn'.stored = conn.stored
      BY <1>1, <1>4, RetrySettledIsSound, SuspendedIsSound DEF ResumeSuspended
    <2> QED BY <1>1, <1>2, <2>1, QuietIsGood
  <1>5. CASE ResumeUnreachable(t)
    <2> DEFINE d == [conn EXCEPT !.waiting = "unreachable"]
    <2>1. Sound(d) /\ d.stored = conn.stored
      BY <1>1 DEF Sound, ConnType
    <2>2. conn' = RetryLater(d, t)
      BY <1>5 DEF ResumeUnreachable
    <2> HIDE DEF d
    <2>3. Sound(conn') /\ conn'.stored = conn.stored
      BY <2>1, <2>2, RetryLaterIsSound
    <2> QED BY <1>1, <1>2, <2>3, QuietIsGood
  <1>6. CASE ResumeRejected(t)
    <2> DEFINE d == RetrySettled(OnUnauthorized(conn))
    <2>1. Sound(d) /\ d.stored \in {None, conn.stored}
      BY <1>1, OnUnauthorizedIsSound, RetrySettledIsSound
    <2>2. t \notin live /\ conn' = [d EXCEPT !.token = None, !.waiting = None]
      BY <1>6 DEF ResumeRejected
    <2> HIDE DEF d
    <2>3. Sound(conn') /\ conn'.stored \in {None, conn.stored}
      BY <2>1, <2>2 DEF Sound, ConnType, SessionOrNone
    <2>4. conn.stored \notin live \/ Leftover(conn.stored)
      BY <1>1, <2>2 DEF Leftover
    <2> QED BY <1>1, <1>2, <2>3, <2>4 DEF Good, KeepsStored, AdoptsWhatIsStored, IInv
  <1> QED BY <1>3, <1>4, <1>5, <1>6

LEMMA RetriedIsSound ==
  ASSUME NEW c, Sound(c), Retried(c), Sound(conn), c.stored = conn.stored
  PROVE  Sound(conn') /\ conn'.stored = conn.stored /\ resuming' \subseteq resuming \cup Sessions
  <1>1. c.retry \in SessionOrNone
    BY DEF Sound, ConnType
  <1> QED BY <1>1, CancelRetryIsSound, ResumeIsSound DEF Retried, The, SessionOrNone

LEMMA RetriesAreGood ==
  ASSUME IInv, RetryNow \/ RetryByUser
  PROVE  Good
  <1>1. UNCHANGED <<signing, refreshing, goodbye, server>> /\ Sound(conn)
    BY DEF RetryNow, RetryByUser, IInv
  <1> DEFINE d == [conn EXCEPT !.left = TriesAfterUser, !.paused = FALSE]
  <1>2. Sound(d) /\ d.stored = conn.stored
    BY <1>1, TriesAreThere DEF Sound, ConnType
  <1>3. Retried(conn) \/ Retried(d)
    BY DEF RetryNow, RetryByUser
  <1> HIDE DEF d
  <1>4. Sound(conn') /\ conn'.stored = conn.stored /\ resuming' \subseteq resuming \cup Sessions
    BY <1>1, <1>2, <1>3, RetriedIsSound
  <1>5. Rest'
    BY <1>1, <1>4 DEF IInv, TypeOK, Rest, goodbye, server
  <1> QED BY <1>1, <1>4, <1>5, QuietIsGood

LEMMA SigningInIsGood ==
  ASSUME IInv, Login \/ LoginFailed \/ \E t \in Sessions : Adopt(t) \/ AdoptOk(t) \/ AdoptFailed(t)
  PROVE  Good
  <1>1. Sound(conn)
    BY DEF IInv
  <1>2. CASE Login
    <2>1. Rest'
      BY <1>2 DEF Login, IInv, TypeOK, Rest, goodbye, server
    <2> QED BY <1>1, <1>2, <2>1, QuietIsGood DEF Login
  <1>3. CASE LoginFailed
    <2>1. Rest' /\ signing' = None
      BY <1>3 DEF LoginFailed, IInv, TypeOK, Rest, goodbye, server, SessionOrNone
    <2>2. Sound(conn') /\ conn'.stored = conn.stored
      BY <1>1, <1>3 DEF LoginFailed, Sound, ConnType
    <2> QED BY <2>1, <2>2, QuietIsGood
  <1>4. ASSUME NEW t \in Sessions, Adopt(t) PROVE Good
    <2>1. Rest'
      BY <1>4 DEF Adopt, IInv, TypeOK, Rest, SessionOrNone
    <2>2. Sound(conn') /\ conn'.stored = t /\ signing' = t
      BY <1>1, <1>4 DEF Adopt, Sound, ConnType, SessionOrNone
    <2> QED BY <2>1, <2>2, NoneIsNothing DEF Good, AdoptsWhatIsStored, KeepsStored
  <1>5. ASSUME NEW t \in Sessions, AdoptOk(t) PROVE Good
    <2>1. PICK register \in BOOLEAN : conn' = Enter(conn, t, register)
      BY <1>5 DEF AdoptOk
    <2>2. Sound(conn') /\ conn'.stored = conn.stored
      BY <1>1, <1>5, <2>1, EnterIsSound DEF AdoptOk, Room
    <2>3. Rest' /\ signing' = None
      BY <1>5 DEF AdoptOk, IInv, TypeOK, Rest, goodbye, server, SessionOrNone
    <2> QED BY <2>2, <2>3, QuietIsGood
  <1>6. ASSUME NEW t \in Sessions, AdoptFailed(t) PROVE Good
    <2>1. Rest' /\ signing' = None /\ signing = t
      BY <1>6 DEF AdoptFailed, IInv, TypeOK, Rest, goodbye, server, SessionOrNone
    <2>2. CASE ~up /\ conn' = [conn EXCEPT !.waiting = None]
      <3>1. Sound(conn') /\ conn'.stored = conn.stored
        BY <1>1, <2>2 DEF Sound, ConnType
      <3> QED BY <2>1, <3>1, QuietIsGood
    <2>3. CASE up /\ t \notin live /\ conn' = [OnUnauthorized(conn) EXCEPT !.waiting = None]
      <3> DEFINE d == OnUnauthorized(conn)
      <3>1. Sound(d) /\ conn' = [d EXCEPT !.waiting = None]
        BY <1>1, <2>3, OnUnauthorizedIsSound
      <3> HIDE DEF d
      <3>2. Sound(conn')
        BY <3>1 DEF Sound, ConnType
      <3>3. conn.stored # None => conn.stored = t
        BY <2>1 DEF IInv, AdoptsWhatIsStored
      <3> QED BY <2>1, <2>3, <3>2, <3>3, NoneIsNothing DEF Good, AdoptsWhatIsStored, KeepsStored
    <2> QED BY <1>6, <2>2, <2>3 DEF AdoptFailed
  <1> QED BY <1>2, <1>3, <1>4, <1>5, <1>6

LEMMA ClaimingIsGood ==
  ASSUME IInv, Claimed \/ \E t \in Sessions : Refreshed(t)
  PROVE  Good
  <1>1. Sound(conn)
    BY DEF IInv
  <1>2. CASE Claimed
    <2>1. conn.token \in Sessions
      BY <1>1, <1>2 DEF Claimed, Sound, ConnType, SessionOrNone
    <2>2. Rest'
      BY <1>2, <2>1 DEF Claimed, IInv, TypeOK, Rest, goodbye, server
    <2> QED BY <1>1, <1>2, <2>2, QuietIsGood DEF Claimed
  <1>3. ASSUME NEW t \in Sessions, Refreshed(t) PROVE Good
    <2>1. t \in refreshing /\ Rest' /\ signing' = signing
      BY <1>3 DEF Refreshed, IInv, TypeOK, Rest, goodbye, server
    <2>2. CASE up /\ t \in live /\ Room /\ \E register \in BOOLEAN : conn' = Enter(conn, t, register)
      <3>1. Sound(conn') /\ conn'.stored = conn.stored
        BY <1>1, <2>2, EnterIsSound DEF Room
      <3> QED BY <2>1, <3>1, QuietIsGood
    <2>3. CASE up /\ t \notin live /\ conn' = OnUnauthorized(conn)
      <3>1. Sound(conn') /\ conn'.stored \in {None, conn.stored}
        BY <1>1, <2>3, OnUnauthorizedIsSound
      <3>2. conn.stored \notin live \/ Leftover(conn.stored)
        BY <2>1, <2>3 DEF Leftover
      <3> QED BY <2>1, <3>1, <3>2 DEF Good, KeepsStored, AdoptsWhatIsStored, IInv
    <2>4. CASE ~up /\ conn' = conn
      BY <1>1, <2>1, <2>4, QuietIsGood
    <2> QED BY <1>3, <2>2, <2>3, <2>4 DEF Refreshed
  <1> QED BY <1>2, <1>3

LEMMA LeavingIsGood ==
  ASSUME IInv, Leave \/ Left \/ Logout \/ \E t \in Sessions : FarewellArrives(t)
  PROVE  Good
  <1>1. Sound(conn) /\ conn.token \in SessionOrNone
    BY DEF IInv, Sound, ConnType
  <1>2. CASE Leave
    <2>1. Rest' /\ signing' = signing
      BY <1>1, <1>2 DEF Leave, IInv, TypeOK, Rest, calls, server, The, SessionOrNone
    <2>2. Sound(conn') /\ conn'.stored = conn.stored
      BY <1>1, <1>2, CloseIsSound DEF Leave
    <2> QED BY <2>1, <2>2, QuietIsGood
  <1>3. CASE Left \/ Logout
    <2>1. Rest' /\ signing' = signing
      BY <1>1, <1>3 DEF Left, Logout, IInv, TypeOK, Rest, calls, server, The, SessionOrNone
    <2>2. Sound(conn') /\ conn'.stored = None
      BY <1>1, <1>3, ClearSessionIsSound DEF Left, Logout
    <2> QED BY <1>3, <2>1, <2>2 DEF Good, KeepsStored, AdoptsWhatIsStored, IInv
  <1>4. ASSUME NEW t \in Sessions, FarewellArrives(t) PROVE Good
    <2>1. Rest' /\ signing' = signing /\ conn' = conn
      BY <1>4 DEF FarewellArrives, IInv, TypeOK, Rest, calls
    <2> QED BY <1>1, <2>1, QuietIsGood
  <1> QED BY <1>2, <1>3, <1>4

LEMMA SocketSteps ==
  ASSUME IInv, NEW s \in Sockets, Opened(s) \/ Welcome(s) \/ Removed(s) \/ WrongVersion(s) \/ Pong(s) \/ Vanishes(s)
  PROVE  Good
  <1>1. Sound(conn) /\ conn.sock \in [Sockets -> SocketStates] /\ conn.sock[s] \in SocketStates
    BY DEF IInv, Sound, ConnType
  <1>2. UNCHANGED <<calls, goodbye, server>>
    BY DEF Opened, Welcome, Removed, WrongVersion, Pong, Vanishes
  <1>3. CASE Removed(s) \/ WrongVersion(s) \/ Pong(s)
    <2>1. Sound(conn') /\ conn'.stored = conn.stored
      BY <1>1, <1>3 DEF Removed, WrongVersion, Pong, Sound, ConnType
    <2> QED BY <1>2, <2>1, RestStays, QuietIsGood
  <1>4. ASSUME Opened(s) \/ Welcome(s) \/ Vanishes(s) PROVE Good
    <2>1. conn.sock[s].st \in Delivering
      BY <1>1, <1>4 DEF Opened, Welcome, Vanishes, Heard, InPhase, Delivering, Sound
    <2>2. conn.sock[s] \in [st : Phases, sess : Sessions, dead : BOOLEAN]
      BY <1>1, <2>1 DEF SocketStates, Free, Delivering
    <2>3. PICK x \in SocketStates :
            /\ x.st \in Delivering
            /\ conn' \in {[conn EXCEPT !.sock = [conn.sock EXCEPT ![s] = x]],
                         [conn EXCEPT !.sock = [conn.sock EXCEPT ![s] = x], !.server = TRUE, !.waiting = None,
                                      !.ping = TRUE, !.unanswered = FALSE]}
      <3>1. CASE Opened(s)
        <4>1. [conn.sock[s] EXCEPT !.st = "helloed"] \in SocketStates
          BY <2>2 DEF SocketStates, Phases
        <4>2. conn' = [conn EXCEPT !.sock = [conn.sock EXCEPT ![s] = [conn.sock[s] EXCEPT !.st = "helloed"]]]
          BY <1>1, <3>1 DEF Opened, Sound, ConnType
        <4> QED BY <2>2, <4>1, <4>2 DEF Delivering
      <3>2. CASE Welcome(s)
        <4>1. [conn.sock[s] EXCEPT !.st = "welcomed"] \in SocketStates
          BY <2>2 DEF SocketStates, Phases
        <4>2. conn' = [conn EXCEPT !.sock = [conn.sock EXCEPT ![s] = [conn.sock[s] EXCEPT !.st = "welcomed"]],
                                   !.server = TRUE, !.waiting = None, !.ping = TRUE, !.unanswered = FALSE]
          BY <1>1, <3>2 DEF Welcome, Sound, ConnType
        <4> QED BY <2>2, <4>1, <4>2 DEF Delivering
      <3>3. CASE Vanishes(s)
        <4>1. [conn.sock[s] EXCEPT !.dead = TRUE] \in SocketStates
          BY <2>2 DEF SocketStates, Phases
        <4>2. conn' = [conn EXCEPT !.sock = [conn.sock EXCEPT ![s] = [conn.sock[s] EXCEPT !.dead = TRUE]]]
          BY <1>1, <3>3 DEF Vanishes, Sound, ConnType
        <4> QED BY <2>1, <2>2, <4>1, <4>2
      <3> QED BY <1>4, <3>1, <3>2, <3>3
    <2> DEFINE sock == [conn.sock EXCEPT ![s] = x]
    <2>4. sock \in [Sockets -> SocketStates] /\ \A w \in Sockets : sock[w].st \in Delivering <=> w = conn.ws
      BY <1>1, <2>1, <2>3 DEF Sound
    <2>5. conn' \in {[conn EXCEPT !.sock = sock],
                     [conn EXCEPT !.sock = sock, !.server = TRUE, !.waiting = None, !.ping = TRUE, !.unanswered = FALSE]}
      BY <2>3
    <2> HIDE DEF sock
    <2>6. conn' \in ConnType /\ conn'.sock = sock /\ conn'.ws = conn.ws /\ conn'.stored = conn.stored
      <3>0. conn \in ConnType
        BY <1>1 DEF Sound
      <3>1. CASE conn' = [conn EXCEPT !.sock = sock]
        BY <3>0, <3>1, <2>4 DEF ConnType
      <3>2. CASE conn' = [conn EXCEPT !.sock = sock, !.server = TRUE, !.waiting = None, !.ping = TRUE,
                                      !.unanswered = FALSE]
        BY <3>0, <3>2, <2>4 DEF ConnType
      <3> QED BY <2>5, <3>1, <3>2
    <2>7. Sound(conn')
      BY <2>4, <2>6 DEF Sound
    <2> QED BY <1>2, <2>6, <2>7, RestStays, QuietIsGood
  <1> QED BY <1>3, <1>4

\* A socket that ends the session: the server refused its session, which is the stored one or a leftover.
LEMMA EndingSocket ==
  ASSUME IInv, NEW s \in Sockets, Unauthorized(s) \/ ClosedEnded(s)
  PROVE  Good
  <1>1. Sound(conn) /\ UNCHANGED <<calls, goodbye, server>> /\ Rest' /\ signing' = signing
    BY RestStays DEF Unauthorized, ClosedEnded, IInv
  <1>2. Sound(conn') /\ conn'.stored \in {None, conn.stored}
    BY <1>1, ClearSessionIsSound, SocketGoneIsSound DEF Unauthorized, ClosedEnded
  <1>3. conn.sock[s].sess \notin live /\ conn.sock[s].st # "free"
    BY DEF Unauthorized, ClosedEnded, Heard, InPhase
  <1>4. conn.sock[s].sess # None
    <2>1. conn.sock[s] \in SocketStates
      BY <1>1 DEF Sound, ConnType
    <2> QED BY <1>3, <2>1, NoneIsNothing DEF SocketStates, Free
  <1>5. conn.stored \notin live \/ Leftover(conn.stored)
    BY <1>3, <1>4 DEF Leftover
  <1> QED BY <1>1, <1>2, <1>5 DEF Good, KeepsStored, AdoptsWhatIsStored, IInv

LEMMA ClosingSocket ==
  ASSUME IInv, NEW s \in Sockets, ClosedUnregistered(s) \/ ClosedSuspended(s) \/ ClosedPlain(s)
  PROVE  Good
  <1>1. Sound(conn) /\ conn.token \in SessionOrNone
    BY DEF IInv, Sound, ConnType
  <1> DEFINE d == SocketGone(s)
  <1>2. Sound(d) /\ d.stored = conn.stored
    BY <1>1, SocketGoneIsSound
  <1>3. Rest' /\ signing' = signing
    BY <1>1 DEF ClosedUnregistered, ClosedSuspended, ClosedPlain, IInv, TypeOK, Rest, calls, goodbye, server, The, SessionOrNone
  <1>4. \/ conn' \in {d, Close(d), Suspended(d)}
        \/ \E o \in BOOLEAN : conn' = [d EXCEPT !.reconnect = TRUE, !.orphan = o]
    <2>1. conn.reconnect \in BOOLEAN /\ d.orphan \in BOOLEAN
      BY <1>1, <1>2 DEF Sound, ConnType
    <2>2. CASE ClosedPlain(s) /\ conn.want
      <3>1. conn' = [d EXCEPT !.reconnect = TRUE, !.orphan = d.orphan \/ conn.reconnect]
        BY <2>2 DEF ClosedPlain
      <3> HIDE DEF d
      <3> QED BY <2>1, <3>1
    <2> QED BY <2>2 DEF ClosedUnregistered, ClosedSuspended, ClosedPlain
  <1> HIDE DEF d
  <1>5. Sound(conn') /\ conn'.stored = conn.stored
    <2>1. CASE conn' \in {d, Close(d), Suspended(d)}
      BY <1>2, <2>1, CloseIsSound, SuspendedIsSound
    <2>2. ASSUME NEW o \in BOOLEAN, conn' = [d EXCEPT !.reconnect = TRUE, !.orphan = o]
          PROVE  Sound(conn') /\ conn'.stored = conn.stored
      BY <1>2, <2>2 DEF Sound, ConnType
    <2> QED BY <1>4, <2>1, <2>2
  <1> QED BY <1>3, <1>5, QuietIsGood

LEMMA TimersAreGood ==
  ASSUME IInv, Reconnect \/ ReconnectOrphan \/ \E late \in BOOLEAN : Heartbeat(late)
  PROVE  Good
  <1>1. Sound(conn) /\ UNCHANGED <<calls, goodbye, server>> /\ Room
    BY DEF Reconnect, ReconnectOrphan, Heartbeat, IInv
  <1>2. CASE Reconnect \/ ReconnectOrphan
    <2>1. PICK d \in {[conn EXCEPT !.reconnect = FALSE], [conn EXCEPT !.orphan = FALSE]} : conn' = Connect(d)
      BY <1>2 DEF Reconnect, ReconnectOrphan
    <2>2. Sound(d) /\ d.stored = conn.stored /\ d.ws = conn.ws /\ d.sock = conn.sock
      BY <1>1, <2>1 DEF Sound, ConnType
    <2>3. FreeSockets(d) # {} \/ d.ws # None
      BY <1>1, <2>2 DEF Room, FreeSockets
    <2>4. Sound(conn') /\ conn'.stored = conn.stored
      BY <2>1, <2>2, <2>3, ConnectIsSound
    <2> QED BY <1>1, <2>4, RestStays, QuietIsGood
  <1>3. ASSUME NEW late \in BOOLEAN, Heartbeat(late) PROVE Good
    <2>1. CASE conn.unanswered /\ ~late
      <3> DEFINE e == [conn EXCEPT !.unanswered = FALSE]
                 d == DropSocket(e)
      <3>1. Sound(e) /\ e.stored = conn.stored /\ e.ws = conn.ws /\ e.sock = conn.sock
        BY <1>1 DEF Sound, ConnType
      <3>2. FreeSockets(e) # {} \/ e.ws # None
        BY <1>1, <3>1 DEF Room, FreeSockets
      <3>3. conn' = IF d.want THEN Connect(d) ELSE d
        BY <1>3, <2>1 DEF Heartbeat
      <3> HIDE DEF e
      <3>4. Sound(d) /\ d.stored = conn.stored /\ FreeSockets(d) # {}
        BY <3>1, <3>2, DropSocketIsSound
      <3> HIDE DEF d
      <3>5. Sound(conn') /\ conn'.stored = conn.stored
        BY <3>3, <3>4, ConnectIsSound
      <3> QED BY <1>1, <3>5, RestStays, QuietIsGood
    <2>2. CASE ~(conn.unanswered /\ ~late)
      <3>1. conn' = [conn EXCEPT !.unanswered = TRUE]
        BY <1>3, <2>2 DEF Heartbeat
      <3>2. Sound(conn') /\ conn'.stored = conn.stored
        BY <1>1, <3>1 DEF Sound, ConnType
      <3> QED BY <1>1, <3>2, RestStays, QuietIsGood
    <2> QED BY <2>1, <2>2
  <1> QED BY <1>2, <1>3

LEMMA WorldIsGood ==
  ASSUME IInv, GoesDown \/ ComesUp \/ UNCHANGED vars \/ \E t \in Sessions : EndSession(t)
  PROVE  Good
  <1>1. conn' = conn /\ signing' = signing /\ Rest' /\ Sound(conn)
    BY DEF GoesDown, ComesUp, EndSession, IInv, TypeOK, Rest, vars, calls, goodbye
  <1> QED BY <1>1, QuietIsGood

-------------------------------------------------------------------------------
(* The theorems.                                                           *)

LEMMA NextIsGood ==
  ASSUME IInv, [Next]_vars
  PROVE  Good
  <1>1. CASE SessionNext
    BY <1>1, ReloadIsGood, ResumedIsGood, RetriesAreGood, SigningInIsGood, ClaimingIsGood, LeavingIsGood DEF SessionNext
  <1>2. CASE SocketNext
    BY <1>2, TimersAreGood, SocketSteps, EndingSocket, ClosingSocket DEF SocketNext
  <1>3. CASE WorldNext
    BY <1>3, WorldIsGood, SocketSteps DEF WorldNext
  <1>4. CASE UNCHANGED vars
    BY <1>4, WorldIsGood
  <1> QED BY <1>1, <1>2, <1>3, <1>4 DEF Next

LEMMA InitIsSound == Init => IInv
  <1> SUFFICES ASSUME Init PROVE IInv
    OBVIOUS
  <1>1. PICK t \in SessionOrNone :
          /\ conn = IF t = None THEN Loaded(None) ELSE Resume(Loaded(t), t)
          /\ resuming = The(t) /\ issued = The(t) /\ live \in SUBSET The(t)
    BY DEF Init
  <1>2. Sound(conn)
    BY <1>1, LoadedIsSound DEF SessionOrNone
  <1>3. TypeOK
    BY <1>1, <1>2 DEF Init, TypeOK, Sound, The, SessionOrNone
  <1>4. AdoptsWhatIsStored
    BY NoneIsNothing DEF Init, AdoptsWhatIsStored
  <1> QED BY <1>2, <1>3, <1>4 DEF IInv

\* The connection object stays sound whatever the user, the browser, the network and the server do.
THEOREM SpecIInv == Spec => []IInv
  <1>1. IInv /\ [Next]_vars => IInv'
    BY NextIsGood DEF Good, IInv, TypeOK, Rest, Sound
  <1> QED BY InitIsSound, <1>1, PTL DEF Spec

\* The fields of the connection, its requests and its retries keep their shape.
THEOREM TypeCorrect == Spec => []TypeOK
  <1>1. IInv => TypeOK
    BY DEF IInv
  <1> QED BY <1>1, SpecIInv, PTL

\* connect(): never two sockets of one client; the one that may deliver is the current one.
THEOREM OneSocketOnly == Spec => []OneSocket
  <1>1. IInv => OneSocket
    <2> SUFFICES ASSUME IInv PROVE Attached = The(conn.ws)
      BY DEF OneSocket
    <2>1. conn.ws \in Sockets \cup {None} /\ \A s \in Sockets : conn.sock[s].st \in Delivering <=> s = conn.ws
      BY DEF IInv, Sound, ConnType
    <2> QED BY <2>1, NoneIsNothing DEF Attached, Delivering, The
  <1> QED BY <1>1, SpecIInv, PTL

\* sessionRejected(): the stored session goes when the server refuses it or the user signs out, and only then.
THEOREM RefusalDropsOnly == Spec => OnlyRefusalDrops
  <1>1. IInv /\ [Next]_vars =>
          [conn.stored # None /\ conn'.stored = None
             => conn.stored \notin live \/ Left \/ Logout \/ Leftover(conn.stored)]_vars
    BY NextIsGood DEF Good, KeepsStored
  <1> QED BY <1>1, SpecIInv, PTL DEF Spec, OnlyRefusalDrops

-------------------------------------------------------------------------------
(* What carries a connection on: a second inductive invariant, over the    *)
(* sound objects.                                                          *)

\* Without a timer that a sign-out left behind, whatever is wanted or runs is a known member's, ...
KnownMember(c) == c.me # None \/ ~(c.want \/ c.server \/ c.ws # None \/ c.reconnect \/ c.orphan)

\* ... has a token, ...
HasToken(c) == c.token # None \/ ~(c.server \/ c.ws # None)

\* ... and is carried on.
CarriedOn(c) ==
  c.want /\ c.server => c.reconnect \/ (c.ws # None /\ (c.sock[c.ws].st = "welcomed" => c.ping))

Steady(c) == c.stray \/ (KnownMember(c) /\ HasToken(c) /\ CarriedOn(c))

\* resume() is on its way (r), or a step of the retries starts it again.
Trying(c, r) == r # {} \/ c.retry # None

\* Between two loads of the page resume() is about one session only.
OneToResume(c, r) == \A t, u \in r \cup The(c.retry) : t = u

\* The notice has something to try, a token to connect with, or a sign-out (l) that ends it; a request on
\* its way has a token, and so has a socket while there is something to try.
NoticeHasToken(c, r, l) ==
  /\ c.waiting = "unreachable" => Trying(c, r) \/ c.token # None \/ l
  /\ c.waiting = "unreachable" /\ r # {} => c.token # None
  /\ c.ws # None => c.token # None \/ ~Trying(c, r)

\* A notice before the member is known has something to try.
NoticeTries(c, r, l) == c.waiting = "unreachable" /\ c.me = None /\ ~c.stray => Trying(c, r) \/ l

\* A notice over a wanted connection has something to try, or the connection itself.
NoticeConnects(c, r, l) ==
  c.waiting = "unreachable" /\ c.want => Trying(c, r) \/ c.ws # None \/ c.reconnect \/ l

Noticed(c, r, l) ==
  OneToResume(c, r) /\ NoticeHasToken(c, r, l) /\ NoticeTries(c, r, l) /\ NoticeConnects(c, r, l)

KeptGoing == Steady(conn) /\ Noticed(conn, resuming, leaving)

-------------------------------------------------------------------------------
(* What the methods do to it.                                              *)

\* The fields the invariant looks at, but for the step of the retries.
Alike(c, d) ==
  /\ d.want = c.want /\ d.server = c.server /\ d.token = c.token /\ d.me = c.me /\ d.stray = c.stray
  /\ d.ws = c.ws /\ d.sock = c.sock /\ d.ping = c.ping /\ d.reconnect = c.reconnect /\ d.orphan = c.orphan
  /\ d.waiting = c.waiting

\* A connection that was let go of.
LetGo(c, d) ==
  /\ ~d.want /\ ~d.reconnect /\ d.ws = None /\ d.retry = None
  /\ d.token = c.token /\ d.me = c.me /\ d.stray = c.stray /\ d.orphan = c.orphan

LEMMA AlikeIsSteady ==
  ASSUME NEW c, NEW d, Steady(c), Alike(c, d)
  PROVE  Steady(d)
  BY DEF Steady, KnownMember, HasToken, CarriedOn, Alike

LEMMA LetGoIsSteady ==
  ASSUME NEW c, NEW d, Steady(c), LetGo(c, d), d.server => c.server
  PROVE  Steady(d)
  BY DEF Steady, KnownMember, HasToken, CarriedOn, LetGo

LEMMA CancelRetryDoes ==
  ASSUME NEW c, Sound(c)
  PROVE  Alike(c, CancelRetry(c)) /\ CancelRetry(c).retry = None
  BY DEF CancelRetry, Sound, ConnType, Alike

LEMMA RetrySettledDoes ==
  ASSUME NEW c, Sound(c)
  PROVE  Alike(c, RetrySettled(c)) /\ RetrySettled(c).retry = None
  BY DEF RetrySettled, CancelRetry, Sound, ConnType, Alike

LEMMA RetryLaterDoes ==
  ASSUME NEW c, Sound(c), NEW t
  PROVE  Alike(c, RetryLater(c, t)) /\ RetryLater(c, t).retry = t
  <1> DEFINE d == CancelRetry(c)
  <1>1. Alike(c, d)
    BY CancelRetryDoes
  <1>2. Sound(d)
    BY CancelRetryIsSound
  <1>3. \/ RetryLater(c, t) = [d EXCEPT !.retry = t, !.paused = TRUE]
        \/ RetryLater(c, t) = [d EXCEPT !.retry = t, !.timer = TRUE, !.left = d.left - 1]
    BY DEF RetryLater
  <1> HIDE DEF d
  <1>4. d \in ConnType
    BY <1>2 DEF Sound
  <1>5. ASSUME NEW e, e = [d EXCEPT !.retry = t, !.paused = TRUE] PROVE Alike(c, e) /\ e.retry = t
    BY <1>1, <1>4, <1>5 DEF ConnType, Alike
  <1>6. ASSUME NEW x, NEW e, e = [d EXCEPT !.retry = t, !.timer = TRUE, !.left = x] PROVE Alike(c, e) /\ e.retry = t
    BY <1>1, <1>4, <1>6 DEF ConnType, Alike
  <1> QED BY <1>3, <1>5, <1>6

LEMMA ResumeDoes ==
  ASSUME NEW c, Sound(c), NEW t
  PROVE  /\ Resume(c, t) = [c EXCEPT !.token = t, !.waiting = Resume(c, t).waiting]
         /\ Resume(c, t).waiting = "unreachable" => c.waiting = "unreachable"
  BY DEF Resume, Sound, ConnType

LEMMA CloseDoes ==
  ASSUME NEW c, Sound(c)
  PROVE  LetGo(c, Close(c)) /\ Close(c).server = c.server /\ Close(c).waiting = c.waiting
  <1> DEFINE d == RetrySettled(c)
             sock == [s \in Sockets |-> IF s = c.ws THEN [c.sock[s] EXCEPT !.st = "closing", !.dead = FALSE] ELSE c.sock[s]]
  <1>1. Sound(d) /\ Alike(c, d) /\ d.retry = None
    BY RetrySettledIsSound, RetrySettledDoes
  <1>2. Close(c) = [d EXCEPT !.want = FALSE, !.reconnect = FALSE, !.ping = FALSE, !.ws = None, !.sock = sock]
    BY DEF Close
  <1> HIDE DEF d, sock
  <1> QED BY <1>1, <1>2 DEF Sound, ConnType, Alike, LetGo

\* clearSession() leaves nothing but a timer it does not know of.
LEMMA ClearSessionDoes ==
  ASSUME NEW c, Sound(c), NEW r, NEW l, NEW q, OneToResume(c, q), r \subseteq q
  PROVE  Steady(ClearSession(c)) /\ Noticed(ClearSession(c), r, l) /\ ClearSession(c).waiting = None
         /\ ~ClearSession(c).want /\ ~ClearSession(c).server /\ ~ClearSession(c).reconnect
         /\ ClearSession(c).ws = None /\ ClearSession(c).retry = None /\ ClearSession(c).me = None
  <1> DEFINE d == Close(c)
             e == ClearSession(c)
  <1>1. Sound(d) /\ LetGo(c, d)
    BY CloseIsSound, CloseDoes
  <1>2. e = [d EXCEPT !.token = None, !.stored = None, !.me = None, !.claim = FALSE,
                      !.waiting = None, !.server = FALSE, !.stray = d.stray \/ c.orphan]
    BY DEF ClearSession
  <1> HIDE DEF d, e
  <1>3. /\ ~e.want /\ ~e.server /\ e.me = None /\ e.ws = None /\ ~e.reconnect /\ e.retry = None /\ e.waiting = None
        /\ e.orphan = c.orphan /\ e.stray = (d.stray \/ c.orphan)
    BY <1>1, <1>2 DEF Sound, ConnType, LetGo
  <1>4. Steady(e)
    BY <1>3 DEF Steady, KnownMember, HasToken, CarriedOn
  <1>5. Noticed(e, r, l)
    BY <1>3, NoneIsNothing DEF Noticed, OneToResume, NoticeHasToken, NoticeTries, NoticeConnects, The
  <1> QED BY <1>3, <1>4, <1>5 DEF e

LEMMA DropSocketDoes ==
  ASSUME NEW c, Sound(c)
  PROVE  LET d == DropSocket(c)
         IN  /\ d.ws = None /\ d.want = c.want /\ d.server = c.server /\ d.token = c.token /\ d.me = c.me
             /\ d.stray = c.stray /\ d.orphan = c.orphan /\ d.reconnect = c.reconnect
             /\ d.waiting = c.waiting /\ d.retry = c.retry
  <1>1. CASE c.ws = None
    BY <1>1 DEF DropSocket
  <1>2. CASE c.ws # None
    BY <1>2 DEF DropSocket, Sound, ConnType
  <1> QED BY <1>1, <1>2

\* connect(): with a token there is a new socket, without one nothing but the wish.
LEMMA ConnectDoes ==
  ASSUME NEW c, Sound(c), FreeSockets(c) # {} \/ c.ws # None
  PROVE  LET d == Connect(c)
         IN  /\ d.want /\ d.server = c.server /\ d.token = c.token /\ d.me = c.me
             /\ d.stray = c.stray /\ d.orphan = c.orphan /\ d.waiting = c.waiting /\ d.retry = c.retry
             /\ c.token # None => d.ws \in Sockets /\ d.sock[d.ws].st = "connecting"
             /\ c.token = None => d.ws = c.ws /\ d.reconnect = c.reconnect
  <1>1. CASE c.token = None
    BY <1>1 DEF Connect, Sound, ConnType
  <1>2. CASE c.token # None
    <2> DEFINE d == DropSocket(c)
               s == CHOOSE s \in FreeSockets(d) : TRUE
               fresh == [st |-> "connecting", sess |-> d.token, dead |-> FALSE]
               e == Connect(c)
    <2>1. Sound(d) /\ s \in FreeSockets(d)
      BY DropSocketIsSound
    <2>2. /\ d.server = c.server /\ d.token = c.token /\ d.me = c.me /\ d.stray = c.stray
          /\ d.orphan = c.orphan /\ d.waiting = c.waiting /\ d.retry = c.retry
      BY DropSocketDoes
    <2>3. e = [d EXCEPT !.want = TRUE, !.reconnect = FALSE, !.ws = s, !.sock[s] = fresh]
      BY <1>2 DEF Connect
    <2>4. s \in Sockets /\ fresh.st = "connecting"
      BY <2>1 DEF FreeSockets
    <2> HIDE DEF d, s, fresh, e
    <2>5. e = [d EXCEPT !.want = TRUE, !.reconnect = FALSE, !.ws = s, !.sock = [d.sock EXCEPT ![s] = fresh]]
          /\ d.sock \in [Sockets -> SocketStates]
      BY <2>1, <2>3 DEF Sound, ConnType
    <2>6. /\ e.want /\ e.server = d.server /\ e.token = d.token /\ e.me = d.me
          /\ e.stray = d.stray /\ e.orphan = d.orphan /\ e.waiting = d.waiting /\ e.retry = d.retry
          /\ e.ws = s /\ e.sock = [d.sock EXCEPT ![s] = fresh]
      BY <2>1, <2>5 DEF Sound, ConnType
    <2>7. e.ws \in Sockets /\ e.sock[e.ws].st = "connecting"
      BY <2>4, <2>5, <2>6
    <2> QED BY <1>2, <2>2, <2>6, <2>7 DEF e
  <1> QED BY <1>1, <1>2

LEMMA ConnectIsSteady ==
  ASSUME NEW c, Sound(c), FreeSockets(c) # {} \/ c.ws # None, c.stray \/ (c.me # None /\ HasToken(c))
  PROVE  Steady(Connect(c))
  <1> DEFINE d == Connect(c)
  <1>1. /\ d.want /\ d.server = c.server /\ d.token = c.token /\ d.me = c.me /\ d.stray = c.stray
        /\ c.token # None => d.ws \in Sockets /\ d.sock[d.ws].st = "connecting"
        /\ c.token = None => d.ws = c.ws
    BY ConnectDoes
  <1> HIDE DEF d
  <1>2. Steady(d)
    BY <1>1, NoneIsNothing DEF Steady, KnownMember, HasToken, CarriedOn
  <1> QED BY <1>2 DEF d

LEMMA ConnectIsNoticed ==
  ASSUME NEW c, Sound(c), FreeSockets(c) # {} \/ c.ws # None, NEW r, NEW l,
         OneToResume(c, r), NoticeHasToken(c, r, l), NoticeTries(c, r, l)
  PROVE  Noticed(Connect(c), r, l)
  <1> DEFINE d == Connect(c)
  <1>1. /\ d.token = c.token /\ d.me = c.me /\ d.stray = c.stray /\ d.waiting = c.waiting /\ d.retry = c.retry
        /\ c.token # None => d.ws \in Sockets
        /\ c.token = None => d.ws = c.ws
    BY ConnectDoes
  <1> HIDE DEF d
  <1>2. Noticed(d, r, l)
    BY <1>1, NoneIsNothing DEF Noticed, OneToResume, NoticeHasToken, NoticeTries, NoticeConnects, Trying, The
  <1> QED BY <1>2 DEF d

\* enter(): the member is known, and connected or asked to register.
LEMMA EnterKeepsGoing ==
  ASSUME NEW c, Sound(c), FreeSockets(c) # {} \/ c.ws # None, Steady(c), NEW t \in Sessions, NEW register \in BOOLEAN,
         NEW r, NEW l, OneToResume(c, r), NoticeHasToken(c, r, l)
  PROVE  Steady(Enter(c, t, register)) /\ Noticed(Enter(c, t, register), r, l)
  <1>1. CASE register
    <2> DEFINE d == Enter(c, t, register)
    <2>1. d = [c EXCEPT !.me = t, !.claim = TRUE, !.waiting = None]
      BY <1>1 DEF Enter
    <2> HIDE DEF d
    <2>2. /\ d.want = c.want /\ d.server = c.server /\ d.token = c.token /\ d.me = t /\ d.stray = c.stray
          /\ d.ws = c.ws /\ d.sock = c.sock /\ d.ping = c.ping /\ d.reconnect = c.reconnect
          /\ d.waiting = None /\ d.retry = c.retry
      BY <2>1 DEF Sound, ConnType
    <2>3. Steady(d)
      BY <2>2, NoneIsNothing DEF Steady, KnownMember, HasToken, CarriedOn
    <2>4. Noticed(d, r, l)
      BY <2>2, NoneIsNothing DEF Noticed, OneToResume, NoticeHasToken, NoticeTries, NoticeConnects, Trying
    <2> QED BY <2>3, <2>4 DEF d
  <1>2. CASE ~register
    <2> DEFINE d == [c EXCEPT !.me = t, !.claim = FALSE]
    <2>1. /\ Sound(d) /\ d.server = c.server /\ d.token = c.token /\ d.me = t /\ d.stray = c.stray
          /\ d.ws = c.ws /\ d.sock = c.sock /\ d.waiting = c.waiting /\ d.retry = c.retry
      BY DEF Sound, ConnType, SessionOrNone
    <2>2. FreeSockets(d) # {} \/ d.ws # None
      BY <2>1 DEF FreeSockets
    <2>3. Enter(c, t, register) = Connect(d)
      BY <1>2 DEF Enter
    <2> HIDE DEF d
    <2>4. d.stray \/ (d.me # None /\ HasToken(d))
      BY <2>1, NoneIsNothing DEF Steady, HasToken
    <2>5. OneToResume(d, r) /\ NoticeHasToken(d, r, l) /\ NoticeTries(d, r, l)
      BY <2>1, NoneIsNothing DEF OneToResume, NoticeHasToken, NoticeTries, Trying
    <2> QED BY <2>1, <2>2, <2>3, <2>4, <2>5, ConnectIsSteady, ConnectIsNoticed
  <1> QED BY <1>1, <1>2

LEMMA SocketGoneDoes ==
  ASSUME Sound(conn), NEW s \in Sockets
  PROVE  LET d == SocketGone(s)
         IN  /\ d.want = conn.want /\ d.server = conn.server /\ d.token = conn.token /\ d.me = conn.me
             /\ d.stray = conn.stray /\ d.orphan = conn.orphan /\ d.reconnect = conn.reconnect
             /\ d.waiting = conn.waiting /\ d.retry = conn.retry
             /\ d.ws # None => d.ws = conn.ws
  BY DEF SocketGone, Sound, ConnType

-------------------------------------------------------------------------------
(* What the actions do to it.                                              *)

LEMMA AlikeKeepsGoing ==
  ASSUME KeptGoing, Alike(conn, conn'), conn'.retry = conn.retry, UNCHANGED <<resuming, leaving>>
  PROVE  KeptGoing'
  <1>1. Steady(conn')
    BY AlikeIsSteady DEF KeptGoing
  <1> QED BY <1>1 DEF KeptGoing, Noticed, OneToResume, NoticeHasToken, NoticeTries, NoticeConnects, Trying, Alike

\* A step that ends the notice.
LEMMA NoNoticeKeepsGoing ==
  ASSUME KeptGoing, Steady(conn'), conn'.waiting # "unreachable", resuming' \subseteq resuming,
         conn'.retry \in {None, conn.retry}, conn'.ws # None => conn'.token # None \/ ~Trying(conn', resuming')
  PROVE  KeptGoing'
  BY DEF KeptGoing, Noticed, OneToResume, NoticeHasToken, NoticeTries, NoticeConnects, Trying, The

LEMMA ReloadKeepsGoing ==
  ASSUME IInv, Reload
  PROVE  KeptGoing'
  <1> DEFINE t == conn.stored
             d == Loaded(t)
  <1>1. d = Loaded(t) /\ ~d.want /\ ~d.server /\ d.ws = None /\ ~d.reconnect /\ ~d.orphan /\ d.waiting = None
        /\ d.retry = None /\ Sound(d)
    BY LoadedIsSound DEF Loaded, IInv, Sound, ConnType
  <1>2. conn' = IF t = None THEN d ELSE [d EXCEPT !.token = t, !.waiting = "checking"]
    <2>1. CASE t = None
      BY <2>1 DEF Reload
    <2>2. CASE t # None
      <3>1. Resume(d, t) = [d EXCEPT !.token = t, !.waiting = "checking"]
        BY <1>1, NoneIsNothing DEF Resume, Sound, ConnType
      <3> QED BY <2>2, <3>1 DEF Reload
    <2> QED BY <2>1, <2>2
  <1>3. resuming' = The(t)
    BY DEF Reload
  <1> HIDE DEF d
  <1>4. /\ ~conn'.want /\ ~conn'.server /\ conn'.ws = None /\ ~conn'.reconnect /\ ~conn'.orphan
        /\ conn'.waiting # "unreachable" /\ conn'.retry = None
    BY <1>1, <1>2, NoneIsNothing DEF Sound, ConnType
  <1>5. Steady(conn')
    BY <1>4 DEF Steady, KnownMember, HasToken, CarriedOn
  <1>6. Noticed(conn, resuming, leaving)'
    BY <1>3, <1>4 DEF Noticed, OneToResume, NoticeHasToken, NoticeTries, NoticeConnects, The
  <1> QED BY <1>5, <1>6 DEF KeptGoing

\* onUnauthorized() before the member is known does nothing, and after that it is clearSession().
LEMMA OnUnauthorizedKeepsGoing ==
  ASSUME IInv, KeptGoing, NEW r, r \subseteq resuming
  PROVE  LET d == OnUnauthorized(conn)
         IN  /\ Sound(d) /\ Steady(d) /\ d.retry \in {None, conn.retry}
             /\ d = conn \/ (~d.server /\ d.ws = None /\ d.waiting = None)
             /\ d = conn => d.me = None
             /\ Noticed(d, r, leaving) \/ d = conn
  <1>1. Sound(conn) /\ Steady(conn) /\ OneToResume(conn, resuming)
    BY DEF IInv, KeptGoing, Noticed
  <1>2. CASE conn.me = None
    BY <1>1, <1>2 DEF OnUnauthorized
  <1>3. CASE conn.me # None
    <2> DEFINE d == ClearSession(conn)
    <2>1. /\ Steady(d) /\ Noticed(d, r, leaving) /\ d.waiting = None /\ ~d.server /\ d.ws = None
          /\ d.retry = None /\ d.me = None
      BY <1>1, ClearSessionDoes
    <2>2. Sound(d) /\ OnUnauthorized(conn) = d
      BY <1>1, <1>3, ClearSessionIsSound DEF OnUnauthorized
    <2> HIDE DEF d
    <2> QED BY <2>1, <2>2
  <1> QED BY <1>2, <1>3

LEMMA ResumedKeepsGoing ==
  ASSUME IInv, KeptGoing, NEW t \in Sessions,
         ResumeOk(t) \/ ResumeSuspended(t) \/ ResumeRejected(t) \/ ResumeUnreachable(t)
  PROVE  KeptGoing'
  <1>1. /\ t \in resuming /\ resuming' = resuming \ {t} /\ leaving' = leaving
        /\ Sound(conn) /\ Steady(conn) /\ OneToResume(conn, resuming) /\ NoticeHasToken(conn, resuming, leaving)
    BY DEF ResumeOk, ResumeSuspended, ResumeRejected, ResumeUnreachable, IInv, KeptGoing, Noticed, goodbye
  <1>2. resuming' = {}
    BY <1>1 DEF OneToResume
  <1> DEFINE e == RetrySettled(conn)
  <1>3. Sound(e) /\ Alike(conn, e) /\ e.retry = None /\ Steady(e)
    BY <1>1, RetrySettledIsSound, RetrySettledDoes, AlikeIsSteady
  <1>4. CASE ResumeOk(t)
    <2>1. PICK register \in BOOLEAN : conn' = Enter(e, t, register)
      BY <1>4 DEF ResumeOk
    <2>2. FreeSockets(e) # {} \/ e.ws # None
      BY <1>3, <1>4 DEF ResumeOk, Room, FreeSockets, Alike
    <2> HIDE DEF e
    <2>3. OneToResume(e, {}) /\ NoticeHasToken(e, {}, leaving)
      BY <1>1, <1>3 DEF OneToResume, NoticeHasToken, Trying, The, Alike
    <2>4. Steady(conn') /\ Noticed(conn', {}, leaving)
      BY <1>3, <2>1, <2>2, <2>3, EnterKeepsGoing
    <2> QED BY <1>1, <1>2, <2>4 DEF KeptGoing
  <1>5. CASE ResumeSuspended(t)
    <2> DEFINE d == Close(e)
    <2>1. Sound(d) /\ LetGo(e, d)
      BY <1>3, CloseIsSound, CloseDoes
    <2>2. conn' = [d EXCEPT !.waiting = None, !.server = FALSE]
      BY <1>5 DEF ResumeSuspended, Suspended
    <2> HIDE DEF d, e
    <2>3. LetGo(e, conn') /\ ~conn'.server /\ conn'.waiting = None
      BY <2>1, <2>2 DEF Sound, ConnType, LetGo
    <2>4. Steady(conn')
      BY <1>3, <2>3, LetGoIsSteady
    <2> QED BY <1>1, <2>3, <2>4, NoneIsNothing, NoNoticeKeepsGoing DEF LetGo
  <1>6. CASE ResumeRejected(t)
    <2> DEFINE d == OnUnauthorized(conn)
               f == RetrySettled(d)
    <2>1. Sound(d) /\ Steady(d) /\ (d = conn \/ (~d.server /\ d.ws = None)) /\ (d = conn => d.me = None)
      BY OnUnauthorizedKeepsGoing
    <2>2. conn' = [f EXCEPT !.token = None, !.waiting = None]
      BY <1>6 DEF ResumeRejected
    <2> HIDE DEF d
    <2>3. d.stray \/ (~d.server /\ d.ws = None)
      BY <1>1, <2>1 DEF Steady, KnownMember
    <2>4. Sound(f) /\ Alike(d, f) /\ f.retry = None
      BY <2>1, RetrySettledIsSound, RetrySettledDoes
    <2> HIDE DEF f
    <2>5. /\ conn'.want = d.want /\ conn'.server = d.server /\ conn'.me = d.me /\ conn'.stray = d.stray
          /\ conn'.ws = d.ws /\ conn'.sock = d.sock /\ conn'.ping = d.ping /\ conn'.reconnect = d.reconnect
          /\ conn'.orphan = d.orphan /\ conn'.waiting = None /\ conn'.retry = None
      BY <2>2, <2>4 DEF Sound, ConnType, Alike
    <2>6. Steady(conn')
      BY <2>1, <2>3, <2>5 DEF Steady, KnownMember, HasToken, CarriedOn
    <2> QED BY <1>1, <1>2, <2>5, <2>6, NoneIsNothing, NoNoticeKeepsGoing DEF Trying
  <1>7. CASE ResumeUnreachable(t)
    <2> DEFINE d == [conn EXCEPT !.waiting = "unreachable"]
    <2>1. /\ Sound(d) /\ d.want = conn.want /\ d.server = conn.server /\ d.token = conn.token /\ d.me = conn.me
          /\ d.stray = conn.stray /\ d.ws = conn.ws /\ d.sock = conn.sock /\ d.ping = conn.ping
          /\ d.reconnect = conn.reconnect /\ d.orphan = conn.orphan
      BY <1>1 DEF Sound, ConnType
    <2>2. conn' = RetryLater(d, t)
      BY <1>7 DEF ResumeUnreachable
    <2> HIDE DEF d
    <2>3. Alike(d, conn') /\ conn'.retry = t
      BY <2>1, <2>2, RetryLaterDoes
    <2>4. Steady(conn')
      BY <1>1, <2>1, <2>3 DEF Steady, KnownMember, HasToken, CarriedOn, Alike
    <2>5. Noticed(conn, resuming, leaving)'
      BY <1>1, <1>2, <2>1, <2>3, NoneIsNothing
         DEF Noticed, OneToResume, NoticeHasToken, NoticeTries, NoticeConnects, Trying, The, Alike
    <2> QED BY <2>4, <2>5 DEF KeptGoing
  <1> QED BY <1>4, <1>5, <1>6, <1>7

LEMMA RetriesKeepGoing ==
  ASSUME IInv, KeptGoing, RetryNow \/ RetryByUser
  PROVE  KeptGoing'
  <1>1. Sound(conn) /\ Steady(conn) /\ Noticed(conn, resuming, leaving) /\ leaving' = leaving
        /\ conn.retry \in SessionOrNone
    BY DEF RetryNow, RetryByUser, IInv, KeptGoing, Sound, ConnType, goodbye
  <1> DEFINE d == [conn EXCEPT !.left = TriesAfterUser, !.paused = FALSE]
  <1>2. Sound(d) /\ Alike(conn, d) /\ d.retry = conn.retry
    BY <1>1, TriesAreThere DEF Sound, ConnType, Alike
  <1>3. Sound(conn) /\ Alike(conn, conn) /\ conn.retry = conn.retry
    BY <1>1 DEF Alike
  <1>4. PICK c : Sound(c) /\ Alike(conn, c) /\ c.retry = conn.retry /\ Retried(c)
    <2>1. Retried(conn) \/ Retried(d)
      BY DEF RetryNow, RetryByUser
    <2> HIDE DEF d
    <2> QED BY <1>2, <1>3, <2>1
  <1> DEFINE e == CancelRetry(c)
  <1>5. Sound(e) /\ Alike(c, e) /\ e.retry = None
    BY <1>4, CancelRetryIsSound, CancelRetryDoes
  <1>6. CASE c.retry = None
    <2>1. conn' = e /\ resuming' = resuming
      BY <1>6, <1>4 DEF Retried, The
    <2> QED BY <1>1, <1>4, <1>5, <1>6, <2>1, AlikeKeepsGoing DEF Alike
  <1>7. CASE c.retry # None
    <2> DEFINE t == c.retry
    <2>1. conn' = Resume(e, t) /\ resuming' = resuming \cup {t} /\ t = conn.retry
      BY <1>4, <1>7 DEF Retried, The
    <2> HIDE DEF e
    <2>2. /\ conn' = [e EXCEPT !.token = t, !.waiting = conn'.waiting]
          /\ conn'.waiting = "unreachable" => e.waiting = "unreachable"
      BY <1>5, <2>1, ResumeDoes
    <2>3. /\ conn'.want = e.want /\ conn'.server = e.server /\ conn'.token = t /\ conn'.me = e.me
          /\ conn'.stray = e.stray /\ conn'.ws = e.ws /\ conn'.sock = e.sock /\ conn'.ping = e.ping
          /\ conn'.reconnect = e.reconnect /\ conn'.orphan = e.orphan /\ conn'.retry = None
      BY <1>5, <2>2 DEF Sound, ConnType
    <2>4. resuming' = {t}
      BY <1>1, <1>7, <2>1 DEF Noticed, OneToResume, The
    <2>5. Steady(conn')
      BY <1>1, <1>4, <1>5, <1>7, <2>3 DEF Steady, KnownMember, HasToken, CarriedOn, Alike
    <2>6. Noticed(conn, resuming, leaving)'
      BY <1>7, <2>3, <2>4 DEF Noticed, OneToResume, NoticeHasToken, NoticeTries, NoticeConnects, Trying, The
    <2> QED BY <2>5, <2>6 DEF KeptGoing
  <1> QED BY <1>6, <1>7

LEMMA SigningInKeepsGoing ==
  ASSUME IInv, KeptGoing, Login \/ LoginFailed \/ \E t \in Sessions : Adopt(t) \/ AdoptOk(t) \/ AdoptFailed(t)
  PROVE  KeptGoing'
  <1>1. /\ Sound(conn) /\ Steady(conn) /\ Noticed(conn, resuming, leaving)
        /\ OneToResume(conn, resuming) /\ NoticeHasToken(conn, resuming, leaving)
    BY DEF IInv, KeptGoing, Noticed
  <1>2. UNCHANGED <<resuming, leaving>>
    BY DEF Login, LoginFailed, Adopt, AdoptOk, AdoptFailed, goodbye
  <1>3. CASE Login
    BY <1>2, <1>3, AlikeKeepsGoing DEF Login, Alike
  <1>4. ASSUME conn' = [conn EXCEPT !.waiting = None] PROVE KeptGoing'
    <2>1. /\ conn'.want = conn.want /\ conn'.server = conn.server /\ conn'.token = conn.token /\ conn'.me = conn.me
          /\ conn'.stray = conn.stray /\ conn'.ws = conn.ws /\ conn'.sock = conn.sock /\ conn'.ping = conn.ping
          /\ conn'.reconnect = conn.reconnect /\ conn'.orphan = conn.orphan /\ conn'.retry = conn.retry
          /\ conn'.waiting = None
      BY <1>1, <1>4 DEF Sound, ConnType
    <2>2. Steady(conn')
      BY <1>1, <2>1 DEF Steady, KnownMember, HasToken, CarriedOn
    <2> QED BY <1>1, <1>2, <2>1, <2>2, NoneIsNothing, NoNoticeKeepsGoing DEF NoticeHasToken, Trying
  <1>5. ASSUME NEW t \in Sessions, Adopt(t) PROVE KeptGoing'
    <2>1. conn' = [conn EXCEPT !.token = t, !.stored = t]
      BY <1>5 DEF Adopt
    <2>2. /\ conn'.want = conn.want /\ conn'.server = conn.server /\ conn'.token = t /\ conn'.me = conn.me
          /\ conn'.stray = conn.stray /\ conn'.ws = conn.ws /\ conn'.sock = conn.sock /\ conn'.ping = conn.ping
          /\ conn'.reconnect = conn.reconnect /\ conn'.orphan = conn.orphan /\ conn'.retry = conn.retry
          /\ conn'.waiting = conn.waiting
      BY <1>1, <2>1 DEF Sound, ConnType
    <2>3. Steady(conn')
      BY <1>1, <2>2, NoneIsNothing DEF Steady, KnownMember, HasToken, CarriedOn
    <2>4. Noticed(conn, resuming, leaving)'
      BY <1>1, <1>2, <2>2, NoneIsNothing
         DEF Noticed, OneToResume, NoticeHasToken, NoticeTries, NoticeConnects, Trying
    <2> QED BY <2>3, <2>4 DEF KeptGoing
  <1>6. ASSUME NEW t \in Sessions, AdoptOk(t) PROVE KeptGoing'
    <2>1. PICK register \in BOOLEAN : conn' = Enter(conn, t, register)
      BY <1>6 DEF AdoptOk
    <2>2. FreeSockets(conn) # {} \/ conn.ws # None
      BY <1>6 DEF AdoptOk, Room
    <2>3. Steady(conn') /\ Noticed(conn', resuming, leaving)
      BY <1>1, <2>1, <2>2, EnterKeepsGoing
    <2> QED BY <1>2, <2>3 DEF KeptGoing
  <1>7. ASSUME NEW t \in Sessions, AdoptFailed(t) PROVE KeptGoing'
    <2>1. CASE conn' = [conn EXCEPT !.waiting = None]
      BY <1>4, <2>1
    <2>2. CASE conn' = [OnUnauthorized(conn) EXCEPT !.waiting = None]
      <3> DEFINE d == OnUnauthorized(conn)
      <3>1. /\ Sound(d) /\ d.retry \in {None, conn.retry} /\ (d = conn \/ d.waiting = None)
            /\ Steady(d) /\ (d = conn \/ Noticed(d, resuming, leaving))
        BY OnUnauthorizedKeepsGoing
      <3>2. CASE d = conn
        BY <1>4, <2>2, <3>2
      <3>3. CASE d # conn
        <4>1. conn' = [d EXCEPT !.waiting = None] /\ d.waiting = None
          BY <2>2, <3>1, <3>3
        <4> HIDE DEF d
        <4>2. conn' = d
          BY <3>1, <4>1 DEF Sound, ConnType
        <4> QED BY <1>2, <3>1, <3>3, <4>2 DEF KeptGoing
      <3> QED BY <3>2, <3>3
    <2> QED BY <1>7, <2>1, <2>2 DEF AdoptFailed
  <1> QED BY <1>2, <1>3, <1>4, <1>5, <1>6, <1>7 DEF LoginFailed

LEMMA ClaimingKeepsGoing ==
  ASSUME IInv, KeptGoing, Claimed \/ \E t \in Sessions : Refreshed(t)
  PROVE  KeptGoing'
  <1>1. Sound(conn) /\ Steady(conn) /\ OneToResume(conn, resuming) /\ NoticeHasToken(conn, resuming, leaving)
        /\ UNCHANGED <<resuming, leaving>>
    BY DEF IInv, KeptGoing, Noticed, Claimed, Refreshed, goodbye
  <1>2. CASE conn' = conn
    BY <1>1, <1>2, AlikeKeepsGoing DEF Alike
  <1>3. ASSUME NEW t \in Sessions, NEW register \in BOOLEAN, Room, conn' = Enter(conn, t, register) PROVE KeptGoing'
    <2>1. Steady(conn') /\ Noticed(conn', resuming, leaving)
      BY <1>1, <1>3, EnterKeepsGoing DEF Room
    <2> QED BY <1>1, <2>1 DEF KeptGoing
  <1>4. CASE conn' = OnUnauthorized(conn)
    <2>1. Steady(conn') /\ (Noticed(conn', resuming, leaving) \/ conn' = conn)
      BY <1>4, OnUnauthorizedKeepsGoing
    <2> QED BY <1>1, <1>2, <2>1 DEF KeptGoing
  <1> QED BY <1>2, <1>3, <1>4 DEF Claimed, Refreshed

LEMMA LeavingKeepsGoing ==
  ASSUME IInv, KeptGoing, Leave \/ Left \/ Logout \/ \E t \in Sessions : FarewellArrives(t)
  PROVE  KeptGoing'
  <1>1. Sound(conn) /\ Steady(conn) /\ Noticed(conn, resuming, leaving) /\ OneToResume(conn, resuming)
        /\ resuming' = resuming
    BY DEF IInv, KeptGoing, Noticed, Leave, Left, Logout, FarewellArrives, calls
  <1>2. CASE Leave
    <2>1. leaving' /\ LetGo(conn, conn') /\ conn'.server = conn.server /\ conn'.waiting = conn.waiting
      BY <1>1, <1>2, CloseDoes DEF Leave
    <2>2. Steady(conn')
      BY <1>1, <2>1, LetGoIsSteady
    <2>3. Noticed(conn, resuming, leaving)'
      BY <1>1, <2>1 DEF Noticed, OneToResume, NoticeHasToken, NoticeTries, NoticeConnects, Trying, The, LetGo
    <2> QED BY <2>2, <2>3 DEF KeptGoing
  <1>3. CASE Left \/ Logout
    <2>1. conn' = ClearSession(conn)
      BY <1>3 DEF Left, Logout
    <2>2. Steady(conn') /\ Noticed(conn', resuming, leaving')
      BY <1>1, <2>1, ClearSessionDoes
    <2> QED BY <1>1, <2>2 DEF KeptGoing
  <1>4. ASSUME NEW t \in Sessions, FarewellArrives(t) PROVE KeptGoing'
    BY <1>1, <1>4, AlikeKeepsGoing DEF FarewellArrives, Alike
  <1> QED BY <1>2, <1>3, <1>4

LEMMA SocketStepsKeepGoing ==
  ASSUME IInv, KeptGoing, NEW s \in Sockets,
         Opened(s) \/ Welcome(s) \/ Removed(s) \/ WrongVersion(s) \/ Pong(s) \/ Vanishes(s)
  PROVE  KeptGoing'
  <1>1. /\ Sound(conn) /\ Steady(conn) /\ Noticed(conn, resuming, leaving)
        /\ UNCHANGED <<resuming, leaving>>
        /\ conn.sock \in [Sockets -> SocketStates] /\ conn.sock[s] \in SocketStates
    BY DEF IInv, KeptGoing, Opened, Welcome, Removed, WrongVersion, Pong, Vanishes, calls, goodbye, Sound, ConnType
  <1>2. CASE Removed(s) \/ WrongVersion(s) \/ Pong(s)
    <2>1. /\ conn'.token = conn.token /\ conn'.me = conn.me /\ conn'.stray = conn.stray /\ conn'.ws = conn.ws
          /\ conn'.sock = conn.sock /\ conn'.ping = conn.ping /\ conn'.reconnect = conn.reconnect
          /\ conn'.orphan = conn.orphan /\ conn'.retry = conn.retry /\ conn'.waiting = conn.waiting
          /\ conn'.want => conn.want /\ conn'.server = conn.server
          /\ conn'.server => conn.server
      BY <1>1, <1>2 DEF Removed, WrongVersion, Pong, Sound, ConnType
    <2>2. Steady(conn')
      BY <1>1, <2>1 DEF Steady, KnownMember, HasToken, CarriedOn
    <2>3. Noticed(conn, resuming, leaving)'
      BY <1>1, <2>1 DEF Noticed, OneToResume, NoticeHasToken, NoticeTries, NoticeConnects, Trying
    <2> QED BY <2>2, <2>3 DEF KeptGoing
  <1>3. ASSUME Opened(s) \/ Welcome(s) \/ Vanishes(s) PROVE s = conn.ws /\ s # None
    BY <1>1, <1>3, NoneIsNothing DEF Opened, Welcome, Vanishes, Heard, InPhase, Sound, Delivering
  <1>4. CASE Opened(s) \/ Vanishes(s)
    <2>1. PICK x : /\ conn' = [conn EXCEPT !.sock = [conn.sock EXCEPT ![s] = x]]
                   /\ x.st = "welcomed" => conn.sock[s].st = "welcomed"
      <3> DEFINE o == [conn.sock[s] EXCEPT !.st = "helloed"]
                 v == [conn.sock[s] EXCEPT !.dead = TRUE]
      <3>0. conn.sock[s] \in [st : Phases, sess : Sessions, dead : BOOLEAN]
        <4>1. conn.sock[s].st \in Delivering
          BY <1>1, <1>3, <1>4 DEF Sound
        <4> QED BY <1>1, <4>1 DEF SocketStates, Free, Delivering
      <3>1. CASE Opened(s)
        <4>1. conn' = [conn EXCEPT !.sock = [conn.sock EXCEPT ![s] = o]]
          BY <1>1, <3>1 DEF Opened, Sound, ConnType
        <4>2. o.st = "helloed"
          BY <3>0
        <4> QED BY <4>1, <4>2
      <3>2. CASE Vanishes(s)
        <4>1. conn' = [conn EXCEPT !.sock = [conn.sock EXCEPT ![s] = v]]
          BY <1>1, <3>2 DEF Vanishes, Sound, ConnType
        <4>2. v.st = conn.sock[s].st
          BY <3>0
        <4> QED BY <4>1, <4>2
      <3> QED BY <1>4, <3>1, <3>2
    <2> DEFINE sock == [conn.sock EXCEPT ![s] = x]
    <2>2. sock[s] = x
      BY <1>1
    <2>3. conn' = [conn EXCEPT !.sock = sock]
      BY <2>1
    <2> HIDE DEF sock
    <2>4. /\ conn'.want = conn.want /\ conn'.server = conn.server /\ conn'.token = conn.token /\ conn'.me = conn.me
          /\ conn'.stray = conn.stray /\ conn'.ws = conn.ws /\ conn'.sock = sock /\ conn'.ping = conn.ping
          /\ conn'.reconnect = conn.reconnect /\ conn'.orphan = conn.orphan /\ conn'.retry = conn.retry
          /\ conn'.waiting = conn.waiting
      BY <1>1, <2>3 DEF Sound, ConnType
    <2>5. Steady(conn')
      BY <1>1, <1>3, <1>4, <2>1, <2>2, <2>4 DEF Steady, KnownMember, HasToken, CarriedOn
    <2>6. Noticed(conn, resuming, leaving)'
      BY <1>1, <2>4 DEF Noticed, OneToResume, NoticeHasToken, NoticeTries, NoticeConnects, Trying
    <2> QED BY <2>5, <2>6 DEF KeptGoing
  <1>5. CASE Welcome(s)
    <2> DEFINE sock == [conn.sock EXCEPT ![s] = [conn.sock[s] EXCEPT !.st = "welcomed"]]
    <2>1. conn' = [conn EXCEPT !.sock = sock, !.server = TRUE, !.waiting = None, !.ping = TRUE, !.unanswered = FALSE]
      BY <1>1, <1>5 DEF Welcome, Sound, ConnType
    <2> HIDE DEF sock
    <2>2. /\ conn'.want = conn.want /\ conn'.token = conn.token /\ conn'.me = conn.me
          /\ conn'.stray = conn.stray /\ conn'.ws = conn.ws /\ conn'.ping
          /\ conn'.reconnect = conn.reconnect /\ conn'.orphan = conn.orphan /\ conn'.retry = conn.retry
          /\ conn'.waiting = None
      BY <1>1, <2>1 DEF Sound, ConnType
    <2>3. Steady(conn')
      BY <1>1, <1>3, <1>5, <2>2 DEF Steady, KnownMember, HasToken, CarriedOn
    <2> QED BY <1>1, <2>2, <2>3, NoneIsNothing, NoNoticeKeepsGoing DEF Noticed, NoticeHasToken, Trying
  <1> QED BY <1>2, <1>4, <1>5

\* The connection object right after a socket is gone, before onclose goes on.
LEMMA SocketGoneKeeps ==
  ASSUME IInv, KeptGoing, NEW s \in Sockets
  PROVE  LET d == SocketGone(s)
         IN  /\ Sound(d) /\ (d.stray \/ (KnownMember(d) /\ HasToken(d)))
             /\ OneToResume(d, resuming) /\ NoticeHasToken(d, resuming, leaving) /\ NoticeTries(d, resuming, leaving)
             /\ d.want = conn.want /\ d.stray = conn.stray /\ d.me = conn.me /\ d.token = conn.token
             /\ d.waiting = conn.waiting /\ d.retry = conn.retry /\ d.server = conn.server
  <1> DEFINE d == SocketGone(s)
  <1>1. Sound(conn) /\ Steady(conn) /\ Noticed(conn, resuming, leaving)
    BY DEF IInv, KeptGoing
  <1>2. /\ d.want = conn.want /\ d.server = conn.server /\ d.token = conn.token /\ d.me = conn.me
        /\ d.stray = conn.stray /\ d.orphan = conn.orphan /\ d.reconnect = conn.reconnect
        /\ d.waiting = conn.waiting /\ d.retry = conn.retry /\ (d.ws # None => d.ws = conn.ws)
    BY <1>1, SocketGoneDoes
  <1>3. Sound(d)
    BY <1>1, SocketGoneIsSound
  <1> HIDE DEF d
  <1>4. d.stray \/ (KnownMember(d) /\ HasToken(d))
    BY <1>1, <1>2 DEF Steady, KnownMember, HasToken
  <1>5. OneToResume(d, resuming) /\ NoticeHasToken(d, resuming, leaving) /\ NoticeTries(d, resuming, leaving)
    BY <1>1, <1>2 DEF Noticed, OneToResume, NoticeHasToken, NoticeTries, Trying
  <1> QED BY <1>2, <1>3, <1>4, <1>5 DEF d

\* A connection nobody wants needs nothing to carry it on.
LEMMA UnwantedKeepsGoing ==
  ASSUME NEW d, ~d.want, d.stray \/ (KnownMember(d) /\ HasToken(d)), NEW r, NEW l,
         OneToResume(d, r), NoticeHasToken(d, r, l), NoticeTries(d, r, l)
  PROVE  Steady(d) /\ Noticed(d, r, l)
  BY DEF Steady, CarriedOn, Noticed, NoticeConnects

LEMMA ClosingKeepsGoing ==
  ASSUME IInv, KeptGoing, NEW s \in Sockets,
         Unauthorized(s) \/ ClosedEnded(s) \/ ClosedUnregistered(s) \/ ClosedSuspended(s) \/ ClosedPlain(s)
  PROVE  KeptGoing'
  <1> DEFINE d == SocketGone(s)
  <1>1. Sound(conn) /\ Steady(conn) /\ Noticed(conn, resuming, leaving) /\ UNCHANGED <<resuming, leaving>>
    BY DEF IInv, KeptGoing, Unauthorized, ClosedEnded, ClosedUnregistered, ClosedSuspended, ClosedPlain, calls, goodbye
  <1>2. /\ Sound(d) /\ (d.stray \/ (KnownMember(d) /\ HasToken(d)))
        /\ OneToResume(d, resuming) /\ NoticeHasToken(d, resuming, leaving) /\ NoticeTries(d, resuming, leaving)
        /\ d.want = conn.want /\ d.stray = conn.stray /\ d.me = conn.me /\ d.token = conn.token
        /\ d.waiting = conn.waiting /\ d.retry = conn.retry /\ d.server = conn.server
    BY SocketGoneKeeps
  <1>3. CASE conn' = d /\ ~conn.want
    <2>1. Steady(d) /\ Noticed(d, resuming, leaving)
      BY <1>2, <1>3, UnwantedKeepsGoing
    <2> QED BY <1>1, <1>3, <2>1 DEF KeptGoing
  <1>4. CASE conn' = ClearSession(conn) \/ conn' = ClearSession(d)
    <2>1. Steady(conn') /\ Noticed(conn', resuming, leaving)
      BY <1>1, <1>2, <1>4, ClearSessionDoes DEF Noticed
    <2> QED BY <1>1, <2>1 DEF KeptGoing
  <1>5. CASE ClosedUnregistered(s) /\ conn.want
    <2>1. conn' = Close(d)
      BY <1>5 DEF ClosedUnregistered
    <2>2. LetGo(d, conn') /\ conn'.server = d.server /\ conn'.waiting = d.waiting
      BY <1>2, <2>1, CloseDoes
    <2>3. conn.ws # None /\ (conn.stray \/ conn.me # None)
      BY <1>1, <1>5, NoneIsNothing
         DEF ClosedUnregistered, Heard, InPhase, Sound, Delivering, Steady, KnownMember
    <2> HIDE DEF d
    <2>4. OneToResume(conn', resuming) /\ NoticeHasToken(conn', resuming, leaving) /\ NoticeTries(conn', resuming, leaving)
      BY <1>1, <1>2, <2>2, <2>3 DEF Noticed, OneToResume, NoticeHasToken, NoticeTries, Trying, The, LetGo
    <2>5. conn'.stray \/ (KnownMember(conn') /\ HasToken(conn'))
      BY <1>2, <2>2 DEF KnownMember, HasToken, LetGo
    <2>6. Steady(conn') /\ Noticed(conn', resuming, leaving)
      BY <2>2, <2>4, <2>5, UnwantedKeepsGoing DEF LetGo
    <2> QED BY <1>1, <2>6 DEF KeptGoing
  <1>6. CASE ClosedSuspended(s) /\ conn.want
    <2> DEFINE e == Close(d)
    <2>1. Sound(e) /\ LetGo(d, e)
      BY <1>2, CloseIsSound, CloseDoes
    <2>2. conn' = [e EXCEPT !.waiting = None, !.server = FALSE]
      BY <1>6 DEF ClosedSuspended, Suspended
    <2> HIDE DEF d, e
    <2>3. LetGo(d, conn') /\ ~conn'.server /\ conn'.waiting = None
      BY <2>1, <2>2 DEF Sound, ConnType, LetGo
    <2>4. Steady(conn')
      BY <1>2, <2>3 DEF Steady, KnownMember, HasToken, CarriedOn, LetGo
    <2> QED BY <1>1, <2>3, <2>4, NoneIsNothing, NoNoticeKeepsGoing DEF LetGo
  <1>7. CASE ClosedPlain(s) /\ conn.want
    <2>1. conn' = [d EXCEPT !.reconnect = TRUE, !.orphan = d.orphan \/ conn.reconnect]
      BY <1>7 DEF ClosedPlain
    <2> HIDE DEF d
    <2>2. /\ conn'.want /\ conn'.server = d.server /\ conn'.token = d.token /\ conn'.me = d.me
          /\ conn'.stray = d.stray /\ conn'.ws = d.ws /\ conn'.reconnect /\ conn'.retry = d.retry
          /\ conn'.waiting = d.waiting
      BY <1>2, <1>7, <2>1 DEF Sound, ConnType
    <2>3. Steady(conn')
      BY <1>2, <1>7, <2>2 DEF Steady, KnownMember, HasToken, CarriedOn
    <2>4. Noticed(conn, resuming, leaving)'
      BY <1>1, <1>2, <2>2 DEF Noticed, OneToResume, NoticeHasToken, NoticeTries, NoticeConnects, Trying
    <2> QED BY <2>3, <2>4 DEF KeptGoing
  <1> QED BY <1>3, <1>4, <1>5, <1>6, <1>7 DEF Unauthorized, ClosedEnded, ClosedUnregistered, ClosedSuspended, ClosedPlain

LEMMA TimersKeepGoing ==
  ASSUME IInv, KeptGoing, Reconnect \/ ReconnectOrphan \/ \E late \in BOOLEAN : Heartbeat(late)
  PROVE  KeptGoing'
  <1>1. /\ Sound(conn) /\ Steady(conn) /\ Noticed(conn, resuming, leaving) /\ UNCHANGED <<resuming, leaving>>
        /\ Room
    BY DEF IInv, KeptGoing, Reconnect, ReconnectOrphan, Heartbeat, calls, goodbye
  \* Each of them connects from an object that differs in nothing the notice looks at.
  <1>2. ASSUME NEW d, Sound(d), FreeSockets(d) # {} \/ d.ws # None, conn' = Connect(d),
               conn.want \/ conn.reconnect \/ conn.orphan,
               d.token = conn.token, d.me = conn.me, d.stray = conn.stray, d.server = conn.server,
               d.waiting = conn.waiting, d.retry = conn.retry, d.ws \in {None, conn.ws}
        PROVE  KeptGoing'
    <2>1. d.stray \/ (d.me # None /\ HasToken(d))
      BY <1>1, <1>2 DEF Steady, KnownMember, HasToken
    <2>2. OneToResume(d, resuming) /\ NoticeHasToken(d, resuming, leaving) /\ NoticeTries(d, resuming, leaving)
      BY <1>1, <1>2 DEF Noticed, OneToResume, NoticeHasToken, NoticeTries, Trying
    <2>3. Steady(conn') /\ Noticed(conn', resuming, leaving)
      BY <1>2, <2>1, <2>2, ConnectIsSteady, ConnectIsNoticed
    <2> QED BY <1>1, <2>3 DEF KeptGoing
  <1>3. CASE Reconnect
    <2> DEFINE d == [conn EXCEPT !.reconnect = FALSE]
    <2>1. /\ Sound(d) /\ d.token = conn.token /\ d.me = conn.me /\ d.stray = conn.stray /\ d.server = conn.server
          /\ d.waiting = conn.waiting /\ d.retry = conn.retry /\ d.ws = conn.ws /\ d.sock = conn.sock
      BY <1>1 DEF Sound, ConnType
    <2>2. FreeSockets(d) # {} \/ d.ws # None
      BY <1>1, <2>1 DEF Room, FreeSockets
    <2>3. conn' = Connect(d) /\ conn.reconnect
      BY <1>3 DEF Reconnect
    <2> HIDE DEF d
    <2> QED BY <1>2, <2>1, <2>2, <2>3
  <1>4. CASE ReconnectOrphan
    <2> DEFINE d == [conn EXCEPT !.orphan = FALSE]
    <2>1. /\ Sound(d) /\ d.token = conn.token /\ d.me = conn.me /\ d.stray = conn.stray /\ d.server = conn.server
          /\ d.waiting = conn.waiting /\ d.retry = conn.retry /\ d.ws = conn.ws /\ d.sock = conn.sock
      BY <1>1 DEF Sound, ConnType
    <2>2. FreeSockets(d) # {} \/ d.ws # None
      BY <1>1, <2>1 DEF Room, FreeSockets
    <2>3. conn' = Connect(d) /\ conn.orphan
      BY <1>4 DEF ReconnectOrphan
    <2> HIDE DEF d
    <2> QED BY <1>2, <2>1, <2>2, <2>3
  <1>5. ASSUME NEW late \in BOOLEAN, Heartbeat(late) PROVE KeptGoing'
    <2>1. CASE conn.unanswered /\ ~late
      <3> DEFINE e == [conn EXCEPT !.unanswered = FALSE]
                 d == DropSocket(e)
      <3>1. /\ Sound(e) /\ e.want = conn.want /\ e.token = conn.token /\ e.me = conn.me /\ e.stray = conn.stray
            /\ e.server = conn.server /\ e.waiting = conn.waiting /\ e.retry = conn.retry /\ e.ws = conn.ws
            /\ e.sock = conn.sock /\ e.reconnect = conn.reconnect /\ e.orphan = conn.orphan
        BY <1>1 DEF Sound, ConnType
      <3>2. FreeSockets(e) # {} \/ e.ws # None
        BY <1>1, <3>1 DEF Room, FreeSockets
      <3>3. conn' = IF d.want THEN Connect(d) ELSE d
        BY <1>5, <2>1 DEF Heartbeat
      <3> HIDE DEF e
      <3>4. Sound(d) /\ FreeSockets(d) # {}
        BY <3>1, <3>2, DropSocketIsSound
      <3>5. /\ d.ws = None /\ d.want = e.want /\ d.server = e.server /\ d.token = e.token /\ d.me = e.me
            /\ d.stray = e.stray /\ d.orphan = e.orphan /\ d.reconnect = e.reconnect
            /\ d.waiting = e.waiting /\ d.retry = e.retry
        BY <3>1, DropSocketDoes
      <3> HIDE DEF d
      <3>6. CASE d.want
        BY <1>2, <3>1, <3>3, <3>4, <3>5, <3>6
      <3>7. CASE ~d.want
        <4>1. d.stray \/ (KnownMember(d) /\ HasToken(d))
          BY <1>1, <3>1, <3>5 DEF Steady, KnownMember, HasToken
        <4>2. OneToResume(d, resuming) /\ NoticeHasToken(d, resuming, leaving) /\ NoticeTries(d, resuming, leaving)
          BY <1>1, <3>1, <3>5 DEF Noticed, OneToResume, NoticeHasToken, NoticeTries, Trying
        <4>3. Steady(d) /\ Noticed(d, resuming, leaving)
          BY <3>7, <4>1, <4>2, UnwantedKeepsGoing
        <4> QED BY <1>1, <3>3, <3>7, <4>3 DEF KeptGoing
      <3> QED BY <3>6, <3>7
    <2>2. CASE ~(conn.unanswered /\ ~late)
      <3>1. conn' = [conn EXCEPT !.unanswered = TRUE]
        BY <1>5, <2>2 DEF Heartbeat
      <3>2. Alike(conn, conn') /\ conn'.retry = conn.retry
        BY <1>1, <3>1 DEF Sound, ConnType, Alike
      <3> QED BY <1>1, <3>2, AlikeKeepsGoing
    <2> QED BY <2>1, <2>2
  <1> QED BY <1>3, <1>4, <1>5

LEMMA WorldKeepsGoing ==
  ASSUME KeptGoing, GoesDown \/ ComesUp \/ UNCHANGED vars \/ \E t \in Sessions : EndSession(t)
  PROVE  KeptGoing'
  <1>1. conn' = conn /\ UNCHANGED <<resuming, leaving>>
    BY DEF GoesDown, ComesUp, EndSession, vars, calls, goodbye
  <1> QED BY <1>1, AlikeKeepsGoing DEF Alike

\* A loaded page has nothing to carry on yet.
LEMMA InitIsGoing == Init => KeptGoing
  <1> SUFFICES ASSUME Init PROVE KeptGoing
    OBVIOUS
  <1>1. PICK t \in SessionOrNone :
          conn = (IF t = None THEN Loaded(None) ELSE Resume(Loaded(t), t)) /\ resuming = The(t)
    BY DEF Init
  <1>2. /\ ~conn.want /\ ~conn.server /\ conn.ws = None /\ ~conn.reconnect /\ ~conn.orphan
        /\ conn.waiting # "unreachable" /\ conn.retry = None
    BY <1>1, NoneIsNothing DEF Loaded, Resume
  <1>3. Steady(conn)
    BY <1>2 DEF Steady, KnownMember, HasToken, CarriedOn
  <1>4. Noticed(conn, resuming, leaving)
    BY <1>1, <1>2 DEF Noticed, OneToResume, NoticeHasToken, NoticeTries, NoticeConnects, The
  <1> QED BY <1>3, <1>4 DEF KeptGoing

LEMMA NextKeepsGoing ==
  ASSUME IInv, KeptGoing, [Next]_vars
  PROVE  KeptGoing'
  <1>1. CASE SessionNext
    BY <1>1, ReloadKeepsGoing, ResumedKeepsGoing, RetriesKeepGoing, SigningInKeepsGoing, ClaimingKeepsGoing,
       LeavingKeepsGoing DEF SessionNext
  <1>2. CASE SocketNext
    BY <1>2, TimersKeepGoing, SocketStepsKeepGoing, ClosingKeepsGoing DEF SocketNext
  <1>3. CASE WorldNext
    BY <1>3, WorldKeepsGoing, SocketStepsKeepGoing DEF WorldNext
  <1>4. CASE UNCHANGED vars
    BY <1>4, WorldKeepsGoing
  <1> QED BY <1>1, <1>2, <1>3, <1>4 DEF Next

\* Connection and notice are kept going whatever the user, the browser, the network and the server do.
THEOREM SpecKeptGoing == Spec => []KeptGoing
  <1>1. IInv /\ KeptGoing /\ [Next]_vars => KeptGoing'
    BY NextKeepsGoing
  <1> QED BY InitIsGoing, <1>1, SpecIInv, PTL DEF Spec

\* connect(), heartbeat(), onclose: a wanted connection of a client on screen is never left to itself.
THEOREM ConnectionIsCarriedOn == Spec => []NeverStranded
  <1>1. KeptGoing => NeverStranded
    BY DEF KeptGoing, Steady, CarriedOn, NeverStranded, InPhase
  <1> QED BY <1>1, SpecKeptGoing, PTL

\* retryLater(), retryNow(), close(): the notice always has a way out.
THEOREM NoticeHasAWayOut == Spec => []NoticeHasWayOut
  <1>1. KeptGoing => NoticeHasWayOut
    BY DEF KeptGoing, Noticed, NoticeTries, NoticeConnects, NoticeHasWayOut, NoticeGoesOn, NoticeShown, Trying
  <1> QED BY <1>1, SpecKeptGoing, PTL

-------------------------------------------------------------------------------
(* A sign-out that nothing overtakes.                                      *)

\* A connection object that knows of no session and has nothing to try.
Empty(c) == c.token = None /\ c.stored = None /\ c.ws = None /\ c.retry = None /\ ~c.server

\* Methods that do not touch what makes it so.
SameSession(c, d) == d.token = c.token /\ d.stored = c.stored /\ d.ws = c.ws /\ d.server = c.server

LEMMA RetryMethodsKeepSession ==
  ASSUME NEW c, Sound(c)
  PROVE  /\ SameSession(c, CancelRetry(c)) /\ CancelRetry(c).retry = None
         /\ SameSession(c, RetrySettled(c)) /\ RetrySettled(c).retry = None
  BY DEF SameSession, CancelRetry, RetrySettled, Sound, ConnType

LEMMA CloseKeepsEmpty ==
  ASSUME NEW c, Sound(c), Empty(c)
  PROVE  Empty(Close(c))
  BY CloseIsSound, CloseDoes DEF Empty, LetGo

\* clearSession() empties whatever there was.
LEMMA ClearSessionEmpties ==
  ASSUME NEW c, Sound(c)
  PROVE  Empty(ClearSession(c))
  <1> DEFINE d == Close(c)
             e == ClearSession(c)
  <1>1. Sound(d) /\ d.ws = None /\ d.retry = None
    BY CloseIsSound, CloseDoes DEF LetGo
  <1>2. e = [d EXCEPT !.token = None, !.stored = None, !.me = None, !.claim = FALSE,
                      !.waiting = None, !.server = FALSE, !.stray = d.stray \/ c.orphan]
    BY DEF ClearSession
  <1> HIDE DEF d, e
  <1>3. Empty(e)
    BY <1>1, <1>2 DEF Sound, ConnType, Empty
  <1> QED BY <1>3 DEF e

\* connect() without a token is a wish.
LEMMA ConnectKeepsEmpty ==
  ASSUME NEW c, Sound(c), Empty(c)
  PROVE  Empty(Connect(c))
  BY DEF Empty, Connect, Sound, ConnType

LEMMA EnterKeepsEmpty ==
  ASSUME NEW c, Sound(c), Empty(c), NEW t \in Sessions, NEW register \in BOOLEAN
  PROVE  Empty(Enter(c, t, register))
  <1>1. CASE register
    BY <1>1 DEF Enter, Empty, Sound, ConnType
  <1>2. CASE ~register
    <2> DEFINE d == [c EXCEPT !.me = t, !.claim = FALSE]
    <2>1. Sound(d) /\ Empty(d)
      BY DEF Sound, ConnType, SessionOrNone, Empty
    <2>2. Enter(c, t, register) = Connect(d)
      BY <1>2 DEF Enter
    <2> HIDE DEF d
    <2> QED BY <2>1, <2>2, ConnectKeepsEmpty
  <1> QED BY <1>1, <1>2

LEMMA SocketGoneKeepsEmpty ==
  ASSUME Sound(conn), Empty(conn), NEW s \in Sockets
  PROVE  Empty(SocketGone(s))
  BY DEF Empty, SocketGone, Sound, ConnType

\* Requests and buttons: none of them has a session to start with.
LEMMA SessionStepsKeepNobody ==
  ASSUME IInv, Nobody, SessionNext, ~\E t \in Sessions : Adopt(t)
  PROVE  Nobody'
  <1>1. Sound(conn) /\ Empty(conn) /\ resuming = {} /\ signing \notin Sessions
    BY DEF IInv, Nobody, Empty
  <1> SUFFICES Empty(conn') /\ resuming' = {} /\ signing' \notin Sessions
    BY DEF Nobody, Empty
  <1>2. CASE Reload
    BY <1>1, <1>2, NoneIsNothing DEF Reload, Empty, Loaded, The
  <1>3. CASE RetryNow
    BY <1>1, <1>3, RetryMethodsKeepSession DEF RetryNow, Retried, Empty, SameSession, The
  <1>4. CASE RetryByUser
    <2> DEFINE d == [conn EXCEPT !.left = TriesAfterUser, !.paused = FALSE]
    <2>1. Sound(d) /\ Empty(d)
      BY <1>1, TriesAreThere DEF Sound, ConnType, Empty
    <2>2. Retried(d) /\ signing' = signing
      BY <1>4 DEF RetryByUser
    <2> HIDE DEF d
    <2> QED BY <1>1, <2>1, <2>2, RetryMethodsKeepSession DEF Retried, Empty, SameSession, The
  <1>5. CASE Login
    BY <1>1, <1>5, ChallengeIsNoSession DEF Login
  <1>6. CASE LoginFailed
    BY <1>1, <1>6, NoneIsNothing DEF LoginFailed, Sound, ConnType, Empty
  <1>7. CASE Claimed
    BY <1>1, <1>7 DEF Claimed
  <1>8. CASE Leave
    BY <1>1, <1>8, CloseKeepsEmpty DEF Leave, calls
  <1>9. CASE Left \/ Logout
    BY <1>1, <1>9, ClearSessionEmpties DEF Left, Logout, calls
  <1>10. ASSUME NEW t \in Sessions, Refreshed(t) PROVE Empty(conn') /\ resuming' = {} /\ signing' \notin Sessions
    <2>1. (\E register \in BOOLEAN : conn' = Enter(conn, t, register)) \/ conn' = OnUnauthorized(conn) \/ conn' = conn
      BY <1>10 DEF Refreshed
    <2> QED BY <1>1, <1>10, <2>1, EnterKeepsEmpty, ClearSessionEmpties DEF OnUnauthorized, Refreshed
  <1>11. ASSUME NEW t \in Sessions, FarewellArrives(t) PROVE Empty(conn') /\ resuming' = {} /\ signing' \notin Sessions
    BY <1>1, <1>11 DEF FarewellArrives, calls
  <1>12. ASSUME NEW t \in Sessions
         PROVE  ~(ResumeOk(t) \/ ResumeSuspended(t) \/ ResumeRejected(t) \/ ResumeUnreachable(t)
                  \/ AdoptOk(t) \/ AdoptFailed(t))
    BY <1>1 DEF ResumeOk, ResumeSuspended, ResumeRejected, ResumeUnreachable, AdoptOk, AdoptFailed
  <1> QED BY <1>2, <1>3, <1>4, <1>5, <1>6, <1>7, <1>8, <1>9, <1>10, <1>11, <1>12 DEF SessionNext

\* Sockets that were let go of and timers that were forgotten: they find no token.
LEMMA SocketStepsKeepNobody ==
  ASSUME IInv, Nobody, SocketNext
  PROVE  Nobody'
  <1>1. Sound(conn) /\ Empty(conn) /\ resuming = {} /\ signing \notin Sessions
    BY DEF IInv, Nobody, Empty
  <1>2. ASSUME NEW s \in Sockets PROVE conn.sock[s].st \notin Delivering
    BY <1>1, NoneIsNothing DEF Sound, Empty
  <1>3. \A s \in Sockets : ~Opened(s) /\ ~Welcome(s) /\ ~Unauthorized(s) /\ ~Removed(s) /\ ~WrongVersion(s)
                           /\ ~Pong(s) /\ ~ClosedUnregistered(s) /\ ~ClosedSuspended(s)
    BY <1>2 DEF Opened, Welcome, Unauthorized, Removed, WrongVersion, Pong, ClosedUnregistered, ClosedSuspended,
       Heard, InPhase, Delivering
  <1>4. UNCHANGED <<resuming, signing>>
    BY <1>3 DEF SocketNext, Reconnect, ReconnectOrphan, Heartbeat, ClosedEnded, ClosedPlain, calls
  <1>5. ASSUME Reconnect \/ ReconnectOrphan PROVE Empty(conn')
    <2>1. PICK d \in {[conn EXCEPT !.reconnect = FALSE], [conn EXCEPT !.orphan = FALSE]} : conn' = Connect(d)
      BY <1>5 DEF Reconnect, ReconnectOrphan
    <2>2. Sound(d) /\ Empty(d)
      BY <1>1 DEF Sound, ConnType, Empty
    <2> QED BY <2>1, <2>2, ConnectKeepsEmpty
  <1>6. ASSUME NEW late \in BOOLEAN, Heartbeat(late) PROVE Empty(conn')
    <2> DEFINE e == [conn EXCEPT !.unanswered = FALSE]
               d == DropSocket(e)
    <2>1. Sound(e) /\ Empty(e)
      BY <1>1 DEF Sound, ConnType, Empty
    <2>2. d = e
      BY <1>1 DEF DropSocket, Sound, ConnType, Empty
    <2>3. conn' = Connect(d) \/ conn' = d \/ conn' = [conn EXCEPT !.unanswered = TRUE]
      BY <1>6 DEF Heartbeat
    <2>4. Empty([conn EXCEPT !.unanswered = TRUE])
      BY <1>1 DEF Sound, ConnType, Empty
    <2> HIDE DEF d, e
    <2> QED BY <2>1, <2>2, <2>3, <2>4, ConnectKeepsEmpty
  <1>7. ASSUME NEW s \in Sockets, ClosedEnded(s) PROVE Empty(conn')
    BY <1>1, <1>7, SocketGoneIsSound, SocketGoneKeepsEmpty, ClearSessionEmpties DEF ClosedEnded
  <1>8. ASSUME NEW s \in Sockets, ClosedPlain(s) PROVE Empty(conn')
    <2> DEFINE d == SocketGone(s)
    <2>1. Sound(d) /\ Empty(d)
      BY <1>1, SocketGoneIsSound, SocketGoneKeepsEmpty
    <2>2. conn' = d \/ conn' = [d EXCEPT !.reconnect = TRUE, !.orphan = d.orphan \/ conn.reconnect]
      BY <1>8 DEF ClosedPlain
    <2> HIDE DEF d
    <2> QED BY <2>1, <2>2 DEF Sound, ConnType, Empty
  <1>9. Empty(conn')
    BY <1>3, <1>5, <1>6, <1>7, <1>8 DEF SocketNext
  <1> QED BY <1>1, <1>4, <1>9 DEF Nobody, Empty

\* A sign-out is final unless a request about a session is under way: of the claim that whoever signs out
\* stays out (SignedOutStaysOut) this is the part that holds, for any number of sessions and sockets.
THEOREM QuietSignOutIsFinal == Spec => SignOutIsFinal
  <1> DEFINE Final == /\ (Left \/ Logout) /\ resuming = {} /\ signing \notin Sessions => Nobody'
                      /\ Nobody => Nobody' \/ \E t \in Sessions : Adopt(t)
  <1>1. ASSUME IInv, Left \/ Logout, resuming = {}, signing \notin Sessions PROVE Nobody'
    <2>1. Empty(conn') /\ UNCHANGED <<resuming, signing>>
      BY <1>1, ClearSessionEmpties DEF IInv, Left, Logout, calls
    <2> QED BY <1>1, <2>1 DEF Nobody, Empty
  <1>2. ASSUME IInv, Nobody, WorldNext PROVE Nobody'
    <2>1. \A s \in Sockets : ~Vanishes(s)
      BY <1>2, NoneIsNothing DEF Vanishes, Nobody
    <2>2. UNCHANGED <<conn, resuming, signing>>
      BY <1>2, <2>1 DEF WorldNext, GoesDown, ComesUp, EndSession, calls
    <2> QED BY <1>2, <2>2 DEF Nobody
  <1>3. IInv /\ [Next]_vars => [Final]_vars
    BY <1>1, <1>2, SessionStepsKeepNobody, SocketStepsKeepNobody DEF Next
  <1>4. Spec => [][Final]_vars
    BY <1>3, SpecIInv, PTL DEF Spec
  <1> QED BY <1>4 DEF SignOutIsFinal
===============================================================================
