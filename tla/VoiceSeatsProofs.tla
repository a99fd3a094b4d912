--------------------------- MODULE VoiceSeatsProofs ---------------------------
(***************************************************************************)
(* The invariants of VoiceSeats hold for all sets of connections, handlers *)
(* under way, users and channels.  RestoredAlone and ListsKnow are         *)
(* inductive once the jobs are known to act for their connection's owner;  *)
(* for the hold a job also has to remember what its verdict was about.     *)
(***************************************************************************)
EXTENDS VoiceSeats, TLAPS

\* A handler of a connection acts for the user behind it, in a channel it has looked up.
ForItsOwner(n) ==
  /\ n.pc \in {"rooms", "mayStay", "verdict", "user", "others"} => n.conn \in Conns /\ OwnerOf[n.conn] = n.user
  /\ n.pc \in {"mayStay", "verdict", "user", "others", "hold", "persist"} => n.ch \in Channels

\* As long as nobody wrote the hold since a join began, the snapshot says what the row says,
\* and what the verdict said still stands.
StandsBy(n, rows, seen) ==
  /\ n.steady /\ n.pc \in {"verdict", "user", "others"} => rows[n.user] = seen[n.user]
  /\ n.steady /\ n.pc \in {"user", "others"} => n.granted \/ rows[n.user] \in {None, n.ch}

Sound(n, rows, seen) == ForItsOwner(n) /\ StandsBy(n, rows, seen)

JobsSound == \A j \in Jobs : job[j] # None => Sound(job[j], hold, snap)

IInv == TypeOK /\ RestoredAlone /\ ListsKnow /\ JobsSound

-------------------------------------------------------------------------------
(* The book of seats.                                                      *)

\* A channel that no difference of two books touches has the same members in both.
LEMMA SameMembers ==
  ASSUME NEW A, NEW B, NEW ch,
         \A c \in Conns : (A[c] # None /\ A[c].ch = ch) <=> (B[c] # None /\ B[c].ch = ch)
  PROVE  Members(A, ch) = Members(B, ch)
  BY DEF Members, Mine

\* Whoever leaves: the book, and what the listeners know of it, stay right.
LEMMA LeaveSound ==
  ASSUME IInv, NEW C \in SUBSET Conns, Leave(C)
  PROVE  /\ seat' \in [Conns -> Seat \cup {None}] /\ told' \in [Channels -> SUBSET Users]
         /\ RestoredAlone' /\ ListsKnow'
  <1>1. seat' \in [Conns -> Seat \cup {None}]
    BY DEF IInv, TypeOK, Leave, Without
  <1>2. told' \in [Channels -> SUBSET Users]
    BY DEF IInv, TypeOK, Leave, Emit, Members
  <1>3. RestoredAlone'
    BY DEF IInv, RestoredAlone, Leave, Without
  <1>4. ListsKnow'
    <2> SUFFICES ASSUME NEW ch \in Channels PROVE told'[ch] = Members(seat', ch)
      BY DEF ListsKnow
    <2>1. CASE ch \in ChannelsOf(C)
      BY <2>1 DEF Leave, Emit
    <2>2. CASE ch \notin ChannelsOf(C)
      <3>1. \A c \in Conns : (seat'[c] # None /\ seat'[c].ch = ch) <=> (seat[c] # None /\ seat[c].ch = ch)
        BY <2>2 DEF Leave, Without, ChannelsOf
      <3>2. Members(seat', ch) = Members(seat, ch)
        BY <3>1, SameMembers
      <3> QED BY <2>2, <3>2 DEF Leave, Emit, IInv, ListsKnow
    <2> QED BY <2>1, <2>2
  <1> QED BY <1>1, <1>2, <1>3, <1>4

\* Whoever sits down: a guess has to be alone with its user, and no other guess may be left beside it.
LEMMA SitDownSound ==
  ASSUME IInv, NEW c \in Conns, NEW ch \in Channels, NEW C \in SUBSET Conns,
         NEW guess \in BOOLEAN, SitDown(c, ch, C, guess),
         \A d \in Conns \ C : d # c /\ OwnerOf[d] = OwnerOf[c] /\ seat[d] # None => ~guess /\ ~seat[d].restored
  PROVE  /\ seat' \in [Conns -> Seat \cup {None}] /\ told' \in [Channels -> SUBSET Users]
         /\ RestoredAlone' /\ ListsKnow'
  <1> DEFINE entry == [ch |-> ch, restored |-> guess]
  <1>1. seat' = [d \in Conns |-> IF d = c THEN entry ELSE IF d \in C THEN None ELSE seat[d]]
    BY DEF SitDown, Without
  <1>2. entry \in Seat /\ entry # None
    BY NoneIsNothing DEF Seat
  <1>3. seat' \in [Conns -> Seat \cup {None}]
    BY <1>1, <1>2 DEF IInv, TypeOK
  <1>4. told' \in [Channels -> SUBSET Users]
    BY DEF IInv, TypeOK, SitDown, Emit, Members
  <1>5. RestoredAlone'
    <2> SUFFICES ASSUME NEW a \in Conns, NEW b \in Conns, a # b, OwnerOf[a] = OwnerOf[b],
                        seat'[a] # None, seat'[a].restored
                 PROVE  seat'[b] = None
      BY DEF RestoredAlone
    <2>1. CASE a = c
      BY <1>1, <1>2, <2>1
    <2>2. CASE b = c
      BY <1>1, <1>2, <2>2
    <2>3. CASE a # c /\ b # c
      BY <1>1, <2>3 DEF IInv, RestoredAlone
    <2> QED BY <2>1, <2>2, <2>3
  <1>6. ListsKnow'
    <2> DEFINE chs == ChannelsOf(C \cup {c}) \cup {ch}
    <2> SUFFICES ASSUME NEW k \in Channels PROVE told'[k] = Members(seat', k)
      BY DEF ListsKnow
    <2>1. CASE k \in chs
      BY <2>1 DEF SitDown, Emit
    <2>2. CASE k \notin chs
      <3>0. entry.ch = ch
        OBVIOUS
      <3>1. \A d \in Conns : (seat'[d] # None /\ seat'[d].ch = k) <=> (seat[d] # None /\ seat[d].ch = k)
        BY <1>1, <2>2, <3>0 DEF ChannelsOf
      <3>2. Members(seat', k) = Members(seat, k)
        BY <3>1, SameMembers
      <3> QED BY <2>2, <3>2 DEF SitDown, Emit, IInv, ListsKnow
    <2> QED BY <2>1, <2>2
  <1> QED BY <1>3, <1>4, <1>5, <1>6

\* Nothing about the seats is disturbed where the book and its listeners are left alone.
LEMMA SeatsAlone ==
  ASSUME IInv, UNCHANGED <<seat, told>>
  PROVE  /\ seat' \in [Conns -> Seat \cup {None}] /\ told' \in [Channels -> SUBSET Users]
         /\ RestoredAlone' /\ ListsKnow'
  BY DEF IInv, TypeOK, RestoredAlone, ListsKnow, Members, Mine

-------------------------------------------------------------------------------
(* The jobs.                                                               *)

\* One job changes into a sound one or ends, the rows and the snapshot stay: all jobs are sound.
LEMMA OneJob ==
  ASSUME IInv, NEW j \in Jobs, NEW n \in Job \cup {None}, job' = [job EXCEPT ![j] = n],
         n # None => Sound(n, hold, snap), UNCHANGED <<hold, snap>>
  PROVE  job' \in [Jobs -> Job \cup {None}] /\ JobsSound'
  BY DEF IInv, TypeOK, JobsSound

LEMMA JobsAlone ==
  ASSUME IInv, UNCHANGED <<job, hold, snap>>
  PROVE  job' \in [Jobs -> Job \cup {None}] /\ JobsSound'
  BY DEF IInv, TypeOK, JobsSound

LEMMA DoneSound ==
  ASSUME IInv, NEW j \in Jobs, Done(j), UNCHANGED <<hold, snap>>
  PROVE  job' \in [Jobs -> Job \cup {None}] /\ JobsSound'
  BY OneJob DEF Done

\* Jobs that do not come from a connection, and the steps after the seat, carry no verdict.
Free == {"hold", "write", "announce", "release", "persist", "moving", "moved"}

LEMMA GotoFree ==
  ASSUME IInv, NEW j \in Jobs, job[j] # None, NEW pc \in Free, NEW ch \in Channels \cup {None},
         pc \in {"hold", "persist"} => ch \in Channels,
         Goto(j, pc, ch), UNCHANGED <<hold, snap>>
  PROVE  job' \in [Jobs -> Job \cup {None}] /\ JobsSound'
  <1> DEFINE n == [job[j] EXCEPT !.pc = pc, !.ch = ch, !.granted = FALSE, !.others = {}, !.steady = FALSE]
  <1>1. job[j] \in Job
    BY DEF IInv, TypeOK
  <1>2. n \in Job /\ n.pc = pc /\ n.ch = ch
    BY <1>1 DEF Job, PCs, Free
  <1>3. job' = [job EXCEPT ![j] = n]
    BY DEF Goto, IInv, TypeOK
  <1>4. Sound(n, hold, snap)
    BY <1>2 DEF Sound, ForItsOwner, StandsBy, Free
  <1> HIDE DEF n
  <1> QED BY <1>2, <1>3, <1>4, OneJob

LEMMA StartSound ==
  ASSUME IInv, NEW j \in Jobs, NEW pc \in PCs, NEW u \in Users, NEW c \in Conns \cup {None},
         NEW ch \in Channels \cup {None},
         pc \in {"rooms", "verdict", "release", "moving"},
         pc \in {"rooms", "verdict"} => c \in Conns /\ OwnerOf[c] = u,
         pc = "verdict" => ch \in Channels,
         Start(j, pc, u, c, ch), UNCHANGED <<hold, snap>>
  PROVE  job' \in [Jobs -> Job \cup {None}] /\ JobsSound'
  <1> DEFINE n == New(pc, u, c, ch)
  <1>1. n \in Job
    BY DEF New, Job
  <1>2. n.pc = pc /\ n.user = u /\ n.conn = c /\ n.ch = ch /\ (n.steady => hold[u] = snap[u])
    BY DEF New
  <1>3. Sound(n, hold, snap)
    BY <1>2 DEF Sound, ForItsOwner, StandsBy
  <1>4. job' = [job EXCEPT ![j] = n]
    BY DEF Start
  <1> HIDE DEF n
  <1> QED BY <1>1, <1>3, <1>4, OneJob

LEMMA Owners == ASSUME NEW c \in Conns PROVE OwnerOf[c] \in Users
  BY ConnsHaveOwners

LEMMA MineAreConns == ASSUME NEW u PROVE Mine(u) \in SUBSET Conns
  BY DEF Mine

-------------------------------------------------------------------------------
(* One lemma per action.                                                   *)

\* What the two parts above leave of the invariant: the types of the other variables.
Rest ==
  /\ sock \in [Conns -> {"none", "open", "gone"}]
  /\ grant \in [Users -> Channels \cup {None}]
  /\ hold \in [Users -> Channels \cup {None}]
  /\ snap \in [Users -> Channels \cup {None}]
  /\ room \in [Users -> Channels \cup {None}]
  /\ asked \subseteq Conns \X Channels

LEMMA Together ==
  ASSUME Rest',
         seat' \in [Conns -> Seat \cup {None}] /\ told' \in [Channels -> SUBSET Users]
           /\ RestoredAlone' /\ ListsKnow',
         job' \in [Jobs -> Job \cup {None}] /\ JobsSound'
  PROVE  IInv'
  BY DEF IInv, TypeOK, Rest

LEMMA JobTyped ==
  ASSUME IInv, NEW j \in Jobs, job[j] # None
  PROVE  /\ job[j] \in Job /\ job[j].user \in Users /\ job[j].ch \in Channels \cup {None}
         /\ job[j].granted \in BOOLEAN /\ job[j].others \in SUBSET Conns
         /\ Sound(job[j], hold, snap)
  BY DEF IInv, TypeOK, Job, JobsSound

LEMMA ConnectKeeps ==
  ASSUME IInv, NEW j \in Jobs, NEW c \in Conns, Connect(j, c)
  PROVE  IInv'
  <1>1. Rest'
    BY DEF IInv, TypeOK, Rest, Connect
  <1>2. "rooms" \in PCs
    BY DEF PCs
  <1>3. job' \in [Jobs -> Job \cup {None}] /\ JobsSound'
    BY <1>2, StartSound, Owners DEF Connect
  <1> QED BY <1>1, <1>3, SeatsAlone, Together DEF Connect

LEMMA RestoreAskKeeps ==
  ASSUME IInv, NEW j \in Jobs, RestoreAsk(j)
  PROVE  IInv'
  <1>1. Rest'
    BY DEF IInv, TypeOK, Rest, RestoreAsk
  <1>2. job' \in [Jobs -> Job \cup {None}] /\ JobsSound'
    <2>1. CASE Done(j)
      BY <2>1, DoneSound DEF RestoreAsk
    <2>2. CASE room[job[j].user] # None /\ Goto(j, "mayStay", room[job[j].user])
      <3> DEFINE ch == room[job[j].user]
                 n == [job[j] EXCEPT !.pc = "mayStay", !.ch = ch, !.granted = FALSE, !.others = {}, !.steady = FALSE]
      <3>1. job[j] # None /\ job[j].pc = "rooms"
        BY DEF RestoreAsk, At
      <3>2. job[j] \in Job /\ Sound(job[j], hold, snap) /\ ch \in Channels
        BY <2>2, <3>1, JobTyped DEF IInv, TypeOK
      <3>3. n \in Job /\ n.pc = "mayStay" /\ n.ch = ch /\ n.conn = job[j].conn /\ n.user = job[j].user
        BY <3>2 DEF Job, PCs
      <3>4. job' = [job EXCEPT ![j] = n]
        BY <2>2 DEF Goto, IInv, TypeOK
      <3>5. Sound(n, hold, snap)
        BY <3>1, <3>2, <3>3 DEF Sound, ForItsOwner, StandsBy
      <3> HIDE DEF n
      <3> QED BY <3>3, <3>4, <3>5, OneJob DEF RestoreAsk
    <2> QED BY <2>1, <2>2 DEF RestoreAsk
  <1> QED BY <1>1, <1>2, SeatsAlone, Together DEF RestoreAsk

LEMMA RestoreKeeps ==
  ASSUME IInv, NEW j \in Jobs, Restore(j)
  PROVE  IInv'
  <1>1. Rest'
    BY DEF IInv, TypeOK, Rest, Restore
  <1>2. CASE Done(j) /\ UNCHANGED <<seat, told>>
    BY <1>1, <1>2, SeatsAlone, DoneSound, Together DEF Restore
  <1>3. CASE /\ ~Seated(seat, job[j].user)
             /\ SitDown(job[j].conn, job[j].ch, {}, TRUE)
             /\ Goto(j, "hold", job[j].ch)
    <2>1. job[j] # None /\ job[j].pc = "mayStay"
      BY DEF Restore, At
    <2>2. job[j].conn \in Conns /\ OwnerOf[job[j].conn] = job[j].user /\ job[j].ch \in Channels
      BY <2>1, JobTyped DEF Sound, ForItsOwner
    <2>3. \A d \in Conns : OwnerOf[d] = OwnerOf[job[j].conn] => seat[d] = None
      BY <1>3, <2>2 DEF Seated, Mine
    <2>4. /\ seat' \in [Conns -> Seat \cup {None}] /\ told' \in [Channels -> SUBSET Users]
          /\ RestoredAlone' /\ ListsKnow'
      BY <1>3, <2>2, <2>3, SitDownSound
    <2>5. job' \in [Jobs -> Job \cup {None}] /\ JobsSound'
      BY <1>3, <2>1, <2>2, GotoFree DEF Restore, Free
    <2> QED BY <1>1, <2>4, <2>5, Together
  <1> QED BY <1>2, <1>3 DEF Restore

LEMMA JoinAskKeeps ==
  ASSUME IInv, NEW j \in Jobs, NEW c \in Conns, NEW ch \in Channels, JoinAsk(j, c, ch)
  PROVE  IInv'
  <1>1. Rest'
    BY DEF IInv, TypeOK, Rest, JoinAsk
  <1>2. "verdict" \in PCs
    BY DEF PCs
  <1>3. job' \in [Jobs -> Job \cup {None}] /\ JobsSound'
    BY <1>2, StartSound, Owners DEF JoinAsk
  <1> QED BY <1>1, <1>3, SeatsAlone, Together DEF JoinAsk

LEMMA JoinRefusedKeeps ==
  ASSUME IInv, NEW j \in Jobs, JoinRefused(j)
  PROVE  IInv'
  <1>1. Rest'
    BY DEF IInv, TypeOK, Rest, JoinRefused
  <1> QED BY <1>1, DoneSound, SeatsAlone, Together DEF JoinRefused

\* The verdict is about the snapshot; while nobody has written the hold that is the row.
LEMMA JoinVerdictKeeps ==
  ASSUME IInv, NEW j \in Jobs, JoinVerdict(j)
  PROVE  IInv'
  <1> DEFINE u == job[j].user
             granted == grant[u] = job[j].ch
             n == [job[j] EXCEPT !.pc = "user", !.granted = granted]
  <1>1. Rest'
    BY DEF IInv, TypeOK, Rest, JoinVerdict
  <1>2. job' \in [Jobs -> Job \cup {None}] /\ JobsSound'
    <2>1. CASE Done(j)
      BY <2>1, DoneSound DEF JoinVerdict
    <2>2. CASE /\ snap[u] \in {None, job[j].ch} \/ granted
               /\ job' = [job EXCEPT ![j].pc = "user", ![j].granted = granted]
      <3>1. job[j] # None /\ job[j].pc = "verdict"
        BY DEF JoinVerdict, At
      <3>2. job[j] \in Job /\ Sound(job[j], hold, snap)
        BY <3>1, JobTyped
      <3>3. /\ n \in Job /\ n.pc = "user" /\ n.granted = granted /\ n.ch = job[j].ch
            /\ n.conn = job[j].conn /\ n.user = u /\ n.steady = job[j].steady
        BY <3>2 DEF Job, PCs
      <3>4. job' = [job EXCEPT ![j] = n]
        BY <2>2 DEF IInv, TypeOK
      <3>5. Sound(n, hold, snap)
        BY <2>2, <3>1, <3>2, <3>3 DEF Sound, ForItsOwner, StandsBy
      <3> HIDE DEF n
      <3> QED BY <3>3, <3>4, <3>5, OneJob DEF JoinVerdict
    <2> QED BY <2>1, <2>2 DEF JoinVerdict
  <1> QED BY <1>1, <1>2, SeatsAlone, Together DEF JoinVerdict

\* The seat itself: guesses beside it go in the same step.
LEMMA TakeSeatKeeps ==
  ASSUME IInv, NEW j \in Jobs, job[j] # None, job[j].pc \in {"user", "others"}, NEW C \in SUBSET Conns,
         TakeSeat(j, C), UNCHANGED <<sock, hold, snap, room, asked>>
  PROVE  IInv'
  <1> DEFINE u == job[j].user
             c == job[j].conn
  <1>1. Rest'
    BY DEF IInv, TypeOK, Rest, TakeSeat
  <1>2. c \in Conns /\ OwnerOf[c] = u /\ job[j].ch \in Channels /\ job[j].granted \in BOOLEAN
    BY JobTyped DEF Sound, ForItsOwner
  <1>3. C \cup Guessed(u, c) \in SUBSET Conns
    BY DEF Guessed, Mine
  <1>4. \A d \in Conns \ (C \cup Guessed(u, c)) :
          d # c /\ OwnerOf[d] = OwnerOf[c] /\ seat[d] # None => ~seat[d].restored
    BY <1>2 DEF Guessed, Mine
  <1>5. SitDown(c, job[j].ch, C \cup Guessed(u, c), FALSE)
    BY DEF TakeSeat
  <1>6. /\ seat' \in [Conns -> Seat \cup {None}] /\ told' \in [Channels -> SUBSET Users]
        /\ RestoredAlone' /\ ListsKnow'
    <2>1. PICK D \in SUBSET Conns : D = C \cup Guessed(u, c)
      BY <1>3
    <2>2. SitDown(c, job[j].ch, D, FALSE)
      BY <1>5, <2>1
    <2>3. \A d \in Conns \ D : d # c /\ OwnerOf[d] = OwnerOf[c] /\ seat[d] # None => ~FALSE /\ ~seat[d].restored
      BY <1>4, <2>1
    <2> QED BY <1>2, <2>2, <2>3, SitDownSound
  <1>7. job' \in [Jobs -> Job \cup {None}] /\ JobsSound'
    BY <1>2, GotoFree DEF TakeSeat, Free
  <1> QED BY <1>1, <1>6, <1>7, Together

LEMMA JoinSeatKeeps ==
  ASSUME IInv, NEW j \in Jobs, JoinSeat(j)
  PROVE  IInv'
  <1>1. job[j] # None /\ job[j].pc = "user"
    BY DEF JoinSeat, At
  <1>2. CASE Others(j) = {}
    BY <1>1, <1>2, TakeSeatKeeps DEF JoinSeat
  <1>3. CASE Others(j) # {}
    <2> DEFINE n == [job[j] EXCEPT !.pc = "others", !.others = Others(j)]
    <2>1. Rest'
      BY <1>3 DEF IInv, TypeOK, Rest, JoinSeat
    <2>2. job[j] \in Job /\ Sound(job[j], hold, snap) /\ Others(j) \in SUBSET Conns
      BY <1>1, JobTyped DEF Others, Mine
    <2>3. /\ n \in Job /\ n.pc = "others" /\ n.granted = job[j].granted /\ n.ch = job[j].ch
          /\ n.conn = job[j].conn /\ n.user = job[j].user /\ n.steady = job[j].steady
      BY <2>2 DEF Job, PCs
    <2>4. job' = [job EXCEPT ![j] = n]
      BY <1>3 DEF JoinSeat, IInv, TypeOK
    <2>5. Sound(n, hold, snap)
      BY <1>1, <2>2, <2>3 DEF Sound, ForItsOwner, StandsBy
    <2>6. job' \in [Jobs -> Job \cup {None}] /\ JobsSound'
      <3> HIDE DEF n
      <3> QED BY <2>3, <2>4, <2>5, OneJob DEF JoinSeat
    <2> QED BY <1>3, <2>1, <2>6, SeatsAlone, Together DEF JoinSeat
  <1> QED BY <1>2, <1>3

LEMMA JoinTakeOverKeeps ==
  ASSUME IInv, NEW j \in Jobs, JoinTakeOver(j)
  PROVE  IInv'
  <1>1. job[j] # None /\ job[j].pc = "others"
    BY DEF JoinTakeOver, At
  <1>2. job[j].others \in SUBSET Conns
    BY <1>1, JobTyped
  <1> QED BY <1>1, <1>2, TakeSeatKeeps DEF JoinTakeOver

LEMMA HoldOnJoinKeeps ==
  ASSUME IInv, NEW j \in Jobs, HoldOnJoin(j)
  PROVE  IInv'
  <1>1. Rest'
    BY DEF IInv, TypeOK, Rest, HoldOnJoin
  <1>2. job[j] # None /\ job[j].ch \in Channels \cup {None}
    BY JobTyped DEF HoldOnJoin, At
  <1>3. job' \in [Jobs -> Job \cup {None}] /\ JobsSound'
    BY <1>2, DoneSound, GotoFree DEF HoldOnJoin, Free
  <1> QED BY <1>1, <1>3, SeatsAlone, Together DEF HoldOnJoin

\* The row changes: every other job of the user has to read it anew before it counts as steady.
LEMMA WriteHoldKeeps ==
  ASSUME IInv, NEW j \in Jobs, WriteHold(j)
  PROVE  IInv'
  <1> DEFINE u == job[j].user
             mine == [job[j] EXCEPT !.pc = "announce"]
  <1>1. job[j] # None /\ job[j] \in Job /\ u \in Users /\ job[j].ch \in Channels \cup {None}
    BY JobTyped DEF WriteHold, At
  <1>2. Rest'
    BY <1>1 DEF IInv, TypeOK, Rest, WriteHold
  <1>3. mine \in Job /\ mine.pc = "announce"
    BY <1>1 DEF Job, PCs
  <1>4. \A i \in Jobs : job[i] # None => job[i] \in Job /\ Sound(job[i], hold, snap)
    BY JobTyped
  <1>5. \A i \in Jobs : job[i] # None =>
          LET n == [job[i] EXCEPT !.steady = FALSE] IN
            /\ n \in Job /\ n.steady = FALSE /\ n.pc = job[i].pc /\ n.user = job[i].user
            /\ n.conn = job[i].conn /\ n.ch = job[i].ch
    BY <1>4 DEF Job
  <1>6. \A i \in Jobs : job'[i] \in Job \cup {None}
    <2> SUFFICES ASSUME NEW i \in Jobs PROVE job'[i] \in Job \cup {None}
      OBVIOUS
    <2>1. CASE i = j
      BY <1>3, <2>1 DEF WriteHold
    <2>2. CASE i # j
      <3>1. job[i] \in Job \cup {None}
        BY DEF IInv, TypeOK
      <3> QED BY <1>5, <2>2, <3>1 DEF WriteHold
    <2> QED BY <2>1, <2>2
  <1>7. job' \in [Jobs -> Job \cup {None}]
    BY <1>6 DEF WriteHold
  <1>8. JobsSound'
    <2> SUFFICES ASSUME NEW i \in Jobs, job'[i] # None PROVE Sound(job'[i], hold', snap')
      BY DEF JobsSound
    <2>1. CASE i = j
      BY <1>3, <2>1 DEF WriteHold, Sound, ForItsOwner, StandsBy
    <2>2. CASE i # j /\ job[i] # None /\ job[i].user = u
      BY <1>4, <1>5, <2>2 DEF WriteHold, Sound, ForItsOwner, StandsBy
    <2>3. CASE i # j /\ ~(job[i] # None /\ job[i].user = u)
      <3>1. job'[i] = job[i] /\ snap' = snap /\ job[i].user # u
        BY <2>3 DEF WriteHold
      <3>2. job[i].user \in Users
        BY <3>1, JobTyped
      <3>3. hold'[job[i].user] = hold[job[i].user]
        BY <1>1, <3>1, <3>2 DEF WriteHold, IInv, TypeOK
      <3> QED BY <1>4, <3>1, <3>3 DEF Sound, ForItsOwner, StandsBy
    <2> QED BY <2>1, <2>2, <2>3
  <1> QED BY <1>2, <1>7, <1>8, SeatsAlone, Together DEF WriteHold

\* The snapshot becomes what the rows say: what was the same stays the same.
LEMMA SnapshotKeeps ==
  ASSUME IInv, NEW j \in Jobs, Announce(j)
  PROVE  IInv'
  <1>1. Rest'
    BY DEF IInv, TypeOK, Rest, Announce
  <1>2. job' \in [Jobs -> Job \cup {None}]
    BY DEF IInv, TypeOK, Announce, Done
  <1>3. \A i \in Jobs : job'[i] # None => job'[i] = job[i]
    BY DEF IInv, TypeOK, Announce, Done
  <1>4. hold' = hold /\ snap' = hold
    BY DEF Announce
  <1>5. JobsSound'
    BY <1>3, <1>4 DEF IInv, JobsSound, Sound, ForItsOwner, StandsBy
  <1> QED BY <1>1, <1>2, <1>5, SeatsAlone, Together DEF Announce

LEMMA GiveUpSound ==
  ASSUME IInv, NEW j \in Jobs, NEW u \in Users, NEW C \in SUBSET Conns, GiveUp(j, u, C),
         UNCHANGED <<hold, snap>>
  PROVE  /\ seat' \in [Conns -> Seat \cup {None}] /\ told' \in [Channels -> SUBSET Users]
           /\ RestoredAlone' /\ ListsKnow'
         /\ job' \in [Jobs -> Job \cup {None}] /\ JobsSound'
  <1>1. /\ seat' \in [Conns -> Seat \cup {None}] /\ told' \in [Channels -> SUBSET Users]
        /\ RestoredAlone' /\ ListsKnow'
    BY LeaveSound DEF GiveUp
  <1>2. "release" \in PCs
    BY DEF PCs
  <1>3. CASE Start(j, "release", u, None, None)
    BY <1>1, <1>2, <1>3, StartSound
  <1>4. CASE UNCHANGED job
    BY <1>1, <1>4, JobsAlone
  <1> QED BY <1>3, <1>4 DEF GiveUp

LEMMA VoiceLeaveKeeps ==
  ASSUME IInv, NEW j \in Jobs, NEW c \in Conns, VoiceLeave(j, c)
  PROVE  IInv'
  <1>1. Rest'
    BY DEF IInv, TypeOK, Rest, VoiceLeave
  <1> DEFINE C == Guessed(OwnerOf[c], c) \cup {c}
  <1>2. C \in SUBSET Conns /\ GiveUp(j, OwnerOf[c], C)
    BY DEF VoiceLeave, Guessed, Mine
  <1> HIDE DEF C
  <1> QED BY <1>1, <1>2, GiveUpSound, Owners, Together DEF VoiceLeave

LEMMA CloseKeeps ==
  ASSUME IInv, NEW j \in Jobs, NEW c \in Conns, Close(j, c)
  PROVE  IInv'
  <1>1. Rest'
    BY DEF IInv, TypeOK, Rest, Close
  <1>2. CASE UNCHANGED <<seat, told, job>>
    BY <1>1, <1>2, SeatsAlone, JobsAlone, Together DEF Close
  <1>3. CASE GiveUp(j, OwnerOf[c], {c})
    BY <1>1, <1>3, GiveUpSound, Owners, Together DEF Close
  <1> QED BY <1>2, <1>3 DEF Close

LEMMA ReleaseKeeps ==
  ASSUME IInv, NEW j \in Jobs, Release(j) \/ ReleaseUnlessPersist(j)
  PROVE  IInv'
  <1>1. Rest'
    BY DEF IInv, TypeOK, Rest, Release, ReleaseUnlessPersist
  <1>2. job[j] # None
    BY DEF Release, ReleaseUnlessPersist, At
  <1>3. snap[job[j].user] \in Channels \cup {None}
    BY <1>2, JobTyped DEF IInv, TypeOK
  <1>4. UNCHANGED <<hold, snap>> /\ UNCHANGED <<seat, told>>
    BY DEF Release, ReleaseUnlessPersist
  <1>5. CASE Done(j)
    BY <1>1, <1>4, <1>5, DoneSound, SeatsAlone, Together
  <1>6. CASE snap[job[j].user] # None /\ Goto(j, "persist", snap[job[j].user])
    BY <1>1, <1>2, <1>3, <1>4, <1>6, GotoFree, SeatsAlone, Together DEF Free
  <1>7. CASE Goto(j, "write", None)
    BY <1>1, <1>2, <1>4, <1>7, GotoFree, SeatsAlone, Together DEF Free
  <1> QED BY <1>5, <1>6, <1>7 DEF Release, ReleaseUnlessPersist

LEMMA BlockKeeps ==
  ASSUME IInv, NEW j \in Jobs, NEW u \in Users, NEW ch \in Channels, Block(j, u, ch)
  PROVE  IInv'
  <1>1. Rest'
    BY DEF IInv, TypeOK, Rest, Block
  <1>2. CASE UNCHANGED <<seat, told, job>>
    BY <1>1, <1>2, SeatsAlone, JobsAlone, Together DEF Block
  <1>3. CASE GiveUp(j, u, Mine(u))
    BY <1>1, <1>3, GiveUpSound, MineAreConns, Together DEF Block
  <1> QED BY <1>2, <1>3 DEF Block

LEMMA VoteKickedKeeps ==
  ASSUME IInv, NEW j \in Jobs, NEW u \in Users, VoteKicked(j, u)
  PROVE  IInv'
  <1>1. Rest'
    BY DEF IInv, TypeOK, Rest, VoteKicked
  <1> QED BY <1>1, GiveUpSound, MineAreConns, Together DEF VoteKicked

LEMMA EvictKeeps ==
  ASSUME IInv, NEW u \in Users, Evict(u)
  PROVE  IInv'
  <1>1. Rest'
    BY DEF IInv, TypeOK, Rest, Evict
  <1> QED BY <1>1, LeaveSound, MineAreConns, JobsAlone, Together DEF Evict

LEMMA MoveKeeps ==
  ASSUME IInv, NEW j \in Jobs, NEW u \in Users, NEW to \in Channels \cup {None}, Move(j, u, to)
  PROVE  IInv'
  <1>1. Rest'
    BY DEF IInv, TypeOK, Rest, Move
  <1>2. "moving" \in PCs
    BY DEF PCs
  <1> QED BY <1>1, <1>2, StartSound, SeatsAlone, Together DEF Move

LEMMA MoveGoesOn ==
  ASSUME IInv, NEW j \in Jobs, MoveGrant(j) \/ MoveFrees(j)
  PROVE  IInv'
  <1>1. job[j] # None /\ UNCHANGED <<hold, snap>> /\ UNCHANGED <<seat, told>>
    BY DEF MoveGrant, MoveFrees, At
  <1>2. Rest'
    BY <1>1, JobTyped DEF IInv, TypeOK, Rest, MoveGrant, MoveFrees
  <1>3. CASE Done(j)
    BY <1>1, <1>2, <1>3, DoneSound, SeatsAlone, Together
  <1>4. CASE Goto(j, "moved", None) \/ Goto(j, "write", None)
    BY <1>1, <1>2, <1>4, GotoFree, SeatsAlone, Together DEF Free
  <1> QED BY <1>3, <1>4 DEF MoveGrant, MoveFrees

\* LiveKit, the AFK mover, and a grant that ran out.
LEMMA OutsideKeeps ==
  ASSUME IInv,
         \/ \E u \in Users : GrantExpires(u)
         \/ \E u \in Users, to \in Channels : AfkMove(u, to)
         \/ \E u \in Users, r \in Channels \cup {None} : Media(u, r)
         \/ HeartbeatAsk \/ HeartbeatFails
  PROVE  IInv'
  <1>1. UNCHANGED <<seat, told>> /\ UNCHANGED <<job, hold, snap>>
    BY DEF GrantExpires, AfkMove, Media, HeartbeatAsk, HeartbeatFails
  <1>2. \A c \in Conns : seat[c] # None => seat[c].ch \in Channels
    BY DEF IInv, TypeOK, Seat
  <1>3. {<<c, seat[c].ch>> : c \in Restored} \subseteq Conns \X Channels
    BY <1>2 DEF Restored
  <1>4. Rest'
    BY <1>3 DEF IInv, TypeOK, Rest, GrantExpires, AfkMove, Media, HeartbeatAsk, HeartbeatFails
  <1> QED BY <1>1, <1>4, SeatsAlone, JobsAlone, Together

LEMMA HeartbeatAnswerKeeps ==
  ASSUME IInv, HeartbeatAnswer
  PROVE  IInv'
  <1>1. Rest'
    BY DEF IInv, TypeOK, Rest, HeartbeatAnswer
  <1>2. Unlisted \in SUBSET Conns
    BY DEF Unlisted
  <1> QED BY <1>1, <1>2, LeaveSound, JobsAlone, Together DEF HeartbeatAnswer

LEMMA NobodyIsNowhere ==
  ASSUME NEW A, \A c \in Conns : A[c] = None, NEW ch
  PROVE  Members(A, ch) = {}
  BY DEF Members, Mine

LEMMA RestartKeeps ==
  ASSUME IInv, Restart
  PROVE  IInv'
  <1>1. TypeOK'
    BY DEF IInv, TypeOK, Restart
  <1>2. RestoredAlone'
    BY DEF Restart, RestoredAlone
  <1>3. ListsKnow'
    BY NobodyIsNowhere DEF Restart, ListsKnow
  <1>4. JobsSound'
    BY DEF Restart, JobsSound
  <1> QED BY <1>1, <1>2, <1>3, <1>4 DEF IInv

-------------------------------------------------------------------------------
(* The theorems.                                                           *)

LEMMA InitSound == Init => IInv
  <1> SUFFICES ASSUME Init PROVE IInv
    OBVIOUS
  <1>1. TypeOK
    BY DEF Init, TypeOK
  <1>2. RestoredAlone
    BY DEF Init, RestoredAlone
  <1>3. ListsKnow
    BY NobodyIsNowhere DEF Init, ListsKnow
  <1>4. JobsSound
    BY DEF Init, JobsSound
  <1> QED BY <1>1, <1>2, <1>3, <1>4 DEF IInv

LEMMA StepKeeps == IInv /\ [Next]_vars => IInv'
  <1> SUFFICES ASSUME IInv, [Next]_vars PROVE IInv'
    OBVIOUS
  <1>1. ASSUME NEW j \in Jobs, Step(j) PROVE IInv'
    <2>1. CASE RestoreAsk(j) \/ Restore(j)
      BY <2>1, RestoreAskKeeps, RestoreKeeps
    <2>2. CASE JoinRefused(j) \/ JoinVerdict(j) \/ JoinSeat(j) \/ JoinTakeOver(j)
      BY <2>2, JoinRefusedKeeps, JoinVerdictKeeps, JoinSeatKeeps, JoinTakeOverKeeps
    <2>3. CASE HoldOnJoin(j) \/ WriteHold(j) \/ Announce(j)
      BY <2>3, HoldOnJoinKeeps, WriteHoldKeeps, SnapshotKeeps
    <2>4. CASE Release(j) \/ ReleaseUnlessPersist(j) \/ MoveGrant(j) \/ MoveFrees(j)
      BY <2>4, ReleaseKeeps, MoveGoesOn
    <2> QED BY <1>1, <2>1, <2>2, <2>3, <2>4 DEF Step
  <1>2. ASSUME NEW j \in Jobs, NEW c \in Conns, Connect(j, c) \/ VoiceLeave(j, c) \/ Close(j, c) PROVE IInv'
    BY <1>2, ConnectKeeps, VoiceLeaveKeeps, CloseKeeps
  <1>3. ASSUME NEW j \in Jobs, NEW c \in Conns, NEW ch \in Channels, JoinAsk(j, c, ch) PROVE IInv'
    BY <1>3, JoinAskKeeps
  <1>4. ASSUME NEW j \in Jobs, NEW u \in Users, NEW ch \in Channels, Block(j, u, ch) PROVE IInv'
    BY <1>4, BlockKeeps
  <1>5. ASSUME NEW j \in Jobs, NEW u \in Users, NEW to \in Channels \cup {None}, Move(j, u, to) PROVE IInv'
    BY <1>5, MoveKeeps
  <1>6. CASE \E u \in Users : Evict(u) \/ GrantExpires(u)
    BY <1>6, EvictKeeps, OutsideKeeps
  <1>7. CASE \E u \in Users, r \in Channels \cup {None} : Media(u, r)
    BY <1>7, OutsideKeeps
  <1>8. CASE HeartbeatAsk \/ HeartbeatAnswer \/ HeartbeatFails
    BY <1>8, OutsideKeeps, HeartbeatAnswerKeeps
  <1>9. CASE Reload
    <2>1. Rest' /\ UNCHANGED <<seat, told>> /\ job' = job /\ hold' = hold /\ snap' = hold
      BY <1>9 DEF Reload, IInv, TypeOK, Rest
    <2>2. job' \in [Jobs -> Job \cup {None}] /\ JobsSound'
      BY <2>1 DEF IInv, TypeOK, JobsSound, Sound, ForItsOwner, StandsBy
    <2> QED BY <2>1, <2>2, SeatsAlone, Together
  <1>10. CASE Restart
    BY <1>10, RestartKeeps
  <1>11. CASE UNCHANGED vars
    <2>1. Rest' /\ UNCHANGED <<seat, told>> /\ UNCHANGED <<job, hold, snap>>
      BY <1>11 DEF vars, IInv, TypeOK, Rest
    <2> QED BY <2>1, SeatsAlone, JobsAlone, Together
  <1>12. CASE (\E j \in Jobs, u \in Users : VoteKicked(j, u)) \/ (\E u \in Users, to \in Channels : AfkMove(u, to))
    BY <1>12, VoteKickedKeeps, OutsideKeeps
  <1> QED BY <1>1, <1>2, <1>3, <1>4, <1>5, <1>6, <1>7, <1>8, <1>9, <1>10, <1>11, <1>12 DEF Next

LEMMA SpecIInv == Spec => []IInv
  BY InitSound, StepKeeps, PTL DEF Spec

\* Every variable keeps its type, for any number of connections, handlers, users and channels.
THEOREM TypeCorrect == Spec => []TypeOK
  <1>1. IInv => TypeOK
    BY DEF IInv
  <1> QED BY <1>1, SpecIInv, PTL

\* A seat guessed from LiveKit is never beside another seat of its user (presence.ts, dropRestored;
\* handler.ts, the second look after LiveKit's answer).
THEOREM GuessesAreAlone == Spec => []RestoredAlone
  <1>1. IInv => RestoredAlone
    BY DEF IInv
  <1> QED BY <1>1, SpecIInv, PTL

\* What the presence listeners last heard of a channel is who sits in it (presence.ts, emit).
THEOREM ListsAreRight == Spec => []ListsKnow
  <1>1. IInv => ListsKnow
    BY DEF IInv
  <1> QED BY <1>1, SpecIInv, PTL

\* A member held by a sticky channel gets another seat only by a move's grant, unless the hold
\* was written while the join was under way (sticky.ts, stickyVerdict).
THEOREM HoldsHold == Spec => HeldStaysHeld
  <1>1. IInv => \A j \in Jobs :
          /\ job[j] # None /\ job'[j] # None
          /\ job[j].pc \in {"user", "others"} /\ job'[j].pc = "hold"
          /\ job[j].steady /\ hold[job[j].user] \notin {None, job[j].ch}
          => job[j].granted
    BY DEF IInv, JobsSound, Sound, StandsBy
  <1> QED BY <1>1, SpecIInv, PTL DEF HeldStaysHeld

-------------------------------------------------------------------------------
(* Guesses need a socket; what is written is announced.                    *)

\* Whoever leaves the book leaves the others' entries alone.
LEMMA LeaveTakesAway ==
  ASSUME NEW C, Leave(C), NEW c \in Conns
  PROVE  seat'[c] \in {None, seat[c]}
  BY DEF Leave, Without

LEMMA GiveUpTakesAway ==
  ASSUME NEW j, NEW u, NEW C, GiveUp(j, u, C), NEW c \in Conns
  PROVE  seat'[c] \in {None, seat[c]}
  BY LeaveTakesAway DEF GiveUp

\* One seat is new, the others stay or go.
LEMMA SitDownAdds ==
  ASSUME NEW c \in Conns, NEW ch, NEW C, NEW guess, SitDown(c, ch, C, guess), NEW d \in Conns
  PROVE  seat'[d] \in {None, seat[d]} \/ (d = c /\ seat'[d].restored = guess)
  BY DEF SitDown, Without

\* Every guess of afterwards is one of before with its socket, or has an open socket.
GuessKept == \A c \in Conns : seat'[c] # None /\ seat'[c].restored =>
               (seat'[c] = seat[c] /\ sock'[c] = sock[c]) \/ sock'[c] = "open"

LEMMA GuessesStayWithSockets ==
  ASSUME IInv, [Next]_vars
  PROVE  GuessKept
  <1>1. ASSUME UNCHANGED sock, \A c \in Conns : seat'[c] \in {None, seat[c]} PROVE GuessKept
    BY <1>1 DEF GuessKept
  <1>2. ASSUME UNCHANGED <<sock, seat>> PROVE GuessKept
    BY <1>2 DEF GuessKept
  <1>3. ASSUME NEW j \in Jobs, Restore(j) PROVE GuessKept
    <2>1. job[j] # None /\ job[j].pc = "mayStay" /\ UNCHANGED sock
      BY <1>3 DEF Restore, At
    <2>2. job[j].conn \in Conns
      BY <2>1, JobTyped DEF Sound, ForItsOwner
    <2>3. CASE UNCHANGED seat
      BY <1>2, <2>1, <2>3
    <2>4. CASE sock[job[j].conn] = "open" /\ SitDown(job[j].conn, job[j].ch, {}, TRUE)
      BY <2>1, <2>2, <2>4, SitDownAdds DEF GuessKept
    <2> QED BY <1>3, <2>3, <2>4 DEF Restore
  <1>4. ASSUME NEW j \in Jobs, JoinSeat(j) \/ JoinTakeOver(j) PROVE GuessKept
    <2>1. job[j] # None /\ job[j].pc \in {"user", "others"} /\ UNCHANGED sock
      BY <1>4 DEF JoinSeat, JoinTakeOver, At
    <2>2. job[j].conn \in Conns
      BY <2>1, JobTyped DEF Sound, ForItsOwner
    <2>3. CASE UNCHANGED seat
      BY <1>2, <2>1, <2>3
    <2>4. ASSUME NEW C, TakeSeat(j, C) PROVE GuessKept
      BY <2>1, <2>2, <2>4, SitDownAdds DEF TakeSeat, GuessKept
    <2> QED BY <1>4, <2>3, <2>4 DEF JoinSeat, JoinTakeOver
  <1>5. ASSUME NEW j \in Jobs, Step(j) PROVE GuessKept
    <2>1. CASE UNCHANGED <<sock, seat>>
      BY <1>2, <2>1
    <2> QED BY <1>3, <1>4, <1>5, <2>1 DEF Step, RestoreAsk, JoinRefused, JoinVerdict, HoldOnJoin, WriteHold, Announce,
            Release, ReleaseUnlessPersist, MoveGrant, MoveFrees
  <1>6. ASSUME NEW j \in Jobs, NEW c \in Conns, Connect(j, c) PROVE GuessKept
    BY <1>6 DEF Connect, GuessKept, IInv, TypeOK
  <1>7. ASSUME NEW j \in Jobs, NEW c \in Conns, VoiceLeave(j, c) PROVE GuessKept
    BY <1>1, <1>7, GiveUpTakesAway DEF VoiceLeave
  <1>8. ASSUME NEW j \in Jobs, NEW c \in Conns, Close(j, c) PROVE GuessKept
    <2>1. seat'[c] = None
      BY <1>8 DEF Close, GiveUp, Leave, Without
    <2>2. \A d \in Conns : d # c => sock'[d] = sock[d]
      BY <1>8 DEF Close, IInv, TypeOK
    <2>3. \A d \in Conns : seat'[d] \in {None, seat[d]}
      BY <1>8, GiveUpTakesAway DEF Close
    <2> QED BY <2>1, <2>2, <2>3 DEF GuessKept
  <1>9. ASSUME NEW j \in Jobs, NEW u \in Users, NEW ch \in Channels, Block(j, u, ch) PROVE GuessKept
    BY <1>1, <1>2, <1>9, GiveUpTakesAway DEF Block
  <1>10. ASSUME NEW j \in Jobs, NEW u \in Users, VoteKicked(j, u) PROVE GuessKept
    BY <1>1, <1>10, GiveUpTakesAway DEF VoteKicked
  <1>11. ASSUME NEW u \in Users, Evict(u) PROVE GuessKept
    BY <1>1, <1>11, LeaveTakesAway DEF Evict
  <1>12. CASE HeartbeatAnswer
    BY <1>1, <1>12, LeaveTakesAway DEF HeartbeatAnswer
  <1>13. CASE Restart
    BY <1>13 DEF Restart, GuessKept
  <1>14. CASE UNCHANGED <<sock, seat>>
    BY <1>2, <1>14
  <1> QED BY <1>5, <1>6, <1>7, <1>8, <1>9, <1>10, <1>11, <1>12, <1>13, <1>14
          DEF Next, vars, JoinAsk, Move, AfkMove, GrantExpires, Media, HeartbeatAsk, HeartbeatFails, Reload

\* A guess that lost its socket is out of the book: only a join that was under way when the socket
\* closed leaves a seat behind (handler.ts, the restore after the welcome; presence.ts).
THEOREM GuessesHaveSockets == Spec => []GuessNeedsSocket
  <1>1. Init => GuessNeedsSocket
    BY DEF Init, GuessNeedsSocket
  <1>2. IInv /\ GuessNeedsSocket /\ [Next]_vars => GuessNeedsSocket'
    BY GuessesStayWithSockets DEF GuessKept, GuessNeedsSocket
  <1> QED BY <1>1, <1>2, SpecIInv, PTL DEF Spec

\* A handler with something to announce is left alone.
Announcers == {j \in Jobs : At(j, "announce")}
AnnouncersStay == UNCHANGED <<hold, snap>> /\ \A j \in Announcers : job'[j] = job[j]

LEMMA AnnouncersStayKeeps ==
  ASSUME WrittenIsAnnounced, AnnouncersStay
  PROVE  WrittenIsAnnounced'
  <1> SUFFICES ASSUME NEW u \in Users, snap'[u] # hold'[u]
               PROVE  \E j \in Jobs : job'[j] # None /\ job'[j].pc = "announce" /\ job'[j].user = u
    BY DEF WrittenIsAnnounced, At
  <1>1. PICK j \in Jobs : At(j, "announce") /\ job[j].user = u
    BY DEF WrittenIsAnnounced, AnnouncersStay
  <1> QED BY <1>1 DEF AnnouncersStay, Announcers, At

\* A job that is free, or not yet there to announce, can be put anywhere.
LEMMA OtherJobStays ==
  ASSUME IInv, UNCHANGED <<hold, snap>>, NEW j \in Jobs, j \notin Announcers, NEW n, job' = [job EXCEPT ![j] = n]
  PROVE  AnnouncersStay
  BY DEF AnnouncersStay, Announcers, IInv, TypeOK

LEMMA StartStays ==
  ASSUME IInv, UNCHANGED <<hold, snap>>, NEW j \in Jobs, NEW pc, NEW u, NEW c, NEW ch, Start(j, pc, u, c, ch)
  PROVE  AnnouncersStay
  BY OtherJobStays DEF Start, Announcers, At

LEMMA GiveUpStays ==
  ASSUME IInv, UNCHANGED <<hold, snap>>, NEW j \in Jobs, NEW u, NEW C, GiveUp(j, u, C)
  PROVE  AnnouncersStay
  <1>1. CASE UNCHANGED job
    BY <1>1 DEF AnnouncersStay
  <1>2. CASE Start(j, "release", u, None, None)
    BY <1>2, StartStays
  <1> QED BY <1>1, <1>2 DEF GiveUp

\* The steps of a handler that neither write nor announce.
LEMMA QuietStepStays ==
  ASSUME IInv, NEW j \in Jobs, Step(j), ~WriteHold(j), ~Announce(j)
  PROVE  AnnouncersStay
  <1>1. UNCHANGED <<hold, snap>>
    BY DEF Step, RestoreAsk, Restore, JoinRefused, JoinVerdict, JoinSeat, JoinTakeOver, HoldOnJoin, Release,
       ReleaseUnlessPersist, MoveGrant, MoveFrees
  <1>2. j \notin Announcers
    BY DEF Announcers, At, Step, RestoreAsk, Restore, JoinRefused, JoinVerdict, JoinSeat, JoinTakeOver, HoldOnJoin,
       Release, ReleaseUnlessPersist, MoveGrant, MoveFrees
  <1>3. ASSUME NEW pc, NEW ch, Goto(j, pc, ch) PROVE AnnouncersStay
    BY <1>1, <1>2, <1>3, OtherJobStays DEF Goto
  <1>4. ASSUME Done(j) PROVE AnnouncersStay
    BY <1>1, <1>2, <1>4, OtherJobStays DEF Done
  <1>5. CASE JoinVerdict(j)
    <2>1. \A i \in Jobs : i # j => job'[i] = job[i]
      BY <1>5 DEF JoinVerdict, Done, IInv, TypeOK
    <2> QED BY <1>1, <1>2, <2>1 DEF AnnouncersStay, Announcers
  <1>6. CASE JoinSeat(j)
    <2>1. CASE TakeSeat(j, {})
      BY <1>3, <2>1 DEF TakeSeat
    <2>2. CASE job' = [job EXCEPT ![j].pc = "others", ![j].others = Others(j)]
      <3>1. \A i \in Jobs : i # j => job'[i] = job[i]
        BY <2>2 DEF IInv, TypeOK
      <3> QED BY <1>1, <1>2, <3>1 DEF AnnouncersStay, Announcers
    <2> QED BY <1>6, <2>1, <2>2 DEF JoinSeat
  <1>7. CASE JoinTakeOver(j)
    BY <1>3, <1>7 DEF JoinTakeOver, TakeSeat
  <1> QED BY <1>3, <1>4, <1>5, <1>6, <1>7 DEF Step, RestoreAsk, Restore, JoinRefused, HoldOnJoin, Release,
          ReleaseUnlessPersist, MoveGrant, MoveFrees

LEMMA StepAnnounces ==
  ASSUME IInv, WrittenIsAnnounced, [Next]_vars
  PROVE  WrittenIsAnnounced'
  <1>1. ASSUME snap' = hold, hold' = hold PROVE WrittenIsAnnounced'
    BY <1>1 DEF WrittenIsAnnounced
  <1>2. ASSUME UNCHANGED <<hold, snap, job>> PROVE WrittenIsAnnounced'
    BY <1>2, AnnouncersStayKeeps DEF AnnouncersStay
  <1>3. ASSUME NEW j \in Jobs, WriteHold(j) PROVE WrittenIsAnnounced'
    <2> DEFINE n == [job[j] EXCEPT !.pc = "announce"]
    <2>1. /\ job[j] # None /\ job[j] \in Job /\ UNCHANGED snap
          /\ hold' = [hold EXCEPT ![job[j].user] = job[j].ch]
      BY <1>3, JobTyped DEF WriteHold, At
    <2>2. n \in Job /\ n # None /\ n.pc = "announce" /\ n.user = job[j].user
      BY <2>1, NoneIsNothing DEF Job, PCs
    <2>3. job'[j] = n
      BY <1>3 DEF WriteHold
    <2>4. ASSUME NEW i \in Announcers PROVE job'[i].pc = "announce" /\ job'[i].user = job[i].user /\ job'[i] # None
      <3>1. i # j /\ job[i] # None /\ job[i] \in Job /\ job[i].pc = "announce"
        BY <1>3, JobTyped DEF Announcers, At, WriteHold
      <3>2. job'[i] \in {job[i], [job[i] EXCEPT !.steady = FALSE]}
        BY <1>3, <3>1 DEF WriteHold, Announcers
      <3>3. [job[i] EXCEPT !.steady = FALSE] \in Job
        BY <3>1 DEF Job
      <3> QED BY <3>1, <3>2, <3>3, NoneIsNothing DEF Job
    <2> SUFFICES ASSUME NEW u \in Users, snap'[u] # hold'[u]
                 PROVE  \E k \in Jobs : job'[k] # None /\ job'[k].pc = "announce" /\ job'[k].user = u
      BY DEF WrittenIsAnnounced, At
    <2>5. CASE u = job[j].user
      BY <2>2, <2>3, <2>5
    <2>6. CASE u # job[j].user
      <3>1. snap[u] # hold[u]
        BY <2>1, <2>6 DEF IInv, TypeOK
      <3>2. PICK i \in Jobs : At(i, "announce") /\ job[i].user = u
        BY <3>1 DEF WrittenIsAnnounced
      <3> QED BY <2>4, <3>2 DEF Announcers
    <2> QED BY <2>5, <2>6
  <1>4. ASSUME NEW j \in Jobs, Step(j) PROVE WrittenIsAnnounced'
    BY <1>1, <1>3, <1>4, QuietStepStays, AnnouncersStayKeeps DEF Announce
  <1>5. ASSUME NEW j \in Jobs, NEW c \in Conns, Connect(j, c) PROVE WrittenIsAnnounced'
    BY <1>5, StartStays, AnnouncersStayKeeps DEF Connect
  <1>6. ASSUME NEW j \in Jobs, NEW c \in Conns, VoiceLeave(j, c) PROVE WrittenIsAnnounced'
    BY <1>6, GiveUpStays, AnnouncersStayKeeps DEF VoiceLeave
  <1>7. ASSUME NEW j \in Jobs, NEW c \in Conns, Close(j, c) PROVE WrittenIsAnnounced'
    BY <1>2, <1>7, GiveUpStays, AnnouncersStayKeeps DEF Close
  <1>8. ASSUME NEW j \in Jobs, NEW c \in Conns, NEW ch \in Channels, JoinAsk(j, c, ch) PROVE WrittenIsAnnounced'
    BY <1>8, StartStays, AnnouncersStayKeeps DEF JoinAsk
  <1>9. ASSUME NEW j \in Jobs, NEW u \in Users, NEW ch \in Channels, Block(j, u, ch) PROVE WrittenIsAnnounced'
    BY <1>2, <1>9, GiveUpStays, AnnouncersStayKeeps DEF Block
  <1>10. ASSUME NEW j \in Jobs, NEW u \in Users, NEW to \in Channels \cup {None}, Move(j, u, to)
         PROVE  WrittenIsAnnounced'
    BY <1>10, StartStays, AnnouncersStayKeeps DEF Move
  <1>11. ASSUME NEW j \in Jobs, NEW u \in Users, VoteKicked(j, u) PROVE WrittenIsAnnounced'
    BY <1>11, GiveUpStays, AnnouncersStayKeeps DEF VoteKicked
  <1>12. CASE Reload \/ Restart
    BY <1>1, <1>12 DEF Reload, Restart
  <1>13. CASE UNCHANGED <<hold, snap, job>>
    BY <1>2, <1>13
  <1> QED BY <1>4, <1>5, <1>6, <1>7, <1>8, <1>9, <1>10, <1>11, <1>12, <1>13
          DEF Next, vars, AfkMove, Evict, GrantExpires, Media, HeartbeatAsk, HeartbeatAnswer, HeartbeatFails

\* Every hold that was written is announced or will be: a member is never judged for good by a
\* snapshot that missed their hold (sticky.ts, setHold), for any number of handlers writing at once.
THEOREM HoldsAreAnnounced == Spec => []WrittenIsAnnounced
  <1>1. Init => WrittenIsAnnounced
    BY DEF Init, WrittenIsAnnounced
  <1> QED BY <1>1, StepAnnounces, SpecIInv, PTL DEF Spec
===============================================================================
