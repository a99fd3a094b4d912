------------------------------ MODULE VoiceSeats ------------------------------
(***************************************************************************)
(* Who sits in which voice channel: the seats per connection               *)
(* (apps/server/src/voice/presence.ts), the WebSocket events that take and *)
(* give them up (ws/handler.ts), the seats guessed from LiveKit, the       *)
(* moves of a moderator (voice/confine.ts) and the hold of sticky channels *)
(* in the database (voice/sticky.ts).                                      *)
(*                                                                         *)
(* A handler that awaits is a job: between two of its awaits it is one     *)
(* action, and every other job, event and timer may run in between.  The   *)
(* visibility snapshot is used by its promise (module Visibility): what    *)
(* has been announced is seen, what is only written may be seen already.   *)
(* Permissions, blocks and limits are a refusal that may happen; nobody    *)
(* here has BYPASS_STICKY, and channels are not deleted.                   *)
(***************************************************************************)
EXTENDS Naturals

CONSTANTS
  Conns,     \* WebSocket connections
  Jobs,      \* bound: how many handlers are under way at once
  Users,
  Channels,  \* voice channels
  Sticky,    \* channels that hold whoever sits in them
  Persist,   \* channels whose hold outlives the seat (stickyPersist)
  OwnerOf,   \* the user behind a connection
  None       \* JavaScript's null and undefined

ASSUME StickyChannels == Persist \subseteq Sticky /\ Sticky \subseteq Channels
ASSUME ConnsHaveOwners == OwnerOf \in [Conns -> Users]

VARIABLES
  sock,   \* a connection before its hello, while it is open, after its close event
  seat,   \* VoicePresence.byConn
  told,   \* the members the presence listeners last heard of, per channel
  grant,  \* MoveGrants.byUser
  hold,   \* members.confined_channel_id
  snap,   \* the same in the visibility snapshot
  room,   \* external: the LiveKit room a user's client is in
  asked,  \* the restored entries a heartbeat has asked LiveKit about
  job     \* the handlers under way

vars == <<sock, seat, told, grant, hold, snap, room, asked, job>>

-------------------------------------------------------------------------------
\* Whether a move placed somebody here (Entry.placed) decides only what they see: module Visibility.
Seat == [ch : Channels, restored : BOOLEAN]

PCs == {"rooms", "mayStay", "verdict", "user", "others", "hold", "write", "announce",
        "release", "persist", "moving", "moved"}

Job == [pc : PCs, user : Users, conn : Conns \cup {None}, ch : Channels \cup {None},
        granted : BOOLEAN, others : SUBSET Conns, steady : BOOLEAN]

ASSUME NoneIsNothing == None \notin Channels \cup Conns /\ None \notin Seat /\ None \notin Job

TypeOK ==
  /\ sock \in [Conns -> {"none", "open", "gone"}]
  /\ seat \in [Conns -> Seat \cup {None}]
  /\ told \in [Channels -> SUBSET Users]
  /\ grant \in [Users -> Channels \cup {None}]
  /\ hold \in [Users -> Channels \cup {None}]
  /\ snap \in [Users -> Channels \cup {None}]
  /\ room \in [Users -> Channels \cup {None}]
  /\ asked \subseteq Conns \X Channels
  /\ job \in [Jobs -> Job \cup {None}]

Init ==
  /\ sock = [c \in Conns |-> "none"]
  /\ seat = [c \in Conns |-> None]
  /\ told = [ch \in Channels |-> {}]
  /\ grant = [u \in Users |-> None]
  /\ hold = [u \in Users |-> None] /\ snap = hold
  /\ room \in [Users -> Channels \cup {None}]
  /\ asked = {}
  /\ job = [j \in Jobs |-> None]

-------------------------------------------------------------------------------
(* The book of seats.                                                      *)

Mine(u) == {c \in Conns : OwnerOf[c] = u}
Seated(book, u) == \E c \in Mine(u) : book[c] # None
Members(book, ch) == {u \in Users : \E c \in Mine(u) : book[c] # None /\ book[c].ch = ch}

Without(C) == [c \in Conns |-> IF c \in C THEN None ELSE seat[c]]
ChannelsOf(C) == {seat[c].ch : c \in {c \in C : seat[c] # None}}

\* The listeners hear the members of the channels the code names.
Emit(chs) == told' = [ch \in Channels |-> IF ch \in chs THEN Members(seat', ch) ELSE told[ch]]

\* leave() and leaveUser() on a set of connections.
Leave(C) ==
  /\ seat' = Without(C)
  /\ Emit(ChannelsOf(C))

\* dropRestored(): entries guessed for the user's other connections.
Guessed(u, c) == {d \in Mine(u) \ {c} : seat[d] # None /\ seat[d].restored}

\* Mutant: the new entry alone is told.
SitDownQuietly(c, ch, C, guess) ==
  /\ seat' = [Without(C) EXCEPT ![c] = [ch |-> ch, restored |-> guess]]
  /\ Emit(ChannelsOf(C) \cup {ch})

\* join() of one connection, after leave() of others.
SitDown(c, ch, C, guess) ==
  /\ seat' = [Without(C) EXCEPT ![c] = [ch |-> ch, restored |-> guess]]
  /\ Emit(ChannelsOf(C \cup {c}) \cup {ch})

-------------------------------------------------------------------------------
(* Jobs.  steady is history: nobody has written the hold since the join    *)
(* began.                                                                  *)

New(pc, u, c, ch) ==
  [pc |-> pc, user |-> u, conn |-> c, ch |-> ch, granted |-> FALSE, others |-> {},
   steady |-> pc = "verdict" /\ hold[u] = snap[u]]

Start(j, pc, u, c, ch) == job[j] = None /\ job' = [job EXCEPT ![j] = New(pc, u, c, ch)]
At(j, pc) == job[j] # None /\ job[j].pc = pc
\* What the verdict, the list and the history were for is behind this job.
Goto(j, pc, ch) ==
  job' = [job EXCEPT ![j] = [@ EXCEPT !.pc = pc, !.ch = ch, !.granted = FALSE, !.others = {}, !.steady = FALSE]]
Done(j) == job' = [job EXCEPT ![j] = None]

-------------------------------------------------------------------------------
(* A connection comes: LiveKit may know that its user is still talking.    *)

Connect(j, c) ==
  /\ sock[c] = "none"
  /\ sock' = [sock EXCEPT ![c] = "open"]
  /\ Start(j, "rooms", OwnerOf[c], c, None)
  /\ UNCHANGED <<seat, told, grant, hold, snap, room, asked>>

\* roomsByIdentity() answers, or LiveKit cannot be reached.
RestoreAsk(j) ==
  /\ At(j, "rooms")
  /\ LET u == job[j].user IN
       \/ Done(j)
       \/ /\ room[u] # None /\ sock[job[j].conn] = "open" /\ ~Seated(seat, u)
          /\ Goto(j, "mayStay", room[u])
  /\ UNCHANGED <<sock, seat, told, grant, hold, snap, room, asked>>

\* Mutant: what was looked at before the awaits is not looked at again.
RestoreBlindly(j) ==
  /\ At(j, "mayStay")
  /\ \/ Done(j) /\ UNCHANGED <<seat, told>>
     \/ /\ SitDown(job[j].conn, job[j].ch, {}, TRUE)
        /\ Goto(j, "hold", job[j].ch)
  /\ UNCHANGED <<sock, grant, hold, snap, room, asked>>

\* The member may still be there and nobody has said otherwise meanwhile; or LiveKit is told to drop them.
Restore(j) ==
  /\ At(j, "mayStay")
  /\ \/ Done(j) /\ UNCHANGED <<seat, told>>
     \/ /\ sock[job[j].conn] = "open" /\ ~Seated(seat, job[j].user)
        /\ SitDown(job[j].conn, job[j].ch, {}, TRUE)
        /\ Goto(j, "hold", job[j].ch)
  /\ UNCHANGED <<sock, grant, hold, snap, room, asked>>

-------------------------------------------------------------------------------
(* voice.join.                                                             *)

JoinAsk(j, c, ch) ==
  /\ sock[c] = "open"
  /\ Start(j, "verdict", OwnerOf[c], c, ch)
  /\ UNCHANGED <<sock, seat, told, grant, hold, snap, room, asked>>

\* No member, no such channel, no permission, blocked, full, no user.
JoinRefused(j) ==
  /\ At(j, "verdict") \/ At(j, "user")
  /\ Done(j)
  /\ UNCHANGED <<sock, seat, told, grant, hold, snap, room, asked>>

\* Mutant: any grant opens every channel.
AnyGrant(j) ==
  /\ At(j, "verdict")
  /\ LET u == job[j].user
         granted == grant[u] = job[j].ch IN
       IF snap[u] \in {None, job[j].ch} \/ grant[u] # None
         THEN job' = [job EXCEPT ![j].pc = "user", ![j].granted = granted]
         ELSE Done(j)
  /\ UNCHANGED <<sock, seat, told, grant, hold, snap, room, asked>>

\* Mutant: the grant itself is kept where its answer belongs.
GrantKept(j) ==
  /\ At(j, "verdict")
  /\ LET u == job[j].user IN
       IF snap[u] \in {None, job[j].ch} \/ grant[u] = job[j].ch
         THEN job' = [job EXCEPT ![j].pc = "user", ![j].granted = grant[u]]
         ELSE Done(j)
  /\ UNCHANGED <<sock, seat, told, grant, hold, snap, room, asked>>

\* stickyVerdict(): held elsewhere, unless a move's grant names this channel.
JoinVerdict(j) ==
  /\ At(j, "verdict")
  /\ LET u == job[j].user
         granted == grant[u] = job[j].ch IN
       IF snap[u] \in {None, job[j].ch} \/ granted
         THEN job' = [job EXCEPT ![j].pc = "user", ![j].granted = granted]
         ELSE Done(j)
  /\ UNCHANGED <<sock, seat, told, grant, hold, snap, room, asked>>

\* The seat: the user's seats of before, and what was guessed, are gone.
TakeSeat(j, C) ==
  LET u == job[j].user
      c == job[j].conn
      ch == job[j].ch IN
  /\ SitDown(c, ch, C \cup Guessed(u, c), FALSE)
  /\ grant' = [grant EXCEPT ![u] = IF @ = ch THEN None ELSE @]
  /\ Goto(j, "hold", ch)

Others(j) == {c \in Mine(job[j].user) \ {job[j].conn} : seat[c] # None}

JoinSeat(j) ==
  /\ At(j, "user")
  /\ IF Others(j) = {} THEN TakeSeat(j, {})
     ELSE /\ job' = [job EXCEPT ![j].pc = "others", ![j].others = Others(j)]
          /\ UNCHANGED <<seat, told, grant>>
  /\ UNCHANGED <<sock, hold, snap, room, asked>>

\* After the server's name was loaded: the connections noted before the await leave, wherever they sit now.
JoinTakeOver(j) ==
  /\ At(j, "others")
  /\ TakeSeat(j, job[j].others)
  /\ UNCHANGED <<sock, hold, snap, room, asked>>

\* holdOnJoin(): a sticky channel holds from now on, any other seat ends an old hold.
HoldOnJoin(j) ==
  /\ At(j, "hold")
  /\ LET wanted == IF job[j].ch \in Sticky THEN job[j].ch ELSE None IN
       IF snap[job[j].user] = wanted THEN Done(j) ELSE Goto(j, "write", wanted)
  /\ UNCHANGED <<sock, seat, told, grant, hold, snap, room, asked>>

\* setHold(): first the row, then the snapshot's end.
WriteHold(j) ==
  /\ At(j, "write")
  /\ hold' = [hold EXCEPT ![job[j].user] = job[j].ch]
  /\ job' = [i \in Jobs |->
               IF i = j THEN [job[j] EXCEPT !.pc = "announce"]
               ELSE IF job[i] # None /\ job[i].user = job[j].user THEN [job[i] EXCEPT !.steady = FALSE]
               ELSE job[i]]
  /\ UNCHANGED <<sock, seat, told, grant, snap, room, asked>>

Announce(j) ==
  /\ At(j, "announce")
  /\ snap' = hold
  /\ Done(j)
  /\ UNCHANGED <<sock, seat, told, grant, hold, room, asked>>

\* Another route's invalidate() and a load in between.
Reload ==
  /\ snap' = hold
  /\ UNCHANGED <<sock, seat, told, grant, hold, room, asked, job>>

-------------------------------------------------------------------------------
(* The end of a seat.                                                      *)

\* Of a user's seats these end; with the last one goes the hold (releaseOnLeave).
GiveUp(j, u, C) ==
  /\ Leave(C)
  /\ IF Seated(seat', u) THEN UNCHANGED job ELSE Start(j, "release", u, None, None)

VoiceLeave(j, c) ==
  /\ sock[c] = "open" /\ job[j] = None
  /\ GiveUp(j, OwnerOf[c], Guessed(OwnerOf[c], c) \cup {c})
  /\ UNCHANGED <<sock, grant, hold, snap, room, asked>>

\* The close event: nothing to release for a connection without a seat.
Close(j, c) ==
  /\ sock[c] = "open" /\ job[j] = None
  /\ sock' = [sock EXCEPT ![c] = "gone"]
  /\ IF seat[c] = None THEN UNCHANGED <<seat, told, job>> ELSE GiveUp(j, OwnerOf[c], {c})
  /\ UNCHANGED <<grant, hold, snap, room, asked>>

Release(j) ==
  /\ At(j, "release")
  /\ LET held == snap[job[j].user] IN IF held = None THEN Done(j) ELSE Goto(j, "persist", held)
  /\ UNCHANGED <<sock, seat, told, grant, hold, snap, room, asked>>

ReleaseUnlessPersist(j) ==
  /\ At(j, "persist")
  /\ IF job[j].ch \in Persist THEN Done(j) ELSE Goto(j, "write", None)
  /\ UNCHANGED <<sock, seat, told, grant, hold, snap, room, asked>>

\* The channels channelOfUser() may answer with: that of the user's first seat, whichever came first.
FirstSeat(u) == IF Seated(seat, u) THEN {seat[c].ch : c \in {c \in Mine(u) : seat[c] # None}} ELSE {None}

\* A channel block: the grant for it goes, and whoever sits in the channel with their first seat is out of it.
Block(j, u, ch) ==
  /\ job[j] = None
  /\ grant' = [grant EXCEPT ![u] = IF @ = ch THEN None ELSE @]
  /\ \E first \in FirstSeat(u) :
       IF first = ch THEN GiveUp(j, u, Mine(u)) ELSE UNCHANGED <<seat, told, job>>
  /\ UNCHANGED <<sock, hold, snap, room, asked>>

\* A passed vote kick: out, wherever they sit when its awaits are over.
VoteKicked(j, u) ==
  /\ job[j] = None
  /\ GiveUp(j, u, Mine(u))
  /\ UNCHANGED <<sock, grant, hold, snap, room, asked>>

\* A right that was lost, or a suspension: leaveUser() and nothing else.
Evict(u) ==
  /\ Seated(seat, u)
  /\ Leave(Mine(u))
  /\ UNCHANGED <<sock, grant, hold, snap, room, asked, job>>

-------------------------------------------------------------------------------
(* Moves: a grant for the destination (or none); a moderator's ends the hold. *)

Move(j, u, to) ==
  /\ Seated(seat, u)
  /\ Start(j, "moving", u, None, to)
  /\ UNCHANGED <<sock, seat, told, grant, hold, snap, room, asked>>

MoveGrant(j) ==
  /\ At(j, "moving")
  /\ grant' = [grant EXCEPT ![job[j].user] = job[j].ch]
  /\ Goto(j, "moved", None)
  /\ UNCHANGED <<sock, seat, told, hold, snap, room, asked>>

MoveFrees(j) ==
  /\ At(j, "moved")
  /\ IF snap[job[j].user] = None THEN Done(j) ELSE Goto(j, "write", None)
  /\ UNCHANGED <<sock, seat, told, grant, hold, snap, room, asked>>

\* The AFK mover places absent members whom no channel holds.
AfkMove(u, to) ==
  /\ snap[u] = None
  /\ \E c \in Mine(u) : seat[c] # None /\ seat[c].ch # to
  /\ grant' = [grant EXCEPT ![u] = to]
  /\ UNCHANGED <<sock, seat, told, hold, snap, room, asked, job>>

GrantExpires(u) ==
  /\ grant[u] # None
  /\ grant' = [grant EXCEPT ![u] = None]
  /\ UNCHANGED <<sock, seat, told, hold, snap, room, asked, job>>

-------------------------------------------------------------------------------
(* LiveKit and the heartbeat.                                              *)

\* External: a client enters or leaves a room at LiveKit, whether or not it says so here.
Media(u, r) ==
  /\ room' = [room EXCEPT ![u] = r]
  /\ UNCHANGED <<sock, seat, told, grant, hold, snap, asked, job>>

Restored == {c \in Conns : seat[c] # None /\ seat[c].restored}

HeartbeatAsk ==
  /\ asked = {} /\ Restored # {}
  /\ asked' = {<<c, seat[c].ch>> : c \in Restored}
  /\ UNCHANGED <<sock, seat, told, grant, hold, snap, room, job>>

\* Mutant: whoever is in no room at all is passed over.
Elsewhere ==
  {c \in Conns : \E ch \in Channels :
     <<c, ch>> \in asked /\ room[OwnerOf[c]] \notin {None, ch} /\ seat[c] # None /\ seat[c].ch = ch}

\* What LiveKit does not list any more, as far as the connection still sits where it was asked about.
Unlisted ==
  {c \in Conns : \E ch \in Channels :
     <<c, ch>> \in asked /\ room[OwnerOf[c]] # ch /\ seat[c] # None /\ seat[c].ch = ch}

HeartbeatAnswer ==
  /\ asked # {}
  /\ asked' = {}
  /\ Leave(Unlisted)
  /\ UNCHANGED <<sock, grant, hold, snap, room, job>>

HeartbeatFails ==
  /\ asked # {}
  /\ asked' = {}
  /\ UNCHANGED <<sock, seat, told, grant, hold, snap, room, job>>

\* The process starts anew: what is in memory is lost, the rows and LiveKit's rooms are not.
Restart ==
  /\ sock' = [c \in Conns |-> "none"]
  /\ seat' = [c \in Conns |-> None]
  /\ told' = [ch \in Channels |-> {}]
  /\ grant' = [u \in Users |-> None]
  /\ snap' = hold
  /\ asked' = {}
  /\ job' = [j \in Jobs |-> None]
  /\ UNCHANGED <<hold, room>>

-------------------------------------------------------------------------------
Step(j) ==
  \/ RestoreAsk(j) \/ Restore(j)
  \/ JoinRefused(j) \/ JoinVerdict(j) \/ JoinSeat(j) \/ JoinTakeOver(j)
  \/ HoldOnJoin(j) \/ WriteHold(j) \/ Announce(j)
  \/ Release(j) \/ ReleaseUnlessPersist(j) \/ MoveGrant(j) \/ MoveFrees(j)

Next ==
  \/ \E j \in Jobs : Step(j)
  \/ \E j \in Jobs, c \in Conns : Connect(j, c) \/ VoiceLeave(j, c) \/ Close(j, c)
  \/ \E j \in Jobs, c \in Conns, ch \in Channels : JoinAsk(j, c, ch)
  \/ \E j \in Jobs, u \in Users, ch \in Channels : Block(j, u, ch)
  \/ \E j \in Jobs, u \in Users, to \in Channels \cup {None} : Move(j, u, to)
  \/ \E j \in Jobs, u \in Users : VoteKicked(j, u)
  \/ \E u \in Users, to \in Channels : AfkMove(u, to)
  \/ \E u \in Users : Evict(u) \/ GrantExpires(u)
  \/ \E u \in Users, r \in Channels \cup {None} : Media(u, r)
  \/ HeartbeatAsk \/ HeartbeatAnswer \/ HeartbeatFails
  \/ Reload \/ Restart

Spec == Init /\ [][Next]_vars

\* The heartbeat runs every PING_EVERY_MS; LiveKit answers it again and again, though not every time.
Fairness == WF_vars(HeartbeatAsk) /\ SF_vars(HeartbeatAnswer)

FairSpec == Spec /\ Fairness

-------------------------------------------------------------------------------
(* Properties.                                                             *)

\* A guessed seat "gives way as soon as any connection of the user says voice.join or voice.leave"
\* (presence.ts): a restored entry is never beside another seat of its user, although the look at
\* the book, LiveKit's answer and two queries lie between the welcome and the entry.
RestoredAlone ==
  \A c, d \in Conns :
    c # d /\ OwnerOf[c] = OwnerOf[d] /\ seat[c] # None /\ seat[c].restored => seat[d] = None

\* Every change of a channel's members reaches the listeners, the channel that was left by a switch
\* and the ones a take-over emptied included: nobody's sidebar shows a member who is gone.
ListsKnow == \A ch \in Channels : told[ch] = Members(seat, ch)

\* "A sticky channel elsewhere must not hold them" (handler.ts, voice.join): whoever is held when
\* they ask and is still held the same way when they sit down gets another channel only by a
\* move's grant that names it.
HeldStaysHeld ==
  [][\A j \in Jobs :
       /\ job[j] # None /\ job'[j] # None
       /\ job[j].pc \in {"user", "others"} /\ job'[j].pc = "hold"
       /\ job[j].steady /\ hold[job[j].user] \notin {None, job[j].ch}
       => job[j].granted]_vars

\* A guess is made for a connection that is there: the seat that can outlive its socket (see
\* DroppedSocketHasNoSeat) is always one its own voice.join took (handler.ts, readyState after the awaits).
GuessNeedsSocket == \A c \in Conns : seat[c] # None /\ seat[c].restored => sock[c] = "open"

\* No hold stays unseen: while the snapshot knows another hold than the row, the handler that wrote
\* it has yet to invalidate the snapshot (sticky.ts, setHold), however many handlers write at once.
WrittenIsAnnounced ==
  \A u \in Users : snap[u] # hold[u] => \E j \in Jobs : At(j, "announce") /\ job[j].user = u

\* "The handler drops it when LiveKit no longer lists the participant" (presence.ts): once a user
\* has left LiveKit for good, no guess keeps them in a channel's list.
GuessEnds ==
  \A u \in Users : <>[](room[u] = None) => <>[](\A c \in Mine(u) : c \notin Restored)

Busy(u) == \E j \in Jobs : job[j] # None /\ job[j].user = u

\* "A dropped socket removes the user automatically" (presence.ts).
DroppedSocketHasNoSeat ==
  \A c \in Conns : sock[c] = "gone" /\ ~Busy(OwnerOf[c]) => seat[c] = None

\* "Unless the channel says stickyPersist", the hold is cleared "when the member's voice presence
\* ends" (sticky.ts).
HoldEndsWithSeat ==
  \A u \in Users : ~Seated(seat, u) /\ ~Busy(u) => hold[u] \in Persist \cup {None}

\* "The same account joins from another device or tab: its voice elsewhere on this server ends"
\* (handler.ts).
OneSeatPerUser ==
  \A c, d \in Conns : c # d /\ OwnerOf[c] = OwnerOf[d] /\ ~Busy(OwnerOf[c]) => seat[c] = None \/ seat[d] = None
===============================================================================
