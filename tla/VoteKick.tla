-------------------------------- MODULE VoteKick --------------------------------
(***************************************************************************)
(* Vote kick in voice channels (apps/server/src/voice/votekick.ts, the     *)
(* routes and the end of a vote in routes/votekick.ts, the outcome in      *)
(* packages/protocol/src/votekick.ts).  The store in memory holds one      *)
(* running vote per channel with the timer of its minute; the presence     *)
(* tells it of every change of a channel.  A start awaits the names after  *)
(* its last check, with the room as it was then; the end of a passed vote  *)
(* awaits the block and the settings before it takes the member out.       *)
(*                                                                         *)
(* A vote object lives as long as something refers to it: its place in     *)
(* the store, its timer, or its end under way.                             *)
(***************************************************************************)
EXTENDS Naturals, FiniteSets

CONSTANTS
  Channels, Users,
  Votes,       \* vote objects alive at a time
  Moderators,  \* isVoiceModerator
  Allowed,     \* channels with allowVoteKick
  MinMembers,  \* VOTEKICK_MIN_MEMBERS
  MaxStarts,   \* bound: starts under way at a time
  None         \* null

ASSUME SomeoneElse == MinMembers \in Nat /\ MinMembers > 1
ASSUME NoneIsNothing == None \notin Channels \cup Votes
ASSUME UsersAreFinite == IsFiniteSet(Users) /\ Moderators \subseteq Users

VARIABLES
  seat,      \* VoicePresence: where each member sits
  channels,  \* the channels there are
  vote,      \* the vote objects
  running,   \* VoteKicks.byChannel
  timers,    \* votes whose minute is running
  cooldown,  \* VoteKicks.cooldowns
  asking,    \* starts past their checks, per starter
  ending     \* finish() of a passed vote: "no", or what it awaits

vars == <<seat, channels, vote, running, timers, cooldown, asking, ending>>

-------------------------------------------------------------------------------
Places == Channels \X Users
Unused == [channel |-> None, target |-> None, room |-> {}, yes |-> {}, no |-> {}, late |-> FALSE]

\* late: history, the start was overtaken between its checks and the vote.
VoteType ==
  [channel : Channels, target : Users, room : SUBSET Users, yes : SUBSET Users, no : SUBSET Users,
   late : BOOLEAN]
AskType == [channel : Channels, target : Users, room : SUBSET Users, late : BOOLEAN]
Nothing == [channel |-> None, target |-> None, room |-> {}, late |-> FALSE]

Members(c) == {u \in Users : seat[u] = c}
Electorate(v) == vote[v].room \ {vote[v].target}

TypeOK ==
  /\ seat \in [Users -> Channels \cup {None}] /\ channels \subseteq Channels
  /\ vote \in [Votes -> VoteType \cup {Unused}]
  /\ running \in [Channels -> Votes \cup {None}]
  /\ timers \subseteq Votes
  /\ cooldown \subseteq Places
  /\ asking \in [Users -> AskType \cup {Nothing}]
  /\ ending \in [Votes -> {"no", "blocking", "leaving"}]
  /\ \A v \in Votes : vote[v].yes \cap vote[v].no = {} /\ vote[v].yes \cup vote[v].no \subseteq Electorate(v)

\* voteKickQuorum, voteKickOutcome and outcomeOf.
Quorum(roomSize) == (roomSize + 1) \div 2
Outcome(yes, no, roomSize) ==
  IF yes + no < Quorum(roomSize) THEN "quorum"
  ELSE IF yes > no THEN "passed"
  ELSE IF yes = no THEN "tie" ELSE "rejected"
\* Mutant: the room is counted when the vote ends.
PassesNow(b) == Outcome(Cardinality(b.yes), Cardinality(b.no), Cardinality(Members(b.channel))) = "passed"

Passes(b) == Outcome(Cardinality(b.yes), Cardinality(b.no), Cardinality(b.room)) = "passed"

\* Objects somebody refers to.
InUse == timers \cup {v \in Votes : ending[v] # "no" \/ \E c \in Channels : running[c] = v}

\* What every step does to the requests and votes under way: history, and what nobody refers to is gone.
Overtaken(a) == seat'[a.target] # a.channel \/ running'[a.channel] # running[a.channel]
Aftermath(asked, votes) ==
  /\ asking' = [u \in Users |-> IF asked[u] # Nothing /\ Overtaken(asked[u])
                                THEN [asked[u] EXCEPT !.late = TRUE] ELSE asked[u]]
  /\ vote' = [v \in Votes |-> IF v \in InUse' THEN votes[v] ELSE Unused]

\* VoteKicks.end() for the channels in cs, whatever runs there.
End(cs) ==
  LET over == {c \in cs : running[c] # None}
  IN  /\ running' = [c \in Channels |-> IF c \in over THEN None ELSE running[c]]
      /\ cooldown' = cooldown \cup {<<c, vote[running[c]].target>> : c \in over}

\* The presence has the seats s and tells of the channels in cs: a vote about an absent member ends, "gone".
Seats(s, cs) ==
  LET gone == {c \in cs : running[c] # None /\ s[vote[running[c]].target] # c}
  IN  /\ seat' = s
      /\ End(gone)
      /\ timers' = timers \ {running[c] : c \in gone}

Init ==
  /\ seat = [u \in Users |-> None] /\ channels = Channels
  /\ vote = [v \in Votes |-> Unused] /\ running = [c \in Channels |-> None] /\ timers = {}
  /\ cooldown = {}
  /\ asking = [u \in Users |-> Nothing] /\ ending = [v \in Votes |-> "no"]

-------------------------------------------------------------------------------
(* Starting and voting.                                                    *)

\* The checks of the start, up to the names.
Ask(u, c, t) ==
  /\ asking[u] = Nothing /\ u # t /\ Cardinality({w \in Users : asking[w] # Nothing}) < MaxStarts
  /\ c \in channels \cap Allowed /\ {u, t} \subseteq Members(c)
  /\ Cardinality(Members(c)) >= MinMembers /\ Members(c) \cap Moderators = {}
  /\ running[c] = None /\ <<c, t>> \notin cooldown
  /\ UNCHANGED <<seat, channels, running, timers, cooldown, ending>>
  /\ Aftermath([asking EXCEPT ![u] = [channel |-> c, target |-> t, room |-> Members(c), late |-> FALSE]], vote)

\* Mutant: a vote that is running keeps its timer for itself.
StartShared(u, v) ==
  /\ asking[u] # Nothing /\ v \notin InUse
  /\ LET a == asking[u]
     IN  /\ running' = [running EXCEPT ![a.channel] = v]
         /\ timers' = IF running[a.channel] = None THEN timers \cup {v} ELSE timers
         /\ UNCHANGED <<seat, channels, cooldown, ending>>
         /\ Aftermath([asking EXCEPT ![u] = Nothing],
                      [vote EXCEPT ![v] = [channel |-> a.channel, target |-> a.target, room |-> a.room,
                                           yes |-> {u}, no |-> {}, late |-> a.late]])

\* start(): the entry of a vote that runs meanwhile is overwritten, its timer is not.
Start(u, v) ==
  /\ asking[u] # Nothing /\ v \notin InUse
  /\ LET a == asking[u]
     IN  /\ running' = [running EXCEPT ![a.channel] = v]
         /\ timers' = timers \cup {v}
         /\ UNCHANGED <<seat, channels, cooldown, ending>>
         /\ Aftermath([asking EXCEPT ![u] = Nothing],
                      [vote EXCEPT ![v] = [channel |-> a.channel, target |-> a.target, room |-> a.room,
                                           yes |-> {u}, no |-> {}, late |-> a.late]])

\* The names are not there: the starter or the member is gone from the table.
AskFails(u) ==
  /\ asking[u] # Nothing
  /\ UNCHANGED <<seat, channels, running, timers, cooldown, ending>>
  /\ Aftermath([asking EXCEPT ![u] = Nothing], vote)

\* The vote of the channel is over by time or because all have voted; b is the vote as it stands.
Decide(c, b) ==
  /\ End({c})
  /\ ending' = IF Passes(b) THEN [ending EXCEPT ![running[c]] = "blocking"] ELSE ending
  /\ UNCHANGED <<seat, channels>>
  /\ Aftermath(asking, [vote EXCEPT ![running[c]] = b])

\* Mutant: whoever is there may vote.
CastByAnyone(u, c, yes) ==
  /\ c \in channels /\ running[c] # None
  /\ LET v == running[c]
         b == [vote[v] EXCEPT !.yes = IF yes THEN @ \cup {u} ELSE @, !.no = IF yes THEN @ ELSE @ \cup {u}]
     IN  /\ u \notin vote[v].yes \cup vote[v].no
         /\ IF Electorate(v) \subseteq b.yes \cup b.no
            THEN timers' = timers \ {v} /\ Decide(c, b)
            ELSE /\ UNCHANGED <<seat, channels, running, timers, cooldown, ending>>
                 /\ Aftermath(asking, [vote EXCEPT ![v] = b])

\* cast(): whoever sat there at the start, wherever they sit now.
Cast(u, c, yes) ==
  /\ c \in channels /\ running[c] # None
  /\ LET v == running[c]
         b == [vote[v] EXCEPT !.yes = IF yes THEN @ \cup {u} ELSE @, !.no = IF yes THEN @ ELSE @ \cup {u}]
     IN  /\ u \in Electorate(v) \ (vote[v].yes \cup vote[v].no)
         /\ IF Electorate(v) \subseteq b.yes \cup b.no
            THEN timers' = timers \ {v} /\ Decide(c, b)
            ELSE /\ UNCHANGED <<seat, channels, running, timers, cooldown, ending>>
                 /\ Aftermath(asking, [vote EXCEPT ![v] = b])

\* The minute is over: the timer ends whatever runs in its channel.
TimeOver(v) ==
  /\ v \in timers
  /\ LET c == vote[v].channel
     IN  /\ timers' = timers \ {v, running[c]}
         /\ IF running[c] = None
            THEN UNCHANGED <<seat, channels, running, cooldown, ending>> /\ Aftermath(asking, vote)
            ELSE Decide(c, vote[running[c]])

-------------------------------------------------------------------------------
(* The end of a passed vote.                                               *)

\* The block is set, everybody gets the result; the settings are loaded next.
BlockSet(v) ==
  /\ ending[v] = "blocking"
  /\ ending' = [ending EXCEPT ![v] = "leaving"]
  /\ UNCHANGED <<seat, channels, running, timers, cooldown>>
  /\ Aftermath(asking, vote)

\* The statement fails, also because the channel is gone: finish() ends there.
BlockFails(v) ==
  /\ ending[v] = "blocking"
  /\ ending' = [ending EXCEPT ![v] = "no"]
  /\ UNCHANGED <<seat, channels, running, timers, cooldown>>
  /\ Aftermath(asking, vote)

\* leaveUser(): out of whatever channel the member sits in by now.
Remove(v) ==
  /\ ending[v] = "leaving"
  /\ ending' = [ending EXCEPT ![v] = "no"]
  /\ Seats([seat EXCEPT ![vote[v].target] = None], {seat[vote[v].target]} \ {None})
  /\ UNCHANGED channels
  /\ Aftermath(asking, vote)

-------------------------------------------------------------------------------
(* The presence, and what clears.                                          *)

\* A member sits down; the blocks are left to ChannelBlocks.
Sit(u, c) ==
  /\ c \in channels
  /\ Seats([seat EXCEPT ![u] = c], {seat[u], c} \ {None})
  /\ UNCHANGED <<channels, ending>>
  /\ Aftermath(asking, vote)

Stand(u) ==
  /\ seat[u] # None
  /\ Seats([seat EXCEPT ![u] = None], {seat[u]})
  /\ UNCHANGED <<channels, ending>>
  /\ Aftermath(asking, vote)

\* A member's mute state changes: the presence tells of the channel as it is.
Status(u) ==
  /\ seat[u] # None
  /\ Seats(seat, {seat[u]})
  /\ UNCHANGED <<channels, ending>>
  /\ Aftermath(asking, vote)

\* removeMember(): the seat, then the cooldowns.
Kick(u) ==
  /\ LET s == [seat EXCEPT ![u] = None]
         cs == {seat[u]} \ {None}
         gone == {c \in cs : running[c] # None /\ vote[running[c]].target = u}
     IN  /\ seat' = s
         /\ running' = [c \in Channels |-> IF c \in gone THEN None ELSE running[c]]
         /\ timers' = timers \ {running[c] : c \in gone}
  /\ cooldown' = {p \in cooldown : p[2] # u}
  /\ UNCHANGED <<channels, ending>>
  /\ Aftermath(asking, vote)

\* A channel is deleted: the seats, the vote, its cooldowns.
Delete(c) ==
  /\ c \in channels /\ channels' = channels \ {c}
  /\ seat' = [u \in Users |-> IF seat[u] = c THEN None ELSE seat[u]]
  /\ running' = [running EXCEPT ![c] = None] /\ timers' = timers \ {running[c]}
  /\ cooldown' = {p \in cooldown : p[1] # c}
  /\ UNCHANGED ending
  /\ Aftermath(asking, vote)

CooldownOver(p) ==
  /\ p \in cooldown /\ cooldown' = cooldown \ {p}
  /\ UNCHANGED <<seat, channels, running, timers, ending>>
  /\ Aftermath(asking, vote)

\* All of it is in memory.
Restart ==
  /\ seat' = [u \in Users |-> None]
  /\ vote' = [v \in Votes |-> Unused] /\ running' = [c \in Channels |-> None] /\ timers' = {}
  /\ cooldown' = {} /\ asking' = [u \in Users |-> Nothing] /\ ending' = [v \in Votes |-> "no"]
  /\ UNCHANGED channels

Next ==
  \/ Restart
  \/ \E u \in Users :
       \/ AskFails(u) \/ Stand(u) \/ Status(u) \/ Kick(u)
       \/ \E v \in Votes : Start(u, v)
       \/ \E c \in Channels :
            \/ \E t \in Users : Ask(u, c, t)
            \/ Sit(u, c)
            \/ \E yes \in BOOLEAN : Cast(u, c, yes)
  \/ \E v \in Votes : TimeOver(v) \/ BlockSet(v) \/ BlockFails(v) \/ Remove(v)
  \/ \E c \in Channels : Delete(c)
  \/ \E p \in Places : CooldownOver(p)

Spec == Init /\ [][Next]_vars

-------------------------------------------------------------------------------
(* Properties.                                                             *)

\* A running vote always has the timer that ends it, and, unless its start was overtaken, is about a member
\* who sits in the channel and about whom a vote may be held: every way out of a channel reaches the store.
VoteIsSound ==
  \A c \in Channels : running[c] # None =>
    LET b == vote[running[c]]
    IN  /\ running[c] \in timers /\ b.channel = c
        /\ b.late \/ (seat[b.target] = c /\ <<c, b.target>> \notin cooldown)

\* Whoever is voted out had half of the room voting and more votes against them than for them, of the room the vote
\* began in: whoever has left or come since, whatever arrives while the end of the vote waits, and also when the
\* timer of an overwritten vote ended it early.
DecidedByTheRoom ==
  \A v \in Votes : ending[v] # "no" =>
    LET yes == Cardinality(vote[v].yes)
        no  == Cardinality(vote[v].no)
    IN  yes > no /\ 2 * (yes + no) >= Cardinality(vote[v].room)

\* What the room has said stands: a vote keeps its question and its room, no ballot is taken back or changed, and
\* none counts once the vote is decided, though the entry of a running vote may be overwritten and a vote may be
\* ended by the timer of another.
BallotsStand ==
  [][\A v \in Votes : {vote[v], vote'[v]} \subseteq VoteType =>
       /\ <<vote'[v].channel, vote'[v].target, vote'[v].room>> = <<vote[v].channel, vote[v].target, vote[v].room>>
       /\ vote[v].yes \subseteq vote'[v].yes /\ vote[v].no \subseteq vote'[v].no
       /\ ending[v] # "no" => vote'[v].yes = vote[v].yes /\ vote'[v].no = vote[v].no]_vars

\* A passed vote takes the member out of its own channel and of no other.  Not so (README, section 7): the member
\* may have gone elsewhere while the end of the vote waited, and leaveUser() takes them out wherever they are.
RemovedInPlace ==
  [][\A v \in Votes : Remove(v) => seat[vote[v].target] \in {None, vote[v].channel}]_vars
=================================================================================
