------------------------------ MODULE ChannelBlocks ------------------------------
(***************************************************************************)
(* Channel blocks (apps/server/src/voice/channelBlocks.ts, the routes in   *)
(* routes/channelBlocks.ts, the clearing in routes/members.ts and          *)
(* routes/channels.ts): who may not enter which voice channel.  The table  *)
(* is the truth after a restart, the map in memory is what voice.join and  *)
(* the token route ask.  A change is two steps, in the table and in        *)
(* memory, and the order differs; a block that ran out is removed from     *)
(* the table by a statement nobody waits for.  The statements travel over  *)
(* a pool of connections, so those in flight run in any order.             *)
(* Beside the blocks stand the ways into a channel: the seats, a join past *)
(* its check, a moderator's move, and the hello that puts a member back    *)
(* where LiveKit still lists them.                                         *)
(***************************************************************************)
EXTENDS Naturals, FiniteSets

CONSTANTS
  Channels, Users,
  Blocks,     \* the entries ever made
  Permanent,  \* those without an end
  Votes,      \* those a vote kick makes (source "votekick")
  Requests,   \* requests that change blocks at the same time
  None,       \* null
  Nobody, Unsure

Keys == Channels \X Users

ASSUME PermanentIsBlock == Permanent \subseteq Blocks
ASSUME VotesAreTimed == Votes \subseteq Blocks \ Permanent
ASSUME NoneIsNothing == None \notin Blocks \cup Channels /\ Nobody \notin Blocks \cup {None}
ASSUME UnsureIsNothing == Unsure \notin Blocks \cup {None, Nobody}

VARIABLES
  entries,  \* ChannelBlocks.entries
  rows,     \* the table channel_blocks
  ended,    \* blocks whose time is over
  made,     \* blocks made so far
  request,  \* what each request is doing
  sweeping, \* keys with a removal under way that nobody waits for
  seat,     \* VoicePresence: the channels a member's connections sit in
  joining,  \* voice.join: the channel whose block check was passed
  grant,    \* MoveGrants: the channel a moderator moved the member to
  leaving,  \* vote kicks in force whose member has not been taken out yet
  clashed,  \* history: keys on which changes overlapped since the start
  told,     \* history: what the last change answered, if nothing has been asked since
  excused   \* history: the ways in that a block does not close, each with its reason

vars == <<entries, rows, ended, made, request, sweeping, seat, joining, grant, leaving, clashed, told, excused>>
voice == <<seat, joining, grant, leaving, excused>>

-------------------------------------------------------------------------------
Values == Blocks \cup {None}
Idle == [kind |-> "idle", keys |-> {}, block |-> None, st |-> "answered"]
RequestType ==
  {Idle} \cup [kind : {"set", "lift", "clear", "drop"}, keys : SUBSET Keys, block : Values,
               st : {"sent", "done", "failed"}]

\* Why a member may be in a channel that is blocked for them (BlockedIsOut).
Reasons == {"crossed", "beside", "moved", "voted", "restored"}

TypeOK ==
  /\ entries \in [Keys -> Values] /\ rows \in [Keys -> Values]
  /\ ended \subseteq made \ Permanent /\ made \subseteq Blocks
  /\ request \in [Requests -> RequestType]
  /\ sweeping \subseteq Keys /\ clashed \subseteq Keys
  /\ seat \in [Users -> SUBSET Channels]
  /\ joining \in [Users -> Channels \cup {None}]
  /\ grant \in [Users -> Channels \cup {None}]
  /\ told \in [Keys -> Values \cup {Unsure}]
  /\ leaving \subseteq Votes \X Users
  /\ excused \subseteq Keys \X Reasons

\* Where a member sits, or may sit down without another look at the blocks.
Ways(u) == seat[u] \cup ({joining[u], grant[u]} \cap Channels)

\* An excuse lasts as long as there is a way in.
Lasting(es) == {e \in es : e[1][1] \in Ways(e[1][2])'}
Excuse(k, why, holds) == {e \in {<<k, why>>} : holds}

\* live(): a block whose time is over is none.
Live(v) == IF v \in ended THEN None ELSE v

Busy(k) == {r \in Requests : k \in request[r].keys}
Setting(k) == {r \in Busy(k) : request[r].kind = "set"}

\* Keys of a new change that meets one under way; removals do not clash with each other.
Clashes(ks, kind) ==
  {k \in ks : IF kind = "set" THEN Busy(k) # {} \/ k \in sweeping ELSE Setting(k) # {}}

Asks(r, kind, ks, b) ==
  /\ request[r] = Idle
  /\ request' = [request EXCEPT ![r] = [kind |-> kind, keys |-> ks, block |-> b, st |-> "sent"]]
  /\ told' = [k \in Keys |-> IF k \in ks THEN Unsure ELSE told[k]]

\* of(): an entry that ran out goes at once, its row when the statement gets there.
Expired(k) == entries[k] \in ended
Swept(ks) == sweeping \cup {k \in ks : Expired(k)}
ClashesOfSweep(ks) == {k \in ks : Expired(k) /\ Setting(k) # {}}

Forgotten(ks) == [k \in Keys |-> IF k \in ks THEN None ELSE entries[k]]
Removed(ks) == [k \in Keys |-> IF k \in ks THEN None ELSE rows[k]]

Init ==
  /\ entries = [k \in Keys |-> None] /\ rows = entries
  /\ ended = {} /\ made = {}
  /\ request = [r \in Requests |-> Idle] /\ sweeping = {}
  /\ seat = [u \in Users |-> {}] /\ joining = [u \in Users |-> None] /\ grant = joining
  /\ leaving = {} /\ clashed = {} /\ told = entries /\ excused = {}

-------------------------------------------------------------------------------
(* The changes.                                                            *)

\* set(): the table first.
Set(r, k, b) ==
  /\ b \in Blocks \ made /\ made' = made \cup {b}
  /\ Asks(r, "set", {k}, b)
  /\ clashed' = clashed \cup Clashes({k}, "set")
  /\ UNCHANGED <<entries, rows, ended, sweeping, voice>>

\* lift(): memory first.
Lift(r, k) ==
  /\ Asks(r, "lift", {k}, None)
  /\ entries' = Forgotten({k}) /\ sweeping' = Swept({k})
  /\ clashed' = clashed \cup Clashes({k}, "lift")
  /\ UNCHANGED <<rows, ended, made, voice>>

\* removeMember(): a kick or ban; the seat and the grant go before the blocks.
Clear(r, u) ==
  /\ LET ks == {k \in Keys : k[2] = u}
     IN  /\ Asks(r, "clear", ks, None)
         /\ entries' = Forgotten(ks)
         /\ clashed' = clashed \cup Clashes(ks, "clear")
  /\ seat' = [seat EXCEPT ![u] = {}] /\ grant' = [grant EXCEPT ![u] = None]
  /\ UNCHANGED <<rows, ended, made, sweeping, joining, leaving>>
  /\ excused' = Lasting(excused)

\* A channel is deleted: its rows go by cascade, the entries after that.
Drop(r, c) ==
  /\ LET ks == {k \in Keys : k[1] = c}
     IN  Asks(r, "drop", ks, None) /\ clashed' = clashed \cup Clashes(ks, "drop")
  /\ UNCHANGED <<entries, rows, ended, made, sweeping, voice>>

\* The statement of a request runs in the database.
Run(r) ==
  /\ request[r].st = "sent"
  /\ request' = [request EXCEPT ![r].st = "done"]
  /\ rows' = IF request[r].kind = "set"
             THEN [k \in Keys |-> IF k \in request[r].keys THEN request[r].block ELSE rows[k]]
             ELSE Removed(request[r].keys)
  /\ UNCHANGED <<entries, ended, made, sweeping, clashed, told, voice>>

Fail(r) ==
  /\ request[r].st = "sent"
  /\ request' = [request EXCEPT ![r].st = "failed"]
  /\ UNCHANGED <<entries, rows, ended, made, sweeping, clashed, told, voice>>

\* What a request leaves behind for the answer; only one that is alone on its key may say so.
Answered(r) ==
  [k \in Keys |-> IF k \in request[r].keys /\ Busy(k) = {r} THEN request[r].block ELSE told[k]]

\* Mutant: memory first here too.
SetDoneLate(r) ==
  /\ request[r].kind = "set" /\ request[r].st \in {"done", "failed"}
  /\ request' = [request EXCEPT ![r] = Idle]
  /\ entries' = [k \in Keys |-> IF k \in request[r].keys THEN request[r].block ELSE entries[k]]
  /\ told' = Answered(r)
  /\ UNCHANGED <<rows, ended, made, sweeping, clashed, voice>>

\* set() resumes: the block is in force.
InForce(r) ==
  /\ request[r].kind = "set" /\ request[r].st = "done"
  /\ request' = [request EXCEPT ![r] = Idle]
  /\ entries' = [k \in Keys |-> IF k \in request[r].keys THEN request[r].block ELSE entries[k]]
  /\ told' = Answered(r)
  /\ UNCHANGED <<rows, ended, made, sweeping, joining, clashed>>

\* The channel of the member's first connection, the only one that is looked at.
First(u) == IF seat[u] = {} THEN {None} ELSE seat[u]

\* The member is out of all seats, if the first one is in the channel of the block.
Removes(k, first) ==
  /\ seat' = [seat EXCEPT ![k[2]] = IF first = k[1] THEN {} ELSE @]
  /\ excused' = Lasting(excused \cup Excuse(k, "crossed", joining[k[2]] = k[1])
                                \cup Excuse(k, "beside", first # k[1] /\ k[1] \in seat[k[2]]))

\* Mutant: the member keeps the way back a moderator had opened.
SetKeepsGrant(r) ==
  /\ InForce(r) /\ request[r].block \notin Votes
  /\ UNCHANGED <<grant, leaving>>
  /\ \E k \in request[r].keys : \E first \in First(k[2]) : Removes(k, first)

\* A moderator's block: a grant for the channel goes, and the member, if their first connection sits there.
SetDone(r) ==
  /\ InForce(r) /\ request[r].block \notin Votes
  /\ \E k \in request[r].keys :
       /\ grant' = [grant EXCEPT ![k[2]] = IF @ = k[1] THEN None ELSE @]
       /\ \E first \in First(k[2]) : Removes(k, first)
  /\ UNCHANGED leaving

\* A vote kick's: the member stays where they are until the server's name has been read; a grant stays too.
VoteInForce(r) ==
  /\ InForce(r) /\ request[r].block \in Votes
  /\ \E k \in request[r].keys :
       /\ leaving' = leaving \cup {<<request[r].block, k[2]>>}
       /\ excused' = excused \cup Excuse(k, "voted", k[1] \in Ways(k[2]))
  /\ UNCHANGED <<seat, grant>>

\* finish() resumes: out of wherever the member sits by now.
VoteRemoves(b, u) ==
  /\ <<b, u>> \in leaving /\ leaving' = leaving \ {<<b, u>>}
  /\ seat' = [seat EXCEPT ![u] = {}]
  /\ UNCHANGED <<entries, rows, ended, made, request, sweeping, clashed, told, joining, grant>>
  /\ excused' = Lasting(excused)

\* A removal is done; of a channel that is deleted, the seats and the entries go now.
RemovalDone(r) ==
  /\ request[r].kind \in {"lift", "clear", "drop"} /\ request[r].st = "done"
  /\ request' = [request EXCEPT ![r] = Idle]
  /\ entries' = IF request[r].kind = "drop" THEN Forgotten(request[r].keys) ELSE entries
  /\ told' = Answered(r)
  /\ seat' = [u \in Users |-> {c \in seat[u] : request[r].kind # "drop" \/ <<c, u>> \notin request[r].keys}]
  /\ UNCHANGED <<rows, ended, made, sweeping, clashed, joining, grant, leaving>>
  /\ excused' = Lasting(excused)

\* The request ends with an error; of a lift, memory has forgotten the block already.
Refused(r) ==
  /\ request[r].st = "failed"
  /\ request' = [request EXCEPT ![r] = Idle]
  /\ UNCHANGED <<entries, rows, ended, made, sweeping, clashed, told, voice>>

\* Anybody asks of(): the token route, all().
Ask(k) ==
  /\ Expired(k)
  /\ entries' = Forgotten({k}) /\ sweeping' = Swept({k})
  /\ clashed' = clashed \cup ClashesOfSweep({k})
  /\ UNCHANGED <<rows, ended, made, request, told, voice>>

\* The statement nobody waits for runs, or fails unheard.
Sweep(k) ==
  /\ k \in sweeping /\ sweeping' = sweeping \ {k}
  /\ rows' \in {rows, Removed({k})}
  /\ UNCHANGED <<entries, ended, made, request, clashed, told, voice>>

\* Mutant: a block without an end runs out like any other.
AnyTimeOver(b) ==
  /\ b \in made \ ended
  /\ ended' = ended \cup {b}
  /\ UNCHANGED <<entries, rows, made, request, sweeping, clashed, told, voice>>

TimeOver(b) ==
  /\ b \in made \ (Permanent \cup ended)
  /\ ended' = ended \cup {b}
  /\ UNCHANGED <<entries, rows, made, request, sweeping, clashed, told, voice>>

\* Mutant: the start removes what ran out and loads nothing.
RestartUnread ==
  /\ rows' = [k \in Keys |-> Live(rows[k])] /\ entries' = [k \in Keys |-> None]
  /\ request' = [r \in Requests |-> Idle] /\ sweeping' = {} /\ clashed' = {}
  /\ seat' = [u \in Users |-> {}] /\ joining' = [u \in Users |-> None] /\ grant' = joining'
  /\ leaving' = {} /\ excused' = {}
  /\ told' = [k \in Keys |-> IF k \in clashed THEN Unsure ELSE told[k]]
  /\ UNCHANGED <<ended, made>>

\* The server starts again: attach() reads the table and removes what ran out.
Restart ==
  /\ rows' = [k \in Keys |-> Live(rows[k])] /\ entries' = rows'
  /\ request' = [r \in Requests |-> Idle] /\ sweeping' = {} /\ clashed' = {}
  /\ seat' = [u \in Users |-> {}] /\ joining' = [u \in Users |-> None] /\ grant' = joining'
  /\ leaving' = {} /\ excused' = {}
  /\ told' = [k \in Keys |-> IF k \in clashed THEN Unsure ELSE told[k]]
  /\ UNCHANGED <<ended, made>>

-------------------------------------------------------------------------------
(* Who sits where.                                                         *)

\* A moderator moves the member: the grant opens the channel, blocked or not.
Move(u, c) ==
  LET k == <<c, u>>
  IN  /\ grant' = [grant EXCEPT ![u] = c]
      /\ UNCHANGED <<entries, rows, ended, made, request, sweeping, seat, joining, leaving, clashed, told>>
      /\ excused' = Lasting(excused \cup Excuse(k, "moved", Live(entries[k]) # None))

\* The grant's time is over, or the member is moved out of all channels.
GrantEnds(u) ==
  /\ grant[u] # None /\ grant' = [grant EXCEPT ![u] = None]
  /\ UNCHANGED <<entries, rows, ended, made, request, sweeping, seat, joining, leaving, clashed, told>>
  /\ excused' = Lasting(excused)

\* voice.join up to its block check; more awaits follow.
JoinChecked(u, c) ==
  LET k == <<c, u>>
  IN  /\ joining[u] = None /\ joining' = [joining EXCEPT ![u] = c]
      /\ \/ grant[u] = c /\ UNCHANGED <<entries, sweeping, clashed>>
         \/ /\ grant[u] # c /\ Live(entries[k]) = None
            /\ entries' = IF Expired(k) THEN Forgotten({k}) ELSE entries
            /\ sweeping' = Swept({k}) /\ clashed' = clashed \cup ClashesOfSweep({k})
      /\ UNCHANGED <<rows, ended, made, request, told, seat, grant, leaving, excused>>

\* The join takes its seat; the seats of the account found before the last await end, and so does the grant.
Seated(u) ==
  /\ joining[u] # None /\ joining' = [joining EXCEPT ![u] = None]
  /\ \E others \in SUBSET seat[u] : seat' = [seat EXCEPT ![u] = (@ \ others) \cup {joining[u]}]
  /\ grant' = [grant EXCEPT ![u] = IF @ = joining[u] THEN None ELSE @]
  /\ UNCHANGED <<entries, rows, ended, made, request, sweeping, clashed, told, leaving>>
  /\ excused' = Lasting(excused)

\* voice.join is refused after its block check.
JoinRefused(u) ==
  /\ joining[u] # None /\ joining' = [joining EXCEPT ![u] = None]
  /\ UNCHANGED <<entries, rows, ended, made, request, sweeping, clashed, told, seat, grant, leaving>>
  /\ excused' = Lasting(excused)

\* hello: LiveKit lists the member in a room and no connection sits anywhere; nobody asks about blocks.
Restore(u, c) ==
  LET k == <<c, u>>
  IN  /\ seat[u] = {} /\ seat' = [seat EXCEPT ![u] = {c}]
      /\ excused' = excused \cup Excuse(k, "restored", Live(entries[k]) # None)
      /\ UNCHANGED <<entries, rows, ended, made, request, sweeping, clashed, told, joining, grant, leaving>>

LeaveSeat(u, c) ==
  /\ c \in seat[u] /\ seat' = [seat EXCEPT ![u] = @ \ {c}]
  /\ UNCHANGED <<entries, rows, ended, made, request, sweeping, clashed, told, joining, grant, leaving>>
  /\ excused' = Lasting(excused)

Next ==
  \/ Restart
  \/ \E r \in Requests :
       \/ \E k \in Keys : Lift(r, k) \/ \E b \in Blocks : Set(r, k, b)
       \/ \E u \in Users : Clear(r, u)
       \/ \E c \in Channels : Drop(r, c)
       \/ Run(r) \/ Fail(r) \/ SetDone(r) \/ VoteInForce(r) \/ RemovalDone(r) \/ Refused(r)
  \/ \E k \in Keys : Ask(k) \/ Sweep(k)
  \/ \E b \in Blocks : TimeOver(b)
  \/ \E u \in Users :
       \/ Seated(u) \/ JoinRefused(u) \/ GrantEnds(u)
       \/ \E b \in Votes : VoteRemoves(b, u)
       \/ \E c \in Channels : Move(u, c) \/ JoinChecked(u, c) \/ Restore(u, c) \/ LeaveSeat(u, c)

Spec == Init /\ [][Next]_vars

-------------------------------------------------------------------------------
(* Properties.                                                             *)

\* What a change answered holds, in memory and, for the next start, in the table, until the next one is
\* asked for, unless changes of the same key overlapped.
AnsweredHolds ==
  \A k \in Keys \ clashed :
    told[k] # Unsure => Live(entries[k]) = Live(told[k]) /\ Live(rows[k]) = Live(told[k])

\* While a block runs, the member neither sits in the channel nor has a way in that nobody checks again: no
\* join past its check, no grant. But for five, each until the member has lost every way in: a join that had
\* passed its check when the block came, a seat beside another the moderator's block met first, a move after
\* the block, a vote kick's removal that is still to come, and a seat restored at hello.
BlockedIsOut ==
  \A u \in Users : \A c \in Channels :
    c \in Ways(u) /\ Live(entries[<<c, u>>]) # None => \E why \in Reasons : <<<<c, u>>, why>> \in excused

\* What the feature is for (docs/features/channel-blocks.md): only a moderator's move lets a blocked member
\* be in the channel.  The code does not keep it: see BlockedIsOut for the other ways.
BlockedIsGone ==
  \A u \in Users : \A c \in seat[u] :
    Live(entries[<<c, u>>]) # None => <<<<c, u>>, "moved">> \in excused

\* The store keeps the promises of the book.
Targets(k) == {Live(request[r].block) : r \in Busy(k)}
Book == INSTANCE BlockBook WITH
  book  <- [k \in Keys |-> IF k \in clashed THEN Unsure ELSE Live(entries[k])],
  may   <- [k \in Keys |-> IF k \in clashed THEN {Unsure}
                           ELSE {Live(entries[k]), Live(rows[k])} \cup Targets(k)],
  asked <- [k \in Keys |-> IF k \in clashed \/ Busy(k) = {} THEN Nobody
                           ELSE CHOOSE v \in Targets(k) : TRUE]

KeepsTheBook == Book!Spec
==================================================================================
