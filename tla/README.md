# Formal models of squorli-server

TLA+ models of the parts of squorli-server whose correctness depends on the order in which
things happen, model checked with TLC and, for the safety properties, proved with TLAPS.

The server is one Node.js process with a PostgreSQL database, a LiveKit server beside it for voice, and clients that
talk HTTP and one WebSocket each. JavaScript runs one piece of code at a time, but every `await` is
a point where any other request, event or timer may run. Almost every hazard here is of that
kind: something is read, the handler waits, and what was read is used afterwards. So
**an action of these models is what a handler does between two of its awaits**, and the interleavings
TLC explores are the interleavings of the event loop.

## 1. Inventory

Paths are relative to `src/`; `server/` stands for `apps/server/src/`.

| Component | State | Operations | Talks to | What is hard | What makes it correct |
|---|---|---|---|---|---|
| Visibility snapshot (`server/visibility.ts`) | `version`, `ctx`, `loading`, `perUser` | `invalidate`, `refresh`, `masksOf`, `forgetUser`, `canSee` | every route (checks), voice (seat and grant), hub (fan-out) | one load shared by many callers, changes announced while it runs, masks cached under a key | nobody authorizes on data older than the last announcement before they asked; `refresh` ends |
| Handshake and the end of a session (`server/ws/handler.ts`, `auth/session.ts`, `auth/routes.ts`, `users/*.ts`, `routes/members.ts`) | sockets, sessions, members, bans, suspensions | `hello`, `admit`, sign-out, clean-up of expired rows, device revocation, kick, ban, unban, deletion, suspension, expiry | hub, database, directory | five awaits in the handshake, as many in a sign-in, every revocation is a row first and sockets later | an open, welcomed socket has a session and a membership, or is about to be closed |
| Hub and liveness (`server/hub.ts`, `ws/liveness.ts`) | six maps over connections and users, grace timers | `add`, `remove`, `setIdle`, `setStale`, `setGame`, `sweep`, `heard` | handler, AFK mover, state fan-out | timers against events, several books about one connection | AFK exactly when away everywhere; listeners are told of every change; vanished peers are found |
| Voice seats (`server/voice/presence.ts`, `sticky.ts`, `confine.ts`) | seats per connection, move grants, the hold in the database | `voice.join`, `voice.leave`, close, restore, heartbeat, move, block, evict | handler, LiveKit, visibility | `voice.join` has up to nine awaits; the hold survives restarts, the seats do not; LiveKit knows better | lists are right, guesses give way, held members stay held |
| Channel blocks (`server/voice/channelBlocks.ts`) | a map beside a table | `attach`, `of`, `all`, `set`, `lift`, `clearUser`, `clearChannel` | `voice.join`, vote kick | lazy expiry deletes the row without waiting; the seats have ways in that ask no block | a block that was answered with success is in force, before and after a restart; whoever is blocked is out |
| Vote kick (`server/voice/votekick.ts`, `routes/votekick.ts`) | running votes, timers, cooldowns | `start`, `cast`, `end`, `finish` | presence, blocks | check, await, start; timers; the room changes during the vote | one vote per channel, its minute is its own, the room of its start decides |
| AFK mover (`server/voice/afk.ts`, `index.ts`) | who was moved in this absence | `due`, `afkSweep` | hub, seats, grants | list read before awaits | each absence moves a member at most once |
| Permissions and ranks (`server/authz.ts`, `channelPermissions.ts`, `routes/members.ts`, `roles.ts`, `overwrites.ts`) | roles, members, overwrites | mask computation, rank checks, role routes | visibility | a long sequence of legal calls | nobody ends up above their own rank |
| Structure fan-out (`server/state.ts`) | what each client was sent | `broadcastStructure`, `sendStructureTo` | visibility, hub | parallel loads, no order between broadcasts | the last list a client gets is the list |
| Limits (`server/limits.ts`, `rateLimits.ts`) | measured bytes, hit windows | `used`, `room`, `invalidate`, `hit`, `sweep` | stores, HTTP | invalidation during a measurement | no stale measurement is trusted longer than announced |
| Sign-in (`server/auth/*.ts`) | challenges, server accounts | challenge, verify, claims, `admit` | directory | one-use values; the ban is read long before membership and session are written | a challenge is used once; who is banned does not get in (not so, see 7) |
| Directory client (`server/directory.ts`) | registration, known devices and suspensions | register, notify, leave | directory service | retries, pushes without proof | state converges after a failed call |
| Web radio (`server/radio/*.ts`) | idle timers, queues, titles | `sync`, `stop`, resolve | channels, presence | timer against join | a radio is not stopped for somebody |
| Start, stop, files (`server/index.ts`, `shutdown.ts`, `replaceFile.ts`) | process | signals, file replacement | operating system | retries, two timers | the process ends; a picture is the old or the new one |
| Read states (`server/routes/readState.ts`, `apps/web/src/readState.ts`, `serverConnection.ts`) | one number per member and channel; on each device the mark, `liveLatest`, `acked`, `read`, the cached history | posts, deletions, `syncReadState`, `loadHistory`, `acknowledge`, `read.update` | messages, WebSocket | answers over HTTP and events over the WebSocket overtake each other | an unread message keeps its mark |
| Web client: connection (`apps/web/src/serverConnection.ts`, `serverRetry.ts`) | session, socket, four timers, the notice and its plan | `resume`, `login`, `adopt`, `connect`, `heartbeat`, retries, `leave` | HTTP, WebSocket, store | handlers of former sockets, answers after a sign-out, silent deaths | one socket, a way back, the session lost only by a refusal |
| Messages, reports, previews, settings, invites, import, setup check | database rows, files | CRUD | database, network | little concurrency of their own | - |
| Protocol package, the rest of the web client, desktop app, deployment | - | - | - | - | see 8 |

`PROJECT.json` lists each component with its sources and status, and each hazard at its line.

How they interact: the handler (`ws/handler.ts`) drives hub, liveness and seats; routes change the
database and then call `broadcastStructure`, which invalidates the visibility snapshot; every check
of every route and of `voice.join` awaits that snapshot; the snapshot asks the seats and the
grants who sits where; the hub's presence listeners start the AFK sweep, which
grants moves; moderation routes and the sign-out reach back into hub and seats. A vote that passes sets a
block and takes the member out of their seat; the block is asked for in the `voice.join` of the handler. The client
enters with HTTP, holds one WebSocket, and after each `welcome` asks for what it missed.

## 2. Plan

1. **Visibility** and its proofs (done). Everything else relies on its promise.
2. **SocketAuth** and its proofs (done).
3. **Hub** and its proofs (done).
4. **VoiceSeats** and its proofs (done). Next: channels that are deleted or stop being
   sticky (`clearChannel`, `releaseAll`), BYPASS_STICKY, the token route, `removeLater`.
5. **Moderation**: `BlockBook`, `ChannelBlocks`, `VoteKick` and their proofs (done), `ChannelBlocks` with
   the seats of its channel. Next: the sticky hold of `VoiceSeats` in the same composition.
6. **Permissions**: masks and ranks as operators checked against a reference definition; role routes as
   actions; "no escalation" as an invariant and a theorem.
7. **Small machines**: `AfkMover`, `StorageMeter`, `WindowCounter`, `RadioIdleStop`, `replaceFile`, `shutdown`.
8. **Fan-out**: `broadcastStructure` and `sendStructureTo` over Visibility; what the last message of a client says.
9. **Accounts**: challenges, device enrolment and sweep, directory client.
10. **Web client**: `ServerConnection` and `ReadMarks` with their proofs (done). Next: servers beside the home server,
    the refusal of a server (`checkRefused`), mentions and the fallback without read states.

Abstract specifications worth stating: a cache that always answers with announced data (Visibility
refines it; VoiceSeats already uses it in the form of `Reload`), an atomic revocation
(SocketAuth refines it up to the pending second step), an atomic seat book (VoiceSeats). `BlockBook` is written, and
`ChannelBlocks` is proved to refine it. Theorems worth proving next: the other refinements, the rank invariant.

## 3. Modules

| Module | Models | Variables and what they are in the code |
|---|---|---|
| `Visibility` | `visibility.ts` | `version`, `ctx`, `loading`, `masks` are the class's fields; `db` counts the commits per table; `at`, `got` are the suspended callers of `refresh`; `base`, `since` are history (what was announced when) |
| `SocketAuth` | `hello` in `ws/handler.ts`, `lookUpSession`, `admit`, sign-out, clean-up of expired rows, devices, suspension, kick, ban, unban, deletion | `pc` is the await a handshake is at, `conn` the socket, `registered` the hub's maps, `timer` the expiry timer; `row`, `known` (users), `member`, `banned`, `refused`, `suspended` the tables; `signin` is the await an `admit()` is at; `banning`, `removing`, `wiping`, `ending`, `revoking`, `enforcing` are requests between their rows and their sockets; `wiped` is history |
| `Hub` | `hub.ts`, `ws/liveness.ts`, `reportGame` in the handler | the maps of the two classes one by one; `after` is the insertion order of `Hub.games`; ages and remaining terms instead of moments; `told` is what the listeners last heard |
| `VoiceSeats` | `voice/presence.ts`, `sticky.ts`, `confine.ts`, the voice events of the handler, the moves, blocks and evictions of the routes | `seat` is `byConn`, `told` what `emit` last said, `grant` is `MoveGrants`, `hold` the column `confined_channel_id`, `snap` the same in the visibility snapshot, `job` the handlers between two awaits, `asked` the heartbeat's question |
| `BlockBook` | what the block store promises | `book`: per channel and member the block in force, if any; `may`: what a crash or the change under way may make of it; `asked`: the value that change is to bring |
| `ChannelBlocks` | `voice/channelBlocks.ts`, `routes/channelBlocks.ts`, the set of a vote kick, the look of `voice.join`, the restore of `hello` | `entries` is the map, `rows` the table, `request` the changes between their first step and their answer, `sweeping` the removals `of` does not wait for; `seat` (the channels a member's connections sit in), `joining`, `grant` the seats, the join past its check and the move grants; `leaving` vote kicks that are in force and have yet to take the member out; `ended`, `made`, `told`, `clashed`, `excused` are history |
| `VoteKick` | `voice/votekick.ts`, `routes/votekick.ts`, the quorum of the protocol package | `vote` is a `RunningVote`, `running` the map by channel, `timers`, `cooldown`; `asking` the routes past their checks, `ending` the ends between their awaits; `late` in both records is history |
| `ServerConnection` | `apps/web/src/serverConnection.ts`, `serverRetry.ts`, the sign-out of `store.ts`, the screens of `App.tsx` | the fields of the class; sockets with their handlers and what they may still deliver; requests under way; the server, up or down |
| `ReadMarks` | `apps/web/src/serverConnection.ts`, `readState.ts`, `server/routes/readState.ts`, `messages.ts` | one channel on one device: `unread`, `liveLatest`, `read`, `acked`, `serverRead`, `cache` and the timers are the client's fields; `msgs`, `posted`, `lastRead` the tables; `wire` the events between statement and client; `due` is history |
| `MC...` | - | constants, bounds and symmetry for TLC |
| `...Proofs` | - | the inductive invariants and theorems |

Each action is named after the function or the step of the handler it stands for; `map` in
`PROJECT.json` gives its lines. Data is abstracted: a token is a session, a channel a model value, a mask the
snapshot it was computed from; permissions, blocks and limits in `VoiceSeats` are a refusal that may happen.
What is outside `src/` is one action: LiveKit's rooms (`Media`).

Three modelling decisions of the client's modules: (1) an event is on its way from the statement in the database until it is
handled, in any order, since the server awaits between the statement and the broadcast; (2) a socket that died
silently still counts as open for the client, so only the watchdog can find out; (3) `resume`, `login` and
`adopt` do not look, after their await, at whether they are still wanted, so the model does not either.

Operators whose comment begins with "Mutant:" are the models of plausible bugs, each
beside the definition it would replace; they are not part of any specification. Each
property has one that violates it.

## 4. Runs

| Run | Bounds | Shows |
|---|---|---|
| `visibility` | 2 tables, 1 writer, 2 callers of `refresh`, 1 user, 2 seats, 1 write per table, 2 invalidations | `FreshSnapshot`, `SettledSnapshot`: torn and overtaken loads never count as current. `DecisionIsFresh`: no decision on older data or on a former seat. `RefreshEnds`. Two tables are enough for a torn read, two callers for a shared load, two invalidations for one that overtakes a load twice |
| `socket_auth` | 1 socket, 2 sessions of 1 user, one of which begins with a sign-in; of a session's end, a refused device, a suspension and a deletion one happens (`OneLoss`; a state beyond it is checked, and nothing follows it) | `MemberOrCut`, `SessionOrCut`, `ExpiryCuts`, `RemovalCuts`. Handshakes do not interact with each other, only with revocations; a second session lets a revocation hit the wrong one, and its sign-in may cross every step of a kick or a ban. Deadlock is not checked: a socket that is closed and a user who is deleted are an end |
| `hub` | 2 connections, 1 user, 2 games, all terms 1 tick; at most one frozen connection, one waiting report, one connection in its handshake or about to close, no close during the handshake (`OneAtATime`; a state beyond it is checked, and nothing follows it) | `AfkMeansAway`, `AwayMeansAfk`, `BooksAgree`, `ListenersKnow`, `LastReportCounts`, `NewestReportShows`. Two connections are what "all of their connections" needs; a user does not influence another one |
| `hub_live` | 2 connections, 1 user, no games (`NobodyPlays`) | `VanishedIsClosed`, `AbsentTurnsAfk`, closes during the handshake included |
| `voice` | 2 connections of 1 user, 2 handlers under way, 2 channels, one of them sticky and not `stickyPersist` | `RestoredAlone`, `ListsKnow`, `HeldStaysHeld`. Two handlers give every overlap of two jobs; the channels are one that holds and one that does not |
| `voice_live` | 2 connections, 1 handler, the sticky channel is `stickyPersist` | `GuessEnds` |
| `connection` | 2 sessions, 2 sockets, `AutoTries` = `TriesAfterUser` = 1 (the code: 10 and 5) | `OneSocket`, `NeverStranded`, `NoticeHasWayOut`, `OnlyRefusalDrops`. Two sockets are a former and a current one, two sessions let an answer of the first meet the second; one try left and none left are what the plan tells apart |
| `connection_live` | 1 session, 2 sockets | `ComesBack`, `NoticeEnds`. They also hold for 2 sessions, which takes nearly five minutes |
| `blocks` | 2 channels, one of which ever has blocks, 1 member, 2 blocks over the whole run, a vote kick's and one without an end, 2 changes under way, at most 2 ways in at a time (`FewWays`; a state beyond it is checked, and nothing follows it) | `AnsweredHolds`, `BlockedIsOut`, and `KeepsTheBook`, the refinement of `BlockBook`. Blocks of different keys do not meet; two changes give every overlap of their statements, failures and restarts included; the second channel is the seat beside, the join elsewhere, the move's goal |
| `votekick` | 2 channels, 3 users, 2 votes, rooms from 3 members on, at most 2 starts past their checks | `VoteIsSound`, `DecidedByTheRoom`. Two starts overtake each other, three members are the smallest room that can vote, and one of them going makes the room of the end another than that of the start; a second channel is where the member may have gone |
| `marks` | 2 messages, 2 requests for the read states, 1 for the history, 1 acknowledgement, 2 events on their way, of all these at most 3 at a time (`AFewAtATime`: a state with 3 is checked, and nothing follows it) | `KeptUntilRead`. Two messages are read in part, two events overtake each other, and so do two answers; an answer can be older than any event |
| `signed_out_returns` | as `connection` | counterexample, see 7 |

Bounds: `MaxWrites` and `MaxVersion` (Visibility) are in guards; `Jobs` (VoiceSeats) limits how many
handlers are under way at once; `Requests` and `Blocks` (ChannelBlocks), `MaxStarts` and `Votes` (VoteKick), `MaxSeq`,
`MaxAcks`, `MaxWire`, `Syncs` and `Loads` (ReadMarks) limit what is under way; time in `Hub` is ages capped where the code stops telling them apart, so it needs no bound. Symmetry
is used for safety only.

## 5. Fairness

- `Visibility`: the database answers every query of a load, and a resumed `await` runs. Nothing is assumed about writers.
- `SocketAuth`: a handshake goes on after each answer, timers fire, a ban on record goes on to the membership and a request that has deleted its rows to the
  sockets, a closing socket gets its close event (the WebSocket library ends a socket whose peer does not answer).
  No user has to do anything.
- `Hub`: `setInterval` and `setTimeout` fire, time passes, a terminated connection closes, an
  established handshake reaches `liveness.add`. Freezing, vanishing and closing are never fair.
- `VoiceSeats`: the heartbeat asks again and again (weak), and of infinitely many questions to LiveKit some are
  answered (strong fairness of the answer, because a failed request disables it each time). `GuessEnds` says so about a user who has
  left LiveKit for good.
- `ServerConnection` (`LiveSpec`): the client's timers fire, a server that is up answers requests and hellos, a socket that
  closes gets its event, the watchdog finds a dead one, a sign-out waits for its farewell for a bounded time. The liveness properties are
  about a server that stays up from some moment on, over a network that loses no more sockets without a word; that the user presses anything is not
  assumed. `BlockBook`, `ChannelBlocks`, `VoteKick` and `ReadMarks` state no liveness.

## 6. Proofs

All theorems are for every value of the constants, from the named assumptions of the modules:
`BoundsAreNaturals`, `SessionsHaveOwners`, `TermsArePositive`, `StickyChannels`, `ConnsHaveOwners` and, in each module, that the model value for JavaScript's
`null` is none of the records. Each proof module states an inductive invariant `IInv` and proves
`Init => IInv`, `IInv /\ [Next]_vars => IInv'` with one lemma per action, and `IInv => P`.

- `VisibilityProofs`: `TypeCorrect`, `SnapshotIsFresh`, `SnapshotSettles`, `DecisionsAreFresh`. Freshness of the cached
  snapshot alone is not inductive: it comes from the load that produced it, and goes on into the masks computed
  from it. `IInv` says of each of these places (cache, load, resumed await, masks) that a snapshot of the current
  version has everything announced, and that whoever has returned from `refresh` finds at least what they came for.
  `ViewsOnlyAdvance` (`OnlyForward`: neither the shared snapshot nor a user's masks ever go back) needs a second invariant,
  `InOrder`: the cache is not ahead of a load under way or of one still carried by those who wait, the masks are
  not ahead of the cache, and whoever resumes carries the same load. `Reload` of `VoiceSeats` relies on it.
- `SocketAuthProofs`: `TypeCorrect`, `MembersOnly`, `SessionsOnly`, for sign-ins, bans and unbans in any order of their steps. The point of the second look is an
  order: an open socket past `hub.add` is registered, so a later revocation finds it; an earlier one is seen by the reads after
  `hub.add`. `IInv` states this for every stage of the handshake.
  `SessionsOnly` also rests on `Guarded`, the invariant of `SessionsAreWatched`: the row of a session that ran out may be deleted by the list of sessions, which
  closes nothing, and then only the expiry timer is left to close the socket.
  `SessionsAreWatched` (`OpenIsWatched`) is the safety half of `ExpiryCuts`: no socket is in and open without a timer on its session.
  `OnlyALostRowIsMissed` (`RefusedWithRowIsCut`) says how far number 2 of section 7 goes: as long as the row is there, the
  revocation of a refused device is on its way to its sockets.
- `HubProofs`: `TypeCorrect`, `BooksStayTogether`, `AfkIsAway`, `AwayIsAfk`, `LastReportStays`,
  `NewestReportIsShown`, `ListenersAreTold`. AFK is inductive once the books agree and a grace belongs to somebody online.
  `KeptConnectionsAreWatched` (`KeptIsWatched`) is the safety half of `VanishedIsClosed`: the sweep, the handshake or a close
  event will still meet every connection in the hub, but for number 4 of section 7.
- `VoiceSeatsProofs`: `TypeCorrect`, `GuessesAreAlone`, `ListsAreRight`, `HoldsHold`. `RestoredAlone` needs that a
  job acts for the owner of its connection; `HeldStaysHeld` needs what a job's verdict was about: as long as nobody
  has written the hold since the join began, the snapshot and the row agree for that user and the verdict stands.
  `GuessesHaveSockets` (`GuessNeedsSocket`): the seat of number 5 of section 7 is never a restored one. `HoldsAreAnnounced`
  (`WrittenIsAnnounced`): of several handlers that write one hold, the last always has its announcement still to make.
- `ServerConnectionProofs`: `TypeCorrect`, `OneSocketOnly`, `RefusalDropsOnly`. Every place that opens a socket has let go of
  the one before; `IInv` says which sockets have handlers, and that the stored session is the one in use unless
  something of an earlier one is still under way.
  `ConnectionIsCarriedOn` and `NoticeHasAWayOut` need a second invariant, `KeptGoing`, relative to the first: a socket nobody
  carries on is one that closed while its successor had no token, or belonged to nobody known, several steps earlier. As long
  as no sign-out has left a timer behind (`stray`), whatever is wanted or runs belongs to a known member and has a token, and between
  two page loads `resume()` is about one session; the notice has a try to make, a token or a sign-out in the way.
  `QuietSignOutIsFinal` (`SignOutIsFinal`) is what remains of `SignedOutStaysOut`: a sign-out with no request of `resume()` or
  `adopt()` under way leaves an object (`Nobody`) that no leftover socket, timer or refresh and no page load brings back.
- `ChannelBlocksProofs`: `TypeCorrect`, `AnswersHold`, `BlockedStaysOut` and the refinement `ImplementsTheBook`: the initial
  state is a state of the book, and each step is a step of the book or leaves it alone. On a key without
  clashes a set is alone, a removal has forgotten the entry or will find its row gone, and the row of an entry that ran
  out has run out with it; `IInv` says so, and the map in memory is then the book, the row what a crash makes of it. `BlockedStaysOut` is inductive with the
  types and `RequestsSound` (a set is about one key) alone (`NextWays`, a case per step): a block that comes finds the ways there are and takes or excuses each, a way that comes finds the block, and an excuse lasts until
  the member has no way into the channel any more.
- `VoteKickProofs`: `TypeCorrect`, `VotesAreSound`, `TheRoomDecides` (`DecidedByTheRoom`: whoever is voted out had half of the room of the start voting and a majority against them, for
  rooms of any size). A vote that has passed has left its place in the store, so that no ballot and no timer reaches it while its end waits. `BallotsAreFinal`
  (`BallotsStand`): a vote keeps its question, its room and its ballots, and takes none once decided, though starts overwrite one another.
- `ReadMarksProofs`: `TypeCorrect`, `MarksAreKept`. The mark of a message is safe because every message that is due has a number of
  at most `liveLatest`, and an answer was right when it was given: one that knows `liveLatest` counts the message.

Their assumptions are `TriesArePositive`, `ChallengeIsNoSession`, `NoneIsNothing`, `PermanentIsBlock`, `UnsureIsNothing`,
`VotesAreTimed`, `SomeoneElse`, `UsersAreFinite` and `BoundsAreNatural`: that bounds are numbers, rooms are finite, a vote kick's block has an end and the model values
for nothing are not among the things.

`OnlyForward`, `OpenIsWatched`, `RefusedWithRowIsCut`, `KeptIsWatched`, `GuessNeedsSocket`, `WrittenIsAnnounced`,
`SignOutIsFinal` and `BallotsStand` are defined beside the other properties of their modules and proved without a run of their
own. TLC finds them to hold too when they are put in the place of the INVARIANTS and PROPERTY lines of the module's safety cfg.

Every invariant of the runs is proved. Only model checked is liveness (`RefreshEnds`, `ExpiryCuts`, `RemovalCuts`, `VanishedIsClosed`, `AbsentTurnsAfk`,
`GuessEnds`, `ComesBack`, `NoticeEnds`), which rests on fairness, out of the prover's reach; the counterexamples are about
small instances by nature.

## 7. Where the code and its documentation disagree

The first is a run that TLC ends with a counterexample, and a finding in `PROJECT.json` with its lines:

- `SignedOutStaysOut` (`signed_out_returns`): a request of `resume()` that is under way while the user signs out on the notice enters
  again, or schedules the next try with the old token; the client is back for a user who has signed out.

The next nine are properties of their modules without a run in the list. To see the counterexample, put the property in the
place of the INVARIANTS and PROPERTY lines of `MCSocketAuth.cfg` (1 to 4), `MCVoiceSeats.cfg` (5 to 7; the last
with `Conns = {c1, c2, c3}`), `MCChannelBlocks.cfg` (8) or `MCVoteKick.cfg` (9, as a PROPERTY):

1. `BannedIsOut`: `admit()` reads the ban (`server/auth/routes.ts:80`) and inserts membership and session some awaits later (`:105`, `:123`).
   A ban whose removal falls in between leaves a banned member with a session, and no later hello looks at the bans.
2. `RevokedDeviceIsCut`: a refused session's row is deleted by whichever request meets it first; the sweep that closes
   the sockets of refused devices finds nothing any more, the open socket stays.
3. `SuspendedIsCut`: a suspension that becomes known between the handshake's look and `hub.add` is not looked at again.
4. `OnlineMeansConnected`: a socket closed during the handshake is added to the hub after its close event.
5. `DroppedSocketHasNoSeat`: the same for `voice.join`: the seat outlives its socket.
6. `HoldEndsWithSeat`: evictions, suspensions, the heartbeat and a restart end a seat and leave the hold of a channel that is not
   `stickyPersist`.
7. `OneSeatPerUser`: the list of the account's other seats is read before an await and used after it.
8. `BlockedIsGone`: a blocked member sits in the channel without a moderator's move: by a join that was past its check, by a seat beside
   the first one (`channelOfUser` looks at that only), during the await between a vote kick's block and its removal
   (`server/routes/votekick.ts:54-68`), or because `hello` restored the seat from LiveKit's list, which asks no block (`server/ws/handler.ts:164-172`).
9. `RemovedInPlace`: the removal at the end of a vote takes the member out of wherever they sit by then (`server/routes/votekick.ts:68`).

Observed while modelling; the properties name these as exceptions or the model simply contains them:

- `liveLatest` is "Newest live message of other people" by its comment (`apps/web/src/serverConnection.ts:185`), but takes the
  number of the last event (`:657`). The server awaits between insert and broadcast (`server/routes/messages.ts:82`), so the older
  event may come last; an older answer then wipes out the mark of the newer message. It also survives a reconnect: a message deleted meanwhile
  leaves a mark that no answer removes, and an answer older than a deletion marks the channel again.
- A mark known only from an answer is wiped out by a partial reading elsewhere, since `newest` (`:705`) knows live messages and
  loaded ones only. Without read states, a deletion in a channel never read on this device wipes out its mark (`readState.ts:21`).
- One version of the visibility snapshot can be two snapshots: the next load may begin after a load has ended and before those who
  waited for it resume. Both hold everything announced, and the later one stays (`OnlyForward`).
- `loadHistory` that fails writes back the list of before its await.
- The `onclose` of a socket that was let go of acts on the connection that runs by then; a 401 of an earlier session ends the new one.
  Such an `onclose` also overwrites the handle of a pending reconnect timer, so that a sign-out no longer finds it: the timer opens a
  socket with the token of the next sign-in before `resume()` knows whose it is, and a late refusal can then leave a client on
  screen without a connection. It takes five sessions, more than TLC walks through; the invariant the proof asks for shows the
  gap. `NeverStranded` and `NoticeHasWayOut` except it by name, `stray`.
- A member who left the channel can still vote, though leaving "counts as not having voted" (`server/voice/votekick.ts:13`); a start that
  overtakes another overwrites it, and the first one's timer ends the second early; a vote may begin in a channel that is
  deleted meanwhile.
- A ban deletes the sessions of its user without closing sockets again: whoever was admitted again while the ban was under way (an unban, or number 1) and
  had connected keeps an open socket whose session is gone, until its timer looks or it reconnects.
- A block statement that fails in `finish()` leaves the vote without a result for the clients.

The weaker statements that do hold are the invariants of the passing runs: `SessionOrCut` excepts refused
devices, a session that ran out whose timer has still to look and a session wiped by a ban after readmission; `MemberOrCut` speaks of membership, not of bans;
`BlockedIsOut` excepts the ways of number 8 and the move, each by name and only until the member has lost every way into the channel;
`HeldStaysHeld` excepts holds written during the join, `NeverStranded` a timer left behind by a sign-out.

## 8. Not modelled

The components with status `not_modelled` in `PROJECT.json`: planned ones carry their number of the plan; CRUD routes,
parsers, network probes, logging, generated migrations, views, native code and deployment scripts are left out
for good: they are I/O or formatting without interleavings of their own. Within the modelled parts, left out are: what the
permission masks compute, message contents and broadcasts, the mute state of a seat, the session token's form,
whether a move placed somebody in their seat (it decides what they see), more than one `voice.join` of a member at a time and the permissions of the restored
channel (in `ChannelBlocks`), which members of the time before accounts have none yet (`ReadMember` lets anybody be one), BYPASS_STICKY, deleted channels (in `VoiceSeats`), and more than one process (the server is a single node by design);
of the client: `checkRefused`, servers beside the home server, the device's refusal and the directory link, mentions, mutes, one's own and
blocked people's messages, older pages, failed history requests and the fallback without read states.

The models cover a small part of the repository's lines: most of it is the web client's views, translations, styles, the voice client's work with the
LiveKit SDK, database rows in and out, tests and scripts. The parts chosen are those where the order of steps decides.
