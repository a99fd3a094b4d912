---------------------------------- MODULE Hub ----------------------------------
(***************************************************************************)
(* Who is online, who is AFK and who plays what: the hub of authenticated  *)
(* connections (apps/server/src/hub.ts), the liveness sweep that finds     *)
(* connections whose other end is gone or frozen (ws/liveness.ts) and the  *)
(* throttle on game reports (ws/handler.ts).                               *)
(*                                                                         *)
(* Time passes in ticks.  What the code stores as a moment is kept here as *)
(* an age or as what is left of a term, capped where the code stops        *)
(* telling values apart, so that time itself needs no bound.  A timer may  *)
(* be late, never early.                                                   *)
(***************************************************************************)
EXTENDS Naturals

CONSTANTS
  Conns,       \* WebSocket connections; a closed one may be opened again
  Users,
  Games,       \* what can be played
  DeadAfter,   \* DEAD_AFTER_MS in ticks
  StaleAfter,  \* STALE_AFTER_MS in ticks
  AfkAfter,    \* AFK_AFTER_MS in ticks
  None         \* JavaScript's null and undefined

ASSUME TermsArePositive ==
  DeadAfter \in Nat \ {0} /\ StaleAfter \in Nat \ {0} /\ AfkAfter \in Nat \ {0}

VARIABLES
  userOf,   \* Hub.userOf; Hub.byUser is its inverse
  idle,     \* Hub.idle
  stale,    \* Hub.stale
  afk,      \* Hub.afk
  playing,  \* Hub.games: what a connection reports
  after,    \* Hub.games' insertion order: pairs of a later and an earlier report
  grace,    \* Hub.grace: ticks left of the grace of a user
  seen,     \* Liveness.seen: ages since anything and since a message of the client's code
  waiting,  \* per connection: the game report that waits for its timer, as a sequence of at most one
  cooling,  \* connections whose last game change is younger than GAME_CHANGE_MS
  joining,  \* connections the handshake has added and still looks up in the database
  over,     \* connections whose close event came during their handshake
  dying,    \* terminated connections whose close event is to come
  silent,   \* connections whose page is frozen: pongs only
  gone,     \* connections whose other end has vanished: nothing at all
  told,     \* what the presence listeners last heard about a user
  reported  \* history: the last game a connection reported

vars == <<userOf, idle, stale, afk, playing, after, grace, seen, waiting, cooling, joining, over, dying,
          silent, gone, told, reported>>
games == <<playing, after>>
shake == <<joining, over>>
ends == <<silent, gone>>
report == <<waiting, cooling, reported>>

-------------------------------------------------------------------------------
Entry == [any : 0..DeadAfter, app : 0..StaleAfter, stale : BOOLEAN]

ASSUME NoneIsNothing == None \notin Games \cup Users \cup Nat /\ None \notin Entry

Shown == [online : BOOLEAN, afk : BOOLEAN, game : SUBSET Games]

TypeOK ==
  /\ userOf \in [Conns -> Users \cup {None}]
  /\ idle \subseteq Conns /\ stale \subseteq Conns /\ afk \subseteq Users
  /\ playing \in [Conns -> Games \cup {None}] /\ after \subseteq Conns \X Conns
  /\ grace \in [Users -> (0..AfkAfter) \cup {None}]
  /\ seen \in [Conns -> Entry \cup {None}]
  /\ waiting \in [Conns -> {<<>>} \cup {<<g>> : g \in Games \cup {None}}]
  /\ cooling \subseteq Conns /\ dying \subseteq Conns
  /\ joining \subseteq Conns /\ over \subseteq Conns
  /\ silent \subseteq Conns /\ gone \subseteq Conns
  /\ told \in [Users -> Shown]
  /\ reported \in [Conns -> Games \cup {None}]

ConnsOf(owner, u) == {c \in Conns : owner[c] = u}
Online(u) == ConnsOf(userOf, u) # {}

\* gameOf(): the last report among the user's connections, as a set of at most one.
Reporting(owner, game, u) == {c \in ConnsOf(owner, u) : game[c] # None}
GameOf(owner, game, later, u) ==
  LET mine == Reporting(owner, game, u)
  IN  {game[c] : c \in {c \in mine : \A d \in mine \ {c} : <<c, d>> \in later}}

\* The member list as it would be loaded now.
Show(owner, away, game, later, u) ==
  [online |-> ConnsOf(owner, u) # {}, afk |-> u \in away, game |-> GameOf(owner, game, later, u)]

\* Listeners hear of a user exactly when the code calls them.
Tell(u, fired) ==
  told' = IF fired THEN [told EXCEPT ![u] = Show(userOf', afk', playing', after', u)] ELSE told

Init ==
  /\ userOf = [c \in Conns |-> None]
  /\ idle = {} /\ stale = {} /\ afk = {}
  /\ playing = [c \in Conns |-> None] /\ after = {}
  /\ grace = [u \in Users |-> None]
  /\ seen = [c \in Conns |-> None]
  /\ waiting = [c \in Conns |-> <<>>] /\ cooling = {} /\ dying = {}
  /\ joining = {} /\ over = {}
  /\ silent = {} /\ gone = {}
  /\ told = [u \in Users |-> [online |-> FALSE, afk |-> FALSE, game |-> {}]]
  /\ reported = [c \in Conns |-> None]

-------------------------------------------------------------------------------
(* AFK: all connections of a user idle or stale, and no grace running.     *)

\* Mutant: the grace of a user is forgotten.
AwayInstantly(u) == ConnsOf(userOf', u) # {} /\ ConnsOf(userOf', u) \subseteq idle' \cup stale'

\* refreshAfk() over the state after the step.
Away(u) ==
  /\ ConnsOf(userOf', u) # {}
  /\ ConnsOf(userOf', u) \subseteq idle' \cup stale'
  /\ grace'[u] \in {None, 0}

Refreshed(us) == {u \in Users : IF u \in us THEN Away(u) ELSE u \in afk}

-------------------------------------------------------------------------------
(* The game display.                                                       *)

\* Mutant: set() alone keeps a known connection's place in the order of a JavaScript Map.
SetGameInPlace(c, g) ==
  /\ playing' = [playing EXCEPT ![c] = g]
  /\ after' = IF g # None /\ playing[c] # None THEN after
              ELSE {p \in after : c \notin {p[1], p[2]}}
                     \cup {p \in {c} \X (Conns \ {c}) : g # None /\ playing[p[2]] # None}

\* Mutant: a report of nothing is taken for no report.
SetGameOnly(c, g) ==
  IF g = None THEN UNCHANGED games
  ELSE /\ playing' = [playing EXCEPT ![c] = g]
       /\ after' = {p \in after : c \notin {p[1], p[2]}}
                     \cup {p \in {c} \X (Conns \ {c}) : playing[p[2]] # None}

\* setGame(): deleting before setting makes the report the last one in the order.
SetGame(c, g) ==
  /\ playing' = [playing EXCEPT ![c] = g]
  /\ after' = {p \in after : c \notin {p[1], p[2]}}
                \cup {p \in {c} \X (Conns \ {c}) : g # None /\ playing[p[2]] # None}

\* Mutant: only a game is news, not the end of one.
GameShows(u) == GameOf(userOf', playing', after', u) \notin {{}, GameOf(userOf, playing, after, u)}

GameChanged(u) == GameOf(userOf, playing, after, u) # GameOf(userOf', playing', after', u)

-------------------------------------------------------------------------------
(* Connections come and go.                                                *)

\* Mutant: the new connection does not count as active.
AddQuietly(c, u, late) ==
  /\ userOf[c] = None /\ seen[c] = None /\ c \notin joining
  /\ userOf' = [userOf EXCEPT ![c] = u]
  /\ joining' = joining \cup {c}
  /\ over' = IF late THEN over \cup {c} ELSE over
  /\ UNCHANGED <<idle, stale, afk, games, grace, seen, dying, ends, report>>
  /\ Tell(u, ~Online(u))

\* hub.add(): a new connection counts as active.  The handshake's awaits go before it, so the
\* connection may be closed already (late).
Add(c, u, late) ==
  /\ userOf[c] = None /\ seen[c] = None /\ c \notin joining
  /\ userOf' = [userOf EXCEPT ![c] = u]
  /\ afk' = afk \ {u}
  /\ joining' = joining \cup {c}
  /\ over' = IF late THEN over \cup {c} ELSE over
  /\ UNCHANGED <<idle, stale, games, grace, seen, dying, ends, report>>
  /\ Tell(u, ~Online(u) \/ u \in afk)

\* liveness.add(), after the handshake's last look at the database, whatever the socket's state.
Watch(c) ==
  /\ c \in joining
  /\ joining' = joining \ {c}
  /\ seen' = [seen EXCEPT ![c] = [any |-> 0, app |-> 0, stale |-> FALSE]]
  /\ UNCHANGED <<userOf, idle, stale, afk, games, grace, over, dying, ends, report, told>>

\* That look finds the right to connect gone: the socket is closed and not watched.
TurnAway(c) ==
  /\ c \in joining
  /\ joining' = joining \ {c}
  /\ over' = IF userOf[c] = None THEN over \ {c} ELSE over
  /\ dying' = IF c \in over THEN dying ELSE dying \cup {c}
  /\ UNCHANGED <<userOf, idle, stale, afk, games, grace, seen, ends, report, told>>

\* The close event: liveness.remove(), the game timer, hub.remove().
Close(c) ==
  /\ userOf[c] # None /\ c \notin over
  /\ LET u == userOf[c]
         wasIdle == c \in idle \cup stale
         last == ConnsOf(userOf, u) = {c} IN
       /\ userOf' = [userOf EXCEPT ![c] = None]
       /\ SetGame(c, None)
       /\ idle' = idle \ {c} /\ stale' = stale \ {c}
       /\ afk' = IF last THEN afk \ {u} ELSE afk
       /\ grace' = [grace EXCEPT ![u] =
                      IF last THEN None ELSE IF ~wasIdle THEN AfkAfter ELSE @]
       /\ Tell(u, last \/ GameChanged(u))
  /\ seen' = [seen EXCEPT ![c] = None]
  /\ waiting' = [waiting EXCEPT ![c] = <<>>]
  /\ cooling' = cooling \ {c} /\ dying' = dying \ {c}
  /\ silent' = silent \ {c} /\ gone' = gone \ {c}
  /\ over' = IF c \in joining THEN over \cup {c} ELSE over
  /\ reported' = [reported EXCEPT ![c] = None]
  /\ UNCHANGED joining

\* The page of a connection freezes, or its other end vanishes without a close.
Freeze(c) ==
  /\ userOf[c] # None /\ c \notin silent \cup over
  /\ silent' = silent \cup {c}
  /\ UNCHANGED <<userOf, idle, stale, afk, games, grace, seen, shake, dying, gone, report, told>>
Thaw(c) ==
  /\ c \in silent \ gone
  /\ silent' = silent \ {c}
  /\ UNCHANGED <<userOf, idle, stale, afk, games, grace, seen, shake, dying, gone, report, told>>
Vanish(c) ==
  /\ userOf[c] # None /\ c \notin gone \cup over
  /\ silent' = silent \cup {c} /\ gone' = gone \cup {c}
  /\ UNCHANGED <<userOf, idle, stale, afk, games, grace, seen, shake, dying, report, told>>

-------------------------------------------------------------------------------
(* What arrives.                                                           *)

Pong(c) ==
  /\ seen[c] # None /\ c \notin gone \cup over
  /\ seen' = [seen EXCEPT ![c].any = 0]
  /\ UNCHANGED <<userOf, idle, stale, afk, games, grace, shake, dying, ends, report, told>>

\* Mutant: the stale phase does not end in the book of the sweep.
HeardOnce(c) ==
  seen' = IF seen[c] = None THEN seen ELSE [seen EXCEPT ![c].any = 0, ![c].app = 0]

\* liveness.heard(): a message of the client's code ends a stale phase.
Heard(c) ==
  seen' = IF seen[c] = None THEN seen
          ELSE [seen EXCEPT ![c] = [any |-> 0, app |-> 0, stale |-> FALSE]]
WasStale(c) == seen[c] # None /\ seen[c].stale

\* A message of a client that speaks.  It says whether its user is idle and, sometimes, what they
\* play: that is applied at once or kept for the timer, where only the last report counts.
Activity(c, lazy, rep) ==
  LET u == userOf[c]
      now == rep # <<>> /\ c \notin cooling /\ waiting[c] = <<>> IN
  /\ u # None /\ c \notin silent \cup over
  /\ Heard(c)
  /\ stale' = IF WasStale(c) THEN stale \ {c} ELSE stale
  /\ idle' = IF lazy THEN idle \cup {c} ELSE idle \ {c}
  /\ UNCHANGED <<userOf, grace, shake, dying, ends>>
  /\ afk' = IF stale' # stale \/ idle' # idle THEN Refreshed({u}) ELSE afk
  /\ IF now THEN SetGame(c, rep[1]) ELSE UNCHANGED games
  /\ cooling' = IF now THEN cooling \cup {c} ELSE cooling
  /\ waiting' = IF rep # <<>> /\ ~now THEN [waiting EXCEPT ![c] = rep] ELSE waiting
  /\ reported' = IF rep # <<>> THEN [reported EXCEPT ![c] = rep[1]] ELSE reported
  /\ Tell(u, (u \in afk') # (u \in afk) \/ GameChanged(u))

\* GAME_CHANGE_MS after the last change.
CoolDown(c) ==
  /\ c \in cooling
  /\ cooling' = cooling \ {c}
  /\ UNCHANGED <<userOf, idle, stale, afk, games, grace, seen, waiting, shake, dying, ends, told, reported>>

GameTimer(c) ==
  /\ c \notin cooling /\ waiting[c] # <<>>
  /\ UNCHANGED <<userOf, idle, stale, afk, grace, seen, shake, dying, ends, reported>>
  /\ SetGame(c, waiting[c][1])
  /\ waiting' = [waiting EXCEPT ![c] = <<>>]
  /\ cooling' = cooling \cup {c}
  /\ Tell(userOf[c], GameChanged(userOf[c]))

-------------------------------------------------------------------------------
(* Time.                                                                   *)

\* Mutant: a counter that runs over its end.
OlderStill(age, cap) == age + 1

Older(age, cap) == IF age < cap THEN age + 1 ELSE cap

Tick ==
  /\ seen' = [c \in Conns |-> IF seen[c] = None THEN None
                ELSE [seen[c] EXCEPT !.any = Older(@, DeadAfter), !.app = Older(@, StaleAfter)]]
  /\ grace' = [u \in Users |-> IF grace[u] \in {None, 0} THEN grace[u] ELSE grace[u] - 1]
  /\ UNCHANGED <<userOf, idle, stale, afk, games, shake, dying, ends, report, told>>

\* Mutant: the timer of the grace only forgets it.
GraceForgotten(u) ==
  /\ grace[u] = 0
  /\ grace' = [grace EXCEPT ![u] = None]
  /\ UNCHANGED <<userOf, idle, stale, afk, games, seen, shake, dying, ends, report, told>>

\* The timer of a grace that is over looks again.
GraceEnds(u) ==
  /\ grace[u] = 0
  /\ grace' = [grace EXCEPT ![u] = None]
  /\ UNCHANGED <<userOf, idle, stale, games, seen, shake, dying, ends, report>>
  /\ afk' = Refreshed({u})
  /\ Tell(u, (u \in afk') # (u \in afk))

\* Mutant: the sweep asks for staleness first.
DeadAndFresh == {c \in Conns : seen[c] # None /\ seen[c].any = DeadAfter /\ ~seen[c].stale}

Dead == {c \in Conns : seen[c] # None /\ seen[c].any = DeadAfter}

\* Mutant: the pongs of a frozen page count as its client's words.
NewlyQuiet == {c \in Conns \ Dead : seen[c] # None /\ ~seen[c].stale /\ seen[c].any = StaleAfter}

NewlyStale == {c \in Conns \ Dead : seen[c] # None /\ ~seen[c].stale /\ seen[c].app = StaleAfter}

\* The heartbeat: terminate the dead (a closed socket stays as it is), count the silent ones as idle.
Sweep ==
  /\ seen' = [c \in Conns |-> IF c \in NewlyStale THEN [seen[c] EXCEPT !.stale = TRUE] ELSE seen[c]]
  /\ dying' = dying \cup (Dead \ over)
  /\ stale' = stale \cup {c \in NewlyStale : userOf[c] # None}
  /\ UNCHANGED <<userOf, idle, games, grace, shake, ends, report>>
  /\ afk' = Refreshed({userOf[c] : c \in NewlyStale})
  /\ told' = [u \in Users |-> IF (u \in afk') # (u \in afk) THEN Show(userOf', afk', playing', after', u) ELSE told[u]]

-------------------------------------------------------------------------------
Next ==
  \/ \E c \in Conns, u \in Users, late \in BOOLEAN : Add(c, u, late)
  \/ \E c \in Conns : Watch(c) \/ TurnAway(c) \/ Close(c) \/ Freeze(c) \/ Thaw(c) \/ Vanish(c) \/ Pong(c)
  \/ \E c \in Conns, lazy \in BOOLEAN : Activity(c, lazy, <<>>)
  \/ \E c \in Conns, lazy \in BOOLEAN, g \in Games \cup {None} : Activity(c, lazy, <<g>>)
  \/ \E c \in Conns : CoolDown(c) \/ GameTimer(c)
  \/ Tick \/ Sweep
  \/ \E u \in Users : GraceEnds(u)

Spec == Init /\ [][Next]_vars

\* Timers fire, time passes, the heartbeat runs, a handshake ends with liveness.add, a terminated
\* connection closes.
Fairness ==
  /\ WF_vars(Tick) /\ WF_vars(Sweep)
  /\ \A u \in Users : WF_vars(GraceEnds(u))
  /\ \A c \in Conns : WF_vars(Watch(c) \/ TurnAway(c)) /\ WF_vars(CoolDown(c)) /\ WF_vars(GameTimer(c))
  /\ \A c \in Conns : WF_vars(c \in dying /\ Close(c))

FairSpec == Spec /\ Fairness

-------------------------------------------------------------------------------
(* Properties.                                                             *)

\* AFK means present but away everywhere: "a second tab or device in use keeps them present", and
\* so does the grace after the connection in use has closed (hub.ts).
AfkMeansAway ==
  \A u \in afk : Online(u) /\ ConnsOf(userOf, u) \subseteq idle \cup stale /\ grace[u] \in {None, 0}

\* And the other way round: whoever is away everywhere with no grace running is AFK, whichever
\* connection opened, closed, went silent or spoke last.
AwayMeansAfk ==
  \A u \in Users :
    Online(u) /\ ConnsOf(userOf, u) \subseteq idle \cup stale /\ grace[u] = None => u \in afk

\* The listeners fire for every change anybody can see: what they last heard is what is.
ListenersKnow == \A u \in Users : told[u] = Show(userOf, afk, playing, after, u)

\* The two books on silent clients agree, nothing of a closed connection is left in the hub, and
\* the reports are in one order, whichever way their connections came and went.
BooksAgree ==
  /\ \A c \in Conns :
       IF userOf[c] = None THEN c \notin idle \cup stale /\ playing[c] = None
       ELSE c \in stale <=> seen[c] # None /\ seen[c].stale
  /\ \A c, d \in Conns : c # d /\ playing[c] # None /\ playing[d] # None =>
       (<<c, d>> \in after <=> <<d, c>> \notin after)

\* "only the last one counts": with no timer running, what counts is what the client said last.
LastReportCounts ==
  \A c \in Conns : waiting[c] = <<>> => playing[c] = reported[c]

\* "the one reported last among their connections": a report that takes effect is what everybody
\* sees of the member, whichever of their connections reported what before.
NewestReportShows ==
  [][\A c \in Conns :
       playing'[c] \notin {None, playing[c]} => GameOf(userOf', playing', after', userOf'[c]) = {playing'[c]}]_vars

\* Nobody is kept online by a connection no one looks after: what is in the hub is watched by the sweep, still
\* in its handshake, or terminated with its close event to come.  The one exception is a socket that closed
\* before hub.add (ws/handler.ts), for which no event will come.
KeptIsWatched ==
  \A c \in Conns : userOf[c] # None => seen[c] # None \/ c \in joining \cup dying \cup over

\* A connection whose other end vanished does not keep its user online for ever (liveness.ts).
VanishedIsClosed == \A c \in Conns : c \in gone ~> c \notin gone

\* A member who is away everywhere turns AFK, also when a page froze before it could say so.
AbsentTurnsAfk ==
  \A u \in Users :
    <>[](Online(u) /\ ConnsOf(userOf, u) \subseteq silent) => <>(u \in afk)
===============================================================================
