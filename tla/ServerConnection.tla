---------------------------- MODULE ServerConnection ----------------------------
(***************************************************************************)
(* The web client's connection to its home server                          *)
(* (apps/web/src/serverConnection.ts, serverRetry.ts): the session token,  *)
(* the requests that decide what becomes of it, the retries while the      *)
(* server does not answer, the WebSocket with its reconnect timer and its  *)
(* watchdog, and the ways out (sign-out, a session the server ended).      *)
(*                                                                         *)
(* The members of the ServerConnection object are the fields of one        *)
(* record, and each of its methods is an operator on that record, so that  *)
(* a handler reads like the method it models.  An await separates two      *)
(* actions.  A socket the client let go of with close() still has its      *)
(* handlers; one it dropped with dropSocket() has none and is forgotten.   *)
(*                                                                         *)
(* Delays are left out: a timer that runs may fire.                        *)
(***************************************************************************)
EXTENDS Naturals, FiniteSets

CONSTANTS
  Sessions,        \* sessions the server may ever issue to this client
  Sockets,         \* WebSocket objects alive at a time
  AutoTries,       \* AUTO_TRIES
  TriesAfterUser,  \* TRIES_AFTER_USER
  None             \* null

ASSUME TriesArePositive == AutoTries \in Nat \ {0} /\ TriesAfterUser \in Nat \ {0}
ASSUME NoneIsNothing == None \notin Sessions \cup Sockets \cup {"checking", "unreachable"}
ASSUME ChallengeIsNoSession == "challenge" \notin Sessions

VARIABLES
  conn,        \* the ServerConnection object
  resuming,    \* sessions whose GET /api/me of resume() is in flight
  signing,     \* login(): None, "challenge", or the session whose GET /api/me of adopt() is in flight
  refreshing,  \* sessions whose GET /api/me of refreshMe() is in flight
  leaving,     \* Store.leaving: the user is signing out
  farewell,    \* sessions whose DELETE /api/me/sessions/current is under way
  live,        \* sessions the server accepts
  issued,      \* sessions the server has issued
  up,          \* the server answers
  out          \* history: signed out, and neither signed in nor loaded the page since

vars == <<conn, resuming, signing, refreshing, leaving, farewell, live, issued, up, out>>
calls == <<resuming, signing, refreshing>>
server == <<live, issued, up>>
goodbye == <<leaving, farewell, out>>

-------------------------------------------------------------------------------
\* `dead`: the other end is gone without a word.
Free == [st |-> "free", sess |-> None, dead |-> FALSE]
Phases == {"connecting", "helloed", "welcomed", "closing"}
SocketStates == {Free} \cup [st : Phases, sess : Sessions, dead : BOOLEAN]

SessionOrNone == Sessions \cup {None}

ConnType ==
  [token : SessionOrNone,      \* ServerApi.token
   stored : SessionOrNone,     \* the token in the device's storage (hooks.onToken)
   me : SessionOrNone,         \* state.me: the session that said so
   claim : BOOLEAN,            \* state.me.registrationRequired
   want : BOOLEAN,             \* wantConnection
   server : BOOLEAN,           \* state.server is set: the client is on screen
   waiting : {None, "checking", "unreachable"},
   stray : BOOLEAN,            \* history: clearSession() has left a timer behind, see orphan
   ws : Sockets \cup {None},
   sock : [Sockets -> SocketStates],
   reconnect : BOOLEAN,        \* reconnectTimer
   orphan : BOOLEAN,           \* a reconnect timer runs whose handle was overwritten
   ping : BOOLEAN,             \* pingTimer
   unanswered : BOOLEAN,       \* pingSentAt is set and nothing was heard since
   retry : SessionOrNone,      \* the scheduled step: resume() with this session
   timer : BOOLEAN,            \* retryTimer
   left : 0..(AutoTries + TriesAfterUser),  \* retryPlan.left
   paused : BOOLEAN]           \* state.retryPaused

TypeOK ==
  /\ conn \in ConnType
  /\ resuming \subseteq Sessions /\ refreshing \subseteq Sessions
  /\ signing \in SessionOrNone \cup {"challenge"}
  /\ leaving \in BOOLEAN /\ out \in BOOLEAN /\ up \in BOOLEAN
  /\ farewell \subseteq Sessions
  /\ live \subseteq issued /\ issued \subseteq Sessions

\* The page was loaded with this session in storage.
Loaded(t) ==
  [token |-> None, stored |-> t, me |-> None, claim |-> FALSE, want |-> FALSE, server |-> FALSE,
   waiting |-> None, stray |-> FALSE, ws |-> None, sock |-> [s \in Sockets |-> Free], reconnect |-> FALSE, orphan |-> FALSE, ping |-> FALSE,
   unanswered |-> FALSE, retry |-> None, timer |-> FALSE, left |-> AutoTries, paused |-> FALSE]

The(t) == {t} \ {None}

-------------------------------------------------------------------------------
(* The methods.                                                            *)

CancelRetry(c) == [c EXCEPT !.timer = FALSE, !.retry = None]

RetrySettled(c) == [CancelRetry(c) EXCEPT !.left = AutoTries, !.paused = FALSE]

\* Mutant: the plan that is used up keeps nothing to try.
RetryForgets(c, t) ==
  IF c.left = 0
  THEN CancelRetry(c)
  ELSE [CancelRetry(c) EXCEPT !.retry = t, !.timer = TRUE, !.left = @ - 1]

\* Mutant: nothing looks at what is left of the plan.
RetryForever(c, t) == [CancelRetry(c) EXCEPT !.retry = t, !.timer = TRUE, !.left = @ - 1]

\* Mutant: the step is kept without a timer.
RetryIdle(c, t) == [CancelRetry(c) EXCEPT !.retry = t]

RetryLater(c, t) ==
  IF c.left = 0
  THEN [CancelRetry(c) EXCEPT !.retry = t, !.paused = TRUE]
  ELSE [CancelRetry(c) EXCEPT !.retry = t, !.timer = TRUE, !.left = @ - 1]

Close(c) ==
  [RetrySettled(c) EXCEPT
     !.want = FALSE, !.reconnect = FALSE, !.ping = FALSE, !.ws = None,
     !.sock = [s \in Sockets |-> IF s = c.ws THEN [c.sock[s] EXCEPT !.st = "closing", !.dead = FALSE] ELSE c.sock[s]]]

ClearSession(c) ==
  [Close(c) EXCEPT !.token = None, !.stored = None, !.me = None, !.claim = FALSE,
                    !.waiting = None, !.server = FALSE, !.stray = @ \/ c.orphan]

Suspended(c) == [Close(c) EXCEPT !.waiting = None, !.server = FALSE]

\* Mutant: the earlier socket is left to itself.
DropNothing(c) == c

DropSocket(c) ==
  IF c.ws = None THEN c
  ELSE [c EXCEPT !.ws = None, !.ping = FALSE, !.sock[c.ws] = Free]

\* Bound: a new socket needs a free object.
FreeSockets(c) == {s \in Sockets : c.sock[s] = Free}
Room == FreeSockets(conn) # {} \/ conn.ws # None

Connect(c) ==
  IF c.token = None THEN [c EXCEPT !.want = TRUE]
  ELSE LET d == DropSocket(c)
           s == CHOOSE s \in FreeSockets(d) : TRUE
       IN  [d EXCEPT !.want = TRUE, !.reconnect = FALSE, !.ws = s,
                     !.sock[s] = [st |-> "connecting", sess |-> d.token, dead |-> FALSE]]

Enter(c, t, register) ==
  IF register THEN [c EXCEPT !.me = t, !.claim = TRUE, !.waiting = None]
  ELSE Connect([c EXCEPT !.me = t, !.claim = FALSE])

\* api.onUnauthorized: a 401 to a request that carried a token.
OnUnauthorized(c) == IF c.me = None THEN c ELSE ClearSession(c)

\* resume() up to its request: the home server is never checked against the refused ones.
Resume(c, t) ==
  [c EXCEPT !.token = t, !.waiting = IF @ = "unreachable" THEN @ ELSE "checking"]

\* A step of the retries, if there is one, starts resume() again.
Retried(c) ==
  /\ Room
  /\ conn' = IF c.retry = None THEN CancelRetry(c) ELSE Resume(CancelRetry(c), c.retry)
  /\ resuming' = resuming \cup The(c.retry)

Init ==
  /\ \E t \in SessionOrNone :
       /\ conn = IF t = None THEN Loaded(None) ELSE Resume(Loaded(t), t)
       /\ resuming = The(t) /\ issued = The(t)
       /\ live \in SUBSET The(t)
  /\ signing = None /\ refreshing = {} /\ leaving = FALSE /\ farewell = {}
  /\ up \in BOOLEAN /\ out = FALSE

-------------------------------------------------------------------------------
(* The session: resume, sign-in, sign-out.                                 *)

\* The page is loaded anew: everything in memory is gone.
Reload ==
  /\ conn' = IF conn.stored = None THEN Loaded(None) ELSE Resume(Loaded(conn.stored), conn.stored)
  /\ resuming' = The(conn.stored) /\ signing' = None /\ refreshing' = {}
  /\ leaving' = FALSE /\ out' = FALSE
  /\ UNCHANGED <<farewell, server>>

ResumeOk(t) ==
  /\ t \in resuming /\ up /\ t \in live /\ Room
  /\ \E register \in BOOLEAN : conn' = Enter(RetrySettled(conn), t, register)
  /\ resuming' = resuming \ {t}
  /\ UNCHANGED <<signing, refreshing, goodbye, server>>

ResumeSuspended(t) ==
  /\ t \in resuming /\ up /\ t \in live
  /\ conn' = Suspended(RetrySettled(conn))
  /\ resuming' = resuming \ {t}
  /\ UNCHANGED <<signing, refreshing, goodbye, server>>

ResumeRejected(t) ==
  /\ t \in resuming /\ up /\ t \notin live
  /\ conn' = [RetrySettled(OnUnauthorized(conn)) EXCEPT !.token = None, !.waiting = None]
  /\ resuming' = resuming \ {t}
  /\ UNCHANGED <<signing, refreshing, goodbye, server>>

\* Mutant: any failure drops the session, as it was before the notice.
ResumeForgets(t) ==
  /\ t \in resuming /\ ~up
  /\ conn' = [RetrySettled(conn) EXCEPT !.token = None, !.stored = None, !.waiting = None]
  /\ resuming' = resuming \ {t}
  /\ UNCHANGED <<signing, refreshing, goodbye, server>>

ResumeUnreachable(t) ==
  /\ t \in resuming /\ ~up
  /\ conn' = RetryLater([conn EXCEPT !.waiting = "unreachable"], t)
  /\ resuming' = resuming \ {t}
  /\ UNCHANGED <<signing, refreshing, goodbye, server>>

\* The retry timer, the `online` event and the tab that is shown again: retryNow().
RetryNow ==
  /\ conn.timer /\ ~conn.paused
  /\ Retried(conn)
  /\ UNCHANGED <<signing, refreshing, goodbye, server>>

\* What App.tsx shows: the client, the notice with its buttons, or the account forms of a member without one.
ClientShown == conn.server /\ conn.me # None
NoticeShown == ~conn.server /\ conn.waiting = "unreachable"
ClaimShown == ~ClientShown /\ conn.waiting = None /\ conn.me # None /\ conn.claim

RetryByUser ==
  /\ NoticeShown
  /\ Retried([conn EXCEPT !.left = TriesAfterUser, !.paused = FALSE])
  /\ UNCHANGED <<signing, refreshing, goodbye, server>>

\* The login screen: neither the client nor the notice is shown.
Login ==
  /\ conn.waiting = None /\ ~ClientShown /\ ~leaving /\ signing = None
  /\ ClaimShown => refreshing = {}
  /\ signing' = "challenge"
  /\ UNCHANGED <<conn, resuming, refreshing, goodbye, server>>

LoginFailed ==
  /\ signing = "challenge"
  /\ signing' = None
  /\ conn' = [conn EXCEPT !.waiting = None]
  /\ UNCHANGED <<resuming, refreshing, goodbye, server>>

\* The server issues a session; adopt() takes it and asks who it is.
Adopt(t) ==
  /\ signing = "challenge" /\ up /\ t \notin issued
  /\ live' = live \cup {t} /\ issued' = issued \cup {t}
  /\ conn' = [conn EXCEPT !.token = t, !.stored = t]
  /\ signing' = t /\ out' = FALSE
  /\ UNCHANGED <<resuming, refreshing, leaving, farewell, up>>

AdoptOk(t) ==
  /\ signing = t /\ up /\ t \in live /\ Room
  /\ \E register \in BOOLEAN : conn' = Enter(conn, t, register)
  /\ signing' = None
  /\ UNCHANGED <<resuming, refreshing, goodbye, server>>

AdoptFailed(t) ==
  /\ signing = t
  /\ \/ up /\ t \notin live /\ conn' = [OnUnauthorized(conn) EXCEPT !.waiting = None]
     \/ ~up /\ conn' = [conn EXCEPT !.waiting = None]
  /\ signing' = None
  /\ UNCHANGED <<resuming, refreshing, goodbye, server>>

\* A member who has to register is done with the form (Store.claimLocal): refreshMe().
Claimed ==
  /\ ClaimShown /\ ~leaving /\ conn.token # None /\ signing = None
  /\ refreshing' = refreshing \cup {conn.token}
  /\ UNCHANGED <<conn, resuming, signing, goodbye, server>>

Refreshed(t) ==
  /\ t \in refreshing
  /\ \/ up /\ t \in live /\ Room /\ \E register \in BOOLEAN : conn' = Enter(conn, t, register)
     \/ up /\ t \notin live /\ conn' = OnUnauthorized(conn)
     \/ ~up /\ conn' = conn
  /\ refreshing' = refreshing \ {t}
  /\ UNCHANGED <<resuming, signing, goodbye, server>>

\* Store.leave(): the sockets first, then a farewell the client does not wait for for long.
Leave ==
  /\ ClientShown \/ NoticeShown \/ (ClaimShown /\ refreshing = {})
  /\ ~leaving
  /\ conn' = Close(conn) /\ leaving' = TRUE /\ farewell' = farewell \cup The(conn.token)
  /\ UNCHANGED <<calls, server, out>>

\* signedOut(): whatever is stored goes.
Left ==
  /\ leaving
  /\ conn' = ClearSession(conn) /\ leaving' = FALSE /\ out' = TRUE
  /\ UNCHANGED <<calls, server, farewell>>

\* logout() of a server account: the same without the wait.
Logout ==
  /\ ClientShown /\ ~leaving
  /\ farewell' = farewell \cup The(conn.token)
  /\ conn' = ClearSession(conn) /\ out' = TRUE
  /\ UNCHANGED <<calls, server, leaving>>

FarewellArrives(t) ==
  /\ t \in farewell
  /\ farewell' = farewell \ {t}
  /\ live' = IF up THEN live \ {t} ELSE live
  /\ UNCHANGED <<conn, calls, leaving, out, issued, up>>

-------------------------------------------------------------------------------
(* The WebSocket.                                                          *)

InPhase(s, phase) == conn.sock[s].st = phase
Heard(s, phase) == InPhase(s, phase) /\ up /\ ~conn.sock[s].dead

\* onopen: the hello goes out.
Opened(s) ==
  /\ Heard(s, "connecting")
  /\ conn' = [conn EXCEPT !.sock[s].st = "helloed"]
  /\ UNCHANGED <<calls, goodbye, server>>

Welcome(s) ==
  /\ Heard(s, "helloed") /\ conn.sock[s].sess \in live
  /\ conn' = [conn EXCEPT !.sock[s].st = "welcomed", !.server = TRUE, !.waiting = None,
                          !.ping = TRUE, !.unanswered = FALSE]
  /\ UNCHANGED <<calls, goodbye, server>>

\* Error event "unauthorized": the session is no good.
Unauthorized(s) ==
  /\ Heard(s, "helloed") /\ conn.sock[s].sess \notin live
  /\ conn' = ClearSession(conn)
  /\ UNCHANGED <<calls, goodbye, server>>

\* Event "removed": kicked or banned.
Removed(s) ==
  /\ Heard(s, "welcomed")
  /\ conn' = [conn EXCEPT !.want = FALSE, !.server = FALSE]
  /\ UNCHANGED <<calls, goodbye, server>>

\* Error event "protocol_version": nothing is tried again.
WrongVersion(s) ==
  /\ Heard(s, "helloed")
  /\ conn' = [conn EXCEPT !.want = FALSE]
  /\ UNCHANGED <<calls, goodbye, server>>

Pong(s) ==
  /\ Heard(s, "welcomed") /\ conn.unanswered
  /\ conn' = [conn EXCEPT !.unanswered = FALSE]
  /\ UNCHANGED <<calls, goodbye, server>>

\* Mutant: the watchdog lets go of the socket and leaves the rest to the close event.
HeartbeatDrops(late) ==
  /\ conn.ping /\ Room
  /\ conn' = IF conn.unanswered /\ ~late
             THEN DropSocket([conn EXCEPT !.unanswered = FALSE])
             ELSE [conn EXCEPT !.unanswered = TRUE]
  /\ UNCHANGED <<calls, goodbye, server>>

\* heartbeat(): a timer that fired late proves nothing.
Heartbeat(late) ==
  /\ conn.ping /\ Room
  /\ conn' = IF conn.unanswered /\ ~late
             THEN LET d == DropSocket([conn EXCEPT !.unanswered = FALSE])
                  IN  IF d.want THEN Connect(d) ELSE d
             ELSE [conn EXCEPT !.unanswered = TRUE]
  /\ UNCHANGED <<calls, goodbye, server>>

\* What onclose does first: whichever socket it was, the watchdog stops.
SocketGone(s) ==
  [conn EXCEPT !.ws = IF @ = s THEN None ELSE @, !.ping = FALSE, !.sock[s] = Free]

\* Closed by the server with 4011 or 4012: the session ended.
ClosedEnded(s) ==
  /\ \E phase \in {"helloed", "welcomed", "closing"} : Heard(s, phase)
  /\ conn.sock[s].sess \notin live
  /\ conn' = IF conn.want THEN ClearSession(SocketGone(s)) ELSE SocketGone(s)
  /\ UNCHANGED <<calls, goodbye, server>>

\* Closed with 4013: an account is required; the session stays.
ClosedUnregistered(s) ==
  /\ Heard(s, "helloed") /\ conn.sock[s].sess \in live
  /\ conn' = IF conn.want THEN Close(SocketGone(s)) ELSE SocketGone(s)
  /\ refreshing' = IF conn.want THEN refreshing \cup The(conn.token) ELSE refreshing
  /\ UNCHANGED <<resuming, signing, goodbye, server>>

\* Closed with 4014: suspended; the session stays.
ClosedSuspended(s) ==
  /\ Heard(s, "helloed") \/ Heard(s, "welcomed")
  /\ conn' = IF conn.want THEN Suspended(SocketGone(s)) ELSE SocketGone(s)
  /\ UNCHANGED <<calls, goodbye, server>>

\* Closed without a word for the client: the network, the server going down, the answer to close().
ClosedPlain(s) ==
  /\ ~InPhase(s, "free")
  /\ InPhase(s, "closing") \/ conn.sock[s].dead \/ ~up \/ ~conn.want
  /\ conn' = IF conn.want
             THEN [SocketGone(s) EXCEPT !.reconnect = TRUE, !.orphan = @ \/ conn.reconnect]
             ELSE SocketGone(s)
  /\ UNCHANGED <<calls, goodbye, server>>

Reconnect ==
  /\ conn.reconnect /\ Room
  /\ conn' = Connect([conn EXCEPT !.reconnect = FALSE])
  /\ UNCHANGED <<calls, goodbye, server>>

\* The timer nobody has a handle of any more.
ReconnectOrphan ==
  /\ conn.orphan /\ Room
  /\ conn' = Connect([conn EXCEPT !.orphan = FALSE])
  /\ UNCHANGED <<calls, goodbye, server>>

-------------------------------------------------------------------------------
(* The rest of the world.                                                  *)

EndSession(t) ==
  /\ t \in live
  /\ live' = live \ {t}
  /\ UNCHANGED <<conn, calls, goodbye, issued, up>>

GoesDown == up /\ up' = FALSE /\ UNCHANGED <<conn, calls, goodbye, live, issued>>
ComesUp == ~up /\ up' = TRUE /\ UNCHANGED <<conn, calls, goodbye, live, issued>>

\* The other end of the socket in use vanishes without an event.
Vanishes(s) ==
  /\ s = conn.ws /\ up /\ ~conn.sock[s].dead
  /\ conn' = [conn EXCEPT !.sock[s].dead = TRUE]
  /\ UNCHANGED <<calls, goodbye, server>>

SessionNext ==
  \/ Reload \/ RetryNow \/ RetryByUser \/ Login \/ LoginFailed \/ Claimed \/ Leave \/ Left \/ Logout
  \/ \E t \in Sessions :
       \/ ResumeOk(t) \/ ResumeSuspended(t) \/ ResumeRejected(t) \/ ResumeUnreachable(t)
       \/ Adopt(t) \/ AdoptOk(t) \/ AdoptFailed(t) \/ Refreshed(t) \/ FarewellArrives(t)

SocketNext ==
  \/ Reconnect \/ ReconnectOrphan \/ \E late \in BOOLEAN : Heartbeat(late)
  \/ \E s \in Sockets :
       \/ Opened(s) \/ Welcome(s) \/ Unauthorized(s) \/ Removed(s) \/ WrongVersion(s) \/ Pong(s)
       \/ ClosedEnded(s) \/ ClosedUnregistered(s) \/ ClosedSuspended(s) \/ ClosedPlain(s)

WorldNext ==
  \/ GoesDown \/ ComesUp
  \/ \E t \in Sessions : EndSession(t)
  \/ \E s \in Sockets : Vanishes(s)

Next == SessionNext \/ SocketNext \/ WorldNext

\* The browser fires its timers and events; a server that is up answers; a dead socket is noticed;
\* a sign-out waits for its farewell for a bounded time.
Fairness ==
  /\ WF_vars(RetryNow) /\ WF_vars(Reconnect) /\ WF_vars(ReconnectOrphan) /\ WF_vars(Heartbeat(FALSE)) /\ WF_vars(Left)
  /\ \A t \in Sessions : WF_vars(ResumeOk(t) \/ ResumeRejected(t) \/ ResumeUnreachable(t))
  /\ \A s \in Sockets :
       /\ WF_vars(Opened(s)) /\ WF_vars(Welcome(s) \/ Unauthorized(s)) /\ WF_vars(ClosedPlain(s))
       /\ WF_vars(ClosedEnded(s))

Spec == Init /\ [][Next]_vars
LiveSpec == Spec /\ Fairness

-------------------------------------------------------------------------------
(* Properties.                                                             *)

Attached == {s \in Sockets : conn.sock[s].st \in {"connecting", "helloed", "welcomed"}}

\* "Never two sockets of one client": of all sockets that can still deliver, only the current one.
OneSocket == Attached = The(conn.ws)

\* A wanted connection of a client on screen always has something that carries it on: a socket, watched
\* once it is welcomed, or a reconnect timer.  A timer that a sign-out left behind breaks this: it opens a
\* socket before it is known whose session it is.
NeverStranded ==
  conn.want /\ conn.server /\ ~conn.stray =>
    \/ conn.reconnect
    \/ conn.ws # None /\ (InPhase(conn.ws, "welcomed") => conn.ping)

NoticeGoesOn ==
  NoticeShown => resuming # {} \/ conn.retry # None \/ conn.ws # None \/ conn.reconnect \/ leaving

\* The notice "the server is not answering" is never left with nothing that could end it: a request on its
\* way, a step that the timer or the button starts, or a connection that is wanted (RetryLater keeps the
\* step when the plan is used up).
NoticeHasWayOut == (conn.me = None /\ ~conn.stray) \/ conn.want => NoticeGoesOn

\* docs/features/offline.md says of "Abmelden" that the session is dropped and the login follows: whoever
\* signed out is not shown the client again without signing in.  A resume() in flight does that.
SignedOutStaysOut == out => ~conn.server

\* Nobody is signed in and nothing is under way that could bring a session back.
Nobody ==
  /\ conn.token = None /\ conn.stored = None /\ conn.ws = None /\ conn.retry = None /\ ~conn.server
  /\ resuming = {} /\ signing \notin Sessions

\* The requests under way are the whole exception (SignedOutStaysOut): a sign-out during which no "who am I" of resume()
\* or adopt() is under way is final, whatever sockets, timers and refreshes of the session are left; only a
\* sign-in brings the client back, not even a page load.
SignOutIsFinal ==
  [][/\ (Left \/ Logout) /\ resuming = {} /\ signing \notin Sessions => Nobody'
     /\ Nobody => Nobody' \/ \E t \in Sessions : Adopt(t)]_vars

\* What is still under way on behalf of an earlier session.
Leftover(t) ==
  \/ (resuming \cup refreshing) \ {t} # {}
  \/ \E s \in Sockets : conn.sock[s].sess \notin {None, t}

\* The stored session goes only when the server refuses it or the user signs out, never because the server
\* cannot be reached, closes the socket, or suspends the member (sessionRejected), unless an answer or a
\* socket of an earlier session is still under way.
OnlyRefusalDrops ==
  [][conn.stored # None /\ conn'.stored = None
       => conn.stored \notin live \/ Left \/ Logout \/ Leftover(conn.stored)]_vars

Connected == conn.ws # None /\ InPhase(conn.ws, "welcomed")

\* "Comes back by itself": a server that stays up, over a network that loses no more sockets, ends in a
\* connection, unless it is not wanted any more.
Quiet == up /\ \A s \in Sockets : ~conn.sock[s].dead
ComesBack ==
  <>[]Quiet => [](conn.server /\ conn.want => <>(Connected \/ ~conn.want \/ ~conn.server))

\* The notice ends when the server stays up: the server says who it is, or refuses, or the plan is used up.
NoticeEnds ==
  <>[]Quiet => [](NoticeShown /\ resuming # {} => <>(~NoticeShown \/ conn.paused \/ conn.me # None))
===============================================================================
