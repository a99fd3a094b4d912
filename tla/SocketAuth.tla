------------------------------ MODULE SocketAuth ------------------------------
(***************************************************************************)
(* Who gets a WebSocket and when it is cut again: the hello handshake of   *)
(* apps/server/src/ws/handler.ts beside what gives the right to be         *)
(* connected (admit() of a sign-in) and everything that takes it away      *)
(* (sign-out, a device signed out, kick, ban, a deleted account, a         *)
(* suspension, the session's end).                                         *)
(*                                                                         *)
(* The handshake awaits the database four times; every answer is a moment  *)
(* of its own (Read...), and what follows it without an await is the       *)
(* handler's next action.  Taking a right away is two steps, too: first    *)
(* the row in the database, then, after at least one await, the sockets    *)
(* the hub knows of.                                                       *)
(***************************************************************************)
EXTENDS FiniteSets

CONSTANTS
  Sockets, Sessions, Users,
  OwnerOf,   \* sessions.user_id
  Old,       \* the sessions there are at the start; every other one begins with a sign-in
  NoSession  \* a socket that has not said hello

ASSUME SessionsHaveOwners ==
  OwnerOf \in [Sessions -> Users] /\ Old \subseteq Sessions /\ NoSession \notin Sessions

VARIABLES
  (* sockets *)
  conn,       \* "open", "closing" (the server called close()), "closed" (its close event is over)
  pc,         \* where the handshake of a socket is
  tok,        \* the session a socket said hello with
  saw,        \* the first lookup found the user suspended
  registered, \* Hub.userOf and Hub.sessionOf: the sockets in them
  timer,      \* expiryTimer of a socket
  (* database *)
  row,        \* sessions: the rows that exist
  past,       \* sessions whose expires_at lies behind
  refused,    \* sessions whose device is not let in (deviceAllowed)
  known,      \* users: accounts that are not deleted (one that comes back gets another id)
  member,     \* members
  banned,     \* bans
  suspended,  \* users.suspended_until ahead, and the switch is on
  wiped,      \* history: the sessions deleted by a ban
  (* requests between two of their steps *)
  signin,     \* admit(): how far the sign-in is that a session begins with
  revoking,   \* signOut()/endRefused(): the device is refused, its session row not yet deleted
  ending,     \* row deleted, disconnectSession() to come
  banning,    \* POST /api/bans: the ban is on record, removeMember() under way
  removing,   \* the requests that have deleted a user's membership, disconnectUser() to come
  wiping,     \* a ban after removeMember(): the sessions to be deleted
  enforcing   \* Suspensions.enforce(): disconnect to come

sockets == <<conn, pc, tok, saw, registered, timer>>
database == <<row, past, refused, known, member, banned, suspended, wiped>>
requests == <<signin, revoking, ending, banning, removing, wiping, enforcing>>
vars == <<sockets, database, requests>>

PCs == {"new", "lookup", "refuse", "actor", "checked", "again", "actorAgain", "welcome", "live", "done"}

\* What removes a member, and the stages of admit().
Causes == {"kick", "ban", "deletion"}
Stages == {"none", "asked", "stranger", "member", "open"}

\* Before hub.add: the hello timeout runs and any other event closes the socket.
Unidentified == {"new", "lookup", "refuse", "actor", "checked"}

TypeOK ==
  /\ conn \in [Sockets -> {"none", "open", "closing", "closed"}]
  /\ pc \in [Sockets -> PCs]
  /\ tok \in [Sockets -> Sessions \cup {NoSession}]
  /\ saw \in [Sockets -> BOOLEAN]
  /\ registered \subseteq Sockets
  /\ timer \in [Sockets -> {"off", "armed", "checking"}]
  /\ row \subseteq Sessions /\ past \subseteq Sessions /\ refused \subseteq Sessions
  /\ known \subseteq Users /\ member \subseteq known
  /\ banned \subseteq known /\ suspended \subseteq Users
  /\ wiped \subseteq Sessions
  /\ signin \in [Sessions -> Stages]
  /\ revoking \subseteq Sessions /\ ending \subseteq Sessions
  /\ banning \subseteq Users /\ removing \in [Users -> SUBSET Causes]
  /\ wiping \subseteq Users /\ enforcing \subseteq Users

Init ==
  /\ conn = [s \in Sockets |-> "none"]
  /\ pc = [s \in Sockets |-> "new"]
  /\ tok = [s \in Sockets |-> NoSession]
  /\ saw = [s \in Sockets |-> FALSE]
  /\ registered = {}
  /\ timer = [s \in Sockets |-> "off"]
  /\ row = Old /\ past = {} /\ refused = {}
  /\ known = Users /\ member = Users /\ banned = {} /\ suspended = {} /\ wiped = {}
  /\ signin = [t \in Sessions |-> IF t \in Old THEN "open" ELSE "none"]
  /\ revoking = {} /\ ending = {} /\ banning = {} /\ removing = [u \in Users |-> {}]
  /\ wiping = {} /\ enforcing = {}

-------------------------------------------------------------------------------
(* The socket itself.                                                      *)

\* close() of the server on all sockets of a set: the close event follows later.
Closing(S) == [s \in Sockets |-> IF s \in S /\ conn[s] = "open" THEN "closing" ELSE conn[s]]

SocketsOfUser(u) == {s \in registered : OwnerOf[tok[s]] = u}
SocketsOfSession(t) == {s \in registered : tok[s] = t}

Connect(s) ==
  /\ conn[s] = "none"
  /\ conn' = [conn EXCEPT ![s] = "open"]
  /\ UNCHANGED <<pc, tok, saw, registered, timer, database, requests>>

\* The "close" handler: after close(), when the peer goes, or when the heartbeat terminates it.
CloseEvent(s) ==
  /\ conn[s] \in {"open", "closing"}
  /\ conn' = [conn EXCEPT ![s] = "closed"]
  /\ registered' = registered \ {s}
  /\ timer' = [timer EXCEPT ![s] = IF @ = "armed" THEN "off" ELSE @]
  /\ UNCHANGED <<pc, tok, saw, database, requests>>

\* The hello timeout, or an event other than hello from a socket that is not identified yet.
GiveUp(s) ==
  /\ conn[s] = "open" /\ pc[s] \in Unidentified
  /\ conn' = Closing({s})
  /\ UNCHANGED <<pc, tok, saw, registered, timer, database, requests>>

-------------------------------------------------------------------------------
(* The hello handshake.                                                    *)

Refuse(s) ==
  /\ pc' = [pc EXCEPT ![s] = "done"]
  /\ conn' = Closing({s})

\* Frames that arrived before the peer's close frame are still handled while the socket is closing.
Hello(s, t) ==
  /\ conn[s] \in {"open", "closing"} /\ pc[s] = "new"
  /\ signin[t] = "open"
  /\ pc' = [pc EXCEPT ![s] = "lookup"]
  /\ tok' = [tok EXCEPT ![s] = t]
  /\ UNCHANGED <<conn, saw, registered, timer, database, requests>>

\* A hello of another protocol version.
OldHello(s) ==
  /\ conn[s] \in {"open", "closing"} /\ pc[s] = "new"
  /\ Refuse(s)
  /\ UNCHANGED <<tok, saw, registered, timer, database, requests>>

Usable(t) == t \in row /\ t \notin past

\* lookUpSession(): no session, a session whose device is refused, or the user with the suspension of now.
ReadSession(s) ==
  /\ pc[s] = "lookup"
  /\ \/ ~Usable(tok[s]) /\ Refuse(s) /\ UNCHANGED saw
     \/ /\ Usable(tok[s]) /\ tok[s] \in refused
        /\ pc' = [pc EXCEPT ![s] = "refuse"] /\ UNCHANGED <<conn, saw>>
     \/ /\ Usable(tok[s]) /\ tok[s] \notin refused
        /\ pc' = [pc EXCEPT ![s] = "actor"]
        /\ saw' = [saw EXCEPT ![s] = OwnerOf[tok[s]] \in suspended]
        /\ UNCHANGED conn
  /\ UNCHANGED <<tok, registered, timer, database, requests>>

\* The refused session's row goes with the lookup.
DeleteRefused(s) ==
  /\ pc[s] = "refuse"
  /\ row' = row \ {tok[s]}
  /\ Refuse(s)
  /\ UNCHANGED <<tok, saw, registered, timer, past, refused, known, member, banned, suspended, wiped, requests>>

\* actorOf(), then hasAccount() and the suspension as the lookup saw them.  Which members of the time
\* before accounts have none yet is not kept here: anybody may be one.
ReadMember(s) ==
  /\ pc[s] = "actor"
  /\ \/ OwnerOf[tok[s]] \in member /\ ~saw[s] /\ pc' = [pc EXCEPT ![s] = "checked"] /\ UNCHANGED conn
     \/ Refuse(s)
  /\ UNCHANGED <<tok, saw, registered, timer, database, requests>>

\* Mutant: the session is put where the socket belongs.
RegisterSession(s) ==
  /\ pc[s] = "checked"
  /\ registered' = registered \cup {tok[s]}
  /\ pc' = [pc EXCEPT ![s] = "again"]
  /\ UNCHANGED <<conn, tok, saw, timer, database, requests>>

\* hub.add(): from here on the socket can be found and closed.
Register(s) ==
  /\ pc[s] = "checked"
  /\ registered' = registered \cup {s}
  /\ pc' = [pc EXCEPT ![s] = "again"]
  /\ UNCHANGED <<conn, tok, saw, timer, database, requests>>

\* Mutant: hub.add() is the end of the looking.
SessionTrusted(s) ==
  /\ pc[s] = "again"
  /\ pc' = [pc EXCEPT ![s] = "actorAgain"]
  /\ UNCHANGED <<conn, tok, saw, registered, timer, database, requests>>

\* resolveSession() once more; a refused session's row goes here, too.
ReadSessionAgain(s) ==
  /\ pc[s] = "again"
  /\ \/ ~Usable(tok[s]) /\ Refuse(s) /\ UNCHANGED row
     \/ Usable(tok[s]) /\ tok[s] \in refused /\ Refuse(s) /\ row' = row \ {tok[s]}
     \/ /\ Usable(tok[s]) /\ tok[s] \notin refused
        /\ pc' = [pc EXCEPT ![s] = "actorAgain"] /\ UNCHANGED <<conn, row>>
  /\ UNCHANGED <<tok, saw, registered, timer, past, refused, known, member, banned, suspended, wiped, requests>>

\* Mutant: the session is looked at again, the membership is not.
MemberTrusted(s) ==
  /\ pc[s] = "actorAgain"
  /\ pc' = [pc EXCEPT ![s] = "welcome"]
  /\ UNCHANGED <<conn, tok, saw, registered, timer, database, requests>>

ReadMemberAgain(s) ==
  /\ pc[s] = "actorAgain"
  /\ IF OwnerOf[tok[s]] \in member
       THEN pc' = [pc EXCEPT ![s] = "welcome"] /\ UNCHANGED conn
       ELSE Refuse(s)
  /\ UNCHANGED <<tok, saw, registered, timer, database, requests>>

\* Mutant: nobody watches the session's end.
WelcomeForEver(s) ==
  /\ pc[s] = "welcome"
  /\ pc' = [pc EXCEPT ![s] = "live"]
  /\ UNCHANGED <<conn, tok, saw, registered, timer, database, requests>>

\* watchExpiry(), liveness.add() and the welcome.
Welcome(s) ==
  /\ pc[s] = "welcome"
  /\ pc' = [pc EXCEPT ![s] = "live"]
  /\ timer' = [timer EXCEPT ![s] = "armed"]
  /\ UNCHANGED <<conn, tok, saw, registered, database, requests>>

\* The timer fires at the session's end, or earlier because it reaches only ~24 days ahead.
ExpiryFires(s) ==
  /\ timer[s] = "armed"
  /\ timer' = [timer EXCEPT ![s] = "checking"]
  /\ UNCHANGED <<conn, pc, tok, saw, registered, database, requests>>

\* It looks again: the socket is closed, or the rest is waited for.  A failed query is tried again.
CheckExpiry(s) ==
  /\ timer[s] = "checking"
  /\ LET ok == Usable(tok[s]) /\ tok[s] \notin refused IN
       /\ conn' = IF ok THEN conn ELSE Closing({s})
       /\ timer' = [timer EXCEPT ![s] = IF ok /\ conn[s] = "open" THEN "armed" ELSE "off"]
       /\ row' = IF Usable(tok[s]) THEN row \ ({tok[s]} \cap refused) ELSE row
  /\ UNCHANGED <<pc, tok, saw, registered, past, refused, known, member, banned, suspended, wiped, requests>>

-------------------------------------------------------------------------------
(* What gives the right to be connected: admit(), once per session.        *)

BesideSignIn == <<sockets, past, refused, known, banned, suspended, wiped>>
Removals == <<banning, removing, wiping>>

\* The checks of the device and the suspension, then the ban's.
AskIn(t) ==
  /\ signin[t] = "none" /\ OwnerOf[t] \in known \ (banned \cup suspended) /\ t \notin refused
  /\ signin' = [signin EXCEPT ![t] = "asked"]
  /\ UNCHANGED <<BesideSignIn, row, member, revoking, ending, Removals, enforcing>>

LookForMember(t) ==
  /\ signin[t] = "asked"
  /\ signin' = [signin EXCEPT ![t] = IF OwnerOf[t] \in member THEN "member" ELSE "stranger"]
  /\ UNCHANGED <<BesideSignIn, row, member, revoking, ending, Removals, enforcing>>

\* No invite or no place for somebody new; or the user's row is gone, and the insert fails.
TurnAway(t) ==
  /\ signin[t] = "stranger" \/ (signin[t] = "member" /\ OwnerOf[t] \notin known)
  /\ signin' = [signin EXCEPT ![t] = "none"]
  /\ UNCHANGED <<BesideSignIn, row, member, revoking, ending, Removals, enforcing>>

\* An open server or an invite; the ban is not looked at again.
BecomeMember(t) ==
  /\ signin[t] = "stranger" /\ OwnerOf[t] \in known
  /\ member' = member \cup {OwnerOf[t]}
  /\ signin' = [signin EXCEPT ![t] = "member"]
  /\ UNCHANGED <<BesideSignIn, row, revoking, ending, Removals, enforcing>>

\* Nor is the membership: whoever was a member when the sign-in looked gets the session.
OpenSession(t) ==
  /\ signin[t] = "member" /\ OwnerOf[t] \in known
  /\ row' = row \cup {t}
  /\ signin' = [signin EXCEPT ![t] = "open"]
  /\ UNCHANGED <<BesideSignIn, member, revoking, ending, Removals, enforcing>>

-------------------------------------------------------------------------------
(* What takes it away.                                                     *)

OwnRows(u) == {t \in row : OwnerOf[t] = u}
Access == <<known, member, banned, suspended>>

Expire(t) ==
  /\ signin[t] = "open" /\ t \notin past
  /\ past' = past \cup {t}
  /\ UNCHANGED <<sockets, row, refused, Access, wiped, requests>>

\* The list of one's sessions deletes those that ran out, and closes nothing: whoever asked was looked
\* up an await earlier, so the session that ran out may have been their own.
CleanExpired(u) ==
  /\ OwnRows(u) \cap past # {}
  /\ row' = row \ (OwnRows(u) \cap past)
  /\ UNCHANGED <<sockets, past, refused, Access, wiped, requests>>

\* Any other request with a refused session: lookUpSession() deletes the row.
RefusedRequest(t) ==
  /\ Usable(t) /\ t \in refused
  /\ row' = row \ {t}
  /\ UNCHANGED <<sockets, past, refused, Access, wiped, requests>>

\* Sign-out of a session: the row, then its sockets.
SignOut(t) ==
  /\ t \in row
  /\ row' = row \ {t}
  /\ ending' = ending \cup {t}
  /\ UNCHANGED <<sockets, past, refused, Access, wiped, signin, revoking, Removals, enforcing>>

DisconnectSession(t) ==
  /\ t \in ending
  /\ conn' = Closing(SocketsOfSession(t))
  /\ ending' = ending \ {t}
  /\ UNCHANGED <<pc, tok, saw, registered, timer, database, signin, revoking, Removals, enforcing>>

\* A device is signed out, or the directory told that it is no longer among the account's.
RefuseDevice(t) ==
  /\ t \notin refused
  /\ refused' = refused \cup {t}
  /\ revoking' = revoking \cup {t}
  /\ UNCHANGED <<sockets, row, past, Access, wiped, signin, ending, Removals, enforcing>>

\* delete ... returning: only a row that is still there is ended with its sockets.
DeleteRevoked(t) ==
  /\ t \in revoking
  /\ row' = row \ {t}
  /\ revoking' = revoking \ {t}
  /\ ending' = IF t \in row THEN ending \cup {t} ELSE ending
  /\ UNCHANGED <<sockets, past, refused, Access, wiped, signin, Removals, enforcing>>

\* removeMember() up to the membership: what the request has deleted it will carry to the sockets.
Expelled(u, cause) ==
  /\ member' = member \ {u}
  /\ removing' = [removing EXCEPT ![u] = @ \cup {cause}]

BeingRemoved == {u \in Users : removing[u] # {}}

\* Bound: one kick of a user at a time, and one ban.
Kick(u) ==
  /\ u \in member /\ "kick" \notin removing[u]
  /\ Expelled(u, "kick")
  /\ UNCHANGED <<sockets, row, past, refused, known, banned, suspended, wiped, signin, revoking, ending,
                 banning, wiping, enforcing>>

\* The ban is recorded first; somebody banned already may be banned again.
Ban(u) ==
  /\ u \in known /\ u \notin banning \cup wiping /\ "ban" \notin removing[u]
  /\ banned' = banned \cup {u}
  /\ banning' = banning \cup {u}
  /\ UNCHANGED <<sockets, row, past, refused, known, member, suspended, wiped, signin, revoking, ending,
                 removing, wiping, enforcing>>

\* Mutant: the ban takes the membership and the sessions, not the sockets.
ExpelOnPaper(u) ==
  /\ u \in banning
  /\ member' = member \ {u}
  /\ banning' = banning \ {u}
  /\ wiping' = wiping \cup {u}
  /\ UNCHANGED <<sockets, row, past, refused, known, banned, suspended, wiped, signin, revoking, ending,
                 removing, enforcing>>

\* Awaits later the membership goes, of whoever is a member by then.
Expel(u) ==
  /\ u \in banning
  /\ Expelled(u, "ban")
  /\ banning' = banning \ {u}
  /\ UNCHANGED <<sockets, row, past, refused, known, banned, suspended, wiped, signin, revoking, ending,
                 wiping, enforcing>>

DisconnectUser(u, cause) ==
  /\ cause \in removing[u]
  /\ conn' = Closing(SocketsOfUser(u))
  /\ removing' = [removing EXCEPT ![u] = @ \ {cause}]
  /\ wiping' = IF cause = "ban" THEN wiping \cup {u} ELSE wiping
  /\ UNCHANGED <<pc, tok, saw, registered, timer, database, signin, revoking, ending, banning, enforcing>>

\* The sessions go last.
WipeSessions(u) ==
  /\ u \in wiping
  /\ row' = row \ OwnRows(u)
  /\ wiped' = wiped \cup OwnRows(u)
  /\ wiping' = wiping \ {u}
  /\ UNCHANGED <<sockets, past, refused, Access, signin, revoking, ending, banning, removing, enforcing>>

Unban(u) ==
  /\ u \in banned
  /\ banned' = banned \ {u}
  /\ UNCHANGED <<sockets, row, past, refused, known, member, suspended, wiped, requests>>

\* The users row goes, and with it sessions, membership and, for this id, the ban.
DeleteAccount(u) ==
  /\ u \in known
  /\ row' = row \ OwnRows(u)
  /\ known' = known \ {u} /\ banned' = banned \ {u}
  /\ Expelled(u, "deletion")
  /\ UNCHANGED <<sockets, past, refused, suspended, wiped, signin, revoking, ending, banning, wiping, enforcing>>

Suspend(u) ==
  /\ u \notin suspended
  /\ suspended' = suspended \cup {u}
  /\ enforcing' = enforcing \cup {u}
  /\ UNCHANGED <<sockets, row, past, refused, known, member, banned, wiped, signin, revoking, ending, Removals>>

EnforceSuspension(u) ==
  /\ u \in enforcing
  /\ conn' = Closing(SocketsOfUser(u))
  /\ enforcing' = enforcing \ {u}
  /\ UNCHANGED <<pc, tok, saw, registered, timer, database, signin, revoking, ending, Removals>>

-------------------------------------------------------------------------------
Handshake(s) ==
  \/ ReadSession(s) \/ DeleteRefused(s) \/ ReadMember(s) \/ Register(s)
  \/ ReadSessionAgain(s) \/ ReadMemberAgain(s) \/ Welcome(s)

Admission ==
  \/ \E t \in Sessions : AskIn(t) \/ LookForMember(t) \/ TurnAway(t) \/ BecomeMember(t) \/ OpenSession(t)
  \/ \E u \in Users : Unban(u)

Revocation ==
  \/ \E t \in Sessions : Expire(t) \/ RefusedRequest(t) \/ SignOut(t) \/ RefuseDevice(t)
  \/ \E t \in Sessions : DisconnectSession(t) \/ DeleteRevoked(t)
  \/ \E u \in Users : CleanExpired(u) \/ Kick(u) \/ Ban(u) \/ Expel(u) \/ DeleteAccount(u) \/ Suspend(u)
  \/ \E u \in Users : WipeSessions(u) \/ EnforceSuspension(u)
  \/ \E u \in Users, cause \in Causes : DisconnectUser(u, cause)

Next ==
  \/ \E s \in Sockets : Connect(s) \/ CloseEvent(s) \/ GiveUp(s) \/ OldHello(s)
  \/ \E s \in Sockets, t \in Sessions : Hello(s, t)
  \/ \E s \in Sockets : Handshake(s) \/ ExpiryFires(s) \/ CheckExpiry(s)
  \/ Admission \/ Revocation

Spec == Init /\ [][Next]_vars

\* The database answers, the hello timeout and the expiry timer fire, and a request that has
\* deleted its rows goes on to the sockets.  A peer need not answer a close frame: the library
\* ends such a socket by itself.
Fairness ==
  /\ \A s \in Sockets : /\ WF_vars(Handshake(s)) /\ WF_vars(CheckExpiry(s))
                        /\ WF_vars(GiveUp(s)) /\ WF_vars(conn[s] = "closing" /\ CloseEvent(s))
                        /\ WF_vars(tok[s] \in past /\ ExpiryFires(s))
  /\ \A t \in Sessions : WF_vars(DisconnectSession(t)) /\ WF_vars(DeleteRevoked(t))
  /\ \A u \in Users : WF_vars(Expel(u)) /\ WF_vars(WipeSessions(u)) /\ WF_vars(EnforceSuspension(u))
  /\ \A u \in Users, cause \in Causes : WF_vars(DisconnectUser(u, cause))

FairSpec == Spec /\ Fairness

-------------------------------------------------------------------------------
(* Properties.                                                             *)

Connected(s) == pc[s] = "live" /\ conn[s] = "open"

\* A socket that is in and open belongs to a member, unless the request that removed them is
\* still on its way to it: no kick, ban or deletion slips between the lookup and hub.add
\* (handler.ts, "look again now that it is registered").
MemberOrCut == \A s \in Sockets : Connected(s) => OwnerOf[tok[s]] \in member \cup BeingRemoved

\* The same for its session.  A row that is gone is one whose sockets are being closed, or whose user is
\* being removed; the exceptions are a refused device (RevokedDeviceIsCut), a session that ran out (its
\* row may be cleaned up before the timer that will close the socket looks) and a session that a ban
\* deleted after its user had come back as a member while the ban was still under way.
SessionOrCut ==
  \A s \in Sockets : Connected(s) =>
    \/ tok[s] \in row \cup ending \cup refused
    \/ OwnerOf[tok[s]] \in BeingRemoved
    \/ tok[s] \in past /\ timer[s] # "off"
    \/ tok[s] \in wiped /\ OwnerOf[tok[s]] \in member

\* The session's end reaches every socket it let in (handler.ts, watchExpiry).
ExpiryCuts == \A s \in Sockets : (Connected(s) /\ tok[s] \in past) ~> conn[s] # "open"

\* While a socket is in and open somebody watches its session: the timer that looks again is armed,
\* or its look is under way (handler.ts, watchExpiry, which arms itself anew after every look).
OpenIsWatched == \A s \in Sockets : Connected(s) => timer[s] \in {"armed", "checking"}

\* A device that is not let in any more keeps an open socket only if its session's row was deleted by
\* another request meanwhile: as long as the row is there, a revocation is on its way to it
\* (users/devices.ts deletes "returning" and closes the sockets of what it gets back).
RefusedWithRowIsCut ==
  \A s \in Sockets : Connected(s) /\ tok[s] \in refused \cap row => tok[s] \in revoking

\* Whoever loses their membership to a kick, a ban or a deletion has no socket left open in the end,
\* whatever handshakes were half-way through: either these see the removal or it sees them.  Only
\* being admitted again stops that.
RemovalCuts ==
  \A s \in Sockets, t \in Sessions :
    (tok[s] = t /\ OwnerOf[t] \notin member) ~> (conn[s] # "open" \/ OwnerOf[t] \in member)

\* "A ban ends every session here" (members.ts:217): whoever is banned is a member only until the ban's
\* own removal has come by.
BannedIsOut == banned \cap member \subseteq banning

\* "Their rows go, their sockets close with 4011" (users/devices.ts): once a device is not let in
\* any more, no socket of its session is left open.
RevokedDeviceIsCut ==
  \A s \in Sockets : Connected(s) /\ tok[s] \in refused => tok[s] \in revoking \cup ending

\* "whoever is connected when the server learns of the suspension is disconnected"
\* (users/suspension.ts).
SuspendedIsCut ==
  \A s \in Sockets : Connected(s) /\ OwnerOf[tok[s]] \in suspended => OwnerOf[tok[s]] \in enforcing

\* "Presence (online) = at least one connection" (hub.ts): a socket whose close is over is not
\* counted any more once its handshake is over.
OnlineMeansConnected ==
  \A s \in Sockets : conn[s] = "closed" /\ pc[s] \in {"live", "done"} => s \notin registered
===============================================================================
