--------------------------- MODULE SocketAuthProofs ---------------------------
(***************************************************************************)
(* Proofs about SocketAuth, for any number of sockets, sessions and users. *)
(*                                                                         *)
(* What the second lookup buys is the order of two facts: an open socket   *)
(* whose handshake has passed hub.add is registered, so whoever removes    *)
(* its right later finds it; and whoever removed it earlier is seen by the *)
(* reads after hub.add.  The invariant says so for every stage of the      *)
(* handshake from hub.add on.                                              *)
(***************************************************************************)
EXTENDS SocketAuth, TLAPS

Owner(s) == OwnerOf[tok[s]]

Identified == {"again", "actorAgain", "welcome", "live"}

\* The sessions that are there, and those whose row is gone for a reason that SessionOrCut names.
Accounted == row \cup ending \cup refused \cup past \cup wiped

\* A socket that is in its handshake knows a session that somebody signed in for, one that is not yet
\* there has said nothing, and only a refused session is deleted by the lookup.
TokSound ==
  \A s \in Sockets :
    /\ pc[s] \notin {"new", "done"} => tok[s] \in Sessions /\ signin[tok[s]] = "open"
    /\ pc[s] = "refuse" => tok[s] \in refused
    /\ conn[s] = "none" => pc[s] = "new"

\* Past hub.add an open socket can be found.
RegisteredSound ==
  \A s \in Sockets : s \in registered => tok[s] \in Sessions
OpenIsRegistered ==
  \A s \in Sockets : conn[s] = "open" /\ pc[s] \in Identified => s \in registered

\* After the second read of the members table.
MemberSound ==
  \A s \in Sockets : conn[s] = "open" /\ pc[s] \in {"welcome", "live"} => Owner(s) \in member \cup BeingRemoved

\* After the second lookup of the session.
SessionSound ==
  \A s \in Sockets : conn[s] = "open" /\ pc[s] \in {"actorAgain", "welcome", "live"} =>
    tok[s] \in Accounted \/ Owner(s) \in BeingRemoved

\* What the invariant says of sockets.
SocketsSound == TokSound /\ RegisteredSound /\ OpenIsRegistered

IInv == TypeOK /\ SocketsSound /\ MemberSound /\ SessionSound

\* At the start nobody is connected and nothing is under way.
LEMMA InitSound == Init => IInv
BY SessionsHaveOwners DEF Init, IInv, TypeOK, PCs, Causes, Stages, SocketsSound, TokSound, RegisteredSound,
   OpenIsRegistered, MemberSound, SessionSound, Identified

-------------------------------------------------------------------------------
(* The socket and its handshake.                                           *)

\* A new socket has said nothing yet.
LEMMA ConnectKeeps ==
  ASSUME IInv, NEW s \in Sockets, Connect(s)
  PROVE  IInv'
<1>1. TypeOK'
  BY SessionsHaveOwners DEF IInv, TypeOK, PCs, Connect, sockets, database, requests
<1>2. SocketsSound'
  BY DEF IInv, SocketsSound, TypeOK, PCs, TokSound, RegisteredSound, OpenIsRegistered, Identified,
     Connect, sockets, database, requests
<1>3. MemberSound'
  BY DEF IInv, SocketsSound, TypeOK, PCs, MemberSound, BeingRemoved, Owner, TokSound, Connect, sockets,
     database, requests
<1>4. SessionSound'
  BY DEF IInv, SocketsSound, TypeOK, PCs, SessionSound, Accounted, BeingRemoved, Owner, TokSound,
     Connect, sockets, database, requests
<1> QED BY <1>1, <1>2, <1>3, <1>4 DEF IInv

\* A closed socket is not open, so nothing is owed to it.
LEMMA CloseEventKeeps ==
  ASSUME IInv, NEW s \in Sockets, CloseEvent(s)
  PROVE  IInv'
<1>1. TypeOK'
  BY SessionsHaveOwners DEF IInv, TypeOK, PCs, CloseEvent, sockets, database, requests
<1>2. SocketsSound'
  BY DEF IInv, SocketsSound, TypeOK, PCs, TokSound, RegisteredSound, OpenIsRegistered, Identified,
     CloseEvent, sockets, database, requests
<1>3. MemberSound'
  BY DEF IInv, SocketsSound, TypeOK, PCs, MemberSound, BeingRemoved, Owner, TokSound, CloseEvent,
     sockets, database, requests
<1>4. SessionSound'
  BY DEF IInv, SocketsSound, TypeOK, PCs, SessionSound, Accounted, BeingRemoved, Owner, TokSound,
     CloseEvent, sockets, database, requests
<1> QED BY <1>1, <1>2, <1>3, <1>4 DEF IInv

\* Closing a socket only weakens what is asked of it.
LEMMA GiveUpKeeps ==
  ASSUME IInv, NEW s \in Sockets, GiveUp(s)
  PROVE  IInv'
<1>1. TypeOK'
  BY SessionsHaveOwners DEF IInv, TypeOK, PCs, GiveUp, Unidentified, Closing, sockets, database,
     requests
<1>2. SocketsSound'
  BY DEF IInv, SocketsSound, TypeOK, PCs, TokSound, RegisteredSound, OpenIsRegistered, Identified,
     GiveUp, Unidentified, Closing, sockets, database, requests
<1>3. MemberSound'
  BY DEF IInv, SocketsSound, TypeOK, PCs, MemberSound, BeingRemoved, Owner, TokSound, GiveUp,
     Unidentified, Closing, sockets, database, requests
<1>4. SessionSound'
  BY DEF IInv, SocketsSound, TypeOK, PCs, SessionSound, Accounted, BeingRemoved, Owner, TokSound,
     GiveUp, Unidentified, Closing, sockets, database, requests
<1> QED BY <1>1, <1>2, <1>3, <1>4 DEF IInv

\* A refused socket is done.
LEMMA OldHelloKeeps ==
  ASSUME IInv, NEW s \in Sockets, OldHello(s)
  PROVE  IInv'
<1>1. TypeOK'
  BY SessionsHaveOwners DEF IInv, TypeOK, PCs, OldHello, Refuse, Closing, sockets, database, requests
<1>2. SocketsSound'
  BY DEF IInv, SocketsSound, TypeOK, PCs, TokSound, RegisteredSound, OpenIsRegistered, Identified,
     OldHello, Refuse, Closing, sockets, database, requests
<1>3. MemberSound'
  BY DEF IInv, SocketsSound, TypeOK, PCs, MemberSound, BeingRemoved, Owner, TokSound, OldHello, Refuse,
     Closing, sockets, database, requests
<1>4. SessionSound'
  BY DEF IInv, SocketsSound, TypeOK, PCs, SessionSound, Accounted, BeingRemoved, Owner, TokSound,
     OldHello, Refuse, Closing, sockets, database, requests
<1> QED BY <1>1, <1>2, <1>3, <1>4 DEF IInv

\* The handshake starts with a session in hand and nothing known of it.
LEMMA HelloKeeps ==
  ASSUME IInv, NEW s \in Sockets, NEW t \in Sessions, Hello(s, t)
  PROVE  IInv'
<1>1. TypeOK'
  BY SessionsHaveOwners DEF IInv, TypeOK, PCs, Hello, sockets, database, requests
<1>2. SocketsSound'
  BY DEF IInv, SocketsSound, TypeOK, PCs, TokSound, RegisteredSound, OpenIsRegistered, Identified,
     Hello, sockets, database, requests
<1>3. MemberSound'
  BY DEF IInv, SocketsSound, TypeOK, PCs, MemberSound, BeingRemoved, Owner, TokSound, Hello, sockets,
     database, requests
<1>4. SessionSound'
  BY DEF IInv, SocketsSound, TypeOK, PCs, SessionSound, Accounted, BeingRemoved, Owner, TokSound, Hello,
     sockets, database, requests
<1> QED BY <1>1, <1>2, <1>3, <1>4 DEF IInv

\* The first lookup decides nothing that lasts: what it saw is read again.
LEMMA ReadSessionKeeps ==
  ASSUME IInv, NEW s \in Sockets, ReadSession(s)
  PROVE  IInv'
<1>1. TypeOK'
  <2>1. saw' \in [Sockets -> BOOLEAN]
    <3>1. saw' = saw \/ saw' = [saw EXCEPT ![s] = OwnerOf[tok[s]] \in suspended]
      BY DEF ReadSession
    <3>2. (OwnerOf[tok[s]] \in suspended) \in BOOLEAN
      OBVIOUS
    <3>3. saw \in [Sockets -> BOOLEAN]
      BY DEF IInv, TypeOK
    <3> QED BY <3>1, <3>2, <3>3, Zenon
  <2>2. pc' \in [Sockets -> PCs] /\ conn' \in [Sockets -> {"none", "open", "closing", "closed"}]
    BY DEF IInv, TypeOK, PCs, ReadSession, Refuse, Closing
  <2> QED BY <2>1, <2>2 DEF IInv, TypeOK, ReadSession, database, requests
<1>2. SocketsSound'
  BY DEF IInv, SocketsSound, TypeOK, PCs, TokSound, RegisteredSound, OpenIsRegistered, Identified,
     ReadSession, Refuse, Closing, Usable, sockets, database, requests
<1>3. MemberSound'
  BY DEF IInv, SocketsSound, TypeOK, PCs, MemberSound, BeingRemoved, Owner, TokSound, ReadSession,
     Refuse, Closing, Usable, sockets, database, requests
<1>4. SessionSound'
  BY DEF IInv, SocketsSound, TypeOK, PCs, SessionSound, Accounted, BeingRemoved, Owner, TokSound,
     ReadSession, Refuse, Closing, Usable, sockets, database, requests
<1> QED BY <1>1, <1>2, <1>3, <1>4 DEF IInv

\* The row that goes is a refused one.
LEMMA DeleteRefusedKeeps ==
  ASSUME IInv, NEW s \in Sockets, DeleteRefused(s)
  PROVE  IInv'
<1>1. TypeOK'
  BY SessionsHaveOwners DEF IInv, TypeOK, PCs, DeleteRefused, Refuse, Closing, sockets, database,
     requests
<1>2. SocketsSound'
  BY DEF IInv, SocketsSound, TypeOK, PCs, TokSound, RegisteredSound, OpenIsRegistered, Identified,
     DeleteRefused, Refuse, Closing, sockets, database, requests
<1>3. MemberSound'
  BY DEF IInv, SocketsSound, TypeOK, PCs, MemberSound, BeingRemoved, Owner, TokSound, DeleteRefused,
     Refuse, Closing, sockets, database, requests
<1>4. SessionSound'
  BY DEF IInv, SocketsSound, TypeOK, PCs, SessionSound, Accounted, BeingRemoved, Owner, TokSound,
     DeleteRefused, Refuse, Closing, sockets, database, requests
<1> QED BY <1>1, <1>2, <1>3, <1>4 DEF IInv

\* The first look at the members decides nothing that lasts either.
LEMMA ReadMemberKeeps ==
  ASSUME IInv, NEW s \in Sockets, ReadMember(s)
  PROVE  IInv'
<1>1. TypeOK'
  BY SessionsHaveOwners DEF IInv, TypeOK, PCs, ReadMember, Refuse, Closing, sockets, database, requests
<1>2. SocketsSound'
  BY DEF IInv, SocketsSound, TypeOK, PCs, TokSound, RegisteredSound, OpenIsRegistered, Identified,
     ReadMember, Refuse, Closing, sockets, database, requests
<1>3. MemberSound'
  BY DEF IInv, SocketsSound, TypeOK, PCs, MemberSound, BeingRemoved, Owner, TokSound, ReadMember,
     Refuse, Closing, sockets, database, requests
<1>4. SessionSound'
  BY DEF IInv, SocketsSound, TypeOK, PCs, SessionSound, Accounted, BeingRemoved, Owner, TokSound,
     ReadMember, Refuse, Closing, sockets, database, requests
<1> QED BY <1>1, <1>2, <1>3, <1>4 DEF IInv

\* From here on the socket can be found.
LEMMA RegisterKeeps ==
  ASSUME IInv, NEW s \in Sockets, Register(s)
  PROVE  IInv'
<1>1. TypeOK'
  BY SessionsHaveOwners DEF IInv, TypeOK, PCs, Register, sockets, database, requests
<1>2. SocketsSound'
  BY DEF IInv, SocketsSound, TypeOK, PCs, TokSound, RegisteredSound, OpenIsRegistered, Identified,
     Register, sockets, database, requests
<1>3. MemberSound'
  BY DEF IInv, SocketsSound, TypeOK, PCs, MemberSound, BeingRemoved, Owner, TokSound, Register, sockets,
     database, requests
<1>4. SessionSound'
  BY DEF IInv, SocketsSound, TypeOK, PCs, SessionSound, Accounted, BeingRemoved, Owner, TokSound,
     Register, sockets, database, requests
<1> QED BY <1>1, <1>2, <1>3, <1>4 DEF IInv

\* The row is there and the socket is registered, so whoever deletes it will find the socket.
LEMMA ReadSessionAgainKeeps ==
  ASSUME IInv, NEW s \in Sockets, ReadSessionAgain(s)
  PROVE  IInv'
<1>1. TypeOK'
  BY SessionsHaveOwners DEF IInv, TypeOK, PCs, ReadSessionAgain, Refuse, Closing, Usable, sockets,
     database, requests
<1>2. SocketsSound'
  BY DEF IInv, SocketsSound, TypeOK, PCs, TokSound, RegisteredSound, OpenIsRegistered, Identified,
     ReadSessionAgain, Refuse, Closing, Usable, sockets, database, requests
<1>3. MemberSound'
  BY DEF IInv, SocketsSound, TypeOK, PCs, MemberSound, BeingRemoved, Owner, TokSound, ReadSessionAgain,
     Refuse, Closing, Usable, sockets, database, requests
<1>4. SessionSound'
  BY DEF IInv, SocketsSound, TypeOK, PCs, SessionSound, Accounted, BeingRemoved, Owner, TokSound,
     ReadSessionAgain, Refuse, Closing, Usable, sockets, database, requests
<1> QED BY <1>1, <1>2, <1>3, <1>4 DEF IInv

\* The same for the membership; the session found before still stands.
LEMMA ReadMemberAgainKeeps ==
  ASSUME IInv, NEW s \in Sockets, ReadMemberAgain(s)
  PROVE  IInv'
<1>1. TypeOK'
  BY SessionsHaveOwners DEF IInv, TypeOK, PCs, ReadMemberAgain, Refuse, Closing, sockets, database,
     requests
<1>2. SocketsSound'
  BY DEF IInv, SocketsSound, TypeOK, PCs, TokSound, RegisteredSound, OpenIsRegistered, Identified,
     ReadMemberAgain, Refuse, Closing, sockets, database, requests
<1>3. MemberSound'
  BY DEF IInv, SocketsSound, TypeOK, PCs, MemberSound, BeingRemoved, Owner, TokSound, ReadMemberAgain,
     Refuse, Closing, sockets, database, requests
<1>4. SessionSound'
  BY DEF IInv, SocketsSound, TypeOK, PCs, SessionSound, Accounted, BeingRemoved, Owner, TokSound,
     ReadMemberAgain, Refuse, Closing, sockets, database, requests
<1> QED BY <1>1, <1>2, <1>3, <1>4 DEF IInv

\* What held after the last read holds on.
LEMMA WelcomeKeeps ==
  ASSUME IInv, NEW s \in Sockets, Welcome(s)
  PROVE  IInv'
<1>1. TypeOK'
  BY SessionsHaveOwners DEF IInv, TypeOK, PCs, Welcome, sockets, database, requests
<1>2. SocketsSound'
  BY DEF IInv, SocketsSound, TypeOK, PCs, TokSound, RegisteredSound, OpenIsRegistered, Identified,
     Welcome, sockets, database, requests
<1>3. MemberSound'
  BY DEF IInv, SocketsSound, TypeOK, PCs, MemberSound, BeingRemoved, Owner, TokSound, Welcome, sockets,
     database, requests
<1>4. SessionSound'
  BY DEF IInv, SocketsSound, TypeOK, PCs, SessionSound, Accounted, BeingRemoved, Owner, TokSound,
     Welcome, sockets, database, requests
<1> QED BY <1>1, <1>2, <1>3, <1>4 DEF IInv

\* A timer changes nothing by itself.
LEMMA ExpiryFiresKeeps ==
  ASSUME IInv, NEW s \in Sockets, ExpiryFires(s)
  PROVE  IInv'
<1>1. TypeOK'
  BY SessionsHaveOwners DEF IInv, TypeOK, PCs, ExpiryFires, sockets, database, requests
<1>2. SocketsSound'
  BY DEF IInv, SocketsSound, TypeOK, PCs, TokSound, RegisteredSound, OpenIsRegistered, Identified,
     ExpiryFires, sockets, database, requests
<1>3. MemberSound'
  BY DEF IInv, SocketsSound, TypeOK, PCs, MemberSound, BeingRemoved, Owner, TokSound, ExpiryFires,
     sockets, database, requests
<1>4. SessionSound'
  BY DEF IInv, SocketsSound, TypeOK, PCs, SessionSound, Accounted, BeingRemoved, Owner, TokSound,
     ExpiryFires, sockets, database, requests
<1> QED BY <1>1, <1>2, <1>3, <1>4 DEF IInv

\* The timer closes, and its lookup deletes refused rows only.
LEMMA CheckExpiryKeeps ==
  ASSUME IInv, NEW s \in Sockets, CheckExpiry(s)
  PROVE  IInv'
<1>1. TypeOK'
  BY SessionsHaveOwners DEF IInv, TypeOK, PCs, CheckExpiry, Closing, Usable, sockets, database, requests
<1>2. SocketsSound'
  BY DEF IInv, SocketsSound, TypeOK, PCs, TokSound, RegisteredSound, OpenIsRegistered, Identified,
     CheckExpiry, Closing, Usable, sockets, database, requests
<1>3. MemberSound'
  BY DEF IInv, SocketsSound, TypeOK, PCs, MemberSound, BeingRemoved, Owner, TokSound, CheckExpiry,
     Closing, Usable, sockets, database, requests
<1>4. SessionSound'
  BY DEF IInv, SocketsSound, TypeOK, PCs, SessionSound, Accounted, BeingRemoved, Owner, TokSound,
     CheckExpiry, Closing, Usable, sockets, database, requests
<1> QED BY <1>1, <1>2, <1>3, <1>4 DEF IInv

-------------------------------------------------------------------------------
(* Sign-ins and requests that do not touch a socket: they keep every promise to the open ones if they  *)
(* take nothing away but with a removal on its way.                                                    *)

LEMMA QuietKeeps ==
  ASSUME IInv, TypeOK', UNCHANGED sockets,
         member \cup BeingRemoved \subseteq (member \cup BeingRemoved)',
         BeingRemoved \subseteq BeingRemoved', refused \subseteq refused',
         \A t \in Accounted : t \in Accounted' \/ OwnerOf[t] \in BeingRemoved',
         \A t \in Sessions : signin[t] = "open" => signin'[t] = "open"
  PROVE  IInv'
<1>1. SocketsSound'
  BY DEF IInv, SocketsSound, TokSound, RegisteredSound, OpenIsRegistered, Identified, sockets
<1>2. MemberSound'
  BY DEF IInv, MemberSound, Owner, sockets
<1>3. SessionSound'
  BY DEF IInv, SessionSound, Owner, sockets
<1> QED BY <1>1, <1>2, <1>3 DEF IInv

\* A sign-in adds a member or a row; the end of a ban adds nothing.
LEMMA AdmissionKeeps ==
  ASSUME IInv,
         \/ \E t \in Sessions : AskIn(t)
         \/ \E t \in Sessions : LookForMember(t)
         \/ \E t \in Sessions : TurnAway(t)
         \/ \E t \in Sessions : BecomeMember(t)
         \/ \E t \in Sessions : OpenSession(t)
         \/ \E u \in Users : Unban(u)
  PROVE  IInv'
<1>1. UNCHANGED sockets
  BY DEF AskIn, LookForMember, TurnAway, BecomeMember, OpenSession, Unban, BesideSignIn, Removals, requests
<1>2. TypeOK'
  BY <1>1, SessionsHaveOwners DEF IInv, TypeOK, Causes, Stages, sockets, AskIn, LookForMember, TurnAway,
     BecomeMember, OpenSession, Unban, BesideSignIn, Removals, requests
<1>3. BeingRemoved \subseteq BeingRemoved' /\ member \cup BeingRemoved \subseteq (member \cup BeingRemoved)'
  BY DEF IInv, TypeOK, BeingRemoved, AskIn, LookForMember, TurnAway, BecomeMember, OpenSession, Unban,
     BesideSignIn, Removals, requests
<1>4. \A t \in Accounted : t \in Accounted' \/ OwnerOf[t] \in BeingRemoved'
  BY SessionsHaveOwners DEF IInv, TypeOK, Accounted, BeingRemoved, AskIn, LookForMember, TurnAway,
     BecomeMember, OpenSession, Unban, BesideSignIn, Removals, requests
<1>5. refused \subseteq refused' /\ \A t \in Sessions : signin[t] = "open" => signin'[t] = "open"
  BY DEF IInv, TypeOK, AskIn, LookForMember, TurnAway, BecomeMember, OpenSession, Unban, BesideSignIn,
     Removals, requests
<1> QED BY <1>1, <1>2, <1>3, <1>4, <1>5, QuietKeeps

\* A row that goes has run out, is refused, is in the hands of whoever will close its sockets, or was deleted by a ban.
LEMMA RowsKeeps ==
  ASSUME IInv,
         \/ \E t \in Sessions : Expire(t)
         \/ \E u \in Users : CleanExpired(u)
         \/ \E t \in Sessions : RefusedRequest(t)
         \/ \E t \in Sessions : SignOut(t)
         \/ \E t \in Sessions : RefuseDevice(t)
         \/ \E t \in Sessions : DeleteRevoked(t)
         \/ \E u \in Users : WipeSessions(u)
  PROVE  IInv'
<1>1. UNCHANGED sockets
  BY DEF Expire, CleanExpired, RefusedRequest, SignOut, RefuseDevice, DeleteRevoked, WipeSessions,
     Access, Removals, OwnRows, Usable, requests
<1>2. TypeOK'
  BY <1>1, SessionsHaveOwners DEF IInv, TypeOK, Causes, Stages, sockets, Expire, CleanExpired,
     RefusedRequest, SignOut, RefuseDevice, DeleteRevoked, WipeSessions, Access, Removals, OwnRows, Usable,
     requests
<1>3. BeingRemoved \subseteq BeingRemoved' /\ member \cup BeingRemoved \subseteq (member \cup BeingRemoved)'
  BY DEF IInv, TypeOK, BeingRemoved, Expire, CleanExpired, RefusedRequest, SignOut, RefuseDevice,
     DeleteRevoked, WipeSessions, Access, Removals, OwnRows, Usable, requests
<1>4. \A t \in Accounted : t \in Accounted' \/ OwnerOf[t] \in BeingRemoved'
  BY SessionsHaveOwners DEF IInv, TypeOK, Accounted, BeingRemoved, Expire, CleanExpired, RefusedRequest,
     SignOut, RefuseDevice, DeleteRevoked, WipeSessions, Access, Removals, OwnRows, Usable, requests
<1>5. refused \subseteq refused' /\ \A t \in Sessions : signin[t] = "open" => signin'[t] = "open"
  BY DEF IInv, TypeOK, Expire, CleanExpired, RefusedRequest, SignOut, RefuseDevice, DeleteRevoked,
     WipeSessions, Access, Removals, OwnRows, Usable, requests
<1> QED BY <1>1, <1>2, <1>3, <1>4, <1>5, QuietKeeps

\* A member who goes is in the hands of whoever will close their sockets.
LEMMA RemovalKeeps ==
  ASSUME IInv,
         \/ \E u \in Users : Kick(u)
         \/ \E u \in Users : Ban(u)
         \/ \E u \in Users : Expel(u)
         \/ \E u \in Users : DeleteAccount(u)
         \/ \E u \in Users : Suspend(u)
  PROVE  IInv'
<1>1. UNCHANGED sockets
  BY DEF Kick, Ban, Expel, DeleteAccount, Suspend, Expelled, Removals, OwnRows
<1>2. TypeOK'
  BY <1>1, SessionsHaveOwners DEF IInv, TypeOK, Causes, Stages, sockets, Kick, Ban, Expel,
     DeleteAccount, Suspend, Expelled, Removals, OwnRows
<1>3. BeingRemoved \subseteq BeingRemoved' /\ member \cup BeingRemoved \subseteq (member \cup BeingRemoved)'
  BY DEF IInv, TypeOK, BeingRemoved, Kick, Ban, Expel, DeleteAccount, Suspend, Expelled, Removals,
     OwnRows
<1>4. \A t \in Accounted : t \in Accounted' \/ OwnerOf[t] \in BeingRemoved'
  BY SessionsHaveOwners DEF IInv, TypeOK, Accounted, BeingRemoved, Kick, Ban, Expel, DeleteAccount,
     Suspend, Expelled, Removals, OwnRows
<1>5. refused \subseteq refused' /\ \A t \in Sessions : signin[t] = "open" => signin'[t] = "open"
  BY DEF IInv, TypeOK, Kick, Ban, Expel, DeleteAccount, Suspend, Expelled, Removals, OwnRows
<1> QED BY <1>1, <1>2, <1>3, <1>4, <1>5, QuietKeeps

-------------------------------------------------------------------------------
(* Requests that reach the sockets: every open one past hub.add is registered, so it is closed now.    *)

LEMMA ClosingKeeps ==
  ASSUME IInv, NEW S \in SUBSET Sockets, TypeOK', conn' = Closing(S),
         UNCHANGED <<pc, tok, registered, signin, refused>>,
         \A s \in registered \ S : Owner(s) \in member \cup BeingRemoved => Owner(s) \in (member \cup BeingRemoved)',
         \A s \in registered \ S : tok[s] \in Accounted \/ Owner(s) \in BeingRemoved
                                 => tok[s] \in Accounted' \/ Owner(s) \in BeingRemoved'
  PROVE  IInv'
<1>1. \A s \in Sockets : /\ conn'[s] = "open" => conn[s] = "open" /\ s \notin S
                         /\ conn'[s] = "none" => conn[s] = "none"
  BY DEF IInv, TypeOK, Closing
<1>2. SocketsSound'
  BY <1>1 DEF IInv, SocketsSound, TokSound, RegisteredSound, OpenIsRegistered, Identified
<1>3. MemberSound'
  BY <1>1 DEF IInv, SocketsSound, OpenIsRegistered, Identified, MemberSound, Owner
<1>4. SessionSound'
  BY <1>1 DEF IInv, SocketsSound, OpenIsRegistered, Identified, SessionSound, Owner
<1> QED BY <1>2, <1>3, <1>4 DEF IInv

\* A sign-out or a revoked device.
LEMMA DisconnectSessionKeeps ==
  ASSUME IInv, NEW t \in Sessions, DisconnectSession(t)
  PROVE  IInv'
<1>1. TypeOK'
  BY DEF IInv, TypeOK, DisconnectSession, Closing, database, Removals
<1>2. SocketsOfSession(t) \in SUBSET Sockets
  BY DEF IInv, TypeOK, SocketsOfSession
<1>3. \A s \in registered \ SocketsOfSession(t) : tok[s] \in Accounted => tok[s] \in Accounted'
  BY DEF Accounted, DisconnectSession, SocketsOfSession, database
<1>4. member' = member /\ BeingRemoved' = BeingRemoved
  BY DEF DisconnectSession, BeingRemoved, Removals, database
<1>5. conn' = Closing(SocketsOfSession(t)) /\ UNCHANGED <<pc, tok, registered, signin, refused>>
  BY DEF DisconnectSession, database
<1>6. \A s \in registered \ SocketsOfSession(t) :
        tok[s] \in Accounted \/ Owner(s) \in BeingRemoved => tok[s] \in Accounted' \/ Owner(s) \in BeingRemoved'
  BY <1>3, <1>4
<1>7. \A s \in registered \ SocketsOfSession(t) :
        Owner(s) \in member \cup BeingRemoved => Owner(s) \in (member \cup BeingRemoved)'
  BY <1>4
<1> QED BY <1>1, <1>2, <1>5, <1>6, <1>7, ClosingKeeps

\* A kick, a ban or a deleted account.
LEMMA DisconnectUserKeeps ==
  ASSUME IInv, NEW u \in Users, NEW cause \in Causes, DisconnectUser(u, cause)
  PROVE  IInv'
<1>1. TypeOK'
  BY DEF IInv, TypeOK, Causes, DisconnectUser, Closing, database
<1>2. SocketsOfUser(u) \in SUBSET Sockets
  BY DEF IInv, TypeOK, SocketsOfUser
<1>3. \A s \in registered \ SocketsOfUser(u) : Owner(s) \in BeingRemoved => Owner(s) \in BeingRemoved'
  BY DEF IInv, TypeOK, BeingRemoved, Owner, DisconnectUser, SocketsOfUser
<1>4. member' = member /\ Accounted' = Accounted
  BY DEF DisconnectUser, Accounted, database
<1>5. conn' = Closing(SocketsOfUser(u)) /\ UNCHANGED <<pc, tok, registered, signin, refused>>
  BY DEF DisconnectUser, database
<1>6. \A s \in registered \ SocketsOfUser(u) :
        tok[s] \in Accounted \/ Owner(s) \in BeingRemoved => tok[s] \in Accounted' \/ Owner(s) \in BeingRemoved'
  BY <1>3, <1>4
<1>7. \A s \in registered \ SocketsOfUser(u) :
        Owner(s) \in member \cup BeingRemoved => Owner(s) \in (member \cup BeingRemoved)'
  BY <1>3, <1>4
<1> QED BY <1>1, <1>2, <1>5, <1>6, <1>7, ClosingKeeps

\* A suspension: it only closes.
LEMMA EnforceSuspensionKeeps ==
  ASSUME IInv, NEW u \in Users, EnforceSuspension(u)
  PROVE  IInv'
<1>1. TypeOK'
  BY DEF IInv, TypeOK, EnforceSuspension, Closing, database, Removals
<1>2. SocketsOfUser(u) \in SUBSET Sockets
  BY DEF IInv, TypeOK, SocketsOfUser
<1>3. member' = member /\ BeingRemoved' = BeingRemoved /\ Accounted' = Accounted
  BY DEF EnforceSuspension, BeingRemoved, Accounted, database, Removals
<1>4. conn' = Closing(SocketsOfUser(u)) /\ UNCHANGED <<pc, tok, registered, signin, refused>>
  BY DEF EnforceSuspension, database
<1>5. \A s \in registered \ SocketsOfUser(u) :
        /\ Owner(s) \in member \cup BeingRemoved => Owner(s) \in (member \cup BeingRemoved)'
        /\ tok[s] \in Accounted \/ Owner(s) \in BeingRemoved => tok[s] \in Accounted' \/ Owner(s) \in BeingRemoved'
  BY <1>3
<1> QED BY <1>1, <1>2, <1>4, <1>5, ClosingKeeps

-------------------------------------------------------------------------------
\* A stuttering step changes nothing the invariant speaks of.
LEMMA StutterKeeps ==
  ASSUME IInv, UNCHANGED vars
  PROVE  IInv'
BY DEF IInv, TypeOK, SocketsSound, TokSound, RegisteredSound, OpenIsRegistered, MemberSound, SessionSound,
   Accounted, BeingRemoved, Owner, vars, sockets, database, requests

\* The invariant is inductive.
LEMMA StepKeeps == IInv /\ [Next]_vars => IInv'
<1> SUFFICES ASSUME IInv, Next PROVE IInv'
  BY StutterKeeps
<1>1. CASE \E s \in Sockets : Connect(s) \/ CloseEvent(s) \/ GiveUp(s) \/ OldHello(s)
  BY <1>1, ConnectKeeps, CloseEventKeeps, GiveUpKeeps, OldHelloKeeps
<1>2. CASE \E s \in Sockets, t \in Sessions : Hello(s, t)
  BY <1>2, HelloKeeps
<1>3. CASE \E s \in Sockets : Handshake(s) \/ ExpiryFires(s) \/ CheckExpiry(s)
  BY <1>3, ReadSessionKeeps, DeleteRefusedKeeps, ReadMemberKeeps, RegisterKeeps, ReadSessionAgainKeeps,
     ReadMemberAgainKeeps, WelcomeKeeps, ExpiryFiresKeeps, CheckExpiryKeeps DEF Handshake
<1>4. CASE Admission
  BY <1>4, AdmissionKeeps DEF Admission
<1>5. CASE Revocation
  BY <1>5, RowsKeeps, RemovalKeeps, DisconnectSessionKeeps, DisconnectUserKeeps, EnforceSuspensionKeeps
     DEF Revocation
<1> QED BY <1>1, <1>2, <1>3, <1>4, <1>5 DEF Next

\* The invariant of every reachable state.
LEMMA SpecIInv == Spec => []IInv
BY InitSound, StepKeeps, PTL DEF Spec

\* The handshake, the hub's maps and the tables keep their types.
THEOREM TypeCorrect == Spec => []TypeOK
<1>1. IInv => TypeOK
  BY DEF IInv
<1> QED BY <1>1, SpecIInv, PTL

\* No kick, ban or deleted account leaves a welcomed socket open behind it, for any interleaving with
\* any number of handshakes (handler.ts, the second look after hub.add).
THEOREM MembersOnly == Spec => []MemberOrCut
<1>1. IInv => MemberOrCut
  BY DEF IInv, MemberSound, MemberOrCut, Connected, Owner
<1> QED BY <1>1, SpecIInv, PTL

-------------------------------------------------------------------------------
(* The watch over open sockets, and what is left of a refused device.      *)

\* From the second lookup on, a session that is refused later has its revocation on the way to its row.
RefusedRowsGo ==
  \A s \in Sockets : conn[s] = "open" /\ pc[s] \in {"actorAgain", "welcome", "live"} =>
    (tok[s] \in refused \cap row => tok[s] \in revoking)

Guarded == OpenIsWatched /\ RefusedRowsGo

\* Steps that let nobody in and stop no timer keep the watch.
LEMMA WatchGoesOn ==
  ASSUME OpenIsWatched, UNCHANGED timer,
         \A s \in Sockets : Connected(s)' => Connected(s)
  PROVE  OpenIsWatched'
  BY DEF OpenIsWatched

\* Steps that refuse no device and forget no revocation leave no row of an open socket behind; a new row
\* is that of a session nobody has said hello with yet.
LEMMA RowsGoOn ==
  ASSUME IInv, RefusedRowsGo, UNCHANGED <<pc, tok, refused, revoking>>,
         \A s \in Sockets : conn'[s] = "open" => conn[s] = "open",
         \A t \in Sessions : t \in row' => t \in row \/ signin[t] # "open"
  PROVE  RefusedRowsGo'
  BY DEF RefusedRowsGo, IInv, SocketsSound, TokSound

\* The socket's own life, and the handshake up to its last step.
LEMMA SocketStepsGuard ==
  ASSUME IInv, Guarded, NEW s \in Sockets,
         \/ Connect(s) \/ GiveUp(s) \/ OldHello(s) \/ ReadSession(s) \/ DeleteRefused(s) \/ ReadMember(s)
         \/ Register(s) \/ ReadSessionAgain(s) \/ ReadMemberAgain(s) \/ \E t \in Sessions : Hello(s, t)
  PROVE  Guarded'
  <1>1. timer' = timer
    BY DEF Connect, GiveUp, OldHello, ReadSession, DeleteRefused, ReadMember, Register, ReadSessionAgain,
       ReadMemberAgain, Hello
  <1>2. \A r \in Sockets : Connected(r)' => Connected(r)
    BY DEF Connected, IInv, TypeOK, SocketsSound, TokSound, Connect, GiveUp, OldHello, ReadSession, DeleteRefused,
       ReadMember, Register, ReadSessionAgain, ReadMemberAgain, Hello, Refuse, Closing
  <1>3. row' \subseteq row /\ UNCHANGED <<refused, revoking>>
    BY DEF Connect, GiveUp, OldHello, ReadSession, DeleteRefused, ReadMember, Register, ReadSessionAgain,
       ReadMemberAgain, Hello, database, requests
  <1>4. CASE ReadSessionAgain(s)
    BY <1>2, <1>3, <1>4, <1>1, WatchGoesOn DEF Guarded, RefusedRowsGo, ReadSessionAgain, Refuse, Closing, IInv, TypeOK, PCs
  <1>5. CASE Connect(s) \/ GiveUp(s) \/ OldHello(s) \/ ReadSession(s) \/ DeleteRefused(s)
    BY <1>2, <1>3, <1>5, <1>1, WatchGoesOn DEF Guarded, RefusedRowsGo, Connect, GiveUp, OldHello, ReadSession,
       DeleteRefused, Refuse, Closing, IInv, TypeOK, PCs, SocketsSound, TokSound
  <1>6. CASE ReadMember(s) \/ Register(s) \/ ReadMemberAgain(s) \/ \E t \in Sessions : Hello(s, t)
    BY <1>2, <1>3, <1>6, <1>1, WatchGoesOn DEF Guarded, RefusedRowsGo, ReadMember, Register, ReadMemberAgain, Hello,
       Refuse, Closing, IInv, TypeOK, PCs, SocketsSound, TokSound
  <1> QED BY <1>4, <1>5, <1>6

\* The welcome arms the timer; its look ends with a closed socket or arms it again; the close event stops it.
LEMMA TimerStepsGuard ==
  ASSUME IInv, Guarded, NEW s \in Sockets, Welcome(s) \/ ExpiryFires(s) \/ CheckExpiry(s) \/ CloseEvent(s)
  PROVE  Guarded'
  <1>1. row' \subseteq row /\ UNCHANGED <<tok, refused, revoking>>
    BY DEF Welcome, ExpiryFires, CheckExpiry, CloseEvent, database, requests
  <1>2. \A r \in Sockets \ {s} : Connected(r)' => Connected(r) /\ timer'[r] = timer[r]
    BY DEF Connected, IInv, TypeOK, Welcome, ExpiryFires, CheckExpiry, CloseEvent, Closing
  <1>3. Connected(s)' => timer'[s] \in {"armed", "checking"}
    BY DEF Guarded, OpenIsWatched, Connected, IInv, TypeOK, Welcome, ExpiryFires, CheckExpiry, CloseEvent, Closing
  <1>4. \A r \in Sockets : conn'[r] = "open" /\ pc'[r] \in {"actorAgain", "welcome", "live"} =>
          conn[r] = "open" /\ pc[r] \in {"actorAgain", "welcome", "live"}
    BY DEF IInv, TypeOK, Welcome, ExpiryFires, CheckExpiry, CloseEvent, Closing
  <1>5. RefusedRowsGo'
    BY <1>1, <1>4 DEF Guarded, RefusedRowsGo
  <1> QED BY <1>2, <1>3, <1>5 DEF Guarded, OpenIsWatched

\* A sign-in brings the row of a new session.
LEMMA AdmissionGuards ==
  ASSUME IInv, Guarded, Admission
  PROVE  Guarded'
  <1>1. UNCHANGED sockets /\ UNCHANGED <<refused, revoking>>
    BY DEF Admission, AskIn, LookForMember, TurnAway, BecomeMember, OpenSession, Unban, BesideSignIn, requests
  <1>2. \A t \in Sessions : t \in row' => t \in row \/ signin[t] # "open"
    BY DEF Admission, AskIn, LookForMember, TurnAway, BecomeMember, OpenSession, Unban
  <1>3. RefusedRowsGo'
    BY <1>1, <1>2, RowsGoOn DEF Guarded, sockets
  <1>4. OpenIsWatched'
    BY <1>1 DEF Guarded, OpenIsWatched, Connected, sockets
  <1> QED BY <1>3, <1>4 DEF Guarded

\* Requests close sockets and delete rows; the one that refuses a device is on its way to the row.
LEMMA RevocationGuards ==
  ASSUME IInv, Guarded, Revocation
  PROVE  Guarded'
  <1>1. timer' = timer /\ pc' = pc /\ tok' = tok
    BY DEF Revocation, Expire, CleanExpired, RefusedRequest, SignOut, RefuseDevice, DisconnectSession, DeleteRevoked,
       Kick, Ban, Expel, DeleteAccount, Suspend, DisconnectUser, WipeSessions, EnforceSuspension, sockets
  <1>2. \A r \in Sockets : conn'[r] = "open" => conn[r] = "open"
    BY DEF Revocation, Expire, CleanExpired, RefusedRequest, SignOut, RefuseDevice, DisconnectSession, DeleteRevoked,
       Kick, Ban, Expel, DeleteAccount, Suspend, DisconnectUser, WipeSessions, EnforceSuspension, sockets, Closing
  <1>3. OpenIsWatched'
    BY <1>1, <1>2, WatchGoesOn DEF Guarded, Connected
  <1>4. \A t : t \in row' => t \in row
    BY DEF Revocation, Expire, CleanExpired, RefusedRequest, SignOut, RefuseDevice, DisconnectSession, DeleteRevoked,
       Kick, Ban, Expel, DeleteAccount, Suspend, DisconnectUser, WipeSessions, EnforceSuspension, database
  <1>5. \A t : t \in refused' \cap row' => t \in refused \cap row \/ t \in revoking'
    BY <1>4 DEF Revocation, Expire, CleanExpired, RefusedRequest, SignOut, RefuseDevice, DisconnectSession,
       DeleteRevoked, Kick, Ban, Expel, DeleteAccount, Suspend, DisconnectUser, WipeSessions, EnforceSuspension, database
  <1>6. \A t : t \in revoking => t \in revoking' \/ t \notin row'
    BY DEF Revocation, Expire, CleanExpired, RefusedRequest, SignOut, RefuseDevice, DisconnectSession, DeleteRevoked,
       Kick, Ban, Expel, DeleteAccount, Suspend, DisconnectUser, WipeSessions, EnforceSuspension, database, requests
  <1>7. RefusedRowsGo'
    BY <1>1, <1>2, <1>5, <1>6 DEF Guarded, RefusedRowsGo
  <1> QED BY <1>3, <1>7 DEF Guarded

\* Both hold in every reachable state.
LEMMA SpecGuarded == Spec => []Guarded
  <1>1. Init => Guarded
    BY DEF Init, Guarded, OpenIsWatched, Connected, RefusedRowsGo
  <1>2. IInv /\ Guarded /\ [Next]_vars => Guarded'
    <2>1. CASE Next
      BY <2>1, SocketStepsGuard, TimerStepsGuard, AdmissionGuards, RevocationGuards DEF Next, Handshake
    <2>2. CASE UNCHANGED vars
      BY <2>2 DEF Guarded, OpenIsWatched, Connected, RefusedRowsGo, vars, sockets, database, requests
    <2> QED BY <2>1, <2>2
  <1> QED BY <1>1, <1>2, SpecIInv, PTL DEF Spec

\* A welcomed socket has its session's row; where it has not, its close is on its way (a sign-out, a
\* removal, the timer of a session that ran out), or it is one of the two cases SessionOrCut names.
THEOREM SessionsOnly == Spec => []SessionOrCut
<1>1. IInv /\ Guarded => SessionOrCut
  <2> SUFFICES ASSUME IInv, Guarded, NEW s \in Sockets, Connected(s), OwnerOf[tok[s]] \notin BeingRemoved,
                      tok[s] \notin row \cup ending \cup refused
               PROVE  \/ tok[s] \in past /\ timer[s] # "off"
                      \/ tok[s] \in wiped /\ OwnerOf[tok[s]] \in member
    BY DEF SessionOrCut
  <2>1. tok[s] \in past \/ tok[s] \in wiped
    BY DEF IInv, SessionSound, Accounted, Connected, Owner
  <2>2. timer[s] # "off"
    BY DEF Guarded, OpenIsWatched
  <2>3. OwnerOf[tok[s]] \in member
    BY DEF IInv, MemberSound, Connected, Owner
  <2> QED BY <2>1, <2>2, <2>3
<1> QED BY <1>1, SpecIInv, SpecGuarded, PTL

\* Whatever closes or fails meanwhile, no socket is in and open without a timer on its session
\* (handler.ts, watchExpiry): what ExpiryCuts rests on, for any number of sockets.
THEOREM SessionsAreWatched == Spec => []OpenIsWatched
  <1>1. Guarded => OpenIsWatched
    BY DEF Guarded
  <1> QED BY <1>1, SpecGuarded, PTL

\* The one way for a refused device to keep its socket is that somebody else deleted the row first.
THEOREM OnlyALostRowIsMissed == Spec => []RefusedWithRowIsCut
  <1>1. Guarded => RefusedWithRowIsCut
    BY DEF Guarded, RefusedRowsGo, RefusedWithRowIsCut, Connected
  <1> QED BY <1>1, SpecGuarded, PTL
===============================================================================
