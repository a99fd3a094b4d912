------------------------------- MODULE ReadMarks -------------------------------
(***************************************************************************)
(* The unread mark of one text channel on one device                       *)
(* (apps/web/src/serverConnection.ts, readState.ts) against the read       *)
(* states the server keeps (apps/server/src/routes/readState.ts).  Between *)
(* its statement and the event that tells of it the server waits for the   *)
(* database, so events come in any order.  The answers to requests come    *)
(* over HTTP, each on its own: an answer may be older than an event that   *)
(* has been handled and newer than one that has not.  Other devices of the *)
(* member read too.                                                        *)
(*                                                                         *)
(* All messages are other people's.  Requests that fail, and with them the *)
(* fallback for servers without read states, are left out.                 *)
(***************************************************************************)
EXTENDS Naturals, FiniteSets, FiniteSetsExt

CONSTANTS
  MaxSeq,  \* bound: messages ever posted
  Syncs,   \* bound: requests for the read states under way at a time
  Loads,   \* bound: requests for the history under way at a time
  MaxAcks, \* bound: acknowledgements under way at a time
  MaxWire  \* bound: events on their way at a time

ASSUME BoundsAreNatural == MaxSeq \in Nat /\ MaxAcks \in Nat /\ MaxWire \in Nat

VARIABLES
  posted,     \* the sequence number of the newest message ever
  msgs,       \* messages there are
  lastRead,   \* read_states.last_read_seq
  connected,  \* the socket is welcomed
  wire,       \* events on their way to this device
  onScreen,   \* currentChannelId is this channel
  cache,      \* the client's history of the channel: loaded, loading, list
  unread,     \* the mark
  liveLatest, read, acked, serverRead,  \* 0 where the code has no number
  ackTimer, recountTimer,
  syncs,      \* GET /api/read-state
  loads,      \* GET messages
  acks,       \* POST read: sent, and the answers
  due         \* history: messages handled live, off screen and after a first answer to syncReadState(),
              \* and no opening, no recount for a deletion and no older message's event since

vars == <<posted, msgs, lastRead, connected, wire, onScreen, cache, unread, liveLatest, read, acked,
          serverRead, ackTimer, recountTimer, syncs, loads, acks, due>>
server == <<posted, msgs, lastRead>>
marks == <<liveLatest, serverRead, recountTimer>>
reading == <<read, acked, ackTimer>>

-------------------------------------------------------------------------------
Seqs == 1..MaxSeq
Latest(ms) == Max(ms \cup {0})
Larger(a, b) == IF a > b THEN a ELSE b

Event == [type : {"create", "delete", "read"}, seq : 0..MaxSeq]
Nothing == [st |-> "idle"]
Sent == [st |-> "sent"]
Answer == [st : {"answered"}, latest : 0..MaxSeq, last : 0..MaxSeq, unread : BOOLEAN]
Page == [st : {"answered"}, page : SUBSET Seqs]
Empty == [loaded |-> FALSE, loading |-> FALSE, list |-> {}]

\* What the client takes the server to know is never more than it knows.
TypeOK ==
  /\ posted \in 0..MaxSeq /\ msgs \subseteq 1..posted /\ lastRead \in 0..posted
  /\ connected \in BOOLEAN /\ onScreen \in BOOLEAN /\ unread \in BOOLEAN
  /\ wire \subseteq Event
  /\ cache \in [loaded : BOOLEAN, loading : BOOLEAN, list : SUBSET Seqs]
  /\ liveLatest \in 0..posted /\ read \in 0..posted /\ acked \in 0..lastRead
  /\ serverRead \in BOOLEAN /\ ackTimer \in BOOLEAN /\ recountTimer \in BOOLEAN
  /\ syncs \in [Syncs -> {Nothing, Sent} \cup Answer] /\ loads \in [Loads -> {Nothing, Sent} \cup Page]
  /\ acks \subseteq [st : {"sent", "answered"}, seq : 0..MaxSeq]
  /\ due \subseteq msgs

Free(requests) == {r \in DOMAIN requests : requests[r] = Nothing}
\* Whether a socket is there to take the event shows when it is broadcast.
Tells(e) == Cardinality(wire) < MaxWire /\ wire' = wire \cup {e}

\* rememberRead() and acknowledge(): what is shown is read; known is what the server is taken to know, if it keeps
\* read states.
Remembers(shown, known, keeps) ==
  /\ read' = Larger(read, Latest(shown))
  /\ ackTimer' = (ackTimer \/ (keeps /\ read' > known))

Asks(requests) == [requests EXCEPT ![CHOOSE r \in Free(requests) : TRUE] = Sent]

Init ==
  /\ posted = 0 /\ msgs = {} /\ lastRead = 0
  /\ connected = FALSE /\ wire = {} /\ onScreen \in BOOLEAN /\ cache = Empty /\ unread = FALSE
  /\ liveLatest = 0 /\ read = 0 /\ acked = 0 /\ serverRead = FALSE
  /\ ackTimer = FALSE /\ recountTimer = FALSE
  /\ syncs = [r \in Syncs |-> Nothing] /\ loads = [r \in Loads |-> Nothing] /\ acks = {}
  /\ due = {}

-------------------------------------------------------------------------------
(* The server, and the member's other devices.                             *)

Post ==
  /\ posted < MaxSeq /\ posted' = posted + 1 /\ msgs' = msgs \cup {posted'}
  /\ Tells([type |-> "create", seq |-> posted'])
  /\ UNCHANGED <<lastRead, connected, onScreen, cache, unread, marks, reading, syncs, loads, acks, due>>

Delete(m) ==
  /\ m \in msgs /\ msgs' = msgs \ {m} /\ due' = due \ {m}
  /\ Tells([type |-> "delete", seq |-> m])
  /\ UNCHANGED <<posted, lastRead, connected, onScreen, cache, unread, marks, reading, syncs, loads, acks>>

\* POST read of any device: never backwards and never beyond the newest message there is; the other channels, whose
\* messages have numbers of the same row, may have a newer one than this.
Marked(s) == \E cap \in Latest(msgs)..posted : lastRead' = Larger(lastRead, IF s > cap THEN cap ELSE s)

\* Bound: only what moves it.
ReadElsewhere(s) ==
  /\ s <= posted /\ Marked(s) /\ lastRead' > lastRead
  /\ Tells([type |-> "read", seq |-> lastRead'])
  /\ UNCHANGED <<posted, msgs, connected, onScreen, cache, unread, marks, reading, syncs, loads, acks, due>>

ServeAck(a) ==
  /\ a \in acks /\ a.st = "sent" /\ Marked(a.seq)
  /\ acks' = (acks \ {a}) \cup {[st |-> "answered", seq |-> lastRead']}
  /\ Tells([type |-> "read", seq |-> lastRead'])
  /\ UNCHANGED <<posted, msgs, connected, onScreen, cache, unread, marks, reading, syncs, loads, due>>

\* The query of GET /api/read-state.
ServeSync(r) ==
  /\ syncs[r] = Sent
  /\ syncs' = [syncs EXCEPT ![r] = [st |-> "answered", latest |-> Latest(msgs), last |-> lastRead,
                                    unread |-> Latest(msgs) > lastRead]]
  /\ UNCHANGED <<server, connected, wire, onScreen, cache, unread, marks, reading, loads, acks, due>>

ServeLoad(r) ==
  /\ loads[r] = Sent
  /\ loads' = [loads EXCEPT ![r] = [st |-> "answered", page |-> msgs]]
  /\ UNCHANGED <<server, connected, wire, onScreen, cache, unread, marks, reading, syncs, acks, due>>

-------------------------------------------------------------------------------
(* The client: events.                                                     *)

Handles(type, e) == connected /\ e \in wire /\ e.type = type /\ wire' = wire \ {e}

HandleCreate(e) ==
  /\ Handles("create", e)
  /\ cache' = IF cache.loaded THEN [cache EXCEPT !.list = @ \cup {e.seq}] ELSE cache
  /\ IF onScreen THEN Remembers({e.seq}, acked, serverRead) /\ UNCHANGED <<unread, liveLatest, due>>
     ELSE /\ unread' = TRUE /\ liveLatest' = e.seq
          /\ due' = {d \in due \cup ({e.seq} \cap msgs) : serverRead /\ d <= e.seq}
          /\ UNCHANGED <<read, ackTimer>>
  /\ UNCHANGED <<server, connected, onScreen, acked, serverRead, recountTimer, syncs, loads, acks>>

\* With recountMarks(); without a number of its own to go by, catchUp() finds nothing unread.
HandleDelete(e) ==
  /\ Handles("delete", e)
  /\ LET list == cache.list \ {e.seq}
     IN  /\ cache' = [cache EXCEPT !.list = list]
         /\ IF onScreen \/ ~unread THEN UNCHANGED <<unread, liveLatest, recountTimer, due>>
            ELSE IF serverRead THEN liveLatest' = 0 /\ recountTimer' = TRUE /\ due' = {} /\ UNCHANGED unread
            ELSE /\ unread' = IF cache.loaded THEN read > 0 /\ Latest(list) > read ELSE unread
                 /\ UNCHANGED <<liveLatest, recountTimer, due>>
  /\ UNCHANGED <<server, connected, onScreen, reading, serverRead, syncs, loads, acks>>

\* One of the member's devices has read the channel, this one included.  The last message of the list need not be the
\* newest: live messages are appended as they come.
HandleRead(e) ==
  /\ Handles("read", e)
  /\ acked' = Larger(acked, e.seq) /\ read' = Larger(read, e.seq)
  /\ \E last \in IF cache.list = {} THEN {0} ELSE cache.list :
       IF onScreen THEN UNCHANGED <<unread, syncs>>
       ELSE IF Larger(liveLatest, last) <= e.seq THEN unread' = FALSE /\ UNCHANGED syncs
       ELSE Free(syncs) # {} /\ syncs' = Asks(syncs) /\ UNCHANGED unread
  /\ UNCHANGED <<server, connected, onScreen, cache, marks, ackTimer, loads, acks, due>>

\* Broadcast while the device is away.
Miss(e) ==
  /\ ~connected /\ e \in wire /\ wire' = wire \ {e}
  /\ UNCHANGED <<server, connected, onScreen, cache, unread, marks, reading, syncs, loads, acks, due>>

\* What was already in the socket is lost.
Disconnect ==
  /\ connected /\ connected' = FALSE /\ wire' \in SUBSET wire
  /\ UNCHANGED <<server, onScreen, cache, unread, marks, reading, syncs, loads, acks, due>>

\* Every history is forgotten, the one on screen is loaded again.
Welcome ==
  /\ ~connected /\ connected' = TRUE
  /\ Free(syncs) # {} /\ syncs' = Asks(syncs)
  /\ IF onScreen THEN /\ Free(loads) # {} /\ loads' = Asks(loads)
                      /\ cache' = [Empty EXCEPT !.loading = TRUE]
     ELSE cache' = Empty /\ UNCHANGED loads
  /\ UNCHANGED <<server, wire, onScreen, unread, marks, reading, acks, due>>

-------------------------------------------------------------------------------
(* The client: the user, the timers, the answers.                          *)

\* selectChannel() of this channel.
Open ==
  /\ ~onScreen /\ onScreen' = TRUE /\ unread' = FALSE /\ due' = {}
  /\ UNCHANGED <<acked, serverRead>> /\ Remembers(cache.list, acked, serverRead)
  /\ IF cache.loaded \/ cache.loading THEN UNCHANGED <<cache, loads>>
     ELSE Free(loads) # {} /\ loads' = Asks(loads) /\ cache' = [cache EXCEPT !.loading = TRUE]
  /\ UNCHANGED <<server, connected, wire, liveLatest, recountTimer, syncs, acks>>

\* Another channel is opened.
OpenOther ==
  /\ onScreen /\ onScreen' = FALSE
  /\ UNCHANGED <<server, connected, wire, cache, unread, marks, reading, syncs, loads, acks, due>>

\* syncReadState(): the tab comes back, channels appear or the block list changes, all with a welcomed socket; or the
\* recount is due, with a socket or without.
Sync ==
  /\ Free(syncs) # {} /\ syncs' = Asks(syncs)
  /\ \/ connected /\ UNCHANGED recountTimer
     \/ recountTimer /\ recountTimer' = FALSE
  /\ UNCHANGED <<server, connected, wire, onScreen, cache, unread, liveLatest, serverRead, reading, loads, acks, due>>

\* Mutant: every answer is taken, however old.
TakeAnySync(r) ==
  /\ syncs[r].st = "answered" /\ syncs' = [syncs EXCEPT ![r] = Nothing]
  /\ serverRead' = TRUE /\ acked' = Larger(acked, syncs[r].last)
  /\ unread' = IF onScreen THEN unread ELSE syncs[r].unread
  /\ IF onScreen THEN Remembers(cache.list, acked', TRUE) ELSE UNCHANGED <<read, ackTimer>>
  /\ UNCHANGED <<server, connected, wire, onScreen, cache, liveLatest, recountTimer, loads, acks, due>>

\* The answer: not for a channel on screen, and not when a live message is newer.
TakeSync(r) ==
  /\ syncs[r].st = "answered" /\ syncs' = [syncs EXCEPT ![r] = Nothing]
  /\ serverRead' = TRUE /\ acked' = Larger(acked, syncs[r].last)
  /\ unread' = IF onScreen \/ liveLatest > syncs[r].latest THEN unread ELSE syncs[r].unread
  /\ IF onScreen THEN Remembers(cache.list, acked', TRUE) ELSE UNCHANGED <<read, ackTimer>>
  /\ UNCHANGED <<server, connected, wire, onScreen, cache, liveLatest, recountTimer, loads, acks, due>>

\* loadHistory() resumes: what came in live meanwhile stays.
TakeLoad(r) ==
  /\ loads[r].st = "answered" /\ loads' = [loads EXCEPT ![r] = Nothing]
  /\ LET list == cache.list \cup loads[r].page
     IN  /\ cache' = [loaded |-> TRUE, loading |-> FALSE, list |-> list]
         /\ UNCHANGED <<acked, serverRead>>
         /\ IF onScreen THEN Remembers(list, acked, serverRead) ELSE UNCHANGED <<read, ackTimer>>
  /\ UNCHANGED <<server, connected, wire, onScreen, unread, liveLatest, recountTimer, syncs, acks, due>>

\* Mutant: what is sent counts as arrived.
SendAckSure ==
  /\ Cardinality(acks) < MaxAcks /\ ackTimer /\ ackTimer' = FALSE
  /\ acks' = IF serverRead /\ read > 0 THEN acks \cup {[st |-> "sent", seq |-> read]} ELSE acks
  /\ acked' = IF serverRead THEN Larger(acked, read) ELSE acked
  /\ UNCHANGED <<server, connected, wire, onScreen, cache, unread, marks, read, syncs, loads, due>>

SendAck ==
  /\ Cardinality(acks) < MaxAcks /\ ackTimer /\ ackTimer' = FALSE
  /\ acks' = IF serverRead /\ read > 0 THEN acks \cup {[st |-> "sent", seq |-> read]} ELSE acks
  /\ UNCHANGED <<server, connected, wire, onScreen, cache, unread, marks, read, acked, syncs, loads, due>>

TakeAck(a) ==
  /\ a \in acks /\ a.st = "answered" /\ acks' = acks \ {a}
  /\ acked' = Larger(acked, a.seq)
  /\ UNCHANGED <<server, connected, wire, onScreen, cache, unread, marks, read, ackTimer, syncs, loads, due>>

\* The page is loaded anew: the storage remembers what was read.
Reload ==
  /\ connected' = FALSE /\ wire' \in SUBSET wire /\ onScreen' \in BOOLEAN /\ cache' = Empty /\ unread' = FALSE
  /\ liveLatest' = 0 /\ acked' = 0 /\ serverRead' = FALSE /\ ackTimer' = FALSE /\ recountTimer' = FALSE
  /\ syncs' = [r \in Syncs |-> Nothing] /\ loads' = [r \in Loads |-> Nothing] /\ acks' = {} /\ due' = {}
  /\ UNCHANGED <<server, read>>

Next ==
  \/ Post \/ Disconnect \/ Welcome
  \/ Open \/ OpenOther \/ Sync \/ SendAck \/ Reload
  \/ \E m \in Seqs : Delete(m) \/ ReadElsewhere(m)
  \/ \E e \in wire : HandleCreate(e) \/ HandleDelete(e) \/ HandleRead(e) \/ Miss(e)
  \/ \E a \in acks : ServeAck(a) \/ TakeAck(a)
  \/ \E r \in Syncs : ServeSync(r) \/ TakeSync(r)
  \/ \E r \in Loads : ServeLoad(r) \/ TakeLoad(r)

Spec == Init /\ [][Next]_vars

-------------------------------------------------------------------------------
(* Properties.                                                             *)

\* A message that came in while the channel was off screen stays marked until the channel is opened, a deletion has
\* the channel counted again, or one of the member's devices has read the message: no older answer and no partial
\* reading on another device wipes the mark out.  Only the event of an older message, coming later, takes the
\* assurance away: liveLatest is the last message's number then, not the greatest.
KeptUntilRead == ~onScreen /\ (\E m \in due : m > lastRead) => unread
===============================================================================
