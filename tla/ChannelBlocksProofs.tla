--------------------------- MODULE ChannelBlocksProofs ---------------------------
(***************************************************************************)
(* The channel blocks for all sets of channels, members, blocks and        *)
(* requests.  What a change answered holds because, on a key without       *)
(* clashes, a set is alone, a removal has forgotten the entry or will find *)
(* its row gone, and the row of an entry that ran out has run out with it  *)
(* (KeyOK).  From the same facts the map and the table implement BlockBook *)
(* step by step.  A way into a channel is either closed by a block, or its *)
(* excuse is on record for as long as it lasts (ExcusedStill).             *)
(***************************************************************************)
EXTENDS ChannelBlocks, TLAPS

Kinds == {"set", "lift", "clear", "drop"}

\* What holds of a key on which no changes have clashed.
KeyOK(k) ==
  /\ told[k] # Unsure => Busy(k) = {} /\ Live(entries[k]) = Live(told[k]) /\ Live(rows[k]) = Live(told[k])
  /\ \A r \in Busy(k) :
       /\ request[r].kind = "set" =>
            Busy(k) = {r} /\ k \notin sweeping /\ (request[r].st = "done" => rows[k] = request[r].block)
       /\ request[r].kind # "set" => (request[r].st = "done" => rows[k] = None)
       /\ request[r].kind \in {"lift", "clear"} => entries[k] = None
  /\ k \in sweeping => entries[k] = None /\ rows[k] \in ended \cup {None}
  /\ \/ entries[k] = None \/ rows[k] = entries[k]
     \/ \E r \in Busy(k) : request[r].st = "done" /\ request[r].kind \in {"set", "drop"}

\* A request that removes has no block of its own; one that sets is about one key.
RequestsSound ==
  \A r \in Requests :
    /\ request[r].kind # "set" => request[r].block = None
    /\ request[r].kind = "set" => \E k \in Keys : request[r].keys = {k}

IInv == TypeOK /\ RequestsSound /\ BlockedIsOut /\ \A k \in Keys \ clashed : KeyOK(k)

\* The steps that change who sits where and nothing of the blocks.
SeatStep(u) ==
  \/ Seated(u) \/ JoinRefused(u) \/ GrantEnds(u)
  \/ \E b \in Votes : VoteRemoves(b, u)
  \/ \E c \in Channels : Move(u, c) \/ Restore(u, c) \/ LeaveSeat(u, c)

-------------------------------------------------------------------------------
(* Values and requests.                                                    *)

LEMMA SeatStepIsVoice ==
  ASSUME NEW u \in Users, SeatStep(u)
  PROVE  UNCHANGED <<entries, rows, ended, made, request, sweeping, clashed, told>>
  BY DEF SeatStep, Seated, JoinRefused, GrantEnds, VoteRemoves, Move, Restore, LeaveSeat

LEMMA LiveOfValue ==
  ASSUME TypeOK, NEW v \in Values
  PROVE  Live(v) \in Values /\ Live(Live(v)) = Live(v) /\ (v = None => Live(v) = None)
  BY NoneIsNothing DEF TypeOK, Live, Values

\* One request changes.
LEMMA BusyAfter ==
  ASSUME TypeOK, NEW r \in Requests, NEW q, request' = [request EXCEPT ![r] = q], NEW k \in Keys
  PROVE  /\ Busy(k)' = IF k \in q.keys THEN Busy(k) \cup {r} ELSE Busy(k) \ {r}
         /\ request'[r] = q /\ \A p \in Requests \ {r} : request'[p] = request[p]
         /\ r \in Busy(k) <=> k \in request[r].keys
  BY DEF TypeOK, Busy

LEMMA RequestIsTyped ==
  ASSUME TypeOK, NEW r \in Requests
  PROVE  /\ request[r] \in RequestType /\ request[r].keys \subseteq Keys /\ request[r].block \in Values
         /\ request[r].st \in {"sent", "failed"} => request[r] # Idle
         /\ request[r] # Idle => request[r].kind \in Kinds
         /\ request[r].kind \in Kinds => request[r] # Idle
  BY DEF TypeOK, RequestType, Idle, Values, Kinds

LEMMA BusyIsNotIdle ==
  ASSUME TypeOK, NEW k \in Keys, NEW r \in Busy(k)
  PROVE  r \in Requests /\ request[r] # Idle /\ request[r].kind \in Kinds /\ request[r].block \in Values
  BY RequestIsTyped DEF Busy, Idle

-------------------------------------------------------------------------------
(* Keys a step does not touch.                                             *)

LEMMA UntouchedKey ==
  ASSUME TypeOK, NEW k \in Keys, KeyOK(k), entries'[k] = entries[k], rows'[k] = rows[k], told'[k] = told[k],
         Busy(k)' = Busy(k), \A r \in Busy(k) : request'[r] = request[r], k \in sweeping' => k \in sweeping,
         ended' = ended
  PROVE  KeyOK(k)'
  BY DEF KeyOK, Live

LEMMA AsksKey ==
  ASSUME TypeOK, NEW r \in Requests, NEW kind, NEW ks, NEW b, Asks(r, kind, ks, b), NEW k \in Keys
  PROVE  /\ r \notin Busy(k) /\ Busy(k)' = IF k \in ks THEN Busy(k) \cup {r} ELSE Busy(k)
         /\ request'[r] = [kind |-> kind, keys |-> ks, block |-> b, st |-> "sent"]
         /\ \A p \in Requests \ {r} : request'[p] = request[p]
         /\ told'[k] = IF k \in ks THEN Unsure ELSE told[k]
  <1> DEFINE q == [kind |-> kind, keys |-> ks, block |-> b, st |-> "sent"]
  <1>1. request' = [request EXCEPT ![r] = q] /\ q.keys = ks /\ request[r].keys = {}
    BY DEF Asks, Idle
  <1>2. told'[k] = IF k \in ks THEN Unsure ELSE told[k]
    BY DEF Asks
  <1> HIDE DEF q
  <1>3. /\ Busy(k)' = IF k \in ks THEN Busy(k) \cup {r} ELSE Busy(k) \ {r}
        /\ request'[r] = q /\ \A p \in Requests \ {r} : request'[p] = request[p]
        /\ r \notin Busy(k)
    BY <1>1, BusyAfter
  <1> QED BY <1>2, <1>3 DEF q

-------------------------------------------------------------------------------
(* The changes, key by key.                                                *)

LEMMA SetKey ==
  ASSUME IInv, NEW r \in Requests, NEW k0 \in Keys, NEW b \in Blocks, Set(r, k0, b), NEW k \in Keys \ clashed'
  PROVE  KeyOK(k)'
  <1>1. /\ TypeOK /\ KeyOK(k) /\ Asks(r, "set", {k0}, b)
        /\ UNCHANGED <<entries, rows, ended, sweeping>> /\ k \notin Clashes({k0}, "set")
    BY DEF Set, IInv
  <1>a. /\ r \notin Busy(k) /\ Busy(k)' = IF k \in {k0} THEN Busy(k) \cup {r} ELSE Busy(k)
        /\ request'[r] = [kind |-> "set", keys |-> {k0}, block |-> b, st |-> "sent"]
        /\ \A p \in Requests \ {r} : request'[p] = request[p]
        /\ told'[k] = IF k \in {k0} THEN Unsure ELSE told[k]
    BY <1>1, AsksKey
  <1>2. CASE k = k0
    <2>1. Busy(k) = {} /\ k \notin sweeping
      BY <1>1, <1>2 DEF Clashes
    <2>2. Busy(k)' = {r} /\ told'[k] = Unsure /\ request'[r].kind = "set" /\ request'[r].st = "sent"
      BY <1>2, <2>1, <1>a
    <2> QED BY <1>1, <2>1, <2>2 DEF KeyOK
  <1>3. CASE k # k0
    <2>2. Busy(k)' = Busy(k) /\ told'[k] = told[k] /\ \A p \in Busy(k) : request'[p] = request[p]
      BY <1>3, <1>a DEF Busy
    <2> QED BY <1>1, <2>2, UntouchedKey
  <1> QED BY <1>2, <1>3

\* The row of an entry that ran out has run out too, or is gone, if no set is under way.
LEMMA ExpiredKey ==
  ASSUME TypeOK, NEW k \in Keys, KeyOK(k), Setting(k) = {}, Expired(k)
  PROVE  rows[k] \in ended \cup {None}
  <1>1. entries[k] \in ended /\ entries[k] # None
    BY NoneIsNothing DEF Expired, TypeOK
  <1> QED BY <1>1 DEF KeyOK, Setting

LEMMA RemovalKey ==
  ASSUME IInv, NEW r \in Requests, NEW kind \in {"lift", "clear", "drop"}, NEW ks, NEW k \in Keys, k \notin clashed,
         Asks(r, kind, ks, None), k \notin Clashes(ks, kind), UNCHANGED <<rows, ended>>,
         entries'[k] = IF kind # "drop" /\ k \in ks THEN None ELSE entries[k],
         k \in sweeping' => k \in sweeping \/ (kind = "lift" /\ k \in ks /\ Expired(k))
  PROVE  KeyOK(k)'
  <1>1. TypeOK /\ KeyOK(k)
    BY DEF IInv
  <1>a. /\ r \notin Busy(k) /\ Busy(k)' = IF k \in ks THEN Busy(k) \cup {r} ELSE Busy(k)
        /\ request'[r] = [kind |-> kind, keys |-> ks, block |-> None, st |-> "sent"]
        /\ \A p \in Requests \ {r} : request'[p] = request[p]
        /\ told'[k] = IF k \in ks THEN Unsure ELSE told[k]
    BY <1>1, AsksKey
  <1>2. CASE k \in ks
    <2>1. Setting(k) = {}
      BY <1>2 DEF Clashes
    <2>2. Busy(k)' = Busy(k) \cup {r} /\ told'[k] = Unsure /\ request'[r].kind = kind /\ request'[r].st = "sent" /\ r \notin Busy(k)
      BY <1>2, <1>a
    <2>3. \A p \in Busy(k) : p \in Requests /\ request'[p] = request[p] /\ request[p].kind # "set"
      BY <1>a, <2>1 DEF Busy, Setting
    <2>4. k \in sweeping' => entries'[k] = None /\ rows'[k] \in ended' \cup {None}
      BY <1>1, <1>2, <2>1, ExpiredKey DEF KeyOK
    <2>5. \A p \in Busy(k)' :
            /\ request'[p].kind # "set"
            /\ request'[p].st = "done" => rows'[k] = None
            /\ request'[p].kind \in {"lift", "clear"} => entries'[k] = None
      <3> SUFFICES ASSUME NEW p \in Busy(k)' PROVE
            /\ request'[p].kind # "set"
            /\ request'[p].st = "done" => rows'[k] = None
            /\ request'[p].kind \in {"lift", "clear"} => entries'[k] = None
        OBVIOUS
      <3>1. CASE p = r
        BY <1>2, <2>2, <3>1
      <3>2. CASE p # r
        BY <1>1, <2>2, <2>3, <3>2 DEF KeyOK
      <3> QED BY <3>1, <3>2
    <2>6. \/ entries'[k] = None \/ rows'[k] = entries'[k]
          \/ \E p \in Busy(k)' : request'[p].st = "done" /\ request'[p].kind \in {"set", "drop"}
      BY <1>1, <1>2, <2>2, <2>3 DEF KeyOK
    <2> QED BY <2>2, <2>4, <2>5, <2>6 DEF KeyOK
  <1>3. CASE k \notin ks
    <2>1. Busy(k)' = Busy(k) /\ told'[k] = told[k] /\ \A p \in Busy(k) : request'[p] = request[p]
      BY <1>3, <1>a DEF Busy
    <2>2. entries'[k] = entries[k] /\ (k \in sweeping' => k \in sweeping)
      BY <1>3
    <2> QED BY <1>1, <2>1, <2>2, UntouchedKey
  <1> QED BY <1>2, <1>3

LEMMA RemovalKeys ==
  ASSUME IInv, NEW r \in Requests, NEW k \in Keys \ clashed',
         (\E k0 \in Keys : Lift(r, k0)) \/ (\E u \in Users : Clear(r, u)) \/ (\E c \in Channels : Drop(r, c))
  PROVE  KeyOK(k)'
  <1>1. ASSUME NEW k0 \in Keys, Lift(r, k0) PROVE KeyOK(k)'
    <2>1. /\ Asks(r, "lift", {k0}, None) /\ k \notin clashed /\ k \notin Clashes({k0}, "lift") /\ UNCHANGED <<rows, ended>>
          /\ entries' = Forgotten({k0}) /\ sweeping' = Swept({k0})
      BY <1>1 DEF Lift
    <2>2. /\ entries'[k] = IF "lift" # "drop" /\ k \in {k0} THEN None ELSE entries[k]
          /\ k \in sweeping' => k \in sweeping \/ (k \in {k0} /\ Expired(k))
      BY <2>1 DEF Forgotten, Swept
    <2> QED BY <2>1, <2>2, RemovalKey
  <1>2. ASSUME NEW u \in Users, Clear(r, u) PROVE KeyOK(k)'
    <2> DEFINE ks == {x \in Keys : x[2] = u}
    <2>1. /\ Asks(r, "clear", ks, None) /\ k \notin clashed /\ k \notin Clashes(ks, "clear") /\ UNCHANGED <<rows, ended, sweeping>>
          /\ entries' = Forgotten(ks)
      BY <1>2 DEF Clear
    <2>2. entries'[k] = IF "clear" # "drop" /\ k \in ks THEN None ELSE entries[k]
      BY <2>1 DEF Forgotten
    <2> HIDE DEF ks
    <2> QED BY <2>1, <2>2, RemovalKey
  <1>3. ASSUME NEW c \in Channels, Drop(r, c) PROVE KeyOK(k)'
    <2> DEFINE ks == {x \in Keys : x[1] = c}
    <2>1. /\ Asks(r, "drop", ks, None) /\ k \notin clashed /\ k \notin Clashes(ks, "drop")
          /\ UNCHANGED <<entries, rows, ended, sweeping>>
      BY <1>3 DEF Drop
    <2> HIDE DEF ks
    <2> QED BY <2>1, RemovalKey
  <1> QED BY <1>1, <1>2, <1>3

\* A request stays on its keys and only its state changes.
LEMMA StateChanges ==
  ASSUME TypeOK, NEW r \in Requests, NEW st, request[r] # Idle, request' = [request EXCEPT ![r].st = st], NEW k \in Keys
  PROVE  /\ Busy(k)' = Busy(k) /\ request'[r].kind = request[r].kind /\ request'[r].block = request[r].block
         /\ request'[r].keys = request[r].keys /\ request'[r].st = st /\ \A p \in Requests \ {r} : request'[p] = request[p]
  <1>1. request[r] \in RequestType
    BY RequestIsTyped
  <1>2. /\ request'[r].kind = request[r].kind /\ request'[r].block = request[r].block
        /\ request'[r].keys = request[r].keys /\ request'[r].st = st
    BY <1>1 DEF TypeOK, RequestType, Idle
  <1>3. \A p \in Requests \ {r} : request'[p] = request[p]
    BY DEF TypeOK
  <1> QED BY <1>2, <1>3 DEF Busy

LEMMA RunKey ==
  ASSUME IInv, NEW r \in Requests, Run(r) \/ Fail(r), NEW k \in Keys \ clashed'
  PROVE  KeyOK(k)'
  <1>1. /\ TypeOK /\ KeyOK(k) /\ request[r].st = "sent" /\ request[r] # Idle /\ request[r].kind \in Kinds
        /\ UNCHANGED <<entries, ended, sweeping, told>>
        /\ \E st \in {"done", "failed"} : request' = [request EXCEPT ![r].st = st]
    BY DEF Run, Fail, IInv, Idle, TypeOK, RequestType, Kinds
  <1>2. /\ Busy(k)' = Busy(k) /\ request'[r].kind = request[r].kind /\ request'[r].block = request[r].block
        /\ \A p \in Requests \ {r} : request'[p] = request[p]
    BY <1>1, StateChanges
  <1>3. CASE r \notin Busy(k)
    <2>1. rows'[k] = rows[k]
      BY <1>3 DEF Run, Fail, Busy, Removed, IInv, TypeOK
    <2> QED BY <1>1, <1>2, <1>3, <2>1, UntouchedKey DEF Busy
  <1>4. CASE r \in Busy(k) /\ Fail(r)
    <2>1. request'[r].st = "failed" /\ rows' = rows
      BY <1>1, <1>4, StateChanges DEF Fail
    <2> QED BY <1>1, <1>2, <1>4, <2>1 DEF KeyOK, Live, Busy
  <1>5. CASE r \in Busy(k) /\ Run(r)
    <2>1. request'[r].st = "done" /\ told'[k] = Unsure
      BY <1>1, <1>5, StateChanges DEF Run, KeyOK
    <2>2. CASE request[r].kind = "set"
      <3>1. rows'[k] = request[r].block /\ Busy(k) = {r} /\ k \notin sweeping
        BY <1>1, <1>5, <2>2 DEF Run, KeyOK, Busy
      <3> QED BY <1>1, <1>2, <2>1, <2>2, <3>1 DEF KeyOK
    <2>3. CASE request[r].kind # "set"
      <3>1. rows'[k] = None /\ \A p \in Busy(k) : request[p].kind # "set"
        BY <1>1, <1>5, <2>3 DEF Run, KeyOK, Busy, Removed
      <3>2. \A p \in Busy(k) : request'[p].kind = request[p].kind /\ p \in Requests
        BY <1>2 DEF Busy
      <3>3. \/ entries'[k] = None \/ rows'[k] = entries'[k]
            \/ \E p \in Busy(k)' : request'[p].st = "done" /\ request'[p].kind \in {"set", "drop"}
        BY <1>1, <1>2, <1>5, <2>1, <2>3, <3>1, <3>2 DEF KeyOK, Kinds
      <3> QED BY <1>1, <1>2, <2>1, <3>1, <3>2, <3>3 DEF KeyOK
    <2> QED BY <2>2, <2>3
  <1> QED BY <1>3, <1>4, <1>5

\* A request is over.
LEMMA IdleAfter ==
  ASSUME TypeOK, NEW r \in Requests, request' = [request EXCEPT ![r] = Idle], NEW k \in Keys
  PROVE  /\ Busy(k)' = Busy(k) \ {r} /\ \A p \in Requests \ {r} : request'[p] = request[p]
         /\ r \in Busy(k) <=> k \in request[r].keys
  <1>1. Idle.keys = {}
    BY DEF Idle
  <1>2. k \notin Idle.keys
    BY <1>1
  <1> QED BY <1>2, BusyAfter

LEMMA InForceKey ==
  ASSUME IInv, NEW r \in Requests, InForce(r), NEW k \in Keys \ clashed'
  PROVE  KeyOK(k)'
  <1>1. /\ TypeOK /\ KeyOK(k) /\ request[r].kind = "set" /\ request[r].st = "done"
        /\ request' = [request EXCEPT ![r] = Idle] /\ told' = Answered(r) /\ UNCHANGED <<rows, ended, sweeping>>
        /\ entries'[k] = IF k \in request[r].keys THEN request[r].block ELSE entries[k]
    BY DEF InForce, IInv
  <1>2. /\ Busy(k)' = Busy(k) \ {r} /\ \A p \in Requests \ {r} : request'[p] = request[p]
        /\ r \in Busy(k) <=> k \in request[r].keys
    BY <1>1, IdleAfter
  <1>3. CASE r \in Busy(k)
    <2>1. Busy(k) = {r} /\ k \notin sweeping /\ rows[k] = request[r].block
      BY <1>1, <1>3 DEF KeyOK
    <2>2. Busy(k)' = {} /\ told'[k] = request[r].block /\ entries'[k] = request[r].block /\ rows'[k] = request[r].block
      BY <1>1, <1>2, <1>3, <2>1 DEF Answered
    <2> QED BY <1>1, <2>1, <2>2 DEF KeyOK
  <1>4. CASE r \notin Busy(k)
    <2>1. told'[k] = told[k] /\ entries'[k] = entries[k] /\ Busy(k)' = Busy(k)
      BY <1>1, <1>2, <1>4 DEF Answered
    <2>2. \A p \in Busy(k) : request'[p] = request[p]
      BY <1>2, <1>4 DEF Busy
    <2> QED BY <1>1, <2>1, <2>2, UntouchedKey
  <1> QED BY <1>3, <1>4

LEMMA RemovalDoneKey ==
  ASSUME IInv, NEW r \in Requests, RemovalDone(r) \/ Refused(r), NEW k \in Keys \ clashed'
  PROVE  KeyOK(k)'
  <1>1. /\ TypeOK /\ KeyOK(k) /\ request' = [request EXCEPT ![r] = Idle] /\ UNCHANGED <<rows, ended, sweeping>>
        /\ RequestsSound
    BY DEF RemovalDone, Refused, IInv
  <1>2. /\ Busy(k)' = Busy(k) \ {r} /\ \A p \in Requests \ {r} : request'[p] = request[p]
        /\ r \in Busy(k) <=> k \in request[r].keys
    BY <1>1, IdleAfter
  <1>3. CASE r \notin Busy(k)
    <2>1. told'[k] = told[k] /\ entries'[k] = entries[k] /\ Busy(k)' = Busy(k)
      BY <1>1, <1>2, <1>3 DEF RemovalDone, Refused, Answered, Forgotten, IInv, TypeOK
    <2>2. \A p \in Busy(k) : request'[p] = request[p]
      BY <1>2, <1>3 DEF Busy
    <2> QED BY <1>1, <2>1, <2>2, UntouchedKey
  <1>4. ASSUME r \in Busy(k), Refused(r) PROVE KeyOK(k)'
    <2>1. entries' = entries /\ told'[k] = Unsure /\ request[r].st = "failed"
      BY <1>1, <1>4 DEF Refused, KeyOK
    <2>2. \A p \in Busy(k)' : p \in Busy(k) /\ request'[p] = request[p]
      BY <1>2 DEF Busy
    <2>3. \A p \in Busy(k) : p # r => p \in Busy(k)'
      BY <1>2
    <2>4. \/ entries'[k] = None \/ rows'[k] = entries'[k]
          \/ \E p \in Busy(k)' : request'[p].st = "done" /\ request'[p].kind \in {"set", "drop"}
      BY <1>1, <2>1, <2>2, <2>3 DEF KeyOK
    <2>5. \A p \in Busy(k)' :
            /\ request'[p].kind = "set" =>
                 Busy(k)' = {p} /\ k \notin sweeping' /\ (request'[p].st = "done" => rows'[k] = request'[p].block)
            /\ request'[p].kind # "set" => (request'[p].st = "done" => rows'[k] = None)
            /\ request'[p].kind \in {"lift", "clear"} => entries'[k] = None
      BY <1>1, <1>2, <2>1, <2>2 DEF KeyOK
    <2> QED BY <1>1, <2>1, <2>4, <2>5 DEF KeyOK
  <1>5. ASSUME r \in Busy(k), RemovalDone(r) PROVE KeyOK(k)'
    <2>1. /\ request[r].kind \in {"lift", "clear", "drop"} /\ request[r].st = "done" /\ request[r].block = None
          /\ entries'[k] = None /\ rows'[k] = None
      BY <1>1, <1>2, <1>5 DEF RemovalDone, RequestsSound, KeyOK, Forgotten
    <2>2. told'[k] = IF Busy(k) = {r} THEN None ELSE Unsure
      BY <1>1, <1>2, <1>5, <2>1 DEF RemovalDone, Answered, KeyOK
    <2>3. \A p \in Busy(k)' : p \in Busy(k) /\ request'[p] = request[p] /\ request[p].kind # "set"
      BY <1>1, <1>2, <1>5, <2>1 DEF Busy, KeyOK
    <2>4. told'[k] # Unsure => Busy(k)' = {} /\ told'[k] = None
      BY <1>2, <2>2
    <2> QED BY <2>1, <2>3, <2>4, <1>1 DEF KeyOK, Live
  <1> QED BY <1>3, <1>4, <1>5

\* An entry that ran out is forgotten, and its row is on its way out.
LEMMA ForgetKey ==
  ASSUME IInv, NEW k0 \in Keys, NEW k \in Keys \ clashed', UNCHANGED <<rows, ended, request, told>>,
         \/ UNCHANGED <<entries, sweeping, clashed>>
         \/ UNCHANGED <<entries, sweeping>> /\ clashed \subseteq clashed'
         \/ /\ Expired(k0) /\ entries' = Forgotten({k0}) /\ sweeping' = Swept({k0})
            /\ clashed' = clashed \cup ClashesOfSweep({k0})
  PROVE  KeyOK(k)'
  <1>1. TypeOK /\ KeyOK(k) /\ Busy(k)' = Busy(k) /\ \A r \in Busy(k) : request'[r] = request[r]
    BY DEF IInv, Busy
  <1>2. CASE UNCHANGED <<entries, sweeping>>
    BY <1>1, <1>2, UntouchedKey
  <1>3. CASE /\ Expired(k0) /\ entries' = Forgotten({k0}) /\ sweeping' = Swept({k0})
             /\ clashed' = clashed \cup ClashesOfSweep({k0})
    <2>1. CASE k # k0
      BY <1>1, <1>3, <2>1, UntouchedKey DEF Forgotten, Swept
    <2>2. CASE k = k0
      <3>1. Setting(k) = {} /\ entries'[k] = None /\ Live(entries[k]) = None
        BY <1>3, <2>2 DEF ClashesOfSweep, Forgotten, Expired, Live
      <3>2. rows[k] \in ended \cup {None}
        BY <1>1, <1>3, <2>2, <3>1, ExpiredKey
      <3>3. \A r \in Busy(k) : request[r].kind # "set"
        BY <3>1 DEF Setting
      <3>4. Live(None) = None
        BY DEF Live
      <3>5. told'[k] # Unsure => Busy(k)' = {} /\ Live(entries[k])' = Live(told[k])' /\ Live(rows[k])' = Live(told[k])'
        BY <1>1, <3>1, <3>4 DEF KeyOK, Live
      <3> QED BY <1>1, <3>1, <3>2, <3>3, <3>5 DEF KeyOK
    <2> QED BY <2>1, <2>2
  <1> QED BY <1>2, <1>3

LEMMA SweepKey ==
  ASSUME IInv, NEW k0 \in Keys, Sweep(k0), NEW k \in Keys \ clashed'
  PROVE  KeyOK(k)'
  <1>1. /\ TypeOK /\ KeyOK(k) /\ Busy(k)' = Busy(k) /\ \A r \in Busy(k) : request'[r] = request[r]
        /\ UNCHANGED <<entries, ended, request, told>> /\ sweeping' = sweeping \ {k0} /\ k0 \in sweeping
    BY DEF Sweep, IInv, Busy
  <1>2. CASE rows'[k] = rows[k]
    BY <1>1, <1>2, UntouchedKey
  <1>3. CASE rows'[k] # rows[k]
    <2>1. k = k0 /\ rows'[k] = None
      BY <1>1, <1>3 DEF Sweep, Removed, IInv, TypeOK
    <2>2. entries[k] = None /\ rows[k] \in ended \cup {None} /\ k \in sweeping /\ k \notin sweeping'
      BY <1>1, <2>1 DEF KeyOK
    <2>3. told[k] # Unsure => Live(rows[k])' = Live(told[k])'
      BY <1>1, <2>1, <2>2 DEF KeyOK, Live
    <2> QED BY <1>1, <2>1, <2>2, <2>3 DEF KeyOK, Live
  <1> QED BY <1>2, <1>3

LEMMA TimeOverKey ==
  ASSUME IInv, NEW b \in Blocks, TimeOver(b), NEW k \in Keys \ clashed'
  PROVE  KeyOK(k)'
  <1>1. /\ TypeOK /\ KeyOK(k) /\ Busy(k)' = Busy(k) /\ ended' = ended \cup {b}
        /\ UNCHANGED <<entries, rows, request, sweeping, told>>
    BY DEF TimeOver, IInv, Busy
  <1>2. ASSUME NEW v \in Values \cup {Unsure}, NEW w \in Values \cup {Unsure}, Live(v) = Live(w) PROVE Live(v)' = Live(w)'
    BY <1>1, <1>2, NoneIsNothing DEF Live, TypeOK
  <1>3. entries[k] \in Values /\ rows[k] \in Values /\ told[k] \in Values \cup {Unsure}
    BY <1>1 DEF TypeOK
  <1>4. told[k] # Unsure => Live(entries[k])' = Live(told[k])' /\ Live(rows[k])' = Live(told[k])'
    BY <1>1, <1>2, <1>3 DEF KeyOK
  <1> QED BY <1>1, <1>4 DEF KeyOK

LEMMA RestartKey ==
  ASSUME IInv, Restart, NEW k \in Keys
  PROVE  KeyOK(k)'
  <1>1. Busy(k)' = {}
    BY DEF Restart, Busy, Idle
  <1>2. rows'[k] = Live(rows[k]) /\ entries'[k] = Live(rows[k]) /\ k \notin sweeping' /\ UNCHANGED ended
    BY DEF Restart
  <1>3. rows[k] \in Values /\ TypeOK
    BY DEF IInv, TypeOK
  <1>4. told'[k] # Unsure => k \notin clashed /\ told'[k] = told[k]
    BY DEF Restart
  <1>5. told'[k] # Unsure => Live(rows[k]) = Live(told[k])
    BY <1>4 DEF IInv, KeyOK
  <1>6. Live(Live(rows[k])) = Live(rows[k])
    BY <1>3, LiveOfValue
  <1>7. told'[k] # Unsure => Live(entries[k])' = Live(told[k])' /\ Live(rows[k])' = Live(told[k])'
    BY <1>2, <1>4, <1>5, <1>6 DEF Live
  <1> QED BY <1>1, <1>2, <1>7 DEF KeyOK

LEMMA NextKey ==
  ASSUME IInv, [Next]_vars, NEW k \in Keys \ clashed'
  PROVE  KeyOK(k)'
  <1>1. CASE Restart
    BY <1>1, RestartKey
  <1>2. ASSUME NEW r \in Requests, NEW k0 \in Keys, Lift(r, k0) \/ \E b \in Blocks : Set(r, k0, b)
        PROVE  KeyOK(k)'
    BY <1>2, RemovalKeys, SetKey
  <1>3. ASSUME NEW r \in Requests, (\E u \in Users : Clear(r, u)) \/ (\E c \in Channels : Drop(r, c))
        PROVE  KeyOK(k)'
    BY <1>3, RemovalKeys
  <1>4. ASSUME NEW r \in Requests, Run(r) \/ Fail(r) \/ SetDone(r) \/ VoteInForce(r) \/ RemovalDone(r) \/ Refused(r)
        PROVE  KeyOK(k)'
    BY <1>4, RunKey, InForceKey, RemovalDoneKey DEF SetDone, VoteInForce
  <1>5. ASSUME NEW k0 \in Keys, Ask(k0) PROVE KeyOK(k)'
    BY <1>5, ForgetKey DEF Ask
  <1>6. ASSUME NEW k0 \in Keys, Sweep(k0) PROVE KeyOK(k)'
    BY <1>6, SweepKey
  <1>7. ASSUME NEW b \in Blocks, TimeOver(b) PROVE KeyOK(k)'
    BY <1>7, TimeOverKey
  <1>8. ASSUME NEW u \in Users, NEW c \in Channels, JoinChecked(u, c) PROVE KeyOK(k)'
    <2>1. <<c, u>> \in Keys
      BY DEF Keys
    <2>2. \/ UNCHANGED <<entries, sweeping, clashed>>
          \/ UNCHANGED <<entries, sweeping>> /\ clashed \subseteq clashed'
          \/ /\ Expired(<<c, u>>) /\ entries' = Forgotten({<<c, u>>}) /\ sweeping' = Swept({<<c, u>>})
             /\ clashed' = clashed \cup ClashesOfSweep({<<c, u>>})
      BY <1>8 DEF JoinChecked, Swept
    <2>3. UNCHANGED <<rows, ended, request, told>>
      BY <1>8 DEF JoinChecked
    <2> QED BY <2>1, <2>2, <2>3, ForgetKey
  <1>9. ASSUME NEW u \in Users, SeatStep(u) PROVE KeyOK(k)'
    <2>1. UNCHANGED <<entries, sweeping, clashed, rows, ended, request, told>>
      BY <1>9, SeatStepIsVoice
    <2> QED BY <2>1, ForgetKey
  <1>10. CASE UNCHANGED vars
    <2>1. UNCHANGED <<entries, sweeping, clashed, rows, ended, request, told>>
      BY <1>10 DEF vars
    <2> QED BY <2>1, ForgetKey
  <1> QED BY <1>1, <1>2, <1>3, <1>4, <1>5, <1>6, <1>7, <1>8, <1>9, <1>10 DEF Next, SeatStep

-------------------------------------------------------------------------------
(* The types.                                                              *)

VoiceOK ==
  /\ seat \in [Users -> SUBSET Channels]
  /\ joining \in [Users -> Channels \cup {None}] /\ grant \in [Users -> Channels \cup {None}]
  /\ leaving \subseteq Votes \X Users /\ excused \subseteq Keys \X Reasons

LEMMA ExcuseTypes ==
  ASSUME NEW k \in Keys, NEW why \in Reasons, NEW holds, NEW es, es \subseteq Keys \X Reasons
  PROVE  Lasting(es) \subseteq Keys \X Reasons /\ Excuse(k, why, holds) \subseteq Keys \X Reasons
  BY DEF Lasting, Excuse

LEMMA RequestVoice ==
  ASSUME TypeOK, NEW r \in Requests, Run(r) \/ Fail(r) \/ SetDone(r) \/ VoteInForce(r) \/ RemovalDone(r) \/ Refused(r)
  PROVE  VoiceOK'
  <1>1. VoiceOK /\ request[r].keys \subseteq Keys
    BY RequestIsTyped DEF TypeOK, VoiceOK
  <1>2. CASE Run(r) \/ Fail(r) \/ Refused(r)
    BY <1>1, <1>2 DEF Run, Fail, Refused, voice, VoiceOK
  <1>3. CASE SetDone(r)
    <2>1. PICK k \in request[r].keys :
            /\ grant' = [grant EXCEPT ![k[2]] = IF @ = k[1] THEN None ELSE @]
            /\ \E first \in First(k[2]) : Removes(k, first)
      BY <1>3 DEF SetDone
    <2>2. PICK first \in First(k[2]) : Removes(k, first)
      BY <2>1
    <2>3. k \in Keys /\ {"crossed", "beside"} \subseteq Reasons
      BY <1>1 DEF Reasons
    <2> DEFINE es == excused \cup Excuse(k, "crossed", joining[k[2]] = k[1])
                             \cup Excuse(k, "beside", first # k[1] /\ k[1] \in seat[k[2]])
    <2>4. es \subseteq Keys \X Reasons
      BY <1>1, <2>3 DEF Excuse, VoiceOK
    <2>5. excused' = Lasting(es)
      BY <2>2 DEF Removes
    <2> HIDE DEF es
    <2>6. excused' \subseteq Keys \X Reasons
      BY <2>4, <2>5 DEF Lasting
    <2>7. seat' \in [Users -> SUBSET Channels] /\ grant' \in [Users -> Channels \cup {None}]
      BY <1>1, <2>1, <2>2 DEF Removes, VoiceOK
    <2> QED BY <1>1, <1>3, <2>6, <2>7 DEF SetDone, InForce, VoiceOK
  <1>4. CASE VoteInForce(r)
    <2>1. PICK k \in request[r].keys :
            /\ leaving' = leaving \cup {<<request[r].block, k[2]>>}
            /\ excused' = excused \cup Excuse(k, "voted", k[1] \in Ways(k[2]))
      BY <1>4 DEF VoteInForce
    <2>2. k \in Keys /\ k[2] \in Users /\ "voted" \in Reasons /\ request[r].block \in Votes
      BY <1>1, <1>4 DEF Keys, Reasons, VoteInForce
    <2>3. leaving' \subseteq Votes \X Users /\ excused' \subseteq Keys \X Reasons
      BY <1>1, <2>1, <2>2 DEF VoiceOK, Excuse
    <2> QED BY <1>1, <1>4, <2>3 DEF VoteInForce, InForce, VoiceOK
  <1>5. CASE RemovalDone(r)
    BY <1>1, <1>5 DEF RemovalDone, VoiceOK, Lasting
  <1> QED BY <1>2, <1>3, <1>4, <1>5

LEMMA SeatStepVoice ==
  ASSUME TypeOK, NEW u \in Users, SeatStep(u)
  PROVE  VoiceOK'
  <1>1. VoiceOK
    BY DEF TypeOK, VoiceOK
  <1>2. CASE Seated(u) \/ JoinRefused(u) \/ GrantEnds(u)
    BY <1>1, <1>2 DEF Seated, JoinRefused, GrantEnds, VoiceOK, Lasting
  <1>3. ASSUME NEW b \in Votes, VoteRemoves(b, u) PROVE VoiceOK'
    BY <1>1, <1>3 DEF VoteRemoves, VoiceOK, Lasting
  <1>4. ASSUME NEW c \in Channels, Move(u, c) PROVE VoiceOK'
    <2>1. <<c, u>> \in Keys /\ "moved" \in Reasons
      BY DEF Keys, Reasons
    <2> DEFINE es == excused \cup Excuse(<<c, u>>, "moved", Live(entries[<<c, u>>]) # None)
    <2>2. es \subseteq Keys \X Reasons
      BY <1>1, <2>1 DEF Excuse, VoiceOK
    <2>3. excused' = Lasting(es)
      BY <1>4 DEF Move
    <2> HIDE DEF es
    <2>4. excused' \subseteq Keys \X Reasons
      BY <2>2, <2>3 DEF Lasting
    <2> QED BY <1>1, <1>4, <2>4 DEF Move, VoiceOK
  <1>5. ASSUME NEW c \in Channels, Restore(u, c) PROVE VoiceOK'
    <2>1. <<c, u>> \in Keys /\ "restored" \in Reasons
      BY DEF Keys, Reasons
    <2>2. excused' \subseteq Keys \X Reasons
      BY <1>1, <1>5, <2>1 DEF Restore, Excuse, VoiceOK
    <2> QED BY <1>1, <1>5, <2>2 DEF Restore, VoiceOK
  <1>6. ASSUME NEW c \in Channels, LeaveSeat(u, c) PROVE VoiceOK'
    BY <1>1, <1>6 DEF LeaveSeat, VoiceOK, Lasting
  <1> QED BY <1>2, <1>3, <1>4, <1>5, <1>6 DEF SeatStep

LEMMA AsksTypes ==
  ASSUME IInv, NEW r \in Requests, NEW kind \in Kinds, NEW ks \in SUBSET Keys, NEW b \in Values, Asks(r, kind, ks, b),
         kind # "set" => b = None, kind = "set" => \E k \in Keys : ks = {k}
  PROVE  request' \in [Requests -> RequestType] /\ told' \in [Keys -> Values \cup {Unsure}] /\ RequestsSound'
  <1> DEFINE q == [kind |-> kind, keys |-> ks, block |-> b, st |-> "sent"]
  <1>1. q \in RequestType
    BY DEF RequestType, Kinds
  <1>2. request' = [request EXCEPT ![r] = q] /\ q.kind = kind /\ q.block = b /\ q.keys = ks
    BY DEF Asks
  <1> HIDE DEF q
  <1>3. request' \in [Requests -> RequestType]
    BY <1>1, <1>2 DEF IInv, TypeOK
  <1>4. RequestsSound'
    BY <1>2 DEF IInv, TypeOK, RequestsSound
  <1> QED BY <1>3, <1>4 DEF Asks, IInv, TypeOK, Values

LEMMA AskingTypes ==
  ASSUME IInv, NEW r \in Requests,
         \/ \E k \in Keys : Lift(r, k) \/ \E b \in Blocks : Set(r, k, b)
         \/ \E u \in Users : Clear(r, u)
         \/ \E c \in Channels : Drop(r, c)
  PROVE  TypeOK' /\ RequestsSound'
  <1>1. ASSUME NEW k \in Keys, NEW b \in Blocks, Set(r, k, b) PROVE TypeOK' /\ RequestsSound'
    <2>1. "set" \in Kinds /\ {k} \in SUBSET Keys /\ b \in Values /\ Asks(r, "set", {k}, b)
      BY <1>1 DEF Set, Kinds, Values
    <2>2. request' \in [Requests -> RequestType] /\ told' \in [Keys -> Values \cup {Unsure}] /\ RequestsSound'
      BY <2>1, AsksTypes
    <2> QED BY <1>1, <2>2 DEF Set, IInv, TypeOK, Clashes, voice
  <1>2. ASSUME NEW k \in Keys, Lift(r, k) PROVE TypeOK' /\ RequestsSound'
    <2>1. "lift" \in Kinds /\ {k} \in SUBSET Keys /\ None \in Values /\ Asks(r, "lift", {k}, None)
      BY <1>2 DEF Lift, Kinds, Values
    <2>2. request' \in [Requests -> RequestType] /\ told' \in [Keys -> Values \cup {Unsure}] /\ RequestsSound'
      BY <2>1, AsksTypes
    <2> QED BY <1>2, <2>1, <2>2 DEF Lift, IInv, TypeOK, Clashes, Forgotten, Swept, voice
  <1>3. ASSUME NEW u \in Users, Clear(r, u) PROVE TypeOK' /\ RequestsSound'
    <2> DEFINE ks == {k \in Keys : k[2] = u}
    <2>1. "clear" \in Kinds /\ ks \in SUBSET Keys /\ None \in Values /\ Asks(r, "clear", ks, None)
      BY <1>3 DEF Clear, Kinds, Values
    <2>2. entries' = Forgotten(ks) /\ clashed' = clashed \cup Clashes(ks, "clear")
      BY <1>3 DEF Clear
    <2> HIDE DEF ks
    <2>3. request' \in [Requests -> RequestType] /\ told' \in [Keys -> Values \cup {Unsure}] /\ RequestsSound'
      BY <2>1, AsksTypes
    <2>4. entries' \in [Keys -> Values] /\ clashed' \subseteq Keys
      BY <2>1, <2>2 DEF IInv, TypeOK, Forgotten, Clashes
    <2> QED BY <1>3, <2>3, <2>4 DEF Clear, IInv, TypeOK, Lasting
  <1>4. ASSUME NEW c \in Channels, Drop(r, c) PROVE TypeOK' /\ RequestsSound'
    <2> DEFINE ks == {k \in Keys : k[1] = c}
    <2>1. "drop" \in Kinds /\ ks \in SUBSET Keys /\ None \in Values /\ Asks(r, "drop", ks, None)
      BY <1>4 DEF Drop, Kinds, Values
    <2>2. clashed' = clashed \cup Clashes(ks, "drop")
      BY <1>4 DEF Drop
    <2> HIDE DEF ks
    <2>3. request' \in [Requests -> RequestType] /\ told' \in [Keys -> Values \cup {Unsure}] /\ RequestsSound'
      BY <2>1, AsksTypes
    <2>4. clashed' \subseteq Keys
      BY <2>1, <2>2 DEF IInv, TypeOK, Clashes
    <2> QED BY <1>4, <2>3, <2>4 DEF Drop, IInv, TypeOK, voice
  <1> QED BY <1>1, <1>2, <1>3, <1>4

LEMMA RequestTypes ==
  ASSUME IInv, NEW r \in Requests, Run(r) \/ Fail(r) \/ SetDone(r) \/ VoteInForce(r) \/ RemovalDone(r) \/ Refused(r)
  PROVE  TypeOK' /\ RequestsSound'
  <1>1. TypeOK /\ request[r].keys \subseteq Keys /\ request[r].block \in Values
    BY RequestIsTyped DEF IInv
  <1>2. request' \in [Requests -> RequestType] /\ RequestsSound'
    <2>1. CASE request' = [request EXCEPT ![r] = Idle]
      <3>1. Idle \in RequestType /\ Idle.block = None /\ Idle.kind = "idle"
        BY DEF RequestType, Idle
      <3> QED BY <1>1, <2>1, <3>1 DEF IInv, TypeOK, RequestsSound
    <2>2. ASSUME NEW st \in {"done", "failed"}, request[r].st = "sent", request' = [request EXCEPT ![r].st = st]
          PROVE  request' \in [Requests -> RequestType] /\ RequestsSound'
      <3> DEFINE q == [request[r] EXCEPT !.st = st]
      <3>1. request[r] \in RequestType \ {Idle}
        BY <1>1, <2>2 DEF TypeOK, Idle
      <3>2. q \in RequestType /\ q.kind = request[r].kind /\ q.block = request[r].block /\ q.keys = request[r].keys
        BY <3>1 DEF RequestType
      <3>3. request' = [request EXCEPT ![r] = q]
        BY <1>1, <2>2 DEF TypeOK
      <3> HIDE DEF q
      <3> QED BY <1>1, <3>2, <3>3 DEF IInv, TypeOK, RequestsSound
    <2> QED BY <2>1, <2>2 DEF Run, Fail, SetDone, VoteInForce, InForce, RemovalDone, Refused
  <1>3. /\ entries' \in [Keys -> Values] /\ rows' \in [Keys -> Values] /\ told' \in [Keys -> Values \cup {Unsure}]
        /\ UNCHANGED <<ended, made, sweeping, clashed, joining>>
    <2>1. Answered(r) \in [Keys -> Values \cup {Unsure}]
      BY <1>1 DEF Answered, TypeOK
    <2>2. None \in Values
      BY DEF Values
    <2> QED BY <1>1, <2>1, <2>2 DEF Run, Fail, SetDone, VoteInForce, InForce, RemovalDone, Refused, TypeOK, Removed, Forgotten, voice
  <1>4. VoiceOK'
    BY <1>1, RequestVoice DEF VoiceOK, TypeOK
  <1> QED BY <1>1, <1>2, <1>3, <1>4 DEF TypeOK, VoiceOK

LEMMA OtherTypes ==
  ASSUME IInv, \/ Restart \/ (\E k \in Keys : Ask(k) \/ Sweep(k)) \/ (\E b \in Blocks : TimeOver(b))
               \/ (\E u \in Users : SeatStep(u) \/ \E c \in Channels : JoinChecked(u, c))
               \/ UNCHANGED vars
  PROVE  TypeOK' /\ RequestsSound'
  <1>1. None \in Values /\ TypeOK /\ RequestsSound
    BY DEF Values, IInv
  <1>2. CASE Restart
    <2>1. rows' \in [Keys -> Values] /\ entries' = rows'
      BY <1>1, <1>2, LiveOfValue DEF Restart, TypeOK
    <2>2. request' \in [Requests -> RequestType] /\ RequestsSound'
      BY <1>2 DEF Restart, RequestType, Idle, RequestsSound
    <2>3. told' \in [Keys -> Values \cup {Unsure}]
      BY <1>1, <1>2 DEF Restart, TypeOK
    <2> QED BY <1>1, <1>2, <2>1, <2>2, <2>3 DEF Restart, TypeOK
  <1>3. ASSUME NEW k \in Keys, Ask(k) \/ Sweep(k) PROVE TypeOK' /\ RequestsSound'
    BY <1>1, <1>3 DEF Ask, Sweep, TypeOK, RequestsSound, Forgotten, Removed, Swept, ClashesOfSweep, voice
  <1>4. ASSUME NEW b \in Blocks, TimeOver(b) PROVE TypeOK' /\ RequestsSound'
    BY <1>1, <1>4 DEF TimeOver, TypeOK, RequestsSound, voice
  <1>5. ASSUME NEW u \in Users, SeatStep(u) PROVE TypeOK' /\ RequestsSound'
    BY <1>1, <1>5, SeatStepIsVoice, SeatStepVoice DEF TypeOK, VoiceOK, RequestsSound
  <1>6. ASSUME NEW u \in Users, NEW c \in Channels, JoinChecked(u, c) PROVE TypeOK' /\ RequestsSound'
    <2>1. <<c, u>> \in Keys
      BY DEF Keys
    <2>2. entries' \in [Keys -> Values] /\ sweeping' \subseteq Keys /\ clashed' \subseteq Keys
      BY <1>1, <1>6, <2>1 DEF JoinChecked, TypeOK, Forgotten, Swept, ClashesOfSweep
    <2> QED BY <1>1, <1>6, <2>2 DEF JoinChecked, TypeOK, RequestsSound
  <1>7. CASE UNCHANGED vars
    BY <1>1, <1>7 DEF vars, TypeOK, RequestsSound
  <1> QED BY <1>2, <1>3, <1>4, <1>5, <1>6, <1>7

LEMMA NextTypes ==
  ASSUME IInv, [Next]_vars
  PROVE  TypeOK' /\ RequestsSound'
  BY AskingTypes, RequestTypes, OtherTypes DEF Next, SeatStep

-------------------------------------------------------------------------------
(* Who sits where.                                                         *)

\* An excuse lasts while the member has a way in.
LEMMA LastingHas ==
  ASSUME NEW es, NEW u \in Users, NEW c \in Channels, NEW why, <<<<c, u>>, why>> \in es, c \in Ways(u)'
  PROVE  <<<<c, u>>, why>> \in Lasting(es)
  BY DEF Lasting, Ways

\* A way in that is new, or a block that is new, has its excuse; the others have theirs still.
LEMMA ExcusedStill ==
  ASSUME BlockedIsOut, Lasting(excused) \subseteq excused',
         \A u \in Users : \A c \in Channels :
           c \in Ways(u)' /\ Live(entries[<<c, u>>])' # None =>
             \/ c \in Ways(u) /\ Live(entries[<<c, u>>]) # None
             \/ \E why \in Reasons : <<<<c, u>>, why>> \in excused'
  PROVE  BlockedIsOut'
  <1> SUFFICES ASSUME NEW u \in Users, NEW c \in Channels, c \in Ways(u)', Live(entries[<<c, u>>])' # None
               PROVE  \E why \in Reasons : <<<<c, u>>, why>> \in excused'
    BY DEF BlockedIsOut
  <1>1. CASE c \in Ways(u) /\ Live(entries[<<c, u>>]) # None
    <2>1. PICK why \in Reasons : <<<<c, u>>, why>> \in excused
      BY <1>1 DEF BlockedIsOut
    <2>2. <<<<c, u>>, why>> \in Lasting(excused)
      BY <2>1, LastingHas
    <2> QED BY <2>2
  <1> QED BY <1>1

LEMMA LastingIsPart ==
  ASSUME NEW es PROVE Lasting(excused) \subseteq Lasting(excused \cup es) /\ Lasting(excused) \subseteq excused \cup es
  BY DEF Lasting

\* Blocks go, ways in go, nothing comes.
LEMMA WaysNarrow ==
  ASSUME BlockedIsOut, \A k \in Keys : entries'[k] \in {entries[k], None}, ended \subseteq ended',
         \A u \in Users : Ways(u)' \subseteq Ways(u), Lasting(excused) \subseteq excused'
  PROVE  BlockedIsOut'
  <1>1. ASSUME NEW u \in Users, NEW c \in Channels, Live(entries[<<c, u>>])' # None
        PROVE  Live(entries[<<c, u>>]) # None
    <2>1. <<c, u>> \in Keys
      BY DEF Keys
    <2> QED BY <1>1, <2>1 DEF Live
  <1> QED BY <1>1, ExcusedStill

LEMMA VoiceStands ==
  ASSUME UNCHANGED voice
  PROVE  (\A u \in Users : Ways(u)' \subseteq Ways(u)) /\ Lasting(excused) \subseteq excused'
  BY DEF voice, Ways, Lasting

\* One key gets a block, or one member a way in; the rest narrows.
LEMMA KeyExcused ==
  ASSUME BlockedIsOut, NEW k \in Keys, ended' = ended, Lasting(excused) \subseteq excused',
         \A x \in Keys \ {k} : entries'[x] \in {entries[x], None} /\ (x[1] \in Ways(x[2])' => x[1] \in Ways(x[2])),
         k[1] \in Ways(k[2])' /\ Live(entries[k])' # None =>
           \/ k[1] \in Ways(k[2]) /\ Live(entries[k]) # None
           \/ \E why \in Reasons : <<k, why>> \in excused'
  PROVE  BlockedIsOut'
  <1> SUFFICES ASSUME NEW u \in Users, NEW c \in Channels, c \in Ways(u)', Live(entries[<<c, u>>])' # None
               PROVE  \/ c \in Ways(u) /\ Live(entries[<<c, u>>]) # None
                      \/ \E why \in Reasons : <<<<c, u>>, why>> \in excused'
    BY ExcusedStill
  <1>1. <<c, u>> \in Keys /\ <<c, u>>[1] = c /\ <<c, u>>[2] = u
    BY DEF Keys
  <1>2. CASE <<c, u>> = k
    <2>1. k[1] = c /\ k[2] = u
      BY <1>2
    <2> QED BY <1>2, <2>1 DEF Ways
  <1>3. CASE <<c, u>> # k
    <2>1. c \in Ways(u) /\ entries'[<<c, u>>] \in {entries[<<c, u>>], None}
      BY <1>1, <1>3 DEF Ways
    <2> QED BY <2>1 DEF Live
  <1> QED BY <1>2, <1>3

\* A block in force is one key's.
LEMMA OneKeyInForce ==
  ASSUME IInv, NEW r \in Requests, InForce(r), NEW k \in request[r].keys
  PROVE  /\ k \in Keys /\ k[1] \in Channels /\ k[2] \in Users /\ k = <<k[1], k[2]>>
         /\ \A x \in Keys \ {k} : entries'[x] = entries[x]
         /\ ended' = ended /\ joining' = joining
  <1>1. request[r].keys = {k} /\ k \in Keys
    BY DEF IInv, RequestsSound, InForce
  <1> QED BY <1>1 DEF InForce, Keys

\* A moderator's block: what is left of the ways in is a join past its check, or a seat beside the first.
LEMMA SetDoneExcused ==
  ASSUME IInv, NEW r \in Requests, SetDone(r)
  PROVE  BlockedIsOut'
  <1>1. TypeOK /\ BlockedIsOut /\ InForce(r)
    BY DEF IInv, SetDone
  <1>2. PICK k \in request[r].keys :
          /\ grant' = [grant EXCEPT ![k[2]] = IF @ = k[1] THEN None ELSE @]
          /\ \E first \in First(k[2]) : Removes(k, first)
    BY DEF SetDone
  <1>3. PICK first \in First(k[2]) : Removes(k, first)
    BY <1>2
  <1>4. /\ k \in Keys /\ k[1] \in Channels /\ k[2] \in Users /\ k = <<k[1], k[2]>> /\ k[1] # None
        /\ \A x \in Keys \ {k} : entries'[x] = entries[x]
        /\ ended' = ended /\ joining' = joining
    BY <1>1, OneKeyInForce, NoneIsNothing
  <1> DEFINE es == Excuse(k, "crossed", joining[k[2]] = k[1])
                     \cup Excuse(k, "beside", first # k[1] /\ k[1] \in seat[k[2]])
  <1>5. excused' = Lasting(excused \cup es)
    <2>1. excused \cup es = excused \cup Excuse(k, "crossed", joining[k[2]] = k[1])
                              \cup Excuse(k, "beside", first # k[1] /\ k[1] \in seat[k[2]])
      OBVIOUS
    <2> QED BY <1>3, <2>1 DEF Removes
  <1>6. \A u \in Users : Ways(u)' \subseteq Ways(u)
    <2> SUFFICES ASSUME NEW u \in Users PROVE Ways(u)' \subseteq Ways(u)
      OBVIOUS
    <2>1. seat'[u] \subseteq seat[u] /\ grant'[u] \in {grant[u], None}
      BY <1>1, <1>2, <1>3 DEF Removes, TypeOK
    <2> QED BY <1>4, <2>1, NoneIsNothing DEF Ways
  <1>7. k[1] \in Ways(k[2])' => \E why \in Reasons : <<k, why>> \in excused'
    <2> SUFFICES ASSUME k[1] \in Ways(k[2])' PROVE \E why \in Reasons : <<k, why>> \in excused'
      OBVIOUS
    <2>1. grant'[k[2]] # k[1]
      BY <1>1, <1>2, <1>4 DEF TypeOK
    <2>2. seat'[k[2]] = IF first = k[1] THEN {} ELSE seat[k[2]]
      BY <1>1, <1>3, <1>4 DEF Removes, TypeOK
    <2>3. joining[k[2]] = k[1] \/ (first # k[1] /\ k[1] \in seat[k[2]])
      BY <1>4, <2>1, <2>2 DEF Ways
    <2>4. <<k, "crossed">> \in es \/ <<k, "beside">> \in es
      BY <2>3 DEF Excuse
    <2> HIDE DEF es
    <2>5. PICK why \in {"crossed", "beside"} : <<<<k[1], k[2]>>, why>> \in excused \cup es
      BY <1>4, <2>4
    <2>6. <<<<k[1], k[2]>>, why>> \in Lasting(excused \cup es)
      BY <1>4, <2>5, LastingHas
    <2> QED BY <1>4, <1>5, <2>5, <2>6 DEF Reasons
  <1> HIDE DEF es
  <1>8. Lasting(excused) \subseteq excused'
    BY <1>5, LastingIsPart
  <1>9. \A x \in Keys \ {k} : entries'[x] \in {entries[x], None} /\ (x[1] \in Ways(x[2])' => x[1] \in Ways(x[2]))
    BY <1>4, <1>6 DEF Keys
  <1> QED BY <1>1, <1>4, <1>7, <1>8, <1>9, KeyExcused

\* A vote kick's: whoever has a way in keeps it, with the excuse.
LEMMA VoteInForceExcused ==
  ASSUME IInv, NEW r \in Requests, VoteInForce(r)
  PROVE  BlockedIsOut'
  <1>1. TypeOK /\ BlockedIsOut /\ InForce(r) /\ UNCHANGED <<seat, grant>>
    BY DEF IInv, VoteInForce
  <1>2. PICK k \in request[r].keys : excused' = excused \cup Excuse(k, "voted", k[1] \in Ways(k[2]))
    BY DEF VoteInForce
  <1>3. /\ k \in Keys /\ \A x \in Keys \ {k} : entries'[x] = entries[x]
        /\ ended' = ended /\ joining' = joining
    BY <1>1, OneKeyInForce
  <1>4. \A u \in Users : Ways(u)' = Ways(u)
    BY <1>1, <1>3 DEF Ways
  <1>5. Lasting(excused) \subseteq excused'
    BY <1>2, LastingIsPart
  <1>6. k[1] \in Ways(k[2])' => \E why \in Reasons : <<k, why>> \in excused'
    <2>1. k[2] \in Users
      BY <1>3 DEF Keys
    <2>2. k[1] \in Ways(k[2])' => k[1] \in Ways(k[2])
      BY <1>4, <2>1
    <2>3. k[1] \in Ways(k[2])' => <<k, "voted">> \in excused'
      BY <1>2, <2>2 DEF Excuse
    <2> QED BY <2>3 DEF Reasons
  <1>7. \A x \in Keys \ {k} : entries'[x] \in {entries[x], None} /\ (x[1] \in Ways(x[2])' => x[1] \in Ways(x[2]))
    BY <1>3, <1>4 DEF Keys
  <1> QED BY <1>1, <1>3, <1>5, <1>6, <1>7, KeyExcused

LEMMA SeatStepExcused ==
  ASSUME IInv, NEW u \in Users, SeatStep(u)
  PROVE  BlockedIsOut'
  <1>1. TypeOK /\ BlockedIsOut /\ UNCHANGED <<entries, ended>>
    BY SeatStepIsVoice DEF IInv
  <1>2. CASE Seated(u) \/ JoinRefused(u) \/ GrantEnds(u)
    <2>1. \A w \in Users : Ways(w)' \subseteq Ways(w)
      BY <1>1, <1>2, NoneIsNothing DEF Seated, JoinRefused, GrantEnds, Ways, TypeOK
    <2>2. Lasting(excused) \subseteq excused'
      BY <1>2 DEF Seated, JoinRefused, GrantEnds
    <2> QED BY <1>1, <2>1, <2>2, WaysNarrow
  <1>3. ASSUME NEW b \in Votes, VoteRemoves(b, u) PROVE BlockedIsOut'
    <2>1. \A w \in Users : Ways(w)' \subseteq Ways(w)
      BY <1>1, <1>3 DEF VoteRemoves, Ways, TypeOK
    <2>2. Lasting(excused) \subseteq excused'
      BY <1>3 DEF VoteRemoves
    <2> QED BY <1>1, <2>1, <2>2, WaysNarrow
  <1>4. ASSUME NEW c \in Channels, LeaveSeat(u, c) PROVE BlockedIsOut'
    <2>1. \A w \in Users : Ways(w)' \subseteq Ways(w)
      BY <1>1, <1>4 DEF LeaveSeat, Ways, TypeOK
    <2>2. Lasting(excused) \subseteq excused'
      BY <1>4 DEF LeaveSeat
    <2> QED BY <1>1, <2>1, <2>2, WaysNarrow
  <1>5. ASSUME NEW c \in Channels, Move(u, c) PROVE BlockedIsOut'
    <2> DEFINE k == <<c, u>>
               es == Excuse(k, "moved", Live(entries[k]) # None)
    <2>1. k \in Keys /\ k[1] = c /\ k[2] = u
      BY DEF Keys
    <2>2. excused' = Lasting(excused \cup es) /\ grant' = [grant EXCEPT ![u] = c] /\ UNCHANGED <<seat, joining>>
      BY <1>5 DEF Move
    <2>3. Lasting(excused) \subseteq excused'
      BY <2>2, LastingIsPart
    <2>4. \A x \in Keys \ {k} : x[1] \in Ways(x[2])' => x[1] \in Ways(x[2])
      BY <1>1, <2>2 DEF Ways, Keys, TypeOK
    <2>5. Live(entries[k])' # None => \E why \in Reasons : <<k, why>> \in excused'
      <3> SUFFICES ASSUME Live(entries[k])' # None PROVE \E why \in Reasons : <<k, why>> \in excused'
        OBVIOUS
      <3>1. <<<<c, u>>, "moved">> \in excused \cup es
        BY <1>1 DEF Excuse, Live
      <3>2. c \in Ways(u)'
        BY <1>1, <2>2 DEF Ways, TypeOK
      <3> HIDE DEF es
      <3>3. <<<<c, u>>, "moved">> \in Lasting(excused \cup es)
        BY <3>1, <3>2, LastingHas
      <3> QED BY <2>2, <3>3 DEF Reasons
    <2> HIDE DEF k, es
    <2> QED BY <1>1, <2>1, <2>3, <2>4, <2>5, KeyExcused
  <1>6. ASSUME NEW c \in Channels, Restore(u, c) PROVE BlockedIsOut'
    <2> DEFINE k == <<c, u>>
    <2>1. k \in Keys /\ k[1] = c /\ k[2] = u
      BY DEF Keys
    <2>2. excused' = excused \cup Excuse(k, "restored", Live(entries[k]) # None) /\ seat' = [seat EXCEPT ![u] = {c}]
          /\ UNCHANGED <<grant, joining>>
      BY <1>6 DEF Restore
    <2>3. Lasting(excused) \subseteq excused'
      BY <2>2, LastingIsPart
    <2>4. \A x \in Keys \ {k} : x[1] \in Ways(x[2])' => x[1] \in Ways(x[2])
      BY <1>1, <2>2 DEF Ways, Keys, TypeOK
    <2>5. Live(entries[k])' # None => \E why \in Reasons : <<k, why>> \in excused'
      <3>1. Live(entries[k])' # None => <<k, "restored">> \in excused'
        BY <1>1, <2>2 DEF Excuse, Live
      <3> QED BY <3>1 DEF Reasons
    <2> HIDE DEF k
    <2> QED BY <1>1, <2>1, <2>3, <2>4, <2>5, KeyExcused
  <1> QED BY <1>2, <1>3, <1>4, <1>5, <1>6 DEF SeatStep

LEMMA NextWays ==
  ASSUME IInv, [Next]_vars
  PROVE  BlockedIsOut'
  <1>0. TypeOK /\ BlockedIsOut
    BY DEF IInv
  <1>1. CASE Restart
    <2>1. \A u \in Users : Ways(u)' = {}
      BY <1>1, NoneIsNothing DEF Restart, Ways
    <2> QED BY <2>1 DEF BlockedIsOut
  <1>2. ASSUME NEW r \in Requests,
               \/ \E k \in Keys : Lift(r, k) \/ \E b \in Blocks : Set(r, k, b)
               \/ \E c \in Channels : Drop(r, c)
               \/ Run(r) \/ Fail(r) \/ Refused(r)
        PROVE  BlockedIsOut'
    <2>1. /\ \A k \in Keys : entries'[k] \in {entries[k], None}
          /\ ended' = ended /\ UNCHANGED voice
      BY <1>2 DEF Lift, Set, Drop, Run, Fail, Refused, Forgotten
    <2> QED BY <1>0, <2>1, VoiceStands, WaysNarrow
  <1>3. ASSUME NEW r \in Requests, RemovalDone(r) \/ \E u \in Users : Clear(r, u)
        PROVE  BlockedIsOut'
    <2>1. \A k \in Keys : entries'[k] \in {entries[k], None}
      BY <1>3 DEF RemovalDone, Clear, Forgotten
    <2>2. \A u \in Users : Ways(u)' \subseteq Ways(u)
      <3>1. CASE RemovalDone(r)
        BY <1>0, <3>1 DEF RemovalDone, Ways, TypeOK
      <3>2. ASSUME NEW u \in Users, Clear(r, u) PROVE \A w \in Users : Ways(w)' \subseteq Ways(w)
        <4>1. joining' = joining /\ \A w \in Users : seat'[w] \subseteq seat[w] /\ grant'[w] \in {grant[w], None}
          BY <1>0, <3>2 DEF Clear, TypeOK
        <4> QED BY <4>1, NoneIsNothing DEF Ways
      <3> QED BY <1>3, <3>1, <3>2
    <2>3. ended' = ended /\ Lasting(excused) \subseteq excused'
      BY <1>3 DEF RemovalDone, Clear
    <2> QED BY <1>0, <2>1, <2>2, <2>3, WaysNarrow
  <1>4. ASSUME NEW r \in Requests, SetDone(r) \/ VoteInForce(r) PROVE BlockedIsOut'
    BY <1>4, SetDoneExcused, VoteInForceExcused
  <1>5. ASSUME NEW k \in Keys, Ask(k) \/ Sweep(k) PROVE BlockedIsOut'
    <2>1. /\ \A x \in Keys : entries'[x] \in {entries[x], None}
          /\ ended' = ended /\ UNCHANGED voice
      BY <1>5 DEF Ask, Sweep, Forgotten
    <2> QED BY <1>0, <2>1, VoiceStands, WaysNarrow
  <1>6. ASSUME NEW b \in Blocks, TimeOver(b) PROVE BlockedIsOut'
    <2>1. entries' = entries /\ ended \subseteq ended' /\ UNCHANGED voice
      BY <1>6 DEF TimeOver
    <2> QED BY <1>0, <2>1, VoiceStands, WaysNarrow
  <1>7. ASSUME NEW u \in Users, SeatStep(u) PROVE BlockedIsOut'
    BY <1>7, SeatStepExcused
  <1>8. ASSUME NEW u \in Users, NEW c \in Channels, JoinChecked(u, c) PROVE BlockedIsOut'
    <2> DEFINE k == <<c, u>>
    <2>1. /\ k \in Keys /\ \A x \in Keys : entries'[x] \in {entries[x], None}
          /\ UNCHANGED <<ended, seat, grant, excused>> /\ joining' = [joining EXCEPT ![u] = c]
          /\ grant[u] = c \/ Live(entries[k]) = None
      BY <1>8 DEF JoinChecked, Forgotten, Keys
    <2>2. Lasting(excused) \subseteq excused'
      BY <2>1 DEF Lasting
    <2>3. \A x \in Keys \ {k} : x[1] \in Ways(x[2])' => x[1] \in Ways(x[2])
      BY <1>0, <2>1 DEF Ways, Keys, TypeOK
    <2>4. Live(entries[k])' # None => c \in Ways(u) /\ Live(entries[k]) # None
      BY <2>1 DEF Live, Ways
    <2>5. k[1] = c /\ k[2] = u
      OBVIOUS
    <2> HIDE DEF k
    <2> QED BY <1>0, <2>1, <2>2, <2>3, <2>4, <2>5, KeyExcused
  <1>9. CASE UNCHANGED vars
    <2>1. UNCHANGED <<entries, ended>> /\ UNCHANGED voice
      BY <1>9 DEF vars, voice
    <2> QED BY <1>0, <2>1, VoiceStands, WaysNarrow
  <1> QED BY <1>1, <1>2, <1>3, <1>4, <1>5, <1>6, <1>7, <1>8, <1>9 DEF Next, SeatStep

-------------------------------------------------------------------------------
(* The theorems.                                                           *)

LEMMA InitIsSound == Init => IInv
  <1> SUFFICES ASSUME Init PROVE IInv
    OBVIOUS
  <1>1. TypeOK /\ RequestsSound
    BY DEF Init, TypeOK, RequestsSound, RequestType, Idle, Values
  <1>2. BlockedIsOut
    BY DEF Init, BlockedIsOut, Live, Keys
  <1>3. \A k \in Keys : Busy(k) = {}
    BY DEF Init, Busy, Idle
  <1>4. \A k \in Keys : KeyOK(k)
    BY <1>3 DEF Init, KeyOK
  <1> QED BY <1>1, <1>2, <1>4 DEF IInv

\* The strengthening is an invariant of every step of the changes, the statements and the seats.
THEOREM SpecIInv == Spec => []IInv
  <1>1. IInv /\ [Next]_vars => IInv'
    BY NextTypes, NextWays, NextKey DEF IInv
  <1> QED BY InitIsSound, <1>1, PTL DEF Spec

\* The map, the table and the requests keep their shape; a block without an end never runs out.
THEOREM TypeCorrect == Spec => []TypeOK
  <1>1. IInv => TypeOK
    BY DEF IInv
  <1> QED BY <1>1, SpecIInv, PTL

\* What set(), lift(), clearUser() and the deletion of a channel answered is so, in memory and in the table.
THEOREM AnswersHold == Spec => []AnsweredHolds
  <1>1. IInv => AnsweredHolds
    BY DEF IInv, KeyOK, AnsweredHolds
  <1> QED BY <1>1, SpecIInv, PTL

\* A blocked member has no way into the channel, sitting, joining or granted, but for the five excuses.
THEOREM BlockedStaysOut == Spec => []BlockedIsOut
  <1>1. IInv => BlockedIsOut
    BY DEF IInv
  <1> QED BY <1>1, SpecIInv, PTL

-------------------------------------------------------------------------------
(* The book: what the mapping makes of a key.                              *)

Bk(k) == IF k \in clashed THEN Unsure ELSE Live(entries[k])
My(k) == IF k \in clashed THEN {Unsure} ELSE {Live(entries[k]), Live(rows[k])} \cup Targets(k)
As(k) == IF k \in clashed \/ Busy(k) = {} THEN Nobody ELSE CHOOSE v \in Targets(k) : TRUE

LEMMA BookMoves ==
  ASSUME NEW k \in Keys
  PROVE  /\ Bk(k)' = Bk(k) /\ My(k)' = My(k) /\ As(k)' = As(k) => Book!Same(k)
         /\ (\E v \in Values : /\ As(k) = Nobody /\ As(k)' = v
                              /\ My(k)' = My(k) \cup {v} /\ Bk(k)' \in My(k)') => Book!Begin(k)
         /\ As(k) # Nobody /\ As(k)' = As(k) /\ My(k)' \subseteq My(k) /\ Bk(k)' \in My(k)' => Book!Narrow(k)
         /\ As(k) # Nobody /\ As(k)' = Nobody /\ My(k)' \subseteq My(k) /\ Bk(k)' \in My(k)' => Book!End(k)
         /\ Bk(k)' = Unsure /\ My(k)' = {Unsure} /\ As(k)' = Nobody => Book!Clash(k)
  BY DEF Bk, My, As, Book!Same, Book!Begin, Book!Narrow, Book!End, Book!Clash, Book!Values, Values

KeyMoves(k) == Book!Same(k) \/ Book!Begin(k) \/ Book!Narrow(k) \/ Book!End(k) \/ Book!Clash(k)

LEMMA OneTarget ==
  ASSUME NEW v
  PROVE  (CHOOSE x \in {v} : TRUE) = v
  OBVIOUS

LEMMA SameChoice ==
  ASSUME NEW S, NEW T, S = T
  PROVE  (CHOOSE x \in S : TRUE) = (CHOOSE x \in T : TRUE)
  OBVIOUS

\* A key on which nothing has clashed, before and after a step.
LEMMA QuietKey ==
  ASSUME NEW k \in Keys \ clashed, Busy(k) = {}
  PROVE  Bk(k) = Live(entries[k]) /\ My(k) = {Live(entries[k]), Live(rows[k])} /\ As(k) = Nobody
  BY DEF Bk, My, As, Targets

LEMMA QuietKeyLater ==
  ASSUME NEW k \in Keys \ clashed', Busy(k)' = {}
  PROVE  /\ Bk(k)' = Live(entries[k])' /\ My(k)' = {Live(entries[k])', Live(rows[k])'} /\ As(k)' = Nobody
  BY DEF Bk, My, As, Targets

LEMMA BusyKey ==
  ASSUME NEW k \in Keys \ clashed, NEW v, Targets(k) = {v}, Busy(k) # {}
  PROVE  Bk(k) = Live(entries[k]) /\ My(k) = {Live(entries[k]), Live(rows[k]), v} /\ As(k) = v
  BY OneTarget DEF Bk, My, As

LEMMA BusyKeyLater ==
  ASSUME NEW k \in Keys \ clashed', NEW v, Targets(k)' = {v}, Busy(k)' # {}
  PROVE  Bk(k)' = Live(entries[k])' /\ My(k)' = {Live(entries[k])', Live(rows[k])', v} /\ As(k)' = v
  BY OneTarget DEF Bk, My, As

LEMMA TargetsOf ==
  ASSUME IInv, NEW k \in Keys \ clashed, NEW r \in Busy(k)
  PROVE  Targets(k) = {Live(request[r].block)}
  <1>1. \A p \in Busy(k) : request[p].block = request[r].block
    BY DEF IInv, KeyOK, RequestsSound, Busy
  <1> QED BY <1>1 DEF Targets

-------------------------------------------------------------------------------
(* The moves of a key.                                                     *)

LEMMA SameKey ==
  ASSUME NEW k \in Keys, k \in clashed' <=> k \in clashed,
         k \notin clashed => /\ Live(entries[k])' = Live(entries[k]) /\ Live(rows[k])' = Live(rows[k])
                            /\ Busy(k)' = Busy(k) /\ \A r \in Busy(k) : request'[r].block = request[r].block,
         ended' = ended
  PROVE  KeyMoves(k)
  <1>1. Targets(k)' = Targets(k) \/ k \in clashed
    BY DEF Targets, Live
  <1>2. Bk(k)' = Bk(k) /\ My(k)' = My(k)
    BY <1>1 DEF Bk, My
  <1>3. As(k)' = As(k)
    <2>1. CASE k \in clashed \/ Busy(k) = {}
      BY <2>1 DEF As
    <2>2. CASE ~(k \in clashed \/ Busy(k) = {})
      <3>1. As(k) = (CHOOSE v \in Targets(k) : TRUE) /\ As(k)' = (CHOOSE v \in Targets(k)' : TRUE)
        BY <2>2 DEF As
      <3> QED BY <1>1, <2>2, <3>1, SameChoice
    <2> QED BY <2>1, <2>2
  <1> QED BY <1>2, <1>3, BookMoves DEF KeyMoves

LEMMA ClashedKey ==
  ASSUME NEW k \in Keys, k \in clashed', clashed \subseteq clashed', ended' = ended
  PROVE  KeyMoves(k)
  BY BookMoves, SameKey DEF KeyMoves, Bk, My, As

\* A change begins on a key on which none is under way.
LEMMA BeginKey ==
  ASSUME IInv, NEW k \in Keys, k \notin clashed, k \notin clashed', Busy(k) = {}, NEW r \in Requests, Busy(k)' = {r},
         NEW v \in Values, Live(request[r].block)' = v, ended' = ended, rows'[k] = rows[k],
         entries'[k] = entries[k] \/ (entries'[k] = None /\ v = None)
  PROVE  KeyMoves(k)
  <1>1. Targets(k)' = {v}
    BY DEF Targets
  <1>2. As(k)' = v /\ Bk(k)' = Live(entries[k])' /\ My(k)' = {Live(entries[k])', Live(rows[k])', v}
    BY <1>1, BusyKeyLater
  <1>3. As(k) = Nobody /\ My(k) = {Live(entries[k]), Live(rows[k])}
    BY QuietKey
  <1>4. entries[k] = None \/ rows[k] = entries[k]
    BY DEF IInv, KeyOK
  <1>5. My(k)' = My(k) \cup {v}
    BY <1>2, <1>3, <1>4 DEF Live
  <1> QED BY <1>2, <1>3, <1>5, BookMoves DEF KeyMoves

\* A change under way gets on, or ends.
LEMMA GoOnKey ==
  ASSUME IInv, NEW k \in Keys, k \notin clashed, k \notin clashed', NEW r \in Busy(k), NEW v, Live(request[r].block) = v,
         \/ Busy(k)' = {}
         \/ Busy(k)' # {} /\ Targets(k)' = {v},
         {Live(entries[k])', Live(rows[k])'} \subseteq {Live(entries[k]), Live(rows[k]), v}
  PROVE  KeyMoves(k)
  <1>1. v \in Values /\ v # Nobody
    BY BusyIsNotIdle, LiveOfValue, NoneIsNothing DEF IInv, Values
  <1>2. As(k) = v /\ My(k) = {Live(entries[k]), Live(rows[k]), v}
    BY TargetsOf, BusyKey
  <1>3. CASE Busy(k)' = {}
    <2>1. Bk(k)' = Live(entries[k])' /\ My(k)' = {Live(entries[k])', Live(rows[k])'} /\ As(k)' = Nobody
      BY <1>3, QuietKeyLater
    <2> QED BY <1>1, <1>2, <2>1, BookMoves DEF KeyMoves
  <1>4. CASE Busy(k)' # {} /\ Targets(k)' = {v}
    <2>1. Bk(k)' = Live(entries[k])' /\ My(k)' = {Live(entries[k])', Live(rows[k])', v} /\ As(k)' = v
      BY <1>4, BusyKeyLater
    <2> QED BY <1>1, <1>2, <2>1, BookMoves DEF KeyMoves
  <1> QED BY <1>3, <1>4

-------------------------------------------------------------------------------
(* Every step is a step of the book.                                       *)

LEMMA SetMoves ==
  ASSUME IInv, NEW r \in Requests, NEW k0 \in Keys, NEW b \in Blocks, Set(r, k0, b), NEW k \in Keys
  PROVE  KeyMoves(k)
  <1>1. /\ TypeOK /\ Asks(r, "set", {k0}, b) /\ UNCHANGED <<entries, rows, ended, sweeping>>
        /\ clashed' = clashed \cup Clashes({k0}, "set") /\ b \notin made
    BY DEF Set, IInv
  <1>a. /\ r \notin Busy(k) /\ Busy(k)' = IF k \in {k0} THEN Busy(k) \cup {r} ELSE Busy(k)
        /\ request'[r] = [kind |-> "set", keys |-> {k0}, block |-> b, st |-> "sent"]
        /\ \A p \in Requests \ {r} : request'[p] = request[p]
        /\ told'[k] = IF k \in {k0} THEN Unsure ELSE told[k]
    BY <1>1, AsksKey
  <1>2. CASE k \in clashed'
    BY <1>1, <1>2, ClashedKey
  <1>3. CASE k \notin clashed' /\ k = k0
    <2>1. Busy(k) = {} /\ Busy(k)' = {r} /\ b \in Values
      BY <1>1, <1>a, <1>3 DEF Clashes, Values
    <2>2. Live(request[r].block)' = b
      BY <1>1, <1>a DEF Live, TypeOK
    <2> QED BY <1>1, <1>3, <2>1, <2>2, BeginKey
  <1>4. CASE k \notin clashed' /\ k # k0
    <2>1. Busy(k)' = Busy(k) /\ \A p \in Busy(k) : request'[p].block = request[p].block
      BY <1>a, <1>4 DEF Busy
    <2> QED BY <1>1, <1>4, <2>1, SameKey DEF Live
  <1> QED BY <1>2, <1>3, <1>4

LEMMA RemovalMoves ==
  ASSUME IInv, NEW r \in Requests, NEW kind \in {"lift", "clear", "drop"}, NEW ks, NEW k \in Keys,
         Asks(r, kind, ks, None), clashed' = clashed \cup Clashes(ks, kind), UNCHANGED <<rows, ended>>,
         entries'[k] = IF kind # "drop" /\ k \in ks THEN None ELSE entries[k]
  PROVE  KeyMoves(k)
  <1>1. TypeOK
    BY DEF IInv
  <1>a. /\ r \notin Busy(k) /\ Busy(k)' = IF k \in ks THEN Busy(k) \cup {r} ELSE Busy(k)
        /\ request'[r] = [kind |-> kind, keys |-> ks, block |-> None, st |-> "sent"]
        /\ \A p \in Requests \ {r} : request'[p] = request[p]
        /\ told'[k] = IF k \in ks THEN Unsure ELSE told[k]
    BY <1>1, AsksKey
  <1>b. None \in Values /\ Live(None) = None /\ Live(None)' = None /\ Live(request[r].block)' = None
    BY <1>a DEF Values, Live
  <1>2. CASE k \in clashed'
    BY <1>2, ClashedKey
  <1>3. CASE k \notin clashed' /\ k \notin ks
    <2>1. Busy(k)' = Busy(k) /\ \A p \in Busy(k) : request'[p].block = request[p].block
      BY <1>a, <1>3 DEF Busy
    <2> QED BY <1>3, <2>1, SameKey DEF Live
  <1>4. CASE k \notin clashed' /\ k \in ks /\ Busy(k) = {}
    <2>1. Busy(k)' = {r} /\ k \notin clashed
      BY <1>a, <1>4
    <2> QED BY <1>b, <1>4, <2>1, BeginKey
  <1>5. CASE k \notin clashed' /\ k \in ks /\ Busy(k) # {}
    <2>1. PICK p \in Busy(k) : TRUE
      BY <1>5
    <2>2. k \notin clashed /\ Setting(k) = {}
      BY <1>5 DEF Clashes
    <2>3. \A q \in Busy(k) : q \in Requests \ {r} /\ request[q].block = None /\ request'[q].block = None
      BY <1>a, <2>2 DEF Setting, Busy, IInv, RequestsSound
    <2>4. Targets(k)' = {None} /\ Busy(k)' # {}
      BY <1>a, <1>b, <1>5, <2>3 DEF Targets, Live
    <2>5. Live(request[p].block) = None
      BY <1>b, <2>3
    <2>6. {Live(entries[k])', Live(rows[k])'} \subseteq {Live(entries[k]), Live(rows[k]), None}
      BY DEF Live
    <2> QED BY <1>5, <2>2, <2>4, <2>5, <2>6, GoOnKey
  <1> QED BY <1>2, <1>3, <1>4, <1>5

LEMMA AskingMoves ==
  ASSUME IInv, NEW r \in Requests, NEW k \in Keys,
         (\E k0 \in Keys : Lift(r, k0)) \/ (\E u \in Users : Clear(r, u)) \/ (\E c \in Channels : Drop(r, c))
  PROVE  KeyMoves(k)
  <1>1. ASSUME NEW k0 \in Keys, Lift(r, k0) PROVE KeyMoves(k)
    <2>1. /\ Asks(r, "lift", {k0}, None) /\ clashed' = clashed \cup Clashes({k0}, "lift") /\ UNCHANGED <<rows, ended>>
          /\ entries' = Forgotten({k0})
      BY <1>1 DEF Lift
    <2>2. entries'[k] = IF "lift" # "drop" /\ k \in {k0} THEN None ELSE entries[k]
      BY <2>1 DEF Forgotten
    <2> QED BY <2>1, <2>2, RemovalMoves
  <1>2. ASSUME NEW u \in Users, Clear(r, u) PROVE KeyMoves(k)
    <2> DEFINE ks == {x \in Keys : x[2] = u}
    <2>1. /\ Asks(r, "clear", ks, None) /\ clashed' = clashed \cup Clashes(ks, "clear") /\ UNCHANGED <<rows, ended>>
          /\ entries' = Forgotten(ks)
      BY <1>2 DEF Clear
    <2>2. entries'[k] = IF "clear" # "drop" /\ k \in ks THEN None ELSE entries[k]
      BY <2>1 DEF Forgotten
    <2> HIDE DEF ks
    <2> QED BY <2>1, <2>2, RemovalMoves
  <1>3. ASSUME NEW c \in Channels, Drop(r, c) PROVE KeyMoves(k)
    <2> DEFINE ks == {x \in Keys : x[1] = c}
    <2>1. /\ Asks(r, "drop", ks, None) /\ clashed' = clashed \cup Clashes(ks, "drop") /\ UNCHANGED <<entries, rows, ended>>
      BY <1>3 DEF Drop
    <2> HIDE DEF ks
    <2> QED BY <2>1, RemovalMoves
  <1> QED BY <1>1, <1>2, <1>3

LEMMA RunMoves ==
  ASSUME IInv, NEW r \in Requests, Run(r) \/ Fail(r), NEW k \in Keys
  PROVE  KeyMoves(k)
  <1>1. /\ TypeOK /\ request[r].st = "sent" /\ request[r] # Idle /\ UNCHANGED <<entries, ended, clashed>>
        /\ \E st \in {"done", "failed"} : request' = [request EXCEPT ![r].st = st]
    BY DEF Run, Fail, IInv, Idle
  <1>2. /\ Busy(k)' = Busy(k) /\ request'[r].block = request[r].block
        /\ \A p \in Requests \ {r} : request'[p] = request[p]
    BY <1>1, StateChanges
  <1>3. \A p \in Busy(k) : request'[p].block = request[p].block
    BY <1>2 DEF Busy
  <1>4. CASE k \in clashed \/ rows'[k] = rows[k]
    BY <1>1, <1>2, <1>3, <1>4, SameKey DEF Live
  <1>5. CASE k \notin clashed /\ rows'[k] # rows[k]
    <2>1. r \in Busy(k) /\ rows'[k] = request[r].block
      BY <1>5 DEF Run, Fail, Busy, Removed, IInv, TypeOK, RequestsSound
    <2> DEFINE v == Live(request[r].block)
    <2>2. Targets(k) = {v} /\ Targets(k)' = Targets(k) /\ Busy(k)' # {}
      BY <1>1, <1>2, <1>3, <1>5, <2>1, TargetsOf DEF Targets, Live
    <2>3. Live(rows[k])' = v /\ Live(entries[k])' = Live(entries[k])
      BY <1>1, <2>1 DEF Live
    <2> HIDE DEF v
    <2>4. Live(request[r].block) = v
      BY DEF v
    <2> QED BY <1>1, <1>5, <2>1, <2>2, <2>3, <2>4, GoOnKey
  <1> QED BY <1>4, <1>5

LEMMA DoneMoves ==
  ASSUME IInv, NEW r \in Requests, InForce(r) \/ RemovalDone(r) \/ Refused(r), NEW k \in Keys
  PROVE  KeyMoves(k)
  <1>1. /\ TypeOK /\ request' = [request EXCEPT ![r] = Idle] /\ UNCHANGED <<rows, ended, clashed>>
    BY DEF InForce, RemovalDone, Refused, IInv
  <1>2. /\ Busy(k)' = Busy(k) \ {r} /\ \A p \in Requests \ {r} : request'[p] = request[p]
        /\ r \in Busy(k) <=> k \in request[r].keys
    BY <1>1, IdleAfter
  <1>3. CASE k \in clashed
    BY <1>1, <1>3, SameKey
  <1>4. CASE k \notin clashed /\ r \notin Busy(k)
    <2>1. entries'[k] = entries[k]
      BY <1>2, <1>4 DEF InForce, RemovalDone, Refused, Forgotten, IInv, TypeOK
    <2>2. Busy(k)' = Busy(k) /\ \A p \in Busy(k) : request'[p].block = request[p].block
      BY <1>2, <1>4 DEF Busy
    <2> QED BY <1>1, <1>4, <2>1, <2>2, SameKey DEF Live
  <1>5. CASE k \notin clashed /\ r \in Busy(k)
    <2> DEFINE v == Live(request[r].block)
    <2>1. Targets(k) = {v} /\ KeyOK(k) /\ RequestsSound
      BY <1>5, TargetsOf DEF IInv
    <2>2. Busy(k)' # {} => Targets(k)' = {v}
      <3> SUFFICES ASSUME Busy(k)' # {} PROVE Targets(k)' = {v}
        OBVIOUS
      <3>1. \A p \in Busy(k)' : p \in Busy(k) /\ Live(request[p].block)' = Live(request[p].block)
        BY <1>1, <1>2 DEF Busy, Live
      <3>2. \A p \in Busy(k)' : Live(request[p].block)' = v
        BY <2>1, <3>1 DEF Targets
      <3> HIDE DEF v
      <3> QED BY <3>2 DEF Targets
    <2>3. Live(rows[k])' = Live(rows[k])
      BY <1>1 DEF Live
    <2>4. Live(entries[k])' \in {Live(entries[k]), v}
      <3>1. entries'[k] \in {entries[k], request[r].block}
        BY <1>2, <1>5, <2>1 DEF InForce, RemovalDone, Refused, Forgotten, RequestsSound
      <3> QED BY <1>1, <3>1 DEF Live
    <2> HIDE DEF v
    <2>5. Live(request[r].block) = v
      BY DEF v
    <2> QED BY <1>1, <1>5, <2>2, <2>3, <2>4, <2>5, GoOnKey
  <1> QED BY <1>3, <1>4, <1>5

LEMMA ForgetMoves ==
  ASSUME IInv, NEW k0 \in Keys, NEW k \in Keys, UNCHANGED <<ended, request>>,
         \/ UNCHANGED <<entries, rows, clashed>>
         \/ UNCHANGED <<entries, clashed>> /\ k0 \in sweeping /\ rows' \in {rows, Removed({k0})}
         \/ /\ Expired(k0) /\ entries' = Forgotten({k0}) /\ UNCHANGED rows /\ clashed' = clashed \cup ClashesOfSweep({k0})
  PROVE  KeyMoves(k)
  <1>1. clashed \subseteq clashed' /\ Busy(k)' = Busy(k) /\ \A p \in Busy(k) : request'[p].block = request[p].block
    BY DEF Busy
  <1>2. CASE k \in clashed'
    BY <1>1, <1>2, ClashedKey
  <1>3. CASE k \notin clashed'
    <2>1. k \in sweeping => rows[k] \in ended \cup {None}
      BY <1>1, <1>3 DEF IInv, KeyOK
    <2>2. Live(entries[k])' = Live(entries[k]) /\ Live(rows[k])' = Live(rows[k])
      BY <2>1 DEF Live, Expired, Forgotten, Removed
    <2> QED BY <1>1, <1>3, <2>2, SameKey
  <1> QED BY <1>2, <1>3

\* Time runs out for a block wherever it stands.
LEMMA TimeOverIsOver ==
  ASSUME IInv, NEW b \in Blocks, TimeOver(b)
  PROVE  Book!Over
  <1>1. TypeOK /\ ended' = ended \cup {b} /\ UNCHANGED <<entries, rows, request, clashed>>
    BY DEF TimeOver, IInv
  <1>2. b # None /\ b # Unsure /\ b # Nobody
    BY NoneIsNothing, UnsureIsNothing
  <1>3. \A v : Live(v)' = Book!Without({b}, Live(v))
    BY <1>1, <1>2 DEF Live, Book!Without
  <1>4. Book!Without({b}, Unsure) = Unsure /\ Book!Without({b}, Nobody) = Nobody
    BY <1>2 DEF Book!Without
  <1>5. ASSUME NEW k \in Keys
        PROVE  /\ Bk(k)' = Book!Without({b}, Bk(k))
               /\ My(k)' = {Book!Without({b}, v) : v \in My(k)}
               /\ As(k)' = Book!Without({b}, As(k))
    <2>1. Busy(k)' = Busy(k) /\ \A r \in Busy(k) : request'[r] = request[r]
      BY <1>1 DEF Busy
    <2>2. CASE k \in clashed
      BY <1>1, <1>4, <2>2 DEF Bk, My, As
    <2>3. CASE k \notin clashed /\ Busy(k) = {}
      <3>1. Bk(k) = Live(entries[k]) /\ My(k) = {Live(entries[k]), Live(rows[k])} /\ As(k) = Nobody
        BY <2>3, QuietKey
      <3>2. Bk(k)' = Live(entries[k])' /\ My(k)' = {Live(entries[k])', Live(rows[k])'} /\ As(k)' = Nobody
        BY <1>1, <2>1, <2>3, QuietKeyLater
      <3>3. Live(entries[k])' = Book!Without({b}, Live(entries[k])) /\ Live(rows[k])' = Book!Without({b}, Live(rows[k]))
        BY <1>1, <1>3 DEF Live
      <3> QED BY <1>4, <3>1, <3>2, <3>3
    <2>4. CASE k \notin clashed /\ Busy(k) # {}
      <3>1. PICK r \in Busy(k) : TRUE
        BY <2>4
      <3> DEFINE v == Live(request[r].block)
                 w == Book!Without({b}, v)
      <3>2. Targets(k) = {v}
        BY <2>4, TargetsOf
      <3>3. Bk(k) = Live(entries[k]) /\ My(k) = {Live(entries[k]), Live(rows[k]), v} /\ As(k) = v
        BY <2>4, <3>2, BusyKey
      <3>4. Targets(k)' = {w}
        <4>1. \A p \in Busy(k) : Live(request[p].block) = v
          BY <3>2 DEF Targets
        <4>2. \A p \in Busy(k) : Live(request[p].block)' = w
          BY <1>3, <2>1, <4>1 DEF Live
        <4> HIDE DEF w
        <4> QED BY <2>1, <2>4, <4>2 DEF Targets
      <3>5. Bk(k)' = Live(entries[k])' /\ My(k)' = {Live(entries[k])', Live(rows[k])', w} /\ As(k)' = w
        BY <1>1, <2>1, <2>4, <3>4, BusyKeyLater
      <3>6. Live(entries[k])' = Book!Without({b}, Live(entries[k])) /\ Live(rows[k])' = Book!Without({b}, Live(rows[k]))
        BY <1>1, <1>3 DEF Live
      <3> HIDE DEF v
      <3> QED BY <3>3, <3>5, <3>6
    <2> QED BY <2>2, <2>3, <2>4
  <1> DEFINE book == [k \in Keys |-> Bk(k)]
             may == [k \in Keys |-> My(k)]
             asked == [k \in Keys |-> As(k)]
  <1>6. book' = [k \in Keys |-> Book!Without({b}, book[k])]
    BY <1>5
  <1>7. may' = [k \in Keys |-> {Book!Without({b}, v) : v \in may[k]}]
    BY <1>5
  <1>8. asked' = [k \in Keys |-> Book!Without({b}, asked[k])]
    BY <1>5
  <1>9. {b} \in SUBSET Blocks
    OBVIOUS
  <1> QED BY <1>6, <1>7, <1>8, <1>9 DEF Book!Over, Bk, My, As

LEMMA RestartIsCrash ==
  ASSUME IInv, Restart
  PROVE  Book!Crash
  <1>1. ASSUME NEW k \in Keys
        PROVE  /\ Bk(k)' \in Values /\ (Unsure \in My(k) \/ Bk(k)' \in My(k))
               /\ My(k)' = {Bk(k)'} /\ As(k)' = Nobody
    <2>1. TypeOK /\ rows[k] \in Values
      BY DEF IInv, TypeOK
    <2>2. k \notin clashed' /\ Busy(k)' = {} /\ ended' = ended /\ entries'[k] = Live(rows[k]) /\ rows'[k] = Live(rows[k])
      BY DEF Restart, Busy, Idle
    <2>3. Live(entries[k])' = Live(rows[k]) /\ Live(rows[k])' = Live(rows[k]) /\ Live(rows[k]) \in Values
      BY <2>1, <2>2, LiveOfValue DEF Live
    <2>4. Bk(k)' = Live(rows[k]) /\ My(k)' = {Live(rows[k])} /\ As(k)' = Nobody
      BY <2>2, <2>3, QuietKeyLater
    <2>5. Unsure \in My(k) \/ Live(rows[k]) \in My(k)
      BY DEF My
    <2> QED BY <2>3, <2>4, <2>5
  <1> QED BY <1>1 DEF Book!Crash, Book!Values, Values, Bk, My, As

LEMMA NextIsOfTheBook ==
  ASSUME IInv, [Next]_vars
  PROVE  Book!Next
  <1>1. CASE Restart
    BY <1>1, RestartIsCrash DEF Book!Next
  <1>2. ASSUME NEW b \in Blocks, TimeOver(b) PROVE Book!Next
    BY <1>2, TimeOverIsOver DEF Book!Next
  <1>3. CASE \A k \in Keys : KeyMoves(k)
    BY <1>3 DEF Book!Next, Book!Change, KeyMoves
  <1>4. ASSUME NEW r \in Requests, NEW k0 \in Keys, Lift(r, k0) \/ \E b \in Blocks : Set(r, k0, b)
        PROVE  \A k \in Keys : KeyMoves(k)
    BY <1>4, AskingMoves, SetMoves
  <1>5. ASSUME NEW r \in Requests, (\E u \in Users : Clear(r, u)) \/ (\E c \in Channels : Drop(r, c))
        PROVE  \A k \in Keys : KeyMoves(k)
    BY <1>5, AskingMoves
  <1>6. ASSUME NEW r \in Requests, Run(r) \/ Fail(r) \/ SetDone(r) \/ VoteInForce(r) \/ RemovalDone(r) \/ Refused(r)
        PROVE  \A k \in Keys : KeyMoves(k)
    BY <1>6, RunMoves, DoneMoves DEF SetDone, VoteInForce
  <1>7. ASSUME NEW k0 \in Keys, Ask(k0) \/ Sweep(k0) PROVE \A k \in Keys : KeyMoves(k)
    <2>1. UNCHANGED <<ended, request>>
      BY <1>7 DEF Ask, Sweep
    <2>2. \/ UNCHANGED <<entries, clashed>> /\ k0 \in sweeping /\ rows' \in {rows, Removed({k0})}
          \/ /\ Expired(k0) /\ entries' = Forgotten({k0}) /\ UNCHANGED rows /\ clashed' = clashed \cup ClashesOfSweep({k0})
      BY <1>7 DEF Ask, Sweep
    <2> QED BY <2>1, <2>2, ForgetMoves
  <1>8. ASSUME NEW u \in Users, NEW c \in Channels, JoinChecked(u, c) PROVE \A k \in Keys : KeyMoves(k)
    <2>1. <<c, u>> \in Keys /\ UNCHANGED <<ended, request>>
      BY <1>8 DEF JoinChecked, Keys
    <2>2. \/ UNCHANGED <<entries, rows, clashed>>
          \/ UNCHANGED <<entries, rows>> /\ clashed' = clashed \cup ClashesOfSweep({<<c, u>>}) /\ ~Expired(<<c, u>>)
          \/ /\ Expired(<<c, u>>) /\ entries' = Forgotten({<<c, u>>}) /\ UNCHANGED rows
             /\ clashed' = clashed \cup ClashesOfSweep({<<c, u>>})
      BY <1>8 DEF JoinChecked
    <2>3. ~Expired(<<c, u>>) => ClashesOfSweep({<<c, u>>}) = {}
      BY DEF ClashesOfSweep
    <2> QED BY <2>1, <2>2, <2>3, ForgetMoves
  <1>9. ASSUME NEW u \in Users, SeatStep(u) PROVE \A k \in Keys : KeyMoves(k)
    <2>1. UNCHANGED <<entries, rows, clashed, ended, request>>
      BY <1>9, SeatStepIsVoice
    <2> QED BY <2>1, ForgetMoves
  <1>10. CASE UNCHANGED vars
    <2>1. UNCHANGED <<entries, rows, clashed, ended, request>>
      BY <1>10 DEF vars
    <2>2. \A k \in Keys : KeyMoves(k)
      BY <2>1, ForgetMoves
    <2> QED BY <1>3, <2>2
  <1> QED BY <1>1, <1>2, <1>3, <1>4, <1>5, <1>6, <1>7, <1>8, <1>9, <1>10 DEF Next, SeatStep

LEMMA InitIsOfTheBook == Init => Book!Init
  <1> SUFFICES ASSUME Init PROVE Book!Init
    OBVIOUS
  <1>1. ASSUME NEW k \in Keys PROVE Bk(k) = None /\ My(k) = {None} /\ As(k) = Nobody
    <2>1. Busy(k) = {} /\ k \notin clashed /\ Live(entries[k]) = None /\ Live(rows[k]) = None
      BY DEF Init, Busy, Idle, Live
    <2> QED BY <2>1, QuietKey
  <1> QED BY <1>1 DEF Book!Init, Bk, My, As

\* The map in memory, the table and the statements between them keep the promises of BlockBook.
THEOREM ImplementsTheBook == Spec => KeepsTheBook
  <1>1. IInv /\ [Next]_vars => Book!Next
    BY NextIsOfTheBook
  <1> QED BY InitIsOfTheBook, <1>1, SpecIInv, PTL DEF Spec, KeepsTheBook, Book!Spec
===============================================================================
