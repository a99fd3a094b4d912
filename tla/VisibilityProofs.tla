--------------------------- MODULE VisibilityProofs ---------------------------
(***************************************************************************)
(* Proofs about Visibility, for any number of tables, writers, callers,    *)
(* users and seats.  The strengthening says of every snapshot that exists  *)
(* (the cached one, the one being loaded, the one a resumed await carries, *)
(* the one masks were computed from): its version is not ahead, it is not  *)
(* ahead of the database, and if its version is the current one, it is not *)
(* behind the last invalidation.                                           *)
(***************************************************************************)
EXTENDS Visibility, TLAPS

\* A snapshot that was started at a version holds what that version stands for.
Sound(v, s) ==
  /\ v <= version
  /\ v = version => AtLeast(s, base)
  /\ AtLeast(db, s)

CtxSound == ctx # None => Sound(ctx.version, ctx.snap)

LoadSound ==
  loading # None =>
    /\ loading.version <= version
    /\ AtLeast(db, loading.snap)
    /\ loading.version = version => \A t \in loading.read : loading.snap[t] >= base[t]

GotSound == \A k \in Callers : at[k] = "resolved" => got[k] # None /\ Sound(got[k].version, got[k].snap)

SinceSound ==
  /\ AtLeast(db, base)
  /\ \A k \in Callers : at[k] # "idle" => AtLeast(base, since[k])

MasksSound ==
  \A u \in Users : masks[u] # None => ctx # None /\ Sound(masks[u].version, masks[u].snap)

\* What a caller that left refresh() can be handed, whether from the snapshot or from cached masks.
ReturnedSound ==
  \A k \in Callers : at[k] = "returned" =>
    /\ ctx # None /\ AtLeast(ctx.snap, since[k])
    /\ \A u \in Users : masks[u] # None /\ masks[u].version = ctx.version
                          => AtLeast(masks[u].snap, since[k])

AnnouncedSound ==
  \A t \in Tables : db[t] # base[t] => \E w \in Writers : t \in pending[w]

IInv ==
  /\ TypeOK /\ CtxSound /\ LoadSound /\ GotSound /\ SinceSound
  /\ MasksSound /\ ReturnedSound /\ AnnouncedSound

\* At-least-as-new is transitive.
LEMMA AtLeastTransitive ==
  ASSUME NEW r \in Snapshot, NEW s \in Snapshot, NEW q \in Snapshot, AtLeast(r, s), AtLeast(s, q)
  PROVE  AtLeast(r, q)
<1> SUFFICES ASSUME NEW t \in Tables PROVE r[t] >= q[t]
  BY DEF AtLeast
<1>1. r[t] >= s[t] /\ s[t] >= q[t] /\ r[t] \in Nat /\ s[t] \in Nat /\ q[t] \in Nat
  BY DEF AtLeast, Snapshot
<1> QED BY <1>1

\* Every parked snapshot is fine in the initial state: there is none.
LEMMA InitSound == Init => IInv
BY BoundsAreNaturals DEF Init, IInv, TypeOK, CtxSound, LoadSound, GotSound, SinceSound, MasksSound,
   ReturnedSound, AnnouncedSound, Sound, AtLeast, Snapshot

\* The database only grows, and the writer remembers what it has to announce.
LEMMA WriteKeeps ==
  ASSUME IInv, NEW w \in Writers, NEW t \in Tables, Write(w, t)
  PROVE  IInv'
<1>1. TypeOK'
  BY NoneIsNoRecord DEF IInv, TypeOK, Sound, AtLeast,
     Snapshot, Context, Load, Masks, Write
<1>2. CtxSound'
  BY NoneIsNoRecord DEF IInv, TypeOK, CtxSound, Sound, AtLeast,
     Snapshot, Context, Load, Masks, Write
<1>3. LoadSound'
  BY NoneIsNoRecord DEF IInv, TypeOK, LoadSound, Sound, AtLeast,
     Snapshot, Context, Load, Masks, Write
<1>4. GotSound'
  BY NoneIsNoRecord DEF IInv, TypeOK, GotSound, Sound, AtLeast,
     Snapshot, Context, Load, Masks, Write
<1>5. SinceSound'
  BY NoneIsNoRecord DEF IInv, TypeOK, SinceSound, Sound, AtLeast,
     Snapshot, Context, Load, Masks, Write
<1>6. MasksSound'
  BY NoneIsNoRecord DEF IInv, TypeOK, MasksSound, Sound, AtLeast,
     Snapshot, Context, Load, Masks, Write
<1>7. ReturnedSound'
  BY NoneIsNoRecord DEF IInv, TypeOK, ReturnedSound, Sound, AtLeast,
     Snapshot, Context, Load, Masks, Write
<1>8. AnnouncedSound'
  BY NoneIsNoRecord DEF IInv, TypeOK, AnnouncedSound, Sound, AtLeast,
     Snapshot, Context, Load, Masks, Write
<1> QED BY <1>1, <1>2, <1>3, <1>4, <1>5, <1>6, <1>7, <1>8 DEF IInv

\* A new version: no snapshot has it yet, so none owes anything to the new base.
LEMMA InvalidateKeeps ==
  ASSUME IInv, NEW w \in Writers, Invalidate(w)
  PROVE  IInv'
<1>1. TypeOK'
  BY NoneIsNoRecord DEF IInv, TypeOK, Sound, AtLeast,
     Snapshot, Context, Load, Masks, Invalidate
<1>2. CtxSound'
  BY NoneIsNoRecord DEF IInv, TypeOK, CtxSound, Sound, AtLeast,
     Snapshot, Context, Load, Masks, Invalidate
<1>3. LoadSound'
  BY NoneIsNoRecord DEF IInv, TypeOK, LoadSound, Sound, AtLeast,
     Snapshot, Context, Load, Masks, Invalidate
<1>4. GotSound'
  BY NoneIsNoRecord DEF IInv, TypeOK, GotSound, Sound, AtLeast,
     Snapshot, Context, Load, Masks, Invalidate
<1>5. SinceSound'
  BY NoneIsNoRecord DEF IInv, TypeOK, SinceSound, Sound, AtLeast,
     Snapshot, Context, Load, Masks, Invalidate
<1>6. MasksSound'
  BY NoneIsNoRecord DEF IInv, TypeOK, MasksSound, Sound, AtLeast,
     Snapshot, Context, Load, Masks, Invalidate
<1>7. ReturnedSound'
  BY NoneIsNoRecord DEF IInv, TypeOK, ReturnedSound, Sound, AtLeast,
     Snapshot, Context, Load, Masks, Invalidate
<1>8. AnnouncedSound'
  BY NoneIsNoRecord DEF IInv, TypeOK, AnnouncedSound, Sound, AtLeast,
     Snapshot, Context, Load, Masks, Invalidate
<1> QED BY <1>1, <1>2, <1>3, <1>4, <1>5, <1>6, <1>7, <1>8 DEF IInv

\* A caller that leaves at once leaves with a current snapshot, another one finds or starts a load.
LEMMA CallRefreshKeeps ==
  ASSUME IInv, NEW k \in Callers, NEW u \in Users, CallRefresh(k, u)
  PROVE  IInv'
<1>1. NewLoad \in Load /\ NewLoad # None
  BY NoneIsNoRecord DEF IInv, TypeOK, NewLoad, Load, Snapshot
<1>11. TypeOK'
  BY <1>1 DEF IInv, TypeOK, Sound, AtLeast,
     Snapshot, Context, Load, Masks, CallRefresh, LoopPass, Current
<1>12. LoadSound'
  BY NoneIsNoRecord DEF IInv, TypeOK, LoadSound, NewLoad, Sound, AtLeast,
     Snapshot, Context, Load, Masks, CallRefresh, LoopPass, Current
<1>13. GotSound'
  BY NoneIsNoRecord DEF IInv, TypeOK, GotSound, Sound, AtLeast,
     Snapshot, Context, Load, Masks, CallRefresh, LoopPass, Current
<1>14. SinceSound'
  BY NoneIsNoRecord DEF IInv, TypeOK, SinceSound, Sound, AtLeast,
     Snapshot, Context, Load, Masks, CallRefresh, LoopPass, Current
<1>15. ReturnedSound'
  BY NoneIsNoRecord DEF IInv, TypeOK, ReturnedSound, MasksSound, CtxSound, Sound, AtLeast,
     Snapshot, Context, Load, Masks, CallRefresh, LoopPass, Current
<1>16. CtxSound' /\ MasksSound' /\ AnnouncedSound'
  BY DEF IInv, CtxSound, MasksSound, AnnouncedSound, Sound, AtLeast, CallRefresh
<1> QED BY <1>11, <1>12, <1>13, <1>14, <1>15, <1>16 DEF IInv

\* A table is read as it is now, so it is neither ahead of the database nor behind the base.
LEMMA ReadTableKeeps ==
  ASSUME IInv, NEW t \in Tables, ReadTable(t)
  PROVE  IInv'
<1>1. TypeOK'
  BY NoneIsNoRecord DEF IInv, TypeOK, Sound, AtLeast,
     Snapshot, Context, Load, Masks, ReadTable
<1>2. LoadSound'
  <2>1. loading \in Load /\ loading # None
    BY DEF IInv, TypeOK, ReadTable
  <2>2. /\ loading'.version = loading.version /\ loading'.read = loading.read \cup {t}
        /\ loading'.snap = [loading.snap EXCEPT ![t] = db[t]]
    BY <2>1 DEF ReadTable, Load
  <2>3. \A s \in Tables : loading'.snap[s] = IF s = t THEN db[t] ELSE loading.snap[s]
    BY <2>1, <2>2 DEF Load, Snapshot
  <2>4. version' = version /\ db' = db /\ base' = base
    BY DEF ReadTable
  <2> QED
    BY <2>1, <2>2, <2>3, <2>4 DEF IInv, TypeOK, LoadSound, SinceSound, AtLeast, Snapshot, Load
<1>3. CtxSound' /\ GotSound' /\ SinceSound' /\ MasksSound' /\ ReturnedSound' /\ AnnouncedSound'
  BY DEF IInv, CtxSound, GotSound, SinceSound, MasksSound, ReturnedSound, AnnouncedSound, Sound, AtLeast, ReadTable
<1> QED BY <1>1, <1>2, <1>3 DEF IInv

\* All tables are read: what held of the tables read holds of the snapshot.
LEMMA FinishLoadKeeps ==
  ASSUME IInv, FinishLoad
  PROVE  IInv'
<1>1. TypeOK'
  BY NoneIsNoRecord DEF IInv, TypeOK, Sound, AtLeast,
     Snapshot, Context, Load, Masks, FinishLoad
<1>2. LoadSound'
  BY NoneIsNoRecord DEF IInv, TypeOK, LoadSound, Sound, AtLeast,
     Snapshot, Context, Load, Masks, FinishLoad
<1>3. GotSound'
  <2>1. loading \in Load /\ loading # None /\ loading.read = Tables
    BY DEF IInv, TypeOK, FinishLoad
  <2>2. Sound(loading.version, loading.snap)
    BY <2>1 DEF IInv, LoadSound, Sound, AtLeast
  <2>3. [version |-> loading.version, snap |-> loading.snap] \in Context
    BY <2>1 DEF Load, Context
  <2>4. version' = version /\ db' = db /\ base' = base
    BY DEF FinishLoad
  <2>5. ASSUME NEW k \in Callers, at'[k] = "resolved"
        PROVE  got'[k] = [version |-> loading.version, snap |-> loading.snap]
    BY <2>5 DEF FinishLoad, NothingDue, IInv, TypeOK
  <2> QED
    BY <2>2, <2>3, <2>4, <2>5, NoneIsNoRecord DEF GotSound, Sound, AtLeast
<1>4. SinceSound'
  BY NoneIsNoRecord DEF IInv, TypeOK, SinceSound, Sound, AtLeast,
     Snapshot, Context, Load, Masks, FinishLoad
<1>5. ReturnedSound'
  BY NoneIsNoRecord DEF IInv, TypeOK, ReturnedSound, Sound, AtLeast,
     Snapshot, Context, Load, Masks, FinishLoad
<1>6. CtxSound' /\ MasksSound' /\ AnnouncedSound'
  BY DEF IInv, CtxSound, MasksSound, AnnouncedSound, Sound, AtLeast, FinishLoad
<1> QED BY <1>1, <1>2, <1>3, <1>4, <1>5, <1>6 DEF IInv

\* A failed load leaves nothing behind.
LEMMA FailLoadKeeps ==
  ASSUME IInv, FailLoad
  PROVE  IInv'
<1>1. TypeOK'
  BY NoneIsNoRecord DEF IInv, TypeOK, Sound, AtLeast,
     Snapshot, Context, Load, Masks, FailLoad
<1>2. LoadSound'
  BY NoneIsNoRecord DEF IInv, TypeOK, LoadSound, Sound, AtLeast,
     Snapshot, Context, Load, Masks, FailLoad
<1>3. GotSound'
  BY NoneIsNoRecord DEF IInv, TypeOK, GotSound, Sound, AtLeast,
     Snapshot, Context, Load, Masks, FailLoad
<1>4. SinceSound'
  BY NoneIsNoRecord DEF IInv, TypeOK, SinceSound, Sound, AtLeast,
     Snapshot, Context, Load, Masks, FailLoad
<1>5. ReturnedSound'
  BY NoneIsNoRecord DEF IInv, TypeOK, ReturnedSound, Sound, AtLeast,
     Snapshot, Context, Load, Masks, FailLoad
<1>6. CtxSound' /\ MasksSound' /\ AnnouncedSound'
  BY DEF IInv, CtxSound, MasksSound, AnnouncedSound, Sound, AtLeast, FailLoad
<1> QED BY <1>1, <1>2, <1>3, <1>4, <1>5, <1>6 DEF IInv

\* The loop takes what it got only if it is current; otherwise it goes round again.
LEMMA ResumeRefreshKeeps ==
  ASSUME IInv, NEW k \in Callers, ResumeRefresh(k)
  PROVE  IInv'
<1>1. NewLoad \in Load /\ NewLoad # None
  BY NoneIsNoRecord DEF IInv, TypeOK, NewLoad, Load, Snapshot
<1>2. got[k] \in Context /\ got[k] # None /\ Sound(got[k].version, got[k].snap)
  BY DEF IInv, TypeOK, GotSound, ResumeRefresh
<1>3. ctx' = IF got[k].version = version THEN got[k] ELSE ctx
  BY DEF ResumeRefresh
<1>4. LoopPass(k, ctx')
  BY DEF ResumeRefresh
<1>5. /\ got' = [got EXCEPT ![k] = None]
      /\ version' = version /\ db' = db /\ base' = base /\ pending' = pending
      /\ since' = since /\ who' = who /\ seat' = seat /\ masks' = masks
  BY DEF ResumeRefresh
<1>6. ctx' \in Context \cup {None}
  BY <1>2, <1>3 DEF IInv, TypeOK
<1>7. ctx' # ctx => ctx' # None /\ ctx'.version = version /\ AtLeast(ctx'.snap, base)
  BY <1>2, <1>3 DEF Sound
<1>8. at' = [at EXCEPT ![k] = IF Current(ctx') THEN "returned" ELSE "await"]
  BY <1>4 DEF LoopPass
<1>9. loading' = loading \/ (loading = None /\ loading' = NewLoad)
  BY <1>4 DEF LoopPass
<1>10. TypeOK'
  BY <1>1, <1>5, <1>6, <1>8, <1>9 DEF IInv, TypeOK
<1>11. CtxSound'
  BY <1>2, <1>3, <1>5 DEF IInv, CtxSound, Sound, AtLeast
<1>12. LoadSound'
  <2>1. CASE loading' = loading
    BY <2>1, <1>5 DEF IInv, LoadSound, AtLeast
  <2>2. CASE loading' = NewLoad
    BY <2>2, <1>5 DEF IInv, TypeOK, LoadSound, AtLeast, NewLoad, Snapshot
  <2> QED BY <1>9, <2>1, <2>2
<1>13. GotSound'
  BY <1>5, <1>8 DEF IInv, TypeOK, GotSound, Sound, AtLeast
<1>14. SinceSound'
  BY <1>2, <1>5, <1>8 DEF IInv, TypeOK, SinceSound, AtLeast, ResumeRefresh
<1>15. MasksSound'
  BY <1>5, <1>7 DEF IInv, MasksSound, Sound, AtLeast
<1>16. ReturnedSound'
  <2> SUFFICES ASSUME NEW j \in Callers, at'[j] = "returned"
               PROVE  /\ ctx' # None /\ AtLeast(ctx'.snap, since[j])
                      /\ \A u \in Users : masks[u] # None /\ masks[u].version = ctx'.version
                                            => AtLeast(masks[u].snap, since[j])
    BY <1>5 DEF ReturnedSound
  <2>1. AtLeast(base, since[j])
    BY <1>8 DEF IInv, TypeOK, SinceSound, ResumeRefresh
  <2>2. CASE Current(ctx')
    <3>1. ctx' # None /\ ctx'.version = version /\ Sound(ctx'.version, ctx'.snap)
      BY <2>2, <1>5, <1>11 DEF Current, CtxSound, Sound, AtLeast
    <3>2. AtLeast(ctx'.snap, base)
      BY <3>1 DEF Sound
    <3>3. \A u \in Users : masks[u] # None /\ masks[u].version = version => AtLeast(masks[u].snap, base)
      BY DEF IInv, MasksSound, Sound
    <3>4. base \in Snapshot /\ since[j] \in Snapshot /\ ctx'.snap \in Snapshot
      BY <1>6, <3>1 DEF IInv, TypeOK, Context
    <3>5. \A u \in Users : masks[u] # None => masks[u].snap \in Snapshot
      BY DEF IInv, TypeOK, Masks
    <3> QED BY <2>1, <3>1, <3>2, <3>3, <3>4, <3>5, AtLeastTransitive
  <2>3. CASE ~Current(ctx')
    <3>1. j # k /\ at[j] = "returned"
      BY <2>3, <1>8 DEF IInv, TypeOK
    <3>2. ctx' = ctx
      BY <2>3, <1>7 DEF Current
    <3> QED BY <3>1, <3>2 DEF IInv, ReturnedSound
  <2> QED BY <2>2, <2>3
<1>17. AnnouncedSound'
  BY <1>5 DEF IInv, AnnouncedSound
<1> QED BY <1>10, <1>11, <1>12, <1>13, <1>14, <1>15, <1>16, <1>17 DEF IInv

\* What masksOf() answers over a sound snapshot: masks of that version and of the seat of now, old
\* enough for nobody who has left refresh(), whether they were computed or came from the cache.
LEMMA MasksOfSound ==
  ASSUME IInv, ctx # None, NEW u \in Users
  PROVE  /\ MasksOf(u) \in Masks /\ MasksOf(u) # None
         /\ MasksOf(u).version = ctx.version /\ MasksOf(u).seat = seat[u]
         /\ Sound(MasksOf(u).version, MasksOf(u).snap)
         /\ \A k \in Callers : at[k] = "returned" => AtLeast(MasksOf(u).snap, since[k])
<1>1. CASE masks[u] # None /\ masks[u].version = ctx.version /\ masks[u].seat = seat[u]
  <2>1. MasksOf(u) = masks[u]
    BY <1>1 DEF MasksOf
  <2> QED BY <1>1, <2>1 DEF IInv, TypeOK, MasksSound, ReturnedSound
<1>2. CASE ~(masks[u] # None /\ masks[u].version = ctx.version /\ masks[u].seat = seat[u])
  <2>1. MasksOf(u) = [version |-> ctx.version, seat |-> seat[u], snap |-> ctx.snap]
    BY <1>2 DEF MasksOf
  <2>2. ctx \in Context /\ seat[u] \in Seats
    BY DEF IInv, TypeOK
  <2>3. MasksOf(u) \in Masks /\ MasksOf(u) # None
    BY <2>1, <2>2, NoneIsNoRecord DEF Context, Masks
  <2> QED BY <2>1, <2>2, <2>3 DEF IInv, CtxSound, ReturnedSound
<1> QED BY <1>1, <1>2

\* Masks are those of the snapshot, or were cached from one of the same version.
LEMMA DecideKeeps ==
  ASSUME IInv, NEW k \in Callers, Decide(k)
  PROVE  IInv'
<1> DEFINE u == who[k]
<1>1. u \in Users /\ ctx # None
  BY DEF IInv, TypeOK, ReturnedSound, Decide
<1>2. /\ at' = [at EXCEPT ![k] = "idle"] /\ masks' = [masks EXCEPT ![u] = MasksOf(u)]
      /\ UNCHANGED <<db, pending, version, base, ctx, loading, since, got, who, seat>>
  BY DEF Decide
<1>3. TypeOK'
  BY <1>1, <1>2, MasksOfSound DEF IInv, TypeOK
<1>4. CtxSound' /\ LoadSound' /\ AnnouncedSound'
  BY <1>2 DEF IInv, CtxSound, LoadSound, AnnouncedSound, Sound, AtLeast
<1>5. GotSound' /\ SinceSound'
  BY <1>2 DEF IInv, TypeOK, GotSound, SinceSound, Sound, AtLeast
<1>6. \A v \in Users : masks'[v] = IF v = u THEN MasksOf(u) ELSE masks[v]
  BY <1>2 DEF IInv, TypeOK
<1>7. MasksSound'
  BY <1>1, <1>2, <1>6, MasksOfSound DEF IInv, MasksSound, Sound, AtLeast
<1>8. \A j \in Callers : at'[j] = "returned" => at[j] = "returned"
  BY <1>2 DEF IInv, TypeOK
<1>9. ReturnedSound'
  BY <1>1, <1>2, <1>6, <1>8, MasksOfSound DEF IInv, ReturnedSound, AtLeast
<1> QED BY <1>3, <1>4, <1>5, <1>7, <1>9 DEF IInv

\* The same without a caller.
LEMMA FanOutKeeps ==
  ASSUME IInv, NEW u \in Users, FanOut(u)
  PROVE  IInv'
<1>1. /\ ctx # None /\ masks' = [masks EXCEPT ![u] = MasksOf(u)]
      /\ UNCHANGED <<db, pending, version, base, ctx, loading, at, since, got, who, seat>>
  BY DEF FanOut
<1>2. TypeOK'
  BY <1>1, MasksOfSound DEF IInv, TypeOK
<1>3. CtxSound' /\ LoadSound' /\ GotSound' /\ SinceSound' /\ AnnouncedSound'
  BY <1>1 DEF IInv, CtxSound, LoadSound, GotSound, SinceSound, AnnouncedSound, Sound, AtLeast
<1>4. \A v \in Users : masks'[v] = IF v = u THEN MasksOf(u) ELSE masks[v]
  BY <1>1 DEF IInv, TypeOK
<1>5. MasksSound' /\ ReturnedSound'
  BY <1>1, <1>4, MasksOfSound DEF IInv, MasksSound, ReturnedSound, Sound, AtLeast
<1> QED BY <1>2, <1>3, <1>5 DEF IInv

\* Forgetting masks is always sound.
LEMMA ForgetUserKeeps ==
  ASSUME IInv, NEW u \in Users, ForgetUser(u)
  PROVE  IInv'
<1>1. TypeOK'
  BY NoneIsNoRecord DEF IInv, TypeOK, Sound, AtLeast,
     Snapshot, Context, Load, Masks, ForgetUser
<1>2. MasksSound'
  BY NoneIsNoRecord DEF IInv, TypeOK, MasksSound, Sound, AtLeast,
     Snapshot, Context, Load, Masks, ForgetUser
<1>3. ReturnedSound'
  BY NoneIsNoRecord DEF IInv, TypeOK, ReturnedSound, Sound, AtLeast,
     Snapshot, Context, Load, Masks, ForgetUser
<1>4. CtxSound' /\ LoadSound' /\ GotSound' /\ SinceSound' /\ AnnouncedSound'
  BY DEF IInv, CtxSound, LoadSound, GotSound, SinceSound, AnnouncedSound, Sound, AtLeast, ForgetUser
<1> QED BY <1>1, <1>2, <1>3, <1>4 DEF IInv

\* Seats are not part of any snapshot.
LEMMA TakeSeatKeeps ==
  ASSUME IInv, NEW u \in Users, NEW s \in Seats, TakeSeat(u, s)
  PROVE  IInv'
<1>1. TypeOK'
  BY NoneIsNoRecord DEF IInv, TypeOK, Sound, AtLeast,
     Snapshot, Context, Load, Masks, TakeSeat
<1>2. CtxSound' /\ LoadSound' /\ GotSound' /\ SinceSound' /\ MasksSound' /\ ReturnedSound' /\ AnnouncedSound'
  BY DEF IInv, CtxSound, LoadSound, GotSound, SinceSound, MasksSound, ReturnedSound, AnnouncedSound, Sound, AtLeast, TakeSeat
<1> QED BY <1>1, <1>2 DEF IInv

-------------------------------------------------------------------------------
LEMMA StutterKeeps ==
  ASSUME IInv, UNCHANGED vars
  PROVE  IInv'
BY DEF IInv, TypeOK, CtxSound, LoadSound, GotSound, SinceSound, MasksSound, ReturnedSound, AnnouncedSound,
   Sound, AtLeast, vars

LEMMA StepKeeps == IInv /\ [Next]_vars => IInv'
BY WriteKeeps, InvalidateKeeps, CallRefreshKeeps, ReadTableKeeps, FinishLoadKeeps, FailLoadKeeps,
   ResumeRefreshKeeps, DecideKeeps, FanOutKeeps, ForgetUserKeeps, TakeSeatKeeps, StutterKeeps DEF Next

LEMMA SpecIInv == Spec => []IInv
BY InitSound, StepKeeps, PTL DEF Spec

\* Type correctness of Visibility's fields and of the callers of refresh().
THEOREM TypeCorrect == Spec => []TypeOK
<1>1. IInv => TypeOK
  BY DEF IInv
<1> QED BY <1>1, SpecIInv, PTL

\* A current snapshot is nowhere behind the last invalidate(), however its queries interleaved.
THEOREM SnapshotIsFresh == Spec => []FreshSnapshot
<1>1. IInv => FreshSnapshot
  BY DEF IInv, CtxSound, FreshSnapshot, Current, Sound
<1> QED BY <1>1, SpecIInv, PTL

\* Once every writer has broadcast its change, the current snapshot equals the database.
THEOREM SnapshotSettles == Spec => []SettledSnapshot
<1>1. IInv => SettledSnapshot
  <2> SUFFICES ASSUME IInv, Current(ctx), \A w \in Writers : pending[w] = {}
               PROVE  ctx.snap = db
    BY DEF SettledSnapshot
  <2>1. ctx \in Context /\ ctx.snap \in Snapshot /\ db \in Snapshot /\ base \in Snapshot
    BY DEF IInv, TypeOK, Current, Context
  <2>2. AtLeast(ctx.snap, base) /\ AtLeast(db, ctx.snap)
    BY DEF IInv, CtxSound, Current, Sound
  <2>3. \A t \in Tables : db[t] = base[t]
    BY DEF IInv, AnnouncedSound
  <2>4. \A t \in Tables : ctx.snap[t] = db[t]
    <3> TAKE t \in Tables
    <3>1. ctx.snap[t] \in Nat /\ db[t] \in Nat
      BY <2>1 DEF Snapshot
    <3>2. ctx.snap[t] >= base[t] /\ db[t] >= ctx.snap[t] /\ db[t] = base[t]
      BY <2>2, <2>3 DEF AtLeast
    <3> QED BY <3>1, <3>2
  <2> QED BY <2>1, <2>4 DEF Snapshot
<1> QED BY <1>1, SpecIInv, PTL

\* What a caller of refresh() decides by knows every change announced before it asked.
THEOREM DecisionsAreFresh == Spec => DecisionIsFresh
<1> DEFINE Fresh == \A k \in Callers :
                      at[k] = "returned" /\ at'[k] = "idle" =>
                        /\ AtLeast(masks'[who[k]].snap, since[k])
                        /\ masks'[who[k]].seat = seat[who[k]]
<1>1. IInv /\ [Next]_vars => [Fresh]_vars
  <2> SUFFICES ASSUME IInv, Next, NEW k \in Callers, at[k] = "returned", at'[k] = "idle"
               PROVE  /\ AtLeast(masks'[who[k]].snap, since[k])
                      /\ masks'[who[k]].seat = seat[who[k]]
    BY DEF vars
  <2>1. ctx # None /\ who[k] \in Users
    BY DEF IInv, TypeOK, ReturnedSound
  <2>2. Decide(k)
    BY DEF Next, IInv, TypeOK, Write, Invalidate, CallRefresh, LoopPass, ReadTable, FinishLoad, FailLoad,
       ResumeRefresh, Decide, FanOut, ForgetUser, TakeSeat
  <2>3. masks'[who[k]] = MasksOf(who[k])
    BY <2>1, <2>2 DEF Decide, IInv, TypeOK
  <2> QED BY <2>1, <2>3, MasksOfSound
<1> QED BY <1>1, SpecIInv, PTL DEF Spec, DecisionIsFresh

-------------------------------------------------------------------------------
(* Forward only.  What can replace the snapshot is a load that a caller    *)
(* carries.  Loads follow each other: a load that runs reads every table   *)
(* after the load before it has, and that one is all that anybody carries. *)

Resolved(k) == at[k] = "resolved"

\* A load under way has read nothing older than s says.
ReadsSince(s) == loading # None => \A t \in loading.read : loading.snap[t] >= s[t]

\* The cached snapshot is not ahead of a load under way, nor of one still carried for this version,
\* and no masks are ahead of it.
CtxInOrder ==
  ctx # None =>
    /\ ReadsSince(ctx.snap)
    /\ \A k \in Callers : Resolved(k) /\ got[k].version = version => AtLeast(got[k].snap, ctx.snap)
    /\ \A u \in Users : masks[u] # None => AtLeast(ctx.snap, masks[u].snap)

\* Those who resume carry the same load, and a load under way began after it.
CarriedInOrder ==
  \A k \in Callers : Resolved(k) =>
    /\ ReadsSince(got[k].snap)
    /\ \A j \in Callers : Resolved(j) => got[j] = got[k]

InOrder == CtxInOrder /\ CarriedInOrder

\* Nobody resumes and nothing is cached at first.
LEMMA InitInOrder == Init => InOrder
  BY DEF Init, InOrder, CtxInOrder, CarriedInOrder, Resolved

\* Steps that leave the snapshots, the load and those who carry one alone.
LEMMA AsideKeepsOrder ==
  ASSUME InOrder, IInv, UNCHANGED <<ctx, loading, got, masks>>, version <= version', version' \in Nat,
         \A k \in Callers : Resolved(k)' => Resolved(k)
  PROVE  InOrder'
  <1>1. CtxInOrder'
    BY DEF InOrder, CtxInOrder, ReadsSince, AtLeast, Resolved, IInv, GotSound, TypeOK, Sound, Context
  <1>2. CarriedInOrder'
    BY DEF InOrder, CarriedInOrder, ReadsSince, Resolved
  <1> QED BY <1>1, <1>2 DEF InOrder

\* The database is ahead of everything that was read before.
LEMMA ReadTableKeepsOrder ==
  ASSUME IInv, InOrder, NEW t \in Tables, ReadTable(t)
  PROVE  InOrder'
  <1>1. /\ loading \in Load /\ loading # None
        /\ loading'.read = loading.read \cup {t} /\ loading'.snap = [loading.snap EXCEPT ![t] = db[t]]
        /\ UNCHANGED <<db, version, ctx, at, got, masks>>
    <2>1. loading \in Load /\ loading # None
      BY DEF IInv, TypeOK, ReadTable
    <2>2. loading'.read = loading.read \cup {t} /\ loading'.snap = [loading.snap EXCEPT ![t] = db[t]]
      BY <2>1 DEF ReadTable, Load
    <2> QED BY <2>1, <2>2 DEF ReadTable
  <1>2. ASSUME NEW s, ReadsSince(s), AtLeast(db, s)
        PROVE  ReadsSince(s)'
    BY <1>1, <1>2 DEF ReadsSince, AtLeast, Load, Snapshot
  <1>3. CtxInOrder'
    <2>1. ctx # None => AtLeast(db, ctx.snap)
      BY DEF IInv, CtxSound, Sound
    <2> QED BY <1>1, <1>2, <2>1 DEF InOrder, CtxInOrder, Resolved, ReadsSince, AtLeast
  <1>4. CarriedInOrder'
    <2>1. \A k \in Callers : Resolved(k) => AtLeast(db, got[k].snap)
      BY DEF IInv, GotSound, Sound, Resolved
    <2> QED BY <1>1, <1>2, <2>1 DEF InOrder, CarriedInOrder, Resolved, ReadsSince
  <1> QED BY <1>3, <1>4 DEF InOrder

\* Whoever waited carries this load, and nobody carries another one.
LEMMA FinishLoadKeepsOrder ==
  ASSUME IInv, InOrder, FinishLoad
  PROVE  InOrder'
  <1> DEFINE carried == [version |-> loading.version, snap |-> loading.snap]
  <1>1. /\ loading # None /\ loading.read = Tables /\ loading' = None
        /\ UNCHANGED <<version, ctx, masks>>
    BY DEF FinishLoad
  <1>2. \A k \in Callers : Resolved(k)' => got'[k] = carried
    BY DEF FinishLoad, NothingDue, Resolved, IInv, TypeOK
  <1>3. ctx # None => AtLeast(loading.snap, ctx.snap)
    BY <1>1 DEF InOrder, CtxInOrder, ReadsSince, AtLeast
  <1>4. CtxInOrder'
    BY <1>1, <1>2, <1>3 DEF InOrder, CtxInOrder, ReadsSince, AtLeast
  <1>5. CarriedInOrder'
    BY <1>1, <1>2 DEF CarriedInOrder, ReadsSince
  <1> QED BY <1>4, <1>5 DEF InOrder

\* A failed load is no load.
LEMMA FailLoadKeepsOrder ==
  ASSUME IInv, InOrder, FailLoad
  PROVE  InOrder'
  <1>1. loading' = None /\ UNCHANGED <<version, ctx, got, masks>>
    BY DEF FailLoad
  <1>2. \A k \in Callers : Resolved(k)' => Resolved(k)
    BY DEF FailLoad, Resolved, IInv, TypeOK
  <1> QED BY <1>1, <1>2 DEF InOrder, CtxInOrder, CarriedInOrder, ReadsSince, AtLeast

\* Whoever comes may start the next load, beside those who carry the last one.
LEMMA CallRefreshKeepsOrder ==
  ASSUME IInv, InOrder, NEW k \in Callers, NEW u \in Users, CallRefresh(k, u)
  PROVE  InOrder'
  <1>1. /\ UNCHANGED <<version, ctx, got, masks>>
        /\ loading' = loading \/ loading' = NewLoad
    BY DEF CallRefresh, LoopPass
  <1>2. \A j \in Callers : Resolved(j)' => Resolved(j)
    BY DEF CallRefresh, LoopPass, Resolved, IInv, TypeOK
  <1>3. \A s : ReadsSince(s) => (loading' # None => \A t \in loading'.read : loading'.snap[t] >= s[t])
    BY <1>1 DEF ReadsSince, NewLoad
  <1>4. CtxInOrder'
    BY <1>1, <1>2, <1>3 DEF InOrder, CtxInOrder, ReadsSince, AtLeast
  <1>5. CarriedInOrder'
    BY <1>1, <1>2, <1>3 DEF InOrder, CarriedInOrder, ReadsSince
  <1> QED BY <1>4, <1>5 DEF InOrder

\* What is put in place of the snapshot is the load everybody carries.
LEMMA ResumeRefreshKeepsOrder ==
  ASSUME IInv, InOrder, NEW k \in Callers, ResumeRefresh(k)
  PROVE  /\ InOrder'
         /\ ctx # None => ctx' # None /\ AtLeast(ctx'.snap, ctx.snap)
  <1>1. /\ ctx' = IF got[k].version = version THEN got[k] ELSE ctx
        /\ got' = [got EXCEPT ![k] = None] /\ UNCHANGED <<version, masks>>
        /\ loading' = loading \/ loading' = NewLoad
        /\ Resolved(k)
    BY DEF ResumeRefresh, LoopPass, Resolved
  <1>2. \A j \in Callers : Resolved(j)' => Resolved(j) /\ j # k /\ got'[j] = got[j]
    BY <1>1 DEF ResumeRefresh, LoopPass, Resolved, IInv, TypeOK
  <1>3. \A s : ReadsSince(s) => (loading' # None => \A t \in loading'.read : loading'.snap[t] >= s[t])
    BY <1>1 DEF ReadsSince, NewLoad
  <1>4. got[k] \in Context /\ got[k] # None
    BY <1>1 DEF IInv, TypeOK, GotSound, Resolved
  <1>5. CarriedInOrder'
    BY <1>2, <1>3 DEF InOrder, CarriedInOrder, ReadsSince
  <1>6. CASE got[k].version # version
    <2>1. ctx' = ctx
      BY <1>1, <1>6
    <2>2. CtxInOrder'
      BY <1>1, <1>2, <1>3, <2>1 DEF InOrder, CtxInOrder, ReadsSince, AtLeast
    <2>3. ctx # None => AtLeast(ctx.snap, ctx.snap)
      BY DEF IInv, TypeOK, Context, Snapshot, AtLeast
    <2> QED BY <1>5, <2>1, <2>2, <2>3 DEF InOrder
  <1>7. CASE got[k].version = version
    <2>1. ctx' = got[k]
      BY <1>1, <1>7
    <2>2. ctx # None => AtLeast(got[k].snap, ctx.snap)
      BY <1>1, <1>7 DEF InOrder, CtxInOrder
    <2>4. \A t \in Tables : got[k].snap[t] \in Nat
      BY <1>4 DEF Context, Snapshot
    <2>5. \A j \in Callers : Resolved(j)' => got'[j] = got[k]
      BY <1>1, <1>2 DEF InOrder, CarriedInOrder
    <2>6. \A u \in Users : masks[u] # None => AtLeast(got[k].snap, masks[u].snap)
      <3> SUFFICES ASSUME NEW u \in Users, masks[u] # None PROVE AtLeast(got[k].snap, masks[u].snap)
        OBVIOUS
      <3>1. ctx # None /\ AtLeast(ctx.snap, masks[u].snap)
        BY DEF IInv, MasksSound, InOrder, CtxInOrder
      <3>2. ctx.snap \in Snapshot /\ masks[u].snap \in Snapshot /\ got[k].snap \in Snapshot
        BY <1>4, <3>1 DEF IInv, TypeOK, Context, Masks
      <3> QED BY <2>2, <3>1, <3>2, AtLeastTransitive
    <2>7. loading' # None => \A t \in loading'.read : loading'.snap[t] >= got[k].snap[t]
      BY <1>1, <1>3 DEF InOrder, CarriedInOrder
    <2>8. CtxInOrder'
      BY <1>1, <2>1, <2>4, <2>5, <2>6, <2>7 DEF CtxInOrder, ReadsSince, AtLeast
    <2> QED BY <1>4, <1>5, <2>1, <2>2, <2>8 DEF InOrder
  <1> QED BY <1>6, <1>7

\* Masks come from the snapshot of now or stay.
LEMMA MasksKeepOrder ==
  ASSUME IInv, InOrder, NEW u \in Users,
         \/ ctx # None /\ masks' = [masks EXCEPT ![u] = MasksOf(u)]
         \/ masks' = [masks EXCEPT ![u] = None],
         UNCHANGED <<version, ctx, loading, got>>, \A k \in Callers : Resolved(k)' => Resolved(k)
  PROVE  /\ InOrder'
         /\ \A v \in Users : masks[v] # None /\ masks'[v] # None => AtLeast(masks'[v].snap, masks[v].snap)
  <1>1. \A v \in Users : masks[v] # None => masks[v].snap \in Snapshot
    BY DEF IInv, TypeOK, Masks
  <1>2. ctx # None => ctx.snap \in Snapshot
    BY DEF IInv, TypeOK, Context
  <1>3. \A v \in Users : masks'[v] # None => masks'[v] = masks[v] \/ (ctx # None /\ masks'[v].snap = ctx.snap)
    BY DEF MasksOf, IInv, TypeOK
  <1>4. \A v \in Users : masks'[v] # None /\ ctx # None => AtLeast(ctx.snap, masks'[v].snap)
    BY <1>2, <1>3 DEF InOrder, CtxInOrder, AtLeast, Snapshot
  <1>5. CtxInOrder'
    BY <1>4 DEF InOrder, CtxInOrder, ReadsSince, AtLeast, Resolved
  <1>6. CarriedInOrder'
    BY DEF InOrder, CarriedInOrder, ReadsSince, Resolved
  <1>7. ASSUME NEW v \in Users, masks[v] # None, masks'[v] # None
        PROVE  AtLeast(masks'[v].snap, masks[v].snap)
    BY <1>1, <1>3, <1>7 DEF InOrder, CtxInOrder, AtLeast, Snapshot
  <1> QED BY <1>5, <1>6, <1>7 DEF InOrder

\* A step keeps the order, and nothing that exists before and after it goes back.
Forward ==
  /\ ctx # None => ctx' # None /\ AtLeast(ctx'.snap, ctx.snap)
  /\ \A u \in Users : masks[u] # None /\ masks'[u] # None => AtLeast(masks'[u].snap, masks[u].snap)

LEMMA UnchangedIsForward ==
  ASSUME IInv, UNCHANGED <<ctx, masks>>
  PROVE  Forward
  BY DEF Forward, IInv, TypeOK, Context, Masks, Snapshot, AtLeast

LEMMA StepIsForward ==
  ASSUME IInv, InOrder, [Next]_vars
  PROVE  InOrder' /\ Forward
  <1>0. version \in Nat
    BY DEF IInv, TypeOK
  <1>1. ASSUME NEW w \in Writers, NEW t \in Tables, Write(w, t) PROVE InOrder' /\ Forward
    BY <1>0, <1>1, AsideKeepsOrder, UnchangedIsForward DEF Write, Resolved
  <1>2. ASSUME NEW w \in Writers, Invalidate(w) PROVE InOrder' /\ Forward
    BY <1>0, <1>2, AsideKeepsOrder, UnchangedIsForward DEF Invalidate, Resolved
  <1>3. ASSUME NEW k \in Callers, NEW u \in Users, CallRefresh(k, u) PROVE InOrder' /\ Forward
    BY <1>3, CallRefreshKeepsOrder, UnchangedIsForward DEF CallRefresh
  <1>4. ASSUME NEW t \in Tables, ReadTable(t) PROVE InOrder' /\ Forward
    BY <1>4, ReadTableKeepsOrder, UnchangedIsForward DEF ReadTable
  <1>5. CASE FinishLoad
    BY <1>5, FinishLoadKeepsOrder, UnchangedIsForward DEF FinishLoad
  <1>6. CASE FailLoad
    BY <1>6, FailLoadKeepsOrder, UnchangedIsForward DEF FailLoad
  <1>7. ASSUME NEW k \in Callers, ResumeRefresh(k) PROVE InOrder' /\ Forward
    <2>1. masks' = masks
      BY <1>7 DEF ResumeRefresh
    <2>2. \A u \in Users : masks[u] # None => AtLeast(masks[u].snap, masks[u].snap)
      BY DEF IInv, TypeOK, Masks, Snapshot, AtLeast
    <2> QED BY <1>7, <2>1, <2>2, ResumeRefreshKeepsOrder DEF Forward
  <1>8. ctx # None => AtLeast(ctx.snap, ctx.snap)
    BY DEF IInv, TypeOK, Context, Snapshot, AtLeast
  <1>9. ASSUME NEW k \in Callers, Decide(k) PROVE InOrder' /\ Forward
    <2>1. who[k] \in Users /\ ctx # None
      BY <1>9 DEF IInv, TypeOK, ReturnedSound, Decide
    <2>2. /\ masks' = [masks EXCEPT ![who[k]] = MasksOf(who[k])]
          /\ UNCHANGED <<version, ctx, loading, got>>
      BY <1>9 DEF Decide
    <2>3. \A j \in Callers : Resolved(j)' => Resolved(j)
      BY <1>9 DEF Decide, Resolved, IInv, TypeOK
    <2> QED BY <1>8, <2>1, <2>2, <2>3, MasksKeepOrder DEF Forward
  <1>10. ASSUME NEW u \in Users, FanOut(u) PROVE InOrder' /\ Forward
    BY <1>8, <1>10, MasksKeepOrder DEF Forward, FanOut, Resolved
  <1>11. ASSUME NEW u \in Users, ForgetUser(u) PROVE InOrder' /\ Forward
    BY <1>8, <1>11, MasksKeepOrder DEF Forward, ForgetUser, Resolved
  <1>12. ASSUME NEW u \in Users, NEW s \in Seats, TakeSeat(u, s) PROVE InOrder' /\ Forward
    BY <1>0, <1>12, AsideKeepsOrder, UnchangedIsForward DEF TakeSeat, Resolved
  <1>13. CASE UNCHANGED vars
    BY <1>0, <1>13, AsideKeepsOrder, UnchangedIsForward DEF vars, Resolved
  <1> QED BY <1>1, <1>2, <1>3, <1>4, <1>5, <1>6, <1>7, <1>9, <1>10, <1>11, <1>12, <1>13 DEF Next

\* The shared snapshot and the masks computed from it never go back: a check that comes later knows
\* at least what an earlier one knew, whatever loads were shared, failed or overtaken.
THEOREM ViewsOnlyAdvance == Spec => OnlyForward
  <1>1. Spec => [](IInv /\ InOrder)
    BY SpecIInv, InitInOrder, StepIsForward, PTL DEF Spec
  <1>2. IInv /\ InOrder /\ [Next]_vars => [Forward]_vars
    BY StepIsForward
  <1>3. Spec => [][Forward]_vars
    BY <1>1, <1>2, PTL DEF Spec
  <1> QED BY <1>3 DEF OnlyForward, Forward
===============================================================================
