------------------------------ MODULE Visibility ------------------------------
(***************************************************************************)
(* The visibility snapshot of the app server                               *)
(* (apps/server/src/visibility.ts): one copy of roles, memberships,        *)
(* overwrites and channels, reloaded when a version counter has moved on,  *)
(* shared by every request that has to decide who may see what.            *)
(*                                                                         *)
(* The database is a counter per table (how many writes it has taken), a   *)
(* snapshot the counters its queries saw.  A load is eight queries on a    *)
(* connection pool, so each table is read at a moment of its own and a     *)
(* snapshot can mix moments.  JavaScript runs one continuation at a time:  *)
(* what lies between two awaits is one action; an answer of the database   *)
(* is handled only after the continuations that are already due.           *)
(***************************************************************************)
EXTENDS Naturals

CONSTANTS
  Tables,      \* the tables loadContext reads
  Writers,     \* requests that change structure and then broadcast it
  Callers,     \* requests that await refresh() and then decide
  Users,       \* members whose masks are asked for
  Seats,       \* what a user's seat and grant can be, as one value
  MaxWrites,   \* bound: writes per table
  MaxVersion,  \* bound: invalidations
  None         \* JavaScript's null

ASSUME BoundsAreNaturals == MaxWrites \in Nat /\ MaxVersion \in Nat

VARIABLES
  db,       \* writes committed per table
  pending,  \* tables a writer has changed and not yet announced
  version,  \* Visibility.version
  base,     \* history: db at the last invalidate()
  ctx,      \* Visibility.ctx
  loading,  \* Visibility.loading, with the tables already read
  at,       \* where a caller of refresh() is
  since,    \* history: base when the caller entered refresh()
  got,      \* the load a resumed await hands to its caller
  who,      \* the user a caller decides about
  seat,     \* VisibilitySources: seatOf and grantOf
  masks     \* Visibility.perUser

vars == <<db, pending, version, base, ctx, loading, at, since, got, who, seat, masks>>

-------------------------------------------------------------------------------
Snapshot == [Tables -> Nat]
Context == [version : Nat, snap : Snapshot]
Load == [version : Nat, read : SUBSET Tables, snap : Snapshot]
Masks == [version : Nat, seat : Seats, snap : Snapshot]

AtLeast(s, r) == \A t \in Tables : s[t] >= r[t]

ASSUME NoneIsNoRecord == None \notin Context /\ None \notin Load /\ None \notin Masks

TypeOK ==
  /\ db \in Snapshot /\ base \in Snapshot
  /\ pending \in [Writers -> SUBSET Tables]
  /\ version \in Nat
  /\ ctx \in Context \cup {None}
  /\ loading \in Load \cup {None}
  /\ at \in [Callers -> {"idle", "await", "resolved", "returned"}]
  /\ since \in [Callers -> Snapshot]
  /\ got \in [Callers -> Context \cup {None}]
  /\ who \in [Callers -> Users]
  /\ seat \in [Users -> Seats]
  /\ masks \in [Users -> Masks \cup {None}]

Init ==
  /\ db = [t \in Tables |-> 0] /\ base = db
  /\ pending = [w \in Writers |-> {}]
  /\ version = 0
  /\ ctx = None /\ loading = None
  /\ at = [c \in Callers |-> "idle"]
  /\ since = [c \in Callers |-> db]
  /\ got = [c \in Callers |-> None]
  /\ who \in [Callers -> Users]
  /\ seat \in [Users -> Seats]
  /\ masks = [u \in Users |-> None]

-------------------------------------------------------------------------------
(* Requests that change the structure.                                     *)

\* A route writes one of the tables; it has not broadcast yet.
Write(w, t) ==
  /\ db[t] < MaxWrites
  /\ db' = [db EXCEPT ![t] = @ + 1]
  /\ pending' = [pending EXCEPT ![w] = @ \cup {t}]
  /\ UNCHANGED <<version, base, ctx, loading, at, since, got, who, seat, masks>>

\* invalidate(), from broadcastStructure, setHold, releaseAll or syncVoiceAccessOf.
Invalidate(w) ==
  /\ version < MaxVersion
  /\ version' = version + 1
  /\ base' = db
  /\ pending' = [pending EXCEPT ![w] = {}]
  /\ UNCHANGED <<db, ctx, loading, at, since, got, who, seat, masks>>

-------------------------------------------------------------------------------
(* refresh(): the loop that shares one load among all who wait.            *)

Current(c) == c # None /\ c.version = version

NewLoad == [version |-> version, read |-> {}, snap |-> [t \in Tables |-> 0]]

\* Mutant: a load starts only while there is no snapshot at all.
LoopPassOnce(k, c) ==
  IF Current(c)
    THEN at' = [at EXCEPT ![k] = "returned"] /\ UNCHANGED loading
    ELSE /\ at' = [at EXCEPT ![k] = "await"]
         /\ loading' = IF loading = None /\ ctx = None THEN NewLoad ELSE loading

\* One pass of the loop's condition: leave it with snapshot c, or wait for a load.
LoopPass(k, c) ==
  IF Current(c)
    THEN at' = [at EXCEPT ![k] = "returned"] /\ UNCHANGED loading
    ELSE /\ at' = [at EXCEPT ![k] = "await"]
         /\ loading' = IF loading = None THEN NewLoad ELSE loading

CallRefresh(k, u) ==
  /\ at[k] = "idle"
  /\ since' = [since EXCEPT ![k] = base]
  /\ who' = [who EXCEPT ![k] = u]
  /\ LoopPass(k, ctx)
  /\ UNCHANGED <<db, pending, version, base, ctx, got, seat, masks>>

\* Continuations that are already due run before the next answer of the database.
NothingDue == \A k \in Callers : at[k] # "resolved"

ReadTable(t) ==
  /\ loading # None /\ t \notin loading.read
  /\ loading' = [loading EXCEPT !.read = @ \cup {t}, !.snap[t] = db[t]]
  /\ UNCHANGED <<db, pending, version, base, ctx, at, since, got, who, seat, masks>>

\* Mutant: the load takes its version when it ends, not when it starts.
FinishLoadRelabelled ==
  /\ NothingDue
  /\ loading # None /\ loading.read = Tables
  /\ loading' = None
  /\ at' = [k \in Callers |-> IF at[k] = "await" THEN "resolved" ELSE at[k]]
  /\ got' = [k \in Callers |->
               IF at[k] = "await" THEN [version |-> version, snap |-> loading.snap] ELSE got[k]]
  /\ UNCHANGED <<db, pending, version, base, ctx, since, who, seat, masks>>

FinishLoad ==
  /\ NothingDue
  /\ loading # None /\ loading.read = Tables
  /\ loading' = None
  /\ at' = [k \in Callers |-> IF at[k] = "await" THEN "resolved" ELSE at[k]]
  /\ got' = [k \in Callers |->
               IF at[k] = "await" THEN [version |-> loading.version, snap |-> loading.snap] ELSE got[k]]
  /\ UNCHANGED <<db, pending, version, base, ctx, since, who, seat, masks>>

\* A query fails: everybody who waits for this load gets the error, the next one loads again.
FailLoad ==
  /\ NothingDue
  /\ loading # None
  /\ loading' = None
  /\ at' = [k \in Callers |-> IF at[k] = "await" THEN "idle" ELSE at[k]]
  /\ UNCHANGED <<db, pending, version, base, ctx, since, got, who, seat, masks>>

ResumeRefresh(k) ==
  /\ at[k] = "resolved"
  /\ LET c == IF got[k].version = version THEN got[k] ELSE ctx IN
       /\ ctx' = c
       /\ LoopPass(k, c)
  /\ got' = [got EXCEPT ![k] = None]
  /\ UNCHANGED <<db, pending, version, base, since, who, seat, masks>>

-------------------------------------------------------------------------------
(* masksOf(): the masks of one user, cached under version, seat and grant. *)

\* Mutant: the cache's key lacks the seat.
MasksOfVersion(u) ==
  IF masks[u] # None /\ masks[u].version = ctx.version
    THEN masks[u]
    ELSE [version |-> ctx.version, seat |-> seat[u], snap |-> ctx.snap]

MasksOf(u) ==
  IF masks[u] # None /\ masks[u].version = ctx.version /\ masks[u].seat = seat[u]
    THEN masks[u]
    ELSE [version |-> ctx.version, seat |-> seat[u], snap |-> ctx.snap]

\* The caller's continuation after `await visibility.refresh(db)`: it decides by the masks.
Decide(k) ==
  /\ at[k] = "returned"
  /\ at' = [at EXCEPT ![k] = "idle"]
  /\ masks' = [masks EXCEPT ![who[k]] = MasksOf(who[k])]
  /\ UNCHANGED <<db, pending, version, base, ctx, loading, since, got, who, seat>>

\* canSee() of the event fan-out asks without refreshing first.
FanOut(u) ==
  /\ ctx # None
  /\ masks' = [masks EXCEPT ![u] = MasksOf(u)]
  /\ UNCHANGED <<db, pending, version, base, ctx, loading, at, since, got, who, seat>>

\* Mutant: the cache's entry stays, only its seat goes.
ForgetSeat(u) ==
  /\ masks' = IF masks[u] = None THEN masks ELSE [masks EXCEPT ![u].seat = None]
  /\ UNCHANGED <<db, pending, version, base, ctx, loading, at, since, got, who, seat>>

\* forgetUser() and dropUser().
ForgetUser(u) ==
  /\ masks' = [masks EXCEPT ![u] = None]
  /\ UNCHANGED <<db, pending, version, base, ctx, loading, at, since, got, who, seat>>

\* The voice presence or the move grants change under the cache.
TakeSeat(u, s) ==
  /\ seat' = [seat EXCEPT ![u] = s]
  /\ UNCHANGED <<db, pending, version, base, ctx, loading, at, since, got, who, masks>>

-------------------------------------------------------------------------------
Next ==
  \/ \E w \in Writers, t \in Tables : Write(w, t)
  \/ \E w \in Writers : Invalidate(w)
  \/ \E k \in Callers, u \in Users : CallRefresh(k, u)
  \/ \E t \in Tables : ReadTable(t)
  \/ FinishLoad
  \/ FailLoad
  \/ \E k \in Callers : ResumeRefresh(k)
  \/ \E k \in Callers : Decide(k)
  \/ \E u \in Users : FanOut(u)
  \/ \E u \in Users : ForgetUser(u)
  \/ \E u \in Users, s \in Seats : TakeSeat(u, s)

Spec == Init /\ [][Next]_vars

\* The database answers every query of a load and the event loop runs what is due.
Fairness ==
  /\ WF_vars(FinishLoad)
  /\ \A t \in Tables : WF_vars(ReadTable(t))
  /\ \A k \in Callers : WF_vars(ResumeRefresh(k))

FairSpec == Spec /\ Fairness

-------------------------------------------------------------------------------
(* Properties.                                                             *)

\* A snapshot taken for current holds, in every table, at least what the database held at the
\* last invalidation, although its queries ran at different moments beside running writers.
FreshSnapshot == Current(ctx) => AtLeast(ctx.snap, base)

\* When no writer has a change left to announce, the current snapshot is the database: neither
\* a torn nor a stale copy outlives the broadcast of the last change (visibility.ts, refresh).
SettledSnapshot ==
  Current(ctx) /\ (\A w \in Writers : pending[w] = {}) => ctx.snap = db

\* "Every check that authorizes something awaits this first": a decision rests on every change
\* announced before it asked, and on the seat the user has now, though other requests may have
\* replaced the snapshot or filled the cache while it waited.
DecisionIsFresh ==
  [][\A k \in Callers :
       at[k] = "returned" /\ at'[k] = "idle" =>
         /\ AtLeast(masks'[who[k]].snap, since[k])
         /\ masks'[who[k]].seat = seat[who[k]]]_vars

\* What one request has been shown no later one unsees: the shared snapshot and a user's cached masks
\* only ever move forward, though callers that shared a load resume one by one, the next load may
\* have begun in between, and one version can be loaded twice (visibility.ts, refresh, masksOf).
OnlyForward ==
  [][/\ ctx # None => ctx' # None /\ AtLeast(ctx'.snap, ctx.snap)
     /\ \A u \in Users : masks[u] # None /\ masks'[u] # None => AtLeast(masks'[u].snap, masks[u].snap)]_vars

\* Nobody hangs in refresh(): once changes stop, the loop ends with an answer or an error,
\* also for those who joined a load that turned out stale or failed.
RefreshEnds == \A k \in Callers : at[k] = "await" ~> at[k] \in {"returned", "idle"}
===============================================================================
