------------------------------- MODULE Lockout -------------------------------
(***************************************************************************)
(* Counted attempts (app/security.py, app/ratelimit.py): the PIN pages of  *)
(* galleries, portals and workspaces, the login of the studio and the      *)
(* public forms, all in one table keyed by address and bucket, and the     *)
(* request limiter in memory.                                              *)
(*                                                                         *)
(* A page asks whether it is locked, compares, records a failure and       *)
(* counts it in statements of their own, in one of several threads.  Two   *)
(* locks may hold: of one address, and of everyone at one door (but for    *)
(* the studio's login).  The limiter runs in the event loop, one request   *)
(* at a time.  Time is counted in ticks.                                   *)
(***************************************************************************)
EXTENDS Integers, FiniteSets, Sequences

CONSTANTS
  Ips,        \* addresses
  Doors,      \* what is knocked at: [kind, id]
  Knockers,   \* threads serving the pages
  MaxFails, LockFor,    \* PIN_MAX_FAILS, PIN_LOCKOUT_MIN
  MaxAll, AllFor,       \* PIN_TARGET_MAX_FAILS, PIN_TARGET_WINDOW_MIN
  MaxInquiries,             \* INQUIRY_MAX_PER_WINDOW, in the window LockFor
  Limit, Window, GcAge, \* RATE_LIMITS of one bucket, the age _gc drops
  LastTick    \* bound: how long a behaviour is

ASSUME LockoutAssumption ==
  /\ {MaxFails, LockFor, MaxAll, AllFor, MaxInquiries, Limit, Window, GcAge} \subseteq Nat \ {0}
  /\ LastTick \in Nat /\ Window <= GcAge /\ IsFiniteSet(Knockers)
  /\ IsFiniteSet(Ips) /\ 0 \notin Ips

\* Rows are numbered from 1; the studio's login and each form are one door; and the
\* ids of galleries stay below the offset of the workspaces (public/workspace.py:26).
ASSUME DoorsAssumption ==
  \A d \in Doors :
    \/ d \in [kind : {"admin", "contact", "book", "form"}, id : {0}]
    \/ d \in [kind : {"gallery", "portal", "workspace"}, id : Nat \ {0}]
         /\ (d.kind = "gallery" => d.id <= 2000000)

VARIABLES
  tick,      \* the time
  attempts,  \* pin_attempts: how many rows of each address, bucket and time
  knock,     \* each thread: its place, the address and the door
  hits,      \* ratelimit._hits of one address
  \* history
  warned,    \* locks an alert of which was started, and which still hold
  hurried,   \* locks two failures of which were recorded before either was counted
  passed     \* when the limiter of this process let a request through

lockVars == <<tick, attempts, knock, hits, warned, hurried, passed>>

-----------------------------------------------------------------------------
(* The buckets *)

\* security.py, public/portal.py, public/workspace.py.
BucketMut(d) ==
  CASE d.kind = "admin" -> 0 [] d.kind = "gallery" -> d.id [] d.kind = "portal" -> 0 - d.id
    [] d.kind = "workspace" -> 2000000 + d.id
    [] d.kind = "contact" -> -2 [] d.kind = "book" -> -3 [] d.kind = "form" -> -4
Bucket(d) ==
  CASE d.kind = "admin" -> 0 [] d.kind = "gallery" -> d.id [] d.kind = "portal" -> -1000000 - d.id
    [] d.kind = "workspace" -> 2000000 + d.id
    [] d.kind = "contact" -> -2 [] d.kind = "book" -> -3 [] d.kind = "form" -> -4
Buckets == {Bucket(d) : d \in Doors}
IsForm(d) == d.kind \in {"contact", "book", "form"}

\* A lock: of an address or of everyone, at a bucket; the studio's login and the
\* forms have none of everyone.
Everyone == 0
Ticks == 0..LastTick
Keys  == (Ips \cup {Everyone}) \X Buckets
LockKeys == {k \in Keys : /\ \E d \in Doors : ~IsForm(d) /\ Bucket(d) = k[2]
                          /\ k # <<Everyone, 0>>}
NoKnock == [at |-> "idle", ip |-> 0, door |-> [kind |-> "none", id |-> 0]]

LockInit ==
  /\ tick = 0 /\ attempts = [k \in Ips \X Buckets \X Ticks |-> 0]
  /\ knock = [r \in Knockers |-> NoKnock]
  /\ hits = <<>> /\ warned = {} /\ hurried = {} /\ passed = <<>>

\* SELECT COUNT(*) ... WHERE ip=? AND gallery_id=? AND ts > cutoff, or of every address.
RowsOf(table, K) == LET g[S \in SUBSET K] == IF S = {} THEN 0
                                             ELSE LET k == CHOOSE k \in S : TRUE IN table[k] + g[S \ {k}]
                    IN g[K]
Since(age)     == {t \in Ticks : t > tick - age}
RowsCounted(k) == IF k[1] = Everyone THEN Ips \X {k[2]} \X Since(AllFor)
                                     ELSE {k[1]} \X {k[2]} \X Since(LockFor)

\* What pin_locked and pin_fail compare, of a lock: its failures and its limit.
FailsOf(k)   == RowsOf(attempts, RowsCounted(k))
MostOf(k)    == IF k[1] = Everyone THEN MaxAll ELSE MaxFails
LockedMut(k) == FailsOf(k) > MostOf(k)
LockedOut(k) == FailsOf(k) >= MostOf(k)

-----------------------------------------------------------------------------
(* A PIN page *)

At(r, places) == knock[r].at \in places
BucketOf(r)   == Bucket(knock[r].door)
KnockEnds(r)  == knock' = [knock EXCEPT ![r] = NoKnock]
Step(r, p)    == knock' = [knock EXCEPT ![r].at = p]
RestOfKnock   == UNCHANGED <<tick, hits, passed>>

\* The locks a failure may close, and those it has still to be counted for.
AllKey(r) == <<Everyone, BucketOf(r)>>
OwnKey(r) == <<knock[r].ip, BucketOf(r)>>
LocksOf(r) == {OwnKey(r)} \cup (IF BucketOf(r) = 0 THEN {} ELSE {AllKey(r)})
Owed(r)   == CASE At(r, {"count"}) -> LocksOf(r) [] At(r, {"tally"}) -> {AllKey(r)} [] OTHER -> {}

\* pin_locked: the address's own failures, then, but for the studio's login, all.
Knock(r, ip, d) ==
  /\ At(r, {"idle"}) /\ ~IsForm(d)
  /\ ~LockedOut(<<ip, Bucket(d)>>)
  /\ knock' = [knock EXCEPT ![r] = [at |-> IF Bucket(d) = 0 THEN "compare" ELSE "all", ip |-> ip, door |-> d]]
  /\ UNCHANGED <<attempts, warned, hurried>> /\ RestOfKnock

KnockAll(r) ==
  /\ At(r, {"all"})
  /\ IF LockedOut(AllKey(r)) THEN KnockEnds(r) ELSE Step(r, "compare")
  /\ UNCHANGED <<attempts, warned, hurried>> /\ RestOfKnock

\* pin_fail: the row; the address's count and its alert; everyone's count and alert.
Fails(r) ==
  /\ At(r, {"compare"})
  /\ attempts' = [attempts EXCEPT ![<<knock[r].ip, BucketOf(r), tick>>] = @ + 1]
  /\ Step(r, "count")
  /\ hurried' = hurried \cup (LocksOf(r) \cap UNION {Owed(q) : q \in Knockers \ {r}})
  /\ UNCHANGED warned /\ RestOfKnock

\* An alert is for the failure that makes the count the limit.
AlertMut(k)  == FailsOf(k) > MostOf(k)
AlertsAt(k)  == FailsOf(k) = MostOf(k)
FailCounts(r) ==
  /\ At(r, {"count"})
  /\ warned' = IF AlertsAt(OwnKey(r)) THEN warned \cup {OwnKey(r)} ELSE warned
  /\ IF BucketOf(r) = 0 THEN KnockEnds(r) ELSE Step(r, "tally")
  /\ UNCHANGED <<attempts, hurried>> /\ RestOfKnock

FailCountsAll(r) ==
  /\ At(r, {"tally"})
  /\ warned' = IF AlertsAt(AllKey(r)) THEN warned \cup {AllKey(r)} ELSE warned
  /\ KnockEnds(r) /\ UNCHANGED <<attempts, hurried>> /\ RestOfKnock

\* pin_clear: the address's failures at this door.
Succeeds(r) ==
  /\ At(r, {"compare"})
  /\ attempts' = [k \in DOMAIN attempts |->
                    IF k[1] = knock[r].ip /\ k[2] = BucketOf(r) THEN 0 ELSE attempts[k]]
  /\ KnockEnds(r) /\ UNCHANGED hurried /\ RestOfKnock
  /\ warned' = {k \in warned : LockedOut(k)'}

-----------------------------------------------------------------------------
(* A public form: inquiry_throttled, then inquiry_record *)

Submit(r, ip, d) ==
  /\ At(r, {"idle"}) /\ IsForm(d)
  /\ FailsOf(<<ip, Bucket(d)>>) < MaxInquiries
  /\ knock' = [knock EXCEPT ![r] = [at |-> "record", ip |-> ip, door |-> d]]
  /\ UNCHANGED <<attempts, warned, hurried>> /\ RestOfKnock

Record(r) ==
  /\ At(r, {"record"})
  /\ attempts' = [attempts EXCEPT ![<<knock[r].ip, BucketOf(r), tick>>] = @ + 1]
  /\ KnockEnds(r) /\ UNCHANGED <<warned, hurried>> /\ RestOfKnock

-----------------------------------------------------------------------------
(* The limiter *)

\* Hits older than the window leave at the front; a full window refuses.
RecentMut(h) == <<>>
Recent(h) ==
  LET fresh == {i \in DOMAIN h : h[i] >= tick - Window}
  IN IF fresh = {} THEN <<>> ELSE SubSeq(h, CHOOSE i \in fresh : \A j \in fresh : i <= j, Len(h))
Hit ==
  /\ hits' = IF Len(Recent(hits)) >= Limit THEN Recent(hits) ELSE Append(Recent(hits), tick)
  /\ passed' = IF Len(Recent(hits)) >= Limit THEN passed ELSE Append(passed, tick)
  /\ UNCHANGED <<tick, attempts, knock, warned, hurried>>

\* _gc drops what has been quiet, long after its hits left the window.
GcHits ==
  /\ hits # <<>> /\ hits[Len(hits)] < tick - GcAge
  /\ hits' = <<>>
  /\ UNCHANGED <<tick, attempts, knock, warned, hurried, passed>>

-----------------------------------------------------------------------------
\* A lock ends when its failures have left the window, and its alert with it.
SecondPasses ==
  /\ tick < LastTick /\ tick' = tick + 1
  /\ UNCHANGED <<attempts, knock, hits, hurried, passed>>
  /\ warned' = {k \in warned : LockedOut(k)'}

\* A kill: the table stays, the limiter forgets, no one counts what was recorded.
LockKill ==
  /\ hits # <<>> \/ \E r \in Knockers : ~At(r, {"idle"})
  /\ hurried' = hurried \cup UNION {Owed(r) : r \in Knockers}
  /\ knock' = [r \in Knockers |-> NoKnock] /\ hits' = <<>> /\ passed' = <<>>
  /\ UNCHANGED <<tick, attempts, warned>>

LockNext ==
  \/ \E r \in Knockers : \/ \E ip \in Ips, d \in Doors : Knock(r, ip, d) \/ Submit(r, ip, d)
                         \/ KnockAll(r) \/ Fails(r) \/ FailCounts(r) \/ FailCountsAll(r)
                         \/ Succeeds(r) \/ Record(r)
  \/ Hit \/ GcHits \/ SecondPasses \/ LockKill

LockSpec == LockInit /\ [][LockNext]_lockVars

-----------------------------------------------------------------------------
(* Properties *)

LockTypeOK ==
  /\ tick \in Ticks /\ \A k \in DOMAIN attempts : attempts[k] \in Nat
  /\ \A r \in Knockers : knock[r].at \in {"idle", "all", "compare", "count", "tally", "record"}
  /\ warned \subseteq LockKeys /\ hurried \subseteq LockKeys
  /\ Len(hits) <= Limit

\* No door's failures are counted against another door.
\* Concerns the bands of bucket numbers in one column.
DoorsApart == \A d, e \in Doors : Bucket(d) = Bucket(e) => d = e

\* In its window a lock takes at most the failures that close it, and one more for
\* each thread that had asked before; a form likewise.
\* Concerns pin_locked and pin_fail, inquiry_throttled and inquiry_record.
OverrunIsBounded ==
  /\ \A k \in LockKeys : FailsOf(k) < MostOf(k) + Cardinality(Knockers)
  /\ \A ip \in Ips, d \in Doors :
       IsForm(d) => FailsOf(<<ip, Bucket(d)>>) < MaxInquiries + Cardinality(Knockers)

\* A lock that holds, of an address or of everyone, has been alerted, unless its
\* last failure is still to be counted, two were recorded before either was counted,
\* or the process ended between the two.
\* Concerns pin_fail, which alerts at one exact count of each kind.
LockIsAlerted ==
  \A k \in LockKeys :
    LockedOut(k) => k \in warned \cup hurried \cup UNION {Owed(r) : r \in Knockers}

\* No window of time sees more requests pass than the limit: a request and the
\* one that comes Limit after it are more than a window apart.
\* Concerns ratelimit.check: what it drops, and what its _gc may drop.
WindowHolds ==
  \A i \in DOMAIN passed : i + Limit \in DOMAIN passed => passed[i + Limit] - passed[i] > Window
=============================================================================
