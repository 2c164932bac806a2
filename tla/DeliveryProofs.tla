--------------------------- MODULE DeliveryProofs ---------------------------
(***************************************************************************)
(* Proofs about the components that DeliveryMC composes, and of what its   *)
(* run checks, for any of their constants and any scopes: types, notices,  *)
(* the gallery and the files.                                              *)
(*                                                                         *)
(* Each component has an inductive invariant of its own, with three facts: *)
(* it holds initially, every step of the component keeps it, and it means  *)
(* what the run checks of the component.  The last section composes them.  *)
(* Migrations' theorems stand by themselves.                               *)
(***************************************************************************)
EXTENDS DeliveryMC, GalleryProofs

(* Lockout: sums of rows, what is counted where, and the limiter.          *)

LEMMA RowsAre ==
  ASSUME NEW table, NEW K
  PROVE  RowsOf(table, K) =
           (CHOOSE g : g = [S \in SUBSET K |-> IF S = {} THEN 0 ELSE table[Chosen(S)] + g[Rest(S)]])[K]
BY DEF RowsOf, Chosen, Rest

\* The rows of a set of keys are a sum over them.
LEMMA RowsSum ==
  ASSUME NEW table, NEW K, IsFiniteSet(K), \A k \in K : table[k] \in Nat
  PROVE  /\ [k \in K |-> table[k]] \in [K -> Nat]
         /\ \E g : RowsOf(table, K) = g[K] /\ Sums(K, [k \in K |-> table[k]], g)
<1> DEFINE w == [k \in K |-> table[k]]
           AllOf(g) == g = [S \in SUBSET K |-> IF S = {} THEN 0 ELSE table[Chosen(S)] + g[Rest(S)]]
<1>1. w \in [K -> Nat] OBVIOUS
<1>2. ASSUME NEW g PROVE AllOf(g) <=> Sums(K, w, g)
  <2>1. \A S \in SUBSET K : S # {} => w[Chosen(S)] = table[Chosen(S)] BY ChosenIsThere
  <2> HIDE DEF w
  <2>2. \A S \in SUBSET K : (IF S = {} THEN 0 ELSE table[Chosen(S)] + g[Rest(S)]) = SumStep(w, g, S)
    BY <2>1 DEF SumStep
  <2> QED BY <2>2 DEF Sums
<1>3. \E g : AllOf(g)
  <2> HIDE DEF w, AllOf
  <2> QED BY <1>1, <1>2, SumsExist
<1> DEFINE all == CHOOSE g : AllOf(g)
<1>4. AllOf(all)
  <2> HIDE DEF AllOf
  <2> QED BY <1>3
<1>5. RowsOf(table, K) = all[K] BY RowsAre
<1>6. Sums(K, w, all) BY <1>2, <1>4
<1> HIDE DEF all, w, AllOf
<1>7. RowsOf(table, K) = all[K] /\ Sums(K, w, all) BY <1>5, <1>6
<1>8. w = [k \in K |-> table[k]] BY DEF w
<1> QED BY <1>1, <1>7, <1>8

LEMMA RowsNat ==
  ASSUME NEW table, NEW K, IsFiniteSet(K), \A k \in K : table[k] \in Nat
  PROVE  RowsOf(table, K) \in Nat
<1>1. PICK w, g : w \in [K -> Nat] /\ RowsOf(table, K) = g[K] /\ Sums(K, w, g) BY RowsSum
<1>2. g \in [SUBSET K -> Nat] BY <1>1, SumIsNat
<1> QED BY <1>1, <1>2

LEMMA RowsFewer ==
  ASSUME NEW table, NEW K, IsFiniteSet(K), \A k \in K : table[k] \in Nat,
         NEW table2, NEW K2 \in SUBSET K, \A k \in K2 : table2[k] \in Nat /\ table2[k] <= table[k]
  PROVE  RowsOf(table2, K2) <= RowsOf(table, K)
<1>0. IsFiniteSet(K2) BY FS_Subset
<1> DEFINE w == [k \in K |-> table[k]]
           v == [k \in K2 |-> table2[k]]
<1>1. w \in [K -> Nat] /\ v \in [K2 -> Nat] /\ \A x \in K2 : v[x] <= w[x] OBVIOUS
<1>2. PICK g : RowsOf(table, K) = g[K] /\ Sums(K, w, g) BY RowsSum
<1>3. PICK h : RowsOf(table2, K2) = h[K2] /\ Sums(K2, v, h) BY <1>0, RowsSum
<1> HIDE DEF w, v
<1>4. h[K2] <= g[K] BY <1>1, <1>2, <1>3, SumsShrink
<1> QED BY <1>2, <1>3, <1>4

LEMMA RowsOneMore ==
  ASSUME NEW table, NEW K, IsFiniteSet(K), \A k \in K : table[k] \in Nat,
         NEW table2, NEW p \in K, table2[p] = table[p] + 1, \A k \in K \ {p} : table2[k] = table[k]
  PROVE  RowsOf(table2, K) = RowsOf(table, K) + 1
<1> DEFINE w == [k \in K |-> table[k]]
           v == [k \in K |-> table2[k]]
<1>0. \A k \in K : table2[k] \in Nat
  <2>1. table2[p] \in Nat OBVIOUS
  <2>2. \A k \in K \ {p} : table2[k] \in Nat OBVIOUS
  <2> QED BY <2>1, <2>2
<1>1. w \in [K -> Nat] /\ v \in [K -> Nat] /\ v[p] = w[p] + 1 /\ \A x \in K \ {p} : v[x] = w[x] BY <1>0
<1>2. PICK g : RowsOf(table, K) = g[K] /\ Sums(K, w, g) BY RowsSum
<1>3. PICK h : RowsOf(table2, K) = h[K] /\ Sums(K, v, h) BY <1>0, RowsSum
<1> HIDE DEF w, v
<1>4. h[K] = g[K] + 1 BY <1>1, <1>2, <1>3, SumsPlusOne
<1> QED BY <1>2, <1>3, <1>4

LEMMA RowsNone ==
  ASSUME NEW table, NEW K, IsFiniteSet(K), \A k \in K : table[k] = 0
  PROVE  RowsOf(table, K) = 0
<1> DEFINE w == [k \in K |-> table[k]]
<1>1. \A k \in K : table[k] \in Nat OBVIOUS
<1>2. PICK g : RowsOf(table, K) = g[K] /\ Sums(K, w, g) BY <1>1, RowsSum
<1> DEFINE P == {s \in SUBSET K : g[s] = 0}
<1>3. w \in [K -> Nat] /\ \A x \in K : w[x] = 0 OBVIOUS
<1> HIDE DEF w
<1>4. {} \in P BY <1>2, <1>3, SumIsNat
<1>5. ASSUME NEW s \in SUBSET K, s # {}, Rest(s) \in P PROVE s \in P
  <2>1. Chosen(s) \in K BY <1>5, ChosenIsThere
  <2> QED BY <1>2, <1>3, <1>5, <2>1 DEF Sums, SumStep
<1>6. SUBSET K \subseteq P
  <2> HIDE DEF P
  <2> QED BY <1>4, <1>5, SubsetsUp
<1> QED BY <1>2, <1>6

\* The rows that are counted for a lock.
LEMMA WindowFinite ==
  ASSUME NEW I, IsFiniteSet(I), NEW b, NEW age
  PROVE  IsFiniteSet(I \X {b} \X Since(age))
<1>1. IsFiniteSet(Ticks) BY LockoutAssumption, FS_Interval DEF Ticks
<1>2. IsFiniteSet(Since(age)) BY <1>1, FS_Subset DEF Since
<1>3. IsFiniteSet(I \X Since(age)) BY <1>2, FS_Product
<1> DEFINE f == [x \in I \X Since(age) |-> <<x[1], b, x[2]>>]
<1>4. f \in Surjection(I \X Since(age), I \X {b} \X Since(age))
  <2>1. f \in [I \X Since(age) -> I \X {b} \X Since(age)] OBVIOUS
  <2>2. ASSUME NEW k \in I \X {b} \X Since(age) PROVE \E x \in I \X Since(age) : f[x] = k
    <3>1. <<k[1], k[3]>> \in I \X Since(age) /\ f[<<k[1], k[3]>>] = k OBVIOUS
    <3> QED BY <3>1
  <2> QED BY <2>1, <2>2 DEF Surjection
<1> HIDE DEF f
<1> QED BY <1>3, <1>4, FS_Surjection

\* The doors have buckets of their own.
LEMMA BucketsApart == DoorsApart
<1>1. ASSUME NEW d \in Doors, NEW e \in Doors, Bucket(d) = Bucket(e) PROVE d = e
  <2> DEFINE Odd == [kind : {"admin", "contact", "book", "form"}, id : {0}]
             Even == [kind : {"gallery", "portal", "workspace"}, id : Nat \ {0}]
  <2>1. /\ d \in Odd \/ (d \in Even /\ (d.kind = "gallery" => d.id <= 2000000))
        /\ e \in Odd \/ (e \in Even /\ (e.kind = "gallery" => e.id <= 2000000)) BY DoorsAssumption
  <2>2. d.id \in Nat /\ e.id \in Nat BY <2>1
  <2>3. d.kind = e.kind /\ d.id = e.id
    <3>1. CASE d \in Odd BY <1>1, <2>1, <2>2, <3>1 DEF Bucket
    <3>2. CASE d \in Even /\ (d.kind = "gallery" => d.id <= 2000000) BY <1>1, <2>1, <2>2, <3>2 DEF Bucket
    <3> QED BY <2>1, <3>1, <3>2
  <2>4. d = [kind |-> d.kind, id |-> d.id] /\ e = [kind |-> e.kind, id |-> e.id] BY <2>1
  <2> QED BY <2>3, <2>4
<1> QED BY <1>1 DEF DoorsApart

(* The state: threads that asked and may still record, threads that        *)
(* recorded and are not counted yet, by lock.                              *)
Visit == [at : {"idle", "all", "compare", "count", "tally", "record"}, ip : Ips \cup {0},
          door : Doors \cup {NoKnock.door}]
LockTyped ==
  /\ LockTypeOK /\ attempts \in [Ips \X Buckets \X Ticks -> Nat] /\ knock \in [Knockers -> Visit]
  /\ \A r \in Knockers : knock[r].at # "idle" =>
       /\ knock[r].ip \in Ips /\ knock[r].door \in Doors
       /\ knock[r].at = "record" <=> IsForm(knock[r].door)
       /\ knock[r].at \in {"all", "tally"} => BucketOf(r) # 0

FormBuckets == {Bucket(d) : d \in {e \in Doors : IsForm(e)}}
Judged  == LockKeys \cup (Ips \X FormBuckets)
Most(k) == IF k[2] \in FormBuckets THEN MaxInquiries ELSE MostOf(k)
\* What a thread asked about and may still add a row to.
AsksOf(r)  == CASE At(r, {"all", "record"}) -> {OwnKey(r)} [] At(r, {"compare"}) -> LocksOf(r) [] OTHER -> {}
AskedOf(k) == {r \in Knockers : k \in AsksOf(r)}
BoundedAt(k) == FailsOf(k) + Cardinality(AskedOf(k)) < Most(k) + Cardinality(Knockers)
Bounded == \A k \in Judged : BoundedAt(k)

AlertingAt(k) ==
  k \notin hurried =>
    /\ \A q, r \in Knockers : k \in Owed(q) /\ k \in Owed(r) => q = r
    /\ k \notin warned => /\ FailsOf(k) <= MostOf(k)
                          /\ (\A r \in Knockers : k \notin Owed(r)) => FailsOf(k) < MostOf(k)
Alerting == \A k \in LockKeys : AlertingAt(k)

\* The limiter remembers the last requests it let through, and all that are recent.
Gone == Len(passed) - Len(hits)
Limiting ==
  /\ passed \in Seq(Nat) /\ hits \in Seq(Nat) /\ Len(hits) <= Limit /\ Len(hits) <= Len(passed)
  /\ \A i \in DOMAIN hits : hits[i] = passed[Gone + i]
  /\ \A i \in DOMAIN passed : passed[i] <= tick /\ (i <= Gone => passed[i] < tick - Window)
  /\ \A i, j \in DOMAIN passed : i <= j => passed[i] <= passed[j]
  /\ WindowHolds

LockInv == LockTyped /\ Bounded /\ Alerting /\ Limiting

LEMMA LockNumbers ==
  /\ MaxFails \in Nat \ {0} /\ MaxAll \in Nat \ {0} /\ MaxInquiries \in Nat \ {0}
  /\ LockFor \in Nat \ {0} /\ AllFor \in Nat \ {0}
  /\ Limit \in Nat \ {0} /\ Window \in Nat \ {0} /\ GcAge \in Nat /\ Window <= GcAge
  /\ Cardinality(Knockers) \in Nat /\ LastTick \in Nat
  /\ \A k : Most(k) \in Nat \ {0} /\ MostOf(k) \in Nat \ {0}
  /\ \A S \in SUBSET Knockers : Cardinality(S) \in Nat /\ IsFiniteSet(S) /\ Cardinality(S) <= Cardinality(Knockers)
<1>1. \A S \in SUBSET Knockers : Cardinality(S) \in Nat /\ IsFiniteSet(S) /\ Cardinality(S) <= Cardinality(Knockers)
  BY LockoutAssumption, FS_Subset, FS_CardinalityType
<1> QED BY <1>1, LockoutAssumption DEF Most, MostOf

\* The keys: addresses are not everyone, and a form's bucket is no lock's.
LEMMA KeysAre ==
  /\ \A k \in Judged : k \in Keys /\ k[1] \in Ips \cup {Everyone} /\ k[2] \in Buckets /\ k = <<k[1], k[2]>>
  /\ \A k \in LockKeys : k \in Judged /\ k[2] \notin FormBuckets /\ Most(k) = MostOf(k) /\ k # <<Everyone, 0>>
  /\ \A d \in Doors, ip \in Ips :
       /\ <<ip, Bucket(d)>> \in Judged /\ Bucket(d) \in Buckets /\ ip # Everyone
       /\ ~IsForm(d) => /\ <<ip, Bucket(d)>> \in LockKeys
                        /\ Bucket(d) # 0 => <<Everyone, Bucket(d)>> \in LockKeys
       /\ IsForm(d) => <<Everyone, Bucket(d)>> \notin Judged /\ Most(<<ip, Bucket(d)>>) = MaxInquiries
  /\ \A k \in Judged : k[1] = Everyone => k \in LockKeys
<1>1. Everyone \notin Ips BY LockoutAssumption DEF Everyone
<1>2. \A d \in Doors : Bucket(d) \in Buckets /\ (Bucket(d) \in FormBuckets <=> IsForm(d))
  BY BucketsApart DEF DoorsApart, FormBuckets, Buckets
<1>3. FormBuckets \subseteq Buckets BY DEF FormBuckets, Buckets
<1>4. \A k \in Judged : k \in Keys /\ (k[1] = Everyone => k \in LockKeys) BY <1>1, <1>3 DEF Judged, LockKeys, Keys
<1>5. \A k \in Keys : k[1] \in Ips \cup {Everyone} /\ k[2] \in Buckets /\ k = <<k[1], k[2]>> BY DEF Keys
<1>6. \A k \in LockKeys : k[2] \notin FormBuckets /\ k # <<Everyone, 0>> BY <1>2 DEF LockKeys
<1>7. ASSUME NEW d \in Doors, NEW ip \in Ips, ~IsForm(d)
      PROVE  <<ip, Bucket(d)>> \in LockKeys /\ (Bucket(d) # 0 => <<Everyone, Bucket(d)>> \in LockKeys)
  <2>1. <<ip, Bucket(d)>> \in Keys /\ <<Everyone, Bucket(d)>> \in Keys BY <1>2 DEF Keys
  <2> QED BY <1>1, <1>7, <2>1 DEF LockKeys
<1>8. ASSUME NEW d \in Doors, NEW ip \in Ips, IsForm(d)
      PROVE  <<ip, Bucket(d)>> \in Judged /\ <<Everyone, Bucket(d)>> \notin Judged /\ Most(<<ip, Bucket(d)>>) = MaxInquiries
  <2>1. Bucket(d) \in FormBuckets BY <1>2, <1>8
  <2>2. <<Everyone, Bucket(d)>>[1] = Everyone /\ <<Everyone, Bucket(d)>>[2] = Bucket(d)
        /\ <<ip, Bucket(d)>>[2] = Bucket(d) OBVIOUS
  <2> QED BY <1>4, <1>6, <2>1, <2>2 DEF Judged, Most
<1> QED BY <1>1, <1>2, <1>4, <1>5, <1>6, <1>7, <1>8 DEF Judged, Most

\* The failures of a lock, before a step and after it.
LEMMA FailsAre ==
  ASSUME LockTyped, NEW k \in Keys
  PROVE  /\ IsFiniteSet(RowsCounted(k)) /\ RowsCounted(k) \subseteq Ips \X Buckets \X Ticks
         /\ FailsOf(k) \in Nat
<1>1. k[1] \in Ips \cup {Everyone} /\ k[2] \in Buckets BY DEF Keys
<1>2. IsFiniteSet(RowsCounted(k)) BY WindowFinite, LockoutAssumption, FS_Singleton DEF RowsCounted
<1>3. RowsCounted(k) \subseteq Ips \X Buckets \X Ticks BY <1>1 DEF RowsCounted, Since
<1>4. attempts \in [Ips \X Buckets \X Ticks -> Nat] BY DEF LockTyped
<1>5. \A x \in RowsCounted(k) : attempts[x] \in Nat BY <1>3, <1>4
<1> QED BY <1>2, <1>3, <1>5, RowsNat DEF FailsOf

LEMMA FailsLess ==
  ASSUME LockTyped, LockTyped', tick' \in {tick, tick + 1}, NEW k \in Keys,
         \A x \in RowsCounted(k) : attempts'[x] <= attempts[x]
  PROVE  FailsOf(k)' <= FailsOf(k) /\ FailsOf(k)' \in Nat
<1> DEFINE K == RowsCounted(k)
           From(age) == {t \in Ticks : t > tick' - age}
           K2 == IF k[1] = Everyone THEN Ips \X {k[2]} \X From(AllFor) ELSE {k[1]} \X {k[2]} \X From(LockFor)
<1>0. tick \in Nat /\ tick' \in Nat /\ LockFor \in Nat /\ AllFor \in Nat /\ \A t \in Ticks : t \in Nat
  BY LockNumbers DEF LockTyped, LockTypeOK, Ticks
<1>1. FailsOf(k)' = RowsOf(attempts', K2) /\ FailsOf(k) = RowsOf(attempts, K)
  BY DEF FailsOf, RowsOf, RowsCounted, Since, Ticks, Everyone
<1>2. From(AllFor) \subseteq Since(AllFor) /\ From(LockFor) \subseteq Since(LockFor) BY <1>0 DEF Since, Ticks
<1>3. K2 \subseteq K BY <1>2 DEF RowsCounted, Everyone
<1>4. IsFiniteSet(K) /\ K \subseteq Ips \X Buckets \X Ticks BY FailsAre
<1>8. attempts \in [Ips \X Buckets \X Ticks -> Nat] /\ attempts' \in [Ips \X Buckets \X Ticks -> Nat]
  <2>1. Buckets' = Buckets /\ Ticks' = Ticks BY DEF Buckets, Bucket, Ticks
  <2>2. (attempts \in [Ips \X Buckets \X Ticks -> Nat])' BY DEF LockTyped
  <2> QED BY <2>1, <2>2 DEF LockTyped
<1>9. \A x \in K : attempts'[x] <= attempts[x] OBVIOUS
<1> HIDE DEF K, K2
<1>5. \A x \in K : attempts[x] \in Nat /\ attempts'[x] \in Nat /\ attempts'[x] <= attempts[x] BY <1>4, <1>8, <1>9
<1>6. IsFiniteSet(K2) /\ \A x \in K2 : attempts'[x] \in Nat BY <1>3, <1>4, <1>5, FS_Subset
<1>7. RowsOf(attempts', K2) <= RowsOf(attempts, K) BY <1>3, <1>4, <1>5, RowsFewer
<1> QED BY <1>1, <1>6, <1>7, RowsNat

\* A row is counted for the locks of its address and of everyone at its bucket, no other.
LEMMA FailsGrow ==
  ASSUME LockTyped, LockTyped', tick' = tick, NEW k \in Keys, NEW ip \in Ips, NEW b \in Buckets,
         attempts' = [attempts EXCEPT ![<<ip, b, tick>>] = @ + 1]
  PROVE  /\ FailsOf(k)' \in Nat
         /\ k \in {<<ip, b>>, <<Everyone, b>>} => FailsOf(k)' = FailsOf(k) + 1
         /\ k \notin {<<ip, b>>, <<Everyone, b>>} => FailsOf(k)' <= FailsOf(k)
<1> DEFINE p == <<ip, b, tick>>
<1>0. tick \in Nat /\ LockFor \in Nat \ {0} /\ AllFor \in Nat \ {0} /\ tick \in Ticks
      /\ k[1] \in Ips \cup {Everyone} /\ k = <<k[1], k[2]>> BY LockNumbers DEF LockTyped, LockTypeOK, Ticks, Keys
<1>1. tick \in Since(AllFor) /\ tick \in Since(LockFor) BY <1>0 DEF Since
<1>2. p \in RowsCounted(k) <=> k \in {<<ip, b>>, <<Everyone, b>>}
  <2>1. CASE k[1] = Everyone
    <3>1. p \in RowsCounted(k) <=> b = k[2] BY <1>1, <2>1 DEF RowsCounted
    <3>2. Everyone # ip BY LockoutAssumption DEF Everyone
    <3> QED BY <1>0, <2>1, <3>1, <3>2
  <2>2. CASE k[1] # Everyone
    <3>1. p \in RowsCounted(k) <=> ip = k[1] /\ b = k[2] BY <1>1, <2>2 DEF RowsCounted
    <3> QED BY <1>0, <2>2, <3>1
  <2> QED BY <2>1, <2>2
<1>3. IsFiniteSet(RowsCounted(k)) /\ RowsCounted(k) \subseteq Ips \X Buckets \X Ticks BY FailsAre
<1> HIDE DEF p
<1>4. attempts' = [attempts EXCEPT ![p] = @ + 1] BY DEF p
<1>5. \A x \in RowsCounted(k) : attempts[x] \in Nat /\ (x # p => attempts'[x] = attempts[x])
  BY <1>3, <1>4 DEF LockTyped
<1>6. CASE p \in RowsCounted(k)
  <2>1. RowsCounted(k)' = RowsCounted(k) BY DEF RowsCounted, Since, Ticks, Everyone
  <2>2. attempts'[p] = attempts[p] + 1 BY <1>3, <1>4, <1>6 DEF LockTyped
  <2>3. RowsOf(attempts', RowsCounted(k)) = RowsOf(attempts, RowsCounted(k)) + 1
    <3> DEFINE K == RowsCounted(k)
    <3>1. p \in K BY <1>6
    <3>2. IsFiniteSet(K) /\ (\A x \in K : attempts[x] \in Nat) /\ (\A x \in K \ {p} : attempts'[x] = attempts[x])
      BY <1>3, <1>5
    <3> HIDE DEF K
    <3>4. ASSUME NEW table, table[p] = attempts[p] + 1, \A x \in K \ {p} : table[x] = attempts[x]
          PROVE  RowsOf(table, K) = RowsOf(attempts, K) + 1 BY <3>1, <3>2, <3>4, RowsOneMore
    <3>5. RowsOf(attempts', K) = RowsOf(attempts, K) + 1 BY <2>2, <3>2, <3>4
    <3> QED BY <3>5 DEF K
  <2>4. FailsOf(k)' = RowsOf(attempts', RowsCounted(k)) BY <2>1 DEF FailsOf, RowsOf
  <2> QED BY <1>2, <1>6, <2>3, <2>4, FailsAre DEF FailsOf
<1>7. CASE p \notin RowsCounted(k)
  <2>1. \A x \in RowsCounted(k) : attempts'[x] <= attempts[x] BY <1>5, <1>7
  <2> QED BY <1>2, <1>7, <2>1, FailsLess
<1> QED BY <1>6, <1>7

LEMMA LockInitially == ASSUME LockInit PROVE LockInv
<1>0. 0 \in Ticks /\ LastTick \in Nat BY LockNumbers DEF Ticks
<1>1. attempts = [k \in Ips \X Buckets \X Ticks |-> 0] /\ warned = {} BY DEF LockInit
<1>2. \A r \in Knockers : knock[r] = NoKnock BY DEF LockInit
<1>3. LockTyped
  <2>1. NoKnock \in Visit /\ NoKnock.at = "idle" BY DEF NoKnock, Visit
  <2>2. knock \in [Knockers -> Visit] BY <2>1 DEF LockInit
  <2>3. attempts \in [Ips \X Buckets \X Ticks -> Nat] BY <1>1
  <2>4. LockTypeOK BY <1>0, <1>2, <2>1, <2>3, LockNumbers DEF LockInit, LockTypeOK
  <2> QED BY <1>2, <2>1, <2>2, <2>3, <2>4 DEF LockTyped
<1>4. ASSUME NEW k \in Keys
      PROVE  FailsOf(k) = 0 /\ AskedOf(k) = {} /\ \A r \in Knockers : k \notin Owed(r)
  <2>1. \A r \in Knockers : Owed(r) = {} /\ AsksOf(r) = {} BY <1>2 DEF Owed, AsksOf, At, NoKnock
  <2>2. IsFiniteSet(RowsCounted(k)) /\ RowsCounted(k) \subseteq Ips \X Buckets \X Ticks BY <1>3, FailsAre
  <2>3. \A x \in RowsCounted(k) : attempts[x] = 0 BY <1>1, <2>2
  <2>4. RowsOf(attempts, RowsCounted(k)) = 0 BY <2>2, <2>3, RowsNone
  <2> QED BY <2>1, <2>4 DEF FailsOf, AskedOf
<1>5. Bounded
  <2>1. ASSUME NEW k \in Judged PROVE 0 + 0 < Most(k) + Cardinality(Knockers) BY LockNumbers
  <2> QED BY <1>4, <2>1, KeysAre, FS_EmptySet DEF Bounded, BoundedAt
<1>6. Alerting
  <2>1. ASSUME NEW k \in LockKeys PROVE AlertingAt(k)
    <3>1. 0 <= MostOf(k) /\ 0 < MostOf(k) BY LockNumbers
    <3> QED BY <1>4, <3>1, KeysAre DEF AlertingAt
  <2> QED BY <2>1 DEF Alerting
<1>7. Limiting
  <2>1. hits = <<>> /\ passed = <<>> BY DEF LockInit
  <2> QED BY <2>1, LockNumbers DEF Limiting, WindowHolds
<1> QED BY <1>3, <1>5, <1>6, <1>7 DEF LockInv

(* The limiter *)

\* A sequence from its k-th element on.
LEMMA FromOn ==
  ASSUME NEW s \in Seq(Nat), NEW k \in 1..Len(s)
  PROVE  /\ SubSeq(s, k, Len(s)) \in Seq(Nat) /\ Len(SubSeq(s, k, Len(s))) = Len(s) - k + 1
         /\ \A i \in 1..(Len(s) - k + 1) : SubSeq(s, k, Len(s))[i] = s[k + i - 1]
<1>1. k \in Nat /\ Len(s) \in Nat /\ k <= Len(s) OBVIOUS
<1>2. SubSeq(s, k, Len(s)) \in Seq(Nat) BY <1>1
<1>3. Len(SubSeq(s, k, Len(s))) = Len(s) - k + 1 BY <1>1
<1>4. ASSUME NEW i \in 1..(Len(s) - k + 1) PROVE SubSeq(s, k, Len(s))[i] = s[k + i - 1] BY <1>1
<1> QED BY <1>2, <1>3, <1>4

\* What is left of the hits are the last of those that passed, and what has gone is old.
LEMMA RecentIs ==
  ASSUME LockTyped, Limiting
  PROVE  /\ Recent(hits) \in Seq(Nat) /\ Len(Recent(hits)) <= Len(hits) /\ Len(Recent(hits)) \in Nat
         /\ \A i \in 1..Len(Recent(hits)) : Recent(hits)[i] = passed[(Len(passed) - Len(Recent(hits))) + i]
         /\ \A i \in 1..Len(passed) : i <= Len(passed) - Len(Recent(hits)) => passed[i] < tick - Window
<1>0. /\ passed \in Seq(Nat) /\ hits \in Seq(Nat) /\ Len(hits) <= Len(passed)
      /\ Len(hits) \in Nat /\ Len(passed) \in Nat
      /\ \A i \in 1..Len(hits) : hits[i] = passed[Gone + i]
      /\ \A i \in 1..Len(passed) : i <= Gone => passed[i] < tick - Window
      /\ Gone = Len(passed) - Len(hits) /\ Gone \in Nat /\ DOMAIN hits = 1..Len(hits) BY DEF Limiting, Gone
<1>1. tick \in Nat /\ Window \in Nat BY LockNumbers DEF LockTyped, LockTypeOK, Ticks
<1> DEFINE fresh == {i \in DOMAIN hits : hits[i] >= tick - Window}
           first == CHOOSE i \in fresh : \A j \in fresh : i <= j
<1>2. Recent(hits) = IF fresh = {} THEN <<>> ELSE SubSeq(hits, first, Len(hits)) BY DEF Recent
<1>3. CASE fresh = {}
  <2>1. Recent(hits) = <<>> /\ Len(<<>>) = 0 BY <1>2, <1>3
  <2>2. ASSUME NEW i \in 1..Len(passed) PROVE passed[i] < tick - Window
    <3>1. CASE i <= Gone BY <1>0, <3>1
    <3>2. CASE i > Gone
      <4>1. PICK j \in 1..Len(hits) : i = Gone + j
        <5>1. i - Gone \in 1..Len(hits) /\ i = Gone + (i - Gone) BY <1>0, <3>2
        <5> QED BY <5>1
      <4>2. hits[j] = passed[i] /\ hits[j] \in Nat /\ j \notin fresh
        <5>1. hits[j] = passed[Gone + j] /\ hits[j] \in Nat BY <1>0, <4>1
        <5>2. j \notin fresh BY <1>3
        <5> HIDE DEF fresh
        <5> QED BY <4>1, <5>1, <5>2
      <4> QED BY <1>1, <4>2
    <3> QED BY <1>0, <3>1, <3>2
  <2> QED BY <1>0, <2>1, <2>2
<1>4. CASE fresh # {}
  <2>1. \E i \in fresh : \A j \in fresh : i <= j
    <3>1. fresh \in SUBSET Nat BY <1>0
    <3> HIDE DEF fresh
    <3> QED BY <1>4, <3>1, NumbersLeast
  <2>2. first \in fresh /\ \A j \in fresh : first <= j
    <3> HIDE DEF fresh
    <3> QED BY <2>1
  <2> HIDE DEF first
  <2>3. Recent(hits) = SubSeq(hits, first, Len(hits)) BY <1>2, <1>4
  <2>4. first \in 1..Len(hits) BY <1>0, <2>2
  <2>5. /\ Recent(hits) \in Seq(Nat) /\ Len(Recent(hits)) = Len(hits) - first + 1
        /\ \A i \in 1..(Len(hits) - first + 1) : Recent(hits)[i] = hits[first + i - 1]
    <3> HIDE DEF fresh
    <3>1. hits \in Seq(Nat) /\ first \in 1..Len(hits) BY <1>0, <2>4
    <3>2. /\ SubSeq(hits, first, Len(hits)) \in Seq(Nat)
          /\ Len(SubSeq(hits, first, Len(hits))) = Len(hits) - first + 1
          /\ \A i \in 1..(Len(hits) - first + 1) : SubSeq(hits, first, Len(hits))[i] = hits[first + i - 1]
      BY <3>1, FromOn, Zenon
    <3> QED BY <2>3, <3>2, Zenon
  <2>6. Len(passed) - Len(Recent(hits)) = Gone + first - 1 BY <1>0, <2>4, <2>5
  <2>7. ASSUME NEW i \in 1..Len(Recent(hits)) PROVE Recent(hits)[i] = passed[(Gone + first - 1) + i]
    <3>1. i \in 1..(Len(hits) - first + 1) BY <1>0, <2>4, <2>5
    <3>2. first + i - 1 \in 1..Len(hits) BY <1>0, <2>4, <3>1
    <3>3. hits[first + i - 1] = passed[Gone + (first + i - 1)] BY <1>0, <3>2
    <3>4. Gone + (first + i - 1) = (Gone + first - 1) + i BY <1>0, <2>4, <3>1
    <3> QED BY <2>5, <3>1, <3>3, <3>4
  <2>8. ASSUME NEW i \in 1..Len(passed), i <= Gone + first - 1 PROVE passed[i] < tick - Window
    <3>1. CASE i <= Gone BY <1>0, <3>1
    <3>2. CASE i > Gone
      <4>1. PICK j \in 1..Len(hits) : i = Gone + j /\ j < first
        <5>1. i - Gone \in 1..Len(hits) /\ i = Gone + (i - Gone) /\ i - Gone < first BY <1>0, <2>4, <2>8, <3>2
        <5> QED BY <5>1
      <4>2. j \notin fresh
        <5> HIDE DEF fresh
        <5> QED BY <2>2, <2>4, <4>1
      <4>3. hits[j] = passed[i] /\ hits[j] \in Nat BY <1>0, <4>1
      <4> QED BY <1>1, <4>2, <4>3
    <3> QED BY <1>0, <2>8, <3>1, <3>2
  <2>9. Len(Recent(hits)) <= Len(hits) /\ Len(Recent(hits)) \in Nat BY <1>0, <2>4, <2>5
  <2>10. \A i \in 1..Len(passed) : i <= Gone + first - 1 => passed[i] < tick - Window BY <2>8
  <2> HIDE DEF fresh
  <2> QED BY <2>5, <2>6, <2>7, <2>9, <2>10
<1> QED BY <1>3, <1>4

LEMMA LimitingStep ==
  ASSUME LockTyped, Limiting, LockNext
  PROVE  Limiting'
<1>0. /\ passed \in Seq(Nat) /\ hits \in Seq(Nat) /\ Len(hits) <= Limit /\ Len(hits) <= Len(passed)
      /\ Len(hits) \in Nat /\ Len(passed) \in Nat
      /\ \A i \in 1..Len(hits) : hits[i] = passed[Gone + i]
      /\ \A i \in 1..Len(passed) : passed[i] <= tick /\ passed[i] \in Nat /\ (i <= Gone => passed[i] < tick - Window)
      /\ \A i, j \in 1..Len(passed) : i <= j => passed[i] <= passed[j]
      /\ \A i \in 1..Len(passed) : i + Limit \in 1..Len(passed) => passed[i + Limit] - passed[i] > Window
      /\ Gone = Len(passed) - Len(hits) BY DEF Limiting, Gone, WindowHolds
<1>1. /\ tick \in Nat /\ Window \in Nat \ {0} /\ Limit \in Nat \ {0} /\ GcAge \in Nat /\ Window <= GcAge
  BY LockNumbers DEF LockTyped, LockTypeOK, Ticks
<1>2. ASSUME UNCHANGED <<passed, hits>>, tick' \in {tick, tick + 1} PROVE Limiting'
  <2>1. Gone' = Gone BY <1>2 DEF Gone
  <2>2. \A i \in 1..Len(passed) : passed[i] <= tick' /\ (i <= Gone => passed[i] < tick' - Window) BY <1>0, <1>1, <1>2
  <2> QED BY <1>0, <1>2, <2>1, <2>2 DEF Limiting, WindowHolds
<1>3. CASE Hit
  <2> DEFINE rec == Recent(hits)
             n == Len(passed) - Len(rec)
  <2>1. /\ rec \in Seq(Nat) /\ Len(rec) <= Len(hits) /\ Len(rec) \in Nat
        /\ \A i \in 1..Len(rec) : rec[i] = passed[n + i]
        /\ \A i \in 1..Len(passed) : i <= n => passed[i] < tick - Window BY RecentIs
  <2>2. n \in Nat BY <1>0, <2>1
  <2>3. tick' = tick BY <1>3 DEF Hit
  <2>4. CASE Len(rec) >= Limit
    <3>1. hits' = rec /\ passed' = passed BY <1>3, <2>4 DEF Hit
    <3>2. Gone' = n BY <3>1 DEF Gone
    <3> HIDE DEF rec, n
    <3>3. Len(hits') <= Limit /\ Len(hits') <= Len(passed') BY <1>0, <1>1, <2>1, <3>1
    <3>4. DOMAIN hits' = 1..Len(rec) /\ DOMAIN passed' = 1..Len(passed) BY <1>0, <2>1, <3>1
    <3>5. \A i \in DOMAIN hits' : hits'[i] = passed'[Gone' + i] BY <2>1, <3>1, <3>2, <3>4
    <3>6. \A i \in DOMAIN passed' : passed'[i] <= tick' /\ (i <= Gone' => passed'[i] < tick' - Window)
      BY <1>0, <2>1, <2>3, <3>1, <3>2, <3>4
    <3>7. /\ \A i, j \in DOMAIN passed' : i <= j => passed'[i] <= passed'[j]
          /\ \A i \in DOMAIN passed' : i + Limit \in DOMAIN passed' => passed'[i + Limit] - passed'[i] > Window
      BY <1>0, <3>1, <3>4
    <3> QED BY <1>0, <2>1, <3>1, <3>3, <3>5, <3>6, <3>7 DEF Limiting, WindowHolds
  <2>5. CASE ~(Len(rec) >= Limit)
    <3>1. hits' = Append(rec, tick) /\ passed' = Append(passed, tick) BY <1>3, <2>5 DEF Hit
    <3> DEFINE L == Len(passed)
               M == Len(rec)
    <3>2. n = L - M OBVIOUS
    <3> HIDE DEF rec, n
    <3>3. /\ hits' \in Seq(Nat) /\ Len(hits') = M + 1 /\ hits'[M + 1] = tick
          /\ \A i \in 1..M : hits'[i] = rec[i] BY <1>1, <2>1, <3>1
    <3>4. /\ passed' \in Seq(Nat) /\ Len(passed') = L + 1 /\ passed'[L + 1] = tick
          /\ \A i \in 1..L : passed'[i] = passed[i] BY <1>0, <1>1, <3>1
    <3>5. Gone' = n BY <1>0, <2>1, <3>2, <3>3, <3>4 DEF Gone
    <3>6. L \in Nat /\ M \in Nat BY <1>0, <2>1
    <3> HIDE DEF L, M
    <3>7. M < Limit BY <1>1, <2>5, <3>6 DEF M
    <3>8. Len(hits') <= Limit /\ Len(hits') <= Len(passed') BY <1>1, <2>2, <3>2, <3>3, <3>4, <3>6, <3>7
    <3>9. ASSUME NEW i \in 1..(M + 1) PROVE hits'[i] = passed'[n + i]
      <4>1. CASE i = M + 1 BY <2>2, <3>2, <3>3, <3>4, <3>6, <4>1
      <4>2. CASE i # M + 1
        <5>1. i \in 1..M /\ n + i \in 1..L BY <2>2, <3>2, <3>6, <4>2
        <5> QED BY <2>1, <3>3, <3>4, <5>1 DEF M
      <4> QED BY <4>1, <4>2
    <3>10. ASSUME NEW i \in 1..(L + 1) PROVE passed'[i] <= tick /\ (i <= n => passed'[i] < tick - Window)
      <4>1. CASE i = L + 1 BY <1>1, <2>2, <3>2, <3>4, <3>6, <4>1
      <4>2. CASE i # L + 1
        <5>1. i \in 1..L BY <3>6, <4>2
        <5> QED BY <1>0, <2>1, <3>4, <5>1 DEF L
      <4> QED BY <4>1, <4>2
    <3>11. ASSUME NEW i \in 1..(L + 1), NEW j \in 1..(L + 1), i <= j PROVE passed'[i] <= passed'[j]
      <4>1. CASE j = L + 1 BY <3>4, <3>10, <4>1
      <4>2. CASE j # L + 1
        <5>1. i \in 1..L /\ j \in 1..L BY <3>6, <3>11, <4>2
        <5> QED BY <1>0, <3>4, <3>11, <5>1 DEF L
      <4> QED BY <4>1, <4>2
    <3>12. ASSUME NEW i \in 1..(L + 1), i + Limit \in 1..(L + 1) PROVE passed'[i + Limit] - passed'[i] > Window
      <4>1. i \in 1..L BY <1>1, <3>6, <3>12
      <4>2. CASE i + Limit = L + 1
        <5>1. i <= n BY <1>1, <3>2, <3>6, <3>7, <4>1, <4>2
        <5>2. passed[i] < tick - Window /\ passed[i] \in Nat BY <1>0, <2>1, <4>1, <5>1 DEF L
        <5> QED BY <1>1, <3>4, <4>1, <4>2, <5>2
      <4>3. CASE i + Limit # L + 1
        <5>1. i + Limit \in 1..L BY <1>1, <3>6, <3>12, <4>3
        <5> QED BY <1>0, <3>4, <4>1, <5>1 DEF L
      <4> QED BY <4>2, <4>3
    <3>13. DOMAIN hits' = 1..(M + 1) /\ DOMAIN passed' = 1..(L + 1) BY <3>3, <3>4
    <3> QED BY <2>3, <3>3, <3>4, <3>5, <3>8, <3>9, <3>10, <3>11, <3>12, <3>13 DEF Limiting, WindowHolds
  <2> QED BY <2>4, <2>5
<1>4. CASE GcHits
  <2>1. /\ hits' = <<>> /\ passed' = passed /\ tick' = tick /\ Len(hits) >= 1 /\ hits[Len(hits)] < tick - GcAge
    BY <1>0, <1>4 DEF GcHits
  <2>2. hits[Len(hits)] = passed[Len(passed)] /\ Len(passed) >= 1
    <3>1. Len(hits) \in 1..Len(hits) /\ Gone + Len(hits) = Len(passed) BY <1>0, <2>1
    <3>2. hits[Len(hits)] = passed[Gone + Len(hits)] BY <1>0, <3>1
    <3> QED BY <1>0, <2>1, <3>1, <3>2
  <2>3. ASSUME NEW i \in 1..Len(passed) PROVE passed[i] < tick - Window
    <3>1. passed[i] <= passed[Len(passed)] /\ passed[Len(passed)] \in Nat BY <1>0, <2>2
    <3> QED BY <1>0, <1>1, <2>1, <2>2, <3>1
  <2>4. Len(hits') = 0 /\ hits' \in Seq(Nat) /\ DOMAIN hits' = {} BY <2>1
  <2>5. Len(hits') <= Limit /\ Len(hits') <= Len(passed') BY <1>0, <1>1, <2>1, <2>4
  <2>6. DOMAIN passed = 1..Len(passed) BY <1>0
  <2>7. \A i \in DOMAIN passed' : passed'[i] <= tick' /\ (i <= Gone' => passed'[i] < tick' - Window)
    BY <1>0, <2>1, <2>3, <2>6
  <2>8. /\ \A i, j \in DOMAIN passed' : i <= j => passed'[i] <= passed'[j]
        /\ \A i \in DOMAIN passed' : i + Limit \in DOMAIN passed' => passed'[i + Limit] - passed'[i] > Window
    BY <1>0, <2>1, <2>6
  <2> QED BY <1>0, <2>1, <2>4, <2>5, <2>7, <2>8 DEF Limiting, WindowHolds
<1>5. CASE LockKill
  <2>1. hits' = <<>> /\ passed' = <<>> BY <1>5 DEF LockKill
  <2> QED BY <1>1, <2>1 DEF Limiting, WindowHolds
<1>6. CASE SecondPasses BY <1>2, <1>6 DEF SecondPasses
<1>7. ASSUME NEW r \in Knockers,
             \/ \E ip \in Ips, d \in Doors : Knock(r, ip, d) \/ Submit(r, ip, d)
             \/ KnockAll(r) \/ Fails(r) \/ FailCounts(r) \/ FailCountsAll(r) \/ Succeeds(r) \/ Record(r)
      PROVE  Limiting'
  <2>1. RestOfKnock BY <1>7 DEF Knock, Submit, KnockAll, Fails, FailCounts, FailCountsAll, Succeeds, Record
  <2> QED BY <1>2, <2>1 DEF RestOfKnock
<1> QED BY <1>3, <1>4, <1>5, <1>6, <1>7 DEF LockNext

(* What the steps of a thread do to the rows and the threads.              *)
Moves(r, row)  == knock' = [knock EXCEPT ![r] = row]

LEMMA StepMoves ==
  ASSUME LockTyped, NEW r \in Knockers, knock[r].at # "idle", NEW a \in {"all", "compare", "count", "tally", "record"}, Step(r, a)
  PROVE  \E row \in Visit : Moves(r, row) /\ row.at = a /\ row.ip = knock[r].ip /\ row.door = knock[r].door
<1>1. knock[r] \in Visit BY DEF LockTyped
<1> DEFINE row == [knock[r] EXCEPT !.at = a]
<1>2. row \in Visit /\ row.at = a /\ row.ip = knock[r].ip /\ row.door = knock[r].door BY <1>1 DEF Visit
<1>3. Moves(r, row) BY DEF Moves, Step
<1> HIDE DEF row
<1> QED BY <1>2, <1>3

LEMMA NoKnockIs == NoKnock \in Visit /\ NoKnock.at = "idle"
BY DEF NoKnock, Visit

\* The threads' types.
KnockOK ==
  /\ knock' \in [Knockers -> Visit]
  /\ \A r \in Knockers : knock'[r].at # "idle" =>
       /\ knock'[r].ip \in Ips /\ knock'[r].door \in Doors
       /\ knock'[r].at = "record" <=> IsForm(knock'[r].door)
       /\ knock'[r].at \in {"all", "tally"} => Bucket(knock'[r].door) # 0

LEMMA LockTypedFrom ==
  ASSUME LockTyped, KnockOK, tick' \in Ticks, attempts' \in [Ips \X Buckets \X Ticks -> Nat],
         warned' \subseteq LockKeys, hurried' \subseteq LockKeys, Len(hits') <= Limit
  PROVE  LockTyped'
<1>1. \A r \in Knockers : knock'[r].at \in {"idle", "all", "compare", "count", "tally", "record"} BY DEF KnockOK, Visit
<1>2. Visit' = Visit /\ Ticks' = Ticks /\ LockKeys' = LockKeys /\ Buckets' = Buckets
  BY DEF Visit, Ticks, LockKeys, Keys, Buckets, Bucket, NoKnock, Everyone, IsForm
<1>3. LockTypeOK' BY <1>1, <1>2 DEF LockTypeOK
<1>4. \A r \in Knockers : IsForm(knock[r].door)' = IsForm(knock'[r].door) /\ BucketOf(r)' = Bucket(knock'[r].door)
  BY DEF IsForm, BucketOf, Bucket
<1> QED BY <1>2, <1>3, <1>4 DEF LockTyped, KnockOK

\* The keys of a thread that is not at rest.
LEMMA ThreadKeys ==
  ASSUME LockTyped, NEW r \in Knockers, knock[r].at # "idle"
  PROVE  /\ knock[r].ip \in Ips /\ knock[r].door \in Doors /\ BucketOf(r) \in Buckets /\ knock[r].ip # Everyone
         /\ <<knock[r].ip, BucketOf(r), tick>> \in Ips \X Buckets \X Ticks
         /\ OwnKey(r) \in Judged /\ OwnKey(r) # AllKey(r)
         /\ knock[r].at # "record" => LocksOf(r) \subseteq LockKeys
         /\ knock[r].at = "record" => AllKey(r) \notin Judged /\ Most(OwnKey(r)) = MaxInquiries
<1>1. knock[r].ip \in Ips /\ knock[r].door \in Doors /\ tick \in Ticks /\ (knock[r].at = "record" <=> IsForm(knock[r].door))
  BY DEF LockTyped, LockTypeOK
<1> QED BY <1>1, KeysAre DEF OwnKey, AllKey, LocksOf, BucketOf

LEMMA OwedAre ==
  ASSUME LockTyped, NEW r \in Knockers
  PROVE  Owed(r) \subseteq LockKeys
<1>1. CASE At(r, {"count"}) BY <1>1, ThreadKeys DEF Owed, At
<1>2. CASE At(r, {"tally"})
  <2>1. BucketOf(r) # 0 /\ knock[r].at = "tally" BY <1>2 DEF LockTyped, At
  <2> QED BY <1>2, <2>1, ThreadKeys DEF Owed, At, LocksOf
<1> QED BY <1>1, <1>2 DEF Owed

LEMMA LockTypedStep ==
  ASSUME LockTyped, Limiting, LockNext
  PROVE  LockTyped'
<1>0. /\ tick \in Ticks /\ attempts \in [Ips \X Buckets \X Ticks -> Nat] /\ warned \subseteq LockKeys
      /\ hurried \subseteq LockKeys /\ Len(hits) <= Limit /\ knock \in [Knockers -> Visit]
  BY DEF LockTyped, LockTypeOK
<1>1. UNCHANGED knock => KnockOK BY DEF LockTyped, KnockOK, BucketOf
<1>2. ASSUME NEW r \in Knockers, NEW row \in Visit, Moves(r, row),
             \/ row.at = "idle"
             \/ /\ row.ip \in Ips /\ row.door \in Doors /\ (row.at = "record" <=> IsForm(row.door))
                /\ row.at \in {"all", "tally"} => Bucket(row.door) # 0
      PROVE  KnockOK
  <2>1. knock'[r] = row /\ \A q \in Knockers \ {r} : knock'[q] = knock[q] BY <1>0, <1>2 DEF Moves
  <2>2. knock' \in [Knockers -> Visit] BY <1>0, <1>2 DEF Moves
  <2>3. ASSUME NEW q \in Knockers, knock'[q].at # "idle"
        PROVE  /\ knock'[q].ip \in Ips /\ knock'[q].door \in Doors
               /\ knock'[q].at = "record" <=> IsForm(knock'[q].door)
               /\ knock'[q].at \in {"all", "tally"} => Bucket(knock'[q].door) # 0
    <3>1. CASE q = r BY <1>2, <2>1, <2>3, <3>1
    <3>2. CASE q # r BY <2>1, <2>3, <3>2 DEF LockTyped, BucketOf
    <3> QED BY <3>1, <3>2
  <2> QED BY <2>2, <2>3 DEF KnockOK
<1>3. ASSUME NEW r \in Knockers, KnockEnds(r) PROVE KnockOK BY <1>2, <1>3, NoKnockIs DEF KnockEnds, Moves
<1>4. ASSUME NEW r \in Knockers, knock[r].at \in {"all", "compare", "count"}, NEW a \in {"compare", "count", "tally"},
             Step(r, a), a = "tally" => BucketOf(r) # 0
      PROVE  KnockOK
  <2>1. PICK row \in Visit : Moves(r, row) /\ row.at = a /\ row.ip = knock[r].ip /\ row.door = knock[r].door
    BY <1>4, StepMoves
  <2>2. row.ip \in Ips /\ row.door \in Doors /\ ~IsForm(row.door) BY <1>4, <2>1 DEF LockTyped
  <2> QED BY <1>2, <1>4, <2>1, <2>2 DEF BucketOf
<1>6. ASSUME NEW p \in Ips \X Buckets \X Ticks, attempts' = [attempts EXCEPT ![p] = @ + 1]
      PROVE  attempts' \in [Ips \X Buckets \X Ticks -> Nat] BY <1>0, <1>6
<1>10. ASSUME NEW r \in Knockers, NEW ip \in Ips, NEW d \in Doors, Knock(r, ip, d) \/ Submit(r, ip, d) PROVE LockTyped'
  <2>1. PICK a \in {"all", "compare", "record"} :
          /\ Moves(r, [at |-> a, ip |-> ip, door |-> d]) /\ (a = "record" <=> IsForm(d))
          /\ a = "all" => Bucket(d) # 0 BY <1>10 DEF Knock, Submit, Moves
  <2> DEFINE row == [at |-> a, ip |-> ip, door |-> d]
  <2>2. row \in Visit /\ row.at = a /\ row.ip = ip /\ row.door = d BY DEF Visit
  <2> HIDE DEF row
  <2>3. KnockOK BY <1>2, <2>1, <2>2 DEF row
  <2>4. UNCHANGED <<attempts, warned, hurried, tick, hits>> BY <1>10 DEF Knock, Submit, RestOfKnock
  <2> QED BY <1>0, <2>3, <2>4, LockTypedFrom
<1>11. ASSUME NEW r \in Knockers, KnockAll(r) PROVE LockTyped'
  <2>1. KnockOK BY <1>3, <1>4, <1>11 DEF KnockAll, At
  <2> QED BY <1>0, <1>11, <2>1, LockTypedFrom DEF KnockAll, RestOfKnock
<1>12. ASSUME NEW r \in Knockers, Fails(r) PROVE LockTyped'
  <2>1. KnockOK BY <1>4, <1>12 DEF Fails, At
  <2>2. attempts' \in [Ips \X Buckets \X Ticks -> Nat] BY <1>6, <1>12, ThreadKeys DEF Fails, At
  <2>3. hurried' \subseteq LockKeys BY <1>0, <1>12, ThreadKeys DEF Fails, At
  <2> QED BY <1>0, <1>12, <2>1, <2>2, <2>3, LockTypedFrom DEF Fails, RestOfKnock
<1>13. ASSUME NEW r \in Knockers, FailCounts(r) PROVE LockTyped'
  <2>1. KnockOK BY <1>3, <1>4, <1>13 DEF FailCounts, At
  <2>2. warned' \subseteq LockKeys BY <1>0, <1>13, ThreadKeys DEF FailCounts, At, LocksOf
  <2> QED BY <1>0, <1>13, <2>1, <2>2, LockTypedFrom DEF FailCounts, RestOfKnock
<1>14. ASSUME NEW r \in Knockers, FailCountsAll(r) PROVE LockTyped'
  <2>1. KnockOK BY <1>3, <1>14 DEF FailCountsAll
  <2>2. AllKey(r) \in LockKeys BY <1>14, OwedAre DEF FailCountsAll, Owed, At
  <2>3. warned' \subseteq LockKeys BY <1>0, <1>14, <2>2 DEF FailCountsAll
  <2> QED BY <1>0, <1>14, <2>1, <2>3, LockTypedFrom DEF FailCountsAll, RestOfKnock
<1>15. ASSUME NEW r \in Knockers, Succeeds(r) PROVE LockTyped'
  <2>1. KnockOK BY <1>3, <1>15 DEF Succeeds
  <2>2. attempts' \in [Ips \X Buckets \X Ticks -> Nat] BY <1>0, <1>15 DEF Succeeds
  <2>3. warned' \subseteq warned BY <1>15 DEF Succeeds
  <2> QED BY <1>0, <1>15, <2>1, <2>2, <2>3, LockTypedFrom DEF Succeeds, RestOfKnock
<1>16. ASSUME NEW r \in Knockers, Record(r) PROVE LockTyped'
  <2>1. KnockOK BY <1>3, <1>16 DEF Record
  <2>2. attempts' \in [Ips \X Buckets \X Ticks -> Nat] BY <1>6, <1>16, ThreadKeys DEF Record, At
  <2> QED BY <1>0, <1>16, <2>1, <2>2, LockTypedFrom DEF Record, RestOfKnock
<1>17. CASE Hit \/ GcHits
  <2>1. Len(hits') <= Limit
    <3>1. Limiting' BY LimitingStep
    <3> QED BY <3>1 DEF Limiting
  <2> QED BY <1>0, <1>1, <1>17, <2>1, LockTypedFrom DEF Hit, GcHits
<1>18. CASE SecondPasses
  <2>1. tick' \in Ticks BY <1>0, <1>18, LockNumbers DEF SecondPasses, Ticks
  <2>2. warned' \subseteq warned BY <1>18 DEF SecondPasses
  <2> QED BY <1>0, <1>1, <1>18, <2>1, <2>2, LockTypedFrom DEF SecondPasses
<1>19. CASE LockKill
  <2>1. KnockOK BY <1>19, NoKnockIs DEF LockKill, KnockOK
  <2>2. hurried' \subseteq LockKeys BY <1>0, <1>19, OwedAre DEF LockKill
  <2>3. Len(hits') <= Limit BY <1>19, LockNumbers DEF LockKill
  <2> QED BY <1>0, <1>19, <2>1, <2>2, <2>3, LockTypedFrom DEF LockKill
<1> QED BY <1>10, <1>11, <1>12, <1>13, <1>14, <1>15, <1>16, <1>17, <1>18, <1>19 DEF LockNext

(* How many may still record, and who is not counted yet.                  *)

LEMMA SameVisit ==
  ASSUME NEW q \in Knockers, knock'[q] = knock[q]
  PROVE  Owed(q)' = Owed(q) /\ AsksOf(q)' = AsksOf(q)
<1>1. BucketOf(q)' = BucketOf(q) /\ \A P : At(q, P)' = At(q, P) BY DEF BucketOf, Bucket, At
<1>2. OwnKey(q)' = OwnKey(q) /\ AllKey(q)' = AllKey(q) BY <1>1 DEF OwnKey, AllKey, Everyone
<1>3. LocksOf(q)' = LocksOf(q) BY <1>1, <1>2 DEF LocksOf
<1> QED BY <1>2, <1>3 DEF Owed, AsksOf, At

\* A step of one thread leaves what the others asked and owe.
LEMMA ThreadMoves ==
  ASSUME LockTyped, NEW r \in Knockers, NEW row, Moves(r, row), NEW k
  PROVE  /\ AskedOf(k)' \ {r} = AskedOf(k) \ {r} /\ (r \in AskedOf(k)' <=> k \in AsksOf(r)')
         /\ \A q \in Knockers \ {r} : Owed(q)' = Owed(q)
         /\ row.at = "idle" => AsksOf(r)' = {} /\ Owed(r)' = {}
         /\ row.ip = knock[r].ip /\ row.door = knock[r].door =>
              OwnKey(r)' = OwnKey(r) /\ AllKey(r)' = AllKey(r) /\ LocksOf(r)' = LocksOf(r)
<1>1. knock'[r] = row /\ \A q \in Knockers \ {r} : knock'[q] = knock[q] BY DEF LockTyped, Moves
<1>2. \A q \in Knockers \ {r} : Owed(q)' = Owed(q) /\ AsksOf(q)' = AsksOf(q) BY <1>1, SameVisit
<1>3. row.at = "idle" => AsksOf(r)' = {} /\ Owed(r)' = {} BY <1>1 DEF Owed, AsksOf, At
<1>4. row.ip = knock[r].ip /\ row.door = knock[r].door =>
        OwnKey(r)' = OwnKey(r) /\ AllKey(r)' = AllKey(r) /\ LocksOf(r)' = LocksOf(r)
  BY <1>1 DEF LocksOf, OwnKey, AllKey, BucketOf, Bucket, Everyone
<1> QED BY <1>2, <1>3, <1>4 DEF AskedOf

LEMMA BoundedHere ==
  ASSUME LockTyped, LockTyped', NEW k \in Judged, BoundedAt(k),
         FailsOf(k)' \in Nat, FailsOf(k)' <= FailsOf(k), AskedOf(k)' \subseteq AskedOf(k)
  PROVE  BoundedAt(k)'
<1>1. AskedOf(k) \in SUBSET Knockers /\ AskedOf(k)' \in SUBSET Knockers BY DEF AskedOf
<1>2. /\ Cardinality(AskedOf(k)) \in Nat /\ Cardinality(AskedOf(k)') \in Nat /\ IsFiniteSet(AskedOf(k))
      /\ Most(k) \in Nat /\ Cardinality(Knockers) \in Nat /\ Most(k)' = Most(k)
  BY <1>1, LockNumbers DEF Most, MostOf, FormBuckets, Bucket, IsForm, Everyone
<1>3. Cardinality(AskedOf(k)') <= Cardinality(AskedOf(k)) BY <1>2, FS_Subset
<1>4. FailsOf(k) \in Nat BY FailsAre, KeysAre
<1> QED BY <1>2, <1>3, <1>4 DEF BoundedAt

\* A thread that asked found the lock open, so that all the threads may be in.
LEMMA BoundedAsks ==
  ASSUME LockTyped, LockTyped', NEW k \in Judged, FailsOf(k)' \in Nat, FailsOf(k)' < Most(k)
  PROVE  BoundedAt(k)'
<1>1. AskedOf(k)' \in SUBSET Knockers BY DEF AskedOf
<1>2. /\ Cardinality(AskedOf(k)') \in Nat /\ Cardinality(AskedOf(k)') <= Cardinality(Knockers)
      /\ Most(k) \in Nat /\ Cardinality(Knockers) \in Nat /\ Most(k)' = Most(k)
  BY <1>1, LockNumbers DEF Most, MostOf, FormBuckets, Bucket, IsForm, Everyone
<1> QED BY <1>2 DEF BoundedAt

\* A thread that records is one that asked.
LEMMA BoundedRecords ==
  ASSUME LockTyped, LockTyped', NEW k \in Judged, BoundedAt(k), NEW r \in AskedOf(k),
         FailsOf(k)' = FailsOf(k) + 1, AskedOf(k)' = AskedOf(k) \ {r}
  PROVE  BoundedAt(k)'
<1>1. AskedOf(k) \in SUBSET Knockers BY DEF AskedOf
<1>2. /\ Cardinality(AskedOf(k)) \in Nat /\ IsFiniteSet(AskedOf(k)) /\ Most(k) \in Nat
      /\ Cardinality(Knockers) \in Nat /\ Most(k)' = Most(k) /\ FailsOf(k) \in Nat
  BY <1>1, LockNumbers, FailsAre, KeysAre DEF Most, MostOf, FormBuckets, Bucket, IsForm, Everyone
<1>3. Cardinality(AskedOf(k)') = Cardinality(AskedOf(k)) - 1 BY <1>2, FS_RemoveElement
<1> QED BY <1>2, <1>3 DEF BoundedAt

LEMMA AlertingHere ==
  ASSUME LockTyped, LockTyped', NEW k \in LockKeys, AlertingAt(k), hurried \subseteq hurried',
         FailsOf(k)' \in Nat, FailsOf(k)' <= FailsOf(k),
         \A r \in Knockers : k \in Owed(r)' <=> k \in Owed(r),
         k \in warned /\ k \notin warned' => FailsOf(k)' < MostOf(k)
  PROVE  AlertingAt(k)'
<1>1. MostOf(k) \in Nat /\ FailsOf(k) \in Nat /\ MostOf(k)' = MostOf(k)
  BY FailsAre, LockNumbers, KeysAre DEF MostOf, Everyone
<1>2. CASE k \in hurried' BY <1>2 DEF AlertingAt
<1>3. CASE k \notin hurried'
  <2>1. k \notin hurried BY <1>3
  <2>2. \A q, r \in Knockers : k \in Owed(q)' /\ k \in Owed(r)' => q = r BY <2>1 DEF AlertingAt
  <2>3. CASE k \notin warned BY <1>1, <2>1, <2>2, <2>3 DEF AlertingAt
  <2>4. CASE k \in warned BY <1>1, <2>1, <2>2, <2>4 DEF AlertingAt
  <2> QED BY <2>3, <2>4
<1> QED BY <1>2, <1>3

\* A failure is counted: the one thread that owed it alerts when it closes the lock.
LEMMA AlertingCounts ==
  ASSUME LockTyped, LockTyped', NEW k \in LockKeys, AlertingAt(k), NEW r \in Knockers, k \in Owed(r), k \notin Owed(r)',
         \A q \in Knockers \ {r} : Owed(q)' = Owed(q), UNCHANGED hurried,
         FailsOf(k)' \in Nat, FailsOf(k)' <= FailsOf(k), warned \subseteq warned', AlertsAt(k) => k \in warned'
  PROVE  AlertingAt(k)'
<1>1. MostOf(k) \in Nat /\ FailsOf(k) \in Nat /\ MostOf(k)' = MostOf(k)
  BY FailsAre, LockNumbers, KeysAre DEF MostOf, Everyone
<1>2. SUFFICES ASSUME k \notin hurried PROVE AlertingAt(k)' BY DEF AlertingAt
<1>3. \A q \in Knockers : k \notin Owed(q)' BY <1>2 DEF AlertingAt
<1>4. k \notin warned' => FailsOf(k) <= MostOf(k) /\ FailsOf(k) # MostOf(k) BY <1>2 DEF AlertingAt, AlertsAt
<1> QED BY <1>1, <1>3, <1>4 DEF AlertingAt

LEMMA CountsStep ==
  ASSUME LockTyped, LockTyped', Bounded, Alerting, LockNext
  PROVE  Bounded' /\ Alerting'
<1>0. Judged' = Judged /\ LockKeys' = LockKeys
  BY DEF Judged, LockKeys, FormBuckets, Keys, Buckets, Bucket, IsForm, Everyone
<1>1. SUFFICES ASSUME NEW k \in Judged PROVE BoundedAt(k)' /\ (k \in LockKeys => AlertingAt(k)')
  BY <1>0, KeysAre DEF Bounded, Alerting
<1>2. /\ BoundedAt(k) /\ (k \in LockKeys => AlertingAt(k)) /\ k \in Keys
      /\ k[1] \in Ips \cup {Everyone} /\ k = <<k[1], k[2]>> BY KeysAre DEF Bounded, Alerting
<1>3. FailsOf(k) \in Nat /\ Most(k) \in Nat /\ MostOf(k) \in Nat /\ (k \in LockKeys => Most(k) = MostOf(k))
  BY <1>2, FailsAre, LockNumbers, KeysAre
<1>4. ASSUME UNCHANGED <<attempts, tick>> PROVE FailsOf(k)' \in Nat /\ FailsOf(k)' <= FailsOf(k)
  <2>1. \A x \in RowsCounted(k) : attempts'[x] <= attempts[x] BY <1>2, <1>4, FailsAre DEF LockTyped
  <2> QED BY <1>2, <1>4, <2>1, FailsLess
\* A step of one thread that asks nothing new and owes nothing else.
<1>5. ASSUME NEW r \in Knockers, NEW row, Moves(r, row), k \in AsksOf(r)' => k \in AsksOf(r),
             k \in Owed(r)' <=> k \in Owed(r), FailsOf(k)' \in Nat, FailsOf(k)' <= FailsOf(k),
             hurried \subseteq hurried', k \in warned /\ k \notin warned' => FailsOf(k)' < MostOf(k)
      PROVE  BoundedAt(k)' /\ (k \in LockKeys => AlertingAt(k)')
  <2>1. AskedOf(k)' \subseteq AskedOf(k) BY <1>5, ThreadMoves DEF AskedOf
  <2>2. \A q \in Knockers : k \in Owed(q)' <=> k \in Owed(q) BY <1>5, ThreadMoves
  <2> QED BY <1>2, <1>5, <2>1, <2>2, BoundedHere, AlertingHere
\* A step of one thread that asks for a lock that is open.
<1>6. ASSUME NEW r \in Knockers, NEW row, Moves(r, row), FailsOf(k) < Most(k), UNCHANGED <<attempts, tick, warned, hurried>>,
             Owed(r)' = Owed(r)
      PROVE  BoundedAt(k)' /\ (k \in LockKeys => AlertingAt(k)')
  <2>1. FailsOf(k)' \in Nat /\ FailsOf(k)' <= FailsOf(k) BY <1>4, <1>6
  <2>2. \A q \in Knockers : k \in Owed(q)' <=> k \in Owed(q) BY <1>6, ThreadMoves
  <2> QED BY <1>2, <1>3, <1>6, <2>1, <2>2, BoundedAsks, AlertingHere
<1>7. ASSUME NEW r \in Knockers, KnockEnds(r) PROVE Moves(r, NoKnock) /\ AsksOf(r)' = {} /\ Owed(r)' = {}
  BY <1>7, NoKnockIs, ThreadMoves DEF KnockEnds, Moves
\* A thread goes on at its door.
<1>8. ASSUME NEW r \in Knockers, knock[r].at # "idle", NEW a \in {"compare", "count", "tally"}, Step(r, a)
      PROVE  /\ \E row : Moves(r, row)
             /\ AsksOf(r)' = (IF a = "compare" THEN LocksOf(r) ELSE {})
             /\ Owed(r)' = (CASE a = "count" -> LocksOf(r) [] a = "tally" -> {AllKey(r)} [] OTHER -> {})
  <2>1. PICK row \in Visit : Moves(r, row) /\ row.at = a /\ row.ip = knock[r].ip /\ row.door = knock[r].door
    BY <1>8, StepMoves
  <2>2. LocksOf(r)' = LocksOf(r) /\ AllKey(r)' = AllKey(r) BY <2>1, ThreadMoves
  <2>3. At(r, {"compare"})' = (a = "compare") /\ At(r, {"count"})' = (a = "count")
        /\ At(r, {"tally"})' = (a = "tally") /\ ~At(r, {"all", "record"})'
    <3>1. knock'[r] = row BY <2>1 DEF Moves, LockTyped
    <3> QED BY <2>1, <3>1 DEF At
  <2> QED BY <2>1, <2>2, <2>3 DEF AsksOf, Owed
<1>10. ASSUME NEW r \in Knockers, NEW ip \in Ips, NEW d \in Doors, Knock(r, ip, d) \/ Submit(r, ip, d)
       PROVE  BoundedAt(k)' /\ (k \in LockKeys => AlertingAt(k)')
  <2>1. knock[r].at = "idle" /\ UNCHANGED <<attempts, tick, warned, hurried>>
    BY <1>10 DEF Knock, Submit, At, RestOfKnock
  <2>2. PICK a \in {"all", "compare", "record"} :
          Moves(r, [at |-> a, ip |-> ip, door |-> d]) /\ (a = "compare" => Bucket(d) = 0)
    BY <1>10 DEF Knock, Submit, Moves
  <2>3. knock'[r] = [at |-> a, ip |-> ip, door |-> d] BY <2>2 DEF Moves, LockTyped
  <2>4. Owed(r)' = {} /\ Owed(r) = {} /\ AsksOf(r)' = {<<ip, Bucket(d)>>}
    <3>1. BucketOf(r)' = Bucket(d)
      <4>1. BucketOf(r)' = Bucket(knock'[r].door) BY SMT DEF BucketOf, Bucket
      <4> QED BY <2>3, <4>1
    <3>2. OwnKey(r)' = <<ip, Bucket(d)>> BY <2>3, <3>1, SMT DEF OwnKey
    <3>3. a = "compare" => LocksOf(r)' = {<<ip, Bucket(d)>>} BY <2>2, <3>1, <3>2, SMT DEF LocksOf
    <3>4. /\ At(r, {"all", "record"})' = (a \in {"all", "record"}) /\ At(r, {"compare"})' = (a = "compare")
          /\ ~At(r, {"count"})' /\ ~At(r, {"tally"})' /\ ~At(r, {"count"}) /\ ~At(r, {"tally"})
      BY <2>1, <2>3, SMT DEF At
    <3>5. Owed(r)' = {} /\ Owed(r) = {} BY <3>4 DEF Owed
    <3>6. AsksOf(r)' = {<<ip, Bucket(d)>>}
      <4>1. CASE a = "compare" BY <3>3, <3>4, <4>1 DEF AsksOf
      <4>2. CASE a \in {"all", "record"} BY <3>2, <3>4, <4>2 DEF AsksOf
      <4> QED BY <2>2, <4>1, <4>2
    <3> QED BY <3>5, <3>6
  <2>5. CASE k = <<ip, Bucket(d)>>
    <3>1. CASE Knock(r, ip, d)
      <4>1. ~IsForm(d) /\ ~(FailsOf(k) >= MostOf(k)) BY <2>5, <3>1 DEF Knock, LockedOut
      <4>2. k \in LockKeys BY <2>5, <4>1, KeysAre
      <4>3. FailsOf(k) < Most(k) BY <1>3, <4>1, <4>2
      <4> QED BY <1>6, <2>1, <2>2, <2>4, <4>3
    <3>2. CASE Submit(r, ip, d)
      <4>1. FailsOf(k) < Most(k) BY <2>5, <3>2, KeysAre DEF Submit
      <4> QED BY <1>6, <2>1, <2>2, <2>4, <4>1
    <3> QED BY <1>10, <3>1, <3>2
  <2>6. CASE k # <<ip, Bucket(d)>> BY <1>4, <1>5, <2>1, <2>2, <2>4, <2>6
  <2> QED BY <2>5, <2>6
<1>11. ASSUME NEW r \in Knockers, KnockAll(r) PROVE BoundedAt(k)' /\ (k \in LockKeys => AlertingAt(k)')
  <2>1. knock[r].at = "all" /\ UNCHANGED <<attempts, tick, warned, hurried>> /\ Owed(r) = {} /\ AsksOf(r) = {OwnKey(r)}
    BY <1>11 DEF KnockAll, At, RestOfKnock, Owed, AsksOf
  <2>2. CASE KnockEnds(r) BY <1>4, <1>5, <1>7, <2>1, <2>2
  <2>3. CASE Step(r, "compare") /\ ~LockedOut(AllKey(r))
    <3>1. PICK row : Moves(r, row) BY <1>8, <2>1, <2>3
    <3>2. AsksOf(r)' = LocksOf(r) /\ Owed(r)' = {} BY <1>8, <2>1, <2>3
    <3>3. CASE k = AllKey(r)
      <4>1. k \in LockKeys
        <5>1. k[1] = Everyone BY <3>3 DEF AllKey
        <5> QED BY <5>1, KeysAre
      <4>2. FailsOf(k) < Most(k) BY <1>3, <2>3, <3>3, <4>1 DEF LockedOut
      <4> QED BY <1>6, <2>1, <3>1, <3>2, <4>2
    <3>4. CASE k # AllKey(r)
      <4>1. k \in AsksOf(r)' => k \in AsksOf(r) BY <2>1, <3>2, <3>4 DEF LocksOf
      <4> QED BY <1>4, <1>5, <2>1, <3>1, <3>2, <4>1
    <3> QED BY <3>3, <3>4
  <2> QED BY <1>11, <2>2, <2>3 DEF KnockAll
\* A row in the table: the locks it is counted for are those its thread had asked.
<1>12. ASSUME NEW r \in Knockers, knock[r].at \in {"compare", "record"},
              attempts' = [attempts EXCEPT ![<<knock[r].ip, BucketOf(r), tick>>] = @ + 1], tick' = tick
       PROVE  /\ FailsOf(k)' \in Nat
              /\ k \in AsksOf(r) => FailsOf(k)' = FailsOf(k) + 1
              /\ k \notin AsksOf(r) => FailsOf(k)' <= FailsOf(k)
  <2>1. knock[r].ip \in Ips /\ BucketOf(r) \in Buckets BY <1>12, ThreadKeys
  <2>2. /\ FailsOf(k)' \in Nat
        /\ k \in {OwnKey(r), AllKey(r)} => FailsOf(k)' = FailsOf(k) + 1
        /\ k \notin {OwnKey(r), AllKey(r)} => FailsOf(k)' <= FailsOf(k)
    BY <1>2, <1>12, <2>1, FailsGrow DEF OwnKey, AllKey
  <2>3. k \in AsksOf(r) <=> k \in {OwnKey(r), AllKey(r)}
    <3>1. CASE knock[r].at = "record"
      <4>1. AsksOf(r) = {OwnKey(r)} BY <3>1 DEF AsksOf, At
      <4>2. k # AllKey(r) BY <3>1, ThreadKeys
      <4> QED BY <4>1, <4>2
    <3>2. CASE knock[r].at = "compare"
      <4>1. AsksOf(r) = LocksOf(r) BY <3>2 DEF AsksOf, At
      <4>2. BucketOf(r) = 0 => k # AllKey(r)
        <5>1. k[1] = Everyone => k \in LockKeys /\ k # <<Everyone, 0>> BY KeysAre
        <5>2. AllKey(r)[1] = Everyone BY DEF AllKey
        <5> QED BY <5>1, <5>2 DEF AllKey
      <4> QED BY <4>1, <4>2 DEF LocksOf
    <3> QED BY <1>12, <3>1, <3>2
  <2> QED BY <2>2, <2>3
<1>13. ASSUME NEW r \in Knockers, Record(r) PROVE BoundedAt(k)' /\ (k \in LockKeys => AlertingAt(k)')
  <2>1. /\ knock[r].at = "record" /\ UNCHANGED <<tick, warned, hurried>> /\ KnockEnds(r)
        /\ Owed(r) = {} /\ AsksOf(r) = {OwnKey(r)}
        /\ attempts' = [attempts EXCEPT ![<<knock[r].ip, BucketOf(r), tick>>] = @ + 1]
    BY <1>13 DEF Record, At, RestOfKnock, Owed, AsksOf
  <2>2. Moves(r, NoKnock) /\ AsksOf(r)' = {} /\ Owed(r)' = {} BY <1>7, <2>1
  <2>3. CASE k \in AsksOf(r)
    <3>1. r \in AskedOf(k) /\ AskedOf(k)' = AskedOf(k) \ {r} BY <2>2, <2>3, ThreadMoves DEF AskedOf
    <3>2. k \notin LockKeys
      <4>1. k[2] \in FormBuckets BY <2>1, <2>3 DEF LockTyped, FormBuckets, OwnKey, BucketOf
      <4> QED BY <4>1, KeysAre
    <3> QED BY <1>2, <1>12, <2>1, <2>3, <3>1, <3>2, BoundedRecords
  <2>4. CASE k \notin AsksOf(r) BY <1>5, <1>12, <2>1, <2>2, <2>4
  <2> QED BY <2>3, <2>4
<1>14. ASSUME NEW r \in Knockers, Fails(r) PROVE BoundedAt(k)' /\ (k \in LockKeys => AlertingAt(k)')
  <2>1. /\ knock[r].at = "compare" /\ UNCHANGED <<tick, warned>> /\ Step(r, "count") /\ hurried \subseteq hurried'
        /\ Owed(r) = {} /\ AsksOf(r) = LocksOf(r)
        /\ attempts' = [attempts EXCEPT ![<<knock[r].ip, BucketOf(r), tick>>] = @ + 1]
    BY <1>14 DEF Fails, At, RestOfKnock, Owed, AsksOf
  <2>2. PICK row : Moves(r, row) BY <1>8, <2>1
  <2>3. AsksOf(r)' = {} /\ Owed(r)' = LocksOf(r) BY <1>8, <2>1
  <2>4. CASE k \in LocksOf(r)
    <3>1. r \in AskedOf(k) /\ AskedOf(k)' = AskedOf(k) \ {r} BY <2>1, <2>2, <2>3, <2>4, ThreadMoves DEF AskedOf
    <3>2. FailsOf(k)' = FailsOf(k) + 1 BY <1>12, <2>1, <2>4
    <3>3. BoundedAt(k)' BY <1>2, <3>1, <3>2, BoundedRecords
    <3>4. ASSUME k \in LockKeys PROVE AlertingAt(k)'
      <4>1. CASE \E q \in Knockers \ {r} : k \in Owed(q)
        <5>1. k \in hurried' BY <1>14, <2>4, <4>1 DEF Fails
        <5> QED BY <5>1 DEF AlertingAt
      <4>2. CASE \A q \in Knockers \ {r} : k \notin Owed(q)
        <5>1. \A q \in Knockers : k \notin Owed(q) BY <2>1, <4>2
        <5>2. \A q \in Knockers : k \in Owed(q)' <=> q = r BY <2>2, <2>3, <2>4, <4>2, ThreadMoves
        <5>3. MostOf(k)' = MostOf(k) BY DEF MostOf, Everyone
        <5>4. k \notin hurried' /\ k \notin warned' => FailsOf(k)' <= MostOf(k)
          BY <1>2, <1>3, <2>1, <3>2, <3>4, <5>1 DEF AlertingAt
        <5> QED BY <5>2, <5>3, <5>4, <2>1 DEF AlertingAt
      <4> QED BY <4>1, <4>2
    <3> QED BY <3>3, <3>4
  <2>5. CASE k \notin LocksOf(r) BY <1>5, <1>12, <2>1, <2>2, <2>3, <2>5
  <2> QED BY <2>4, <2>5
\* A count ends what one thread owed for one lock.
<1>15. ASSUME NEW r \in Knockers, NEW row, Moves(r, row), NEW c \in Owed(r), Owed(r)' = Owed(r) \ {c},
              AsksOf(r)' = {}, UNCHANGED <<attempts, tick, hurried>>,
              warned' = IF AlertsAt(c) THEN warned \cup {c} ELSE warned
       PROVE  BoundedAt(k)' /\ (k \in LockKeys => AlertingAt(k)')
  <2>1. FailsOf(k)' \in Nat /\ FailsOf(k)' <= FailsOf(k) BY <1>4, <1>15
  <2>2. CASE k = c
    <3>1. AskedOf(k)' \subseteq AskedOf(k) BY <1>15, ThreadMoves
    <3>2. BoundedAt(k)' BY <1>2, <2>1, <3>1, BoundedHere
    <3>3. k \in LockKeys => AlertingAt(k)'
      <4>1. \A q \in Knockers \ {r} : Owed(q)' = Owed(q) BY <1>15, ThreadMoves
      <4>2. k \in Owed(r) /\ k \notin Owed(r)' /\ warned \subseteq warned' /\ (AlertsAt(k) => k \in warned')
        BY <1>15, <2>2
      <4> QED BY <1>2, <1>15, <2>1, <4>1, <4>2, AlertingCounts
    <3> QED BY <3>2, <3>3
  <2>3. CASE k # c BY <1>5, <1>15, <2>1, <2>3
  <2> QED BY <2>2, <2>3
<1>16. ASSUME NEW r \in Knockers, FailCounts(r) PROVE BoundedAt(k)' /\ (k \in LockKeys => AlertingAt(k)')
  <2>1. /\ knock[r].at = "count" /\ UNCHANGED <<attempts, tick, hurried>> /\ Owed(r) = LocksOf(r)
        /\ warned' = IF AlertsAt(OwnKey(r)) THEN warned \cup {OwnKey(r)} ELSE warned
    BY <1>16 DEF FailCounts, At, RestOfKnock, Owed
  <2>2. OwnKey(r) \in Owed(r) /\ OwnKey(r) # AllKey(r) BY <2>1, ThreadKeys DEF LocksOf
  <2>3. CASE BucketOf(r) = 0 /\ KnockEnds(r)
    <3>1. Owed(r) \ {OwnKey(r)} = {} BY <2>1, <2>3 DEF LocksOf
    <3> QED BY <1>7, <1>15, <2>1, <2>2, <2>3, <3>1
  <2>4. CASE BucketOf(r) # 0 /\ Step(r, "tally")
    <3>1. Owed(r) \ {OwnKey(r)} = {AllKey(r)} BY <2>1, <2>2, <2>4 DEF LocksOf
    <3>2. PICK row : Moves(r, row) BY <1>8, <2>1, <2>4
    <3>3. AsksOf(r)' = {} /\ Owed(r)' = {AllKey(r)} BY <1>8, <2>1, <2>4
    <3> QED BY <1>15, <2>1, <2>2, <3>1, <3>2, <3>3
  <2> QED BY <1>16, <2>3, <2>4 DEF FailCounts
<1>17. ASSUME NEW r \in Knockers, FailCountsAll(r) PROVE BoundedAt(k)' /\ (k \in LockKeys => AlertingAt(k)')
  <2>1. /\ UNCHANGED <<attempts, tick, hurried>> /\ Owed(r) = {AllKey(r)} /\ KnockEnds(r)
        /\ warned' = IF AlertsAt(AllKey(r)) THEN warned \cup {AllKey(r)} ELSE warned
    BY <1>17 DEF FailCountsAll, At, RestOfKnock, Owed
  <2>2. Owed(r) \ {AllKey(r)} = {} BY <2>1
  <2> QED BY <1>7, <1>15, <2>1, <2>2
\* An alert is forgotten when its lock ends.
<1>18. ASSUME warned' = {c \in warned : LockedOut(c)'}, FailsOf(k)' \in Nat
       PROVE  k \in warned /\ k \notin warned' => FailsOf(k)' < MostOf(k)
  <2>1. k \in warned /\ k \notin warned' => ~(FailsOf(k)' >= MostOf(k)) BY <1>18 DEF LockedOut, MostOf, Everyone
  <2> QED BY <1>3, <1>18, <2>1
<1>19. ASSUME NEW r \in Knockers, Succeeds(r) PROVE BoundedAt(k)' /\ (k \in LockKeys => AlertingAt(k)')
  <2>1. /\ knock[r].at = "compare" /\ UNCHANGED <<tick, hurried>> /\ KnockEnds(r) /\ Owed(r) = {}
        /\ warned' = {c \in warned : LockedOut(c)'} BY <1>19 DEF Succeeds, At, RestOfKnock, Owed
  <2>2. \A x \in RowsCounted(k) : attempts'[x] <= attempts[x]
    <3>1. RowsCounted(k) \subseteq Ips \X Buckets \X Ticks BY <1>2, FailsAre
    <3>2. \A x \in Ips \X Buckets \X Ticks : attempts'[x] <= attempts[x] BY <1>19 DEF Succeeds, LockTyped
    <3> QED BY <3>1, <3>2
  <2>3. FailsOf(k)' \in Nat /\ FailsOf(k)' <= FailsOf(k) BY <1>2, <2>1, <2>2, FailsLess
  <2>4. Moves(r, NoKnock) /\ AsksOf(r)' = {} /\ Owed(r)' = {} BY <1>7, <2>1
  <2> QED BY <1>5, <1>18, <2>1, <2>3, <2>4
<1>20. CASE Hit \/ GcHits \/ SecondPasses
  <2>1. UNCHANGED <<attempts, knock, hurried>> /\ tick' \in {tick, tick + 1} BY <1>20 DEF Hit, GcHits, SecondPasses
  <2>2. AskedOf(k)' = AskedOf(k) /\ \A q \in Knockers : Owed(q)' = Owed(q) BY <2>1, SameVisit DEF AskedOf
  <2>3. FailsOf(k)' \in Nat /\ FailsOf(k)' <= FailsOf(k)
    <3>1. \A x \in RowsCounted(k) : attempts'[x] <= attempts[x] BY <1>2, <2>1, FailsAre DEF LockTyped
    <3> QED BY <1>2, <2>1, <3>1, FailsLess
  <2>4. k \in warned /\ k \notin warned' => FailsOf(k)' < MostOf(k)
    <3>1. CASE Hit \/ GcHits BY <3>1 DEF Hit, GcHits
    <3>2. CASE SecondPasses BY <1>18, <2>3, <3>2 DEF SecondPasses
    <3> QED BY <1>20, <3>1, <3>2
  <2> QED BY <1>2, <2>1, <2>2, <2>3, <2>4, BoundedHere, AlertingHere
<1>21. CASE LockKill
  <2>1. UNCHANGED <<attempts, tick, warned>> /\ \A r \in Knockers : knock'[r] = NoKnock BY <1>21 DEF LockKill
  <2>2. \A r \in Knockers : AsksOf(r)' = {} /\ Owed(r)' = {} BY <2>1, NoKnockIs DEF AsksOf, Owed, At
  <2>3. FailsOf(k)' \in Nat /\ FailsOf(k)' <= FailsOf(k) BY <1>4, <2>1
  <2>4. BoundedAt(k)' BY <1>2, <2>2, <2>3, BoundedHere DEF AskedOf
  <2>5. hurried \subseteq hurried' BY <1>21 DEF LockKill
  <2>6. CASE \A r \in Knockers : k \notin Owed(r) BY <1>2, <2>1, <2>2, <2>3, <2>4, <2>5, <2>6, AlertingHere
  <2>7. CASE \E r \in Knockers : k \in Owed(r)
    <3>1. k \in hurried' BY <1>21, <2>7 DEF LockKill
    <3> QED BY <2>4, <3>1 DEF AlertingAt
  <2> QED BY <2>6, <2>7
<1> QED BY <1>10, <1>11, <1>13, <1>14, <1>16, <1>17, <1>19, <1>20, <1>21 DEF LockNext

LEMMA LockStep ==
  ASSUME LockInv, [LockNext]_lockVars
  PROVE  LockInv'
<1>0. LockTyped /\ Bounded /\ Alerting /\ Limiting BY DEF LockInv
<1>1. CASE LockNext BY <1>0, <1>1, LockTypedStep, LimitingStep, CountsStep DEF LockInv
<1>2. CASE UNCHANGED lockVars
  <2>1. UNCHANGED <<tick, attempts, knock, hits, warned, hurried, passed>> BY <1>2 DEF lockVars
  <2>2. LockTyped'
    <3>1. KnockOK BY <1>0, <2>1 DEF LockTyped, KnockOK, BucketOf
    <3> QED BY <1>0, <2>1, <3>1, LockTypedFrom DEF LockTyped, LockTypeOK
  <2>3. Limiting' BY <1>0, <2>1 DEF Limiting, WindowHolds, Gone
  <2>4. ASSUME NEW k
        PROVE  /\ FailsOf(k)' = FailsOf(k) /\ AskedOf(k)' = AskedOf(k) /\ Most(k)' = Most(k) /\ MostOf(k)' = MostOf(k)
               /\ \A r \in Knockers : Owed(r)' = Owed(r)
    <3>1. AskedOf(k)' = AskedOf(k) /\ \A r \in Knockers : Owed(r)' = Owed(r) BY <2>1, SameVisit DEF AskedOf
    <3> QED BY <2>1, <3>1 DEF FailsOf, RowsCounted, Since, Ticks, RowsOf, Bucket, Everyone, Most, MostOf, FormBuckets, IsForm
  <2>5. Judged' = Judged /\ LockKeys' = LockKeys
    BY DEF Judged, LockKeys, FormBuckets, Keys, Buckets, Bucket, IsForm, Everyone
  <2>6. Bounded' BY <1>0, <2>4, <2>5 DEF Bounded, BoundedAt
  <2>7. Alerting' BY <1>0, <2>1, <2>4, <2>5 DEF Alerting, AlertingAt
  <2> QED BY <2>2, <2>3, <2>6, <2>7 DEF LockInv
<1> QED BY <1>1, <1>2

LEMMA LockMeans ==
  ASSUME LockInv
  PROVE  LockTypeOK /\ DoorsApart /\ OverrunIsBounded /\ LockIsAlerted /\ WindowHolds
<1>0. LockTyped /\ Bounded /\ Alerting /\ Limiting BY DEF LockInv
<1>1. OverrunIsBounded
  <2>1. ASSUME NEW k \in Judged PROVE FailsOf(k) < Most(k) + Cardinality(Knockers)
    <3>1. AskedOf(k) \in SUBSET Knockers BY DEF AskedOf
    <3>2. /\ Cardinality(AskedOf(k)) \in Nat /\ FailsOf(k) \in Nat
          /\ Most(k) \in Nat /\ Cardinality(Knockers) \in Nat BY <1>0, <3>1, LockNumbers, FailsAre, KeysAre
    <3>3. FailsOf(k) + Cardinality(AskedOf(k)) < Most(k) + Cardinality(Knockers) BY <1>0 DEF Bounded, BoundedAt
    <3> QED BY <3>2, <3>3
  <2> QED BY <2>1, KeysAre DEF OverrunIsBounded
<1>2. LockIsAlerted
  <2>1. ASSUME NEW k \in LockKeys, LockedOut(k), k \notin warned \cup hurried
        PROVE  \E r \in Knockers : k \in Owed(r)
    <3>1. FailsOf(k) \in Nat /\ MostOf(k) \in Nat BY <1>0, LockNumbers, FailsAre, KeysAre
    <3>2. AlertingAt(k) BY <1>0 DEF Alerting
    <3> QED BY <2>1, <3>1, <3>2 DEF AlertingAt, LockedOut
  <2> QED BY <2>1 DEF LockIsAlerted
<1> QED BY <1>0, <1>1, <1>2, BucketsApart DEF LockTyped, Limiting

(* Alarms: windows, what waits for the next pass, and counted crashes.     *)

Messages == [of : Conditions \cup Routes, counts : Nat]

\* What each variable is.
AlarmsTyped ==
  /\ clock \in 1..MaxClock
  /\ loop \in [at : {"wait", "sweeps", "ping", "hung"}, by : Nat]
  /\ trouble \in [Conditions -> [on : BOOLEAN, since : 0..MaxClock]]
  /\ opsLast \in [Conditions -> 0..MaxClock] /\ errorLast \in [Routes -> 0..MaxClock]
  /\ suppressed \in [Routes -> Nat] /\ outbox \subseteq Messages
  /\ toldAt \in [Conditions -> 0..MaxClock] /\ lost \in [Conditions -> 0..MaxClock]
  /\ crashed \in [Routes -> 0..MaxCrashes] /\ reported \in [Routes -> Nat] /\ forgotten \in [Routes -> Nat]
  /\ hasty \in BOOLEAN /\ unread \subseteq Conditions /\ lastPing \in 1..MaxClock /\ started \in 1..MaxClock
  /\ lostPing \in 0..MaxClock /\ beat \in BOOLEAN

\* The last ping, whether it arrived or not, or the start of the process is at most
\* d ticks before t.
Fresh(t, d) == t <= lastPing + d \/ t <= lostPing + d \/ t <= started + d

\* The scheduler is on time and its last ping, or the process's start, is not long ago;
\* while a ping is being sent, it waits.
Scheduling ==
  /\ lastPing <= clock /\ started <= clock /\ lostPing <= clock
  /\ loop.at # "hung" => clock <= loop.by
  /\ loop.at = "wait" => loop.by <= clock + 1 /\ (beat \/ Fresh(loop.by, 1))
  /\ loop.at \in {"sweeps", "ping"} => loop.by <= clock + MaxPass /\ Fresh(loop.by, 1 + MaxPass)
  /\ beat => loop.at = "wait" /\ loop.by = clock + 1 /\ Fresh(clock, 1 + MaxPass)

\* A message being sent is of this tick, in which its window opened.
Sending ==
  /\ \A c \in Conditions : (\E m \in outbox : m.of = c) => opsLast[c] = clock
  /\ \A s \in Routes : (\E m \in outbox : m.of = s) => errorLast[s] = clock
  /\ \A m, n \in outbox : m.of \in Routes /\ m.of = n.of => m = n

\* Every crash is in one place of four.
Tally(s) == reported[s] + suppressed[s] + forgotten[s]
Tallying ==
  \A s \in Routes :
    /\ (\A m \in outbox : m.of # s) => crashed[s] = Tally(s)
    /\ \A m \in outbox : m.of = s => crashed[s] = Tally(s) + m.counts

\* Trouble nothing came of yet: no message of it arrived or failed, no check of it raised.
Unanswered(c) == trouble[c].on /\ toldAt[c] < trouble[c].since /\ lost[c] < trouble[c].since /\ c \notin unread

\* The end of a window that opened when the trouble or the process began, at the latest.
WindowEnds(c) == Latest(c) + OpsCooldown

\* Where the scheduler can be when unanswered trouble has no message under way.
Waiting(c) ==
  /\ opsLast[c] <= trouble[c].since
  /\ loop.at = "wait"   => loop.by <= WindowEnds(c) + MaxPass
  /\ loop.at = "sweeps" => loop.by <= WindowEnds(c) + 2 * MaxPass
  /\ loop.at = "ping"   => loop.by + 1 <= WindowEnds(c) + MaxPass

Telling ==
  /\ ~hasty
  /\ \A c \in Conditions :
       /\ toldAt[c] <= clock /\ lost[c] <= clock /\ trouble[c].since <= clock /\ opsLast[c] <= clock
       /\ toldAt[c] > started => toldAt[c] <= opsLast[c]
       /\ Unanswered(c) /\ loop.at # "hung" =>
            /\ clock <= WindowEnds(c) + 2 * MaxPass
            /\ (\A m \in outbox : m.of # c) => Waiting(c)

AlarmsInv == AlarmsTyped /\ Scheduling /\ Sending /\ Tallying /\ Telling

(* The steps *)

LEMMA AlarmsInitially == AlarmsInit => AlarmsInv
<1> SUFFICES ASSUME AlarmsInit PROVE AlarmsInv OBVIOUS
<1>1. 1 \in 1..MaxClock /\ 0 \in 0..MaxClock /\ 0 \in 0..MaxCrashes BY AlarmsAssumption
<1>2. AlarmsTyped BY <1>1 DEF AlarmsInit, AlarmsTyped, Quiet
<1>3. Scheduling BY DEF AlarmsInit, Scheduling, Fresh
<1>4. Sending BY DEF AlarmsInit, Sending
<1>5. Tallying BY DEF AlarmsInit, Tallying, Tally
<1>6. Telling BY AlarmsAssumption DEF AlarmsInit, Telling, Unanswered, Quiet
<1> QED BY <1>2, <1>3, <1>4, <1>5, <1>6 DEF AlarmsInv

\* What keeps the counts of the crashes keeps what is said of them.
LEMMA CrashesRest ==
  ASSUME AlarmsInv, UNCHANGED <<clock, outbox, opsLast, crashLog>>
  PROVE  Sending' /\ Tallying'
BY DEF AlarmsInv, Sending, Tallying, Tally, crashLog

LEMMA MinuteStep == ASSUME AlarmsInv, MinutePasses PROVE AlarmsInv'
<1> USE DEF AlarmsInv, MinutePasses, crashLog, opsLog, life, pings
<1>1. AlarmsTyped' BY AlarmsAssumption DEF AlarmsTyped
<1>2. Scheduling' BY AlarmsAssumption DEF Scheduling, Fresh, AlarmsTyped
<1>3. Sending' BY DEF Sending
<1>4. Tallying' BY DEF Tallying, Tally
<1>5. ASSUME NEW c \in Conditions PROVE
        /\ toldAt[c] <= clock' /\ lost[c] <= clock' /\ trouble[c].since <= clock' /\ opsLast[c] <= clock'
        /\ Unanswered(c) /\ loop.at # "hung" => clock' <= WindowEnds(c) + 2 * MaxPass /\ Waiting(c)
  <2>1. /\ toldAt[c] \in Nat /\ lost[c] \in Nat /\ trouble[c].since \in Nat /\ opsLast[c] \in Nat
        /\ clock \in Nat /\ clock' = clock + 1 /\ started \in Nat BY DEF AlarmsTyped
  <2>2. /\ toldAt[c] <= clock /\ lost[c] <= clock /\ trouble[c].since <= clock /\ opsLast[c] <= clock
        /\ Unanswered(c) /\ loop.at # "hung" => Waiting(c) BY DEF Telling
  <2>3. loop.at # "hung" => clock + 1 <= loop.by /\ loop.at \in {"wait", "sweeps", "ping"} /\ loop.by \in Nat
    BY <2>1 DEF AlarmsTyped
  <2>4. WindowEnds(c) \in Nat BY <2>1, AlarmsAssumption DEF WindowEnds, Latest
  <2> HIDE DEF AlarmsInv, MinutePasses
  <2>5. Unanswered(c) /\ loop.at # "hung" => clock' <= WindowEnds(c) + 2 * MaxPass
    BY <2>1, <2>2, <2>3, <2>4, AlarmsAssumption DEF Waiting
  <2> QED BY <2>1, <2>2, <2>5
<1>6. Telling'
  <2>1. \A c \in Conditions : Unanswered(c)' = Unanswered(c) /\ WindowEnds(c)' = WindowEnds(c) /\ Waiting(c)' = Waiting(c)
    BY DEF Unanswered, WindowEnds, Waiting, Latest
  <2> HIDE DEF AlarmsInv
  <2>2. AlarmsInv OBVIOUS
  <2> QED BY <1>5, <2>1, <2>2 DEF Telling, AlarmsInv
<1> QED BY <1>1, <1>2, <1>3, <1>4, <1>6

\* Trouble that starts now is nobody's fault yet: its window ends in the future.
LEMMA StartsStep == ASSUME AlarmsInv, NEW c \in Conditions, TroubleStarts(c) PROVE AlarmsInv'
<1> USE DEF AlarmsInv, TroubleStarts, crashLog, life, pings
<1>1. AlarmsTyped' BY DEF AlarmsTyped
<1>2. Scheduling' BY DEF Scheduling, Fresh
<1>3. Sending' /\ Tallying' BY CrashesRest
<1>4. ASSUME NEW d \in Conditions PROVE
        /\ trouble'[d].since <= clock
        /\ d # c => trouble'[d] = trouble[d] /\ (d \in unread' <=> d \in unread)
        /\ d = c => trouble'[d].since = clock BY DEF AlarmsTyped, Telling
<1>5. ASSUME NEW d \in Conditions, d # c PROVE
        Unanswered(d)' = Unanswered(d) /\ WindowEnds(d)' = WindowEnds(d) /\ Waiting(d)' = Waiting(d)
  BY <1>4, <1>5 DEF Unanswered, WindowEnds, Latest, Waiting
<1>6. (loop.at # "hung" => clock <= WindowEnds(c)' + 2 * MaxPass) /\ (loop.at # "hung" => Waiting(c)')
  <2>1. trouble'[c].since = clock /\ loop' = loop /\ opsLast' = opsLast /\ started' = started BY <1>4
  <2>2. /\ opsLast[c] <= clock /\ started <= clock /\ clock \in Nat /\ loop.by \in Nat /\ opsLast[c] \in Nat
        /\ started \in Nat
        /\ loop.at = "wait" => loop.by <= clock + 1
        /\ loop.at \in {"sweeps", "ping"} => loop.by <= clock + MaxPass BY DEF Telling, Scheduling, AlarmsTyped
  <2>3. WindowEnds(c)' = clock + OpsCooldown BY <2>1, <2>2 DEF WindowEnds, Latest
  <2> QED BY <2>1, <2>2, <2>3, AlarmsAssumption DEF Waiting
<1>7. Telling'
  <2> HIDE DEF TroubleStarts, AlarmsInv
  <2>1. AlarmsInv /\ UNCHANGED <<clock, loop, opsLast, outbox, hasty, toldAt, lost, started>> BY DEF TroubleStarts, life, pings
  <2> QED BY <2>1, <1>4, <1>5, <1>6 DEF Telling, AlarmsInv
<1> QED BY <1>1, <1>2, <1>3, <1>7

LEMMA EndsStep == ASSUME AlarmsInv, NEW c \in Conditions, TroubleEnds(c) PROVE AlarmsInv'
<1> USE DEF AlarmsInv, TroubleEnds, crashLog, life, pings
<1>1. AlarmsTyped' BY AlarmsAssumption DEF AlarmsTyped, Quiet
<1>2. Scheduling' BY DEF Scheduling, Fresh
<1>3. Sending' /\ Tallying' BY CrashesRest
<1>4. ASSUME NEW d \in Conditions PROVE
        /\ trouble'[d].since <= clock
        /\ d # c => trouble'[d] = trouble[d]
        /\ d = c => ~trouble'[d].on BY DEF AlarmsTyped, Telling, Quiet
<1>5. ASSUME NEW d \in Conditions, d # c PROVE
        Unanswered(d)' = Unanswered(d) /\ WindowEnds(d)' = WindowEnds(d) /\ Waiting(d)' = Waiting(d)
  BY <1>4, <1>5 DEF Unanswered, WindowEnds, Latest, Waiting
<1>6. ~Unanswered(c)' BY <1>4 DEF Unanswered
<1>7. Telling'
  <2> HIDE DEF TroubleEnds, AlarmsInv
  <2>1. AlarmsInv /\ UNCHANGED <<clock, loop, opsLast, outbox, hasty, toldAt, lost, started>> BY DEF TroubleEnds, life, pings
  <2> QED BY <2>1, <1>4, <1>5, <1>6 DEF Telling, AlarmsInv
<1> QED BY <1>1, <1>2, <1>3, <1>7

LEMMA WakesStep == ASSUME AlarmsInv, Wakes PROVE AlarmsInv'
<1> USE DEF AlarmsInv, Wakes, crashLog, life, pings, opsLog
<1>1. AlarmsTyped' BY AlarmsAssumption DEF AlarmsTyped
<1>2. Scheduling' BY AlarmsAssumption DEF Scheduling, Fresh, AlarmsTyped
<1>3. Sending' /\ Tallying' BY CrashesRest
<1>4. ASSUME NEW d \in Conditions PROVE
        /\ Unanswered(d)' = Unanswered(d) /\ WindowEnds(d)' = WindowEnds(d)
        /\ Waiting(d) => Waiting(d)'
  <2>1. Unanswered(d)' = Unanswered(d) /\ WindowEnds(d)' = WindowEnds(d) BY DEF Unanswered, WindowEnds, Latest
  <2>2. WindowEnds(d) \in Nat /\ clock \in Nat BY AlarmsAssumption DEF WindowEnds, Latest, AlarmsTyped
  <2> QED BY <2>1, <2>2, AlarmsAssumption DEF Waiting
<1>5. loop.at # "hung" OBVIOUS
<1>6. Telling'
  <2> HIDE DEF Wakes, AlarmsInv
  <2>1. AlarmsInv /\ UNCHANGED <<clock, opsLast, outbox, hasty, toldAt, lost, started, trouble>>
    BY DEF Wakes, life, pings, opsLog
  <2> QED BY <2>1, <1>4, <1>5 DEF Telling, AlarmsInv
<1> QED BY <1>1, <1>2, <1>3, <1>6

LEMMA HangsStep == ASSUME AlarmsInv, SweepHangs PROVE AlarmsInv'
<1> USE DEF AlarmsInv, SweepHangs, crashLog, life, pings, opsLog
<1>1. AlarmsTyped' /\ loop'.at = "hung" BY DEF AlarmsTyped
<1>2. Scheduling' BY <1>1 DEF Scheduling, Fresh
<1>3. Sending' /\ Tallying' BY CrashesRest
<1>4. Telling'
  <2> HIDE DEF SweepHangs, AlarmsInv
  <2>1. AlarmsInv /\ UNCHANGED <<clock, opsLast, outbox, hasty, toldAt, lost, started, trouble>>
    BY DEF SweepHangs, life, pings, opsLog
  <2> QED BY <2>1, <1>1 DEF Telling, AlarmsInv
<1> QED BY <1>1, <1>2, <1>3, <1>4

LEMMA PingStep == ASSUME AlarmsInv, Ping PROVE AlarmsInv'
<1> USE DEF AlarmsInv, Ping, crashLog, opsLog
<1>1. AlarmsTyped' BY DEF AlarmsTyped
<1>2. Scheduling'
  <2>1. /\ {clock, loop.by, lastPing, lostPing, started, MaxPass} \subseteq Nat /\ clock <= loop.by
        /\ Fresh(loop.by, 1 + MaxPass) BY AlarmsAssumption DEF Scheduling, AlarmsTyped
  <2>2. Fresh(clock, 1 + MaxPass) BY <2>1 DEF Fresh
  <2> QED BY <2>1, <2>2 DEF Scheduling, Fresh
<1>3. Sending' /\ Tallying' BY CrashesRest
<1>4. ASSUME NEW d \in Conditions PROVE
        /\ Unanswered(d)' = Unanswered(d) /\ WindowEnds(d)' = WindowEnds(d)
        /\ Waiting(d) => Waiting(d)'
  <2>1. Unanswered(d)' = Unanswered(d) /\ WindowEnds(d)' = WindowEnds(d) BY DEF Unanswered, WindowEnds, Latest
  <2>2. WindowEnds(d) \in Nat /\ clock \in Nat /\ loop.by \in Nat
    BY AlarmsAssumption DEF WindowEnds, Latest, AlarmsTyped
  <2>3. clock <= loop.by BY DEF Scheduling
  <2> QED BY <2>1, <2>2, <2>3, AlarmsAssumption DEF Waiting
<1>5. loop.at # "hung" OBVIOUS
<1>6. Telling'
  <2> HIDE DEF Ping, AlarmsInv
  <2>1. AlarmsInv /\ UNCHANGED <<clock, opsLast, outbox, hasty, toldAt, lost, started, trouble>> BY DEF Ping, opsLog
  <2> QED BY <2>1, <1>4, <1>5 DEF Telling, AlarmsInv
<1> QED BY <1>1, <1>2, <1>3, <1>6

\* A ping that ends, arrived or not, says that the scheduler was there a moment ago.
LEMMA BeatStep == ASSUME AlarmsInv, NEW arrives \in BOOLEAN, BeatEnds(arrives) PROVE AlarmsInv'
<1> USE DEF AlarmsInv, BeatEnds, crashLog, opsLog
<1>1. AlarmsTyped'
  <2>1. lastPing' \in 1..MaxClock /\ lostPing' \in 0..MaxClock /\ beat' = FALSE BY AlarmsAssumption DEF AlarmsTyped
  <2> QED BY <2>1 DEF AlarmsTyped
<1>2. Scheduling' BY DEF Scheduling, Fresh, AlarmsTyped
<1>3. Sending' /\ Tallying' BY CrashesRest
<1>4. Telling' BY DEF Telling, Unanswered, Waiting, WindowEnds, Latest
<1> QED BY <1>1, <1>2, <1>3, <1>4

\* A pass tells of what no window hides; what it leaves untold, a window hides or a
\* check that raised.
LEMMA WatchStep == ASSUME AlarmsInv, Watch PROVE AlarmsInv'
<1> USE DEF AlarmsInv
<1>1. PICK raises \in SUBSET Conditions :
        LET tell == {c \in Conditions \ raises : trouble[c].on /\ ~Throttled(c)} IN
        /\ opsLast' = [c \in Conditions |-> IF c \in tell THEN Stamped(c) ELSE opsLast[c]]
        /\ outbox'  = outbox \cup {[of |-> c, counts |-> 0] : c \in tell}
        /\ hasty'   = (hasty \/ \E c \in tell : toldAt[c] > started /\ clock - toldAt[c] < OpsCooldown)
        /\ unread'  = unread \cup raises BY DEF Watch
<1> DEFINE tell == {c \in Conditions \ raises : trouble[c].on /\ ~Throttled(c)}
<1>2. /\ opsLast' = [c \in Conditions |-> IF c \in tell THEN clock ELSE opsLast[c]]
      /\ outbox'  = outbox \cup {[of |-> c, counts |-> 0] : c \in tell}
      /\ hasty'   = (hasty \/ \E c \in tell : toldAt[c] > started /\ clock - toldAt[c] < OpsCooldown)
      /\ unread'  = unread \cup raises /\ tell \subseteq Conditions
      /\ \A c \in Conditions : c \in tell <=> c \notin raises /\ trouble[c].on /\ ~Throttled(c) BY <1>1 DEF Stamped
<1> HIDE DEF tell
<1>3. loop.at = "sweeps" /\ loop' = [loop EXCEPT !.at = "ping"] /\ loop'.at = "ping" /\ loop'.by = loop.by
  BY DEF Watch, AlarmsTyped
<1>4. UNCHANGED <<clock, trouble, toldAt, lost, started, pings, crashLog>> BY DEF Watch, life, pings
<1>5. AlarmsTyped'
  <2>1. opsLast' \in [Conditions -> 0..MaxClock] BY <1>2 DEF AlarmsTyped
  <2>2. outbox' \subseteq Messages BY <1>2 DEF AlarmsTyped, Messages
  <2>3. hasty' \in BOOLEAN /\ unread' \subseteq Conditions BY <1>2 DEF AlarmsTyped
  <2>4. loop' \in [at : {"wait", "sweeps", "ping", "hung"}, by : Nat] BY <1>3 DEF AlarmsTyped
  <2> QED BY <2>1, <2>2, <2>3, <2>4, <1>4 DEF AlarmsTyped, crashLog, pings
<1>6. Scheduling' BY <1>3, <1>4 DEF Scheduling, Fresh, pings
<1>7. \A m \in outbox' : m \in outbox \/ m.of \in tell BY <1>2
<1>8. \A s \in Routes : {m \in outbox' : m.of = s} = {m \in outbox : m.of = s} BY <1>2, <1>7, AlarmsAssumption
<1>9. Sending' /\ Tallying'
  <2>1. \A c \in Conditions : (\E m \in outbox' : m.of = c) => opsLast'[c] = clock BY <1>2, <1>7 DEF Sending
  <2>2. \A s \in Routes : \A m : m \in outbox' /\ m.of = s <=> m \in outbox /\ m.of = s BY <1>8
  <2>3. Sending' BY <2>1, <2>2, <1>4 DEF Sending, crashLog
  <2>4. Tallying' BY <2>2, <1>4 DEF Tallying, Tally, crashLog
  <2> QED BY <2>3, <2>4
<1>10. ~hasty'
  <2>1. ~hasty BY DEF Telling
  <2>2. ASSUME NEW c \in tell, toldAt[c] > started, clock - toldAt[c] < OpsCooldown PROVE FALSE
    <3>1. c \in Conditions /\ ~Throttled(c) BY <1>2
    <3>2. toldAt[c] <= opsLast[c] /\ opsLast[c] <= clock BY <2>2, <3>1 DEF Telling
    <3>3. toldAt[c] \in Nat /\ opsLast[c] \in Nat /\ clock \in Nat /\ started \in Nat BY <3>1 DEF AlarmsTyped
    <3> QED BY <2>2, <3>1, <3>2, <3>3, AlarmsAssumption DEF Throttled
  <2> QED BY <2>1, <2>2, <1>2
<1>11. ASSUME NEW c \in Conditions PROVE
         /\ opsLast'[c] <= clock /\ (toldAt[c] > started => toldAt[c] <= opsLast'[c])
         /\ Unanswered(c)' => Unanswered(c) /\ c \notin raises /\ WindowEnds(c)' = WindowEnds(c)
  <2>1. opsLast'[c] = clock \/ opsLast'[c] = opsLast[c] BY <1>2
  <2>2. toldAt[c] <= clock /\ opsLast[c] <= clock /\ (toldAt[c] > started => toldAt[c] <= opsLast[c]) /\ clock \in Nat
    BY DEF Telling, AlarmsTyped
  <2>3. Unanswered(c)' => Unanswered(c) /\ c \notin raises BY <1>2, <1>4 DEF Unanswered
  <2>4. WindowEnds(c)' = WindowEnds(c) BY <1>4 DEF WindowEnds, Latest
  <2> QED BY <2>1, <2>2, <2>3, <2>4
<1>12. ASSUME NEW c \in Conditions, Unanswered(c)', \A m \in outbox' : m.of # c PROVE Waiting(c)'
  <2>1. c \notin tell
    <3>1. c \in tell => [of |-> c, counts |-> 0] \in outbox' BY <1>2
    <3> QED BY <3>1, <1>12
  <2>2. Unanswered(c) /\ trouble[c].on /\ c \notin raises BY <1>11, <1>12 DEF Unanswered
  <2>3. Throttled(c) BY <1>2, <2>1, <2>2
  <2>4. \A m \in outbox : m.of # c BY <1>2, <1>12
  <2>5. Waiting(c) BY <2>2, <2>4, <1>3 DEF Telling
  <2>6. opsLast'[c] = opsLast[c] /\ WindowEnds(c)' = WindowEnds(c) BY <1>2, <2>1, <1>11, <1>12
  <2>7. /\ opsLast[c] \in Nat /\ clock \in Nat /\ started \in Nat /\ trouble[c].since \in Nat /\ loop.by \in Nat
    BY DEF AlarmsTyped
  <2>8. loop.by <= clock + MaxPass BY <1>3 DEF Scheduling
  <2>9. clock + 1 <= opsLast[c] + OpsCooldown BY <2>3, <2>7, AlarmsAssumption DEF Throttled
  <2>10. opsLast[c] + OpsCooldown <= WindowEnds(c) BY <2>5, <2>7, AlarmsAssumption DEF Waiting, WindowEnds, Latest
  <2>11. WindowEnds(c) \in Nat BY <2>7, AlarmsAssumption DEF WindowEnds, Latest
  <2>12. loop.by + 1 <= WindowEnds(c) + MaxPass BY <2>7, <2>8, <2>9, <2>10, <2>11, AlarmsAssumption
  <2> HIDE DEF AlarmsInv
  <2> QED BY <2>5, <2>6, <2>12, <1>3, <1>4 DEF Waiting
<1>13. Telling'
  <2>1. loop.at # "hung" BY <1>3
  <2> HIDE DEF AlarmsInv
  <2>2. AlarmsInv OBVIOUS
  <2> QED BY <2>1, <2>2, <1>4, <1>10, <1>11, <1>12 DEF Telling, AlarmsInv
<1> QED BY <1>5, <1>6, <1>9, <1>13

\* A crash is counted, or told of with those counted before it: none is being told of,
\* since its window would hide this one.
LEMMA CrashStep == ASSUME AlarmsInv, NEW s \in Routes, Crash(s) PROVE AlarmsInv'
<1> USE DEF AlarmsInv
<1>1. /\ crashed[s] < MaxCrashes /\ crashed' = [crashed EXCEPT ![s] = @ + 1]
      /\ UNCHANGED <<clock, loop, opsLast, hasty, reported, forgotten, opsLog, life, pings>> BY DEF Crash, life
<1>2. /\ clock \in Nat /\ clock > 0 /\ crashed[s] \in Nat /\ suppressed[s] \in Nat /\ reported[s] \in Nat /\ forgotten[s] \in Nat
  BY DEF AlarmsTyped
<1>3. crashed' \in [Routes -> 0..MaxCrashes] BY <1>1, AlarmsAssumption DEF AlarmsTyped
<1>4. \A r \in Routes : crashed'[r] = IF r = s THEN crashed[s] + 1 ELSE crashed[r] BY <1>1 DEF AlarmsTyped
<1>5. CASE Muffled(s)
  <2>1. suppressed' = [suppressed EXCEPT ![s] = @ + 1] /\ UNCHANGED <<errorLast, outbox>> BY <1>5 DEF Crash
  <2>2. AlarmsTyped' BY <1>1, <1>3, <2>1 DEF AlarmsTyped, opsLog, life, pings
  <2>3. \A r \in Routes : suppressed'[r] = IF r = s THEN suppressed[s] + 1 ELSE suppressed[r] BY <2>1 DEF AlarmsTyped
  <2>4. Sending' BY <1>1, <2>1 DEF Sending
  <2>5. Tallying'
    <3> SUFFICES ASSUME NEW r \in Routes
                 PROVE  /\ (\A m \in outbox : m.of # r) => crashed'[r] = Tally(r)'
                        /\ \A m \in outbox : m.of = r => crashed'[r] = Tally(r)' + m.counts BY <2>1 DEF Tallying
    <3>0. reported[r] \in Nat /\ suppressed[r] \in Nat /\ forgotten[r] \in Nat BY DEF AlarmsTyped
    <3>1. Tally(r) \in Nat /\ Tally(r)' = IF r = s THEN Tally(r) + 1 ELSE Tally(r) BY <2>3, <1>1, <1>2, <3>0 DEF Tally
    <3>2. \A m \in outbox : m.counts \in Nat BY DEF AlarmsTyped, Messages
    <3> QED BY <3>1, <3>2, <1>4 DEF Tallying
  <2>6. Scheduling' BY <1>1 DEF Scheduling, Fresh, life, pings
  <2>7. Telling' BY <1>1, <2>1 DEF Telling, Unanswered, Waiting, WindowEnds, Latest, opsLog, life, pings
  <2> QED BY <2>2, <2>4, <2>5, <2>6, <2>7
<1>6. CASE ~Muffled(s)
  <2> DEFINE new == [of |-> s, counts |-> suppressed[s] + 1]
  <2>1. /\ suppressed' = [suppressed EXCEPT ![s] = 0] /\ errorLast' = [errorLast EXCEPT ![s] = clock]
        /\ outbox' = outbox \cup {new} BY <1>6 DEF Crash, Leftover
  <2>2. new \in Messages /\ new.of = s /\ new.counts = suppressed[s] + 1 BY <1>2 DEF Messages
  <2> HIDE DEF new
  <2>3. AlarmsTyped'
    <3>1. suppressed' \in [Routes -> Nat] /\ errorLast' \in [Routes -> 0..MaxClock] BY <2>1 DEF AlarmsTyped
    <3>2. outbox' \subseteq Messages BY <2>1, <2>2 DEF AlarmsTyped
    <3> QED BY <1>1, <1>3, <3>1, <3>2 DEF AlarmsTyped, opsLog, life, pings
  <2>4. \A m \in outbox : m.of # s
    <3>1. (\E m \in outbox : m.of = s) => errorLast[s] = clock BY DEF Sending
    <3>2. errorLast[s] # clock BY <1>2, <1>6, AlarmsAssumption DEF Muffled
    <3> QED BY <3>1, <3>2
  <2>5. /\ \A r \in Routes : suppressed'[r] = IF r = s THEN 0 ELSE suppressed[r]
        /\ \A r \in Routes : errorLast'[r] = IF r = s THEN clock ELSE errorLast[r] BY <2>1 DEF AlarmsTyped
  <2>6. \A c \in Conditions : \A m : m \in outbox' /\ m.of = c <=> m \in outbox /\ m.of = c
    BY <2>1, <2>2, AlarmsAssumption
  <2>7. Sending'
    <3>1. \A c \in Conditions : (\E m \in outbox' : m.of = c) => opsLast'[c] = clock' BY <1>1, <2>6 DEF Sending
    <3>2. \A r \in Routes : (\E m \in outbox' : m.of = r) => errorLast'[r] = clock'
      BY <1>1, <2>1, <2>2, <2>5 DEF Sending
    <3>3. \A m, n \in outbox' : m.of \in Routes /\ m.of = n.of => m = n BY <2>1, <2>2, <2>4 DEF Sending
    <3> QED BY <3>1, <3>2, <3>3 DEF Sending
  <2>8. Tallying'
    <3> SUFFICES ASSUME NEW r \in Routes
                 PROVE  /\ (\A m \in outbox' : m.of # r) => crashed'[r] = Tally(r)'
                        /\ \A m \in outbox' : m.of = r => crashed'[r] = Tally(r)' + m.counts BY DEF Tallying
    <3>1. CASE r = s
      <4>1. crashed[s] = reported[s] + suppressed[s] + forgotten[s] BY <2>4 DEF Tallying, Tally
      <4>2. Tally(s)' = reported[s] + forgotten[s] BY <1>1, <1>2, <2>5 DEF Tally
      <4>3. \A m \in outbox' : m.of = s => m = new BY <2>1, <2>4
      <4>4. new \in outbox' /\ new.of = s BY <2>1, <2>2
      <4> QED BY <4>1, <4>2, <4>3, <4>4, <3>1, <2>2, <1>2, <1>4
    <3>2. CASE r # s
      <4>1. Tally(r)' = Tally(r) /\ crashed'[r] = crashed[r] BY <3>2, <1>1, <1>4, <2>5 DEF Tally
      <4>2. \A m : m \in outbox' /\ m.of = r <=> m \in outbox /\ m.of = r BY <2>1, <2>2, <3>2
      <4> QED BY <4>1, <4>2 DEF Tallying
    <3> QED BY <3>1, <3>2
  <2>9. Scheduling' BY <1>1 DEF Scheduling, Fresh, life, pings
  <2>10. Telling'
    <3>1. \A c \in Conditions : (\A m \in outbox' : m.of # c) <=> (\A m \in outbox : m.of # c) BY <2>6
    <3> QED BY <1>1, <3>1 DEF Telling, Unanswered, Waiting, WindowEnds, Latest, opsLog, life, pings
  <2> QED BY <2>3, <2>7, <2>8, <2>9, <2>10
<1> QED BY <1>5, <1>6

\* A message that ends reports its crashes, or answers the trouble it is of.
LEMMA MessageStep == ASSUME AlarmsInv, NEW m \in outbox, NEW arrives \in BOOLEAN, SendEnds(m, arrives) PROVE AlarmsInv'
<1> USE DEF AlarmsInv
<1>1. /\ outbox' = outbox \ {m} /\ reported' = Counted(m)
      /\ toldAt' = IF m.of \in Conditions /\ arrives THEN [toldAt EXCEPT ![m.of] = clock] ELSE toldAt
      /\ lost' = IF m.of \in Conditions /\ ~arrives THEN [lost EXCEPT ![m.of] = clock] ELSE lost
      /\ UNCHANGED <<clock, loop, opsLast, errorLast, suppressed, hasty, trouble, unread, crashed, forgotten, life>>
  BY DEF SendEnds
<1>2. m \in Messages /\ m.counts \in Nat /\ m.of \in Conditions \cup Routes /\ clock \in Nat
  BY DEF AlarmsTyped, Messages
<1>3. /\ toldAt' \in [Conditions -> 0..MaxClock] /\ lost' \in [Conditions -> 0..MaxClock]
      /\ reported' \in [Routes -> Nat] BY <1>1, <1>2 DEF AlarmsTyped, Counted
<1>4. /\ \A c \in Conditions : toldAt'[c] = IF c = m.of /\ arrives THEN clock ELSE toldAt[c]
      /\ \A c \in Conditions : lost'[c] = IF c = m.of /\ ~arrives THEN clock ELSE lost[c]
      /\ \A s \in Routes : reported'[s] = IF s = m.of THEN reported[s] + m.counts ELSE reported[s]
  BY <1>1, <1>2 DEF AlarmsTyped, Counted
<1>5. AlarmsTyped' BY <1>1, <1>3 DEF AlarmsTyped, life, pings
<1>6. Scheduling' BY <1>1 DEF Scheduling, Fresh, life, pings
<1>7. Sending' BY <1>1 DEF Sending
<1>8. Tallying'
  <2> SUFFICES ASSUME NEW s \in Routes
               PROVE  /\ (\A n \in outbox' : n.of # s) => crashed[s] = Tally(s)'
                      /\ \A n \in outbox' : n.of = s => crashed[s] = Tally(s)' + n.counts BY <1>1 DEF Tallying
  <2>1. CASE s = m.of
    <3>1. crashed[s] = reported[s] + suppressed[s] + forgotten[s] + m.counts BY <2>1 DEF Tallying, Tally
    <3>2. Tally(s)' = reported[s] + m.counts + suppressed[s] + forgotten[s] BY <2>1, <1>1, <1>4 DEF Tally
    <3>3. \A n \in outbox' : n.of # s BY <2>1, <1>1 DEF Sending
    <3>4. reported[s] \in Nat /\ suppressed[s] \in Nat /\ forgotten[s] \in Nat BY DEF AlarmsTyped
    <3> QED BY <3>1, <3>2, <3>3, <3>4, <1>2
  <2>2. CASE s # m.of
    <3>1. Tally(s)' = Tally(s) BY <2>2, <1>1, <1>4 DEF Tally
    <3>2. \A n : n \in outbox' /\ n.of = s <=> n \in outbox /\ n.of = s BY <1>1, <2>2
    <3> QED BY <3>1, <3>2 DEF Tallying
  <2> QED BY <2>1, <2>2
<1>9. Telling'
  <2>1. ASSUME NEW c \in Conditions, c # m.of PROVE
          /\ toldAt'[c] = toldAt[c] /\ lost'[c] = lost[c]
          /\ Unanswered(c)' = Unanswered(c) /\ WindowEnds(c)' = WindowEnds(c) /\ Waiting(c)' = Waiting(c)
          /\ (\A n \in outbox' : n.of # c) <=> (\A n \in outbox : n.of # c)
    <3>1. toldAt'[c] = toldAt[c] /\ lost'[c] = lost[c] BY <1>4, <2>1
    <3>2. Unanswered(c)' = Unanswered(c) BY <3>1, <1>1 DEF Unanswered
    <3>3. WindowEnds(c)' = WindowEnds(c) /\ Waiting(c)' = Waiting(c) BY <1>1 DEF WindowEnds, Waiting, Latest, life, pings
    <3>4. (\A n \in outbox' : n.of # c) <=> (\A n \in outbox : n.of # c) BY <1>1, <2>1
    <3> QED BY <3>1, <3>2, <3>3, <3>4
  <2>2. ASSUME NEW c \in Conditions, c = m.of PROVE
          /\ toldAt'[c] <= clock /\ lost'[c] <= clock
          /\ ~Unanswered(c)'
    <3>1. opsLast[c] = clock BY <2>2 DEF Sending
    <3>2. toldAt[c] <= clock /\ lost[c] <= clock /\ trouble[c].since <= clock /\ trouble[c].since \in Nat
      BY DEF Telling, AlarmsTyped
    <3>3. toldAt'[c] = clock \/ lost'[c] = clock BY <1>4, <2>2
    <3>4. ~Unanswered(c)' BY <1>1, <1>2, <3>2, <3>3 DEF Unanswered
    <3> QED BY <3>1, <3>2, <3>4, <1>2, <1>4
  <2>3. UNCHANGED <<clock, loop, opsLast, hasty, trouble, started>> BY <1>1 DEF life, pings
  <2>4. \A c \in Conditions : toldAt'[c] <= clock /\ lost'[c] <= clock BY <2>1, <2>2 DEF Telling
  <2>5. \A c \in Conditions : toldAt'[c] > started => toldAt'[c] <= opsLast[c]
    <3> SUFFICES ASSUME NEW c \in Conditions PROVE toldAt'[c] > started => toldAt'[c] <= opsLast[c] OBVIOUS
    <3>1. c = m.of => opsLast[c] = clock BY DEF Sending
    <3>2. toldAt[c] > started => toldAt[c] <= opsLast[c] BY DEF Telling
    <3> QED BY <3>1, <3>2, <2>1, <2>4
  <2> HIDE DEF AlarmsInv
  <2>6. AlarmsInv OBVIOUS
  <2>7. \A c \in Conditions : Unanswered(c)' => c # m.of BY <2>2
  <2> QED BY <2>1, <2>3, <2>4, <2>5, <2>6, <2>7 DEF Telling, AlarmsInv
<1> QED BY <1>5, <1>6, <1>7, <1>8, <1>9

\* A restart starts every window and every promise anew.
LEMMA RestartStep == ASSUME AlarmsInv, ServiceRestarts PROVE AlarmsInv'
<1> USE DEF AlarmsInv, opsLog
<1>1. /\ started' = clock /\ loop' = [at |-> "wait", by |-> clock + 1]
      /\ opsLast' = [c \in Conditions |-> 0] /\ errorLast' = [s \in Routes |-> 0]
      /\ suppressed' = [s \in Routes |-> 0] /\ outbox' = {}
      /\ forgotten' = [s \in Routes |-> crashed[s] - reported[s]]
      /\ UNCHANGED <<clock, hasty, crashed, reported, lastPing, lostPing, opsLog>> /\ beat' = FALSE
  BY DEF ServiceRestarts
<1>2. \A s \in Routes : crashed[s] - reported[s] \in Nat
  <2> SUFFICES ASSUME NEW s \in Routes PROVE crashed[s] - reported[s] \in Nat OBVIOUS
  <2>1. reported[s] \in Nat /\ suppressed[s] \in Nat /\ forgotten[s] \in Nat /\ crashed[s] \in Nat BY DEF AlarmsTyped
  <2>2. CASE \A m \in outbox : m.of # s BY <2>1, <2>2 DEF Tallying, Tally
  <2>3. CASE \E m \in outbox : m.of = s
    <3>1. PICK m \in outbox : m.of = s BY <2>3
    <3>2. m.counts \in Nat BY DEF AlarmsTyped, Messages
    <3> QED BY <2>1, <3>1, <3>2 DEF Tallying, Tally
  <2> QED BY <2>2, <2>3
<1>3. AlarmsTyped'
  <2>1. clock \in Nat /\ 0 \in 0..MaxClock BY AlarmsAssumption DEF AlarmsTyped
  <2>2. /\ opsLast' \in [Conditions -> 0..MaxClock] /\ errorLast' \in [Routes -> 0..MaxClock]
        /\ suppressed' \in [Routes -> Nat] /\ forgotten' \in [Routes -> Nat] /\ outbox' \subseteq Messages
        /\ loop' \in [at : {"wait", "sweeps", "ping", "hung"}, by : Nat] BY <2>1, <1>1, <1>2
  <2> QED BY <2>2, <1>1 DEF AlarmsTyped
<1>4. Scheduling' BY <1>1 DEF Scheduling, Fresh, AlarmsTyped
<1>5. Sending' BY <1>1 DEF Sending
<1>6. Tallying'
  <2>1. \A s \in Routes : Tally(s)' = crashed[s] BY <1>1, <1>2 DEF Tally, AlarmsTyped
  <2> QED BY <2>1, <1>1 DEF Tallying
<1>7. ASSUME NEW c \in Conditions PROVE clock <= WindowEnds(c)' + 2 * MaxPass /\ Waiting(c)'
  <2>1. trouble'[c].since = trouble[c].since /\ trouble[c].since \in Nat /\ trouble[c].since <= clock /\ clock \in Nat
    BY <1>1 DEF AlarmsTyped, Telling
  <2>2. WindowEnds(c)' = clock + OpsCooldown BY <1>1, <2>1 DEF WindowEnds, Latest
  <2>3. opsLast'[c] = 0 /\ loop'.at = "wait" /\ loop'.by = clock + 1 BY <1>1
  <2> QED BY <2>1, <2>2, <2>3, AlarmsAssumption DEF Waiting
<1>8. Telling'
  <2>1. \A c \in Conditions : opsLast'[c] = 0 /\ 0 <= clock BY <1>1 DEF AlarmsTyped
  <2>2. \A c \in Conditions : toldAt[c] <= clock /\ toldAt[c] \in Nat /\ clock \in Nat BY DEF AlarmsTyped, Telling
  <2>3. \A c \in Conditions : ~(toldAt'[c] > started') BY <2>2, <1>1
  <2> HIDE DEF AlarmsInv
  <2>4. AlarmsInv OBVIOUS
  <2> QED BY <2>1, <2>3, <2>4, <1>1, <1>7 DEF Telling, AlarmsInv
<1> QED BY <1>3, <1>4, <1>5, <1>6, <1>8

LEMMA AlarmsStep == AlarmsInv /\ [AlarmsNext]_alarmVars => AlarmsInv'
<1> SUFFICES ASSUME AlarmsInv, [AlarmsNext]_alarmVars PROVE AlarmsInv' OBVIOUS
<1>1. CASE UNCHANGED alarmVars
  BY <1>1 DEF alarmVars, AlarmsInv, AlarmsTyped, Scheduling, Fresh, Sending, Tallying, Tally, Telling, Unanswered,
              Waiting, WindowEnds, Latest
<1> QED BY <1>1, MinuteStep, StartsStep, EndsStep, WakesStep, HangsStep, WatchStep, PingStep, CrashStep,
           MessageStep, RestartStep, BeatStep DEF AlarmsNext

\* The invariant says what the run checks.
LEMMA AlarmsMeans == AlarmsInv => AlarmsTypeOK /\ AlarmsAreSound
<1> SUFFICES ASSUME AlarmsInv PROVE AlarmsTypeOK /\ AlarmsAreSound OBVIOUS
<1> USE DEF AlarmsInv
<1>1. \A s \in Routes, m \in outbox : m.of = s =>
        (CHOOSE n \in {x \in outbox : x.of = s} : TRUE).counts = m.counts
  <2> SUFFICES ASSUME NEW s \in Routes, NEW m \in outbox, m.of = s
               PROVE  (CHOOSE n \in {x \in outbox : x.of = s} : TRUE) = m
    OBVIOUS
  <2>1. {x \in outbox : x.of = s} = {m} BY DEF Sending
  <2>2. (CHOOSE n \in {m} : TRUE) \in {m} OBVIOUS
  <2> QED BY <2>1, <2>2
<1>2. CrashesAreAccounted
  <2> SUFFICES ASSUME NEW s \in Routes
               PROVE  crashed[s] = reported[s] + suppressed[s] + forgotten[s]
                        + (IF {m \in outbox : m.of = s} = {} THEN 0
                           ELSE (CHOOSE m \in {x \in outbox : x.of = s} : TRUE).counts) BY DEF CrashesAreAccounted
  <2>1. Tally(s) \in Nat /\ Tally(s) = reported[s] + suppressed[s] + forgotten[s] BY DEF AlarmsTyped, Tally
  <2>2. CASE {m \in outbox : m.of = s} = {}
    <3>1. crashed[s] = Tally(s) BY <2>2 DEF Tallying
    <3> QED BY <2>1, <2>2, <3>1
  <2>3. CASE {m \in outbox : m.of = s} # {}
    <3>1. PICK m : m \in outbox /\ m.of = s BY <2>3
    <3>2. crashed[s] = Tally(s) + m.counts BY <3>1 DEF Tallying
    <3> QED BY <2>1, <2>3, <3>1, <3>2, <1>1
  <2> QED BY <2>2, <2>3
<1>3. suppressed \in [Routes -> 0..MaxCrashes]
  <2>1. ASSUME NEW s \in Routes PROVE suppressed[s] \in 0..MaxCrashes
    <3>1. reported[s] \in Nat /\ suppressed[s] \in Nat /\ forgotten[s] \in Nat /\ crashed[s] \in 0..MaxCrashes BY DEF AlarmsTyped
    <3>2. CASE \A m \in outbox : m.of # s BY <3>1, <3>2, AlarmsAssumption DEF Tallying, Tally
    <3>3. CASE \E m \in outbox : m.of = s
      <4>1. PICK m \in outbox : m.of = s BY <3>3
      <4>2. m.counts \in Nat BY DEF AlarmsTyped, Messages
      <4> QED BY <3>1, <4>1, <4>2, AlarmsAssumption DEF Tallying, Tally
    <3> QED BY <3>2, <3>3
  <2> QED BY <2>1 DEF AlarmsTyped
<1>4. AlarmsTypeOK BY <1>3 DEF AlarmsTypeOK, AlarmsTyped, Messages
<1>5. OpsAlertsAreSpaced BY DEF OpsAlertsAreSpaced, Telling
<1>6. SilenceMeansStopped BY AlarmsAssumption DEF SilenceMeansStopped, Recently, Scheduling, Fresh, AlarmsTyped
<1>7. LastingTroubleIsTold
  <2> SUFFICES ASSUME NEW c \in Conditions, trouble[c].on, loop.at # "hung",
                      ~(toldAt[c] >= trouble[c].since \/ lost[c] >= trouble[c].since \/ c \in unread)
               PROVE  ~(clock - Latest(c) > OpsCooldown + 2 * MaxPass) BY DEF LastingTroubleIsTold
  <2>1. toldAt[c] \in Nat /\ lost[c] \in Nat /\ trouble[c].since \in Nat /\ clock \in Nat /\ started \in Nat
    BY DEF AlarmsTyped
  <2>2. Unanswered(c) BY <2>1 DEF Unanswered
  <2>3. clock <= WindowEnds(c) + 2 * MaxPass BY <2>2 DEF Telling
  <2>4. Latest(c) \in Nat BY <2>1 DEF Latest
  <2> QED BY <2>1, <2>3, <2>4, AlarmsAssumption DEF WindowEnds
<1> QED BY <1>2, <1>4, <1>5, <1>6, <1>7 DEF AlarmsAreSound

(* Sweeps: what is told, in doubt, marked or still to be told.             *)

ShootKinds == {"48h", "24h", "sms"}
AlbumKinds == {"expiry", "proofing", "review"}
NoticeKinds == ShootKinds \cup AlbumKinds \cup {"dunning", "contract", "anniversary", "digest"}
Subjects == Shoots \cup Albums \cup Bills \cup Papers \cup Patrons \cup {"owner"}

\* A notice is of a subject of its kind.
OfItsKind(n) ==
  /\ n.kind \in ShootKinds   => n.of \in Shoots
  /\ n.kind \in AlbumKinds   => n.of \in Albums /\ n.stage = 0
  /\ n.kind = "review"       => n.key = 0
  /\ n.kind = "dunning"      => n.of \in Bills
  /\ n.kind = "contract"     => n.of \in Papers
  /\ n.kind = "anniversary"  => n.of \in Patrons

Notices == {n \in [kind : NoticeKinds, of : Subjects, key : Dates, stage : Nat] : OfItsKind(n)}

ShootRows  == [status : {"absent", "confirmed", "cancelled"}, start : Dates, phone : BOOLEAN, told : SUBSET ShootKinds]
AlbumRows  == [made : Dates, client : Patrons \cup {NoPatron}, published : BOOLEAN, expires : Dates, unpicked : BOOLEAN,
               told : SUBSET {"expiry", "proofing"}, asked : Dates]
BillRows   == [status : {"draft", "sent", "paid"}, due : Dates, editing : BOOLEAN, dunned : SUBSET Notices]
PaperRows  == [status : {"draft", "sent", "signed"}, since : Dates, told : BOOLEAN]
PatronRows == [closed : Dates, back : BOOLEAN, nudged : Dates]
SaveRows   == [expires : Dates, told : SUBSET {"expiry"}, open : BOOLEAN]

\* What each variable is.
SweepsTyped ==
  /\ day \in 1..LastDay
  /\ shoot \in [Shoots -> ShootRows] /\ album \in [Albums -> AlbumRows] /\ bill \in [Bills -> BillRows]
  /\ paper \in [Papers -> PaperRows] /\ patron \in [Patrons -> PatronRows] /\ digests \subseteq Dates
  /\ saving \in [Albums -> SaveRows] /\ \A k \in Patrons : patron[k].nudged <= day
  /\ todo \subseteq Notices /\ item \in Notices \cup {NoNotice} /\ item \notin todo
  /\ told \subseteq Notices /\ doubt \subseteq told

\* The notices the thread has in hand.
InHand == (todo \cup {item}) \ {NoNotice}

\* The mark by which the next pass sees that this notice was told.
Marked(n) ==
  /\ n.kind \in ShootKinds             => n.kind \in shoot[n.of].told
  /\ n.kind \in {"expiry", "proofing"} => n.kind \in album[n.of].told
  /\ n.kind = "review"      => album[n.of].asked # 0
  /\ n.kind = "dunning"     => n \in bill[n.of].dunned
  /\ n.kind = "contract"    => paper[n.of].told
  /\ n.kind = "anniversary" => patron[n.of].nudged # 0 /\ patron[n.of].nudged >= n.key + YearAge
  /\ n.kind = "digest"      => n.key \in digests

\* What was told and is not in doubt is marked, or is next to be; what waits to be told was not.
Marking ==
  /\ twice = {}
  /\ \A n \in told \ doubt : n = item \/ Marked(n)
  /\ todo \cap told \subseteq doubt
  /\ \A s \in Shoots : shoot[s].status = "absent" => shoot[s].told = {}
  /\ \A n \in InHand : n.kind \in ShootKinds => shoot[n.of].status # "absent"
  /\ \A n \in InHand : n.kind = "anniversary" => n.key + YearAge <= day

\* What waits to be told is so, or changed since it was read.
Truth == misled = {} /\ \A n \in todo : IsSo(n) \/ n.of \in moved

\* A reminder of an expiry in hand is of the gallery's date, or the date changed meanwhile;
\* a save that is open read the date the gallery has, and no mark the gallery has not.
Dating ==
  /\ \A a \in Albums : saving[a].open => saving[a].expires = album[a].expires /\ saving[a].told \subseteq album[a].told
  /\ \A n \in InHand : n.kind = "expiry" => n.key = album[n.of].expires \/ n.of \in crossed
  /\ item.kind = "expiry" => item \in told \/ item.of \in crossed
  /\ ReminderIsOfThisDate

\* Why the ask of b did not hold up that of a, read later: one sweep read both, or b was
\* not the client's then.
Excuse(b, a) == {a, b} \subseteq together \/ <<b, a>> \in strayed

\* A gallery in hand for an ask was not asked about, and its client not of late, but for
\* excuses.
Asking ==
  /\ \A n \in InHand : n.kind = "review" =>
       /\ album[n.of].asked = 0
       /\ \A b \in Albums : whom[b] = whom[n.of] /\ album[b].asked # 0 =>
            album[b].asked + Cooldown <= day \/ Excuse(b, n.of)
       /\ \A m \in InHand : m.kind = "review" /\ m # n /\ whom[m.of] = whom[n.of] => {m.of, n.of} \subseteq together
  /\ AsksAreSpaced

SweepsInv == SweepsTyped /\ Marking /\ Truth /\ Dating /\ Asking

(* What is due *)

LEMMA MaxIsThere ==
  ASSUME NEW S \in SUBSET Nat, NEW x0 \in S, NEW top \in Nat, \A x \in S : x <= top
  PROVE  Max(S) \in S
<1> DEFINE above == {u \in Nat : \A x \in S : x <= u}
<1>1. top \in above OBVIOUS
<1>2. above \in SUBSET Nat /\ above # {} BY <1>1
<1> HIDE DEF above
<1>3. PICK u \in above : \A v \in above : u <= v BY <1>2, NumbersLeast
<1>4. u \in Nat /\ \A x \in S : x <= u BY <1>3 DEF above
<1>5. u \in S
  <2> SUFFICES ASSUME u \notin S PROVE FALSE OBVIOUS
  <2>1. \A x \in S : x <= u - 1 /\ x \in Nat BY <1>4
  <2>2. u - 1 \in Nat BY <2>1, <1>4
  <2>3. u - 1 \in above BY <2>1, <2>2 DEF above
  <2> QED BY <2>3, <1>3, <1>4
<1>6. \E x \in S : \A y \in S : x >= y BY <1>4, <1>5
<1> QED BY <1>6 DEF Max

LEMMA StageIsNat == ASSUME NEW d \in Int PROVE StageFor(d) \in Nat
<1> DEFINE S == {0} \cup {i \in DOMAIN Opens : d >= Opens[i]}
<1>1. Opens \in Seq(Nat) BY SweepsAssumption
<1>2. DOMAIN Opens = 1..Len(Opens) /\ Len(Opens) \in Nat BY <1>1
<1>3. S \in SUBSET Nat /\ 0 \in S /\ \A x \in S : x <= Len(Opens) BY <1>2
<1> HIDE DEF S
<1>4. Max(S) \in S BY <1>2, <1>3, MaxIsThere
<1> QED BY <1>3, <1>4 DEF S, StageFor

LEMMA WeekIs == ASSUME day \in 1..LastDay PROVE Week \in Nat /\ Week <= day
<1>1. WeekDays \in Nat \ {0} /\ LastDay \in Nat BY SweepsAssumption
<1>2. day \in Nat BY <1>1
<1> QED BY <1>1, <1>2 DEF Week

\* Is it so: kind by kind.
LEMMA IsSoMeans ==
  ASSUME NEW n \in Notices
  PROVE  IsSo(n) <=>
    /\ n.kind \in ShootKinds => shoot[n.of].status = "confirmed" /\ shoot[n.of].start = n.key /\ day < n.key
    /\ n.kind = "expiry"      => album[n.of].published /\ album[n.of].expires = n.key /\ day <= n.key
    /\ n.kind = "proofing"    => album[n.of].published /\ album[n.of].unpicked
    /\ n.kind = "review"      => album[n.of].published /\ (album[n.of].expires = 0 \/ day <= album[n.of].expires)
    /\ n.kind = "dunning"     => bill[n.of].status = "sent" /\ bill[n.of].due = n.key /\ n.key < day
    /\ n.kind = "contract"    => paper[n.of].status = "sent"
    /\ n.kind = "anniversary" => ~patron[n.of].back
    /\ n.kind = "digest"      => n.key < Week
<1>1. n.kind \in NoticeKinds BY DEF Notices
<1>2. CASE n.kind \in ShootKinds BY <1>2 DEF IsSo, ShootKinds
<1>3. CASE n.kind = "expiry" BY <1>3 DEF IsSo, ShootKinds
<1>4. CASE n.kind = "proofing" BY <1>4 DEF IsSo, ShootKinds
<1>5. CASE n.kind = "review" BY <1>5 DEF IsSo, ShootKinds
<1>6. CASE n.kind = "dunning" BY <1>6 DEF IsSo, ShootKinds
<1>7. CASE n.kind = "contract" BY <1>7 DEF IsSo, ShootKinds
<1>8. CASE n.kind = "anniversary" BY <1>8 DEF IsSo, ShootKinds
<1>9. CASE n.kind = "digest" BY <1>9 DEF IsSo, ShootKinds
<1> QED BY <1>1, <1>2, <1>3, <1>4, <1>5, <1>6, <1>7, <1>8, <1>9 DEF NoticeKinds, AlbumKinds

\* What one statement reads as due is a set of notices, each so, none marked.
DueIsRight(n) ==
  /\ n \in Notices /\ IsSo(n) /\ ~Marked(n)
  /\ n.kind \in ShootKinds => shoot[n.of].status # "absent"
  /\ n.kind = "anniversary" => n.key + YearAge <= day
  /\ n.kind = "expiry" => n.key = album[n.of].expires
  /\ n.kind = "review" => album[n.of].asked = 0 /\ album[n.of].client # NoPatron /\ Cool(album[n.of].client)

LEMMA NoticeIs ==
  ASSUME NEW kind \in NoticeKinds, NEW of \in Subjects, NEW key \in Dates
  PROVE  /\ Notice(kind, of, key) \in [kind : NoticeKinds, of : Subjects, key : Dates, stage : Nat]
         /\ Notice(kind, of, key).kind = kind /\ Notice(kind, of, key).of = of
         /\ Notice(kind, of, key).key = key /\ Notice(kind, of, key).stage = 0
BY DEF Notice

LEMMA ShootsDueRight == ASSUME SweepsTyped, NEW n \in ShootsDue PROVE DueIsRight(n)
<1>1. PICK q : /\ q \in {"48h", "24h", "sms"} \X Shoots /\ n = Notice(q[1], q[2], shoot[q[2]].start)
               /\ q[1] \notin shoot[q[2]].told
               /\ (IF shoot[q[2]].status = "confirmed" THEN shoot[q[2]].start - day ELSE 0) \in {1, 2}
  BY DEF ShootsDue
<1> DEFINE kind == q[1]
           s == q[2]
<1>2. kind \in ShootKinds /\ s \in Shoots /\ shoot[s] \in ShootRows /\ day \in Nat BY <1>1 DEF ShootKinds, SweepsTyped
<1>3. shoot[s].status = "confirmed" /\ shoot[s].start - day \in {1, 2} /\ kind \notin shoot[s].told BY <1>1
<1>4. n = Notice(kind, s, shoot[s].start) BY <1>1
<1> HIDE DEF kind, s
<1>5. kind \in NoticeKinds /\ s \in Subjects /\ shoot[s].start \in Dates BY <1>2 DEF ShootRows, NoticeKinds, Subjects
<1>6. /\ n \in [kind : NoticeKinds, of : Subjects, key : Dates, stage : Nat]
      /\ n.kind = kind /\ n.of = s /\ n.key = shoot[s].start /\ n.stage = 0 BY <1>4, <1>5, NoticeIs
<1>7. n \in Notices BY <1>2, <1>6 DEF Notices, OfItsKind, ShootKinds, AlbumKinds
<1>8. day < n.key BY <1>2, <1>3, <1>5, <1>6 DEF Dates
<1>9. IsSo(n) BY <1>2, <1>3, <1>6, <1>7, <1>8, IsSoMeans DEF ShootKinds
<1> QED BY <1>2, <1>3, <1>6, <1>7, <1>9 DEF DueIsRight, Marked, ShootKinds

LEMMA ExpiryDueRight == ASSUME SweepsTyped, NEW n \in ExpiryDue PROVE DueIsRight(n)
<1>1. PICK a \in Albums : /\ n = Notice("expiry", a, album[a].expires) /\ album[a].published
                          /\ "expiry" \notin album[a].told /\ album[a].expires - day \in 0..ExpiryLead
  BY DEF ExpiryDue
<1>2. album[a] \in AlbumRows /\ day \in Nat /\ ExpiryLead \in Nat BY SweepsAssumption DEF SweepsTyped
<1>3. "expiry" \in NoticeKinds /\ a \in Subjects /\ album[a].expires \in Dates
  BY <1>2 DEF AlbumRows, NoticeKinds, AlbumKinds, Subjects
<1>4. /\ n \in [kind : NoticeKinds, of : Subjects, key : Dates, stage : Nat]
      /\ n.kind = "expiry" /\ n.of = a /\ n.key = album[a].expires /\ n.stage = 0 BY <1>1, <1>3, NoticeIs
<1>5. n \in Notices BY <1>4 DEF Notices, OfItsKind, ShootKinds, AlbumKinds
<1>6. day <= n.key BY <1>1, <1>2, <1>3, <1>4 DEF Dates
<1>7. IsSo(n) BY <1>1, <1>4, <1>5, <1>6, IsSoMeans DEF ShootKinds
<1> QED BY <1>1, <1>4, <1>5, <1>7 DEF DueIsRight, Marked, ShootKinds

LEMMA PicksDueRight == ASSUME SweepsTyped, NEW n \in PicksDue PROVE DueIsRight(n)
<1>1. PICK a \in Albums : /\ n = Notice("proofing", a, 0) /\ album[a].published
                          /\ "proofing" \notin album[a].told /\ album[a].unpicked BY DEF PicksDue
<1>2. "proofing" \in NoticeKinds /\ a \in Subjects /\ 0 \in Dates
  BY SweepsAssumption DEF NoticeKinds, AlbumKinds, Subjects, Dates
<1>3. /\ n \in [kind : NoticeKinds, of : Subjects, key : Dates, stage : Nat]
      /\ n.kind = "proofing" /\ n.of = a /\ n.key = 0 /\ n.stage = 0 BY <1>1, <1>2, NoticeIs
<1>4. n \in Notices BY <1>3 DEF Notices, OfItsKind, ShootKinds, AlbumKinds
<1>5. IsSo(n) BY <1>1, <1>3, <1>4, IsSoMeans DEF ShootKinds
<1> QED BY <1>1, <1>3, <1>4, <1>5 DEF DueIsRight, Marked, ShootKinds

LEMMA ReviewsDueRight == ASSUME SweepsTyped, NEW n \in ReviewsDue PROVE DueIsRight(n) /\ n.kind = "review"
<1>1. PICK a \in Albums : /\ n = Notice("review", a, 0) /\ album[a].published /\ album[a].asked = 0
                          /\ (album[a].expires = 0 \/ album[a].expires >= day)
                          /\ album[a].client # NoPatron /\ Cool(album[a].client) BY DEF ReviewsDue
<1>2. "review" \in NoticeKinds /\ a \in Subjects /\ 0 \in Dates
  BY SweepsAssumption DEF NoticeKinds, AlbumKinds, Subjects, Dates
<1>3. /\ n \in [kind : NoticeKinds, of : Subjects, key : Dates, stage : Nat]
      /\ n.kind = "review" /\ n.of = a /\ n.key = 0 /\ n.stage = 0 BY <1>1, <1>2, NoticeIs
<1>4. n \in Notices BY <1>3 DEF Notices, OfItsKind, ShootKinds, AlbumKinds
<1>5. album[a] \in AlbumRows /\ day \in Nat BY SweepsAssumption DEF SweepsTyped
<1>6. album[a].expires = 0 \/ day <= album[a].expires BY <1>1, <1>5 DEF AlbumRows, Dates
<1>7. IsSo(n) BY <1>1, <1>3, <1>4, <1>6, IsSoMeans DEF ShootKinds
<1> QED BY <1>1, <1>3, <1>4, <1>7 DEF DueIsRight, Marked, ShootKinds

LEMMA BillsDueRight == ASSUME SweepsTyped, NEW n \in BillsDue PROVE DueIsRight(n)
<1>1. PICK b \in Bills : /\ n = Chase(b) /\ bill[b].status = "sent" /\ bill[b].due < day /\ n \notin bill[b].dunned
  BY DEF BillsDue
<1>2. bill[b] \in BillRows /\ day \in Nat BY SweepsAssumption DEF SweepsTyped
<1>3. "dunning" \in NoticeKinds /\ b \in Subjects /\ bill[b].due \in Dates
  BY <1>2 DEF BillRows, NoticeKinds, AlbumKinds, Subjects
<1> DEFINE plain == Notice("dunning", b, bill[b].due)
<1>4. /\ plain \in [kind : NoticeKinds, of : Subjects, key : Dates, stage : Nat]
      /\ plain.kind = "dunning" /\ plain.of = b /\ plain.key = bill[b].due BY <1>3, NoticeIs
<1>5. n = [plain EXCEPT !.stage = StageFor(day - bill[b].due)] BY <1>1 DEF Chase
<1> HIDE DEF plain
<1>6. StageFor(day - bill[b].due) \in Nat BY <1>2, <1>3, StageIsNat DEF Dates
<1>7. /\ n \in [kind : NoticeKinds, of : Subjects, key : Dates, stage : Nat]
      /\ n.kind = "dunning" /\ n.of = b /\ n.key = bill[b].due BY <1>4, <1>5, <1>6
<1>8. n \in Notices BY <1>7 DEF Notices, OfItsKind, ShootKinds, AlbumKinds
<1>9. IsSo(n) BY <1>1, <1>7, <1>8, IsSoMeans DEF ShootKinds
<1> QED BY <1>1, <1>7, <1>8, <1>9 DEF DueIsRight, Marked, ShootKinds

LEMMA PapersDueRight == ASSUME SweepsTyped, NEW n \in PapersDue PROVE DueIsRight(n)
<1>1. PICK p \in Papers : n = Notice("contract", p, 0) /\ paper[p].status = "sent" /\ ~paper[p].told BY DEF PapersDue
<1>2. "contract" \in NoticeKinds /\ p \in Subjects /\ 0 \in Dates
  BY SweepsAssumption DEF NoticeKinds, AlbumKinds, Subjects, Dates
<1>3. /\ n \in [kind : NoticeKinds, of : Subjects, key : Dates, stage : Nat]
      /\ n.kind = "contract" /\ n.of = p /\ n.key = 0 /\ n.stage = 0 BY <1>1, <1>2, NoticeIs
<1>4. n \in Notices BY <1>3 DEF Notices, OfItsKind, ShootKinds, AlbumKinds
<1>5. IsSo(n) BY <1>1, <1>3, <1>4, IsSoMeans DEF ShootKinds
<1> QED BY <1>1, <1>3, <1>4, <1>5 DEF DueIsRight, Marked, ShootKinds

\* An anniversary that was told within its window is not told again in it: Renudge is longer.
LEMMA PatronsDueRight == ASSUME SweepsTyped, NEW n \in PatronsDue PROVE DueIsRight(n)
<1>1. PICK k \in Patrons : /\ n = Notice("anniversary", k, patron[k].closed) /\ ~patron[k].back
                           /\ day - patron[k].closed \in YearAge..(YearAge + YearWindow)
                           /\ (patron[k].nudged = 0 \/ patron[k].nudged <= day - Renudge) BY DEF PatronsDue
<1>2. /\ patron[k] \in PatronRows /\ day \in Nat
      /\ YearAge \in Nat /\ YearWindow \in Nat /\ Renudge \in Nat /\ Renudge > YearWindow
  BY SweepsAssumption DEF SweepsTyped
<1>3. "anniversary" \in NoticeKinds /\ k \in Subjects /\ patron[k].closed \in Dates
  BY <1>2 DEF PatronRows, NoticeKinds, AlbumKinds, Subjects
<1>4. /\ n \in [kind : NoticeKinds, of : Subjects, key : Dates, stage : Nat]
      /\ n.kind = "anniversary" /\ n.of = k /\ n.key = patron[k].closed /\ n.stage = 0 BY <1>1, <1>3, NoticeIs
<1>5. n \in Notices BY <1>4 DEF Notices, OfItsKind, ShootKinds, AlbumKinds
<1>6. patron[k].closed \in Int /\ patron[k].nudged \in Int BY <1>2 DEF PatronRows, Dates
<1>7. n.key + YearAge <= day BY <1>1, <1>2, <1>4, <1>6
<1>8. ~(patron[k].nudged # 0 /\ patron[k].nudged >= n.key + YearAge) BY <1>1, <1>2, <1>4, <1>6
<1>9. IsSo(n) BY <1>1, <1>4, <1>5, IsSoMeans DEF ShootKinds
<1> QED BY <1>4, <1>5, <1>7, <1>8, <1>9 DEF DueIsRight, Marked, ShootKinds

LEMMA DigestDueRight == ASSUME SweepsTyped, NEW n \in DigestDue PROVE DueIsRight(n)
<1>1. n = Notice("digest", "owner", Week - 1) /\ Week - 1 \notin digests /\ Week # 0 BY DEF DigestDue
<1>2. Week \in Nat /\ Week <= day /\ day \in 1..LastDay /\ LastDay \in Nat BY WeekIs, SweepsAssumption DEF SweepsTyped
<1>3. Week - 1 \in Dates BY <1>1, <1>2 DEF Dates
<1>4. "digest" \in NoticeKinds /\ "owner" \in Subjects BY DEF NoticeKinds, AlbumKinds, Subjects
<1>5. /\ n \in [kind : NoticeKinds, of : Subjects, key : Dates, stage : Nat]
      /\ n.kind = "digest" /\ n.of = "owner" /\ n.key = Week - 1 /\ n.stage = 0 BY <1>1, <1>3, <1>4, NoticeIs
<1>6. n \in Notices BY <1>5 DEF Notices, OfItsKind, ShootKinds, AlbumKinds
<1>7. IsSo(n) BY <1>2, <1>5, <1>6, IsSoMeans DEF ShootKinds
<1> QED BY <1>1, <1>5, <1>6, <1>7 DEF DueIsRight, Marked, ShootKinds

LEMMA DueRight ==
  ASSUME SweepsTyped, NEW kind \in Kinds, NEW n \in DueFor(kind)
  PROVE  DueIsRight(n)
<1>1. CASE kind = "booking" BY <1>1, ShootsDueRight DEF DueFor
<1>2. CASE kind = "expiry" BY <1>2, ExpiryDueRight DEF DueFor
<1>3. CASE kind = "proofing" BY <1>3, PicksDueRight DEF DueFor
<1>4. CASE kind = "review" BY <1>4, ReviewsDueRight DEF DueFor
<1>5. CASE kind = "dunning" BY <1>5, BillsDueRight DEF DueFor
<1>6. CASE kind = "contract" BY <1>6, PapersDueRight DEF DueFor
<1>7. CASE kind = "anniversary" BY <1>7, PatronsDueRight DEF DueFor
<1>8. CASE kind = "digest" BY <1>8, DigestDueRight DEF DueFor
<1> QED BY <1>1, <1>2, <1>3, <1>4, <1>5, <1>6, <1>7, <1>8 DEF Kinds

LEMMA ReviewsOnly ==
  ASSUME NEW kind \in Kinds, NEW n \in DueFor(kind), n.kind = "review"
  PROVE  kind = "review"
<1>1. \A k, of, key : Notice(k, of, key).kind = k BY DEF Notice
<1>2. \A b \in Bills : Chase(b).kind = "dunning"
  <2>1. \A of, key, stage : [Notice("dunning", of, key) EXCEPT !.stage = stage].kind = "dunning" BY DEF Notice
  <2> QED BY <2>1 DEF Chase
<1>3. CASE kind = "booking"
  <2>1. PICK q \in {"48h", "24h", "sms"} \X Shoots : n = Notice(q[1], q[2], shoot[q[2]].start)
    BY <1>3 DEF DueFor, ShootsDue
  <2>2. q[1] \in {"48h", "24h", "sms"} OBVIOUS
  <2>3. n.kind = q[1] BY <2>1, <1>1
  <2> QED BY <2>2, <2>3
<1>4. CASE kind = "expiry" BY <1>1, <1>4 DEF DueFor, ExpiryDue
<1>5. CASE kind = "proofing" BY <1>1, <1>5 DEF DueFor, PicksDue
<1>6. CASE kind = "dunning" BY <1>2, <1>6 DEF DueFor, BillsDue
<1>7. CASE kind = "contract" BY <1>1, <1>7 DEF DueFor, PapersDue
<1>8. CASE kind = "anniversary" BY <1>1, <1>8 DEF DueFor, PatronsDue
<1>9. CASE kind = "digest" BY <1>1, <1>9 DEF DueFor, DigestDue
<1> QED BY <1>3, <1>4, <1>5, <1>6, <1>7, <1>8, <1>9 DEF Kinds

(* What keeps what *)

\* A notice stays so while what it is about stays.
LEMMA IsSoKept ==
  ASSUME NEW n \in Notices, IsSo(n), day' = day,
         n.kind \in ShootKinds   => shoot'[n.of].status = shoot[n.of].status /\ shoot'[n.of].start = shoot[n.of].start,
         n.kind \in AlbumKinds   => /\ album'[n.of].published = album[n.of].published
                                    /\ album'[n.of].expires = album[n.of].expires
                                    /\ album'[n.of].unpicked = album[n.of].unpicked,
         n.kind = "dunning"      => bill'[n.of].status = bill[n.of].status /\ bill'[n.of].due = bill[n.of].due,
         n.kind = "contract"     => paper'[n.of].status = paper[n.of].status,
         n.kind = "anniversary"  => patron'[n.of].back = patron[n.of].back
  PROVE  IsSo(n)'
<1>1. n.kind \in NoticeKinds BY DEF Notices
<1>2. CASE n.kind \in ShootKinds BY <1>2 DEF IsSo, ShootKinds
<1>3. CASE n.kind = "expiry" BY <1>3 DEF IsSo, AlbumKinds
<1>4. CASE n.kind = "proofing" BY <1>4 DEF IsSo, AlbumKinds
<1>5. CASE n.kind = "review" BY <1>5 DEF IsSo, AlbumKinds
<1>6. CASE n.kind = "dunning" BY <1>6 DEF IsSo
<1>7. CASE n.kind = "contract" BY <1>7 DEF IsSo
<1>8. CASE n.kind = "anniversary" BY <1>8 DEF IsSo
<1>9. CASE n.kind = "digest" BY <1>9 DEF IsSo, Week
<1> QED BY <1>1, <1>2, <1>3, <1>4, <1>5, <1>6, <1>7, <1>8, <1>9 DEF NoticeKinds, AlbumKinds

\* A mark stays while marks only grow.
LEMMA MarkedKept ==
  ASSUME NEW n \in Notices, Marked(n),
         n.kind \in ShootKinds             => shoot[n.of].told \subseteq shoot'[n.of].told,
         n.kind \in {"expiry", "proofing"} => album[n.of].told \subseteq album'[n.of].told,
         n.kind = "review"      => (album'[n.of].asked = 0 => album[n.of].asked = 0),
         n.kind = "dunning"     => bill[n.of].dunned \subseteq bill'[n.of].dunned,
         n.kind = "contract"    => (paper[n.of].told => paper'[n.of].told),
         n.kind = "anniversary" => patron'[n.of].nudged = patron[n.of].nudged,
         digests \subseteq digests'
  PROVE  Marked(n)'
BY DEF Marked

LEMMA TruthFrame ==
  ASSUME SweepsTyped, Truth, misled' = misled, todo' \subseteq todo,
         NEW X, todo' = {} \/ moved \cup X \subseteq moved',
         \A n \in Notices : n.of \notin X /\ IsSo(n) => IsSo(n)'
  PROVE  Truth'
BY DEF SweepsTyped, Truth

LEMMA AskFrame ==
  ASSUME SweepsTyped, Asking, InHand' \subseteq InHand, day' \in Nat, day <= day', UNCHANGED asks,
         \A a \in Albums : album'[a].asked = album[a].asked
  PROVE  Asking'
<1>1. /\ day \in Nat /\ Cooldown \in Nat /\ \A b \in Albums : album[b].asked \in Nat
      /\ \A n \in InHand : n \in Notices BY SweepsAssumption DEF SweepsTyped, AlbumRows, Dates, InHand
<1>2. \A b \in Albums : album[b].asked + Cooldown <= day => album[b].asked + Cooldown <= day' BY <1>1
<1>3. \A n \in InHand : n.kind = "review" => n.of \in Albums BY <1>1 DEF Notices, OfItsKind, AlbumKinds
<1>4. AsksAreSpaced' BY DEF Asking, AsksAreSpaced, FarApart, asks
<1> QED BY <1>2, <1>3, <1>4 DEF Asking, Excuse, asks

LEMMA DateFrame ==
  ASSUME SweepsTyped, Dating, InHand' \subseteq InHand, item' \in {item, NoNotice}, crossed' = crossed, told \subseteq told',
         \A a \in Albums : /\ album'[a].expires = album[a].expires /\ album[a].told \subseteq album'[a].told
                           /\ ("expiry" \in album'[a].told => "expiry" \in album[a].told)
                           /\ saving'[a].open => saving'[a] = saving[a]
  PROVE  Dating'
<1>1. \A n \in InHand : n.kind = "expiry" => n.of \in Albums
  BY DEF SweepsTyped, InHand, Notices, OfItsKind, AlbumKinds
<1>2. NoNotice.kind # "expiry" BY DEF NoNotice
<1>3. ReminderIsOfThisDate' BY DEF Dating, ReminderIsOfThisDate
<1>4. \A a \in Albums : saving'[a].open =>
        saving'[a].expires = album'[a].expires /\ saving'[a].told \subseteq album'[a].told BY DEF Dating
<1>5. \A n \in InHand' : n.kind = "expiry" => n.key = album'[n.of].expires \/ n.of \in crossed' BY <1>1 DEF Dating
<1>6. item'.kind = "expiry" => item' \in told' \/ item'.of \in crossed' BY <1>2 DEF Dating
<1> QED BY <1>3, <1>4, <1>5, <1>6 DEF Dating

LEMMA MarkFrame ==
  ASSUME SweepsTyped, Marking, twice' = twice, UNCHANGED sweeping, day' \in Nat, day <= day',
         \A n \in told' \ doubt' : n \in told \ doubt,
         \A n \in Notices : Marked(n) => Marked(n)',
         \A s \in Shoots : shoot'[s].status = "absent" => shoot[s].status = "absent" /\ shoot'[s].told = shoot[s].told
  PROVE  Marking'
<1>1. \A n \in InHand : n \in Notices /\ n.key \in Nat BY SweepsAssumption DEF SweepsTyped, InHand, Notices, Dates
<1>2. day \in Nat /\ YearAge \in Nat BY SweepsAssumption DEF SweepsTyped
<1>3. \A n \in InHand : n.kind \in ShootKinds => n.of \in Shoots BY <1>1 DEF Notices, OfItsKind
<1>4. InHand' = InHand /\ todo' = todo /\ item' = item BY DEF sweeping, InHand
<1>5. \A n \in InHand' : n.kind = "anniversary" => n.key + YearAge <= day' BY <1>1, <1>2, <1>4 DEF Marking
<1>6. \A n \in told' \ doubt' : n = item' \/ Marked(n)' BY <1>4 DEF Marking, SweepsTyped
<1>7. todo' \cap told' \subseteq doubt' BY <1>4 DEF Marking
<1>8. \A n \in InHand' : n.kind \in ShootKinds => shoot'[n.of].status # "absent" BY <1>3, <1>4 DEF Marking
<1>9. \A s \in Shoots : shoot'[s].status = "absent" => shoot'[s].told = {} BY DEF Marking
<1> QED BY <1>5, <1>6, <1>7, <1>8, <1>9 DEF Marking

\* What becomes of shoots, bills, papers and clients.
LEMMA ElsewhereStep ==
  ASSUME SweepsInv, SweepsTyped', UNCHANGED <<album, saving, crossed, sweeping, record>>, day <= day',
         NEW X, todo' = {} \/ moved \cup X \subseteq moved',
         \A n \in Notices : Marked(n) => Marked(n)',
         \A n \in Notices : n.of \notin X /\ IsSo(n) => IsSo(n)',
         \A s \in Shoots : shoot'[s].status = "absent" => shoot[s].status = "absent" /\ shoot'[s].told = shoot[s].told
  PROVE  SweepsInv'
<1>1. SweepsTyped /\ Marking /\ Truth /\ Dating /\ Asking BY DEF SweepsInv
<1>2. /\ UNCHANGED <<todo, item, told, doubt, twice, misled, asks>> /\ InHand' = InHand
      /\ day' \in Nat BY SweepsAssumption DEF sweeping, record, InHand, SweepsTyped
<1>3. Marking' BY <1>1, <1>2, MarkFrame DEF sweeping
<1>4. Truth' BY <1>1, <1>2, TruthFrame
<1>5. Dating' BY <1>1, <1>2 DEF Dating, ReminderIsOfThisDate
<1>6. Asking' BY <1>1, <1>2, AskFrame
<1> QED BY <1>3, <1>4, <1>5, <1>6 DEF SweepsInv

LEMMA TouchMoves ==
  ASSUME NEW X, Touch(X), UNCHANGED sweeping
  PROVE  todo' = {} \/ moved \cup X \subseteq moved'
BY DEF Touch, sweeping

(* The steps of everybody else *)

LEMMA SweepsInitially == SweepsInit => SweepsInv
<1> SUFFICES ASSUME SweepsInit PROVE SweepsInv OBVIOUS
<1>1. LastDay \in Nat /\ 0 \in Dates /\ 1 \in 1..LastDay BY SweepsAssumption DEF Dates
<1>2. SweepsTyped
  BY <1>1 DEF SweepsInit, SweepsTyped, ShootRows, AlbumRows, BillRows, PaperRows, PatronRows, SaveRows, NoSave
<1>3. InHand = {} BY DEF SweepsInit, InHand
<1>4. Marking BY <1>3 DEF SweepsInit, Marking
<1>5. Truth BY DEF SweepsInit, Truth
<1>6. Dating BY <1>3 DEF SweepsInit, Dating, ReminderIsOfThisDate, NoSave, NoNotice
<1>7. Asking BY <1>3 DEF SweepsInit, Asking, AsksAreSpaced
<1> QED BY <1>2, <1>4, <1>5, <1>6, <1>7 DEF SweepsInv

LEMMA DayStep == ASSUME SweepsInv, DayPasses PROVE SweepsInv'
<1>1. /\ day < LastDay /\ day' = day + 1 /\ Touch(Shoots \cup Albums \cup Bills \cup Papers \cup Patrons \cup {"owner"})
      /\ UNCHANGED <<sweeping, record, subjects, saving, crossed>> BY DEF DayPasses, Idle
<1>2. UNCHANGED <<shoot, album, bill, paper, patron, digests, todo, item, told, doubt>>
  BY <1>1 DEF subjects, sweeping, record
<1>3. SweepsTyped'
  <2>1. \A k \in Patrons : patron[k].nudged \in Nat BY SweepsAssumption DEF SweepsInv, SweepsTyped, PatronRows, Dates
  <2>2. \A k \in Patrons : patron[k].nudged <= day + 1 BY <2>1, SweepsAssumption DEF SweepsInv, SweepsTyped
  <2> QED BY <1>1, <1>2, <2>2, SweepsAssumption DEF SweepsInv, SweepsTyped
<1>4. todo' = {} \/ moved \cup Subjects \subseteq moved' BY <1>1, TouchMoves DEF Subjects
<1>5. \A n \in Notices : n.of \in Subjects BY DEF Notices
<1>6. \A n \in Notices : Marked(n) => Marked(n)' BY <1>2 DEF Marked
<1>7. day <= day' BY <1>1, SweepsAssumption DEF SweepsInv, SweepsTyped
<1>8. \A n \in Notices : n.of \notin Subjects /\ IsSo(n) => IsSo(n)' BY <1>5
<1>9. \A s \in Shoots : shoot'[s].status = "absent" => shoot[s].status = "absent" /\ shoot'[s].told = shoot[s].told
  BY <1>2
<1> QED BY <1>1, <1>2, <1>3, <1>4, <1>6, <1>7, <1>8, <1>9, ElsewhereStep

\* Shoots: one is booked, or cancelled.
LEMMA ShootStep ==
  ASSUME SweepsInv, NEW s \in Shoots, BookShoot(s) \/ CancelShoot(s)
  PROVE  SweepsInv'
<1>1. /\ Touch({s}) /\ UNCHANGED <<sweeping, record, day, album, bill, paper, patron, digests, saving, crossed>>
      /\ UNCHANGED <<todo, item, told, doubt>> BY DEF BookShoot, CancelShoot, Idle, Touches, sweeping, record
<1>2. SweepsTyped /\ shoot[s] \in ShootRows BY DEF SweepsInv, SweepsTyped
<1>3. PICK row \in ShootRows : /\ shoot' = [shoot EXCEPT ![s] = row] /\ row.status # "absent"
                               /\ shoot[s].status = "absent" \/ row.told = shoot[s].told
  <2>1. CASE BookShoot(s)
    <3>1. PICK d \in (day + 1)..LastDay, phone \in BOOLEAN :
            shoot' = [shoot EXCEPT ![s] = [status |-> "confirmed", start |-> d, phone |-> phone, told |-> {}]]
      BY <2>1 DEF BookShoot
    <3> DEFINE row == [status |-> "confirmed", start |-> d, phone |-> phone, told |-> {}]
    <3>2. d \in Dates BY <1>2, SweepsAssumption DEF Dates, SweepsTyped
    <3>3. row \in ShootRows /\ row.status = "confirmed" BY <3>2 DEF ShootRows
    <3>4. shoot[s].status = "absent" BY <2>1 DEF BookShoot
    <3> QED BY <3>1, <3>3, <3>4
  <2>2. CASE CancelShoot(s)
    <3> DEFINE row == [shoot[s] EXCEPT !.status = "cancelled"]
    <3>1. row \in ShootRows /\ row.status = "cancelled" /\ row.told = shoot[s].told BY <1>2 DEF ShootRows
    <3>2. shoot' = [shoot EXCEPT ![s] = row] BY <2>2 DEF CancelShoot
    <3> QED BY <3>1, <3>2
  <2> QED BY <2>1, <2>2
<1>4. \A x \in Shoots : shoot'[x] = IF x = s THEN row ELSE shoot[x] BY <1>2, <1>3 DEF SweepsTyped
<1>5. SweepsTyped' BY <1>1, <1>2, <1>3 DEF SweepsTyped
<1>6. \A x \in Shoots : shoot'[x].status = "absent" => shoot[x].status = "absent" /\ shoot'[x].told = shoot[x].told
  BY <1>3, <1>4
<1>7. \A n \in Notices : Marked(n) => Marked(n)'
  <2> SUFFICES ASSUME NEW n \in Notices, Marked(n) PROVE Marked(n)' OBVIOUS
  <2>1. n.kind \in ShootKinds => n.of \in Shoots BY DEF Notices, OfItsKind
  <2>2. n.kind \in ShootKinds => shoot[n.of].told \subseteq shoot'[n.of].told
    <3>1. shoot[s].status = "absent" => shoot[s].told = {} BY DEF SweepsInv, Marking
    <3> QED BY <2>1, <3>1, <1>3, <1>4
  <2> QED BY <2>2, <1>1, MarkedKept
<1>8. \A n \in Notices : n.of \notin {s} /\ IsSo(n) => IsSo(n)'
  <2> SUFFICES ASSUME NEW n \in Notices, n.of # s, IsSo(n) PROVE IsSo(n)' OBVIOUS
  <2>1. n.kind \in ShootKinds => shoot'[n.of] = shoot[n.of] BY <1>4 DEF Notices, OfItsKind
  <2> QED BY <2>1, <1>1, IsSoKept
<1>9. todo' = {} \/ moved \cup {s} \subseteq moved' BY <1>1, TouchMoves
<1>10. day <= day' BY <1>1, <1>2 DEF SweepsTyped
<1> QED BY <1>1, <1>5, <1>6, <1>7, <1>8, <1>9, <1>10, ElsewhereStep

\* Invoices: the form is opened, what it said is saved, the invoice is sent, or paid.
LEMMA BillStep ==
  ASSUME SweepsInv, NEW b \in Bills, EditBill(b) \/ SaveBill(b) \/ MoveBill(b)
  PROVE  SweepsInv'
<1>1. /\ UNCHANGED <<sweeping, record, day, shoot, album, paper, patron, digests, saving, crossed>>
      /\ UNCHANGED <<todo, item, told, doubt>> BY DEF EditBill, SaveBill, MoveBill, Idle, Touches, sweeping, record
<1>2. SweepsTyped /\ bill[b] \in BillRows BY DEF SweepsInv, SweepsTyped
<1>3. \E row \in BillRows : /\ bill' = [bill EXCEPT ![b] = row] /\ row.dunned = bill[b].dunned
                            /\ \/ Touch({b})
                               \/ moved' = moved /\ row.status = bill[b].status /\ row.due = bill[b].due
  <2>1. CASE EditBill(b)
    <3> DEFINE row == [bill[b] EXCEPT !.editing = TRUE]
    <3>1. row \in BillRows /\ row.status = bill[b].status /\ row.due = bill[b].due /\ row.dunned = bill[b].dunned
      BY <1>2 DEF BillRows
    <3>2. bill' = [bill EXCEPT ![b] = row] /\ moved' = moved BY <2>1 DEF EditBill
    <3> QED BY <3>1, <3>2
  <2>2. CASE SaveBill(b)
    <3>1. PICK d \in 0..LastDay : bill' = [bill EXCEPT ![b].editing = FALSE, ![b].due = d] BY <2>2 DEF SaveBill
    <3> DEFINE row == [bill[b] EXCEPT !.editing = FALSE, !.due = d]
    <3>2. row \in BillRows /\ row.dunned = bill[b].dunned BY <1>2 DEF BillRows, Dates
    <3>3. bill' = [bill EXCEPT ![b] = row] BY <1>2, <3>1 DEF SweepsTyped
    <3> QED BY <2>2, <3>2, <3>3 DEF SaveBill, Touches
  <2>3. CASE MoveBill(b)
    <3>1. PICK to \in {"sent", "paid"} : bill' = [bill EXCEPT ![b].status = to] BY <2>3 DEF MoveBill
    <3> DEFINE row == [bill[b] EXCEPT !.status = to]
    <3>2. row \in BillRows /\ row.dunned = bill[b].dunned BY <1>2 DEF BillRows
    <3>3. bill' = [bill EXCEPT ![b] = row] BY <3>1
    <3> QED BY <2>3, <3>2, <3>3 DEF MoveBill, Touches
  <2> QED BY <2>1, <2>2, <2>3
<1>4. PICK row \in BillRows : /\ bill' = [bill EXCEPT ![b] = row] /\ row.dunned = bill[b].dunned
                              /\ \/ Touch({b})
                                 \/ moved' = moved /\ row.status = bill[b].status /\ row.due = bill[b].due BY <1>3
<1>5. \A x \in Bills : bill'[x] = IF x = b THEN row ELSE bill[x] BY <1>2, <1>4 DEF SweepsTyped
<1>6. SweepsTyped' BY <1>1, <1>2, <1>4 DEF SweepsTyped
<1>7. \A n \in Notices : Marked(n) => Marked(n)'
  <2> SUFFICES ASSUME NEW n \in Notices, Marked(n) PROVE Marked(n)' OBVIOUS
  <2>1. n.kind = "dunning" => bill[n.of].dunned \subseteq bill'[n.of].dunned BY <1>4, <1>5 DEF Notices, OfItsKind
  <2> QED BY <2>1, <1>1, MarkedKept
<1>8. day <= day' /\ \A s \in Shoots : shoot'[s] = shoot[s] BY <1>1, <1>2 DEF SweepsTyped
<1>9. CASE Touch({b})
  <2>1. \A n \in Notices : n.of \notin {b} /\ IsSo(n) => IsSo(n)'
    <3> SUFFICES ASSUME NEW n \in Notices, n.of # b, IsSo(n) PROVE IsSo(n)' OBVIOUS
    <3>1. n.kind = "dunning" => bill'[n.of] = bill[n.of] BY <1>5 DEF Notices, OfItsKind
    <3> QED BY <3>1, <1>1, IsSoKept
  <2>2. todo' = {} \/ moved \cup {b} \subseteq moved' BY <1>1, <1>9, TouchMoves
  <2> QED BY <2>1, <2>2, <1>1, <1>6, <1>7, <1>8, ElsewhereStep
<1>10. CASE moved' = moved /\ row.status = bill[b].status /\ row.due = bill[b].due
  <2>1. \A n \in Notices : n.of \notin {} /\ IsSo(n) => IsSo(n)'
    <3> SUFFICES ASSUME NEW n \in Notices, IsSo(n) PROVE IsSo(n)' OBVIOUS
    <3>1. n.kind = "dunning" => bill'[n.of].status = bill[n.of].status /\ bill'[n.of].due = bill[n.of].due
      BY <1>5, <1>10 DEF Notices, OfItsKind
    <3> QED BY <3>1, <1>1, IsSoKept
  <2>2. moved \cup {} \subseteq moved' BY <1>10
  <2> QED BY <2>1, <2>2, <1>1, <1>6, <1>7, <1>8, ElsewhereStep
<1> QED BY <1>4, <1>9, <1>10

\* Contracts: sent, or signed.
LEMMA PaperStep == ASSUME SweepsInv, NEW p \in Papers, MovePaper(p) PROVE SweepsInv'
<1>1. /\ Touch({p}) /\ UNCHANGED <<sweeping, record, day, shoot, album, bill, patron, digests, saving, crossed>>
      /\ UNCHANGED <<todo, item, told, doubt>> BY DEF MovePaper, Idle, Touches, sweeping, record
<1>2. SweepsTyped /\ paper[p] \in PaperRows BY DEF SweepsInv, SweepsTyped
<1>3. PICK row \in PaperRows : paper' = [paper EXCEPT ![p] = row] /\ row.told = paper[p].told
  <2>1. CASE paper' = [paper EXCEPT ![p].status = "sent", ![p].since = day]
    <3> DEFINE row == [paper[p] EXCEPT !.status = "sent", !.since = day]
    <3>1. day \in Dates BY <1>2, SweepsAssumption DEF SweepsTyped, Dates
    <3>2. row \in PaperRows /\ row.told = paper[p].told BY <3>1, <1>2 DEF PaperRows
    <3>3. paper' = [paper EXCEPT ![p] = row] BY <1>2, <2>1 DEF SweepsTyped
    <3> QED BY <3>2, <3>3
  <2>2. CASE paper' = [paper EXCEPT ![p].status = "signed"]
    <3> DEFINE row == [paper[p] EXCEPT !.status = "signed"]
    <3>1. row \in PaperRows /\ row.told = paper[p].told BY <1>2 DEF PaperRows
    <3>2. paper' = [paper EXCEPT ![p] = row] BY <2>2
    <3> QED BY <3>1, <3>2
  <2> QED BY <2>1, <2>2 DEF MovePaper
<1>4. \A x \in Papers : paper'[x] = IF x = p THEN row ELSE paper[x] BY <1>2, <1>3 DEF SweepsTyped
<1>5. SweepsTyped' BY <1>1, <1>2, <1>3 DEF SweepsTyped
<1>6. \A n \in Notices : Marked(n) => Marked(n)'
  <2> SUFFICES ASSUME NEW n \in Notices, Marked(n) PROVE Marked(n)' OBVIOUS
  <2>1. n.kind = "contract" => (paper[n.of].told => paper'[n.of].told) BY <1>3, <1>4 DEF Notices, OfItsKind
  <2> QED BY <2>1, <1>1, MarkedKept
<1>7. \A n \in Notices : n.of \notin {p} /\ IsSo(n) => IsSo(n)'
  <2> SUFFICES ASSUME NEW n \in Notices, n.of # p, IsSo(n) PROVE IsSo(n)' OBVIOUS
  <2>1. n.kind = "contract" => paper'[n.of] = paper[n.of] BY <1>4 DEF Notices, OfItsKind
  <2> QED BY <2>1, <1>1, IsSoKept
<1>8. todo' = {} \/ moved \cup {p} \subseteq moved' BY <1>1, TouchMoves
<1>9. day <= day' /\ \A s \in Shoots : shoot'[s] = shoot[s] BY <1>1, <1>2 DEF SweepsTyped
<1> QED BY <1>1, <1>5, <1>6, <1>7, <1>8, <1>9, ElsewhereStep

\* Clients: a project closes, or a new one brings the client back.
LEMMA PatronStep == ASSUME SweepsInv, NEW k \in Patrons, MovePatron(k) PROVE SweepsInv'
<1>1. /\ Touch({k}) /\ UNCHANGED <<sweeping, record, day, shoot, album, bill, paper, digests, saving, crossed>>
      /\ UNCHANGED <<todo, item, told, doubt>> BY DEF MovePatron, Idle, Touches, sweeping, record
<1>2. SweepsTyped /\ patron[k] \in PatronRows BY DEF SweepsInv, SweepsTyped
<1>3. PICK row \in PatronRows : patron' = [patron EXCEPT ![k] = row] /\ row.nudged = patron[k].nudged
  <2>1. CASE patron' = [patron EXCEPT ![k].closed = day, ![k].back = FALSE]
    <3> DEFINE row == [patron[k] EXCEPT !.closed = day, !.back = FALSE]
    <3>1. day \in Dates BY <1>2, SweepsAssumption DEF SweepsTyped, Dates
    <3>2. row \in PatronRows /\ row.nudged = patron[k].nudged BY <3>1, <1>2 DEF PatronRows
    <3>3. patron' = [patron EXCEPT ![k] = row] BY <1>2, <2>1 DEF SweepsTyped
    <3> QED BY <3>2, <3>3
  <2>2. CASE patron' = [patron EXCEPT ![k].back = ~@]
    <3> DEFINE row == [patron[k] EXCEPT !.back = ~@]
    <3>1. row \in PatronRows /\ row.nudged = patron[k].nudged BY <1>2 DEF PatronRows
    <3>2. patron' = [patron EXCEPT ![k] = row] BY <1>2, <2>2 DEF SweepsTyped
    <3> QED BY <3>1, <3>2
  <2> QED BY <2>1, <2>2 DEF MovePatron
<1>4. \A x \in Patrons : patron'[x] = IF x = k THEN row ELSE patron[x] BY <1>2, <1>3 DEF SweepsTyped
<1>5. SweepsTyped' BY <1>1, <1>2, <1>3, <1>4 DEF SweepsTyped
<1>6. \A n \in Notices : Marked(n) => Marked(n)'
  <2> SUFFICES ASSUME NEW n \in Notices, Marked(n) PROVE Marked(n)' OBVIOUS
  <2>1. n.kind = "anniversary" => patron'[n.of].nudged = patron[n.of].nudged BY <1>3, <1>4 DEF Notices, OfItsKind
  <2> QED BY <2>1, <1>1, MarkedKept
<1>7. \A n \in Notices : n.of \notin {k} /\ IsSo(n) => IsSo(n)'
  <2> SUFFICES ASSUME NEW n \in Notices, n.of # k, IsSo(n) PROVE IsSo(n)' OBVIOUS
  <2>1. n.kind = "anniversary" => patron'[n.of] = patron[n.of] BY <1>4 DEF Notices, OfItsKind
  <2> QED BY <2>1, <1>1, IsSoKept
<1>8. todo' = {} \/ moved \cup {k} \subseteq moved' BY <1>1, TouchMoves
<1>9. day <= day' /\ \A s \in Shoots : shoot'[s] = shoot[s] BY <1>1, <1>2 DEF SweepsTyped
<1> QED BY <1>1, <1>5, <1>6, <1>7, <1>8, <1>9, ElsewhereStep

\* Galleries: one is made, a pick is made or taken back, and one is given a client.
LEMMA AlbumStep ==
  ASSUME SweepsInv, NEW a \in Albums, MakeAlbum(a) \/ Pick(a) \/ LinkClient(a)
  PROVE  SweepsInv'
<1>1. /\ Touch({a}) /\ UNCHANGED <<sweeping, record, day, shoot, bill, paper, patron, digests, saving, crossed>>
      /\ UNCHANGED <<todo, item, told, doubt, twice, misled, asks>> /\ InHand' = InHand
  BY DEF MakeAlbum, Pick, LinkClient, Idle, Touches, sweeping, record, InHand
<1>2. /\ SweepsTyped /\ Marking /\ Truth /\ Dating /\ Asking /\ album[a] \in AlbumRows
      /\ day \in Dates /\ day \in Nat BY SweepsAssumption DEF SweepsInv, SweepsTyped, Dates
<1>3. PICK row \in AlbumRows : /\ album' = [album EXCEPT ![a] = row] /\ row.told = album[a].told
                               /\ row.asked = album[a].asked /\ row.expires = album[a].expires
  <2>1. CASE MakeAlbum(a)
    <3>1. PICK hasPicks \in BOOLEAN : album' = [album EXCEPT ![a].made = day, ![a].unpicked = hasPicks] BY <2>1 DEF MakeAlbum
    <3> DEFINE row == [album[a] EXCEPT !.made = day, !.unpicked = hasPicks]
    <3>2. row \in AlbumRows /\ row.told = album[a].told /\ row.asked = album[a].asked /\ row.expires = album[a].expires
      BY <1>2 DEF AlbumRows
    <3>3. album' = [album EXCEPT ![a] = row] BY <1>2, <3>1 DEF SweepsTyped
    <3> QED BY <3>2, <3>3
  <2>2. CASE Pick(a)
    <3> DEFINE row == [album[a] EXCEPT !.unpicked = ~@]
    <3>1. row \in AlbumRows /\ row.told = album[a].told /\ row.asked = album[a].asked /\ row.expires = album[a].expires
      BY <1>2 DEF AlbumRows
    <3>2. album' = [album EXCEPT ![a] = row] BY <2>2, <1>2 DEF Pick, SweepsTyped
    <3> QED BY <3>1, <3>2
  <2>3. CASE LinkClient(a)
    <3>1. PICK k \in Patrons : album' = [album EXCEPT ![a].client = k] BY <2>3 DEF LinkClient
    <3> DEFINE row == [album[a] EXCEPT !.client = k]
    <3>2. row \in AlbumRows /\ row.told = album[a].told /\ row.asked = album[a].asked /\ row.expires = album[a].expires
      BY <1>2 DEF AlbumRows
    <3>3. album' = [album EXCEPT ![a] = row] BY <3>1
    <3> QED BY <3>2, <3>3
  <2> QED BY <2>1, <2>2, <2>3
<1>4. \A x \in Albums : album'[x] = IF x = a THEN row ELSE album[x] BY <1>2, <1>3 DEF SweepsTyped
<1>5. SweepsTyped' BY <1>1, <1>2, <1>3 DEF SweepsTyped
<1>6. \A n \in Notices : Marked(n) => Marked(n)'
  <2> SUFFICES ASSUME NEW n \in Notices, Marked(n) PROVE Marked(n)' OBVIOUS
  <2>1. n.kind \in AlbumKinds => album[n.of].told = album'[n.of].told /\ album[n.of].asked = album'[n.of].asked
    BY <1>3, <1>4 DEF Notices, OfItsKind
  <2> QED BY <2>1, <1>1, MarkedKept DEF AlbumKinds
<1>7. \A n \in Notices : n.of \notin {a} /\ IsSo(n) => IsSo(n)'
  <2> SUFFICES ASSUME NEW n \in Notices, n.of # a, IsSo(n) PROVE IsSo(n)' OBVIOUS
  <2>1. n.kind \in AlbumKinds => album'[n.of] = album[n.of] BY <1>4 DEF Notices, OfItsKind
  <2> QED BY <2>1, <1>1, IsSoKept
<1>8. todo' = {} \/ moved \cup {a} \subseteq moved' BY <1>1, TouchMoves
<1>9. Truth' BY <1>1, <1>2, <1>7, <1>8, TruthFrame
<1>10. Marking' BY <1>1, <1>2, <1>6, MarkFrame
<1>11. Asking' BY <1>1, <1>2, <1>3, <1>4, AskFrame
<1>12. Dating' BY <1>1, <1>2, <1>3, <1>4, DateFrame
<1> QED BY <1>5, <1>9, <1>10, <1>11, <1>12 DEF SweepsInv

LEMMA SaveBeginStep == ASSUME SweepsInv, NEW a \in Albums, SaveBegin(a) PROVE SweepsInv'
<1> DEFINE row == [expires |-> album[a].expires, told |-> album[a].told \cap {"expiry"}, open |-> TRUE]
<1>1. /\ saving' = [saving EXCEPT ![a] = row]
      /\ UNCHANGED <<day, shoot, album, bill, paper, patron, digests, moved, crossed, sweeping>>
      /\ UNCHANGED <<todo, item, told, doubt, twice, misled, asks>> /\ InHand' = InHand
  BY DEF SaveBegin, Idle, sweeping, record, InHand, subjects
<1>2. /\ SweepsTyped /\ Marking /\ Truth /\ Dating /\ Asking /\ album[a] \in AlbumRows
      /\ day \in Nat BY SweepsAssumption DEF SweepsInv, SweepsTyped
<1>3. row \in SaveRows /\ row.expires = album[a].expires /\ row.told \subseteq album[a].told
  BY <1>2 DEF AlbumRows, SaveRows
<1> HIDE DEF row
<1>4. \A x \in Albums : saving'[x] = IF x = a THEN row ELSE saving[x] BY <1>1, <1>2 DEF SweepsTyped
<1>5. SweepsTyped' BY <1>1, <1>2, <1>3 DEF SweepsTyped
<1>6. Marking'
  <2>1. \A n \in Notices : Marked(n) => Marked(n)' BY <1>1 DEF Marked
  <2> QED BY <2>1, <1>1, <1>2, MarkFrame
<1>7. Truth'
  <2>1. \A n \in Notices : IsSo(n) => IsSo(n)' BY <1>1, IsSoKept
  <2>2. moved \cup {} \subseteq moved' BY <1>1
  <2> QED BY <2>1, <2>2, <1>1, <1>2, TruthFrame
<1>8. Asking' BY <1>1, <1>2, AskFrame
<1>9. Dating' BY <1>1, <1>2, <1>3, <1>4 DEF Dating, ReminderIsOfThisDate
<1> QED BY <1>5, <1>6, <1>7, <1>8, <1>9 DEF SweepsInv

\* A save writes the date and what follows from it: what it told of the old date is forgotten,
\* a mark it drops is in doubt, and a sweep that has the gallery in hand is crossed.
LEMMA SaveAlbumStep == ASSUME SweepsInv, NEW a \in Albums, SaveAlbum(a) PROVE SweepsInv'
<1> DEFINE ours == {n \in told : n.kind = "expiry" /\ n.of = a}
           flagsOf(date) == (album[a].told \ {"expiry"}) \cup (IF Rearms(a, date) THEN {} ELSE saving[a].told)
           inHand == \E n \in todo \cup {item} : n.kind = "expiry" /\ n.of = a
<1>0. PICK date \in 0..LastDay, published \in BOOLEAN, client \in Patrons \cup {NoPatron} :
        LET flags == (album[a].told \ {"expiry"}) \cup (IF Rearms(a, date) THEN {} ELSE saving[a].told)
            gone == "expiry" \in album[a].told \ flags
            mine == {n \in told : n.kind = "expiry" /\ n.of = a}
        IN
        /\ album' = [album EXCEPT ![a].expires = date, ![a].published = published, ![a].client = client,
                                  ![a].told = flags]
        /\ told' = IF date # saving[a].expires THEN told \ mine ELSE told
        /\ doubt' = IF date # saving[a].expires THEN doubt \ mine
                    ELSE IF gone THEN doubt \cup mine ELSE doubt
        /\ crossed' = IF date = saving[a].expires THEN crossed
                      ELSE IF \E n \in todo \cup {item} : n.kind = "expiry" /\ n.of = a
                      THEN crossed \cup {a} ELSE crossed \ {a} BY DEF SaveAlbum
<1> DEFINE flags == flagsOf(date)
           row == [album[a] EXCEPT !.expires = date, !.published = published, !.client = client, !.told = flags]
<1>1. /\ saving' = [saving EXCEPT ![a] = NoSave] /\ saving[a].open
      /\ Touch({a}) /\ UNCHANGED <<day, shoot, bill, paper, patron, digests, sweeping>>
      /\ UNCHANGED <<todo, item, twice, misled, asks>> /\ InHand' = InHand BY DEF SaveAlbum, Touches, sweeping, InHand
<1>2. /\ SweepsTyped /\ Marking /\ Truth /\ Dating /\ Asking
      /\ album[a] \in AlbumRows /\ saving[a] \in SaveRows /\ day \in Nat /\ date \in Dates
  BY SweepsAssumption DEF SweepsInv, SweepsTyped, Dates
<1>3. saving[a].expires = album[a].expires /\ saving[a].told \subseteq album[a].told BY <1>1, <1>2 DEF Dating
<1>4. /\ flags \subseteq album[a].told /\ flags \subseteq {"expiry", "proofing"}
      /\ ("proofing" \in album[a].told => "proofing" \in flags)
      /\ (date # album[a].expires => "expiry" \notin flags) BY <1>2, <1>3 DEF Rearms, AlbumRows, SaveRows
<1>5. album' = [album EXCEPT ![a] = row] BY <1>0, <1>2 DEF SweepsTyped
<1>6. /\ told' = IF date # album[a].expires THEN told \ ours ELSE told
      /\ doubt' = IF date # album[a].expires THEN doubt \ ours
                  ELSE IF "expiry" \in album[a].told \ flags THEN doubt \cup ours ELSE doubt
      /\ crossed' = IF date = album[a].expires THEN crossed
                    ELSE IF inHand THEN crossed \cup {a} ELSE crossed \ {a} BY <1>0, <1>3
<1> HIDE DEF flagsOf
<1>7. /\ row \in AlbumRows /\ row.expires = date /\ row.told = flags /\ row.asked = album[a].asked
  BY <1>2, <1>4 DEF AlbumRows
<1>8. ours \subseteq told /\ \A n : n \in ours <=> n \in told /\ n.kind = "expiry" /\ n.of = a OBVIOUS
<1>9. inHand <=> \E n \in todo \cup {item} : n.kind = "expiry" /\ n.of = a OBVIOUS
<1> HIDE DEF flags, row, ours, inHand
<1>10. \A x \in Albums : album'[x] = IF x = a THEN row ELSE album[x] BY <1>2, <1>5 DEF SweepsTyped
<1>11. \A x \in Albums : saving'[x] = IF x = a THEN NoSave ELSE saving[x] BY <1>1, <1>2 DEF SweepsTyped
<1>12. SweepsTyped'
  <2>1. album' \in [Albums -> AlbumRows] BY <1>2, <1>5, <1>7 DEF SweepsTyped
  <2>2. NoSave \in SaveRows BY SweepsAssumption DEF NoSave, SaveRows, Dates
  <2>3. saving' \in [Albums -> SaveRows] BY <1>1, <1>2, <2>2 DEF SweepsTyped
  <2>4. told' \subseteq Notices /\ doubt' \subseteq told' BY <1>2, <1>6, <1>8 DEF SweepsTyped
  <2> QED BY <2>1, <2>3, <2>4, <1>1, <1>2 DEF SweepsTyped
<1>13. Truth'
  <2>1. \A n \in Notices : n.of \notin {a} /\ IsSo(n) => IsSo(n)'
    <3> SUFFICES ASSUME NEW n \in Notices, n.of # a, IsSo(n) PROVE IsSo(n)' OBVIOUS
    <3>1. n.kind \in AlbumKinds => album'[n.of] = album[n.of] BY <1>10 DEF Notices, OfItsKind
    <3> QED BY <3>1, <1>1, IsSoKept
  <2>2. todo' = {} \/ moved \cup {a} \subseteq moved' BY <1>1, TouchMoves
  <2> QED BY <2>1, <2>2, <1>1, <1>2, TruthFrame
<1>14. Asking' BY <1>1, <1>2, <1>7, <1>10, AskFrame
<1>15. Marking'
  <2>1. ASSUME NEW n \in told' \ doubt' PROVE n = item \/ Marked(n)'
    <3>1. n \in Notices /\ n \in told \ doubt BY <1>2, <1>6, <1>8 DEF SweepsTyped
    <3>2. n = item \/ Marked(n) BY <3>1, <1>2 DEF Marking
    <3>3. ASSUME Marked(n) PROVE Marked(n)'
      <4>1. n.kind \in AlbumKinds => n.of \in Albums BY <3>1 DEF Notices, OfItsKind
      <4>2. n.kind = "proofing" => "proofing" \in album'[n.of].told
        BY <3>3, <4>1, <1>4, <1>7, <1>10 DEF Marked, AlbumKinds
      <4>3. n.kind = "review" => album'[n.of].asked # 0 BY <3>3, <4>1, <1>7, <1>10 DEF Marked, AlbumKinds
      <4>4. n.kind = "expiry" => "expiry" \in album'[n.of].told
        <5>1. CASE n.kind = "expiry" /\ n.of = a
          <6>1. n \in ours BY <3>1, <5>1, <1>8
          <6>2. date = album[a].expires BY <2>1, <6>1, <1>6, <1>8
          <6>3. "expiry" \in flags BY <6>1, <6>2, <2>1, <3>3, <5>1, <1>6 DEF Marked
          <6> QED BY <6>3, <5>1, <1>7, <1>10
        <5>2. CASE n.kind = "expiry" /\ n.of # a BY <5>2, <3>3, <4>1, <1>10 DEF Marked, AlbumKinds
        <5> QED BY <5>1, <5>2
      <4> QED BY <4>2, <4>3, <4>4, <3>3, <1>1 DEF Marked
    <3> QED BY <3>2, <3>3
  <2>2. todo \cap told' \subseteq doubt' BY <1>2, <1>6, <1>8 DEF Marking
  <2> QED BY <2>1, <2>2, <1>1, <1>2 DEF Marking
<1>16. Dating'
  <2>1. ~NoSave.open BY DEF NoSave
  <2>2. \A x \in Albums : saving'[x].open =>
          saving'[x].expires = album'[x].expires /\ saving'[x].told \subseteq album'[x].told
    BY <2>1, <1>2, <1>10, <1>11 DEF Dating
  <2>3. \A n \in InHand : n.kind = "expiry" => n.of \in Albums /\ n \in todo \cup {item}
    BY <1>2 DEF SweepsTyped, InHand, Notices, OfItsKind, AlbumKinds
  <2>4. \A n \in InHand : n.kind = "expiry" => n.key = album'[n.of].expires \/ n.of \in crossed'
    <3> SUFFICES ASSUME NEW n \in InHand, n.kind = "expiry" PROVE n.key = album'[n.of].expires \/ n.of \in crossed' OBVIOUS
    <3>1. n.key = album[n.of].expires \/ n.of \in crossed BY <1>2 DEF Dating
    <3>2. n.of = a => inHand BY <2>3, <1>9
    <3> QED BY <2>3, <3>1, <3>2, <1>6, <1>7, <1>10
  <2>5. item.kind = "expiry" => item \in told' \/ item.of \in crossed'
    <3> SUFFICES ASSUME item.kind = "expiry" PROVE item \in told' \/ item.of \in crossed' OBVIOUS
    <3>1. item \in told \/ item.of \in crossed BY <1>2 DEF Dating
    <3>2. item.of = a => inHand BY <1>9
    <3> QED BY <3>1, <3>2, <1>6, <1>8
  <2>6. ASSUME NEW x \in Albums, "expiry" \in album'[x].told, album'[x].expires # 0
        PROVE  Notice("expiry", x, album'[x].expires) \in told' \/ x \in crossed'
    <3>1. CASE x = a
      <4>1. date = album[a].expires /\ "expiry" \in album[a].told BY <2>6, <3>1, <1>4, <1>7, <1>10
      <4>2. Notice("expiry", a, date) \in told \/ a \in crossed BY <4>1, <2>6, <3>1, <1>2, <1>7, <1>10 DEF Dating, ReminderIsOfThisDate
      <4> QED BY <4>1, <4>2, <3>1, <1>6, <1>7, <1>10
    <3>2. CASE x # a
      <4>1. Notice("expiry", x, album[x].expires) \in told \/ x \in crossed
        BY <2>6, <3>2, <1>2, <1>10 DEF Dating, ReminderIsOfThisDate
      <4>2. Notice("expiry", x, album[x].expires) \notin ours BY <3>2, <1>8 DEF Notice
      <4> QED BY <4>1, <4>2, <3>2, <1>6, <1>10
    <3> QED BY <3>1, <3>2
  <2> QED BY <2>2, <2>4, <2>5, <2>6, <1>1 DEF Dating, ReminderIsOfThisDate
<1> QED BY <1>12, <1>13, <1>14, <1>15, <1>16 DEF SweepsInv

(* The steps of the thread *)

\* One statement reads what is due: what it reads is in nobody's hands.
LEMMA SweepStep == ASSUME SweepsInv, NEW kind \in Kinds, Sweep(kind) PROVE SweepsInv'
<1>1. /\ todo = {} /\ item = NoNotice /\ todo' = DueFor(kind) /\ item' = item
      /\ IF kind = "review" THEN ReadAsks ELSE UNCHANGED asks
      /\ UNCHANGED <<day, shoot, album, bill, paper, patron, digests, saving, told, doubt, twice, misled, moved, crossed>>
  BY DEF Sweep, subjects
<1>2. SweepsTyped /\ Marking /\ Truth /\ Dating /\ Asking BY DEF SweepsInv
<1>3. \A n \in todo' : DueIsRight(n) BY <1>1, <1>2, DueRight
<1>4. NoNotice \notin Notices /\ NoNotice.kind = "none" BY DEF NoNotice, Notices, NoticeKinds, ShootKinds, AlbumKinds
<1>5. todo' \subseteq Notices /\ InHand' = todo'
  <2>1. todo' \subseteq Notices BY <1>3 DEF DueIsRight
  <2> QED BY <2>1, <1>1, <1>4 DEF InHand
<1>6. SweepsTyped' BY <1>1, <1>2, <1>4, <1>5 DEF SweepsTyped
<1>7. Marking'
  <2>1. \A n \in told \ doubt : n \in Notices /\ n # NoNotice /\ Marked(n) BY <1>1, <1>2, <1>4 DEF Marking, SweepsTyped
  <2>2. \A n \in Notices : Marked(n)' <=> Marked(n) BY <1>1 DEF Marked
  <2>3. todo' \cap told' \subseteq doubt' BY <2>1, <1>1, <1>3 DEF DueIsRight
  <2>4. \A n \in InHand' : n.kind \in ShootKinds => shoot'[n.of].status # "absent" BY <1>1, <1>3, <1>5 DEF DueIsRight
  <2>5. \A n \in InHand' : n.kind = "anniversary" => n.key + YearAge <= day' BY <1>1, <1>3, <1>5 DEF DueIsRight
  <2> QED BY <2>1, <2>2, <2>3, <2>4, <2>5, <1>1, <1>2 DEF Marking
<1>8. Truth'
  <2>1. \A n \in todo' : IsSo(n)'
    <3> SUFFICES ASSUME NEW n \in todo' PROVE IsSo(n)' OBVIOUS
    <3>1. n \in Notices /\ IsSo(n) BY <1>3 DEF DueIsRight
    <3> QED BY <3>1, <1>1, IsSoKept
  <2> QED BY <2>1, <1>1, <1>2 DEF Truth
<1>9. Dating'
  <2>1. \A n \in InHand' : n.kind = "expiry" => n.key = album'[n.of].expires BY <1>1, <1>3, <1>5 DEF DueIsRight
  <2> QED BY <2>1, <1>1, <1>2, <1>4 DEF Dating, ReminderIsOfThisDate
<1>10. Asking'
  <2> DEFINE due == {n.of : n \in todo'}
  <2>0. /\ day \in Nat /\ Cooldown \in Nat /\ \A b \in Albums : album[b].asked \in Nat
    BY <1>2, SweepsAssumption DEF SweepsTyped, AlbumRows, Dates
  <2>1. CASE kind # "review"
    <3>1. \A n \in InHand' : n.kind # "review"
      <4> SUFFICES ASSUME NEW n \in InHand' PROVE n.kind # "review" OBVIOUS
      <4>1. n \in DueFor(kind) BY <1>1, <1>5
      <4> QED BY <2>1, <4>1, ReviewsOnly
    <3>2. AsksAreSpaced' BY <2>1, <1>1, <1>2 DEF Asking, AsksAreSpaced, FarApart, asks
    <3> QED BY <3>1, <3>2 DEF Asking
  <2>2. CASE kind = "review"
    <3>1. \A n \in todo' : /\ n.kind = "review" /\ n \in Notices /\ n.of \in Albums /\ album[n.of].asked = 0
                          /\ Cool(album[n.of].client)
      <4> SUFFICES ASSUME NEW n \in todo' PROVE /\ n.kind = "review" /\ n \in Notices /\ n.of \in Albums
                                                /\ album[n.of].asked = 0 /\ Cool(album[n.of].client)
        OBVIOUS
      <4>1. n.kind = "review" BY <2>2, <1>1, <1>2, ReviewsDueRight DEF DueFor
      <4> QED BY <4>1, <1>3 DEF DueIsRight, Notices, OfItsKind, AlbumKinds
    <3>2. /\ \A a \in Albums : whom'[a] = IF a \in due THEN album[a].client ELSE whom[a]
          /\ together \subseteq together'
          /\ \A a \in due : \A b \in due : a # b /\ album[a].client = album[b].client => a \in together'
          /\ \A q \in strayed : q[2] \notin due => q \in strayed'
          /\ \A b \in Albums : \A a \in due :
               album[b].asked # 0 /\ album[b].client # whom[b] /\ album[a].client = whom[b] => <<b, a>> \in strayed'
      BY <2>2, <1>1 DEF ReadAsks
    <3>3. \A n \in todo' : n.of \in due OBVIOUS
    <3>4. \A a \in due : a \in Albums /\ album[a].asked = 0 /\ Cool(album[a].client) BY <3>1
    <3> HIDE DEF due
    <3>5. AsksAreSpaced'
      <4> SUFFICES ASSUME NEW a \in Albums, NEW b \in Albums, a # b, whom'[a] = whom'[b],
                          album[a].asked # 0, album[b].asked # 0
                   PROVE  \/ FarApart(a, b)' \/ {a, b} \subseteq together'
                          \/ {<<a, b>>, <<b, a>>} \cap strayed' # {} BY <1>1 DEF AsksAreSpaced
      <4>1. a \notin due /\ b \notin due BY <3>4
      <4>2. whom[a] = whom[b] BY <4>1, <3>2
      <4>3. FarApart(a, b) \/ {a, b} \subseteq together \/ {<<a, b>>, <<b, a>>} \cap strayed # {}
        BY <4>2, <1>2 DEF Asking, AsksAreSpaced
      <4>4. <<a, b>> \in strayed => <<a, b>> \in strayed' BY <4>1, <3>2
      <4>5. <<b, a>> \in strayed => <<b, a>> \in strayed' BY <4>1, <3>2
      <4>6. FarApart(a, b)' = FarApart(a, b) BY <1>1 DEF FarApart
      <4> QED BY <4>3, <4>4, <4>5, <4>6, <3>2
    <3>6. ASSUME NEW n \in InHand'
          PROVE  /\ album'[n.of].asked = 0
                 /\ \A b \in Albums : whom'[b] = whom'[n.of] /\ album'[b].asked # 0 =>
                      album'[b].asked + Cooldown <= day' \/ Excuse(b, n.of)'
                 /\ \A m \in InHand' : m.kind = "review" /\ m # n /\ whom'[m.of] = whom'[n.of] =>
                      {m.of, n.of} \subseteq together'
      <4>1. n \in todo' /\ n.of \in due BY <3>3, <1>5
      <4>2. n.of \in Albums /\ album[n.of].asked = 0 /\ whom'[n.of] = album[n.of].client BY <4>1, <3>2, <3>4
      <4>3. ASSUME NEW b \in Albums, whom'[b] = whom'[n.of], album[b].asked # 0
            PROVE  album[b].asked + Cooldown <= day \/ <<b, n.of>> \in strayed'
        <5>1. b \notin due /\ whom[b] = album[n.of].client BY <4>2, <4>3, <3>2, <3>4
        <5>2. CASE album[b].client = whom[b]
          <6>1. album[b].asked <= day - Cooldown BY <4>1, <4>3, <5>1, <5>2, <3>4 DEF Cool
          <6> QED BY <6>1, <2>0
        <5>3. CASE album[b].client # whom[b] BY <4>1, <4>3, <5>1, <5>3, <3>2
        <5> QED BY <5>2, <5>3
      <4>4. ASSUME NEW m \in todo', m # n, whom'[m.of] = whom'[n.of] PROVE {m.of, n.of} \subseteq together'
        <5>1. m.of \in due /\ whom'[m.of] = album[m.of].client BY <3>2, <3>3, <3>4
        <5>2. m.of # n.of
          <6>1. /\ m \in [kind : NoticeKinds, of : Subjects, key : Dates, stage : Nat] /\ m.key = 0 /\ m.stage = 0
                /\ n \in [kind : NoticeKinds, of : Subjects, key : Dates, stage : Nat] /\ n.key = 0 /\ n.stage = 0
                /\ m.kind = "review" /\ n.kind = "review" BY <3>1, <4>1 DEF Notices, OfItsKind, AlbumKinds
          <6> QED BY <6>1, <4>4
        <5> QED BY <5>1, <5>2, <4>1, <4>2, <4>4, <3>2
      <4> QED BY <4>2, <4>3, <4>4, <1>1, <1>5 DEF Excuse
    <3> QED BY <3>5, <3>6 DEF Asking
  <2> QED BY <2>1, <2>2
<1> QED BY <1>6, <1>7, <1>8, <1>9, <1>10 DEF SweepsInv

LEMMA SendStep == ASSUME SweepsInv, NEW n \in todo, Send(n) PROVE SweepsInv'
<1>1. /\ item = NoNotice /\ todo' = todo \ {n} /\ Settle
      /\ UNCHANGED <<day, shoot, album, bill, paper, patron, digests, saving, crossed, asks>>
      /\ \/ Tell(n) /\ item' = n /\ UNCHANGED doubt
         \/ Tell(n) /\ doubt' = doubt \cup {n} /\ UNCHANGED item
         \/ n.kind \in Nudges /\ item' = n /\ UNCHANGED <<told, twice, misled, doubt>>
         \/ UNCHANGED <<told, twice, misled, doubt, item>> BY DEF Send, subjects
<1>2. SweepsTyped /\ Marking /\ Truth /\ Dating /\ Asking /\ n \in Notices /\ day \in Nat
  BY SweepsAssumption DEF SweepsInv, SweepsTyped
<1>3. NoNotice \notin Notices /\ NoNotice.kind = "none" BY DEF NoNotice, Notices, NoticeKinds, ShootKinds, AlbumKinds
<1>4. InHand = todo /\ InHand' \subseteq todo BY <1>1, <1>2, <1>3 DEF InHand, SweepsTyped
<1>5. Tell(n) => told' = told \cup {n} /\ twice' = {} /\ misled' = {}
  <2>1. n \notin told \ doubt BY <1>2 DEF Marking
  <2>2. IsSo(n) \/ n.of \in moved BY <1>2 DEF Truth
  <2> QED BY <2>1, <2>2, <1>2 DEF Tell, Marking, Truth
<1>6. twice' = {} /\ misled' = {} /\ told' \in {told, told \cup {n}} /\ told \subseteq told'
  BY <1>1, <1>2, <1>5 DEF Marking, Truth
<1>7. SweepsTyped'
  <2>1. told' \subseteq Notices /\ doubt' \subseteq told' BY <1>1, <1>2, <1>5 DEF SweepsTyped
  <2>2. item' \in Notices \cup {NoNotice} /\ item' \notin todo' BY <1>1, <1>2, <1>3 DEF SweepsTyped
  <2> QED BY <2>1, <2>2, <1>1, <1>2 DEF SweepsTyped
<1>8. Marking'
  <2>1. \A m \in Notices : Marked(m)' <=> Marked(m) BY <1>1 DEF Marked
  <2>2. \A m \in told' \ doubt' : m = item' \/ Marked(m)'
    <3>1. \A m \in told \ doubt : Marked(m) /\ m \in Notices BY <1>1, <1>2, <1>3 DEF Marking, SweepsTyped
    <3> QED BY <3>1, <2>1, <1>1, <1>5
  <2>3. todo' \cap told' \subseteq doubt' BY <1>1, <1>2, <1>5 DEF Marking
  <2>4. \A m \in InHand' : m.kind \in ShootKinds => shoot'[m.of].status # "absent" BY <1>1, <1>2, <1>4 DEF Marking
  <2>5. \A m \in InHand' : m.kind = "anniversary" => m.key + YearAge <= day' BY <1>1, <1>2, <1>4 DEF Marking
  <2> QED BY <2>2, <2>3, <2>4, <2>5, <1>1, <1>2, <1>6 DEF Marking
<1>9. Truth'
  <2>1. \A m \in Notices : IsSo(m) => IsSo(m)' BY <1>1, IsSoKept
  <2>2. todo' = {} \/ moved \cup {} \subseteq moved' BY <1>1 DEF Settle
  <2>3. misled' = misled BY <1>2, <1>6 DEF Truth
  <2> QED BY <2>1, <2>2, <2>3, <1>1, <1>2, TruthFrame
<1>10. Asking' BY <1>1, <1>2, <1>4, AskFrame
<1>11. Dating'
  <2>1. \A m \in InHand' : m.kind = "expiry" => m.key = album'[m.of].expires \/ m.of \in crossed'
    BY <1>1, <1>2, <1>4 DEF Dating
  <2>2. item' \in told' \/ item'.kind # "expiry" BY <1>1, <1>3, <1>5 DEF Nudges
  <2>3. ReminderIsOfThisDate' BY <1>1, <1>2, <1>6 DEF Dating, ReminderIsOfThisDate
  <2> QED BY <2>1, <2>2, <2>3, <1>1, <1>2, <1>3 DEF Dating
<1> QED BY <1>7, <1>8, <1>9, <1>10, <1>11 DEF SweepsInv

\* A notice that is let go of unmarked is in doubt.
LEMMA LetGo ==
  ASSUME SweepsInv, UNCHANGED <<subjects, day, told, twice, misled, asks, crossed>>,
         todo' \in {todo, {}}, item' = NoNotice, doubt' = doubt \cup ({item} \cap told),
         todo' = {} \/ moved \subseteq moved',
         saving' \in [Albums -> SaveRows], \A a \in Albums : saving'[a].open => saving'[a] = saving[a]
  PROVE  SweepsInv'
<1>1. UNCHANGED <<shoot, album, bill, paper, patron, digests>> BY DEF subjects
<1>2. SweepsTyped /\ Marking /\ Truth /\ Dating /\ Asking /\ day \in Nat
  BY SweepsAssumption DEF SweepsInv, SweepsTyped
<1>3. NoNotice \notin Notices BY DEF NoNotice, Notices, NoticeKinds, ShootKinds, AlbumKinds
<1>4. InHand' \subseteq InHand BY DEF InHand
<1>5. SweepsTyped' BY <1>1, <1>2, <1>3 DEF SweepsTyped
<1>6. Marking'
  <2>1. \A m \in Notices : Marked(m)' <=> Marked(m) BY <1>1 DEF Marked
  <2>2. \A m \in told' \ doubt' : Marked(m)' BY <2>1, <1>2 DEF Marking, SweepsTyped
  <2> QED BY <2>2, <1>1, <1>2, <1>4 DEF Marking
<1>7. Truth'
  <2>1. \A m \in Notices : IsSo(m) => IsSo(m)' BY <1>1, IsSoKept
  <2>2. todo' = {} \/ moved \cup {} \subseteq moved' OBVIOUS
  <2> QED BY <2>1, <2>2, <1>1, <1>2, TruthFrame
<1>8. Asking' BY <1>1, <1>2, <1>4, AskFrame
<1>9. Dating' BY <1>1, <1>2, <1>4, DateFrame
<1> QED BY <1>5, <1>6, <1>7, <1>8, <1>9 DEF SweepsInv

LEMMA StampFailsStep == ASSUME SweepsInv, StampFails PROVE SweepsInv'
<1>1. saving \in [Albums -> SaveRows] BY DEF SweepsInv, SweepsTyped
<1> QED BY <1>1, LetGo DEF StampFails, Settle

LEMMA SweepKillStep == ASSUME SweepsInv, Kill PROVE SweepsInv'
<1>1. NoSave \in SaveRows /\ ~NoSave.open BY SweepsAssumption DEF NoSave, SaveRows, Dates
<1>2. saving' = [a \in Albums |-> NoSave] BY DEF Kill
<1>3. saving' \in [Albums -> SaveRows] /\ \A a \in Albums : ~saving'[a].open BY <1>1, <1>2
<1> QED BY <1>3, LetGo DEF Kill

\* What a mark does: it is there, it takes no other away, and changes nothing a notice is of.
StampIsRight(n) ==
  /\ shoot' \in [Shoots -> ShootRows] /\ album' \in [Albums -> AlbumRows] /\ bill' \in [Bills -> BillRows]
  /\ paper' \in [Papers -> PaperRows] /\ patron' \in [Patrons -> PatronRows] /\ digests' \subseteq Dates
  /\ \A k \in Patrons : patron'[k].nudged <= day
  /\ Marked(n)'
  /\ \A m \in Notices : Marked(m) => Marked(m)'
  /\ \A m \in Notices : IsSo(m) => IsSo(m)'
  /\ \A s \in Shoots : /\ shoot'[s].status = shoot[s].status
                       /\ shoot[s].status = "absent" => shoot'[s].told = shoot[s].told
  /\ \A a \in Albums : /\ album'[a].expires = album[a].expires /\ album[a].told \subseteq album'[a].told
                       /\ ("expiry" \in album'[a].told => "expiry" \in album[a].told \/ (n.kind = "expiry" /\ a = n.of))
                       /\ album'[a].asked = IF n.kind = "review" /\ a = n.of THEN day ELSE album[a].asked

LEMMA StampShootRight ==
  ASSUME SweepsInv, NEW n \in InHand, day' = day, StampShoot(n) PROVE StampIsRight(n)
<1>1. /\ n.kind \in ShootKinds /\ UNCHANGED <<album, bill, paper, patron, digests>>
      /\ shoot' = [shoot EXCEPT ![n.of].told = @ \cup {n.kind}] BY DEF StampShoot, ShootKinds
<1>2. /\ SweepsTyped /\ n \in Notices /\ n.of \in Shoots /\ shoot[n.of] \in ShootRows
      /\ shoot[n.of].status # "absent" BY <1>1 DEF SweepsInv, SweepsTyped, InHand, Notices, OfItsKind, Marking
<1> DEFINE row == [shoot[n.of] EXCEPT !.told = @ \cup {n.kind}]
<1>3. /\ row \in ShootRows /\ row.told = shoot[n.of].told \cup {n.kind}
      /\ row.status = shoot[n.of].status /\ row.start = shoot[n.of].start BY <1>1, <1>2 DEF ShootRows
<1>4. shoot' = [shoot EXCEPT ![n.of] = row] BY <1>1, <1>2 DEF SweepsTyped
<1> HIDE DEF row
<1>5. \A s \in Shoots : shoot'[s] = IF s = n.of THEN row ELSE shoot[s] BY <1>2, <1>4 DEF SweepsTyped
<1>6. shoot' \in [Shoots -> ShootRows] BY <1>2, <1>3, <1>4 DEF SweepsTyped
<1>7. Marked(n)' BY <1>1, <1>2, <1>3, <1>5 DEF Marked, ShootKinds
<1>8. ASSUME NEW m \in Notices PROVE (Marked(m) => Marked(m)') /\ (IsSo(m) => IsSo(m)')
  <2>1. m.kind \in ShootKinds => m.of \in Shoots BY DEF Notices, OfItsKind
  <2>2. m.kind \in ShootKinds => shoot[m.of].told \subseteq shoot'[m.of].told BY <2>1, <1>3, <1>5
  <2>3. m.kind \in ShootKinds => shoot'[m.of].status = shoot[m.of].status /\ shoot'[m.of].start = shoot[m.of].start
    BY <2>1, <1>3, <1>5
  <2>4. Marked(m) => Marked(m)' BY <2>2, <1>1, MarkedKept
  <2>5. IsSo(m) => IsSo(m)' BY <2>3, <1>1, IsSoKept
  <2> QED BY <2>4, <2>5
<1> QED BY <1>1, <1>2, <1>3, <1>5, <1>6, <1>7, <1>8 DEF StampIsRight, SweepsTyped, ShootKinds

LEMMA StampAlbumRight ==
  ASSUME SweepsInv, NEW n \in InHand, day' = day, StampAlbum(n) \/ StampReview(n) PROVE StampIsRight(n)
<1>1. /\ n.kind \in AlbumKinds /\ UNCHANGED <<shoot, bill, paper, patron, digests>>
      /\ \/ n.kind \in {"expiry", "proofing"} /\ album' = [album EXCEPT ![n.of].told = @ \cup {n.kind}]
         \/ n.kind = "review" /\ album' = [album EXCEPT ![n.of].asked = day]
  BY DEF StampAlbum, StampReview, AlbumKinds
<1>2. /\ SweepsTyped /\ n \in Notices /\ n.of \in Albums /\ album[n.of] \in AlbumRows
      /\ day \in Nat \ {0} /\ day \in Dates
  <2>1. SweepsTyped /\ n \in Notices BY DEF SweepsInv, SweepsTyped, InHand
  <2>2. n.of \in Albums BY <2>1, <1>1 DEF Notices, OfItsKind
  <2>3. day \in Nat \ {0} /\ day \in Dates BY <2>1, SweepsAssumption DEF SweepsTyped, Dates
  <2> QED BY <2>1, <2>2, <2>3 DEF SweepsTyped
<1>3. PICK row \in AlbumRows :
        /\ album' = [album EXCEPT ![n.of] = row]
        /\ row.published = album[n.of].published /\ row.expires = album[n.of].expires
        /\ row.unpicked = album[n.of].unpicked
        /\ row.told = IF n.kind = "review" THEN album[n.of].told ELSE album[n.of].told \cup {n.kind}
        /\ row.asked = IF n.kind = "review" THEN day ELSE album[n.of].asked
  <2>1. CASE n.kind \in {"expiry", "proofing"} /\ album' = [album EXCEPT ![n.of].told = @ \cup {n.kind}]
    <3> DEFINE row == [album[n.of] EXCEPT !.told = @ \cup {n.kind}]
    <3>1. /\ row \in AlbumRows /\ row.published = album[n.of].published /\ row.expires = album[n.of].expires
          /\ row.unpicked = album[n.of].unpicked /\ row.told = album[n.of].told \cup {n.kind}
          /\ row.asked = album[n.of].asked BY <2>1, <1>2 DEF AlbumRows
    <3>2. album' = [album EXCEPT ![n.of] = row] BY <2>1, <1>2 DEF SweepsTyped
    <3> HIDE DEF row
    <3> QED BY <3>1, <3>2, <2>1
  <2>2. CASE n.kind = "review" /\ album' = [album EXCEPT ![n.of].asked = day]
    <3> DEFINE row == [album[n.of] EXCEPT !.asked = day]
    <3>1. /\ row \in AlbumRows /\ row.published = album[n.of].published /\ row.expires = album[n.of].expires
          /\ row.unpicked = album[n.of].unpicked /\ row.told = album[n.of].told /\ row.asked = day
      BY <1>2 DEF AlbumRows
    <3>2. album' = [album EXCEPT ![n.of] = row] BY <2>2, <1>2 DEF SweepsTyped
    <3> HIDE DEF row
    <3> QED BY <3>1, <3>2, <2>2
  <2> QED BY <1>1, <2>1, <2>2
<1>4. \A a \in Albums : album'[a] = IF a = n.of THEN row ELSE album[a] BY <1>2, <1>3 DEF SweepsTyped
<1>5. album' \in [Albums -> AlbumRows] BY <1>2, <1>3 DEF SweepsTyped
<1>6. Marked(n)' BY <1>1, <1>2, <1>3, <1>4 DEF Marked, ShootKinds, AlbumKinds
<1>7. ASSUME NEW m \in Notices PROVE (Marked(m) => Marked(m)') /\ (IsSo(m) => IsSo(m)')
  <2>1. m.kind \in AlbumKinds => m.of \in Albums BY DEF Notices, OfItsKind
  <2>2. m.kind \in AlbumKinds =>
          /\ album[m.of].told \subseteq album'[m.of].told /\ (album'[m.of].asked = 0 => album[m.of].asked = 0)
          /\ album'[m.of].published = album[m.of].published /\ album'[m.of].expires = album[m.of].expires
          /\ album'[m.of].unpicked = album[m.of].unpicked BY <2>1, <1>2, <1>3, <1>4
  <2>3. Marked(m) => Marked(m)' BY <2>2, <1>1, MarkedKept DEF AlbumKinds
  <2>4. IsSo(m) => IsSo(m)' BY <2>2, <1>1, IsSoKept
  <2> QED BY <2>3, <2>4
<1>8. \A a \in Albums :
        /\ album'[a].expires = album[a].expires /\ album[a].told \subseteq album'[a].told
        /\ ("expiry" \in album'[a].told => "expiry" \in album[a].told \/ (n.kind = "expiry" /\ a = n.of))
        /\ album'[a].asked = IF n.kind = "review" /\ a = n.of THEN day ELSE album[a].asked
  BY <1>1, <1>3, <1>4 DEF AlbumKinds
<1> QED BY <1>1, <1>2, <1>5, <1>6, <1>7, <1>8 DEF StampIsRight, SweepsTyped

LEMMA StampBillRight ==
  ASSUME SweepsInv, NEW n \in InHand, day' = day, StampBill(n) PROVE StampIsRight(n)
<1>1. /\ n.kind = "dunning" /\ UNCHANGED <<shoot, album, paper, patron, digests>>
      /\ bill' = [bill EXCEPT ![n.of].dunned = @ \cup {n}] BY DEF StampBill
<1>2. SweepsTyped /\ n \in Notices /\ n.of \in Bills /\ bill[n.of] \in BillRows
  BY <1>1 DEF SweepsInv, SweepsTyped, InHand, NoNotice, Notices, OfItsKind
<1> DEFINE row == [bill[n.of] EXCEPT !.dunned = @ \cup {n}]
<1>3. /\ row \in BillRows /\ row.dunned = bill[n.of].dunned \cup {n}
      /\ row.status = bill[n.of].status /\ row.due = bill[n.of].due BY <1>2 DEF BillRows
<1>4. bill' = [bill EXCEPT ![n.of] = row] BY <1>1, <1>2 DEF SweepsTyped
<1> HIDE DEF row
<1>5. \A b \in Bills : bill'[b] = IF b = n.of THEN row ELSE bill[b] BY <1>2, <1>4 DEF SweepsTyped
<1>6. bill' \in [Bills -> BillRows] BY <1>2, <1>3, <1>4 DEF SweepsTyped
<1>7. Marked(n)' BY <1>1, <1>2, <1>3, <1>5 DEF Marked, ShootKinds
<1>8. ASSUME NEW m \in Notices PROVE (Marked(m) => Marked(m)') /\ (IsSo(m) => IsSo(m)')
  <2>1. m.kind = "dunning" => m.of \in Bills BY DEF Notices, OfItsKind
  <2>2. m.kind = "dunning" => /\ bill[m.of].dunned \subseteq bill'[m.of].dunned
                              /\ bill'[m.of].status = bill[m.of].status /\ bill'[m.of].due = bill[m.of].due
    BY <2>1, <1>3, <1>5
  <2>3. Marked(m) => Marked(m)' BY <2>2, <1>1, MarkedKept
  <2>4. IsSo(m) => IsSo(m)' BY <2>2, <1>1, IsSoKept
  <2> QED BY <2>3, <2>4
<1> QED BY <1>1, <1>2, <1>6, <1>7, <1>8 DEF StampIsRight, SweepsTyped

LEMMA StampPaperRight ==
  ASSUME SweepsInv, NEW n \in InHand, day' = day, StampPaper(n) PROVE StampIsRight(n)
<1>1. /\ n.kind = "contract" /\ UNCHANGED <<shoot, album, bill, patron, digests>>
      /\ paper' = [paper EXCEPT ![n.of].told = TRUE] BY DEF StampPaper
<1>2. SweepsTyped /\ n \in Notices /\ n.of \in Papers /\ paper[n.of] \in PaperRows
  BY <1>1 DEF SweepsInv, SweepsTyped, InHand, NoNotice, Notices, OfItsKind
<1> DEFINE row == [paper[n.of] EXCEPT !.told = TRUE]
<1>3. row \in PaperRows /\ row.told /\ row.status = paper[n.of].status BY <1>2 DEF PaperRows
<1>4. paper' = [paper EXCEPT ![n.of] = row] BY <1>1
<1> HIDE DEF row
<1>5. \A p \in Papers : paper'[p] = IF p = n.of THEN row ELSE paper[p] BY <1>2, <1>4 DEF SweepsTyped
<1>6. paper' \in [Papers -> PaperRows] BY <1>2, <1>3, <1>4 DEF SweepsTyped
<1>7. Marked(n)' BY <1>1, <1>2, <1>3, <1>5 DEF Marked, ShootKinds
<1>8. ASSUME NEW m \in Notices PROVE (Marked(m) => Marked(m)') /\ (IsSo(m) => IsSo(m)')
  <2>1. m.kind = "contract" => m.of \in Papers BY DEF Notices, OfItsKind
  <2>2. m.kind = "contract" => (paper[m.of].told => paper'[m.of].told) /\ paper'[m.of].status = paper[m.of].status
    BY <2>1, <1>3, <1>5
  <2>3. Marked(m) => Marked(m)' BY <2>2, <1>1, MarkedKept
  <2>4. IsSo(m) => IsSo(m)' BY <2>2, <1>1, IsSoKept
  <2> QED BY <2>3, <2>4
<1> QED BY <1>1, <1>2, <1>6, <1>7, <1>8 DEF StampIsRight, SweepsTyped

LEMMA StampPatronRight ==
  ASSUME SweepsInv, NEW n \in InHand, day' = day, StampPatron(n) PROVE StampIsRight(n)
<1>1. /\ n.kind = "anniversary" /\ UNCHANGED <<shoot, album, bill, paper, digests>>
      /\ patron' = [patron EXCEPT ![n.of].nudged = day] BY DEF StampPatron
<1>0. day \in Nat \ {0} /\ day \in Dates /\ YearAge \in Nat BY SweepsAssumption DEF SweepsInv, SweepsTyped, Dates
<1>a. n.key + YearAge <= day BY <1>1 DEF SweepsInv, Marking
<1>b. SweepsTyped /\ n \in Notices /\ n.of \in Patrons /\ patron[n.of] \in PatronRows
  BY <1>1 DEF SweepsInv, SweepsTyped, InHand, NoNotice, Notices, OfItsKind
<1>2. /\ SweepsTyped /\ n \in Notices /\ n.of \in Patrons /\ patron[n.of] \in PatronRows
      /\ n.key + YearAge <= day /\ day \in Nat \ {0} /\ day \in Dates /\ YearAge \in Nat BY <1>0, <1>a, <1>b
<1> DEFINE row == [patron[n.of] EXCEPT !.nudged = day]
<1>3. row \in PatronRows /\ row.nudged = day /\ row.back = patron[n.of].back BY <1>2 DEF PatronRows
<1>4. patron' = [patron EXCEPT ![n.of] = row] BY <1>1
<1> HIDE DEF row
<1>5. \A k \in Patrons : patron'[k] = IF k = n.of THEN row ELSE patron[k] BY <1>2, <1>4 DEF SweepsTyped
<1>6. patron' \in [Patrons -> PatronRows] /\ \A k \in Patrons : patron'[k].nudged <= day
  BY <1>2, <1>3, <1>4, <1>5 DEF SweepsTyped
<1>7. Marked(n)' BY <1>1, <1>2, <1>3, <1>5 DEF Marked, ShootKinds
<1>8. ASSUME NEW m \in Notices PROVE (Marked(m) => Marked(m)') /\ (IsSo(m) => IsSo(m)')
  <2>1. m.kind = "anniversary" => m.of \in Patrons BY DEF Notices, OfItsKind
  <2>2. m.kind = "anniversary" => patron'[m.of].back = patron[m.of].back BY <2>1, <1>3, <1>5
  <2>3. IsSo(m) => IsSo(m)' BY <2>2, <1>1, IsSoKept
  <2>4. CASE m.kind = "anniversary" /\ m.of = n.of
    <3>1. patron[m.of].nudged <= day /\ patron[m.of].nudged \in Int /\ m.key \in Int
      BY <2>1, <2>4, <1>2 DEF SweepsTyped, PatronRows, Dates, Notices
    <3>2. patron'[m.of].nudged = day BY <2>4, <1>2, <1>3, <1>5
    <3> QED BY <2>3, <2>4, <3>1, <3>2, <1>2 DEF Marked, ShootKinds
  <2>5. CASE ~(m.kind = "anniversary" /\ m.of = n.of)
    <3>1. m.kind = "anniversary" => patron'[m.of].nudged = patron[m.of].nudged BY <2>1, <2>5, <1>5
    <3> QED BY <2>3, <3>1, <1>1, MarkedKept
  <2> QED BY <2>4, <2>5
<1> QED BY <1>1, <1>2, <1>6, <1>7, <1>8 DEF StampIsRight, SweepsTyped

LEMMA StampDigestRight ==
  ASSUME SweepsInv, NEW n \in InHand, day' = day, StampDigest(n) PROVE StampIsRight(n)
<1>1. /\ n.kind = "digest" /\ UNCHANGED <<shoot, album, bill, paper, patron>> /\ digests' = digests \cup {n.key}
  BY DEF StampDigest
<1>2. SweepsTyped /\ n \in Notices /\ n.key \in Dates BY <1>1 DEF SweepsInv, SweepsTyped, InHand, NoNotice, Notices
<1>3. Marked(n)' BY <1>1 DEF Marked, ShootKinds
<1>4. \A m \in Notices : (Marked(m) => Marked(m)') /\ (IsSo(m) => IsSo(m)')
  <2> SUFFICES ASSUME NEW m \in Notices PROVE (Marked(m) => Marked(m)') /\ (IsSo(m) => IsSo(m)') OBVIOUS
  <2>1. Marked(m) => Marked(m)' BY <1>1, MarkedKept
  <2>2. IsSo(m) => IsSo(m)' BY <1>1, IsSoKept
  <2> QED BY <2>1, <2>2
<1> QED BY <1>1, <1>2, <1>3, <1>4 DEF StampIsRight, SweepsTyped

\* A mark puts the notice at rest; an ask is a cooldown away from those before it.
LEMMA StampStep == ASSUME SweepsInv, StampItem PROVE SweepsInv'
<1>1. /\ item # NoNotice /\ Stamp(item) /\ item' = NoNotice /\ doubt' = doubt \ {item} /\ Settle
      /\ UNCHANGED <<day, saving, todo, told, twice, misled, asks, crossed>> BY DEF StampItem
<1>2. /\ SweepsTyped /\ Marking /\ Truth /\ Dating /\ Asking /\ item \in InHand
      /\ item \in Notices /\ day \in Nat /\ day' \in Nat /\ day <= day'
  BY <1>1, SweepsAssumption DEF SweepsInv, SweepsTyped, InHand
<1>3. PICK n : n = item OBVIOUS
<1>4. StampIsRight(n)
  BY <1>1, <1>2, <1>3, StampShootRight, StampAlbumRight, StampBillRight, StampPaperRight, StampPatronRight,
     StampDigestRight DEF Stamp
<1>5. NoNotice \notin Notices /\ NoNotice.kind = "none" BY DEF NoNotice, Notices, NoticeKinds, ShootKinds, AlbumKinds
<1>6. InHand' = InHand \ {n} /\ n \in InHand /\ n \in Notices /\ InHand' \subseteq Notices
  BY <1>1, <1>2, <1>3, <1>5 DEF InHand, SweepsTyped
<1>7. SweepsTyped'
  <2>1. item' \in Notices \cup {NoNotice} /\ item' \notin todo' /\ doubt' \subseteq told' BY <1>1, <1>2, <1>5 DEF SweepsTyped
  <2> QED BY <2>1, <1>1, <1>2, <1>4 DEF SweepsTyped, StampIsRight
<1>8. Marking'
  <2>1. \A m \in told' \ doubt' : Marked(m)' BY <1>1, <1>2, <1>3, <1>4 DEF Marking, StampIsRight, SweepsTyped
  <2>2. \A s \in Shoots : shoot'[s].status = "absent" => shoot'[s].told = {} BY <1>2, <1>4 DEF Marking, StampIsRight
  <2>3. \A m \in InHand' : m.kind \in ShootKinds => shoot'[m.of].status # "absent"
    BY <1>2, <1>4, <1>6 DEF Marking, StampIsRight, Notices, OfItsKind
  <2>4. todo' \cap told' \subseteq doubt' BY <1>1, <1>2 DEF Marking, SweepsTyped
  <2> QED BY <2>1, <2>2, <2>3, <2>4, <1>1, <1>2, <1>6 DEF Marking
<1>9. Truth'
  <2>1. todo' = {} \/ moved \cup {} \subseteq moved' BY <1>1 DEF Settle
  <2> QED BY <2>1, <1>1, <1>2, <1>4, TruthFrame DEF StampIsRight
<1>10. Dating'
  <2>1. \A m \in InHand' : m.kind = "expiry" => m.key = album'[m.of].expires \/ m.of \in crossed'
    BY <1>1, <1>2, <1>4, <1>6 DEF Dating, StampIsRight, Notices, OfItsKind, AlbumKinds
  <2>2. ASSUME NEW a \in Albums, "expiry" \in album'[a].told, album'[a].expires # 0
        PROVE  Notice("expiry", a, album'[a].expires) \in told' \/ a \in crossed'
    <3>1. album'[a].expires = album[a].expires /\ ("expiry" \in album[a].told \/ (n.kind = "expiry" /\ a = n.of))
      BY <2>2, <1>4 DEF StampIsRight
    <3>2. CASE "expiry" \in album[a].told BY <2>2, <3>1, <3>2, <1>1, <1>2 DEF Dating, ReminderIsOfThisDate
    <3>3. CASE n.kind = "expiry" /\ a = n.of
      <4>1. n.key = album[a].expires \/ a \in crossed BY <3>3, <1>2, <1>6 DEF Dating
      <4>2. n \in told \/ a \in crossed BY <3>3, <1>2, <1>3 DEF Dating
      <4>3. n = Notice("expiry", a, n.key) BY <3>3, <1>6 DEF Notices, OfItsKind, Notice, AlbumKinds
      <4> QED BY <4>1, <4>2, <4>3, <3>1, <1>1
    <3> QED BY <3>1, <3>2, <3>3
  <2>3. \A a \in Albums : saving'[a].open =>
          saving'[a].expires = album'[a].expires /\ saving'[a].told \subseteq album'[a].told
    BY <1>1, <1>2, <1>4 DEF Dating, StampIsRight
  <2> QED BY <2>1, <2>2, <2>3, <1>1, <1>5 DEF Dating, ReminderIsOfThisDate
<1>11. Asking'
  <2>0. /\ Cooldown \in Nat /\ \A b \in Albums : album[b].asked \in Nat
        /\ \A b \in Albums : album'[b].asked = IF n.kind = "review" /\ b = n.of THEN day ELSE album[b].asked
    BY <1>2, <1>4, SweepsAssumption DEF SweepsTyped, AlbumRows, Dates, StampIsRight
  <2>1. CASE n.kind # "review"
    <3>1. \A b \in Albums : album'[b].asked = album[b].asked BY <2>0, <2>1
    <3> QED BY <3>1, <1>1, <1>2, <1>6, AskFrame
  <2>2. CASE n.kind = "review"
    <3>1. n.of \in Albums /\ n.key = 0 /\ n.stage = 0 BY <2>2, <1>6 DEF Notices, OfItsKind, AlbumKinds
    <3>2. \A b \in Albums : whom[b] = whom[n.of] /\ album[b].asked # 0 =>
            album[b].asked + Cooldown <= day \/ Excuse(b, n.of) BY <2>2, <1>2, <1>6 DEF Asking
    <3>3. AsksAreSpaced'
      <4> SUFFICES ASSUME NEW a \in Albums, NEW b \in Albums, a # b, whom[a] = whom[b],
                          album'[a].asked # 0, album'[b].asked # 0, ~Excuse(a, b), ~Excuse(b, a)
                   PROVE  album'[a].asked - album'[b].asked \notin (1 - Cooldown)..(Cooldown - 1)
        BY <1>1 DEF AsksAreSpaced, FarApart, Excuse, asks
      <4>1. CASE a # n.of /\ b # n.of BY <4>1, <2>0, <1>2 DEF Asking, AsksAreSpaced, FarApart, Excuse
      <4>2. CASE a = n.of
        <5>1. album[b].asked + Cooldown <= day BY <4>2, <3>2, <2>0
        <5> QED BY <4>2, <5>1, <2>0, <2>2, <1>2
      <4>3. CASE b = n.of
        <5>1. album[a].asked + Cooldown <= day BY <4>3, <3>2, <2>0
        <5> QED BY <4>3, <5>1, <2>0, <2>2, <1>2
      <4> QED BY <4>1, <4>2, <4>3
    <3>4. ASSUME NEW m \in InHand', m.kind = "review"
          PROVE  /\ album'[m.of].asked = 0
                 /\ \A b \in Albums : whom'[b] = whom'[m.of] /\ album'[b].asked # 0 =>
                      album'[b].asked + Cooldown <= day' \/ Excuse(b, m.of)'
                 /\ \A q \in InHand' : q.kind = "review" /\ q # m /\ whom'[q.of] = whom'[m.of] =>
                      {q.of, m.of} \subseteq together'
      <4>1. m \in Notices /\ m \in InHand /\ m # n BY <1>6, <3>4
      <4>2. m.of \in Albums /\ m.key = 0 /\ m.stage = 0 BY <4>1, <3>4 DEF Notices, OfItsKind, AlbumKinds
      <4>3. m.of # n.of
        <5>1. /\ m = [kind |-> m.kind, of |-> m.of, key |-> m.key, stage |-> m.stage]
              /\ n = [kind |-> n.kind, of |-> n.of, key |-> n.key, stage |-> n.stage] BY <4>1, <1>6 DEF Notices
        <5> QED BY <5>1, <4>1, <4>2, <3>1, <3>4, <2>2
      <4>4. whom[n.of] = whom[m.of] => {n.of, m.of} \subseteq together BY <4>1, <3>4, <2>2, <1>2, <1>6 DEF Asking
      <4>5. /\ album[m.of].asked = 0
            /\ \A b \in Albums : whom[b] = whom[m.of] /\ album[b].asked # 0 =>
                 album[b].asked + Cooldown <= day \/ Excuse(b, m.of)
            /\ \A q \in InHand : q.kind = "review" /\ q # m /\ whom[q.of] = whom[m.of] => {q.of, m.of} \subseteq together
        BY <4>1, <3>4, <1>2 DEF Asking
      <4>6. whom[n.of] = whom[m.of] => Excuse(n.of, m.of) BY <4>4 DEF Excuse
      <4>7. UNCHANGED <<whom, together, strayed, day>> BY <1>1 DEF asks
      <4> QED BY <4>2, <4>3, <4>5, <4>6, <4>7, <2>0, <1>6 DEF Excuse
    <3> QED BY <3>3, <3>4 DEF Asking
  <2> QED BY <2>1, <2>2
<1> QED BY <1>7, <1>8, <1>9, <1>10, <1>11 DEF SweepsInv

LEMMA SweepsStep == SweepsInv /\ [SweepsNext]_sweepVars => SweepsInv'
<1> SUFFICES ASSUME SweepsInv, [SweepsNext]_sweepVars PROVE SweepsInv' OBVIOUS
<1>1. CASE UNCHANGED sweepVars
  <2>1. /\ UNCHANGED <<day, shoot, album, bill, paper, patron, digests, saving, todo, item, told, doubt, twice,
                       misled, asks, moved, crossed>>
        /\ UNCHANGED <<album, saving, crossed, sweeping, record>> BY <1>1 DEF sweepVars, subjects, sweeping, record
  <2>2. SweepsTyped' BY <2>1 DEF SweepsInv, SweepsTyped
  <2>3. \A n \in Notices : Marked(n) => Marked(n)' BY <2>1 DEF Marked
  <2>4. \A n \in Notices : n.of \notin {} /\ IsSo(n) => IsSo(n)' BY <2>1, IsSoKept
  <2>5. day <= day' BY <2>1, SweepsAssumption DEF SweepsInv, SweepsTyped
  <2>6. todo' = {} \/ moved \cup {} \subseteq moved' BY <2>1
  <2> QED BY <2>1, <2>2, <2>3, <2>4, <2>5, <2>6, ElsewhereStep
<1> QED BY <1>1, StampStep, StampFailsStep, SweepKillStep, DayStep, SweepStep, SendStep, ShootStep, AlbumStep,
           SaveBeginStep, SaveAlbumStep, BillStep, PaperStep, PatronStep DEF SweepsNext

\* The invariant says what the run checks.
LEMMA SweepsMeans == SweepsInv => SweepsTypeOK /\ TellsOnceAndTruly /\ ReminderIsOfThisDate /\ AsksAreSpaced
<1> SUFFICES ASSUME SweepsInv PROVE SweepsTypeOK /\ TellsOnceAndTruly /\ ReminderIsOfThisDate /\ AsksAreSpaced OBVIOUS
<1>1. \A b \in Bills : bill[b].status \in {"draft", "sent", "paid"} /\ bill[b].due \in Dates
  BY DEF SweepsInv, SweepsTyped, BillRows
<1>2. SweepsTypeOK
  BY <1>1 DEF SweepsInv, SweepsTyped, SweepsTypeOK, ShootRows, AlbumRows, PaperRows, PatronRows, ShootKinds
<1> QED BY <1>2 DEF SweepsInv, Marking, Truth, Dating, Asking, TellsOnceAndTruly

(* Migrations: a file is in the schema when it is recorded, in its order.  *)

(* The inductive invariant *)

Applying == {"begin", "body", "record", "rollback", "epilogue", "finally"}

\* Whoever is inside a transaction holds the write lock, and nobody else does.
WriteLockInv == \A r \in Runners : runner[r].at \in {"body", "record", "rollback"} <=> writeLock = r

\* The body is in the schema as often as the file is recorded.
OnceInv == \A f \in Files : schema[f] = (IF f \in recorded THEN 1 ELSE 0)

\* A connection's foreign keys are on between files, and off only in a file that
\* switches them off.
KeysOf(x) ==
  /\ x.at \in {"idle", "list", "next"} => x.keys
  /\ x.at \in {"begin", "body", "record", "epilogue"} => (x.keys <=> x.file \notin Toggles)

\* A runner works on a file it listed, and has recorded, or found recorded, every
\* listed file before it.
Past(x, f) == IF x.at \in {"next", "epilogue"} THEN f <= x.file ELSE f < x.file
ProgressOf(x) ==
  /\ x.applied \subseteq recorded
  /\ x.at \in Applying => x.file \in x.files
  /\ x.at = "epilogue" => x.file \in recorded
  /\ x.at = "list" => x.file = 0
  /\ \A f \in x.files : Past(x, f) => NamesOf(f) \cap recorded # {}

\* A file on disk before one a runner listed was listed with it, unless it came late.
ListOf(x) == \A f \in x.files \ outOfTurn, g \in onDisk : g < f => g \in x.files

Sound(x) == KeysOf(x) /\ ProgressOf(x) /\ ListOf(x)

MigrationsInv ==
  /\ MigrationsTypeOK /\ WriteLockInv /\ OnceInv /\ AppliedInOrder
  /\ \A r \in Runners : Sound(runner[r])

\* Files are numbered in the order of their names.
LEMMA FileNumbers == \A f \in Files : f \in Nat
BY MigrationsAssumption

LEMMA RunnerNumbers ==
  ASSUME MigrationsTypeOK, NEW r \in Runners
  PROVE  runner[r].file \in Nat /\ \A f \in runner[r].files : f \in Nat
<1>1. runner[r].file \in Files \cup {0} /\ runner[r].files \subseteq Files BY DEF MigrationsTypeOK
<1>2. CASE runner[r].file = 0 BY <1>1, <1>2, FileNumbers
<1>3. CASE runner[r].file \in Files BY <1>1, <1>3, FileNumbers
<1> QED BY <1>1, <1>2, <1>3

LEMMA CountUp ==
  ASSUME NEW S, NEW g \in [S -> Nat], NEW x \in S
  PROVE  [g EXCEPT ![x] = @ + 1] \in [S -> Nat]
OBVIOUS

LEMMA MigrationsInitially == MigrationsInit => MigrationsInv
BY MigrationsAssumption
   DEF MigrationsInit, MigrationsInv, MigrationsTypeOK, WriteLockInv, OnceInv, Sound, KeysOf, ProgressOf, ListOf,
       AppliedInOrder, NotMigrating, Past, Applying

\* A deploy changes what is on disk; what it puts before a file in work is late.
LEMMA DeployStep ==
  ASSUME MigrationsInv, NEW f \in Files, Deploy(f)
  PROVE  MigrationsInv'
<1> USE MigrationsAssumption DEF Deploy, database
<1>1. UNION {runner[r].files : r \in Runners} \subseteq Files BY DEF MigrationsInv, MigrationsTypeOK
<1>2. MigrationsTypeOK'
  <2>1. outOfTurn' \subseteq Files BY <1>1 DEF MigrationsInv, MigrationsTypeOK
  <2> QED BY <2>1 DEF MigrationsInv, MigrationsTypeOK
<1>3. WriteLockInv' /\ OnceInv' BY DEF MigrationsInv, WriteLockInv, OnceInv
<1>4. AppliedInOrder' BY <1>1 DEF MigrationsInv, MigrationsTypeOK, AppliedInOrder, NamesOf
<1>5. ASSUME NEW r \in Runners PROVE Sound(runner[r])'
  <2>1. Sound(runner[r]) /\ runner'[r] = runner[r] /\ runner[r].files \subseteq Files
    BY DEF MigrationsInv, MigrationsTypeOK
  <2>2. KeysOf(runner[r])' /\ ProgressOf(runner[r])' BY <2>1 DEF Sound, KeysOf, ProgressOf, Past, NamesOf
  <2>3. ListOf(runner[r])' BY <1>1, <2>1 DEF Sound, ListOf
  <2> QED BY <2>2, <2>3 DEF Sound
<1> QED BY <1>2, <1>3, <1>4, <1>5 DEF MigrationsInv

\* What a step of r does to r's own record and to nobody else's.
Turns(r, at, applied, file, keys, files) ==
  /\ runner' \in [Runners -> [at : {"idle", "list", "next"} \cup Applying, applied : SUBSET Files,
                              file : Files \cup {0}, keys : BOOLEAN, files : SUBSET Files]]
  /\ \A q \in Runners \ {r} : runner'[q] = runner[q]
  /\ runner'[r].at = at /\ runner'[r].applied = applied /\ runner'[r].file = file
  /\ runner'[r].keys = keys /\ runner'[r].files = files

\* A step that only changes its place.
Goes(r, at) == Turns(r, at, runner[r].applied, runner[r].file, runner[r].keys, runner[r].files)

\* What a runner does as it starts, lists and ends.
LEMMA StartTurns ==
  ASSUME MigrationsInv, NEW r \in Runners
  PROVE  /\ ReadApplied(r) => Turns(r, "list", recorded, 0, TRUE, {})
         /\ ListFiles(r) => Turns(r, "next", runner[r].applied, runner[r].file, runner[r].keys, onDisk)
         /\ MigrateReturns(r) \/ MigrateRaises(r) \/ RunnerKilled(r)
              => Turns(r, "idle", {}, 0, TRUE, {})
<1> USE DEF MigrationsInv, MigrationsTypeOK, Turns, Applying
<1>1. ASSUME ReadApplied(r) PROVE Turns(r, "list", recorded, 0, TRUE, {})
  <2>1. runner' = [runner EXCEPT ![r] = [at |-> "list", applied |-> recorded, file |-> 0,
                                         keys |-> TRUE, files |-> {}]] BY <1>1 DEF ReadApplied
  <2> QED BY <2>1
<1>2. ASSUME ListFiles(r)
      PROVE  Turns(r, "next", runner[r].applied, runner[r].file, runner[r].keys, onDisk) BY <1>2 DEF ListFiles
<1>3. ASSUME MigrateReturns(r) \/ MigrateRaises(r) \/ RunnerKilled(r)
      PROVE  Turns(r, "idle", {}, 0, TRUE, {})
  <2>1. runner' = [runner EXCEPT ![r] = [at |-> "idle", applied |-> {}, file |-> 0,
                                         keys |-> TRUE, files |-> {}]]
    BY <1>3 DEF MigrateReturns, MigrateRaises, RunnerKilled, NotMigrating
  <2> QED BY <2>1
<1> QED BY <1>1, <1>2, <1>3

\* What it does at a file.
LEMMA FileTurns ==
  ASSUME MigrationsInv, NEW r \in Runners
  PROVE  /\ NextFile(r) =>
              \E f \in Ahead(r) :
                /\ \A g \in Ahead(r) : f <= g
                /\ Turns(r, "begin", runner[r].applied, f, IF f \in Toggles THEN FALSE ELSE runner[r].keys,
                         runner[r].files)
         /\ BeginImmediate(r) => Goes(r, "body")
         /\ BodyRuns(r) => Goes(r, "record")
         /\ BodyRaises(r) \/ RecordRaises(r) => Goes(r, "rollback")
         /\ RecordAndCommit(r) => Goes(r, "epilogue")
         /\ BeginTimesOut(r) \/ RollBack(r) => Goes(r, "finally")
         /\ Epilogue(r) => Turns(r, "next", runner[r].applied, runner[r].file, TRUE, runner[r].files)
<1> USE DEF MigrationsInv, MigrationsTypeOK, Turns, Goes, Applying, MoveRunner
<1>1. ASSUME NextFile(r)
      PROVE  \E f \in Ahead(r) :
                /\ \A g \in Ahead(r) : f <= g
                /\ Turns(r, "begin", runner[r].applied, f, IF f \in Toggles THEN FALSE ELSE runner[r].keys,
                         runner[r].files)
  <2>1. PICK f \in Ahead(r) :
          /\ \A g \in Ahead(r) : f <= g
          /\ runner' = [runner EXCEPT ![r].at = "begin", ![r].file = f,
                                      ![r].keys = IF f \in Toggles THEN FALSE ELSE @] BY <1>1 DEF NextFile
  <2>2. PICK keys : keys = IF f \in Toggles THEN FALSE ELSE runner[r].keys
    OBVIOUS
  <2>3. f \in Files /\ keys \in BOOLEAN BY <2>2 DEF Ahead
  <2>4. runner' = [runner EXCEPT ![r] = [runner[r] EXCEPT !.at = "begin", !.file = f, !.keys = keys]] BY <2>1, <2>2
  <2>5. Turns(r, "begin", runner[r].applied, f, keys, runner[r].files) BY <2>3, <2>4
  <2> QED BY <2>1, <2>2, <2>5
<1>2. BeginImmediate(r) => Goes(r, "body") BY DEF BeginImmediate
<1>3. BodyRuns(r) => Goes(r, "record") BY DEF BodyRuns
<1>4. BodyRaises(r) \/ RecordRaises(r) => Goes(r, "rollback") BY DEF BodyRaises, RecordRaises
<1>5. RecordAndCommit(r) => Goes(r, "epilogue") BY DEF RecordAndCommit
<1>6. BeginTimesOut(r) \/ RollBack(r) => Goes(r, "finally") BY DEF BeginTimesOut, RollBack
<1>7. Epilogue(r) => Turns(r, "next", runner[r].applied, runner[r].file, TRUE, runner[r].files)
  <2>1. Epilogue(r) => runner' = [runner EXCEPT ![r].at = "next", ![r].keys = TRUE] BY DEF Epilogue, KeysBack
  <2> QED BY <2>1
<1> QED BY <1>1, <1>2, <1>3, <1>4, <1>5, <1>6, <1>7

\* A step that commits nothing keeps MigrationsInv if the runner it moves stays sound and
\* the write lock stays with who is inside a transaction.
LEMMA TurnKeeps ==
  ASSUME MigrationsInv, NEW r \in Runners, UNCHANGED <<onDisk, recorded, schema, outOfTurn>>,
         NEW at, NEW applied, NEW file, NEW keys, NEW files,
         Turns(r, at, applied, file, keys, files), Sound(runner'[r]),
         \/ /\ writeLock' = writeLock
            /\ at \in {"body", "record", "rollback"} <=> writeLock = r
         \/ /\ writeLock' = r /\ writeLock = NoRunner
            /\ at \in {"body", "record", "rollback"}
         \/ /\ writeLock' = NoRunner /\ writeLock = r
            /\ at \notin {"body", "record", "rollback"}
  PROVE  MigrationsInv'
<1> USE MigrationsAssumption
<1>1. MigrationsTypeOK' BY DEF MigrationsInv, MigrationsTypeOK, Turns, Applying
<1>2. WriteLockInv' BY DEF MigrationsInv, MigrationsTypeOK, WriteLockInv, Turns
<1>3. OnceInv' /\ AppliedInOrder' BY DEF MigrationsInv, OnceInv, AppliedInOrder, NamesOf
<1>4. ASSUME NEW q \in Runners PROVE Sound(runner[q])'
  <2>1. Sound(runner'[q]) BY DEF MigrationsInv, Turns
  <2> QED BY <2>1 DEF Sound, KeysOf, ProgressOf, ListOf, Past, NamesOf
<1> QED BY <1>1, <1>2, <1>3, <1>4 DEF MigrationsInv

\* Starting, listing and ending.
LEMMA StartStep ==
  ASSUME MigrationsInv, NEW r \in Runners, ReadApplied(r) \/ ListFiles(r) \/ MigrateReturns(r) \/ MigrateRaises(r)
  PROVE  MigrationsInv'
<1> USE MigrationsAssumption DEF database
<1>1. CASE ReadApplied(r)
  <2>1. Turns(r, "list", recorded, 0, TRUE, {}) BY <1>1, StartTurns
  <2>2. Sound(runner'[r]) BY <2>1 DEF Turns, Sound, KeysOf, ProgressOf, ListOf, Past, Applying
  <2> QED BY <1>1, <2>1, <2>2, TurnKeeps DEF ReadApplied, MigrationsInv, WriteLockInv
<1>2. CASE ListFiles(r)
  <2>1. Turns(r, "next", runner[r].applied, runner[r].file, runner[r].keys, onDisk) BY <1>2, StartTurns
  <2>2. Sound(runner'[r])
    BY <1>2, <2>1 DEF MigrationsInv, MigrationsTypeOK, ListFiles, Turns, Sound, KeysOf, ProgressOf, ListOf, Past,
      Applying
  <2> QED BY <1>2, <2>1, <2>2, TurnKeeps DEF ListFiles, MigrationsInv, WriteLockInv
<1>3. CASE MigrateReturns(r) \/ MigrateRaises(r)
  <2>1. Turns(r, "idle", {}, 0, TRUE, {}) BY <1>3, StartTurns
  <2>2. Sound(runner'[r]) BY <2>1 DEF Turns, Sound, KeysOf, ProgressOf, ListOf, Past, Applying
  <2> QED BY <1>3, <2>1, <2>2, TurnKeeps DEF MigrateReturns, MigrateRaises, MigrationsInv, WriteLockInv
<1> QED BY <1>1, <1>2, <1>3

\* The choice of the next file: what is skipped before it is recorded.
LEMMA NextFileStep ==
  ASSUME MigrationsInv, NEW r \in Runners, NextFile(r)
  PROVE  MigrationsInv'
<1> USE MigrationsAssumption DEF database
<1>1. PICK f \in Ahead(r) :
        /\ \A g \in Ahead(r) : f <= g
        /\ Turns(r, "begin", runner[r].applied, f, IF f \in Toggles THEN FALSE ELSE runner[r].keys,
                 runner[r].files) BY FileTurns
<1>2. f \in runner[r].files /\ runner[r].files \subseteq Files BY DEF MigrationsInv, MigrationsTypeOK, Ahead
<1>3. Sound(runner[r]) /\ runner[r].at = "next" BY DEF MigrationsInv, NextFile
<1>4. ASSUME NEW g \in runner[r].files, g < f PROVE NamesOf(g) \cap recorded # {}
  <2>1. runner[r].file \in Nat /\ f \in Nat /\ g \in Nat BY <1>2, RunnerNumbers DEF MigrationsInv
  <2>2. g <= runner[r].file \/ Skips(r, g) BY <1>1, <1>4, <2>1 DEF Ahead
  <2> QED BY <1>3, <2>2 DEF Sound, ProgressOf, Past, Skips
<1>5. Sound(runner'[r]) BY <1>1, <1>2, <1>3, <1>4 DEF Turns, Sound, KeysOf, ProgressOf, ListOf, Past, Applying
<1> QED BY <1>1, <1>3, <1>5, TurnKeeps DEF NextFile, MigrationsInv, WriteLockInv

\* Inside a file, without its commit.
LEMMA FileStep ==
  ASSUME MigrationsInv, NEW r \in Runners,
         \/ BeginImmediate(r) \/ BeginTimesOut(r) \/ BodyRuns(r) \/ BodyRaises(r) \/ RecordRaises(r)
         \/ RollBack(r) \/ Epilogue(r)
  PROVE  MigrationsInv'
<1> USE MigrationsAssumption DEF database
<1>1. Sound(runner[r]) BY DEF MigrationsInv
<1>2. CASE BeginImmediate(r)
  <2>1. Goes(r, "body") /\ runner[r].at = "begin" BY <1>2, FileTurns DEF BeginImmediate
  <2>2. Sound(runner'[r]) BY <1>1, <2>1 DEF Goes, Turns, Sound, KeysOf, ProgressOf, ListOf, Past, Applying
  <2> QED BY <1>2, <2>1, <2>2, TurnKeeps DEF Goes, BeginImmediate, Locks
<1>3. CASE BodyRuns(r)
  <2>1. Goes(r, "record") /\ runner[r].at = "body" BY <1>3, FileTurns DEF BodyRuns
  <2>2. Sound(runner'[r]) BY <1>1, <2>1 DEF Goes, Turns, Sound, KeysOf, ProgressOf, ListOf, Past, Applying
  <2> QED BY <1>3, <2>1, <2>2, TurnKeeps DEF Goes, BodyRuns, MigrationsInv, WriteLockInv
<1>6. CASE BodyRaises(r) \/ RecordRaises(r)
  <2>1. Goes(r, "rollback") /\ runner[r].at \in {"body", "record"} BY <1>6, FileTurns DEF BodyRaises, RecordRaises
  <2>2. Sound(runner'[r]) BY <1>1, <2>1 DEF Goes, Turns, Sound, KeysOf, ProgressOf, ListOf, Past, Applying
  <2> QED BY <1>6, <2>1, <2>2, TurnKeeps DEF Goes, BodyRaises, RecordRaises, MigrationsInv, WriteLockInv
<1>4. CASE BeginTimesOut(r) \/ RollBack(r)
  <2>1. Goes(r, "finally") /\ runner[r].at \in {"begin", "rollback"} BY <1>4, FileTurns DEF BeginTimesOut, RollBack
  <2>2. Sound(runner'[r]) BY <1>1, <2>1 DEF Goes, Turns, Sound, KeysOf, ProgressOf, ListOf, Past, Applying
  <2> QED BY <1>4, <2>1, <2>2, TurnKeeps DEF Goes, BeginTimesOut, RollBack, MigrationsInv, WriteLockInv
<1>5. CASE Epilogue(r)
  <2>1. Turns(r, "next", runner[r].applied, runner[r].file, TRUE, runner[r].files)
        /\ runner[r].at = "epilogue" BY <1>5, FileTurns DEF Epilogue
  <2>2. Sound(runner'[r]) BY <1>1, <2>1 DEF Turns, Sound, KeysOf, ProgressOf, ListOf, Past, Applying
  <2> QED BY <1>5, <2>1, <2>2, TurnKeeps DEF Epilogue, MigrationsInv, WriteLockInv
<1> QED BY <1>2, <1>3, <1>4, <1>5, <1>6

\* A kill takes the connection and what it had not committed.
LEMMA KillStep ==
  ASSUME MigrationsInv, NEW r \in Runners, RunnerKilled(r)
  PROVE  MigrationsInv'
<1>1. Turns(r, "idle", {}, 0, TRUE, {}) BY StartTurns
<1>2. Sound(runner'[r]) BY <1>1, MigrationsAssumption DEF Turns, Sound, KeysOf, ProgressOf, ListOf, Past, Applying
<1> QED BY <1>1, <1>2, TurnKeeps DEF RunnerKilled

\* The commit: the row and the body together, after every file that comes before.
LEMMA CommitStep ==
  ASSUME MigrationsInv, NEW r \in Runners, RecordAndCommit(r)
  PROVE  MigrationsInv'
<1> USE MigrationsAssumption
<1> DEFINE f == runner[r].file
<1>1. /\ f \in Files /\ f \in runner[r].files /\ f \notin recorded /\ writeLock = r
      /\ runner[r].at = "record" /\ Sound(runner[r])
  BY DEF MigrationsInv, MigrationsTypeOK, Sound, ProgressOf, Applying, WriteLockInv, RecordAndCommit
<1>2. /\ Goes(r, "epilogue") /\ writeLock' = NoRunner /\ recorded' = recorded \cup {f}
      /\ schema' = [schema EXCEPT ![f] = @ + 1] /\ UNCHANGED <<onDisk, outOfTurn>> BY FileTurns DEF RecordAndCommit
<1>3. MigrationsTypeOK'
  <2>1. recorded' \subseteq Files BY <1>1, <1>2 DEF MigrationsInv, MigrationsTypeOK
  <2>2. schema \in [Files -> Nat] /\ f \in Files BY <1>1 DEF MigrationsInv, MigrationsTypeOK
  <2>3. schema' \in [Files -> Nat] BY <1>2, <2>2, CountUp
  <2>4. /\ onDisk' \subseteq Files /\ outOfTurn' \subseteq Files
        /\ writeLock' \in Runners \cup {NoRunner} BY <1>2 DEF MigrationsInv, MigrationsTypeOK
  <2>5. runner' \in [Runners -> [at : {"idle", "list", "next"} \cup Applying, applied : SUBSET Files,
                                 file : Files \cup {0}, keys : BOOLEAN, files : SUBSET Files]] BY <1>2 DEF Goes, Turns
  <2> QED BY <2>1, <2>3, <2>4, <2>5 DEF MigrationsTypeOK, Applying
<1>4. WriteLockInv' BY <1>1, <1>2 DEF MigrationsInv, MigrationsTypeOK, WriteLockInv, Goes, Turns
<1>5. OnceInv' BY <1>1, <1>2 DEF MigrationsInv, MigrationsTypeOK, OnceInv
<1>6. AppliedInOrder'
  <2> SUFFICES ASSUME NEW g \in recorded' \ outOfTurn', NEW h \in onDisk', h < g
               PROVE  NamesOf(h) \cap recorded' # {} BY DEF AppliedInOrder, NamesOf
  <2>1. CASE g \in recorded BY <1>2, <2>1 DEF MigrationsInv, AppliedInOrder
  <2>2. CASE g = f
    <3>1. h \in runner[r].files BY <1>1, <1>2, <2>2 DEF Sound, ListOf
    <3> QED BY <1>1, <1>2, <2>2, <3>1 DEF Sound, ProgressOf, Past
  <2> QED BY <1>2, <2>1, <2>2
<1>7. ASSUME NEW q \in Runners PROVE Sound(runner[q])'
  <2>1. CASE q = r
    <3>1. \A h \in runner[r].files : h <= f => h < f \/ h = f
      <4>1. f \in Nat /\ \A h \in runner[r].files : h \in Nat BY RunnerNumbers DEF MigrationsInv
      <4> QED BY <4>1
    <3> QED BY <1>1, <1>2, <2>1, <3>1
         DEF Goes, Turns, Sound, KeysOf, ProgressOf, ListOf, Past, Applying, NamesOf
  <2>2. CASE q # r
    <3>1. Sound(runner[q]) /\ runner'[q] = runner[q] BY <1>2, <2>2 DEF MigrationsInv, Goes, Turns
    <3> QED BY <1>2, <3>1 DEF Sound, KeysOf, ProgressOf, ListOf, Past, NamesOf
  <2> QED BY <2>1, <2>2
<1> QED BY <1>3, <1>4, <1>5, <1>6, <1>7 DEF MigrationsInv

\* MigrationsInv is inductive.
LEMMA MigrationsStep == MigrationsInv /\ [MigrationsNext]_migrationVars => MigrationsInv'
<1> SUFFICES ASSUME MigrationsInv, [MigrationsNext]_migrationVars PROVE MigrationsInv'
  OBVIOUS
<1>1. ASSUME NEW f \in Files, Deploy(f) PROVE MigrationsInv' BY <1>1, DeployStep
<1>2. ASSUME NEW r \in Runners,
             ReadApplied(r) \/ ListFiles(r) \/ MigrateReturns(r) \/ MigrateRaises(r)
      PROVE  MigrationsInv' BY <1>2, StartStep
<1>3. ASSUME NEW r \in Runners, NextFile(r) \/ RunnerKilled(r) \/ RecordAndCommit(r) PROVE MigrationsInv'
  BY <1>3, NextFileStep, KillStep, CommitStep
<1>4. ASSUME NEW r \in Runners,
             \/ BeginImmediate(r) \/ BeginTimesOut(r) \/ BodyRuns(r) \/ BodyRaises(r)
             \/ RecordRaises(r) \/ RollBack(r) \/ Epilogue(r)
      PROVE  MigrationsInv' BY <1>4, FileStep
<1>5. CASE UNCHANGED migrationVars
  BY <1>5 DEF migrationVars, MigrationsInv, MigrationsTypeOK, WriteLockInv, OnceInv, Sound, KeysOf, ProgressOf,
    ListOf, AppliedInOrder, Past, NamesOf
<1> QED BY <1>1, <1>2, <1>3, <1>4, <1>5 DEF MigrationsNext

THEOREM MigrationsInductive == MigrationsSpec => []MigrationsInv
BY MigrationsInitially, MigrationsStep, PTL DEF MigrationsSpec

(* A file under two names *)

\* Of a file's names one is recorded at most, and a body that has run will be: it is
\* repeatable, or none of its names is recorded while its runner holds the lock.
OneName == \A f \in recorded : Alias[f] \cap recorded = {}
FreshBody(r) ==
  runner[r].at = "record" =>
    runner[r].file \in Repeatable \/ NamesOf(runner[r].file) \cap recorded = {}
NamesInv == OneName /\ \A r \in Runners : FreshBody(r)

\* A step of r that records nothing and does not end a body.
LEMMA NamesKept ==
  ASSUME NamesInv, NEW r \in Runners, recorded' = recorded,
         \A q \in Runners \ {r} : runner'[q] = runner[q],
         runner'[r].at # "record"
  PROVE  NamesInv'
BY DEF NamesInv, OneName, FreshBody, NamesOf

LEMMA BodyNames ==
  ASSUME MigrationsInv, NamesInv, NEW r \in Runners, BodyRuns(r)
  PROVE  NamesInv'
<1>1. Goes(r, "record") /\ recorded' = recorded BY FileTurns DEF BodyRuns, database
<1>2. runner[r].file \in Files BY DEF MigrationsInv, MigrationsTypeOK, Sound, ProgressOf, Applying, BodyRuns
<1>3. runner[r].file \in Repeatable \/ NamesOf(runner[r].file) \cap recorded = {}
  <2>1. NamesOf(runner[r].file) \subseteq Files BY <1>2, MigrationsAssumption DEF NamesOf
  <2> QED BY <2>1 DEF BodyRuns, MigrationsInv, OnceInv
<1>4. FreshBody(r)' BY <1>1, <1>3 DEF FreshBody, Goes, Turns, NamesOf
<1>5. ASSUME NEW q \in Runners \ {r} PROVE FreshBody(q)' BY <1>1 DEF NamesInv, FreshBody, Goes, Turns, NamesOf
<1> QED BY <1>1, <1>4, <1>5 DEF NamesInv, OneName

LEMMA CommitNames ==
  ASSUME MigrationsInv, NamesInv, NEW r \in Runners, RecordAndCommit(r)
  PROVE  NamesInv'
<1> DEFINE f == runner[r].file
<1>1. /\ f \in Files /\ recorded \subseteq Files /\ writeLock = r /\ runner[r].at = "record"
      /\ recorded' = recorded \cup {f} /\ Goes(r, "epilogue")
  BY FileTurns DEF MigrationsInv, MigrationsTypeOK, Sound, ProgressOf, Applying, WriteLockInv, RecordAndCommit
<1>2. Alias[f] \cap recorded = {} BY <1>1, AliasAssumption DEF NamesInv, FreshBody, NamesOf
<1>3. OneName'
  <2> SUFFICES ASSUME NEW g \in recorded', NEW h \in Alias[g], h \in recorded'
               PROVE  FALSE BY DEF OneName
  <2>1. h \in Files /\ g \in Files BY <1>1
  <2>2. CASE g = f BY <1>1, <1>2, <2>1, <2>2, AliasAssumption
  <2>3. CASE g \in recorded /\ h = f BY <1>1, <1>2, <2>1, <2>3, AliasAssumption
  <2>4. CASE g \in recorded /\ h \in recorded BY <2>4 DEF NamesInv, OneName
  <2> QED BY <1>1, <2>2, <2>3, <2>4
<1>4. ASSUME NEW q \in Runners PROVE FreshBody(q)'
  <2>1. runner'[q].at # "record" BY <1>1 DEF MigrationsInv, WriteLockInv, Goes, Turns
  <2> QED BY <2>1 DEF FreshBody
<1> QED BY <1>3, <1>4 DEF NamesInv

LEMMA NamesInitially == MigrationsInit => NamesInv
BY DEF MigrationsInit, NotMigrating, NamesInv, OneName, FreshBody

LEMMA NamesStep == MigrationsInv /\ NamesInv /\ [MigrationsNext]_migrationVars => NamesInv'
<1> SUFFICES ASSUME MigrationsInv, NamesInv, [MigrationsNext]_migrationVars PROVE NamesInv'
  OBVIOUS
<1>1. ASSUME NEW f \in Files, Deploy(f) PROVE NamesInv'
  BY <1>1 DEF Deploy, database, NamesInv, OneName, FreshBody, NamesOf
<1>2. ASSUME NEW r \in Runners, BodyRuns(r) \/ RecordAndCommit(r) PROVE NamesInv' BY <1>2, BodyNames, CommitNames
<1>3. ASSUME NEW r \in Runners,
             ReadApplied(r) \/ ListFiles(r) \/ MigrateReturns(r) \/ MigrateRaises(r) \/ RunnerKilled(r)
      PROVE  NamesInv'
  <2>1. recorded' = recorded BY <1>3 DEF ReadApplied, ListFiles, MigrateReturns, MigrateRaises, RunnerKilled, database
  <2>2. /\ \A q \in Runners \ {r} : runner'[q] = runner[q]
        /\ runner'[r].at \in {"list", "next", "idle"} BY <1>3, StartTurns DEF Turns
  <2> QED BY <2>1, <2>2, NamesKept
<1>4. ASSUME NEW r \in Runners,
             \/ NextFile(r) \/ BeginImmediate(r) \/ BeginTimesOut(r) \/ BodyRaises(r)
             \/ RecordRaises(r) \/ RollBack(r) \/ Epilogue(r)
      PROVE  NamesInv'
  <2>1. recorded' = recorded
    BY <1>4 DEF NextFile, BeginImmediate, BeginTimesOut, BodyRaises, RecordRaises, RollBack, Epilogue,
      database
  <2>2. /\ \A q \in Runners \ {r} : runner'[q] = runner[q]
        /\ runner'[r].at \in {"begin", "body", "rollback", "finally", "next"} BY <1>4, FileTurns DEF Goes, Turns
  <2> QED BY <2>1, <2>2, NamesKept
<1>5. CASE UNCHANGED migrationVars BY <1>5 DEF migrationVars, NamesInv, OneName, FreshBody, NamesOf
<1> QED BY <1>1, <1>2, <1>3, <1>4, <1>5 DEF MigrationsNext

\* A renamed file is recorded under one of its two names (db.py, the aliases), in every reachable state.
THEOREM MigrationsNames == MigrationsSpec => []NamesInv
BY NamesInitially, NamesStep, MigrationsInductive, PTL DEF MigrationsSpec

(* The properties *)

\* Every variable of the runner stays in its type.
THEOREM MigrationsTypeCorrect == MigrationsSpec => []MigrationsTypeOK
BY MigrationsInductive, PTL DEF MigrationsInv

\* Whoever runs, fails or is killed, a file is in the schema once if it is recorded
\* and not at all if not, and under one of its names (app/db.py:178-195, 20-26).
THEOREM MigrationsOnce == MigrationsSpec => []AppliedOnceAndRecorded
<1>1. MigrationsInv /\ NamesInv => AppliedOnceAndRecorded
  BY DEF MigrationsInv, OnceInv, NamesInv, OneName, AppliedOnceAndRecorded
<1> QED BY <1>1, MigrationsInductive, MigrationsNames, PTL

\* No file is in the schema before one that has been on disk as long
\* (app/db.py:217), whoever runs, fails or is killed.
THEOREM MigrationsInOrder == MigrationsSpec => []AppliedInOrder
BY MigrationsInductive, PTL DEF MigrationsInv

\* A file that leaves the foreign keys alone runs with them on (app/db.py:198-203).
THEOREM MigrationsKeysOn == MigrationsSpec => []KeysAreOn
<1>1. MigrationsInv => KeysAreOn BY DEF MigrationsInv, MigrationsTypeOK, Sound, KeysOf, KeysAreOn
<1> QED BY <1>1, MigrationsInductive, PTL

\* Runners, failures, renames and kills, however they overlap, keep schema and table
\* in step, in order, with the foreign keys on (app/db.py:178-217).
THEOREM MigrationsKept == MigrationsSpec => []MigrationsHold
BY MigrationsOnce, MigrationsInOrder, MigrationsKeysOn, PTL DEF MigrationsHold

(* The composition: one component moves, by a step of its own, and the     *)
(* others rest; a scope only removes steps.                                *)

LEMMA OthersRest ==
  ASSUME [DeliveryNext]_<<focus, components>>
  PROVE  /\ [SweepsNext]_sweepVars /\ [ReviewNext]_reviewVars /\ [ProofNext]_proofVars
         /\ [CropsNext]_cropVars /\ [BundlesNext]_bundleVars /\ [UploadsNext]_uploadVars
         /\ [CompanionsNext]_companionVars /\ [LockNext]_lockVars
         /\ [MigrationsNext]_migrationVars /\ [AlarmsNext]_alarmVars
<1> USE DEF galleryVars, serviceVars, components
<1>1. CASE UNCHANGED <<focus, components>> BY <1>1
<1>2. CASE SweepsNext /\ UNCHANGED restOfSweeps BY <1>2 DEF restOfSweeps
<1>3. CASE ReviewNext /\ UNCHANGED restOfReview BY <1>3 DEF restOfReview
<1>4. CASE ProofNext /\ UNCHANGED restOfProof BY <1>4 DEF restOfProof
<1>5. CASE CropsNext /\ UNCHANGED restOfCrops BY <1>5 DEF restOfCrops
<1>6. CASE BundlesNext /\ UNCHANGED restOfBundles BY <1>6 DEF restOfBundles
<1>7. CASE UploadsNext /\ UNCHANGED restOfUploads BY <1>7 DEF restOfUploads
<1>8. CASE CompanionsNext /\ UNCHANGED restOfCompanions BY <1>8 DEF restOfCompanions
<1>9. CASE LockNext /\ UNCHANGED restOfLock BY <1>9 DEF restOfLock
<1>10. CASE MigrationsNext /\ UNCHANGED restOfMigrations BY <1>10 DEF restOfMigrations
<1>11. CASE AlarmsNext /\ UNCHANGED restOfAlarms BY <1>11 DEF restOfAlarms
<1> QED BY <1>1, <1>2, <1>3, <1>4, <1>5, <1>6, <1>7, <1>8, <1>9, <1>10, <1>11 DEF DeliveryNext

\* The files, in every behaviour the run may take.
FilesInv == CropsInv /\ BundlesInv /\ UploadsInv

\* The invariants of the components, together.
DeliveryInv ==
  FilesInv /\ ProofInv /\ ReviewInv /\ CompanionsInv /\ SweepsInv /\ AlarmsInv /\ LockInv /\
  MigrationsInv /\ NamesInv
THEOREM DeliveryInductive == DeliverySpec => []DeliveryInv
<1>1. DeliveryInit => DeliveryInv
  BY CropsInitially, BundlesInitially, UploadsInitially, ProofInitially, ReviewInitially, CompanionsInitially,
     SweepsInitially, AlarmsInitially, LockInitially, MigrationsInitially, NamesInitially
  DEF DeliveryInit, DeliveryInv, FilesInv
<1>2. DeliveryInv /\ [DeliveryNext]_<<focus, components>> => DeliveryInv'
  <2> SUFFICES ASSUME DeliveryInv, [DeliveryNext]_<<focus, components>> PROVE DeliveryInv' OBVIOUS
  <2>1. CropsInv' BY OthersRest, CropsStep DEF DeliveryInv, FilesInv
  <2>2. BundlesInv' BY OthersRest, BundlesStep DEF DeliveryInv, FilesInv
  <2>3. UploadsInv' BY OthersRest, UploadsStep DEF DeliveryInv, FilesInv
  <2>4. ProofInv' BY OthersRest, ProofStep DEF DeliveryInv
  <2>5. ReviewInv' BY OthersRest, ReviewStep DEF DeliveryInv
  <2>6. CompanionsInv' BY OthersRest, CompanionsStep DEF DeliveryInv
  <2>7. SweepsInv' BY OthersRest, SweepsStep DEF DeliveryInv
  <2>8. AlarmsInv' BY OthersRest, AlarmsStep DEF DeliveryInv
  <2>9. LockInv' BY OthersRest, LockStep DEF DeliveryInv
  <2>10. MigrationsInv' BY OthersRest, MigrationsStep DEF DeliveryInv
  <2>11. NamesInv' BY OthersRest, NamesStep DEF DeliveryInv
  <2> QED BY <2>1, <2>2, <2>3, <2>4, <2>5, <2>6, <2>7, <2>8, <2>9, <2>10, <2>11 DEF DeliveryInv, FilesInv
<1> QED BY <1>1, <1>2, PTL DEF DeliverySpec

\* Every variable keeps its type.
THEOREM DeliveryTypes == DeliverySpec => []DeliveryTypeOK
<1>1. DeliveryInv => DeliveryTypeOK
  BY CropsMeans, BundlesMeans, UploadsMeans, ProofMeans, ReviewMeans, CompanionsMeans, SweepsMeans, AlarmsMeans,
     LockMeans DEF MigrationsInv, DeliveryInv, FilesInv, DeliveryTypeOK
<1> QED BY <1>1, DeliveryInductive, PTL

\* Everyone is told once, truly and of the date that holds; the owner hears of lasting
\* trouble and of every crash; doors lock, it is told, and the limiter's window holds.
THEOREM DeliveryNoticesAreTruthful == DeliverySpec => []NoticesAreTruthful
<1>1. DeliveryInv => NoticesAreTruthful BY SweepsMeans, AlarmsMeans, LockMeans DEF DeliveryInv, NoticesAreTruthful
<1> QED BY <1>1, DeliveryInductive, PTL

\* Caps hold, labels tell them, the cover is there and picks are not lost; threads stand
\* together; answers of other programs land where they were asked for.
THEOREM DeliveryGalleryHolds == DeliverySpec => []GalleryHolds
<1>1. DeliveryInv => GalleryHolds BY ProofMeans, ReviewMeans, CompanionsMeans DEF DeliveryInv, GalleryHolds
<1> QED BY <1>1, DeliveryInductive, PTL

\* Schema and table stay in step, in order, with the foreign keys on.
THEOREM DeliveryMigrationsHold == DeliverySpec => []MigrationsHold
<1>1. DeliveryInv => MigrationsHold
  BY DEF DeliveryInv, MigrationsInv, OnceInv, NamesInv, OneName, AppliedOnceAndRecorded, MigrationsTypeOK, Sound,
         KeysOf, KeysAreOn, MigrationsHold
<1> QED BY <1>1, DeliveryInductive, PTL

\* What is on disk is whole, or torn for a named cause; it is what the rows say; and who
\* waits for it does not wait in vain.
THEOREM DeliveryFilesHold == DeliverySpec => []FilesHold
<1>1. DeliveryInv => FilesHold BY CropsMeans, BundlesMeans, UploadsMeans DEF DeliveryInv, FilesInv, FilesHold
<1> QED BY <1>1, DeliveryInductive, PTL
=============================================================================
