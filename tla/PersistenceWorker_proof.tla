---------------------- MODULE PersistenceWorker_proof ----------------------
(***************************************************************************)
(* Proofs about the local outbox and the persistence worker: whatever the  *)
(* sizes, the types of events and their priorities, the retry limit and    *)
(* the failures of the database, the outbox keeps its bounds, no critical  *)
(* event is lost, and tries are counted.                                   *)
(*                                                                         *)
(* The module first shows that a finite set can be put in the order of a   *)
(* total relation, so that InOrder and FirstOut choose something, then     *)
(* what each call of the outbox does to one event and leaves of the        *)
(* others, and then that every step of the worker and of the publishers    *)
(* preserves the inductive invariant IInv.                                 *)
(***************************************************************************)
EXTENDS PersistenceWorker, FiniteSetTheorems, SequenceTheorems,
        WellFoundedInduction, TLAPS

(* Orders on finite sets. *)

Total(S, R) == \A x, y \in S : x # y => <<x, y>> \in R \/ <<y, x>> \in R

Transitive(S, R) ==
  \A x, y, z \in S : <<x, y>> \in R /\ <<y, z>> \in R => <<x, z>> \in R

Irreflexive(S, R) == \A x \in S : <<x, x>> \notin R

\* s lists the elements of S in the order of R.
Sorted(S, R, s) ==
  /\ s \in [1..Cardinality(S) -> S]
  /\ \A i, j \in 1..Cardinality(S) : i < j => <<s[i], s[j]>> \in R

\* A family of subsets of a finite set has a minimal member: the induction on
\* finite sets that the three lemmas below need.
LEMMA LeastFinite ==
  ASSUME NEW S, IsFiniteSet(S), NEW F, F \subseteq SUBSET S, F # {}
  PROVE  \E A \in F : \A B \in F : B \subseteq A => B = A
<1>1. F \subseteq FiniteSubsetsOf(S)
  BY FS_FiniteSubsetsOfFinite
<1> DEFINE R == StrictSubsetOrdering(S)
<1>2. PICK A \in F : \A B \in F : ~ (<<B, A>> \in R)
  <2>1. IsWellFoundedOn(R, FiniteSubsetsOf(S))
    BY FS_StrictSubsetOrderingWellFounded
  <2> HIDE DEF R
  <2>2. QED
    BY <1>1, <2>1, WFMin
<1>3. \A B \in F : B \subseteq A => B = A
  BY <1>2 DEF StrictSubsetOrdering
<1>4. QED
  BY <1>3

\* A total order on a finite set has a greatest element.
LEMMA Greatest ==
  ASSUME NEW S, IsFiniteSet(S), S # {}, NEW R, Total(S, R), Transitive(S, R)
  PROVE  \E m \in S : \A x \in S \ {m} : <<x, m>> \in R
<1> DEFINE Topped(T) == \E m \in T : \A x \in T \ {m} : <<x, m>> \in R
           Bad == {T \in SUBSET S : T # {} /\ ~Topped(T)}
<1>1. SUFFICES ASSUME Bad # {}  PROVE FALSE
  OBVIOUS
<1>2. PICK A \in Bad : \A B \in Bad : B \subseteq A => B = A
  <2>1. Bad \subseteq SUBSET S
    OBVIOUS
  <2> HIDE DEF Bad
  <2>2. QED
    BY <1>1, <2>1, LeastFinite
<1>3. PICK a \in A : TRUE
  OBVIOUS
<1>4. A \ {a} # {}
  OBVIOUS
<1>5. A \ {a} \notin Bad
  BY <1>2, <1>3
<1>6. PICK m \in A \ {a} : \A x \in (A \ {a}) \ {m} : <<x, m>> \in R
  BY <1>4, <1>5
<1>7. CASE <<a, m>> \in R
  <2>1. \A x \in A \ {m} : <<x, m>> \in R
    BY <1>6, <1>7
  <2>2. QED
    BY <1>2, <1>6, <2>1
<1>8. CASE <<m, a>> \in R
  <2>1. \A x \in A \ {a} : <<x, a>> \in R
    BY <1>2, <1>3, <1>6, <1>8 DEF Transitive
  <2>2. QED
    BY <1>2, <1>3, <2>1
<1>9. QED
  BY <1>2, <1>3, <1>6, <1>7, <1>8 DEF Total

\* A finite set can be enumerated in the order of a total relation on it.
LEMMA Sortable ==
  ASSUME NEW S, IsFiniteSet(S), NEW R, Total(S, R), Transitive(S, R)
  PROVE  \E s : Sorted(S, R, s)
<1> DEFINE Bad == {T \in SUBSET S : ~ \E s : Sorted(T, R, s)}
<1>1. SUFFICES ASSUME Bad # {}  PROVE FALSE
  OBVIOUS
<1>2. PICK A \in Bad : \A B \in Bad : B \subseteq A => B = A
  <2>1. Bad \subseteq SUBSET S
    OBVIOUS
  <2> HIDE DEF Bad
  <2>2. QED
    BY <1>1, <2>1, LeastFinite
<1>3. IsFiniteSet(A) /\ Cardinality(A) \in Nat
  BY FS_Subset, FS_CardinalityType
<1>4. A # {}
  <2>1. SUFFICES ASSUME A = {}  PROVE FALSE
    OBVIOUS
  <2>2. Cardinality(A) = 0
    BY <2>1, FS_EmptySet
  <2>3. Sorted(A, R, [i \in 1..0 |-> i])
    BY <2>1, <2>2 DEF Sorted
  <2>4. QED
    BY <2>3
<1>5. PICK m \in A : \A x \in A \ {m} : <<x, m>> \in R
  <2>1. Total(A, R) /\ Transitive(A, R)
    BY DEF Total, Transitive
  <2>2. QED
    BY <1>3, <1>4, <2>1, Greatest
<1>6. PICK s : Sorted(A \ {m}, R, s)
  BY <1>2, <1>5
<1> DEFINE n == Cardinality(A)
           r == [i \in 1..n |-> IF i = n THEN m ELSE s[i]]
<1>7. Cardinality(A \ {m}) = n - 1 /\ n \in Nat /\ n - 1 \in Nat
  <2>1. /\ IsFiniteSet(A \ {m})
        /\ Cardinality(A \ {m}) = Cardinality(A) - 1
    BY <1>3, <1>5, FS_RemoveElement
  <2>2. Cardinality(A \ {m}) \in Nat
    BY <2>1, FS_CardinalityType
  <2>3. QED
    BY <1>3, <2>1, <2>2
<1>8. Sorted(A, R, r)
  <2>1. ASSUME NEW i \in 1..n, i # n
        PROVE  s[i] \in A \ {m}
    <3>1. i \in 1..(n - 1)
      BY <1>7, <2>1
    <3>2. s \in [1..(n - 1) -> A \ {m}]
      BY <1>6, <1>7 DEF Sorted
    <3>3. QED
      BY <3>1, <3>2
  <2>2. r \in [1..n -> A]
    BY <2>1
  <2>3. ASSUME NEW i \in 1..n, NEW j \in 1..n, i < j
        PROVE  <<r[i], r[j]>> \in R
    <3>1. i # n /\ i \in 1..n-1
      BY <1>7, <2>3
    <3>2. CASE j = n
      BY <1>5, <2>1, <3>1, <3>2
    <3>3. CASE j # n
      <4>1. j \in 1..n-1
        BY <1>7, <3>3
      <4>2. <<s[i], s[j]>> \in R
        BY <1>6, <1>7, <2>3, <3>1, <4>1 DEF Sorted
      <4>3. QED
        BY <3>1, <3>3, <4>2
    <3>4. QED
      BY <3>2, <3>3
  <2>4. QED
    BY <2>2, <2>3 DEF Sorted
<1>9. QED
  BY <1>2, <1>8

\* InOrder returns such an enumeration.
LEMMA InOrderSorts ==
  ASSUME NEW S, IsFiniteSet(S), NEW R, Total(S, R), Transitive(S, R)
  PROVE  Sorted(S, R, InOrder(S, R))
BY Sortable DEF Sorted, InOrder

\* An enumeration in strict order meets every element once.
LEMMA SortedOnto ==
  ASSUME NEW S, IsFiniteSet(S), NEW R, Irreflexive(S, R), NEW s, Sorted(S, R, s)
  PROVE  /\ s \in Injection(1..Cardinality(S), S)
         /\ \A x \in S : \E i \in 1..Cardinality(S) : s[i] = x
<1>1. Cardinality(S) \in Nat
  BY FS_CardinalityType
<1>2. ASSUME NEW i \in 1..Cardinality(S), NEW j \in 1..Cardinality(S), s[i] = s[j]
      PROVE  i = j
  <2>1. s[i] \in S /\ <<s[i], s[i]>> \notin R
    BY DEF Sorted, Irreflexive
  <2>2. ~ (i < j) /\ ~ (j < i)
    BY <1>2, <2>1 DEF Sorted
  <2>3. QED
    BY <1>1, <2>2
<1>3. s \in Injection(1..Cardinality(S), S)
  BY <1>2 DEF Sorted, Injection, IsInjective
<1>4. Cardinality(1..Cardinality(S)) = Cardinality(S)
  BY <1>1, FS_Interval
<1>5. s \in Surjection(1..Cardinality(S), S)
  BY <1>3, <1>4, FS_Injection
<1>6. QED
  BY <1>3, <1>5 DEF Surjection

\* Retained events have an order of promotion, because (priority, created_at,
\* event_id) is a total order on them.
LEMMA RetainedSorted ==
  ASSUME NEW f, NEW S, IsFiniteSet(S),
         \A i \in S : f[i].id = i /\ i \in Int /\ f[i].typ \in Types
  PROVE  Sorted(S, EventOrder(f, S), InOrder(S, EventOrder(f, S)))
<1> DEFINE R == EventOrder(f, S)
<1>1. \A i \in S : PriorityOf[f[i].typ] \in 0..3
  BY OutboxAssumption
<1>2. Total(S, R) /\ Transitive(S, R)
  BY <1>1 DEF Total, Transitive, EventOrder, Before
<1>3. QED
  BY <1>2, InOrderSorts

\* No event comes before itself in that order.
LEMMA RetainedIrreflexive ==
  ASSUME NEW f, NEW S,
         \A i \in S : f[i].id = i /\ i \in Int /\ f[i].typ \in Types
  PROVE  Irreflexive(S, EventOrder(f, S))
<1>1. \A i \in S : PriorityOf[f[i].typ] \in 0..3
  BY OutboxAssumption
<1>2. QED
  BY <1>1 DEF Irreflexive, EventOrder, Before

--------------------------------------------------------------------------------
(* The parts of the outbox, p being the publications so far. *)

\* p is the sequence of the types published so far.
Publications(p) == p \in Seq(Types) /\ Len(p) <= MaxEvents

\* Publication i is of a P0 or P1 event.
Critical(p, i) == PriorityOf[p[i]] <= 1

\* The ready queue has an entry for event i.
InReady(b, i) == \E j \in DOMAIN b.ready : b.ready[j].id = i

\* e is event e.id of the publications, possibly with the payload of a later one.
WellFormed(p, e) ==
  /\ e \in [id : DOMAIN p, typ : Types, ver : Ids, retry : 0..MaxRetryCount]
  /\ e.typ = p[e.id]

IsBox(b) == DOMAIN b = {"ready", "events", "queued", "index", "retained", "dead"}

\* The ready queue, and its capacity.
ReadyOK(b, p) ==
  b.ready \in Seq([prio : 0..3, id : DOMAIN p]) /\ Len(b.ready) <= MaxSize

\* A dict of the outbox keeps events under their own ids.
MapOK(f, p) ==
  DOMAIN f \subseteq DOMAIN p /\ \A i \in DOMAIN f : WellFormed(p, f[i]) /\ f[i].id = i

\* An event is not retained while it is recorded as queued.
QueuedOK(b, p) ==
  b.queued \subseteq DOMAIN p /\ b.queued \intersect DOMAIN b.retained = {}

\* The dead letters are published events.
DeadOK(b, p) ==
  \A e \in b.dead : e \in Records /\ e.id \in DOMAIN p /\ e.typ = p[e.id]

\* The merge index has pending low priority events that name a market, each under
\* its own type: a critical event is never merged into.
IndexOK(b, p) ==
  \A t \in DOMAIN b.index :
    /\ t \in Identified /\ PriorityOf[t] >= 2
    /\ b.index[t] \in DOMAIN b.events
    /\ p[b.index[t]] = t

\* A retained area over its capacity has critical events only.
RoomOK(b, p) ==
  Cardinality(DOMAIN b.retained) > RetainedMaxSize =>
    \A i \in DOMAIN b.retained : Critical(p, i)

Shape(b, p) ==
  /\ IsBox(b)
  /\ ReadyOK(b, p)
  /\ MapOK(b.events, p)
  /\ MapOK(b.retained, p)
  /\ QueuedOK(b, p)
  /\ DeadOK(b, p)
  /\ IndexOK(b, p)

BoxOK(b, p) == Shape(b, p) /\ RoomOK(b, p)

\* Event i is at most once in the ready queue.
Once(b, i) ==
  \A j, k \in DOMAIN b.ready : b.ready[j].id = i /\ b.ready[k].id = i => j = k

\* A critical event is pending, and either retained or queued once, or else held
\* by the worker; when dead it is no longer pending.
OnePlace(b, i) ==
  /\ InReady(b, i) => i \in DOMAIN b.events /\ i \notin DOMAIN b.retained
  /\ Once(b, i)
  /\ i \in DOMAIN b.retained => i \in DOMAIN b.events
  /\ i \in b.queued => InReady(b, i)
  /\ i \in DOMAIN b.events => \A e \in b.dead : e.id # i

CritBox(b, p) == \A i \in DOMAIN p : Critical(p, i) => OnePlace(b, i)

--------------------------------------------------------------------------------

\* What is known of the publications so far.
LEMMA PublicationFacts ==
  ASSUME NEW p, Publications(p)
  PROVE  /\ DOMAIN p = 1..Len(p) /\ Len(p) \in Nat
         /\ DOMAIN p \subseteq Ids
         /\ IsFiniteSet(DOMAIN p)
         /\ \A i \in DOMAIN p : p[i] \in Types /\ PriorityOf[p[i]] \in 0..3
<1>1. DOMAIN p = 1..Len(p) /\ Len(p) \in Nat
  BY DEF Publications
<1>2. IsFiniteSet(1..Len(p))
  BY <1>1, FS_Interval
<1>3. QED
  BY <1>1, <1>2, OutboxAssumption DEF Publications, Ids

\* The dicts of the outbox are finite, and keep each event under its own id.
LEMMA MapFinite ==
  ASSUME NEW p, Publications(p), NEW f, MapOK(f, p)
  PROVE  /\ IsFiniteSet(DOMAIN f) /\ Cardinality(DOMAIN f) \in Nat
         /\ \A i \in DOMAIN f : f[i].id = i /\ i \in Int /\ f[i].typ \in Types /\ f[i].typ = p[i]
<1>1. IsFiniteSet(DOMAIN f)
  BY PublicationFacts, FS_Subset DEF MapOK
<1>2. QED
  BY <1>1, PublicationFacts, FS_CardinalityType DEF MapOK, WellFormed

\* A retained area that only loses events stays within its bound.
LEMMA RoomShrinks ==
  ASSUME NEW p, Publications(p), NEW b, NEW r, MapOK(b.retained, p), RoomOK(b, p),
         DOMAIN r.retained \subseteq DOMAIN b.retained
  PROVE  RoomOK(r, p)
<1>1. /\ Cardinality(DOMAIN r.retained) <= Cardinality(DOMAIN b.retained)
      /\ IsFiniteSet(DOMAIN r.retained)
  BY MapFinite, FS_Subset
<1>2. Cardinality(DOMAIN r.retained) \in Nat /\ Cardinality(DOMAIN b.retained) \in Nat
  BY <1>1, MapFinite, FS_CardinalityType
<1>3. QED
  BY <1>1, <1>2, OutboxAssumption DEF RoomOK

--------------------------------------------------------------------------------
(* The ready queue. *)

\* The entry get takes exists: FirstOut chooses an index of the queue, and the
\* others have a lower priority or were put later.
LEMMA FirstOutIn ==
  ASSUME NEW T, \A e \in T : e.prio \in 0..3, NEW q \in Seq(T), q # <<>>,
         NEW k, k = FirstOut(q)
  PROVE  /\ k \in DOMAIN q
         /\ \A j \in DOMAIN q \ {k} : q[k].prio < q[j].prio \/ (q[k].prio = q[j].prio /\ k < j)
<1> DEFINE D == DOMAIN q
           K == [i \in D |-> q[i].prio]
           R == {r \in D \X D : K[r[1]] > K[r[2]] \/ (K[r[1]] = K[r[2]] /\ r[1] > r[2])}
<1>0. q \in Seq(T) /\ q # <<>>
  OBVIOUS
<1>1. D = 1..Len(q) /\ Len(q) \in Nat /\ D # {}
  BY ONLY <1>0, EmptySeq
<1>2. K \in [D -> 0..3]
  <2>1. \A i \in D : q[i] \in T
    OBVIOUS
  <2>2. QED
    BY <2>1
<1>3. IsFiniteSet(D)
  BY <1>1, FS_Interval
<1>4. \A i \in D : K[i] = q[i].prio
  OBVIOUS
<1>5. PICK m \in D : \A x \in D \ {m} : K[m] < K[x] \/ (K[m] = K[x] /\ m < x)
  <2> HIDE DEF D, K
  <2>1. Total(D, R)
    <3>1. SUFFICES ASSUME NEW x \in D, NEW y \in D, x # y
                   PROVE  <<x, y>> \in R \/ <<y, x>> \in R
      BY DEF Total
    <3>2. {x, y} \subseteq Int /\ {K[x], K[y]} \subseteq Int
      BY <1>1, <1>2
    <3>3. \/ K[x] > K[y] \/ (K[x] = K[y] /\ x > y)
          \/ K[y] > K[x] \/ (K[y] = K[x] /\ y > x)
      BY <3>1, <3>2
    <3>4. QED
      BY <3>3
  <2>2. Transitive(D, R)
    <3>1. SUFFICES ASSUME NEW x \in D, NEW y \in D, NEW z \in D,
                          <<x, y>> \in R, <<y, z>> \in R
                   PROVE  <<x, z>> \in R
      BY DEF Transitive
    <3>2. /\ K[x] > K[y] \/ (K[x] = K[y] /\ x > y)
          /\ K[y] > K[z] \/ (K[y] = K[z] /\ y > z)
      BY <3>1
    <3>3. {x, y, z} \subseteq Int /\ {K[x], K[y], K[z]} \subseteq Int
      BY <1>1, <1>2
    <3>4. K[x] > K[z] \/ (K[x] = K[z] /\ x > z)
      BY <3>2, <3>3
    <3>5. QED
      BY <3>4
  <2>3. PICK m \in D : \A x \in D \ {m} : <<x, m>> \in R
    <3> HIDE DEF R
    <3>1. QED
      BY ZenonT(30), <1>1, <1>3, <2>1, <2>2, Greatest
  <2>4. QED
    <3>1. ASSUME NEW x \in D \ {m}
          PROVE  K[m] < K[x] \/ (K[m] = K[x] /\ m < x)
      BY <1>1, <1>2, <2>3
    <3>2. QED
      BY <3>1
<1>6. QED
  BY <1>4, <1>5 DEF FirstOut

\* What RemoveAt leaves of a sequence.
LEMMA RemoveAtFacts ==
  ASSUME NEW S, NEW q \in Seq(S), NEW k \in DOMAIN q
  PROVE  /\ RemoveAt(q, k) \in Seq(S)
         /\ Len(RemoveAt(q, k)) = Len(q) - 1
         /\ \A j \in DOMAIN RemoveAt(q, k) :
              RemoveAt(q, k)[j] = q[IF j < k THEN j ELSE j + 1]
<1> DEFINE u == SubSeq(q, 1, k - 1)
           v == SubSeq(q, k + 1, Len(q))
<1>1. k \in 1..Len(q) /\ Len(q) \in Nat /\ \A i \in 1..Len(q) : q[i] \in S
  OBVIOUS
<1>2. u \in Seq(S) /\ Len(u) = k - 1 /\ \A i \in 1..(k - 1) : u[i] = q[i]
  <2>1. \A i \in 1..(k - 1) : q[i] \in S
    BY <1>1
  <2>2. /\ u \in Seq(S)
        /\ Len(u) = IF 1 <= k - 1 THEN (k - 1) - 1 + 1 ELSE 0
        /\ \A i \in 1..((k - 1) - 1 + 1) : u[i] = q[1 + i - 1]
    BY <1>1, <2>1, SubSeqProperties
  <2>3. QED
    BY <1>1, <2>2
<1>3. v \in Seq(S) /\ Len(v) = Len(q) - k /\ \A i \in 1..(Len(q) - k) : v[i] = q[k + i]
  <2>1. \A i \in (k + 1)..Len(q) : q[i] \in S
    BY <1>1
  <2>2. /\ v \in Seq(S)
        /\ Len(v) = IF k + 1 <= Len(q) THEN Len(q) - (k + 1) + 1 ELSE 0
        /\ \A i \in 1..(Len(q) - (k + 1) + 1) : v[i] = q[k + 1 + i - 1]
    BY <1>1, <2>1, SubSeqProperties
  <2>3. QED
    BY <1>1, <2>2
<1> HIDE DEF u, v
<1>4. RemoveAt(q, k) = u \o v
  BY DEF RemoveAt, u, v
<1>5. /\ u \o v \in Seq(S)
      /\ Len(u \o v) = Len(u) + Len(v)
      /\ \A i \in 1..(Len(u) + Len(v)) : (u \o v)[i] = IF i <= Len(u) THEN u[i] ELSE v[i - Len(u)]
  BY <1>2, <1>3, ConcatProperties
<1>6. DOMAIN (u \o v) = 1..(Len(q) - 1) /\ Len(u \o v) = Len(q) - 1
  BY SMTT(30), <1>1, <1>2, <1>3, <1>5
<1>7. ASSUME NEW j \in 1..(Len(q) - 1)
      PROVE  (u \o v)[j] = q[IF j < k THEN j ELSE j + 1]
  <2>1. (u \o v)[j] = IF j <= Len(u) THEN u[j] ELSE v[j - Len(u)]
    <3>1. j \in 1..(Len(u) + Len(v))
      BY <1>1, <1>2, <1>3
    <3>2. QED
      BY <1>5, <3>1
  <2>2. CASE j < k
    <3>1. j <= Len(u) /\ j \in 1..(k - 1)
      BY <1>1, <1>2, <2>2
    <3>2. QED
      BY <1>2, <2>1, <2>2, <3>1
  <2>3. CASE ~ (j < k)
    <3>1. ~ (j <= Len(u)) /\ j - Len(u) = j - (k - 1) /\ j - (k - 1) \in 1..(Len(q) - k)
      BY <1>1, <1>2, <2>3
    <3>2. v[j - (k - 1)] = q[k + (j - (k - 1))]
      BY <1>3, <3>1
    <3>3. k + (j - (k - 1)) = j + 1
      BY <1>1
    <3>4. QED
      BY <2>1, <2>3, <3>1, <3>2, <3>3
  <2>4. QED
    BY <2>2, <2>3
<1>8. QED
  <2>1. \A j \in DOMAIN (u \o v) : (u \o v)[j] = q[IF j < k THEN j ELSE j + 1]
    BY <1>6, <1>7
  <2>2. QED
    BY <1>4, <1>5, <1>6, <1>2, <1>3, <2>1

\* Indices and ids of the ready queue.
LEMMA ReadyFacts ==
  ASSUME NEW p, NEW b, ReadyOK(b, p)
  PROVE  /\ DOMAIN b.ready = 1..Len(b.ready) /\ Len(b.ready) \in Nat
         /\ \A j \in DOMAIN b.ready : b.ready[j].id \in DOMAIN p
         /\ \A i : InReady(b, i) => i \in DOMAIN p
<1>1. DOMAIN b.ready = 1..Len(b.ready) /\ Len(b.ready) \in Nat
  BY DEF ReadyOK
<1> DEFINE T == [prio : 0..3, id : DOMAIN p]
<1>2. \A j \in DOMAIN b.ready : b.ready[j] \in T
  <2>1. b.ready \in Seq(T)
    BY DEF ReadyOK
  <2> HIDE DEF T
  <2>2. QED
    BY <2>1
<1>3. \A e \in T : e.id \in DOMAIN p
  OBVIOUS
<1> HIDE DEF T
<1>4. \A j \in DOMAIN b.ready : b.ready[j].id \in DOMAIN p
  BY <1>2, <1>3
<1>5. QED
  BY <1>1, <1>4 DEF InReady

\* The pop of get takes one entry off the ready queue and changes no event.
LEMMA PopFacts ==
  ASSUME NEW p, NEW b, BoxOK(b, p), b.ready # <<>>, NEW r, r = PopReady(b)
  PROVE  /\ BoxOK(r, p)
         /\ Len(r.ready) = Len(b.ready) - 1 /\ Len(b.ready) >= 1
         /\ r.events = b.events /\ r.retained = b.retained /\ r.dead = b.dead
         /\ r.queued = b.queued \ {FirstReady(b)}
         /\ FirstReady(b) \in DOMAIN p
         /\ \A i : i # FirstReady(b) => (InReady(r, i) <=> InReady(b, i))
         /\ CritBox(b, p) =>
              CritBox(r, p) /\ (Critical(p, FirstReady(b)) => ~InReady(r, FirstReady(b)))
<1> DEFINE k == FirstOut(b.ready)
           T == [prio : 0..3, id : DOMAIN p]
<1>1. b.ready \in Seq(T) /\ Len(b.ready) <= MaxSize
  BY DEF BoxOK, Shape, ReadyOK
<1>2. k \in DOMAIN b.ready
  <2>1. \A e \in T : e.prio \in 0..3
    OBVIOUS
  <2> HIDE DEF T
  <2>2. QED
    BY <1>1, <2>1, FirstOutIn
<1>3. /\ DOMAIN b.ready = 1..Len(b.ready) /\ Len(b.ready) \in Nat
      /\ \A j \in DOMAIN b.ready : b.ready[j].id \in DOMAIN p
  BY ReadyFacts DEF BoxOK, Shape
<1>4. /\ RemoveAt(b.ready, k) \in Seq(T)
      /\ Len(RemoveAt(b.ready, k)) = Len(b.ready) - 1
      /\ \A j \in DOMAIN RemoveAt(b.ready, k) :
           RemoveAt(b.ready, k)[j] = b.ready[IF j < k THEN j ELSE j + 1]
  <2> HIDE DEF T, k
  <2>1. QED
    BY <1>1, <1>2, RemoveAtFacts
<1>5. /\ DOMAIN r = DOMAIN b
      /\ r.ready = RemoveAt(b.ready, k)
      /\ r.queued = b.queued \ {FirstReady(b)}
      /\ r.events = b.events /\ r.retained = b.retained
      /\ r.index = b.index /\ r.dead = b.dead
  BY DEF PopReady, BoxOK, Shape, IsBox
<1>6. FirstReady(b) = b.ready[k].id /\ FirstReady(b) \in DOMAIN p
  BY <1>2, <1>3 DEF FirstReady
<1> DEFINE at(j) == IF j < k THEN j ELSE j + 1
<1>7. /\ DOMAIN r.ready = 1..(Len(b.ready) - 1)
      /\ \A j \in DOMAIN r.ready : /\ at(j) \in DOMAIN b.ready \ {k}
                                   /\ r.ready[j] = b.ready[at(j)]
  <2>1. DOMAIN r.ready = 1..(Len(b.ready) - 1)
    <3> HIDE DEF T, k
    <3>1. QED
      BY <1>3, <1>4, <1>5
  <2> HIDE DEF k, T
  <2>2. QED
    BY <1>2, <1>3, <1>4, <1>5, <2>1
<1>8. \A j \in DOMAIN b.ready : j # k => \E m \in DOMAIN r.ready : at(m) = j
  <2> HIDE DEF k
  <2>1. ASSUME NEW j \in DOMAIN b.ready, j # k
        PROVE  \E m \in DOMAIN r.ready : at(m) = j
    <3>1. CASE j < k
      <4>1. j \in DOMAIN r.ready /\ at(j) = j
        BY <1>2, <1>3, <1>7, <3>1
      <4>2. QED
        BY <4>1
    <3>2. CASE j > k
      <4>1. j - 1 \in DOMAIN r.ready /\ at(j - 1) = j
        BY <1>2, <1>3, <1>7, <3>2
      <4>2. QED
        BY <4>1
    <3>3. QED
      BY <1>2, <1>3, <2>1, <3>1, <3>2
  <2>2. QED
    BY <2>1
<1>9. \A m, n \in DOMAIN r.ready : at(m) = at(n) => m = n
  <2> HIDE DEF k
  <2>1. QED
    BY <1>2, <1>3, <1>7
<1> HIDE DEF k, at, T
<1>10. Len(r.ready) = Len(b.ready) - 1 /\ Len(b.ready) >= 1
  BY <1>2, <1>3, <1>4, <1>5
<1>11. BoxOK(r, p)
  <2>1. ReadyOK(r, p)
    BY <1>1, <1>3, <1>4, <1>5, OutboxAssumption DEF ReadyOK, T
  <2>2. QED
    BY <1>5, <2>1 DEF BoxOK, Shape, IsBox, QueuedOK, DeadOK, IndexOK, RoomOK
<1>12. \A i : i # FirstReady(b) => (InReady(r, i) <=> InReady(b, i))
  BY <1>6, <1>7, <1>8 DEF InReady
<1>13. ASSUME CritBox(b, p)
       PROVE  CritBox(r, p) /\ (Critical(p, FirstReady(b)) => ~InReady(r, FirstReady(b)))
  <2>1. Critical(p, FirstReady(b)) => ~InReady(r, FirstReady(b))
    BY <1>2, <1>6, <1>7, <1>13 DEF InReady, CritBox, OnePlace, Once
  <2>2. ASSUME NEW i \in DOMAIN p, Critical(p, i)
        PROVE  OnePlace(r, i)
    <3>1. OnePlace(b, i)
      BY <1>13, <2>2 DEF CritBox
    <3>2. InReady(r, i) => InReady(b, i)
      BY <1>7 DEF InReady
    <3>3. \A m, n \in DOMAIN r.ready : r.ready[m].id = i /\ r.ready[n].id = i => m = n
      BY <1>7, <1>9, <3>1 DEF OnePlace, Once
    <3>4. i \in r.queued => InReady(r, i)
      BY <1>5, <1>12, <3>1 DEF OnePlace, Once
    <3>5. QED
      BY <1>5, <3>1, <3>2, <3>3, <3>4 DEF OnePlace, Once
  <2>3. QED
    BY <2>1, <2>2 DEF CritBox
<1>14. QED
  BY <1>5, <1>6, <1>10, <1>11, <1>12, <1>13

\* A function on 1..n is a sequence of length n.
LEMMA EnumerationIsSeq ==
  ASSUME NEW n \in Nat, NEW T, NEW s \in [1..n -> T]
  PROVE  s \in Seq(T) /\ Len(s) = n
OBVIOUS

\* The events a promotion moves are distinct, retained, not yet queued, and no
\* more than there is room for.
LEMMA PromotableFacts ==
  ASSUME NEW p, Publications(p), NEW b, Shape(b, p), NEW room \in Nat,
         NEW m, m = Promotable(b, room)
  PROVE  /\ m \in Seq(DOMAIN b.retained \ b.queued)
         /\ Len(m) <= room
         /\ \A i, j \in DOMAIN m : m[i] = m[j] => i = j
<1> DEFINE W == DOMAIN b.retained \ b.queued
           R == EventOrder(b.retained, W)
           s == InOrder(W, R)
           k == IF room < Cardinality(W) THEN room ELSE Cardinality(W)
<1>1. /\ IsFiniteSet(DOMAIN b.retained)
      /\ \A i \in W : b.retained[i].id = i /\ i \in Int /\ b.retained[i].typ \in Types
  BY MapFinite DEF Shape
<1>2. IsFiniteSet(W) /\ Cardinality(W) \in Nat
  BY <1>1, FS_Subset, FS_CardinalityType
<1>3. Sorted(W, R, s)
  <2> HIDE DEF W
  <2>1. QED
    BY <1>1, <1>2, RetainedSorted
<1>4. Irreflexive(W, R)
  <2> HIDE DEF W
  <2>1. QED
    BY <1>1, RetainedIrreflexive
<1> HIDE DEF R, s
<1>5. s \in Injection(1..Cardinality(W), W)
  <2> HIDE DEF W
  <2>1. QED
    BY <1>2, <1>3, <1>4, SortedOnto
<1>6. m = SubSeq(s, 1, k)
  BY DEF Promotable, R, s
<1>7. k \in Nat /\ k <= room /\ k <= Cardinality(W)
  BY <1>2
<1> HIDE DEF k, W
<1>8. /\ \A i \in 1..k : s[i] \in W
      /\ \A i, j \in 1..k : s[i] = s[j] => i = j
  BY <1>2, <1>5, <1>7 DEF Injection, IsInjective
<1>9. /\ m \in Seq(W)
      /\ Len(m) = IF 1 <= k THEN k - 1 + 1 ELSE 0
      /\ \A i \in 1..(k - 1 + 1) : m[i] = s[1 + i - 1]
  BY <1>6, <1>7, <1>8, SubSeqProperties
<1>10. Len(m) = k /\ DOMAIN m = 1..k /\ \A i \in 1..k : m[i] = s[i]
  BY <1>7, <1>9
<1>11. QED
  BY <1>7, <1>8, <1>9, <1>10 DEF W

\* Moving such events to the ready queue keeps the outbox well formed, and each
\* critical event in one place.
LEMMA PromotedFacts ==
  ASSUME NEW p, Publications(p), NEW b, BoxOK(b, p),
         NEW m \in Seq(DOMAIN b.retained \ b.queued),
         \A i, j \in DOMAIN m : m[i] = m[j] => i = j,
         Len(b.ready) + Len(m) <= MaxSize,
         NEW r, r = Promoted(b, m)
  PROVE  /\ BoxOK(r, p)
         /\ r.events = b.events /\ r.dead = b.dead
         /\ r.queued = b.queued \union ToSet(m)
         /\ DOMAIN r.retained = DOMAIN b.retained \ ToSet(m)
         /\ \A i : InReady(r, i) <=> InReady(b, i) \/ i \in ToSet(m)
         /\ CritBox(b, p) => CritBox(r, p)
<1> DEFINE T == [prio : 0..3, id : DOMAIN p]
           x == [n \in DOMAIN m |-> Entry(b.retained[m[n]])]
<1>1. DOMAIN m = 1..Len(m) /\ Len(m) \in Nat /\ \A n \in DOMAIN m : m[n] \in DOMAIN b.retained \ b.queued
  OBVIOUS
<1>2. \A i \in DOMAIN b.retained : /\ b.retained[i].id = i /\ i \in DOMAIN p
                                   /\ b.retained[i].typ \in Types
  BY MapFinite DEF BoxOK, Shape, MapOK
<1>3. x \in [1..Len(m) -> T]
  BY <1>1, <1>2, OutboxAssumption DEF Entry
<1>4. x \in Seq(T) /\ Len(x) = Len(m) /\ \A n \in 1..Len(m) : x[n].id = m[n]
  <2>1. \A n \in 1..Len(m) : x[n].id = m[n]
    BY <1>1, <1>2 DEF Entry
  <2> HIDE DEF T, x
  <2>2. QED
    BY <1>1, <1>3, <2>1, EnumerationIsSeq
<1> HIDE DEF x
<1>5. /\ DOMAIN r = DOMAIN b
      /\ r.ready = b.ready \o x
      /\ r.queued = b.queued \union ToSet(m)
      /\ r.retained = [i \in DOMAIN b.retained \ ToSet(m) |-> b.retained[i]]
      /\ r.events = b.events /\ r.index = b.index /\ r.dead = b.dead
  BY DEF Promoted, x, BoxOK, Shape, IsBox
<1>6. b.ready \in Seq(T)
  BY DEF BoxOK, Shape, ReadyOK
<1>7. /\ DOMAIN b.ready = 1..Len(b.ready) /\ Len(b.ready) \in Nat
      /\ \A i : InReady(b, i) => i \in DOMAIN p
  BY ReadyFacts DEF BoxOK, Shape
<1>8. /\ r.ready \in Seq(T)
      /\ Len(r.ready) = Len(b.ready) + Len(m)
      /\ \A i \in 1..(Len(b.ready) + Len(m)) :
           r.ready[i] = IF i <= Len(b.ready) THEN b.ready[i] ELSE x[i - Len(b.ready)]
  <2> DEFINE q == b.ready
  <2> HIDE DEF T, q
  <2>1. q \in Seq(T) /\ r.ready = q \o x
    BY <1>5, <1>6 DEF q
  <2>2. /\ q \o x \in Seq(T)
        /\ Len(q \o x) = Len(q) + Len(x)
        /\ \A i \in 1..(Len(q) + Len(x)) :
             (q \o x)[i] = IF i <= Len(q) THEN q[i] ELSE x[i - Len(q)]
    BY <1>4, <2>1, ConcatProperties
  <2>3. Len(x) = Len(m)
    BY <1>4
  <2>4. QED
    BY <2>1, <2>2, <2>3 DEF q
<1>9. DOMAIN r.ready = 1..(Len(b.ready) + Len(m))
  <2> HIDE DEF T
  <2>1. QED
    BY <1>1, <1>7, <1>8
<1>10. \A i : i \in ToSet(m) => i \in DOMAIN b.retained /\ i \notin b.queued /\ i \in DOMAIN p
  BY <1>1, <1>2 DEF ToSet
<1>11. /\ \A j \in 1..Len(b.ready) : j \in DOMAIN r.ready /\ r.ready[j] = b.ready[j]
       /\ \A n \in 1..Len(m) : /\ Len(b.ready) + n \in DOMAIN r.ready
                               /\ r.ready[Len(b.ready) + n] = x[n]
  <2>1. \A j \in 1..Len(b.ready) : j \in DOMAIN r.ready /\ r.ready[j] = b.ready[j]
    BY <1>1, <1>7, <1>8, <1>9
  <2>2. ASSUME NEW n \in 1..Len(m)
        PROVE  /\ Len(b.ready) + n \in DOMAIN r.ready
               /\ r.ready[Len(b.ready) + n] = x[n]
    <3>1. /\ Len(b.ready) + n \in 1..(Len(b.ready) + Len(m))
          /\ ~ (Len(b.ready) + n <= Len(b.ready))
          /\ Len(b.ready) + n - Len(b.ready) = n
      BY <1>1, <1>7
    <3>2. r.ready[Len(b.ready) + n] = x[Len(b.ready) + n - Len(b.ready)]
      BY SMTT(30), <1>8, <3>1
    <3>3. QED
      BY <1>9, <3>1, <3>2
  <2>3. QED
    BY <2>1, <2>2
<1>12. \A j \in DOMAIN r.ready :
         \/ j \in 1..Len(b.ready)
         \/ \E n \in 1..Len(m) : j = Len(b.ready) + n
  <2>1. ASSUME NEW j \in DOMAIN r.ready, j \notin 1..Len(b.ready)
        PROVE  \E n \in 1..Len(m) : j = Len(b.ready) + n
    <3>1. j - Len(b.ready) \in 1..Len(m) /\ j = Len(b.ready) + (j - Len(b.ready))
      BY <1>1, <1>7, <1>9, <2>1
    <3>2. QED
      BY <3>1
  <2>2. QED
    BY <2>1
<1>12a. \A i : i \in ToSet(m) <=> \E n \in 1..Len(m) : m[n] = i
  BY <1>1 DEF ToSet
<1>13. ASSUME NEW i
       PROVE  InReady(r, i) <=> InReady(b, i) \/ i \in ToSet(m)
  <2>1. InReady(r, i) => InReady(b, i) \/ i \in ToSet(m)
    <3>1. ASSUME NEW j \in DOMAIN r.ready, r.ready[j].id = i
          PROVE  InReady(b, i) \/ i \in ToSet(m)
      <4>1. CASE j \in 1..Len(b.ready)
        BY <1>7, <1>11, <3>1, <4>1 DEF InReady
      <4>2. CASE \E n \in 1..Len(m) : j = Len(b.ready) + n
        BY <1>4, <1>11, <1>12a, <3>1, <4>2
      <4>3. QED
        BY <1>12, <4>1, <4>2
    <3>2. QED
      BY <3>1 DEF InReady
  <2>2. InReady(b, i) => InReady(r, i)
    BY <1>7, <1>11 DEF InReady
  <2>3. i \in ToSet(m) => InReady(r, i)
    <3>1. ASSUME NEW n \in 1..Len(m), m[n] = i
          PROVE  InReady(r, i)
      BY <1>4, <1>11, <3>1 DEF InReady
    <3>2. QED
      BY <1>12a, <3>1
  <2>4. QED
    BY <2>1, <2>2, <2>3
<1>14. BoxOK(r, p)
  <2>1. ReadyOK(r, p)
    BY <1>8 DEF ReadyOK
  <2>2. MapOK(r.retained, p)
    BY <1>5 DEF BoxOK, Shape, MapOK
  <2>3. QueuedOK(r, p)
    BY <1>5, <1>10 DEF BoxOK, Shape, QueuedOK
  <2>4. RoomOK(r, p)
    BY <1>5, RoomShrinks DEF BoxOK, Shape
  <2>5. QED
    BY <1>5, <2>1, <2>2, <2>3, <2>4 DEF BoxOK, Shape, IsBox, DeadOK, IndexOK
<1>15. ASSUME CritBox(b, p), NEW i \in DOMAIN p, Critical(p, i)
       PROVE  OnePlace(r, i)
  <2>1. OnePlace(b, i)
    BY <1>15 DEF CritBox
  <2>2. InReady(r, i) => i \in DOMAIN r.events /\ i \notin DOMAIN r.retained
    BY <1>5, <1>10, <1>13, <2>1 DEF OnePlace, Once
  <2>3. ASSUME NEW j \in DOMAIN r.ready, NEW k \in DOMAIN r.ready,
               r.ready[j].id = i, r.ready[k].id = i
        PROVE  j = k
    <3>1. CASE InReady(b, i)
      <4>1. i \notin ToSet(m)
        BY <1>10, <2>1, <3>1 DEF OnePlace, Once
      <4>2. ASSUME NEW l \in DOMAIN r.ready, r.ready[l].id = i
            PROVE  l \in 1..Len(b.ready)
        <5>1. ASSUME NEW n \in 1..Len(m), l = Len(b.ready) + n
              PROVE  FALSE
          <6>1. r.ready[l] = x[n]
            BY <1>11, <5>1
          <6>2. m[n] = i
            BY <1>4, <4>2, <6>1
          <6>3. QED
            BY <1>12a, <4>1, <6>2
        <5>2. QED
          BY <1>12, <5>1
      <4>3. QED
        BY <1>7, <1>11, <2>1, <2>3, <4>2 DEF OnePlace, Once
    <3>2. CASE ~InReady(b, i)
      <4>1. PICK n \in 1..Len(m), n2 \in 1..Len(m) :
              j = Len(b.ready) + n /\ k = Len(b.ready) + n2
        BY <1>7, <1>11, <1>12, <2>3, <3>2 DEF InReady
      <4>2. m[n] = i /\ m[n2] = i
        BY <1>4, <1>11, <2>3, <4>1
      <4>3. QED
        BY <1>1, <4>1, <4>2
    <3>3. QED
      BY <3>1, <3>2
  <2>4. i \in r.queued => InReady(r, i)
    BY <1>5, <1>13, <2>1 DEF OnePlace, Once
  <2>5. QED
    BY <1>5, <2>1, <2>2, <2>3, <2>4 DEF OnePlace, Once
<1>16. QED
  BY <1>5, <1>13, <1>14, <1>15 DEF CritBox

\* A promotion as a whole: every event stays in the ready queue or the retained
\* area, and no event is dropped.
LEMMA PromoteFacts ==
  ASSUME NEW p, Publications(p), NEW b, BoxOK(b, p), NEW r, r = Promote(b)
  PROVE  /\ BoxOK(r, p)
         /\ r.events = b.events /\ r.dead = b.dead
         /\ DOMAIN r.retained \subseteq DOMAIN b.retained
         /\ \A i : i \in r.queued => i \in b.queued \/ i \in DOMAIN b.retained
         /\ \A i : InReady(b, i) => InReady(r, i)
         /\ \A i : InReady(r, i) \/ i \in DOMAIN r.retained
                     <=> InReady(b, i) \/ i \in DOMAIN b.retained
         /\ CritBox(b, p) => CritBox(r, p)
<1> DEFINE room == MaxSize - Len(b.ready)
           m == Promotable(b, room)
<1>1. room \in Nat /\ Len(b.ready) \in Nat
  BY ReadyFacts, OutboxAssumption DEF BoxOK, Shape, ReadyOK
<1>2. /\ m \in Seq(DOMAIN b.retained \ b.queued)
      /\ Len(m) <= room
      /\ \A i, j \in DOMAIN m : m[i] = m[j] => i = j
  <2> HIDE DEF room
  <2>1. QED
    BY <1>1, PromotableFacts DEF BoxOK
<1>3. r = Promoted(b, m)
  BY DEF Promote
<1> HIDE DEF m
<1>4. Len(b.ready) + Len(m) <= MaxSize
  BY <1>1, <1>2, OutboxAssumption
<1>5. /\ BoxOK(r, p)
      /\ r.events = b.events /\ r.dead = b.dead
      /\ r.queued = b.queued \union ToSet(m)
      /\ DOMAIN r.retained = DOMAIN b.retained \ ToSet(m)
      /\ \A i : InReady(r, i) <=> InReady(b, i) \/ i \in ToSet(m)
      /\ CritBox(b, p) => CritBox(r, p)
  <2> HIDE DEF room
  <2>1. QED
    BY <1>2, <1>3, <1>4, PromotedFacts
<1>6. ToSet(m) \subseteq DOMAIN b.retained
  BY <1>2 DEF ToSet
<1>7. QED
  BY <1>5, <1>6

\* The index points to pending events of its type when one more is stored.
LEMMA IndexedFacts ==
  ASSUME NEW p, NEW b, IndexOK(b, p), NEW e, WellFormed(p, e), NEW r,
         r.events = With(b.events, e.id, e), r.index = Indexed(b, e)
  PROVE  IndexOK(r, p)
<1>1. e.typ \in Types /\ p[e.id] = e.typ /\ PriorityOf[e.typ] \in 0..3
  BY OutboxAssumption DEF WellFormed
<1>2. DOMAIN r.events = DOMAIN b.events \union {e.id}
  BY DEF With
<1>3. CASE Mergeable(e)
  <2>1. r.index = With(b.index, e.typ, e.id)
    BY <1>3 DEF Indexed
  <2>2. PriorityOf[e.typ] >= 2 /\ e.typ \in Identified
    BY <1>3 DEF Mergeable
  <2>3. QED
    BY <1>1, <1>2, <2>1, <2>2 DEF With, IndexOK
<1>4. CASE ~Mergeable(e)
  BY <1>2, <1>4 DEF Indexed, IndexOK
<1>5. QED
  BY <1>3, <1>4

\* Storing an event in one of the dicts.
LEMMA MapWith ==
  ASSUME NEW p, NEW f, MapOK(f, p), NEW e, WellFormed(p, e)
  PROVE  MapOK(With(f, e.id, e), p) /\ e.id \in DOMAIN p
<1>1. e.id \in DOMAIN p
  BY DEF WellFormed
<1>2. QED
  BY <1>1 DEF MapOK, With

\* What _store_pending changes.
LEMMA StorePendingFacts ==
  ASSUME NEW p, Publications(p), NEW b, BoxOK(b, p), NEW e, WellFormed(p, e),
         NEW r, r = StorePending(b, e)
  PROVE  /\ BoxOK(r, p)
         /\ r.ready = b.ready /\ r.queued = b.queued /\ r.dead = b.dead
         /\ r.events = With(b.events, e.id, e)
         /\ r.retained = Without(b.retained, e.id)
<1>1. /\ DOMAIN r = DOMAIN b
      /\ r.ready = b.ready /\ r.queued = b.queued /\ r.dead = b.dead
      /\ r.events = With(b.events, e.id, e)
      /\ r.retained = Without(b.retained, e.id)
      /\ r.index = Indexed(b, e)
  BY DEF StorePending, BoxOK, Shape, IsBox
<1>2. IndexOK(r, p)
  BY <1>1, IndexedFacts DEF BoxOK, Shape
<1>3. MapOK(r.events, p)
  BY <1>1, MapWith DEF BoxOK, Shape
<1>4. MapOK(r.retained, p) /\ DOMAIN r.retained \subseteq DOMAIN b.retained
  BY <1>1 DEF BoxOK, Shape, MapOK, Without
<1>5. RoomOK(r, p)
  BY <1>4, RoomShrinks DEF BoxOK, Shape
<1>6. QED
  BY <1>1, <1>2, <1>3, <1>4, <1>5
     DEF BoxOK, Shape, IsBox, ReadyOK, QueuedOK, DeadOK

\* The events an eviction drops are evictable, and all of them if the retained
\* area stays above its capacity.
LEMMA EvictedFacts ==
  ASSUME NEW p, Publications(p), NEW b, MapOK(b.retained, p), NEW out, out = Evicted(b)
  PROVE  /\ out \subseteq Evictable(b)
         /\ Cardinality(DOMAIN b.retained \ out) > RetainedMaxSize => out = Evictable(b)
<1> DEFINE D == DOMAIN b.retained
           can == Evictable(b)
           c == Cardinality(can)
           over == Cardinality(D) - RetainedMaxSize
           R == EventOrder(b.retained, can)
           best == InOrder(can, R)
           I == {m \in 1..c : m > c - over}
<1>1. /\ IsFiniteSet(D) /\ Cardinality(D) \in Nat
      /\ \A i \in D : b.retained[i].id = i /\ i \in Int /\ b.retained[i].typ \in Types
  BY MapFinite
<1>2. can \subseteq D
  BY DEF Evictable
<1> HIDE DEF can
<1>3. IsFiniteSet(can) /\ c \in Nat
  BY <1>1, <1>2, FS_Subset, FS_CardinalityType
<1>4. RetainedMaxSize \in Nat /\ over \in Int
  BY <1>1, OutboxAssumption
<1>5. Sorted(can, R, best)
  <2>1. \A i \in can : b.retained[i].id = i /\ i \in Int /\ b.retained[i].typ \in Types
    BY <1>1, <1>2
  <2>2. QED
    BY <1>3, <2>1, RetainedSorted
<1>6. Irreflexive(can, R)
  <2>1. \A i \in can : b.retained[i].id = i /\ i \in Int /\ b.retained[i].typ \in Types
    BY <1>1, <1>2
  <2>2. QED
    BY <2>1, RetainedIrreflexive
<1>7. out = {best[n] : n \in I}
  BY DEF Evicted, can
<1> HIDE DEF R, best, c, over
<1>8. /\ best \in Injection(1..c, can)
      /\ \A x \in can : \E i \in 1..c : best[i] = x
  BY <1>3, <1>5, <1>6, SortedOnto DEF c
<1>9. best \in [1..c -> can] /\ \A i, j \in 1..c : best[i] = best[j] => i = j
  BY <1>8 DEF Injection, IsInjective
<1>10. out \subseteq can
  BY <1>7, <1>9
<1>11. IsFiniteSet(out) /\ IsFiniteSet(D \ out) /\ Cardinality(D \ out) = Cardinality(D) - Cardinality(D \intersect out)
  BY <1>1, <1>3, <1>10, FS_Subset, FS_Difference
<1>12. D \intersect out = out
  BY <1>2, <1>10
<1>13. CASE over <= 0
  <2>1. Cardinality(D \ out) <= Cardinality(D) /\ Cardinality(D \ out) \in Nat
    BY <1>1, <1>11, FS_Subset, FS_CardinalityType
  <2>2. QED
    BY <1>1, <1>4, <1>10, <1>13, <2>1 DEF can, over
<1>14. CASE over >= c
  <2>1. I = 1..c
    BY <1>3, <1>4, <1>14
  <2>2. can \subseteq out
    BY <1>7, <1>8, <2>1
  <2>3. QED
    BY <1>10, <2>2 DEF can
<1>15. CASE 0 < over /\ over < c
  <2>1. I = (c - over + 1)..c
    BY <1>3, <1>4, <1>15
  <2>2. IsFiniteSet(I) /\ Cardinality(I) = over
    <3>1. c - over + 1 \in Int /\ c \in Int
      BY <1>3, <1>4
    <3>2. /\ IsFiniteSet((c - over + 1)..c)
          /\ Cardinality((c - over + 1)..c)
               = IF c - over + 1 > c THEN 0 ELSE c - (c - over + 1) + 1
      BY <3>1, FS_Interval
    <3>3. ~ (c - over + 1 > c) /\ c - (c - over + 1) + 1 = over
      BY <1>3, <1>4, <1>15
    <3>4. QED
      BY <2>1, <3>2, <3>3
  <2> DEFINE f == [n \in I |-> best[n]]
  <2>3. f \in Surjection(I, out)
    BY <1>7 DEF Surjection
  <2>4. f \in Injection(I, out)
    BY <1>7, <1>9 DEF Injection, IsInjective
  <2>5. Cardinality(out) = over
    <3> HIDE DEF f, I
    <3>1. QED
      BY <2>2, <2>3, <2>4, FS_Surjection
  <2>6. Cardinality(D \ out) = RetainedMaxSize
    <3>1. Cardinality(D \ out) = Cardinality(D) - over
      BY <1>11, <1>12, <2>5
    <3>2. over = Cardinality(D) - RetainedMaxSize
      BY DEF over
    <3> HIDE DEF D
    <3>3. QED
      BY <1>1, <1>4, <3>1, <3>2
  <2>7. QED
    BY <1>4, <1>10, <2>6 DEF can
<1>16. QED
  BY <1>3, <1>4, <1>13, <1>14, <1>15

\* Event e is stored in the retained area, and then the events of out are evicted.
Stored(b, r, e, out) ==
  /\ r.ready = b.ready /\ r.queued = b.queued
  /\ DOMAIN r.events = (DOMAIN b.events \union {e.id}) \ out
  /\ DOMAIN r.retained = (DOMAIN b.retained \union {e.id}) \ out
  /\ \A i \in DOMAIN r.events : r.events[i] = IF i = e.id THEN e ELSE b.events[i]
  /\ b.dead \subseteq r.dead
  /\ \A x \in r.dead : x \in b.dead \/ x.id \in out

\* _enforce_retained_capacity drops no critical event, and restores the bound.
LEMMA EnforceFacts ==
  ASSUME NEW p, Publications(p), NEW b, Shape(b, p),
         NEW r, r = EnforceRetainedCapacity(b)
  PROVE  /\ BoxOK(r, p)
         /\ r.ready = b.ready /\ r.queued = b.queued
         /\ \E out : /\ \A i \in out : ~Critical(p, i)
                     /\ DOMAIN r.events = DOMAIN b.events \ out
                     /\ DOMAIN r.retained = DOMAIN b.retained \ out
                     /\ \A i \in DOMAIN r.events : r.events[i] = b.events[i]
                     /\ b.dead \subseteq r.dead
                     /\ \A x \in r.dead : x \in b.dead \/ x.id \in out
<1> DEFINE out == Evicted(b)
<1>1. /\ out \subseteq Evictable(b)
      /\ Cardinality(DOMAIN b.retained \ out) > RetainedMaxSize => out = Evictable(b)
  BY EvictedFacts DEF Shape
<1>2. /\ DOMAIN r = DOMAIN b
      /\ r.ready = b.ready /\ r.queued = b.queued
      /\ r.events = [i \in DOMAIN b.events \ out |-> b.events[i]]
      /\ r.retained = [i \in DOMAIN b.retained \ out |-> b.retained[i]]
      /\ r.index = [t \in {u \in DOMAIN b.index : b.index[u] \notin out} |-> b.index[t]]
      /\ r.dead = b.dead \union {b.retained[i] : i \in out}
  BY DEF EnforceRetainedCapacity, Shape, IsBox
<1> HIDE DEF out
<1>3. \A i \in DOMAIN b.retained : /\ b.retained[i].id = i /\ i \in DOMAIN p
                                   /\ b.retained[i].typ = p[i]
                                   /\ WellFormed(p, b.retained[i])
                                   /\ PriorityOf[p[i]] \in 0..3
  BY MapFinite, PublicationFacts DEF Shape, MapOK
<1>4. \A i \in Evictable(b) : i \in DOMAIN b.retained /\ ~Critical(p, i)
  BY <1>3 DEF Evictable, IsCritical, Critical
<1>5. MapOK(r.events, p) /\ MapOK(r.retained, p)
  BY <1>2 DEF Shape, MapOK
<1>6. DeadOK(r, p)
  <2>1. ASSUME NEW i \in out
        PROVE  /\ b.retained[i] \in Records
               /\ b.retained[i].id \in DOMAIN p
               /\ b.retained[i].typ = p[b.retained[i].id]
    <3>1. WellFormed(p, b.retained[i]) /\ DOMAIN p \subseteq Ids
      BY <1>1, <1>3, <1>4, PublicationFacts
    <3>2. QED
      BY <3>1, OutboxAssumption DEF WellFormed, Records, Ids
  <2>2. QED
    BY <1>2, <2>1 DEF Shape, DeadOK
<1>7. IndexOK(r, p)
  BY <1>2 DEF Shape, IndexOK
<1>8. RoomOK(r, p)
  <2>1. SUFFICES ASSUME Cardinality(DOMAIN r.retained) > RetainedMaxSize,
                        NEW i \in DOMAIN r.retained
                 PROVE  Critical(p, i)
    BY DEF RoomOK
  <2>2. DOMAIN r.retained = DOMAIN b.retained \ out
    BY <1>2
  <2>3. i \in DOMAIN b.retained /\ i \notin Evictable(b) /\ i \notin b.queued
    BY <1>1, <2>1, <2>2 DEF Shape, QueuedOK
  <2>4. QED
    BY <1>3, <2>3 DEF Evictable, IsCritical, Critical
<1>9. BoxOK(r, p)
  BY <1>2, <1>5, <1>6, <1>7, <1>8 DEF BoxOK, Shape, IsBox, ReadyOK, QueuedOK
<1>10. \A x \in r.dead : x \in b.dead \/ x.id \in out
  BY <1>1, <1>2, <1>3, <1>4
<1>11. QED
  BY <1>1, <1>2, <1>4, <1>9, <1>10

\* What _store_retained changes, the eviction it ends with included.
LEMMA StoreRetainedFacts ==
  ASSUME NEW p, Publications(p), NEW b, Shape(b, p), NEW e, WellFormed(p, e),
         e.id \notin b.queued, NEW r, r = StoreRetained(b, e)
  PROVE  /\ BoxOK(r, p)
         /\ \E out : Stored(b, r, e, out) /\ \A i \in out : ~Critical(p, i)
<1> DEFINE m == [b EXCEPT !.events = With(@, e.id, e),
                          !.retained = With(@, e.id, e),
                          !.index = Indexed(b, e)]
<1>1. /\ DOMAIN m = DOMAIN b
      /\ m.ready = b.ready /\ m.queued = b.queued /\ m.dead = b.dead
      /\ m.events = With(b.events, e.id, e)
      /\ m.retained = With(b.retained, e.id, e)
      /\ m.index = Indexed(b, e)
  BY DEF Shape, IsBox
<1>2. r = EnforceRetainedCapacity(m)
  BY DEF StoreRetained
<1> HIDE DEF m
<1>3. MapOK(m.events, p) /\ MapOK(m.retained, p)
  BY <1>1, MapWith DEF Shape
<1>4. IndexOK(m, p)
  BY <1>1, IndexedFacts DEF Shape
<1>5. DOMAIN m.retained = DOMAIN b.retained \union {e.id}
  BY <1>1 DEF With
<1>6. Shape(m, p)
  BY <1>1, <1>3, <1>4, <1>5 DEF Shape, IsBox, ReadyOK, QueuedOK, DeadOK
<1>7. /\ BoxOK(r, p)
      /\ r.ready = m.ready /\ r.queued = m.queued
      /\ \E out : /\ \A i \in out : ~Critical(p, i)
                  /\ DOMAIN r.events = DOMAIN m.events \ out
                  /\ DOMAIN r.retained = DOMAIN m.retained \ out
                  /\ \A i \in DOMAIN r.events : r.events[i] = m.events[i]
                  /\ m.dead \subseteq r.dead
                  /\ \A x \in r.dead : x \in m.dead \/ x.id \in out
  BY <1>2, <1>6, EnforceFacts
<1>8. PICK out : /\ \A i \in out : ~Critical(p, i)
                 /\ DOMAIN r.events = DOMAIN m.events \ out
                 /\ DOMAIN r.retained = DOMAIN m.retained \ out
                 /\ \A i \in DOMAIN r.events : r.events[i] = m.events[i]
                 /\ m.dead \subseteq r.dead
                 /\ \A x \in r.dead : x \in m.dead \/ x.id \in out
  BY <1>7
<1>9. Stored(b, r, e, out)
  BY SMTT(30), <1>1, <1>5, <1>7, <1>8 DEF Stored, With
<1>10. QED
  BY <1>7, <1>8, <1>9

\* What storing an event in the retained area leaves of a critical one.
LEMMA StoredCritical ==
  ASSUME NEW p, NEW b, NEW r, NEW e, NEW out, Stored(b, r, e, out),
         \A i \in out : ~Critical(p, i),
         NEW i \in DOMAIN p, Critical(p, i), OnePlace(b, i),
         i = e.id => ~InReady(b, i) /\ \A x \in b.dead : x.id # i
  PROVE  OnePlace(r, i)
<1>1. \A j : InReady(r, j) <=> InReady(b, j)
  BY DEF Stored, InReady
<1>2. i \notin out
  OBVIOUS
<1>3. InReady(r, i) => i \in DOMAIN r.events /\ i \notin DOMAIN r.retained
  BY <1>1, <1>2 DEF Stored, OnePlace, Once
<1>4. i \in DOMAIN r.retained => i \in DOMAIN r.events
  BY <1>2 DEF Stored, OnePlace, Once
<1>5. i \in DOMAIN r.events => \A x \in r.dead : x.id # i
  BY <1>2 DEF Stored, OnePlace, Once
<1>6. QED
  BY <1>1, <1>3, <1>4, <1>5 DEF Stored, OnePlace, Once

\* and what storing it in the ready area leaves of one.
LEMMA PendingCritical ==
  ASSUME NEW p, NEW b, NEW r, NEW e,
         r.ready = b.ready, r.queued = b.queued, r.dead = b.dead,
         r.events = With(b.events, e.id, e),
         r.retained = Without(b.retained, e.id),
         NEW i, OnePlace(b, i), i = e.id => \A x \in b.dead : x.id # i
  PROVE  OnePlace(r, i)
<1>1. \A j : InReady(r, j) <=> InReady(b, j)
  BY DEF InReady
<1>2. QED
  BY <1>1 DEF OnePlace, Once, With, Without

\* What ack does, the promotion it ends with included.
LEMMA AckFacts ==
  ASSUME NEW p, Publications(p), NEW b, BoxOK(b, p), NEW id,
         NEW r, r = Ack(b, id)
  PROVE  /\ BoxOK(r, p)
         /\ r.events = Without(b.events, id) /\ r.dead = b.dead
         /\ DOMAIN r.retained \subseteq DOMAIN b.retained \ {id}
         /\ \A i : InReady(b, i) => InReady(r, i)
         /\ \A i : InReady(r, i) \/ i \in DOMAIN r.retained
                     <=> InReady(b, i) \/ i \in DOMAIN b.retained \ {id}
         /\ CritBox(b, p) /\ (Critical(p, id) => ~InReady(b, id)) => CritBox(r, p)
<1> DEFINE ix == IF id \in DOMAIN b.events THEN Unindexed(b, b.events[id]) ELSE b.index
           m == [b EXCEPT !.events = Without(@, id),
                          !.queued = @ \ {id},
                          !.retained = Without(@, id),
                          !.index = ix]
<1>1. /\ DOMAIN m = DOMAIN b
      /\ m.ready = b.ready /\ m.dead = b.dead
      /\ m.events = Without(b.events, id)
      /\ m.queued = b.queued \ {id}
      /\ m.retained = Without(b.retained, id)
      /\ m.index = ix
  <2> HIDE DEF ix
  <2>1. QED
    BY DEF BoxOK, Shape, IsBox
<1>2. r = Promote(m)
  BY DEF Ack
<1> HIDE DEF m
<1>3. MapOK(m.events, p) /\ MapOK(m.retained, p)
  BY <1>1 DEF BoxOK, Shape, MapOK, Without
<1>4. IndexOK(m, p)
  <2>1. ASSUME NEW t \in DOMAIN ix
        PROVE  t \in DOMAIN b.index /\ ix[t] = b.index[t] /\ ix[t] # id
    <3>1. CASE id \in DOMAIN b.events
      <4>1. b.events[id].typ = p[id] /\ b.events[id].id = id
        BY <3>1, MapFinite DEF BoxOK, Shape
      <4>2. t \in DOMAIN b.index /\ ix[t] = b.index[t]
        BY <3>1 DEF Unindexed, Without
      <4>3. SUFFICES ASSUME b.index[t] = id  PROVE FALSE
        BY <4>2
      <4>4. p[id] = t /\ t \in Identified /\ PriorityOf[t] >= 2
        BY <4>2, <4>3 DEF BoxOK, Shape, IndexOK
      <4>5. Mergeable(b.events[id])
        BY <4>1, <4>4 DEF Mergeable
      <4>6. ix = Without(b.index, t)
        BY <3>1, <4>1, <4>2, <4>3, <4>4, <4>5 DEF Unindexed
      <4>7. QED
        BY <4>2, <4>6 DEF Without
    <3>2. CASE id \notin DOMAIN b.events
      BY <3>2 DEF BoxOK, Shape, IndexOK
    <3>3. QED
      BY <3>1, <3>2
  <2> HIDE DEF ix
  <2>2. QED
    BY <1>1, <2>1 DEF BoxOK, Shape, IndexOK, Without
<1>5. DOMAIN m.retained = DOMAIN b.retained \ {id} /\ RoomOK(m, p)
  <2>1. DOMAIN m.retained = DOMAIN b.retained \ {id}
    BY <1>1 DEF Without
  <2>2. QED
    BY <2>1, RoomShrinks DEF BoxOK, Shape
<1>6. BoxOK(m, p)
  BY <1>1, <1>3, <1>4, <1>5 DEF BoxOK, Shape, IsBox, ReadyOK, QueuedOK, DeadOK
<1>7. \A i : InReady(m, i) <=> InReady(b, i)
  BY <1>1 DEF InReady
<1>8. /\ BoxOK(r, p)
      /\ r.events = m.events /\ r.dead = m.dead
      /\ DOMAIN r.retained \subseteq DOMAIN m.retained
      /\ \A i : InReady(m, i) => InReady(r, i)
      /\ \A i : InReady(r, i) \/ i \in DOMAIN r.retained
                  <=> InReady(m, i) \/ i \in DOMAIN m.retained
      /\ CritBox(m, p) => CritBox(r, p)
  BY <1>2, <1>6, PromoteFacts
<1>9. ASSUME CritBox(b, p), Critical(p, id) => ~InReady(b, id)
      PROVE  CritBox(m, p)
  <2>1. SUFFICES ASSUME NEW i \in DOMAIN p, Critical(p, i)  PROVE OnePlace(m, i)
    BY DEF CritBox
  <2>2. OnePlace(b, i)
    BY <1>9, <2>1 DEF CritBox
  <2>3. QED
    BY <1>1, <1>5, <1>7, <1>9, <2>1, <2>2 DEF OnePlace, Once, Without
<1>10. QED
  BY <1>1, <1>5, <1>7, <1>8, <1>9

\* What dead_letter does to an event the outbox has.
LEMMA DeadLetterFacts ==
  ASSUME NEW p, Publications(p), NEW b, BoxOK(b, p), NEW id \in DOMAIN b.events,
         NEW r, r = DeadLetter(b, id)
  PROVE  /\ BoxOK(r, p)
         /\ r.ready = b.ready /\ r.retained = b.retained
         /\ r.queued = b.queued \ {id}
         /\ r.events = Without(b.events, id)
         /\ \E e : /\ r.dead = b.dead \union {e} /\ e.id = id
         /\ CritBox(b, p) /\ (Critical(p, id) => ~InReady(b, id) /\ id \notin DOMAIN b.retained)
              => CritBox(r, p)
<1> DEFINE e == WithRetry(b.events[id])
<1>1. /\ DOMAIN r = DOMAIN b
      /\ r.ready = b.ready /\ r.retained = b.retained
      /\ r.queued = b.queued \ {id}
      /\ r.events = Without(b.events, id)
      /\ r.index = Unindexed(b, e)
      /\ r.dead = b.dead \union {e}
  BY DEF DeadLetter, Current, BoxOK, Shape, IsBox
<1>2. WellFormed(p, b.events[id]) /\ b.events[id].id = id /\ b.events[id].typ = p[id]
  BY MapFinite DEF BoxOK, Shape, MapOK
<1>3. e \in Records /\ e.id = id /\ id \in DOMAIN p /\ e.typ = p[id]
  <2>1. DOMAIN p \subseteq Ids
    BY PublicationFacts
  <2>2. QED
    BY <1>2, <2>1, OutboxAssumption DEF WellFormed, WithRetry, Records, Ids
<1> HIDE DEF e
<1>4. MapOK(r.events, p)
  BY <1>1 DEF BoxOK, Shape, MapOK, Without
<1>5. IndexOK(r, p)
  <2>1. ASSUME NEW t \in DOMAIN r.index
        PROVE  t \in DOMAIN b.index /\ r.index[t] = b.index[t] /\ r.index[t] # id
    <3>1. t \in DOMAIN b.index /\ r.index[t] = b.index[t]
      BY <1>1 DEF Unindexed, Without
    <3>2. SUFFICES ASSUME b.index[t] = id  PROVE FALSE
      BY <3>1
    <3>3. p[id] = t /\ t \in Identified /\ PriorityOf[t] >= 2
      BY <3>1, <3>2 DEF BoxOK, Shape, IndexOK
    <3>4. r.index = Without(b.index, t)
      BY <1>1, <1>3, <3>1, <3>2, <3>3 DEF Mergeable, Unindexed
    <3>5. QED
      BY <3>4 DEF Without
  <2>2. QED
    BY <1>1, <2>1 DEF BoxOK, Shape, IndexOK, Without
<1>6. BoxOK(r, p)
  <2>1. RoomOK(r, p)
    BY <1>1 DEF BoxOK, RoomOK
  <2>2. QED
    BY <1>1, <1>3, <1>4, <1>5, <2>1
       DEF BoxOK, Shape, IsBox, ReadyOK, QueuedOK, DeadOK
<1>7. ASSUME CritBox(b, p), Critical(p, id) => ~InReady(b, id) /\ id \notin DOMAIN b.retained
      PROVE  CritBox(r, p)
  <2>1. SUFFICES ASSUME NEW i \in DOMAIN p, Critical(p, i)  PROVE OnePlace(r, i)
    BY DEF CritBox
  <2>2. OnePlace(b, i) /\ (InReady(r, i) <=> InReady(b, i))
    BY <1>1, <1>7, <2>1 DEF CritBox, InReady
  <2>3. QED
    BY <1>1, <1>3, <1>7, <2>1, <2>2 DEF OnePlace, Once, Without
<1>8. QED
  BY <1>1, <1>3, <1>6, <1>7

\* The outbox knows nothing of the next event to be published.
LEMMA GrownBox ==
  ASSUME NEW p, NEW q, NEW n, NEW b, BoxOK(b, p),
         DOMAIN q = DOMAIN p \union {n}, n \notin DOMAIN p,
         \A i \in DOMAIN p : q[i] = p[i] /\ (Critical(q, i) <=> Critical(p, i))
  PROVE  /\ BoxOK(b, q)
         /\ n \notin DOMAIN b.events /\ n \notin DOMAIN b.retained /\ n \notin b.queued
         /\ ~InReady(b, n) /\ \A x \in b.dead : x.id # n
         /\ CritBox(b, p) => \A i \in DOMAIN q : Critical(q, i) /\ i # n => OnePlace(b, i)
<1>1. \A e : WellFormed(p, e) => WellFormed(q, e)
  BY DEF WellFormed
<1>2. ReadyOK(b, q)
  <2> DEFINE T == [prio : 0..3, id : DOMAIN p]
             U == [prio : 0..3, id : DOMAIN q]
  <2>1. T \subseteq U
    OBVIOUS
  <2>2. b.ready \in Seq(T) /\ Len(b.ready) <= MaxSize
    BY DEF BoxOK, Shape, ReadyOK
  <2>3. b.ready \in Seq(U)
    <3> HIDE DEF T, U
    <3>1. QED
      BY <2>1, <2>2, SeqMonotonic
  <2>4. QED
    BY <2>2, <2>3 DEF ReadyOK
<1>3. MapOK(b.events, q) /\ MapOK(b.retained, q)
  BY <1>1 DEF BoxOK, Shape, MapOK
<1>4. QueuedOK(b, q) /\ DeadOK(b, q) /\ IndexOK(b, q)
  BY DEF BoxOK, Shape, QueuedOK, DeadOK, IndexOK, MapOK
<1>5. RoomOK(b, q)
  BY DEF BoxOK, Shape, RoomOK, MapOK
<1>6. BoxOK(b, q)
  BY <1>2, <1>3, <1>4, <1>5 DEF BoxOK, Shape
<1>7. ~InReady(b, n)
  BY ReadyFacts DEF BoxOK, Shape
<1>8. CritBox(b, p) => \A i \in DOMAIN q : Critical(q, i) /\ i # n => OnePlace(b, i)
  BY DEF CritBox
<1>9. QED
  BY <1>6, <1>7, <1>8 DEF BoxOK, Shape, MapOK, QueuedOK, DeadOK

\* The entry of event e is put in the ready queue, with or without a record in
\* queued, and e leaves the retained area if it was there.
PutIn(b, r, e) ==
  /\ DOMAIN r = DOMAIN b
  /\ r.ready = PutReady(b.ready, e)
  /\ r.queued = b.queued \/ r.queued = b.queued \union {e.id}
  /\ DOMAIN r.retained = DOMAIN b.retained \ {e.id}
  /\ \A i \in DOMAIN r.retained : r.retained[i] = b.retained[i]
  /\ r.events = b.events /\ r.index = b.index /\ r.dead = b.dead

\* A ready queue with room stays within its capacity, and the event is queued once.
LEMMA PutFacts ==
  ASSUME NEW p, Publications(p), NEW b, BoxOK(b, p), HasCapacity(b),
         NEW e, WellFormed(p, e), NEW r, PutIn(b, r, e)
  PROVE  /\ BoxOK(r, p)
         /\ \A i : InReady(r, i) <=> InReady(b, i) \/ i = e.id
         /\ \A i : Once(b, i) /\ (i = e.id => ~InReady(b, i)) => Once(r, i)
<1> USE DEF PutIn
<1> DEFINE T == [prio : 0..3, id : DOMAIN p]
<1>1. Entry(e) \in T /\ Entry(e).id = e.id /\ e.id \in DOMAIN p
  BY OutboxAssumption DEF WellFormed, Entry
<1>2. b.ready \in Seq(T) /\ Len(b.ready) \in Nat /\ DOMAIN b.ready = 1..Len(b.ready)
  BY ReadyFacts DEF BoxOK, Shape, ReadyOK
<1>3. /\ r.ready \in Seq(T)
      /\ Len(r.ready) = Len(b.ready) + 1
      /\ DOMAIN r.ready = 1..(Len(b.ready) + 1)
      /\ r.ready[Len(b.ready) + 1] = Entry(e)
      /\ \A j \in 1..Len(b.ready) : r.ready[j] = b.ready[j]
  <2> DEFINE q == b.ready
             x == Entry(e)
  <2>1. q \in Seq(T) /\ x \in T /\ r.ready = Append(q, x)
    BY <1>1, <1>2 DEF PutReady
  <2> HIDE DEF T, q, x
  <2>2. /\ r.ready \in Seq(T)
        /\ Len(r.ready) = Len(q) + 1
        /\ r.ready[Len(q) + 1] = x
        /\ \A j \in 1..Len(q) : r.ready[j] = q[j]
    BY <2>1
  <2>3. DOMAIN r.ready = 1..(Len(q) + 1)
    BY <2>2
  <2>4. QED
    BY <2>2, <2>3 DEF q, x
<1>4. Len(r.ready) <= MaxSize
  BY <1>2, <1>3, OutboxAssumption DEF HasCapacity
<1>6. MapOK(r.retained, p)
  BY DEF BoxOK, Shape, MapOK
<1>7. QueuedOK(r, p)
  BY <1>1 DEF BoxOK, Shape, QueuedOK
<1>8. RoomOK(r, p)
  BY RoomShrinks DEF BoxOK, Shape
<1>9. BoxOK(r, p)
  BY <1>3, <1>4, <1>6, <1>7, <1>8 DEF BoxOK, Shape, IsBox, ReadyOK, DeadOK, IndexOK
<1> HIDE DEF T
<1>10. \A j \in DOMAIN r.ready : j \in 1..Len(b.ready) \/ j = Len(b.ready) + 1
  BY <1>2, <1>3
<1>11. \A i : InReady(r, i) <=> InReady(b, i) \/ i = e.id
  <2>1. \A i : InReady(r, i) => InReady(b, i) \/ i = e.id
    BY <1>1, <1>2, <1>3, <1>10 DEF InReady
  <2>2. \A i : InReady(b, i) => InReady(r, i)
    BY <1>2, <1>3 DEF InReady
  <2>3. InReady(r, e.id)
    BY <1>1, <1>2, <1>3 DEF InReady
  <2>4. QED
    BY <2>1, <2>2, <2>3
<1>12. ASSUME NEW i,
              Once(b, i),
              i = e.id => ~InReady(b, i),
              NEW j \in DOMAIN r.ready, NEW k \in DOMAIN r.ready,
              r.ready[j].id = i, r.ready[k].id = i
       PROVE  j = k
  <2>1. CASE i = e.id
    BY <1>2, <1>3, <1>10, <1>12, <2>1 DEF InReady, Once
  <2>2. CASE i # e.id
    BY <1>1, <1>2, <1>3, <1>10, <1>12, <2>2 DEF Once
  <2>3. QED
    BY <2>1, <2>2
<1>13. QED
  BY <1>9, <1>11, <1>12 DEF Once

\* What a publication leaves: event n is the new one.
Grown(b, r, p, n) ==
  /\ \A i \in DOMAIN r.events :
       \/ i = n /\ r.events[i].retry = 0
       \/ i \in DOMAIN b.events /\ r.events[i].retry = b.events[i].retry
  /\ \A i \in DOMAIN p : Critical(p, i) /\ i # n =>
       /\ i \in DOMAIN r.events <=> i \in DOMAIN b.events
       /\ i \in DOMAIN r.retained <=> i \in DOMAIN b.retained
       /\ InReady(r, i) <=> InReady(b, i)
  /\ \A i \in DOMAIN r.retained :
       i # n /\ (i \in DOMAIN b.retained => i \in DOMAIN b.events) => i \in DOMAIN r.events
  /\ r.queued \subseteq b.queued \union {n}
  /\ b.dead \subseteq r.dead
  /\ \A x \in r.dead : x \in b.dead \/ ~Critical(p, x.id)

\* A merge: a low priority event replaces one the outbox has, the new id is not used.
LEMMA MergeFacts ==
  ASSUME NEW p, Publications(p), NEW b, BoxOK(b, p), NEW e, WellFormed(p, e),
         MergesInto(b, e), e.id \notin DOMAIN b.events, NEW r, r = Merge(b, e)
  PROVE  /\ BoxOK(r, p)
         /\ Grown(b, r, p, e.id)
         /\ ~Critical(p, e.id)
         /\ \A i \in DOMAIN p : Critical(p, i) /\ OnePlace(b, i) => OnePlace(r, i)
<1> DEFINE o == b.index[e.typ]
           new == [e EXCEPT !.id = o, !.retry = b.events[o].retry]
<1>1. /\ o \in DOMAIN b.events /\ p[o] = e.typ /\ o \in DOMAIN p /\ o # e.id
      /\ p[e.id] = e.typ /\ PriorityOf[e.typ] >= 2 /\ PriorityOf[e.typ] \in 0..3
  BY OutboxAssumption DEF MergesInto, Mergeable, BoxOK, Shape, IndexOK, MapOK, WellFormed
<1>2. WellFormed(p, b.events[o]) /\ b.events[o].id = o /\ Current(b, o) = b.events[o]
  BY <1>1 DEF BoxOK, Shape, MapOK, Current
<1> HIDE DEF o
<1>3. WellFormed(p, new) /\ new.id = o /\ new.retry = b.events[o].retry
  BY <1>1, <1>2 DEF WellFormed
<1>4. ~Critical(p, o) /\ ~Critical(p, e.id)
  BY <1>1 DEF Critical
<1>5. r = IF o \in b.queued THEN StorePending(b, new) ELSE StoreRetained(b, new)
  BY <1>2 DEF Merge, o
<1> HIDE DEF new
<1>6. CASE o \in b.queued
  <2>1. /\ BoxOK(r, p)
        /\ r.ready = b.ready /\ r.queued = b.queued /\ r.dead = b.dead
        /\ r.events = With(b.events, o, new)
        /\ r.retained = Without(b.retained, o)
    BY <1>3, <1>5, <1>6, StorePendingFacts
  <2>2. \A i : InReady(r, i) <=> InReady(b, i)
    BY <2>1 DEF InReady
  <2>3. Grown(b, r, p, e.id)
    BY <1>1, <1>3, <1>4, <2>1, <2>2 DEF Grown, With, Without
  <2>4. \A i \in DOMAIN p : Critical(p, i) /\ OnePlace(b, i) => OnePlace(r, i)
    BY <1>3, <1>4, <2>1, PendingCritical
  <2>5. QED
    BY <1>4, <2>1, <2>3, <2>4
<1>7. CASE o \notin b.queued
  <2>1. BoxOK(r, p) /\ \E out : Stored(b, r, new, out) /\ \A i \in out : ~Critical(p, i)
    BY <1>3, <1>5, <1>7, StoreRetainedFacts DEF BoxOK
  <2>2. PICK out : Stored(b, r, new, out) /\ \A i \in out : ~Critical(p, i)
    BY <2>1
  <2>3. \A i : InReady(r, i) <=> InReady(b, i)
    BY <2>2 DEF InReady, Stored
  <2>4. Grown(b, r, p, e.id)
    BY <1>1, <1>3, <1>4, <2>2, <2>3 DEF Grown, Stored
  <2>5. \A i \in DOMAIN p : Critical(p, i) /\ OnePlace(b, i) => OnePlace(r, i)
    BY <1>3, <1>4, <2>2, StoredCritical
  <2>6. QED
    BY <1>4, <2>1, <2>4, <2>5
<1>8. QED
  BY <1>6, <1>7

\* A new event of the publishers, through either entrance.
LEMMA PublishFacts ==
  ASSUME NEW p, Publications(p), NEW b, BoxOK(b, p), NEW e, WellFormed(p, e), e.retry = 0,
         e.id \notin DOMAIN b.events, e.id \notin DOMAIN b.retained, e.id \notin b.queued,
         ~InReady(b, e.id), \A x \in b.dead : x.id # e.id,
         NEW r, r = Enqueue(b, e) \/ r = PutNowait(b, e)
  PROVE  /\ BoxOK(r, p)
         /\ Grown(b, r, p, e.id)
         /\ Critical(p, e.id) => InReady(r, e.id) \/ e.id \in DOMAIN r.retained
         /\ (\A i \in DOMAIN p : Critical(p, i) /\ i # e.id => OnePlace(b, i)) => CritBox(r, p)
<1>1. CASE MergesInto(b, e)
  <2>1. r = Merge(b, e)
    BY <1>1 DEF Enqueue, PutNowait
  <2>2. QED
    BY <1>1, <2>1, MergeFacts DEF CritBox
<1>2. CASE ~MergesInto(b, e) /\ ~HasCapacity(b)
  <2>1. r = StoreRetained(b, e)
    BY <1>2 DEF Enqueue, PutNowait
  <2>2. BoxOK(r, p) /\ \E out : Stored(b, r, e, out) /\ \A i \in out : ~Critical(p, i)
    BY <2>1, StoreRetainedFacts DEF BoxOK
  <2>3. PICK out : Stored(b, r, e, out) /\ \A i \in out : ~Critical(p, i)
    BY <2>2
  <2>4. \A i : InReady(r, i) <=> InReady(b, i)
    BY <2>3 DEF InReady, Stored
  <2>5. Grown(b, r, p, e.id)
    BY <2>3, <2>4 DEF Grown, Stored
  <2>6. Critical(p, e.id) => e.id \in DOMAIN r.retained
    BY <2>3 DEF Stored
  <2>7. OnePlace(b, e.id)
    BY DEF OnePlace, Once, InReady
  <2>8. (\A i \in DOMAIN p : Critical(p, i) /\ i # e.id => OnePlace(b, i)) => CritBox(r, p)
    BY <2>3, <2>7, StoredCritical DEF CritBox
  <2>9. QED
    BY <2>2, <2>5, <2>6, <2>8
<1>3. CASE ~MergesInto(b, e) /\ HasCapacity(b)
  <2> DEFINE m1 == EnqueueReady(b, e)
             m2 == [b EXCEPT !.ready = PutReady(@, e)]
  <2>1. r = StorePending(m1, e) \/ r = StorePending(m2, e)
    BY <1>3 DEF Enqueue, PutNowait
  <2>2. ASSUME NEW m, m = m1 \/ m = m2
        PROVE  /\ DOMAIN m = DOMAIN b /\ m.ready = PutReady(b.ready, e)
               /\ m.queued = b.queued \/ m.queued = b.queued \union {e.id}
               /\ m.retained = b.retained
               /\ m.events = b.events /\ m.index = b.index /\ m.dead = b.dead
    BY <2>2 DEF EnqueueReady, BoxOK, Shape, IsBox
  <2> HIDE DEF m1, m2
  <2>3. PICK m : /\ r = StorePending(m, e)
                 /\ DOMAIN m = DOMAIN b /\ m.ready = PutReady(b.ready, e)
                 /\ m.queued = b.queued \/ m.queued = b.queued \union {e.id}
                 /\ m.retained = b.retained
                 /\ m.events = b.events /\ m.index = b.index /\ m.dead = b.dead
    BY <2>1, <2>2
  <2>4. /\ BoxOK(m, p)
        /\ \A i : InReady(m, i) <=> InReady(b, i) \/ i = e.id
        /\ \A i : Once(b, i) /\ (i = e.id => ~InReady(b, i)) => Once(m, i)
    <3>1. PutIn(b, m, e)
      BY <2>3 DEF PutIn
    <3>2. QED
      BY <1>3, <3>1, PutFacts
  <2>5. /\ BoxOK(r, p)
        /\ r.ready = m.ready /\ r.queued = m.queued /\ r.dead = m.dead
        /\ r.events = With(m.events, e.id, e)
        /\ r.retained = Without(m.retained, e.id)
    BY <2>3, <2>4, StorePendingFacts
  <2>6. \A i : InReady(r, i) <=> InReady(b, i) \/ i = e.id
    BY <2>4, <2>5 DEF InReady
  <2>7. DOMAIN r.events = DOMAIN b.events \union {e.id} /\ DOMAIN r.retained = DOMAIN b.retained
    BY <2>3, <2>5 DEF With, Without
  <2>8. Grown(b, r, p, e.id)
    BY <2>3, <2>5, <2>6, <2>7 DEF Grown, With
  <2>9. ASSUME NEW i \in DOMAIN p, i # e.id => OnePlace(b, i)
        PROVE  OnePlace(r, i)
    <3>1. Once(b, i)
      BY <2>9 DEF OnePlace, Once, InReady
    <3>2. Once(r, i)
      <4>1. Once(m, i)
        BY <2>4, <3>1
      <4>2. QED
        BY <2>5, <4>1 DEF Once
    <3>3. InReady(r, i) => i \in DOMAIN r.events /\ i \notin DOMAIN r.retained
      BY <2>6, <2>7, <2>9 DEF OnePlace, Once
    <3>4. i \in DOMAIN r.retained => i \in DOMAIN r.events
      BY <2>7, <2>9 DEF OnePlace, Once
    <3>5. i \in r.queued => InReady(r, i)
      BY <2>3, <2>5, <2>6, <2>9 DEF OnePlace, Once
    <3>6. i \in DOMAIN r.events => \A x \in r.dead : x.id # i
      BY <2>3, <2>5, <2>7, <2>9 DEF OnePlace, Once
    <3>7. QED
      BY <3>2, <3>3, <3>4, <3>5, <3>6 DEF OnePlace, Once
  <2>10. QED
    BY <2>5, <2>6, <2>8, <2>9 DEF CritBox
<1>4. QED
  BY <1>1, <1>2, <1>3

\* What storing event id again leaves.
Restored(b, r, p, id) ==
  /\ r.ready = b.ready /\ r.queued = b.queued
  /\ \A i \in DOMAIN r.events : i # id => i \in DOMAIN b.events /\ r.events[i] = b.events[i]
  /\ \A i \in DOMAIN p : Critical(p, i) =>
       /\ i \in DOMAIN r.events <=> i \in DOMAIN b.events \union {id}
       /\ i # id => (i \in DOMAIN r.retained <=> i \in DOMAIN b.retained)
  /\ \A i \in DOMAIN r.retained :
       i # id /\ (i \in DOMAIN b.retained => i \in DOMAIN b.events) => i \in DOMAIN r.events
  /\ id \in DOMAIN r.retained => id \in DOMAIN r.events
  /\ b.dead \subseteq r.dead
  /\ \A x \in r.dead : x \in b.dead \/ ~Critical(p, x.id)

\* The timeout of a retry that waits for a slot: the event is retained again.
LEMMA RetainAgainFacts ==
  ASSUME NEW p, Publications(p), NEW b, BoxOK(b, p), NEW e, WellFormed(p, e),
         e.id \notin b.queued, NEW r, r = StoreRetained(b, e)
  PROVE  /\ BoxOK(r, p)
         /\ Restored(b, r, p, e.id)
         /\ e.id \in DOMAIN r.events => r.events[e.id] = e
         /\ Critical(p, e.id) => e.id \in DOMAIN r.retained
         /\ CritBox(b, p) /\ (Critical(p, e.id) => ~InReady(b, e.id) /\ e.id \in DOMAIN b.events)
              => CritBox(r, p)
<1>1. BoxOK(r, p) /\ \E out : Stored(b, r, e, out) /\ \A i \in out : ~Critical(p, i)
  BY StoreRetainedFacts DEF BoxOK
<1>2. PICK out : Stored(b, r, e, out) /\ \A i \in out : ~Critical(p, i)
  BY <1>1
<1>3. Restored(b, r, p, e.id)
  BY <1>2 DEF Restored, Stored
<1>4. (e.id \in DOMAIN r.events => r.events[e.id] = e) /\ (Critical(p, e.id) => e.id \in DOMAIN r.retained)
  BY <1>2 DEF Stored
<1>5. ASSUME CritBox(b, p), Critical(p, e.id) => ~InReady(b, e.id) /\ e.id \in DOMAIN b.events,
             NEW i \in DOMAIN p, Critical(p, i)
      PROVE  OnePlace(r, i)
  <2>1. OnePlace(b, i)
    BY <1>5 DEF CritBox
  <2>2. i = e.id => ~InReady(b, i) /\ \A x \in b.dead : x.id # i
    BY <1>5, <2>1 DEF OnePlace
  <2>3. QED
    BY <1>2, <1>5, <2>1, <2>2, StoredCritical
<1>6. QED
  BY <1>1, <1>3, <1>4, <1>5 DEF CritBox

\* A retry up to the wait for a slot of the ready queue.
LEMMA RetryStoreFacts ==
  ASSUME NEW p, Publications(p), NEW b, BoxOK(b, p), NEW id \in DOMAIN b.events,
         b.events[id].retry < MaxRetryCount,
         NEW e, e = WithRetry(Current(b, id)), NEW r, r = RetryStore(b, id)
  PROVE  /\ WellFormed(p, e) /\ e.id = id /\ e.retry = b.events[id].retry + 1
         /\ BoxOK(r, p)
         /\ Restored(b, r, p, id)
         /\ id \in DOMAIN r.events => r.events[id] = e
         /\ Critical(p, id) /\ id \notin b.queued => id \in DOMAIN r.retained
         /\ CritBox(b, p) /\ (Critical(p, id) => ~InReady(b, id)) => CritBox(r, p)
<1>1. WellFormed(p, b.events[id]) /\ b.events[id].id = id /\ Current(b, id) = b.events[id]
  BY DEF BoxOK, Shape, MapOK, Current
<1>2. WellFormed(p, e) /\ e.id = id /\ e.retry = b.events[id].retry + 1
  BY <1>1, OutboxAssumption DEF WellFormed, WithRetry
<1>3. CASE id \in b.queued
  <2>1. r = StorePending(b, e)
    BY <1>3 DEF RetryStore
  <2>2. /\ BoxOK(r, p)
        /\ r.ready = b.ready /\ r.queued = b.queued /\ r.dead = b.dead
        /\ r.events = With(b.events, id, e)
        /\ r.retained = Without(b.retained, id)
    BY <1>2, <2>1, StorePendingFacts
  <2>3. Restored(b, r, p, id)
    BY <2>2 DEF Restored, With, Without
  <2>4. CritBox(b, p) => CritBox(r, p)
    <3>1. ASSUME NEW i \in DOMAIN p, OnePlace(b, i)
          PROVE  OnePlace(r, i)
      <4>1. i = e.id => \A x \in b.dead : x.id # i
        BY <1>2, <3>1 DEF OnePlace, Once
      <4>2. QED
        BY <1>2, <2>2, <3>1, <4>1, PendingCritical
    <3>2. QED
      BY <3>1 DEF CritBox
  <2>5. r.events[id] = e
    BY <2>2 DEF With
  <2>6. QED
    BY <1>2, <1>3, <2>2, <2>3, <2>4, <2>5
<1>4. CASE id \notin b.queued
  <2>1. r = StoreRetained(b, e)
    BY <1>4 DEF RetryStore
  <2>2. QED
    BY <1>2, <1>4, <2>1, RetainAgainFacts
<1>5. QED
  BY <1>3, <1>4

\* A retry that finds the slot.
LEMMA RetryEnqueueFacts ==
  ASSUME NEW p, Publications(p), NEW b, BoxOK(b, p), HasCapacity(b),
         NEW e, WellFormed(p, e), NEW r, r = RetryEnqueue(b, e)
  PROVE  /\ BoxOK(r, p)
         /\ r.events = b.events /\ r.dead = b.dead
         /\ DOMAIN r.retained = DOMAIN b.retained \ {e.id}
         /\ r.queued = b.queued \union {e.id}
         /\ \A i : InReady(r, i) <=> InReady(b, i) \/ i = e.id
         /\ CritBox(b, p) /\ (Critical(p, e.id) => ~InReady(b, e.id) /\ e.id \in DOMAIN b.events)
              => CritBox(r, p)
<1>1. /\ DOMAIN r = DOMAIN b /\ r.ready = PutReady(b.ready, e)
      /\ r.queued = b.queued \union {e.id}
      /\ r.retained = Without(b.retained, e.id)
      /\ r.events = b.events /\ r.index = b.index /\ r.dead = b.dead
  BY DEF RetryEnqueue, EnqueueReady, BoxOK, Shape, IsBox
<1>2. /\ DOMAIN r.retained = DOMAIN b.retained \ {e.id}
      /\ \A i \in DOMAIN r.retained : r.retained[i] = b.retained[i]
  BY <1>1 DEF Without
<1>3. /\ BoxOK(r, p)
      /\ \A i : InReady(r, i) <=> InReady(b, i) \/ i = e.id
      /\ \A i : Once(b, i) /\ (i = e.id => ~InReady(b, i)) => Once(r, i)
  <2>1. PutIn(b, r, e)
    BY <1>1, <1>2 DEF PutIn
  <2>2. QED
    BY <2>1, PutFacts
<1>4. ASSUME CritBox(b, p), Critical(p, e.id) => ~InReady(b, e.id) /\ e.id \in DOMAIN b.events,
             NEW i \in DOMAIN p, Critical(p, i)
      PROVE  OnePlace(r, i)
  <2>1. OnePlace(b, i)
    BY <1>4 DEF CritBox
  <2>2. Once(r, i)
    BY <1>3, <1>4, <2>1 DEF OnePlace
  <2>3. QED
    BY <1>1, <1>2, <1>3, <1>4, <2>1, <2>2 DEF OnePlace
<1>5. QED
  BY <1>1, <1>2, <1>3, <1>4 DEF CritBox

\* The events the worker may hold.
EventsOf(p) == [id : DOMAIN p, typ : Types, ver : Ids, retry : 0..MaxRetryCount]

\* What the worker writes of a batch: distinct events of it, the critical ones
\* first, none of them left out and in the order they came, then those of low
\* priority, the older ones first and at least the last of each type.
LEMMA CoalesceFacts ==
  ASSUME NEW p, Publications(p), NEW s \in Seq(EventsOf(p)),
         \A j \in DOMAIN s : WellFormed(p, s[j]),
         \A j, k \in DOMAIN s : Critical(p, s[j].id) /\ s[j].id = s[k].id => j = k,
         NEW r, r = Coalesce(s)
  PROVE  /\ r \in Seq(EventsOf(p)) /\ Len(r) <= Len(s)
         /\ \A n \in DOMAIN r : \E j \in DOMAIN s : r[n] = s[j]
         /\ \A m, n \in DOMAIN r : r[m].id = r[n].id => m = n
         /\ \A m, n \in DOMAIN r : m < n /\ Critical(p, r[n].id) => Critical(p, r[m].id)
         /\ \A j \in DOMAIN s : Critical(p, s[j].id) => \E n \in DOMAIN r : r[n] = s[j]
         /\ \A m, n \in DOMAIN r : m < n /\ Critical(p, r[m].id) /\ Critical(p, r[n].id) =>
              \E i, j \in DOMAIN s : i < j /\ r[m] = s[i] /\ r[n] = s[j]
         /\ \A m, n \in DOMAIN r :
              m < n /\ ~Critical(p, r[m].id) /\ ~Critical(p, r[n].id) => r[m].id < r[n].id
         /\ \A j \in DOMAIN s : (\A i \in DOMAIN s : i > j => s[i].typ # s[j].typ) =>
              \E n \in DOMAIN r : r[n] = s[j]
<1> DEFINE K == Kept(s)
           R == WriteOrder(s)
           o == InOrder(K, R)
           c == Cardinality(K)
<1>1. DOMAIN s = 1..Len(s) /\ Len(s) \in Nat
  OBVIOUS
<1>2. K \subseteq DOMAIN s
  BY DEF Kept
<1>3. IsFiniteSet(K) /\ c \in Nat /\ c <= Len(s)
  <2>1. IsFiniteSet(DOMAIN s) /\ Cardinality(DOMAIN s) = Len(s)
    <3>1. /\ IsFiniteSet(1..Len(s))
          /\ Cardinality(1..Len(s)) = IF 1 > Len(s) THEN 0 ELSE Len(s) - 1 + 1
      BY <1>1, FS_Interval
    <3>2. QED
      BY <1>1, <3>1
  <2>2. IsFiniteSet(K) /\ Cardinality(K) <= Cardinality(DOMAIN s)
    BY <1>2, <2>1, FS_Subset
  <2>3. QED
    BY <2>1, <2>2, FS_CardinalityType
<1>4. \A j \in DOMAIN s : /\ s[j].id \in DOMAIN p /\ s[j].id \in Int
                          /\ s[j].typ = p[s[j].id]
                          /\ IsCritical(s[j]) <=> Critical(p, s[j].id)
  BY PublicationFacts DEF WellFormed, IsCritical, Critical
<1>5. \A i, j \in K : s[i].id = s[j].id => i = j
  <2>1. SUFFICES ASSUME NEW i \in K, NEW j \in K, s[i].id = s[j].id, i # j  PROVE FALSE
    OBVIOUS
  <2>2. ~IsCritical(s[i]) /\ ~IsCritical(s[j]) /\ s[i].typ = s[j].typ
    BY <1>2, <1>4, <2>1
  <2>3. i < j \/ j < i
    BY <1>1, <1>2, <2>1
  <2>4. QED
    BY <1>2, <2>2, <2>3 DEF Kept
<1>6. Total(K, R)
  <2>1. SUFFICES ASSUME NEW i \in K, NEW j \in K, i # j
                 PROVE  <<i, j>> \in R \/ <<j, i>> \in R
    BY DEF Total
  <2>2. WrittenBefore(s, i, j) \/ WrittenBefore(s, j, i)
    BY <1>1, <1>2, <1>4, <1>5, <2>1 DEF WrittenBefore
  <2>3. QED
    BY <2>2 DEF WriteOrder
<1>7. Transitive(K, R)
  <2>1. SUFFICES ASSUME NEW i \in K, NEW j \in K, NEW k \in K,
                        <<i, j>> \in R, <<j, k>> \in R
                 PROVE  <<i, k>> \in R
    BY DEF Transitive
  <2>2. WrittenBefore(s, i, j) /\ WrittenBefore(s, j, k)
    BY <2>1 DEF WriteOrder
  <2>3. WrittenBefore(s, i, k)
    BY <1>1, <1>2, <1>4, <2>2 DEF WrittenBefore
  <2>4. QED
    BY <2>3 DEF WriteOrder
<1>8. Irreflexive(K, R)
  BY <1>1, <1>2, <1>4 DEF Irreflexive, WriteOrder, WrittenBefore
<1>9. r = [n \in 1..c |-> s[o[n]]]
  BY DEF Coalesce
<1> HIDE DEF K, R, c
<1>10. Sorted(K, R, o)
  BY <1>3, <1>6, <1>7, InOrderSorts
<1>11. /\ o \in Injection(1..c, K)
       /\ \A x \in K : \E i \in 1..c : o[i] = x
  BY <1>3, <1>8, <1>10, SortedOnto DEF c
<1>12. o \in [1..c -> K] /\ \A i, j \in 1..c : o[i] = o[j] => i = j
  BY <1>11 DEF Injection, IsInjective
<1>13. \A i, j \in 1..c : i < j => WrittenBefore(s, o[i], o[j])
  BY <1>10 DEF Sorted, WriteOrder, R, c
<1> HIDE DEF o
<1>14. r \in Seq(EventsOf(p)) /\ Len(r) = c /\ DOMAIN r = 1..c
  <2>1. r \in [1..c -> EventsOf(p)]
    BY <1>2, <1>9, <1>12
  <2>2. QED
    BY <1>3, <2>1, EnumerationIsSeq
<1>15. \A n \in 1..c : o[n] \in DOMAIN s /\ o[n] \in K /\ r[n] = s[o[n]]
  BY <1>2, <1>9, <1>12
<1>16. \A m, n \in DOMAIN r : r[m].id = r[n].id => m = n
  BY <1>5, <1>12, <1>14, <1>15
<1>17. ASSUME NEW m \in DOMAIN r, NEW n \in DOMAIN r, m < n, Critical(p, r[n].id)
       PROVE  Critical(p, r[m].id)
  BY <1>4, <1>13, <1>14, <1>15, <1>17 DEF WrittenBefore
<1>18. ASSUME NEW j \in DOMAIN s, Critical(p, s[j].id)
       PROVE  \E n \in DOMAIN r : r[n] = s[j]
  <2>1. j \in K
    BY <1>4, <1>18 DEF K, Kept
  <2>2. QED
    BY SMTT(30), <1>11, <1>14, <1>15, <2>1
<1>19. ASSUME NEW m \in DOMAIN r, NEW n \in DOMAIN r, m < n, Critical(p, r[m].id), Critical(p, r[n].id)
       PROVE  \E i, j \in DOMAIN s : i < j /\ r[m] = s[i] /\ r[n] = s[j]
  <2>1. /\ r[m] = s[o[m]] /\ r[n] = s[o[n]] /\ o[m] \in DOMAIN s /\ o[n] \in DOMAIN s
        /\ WrittenBefore(s, o[m], o[n])
    BY <1>13, <1>14, <1>15, <1>19
  <2>2. o[m] < o[n]
    BY <1>4, <1>19, <2>1 DEF WrittenBefore
  <2>3. QED
    BY <2>1, <2>2
<1>20. ASSUME NEW m \in DOMAIN r, NEW n \in DOMAIN r, m < n, ~Critical(p, r[m].id), ~Critical(p, r[n].id)
       PROVE  r[m].id < r[n].id
  BY <1>4, <1>13, <1>14, <1>15, <1>20 DEF WrittenBefore
<1>21. ASSUME NEW j \in DOMAIN s, \A i \in DOMAIN s : i > j => s[i].typ # s[j].typ
       PROVE  \E n \in DOMAIN r : r[n] = s[j]
  <2>1. j \in K
    BY <1>21 DEF K, Kept
  <2>2. QED
    BY SMTT(30), <1>11, <1>14, <1>15, <2>1
<1>22. QED
  BY <1>3, <1>14, <1>15, <1>16, <1>17, <1>18, <1>19, <1>20, <1>21

--------------------------------------------------------------------------------
(* The inductive invariant. *)

\* Event i is one of those left in the batch.
InBatch(s, i) == \E j \in DOMAIN s : s[j].id = i

\* The events of the batch that are still to be settled: all but the one whose
\* retry waits for a slot.
Left == IF pc = "retrying" THEN Tail(batch) ELSE batch

\* The batch, and its size at each place of the loop.
BatchOK ==
  /\ batch \in Seq(EventsOf(published))
  /\ Len(batch) <= BatchSize
  /\ pc \in {"poll", "overdue"} => Len(batch) < BatchSize
  /\ pc = "retrying" => batch # <<>>

\* An event left in the batch may have been evicted, but it is then not retained
\* either: what the outbox does not have pending it does not know.
LeftOK(s, b, p) ==
  \A j \in DOMAIN s :
    /\ WellFormed(p, s[j])
    /\ s[j].id \in DOMAIN b.retained => s[j].id \in DOMAIN b.events

\* A critical event left in the batch is still pending, in no other place, and
\* only once in the batch.
CritLeft(s, b, p) ==
  \A j \in DOMAIN s : Critical(p, s[j].id) =>
    /\ s[j].id \in DOMAIN b.events
    /\ ~InReady(b, s[j].id)
    /\ s[j].id \notin DOMAIN b.retained
    /\ \A k \in DOMAIN s : s[k].id = s[j].id => k = j

\* After the writes the batch is as the worker coalesced it: distinct events, the
\* critical ones first, each with an outcome the database justifies.
OutcomesOK(s, p, o, d) ==
  /\ \A j, k \in DOMAIN s : s[j].id = s[k].id => j = k
  /\ \A j, k \in DOMAIN s : j < k /\ Critical(p, s[k].id) => Critical(p, s[j].id)
  /\ \A j \in DOMAIN s :
       /\ o[s[j]] = "ok" => FullyWritten(s[j], d)
       /\ DbFailures = {"transient"} => o[s[j]] \in {"ok", "transient"}

\* The event whose retry waits: its own try is counted, and a critical one is
\* retained meanwhile.
WaitingOK(e, s, b, p, a, d) ==
  /\ WellFormed(p, e)
  /\ e.id \notin b.queued
  /\ ~InBatch(s, e.id)
  /\ Critical(p, e.id) =>
       e.id \in DOMAIN b.events /\ e.id \in DOMAIN b.retained /\ ~InReady(b, e.id)
  /\ a[e.id] = e.retry + d[e.id]

\* No event is tried too often.
Bounded(a, d, p) ==
  /\ a \in [Ids -> Nat] /\ d \in [Ids -> Nat]
  /\ \A i \in Ids \ DOMAIN p : a[i] = 0 /\ d[i] = 0
  /\ \A i \in Ids : a[i] <= MaxRetryCount + 1 + d[i]
  /\ \A i \in DOMAIN p : Critical(p, i) => d[i] = 0

\* The retry counts of the batch and of the outbox are the tries made, but for
\* the k tries of the batch that are not yet settled.
Counts(s, b, a, d, k) ==
  /\ \A j \in DOMAIN s :
       /\ a[s[j].id] = s[j].retry + k + d[s[j].id]
       /\ s[j].id \in DOMAIN b.events => b.events[s[j].id].retry = s[j].retry
  /\ \A i \in DOMAIN b.events : ~InBatch(s, i) => a[i] = b.events[i].retry + d[i]

\* A critical event in the dead letters used its tries up, or failed for good.
DeadCounts(b, p, a) ==
  \A x \in b.dead : Critical(p, x.id) =>
    /\ a[x.id] >= 1
    /\ DbFailures = {"transient"} => a[x.id] = MaxRetryCount + 1

\* The records of event i, of one version of its payload, are in the database.
InDatabase(i, p, d) == \E v \in Ids : \A k \in RouteEvent(p[i]) : <<i, v, k>> \in d

\* Each critical event is somewhere.
NothingLost(s, b, p, d) ==
  \A i \in DOMAIN p : Critical(p, i) =>
    \/ InReady(b, i)
    \/ i \in DOMAIN b.retained
    \/ InBatch(s, i)
    \/ InDatabase(i, p, d)
    \/ \E x \in b.dead : x.id = i

\* The inductive invariant.
IInv ==
  /\ Publications(published)
  /\ pc \in {"poll", "overdue", "write", "settle", "retrying"}
  /\ BoxOK(box, published)
  /\ CritBox(box, published)
  /\ BatchOK
  /\ LeftOK(Left, box, published)
  /\ CritLeft(Left, box, published)
  /\ pc \in {"settle", "retrying"} => OutcomesOK(Left, published, outcome, db)
  /\ pc = "retrying" => WaitingOK(retrying, Left, box, published, attempts, dropped)
  /\ Bounded(attempts, dropped, published)
  /\ Counts(Left, box, attempts, dropped, IF pc \in {"settle", "retrying"} THEN 1 ELSE 0)
  /\ DeadCounts(box, published, attempts)
  /\ NothingLost(Left, box, published, db)

--------------------------------------------------------------------------------
(* What a step of the outbox that is about one event leaves of the others. *)

UntouchedBut(b, r, p, id) ==
  /\ \A i \in DOMAIN r.events :
       i # id => i \in DOMAIN b.events /\ r.events[i].retry = b.events[i].retry
  /\ \A i \in DOMAIN r.retained :
       i # id /\ (i \in DOMAIN b.retained => i \in DOMAIN b.events) => i \in DOMAIN r.events
  /\ \A i \in DOMAIN p : Critical(p, i) /\ i # id =>
       /\ i \in DOMAIN b.events => i \in DOMAIN r.events
       /\ InReady(r, i) \/ i \in DOMAIN r.retained <=> InReady(b, i) \/ i \in DOMAIN b.retained
  /\ b.dead \subseteq r.dead
  /\ \A x \in r.dead : x \in b.dead \/ x.id = id \/ ~Critical(p, x.id)

\* Such a step keeps what is known of a batch without that event,
LEMMA UntouchedKeeps ==
  ASSUME NEW b, NEW r, NEW p, NEW id, UntouchedBut(b, r, p, id),
         NEW s, ~InBatch(s, id), LeftOK(s, b, p), CritLeft(s, b, p)
  PROVE  LeftOK(s, r, p) /\ CritLeft(s, r, p)
<1>1. \A j \in DOMAIN s : s[j].id # id
  BY DEF InBatch
<1>2. LeftOK(s, r, p)
  BY <1>1 DEF LeftOK, UntouchedBut
<1>3. ASSUME NEW j \in DOMAIN s, Critical(p, s[j].id)
      PROVE  /\ s[j].id \in DOMAIN r.events
             /\ ~InReady(r, s[j].id)
             /\ s[j].id \notin DOMAIN r.retained
  <2>1. s[j].id \in DOMAIN p
    BY DEF LeftOK, WellFormed
  <2>2. QED
    BY <1>1, <1>3, <2>1 DEF CritLeft, UntouchedBut
<1>4. QED
  BY <1>2, <1>3 DEF CritLeft

\* the counts of its tries,
LEMMA UntouchedCounts ==
  ASSUME NEW b, NEW r, NEW p, NEW id, UntouchedBut(b, r, p, id),
         NEW s, ~InBatch(s, id), NEW a, NEW d, NEW k, Counts(s, b, a, d, k),
         id \in DOMAIN r.events => a[id] = r.events[id].retry + d[id]
  PROVE  Counts(s, r, a, d, k)
<1>1. \A j \in DOMAIN s : s[j].id # id
  BY DEF InBatch
<1>2. QED
  BY <1>1 DEF Counts, UntouchedBut

\* those of the dead letters,
LEMMA UntouchedDead ==
  ASSUME NEW b, NEW r, NEW p, NEW id, UntouchedBut(b, r, p, id),
         NEW a, DeadCounts(b, p, a),
         \A x \in r.dead : x.id = id /\ x \notin b.dead /\ Critical(p, id) =>
           a[id] >= 1 /\ (DbFailures = {"transient"} => a[id] = MaxRetryCount + 1)
  PROVE  DeadCounts(r, p, a)
BY DEF DeadCounts, UntouchedBut

\* and where the critical events are.
LEMMA UntouchedNothingLost ==
  ASSUME NEW b, NEW r, NEW p, NEW id, UntouchedBut(b, r, p, id),
         NEW s, NEW u, NEW d, NothingLost(s, b, p, d),
         \A i : i # id /\ InBatch(s, i) => InBatch(u, i),
         Critical(p, id) => \/ InReady(r, id) \/ id \in DOMAIN r.retained \/ InBatch(u, id)
                            \/ InDatabase(id, p, d) \/ \E x \in r.dead : x.id = id
  PROVE  NothingLost(u, r, p, d)
BY DEF NothingLost, UntouchedBut

\* The rest of a batch, when its first event is settled.
LEMMA TailFacts ==
  ASSUME NEW T, NEW s \in Seq(T), s # <<>>, NEW u, u = Tail(s)
  PROVE  /\ u \in Seq(T) /\ Len(u) = Len(s) - 1 /\ Len(s) \in Nat /\ Len(s) >= 1
         /\ 1 \in DOMAIN s /\ Head(s) = s[1]
         /\ \A j \in DOMAIN u : j + 1 \in DOMAIN s /\ u[j] = s[j + 1] /\ j \in Nat /\ j + 1 # 1
         /\ \A j \in DOMAIN s : j # 1 => j - 1 \in DOMAIN u /\ u[j - 1] = s[j]
<1>1. Len(s) \in Nat /\ Len(s) >= 1 /\ DOMAIN s = 1..Len(s)
  BY EmptySeq
<1>2. u \in Seq(T) /\ Len(u) = Len(s) - 1 /\ \A i \in 1..Len(u) : u[i] = s[i + 1]
  BY HeadTailProperties
<1>3. DOMAIN u = 1..(Len(s) - 1)
  BY <1>2
<1>4. Head(s) = s[1] /\ 1 \in DOMAIN s
  BY <1>1
<1>5. \A j \in DOMAIN u : j + 1 \in DOMAIN s /\ u[j] = s[j + 1] /\ j \in Nat /\ j + 1 # 1
  BY <1>1, <1>2, <1>3
<1>6. ASSUME NEW j \in DOMAIN s, j # 1
      PROVE  j - 1 \in DOMAIN u /\ u[j - 1] = s[j]
  <2>1. j - 1 \in 1..(Len(s) - 1) /\ (j - 1) + 1 = j
    BY <1>1, <1>6
  <2>2. QED
    BY <1>2, <1>3, <2>1
<1>7. QED
  BY <1>1, <1>2, <1>4, <1>5, <1>6

\* The first event settled, the rest of the batch is as it was.
LEMMA TailKeeps ==
  ASSUME NEW T, NEW s \in Seq(T), s # <<>>, NEW u, u = Tail(s),
         NEW b, NEW p, NEW o, NEW d,
         LeftOK(s, b, p), CritLeft(s, b, p), OutcomesOK(s, p, o, d)
  PROVE  /\ LeftOK(u, b, p) /\ CritLeft(u, b, p) /\ OutcomesOK(u, p, o, d)
         /\ ~InBatch(u, s[1].id)
         /\ \A i : i # s[1].id /\ InBatch(s, i) => InBatch(u, i)
         /\ \A i : InBatch(u, i) => InBatch(s, i)
<1>1. /\ 1 \in DOMAIN s
      /\ \A j \in DOMAIN u : j + 1 \in DOMAIN s /\ u[j] = s[j + 1] /\ j \in Nat /\ j + 1 # 1
      /\ \A j \in DOMAIN s : j # 1 => j - 1 \in DOMAIN u /\ u[j - 1] = s[j]
  BY TailFacts
<1>2. \A j, k \in DOMAIN s : s[j].id = s[k].id => j = k
  BY DEF OutcomesOK
<1>3. LeftOK(u, b, p)
  BY <1>1 DEF LeftOK
<1>4. CritLeft(u, b, p)
  BY <1>1, <1>2 DEF CritLeft
<1>5. OutcomesOK(u, p, o, d)
  <2>1. \A j, k \in DOMAIN u : u[j].id = u[k].id => j = k
    BY <1>1, <1>2
  <2>2. ASSUME NEW j \in DOMAIN u, NEW k \in DOMAIN u, j < k, Critical(p, u[k].id)
        PROVE  Critical(p, u[j].id)
    <3>1. j + 1 < k + 1
      BY <1>1, <2>2
    <3>2. QED
      BY <1>1, <2>2, <3>1 DEF OutcomesOK
  <2>3. \A j \in DOMAIN u :
          /\ o[u[j]] = "ok" => FullyWritten(u[j], d)
          /\ DbFailures = {"transient"} => o[u[j]] \in {"ok", "transient"}
    BY <1>1 DEF OutcomesOK
  <2>4. QED
    BY <2>1, <2>2, <2>3 DEF OutcomesOK
<1>6. ~InBatch(u, s[1].id)
  BY <1>1, <1>2 DEF InBatch
<1>7. ASSUME NEW i, i # s[1].id, InBatch(s, i)
      PROVE  InBatch(u, i)
  <2>1. PICK j \in DOMAIN s : s[j].id = i
    BY <1>7 DEF InBatch
  <2>2. j - 1 \in DOMAIN u /\ u[j - 1] = s[j]
    BY <1>1, <1>7, <2>1
  <2>3. QED
    BY <2>1, <2>2 DEF InBatch
<1>8. \A i : InBatch(u, i) => InBatch(s, i)
  BY <1>1 DEF InBatch
<1>9. QED
  BY <1>3, <1>4, <1>5, <1>6, <1>7, <1>8

\* What is settled of the first event, and the counts of the others.
LEMMA TailCounts ==
  ASSUME NEW T, NEW s \in Seq(T), s # <<>>, NEW u, u = Tail(s),
         NEW b, NEW a, NEW d, NEW k, Counts(s, b, a, d, k),
         NEW r, NEW p, UntouchedBut(b, r, p, s[1].id), ~InBatch(u, s[1].id),
         \A i : i # s[1].id /\ InBatch(s, i) => InBatch(u, i),
         s[1].id \in DOMAIN r.events => a[s[1].id] = r.events[s[1].id].retry + d[s[1].id]
  PROVE  Counts(u, r, a, d, k)
<1>1. \A j \in DOMAIN u : j + 1 \in DOMAIN s /\ u[j] = s[j + 1]
  BY TailFacts
<1>2. ASSUME NEW j \in DOMAIN u
      PROVE  /\ a[u[j].id] = u[j].retry + k + d[u[j].id]
             /\ u[j].id \in DOMAIN r.events => r.events[u[j].id].retry = u[j].retry
  <2>1. u[j].id # s[1].id
    BY DEF InBatch
  <2>2. QED
    BY <1>1, <2>1 DEF Counts, UntouchedBut
<1>3. ASSUME NEW i \in DOMAIN r.events, ~InBatch(u, i)
      PROVE  a[i] = r.events[i].retry + d[i]
  <2>1. CASE i = s[1].id
    BY <2>1
  <2>2. CASE i # s[1].id
    <3>1. i \in DOMAIN b.events /\ r.events[i].retry = b.events[i].retry /\ ~InBatch(s, i)
      BY <1>3, <2>2 DEF UntouchedBut
    <3>2. QED
      BY <3>1 DEF Counts
  <2>3. QED
    BY <2>1, <2>2
<1>4. QED
  BY <1>2, <1>3 DEF Counts

--------------------------------------------------------------------------------
(* The steps. *)

\* The invariant holds at the start.
LEMMA InitIInv ==
  Init => IInv
<1> SUFFICES ASSUME Init  PROVE IInv
  OBVIOUS
<1>1. Publications(published) /\ DOMAIN published = {}
  BY OutboxAssumption DEF Init, Publications
<1>2. /\ DOMAIN box = {"ready", "events", "queued", "index", "retained", "dead"}
      /\ box.ready = <<>> /\ box.events = <<>> /\ box.retained = <<>> /\ box.index = <<>>
      /\ box.queued = {} /\ box.dead = {}
  BY DEF Init, EmptyOutbox
<1>3. BoxOK(box, published)
  <2>1. ReadyOK(box, published)
    BY <1>2, OutboxAssumption DEF ReadyOK
  <2>2. RoomOK(box, published)
    BY <1>2 DEF RoomOK
  <2>3. QED
    BY <1>2, <2>1, <2>2 DEF BoxOK, Shape, IsBox, MapOK, QueuedOK, DeadOK, IndexOK
<1>4. CritBox(box, published) /\ NothingLost(Left, box, published, db)
  BY <1>1 DEF CritBox, NothingLost
<1>5. batch = <<>> /\ Left = <<>> /\ pc = "poll" /\ DOMAIN Left = {}
  BY DEF Init, Left
<1>6. BatchOK
  BY <1>5, OutboxAssumption DEF BatchOK
<1>7. LeftOK(Left, box, published) /\ CritLeft(Left, box, published)
  BY <1>5 DEF LeftOK, CritLeft
<1>8. Bounded(attempts, dropped, published)
  BY <1>1, OutboxAssumption DEF Init, Bounded
<1>9. Counts(Left, box, attempts, dropped, 0) /\ DeadCounts(box, published, attempts)
  BY <1>2, <1>5 DEF Counts, DeadCounts
<1>10. QED
  BY <1>1, <1>3, <1>4, <1>5, <1>6, <1>7, <1>8, <1>9 DEF IInv

\* A publication, through either entry point, between any two awaits.
LEMMA PublishStep ==
  ASSUME IInv, NEW t \in Types, NEW how \in Entrances, Publish(t, how)
  PROVE  IInv'
<1> DEFINE n == Len(published) + 1
           e == Event(n, t, n)
           p == published
           q == published'
<1>1. /\ n <= MaxEvents
      /\ q = Append(p, t)
      /\ box' = Enqueue(box, e) \/ box' = PutNowait(box, e)
      /\ UNCHANGED <<pc, batch, outcome, retrying, attempts, dropped, db>>
  BY DEF Publish
<1>2. Publications(p) /\ Len(p) \in Nat /\ Len(p) < MaxEvents /\ DOMAIN p \subseteq Ids
  BY <1>1, PublicationFacts, OutboxAssumption DEF IInv
<1>3. /\ Publications(q)
      /\ DOMAIN q = DOMAIN p \union {n} /\ n \notin DOMAIN p /\ n \in Ids
      /\ q[n] = t
      /\ \A i \in DOMAIN p : q[i] = p[i] /\ (Critical(q, i) <=> Critical(p, i))
  <2>1. p \in Seq(Types) /\ q \in Seq(Types) /\ Len(q) = Len(p) + 1
    BY <1>1, <1>2 DEF Publications
  <2>2. q[n] = t /\ \A i \in 1..Len(p) : q[i] = p[i]
    BY <1>1, <1>2 DEF Publications
  <2>3. DOMAIN p = 1..Len(p) /\ DOMAIN q = 1..(Len(p) + 1)
    BY <2>1
  <2>4. MaxEvents \in Nat
    BY OutboxAssumption
  <2>5. DOMAIN q = DOMAIN p \union {n} /\ n \notin DOMAIN p /\ n \in Ids
    BY <1>1, <1>2, <2>3, <2>4 DEF Ids
  <2>6. \A i \in DOMAIN p : q[i] = p[i] /\ (Critical(q, i) <=> Critical(p, i))
    BY <2>2, <2>3 DEF Critical
  <2>7. QED
    BY <1>1, <1>2, <2>1, <2>2, <2>4, <2>5, <2>6 DEF Publications
<1> HIDE DEF n
<1>4. /\ BoxOK(box, q)
      /\ n \notin DOMAIN box.events /\ n \notin DOMAIN box.retained /\ n \notin box.queued
      /\ ~InReady(box, n) /\ \A x \in box.dead : x.id # n
      /\ \A i \in DOMAIN q : Critical(q, i) /\ i # n => OnePlace(box, i)
  <2>1. BoxOK(box, p) /\ CritBox(box, p)
    BY DEF IInv
  <2> HIDE DEF p, q
  <2>2. QED
    BY <1>3, <2>1, GrownBox
<1>5. WellFormed(q, e) /\ e.id = n /\ e.retry = 0
  BY <1>3, OutboxAssumption DEF Event, WellFormed
<1> HIDE DEF e
<1>6. /\ BoxOK(box', q)
      /\ Grown(box, box', q, n)
      /\ Critical(q, n) => InReady(box', n) \/ n \in DOMAIN box'.retained
      /\ CritBox(box', q)
  BY <1>1, <1>3, <1>4, <1>5, PublishFacts
<1>7. UntouchedBut(box, box', q, n)
  BY <1>6 DEF Grown, UntouchedBut
<1> DEFINE s == Left
<1>8. Left' = s /\ UNCHANGED <<pc, batch, outcome, retrying, attempts, dropped, db>>
  BY <1>1 DEF Left
<1> HIDE DEF s
<1>9. LeftOK(s, box, p) /\ CritLeft(s, box, p)
  BY DEF IInv, s
<1>10. \A i : InBatch(s, i) => i \in DOMAIN p
  BY <1>9 DEF InBatch, LeftOK, WellFormed
<1>11. LeftOK(s, box, q) /\ CritLeft(s, box, q)
  BY <1>3, <1>9 DEF LeftOK, CritLeft, WellFormed
<1>12. LeftOK(s, box', q) /\ CritLeft(s, box', q)
  BY <1>3, <1>7, <1>10, <1>11, UntouchedKeeps
<1>13. BatchOK'
  <2> DEFINE T == EventsOf(p)
             U == EventsOf(q)
  <2>1. T \subseteq U
    BY <1>3 DEF EventsOf
  <2>2. batch \in Seq(T)
    BY DEF IInv, BatchOK
  <2>3. batch \in Seq(U)
    <3> HIDE DEF T, U
    <3>1. QED
      BY <2>1, <2>2, SeqMonotonic
  <2>4. QED
    BY <1>8, <2>3 DEF IInv, BatchOK
<1>14. pc \in {"settle", "retrying"} => OutcomesOK(s, q, outcome, db)
  <2>1. SUFFICES ASSUME OutcomesOK(s, p, outcome, db)  PROVE OutcomesOK(s, q, outcome, db)
    BY DEF IInv, s
  <2>2. \A j \in DOMAIN s : s[j].id \in DOMAIN p
    BY <1>9 DEF LeftOK, WellFormed
  <2>3. QED
    BY <1>3, <2>1, <2>2 DEF OutcomesOK
<1>15. pc = "retrying" => WaitingOK(retrying, s, box', q, attempts, dropped)
  <2>1. SUFFICES ASSUME pc = "retrying", WaitingOK(retrying, s, box, p, attempts, dropped)
                 PROVE  WaitingOK(retrying, s, box', q, attempts, dropped)
    BY DEF IInv, s
  <2>2. retrying.id \in DOMAIN p
    BY <2>1 DEF WaitingOK, WellFormed
  <2>3. QED
    BY <1>3, <1>6, <1>8, <2>1, <2>2 DEF WaitingOK, WellFormed, Grown
<1>16. Bounded(attempts, dropped, p)
  BY DEF IInv
<1>17. attempts[n] = 0 /\ dropped[n] = 0
  BY <1>3, <1>16 DEF Bounded
<1>18. Bounded(attempts, dropped, q)
  BY <1>3, <1>16, <1>17 DEF Bounded
<1>19. n \in DOMAIN box'.events => attempts[n] = box'.events[n].retry + dropped[n]
  BY <1>4, <1>6, <1>17 DEF Grown
<1>20. Counts(s, box', attempts, dropped, IF pc \in {"settle", "retrying"} THEN 1 ELSE 0)
  BY <1>3, <1>7, <1>10, <1>19, UntouchedCounts DEF IInv, s
<1>21. DeadCounts(box', q, attempts)
  <2>1. DeadCounts(box, q, attempts)
    BY <1>3 DEF IInv, DeadCounts, BoxOK, Shape, DeadOK
  <2>2. \A x \in box'.dead : x.id = n /\ x \notin box.dead => ~Critical(q, n)
    BY <1>6 DEF Grown
  <2>3. QED
    BY <1>7, <2>1, <2>2, UntouchedDead
<1>22. NothingLost(s, box', q, db)
  <2>1. NothingLost(s, box, p, db)
    BY DEF IInv, s
  <2>2. \A i \in DOMAIN p : InDatabase(i, p, db) => InDatabase(i, q, db)
    BY <1>3 DEF InDatabase
  <2>3. ASSUME NEW i \in DOMAIN q, Critical(q, i)
        PROVE  \/ InReady(box', i) \/ i \in DOMAIN box'.retained \/ InBatch(s, i)
               \/ InDatabase(i, q, db) \/ \E x \in box'.dead : x.id = i
    <3>1. CASE i = n
      BY <1>6, <2>3, <3>1
    <3>2. CASE i # n
      BY <1>3, <1>7, <2>1, <2>2, <2>3, <3>2 DEF NothingLost, UntouchedBut
    <3>3. QED
      BY <3>1, <3>2
  <2>4. QED
    BY <2>3 DEF NothingLost
<1>23. QED
  BY <1>3, <1>6, <1>8, <1>12, <1>13, <1>14, <1>15, <1>18, <1>20, <1>21, <1>22 DEF IInv

\* The entry get takes is one of the ready queue.
LEMMA FirstReadyIn ==
  ASSUME NEW p, NEW b, ReadyOK(b, p), b.ready # <<>>
  PROVE  InReady(b, FirstReady(b))
<1>1. FirstOut(b.ready) \in DOMAIN b.ready
  <2> DEFINE E == [prio : 0..3, id : DOMAIN p]
  <2>1. \A e \in E : e.prio \in 0..3
    OBVIOUS
  <2>2. b.ready \in Seq(E)
    BY DEF ReadyOK
  <2> HIDE DEF E
  <2>3. QED
    BY <2>1, <2>2, FirstOutIn
<1>2. QED
  BY <1>1 DEF InReady, FirstReady

\* get takes an entry, promotes if the batch has room, and skips an entry whose
\* event is gone.
LEMMA CollectStep ==
  ASSUME IInv, Collect
  PROVE  IInv'
<1> DEFINE p == published
           s == batch
           id == FirstReady(box)
           m == PopReady(box)
           got == IF id \in DOMAIN box.events THEN Append(s, box.events[id]) ELSE s
<1>1. /\ pc = "poll" /\ box.ready # <<>> /\ batch' = got
      /\ \/ Len(got) < BatchSize /\ box' = Promote(m) /\ pc' \in {"poll", "overdue"}
         \/ ~(Len(got) < BatchSize) /\ box' = m /\ pc' = "write"
      /\ UNCHANGED <<published, outcome, attempts, dropped, db>>
  BY DEF Collect, StartGet, BatchHasRoom
<1>2. /\ Publications(p) /\ BoxOK(box, p) /\ CritBox(box, p) /\ s \in Seq(EventsOf(p))
      /\ LeftOK(s, box, p) /\ CritLeft(s, box, p) /\ Counts(s, box, attempts, dropped, 0)
      /\ Len(s) < BatchSize /\ Left = s /\ Left' = got
      /\ NothingLost(s, box, p, db)
  BY <1>1 DEF IInv, Left, BatchOK
<1>3. /\ BoxOK(m, p) /\ CritBox(m, p)
      /\ m.events = box.events /\ m.retained = box.retained /\ m.dead = box.dead
      /\ id \in DOMAIN p
      /\ \A i : i # id => (InReady(m, i) <=> InReady(box, i))
      /\ Critical(p, id) => ~InReady(m, id)
  BY <1>1, <1>2, PopFacts
<1>4. InReady(box, id)
  BY <1>1, <1>2, FirstReadyIn DEF BoxOK, Shape
<1>5. /\ Critical(p, id) => id \in DOMAIN box.events /\ id \notin DOMAIN box.retained
  BY <1>2, <1>3, <1>4 DEF CritBox, OnePlace
<1>6. /\ id \in DOMAIN box.events => WellFormed(p, box.events[id]) /\ box.events[id].id = id
      /\ id \in DOMAIN box.events => box.events[id] \in EventsOf(p)
  BY <1>2 DEF BoxOK, Shape, MapOK, WellFormed, EventsOf
<1> HIDE DEF m, id
<1>7. /\ BoxOK(box', p) /\ CritBox(box', p)
      /\ box'.events = box.events /\ box'.dead = box.dead
      /\ DOMAIN box'.retained \subseteq DOMAIN box.retained
      /\ \A i : InReady(box', i) \/ i \in DOMAIN box'.retained
                  <=> InReady(m, i) \/ i \in DOMAIN box.retained
  <2>1. CASE box' = m
    BY <1>3, <2>1
  <2>2. CASE box' = Promote(m)
    BY <1>2, <1>3, <2>2, PromoteFacts
  <2>3. QED
    BY <1>1, <2>1, <2>2
<1>8. /\ got \in Seq(EventsOf(p)) /\ Len(got) <= Len(s) + 1 /\ Len(s) \in Nat /\ Len(got) \in Nat
      /\ \A j \in DOMAIN s : j \in DOMAIN got /\ got[j] = s[j]
      /\ \A j \in DOMAIN got \ DOMAIN s :
           /\ id \in DOMAIN box.events /\ got[j] = box.events[id]
           /\ \A k \in DOMAIN got \ DOMAIN s : k = j
      /\ id \in DOMAIN box.events => InBatch(got, id)
  <2>1. CASE id \in DOMAIN box.events
    <3> DEFINE e == box.events[id]
    <3>1. e \in EventsOf(p) /\ got = Append(s, e) /\ e.id = id
      BY <1>6, <2>1
    <3> HIDE DEF e
    <3>2. /\ got \in Seq(EventsOf(p)) /\ Len(got) = Len(s) + 1
          /\ \A j \in 1..Len(s) : got[j] = s[j]
          /\ got[Len(s) + 1] = e
      BY <1>2, <3>1, AppendProperties
    <3>3. /\ Len(s) \in Nat /\ DOMAIN s = 1..Len(s) /\ DOMAIN got = 1..(Len(s) + 1)
      BY <1>2, <3>2
    <3>4. DOMAIN got \ DOMAIN s = {Len(s) + 1}
      BY <3>3
    <3>5. InBatch(got, id)
      BY <3>1, <3>2, <3>3, <3>4 DEF InBatch
    <3>6. QED
      BY <2>1, <3>2, <3>3, <3>4, <3>5 DEF e
  <2>2. CASE id \notin DOMAIN box.events
    BY <1>2, <2>2
  <2>3. QED
    BY <2>1, <2>2
<1> HIDE DEF got
<1>9. LeftOK(got, box', p)
  <2>1. ASSUME NEW j \in DOMAIN got
        PROVE  /\ WellFormed(p, got[j])
               /\ got[j].id \in DOMAIN box'.retained => got[j].id \in DOMAIN box'.events
    <3>1. CASE j \in DOMAIN s
      BY <1>2, <1>7, <1>8, <3>1 DEF LeftOK
    <3>2. CASE j \notin DOMAIN s
      BY <1>6, <1>7, <1>8, <3>2
    <3>3. QED
      BY <3>1, <3>2
  <2>2. QED
    BY <2>1 DEF LeftOK
<1>10. CritLeft(got, box', p)
  <2>1. ASSUME NEW j \in DOMAIN got, Critical(p, got[j].id)
        PROVE  /\ got[j].id \in DOMAIN box'.events
               /\ ~InReady(box', got[j].id)
               /\ got[j].id \notin DOMAIN box'.retained
               /\ \A k \in DOMAIN got : got[k].id = got[j].id => k = j
    <3>1. CASE j \in DOMAIN s
      <4>1. /\ got[j] = s[j] /\ s[j].id \in DOMAIN box.events
            /\ ~InReady(box, s[j].id) /\ s[j].id \notin DOMAIN box.retained
            /\ \A k \in DOMAIN s : s[k].id = s[j].id => k = j
        BY <1>2, <1>8, <2>1, <3>1 DEF CritLeft
      <4>2. s[j].id # id
        BY <1>4, <4>1
      <4>3. ~InReady(m, s[j].id)
        BY <1>3, <4>1, <4>2
      <4>4. \A k \in DOMAIN got : got[k].id = s[j].id => k \in DOMAIN s
        BY <1>6, <1>8, <4>2
      <4>5. QED
        BY <1>7, <1>8, <4>1, <4>3, <4>4
    <3>2. CASE j \notin DOMAIN s
      <4>1. got[j].id = id /\ id \in DOMAIN box.events
        BY <1>6, <1>8, <3>2
      <4>2. ~InReady(m, id) /\ id \notin DOMAIN box.retained
        BY <1>3, <1>5, <2>1, <4>1
      <4>3. \A k \in DOMAIN s : s[k].id # id
        BY <1>2, <1>4, <2>1, <4>1 DEF CritLeft
      <4>4. QED
        BY <1>7, <1>8, <3>2, <4>1, <4>2, <4>3
    <3>3. QED
      BY <3>1, <3>2
  <2>2. QED
    BY <2>1 DEF CritLeft
<1>11. Counts(got, box', attempts, dropped, 0)
  <2> DEFINE a == attempts
             d == dropped
  <2>1. Bounded(a, d, p)
    BY DEF IInv
  <2>2. \A j \in DOMAIN s : s[j].id \in DOMAIN p /\ s[j].retry \in Nat
    BY <1>2 DEF LeftOK, WellFormed
  <2>3. ASSUME NEW j \in DOMAIN got
        PROVE  /\ a[got[j].id] = got[j].retry + 0 + d[got[j].id]
               /\ got[j].id \in DOMAIN box'.events => box'.events[got[j].id].retry = got[j].retry
    <3>1. CASE j \in DOMAIN s
      BY <1>2, <1>7, <1>8, <3>1 DEF Counts
    <3>2. CASE j \notin DOMAIN s
      <4>1. got[j] = box.events[id] /\ got[j].id = id /\ id \in DOMAIN box.events
        BY <1>6, <1>8, <3>2
      <4>2. got[j].retry \in Nat
        BY <1>6, <4>1, OutboxAssumption DEF WellFormed
      <4>3. d[id] \in Nat
        BY <1>2, <1>3, <2>1, PublicationFacts DEF Bounded
      <4>4. a[id] = got[j].retry + d[id]
        <5>1. CASE InBatch(s, id)
          <6>1. PICK k \in DOMAIN s : s[k].id = id
            BY <5>1 DEF InBatch
          <6>2. a[id] = s[k].retry + 0 + d[id] /\ box.events[id].retry = s[k].retry
            BY <1>2, <4>1, <6>1 DEF Counts
          <6>3. QED
            BY <2>2, <4>1, <4>3, <6>1, <6>2
        <5>2. CASE ~InBatch(s, id)
          BY <1>2, <4>1, <5>2 DEF Counts
        <5>3. QED
          BY <5>1, <5>2
      <4>5. QED
        BY <1>7, <4>1, <4>2, <4>3, <4>4
    <3>3. QED
      BY <3>1, <3>2
  <2>4. \A i : InBatch(s, i) => InBatch(got, i)
    BY <1>8 DEF InBatch
  <2>5. QED
    BY <1>2, <1>7, <2>3, <2>4 DEF Counts
<1>12. NothingLost(got, box', p, db)
  <2>1. \A i : InBatch(s, i) => InBatch(got, i)
    BY <1>8 DEF InBatch
  <2>2. QED
    BY <1>2, <1>3, <1>5, <1>7, <1>8, <2>1 DEF NothingLost
<1>13. DeadCounts(box', p, attempts)
  BY <1>7 DEF IInv, DeadCounts
<1>14. BatchOK'
  BY <1>1, <1>2, <1>8, OutboxAssumption DEF BatchOK
<1>15. /\ published' = published /\ pc' \in {"poll", "overdue", "write"}
       /\ attempts' = attempts /\ dropped' = dropped /\ db' = db
  BY <1>1
<1>16. QED
  BY <1>2, <1>7, <1>9, <1>10, <1>11, <1>12, <1>13, <1>14, <1>15 DEF IInv

\* A promotion between two batches.
LEMMA StartGetStep ==
  ASSUME IInv, batch = <<>>, StartGet(box, <<>>), pc # "retrying",
         UNCHANGED <<published, batch, attempts, dropped, db>>
  PROVE  IInv'
<1> DEFINE p == published
<1>1. /\ pc' \in {"poll", "overdue"} /\ box' = Promote(box)
      /\ Left = <<>> /\ Left' = <<>> /\ DOMAIN Left = {}
  BY DEF StartGet, Left
<1>2. Publications(p) /\ BoxOK(box, p) /\ CritBox(box, p)
  BY DEF IInv
<1>3. /\ BoxOK(box', p) /\ CritBox(box', p)
      /\ box'.events = box.events /\ box'.dead = box.dead
      /\ \A i : InReady(box', i) \/ i \in DOMAIN box'.retained
                  <=> InReady(box, i) \/ i \in DOMAIN box.retained
  BY <1>1, <1>2, PromoteFacts
<1>4. Counts(<<>>, box', attempts, dropped, 0)
  <2>1. \A i \in DOMAIN box.events : attempts[i] = box.events[i].retry + dropped[i]
    BY <1>1 DEF IInv, Counts, InBatch
  <2>2. QED
    BY <1>1, <1>3, <2>1 DEF Counts
<1>5. NothingLost(<<>>, box', p, db)
  BY <1>1, <1>3 DEF IInv, NothingLost
<1>6. LeftOK(<<>>, box', p) /\ CritLeft(<<>>, box', p)
  BY <1>1 DEF LeftOK, CritLeft
<1>7. DeadCounts(box', p, attempts)
  BY <1>3 DEF IInv, DeadCounts
<1>8. BatchOK'
  BY <1>1, OutboxAssumption DEF IInv, BatchOK
<1>9. QED
  BY <1>1, <1>2, <1>3, <1>4, <1>5, <1>6, <1>7, <1>8 DEF IInv

\* The poll or the drain times out.
LEMMA CollectTimeoutStep ==
  ASSUME IInv, CollectTimeout
  PROVE  IInv'
<1>1. CASE batch = <<>>
  BY <1>1, StartGetStep DEF CollectTimeout
<1>2. CASE batch # <<>>
  <2>1. /\ pc \in {"poll", "overdue"} /\ pc' = "write"
        /\ UNCHANGED <<box, published, batch, attempts, dropped, db>>
    BY <1>2 DEF CollectTimeout
  <2>2. Left = batch /\ Left' = batch
    BY <2>1 DEF Left
  <2>3. BatchOK'
    BY <2>1 DEF IInv, BatchOK
  <2>4. QED
    BY <2>1, <2>2, <2>3 DEF IInv
<1>3. QED
  BY <1>1, <1>2

\* The batch is settled and the next poll starts.
LEMMA BatchDoneStep ==
  ASSUME IInv, BatchDone
  PROVE  IInv'
BY StartGetStep DEF BatchDone

\* The batch is coalesced and written, completely or in part.
LEMMA WriteStep ==
  ASSUME IInv, Write
  PROVE  IInv'
<1> DEFINE p == published
           s == batch
           u == Coalesce(s)
           planned == Planned(u)
<1>1. /\ pc = "write" /\ pc' = "settle" /\ batch' = u
      /\ UNCHANGED <<box, published, dropped>>
  BY DEF Write
<1> HIDE DEF u, planned
<1>2. PICK written :
        \E why \in [ToSet(u) -> DbFailures \union {"transient"}] :
           /\ db' = db \union written
           /\ outcome' = [e \in ToSet(u) |->
                            IF FullyWritten(e, written) THEN "ok"
                            ELSE IF \E r \in planned \ written : r[1] = e.id
                                 THEN why[e] ELSE "transient"]
           /\ attempts' = [i \in Ids |-> attempts[i] +
                             Cardinality({e \in ToSet(u) : e.id = i})]
  <2>1. PICK events \in {Coalesce(batch)} : \E plan \in {Planned(events)} :
          \E written \in IF DbFailures = {} THEN {plan} ELSE SUBSET plan :
            \E why \in [ToSet(events) -> DbFailures \union {"transient"}] :
              /\ batch' = events
              /\ db' = db \union written
              /\ outcome' = [e \in ToSet(events) |->
                               IF FullyWritten(e, written) THEN "ok"
                               ELSE IF \E r \in plan \ written : r[1] = e.id
                                    THEN why[e] ELSE "transient"]
              /\ \A e \in ToSet(events) : why[e] = "fatal" => outcome'[e] = "fatal"
              /\ attempts' = [i \in Ids |-> attempts[i] +
                                Cardinality({e \in ToSet(events) : e.id = i})]
    BY DEF Write
  <2>2. events = u
    BY <2>1 DEF u
  <2>3. PICK plan \in {Planned(u)} :
          \E written \in IF DbFailures = {} THEN {plan} ELSE SUBSET plan :
            \E why \in [ToSet(u) -> DbFailures \union {"transient"}] :
              /\ db' = db \union written
              /\ outcome' = [e \in ToSet(u) |->
                               IF FullyWritten(e, written) THEN "ok"
                               ELSE IF \E r \in plan \ written : r[1] = e.id
                                    THEN why[e] ELSE "transient"]
              /\ attempts' = [i \in Ids |-> attempts[i] +
                                Cardinality({e \in ToSet(u) : e.id = i})]
    BY <2>1, <2>2
  <2>4. plan = planned
    BY <2>3 DEF planned
  <2>5. PICK written \in IF DbFailures = {} THEN {plan} ELSE SUBSET plan :
          \E why \in [ToSet(u) -> DbFailures \union {"transient"}] :
              /\ db' = db \union written
              /\ outcome' = [e \in ToSet(u) |->
                               IF FullyWritten(e, written) THEN "ok"
                               ELSE IF \E r \in plan \ written : r[1] = e.id
                                    THEN why[e] ELSE "transient"]
              /\ attempts' = [i \in Ids |-> attempts[i] +
                                Cardinality({e \in ToSet(u) : e.id = i})]
    BY <2>3
  <2>6. \E why \in [ToSet(u) -> DbFailures \union {"transient"}] :
              /\ db' = db \union written
              /\ outcome' = [e \in ToSet(u) |->
                               IF FullyWritten(e, written) THEN "ok"
                               ELSE IF \E r \in planned \ written : r[1] = e.id
                                    THEN why[e] ELSE "transient"]
              /\ attempts' = [i \in Ids |-> attempts[i] +
                                Cardinality({e \in ToSet(u) : e.id = i})]
    BY <2>5, <2>4
  <2>7. QED
    BY <2>6
<1> USE DEF u, planned
<1>3. PICK why \in [ToSet(u) -> DbFailures \union {"transient"}] :
           /\ db' = db \union written
           /\ outcome' = [e \in ToSet(u) |->
                            IF FullyWritten(e, written) THEN "ok"
                            ELSE IF \E r \in planned \ written : r[1] = e.id
                                 THEN why[e] ELSE "transient"]
           /\ attempts' = [i \in Ids |-> attempts[i] +
                             Cardinality({e \in ToSet(u) : e.id = i})]
  BY <1>2
<1>4. /\ Publications(p) /\ BoxOK(box, p) /\ CritBox(box, p) /\ s \in Seq(EventsOf(p))
      /\ Len(s) <= BatchSize
      /\ LeftOK(s, box, p) /\ CritLeft(s, box, p) /\ Counts(s, box, attempts, dropped, 0)
      /\ Bounded(attempts, dropped, p) /\ DeadCounts(box, p, attempts)
      /\ NothingLost(s, box, p, db) /\ Left' = u
  BY <1>1 DEF IInv, Left, BatchOK
<1>5. /\ \A j \in DOMAIN s : WellFormed(p, s[j])
      /\ \A j, k \in DOMAIN s : Critical(p, s[j].id) /\ s[j].id = s[k].id => j = k
  BY <1>4 DEF LeftOK, CritLeft
<1>6. /\ u \in Seq(EventsOf(p)) /\ Len(u) <= Len(s)
      /\ \A n \in DOMAIN u : \E j \in DOMAIN s : u[n] = s[j]
      /\ \A m, n \in DOMAIN u : u[m].id = u[n].id => m = n
      /\ \A m, n \in DOMAIN u : m < n /\ Critical(p, u[n].id) => Critical(p, u[m].id)
      /\ \A j \in DOMAIN s : Critical(p, s[j].id) => \E n \in DOMAIN u : u[n] = s[j]
  BY <1>4, <1>5, CoalesceFacts
<1> HIDE DEF u, planned
<1>7. ToSet(u) = {u[n] : n \in DOMAIN u}
  BY DEF ToSet
<1>8. LeftOK(u, box, p)
  BY <1>4, <1>6 DEF LeftOK
<1>9. CritLeft(u, box, p)
  <2>1. ASSUME NEW n \in DOMAIN u, Critical(p, u[n].id)
        PROVE  /\ u[n].id \in DOMAIN box.events
               /\ ~InReady(box, u[n].id)
               /\ u[n].id \notin DOMAIN box.retained
               /\ \A k \in DOMAIN u : u[k].id = u[n].id => k = n
    <3>1. PICK j \in DOMAIN s : u[n] = s[j]
      BY <1>6
    <3>2. QED
      BY <1>4, <1>6, <2>1, <3>1 DEF CritLeft
  <2>2. QED
    BY <2>1 DEF CritLeft
<1>10. OutcomesOK(u, p, outcome', db')
  <2>1. ASSUME NEW n \in DOMAIN u
        PROVE  /\ outcome'[u[n]] = "ok" => FullyWritten(u[n], db')
               /\ DbFailures = {"transient"} => outcome'[u[n]] \in {"ok", "transient"}
    <3> DEFINE e == u[n]
    <3>1. e \in ToSet(u) /\ why[e] \in DbFailures \union {"transient"}
      BY <1>7
    <3>2. outcome'[e] = IF FullyWritten(e, written) THEN "ok"
                        ELSE IF \E r \in planned \ written : r[1] = e.id
                             THEN why[e] ELSE "transient"
      BY <1>3, <3>1
    <3>3. FullyWritten(e, written) => FullyWritten(e, db')
      BY <1>3 DEF FullyWritten
    <3>4. why[e] # "ok"
      BY <3>1, WorkerAssumption
    <3>5. DbFailures = {"transient"} => why[e] = "transient"
      BY <3>1
    <3> HIDE DEF e
    <3>6. (outcome'[e] = "ok" => FullyWritten(e, db')) /\ (DbFailures = {"transient"} => outcome'[e] \in {"ok", "transient"})
      BY <3>2, <3>3, <3>4, <3>5
    <3>7. QED
      BY <3>6 DEF e
  <2>2. QED
    BY <1>6, <2>1 DEF OutcomesOK
\* An event of the batch is tried once, and no other.
<1>11. \A n \in DOMAIN u : u[n].id \in DOMAIN p /\ u[n].id \in Ids /\ u[n].retry \in 0..MaxRetryCount
  BY <1>4, <1>8, PublicationFacts DEF LeftOK, WellFormed
<1>12. \A n \in DOMAIN u : attempts'[u[n].id] = attempts[u[n].id] + 1
  <2>1. SUFFICES ASSUME NEW n \in DOMAIN u
                 PROVE  attempts'[u[n].id] = attempts[u[n].id] + 1
    OBVIOUS
  <2>2. {e \in ToSet(u) : e.id = u[n].id} = {u[n]}
    BY <1>6, <1>7
  <2>3. Cardinality({u[n]}) = 1
    BY FS_Singleton
  <2>4. QED
    BY <1>3, <1>11, <2>2, <2>3
<1>13. \A i \in Ids : ~InBatch(u, i) => attempts'[i] = attempts[i]
  <2>1. SUFFICES ASSUME NEW i \in Ids, ~InBatch(u, i)
                 PROVE  attempts'[i] = attempts[i]
    OBVIOUS
  <2>2. {e \in ToSet(u) : e.id = i} = {}
    BY <1>7, <2>1 DEF InBatch
  <2>3. Cardinality({}) = 0
    BY FS_EmptySet
  <2>4. attempts[i] \in Nat
    BY <1>4 DEF Bounded
  <2>5. QED
    BY <1>3, <2>2, <2>3, <2>4
<1>14. \A n \in DOMAIN u :
         /\ attempts[u[n].id] = u[n].retry + dropped[u[n].id]
         /\ u[n].id \in DOMAIN box.events => box.events[u[n].id].retry = u[n].retry
  <2>1. SUFFICES ASSUME NEW n \in DOMAIN u
                 PROVE  /\ attempts[u[n].id] = u[n].retry + dropped[u[n].id]
                        /\ u[n].id \in DOMAIN box.events => box.events[u[n].id].retry = u[n].retry
    OBVIOUS
  <2>2. PICK j \in DOMAIN s : u[n] = s[j]
    BY <1>6
  <2>3. attempts[u[n].id] = u[n].retry + 0 + dropped[u[n].id]
    BY <1>4, <2>2 DEF Counts
  <2>4. u[n].retry \in Nat /\ dropped[u[n].id] \in Nat
    BY <1>4, <1>11, OutboxAssumption DEF Bounded
  <2>5. u[n].id \in DOMAIN box.events => box.events[u[n].id].retry = u[n].retry
    BY <1>4, <2>2 DEF Counts
  <2>6. QED
    BY <2>3, <2>4, <2>5
<1>15. Bounded(attempts', dropped', p)
  <2>1. ASSUME NEW i \in Ids
        PROVE  /\ attempts'[i] \in Nat
               /\ attempts'[i] <= MaxRetryCount + 1 + dropped[i]
               /\ i \notin DOMAIN p => attempts'[i] = 0
    <3>1. CASE InBatch(u, i)
      <4>1. PICK n \in DOMAIN u : u[n].id = i
        BY <3>1 DEF InBatch
      <4>2. /\ attempts'[i] = attempts[i] + 1 /\ attempts[i] = u[n].retry + dropped[i]
            /\ i \in DOMAIN p /\ u[n].retry \in 0..MaxRetryCount
        BY <1>11, <1>12, <1>14, <4>1
      <4>3. dropped[i] \in Nat
        BY <1>4 DEF Bounded
      <4>4. QED
        BY <4>2, <4>3, OutboxAssumption
    <3>2. CASE ~InBatch(u, i)
      BY <1>4, <1>13, <3>2 DEF Bounded
    <3>3. QED
      BY <3>1, <3>2
  <2>2. attempts' = [i \in Ids |-> attempts'[i]]
    BY <1>3
  <2>3. QED
    BY <1>1, <1>4, <2>1, <2>2 DEF Bounded
<1>16. Counts(u, box, attempts', dropped, 1)
  <2>1. ASSUME NEW n \in DOMAIN u
        PROVE  attempts'[u[n].id] = u[n].retry + 1 + dropped[u[n].id]
    <3>1. u[n].retry \in Nat /\ dropped[u[n].id] \in Nat
      BY <1>4, <1>11, OutboxAssumption DEF Bounded
    <3>2. QED
      BY <1>12, <1>14, <3>1
  <2>2. ASSUME NEW i \in DOMAIN box.events, ~InBatch(u, i)
        PROVE  attempts'[i] = box.events[i].retry + dropped[i]
    <3>1. i \in Ids /\ box.events[i].retry \in Nat /\ dropped[i] \in Nat
      BY <1>4, PublicationFacts, OutboxAssumption DEF BoxOK, Shape, MapOK, WellFormed, Bounded
    <3>2. attempts[i] = box.events[i].retry + dropped[i]
      <4>1. CASE InBatch(s, i)
        <5>1. PICK j \in DOMAIN s : s[j].id = i
          BY <4>1 DEF InBatch
        <5>2. attempts[i] = s[j].retry + 0 + dropped[i] /\ box.events[i].retry = s[j].retry
          BY <1>4, <5>1 DEF Counts
        <5>3. QED
          BY <3>1, <5>2
      <4>2. CASE ~InBatch(s, i)
        BY <1>4, <4>2 DEF Counts
      <4>3. QED
        BY <4>1, <4>2
    <3>3. QED
      BY <1>13, <2>2, <3>1, <3>2
  <2>3. QED
    BY <1>14, <2>1, <2>2 DEF Counts
<1>17. DeadCounts(box, p, attempts')
  <2>1. ASSUME NEW x \in box.dead, Critical(p, x.id)
        PROVE  attempts'[x.id] = attempts[x.id]
    <3>1. x.id \in DOMAIN p /\ x.id \in Ids
      BY <1>4, PublicationFacts DEF BoxOK, Shape, DeadOK
    <3>2. x.id \notin DOMAIN box.events
      BY <1>4, <2>1, <3>1 DEF CritBox, OnePlace
    <3>3. ~InBatch(u, x.id)
      BY <1>9, <2>1, <3>2 DEF InBatch, CritLeft
    <3>4. QED
      BY <1>13, <3>1, <3>3
  <2>2. QED
    BY <1>4, <2>1 DEF DeadCounts
<1>18. NothingLost(u, box, p, db')
  <2>1. \A i : Critical(p, i) /\ InBatch(s, i) => InBatch(u, i)
    BY <1>6 DEF InBatch
  <2>2. \A i \in DOMAIN p : InDatabase(i, p, db) => InDatabase(i, p, db')
    BY <1>3 DEF InDatabase
  <2>3. QED
    BY <1>4, <2>1, <2>2 DEF NothingLost
<1>19. BatchOK'
  <2>1. Len(u) \in Nat /\ Len(s) \in Nat /\ Len(u) <= BatchSize
    BY <1>4, <1>6, OutboxAssumption
  <2>2. QED
    BY <1>1, <1>6, <2>1 DEF BatchOK
<1>20. QED
  BY <1>1, <1>4, <1>8, <1>9, <1>10, <1>15, <1>16, <1>17, <1>18, <1>19 DEF IInv

\* The first event of the batch is settled: the rest of the invariant follows
\* from what the call did about that event.
LEMMA SettleOne ==
  ASSUME IInv, pc = "settle", batch # <<>>,
         NEW id, id = batch[1].id,
         UNCHANGED <<published, outcome, attempts, dropped, db>>,
         BoxOK(box', published), CritBox(box', published),
         UntouchedBut(box, box', published, id),
         id \in DOMAIN box'.events => attempts[id] = box'.events[id].retry + dropped[id],
         \A x \in box'.dead : x.id = id /\ x \notin box.dead /\ Critical(published, id) =>
           attempts[id] >= 1 /\ (DbFailures = {"transient"} => attempts[id] = MaxRetryCount + 1),
         Critical(published, id) =>
           \/ InReady(box', id) \/ id \in DOMAIN box'.retained
           \/ InDatabase(id, published, db) \/ \E x \in box'.dead : x.id = id,
         \/ pc' = "settle" /\ batch' = Tail(batch)
         \/ /\ pc' = "retrying" /\ batch' = batch
            /\ WaitingOK(retrying', Tail(batch), box', published, attempts, dropped)
  PROVE  IInv'
<1> DEFINE p == published
           s == batch
           u == Tail(s)
           T == EventsOf(p)
<1>1. /\ Publications(p) /\ s \in Seq(T) /\ s # <<>> /\ Len(s) <= BatchSize
      /\ LeftOK(s, box, p) /\ CritLeft(s, box, p) /\ OutcomesOK(s, p, outcome, db)
      /\ Counts(s, box, attempts, dropped, 1)
      /\ Bounded(attempts, dropped, p) /\ DeadCounts(box, p, attempts)
      /\ NothingLost(s, box, p, db)
  BY DEF IInv, Left, BatchOK
<1>2. Left' = u /\ pc' \in {"settle", "retrying"}
  BY DEF Left
<1> HIDE DEF T
<1>3. u \in Seq(T) /\ Len(u) = Len(s) - 1 /\ Len(s) \in Nat
  BY <1>1, TailFacts
<1> HIDE DEF u
<1>4. /\ LeftOK(u, box, p) /\ CritLeft(u, box, p) /\ OutcomesOK(u, p, outcome, db)
      /\ ~InBatch(u, id)
      /\ \A i : i # id /\ InBatch(s, i) => InBatch(u, i)
  BY <1>1, TailKeeps DEF u
<1>5. LeftOK(u, box', p) /\ CritLeft(u, box', p)
  BY <1>4, UntouchedKeeps
<1>6. Counts(u, box', attempts, dropped, 1)
  BY <1>1, <1>4, TailCounts DEF u
<1>7. DeadCounts(box', p, attempts)
  BY <1>1, UntouchedDead
<1>8. NothingLost(u, box', p, db)
  BY <1>1, <1>4, UntouchedNothingLost
<1>9. BatchOK'
  <2>1. CASE batch' = u
    BY <1>1, <1>2, <1>3, <2>1, OutboxAssumption DEF BatchOK, T
  <2>2. CASE batch' = batch
    BY <1>1, <1>2, <2>2 DEF BatchOK, T
  <2>3. QED
    BY <2>1, <2>2 DEF u
<1>10. pc' = "retrying" => WaitingOK(retrying', u, box', p, attempts, dropped)
  BY DEF u
<1>11. QED
  BY <1>1, <1>2, <1>4, <1>5, <1>6, <1>7, <1>8, <1>9, <1>10 DEF IInv

\* What the invariant says of the event that is settled next.
LEMMA HeadFacts ==
  ASSUME IInv, pc = "settle", batch # <<>>, NEW e, e = Head(batch)
  PROVE  /\ e = batch[1] /\ 1 \in DOMAIN batch
         /\ Publications(published) /\ BoxOK(box, published) /\ CritBox(box, published)
         /\ WellFormed(published, e)
         /\ e.id \in DOMAIN box.retained => e.id \in DOMAIN box.events
         /\ Critical(published, e.id) =>
              /\ e.id \in DOMAIN box.events
              /\ ~InReady(box, e.id)
              /\ e.id \notin DOMAIN box.retained
         /\ attempts[e.id] = e.retry + 1 + dropped[e.id]
         /\ e.retry \in 0..MaxRetryCount /\ dropped[e.id] \in Nat
         /\ Critical(published, e.id) => dropped[e.id] = 0
         /\ e.id \in DOMAIN box.events => box.events[e.id].retry = e.retry
         /\ outcome[e] = "ok" => FullyWritten(e, db)
         /\ DbFailures = {"transient"} => outcome[e] \in {"ok", "transient"}
         /\ OutcomesOK(batch, published, outcome, db)
<1>1. /\ batch \in Seq(EventsOf(published)) /\ Left = batch
      /\ LeftOK(batch, box, published) /\ CritLeft(batch, box, published)
      /\ OutcomesOK(batch, published, outcome, db)
      /\ Counts(batch, box, attempts, dropped, 1)
      /\ Bounded(attempts, dropped, published) /\ Publications(published)
      /\ BoxOK(box, published) /\ CritBox(box, published)
  BY DEF IInv, BatchOK, Left
<1>2. e = batch[1] /\ 1 \in DOMAIN batch
  <2> DEFINE T == EventsOf(published)
  <2>1. batch \in Seq(T)
    BY <1>1
  <2> HIDE DEF T
  <2>2. QED
    BY <2>1, TailFacts
<1>3. WellFormed(published, e) /\ (e.id \in DOMAIN box.retained => e.id \in DOMAIN box.events)
  BY <1>1, <1>2 DEF LeftOK
<1>4. e.id \in DOMAIN published /\ e.id \in Ids /\ e.retry \in 0..MaxRetryCount
  BY <1>1, <1>3, PublicationFacts DEF WellFormed
<1>5. Critical(published, e.id) =>
        /\ e.id \in DOMAIN box.events
        /\ ~InReady(box, e.id)
        /\ e.id \notin DOMAIN box.retained
  BY <1>1, <1>2 DEF CritLeft
<1>6. /\ attempts[e.id] = e.retry + 1 + dropped[e.id]
      /\ e.id \in DOMAIN box.events => box.events[e.id].retry = e.retry
  BY <1>1, <1>2 DEF Counts
<1>7. dropped[e.id] \in Nat /\ (Critical(published, e.id) => dropped[e.id] = 0)
  BY <1>1, <1>4 DEF Bounded
<1>8. /\ outcome[e] = "ok" => FullyWritten(e, db)
      /\ DbFailures = {"transient"} => outcome[e] \in {"ok", "transient"}
  BY <1>1, <1>2 DEF OutcomesOK
<1>9. QED
  BY <1>1, <1>2, <1>3, <1>4, <1>5, <1>6, <1>7, <1>8

\* A written event is acknowledged.
LEMMA SettleAckStep ==
  ASSUME IInv, SettleAck
  PROVE  IInv'
<1> DEFINE p == published
           e == Head(batch)
           id == e.id
<1>1. /\ pc = "settle" /\ batch # <<>> /\ outcome[e] = "ok" /\ box' = Ack(box, id)
      /\ pc' = "settle" /\ batch' = Tail(batch)
      /\ UNCHANGED <<published, outcome, attempts, dropped, db>>
  BY DEF SettleAck, NextInBatch
<1>2. /\ Publications(p) /\ BoxOK(box, p) /\ CritBox(box, p) /\ WellFormed(p, e)
      /\ id \in DOMAIN box.retained => id \in DOMAIN box.events
      /\ Critical(p, id) => ~InReady(box, id)
      /\ FullyWritten(e, db) /\ id = batch[1].id
  BY <1>1, HeadFacts
<1> HIDE DEF e
<1>3. /\ BoxOK(box', p) /\ CritBox(box', p)
      /\ box'.events = Without(box.events, id) /\ box'.dead = box.dead
      /\ DOMAIN box'.retained \subseteq DOMAIN box.retained \ {id}
      /\ \A i : InReady(box', i) \/ i \in DOMAIN box'.retained
                  <=> InReady(box, i) \/ i \in DOMAIN box.retained \ {id}
  BY <1>1, <1>2, AckFacts
<1>4. UntouchedBut(box, box', p, id)
  BY <1>3 DEF UntouchedBut, Without
<1>5. id \notin DOMAIN box'.events
  BY <1>3 DEF Without
<1>6. InDatabase(id, p, db)
  BY <1>2 DEF InDatabase, FullyWritten, WellFormed
<1>7. QED
  BY <1>1, <1>2, <1>3, <1>4, <1>5, <1>6, SettleOne

\* An event is given up.
LEMMA SettleDeadLetterStep ==
  ASSUME IInv, SettleDeadLetter
  PROVE  IInv'
<1> DEFINE p == published
           e == Head(batch)
           id == e.id
<1>1. /\ pc = "settle" /\ batch # <<>> /\ outcome[e] # "ok"
      /\ ~(outcome[e] = "transient" /\ e.retry < MaxRetryCount)
      /\ Known(box, id) /\ box' = DeadLetter(box, id)
      /\ pc' = "settle" /\ batch' = Tail(batch)
      /\ UNCHANGED <<published, outcome, attempts, dropped, db>>
  BY DEF SettleDeadLetter, NextInBatch, MayRetry
<1>2. /\ Publications(p) /\ BoxOK(box, p) /\ CritBox(box, p)
      /\ id \in DOMAIN box.retained => id \in DOMAIN box.events
      /\ Critical(p, id) => ~InReady(box, id) /\ id \notin DOMAIN box.retained
      /\ Critical(p, id) => dropped[id] = 0
      /\ attempts[id] = e.retry + 1 + dropped[id]
      /\ e.retry \in 0..MaxRetryCount /\ dropped[id] \in Nat
      /\ DbFailures = {"transient"} => outcome[e] \in {"ok", "transient"}
      /\ id = batch[1].id
  BY <1>1, HeadFacts
<1> HIDE DEF e
<1>3. id \in DOMAIN box.events
  BY <1>1, <1>2 DEF Known
<1>4. /\ BoxOK(box', p) /\ CritBox(box', p)
      /\ box'.ready = box.ready /\ box'.retained = box.retained
      /\ box'.events = Without(box.events, id)
      /\ \E f : box'.dead = box.dead \union {f} /\ f.id = id
  <2>1. box' = DeadLetter(box, id)
    BY <1>1
  <2> HIDE DEF id
  <2>2. /\ BoxOK(box', p) /\ box'.ready = box.ready /\ box'.retained = box.retained
        /\ box'.events = Without(box.events, id)
        /\ \E f : box'.dead = box.dead \union {f} /\ f.id = id
        /\ CritBox(box, p) /\ (Critical(p, id) => ~InReady(box, id) /\ id \notin DOMAIN box.retained)
             => CritBox(box', p)
    BY <1>2, <1>3, <2>1, DeadLetterFacts
  <2>3. QED
    BY <1>2, <2>2
<1>5. UntouchedBut(box, box', p, id)
  BY <1>4 DEF UntouchedBut, Without, InReady
<1>6. id \notin DOMAIN box'.events /\ \E x \in box'.dead : x.id = id
  BY <1>4 DEF Without
<1>7. Critical(p, id) =>
        attempts[id] >= 1 /\ (DbFailures = {"transient"} => attempts[id] = MaxRetryCount + 1)
  BY <1>1, <1>2, OutboxAssumption
<1>8. QED
  BY <1>1, <1>2, <1>4, <1>5, <1>6, <1>7, SettleOne

\* An event is retried: merged into its entry, put back, or left waiting.
LEMMA SettleRetryStep ==
  ASSUME IInv, SettleRetry
  PROVE  IInv'
<1> DEFINE p == published
           h == Head(batch)
           id == h.id
           e == WithRetry(Current(box, id))
           stored == RetryStore(box, id)
<1>1. /\ pc = "settle" /\ batch # <<>> /\ h.retry < MaxRetryCount /\ Known(box, id)
      /\ UNCHANGED <<published, outcome, attempts, dropped, db>>
  BY DEF SettleRetry, MayRetry
<1>2. \/ /\ id \in box.queued /\ box' = stored
         /\ pc' = "settle" /\ batch' = Tail(batch)
      \/ /\ id \notin box.queued /\ HasCapacity(stored) /\ box' = RetryEnqueue(stored, e)
         /\ pc' = "settle" /\ batch' = Tail(batch)
      \/ /\ id \notin box.queued /\ box' = stored /\ retrying' = e
         /\ pc' = "retrying" /\ batch' = batch
  BY DEF SettleRetry, NextInBatch
<1>3. /\ Publications(p) /\ BoxOK(box, p) /\ CritBox(box, p)
      /\ id \in DOMAIN box.retained => id \in DOMAIN box.events
      /\ Critical(p, id) => ~InReady(box, id)
      /\ attempts[id] = h.retry + 1 + dropped[id]
      /\ h.retry \in 0..MaxRetryCount /\ dropped[id] \in Nat
      /\ id \in DOMAIN box.events => box.events[id].retry = h.retry
      /\ id = batch[1].id /\ id \in DOMAIN p
      /\ OutcomesOK(batch, p, outcome, db)
  BY <1>1, HeadFacts DEF WellFormed
<1>4. id \in DOMAIN box.events
  BY <1>1, <1>3 DEF Known
<1> HIDE DEF h, e, stored
<1>5. /\ WellFormed(p, e) /\ e.id = id /\ e.retry = box.events[id].retry + 1
      /\ BoxOK(stored, p) /\ CritBox(stored, p)
      /\ Restored(box, stored, p, id)
      /\ id \in DOMAIN stored.events => stored.events[id] = e
      /\ Critical(p, id) /\ id \notin box.queued => id \in DOMAIN stored.retained
  BY <1>1, <1>3, <1>4, RetryStoreFacts DEF e, stored
<1>6. attempts[id] = e.retry + dropped[id]
  BY <1>3, <1>4, <1>5
<1>7. Critical(p, id) => id \notin box.queued
  BY <1>3 DEF CritBox, OnePlace
<1>8. \A i : InReady(stored, i) <=> InReady(box, i)
  BY <1>5 DEF Restored, InReady
<1>9. UntouchedBut(box, stored, p, id)
  BY <1>5, <1>8 DEF Restored, UntouchedBut
<1>10. \A x \in stored.dead : x.id = id /\ x \notin box.dead => ~Critical(p, id)
  BY <1>5 DEF Restored
<1>11. ~InBatch(Tail(batch), id)
  <2> DEFINE T == EventsOf(p)
  <2>1. batch \in Seq(T)
    BY DEF IInv, BatchOK
  <2>2. LeftOK(batch, box, p) /\ CritLeft(batch, box, p)
    BY <1>1 DEF IInv, Left
  <2> HIDE DEF T
  <2>3. QED
    BY <1>1, <1>3, <2>1, <2>2, TailKeeps
<1>12. CASE id \in box.queued
  BY <1>1, <1>2, <1>3, <1>5, <1>6, <1>7, <1>9, <1>10, <1>12, SettleOne
<1>13. CASE HasCapacity(stored) /\ box' = RetryEnqueue(stored, e) /\ pc' = "settle" /\ batch' = Tail(batch)
  <2>1. Critical(p, id) => ~InReady(stored, id) /\ id \in DOMAIN stored.events
    BY <1>3, <1>5, <1>8 DEF Restored
  <2>2. /\ BoxOK(box', p) /\ CritBox(box', p)
        /\ box'.events = stored.events /\ box'.dead = stored.dead
        /\ DOMAIN box'.retained = DOMAIN stored.retained \ {id}
        /\ \A i : InReady(box', i) <=> InReady(stored, i) \/ i = id
    BY <1>3, <1>5, <1>13, <2>1, RetryEnqueueFacts
  <2>3. UntouchedBut(box, box', p, id)
    BY <1>9, <2>2 DEF UntouchedBut
  <2>4. InReady(box', id)
    BY <2>2
  <2>5. id \in DOMAIN box'.events => attempts[id] = box'.events[id].retry + dropped[id]
    BY <1>5, <1>6, <2>2
  <2>6. QED
    BY <1>1, <1>3, <1>10, <1>13, <2>2, <2>3, <2>4, <2>5, SettleOne
<1>14. CASE id \notin box.queued /\ box' = stored /\ retrying' = e /\ pc' = "retrying" /\ batch' = batch
  <2>1. WaitingOK(e, Tail(batch), stored, p, attempts, dropped)
    <3>1. e.id \notin stored.queued
      BY <1>5, <1>14 DEF Restored
    <3>2. Critical(p, id) => id \in DOMAIN stored.events /\ id \in DOMAIN stored.retained /\ ~InReady(stored, id)
      BY <1>3, <1>5, <1>8, <1>14 DEF Restored
    <3>3. QED
      BY <1>5, <1>6, <1>11, <3>1, <3>2 DEF WaitingOK
  <2>2. QED
    BY <1>1, <1>3, <1>5, <1>6, <1>9, <1>10, <1>14, <2>1, SettleOne
<1>15. QED
  BY <1>2, <1>12, <1>13, <1>14

\* The wait of a retry ends.
LEMMA RetryTimeoutStep ==
  ASSUME IInv, RetryTimeout
  PROVE  IInv'
<1> DEFINE p == published
           u == Left
           e == retrying
           id == e.id
<1>1. /\ pc = "retrying" /\ box' = StoreRetained(box, e)
      /\ pc' = "settle" /\ batch' = Tail(batch) /\ Left' = u
      /\ UNCHANGED <<published, outcome, attempts, dropped, db>>
  BY DEF RetryTimeout, NextInBatch, Left
<1>2. /\ Publications(p) /\ BoxOK(box, p) /\ CritBox(box, p)
      /\ LeftOK(u, box, p) /\ CritLeft(u, box, p) /\ OutcomesOK(u, p, outcome, db)
      /\ Counts(u, box, attempts, dropped, 1)
      /\ WaitingOK(e, u, box, p, attempts, dropped)
      /\ DeadCounts(box, p, attempts) /\ NothingLost(u, box, p, db)
      /\ Bounded(attempts, dropped, p)
  BY <1>1 DEF IInv
<1> HIDE DEF u
<1>3. /\ WellFormed(p, e) /\ id \notin box.queued /\ ~InBatch(u, id)
      /\ Critical(p, id) => ~InReady(box, id) /\ id \in DOMAIN box.events
      /\ attempts[id] = e.retry + dropped[id]
  BY <1>2 DEF WaitingOK
<1>4. /\ BoxOK(box', p) /\ CritBox(box', p)
      /\ Restored(box, box', p, id)
      /\ id \in DOMAIN box'.events => box'.events[id] = e
      /\ Critical(p, id) => id \in DOMAIN box'.retained
  BY <1>1, <1>2, <1>3, RetainAgainFacts
<1>5. UntouchedBut(box, box', p, id)
  BY <1>4 DEF Restored, UntouchedBut, InReady
<1>6. LeftOK(u, box', p) /\ CritLeft(u, box', p)
  BY <1>2, <1>3, <1>5, UntouchedKeeps
<1>7. Counts(u, box', attempts, dropped, 1)
  BY <1>2, <1>3, <1>4, <1>5, UntouchedCounts
<1>8. \A x \in box'.dead : x.id = id /\ x \notin box.dead => ~Critical(p, id)
  BY <1>4 DEF Restored
<1>9. DeadCounts(box', p, attempts)
  BY <1>2, <1>5, <1>8, UntouchedDead
<1>10. NothingLost(u, box', p, db)
  BY <1>2, <1>4, <1>5, UntouchedNothingLost
<1>11. BatchOK'
  <2> DEFINE T == EventsOf(p)
  <2>1. batch \in Seq(T) /\ batch # <<>> /\ Len(batch) <= BatchSize
    BY <1>1 DEF IInv, BatchOK
  <2>2. Tail(batch) \in Seq(T) /\ Len(Tail(batch)) <= BatchSize
    <3> HIDE DEF T
    <3>1. Tail(batch) \in Seq(T) /\ Len(Tail(batch)) = Len(batch) - 1 /\ Len(batch) \in Nat
      BY <2>1, TailFacts
    <3>2. QED
      BY <2>1, <3>1, OutboxAssumption
  <2>3. QED
    BY <1>1, <2>2 DEF BatchOK
<1>12. QED
  BY <1>1, <1>2, <1>4, <1>6, <1>7, <1>9, <1>10, <1>11 DEF IInv

\* The event is gone, and the exception cuts the batch short: no critical event
\* is in what is left.
LEMMA SettleUnknownStep ==
  ASSUME IInv, SettleUnknown
  PROVE  IInv'
<1> DEFINE p == published
           s == batch
           u == Tail(s)
           h == Head(s)
           T == EventsOf(p)
<1>1. /\ pc = "settle" /\ pc' = "settle" /\ s # <<>> /\ ~Known(box, h.id) /\ batch' = <<>>
      /\ dropped' = [i \in Ids |->
                       dropped[i] + IF \E e \in ToSet(u) : e.id = i THEN 1 ELSE 0]
      /\ UNCHANGED <<box, published, outcome, attempts, db>>
  BY DEF SettleUnknown
<1>2. /\ Publications(p) /\ BoxOK(box, p) /\ CritBox(box, p) /\ s \in Seq(T)
      /\ LeftOK(s, box, p) /\ OutcomesOK(s, p, outcome, db)
      /\ CritLeft(s, box, p)
      /\ Counts(s, box, attempts, dropped, 1)
      /\ Bounded(attempts, dropped, p) /\ DeadCounts(box, p, attempts)
      /\ NothingLost(s, box, p, db)
      /\ Left' = <<>>
  BY <1>1 DEF IInv, Left, BatchOK
<1> HIDE DEF T
<1>3. /\ 1 \in DOMAIN s /\ h = s[1] /\ u \in Seq(T) /\ DOMAIN s = 1..Len(s)
      /\ \A j \in DOMAIN u : j + 1 \in DOMAIN s /\ u[j] = s[j + 1] /\ j \in Nat /\ j + 1 # 1
  <2>1. DOMAIN s = 1..Len(s)
    BY <1>2
  <2>2. QED
    BY <1>1, <1>2, <2>1, TailFacts
<1>4. /\ ~InBatch(u, h.id)
      /\ \A i : i # h.id /\ InBatch(s, i) => InBatch(u, i)
      /\ \A i : InBatch(u, i) => InBatch(s, i)
  BY <1>1, <1>2, <1>3, TailKeeps
<1> HIDE DEF u, h
<1>5. \A i : InBatch(u, i) <=> \E e \in ToSet(u) : e.id = i
  BY DEF InBatch, ToSet
<1>6. h.id \notin DOMAIN box.events /\ ~Critical(p, h.id)
  BY <1>1, <1>2, <1>3 DEF Known, CritLeft
\* Critical events come first in a batch: with the first one not critical none is.
<1>7. \A i : InBatch(s, i) => i \in DOMAIN p /\ ~Critical(p, i)
  <2>1. ASSUME NEW j \in DOMAIN s
        PROVE  s[j].id \in DOMAIN p /\ ~Critical(p, s[j].id)
    <3>1. s[j].id \in DOMAIN p
      BY <1>2 DEF LeftOK, WellFormed
    <3>2. CASE j = 1
      BY <1>3, <1>6, <3>1, <3>2
    <3>3. CASE j # 1
      <4>1. 1 < j
        BY <1>2, <1>3, <3>3
      <4>2. QED
        BY <1>2, <1>3, <1>6, <3>1, <4>1 DEF OutcomesOK
    <3>4. QED
      BY <3>2, <3>3
  <2>2. QED
    BY <2>1 DEF InBatch
<1>8. \A i \in Ids : /\ dropped[i] \in Nat
                     /\ InBatch(u, i) => dropped'[i] = dropped[i] + 1
                     /\ ~InBatch(u, i) => dropped'[i] = dropped[i]
  <2>1. SUFFICES ASSUME NEW i \in Ids
                 PROVE  /\ dropped[i] \in Nat
                        /\ InBatch(u, i) => dropped'[i] = dropped[i] + 1
                        /\ ~InBatch(u, i) => dropped'[i] = dropped[i]
    OBVIOUS
  <2>2. dropped[i] \in Nat
    BY <1>2 DEF Bounded
  <2>3. dropped'[i] = dropped[i] + IF \E e \in ToSet(u) : e.id = i THEN 1 ELSE 0
    BY <1>1
  <2>4. CASE InBatch(u, i)
    BY <1>5, <2>2, <2>3, <2>4
  <2>5. CASE ~InBatch(u, i)
    BY <1>5, <2>2, <2>3, <2>5
  <2>6. QED
    BY <2>2, <2>4, <2>5
<1>9. Bounded(attempts, dropped', p)
  <2>1. ASSUME NEW i \in Ids
        PROVE  /\ dropped'[i] \in Nat
               /\ attempts[i] <= MaxRetryCount + 1 + dropped'[i]
    <3>1. attempts[i] \in Nat /\ attempts[i] <= MaxRetryCount + 1 + dropped[i]
      BY <1>2 DEF Bounded
    <3>2. dropped'[i] \in Nat /\ dropped'[i] >= dropped[i] /\ dropped[i] \in Nat
      BY <1>8
    <3>3. QED
      BY <3>1, <3>2, OutboxAssumption
  <2>2. dropped' = [i \in Ids |-> dropped'[i]]
    BY <1>1
  <2>3. \A i \in Ids \ DOMAIN p : dropped'[i] = 0
    BY <1>2, <1>4, <1>7, <1>8 DEF Bounded
  <2>4. \A i \in DOMAIN p : Critical(p, i) => dropped'[i] = 0
    BY <1>2, <1>4, <1>7, <1>8, PublicationFacts DEF Bounded
  <2>5. QED
    BY <1>2, <2>1, <2>2, <2>3, <2>4 DEF Bounded
<1>10. Counts(<<>>, box, attempts, dropped', 1)
  <2>1. ASSUME NEW i \in DOMAIN box.events
        PROVE  attempts[i] = box.events[i].retry + dropped'[i]
    <3>1. i \in Ids /\ box.events[i].retry \in Nat /\ dropped[i] \in Nat
      BY <1>2, PublicationFacts, OutboxAssumption DEF BoxOK, Shape, MapOK, WellFormed, Bounded
    <3>2. CASE InBatch(s, i)
      <4>1. PICK j \in DOMAIN s : s[j].id = i
        BY <3>2 DEF InBatch
      <4>2. attempts[i] = s[j].retry + 1 + dropped[i] /\ box.events[i].retry = s[j].retry
        BY <1>2, <4>1 DEF Counts
      <4>3. dropped'[i] = dropped[i] + 1
        BY <1>4, <1>6, <1>8, <3>1, <3>2
      <4>4. QED
        BY <3>1, <4>2, <4>3
    <3>3. CASE ~InBatch(s, i)
      BY <1>2, <1>4, <1>8, <3>1, <3>3 DEF Counts
    <3>4. QED
      BY <3>2, <3>3
  <2>2. QED
    BY <2>1 DEF Counts
<1>11. NothingLost(<<>>, box, p, db)
  BY <1>2, <1>7 DEF NothingLost
<1>12. LeftOK(<<>>, box, p) /\ CritLeft(<<>>, box, p) /\ OutcomesOK(<<>>, p, outcome, db)
  BY DEF LeftOK, CritLeft, OutcomesOK
<1>13. BatchOK'
  BY <1>1, OutboxAssumption DEF BatchOK
<1>14. QED
  BY <1>1, <1>2, <1>9, <1>10, <1>11, <1>12, <1>13 DEF IInv

\* IInv is an invariant: every step of a publisher and of the worker keeps it.
THEOREM IInvInvariant ==
  Spec => []IInv
<1>1. IInv /\ [Next]_vars => IInv'
  <2> SUFFICES ASSUME IInv, [Next]_vars  PROVE IInv'
    OBVIOUS
  <2>1. CASE UNCHANGED vars
    <3>1. Left' = Left
      BY <2>1 DEF vars, Left
    <3>2. BatchOK'
      BY <2>1 DEF vars, IInv, BatchOK
    <3>3. QED
      BY <2>1, <3>1, <3>2 DEF vars, IInv
  <2>2. ASSUME NEW t \in Types, NEW how \in Entrances, Publish(t, how)
        PROVE  IInv'
    BY <2>2, PublishStep
  <2>3. CASE WorkerStep
    BY <2>3, CollectStep, CollectTimeoutStep, WriteStep, SettleAckStep, SettleRetryStep,
       RetryTimeoutStep, SettleDeadLetterStep, SettleUnknownStep, BatchDoneStep
    DEF WorkerStep
  <2>4. QED
    BY <2>1, <2>2, <2>3 DEF Next
<1>2. QED
  BY InitIInv, <1>1, PTL DEF Spec

\* LocalOutbox keeps its bounds: the ready queue never exceeds max_size, and the
\* retained area exceeds retained_max_size only when nothing in it may be evicted.
THEOREM OutboxIsSound ==
  Spec => []OutboxSound
<1>1. IInv => OutboxSound
  <2> SUFFICES ASSUME IInv  PROVE OutboxSound
    OBVIOUS
  <2>1. /\ Publications(published) /\ ReadyOK(box, published)
        /\ MapOK(box.events, published) /\ MapOK(box.retained, published)
        /\ QueuedOK(box, published) /\ DeadOK(box, published) /\ RoomOK(box, published)
    BY DEF IInv, BoxOK, Shape
  <2>2. \A e : WellFormed(published, e) => e \in Records
    <3>1. DOMAIN published \subseteq 0..MaxEvents /\ Ids \subseteq 0..MaxEvents
      BY <2>1, PublicationFacts, OutboxAssumption DEF Ids
    <3>2. 0..MaxRetryCount \subseteq 0..(MaxRetryCount + 1)
      BY OutboxAssumption
    <3>3. QED
      BY <3>1, <3>2 DEF WellFormed, Records
  <2>3. TypeOK
    <3>1. Range(box.events) \subseteq Records /\ Range(box.retained) \subseteq Records
      BY <2>1, <2>2 DEF MapOK, Range
    <3>2. box.dead \subseteq Records
      BY <2>1 DEF DeadOK
    <3>3. QED
      BY <2>1, <3>1, <3>2 DEF TypeOK, IInv, ReadyOK, MapOK, QueuedOK, BatchOK, PublishedIds
  <2>4. RetainedBounded
    <3>1. SUFFICES ASSUME Cardinality(DOMAIN box.retained) > RetainedMaxSize
                   PROVE  Evictable(box) = {}
      BY DEF RetainedBounded
    <3>2. \A i \in DOMAIN box.retained : IsCritical(box.retained[i])
      BY <2>1, <3>1 DEF RoomOK, MapOK, WellFormed, Critical, IsCritical
    <3>3. QED
      BY <3>2 DEF Evictable
  <2>5. QED
    BY <2>3, <2>4 DEF OutboxSound
<1>2. QED
  BY IInvInvariant, <1>1, PTL

\* A critical (P0, P1) event that a publisher put in the outbox is in it, in the
\* batch of the worker, completely in the database, or in the dead letters.
THEOREM NoCriticalEventLost ==
  Spec => []CriticalNeverLost
<1>1. IInv => CriticalNeverLost
  <2> SUFFICES ASSUME IInv, NEW i \in CriticalIds
               PROVE  Held(i) \/ Persisted(i) \/ DeadLettered(i)
    BY DEF CriticalNeverLost
  <2>1. i \in DOMAIN published /\ Critical(published, i)
    BY DEF CriticalIds, PublishedIds, Critical
  <2>2. \/ InReady(box, i) \/ i \in DOMAIN box.retained \/ InBatch(Left, i)
        \/ InDatabase(i, published, db) \/ \E x \in box.dead : x.id = i
    BY <2>1 DEF IInv, NothingLost
  <2>3. CASE InReady(box, i)
    <3>1. i \in DOMAIN box.events
      BY <2>1, <2>3 DEF IInv, CritBox, OnePlace
    <3>2. QED
      BY <2>3, <3>1 DEF InReady, Held
  <2>4. CASE InBatch(Left, i)
    <3>1. InBatch(batch, i)
      <4>1. CASE pc = "retrying"
        <5> DEFINE T == EventsOf(published)
                   u == Tail(batch)
        <5>1. batch \in Seq(T) /\ batch # <<>> /\ Left = u
          BY <4>1 DEF IInv, BatchOK, Left
        <5> HIDE DEF T, u
        <5>2. \A j \in DOMAIN u : j + 1 \in DOMAIN batch /\ u[j] = batch[j + 1]
          BY <5>1, TailFacts DEF u
        <5>3. QED
          BY <2>4, <5>1, <5>2 DEF InBatch
      <4>2. CASE pc # "retrying"
        BY <2>4, <4>2 DEF Left
      <4>3. QED
        BY <4>1, <4>2
    <3>2. QED
      BY <3>1 DEF InBatch, Held
  <2>5. CASE InDatabase(i, published, db)
    BY <2>1, <2>5 DEF InDatabase, Persisted, PublishedIds
  <2>6. QED
    BY <2>2, <2>3, <2>4, <2>5 DEF Held, DeadLettered
<1>2. QED
  BY IInvInvariant, <1>1, PTL

\* No event is tried more often than max_retry_count allows, but for tries that
\* an exception left unsettled, and no critical event is given up before.
THEOREM RetriesAreCounted ==
  Spec => []RetriesCounted
<1>1. IInv => RetriesCounted
  <2> SUFFICES ASSUME IInv  PROVE RetriesCounted
    OBVIOUS
  <2>1. /\ Publications(published) /\ DeadOK(box, published)
        /\ Bounded(attempts, dropped, published) /\ DeadCounts(box, published, attempts)
    BY DEF IInv, BoxOK, Shape
  <2>2. AttemptsBounded
    BY <2>1 DEF AttemptsBounded, Bounded, CriticalIds, PublishedIds, Critical
  <2>3. CriticalGivenUpByRetries
    BY <2>1 DEF CriticalGivenUpByRetries, DeadOK, DeadCounts, Critical
  <2>4. QED
    BY <2>2, <2>3 DEF RetriesCounted
<1>2. QED
  BY IInvInvariant, <1>1, PTL

================================================================================
