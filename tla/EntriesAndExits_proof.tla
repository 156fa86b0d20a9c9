-------------------------- MODULE EntriesAndExits_proof --------------------------
(***************************************************************************)
(* What is bought and what is sold: the planning of entries and the        *)
(* exits of a token.                                                       *)
(*                                                                         *)
(* Exits, for every number of reconcile callers, shares, orders, reports   *)
(* and messages.  Whatever the store was told, by whom and in which order: *)
(* no sell raises the open sells over the shares held, unless the exchange *)
(* moved while its sender was looking.  The store plays no part in the     *)
(* argument.  What a run asks the authority for stays true until it plans, *)
(* as no order is taken and none is filled meanwhile (AnswersTrue), and    *)
(* what it decides to sell fits between the open sells and the shares held *)
(* until it is sent (RunsFit).  The worker sells what its entry has added  *)
(* to the shares held (WorkerFits).                                        *)
(*                                                                         *)
(* Plans, for every number of markets, amount and limit.  The argument is  *)
(* about the rounds of one division: Fair holds before the first and after *)
(* each, and after as many as there are units in the budget nobody goes on *)
(* or no money is left.  What is kept in a state is its type alone: a plan *)
(* is made anew whenever a book moves.                                     *)
(***************************************************************************)
EXTENDS ExitCoverage, EntryPlanning, FiniteSetTheorems, SequenceTheorems, TLAPS

--------------------------------------------------------------------------------
(* Orders on finite sets: Min chooses something. *)

\* R orders any two members of S.
Total(S, R) == \A x, y \in S : x # y => <<x, y>> \in R \/ <<y, x>> \in R

\* And is transitive on it.
Transitive(S, R) ==
  \A x, y, z \in S : <<x, y>> \in R /\ <<y, z>> \in R => <<x, z>> \in R

\* A family of subsets of a finite set has a minimal member.
LEMMA LeastFinite ==
  ASSUME NEW S, IsFiniteSet(S), NEW F, F \subseteq SUBSET S, F # {}
  PROVE  \E A \in F : \A B \in F : B \subseteq A => B = A
<1>1. F \subseteq FiniteSubsetsOf(S)
  BY FS_FiniteSubsetsOfFinite
<1> DEFINE R == StrictSubsetOrdering(S)
<1>2. PICK A \in F : \A B \in F : ~ (<<B, A>> \in R)
  <2>1. IsWellFoundedOn(R, FiniteSubsetsOf(S))
    BY FS_StrictSubsetOrderingWellFounded
  <2> HIDE DEF R
  <2>2. QED
    BY <1>1, <2>1, WFMin
<1>3. \A B \in F : B \subseteq A => B = A
  BY <1>2 DEF StrictSubsetOrdering
<1>4. QED
  BY <1>3

\* A total order on a finite set has a greatest element.
LEMMA Greatest ==
  ASSUME NEW S, IsFiniteSet(S), S # {}, NEW R, Total(S, R), Transitive(S, R)
  PROVE  \E m \in S : \A x \in S \ {m} : <<x, m>> \in R
<1> DEFINE Topped(T) == \E m \in T : \A x \in T \ {m} : <<x, m>> \in R
           Bad == {T \in SUBSET S : T # {} /\ ~Topped(T)}
<1>1. SUFFICES ASSUME Bad # {}  PROVE FALSE
  OBVIOUS
<1>2. PICK A \in Bad : \A B \in Bad : B \subseteq A => B = A
  <2>1. Bad \subseteq SUBSET S
    OBVIOUS
  <2> HIDE DEF Bad
  <2>2. QED
    BY <1>1, <2>1, LeastFinite
<1>3. PICK a \in A : TRUE
  OBVIOUS
<1>4. A \ {a} # {}
  OBVIOUS
<1>5. A \ {a} \notin Bad
  BY <1>2, <1>3
<1>6. PICK m \in A \ {a} : \A x \in (A \ {a}) \ {m} : <<x, m>> \in R
  BY <1>4, <1>5
<1>7. CASE <<a, m>> \in R
  <2>1. \A x \in A \ {m} : <<x, m>> \in R
    BY <1>6, <1>7
  <2>2. QED
    BY <1>2, <1>6, <2>1
<1>8. CASE <<m, a>> \in R
  <2>1. \A x \in A \ {a} : <<x, a>> \in R
    BY <1>2, <1>3, <1>6, <1>8 DEF Transitive
  <2>2. QED
    BY <1>2, <1>3, <2>1
<1>9. QED
  BY <1>2, <1>3, <1>6, <1>7, <1>8 DEF Total

\* So a finite set of integers has a least element, which Min chooses,
LEMMA MinIn ==
  ASSUME NEW S, IsFiniteSet(S), S # {}, \A x \in S : x \in Int
  PROVE  Min(S) \in S /\ \A y \in S : Min(S) <= y
<1> DEFINE R == {r \in S \X S : r[2] <= r[1]}
<1>1. Total(S, R) /\ Transitive(S, R)
  BY DEF Total, Transitive
<1>2. PICK m \in S : \A x \in S \ {m} : <<x, m>> \in R
  <2> HIDE DEF R
  <2>1. QED
    BY <1>1, Greatest
<1>3. ASSUME NEW x \in S
      PROVE  m <= x
  <2>1. CASE x = m
    BY <2>1
  <2>2. CASE x # m
    <3>1. <<x, m>> \in R
      BY <1>2, <2>2
    <3>2. QED
      BY <3>1
  <2>3. QED
    BY <2>1, <2>2
<1>4. QED
  BY <1>3 DEF Min

--------------------------------------------------------------------------------
(* Sums of amounts. *)

\* The shares of the orders f, one by one.
Open(f) == UNION {{x} \X (1 .. f[x]) : x \in DOMAIN f}

\* An order of n shares has n.
LEMMA SharesOfOne ==
  ASSUME NEW x, NEW n \in Nat
  PROVE  IsFiniteSet({x} \X (1 .. n)) /\ Cardinality({x} \X (1 .. n)) = n
<1>1. IsFiniteSet({x}) /\ Cardinality({x}) = 1
  BY FS_Singleton
<1>2. IsFiniteSet(1 .. n) /\ Cardinality(1 .. n) = n
  <2>1. 1 \in Int /\ n \in Int
    OBVIOUS
  <2>2. IsFiniteSet(1 .. n) /\ Cardinality(1 .. n) = IF 1 > n THEN 0 ELSE n - 1 + 1
    BY <2>1, FS_Interval, Zenon
  <2>3. QED
    BY <2>2
<1>3. /\ IsFiniteSet({x} \X (1 .. n))
      /\ Cardinality({x} \X (1 .. n)) = Cardinality({x}) * Cardinality(1 .. n)
  BY <1>1, <1>2, FS_Product, Zenon
<1>4. 1 * n = n
  OBVIOUS
<1>5. QED
  BY <1>1, <1>2, <1>3, <1>4, Zenon

\* There are finitely many.
LEMMA SumFinite ==
  ASSUME NEW S, IsFiniteSet(S), NEW f \in [S -> Nat]
  PROVE  IsFiniteSet(Open(f)) /\ Sum(f) = Cardinality(Open(f)) /\ Sum(f) \in Nat
<1> DEFINE part == [x \in S |-> {x} \X (1 .. f[x])]
           parts == {{x} \X (1 .. f[x]) : x \in S}
<1>1. part \in Surjection(S, parts)
  BY DEF Surjection
<1>2. IsFiniteSet(parts)
  <2> HIDE DEF part, parts
  <2>1. QED
    BY <1>1, FS_Surjection
<1>3. ASSUME NEW T \in parts
      PROVE  IsFiniteSet(T)
  <2>1. PICK x \in S : T = {x} \X (1 .. f[x])
    OBVIOUS
  <2>2. f[x] \in Nat
    OBVIOUS
  <2>3. QED
    BY <2>1, <2>2, SharesOfOne
<1>4. IsFiniteSet(UNION parts)
  <2> HIDE DEF parts
  <2>1. QED
    BY <1>2, <1>3, FS_UNION
<1>5. Open(f) = UNION parts
  BY DEF Open
<1>6. QED
  BY <1>4, <1>5, FS_CardinalityType DEF Sum, Open

\* The sum is that of one order and that of the others.
LEMMA SumWithout ==
  ASSUME NEW S, IsFiniteSet(S), NEW f \in [S -> Nat], NEW x \in S
  PROVE  Sum(f) = f[x] + Sum([y \in S \ {x} |-> f[y]])
<1> DEFINE g == [y \in S \ {x} |-> f[y]]
           A == {x} \X (1 .. f[x])
<1>1. IsFiniteSet(S \ {x})
  BY FS_Difference
<1>2. g \in [S \ {x} -> Nat]
  OBVIOUS
<1>3. IsFiniteSet(Open(g)) /\ Sum(g) = Cardinality(Open(g)) /\ Sum(g) \in Nat
  <2> HIDE DEF g
  <2>1. QED
    BY <1>1, <1>2, SumFinite
<1>4. IsFiniteSet(A) /\ Cardinality(A) = f[x]
  BY SharesOfOne
<1>5. Open(f) = A \cup Open(g)
  BY DEF Open
<1>6. A \cap Open(g) = {}
  BY DEF Open
<1>7. Cardinality(A \cup Open(g)) = f[x] + Sum(g) - Cardinality(A \cap Open(g))
  <2> HIDE DEF A, g
  <2>1. QED
    BY <1>3, <1>4, FS_Union
<1>8. Cardinality(A \cap Open(g)) = 0
  BY <1>6, FS_EmptySet
<1>9. Sum(f) = Cardinality(Open(f))
  BY SumFinite
<1>10. f[x] \in Nat
  OBVIOUS
<1> HIDE DEF A, g
<1>11. Sum(f) = f[x] + Sum(g)
  BY <1>3, <1>5, <1>7, <1>8, <1>9, <1>10
<1>12. QED
  BY <1>11 DEF g

\* An order that changes changes the sum by as much.
LEMMA SumUpdate ==
  ASSUME NEW S, IsFiniteSet(S), NEW f \in [S -> Nat], NEW x \in S, NEW v \in Nat
  PROVE  Sum([f EXCEPT ![x] = v]) = Sum(f) - f[x] + v
<1> DEFINE h == [f EXCEPT ![x] = v]
<1>1. h \in [S -> Nat] /\ h[x] = v
  OBVIOUS
<1>2. [y \in S \ {x} |-> h[y]] = [y \in S \ {x} |-> f[y]]
  OBVIOUS
<1>3. Sum(f) = f[x] + Sum([y \in S \ {x} |-> f[y]])
  BY SumWithout
<1>4. Sum(h) = v + Sum([y \in S \ {x} |-> f[y]])
  <2> HIDE DEF h
  <2>1. Sum(h) = h[x] + Sum([y \in S \ {x} |-> h[y]])
    BY <1>1, SumWithout
  <2>2. QED
    BY <1>1, <1>2, <2>1
<1>5. Sum([y \in S \ {x} |-> f[y]]) \in Nat
  <2>1. IsFiniteSet(S \ {x})
    BY FS_Difference
  <2>2. [y \in S \ {x} |-> f[y]] \in [S \ {x} -> Nat]
    OBVIOUS
  <2>3. QED
    BY <2>1, <2>2, SumFinite
<1>6. f[x] \in Nat /\ Sum(f) \in Nat
  BY SumFinite
<1> HIDE DEF h
<1>7. Sum(h) = Sum(f) - f[x] + v
  BY <1>3, <1>4, <1>5, <1>6
<1>8. QED
  BY <1>7 DEF h

LEMMA SumOfNone ==
  ASSUME NEW f, DOMAIN f = {}
  PROVE  Sum(f) = 0
<1>1. UNION {{x} \X (1 .. f[x]) : x \in DOMAIN f} = {}
  OBVIOUS
<1>2. QED
  BY <1>1, FS_EmptySet DEF Sum

\* The sum of a pointwise sum is the sum of the sums.
LEMMA SumPlus ==
  ASSUME NEW S, IsFiniteSet(S), NEW f \in [S -> Nat], NEW g \in [S -> Nat]
  PROVE  Sum([x \in S |-> f[x] + g[x]]) = Sum(f) + Sum(g)
<1> DEFINE on(T, h) == [x \in T |-> h[x]]
           both(T) == [x \in T |-> f[x] + g[x]]
           Bad == {T \in SUBSET S : Sum(both(T)) # Sum(on(T, f)) + Sum(on(T, g))}
<1>1. SUFFICES ASSUME Bad # {}  PROVE FALSE
  <2>1. S \notin Bad => Sum(both(S)) = Sum(on(S, f)) + Sum(on(S, g))
    OBVIOUS
  <2>2. on(S, f) = f /\ on(S, g) = g
    OBVIOUS
  <2> HIDE DEF on, Bad
  <2>3. QED
    BY <2>1, <2>2
<1>2. PICK T \in Bad : \A U \in Bad : U \subseteq T => U = T
  <2>1. Bad \subseteq SUBSET S
    OBVIOUS
  <2> HIDE DEF Bad
  <2>2. QED
    BY <1>1, <2>1, LeastFinite
<1>3. T \in SUBSET S /\ Sum(both(T)) # Sum(on(T, f)) + Sum(on(T, g))
  BY <1>2
<1>4. T # {}
  <2>1. ASSUME T = {}  PROVE FALSE
    <3>1. DOMAIN both(T) = {} /\ DOMAIN on(T, f) = {} /\ DOMAIN on(T, g) = {}
      BY <2>1
    <3> HIDE DEF both, on
    <3>2. Sum(both(T)) = 0 /\ Sum(on(T, f)) = 0 /\ Sum(on(T, g)) = 0
      BY <3>1, SumOfNone
    <3>3. QED
      BY <1>3, <3>2
  <2>2. QED
    BY <2>1
<1>5. PICK x \in T : TRUE
  BY <1>4
<1>6. T \ {x} \in SUBSET S /\ T \ {x} \notin Bad
  <2>1. T \ {x} \in SUBSET S /\ T \ {x} # T /\ T \ {x} \subseteq T
    BY <1>3, <1>5
  <2> HIDE DEF Bad
  <2>2. QED
    BY <1>2, <2>1
<1>7. Sum(both(T \ {x})) = Sum(on(T \ {x}, f)) + Sum(on(T \ {x}, g))
  <2> HIDE DEF both, on
  <2>1. QED
    BY <1>6
<1>8. IsFiniteSet(T) /\ IsFiniteSet(T \ {x})
  <2>1. T \subseteq S /\ T \ {x} \subseteq S
    BY <1>3
  <2>2. QED
    BY <2>1, FS_Subset
<1>9. ASSUME NEW h \in [T -> Nat]
      PROVE  /\ Sum(h) = h[x] + Sum([y \in T \ {x} |-> h[y]])
             /\ Sum([y \in T \ {x} |-> h[y]]) \in Nat
  <2>1. Sum(h) = h[x] + Sum([y \in T \ {x} |-> h[y]])
    <3> HIDE DEF Bad, both, on
    <3>1. QED
      BY <1>5, <1>8, SumWithout
  <2>2. [y \in T \ {x} |-> h[y]] \in [T \ {x} -> Nat]
    OBVIOUS
  <2> DEFINE r == [y \in T \ {x} |-> h[y]]
  <2>3. r \in [T \ {x} -> Nat] => Sum(r) \in Nat
    <3> HIDE DEF r
    <3>1. QED
      BY <1>8, SumFinite
  <2>4. QED
    BY <2>1, <2>2, <2>3
<1>10. /\ both(T) \in [T -> Nat] /\ on(T, f) \in [T -> Nat] /\ on(T, g) \in [T -> Nat]
       /\ both(T)[x] = on(T, f)[x] + on(T, g)[x]
       /\ on(T, f)[x] \in Nat /\ on(T, g)[x] \in Nat
  BY <1>3, <1>5
<1>11. /\ [y \in T \ {x} |-> both(T)[y]] = both(T \ {x})
       /\ [y \in T \ {x} |-> on(T, f)[y]] = on(T \ {x}, f)
       /\ [y \in T \ {x} |-> on(T, g)[y]] = on(T \ {x}, g)
  OBVIOUS
<1> HIDE DEF both, on, Bad
<1>12. /\ Sum(both(T)) = both(T)[x] + Sum(both(T \ {x}))
       /\ Sum(on(T, f)) = on(T, f)[x] + Sum(on(T \ {x}, f)) /\ Sum(on(T \ {x}, f)) \in Nat
       /\ Sum(on(T, g)) = on(T, g)[x] + Sum(on(T \ {x}, g)) /\ Sum(on(T \ {x}, g)) \in Nat
  BY <1>9, <1>10, <1>11
<1>13. QED
  BY <1>3, <1>7, <1>10, <1>12

\* A sum of amounts of at most t, and of nothing outside of B.
LEMMA SumAtMost ==
  ASSUME NEW S, IsFiniteSet(S), NEW f \in [S -> Nat], NEW B \in SUBSET S, NEW t \in Nat,
         \A x \in S : f[x] <= t, \A x \in S \ B : f[x] = 0
  PROVE  Sum(f) <= Cardinality(B) * t
<1>1. IsFiniteSet(B) /\ Cardinality(B) \in Nat
  BY FS_Subset, FS_CardinalityType
<1>2. IsFiniteSet(1 .. t) /\ Cardinality(1 .. t) = t
  <2>1. 1 \in Int /\ t \in Int
    OBVIOUS
  <2>2. IsFiniteSet(1 .. t) /\ Cardinality(1 .. t) = IF 1 > t THEN 0 ELSE t - 1 + 1
    BY <2>1, FS_Interval, Zenon
  <2>3. QED
    BY <2>2
<1>3. IsFiniteSet(B \X (1 .. t)) /\ Cardinality(B \X (1 .. t)) = Cardinality(B) * Cardinality(1 .. t)
  BY <1>1, <1>2, FS_Product, Zenon
<1>4. Open(f) \subseteq B \X (1 .. t)
  <2>1. ASSUME NEW q \in Open(f)
        PROVE  q \in B \X (1 .. t)
    <3>1. PICK x \in S : q \in {x} \X (1 .. f[x])
      BY DEF Open
    <3>2. PICK n \in 1 .. f[x] : q = <<x, n>>
      BY <3>1
    <3>3. n \in 1 .. t
      <4>1. n \in Int /\ 1 <= n /\ n <= f[x] /\ f[x] <= t /\ f[x] \in Nat
        OBVIOUS
      <4>2. QED
        BY <4>1
    <3>4. x \in B
      <4>1. f[x] # 0
        OBVIOUS
      <4>2. QED
        BY <4>1
    <3>5. QED
      BY <3>2, <3>3, <3>4
  <2>2. QED
    BY <2>1
<1>5. Cardinality(Open(f)) <= Cardinality(B \X (1 .. t))
  BY <1>3, <1>4, FS_Subset
<1>6. Sum(f) = Cardinality(Open(f))
  BY SumFinite
<1>7. QED
  BY <1>2, <1>3, <1>5, <1>6, Zenon

\* A sum is zero when every amount is.
LEMMA SumZero ==
  ASSUME NEW S, IsFiniteSet(S), NEW f \in [S -> Nat]
  PROVE  Sum(f) = 0 <=> \A x \in S : f[x] = 0
<1>1. IsFiniteSet(Open(f)) /\ Sum(f) = Cardinality(Open(f))
  BY SumFinite
<1>2. Open(f) = {} <=> \A x \in S : f[x] = 0
  <2>1. \A q : q \in Open(f) <=> \E x \in S : \E n \in 1 .. f[x] : q = <<x, n>>
    BY DEF Open
  <2>2. ASSUME NEW x \in S, f[x] # 0
        PROVE  Open(f) # {}
    <3>1. 1 \in 1 .. f[x]
      BY <2>2
    <3>2. QED
      BY <2>1, <3>1
  <2>3. ASSUME \A x \in S : f[x] = 0
        PROVE  Open(f) = {}
    BY <2>1, <2>3
  <2>4. QED
    BY <2>2, <2>3
<1>3. QED
  BY <1>1, <1>2, FS_EmptySet

--------------------------------------------------------------------------------
(* Exits: the inductive invariant. *)

Positions == {Absent} \union Nat

Message ==
  [kind : {"trade", "order"}, side : {"buy", "sell"}, id : 0..MaxOrders,
   size : Nat, times : 1..MaxReports]

WorkerShape ==
  [pc : {"idle", "entering", "entered", "selling", "sold", "done"},
   size : 0..MaxEntry, id : 0..MaxOrders, told : {"none"} \union Told,
   position : Positions]

RunShape ==
  [pc : {"idle", "refreshing", "cancelling", "selling", "sent"},
   left : SUBSET Calls, failed : SUBSET Calls, positions : Nat,
   orders : [Ids -> Nat], sell : Nat, id : 0..MaxOrders, seen : Positions]

ExchangeTyped ==
  /\ held \in Lots /\ cash \in 0..(Cash + MaxHeld + MaxEntry)
  /\ book \in [Ids -> Nat] /\ placed \in 0..MaxOrders
  /\ \A i \in Ids : i > placed => book[i] = 0

InboxTyped == inbox \in Seq(Message) /\ Len(inbox) <= MaxInbox

StoreTyped == position \in Positions /\ orders \in [Keys -> Nat] /\ residue \in BOOLEAN

RunsTyped == rc \in [Reconcilers -> RunShape]

RacedTyped == raced \in [Actors -> BOOLEAN]

\* Shares are only exchanged for money, and one entry is made.
Money ==
  /\ held + cash <= Cash + MaxHeld
  /\ worker.pc \in {"idle", "entering"} => held <= MaxHeld

\* What may still be sold.
Room == held - Exits

\* The shares of the entry are held and no open sell is for them.
WorkerFits ==
  worker.pc \in {"entered", "selling"} /\ ~raced["worker"] => worker.size <= Room

\* The answers a run has are those the exchange would give now, or an entry
\* has bought more since.
AnswersTrue ==
  \A r \in Reconcilers : rc[r].pc = "refreshing" /\ ~raced[r] =>
    /\ rc[r].failed = {}
    /\ "positions" \notin rc[r].left => rc[r].positions <= held
    /\ "orders" \notin rc[r].left => rc[r].orders = book

\* What a run has decided to sell may still be sold.
RunsFit ==
  \A r \in Reconcilers : rc[r].pc \in {"cancelling", "selling"} /\ ~raced[r] =>
    (rc[r].sell = 0 \/ rc[r].sell <= Room)

IInv ==
  /\ ExchangeTyped
  /\ InboxTyped
  /\ StoreTyped
  /\ worker \in WorkerShape
  /\ RunsTyped
  /\ RacedTyped
  /\ Money
  /\ WorkerFits
  /\ AnswersTrue
  /\ RunsFit

--------------------------------------------------------------------------------
(* Exits: the orders of the store. *)

LEMMA IdsFinite == IsFiniteSet(Ids)
BY CoverageAssumption, FS_Interval DEF Ids

\* The store of one who has just asked holds what the exchange holds.
LEMMA SumListed ==
  ASSUME NEW f \in [Ids -> Nat]
  PROVE  Sum([k \in Keys |-> IF k[1] = "exchange" THEN f[k[2]] ELSE 0]) = Sum(f)
<1> DEFINE g == [k \in Keys |-> IF k[1] = "exchange" THEN f[k[2]] ELSE 0]
           h == [q \in Open(f) |-> <<<<"exchange", q[1]>>, q[2]>>]
<1>1. Open(f) = UNION {{i} \X (1 .. f[i]) : i \in Ids}
  BY DEF Open
<1>2. \A q : q \in Open(f) <=> \E i \in Ids : \E n \in 1 .. f[i] : q = <<i, n>>
  BY <1>1
<1>3. Open(g) = UNION {{k} \X (1 .. g[k]) : k \in Keys}
  BY DEF Open
<1>4. \A q : q \in Open(g) <=> \E k \in Keys : \E n \in 1 .. g[k] : q = <<k, n>>
  <2> HIDE DEF g
  <2>1. QED
    BY <1>3
<1>5. \A q : q \in Open(g) <=> \E i \in Ids : \E n \in 1 .. f[i] : q = <<<<"exchange", i>>, n>>
  <2>1. ASSUME NEW k \in Keys, NEW n \in 1 .. g[k]
        PROVE  \E i \in Ids : n \in 1 .. f[i] /\ k = <<"exchange", i>>
    <3>1. k[1] \in {"exchange", "intent"} /\ k[2] \in Ids /\ k = <<k[1], k[2]>>
      BY DEF Keys
    <3>2. CASE k[1] = "exchange"
      <4>1. g[k] = f[k[2]]
        BY <3>2
      <4>2. k = <<"exchange", k[2]>>
        BY <3>1, <3>2
      <4>3. QED
        BY <3>1, <4>1, <4>2
    <3>3. CASE k[1] # "exchange"
      BY <3>3
    <3>4. QED
      BY <3>2, <3>3
  <2>2. ASSUME NEW i \in Ids, NEW n \in 1 .. f[i]
        PROVE  <<"exchange", i>> \in Keys /\ n \in 1 .. g[<<"exchange", i>>]
    BY DEF Keys
  <2> HIDE DEF g
  <2>3. QED
    BY <1>4, <2>1, <2>2
<1>6. h \in Bijection(Open(f), Open(g))
  <2> HIDE DEF g
  <2>1. h \in [Open(f) -> Open(g)]
    BY <1>2, <1>5
  <2>2. \A q \in Open(g) : \E p \in Open(f) : h[p] = q
    <3>1. ASSUME NEW q \in Open(g)
          PROVE  \E p \in Open(f) : h[p] = q
      <4>1. PICK i \in Ids : \E n \in 1 .. f[i] : q = <<<<"exchange", i>>, n>>
        BY <1>5
      <4>2. PICK n \in 1 .. f[i] : q = <<<<"exchange", i>>, n>>
        BY <4>1
      <4>3. <<i, n>> \in Open(f)
        BY <1>2
      <4>4. h[<<i, n>>] = q
        BY <4>2, <4>3
      <4>5. QED
        BY <4>3, <4>4
    <3>2. QED
      BY <3>1
  <2>3. ASSUME NEW p \in Open(f), NEW q \in Open(f), h[p] = h[q]
        PROVE  p = q
    <3>1. PICK i \in Ids : \E n \in 1 .. f[i] : p = <<i, n>>
      BY <1>2
    <3>2. PICK n \in 1 .. f[i] : p = <<i, n>>
      BY <3>1
    <3>3. PICK j \in Ids : \E m \in 1 .. f[j] : q = <<j, m>>
      BY <1>2
    <3>4. PICK m \in 1 .. f[j] : q = <<j, m>>
      BY <3>3
    <3>5. h[p] = <<<<"exchange", i>>, n>> /\ h[q] = <<<<"exchange", j>>, m>>
      BY <3>2, <3>4
    <3>6. QED
      BY <2>3, <3>2, <3>4, <3>5
  <2> HIDE DEF h
  <2>4. QED
    BY <2>1, <2>2, <2>3 DEF Bijection, Injection, Surjection, IsInjective
<1>7. ExistsBijection(Open(f), Open(g))
  <2> HIDE DEF g, h
  <2>1. QED
    BY <1>6 DEF ExistsBijection
<1>8. IsFiniteSet(Open(f)) /\ Sum(f) = Cardinality(Open(f))
  BY IdsFinite, SumFinite
<1>9. Cardinality(Open(g)) = Cardinality(Open(f))
  <2> HIDE DEF g
  <2>1. QED
    BY <1>7, <1>8, FS_Bijection
<1>10. Sum(g) = Cardinality(Open(g))
  BY DEF Sum, Open
<1> HIDE DEF g
<1>11. Sum(g) = Sum(f)
  BY <1>8, <1>9, <1>10
<1>12. QED
  BY <1>11 DEF g

\* Also when it holds orders that are stored twice.
LEMMA KeysFinite == IsFiniteSet(Keys)
<1>1. IsFiniteSet({"exchange", "intent"})
  <2>1. IsFiniteSet({"exchange"} \cup {"intent"})
    BY FS_Singleton, FS_Union
  <2>2. {"exchange"} \cup {"intent"} = {"exchange", "intent"}
    OBVIOUS
  <2>3. QED
    BY <2>1, <2>2
<1>2. QED
  BY <1>1, IdsFinite, FS_Product DEF Keys

--------------------------------------------------------------------------------
(* Exits: what the steps have in common. *)

LEMMA TypeCorrect == IInv => TypeOK
BY DEF IInv, TypeOK, ExchangeTyped, InboxTyped, StoreTyped, RunsTyped, RacedTyped,
       WorkerShape, RunShape, Positions

LEMMA ExitsNat ==
  ASSUME ExchangeTyped
  PROVE  Exits \in Nat /\ held \in Nat /\ cash \in Nat
<1>1. Sum(book) \in Nat
  BY IdsFinite, SumFinite DEF ExchangeTyped
<1>2. QED
  BY <1>1, CoverageAssumption DEF ExchangeTyped, Exits, Lots

\* An order of the exchange that changes changes the open sells by as much.
LEMMA ExitsUpdate ==
  ASSUME ExchangeTyped, NEW i \in Ids, NEW v \in Nat,
         book' = [book EXCEPT ![i] = v]
  PROVE  book' \in [Ids -> Nat] /\ Exits' = Exits - book[i] + v
<1>1. book \in [Ids -> Nat]
  BY DEF ExchangeTyped
<1>2. Sum([book EXCEPT ![i] = v]) = Sum(book) - book[i] + v
  BY <1>1, IdsFinite, SumUpdate
<1>3. QED
  BY <1>1, <1>2 DEF Exits

\* What is lost of some messages leaves messages.
LEMMA Reported ==
  ASSUME InboxTyped, NEW messages \in Seq(Message), Report(messages)
  PROVE  InboxTyped'
<1>1. PICK kept \in {<<>>, messages} \union {<<messages[i]>> : i \in DOMAIN messages} :
        Len(inbox) + Len(kept) <= MaxInbox /\ inbox' = inbox \o kept
  BY DEF Report
<1>2. kept \in Seq(Message)
  <2>1. CASE kept \in {<<>>, messages}
    <3>1. <<>> \in Seq(Message)
      OBVIOUS
    <3>2. QED
      BY <2>1, <3>1
  <2>2. CASE \E i \in DOMAIN messages : kept = <<messages[i]>>
    <3>1. PICK i \in DOMAIN messages : kept = <<messages[i]>>
      BY <2>2
    <3>2. messages[i] \in Message
      BY ElementOfSeq
    <3>3. QED
      BY <3>1, <3>2
  <2>3. QED
    BY <1>1, <2>1, <2>2
<1>3. inbox \in Seq(Message)
  BY DEF InboxTyped
<1>4. inbox \o kept \in Seq(Message) /\ Len(inbox \o kept) = Len(inbox) + Len(kept)
  BY <1>2, <1>3, ConcatProperties
<1>5. QED
  BY <1>1, <1>4 DEF InboxTyped

LEMMA MessagesTyped ==
  ASSUME NEW side \in {"buy", "sell"}, NEW id \in 0..MaxOrders, NEW size \in Nat
  PROVE  Trade(side, id, size) \in Message /\ OrderUpdate(id, size) \in Message
BY CoverageAssumption DEF Trade, OrderUpdate, Message

LEMMA FillReported ==
  ASSUME InboxTyped, NEW id \in 0..MaxOrders, NEW size \in Nat, NEW rest \in Nat,
         ReportFill(id, size, rest)
  PROVE  InboxTyped'
<1>1. Trade("sell", id, size) \in Message /\ OrderUpdate(id, rest) \in Message
  BY MessagesTyped
<1>2. /\ <<Trade("sell", id, size), OrderUpdate(id, rest)>> \in Seq(Message)
      /\ <<OrderUpdate(id, rest), Trade("sell", id, size)>> \in Seq(Message)
  BY <1>1
<1>3. QED
  BY <1>2, Reported DEF ReportFill

\* While the exchange holds still, what anybody may count on stays true.
LEMMA ExchangeStill ==
  ASSUME IInv, UNCHANGED exchange
  PROVE  ExchangeTyped' /\ Room' = Room /\ Surplus' = Surplus
BY DEF IInv, ExchangeTyped, exchange, Room, Surplus, Exits, Lots, Ids

\* Neither the store nor the user channel matters to the actors.
LEMMA ActorsStill ==
  ASSUME IInv, UNCHANGED <<exchange, worker, rc, raced>>
  PROVE  /\ worker' \in WorkerShape /\ RunsTyped' /\ RacedTyped' /\ Money'
         /\ WorkerFits' /\ AnswersTrue' /\ RunsFit'
<1>1. Room' = Room
  BY ExchangeStill
<1>2. QED
  BY <1>1 DEF IInv, exchange, RunsTyped, RacedTyped, Money, WorkerFits, AnswersTrue, RunsFit

\* A sell that reaches the exchange within the room leaves no surplus.  Whoever
\* looks on counts on nothing any more, unless it was refused.
LEMMA SellReached ==
  ASSUME IInv, NEW actor \in Actors, NEW size \in Nat, NEW told \in Told,
         SellReaches(actor, size, told)
  PROVE  /\ ExchangeTyped' /\ InboxTyped' /\ RacedTyped'
         /\ held' + cash' = held + cash /\ held' <= held
         /\ told = "refused" => Room' = Room /\ held' = held /\ book' = book
         /\ (size <= Room => Surplus' = 0) /\ (size = 0 => Surplus' = Surplus)
         /\ \A a \in Actors : raced'[a] <=>
              (a # actor /\ Looking(a) /\ (raced[a] \/ told # "refused"))
<1>1. ExchangeTyped /\ InboxTyped /\ Exits \in Nat /\ held \in Nat /\ cash \in Nat
  BY ExitsNat DEF IInv
<1>2. RacedTyped' /\ \A a \in Actors : raced'[a] <=>
              (a # actor /\ Looking(a) /\ (raced[a] \/ told # "refused"))
  <2>1. raced' = [a \in Actors |-> a # actor /\ Looking(a) /\ (raced[a] \/ told # "refused")]
    BY DEF SellReaches
  <2>2. QED
    BY <2>1, Zenon DEF RacedTyped
<1>3. CASE told = "refused"
  <2>1. UNCHANGED <<held, cash, book, inbox, placed>>
    BY <1>3 DEF SellReaches
  <2>2. Room' = Room /\ Exits' = Exits
    BY <2>1 DEF Room, Exits
  <2>3. ExchangeTyped' /\ InboxTyped'
    BY <1>1, <2>1 DEF ExchangeTyped, InboxTyped, Lots
  <2>4. (size <= Room => Surplus' = 0) /\ (size = 0 => Surplus' = Surplus)
    BY <1>1, <2>1, <2>2 DEF Room, Surplus
  <2>5. held' + cash' = held + cash /\ held' <= held
    BY <1>1, <2>1
  <2>6. QED
    BY <1>2, <2>1, <2>2, <2>3, <2>4, <2>5
<1>4. CASE told \in {"live", "filled"}
  <2>1. placed < MaxOrders /\ size <= held /\ placed' = placed + 1
    BY <1>4 DEF SellReaches
  <2>2. placed' \in Ids /\ placed' \in 0..MaxOrders /\ placed \in Nat
    BY <1>1, <2>1, CoverageAssumption DEF ExchangeTyped, Ids
  <2>3. CASE told = "live"
    <3>1. /\ book' = [book EXCEPT ![placed + 1] = size]
          /\ Report(<<OrderUpdate(placed + 1, size)>>)
          /\ UNCHANGED <<held, cash>>
      BY <2>3 DEF SellReaches
    <3>2. book[placed + 1] = 0
      BY <1>1, <2>1, <2>2 DEF ExchangeTyped
    <3>3. book' \in [Ids -> Nat] /\ Exits' = Exits + size
      <4>1. book' \in [Ids -> Nat] /\ Exits' = Exits - book[placed + 1] + size
        BY <1>1, <2>1, <2>2, <3>1, ExitsUpdate
      <4>2. QED
        BY <1>1, <3>2, <4>1
    <3>4. InboxTyped'
      <4>1. OrderUpdate(placed + 1, size) \in Message
        BY <2>1, <2>2, MessagesTyped
      <4>2. <<OrderUpdate(placed + 1, size)>> \in Seq(Message)
        BY <4>1
      <4>3. QED
        BY <1>1, <3>1, <4>2, Reported
    <3>5. \A i \in Ids : i > placed' => book'[i] = 0
      BY <1>1, <2>1, <2>2, <3>1 DEF ExchangeTyped, Ids
    <3>6. ExchangeTyped'
      BY <1>1, <2>2, <3>1, <3>3, <3>5 DEF ExchangeTyped, Lots
    <3>7. (size <= Room => Surplus' = 0) /\ (size = 0 => Surplus' = Surplus)
      BY <1>1, <3>1, <3>3 DEF Room, Surplus
    <3>8. held' + cash' = held + cash /\ held' <= held
      BY <1>1, <3>1
    <3>9. QED
      BY <1>2, <2>3, <3>4, <3>6, <3>7, <3>8
  <2>4. CASE told = "filled"
    <3>1. /\ held' = held - size
          /\ cash' = cash + size
          /\ ReportFill(placed + 1, size, 0)
          /\ book' = book
      BY <2>4 DEF SellReaches
    <3>2. Exits' = Exits
      BY <3>1 DEF Exits
    <3>3. InboxTyped'
      BY <1>1, <2>1, <2>2, <3>1, FillReported
    <3>4. ExchangeTyped'
      <4>1. held + cash <= Cash + MaxHeld /\ Cash \in Nat /\ MaxHeld \in Nat /\ MaxEntry \in Nat
        BY CoverageAssumption DEF IInv, Money
      <4>2. held' \in Lots /\ cash' \in 0..(Cash + MaxHeld + MaxEntry)
        BY <1>1, <2>1, <3>1, <4>1 DEF ExchangeTyped, Lots
      <4>3. QED
        BY <1>1, <2>1, <2>2, <3>1, <4>2 DEF ExchangeTyped, Ids
    <3>5. (size <= Room => Surplus' = 0) /\ (size = 0 => Surplus' = Surplus)
      BY <1>1, <3>1, <3>2 DEF Room, Surplus
    <3>6. held' + cash' = held + cash /\ held' <= held
      BY <1>1, <3>1
    <3>7. QED
      BY <1>2, <2>4, <3>3, <3>4, <3>5, <3>6
  <2>5. QED
    BY <1>4, <2>3, <2>4
<1>5. QED
  BY <1>3, <1>4 DEF Told

--------------------------------------------------------------------------------
(* Exits: the exchange and the channel. *)

LEMMA InitIInv == Init => IInv
<1> SUFFICES ASSUME Init PROVE IInv
  OBVIOUS
<1>1. ExchangeTyped /\ Money
  BY CoverageAssumption DEF Init, ExchangeTyped, Money, Lots, NoEntry
<1>2. InboxTyped /\ StoreTyped /\ RacedTyped
  <2>1. <<>> \in Seq(Message) /\ Len(<<>>) = 0 /\ 0 <= MaxInbox
    BY CoverageAssumption
  <2>2. InboxTyped
    BY <2>1 DEF Init, InboxTyped
  <2>3. StoreTyped
    BY DEF Init, StoreTyped, Positions
  <2>4. RacedTyped
    BY DEF Init, RacedTyped
  <2>5. QED
    BY <2>2, <2>3, <2>4
<1>3. worker \in WorkerShape /\ WorkerFits
  BY CoverageAssumption DEF Init, NoEntry, WorkerShape, WorkerFits, Positions
<1>4. NoRun \in RunShape /\ NoRun.pc = "idle"
  BY CoverageAssumption DEF NoRun, RunShape, Positions
<1>5. RunsTyped /\ AnswersTrue /\ RunsFit
  BY <1>4 DEF Init, RunsTyped, AnswersTrue, RunsFit
<1>6. QED
  BY <1>1, <1>2, <1>3, <1>5 DEF IInv

\* A fill takes as many shares from the wallet as from the open sells; who is
\* being answered cannot count on the answers.
LEMMA SellFillsStep ==
  ASSUME IInv, NEW id \in Ids, SellFills(id)
  PROVE  IInv' /\ Surplus' = Surplus
<1>1. PICK n \in 1..book[id] :
        /\ n <= held
        /\ held' = held - n
        /\ cash' = cash + n
        /\ book' = [book EXCEPT ![id] = @ - n]
        /\ ReportFill(id, n, book[id] - n)
  BY DEF SellFills
<1>2. /\ raced' = [a \in Actors |->
                     raced[a] \/ (a \in Reconcilers /\ rc[a].pc = "refreshing")]
      /\ UNCHANGED <<placed, store, worker, rc>>
  BY DEF SellFills
<1>3. /\ ExchangeTyped /\ InboxTyped /\ RacedTyped /\ Money
      /\ Exits \in Nat /\ held \in Nat /\ cash \in Nat
  BY ExitsNat DEF IInv
<1>4. book[id] \in Nat /\ n \in Nat /\ n <= book[id] /\ book[id] - n \in Nat
      /\ id \in 0..MaxOrders
  BY <1>3, CoverageAssumption DEF ExchangeTyped, Ids
<1>5. book' \in [Ids -> Nat] /\ Exits' = Exits - n
  <2>1. book' = [book EXCEPT ![id] = book[id] - n]
    BY <1>1
  <2>2. book' \in [Ids -> Nat] /\ Exits' = Exits - book[id] + (book[id] - n)
    BY <1>3, <1>4, <2>1, ExitsUpdate
  <2>3. QED
    BY <1>3, <1>4, <2>2
<1>6. Room' = Room /\ Surplus' = Surplus
  <2>1. Exits' \in Int /\ held' \in Int
    BY <1>1, <1>3, <1>4, <1>5
  <2>2. QED
    BY <1>1, <1>3, <1>4, <1>5, <2>1 DEF Room, Surplus
<1>7. ExchangeTyped' /\ Money'
  <2>1. held' \in Lots /\ cash' \in 0..(Cash + MaxHeld + MaxEntry) /\ Money'
    BY <1>1, <1>2, <1>3, <1>4, CoverageAssumption DEF ExchangeTyped, Money, Lots
  <2>2. \A i \in Ids : i > placed' => book'[i] = 0
    BY <1>1, <1>2, <1>3, <1>4 DEF ExchangeTyped
  <2>3. QED
    BY <1>2, <1>3, <1>5, <2>1, <2>2 DEF ExchangeTyped
<1>8. InboxTyped'
  BY <1>1, <1>3, <1>4, FillReported
<1>9. RacedTyped' /\ \A a \in Actors : ~raced'[a] =>
        ~raced[a] /\ ~(a \in Reconcilers /\ rc[a].pc = "refreshing")
  BY <1>2, <1>3, Zenon DEF RacedTyped
<1>10. WorkerFits' /\ AnswersTrue' /\ RunsFit'
  BY <1>2, <1>6, <1>9 DEF IInv, WorkerFits, AnswersTrue, RunsFit, Actors
<1>11. StoreTyped' /\ worker' \in WorkerShape /\ RunsTyped'
  BY <1>2 DEF IInv, StoreTyped, RunsTyped, store
<1>12. QED
  BY <1>6, <1>7, <1>8, <1>9, <1>10, <1>11 DEF IInv

LEMMA StreamLostStep ==
  ASSUME IInv, StreamLost
  PROVE  IInv' /\ Surplus' = Surplus
<1>1. UNCHANGED <<exchange, worker, rc, raced>> /\ UNCHANGED store /\ inbox' = <<>>
  BY DEF StreamLost
<1>2. InboxTyped'
  BY <1>1, CoverageAssumption DEF InboxTyped
<1>3. StoreTyped'
  BY <1>1 DEF IInv, StoreTyped, store
<1>4. QED
  BY <1>1, <1>2, <1>3, ExchangeStill, ActorsStill DEF IInv

\* The user websocket moves the store only.
LEMMA MessageProcessedStep ==
  ASSUME IInv, MessageProcessed
  PROVE  IInv' /\ Surplus' = Surplus
<1> DEFINE m == Head(inbox)
<1>1. /\ inbox # <<>>
      /\ UNCHANGED <<exchange, worker, rc, raced>>
      /\ IF m.kind = "order" THEN OrderSeen(m) ELSE TradeSeen(m)
      /\ inbox' = IF m.times = 1 THEN Tail(inbox)
                  ELSE <<[m EXCEPT !.times = @ - 1]>> \o Tail(inbox)
  BY DEF MessageProcessed
<1>2. inbox \in Seq(Message) /\ Len(inbox) <= MaxInbox
  BY DEF IInv, InboxTyped
<1>3. m \in Message /\ Tail(inbox) \in Seq(Message) /\ Len(Tail(inbox)) = Len(inbox) - 1
  BY <1>1, <1>2, HeadTailProperties
<1> HIDE DEF m
<1>4. InboxTyped'
  <2>1. CASE m.times = 1
    BY <1>1, <1>2, <1>3, <2>1, CoverageAssumption DEF InboxTyped
  <2>2. CASE m.times # 1
    <3> DEFINE again == [m EXCEPT !.times = @ - 1]
    <3>1. again \in Message
      <4>1. m.times - 1 \in 1..MaxReports
        <5>1. m.times \in 1..MaxReports
          BY <1>3 DEF Message
        <5>2. MaxReports \in Nat
          BY CoverageAssumption
        <5>3. QED
          BY <2>2, <5>1, <5>2
      <4>2. again = [m EXCEPT !.times = m.times - 1]
        OBVIOUS
      <4> HIDE DEF again
      <4>3. QED
        BY <1>3, <4>1, <4>2 DEF Message
    <3> HIDE DEF again
    <3>2. <<again>> \in Seq(Message) /\ Len(<<again>>) = 1
      BY <3>1
    <3>3. /\ <<again>> \o Tail(inbox) \in Seq(Message)
          /\ Len(<<again>> \o Tail(inbox)) = Len(<<again>>) + Len(Tail(inbox))
      BY <1>3, <3>2, ConcatProperties
    <3>4. inbox' = <<again>> \o Tail(inbox)
      BY <1>1, <2>2 DEF again
    <3>5. Len(inbox') = Len(inbox)
      BY <1>2, <1>3, <3>2, <3>3, <3>4, LenProperties
    <3>6. QED
      BY <1>2, <3>3, <3>4, <3>5 DEF InboxTyped
  <2>3. QED
    BY <2>1, <2>2
<1>5. StoreTyped'
  <2>1. m.size \in Nat /\ Shares(position) \in Nat /\ position \in Positions
        /\ orders \in [Keys -> Nat] /\ residue \in BOOLEAN
    BY <1>3 DEF Message, Shares, IInv, StoreTyped, Positions, Absent
  <2>2. position' \in Positions /\ residue' \in BOOLEAN
    <3>1. CASE m.kind = "order"
      BY <1>1, <2>1, <3>1 DEF OrderSeen
    <3>2. CASE m.kind # "order" /\ m.side = "buy"
      <4>1. position' = Shares(position) + m.size /\ residue' = TRUE
        BY <1>1, <3>2 DEF TradeSeen
      <4>2. QED
        BY <2>1, <4>1 DEF Positions
    <3>3. CASE m.kind # "order" /\ m.side # "buy"
      <4>1. /\ position' = IF Shares(position) > m.size THEN Shares(position) - m.size ELSE 0
            /\ residue' = residue
        BY <1>1, <3>3 DEF TradeSeen
      <4>2. QED
        BY <2>1, <4>1 DEF Positions
    <3>4. QED
      BY <3>1, <3>2, <3>3
  <2>3. orders' \in [Keys -> Nat]
    BY <1>1, <2>1 DEF OrderSeen, TradeSeen
  <2>4. QED
    BY <2>2, <2>3 DEF StoreTyped
<1>6. QED
  BY <1>1, <1>4, <1>5, ExchangeStill, ActorsStill DEF IInv

--------------------------------------------------------------------------------
(* Exits: the worker. *)

\* A step of the worker that nobody else sees.
LEMMA WorkerAlone ==
  ASSUME IInv, UNCHANGED <<exchange, inbox, rc, raced>>, worker' \in WorkerShape,
         worker'.pc \in {"idle", "entering"} => worker.pc \in {"idle", "entering"},
         worker'.pc \in {"entered", "selling"} =>
           worker.pc \in {"entered", "selling"} /\ worker'.size = worker.size,
         StoreTyped'
  PROVE  IInv' /\ Surplus' = Surplus
<1>1. ExchangeTyped' /\ Room' = Room /\ Surplus' = Surplus
  BY ExchangeStill
<1>2. InboxTyped' /\ RunsTyped' /\ RacedTyped' /\ AnswersTrue' /\ RunsFit' /\ Money'
  BY <1>1 DEF IInv, InboxTyped, RunsTyped, RacedTyped, AnswersTrue, RunsFit, Money, exchange
<1>3. WorkerFits'
  BY <1>1 DEF IInv, WorkerFits
<1>4. QED
  BY <1>1, <1>2, <1>3 DEF IInv

LEMMA EntrySentStep ==
  ASSUME IInv, NEW n \in 1..MaxEntry, EntrySent(n)
  PROVE  IInv' /\ Surplus' = Surplus
<1>1. /\ worker.pc = "idle"
      /\ worker' = [worker EXCEPT !.pc = "entering", !.size = n, !.position = position]
      /\ UNCHANGED <<exchange, inbox, store, rc, raced>>
  BY DEF EntrySent
<1>2. worker' \in WorkerShape /\ worker'.pc = "entering"
  <2>1. n \in 0..MaxEntry /\ position \in Positions
    BY CoverageAssumption DEF IInv, StoreTyped
  <2>2. worker \in WorkerShape
    BY DEF IInv
  <2>3. QED
    BY <1>1, <2>1, <2>2 DEF WorkerShape
<1>3. StoreTyped'
  BY <1>1 DEF IInv, StoreTyped, store
<1>4. QED
  BY <1>1, <1>2, <1>3, WorkerAlone

\* The entry adds to the shares held.
LEMMA EntryFillsStep ==
  ASSUME IInv, NEW n \in 0..MaxEntry, EntryFills(n)
  PROVE  IInv' /\ ~(Surplus' > Surplus)
<1>1. /\ worker.pc = "entering"
      /\ n <= worker.size /\ n <= cash
      /\ held' = held + n
      /\ cash' = cash - n
      /\ worker' = [worker EXCEPT !.pc = "entered", !.size = n]
      /\ raced' = [raced EXCEPT !["worker"] = Surplus > 0]
      /\ UNCHANGED <<book, placed, store, rc>>
  BY DEF EntryFills
<1>2. IF n = 0 THEN UNCHANGED inbox ELSE Report(<<Trade("buy", 0, n)>>)
  BY DEF EntryFills
<1>3. /\ ExchangeTyped /\ InboxTyped /\ RacedTyped /\ Money
      /\ Exits \in Nat /\ held \in Nat /\ cash \in Nat /\ n \in Nat
  BY ExitsNat, CoverageAssumption DEF IInv
<1>4. Exits' = Exits
  BY <1>1 DEF Exits
<1>5. Room' = Room + n /\ ~(Surplus' > Surplus)
  BY <1>1, <1>3, <1>4 DEF Room, Surplus
<1>6. ExchangeTyped'
  <2>1. held' \in Lots /\ cash' \in 0..(Cash + MaxHeld + MaxEntry)
    BY <1>1, <1>3, CoverageAssumption DEF ExchangeTyped, Money, Lots
  <2>2. QED
    BY <1>1, <1>3, <2>1 DEF ExchangeTyped, Ids
<1>7. InboxTyped'
  <2>1. CASE n = 0
    BY <1>2, <1>3, <2>1 DEF InboxTyped
  <2>2. CASE n # 0
    <3>1. 0 \in 0..MaxOrders
      BY CoverageAssumption
    <3>2. Trade("buy", 0, n) \in Message
      BY <1>3, <3>1, MessagesTyped
    <3>3. <<Trade("buy", 0, n)>> \in Seq(Message)
      BY <3>2
    <3>4. QED
      BY <1>2, <1>3, <2>2, <3>3, Reported
  <2>3. QED
    BY <2>1, <2>2
<1>8. worker' \in WorkerShape /\ worker'.pc = "entered" /\ worker'.size = n
  BY <1>1 DEF IInv, WorkerShape
<1>9. /\ RacedTyped' /\ raced'["worker"] = (Surplus > 0)
      /\ \A r \in Reconcilers : raced'[r] = raced[r]
  BY <1>1, <1>3, CoverageAssumption DEF RacedTyped, Actors
<1>10. Money'
  BY <1>1, <1>3, <1>8 DEF Money
<1>11. WorkerFits'
  <2>1. ~(Surplus > 0) => 0 <= Room
    BY <1>3 DEF Surplus, Room
  <2>2. Room \in Int
    BY <1>3 DEF Room
  <2>3. ~(Surplus > 0) => n <= Room'
    BY <1>3, <1>5, <2>1, <2>2
  <2>4. QED
    BY <1>8, <1>9, <2>3, Zenon DEF WorkerFits
<1>12. AnswersTrue'
  <2>1. ASSUME NEW r \in Reconcilers, rc[r].pc = "refreshing", ~raced[r]
        PROVE  /\ rc[r].failed = {}
               /\ "positions" \notin rc[r].left => rc[r].positions <= held'
               /\ "orders" \notin rc[r].left => rc[r].orders = book'
    <3>1. rc[r].positions \in Nat
      BY DEF IInv, RunsTyped, RunShape
    <3>2. QED
      BY <1>1, <1>3, <2>1, <3>1 DEF IInv, AnswersTrue
  <2>2. QED
    BY <1>1, <1>9, <2>1 DEF AnswersTrue
<1>13. RunsFit'
  <2>1. ASSUME NEW r \in Reconcilers, rc[r].pc \in {"cancelling", "selling"}, ~raced[r]
        PROVE  rc[r].sell = 0 \/ rc[r].sell <= Room'
    <3>1. rc[r].sell \in Nat /\ Room \in Int
      BY <1>3 DEF IInv, RunsTyped, RunShape, Room
    <3>2. QED
      BY <1>3, <1>5, <2>1, <3>1 DEF IInv, RunsFit
  <2>2. QED
    BY <1>1, <1>9, <2>1 DEF RunsFit
<1>14. StoreTyped' /\ RunsTyped'
  BY <1>1 DEF IInv, StoreTyped, RunsTyped, store
<1>15. QED
  BY <1>5, <1>6, <1>7, <1>8, <1>9, <1>10, <1>11, <1>12, <1>13, <1>14 DEF IInv

LEMMA NoneTyped == NoEntry \in WorkerShape /\ [NoEntry EXCEPT !.pc = "done"] \in WorkerShape
                   /\ NoRun \in RunShape /\ NoRun.pc = "idle"
BY CoverageAssumption DEF NoEntry, NoRun, WorkerShape, RunShape, Positions

LEMMA EntryUnknownStep ==
  ASSUME IInv, EntryUnknown
  PROVE  IInv' /\ Surplus' = Surplus
<1>1. /\ worker' = [NoEntry EXCEPT !.pc = "done"]
      /\ UNCHANGED <<exchange, inbox, store, rc, raced>>
  BY DEF EntryUnknown
<1>2. worker' \in WorkerShape /\ worker'.pc = "done"
  BY <1>1, NoneTyped DEF NoEntry
<1>3. StoreTyped'
  BY <1>1 DEF IInv, StoreTyped, store
<1>4. QED
  BY <1>1, <1>2, <1>3, WorkerAlone

LEMMA EntryAnsweredStep ==
  ASSUME IInv, EntryAnswered
  PROVE  IInv' /\ Surplus' = Surplus
<1>1. /\ worker.pc = "entered"
      /\ Bought(worker.size)
      /\ worker' = IF worker.size > 0 /\ RiskPasses(worker.size)
                   THEN [worker EXCEPT !.pc = "selling"]
                   ELSE [NoEntry EXCEPT !.pc = "done"]
      /\ UNCHANGED <<exchange, inbox, orders, residue, rc, raced>>
  BY DEF EntryAnswered
<1>2. worker \in WorkerShape /\ StoreTyped
  BY DEF IInv
<1>3. /\ worker' \in WorkerShape
      /\ worker'.pc \in {"selling", "done"}
      /\ worker'.pc = "selling" => worker'.size = worker.size
  <2>1. CASE worker' = [worker EXCEPT !.pc = "selling"]
    BY <1>2, <2>1 DEF WorkerShape
  <2>2. CASE worker' = [NoEntry EXCEPT !.pc = "done"]
    BY <2>2, NoneTyped DEF NoEntry
  <2>3. QED
    BY <1>1, <2>1, <2>2
<1>4. StoreTyped'
  <2>1. worker.size \in Nat /\ worker.position \in Positions /\ position \in Positions
    BY <1>2, CoverageAssumption DEF WorkerShape, StoreTyped
  <2>2. Shares(worker.position) + worker.size \in Nat
    BY <2>1 DEF Shares, Positions, Absent
  <2>3. position' \in Positions
    BY <1>1, <2>1, <2>2 DEF Bought, Positions
  <2>4. QED
    BY <1>1, <1>2, <2>3 DEF StoreTyped
<1>5. QED
  BY <1>1, <1>3, <1>4, WorkerAlone

\* The runs that look on while a sell of the worker is taken are raced.
LEMMA FollowUpSentStep ==
  ASSUME IInv, NEW told \in Told, NEW heard \in BOOLEAN, FollowUpSent(told, heard)
  PROVE  IInv' /\ (~raced["worker"] => Surplus' = 0)
<1>1. /\ worker.pc = "selling"
      /\ SellReaches("worker", worker.size, told)
      /\ worker' = IF heard /\ told # "refused"
                   THEN [worker EXCEPT !.pc = "sold", !.told = told, !.id = placed']
                   ELSE [NoEntry EXCEPT !.pc = "done"]
      /\ UNCHANGED <<store, rc>>
  BY DEF FollowUpSent
<1>2. "worker" \in Actors /\ worker.size \in Nat /\ worker \in WorkerShape
  BY CoverageAssumption DEF Actors, IInv, WorkerShape
<1>3. /\ ExchangeTyped' /\ InboxTyped' /\ RacedTyped'
      /\ held' + cash' = held + cash /\ held' <= held
      /\ told = "refused" => Room' = Room /\ held' = held /\ book' = book
      /\ worker.size <= Room => Surplus' = 0
      /\ \A a \in Actors : raced'[a] <=>
           (a # "worker" /\ Looking(a) /\ (raced[a] \/ told # "refused"))
  BY <1>1, <1>2, SellReached
<1>4. worker' \in WorkerShape /\ worker'.pc \in {"sold", "done"}
  <2>1. placed' \in 0..MaxOrders
    BY <1>3 DEF ExchangeTyped
  <2>2. CASE worker' = [worker EXCEPT !.pc = "sold", !.told = told, !.id = placed']
    BY <1>2, <2>1, <2>2 DEF WorkerShape
  <2>3. CASE worker' = [NoEntry EXCEPT !.pc = "done"]
    BY <2>3, NoneTyped DEF NoEntry
  <2>4. QED
    BY <1>1, <2>2, <2>3
<1>5. Money' /\ WorkerFits'
  BY <1>3, <1>4 DEF IInv, Money, WorkerFits
<1>6. \A r \in Reconcilers :
        rc[r].pc \in {"refreshing", "cancelling", "selling"} /\ ~raced'[r] =>
          ~raced[r] /\ told = "refused"
  BY <1>3, CoverageAssumption DEF Actors, Looking
<1>7. AnswersTrue' /\ RunsFit'
  BY <1>1, <1>3, <1>6 DEF IInv, AnswersTrue, RunsFit
<1>8. StoreTyped' /\ RunsTyped'
  BY <1>1 DEF IInv, StoreTyped, RunsTyped, store
<1>9. ~raced["worker"] => Surplus' = 0
  BY <1>1, <1>3 DEF IInv, WorkerFits
<1>10. QED
  BY <1>3, <1>4, <1>5, <1>7, <1>8, <1>9 DEF IInv

LEMMA FollowUpAnsweredStep ==
  ASSUME IInv, FollowUpAnswered
  PROVE  IInv' /\ Surplus' = Surplus
<1>1. /\ orders' = [orders EXCEPT ![<<"exchange", worker.id>>] =
                      IF worker.told = "live" THEN worker.size ELSE 0]
      /\ position' = IF position = Absent THEN Shares(worker.position) + worker.size
                     ELSE position
      /\ worker' = [NoEntry EXCEPT !.pc = "done"]
      /\ UNCHANGED <<exchange, inbox, residue, rc, raced>>
  BY DEF FollowUpAnswered
<1>2. worker \in WorkerShape /\ StoreTyped
  BY DEF IInv
<1>3. worker' \in WorkerShape /\ worker'.pc = "done"
  BY <1>1, NoneTyped DEF NoEntry
<1>4. StoreTyped'
  <2>1. worker.size \in Nat /\ worker.position \in Positions /\ position \in Positions
    BY <1>2, CoverageAssumption DEF WorkerShape, StoreTyped
  <2>2. Shares(worker.position) + worker.size \in Nat
    BY <2>1 DEF Shares, Positions, Absent
  <2>3. position' \in Positions
    BY <1>1, <2>1, <2>2 DEF Positions
  <2>4. orders' \in [Keys -> Nat]
    BY <1>1, <1>2, <2>1 DEF StoreTyped
  <2>5. QED
    BY <1>1, <1>2, <2>3, <2>4 DEF StoreTyped
<1>5. QED
  BY <1>1, <1>3, <1>4, WorkerAlone

--------------------------------------------------------------------------------
(* Exits: the runs of reconcile. *)

\* What a run that goes on may count on.
RunHolds(run, lookedOn) ==
  ~lookedOn =>
    /\ run.pc = "refreshing" =>
         /\ run.failed = {}
         /\ "positions" \notin run.left => run.positions <= held
         /\ "orders" \notin run.left => run.orders = book
    /\ run.pc \in {"cancelling", "selling"} => (run.sell = 0 \/ run.sell <= Room)

LEMMA RunsHold ==
  ASSUME AnswersTrue, RunsFit, NEW r \in Reconcilers
  PROVE  RunHolds(rc[r], raced[r])
BY DEF AnswersTrue, RunsFit, RunHolds

\* A step of a run that the exchange does not see.
LEMMA RunAlone ==
  ASSUME IInv, NEW r \in Reconcilers, NEW run \in RunShape, NEW x \in BOOLEAN,
         UNCHANGED <<exchange, inbox, worker>>, StoreTyped',
         rc' = [rc EXCEPT ![r] = run], raced' = [raced EXCEPT ![r] = x],
         RunHolds(run, x)
  PROVE  IInv' /\ Surplus' = Surplus
<1>1. ExchangeTyped' /\ Room' = Room /\ Surplus' = Surplus /\ UNCHANGED <<held, cash, book>>
  BY ExchangeStill DEF exchange
<1>2. RunsTyped /\ RacedTyped /\ AnswersTrue /\ RunsFit /\ WorkerFits /\ r \in Actors
      /\ r # "worker"
  BY CoverageAssumption DEF IInv, Actors
<1>3. RunsTyped' /\ rc'[r] = run /\ \A q \in Reconcilers \ {r} : rc'[q] = rc[q]
  <2> HIDE DEF RunShape
  <2>1. QED
    BY <1>2 DEF RunsTyped
<1>4. /\ RacedTyped' /\ raced'[r] = x /\ raced'["worker"] = raced["worker"]
      /\ \A q \in Reconcilers \ {r} : raced'[q] = raced[q]
  BY <1>2 DEF RacedTyped, Actors
<1>5. \A q \in Reconcilers : RunHolds(rc'[q], raced'[q])
  <2>1. \A q \in Reconcilers \ {r} : RunHolds(rc'[q], raced'[q])
    BY <1>2, <1>3, <1>4, RunsHold
  <2>2. RunHolds(rc'[r], raced'[r])
    BY <1>3, <1>4
  <2>3. QED
    BY <2>1, <2>2
<1>6. AnswersTrue' /\ RunsFit'
  BY <1>1, <1>5 DEF RunHolds, AnswersTrue, RunsFit
<1>7. WorkerFits' /\ Money' /\ InboxTyped' /\ worker' \in WorkerShape
  BY <1>1, <1>2, <1>4 DEF IInv, WorkerFits, Money, InboxTyped
<1>8. QED
  BY <1>1, <1>3, <1>4, <1>6, <1>7 DEF IInv

\* The same when only the run changes.
LEMMA RunOnly ==
  ASSUME IInv, NEW r \in Reconcilers, NEW run \in RunShape,
         UNCHANGED <<exchange, inbox, worker, raced>>, StoreTyped',
         rc' = [rc EXCEPT ![r] = run], RunHolds(run, raced[r])
  PROVE  IInv' /\ Surplus' = Surplus
<1>1. raced[r] \in BOOLEAN /\ raced' = [raced EXCEPT ![r] = raced[r]]
  BY DEF IInv, RacedTyped, Actors
<1>2. QED
  BY <1>1, RunAlone

LEMMA RunEnded ==
  ASSUME IInv, NEW r \in Reconcilers, Ended(r), UNCHANGED <<exchange, inbox, worker>>,
         StoreTyped'
  PROVE  IInv' /\ Surplus' = Surplus
<1>1. RunHolds(NoRun, FALSE)
  BY NoneTyped DEF RunHolds
<1>2. QED
  BY <1>1, NoneTyped, RunAlone DEF Ended

LEMMA ReconcileStartsStep ==
  ASSUME IInv, NEW r \in Reconcilers, ReconcileStarts(r)
  PROVE  IInv' /\ Surplus' = Surplus
<1> DEFINE run == [NoRun EXCEPT !.pc = "refreshing", !.left = Calls]
<1>1. rc' = [rc EXCEPT ![r] = run] /\ UNCHANGED <<exchange, inbox, store, worker, raced>>
  BY DEF ReconcileStarts
<1>2. /\ run \in RunShape /\ run.pc = "refreshing" /\ run.left = {"positions", "orders"}
      /\ run.failed = {}
  BY NoneTyped DEF NoRun, RunShape, Calls
<1>3. StoreTyped'
  BY <1>1 DEF IInv, StoreTyped, store
<1> HIDE DEF run
<1>4. RunHolds(run, raced[r])
  BY <1>2 DEF RunHolds
<1>5. QED
  BY <1>1, <1>2, <1>3, <1>4, RunOnly

\* An answer is what the exchange holds now.
LEMMA AuthorityAnswersStep ==
  ASSUME IInv, NEW r \in Reconcilers, NEW call \in Calls, AuthorityAnswers(r, call)
  PROVE  IInv' /\ Surplus' = Surplus
<1> DEFINE run == [rc[r] EXCEPT !.left = @ \ {call},
                                !.positions = IF call = "positions" THEN held ELSE @,
                                !.orders = IF call = "orders" THEN book ELSE @]
<1>1. rc[r] \in RunShape /\ rc \in [Reconcilers -> RunShape] /\ rc[r].pc = "refreshing"
      /\ UNCHANGED <<exchange, inbox, store, worker, raced>>
  BY DEF AuthorityAnswers, IInv, RunsTyped
<1>2. rc' = [rc EXCEPT ![r] = run]
  BY <1>1 DEF AuthorityAnswers
<1>3. held \in Nat /\ book \in [Ids -> Nat]
  BY ExitsNat DEF IInv, ExchangeTyped
<1>4. /\ run.pc = "refreshing" /\ run.left = rc[r].left \ {call}
      /\ run.failed = rc[r].failed
      /\ run.positions = IF call = "positions" THEN held ELSE rc[r].positions
      /\ run.orders = IF call = "orders" THEN book ELSE rc[r].orders
      /\ run \in RunShape
  BY <1>1, <1>3 DEF RunShape
<1>5. StoreTyped'
  BY <1>1 DEF IInv, StoreTyped, store
<1>6. RunHolds(rc[r], raced[r])
  BY RunsHold DEF IInv
<1> HIDE DEF run
<1>7. RunHolds(run, raced[r])
  BY <1>1, <1>3, <1>4, <1>6 DEF RunHolds
<1>8. QED
  BY <1>1, <1>2, <1>4, <1>5, <1>7, RunOnly

LEMMA AuthorityFailsStep ==
  ASSUME IInv, NEW r \in Reconcilers, NEW call \in Calls, AuthorityFails(r, call)
  PROVE  IInv' /\ Surplus' = Surplus
<1> DEFINE run == [rc[r] EXCEPT !.left = @ \ {call}, !.failed = @ \union {call}]
<1>1. rc[r] \in RunShape /\ rc \in [Reconcilers -> RunShape] /\ rc[r].pc = "refreshing"
      /\ UNCHANGED <<exchange, inbox, store, worker>> /\ raced' = [raced EXCEPT ![r] = TRUE]
  BY DEF AuthorityFails, IInv, RunsTyped
<1>2. rc' = [rc EXCEPT ![r] = run]
  BY <1>1 DEF AuthorityFails
<1>3. run \in RunShape
  BY <1>1 DEF RunShape
<1>4. StoreTyped'
  BY <1>1 DEF IInv, StoreTyped, store
<1> HIDE DEF run
<1>5. RunHolds(run, TRUE)
  BY DEF RunHolds
<1>6. QED
  BY <1>1, <1>2, <1>3, <1>4, <1>5, RunAlone

\* The plan of a run that nothing has happened to sells what the exchange has
\* not covered.
LEMMA RunPlansStep ==
  ASSUME IInv, NEW r \in Reconcilers, RunPlans(r)
  PROVE  IInv' /\ Surplus' = Surplus
<1> DEFINE run == rc[r]
           missing == Uncovered(position', orders')
           sell == IF missing > 0 THEN missing ELSE 0
           next == [NoRun EXCEPT !.pc = IF residue' THEN "cancelling" ELSE "selling",
                                 !.sell = sell, !.seen = position']
<1>1. /\ run.pc = "refreshing" /\ run.left = {}
      /\ Refreshed(run)
      /\ UNCHANGED <<exchange, inbox, worker>>
      /\ IF sell = 0 /\ ~residue' THEN Ended(r)
         ELSE rc' = [rc EXCEPT ![r] = next] /\ UNCHANGED raced
  BY DEF RunPlans
<1>2. run \in RunShape /\ StoreTyped
  BY DEF IInv, RunsTyped
<1>3. /\ position' = CASE "positions" \in run.failed -> position
                       [] run.positions = 0          -> Absent
                       [] OTHER                      -> run.positions
      /\ orders' = IF "orders" \in run.failed THEN orders
                   ELSE [k \in Keys |-> IF k[1] = "exchange" THEN run.orders[k[2]] ELSE 0]
      /\ residue' = (residue /\ "orders" \in run.failed)
  BY <1>1 DEF Refreshed
<1>4. run.positions \in Nat /\ run.orders \in [Ids -> Nat]
  BY <1>2 DEF RunShape
<1>5. position' \in Positions
  BY <1>2, <1>3, <1>4 DEF StoreTyped, Positions
<1>6. orders' \in [Keys -> Nat]
  <2>1. [k \in Keys |-> IF k[1] = "exchange" THEN run.orders[k[2]] ELSE 0] \in [Keys -> Nat]
    BY <1>4 DEF Keys
  <2>2. QED
    BY <1>2, <1>3, <2>1 DEF StoreTyped
<1>7. StoreTyped'
  <2>1. residue' \in BOOLEAN
    BY <1>3
  <2>2. QED
    BY <1>5, <1>6, <2>1 DEF StoreTyped
<1>8. Shares(position') \in Nat /\ Sum(orders') \in Nat /\ missing \in Int /\ sell \in Nat
  <2>1. Shares(position') \in Nat
    BY <1>5 DEF Shares, Positions, Absent
  <2>2. Sum(orders') \in Nat
    BY <1>6, KeysFinite, SumFinite
  <2>3. missing = Shares(position') - Sum(orders')
    BY DEF Uncovered
  <2> HIDE DEF missing
  <2>4. missing \in Int /\ sell \in Nat
    BY <2>1, <2>2, <2>3
  <2>5. QED
    BY <2>1, <2>2, <2>4
<1>9. ~raced[r] => missing <= Room
  <2> SUFFICES ASSUME ~raced[r] PROVE missing <= Room
    OBVIOUS
  <2>1. run.failed = {} /\ run.positions <= held /\ run.orders = book
    BY <1>1 DEF IInv, AnswersTrue
  <2>2. Shares(position') = run.positions
    <3>1. position' = IF run.positions = 0 THEN Absent ELSE run.positions
      BY <1>3, <2>1
    <3>2. QED
      BY <1>4, <3>1 DEF Shares, Absent
  <2>3. Sum(orders') = Exits
    <3>1. orders' = [k \in Keys |-> IF k[1] = "exchange" THEN book[k[2]] ELSE 0]
      BY <1>3, <2>1
    <3>2. book \in [Ids -> Nat]
      BY DEF IInv, ExchangeTyped
    <3>3. QED
      BY <3>1, <3>2, SumListed DEF Exits
  <2>4. Exits \in Nat /\ held \in Nat
    BY ExitsNat DEF IInv
  <2>5. QED
    BY <1>4, <2>1, <2>2, <2>3, <2>4 DEF Uncovered, Room
<1> HIDE DEF missing
<1>10. CASE sell = 0 /\ ~residue'
  BY <1>1, <1>7, <1>10, RunEnded
<1>11. CASE ~(sell = 0 /\ ~residue')
  <2> HIDE DEF sell
  <2>1. next \in RunShape /\ next.sell = sell /\ next.pc \in {"cancelling", "selling"}
    BY <1>5, <1>8, NoneTyped DEF RunShape, NoRun
  <2>2. ~raced[r] => sell = 0 \/ sell <= Room
    BY <1>8, <1>9 DEF sell
  <2> HIDE DEF next
  <2>3. RunHolds(next, raced[r])
    BY <2>1, <2>2 DEF RunHolds
  <2>4. rc' = [rc EXCEPT ![r] = next] /\ UNCHANGED raced
    BY <1>1, <1>11
  <2>5. QED
    BY <1>1, <1>7, <2>1, <2>3, <2>4, RunOnly
<1>12. QED
  BY <1>10, <1>11

LEMMA CancelAnsweredStep ==
  ASSUME IInv, NEW r \in Reconcilers, NEW cancelled \in BOOLEAN, CancelAnswered(r, cancelled)
  PROVE  IInv' /\ Surplus' = Surplus
<1> DEFINE next == [rc[r] EXCEPT !.pc = "selling", !.seen = position']
<1>1. /\ rc[r].pc = "cancelling"
      /\ residue' = (residue /\ ~cancelled)
      /\ position' = IF cancelled /\ rc[r].seen # Absent THEN rc[r].seen ELSE position
      /\ IF rc[r].sell = 0 THEN Ended(r)
         ELSE /\ rc' = [rc EXCEPT ![r].pc = "selling", ![r].seen = position']
              /\ UNCHANGED raced
      /\ UNCHANGED <<exchange, inbox, orders, worker>>
  BY DEF CancelAnswered
<1>2. rc[r] \in RunShape /\ rc \in [Reconcilers -> RunShape] /\ StoreTyped
  BY DEF IInv, RunsTyped
<1>3. position' \in Positions
  BY <1>1, <1>2 DEF RunShape, StoreTyped
<1>4. StoreTyped'
  BY <1>1, <1>2, <1>3 DEF StoreTyped
<1>5. CASE rc[r].sell = 0
  BY <1>1, <1>4, <1>5, RunEnded
<1>6. CASE rc[r].sell # 0
  <2>1. rc' = [rc EXCEPT ![r] = next] /\ UNCHANGED raced
    BY <1>1, <1>2, <1>6
  <2>2. next \in RunShape /\ next.pc = "selling" /\ next.sell = rc[r].sell
    BY <1>2, <1>3 DEF RunShape
  <2>3. RunHolds(rc[r], raced[r])
    BY RunsHold DEF IInv
  <2> HIDE DEF next
  <2>4. RunHolds(next, raced[r])
    BY <1>1, <2>2, <2>3 DEF RunHolds
  <2>5. QED
    BY <1>1, <1>4, <2>1, <2>2, <2>4, RunOnly
<1>7. QED
  BY <1>5, <1>6

LEMMA SellRefusedStep ==
  ASSUME IInv, NEW r \in Reconcilers, SellRefused(r)
  PROVE  IInv' /\ Surplus' = Surplus
<1>1. Ended(r) /\ UNCHANGED <<exchange, inbox, store, worker>>
  BY DEF SellRefused
<1>2. StoreTyped'
  BY <1>1 DEF IInv, StoreTyped, store
<1>3. QED
  BY <1>1, <1>2, RunEnded

\* The sell of a run, and whoever looks on.
LEMMA SellSentStep ==
  ASSUME IInv, NEW r \in Reconcilers, NEW told \in Told, NEW heard \in BOOLEAN,
         SellSent(r, told, heard)
  PROVE  /\ IInv' /\ (~raced[r] => Surplus' = 0 \/ Surplus' = Surplus)
         /\ worker' = worker /\ \A q \in Reconcilers \ {r} : rc'[q] = rc[q]
<1> DEFINE run == IF heard /\ told # "refused"
                  THEN [rc[r] EXCEPT !.pc = "sent", !.id = placed'] ELSE NoRun
<1>1. /\ rc[r].pc = "selling"
      /\ SellReaches(r, rc[r].sell, told)
      /\ UNCHANGED <<store, worker>>
      /\ rc' = [rc EXCEPT ![r] = run]
  BY DEF SellSent
<1>2. /\ r \in Actors /\ r # "worker" /\ rc[r].sell \in Nat /\ rc[r] \in RunShape
      /\ rc \in [Reconcilers -> RunShape]
  BY CoverageAssumption DEF Actors, IInv, RunsTyped, RunShape
<1>3. /\ ExchangeTyped' /\ InboxTyped' /\ RacedTyped'
      /\ held' + cash' = held + cash /\ held' <= held
      /\ told = "refused" => Room' = Room /\ held' = held /\ book' = book
      /\ (rc[r].sell <= Room => Surplus' = 0) /\ (rc[r].sell = 0 => Surplus' = Surplus)
      /\ \A a \in Actors : raced'[a] <=>
           (a # r /\ Looking(a) /\ (raced[a] \/ told # "refused"))
  BY <1>1, <1>2, SellReached
<1>4. run \in RunShape /\ run.pc \in {"sent", "idle"}
  <2>1. placed' \in 0..MaxOrders
    BY <1>3 DEF ExchangeTyped
  <2>2. CASE heard /\ told # "refused"
    BY <1>2, <2>1, <2>2 DEF RunShape
  <2>3. CASE ~(heard /\ told # "refused")
    BY <2>3, NoneTyped
  <2>4. QED
    BY <2>2, <2>3
<1> HIDE DEF run
<1>5. rc'[r] = run /\ RunsTyped' /\ \A q \in Reconcilers \ {r} : rc'[q] = rc[q]
  <2> HIDE DEF RunShape
  <2>1. QED
    BY <1>1, <1>2, <1>4 DEF RunsTyped
<1>6. Money' /\ worker' \in WorkerShape /\ StoreTyped'
  <2>1. held \in Int /\ held' \in Int /\ MaxHeld \in Int
    BY <1>3, CoverageAssumption DEF IInv, ExchangeTyped, Lots
  <2>2. Money'
    BY <1>1, <1>3, <2>1 DEF IInv, Money
  <2>3. QED
    BY <1>1, <2>2 DEF IInv, StoreTyped, store
<1>7. WorkerFits'
  <2>1. "worker" \in Actors
    BY DEF Actors
  <2>2. worker.pc \in {"entered", "selling"} /\ ~raced'["worker"] =>
          ~raced["worker"] /\ told = "refused"
    BY <1>2, <1>3, <2>1 DEF Looking
  <2>3. QED
    BY <1>1, <1>3, <2>2 DEF IInv, WorkerFits
<1>8. ASSUME NEW q \in Reconcilers \ {r}, ~raced'[q],
             rc[q].pc \in {"refreshing", "cancelling", "selling"}
      PROVE  ~raced[q] /\ told = "refused"
  <2>1. q \in Actors /\ q # "worker"
    BY CoverageAssumption DEF Actors
  <2>2. Looking(q)
    BY <1>8, <2>1 DEF Looking
  <2>3. QED
    BY <1>3, <1>8, <2>1, <2>2
<1>9. AnswersTrue'
  <2>1. ASSUME NEW q \in Reconcilers, rc'[q].pc = "refreshing", ~raced'[q]
        PROVE  /\ rc'[q].failed = {}
               /\ "positions" \notin rc'[q].left => rc'[q].positions <= held'
               /\ "orders" \notin rc'[q].left => rc'[q].orders = book'
    <3>1. q # r /\ rc'[q] = rc[q]
      BY <1>4, <1>5, <2>1
    <3>2. QED
      BY <1>3, <1>8, <2>1, <3>1 DEF IInv, AnswersTrue
  <2>2. QED
    BY <2>1 DEF AnswersTrue
<1>10. RunsFit'
  <2>1. ASSUME NEW q \in Reconcilers, rc'[q].pc \in {"cancelling", "selling"}, ~raced'[q]
        PROVE  rc'[q].sell = 0 \/ rc'[q].sell <= Room'
    <3>1. q # r /\ rc'[q] = rc[q]
      BY <1>4, <1>5, <2>1
    <3>2. QED
      BY <1>3, <1>8, <2>1, <3>1 DEF IInv, RunsFit
  <2>2. QED
    BY <2>1 DEF RunsFit
<1>11. ~raced[r] => Surplus' = 0 \/ Surplus' = Surplus
  BY <1>1, <1>3 DEF IInv, RunsFit
<1>12. QED
  BY <1>1, <1>3, <1>5, <1>6, <1>7, <1>9, <1>10, <1>11 DEF IInv

LEMMA SellAnsweredStep ==
  ASSUME IInv, NEW r \in Reconcilers, SellAnswered(r)
  PROVE  IInv' /\ Surplus' = Surplus
<1>1. /\ orders' = [orders EXCEPT ![<<"intent", rc[r].id>>] = rc[r].sell]
      /\ position' = Shares(rc[r].seen)
      /\ Ended(r)
      /\ UNCHANGED <<exchange, inbox, residue, worker>>
  BY DEF SellAnswered
<1>2. rc[r].sell \in Nat /\ rc[r].seen \in Positions /\ StoreTyped
  BY DEF IInv, RunsTyped, RunShape
<1>3. Shares(rc[r].seen) \in Nat
  BY <1>2 DEF Shares, Positions, Absent
<1>4. StoreTyped'
  BY <1>1, <1>2, <1>3 DEF StoreTyped, Positions
<1>5. QED
  BY <1>1, <1>4, RunEnded

--------------------------------------------------------------------------------
(* Exits: the theorems. *)

\* Nobody who acts raises the surplus, unless raced.
SurplusByRace ==
  \A a \in Actors :
    Surplus' > Surplus =>
      \/ raced[a]
      \/ IF a = "worker" THEN worker'.pc = worker.pc ELSE rc'[a] = rc[a]

LEMMA SurplusNat == ASSUME IInv PROVE Surplus \in Nat
BY ExitsNat DEF IInv, Surplus

LEMMA NoSurplus ==
  ASSUME IInv, Surplus' = Surplus \/ ~(Surplus' > Surplus)
  PROVE  SurplusByRace
<1>1. ~(Surplus' > Surplus)
  <2> DEFINE before == Surplus
             after == Surplus'
  <2>1. before \in Nat /\ (after = before \/ ~(after > before))
    BY SurplusNat
  <2> HIDE DEF before, after
  <2>2. ~(after > before)
    BY <2>1
  <2>3. QED
    BY <2>2 DEF before, after
<1>2. QED
  BY <1>1 DEF SurplusByRace

LEMMA NextStep ==
  ASSUME IInv, Next
  PROVE  IInv' /\ SurplusByRace
<1>1. CASE \E id \in Ids : SellFills(id)
  BY <1>1, SellFillsStep, NoSurplus
<1>2. CASE StreamLost
  BY <1>2, StreamLostStep, NoSurplus
<1>3. CASE MessageProcessed
  BY <1>3, MessageProcessedStep, NoSurplus
<1>4. CASE \E n \in 1..MaxEntry : EntrySent(n)
  BY <1>4, EntrySentStep, NoSurplus
<1>5. CASE \E n \in 0..MaxEntry : EntryFills(n)
  BY <1>5, EntryFillsStep, NoSurplus
<1>6. CASE EntryUnknown
  BY <1>6, EntryUnknownStep, NoSurplus
<1>7. CASE EntryAnswered
  BY <1>7, EntryAnsweredStep, NoSurplus
<1>8. CASE \E told \in Told, heard \in BOOLEAN : FollowUpSent(told, heard)
  <2>1. PICK told \in Told, heard \in BOOLEAN : FollowUpSent(told, heard)
    BY <1>8
  <2>2. IInv' /\ (~raced["worker"] => Surplus' = 0)
    BY <2>1, FollowUpSentStep
  <2>3. rc' = rc
    BY <2>1 DEF FollowUpSent
  <2>4. SurplusByRace
    BY <2>2, <2>3, SurplusNat DEF SurplusByRace
  <2>5. QED
    BY <2>2, <2>4
<1>9. CASE FollowUpAnswered
  BY <1>9, FollowUpAnsweredStep, NoSurplus
<1>10. CASE \E r \in Reconcilers : ReconcileStarts(r)
  BY <1>10, ReconcileStartsStep, NoSurplus
<1>11. CASE \E r \in Reconcilers : \E call \in Calls : AuthorityAnswers(r, call)
  BY <1>11, AuthorityAnswersStep, NoSurplus
<1>12. CASE \E r \in Reconcilers : \E call \in Calls : AuthorityFails(r, call)
  BY <1>12, AuthorityFailsStep, NoSurplus
<1>13. CASE \E r \in Reconcilers : RunPlans(r)
  BY <1>13, RunPlansStep, NoSurplus
<1>14. CASE \E r \in Reconcilers : \E cancelled \in BOOLEAN : CancelAnswered(r, cancelled)
  BY <1>14, CancelAnsweredStep, NoSurplus
<1>15. CASE \E r \in Reconcilers : SellRefused(r)
  BY <1>15, SellRefusedStep, NoSurplus
<1>16. CASE \E r \in Reconcilers : \E told \in Told, heard \in BOOLEAN : SellSent(r, told, heard)
  <2>1. PICK r \in Reconcilers : \E told \in Told, heard \in BOOLEAN : SellSent(r, told, heard)
    BY <1>16
  <2>2. /\ IInv' /\ (~raced[r] => Surplus' = 0 \/ Surplus' = Surplus)
        /\ worker' = worker /\ \A q \in Reconcilers \ {r} : rc'[q] = rc[q]
    BY <2>1, SellSentStep
  <2>3. SurplusByRace
    BY <2>2, SurplusNat DEF SurplusByRace, Actors
  <2>4. QED
    BY <2>2, <2>3
<1>17. CASE \E r \in Reconcilers : SellAnswered(r)
  BY <1>17, SellAnsweredStep, NoSurplus
<1>18. QED
  BY <1>1, <1>2, <1>3, <1>4, <1>5, <1>6, <1>7, <1>8, <1>9, <1>10, <1>11, <1>12, <1>13,
     <1>14, <1>15, <1>16, <1>17 DEF Next, WorkerStep, RunStep

LEMMA StutterStep ==
  ASSUME IInv, UNCHANGED vars
  PROVE  IInv'
<1>1. UNCHANGED <<exchange, worker, rc, raced, inbox, store>>
  BY DEF vars
<1>2. InboxTyped' /\ StoreTyped'
  BY <1>1 DEF IInv, InboxTyped, StoreTyped, store
<1>3. QED
  BY <1>1, <1>2, ExchangeStill, ActorsStill DEF IInv

\* The inductive invariant holds in every state.
THEOREM IInvInvariant == Spec => []IInv
<1>1. IInv /\ [Next]_vars => IInv'
  BY NextStep, StutterStep
<1>2. QED
  BY <1>1, InitIInv, PTL DEF Spec

\* The store, the runs and the wallet keep their types, and no sell raises the
\* open sells over the shares held unless the exchange moved, or did not
\* answer, since its sender looked.
THEOREM ExitsAreSound == Spec => ExitsSound
<1>1. IInv /\ [Next]_vars => [SurplusByRace]_vars
  BY NextStep
<1>2. IInv => TypeOK
  BY TypeCorrect
<1>3. Spec => [][SurplusByRace]_vars
  BY <1>1, IInvInvariant, PTL DEF Spec
<1>4. Spec => SurplusNeedsRace
  BY <1>3 DEF SurplusNeedsRace, SurplusByRace
<1>5. Spec => []TypeOK
  BY <1>2, IInvInvariant, PTL
<1>6. QED
  BY <1>4, <1>5 DEF ExitsSound

--------------------------------------------------------------------------------
(* Plans: shares of a pool. *)

LEMMA ProductGrows ==
  ASSUME NEW a \in Nat, NEW b \in Nat, NEW n \in Nat, b <= n
  PROVE  b * a \in Nat /\ n * a \in Nat /\ b * a <= n * a
<1> DEFINE d == n - b
<1>1. d \in Nat /\ n = b + d
  OBVIOUS
<1> HIDE DEF d
<1>2. n * a = b * a + d * a /\ b * a \in Nat /\ d * a \in Nat
  BY <1>1
<1>3. QED
  BY <1>2

\* n shares exceed the pool by no more than half a unit each, one share never.
LEMMA ShareFacts ==
  ASSUME NEW p \in Nat, NEW n \in Nat, n > 0
  PROVE  /\ Share(p, n) \in Nat /\ Share(p, n) <= p
         /\ 2 * (n * Share(p, n)) <= 2 * p + n
         /\ Share(0, n) = 0
<1> DEFINE q == p \div n
           r == p % n
<1>1. q \in Nat /\ r \in Nat /\ r < n /\ p = n * q + r
  OBVIOUS
<1>2. Share(p, n) = IF 2 * r > n \/ (2 * r = n /\ q % 2 = 1) THEN q + 1 ELSE q
  BY DEF Share
<1>3. 0 \div n = 0 /\ 0 % n = 0
  OBVIOUS
<1>4. Share(0, n) = 0
  BY <1>3 DEF Share
<1> HIDE DEF q, r
<1>5. 1 * q <= n * q /\ n * q \in Nat
  <2>1. 1 <= n /\ 1 \in Nat
    OBVIOUS
  <2>2. QED
    BY <1>1, <2>1, ProductGrows
<1>6. n * (q + 1) = n * q + n
  BY <1>1
<1>7. CASE 2 * r > n \/ (2 * r = n /\ q % 2 = 1)
  <2>1. Share(p, n) = q + 1
    BY <1>2, <1>7
  <2>2. r >= 1 /\ 2 * r >= n
    BY <1>1, <1>7
  <2>3. q + 1 <= p
    BY <1>1, <1>5, <2>2
  <2>4. 2 * (n * (q + 1)) <= 2 * p + n
    BY <1>1, <1>5, <1>6, <2>2
  <2>5. QED
    BY <1>1, <1>4, <2>1, <2>3, <2>4
<1>8. CASE ~ (2 * r > n \/ (2 * r = n /\ q % 2 = 1))
  <2>1. Share(p, n) = q
    BY <1>2, <1>8
  <2>2. q <= p /\ 2 * (n * q) <= 2 * p + n
    BY <1>1, <1>5
  <2>3. QED
    BY <1>1, <1>4, <2>1, <2>2
<1>9. QED
  BY <1>7, <1>8

\* Nor do the shares of some of them.
LEMMA SharesOfSome ==
  ASSUME NEW p \in Nat, NEW n \in Nat, n > 0, NEW b \in Nat, b <= n
  PROVE  2 * (b * Share(p, n)) <= 2 * p + b
<1> DEFINE t == Share(p, n)
<1>1. t \in Nat /\ 2 * (n * t) <= 2 * p + n
  BY ShareFacts
<1> HIDE DEF t
<1>2. CASE t = 0
  <2>1. b * t = 0
    BY <1>2
  <2>2. QED
    BY <2>1 DEF t
<1>3. CASE t > 0
  <2> DEFINE u == 2 * t - 1
  <2>1. u \in Nat
    BY <1>1, <1>3
  <2>2. b * u <= n * u
    <3> HIDE DEF u
    <3>1. QED
      BY <2>1, ProductGrows
  <2>3. n * u = 2 * (n * t) - n /\ b * u = 2 * (b * t) - b /\ n * t \in Nat /\ b * t \in Nat
    BY <1>1
  <2>4. QED
    BY <1>1, <2>1, <2>2, <2>3 DEF t
<1>4. QED
  BY <1>1, <1>2, <1>3

--------------------------------------------------------------------------------
(* Plans: the rounds of the division. *)

Again(s, cap) == IF s.active = {} \/ s.pool = 0 THEN s ELSE Round(s, cap)

\* g is the first n rounds.
Rounds(g, n, cap, pool) ==
  g = [k \in 0 .. n |-> IF k = 0 THEN First(cap, pool) ELSE Again(g[k - 1], cap)]

LEMMA RoundsExist ==
  ASSUME NEW cap, NEW pool, NEW N \in Nat
  PROVE  \E g : Rounds(g, N, cap, pool)
<1> DEFINE Bad == {n \in 0 .. N : ~ \E g : Rounds(g, n, cap, pool)}
<1>1. SUFFICES ASSUME Bad # {}  PROVE FALSE
  OBVIOUS
<1>2. PICK n \in Bad : \A l \in Bad : n <= l
  <2>1. IsFiniteSet(0 .. N)
    BY FS_Interval
  <2>2. Bad \subseteq 0 .. N
    OBVIOUS
  <2> HIDE DEF Bad
  <2>3. IsFiniteSet(Bad)
    BY <2>1, <2>2, FS_Subset
  <2>4. \A l \in Bad : l \in Int
    BY <2>2
  <2>5. QED
    BY <1>1, <2>3, <2>4, MinIn
<1>3. n \in 0 .. N
  OBVIOUS
<1>4. CASE n = 0
  <2>1. Rounds([k \in 0 .. 0 |-> First(cap, pool)], 0, cap, pool)
    BY DEF Rounds
  <2>2. QED
    BY <1>4, <2>1
<1>5. CASE n # 0
  <2>1. n - 1 \in 0 .. N /\ n - 1 \notin Bad
    BY <1>2, <1>3, <1>5
  <2>2. PICK f : Rounds(f, n - 1, cap, pool)
    BY <2>1
  <2> DEFINE g == [k \in 0 .. n |-> IF k = n THEN Again(f[n - 1], cap) ELSE f[k]]
  <2>3. \A k \in 0 .. n - 1 : f[k] = IF k = 0 THEN First(cap, pool) ELSE Again(f[k - 1], cap)
    BY <2>2 DEF Rounds
  <2>4. ASSUME NEW k \in 0 .. n
        PROVE  g[k] = IF k = 0 THEN First(cap, pool) ELSE Again(g[k - 1], cap)
    <3>1. CASE k = n
      <4>1. n - 1 \in 0 .. n /\ n - 1 # n
        BY <1>3, <1>5
      <4>2. g[k] = Again(f[n - 1], cap) /\ g[n - 1] = f[n - 1]
        BY <3>1, <4>1
      <4>3. QED
        BY <1>5, <3>1, <4>2
    <3>2. CASE k # n
      <4>1. k \in 0 .. n - 1 /\ (k # 0 => k - 1 \in 0 .. n /\ k - 1 # n)
        BY <1>3, <3>2
      <4>2. g[k] = f[k] /\ (k # 0 => g[k - 1] = f[k - 1])
        BY <3>2, <4>1
      <4>3. QED
        BY <2>3, <4>1, <4>2
    <3>3. QED
      BY <3>1, <3>2
  <2>5. Rounds(g, n, cap, pool)
    <3>1. DOMAIN g = 0 .. n /\ g = [k \in 0 .. n |-> g[k]]
      OBVIOUS
    <3> HIDE DEF g
    <3>2. QED
      BY <2>4, <3>1 DEF Rounds
  <2>6. QED
    BY <2>5
<1>6. QED
  BY <1>4, <1>5

\* What is bought in the end is what Budget rounds have bought.
LEMMA DividedInRounds ==
  ASSUME NEW cap, NEW pool
  PROVE  \E g : Rounds(g, Budget, cap, pool) /\ Divided(cap, pool) = g[Budget].buy
<1> DEFINE after == CHOOSE g : Rounds(g, Budget, cap, pool)
<1>1. Rounds(after, Budget, cap, pool)
  <2>1. Budget \in Nat
    BY AllocationAssumption
  <2>2. \E g : Rounds(g, Budget, cap, pool)
    BY <2>1, RoundsExist
  <2>3. QED
    BY <2>2
<1>2. Divided(cap, pool) = after[Budget].buy
  BY DEF Divided, Rounds, Again
<1>3. QED
  BY <1>1, <1>2

--------------------------------------------------------------------------------
(* Plans: what a round does. *)

\* The smallest order of some candidates is that of one of them.
LEMMA LeastOrderFacts ==
  ASSUME NEW A \in SUBSET Markets, A # {}
  PROVE  /\ LeastOrder(A) \in Nat \ {0}
         /\ \A m \in A : LeastOrder(A) <= MinOrder[m]
         /\ \E m \in A : LeastOrder(A) = MinOrder[m]
<1> DEFINE O == {MinOrder[m] : m \in A}
<1>1. \A m \in A : MinOrder[m] \in Nat \ {0}
  BY AllocationAssumption
<1>2. IsFiniteSet(O)
  <2>1. IsFiniteSet(A)
    BY AllocationAssumption, FS_Subset
  <2>2. [m \in A |-> MinOrder[m]] \in Surjection(A, O)
    BY DEF Surjection
  <2> HIDE DEF O
  <2>3. QED
    BY <2>1, <2>2, FS_Surjection
<1>3. O # {} /\ \A o \in O : o \in Int
  BY <1>1
<1>4. Min(O) \in O /\ \A o \in O : Min(O) <= o
  <2> HIDE DEF O
  <2>1. QED
    BY <1>2, <1>3, MinIn
<1>5. LeastOrder(A) = Min(O)
  BY DEF LeastOrder
<1>6. QED
  BY <1>1, <1>4, <1>5

\* The division of a pool of P among candidates of the capacities cap.  Every
\* round keeps to the capacities and the smallest orders; the pool is what is
\* left of P; together the quotients exceed P by no more than half a unit for
\* each buyer; equal markets are treated alike; and the candidates that go on
\* are all that can still take an order, or none is left that an equal share
\* would be enough for.
Limited(s, cap) ==
  \A m \in DOMAIN cap : s.buy[m] <= cap[m] /\ (s.buy[m] = 0 \/ s.buy[m] >= MinOrder[m])

PoolLeft(s, P) == s.pool = AtLeast0(P - Sum(s.buy))

RoundedUp(s, P) == 2 * (Sum(s.buy) - P) <= Cardinality(Buyers(s.buy))

Alike(s, cap) ==
  \A m, n \in DOMAIN cap :
    MinOrder[m] = MinOrder[n] /\ cap[m] <= cap[n] =>
      /\ s.buy[m] <= s.buy[n]
      /\ cap[m] - s.buy[m] >= MinOrder[m] => s.buy[m] = s.buy[n]

Going(s, cap) ==
  LET open == StillOpen(DOMAIN cap, cap, s.buy)
  IN  \/ s.active = open
      \/ s.active = {} /\ open # {} /\ TooSmall(Share(s.pool, Cardinality(open)), open)

NothingForNothing(s, P) == P = 0 => s.active = {} /\ Sum(s.buy) = 0

Typed(s, D) ==
  s \in [pool : Nat, active : SUBSET D, buy : [D -> Nat]]

Fair(s, cap, P) ==
  /\ Typed(s, DOMAIN cap)
  /\ Limited(s, cap) /\ PoolLeft(s, P) /\ RoundedUp(s, P)
  /\ Alike(s, cap) /\ Going(s, cap) /\ NothingForNothing(s, P)

LEMMA FirstFair ==
  ASSUME NEW D \in SUBSET Markets, NEW cap \in [D -> Nat], NEW P \in Nat
  PROVE  Fair(First(cap, P), cap, P)
<1> DEFINE s == First(cap, P)
           open == StillOpen(D, cap, s.buy)
<1>1. DOMAIN cap = D /\ IsFiniteSet(D)
  BY AllocationAssumption, FS_Subset
<1>2. s.buy = [m \in D |-> 0] /\ s.pool = P /\ s.active = IF open = {} \/ TooSmall(P, open) THEN {} ELSE open
  BY <1>1 DEF First
<1>3. Typed(s, D)
  <2>1. s = [pool |-> s.pool, buy |-> s.buy, active |-> s.active]
    BY DEF First
  <2>2. s.active \subseteq D
    BY <1>2 DEF StillOpen
  <2> HIDE DEF s, open
  <2>3. QED
    BY <1>2, <2>1, <2>2 DEF Typed
<1>4. Sum(s.buy) = 0
  <2>1. s.buy \in [D -> Nat] /\ \A m \in D : s.buy[m] = 0
    BY <1>2
  <2> HIDE DEF s
  <2>2. QED
    BY <1>1, <2>1, SumZero
<1>5. open # {} /\ TooSmall(P, open) => TooSmall(Share(P, Cardinality(open)), open)
  <2>1. SUFFICES ASSUME open # {}, TooSmall(P, open)
                 PROVE  TooSmall(Share(P, Cardinality(open)), open)
    OBVIOUS
  <2>2. open \in SUBSET Markets
    BY DEF StillOpen
  <2>3. IsFiniteSet(open)
    BY <2>2, AllocationAssumption, FS_Subset
  <2> HIDE DEF open
  <2>4. Cardinality(open) \in Nat /\ Cardinality(open) > 0
    BY <2>1, <2>3, FS_CardinalityType, FS_EmptySet
  <2>5. Share(P, Cardinality(open)) <= P /\ Share(P, Cardinality(open)) \in Nat
    BY <2>4, ShareFacts
  <2>6. LeastOrder(open) \in Nat
    BY <2>1, <2>2, LeastOrderFacts
  <2>7. QED
    BY <2>1, <2>5, <2>6 DEF TooSmall
<1>6. Cardinality(Buyers(s.buy)) \in Nat
  <2>1. Buyers(s.buy) \subseteq D
    BY <1>2 DEF Buyers
  <2>2. QED
    BY <1>1, <2>1, FS_Subset, FS_CardinalityType
<1>7. \A m \in D : s.buy[m] = 0
  BY <1>2
<1>8. P = 0 => s.active = {}
  <2>1. SUFFICES ASSUME P = 0, open # {}  PROVE TooSmall(P, open)
    BY <1>2
  <2>2. open \in SUBSET Markets
    BY DEF StillOpen
  <2> HIDE DEF open
  <2>3. LeastOrder(open) \in Nat \ {0}
    BY <2>1, <2>2, LeastOrderFacts
  <2>4. QED
    BY <2>1, <2>3 DEF TooSmall
<1>9. \A m \in D : cap[m] \in Nat
  OBVIOUS
<1> HIDE DEF s
<1>10. Going(s, cap)
  BY <1>1, <1>2, <1>5 DEF Going
<1>11. Limited(s, cap) /\ PoolLeft(s, P) /\ RoundedUp(s, P)
  BY <1>1, <1>2, <1>4, <1>6, <1>7, <1>9 DEF Limited, PoolLeft, RoundedUp, AtLeast0
<1>12. Alike(s, cap)
  BY <1>1, <1>7 DEF Alike
<1>13. QED
  BY <1>1, <1>3, <1>4, <1>8, <1>10, <1>11, <1>12 DEF Fair, NothingForNothing, s

\* What a candidate takes is no more than the share and what is left of its
\* capacity, and nothing or at least its smallest order.
LEMMA TakenFacts ==
  ASSUME NEW D \in SUBSET Markets, NEW cap \in [D -> Nat], NEW s,
         Typed(s, D), Limited(s, cap), s.active # {}
  PROVE  LET t == Share(s.pool, Cardinality(s.active))
             taken == Taken(s, cap)
         IN  /\ t \in Nat /\ Cardinality(s.active) \in Nat \ {0} /\ taken \in [D -> Nat]
             /\ \A m \in D :
                  /\ taken[m] <= t /\ s.buy[m] + taken[m] <= cap[m]
                  /\ taken[m] = 0 \/ taken[m] >= MinOrder[m]
             /\ \A m \in D \ s.active : taken[m] = 0
             /\ \A m \in s.active :
                  taken[m] = IF t < MinOrder[m] \/ cap[m] - s.buy[m] < MinOrder[m] THEN 0
                             ELSE IF t <= cap[m] - s.buy[m] THEN t ELSE cap[m] - s.buy[m]
<1> DEFINE n == Cardinality(s.active)
           t == Share(s.pool, n)
           taken == Taken(s, cap)
<1>1. DOMAIN cap = D /\ s.active \in SUBSET D /\ s.buy \in [D -> Nat] /\ s.pool \in Nat
  BY DEF Typed
<1>2. n \in Nat /\ n > 0
  <2>1. IsFiniteSet(s.active)
    BY <1>1, AllocationAssumption, FS_Subset
  <2>2. QED
    BY <2>1, FS_CardinalityType, FS_EmptySet
<1>3. t \in Nat
  <2> HIDE DEF n
  <2>1. QED
    BY <1>1, <1>2, ShareFacts
<1>4. taken = [m \in D |-> IF m \in s.active /\ Smaller(t, cap[m] - s.buy[m]) >= MinOrder[m]
                           THEN Smaller(t, cap[m] - s.buy[m]) ELSE 0]
  BY <1>1 DEF Taken
<1>5. \A m \in D : cap[m] \in Nat /\ s.buy[m] \in Nat /\ s.buy[m] <= cap[m] /\ MinOrder[m] \in Nat \ {0}
  BY <1>1, AllocationAssumption DEF Limited
<1> HIDE DEF t, n
<1>6. ASSUME NEW m \in D
      PROVE  /\ taken[m] \in Nat
             /\ taken[m] <= t /\ s.buy[m] + taken[m] <= cap[m]
             /\ taken[m] = 0 \/ taken[m] >= MinOrder[m]
             /\ m \notin s.active => taken[m] = 0
             /\ m \in s.active =>
                  taken[m] = IF t < MinOrder[m] \/ cap[m] - s.buy[m] < MinOrder[m] THEN 0
                             ELSE IF t <= cap[m] - s.buy[m] THEN t ELSE cap[m] - s.buy[m]
  <2>1. taken[m] = IF m \in s.active /\ Smaller(t, cap[m] - s.buy[m]) >= MinOrder[m]
                   THEN Smaller(t, cap[m] - s.buy[m]) ELSE 0
    BY <1>4
  <2> HIDE DEF taken
  <2>2. QED
    BY <1>3, <1>5, <2>1 DEF Smaller
<1>7. taken \in [D -> Nat]
  <2>1. taken = [m \in D |-> taken[m]]
    BY <1>4
  <2> HIDE DEF taken
  <2>2. QED
    BY <1>6, <2>1
<1> HIDE DEF taken
<1>8. /\ t \in Nat /\ n \in Nat \ {0} /\ taken \in [D -> Nat]
      /\ \A m \in D :
           /\ taken[m] <= t /\ s.buy[m] + taken[m] <= cap[m]
           /\ taken[m] = 0 \/ taken[m] >= MinOrder[m]
      /\ \A m \in D \ s.active : taken[m] = 0
      /\ \A m \in s.active :
           taken[m] = IF t < MinOrder[m] \/ cap[m] - s.buy[m] < MinOrder[m] THEN 0
                      ELSE IF t <= cap[m] - s.buy[m] THEN t ELSE cap[m] - s.buy[m]
  BY <1>1, <1>2, <1>3, <1>6, <1>7
<1>9. QED
  BY <1>8 DEF t, n, taken

\* A round that is due keeps the division fair, and spends something unless it
\* is the last one.
LEMMA RoundFair ==
  ASSUME NEW D \in SUBSET Markets, NEW cap \in [D -> Nat], NEW P \in Nat, NEW s,
         Fair(s, cap, P), s.active # {}, s.pool # 0
  PROVE  /\ Fair(Round(s, cap), cap, P)
         /\ Round(s, cap).active = {} \/ Round(s, cap).pool < s.pool
<1> DEFINE n == Cardinality(s.active)
           t == Share(s.pool, n)
           taken == Taken(s, cap)
           r == Round(s, cap)
           buy == [m \in D |-> s.buy[m] + taken[m]]
           pool == AtLeast0(s.pool - Sum(taken))
           open == StillOpen(D, cap, buy)
<1>1. DOMAIN cap = D /\ IsFiniteSet(D) /\ \A m \in D : MinOrder[m] \in Nat \ {0} /\ cap[m] \in Nat
  BY AllocationAssumption, FS_Subset
<1>2. Typed(s, D) /\ s.active \in SUBSET D /\ s.buy \in [D -> Nat] /\ s.pool \in Nat
  BY <1>1 DEF Fair, Typed
<1>3. /\ t \in Nat /\ n \in Nat \ {0} /\ taken \in [D -> Nat]
      /\ \A m \in D :
           /\ taken[m] <= t /\ s.buy[m] + taken[m] <= cap[m]
           /\ taken[m] = 0 \/ taken[m] >= MinOrder[m]
      /\ \A m \in D \ s.active : taken[m] = 0
      /\ \A m \in s.active :
           taken[m] = IF t < MinOrder[m] \/ cap[m] - s.buy[m] < MinOrder[m] THEN 0
                      ELSE IF t <= cap[m] - s.buy[m] THEN t ELSE cap[m] - s.buy[m]
  BY <1>2, TakenFacts DEF Fair
<1>4. s.active = StillOpen(D, cap, s.buy)
  BY <1>1 DEF Fair, Going
<1>5. StillOpen(s.active, cap, buy) = open
  <2>1. ASSUME NEW m \in D, cap[m] - buy[m] >= MinOrder[m]
        PROVE  m \in s.active
    <3>1. buy[m] = s.buy[m] + taken[m] /\ s.buy[m] \in Nat /\ taken[m] \in Nat
      BY <1>2, <1>3
    <3> HIDE DEF buy, taken
    <3>2. cap[m] - s.buy[m] >= MinOrder[m]
      BY <1>1, <2>1, <3>1
    <3>3. QED
      BY <1>4, <3>2 DEF StillOpen
  <2> HIDE DEF buy
  <2>2. QED
    BY <1>2, <2>1 DEF StillOpen
<1>6. /\ r.buy = buy /\ r.pool = pool
      /\ r.active = IF \/ Sum(taken) = 0
                       \/ open # {} /\ TooSmall(Share(pool, Cardinality(open)), open)
                    THEN {} ELSE open
      /\ r = [pool |-> r.pool, active |-> r.active, buy |-> r.buy]
  <2>1. r = [pool |-> pool, buy |-> buy,
             active |-> IF \/ Sum(taken) = 0
                           \/ /\ StillOpen(s.active, cap, buy) # {}
                              /\ TooSmall(Share(pool, Cardinality(StillOpen(s.active, cap, buy))),
                                          StillOpen(s.active, cap, buy))
                        THEN {} ELSE StillOpen(s.active, cap, buy)]
    BY <1>1 DEF Round
  <2> HIDE DEF r, pool, buy, open
  <2>2. QED
    BY <1>5, <2>1
<1>7. Sum(taken) \in Nat /\ Sum(s.buy) \in Nat /\ Sum(buy) = Sum(s.buy) + Sum(taken)
  <2> HIDE DEF taken
  <2>1. QED
    BY <1>1, <1>2, <1>3, SumFinite, SumPlus
<1>8. buy \in [D -> Nat] /\ open \in SUBSET D /\ pool \in Nat
  <2>1. buy \in [D -> Nat]
    BY <1>2, <1>3
  <2>2. open \in SUBSET D
    BY DEF StillOpen
  <2>3. pool \in Nat
    BY <1>2, <1>7 DEF AtLeast0
  <2>4. QED
    BY <2>1, <2>2, <2>3
<1>9. s.pool = P - Sum(s.buy)
  BY <1>2, <1>7 DEF Fair, PoolLeft, AtLeast0
<1>10. ASSUME NEW m \in D
       PROVE  /\ buy[m] = s.buy[m] + taken[m] /\ s.buy[m] \in Nat /\ taken[m] \in Nat
              /\ s.buy[m] <= cap[m] /\ (s.buy[m] = 0 \/ s.buy[m] >= MinOrder[m])
              /\ m \in s.active <=> cap[m] - s.buy[m] >= MinOrder[m]
              /\ m \in open <=> cap[m] - buy[m] >= MinOrder[m]
  <2>1. buy[m] = s.buy[m] + taken[m] /\ s.buy[m] \in Nat /\ taken[m] \in Nat
    BY <1>2, <1>3
  <2>2. s.buy[m] <= cap[m] /\ (s.buy[m] = 0 \/ s.buy[m] >= MinOrder[m])
    BY <1>1 DEF Fair, Limited
  <2>3. m \in s.active <=> cap[m] - s.buy[m] >= MinOrder[m]
    BY <1>4 DEF StillOpen
  <2>4. m \in open <=> cap[m] - buy[m] >= MinOrder[m]
    BY DEF StillOpen
  <2>5. QED
    BY <2>1, <2>2, <2>3, <2>4
<1> HIDE DEF n, t, taken, r, buy, pool, open
<1>11. Typed(r, D)
  BY <1>6, <1>8 DEF Typed
<1>12. Limited(r, cap)
  <2>1. ASSUME NEW m \in D
        PROVE  buy[m] <= cap[m] /\ (buy[m] = 0 \/ buy[m] >= MinOrder[m])
    BY <1>1, <1>3, <1>10
  <2>2. QED
    BY <1>1, <1>6, <2>1 DEF Limited
<1>13. PoolLeft(r, P)
  BY <1>6, <1>7, <1>9 DEF PoolLeft, AtLeast0, pool
<1>14. RoundedUp(r, P)
  <2> DEFINE B == {m \in D : taken[m] > 0}
             b == Cardinality(B)
  <2>1. Buyers(buy) \subseteq D /\ B \subseteq Buyers(buy) /\ B \subseteq s.active
    <3>1. B \subseteq s.active
      BY <1>3
    <3>2. DOMAIN buy = D
      BY <1>8
    <3>3. ASSUME NEW m \in B  PROVE m \in Buyers(buy)
      BY <1>10, <3>2 DEF Buyers
    <3>4. QED
      BY <3>1, <3>2, <3>3 DEF Buyers
  <2>2. B \in SUBSET D /\ \A m \in D \ B : taken[m] = 0
    BY <1>3
  <2> HIDE DEF B
  <2>3. /\ IsFiniteSet(Buyers(buy)) /\ IsFiniteSet(s.active) /\ IsFiniteSet(B)
    BY <1>1, <1>2, <2>1, <2>2, FS_Subset
  <2>4. b \in Nat /\ b <= Cardinality(Buyers(buy)) /\ b <= n /\ Cardinality(Buyers(buy)) \in Nat
    <3>1. b <= Cardinality(Buyers(buy)) /\ b <= Cardinality(s.active)
      BY <2>1, <2>3, FS_Subset
    <3>2. QED
      BY <2>3, <3>1, FS_CardinalityType DEF n
  <2>5. Sum(taken) <= b * t
    BY <1>1, <1>3, <2>2, SumAtMost
  <2> HIDE DEF b
  <2>6. 2 * (b * t) <= 2 * s.pool + b
    <3>1. s.pool \in Nat /\ n \in Nat /\ n > 0 /\ b \in Nat /\ b <= n
      BY <1>2, <1>3, <2>4
    <3>2. 2 * (b * Share(s.pool, n)) <= 2 * s.pool + b
      BY <3>1, SharesOfSome, Zenon
    <3>3. QED
      BY <3>2 DEF t
  <2>7. b * t \in Nat
    BY <1>3, <2>4
  <2>8. 2 * (Sum(buy) - P) <= Cardinality(Buyers(buy))
    BY <1>2, <1>7, <1>9, <2>4, <2>5, <2>6, <2>7
  <2>9. QED
    BY <1>6, <2>8 DEF RoundedUp
<1>15. Alike(r, cap)
  <2>1. ASSUME NEW m \in D, NEW k \in D, MinOrder[m] = MinOrder[k], cap[m] <= cap[k]
        PROVE  /\ buy[m] <= buy[k]
               /\ cap[m] - buy[m] >= MinOrder[m] => buy[m] = buy[k]
    <3>1. /\ s.buy[m] <= s.buy[k]
          /\ cap[m] - s.buy[m] >= MinOrder[m] => s.buy[m] = s.buy[k]
      BY <1>1, <2>1 DEF Fair, Alike
    <3>2. CASE m \notin s.active
      <4>1. taken[m] = 0
        BY <1>3, <3>2
      <4>2. QED
        BY <1>1, <1>10, <3>1, <3>2, <4>1
    <3>3. CASE m \in s.active
      <4>1. k \in s.active /\ s.buy[m] = s.buy[k]
        BY <1>1, <1>10, <2>1, <3>1, <3>3
      <4>2. \A x \in {m, k} :
              taken[x] = IF t < MinOrder[x] \/ cap[x] - s.buy[x] < MinOrder[x] THEN 0
                         ELSE IF t <= cap[x] - s.buy[x] THEN t ELSE cap[x] - s.buy[x]
        BY <1>3, <3>3, <4>1
      <4>3. QED
        BY <1>1, <1>3, <1>10, <2>1, <4>1, <4>2
    <3>4. QED
      BY <3>2, <3>3
  <2>2. QED
    BY <1>1, <1>6, <2>1 DEF Alike
<1>16. Going(r, cap)
  <2>1. StillOpen(DOMAIN cap, cap, r.buy) = open
    BY <1>1, <1>6 DEF open
  <2>2. CASE Sum(taken) = 0
    <3>1. \A m \in D : taken[m] = 0
      BY <1>1, <1>3, <2>2, SumZero
    <3>2. buy = s.buy
      <4>1. \A m \in D : buy[m] = s.buy[m]
        BY <1>10, <3>1
      <4>2. QED
        BY <1>2, <1>8, <4>1
    <3>3. pool = s.pool
      BY <1>2, <2>2 DEF pool, AtLeast0
    <3>4. open = s.active
      BY <1>4, <3>2 DEF open
    <3>5. \A m \in s.active : t < MinOrder[m]
      <4>1. ASSUME NEW m \in s.active  PROVE t < MinOrder[m]
        <5>1. m \in D /\ taken[m] = 0
          BY <1>2, <3>1
        <5>2. cap[m] - s.buy[m] >= MinOrder[m]
          BY <1>10, <5>1
        <5>3. QED
          BY <1>1, <1>3, <1>10, <5>1, <5>2
      <4>2. QED
        BY <4>1
    <3>6. TooSmall(t, s.active)
      <4>1. PICK m \in s.active : LeastOrder(s.active) = MinOrder[m]
        <5>1. s.active \in SUBSET Markets
          BY <1>2
        <5>2. QED
          BY <5>1, LeastOrderFacts
      <4>2. QED
        BY <3>5, <4>1 DEF TooSmall
    <3>7. QED
      BY <1>6, <2>1, <2>2, <3>3, <3>4, <3>6 DEF Going, t, n
  <2>3. CASE Sum(taken) # 0
    BY <1>6, <2>1, <2>3 DEF Going
  <2>4. QED
    BY <2>2, <2>3
<1>17. NothingForNothing(r, P)
  BY <1>2, <1>7, <1>9 DEF NothingForNothing
<1>18. r.active = {} \/ r.pool < s.pool
  <2>1. CASE Sum(taken) = 0
    BY <1>6, <2>1
  <2>2. CASE Sum(taken) # 0
    BY <1>2, <1>6, <1>7, <2>2 DEF pool, AtLeast0
  <2>3. QED
    BY <2>1, <2>2
<1>19. QED
  BY <1>1, <1>11, <1>12, <1>13, <1>14, <1>15, <1>16, <1>17, <1>18 DEF Fair, r

--------------------------------------------------------------------------------
(* Plans: what a plan is. *)

\* The division stays fair, and goes on only with less and less money.
LEMMA RoundsFair ==
  ASSUME NEW D \in SUBSET Markets, NEW cap \in [D -> Nat], NEW P \in 0 .. Budget,
         NEW g, Rounds(g, Budget, cap, P), NEW k \in 0 .. Budget
  PROVE  Fair(g[k], cap, P) /\ (g[k].active = {} \/ g[k].pool = 0 \/ g[k].pool + k <= Budget)
<1> DEFINE Good(i) ==
             Fair(g[i], cap, P) /\ (g[i].active = {} \/ g[i].pool = 0 \/ g[i].pool + i <= Budget)
           Bad == {i \in 0 .. Budget : ~ Good(i)}
<1>1. Budget \in Nat /\ P \in Nat /\ P <= Budget
  BY AllocationAssumption
<1>2. /\ g[0] = First(cap, P)
      /\ \A i \in 1 .. Budget : g[i] = Again(g[i - 1], cap)
  BY <1>1 DEF Rounds
<1>3. SUFFICES ASSUME Bad # {}  PROVE FALSE
  <2>1. Bad = {} => Good(k)
    OBVIOUS
  <2>2. QED
    BY <2>1
<1>4. PICK n \in Bad : \A l \in Bad : n <= l
  <2>1. IsFiniteSet(0 .. Budget)
    BY <1>1, FS_Interval
  <2>2. Bad \subseteq 0 .. Budget
    OBVIOUS
  <2> HIDE DEF Bad
  <2>3. IsFiniteSet(Bad)
    BY <2>1, <2>2, FS_Subset
  <2>4. \A l \in Bad : l \in Int
    BY <2>2
  <2>5. QED
    BY <1>3, <2>3, <2>4, MinIn
<1>5. n \in 0 .. Budget /\ ~ Good(n)
  OBVIOUS
<1>6. CASE n = 0
  <2>1. Fair(First(cap, P), cap, P)
    BY <1>1, FirstFair
  <2>2. First(cap, P).pool = P
    BY DEF First
  <2>3. QED
    BY <1>1, <1>2, <1>5, <1>6, <2>1, <2>2
<1>7. CASE n # 0
  <2> DEFINE s == g[n - 1]
  <2>1. n - 1 \in 0 .. Budget /\ n - 1 \notin Bad
    BY <1>1, <1>4, <1>5, <1>7
  <2>2. Good(n - 1)
    BY <2>1
  <2>3. g[n] = Again(s, cap)
    BY <1>1, <1>2, <1>5, <1>7
  <2>4. CASE s.active = {} \/ s.pool = 0
    <3>1. g[n] = s
      BY <2>3, <2>4 DEF Again
    <3>2. QED
      BY <1>5, <2>2, <2>4, <3>1
  <2>5. CASE ~ (s.active = {} \/ s.pool = 0)
    <3>1. g[n] = Round(s, cap)
      BY <2>3, <2>5 DEF Again
    <3>2. Fair(s, cap, P) /\ s.active # {} /\ s.pool # 0 /\ s.pool + (n - 1) <= Budget
      BY <2>2, <2>5
    <3> HIDE DEF s
    <3>3. /\ Fair(Round(s, cap), cap, P)
          /\ Round(s, cap).active = {} \/ Round(s, cap).pool < s.pool
      BY <1>1, <3>2, RoundFair
    <3>4. s.pool \in Nat /\ Round(s, cap).pool \in Nat
      BY <3>2, <3>3 DEF Fair, Typed
    <3>5. Round(s, cap).active = {} \/ Round(s, cap).pool + n <= Budget
      BY <1>1, <1>5, <3>2, <3>3, <3>4
    <3>6. QED
      BY <1>5, <3>1, <3>3, <3>5
  <2>6. QED
    BY <2>4, <2>5
<1>8. QED
  BY <1>6, <1>7

\* In the end nobody goes on or no money is left.
LEMMA DividedFair ==
  ASSUME NEW D \in SUBSET Markets, NEW cap \in [D -> Nat], NEW P \in 0 .. Budget
  PROVE  \E s : /\ Fair(s, cap, P) /\ (s.active = {} \/ s.pool = 0)
                /\ Divided(cap, P) = s.buy
<1>1. PICK g : Rounds(g, Budget, cap, P) /\ Divided(cap, P) = g[Budget].buy
  BY DividedInRounds
<1>2. Budget \in Nat /\ Budget \in 0 .. Budget
  BY AllocationAssumption
<1>3. Fair(g[Budget], cap, P) /\ (g[Budget].active = {} \/ g[Budget].pool = 0 \/ g[Budget].pool + Budget <= Budget)
  BY <1>1, <1>2, RoundsFair
<1>4. g[Budget].pool \in Nat
  BY <1>3 DEF Fair, Typed
<1>5. g[Budget].active = {} \/ g[Budget].pool = 0
  BY <1>2, <1>3, <1>4
<1>6. QED
  BY <1>1, <1>3, <1>5

\* The capacities and the pool of candidates.
LEMMA CandidateFacts ==
  ASSUME NEW D \in SUBSET Markets, NEW C \in [D -> Candidate], NEW available \in Nat
  PROVE  /\ Capacities(C, available) \in [D -> Nat]
         /\ \A m \in D :
              LET cap == Capacities(C, available)[m]
              IN  /\ cap = Capacity(C[m], available)
                  /\ cap <= MaxOrder /\ cap <= available /\ cap <= C[m].depth
                  /\ cap > 0 => C[m].exposure + cap <= MaxMarket
         /\ Exposed(C) \in Nat
         /\ Pool(C, available) \in 0 .. Budget
         /\ Pool(C, available) # 0 =>
              \A limit \in {Budget, available, MaxTotal - Exposed(C)} : Pool(C, available) <= limit
<1>1. {Budget, MaxOrder, MaxMarket, MaxTotal} \subseteq Nat /\ IsFiniteSet(D)
  BY AllocationAssumption, FS_Subset
<1>2. \A m \in D : C[m].exposure \in Nat /\ C[m].depth \in Nat
  BY DEF Candidate
<1>3. ASSUME NEW m \in D
      PROVE  LET cap == Capacity(C[m], available)
             IN  /\ cap \in Nat
                 /\ cap <= MaxOrder /\ cap <= available /\ cap <= C[m].depth
                 /\ cap > 0 => C[m].exposure + cap <= MaxMarket
  BY <1>1, <1>2 DEF Capacity, Smaller, AtLeast0
<1>4. Capacities(C, available) = [m \in D |-> Capacity(C[m], available)]
  BY DEF Capacities
<1>5. Exposed(C) \in Nat
  <2> DEFINE e == [m \in D |-> C[m].exposure]
  <2>1. e \in [D -> Nat] /\ Exposed(C) = Sum(e)
    BY <1>2 DEF Exposed
  <2> HIDE DEF e
  <2>2. QED
    BY <1>1, <2>1, SumFinite
<1>6. /\ Pool(C, available) \in 0 .. Budget
      /\ Pool(C, available) # 0 =>
            \A limit \in {Budget, available, MaxTotal - Exposed(C)} : Pool(C, available) <= limit
  BY <1>1, <1>5 DEF Pool, Smaller, AtLeast0
<1>7. QED
  BY <1>3, <1>4, <1>5, <1>6

\* Whatever the candidates are, the plan for them keeps its promises.
THEOREM PlanKeepsPromises ==
  ASSUME NEW D \in SUBSET Markets, NEW C \in [D -> Candidate], NEW available \in Nat
  PROVE  LET p == EqualWeightPlan(C, available)
         IN  /\ p \in [D -> Nat]
             /\ WithinLimits(C, available, p)
             /\ EqualWeight(C, available, p)
             /\ Redistributed(C, available, p)
<1> DEFINE cap == Capacities(C, available)
           P == Pool(C, available)
           p == EqualWeightPlan(C, available)
<1>1. /\ cap \in [D -> Nat] /\ P \in 0 .. Budget /\ Exposed(C) \in Nat
      /\ \A m \in D :
           /\ cap[m] = Capacity(C[m], available)
           /\ cap[m] <= MaxOrder /\ cap[m] <= available /\ cap[m] <= C[m].depth
           /\ cap[m] > 0 => C[m].exposure + cap[m] <= MaxMarket
      /\ P # 0 => \A limit \in {Budget, available, MaxTotal - Exposed(C)} : P <= limit
  BY CandidateFacts
<1>2. p = Divided(cap, P)
  BY DEF EqualWeightPlan
<1>3. DOMAIN C = D /\ IsFiniteSet(D)
  BY AllocationAssumption, FS_Subset
<1>4. /\ {Budget, MaxOrder, MaxMarket, MaxTotal} \subseteq Nat
      /\ \A m \in D : MinOrder[m] \in Nat \ {0} /\ C[m].exposure \in Nat
  BY AllocationAssumption DEF Candidate
<1> HIDE DEF cap, P, p
<1>5. PICK s : Fair(s, cap, P) /\ (s.active = {} \/ s.pool = 0) /\ Divided(cap, P) = s.buy
  BY <1>1, DividedFair
<1>6. s.buy = p /\ p \in [D -> Nat] /\ DOMAIN cap = D /\ s.pool \in Nat
  BY <1>1, <1>2, <1>5 DEF Fair, Typed
<1>7. Sum(p) \in Nat /\ (Sum(p) = 0 <=> \A m \in D : p[m] = 0)
  BY <1>3, <1>6, SumFinite, SumZero
<1>8. \A m \in D : p[m] \in Nat /\ p[m] <= cap[m] /\ (p[m] = 0 \/ p[m] >= MinOrder[m])
  BY <1>5, <1>6 DEF Fair, Limited
<1>9. WithinLimits(C, available, p)
  <2>1. \A m \in Buyers(p) :
          /\ MinOrder[m] <= p[m] /\ p[m] <= MaxOrder /\ p[m] <= C[m].depth
          /\ p[m] <= available
          /\ C[m].exposure + p[m] <= MaxMarket
    <3>1. ASSUME NEW m \in D, p[m] > 0
          PROVE  /\ MinOrder[m] <= p[m] /\ p[m] <= MaxOrder /\ p[m] <= C[m].depth
                 /\ p[m] <= available
                 /\ C[m].exposure + p[m] <= MaxMarket
      <4>1. /\ cap[m] <= MaxOrder /\ cap[m] <= available /\ cap[m] <= C[m].depth
            /\ cap[m] > 0 => C[m].exposure + cap[m] <= MaxMarket
        BY <1>1, Zenon
      <4>2. cap[m] \in Nat
        BY <1>1, Zenon
      <4>3. /\ C[m].depth \in Nat /\ C[m].exposure \in Nat /\ MaxOrder \in Nat /\ MaxMarket \in Nat
            /\ MinOrder[m] \in Nat
        BY <1>4 DEF Candidate
      <4>4. p[m] \in Nat /\ p[m] <= cap[m] /\ p[m] >= MinOrder[m]
        BY <1>8, <3>1
      <4>5. QED
        BY <3>1, <4>1, <4>2, <4>3, <4>4
    <3>2. QED
      BY <1>6, <3>1 DEF Buyers
  <2>2. ASSUME NEW limit \in {Budget, available, MaxTotal - Exposed(C)}, Buyers(p) # {}
        PROVE  2 * (Spent(p) - limit) <= Cardinality(Buyers(p))
    <3>1. P # 0
      <4>1. \E m \in D : p[m] # 0
        BY <1>6, <2>2 DEF Buyers
      <4>2. Sum(p) # 0
        BY <1>7, <4>1
      <4>3. QED
        BY <1>5, <1>6, <4>2 DEF Fair, NothingForNothing
    <3>2. P <= limit /\ limit \in Int /\ P \in Int
      BY <1>1, <1>4, <3>1
    <3>3. 2 * (Sum(p) - P) <= Cardinality(Buyers(p))
      BY <1>5, <1>6 DEF Fair, RoundedUp
    <3>4. Cardinality(Buyers(p)) \in Nat
      <4>1. Buyers(p) \subseteq D
        BY <1>6 DEF Buyers
      <4>2. QED
        BY <1>3, <4>1, FS_Subset, FS_CardinalityType
    <3>5. QED
      BY <1>7, <3>2, <3>3, <3>4 DEF Spent
  <2>3. QED
    BY <2>1, <2>2 DEF WithinLimits
<1>10. EqualWeight(C, available, p)
  <2>1. ASSUME NEW m \in D, NEW n \in D, MinOrder[m] = MinOrder[n],
               Capacity(C[m], available) <= Capacity(C[n], available)
        PROVE  p[m] <= p[n]
    <3>1. cap[m] <= cap[n]
      <4>1. cap[m] = Capacity(C[m], available) /\ cap[n] = Capacity(C[n], available)
        BY <1>1, Zenon
      <4>2. QED
        BY <2>1, <4>1, Zenon
    <3>2. QED
      BY <1>5, <1>6, <2>1, <3>1 DEF Fair, Alike
  <2>2. QED
    BY <1>3, <2>1 DEF EqualWeight
<1>11. Redistributed(C, available, p)
  <2> DEFINE open == StillOpen(D, cap, p)
  <2>1. AtLeast0(P - Spent(p)) = s.pool
    BY <1>5, <1>6 DEF Fair, PoolLeft, Spent
  <2>2. s.active = open \/ (s.active = {} /\ open # {} /\ TooSmall(Share(s.pool, Cardinality(open)), open))
    BY <1>5, <1>6 DEF Fair, Going
  <2>3. open \in SUBSET Markets
    BY DEF StillOpen
  <2>4. IsFiniteSet(open)
    BY <2>3, AllocationAssumption, FS_Subset
  <2>5. StillOpen(DOMAIN C, Capacities(C, available), p) = open
    BY <1>3 DEF cap
  <2> HIDE DEF open
  <2>6. ASSUME open # {}
        PROVE  TooSmall(Share(s.pool, Cardinality(open)), open)
    <3>1. CASE s.active = {}
      BY <2>2, <2>6, <3>1
    <3>2. CASE s.active # {}
      <4>1. s.pool = 0
        BY <1>5, <3>2
      <4>2. Cardinality(open) \in Nat /\ Cardinality(open) > 0
        BY <2>4, <2>6, FS_CardinalityType, FS_EmptySet
      <4>3. Share(0, Cardinality(open)) = 0
        BY <4>2, ShareFacts
      <4>4. LeastOrder(open) \in Nat \ {0}
        BY <2>3, <2>6, LeastOrderFacts
      <4>5. QED
        BY <4>1, <4>3, <4>4 DEF TooSmall
    <3>3. QED
      BY <3>1, <3>2
  <2>7. QED
    BY <2>1, <2>5, <2>6 DEF Redistributed, P
<1>12. QED
  BY <1>6, <1>9, <1>10, <1>11 DEF p

--------------------------------------------------------------------------------
(* Plans: the steps of the account, and the first theorem. *)

\* What is planned for candidates of the right type is within their limits.
LEMMA PlanFacts ==
  ASSUME PlanningTyped
  PROVE  /\ Eligible \in SUBSET Markets /\ DOMAIN Candidates = Eligible
         /\ Plan \in [Eligible -> Nat]
         /\ WithinLimits(Candidates, balance, Plan)
         /\ EqualWeight(Candidates, balance, Plan)
         /\ Redistributed(Candidates, balance, Plan)
<1>1. Eligible \in SUBSET Markets
  BY DEF Eligible
<1>2. Candidates \in [Eligible -> Candidate] /\ balance \in Nat
  BY DEF PlanningTyped
<1>3. Plan = EqualWeightPlan(Candidates, balance)
  BY DEF Plan, Available
<1>4. QED
  BY <1>1, <1>2, <1>3, PlanKeepsPromises

LEMMA PlannedOrder ==
  ASSUME PlanningTyped, NEW m \in Markets
  PROVE  /\ Decided(m) \in 0 .. MaxOrder
         /\ Intended(m) =>
              /\ m \in Eligible /\ Decided(m) = Plan[m]
              /\ MinOrder[m] <= Decided(m) /\ Decided(m) <= offer[m].depth
              /\ Decided(m) <= balance /\ Exposure(m) + Decided(m) <= MaxMarket
<1>1. /\ MaxOrder \in Nat /\ MinOrder[m] \in Nat
      /\ Plan \in [Eligible -> Nat] /\ DOMAIN Candidates = Eligible
      /\ WithinLimits(Candidates, balance, Plan)
  BY AllocationAssumption, PlanFacts
<1>2. CASE m \in Eligible
  <2>1. Decided(m) = Plan[m] /\ Plan[m] \in Nat
    BY <1>1, <1>2 DEF Decided
  <2>2. CASE Plan[m] > 0
    <3>1. m \in Buyers(Plan)
      BY <1>1, <1>2, <2>2 DEF Buyers
    <3>2. /\ MinOrder[m] <= Plan[m] /\ Plan[m] <= MaxOrder /\ Plan[m] <= Candidates[m].depth
          /\ Plan[m] <= balance
          /\ Candidates[m].exposure + Plan[m] <= MaxMarket
      BY <1>1, <3>1 DEF WithinLimits
    <3>3. Candidates[m].depth = offer[m].depth /\ Candidates[m].exposure = Exposure(m)
      BY <1>2 DEF Candidates, CandidateSnapshot
    <3>4. Plan[m] \in 0 .. MaxOrder
      BY <1>1, <2>1, <3>2
    <3>5. QED
      BY <1>2, <2>1, <3>2, <3>3, <3>4
  <2>3. CASE ~ (Plan[m] > 0)
    BY <1>1, <2>1, <2>3 DEF Intended
  <2>4. QED
    BY <2>2, <2>3
<1>3. CASE m \notin Eligible
  <2>1. Decided(m) = 0
    BY <1>3 DEF Decided
  <2>2. QED
    BY <1>1, <2>1 DEF Intended
<1>4. QED
  BY <1>2, <1>3

\* The candidates have their type when the state has.
StateTyped ==
  /\ offer \in [Markets -> Offers]
  /\ status \in [Markets -> {"eligible", "paused", "outside"}]
  /\ cost \in [Markets -> Nat] /\ covered \in [Markets -> BOOLEAN]
  /\ resting \in [Markets -> 0 .. 1] /\ balance \in Nat
  /\ stage \in [Markets -> {"watching", "submitting", "over"}]
  /\ order.amount \in 0 .. MaxOrder /\ moves \in 0 .. MaxMoves

LEMMA OfferDepth ==
  ASSUME NEW o \in Offers
  PROVE  o.depth \in Nat
<1>1. CASE o \in [ask : {"none", "dear"}, depth : {0}]
  BY <1>1
<1>2. CASE o \in [ask : {"wide", "fair"}, depth : Depths]
  BY <1>2, PlanningAssumption
<1>3. QED
  BY <1>1, <1>2 DEF Offers

LEMMA StateTypedEnough == StateTyped => PlanningTyped
<1>1. SUFFICES ASSUME StateTyped  PROVE PlanningTyped
  OBVIOUS
<1>2. ASSUME NEW m \in Eligible
      PROVE  CandidateSnapshot(m) \in Candidate
  <2>1. m \in Markets
    BY DEF Eligible
  <2>2. offer[m].depth \in Nat
    BY <1>1, <2>1, OfferDepth DEF StateTyped
  <2>3. cost[m] \in Nat /\ resting[m] \in Nat
    BY <1>1, <2>1 DEF StateTyped
  <2>4. Exposure(m) \in Nat
    BY <2>3 DEF Exposure
  <2>5. QED
    BY <2>2, <2>4 DEF CandidateSnapshot, Candidate
<1>3. Candidates \in [Eligible -> Candidate]
  BY <1>2 DEF Candidates
<1>4. QED
  BY <1>1, <1>3 DEF StateTyped, PlanningTyped

LEMMA PlanningStarts == PlanningInit => StateTyped
<1>1. SUFFICES ASSUME PlanningInit  PROVE StateTyped
  OBVIOUS
<1>2. offer \in [Markets -> Offers]
  BY <1>1 DEF PlanningInit
<1>3. order.amount = 0
  BY <1>1 DEF PlanningInit, NoOrder
<1>4. QED
  BY <1>1, <1>2, <1>3, AllocationAssumption, PlanningAssumption DEF PlanningInit, StateTyped

LEMMA PlanningStep == StateTyped /\ [PlanningNext]_planningVars => StateTyped'
<1>1. SUFFICES ASSUME StateTyped, [PlanningNext]_planningVars  PROVE StateTyped'
  OBVIOUS
<1> USE <1>1 DEF StateTyped
<1>2. PlanningTyped
  BY StateTypedEnough
<1>3. MaxOrder \in Nat /\ MaxMoves \in Nat
  BY AllocationAssumption, PlanningAssumption
<1>4. ASSUME NEW m \in Markets, OrderSent(m)  PROVE StateTyped'
  <2>1. Decided(m) \in 0 .. MaxOrder
    BY <1>2, PlannedOrder
  <2>2. order'.amount = Decided(m)
    BY <1>4 DEF OrderSent, Intent
  <2>3. stage' \in [Markets -> {"watching", "submitting", "over"}]
    BY <1>4 DEF OrderSent
  <2>4. UNCHANGED <<offer, status, cost, covered, resting, balance, moves>>
    BY <1>4 DEF OrderSent
  <2>5. QED
    BY <2>1, <2>2, <2>3, <2>4
<1>5. ASSUME NEW m \in Markets, OrderRefused(m)  PROVE StateTyped'
  BY <1>5 DEF OrderRefused
<1>6. ASSUME NEW m \in Markets, ExitPlaced(m)  PROVE StateTyped'
  BY <1>6 DEF ExitPlaced
<1>7. ASSUME NEW m \in Markets, BookMoves(m)  PROVE StateTyped'
  BY <1>3, <1>7 DEF BookMoves, Move
<1>8. ASSUME NEW m \in Markets, StatusMoves(m)  PROVE StateTyped'
  BY <1>3, <1>8 DEF StatusMoves, Move
<1>9. ASSUME NEW m \in Markets, ExitFills(m)  PROVE StateTyped'
  BY <1>3, <1>9 DEF ExitFills, Move
<1>10. ASSUME NEW m \in Markets, HandBuys(m)  PROVE StateTyped'
  BY <1>3, <1>10 DEF HandBuys, Move
<1>11. ASSUME NEW spent \in 0 .. MaxOrder, OrderAnswered(spent)  PROVE StateTyped'
  <2>1. spent \in Nat
    BY <1>3
  <2>2. cost' \in [Markets -> Nat]
    <3>1. cost' = [cost EXCEPT ![order.market] = @ + spent]
      BY <1>11 DEF OrderAnswered
    <3>2. cost' = [m \in Markets |-> IF m = order.market THEN cost[m] + spent ELSE cost[m]]
      BY <3>1
    <3>3. \A m \in Markets : cost[m] \in Nat /\ cost[m] + spent \in Nat
      BY <2>1
    <3>4. QED
      BY <3>2, <3>3
  <2>3. covered' \in [Markets -> BOOLEAN]
    <3>1. covered' = [covered EXCEPT ![order.market] = @ /\ spent = 0]
      BY <1>11 DEF OrderAnswered
    <3>2. (covered[order.market] /\ spent = 0) \in BOOLEAN
      BY Zenon
    <3>3. QED
      BY <3>1, <3>2, Zenon
  <2>4. balance' \in Nat
    BY <1>11, <2>1 DEF OrderAnswered, AtLeast0
  <2>5. stage' \in [Markets -> {"watching", "submitting", "over"}]
    BY <1>11 DEF OrderAnswered
  <2>6. order'.amount \in 0 .. MaxOrder
    BY <1>3, <1>11 DEF OrderAnswered, NoOrder
  <2>7. QED
    BY <1>11, <2>2, <2>3, <2>4, <2>5, <2>6 DEF OrderAnswered
<1>12. CASE Restart
  BY <1>12 DEF Restart
<1>13. CASE UNCHANGED planningVars
  BY <1>13 DEF planningVars
<1>14. QED
  BY <1>4, <1>5, <1>6, <1>7, <1>8, <1>9, <1>10, <1>11, <1>12, <1>13 DEF PlanningNext

\* Whatever was bought, sold or placed by hand, and however the books and the
\* markets moved: a plan keeps to its limits, divides the budget into equal
\* weights, and leaves nothing that could be bought in equal parts.
THEOREM PlansAreSound == PlanningSpec => []PlanSound
<1>1. StateTyped => PlanSound
  BY StateTypedEnough, PlanFacts DEF PlanSound
<1>2. QED
  BY <1>1, PlanningStarts, PlanningStep, PTL DEF PlanningSpec

--------------------------------------------------------------------------------
(* Plans: the gates. *)

\* A gate that looks at what sizing has looked at passes; of the others one may
\* refuse, and the gate of the total only for the rounding of the quotients.
LEMMA GatesAgree ==
  ASSUME PlanningTyped, NEW m \in Markets, Intended(m)
  PROVE  /\ OrderSizeGate(Intent(m)) = Passed /\ MarketStateGate(Intent(m)) = Passed
         /\ MinOrderGate(Intent(m)) = Passed /\ LiquidityGate(Intent(m)) = Passed
         /\ ExposureGate(Intent(m)) \in {Passed, "total_limit_reached"}
         /\ OperationalGate(Intent(m)) \in {Passed, "open_orders_limit_reached"}
         /\ AccountGate(Intent(m)) \in {Passed, "allowance_insufficient"}
         /\ OpenBuyGate(Intent(m)) \in {Passed, "open_buy_detected"}
<1> DEFINE i == Intent(m)
<1>1. i.market = m /\ i.amount = Decided(m)
  BY DEF Intent
<1>2. /\ Decided(m) \in 0 .. MaxOrder /\ m \in Eligible
      /\ MinOrder[m] <= Decided(m) /\ Decided(m) <= offer[m].depth
      /\ Decided(m) <= balance /\ Exposure(m) + Decided(m) <= MaxMarket
  BY PlannedOrder
<1>3. MaxOrder \in Nat /\ MaxMarket \in Nat /\ MinOrder[m] \in Nat \ {0} /\ balance \in Nat
  BY AllocationAssumption DEF PlanningTyped
<1>4. status[m] = "eligible"
  BY <1>2 DEF Eligible
<1>5. offer[m].depth \in Nat
  BY OfferDepth DEF PlanningTyped
<1>6. Exposure(m) \in Nat
  <2>1. cost[m] \in Nat /\ resting[m] \in Nat
    BY DEF PlanningTyped
  <2>2. QED
    BY <2>1 DEF Exposure
<1>7. Decided(m) > 0
  BY DEF Intended
<1> HIDE DEF i
<1>8. OrderSizeGate(i) = Passed /\ MarketStateGate(i) = Passed
  BY <1>1, <1>4, <1>7 DEF OrderSizeGate, MarketStateGate
<1>9. MinOrderGate(i) = Passed /\ LiquidityGate(i) = Passed
  BY <1>1, <1>2, <1>3, <1>5 DEF MinOrderGate, LiquidityGate
<1>10. ExposureGate(i) \in {Passed, "total_limit_reached"}
  <2>1. ~ (i.amount > MaxOrder) /\ ~ (Exposure(i.market) + i.amount > MaxMarket)
    BY <1>1, <1>2, <1>3, <1>6
  <2>2. QED
    BY <2>1 DEF ExposureGate
<1>11. OperationalGate(i) \in {Passed, "open_orders_limit_reached"}
  BY DEF OperationalGate
<1>12. AccountGate(i) \in {Passed, "allowance_insufficient"}
  <2>1. ~ (i.amount > balance)
    BY <1>1, <1>2, <1>3
  <2>2. QED
    BY <2>1 DEF AccountGate
<1>13. OpenBuyGate(i) \in {Passed, "open_buy_detected"}
  BY DEF OpenBuyGate
<1>14. QED
  BY <1>8, <1>9, <1>10, <1>11, <1>12, <1>13 DEF i

\* A plan goes past the total limit by no more than its rounding.
LEMMA TotalRounded ==
  ASSUME PlanningTyped, NEW m \in Markets, Intended(m)
  PROVE  2 * (Spent(Plan) - MaxTotal) <= Cardinality(Buyers(Plan))
<1>1. /\ Eligible \in SUBSET Markets /\ DOMAIN Candidates = Eligible
      /\ Plan \in [Eligible -> Nat] /\ WithinLimits(Candidates, balance, Plan)
  BY PlanFacts
<1>2. MaxTotal \in Nat /\ IsFiniteSet(Eligible)
  BY <1>1, AllocationAssumption, FS_Subset
<1>3. m \in Buyers(Plan)
  BY <1>1, PlannedOrder DEF Intended, Buyers
<1>4. Exposed(Candidates) \in Nat
  BY <1>1, CandidateFacts DEF PlanningTyped
<1>5. Spent(Plan) \in Nat
  BY <1>1, <1>2, SumFinite DEF Spent
<1>6. 2 * (Spent(Plan) - (MaxTotal - Exposed(Candidates))) <= Cardinality(Buyers(Plan))
  BY <1>1, <1>3 DEF WithinLimits
<1>7. Cardinality(Buyers(Plan)) \in Nat
  <2>1. Buyers(Plan) \subseteq Eligible
    BY <1>1 DEF Buyers
  <2>2. QED
    BY <1>2, <2>1, FS_Subset, FS_CardinalityType
<1>8. QED
  BY <1>2, <1>4, <1>5, <1>6, <1>7

\* The first gate that refuses gives the verdict.
LEMMA VerdictOfAGate ==
  ASSUME NEW i
  PROVE  Verdict(i) \in {Passed, OrderSizeGate(i), MarketStateGate(i), MinOrderGate(i),
                         ExposureGate(i), OperationalGate(i), AccountGate(i),
                         LiquidityGate(i), OpenBuyGate(i)}
<1> DEFINE gates == <<OrderSizeGate(i), MarketStateGate(i), MinOrderGate(i), ExposureGate(i),
                      OperationalGate(i), AccountGate(i), LiquidityGate(i), OpenBuyGate(i)>>
           refusing == {n \in DOMAIN gates : gates[n] # Passed}
<1>1. Verdict(i) = IF refusing = {} THEN Passed ELSE gates[Min(refusing)]
  BY DEF Verdict
<1>2. DOMAIN gates = 1 .. 8
  OBVIOUS
<1>3. refusing \subseteq 1 .. 8
  BY <1>2
<1> HIDE DEF refusing
<1>4. IsFiniteSet(refusing) /\ \A n \in refusing : n \in Int
  <2>1. 1 \in Int /\ 8 \in Int
    OBVIOUS
  <2>2. IsFiniteSet(1 .. 8)
    BY <2>1, FS_Interval, Zenon
  <2>3. IsFiniteSet(refusing)
    BY <1>3, <2>2, FS_Subset, Zenon
  <2>4. \A n \in refusing : n \in Int
    BY <1>3
  <2>5. QED
    BY <2>3, <2>4
<1>5. CASE refusing # {}
  <2>1. Min(refusing) \in 1 .. 8
    BY <1>3, <1>4, <1>5, MinIn
  <2>2. Min(refusing) \in {1, 2, 3, 4, 5, 6, 7, 8}
    BY <2>1
  <2>3. QED
    BY <1>1, <1>5, <2>2
<1>6. QED
  BY <1>1, <1>5

\* The strategy and the risk manager agree: an order as planned is refused only
\* for what sizing does not look at, or for the rounding of the quotients.
THEOREM PlansPassReview == PlanningSpec => []PlanPassesReview
<1>1. StateTyped => PlanPassesReview
  <2>1. SUFFICES ASSUME StateTyped, NEW m \in Markets, Intended(m)
                 PROVE  \/ Verdict(Intent(m)) \in {Passed, "open_orders_limit_reached",
                                                   "allowance_insufficient", "open_buy_detected"}
                        \/ /\ Verdict(Intent(m)) = "total_limit_reached"
                           /\ 2 * (Spent(Plan) - MaxTotal) <= Cardinality(Buyers(Plan))
    BY DEF PlanPassesReview
  <2>2. PlanningTyped
    BY <2>1, StateTypedEnough
  <2>3. QED
    BY <2>1, <2>2, GatesAgree, TotalRounded, VerdictOfAGate
<1>2. QED
  BY <1>1, PlanningStarts, PlanningStep, PTL DEF PlanningSpec
================================================================================
