----------------------------- MODULE EventBus_proof -----------------------------
(***************************************************************************)
(* Proofs about EventBus for every choice of its constants.                *)
(* The order of keys is a fact about two sequences, a queue and a retained *)
(* list; one lemma says for each thing the bus does to them that it keeps  *)
(* the order.                                                              *)
(***************************************************************************)
EXTENDS EventBus, SequenceTheorems, TLAPS

\* What a flush leaves: both lists keep their types and bounds, and a lane that
\* is not paused keeps retained events only beside a full queue.
LEMMA FlushFacts ==
  ASSUME TypeOK, UNCHANGED log,
         NEW q \in [Lanes -> Seq(Published)],
         \A l \in Lanes : Len(q[l]) <= Capacity[l],
         NEW p \in BOOLEAN, Flush(p, q)
  PROVE  /\ queue' \in [Lanes -> Seq(Published)]
         /\ \A l \in Lanes : Len(queue'[l]) <= Capacity[l]
         /\ queue'["trading"] = q["trading"]
         /\ retained' \in [LowLanes -> Seq(Published)]
         /\ \A l \in LowLanes : Len(retained'[l]) <= RetainedCapacity
         /\ ~p => \A l \in LowLanes : retained'[l] # <<>> => Len(queue'[l]) = Capacity[l]
<1>1. ASSUME NEW l \in LowLanes
      PROVE  /\ Moved(p, q, l) \in 0..Len(retained[l])
             /\ Len(q[l]) + Moved(p, q, l) <= Capacity[l]
             /\ ~p /\ Moved(p, q, l) < Len(retained[l])
                  => Len(q[l]) + Moved(p, q, l) = Capacity[l]
  <2>1. /\ Len(q[l]) \in Nat /\ Len(retained[l]) \in Nat /\ Capacity[l] \in Nat
        /\ Len(q[l]) <= Capacity[l]
    BY BusAssumption DEF TypeOK, Lanes, LowLanes
  <2>2. QED
    BY <2>1 DEF Moved
<1>2. ASSUME NEW l \in LowLanes
      PROVE  /\ SubSeq(retained[l], 1, Moved(p, q, l)) \in Seq(Published)
             /\ Len(SubSeq(retained[l], 1, Moved(p, q, l))) = Moved(p, q, l)
             /\ retained'[l] \in Seq(Published)
             /\ Len(retained'[l]) = Len(retained[l]) - Moved(p, q, l)
  <2>1. retained[l] \in Seq(Published)
    BY DEF TypeOK
  <2>2. \A i \in 1..Len(retained[l]) : retained[l][i] \in Published
    BY <2>1
  <2>3. /\ SubSeq(retained[l], 1, Moved(p, q, l)) \in Seq(Published)
        /\ Len(SubSeq(retained[l], 1, Moved(p, q, l))) = Moved(p, q, l)
    BY <1>1, <2>1, <2>2, SubSeqProperties
  <2>4. /\ SubSeq(retained[l], Moved(p, q, l) + 1, Len(retained[l])) \in Seq(Published)
        /\ Len(SubSeq(retained[l], Moved(p, q, l) + 1, Len(retained[l])))
             = Len(retained[l]) - Moved(p, q, l)
    <3>1. /\ Moved(p, q, l) + 1 \in Int
          /\ Len(retained[l]) \in Int
          /\ \A i \in Moved(p, q, l) + 1 .. Len(retained[l]) : retained[l][i] \in Published
      BY <1>1, <2>1, <2>2
    <3>2. QED
      BY <1>1, <3>1, SubSeqProperties
  <2>5. retained'[l] = SubSeq(retained[l], Moved(p, q, l) + 1, Len(retained[l]))
    BY DEF Flush
  <2>6. QED
    BY <2>3, <2>4, <2>5
<1>3. ASSUME NEW l \in LowLanes
      PROVE  /\ queue'[l] \in Seq(Published)
             /\ Len(queue'[l]) = Len(q[l]) + Moved(p, q, l)
  <2>1. q[l] \in Seq(Published)
    BY DEF Lanes
  <2>2. queue'[l] = q[l] \o SubSeq(retained[l], 1, Moved(p, q, l))
    BY DEF Flush, Lanes
  <2>3. QED
    BY <1>2, <2>1, <2>2, ConcatProperties
<1>4. queue'["trading"] = q["trading"]
  BY DEF Flush, Lanes, LowLanes
<1>5. queue' \in [Lanes -> Seq(Published)]
  <2>1. \A l \in Lanes : queue'[l] \in Seq(Published)
    BY <1>3, <1>4 DEF Lanes
  <2>2. QED
    BY <2>1 DEF Flush
<1>6. \A l \in Lanes : Len(queue'[l]) <= Capacity[l]
  BY <1>1, <1>3, <1>4 DEF Lanes
<1>7. retained' \in [LowLanes -> Seq(Published)]
  BY <1>2 DEF Flush
<1>8. \A l \in LowLanes : Len(retained'[l]) <= RetainedCapacity
  <2> SUFFICES ASSUME NEW l \in LowLanes PROVE Len(retained'[l]) <= RetainedCapacity
    OBVIOUS
  <2>1. Len(retained[l]) <= RetainedCapacity /\ Len(retained[l]) \in Nat
    BY DEF TypeOK
  <2>2. QED
    BY <1>1, <1>2, <2>1, BusAssumption
<1>9. ~p => \A l \in LowLanes : retained'[l] # <<>> => Len(queue'[l]) = Capacity[l]
  <2> SUFFICES ASSUME ~p, NEW l \in LowLanes, retained'[l] # <<>>
               PROVE  Len(queue'[l]) = Capacity[l]
    OBVIOUS
  <2>1. Len(retained'[l]) # 0
    BY <1>2, EmptySeq
  <2>2. Moved(p, q, l) < Len(retained[l])
    BY <1>1, <1>2, <2>1
  <2>3. QED
    BY <1>1, <1>3, <2>2
<1>10. QED
  BY <1>4, <1>5, <1>6, <1>7, <1>8, <1>9

LEMMA AnyKeyIn == AnyKey \in Keys
BY BusAssumption DEF AnyKey

\* A publication is the last entry of the log; what was published stays so.
LEMMA LogFacts ==
  ASSUME TypeOK, NEW k \in Keys, NEW t \in Tasks \union {"background"}, Logged(k, t)
  PROVE  /\ log' \in Seq([key : Keys, own : BOOLEAN])
         /\ Len(log') = Len(log) + 1
         /\ Published \subseteq Published'
         /\ Len(log) + 1 \in Published'
         /\ \A s \in Seq(Published) : s \in Seq(Published')
<1>1. /\ log' \in Seq([key : Keys, own : BOOLEAN])
      /\ Len(log') = Len(log) + 1
      /\ Len(log) \in Nat
  BY DEF TypeOK, Logged
<1>2. Published \subseteq Published' /\ Len(log) + 1 \in Published'
  BY <1>1 DEF Published
<1>3. \A s \in Seq(Published) : s \in Seq(Published')
  BY <1>2, SeqMonotonic
<1>4. QED
  BY <1>1, <1>2, <1>3

\* The parts of TypeOK a publication of a background task leaves alone.
LEMMA GrowFacts ==
  ASSUME TypeOK, NEW k \in Keys, NEW t \in Tasks \union {"background"}, Logged(k, t)
  PROVE  /\ queue \in [Lanes -> Seq(Published')]
         /\ retained \in [LowLanes -> Seq(Published')]
         /\ waiting \in [Tasks -> Published' \union {Nothing}]
         /\ mirrored \subseteq Published'
         /\ delivered \in [LowLanes -> [Keys -> Published' \union {Nothing}]]
<1>1. queue \in [Lanes -> Seq(Published')] /\ retained \in [LowLanes -> Seq(Published')]
  BY LogFacts DEF TypeOK
<1>2. /\ waiting \in [Tasks -> Published' \union {Nothing}]
      /\ mirrored \subseteq Published'
  BY LogFacts DEF TypeOK
<1>3. delivered \in [LowLanes -> [Keys -> Published' \union {Nothing}]]
  <2>1. \A l \in LowLanes, j \in Keys : delivered[l][j] \in Published' \union {Nothing}
    BY LogFacts DEF TypeOK
  <2>2. QED
    BY <2>1 DEF TypeOK
<1>4. QED
  BY <1>1, <1>2, <1>3

\* The retained list after _retain: one entry more or one replaced, within the
\* bound.
LEMMA RetainFacts ==
  ASSUME TypeOK, NEW l \in LowLanes, NEW k \in Keys, NEW n, NEW S,
         Published \subseteq S, n \in S, Retained(l, k, n) = retained'
  PROVE  /\ retained' \in [LowLanes -> Seq(S)]
         /\ \A m \in LowLanes : Len(retained'[m]) <= RetainedCapacity
         /\ \A m \in LowLanes : m # l => retained'[m] = retained[m]
<1> DEFINE r == retained[l]
<1>1. /\ r \in Seq(S) /\ Len(r) \in Nat /\ Len(r) <= RetainedCapacity
      /\ retained \in [LowLanes -> Seq(S)]
  <2>1. \A s \in Seq(Published) : s \in Seq(S)
    BY SeqMonotonic
  <2>2. QED
    BY <2>1 DEF TypeOK
<1>2. CASE SameKey(l, k) # {}
  <2> DEFINE i == CHOOSE i \in SameKey(l, k) : \A j \in SameKey(l, k) : i <= j
  <2>1. retained' = [retained EXCEPT ![l][i] = n]
    BY <1>2 DEF Retained
  <2>2. retained'[l] = [r EXCEPT ![i] = n]
    BY <2>1, <1>1
  <2>3. [r EXCEPT ![i] = n] \in Seq(S) /\ Len([r EXCEPT ![i] = n]) = Len(r)
    <3> HIDE DEF i
    <3>1. CASE i \in 1..Len(r)
      BY <1>1, <3>1, ExceptSeq
    <3>2. CASE i \notin 1..Len(r)
      <4>1. [r EXCEPT ![i] = n] = r
        BY <1>1, <3>2
      <4>2. QED
        BY <1>1, <4>1
    <3>3. QED
      BY <3>1, <3>2
  <2>4. QED
    BY <1>1, <2>1, <2>2, <2>3 DEF TypeOK
<1>3. CASE SameKey(l, k) = {} /\ Len(r) >= RetainedCapacity
  <2>1. retained' = [retained EXCEPT ![l] = Append(Tail(r), n)]
    BY <1>3 DEF Retained
  <2>2. r # <<>>
    BY <1>3, <1>1, EmptySeq, BusAssumption
  <2>3. Tail(r) \in Seq(S) /\ Len(Tail(r)) = Len(r) - 1
    BY <1>1, <2>2, HeadTailProperties
  <2>4. Append(Tail(r), n) \in Seq(S) /\ Len(Append(Tail(r), n)) = Len(r)
    BY <1>1, <2>3, AppendProperties
  <2>5. QED
    BY <1>1, <2>1, <2>4 DEF TypeOK
<1>4. CASE SameKey(l, k) = {} /\ ~(Len(r) >= RetainedCapacity)
  <2>1. retained' = [retained EXCEPT ![l] = Append(r, n)]
    BY <1>4 DEF Retained
  <2>2. Append(r, n) \in Seq(S) /\ Len(Append(r, n)) = Len(r) + 1
    BY <1>1, AppendProperties
  <2>3. QED
    BY <1>1, <1>4, <2>1, <2>2, BusAssumption DEF TypeOK
<1>5. QED
  BY <1>2, <1>3, <1>4

\* A queue one entry longer or shorter.
LEMMA QueueFacts ==
  ASSUME NEW S, queue \in [Lanes -> Seq(S)],
         \A l \in Lanes : Len(queue[l]) <= Capacity[l], NEW l \in Lanes
  PROVE  /\ \A n \in S :
              ~IsFull(l) =>
                LET q == [queue EXCEPT ![l] = Append(@, n)]
                IN  q \in [Lanes -> Seq(S)] /\ \A m \in Lanes : Len(q[m]) <= Capacity[m]
         /\ queue[l] # <<>> =>
              LET q == [queue EXCEPT ![l] = Tail(@)]
              IN  /\ q \in [Lanes -> Seq(S)]
                  /\ \A m \in Lanes : Len(q[m]) <= Capacity[m]
                  /\ Head(queue[l]) \in S
<1>1. queue[l] \in Seq(S) /\ Len(queue[l]) \in Nat /\ Capacity[l] \in Nat
  BY BusAssumption
<1>2. ASSUME NEW n \in S, ~IsFull(l)
      PROVE  LET q == [queue EXCEPT ![l] = Append(@, n)]
             IN  q \in [Lanes -> Seq(S)] /\ \A m \in Lanes : Len(q[m]) <= Capacity[m]
  <2>1. /\ Append(queue[l], n) \in Seq(S)
        /\ Len(Append(queue[l], n)) = Len(queue[l]) + 1
    BY <1>1, AppendProperties
  <2>2. QED
    BY <1>1, <1>2, <2>1 DEF IsFull
<1>3. ASSUME queue[l] # <<>>
      PROVE  LET q == [queue EXCEPT ![l] = Tail(@)]
             IN  /\ q \in [Lanes -> Seq(S)]
                 /\ \A m \in Lanes : Len(q[m]) <= Capacity[m]
                 /\ Head(queue[l]) \in S
  <2>1. /\ Tail(queue[l]) \in Seq(S) /\ Head(queue[l]) \in S
        /\ Len(Tail(queue[l])) = Len(queue[l]) - 1
    BY <1>1, <1>3, HeadTailProperties
  <2>2. QED
    BY <1>1, <2>1
<1>4. QED
  BY <1>2, <1>3

\* Inductive for Next: the shape of the state and the retained events.
Inv == TypeOK /\ RetainedOnlyWhenFull

LEMMA InitInv == Init => Inv
<1> SUFFICES ASSUME Init PROVE Inv
  OBVIOUS
<1>1. <<>> \in Seq(Published) /\ Len(<<>>) = 0
  BY EmptySeq
<1>2. log \in Seq([key : Keys, own : BOOLEAN])
  BY DEF Init
<1>3. /\ queue \in [Lanes -> Seq(Published)]
      /\ \A l \in Lanes : queue[l] = <<>>
  BY <1>1 DEF Init
<1>4. /\ retained \in [LowLanes -> Seq(Published)]
      /\ \A l \in LowLanes : retained[l] = <<>>
  BY <1>1 DEF Init
<1>5. waiting \in [Tasks -> Published \union {Nothing}]
  BY DEF Init
<1>6. delivered \in [LowLanes -> [Keys -> Published \union {Nothing}]]
  BY DEF Init, Nothing
<1>7. \A l \in Lanes : Len(queue[l]) <= Capacity[l]
  BY <1>1, <1>3, BusAssumption
<1>8. \A l \in LowLanes : Len(retained[l]) <= RetainedCapacity
  BY <1>1, <1>4, BusAssumption
<1>9. paused \in BOOLEAN /\ todo \in -1..Emits /\ mirrored \subseteq Published
  <2>1. Emits \in Nat
    BY BusAssumption
  <2>2. todo \in -1..Emits
    BY <2>1 DEF Init
  <2>3. mirrored \subseteq Published
    BY DEF Init
  <2>4. QED
    BY <2>2, <2>3 DEF Init
<1>10. TypeOK
  <2>1. reconciling \in BOOLEAN /\ ended \subseteq Consumers
    BY DEF Init
  <2>2. QED
    BY <1>2, <1>3, <1>4, <1>5, <1>6, <1>7, <1>8, <1>9, <2>1 DEF TypeOK
<1>11. RetainedOnlyWhenFull
  BY <1>4 DEF RetainedOnlyWhenFull
<1>12. QED
  BY <1>10, <1>11 DEF Inv

LEMMA NextInv == Inv /\ [Next]_vars => Inv'
<1> SUFFICES ASSUME Inv, [Next]_vars PROVE Inv'
  OBVIOUS
<1> USE DEF Inv
<1>1. ASSUME NEW t \in Tasks, PublishTrading(t) PROVE Inv'
  <2>1. Logged(AnyKey, t) /\ t \in Tasks \union {"background"} /\ AnyKey \in Keys
    BY <1>1, AnyKeyIn DEF PublishTrading
  <2>2. Len(log) + 1 \in Published' /\ Len(log') = Len(log) + 1
    BY <2>1, LogFacts
  <2>3. todo' \in -1..Emits
    BY <1>1, BusAssumption DEF PublishTrading, MayPublish, TypeOK, Worker
  <2>4. CASE IsFull("trading")
    <3>1. /\ queue' = queue /\ mirrored' = mirrored
          /\ waiting' = [waiting EXCEPT ![t] = Len(log) + 1]
      BY <1>1, <2>4 DEF PublishTrading
    <3>2. TypeOK'
      BY <1>1, <2>1, <2>2, <2>3, <3>1, LogFacts, GrowFacts DEF PublishTrading, TypeOK, loops
    <3>3. RetainedOnlyWhenFull'
      BY <1>1, <3>1 DEF PublishTrading, RetainedOnlyWhenFull
    <3>4. QED
      BY <3>2, <3>3
  <2>5. CASE ~IsFull("trading")
    <3>1. /\ queue' = [queue EXCEPT !["trading"] = Append(@, Len(log) + 1)]
          /\ mirrored' \subseteq mirrored \union {Len(log) + 1}
          /\ waiting' = waiting
      BY <1>1, <2>5 DEF PublishTrading, Mirror
    <3>2. queue' \in [Lanes -> Seq(Published')] /\ \A m \in Lanes : Len(queue'[m]) <= Capacity[m]
      <4>1. queue \in [Lanes -> Seq(Published')] /\ "trading" \in Lanes
        BY <2>1, GrowFacts DEF Lanes
      <4>2. \A m \in Lanes : Len(queue[m]) <= Capacity[m]
        BY DEF TypeOK
      <4>3. \A n \in Published' :
              ~IsFull("trading") =>
                LET r == [queue EXCEPT !["trading"] = Append(@, n)]
                IN  r \in [Lanes -> Seq(Published')] /\ \A m \in Lanes : Len(r[m]) <= Capacity[m]
        BY <4>1, <4>2, QueueFacts
      <4>4. QED
        BY <2>2, <2>5, <3>1, <4>3
    <3>3. mirrored' \subseteq Published'
      BY <2>1, <2>2, <3>1, GrowFacts
    <3>4. TypeOK'
      BY <1>1, <2>1, <2>3, <3>1, <3>2, <3>3, LogFacts, GrowFacts DEF PublishTrading, TypeOK, loops
    <3>5. RetainedOnlyWhenFull'
      BY <1>1, <3>1 DEF PublishTrading, RetainedOnlyWhenFull, LowLanes, TypeOK, Lanes
    <3>6. QED
      BY <3>4, <3>5
  <2>6. QED
    BY <2>4, <2>5
<1>2. ASSUME NEW t \in Tasks, PutWaiting(t) PROVE Inv'
  <2>1. waiting[t] \in Published /\ ~IsFull("trading")
    BY <1>2 DEF PutWaiting, TypeOK
  <2>2. queue' \in [Lanes -> Seq(Published)] /\ \A m \in Lanes : Len(queue'[m]) <= Capacity[m]
    BY <1>2, <2>1, QueueFacts DEF PutWaiting, TypeOK, Lanes
  <2>3. mirrored' \subseteq Published
    BY <1>2, <2>1 DEF PutWaiting, Mirror, TypeOK
  <2>4. TypeOK'
    BY <1>2, <2>2, <2>3 DEF PutWaiting, TypeOK, Published, loops
  <2>5. RetainedOnlyWhenFull'
    BY <1>2 DEF PutWaiting, RetainedOnlyWhenFull, LowLanes, TypeOK, Lanes
  <2>6. QED
    BY <2>4, <2>5
<1>3. ASSUME NEW t \in Tasks, TaskEnds(t) PROVE Inv'
  <2>1. /\ todo' \in -1..Emits /\ reconciling' \in BOOLEAN /\ ended' \subseteq Consumers
        /\ waiting' \in [Tasks -> Published \union {Nothing}]
    BY <1>3, BusAssumption DEF TaskEnds, TypeOK
  <2>2. UNCHANGED <<log, queue, retained, paused, mirrored, delivered>>
    BY <1>3 DEF TaskEnds
  <2>3. TypeOK'
    BY <2>1, <2>2 DEF TypeOK, Published
  <2>4. QED
    BY <2>2, <2>3 DEF RetainedOnlyWhenFull
<1>4. ASSUME NextTradingEvent PROVE Inv'
  <2> DEFINE q == [queue EXCEPT !["trading"] = Tail(@)]
  <2>1. Flush(paused, q)
        /\ UNCHANGED <<log, paused, waiting, reconciling, ended, mirrored, delivered>>
    BY <1>4 DEF NextTradingEvent, loops
  <2>2. q \in [Lanes -> Seq(Published)] /\ \A m \in Lanes : Len(q[m]) <= Capacity[m]
    BY <1>4, QueueFacts DEF NextTradingEvent, TypeOK, Lanes
  <2>3. paused \in BOOLEAN
    BY DEF TypeOK
  <2>4. todo' \in -1..Emits
    BY <1>4, BusAssumption DEF NextTradingEvent
  <2> HIDE DEF q
  <2>5. TypeOK'
    BY <2>1, <2>2, <2>3, <2>4, FlushFacts DEF TypeOK, Published
  <2>6. RetainedOnlyWhenFull'
    BY <2>1, <2>2, <2>3, FlushFacts DEF RetainedOnlyWhenFull
  <2>7. QED
    BY <2>5, <2>6
<1>5. ASSUME EventHandled PROVE Inv'
  <2>1. TypeOK'
    BY <1>5, BusAssumption DEF EventHandled, TypeOK, Published, loops
  <2>2. QED
    BY <1>5, <2>1 DEF EventHandled, RetainedOnlyWhenFull
<1>6. ASSUME NEW l \in LowLanes, NEW k \in Keys, PublishLow(l, k) PROVE Inv'
  <2>1. Logged(k, "background") /\ "background" \in Tasks \union {"background"}
    BY <1>6 DEF PublishLow
  <2>2. Len(log) + 1 \in Published' /\ Published \subseteq Published'
    BY <2>1, LogFacts
  <2>3. mirrored' \subseteq Published'
    BY <1>6, <2>1, <2>2, GrowFacts DEF PublishLow, Mirror
  <2>4. \A m \in Lanes : Len(queue[m]) <= Capacity[m]
    BY DEF TypeOK
  <2>5. CASE UNCHANGED <<queue, retained>>
    <3>1. TypeOK'
      BY <1>6, <2>1, <2>3, <2>5, LogFacts, GrowFacts DEF PublishLow, TypeOK, loops
    <3>2. QED
      BY <1>6, <2>5, <3>1 DEF PublishLow, RetainedOnlyWhenFull
  <2>6. CASE (paused \/ IsFull(l)) /\ retained' = Retained(l, k, Len(log) + 1) /\ queue' = queue
    <3>1. /\ retained' \in [LowLanes -> Seq(Published')]
          /\ \A m \in LowLanes : Len(retained'[m]) <= RetainedCapacity
          /\ \A m \in LowLanes : m # l => retained'[m] = retained[m]
      BY <2>2, <2>6, RetainFacts
    <3>2. TypeOK'
      BY <1>6, <2>1, <2>3, <2>6, <3>1, LogFacts, GrowFacts DEF PublishLow, TypeOK, loops
    <3>3. IsFull(l) => Len(queue[l]) = Capacity[l]
      BY <2>4, BusAssumption DEF IsFull, TypeOK, Lanes
    <3>4. RetainedOnlyWhenFull'
      BY <1>6, <2>6, <3>1, <3>3 DEF PublishLow, RetainedOnlyWhenFull
    <3>5. QED
      BY <3>2, <3>4
  <2>7. CASE /\ ~paused /\ ~IsFull(l) /\ retained' = retained
             /\ queue' = [queue EXCEPT ![l] = Append(@, Len(log) + 1)]
    <3>1. queue' \in [Lanes -> Seq(Published')] /\ \A m \in Lanes : Len(queue'[m]) <= Capacity[m]
      <4>1. queue \in [Lanes -> Seq(Published')] /\ l \in Lanes
        BY <2>1, GrowFacts DEF Lanes
      <4>2. \A n \in Published' :
              ~IsFull(l) =>
                LET r == [queue EXCEPT ![l] = Append(@, n)]
                IN  r \in [Lanes -> Seq(Published')] /\ \A m \in Lanes : Len(r[m]) <= Capacity[m]
        BY <4>1, <2>4, QueueFacts
      <4>3. QED
        BY <2>2, <2>7, <4>2
    <3>2. TypeOK'
      BY <1>6, <2>1, <2>3, <2>7, <3>1, LogFacts, GrowFacts DEF PublishLow, TypeOK, loops
    <3>3. retained[l] = <<>>
      BY <2>4, <2>7, BusAssumption DEF IsFull, RetainedOnlyWhenFull, TypeOK, Lanes
    <3>4. RetainedOnlyWhenFull'
      BY <1>6, <2>7, <3>3 DEF PublishLow, RetainedOnlyWhenFull, TypeOK, Lanes
    <3>5. QED
      BY <3>2, <3>4
  <2>8. QED
    BY <1>6, <2>5, <2>6, <2>7 DEF PublishLow, MustRetain
<1>7. ASSUME NEW l \in LowLanes, NextLowEvent(l) PROVE Inv'
  <2> DEFINE q == [queue EXCEPT ![l] = Tail(@)]
             n == Head(queue[l])
  <2>1. Flush(paused, q) /\ UNCHANGED <<log, paused, waiting, todo, ended, mirrored>>
        /\ reconciling' \in BOOLEAN
    BY <1>7 DEF NextLowEvent, Take, TypeOK
  <2>2. /\ q \in [Lanes -> Seq(Published)]
        /\ \A m \in Lanes : Len(q[m]) <= Capacity[m]
        /\ n \in Published
    BY <1>7, QueueFacts DEF NextLowEvent, TypeOK, Lanes
  <2>3. delivered' \in [LowLanes -> [Keys -> Published \union {Nothing}]]
    <3>1. log[n].key \in Keys
      <4>1. n \in 1..Len(log) /\ log \in Seq([key : Keys, own : BOOLEAN])
        BY <2>2 DEF TypeOK, Published
      <4>2. log[n] \in [key : Keys, own : BOOLEAN]
        BY <4>1, ElementOfSeq
      <4>3. QED
        BY <4>2
    <3>2. delivered' = [delivered EXCEPT ![l][log[n].key] = n]
      BY <1>7 DEF NextLowEvent
    <3>3. QED
      BY <2>2, <3>1, <3>2 DEF TypeOK
  <2>4. paused \in BOOLEAN
    BY DEF TypeOK
  <2> HIDE DEF q, n
  <2>5. TypeOK'
    BY <2>1, <2>2, <2>3, <2>4, FlushFacts DEF TypeOK, Published
  <2>6. RetainedOnlyWhenFull'
    BY <2>1, <2>2, <2>4, FlushFacts DEF RetainedOnlyWhenFull
  <2>7. QED
    BY <2>5, <2>6
<1>8. ASSUME PauseLowPriority PROVE Inv'
  <2>1. TypeOK'
    BY <1>8 DEF PauseLowPriority, TypeOK, Published, loops
  <2>2. QED
    BY <1>8, <2>1 DEF PauseLowPriority, RetainedOnlyWhenFull
<1>9. ASSUME ResumeLowPriority PROVE Inv'
  <2>1. /\ Flush(FALSE, queue) /\ paused' = FALSE
        /\ UNCHANGED <<log, waiting, todo, reconciling, ended, mirrored, delivered>>
    BY <1>9 DEF ResumeLowPriority, loops
  <2>2. queue \in [Lanes -> Seq(Published)] /\ \A m \in Lanes : Len(queue[m]) <= Capacity[m]
    BY DEF TypeOK
  <2>3. TypeOK'
    BY <2>1, <2>2, FlushFacts DEF TypeOK, Published
  <2>4. RetainedOnlyWhenFull'
    BY <2>1, <2>2, FlushFacts DEF RetainedOnlyWhenFull
  <2>5. QED
    BY <2>3, <2>4
<1>10. ASSUME RunEnds PROVE Inv'
  <2>1. TypeOK'
    BY <1>10 DEF RunEnds, TypeOK, Published
  <2>2. QED
    BY <1>10, <2>1 DEF RunEnds, RetainedOnlyWhenFull
<1>11. ASSUME UNCHANGED vars PROVE Inv'
  BY <1>11 DEF vars, TypeOK, Published, RetainedOnlyWhenFull
<1>12. QED
  BY <1>1, <1>2, <1>3, <1>4, <1>5, <1>6, <1>7, <1>8, <1>9, <1>10, <1>11 DEF Next

\* For all capacities and any number of publishers no queue or retained list
\* outgrows its bound, and no low priority event is ever stranded in a retained
\* list beside a queue with room, unless the lanes are paused.
THEOREM LanesSafe == Spec => []LanesSound
<1>1. Inv => LanesSound
  BY DEF Inv, LanesSound
<1>2. QED
  BY <1>1, InitInv, NextInv, PTL DEF Spec

--------------------------------------------------------------------------------
(* The order of the events of one identity. *)

\* A queue q, a retained list r and the newest deliveries d, under the log g:
\* both lists hold the events of one key in the order of their publication, the
\* retained list each key once and after the queue, and all are newer than what
\* was delivered.
QueueInOrder(q, g) ==
  \A i, j \in 1..Len(q) : i < j /\ g[q[i]].key = g[q[j]].key => q[i] < q[j]

RetainedAfterQueue(q, r, g) ==
  \A i \in 1..Len(q), j \in 1..Len(r) : g[q[i]].key = g[r[j]].key => q[i] < r[j]

RetainedOnce(r, g) == \A i, j \in 1..Len(r) : g[r[i]].key = g[r[j]].key => i = j

NewerThan(s, d, g) == \A i \in 1..Len(s) : d[g[s[i]].key] < s[i]

Ordered(q, r, d, g) ==
  /\ QueueInOrder(q, g)
  /\ RetainedAfterQueue(q, r, g)
  /\ RetainedOnce(r, g)
  /\ NewerThan(q, d, g) /\ NewerThan(r, d, g)

LanesOrdered == \A l \in LowLanes : Ordered(queue[l], retained[l], delivered[l], log)

\* Moving retained events to the end of the queue keeps the order.
LEMMA OrderedFlush ==
  ASSUME NEW q \in Seq(Nat), NEW r \in Seq(Nat), NEW d, NEW g, NEW m \in 0..Len(r),
         Ordered(q, r, d, g)
  PROVE  Ordered(q \o SubSeq(r, 1, m), SubSeq(r, m + 1, Len(r)), d, g)
<1> DEFINE a == SubSeq(r, 1, m)
           p == q \o a
           b == SubSeq(r, m + 1, Len(r))
<1>1. /\ Len(q) \in Nat /\ Len(r) \in Nat /\ m \in Nat /\ m <= Len(r)
      /\ \A i \in 1..Len(q) : q[i] \in Nat
      /\ \A i \in 1..Len(r) : r[i] \in Nat
  OBVIOUS
<1>2. /\ a \in Seq(Nat) /\ Len(a) = m
      /\ \A i \in 1..m : a[i] = r[i]
  BY <1>1, SubSeqProperties
<1>3. /\ b \in Seq(Nat) /\ Len(b) = Len(r) - m
      /\ \A i \in 1..Len(b) : b[i] = r[m + i] /\ m + i \in 1..Len(r)
  <2>1. /\ SubSeq(r, m + 1, Len(r)) \in Seq(Nat)
        /\ Len(SubSeq(r, m + 1, Len(r))) = IF m + 1 <= Len(r) THEN Len(r) - (m + 1) + 1 ELSE 0
        /\ \A i \in 1 .. Len(r) - (m + 1) + 1 : SubSeq(r, m + 1, Len(r))[i] = r[(m + 1) + i - 1]
    BY <1>1, SubSeqProperties
  <2>2. Len(b) = Len(r) - m /\ Len(r) - (m + 1) + 1 = Len(r) - m
    BY <1>1, <2>1
  <2>3. ASSUME NEW i \in 1..Len(b) PROVE b[i] = r[m + i] /\ m + i \in 1..Len(r)
    <3> HIDE DEF b
    <3>1. m + i \in 1..Len(r) /\ (m + 1) + i - 1 = m + i /\ i \in 1 .. Len(r) - m
      BY <1>1, <2>2
    <3> USE DEF b
    <3>2. QED
      BY <2>1, <2>2, <3>1
  <2>4. QED
    BY <2>1, <2>2, <2>3
<1> HIDE DEF a, b
<1>4. /\ Len(p) = Len(q) + m
      /\ \A i \in 1..Len(q) : p[i] = q[i]
      /\ \A i \in Len(q) + 1 .. Len(p) : p[i] = r[i - Len(q)] /\ i - Len(q) \in 1..m
  <2>1. /\ p \in Seq(Nat) /\ Len(p) = Len(q) + Len(a)
        /\ \A i \in 1 .. Len(q) + Len(a) : p[i] = IF i <= Len(q) THEN q[i] ELSE a[i - Len(q)]
    BY <1>2, ConcatProperties
  <2> HIDE DEF p
  <2>2. ASSUME NEW i \in 1..Len(q) PROVE p[i] = q[i]
    BY <1>1, <1>2, <2>1
  <2>3. ASSUME NEW i \in Len(q) + 1 .. Len(p)
        PROVE  p[i] = r[i - Len(q)] /\ i - Len(q) \in 1..m
    <3>1. i \in 1 .. Len(q) + Len(a) /\ ~(i <= Len(q)) /\ i - Len(q) \in 1..m
      BY <1>1, <1>2, <2>1
    <3>2. QED
      BY <1>2, <2>1, <3>1
  <2>4. QED
    BY <1>2, <2>1, <2>2, <2>3
<1> HIDE DEF p
<1>5. QueueInOrder(p, g)
  <2> SUFFICES ASSUME NEW i \in 1..Len(p), NEW j \in 1..Len(p), i < j, g[p[i]].key = g[p[j]].key
               PROVE  p[i] < p[j]
    BY DEF QueueInOrder
  <2>1. CASE j <= Len(q)
    <3>1. i \in 1..Len(q) /\ j \in 1..Len(q)
      BY <1>1, <1>4, <2>1
    <3>2. p[i] = q[i] /\ p[j] = q[j]
      BY <1>4, <3>1
    <3>3. QED
      BY <3>1, <3>2 DEF Ordered, QueueInOrder
  <2>2. CASE i <= Len(q) /\ j > Len(q)
    <3>1. p[i] = q[i] /\ p[j] = r[j - Len(q)] /\ i \in 1..Len(q) /\ j - Len(q) \in 1..Len(r)
      BY <1>1, <1>4, <2>2
    <3>2. QED
      BY <3>1 DEF Ordered, RetainedAfterQueue
  <2>3. CASE i > Len(q)
    <3>1. /\ p[i] = r[i - Len(q)] /\ p[j] = r[j - Len(q)]
          /\ i - Len(q) \in 1..Len(r) /\ j - Len(q) \in 1..Len(r) /\ i - Len(q) # j - Len(q)
      BY <1>1, <1>4, <2>3
    <3>2. QED
      BY <3>1 DEF Ordered, RetainedOnce
  <2>4. QED
    BY <1>1, <2>1, <2>2, <2>3
<1>6. RetainedAfterQueue(p, b, g)
  <2> SUFFICES ASSUME NEW i \in 1..Len(p), NEW j \in 1..Len(b), g[p[i]].key = g[b[j]].key
               PROVE  p[i] < b[j]
    BY DEF RetainedAfterQueue
  <2>1. b[j] = r[m + j] /\ m + j \in 1..Len(r)
    BY <1>3
  <2>2. CASE i <= Len(q)
    <3>1. i \in 1..Len(q) /\ p[i] = q[i]
      BY <1>1, <1>4, <2>2
    <3>2. QED
      BY <2>1, <3>1 DEF Ordered, RetainedAfterQueue
  <2>3. CASE i > Len(q)
    <3>1. i \in Len(q) + 1 .. Len(p) /\ j \in Nat \ {0}
      <4>1. j \in Nat \ {0}
        BY <1>1, <1>3
      <4>2. i \in Len(q) + 1 .. Len(p)
        BY <1>1, <1>4, <2>3
      <4>3. QED
        BY <4>1, <4>2
    <3>2. p[i] = r[i - Len(q)] /\ i - Len(q) \in 1..m
      BY <1>4, <3>1
    <3>3. i - Len(q) \in 1..Len(r) /\ i - Len(q) # m + j
      BY <1>1, <3>1, <3>2
    <3>4. QED
      BY <2>1, <3>2, <3>3 DEF Ordered, RetainedOnce
  <2>4. QED
    BY <1>1, <2>2, <2>3
<1>7. RetainedOnce(b, g)
  <2> SUFFICES ASSUME NEW i \in 1..Len(b), NEW j \in 1..Len(b), g[b[i]].key = g[b[j]].key
               PROVE  i = j
    BY DEF RetainedOnce
  <2>1. m + i = m + j
    <3>1. /\ b[i] = r[m + i] /\ m + i \in 1..Len(r)
          /\ b[j] = r[m + j] /\ m + j \in 1..Len(r)
      BY <1>3
    <3>2. g[r[m + i]].key = g[r[m + j]].key
      BY <3>1
    <3>3. QED
      BY <3>1, <3>2 DEF Ordered, RetainedOnce
  <2>2. QED
    BY <1>1, <1>3, <2>1
<1>8. NewerThan(p, d, g)
  <2> SUFFICES ASSUME NEW i \in 1..Len(p) PROVE d[g[p[i]].key] < p[i]
    BY DEF NewerThan
  <2>1. CASE i <= Len(q)
    BY <1>1, <1>4, <2>1 DEF Ordered, NewerThan
  <2>2. CASE i > Len(q)
    <3>1. p[i] = r[i - Len(q)] /\ i - Len(q) \in 1..Len(r)
      BY <1>1, <1>4, <2>2
    <3>2. QED
      BY <3>1 DEF Ordered, NewerThan
  <2>3. QED
    BY <1>1, <2>1, <2>2
<1>9. NewerThan(b, d, g)
  BY <1>3 DEF Ordered, NewerThan
<1>10. QED
  BY <1>5, <1>6, <1>7, <1>8, <1>9 DEF Ordered, p, a, b

\* Taking the oldest event of the queue keeps the order: what is left of its
\* key is newer.
LEMMA OrderedTake ==
  ASSUME NEW q \in Seq(Nat), q # <<>>, NEW r \in Seq(Nat), NEW g, NEW d \in [Keys -> Nat],
         g[Head(q)].key \in Keys, Ordered(q, r, d, g)
  PROVE  Ordered(Tail(q), r, [d EXCEPT ![g[Head(q)].key] = Head(q)], g)
<1> DEFINE n == Head(q)
           k == g[n].key
           t == Tail(q)
           e == [d EXCEPT ![k] = n]
<1>1. /\ Len(q) \in Nat \ {0} /\ n = q[1] /\ t \in Seq(Nat) /\ Len(t) = Len(q) - 1
      /\ \A i \in 1..Len(t) : t[i] = q[i + 1] /\ i + 1 \in 1..Len(q)
  <2>1. n = q[1] /\ t \in Seq(Nat) /\ Len(t) = Len(q) - 1 /\ \A i \in 1..Len(t) : t[i] = q[i + 1]
    BY HeadTailProperties
  <2>2. Len(q) \in Nat \ {0}
    BY EmptySeq
  <2>3. QED
    BY <2>1, <2>2
<1>2. \A s \in Seq(Nat) : \A i \in 1..Len(s) :
        d[g[s[i]].key] < s[i] /\ (g[s[i]].key = k => n < s[i]) => e[g[s[i]].key] < s[i]
  OBVIOUS
<1> HIDE DEF n, t, k, e
<1>3. QueueInOrder(t, g)
  <2> SUFFICES ASSUME NEW i \in 1..Len(t), NEW j \in 1..Len(t), i < j, g[t[i]].key = g[t[j]].key
               PROVE  t[i] < t[j]
    BY DEF QueueInOrder
  <2>1. i + 1 < j + 1 /\ i + 1 \in 1..Len(q) /\ j + 1 \in 1..Len(q)
    BY <1>1
  <2>2. QED
    BY <1>1, <2>1 DEF Ordered, QueueInOrder
<1>4. RetainedAfterQueue(t, r, g)
  BY <1>1 DEF Ordered, RetainedAfterQueue
<1>5. NewerThan(t, e, g)
  <2> SUFFICES ASSUME NEW i \in 1..Len(t) PROVE e[g[t[i]].key] < t[i]
    BY DEF NewerThan
  <2>1. t[i] = q[i + 1] /\ i + 1 \in 1..Len(q) /\ 1 \in 1..Len(q) /\ 1 < i + 1
    BY <1>1
  <2>2. d[g[t[i]].key] < t[i]
    BY <2>1 DEF Ordered, NewerThan
  <2>3. g[t[i]].key = k => n < t[i]
    BY <1>1, <2>1 DEF Ordered, QueueInOrder, k
  <2>4. QED
    BY <1>1, <1>2, <2>2, <2>3
<1>6. NewerThan(r, e, g)
  <2> SUFFICES ASSUME NEW i \in 1..Len(r) PROVE e[g[r[i]].key] < r[i]
    BY DEF NewerThan
  <2>1. d[g[r[i]].key] < r[i]
    BY DEF Ordered, NewerThan
  <2>2. g[r[i]].key = k => n < r[i]
    BY <1>1 DEF Ordered, RetainedAfterQueue, k
  <2>3. QED
    BY <1>2, <2>1, <2>2
<1>7. QED
  BY <1>3, <1>4, <1>5, <1>6 DEF Ordered, n, t, k, e

\* A later event of a lane that retains nothing goes to the end of its queue.
LEMMA OrderedAppend ==
  ASSUME NEW q \in Seq(Nat), NEW r, Len(r) = 0, NEW d, NEW g, NEW n \in Nat,
         \A i \in 1..Len(q) : q[i] < n,
         d[g[n].key] < n, Ordered(q, r, d, g)
  PROVE  Ordered(Append(q, n), r, d, g)
<1> DEFINE p == Append(q, n)
<1>1. /\ Len(q) \in Nat /\ Len(p) = Len(q) + 1 /\ p[Len(q) + 1] = n
      /\ \A i \in 1..Len(q) : p[i] = q[i]
  BY AppendProperties
<1> HIDE DEF p
<1>2. QueueInOrder(p, g)
  <2> SUFFICES ASSUME NEW i \in 1..Len(p), NEW j \in 1..Len(p), i < j, g[p[i]].key = g[p[j]].key
               PROVE  p[i] < p[j]
    BY DEF QueueInOrder
  <2>1. i \in 1..Len(q) /\ p[i] = q[i]
    BY <1>1
  <2>2. CASE j \in 1..Len(q)
    BY <1>1, <2>1, <2>2 DEF Ordered, QueueInOrder
  <2>3. CASE j = Len(q) + 1
    BY <1>1, <2>1, <2>3
  <2>4. QED
    BY <1>1, <2>2, <2>3
<1>3. NewerThan(p, d, g)
  <2> SUFFICES ASSUME NEW i \in 1..Len(p) PROVE d[g[p[i]].key] < p[i]
    BY DEF NewerThan
  <2>1. CASE i \in 1..Len(q)
    BY <1>1, <2>1 DEF Ordered, NewerThan
  <2>2. CASE i = Len(q) + 1
    BY <1>1, <2>2
  <2>3. QED
    BY <1>1, <2>1, <2>2
<1>4. RetainedAfterQueue(p, r, g)
  BY DEF RetainedAfterQueue
<1>5. QED
  BY <1>2, <1>3, <1>4 DEF Ordered, p

\* A later event takes the place of the retained one of its key.
LEMMA OrderedReplace ==
  ASSUME NEW q \in Seq(Nat), NEW r \in Seq(Nat), NEW d, NEW g, NEW n \in Nat,
         \A i \in 1..Len(q) : q[i] < n,
         d[g[n].key] < n, Ordered(q, r, d, g),
         NEW x \in 1..Len(r), g[r[x]].key = g[n].key
  PROVE  Ordered(q, [r EXCEPT ![x] = n], d, g)
<1> DEFINE s == [r EXCEPT ![x] = n]
<1>1. /\ Len(s) = Len(r) /\ s[x] = n
      /\ \A i \in 1..Len(r) : i # x => s[i] = r[i]
      /\ \A i \in 1..Len(r) : g[s[i]].key = g[r[i]].key
  <2>1. Len(s) = Len(r) /\ s[x] = n /\ \A i \in 1..Len(r) : i # x => s[i] = r[i]
    BY ExceptSeq
  <2>2. ASSUME NEW i \in 1..Len(r) PROVE g[s[i]].key = g[r[i]].key
    BY <2>1
  <2>3. QED
    BY <2>1, <2>2
<1> HIDE DEF s
<1>2. RetainedAfterQueue(q, s, g)
  <2> SUFFICES ASSUME NEW i \in 1..Len(q), NEW j \in 1..Len(s), g[q[i]].key = g[s[j]].key
               PROVE  q[i] < s[j]
    BY DEF RetainedAfterQueue
  <2>1. CASE j = x
    BY <1>1, <2>1
  <2>2. CASE j # x
    BY <1>1, <2>2 DEF Ordered, RetainedAfterQueue
  <2>3. QED
    BY <2>1, <2>2
<1>3. RetainedOnce(s, g)
  BY <1>1 DEF Ordered, RetainedOnce
<1>4. NewerThan(s, d, g)
  <2> SUFFICES ASSUME NEW i \in 1..Len(s) PROVE d[g[s[i]].key] < s[i]
    BY DEF NewerThan
  <2>1. CASE i = x
    BY <1>1, <2>1
  <2>2. CASE i # x
    BY <1>1, <2>2 DEF Ordered, NewerThan
  <2>3. QED
    BY <2>1, <2>2
<1>5. QED
  BY <1>2, <1>3, <1>4 DEF Ordered, s

\* A later event of a key that is not retained goes to the end of the list.
LEMMA OrderedRetain ==
  ASSUME NEW q \in Seq(Nat), NEW r \in Seq(Nat), NEW d, NEW g, NEW n \in Nat,
         \A i \in 1..Len(q) : q[i] < n,
         d[g[n].key] < n, Ordered(q, r, d, g),
         \A i \in 1..Len(r) : g[r[i]].key # g[n].key
  PROVE  Ordered(q, Append(r, n), d, g)
<1> DEFINE s == Append(r, n)
<1>1. /\ Len(r) \in Nat /\ Len(s) = Len(r) + 1 /\ s[Len(r) + 1] = n
      /\ \A i \in 1..Len(r) : s[i] = r[i]
  BY AppendProperties
<1> HIDE DEF s
<1>2. \A i \in 1..Len(s) : i \in 1..Len(r) \/ i = Len(r) + 1
  BY <1>1
<1>3. RetainedAfterQueue(q, s, g)
  <2> SUFFICES ASSUME NEW i \in 1..Len(q), NEW j \in 1..Len(s), g[q[i]].key = g[s[j]].key
               PROVE  q[i] < s[j]
    BY DEF RetainedAfterQueue
  <2>1. CASE j \in 1..Len(r)
    BY <1>1, <2>1 DEF Ordered, RetainedAfterQueue
  <2>2. CASE j = Len(r) + 1
    BY <1>1, <2>2
  <2>3. QED
    BY <1>2, <2>1, <2>2
<1>4. RetainedOnce(s, g)
  <2> SUFFICES ASSUME NEW i \in 1..Len(s), NEW j \in 1..Len(s), g[s[i]].key = g[s[j]].key
               PROVE  i = j
    BY DEF RetainedOnce
  <2>1. CASE i \in 1..Len(r) /\ j \in 1..Len(r)
    BY <1>1, <2>1 DEF Ordered, RetainedOnce
  <2>2. CASE i \in 1..Len(r) /\ j = Len(r) + 1
    BY <1>1, <2>2
  <2>3. CASE i = Len(r) + 1 /\ j \in 1..Len(r)
    BY <1>1, <2>3
  <2>4. QED
    BY <1>2, <2>1, <2>2, <2>3
<1>5. NewerThan(s, d, g)
  <2> SUFFICES ASSUME NEW i \in 1..Len(s) PROVE d[g[s[i]].key] < s[i]
    BY DEF NewerThan
  <2>1. CASE i \in 1..Len(r)
    BY <1>1, <2>1 DEF Ordered, NewerThan
  <2>2. CASE i = Len(r) + 1
    BY <1>1, <2>2
  <2>3. QED
    BY <1>2, <2>1, <2>2
<1>6. QED
  BY <1>3, <1>4, <1>5 DEF Ordered, s

\* The oldest retained event is dropped.
LEMMA OrderedDrop ==
  ASSUME NEW q \in Seq(Nat), NEW r \in Seq(Nat), r # <<>>, NEW d, NEW g, Ordered(q, r, d, g)
  PROVE  Ordered(q, Tail(r), d, g)
<1> DEFINE s == Tail(r)
<1>1. /\ Len(r) \in Nat /\ Len(s) = Len(r) - 1
      /\ \A i \in 1..Len(s) : s[i] = r[i + 1]
  BY HeadTailProperties
<1> HIDE DEF s
<1>2. \A i \in 1..Len(s) : i + 1 \in 1..Len(r)
  BY <1>1
<1>3. RetainedAfterQueue(q, s, g)
  BY <1>1, <1>2 DEF Ordered, RetainedAfterQueue
<1>4. RetainedOnce(s, g)
  <2> SUFFICES ASSUME NEW i \in 1..Len(s), NEW j \in 1..Len(s), g[s[i]].key = g[s[j]].key
               PROVE  i = j
    BY DEF RetainedOnce
  <2>1. i + 1 \in 1..Len(r) /\ j + 1 \in 1..Len(r) /\ g[r[i + 1]].key = g[r[j + 1]].key
    BY <1>1, <1>2
  <2>2. i + 1 = j + 1
    BY <2>1 DEF Ordered, RetainedOnce
  <2>3. QED
    BY <2>2
<1>5. NewerThan(s, d, g)
  BY <1>1, <1>2 DEF Ordered, NewerThan
<1>6. QED
  BY <1>3, <1>4, <1>5 DEF Ordered, s

\* A flush keeps the order of each lane.
LEMMA FlushOrdered ==
  ASSUME TypeOK, NEW q \in [Lanes -> Seq(Published)], \A l \in Lanes : Len(q[l]) <= Capacity[l],
         NEW p \in BOOLEAN, Flush(p, q), NEW l \in LowLanes, NEW d,
         Ordered(q[l], retained[l], d, log)
  PROVE  Ordered(queue'[l], retained'[l], d, log)
<1> DEFINE m == Moved(p, q, l)
<1>1. \A s \in Seq(Published) : s \in Seq(Nat)
  <2>1. Published \subseteq Nat
    BY DEF Published
  <2>2. QED
    BY <2>1, SeqMonotonic
<1>2. l \in Lanes /\ q[l] \in Seq(Nat) /\ retained[l] \in Seq(Nat)
  BY <1>1 DEF TypeOK, Lanes
<1>3. m \in 0..Len(retained[l])
  <2>1. /\ Len(q[l]) \in Nat /\ Len(retained[l]) \in Nat /\ Capacity[l] \in Nat
        /\ Len(q[l]) <= Capacity[l]
    BY <1>2, BusAssumption
  <2>2. QED
    BY <2>1 DEF Moved
<1>4. /\ queue'[l] = q[l] \o SubSeq(retained[l], 1, m)
      /\ retained'[l] = SubSeq(retained[l], m + 1, Len(retained[l]))
  BY <1>2 DEF Flush
<1> HIDE DEF m
<1>5. QED
  BY <1>2, <1>3, <1>4, OrderedFlush

\* A publication is newer than all there is, and changes no key.
LEMMA NewestFacts ==
  ASSUME TypeOK, NEW k \in Keys, NEW t \in Tasks \union {"background"}, Logged(k, t)
  PROVE  /\ Len(log) + 1 \in Nat /\ log'[Len(log) + 1].key = k
         /\ \A n \in Published : n < Len(log) + 1 /\ log'[n] = log[n]
         /\ \A l \in LowLanes : delivered[l][k] < Len(log) + 1
<1>1. /\ log \in Seq([key : Keys, own : BOOLEAN])
      /\ Len(log) \in Nat
  BY DEF TypeOK
<1>2. /\ log'[Len(log) + 1] = [key |-> k, own |-> (t = Worker)]
      /\ \A n \in 1..Len(log) : log'[n] = log[n]
  BY <1>1, AppendProperties DEF Logged
<1>3. \A l \in LowLanes : delivered[l][k] \in Published \union {Nothing}
  BY DEF TypeOK
<1>4. QED
  BY <1>1, <1>2, <1>3 DEF Published, Nothing

LEMMA LogKeepsOrder ==
  ASSUME TypeOK, NEW k \in Keys, NEW t \in Tasks \union {"background"}, Logged(k, t),
         NEW q \in Seq(Published), NEW r \in Seq(Published), NEW d, Ordered(q, r, d, log)
  PROVE  Ordered(q, r, d, log')
<1>1. /\ \A i \in 1..Len(q) : log'[q[i]].key = log[q[i]].key
      /\ \A i \in 1..Len(r) : log'[r[i]].key = log[r[i]].key
  <2>1. \A i \in 1..Len(q) : q[i] \in Published
    OBVIOUS
  <2>2. \A i \in 1..Len(r) : r[i] \in Published
    OBVIOUS
  <2>3. QED
    BY <2>1, <2>2, NewestFacts
<1>2. QueueInOrder(q, log')
  BY <1>1 DEF Ordered, QueueInOrder
<1>3. RetainedAfterQueue(q, r, log')
  BY <1>1 DEF Ordered, RetainedAfterQueue
<1>4. RetainedOnce(r, log')
  BY <1>1 DEF Ordered, RetainedOnce
<1>5. NewerThan(q, d, log') /\ NewerThan(r, d, log')
  BY <1>1 DEF Ordered, NewerThan
<1>6. QED
  BY <1>2, <1>3, <1>4, <1>5 DEF Ordered

\* The publisher of a low priority event, whether it is queued, retained or
\* only handed to the sink.
LEMMA PublishLowKeepsOrder ==
  ASSUME Inv, LanesOrdered, NEW l \in LowLanes, NEW k \in Keys, PublishLow(l, k)
  PROVE  LanesOrdered'
<1> USE DEF Inv
<1> DEFINE n == Len(log) + 1
           q == queue[l]
           r == retained[l]
           d == delivered[l]
<1>1. Logged(k, "background") /\ "background" \in Tasks \union {"background"}
      /\ delivered' = delivered
  BY DEF PublishLow
<1>2. ASSUME NEW m \in LowLanes
      PROVE  Ordered(queue[m], retained[m], delivered[m], log')
  <2>1. queue[m] \in Seq(Published) /\ retained[m] \in Seq(Published)
    BY DEF TypeOK, Lanes
  <2>2. QED
    BY <1>1, <2>1, LogKeepsOrder DEF LanesOrdered
<1>3. /\ q \in Seq(Published) /\ r \in Seq(Published)
      /\ q \in Seq(Nat) /\ r \in Seq(Nat) /\ l \in Lanes
  <2>1. q \in Seq(Published) /\ r \in Seq(Published) /\ l \in Lanes
    BY DEF TypeOK, Lanes
  <2>2. Published \subseteq Nat
    BY DEF Published
  <2>3. QED
    BY <2>1, <2>2, SeqMonotonic
<1>4. /\ n \in Nat /\ log'[n].key = k /\ d[log'[n].key] < n
      /\ \A i \in 1..Len(q) : q[i] < n
      /\ \A i \in 1..Len(r) : log'[r[i]].key = log[r[i]].key
  <2>1. \A i \in 1..Len(q) : q[i] \in Published
    BY <1>3
  <2>2. \A i \in 1..Len(r) : r[i] \in Published
    BY <1>3
  <2> HIDE DEF q, r
  <2>3. QED
    BY <1>1, <2>1, <2>2, NewestFacts
<1>5. CASE UNCHANGED <<queue, retained>>
  BY <1>1, <1>2, <1>5 DEF LanesOrdered
<1>6. ASSUME queue' = queue, retained' = Retained(l, k, n) PROVE LanesOrdered'
  <2>1. ASSUME NEW s, retained' = [retained EXCEPT ![l] = s], Ordered(q, s, d, log')
        PROVE  LanesOrdered'
    <3>1. /\ retained'[l] = s
          /\ \A m \in LowLanes : m # l => retained'[m] = retained[m]
      BY <2>1 DEF TypeOK
    <3> SUFFICES ASSUME NEW m \in LowLanes
                 PROVE  Ordered(queue[m], retained'[m], delivered[m], log')
      BY <1>1, <1>6 DEF LanesOrdered
    <3>2. CASE m = l
      BY <2>1, <3>1, <3>2
    <3>3. CASE m # l
      BY <1>2, <3>1, <3>3
    <3>4. QED
      BY <3>2, <3>3
  <2>2. Ordered(q, r, d, log')
    BY <1>2
  <2>3. CASE SameKey(l, k) # {}
    <3> DEFINE x == CHOOSE i \in SameKey(l, k) : \A j \in SameKey(l, k) : i <= j
    <3>1. retained' = [retained EXCEPT ![l] = [r EXCEPT ![x] = n]]
      BY <1>6, <2>3 DEF Retained
    <3>2. x \in SameKey(l, k)
      <4>1. \A i, j \in SameKey(l, k) : i = j /\ i \in Nat
        <5>1. \A i \in SameKey(l, k) : i \in 1..Len(r) /\ log[r[i]].key = k
          BY <1>3 DEF SameKey
        <5>2. RetainedOnce(r, log)
          BY DEF LanesOrdered, Ordered
        <5> HIDE DEF r
        <5>3. QED
          BY <1>3, <5>1, <5>2 DEF RetainedOnce
      <4>2. \E i \in SameKey(l, k) : \A j \in SameKey(l, k) : i <= j
        BY <2>3, <4>1
      <4>3. QED
        BY <4>2
    <3> HIDE DEF x
    <3>3. x \in 1..Len(r) /\ log[r[x]].key = k
      BY <1>3, <3>2 DEF SameKey
    <3>4. Ordered(q, [r EXCEPT ![x] = n], d, log')
      <4>1. log'[r[x]].key = log'[n].key
        BY <1>4, <3>3
      <4> HIDE DEF q, r, d, n
      <4>2. QED
        BY <1>3, <1>4, <2>2, <3>3, <4>1, OrderedReplace
    <3>5. QED
      BY <2>1, <3>1, <3>4
  <2>4. CASE SameKey(l, k) = {} /\ Len(r) >= RetainedCapacity
    <3>1. retained' = [retained EXCEPT ![l] = Append(Tail(r), n)]
      BY <1>6, <2>4 DEF Retained
    <3>2. r # <<>>
      BY <1>3, <2>4, EmptySeq, BusAssumption
    <3>3. /\ Tail(r) \in Seq(Nat) /\ Len(r) \in Nat /\ Len(Tail(r)) = Len(r) - 1
          /\ \A i \in 1..Len(Tail(r)) : Tail(r)[i] = r[i + 1]
      BY <1>3, <3>2, HeadTailProperties
    <3>4. \A i \in 1..Len(Tail(r)) : log'[Tail(r)[i]].key # log'[n].key
      <4>1. \A i \in 1..Len(r) : log[r[i]].key # k
        BY <1>3, <2>4 DEF SameKey
      <4>2. \A i \in 1..Len(Tail(r)) : i + 1 \in 1..Len(r)
        BY <3>3
      <4>3. QED
        BY <1>4, <3>3, <4>1, <4>2
    <3>5. Ordered(q, Tail(r), d, log')
      <4> HIDE DEF q, r, d
      <4>1. QED
        BY <1>3, <2>2, <3>2, OrderedDrop
    <3>6. Ordered(q, Append(Tail(r), n), d, log')
      <4> DEFINE s == Tail(r)
      <4> HIDE DEF q, r, d, n, s
      <4>1. s \in Seq(Nat) /\ Ordered(q, s, d, log')
            /\ \A i \in 1..Len(s) : log'[s[i]].key # log'[n].key
        BY <3>3, <3>4, <3>5 DEF s
      <4>2. Ordered(q, Append(s, n), d, log')
        BY <1>3, <1>4, <4>1, OrderedRetain
      <4>3. QED
        BY <4>2 DEF s
    <3>7. QED
      BY <2>1, <3>1, <3>6
  <2>5. CASE SameKey(l, k) = {} /\ ~(Len(r) >= RetainedCapacity)
    <3>1. retained' = [retained EXCEPT ![l] = Append(r, n)]
      BY <1>6, <2>5 DEF Retained
    <3>2. \A i \in 1..Len(r) : log'[r[i]].key # log'[n].key
      <4>1. \A i \in 1..Len(r) : log[r[i]].key # k
        BY <1>3, <2>5 DEF SameKey
      <4>2. QED
        BY <1>4, <4>1
    <3>3. Ordered(q, Append(r, n), d, log')
      <4> HIDE DEF q, r, d, n
      <4>1. QED
        BY <1>3, <1>4, <2>2, <3>2, OrderedRetain
    <3>4. QED
      BY <2>1, <3>1, <3>3
  <2>6. QED
    BY <2>3, <2>4, <2>5
<1>7. ASSUME ~paused, ~IsFull(l), retained' = retained,
             queue' = [queue EXCEPT ![l] = Append(@, n)]
      PROVE  LanesOrdered'
  <2>1. Len(r) = 0
    <3>1. r = <<>>
      BY <1>3, <1>7, BusAssumption DEF IsFull, RetainedOnlyWhenFull, TypeOK
    <3>2. QED
      BY <3>1
  <2>2. Ordered(q, r, d, log')
    BY <1>2
  <2>3. Ordered(Append(q, n), r, d, log')
    <3> HIDE DEF q, r, d, n
    <3>1. QED
      BY <1>3, <1>4, <2>1, <2>2, OrderedAppend
  <2>4. /\ queue'[l] = Append(q, n)
        /\ \A m \in LowLanes : m # l => queue'[m] = queue[m]
    BY <1>3, <1>7 DEF TypeOK, Lanes
  <2> SUFFICES ASSUME NEW m \in LowLanes
               PROVE  Ordered(queue'[m], retained[m], delivered[m], log')
    BY <1>1, <1>7 DEF LanesOrdered
  <2>5. CASE m = l
    BY <2>3, <2>4, <2>5
  <2>6. CASE m # l
    BY <1>2, <2>4, <2>6
  <2>7. QED
    BY <2>5, <2>6
<1>8. QED
  BY <1>5, <1>6, <1>7 DEF PublishLow, MustRetain

\* Every step keeps the order of the low priority lanes.
LEMMA NextKeepsOrder == Inv /\ LanesOrdered /\ [Next]_vars => LanesOrdered'
<1> SUFFICES ASSUME Inv, LanesOrdered, [Next]_vars PROVE LanesOrdered'
  OBVIOUS
<1> USE DEF Inv
<1>1. ASSUME UNCHANGED <<log, retained, delivered>>, \A l \in LowLanes : queue'[l] = queue[l]
      PROVE  LanesOrdered'
  BY <1>1 DEF LanesOrdered
<1>2. ASSUME NEW t \in Tasks, PublishTrading(t) PROVE LanesOrdered'
  <2>1. /\ Logged(AnyKey, t) /\ t \in Tasks \union {"background"} /\ AnyKey \in Keys
        /\ UNCHANGED <<retained, delivered>>
    BY <1>2, AnyKeyIn DEF PublishTrading
  <2>2. \A l \in LowLanes : queue'[l] = queue[l]
    BY <1>2 DEF PublishTrading, TypeOK, LowLanes, Lanes
  <2> SUFFICES ASSUME NEW l \in LowLanes
               PROVE  Ordered(queue[l], retained[l], delivered[l], log')
    BY <2>1, <2>2 DEF LanesOrdered
  <2>3. queue[l] \in Seq(Published) /\ retained[l] \in Seq(Published)
    BY DEF TypeOK, Lanes
  <2>4. QED
    BY <2>1, <2>3, LogKeepsOrder DEF LanesOrdered
<1>3. ASSUME NEW t \in Tasks, PutWaiting(t) PROVE LanesOrdered'
  <2>1. \A l \in LowLanes : queue'[l] = queue[l]
    BY <1>3 DEF PutWaiting, TypeOK, LowLanes, Lanes
  <2>2. QED
    BY <1>1, <1>3, <2>1 DEF PutWaiting
<1>4. ASSUME NextTradingEvent PROVE LanesOrdered'
  <2> DEFINE q == [queue EXCEPT !["trading"] = Tail(@)]
  <2>1. Flush(paused, q) /\ UNCHANGED <<log, delivered>>
    BY <1>4 DEF NextTradingEvent
  <2>2. q \in [Lanes -> Seq(Published)] /\ \A m \in Lanes : Len(q[m]) <= Capacity[m]
    BY <1>4, QueueFacts DEF NextTradingEvent, TypeOK, Lanes
  <2>3. \A l \in LowLanes : q[l] = queue[l]
    BY DEF TypeOK, LowLanes, Lanes
  <2>4. paused \in BOOLEAN
    BY DEF TypeOK
  <2> HIDE DEF q
  <2> SUFFICES ASSUME NEW l \in LowLanes
               PROVE  Ordered(queue'[l], retained'[l], delivered[l], log)
    BY <2>1 DEF LanesOrdered
  <2>5. Ordered(q[l], retained[l], delivered[l], log)
    BY <2>3 DEF LanesOrdered
  <2>6. QED
    BY <2>1, <2>2, <2>4, <2>5, FlushOrdered
<1>5. ASSUME NEW l \in LowLanes, NextLowEvent(l) PROVE LanesOrdered'
  <2> DEFINE q == [queue EXCEPT ![l] = Tail(@)]
             n == Head(queue[l])
  <2>1. /\ Flush(paused, q) /\ log' = log /\ queue[l] # <<>>
        /\ delivered' = [delivered EXCEPT ![l][log[n].key] = n]
    BY <1>5 DEF NextLowEvent
  <2>2. /\ q \in [Lanes -> Seq(Published)] /\ \A m \in Lanes : Len(q[m]) <= Capacity[m]
        /\ n \in Published
    BY <1>5, QueueFacts DEF NextLowEvent, TypeOK, Lanes
  <2>3. /\ q[l] = Tail(queue[l])
        /\ \A m \in LowLanes : m # l => q[m] = queue[m]
        /\ \A m \in LowLanes : m # l => delivered'[m] = delivered[m]
        /\ delivered'[l] = [delivered[l] EXCEPT ![log[n].key] = n]
    BY <2>1 DEF TypeOK, Lanes
  <2>4. log[n].key \in Keys
    <3>1. n \in 1..Len(log) /\ log \in Seq([key : Keys, own : BOOLEAN])
      BY <2>2 DEF TypeOK, Published
    <3>2. log[n] \in [key : Keys, own : BOOLEAN]
      BY <3>1, ElementOfSeq
    <3>3. QED
      BY <3>2
  <2>5. paused \in BOOLEAN
    BY DEF TypeOK
  <2>6. Ordered(Tail(queue[l]), retained[l], [delivered[l] EXCEPT ![log[n].key] = n], log)
    <3>1. queue[l] \in Seq(Nat) /\ retained[l] \in Seq(Nat)
      <4>1. queue[l] \in Seq(Published) /\ retained[l] \in Seq(Published)
        BY DEF TypeOK, Lanes
      <4>2. Published \subseteq Nat
        BY DEF Published
      <4>3. QED
        BY <4>1, <4>2, SeqMonotonic
    <3>2. delivered[l] \in [Keys -> Nat]
      BY DEF TypeOK, Published, Nothing
    <3>3. Ordered(queue[l], retained[l], delivered[l], log)
      BY DEF LanesOrdered
    <3>4. QED
      BY <2>1, <2>4, <3>1, <3>2, <3>3, OrderedTake
  <2> HIDE DEF q, n
  <2> SUFFICES ASSUME NEW m \in LowLanes
               PROVE  Ordered(queue'[m], retained'[m], delivered'[m], log)
    BY <2>1 DEF LanesOrdered
  <2>7. Ordered(q[m], retained[m], delivered'[m], log)
    <3>1. CASE m = l
      BY <2>3, <2>6, <3>1
    <3>2. CASE m # l
      BY <2>3, <3>2 DEF LanesOrdered
    <3>3. QED
      BY <3>1, <3>2
  <2>8. QED
    BY <2>1, <2>2, <2>5, <2>7, FlushOrdered
<1>6. ASSUME ResumeLowPriority PROVE LanesOrdered'
  <2>1. Flush(FALSE, queue) /\ UNCHANGED <<log, delivered>>
    BY <1>6 DEF ResumeLowPriority
  <2>2. queue \in [Lanes -> Seq(Published)] /\ \A m \in Lanes : Len(queue[m]) <= Capacity[m]
    BY DEF TypeOK
  <2> SUFFICES ASSUME NEW l \in LowLanes
               PROVE  Ordered(queue'[l], retained'[l], delivered[l], log)
    BY <2>1 DEF LanesOrdered
  <2>3. Ordered(queue[l], retained[l], delivered[l], log)
    BY DEF LanesOrdered
  <2>4. QED
    BY <2>1, <2>2, <2>3, FlushOrdered
<1>7. QED
  BY <1>1, <1>2, <1>3, <1>4, <1>5, <1>6, PublishLowKeepsOrder
     DEF Next, vars, TaskEnds, EventHandled, RunEnds, PauseLowPriority

\* What the lists hold one after the other is in order.
LEMMA OrderedPipeline ==
  ASSUME NEW q \in Seq(Nat), NEW r \in Seq(Nat), NEW d, NEW g, Ordered(q, r, d, g)
  PROVE  LET s == q \o r
         IN  \A i \in 1..Len(s) :
               /\ d[g[s[i]].key] < s[i]
               /\ \A j \in 1..Len(s) : i < j /\ g[s[j]].key = g[s[i]].key => s[i] < s[j]
<1> DEFINE m == Len(r)
           a == SubSeq(r, 1, m)
           b == SubSeq(r, m + 1, Len(r))
<1>1. m \in 0..Len(r) /\ a = r
  BY DEF m
<1>2. Ordered(q \o a, b, d, g)
  BY <1>1, OrderedFlush
<1> HIDE DEF a, b, m
<1>3. Ordered(q \o r, b, d, g)
  BY <1>1, <1>2
<1>4. QED
  BY <1>3 DEF Ordered, QueueInOrder, NewerThan

LEMMA OrderedIsKeyOrder == Inv /\ LanesOrdered => KeyOrder
<1> SUFFICES ASSUME Inv, LanesOrdered, NEW l \in LowLanes
             PROVE  \A i \in 1..Len(Pipeline(l)) :
                      LET n == Pipeline(l)[i]
                      IN  /\ delivered[l][log[n].key] < n
                          /\ \A j \in 1..Len(Pipeline(l)) :
                               i < j /\ log[Pipeline(l)[j]].key = log[n].key => n < Pipeline(l)[j]
  BY DEF KeyOrder
<1>1. queue[l] \in Seq(Nat) /\ retained[l] \in Seq(Nat)
  <2>1. queue[l] \in Seq(Published) /\ retained[l] \in Seq(Published)
    BY DEF Inv, TypeOK, Lanes
  <2>2. Published \subseteq Nat
    BY DEF Published
  <2>3. QED
    BY <2>1, <2>2, SeqMonotonic
<1>2. Ordered(queue[l], retained[l], delivered[l], log)
  BY DEF LanesOrdered
<1>3. Pipeline(l) = queue[l] \o retained[l]
  BY DEF Pipeline
<1>4. QED
  BY <1>1, <1>2, <1>3, OrderedPipeline

LEMMA InitOrdered == Init => LanesOrdered
<1> SUFFICES ASSUME Init, NEW l \in LowLanes
             PROVE  Ordered(queue[l], retained[l], delivered[l], log)
  BY DEF LanesOrdered
<1>1. queue[l] = <<>> /\ retained[l] = <<>>
  BY DEF Init, Lanes
<1>2. QED
  BY <1>1 DEF Ordered, QueueInOrder, RetainedAfterQueue, RetainedOnce, NewerThan

\* For all capacities and however pauses, flushes and replacements interleave,
\* a consumer of a low priority lane never gets an older event of an identity
\* after a newer one, nor do queue and retained list hold them out of order.
THEOREM OrderOfKeys == Spec => []KeyOrder
<1>1. QED
  BY InitInv, NextInv, InitOrdered, NextKeepsOrder, OrderedIsKeyOrder, PTL DEF Spec

--------------------------------------------------------------------------------
(* The outbox mirror of the trading lane. *)

\* No two tasks wait with the same publication, so that the put of one does not
\* mirror what another still waits to put.
WaitingApart ==
  \A s, t \in Tasks : waiting[s] # Nothing /\ waiting[s] = waiting[t] => s = t

MirrorInv == MirrorFollowsQueue /\ WaitingApart

LEMMA MirrorKept ==
  ASSUME Inv, MirrorInv,
         \/ queue'["trading"] = queue["trading"]
         \/ queue'["trading"] = Tail(queue["trading"])
            /\ queue["trading"] # <<>>,
         waiting' = waiting, mirrored \subseteq mirrored',
         \A n \in mirrored' \ mirrored : n \notin Published
  PROVE  MirrorInv'
<1>1. queue["trading"] \in Seq(Published)
  BY DEF Inv, TypeOK, Lanes
<1>2. Elements(queue'["trading"]) \subseteq Elements(queue["trading"])
  <2>1. CASE queue'["trading"] = queue["trading"]
    BY <2>1
  <2>2. CASE queue'["trading"] = Tail(queue["trading"]) /\ queue["trading"] # <<>>
    <3> DEFINE q == queue["trading"]
               t == Tail(q)
    <3>1. /\ Len(q) \in Nat /\ Len(t) = Len(q) - 1
          /\ \A i \in 1..Len(t) : t[i] = q[i + 1]
      BY <1>1, <2>2, HeadTailProperties
    <3> HIDE DEF q, t
    <3>2. \A i \in 1..Len(t) : i + 1 \in 1..Len(q)
      BY <3>1
    <3>3. Elements(t) \subseteq Elements(q)
      BY <3>1, <3>2 DEF Elements
    <3>4. QED
      BY <2>2, <3>3 DEF q, t
  <2>3. QED
    BY <2>1, <2>2
<1>3. \A t \in Tasks : waiting[t] # Nothing => waiting[t] \in Published
  BY DEF Inv, TypeOK
<1>4. QED
  BY <1>2, <1>3 DEF MirrorInv, MirrorFollowsQueue, WaitingApart

\* The trading queue with one entry more.
LEMMA ElementsAppend ==
  ASSUME NEW S, NEW s \in Seq(S), NEW n
  PROVE  Elements(Append(s, n)) \subseteq Elements(s) \union {n}
<1>1. s \in Seq(S \union {n}) /\ n \in S \union {n}
  BY SeqMonotonic
<1>2. /\ Len(s) \in Nat /\ Len(Append(s, n)) = Len(s) + 1
      /\ \A i \in 1..Len(s) : Append(s, n)[i] = s[i]
      /\ Append(s, n)[Len(s) + 1] = n
  BY <1>1, AppendProperties
<1>3. \A i \in 1..Len(s) + 1 : i \in 1..Len(s) \/ i = Len(s) + 1
  BY <1>2
<1>4. QED
  BY <1>2, <1>3 DEF Elements

LEMMA NextKeepsMirror == Inv /\ MirrorInv /\ [Next]_vars => MirrorInv'
<1> SUFFICES ASSUME Inv, MirrorInv, [Next]_vars PROVE MirrorInv'
  OBVIOUS
<1>1. queue["trading"] \in Seq(Published) /\ waiting \in [Tasks -> Published \union {Nothing}]
  BY DEF Inv, TypeOK, Lanes
<1>2. ASSUME NEW t \in Tasks, PublishTrading(t) PROVE MirrorInv'
  <2> DEFINE n == Len(log) + 1
  <2>1. n \notin Published /\ n # Nothing
    BY DEF Inv, TypeOK, Published, Nothing
  <2>2. waiting[t] = Nothing /\ (SinkBound => mirrored \subseteq Published)
    BY <1>2 DEF PublishTrading, MayPublish, Inv, TypeOK
  <2>3. CASE IsFull("trading")
    <3>1. waiting' = [waiting EXCEPT ![t] = n] /\ UNCHANGED <<queue, mirrored>>
      BY <1>2, <2>3 DEF PublishTrading
    <3> HIDE DEF n
    <3>2. MirrorFollowsQueue'
      BY <1>1, <2>1, <2>2, <3>1 DEF MirrorInv, MirrorFollowsQueue
    <3>3. WaitingApart'
      BY <1>1, <2>1, <3>1 DEF MirrorInv, WaitingApart
    <3>4. QED
      BY <3>2, <3>3 DEF MirrorInv
  <2>4. CASE ~IsFull("trading")
    <3>1. /\ queue' = [queue EXCEPT !["trading"] = Append(@, n)] /\ Mirror(n)
          /\ waiting' = waiting
      BY <1>2, <2>4 DEF PublishTrading
    <3>2. queue'["trading"] = Append(queue["trading"], n)
      BY <3>1 DEF Inv, TypeOK, Lanes
    <3> HIDE DEF n
    <3>3. Elements(queue'["trading"]) \subseteq Elements(queue["trading"]) \union {n}
      BY <1>1, <3>2, ElementsAppend
    <3>4. MirrorFollowsQueue'
      BY <1>1, <2>1, <3>1, <3>3 DEF MirrorInv, MirrorFollowsQueue, Mirror
    <3>5. WaitingApart'
      BY <3>1 DEF MirrorInv, WaitingApart
    <3>6. QED
      BY <3>4, <3>5 DEF MirrorInv
  <2>5. QED
    BY <2>3, <2>4
<1>3. ASSUME NEW t \in Tasks, PutWaiting(t) PROVE MirrorInv'
  <2> DEFINE n == waiting[t]
  <2>1. /\ n # Nothing /\ Mirror(n)
        /\ waiting' = [waiting EXCEPT ![t] = Nothing]
        /\ queue'["trading"] = Append(queue["trading"], n)
    BY <1>3 DEF PutWaiting, Inv, TypeOK, Lanes
  <2>2. Elements(queue'["trading"]) \subseteq Elements(queue["trading"]) \union {n}
    BY <1>1, <2>1, ElementsAppend
  <2>3. \A s \in Tasks : waiting'[s] # Nothing => s # t /\ waiting'[s] = waiting[s] /\ waiting[s] # n
    BY <1>1, <2>1 DEF MirrorInv, WaitingApart
  <2> HIDE DEF n
  <2>4. MirrorFollowsQueue'
    BY <2>1, <2>2, <2>3 DEF MirrorInv, MirrorFollowsQueue, Mirror
  <2>5. WaitingApart'
    BY <2>3 DEF MirrorInv, WaitingApart
  <2>6. QED
    BY <2>4, <2>5 DEF MirrorInv
<1>4. ASSUME NEW t \in Tasks, TaskEnds(t) PROVE MirrorInv'
  <2>1. waiting' = [waiting EXCEPT ![t] = Nothing] /\ UNCHANGED <<queue, mirrored>>
    BY <1>4 DEF TaskEnds
  <2>2. \A s \in Tasks : waiting'[s] # Nothing => waiting'[s] = waiting[s]
    BY <1>1, <2>1
  <2>3. QED
    BY <2>1, <2>2 DEF MirrorInv, MirrorFollowsQueue, WaitingApart
<1>5. ASSUME NEW l \in LowLanes, NEW k \in Keys, PublishLow(l, k) PROVE MirrorInv'
  <2> DEFINE n == Len(log) + 1
  <2>1. n \notin Published
    BY DEF Inv, TypeOK, Published
  <2>2. waiting' = waiting /\ Mirror(n)
    BY <1>5 DEF PublishLow
  <2>3. queue'["trading"] = queue["trading"]
    BY <1>5 DEF PublishLow, Inv, TypeOK, LowLanes, Lanes
  <2> HIDE DEF n
  <2>4. QED
    BY <2>1, <2>2, <2>3, MirrorKept DEF Mirror
<1>6. ASSUME NextTradingEvent PROVE MirrorInv'
  <2>1. queue["trading"] # <<>> /\ UNCHANGED <<waiting, mirrored>>
    BY <1>6 DEF NextTradingEvent
  <2>2. queue'["trading"] = Tail(queue["trading"])
    BY <1>6 DEF NextTradingEvent, Flush, Inv, TypeOK, LowLanes, Lanes
  <2>3. QED
    BY <2>1, <2>2, MirrorKept
<1>7. ASSUME UNCHANGED <<waiting, mirrored>>, queue'["trading"] = queue["trading"] PROVE MirrorInv'
  BY <1>7, MirrorKept
<1>8. ASSUME NEW l \in LowLanes, NextLowEvent(l) PROVE MirrorInv'
  <2>1. queue'["trading"] = queue["trading"]
    BY <1>8 DEF NextLowEvent, Flush, Inv, TypeOK, LowLanes, Lanes
  <2>2. QED
    BY <1>7, <1>8, <2>1 DEF NextLowEvent
<1>9. ASSUME ResumeLowPriority PROVE MirrorInv'
  <2>1. queue'["trading"] = queue["trading"]
    BY <1>9 DEF ResumeLowPriority, Flush, LowLanes, Lanes
  <2>2. QED
    BY <1>7, <1>9, <2>1 DEF ResumeLowPriority
<1>10. QED
  BY <1>2, <1>3, <1>4, <1>5, <1>6, <1>7, <1>8, <1>9
     DEF Next, vars, EventHandled, RunEnds, PauseLowPriority

\* With any number of publishers and whoever is cancelled while it waits, the
\* outbox knows what the trading lane accepted and nothing that still waits.
THEOREM SinkFollowsLane == Spec => []MirrorFollowsQueue
<1>1. Init => MirrorInv
  <2> SUFFICES ASSUME Init PROVE MirrorInv
    OBVIOUS
  <2>1. queue["trading"] = <<>> /\ \A t \in Tasks : waiting[t] = Nothing
    BY DEF Init, Lanes
  <2>2. QED
    BY <2>1 DEF MirrorInv, MirrorFollowsQueue, WaitingApart, Elements
<1>2. MirrorInv => MirrorFollowsQueue
  BY DEF MirrorInv
<1>3. QED
  BY <1>1, <1>2, InitInv, NextInv, NextKeepsMirror, PTL DEF Spec

================================================================================
