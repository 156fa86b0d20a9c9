-------------------------- MODULE OrderExecutor_proof --------------------------
(***************************************************************************)
(* Proofs about OrderExecutor for every choice of its constants.  The      *)
(* inductive invariant ties three records of the same fact together: an    *)
(* operation that has not finished owns the entry of its key, one that     *)
(* finished and was not evicted left its result there, and the cache holds *)
(* exactly keys whose entry has a result, each once.                       *)
(***************************************************************************)
EXTENDS OrderExecutor, SequenceTheorems, TLAPS

OpsStarted ==
  \A n \in Ops :
    /\ n \in Started <=> op[n].pc # "unused"
    /\ n \in Started => op[n].key \in Keys

ResultKnown == \A n \in Ops : op[n].pc \in {"returned", "stored"} => op[n].result # None

CallsAreStarted == \A n \in Ops : op[n].call # "none" => op[n].pc # "unused"

RunningOwnsEntry ==
  \A n \in Started :
    op[n].pc # "stored" =>
      /\ n \notin evicted
      /\ index[op[n].key].task = n
      /\ index[op[n].key].result = None

StoredIsKept ==
  \A n \in Started :
    op[n].pc = "stored" /\ n \notin evicted => index[op[n].key].result # None

EvictedAreStored == \A n \in evicted : op[n].pc = "stored"

CacheCurrent == \A i \in 1..Len(completed) : index[completed[i]].result # None

CacheDistinct ==
  \A i, j \in 1..Len(completed) : completed[i] = completed[j] => i = j

IInv ==
  /\ TypeOK
  /\ OpsStarted
  /\ ResultKnown
  /\ CallsAreStarted
  /\ RunningOwnsEntry
  /\ StoredIsKept
  /\ EvictedAreStored
  /\ CacheCurrent
  /\ CacheDistinct
  /\ RestartedOnlyAfterEviction

OpRecord == [key : Keys \union {None}, print : Fingerprints \union {None},
             pc : Progress, call : {"none", "queued", "signing", "sending"},
             result : Results \union {None}]

--------------------------------------------------------------------------------

LEMMA InitIInv == Init => IInv
<1> SUFFICES ASSUME Init PROVE IInv
  OBVIOUS
<1>1. Started = {}
  BY DEF Init, Started
<1>2. TypeOK
  BY ExecutorAssumption
     DEF Init, TypeOK, Ops, NoEntry, Entry, Progress, Results, NoOp, None
<1>3. OpsStarted /\ ResultKnown /\ CallsAreStarted
  BY <1>1 DEF Init, OpsStarted, ResultKnown, CallsAreStarted
<1>4. RunningOwnsEntry /\ StoredIsKept /\ EvictedAreStored /\ RestartedOnlyAfterEviction
  BY <1>1 DEF Init, RunningOwnsEntry, StoredIsKept, EvictedAreStored, RestartedOnlyAfterEviction
<1>5. CacheCurrent /\ CacheDistinct
  BY DEF Init, CacheCurrent, CacheDistinct
<1>6. QED
  BY <1>2, <1>3, <1>4, <1>5 DEF IInv

\* A step of one operation that neither finishes nor restarts it keeps the
\* invariant: the entries speak only of who has finished.
LEMMA AdvanceKeepsIInv ==
  ASSUME IInv, NEW n \in Ops, NEW o \in OpRecord, SetOp(n, o),
         UNCHANGED <<count, index, completed, waiting, placed, evicted>>,
         o.key = op[n].key,
         op[n].pc # "unused", op[n].pc # "stored" \/ o.pc = "stored",
         o.pc # "unused", o.pc = "stored" => op[n].pc = "stored",
         o.pc \in {"returned", "stored"} => o.result # None
  PROVE  IInv'
<1> USE DEF IInv
<1>1. /\ op' \in [Ops -> OpRecord]
      /\ op'[n] = o
      /\ \A m \in Ops : m # n => op'[m] = op[m]
      /\ \A m \in Ops : op'[m].key = op[m].key
      /\ \A m \in Ops : op'[m].pc = "stored" <=> op[m].pc = "stored"
      /\ \A m \in Ops : op'[m].pc = "unused" <=> op[m].pc = "unused"
  BY DEF SetOp, TypeOK, OpRecord
<1>2. Started' = Started /\ Started \subseteq Ops
  BY ExecutorAssumption DEF Started, TypeOK, Ops
<1>3. TypeOK'
  BY <1>1 DEF TypeOK, OpRecord
<1>4. OpsStarted'
  BY <1>1, <1>2 DEF OpsStarted
<1>5. ResultKnown' /\ CallsAreStarted'
  BY <1>1 DEF ResultKnown, CallsAreStarted
<1>6. RunningOwnsEntry' /\ StoredIsKept' /\ EvictedAreStored'
  BY <1>1, <1>2 DEF RunningOwnsEntry, StoredIsKept, EvictedAreStored, TypeOK
<1>7. CacheCurrent' /\ CacheDistinct'
  BY DEF CacheCurrent, CacheDistinct
<1>8. RestartedOnlyAfterEviction'
  BY <1>1, <1>2 DEF RestartedOnlyAfterEviction
<1>9. QED
  BY <1>3, <1>4, <1>5, <1>6, <1>7, <1>8

\* A new operation starts only where the entry of its key has neither task nor
\* result, so every earlier operation of the key was evicted.
LEMMA StartKeepsIInv ==
  ASSUME IInv, NEW c \in Callers, NEW k \in Keys, NEW f \in Fingerprints,
         ExecuteStarts(c, k, f)
  PROVE  IInv'
<1> USE DEF IInv
<1> DEFINE n == count + 1
<1>1. /\ n \in Ops /\ n \notin Started
      /\ Started \subseteq Ops /\ Started' = Started \union {n}
      /\ count' = n
      /\ \A m \in Started : m < n
  BY ExecutorAssumption DEF ExecuteStarts, Started, Ops, TypeOK
<1>2. index[k].result = None /\ index[k].task = NoOp
  BY DEF ExecuteStarts, Starts, Joins, Known, Conflict, NoEntry, Entry
<1>3. /\ op' \in [Ops -> OpRecord]
      /\ op'[n] = NewOp(k, f)
      /\ \A m \in Ops : m # n => op'[m] = op[m]
  BY <1>1 DEF ExecuteStarts, TypeOK, OpRecord, NewOp, Progress
<1>4. /\ index' = [index EXCEPT ![k] = Entry(f, n, None)]
      /\ index'[k] = Entry(f, n, None)
      /\ \A j \in Keys : j # k => index'[j] = index[j]
      /\ UNCHANGED <<completed, placed, evicted>>
  BY DEF ExecuteStarts, TypeOK
<1>5. \A m \in Started : op[m].key = k => m \in evicted
  <2> SUFFICES ASSUME NEW m \in Started, op[m].key = k, m \notin evicted PROVE FALSE
    OBVIOUS
  <2>1. m # NoOp
    BY DEF Started, NoOp
  <2>2. CASE op[m].pc = "stored"
    BY <1>2, <2>2 DEF StoredIsKept
  <2>3. CASE op[m].pc # "stored"
    BY <1>2, <2>1, <2>3 DEF RunningOwnsEntry
  <2>4. QED
    BY <2>2, <2>3
<1>6. TypeOK'
  <2>1. index' \in [Keys -> [print : Fingerprints \union {None}, task : Ops \union {NoOp},
                            result : Results \union {None}]]
    BY <1>1, <1>4 DEF TypeOK, Entry
  <2>2. waiting' \in [Callers -> Ops \union {NoOp}] /\ count' \in 0..MaxOps
    BY <1>1, ExecutorAssumption DEF ExecuteStarts, TypeOK, Ops
  <2>3. QED
    BY <1>3, <1>4, <2>1, <2>2 DEF TypeOK, OpRecord
<1>7. OpsStarted'
  BY <1>1, <1>3 DEF OpsStarted, NewOp
<1>8. ResultKnown' /\ CallsAreStarted'
  BY <1>3 DEF ResultKnown, CallsAreStarted, NewOp
<1>9. n \notin evicted
  <2>1. op[n].pc = "unused"
    BY <1>1 DEF OpsStarted
  <2>2. QED
    BY <2>1 DEF EvictedAreStored
<1>10. \A m \in Started : op[m].pc # "stored" => op[m].key # k
  BY <1>5 DEF RunningOwnsEntry
<1>11. RunningOwnsEntry'
  BY <1>1, <1>3, <1>4, <1>9, <1>10 DEF RunningOwnsEntry, OpsStarted, NewOp, Entry
<1>12. StoredIsKept'
  BY <1>1, <1>3, <1>4, <1>5 DEF StoredIsKept, OpsStarted, NewOp
<1>13. CacheCurrent' /\ CacheDistinct'
  <2>1. \A i \in 1..Len(completed) : completed[i] \in Keys /\ completed[i] # k
    BY <1>2 DEF TypeOK, CacheCurrent
  <2>2. QED
    BY <1>4, <2>1 DEF CacheCurrent, CacheDistinct
<1>14. RestartedOnlyAfterEviction'
  BY <1>1, <1>3, <1>4, <1>5 DEF RestartedOnlyAfterEviction, Started, NewOp
<1>15. EvictedAreStored'
  BY <1>3, <1>4, <1>9 DEF EvictedAreStored, TypeOK
<1>16. QED
  BY <1>6, <1>7, <1>8, <1>11, <1>12, <1>13, <1>14, <1>15

\* What the cache holds after a result that was not in it is added and the
\* cache is trimmed: fresh keys, each once, none of those it dropped.
LEMMA CacheFacts ==
  ASSUME completed \in Seq(Keys), CacheDistinct, NEW k \in Keys,
         \A i \in 1..Len(completed) : completed[i] # k
  PROVE  LET c == MovedToEnd(completed, k)
             d == Kept(c)
         IN  /\ d \in Seq(Keys) /\ Len(d) <= MaxCached
             /\ \A i \in 1..Len(d) :
                  /\ d[i] = k \/ \E j \in 1..Len(completed) : d[i] = completed[j]
                  /\ d[i] \notin TrimmedKeys(c)
             /\ \A i, j \in 1..Len(d) : d[i] = d[j] => i = j
             /\ \A x \in TrimmedKeys(c) :
                  x = k \/ \E j \in 1..Len(completed) : x = completed[j]
<1> DEFINE c == MovedToEnd(completed, k)
           s == Surplus(c)
           d == Kept(c)
<1>1. c = Append(completed, k)
  BY DEF MovedToEnd, Positions
<1>2. /\ c \in Seq(Keys) /\ Len(c) = Len(completed) + 1 /\ Len(completed) \in Nat
      /\ \A i \in 1..Len(completed) : c[i] = completed[i]
      /\ c[Len(completed) + 1] = k
  BY <1>1, AppendProperties
<1>3. /\ \A i \in 1..Len(c) : c[i] = k \/ \E j \in 1..Len(completed) : c[i] = completed[j]
      /\ \A i, j \in 1..Len(c) : c[i] = c[j] => i = j
      /\ \A i \in 1..Len(c) : c[i] \in Keys
  BY <1>2 DEF CacheDistinct
<1>4. s \in 0..Len(c) /\ Len(c) - s <= MaxCached /\ Len(c) \in Nat
  BY <1>2, ExecutorAssumption DEF Surplus
<1>5. d = SubSeq(c, s + 1, Len(c)) /\ TrimmedKeys(c) = {c[i] : i \in 1..s}
  BY DEF TrimmedKeys, Kept
<1> HIDE DEF c, s, d
<1>6. /\ d \in Seq(Keys) /\ Len(d) = Len(c) - s
      /\ \A i \in 1..Len(d) : d[i] = c[s + i] /\ s + i \in 1..Len(c) /\ s + i \notin 1..s
  <2>1. /\ s + 1 \in Int /\ Len(c) \in Int
        /\ \A i \in s + 1 .. Len(c) : c[i] \in Keys
    BY <1>3, <1>4
  <2>2. /\ SubSeq(c, s + 1, Len(c)) \in Seq(Keys)
        /\ Len(SubSeq(c, s + 1, Len(c))) = IF s + 1 <= Len(c) THEN Len(c) - (s + 1) + 1 ELSE 0
        /\ \A i \in 1 .. Len(c) - (s + 1) + 1 : SubSeq(c, s + 1, Len(c))[i] = c[(s + 1) + i - 1]
    BY ONLY <2>1, SubSeqProperties
  <2>3. Len(d) = Len(c) - s /\ Len(c) - (s + 1) + 1 = Len(c) - s
    BY <1>4, <1>5, <2>2
  <2>4. ASSUME NEW i \in 1..Len(d)
        PROVE  d[i] = c[s + i] /\ s + i \in 1..Len(c) /\ s + i \notin 1..s
    <3>1. s + i \in 1..Len(c) /\ s + i \notin 1..s /\ (s + 1) + i - 1 = s + i
      BY <1>4, <2>3
    <3>2. QED
      BY <1>5, <2>2, <2>3, <3>1
  <2>5. QED
    BY <1>5, <2>2, <2>3, <2>4
<1>7. \A i \in 1..Len(d) : d[i] \notin TrimmedKeys(c)
  <2>1. SUFFICES ASSUME NEW i \in 1..Len(d), NEW j \in 1..s, c[s + i] = c[j] PROVE FALSE
    BY <1>5, <1>6
  <2>2. j \in 1..Len(c) /\ s + i \in 1..Len(c) /\ s + i # j
    BY <1>4, <1>6
  <2>3. QED
    BY <1>3, <2>1, <2>2
<1>8. \A i, j \in 1..Len(d) : d[i] = d[j] => i = j
  <2>1. SUFFICES ASSUME NEW i \in 1..Len(d), NEW j \in 1..Len(d), c[s + i] = c[s + j] PROVE i = j
    BY <1>6
  <2>2. s + i = s + j
    BY <1>3, <1>6, <2>1
  <2>3. QED
    BY <1>4, <1>6, <2>2
<1>9. \A i \in 1..Len(d) : d[i] = k \/ \E j \in 1..Len(completed) : d[i] = completed[j]
  BY <1>3, <1>6
<1>10. \A x \in TrimmedKeys(c) : x = k \/ \E j \in 1..Len(completed) : x = completed[j]
  <2>1. SUFFICES ASSUME NEW i \in 1..s
                 PROVE  c[i] = k \/ \E j \in 1..Len(completed) : c[i] = completed[j]
    BY <1>5
  <2>2. i \in 1..Len(c)
    BY <1>4
  <2>3. QED
    BY <1>3, <2>2
<1>11. Len(d) <= MaxCached
  BY <1>4, <1>6
<1>12. QED
  BY <1>6, <1>7, <1>8, <1>9, <1>10, <1>11 DEF c, d

\* Storing a result keeps the invariant: only the entry of the finished
\* operation and entries of trimmed keys change, and the operations of trimmed
\* keys are evicted.
LEMMA StoreKeepsIInv ==
  ASSUME IInv, NEW n \in Ops, StoreResult(n)
  PROVE  IInv'
<1> USE DEF IInv
<1> DEFINE k == op[n].key
           out == TrimmedKeys(MovedToEnd(completed, k))
<1>1. /\ op[n].pc = "returned" /\ n \in Started /\ k \in Keys /\ op[n].result # None
      /\ index[k].task = n /\ index[k].result = None
  BY DEF StoreResult, OpsStarted, ResultKnown, RunningOwnsEntry
<1>2. \A i \in 1..Len(completed) : completed[i] # k
  BY <1>1 DEF CacheCurrent
<1>3. /\ completed' \in Seq(Keys) /\ Len(completed') <= MaxCached
      /\ \A i \in 1..Len(completed') :
           /\ completed'[i] = k \/ \E j \in 1..Len(completed) : completed'[i] = completed[j]
           /\ completed'[i] \notin out
      /\ \A i, j \in 1..Len(completed') : completed'[i] = completed'[j] => i = j
      /\ \A x \in out : x = k \/ \E j \in 1..Len(completed) : x = completed[j]
  <2>1. completed \in Seq(Keys) /\ k \in Keys
    BY <1>1 DEF TypeOK
  <2>2. completed' = Kept(MovedToEnd(completed, k))
    BY DEF StoreResult
  <2>3. QED
    BY <1>2, <2>1, <2>2, CacheFacts
<1>4. /\ op' \in [Ops -> OpRecord]
      /\ op'[n].pc = "stored"
      /\ \A m \in Ops : m # n => op'[m] = op[m]
      /\ \A m \in Ops : /\ op'[m].key = op[m].key
                        /\ op'[m].result = op[m].result
                        /\ op'[m].call = op[m].call
  BY DEF StoreResult, SetOp, TypeOK, OpRecord, Progress
<1>5. \A j \in Keys : index'[j] = IF j \in out THEN Trimmed([index EXCEPT ![k] = Finished(n)][j])
                                 ELSE [index EXCEPT ![k] = Finished(n)][j]
  BY DEF StoreResult
<1>6. /\ \A j \in Keys : j # k /\ j \notin out => index'[j] = index[j]
      /\ k \notin out => index'[k].result = op[n].result
  BY <1>1, <1>5 DEF TypeOK, Finished, Entry
<1>7. evicted' = evicted \union {m \in Ops : op[m].key \in out /\ op[m].pc \in {"returned", "stored"}}
  BY DEF StoreResult
<1>8. UNCHANGED <<count, waiting, placed, answers>> /\ Started' = Started /\ Started \subseteq Ops
  BY ExecutorAssumption DEF StoreResult, Started, Ops, TypeOK
<1>9. \A j \in out : j \in Keys /\ (j = k \/ index[j].result # None)
  BY <1>1, <1>3 DEF CacheCurrent, TypeOK
<1>10. \A m \in Started :
         m # n /\ op[m].pc # "stored" => op[m].key \in Keys /\ op[m].key # k /\ op[m].key \notin out
  <2> HIDE DEF k, out
  <2> SUFFICES ASSUME NEW m \in Started, m # n, op[m].pc # "stored"
               PROVE  op[m].key \in Keys /\ op[m].key # k /\ op[m].key \notin out
    OBVIOUS
  <2>1. index[op[m].key].task = m /\ index[op[m].key].result = None /\ op[m].key \in Keys
    BY <1>8 DEF RunningOwnsEntry, OpsStarted
  <2>2. op[m].key # k
    BY <1>1, <2>1
  <2>3. QED
    BY <1>9, <2>1, <2>2
<1>11. TypeOK'
  <2>1. index' \in [Keys -> [print : Fingerprints \union {None}, task : Ops \union {NoOp},
                            result : Results \union {None}]]
    <3>1. [index EXCEPT ![k] = Finished(n)] \in
            [Keys -> [print : Fingerprints \union {None}, task : Ops \union {NoOp},
                      result : Results \union {None}]]
      BY <1>1 DEF TypeOK, Finished, Entry
    <3>2. QED
      BY <3>1 DEF StoreResult, Trimmed, Entry
  <2>2. evicted' \subseteq Ops
    BY <1>7 DEF TypeOK
  <2>3. QED
    BY <1>3, <1>4, <1>8, <2>1, <2>2 DEF TypeOK, OpRecord
<1>12. OpsStarted'
  BY <1>1, <1>4, <1>8 DEF OpsStarted
<1>13. ResultKnown' /\ CallsAreStarted'
  <2> HIDE DEF k, out
  <2>1. \A m \in Ops : op'[m].pc \in {"returned", "stored"} => op'[m].result # None
    BY <1>1, <1>4 DEF ResultKnown
  <2>2. \A m \in Ops : op'[m].call # "none" => op'[m].pc # "unused"
    BY <1>1, <1>4 DEF CallsAreStarted
  <2>3. QED
    BY <2>1, <2>2 DEF ResultKnown, CallsAreStarted
<1>14. RunningOwnsEntry'
  <2> SUFFICES ASSUME NEW m \in Started, op'[m].pc # "stored"
               PROVE  /\ m \notin evicted'
                      /\ index'[op[m].key].task = m
                      /\ index'[op[m].key].result = None
    BY <1>4, <1>8 DEF RunningOwnsEntry
  <2> HIDE DEF k, out
  <2>1. m # n /\ op[m].pc # "stored" /\ m \in Ops
    BY <1>4, <1>8
  <2>2. op[m].key \in Keys /\ op[m].key # k /\ op[m].key \notin out
    BY <1>10, <2>1
  <2>3. QED
    BY <1>6, <1>7, <2>1, <2>2 DEF RunningOwnsEntry
<1>15. StoredIsKept'
  <2> SUFFICES ASSUME NEW m \in Started, op'[m].pc = "stored", m \notin evicted'
               PROVE  index'[op[m].key].result # None
    BY <1>4, <1>8 DEF StoredIsKept
  <2>1. op[m].key \in Keys /\ op[m].key \notin out
    BY <1>1, <1>4, <1>7, <1>8 DEF OpsStarted
  <2>2. CASE op[m].key = k
    BY <1>1, <1>6, <2>1, <2>2
  <2>3. CASE op[m].key # k
    <3> HIDE DEF k, out
    <3>1. m # n
      BY <2>3 DEF k
    <3>2. op[m].pc = "stored" /\ m \notin evicted
      BY <1>4, <1>7, <1>8, <3>1
    <3>3. QED
      BY <1>6, <2>1, <2>3, <3>2 DEF StoredIsKept
  <2>4. QED
    BY <2>2, <2>3
<1>16. EvictedAreStored'
  <2> SUFFICES ASSUME NEW m \in evicted' PROVE op'[m].pc = "stored"
    BY DEF EvictedAreStored
  <2>1. CASE m \in evicted
    BY <1>1, <1>4, <2>1 DEF EvictedAreStored, TypeOK
  <2>2. CASE m \notin evicted
    <3>1. m \in Ops /\ op[m].key \in out /\ op[m].pc \in {"returned", "stored"}
      BY <1>7, <2>2
    <3>2. m \in Started
      BY <3>1 DEF OpsStarted
    <3>3. QED
      BY <1>4, <1>10, <3>1, <3>2
  <2>3. QED
    BY <2>1, <2>2
<1>17. CacheCurrent' /\ CacheDistinct'
  <2>1. \A i \in 1..Len(completed') : index'[completed'[i]].result # None
    BY <1>1, <1>3, <1>6 DEF CacheCurrent, TypeOK
  <2>2. QED
    BY <1>3, <2>1 DEF CacheCurrent, CacheDistinct
<1>18. RestartedOnlyAfterEviction'
  BY <1>4, <1>7, <1>8 DEF RestartedOnlyAfterEviction
<1>19. QED
  BY <1>11, <1>12, <1>13, <1>14, <1>15, <1>16, <1>17, <1>18

--------------------------------------------------------------------------------

LEMMA NextKeepsIInv == IInv /\ [Next]_vars => IInv'
<1> SUFFICES ASSUME IInv, [Next]_vars PROVE IInv'
  OBVIOUS
<1> DEFINE SameOps == UNCHANGED <<count, op, index, completed, evicted>>
<1>1. ASSUME SameOps, placed' \subseteq Ops, waiting' \in [Callers -> Ops \union {NoOp}]
      PROVE  IInv'
  BY <1>1 DEF IInv, TypeOK, OpsStarted, ResultKnown, RunningOwnsEntry, StoredIsKept,
              EvictedAreStored, CallsAreStarted, CacheCurrent, CacheDistinct,
              RestartedOnlyAfterEviction, Started
<1>2. ASSUME NEW c \in Callers, NEW k \in Keys, NEW f \in Fingerprints,
             ExecuteAnswered(c, k, f)
      PROVE  IInv'
  BY <1>1, <1>2 DEF ExecuteAnswered, IInv, TypeOK
<1>3. ASSUME NEW c \in Callers, NEW k \in Keys, NEW f \in Fingerprints, ExecuteJoins(c, k, f)
      PROVE  IInv'
  <2>1. index[k].task \in Ops \union {NoOp}
    BY DEF IInv, TypeOK
  <2>2. QED
    BY <1>1, <1>3, <2>1 DEF ExecuteJoins, IInv, TypeOK
<1>4. ASSUME NEW c \in Callers, CallerReturns(c) \/ CallerTimesOut(c) \/ CallerCancelled(c)
      PROVE  IInv'
  BY <1>1, <1>4 DEF CallerReturns, CallerTimesOut, CallerCancelled, IInv, TypeOK, NoOp
<1>5. ASSUME NEW n \in Ops, Place(n) PROVE IInv'
  BY <1>1, <1>5 DEF Place, IInv, TypeOK
<1>6. ASSUME NEW n \in Ops,
             Begin(n) \/ ThreadStarts(n) \/ Signed(n) \/ AdapterReturns(n) \/ AdapterTimesOut(n)
               \/ ThreadEnds(n)
      PROVE  IInv'
  <2>1. op[n] \in OpRecord
    BY DEF IInv, TypeOK, OpRecord
  <2>2. CASE Begin(n)
    <3> DEFINE o == [op[n] EXCEPT !.pc = "sign", !.call = "queued"]
    <3>1. o \in OpRecord /\ o.key = op[n].key /\ o.pc = "sign"
      BY <2>1 DEF OpRecord, Progress
    <3>2. QED
      BY <2>2, <3>1, AdvanceKeepsIInv DEF Begin
  <2>3. CASE ThreadStarts(n)
    <3> DEFINE o == [op[n] EXCEPT !.call = IF op[n].pc = "sign" THEN "signing" ELSE "sending"]
    <3>1. o \in OpRecord /\ o.key = op[n].key /\ o.pc = op[n].pc /\ o.result = op[n].result
      BY <2>1 DEF OpRecord
    <3>2. op[n].pc # "unused"
      BY <2>3 DEF ThreadStarts, IInv, CallsAreStarted
    <3>3. QED
      BY <2>3, <3>1, <3>2, AdvanceKeepsIInv DEF ThreadStarts, IInv, ResultKnown
  <2>4. CASE Signed(n)
    <3> DEFINE o == [op[n] EXCEPT !.pc = "send", !.call = "queued"]
    <3>1. o \in OpRecord /\ o.key = op[n].key /\ o.pc = "send"
      BY <2>1 DEF OpRecord, Progress
    <3>2. QED
      BY <2>4, <3>1, AdvanceKeepsIInv DEF Signed
  <2>5. CASE AdapterReturns(n)
    <3>1. PICK r \in {"failed", "accepted", "rejected"} : SetOp(n, Returned(n, r))
      BY <2>5 DEF AdapterReturns
    <3>2. /\ Returned(n, r) \in OpRecord /\ Returned(n, r).key = op[n].key
          /\ Returned(n, r).pc = "returned" /\ Returned(n, r).result = r
      BY <2>1 DEF OpRecord, Progress, Returned, Results
    <3>3. op[n].pc \in {"sign", "send"}
      BY <2>5 DEF AdapterReturns
    <3>4. r # None
      BY DEF None
    <3>5. QED
      BY <2>5, <3>1, <3>2, <3>3, <3>4, AdvanceKeepsIInv DEF AdapterReturns
  <2>6. CASE AdapterTimesOut(n)
    <3> DEFINE o == [op[n] EXCEPT !.pc = "returned", !.result = "timeout",
                                  !.call = IF @ = "queued" THEN "none" ELSE @]
    <3>1. /\ o \in OpRecord /\ o.key = op[n].key /\ o.pc = "returned" /\ o.result = "timeout"
          /\ o.result # None
      BY <2>1 DEF OpRecord, Progress, Results, None
    <3>2. QED
      BY <2>6, <3>1, AdvanceKeepsIInv DEF AdapterTimesOut
  <2>7. CASE ThreadEnds(n)
    <3> DEFINE o == [op[n] EXCEPT !.call = "none"]
    <3>1. o \in OpRecord /\ o.key = op[n].key /\ o.pc = op[n].pc /\ o.result = op[n].result
      BY <2>1 DEF OpRecord
    <3>2. QED
      BY <2>7, <3>1, AdvanceKeepsIInv DEF ThreadEnds, IInv, ResultKnown
  <2>8. QED
    BY <1>6, <2>2, <2>3, <2>4, <2>5, <2>6, <2>7
<1>7. ASSUME NEW n \in Ops, StoreResult(n) PROVE IInv'
  BY <1>7, StoreKeepsIInv
<1>8. ASSUME UNCHANGED vars PROVE IInv'
  BY <1>1, <1>8 DEF vars, IInv, TypeOK
<1>9. QED
  BY <1>2, <1>3, <1>4, <1>5, <1>6, <1>7, <1>8, StartKeepsIInv DEF Next

\* However callers, timeouts and late threads interleave, and whatever the
\* sizes of the cache and of the pool, the executor keeps its types and its
\* cache bound, and a key is executed again only after the cache dropped the
\* result of its earlier operation.
THEOREM NoEarlyRestart == Spec => []IndexSound
<1>1. IInv => IndexSound
  BY DEF IInv, IndexSound
<1>2. QED
  BY <1>1, InitIInv, NextKeepsIInv, PTL DEF Spec

--------------------------------------------------------------------------------
(* The executor implements IdempotentCalls. *)

\* An entry holds a result only when no operation of its key is in progress.
KnownIsDone == \A k \in Keys : index[k].result # None => index[k].task = NoOp

LEMMA NextKeepsKnown == IInv /\ KnownIsDone /\ [Next]_vars => KnownIsDone'
<1> SUFFICES ASSUME IInv, KnownIsDone, [Next]_vars PROVE KnownIsDone'
  OBVIOUS
<1>1. ASSUME index' = index PROVE KnownIsDone'
  BY <1>1 DEF KnownIsDone
<1>2. ASSUME NEW c \in Callers, NEW k \in Keys, NEW f \in Fingerprints, ExecuteStarts(c, k, f)
      PROVE  KnownIsDone'
  BY <1>2 DEF ExecuteStarts, Entry, KnownIsDone, IInv, TypeOK
<1>3. ASSUME NEW n \in Ops, StoreResult(n) PROVE KnownIsDone'
  <2>1. op[n].key \in Keys
    BY <1>3 DEF StoreResult, IInv, OpsStarted
  <2>2. QED
    BY <1>3, <2>1 DEF StoreResult, Finished, Trimmed, Entry, KnownIsDone, IInv, TypeOK
<1>4. QED
  BY <1>1, <1>2, <1>3 DEF Next, vars, ExecuteAnswered, ExecuteJoins, CallerReturns, CallerTimesOut,
     CallerCancelled, Begin, ThreadStarts, Signed, Place, AdapterReturns, AdapterTimesOut, ThreadEnds

LEMMA InitPromise == Init => Promise!Init
BY DEF Init, Promise!Init, NoEntry, Entry

\* With the key added the cache is one longer than before; when that is too
\* long, the oldest key is the only one trimmed.
LEMMA CacheShift ==
  ASSUME completed \in Seq(Keys), Len(completed) <= MaxCached, NEW k \in Keys,
         \A i \in 1..Len(completed) : completed[i] # k
  PROVE  LET c == MovedToEnd(completed, k)
         IN  IF Len(completed) < MaxCached
             THEN Kept(c) = Append(completed, k) /\ TrimmedKeys(c) = {}
             ELSE /\ Len(completed) = MaxCached
                  /\ Kept(c) = Append(Tail(completed), k)
                  /\ TrimmedKeys(c) = {Head(completed)}
                  /\ Head(completed) \in Keys \ {k}
<1> DEFINE c == MovedToEnd(completed, k)
<1>1. c = Append(completed, k)
  BY DEF MovedToEnd, Positions
<1>2. /\ Len(completed) \in Nat /\ MaxCached \in Nat \ {0}
      /\ c \in Seq(Keys) /\ Len(c) = Len(completed) + 1
      /\ \A i \in 1..Len(completed) : c[i] = completed[i]
      /\ c[Len(completed) + 1] = k
  BY <1>1, AppendProperties, ExecutorAssumption
<1> HIDE DEF c
<1>3. CASE Len(completed) < MaxCached
  <2>1. Surplus(c) = 0
    BY <1>2, <1>3 DEF Surplus
  <2>2. Kept(c) = SubSeq(c, 1, Len(c)) /\ TrimmedKeys(c) = {}
    BY <2>1 DEF Kept, TrimmedKeys
  <2>3. SubSeq(c, 1, Len(c)) = c
    BY <1>2
  <2>4. QED
    BY <1>1, <1>3, <2>2, <2>3 DEF c
<1>4. CASE Len(completed) = MaxCached
  <2>1. Surplus(c) = 1
    BY <1>2, <1>4 DEF Surplus
  <2>2. Kept(c) = SubSeq(c, 2, Len(c))
    BY <2>1 DEF Kept
  <2>3. TrimmedKeys(c) = {c[1]}
    BY <2>1 DEF TrimmedKeys
  <2>4. c[1] = completed[1] /\ completed[1] = Head(completed) /\ completed[1] \in Keys \ {k}
    BY <1>2, <1>4
  <2>5. SubSeq(c, 2, Len(c)) = Append(Tail(completed), k)
    BY <1>1, <1>2, <1>4
  <2>6. QED
    BY <1>2, <1>4, <2>2, <2>3, <2>4, <2>5 DEF c
<1>5. QED
  BY <1>2, <1>3, <1>4

\* A step that leaves the index and the cache alone is a stutter.
LEMMA StutterPromise ==
  ASSUME UNCHANGED <<index, completed>>
  PROVE  UNCHANGED Promise!vars
BY DEF Promise!vars

LEMMA StartIsExecute ==
  ASSUME IInv, NEW c \in Callers, NEW k \in Keys, NEW f \in Fingerprints,
         ExecuteStarts(c, k, f)
  PROVE  Promise!Execute(k, f)
<1>1. /\ count + 1 # NoOp
      /\ index' = [index EXCEPT ![k] = Entry(f, count + 1, None)]
      /\ completed' = completed
  BY DEF ExecuteStarts, IInv, TypeOK, NoOp
<1>2. /\ index[k].task = NoOp /\ index[k].result = None
      /\ index[k].print \in {None, f}
  BY DEF ExecuteStarts, Starts, Known, Joins, Conflict, NoEntry, Entry
<1>3. [j \in Keys |-> index'[j].print] = [[j \in Keys |-> index[j].print] EXCEPT ![k] = f]
  BY <1>1 DEF Entry, IInv, TypeOK
<1>4. {j \in Keys : index'[j].task # NoOp} = {j \in Keys : index[j].task # NoOp} \union {k}
  BY <1>1 DEF Entry, IInv, TypeOK
<1>5. [j \in Keys |-> index'[j].result] = [j \in Keys |-> index[j].result]
  BY <1>1, <1>2 DEF Entry, IInv, TypeOK
<1>6. QED
  BY <1>1, <1>2, <1>3, <1>4, <1>5 DEF Promise!Execute

LEMMA StoreIsComplete ==
  ASSUME IInv, KnownIsDone, NEW n \in Ops, StoreResult(n),
         NEW k, k = op[n].key, NEW v, v = op[n].result
  PROVE  Promise!Complete(k, v)
<1> DEFINE out == TrimmedKeys(MovedToEnd(completed, k))
<1>1. /\ op[n].pc = "returned" /\ n \in Started /\ k \in Keys
      /\ index[k].task = n /\ index[k].result = None /\ n # NoOp
  BY DEF StoreResult, IInv, OpsStarted, RunningOwnsEntry, Ops, NoOp
<1>2. /\ completed \in Seq(Keys) /\ Len(completed) <= MaxCached
      /\ \A i \in 1..Len(completed) : completed[i] # k
  BY <1>1 DEF IInv, TypeOK, CacheCurrent
<1>3. IF Len(completed) < MaxCached
      THEN completed' = Append(completed, k) /\ out = {}
      ELSE /\ Len(completed) = MaxCached
           /\ completed' = Append(Tail(completed), k)
           /\ out = {Head(completed)}
           /\ Head(completed) \in Keys \ {k}
  BY <1>1, <1>2, CacheShift DEF StoreResult
<1>4. \A j \in Keys :
        index'[j] = IF j \in out THEN Trimmed([index EXCEPT ![k] = Finished(n)][j])
                    ELSE [index EXCEPT ![k] = Finished(n)][j]
  BY DEF StoreResult
<1>5. \A j \in out : j \in Keys /\ j # k /\ index[j].result # None /\ index[j].task = NoOp
  <2>1. ASSUME NEW j \in out PROVE j = Head(completed) /\ Len(completed) = MaxCached
    BY <1>3, <2>1
  <2>2. ASSUME NEW j \in out PROVE j \in Keys /\ j # k /\ index[j].result # None
    <3>1. Len(completed) \in Nat /\ Len(completed) >= 1 /\ Head(completed) = completed[1]
      BY <1>2, <2>1, <2>2, ExecutorAssumption
    <3>2. QED
      BY <1>3, <2>1, <3>1 DEF IInv, CacheCurrent
  <2>3. QED
    BY <2>2 DEF KnownIsDone
<1> HIDE DEF out
<1>6. /\ \A j \in Keys : j # k => index'[j].print = index[j].print /\ index'[j].task = index[j].task
      /\ \A j \in Keys : j # k /\ j \notin out => index'[j].result = index[j].result
      /\ \A j \in out : index'[j].result = None
  <2>1. \A j \in Keys : j # k => [index EXCEPT ![k] = Finished(n)][j] = index[j]
    BY DEF IInv, TypeOK
  <2>2. \A j \in Keys : j # k /\ j \notin out => index'[j] = index[j]
    BY <1>4, <2>1
  <2>3. \A j \in out : j \in Keys /\ j # k /\ index'[j] = Trimmed(index[j])
    BY <1>4, <1>5, <2>1
  <2>4. ASSUME NEW j \in out
        PROVE  /\ index'[j].print = index[j].print
               /\ index'[j].task = index[j].task
               /\ index'[j].result = None
    <3>1. index'[j] = [print |-> index[j].print, task |-> NoOp, result |-> None]
      BY <2>3 DEF Trimmed, Entry
    <3>2. QED
      BY <1>5, <3>1
  <2>5. QED
    BY <2>2, <2>4
<1>7. index'[k].print = index[k].print /\ index'[k].task = NoOp /\ index'[k].result = v
  BY <1>1, <1>4, <1>5 DEF Finished, Entry, IInv, TypeOK
<1>8. [j \in Keys |-> index'[j].print] = [j \in Keys |-> index[j].print]
  BY <1>6, <1>7
<1>9. {j \in Keys : index'[j].task # NoOp} = {j \in Keys : index[j].task # NoOp} \ {k}
  BY <1>6, <1>7
<1>10. k \in {j \in Keys : index[j].task # NoOp}
  BY <1>1
<1>11. CASE Len(completed) < MaxCached
  <2>1. [j \in Keys |-> index'[j].result] = [[j \in Keys |-> index[j].result] EXCEPT ![k] = v]
    BY <1>3, <1>6, <1>7, <1>11
  <2>2. QED
    BY <1>3, <1>8, <1>9, <1>10, <1>11, <2>1 DEF Promise!Complete, Promise!Remember
<1>12. CASE ~(Len(completed) < MaxCached)
  <2>1. [j \in Keys |-> index'[j].result]
          = [[j \in Keys |-> index[j].result] EXCEPT ![Head(completed)] = None, ![k] = v]
    BY <1>3, <1>6, <1>7, <1>12
  <2>2. QED
    BY <1>3, <1>8, <1>9, <1>10, <1>12, <2>1 DEF Promise!Complete, Promise!RememberInstead
<1>13. QED
  BY <1>11, <1>12

LEMMA NextPromise == IInv /\ KnownIsDone /\ [Next]_vars => [Promise!Next]_Promise!vars
<1> SUFFICES ASSUME IInv, KnownIsDone, [Next]_vars
             PROVE  Promise!Next \/ UNCHANGED Promise!vars
  OBVIOUS
<1>1. ASSUME UNCHANGED <<index, completed>> PROVE UNCHANGED Promise!vars
  BY <1>1, StutterPromise
<1>2. ASSUME NEW c \in Callers, NEW k \in Keys, NEW f \in Fingerprints, ExecuteStarts(c, k, f)
      PROVE  Promise!Next
  BY <1>2, StartIsExecute DEF Promise!Next
<1>3. ASSUME NEW n \in Ops, StoreResult(n) PROVE Promise!Next
  <2>1. op[n].key \in Keys /\ op[n].result \in Results
    BY <1>3 DEF StoreResult, IInv, OpsStarted, ResultKnown, TypeOK
  <2>2. PICK k \in Keys, v \in Results : k = op[n].key /\ v = op[n].result
    BY <2>1
  <2>3. Promise!Complete(k, v)
    BY <1>3, <2>2, StoreIsComplete
  <2>4. QED
    BY <2>3 DEF Promise!Next
<1>4. QED
  BY <1>1, <1>2, <1>3 DEF Next, vars, ExecuteAnswered, ExecuteJoins, CallerReturns, CallerTimesOut,
     CallerCancelled, Begin, ThreadStarts, Signed, Place, AdapterReturns, AdapterTimesOut, ThreadEnds

\* For every number of callers, keys, requests and every size of the cache and
\* of the pool, the index with its tasks and its cache implements the memory of
\* IdempotentCalls.
THEOREM PromiseKept == Spec => KeepsPromise
<1>1. Init => KnownIsDone
  BY DEF Init, KnownIsDone, NoEntry, Entry
<1>2. QED
  BY <1>1, InitIInv, InitPromise, NextKeepsIInv, NextKeepsKnown, NextPromise, PTL
     DEF Spec, KeepsPromise, Promise!Spec

--------------------------------------------------------------------------------
(* What callers are told.  An answer is traced back through the index to the *)
(* operation it came from; a remembered key has one operation.              *)

\* An entry with a task is that of an operation of its key and fingerprint.
EntryOfTask ==
  \A k \in Keys : index[k].task # NoOp =>
    /\ index[k].task \in Started
    /\ op[index[k].task].key = k
    /\ op[index[k].task].print = index[k].print

\* Operation n has finished the request (k, f) with r.
Ended(n, k, f, r) ==
  op[n].pc = "stored" /\ op[n].key = k /\ op[n].print = f /\ op[n].result = r

\* A result in the index, and every final answer, is that of an operation.
EntryOfResult ==
  \A k \in Keys : index[k].result # None =>
    \E n \in Started : Ended(n, k, index[k].print, index[k].result)

AnswerOfResult ==
  \A a \in answers : \E n \in Started : Ended(n, a.key, a.print, a.result)

\* An operation that was accepted is on the exchange; one that was rejected is
\* not, and no thread is left that could still place it.
ResultsTrue ==
  \A n \in Started : op[n].pc \in {"returned", "stored"} =>
    /\ op[n].result = "accepted" => n \in placed
    /\ op[n].result = "rejected" => n \notin placed /\ op[n].call = "none"

AInv == EntryOfTask /\ EntryOfResult /\ AnswerOfResult /\ ResultsTrue

LEMMA InitAInv == Init => AInv
BY DEF Init, AInv, EntryOfTask, EntryOfResult, AnswerOfResult, ResultsTrue, NoEntry, Entry, Started

\* A step of one operation that does not store its result.
LEMMA AdvanceKeepsAInv ==
  ASSUME IInv, AInv, NEW n \in Started, NEW o, SetOp(n, o),
         UNCHANGED <<count, index, placed, answers>>,
         o.key = op[n].key, o.print = op[n].print,
         op[n].pc = "stored" => o.pc = "stored" /\ o.result = op[n].result,
         o.pc \in {"returned", "stored"} =>
           /\ o.result = "accepted" => n \in placed
           /\ o.result = "rejected" => n \notin placed /\ o.call = "none"
  PROVE  AInv'
<1>1. Started' = Started /\ Started \subseteq Ops
  BY ExecutorAssumption DEF Started, IInv, TypeOK, Ops
<1>2. /\ op'[n] = o
      /\ \A m \in Ops : m # n => op'[m] = op[m]
  BY <1>1 DEF SetOp, IInv, TypeOK
<1>3. \A m \in Started : \A k, f, r : Ended(m, k, f, r) => Ended(m, k, f, r)'
  BY <1>1, <1>2 DEF Ended
<1>4. EntryOfTask'
  BY <1>1, <1>2 DEF AInv, EntryOfTask
<1>5. EntryOfResult'
  <2> SUFFICES ASSUME NEW k \in Keys, index[k].result # None
               PROVE  \E m \in Started : Ended(m, k, index[k].print, index[k].result)'
    BY <1>1 DEF EntryOfResult, Ended
  <2>1. PICK m \in Started : Ended(m, k, index[k].print, index[k].result)
    BY DEF AInv, EntryOfResult
  <2>2. QED
    BY <1>3, <2>1 DEF Ended
<1>6. AnswerOfResult'
  <2> SUFFICES ASSUME NEW a \in answers
               PROVE  \E m \in Started : Ended(m, a.key, a.print, a.result)'
    BY <1>1 DEF AnswerOfResult, Ended
  <2>1. PICK m \in Started : Ended(m, a.key, a.print, a.result)
    BY DEF AInv, AnswerOfResult
  <2>2. QED
    BY <1>3, <2>1 DEF Ended
<1>7. ResultsTrue'
  BY <1>1, <1>2 DEF AInv, ResultsTrue
<1>8. QED
  BY <1>4, <1>5, <1>6, <1>7 DEF AInv

\* A caller is told what an operation of its request came to, or nothing final.
LEMMA AnswerKeepsAInv ==
  ASSUME AInv, NEW k, NEW f, NEW r, Answer(k, f, r), UNCHANGED <<count, op, index, placed>>,
         r \in Final => \E n \in Started : Ended(n, k, f, r)
  PROVE  AInv'
<1>1. Started' = Started
  BY DEF Started
<1>2. EntryOfTask' /\ EntryOfResult' /\ ResultsTrue'
  BY <1>1 DEF AInv, EntryOfTask, EntryOfResult, ResultsTrue, Ended
<1>3. \A a \in answers' : a \in answers \/ (r \in Final /\ a = [key |-> k, print |-> f, result |-> r])
  <2>1. CASE r \in Final
    BY <2>1 DEF Answer
  <2>2. CASE r \notin Final
    BY <2>2 DEF Answer
  <2>3. QED
    BY <2>1, <2>2
<1>4. ASSUME NEW a \in answers' PROVE \E n \in Started : Ended(n, a.key, a.print, a.result)
  BY <1>3 DEF AInv, AnswerOfResult
<1>5. AnswerOfResult'
  BY <1>1, <1>4 DEF AnswerOfResult, Ended
<1>6. QED
  BY <1>2, <1>5 DEF AInv

LEMMA StartKeepsAInv ==
  ASSUME IInv, AInv, NEW c \in Callers, NEW k \in Keys, NEW f \in Fingerprints,
         ExecuteStarts(c, k, f)
  PROVE  AInv'
<1> DEFINE n == count + 1
<1>1. /\ n \in Ops /\ n \notin Started /\ Started \subseteq Ops /\ Started' = Started \union {n}
  BY ExecutorAssumption DEF ExecuteStarts, Started, Ops, IInv, TypeOK
<1>2. /\ op'[n] = NewOp(k, f)
      /\ \A m \in Started : op'[m] = op[m]
      /\ index'[k] = Entry(f, n, None)
      /\ \A j \in Keys : j # k => index'[j] = index[j]
      /\ UNCHANGED <<placed, answers>>
  BY <1>1 DEF ExecuteStarts, IInv, TypeOK
<1>3. EntryOfTask'
  BY <1>1, <1>2 DEF AInv, EntryOfTask, NewOp, Entry
<1>4. EntryOfResult'
  BY <1>1, <1>2 DEF AInv, EntryOfResult, Ended, Entry
<1>5. AnswerOfResult'
  BY <1>1, <1>2 DEF AInv, AnswerOfResult, Ended
<1>6. ResultsTrue'
  BY <1>1, <1>2 DEF AInv, ResultsTrue, NewOp
<1>7. QED
  BY <1>3, <1>4, <1>5, <1>6 DEF AInv

LEMMA StoreKeepsAInv ==
  ASSUME IInv, AInv, NEW n \in Ops, StoreResult(n)
  PROVE  AInv'
<1> DEFINE k == op[n].key
           out == TrimmedKeys(MovedToEnd(completed, k))
           stored == [index EXCEPT ![k] = Finished(n)]
<1>1. /\ n \in Started /\ k \in Keys /\ op[n].pc = "returned"
      /\ index[k].task = n /\ n # NoOp
  BY DEF StoreResult, IInv, OpsStarted, RunningOwnsEntry, Ops, NoOp
<1>2. op[n].print = index[k].print
  BY <1>1 DEF AInv, EntryOfTask
<1>3. Started' = Started /\ Started \subseteq Ops
  BY ExecutorAssumption DEF StoreResult, Started, IInv, TypeOK, Ops
<1>4. /\ op'[n] = [op[n] EXCEPT !.pc = "stored"]
      /\ \A m \in Ops : m # n => op'[m] = op[m]
      /\ UNCHANGED <<placed, answers>>
  BY DEF StoreResult, SetOp, IInv, TypeOK
<1>5. /\ op'[n].pc = "stored" /\ op'[n].key = op[n].key /\ op'[n].print = op[n].print
      /\ op'[n].result = op[n].result /\ op'[n].call = op[n].call
  BY <1>4 DEF IInv, TypeOK
<1>6. index' = [j \in Keys |-> IF j \in out THEN Trimmed(stored[j]) ELSE stored[j]]
  BY DEF StoreResult
<1>7. stored[k] = Finished(n) /\ \A j \in Keys : j # k => stored[j] = index[j]
  BY <1>1 DEF IInv, TypeOK
<1>8. /\ index'[k].task = NoOp
      /\ index'[k].result # None => /\ index'[k].result = op[n].result
                                    /\ index'[k].print = op[n].print
  <2>1. /\ Finished(n).task = NoOp /\ Finished(n).result = op[n].result
        /\ Finished(n).print = op[n].print
    BY <1>2 DEF Finished, Entry
  <2>2. /\ Trimmed(Finished(n)).task = NoOp /\ Trimmed(Finished(n)).result = None
    BY DEF Trimmed, Entry
  <2> HIDE DEF stored, out
  <2>3. index'[k] = IF k \in out THEN Trimmed(Finished(n)) ELSE Finished(n)
    BY <1>1, <1>6, <1>7
  <2>4. CASE k \in out
    BY <2>2, <2>3, <2>4
  <2>5. CASE k \notin out
    BY <2>1, <2>3, <2>5
  <2>6. QED
    BY <2>4, <2>5
<1>9. ASSUME NEW j \in Keys, j # k
      PROVE  /\ index'[j].task # NoOp => index'[j] = index[j]
             /\ index'[j].result # None => index'[j] = index[j]
  <2>1. Trimmed(index[j]).task = NoOp /\ Trimmed(index[j]).result = None
    BY DEF Trimmed, Entry
  <2> HIDE DEF stored, out
  <2>2. index'[j] = IF j \in out THEN Trimmed(index[j]) ELSE index[j]
    BY <1>6, <1>7, <1>9
  <2>3. CASE j \in out
    BY <2>1, <2>2, <2>3
  <2>4. CASE j \notin out
    BY <2>2, <2>4
  <2>5. QED
    BY <2>3, <2>4
<1>10. \A m \in Started : \A j, f, r : Ended(m, j, f, r) => Ended(m, j, f, r)'
  BY <1>1, <1>3, <1>4 DEF Ended
<1> HIDE DEF k, out, stored
<1>11. EntryOfTask'
  <2> SUFFICES ASSUME NEW j \in Keys, index'[j].task # NoOp
               PROVE  /\ index'[j].task \in Started
                      /\ op'[index'[j].task].key = j
                      /\ op'[index'[j].task].print = index'[j].print
    BY <1>3 DEF EntryOfTask
  <2>1. j # k /\ index'[j] = index[j]
    BY <1>8, <1>9
  <2>2. index[j].task \in Started /\ op[index[j].task].key = j /\ op[index[j].task].print = index[j].print
    BY <2>1 DEF AInv, EntryOfTask
  <2>3. index[j].task # n
    BY <2>1, <2>2 DEF k
  <2>4. QED
    BY <1>3, <1>4, <2>1, <2>2, <2>3
<1>12. EntryOfResult'
  <2> SUFFICES ASSUME NEW j \in Keys, index'[j].result # None
               PROVE  \E m \in Started : Ended(m, j, index[j].print, index[j].result)'
    BY <1>3 DEF EntryOfResult, Ended
  <2>1. CASE j = k
    <3>1. Ended(n, j, index[j].print, index[j].result)'
      BY <1>5, <1>8, <2>1 DEF Ended, k
    <3>2. QED
      BY <1>1, <3>1
  <2>2. CASE j # k
    <3>1. index'[j] = index[j]
      BY <1>9, <2>2
    <3>2. PICK m \in Started : Ended(m, j, index[j].print, index[j].result)
      BY <3>1 DEF AInv, EntryOfResult
    <3>3. QED
      BY <1>10, <3>1, <3>2 DEF Ended
  <2>3. QED
    BY <2>1, <2>2
<1>13. AnswerOfResult'
  <2> SUFFICES ASSUME NEW a \in answers
               PROVE  \E m \in Started : Ended(m, a.key, a.print, a.result)'
    BY <1>3, <1>4 DEF AnswerOfResult, Ended
  <2>1. PICK m \in Started : Ended(m, a.key, a.print, a.result)
    BY DEF AInv, AnswerOfResult
  <2>2. QED
    BY <1>10, <2>1 DEF Ended
<1>14. ResultsTrue'
  <2> SUFFICES ASSUME NEW m \in Started, op'[m].pc \in {"returned", "stored"}
               PROVE  /\ op'[m].result = "accepted" => m \in placed
                      /\ op'[m].result = "rejected" => m \notin placed /\ op'[m].call = "none"
    BY <1>3, <1>4 DEF ResultsTrue
  <2>1. op[m].pc \in {"returned", "stored"} /\ op'[m].result = op[m].result /\ op'[m].call = op[m].call
    BY <1>1, <1>3, <1>4, <1>5
  <2>2. QED
    BY <2>1 DEF AInv, ResultsTrue
<1>15. QED
  BY <1>11, <1>12, <1>13, <1>14 DEF AInv

LEMMA NextKeepsAInv == IInv /\ AInv /\ [Next]_vars => AInv'
<1> SUFFICES ASSUME IInv, AInv, [Next]_vars PROVE AInv'
  OBVIOUS
<1>1. ASSUME UNCHANGED <<count, op, index, placed, answers>> PROVE AInv'
  BY <1>1 DEF AInv, EntryOfTask, EntryOfResult, AnswerOfResult, ResultsTrue, Ended, Started
<1>2. ASSUME NEW c \in Callers, NEW k \in Keys, NEW f \in Fingerprints, ExecuteAnswered(c, k, f)
      PROVE  AInv'
  <2>1. CASE Answer(k, f, "conflict")
    BY <1>2, <2>1, AnswerKeepsAInv DEF ExecuteAnswered, Final
  <2>2. CASE Known(k, f) /\ Answer(k, f, index[k].result)
    <3>1. index[k].result # None /\ index[k].print = f
      BY <2>2 DEF Known, Conflict, NoEntry, Entry
    <3>2. \E n \in Started : Ended(n, k, f, index[k].result)
      BY <3>1 DEF AInv, EntryOfResult
    <3>3. QED
      BY <1>2, <2>2, <3>2, AnswerKeepsAInv DEF ExecuteAnswered
  <2>3. QED
    BY <1>2, <2>1, <2>2 DEF ExecuteAnswered
<1>3. ASSUME NEW c \in Callers, CallerReturns(c) PROVE AInv'
  <2> DEFINE n == waiting[c]
  <2>1. n \in Ops /\ op[n].pc = "stored" /\ Answer(op[n].key, op[n].print, op[n].result)
    BY <1>3 DEF CallerReturns, IInv, TypeOK
  <2>2. n \in Started /\ Ended(n, op[n].key, op[n].print, op[n].result)
    BY <2>1 DEF IInv, OpsStarted, Ended
  <2>3. UNCHANGED <<count, op, index, placed>>
    BY <1>3 DEF CallerReturns
  <2>4. QED
    BY <2>1, <2>2, <2>3, AnswerKeepsAInv
<1>4. ASSUME NEW c \in Callers, CallerTimesOut(c) PROVE AInv'
  BY <1>4, AnswerKeepsAInv DEF CallerTimesOut, Final
<1>5. ASSUME NEW n \in Ops, Place(n) PROVE AInv'
  <2>1. op[n].call = "sending" /\ placed' = placed \union {n}
        /\ UNCHANGED <<count, op, index, answers>>
    BY <1>5 DEF Place
  <2>2. ResultsTrue'
    BY <2>1 DEF AInv, ResultsTrue, Started
  <2>3. QED
    BY <2>1, <2>2 DEF AInv, EntryOfTask, EntryOfResult, AnswerOfResult, Ended, Started
<1>6. ASSUME NEW n \in Ops,
             Begin(n) \/ ThreadStarts(n) \/ Signed(n) \/ AdapterReturns(n) \/ AdapterTimesOut(n)
               \/ ThreadEnds(n)
      PROVE  AInv'
  <2>1. op[n] \in OpRecord /\ n \in Started
    <3>1. op[n].pc # "unused"
      BY <1>6 DEF Begin, ThreadStarts, Signed, AdapterReturns, AdapterTimesOut, ThreadEnds, IInv,
                  CallsAreStarted
    <3>2. QED
      BY <3>1 DEF IInv, TypeOK, OpRecord, OpsStarted
  <2>2. UNCHANGED <<count, index, placed, answers>>
    BY <1>6 DEF Begin, ThreadStarts, Signed, AdapterReturns, AdapterTimesOut, ThreadEnds
  <2>3. CASE Begin(n)
    <3> DEFINE o == [op[n] EXCEPT !.pc = "sign", !.call = "queued"]
    <3>1. o.key = op[n].key /\ o.print = op[n].print /\ o.pc = "sign" /\ op[n].pc = "created"
      BY <2>1, <2>3 DEF Begin, OpRecord
    <3>2. QED
      BY <2>1, <2>2, <2>3, <3>1, AdvanceKeepsAInv DEF Begin
  <2>4. CASE ThreadStarts(n)
    <3> DEFINE o == [op[n] EXCEPT !.call = IF op[n].pc = "sign" THEN "signing" ELSE "sending"]
    <3>1. o.key = op[n].key /\ o.print = op[n].print /\ o.pc = op[n].pc /\ o.result = op[n].result
      BY <2>1 DEF OpRecord
    <3>2. op[n].call # "none"
      BY <2>4 DEF ThreadStarts
    <3>3. op[n].pc \in {"returned", "stored"} =>
            /\ op[n].result = "accepted" => n \in placed
            /\ op[n].result # "rejected"
      BY <2>1, <3>2 DEF AInv, ResultsTrue
    <3>4. SetOp(n, o)
      BY <2>4 DEF ThreadStarts
    <3> HIDE DEF o
    <3>5. QED
      BY <2>1, <2>2, <3>1, <3>3, <3>4, AdvanceKeepsAInv
  <2>5. CASE Signed(n)
    <3> DEFINE o == [op[n] EXCEPT !.pc = "send", !.call = "queued"]
    <3>1. o.key = op[n].key /\ o.print = op[n].print /\ o.pc = "send" /\ op[n].pc = "sign"
      BY <2>1, <2>5 DEF Signed, OpRecord
    <3>2. QED
      BY <2>1, <2>2, <2>5, <3>1, AdvanceKeepsAInv DEF Signed
  <2>6. CASE AdapterReturns(n)
    <3>1. PICK r \in Results :
            /\ SetOp(n, Returned(n, r))
            /\ r = "accepted" => n \in placed
            /\ r = "rejected" => n \notin placed
            /\ op[n].pc # "stored"
      BY <2>6 DEF AdapterReturns, Results
    <3> DEFINE o == Returned(n, r)
    <3>2. o.key = op[n].key /\ o.print = op[n].print /\ o.result = r /\ o.call = "none"
      BY <2>1 DEF OpRecord, Returned
    <3> HIDE DEF o
    <3>3. QED
      BY <2>1, <2>2, <3>1, <3>2, AdvanceKeepsAInv DEF o
  <2>7. CASE AdapterTimesOut(n)
    <3> DEFINE o == [op[n] EXCEPT !.pc = "returned", !.result = "timeout",
                                  !.call = IF @ = "queued" THEN "none" ELSE @]
    <3>1. o.key = op[n].key /\ o.print = op[n].print /\ o.result = "timeout" /\ op[n].pc # "stored"
      BY <2>1, <2>7 DEF AdapterTimesOut, OpRecord
    <3>2. SetOp(n, o)
      BY <2>7 DEF AdapterTimesOut
    <3> HIDE DEF o
    <3>3. QED
      BY <2>1, <2>2, <3>1, <3>2, AdvanceKeepsAInv
  <2>8. CASE ThreadEnds(n)
    <3> DEFINE o == [op[n] EXCEPT !.call = "none"]
    <3>1. /\ o.key = op[n].key /\ o.print = op[n].print /\ o.pc = op[n].pc
          /\ o.result = op[n].result /\ o.call = "none" /\ SetOp(n, o)
          /\ op[n].pc \in {"returned", "stored"}
      BY <2>1, <2>8 DEF ThreadEnds, OpRecord
    <3> HIDE DEF o
    <3>2. QED
      BY <2>1, <2>2, <3>1, AdvanceKeepsAInv DEF AInv, ResultsTrue
  <2>9. QED
    BY <1>6, <2>3, <2>4, <2>5, <2>6, <2>7, <2>8
<1>7. QED
  BY <1>1, <1>2, <1>3, <1>4, <1>5, <1>6, StartKeepsAInv, StoreKeepsAInv
     DEF Next, vars, ExecuteJoins, CallerCancelled

\* While a key is remembered it has one operation, so all its answers are that
\* operation's.
LEMMA AInvImplies == IInv /\ AInv => AnswersSound
<1> SUFFICES ASSUME IInv, AInv PROVE AnswersSound
  OBVIOUS
<1>1. ASSUME NEW k, Remembered(k), NEW m \in Started, NEW n \in Started,
             op[m].key = k, op[n].key = k
      PROVE  m = n
  <2>1. m \notin evicted /\ n \notin evicted
    BY <1>1 DEF Remembered
  <2>2. ~(m < n) /\ ~(n < m)
    BY <1>1, <2>1 DEF IInv, RestartedOnlyAfterEviction
  <2>3. m \in Int /\ n \in Int
    BY DEF Started
  <2>4. QED
    BY <2>2, <2>3
<1>2. AnswersAgree
  <2> SUFFICES ASSUME NEW a \in answers, NEW b \in answers,
                      Remembered(a.key), a.key = b.key, a.print = b.print
               PROVE  a.result = b.result
    BY DEF AnswersAgree
  <2>1. PICK m \in Started : Ended(m, a.key, a.print, a.result)
    BY DEF AInv, AnswerOfResult
  <2>2. PICK n \in Started : Ended(n, b.key, b.print, b.result)
    BY DEF AInv, AnswerOfResult
  <2>3. m = n
    BY <1>1, <2>1, <2>2 DEF Ended
  <2>4. QED
    BY <2>1, <2>2, <2>3 DEF Ended
<1>3. AnswersTrue
  <2> SUFFICES ASSUME NEW a \in answers, NEW n \in Started,
                      Remembered(a.key), op[n].key = a.key, op[n].print = a.print
               PROVE  /\ a.result = "accepted" => n \in placed
                      /\ a.result = "rejected" => n \notin placed
    BY DEF AnswersTrue
  <2>1. PICK m \in Started : Ended(m, a.key, a.print, a.result)
    BY DEF AInv, AnswerOfResult
  <2>2. m = n
    BY <1>1, <2>1 DEF Ended
  <2>3. QED
    BY <2>1, <2>2 DEF Ended, AInv, ResultsTrue
<1>4. QED
  BY <1>2, <1>3 DEF AnswersSound

\* Callers of one request hear one final answer as long as its key is
\* remembered, and it is what happened on the exchange.
THEOREM AnswersHold == Spec => []AnswersSound
<1>1. QED
  BY InitIInv, NextKeepsIInv, InitAInv, NextKeepsAInv, AInvImplies, PTL DEF Spec

================================================================================
