---------------------------- MODULE StatsProofs -----------------------------
(***************************************************************************)
(* Proofs about Stats: no increment is lost, although increments, the      *)
(* cleanup worker and LoadStats share the buckets without a lock.          *)
(***************************************************************************)
EXTENDS Stats, FiniteSetTheorems, TLAPS

\* The arithmetic of the constants.
LEMMA Bounds ==
  /\ Retention \in Int /\ Retention > 0 /\ MaxMinute \in Nat /\ MaxIncs \in Nat
  /\ \A k \in Minutes : k \in Int
  /\ 0 \in Minutes
  BY StatsAssumption DEF Minutes

\* The bucket of a call.
LEMMA CallBucket ==
  ASSUME TypeOK, CallsBounded, NEW p \in Incs, pc[p] # "idle"
  PROVE  /\ calls[p] \in 1 .. MaxIncs /\ <<p, calls[p]>> \in Buckets
         /\ <<p, calls[p]>> # None
  <1>1. calls[p] \in Nat /\ 1 <= calls[p] /\ calls[p] <= MaxIncs
    BY DEF TypeOK, CallsBounded
  <1>2. calls[p] \in 1 .. MaxIncs
    BY <1>1, Bounds
  <1> QED
    BY <1>2, StatsAssumption DEF Buckets

\* Every step keeps the types.
LEMMA NextTypeOK == ASSUME TypeOK, CallsBounded, InItsMinute, [Next]_vars PROVE TypeOK'
  <1> USE DEF TypeOK
  <1>1. CASE Clock
    <2>1. now' \in Minutes
      <3>1. now \in 0 .. MaxMinute /\ now < MaxMinute /\ now' = now + 1
        BY <1>1 DEF Clock, Minutes
      <3> QED
        BY <3>1, Bounds DEF Minutes
    <2> QED
      BY <1>1, <2>1 DEF Clock, incVars, workerVars, loadVars
  <1>2. ASSUME NEW p \in Incs, ReadClock(p) PROVE TypeOK'
    BY <1>2 DEF ReadClock, workerVars, loadVars
  <1>3. ASSUME NEW p \in Incs, Load(p) PROVE TypeOK'
    BY <1>3 DEF Load, workerVars, loadVars
  <1>4. ASSUME NEW p \in Incs, LoadOrStore(p) PROVE TypeOK'
    <2>1. <<p, calls[p]>> \in Buckets
      BY <1>4, CallBucket DEF LoadOrStore
    <2>2. minutes' \in [Minutes -> Buckets \cup {None}]
      BY <1>4, <2>1 DEF LoadOrStore
    <2>3. minutes'[key[p]] \in Buckets \cup {None}
      BY <2>2
    <2> QED
      BY <1>4, <2>2, <2>3 DEF LoadOrStore, workerVars, loadVars
  <1>5. ASSUME NEW p \in Incs, Add(p) PROVE TypeOK'
    <2>1. md[p] \in Buckets
      BY <1>5 DEF Add, InItsMinute, Located
    <2> QED
      BY <1>5, <2>1, Bounds DEF Add, workerVars, loadVars
  <1>6. CASE CleanTick
    <2>1. cutoff' \in Int
      BY <1>6, Bounds DEF CleanTick, Cutoff
    <2> QED
      BY <1>6, <2>1 DEF CleanTick, incVars, loadVars
  <1>7. CASE CleanVisit
    BY <1>7 DEF CleanVisit, incVars, loadVars
  <1>8. CASE CleanEnd \/ Close
    BY <1>8 DEF CleanEnd, Close, incVars, loadVars
  <1>9. CASE LoadVisit
    <2>1. PICK k \in toLoad :
            /\ toLoad' = toLoad \ {k} /\ loaded' = [loaded EXCEPT ![k] = Counter(k)]
            /\ total' = total + Counter(k)
      BY <1>9 DEF LoadVisit
    <2>2. total' \in Nat /\ loaded' \in [Minutes -> Nat]
      <3>1. Counter(k) \in Nat
        BY DEF Counter
      <3> QED
        BY <2>1, <3>1
    <2> QED
      BY <1>9, <2>1, <2>2 DEF LoadVisit, incVars, workerVars
  <1>10. CASE LoadBegin \/ LoadEnd \/ Answered
    BY <1>10 DEF LoadBegin, LoadEnd, Answered, incVars, workerVars
  <1>11. CASE UNCHANGED vars
    BY <1>11 DEF vars, incVars, workerVars, loadVars
  <1> HIDE DEF TypeOK
  <1> QED
    BY <1>1, <1>2, <1>3, <1>4, <1>5, <1>6, <1>7, <1>8, <1>9, <1>10, <1>11
    DEF Next, Increment, Clean

\* The steps that matter to the buckets; the others leave them alone.
BucketVars == <<minutes, count, pc, key, md, calls, counted>>

LEMMA BucketSteps ==
  ASSUME [Next]_vars
  PROVE  \/ UNCHANGED <<BucketVars, now>>
         \/ Clock /\ UNCHANGED BucketVars
         \/ \E p \in Incs : (ReadClock(p) \/ Load(p) \/ LoadOrStore(p) \/ Add(p)) /\ UNCHANGED now
         \/ CleanVisit /\ UNCHANGED now
  BY DEF Next, Increment, Clean, Clock, ReadClock, Load, LoadOrStore, Add, CleanTick, CleanVisit,
         CleanEnd, Close, LoadBegin, LoadVisit, LoadEnd, Answered, vars, incVars, workerVars,
         loadVars, BucketVars

\* The functions of the state.
LEMMA Shapes ==
  ASSUME TypeOK
  PROVE  /\ minutes = [k \in Minutes |-> minutes[k]] /\ count = [b \in Buckets |-> count[b]]
         /\ pc = [p \in Incs |-> pc[p]] /\ key = [p \in Incs |-> key[p]]
         /\ md = [p \in Incs |-> md[p]] /\ calls = [p \in Incs |-> calls[p]]
         /\ counted = [k \in Minutes |-> counted[k]]
         /\ \A p \in Incs : calls[p] \in Nat /\ key[p] \in Minutes
         /\ \A p \in Incs : md[p] \in Buckets \cup {None}
         /\ \A b \in Buckets : count[b] \in Nat
         /\ \A k \in Minutes : counted[k] \in Nat /\ minutes[k] \in Buckets \cup {None}
  BY DEF TypeOK

\* The counters of the calls.
LEMMA NextCallsBounded == ASSUME TypeOK, CallsBounded, [Next]_vars PROVE CallsBounded'
  <1>1. ASSUME NEW p \in Incs, ReadClock(p) PROVE CallsBounded'
    <2>1. /\ calls[p] < MaxIncs /\ calls' = [calls EXCEPT ![p] = calls[p] + 1]
          /\ pc' = [pc EXCEPT ![p] = "load"]
      BY <1>1 DEF ReadClock
    <2> QED
      BY <2>1, Shapes, Bounds DEF CallsBounded
  <1>2. ASSUME NEW p \in Incs, Load(p) \/ LoadOrStore(p) \/ Add(p) PROVE CallsBounded'
    <2>1. pc[p] # "idle" /\ UNCHANGED calls /\ \A q \in Incs : q # p => pc'[q] = pc[q]
      BY <1>2, Shapes DEF Load, LoadOrStore, Add
    <2> QED
      BY <2>1 DEF CallsBounded
  <1> QED
    BY <1>1, <1>2, BucketSteps DEF CleanVisit, incVars, BucketVars, CallsBounded

\* A bucket that no call has allocated is nowhere.
LEMMA NextFreshUnused ==
  ASSUME TypeOK, CallsBounded, FreshUnused, InItsMinute, [Next]_vars PROVE FreshUnused'
  <1> SUFFICES ASSUME NEW p \in Incs, NEW n \in 1 .. MaxIncs, Fresh(p, n)'
               PROVE  /\ count'[<<p, n>>] = 0
                      /\ \A k \in Minutes : minutes'[k] # <<p, n>>
                      /\ \A q \in Incs : md'[q] # <<p, n>>
    BY DEF FreshUnused, Fresh
  <1>0. /\ <<p, n>> \in Buckets /\ <<p, n>> # None /\ n \in Int
    BY StatsAssumption DEF Buckets
  <1>1. Fresh(p, n)
    <2>1. CASE UNCHANGED <<calls, pc>>
      BY <2>1 DEF Fresh
    <2>2. ASSUME NEW q \in Incs, ReadClock(q) PROVE Fresh(p, n)
      <3>1. /\ calls' = [calls EXCEPT ![q] = calls[q] + 1] /\ pc' = [pc EXCEPT ![q] = "load"]
        BY <2>2 DEF ReadClock
      <3>2. CASE q = p
        <4>1. calls'[p] = calls[p] + 1 /\ calls[p] \in Nat
          BY <3>1, <3>2, Shapes
        <4> QED
          BY <1>0, <4>1 DEF Fresh
      <3>3. CASE q # p
        <4>1. calls'[p] = calls[p] /\ pc'[p] = pc[p]
          BY <3>1, <3>3, Shapes
        <4> QED
          BY <4>1 DEF Fresh
      <3> QED
        BY <3>2, <3>3
    <2>3. ASSUME NEW q \in Incs, Load(q) \/ LoadOrStore(q) \/ Add(q) PROVE Fresh(p, n)
      <3>1. /\ UNCHANGED calls /\ (pc'[p] \in {"load", "store"} => pc[p] \in {"load", "store"})
        BY <2>3, Shapes DEF Load, LoadOrStore, Add
      <3> QED
        BY <3>1 DEF Fresh
    <2> QED
      BY <2>1, <2>2, <2>3, BucketSteps DEF CleanVisit, incVars, BucketVars
  <1>2. /\ count[<<p, n>>] = 0 /\ \A k \in Minutes : minutes[k] # <<p, n>>
        /\ \A q \in Incs : md[q] # <<p, n>>
    BY <1>1 DEF FreshUnused
  <1>3. ASSUME NEW q \in Incs, Load(q)
        PROVE  UNCHANGED <<count, minutes>> /\ \A o \in Incs : md'[o] # <<p, n>>
    BY <1>2, <1>3, Shapes DEF Load
  <1>4. ASSUME NEW q \in Incs, LoadOrStore(q)
        PROVE  /\ UNCHANGED count /\ \A k \in Minutes : minutes'[k] # <<p, n>>
               /\ \A o \in Incs : md'[o] # <<p, n>>
    <2>1. <<q, calls[q]>> # <<p, n>>
      <3> SUFFICES ASSUME q = p, n = calls[p] PROVE FALSE
        OBVIOUS
      <3>1. pc'[p] = "add" /\ calls'[p] = calls[p] /\ calls[p] \in Nat
        BY <1>4, Shapes DEF LoadOrStore
      <3> QED
        BY <3>1 DEF Fresh
    <2>2. \A k \in Minutes : minutes'[k] # <<p, n>>
      BY <1>2, <1>4, <2>1, Shapes DEF LoadOrStore
    <2>3. md'= [md EXCEPT ![q] = minutes'[key[q]]] /\ key[q] \in Minutes /\ UNCHANGED count
      BY <1>4, Shapes DEF LoadOrStore
    <2> QED
      BY <1>2, <2>2, <2>3, Shapes
  <1>5. ASSUME NEW q \in Incs, Add(q)
        PROVE  /\ UNCHANGED minutes /\ count'[<<p, n>>] = 0 /\ \A o \in Incs : md'[o] # <<p, n>>
    <2>1. /\ md[q] # <<p, n>> /\ count' = [count EXCEPT ![md[q]] = count[md[q]] + 1]
          /\ md' = [md EXCEPT ![q] = None] /\ UNCHANGED minutes
      BY <1>2, <1>5 DEF Add
    <2> QED
      BY <1>0, <1>2, <2>1, Shapes
  <1>6. ASSUME CleanVisit
        PROVE  UNCHANGED <<count, md>> /\ \A k \in Minutes : minutes'[k] # <<p, n>>
    <2>1. PICK k \in toClean : minutes' = [minutes EXCEPT ![k] = IF TooOld(k) THEN None ELSE @]
      BY <1>6 DEF CleanVisit
    <2> QED
      BY <1>0, <1>2, <1>6, <2>1, Shapes DEF CleanVisit, incVars
  <1> QED
    BY <1>2, <1>3, <1>4, <1>5, <1>6, BucketSteps DEF ReadClock, BucketVars

\* No two minutes share a bucket.
LEMMA NextOneMinute ==
  ASSUME TypeOK, CallsBounded, FreshUnused, OneMinute, [Next]_vars PROVE OneMinute'
  <1>1. ASSUME NEW p \in Incs, LoadOrStore(p) PROVE OneMinute'
    <2>1. \A k \in Minutes : minutes[k] # <<p, calls[p]>>
      BY <1>1, CallBucket DEF LoadOrStore, FreshUnused, Fresh
    <2> QED
      BY <1>1, <2>1, Shapes DEF LoadOrStore, OneMinute
  <1>2. CASE CleanVisit
    <2>1. PICK k \in toClean : minutes' = [minutes EXCEPT ![k] = IF TooOld(k) THEN None ELSE @]
      BY <1>2 DEF CleanVisit
    <2> QED
      BY <2>1, Shapes DEF OneMinute
  <1>3. CASE UNCHANGED minutes
    BY <1>3 DEF OneMinute
  <1> QED
    BY <1>1, <1>2, <1>3, BucketSteps DEF ReadClock, Load, Add, BucketVars

\* What is kept was kept before, and the cleanup worker leaves it.
LEMMA KeptMinutes ==
  ASSUME TypeOK, CutoffOld, [Next]_vars
  PROVE  /\ Retained' \subseteq Retained
         /\ CleanVisit =>
               /\ \A k \in Minutes : minutes'[k] \in {minutes[k], None}
               /\ \A k \in Retained : minutes'[k] = minutes[k]
         /\ CutoffOld'
  <1>0. now \in Int /\ cutoff \in Int /\ toClean \subseteq Minutes
    BY Bounds DEF TypeOK
  <1>1. now' \in Int /\ now <= now'
    <2>1. now' = now \/ now' = now + 1
      BY BucketSteps DEF Clock, BucketVars
    <2> QED
      BY <1>0, <2>1
  <1>2. Retained' \subseteq Retained
    BY <1>0, <1>1, Bounds DEF Retained
  <1>3. CutoffOld'
    <2>1. CASE CleanTick
      BY <1>0, <2>1, Bounds DEF CleanTick, Cutoff, CutoffOld
    <2>2. CASE worker' # "range" \/ UNCHANGED <<worker, cutoff>>
      <3> SUFFICES ASSUME worker' = "range" PROVE cutoff' <= now' - Retention
        BY DEF CutoffOld
      <3>1. cutoff' = cutoff /\ cutoff <= now - Retention
        BY <2>2 DEF CutoffOld
      <3>2. Retention \in Int
        BY Bounds
      <3>3. ASSUME NEW c \in Int, NEW n \in Int, NEW m \in Int, NEW r \in Int, n <= m, c <= n - r
            PROVE  c <= m - r
        BY <3>3
      <3>4. cutoff <= now' - Retention
        BY <1>0, <1>1, <3>1, <3>2, <3>3
      <3> QED
        BY <3>1, <3>4
    <2> QED
      BY <2>1, <2>2 DEF Next, Increment, Clean, Clock, ReadClock, Load, LoadOrStore, Add,
           CleanVisit, CleanEnd, Close, LoadBegin, LoadVisit, LoadEnd, Answered, vars, workerVars
  <1>4. ASSUME CleanVisit
        PROVE  /\ \A k \in Minutes : minutes'[k] \in {minutes[k], None}
               /\ \A k \in Retained : minutes'[k] = minutes[k]
    <2>1. PICK k \in toClean : minutes' = [minutes EXCEPT ![k] = IF TooOld(k) THEN None ELSE @]
      BY <1>4 DEF CleanVisit
    <2>2. cutoff <= now - Retention
      BY <1>4 DEF CleanVisit, CutoffOld
    <2>3. k \in Retained => ~TooOld(k)
      BY <1>0, <2>2, Bounds DEF Retained, TooOld
    <2>4. \A j \in Minutes : minutes'[j] = IF j = k /\ TooOld(k) THEN None ELSE minutes[j]
      BY <2>1, Shapes
    <2>5. Retained \subseteq Minutes
      BY DEF Retained
    <2> QED
      BY <2>3, <2>4, <2>5
  <1> QED
    BY <1>2, <1>3, <1>4

\* A bucket about to be incremented stays where it is.
LEMMA NextInItsMinute ==
  ASSUME TypeOK, CallsBounded, FreshUnused, OneMinute, InItsMinute, CutoffOld, [Next]_vars
  PROVE  InItsMinute'
  <1> SUFFICES ASSUME NEW p \in Incs, pc'[p] = "add" PROVE Located(p)'
    BY DEF InItsMinute
  <1>1. Retained' \subseteq Retained
    BY KeptMinutes
  <1>2. ASSUME pc[p] = "add", md'[p] = md[p], key'[p] = key[p],
               \A k \in Minutes : minutes'[k] = minutes[k] \/ minutes'[k] # md[p],
               \A k \in Retained : minutes'[k] = minutes[k] \/ minutes[k] = None
        PROVE  Located(p)'
    <2>1. Located(p)
      BY <1>2 DEF InItsMinute
    <2> QED
      BY <1>1, <1>2, <2>1 DEF Located
  <1>3. ASSUME NEW q \in Incs, ReadClock(q) \/ Add(q) PROVE Located(p)'
    <2>1. q # p /\ pc[p] = "add" /\ md'[p] = md[p] /\ key'[p] = key[p] /\ UNCHANGED minutes
      BY <1>3, Shapes DEF ReadClock, Add
    <2> QED
      BY <1>2, <2>1
  <1>4. ASSUME NEW q \in Incs, Load(q) PROVE Located(p)'
    <2>1. CASE q # p
      <3>1. pc[p] = "add" /\ md'[p] = md[p] /\ key'[p] = key[p] /\ UNCHANGED minutes
        BY <1>4, <2>1, Shapes DEF Load
      <3> QED
        BY <1>2, <3>1
    <2>2. CASE q = p
      <3>1. /\ md'[p] = minutes[key[p]] /\ md'[p] # None /\ key[p] \in Minutes
            /\ UNCHANGED <<key, minutes>>
        BY <1>4, <2>2, Shapes DEF Load
      <3> QED
        BY <3>1 DEF OneMinute, Located
    <2> QED
      BY <2>1, <2>2
  <1>5. ASSUME NEW q \in Incs, LoadOrStore(q) PROVE Located(p)'
    <2>1. /\ minutes' = [minutes EXCEPT ![key[q]] = IF @ = None THEN <<q, calls[q]>> ELSE @]
          /\ md' = [md EXCEPT ![q] = minutes'[key[q]]] /\ pc[q] = "store"
          /\ pc' = [pc EXCEPT ![q] = "add"] /\ UNCHANGED key
      BY <1>5 DEF LoadOrStore
    <2>2. /\ \A o \in Incs : md[o] # <<q, calls[q]>>
          /\ \A k \in Minutes : minutes[k] # <<q, calls[q]>>
          /\ <<q, calls[q]>> # None
      BY <2>1, CallBucket DEF FreshUnused, Fresh
    <2>3. CASE q # p
      <3>1. pc[p] = "add" /\ md'[p] = md[p] /\ key'[p] = key[p]
        BY <2>1, <2>3, Shapes
      <3>2. \A k \in Minutes : minutes'[k] = minutes[k] \/ minutes'[k] # md[p]
        BY <2>1, <2>2, Shapes
      <3>3. \A k \in Retained : minutes'[k] = minutes[k] \/ minutes[k] = None
        BY <2>1, Shapes DEF Retained
      <3> QED
        BY <1>2, <3>1, <3>2, <3>3
    <2>4. CASE q = p
      <3>1. /\ md'[p] = minutes'[key[p]] /\ md'[p] # None /\ key[p] \in Minutes
            /\ UNCHANGED key
        BY <2>1, <2>2, <2>4, Shapes
      <3>2. OneMinute'
        BY NextOneMinute
      <3> QED
        BY <3>1, <3>2 DEF OneMinute, Located
    <2> QED
      BY <2>3, <2>4
  <1>6. CASE CleanVisit
    <2>1. pc[p] = "add" /\ md'[p] = md[p] /\ key'[p] = key[p]
      BY <1>6 DEF CleanVisit, incVars
    <2>2. md[p] # None
      BY <2>1 DEF InItsMinute, Located
    <2> QED
      BY <1>2, <1>6, <2>1, <2>2, KeptMinutes
  <1>7. CASE UNCHANGED BucketVars
    BY <1>2, <1>7 DEF BucketVars
  <1> QED
    BY <1>3, <1>4, <1>5, <1>6, <1>7, BucketSteps DEF BucketVars

\* The buckets of the minutes that are kept hold what was counted.
LEMMA NextNothingLost ==
  ASSUME TypeOK, StatsInv, [Next]_vars PROVE NothingLost'
  <1> USE DEF StatsInv
  <1> SUFFICES ASSUME NEW k \in Retained'
               PROVE  counted'[k] = IF minutes'[k] = None THEN 0 ELSE count'[minutes'[k]]
    BY DEF NothingLost, Counter
  <1>0. k \in Retained /\ k \in Minutes
    BY KeptMinutes DEF Retained
  <1>1. counted[k] = IF minutes[k] = None THEN 0 ELSE count[minutes[k]]
    BY <1>0 DEF NothingLost, Counter
  <1>2. CASE UNCHANGED <<count, counted>> /\ minutes'[k] = minutes[k]
    BY <1>1, <1>2
  <1>3. ASSUME NEW p \in Incs, LoadOrStore(p)
        PROVE  counted'[k] = IF minutes'[k] = None THEN 0 ELSE count'[minutes'[k]]
    <2>1. /\ minutes' = [minutes EXCEPT ![key[p]] = IF @ = None THEN <<p, calls[p]>> ELSE @]
          /\ pc[p] = "store" /\ UNCHANGED <<count, counted>>
      BY <1>3 DEF LoadOrStore
    <2>2. count[<<p, calls[p]>>] = 0 /\ <<p, calls[p]>> # None
      BY <2>1, CallBucket DEF FreshUnused, Fresh
    <2>3. minutes'[k] = minutes[k] \/ (minutes[k] = None /\ minutes'[k] = <<p, calls[p]>>)
      BY <1>0, <2>1, Shapes
    <2> QED
      BY <1>1, <1>2, <2>1, <2>2, <2>3
  <1>4. ASSUME NEW p \in Incs, Add(p)
        PROVE  counted'[k] = IF minutes'[k] = None THEN 0 ELSE count'[minutes'[k]]
    <2>1. /\ count' = [count EXCEPT ![md[p]] = count[md[p]] + 1]
          /\ counted' = [counted EXCEPT ![key[p]] = counted[key[p]] + 1]
          /\ UNCHANGED minutes /\ Located(p)
      BY <1>4 DEF Add, InItsMinute
    <2>2. CASE k = key[p]
      <3>1. minutes[k] = md[p] /\ md[p] # None /\ md[p] \in Buckets
        BY <1>0, <2>1, <2>2, Shapes DEF Located
      <3> QED
        BY <1>0, <1>1, <2>1, <2>2, <3>1, Shapes
    <2>3. CASE k # key[p]
      <3>1. minutes[k] # md[p] /\ counted'[k] = counted[k]
        BY <1>0, <2>1, <2>3, Shapes DEF Located
      <3>2. minutes[k] # None => count'[minutes[k]] = count[minutes[k]]
        BY <1>0, <2>1, <3>1, Shapes
      <3> QED
        BY <1>1, <2>1, <3>1, <3>2
    <2> QED
      BY <2>2, <2>3
  <1>5. CASE CleanVisit
    <2>1. minutes'[k] = minutes[k] /\ UNCHANGED <<count, counted>>
      BY <1>0, <1>5, KeptMinutes DEF CleanVisit
    <2> QED
      BY <1>2, <2>1
  <1> QED
    BY <1>2, <1>3, <1>4, <1>5, BucketSteps DEF ReadClock, Load, BucketVars

\* The types of Stats and StatsInv hold in every reachable state.
THEOREM BucketDiscipline == Spec => [](TypeOK /\ StatsInv)
  <1>1. Init => TypeOK
    BY Bounds DEF Init, TypeOK
  <1>2. Init => StatsInv
    <2> SUFFICES ASSUME Init PROVE StatsInv
      OBVIOUS
    <2>1. \A p \in Incs, n \in 1 .. MaxIncs : <<p, n>> \in Buckets /\ <<p, n>> # None
      BY StatsAssumption DEF Buckets
    <2>2. FreshUnused
      BY <2>1 DEF Init, FreshUnused
    <2>3. CallsBounded /\ OneMinute /\ InItsMinute /\ CutoffOld /\ NothingLost
      BY Bounds DEF Init, CallsBounded, OneMinute, InItsMinute, CutoffOld, NothingLost,
                    Retained, Counter
    <2> QED
      BY <2>2, <2>3 DEF StatsInv
  <1>3. TypeOK /\ StatsInv /\ [Next]_vars => TypeOK'
    BY NextTypeOK DEF StatsInv
  <1>4. TypeOK /\ StatsInv /\ [Next]_vars => StatsInv'
    BY NextFreshUnused, NextCallsBounded, NextOneMinute, NextInItsMinute, KeptMinutes,
       NextNothingLost DEF StatsInv
  <1> QED
    BY <1>1, <1>2, <1>3, <1>4, PTL DEF Spec

\* No increment is lost or counted twice while its minute is kept, however many
\* goroutines race getOrCreateMinuteData for the same minute and whenever the
\* cleanup worker runs.
THEOREM IncrementsAreKept == Spec => []NothingLost
  <1>1. TypeOK /\ StatsInv => NothingLost
    BY DEF StatsInv
  <1> QED
    BY <1>1, BucketDiscipline, PTL
-----------------------------------------------------------------------------
\* The count of increments is a sum.

\* There are finitely many increments, and none if nothing was counted.
LEMMA FiniteIncrements ==
  ASSUME NEW f \in [Minutes -> Nat]
  PROVE  IsFiniteSet(Increments(f)) /\ SumOf(f) \in Nat
  <1> DEFINE g == [k \in Minutes |-> {k} \X (1 .. f[k])]
             S == {g[k] : k \in Minutes}
  <1>1. IsFiniteSet(Minutes)
    BY FS_Interval, Bounds DEF Minutes
  <1>2. IsFiniteSet(S)
    <2>1. g \in Surjection(Minutes, S)
      BY DEF Surjection
    <2> QED
      BY <1>1, <2>1, FS_Surjection
  <1>3. \A T \in S : IsFiniteSet(T)
    <2> SUFFICES ASSUME NEW k \in Minutes PROVE IsFiniteSet({k} \X (1 .. f[k]))
      OBVIOUS
    <2>1. IsFiniteSet({k})
      BY FS_Singleton
    <2>2. 1 \in Int /\ f[k] \in Int
      OBVIOUS
    <2>3. IsFiniteSet(1 .. f[k])
      BY <2>2, FS_Interval
    <2> QED
      BY <2>1, <2>3, FS_Product
  <1>4. Increments(f) = UNION S
    BY DEF Increments
  <1>5. IsFiniteSet(Increments(f))
    BY <1>2, <1>3, <1>4, FS_UNION
  <1> QED
    BY <1>5, FS_CardinalityType DEF SumOf

\* It grows with each of its terms.
LEMMA SumGrows ==
  ASSUME NEW f \in [Minutes -> Nat], NEW g \in [Minutes -> Nat], \A k \in Minutes : f[k] <= g[k]
  PROVE  SumOf(f) <= SumOf(g)
  <1>1. Increments(f) \subseteq Increments(g)
    <2> SUFFICES ASSUME NEW k \in Minutes PROVE {k} \X (1 .. f[k]) \subseteq {k} \X (1 .. g[k])
      BY DEF Increments
    <2>1. f[k] \in Nat /\ g[k] \in Nat /\ f[k] <= g[k]
      OBVIOUS
    <2>2. 1 .. f[k] \subseteq 1 .. g[k]
      BY <2>1
    <2> QED
      BY <2>2
  <1> QED
    BY <1>1, FiniteIncrements, FS_Subset DEF SumOf

\* A term that was zero adds itself.
LEMMA SumOfOneMore ==
  ASSUME NEW f \in [Minutes -> Nat], NEW k \in Minutes, NEW n \in Nat, f[k] = 0
  PROVE  SumOf([f EXCEPT ![k] = n]) = SumOf(f) + n
  <1> DEFINE g == [f EXCEPT ![k] = n]
             T == {k} \X (1 .. n)
  <1>1. Increments(g) = Increments(f) \cup T
    <2>1. \A l \in Minutes : g[l] = IF l = k THEN n ELSE f[l]
      OBVIOUS
    <2>2. 1 .. f[k] = {}
      OBVIOUS
    <2> HIDE DEF g
    <2>3. \A l \in Minutes : l # k => {l} \X (1 .. g[l]) = {l} \X (1 .. f[l])
      BY <2>1
    <2>4. {k} \X (1 .. g[k]) = T
      BY <2>1
    <2>5. {k} \X (1 .. f[k]) = {}
      BY <2>2
    <2>6. \A x : x \in Increments(g) <=> \E l \in Minutes : x \in {l} \X (1 .. g[l])
      BY DEF Increments
    <2>7. \A x : x \in Increments(f) <=> \E l \in Minutes : x \in {l} \X (1 .. f[l])
      BY DEF Increments
    <2>8. ASSUME NEW x PROVE x \in Increments(g) <=> x \in Increments(f) \/ x \in T
      <3> HIDE DEF T
      <3> QED
        BY <2>3, <2>4, <2>5, <2>6, <2>7
    <2> HIDE DEF T
    <2> QED
      BY <2>8
  <1>2. Increments(f) \cap T = {}
    <2> SUFFICES ASSUME NEW l \in Minutes, NEW x \in {l} \X (1 .. f[l]), x \in T PROVE FALSE
      BY DEF Increments
    <2>1. x[1] = l /\ x[1] = k /\ x[2] \in 1 .. f[l]
      OBVIOUS
    <2> QED
      BY <2>1
  <1>3. IsFiniteSet(T) /\ Cardinality(T) = n
    <2>1. IsFiniteSet({k}) /\ Cardinality({k}) = 1
      BY FS_Singleton
    <2>2. IsFiniteSet(1 .. n) /\ Cardinality(1 .. n) = n
      <3>1. 1 \in Int /\ n \in Int
        OBVIOUS
      <3>2. IsFiniteSet(1 .. n) /\ Cardinality(1 .. n) = IF 1 > n THEN 0 ELSE n - 1 + 1
        BY <3>1, FS_Interval
      <3> QED
        BY <3>2
    <2>3. IsFiniteSet(T) /\ Cardinality(T) = Cardinality({k}) * Cardinality(1 .. n)
      BY <2>1, <2>2, FS_Product
    <2> QED
      BY <2>1, <2>2, <2>3
  <1>4. Cardinality(Increments(g)) = Cardinality(Increments(f)) + n - Cardinality({})
    <2> HIDE DEF g, T
    <2>1. IsFiniteSet(Increments(f))
      BY FiniteIncrements
    <2>2. Cardinality(Increments(f) \cup T) =
            Cardinality(Increments(f)) + Cardinality(T) - Cardinality(Increments(f) \cap T)
      BY <1>3, <2>1, FS_Union
    <2> QED
      BY <1>1, <1>2, <1>3, <2>2
  <1>5. SumOf(f) \in Nat /\ Cardinality({}) = 0
    BY FiniteIncrements, FS_EmptySet
  <1> QED
    BY <1>4, <1>5 DEF SumOf

\* Nothing counted is a sum of zero.
LEMMA SumOfNothing == SumOf([k \in Minutes |-> 0]) = 0
  <1>1. Increments([k \in Minutes |-> 0]) = {}
    BY DEF Increments
  <1> QED
    BY <1>1, FS_EmptySet DEF SumOf
-----------------------------------------------------------------------------
\* LoadStats.

\* What is counted only grows, and a bucket never gets ahead of it.
LEMMA NextCountersCounted ==
  ASSUME TypeOK, StatsInv, CountersCounted, [Next]_vars
  PROVE  CountersCounted' /\ \A k \in Minutes : counted[k] <= counted'[k]
  <1> USE DEF StatsInv
  <1> SUFFICES ASSUME NEW k \in Minutes PROVE Counter(k)' <= counted'[k] /\ counted[k] <= counted'[k]
    BY DEF CountersCounted
  <1>0. counted[k] \in Nat /\ Counter(k) \in Nat /\ Counter(k) <= counted[k]
    BY Shapes DEF CountersCounted, Counter
  <1>1. CASE UNCHANGED <<count, counted>> /\ minutes'[k] \in {minutes[k], None}
    BY <1>0, <1>1 DEF Counter
  <1>2. ASSUME NEW p \in Incs, LoadOrStore(p)
        PROVE  Counter(k)' <= counted'[k] /\ counted[k] <= counted'[k]
    <2>1. /\ minutes' = [minutes EXCEPT ![key[p]] = IF @ = None THEN <<p, calls[p]>> ELSE @]
          /\ pc[p] = "store" /\ UNCHANGED <<count, counted>>
      BY <1>2 DEF LoadOrStore
    <2>2. count[<<p, calls[p]>>] = 0
      BY <2>1, CallBucket DEF FreshUnused, Fresh
    <2>3. minutes'[k] = minutes[k] \/ minutes'[k] = <<p, calls[p]>>
      BY <2>1, Shapes
    <2> QED
      BY <1>0, <2>1, <2>2, <2>3 DEF Counter
  <1>3. ASSUME NEW p \in Incs, Add(p)
        PROVE  Counter(k)' <= counted'[k] /\ counted[k] <= counted'[k]
    <2>1. /\ count' = [count EXCEPT ![md[p]] = count[md[p]] + 1]
          /\ counted' = [counted EXCEPT ![key[p]] = counted[key[p]] + 1]
          /\ UNCHANGED minutes /\ Located(p)
      BY <1>3 DEF Add, InItsMinute
    <2>2. CASE minutes[k] = md[p]
      <3>1. k = key[p] /\ md[p] # None /\ md[p] \in Buckets
        BY <2>1, <2>2, Shapes DEF Located
      <3>2. counted'[k] = counted[k] + 1 /\ count'[md[p]] = count[md[p]] + 1
        BY <2>1, <3>1, Shapes
      <3> QED
        BY <1>0, <2>1, <2>2, <3>1, <3>2 DEF Counter
    <2>3. CASE minutes[k] # md[p]
      <3>1. minutes[k] # None => count'[minutes[k]] = count[minutes[k]]
        BY <2>1, <2>3, Shapes
      <3>2. counted'[k] = counted[k] \/ counted'[k] = counted[k] + 1
        BY <2>1, Shapes
      <3> QED
        BY <1>0, <2>1, <3>1, <3>2 DEF Counter
    <2> QED
      BY <2>2, <2>3
  <1>4. CASE CleanVisit
    BY <1>1, <1>4, KeptMinutes DEF CleanVisit
  <1> QED
    BY <1>1, <1>2, <1>3, <1>4, BucketSteps DEF ReadClock, Load, BucketVars

\* A visit loads at most what is counted and, of a minute that is kept, all of it.
LEMMA NextLoading ==
  ASSUME TypeOK, TypeOK', StatsInv, CountersCounted, Loading, [Next]_vars PROVE Loading'
  <1>1. /\ \A k \in Minutes : counted[k] <= counted'[k]
        /\ \A k \in Minutes : counted[k] \in Nat /\ counted'[k] \in Nat /\ before[k] \in Nat
        /\ \A k \in Minutes : loaded[k] \in Nat /\ Counter(k) \in Nat /\ Counter(k) <= counted[k]
        /\ Retained' \subseteq Retained /\ Retained \subseteq Minutes
    BY NextCountersCounted, KeptMinutes, Shapes DEF TypeOK, StatsInv, Retained, CountersCounted, Counter
  <1>2. CASE UNCHANGED loadVars
    BY <1>1, <1>2 DEF loadVars, Loading
  <1>3. CASE LoadBegin \/ LoadEnd \/ Answered
    BY <1>1, <1>3 DEF LoadBegin, LoadEnd, Answered, Loading
  <1>4. CASE LoadVisit
    <2>1. PICK k \in toLoad :
            /\ toLoad' = toLoad \ {k} /\ loaded' = [loaded EXCEPT ![k] = Counter(k)]
      BY <1>4 DEF LoadVisit
    <2>2. k \in Minutes /\ UNCHANGED <<loader, before, counted, now>> /\ loader = "range"
      BY <1>4 DEF LoadVisit, TypeOK
    <2>3. \A l \in Minutes : loaded'[l] = IF l = k THEN Counter(k) ELSE loaded[l]
      BY <2>1, <2>2 DEF TypeOK
    <2>4. k \in Retained => Counter(k) = counted[k]
      BY DEF StatsInv, NothingLost
    <2>5. Retained' = Retained /\ toLoad \subseteq Minutes
      BY <2>2 DEF Retained, TypeOK
    <2>6. \A l \in Retained \ toLoad' : before[l] <= loaded'[l]
      BY <1>1, <2>1, <2>2, <2>3, <2>4 DEF Loading
    <2> QED
      BY <1>1, <2>1, <2>2, <2>3, <2>5, <2>6 DEF Loading
  <1> QED
    BY <1>2, <1>3, <1>4
    DEF Next, Increment, Clean, Clock, ReadClock, Load, LoadOrStore, Add, CleanTick, CleanVisit,
        CleanEnd, Close, vars

\* The running total.
LEMMA NextTotalled == ASSUME TypeOK, Loading, Totalled, [Next]_vars PROVE Totalled'
  <1>1. CASE UNCHANGED <<loaded, total>>
    BY <1>1 DEF Totalled, SumOf, Increments
  <1>2. CASE total' = 0 /\ loaded' = [k \in Minutes |-> 0]
    <2>1. SumOf(loaded') = 0
      BY <1>2, SumOfNothing
    <2> QED
      BY <1>2, <2>1 DEF Totalled, SumOf, Increments
  <1>3. CASE LoadVisit
    <2>1. PICK k \in toLoad :
            /\ loaded' = [loaded EXCEPT ![k] = Counter(k)] /\ total' = total + Counter(k)
      BY <1>3 DEF LoadVisit
    <2>2. k \in Minutes /\ loaded[k] = 0 /\ Counter(k) \in Nat /\ loaded \in [Minutes -> Nat]
      BY DEF TypeOK, Loading, Counter
    <2>3. SumOf(loaded') = SumOf(loaded) + Counter(k)
      BY <2>1, <2>2, SumOfOneMore
    <2> QED
      BY <2>1, <2>3 DEF Totalled, SumOf, Increments
  <1> QED
    BY <1>1, <1>2, <1>3
    DEF Next, Increment, Clean, Clock, ReadClock, Load, LoadOrStore, Add, CleanTick, CleanVisit,
        CleanEnd, Close, LoadBegin, LoadEnd, Answered, vars, loadVars

\* LoadInv holds in every reachable state.
THEOREM LoadDiscipline == Spec => []LoadInv
  <1>1. Init => LoadInv
    <2> SUFFICES ASSUME Init PROVE LoadInv
      OBVIOUS
    <2>1. CountersCounted /\ Loading
      BY DEF Init, CountersCounted, Counter, Loading
    <2>2. Totalled
      BY SumOfNothing DEF Init, Totalled
    <2> QED
      BY <2>1, <2>2 DEF LoadInv
  <1>2. TypeOK /\ StatsInv /\ TypeOK' /\ LoadInv /\ [Next]_vars => LoadInv'
    BY NextCountersCounted, NextLoading, NextTotalled DEF LoadInv
  <1> QED
    BY <1>1, <1>2, BucketDiscipline, PTL DEF Spec

\* What LoadStats reports, of each minute and altogether, lies between what had
\* been counted when it was called and what has been counted when it returns,
\* whatever is incremented, created and deleted while it ranges over the map.
THEOREM LoadsAreBounded == Spec => []LoadedInBounds
  <1>1. TypeOK /\ LoadInv => LoadedInBounds
    <2> SUFFICES ASSUME TypeOK, LoadInv, loader = "done" PROVE LoadedInBounds
      BY DEF LoadedInBounds
    <2>1. /\ \A k \in Retained : before[k] <= loaded[k]
          /\ \A k \in Minutes : loaded[k] <= counted[k]
      BY DEF LoadInv, Loading
    <2>2. total = SumOf(loaded)
      BY DEF LoadInv, Totalled
    <2>3. SumOf(loaded) <= SumOf(counted)
      BY <2>1, SumGrows DEF TypeOK
    <2> QED
      BY <2>1, <2>2, <2>3 DEF LoadedInBounds
  <1> QED
    BY <1>1, BucketDiscipline, LoadDiscipline, PTL
=============================================================================
