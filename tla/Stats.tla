------------------------------- MODULE Stats --------------------------------
(***************************************************************************)
(* The statistics of NSQLite (internal/stats): one bucket of counters per  *)
(* minute in a sync.Map, incremented by request goroutines, deleted by a   *)
(* cleanup worker once they are too old, and read by LoadStats, all        *)
(* without a lock.                                                         *)
(*                                                                         *)
(* The seven counters of a bucket are treated alike: one stands for all.   *)
(* A bucket is named after the goroutine and the call that allocated it.   *)
(***************************************************************************)
EXTENDS Integers, FiniteSets

CONSTANTS
    Incs,        \* goroutines that increment a counter
    Retention,   \* minutes that buckets are kept (24 hours)
    MaxMinute,   \* bound: the last minute of a behaviour
    MaxIncs,     \* bound: increments of a goroutine
    None         \* no bucket

Minutes == 0 .. MaxMinute
Buckets == Incs \X (1 .. MaxIncs)

ASSUME StatsAssumption ==
    /\ Retention \in Nat \ {0} /\ MaxMinute \in Nat /\ MaxIncs \in Nat
    /\ None \notin Buckets

VARIABLES
    now,       \* time.Now(), in minutes
    minutes,   \* [Minutes -> Buckets or None], the sync.Map
    count,     \* [Buckets -> Nat], the atomic counter of each bucket
    pc,        \* [Incs -> {"idle", "load", "store", "add"}]
    key,       \* [Incs -> Minutes], minuteKey
    md,        \* [Incs -> Buckets or None], what getOrCreateMinuteData returned
    calls,     \* [Incs -> Nat]
    worker,    \* runCleanupWorker: "wait", "range" or "stopped"
    cutoff,    \* minutes up to this one are too old
    toClean,   \* keys that its Range has still to visit
    loader,    \* LoadStats: "idle", "range" or "done"
    toLoad,    \* keys that its Range has still to visit
    loaded,    \* [Minutes -> Nat], what it has read of each minute (allStats)
    total,     \* the sum so far
    \* history, read by no action
    counted,   \* [Minutes -> Nat], increments that have returned
    before     \* counted, when LoadStats was called

incVars == <<pc, key, md, calls>>
workerVars == <<worker, cutoff, toClean>>
loadVars == <<loader, toLoad, loaded, total, before>>
vars == <<now, minutes, count, incVars, workerVars, loadVars, counted>>
-----------------------------------------------------------------------------
Init ==
    /\ now = 0
    /\ minutes = [k \in Minutes |-> None]
    /\ count = [b \in Buckets |-> 0]
    /\ pc = [p \in Incs |-> "idle"] /\ key = [p \in Incs |-> 0]
    /\ md = [p \in Incs |-> None] /\ calls = [p \in Incs |-> 0]
    /\ worker = "wait" /\ cutoff = 0 /\ toClean = {}
    /\ loader = "idle" /\ toLoad = {} /\ total = 0 /\ loaded = [k \in Minutes |-> 0]
    /\ counted = [k \in Minutes |-> 0] /\ before = [k \in Minutes |-> 0]

Clock ==
    /\ now < MaxMinute /\ now' = now + 1
    /\ UNCHANGED <<minutes, count, incVars, workerVars, loadVars, counted>>
-----------------------------------------------------------------------------
ReadClock(p) ==
    /\ pc[p] = "idle" /\ calls[p] < MaxIncs
    /\ calls' = [calls EXCEPT ![p] = @ + 1]
    /\ key' = [key EXCEPT ![p] = now]
    /\ pc' = [pc EXCEPT ![p] = "load"]
    /\ UNCHANGED <<now, minutes, count, md, workerVars, loadVars, counted>>

\* ... the bucket is looked up ...
Load(p) ==
    /\ pc[p] = "load"
    /\ md' = [md EXCEPT ![p] = minutes[key[p]]]
    /\ pc' = [pc EXCEPT ![p] = IF minutes[key[p]] = None THEN "store" ELSE "add"]
    /\ UNCHANGED <<now, minutes, count, key, calls, workerVars, loadVars, counted>>

\* Mutant: Store instead of LoadOrStore.
StoreAlways(p) ==
    /\ pc[p] = "store"
    /\ minutes' = [minutes EXCEPT ![key[p]] = <<p, calls[p]>>]
    /\ md' = [md EXCEPT ![p] = <<p, calls[p]>>]
    /\ pc' = [pc EXCEPT ![p] = "add"]
    /\ UNCHANGED <<now, count, key, calls, workerVars, loadVars, counted>>

\* ... LoadOrStore adds one, or finds the one that another goroutine added ...
LoadOrStore(p) ==
    /\ pc[p] = "store"
    /\ minutes' = [minutes EXCEPT ![key[p]] = IF @ = None THEN <<p, calls[p]>> ELSE @]
    /\ md' = [md EXCEPT ![p] = minutes'[key[p]]]
    /\ pc' = [pc EXCEPT ![p] = "add"]
    /\ UNCHANGED <<now, count, key, calls, workerVars, loadVars, counted>>

\* ... and its counter is incremented, whatever has become of it in the map.
Add(p) ==
    /\ pc[p] = "add"
    /\ count' = [count EXCEPT ![md[p]] = @ + 1]
    /\ counted' = [counted EXCEPT ![key[p]] = @ + 1]
    /\ pc' = [pc EXCEPT ![p] = "idle"]
    /\ key' = [key EXCEPT ![p] = 0] /\ md' = [md EXCEPT ![p] = None]
    /\ UNCHANGED <<now, minutes, calls, workerVars, loadVars>>
-----------------------------------------------------------------------------
\* runCleanupWorker.  sync.Map.Range visits every key that is there from the
\* beginning to the end once, and may or may not visit the others.

\* A minute is older than 24 hours, or exactly 24 hours old: then it goes
\* unless the worker runs in the very instant the minute begins.
Cutoff(late) == IF late THEN now - Retention ELSE now - Retention - 1

CleanTick ==
    /\ worker = "wait"
    /\ \E late \in BOOLEAN : cutoff' = Cutoff(late)
    /\ toClean' = Minutes
    /\ worker' = "range"
    /\ UNCHANGED <<now, minutes, count, incVars, loadVars, counted>>

\* Mutant: off by one.
TooOldByOneMore(k) == k < cutoff

\* t.Before(cutoff)
TooOld(k) == k <= cutoff

CleanVisit ==
    /\ worker = "range"
    /\ \E k \in toClean :
          /\ toClean' = toClean \ {k}
          /\ minutes' = [minutes EXCEPT ![k] = IF TooOld(k) THEN None ELSE @]
    /\ UNCHANGED <<now, count, incVars, worker, cutoff, loadVars, counted>>

CleanEnd ==
    /\ worker = "range" /\ toClean = {}
    /\ worker' = "wait" /\ cutoff' = 0
    /\ UNCHANGED <<now, minutes, count, incVars, toClean, loadVars, counted>>

\* Close
Close ==
    /\ worker = "wait" /\ worker' = "stopped"
    /\ UNCHANGED <<now, minutes, count, incVars, cutoff, toClean, loadVars, counted>>
-----------------------------------------------------------------------------
\* LoadStats.
LoadBegin ==
    /\ loader = "idle" /\ loader' = "range"
    /\ toLoad' = Minutes /\ total' = 0 /\ loaded' = [k \in Minutes |-> 0]
    /\ before' = counted
    /\ UNCHANGED <<now, minutes, count, incVars, workerVars, counted>>

\* The counter that Range finds under key k; nothing if the key is not there.
Counter(k) == IF minutes[k] = None THEN 0 ELSE count[minutes[k]]

\* Mutant: a key is visited again.
LoadVisitTwice ==
    /\ loader = "range"
    /\ \E k \in toLoad :
          /\ toLoad' = IF k = now THEN toLoad ELSE toLoad \ {k}
          /\ loaded' = [loaded EXCEPT ![k] = Counter(k)]
          /\ total' = total + Counter(k)
    /\ UNCHANGED <<now, minutes, count, incVars, workerVars, loader, before, counted>>

LoadVisit ==
    /\ loader = "range"
    /\ \E k \in toLoad :
          /\ toLoad' = toLoad \ {k}
          /\ loaded' = [loaded EXCEPT ![k] = Counter(k)]
          /\ total' = total + Counter(k)
    /\ UNCHANGED <<now, minutes, count, incVars, workerVars, loader, before, counted>>

LoadEnd ==
    /\ loader = "range" /\ toLoad = {}
    /\ loader' = "done"
    /\ UNCHANGED <<now, minutes, count, incVars, workerVars, toLoad, loaded, total, before, counted>>

\* The answer is sent.
Answered ==
    /\ loader = "done" /\ loader' = "idle" /\ total' = 0
    /\ before' = [k \in Minutes |-> 0] /\ loaded' = [k \in Minutes |-> 0]
    /\ UNCHANGED <<now, minutes, count, incVars, workerVars, toLoad, counted>>
-----------------------------------------------------------------------------
Increment(p) == ReadClock(p) \/ Load(p) \/ LoadOrStore(p) \/ Add(p)
Clean == CleanTick \/ CleanVisit \/ CleanEnd

Next ==
    \/ Clock
    \/ \E p \in Incs : Increment(p)
    \/ Clean \/ Close
    \/ LoadBegin \/ LoadVisit \/ LoadEnd \/ Answered

Spec == Init /\ [][Next]_vars

\* The ticker fires, Range ends; nobody need ever close the statistics.
FairSpec == Spec /\ WF_vars(CleanTick) /\ WF_vars(CleanVisit) /\ WF_vars(CleanEnd)
-----------------------------------------------------------------------------
\* The type of every variable.
TypeOK ==
    /\ now \in Minutes
    /\ minutes \in [Minutes -> Buckets \cup {None}]
    /\ count \in [Buckets -> Nat]
    /\ pc \in [Incs -> {"idle", "load", "store", "add"}]
    /\ key \in [Incs -> Minutes] /\ calls \in [Incs -> Nat]
    /\ md \in [Incs -> Buckets \cup {None}]
    /\ worker \in {"wait", "range", "stopped"} /\ cutoff \in Int
    /\ loader \in {"idle", "range", "done"} /\ total \in Nat
    /\ toClean \subseteq Minutes /\ toLoad \subseteq Minutes
    /\ loaded \in [Minutes -> Nat]
    /\ counted \in [Minutes -> Nat] /\ before \in [Minutes -> Nat]

Retained == {k \in Minutes : now - k < Retention}

\* No increment is lost while its minute is kept, and none counts twice: the
\* bucket of every retained minute holds the increments made in it.
NothingLost ==
    \A k \in Retained : counted[k] = Counter(k)

\* The sum of f, as the number of increments it stands for.
Increments(f) == UNION {{k} \X (1 .. f[k]) : k \in Minutes}
SumOf(f) == Cardinality(Increments(f))

\* LoadStats takes no snapshot, but what it reports of a minute lies between what
\* had been counted when it was called, if the minute is still kept, and what
\* has been counted when it returns, and its total is that of its minutes: so it
\* lies between what had been and what has been counted altogether.
LoadedInBounds ==
    loader = "done" =>
        /\ \A k \in Retained : before[k] <= loaded[k]
        /\ \A k \in Minutes : loaded[k] <= counted[k]
        /\ total = SumOf(loaded) /\ total <= SumOf(counted)

\* A minute that is too old disappears, also when a late increment brings it
\* back, as long as the worker runs.
OldMinutesGo ==
    \A k \in Minutes :
        now - k > Retention ~> minutes[k] = None \/ worker = "stopped"
-----------------------------------------------------------------------------
\* The inductive invariant behind NothingLost.

\* The bucket that the n-th call of p may allocate is not in use yet.
Fresh(p, n) == n > calls[p] \/ (n = calls[p] /\ pc[p] \in {"load", "store"})

FreshUnused ==
    \A p \in Incs, n \in 1 .. MaxIncs : Fresh(p, n) =>
        /\ count[<<p, n>>] = 0
        /\ \A k \in Minutes : minutes[k] # <<p, n>>
        /\ \A q \in Incs : md[q] # <<p, n>>

CallsBounded ==
    \A p \in Incs : calls[p] <= MaxIncs /\ (pc[p] # "idle" => 1 <= calls[p])

\* A bucket is that of one minute.
OneMinute ==
    \A k, l \in Minutes : minutes[k] # None /\ minutes[k] = minutes[l] => k = l

\* The bucket to be incremented is that of its minute, and of no other, and as
\* long as the minute is kept it is still in the map.
Located(p) ==
    /\ md[p] # None
    /\ \A k \in Minutes : minutes[k] = md[p] => k = key[p]
    /\ key[p] \in Retained => minutes[key[p]] = md[p]

InItsMinute == \A p \in Incs : pc[p] = "add" => Located(p)

\* The cleanup worker touches no minute that is kept.
CutoffOld == worker = "range" => cutoff <= now - Retention

StatsInv ==
    FreshUnused /\ CallsBounded /\ OneMinute /\ InItsMinute /\ CutoffOld /\ NothingLost
-----------------------------------------------------------------------------
\* The inductive invariant behind LoadedInBounds.

\* A bucket never holds more than was counted in its minute; it may hold less
\* when the minute was deleted and came back.
CountersCounted == \A k \in Minutes : Counter(k) <= counted[k]

\* What has been loaded of the minutes visited so far.
Loading ==
    /\ \A k \in Minutes : before[k] <= counted[k] /\ loaded[k] <= counted[k]
    /\ \A k \in toLoad : loaded[k] = 0
    /\ loader # "idle" => \A k \in Retained \ toLoad : before[k] <= loaded[k]
    /\ loader = "done" => toLoad = {}

\* The total is that of the minutes visited so far.
Totalled == total = SumOf(loaded)

LoadInv == CountersCounted /\ Loading /\ Totalled
=============================================================================
