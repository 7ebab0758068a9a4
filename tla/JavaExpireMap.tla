---------------------------- MODULE JavaExpireMap ----------------------------
(***************************************************************************)
(* ExpireMap<K,V> of src/unnamed/part_001: a HashMap `data', a sorted list  *)
(* of timeout buckets `timeouts' (here `ladder') and a list of pending      *)
(* add/del timeout events `timeoutsToAddDel' (here `pending') that only the *)
(* worker thread applies.  put, remove and shutdown run under one           *)
(* ReentrantLock, and so does the worker except inside cond.awaitNanos.     *)
(* Each action is therefore one critical section: a whole API call, or the  *)
(* worker's run from reacquiring the lock to its next awaitNanos.           *)
(*                                                                         *)
(* Time is the integer `now' (System.nanoTime); deadlines are absolute.    *)
(* awaitNanos may return at any moment (signal, timeout or spurious         *)
(* wakeup) with the remaining time wakeAt - now, so WorkerWake is enabled   *)
(* whenever the worker waits.                                              *)
(***************************************************************************)
EXTENDS Integers, Sequences, FiniteSets, SequencesExt

CONSTANTS
    Keys,          \* the keys callers use
    Timeouts,      \* timeoutMs values callers pass
    MaxIdle,       \* maxIdleMilliSeconds
    AddDelMax0,    \* TimeoutsToAddDelMax0 (32 in the code; scaled down)
    MaxTime,       \* bound on the clock
    MaxPending     \* bound on the pending event list

VARIABLES
    now,        \* System.nanoTime()
    data,       \* key -> deadline of its entry, 0 when absent
    ladder,     \* timeouts: sequence of [time, keys], sorted by time
    pending,    \* timeoutsToAddDel: sequence of [add, key, time]
    worker,     \* worker != null
    hook,       \* shutdownHook registered with the Runtime
    hasNewMin,
    wpc,        \* the worker thread: "none" (no live thread), "start", "wait"
    wakeAt,     \* deadline of the worker's current awaitNanos
    call        \* the last API call, for the refinement mapping

vars == <<now, data, ladder, pending, worker, hook, hasNewMin, wpc, wakeAt, call>>

NoEntry == 0

Init ==
    /\ now = 0
    /\ data = [k \in Keys |-> NoEntry]
    /\ ladder = <<>>
    /\ pending = <<>>
    /\ worker = FALSE
    /\ hook = FALSE
    /\ hasNewMin = FALSE
    /\ wpc = "none"
    /\ wakeAt = 0
    /\ call = [op |-> "none", key |-> CHOOSE k \in Keys : TRUE, to |-> 0]

(***************************************************************************)
(* `vt.time == timeouts.get(0).time' (lines 151, 206) compares two Long    *)
(* objects with ==, that is by reference.  The entry's Long is boxed at    *)
(* line 158 and the bucket's at line 160 (or for another key), and nanoTime *)
(* values lie outside the Long.valueOf cache, so the two are never the     *)
(* same object.  `!=' at line 267 is the negation.                         *)
(***************************************************************************)
SameLong(a, b) == FALSE

CacheLimit ==
    IF 2 * Len(ladder) > AddDelMax0 THEN 2 * Len(ladder) ELSE AddDelMax0

\* Collections.binarySearch on bucket times: the bucket with time t, if any.
HasBucket(l, t) == \E i \in DOMAIN l : l[i].time = t
BucketPos(l, t) == CHOOSE i \in DOMAIN l : l[i].time = t

insertTimeout(l, k, t) ==
    IF HasBucket(l, t)
    THEN [l EXCEPT ![BucketPos(l, t)].keys = @ \cup {k}]
    ELSE InsertAt(l, Cardinality({i \in DOMAIN l : l[i].time < t}) + 1,
                  [time |-> t, keys |-> {k}])

\* The del branch of getMinTimeout: timeouts.get(0) throws on an empty list,
\* and timeouts.get(pos) throws when binarySearch found no bucket (pos < 0).
CanDelete(l, t) == l # <<>> /\ HasBucket(l, t)

deleteTimeout(l, k, t) ==
    LET i == BucketPos(l, t)
    IN  IF l[i].keys = {k} THEN RemoveAt(l, i)
        ELSE [l EXCEPT ![i].keys = @ \ {k}]

\* The loop of getMinTimeout over the pending events, in order.  Each event
\* is removed from the list before it is applied, so on an exception the
\* failing event is gone and the later ones remain.
RECURSIVE ApplyAddDel(_, _)
ApplyAddDel(l, ops) ==
    IF ops = <<>> THEN [ladder |-> l, rest |-> <<>>, failed |-> FALSE]
    ELSE LET op == Head(ops) IN
         IF op.add THEN ApplyAddDel(insertTimeout(l, op.key, op.time), Tail(ops))
         ELSE IF CanDelete(l, op.time)
              THEN ApplyAddDel(deleteTimeout(l, op.key, op.time), Tail(ops))
              ELSE [ladder |-> l, rest |-> Tail(ops), failed |-> TRUE]

DueKeys(l) == UNION {l[i].keys : i \in {j \in DOMAIN l : l[j].time <= now}}

(***************************************************************************)
(* remainingNanos = cond.awaitNanos(getMinTimeout()): apply the pending    *)
(* events, drop the buckets that are already due together with their       *)
(* entries, and wait until the new head's time, or MaxIdle when the list   *)
(* is empty.  If an event throws, the exception leaves run(): the thread   *)
(* dies holding neither lock nor work, but `worker' stays set and the hook *)
(* stays registered.                                                       *)
(***************************************************************************)
getMinTimeout(l, d) ==
    LET a == ApplyAddDel(l, pending) IN
    IF a.failed
    THEN /\ ladder' = a.ladder
         /\ pending' = a.rest
         /\ data' = d
         /\ wpc' = "none"
         /\ UNCHANGED wakeAt
    ELSE LET left == SelectSeq(a.ladder, LAMBDA b : b.time > now) IN
         /\ ladder' = left
         /\ pending' = <<>>
         /\ data' = [k \in Keys |-> IF k \in DueKeys(a.ladder) THEN NoEntry ELSE d[k]]
         /\ wpc' = "wait"
         /\ wakeAt' = IF left = <<>> THEN now + MaxIdle ELSE left[1].time

(***************************************************************************)
(* put (lines 131-176).  A non-positive timeout returns at once.  With no  *)
(* worker, put registers the shutdown hook and starts a thread; the        *)
(* registration throws IllegalArgumentException while the hook of an       *)
(* earlier worker is still registered.  An existing entry is removed and a *)
(* del event queued; timeouts.get(0) at line 151 then throws when the list *)
(* is still empty, before the new entry is stored.                         *)
(***************************************************************************)
put(k, t) ==
    /\ call' = [op |-> "put", key |-> k, to |-> t]
    /\ UNCHANGED now
    /\ \/ /\ t <= 0
          /\ UNCHANGED <<data, ladder, pending, worker, hook, hasNewMin, wpc, wakeAt>>
       \/ /\ t > 0 /\ ~worker /\ hook
          /\ UNCHANGED <<data, ladder, pending, worker, hook, hasNewMin, wpc, wakeAt>>
       \/ /\ t > 0 /\ (worker \/ ~hook)
          /\ Len(pending) + 2 <= MaxPending
          /\ IF worker THEN UNCHANGED <<worker, hook, wpc>>
             ELSE worker' = TRUE /\ hook' = TRUE /\ wpc' = "start"
          /\ UNCHANGED <<ladder, wakeAt>>
          /\ LET old   == data[k]
                 del   == IF old = NoEntry THEN <<>>
                          ELSE <<[add |-> FALSE, key |-> k, time |-> old]>>
                 newTO == now + t
                 queue == pending \o del \o <<[add |-> TRUE, key |-> k, time |-> newTO]>>
             IN  \/ /\ old # NoEntry /\ ladder = <<>>
                    /\ data' = [data EXCEPT ![k] = NoEntry]
                    /\ pending' = pending \o del
                    /\ UNCHANGED hasNewMin
                 \/ /\ old = NoEntry \/ ladder # <<>>
                    /\ data' = [data EXCEPT ![k] = newTO]
                    /\ pending' = queue
                    /\ hasNewMin' =
                          \/ hasNewMin
                          \/ old # NoEntry /\ SameLong(old, ladder[1].time)
                          \/ ladder = <<>>
                          \/ newTO < ladder[1].time
                          \/ Len(queue) > CacheLimit

(***************************************************************************)
(* remove (lines 194-216): the entry goes and a del event is queued; the   *)
(* worker is signalled when SameLong holds or too many events wait, and    *)
(* timeouts.get(0) at line 206 throws when the list is empty.              *)
(***************************************************************************)
remove(k) ==
    /\ call' = [op |-> "remove", key |-> k, to |-> 0]
    /\ UNCHANGED <<now, ladder, worker, hook, wpc, wakeAt>>
    /\ \/ /\ data[k] = NoEntry
          /\ UNCHANGED <<data, pending, hasNewMin>>
       \/ /\ data[k] # NoEntry
          /\ Len(pending) < MaxPending
          /\ LET queue == Append(pending, [add |-> FALSE, key |-> k, time |-> data[k]])
             IN  /\ data' = [data EXCEPT ![k] = NoEntry]
                 /\ pending' = queue
                 /\ hasNewMin' =
                       \/ hasNewMin
                       \/ /\ ladder # <<>>
                          /\ SameLong(data[k], ladder[1].time) \/ Len(queue) > CacheLimit

\* shutdown (lines 115-127): clear `worker' and signal it.
shutdown ==
    /\ worker
    /\ worker' = FALSE
    /\ UNCHANGED <<now, data, ladder, pending, hook, hasNewMin, wpc, wakeAt, call>>

(***************************************************************************)
(* One pass through the loop of run() (lines 321-377), entered with the    *)
(* value remainingNanos and hasNewMin have on reacquiring the lock, up to   *)
(* the next awaitNanos or the end of the thread.                           *)
(***************************************************************************)
LoopTop(rem, newMin) ==
    \/ /\ ~worker                                        \* 3.0: asked to exit
       /\ wpc' = "none" /\ hook' = FALSE /\ hasNewMin' = newMin
       /\ UNCHANGED <<data, ladder, pending, worker, wakeAt>>
    \/ /\ worker /\ newMin                               \* 3.1: new minimum
       /\ hasNewMin' = FALSE
       /\ getMinTimeout(ladder, data)
       /\ UNCHANGED <<worker, hook>>
    \/ /\ worker /\ ~newMin /\ rem > 0                   \* 3.2: early wakeup
       /\ UNCHANGED <<data, ladder, pending, worker, hook, hasNewMin, wpc, wakeAt>>
    \/ /\ worker /\ ~newMin /\ rem <= 0 /\ ladder = <<>> \* 3.3: idle exit
       /\ worker' = FALSE /\ wpc' = "none" /\ hook' = FALSE
       /\ UNCHANGED <<data, ladder, pending, hasNewMin, wakeAt>>
    \/ /\ worker /\ ~newMin /\ rem <= 0 /\ ladder # <<>> \* 3.3: head is due
       /\ getMinTimeout(Tail(ladder),
             [k \in Keys |-> IF k \in ladder[1].keys THEN NoEntry ELSE data[k]])
       /\ UNCHANGED <<worker, hook, hasNewMin>>

\* run() entered: hasNewMin = true, remainingNanos = 0 (lines 315-319).
WorkerStart ==
    /\ wpc = "start"
    /\ LoopTop(0, TRUE)
    /\ UNCHANGED <<now, call>>

\* awaitNanos returns, by signal, timeout or spuriously, and the lock is retaken.
WorkerWake ==
    /\ wpc = "wait"
    /\ LoopTop(wakeAt - now, hasNewMin)
    /\ UNCHANGED <<now, call>>

Tick ==
    /\ now < MaxTime
    /\ now' = now + 1
    /\ UNCHANGED <<data, ladder, pending, worker, hook, hasNewMin, wpc, wakeAt, call>>

Next ==
    \/ \E k \in Keys, t \in Timeouts : put(k, t)
    \/ \E k \in Keys : remove(k)
    \/ shutdown
    \/ WorkerStart
    \/ WorkerWake
    \/ Tick

Spec == Init /\ [][Next]_vars

(***************************************************************************)
(* The worker thread runs once it is started and retakes the lock once     *)
(* awaitNanos has returned: callers hold the lock only for a bounded call. *)
(* The clock keeps advancing.  No fairness is assumed of callers.          *)
(***************************************************************************)
Fairness == WF_vars(WorkerStart) /\ WF_vars(WorkerWake) /\ WF_vars(Tick)

FairSpec == Spec /\ Fairness

-----------------------------------------------------------------------------
\* Type invariant.
TypeOK ==
    /\ now \in 0..MaxTime
    /\ data \in [Keys -> Nat]
    /\ \A i \in DOMAIN ladder : ladder[i].keys \subseteq Keys
    /\ \A i \in DOMAIN pending : pending[i].add \in BOOLEAN /\ pending[i].key \in Keys
    /\ worker \in BOOLEAN /\ hook \in BOOLEAN /\ hasNewMin \in BOOLEAN
    /\ wpc \in {"none", "start", "wait"}

EM == INSTANCE ExpireMapSpec WITH now <- now, data <- data, call <- call

(***************************************************************************)
(* The class implements ExpireMapIntf: every put stores its entry with the *)
(* deadline now + timeoutMs, every remove deletes the entry, and the        *)
(* worker (run, getMinTimeout) removes an entry only once its deadline has  *)
(* passed.                                                                 *)
(***************************************************************************)
ImplementsExpireMap == EM!Spec

(***************************************************************************)
(* Requirement 3 of the class comment and the put contract: an entry whose *)
(* deadline has passed is eventually removed by the worker, unless the map *)
(* was shut down (worker = null).  This is about run() and getMinTimeout   *)
(* keeping the worker alive while entries are pending.                     *)
(***************************************************************************)
ExpiredEventuallyRemoved ==
    \A k \in Keys, d \in 1..MaxTime :
        (data[k] = d /\ d <= now /\ worker) ~> (data[k] # d \/ ~worker)
==============================================================================
