----------------------------- MODULE GoExpCache -----------------------------
(***************************************************************************)
(* The Go expiring cache of src/ExpireMap/expcache_golang/expcache.go.     *)
(*                                                                         *)
(* Client goroutines call Put and Remove: each one edits the entry map and *)
(* appends records to the TimeoutManager's operLog under Cache.Lock(), and *)
(* after Unlock() may poke the purger through the buffered channel        *)
(* resched.  One purger goroutine selects on resched and on the purge      *)
(* timer's channel; each wake-up (handleResched) is three critical         *)
(* sections with the lock released in between: take the operLog and       *)
(* replay it into the sorted timeouts ladder, delete the expired entries   *)
(* and re-arm the timer, publish nextPurgeTime.                            *)
(*                                                                         *)
(* Values are abstracted away: an entry is its deadline, 0 meaning absent  *)
(* (the zero TimedData the code reads for a missing key).  Time is an      *)
(* integer clock; a deadline is now + timeout.                             *)
(***************************************************************************)
EXTENDS Integers, Sequences, FiniteSets

LOCAL SX == INSTANCE SequencesExt

CONSTANTS
    Keys,          \* cache keys
    Clients,       \* client goroutines calling Put/Remove/Close
    Timeouts,      \* timeoutMs values a Put may pass (all > 0)
    MaxTime,       \* bound: the clock stops at MaxTime
    MaxLog,        \* bound: clients stop once operLog would exceed MaxLog
    MaxCacheSize,  \* bound: no Put of a new key once cacheSize reaches it
    PendingRatio,  \* TimeoutManager.pendingRatio (args[0])
    PendingMax     \* TimeoutManager.pendingMax (args[1])

ASSUME /\ Timeouts \subseteq Nat \ {0} /\ Timeouts # {}
       /\ MaxTime \in Nat /\ MaxLog \in Nat /\ MaxCacheSize \in Nat
       /\ PendingRatio \in Nat /\ PendingMax \in Nat

MaxTimeout == CHOOSE t \in Timeouts : \A u \in Timeouts : u <= t
Horizon == MaxTime + MaxTimeout          \* the latest deadline a Put can set
Deadline == 1..Horizon
\* math.MaxInt64, the value nextPurgeTime has when nothing is scheduled:
\* later than every deadline.
MaxInt64 == Horizon + 1
NoTimer == -1                            \* the purge timer is stopped

VARIABLES
    now,            \* the monotonic clock
    data,           \* Cache.data: key -> deadline, 0 = absent
    operLog,        \* TimeoutManager.operLog: ADD/DEL records
    nextPurgeTime,  \* TimeoutManager.nextPurgeTime
    cacheSize,      \* TimeoutManager.cacheSize
    timeouts,       \* TimeoutManager.timeouts: sorted buckets
    resched,        \* a token is buffered in the resched channel
    reschedClosed,  \* close(c.resched) has run
    timerAt,        \* when purgeTimer fires, NoTimer if stopped
    timerC,         \* a fire is buffered in purgeTimer.C
    purgerPc,       \* where the purger goroutine is
    notifying,      \* client -> has unlocked and must call notifyResched
    panicked        \* a goroutine panicked: the program is dead

vars == <<now, data, operLog, nextPurgeTime, cacheSize, timeouts, resched,
          reschedClosed, timerAt, timerC, purgerPc, notifying, panicked>>
cacheVars == <<data, operLog, cacheSize, notifying>>
purgerVars == <<nextPurgeTime, timeouts, timerAt, timerC, purgerPc>>

LogRecord == [oper : {"ADD", "DEL"}, key : Keys, timeout : Deadline]
Bucket == [timeout : Deadline, keys : Seq(Keys)]

-----------------------------------------------------------------------------
(* Client side, all under Cache.Lock().                                    *)

PendingLimit(size) ==
    IF PendingRatio * size < PendingMax THEN PendingMax ELSE PendingRatio * size

\* appendAddOper: a replaced entry first gets a DEL of its old deadline; a
\* new entry bumps cacheSize.  The caller is told to wake the purger when
\* the old deadline is the one the purger sleeps on, the new one is
\* earlier, or the log is over its limit.
AppendAddOper(c, k, oTo, nTo) ==
    LET log1 == IF oTo = 0 THEN operLog
                ELSE Append(operLog, [oper |-> "DEL", key |-> k, timeout |-> oTo])
        log2 == Append(log1, [oper |-> "ADD", key |-> k, timeout |-> nTo])
        size == IF oTo = 0 THEN cacheSize + 1 ELSE cacheSize
    IN /\ operLog' = log2
       /\ cacheSize' = size
       /\ notifying' = [notifying EXCEPT ![c] =
                          \/ oTo = nextPurgeTime
                          \/ nTo < nextPurgeTime
                          \/ Len(log2) > PendingLimit(size)]

\* appendDelOper
AppendDelOper(c, k, to) ==
    LET log1 == Append(operLog, [oper |-> "DEL", key |-> k, timeout |-> to])
    IN /\ operLog' = log1
       /\ cacheSize' = cacheSize - 1
       /\ notifying' = [notifying EXCEPT ![c] =
                          \/ to = nextPurgeTime
                          \/ Len(log1) > PendingLimit(cacheSize - 1)]

Idle(c) == ~notifying[c]

\* Cache.Put with timeoutMs = t > 0 (t <= 0 returns at once and changes
\* nothing): insert or overwrite the entry with deadline now + t.
Put(c, k, t) ==
    /\ Idle(c)
    /\ Len(operLog) + 2 <= MaxLog
    /\ data[k] = 0 => cacheSize < MaxCacheSize
    /\ data' = [data EXCEPT ![k] = now + t]
    /\ AppendAddOper(c, k, data[k], now + t)
    /\ UNCHANGED <<now, resched, reschedClosed, panicked, purgerVars>>

\* A plausible bug: Remove without its early return for a missing key.
RemoveNoGuard(c, k) ==
    /\ Idle(c)
    /\ Len(operLog) + 1 <= MaxLog
    /\ data' = [data EXCEPT ![k] = 0]
    /\ AppendDelOper(c, k, data[k])
    /\ UNCHANGED <<now, resched, reschedClosed, panicked, purgerVars>>

\* Cache.Remove of a present key (a missing key returns at once).
Remove(c, k) ==
    /\ Idle(c)
    /\ data[k] # 0
    /\ Len(operLog) + 1 <= MaxLog
    /\ data' = [data EXCEPT ![k] = 0]
    /\ AppendDelOper(c, k, data[k])
    /\ UNCHANGED <<now, resched, reschedClosed, panicked, purgerVars>>

\* notifyResched after Unlock(): a non-blocking send on resched.  A send on
\* a closed channel panics, select/default or not.
NotifyResched(c) ==
    /\ notifying[c]
    /\ notifying' = [notifying EXCEPT ![c] = FALSE]
    /\ IF reschedClosed
          THEN panicked' = TRUE /\ UNCHANGED resched
          ELSE resched' = TRUE /\ UNCHANGED panicked
    /\ UNCHANGED <<now, data, operLog, cacheSize, reschedClosed, purgerVars>>

\* Cache.Close -> TimeoutManager.Close: stop the timer, close resched.
\* Closing a closed channel panics.
Close(c) ==
    /\ Idle(c)
    /\ timerAt' = NoTimer
    /\ IF reschedClosed
          THEN panicked' = TRUE /\ UNCHANGED reschedClosed
          ELSE reschedClosed' = TRUE /\ UNCHANGED panicked
    /\ UNCHANGED <<now, data, operLog, cacheSize, notifying, resched,
                   nextPurgeTime, timeouts, timerC, purgerPc>>

-----------------------------------------------------------------------------
(* The timeouts ladder, touched only by the purger.                        *)

\* A plausible bug: the search predicate written with > instead of >=.
SearchTimeoutGt(tl, to) ==
    LET I == {i \in 1..Len(tl) : tl[i].timeout > to}
    IN IF I = {} THEN Len(tl) + 1 ELSE SX!Min(I)

\* sort.Search over the ladder: the first bucket whose deadline is >= to,
\* Len + 1 if none.  The ladder is sorted (LadderWellFormed), so this is
\* the index the binary search returns.
SearchTimeout(tl, to) ==
    LET I == {i \in 1..Len(tl) : tl[i].timeout >= to}
    IN IF I = {} THEN Len(tl) + 1 ELSE SX!Min(I)

AddKeyTimeout(tl, k, i) == [tl EXCEPT ![i].keys = Append(@, k)]

\* delKeyTimeout: drop the first occurrence of k, and the bucket if it is
\* left empty.
DelKeyTimeout(tl, k, i) ==
    LET keys == SX!RemoveFirst(tl[i].keys, k)
    IN IF keys = <<>> THEN SX!RemoveAt(tl, i)
       ELSE [tl EXCEPT ![i].keys = keys]

\* A plausible bug: an ADD for a deadline with no bucket yet is dropped.
ApplyOperNoInsert(tl, r) ==
    LET i == SearchTimeout(tl, r.timeout)
        found == i <= Len(tl) /\ tl[i].timeout = r.timeout
    IN CASE found /\ r.oper = "DEL" -> DelKeyTimeout(tl, r.key, i)
         [] found /\ r.oper = "ADD" -> AddKeyTimeout(tl, r.key, i)
         [] OTHER -> tl

\* One iteration of the replay loop of updateTimeoutsFromPendingList: a
\* found bucket gets the key added or removed, a missing one is created
\* for an ADD at the search position, a DEL of a missing bucket is ignored.
ApplyOper(tl, r) ==
    LET i == SearchTimeout(tl, r.timeout)
        found == i <= Len(tl) /\ tl[i].timeout = r.timeout
    IN CASE found /\ r.oper = "DEL" -> DelKeyTimeout(tl, r.key, i)
         [] found /\ r.oper = "ADD" -> AddKeyTimeout(tl, r.key, i)
         [] r.oper = "ADD" ->
              AddKeyTimeout(SX!InsertAt(tl, i, [timeout |-> r.timeout,
                                                keys |-> <<>>]), r.key, i)
         [] OTHER -> tl

\* The replay loop, record by record in log order.
RECURSIVE Replay(_, _)
Replay(tl, log) ==
    IF log = <<>> THEN tl ELSE Replay(ApplyOper(tl, Head(log)), Tail(log))

\* The number of leading buckets whose deadline is <= t.
ExpiredCount(tl, t) ==
    LET Late == {i \in 1..Len(tl) : tl[i].timeout > t}
    IN IF Late = {} THEN Len(tl) ELSE SX!Min(Late) - 1

-----------------------------------------------------------------------------
(* The purger goroutine.                                                   *)

\* select: a token on resched
RecvResched ==
    /\ purgerPc = "select"
    /\ resched
    /\ resched' = FALSE
    /\ purgerPc' = "take"
    /\ UNCHANGED <<now, reschedClosed, panicked, cacheVars, nextPurgeTime,
                   timeouts, timerAt, timerC>>

\* select: resched is closed and drained, the purger returns
RecvClosed ==
    /\ purgerPc = "select"
    /\ reschedClosed /\ ~resched
    /\ purgerPc' = "exited"
    /\ UNCHANGED <<now, resched, reschedClosed, panicked, cacheVars,
                   nextPurgeTime, timeouts, timerAt, timerC>>

\* select: a fire of the purge timer
RecvTimer ==
    /\ purgerPc = "select"
    /\ timerC
    /\ timerC' = FALSE
    /\ purgerPc' = "take"
    /\ UNCHANGED <<now, resched, reschedClosed, panicked, cacheVars,
                   nextPurgeTime, timeouts, timerAt>>

\* updateTimeoutsFromPendingList: grab the log under the lock, then replay
\* it into the ladder (purger-private, so one step).
TakeLog ==
    /\ purgerPc = "take"
    /\ operLog' = <<>>
    /\ timeouts' = Replay(timeouts, operLog)
    /\ purgerPc' = "sweep"
    /\ UNCHANGED <<now, data, cacheSize, notifying, resched, reschedClosed,
                   panicked, nextPurgeTime, timerAt, timerC>>

\* A plausible bug: the timer is stopped for an empty ladder but never
\* reset to a new head.
SweepNoReset ==
    LET n == ExpiredCount(timeouts, now)
        evicted == UNION {SX!ToSet(timeouts[i].keys) : i \in 1..n}
        rest == SubSeq(timeouts, n + 1, Len(timeouts))
    IN /\ purgerPc = "sweep"
       /\ data' = [k \in Keys |-> IF k \in evicted THEN 0 ELSE data[k]]
       /\ timeouts' = rest
       /\ timerAt' = IF rest = <<>> THEN NoTimer ELSE timerAt
       /\ purgerPc' = "publish"
       /\ UNCHANGED <<now, operLog, cacheSize, notifying, resched,
                      reschedClosed, panicked, nextPurgeTime, timerC>>

\* purgeAndResetTimer, first part: read the clock, deleteExpiredEntries
\* under the lock (every key of every expired head bucket is deleted), then
\* stop the timer if the ladder is empty or reset it to the new head when
\* that differs from nextPurgeTime.
Sweep ==
    LET n == ExpiredCount(timeouts, now)
        evicted == UNION {SX!ToSet(timeouts[i].keys) : i \in 1..n}
        rest == SubSeq(timeouts, n + 1, Len(timeouts))
    IN /\ purgerPc = "sweep"
       /\ data' = [k \in Keys |-> IF k \in evicted THEN 0 ELSE data[k]]
       /\ timeouts' = rest
       /\ timerAt' = IF rest = <<>> THEN NoTimer
                     ELSE IF nextPurgeTime # rest[1].timeout THEN rest[1].timeout
                     ELSE timerAt
       /\ purgerPc' = "publish"
       /\ UNCHANGED <<now, operLog, cacheSize, notifying, resched,
                      reschedClosed, panicked, nextPurgeTime, timerC>>

\* purgeAndResetTimer, second part: publish nextPurgeTime under the lock.
Publish ==
    /\ purgerPc = "publish"
    /\ nextPurgeTime' = IF timeouts = <<>> THEN MaxInt64 ELSE timeouts[1].timeout
    /\ purgerPc' = "select"
    /\ UNCHANGED <<now, resched, reschedClosed, panicked, cacheVars, timeouts,
                   timerAt, timerC>>

-----------------------------------------------------------------------------
(* The environment: the Go runtime's timer and the clock.                  *)

\* The runtime sends on purgeTimer.C once the deadline has passed (a
\* non-blocking send into the one-slot buffer).
TimerFire ==
    /\ timerAt # NoTimer
    /\ now >= timerAt
    /\ timerAt' = NoTimer
    /\ timerC' = TRUE
    /\ UNCHANGED <<now, resched, reschedClosed, panicked, cacheVars,
                   nextPurgeTime, timeouts, purgerPc>>

Tick ==
    /\ now < MaxTime
    /\ now' = now + 1
    /\ UNCHANGED <<data, operLog, nextPurgeTime, cacheSize, timeouts, resched,
                   reschedClosed, timerAt, timerC, purgerPc, notifying, panicked>>

-----------------------------------------------------------------------------

\* New: empty map, nothing scheduled, timer stopped, purger started.
Init ==
    /\ now = 0
    /\ data = [k \in Keys |-> 0]
    /\ operLog = <<>>
    /\ nextPurgeTime = MaxInt64
    /\ cacheSize = 0
    /\ timeouts = <<>>
    /\ resched = FALSE
    /\ reschedClosed = FALSE
    /\ timerAt = NoTimer
    /\ timerC = FALSE
    /\ purgerPc = "select"
    /\ notifying = [c \in Clients |-> FALSE]
    /\ panicked = FALSE

ClientStep(c) ==
    \/ \E k \in Keys, t \in Timeouts : Put(c, k, t)
    \/ \E k \in Keys : Remove(c, k)
    \/ NotifyResched(c)
    \/ Close(c)

PurgerStep ==
    RecvResched \/ RecvClosed \/ RecvTimer \/ TakeLog \/ Sweep \/ Publish

\* A panic ends the program: no step follows it.
Next ==
    \/ \E c \in Clients : ~panicked /\ ClientStep(c)
    \/ ~panicked /\ PurgerStep
    \/ ~panicked /\ TimerFire
    \/ ~panicked /\ Tick

\* The Go scheduler runs every runnable goroutine and the runtime fires due
\* timers; a client that has unlocked goes on to notifyResched.  Clients
\* are not obliged to call anything.
Fairness ==
    /\ WF_vars(~panicked /\ PurgerStep)
    /\ WF_vars(~panicked /\ TimerFire)
    /\ \A c \in Clients : WF_vars(~panicked /\ NotifyResched(c))

Spec == Init /\ [][Next]_vars /\ Fairness

-----------------------------------------------------------------------------
(* Properties.                                                             *)

TypeOK ==
    /\ now \in 0..MaxTime
    /\ data \in [Keys -> 0..Horizon]
    /\ operLog \in Seq(LogRecord)
    /\ nextPurgeTime \in Deadline \cup {MaxInt64}
    /\ cacheSize \in Nat
    /\ timeouts \in Seq(Bucket)
    /\ resched \in BOOLEAN /\ reschedClosed \in BOOLEAN
    /\ timerAt \in Deadline \cup {NoTimer}
    /\ timerC \in BOOLEAN
    /\ purgerPc \in {"select", "take", "sweep", "publish", "exited"}
    /\ notifying \in [Clients -> BOOLEAN]
    /\ panicked \in BOOLEAN

InBucket(k, d) ==
    \E i \in 1..Len(timeouts) : timeouts[i].timeout = d /\ SX!Contains(timeouts[i].keys, k)

\* Every live entry is scheduled for its current deadline: its key sits in
\* the ladder bucket of that deadline or an ADD of it waits in operLog.
\* (appendAddOper's DEL+ADD pair and the replay order must agree for this.)
LiveEntryScheduled ==
    \A k \in Keys : data[k] # 0 =>
        \/ InBucket(k, data[k])
        \/ SX!Contains(operLog, [oper |-> "ADD", key |-> k, timeout |-> data[k]])

\* The ladder built by the replay's binary-search insertions is strictly
\* sorted by deadline and holds no empty bucket.
LadderWellFormed ==
    /\ \A i, j \in 1..Len(timeouts) : i < j => timeouts[i].timeout < timeouts[j].timeout
    /\ \A i \in 1..Len(timeouts) : timeouts[i].keys # <<>>

Overdue(k) == data[k] # 0 /\ data[k] <= now

\* An entry that has reached the ladder and whose deadline has passed is
\* eventually deleted (or replaced), unless the cache is closed: the timer
\* re-arming of purgeAndResetTimer keeps the purger waking for the head.
ScheduledEventuallyEvicted ==
    \A k \in Keys :
        (Overdue(k) /\ InBucket(k, data[k])) ~> (~Overdue(k) \/ reschedClosed)

\* Every overdue entry is eventually deleted (or replaced), unless the
\* cache is closed: the requirement at the top of expcache.go.
OverdueEventuallyEvicted ==
    \A k \in Keys : Overdue(k) ~> (~Overdue(k) \/ reschedClosed)

\* A Sweep step deletes an entry only once its deadline has passed: a Put
\* that re-arms a key is never undone by the sweep of its old deadline
\* (spec 4.2.2 has the sweep compare the entry's deadline with the bucket's).
EvictOnlyExpired ==
    [][Sweep =>
         \A k \in Keys : (data[k] # 0 /\ data'[k] = 0) => data[k] <= now]_vars

=============================================================================
