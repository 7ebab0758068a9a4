# TLA+ models of code_challenges

This directory holds TLA+ models of the concurrent parts of this repository and
the TLC configurations that check them. Five components are modelled:
- the Go expiring cache (`GoExpCache`);
- the Java ExpireMap (`JavaExpireMap`), checked against the abstract
  `ExpireMapSpec` of its interface;
- the index server's package registry with its backups (`IndexRegistry`);
- the elevator simulator (`ElevatorSim`), whose cars are checked against the
  abstract `ElevatorCars`;
- the board game's rock simulation (`BoardGame`), whose `Run` is checked
  against a reference settling over every small board.

## Inventory of the system

| Part | Source | Concurrency | State changed | Status |
|---|---|---|---|---|
| Go expiring cache | `src/ExpireMap/expcache_golang/expcache.go` | client goroutines, one purger goroutine, a runtime timer | `data`, `operLog`, `cacheSize`, `nextPurgeTime` (under the cache lock); `timeouts` ladder, `purgeTimer`, `resched` channel (purger) | modelled: `GoExpCache` |
| Java ExpireCache | `src/unnamed/part_002` | client threads, a worker thread that exits when idle | data map, coalescing `timeoutsToAddDel` map, volatile `nextWakeupTime`, `worker` | not modelled (see Not modelled) |
| Java ExpireMap | `src/unnamed/part_001` | client threads, a worker, one lock | data map, ladder, Condition | modelled: `JavaExpireMap`, refines `ExpireMapSpec` (fails) |
| Elevator simulator | `src/elevator/elevator.go` | scheduler, elevator and floor goroutines over channels | rider queues, elevator status | modelled: `ElevatorSim`, refines `ElevatorCars` |
| Index server | `src/index-server/*.go`, `src/unnamed/part_003` | one goroutine per connection, one registry lock | package registry (children/parent maps), backups | modelled: `IndexRegistry` |
| LogServer | `src/LogServer/...`, `src/unnamed/part_009` | acceptor, handlers, processors, writer | `AtomicBitSet` of seen numbers, queues | candidate |
| Board game | `src/board_game/main.go` | none (a generator piped into a solver) | `Board.data`, stdout | modelled: `BoardGame` |
| Quiz | `src/unnamed/part_010` | none | none | not modelled: string algorithm |
| webnmap | `src/webnmap`, `src/unnamed/part_004..007` | HTTP handlers, an external nmap process | SQL rows | not modelled: pure I/O |

### The Go expiring cache

`Cache.Put` and `Cache.Remove` take the cache lock. They update `data` and
append ADD/DEL records to the operation log `operLog`. They then decide,
still under the lock, whether the purger must be woken. There are three
reasons to wake it:
- the change touches the deadline it sleeps for (`oTo == nextPurgeTime`);
- the new deadline comes earlier;
- the log has outgrown `pendingLimit`.

After unlocking, the client sends a non-blocking token on the one-slot
`resched` channel.

The purger goroutine waits for a `resched` token or a `purgeTimer` fire. It
then works through these steps:
1. It takes the log under the lock.
2. It replays the log into its private ladder `timeouts`: buckets of keys,
   sorted by deadline.
3. It locks again and deletes every key of every expired head bucket.
4. It stops the timer or resets it to the new head.
5. It locks a third time to publish `nextPurgeTime`.

`Close` stops the timer and closes `resched`. That ends the purger.

## Modules

`GoExpCache.tla` models the Go cache. The table maps its parts to the code
(PROJECT.json `map` gives exact lines).

| Model | Code |
|---|---|
| `now` | `time.Now()` in nanoseconds, abstracted to a small tick counter |
| `data[k]` | the deadline of `c.data[k]`, 0 when absent; values are abstracted away |
| `operLog`, `cacheSize`, `nextPurgeTime` | the `TimeoutManager` fields shared under the cache lock |
| `timeouts` | the ladder, a sequence of `[timeout, keys]` |
| `resched`, `reschedClosed` | the one-slot channel: a buffered token, and closed |
| `timerAt`, `timerC` | the deadline `purgeTimer` is armed for, and its buffered fire |
| `purgerPc` | where the purger is: `select`, `take`, `sweep`, `publish`, `exited` |
| `notifying[c]` | client `c` has unlocked with `needResched` true and not yet sent |
| `panicked` | a goroutine panicked; behaviours stop there |

Actions:
- `Put` and `Remove` are one locked step each, including `appendAddOper` and
  `appendDelOper`.
- `NotifyResched` is the send after the unlock.
- `Close` is `TimeoutManager.Close`.
- The purger is `RecvResched`, `RecvTimer` or `RecvClosed` (the `select`),
  followed by `TakeLog`, `Sweep` and `Publish`. The lock releases in the code
  fall between these three actions, so clients interleave at exactly those
  points.
- `TakeLog` applies the log in one step because the ladder is private to the
  purger. It uses `ApplyOper`, which models the binary search, the
  insert/append/delete and the early `DEL` ignore.
- `TimerFire` (the runtime) and `Tick` (the clock) are the environment.

`MC_GoExpCache.tla` gives the model values for keys and clients.

## Runs

All runs use two keys, `Timeouts = {1, 2}`, `PendingRatio = PendingMax = 1`
(so the log-size trigger is reachable), and `MaxCacheSize = 2`. Time is bounded
by `MaxTime` and the log by `MaxLog`. Behaviours end when both bounds are
reached, so deadlock checking is off.

| Run | cfg | Bounds | Checks | Result |
|---|---|---|---|---|
| go_safety | `GoExpCache_safety.cfg` | 2 clients, MaxTime 3, MaxLog 3 | `TypeOK`, `LiveEntryScheduled`, `LadderWellFormed` | pass, about 3.4M states |
| go_liveness | `GoExpCache_liveness.cfg` | 1 client, MaxTime 2, MaxLog 2 | `ScheduledEventuallyEvicted` | pass |
| go_early_evict | `GoExpCache_early_evict.cfg` | 1 client, MaxTime 2, MaxLog 2 | `EvictOnlyExpired` | violated |
| go_lost_wakeup | `GoExpCache_lost_wakeup.cfg` | same | `OverdueEventuallyEvicted` | violated |

What each property says:
- **`LiveEntryScheduled`**: every live entry is in its deadline's bucket, or an
  ADD for that deadline is pending. If this fails, an entry never expires. It
  holds even across the early-eviction window, because the code never loses
  the ADD record.
- **`LadderWellFormed`**: the ladder is strictly sorted and has no empty
  bucket.
- **`ScheduledEventuallyEvicted`**: once the purger has placed an overdue
  entry in the ladder, it is eventually evicted, unless the cache was closed.
- **`EvictOnlyExpired`** (violated): every entry a `Sweep` step deletes is
  past its current deadline. The formula constrains `Sweep` steps only,
  because a client's `Remove` may delete a live entry.

### Why these bounds are enough

Two keys with two timeouts can produce the following:
- a re-put into a different bucket (DEL and ADD in one log);
- two keys sharing one bucket;
- deadlines that equal a stale `nextPurgeTime`.

Three log slots allow a DEL/ADD pair plus one more record. Two clients give
two concurrent writers and a notify that races the purger. Both
violations are found with one client, so the bugs need no client-to-client
race.

The liveness runs use the smaller bounds because checking under fairness
evaluates ENABLED on every state. With two clients this does not finish in
reasonable time.

### Fairness

The model assumes weak fairness on three actions:
- the purger's steps: the Go scheduler runs a runnable goroutine;
- `TimerFire`: the runtime delivers due timers;
- each client's pending `NotifyResched`: a client that has unlocked does go on
  to send.

Clients are never obliged to call `Put`, `Remove` or `Close`.

## The index server: `IndexRegistry`

`index_server.go` runs one `HandleConn` goroutine per client connection.
Each request is parsed (`parseReq`) and then applied under the registry
lock:
- `INDEX pkg|deps` runs `index()`;
- `REMOVE pkg|` runs `remove()`.

The registry has two parts:
- the package map, with each package's `children` (its dependencies);
- the `parent` sets (its dependents).

`main.go` adds three things:
- a ticker goroutine that backs the registry up (`part_003`
  `backupRegistry`: Marshal under the lock, then write the file, keeping two);
- a final backup when the listener closes after SIGINT;
- `restoreRegistry` at start-up, which loads the newest file by ModTime that
  decodes.

| Model | Code |
|---|---|
| `idx`, `children`, `parent` | the registry map and each `Deps` struct |
| `declared` | ghost: the dependencies last sent in an INDEX that answered OK |
| `up`, `stopping`, `closed`, `finalTaken` | process running, `stopChan` closed, handlers gone, shutdown backup marshalled |
| `inflight` | backups marshalled and not yet written: `[seq, snap]` |
| `files` | backup files oldest first: `[seq, snap, intact]` |
| `lives`, `lastExit`, `exitSnap` | process lives, how the last one ended, and the registry at a graceful exit |

Actions:
- `Index` and `Remove` are one locked step each, including the whole of
  `index()` and `remove()`.
- `RemovePkgAndParent` is a RECURSIVE operator mirroring the code's
  recursion. When the code would dereference nil, the result sets `panic`,
  and the step becomes `Panic` (the process dies).
- `TakeSnapshot` is the Marshal under the lock. `TickBackup` and
  `AcceptExit` call it.
- `WriteBackup` writes a marshalled snapshot as the newest file and deletes
  the oldest beyond two.
- `Signal` closes `stopChan`. `HandlerExit` is a handler seeing it.
- `Exit` is `wg.Wait` returning.
- `Crash` may leave a truncated newest file.
- `Restart` restores the newest intact snapshot. `Restored` is that choice.

Connections are the model value `h1`; packages are `a`, `b`, `c`, and
symmetry over packages is used for safety and action properties.

Bounds:
- `MaxDeps`: the size of a dependency list;
- `MaxReqs`: the requests served;
- `MaxBackups`: the ticker backups;
- `MaxLives`: process lives.

`Halted` lets a behaviour end once the last life is over, so deadlock is
checked.

Runs:

| Run | Bounds | Checks | Result |
|---|---|---|---|
| idx_safety | 3 packages, 1 dependency each, 5 requests, 1 ticker backup, 2 lives | `RegistryConsistent` | pass, about 1.4M states |
| idx_declared_deps | 3 packages, 2 dependencies, 9 requests, no backups | `DeclaredDepsIndexed` | violated |
| idx_graceful_loss | 2 packages, 6 requests, 2 ticker backups, 2 lives | `GracefulRestartKeepsRegistry` | violated |

What the properties say:
- **`RegistryConsistent`**: in the live registry and in every backup file,
  children are indexed packages and `parent` is exactly the inverse of
  `children`. REMOVE decides by `parent`, so a drift between the two makes
  it answer wrongly.
- **`DeclaredDepsIndexed`**: every dependency an OK'd INDEX declared is
  indexed.
- **`GracefulRestartKeepsRegistry`**: after a graceful exit, the restart
  restores the registry as it was at exit.

Why these bounds are enough: three packages give a chain (`b` depends on
`a`) plus a package outside it, which is what the panic and the
dependency-recording bug need. One ticker backup plus the shutdown backup
puts two snapshots in flight at once, the ordering case. Two lives give a
restore after a crash and after a graceful exit.

`IndexRegistry` has no type invariant. The variables the code could put
out of type are the registry maps, and no code path can make them so; the
other bounds belong to the model (backup numbering, lives, requests).

No IndexRegistry run assumes fairness. Two questions about the index
server are visible in the code but are not among the runs (see Not
modelled): the restore's ModTime order and the shutdown hang.

## The elevator simulator: `ElevatorSim`

`elevator.go` runs one goroutine for each elevator and each floor, one
scheduler and `main`. They talk over channels, with these capacities:
- `pickupReqChan` holds `nfloor`;
- `elevStatusChan` holds `nelevator`;
- each `schedChan` holds `nfloor`;
- each floor's `exitChan` holds 1 and is used in both directions;
- `main`'s `exitChan` is unbuffered.

Channels are sequences, and a blocking send is an action guarded by
`Len < cap`.

| Model | Code |
|---|---|
| `cur`, `goal`, `dir`, `local`, `epc` | `Elevator` fields and where `Elevator.Run` is |
| `fpc`, `fgoal` | where `Floor.Run` is, and the rider it is sending |
| `spc`, `elevStatus`, `waitUp`, `waitDown` | where `Scheduler.Run` is, and its private state |
| `plan` | the blocking sends `schedule()` still has to make |
| `loopI`, `exited` | the index of the exit loops and `exitElev` |
| `mpc` | where `main` is |
| `tickReady`, `secs` | the tick buffered in `time.Tick`'s channel, and seconds elapsed |
| `riders`, `absorbed` | riders generated, and riders received into a `localSched` (ghost) |

Actions:
- `ElevRecv` is a receive in the `schedcmd` loop (both the `select` case and
  the blocking receive).
- `ElevGo` is leaving the loop and running `Elevator.schedule`. It either
  starts a one-second move or, with direction 0, does the goal check
  (`Arrive`) at once.
- `ElevStatus` and `ElevExit` are the two status sends.
- The floors have `FloorExitRecv`, `FloorTimer` (a goal equal to the floor
  changes nothing and is not a step), `FloorSend` and `FloorExitSend`.
- The scheduler's `select` is `SchedRecvExit`, `SchedTick`,
  `SchedRecvStatus` and `SchedRecvPickup`. `SchedTick` computes the whole of
  `schedule()` as `Schedule`: the sweeps (`SweepFloors`, `SweepElevs`,
  `SweepPass`) and the jump commands (`Jumps`). `SchedDispatch` then makes
  its sends one at a time. This is exact because the queues and
  `elevStatus` belong to the scheduler goroutine alone.
- The four shutdown steps are `SchedExitElev`, `SchedExitFloor`,
  `SchedWaitElev`, `SchedWaitFloor`, then `SchedNotify`.
- `MainWake` ends `main`'s sleep.
- `Second` is time: it makes the tick ready and finishes every elevator's
  move.
- After `main` returns, only `Terminated` (stuttering) remains.

Runs:

| Run | Bounds | Checks | Result |
|---|---|---|---|
| elev_safety | 2 floors, 2 elevators, 3 riders, 4 s | `TypeOK`, `ElevatorHeadsForGoal`, `RidersConserved`, `CarsRefined` | pass, about 2M states, 50 s |
| elev_hang | 2 floors, 1 elevator, 3 riders, 3 s, `LiveSpec` | `SimulationEnds` | violated |

What the properties say:
- **`ElevatorHeadsForGoal`**: an elevator has a direction exactly when it is
  away from its goal, and then the goal is in `localSched` in that direction.
- **`RidersConserved`**: every generated rider is in exactly one place. The
  places are: its floor, `pickupReqChan`, a wait queue, the pending sends, a
  `schedChan`, or an elevator's `localSched`.
- **`CarsRefined`**: the elevators implement `ElevatorCars` under the
  mapping `pos <- cur`, `requests <- local`. In the abstract module a car
  moves one floor per step, only towards a floor it was asked to stop at,
  and a request is cleared only by the car standing at that floor. Several
  cars may act in one step, because `Second` moves all of them. This is the
  transition-level contract of `ElevRecv`, `ElevGo`, `Arrive` and `Second`
  together. `ElevatorHeadsForGoal` only constrains states, so for example an
  arrival that also clears floors behind the car passes it and fails this.
- **`SimulationEnds`**: `main` returns.

Bounds: with two floors every channel to an elevator holds two, so three
riders plus a jump command overfill it. Two elevators give the up, down and
idle classes and the second jump command. Four seconds let several ticks and
moves interleave before shutdown.

Fairness: weak fairness per goroutine step and per `select` case. Go picks
at random among ready cases, so a case that stays ready is taken
eventually. Time passes (`Second`). Floors are not obliged to generate
riders.

## The Java ExpireMap: `JavaExpireMap` and `ExpireMapSpec`

`ExpireMap` (`src/unnamed/part_001`) keeps a `HashMap` of entries, a sorted
list `timeouts` of `(time, keys)` buckets, and a list `timeoutsToAddDel` of
add and del events. `put` and `remove` only append to that list, and the
worker thread applies it in `getMinTimeout`. One `ReentrantLock` guards all
of it, and the worker holds the lock except inside `cond.awaitNanos`. Each
action is therefore one critical section: a whole `put`, `remove` or
`shutdown`, or the worker's run from retaking the lock to its next
`awaitNanos`.

| Model | Code |
|---|---|
| `now` | `System.nanoTime()`, a small tick counter |
| `data[k]` | the deadline of `data.get(k)`, 0 when absent; values are abstracted away |
| `ladder` | `timeouts`, buckets as `[time, keys]` |
| `pending` | `timeoutsToAddDel`, events as `[add, key, time]` |
| `worker`, `hook`, `hasNewMin` | `worker != null`, `shutdownHook` registered, `hasNewMin` |
| `wpc`, `wakeAt` | the worker thread: no live thread, started, or in `awaitNanos` until `wakeAt` |
| `call` | the last API call (history, for the refinement mapping) |

Actions:
- `put` covers the early return for `timeoutMs <= 0`, the worker start, and
  the `addShutdownHook` that throws while an old worker's hook is still
  registered. It also covers the replaced entry's del event, the
  `timeouts.get(0)` that throws on an empty list, and the signal test.
- `remove` and `shutdown` are their methods.
- `WorkerStart` is `run()` taking the lock with `hasNewMin = true`.
- `WorkerWake` is `awaitNanos` returning and the lock retaken. Because
  `awaitNanos` may return early (spuriously or by signal), it is enabled
  whenever the worker waits. `LoopTop` is then one pass of the loop:
  - 3.0: exit;
  - 3.1: new minimum, `getMinTimeout`;
  - 3.2: wait again;
  - 3.3: idle exit, or pop the head bucket and `getMinTimeout`.
- `getMinTimeout` replays the events (`ApplyAddDel`, `insertTimeout`,
  `deleteTimeout`) and drops buckets already due. An event that throws ends
  the thread. `worker` stays set and the hook stays registered.
- `Tick` is the clock.

`vt.time == timeouts.get(0).time` (lines 151 and 206) compares two `Long`
objects by reference. The entry's `Long` and the bucket's `Long` are boxed
separately, so the test is never true. `SameLong` is therefore `FALSE`.

`ExpireMapSpec` states the `ExpireMapIntf` comments:
- `put` sets the key's deadline to `now + timeoutMs` and ignores a
  non-positive timeout;
- `remove` deletes the entry;
- an entry leaves by itself only once its deadline has passed.

Its variable `call` tells a `put` apart from a `remove` of the same key.
`JavaExpireMap` maps onto it with `INSTANCE ExpireMapSpec WITH now <- now,
data <- data, call <- call`, and `ImplementsExpireMap == EM!Spec`.

Runs (`MC_JavaExpireMap` supplies keys as model values):

| Run | Bounds | Checks | Result |
|---|---|---|---|
| jmap_refinement | 2 keys, timeouts {0, 1, 2}, MaxTime 3, MaxPending 4 | `ImplementsExpireMap` | violated in 3 steps |
| jmap_dead_worker | 1 key, timeout 1, MaxTime 2, MaxPending 4, `FairSpec` | `ExpiredEventuallyRemoved` | violated |

Bounds:
- `AddDelMax0` (32 in the code) is scaled to 2, so the "too many pending
  events" signal is reachable.
- `MaxIdle` is 2 ticks.
- A behaviour may stop: callers need not call, and a dead worker does
  nothing. Deadlock checking is therefore off.
- One key and one timeout are enough for a re-put that shares its deadline,
  which is the dead-worker case.
- With two timeouts, a re-put moves the key to a later bucket, which is the
  early-eviction case that `ImplementsExpireMap` also forbids.

Fairness (`Fairness`) is weak fairness on three actions:
- `WorkerStart`: a started thread runs;
- `WorkerWake`: `awaitNanos` returns once its time is up, and callers hold
  the lock only for one bounded call;
- `Tick`: time passes.

Callers get no fairness.

## The board game: `BoardGame`

`src/board_game/main.go` is one sequential program with two modes. With
`-d COLxROW` it makes a random board (`Random`) and writes it (`Marshal`).
Otherwise it reads a board from stdin (`Unmarshal`), writes it back when
`-s` is set (the default), lets the rocks fall (`Run`) and writes the
result. `BoardGame` models one run of the program and composes the two modes
the way its README uses them, `main -d 7x4 | main`: the generator's output
is the solver's stdin.

| Model | Code |
|---|---|
| `pc` | where `main` is: `gen`, `read`, `dump`, `run`, `write`, or ended in `done`, `failed` (`log.Fatal`) or `panic` |
| `genFlag`, `dumpInput` | `*dataGenFlag` (`None` when not given) and `*dumpInputFlag` |
| `stdin` | the solver's input: the header pair `<<nc, nr>>` or `BadHeader`, and its lines as character sequences |
| `data` | `Board.data`: row and column counts and the cells as a function of `<<row, col>>`, from 0 |
| `stdout` | the boards `Marshal` wrote, as texts; the `--- game ... ---` separator lines are left out |
| `input`, `genData` | history: the board `Unmarshal` loaded, and the board the generator wrote |

The conversions are modelled by what they do. `MarshalText` writes the
header `nc nr` and one character per cell. `Unmarshal` rejects a header that
does not scan, panics on a negative row count, and rejects a missing row or
a row whose length is not `nc`. It maps each byte through the switch, and a
byte the switch does not list reads as empty space. `RandomBoards` is the set
of boards `Random` can produce: its first loop can give any 0..2 assignment,
and its second loop adds between 1 and `(nrow*ncol)/10` tables, or none on a
board of fewer than ten cells. `Run` is translated loop for loop: `RunLoop`
walks the cells row by row in the code's order, `fillUpto` is the closure,
and `FillBottom` is the final loop. The actions are `GenRejected`,
`Generate`, `Load`, `DumpInput`, `RunGame` and `WriteResult`. The last three
share `WriteBoard` or its check: both `Marshal` and `Run` start by reading
`len(b.data[0])`.

The reference `Settled` does not follow the loops. Each column splits into
segments between tables (or a table and the board's edge). A cell at height
`h` above its segment's bottom holds what is left of the segment's rocks
after two per cell below it, and at most two.

| Run | Bounds | Checks | Result |
|---|---|---|---|
| bg_run | stdin: every board up to 3 rows x 2 columns, under its own header, every header off by one in either count, and an unreadable header, each with and without `-s`; generator: `-d 2x5` (every rock pattern, and one table or none), `-d 0x2`, and an unreadable flag | `TypeOK`, `RunMatchesReference`, `GeneratedBoardReadBack` | pass, about 2M states, 80 s |

What the properties say:
- **`RunMatchesReference`**: when the program ends normally, the last text
  it wrote is `Marshal` of the reference settling of the board it loaded.
  This covers the accumulator reset at a table, the two-rock cap in
  `fillUpto`, and the odd rock left on top. (`fillUpto` also stops at the
  top row with rocks in hand, but that cannot happen: a segment never
  holds more than two rocks per cell.)
- **`GeneratedBoardReadBack`**: in the pipe, the solver never fails on the
  generator's output, and it loads exactly the board the generator made.
  The header order (`nc nr` in `Marshal`, `&nc, &nr` in `Unmarshal`) is
  where this can break. A swap of `ncol` and `nrow` when `-d` is read is
  not caught: the generator then makes a transposed board, which still
  round-trips.

Why these bounds are enough: three rows give a column with a table between
two rocks, and segments of one to three cells holding up to six rocks (odd
and even). Two columns show that the interleaved row-by-row loop keeps each
column's accumulator separate. Headers off by one reach every rejection in
`Unmarshal`, and zero or negative row counts reach both panics. The 2x5
generator board is the smallest size on which `Random` places a table.
Nothing runs concurrently, so no fairness is assumed. The program ends, so
deadlock checking is off.

## Findings

Each finding is a violation TLC finds. Each one disagrees with `spec.md`, with
the code's own comments, or with what the program is evidently for. Details
and traces are in PROJECT.json `findings`.

Go cache:

1. **Early eviction.** `deleteExpiredEntries` does not compare the entry's
   current deadline. A Put between the log take and the sweep is evicted at
   the old deadline. `EvictOnlyExpired` constrains only `Sweep` steps (a
   client's Remove is a legitimate deletion). TLC's trace is `Put(k1, 1)` and its
   notify, the purger's wakeup, a tick, the log take, `Put(k1, 2)`, and then a
   `Sweep` at time 1 that deletes `k1`.
2. **Lost wakeup.** Clients compare against a `nextPurgeTime` the purger has
   not yet republished. A skipped notify leaves an entry in the cache forever.

Index server:

3. **New dependencies not recorded** (`index_server.go:161`). Re-indexing
   with added dependencies but none dropped returns OK early, so a later
   REMOVE of the new dependency succeeds.
4. **Lost request across a graceful restart** (`main.go:59`). The shutdown
   backup is taken as soon as the listener closes, while a handler still
   answers its last request OK.

Java ExpireMap:

5. **put of an existing key throws and loses it** (`part_001:151`). The
   trace is `put(k1, 1)`, `put(k1, 1)` before the new worker has run. The
   second put removes the entry and queues its del event. It then reads
   `timeouts.get(0)` on the still-empty list, throws
   `IndexOutOfBoundsException`, and leaves `k1` absent. This is
   `ImplementsExpireMap` failing: the step is neither a put nor a remove of
   the contract.
6. **The worker dies and expiry stops** (`part_001:267`). A re-put sends no
   signal, because of the reference comparison. The worker then times out,
   pops the head bucket (line 363) and only afterwards replays the queued del
   event for that bucket. The del reads `timeouts.get(0)` on the empty list
   and throws out of `run()`. `worker` stays non-null, so no later `put`
   starts a new worker, and every later entry outlives its deadline.

Elevator simulator:

7. **Hang at shutdown** (`elevator.go:382`). The scheduler's blocking exit
   send finds an elevator's `schedChan` full, and that elevator is blocked
   sending its status into the full `statusChan`. The scheduler reads
   `statusChan` only after all exit commands are sent, so `main` never
   returns.

Defects visible in the code that have no run:
- Go cache: expiry never decrements `cacheSize`, so the log-size limit
  drifts up.
- Go cache: Put, Remove or Close after Close panics. The model still makes
  these calls set `panicked`.
- Index server (`index_server.go:205`): a failing re-INDEX of a package with
  dependents runs `removePkgAndParent`, which dereferences the entry it has
  just deleted, and the server panics. The trace is `INDEX a||`, `INDEX b|a`,
  `INDEX a|c` with `c` unknown. `IndexRegistry` models the step (the panic
  flag ends the process), but no run asserts that it never happens.
- Board game (`main.go:56`, `main.go:109`): a header with zero rows, such as
  `3 0`, is accepted by `Unmarshal`. `Marshal` and `Run` then read
  `b.data[0]` of the empty slice and panic; a negative row count panics in
  `make`. `bg_run` reaches `pc = "panic"` from these inputs.

## Not modelled, and why

- In the Go cache:
  - `Get`, `Size` and `GetContent` only read under the read lock;
  - `keyOperPool` is memory reuse with no effect on behaviour;
  - deadlines are small naturals, so int64 overflow of `now + timeout` is
    not represented (it is listed as a hazard).
- In the index server:
  - QUERY only reads under the lock;
  - socket I/O and text parsing are abstracted to a request per step, with a
    package set and a dependency set.
- In the elevator:
  - logging, `Status()` and `que2Str` only read or format;
  - command-line parsing only picks `nfloor`, `nelevator` and the
    simulation time, which are CONSTANTS;
  - a floor left blocked on a full `pickupReqChan` at shutdown has no
    observable effect, because the process ends with `main` (listed as a
    hazard).
- In the index server, two questions the code raises have no run:
  - whether the restore picks the latest snapshot, when two backup
    goroutines finish out of order (`part_003:20`);
  - whether shutdown completes, when a handler is blocked in `ReadString`
    on an idle client (`index_server.go:62`).
- In the Java ExpireMap:
  - `get` and `size` only read under the lock;
  - `finalize` and the shutdown hook call `shutdown`;
  - `unitTests` and `main` drive the map with sleeps;
  - thread interrupts are not modelled: no code interrupts the worker.
- In the board game:
  - `Random` is modelled by the set of boards it can return; the seed and
    the distribution are not modelled;
  - the nil check in `Marshal` never returns in `main`, because `Unmarshal`
    and `Random` always set `b.data`;
  - a last row without a newline reads like a missing row and is rejected.
    The enumerated texts reach that rejection through a header with one row
    too many;
  - `game_test.go` checks three fixed boards. `bg_run` checks those shapes
    and every other board of that size.
- The Java ExpireCache (`part_002`) is not modelled. It implements the same
  interface as the Java ExpireMap and the Go cache, which are modelled. Its
  own mechanisms are the coalescing pending map, the volatile
  `nextWakeupTime` read outside the lock, and the worker that exits when idle
  and sets `worker = null` outside the lock. A faithful model needs the
  ExpireMap's ladder plus those three, and checking it against
  `ExpireMapSpec` needs a run of its own. Its hazards are listed in
  PROJECT.json, each with that note.
- LogServer is not modelled. Its acceptor, socket handlers, processors and
  file writer are I/O around one shared `AtomicBitSet`.
- Quiz and webnmap are string processing and I/O.

## Plan for the remaining work

1. **`JavaExpireCache`** (part_002): the coalescing pending map, the volatile
   `nextWakeupTime`, and the idle worker exit with `worker = null` outside
   the lock, checked against `ExpireMapSpec` like `JavaExpireMap`.
2. **LogServer**: the handlers and processors sharing the `AtomicBitSet` of
   seen numbers.
