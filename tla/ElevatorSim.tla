---------------------------- MODULE ElevatorSim ----------------------------
(***************************************************************************)
(* The elevator simulator of src/elevator/elevator.go: one scheduler,     *)
(* one goroutine per elevator and per floor, and main, talking over Go    *)
(* channels whose capacities are those the code makes:                    *)
(*   pickupReqChan  floors -> scheduler     cap NFloors                   *)
(*   statusChan     elevators -> scheduler  cap NElevs                    *)
(*   schedChan[e]   scheduler -> elevator e cap NFloors                   *)
(*   exitChan[f]    both ways, floor f      cap 1                         *)
(*   exitChan       main <-> scheduler      unbuffered (a rendezvous)     *)
(* Time is a clock of whole seconds: the scheduler's ticker delivers at   *)
(* most one tick per second (time.Tick keeps one), an elevator's move     *)
(* takes until the next second, and main sleeps MaxSecs seconds.  A       *)
(* floor's random wait (0-3 s) may end at any moment.                     *)
(***************************************************************************)
EXTENDS Integers, Sequences, FiniteSets, Functions

CONSTANTS
    NFloors,     \* floors 0..NFloors-1
    NElevs,      \* elevators 0..NElevs-1
    MaxRiders,   \* bound on the riders the floors generate
    MaxSecs      \* seconds main lets the simulation run

ASSUME NFloors >= 2 /\ NElevs >= 1 /\ MaxRiders \in Nat /\ MaxSecs \in Nat

Floors == 0..(NFloors - 1)
Elevs == 0..(NElevs - 1)

\* A Rider{pickupFloor, goalFloor}; {-1,-1} is the exit command.
ExitCmd == [pickup |-> -1, goal |-> -1]
Rider == [pickup : Floors, goal : Floors]
\* Floors only send riders with goal # pickup; the scheduler's jump
\* commands have goal = pickup.
IsRealRider(r) == r.pickup # r.goal /\ r.pickup # -1

VARIABLES
    pickupCh,    \* s.pickupReqChan
    statusCh,    \* s.elevStatusChan: [id, cur, goal]
    schedCh,     \* schedCh[e]: elevator e's schedChan
    floorExit,   \* tokens in floor f's exitChan (0 or 1)
    cur, goal, dir, local, \* per elevator: currFloor, goalFloor, direction, localSched
    epc,         \* elevator: "recv", "moving", "status", "exit", "done"
    fpc, fgoal,  \* floor: "select", "send", "exitSend", "done"; the rider's goal
    spc,         \* scheduler: "loop", "dispatch", "exitElev", "exitFloor",
                 \*            "waitElev", "waitFloor", "notify", "done"
    elevStatus,  \* s.elevStatus: the scheduler's view [cur, goal] per elevator
    waitUp, waitDown, \* s.waitUpQue, s.waitDownQue: goal floors per pickup floor
    plan,        \* the sends schedule() still has to make: [to, r]
    loopI,       \* index of the scheduler's exit loops
    exited,      \* exitElev: elevator exits counted by the scheduler
    mpc,         \* main: "sleep", "sendExit", "recvExit", "done"
    tickReady,   \* a tick is buffered in s.schedTickChan
    secs,        \* seconds elapsed, up to MaxSecs
    riders,      \* riders generated so far
    absorbed     \* ghost: riders received into an elevator's localSched

vars == <<pickupCh, statusCh, schedCh, floorExit, cur, goal, dir, local, epc,
          fpc, fgoal, spc, elevStatus, waitUp, waitDown, plan, loopI, exited,
          mpc, tickReady, secs, riders, absorbed>>
elevVars == <<cur, goal, dir, local, epc>>
floorVars == <<fpc, fgoal>>
schedVars == <<spc, elevStatus, waitUp, waitDown, plan, loopI, exited>>
timeVars == <<tickReady, secs>>

\* The program is running until main returns.
Running == mpc # "done"

-----------------------------------------------------------------------------
(* Elevator goroutine                                                      *)

\* Elevator.schedule: the next scheduled floor above and below, then keep
\* the direction while it has work, reverse, or go idle.
NextUp(e, cf, ls) ==
    LET up == {f \in ls : f > cf} IN
    IF up = {} THEN -1 ELSE CHOOSE f \in up : \A g \in up : f <= g
NextDown(e, cf, ls) ==
    LET dn == {f \in ls : f < cf} IN
    IF dn = {} THEN -1 ELSE CHOOSE f \in dn : \A g \in dn : f >= g

\* Mutant: reversing keeps the old direction.
ElevScheduleNoReverse(e, cf, gf, d, ls) ==
    LET u == NextUp(e, cf, ls)
        w == NextDown(e, cf, ls)
    IN CASE d > 0 /\ u >= 0 -> [goal |-> u, dir |-> d]
         [] d > 0 /\ w >= 0 -> [goal |-> w, dir |-> d]
         [] d < 0 /\ w >= 0 -> [goal |-> w, dir |-> d]
         [] d < 0 /\ u >= 0 -> [goal |-> u, dir |-> d]
         [] d = 0 /\ u >= 0 -> [goal |-> u, dir |-> 1]
         [] d = 0 /\ w >= 0 -> [goal |-> w, dir |-> -1]
         [] OTHER -> [goal |-> gf, dir |-> 0]

\* Returns [goal, dir] for an elevator at cf with direction d.
ElevSchedule(e, cf, gf, d, ls) ==
    LET u == NextUp(e, cf, ls)
        w == NextDown(e, cf, ls)
    IN CASE d > 0 /\ u >= 0 -> [goal |-> u, dir |-> d]
         [] d > 0 /\ w >= 0 -> [goal |-> w, dir |-> -1]
         [] d < 0 /\ w >= 0 -> [goal |-> w, dir |-> d]
         [] d < 0 /\ u >= 0 -> [goal |-> u, dir |-> 1]
         [] d = 0 /\ u >= 0 -> [goal |-> u, dir |-> 1]
         [] d = 0 /\ w >= 0 -> [goal |-> w, dir |-> -1]
         [] OTHER -> [goal |-> gf, dir |-> 0]

\* Elevator.WillMove
WillMove(e) == cur[e] # goal[e] \/ local[e] # {}

\* The schedcmd loop receives one command: the exit command ends the
\* elevator loop, a rider marks both its floors in localSched.
ElevRecv(e) ==
    /\ epc[e] = "recv"
    /\ schedCh[e] # <<>>
    /\ LET r == Head(schedCh[e]) IN
       /\ schedCh' = [schedCh EXCEPT ![e] = Tail(@)]
       /\ IF r = ExitCmd
          THEN /\ epc' = [epc EXCEPT ![e] = "exit"]
               /\ UNCHANGED <<local, absorbed>>
          ELSE /\ local' = [local EXCEPT ![e] = @ \cup {r.pickup, r.goal}]
               /\ absorbed' = IF IsRealRider(r) THEN absorbed + 1 ELSE absorbed
               /\ UNCHANGED epc
    /\ UNCHANGED <<pickupCh, statusCh, floorExit, cur, goal, dir, floorVars,
                   schedVars, mpc, timeVars, riders>>

\* Mutant: on reaching the goal, every floor behind the elevator counts as
\* served and is cleared with it.
ArriveDropBehind(cf, gf, d, ls) ==
    IF cf = gf
    THEN LET ls2 == {f \in ls : (f - cf) * d > 0}
             s == ElevSchedule(0, cf, gf, d, ls2)
         IN [cur |-> cf, goal |-> s.goal, dir |-> s.dir, local |-> ls2]
    ELSE [cur |-> cf, goal |-> gf, dir |-> d, local |-> ls]

\* The goal check after the move: on reaching the goal, clear it from
\* localSched and schedule again.
Arrive(cf, gf, d, ls) ==
    IF cf = gf
    THEN LET ls2 == ls \ {gf}
             s == ElevSchedule(0, cf, gf, d, ls2)
         IN [cur |-> cf, goal |-> s.goal, dir |-> s.dir, local |-> ls2]
    ELSE [cur |-> cf, goal |-> gf, dir |-> d, local |-> ls]

\* schedChan is empty and the elevator will move: leave the schedcmd loop
\* and run schedule().  A move (GoUpOneFloor, GoDownOneFloor) sleeps until
\* the next second, where Second completes it; with direction 0 there is
\* no move and the goal check follows at once.
ElevGo(e) ==
    /\ epc[e] = "recv"
    /\ schedCh[e] = <<>>
    /\ WillMove(e)
    /\ LET s == ElevSchedule(e, cur[e], goal[e], dir[e], local[e])
           a == Arrive(cur[e], s.goal, s.dir, local[e])
       IN IF s.dir # 0
          THEN /\ goal' = [goal EXCEPT ![e] = s.goal]
               /\ dir' = [dir EXCEPT ![e] = s.dir]
               /\ epc' = [epc EXCEPT ![e] = "moving"]
               /\ UNCHANGED local
          ELSE /\ goal' = [goal EXCEPT ![e] = a.goal]
               /\ dir' = [dir EXCEPT ![e] = a.dir]
               /\ local' = [local EXCEPT ![e] = a.local]
               /\ epc' = [epc EXCEPT ![e] = "status"]
    /\ UNCHANGED <<pickupCh, statusCh, schedCh, floorExit, cur,
                   floorVars, schedVars, mpc, timeVars, riders, absorbed>>

\* The status report of line 122 (blocking send).
ElevStatus(e) ==
    /\ epc[e] = "status"
    /\ Len(statusCh) < NElevs
    /\ statusCh' = Append(statusCh, [id |-> e, cur |-> cur[e], goal |-> goal[e]])
    /\ epc' = [epc EXCEPT ![e] = "recv"]
    /\ UNCHANGED <<pickupCh, schedCh, floorExit, cur, goal, dir, local,
                   floorVars, schedVars, mpc, timeVars, riders, absorbed>>

\* "tell scheduler i exits"
ElevExit(e) ==
    /\ epc[e] = "exit"
    /\ Len(statusCh) < NElevs
    /\ statusCh' = Append(statusCh, [id |-> e, cur |-> -1, goal |-> -1])
    /\ epc' = [epc EXCEPT ![e] = "done"]
    /\ UNCHANGED <<pickupCh, schedCh, floorExit, cur, goal, dir, local,
                   floorVars, schedVars, mpc, timeVars, riders, absorbed>>

ElevStep(e) == ElevRecv(e) \/ ElevGo(e) \/ ElevStatus(e) \/ ElevExit(e)

-----------------------------------------------------------------------------
(* Floor goroutines                                                        *)

\* The select takes the scheduler's exit token.
FloorExitRecv(f) ==
    /\ fpc[f] = "select"
    /\ floorExit[f] = 1
    /\ floorExit' = [floorExit EXCEPT ![f] = 0]
    /\ fpc' = [fpc EXCEPT ![f] = "exitSend"]
    /\ UNCHANGED <<pickupCh, statusCh, schedCh, elevVars, fgoal, schedVars,
                   mpc, timeVars, riders, absorbed>>

\* Mutant: the goal is drawn with rand.Intn(f.numFloor + 1), one floor too many.
FloorTimerOffByOne(f) ==
    /\ fpc[f] = "select"
    /\ riders < MaxRiders
    /\ \E g \in (Floors \cup {NFloors}) \ {f} :
          /\ fgoal' = [fgoal EXCEPT ![f] = g]
          /\ fpc' = [fpc EXCEPT ![f] = "send"]
    /\ riders' = riders + 1
    /\ UNCHANGED <<pickupCh, statusCh, schedCh, floorExit, elevVars, schedVars,
                   mpc, timeVars, absorbed>>

\* The random wait ends and the floor draws a goal; a goal equal to the
\* floor sends nothing and changes nothing, so only the others are steps.
FloorTimer(f) ==
    /\ fpc[f] = "select"
    /\ riders < MaxRiders
    /\ \E g \in Floors \ {f} :
          /\ fgoal' = [fgoal EXCEPT ![f] = g]
          /\ fpc' = [fpc EXCEPT ![f] = "send"]
    /\ riders' = riders + 1
    /\ UNCHANGED <<pickupCh, statusCh, schedCh, floorExit, elevVars, schedVars,
                   mpc, timeVars, absorbed>>

\* f.pickupReqChan <- &Rider{f.id, goalFloor} (blocking send)
FloorSend(f) ==
    /\ fpc[f] = "send"
    /\ Len(pickupCh) < NFloors
    /\ pickupCh' = Append(pickupCh, [pickup |-> f, goal |-> fgoal[f]])
    /\ fpc' = [fpc EXCEPT ![f] = "select"]
    /\ UNCHANGED <<statusCh, schedCh, floorExit, elevVars, fgoal, schedVars,
                   mpc, timeVars, riders, absorbed>>

\* "tell scheduler i exits": the token goes back on the same channel.
FloorExitSend(f) ==
    /\ fpc[f] = "exitSend"
    /\ floorExit[f] = 0
    /\ floorExit' = [floorExit EXCEPT ![f] = 1]
    /\ fpc' = [fpc EXCEPT ![f] = "done"]
    /\ UNCHANGED <<pickupCh, statusCh, schedCh, elevVars, fgoal, schedVars,
                   mpc, timeVars, riders, absorbed>>

FloorStep(f) ==
    FloorExitRecv(f) \/ FloorTimer(f) \/ FloorSend(f) \/ FloorExitSend(f)

-----------------------------------------------------------------------------
(* Scheduler.schedule: the sends one tick makes.  The queues and           *)
(* elevStatus belong to the scheduler goroutine alone, so the plan is      *)
(* computed at once and the blocking sends are made one at a time.         *)

\* numWaitUp, numWaitDown
QueueLen(q) == FoldFunction(LAMBDA gs, n : Len(gs) + n, 0, q)

\* The sends of the riders waiting at floor i to elevator e.
Assign(e, i, gs) == [j \in 1..Len(gs) |-> [to |-> e, r |-> [pickup |-> i, goal |-> gs[j]]]]

\* Mutant: a floor's queue is sent but not cleared.
RECURSIVE SweepFloorsNoClear(_, _, _, _)
SweepFloorsNoClear(st, e, i, step) ==
    IF i \notin Floors \/ st.n = 0 THEN st
    ELSE SweepFloorsNoClear([q |-> st.q,
                             n |-> st.n - Len(st.q[i]),
                             plan |-> st.plan \o Assign(e, i, st.q[i])], e, i + step, step)

\* The inner loop: from the elevator's floor in direction step while
\* riders are left, send a floor's queue and clear it.
RECURSIVE SweepFloors(_, _, _, _)
SweepFloors(st, e, i, step) ==
    IF i \notin Floors \/ st.n = 0 THEN st
    ELSE SweepFloors([q |-> [st.q EXCEPT ![i] = <<>>],
                      n |-> st.n - Len(st.q[i]),
                      plan |-> st.plan \o Assign(e, i, st.q[i])], e, i + step, step)

\* for _, el := range elevs
RECURSIVE SweepElevs(_, _, _)
SweepElevs(st, es, step) ==
    IF es = <<>> THEN st
    ELSE SweepElevs(SweepFloors(st, Head(es), elevStatus[Head(es)].cur, step),
                    Tail(es), step)

\* The switch that sorts elevators by their last status.
ElevClass(c, g) == CASE g > c -> "up" [] g < c -> "down" [] OTHER -> "idle"

\* upElevs, downElevs, idleElevs: in index order.
ElevsGoing(kind) ==
    SelectSeq([i \in 1..NElevs |-> i - 1],
              LAMBDA e : ElevClass(elevStatus[e].cur, elevStatus[e].goal) = kind)

\* One direction: the elevators heading that way, then, if riders are
\* still waiting, the idle ones.
SweepPass(q, busy, idle, step) ==
    LET st0 == [q |-> q, n |-> QueueLen(q), plan |-> <<>>]
        st1 == SweepElevs(st0, busy, step)
    IN IF st0.n = 0 THEN st0
       ELSE IF st1.n > 0 THEN SweepElevs(st1, idle, step) ELSE st1

\* jumpBot, jumpTop: the lowest floor with riders left going up, the
\* highest with riders left going down (0 when none).
JumpBot(q) == IF \E i \in Floors : q[i] # <<>>
              THEN CHOOSE i \in Floors : q[i] # <<>> /\ \A j \in Floors : q[j] # <<>> => i <= j
              ELSE 0
JumpTop(q) == IF \E i \in Floors : q[i] # <<>>
              THEN CHOOSE i \in Floors : q[i] # <<>> /\ \A j \in Floors : q[j] # <<>> => i >= j
              ELSE 0

\* Idle elevators are sent to the riders no one took; a second jump
\* needs a second idle elevator.
Jumps(up, down, idle) ==
    LET j1 == IF Len(idle) > 0 /\ up.n > 0
              THEN <<[to |-> idle[1], r |-> [pickup |-> JumpBot(up.q), goal |-> JumpBot(up.q)]]>>
              ELSE <<>>
        pos == Len(j1) + 1
        j2 == IF Len(idle) > 1 /\ down.n > 0
              THEN <<[to |-> idle[pos], r |-> [pickup |-> JumpTop(down.q), goal |-> JumpTop(down.q)]]>>
              ELSE <<>>
    IN j1 \o j2

\* The whole of schedule(): the queues it leaves and the sends it makes.
Schedule ==
    LET upE == ElevsGoing("up")
        downE == ElevsGoing("down")
        idleE == ElevsGoing("idle")
        up == SweepPass(waitUp, upE, idleE, 1)
        down == SweepPass(waitDown, downE, idleE, -1)
    IN [up |-> up.q, down |-> down.q, plan |-> up.plan \o down.plan \o Jumps(up, down, idleE)]

-----------------------------------------------------------------------------
(* Scheduler goroutine: the select of Scheduler.Run, then the exit steps   *)

\* case <-s.exitChan: main's send meets the scheduler's receive.
SchedRecvExit ==
    /\ spc = "loop" /\ mpc = "sendExit"
    /\ spc' = "exitElev" /\ loopI' = 0 /\ mpc' = "recvExit"
    /\ UNCHANGED <<pickupCh, statusCh, schedCh, floorExit, elevVars, floorVars,
                   elevStatus, waitUp, waitDown, plan, exited, timeVars,
                   riders, absorbed>>

\* case <-s.schedTickChan: run schedule().
SchedTick ==
    /\ spc = "loop" /\ tickReady
    /\ LET s == Schedule IN
       /\ waitUp' = s.up /\ waitDown' = s.down /\ plan' = s.plan
       /\ spc' = IF s.plan = <<>> THEN "loop" ELSE "dispatch"
    /\ tickReady' = FALSE
    /\ UNCHANGED <<pickupCh, statusCh, schedCh, floorExit, elevVars, floorVars,
                   elevStatus, loopI, exited, mpc, secs, riders, absorbed>>

\* The blocking sends el.schedChan <- rider of schedule(), in order.
SchedDispatch ==
    /\ spc = "dispatch"
    /\ LET h == Head(plan) IN
       /\ Len(schedCh[h.to]) < NFloors
       /\ schedCh' = [schedCh EXCEPT ![h.to] = Append(@, h.r)]
    /\ plan' = Tail(plan)
    /\ spc' = IF Tail(plan) = <<>> THEN "loop" ELSE "dispatch"
    /\ UNCHANGED <<pickupCh, statusCh, floorExit, elevVars, floorVars,
                   elevStatus, waitUp, waitDown, loopI, exited, mpc, timeVars,
                   riders, absorbed>>

\* case st := <-s.elevStatusChan
SchedRecvStatus ==
    /\ spc = "loop" /\ statusCh # <<>>
    /\ LET st == Head(statusCh) IN
       elevStatus' = [elevStatus EXCEPT ![st.id] = [cur |-> st.cur, goal |-> st.goal]]
    /\ statusCh' = Tail(statusCh)
    /\ UNCHANGED <<pickupCh, schedCh, floorExit, elevVars, floorVars, spc,
                   waitUp, waitDown, plan, loopI, exited, mpc, timeVars,
                   riders, absorbed>>

\* case r := <-s.pickupReqChan: queue the rider by direction.
SchedRecvPickup ==
    /\ spc = "loop" /\ pickupCh # <<>>
    /\ LET r == Head(pickupCh) IN
       IF r.goal - r.pickup > 0
       THEN /\ waitUp' = [waitUp EXCEPT ![r.pickup] = Append(@, r.goal)]
            /\ UNCHANGED waitDown
       ELSE /\ waitDown' = [waitDown EXCEPT ![r.pickup] = Append(@, r.goal)]
            /\ UNCHANGED waitUp
    /\ pickupCh' = Tail(pickupCh)
    /\ UNCHANGED <<statusCh, schedCh, floorExit, elevVars, floorVars, spc,
                   elevStatus, plan, loopI, exited, mpc, timeVars, riders,
                   absorbed>>

\* Step 1: el.schedChan <- &Rider{-1, -1} for every elevator in turn.
SchedExitElev ==
    /\ spc = "exitElev"
    /\ Len(schedCh[loopI]) < NFloors
    /\ schedCh' = [schedCh EXCEPT ![loopI] = Append(@, ExitCmd)]
    /\ loopI' = IF loopI + 1 = NElevs THEN 0 ELSE loopI + 1
    /\ spc' = IF loopI + 1 = NElevs THEN "exitFloor" ELSE "exitElev"
    /\ UNCHANGED <<pickupCh, statusCh, floorExit, elevVars, floorVars,
                   elevStatus, waitUp, waitDown, plan, exited, mpc, timeVars,
                   riders, absorbed>>

\* Step 2: ech <- true for every floor in turn.
SchedExitFloor ==
    /\ spc = "exitFloor"
    /\ floorExit[loopI] = 0
    /\ floorExit' = [floorExit EXCEPT ![loopI] = 1]
    /\ loopI' = IF loopI + 1 = NFloors THEN 0 ELSE loopI + 1
    /\ spc' = IF loopI + 1 = NFloors THEN "waitElev" ELSE "exitFloor"
    /\ UNCHANGED <<pickupCh, statusCh, schedCh, elevVars, floorVars,
                   elevStatus, waitUp, waitDown, plan, exited, mpc, timeVars,
                   riders, absorbed>>

\* Step 3: range over elevStatusChan counting exit reports.
SchedWaitElev ==
    /\ spc = "waitElev"
    /\ statusCh # <<>>
    /\ LET isExit == Head(statusCh).cur = -1 /\ Head(statusCh).goal = -1 IN
       /\ exited' = IF isExit THEN exited + 1 ELSE exited
       /\ spc' = IF isExit /\ exited + 1 >= NElevs THEN "waitFloor" ELSE "waitElev"
    /\ statusCh' = Tail(statusCh)
    /\ UNCHANGED <<pickupCh, schedCh, floorExit, elevVars, floorVars,
                   elevStatus, waitUp, waitDown, plan, loopI, mpc, timeVars,
                   riders, absorbed>>

\* Step 4: <-ech for every floor in turn; any token in the channel will do.
SchedWaitFloor ==
    /\ spc = "waitFloor"
    /\ floorExit[loopI] = 1
    /\ floorExit' = [floorExit EXCEPT ![loopI] = 0]
    /\ loopI' = IF loopI + 1 = NFloors THEN 0 ELSE loopI + 1
    /\ spc' = IF loopI + 1 = NFloors THEN "notify" ELSE "waitFloor"
    /\ UNCHANGED <<pickupCh, statusCh, schedCh, elevVars, floorVars,
                   elevStatus, waitUp, waitDown, plan, exited, mpc, timeVars,
                   riders, absorbed>>

\* s.exitChan <- true meets main's final receive; main returns.
SchedNotify ==
    /\ spc = "notify" /\ mpc = "recvExit"
    /\ spc' = "done" /\ mpc' = "done"
    /\ UNCHANGED <<pickupCh, statusCh, schedCh, floorExit, elevVars, floorVars,
                   elevStatus, waitUp, waitDown, plan, loopI, exited, timeVars,
                   riders, absorbed>>

SchedStep ==
    \/ SchedRecvExit \/ SchedTick \/ SchedDispatch \/ SchedRecvStatus
    \/ SchedRecvPickup \/ SchedExitElev \/ SchedExitFloor \/ SchedWaitElev
    \/ SchedWaitFloor \/ SchedNotify

-----------------------------------------------------------------------------
(* main and the clock                                                      *)

\* time.Sleep(simuSeconds) is over: main goes on to exitChan <- true.
MainWake ==
    /\ mpc = "sleep" /\ secs = MaxSecs
    /\ mpc' = "sendExit"
    /\ UNCHANGED <<pickupCh, statusCh, schedCh, floorExit, elevVars, floorVars,
                   schedVars, timeVars, riders, absorbed>>

\* A second passes: the ticker offers a tick (one is kept), and every
\* elevator sleeping in a move arrives one floor on and checks its goal.
Second ==
    /\ tickReady' = TRUE
    /\ secs' = IF secs < MaxSecs THEN secs + 1 ELSE secs
    /\ LET moved(e) == Arrive(cur[e] + dir[e], goal[e], dir[e], local[e])
           after(e) == IF epc[e] = "moving" THEN moved(e)
                       ELSE [cur |-> cur[e], goal |-> goal[e], dir |-> dir[e], local |-> local[e]]
       IN /\ cur' = [e \in Elevs |-> after(e).cur]
          /\ goal' = [e \in Elevs |-> after(e).goal]
          /\ dir' = [e \in Elevs |-> after(e).dir]
          /\ local' = [e \in Elevs |-> after(e).local]
          /\ epc' = [e \in Elevs |-> IF epc[e] = "moving" THEN "status" ELSE epc[e]]
    /\ UNCHANGED <<pickupCh, statusCh, schedCh, floorExit, floorVars, schedVars,
                   mpc, riders, absorbed>>

-----------------------------------------------------------------------------
(* The program: NewScheduler starts the goroutines; all of them end when  *)
(* main returns.                                                           *)

Init ==
    /\ pickupCh = <<>> /\ statusCh = <<>>
    /\ schedCh = [e \in Elevs |-> <<>>]
    /\ floorExit = [f \in Floors |-> 0]
    /\ cur = [e \in Elevs |-> 0] /\ goal = [e \in Elevs |-> 0]
    /\ dir = [e \in Elevs |-> 0] /\ local = [e \in Elevs |-> {}]
    /\ epc = [e \in Elevs |-> "recv"]
    /\ fpc = [f \in Floors |-> "select"] /\ fgoal = [f \in Floors |-> 0]
    /\ spc = "loop"
    /\ elevStatus = [e \in Elevs |-> [cur |-> 0, goal |-> 0]]
    /\ waitUp = [f \in Floors |-> <<>>] /\ waitDown = [f \in Floors |-> <<>>]
    /\ plan = <<>> /\ loopI = 0 /\ exited = 0
    /\ mpc = "sleep"
    /\ tickReady = FALSE /\ secs = 0
    /\ riders = 0 /\ absorbed = 0

\* After main returns nothing runs.
Terminated == mpc = "done" /\ UNCHANGED vars

Next ==
    \/ Running /\ \E e \in Elevs : ElevStep(e)
    \/ Running /\ \E f \in Floors : FloorStep(f)
    \/ Running /\ SchedStep
    \/ Running /\ MainWake
    \/ Running /\ Second
    \/ Terminated

Spec == Init /\ [][Next]_vars

\* Every goroutine runs when it can (the Go scheduler), and a select case
\* that stays ready is taken eventually (select picks among ready cases
\* at random); time passes.  A floor is not obliged to generate riders.
Fairness ==
    /\ \A e \in Elevs : WF_vars(Running /\ ElevStep(e))
    /\ \A f \in Floors : /\ WF_vars(Running /\ FloorExitRecv(f))
                         /\ WF_vars(Running /\ FloorSend(f))
                         /\ WF_vars(Running /\ FloorExitSend(f))
    /\ WF_vars(Running /\ SchedRecvExit) /\ WF_vars(Running /\ SchedTick)
    /\ WF_vars(Running /\ SchedRecvStatus) /\ WF_vars(Running /\ SchedRecvPickup)
    /\ WF_vars(Running /\ (SchedDispatch \/ SchedExitElev \/ SchedExitFloor
                           \/ SchedWaitElev \/ SchedWaitFloor \/ SchedNotify))
    /\ WF_vars(Running /\ MainWake)
    /\ WF_vars(Running /\ Second)

LiveSpec == Spec /\ Fairness

-----------------------------------------------------------------------------
(* Properties                                                              *)

StatusMsg == [id : Elevs, cur : Floors \cup {-1}, goal : Floors \cup {-1}]
Cmd == Rider \cup {ExitCmd}

TypeOK ==
    /\ pickupCh \in Seq(Rider) /\ Len(pickupCh) <= NFloors
    /\ statusCh \in Seq(StatusMsg) /\ Len(statusCh) <= NElevs
    /\ \A e \in Elevs : schedCh[e] \in Seq(Cmd) /\ Len(schedCh[e]) <= NFloors
    /\ floorExit \in [Floors -> 0..1]
    /\ cur \in [Elevs -> Floors] /\ goal \in [Elevs -> Floors]
    /\ dir \in [Elevs -> -1..1] /\ local \in [Elevs -> SUBSET Floors]
    /\ epc \in [Elevs -> {"recv", "moving", "status", "exit", "done"}]
    /\ fpc \in [Floors -> {"select", "send", "exitSend", "done"}]
    /\ spc \in {"loop", "dispatch", "exitElev", "exitFloor", "waitElev",
                "waitFloor", "notify", "done"}
    /\ mpc \in {"sleep", "sendExit", "recvExit", "done"}
    /\ riders \in 0..MaxRiders /\ absorbed \in 0..riders

\* Elevator.schedule keeps an elevator's state coherent across every
\* receive, move and goal check: it has a direction exactly when it is
\* away from its goal, and then the goal is still in localSched and lies
\* in that direction.  Otherwise WillMove stays true with no move made, or
\* the elevator runs away from its goal to the end of the shaft.
ElevatorHeadsForGoal ==
    \A e \in Elevs :
        /\ (dir[e] = 0) = (cur[e] = goal[e])
        /\ cur[e] # goal[e] => goal[e] \in local[e] /\ (goal[e] - cur[e]) * dir[e] > 0

\* Riders held in a sequence of commands or sends (jump commands and the
\* exit command are not riders).
RidersIn(cs) == Len(SelectSeq(cs, IsRealRider))
PlanRiders == Len(SelectSeq(plan, LAMBDA h : IsRealRider(h.r)))
SchedChRiders == FoldFunction(LAMBDA cs, n : RidersIn(cs) + n, 0, schedCh)

\* No rider is lost or handed out twice between a floor and an elevator:
\* every rider generated is at its floor waiting to send, in
\* pickupReqChan, in a wait queue, among the sends schedule() still has to
\* make, in an elevator's schedChan, or in that elevator's localSched.
\* It fails if schedule() leaves a sent queue uncleared, clears one it
\* did not send, or miscounts numWaitUp across elevators.
RidersConserved ==
    riders = Cardinality({f \in Floors : fpc[f] = "send"}) + Len(pickupCh)
             + QueueLen(waitUp) + QueueLen(waitDown) + PlanRiders
             + SchedChRiders + absorbed

Cars == INSTANCE ElevatorCars WITH Cars <- Elevs, pos <- cur, requests <- local

\* Every elevator goroutine, through its schedcmd receives, schedule() and
\* the one-floor moves with their goal checks, behaves as an ElevatorCar:
\* it moves one floor per step only towards a floor in its localSched and
\* clears a floor from localSched only while standing at it.
CarsRefined == Cars!Spec

\* main's time.Sleep ends and the scheduler is told to exit; the program
\* must then return: every goroutine's blocking send eventually finds
\* room, so the simulation never hangs.
SimulationEnds == <>(mpc = "done")

=============================================================================
