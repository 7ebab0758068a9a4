--------------------------- MODULE IndexRegistry ---------------------------
(***************************************************************************)
(* The package index server of src/index-server: the registry of packages *)
(* and their dependencies (index_server.go, deps.go), the periodic and    *)
(* shutdown backups of the registry to JSON files and the restore at      *)
(* start-up (part_003), and the process life cycle of main.go: signal,    *)
(* final backup, wait for handlers, exit, and crashes.                    *)
(*                                                                         *)
(* Every request runs under the server's lock, so INDEX and REMOVE are    *)
(* atomic steps.  A backup marshals the registry under the lock and       *)
(* writes the file afterwards, so snapshots taken and files written are   *)
(* separate steps, and several backup goroutines may be in flight.        *)
(***************************************************************************)
EXTENDS Naturals, Sequences, FiniteSets

CONSTANTS
    Pkgs,          \* package names
    Conns,         \* client connections, one handler goroutine each
    MaxBackups,    \* bound on ticker-driven backups over the whole run
    MaxLives,      \* bound on process starts
    MaxDeps,       \* bound on the dependencies named by one INDEX request
    MaxReqs        \* bound on the requests served over the whole run

ASSUME MaxBackups \in Nat /\ MaxLives \in Nat \ {0} /\ MaxDeps \in Nat
       /\ MaxReqs \in Nat

\* The dependency lists a client may send.
DepLists == {D \in SUBSET Pkgs : Cardinality(D) <= MaxDeps}

VARIABLES
    idx,        \* the packages present in s.registry
    children,   \* children[p]: Deps.children of p (what p depends on)
    parent,     \* parent[p]: Deps.parent of p (who depends on p)
    declared,   \* ghost: the dependencies of the last INDEX of p answered OK
    up,         \* the process is running
    stopping,   \* SIGTERM/SIGINT received: listener and stopChan closed
    closed,     \* handlers that have exited (or will after their request)
    finalTaken, \* the accept goroutine has marshalled its final backup
    inflight,   \* backups marshalled and not yet written: [seq, snap]
    files,      \* backup files, oldest first: [seq, snap, intact]
    taken,      \* backups marshalled so far (a file's ModTime order key)
    lives,      \* process starts so far
    panicked,   \* history: a goroutine panicked and took the process down
    lastExit,   \* how the last run ended: "none", "graceful", "crash"
    exitSnap,   \* history: the registry when the process last exited
    reqs        \* requests served so far

vars == <<idx, children, parent, declared, up, stopping, closed, finalTaken,
          inflight, files, taken, lives, panicked, lastExit, exitSnap, reqs>>
regVars == <<idx, children, parent, declared>>

Reg == [idx : SUBSET Pkgs, children : [Pkgs -> SUBSET Pkgs],
        parent : [Pkgs -> SUBSET Pkgs], declared : [Pkgs -> SUBSET Pkgs]]
NoDeps == [p \in Pkgs |-> {}]
EmptyReg == [idx |-> {}, children |-> NoDeps, parent |-> NoDeps,
             declared |-> NoDeps]

\* The registry as json.Marshal sees it (the ghost rides along).
Current == [idx |-> idx, children |-> children, parent |-> parent,
            declared |-> declared]

\* The same, with the panic flag that removePkgAndParent may raise.
Working == [idx |-> idx, children |-> children, parent |-> parent,
            declared |-> declared, panic |-> FALSE]

-----------------------------------------------------------------------------
(* Registry operations, index_server.go                                    *)

\* removePkgAndParent: delete pkg, drop it from its children's parent sets,
\* then recurse into every package that depended on it.  A child that is no
\* longer in the registry makes `c := s.registry[cn]` nil and `c.parent` a
\* nil pointer dereference: the panic is recorded in r.panic.
\* A plausible bug: the dependents of pkg are not removed with it.
RemovePkgAndParentNoRecurse(r, p) ==
    IF r.panic \/ p \notin r.idx THEN r
    ELSE [r EXCEPT !.idx = @ \ {p},
                   !.parent = [q \in Pkgs |-> IF q \in r.children[p]
                                              THEN @[q] \ {p} ELSE @[q]]]

RECURSIVE RemovePkgAndParent(_, _), RemoveParents(_, _)
RemovePkgAndParent(r, p) ==
    IF r.panic \/ p \notin r.idx THEN r
    ELSE LET kids == r.children[p]
             r1 == [r EXCEPT !.idx = @ \ {p}]
             r2 == IF kids \subseteq r1.idx
                   THEN [r1 EXCEPT !.parent =
                           [q \in Pkgs |-> IF q \in kids THEN @[q] \ {p}
                                                         ELSE @[q]]]
                   ELSE [r1 EXCEPT !.panic = TRUE]
         IN RemoveParents(r2, r.parent[p])

RemoveParents(r, ps) ==
    IF ps = {} THEN r
    ELSE LET q == CHOOSE q \in ps : TRUE
         IN RemoveParents(RemovePkgAndParent(r, q), ps \ {q})

\* Forget the Deps of packages no longer in the registry (unreachable in
\* the code; a fresh Deps is made when the package is indexed again).
Prune(r) ==
    [r EXCEPT !.children = [q \in Pkgs |-> IF q \in r.idx THEN @[q] ELSE {}],
              !.parent = [q \in Pkgs |-> IF q \in r.idx THEN @[q] ELSE {}],
              !.declared = [q \in Pkgs |-> IF q \in r.idx THEN @[q] ELSE {}]]

SetReg(r) ==
    /\ idx' = r.idx
    /\ children' = r.children
    /\ parent' = r.parent
    /\ declared' = r.declared

\* A panicking handler ends the process: memory and in-flight backups go.
Panic ==
    /\ up' = FALSE
    /\ panicked' = TRUE
    /\ inflight' = {}
    /\ lastExit' = "crash"
    /\ UNCHANGED <<regVars, stopping, finalTaken, files, taken, lives,
                   exitSnap>>

\* index(pkg, depNames): FAIL on a missing dependency (removing pkg and its
\* dependents when pkg was indexed), else add pkg or replace its children.
\* The replacement returns OK early when no old child was dropped.
IndexResult(p, D) ==
    LET missing == D \ idx
        old == children[p]
        dropped == old \ D
    IN CASE missing # {} /\ p \in idx ->
              RemovePkgAndParent(Working, p)
         [] missing # {} ->
              Working
         [] p \in idx /\ dropped = {} ->
              [Working EXCEPT !.declared[p] = D]
         [] OTHER ->
              [idx |-> idx \cup {p},
               children |-> [children EXCEPT ![p] = D],
               parent |-> [q \in Pkgs |->
                             IF q \in dropped THEN parent[q] \ {p}
                             ELSE IF q \in D THEN parent[q] \cup {p}
                             ELSE IF q = p /\ p \notin idx THEN {}
                             ELSE parent[q]],
               declared |-> [declared EXCEPT ![p] = D],
               panic |-> FALSE]

\* A request is served by a live handler; after stopChan is closed the
\* handler serves the request it was reading and then exits.
Serving(c) ==
    /\ up
    /\ c \notin closed
    /\ reqs < MaxReqs
    /\ reqs' = reqs + 1
    /\ closed' = IF stopping THEN closed \cup {c} ELSE closed

Index(c, p, D) ==
    LET r == IndexResult(p, D)
    IN /\ Serving(c)
       /\ IF r.panic
          THEN Panic
          ELSE /\ SetReg(Prune(r))
               /\ UNCHANGED <<up, stopping, finalTaken, inflight, files, taken,
                              lives, panicked, lastExit, exitSnap>>

\* A plausible bug: the removed package stays in its children's parent sets.
RemoveNoCleanup(c, p) ==
    /\ Serving(c)
    /\ IF p \in idx /\ parent[p] = {}
       THEN SetReg(Prune([idx |-> idx \ {p}, children |-> children,
                          declared |-> declared, parent |-> parent]))
       ELSE UNCHANGED regVars
    /\ UNCHANGED <<up, stopping, finalTaken, inflight, files, taken, lives,
                   panicked, lastExit, exitSnap>>

\* remove(pkg): FAIL while some package depends on it; OK otherwise.
Remove(c, p) ==
    /\ Serving(c)
    /\ IF p \in idx /\ parent[p] = {}
       THEN SetReg(Prune([idx |-> idx \ {p}, children |-> children,
                          declared |-> declared,
                          parent |-> [q \in Pkgs |->
                                        IF q \in children[p] THEN parent[q] \ {p}
                                        ELSE parent[q]]]))
       ELSE UNCHANGED regVars
    /\ UNCHANGED <<up, stopping, finalTaken, inflight, files, taken, lives,
                   panicked, lastExit, exitSnap>>

-----------------------------------------------------------------------------
(* Backups (part_003) and the life cycle (main.go)                          *)

\* backupRegistry, first part: json.Marshal(s.registry) under the lock.
TakeSnapshot ==
    inflight' = inflight \cup {[seq |-> taken + 1, snap |-> Current]}

\* The ticker fires and main spawns a backup goroutine.
TickBackup ==
    /\ up /\ ~stopping
    /\ taken < MaxBackups
    /\ TakeSnapshot
    /\ taken' = taken + 1
    /\ UNCHANGED <<regVars, up, stopping, closed, finalTaken, files, lives,
                   panicked, lastExit, exitSnap, reqs>>

\* The accept goroutine, its listener closed, backs up the registry once.
AcceptExit ==
    /\ up /\ stopping /\ ~finalTaken
    /\ TakeSnapshot
    /\ taken' = taken + 1
    /\ finalTaken' = TRUE
    /\ UNCHANGED <<regVars, up, stopping, closed, files, lives, panicked,
                   lastExit, exitSnap, reqs>>

\* backupRegistry, second part: write the file (it becomes the newest by
\* ModTime), then keep at most two files by deleting the oldest.
WriteBackup ==
    /\ up
    /\ \E b \in inflight :
         LET fs == Append(files, [seq |-> b.seq, snap |-> b.snap,
                                  intact |-> TRUE])
         IN /\ inflight' = inflight \ {b}
            /\ files' = IF Len(fs) > 2 THEN Tail(fs) ELSE fs
    /\ UNCHANGED <<regVars, up, stopping, closed, finalTaken, taken, lives,
                   panicked, lastExit, exitSnap, reqs>>

\* A signal: l.Close(), tick.Stop(), close(stopChan).
Signal ==
    /\ up /\ ~stopping
    /\ stopping' = TRUE
    /\ UNCHANGED <<regVars, up, closed, finalTaken, inflight, files, taken,
                   lives, panicked, lastExit, exitSnap, reqs>>

\* A handler sees stopChan closed at the top of its loop (or its client
\* hangs up) and returns.
HandlerExit(c) ==
    /\ up /\ stopping /\ c \notin closed
    /\ closed' = closed \cup {c}
    /\ UNCHANGED <<regVars, up, stopping, finalTaken, inflight, files, taken,
                   lives, panicked, lastExit, exitSnap, reqs>>

\* wg.Wait() returns once the accept goroutine, every handler and every
\* backup goroutine is done; main returns.
Exit ==
    /\ up /\ stopping /\ finalTaken
    /\ inflight = {} /\ closed = Conns
    /\ up' = FALSE
    /\ lastExit' = "graceful"
    /\ exitSnap' = Current
    /\ UNCHANGED <<regVars, stopping, closed, finalTaken, inflight, files,
                   taken, lives, panicked, reqs>>

\* The process is killed; a backup being written is left truncated.
Crash ==
    /\ up
    /\ up' = FALSE
    /\ inflight' = {}
    /\ \/ files' = files
       \/ \E b \in inflight :
            files' = Append(files, [seq |-> b.seq, snap |-> b.snap,
                                    intact |-> FALSE])
    /\ lastExit' = "crash"
    /\ UNCHANGED <<regVars, stopping, closed, finalTaken, taken, lives,
                   panicked, exitSnap, reqs>>

\* restoreRegistry: the newest file that decodes, else an empty registry.
Intact == {i \in 1..Len(files) : files[i].intact}
Restored ==
    IF Intact = {} THEN EmptyReg
    ELSE files[CHOOSE i \in Intact : \A j \in Intact : j <= i].snap

\* NewServer at start-up, before the listener accepts anything.
Restart ==
    /\ ~up
    /\ lives < MaxLives
    /\ SetReg(Restored)
    /\ up' = TRUE
    /\ stopping' = FALSE
    /\ closed' = {}
    /\ finalTaken' = FALSE
    /\ lives' = lives + 1
    /\ UNCHANGED <<inflight, files, taken, panicked, lastExit, exitSnap, reqs>>

Init ==
    /\ idx = {} /\ children = NoDeps /\ parent = NoDeps /\ declared = NoDeps
    /\ up = TRUE
    /\ stopping = FALSE
    /\ closed = {}
    /\ finalTaken = FALSE
    /\ inflight = {}
    /\ files = <<>>
    /\ taken = 0
    /\ lives = 1
    /\ reqs = 0
    /\ panicked = FALSE
    /\ lastExit = "none"
    /\ exitSnap = EmptyReg

\* The last process has ended and no restart is left.
Halted == ~up /\ lives = MaxLives /\ UNCHANGED vars

Next ==
    \/ \E c \in Conns, p \in Pkgs, D \in DepLists : Index(c, p, D)
    \/ \E c \in Conns, p \in Pkgs : Remove(c, p)
    \/ TickBackup
    \/ AcceptExit
    \/ WriteBackup
    \/ Signal
    \/ \E c \in Conns : HandlerExit(c)
    \/ Exit
    \/ Crash
    \/ Restart
    \/ Halted

Spec == Init /\ [][Next]_vars

-----------------------------------------------------------------------------
(* Properties                                                              *)

\* A registry is consistent when every package's dependencies are indexed
\* and the parent sets are exactly the inverse of the children sets.
Consistent(r) ==
    /\ \A p \in r.idx : r.children[p] \subseteq r.idx
    /\ \A p, q \in Pkgs : q \in r.parent[p] <=> (q \in r.idx /\ p \in r.children[q])

\* index, remove and the recursive removePkgAndParent keep the parent and
\* children maps inverse to each other and closed under dependency, in
\* memory and in every backup file, across crashes and restores.
RegistryConsistent ==
    /\ Consistent(Current)
    /\ \A i \in 1..Len(files) : Consistent(files[i].snap)

\* Every dependency named in an INDEX that was answered OK is indexed while
\* the package is: REMOVE of a package something depends on must FAIL
\* (server_test.go TestRemove).
DeclaredDepsIndexed ==
    \A p \in idx : declared[p] \subseteq idx

\* After a graceful shutdown (signal, final backup, wg.Wait) a restart
\* brings back the registry the server had when it exited.
GracefulRestartKeepsRegistry ==
    [][lastExit = "graceful" /\ Restart => Restored = exitSnap]_vars

=============================================================================
