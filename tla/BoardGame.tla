------------------------------ MODULE BoardGame ------------------------------
(***************************************************************************)
(* The rock-falling simulation of src/board_game/main.go, one run of the   *)
(* program.  main either generates a random board (-d COLxROW) and writes  *)
(* it, or reads a board from stdin (Unmarshal), writes it back when -s is  *)
(* set (the default), lets the rocks fall (Run) and writes the result.     *)
(* Both modes are composed as in `main -d 2x5 | main`: the generator's     *)
(* output is the solver's stdin.                                           *)
(*                                                                         *)
(* A board is a record: its row and column counts and Board.data as a      *)
(* function of <<row, col>>, both counted from 0 as in the code.  A text   *)
(* is the header pair <<nc, nr>> (or BadHeader, which Fscanf rejects) and  *)
(* the newline-terminated lines after it, each a sequence of characters.   *)
(***************************************************************************)
EXTENDS Integers, Sequences, FiniteSets, Functions, TLC

CONSTANTS
    MaxRows,     \* largest row count of a board read from stdin
    MaxCols,     \* largest column count of a board read from stdin
    GenFlags,    \* values of -d: <<ncol, nrow>> as Sscanf reads them, or BadHeader
    BadHeader,   \* a header or flag that does not scan as two integers
    None         \* no value: Board.data before it is set, -d not given

VARIABLES
    pc,         \* where main is: "gen", "read", "dump", "run", "write", "done", "failed", "panic"
    genFlag,    \* *dataGenFlag
    dumpInput,  \* *dumpInputFlag
    stdin,      \* the text the solver reads
    data,       \* the board of game
    stdout,     \* texts written by Marshal, in order
    input,      \* history: the board as Unmarshal loaded it
    genData     \* history: the board the generator wrote into stdin

vars == <<pc, genFlag, dumpInput, stdin, data, stdout, input, genData>>

Table == -1
Vals == -1..2
Cells(nr, nc) == (0..nr-1) \X (0..nc-1)

\* The byte Marshal writes for a cell, and the value Unmarshal reads for a
\* byte; a byte the switch does not list leaves the zero value, empty space.
CharOf == (-1 :> "T") @@ (0 :> " ") @@ (1 :> ".") @@ (2 :> ":")
Chars == Range(CharOf)
ValOf(ch) == CASE ch = "T" -> -1 [] ch = "." -> 1 [] ch = ":" -> 2 [] OTHER -> 0

\* Marshal with the two counts of the header written the other way round.
MarshalTextSwapped(b) ==
    [hdr   |-> <<b.nr, b.nc>>,
     lines |-> [i \in 1..b.nr |-> [j \in 1..b.nc |-> CharOf[b.cell[<<i-1, j-1>>]]]]]

\* Marshal for a board with at least one row: the header "nc nr" and one line per row.
MarshalText(b) ==
    [hdr   |-> <<b.nc, b.nr>>,
     lines |-> [i \in 1..b.nr |-> [j \in 1..b.nc |-> CharOf[b.cell[<<i-1, j-1>>]]]]]

\* Unmarshal: an error, a panic (make with a negative row count), or the
\* board.  A row is rejected when it is missing or its length (newline
\* included) is not nc+1; lines after the nr-th are never read.
Unmarshal(t) ==
    IF t.hdr = BadHeader THEN [err |-> "error"]
    ELSE LET nc == t.hdr[1]
             nr == t.hdr[2]
         IN  IF nr < 0 THEN [err |-> "panic"]
             ELSE IF \E i \in 1..nr : i > Len(t.lines) \/ Len(t.lines[i]) # nc
                  THEN [err |-> "error"]
                  ELSE [err |-> "none",
                        board |-> [nr |-> nr, nc |-> nc,
                                   cell |-> [c \in Cells(nr, nc) |->
                                               ValOf(t.lines[c[1]+1][c[2]+1])]]]

\* Random(nrow, ncol): nrow*ncol picks of a random cell set to rand.Intn(3),
\* so any 0..2 assignment can result, then (nrow*ncol)/10 picks set a table.
RandomBoards(nrow, ncol) ==
    LET k == (nrow * ncol) \div 10
        tableSets == {T \in SUBSET Cells(nrow, ncol) :
                        Cardinality(T) \in IF k = 0 THEN {0} ELSE 1..k}
    IN  {[nr |-> nrow, nc |-> ncol,
          cell |-> [c \in Cells(nrow, ncol) |-> IF c \in T THEN Table ELSE v[c]]] :
            v \in [Cells(nrow, ncol) -> 0..2], T \in tableSets}

\* fillUpto that piles all v rocks into the first cell.
fillUptoUncapped(d, i, j, v) ==
    IF v > 0 /\ i >= 0 THEN [d EXCEPT ![<<i, j>>] = v] ELSE d

\* fillUpto(i, j, v): v rocks into column j from row i upwards, two a cell,
\* stopping at the top row.
RECURSIVE fillUpto(_, _, _, _)
fillUpto(d, i, j, v) ==
    IF v > 0 /\ i >= 0
    THEN IF v >= 2 THEN fillUpto([d EXCEPT ![<<i, j>>] = 2], i - 1, j, v - 2)
                   ELSE [d EXCEPT ![<<i, j>>] = 1]
    ELSE d

\* The last loop of Run: every column's remaining rocks settle on the bottom.
RECURSIVE FillBottom(_, _, _, _)
FillBottom(d, accum, nr, j) ==
    IF j \notin DOMAIN accum THEN d
    ELSE FillBottom(fillUpto(d, nr - 1, j, accum[j]), accum, nr, j + 1)

\* Run's loops with accum[j] kept after a table has taken its rocks.
RECURSIVE RunLoopNoReset(_, _, _, _, _)
RunLoopNoReset(b, d, accum, i, j) ==
    IF i = b.nr THEN FillBottom(d, accum, b.nr, 0)
    ELSE IF j = b.nc THEN RunLoopNoReset(b, d, accum, i + 1, 0)
    ELSE IF d[<<i, j>>] < 0
         THEN RunLoopNoReset(b, fillUpto(d, i - 1, j, accum[j]), accum, i, j + 1)
         ELSE RunLoopNoReset(b, [d EXCEPT ![<<i, j>>] = 0],
                             [accum EXCEPT ![j] = @ + d[<<i, j>>]], i, j + 1)

\* The nested loops of Run at cell (i, j): a table drops the rocks gathered
\* above it onto the cells just above it; any other cell adds its rocks to
\* accum[j] and is emptied.
RECURSIVE RunLoop(_, _, _, _, _)
RunLoop(b, d, accum, i, j) ==
    IF i = b.nr THEN FillBottom(d, accum, b.nr, 0)
    ELSE IF j = b.nc THEN RunLoop(b, d, accum, i + 1, 0)
    ELSE IF d[<<i, j>>] < 0
         THEN RunLoop(b, fillUpto(d, i - 1, j, accum[j]), [accum EXCEPT ![j] = 0], i, j + 1)
         ELSE RunLoop(b, [d EXCEPT ![<<i, j>>] = 0],
                      [accum EXCEPT ![j] = @ + d[<<i, j>>]], i, j + 1)

Run(b) == [b EXCEPT !.cell = RunLoop(b, b.cell, [j \in 0..b.nc-1 |-> 0], 0, 0)]

\* The stdin texts: every board of up to MaxRows x MaxCols written as rows,
\* under its own header, a header off by one either way, or an unreadable one.
StdinTexts ==
    UNION {{[hdr |-> h, lines |-> ls] :
              ls \in [1..r -> [1..c -> Chars]],
              h \in {<<c + dc, r + dr>> : dc, dr \in -1..1} \cup {BadHeader}} :
            r \in 0..MaxRows, c \in 0..MaxCols}

-----------------------------------------------------------------------------

Init ==
    /\ dumpInput \in BOOLEAN
    /\ data = None
    /\ stdout = <<>>
    /\ input = None
    /\ genData = None
    /\ \/ /\ genFlag \in GenFlags
          /\ pc = "gen"
          /\ stdin = None
       \/ /\ genFlag = None
          /\ pc = "read"
          /\ stdin \in StdinTexts

\* main's check of -d: Sscanf must succeed and both sizes be positive.
GenFlagValid == genFlag # BadHeader /\ genFlag[1] > 0 /\ genFlag[2] > 0

\* Any other -d ends in log.Fatalf.
GenRejected ==
    /\ pc = "gen"
    /\ ~GenFlagValid
    /\ pc' = "failed"
    /\ UNCHANGED <<genFlag, dumpInput, stdin, data, stdout, input, genData>>

\* main with -d COLxROW: Random, then Marshal to stdout, which the pipe hands
\* to the solver as its stdin.
Generate ==
    /\ pc = "gen"
    /\ GenFlagValid
    /\ \E b \in RandomBoards(genFlag[2], genFlag[1]) :
          /\ genData' = b
          /\ stdin' = MarshalText(b)
    /\ pc' = "read"
    /\ UNCHANGED <<genFlag, dumpInput, data, stdout, input>>

\* game.Unmarshal(os.Stdin): an error ends in log.Fatalln.
Load ==
    /\ pc = "read"
    /\ LET r == Unmarshal(stdin) IN
         IF r.err # "none"
         THEN /\ pc' = IF r.err = "error" THEN "failed" ELSE "panic"
              /\ UNCHANGED <<data, input>>
         ELSE /\ data' = r.board
              /\ input' = r.board
              /\ pc' = IF dumpInput THEN "dump" ELSE "run"
    /\ UNCHANGED <<genFlag, dumpInput, stdin, stdout, genData>>

\* Marshal reads len(b.data[0]) first: a board of zero rows panics there.
\* (b.data is never nil after Unmarshal, so its nil check never returns.)
WriteBoard(next) ==
    /\ IF data.nr = 0
       THEN /\ pc' = "panic"
            /\ UNCHANGED stdout
       ELSE /\ stdout' = Append(stdout, MarshalText(data))
            /\ pc' = next
    /\ UNCHANGED <<genFlag, dumpInput, stdin, data, input, genData>>

\* The -s dump of the input.
DumpInput ==
    /\ pc = "dump"
    /\ WriteBoard("run")

\* game.Run(): like Marshal it reads len(b.data[0]) first.
RunGame ==
    /\ pc = "run"
    /\ IF data.nr = 0
       THEN /\ pc' = "panic"
            /\ UNCHANGED data
       ELSE /\ data' = Run(data)
            /\ pc' = "write"
    /\ UNCHANGED <<genFlag, dumpInput, stdin, stdout, input, genData>>

\* The final game.Marshal(os.Stdout).
WriteResult ==
    /\ pc = "write"
    /\ WriteBoard("done")

Next ==
    \/ GenRejected
    \/ Generate
    \/ Load
    \/ DumpInput
    \/ RunGame
    \/ WriteResult

\* The program ends in "done", "failed" or "panic": no step follows.
Spec == Init /\ [][Next]_vars

-----------------------------------------------------------------------------

IsBoard(b) ==
    /\ b.nr \in Nat
    /\ b.nc \in Int
    /\ DOMAIN b.cell = Cells(b.nr, b.nc)
    /\ \A c \in DOMAIN b.cell : b.cell[c] \in Vals

TypeOK ==
    /\ pc \in {"gen", "read", "dump", "run", "write", "done", "failed", "panic"}
    /\ data = None \/ IsBoard(data)
    /\ input = None \/ IsBoard(input)
    /\ \A k \in DOMAIN stdout : stdout[k].hdr \in Nat \X (Nat \ {0})

\* The reference answer, independent of the loops of Run: a cell of a column
\* segment (the cells between two tables, or a table and the board's edge)
\* at height h above the segment's bottom holds what is left of the
\* segment's rocks after two per cell below it, at most two.
Segment(b, i, j) ==
    {r \in 0..b.nr-1 :
        \A t \in 0..b.nr-1 : (r <= t /\ t <= i) \/ (i <= t /\ t <= r) => b.cell[<<t, j>>] # Table}

Settled(b) ==
    [b EXCEPT !.cell =
        [c \in Cells(b.nr, b.nc) |->
            IF b.cell[c] = Table THEN Table
            ELSE LET seg == Segment(b, c[1], c[2])
                     rocks == SumFunctionOnSet([r \in seg |-> b.cell[<<r, c[2]>>]], seg)
                     left == rocks - 2 * (CHOOSE bot \in seg : \A r \in seg : r <= bot) + 2 * c[1]
                 IN  IF left >= 2 THEN 2 ELSE IF left = 1 THEN 1 ELSE 0]]

\* The game answers every board it accepts correctly: the last text main
\* writes is the reference settling of the board Unmarshal loaded (Run's
\* accumulate-and-fill loops and Marshal's encoding against the reference).
RunMatchesReference ==
    pc = "done" => stdout[Len(stdout)] = MarshalText(Settled(input))

\* The composed pipeline `main -d COLxROW | main`: the solver reads back
\* exactly the board the generator made, never failing on it.
GeneratedBoardReadBack ==
    genData # None /\ pc # "read" => input = genData

====
