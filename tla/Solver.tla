------------------------------- MODULE Solver -------------------------------
(***************************************************************************)
(* SudokuSolver: a sudoku as an exact cover problem on dancing links.  A   *)
(* column is a constraint to meet, a row of four nodes an option: a value  *)
(* for a cell.  solve covers a column, tries its options one by one, calls *)
(* itself, and undoes what it did when that fails.  One step is one turn   *)
(* of a loop or what lies between two loops.                               *)
(***************************************************************************)
EXTENDS Integers, Sequences, SequencesExt, Functions

CONSTANTS Box,      \* side of a box: 3 in the code
          Puzzles   \* the boards given, 0 for an empty cell

Side  == Box * Box
Cells == 0 .. Side * Side - 1
Units == 0 .. Side - 1
Vals  == 1 .. Side

ASSUME SolverAssumption ==
    /\ Box \in 1 .. 3
    /\ \A p \in Puzzles : p \in [Cells -> Int]

MaxNodes == 1 + Side * Side * 4 + Side * Side * Side * 4
Nodes    == 1 .. MaxNodes
Names    == 0 .. 399

VARIABLES
    puzzle,   \* the argument of solveSuduku
    left, right, up, down, col, name, size,  \* the fields of nodes_; node 1 is root_
    last,     \* cur_node_, the number of nodes
    columns,  \* columns_, 0 for NULL
    cols,     \* the local variable col of every call of solve under way
    rows,     \* the local variable row of those that have set it
    stack,    \* stack_
    board,    \* inout_
    i, j, k,  \* the variables of the loops: see the actions
    pc,       \* where the innermost call is
    result    \* "none" is NoSolution

header  == <<left, right>>
lists   == <<up, down, size>>
names   == <<col, name, last, columns>>
nodes   == <<header, lists, names>>
frames  == <<cols, rows, stack>>
answer  == <<board, result>>
vars    == <<puzzle, nodes, frames, answer, i, j, k, pc>>

-------------------------------------------------------------------------------
(* The constraints and their names.  A constraint of kind 0 is a cell, to  *)
(* have a value; one of kind 1, 2 or 3 a row, a column or a box, to have   *)
(* the value v.                                                            *)

Row  == [c \in Cells |-> c \div Side]
Col  == [c \in Cells |-> c % Side]
Unit == <<Row, Col, [c \in Cells |-> Box * (Row[c] \div Box) + Col[c] \div Box]>>

\* get_row_col, get_col_col and get_box_col.
NameOf(kind, u, v) == 100 * kind + 10 * u + v

\* Whether value v is on board b in unit u: rows, cols and boxes of the constructor.
Has(b, kind, u, v) == \E c \in Cells : Unit[kind][c] = u /\ b[c] = v

\* Mutant of Fits: the box is forgotten.
Fits_NoBox(b, c, v) == b[c] = 0 /\ \A kind \in 1 .. 2 : ~Has(b, kind, Unit[kind][c], v)

\* A value for a cell is an option, given by the names of the columns it meets.
Fits(b, c, v) == b[c] = 0 /\ \A kind \in 1 .. 3 : ~Has(b, kind, Unit[kind][c], v)
Meets(c, v) == [kind \in 0 .. 3 |-> IF kind = 0 THEN c ELSE NameOf(kind, Unit[kind][c], v)]

-------------------------------------------------------------------------------
Init ==
    /\ puzzle \in Puzzles
    /\ LET root == [n \in Nodes |-> IF n = 1 THEN 1 ELSE 0]
       IN  left = root /\ right = root /\ up = root /\ down = root /\ col = root
    /\ name = [n \in Nodes |-> 0] /\ size = [n \in Nodes |-> 0]
    /\ last = 1 /\ columns = [n \in Names |-> 0]
    /\ cols = <<>> /\ rows = <<>> /\ stack = <<>>
    /\ board = puzzle /\ result = "none"
    /\ i = 0 /\ j = 0 /\ k = 0 /\ pc = "start"

\* A character that is no digit makes solveSuduku return at once.
Start ==
    /\ pc = "start"
    /\ pc' = IF \A c \in Cells : puzzle[c] \in 0 .. Side THEN "cells" ELSE "done"
    /\ UNCHANGED <<puzzle, nodes, frames, answer, i, j, k>>

PutLeft(old, new) ==
    /\ left' = [left EXCEPT ![new] = left[old], ![old] = new]
    /\ right' = [right EXCEPT ![new] = old, ![left[old]] = new]

PutUp(old, new) ==
    /\ up' = [up EXCEPT ![new] = up[old], ![old] = new]
    /\ down' = [down EXCEPT ![new] = old, ![up[old]] = new]
    /\ size' = [size EXCEPT ![old] = @ + 1]

AppendColumn(n) ==
    LET c == last + 1
    IN  /\ last' = c /\ columns' = [columns EXCEPT ![n] = c]
        /\ PutLeft(1, c)
        /\ up' = [up EXCEPT ![c] = c] /\ down' = [down EXCEPT ![c] = c] /\ UNCHANGED size
        /\ col' = [col EXCEPT ![c] = c] /\ name' = [name EXCEPT ![c] = n]

\* A column for every empty cell i.
AppendCell ==
    /\ pc = "cells"
    /\ IF i \in Cells
       THEN /\ IF puzzle[i] = 0 THEN AppendColumn(i) ELSE UNCHANGED nodes
            /\ i' = i + 1 /\ UNCHANGED <<j, k, pc>>
       ELSE i' = 0 /\ j' = 1 /\ k' = 1 /\ pc' = "constraints" /\ UNCHANGED nodes
    /\ UNCHANGED <<puzzle, frames, answer>>

\* A column for every value j that is missing in row, column or box i: k is the kind.
AppendConstraint ==
    /\ pc = "constraints"
    /\ IF i \in Units
       THEN /\ IF Has(puzzle, k, i, j) THEN UNCHANGED nodes ELSE AppendColumn(NameOf(k, i, j))
            /\ k' = IF k < 3 THEN k + 1 ELSE 1
            /\ j' = IF k < 3 THEN j ELSE IF j < Side THEN j + 1 ELSE 1
            /\ i' = IF k = 3 /\ j = Side THEN i + 1 ELSE i
            /\ pc' = pc
       ELSE i' = 0 /\ j' = 1 /\ k' = 0 /\ pc' = "options" /\ UNCHANGED nodes
    /\ UNCHANGED <<puzzle, frames, answer>>

\* new_row for a column n, and put_left to the left of node n0 of the same option: the code
\* calls put_left when all four nodes are there, but new_row does not look at these links.
NewRow(n, n0) ==
    LET r == last + 1
    IN  /\ last' = r /\ UNCHANGED columns
        /\ name' = [name EXCEPT ![r] = n] /\ col' = [col EXCEPT ![r] = columns[n]]
        /\ PutUp(columns[n], r)
        /\ IF n0 = r THEN left' = [left EXCEPT ![r] = r] /\ right' = [right EXCEPT ![r] = r]
                     ELSE PutLeft(n0, r)

\* A node for constraint k of the option to put value j into cell i.
AppendNode ==
    /\ pc = "options"
    /\ IF i \in Cells
       THEN /\ IF Fits(puzzle, i, j) THEN NewRow(Meets(i, j)[k], last + 1 - k) ELSE UNCHANGED nodes
            /\ LET next == ~Fits(puzzle, i, j) \/ k = 3
               IN  /\ k' = IF next THEN 0 ELSE k + 1
                   /\ j' = IF ~next THEN j ELSE IF j < Side THEN j + 1 ELSE 1
                   /\ i' = IF next /\ j = Side THEN i + 1 ELSE i
            /\ pc' = pc
       ELSE pc' = "solve" /\ UNCHANGED <<nodes, i, j, k>>
    /\ UNCHANGED <<puzzle, frames, answer>>

-------------------------------------------------------------------------------
OptionOf(n) == {n, right[n], right[right[n]], right[right[right[n]]]}
NamesAt(n)  == {name[m] : m \in OptionOf(n)}

\* The cell and the value of an option; of its names all but the cell's give the value.
CellAt(n) == CHOOSE c \in NamesAt(n) : c < 100
ValAt(n)  == (CHOOSE c \in NamesAt(n) : c >= 100) % 10

\* Every column is met: the values are read from the options on the stack.
Solved ==
    /\ pc = "solve" /\ left[1] = 1
    /\ board' = [c \in Cells |->
           LET at == {d \in DOMAIN stack : CellAt(stack[d]) = c}
           IN  IF at = {} THEN board[c]
               ELSE ValAt(stack[CHOOSE d \in at : \A e \in at : e <= d])]
    /\ result' = "solved" /\ pc' = "done"
    /\ UNCHANGED <<puzzle, nodes, frames, i, j, k>>

\* get_min_column: i is c and j is cc.
StartMin ==
    /\ pc = "solve" /\ left[1] # 1
    /\ i' = right[1] /\ j' = right[right[1]] /\ pc' = "min"
    /\ UNCHANGED <<puzzle, nodes, frames, answer, k>>

CompareMin ==
    /\ pc = "min" /\ size[i] > 1 /\ j # 1
    /\ i' = IF size[j] < size[i] THEN j ELSE i
    /\ j' = right[j]
    /\ UNCHANGED <<puzzle, nodes, frames, answer, k, pc>>

TakeMin ==
    /\ pc = "min" /\ (size[i] <= 1 \/ j = 1)
    /\ cols' = Append(cols, i) /\ k' = 0 /\ pc' = "cover"
    /\ UNCHANGED <<puzzle, nodes, rows, stack, answer, i, j>>

\* The argument of cover and uncover: solve's col, or another column of its row.  k is the
\* node j of solve, or 0 before and after its loops.
Argument == IF k = 0 THEN Last(cols) ELSE col[k]

\* Cover: i is row and j is j.
Cover ==
    /\ pc = "cover" /\ (k # 0 => k # Last(rows))
    /\ LET c == Argument
       IN  /\ left' = [left EXCEPT ![right[c]] = left[c]]
           /\ right' = [right EXCEPT ![left[c]] = right[c]]
           /\ i' = down[c] /\ j' = right[down[c]]
    /\ pc' = "coverRows"
    /\ UNCHANGED <<puzzle, lists, names, frames, answer, k>>

Unlink ==
    /\ pc = "coverRows" /\ i # Argument /\ j # i
    /\ up' = [up EXCEPT ![down[j]] = up[j]]
    /\ down' = [down EXCEPT ![up[j]] = down[j]]
    /\ size' = [size EXCEPT ![col[j]] = @ - 1]
    /\ j' = right[j]
    /\ UNCHANGED <<puzzle, header, names, frames, answer, i, k, pc>>

NextToCover ==
    /\ pc = "coverRows" /\ i # Argument /\ j = i
    /\ i' = down[i] /\ j' = right[down[i]]
    /\ UNCHANGED <<puzzle, nodes, frames, answer, k, pc>>

\* Mutant of FirstRow: the first option is skipped.
FirstRow_Skipped(c) == IF down[c] = c THEN c ELSE down[down[c]]

FirstRow(c) == down[c]

Covered ==
    /\ pc = "coverRows" /\ i = Argument
    /\ IF k = 0 THEN rows' = Append(rows, FirstRow(Last(cols))) /\ pc' = "row" /\ UNCHANGED k
                ELSE k' = right[k] /\ pc' = "cover" /\ UNCHANGED rows
    /\ UNCHANGED <<puzzle, nodes, cols, stack, answer, i, j>>

\* The option row is tried, and when its other columns are covered solve is called.
TryRow ==
    /\ pc = "row" /\ Last(rows) # Last(cols)
    /\ stack' = Append(stack, Last(rows))
    /\ k' = right[Last(rows)] /\ pc' = "cover"
    /\ UNCHANGED <<puzzle, nodes, cols, rows, answer, i, j>>

Descend ==
    /\ pc = "cover" /\ k # 0 /\ k = Last(rows)
    /\ pc' = "solve"
    /\ UNCHANGED <<puzzle, nodes, frames, answer, i, j, k>>

\* Mutant of NextToUncover: in the order they were covered.
NextToUncover_SameOrder(n) == right[n]

NextToUncover(n) == left[n]

\* Mutant of Backtrack: the option stays on stack_.
Backtrack_NoPop ==
    /\ pc = "failed"
    /\ k' = NextToUncover(Last(rows)) /\ pc' = "uncover"
    /\ UNCHANGED <<puzzle, nodes, frames, answer, i, j>>

\* The call for the rest returned false.
Backtrack ==
    /\ pc = "failed"
    /\ stack' = Front(stack)
    /\ k' = NextToUncover(Last(rows)) /\ pc' = "uncover"
    /\ UNCHANGED <<puzzle, nodes, cols, rows, answer, i, j>>

\* Mutant of NextRow: the same option is tried again.
NextRow_Same(r) == r

NextRow(r) == down[r]

Advance ==
    /\ pc = "uncover" /\ k # 0 /\ k = Last(rows)
    /\ rows' = Append(Front(rows), NextRow(Last(rows))) /\ pc' = "row"
    /\ UNCHANGED <<puzzle, nodes, cols, stack, answer, i, j, k>>

\* No option is left.
NoMoreRows ==
    /\ pc = "row" /\ Last(rows) = Last(cols)
    /\ k' = 0 /\ pc' = "uncover"
    /\ UNCHANGED <<puzzle, nodes, frames, answer, i, j>>

\* Uncover: i is row and j is j.
Uncover ==
    /\ pc = "uncover" /\ (k # 0 => k # Last(rows))
    /\ i' = up[Argument] /\ j' = left[up[Argument]]
    /\ pc' = "uncoverRows"
    /\ UNCHANGED <<puzzle, nodes, frames, answer, k>>

Relink ==
    /\ pc = "uncoverRows" /\ i # Argument /\ j # i
    /\ size' = [size EXCEPT ![col[j]] = @ + 1]
    /\ up' = [up EXCEPT ![down[j]] = j]
    /\ down' = [down EXCEPT ![up[j]] = j]
    /\ j' = left[j]
    /\ UNCHANGED <<puzzle, header, names, frames, answer, i, k, pc>>

NextToRelink ==
    /\ pc = "uncoverRows" /\ i # Argument /\ j = i
    /\ i' = up[i] /\ j' = left[up[i]]
    /\ UNCHANGED <<puzzle, nodes, frames, answer, k, pc>>

\* With its own column back solve returns false, to its caller or to solveSuduku.
Uncovered ==
    /\ pc = "uncoverRows" /\ i = Argument
    /\ left' = [left EXCEPT ![right[i]] = i]
    /\ right' = [right EXCEPT ![left[i]] = i]
    /\ IF k = 0 THEN /\ cols' = Front(cols) /\ rows' = Front(rows) /\ UNCHANGED k
                     /\ pc' = IF Len(cols) = 1 THEN "done" ELSE "failed"
                ELSE k' = NextToUncover(k) /\ pc' = "uncover" /\ UNCHANGED <<cols, rows>>
    /\ UNCHANGED <<puzzle, lists, names, stack, answer, i, j>>

Next ==
    \/ Start \/ AppendCell \/ AppendConstraint \/ AppendNode
    \/ Solved \/ StartMin \/ CompareMin \/ TakeMin \/ TryRow \/ Descend
    \/ Backtrack \/ Advance \/ NoMoreRows
    \/ Cover \/ Unlink \/ NextToCover \/ Covered
    \/ Uncover \/ Relink \/ NextToRelink \/ Uncovered

Spec == Init /\ [][Next]_vars /\ WF_vars(Next)

-------------------------------------------------------------------------------
(* Properties.                                                             *)

\* The types; stack_ has the option of every call of solve under way, but for the innermost
\* one while it looks for the next option.
TypeOK ==
    /\ puzzle \in Puzzles
    /\ last \in Nodes /\ columns \in [Names -> 0 .. last]
    /\ {left, right, up, down, col} \subseteq [Nodes -> 0 .. last]
    /\ \A n \in 1 .. last : {left[n], right[n], up[n], down[n], col[n]} \subseteq 1 .. last
    /\ name \in [Nodes -> Names] /\ size \in [Nodes -> Nat]
    /\ cols \in Seq(1 .. last) /\ rows \in Seq(1 .. last) /\ stack \in Seq(1 .. last)
    /\ board \in [Cells -> Int] /\ result \in {"none", "solved"}
    /\ i \in Nat /\ j \in Nat /\ k \in Nat
    /\ pc \in {"start", "cells", "constraints", "options", "solve", "min", "cover",
               "coverRows", "row", "failed", "uncover", "uncoverRows", "done"}
    /\ stack = IF pc \in {"row", "uncover", "uncoverRows"} THEN Front(rows) ELSE rows

\* The assertions of the constructor: a column is appended once, and before its nodes,
\* and all nodes fit into nodes_ (suduku.cpp:140,154,163,164).
AssertionsHold ==
    LET appendsColumn(n) == columns[n] = 0 /\ last < MaxNodes
        appendsNode(n)   == columns[n] # 0 /\ last < MaxNodes
    IN  /\ pc = "cells" /\ i \in Cells /\ puzzle[i] = 0 => appendsColumn(i)
        /\ pc = "constraints" /\ i \in Units /\ ~Has(puzzle, k, i, j) =>
              appendsColumn(NameOf(k, i, j))
        /\ pc = "options" /\ i \in Cells /\ Fits(puzzle, i, j) => appendsNode(Meets(i, j)[k])

Columns == {c \in 2 .. last : col[c] = c}

\* The columns met by the options on the stack or being worked on.
CoveredColumns == {col[m] : m \in UNION {OptionOf(n) : n \in ToSet(stack)}} \cup ToSet(cols)

\* From the members of S, next leads to the next larger one and from the last to the first,
\* and prev back.
LinksInOrder(S, next, prev) ==
    \A n \in S :
        /\ next[n] \in S /\ prev[next[n]] = n
        /\ \A m \in S : IF n < next[n] THEN m <= n \/ next[n] <= m ELSE next[n] <= m /\ m <= n

\* However deep the search has gone and however often it came back, the lists are what
\* the options on the stack leave: in the list of root_ the columns that are not covered,
\* and in each of theirs, counted, the options that meet no covered column, all in the
\* order in which they were made.
ListsMatch ==
    pc \notin {"cover", "coverRows", "uncover", "uncoverRows"} =>
        LET uncovered == Columns \ CoveredColumns
            open == {n \in 2 .. last \ Columns : \A m \in OptionOf(n) : col[m] \in uncovered}
        IN  /\ LinksInOrder({1} \cup uncovered, right, left)
            /\ \A c \in uncovered :
                  LET openIn == {n \in open : col[n] = c}
                  IN  LinksInOrder({c} \cup openIn, down, up) /\ size[c] = Cardinality(openIn)

IsSudoku(b) == \A kind \in 1 .. 3, u \in Units, v \in Vals : Has(b, kind, u, v)

Completes(b) == \A c \in Cells : puzzle[c] # 0 => b[c] = puzzle[c]

Completions ==
    LET empty == {c \in Cells : puzzle[c] = 0}
    IN  {[c \in Cells |-> IF c \in empty THEN f[c] ELSE puzzle[c]] : f \in [empty -> Vals]}

\* The board returned completes the puzzle, and NoSolution means that there is none.
AnswerCorrect ==
    pc = "done" =>
        IF result = "solved"
        THEN Completes(board) /\ IsSudoku(board)
        ELSE \A b \in Completions : ~IsSudoku(b)

\* The recursion over the linked lists is a search that tries, for a constraint not yet
\* met, each option that fits once; of a call that failed nothing is left (suduku.cpp:89-127).
Items(b) ==
    {c \in Cells : b[c] = 0} \cup
    {NameOf(t[1], t[2], t[3]) : t \in {t \in (1 .. 3) \X Units \X Vals : ~Has(b, t[1], t[2], t[3])}}
Options(b) == {Range(Meets(t[1], t[2])) : t \in {t \in Cells \X Vals : Fits(b, t[1], t[2])}}

\* The same for all puzzles, evaluated once.
ItemsOf   == [p \in Puzzles |-> Items(p)]
OptionsOf == [p \in Puzzles |-> Options(p)]

\* The options for column cols[d] that meet no column of the options before it.
Candidates(d) ==
    {n \in Nodes : /\ n \in 1 .. last /\ n # cols[d] /\ col[n] = cols[d]
                   /\ \A e \in 1 .. d - 1 : \A m \in OptionOf(n), q \in OptionOf(rows[e]) :
                         col[m] # col[q]}

\* Whether option n has not been tried in call d: what the loop has still before it.
Untried(d, n) ==
    \/ d > Len(rows)
    \/ d <= Len(stack) /\ n > rows[d]
    \/ d > Len(stack) /\ rows[d] # cols[d]
       /\ IF pc = "row" THEN n >= rows[d] ELSE n > rows[d]

Guessed == IF pc = "failed" THEN Front(stack) ELSE stack
Guesses == [d \in DOMAIN Guessed |-> NamesAt(Guessed[d])]
ToTry   == [d \in DOMAIN cols |-> {NamesAt(n) : n \in {n \in Candidates(d) : Untried(d, n)}}]
Outcome == IF result = "solved" THEN "solved"
           ELSE IF pc = "done" /\ last > 1 THEN "none" ELSE "searching"

ExactCover == INSTANCE Search WITH
    items   <- ItemsOf[puzzle], options <- OptionsOf[puzzle],
    guesses <- Guesses, untried <- ToTry, answer <- Outcome
SearchSpec == ExactCover!Spec

\* solve returns.
Terminates == <>(pc = "done")
===============================================================================
