------------------------------ MODULE MCSolver ------------------------------
(***************************************************************************)
(* Boards of 4 by 4 for TLC: puzzles that need none or many wrong guesses, *)
(* that have one solution, many or none, a digit too high, and a full      *)
(* board.  The boards without a solution have at most 7 empty cells, since *)
(* AnswerCorrect goes through every way to fill them.                      *)
(***************************************************************************)
EXTENDS Solver

Board(s) == [c \in 0 .. 15 |-> s[c + 1]]

MCPuzzles == {Board(s) : s \in {
    <<0,2,1,0, 1,0,0,0, 2,0,3,0, 0,0,0,0>>,
    <<0,0,0,0, 0,2,4,0, 2,0,1,0, 0,1,0,0>>,
    <<3,0,0,0, 0,4,0,3, 0,0,0,0, 4,0,0,2>>,
    <<0,0,0,0, 0,0,0,0, 0,0,0,0, 0,0,0,0>>,
    <<1,2,3,4, 3,4,1,2, 2,1,4,3, 4,3,2,1>>,
    <<1,2,3,4, 3,4,1,2, 2,1,4,3, 4,3,2,2>>,
    <<0,2,3,4, 0,4,1,0, 2,1,4,0, 4,0,2,1>>,
    <<1,0,3,0, 3,4,0,2, 0,1,4,0, 0,0,2,2>>,
    <<0,2,3,0, 0,4,1,0, 2,0,0,3, 2,0,2,1>>,
    <<1,2,3,5, 3,4,1,2, 2,1,4,3, 4,3,0,0>>
    }}
===============================================================================
