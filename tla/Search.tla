------------------------------- MODULE Search -------------------------------
(***************************************************************************)
(* What SudokuSolver::solve promises, without lists: a depth-first search  *)
(* for an exact cover, that is for options that together have every item   *)
(* just once.  At each level an item is chosen that no guess has, and the  *)
(* options for it that fit are guessed one by one.                         *)
(***************************************************************************)
EXTENDS Sequences, Integers

VARIABLES items, options,  \* the problem, which never changes
          guesses,         \* the options guessed, one for each level but maybe the last
          untried,         \* of each level, the options not yet guessed
          answer           \* "searching", "solved" or "none"

problem == <<items, options>>
searchVars == <<problem, guesses, untried, answer>>

\* The items that none of the first k guesses has.
Left(k) == {i \in items : \A j \in 1 .. k : i \notin guesses[j]}

AtChoice == answer = "searching" /\ Len(untried) = Len(guesses)
AtGuess  == answer = "searching" /\ Len(untried) = Len(guesses) + 1

Init ==
    /\ options \subseteq SUBSET items
    /\ guesses = <<>> /\ untried = <<>> /\ answer = "searching"

Choose ==
    /\ AtChoice
    /\ \E i \in Left(Len(guesses)) :
          untried' = Append(untried, {o \in options : i \in o /\ o \subseteq Left(Len(guesses))})
    /\ UNCHANGED <<problem, guesses, answer>>

Guess ==
    /\ AtGuess
    /\ \E o \in untried[Len(untried)] :
          /\ guesses' = Append(guesses, o)
          /\ untried' = [untried EXCEPT ![Len(untried)] = @ \ {o}]
    /\ UNCHANGED <<problem, answer>>

Shorter(s) == SubSeq(s, 1, Len(s) - 1)

Retreat ==
    /\ AtGuess
    /\ untried[Len(untried)] = {}
    /\ untried' = Shorter(untried)
    /\ IF guesses = <<>>
       THEN answer' = "none" /\ UNCHANGED guesses
       ELSE guesses' = Shorter(guesses) /\ UNCHANGED answer
    /\ UNCHANGED problem

Finish ==
    /\ AtChoice
    /\ Left(Len(guesses)) = {}
    /\ answer' = "solved"
    /\ UNCHANGED <<problem, guesses, untried>>

Next == Choose \/ Guess \/ Retreat \/ Finish

Spec == Init /\ [][Next]_searchVars

-------------------------------------------------------------------------------
IsExactCover(E) ==
    /\ E \subseteq options
    /\ \A i \in items : \E o \in E : i \in o
    /\ \A o, p \in E : o # p => o \cap p = {}

\* The answer is right: the guesses of a solved search are an exact cover, and a search
\* that found none went past none (suduku.cpp:89-127).
AnswerRight ==
    /\ answer = "solved" => IsExactCover({guesses[k] : k \in 1 .. Len(guesses)})
    /\ answer = "none" => \A E \in SUBSET options : ~IsExactCover(E)
===============================================================================
