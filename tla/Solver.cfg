\* Dancing links on boards of 4 by 4.
CONSTANTS
    Box = 2
    Puzzles <- MCPuzzles
SPECIFICATION Spec
INVARIANTS
    TypeOK
    AssertionsHold
    ListsMatch
    AnswerCorrect
PROPERTIES
    SearchSpec
    Terminates
CHECK_DEADLOCK FALSE
