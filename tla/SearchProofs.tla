---------------------------- MODULE SearchProofs ----------------------------
(***************************************************************************)
(* The answer of a Search is right, whatever the problem.  SafeGuesses is  *)
(* what makes a solved search right, NoneMissed what makes one that found  *)
(* nothing right: every exact cover lies ahead of the search.              *)
(***************************************************************************)
EXTENDS Search, TLAPS

OptionsOfItems == options \subseteq SUBSET items

\* An option guessed at level k, or still to be, fits the guesses before.
Fits(k, o) == o \in options /\ o \subseteq Left(k - 1)

SafeGuesses ==
    /\ guesses \in Seq(options) /\ untried \in Seq(SUBSET options)
    /\ answer \in {"searching", "solved", "none"}
    /\ answer = "searching" =>
          Len(untried) = Len(guesses) \/ Len(untried) = Len(guesses) + 1
    /\ answer = "solved" => Left(Len(guesses)) = {}
    /\ \A k \in 1 .. Len(guesses) : Fits(k, guesses[k])
    /\ answer = "searching" =>
          \A k \in 1 .. Len(untried) : \A o \in untried[k] : Fits(k, o)

\* The first k guesses are in E.
Among(E, k) == \A j \in 1 .. k : guesses[j] \in E

\* E is reached if the search goes on: from here, or from an option for an earlier guess.
Ahead(E) ==
    \/ Len(untried) = Len(guesses) /\ Among(E, Len(guesses))
    \/ \E k \in 1 .. Len(untried) : Among(E, k - 1) /\ untried[k] \cap E # {}

NoneMissed == \A E \in SUBSET options : IsExactCover(E) =>
                  answer # "none" /\ (answer = "searching" => Ahead(E))

IInv == OptionsOfItems /\ SafeGuesses /\ NoneMissed

-------------------------------------------------------------------------------
LEMMA InitInv == Init => IInv
<1> SUFFICES ASSUME Init PROVE IInv
  OBVIOUS
<1>1. guesses = <<>> /\ untried = <<>> /\ answer = "searching" /\ Len(guesses) = 0
      /\ Len(untried) = 0
  BY DEF Init
<1>2. SafeGuesses
  BY <1>1 DEF SafeGuesses
<1>3. NoneMissed
  BY <1>1 DEF NoneMissed, Ahead, Among
<1> QED  BY <1>2, <1>3 DEF IInv, OptionsOfItems, Init

LEMMA ChooseKeeps == IInv /\ Choose => IInv'
<1> SUFFICES ASSUME IInv, Choose PROVE IInv'
  OBVIOUS
<1> DEFINE n == Len(guesses)
<1>1. PICK i \in Left(n) :
         untried' = Append(untried, {o \in options : i \in o /\ o \subseteq Left(n)})
  BY DEF Choose
<1> DEFINE fresh == {o \in options : i \in o /\ o \subseteq Left(n)}
<1>2. /\ answer = "searching" /\ Len(untried) = n /\ n \in Nat
      /\ guesses \in Seq(options) /\ untried \in Seq(SUBSET options)
      /\ UNCHANGED <<items, options, guesses, answer>>
  BY DEF Choose, AtChoice, IInv, SafeGuesses, problem
<1>3. /\ untried' \in Seq(SUBSET options) /\ Len(untried') = n + 1
      /\ untried'[n + 1] = fresh
      /\ \A k \in 1 .. n : untried'[k] = untried[k]
  BY <1>1, <1>2
<1>4. \A k \in Nat : Left(k)' = Left(k)
  BY <1>2 DEF Left
<1>5. SafeGuesses'
  <2>1. \A k \in 1 .. n + 1 : \A o \in untried'[k] : Fits(k, o)'
    <3> SUFFICES ASSUME NEW k \in 1 .. n + 1, NEW o \in untried'[k] PROVE Fits(k, o)'
      OBVIOUS
    <3>1. Left(k - 1)' = Left(k - 1)
      BY <1>2, <1>4
    <3>2. CASE k = n + 1
      BY <3>1, <3>2, <1>2, <1>3 DEF Fits
    <3>3. CASE k \in 1 .. n
      BY <3>1, <3>3, <1>2, <1>3 DEF Fits, IInv, SafeGuesses
    <3> QED  BY <3>2, <3>3, <1>2
  <2>2. \A k \in 1 .. n : Fits(k, guesses[k])'
    BY <1>2, <1>4 DEF Fits, IInv, SafeGuesses
  <2> QED  BY <1>2, <1>3, <2>1, <2>2 DEF SafeGuesses
<1>6. NoneMissed'
  <2> SUFFICES ASSUME NEW E \in SUBSET options, IsExactCover(E) PROVE Ahead(E)'
    BY <1>2 DEF NoneMissed, IsExactCover
  <2>1. Ahead(E)
    BY <1>2 DEF IInv, NoneMissed
  <2>2. CASE \E k \in 1 .. n : Among(E, k - 1) /\ untried[k] \cap E # {}
    BY <2>2, <1>2, <1>3 DEF Ahead, Among
  <2>3. CASE Among(E, n)
    <3>1. PICK o \in E : i \in o
      BY <1>1 DEF IsExactCover, Left
    <3>2. o \subseteq Left(n)
      <4>1. \A j \in 1 .. n : guesses[j] \in E /\ i \notin guesses[j]
        BY <2>3, <1>1 DEF Among, Left
      <4>2. \A j \in 1 .. n : o \cap guesses[j] = {}
        BY <4>1, <3>1 DEF IsExactCover
      <4> QED  BY <4>2, <3>1 DEF Left, IInv, OptionsOfItems
    <3>3. o \in untried'[n + 1]
      BY <3>1, <3>2, <1>3
    <3>4. Among(E, (n + 1) - 1)'
      BY <2>3, <1>2 DEF Among
    <3> QED  BY <3>1, <3>3, <3>4, <1>2, <1>3 DEF Ahead
  <2> QED  BY <2>1, <2>2, <2>3, <1>2 DEF Ahead
<1> QED  BY <1>2, <1>5, <1>6 DEF IInv, OptionsOfItems

LEMMA GuessKeeps == IInv /\ Guess => IInv'
<1> SUFFICES ASSUME IInv, Guess PROVE IInv'
  OBVIOUS
<1> DEFINE n == Len(guesses)
<1>1. /\ answer = "searching" /\ Len(untried) = n + 1 /\ n \in Nat
      /\ guesses \in Seq(options) /\ untried \in Seq(SUBSET options)
      /\ UNCHANGED <<items, options, answer>>
  BY DEF Guess, AtGuess, IInv, SafeGuesses, problem
<1>2. PICK o \in untried[n + 1] :
         /\ guesses' = Append(guesses, o)
         /\ untried' = [untried EXCEPT ![n + 1] = @ \ {o}]
  BY <1>1 DEF Guess
<1>3. Fits(n + 1, o)
  BY <1>1, <1>2 DEF IInv, SafeGuesses
<1>4. /\ guesses' \in Seq(options) /\ Len(guesses') = n + 1 /\ guesses'[n + 1] = o
      /\ \A j \in 1 .. n : guesses'[j] = guesses[j]
  BY <1>1, <1>2, <1>3 DEF Fits
<1>5. /\ untried' \in Seq(SUBSET options) /\ Len(untried') = n + 1
      /\ untried'[n + 1] = untried[n + 1] \ {o}
      /\ \A k \in 1 .. n : untried'[k] = untried[k]
  <2>1. untried[n + 1] \in SUBSET options
    BY <1>1
  <2> QED  BY <1>1, <1>2, <2>1
<1>6. \A k \in 0 .. n : Left(k)' = Left(k)
  BY <1>1, <1>4 DEF Left
<1>7. SafeGuesses'
  <2>1. \A k \in 1 .. n + 1 : Left(k - 1)' = Left(k - 1)
    BY <1>1, <1>6
  <2>2. \A k \in 1 .. n + 1 : Fits(k, guesses[k])'
    <3> SUFFICES ASSUME NEW k \in 1 .. n + 1 PROVE Fits(k, guesses[k])'
      OBVIOUS
    <3>1. CASE k = n + 1
      BY <3>1, <2>1, <1>1, <1>3, <1>4 DEF Fits
    <3>2. CASE k \in 1 .. n
      BY <3>2, <2>1, <1>1, <1>4 DEF Fits, IInv, SafeGuesses
    <3> QED  BY <3>1, <3>2, <1>1
  <2>3. \A k \in 1 .. n + 1 : \A p \in untried'[k] : Fits(k, p)'
    <3> SUFFICES ASSUME NEW k \in 1 .. n + 1, NEW p \in untried'[k] PROVE Fits(k, p)'
      OBVIOUS
    <3>1. p \in untried[k]
      BY <1>1, <1>5
    <3> QED  BY <3>1, <2>1, <1>1 DEF Fits, IInv, SafeGuesses
  <2> QED  BY <1>1, <1>4, <1>5, <2>2, <2>3 DEF SafeGuesses
<1>8. NoneMissed'
  <2> SUFFICES ASSUME NEW E \in SUBSET options, IsExactCover(E) PROVE Ahead(E)'
    BY <1>1 DEF NoneMissed, IsExactCover
  <2>1. PICK k \in 1 .. n + 1 : Among(E, k - 1) /\ untried[k] \cap E # {}
    BY <1>1 DEF IInv, NoneMissed, Ahead
  <2>2. Among(E, k - 1)'
    BY <2>1, <1>1, <1>4 DEF Among
  <2>3. CASE k = n + 1 /\ o \in E
    <3>1. \A j \in 1 .. n + 1 : guesses'[j] \in E
      <4>1. \A j \in 1 .. n + 1 : j = n + 1 \/ j \in 1 .. n
        BY <1>1
      <4> QED  BY <4>1, <2>1, <2>3, <1>1, <1>4 DEF Among
    <3> QED  BY <3>1, <1>4, <1>5 DEF Ahead, Among
  <2>4. CASE k = n + 1 /\ o \notin E
    BY <2>1, <2>2, <2>4, <1>1, <1>5 DEF Ahead
  <2>5. CASE k \in 1 .. n
    BY <2>1, <2>2, <2>5, <1>1, <1>5 DEF Ahead
  <2> QED  BY <2>3, <2>4, <2>5, <1>1
<1> QED  BY <1>1, <1>7, <1>8 DEF IInv, OptionsOfItems

LEMMA RetreatKeeps == IInv /\ Retreat => IInv'
<1> SUFFICES ASSUME IInv, Retreat PROVE IInv'
  OBVIOUS
<1> DEFINE n == Len(guesses)
<1>1. /\ answer = "searching" /\ Len(untried) = n + 1 /\ n \in Nat
      /\ guesses \in Seq(options) /\ untried \in Seq(SUBSET options)
      /\ untried[n + 1] = {} /\ UNCHANGED <<items, options>>
  BY DEF Retreat, AtGuess, IInv, SafeGuesses, problem
<1>2. /\ untried' \in Seq(SUBSET options) /\ Len(untried') = n
      /\ \A k \in 1 .. n : untried'[k] = untried[k]
  BY <1>1 DEF Retreat, Shorter
<1>3. ASSUME NEW E \in SUBSET options, IsExactCover(E)
      PROVE  \E k \in 1 .. n : Among(E, k - 1) /\ untried[k] \cap E # {}
  BY <1>1, <1>3 DEF IInv, NoneMissed, Ahead
<1>4. CASE guesses = <<>>
  <2>1. n = 0 /\ answer' = "none" /\ guesses' = guesses
    BY <1>4 DEF Retreat
  <2>2. NoneMissed'
    BY <2>1, <1>1, <1>3 DEF NoneMissed, IsExactCover
  <2>3. SafeGuesses'
    BY <2>1, <1>1, <1>2 DEF SafeGuesses
  <2> QED  BY <1>1, <2>2, <2>3 DEF IInv, OptionsOfItems
<1>5. CASE guesses # <<>>
  <2>1. /\ n \in Nat \ {0} /\ answer' = answer
        /\ guesses' \in Seq(options) /\ Len(guesses') = n - 1
        /\ \A j \in 1 .. n - 1 : guesses'[j] = guesses[j]
    BY <1>1, <1>5 DEF Retreat, Shorter
  <2>2. \A k \in 0 .. n - 1 : Left(k)' = Left(k)
    <3> SUFFICES ASSUME NEW k \in 0 .. n - 1 PROVE Left(k)' = Left(k)
      OBVIOUS
    <3>1. k \in Nat /\ \A j \in 1 .. k : j \in 1 .. n - 1
      BY <2>1
    <3> QED  BY <3>1, <1>1, <2>1 DEF Left
  <2>3. SafeGuesses'
    <3>1. \A k \in 1 .. n : Left(k - 1)' = Left(k - 1)
      BY <2>1, <2>2
    <3>2. \A k \in 1 .. n - 1 : Fits(k, guesses[k])'
      <4>1. \A k \in 1 .. n - 1 : k \in 1 .. n /\ guesses'[k] = guesses[k]
        BY <2>1
      <4>2. \A k \in 1 .. n : Fits(k, guesses[k])
        BY DEF IInv, SafeGuesses
      <4> QED  BY <4>1, <4>2, <3>1, <1>1 DEF Fits
    <3>3. \A k \in 1 .. n : \A p \in untried'[k] : Fits(k, p)'
      BY <3>1, <1>1, <1>2 DEF Fits, IInv, SafeGuesses
    <3> QED  BY <1>1, <1>2, <2>1, <3>2, <3>3 DEF SafeGuesses
  <2>4. NoneMissed'
    <3> SUFFICES ASSUME NEW E \in SUBSET options, IsExactCover(E) PROVE Ahead(E)'
      BY <1>1, <2>1 DEF NoneMissed, IsExactCover
    <3>1. PICK k \in 1 .. n : Among(E, k - 1) /\ untried[k] \cap E # {}
      BY <1>3
    <3>2. Among(E, k - 1)'
      BY <3>1, <2>1 DEF Among
    <3> QED  BY <3>1, <3>2, <1>2 DEF Ahead
  <2> QED  BY <1>1, <2>3, <2>4 DEF IInv, OptionsOfItems
<1> QED  BY <1>4, <1>5

LEMMA FinishKeeps == IInv /\ Finish => IInv'
<1> SUFFICES ASSUME IInv, Finish PROVE IInv'
  OBVIOUS
<1>1. /\ answer' = "solved" /\ Left(Len(guesses)) = {}
      /\ UNCHANGED <<items, options, guesses, untried>>
  BY DEF Finish, problem
<1> QED  BY <1>1 DEF IInv, OptionsOfItems, SafeGuesses, NoneMissed, Fits, Left

LEMMA StepInv == IInv /\ [Next]_searchVars => IInv'
<1> SUFFICES ASSUME IInv, [Next]_searchVars PROVE IInv'
  OBVIOUS
<1>1. CASE UNCHANGED searchVars
  BY <1>1 DEF searchVars, problem, IInv, OptionsOfItems, SafeGuesses, NoneMissed, Fits, Left,
              Ahead, Among, IsExactCover
<1> QED  BY <1>1, ChooseKeeps, GuessKeeps, RetreatKeeps, FinishKeeps DEF Next

\* The guesses of a solved search cover every item, and no two of them meet.
LEMMA InvImpliesRight == IInv => AnswerRight
<1> SUFFICES ASSUME IInv PROVE AnswerRight
  OBVIOUS
<1> DEFINE n == Len(guesses)
           G == {guesses[k] : k \in 1 .. n}
<1>1. ASSUME answer = "solved" PROVE IsExactCover(G)
  <2>1. /\ guesses \in Seq(options) /\ n \in Nat /\ Left(n) = {}
        /\ \A k \in 1 .. n : Fits(k, guesses[k])
    BY <1>1 DEF IInv, SafeGuesses
  <2>2. \A i \in items : \E o \in G : i \in o
    BY <2>1 DEF Left
  <2>3. \A j, k \in 1 .. n : j < k => guesses[j] \cap guesses[k] = {}
    <3> SUFFICES ASSUME NEW j \in 1 .. n, NEW k \in 1 .. n, j < k
                 PROVE  guesses[j] \cap guesses[k] = {}
      OBVIOUS
    <3>1. j \in 1 .. k - 1
      BY <2>1
    <3>2. guesses[k] \subseteq Left(k - 1)
      BY <2>1 DEF Fits
    <3> QED  BY <3>1, <3>2 DEF Left
  <2>4. \A o, p \in G : o # p => o \cap p = {}
    <3> SUFFICES ASSUME NEW j \in 1 .. n, NEW k \in 1 .. n, guesses[j] # guesses[k]
                 PROVE  guesses[j] \cap guesses[k] = {}
      OBVIOUS
    <3>1. j < k \/ k < j
      BY <2>1
    <3> QED  BY <3>1, <2>3
  <2> QED  BY <2>1, <2>2, <2>4 DEF IsExactCover
<1>2. ASSUME answer = "none", NEW E \in SUBSET options PROVE ~IsExactCover(E)
  BY <1>2 DEF IInv, NoneMissed
<1> QED  BY <1>1, <1>2 DEF AnswerRight

\* The search of SudokuSolver::solve is right for every problem: "solved" comes with an
\* exact cover, and "none" means that there is none (suduku.cpp:89-127).
THEOREM SearchIsRight == Spec => []AnswerRight
<1>1. Spec => []IInv
  BY InitInv, StepInv, PTL DEF Spec
<1> QED  BY <1>1, InvImpliesRight, PTL
===============================================================================
