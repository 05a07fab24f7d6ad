---------------------------- MODULE SolverProofs ----------------------------
(***************************************************************************)
(* SudokuSolver for every board: its assertions hold, every variable keeps *)
(* its type, whenever cover and uncover are not at work the lists are what *)
(* the options on the stack leave, solve is a search for an exact cover,   *)
(* and what it answers is right.                                           *)
(*                                                                         *)
(* The proof gives every node and column the time at which it left its     *)
(* list.  In a list that dances, a node that left points to the neighbours *)
(* it had then: those still linked and those that left after it.  Whoever  *)
(* left last can come back, and that is all the solver ever does.  The     *)
(* columns and rows that are linked are then the items and options left,   *)
(* and an exact cover of the items is a completed board.                   *)
(***************************************************************************)
EXTENDS Solver, TLAPS, FiniteSetTheorems, SequenceTheorems

-------------------------------------------------------------------------------
(* Lists that dance.  M is the set of their nodes, of says of a node which *)
(* list it is in, and T when it left it, 0 if it is linked.                *)

\* Those of the list of n that were in it when n left: n's links lead through them.
Seen(M, of, T, n) ==
    {x \in M : of[x] = of[n] /\ \/ x = n \/ T[x] = 0
                                \/ T[n] # 0 /\ (T[x] > T[n] \/ (T[x] = T[n] /\ x >= n))}

\* y is behind n in the ring of S in ascending order.
Follows(S, n, y) ==
    y \in S /\ \A x \in S : IF n < y THEN x <= n \/ y <= x ELSE y <= x /\ x <= n

\* The links of every node, linked or not, lead to its neighbours in what it has seen.
Dancing(M, of, T, next, prev) ==
    \A n \in M : /\ Follows(Seen(M, of, T, n), n, next[n])
                 /\ prev[n] \in Seen(M, of, T, n)
                 /\ Follows(Seen(M, of, T, n), prev[n], n)

\* In a set there is one follower of a member, and it follows one member.
LEMMA FollowsOnce ==
  ASSUME NEW S, S \subseteq Nat, NEW n \in S, NEW m \in S, NEW x, NEW y
  PROVE  /\ Follows(S, n, x) /\ Follows(S, n, y) => x = y
         /\ Follows(S, n, x) /\ Follows(S, m, x) => n = m
<1>1. ASSUME Follows(S, n, x), Follows(S, n, y) PROVE x = y
  <2>1. x \in S /\ y \in S /\ x \in Nat /\ y \in Nat /\ n \in Nat
    BY <1>1 DEF Follows
  <2>2. IF n < x THEN y <= n \/ x <= y ELSE x <= y /\ y <= n
    BY <1>1, <2>1 DEF Follows
  <2>3. IF n < y THEN x <= n \/ y <= x ELSE y <= x /\ x <= n
    BY <1>1, <2>1 DEF Follows
  <2> QED  BY <2>1, <2>2, <2>3
<1>2. ASSUME Follows(S, n, x), Follows(S, m, x) PROVE n = m
  <2>1. x \in S /\ x \in Nat /\ m \in Nat /\ n \in Nat
    BY <1>2 DEF Follows
  <2>2. IF n < x THEN m <= n \/ x <= m ELSE x <= m /\ m <= n
    BY <1>2, <2>1 DEF Follows
  <2>3. IF m < x THEN n <= m \/ x <= n ELSE x <= n /\ n <= m
    BY <1>2, <2>1 DEF Follows
  <2> QED  BY <2>1, <2>2, <2>3
<1> QED  BY <1>1, <1>2

\* e is taken out from between two.
LEMMA FollowsWithout ==
  ASSUME NEW S, S \subseteq Nat, NEW e \in S, NEW n \in S, NEW y, n # e
  PROVE  /\ Follows(S, n, y) /\ y # e => Follows(S \ {e}, n, y)
         /\ Follows(S, n, e) /\ Follows(S, e, y) => Follows(S \ {e}, n, y)
<1>1. ASSUME Follows(S, n, y), y # e PROVE Follows(S \ {e}, n, y)
  BY <1>1 DEF Follows
<1>2. ASSUME Follows(S, n, e), Follows(S, e, y) PROVE Follows(S \ {e}, n, y)
  <2>1. y \in S /\ y \in Nat /\ e \in Nat /\ n \in Nat
    BY <1>2 DEF Follows
  <2>2. \A x \in S : IF n < e THEN x <= n \/ e <= x ELSE e <= x /\ x <= n
    BY <1>2 DEF Follows
  <2>3. \A x \in S : IF e < y THEN x <= e \/ y <= x ELSE y <= x /\ x <= e
    BY <1>2 DEF Follows
  <2>4. y # e
    BY <2>1, <2>3
  <2>5. ASSUME NEW x \in S \ {e} PROVE IF n < y THEN x <= n \/ y <= x ELSE y <= x /\ x <= n
    <3>1. x \in Nat /\ x # e
      OBVIOUS
    <3>2. /\ IF n < e THEN x <= n \/ e <= x ELSE e <= x /\ x <= n
          /\ IF e < y THEN x <= e \/ y <= x ELSE y <= x /\ x <= e
          /\ IF n < e THEN y <= n \/ e <= y ELSE e <= y /\ y <= n
          /\ IF e < y THEN n <= e \/ y <= n ELSE y <= n /\ n <= e
      BY <2>1, <2>2, <2>3
    <3> QED  BY <3>1, <3>2, <2>1, <2>4
  <2> QED  BY <2>1, <2>4, <2>5 DEF Follows
<1> QED  BY <1>1, <1>2

\* e is put back between two.
LEMMA FollowsWith ==
  ASSUME NEW S, S \subseteq Nat, NEW e \in Nat, e \notin S, NEW p \in S \cup {e}, NEW n \in S,
         NEW y, Follows(S \cup {e}, p, e), Follows(S, n, y)
  PROVE  n # p => Follows(S \cup {e}, n, y)
<1> SUFFICES ASSUME n # p PROVE Follows(S \cup {e}, n, y)
  OBVIOUS
<1>1. y \in S /\ y \in Nat /\ p \in Nat /\ n \in Nat
  BY DEF Follows
<1>2. \A x \in S \cup {e} : IF p < e THEN x <= p \/ e <= x ELSE e <= x /\ x <= p
  BY DEF Follows
<1>3. \A x \in S : IF n < y THEN x <= n \/ y <= x ELSE y <= x /\ x <= n
  BY DEF Follows
<1>4. p \in S
  BY <1>1, <1>2
<1>5. IF n < y THEN e <= n \/ y <= e ELSE y <= e /\ e <= n
  <2>1. /\ IF n < y THEN p <= n \/ y <= p ELSE y <= p /\ p <= n
        /\ IF p < e THEN n <= p \/ e <= n ELSE e <= n /\ n <= p
        /\ IF p < e THEN y <= p \/ e <= y ELSE e <= y /\ y <= p
    BY <1>1, <1>2, <1>3, <1>4
  <2>2. e # n /\ e # y /\ e # p
    BY <1>1, <1>4
  <2> QED  BY <2>1, <2>2, <1>1
<1> QED  BY <1>1, <1>3, <1>5 DEF Follows

\* A node has seen itself.
LEMMA SeenBy ==
  ASSUME NEW M, NEW of, NEW T, NEW n \in M
  PROVE  n \in Seen(M, of, T, n) /\ Seen(M, of, T, n) \subseteq M
BY DEF Seen

\* The neighbours of a node are in the same list.
LEMMA DancingIn ==
  ASSUME NEW M, NEW of, NEW T, NEW next, NEW prev, Dancing(M, of, T, next, prev), NEW n \in M
  PROVE  /\ next[n] \in M /\ of[next[n]] = of[n] /\ prev[n] \in M /\ of[prev[n]] = of[n]
<1>1. /\ Follows(Seen(M, of, T, n), n, next[n]) /\ prev[n] \in Seen(M, of, T, n)
  BY DEF Dancing
<1>2. next[n] \in Seen(M, of, T, n)
  BY <1>1 DEF Follows
<1> QED  BY <1>1, <1>2 DEF Seen

\* e is linked, and leaves its list at time t, when nobody has left it later.
Unlinking(M, of, T, e, t, next, prev, T2, next2, prev2) ==
    /\ M \subseteq Nat
    /\ \A x \in M : T[x] \in Nat
    /\ Dancing(M, of, T, next, prev)
    /\ e \in M
    /\ T[e] = 0
    /\ next[e] # e
    /\ t \in Nat \ {0}
    /\ \A x \in M : of[x] = of[e] => T[x] < t \/ (T[x] = t /\ x < e)
    /\ T2[e] = t
    /\ \A x \in M : x # e => T2[x] = T[x]
    /\ next2[prev[e]] = next[e]
    /\ \A x \in M : x # prev[e] => next2[x] = next[x]
    /\ prev2[next[e]] = prev[e]
    /\ \A x \in M : x # next[e] => prev2[x] = prev[x]

\* Unlinking the last node of a list that still dances keeps it dancing.
LEMMA UnlinkKeeps ==
  ASSUME NEW M, NEW of, NEW T, NEW e, NEW t, NEW next, NEW prev, NEW T2, NEW next2, NEW prev2,
         Unlinking(M, of, T, e, t, next, prev, T2, next2, prev2)
  PROVE  Dancing(M, of, T2, next2, prev2)
<1> USE DEF Unlinking
<1> DEFINE S(n) == Seen(M, of, T, n)
           S2(n) == Seen(M, of, T2, n)
           L == {x \in M : of[x] = of[e] /\ T[x] = 0}
<1>1. \A n \in M : /\ Follows(S(n), n, next[n]) /\ prev[n] \in S(n) /\ Follows(S(n), prev[n], n)
                   /\ n \in S(n) /\ S(n) \subseteq M
  BY SeenBy DEF Dancing
<1>2. \A n \in M : of[n] = of[e] /\ T[n] = 0 => S(n) = L
  BY DEF Seen
<1>3. /\ S(e) = L /\ next[e] \in L /\ prev[e] \in L /\ e \in L /\ L \subseteq Nat /\ L \subseteq M
      /\ Follows(L, e, next[e]) /\ Follows(L, prev[e], e)
  BY <1>1, <1>2 DEF Follows
<1>4. prev[e] # e
  BY <1>3, FollowsOnce
<1>5. SUFFICES ASSUME NEW n \in M
               PROVE  /\ Follows(S2(n), n, next2[n]) /\ prev2[n] \in S2(n)
                      /\ Follows(S2(n), prev2[n], n)
  BY DEF Dancing
<1>6. CASE of[n] # of[e] \/ (T[n] # 0 /\ n # e)
  <2>1. S2(n) = S(n)
    <3>1. CASE of[n] # of[e]
      BY <3>1 DEF Seen
    <3>2. CASE of[n] = of[e] /\ T[n] # 0 /\ n # e
      <4>1. T2[n] = T[n] /\ (T[n] < t \/ (T[n] = t /\ n < e)) /\ T[n] \in Nat /\ n \in Nat /\ e \in Nat
        BY <3>2
      <4>2. ASSUME NEW x \in M PROVE x \in S2(n) <=> x \in S(n)
        <5>1. CASE x = e
          BY <5>1, <4>1, <3>2 DEF Seen
        <5>2. CASE x # e
          BY <5>2, <4>1, <3>2 DEF Seen
        <5> QED  BY <5>1, <5>2
      <4> QED  BY <4>2 DEF Seen
    <3> QED  BY <3>1, <3>2, <1>6
  <2>2. n \notin L
    BY <1>6
  <2>3. next2[n] = next[n] /\ prev2[n] = prev[n]
    BY <2>2, <1>3
  <2> QED  BY <2>1, <2>3, <1>1
<1>7. CASE n = e
  <2>1. S2(n) = L
    <3>1. ASSUME NEW x \in M PROVE x \in S2(n) <=> x \in L
      <4>1. CASE x = e
        BY <4>1, <1>7 DEF Seen
      <4>2. CASE x # e /\ of[x] = of[e]
        BY <4>2, <1>7 DEF Seen
      <4>3. CASE of[x] # of[e]
        BY <4>3, <1>7 DEF Seen
      <4> QED  BY <4>1, <4>2, <4>3
    <3> QED  BY <3>1 DEF Seen
  <2>2. next2[n] = next[n] /\ prev2[n] = prev[n]
    BY <1>4, <1>7
  <2> QED  BY <2>1, <2>2, <1>3, <1>7
<1>8. CASE of[n] = of[e] /\ T[n] = 0 /\ n # e
  <2>1. S2(n) = L \ {e}
    <3>1. ASSUME NEW x \in M PROVE x \in S2(n) <=> x \in L \ {e}
      BY <1>8 DEF Seen
    <3> QED  BY <3>1 DEF Seen
  <2>2. n \in L /\ Follows(L, n, next[n]) /\ prev[n] \in L /\ Follows(L, prev[n], n)
    BY <1>1, <1>2, <1>8
  <2>3. Follows(L \ {e}, n, next2[n])
    <3>1. CASE n = prev[e]
      BY <3>1, <2>2, <1>3, <1>8, FollowsWithout
    <3>2. CASE n # prev[e]
      <4>1. next[n] # e
        BY <3>2, <2>2, <1>3, FollowsOnce
      <4> QED  BY <3>2, <4>1, <2>2, <1>3, <1>8, FollowsWithout
    <3> QED  BY <3>1, <3>2
  <2>4. prev2[n] \in L \ {e} /\ Follows(L \ {e}, prev2[n], n)
    <3>1. CASE n = next[e]
      <4>1. prev2[n] = prev[e] /\ prev[e] \in L \ {e}
        BY <3>1, <1>3, <1>4
      <4> QED  BY <3>1, <4>1, <1>3, <1>4, FollowsWithout
    <3>2. CASE n # next[e]
      <4>1. prev[n] # e
        BY <3>2, <2>2, <1>3, FollowsOnce
      <4>2. prev2[n] = prev[n]
        BY <3>2
      <4> QED  BY <3>2, <4>1, <4>2, <2>2, <1>3, <1>8, FollowsWithout
    <3> QED  BY <3>1, <3>2
  <2> QED  BY <2>1, <2>3, <2>4
<1> QED  BY <1>6, <1>7, <1>8

\* e was the last to leave its list, and comes back.
Relinking(M, of, T, e, next, prev, T2, next2, prev2) ==
    /\ M \subseteq Nat
    /\ \A x \in M : T[x] \in Nat
    /\ Dancing(M, of, T, next, prev)
    /\ e \in M
    /\ T[e] # 0
    /\ \A x \in M : of[x] = of[e] => T[x] < T[e] \/ (T[x] = T[e] /\ x <= e)
    /\ T2[e] = 0
    /\ \A x \in M : x # e => T2[x] = T[x]
    /\ next2[prev[e]] = e
    /\ \A x \in M : x # prev[e] => next2[x] = next[x]
    /\ prev2[next[e]] = e
    /\ \A x \in M : x # next[e] => prev2[x] = prev[x]

\* Relinking the node that was unlinked last does too: that is why uncover goes backwards.
LEMMA RelinkKeeps ==
  ASSUME NEW M, NEW of, NEW T, NEW e, NEW next, NEW prev, NEW T2, NEW next2, NEW prev2,
         Relinking(M, of, T, e, next, prev, T2, next2, prev2)
  PROVE  Dancing(M, of, T2, next2, prev2)
<1> USE DEF Relinking
<1> DEFINE S(n) == Seen(M, of, T, n)
           S2(n) == Seen(M, of, T2, n)
           L == {x \in M : of[x] = of[e] /\ T[x] = 0}
           K == L \cup {e}
<1>1. \A n \in M : /\ Follows(S(n), n, next[n]) /\ prev[n] \in S(n) /\ Follows(S(n), prev[n], n)
                   /\ n \in S(n) /\ S(n) \subseteq M
  BY SeenBy DEF Dancing
<1>2. \A n \in M : of[n] = of[e] /\ T[n] = 0 => S(n) = L
  BY DEF Seen
<1>3. S(e) = K
  <2>1. ASSUME NEW x \in M PROVE x \in S(e) <=> x \in K
    <3>1. CASE of[x] = of[e]
      <4>1. /\ T[x] \in Nat /\ T[e] \in Nat /\ x \in Nat /\ e \in Nat
            /\ T[x] < T[e] \/ (T[x] = T[e] /\ x <= e)
        BY <3>1
      <4>2. ~(T[x] > T[e]) /\ (T[x] = T[e] /\ x >= e => x = e)
        BY <4>1
      <4> QED  BY <3>1, <4>2 DEF Seen
    <3>2. CASE of[x] # of[e]
      BY <3>2 DEF Seen
    <3> QED  BY <3>1, <3>2
  <2> QED  BY <2>1 DEF Seen
<1>4. /\ next[e] \in K /\ prev[e] \in K /\ e \in K /\ L \subseteq Nat /\ K \subseteq M /\ e \notin L
      /\ Follows(K, e, next[e]) /\ Follows(K, prev[e], e) /\ L = K \ {e}
  BY <1>1, <1>3, ZenonT(30) DEF Follows
<1>5. SUFFICES ASSUME NEW n \in M
               PROVE  /\ Follows(S2(n), n, next2[n]) /\ prev2[n] \in S2(n)
                      /\ Follows(S2(n), prev2[n], n)
  BY DEF Dancing
<1>6. CASE of[n] # of[e] \/ (T[n] # 0 /\ n # e)
  <2>1. S2(n) = S(n)
    <3>1. CASE of[n] # of[e]
      BY <3>1 DEF Seen
    <3>2. CASE of[n] = of[e] /\ T[n] # 0 /\ n # e
      <4>1. T2[n] = T[n] /\ (T[n] < T[e] \/ (T[n] = T[e] /\ n <= e)) /\ T[n] \in Nat
            /\ n \in Nat /\ e \in Nat /\ T[e] \in Nat
        BY <3>2
      <4>2. ASSUME NEW x \in M PROVE x \in S2(n) <=> x \in S(n)
        <5>1. CASE x = e
          BY <5>1, <4>1, <3>2 DEF Seen
        <5>2. CASE x # e
          BY <5>2, <4>1, <3>2 DEF Seen
        <5> QED  BY <5>1, <5>2
      <4> QED  BY <4>2 DEF Seen
    <3> QED  BY <3>1, <3>2, <1>6
  <2>2. n \notin K
    BY <1>6
  <2>3. next2[n] = next[n] /\ prev2[n] = prev[n]
    BY <2>2, <1>4
  <2> QED  BY <2>1, <2>3, <1>1
<1>7. CASE n = e
  <2>1. S2(n) = K
    <3>1. ASSUME NEW x \in M PROVE x \in S2(n) <=> x \in K
      BY <1>7 DEF Seen
    <3> QED  BY <3>1 DEF Seen
  <2>2. next2[n] = next[n] /\ prev2[n] = prev[n]
    <3>1. next[e] = e <=> prev[e] = e
      <4>1. K \subseteq Nat
        BY <1>4
      <4>2. ASSUME next[e] = e PROVE prev[e] = e
        BY <4>1, <4>2, <1>4, FollowsOnce
      <4>3. ASSUME prev[e] = e PROVE next[e] = e
        BY <4>1, <4>3, <1>4, FollowsOnce
      <4> QED  BY <4>2, <4>3
    <3> QED  BY <1>7, <3>1
  <2> QED  BY <2>1, <2>2, <1>4, <1>7
<1>8. CASE of[n] = of[e] /\ T[n] = 0 /\ n # e
  <2>1. S2(n) = K
    <3>1. ASSUME NEW x \in M PROVE x \in S2(n) <=> x \in K
      BY <1>8 DEF Seen
    <3> QED  BY <3>1 DEF Seen
  <2>2. n \in L /\ Follows(L, n, next[n]) /\ prev[n] \in L /\ Follows(L, prev[n], n)
    BY <1>1, <1>2, <1>8
  <2>3. Follows(K, n, next2[n])
    <3>1. CASE n = prev[e]
      BY <3>1, <1>4
    <3>2. CASE n # prev[e]
      BY <3>2, <2>2, <1>4, FollowsWith
    <3> QED  BY <3>1, <3>2
  <2>4. prev2[n] \in K /\ Follows(K, prev2[n], n)
    <3>1. CASE n = next[e]
      BY <3>1, <1>4
    <3>2. CASE n # next[e]
      <4>1. prev2[n] = prev[n]
        BY <3>2
      <4>2. prev[n] # prev[e]
        <5> SUFFICES ASSUME prev[n] = prev[e] PROVE FALSE
          OBVIOUS
        <5>1. prev[e] \in L /\ Follows(L, prev[e], n) /\ L \subseteq Nat /\ e \in Nat
          BY <2>2, <1>4
        <5>2. Follows(K, e, n)
          <6> DEFINE p == prev[e]
          <6>1. p \in Nat /\ n \in Nat /\ n # e
            BY <5>1, <2>2, <1>8
          <6>2. \A x \in K : IF p < e THEN x <= p \/ e <= x ELSE e <= x /\ x <= p
            BY <1>4 DEF Follows
          <6>3. \A x \in L : IF p < n THEN x <= p \/ n <= x ELSE n <= x /\ x <= p
            BY <5>1 DEF Follows
          <6>4. p \in L /\ n \in L /\ p # e
            BY <5>1, <2>2, <1>4
          <6> HIDE DEF p
          <6>5. ASSUME NEW x \in K PROVE IF e < n THEN x <= e \/ n <= x ELSE n <= x /\ x <= e
            <7>1. CASE x = e
              BY <7>1, <6>1, <6>2, <6>3, <6>4, <5>1
            <7>2. CASE x \in L
              BY <7>2, <6>1, <6>2, <6>3, <6>4, <5>1
            <7> QED  BY <7>1, <7>2
          <6> QED  BY <6>5, <2>2 DEF Follows
        <5> QED  BY <5>2, <3>2, <2>2, <1>4, FollowsOnce
      <4>3. prev[n] \in L /\ Follows(L, prev[n], n)
        BY <2>2
      <4>4. Follows(K, prev[n], n)
        BY <4>2, <4>3, <1>4, FollowsWith
      <4> QED  BY <4>1, <4>3, <4>4
    <3> QED  BY <3>1, <3>2
  <2> QED  BY <2>1, <2>3, <2>4
<1> QED  BY <1>6, <1>7, <1>8

\* r is appended to the list of h, the first of it, while nothing is unlinked.
Appending(M, of, T, r, h, next, prev, of2, next2, prev2) ==
    /\ M \subseteq Nat
    /\ \A x \in M : T[x] = 0
    /\ Dancing(M, of, T, next, prev)
    /\ r \in Nat
    /\ T[r] = 0
    /\ \A x \in M : x < r
    /\ h \in M
    /\ of2[r] = of[h]
    /\ \A x \in M : of2[x] = of[x]
    /\ \A x \in M : of[x] = of[h] => h <= x
    /\ next2[r] = h
    /\ next2[prev[h]] = r
    /\ \A x \in M : x # prev[h] => next2[x] = next[x]
    /\ prev2[r] = prev[h]
    /\ prev2[h] = r
    /\ \A x \in M : x # h => prev2[x] = prev[x]

\* So does appending.
LEMMA AppendKeeps ==
  ASSUME NEW M, NEW of, NEW T, NEW r, NEW h, NEW next, NEW prev, NEW of2, NEW next2, NEW prev2,
         Appending(M, of, T, r, h, next, prev, of2, next2, prev2)
  PROVE  Dancing(M \cup {r}, of2, T, next2, prev2)
<1> USE DEF Appending
<1> DEFINE S(n) == Seen(M, of, T, n)
           S2(n) == Seen(M \cup {r}, of2, T, n)
           L == {x \in M : of[x] = of[h]}
           K == L \cup {r}
<1>1. \A n \in M : /\ Follows(S(n), n, next[n]) /\ prev[n] \in S(n) /\ Follows(S(n), prev[n], n)
                   /\ n \in S(n) /\ S(n) \subseteq M
  BY SeenBy DEF Dancing
<1>a. r \notin M /\ \A x \in M \cup {r} : T[x] = 0
  <2>1. \A x \in M : x < r /\ x \in Nat /\ r \in Nat
    OBVIOUS
  <2>2. r \notin M
    BY <2>1
  <2>3. T[r] = 0 /\ \A x \in M : T[x] = 0
    OBVIOUS
  <2> QED  BY <2>2, <2>3
<1>2. \A n \in L : S(n) = L /\ S2(n) = K
  <2> SUFFICES ASSUME NEW n \in L PROVE S(n) = L /\ S2(n) = K
    OBVIOUS
  <2>1. ASSUME NEW x \in M PROVE x \in S(n) <=> x \in L
    BY <1>a DEF Seen
  <2>2. ASSUME NEW x \in M \cup {r} PROVE x \in S2(n) <=> x \in K
    BY <1>a DEF Seen
  <2>3. S(n) \subseteq M /\ S2(n) \subseteq M \cup {r}
    BY DEF Seen
  <2> HIDE DEF S, S2
  <2> QED  BY <2>1, <2>2, <2>3
<1>3. S2(r) = K
  <2>1. ASSUME NEW x \in M \cup {r} PROVE x \in S2(r) <=> x \in K
    BY <1>a DEF Seen
  <2>2. S2(r) \subseteq M \cup {r}
    BY DEF Seen
  <2> HIDE DEF S2
  <2> QED  BY <2>1, <2>2
<1>4. \A n \in M \ L : S2(n) = S(n)
  <2> SUFFICES ASSUME NEW n \in M \ L PROVE S2(n) = S(n)
    OBVIOUS
  <2>1. ASSUME NEW x \in M \cup {r} PROVE x \in S2(n) <=> x \in S(n)
    BY <1>a DEF Seen
  <2>2. S(n) \subseteq M /\ S2(n) \subseteq M \cup {r}
    BY DEF Seen
  <2> HIDE DEF S, S2
  <2> QED  BY <2>1, <2>2
<1>5. /\ h \in L /\ prev[h] \in L /\ Follows(L, prev[h], h) /\ r \notin M /\ r \notin L
      /\ L \subseteq Nat /\ L \subseteq M /\ K \subseteq Nat
      /\ \A x \in L : h <= x /\ x < r
  <2>1. h \in L /\ L \subseteq Nat /\ L \subseteq M /\ K \subseteq Nat /\ r \notin L
        /\ \A x \in L : h <= x /\ x < r
    BY <1>a
  <2>2. S(h) = L /\ prev[h] \in S(h) /\ Follows(S(h), prev[h], h)
    BY <1>1, <1>2, <2>1
  <2> QED  BY <1>a, <2>1, <2>2
<1>6. Follows(K, prev[h], r) /\ Follows(K, r, h)
  <2> DEFINE p == prev[h]
  <2>1. p \in L /\ \A x \in L : IF p < h THEN x <= p \/ h <= x ELSE h <= x /\ x <= p
    BY <1>5 DEF Follows
  <2> HIDE DEF p
  <2>2. \A x \in L : x <= p
    BY <2>1, <1>5
  <2>3. Follows(K, p, r) /\ Follows(K, r, h)
    BY <2>1, <2>2, <1>5 DEF Follows
  <2> QED  BY <2>3 DEF p
<1>7. SUFFICES ASSUME NEW n \in M \cup {r}
               PROVE  /\ Follows(S2(n), n, next2[n]) /\ prev2[n] \in S2(n)
                      /\ Follows(S2(n), prev2[n], n)
  BY DEF Dancing
<1>8. CASE n = r
  BY <1>8, <1>3, <1>5, <1>6
<1>9. CASE n \in M \ L
  <2>1. next2[n] = next[n] /\ prev2[n] = prev[n]
    BY <1>5, <1>9
  <2> QED  BY <2>1, <1>1, <1>4, <1>9
<1>10. CASE n \in L
  <2>1. Follows(L, n, next[n]) /\ prev[n] \in L /\ Follows(L, prev[n], n) /\ S2(n) = K
    <3>1. S(n) = L /\ S2(n) = K /\ n \in M
      BY <1>2, <1>5, <1>10
    <3>2. Follows(S(n), n, next[n]) /\ prev[n] \in S(n) /\ Follows(S(n), prev[n], n)
      BY <1>1, <3>1
    <3> HIDE DEF S, S2
    <3> QED  BY <3>1, <3>2
  <2>2. Follows(K, n, next2[n])
    <3>1. CASE n = prev[h]
      BY <3>1, <1>6
    <3>2. CASE n # prev[h]
      <4>1. Follows(L \cup {r}, n, next[n])
        BY <3>2, <2>1, <1>5, <1>6, <1>10, FollowsWith
      <4> QED  BY <4>1, <3>2, <1>5, <1>10
    <3> QED  BY <3>1, <3>2
  <2>3. prev2[n] \in K /\ Follows(K, prev2[n], n)
    <3>1. CASE n = h
      BY <3>1, <1>6
    <3>2. CASE n # h
      <4>1. prev[n] # prev[h]
        BY <3>2, <2>1, <1>5, <1>10, FollowsOnce
      <4>2. Follows(L \cup {r}, prev[n], n)
        BY <4>1, <2>1, <1>5, <1>6, FollowsWith
      <4> QED  BY <4>2, <2>1, <3>2, <1>5, <1>10
    <3> QED  BY <3>1, <3>2
  <2> QED  BY <2>1, <2>2, <2>3
<1> QED  BY <1>7, <1>8, <1>9, <1>10

\* A list of its own for r.
Alone(M, of, T, r, next, prev, of2, next2, prev2) ==
    /\ Dancing(M, of, T, next, prev)
    /\ r \in Nat
    /\ r \notin M
    /\ \A x \in M : of2[x] = of[x] /\ of[x] # of2[r]
    /\ next2[r] = r
    /\ \A x \in M : next2[x] = next[x]
    /\ prev2[r] = r
    /\ \A x \in M : prev2[x] = prev[x]

\* And so does a list of a new node alone.
LEMMA AppendAlone ==
  ASSUME NEW M, NEW of, NEW T, NEW r, NEW next, NEW prev, NEW of2, NEW next2, NEW prev2,
         Alone(M, of, T, r, next, prev, of2, next2, prev2)
  PROVE  Dancing(M \cup {r}, of2, T, next2, prev2)
<1> USE DEF Alone
<1> DEFINE S(n) == Seen(M, of, T, n)
           S2(n) == Seen(M \cup {r}, of2, T, n)
<1>1. S2(r) = {r}
  BY DEF Seen
<1>2. \A n \in M : S2(n) = S(n)
  BY DEF Seen
<1>3. Follows({r}, r, r)
  BY DEF Follows
<1> QED  BY <1>1, <1>2, <1>3 DEF Dancing


-------------------------------------------------------------------------------
(* The lists while solve runs.                                             *)

\* Columns are nodes 2 .. F; the nodes of an option are a ring of four behind them.
Shape(F) ==
    /\ F \in 1 .. last
    /\ \A n \in 1 .. F : col[n] = n
    /\ \A n \in F + 1 .. last :
          /\ col[n] \in 2 .. F
          /\ OptionOf(n) \subseteq F + 1 .. last
          /\ right[n] # n /\ right[right[n]] # n /\ right[right[right[right[n]]]] = n
          /\ left[right[n]] = n /\ left[n] = right[right[right[n]]]
          /\ \A m \in OptionOf(n) : m # n => col[m] # col[n]
    /\ \A n, m \in F + 1 .. last : n < m /\ m \notin OptionOf(n) => \A y \in OptionOf(n) : y < m

\* cov is when each column was covered, 0 if it is not; x is the node of its option whose
\* column was covered first.
First(cov, x) ==
    cov[col[x]] # 0 /\ \A y \in OptionOf(x) : cov[col[y]] = 0 \/ cov[col[x]] <= cov[col[y]]

\* The loops of cover and uncover that go through the rows of a column.
Sweeping == pc \in {"coverRows", "uncoverRows"}

\* Whether the loops of cover and uncover have left node y unlinked, of the same option as
\* x in the column they work on.
Swept(x, y) ==
    LET r1 == right[i]
        r2 == right[right[i]]
        r3 == right[right[right[i]]]
    IN  IF pc = "coverRows"
        THEN \/ i = Argument \/ x < i
             \/ x = i /\ \/ y = r1 /\ j # r1
                         \/ y = r2 /\ j \in {r3, i}
                         \/ y = r3 /\ j = i
        ELSE /\ i # Argument
             /\ \/ x < i
                \/ x = i /\ \/ y = r1 /\ j # i
                            \/ y = r2 /\ j \in {r2, r3}
                            \/ y = r3 /\ j = r3

\* gone is when each node left the list of its column: when the first column of its option
\* was covered, unless it is its own.
Gone(F, cov, gone) ==
    /\ \A n \in 1 .. F : gone[n] = 0
    /\ \A n \in F + 1 .. last :
          /\ (\A m \in OptionOf(n) : cov[col[m]] = 0) => gone[n] = 0
          /\ \A x \in OptionOf(n) : First(cov, x) =>
                gone[n] = IF n = x \/ (Sweeping /\ col[x] = Argument /\ ~Swept(x, n))
                          THEN 0 ELSE cov[col[x]]

\* The list of root_ is one list.
One == [n \in Nat |-> 1]
\* The nodes linked in column c.
OpenIn(F, gone, c) == {n \in F + 1 .. last : col[n] = c /\ gone[n] = 0}

\* The list of root_ and those of the columns dance, and sizes count what is linked.
Lists(F, cov, gone) ==
    /\ cov \in [1 .. F -> Nat] /\ gone \in [1 .. last -> Nat]
    /\ Dancing(1 .. F, One, cov, right, left)
    /\ Dancing(1 .. last, col, gone, down, up)
    /\ \A c \in 2 .. F : size[c] = Cardinality(OpenIn(F, gone, c))

\* The q-th column that call d of solve covers, from its slot q.
RightBy(r, q) == IF q = 1 THEN right[r] ELSE IF q = 2 THEN right[right[r]]
                 ELSE IF q = 3 THEN right[right[right[r]]] ELSE r
SlotCol(d, q) == IF q = 0 THEN cols[d] ELSE col[RightBy(rows[d], q)]
\* When the q-th column of call d is covered.
At(d, q) == 4 * d + q
\* The slots whose columns are covered now.
Slot(Q, d, q) == d \in 1 .. Len(cols) /\ q \in 0 .. 3 /\ (d = Len(cols) => q <= Q)

\* How many columns the innermost call has covered, from where it is.
Position(Q) ==
    LET isAt(q) == k = RightBy(rows[Len(rows)], q)
    IN  /\ pc \in {"solve", "min", "failed", "done"} => Q = 3
        /\ pc = "row" => Q = 0
        /\ pc \in {"coverRows", "uncoverRows", "uncover"} /\ k = 0 => Q = 0
        /\ pc = "cover" /\ k = 0 => Q = -1
        /\ pc \in {"coverRows", "uncoverRows"} /\ k # 0 => Q \in 1 .. 3 /\ isAt(Q)
        /\ pc = "uncover" /\ k # 0 => Q \in 0 .. 3 /\ isAt(Q)
        /\ pc = "cover" /\ k # 0 => Q \in 0 .. 3 /\ isAt(Q + 1)

\* A call has its row once it has covered its own column.
Depth ==
    /\ pc \in {"row", "failed", "cover", "coverRows", "uncover", "uncoverRows"} => Len(cols) > 0
    /\ Len(rows) = IF pc \in {"cover", "coverRows"} /\ k = 0 THEN Len(cols) - 1 ELSE Len(cols)

\* No row is left of the column that the innermost call has chosen.
AtHeader ==
    \/ pc = "row" /\ rows[Len(rows)] = cols[Len(cols)]
    \/ pc \in {"uncover", "uncoverRows"} /\ k = 0

\* The row of a call is in its column, and no column of its option was covered before.
InFrames(F, cov) ==
    /\ \A d \in 1 .. Len(cols) : cols[d] \in 2 .. F
    /\ \A d \in 1 .. Len(rows) :
          IF d = Len(cols) /\ AtHeader
          THEN rows[d] = cols[d]
          ELSE rows[d] \in F + 1 .. last /\ col[rows[d]] = cols[d] /\ First(cov, rows[d])

\* The covered columns are those of the slots, each covered at its time.
Slots(F, cov, Q) ==
    /\ \A d, q \in Nat : Slot(Q, d, q) => cov[SlotCol(d, q)] = At(d, q)
    /\ \A c \in 1 .. F : cov[c] # 0 => \E d, q \in Nat : Slot(Q, d, q) /\ SlotCol(d, q) = c

\* The calls of solve under way.
Levels(F, cov, Q) ==
    /\ Q \in -1 .. 3 /\ cov[1] = 0
    /\ Position(Q) /\ Depth /\ InFrames(F, cov) /\ Slots(F, cov, Q)

\* Where the loops of get_min_column, cover and uncover are.
Scanning(F, cov, gone) ==
    /\ pc = "min" => i \in 2 .. F /\ cov[i] = 0 /\ j \in 1 .. F /\ cov[j] = 0
    /\ pc = "cover" /\ k = 0 => cov[cols[Len(cols)]] = 0
    /\ Sweeping => \/ i = Argument
                   \/ i \in F + 1 .. last /\ col[i] = Argument /\ gone[i] = 0 /\ j \in OptionOf(i)

\* The state of solve: F columns, the times, and Q, the last slot of the innermost call.
Solving(F, cov, gone, Q) ==
    Shape(F) /\ Gone(F, cov, gone) /\ Lists(F, cov, gone) /\ Levels(F, cov, Q)
    /\ Scanning(F, cov, gone)

-------------------------------------------------------------------------------
(* What the invariant says of one state.                                   *)

\* Each of the nodes of an option has the same option.
LEMMA OptionFacts ==
  ASSUME NEW F, Shape(F), last \in Nat, NEW n \in F + 1 .. last
  PROVE  /\ n \in OptionOf(n) /\ OptionOf(n) \subseteq F + 1 .. last
         /\ \A m \in OptionOf(n) : OptionOf(m) = OptionOf(n)
         /\ \A m \in F + 1 .. last : n \in OptionOf(m) => OptionOf(m) = OptionOf(n)
<1>1. ASSUME NEW m \in F + 1 .. last
      PROVE  /\ m \in OptionOf(m) /\ OptionOf(m) \subseteq F + 1 .. last
             /\ right[right[right[right[m]]]] = m
             /\ right[m] \in OptionOf(m)
  BY DEF Shape, OptionOf
<1>2. ASSUME NEW m \in F + 1 .. last PROVE OptionOf(right[m]) = OptionOf(m)
  BY <1>1 DEF OptionOf
<1>3. ASSUME NEW m \in F + 1 .. last, NEW y \in OptionOf(m) PROVE OptionOf(y) = OptionOf(m)
  <2>1. /\ right[m] \in F + 1 .. last /\ right[right[m]] \in F + 1 .. last
        /\ right[right[right[m]]] \in F + 1 .. last
    BY <1>1 DEF OptionOf
  <2>2. /\ OptionOf(right[m]) = OptionOf(m)
        /\ OptionOf(right[right[m]]) = OptionOf(m)
        /\ OptionOf(right[right[right[m]]]) = OptionOf(m)
    BY <1>2, <2>1
  <2>3. y = m \/ y = right[m] \/ y = right[right[m]] \/ y = right[right[right[m]]]
    BY <1>3 DEF OptionOf
  <2> QED  BY <2>2, <2>3
<1> QED  BY <1>1, <1>3

\* The four nodes of an option, and the way back.
LEMMA RingFacts ==
  ASSUME NEW F, Shape(F), last \in Nat, NEW n \in F + 1 .. last,
         NEW r1, r1 = right[n], NEW r2, r2 = right[right[n]], NEW r3, r3 = right[right[right[n]]]
  PROVE  /\ OptionOf(n) = {n, r1, r2, r3} /\ {r1, r2, r3} \subseteq F + 1 .. last
         /\ right[r1] = r2 /\ right[r2] = r3 /\ right[r3] = n
         /\ left[n] = r3 /\ left[r3] = r2 /\ left[r2] = r1 /\ left[r1] = n
         /\ n # r1 /\ n # r2 /\ n # r3 /\ r1 # r2 /\ r1 # r3 /\ r2 # r3
<1>1. OptionOf(n) = {n, r1, r2, r3}
  BY DEF OptionOf
<1>2. \A m \in F + 1 .. last : /\ OptionOf(m) \subseteq F + 1 .. last
                               /\ right[m] # m /\ right[right[m]] # m
                               /\ right[right[right[right[m]]]] = m
                               /\ left[right[m]] = m /\ left[m] = right[right[right[m]]]
  BY DEF Shape
<1>3. {r1, r2, r3} \subseteq F + 1 .. last
  BY <1>1, <1>2
<1> QED  BY <1>1, <1>2, <1>3

\* The options lie one behind the other.
LEMMA BlockOrder ==
  ASSUME NEW F, Shape(F), last \in Nat, NEW n \in F + 1 .. last, NEW m \in F + 1 .. last,
         n < m, m \notin OptionOf(n), NEW y \in OptionOf(n), NEW z \in OptionOf(m)
  PROVE  y < z
<1>1. /\ OptionOf(y) = OptionOf(n) /\ OptionOf(z) = OptionOf(m) /\ n \in OptionOf(n)
      /\ m \in OptionOf(m) /\ y \in F + 1 .. last /\ z \in F + 1 .. last
      /\ z \in OptionOf(z) /\ y \in OptionOf(y)
  BY OptionFacts
<1>2. y \notin OptionOf(z)
  BY <1>1, OptionFacts
<1>3. y < m
  BY DEF Shape
<1>4. ASSUME z < y PROVE FALSE
  <2>1. \A w \in OptionOf(z) : w < y
    BY <1>1, <1>2, <1>4 DEF Shape
  <2>2. m < y /\ m \in Nat /\ y \in Nat
    BY <2>1, <1>1 DEF Shape
  <2> QED  BY <2>2, <1>3
<1>5. y # z /\ y \in Nat /\ z \in Nat
  BY <1>1, <1>2 DEF Shape
<1> QED  BY <1>4, <1>5

\* Of an option with a covered column one node is the first.
LEMMA FirstExists ==
  ASSUME NEW F, Shape(F), last \in Nat, NEW n \in F + 1 .. last, NEW cov \in [1 .. F -> Nat],
         NEW m \in OptionOf(n), cov[col[m]] # 0
  PROVE  \E x \in OptionOf(n) : First(cov, x)
<1> DEFINE r1 == right[n]
           r2 == right[right[n]]
           r3 == right[right[right[n]]]
           t(y) == cov[col[y]]
<1>1. OptionOf(n) = {n, r1, r2, r3} /\ {n, r1, r2, r3} \subseteq F + 1 .. last
  BY RingFacts
<1>2. t(n) \in Nat /\ t(r1) \in Nat /\ t(r2) \in Nat /\ t(r3) \in Nat
  <2>1. \A y \in F + 1 .. last : col[y] \in 1 .. F
    BY DEF Shape
  <2> QED  BY <1>1, <2>1
<1>3. \A x \in OptionOf(n) : OptionOf(x) = OptionOf(n)
  BY OptionFacts
<1> HIDE DEF r1, r2, r3, t
<1>4. \E x \in {n, r1, r2, r3} : t(x) # 0 /\ \A y \in {n, r1, r2, r3} : t(y) = 0 \/ t(x) <= t(y)
  <2>1. t(m) # 0 /\ m \in {n, r1, r2, r3}
    BY <1>1 DEF t
  <2> QED  BY <2>1, <1>2
<1>5. PICK x \in OptionOf(n) : t(x) # 0 /\ \A y \in OptionOf(n) : t(y) = 0 \/ t(x) <= t(y)
  BY <1>1, <1>4
<1>6. OptionOf(x) = OptionOf(n)
  BY <1>3
<1>7. First(cov, x)
  BY <1>5, <1>6 DEF First, t
<1> QED  BY <1>7

\* A column is covered at the time of its slot.
LEMMA CovSlot ==
  ASSUME NEW F, NEW cov, NEW Q, Q \in -1 .. 3, Slots(F, cov, Q),
         Len(cols) \in Nat, NEW c \in 1 .. F, cov[c] # 0
  PROVE  \E d, q \in Nat : /\ Slot(Q, d, q) /\ SlotCol(d, q) = c /\ cov[c] = At(d, q)
                           /\ q <= 3 /\ d <= Len(cols) /\ (d = Len(cols) => q <= Q)
<1>1. PICK d, q \in Nat : Slot(Q, d, q) /\ SlotCol(d, q) = c
  BY DEF Slots
<1>2. cov[SlotCol(d, q)] = At(d, q)
  BY <1>1 DEF Slots
<1>3. q <= 3 /\ d <= Len(cols) /\ (d = Len(cols) => q <= Q)
  BY <1>1 DEF Slot
<1> QED  BY <1>1, <1>2, <1>3

\* No two columns were covered at the same time; the column that was covered last.
Distinct(F, cov) == \A c, d \in 1 .. F : cov[c] = cov[d] /\ cov[c] # 0 => c = d
Newest(F, cov, c) == cov[c] # 0 /\ \A d \in 1 .. F : cov[d] <= cov[c]

\* Two columns are covered in different slots, so at different times.
LEMMA CovOnce ==
  ASSUME NEW F, NEW cov, NEW Q, Q \in -1 .. 3, Slots(F, cov, Q),
         Len(cols) \in Nat
  PROVE  Distinct(F, cov)
<1> SUFFICES ASSUME NEW c \in 1 .. F, NEW d \in 1 .. F, cov[c] = cov[d], cov[c] # 0 PROVE c = d
  BY DEF Distinct
<1>1. PICK a, p \in Nat : SlotCol(a, p) = c /\ cov[c] = At(a, p) /\ p <= 3
  BY CovSlot
<1>2. PICK b, q \in Nat : SlotCol(b, q) = d /\ cov[d] = At(b, q) /\ q <= 3
  BY CovSlot
<1>3. At(a, p) = At(b, q) => a = b /\ p = q
  BY <1>1, <1>2 DEF At
<1> QED  BY <1>1, <1>2, <1>3

\* None was covered after the last.
LEMMA CovLast ==
  ASSUME NEW F, NEW cov, NEW Q, Q \in -1 .. 3, Slots(F, cov, Q),
         Len(cols) \in Nat, NEW c \in 1 .. F, cov[c] # 0
  PROVE  cov[c] <= At(Len(cols), Q)
<1>1. PICK d, q \in Nat : /\ cov[c] = At(d, q) /\ q <= 3 /\ d <= Len(cols)
                          /\ (d = Len(cols) => q <= Q)
  BY CovSlot
<1> QED  BY <1>1 DEF At

\* A node still linked in the column covered last is the first of its option.
LEMMA LinkedIsFirst ==
  ASSUME NEW F, NEW cov \in [1 .. F -> Nat], NEW gone, Shape(F), last \in Nat,
         Gone(F, cov, gone), NEW n \in F + 1 .. last, gone[n] = 0,
         Newest(F, cov, col[n]), Distinct(F, cov),
         Sweeping => col[n] = Argument
  PROVE  First(cov, n)
<1>1. n \in OptionOf(n) /\ OptionOf(n) \subseteq F + 1 .. last
  BY OptionFacts
<1>2. \A y \in F + 1 .. last : col[y] \in 1 .. F
  BY DEF Shape
<1>3. PICK x \in OptionOf(n) : First(cov, x)
  BY <1>1, FirstExists DEF Newest
<1>4. CASE x = n
  BY <1>3, <1>4
<1>5. CASE x # n
  <2>1. col[x] # col[n]
    BY <1>3, <1>5 DEF Shape
  <2>2. ~(Sweeping /\ col[x] = Argument)
    BY <2>1
  <2>3. gone[n] = cov[col[x]]
    BY <1>3, <1>5, <2>2 DEF Gone
  <2> QED  BY <2>3, <1>3 DEF First
<1> QED  BY <1>4, <1>5

\* And only one is.
LEMMA FirstUnique ==
  ASSUME NEW F, NEW cov \in [1 .. F -> Nat], Shape(F), last \in Nat,
         NEW x \in F + 1 .. last, NEW y \in OptionOf(x), First(cov, x), First(cov, y),
         Distinct(F, cov)
  PROVE  x = y
<1>1. y \in F + 1 .. last /\ OptionOf(y) = OptionOf(x) /\ x \in OptionOf(x)
  BY OptionFacts
<1>2. col[x] \in 1 .. F /\ col[y] \in 1 .. F /\ (y # x => col[y] # col[x])
  BY <1>1 DEF Shape
<1>3. cov[col[x]] <= cov[col[y]] /\ cov[col[y]] <= cov[col[x]] /\ cov[col[x]] # 0
  BY <1>1 DEF First
<1>4. cov[col[x]] = cov[col[y]]
  BY <1>2, <1>3
<1> QED  BY <1>2, <1>3, <1>4 DEF Distinct

\* The list of root_.
InHeader(F, cov) == {c \in 1 .. F : cov[c] = 0}

\* The columns that are not covered are a ring with the root.
LEMMA HeaderRing ==
  ASSUME NEW F \in Nat, NEW cov, NEW gone, Lists(F, cov, gone), NEW n \in 1 .. F, cov[n] = 0
  PROVE  /\ right[n] \in 1 .. F /\ cov[right[n]] = 0 /\ left[n] \in 1 .. F /\ cov[left[n]] = 0
         /\ Follows(InHeader(F, cov), n, right[n])
         /\ Follows(InHeader(F, cov), left[n], n)
<1>1. \A c \in 1 .. F : One[c] = 1
  BY DEF One
<1>2. Seen(1 .. F, One, cov, n) = InHeader(F, cov)
  <2>1. \A c \in 1 .. F : c \in Seen(1 .. F, One, cov, n) <=> c \in InHeader(F, cov)
    BY <1>1 DEF Seen, InHeader
  <2> QED  BY <2>1 DEF Seen, InHeader
<1>3. /\ Follows(InHeader(F, cov), n, right[n]) /\ left[n] \in InHeader(F, cov)
      /\ Follows(InHeader(F, cov), left[n], n)
  BY <1>2 DEF Lists, Dancing
<1>4. right[n] \in InHeader(F, cov)
  BY <1>3 DEF Follows
<1> QED  BY <1>3, <1>4 DEF InHeader

\* The list of column c.
InColumn(gone, c) == {m \in 1 .. last : col[m] = c /\ gone[m] = 0}

\* The options linked in a column are a ring with it.
LEMMA ColumnRing ==
  ASSUME NEW F \in Nat, NEW cov, NEW gone, Lists(F, cov, gone), NEW n \in 1 .. last, gone[n] = 0
  PROVE  /\ down[n] \in 1 .. last /\ col[down[n]] = col[n] /\ gone[down[n]] = 0
         /\ up[n] \in 1 .. last /\ col[up[n]] = col[n] /\ gone[up[n]] = 0
         /\ Follows(InColumn(gone, col[n]), n, down[n])
         /\ Follows(InColumn(gone, col[n]), up[n], n)
<1>1. Seen(1 .. last, col, gone, n) = InColumn(gone, col[n])
  <2>1. \A m \in 1 .. last : m \in Seen(1 .. last, col, gone, n) <=> m \in InColumn(gone, col[n])
    BY DEF Seen, InColumn
  <2> QED  BY <2>1 DEF Seen, InColumn
<1>2. /\ Follows(InColumn(gone, col[n]), n, down[n]) /\ up[n] \in InColumn(gone, col[n])
      /\ Follows(InColumn(gone, col[n]), up[n], n)
  BY <1>1 DEF Lists, Dancing
<1>3. down[n] \in InColumn(gone, col[n])
  BY <1>2 DEF Follows
<1> QED  BY <1>2, <1>3 DEF InColumn

-------------------------------------------------------------------------------
(* The steps of solve.                                                     *)

\* Covering columns leaves the rings of the options as they are.
LEMMA ShapeKept ==
  ASSUME NEW F, Shape(F), last \in Nat, UNCHANGED names,
         \A n \in F + 1 .. last : right'[n] = right[n] /\ left'[n] = left[n]
  PROVE  Shape(F)' /\ \A n \in F + 1 .. last : OptionOf(n)' = OptionOf(n)
<1>1. UNCHANGED <<col, last>>
  BY DEF names
<1>2. \A n \in F + 1 .. last :
         /\ OptionOf(n)' = OptionOf(n)
         /\ right'[n] = right[n] /\ right'[right'[n]] = right[right[n]]
         /\ right'[right'[right'[n]]] = right[right[right[n]]]
         /\ right'[right'[right'[right'[n]]]] = right[right[right[right[n]]]]
         /\ left'[n] = left[n] /\ left'[right'[n]] = left[right[n]]
  BY DEF Shape, OptionOf
<1> QED  BY <1>1, <1>2 DEF Shape

\* Which node of an option is the first depends on its ring and its columns only.
LEMMA FirstKept ==
  ASSUME NEW F, NEW cov, NEW x \in F + 1 .. last, UNCHANGED col, OptionOf(x)' = OptionOf(x)
  PROVE  First(cov, x)' <=> First(cov, x)
BY DEF First

\* A step that changes no link and is in no loop of cover or uncover.
LEMMA QuietKeeps ==
  ASSUME NEW F, NEW cov, NEW gone, NEW Q, Solving(F, cov, gone, Q), last \in Nat, UNCHANGED nodes,
         ~Sweeping, ~Sweeping'
  PROVE  Shape(F)' /\ Gone(F, cov, gone)' /\ Lists(F, cov, gone)'
<1>1. UNCHANGED <<left, right, up, down, size, col, name, last, columns>>
  BY DEF nodes, header, lists, names
<1>2. Shape(F) /\ Gone(F, cov, gone) /\ Lists(F, cov, gone)
  BY DEF Solving
<1>3. Shape(F)' /\ \A n \in F + 1 .. last : OptionOf(n)' = OptionOf(n)
  BY <1>1, <1>2, ShapeKept DEF names
<1>4. Lists(F, cov, gone)'
  BY <1>1, <1>2 DEF Lists, OpenIn
<1>5. Gone(F, cov, gone)'
  <2>1. \A x \in F + 1 .. last : First(cov, x)' <=> First(cov, x)
    BY <1>1, <1>3, FirstKept
  <2>2. \A n \in F + 1 .. last : OptionOf(n) \subseteq F + 1 .. last
    BY <1>2 DEF Shape
  <2> QED  BY <1>1, <1>2, <1>3, <2>1, <2>2 DEF Gone
<1> QED  BY <1>3, <1>4, <1>5

\* A step that changes neither links nor frames keeps the slots.
LEMMA SlotsKept ==
  ASSUME NEW F, NEW cov, NEW Q, Slots(F, cov, Q), UNCHANGED <<right, col, cols, rows>>
  PROVE  Slots(F, cov, Q)'
<1>1. \A d, q \in Nat : (Slot(Q, d, q)' <=> Slot(Q, d, q)) /\ SlotCol(d, q)' = SlotCol(d, q)
  BY DEF Slot, SlotCol, RightBy
<1> QED  BY <1>1 DEF Slots

\* A step that leaves the frames and the nodes as they are keeps what is known of them.
LEMMA FramesKept ==
  ASSUME NEW F, NEW cov, InFrames(F, cov), UNCHANGED <<right, col, cols, rows, last>>,
         AtHeader' <=> AtHeader
  PROVE  InFrames(F, cov)'
<1>1. \A n \in F + 1 .. last : First(cov, n)' <=> First(cov, n)
  BY DEF First, OptionOf
<1> QED  BY <1>1 DEF InFrames

\* get_min_column starts behind the root.
LEMMA StartMinKeeps ==
  ASSUME NEW F, NEW cov, NEW gone, NEW Q, Solving(F, cov, gone, Q), TypeOK, StartMin
  PROVE  Solving(F, cov, gone, Q)'
<1>1. /\ pc = "solve" /\ pc' = "min" /\ i' = right[1] /\ j' = right[right[1]] /\ left[1] # 1
      /\ UNCHANGED <<nodes, cols, rows, stack, k>> /\ last \in Nodes /\ last \in Nat
  BY DEF StartMin, TypeOK, frames, Nodes
<1>2. UNCHANGED <<left, right, up, down, size, col, name, last, columns>>
  BY <1>1 DEF nodes, header, lists, names
<1>3. Shape(F)' /\ Gone(F, cov, gone)' /\ Lists(F, cov, gone)'
  BY <1>1, QuietKeeps DEF Sweeping
<1>4. /\ Lists(F, cov, gone) /\ F \in Nat /\ F \in 1 .. last /\ Q \in -1 .. 3 /\ cov[1] = 0
      /\ Position(Q) /\ Depth /\ InFrames(F, cov) /\ Slots(F, cov, Q)
  BY <1>1 DEF Solving, Shape, Levels
<1>5. Levels(F, cov, Q)'
  <2>1. Position(Q)' /\ Depth'
    BY <1>1, <1>4 DEF Position, Depth
  <2>2. InFrames(F, cov)' /\ Slots(F, cov, Q)'
    BY <1>1, <1>2, <1>4, SlotsKept, FramesKept DEF AtHeader
  <2> QED  BY <2>1, <2>2, <1>1, <1>2, <1>4 DEF Levels
<1>6. Scanning(F, cov, gone)'
  <2>1. /\ right[1] \in 1 .. F /\ cov[right[1]] = 0 /\ left[1] \in InHeader(F, cov)
        /\ 1 \in InHeader(F, cov) /\ InHeader(F, cov) \subseteq Nat
        /\ Follows(InHeader(F, cov), 1, right[1]) /\ Follows(InHeader(F, cov), left[1], 1)
    BY <1>1, <1>4, HeaderRing DEF InHeader
  <2>2. right[1] # 1
    BY <2>1, <1>1, FollowsOnce
  <2>3. right[right[1]] \in 1 .. F /\ cov[right[right[1]]] = 0
    BY <2>1, <1>1, <1>4, HeaderRing
  <2> QED  BY <2>1, <2>2, <2>3, <1>1, <1>2, <1>4 DEF Scanning, Sweeping
<1> QED  BY <1>3, <1>5, <1>6 DEF Solving

\* It goes on to the next column of the root's list.
LEMMA CompareMinKeeps ==
  ASSUME NEW F, NEW cov, NEW gone, NEW Q, Solving(F, cov, gone, Q), TypeOK, CompareMin
  PROVE  Solving(F, cov, gone, Q)'
<1>1. /\ pc = "min" /\ pc' = "min" /\ i' \in {i, j} /\ j' = right[j] /\ j # 1
      /\ UNCHANGED <<nodes, cols, rows, stack, k>> /\ last \in Nodes /\ last \in Nat
  BY DEF CompareMin, TypeOK, frames, Nodes
<1>2. UNCHANGED <<left, right, up, down, size, col, name, last, columns>>
  BY <1>1 DEF nodes, header, lists, names
<1>3. Shape(F)' /\ Gone(F, cov, gone)' /\ Lists(F, cov, gone)'
  BY <1>1, QuietKeeps DEF Sweeping
<1>4. /\ Lists(F, cov, gone) /\ F \in Nat /\ F \in 1 .. last /\ Q \in -1 .. 3 /\ cov[1] = 0
      /\ Position(Q) /\ Depth /\ InFrames(F, cov) /\ Slots(F, cov, Q) /\ Scanning(F, cov, gone)
  BY <1>1 DEF Solving, Shape, Levels
<1>5. Levels(F, cov, Q)'
  <2>1. Position(Q)' /\ Depth'
    BY <1>1, <1>4 DEF Position, Depth
  <2>2. InFrames(F, cov)' /\ Slots(F, cov, Q)'
    BY <1>1, <1>2, <1>4, SlotsKept, FramesKept DEF AtHeader
  <2> QED  BY <2>1, <2>2, <1>1, <1>2, <1>4 DEF Levels
<1>6. Scanning(F, cov, gone)'
  <2>1. i \in 2 .. F /\ cov[i] = 0 /\ j \in 1 .. F /\ cov[j] = 0 /\ j \in 2 .. F
    BY <1>1, <1>4 DEF Scanning
  <2>2. right[j] \in 1 .. F /\ cov[right[j]] = 0
    BY <2>1, <1>1, <1>4, HeaderRing
  <2> QED  BY <2>1, <2>2, <1>1, <1>2, <1>4 DEF Scanning, Sweeping
<1> QED  BY <1>3, <1>5, <1>6 DEF Solving

\* solve begins a frame with a column that is not covered.
LEMMA TakeMinKeeps ==
  ASSUME NEW F, NEW cov, NEW gone, NEW Q, Solving(F, cov, gone, Q), TypeOK, TakeMin
  PROVE  Solving(F, cov, gone, -1)'
<1> DEFINE D == Len(cols)
<1>1. /\ pc = "min" /\ pc' = "cover" /\ cols' = Append(cols, i) /\ k' = 0
      /\ UNCHANGED <<nodes, rows, i, j>> /\ last \in Nodes /\ last \in Nat /\ cols \in Seq(1 .. last)
      /\ D \in Nat
  BY DEF TakeMin, TypeOK, Nodes
<1>2. UNCHANGED <<left, right, up, down, size, col, name, last, columns>>
  BY <1>1 DEF nodes, header, lists, names
<1>3. Shape(F)' /\ Gone(F, cov, gone)' /\ Lists(F, cov, gone)'
  BY <1>1, QuietKeeps DEF Sweeping
<1>4. /\ Lists(F, cov, gone) /\ F \in Nat /\ F \in 1 .. last /\ Q = 3 /\ cov[1] = 0
      /\ Depth /\ InFrames(F, cov) /\ Slots(F, cov, Q) /\ Scanning(F, cov, gone)
  BY <1>1 DEF Solving, Shape, Levels, Position
<1>5. /\ Len(cols') = D + 1 /\ cols'[D + 1] = i /\ (\A d \in 1 .. D : cols'[d] = cols[d])
      /\ Len(rows) = D /\ i \in 2 .. F /\ cov[i] = 0
  BY <1>1, <1>4 DEF Depth, Scanning
<1>6. Levels(F, cov, -1)'
  <2>1. Position(-1)' /\ Depth'
    BY <1>1, <1>4, <1>5 DEF Position, Depth
  <2>2. Slots(F, cov, -1)'
    <3>1. \A d, q \in Nat : Slot(-1, d, q)' <=> Slot(3, d, q)
      BY <1>1, <1>5 DEF Slot
    <3>2. \A d, q \in Nat : Slot(3, d, q) => SlotCol(d, q)' = SlotCol(d, q)
      BY <1>1, <1>2, <1>5 DEF Slot, SlotCol, RightBy
    <3> QED  BY <3>1, <3>2, <1>4 DEF Slots
  <2>3. InFrames(F, cov)'
    <3>1. \A n \in F + 1 .. last : First(cov, n)' <=> First(cov, n)
      BY <1>2 DEF First, OptionOf
    <3>2. ~AtHeader /\ ~AtHeader'
      BY <1>1 DEF AtHeader
    <3>3. \A d \in 1 .. D : /\ rows[d] \in F + 1 .. last /\ col[rows[d]] = cols[d]
                            /\ First(cov, rows[d]) /\ cols[d] \in 2 .. F
      BY <3>2, <1>4, <1>5 DEF InFrames
    <3>4. \A d \in 1 .. Len(cols') : cols'[d] \in 2 .. F
      BY <3>3, <1>1, <1>5
    <3>5. \A d \in 1 .. D : /\ rows[d] \in F + 1 .. last /\ col[rows[d]] = cols'[d]
                            /\ First(cov, rows[d])'
      <4> SUFFICES ASSUME NEW d \in 1 .. D
                   PROVE  /\ rows[d] \in F + 1 .. last /\ col[rows[d]] = cols'[d]
                          /\ First(cov, rows[d])'
        OBVIOUS
      <4>1. First(cov, rows[d])
        BY <3>3
      <4>2. rows' = rows /\ col' = col /\ right' = right
        BY <1>1, <1>2
      <4>3. First(cov, rows[d])'
        BY <4>1, <4>2 DEF First, OptionOf
      <4> QED  BY <4>3, <3>3, <1>5
    <3>6. rows' = rows /\ Len(rows) = D
      BY <1>1, <1>5
    <3> QED  BY <3>2, <3>4, <3>5, <3>6, <1>2 DEF InFrames
  <2> QED  BY <2>1, <2>2, <2>3, <1>4 DEF Levels
<1>7. Scanning(F, cov, gone)'
  BY <1>1, <1>5 DEF Scanning, Sweeping
<1> QED  BY <1>3, <1>6, <1>7 DEF Solving

\* solve returns true and leaves the lists as they are.
LEMMA SolvedKeeps ==
  ASSUME NEW F, NEW cov, NEW gone, NEW Q, Solving(F, cov, gone, Q), TypeOK, Solved
  PROVE  Solving(F, cov, gone, Q)'
<1>1. /\ pc = "solve" /\ pc' = "done" /\ UNCHANGED <<nodes, cols, rows, k>> /\ last \in Nat
  BY DEF Solved, TypeOK, frames, Nodes
<1>2. UNCHANGED <<left, right, up, down, size, col, name, last, columns>>
  BY <1>1 DEF nodes, header, lists, names
<1>3. Shape(F)' /\ Gone(F, cov, gone)' /\ Lists(F, cov, gone)'
  BY <1>1, QuietKeeps DEF Sweeping
<1>4. /\ F \in Nat /\ Q \in -1 .. 3 /\ cov[1] = 0
      /\ Position(Q) /\ Depth /\ InFrames(F, cov) /\ Slots(F, cov, Q)
  BY <1>1 DEF Solving, Shape, Levels
<1>5. Levels(F, cov, Q)'
  <2>1. Position(Q)' /\ Depth'
    BY <1>1, <1>4 DEF Position, Depth
  <2>2. InFrames(F, cov)' /\ Slots(F, cov, Q)'
    BY <1>1, <1>2, <1>4, SlotsKept, FramesKept DEF AtHeader
  <2> QED  BY <2>1, <2>2, <1>1, <1>2, <1>4 DEF Levels
<1>6. Scanning(F, cov, gone)'
  BY <1>1 DEF Scanning, Sweeping
<1> QED  BY <1>3, <1>5, <1>6 DEF Solving

\* The row in hand, and where its option's columns are.
LEMMA RowFacts ==
  ASSUME NEW F, NEW cov, NEW gone, NEW Q, Solving(F, cov, gone, Q), TypeOK, Len(cols) > 0,
         Len(rows) = Len(cols), ~AtHeader
  PROVE  LET r == rows[Len(rows)]
         IN  /\ r = Last(rows) /\ r \in F + 1 .. last /\ col[r] = cols[Len(cols)]
             /\ First(cov, r) /\ gone[r] = 0 /\ F \in Nat /\ last \in Nat
             /\ right[r] = RightBy(r, 1) /\ left[r] = RightBy(r, 3) /\ RightBy(r, 0) = r
             /\ RightBy(r, 4) = r
             /\ \A q \in 1 .. 3 : /\ RightBy(r, q) \in OptionOf(r) \ {r} /\ RightBy(r, q) # 0
                                  /\ RightBy(r, q) \in F + 1 .. last
                                  /\ right[RightBy(r, q)] = RightBy(r, q + 1)
                                  /\ left[RightBy(r, q)] = RightBy(r, q - 1)
             /\ \A p, q \in 0 .. 3 : RightBy(r, p) = RightBy(r, q) => p = q
<1> DEFINE D == Len(cols)
           r == rows[Len(rows)]
<1>1. last \in Nat /\ rows \in Seq(1 .. last) /\ Shape(F) /\ F \in Nat /\ D \in Nat
      /\ InFrames(F, cov) /\ Gone(F, cov, gone)
  <2>1. last \in Nat /\ rows \in Seq(1 .. last) /\ cols \in Seq(1 .. last)
    BY DEF TypeOK, Nodes
  <2>2. D \in Nat
    BY <2>1
  <2>3. Shape(F) /\ F \in 1 .. last
    BY DEF Solving, Shape
  <2>4. InFrames(F, cov) /\ Gone(F, cov, gone)
    BY DEF Solving, Levels
  <2> QED  BY <2>1, <2>2, <2>3, <2>4
<1>2. r = Last(rows)
  BY <1>1 DEF Last
<1>3. r \in F + 1 .. last /\ col[r] = cols[Len(cols)] /\ First(cov, r)
  BY <1>1 DEF InFrames
<1>4. gone[r] = 0
  <2>1. r \in OptionOf(r)
    BY <1>1, <1>3, OptionFacts
  <2> QED  BY <2>1, <1>1, <1>3 DEF Gone
<1> HIDE DEF r
<1>5. PICK r1, r2, r3 : r1 = right[r] /\ r2 = right[right[r]] /\ r3 = right[right[right[r]]]
  OBVIOUS
<1>6. /\ OptionOf(r) = {r, r1, r2, r3} /\ {r1, r2, r3} \subseteq F + 1 .. last
      /\ right[r1] = r2 /\ right[r2] = r3 /\ right[r3] = r
      /\ left[r] = r3 /\ left[r3] = r2 /\ left[r2] = r1 /\ left[r1] = r
      /\ r # r1 /\ r # r2 /\ r # r3 /\ r1 # r2 /\ r1 # r3 /\ r2 # r3
  BY <1>1, <1>3, <1>5, RingFacts
<1>7. /\ RightBy(r, 0) = r /\ RightBy(r, 1) = r1 /\ RightBy(r, 2) = r2 /\ RightBy(r, 3) = r3
      /\ RightBy(r, 4) = r
  BY <1>5 DEF RightBy
<1>8. \A q \in 1 .. 3 : /\ RightBy(r, q) \in OptionOf(r) \ {r} /\ RightBy(r, q) # 0
                        /\ RightBy(r, q) \in F + 1 .. last
                        /\ right[RightBy(r, q)] = RightBy(r, q + 1)
                        /\ left[RightBy(r, q)] = RightBy(r, q - 1)
  <2> SUFFICES ASSUME NEW q \in 1 .. 3
               PROVE  /\ RightBy(r, q) \in OptionOf(r) \ {r} /\ RightBy(r, q) # 0
                      /\ RightBy(r, q) \in F + 1 .. last
                      /\ right[RightBy(r, q)] = RightBy(r, q + 1)
                      /\ left[RightBy(r, q)] = RightBy(r, q - 1)
    OBVIOUS
  <2>1. CASE q = 1
    BY <2>1, <1>1, <1>3, <1>6, <1>7
  <2>2. CASE q = 2
    BY <2>2, <1>1, <1>3, <1>6, <1>7
  <2>3. CASE q = 3
    BY <2>3, <1>1, <1>3, <1>6, <1>7
  <2> QED  BY <2>1, <2>2, <2>3
<1>9. \A p, q \in 0 .. 3 : RightBy(r, p) = RightBy(r, q) => p = q
  <2> SUFFICES ASSUME NEW p \in 0 .. 3, NEW q \in 0 .. 3, RightBy(r, p) = RightBy(r, q)
               PROVE  p = q
    OBVIOUS
  <2>1. (p = 0 \/ p = 1 \/ p = 2 \/ p = 3) /\ (q = 0 \/ q = 1 \/ q = 2 \/ q = 3)
    OBVIOUS
  <2> QED  BY <2>1, <1>6, <1>7
<1> QED  BY <1>1, <1>2, <1>3, <1>4, <1>5, <1>6, <1>7, <1>8, <1>9 DEF r

\* A step that changes neither lists nor frames, outside the loops of cover and uncover.
LEMMA FramesQuiet ==
  ASSUME NEW F, NEW cov, NEW gone, NEW Q, Solving(F, cov, gone, Q), TypeOK,
         UNCHANGED <<nodes, cols, rows>>, ~Sweeping, ~Sweeping', AtHeader' <=> AtHeader,
         Position(Q)', Depth', Scanning(F, cov, gone)'
  PROVE  Solving(F, cov, gone, Q)'
<1>1. UNCHANGED <<left, right, up, down, size, col, name, last, columns>> /\ last \in Nat
  BY DEF nodes, header, lists, names, TypeOK, Nodes
<1>2. Shape(F)' /\ Gone(F, cov, gone)' /\ Lists(F, cov, gone)'
  BY <1>1, QuietKeeps
<1>3. Levels(F, cov, Q)'
  <2>1. Q \in -1 .. 3 /\ cov[1] = 0 /\ InFrames(F, cov) /\ Slots(F, cov, Q)
    BY DEF Solving, Levels
  <2>2. InFrames(F, cov)' /\ Slots(F, cov, Q)'
    BY <2>1, <1>1, SlotsKept, FramesKept
  <2> QED  BY <2>1, <2>2, <1>1 DEF Levels
<1> QED  BY <1>2, <1>3 DEF Solving

\* The columns of a row are covered from the one to its right on.
LEMMA TryRowKeeps ==
  ASSUME NEW F, NEW cov, NEW gone, NEW Q, Solving(F, cov, gone, Q), TypeOK, TryRow
  PROVE  Solving(F, cov, gone, Q)'
<1>1. /\ pc = "row" /\ pc' = "cover" /\ k' = right[Last(rows)] /\ Last(rows) # Last(cols)
      /\ UNCHANGED <<nodes, cols, rows, i, j>>
  BY DEF TryRow
<1>2. UNCHANGED <<right>> /\ rows \in Seq(1 .. last) /\ cols \in Seq(1 .. last)
  BY <1>1 DEF nodes, header, TypeOK
<1>3. Q = 0 /\ Len(cols) > 0 /\ Len(rows) = Len(cols)
  BY <1>1 DEF Solving, Levels, Position, Depth
<1>5. ~AtHeader
  BY <1>1, <1>2, <1>3 DEF AtHeader, Last
<1>6. k' = RightBy(rows[Len(rows)], 1) /\ k' # 0
  BY <1>1, <1>3, <1>5, RowFacts
<1>7. Position(Q)' /\ Depth'
  <2>1. RightBy(rows[Len(rows)], 1)' = RightBy(rows[Len(rows)], 1)
    BY <1>1, <1>2 DEF RightBy
  <2> QED  BY <2>1, <1>1, <1>3, <1>6 DEF Position, Depth
<1>8. Scanning(F, cov, gone)' /\ ~Sweeping /\ ~Sweeping'
  BY <1>1, <1>6 DEF Scanning, Sweeping
<1>9. ~AtHeader'
  BY <1>1 DEF AtHeader
<1> QED  BY <1>1, <1>5, <1>7, <1>8, <1>9, FramesQuiet

\* All four columns of the row are covered when solve calls itself.
LEMMA DescendKeeps ==
  ASSUME NEW F, NEW cov, NEW gone, NEW Q, Solving(F, cov, gone, Q), TypeOK, Descend
  PROVE  Solving(F, cov, gone, Q)'
<1>1. /\ pc = "cover" /\ pc' = "solve" /\ k # 0 /\ k = Last(rows)
      /\ UNCHANGED <<nodes, cols, rows, i, j, k>>
  BY DEF Descend, frames
<1>2. UNCHANGED <<right>> /\ rows \in Seq(1 .. last) /\ cols \in Seq(1 .. last)
  BY <1>1 DEF nodes, header, TypeOK
<1>3. Len(cols) > 0 /\ Len(rows) = Len(cols) /\ Q \in 0 .. 3 /\ k = RightBy(rows[Len(rows)], Q + 1)
  BY <1>1 DEF Solving, Levels, Position, Depth
<1>4. ~AtHeader /\ ~AtHeader'
  BY <1>1 DEF AtHeader
<1>5. /\ k = RightBy(rows[Len(rows)], 0)
      /\ \A p, q \in 0 .. 3 : RightBy(rows[Len(rows)], p) = RightBy(rows[Len(rows)], q) => p = q
  BY <1>1, <1>3, <1>4, RowFacts
<1>6. Q = 3
  <2> SUFFICES ASSUME Q \in 0 .. 2 PROVE FALSE
    BY <1>3
  <2>1. Q + 1 \in 0 .. 3 /\ Q + 1 # 0
    OBVIOUS
  <2> QED  BY <2>1, <1>3, <1>5
<1>7. Position(Q)' /\ Depth'
  BY <1>1, <1>3, <1>6 DEF Position, Depth
<1>8. Scanning(F, cov, gone)' /\ ~Sweeping /\ ~Sweeping'
  BY <1>1 DEF Scanning, Sweeping
<1> QED  BY <1>1, <1>4, <1>7, <1>8, FramesQuiet

\* They are uncovered from the last one on.
LEMMA BacktrackKeeps ==
  ASSUME NEW F, NEW cov, NEW gone, NEW Q, Solving(F, cov, gone, Q), TypeOK, Backtrack
  PROVE  Solving(F, cov, gone, Q)'
<1>1. /\ pc = "failed" /\ pc' = "uncover" /\ k' = left[Last(rows)]
      /\ UNCHANGED <<nodes, cols, rows, i, j>>
  BY DEF Backtrack, NextToUncover
<1>2. UNCHANGED <<right>> /\ rows \in Seq(1 .. last) /\ cols \in Seq(1 .. last)
  BY <1>1 DEF nodes, header, TypeOK
<1>3. Len(cols) > 0 /\ Len(rows) = Len(cols) /\ Q = 3
  BY <1>1 DEF Solving, Levels, Position, Depth
<1>4. ~AtHeader
  BY <1>1 DEF AtHeader
<1>5. k' = RightBy(rows[Len(rows)], 3) /\ k' # 0
  BY <1>1, <1>3, <1>4, RowFacts
<1>6. ~AtHeader'
  BY <1>1, <1>5 DEF AtHeader
<1>7. Position(Q)' /\ Depth'
  <2>1. RightBy(rows[Len(rows)], 3)' = RightBy(rows[Len(rows)], 3)
    BY <1>1, <1>2 DEF RightBy
  <2> QED  BY <2>1, <1>1, <1>3, <1>5 DEF Position, Depth
<1>8. Scanning(F, cov, gone)' /\ ~Sweeping /\ ~Sweeping'
  BY <1>1 DEF Scanning, Sweeping
<1> QED  BY <1>1, <1>4, <1>6, <1>7, <1>8, FramesQuiet

\* Only the column of the call itself is left to uncover.
LEMMA NoMoreRowsKeeps ==
  ASSUME NEW F, NEW cov, NEW gone, NEW Q, Solving(F, cov, gone, Q), TypeOK, NoMoreRows
  PROVE  Solving(F, cov, gone, Q)'
<1>1. /\ pc = "row" /\ pc' = "uncover" /\ k' = 0 /\ Last(rows) = Last(cols)
      /\ UNCHANGED <<nodes, cols, rows, i, j>>
  BY DEF NoMoreRows, frames
<1>2. UNCHANGED <<right>> /\ rows \in Seq(1 .. last) /\ cols \in Seq(1 .. last)
  BY <1>1 DEF nodes, header, TypeOK
<1>3. Len(cols) > 0 /\ Len(rows) = Len(cols) /\ Q = 0
  BY <1>1 DEF Solving, Levels, Position, Depth
<1>4. AtHeader /\ AtHeader'
  BY <1>1, <1>2, <1>3 DEF AtHeader, Last
<1>7. Position(Q)' /\ Depth'
  BY <1>1, <1>3 DEF Position, Depth
<1>8. Scanning(F, cov, gone)' /\ ~Sweeping /\ ~Sweeping'
  BY <1>1 DEF Scanning, Sweeping
<1> QED  BY <1>1, <1>4, <1>7, <1>8, FramesQuiet

\* The option below the row in hand, or the end of the column.
LEMMA NextOption ==
  ASSUME NEW F, NEW cov, NEW gone, Shape(F), Gone(F, cov, gone), Lists(F, cov, gone),
         NEW Q, Q = 0, Slots(F, cov, Q), cov[1] = 0, last \in Nat, cols \in Seq(1 .. last),
         Sweeping => Argument = cols[Len(cols)],
         Len(cols) > 0, NEW n \in 1 .. last, gone[n] = 0, col[n] = cols[Len(cols)],
         cols[Len(cols)] \in 2 .. F
  PROVE  LET m == down[n]
         IN  \/ m = cols[Len(cols)] /\ m <= F
             \/ m \in F + 1 .. last /\ col[m] = cols[Len(cols)] /\ First(cov, m)
<1> DEFINE D == Len(cols)
           m == down[n]
<1>1. D \in Nat /\ F \in Nat /\ cov \in [1 .. F -> Nat] /\ cols[D] \in 1 .. F
  <2>1. D \in Nat
    OBVIOUS
  <2>2. F \in 1 .. last
    BY DEF Shape
  <2>3. cov \in [1 .. F -> Nat]
    BY DEF Lists
  <2> HIDE DEF D
  <2>4. F \in Nat /\ cols[D] \in 1 .. F
    BY <2>2 DEF D
  <2> QED  BY <2>1, <2>3, <2>4
<1>2. m \in 1 .. last /\ col[m] = cols[D] /\ gone[m] = 0
  BY <1>1, ColumnRing
<1>3. cov[cols[D]] = At(D, 0)
  <2>1. Slot(Q, D, 0) /\ SlotCol(D, 0) = cols[D]
    BY <1>1 DEF Slot, SlotCol
  <2> QED  BY <2>1, <1>1 DEF Slots
<1>4. Distinct(F, cov)
  <2>1. Q \in -1 .. 3
    OBVIOUS
  <2> QED  BY <2>1, <1>1, CovOnce
<1>5. ASSUME NEW c \in 1 .. F PROVE cov[c] <= cov[cols[D]]
  <2>1. Q \in -1 .. 3
    OBVIOUS
  <2>2. cov[c] # 0 => cov[c] <= At(D, Q)
    BY <2>1, <1>1, CovLast
  <2> QED  BY <2>2, <1>1, <1>3 DEF At
<1> HIDE DEF m
<1>6. CASE m \in 1 .. F
  BY <1>2, <1>6 DEF Shape, m
<1>7. CASE m \in F + 1 .. last
  <2>1. First(cov, m)
    <3>1. Newest(F, cov, col[m])
      <4>1. col[m] = cols[D]
        BY <1>2 DEF m
      <4>2. cov[cols[D]] # 0
        BY <1>1, <1>3 DEF At
      <4> QED  BY <4>1, <4>2, <1>5 DEF Newest
    <3>2. gone[m] = 0 /\ m \in F + 1 .. last /\ (Sweeping => col[m] = Argument)
      BY <1>2, <1>7 DEF m
    <3> QED  BY <1>1, <1>4, <3>1, <3>2, LinkedIsFirst
  <2> QED  BY <2>1, <1>2, <1>7 DEF m
<1> QED  BY <1>1, <1>2, <1>6, <1>7

\* The row below is one of the same column whose option has no other covered column.
LEMMA AdvanceKeeps ==
  ASSUME NEW F, NEW cov, NEW gone, NEW Q, Solving(F, cov, gone, Q), TypeOK, Advance
  PROVE  Solving(F, cov, gone, Q)'
<1> DEFINE D == Len(cols)
           m == down[rows[D]]
<1>1. /\ pc = "uncover" /\ pc' = "row" /\ k # 0 /\ k = Last(rows)
      /\ rows' = Append(Front(rows), down[Last(rows)]) /\ UNCHANGED <<nodes, cols, i, j, k>>
  BY DEF Advance, NextRow
<1>2. /\ UNCHANGED <<left, right, up, down, size, col, name, last, columns>>
      /\ rows \in Seq(1 .. last) /\ cols \in Seq(1 .. last) /\ last \in Nat
  BY <1>1 DEF nodes, header, lists, names, TypeOK, Nodes
<1>3. /\ D \in Nat /\ D > 0 /\ Len(rows) = D /\ Q \in 0 .. 3 /\ k = RightBy(rows[D], Q)
      /\ InFrames(F, cov) /\ Slots(F, cov, Q) /\ cov[1] = 0 /\ ~AtHeader
  BY <1>1, <1>2 DEF Solving, Levels, Position, Depth, AtHeader
<1>4. /\ k = RightBy(rows[D], 0) /\ rows[D] = Last(rows) /\ gone[rows[D]] = 0
      /\ rows[D] \in F + 1 .. last /\ col[rows[D]] = cols[D] /\ F \in Nat
      /\ \A p, q \in 0 .. 3 : RightBy(rows[D], p) = RightBy(rows[D], q) => p = q
  BY <1>1, <1>3, RowFacts
<1>5. Q = 0
  <2>1. 0 \in 0 .. 3
    OBVIOUS
  <2> QED  BY <2>1, <1>3, <1>4
<1>6. Shape(F) /\ Gone(F, cov, gone) /\ Lists(F, cov, gone)
  BY DEF Solving
<1>7. Shape(F)' /\ Gone(F, cov, gone)' /\ Lists(F, cov, gone)'
  BY <1>1, <1>2, QuietKeeps DEF Sweeping
<1>8. \A d \in 1 .. D : cols[d] \in 2 .. F
  BY <1>3 DEF InFrames
<1>9. \/ m = cols[D] /\ m <= F
      \/ m \in F + 1 .. last /\ col[m] = cols[D] /\ First(cov, m)
  <2>1. (Sweeping => Argument = cols[Len(cols)]) /\ cols[D] \in 2 .. F /\ rows[D] \in 1 .. last
    BY <1>1, <1>3, <1>4, <1>8 DEF Sweeping
  <2> QED  BY <2>1, <1>2, <1>3, <1>4, <1>5, <1>6, NextOption
<1>10. Len(rows') = D /\ rows'[D] = m /\ \A d \in 1 .. D - 1 : rows'[d] = rows[d]
  BY <1>1, <1>2, <1>3, <1>4 DEF Front
<1>11. Position(Q)' /\ Depth'
  BY <1>1, <1>3, <1>5, <1>10 DEF Position, Depth
<1>12. Slots(F, cov, Q)'
  <2>1. \A d, q \in Nat : Slot(Q, d, q)' <=> Slot(Q, d, q)
    BY <1>1 DEF Slot
  <2>2. \A d, q \in Nat : Slot(Q, d, q) => SlotCol(d, q)' = SlotCol(d, q)
    <3> SUFFICES ASSUME NEW d \in Nat, NEW q \in Nat, Slot(Q, d, q)
                 PROVE  SlotCol(d, q)' = SlotCol(d, q)
      OBVIOUS
    <3>1. d \in 1 .. D - 1 \/ q = 0
      BY <1>3, <1>5 DEF Slot
    <3> QED  BY <3>1, <1>1, <1>2, <1>10 DEF SlotCol, RightBy
  <2> QED  BY <2>1, <2>2, <1>3 DEF Slots
<1>13. InFrames(F, cov)'
  <2>1. ASSUME NEW d \in 1 .. D - 1
        PROVE  rows'[d] \in F + 1 .. last /\ col[rows'[d]] = cols[d] /\ First(cov, rows[d])
    BY <1>3, <1>10 DEF InFrames
  <2>2. \A n : First(cov, n) => cov[col[n]] # 0 /\ \A y \in OptionOf(n) :
                                   cov[col[y]] = 0 \/ cov[col[n]] <= cov[col[y]]
    BY DEF First
  <2>3. ASSUME NEW d \in 1 .. D - 1 PROVE First(cov, rows[d])'
    <3>1. rows'[d] = rows[d] /\ First(cov, rows[d])
      BY <2>1, <1>10
    <3>2. OptionOf(rows[d])' = OptionOf(rows[d]) /\ col' = col
      BY <3>1, <1>2 DEF OptionOf
    <3> QED  BY <3>1, <3>2 DEF First
  <2>4. First(cov, m) => First(cov, rows[D])'
    <3>1. cols' = cols /\ rows'[D] = m
      BY <1>1, <1>10
    <3> HIDE DEF m
    <3> QED  BY <3>1, <1>2 DEF First, OptionOf
  <2>5. AtHeader' <=> m = cols[D]
    BY <1>1, <1>3, <1>10 DEF AtHeader
  <2>6. cols' = cols /\ Len(cols) = D /\ Len(rows') = D /\ col' = col /\ last' = last
    BY <1>1, <1>2, <1>10
  <2>7. \A d \in 1 .. D - 1 : /\ rows'[d] \in F + 1 .. last' /\ col'[rows'[d]] = cols'[d]
                              /\ First(cov, rows[d])'
    BY <2>1, <2>3, <2>6
  <2>8. IF AtHeader' THEN rows'[D] = cols'[D]
        ELSE rows'[D] \in F + 1 .. last' /\ col'[rows'[D]] = cols'[D] /\ First(cov, rows[D])'
    BY <1>9, <1>10, <2>4, <2>5, <2>6
  <2> HIDE DEF m
  <2>9. \A d \in 1 .. D : IF d = D /\ AtHeader' THEN rows'[d] = cols'[d]
           ELSE rows'[d] \in F + 1 .. last' /\ col'[rows'[d]] = cols'[d] /\ First(cov, rows[d])'
    <3> SUFFICES ASSUME NEW d \in 1 .. D
                 PROVE  IF d = D /\ AtHeader' THEN rows'[d] = cols'[d]
           ELSE rows'[d] \in F + 1 .. last' /\ col'[rows'[d]] = cols'[d] /\ First(cov, rows[d])'
      OBVIOUS
    <3>1. CASE d = D
      BY <3>1, <2>8, <2>6 DEF First, OptionOf
    <3>2. CASE d \in 1 .. D - 1
      BY <3>2, <2>7
    <3> QED  BY <3>1, <3>2, <1>3
  <2> QED  BY <2>6, <2>9, <1>8 DEF InFrames
<1>14. Scanning(F, cov, gone)'
  BY <1>1 DEF Scanning, Sweeping
<1> QED  BY <1>1, <1>2, <1>3, <1>5, <1>7, <1>11, <1>12, <1>13, <1>14 DEF Solving, Levels

\* The board has one of three sizes.
LEMMA Sizes == Side \in {1, 4, 9} /\ Box \in {1, 2, 3} /\ MaxNodes \in Nat
<1>1. Box = 1 \/ Box = 2 \/ Box = 3
  BY SolverAssumption
<1>2. Side = 1 \/ Side = 4 \/ Side = 9
  BY <1>1 DEF Side
<1>3. MaxNodes \in Nat
  BY <1>2 DEF MaxNodes
<1> QED  BY <1>1, <1>2, <1>3

\* What TypeOK says of the arrays.
LEMMA Arrays ==
  ASSUME TypeOK
  PROVE  /\ last \in Nat /\ last \in Nodes /\ 1 .. last \subseteq Nodes
         /\ left \in [Nodes -> 0 .. last] /\ right \in [Nodes -> 0 .. last]
         /\ up \in [Nodes -> 0 .. last] /\ down \in [Nodes -> 0 .. last]
         /\ size \in [Nodes -> Nat] /\ col \in [Nodes -> 0 .. last]
         /\ cols \in Seq(1 .. last) /\ rows \in Seq(1 .. last)
<1>1. last \in 1 .. MaxNodes /\ MaxNodes \in Nat
  BY Sizes DEF TypeOK, Nodes
<1>2. 1 .. last \subseteq Nodes
  BY <1>1 DEF Nodes
<1>3. {left, right, up, down, col} \subseteq [Nodes -> 0 .. last]
  BY DEF TypeOK
<1>4. /\ size \in [Nodes -> Nat] /\ cols \in Seq(1 .. last) /\ rows \in Seq(1 .. last)
      /\ last \in Nodes
  BY DEF TypeOK
<1>5. last \in Nat
  BY <1>1
<1>6. /\ left \in [Nodes -> 0 .. last] /\ right \in [Nodes -> 0 .. last]
      /\ up \in [Nodes -> 0 .. last] /\ down \in [Nodes -> 0 .. last]
      /\ col \in [Nodes -> 0 .. last]
  BY <1>3
<1> QED  BY <1>2, <1>4, <1>5, <1>6

\* The columns of the row in hand.
LEMMA RowColumns ==
  ASSUME NEW F, NEW cov, NEW gone, NEW Q, Solving(F, cov, gone, Q), TypeOK, Len(cols) > 0,
         Len(rows) = Len(cols), ~AtHeader
  PROVE  /\ \A p \in 0 .. 3 : /\ SlotCol(Len(cols), p) = col[RightBy(rows[Len(rows)], p)]
                              /\ SlotCol(Len(cols), p) \in 2 .. F
         /\ \A p, q \in 0 .. 3 : SlotCol(Len(cols), p) = SlotCol(Len(cols), q) => p = q
<1> DEFINE r == rows[Len(rows)]
           D == Len(cols)
<1>1. /\ r \in F + 1 .. last /\ col[r] = cols[D] /\ F \in Nat /\ last \in Nat /\ RightBy(r, 0) = r
      /\ \A q \in 1 .. 3 : RightBy(r, q) \in OptionOf(r) /\ RightBy(r, q) \in F + 1 .. last
      /\ \A p, q \in 0 .. 3 : RightBy(r, p) = RightBy(r, q) => p = q
  BY RowFacts
<1>2. Shape(F)
  BY DEF Solving
<1> HIDE DEF r, D
<1>3. /\ r \in OptionOf(r)
      /\ \A m \in OptionOf(r) : OptionOf(m) = OptionOf(r)
  BY <1>1, <1>2, OptionFacts
<1>4. \A p \in 0 .. 3 : /\ RightBy(r, p) \in OptionOf(r) /\ RightBy(r, p) \in F + 1 .. last
  BY <1>1, <1>3
<1>5. \A p \in 0 .. 3 : col[RightBy(r, p)] \in 2 .. F
  BY <1>4, <1>2 DEF Shape
<1>6. \A p \in 0 .. 3 : SlotCol(D, p) = col[RightBy(r, p)]
  BY <1>1 DEF SlotCol, r, D
<1>7. ASSUME NEW p \in 0 .. 3, NEW q \in 0 .. 3, SlotCol(D, p) = SlotCol(D, q) PROVE p = q
  <2>1. col[RightBy(r, p)] = col[RightBy(r, q)]
    BY <1>6, <1>7
  <2>2. OptionOf(RightBy(r, p)) = OptionOf(r)
    BY <1>3, <1>4
  <2>3. RightBy(r, q) \in OptionOf(RightBy(r, p)) /\ RightBy(r, p) \in F + 1 .. last
    BY <1>4, <2>2
  <2>4. RightBy(r, p) = RightBy(r, q)
    BY <1>2, <2>1, <2>3 DEF Shape
  <2> QED  BY <2>4, <1>1
<1> QED  BY <1>5, <1>6, <1>7 DEF r, D

\* cover and uncover work on the column of the last slot.
LEMMA ArgumentIs ==
  ASSUME TypeOK, Len(cols) > 0, NEW p, p \in 0 .. 3, k = 0 => p = 0,
         k # 0 => p # 0 /\ Len(rows) = Len(cols) /\ k = RightBy(rows[Len(rows)], p)
  PROVE  Argument = SlotCol(Len(cols), p)
<1>1. cols \in Seq(1 .. last) /\ Last(cols) = cols[Len(cols)]
  BY DEF TypeOK, Last
<1> QED  BY <1>1 DEF Argument, SlotCol

\* The column to be covered is not covered.
LEMMA CoverArgument ==
  ASSUME NEW F, NEW cov, NEW gone, NEW Q, Solving(F, cov, gone, Q), TypeOK,
         pc = "cover", k # 0 => k # Last(rows)
  PROVE  /\ Q \in -1 .. 2 /\ Argument = SlotCol(Len(cols), Q + 1) /\ Argument \in 2 .. F
         /\ cov[Argument] = 0 /\ Len(cols) > 0 /\ Len(cols) \in Nat
         /\ k = 0 => Q = -1 /\ Len(rows) = Len(cols) - 1
         /\ k # 0 => Q \in 0 .. 2 /\ Len(rows) = Len(cols) /\ k = RightBy(rows[Len(rows)], Q + 1)
<1> DEFINE D == Len(cols)
           r == rows[Len(rows)]
<1>1. /\ D > 0 /\ D \in Nat /\ cols \in Seq(1 .. last) /\ rows \in Seq(1 .. last)
      /\ InFrames(F, cov) /\ Slots(F, cov, Q) /\ ~AtHeader /\ Q \in -1 .. 3
  <2>1. Depth /\ InFrames(F, cov) /\ Slots(F, cov, Q) /\ Q \in -1 .. 3
    BY DEF Solving, Levels
  <2>2. cols \in Seq(1 .. last) /\ rows \in Seq(1 .. last)
    BY DEF TypeOK
  <2> QED  BY <2>1, <2>2 DEF Depth, AtHeader
<1>2. CASE k = 0
  <2>1. Q = -1 /\ Len(rows) = D - 1 /\ cov[cols[D]] = 0
    BY <1>2 DEF Solving, Levels, Position, Depth, Scanning
  <2>2. Argument = SlotCol(D, 0) /\ SlotCol(D, 0) = cols[D]
    BY <1>1, <1>2, ArgumentIs DEF SlotCol
  <2>3. cols[D] \in 2 .. F
    BY <1>1 DEF InFrames
  <2> QED  BY <1>1, <1>2, <2>1, <2>2, <2>3
<1>3. CASE k # 0
  <2>1. Q \in 0 .. 3 /\ k = RightBy(r, Q + 1) /\ Len(rows) = D
    BY <1>3 DEF Solving, Levels, Position, Depth
  <2>2. /\ RightBy(r, 0) = r /\ RightBy(r, 4) = r /\ r = Last(rows) /\ r \in F + 1 .. last
        /\ First(cov, r) /\ RightBy(r, Q + 1) # r
    BY <1>1, <1>3, <2>1, RowFacts
  <2>3. Q \in 0 .. 2
    BY <2>1, <2>2
  <2>4. Argument = SlotCol(D, Q + 1)
    BY <1>1, <1>3, <2>1, <2>3, ArgumentIs
  <2>5. /\ \A p \in 0 .. 3 : /\ SlotCol(D, p) = col[RightBy(r, p)] /\ SlotCol(D, p) \in 2 .. F
        /\ \A p, q \in 0 .. 3 : SlotCol(D, p) = SlotCol(D, q) => p = q
    BY <1>1, <2>1, RowColumns
  <2> DEFINE c == Argument
  <2>6. c \in 2 .. F /\ c = col[RightBy(r, Q + 1)]
    BY <2>3, <2>4, <2>5
  <2>7. ASSUME cov[c] # 0 PROVE FALSE
    <3>1. F \in Nat /\ F \in 1 .. last
      BY DEF Solving, Shape, TypeOK, Nodes
    <3>2. PICK d, q \in Nat : Slot(Q, d, q) /\ SlotCol(d, q) = c /\ cov[c] = At(d, q)
      <4> HIDE DEF c
      <4>1. c \in 1 .. F
        BY <2>6, <3>1
      <4> QED  BY <4>1, <2>7, <1>1, CovSlot
    <3>3. cov[cols[D]] = At(D, 0) /\ col[r] = cols[D]
      <4>1. Slot(Q, D, 0) /\ SlotCol(D, 0) = cols[D]
        BY <1>1, <2>3 DEF Slot, SlotCol
      <4>2. 0 \in 0 .. 3
        OBVIOUS
      <4> QED  BY <4>1, <4>2, <1>1, <2>2, <2>5 DEF Slots
    <3>4. cov[col[r]] <= cov[c]
      <4>1. RightBy(r, Q + 1) \in OptionOf(r)
        <5>1. \A p \in 1 .. 3 : RightBy(r, p) \in OptionOf(r)
          BY <1>1, <2>1, RowFacts
        <5>2. Q + 1 \in 1 .. 3
          BY <2>3
        <5> QED  BY <5>1, <5>2
      <4> QED  BY <4>1, <2>2, <2>6, <2>7 DEF First
    <3>5. d = D /\ q \in 0 .. Q
      <4>1. At(D, 0) <= At(d, q)
        BY <3>2, <3>3, <3>4
      <4>2. d <= D /\ q <= 3 /\ (d = D => q <= Q)
        BY <3>2, <1>1 DEF Slot
      <4> QED  BY <4>1, <4>2, <1>1, <2>3 DEF At
    <3>6. q \in 0 .. 3 /\ Q + 1 \in 0 .. 3 /\ SlotCol(D, q) = SlotCol(D, Q + 1) /\ q # Q + 1
      BY <3>2, <3>5, <2>3, <2>4
    <3> QED  BY <3>6, <2>5
  <2> QED  BY <1>1, <1>3, <2>1, <2>3, <2>4, <2>6, <2>7
<1> QED  BY <1>2, <1>3

\* Where the columns of the calls are does not change with the links of columns.
LEMMA RightByKept ==
  ASSUME NEW F, Shape(F), last \in Nat, NEW n \in F + 1 .. last, NEW q,
         \A m \in F + 1 .. last : right'[m] = right[m]
  PROVE  RightBy(n, q)' = RightBy(n, q)
<1>1. right[n] \in F + 1 .. last /\ right[right[n]] \in F + 1 .. last
  BY RingFacts
<1> QED  BY <1>1 DEF RightBy

\* The slots' columns stay where the header's links change.
LEMMA SlotColKept ==
  ASSUME NEW F, NEW cov, Shape(F), last \in Nat, InFrames(F, cov), UNCHANGED col,
         \A m \in F + 1 .. last : right'[m] = right[m],
         NEW d \in Nat, d \in 1 .. Len(cols), cols'[d] = cols[d], NEW q,
         q = 0 \/ (d \in 1 .. Len(rows) /\ ~(d = Len(cols) /\ AtHeader) /\ rows'[d] = rows[d])
  PROVE  SlotCol(d, q)' = SlotCol(d, q)
<1>1. CASE q = 0
  BY <1>1 DEF SlotCol
<1>2. CASE q # 0
  <2>1. PICK r : r = rows[d] /\ r = rows'[d] /\ r \in F + 1 .. last
    BY <1>2 DEF InFrames
  <2>3. RightBy(r, q)' = RightBy(r, q)
    BY <2>1, RightByKept
  <2>4. RightBy(rows[d], q)' = RightBy(r, q)'
    BY <2>1 DEF RightBy
  <2> QED  BY <1>2, <2>1, <2>3, <2>4 DEF SlotCol
<1> QED  BY <1>1, <1>2

\* cover takes the column out of the root's list before it touches its rows.
LEMMA CoverKeeps ==
  ASSUME NEW F, NEW cov, NEW gone, NEW Q, Solving(F, cov, gone, Q), TypeOK, Cover,
         NEW c, c = Argument, NEW D, D = Len(cols), NEW P, P = Q + 1,
         NEW cov2, cov2 = [cov EXCEPT ![c] = At(D, P)]
  PROVE  Solving(F, cov2, gone, P)'
<1>1. /\ pc = "cover" /\ pc' = "coverRows" /\ (k # 0 => k # Last(rows))
      /\ left' = [left EXCEPT ![right[c]] = left[c]]
      /\ right' = [right EXCEPT ![left[c]] = right[c]]
      /\ i' = down[c] /\ j' = right[down[c]]
      /\ UNCHANGED <<lists, names, cols, rows, k>>
  BY DEF Cover, frames
<1>2. UNCHANGED <<up, down, size, col, name, last, columns>>
  BY <1>1 DEF lists, names
<1>a. last \in Nat /\ F \in Nat /\ F \in 1 .. last
  BY Arrays DEF Solving, Shape
<1>b. /\ left \in [Nodes -> 0 .. last] /\ right \in [Nodes -> 0 .. last]
      /\ 1 .. last \subseteq Nodes
  BY Arrays
<1>3. /\ Q \in -1 .. 2 /\ c = SlotCol(D, P) /\ c \in 2 .. F /\ cov[c] = 0 /\ D > 0 /\ D \in Nat
      /\ k = 0 => Q = -1 /\ Len(rows) = D - 1
      /\ k # 0 => Q \in 0 .. 2 /\ Len(rows) = D /\ k = RightBy(rows[Len(rows)], P)
  BY <1>1, CoverArgument
<1>4. /\ Shape(F) /\ Gone(F, cov, gone) /\ Lists(F, cov, gone) /\ InFrames(F, cov)
      /\ Slots(F, cov, Q) /\ cov[1] = 0
  BY DEF Solving, Levels
<1>c. cov \in [1 .. F -> Nat] /\ gone \in [1 .. last -> Nat]
  BY <1>4 DEF Lists
<1>5. At(D, P) \in Nat /\ At(D, P) > 0 /\ \A d \in 1 .. F : cov[d] < At(D, P)
  <2>1. At(D, P) \in Nat /\ At(D, P) > At(D, Q) /\ At(D, P) > 0
    BY <1>3 DEF At
  <2>0. Q \in -1 .. 3 /\ Len(cols) \in Nat
    BY <1>3
  <2>2. ASSUME NEW d \in 1 .. F PROVE cov[d] < At(D, P)
    <3>1. cov[d] # 0 => cov[d] <= At(D, Q)
      BY <1>4, <2>0, CovLast
    <3>2. cov[d] \in Nat /\ At(D, Q) \in Int
      BY <1>3, <1>c DEF At
    <3> QED  BY <2>1, <3>1, <3>2
  <2> QED  BY <2>1, <2>2
<1>6. /\ c \in 1 .. F /\ cov2[c] = At(D, P) /\ cov2 \in [1 .. F -> Nat]
      /\ \A d \in 1 .. F : d # c => cov2[d] = cov[d]
  BY <1>3, <1>a, <1>c, <1>5, SMTT(20)
<1>7. /\ right[c] \in 1 .. F /\ left[c] \in 1 .. F /\ right[c] # c
  <2>1. /\ right[c] \in 1 .. F /\ left[c] \in 1 .. F
        /\ Follows(InHeader(F, cov), c, right[c])
    BY <1>a, <1>3, <1>4, <1>6, HeaderRing
  <2>2. right[c] # c
    <3>1. 1 \in InHeader(F, cov)
      BY <1>a, <1>4 DEF InHeader
    <3> SUFFICES ASSUME right[c] = c PROVE FALSE
      OBVIOUS
    <3>2. c <= 1
      BY <2>1, <3>1, <1>3 DEF Follows
    <3> QED  BY <3>2, <1>3
  <2> QED  BY <2>1, <2>2
<1>8. /\ \A n \in Nodes : n # left[c] => right'[n] = right[n]
      /\ \A n \in Nodes : n # right[c] => left'[n] = left[n]
      /\ right'[left[c]] = right[c] /\ left'[right[c]] = left[c]
  <2>1. left[c] \in Nodes /\ right[c] \in Nodes
    BY <1>a, <1>b, <1>7
  <2> QED  BY <2>1, <1>1, <1>b
<1>9. \A n \in F + 1 .. last : right'[n] = right[n] /\ left'[n] = left[n]
  <2>1. \A n \in F + 1 .. last : n \in 1 .. last /\ n # left[c] /\ n # right[c]
    BY <1>a, <1>7
  <2> QED  BY <2>1, <1>b, <1>8
<1>10. Shape(F)' /\ \A n \in F + 1 .. last : OptionOf(n)' = OptionOf(n)
  BY <1>1, <1>a, <1>4, <1>9, ShapeKept
<1>11. Argument' = c
  BY <1>1, <1>2 DEF Argument
<1>12. Lists(F, cov2, gone)'
  <2>1. Dancing(1 .. F, One, cov2, right', left')
    <3>1. \A x \in 1 .. F : cov[x] \in Nat /\ One[x] = One[c]
      BY <1>a, <1>c, <1>6 DEF One
    <3>2. \A x \in 1 .. F : /\ x # left[c] => right'[x] = right[x]
                            /\ x # right[c] => left'[x] = left[x]
      <4>1. \A x \in 1 .. F : x \in Nodes
        BY <1>a, <1>b
      <4> QED  BY <4>1, <1>8
    <3>3. 1 .. F \subseteq Nat /\ Dancing(1 .. F, One, cov, right, left)
      BY <1>4 DEF Lists
    <3>4. PICK t : t = At(D, P)
      OBVIOUS
    <3>5. \A x \in 1 .. F : One[x] = One[c] => cov[x] < t \/ (cov[x] = t /\ x < c)
      BY <3>4, <1>5
    <3>6. t \in Nat \ {0} /\ cov2[c] = t /\ \A x \in 1 .. F : x # c => cov2[x] = cov[x]
      BY <3>4, <1>5, <1>6
    <3>7. c \in 1 .. F /\ cov[c] = 0 /\ right[c] # c /\ \A x \in 1 .. F : cov[x] \in Nat
      BY <1>3, <1>6, <1>7, <3>1
    <3>8. Unlinking(1 .. F, One, cov, c, t, right, left, cov2, right', left')
      BY <1>8, <3>2, <3>3, <3>5, <3>6, <3>7 DEF Unlinking
    <3> QED  BY <3>8, UnlinkKeeps
  <2>2. /\ cov2 \in [1 .. F -> Nat] /\ gone \in [1 .. last' -> Nat]
        /\ Dancing(1 .. last', col', gone, down', up')
        /\ \A d \in 2 .. F : size'[d] = Cardinality(OpenIn(F, gone, d)')
    BY <1>2, <1>4, <1>6 DEF Lists, OpenIn
  <2> QED  BY <2>1, <2>2 DEF Lists
<1>13. /\ i' \in 1 .. last /\ col[i'] = c /\ gone[i'] = 0
       /\ i' # c => i' \in F + 1 .. last
       /\ Follows(InColumn(gone, c), c, i')
  <2>0. \A n \in 1 .. F : gone[n] = 0 /\ col[n] = n
    BY <1>4 DEF Gone, Shape
  <2>1. c \in 1 .. last /\ gone[c] = 0 /\ col[c] = c
    BY <2>0, <1>a, <1>6
  <2>2. /\ down[c] \in 1 .. last /\ col[down[c]] = c /\ gone[down[c]] = 0
        /\ Follows(InColumn(gone, col[c]), c, down[c])
    BY <2>1, <1>a, <1>4, ColumnRing
  <2>3. \A n \in 1 .. F : col[n] = n
    BY <1>4 DEF Shape
  <2> QED  BY <2>1, <2>2, <2>3, <1>1, <1>a
<1>14. Gone(F, cov2, gone)'
  <2>1. \A n \in 1 .. F : gone[n] = 0
    BY <1>4 DEF Gone
  <2>2. \A n \in F + 1 .. last : /\ col[n] \in 2 .. F /\ col[n] \in 1 .. F
                                 /\ OptionOf(n) \subseteq F + 1 .. last
                                 /\ \A m \in OptionOf(n) : m # n => col[m] # col[n]
    BY <1>4 DEF Shape
  <2>3. ASSUME NEW n \in F + 1 .. last, \A m \in OptionOf(n) : cov2[col[m]] = 0 PROVE gone[n] = 0
    <3>1. \A m \in OptionOf(n) : cov[col[m]] = 0
      BY <2>2, <2>3, <1>5, <1>6
    <3> QED  BY <3>1, <1>4 DEF Gone
  <2>4. ASSUME NEW n \in F + 1 .. last, NEW x \in OptionOf(n), First(cov2, x)'
        PROVE  gone[n] = IF n = x \/ (col[x] = c /\ ~Swept(x, n)') THEN 0 ELSE cov2[col[x]]
    <3>1. x \in F + 1 .. last /\ OptionOf(x) = OptionOf(n) /\ n \in OptionOf(n)
      BY <1>4, <1>a, OptionFacts
    <3>2. cov2[col[x]] # 0 /\ \A y \in OptionOf(x) : cov2[col[y]] = 0 \/ cov2[col[x]] <= cov2[col[y]]
      BY <2>4, <3>1, <1>2, <1>10 DEF First
    <3>3. CASE col[x] = c
      <4>1. ASSUME NEW m \in OptionOf(n) PROVE cov[col[m]] = 0
        <5>1. CASE m = x
          BY <5>1, <3>3, <1>3
        <5>2. CASE m # x
          <6>1. col[m] \in 1 .. F /\ col[m] # c /\ cov2[col[m]] = cov[col[m]]
            BY <5>2, <3>1, <3>3, <2>2, <1>6
          <6>2. cov[col[m]] = 0 \/ At(D, P) <= cov[col[m]]
            BY <6>1, <3>1, <3>2, <3>3, <1>6
          <6>3. cov[col[m]] < At(D, P) /\ cov[col[m]] \in Nat /\ At(D, P) \in Nat
            BY <6>1, <1>5, <1>c
          <6> QED  BY <6>2, <6>3
        <5> QED  BY <5>1, <5>2
      <4>2. gone[n] = 0 /\ gone[x] = 0
        BY <4>1, <3>1, <1>4 DEF Gone
      <4>3. ~Swept(x, n)' \/ n = x
        <5>1. x \in InColumn(gone, c) /\ c < x /\ c \in Nat /\ x \in Nat
          BY <4>2, <3>1, <3>3, <1>a, <1>6 DEF InColumn
        <5>2. i' # c /\ i' \in F + 1 .. last /\ i' \in Nat /\ c < i' /\ i' <= x
          <6>1. IF c < i' THEN x <= c \/ i' <= x ELSE i' <= x /\ x <= c
            BY <5>1, <1>13 DEF Follows
          <6>2. i' \in Nat
            BY <1>13, <1>a
          <6>3. i' # c
            BY <5>1, <6>1, <6>2
          <6>4. i' \in F + 1 .. last /\ c < i'
            BY <6>3, <1>13, <1>3, <1>a
          <6> QED  BY <5>1, <6>1, <6>2, <6>3, <6>4
        <5>3. PICK r1, r2, r3 : r1 = right[i'] /\ r2 = right[right[i']] /\ r3 = right[right[right[i']]]
          OBVIOUS
        <5>4. /\ {r1, r2, r3} \subseteq F + 1 .. last /\ r1 # i' /\ r2 # i' /\ r3 # i'
              /\ r1 # r2 /\ r1 # r3 /\ r2 # r3
          BY <5>2, <5>3, <1>4, <1>a, RingFacts
        <5>5. r1 = right'[i'] /\ r2 = right'[right'[i']] /\ r3 = right'[right'[right'[i']]] /\ j' = r1
          BY <5>2, <5>3, <5>4, <1>1, <1>9
        <5>6. ~(x < i')
          BY <5>1, <5>2
        <5> QED  BY <5>2, <5>4, <5>5, <5>6, <1>1, <1>11 DEF Swept
      <4> QED  BY <4>2, <4>3, <3>3
    <3>4. CASE col[x] # c
      <4>1. col[x] \in 1 .. F /\ cov2[col[x]] = cov[col[x]] /\ cov[col[x]] # 0
        BY <3>1, <3>2, <3>4, <2>2, <1>6
      <4>2. First(cov, x)
        <5>1. ASSUME NEW y \in OptionOf(x) PROVE cov[col[y]] = 0 \/ cov[col[x]] <= cov[col[y]]
          <6>1. CASE col[y] = c
            BY <6>1, <1>3
          <6>2. CASE col[y] # c
            <7>1. cov2[col[y]] = cov[col[y]]
              BY <6>2, <3>1, <2>2, <1>6
            <7> QED  BY <7>1, <4>1, <3>2
          <6> QED  BY <6>1, <6>2
        <5> QED  BY <4>1, <5>1 DEF First
      <4>3. gone[n] = IF n = x \/ (Sweeping /\ col[x] = Argument /\ ~Swept(x, n)) THEN 0
                      ELSE cov[col[x]]
        BY <4>2, <1>4 DEF Gone
      <4>4. ~Sweeping
        BY <1>1 DEF Sweeping
      <4> QED  BY <4>1, <4>3, <4>4, <3>4
    <3> QED  BY <3>3, <3>4
  <2>5. Sweeping'
    BY <1>1 DEF Sweeping
  <2>6. \A n \in F + 1 .. last' : (\A m \in OptionOf(n)' : cov2[col'[m]] = 0) => gone[n] = 0
    BY <2>3, <1>2, <1>10
  <2>7. \A n \in F + 1 .. last' : \A x \in OptionOf(n)' : First(cov2, x)' =>
           gone[n] = IF n = x \/ (Sweeping' /\ col'[x] = Argument' /\ ~Swept(x, n)') THEN 0
                     ELSE cov2[col'[x]]
    BY <2>4, <2>5, <1>2, <1>10, <1>11
  <2> QED  BY <2>1, <2>6, <2>7 DEF Gone
<1>15. Slots(F, cov2, P)'
  <2>1. ASSUME NEW d \in Nat, NEW q \in Nat
        PROVE  Slot(P, d, q)' <=> Slot(Q, d, q) \/ (d = D /\ q = P)
    BY <1>1, <1>3 DEF Slot
  <2>2. ASSUME NEW d \in Nat, NEW q \in Nat, Slot(P, d, q)' PROVE SlotCol(d, q)' = SlotCol(d, q)
    <3>1. (d \in 1 .. D /\ q \in 0 .. P) \/ d \in 1 .. D - 1
      BY <2>1, <2>2, <1>3 DEF Slot
    <3>2. q = 0 \/ d \in 1 .. Len(rows)
      BY <3>1, <1>3
    <3>3. ~AtHeader /\ UNCHANGED col /\ d \in 1 .. Len(cols)
      BY <3>1, <1>1, <1>2, <1>3 DEF AtHeader
    <3>4. cols'[d] = cols[d] /\ rows'[d] = rows[d]
      BY <1>1
    <3> QED  BY <3>2, <3>3, <3>4, <1>4, <1>a, <1>9, SlotColKept
  <2>3. ASSUME NEW d \in Nat, NEW q \in Nat, Slot(P, d, q)' PROVE cov2[SlotCol(d, q)'] = At(d, q)
    <3>1. CASE d = D /\ q = P
      BY <3>1, <2>2, <2>3, <1>3, <1>6
    <3>2. CASE Slot(Q, d, q)
      <4>1. cov[SlotCol(d, q)] = At(d, q) /\ d \in Nat /\ d > 0
        BY <3>2, <1>4 DEF Slots, Slot
      <4>2. cov[SlotCol(d, q)] # 0
        BY <4>1 DEF At
      <4>3. SlotCol(d, q) # c
        BY <4>2, <1>3
      <4>4. cov2[SlotCol(d, q)] = cov[SlotCol(d, q)]
        BY <4>3
      <4> QED  BY <4>1, <4>4, <2>2, <2>3
    <3> QED  BY <3>1, <3>2, <2>1, <2>3
  <2>4. ASSUME NEW e \in 1 .. F, cov2[e] # 0
        PROVE  \E d, q \in Nat : Slot(P, d, q)' /\ SlotCol(d, q)' = e
    <3>1. CASE e = c
      <4>1. D \in Nat /\ P \in Nat /\ Slot(P, D, P)'
        BY <2>1, <1>3
      <4>2. SlotCol(D, P)' = c
        BY <4>1, <2>2, <1>3
      <4> QED  BY <3>1, <4>1, <4>2
    <3>2. CASE e # c
      <4>1. cov[e] # 0
        BY <3>2, <2>4, <1>6
      <4>2. PICK d, q \in Nat : Slot(Q, d, q) /\ SlotCol(d, q) = e
        BY <4>1, <1>4 DEF Slots
      <4> QED  BY <4>2, <2>1, <2>2
    <3> QED  BY <3>1, <3>2
  <2> QED  BY <2>3, <2>4 DEF Slots
<1>16. InFrames(F, cov2)'
  <2>1. ~AtHeader /\ ~AtHeader'
    BY <1>1 DEF AtHeader
  <2>2. ASSUME NEW d \in 1 .. Len(rows)
        PROVE  rows[d] \in F + 1 .. last /\ col[rows[d]] = cols[d] /\ First(cov2, rows[d])'
    <3>1. rows[d] \in F + 1 .. last /\ col[rows[d]] = cols[d] /\ First(cov, rows[d])
      BY <2>1, <1>4 DEF InFrames
    <3>2. OptionOf(rows[d])' = OptionOf(rows[d]) /\ OptionOf(rows[d]) \subseteq F + 1 .. last
      <4>1. OptionOf(rows[d])' = OptionOf(rows'[d]) \/ rows' = rows
        BY <1>1
      <4>2. PICK r : r = rows[d] /\ r = rows'[d]
        BY <1>1
      <4>3. OptionOf(r)' = OptionOf(r) /\ OptionOf(r) \subseteq F + 1 .. last
        BY <3>1, <4>2, <1>10, <1>4, <1>a, OptionFacts
      <4> QED  BY <4>2, <4>3 DEF OptionOf
    <3>3. \A m \in F + 1 .. last : col[m] \in 1 .. F
      BY <1>4, <1>a DEF Shape
    <3>4. cov[col[rows[d]]] # 0 /\ \A y \in OptionOf(rows[d]) :
             cov[col[y]] = 0 \/ cov[col[rows[d]]] <= cov[col[y]]
      BY <3>1 DEF First
    <3>5. cov2[col[rows[d]]] = cov[col[rows[d]]] /\ cov[col[rows[d]]] < At(D, P)
      BY <3>1, <3>3, <3>4, <1>3, <1>5, <1>6
    <3>6. ASSUME NEW y \in OptionOf(rows[d])
          PROVE  cov2[col[y]] = 0 \/ cov2[col[rows[d]]] <= cov2[col[y]]
      <4>1. CASE col[y] = c
        <5>1. cov2[col[y]] = At(D, P) /\ cov[col[rows[d]]] \in Nat
          BY <4>1, <1>6, <3>1, <3>3, <1>c
        <5> QED  BY <5>1, <3>5, <1>5
      <4>2. CASE col[y] # c
        <5>1. cov2[col[y]] = cov[col[y]]
          BY <4>2, <3>2, <3>3, <1>6
        <5> QED  BY <5>1, <3>4, <3>5
      <4> QED  BY <4>1, <4>2
    <3>7. rows' = rows /\ col' = col
      BY <1>1, <1>2
    <3>8. cov2[col[rows[d]]] # 0
      BY <3>4, <3>5
    <3>9. First(cov2, rows[d])'
      BY <3>2, <3>6, <3>7, <3>8 DEF First
    <3> QED  BY <3>1, <3>9
  <2>3. \A d \in 1 .. Len(cols) : cols[d] \in 2 .. F
    BY <1>4 DEF InFrames
  <2> QED  BY <2>1, <2>2, <2>3, <1>1, <1>2 DEF InFrames
<1>17. Position(P)' /\ Depth'
  <2>1. Depth'
    BY <1>1, <1>3 DEF Depth
  <2>2. CASE k = 0
    BY <2>1, <2>2, <1>1, <1>3 DEF Position
  <2>3. CASE k # 0
    <3>1. P \in 1 .. 3 /\ Len(rows) = D /\ k = RightBy(rows[Len(rows)], P)
      BY <2>3, <1>3
    <3>2. rows[Len(rows)] \in F + 1 .. last
      BY <3>1, <1>1, <1>3, <1>4 DEF InFrames, AtHeader
    <3>3. PICK r : r = rows[Len(rows)] /\ (rows[Len(rows)])' = r
      BY <1>1
    <3>4. RightBy(r, P)' = RightBy(r, P)
      <4>1. r \in F + 1 .. last /\ (\A m \in F + 1 .. last : right'[m] = right[m])
        BY <3>2, <3>3, <1>9
      <4> QED  BY <4>1, <1>4, <1>a, RightByKept
    <3>5. (k = RightBy(rows[Len(rows)], P))'
      BY <3>1, <3>3, <3>4, <1>1 DEF RightBy
    <3> QED  BY <2>1, <2>3, <3>1, <3>5, <1>1 DEF Position
  <2> QED  BY <2>2, <2>3
<1>18. Scanning(F, cov2, gone)'
  <2>1. PICK x : x = i' /\ j' = right[x]
    BY <1>1
  <2>2. x = c \/ (x \in F + 1 .. last /\ col[x] = c /\ gone[x] = 0 /\ j' \in OptionOf(x)')
    <3>1. x \in F + 1 .. last => right'[x] = right[x]
      BY <1>9
    <3> QED  BY <2>1, <3>1, <1>13 DEF OptionOf
  <2>3. (j \in OptionOf(i))' <=> j' \in OptionOf(x)'
    BY <2>1 DEF OptionOf
  <2> QED  BY <2>1, <2>2, <2>3, <1>1, <1>2, <1>11 DEF Scanning
<1>19. P \in -1 .. 3 /\ cov2[1] = 0
  BY <1>3, <1>4, <1>6, <1>a
<1> QED  BY <1>10, <1>12, <1>14, <1>15, <1>16, <1>17, <1>18, <1>19 DEF Solving, Levels

\* The column being covered or uncovered is the one covered last.
LEMMA SweepArgument ==
  ASSUME NEW F, NEW cov, NEW gone, NEW Q, Solving(F, cov, gone, Q), TypeOK,
         Sweeping \/ (pc = "uncover" /\ (k # 0 => k # Last(rows)))
  PROVE  /\ Q \in 0 .. 3 /\ Argument = SlotCol(Len(cols), Q) /\ Argument \in 2 .. F
         /\ cov[Argument] = At(Len(cols), Q) /\ Len(cols) > 0 /\ Len(cols) \in Nat
         /\ \A d \in 1 .. F : cov[d] < cov[Argument] \/ d = Argument
         /\ k = 0 => Q = 0
         /\ k # 0 => Q \in 1 .. 3 /\ Len(rows) = Len(cols) /\ k = RightBy(rows[Len(rows)], Q)
         /\ (k = 0 /\ pc = "coverRows") \/ Len(rows) = Len(cols)
<1> DEFINE D == Len(cols)
           r == rows[Len(rows)]
<1>1. /\ D > 0 /\ D \in Nat /\ cols \in Seq(1 .. last) /\ rows \in Seq(1 .. last)
      /\ InFrames(F, cov) /\ Slots(F, cov, Q) /\ (k # 0 => ~AtHeader) /\ Q \in -1 .. 3
      /\ (k = 0 /\ pc = "coverRows") \/ Len(rows) = D
  <2>1. Depth /\ InFrames(F, cov) /\ Slots(F, cov, Q) /\ Q \in -1 .. 3
    BY DEF Solving, Levels
  <2>2. cols \in Seq(1 .. last) /\ rows \in Seq(1 .. last)
    BY DEF TypeOK
  <2>3. (k = 0 /\ pc = "coverRows") \/ Len(rows) = D
    BY <2>1 DEF Depth, Sweeping
  <2>4. D > 0 /\ D \in Nat
    BY <2>1, <2>2 DEF Depth, Sweeping
  <2>5. k # 0 => ~AtHeader
    BY DEF AtHeader, Sweeping
  <2> QED  BY <2>1, <2>2, <2>3, <2>4, <2>5
<1>2. k = 0 => Q = 0
  BY DEF Solving, Levels, Position, Sweeping
<1>3. ASSUME k # 0 PROVE Q \in 1 .. 3 /\ Len(rows) = D /\ k = RightBy(r, Q)
  <2>1. Q \in 0 .. 3 /\ k = RightBy(r, Q) /\ Len(rows) = D /\ (Sweeping => Q \in 1 .. 3)
    BY <1>1, <1>3 DEF Solving, Levels, Position, Sweeping
  <2>2. RightBy(r, 0) = r /\ r = Last(rows)
    BY <1>1, <1>3, <2>1, RowFacts
  <2>3. Q # 0
    <3> SUFFICES ASSUME Q = 0 PROVE FALSE
      OBVIOUS
    <3>1. k = Last(rows) /\ ~Sweeping
      BY <2>1, <2>2
    <3> QED  BY <3>1, <1>3
  <2> QED  BY <2>1, <2>3
<1>4. Q \in 0 .. 3 /\ Argument = SlotCol(D, Q)
  <2>1. Q \in 0 .. 3
    BY <1>2, <1>3
  <2> QED  BY <2>1, <1>1, <1>2, <1>3, ArgumentIs
<1>5. Argument \in 2 .. F
  <2>1. CASE k = 0
    BY <2>1, <1>1, <1>2, <1>4 DEF InFrames, SlotCol
  <2>2. CASE k # 0
    <3>1. \A p \in 0 .. 3 : SlotCol(D, p) \in 2 .. F
      BY <2>2, <1>1, <1>3, RowColumns
    <3> QED  BY <3>1, <1>4
  <2> QED  BY <2>1, <2>2
<1>6. cov[Argument] = At(D, Q)
  <2>1. Slot(Q, D, Q) /\ D \in Nat /\ Q \in Nat
    BY <1>1, <1>4 DEF Slot
  <2> QED  BY <2>1, <1>1, <1>4 DEF Slots
<1>7. ASSUME NEW d \in 1 .. F PROVE cov[d] < cov[Argument] \/ d = Argument
  <2>1. F \in Nat /\ cov \in [1 .. F -> Nat]
    BY Arrays DEF Solving, Shape, Lists
  <2>2. Argument \in 1 .. F /\ cov[Argument] # 0 /\ cov[Argument] \in Nat
    BY <2>1, <1>1, <1>4, <1>5, <1>6 DEF At
  <2>3. cov[d] = cov[Argument] => d = Argument
    BY <2>2, <1>1, CovOnce DEF Distinct
  <2>4. cov[d] # 0 => cov[d] <= At(D, Q)
    BY <1>1, CovLast
  <2>5. cov[d] \in Nat
    BY <2>1
  <2> QED  BY <2>2, <2>3, <2>4, <2>5, <1>6
<1> QED  BY <1>1, <1>2, <1>3, <1>4, <1>5, <1>6, <1>7

\* uncover puts it back where it was, when all rows are back.
LEMMA UncoveredKeeps ==
  ASSUME NEW F, NEW cov, NEW gone, NEW Q, Solving(F, cov, gone, Q), TypeOK, Uncovered,
         NEW c, c = Argument, NEW D, D = Len(cols), NEW P, P = IF k = 0 THEN 3 ELSE Q - 1,
         NEW cov2, cov2 = [cov EXCEPT ![c] = 0]
  PROVE  Solving(F, cov2, gone, P)'
<1>1. /\ pc = "uncoverRows" /\ i = c
      /\ left' = [left EXCEPT ![right[c]] = c]
      /\ right' = [right EXCEPT ![left[c]] = c]
      /\ UNCHANGED <<lists, names, i, j>>
      /\ k = 0 => /\ cols' = Front(cols) /\ rows' = Front(rows) /\ k' = 0
                  /\ pc' = IF Len(cols) = 1 THEN "done" ELSE "failed"
      /\ k # 0 => k' = left[k] /\ pc' = "uncover" /\ UNCHANGED <<cols, rows>>
  BY DEF Uncovered, NextToUncover
<1>2. UNCHANGED <<up, down, size, col, name, last, columns>>
  BY <1>1 DEF lists, names
<1>a. last \in Nat /\ F \in Nat /\ F \in 1 .. last
  BY Arrays DEF Solving, Shape
<1>b. /\ left \in [Nodes -> 0 .. last] /\ right \in [Nodes -> 0 .. last]
      /\ 1 .. last \subseteq Nodes
  BY Arrays
<1>3. /\ Q \in 0 .. 3 /\ c = SlotCol(D, Q) /\ c \in 2 .. F /\ cov[c] = At(D, Q) /\ D > 0 /\ D \in Nat
      /\ \A d \in 1 .. F : cov[d] < cov[c] \/ d = c
      /\ k = 0 => Q = 0
      /\ k # 0 => Q \in 1 .. 3 /\ k = RightBy(rows[Len(rows)], Q)
      /\ Len(rows) = D
  BY <1>1, SweepArgument DEF Sweeping
<1>4. /\ Shape(F) /\ Gone(F, cov, gone) /\ Lists(F, cov, gone) /\ InFrames(F, cov)
      /\ Slots(F, cov, Q) /\ cov[1] = 0
  BY DEF Solving, Levels
<1>c. cov \in [1 .. F -> Nat] /\ gone \in [1 .. last -> Nat]
  BY <1>4 DEF Lists
<1>5. cov[c] \in Nat /\ cov[c] > 0
  BY <1>3 DEF At
<1>6. /\ c \in 1 .. F /\ cov2[c] = 0 /\ cov2 \in [1 .. F -> Nat]
      /\ \A d \in 1 .. F : d # c => cov2[d] = cov[d]
  BY <1>3, <1>a, <1>c
<1>7. right[c] \in 1 .. F /\ left[c] \in 1 .. F
  <2>1. Dancing(1 .. F, One, cov, right, left)
    BY <1>4 DEF Lists
  <2> QED  BY <2>1, <1>6, DancingIn
<1>8. /\ \A n \in Nodes : n # left[c] => right'[n] = right[n]
      /\ \A n \in Nodes : n # right[c] => left'[n] = left[n]
      /\ right'[left[c]] = c /\ left'[right[c]] = c
  <2>1. left[c] \in Nodes /\ right[c] \in Nodes
    BY <1>a, <1>b, <1>7
  <2> QED  BY <2>1, <1>1, <1>b
<1>9. \A n \in F + 1 .. last : right'[n] = right[n] /\ left'[n] = left[n]
  <2>1. \A n \in F + 1 .. last : n \in 1 .. last /\ n # left[c] /\ n # right[c]
    BY <1>a, <1>7
  <2> QED  BY <2>1, <1>b, <1>8
<1>10. Shape(F)' /\ \A n \in F + 1 .. last : OptionOf(n)' = OptionOf(n)
  BY <1>1, <1>a, <1>4, <1>9, ShapeKept
<1>12. Lists(F, cov2, gone)'
  <2>1. Dancing(1 .. F, One, cov2, right', left')
    <3>1. \A x \in 1 .. F : cov[x] \in Nat
      BY <1>c
    <3>2. \A x \in 1 .. F : /\ x # left[c] => right'[x] = right[x]
                            /\ x # right[c] => left'[x] = left[x]
      <4>1. \A x \in 1 .. F : x \in Nodes
        BY <1>a, <1>b
      <4> QED  BY <4>1, <1>8
    <3>3. 1 .. F \subseteq Nat /\ Dancing(1 .. F, One, cov, right, left)
      BY <1>4 DEF Lists
    <3>4. \A x \in 1 .. F : One[x] = One[c] => cov[x] < cov[c] \/ (cov[x] = cov[c] /\ x <= c)
      BY <1>3, <1>6
    <3>5. cov[c] # 0
      BY <1>5
    <3>8. Relinking(1 .. F, One, cov, c, right, left, cov2, right', left')
      BY <1>6, <1>8, <3>1, <3>2, <3>3, <3>4, <3>5 DEF Relinking
    <3> QED  BY <3>8, RelinkKeeps
  <2>2. /\ cov2 \in [1 .. F -> Nat] /\ gone \in [1 .. last' -> Nat]
        /\ Dancing(1 .. last', col', gone, down', up')
        /\ \A d \in 2 .. F : size'[d] = Cardinality(OpenIn(F, gone, d)')
    BY <1>2, <1>4, <1>6 DEF Lists, OpenIn
  <2> QED  BY <2>1, <2>2 DEF Lists
<1>14. Gone(F, cov2, gone)'
  <2>1. \A n \in 1 .. F : gone[n] = 0
    BY <1>4 DEF Gone
  <2>2. \A n \in F + 1 .. last : /\ col[n] \in 2 .. F /\ col[n] \in 1 .. F
                                 /\ OptionOf(n) \subseteq F + 1 .. last
                                 /\ \A m \in OptionOf(n) : m # n => col[m] # col[n]
    BY <1>4 DEF Shape
  <2>3. ASSUME NEW n \in F + 1 .. last, \A m \in OptionOf(n) : cov2[col[m]] = 0 PROVE gone[n] = 0
    <3>1. CASE \A m \in OptionOf(n) : cov[col[m]] = 0
      BY <3>1, <1>4 DEF Gone
    <3>2. CASE \E m \in OptionOf(n) : cov[col[m]] # 0
      <4>1. PICK m \in OptionOf(n) : cov[col[m]] # 0
        BY <3>2
      <4>2. col[m] = c /\ m \in F + 1 .. last /\ OptionOf(m) = OptionOf(n)
        BY <4>1, <2>2, <2>3, <1>4, <1>6, <1>a, OptionFacts
      <4>3. First(cov, m)
        <5>1. ASSUME NEW y \in OptionOf(m) PROVE cov[col[y]] = 0 \/ cov[col[m]] <= cov[col[y]]
          <6>1. col[y] \in 1 .. F /\ cov2[col[y]] = 0
            BY <4>2, <2>2, <2>3
          <6> QED  BY <6>1, <4>2, <1>5, <1>6
        <5> QED  BY <4>1, <5>1 DEF First
      <4>4. ~Swept(m, n)
        BY <1>1 DEF Swept
      <4> QED  BY <4>2, <4>3, <4>4, <1>1, <1>4 DEF Gone, Sweeping
    <3> QED  BY <3>1, <3>2
  <2>4. ASSUME NEW n \in F + 1 .. last, NEW x \in OptionOf(n), First(cov2, x)'
        PROVE  gone[n] = IF n = x THEN 0 ELSE cov2[col[x]]
    <3>1. x \in F + 1 .. last /\ OptionOf(x) = OptionOf(n) /\ n \in OptionOf(n)
      BY <1>4, <1>a, OptionFacts
    <3>2. cov2[col[x]] # 0 /\ \A y \in OptionOf(x) : cov2[col[y]] = 0 \/ cov2[col[x]] <= cov2[col[y]]
      BY <2>4, <3>1, <1>2, <1>10 DEF First
    <3>3. col[x] # c /\ col[x] \in 1 .. F /\ cov2[col[x]] = cov[col[x]] /\ cov[col[x]] # 0
      BY <3>1, <3>2, <2>2, <1>6
    <3>4. First(cov, x)
      <4>1. ASSUME NEW y \in OptionOf(x) PROVE cov[col[y]] = 0 \/ cov[col[x]] <= cov[col[y]]
        <5>1. CASE col[y] = c
          BY <5>1, <3>3, <1>3, <1>5, <1>c
        <5>2. CASE col[y] # c
          <6>1. cov2[col[y]] = cov[col[y]]
            BY <5>2, <3>1, <2>2, <1>6
          <6> QED  BY <6>1, <3>2, <3>3
        <5> QED  BY <5>1, <5>2
      <4> QED  BY <3>3, <4>1 DEF First
    <3>5. gone[n] = IF n = x \/ (Sweeping /\ col[x] = Argument /\ ~Swept(x, n)) THEN 0
                    ELSE cov[col[x]]
      BY <3>4, <1>4 DEF Gone
    <3> QED  BY <3>3, <3>5
  <2>5. ~Sweeping'
    BY <1>1 DEF Sweeping
  <2>6. \A n \in F + 1 .. last' : (\A m \in OptionOf(n)' : cov2[col'[m]] = 0) => gone[n] = 0
    BY <2>3, <1>2, <1>10
  <2>7. \A n \in F + 1 .. last' : \A x \in OptionOf(n)' : First(cov2, x)' =>
           gone[n] = IF n = x \/ (Sweeping' /\ col'[x] = Argument' /\ ~Swept(x, n)') THEN 0
                     ELSE cov2[col'[x]]
    BY <2>4, <2>5, <1>2, <1>10
  <2> QED  BY <2>1, <2>6, <2>7 DEF Gone
<1>15. /\ Len(cols') = IF k = 0 THEN D - 1 ELSE D
       /\ Len(rows') = Len(cols')
       /\ \A d \in 1 .. Len(cols') : d \in 1 .. D /\ cols'[d] = cols[d] /\ rows'[d] = rows[d]
       /\ P \in 0 .. 3
  <2>1. cols \in Seq(1 .. last) /\ rows \in Seq(1 .. last)
    BY Arrays
  <2>2. CASE k = 0
    BY <2>1, <2>2, <1>1, <1>3 DEF Front
  <2>3. CASE k # 0
    BY <2>1, <2>3, <1>1, <1>3
  <2> QED  BY <2>2, <2>3
<1>16. ~AtHeader'
  <2>1. CASE k = 0
    BY <2>1, <1>1 DEF AtHeader
  <2>2. CASE k # 0
    <3>1. \A p \in 1 .. 3 : left[RightBy(rows[Len(rows)], p)] = RightBy(rows[Len(rows)], p - 1)
      BY <2>2, <1>1, <1>3, RowFacts DEF AtHeader
    <3>2. \A p \in 1 .. 3 : RightBy(rows[Len(rows)], p) # 0
      BY <2>2, <1>1, <1>3, RowFacts DEF AtHeader
    <3>3. RightBy(rows[Len(rows)], 0) # 0
      BY <2>2, <1>1, <1>3, RowFacts DEF AtHeader
    <3>4. k' # 0
      BY <2>2, <3>1, <3>2, <3>3, <1>1, <1>3
    <3> QED  BY <2>2, <3>4, <1>1 DEF AtHeader
  <2> QED  BY <2>1, <2>2
<1>17. Slots(F, cov2, P)'
  <2>1. ASSUME NEW d \in Nat, NEW q \in Nat
        PROVE  Slot(P, d, q)' <=> Slot(Q, d, q) /\ ~(d = D /\ q = Q)
    BY <1>3, <1>15 DEF Slot
  <2>2. ASSUME NEW d \in Nat, NEW q \in Nat, Slot(P, d, q)' PROVE SlotCol(d, q)' = SlotCol(d, q)
    <3>1. d \in 1 .. Len(cols')
      BY <2>2 DEF Slot
    <3>2. d \in 1 .. D /\ cols'[d] = cols[d] /\ rows'[d] = rows[d] /\ d \in 1 .. Len(rows)
      BY <3>1, <1>3, <1>15
    <3>3. q = 0 \/ ~(d = Len(cols) /\ AtHeader)
      <4>1. CASE k = 0
        BY <4>1, <3>1, <1>3, <1>15
      <4>2. CASE k # 0
        BY <4>2, <1>1 DEF AtHeader
      <4> QED  BY <4>1, <4>2
    <3> QED  BY <3>2, <3>3, <1>2, <1>3, <1>4, <1>a, <1>9, SlotColKept
  <2>3. ASSUME NEW d \in Nat, NEW q \in Nat, Slot(Q, d, q), ~(d = D /\ q = Q)
        PROVE  cov[SlotCol(d, q)] = At(d, q) /\ SlotCol(d, q) # c
    <3>1. cov[SlotCol(d, q)] = At(d, q)
      BY <2>3, <1>4 DEF Slots
    <3>2. q <= 3 /\ d <= D
      BY <2>3, <1>3 DEF Slot
    <3>3. At(d, q) # At(D, Q)
      BY <3>2, <2>3, <1>3 DEF At
    <3> QED  BY <3>1, <3>3, <1>3
  <2>4. ASSUME NEW d \in Nat, NEW q \in Nat, Slot(P, d, q)' PROVE cov2[SlotCol(d, q)'] = At(d, q)
    <3>1. cov[SlotCol(d, q)] = At(d, q) /\ SlotCol(d, q) # c
      BY <2>1, <2>3, <2>4
    <3>2. cov2[SlotCol(d, q)] = cov[SlotCol(d, q)]
      BY <3>1
    <3> QED  BY <3>1, <3>2, <2>2, <2>4
  <2>5. ASSUME NEW e \in 1 .. F, cov2[e] # 0
        PROVE  \E d, q \in Nat : Slot(P, d, q)' /\ SlotCol(d, q)' = e
    <3>1. e # c /\ cov[e] # 0
      BY <2>5, <1>6
    <3>2. PICK d, q \in Nat : Slot(Q, d, q) /\ SlotCol(d, q) = e
      BY <3>1, <1>4 DEF Slots
    <3>3. ~(d = D /\ q = Q)
      BY <3>1, <3>2, <1>3
    <3> QED  BY <3>2, <3>3, <2>1, <2>2
  <2> QED  BY <2>4, <2>5 DEF Slots
<1>18. InFrames(F, cov2)'
  <2>1. ASSUME NEW d \in 1 .. Len(rows')
        PROVE  rows[d] \in F + 1 .. last /\ col[rows[d]] = cols[d] /\ First(cov2, rows[d])'
    <3>0. d \in 1 .. D /\ rows'[d] = rows[d] /\ cols'[d] = cols[d] /\ d \in 1 .. Len(rows)
      BY <1>3, <1>15
    <3>1. rows[d] \in F + 1 .. last /\ col[rows[d]] = cols[d] /\ First(cov, rows[d])
      <4>1. ~(d = Len(cols) /\ AtHeader)
        <5>1. CASE k = 0
          BY <5>1, <1>3, <1>15
        <5>2. CASE k # 0
          BY <5>2, <1>1 DEF AtHeader
        <5> QED  BY <5>1, <5>2
      <4> QED  BY <3>0, <4>1, <1>4 DEF InFrames
    <3>2. PICK r : r = rows[d] /\ r = rows'[d]
      BY <3>0
    <3>3. OptionOf(r)' = OptionOf(r) /\ OptionOf(r) \subseteq F + 1 .. last
      BY <3>1, <3>2, <1>10, <1>4, <1>a, OptionFacts
    <3>4. \A m \in F + 1 .. last : col[m] \in 1 .. F
      BY <1>4, <1>a DEF Shape
    <3>5. cov[col[r]] # 0 /\ \A y \in OptionOf(r) : cov[col[y]] = 0 \/ cov[col[r]] <= cov[col[y]]
      BY <3>1, <3>2 DEF First
    <3>6. col[r] # c
      <4>1. Slot(Q, d, 0) /\ SlotCol(d, 0) = col[r] /\ ~(d = D /\ 0 = Q)
        BY <3>0, <3>1, <3>2, <1>3, <1>15 DEF Slot, SlotCol
      <4>2. cov[col[r]] = At(d, 0)
        BY <4>1, <3>0, <1>4 DEF Slots
      <4>3. At(d, 0) # At(D, Q)
        BY <4>1, <3>0, <1>3 DEF At
      <4> QED  BY <4>2, <4>3, <1>3
    <3>7. cov2[col[r]] = cov[col[r]]
      BY <3>1, <3>2, <3>4, <3>6, <1>6
    <3>8. ASSUME NEW y \in OptionOf(r) PROVE cov2[col[y]] = 0 \/ cov2[col[r]] <= cov2[col[y]]
      <4>1. cov2[col[y]] = 0 \/ cov2[col[y]] = cov[col[y]]
        BY <3>3, <3>4, <1>6
      <4> QED  BY <4>1, <3>5, <3>7
    <3>9. First(cov2, r)'
      BY <3>3, <3>5, <3>7, <3>8, <1>2 DEF First
    <3>10. First(cov2, rows[d])' <=> First(cov2, r)'
      BY <3>2 DEF First, OptionOf
    <3> QED  BY <3>1, <3>9, <3>10
  <2>2. \A d \in 1 .. Len(cols') : cols'[d] = cols[d] /\ cols[d] \in 2 .. F /\ rows'[d] = rows[d]
    BY <1>3, <1>4, <1>15 DEF InFrames
  <2> QED  BY <2>1, <2>2, <1>2, <1>15, <1>16 DEF InFrames
<1>19. Position(P)' /\ Depth'
  <2>1. CASE k = 0
    BY <2>1, <1>1, <1>3, <1>15 DEF Position, Depth
  <2>2. CASE k # 0
    <3>1. PICK r : r = rows[Len(rows)] /\ (rows[Len(rows)])' = r
      BY <2>2, <1>1
    <3>2. r \in F + 1 .. last
      BY <2>2, <3>1, <1>1, <1>3, <1>4 DEF InFrames, AtHeader
    <3>3. \A p \in 1 .. 3 : left[RightBy(r, p)] = RightBy(r, p - 1)
      BY <2>2, <3>1, <1>1, <1>3, RowFacts DEF AtHeader
    <3>4. k' = RightBy(r, P) /\ P \in 0 .. 2
      BY <2>2, <3>1, <3>3, <1>1, <1>3
    <3>5. RightBy(r, P)' = RightBy(r, P)
      <4>1. r \in F + 1 .. last /\ (\A m \in F + 1 .. last : right'[m] = right[m])
        BY <3>2, <1>9
      <4> QED  BY <4>1, <1>4, <1>a, RightByKept
    <3>6. (k = RightBy(rows[Len(rows)], P))'
      BY <3>1, <3>4, <3>5 DEF RightBy
    <3>7. Len(cols') > 0 /\ Len(rows') = Len(cols')
      BY <2>2, <1>3, <1>15
    <3>8. k' = 0 => P = 0
      BY <2>2, <1>1, <1>16 DEF AtHeader, Position
    <3> QED  BY <2>2, <3>4, <3>6, <3>7, <3>8, <1>1, <1>15 DEF Position, Depth
  <2> QED  BY <2>1, <2>2
<1>20. Scanning(F, cov2, gone)'
  BY <1>1 DEF Scanning, Sweeping
<1>21. P \in -1 .. 3 /\ cov2[1] = 0
  BY <1>3, <1>4, <1>6, <1>15, <1>a
<1> QED  BY <1>10, <1>12, <1>14, <1>17, <1>18, <1>19, <1>20, <1>21 DEF Solving, Levels

\* Whether node n of the option of x waits for the loop of cover or uncover that is running.
Waits(x, n) == Sweeping /\ col[x] = Argument /\ ~Swept(x, n)

\* Between two rows of a column nothing is unlinked or relinked.
LEMMA GoneKept ==
  ASSUME NEW F, NEW cov, NEW gone, Shape(F), Gone(F, cov, gone), last \in Nat,
         UNCHANGED <<right, col, last>>,
         \A n \in F + 1 .. last : \A x \in OptionOf(n) :
            First(cov, x) /\ n # x => (Waits(x, n)' <=> Waits(x, n))
  PROVE  Gone(F, cov, gone)'
<1>1. \A n \in F + 1 .. last : OptionOf(n)' = OptionOf(n)
  BY DEF OptionOf
<1>2. \A x : First(cov, x)' <=> First(cov, x)
  BY DEF First, OptionOf
<1>3. ASSUME NEW n \in F + 1 .. last, NEW x \in OptionOf(n), First(cov, x)
      PROVE  gone[n] = IF n = x \/ Waits(x, n)' THEN 0 ELSE cov[col[x]]
  <2>1. gone[n] = IF n = x \/ Waits(x, n) THEN 0 ELSE cov[col[x]]
    BY <1>3 DEF Gone, Waits
  <2> QED  BY <2>1, <1>3
<1>4. \A n \in F + 1 .. last' : (\A m \in OptionOf(n)' : cov[col'[m]] = 0) => gone[n] = 0
  BY <1>1 DEF Gone
<1>5. \A n \in F + 1 .. last' : \A x \in OptionOf(n)' : First(cov, x)' =>
         gone[n] = IF n = x \/ (Sweeping' /\ col'[x] = Argument' /\ ~Swept(x, n)') THEN 0
                   ELSE cov[col'[x]]
  BY <1>1, <1>2, <1>3 DEF Waits
<1>6. \A n \in 1 .. F : gone[n] = 0
  BY DEF Gone
<1> QED  BY <1>4, <1>5, <1>6 DEF Gone

\* A step of the loops of cover and uncover that changes no list.
LEMMA SweepQuiet ==
  ASSUME NEW F, NEW cov, NEW gone, NEW Q, Solving(F, cov, gone, Q), TypeOK,
         UNCHANGED <<nodes, cols, rows>>, AtHeader' <=> AtHeader,
         \A n \in F + 1 .. last : \A x \in OptionOf(n) :
            First(cov, x) /\ n # x => (Waits(x, n)' <=> Waits(x, n)),
         Position(Q)', Depth', Scanning(F, cov, gone)'
  PROVE  Solving(F, cov, gone, Q)'
<1>1. UNCHANGED <<left, right, up, down, size, col, name, last, columns>> /\ last \in Nat
  BY Arrays DEF nodes, header, lists, names
<1>2. /\ Shape(F) /\ Gone(F, cov, gone) /\ Lists(F, cov, gone)
      /\ Q \in -1 .. 3 /\ cov[1] = 0 /\ InFrames(F, cov) /\ Slots(F, cov, Q)
  BY DEF Solving, Levels
<1>3. Shape(F)'
  BY <1>1, <1>2, ShapeKept DEF names
<1>4. Lists(F, cov, gone)'
  BY <1>1, <1>2 DEF Lists, OpenIn
<1>5. Gone(F, cov, gone)'
  BY <1>1, <1>2, GoneKept
<1>6. InFrames(F, cov)' /\ Slots(F, cov, Q)'
  BY <1>1, <1>2, SlotsKept, FramesKept
<1> QED  BY <1>1, <1>2, <1>3, <1>4, <1>5, <1>6 DEF Solving, Levels

\* The options linked in the column covered last.
LEMMA SweepColumn ==
  ASSUME NEW F, NEW cov, NEW gone, NEW Q, Solving(F, cov, gone, Q), TypeOK,
         Sweeping \/ (pc = "uncover" /\ (k # 0 => k # Last(rows))), NEW n \in 1 .. last,
         gone[n] = 0, col[n] = Argument
  PROVE  /\ \/ n \in F + 1 .. last /\ First(cov, n)
            \/ n = Argument
         /\ n \in InColumn(gone, Argument) /\ Argument \in InColumn(gone, Argument)
         /\ \A x \in InColumn(gone, Argument) : x \in Nat /\ (x = Argument \/ Argument < x)
<1> PICK c : c = Argument
  OBVIOUS
<1>1. /\ c \in 2 .. F /\ \A d \in 1 .. F : cov[d] < cov[c] \/ d = c
      /\ Q \in 0 .. 3 /\ Len(cols) > 0 /\ Len(cols) \in Nat /\ cov[c] = At(Len(cols), Q)
  BY SweepArgument
<1>2. last \in Nat /\ F \in Nat /\ F \in 1 .. last
  BY Arrays DEF Solving, Shape
<1>3. /\ Shape(F) /\ Gone(F, cov, gone) /\ Slots(F, cov, Q) /\ cov \in [1 .. F -> Nat]
      /\ \A m \in 1 .. F : col[m] = m /\ gone[m] = 0
      /\ \A m \in F + 1 .. last : col[m] \in 2 .. F
  BY DEF Solving, Levels, Shape, Lists, Gone
<1>4. CASE n \in F + 1 .. last
  <2>1. cov[c] # 0
    BY <1>1 DEF At
  <2>2. Distinct(F, cov)
    <3>1. Q \in -1 .. 3
      BY <1>1
    <3> QED  BY <3>1, <1>1, <1>3, CovOnce
  <2>3. Newest(F, cov, col[n])
    BY <1>1, <1>2, <1>3, <2>1 DEF Newest
  <2>4. First(cov, n)
    BY <1>2, <1>3, <1>4, <2>2, <2>3, LinkedIsFirst
  <2> QED  BY <1>1, <1>2, <1>3, <1>4, <2>4 DEF InColumn
<1>5. CASE n \in 1 .. F
  BY <1>1, <1>2, <1>3, <1>5 DEF InColumn
<1> QED  BY <1>2, <1>4, <1>5

\* cover goes on with the row below.
LEMMA NextToCoverKeeps ==
  ASSUME NEW F, NEW cov, NEW gone, NEW Q, Solving(F, cov, gone, Q), TypeOK, NextToCover
  PROVE  Solving(F, cov, gone, Q)'
<1> PICK c : c = Argument
  OBVIOUS
<1>1. /\ pc = "coverRows" /\ pc' = "coverRows" /\ i # c /\ j = i /\ i' = down[i] /\ j' = right[down[i]]
      /\ UNCHANGED <<nodes, cols, rows, k>>
  BY DEF NextToCover, frames
<1>2. UNCHANGED <<left, right, up, down, size, col, name, last, columns>>
  BY <1>1 DEF nodes, header, lists, names
<1>3. last \in Nat /\ F \in Nat /\ F \in 1 .. last
  BY Arrays DEF Solving, Shape
<1>4. /\ Shape(F) /\ Lists(F, cov, gone) /\ Gone(F, cov, gone) /\ Position(Q) /\ Depth
      /\ Scanning(F, cov, gone)
  BY DEF Solving, Levels
<1>5. i \in F + 1 .. last /\ col[i] = c /\ gone[i] = 0 /\ c \in 2 .. F /\ c \in Nat
  <2>1. i \in F + 1 .. last /\ col[i] = c /\ gone[i] = 0
    BY <1>1, <1>4 DEF Scanning, Sweeping
  <2>2. c \in 2 .. F
    BY <1>1, SweepArgument DEF Sweeping
  <2> QED  BY <2>1, <2>2
<1>6. PICK m : m = down[i] /\ m = i'
  BY <1>1
<1>7. /\ m \in 1 .. last /\ col[m] = c /\ gone[m] = 0 /\ Follows(InColumn(gone, c), i, m)
  <2>1. i \in 1 .. last
    BY <1>3, <1>5
  <2>2. /\ down[i] \in 1 .. last /\ col[down[i]] = col[i] /\ gone[down[i]] = 0
        /\ Follows(InColumn(gone, col[i]), i, down[i])
    BY <2>1, <1>3, <1>4, <1>5, ColumnRing
  <2> QED  BY <2>2, <1>5, <1>6
<1>8. /\ (m \in F + 1 .. last /\ First(cov, m)) \/ m = c
      /\ c \in InColumn(gone, c)
      /\ \A x \in InColumn(gone, c) : x \in Nat /\ (x = c \/ c < x)
  BY <1>1, <1>7, SweepColumn DEF Sweeping
<1>9. \A x \in InColumn(gone, c) : x = c \/ (x <= i <=> m = c \/ x < m)
  <2>1. \A x \in InColumn(gone, c) : IF i < m THEN x <= i \/ m <= x ELSE m <= x /\ x <= i
    BY <1>7 DEF Follows
  <2>2. i \in Nat /\ m \in Nat /\ c < i
    BY <1>3, <1>5, <1>7
  <2>3. IF i < m THEN c <= i \/ m <= c ELSE m <= c /\ c <= i
    BY <2>1, <1>8
  <2>4. m \in InColumn(gone, c)
    BY <1>7 DEF Follows
  <2>5. m = c \/ c < m
    BY <2>4, <1>8
  <2> SUFFICES ASSUME NEW x \in InColumn(gone, c), x # c PROVE x <= i <=> m = c \/ x < m
    OBVIOUS
  <2>6. x \in Nat /\ c < x /\ IF i < m THEN x <= i \/ m <= x ELSE m <= x /\ x <= i
    BY <2>1, <1>8
  <2> QED  BY <2>2, <2>3, <2>5, <2>6, <1>5
<1>10. Argument' = c
  BY <1>1, <1>2 DEF Argument
<1>11. ASSUME NEW n \in F + 1 .. last, NEW x \in OptionOf(n), First(cov, x), n # x
       PROVE  Waits(x, n)' <=> Waits(x, n)
  <2>1. CASE col[x] # c
    BY <2>1, <1>2, <1>10 DEF Waits
  <2>2. CASE col[x] = c
    <3>1. x \in F + 1 .. last /\ OptionOf(x) = OptionOf(n) /\ n \in OptionOf(n) /\ x \in Nat
      BY <1>3, <1>4, OptionFacts
    <3>2. gone[x] = 0
      BY <3>1, <1>4, <1>11 DEF Gone
    <3>3. x \in InColumn(gone, c) /\ x # c
      BY <2>2, <3>1, <3>2, <1>3, <1>5 DEF InColumn
    <3>4. Swept(x, n) <=> x <= i
      <4>1. PICK r1, r2, r3 : r1 = right[i] /\ r2 = right[right[i]] /\ r3 = right[right[right[i]]]
        OBVIOUS
      <4>2. OptionOf(i) = {i, r1, r2, r3} /\ i # r1 /\ i # r2 /\ i # r3
        BY <4>1, <1>3, <1>4, <1>5, RingFacts
      <4>3. Swept(x, n) <=> x < i \/ (x = i /\ n \in {r1, r2, r3})
        BY <4>1, <4>2, <1>1 DEF Swept
      <4>4. x = i => n \in {r1, r2, r3}
        BY <4>2, <3>1, <1>11
      <4> QED  BY <4>3, <4>4, <3>1, <1>3, <1>5
    <3>5. Swept(x, n)' <=> m = c \/ x < m
      <4>1. CASE m = c
        BY <4>1, <1>1, <1>6, <1>10 DEF Swept
      <4>2. CASE m # c
        <5>1. PICK r1, r2, r3 : r1 = right[m] /\ r2 = right[right[m]] /\ r3 = right[right[right[m]]]
          OBVIOUS
        <5>2. m # r1 /\ r1 # r2 /\ r1 # r3
          BY <4>2, <5>1, <1>3, <1>4, <1>8, RingFacts
        <5>3. j' = r1 /\ right' = right /\ i' = m
          BY <5>1, <1>1, <1>2, <1>6
        <5> QED  BY <4>2, <5>1, <5>2, <5>3, <1>1, <1>10 DEF Swept
      <4> QED  BY <4>1, <4>2
    <3>6. Swept(x, n)' <=> Swept(x, n)
      BY <3>3, <3>4, <3>5, <1>9
    <3> QED  BY <2>2, <3>6, <1>1, <1>2, <1>10 DEF Waits, Sweeping
  <2> QED  BY <2>1, <2>2
<1>12. AtHeader' <=> AtHeader
  BY <1>1 DEF AtHeader
<1>13. Position(Q)' /\ Depth'
  BY <1>1, <1>2, <1>4 DEF Position, Depth, RightBy
<1>14. Scanning(F, cov, gone)'
  <2>1. m = c \/ (m \in F + 1 .. last /\ col[m] = c /\ gone[m] = 0 /\ j' \in OptionOf(m)')
    BY <1>1, <1>2, <1>6, <1>7, <1>8 DEF OptionOf
  <2>2. (j \in OptionOf(i))' <=> j' \in OptionOf(m)'
    BY <1>6 DEF OptionOf
  <2> QED  BY <2>1, <2>2, <1>1, <1>2, <1>6, <1>10 DEF Scanning
<1> QED  BY <1>1, <1>11, <1>12, <1>13, <1>14, SweepQuiet

\* uncover goes on with the row above.
LEMMA NextToRelinkKeeps ==
  ASSUME NEW F, NEW cov, NEW gone, NEW Q, Solving(F, cov, gone, Q), TypeOK, NextToRelink
  PROVE  Solving(F, cov, gone, Q)'
<1> PICK c : c = Argument
  OBVIOUS
<1>1. /\ pc = "uncoverRows" /\ pc' = "uncoverRows" /\ i # c /\ j = i /\ i' = up[i] /\ j' = left[up[i]]
      /\ UNCHANGED <<nodes, cols, rows, k>>
  BY DEF NextToRelink, frames
<1>2. UNCHANGED <<left, right, up, down, size, col, name, last, columns>>
  BY <1>1 DEF nodes, header, lists, names
<1>3. last \in Nat /\ F \in Nat /\ F \in 1 .. last
  BY Arrays DEF Solving, Shape
<1>4. /\ Shape(F) /\ Lists(F, cov, gone) /\ Gone(F, cov, gone) /\ Position(Q) /\ Depth
      /\ Scanning(F, cov, gone)
  BY DEF Solving, Levels
<1>5. i \in F + 1 .. last /\ col[i] = c /\ gone[i] = 0 /\ c \in 2 .. F /\ c \in Nat
  <2>1. i \in F + 1 .. last /\ col[i] = c /\ gone[i] = 0
    BY <1>1, <1>4 DEF Scanning, Sweeping
  <2>2. c \in 2 .. F
    BY <1>1, SweepArgument DEF Sweeping
  <2> QED  BY <2>1, <2>2
<1>6. PICK m : m = up[i] /\ m = i'
  BY <1>1
<1>7. /\ m \in 1 .. last /\ col[m] = c /\ gone[m] = 0 /\ Follows(InColumn(gone, c), m, i)
  <2>1. i \in 1 .. last
    BY <1>3, <1>5
  <2>2. /\ up[i] \in 1 .. last /\ col[up[i]] = col[i] /\ gone[up[i]] = 0
        /\ Follows(InColumn(gone, col[i]), up[i], i)
    BY <2>1, <1>3, <1>4, <1>5, ColumnRing
  <2> QED  BY <2>2, <1>5, <1>6
<1>8. /\ (m \in F + 1 .. last /\ First(cov, m)) \/ m = c
      /\ c \in InColumn(gone, c) /\ m \in InColumn(gone, c)
      /\ \A x \in InColumn(gone, c) : x \in Nat /\ (x = c \/ c < x)
  BY <1>1, <1>7, SweepColumn DEF Sweeping
<1>9. \A x \in InColumn(gone, c) : x = c \/ (x < i <=> m # c /\ x <= m)
  <2>1. \A x \in InColumn(gone, c) : IF m < i THEN x <= m \/ i <= x ELSE i <= x /\ x <= m
    BY <1>7 DEF Follows
  <2>2. i \in Nat /\ m \in Nat /\ c < i
    BY <1>3, <1>5, <1>7
  <2>3. IF m < i THEN c <= m \/ i <= c ELSE i <= c /\ c <= m
    BY <2>1, <1>8
  <2>5. m = c \/ c < m
    BY <1>8
  <2> SUFFICES ASSUME NEW x \in InColumn(gone, c), x # c PROVE x < i <=> m # c /\ x <= m
    OBVIOUS
  <2>6. x \in Nat /\ c < x /\ IF m < i THEN x <= m \/ i <= x ELSE i <= x /\ x <= m
    BY <2>1, <1>8
  <2> QED  BY <2>2, <2>3, <2>5, <2>6, <1>5
<1>10. Argument' = c
  BY <1>1, <1>2 DEF Argument
<1>11. ASSUME NEW n \in F + 1 .. last, NEW x \in OptionOf(n), First(cov, x), n # x
       PROVE  Waits(x, n)' <=> Waits(x, n)
  <2>1. CASE col[x] # c
    BY <2>1, <1>2, <1>10 DEF Waits
  <2>2. CASE col[x] = c
    <3>1. x \in F + 1 .. last /\ OptionOf(x) = OptionOf(n) /\ n \in OptionOf(n) /\ x \in Nat
      BY <1>3, <1>4, OptionFacts
    <3>2. gone[x] = 0
      BY <3>1, <1>4, <1>11 DEF Gone
    <3>3. x \in InColumn(gone, c) /\ x # c
      BY <2>2, <3>1, <3>2, <1>3, <1>5 DEF InColumn
    <3>4. Swept(x, n) <=> x < i
      <4>1. PICK r1, r2, r3 : r1 = right[i] /\ r2 = right[right[i]] /\ r3 = right[right[right[i]]]
        OBVIOUS
      <4>2. i # r1 /\ i # r2 /\ i # r3
        BY <4>1, <1>3, <1>4, <1>5, RingFacts
      <4> QED  BY <4>1, <4>2, <1>1 DEF Swept
    <3>5. Swept(x, n)' <=> m # c /\ x <= m
      <4>1. CASE m = c
        BY <4>1, <1>1, <1>6, <1>10 DEF Swept
      <4>2. CASE m # c
        <5>1. PICK r1, r2, r3 : r1 = right[m] /\ r2 = right[right[m]] /\ r3 = right[right[right[m]]]
          OBVIOUS
        <5>2. OptionOf(m) = {m, r1, r2, r3} /\ m # r3 /\ left[m] = r3 /\ m \in Nat
          BY <4>2, <5>1, <1>3, <1>4, <1>8, RingFacts
        <5>3. j' = r3 /\ right' = right /\ i' = m
          BY <5>1, <5>2, <1>1, <1>2, <1>6
        <5>4. Swept(x, n)' <=> x < m \/ (x = m /\ n \in {r1, r2, r3})
          BY <4>2, <5>1, <5>2, <5>3, <1>1, <1>10 DEF Swept
        <5>5. x = m => n \in {r1, r2, r3}
          BY <5>2, <3>1, <1>11
        <5> QED  BY <4>2, <5>2, <5>4, <5>5, <3>1
      <4> QED  BY <4>1, <4>2
    <3>6. Swept(x, n)' <=> Swept(x, n)
      BY <3>3, <3>4, <3>5, <1>9
    <3> QED  BY <2>2, <3>6, <1>1, <1>2, <1>10 DEF Waits, Sweeping
  <2> QED  BY <2>1, <2>2
<1>12. AtHeader' <=> AtHeader
  BY <1>1 DEF AtHeader
<1>13. Position(Q)' /\ Depth'
  BY <1>1, <1>2, <1>4 DEF Position, Depth, RightBy
<1>14. Scanning(F, cov, gone)'
  <2>1. m = c \/ (m \in F + 1 .. last /\ col[m] = c /\ gone[m] = 0 /\ j' \in OptionOf(m)')
    <3>1. m \in F + 1 .. last => left[m] \in OptionOf(m)
      BY <1>3, <1>4, RingFacts
    <3>2. j' = left[m] /\ OptionOf(m)' = OptionOf(m)
      BY <1>1, <1>2, <1>6 DEF OptionOf
    <3> QED  BY <3>1, <3>2, <1>7, <1>8
  <2>2. (j \in OptionOf(i))' <=> j' \in OptionOf(m)'
    BY <1>6 DEF OptionOf
  <2> QED  BY <2>1, <2>2, <1>1, <1>2, <1>6, <1>10 DEF Scanning
<1> QED  BY <1>1, <1>11, <1>12, <1>13, <1>14, SweepQuiet

\* uncover starts with the last row.
LEMMA UncoverKeeps ==
  ASSUME NEW F, NEW cov, NEW gone, NEW Q, Solving(F, cov, gone, Q), TypeOK, Uncover
  PROVE  Solving(F, cov, gone, Q)'
<1> PICK c : c = Argument
  OBVIOUS
<1>1. /\ pc = "uncover" /\ pc' = "uncoverRows" /\ i' = up[c] /\ j' = left[up[c]]
      /\ k # 0 => k # Last(rows)
      /\ UNCHANGED <<nodes, cols, rows, k>>
  BY DEF Uncover, frames
<1>2. UNCHANGED <<left, right, up, down, size, col, name, last, columns>>
  BY <1>1 DEF nodes, header, lists, names
<1>3. last \in Nat /\ F \in Nat /\ F \in 1 .. last
  BY Arrays DEF Solving, Shape
<1>4. /\ Shape(F) /\ Lists(F, cov, gone) /\ Gone(F, cov, gone) /\ Position(Q) /\ Depth
  BY DEF Solving, Levels
<1>5. c \in 2 .. F /\ c \in Nat /\ c \in 1 .. last /\ col[c] = c /\ gone[c] = 0
  <2>1. c \in 2 .. F
    BY <1>1, SweepArgument
  <2>2. \A n \in 1 .. F : col[n] = n /\ gone[n] = 0
    BY <1>4 DEF Shape, Gone
  <2> QED  BY <2>1, <2>2, <1>3
<1>6. PICK m : m = up[c] /\ m = i'
  BY <1>1
<1>7. /\ m \in 1 .. last /\ col[m] = c /\ gone[m] = 0 /\ Follows(InColumn(gone, c), m, c)
  <2>2. /\ up[c] \in 1 .. last /\ col[up[c]] = col[c] /\ gone[up[c]] = 0
        /\ Follows(InColumn(gone, col[c]), up[c], c)
    BY <1>3, <1>4, <1>5, ColumnRing
  <2> QED  BY <2>2, <1>5, <1>6
<1>8. /\ (m \in F + 1 .. last /\ First(cov, m)) \/ m = c
      /\ c \in InColumn(gone, c) /\ m \in InColumn(gone, c)
      /\ \A x \in InColumn(gone, c) : x \in Nat /\ (x = c \/ c < x)
  BY <1>1, <1>7, SweepColumn
<1>9. \A x \in InColumn(gone, c) : x = c \/ (m # c /\ x <= m)
  <2>1. \A x \in InColumn(gone, c) : IF m < c THEN x <= m \/ c <= x ELSE c <= x /\ x <= m
    BY <1>7 DEF Follows
  <2>2. m \in Nat /\ (m = c \/ c < m)
    BY <1>3, <1>7, <1>8
  <2> SUFFICES ASSUME NEW x \in InColumn(gone, c), x # c PROVE m # c /\ x <= m
    OBVIOUS
  <2>6. x \in Nat /\ c < x /\ IF m < c THEN x <= m \/ c <= x ELSE c <= x /\ x <= m
    BY <2>1, <1>8
  <2> QED  BY <2>2, <2>6, <1>5
<1>10. Argument' = c
  BY <1>1, <1>2 DEF Argument
<1>11. ASSUME NEW n \in F + 1 .. last, NEW x \in OptionOf(n), First(cov, x), n # x
       PROVE  Waits(x, n)' <=> Waits(x, n)
  <2>1. ~Waits(x, n)
    BY <1>1 DEF Waits, Sweeping
  <2>2. ASSUME col[x] = c PROVE Swept(x, n)'
    <3>1. x \in F + 1 .. last /\ OptionOf(x) = OptionOf(n) /\ n \in OptionOf(n) /\ x \in Nat
      BY <1>3, <1>4, OptionFacts
    <3>2. gone[x] = 0
      BY <3>1, <1>4, <1>11 DEF Gone
    <3>3. x \in InColumn(gone, c) /\ x # c
      BY <2>2, <3>1, <3>2, <1>3, <1>5 DEF InColumn
    <3>4. m # c /\ x <= m
      BY <3>3, <1>9
    <3>5. PICK r1, r2, r3 : r1 = right[m] /\ r2 = right[right[m]] /\ r3 = right[right[right[m]]]
      OBVIOUS
    <3>6. OptionOf(m) = {m, r1, r2, r3} /\ m # r3 /\ left[m] = r3 /\ m \in Nat
      BY <3>4, <3>5, <1>3, <1>4, <1>8, RingFacts
    <3>7. j' = r3 /\ right' = right /\ i' = m
      BY <3>5, <3>6, <1>1, <1>2, <1>6
    <3>8. Swept(x, n)' <=> x < m \/ (x = m /\ n \in {r1, r2, r3})
      BY <3>4, <3>5, <3>6, <3>7, <1>1, <1>10 DEF Swept
    <3>9. x = m => n \in {r1, r2, r3}
      BY <3>6, <3>1, <1>11
    <3> QED  BY <3>4, <3>6, <3>8, <3>9, <3>1
  <2> QED  BY <2>1, <2>2, <1>2, <1>10 DEF Waits
<1>12. AtHeader' <=> AtHeader
  BY <1>1 DEF AtHeader
<1>13. Position(Q)' /\ Depth'
  <2>1. Depth'
    BY <1>1, <1>4 DEF Depth
  <2>2. /\ k = 0 => Q = 0
        /\ k # 0 => Q \in 1 .. 3 /\ k = RightBy(rows[Len(rows)], Q)
    BY <1>1, SweepArgument
  <2> QED  BY <2>1, <2>2, <1>1, <1>2 DEF Position, RightBy
<1>14. Scanning(F, cov, gone)'
  <2>1. m = c \/ (m \in F + 1 .. last /\ col[m] = c /\ gone[m] = 0 /\ j' \in OptionOf(m)')
    <3>1. m \in F + 1 .. last => left[m] \in OptionOf(m)
      BY <1>3, <1>4, RingFacts
    <3>2. j' = left[m] /\ OptionOf(m)' = OptionOf(m)
      BY <1>1, <1>2, <1>6 DEF OptionOf
    <3> QED  BY <3>1, <3>2, <1>7, <1>8
  <2>2. (j \in OptionOf(i))' <=> j' \in OptionOf(m)'
    BY <1>6 DEF OptionOf
  <2> QED  BY <2>1, <2>2, <1>1, <1>2, <1>6, <1>10 DEF Scanning
<1> QED  BY <1>1, <1>11, <1>12, <1>13, <1>14, SweepQuiet

\* When all rows are swept the column is covered.
LEMMA CoveredKeeps ==
  ASSUME NEW F, NEW cov, NEW gone, NEW Q, Solving(F, cov, gone, Q), TypeOK, Covered
  PROVE  Solving(F, cov, gone, Q)'
<1> DEFINE D == Len(cols)
<1>1. /\ pc = "coverRows" /\ i = Argument /\ UNCHANGED <<nodes, cols, i, j>>
      /\ k = 0 => rows' = Append(rows, down[Last(cols)]) /\ pc' = "row" /\ k' = k
      /\ k # 0 => k' = right[k] /\ pc' = "cover" /\ rows' = rows
  BY DEF Covered, FirstRow
<1>2. /\ UNCHANGED <<left, right, up, down, size, col, name, last, columns>>
  BY <1>1 DEF nodes, header, lists, names
<1>3. last \in Nat /\ F \in Nat /\ F \in 1 .. last /\ cols \in Seq(1 .. last) /\ rows \in Seq(1 .. last)
  BY Arrays DEF Solving, Shape
<1>4. /\ Shape(F) /\ Lists(F, cov, gone) /\ Gone(F, cov, gone) /\ Position(Q) /\ Depth
      /\ InFrames(F, cov) /\ Slots(F, cov, Q) /\ cov[1] = 0 /\ Q \in -1 .. 3
  BY DEF Solving, Levels
<1>5. /\ k = 0 => Q = 0
      /\ k # 0 => Q \in 1 .. 3 /\ Len(rows) = D /\ k = RightBy(rows[Len(rows)], Q)
      /\ D > 0 /\ D \in Nat
  BY <1>1, SweepArgument DEF Sweeping
<1>6. \A n : \A x \in OptionOf(n) : First(cov, x) /\ n # x => (Waits(x, n)' <=> Waits(x, n))
  <2>1. ~Sweeping' /\ \A n, x : Swept(x, n)
    BY <1>1 DEF Sweeping, Swept
  <2> QED  BY <2>1 DEF Waits
<1>7. CASE k # 0
  <2>1. ~AtHeader /\ pc' = "cover" /\ rows' = rows /\ cols' = cols
    BY <1>1, <1>7 DEF AtHeader
  <2>2. PICK r : r = rows[Len(rows)] /\ (rows[Len(rows)])' = r
    BY <2>1
  <2>3. \A p \in 1 .. 3 : right[RightBy(r, p)] = RightBy(r, p + 1)
    BY <2>1, <2>2, <1>5, <1>7, RowFacts
  <2>4. \A p \in 1 .. 3 : RightBy(r, p) # 0
    BY <2>1, <2>2, <1>5, <1>7, RowFacts
  <2>5. RightBy(r, 4) # 0
    <3>1. RightBy(r, 4) = r /\ r \in F + 1 .. last
      BY <2>1, <2>2, <1>5, <1>7, RowFacts
    <3> QED  BY <3>1, <1>3
  <2>6. k' = RightBy(r, Q + 1) /\ k' # 0
    <3>1. k' = RightBy(r, Q + 1)
      BY <2>2, <2>3, <1>1, <1>5, <1>7
    <3>2. Q + 1 \in 1 .. 3 \/ Q + 1 = 4
      BY <1>5, <1>7
    <3> QED  BY <3>1, <3>2, <2>4, <2>5
  <2>7. Position(Q)' /\ Depth'
    <3>1. (k = RightBy(rows[Len(rows)], Q + 1))'
      BY <2>2, <2>6, <1>2 DEF RightBy
    <3> QED  BY <2>1, <2>6, <3>1, <1>5, <1>7 DEF Position, Depth
  <2>8. Scanning(F, cov, gone)'
    BY <2>1, <2>6 DEF Scanning, Sweeping
  <2>9. AtHeader' <=> AtHeader
    BY <2>1 DEF AtHeader
  <2> QED  BY <2>1, <2>7, <2>8, <2>9, <1>1, <1>6, SweepQuiet
<1>8. CASE k = 0
  <2>1. Q = 0 /\ pc' = "row" /\ k' = 0 /\ Argument = cols[D] /\ cols[D] \in 2 .. F
        /\ Len(rows) = D - 1 /\ Argument = Last(cols)
    BY <1>1, <1>3, <1>4, <1>5, <1>8 DEF Argument, Last, Depth, InFrames
  <2>2. PICK m : m = down[cols[D]]
    OBVIOUS
  <2>3. \/ m = cols[D] /\ m <= F
        \/ m \in F + 1 .. last /\ col[m] = cols[D] /\ First(cov, m)
    <3>1. cols[D] \in 1 .. last /\ gone[cols[D]] = 0 /\ col[cols[D]] = cols[D]
      <4>1. \A n \in 1 .. F : gone[n] = 0 /\ col[n] = n
        BY <1>4 DEF Gone, Shape
      <4> QED  BY <4>1, <2>1, <1>3
    <3>2. Sweeping => Argument = cols[Len(cols)]
      BY <2>1
    <3>3. PICK n : n = cols[D]
      OBVIOUS
    <3>4. n \in 1 .. last /\ gone[n] = 0 /\ col[n] = cols[Len(cols)] /\ Len(cols) > 0
          /\ cols[Len(cols)] \in 2 .. F /\ cols \in Seq(1 .. last)
      BY <2>1, <3>1, <3>3, <1>3, <1>5
    <3>5. /\ Shape(F) /\ Gone(F, cov, gone) /\ Lists(F, cov, gone) /\ Q = 0 /\ Slots(F, cov, Q)
          /\ cov[1] = 0 /\ last \in Nat
      BY <2>1, <1>3, <1>4
    <3>6. \/ down[n] = cols[Len(cols)] /\ down[n] <= F
          \/ down[n] \in F + 1 .. last /\ col[down[n]] = cols[Len(cols)] /\ First(cov, down[n])
      BY <3>2, <3>4, <3>5, NextOption
    <3> QED  BY <3>3, <3>6, <2>2
  <2>4. /\ Len(rows') = D /\ rows'[D] = m /\ \A d \in 1 .. D - 1 : rows'[d] = rows[d]
    <3>1. rows' = Append(rows, m)
      BY <2>1, <2>2, <1>1, <1>8
    <3>2. rows \in Seq(1 .. last) /\ Len(rows) = D - 1 /\ D \in Nat
      BY <2>1, <1>3, <1>5
    <3> HIDE DEF D
    <3> QED  BY <3>1, <3>2
  <2>5. Position(Q)' /\ Depth'
    BY <2>1, <2>4, <1>1, <1>5 DEF Position, Depth
  <2>6. Slots(F, cov, Q)'
    <3>1. \A d, q \in Nat : Slot(Q, d, q)' <=> Slot(Q, d, q)
      BY <1>1 DEF Slot
    <3>2. ASSUME NEW d \in Nat, NEW q \in Nat, Slot(Q, d, q) PROVE SlotCol(d, q)' = SlotCol(d, q)
      <4>1. d \in 1 .. D - 1 \/ q = 0
        BY <2>1, <3>2, <1>5 DEF Slot
      <4> QED  BY <4>1, <2>4, <1>1, <1>2 DEF SlotCol, RightBy
    <3> QED  BY <3>1, <3>2, <1>4 DEF Slots
  <2>7. InFrames(F, cov)'
    <3>1. ASSUME NEW d \in 1 .. D - 1
          PROVE  rows'[d] \in F + 1 .. last /\ col[rows'[d]] = cols[d] /\ First(cov, rows[d])'
      <4>1. rows[d] \in F + 1 .. last /\ col[rows[d]] = cols[d] /\ First(cov, rows[d]) /\ rows'[d] = rows[d]
        BY <2>1, <2>4, <1>4, <1>5 DEF InFrames
      <4>2. OptionOf(rows[d])' = OptionOf(rows[d]) /\ col' = col
        BY <4>1, <1>2 DEF OptionOf
      <4> QED  BY <4>1, <4>2 DEF First
    <3>2. First(cov, m) => First(cov, rows[D])'
      <4>1. cols' = cols /\ rows'[D] = m /\ col' = col /\ right' = right
        BY <2>4, <1>1, <1>2
      <4>2. OptionOf(rows[D])' = OptionOf(m)
        BY <4>1 DEF OptionOf
      <4> QED  BY <4>1, <4>2 DEF First
    <3>3. AtHeader' <=> m = cols[D]
      BY <2>1, <2>4, <1>1 DEF AtHeader
    <3>4. cols' = cols /\ col' = col /\ last' = last
      BY <1>1, <1>2
    <3>5. \A d \in 1 .. D : IF d = D /\ AtHeader' THEN rows'[d] = cols'[d]
             ELSE rows'[d] \in F + 1 .. last' /\ col'[rows'[d]] = cols'[d] /\ First(cov, rows[d])'
      <4> SUFFICES ASSUME NEW d \in 1 .. D
                   PROVE  IF d = D /\ AtHeader' THEN rows'[d] = cols'[d]
             ELSE rows'[d] \in F + 1 .. last' /\ col'[rows'[d]] = cols'[d] /\ First(cov, rows[d])'
        OBVIOUS
      <4>1. CASE d = D
        <5>1. First(cov, rows[D])' <=> First(cov, rows[d])'
          BY <4>1, <3>4 DEF First, OptionOf
        <5> QED  BY <4>1, <5>1, <2>3, <2>4, <3>2, <3>3, <3>4
      <4>2. CASE d \in 1 .. D - 1
        BY <4>2, <3>1, <3>4, <1>5
      <4> QED  BY <4>1, <4>2, <1>5
    <3>6. \A d \in 1 .. D : cols[d] \in 2 .. F
      BY <1>4 DEF InFrames
    <3> QED  BY <2>4, <3>4, <3>5, <3>6 DEF InFrames
  <2>8. Shape(F)' /\ Lists(F, cov, gone)' /\ Gone(F, cov, gone)'
    <3>1. Shape(F)'
      BY <1>2, <1>3, <1>4, ShapeKept DEF names
    <3>2. Lists(F, cov, gone)'
      BY <1>2, <1>4 DEF Lists, OpenIn
    <3>3. Gone(F, cov, gone)'
      BY <1>2, <1>3, <1>4, <1>6, GoneKept
    <3> QED  BY <3>1, <3>2, <3>3
  <2>9. Scanning(F, cov, gone)'
    BY <2>1 DEF Scanning, Sweeping
  <2> QED  BY <2>1, <2>5, <2>6, <2>7, <2>8, <2>9, <1>4 DEF Solving, Levels
<1> QED  BY <1>7, <1>8

\* Whether node x left its list before the node e that leaves it at t.
Before(gone, t, x, e) == gone[x] < t \/ (gone[x] = t /\ x < e)

\* The loops of cover and uncover are at a row of the column and at a node of its option.
LEMMA SweepNode ==
  ASSUME NEW F, NEW cov, NEW gone, NEW Q, Solving(F, cov, gone, Q), TypeOK, Sweeping,
         NEW c, c = Argument, NEW t, t = At(Len(cols), Q), i # c, j # i
  PROVE  /\ i \in F + 1 .. last /\ j \in F + 1 .. last /\ j \in OptionOf(i)
         /\ OptionOf(j) = OptionOf(i) /\ i \in OptionOf(i)
         /\ First(cov, i) /\ col[i] = c /\ gone[i] = 0 /\ col[j] \in 2 .. F
         /\ cov[c] = t /\ t \in Nat \ {0} /\ gone[j] = IF pc = "coverRows" THEN 0 ELSE t
         /\ Distinct(F, cov) /\ Q \in 0 .. 3
         /\ \A x \in 1 .. last : col[x] = col[j] => x = j \/ Before(gone, t, x, j)
<1>1. last \in Nat /\ F \in Nat /\ F \in 1 .. last
  BY Arrays DEF Solving, Shape
<1>2. /\ Shape(F) /\ Gone(F, cov, gone) /\ Lists(F, cov, gone)
      /\ cov \in [1 .. F -> Nat] /\ gone \in [1 .. last -> Nat]
  BY DEF Solving, Lists
<1>3. /\ Q \in 0 .. 3 /\ c \in 2 .. F /\ cov[c] = t /\ Len(cols) > 0 /\ Len(cols) \in Nat
      /\ \A d \in 1 .. F : cov[d] < cov[c] \/ d = c
  BY SweepArgument
<1>4. t \in Nat \ {0}
  BY <1>3 DEF At
<1>5. i \in F + 1 .. last /\ col[i] = c /\ gone[i] = 0 /\ j \in OptionOf(i)
  BY DEF Solving, Scanning
<1>6. First(cov, i)
  <2>1. i \in 1 .. last
    BY <1>1, <1>5
  <2>2. \/ i \in F + 1 .. last /\ First(cov, i)
        \/ i = Argument
    BY <1>5, <2>1, SweepColumn
  <2> QED  BY <2>2
<1>7. /\ j \in F + 1 .. last /\ OptionOf(j) = OptionOf(i) /\ i \in OptionOf(i)
  BY <1>1, <1>2, <1>5, OptionFacts
<1>8. Distinct(F, cov)
  <2>1. Slots(F, cov, Q)
    BY DEF Solving, Levels
  <2> QED  BY <1>3, <2>1, CovOnce
<1>9. col[j] \in 2 .. F
  BY <1>2, <1>7 DEF Shape
<1>10. gone[j] = IF pc = "coverRows" THEN 0 ELSE t
  <2>1. PICK r1, r2, r3 : r1 = right[i] /\ r2 = right[right[i]] /\ r3 = right[right[right[i]]]
    OBVIOUS
  <2>2. /\ OptionOf(i) = {i, r1, r2, r3} /\ i # r1 /\ i # r2 /\ i # r3 /\ r1 # r2 /\ r1 # r3
        /\ r2 # r3
    <3>1. last \in Nat /\ Shape(F) /\ i \in F + 1 .. last
      BY <1>1, <1>2, <1>5
    <3> QED  BY <2>1, <3>1, RingFacts
  <2>3. i \in Nat
    BY <1>1, <1>5
  <2>4. Swept(i, j) <=> pc # "coverRows"
    BY <2>1, <2>2, <2>3, <1>5 DEF Swept
  <2>5. gone[j] = IF j = i \/ (Sweeping /\ col[i] = Argument /\ ~Swept(i, j)) THEN 0 ELSE cov[col[i]]
    BY <1>2, <1>6, <1>7 DEF Gone
  <2> QED  BY <2>4, <2>5, <1>3, <1>5
<1>11. ASSUME NEW x \in 1 .. last, col[x] = col[j], x # j PROVE Before(gone, t, x, j)
  <2>1. CASE gone[x] = 0
    BY <2>1, <1>4 DEF Before
  <2>2. CASE gone[x] # 0
    <3>1. x \in F + 1 .. last
      <4>1. \A n \in 1 .. F : gone[n] = 0
        BY <1>2 DEF Gone
      <4> QED  BY <2>2, <4>1, <1>1
    <3>2. PICK m \in OptionOf(x) : cov[col[m]] # 0
      BY <2>2, <3>1, <1>2 DEF Gone
    <3>3. PICK y \in OptionOf(x) : First(cov, y)
      BY <3>1, <3>2, <1>1, <1>2, FirstExists
    <3>4. /\ y \in F + 1 .. last /\ OptionOf(y) = OptionOf(x) /\ y \in OptionOf(y)
          /\ x \in OptionOf(x)
      BY <3>1, <1>1, <1>2, OptionFacts
    <3>5. gone[x] = cov[col[y]] /\ ~(x = y \/ (col[y] = c /\ ~Swept(y, x)))
      <4>1. gone[x] = IF x = y \/ (Sweeping /\ col[y] = Argument /\ ~Swept(y, x))
                      THEN 0 ELSE cov[col[y]]
        BY <3>1, <3>3, <1>2 DEF Gone
      <4> QED  BY <4>1, <2>2
    <3>6. col[y] \in 1 .. F
      BY <3>4, <1>2 DEF Shape
    <3>7. CASE col[y] # c
      BY <3>5, <3>6, <3>7, <1>3 DEF Before
    <3>8. CASE col[y] = c
      <4>1. y # i
        <5>1. y = i => x \in OptionOf(j)
          BY <3>4, <1>7
        <5>2. x \in OptionOf(j) => x = j
          BY <1>7, <1>11, <1>2 DEF Shape
        <5> QED  BY <5>1, <5>2, <1>11
      <4>2. y < i
        <5>1. Swept(y, x)
          BY <3>5, <3>8
        <5> QED  BY <5>1, <4>1 DEF Swept
      <4>3. i \notin OptionOf(y)
        <5>1. i \in OptionOf(y) => y \in OptionOf(i)
          BY <3>4, <1>1, <1>2, <1>5, OptionFacts
        <5> QED  BY <5>1, <3>4, <3>8, <4>1, <1>2, <1>5, SMTT(20) DEF Shape
      <4>4. x < j
        BY <3>4, <4>2, <4>3, <1>1, <1>2, <1>5, BlockOrder
      <4> QED  BY <3>5, <3>8, <4>4, <1>3 DEF Before
    <3> QED  BY <3>7, <3>8
  <2> QED  BY <2>1, <2>2
<1> QED  BY <1>3, <1>4, <1>5, <1>6, <1>7, <1>8, <1>9, <1>10, <1>11

\* The turn of the inner loop concerns node j alone.
LEMMA SweepTurn ==
  ASSUME NEW F, NEW cov, NEW gone, NEW Q, Solving(F, cov, gone, Q), TypeOK, Sweeping,
         i # Argument, j # i, UNCHANGED <<right, cols, rows, i, k, pc, col>>,
         NEW e, e = j, NEW r, r = i,
         j' = IF pc = "coverRows" THEN right[j] ELSE left[j]
  PROVE  /\ \A n \in F + 1 .. last : \A x \in OptionOf(n) :
               First(cov, x) /\ n # x /\ n # j => (Waits(x, n)' <=> Waits(x, n))
         /\ Waits(r, e)' <=> pc = "uncoverRows"
         /\ j' \in OptionOf(i)
<1>1. last \in Nat /\ F \in Nat /\ F \in 1 .. last /\ Shape(F)
  BY Arrays, SMTT(20) DEF Solving, Shape
<1>2. i \in F + 1 .. last /\ j \in OptionOf(i) /\ col[i] = Argument /\ i \in Nat
  BY <1>1, SweepNode
<1>3. PICK r1, r2, r3 : r1 = right[i] /\ r2 = right[right[i]] /\ r3 = right[right[right[i]]]
  OBVIOUS
<1>4. /\ OptionOf(i) = {i, r1, r2, r3} /\ i # r1 /\ i # r2 /\ i # r3 /\ r1 # r2 /\ r1 # r3
      /\ r2 # r3 /\ right[r1] = r2 /\ right[r2] = r3 /\ right[r3] = i
      /\ left[r1] = i /\ left[r2] = r1 /\ left[r3] = r2
  <2>1. PICK n \in F + 1 .. last : n = i
    BY <1>2
  <2>2. r1 = right[n] /\ r2 = right[right[n]] /\ r3 = right[right[right[n]]]
    BY <1>3, <2>1
  <2>3. /\ OptionOf(n) = {n, r1, r2, r3} /\ n # r1 /\ n # r2 /\ n # r3 /\ r1 # r2 /\ r1 # r3
        /\ r2 # r3 /\ right[r1] = r2 /\ right[r2] = r3 /\ right[r3] = n
        /\ left[r1] = n /\ left[r2] = r1 /\ left[r3] = r2
    BY <1>1, <2>2, RingFacts
  <2> QED  BY <2>1, <2>3
<1>5. Argument' = Argument /\ (Sweeping' <=> Sweeping)
  BY DEF Argument, Sweeping
<1>6. PICK jj : jj = j'
  OBVIOUS
<1>7. /\ pc = "coverRows" => \/ j = r1 /\ jj = r2
                             \/ j = r2 /\ jj = r3
                             \/ j = r3 /\ jj = i
      /\ pc = "uncoverRows" => \/ j = r1 /\ jj = i
                               \/ j = r2 /\ jj = r1
                               \/ j = r3 /\ jj = r2
  BY <1>2, <1>4, <1>6 DEF Sweeping
<1>8. \A y : Swept(i, y) <=>
         IF pc = "coverRows" THEN \/ y = r1 /\ j # r1
                                  \/ y = r2 /\ j \in {r3, i}
                                  \/ y = r3 /\ j = i
                             ELSE \/ y = r1 /\ j # i
                                  \/ y = r2 /\ j \in {r2, r3}
                                  \/ y = r3 /\ j = r3
  BY <1>2, <1>3 DEF Swept
<1>9. \A y : Swept(r, y)' <=>
         IF pc = "coverRows" THEN \/ y = r1 /\ jj # r1
                                  \/ y = r2 /\ jj \in {r3, i}
                                  \/ y = r3 /\ jj = i
                             ELSE \/ y = r1 /\ jj # i
                                  \/ y = r2 /\ jj \in {r2, r3}
                                  \/ y = r3 /\ jj = r3
  BY <1>2, <1>3, <1>5, <1>6 DEF Swept
<1>10. ASSUME NEW n \in F + 1 .. last, NEW x \in OptionOf(n), n # x, n # j
       PROVE  Swept(x, n)' <=> Swept(x, n)
  <2>1. CASE x # i
    BY <2>1, <1>5 DEF Swept
  <2>2. CASE x = i
    <3>1. n \in {r1, r2, r3}
      <4>1. OptionOf(x) = OptionOf(n) /\ n \in OptionOf(n)
        BY <1>1, OptionFacts
      <4> QED  BY <4>1, <2>2, <1>4, <1>10
    <3>2. Swept(r, n)' <=> Swept(i, n)
      BY <3>1, <1>4, <1>7, <1>8, <1>9, <1>10 DEF Sweeping
    <3>3. Swept(x, n)' <=> Swept(r, n)'
      BY <2>2 DEF Swept
    <3> QED  BY <3>2, <3>3, <2>2
  <2> QED  BY <2>1, <2>2
<1>11. Swept(r, e)' <=> pc = "coverRows"
  BY <1>4, <1>7, <1>9 DEF Sweeping
<1>12. Waits(r, e)' <=> pc = "uncoverRows"
  BY <1>2, <1>5, <1>11 DEF Waits, Sweeping
<1>13. j' \in OptionOf(i)
  BY <1>4, <1>6, <1>7 DEF Sweeping
<1>14. ASSUME NEW n \in F + 1 .. last, NEW x \in OptionOf(n), n # x, n # j
       PROVE  Waits(x, n)' <=> Waits(x, n)
  BY <1>5, <1>10, <1>14 DEF Waits
<1> QED  BY <1>12, <1>13, <1>14

\* The nodes linked in a column can be counted.
LEMMA OpenInFinite ==
  ASSUME NEW F \in Nat, last \in Nat, NEW gone, NEW c
  PROVE  IsFiniteSet(OpenIn(F, gone, c))
<1>1. IsFiniteSet(F + 1 .. last)
  BY FS_Interval
<1>2. OpenIn(F, gone, c) \subseteq F + 1 .. last
  BY DEF OpenIn
<1> QED  BY <1>1, <1>2, FS_Subset

\* Their number changes by one with one of them.
LEMMA OneMoreOrLess ==
  ASSUME NEW A, IsFiniteSet(A), NEW B, NEW e, B \ {e} = A \ {e}
  PROVE  /\ Cardinality(A) \in Nat /\ Cardinality(B) \in Nat
         /\ e \in A /\ e \notin B => Cardinality(B) = Cardinality(A) - 1
         /\ e \notin A /\ e \in B => Cardinality(B) = Cardinality(A) + 1
<1>1. B \subseteq A \cup {e} /\ IsFiniteSet(A \cup {e})
  BY FS_AddElement
<1>2. IsFiniteSet(B)
  BY <1>1, FS_Subset
<1>3. ASSUME e \in A, e \notin B PROVE Cardinality(B) = Cardinality(A) - 1
  <2>1. B = A \ {e}
    BY <1>3
  <2> QED  BY <1>3, <2>1, FS_RemoveElement
<1>4. ASSUME e \notin A, e \in B PROVE Cardinality(B) = Cardinality(A) + 1
  <2>1. B = A \cup {e}
    BY <1>4
  <2> QED  BY <1>4, <2>1, FS_AddElement
<1> QED  BY <1>2, <1>3, <1>4, FS_CardinalityType

\* A turn of the inner loop that changes node e in the list of its column, and its count.
LEMMA TurnKeeps ==
  ASSUME NEW F, NEW cov, NEW gone, NEW Q, Solving(F, cov, gone, Q), TypeOK, Sweeping,
         i # Argument, j # i,
         UNCHANGED <<header, names, frames, i, k, pc>>,
         j' = IF pc = "coverRows" THEN right[j] ELSE left[j],
         NEW e, e = j, NEW t, t = IF pc = "coverRows" THEN At(Len(cols), Q) ELSE 0,
         NEW gone2, gone2 = [gone EXCEPT ![e] = t],
         size' = [size EXCEPT ![col[e]] = @ + IF pc = "coverRows" THEN -1 ELSE 1],
         Dancing(1 .. last, col, gone2, down', up')
  PROVE  Solving(F, cov, gone2, Q)'
<1>1. UNCHANGED <<left, right, col, name, last, columns, cols, rows, i, k, pc>>
  BY DEF header, names, frames
<1>2. last \in Nat /\ F \in Nat /\ F \in 1 .. last
  BY Arrays DEF Solving, Shape
<1>3. /\ Shape(F) /\ Gone(F, cov, gone) /\ Lists(F, cov, gone)
      /\ cov \in [1 .. F -> Nat] /\ gone \in [1 .. last -> Nat]
      /\ InFrames(F, cov) /\ Slots(F, cov, Q) /\ Position(Q) /\ Depth /\ cov[1] = 0
      /\ Q \in -1 .. 3
  BY DEF Solving, Levels, Lists
<1>4. PICK r : r = i
  OBVIOUS
<1>5. /\ r \in F + 1 .. last /\ e \in F + 1 .. last /\ e \in OptionOf(r) /\ e # r
      /\ OptionOf(e) = OptionOf(r) /\ r \in OptionOf(r)
      /\ First(cov, r) /\ col[r] = Argument /\ gone[r] = 0 /\ col[e] \in 2 .. F
      /\ At(Len(cols), Q) = cov[Argument] /\ cov[Argument] \in Nat \ {0}
      /\ gone[e] = (IF pc = "coverRows" THEN 0 ELSE cov[Argument])
      /\ Distinct(F, cov)
  BY <1>4, SweepNode
<1>6. t = (IF pc = "coverRows" THEN cov[Argument] ELSE 0) /\ t \in Nat
  BY <1>5
<1>7. /\ gone2 \in [1 .. last -> Nat] /\ gone2[e] = t /\ e \in 1 .. last /\ r \in 1 .. last
      /\ \A n \in 1 .. last : n # e => gone2[n] = gone[n]
  <2>1. e \in 1 .. last /\ r \in 1 .. last
    BY <1>2, <1>5
  <2> QED  BY <1>3, <1>6, <2>1
<1>8. /\ \A n \in F + 1 .. last : \A x \in OptionOf(n) :
            First(cov, x) /\ n # x /\ n # e => (Waits(x, n)' <=> Waits(x, n))
      /\ Waits(r, e)' <=> pc = "uncoverRows"
      /\ j' \in OptionOf(r)
  BY <1>1, <1>4, SweepTurn
<1>9. /\ \A n \in F + 1 .. last : OptionOf(n)' = OptionOf(n)
      /\ \A x : First(cov, x)' <=> First(cov, x)
  BY <1>1 DEF OptionOf, First
<1>10. Shape(F)'
  BY <1>1, <1>2, <1>3, ShapeKept
<1>11. Gone(F, cov, gone2)'
  <2>1. \A n \in 1 .. F : gone2[n] = 0
    <3>1. \A n \in 1 .. F : gone[n] = 0 /\ n # e /\ n \in 1 .. last
      BY <1>2, <1>3, <1>5 DEF Gone
    <3> QED  BY <3>1, <1>7
  <2>2. ASSUME NEW n \in F + 1 .. last, \A m \in OptionOf(n) : cov[col[m]] = 0
        PROVE  gone2[n] = 0
    <3>1. n # e
      BY <2>2, <1>5 DEF First
    <3>2. gone[n] = 0 /\ n \in 1 .. last
      BY <2>2, <1>2, <1>3 DEF Gone
    <3> QED  BY <3>1, <3>2, <1>7
  <2>3. ASSUME NEW n \in F + 1 .. last, NEW x \in OptionOf(n), First(cov, x)
        PROVE  gone2[n] = IF n = x \/ Waits(x, n)' THEN 0 ELSE cov[col[x]]
    <3>1. CASE n = e
      <4>1. x = r
        <5>1. x \in OptionOf(r)
          BY <2>3, <3>1, <1>5
        <5> QED  BY <5>1, <2>3, <1>2, <1>3, <1>5, FirstUnique
      <4> QED  BY <3>1, <4>1, <1>5, <1>6, <1>7, <1>8 DEF Sweeping
    <3>2. CASE n # e
      <4>1. gone2[n] = gone[n]
        BY <3>2, <1>2, <1>7
      <4>2. gone[n] = IF n = x \/ Waits(x, n) THEN 0 ELSE cov[col[x]]
        BY <2>3, <1>3 DEF Gone, Waits
      <4> QED  BY <4>1, <4>2, <3>2, <2>3, <1>8
    <3> QED  BY <3>1, <3>2
  <2>4. \A n \in F + 1 .. last' : \A x \in OptionOf(n)' : First(cov, x)' =>
           gone2[n] = IF n = x \/ (Sweeping' /\ col'[x] = Argument' /\ ~Swept(x, n)') THEN 0
                      ELSE cov[col'[x]]
    BY <2>3, <1>1, <1>9 DEF Waits
  <2>5. \A n \in F + 1 .. last' : (\A m \in OptionOf(n)' : cov[col'[m]] = 0) => gone2[n] = 0
    BY <2>2, <1>1, <1>9
  <2> QED  BY <2>1, <2>4, <2>5 DEF Gone
<1>12. Lists(F, cov, gone2)'
  <2>1. Dancing(1 .. F, One, cov, right, left)'
    BY <1>1, <1>3 DEF Lists
  <2>2. Dancing(1 .. last, col, gone2, down, up)'
    BY <1>1
  <2>3. ASSUME NEW c \in 2 .. F PROVE size'[c] = Cardinality(OpenIn(F, gone2, c))
    <3>1. size \in [Nodes -> Nat] /\ c \in Nodes /\ size[c] = Cardinality(OpenIn(F, gone, c))
      <4>1. 1 .. last \subseteq Nodes /\ size \in [Nodes -> Nat]
        BY Arrays
      <4> QED  BY <4>1, <1>2, <1>3 DEF Lists
    <3>2. \A n \in F + 1 .. last : n # e => gone2[n] = gone[n]
      BY <1>2, <1>7
    <3>3. CASE c # col[e]
      <4>1. OpenIn(F, gone2, c) = OpenIn(F, gone, c)
        BY <3>2, <3>3 DEF OpenIn
      <4> QED  BY <3>1, <3>3, <4>1
    <3>4. CASE c = col[e]
      <4>1. IsFiniteSet(OpenIn(F, gone, c)) /\ OpenIn(F, gone2, c) \ {e} = OpenIn(F, gone, c) \ {e}
        <5>1. OpenIn(F, gone2, c) \ {e} = OpenIn(F, gone, c) \ {e}
          BY <3>2 DEF OpenIn
        <5>2. F \in Nat /\ last \in Nat
          BY <1>2
        <5> QED  BY <5>1, <5>2, OpenInFinite
      <4>a. /\ e \in OpenIn(F, gone, c) <=> gone[e] = 0
            /\ e \in OpenIn(F, gone2, c) <=> gone2[e] = 0
        BY <3>4, <1>5 DEF OpenIn
      <4>b. /\ Cardinality(OpenIn(F, gone, c)) \in Nat
            /\ e \in OpenIn(F, gone, c) /\ e \notin OpenIn(F, gone2, c) =>
                  Cardinality(OpenIn(F, gone2, c)) = Cardinality(OpenIn(F, gone, c)) - 1
            /\ e \notin OpenIn(F, gone, c) /\ e \in OpenIn(F, gone2, c) =>
                  Cardinality(OpenIn(F, gone2, c)) = Cardinality(OpenIn(F, gone, c)) + 1
        BY <4>1, OneMoreOrLess
      <4>2. size'[c] = size[c] + IF pc = "coverRows" THEN -1 ELSE 1
        BY <3>1, <3>4
      <4>3. IF pc = "coverRows" THEN gone[e] = 0 /\ gone2[e] # 0 ELSE gone[e] # 0 /\ gone2[e] = 0
        BY <1>5, <1>6, <1>7
      <4> QED  BY <3>1, <4>a, <4>b, <4>2, <4>3
    <3> QED  BY <3>3, <3>4
  <2>4. \A c \in 2 .. F : OpenIn(F, gone2, c)' = OpenIn(F, gone2, c)
    BY <1>1 DEF OpenIn
  <2> QED  BY <2>1, <2>2, <2>3, <2>4, <1>1, <1>3, <1>7 DEF Lists
<1>13. Levels(F, cov, Q)'
  <2>1. AtHeader' <=> AtHeader
    BY <1>1 DEF AtHeader
  <2>2. InFrames(F, cov)' /\ Slots(F, cov, Q)'
    BY <2>1, <1>1, <1>3, SlotsKept, FramesKept
  <2>3. Position(Q)' /\ Depth'
    BY <1>1, <1>3 DEF Position, Depth, RightBy
  <2> QED  BY <2>2, <2>3, <1>3 DEF Levels
<1>14. Scanning(F, cov, gone2)'
  <2>1. gone2[r] = 0 /\ Argument' = Argument /\ i' = r /\ OptionOf(i)' = OptionOf(r)
    BY <1>1, <1>4, <1>5, <1>7 DEF Argument, OptionOf
  <2>2. pc' \notin {"min", "cover"}
    BY <1>1 DEF Sweeping
  <2> QED  BY <2>1, <2>2, <1>1, <1>5, <1>8 DEF Scanning
<1> QED  BY <1>10, <1>11, <1>12, <1>13, <1>14 DEF Solving

\* cover unlinks one node, the last of its list to be unlinked.
LEMMA UnlinkStepKeeps ==
  ASSUME NEW F, NEW cov, NEW gone, NEW Q, Solving(F, cov, gone, Q), TypeOK, Unlink,
         NEW e, e = j, NEW gone2, gone2 = [gone EXCEPT ![e] = At(Len(cols), Q)]
  PROVE  Solving(F, cov, gone2, Q)'
<1> PICK t : t = At(Len(cols), Q)
  OBVIOUS
<1>1. /\ pc = "coverRows" /\ i # Argument /\ j # i
      /\ up' = [up EXCEPT ![down[e]] = up[e]] /\ down' = [down EXCEPT ![up[e]] = down[e]]
      /\ size' = [size EXCEPT ![col[e]] = @ - 1] /\ j' = right[j]
      /\ UNCHANGED <<header, names, frames, i, k, pc>>
  BY DEF Unlink
<1>2. last \in Nat /\ F \in Nat /\ F \in 1 .. last
  BY Arrays DEF Solving, Shape
<1>3. /\ Shape(F) /\ Lists(F, cov, gone) /\ Gone(F, cov, gone) /\ gone \in [1 .. last -> Nat]
      /\ Dancing(1 .. last, col, gone, down, up)
  BY DEF Solving, Lists
<1>4. /\ e \in F + 1 .. last /\ col[e] \in 2 .. F /\ t \in Nat \ {0} /\ gone[e] = 0
      /\ \A x \in 1 .. last : col[x] = col[e] => x = e \/ Before(gone, t, x, e)
  BY <1>1, SweepNode DEF Sweeping
<1>5. e \in 1 .. last
  BY <1>2, <1>4
<1>6. down[e] \in 1 .. last /\ up[e] \in 1 .. last /\ down[e] # e
  <2>1. /\ down[e] \in 1 .. last /\ up[e] \in 1 .. last
        /\ Follows(InColumn(gone, col[e]), e, down[e])
    BY <1>2, <1>3, <1>4, <1>5, ColumnRing
  <2>2. PICK c : c = col[e]
    OBVIOUS
  <2>3. c \in InColumn(gone, c) /\ c # e /\ c \in Nat /\ e \in Nat
    <3>1. \A n \in 1 .. F : col[n] = n /\ gone[n] = 0
      BY <1>3 DEF Shape, Gone
    <3>2. c \in 1 .. F /\ c \in 1 .. last
      BY <2>2, <1>2, <1>4
    <3>3. c # e
      BY <3>2, <1>2, <1>4
    <3> QED  BY <3>1, <3>2, <3>3, <1>2, <1>5 DEF InColumn
  <2>4. down[e] = e => e <= c /\ c <= e
    BY <2>1, <2>2, <2>3 DEF Follows
  <2> QED  BY <2>1, <2>3, <2>4
<1>7. Dancing(1 .. last, col, gone2, down', up')
  <2>1. gone2[e] = t /\ \A x \in 1 .. last : x # e => gone2[x] = gone[x]
    BY <1>3, <1>5
  <2>2. /\ down'[up[e]] = down[e] /\ \A x \in 1 .. last : x # up[e] => down'[x] = down[x]
        /\ up'[down[e]] = up[e] /\ \A x \in 1 .. last : x # down[e] => up'[x] = up[x]
    <3>1. 1 .. last \subseteq Nodes /\ up \in [Nodes -> 0 .. last] /\ down \in [Nodes -> 0 .. last]
      BY Arrays
    <3> QED  BY <3>1, <1>1, <1>6
  <2>3. \A x \in 1 .. last : col[x] = col[e] => gone[x] < t \/ (gone[x] = t /\ x < e)
    BY <1>4 DEF Before
  <2>4. 1 .. last \subseteq Nat /\ \A x \in 1 .. last : gone[x] \in Nat
    BY <1>2, <1>3
  <2>5. Unlinking(1 .. last, col, gone, e, t, down, up, gone2, down', up')
    BY <2>1, <2>2, <2>3, <2>4, <1>3, <1>4, <1>5, <1>6 DEF Unlinking
  <2> QED  BY <2>5, UnlinkKeeps
<1>8. size' = [size EXCEPT ![col[e]] = @ + IF pc = "coverRows" THEN -1 ELSE 1]
  <2>1. size \in [Nodes -> Nat] /\ 1 .. last \subseteq Nodes
    BY Arrays
  <2>2. size[col[e]] \in Nat
    BY <2>1, <1>2, <1>4
  <2> QED  BY <2>2, <1>1
<1> QED  BY <1>1, <1>7, <1>8, TurnKeeps DEF Sweeping

\* uncover relinks one node, the one of its list that was unlinked last.
LEMMA RelinkStepKeeps ==
  ASSUME NEW F, NEW cov, NEW gone, NEW Q, Solving(F, cov, gone, Q), TypeOK, Relink,
         NEW e, e = j, NEW gone2, gone2 = [gone EXCEPT ![e] = 0]
  PROVE  Solving(F, cov, gone2, Q)'
<1> PICK t : t = At(Len(cols), Q)
  OBVIOUS
<1>1. /\ pc = "uncoverRows" /\ i # Argument /\ j # i
      /\ up' = [up EXCEPT ![down[e]] = e] /\ down' = [down EXCEPT ![up[e]] = e]
      /\ size' = [size EXCEPT ![col[e]] = @ + 1] /\ j' = left[j]
      /\ UNCHANGED <<header, names, frames, i, k, pc>>
  BY DEF Relink
<1>2. last \in Nat /\ F \in Nat /\ F \in 1 .. last
  BY Arrays DEF Solving, Shape
<1>3. /\ Lists(F, cov, gone) /\ gone \in [1 .. last -> Nat]
      /\ Dancing(1 .. last, col, gone, down, up)
  BY DEF Solving, Lists
<1>4. /\ e \in F + 1 .. last /\ col[e] \in 2 .. F /\ t \in Nat \ {0} /\ gone[e] = t
      /\ \A x \in 1 .. last : col[x] = col[e] => x = e \/ Before(gone, t, x, e)
  BY <1>1, SweepNode DEF Sweeping
<1>5. e \in 1 .. last
  BY <1>2, <1>4
<1>6. down[e] \in 1 .. last /\ up[e] \in 1 .. last
  BY <1>3, <1>5, DancingIn
<1>7. Dancing(1 .. last, col, gone2, down', up')
  <2>1. gone2[e] = 0 /\ \A x \in 1 .. last : x # e => gone2[x] = gone[x]
    BY <1>3, <1>5
  <2>2. /\ down'[up[e]] = e /\ \A x \in 1 .. last : x # up[e] => down'[x] = down[x]
        /\ up'[down[e]] = e /\ \A x \in 1 .. last : x # down[e] => up'[x] = up[x]
    <3>1. 1 .. last \subseteq Nodes /\ up \in [Nodes -> 0 .. last] /\ down \in [Nodes -> 0 .. last]
      BY Arrays
    <3> QED  BY <3>1, <1>1, <1>6
  <2>3. \A x \in 1 .. last : col[x] = col[e] => gone[x] < gone[e] \/ (gone[x] = gone[e] /\ x <= e)
    <3>1. \A x \in 1 .. last : col[x] = col[e] => x = e \/ (gone[x] < t \/ (gone[x] = t /\ x < e))
      BY <1>4 DEF Before
    <3>2. e \in Nat
      BY <1>5
    <3> QED  BY <3>1, <3>2, <1>4
  <2>4. 1 .. last \subseteq Nat /\ \A x \in 1 .. last : gone[x] \in Nat
    BY <1>2, <1>3
  <2>5. Relinking(1 .. last, col, gone, e, down, up, gone2, down', up')
    BY <2>1, <2>2, <2>3, <2>4, <1>3, <1>4, <1>5 DEF Relinking
  <2> QED  BY <2>5, RelinkKeeps
<1>8. size' = [size EXCEPT ![col[e]] = @ + IF pc = "coverRows" THEN -1 ELSE 1]
  BY <1>1
<1> QED  BY <1>1, <1>7, <1>8, TurnKeeps DEF Sweeping

-------------------------------------------------------------------------------
(* The constructor: columns are nodes 2 .. F, and behind them come the     *)
(* four nodes of each option O[1], O[2] ... O[N], a cell and a value.      *)

\* Nothing is covered and nothing has gone.
None == [n \in Nat |-> 0]

Building == pc \in {"start", "cells", "constraints", "options"}
Digits   == \A c \in Cells : puzzle[c] \in 0 .. Side

\* Node q of option g.
Node(F, g, q) == F + 4 * g - 3 + q

\* Nodes 0 .. m - 1 of option g are a ring.
Ring(F, g, m) ==
    \A q \in 0 .. 3 : q < m =>
        /\ right[Node(F, g, q)] = Node(F, g, IF q = m - 1 THEN 0 ELSE q + 1)
        /\ left[Node(F, g, q)] = Node(F, g, IF q = 0 THEN m - 1 ELSE q - 1)

\* Its nodes 0 .. m - 1 are in the columns that the option of value v for cell c meets.
Option(F, g, m, c, v) ==
    /\ Fits(puzzle, c, v)
    /\ \A q \in 0 .. 3 : q < m => /\ name[Node(F, g, q)] = Meets(c, v)[q]
                                  /\ col[Node(F, g, q)] = columns[Meets(c, v)[q]]

\* columns_ has the columns by their names.
Named(F) ==
    /\ F \in 1 .. last
    /\ \A n \in 1 .. F : col[n] = n
    /\ \A x \in Names : columns[x] # 0 => columns[x] \in 2 .. F /\ name[columns[x]] = x
    /\ \A n \in 2 .. F : columns[name[n]] = n

\* The order in which two nested loops go through pairs.
Earlier(a, b, c, d) == a < c \/ (a = c /\ b < d)

\* The nodes behind the columns are those of the options, in the order of the loops.
Meant(F, N, O) ==
    /\ O \in [1 .. N -> Cells \X Vals]
    /\ \A g \in 1 .. N : Ring(F, g, 4) /\ Option(F, g, 4, O[g][1], O[g][2])
    /\ \A g, h \in 1 .. N : g < h => Earlier(O[g][1], O[g][2], O[h][1], O[h][2])

\* The option that is being made.
Half(F, N) ==
    IF pc = "options"
    THEN /\ k \in 0 .. 3 /\ last = F + 4 * N + k
         /\ k # 0 => Ring(F, N + 1, k) /\ Option(F, N + 1, k, i, j)
    ELSE last = F + 4 * N /\ (Building => N = 0)

\* Whether the constructor has been at a constraint, and an option.
PastColumn(x) ==
    \/ \E c \in Cells : x = c /\ puzzle[c] = 0 /\ pc # "start" /\ (pc = "cells" => c < i)
    \/ \E t \in 1 .. 3, u \in Units, v \in Vals :
          /\ x = NameOf(t, u, v) /\ ~Has(puzzle, t, u, v) /\ pc \notin {"start", "cells"}
          /\ pc = "constraints" => u < i \/ (u = i /\ Earlier(v, t, j, k))

PastOption(c, v) ==
    /\ Fits(puzzle, c, v) /\ pc \notin {"start", "cells", "constraints"}
    /\ pc = "options" => Earlier(c, v, i, j)

\* Every constraint that is to be met has a column, and every value that fits an option.
Complete(N, O) ==
    /\ \A x \in Names : columns[x] # 0 <=> PastColumn(x)
    /\ \A c \in Cells, v \in Vals : PastOption(c, v) <=> \E g \in 1 .. N : O[g] = <<c, v>>

\* What the constructor has made so far, and solve leaves as it is.
Built(F, N, O) ==
    N \in Nat /\ Named(F) /\ Meant(F, N, O) /\ Half(F, N) /\ Complete(N, O)
    /\ (pc # "start" => Digits)

\* Each turn of the constructor's loops makes at most one node.
Bounds ==
    /\ pc = "start" => last = 1 /\ i = 0
    /\ pc = "cells" => i \in 0 .. Side * Side /\ last <= 1 + i
    /\ pc = "constraints" => /\ i \in 0 .. Side /\ j \in Vals /\ k \in 1 .. 3
                             /\ i = Side => j = 1 /\ k = 1
                             /\ last <= 1 + Side * Side + (i * Side + j - 1) * 3 + k - 1
    /\ pc = "options" => /\ i \in 0 .. Side * Side /\ j \in Vals
                         /\ i = Side * Side => j = 1 /\ k = 0
                         /\ last <= 1 + 4 * Side * Side + (i * Side + j - 1) * 4 + k

\* Before the search no list has been touched.
Fresh(F) ==
    /\ cols = <<>> /\ rows = <<>> /\ stack = <<>> /\ board = puzzle /\ result = "none"
    /\ Dancing(1 .. F, One, None, right, left)
    /\ Dancing(1 .. last, col, None, down, up)
    /\ \A n \in Nodes : n > F => size[n] = 0
    /\ \A c \in 2 .. F : size[c] = Cardinality(OpenIn(F, None, c))

\* The puzzle had a character that is no digit.
Rejected ==
    /\ pc = "done" /\ ~Digits /\ last = 1 /\ cols = <<>> /\ rows = <<>> /\ stack = <<>>
    /\ result = "none" /\ right[1] = 1 /\ left[1] = 1 /\ col[1] = 1

\* The inductive invariant: the constructor at work, or solve with what it has made, or neither.
IInv ==
    /\ TypeOK
    /\ \/ Rejected
       \/ \E F, N, O : /\ Built(F, N, O)
                       /\ IF Building THEN Fresh(F) /\ Bounds
                          ELSE \E cov, gone, Q : Solving(F, cov, gone, Q)

\* The types of the nodes.
MemoryOK ==
    /\ last \in Nodes /\ columns \in [Names -> 0 .. last]
    /\ left \in [Nodes -> 0 .. last] /\ right \in [Nodes -> 0 .. last]
    /\ up \in [Nodes -> 0 .. last] /\ down \in [Nodes -> 0 .. last]
    /\ col \in [Nodes -> 0 .. last]
    /\ \A n \in 1 .. last : /\ left[n] \in 1 .. last /\ right[n] \in 1 .. last
                            /\ up[n] \in 1 .. last /\ down[n] \in 1 .. last
                            /\ col[n] \in 1 .. last
    /\ name \in [Nodes -> Names] /\ size \in [Nodes -> Nat]

\* TypeOK, with a conjunct for each array.
LEMMA MemoryTypes ==
  TypeOK <=>
    /\ MemoryOK /\ puzzle \in Puzzles
    /\ cols \in Seq(1 .. last) /\ rows \in Seq(1 .. last) /\ stack \in Seq(1 .. last)
    /\ board \in [Cells -> Int] /\ result \in {"none", "solved"}
    /\ i \in Nat /\ j \in Nat /\ k \in Nat
    /\ pc \in {"start", "cells", "constraints", "options", "solve", "min", "cover",
               "coverRows", "row", "failed", "uncover", "uncoverRows", "done"}
    /\ stack = IF pc \in {"row", "uncover", "uncoverRows"} THEN Front(rows) ELSE rows
<1>1. {left, right, up, down, col} \subseteq [Nodes -> 0 .. last] <=>
         /\ left \in [Nodes -> 0 .. last] /\ right \in [Nodes -> 0 .. last]
         /\ up \in [Nodes -> 0 .. last] /\ down \in [Nodes -> 0 .. last]
         /\ col \in [Nodes -> 0 .. last]
  OBVIOUS
<1>2. (\A n \in 1 .. last : {left[n], right[n], up[n], down[n], col[n]} \subseteq 1 .. last) <=>
      \A n \in 1 .. last : /\ left[n] \in 1 .. last /\ right[n] \in 1 .. last
                           /\ up[n] \in 1 .. last /\ down[n] \in 1 .. last
                           /\ col[n] \in 1 .. last
  OBVIOUS
<1> QED  BY <1>1, <1>2, Zenon DEF TypeOK, MemoryOK

\* Lists that agree on their nodes.
Same(M, of, T, next, prev, of2, T2, next2, prev2) ==
    /\ Dancing(M, of, T, next, prev)
    /\ \A x \in M : of2[x] = of[x] /\ T2[x] = T[x] /\ next2[x] = next[x] /\ prev2[x] = prev[x]

\* A list that dances goes on doing so if nothing in it changes.
LEMMA DancingSame ==
  ASSUME NEW M, NEW of, NEW T, NEW next, NEW prev, NEW of2, NEW T2, NEW next2, NEW prev2,
         Same(M, of, T, next, prev, of2, T2, next2, prev2)
  PROVE  Dancing(M, of2, T2, next2, prev2)
<1> USE DEF Same
<1>1. \A n \in M : Seen(M, of2, T2, n) = Seen(M, of, T, n)
  BY DEF Seen
<1> QED  BY <1>1 DEF Dancing

\* append_column puts a column to the left of the root.
LEMMA ColumnKeeps ==
  ASSUME NEW F, F = last, TypeOK, Named(F), Fresh(F), NEW n \in Names, columns[n] = 0,
         last < MaxNodes, AppendColumn(n), UNCHANGED <<puzzle, frames, answer>>,
         NEW c, c = last + 1
  PROVE  /\ MemoryOK' /\ Named(c)' /\ Fresh(c)' /\ last' = c
         /\ columns' = [columns EXCEPT ![n] = c]
<1>1. /\ last' = c /\ columns' = [columns EXCEPT ![n] = c]
      /\ left' = [left EXCEPT ![c] = left[1], ![1] = c]
      /\ right' = [right EXCEPT ![c] = 1, ![left[1]] = c]
      /\ up' = [up EXCEPT ![c] = c] /\ down' = [down EXCEPT ![c] = c] /\ size' = size
      /\ col' = [col EXCEPT ![c] = c] /\ name' = [name EXCEPT ![c] = n]
  BY DEF AppendColumn, PutLeft
<1>2. /\ last \in Nat /\ last \in 1 .. MaxNodes /\ MaxNodes \in Nat /\ c \in Nat /\ c \in Nodes
      /\ 1 \in 1 .. last /\ 1 .. last \subseteq Nodes /\ c \notin 1 .. last /\ last \in Nodes
      /\ 1 .. c = 1 .. last \cup {c} /\ 2 .. c \subseteq 1 .. c /\ \A m \in Nodes : m \in Nat
  <2>1. last \in 1 .. MaxNodes /\ MaxNodes \in Nat /\ last \in Nodes
    BY Arrays, Sizes DEF Nodes
  <2>2. c \in 1 .. MaxNodes /\ c \in Nat /\ last \in Nat /\ c \notin 1 .. last /\ 1 \in 1 .. last
    BY <2>1
  <2>3. 1 .. c = 1 .. last \cup {c} /\ 2 .. c \subseteq 1 .. c
    BY <2>1
  <2>4. Nodes = 1 .. MaxNodes
    BY DEF Nodes
  <2> QED  BY <2>1, <2>2, <2>3, <2>4
<1>3. MemoryOK
  BY MemoryTypes
<1>4. left[1] \in 1 .. last
  BY <1>2, <1>3 DEF MemoryOK
<1>5. MemoryOK'
  <2>1. 0 .. last \subseteq 0 .. c /\ 1 .. last \subseteq 1 .. c /\ c \in 1 .. c /\ 1 \in 1 .. c /\ c \in 0 .. c
        /\ 1 \in 0 .. c /\ left[1] \in 0 .. c /\ left[1] \in Nodes /\ 1 \in Nodes
    BY <1>2, <1>4
  <2>2. columns' \in [Names -> 0 .. c] /\ name' \in [Nodes -> Names] /\ size' \in [Nodes -> Nat]
    BY <1>1, <1>2, <1>3, <2>1 DEF MemoryOK
  <2>3. left' \in [Nodes -> 0 .. c] /\ right' \in [Nodes -> 0 .. c] /\ up' \in [Nodes -> 0 .. c]
        /\ down' \in [Nodes -> 0 .. c] /\ col' \in [Nodes -> 0 .. c]
    BY <1>1, <1>2, <1>3, <2>1 DEF MemoryOK
  <2>4. ASSUME NEW m \in 1 .. c
        PROVE  /\ left'[m] \in 1 .. c /\ right'[m] \in 1 .. c /\ up'[m] \in 1 .. c
               /\ down'[m] \in 1 .. c /\ col'[m] \in 1 .. c
    <3>1. CASE m = c
      BY <3>1, <1>1, <1>2, <1>3, <1>4, <2>1, SMTT(20) DEF MemoryOK
    <3>2. CASE m \in 1 .. last
      <4>1. /\ left[m] \in 1 .. last /\ right[m] \in 1 .. last /\ up[m] \in 1 .. last
            /\ down[m] \in 1 .. last /\ col[m] \in 1 .. last /\ m \in Nodes /\ m # c
        BY <3>2, <1>2, <1>3 DEF MemoryOK
      <4> QED  BY <4>1, <1>1, <1>2, <1>3, <2>1 DEF MemoryOK
    <3> QED  BY <3>1, <3>2, <1>2
  <2> QED  BY <2>2, <2>3, <2>4, <1>1, <1>2 DEF MemoryOK
<1>6. Named(c)'
  <2>1. /\ \A m \in 1 .. last : col[m] = m
        /\ \A x \in Names : columns[x] # 0 => columns[x] \in 2 .. last /\ name[columns[x]] = x
        /\ \A m \in 2 .. last : columns[name[m]] = m
    BY DEF Named
  <2>2. columns \in [Names -> 0 .. last] /\ name \in [Nodes -> Names] /\ col \in [Nodes -> 0 .. last]
    BY <1>3 DEF MemoryOK
  <2>3. \A m \in 1 .. c : col'[m] = m
    BY <2>1, <2>2, <1>1, <1>2
  <2>4. ASSUME NEW x \in Names, columns'[x] # 0
        PROVE  columns'[x] \in 2 .. c /\ name'[columns'[x]] = x
    <3>1. CASE x = n
      <4>1. columns'[x] = c /\ c \in 2 .. c
        BY <3>1, <2>2, <1>1, <1>2
      <4> QED  BY <3>1, <4>1, <2>2, <1>1, <1>2
    <3>2. CASE x # n
      <4>1. columns'[x] = columns[x] /\ columns[x] \in 2 .. last /\ name[columns[x]] = x
        BY <3>2, <2>1, <2>2, <2>4, <1>1
      <4>2. columns[x] \in 2 .. c /\ columns[x] # c /\ columns[x] \in Nodes
        BY <4>1, <1>2
      <4> QED  BY <4>1, <4>2, <2>2, <1>1
    <3> QED  BY <3>1, <3>2
  <2>5. ASSUME NEW m \in 2 .. c PROVE columns'[name'[m]] = m
    <3>1. CASE m = c
      BY <3>1, <2>2, <1>1, <1>2
    <3>2. CASE m # c
      <4>1. m \in 2 .. last /\ m \in Nodes
        BY <3>2, <1>2
      <4>2. name'[m] = name[m] /\ columns[name[m]] = m /\ m # 0 /\ name[m] \in Names
        BY <3>2, <4>1, <2>1, <2>2, <1>1
      <4> QED  BY <4>2, <2>2, <1>1
    <3> QED  BY <3>1, <3>2
  <2>6. c \in 1 .. last'
    BY <1>1, <1>2
  <2> QED  BY <2>3, <2>4, <2>5, <2>6 DEF Named
<1>7. Dancing(1 .. c, One, None, right', left')
  <2>1. Dancing(1 .. last, One, None, right, left)
    BY DEF Fresh
  <2>2. /\ right'[c] = 1 /\ right'[left[1]] = c /\ left'[c] = left[1] /\ left'[1] = c
        /\ \A x \in 1 .. last : x # left[1] => right'[x] = right[x]
        /\ \A x \in 1 .. last : x # 1 => left'[x] = left[x]
    <3>1. left \in [Nodes -> 0 .. last] /\ right \in [Nodes -> 0 .. last]
      BY <1>3 DEF MemoryOK
    <3> QED  BY <3>1, <1>1, <1>2, <1>4
  <2>3. /\ 1 .. last \subseteq Nat /\ \A x \in 1 .. last : None[x] = 0 /\ x < c /\ 1 <= x
        /\ None[c] = 0 /\ \A x \in Nat : One[x] = 1
    BY <1>2 DEF None, One
  <2>4. Appending(1 .. last, One, None, c, 1, right, left, One, right', left')
    BY <2>1, <2>2, <2>3, <1>2 DEF Appending
  <2>5. Dancing(1 .. last \cup {c}, One, None, right', left')
    BY <2>4, AppendKeeps
  <2> QED  BY <2>5, <1>2
<1>8. Dancing(1 .. c, col', None, down', up')
  <2>1. Dancing(1 .. last, col, None, down, up)
    BY DEF Fresh
  <2>2. /\ down'[c] = c /\ up'[c] = c /\ col'[c] = c
        /\ \A x \in 1 .. last : /\ down'[x] = down[x] /\ up'[x] = up[x] /\ col'[x] = col[x]
                                /\ col[x] # c
    <3>1. up \in [Nodes -> 0 .. last] /\ down \in [Nodes -> 0 .. last] /\ col \in [Nodes -> 0 .. last]
          /\ \A x \in 1 .. last : col[x] \in 1 .. last
      BY <1>3 DEF MemoryOK
    <3> QED  BY <3>1, <1>1, <1>2
  <2>3. Alone(1 .. last, col, None, c, down, up, col', down', up')
    BY <2>1, <2>2, <1>2 DEF Alone
  <2>4. Dancing(1 .. last \cup {c}, col', None, down', up')
    BY <2>3, AppendAlone
  <2> QED  BY <2>4, <1>2
<1>9. \A m \in 2 .. c : size'[m] = Cardinality(OpenIn(c, None, m)')
  <2>1. \A m \in 2 .. c : size[m] = 0
    <3>1. \A m \in 2 .. last : OpenIn(last, None, m) = {}
      BY <1>2 DEF OpenIn
    <3>2. Cardinality({}) = 0
      BY FS_EmptySet
    <3>3. \A m \in 2 .. last : size[m] = 0
      BY <3>1, <3>2 DEF Fresh
    <3>4. size[c] = 0
      BY <1>2 DEF Fresh
    <3> QED  BY <3>3, <3>4, <1>2
  <2>2. \A m : OpenIn(c, None, m)' = {}
    BY <1>1, <1>2 DEF OpenIn
  <2> QED  BY <2>1, <2>2, <1>1, FS_EmptySet
<1>10. Fresh(c)'
  <2>1. UNCHANGED <<puzzle, cols, rows, stack, board, result>>
    BY DEF frames, answer
  <2>2. /\ cols = <<>> /\ rows = <<>> /\ stack = <<>> /\ board = puzzle /\ result = "none"
        /\ \A m \in Nodes : m > last => size[m] = 0
    BY DEF Fresh
  <2>3. \A m \in Nodes : m > c => size'[m] = 0
    BY <2>2, <1>1, <1>2
  <2> QED  BY <2>1, <2>2, <2>3, <1>1, <1>7, <1>8, <1>9 DEF Fresh
<1> QED  BY <1>1, <1>5, <1>6, <1>10


\* new_row puts a node at the foot of its column, and to the left of the first of its option.
LEMMA RowKeeps ==
  ASSUME NEW F, NEW N \in Nat, TypeOK, Named(F), Fresh(F), NEW n \in Names, columns[n] # 0,
         k \in 0 .. 3, last = F + 4 * N + k, k # 0 => Ring(F, N + 1, k),
         last < MaxNodes, NewRow(n, last + 1 - k), UNCHANGED <<puzzle, frames, answer>>,
         NEW r, r = last + 1
  PROVE  /\ MemoryOK' /\ Named(F)' /\ Fresh(F)' /\ last' = r /\ columns' = columns
         /\ name' = [name EXCEPT ![r] = n] /\ col' = [col EXCEPT ![r] = columns[n]]
         /\ \A m \in 1 .. F + 4 * N : right'[m] = right[m] /\ left'[m] = left[m]
         /\ \A q \in 0 .. 3 : q < k + 1 =>
               /\ right'[Node(F, N + 1, q)] = Node(F, N + 1, IF q = k THEN 0 ELSE q + 1)
               /\ left'[Node(F, N + 1, q)] = Node(F, N + 1, IF q = 0 THEN k ELSE q - 1)
<1> DEFINE h == columns[n]
           a == r - k
<1>1. /\ last' = r /\ columns' = columns /\ UNCHANGED <<puzzle, cols, rows, stack, board, result>>
      /\ name' = [name EXCEPT ![r] = n] /\ col' = [col EXCEPT ![r] = h]
      /\ up' = [up EXCEPT ![r] = up[h], ![h] = r] /\ down' = [down EXCEPT ![r] = h, ![up[h]] = r]
      /\ size' = [size EXCEPT ![h] = @ + 1]
  BY DEF NewRow, PutUp, frames, answer
<1>a. IF a = r THEN left' = [left EXCEPT ![r] = r] /\ right' = [right EXCEPT ![r] = r]
              ELSE /\ left' = [left EXCEPT ![r] = left[a], ![a] = r]
                   /\ right' = [right EXCEPT ![r] = a, ![left[a]] = r]
  <2>1. PICK b : b = last + 1 - k /\ b = a
    BY DEF a
  <2>2. NewRow(n, b)
    BY <2>1
  <2>3. IF b = r THEN left' = [left EXCEPT ![r] = r] /\ right' = [right EXCEPT ![r] = r]
                 ELSE PutLeft(b, r)
    BY <2>2 DEF NewRow
  <2> QED  BY <2>1, <2>3 DEF PutLeft
<1>2. /\ last \in Nat /\ MaxNodes \in Nat /\ r \in Nat /\ r \in Nodes
      /\ 1 .. last \subseteq Nodes /\ r \notin 1 .. last /\ last \in Nodes
      /\ 1 .. r = 1 .. last \cup {r}
  <2>1. last \in 1 .. MaxNodes /\ MaxNodes \in Nat /\ last \in Nodes
    BY Arrays, Sizes DEF Nodes
  <2>2. r \in 1 .. MaxNodes /\ r \in Nat /\ last \in Nat /\ r \notin 1 .. last
    BY <2>1
  <2>3. 1 .. r = 1 .. last \cup {r}
    BY <2>1
  <2>4. Nodes = 1 .. MaxNodes
    BY DEF Nodes
  <2> QED  BY <2>1, <2>2, <2>3, <2>4
<1>b. /\ F \in Nat /\ F \in 1 .. last /\ 1 .. F \subseteq 1 .. last /\ r \notin 1 .. F
      /\ \A m \in Nodes : m \in Nat
  <2>1. F \in 1 .. last
    BY DEF Named
  <2>2. \A m \in Nodes : m \in Nat
    BY Sizes DEF Nodes
  <2> QED  BY <2>1, <2>2, <1>2
<1>3. MemoryOK
  BY MemoryTypes
<1>c. h \in 2 .. F /\ h \in 1 .. last /\ h # r /\ h \in Nat /\ h \in 1 .. F
  <2>1. h \in 2 .. F
    BY DEF Named
  <2> QED  BY <2>1, <1>2, <1>b
<1>d. up[h] \in 1 .. last
  BY <1>3, <1>c DEF MemoryOK
<1>4. /\ a = r => k = 0
      /\ a # r => k \in 1 .. 3 /\ left[a] = last /\ a \in 1 .. last
      /\ a = Node(F, N + 1, 0) /\ a \in Nat /\ a = F + 4 * N + 1
      /\ \A q \in Nat : Node(F, N + 1, q) = a + q
  <2>1. a = F + 4 * N + 1
    BY <1>b
  <2>2. a = Node(F, N + 1, 0) /\ a \in Nat /\ (a = r => k = 0)
    BY <2>1, <1>2, <1>b DEF Node
  <2>3. \A q \in Nat : Node(F, N + 1, q) = a + q
    BY <2>1, <1>b DEF Node
  <2>4. ASSUME a # r PROVE k \in 1 .. 3 /\ left[a] = last /\ a \in 1 .. last
    <3>1. k \in 1 .. 3 /\ a \in 1 .. last
      BY <2>1, <2>4, <1>2, <1>b
    <3>2. left[Node(F, N + 1, 0)] = Node(F, N + 1, k - 1)
      BY <3>1 DEF Ring
    <3>3. Node(F, N + 1, k - 1) = a + (k - 1) /\ a + (k - 1) = last
      BY <3>1, <2>3, <1>2
    <3> QED  BY <3>1, <3>2, <3>3, <2>2
  <2> QED  BY <2>1, <2>2, <2>3, <2>4
<1> HIDE DEF a, h
<1>5. MemoryOK'
  <2>1. 0 .. last \subseteq 0 .. r /\ 1 .. last \subseteq 1 .. r /\ r \in 1 .. r /\ r \in 0 .. r
        /\ 1 .. last \subseteq 0 .. last
    BY <1>2
  <2>2. columns' \in [Names -> 0 .. r] /\ name' \in [Nodes -> Names]
    BY <1>1, <1>2, <1>3, <2>1 DEF MemoryOK
  <2>3. size' \in [Nodes -> Nat]
    <3>1. size \in [Nodes -> Nat] /\ h \in Nodes
      BY <1>2, <1>3, <1>c DEF MemoryOK
    <3>2. size[h] + 1 \in Nat
      BY <3>1
    <3> QED  BY <3>1, <3>2, <1>1
  <2>4. col' \in [Nodes -> 0 .. r] /\ up' \in [Nodes -> 0 .. r] /\ down' \in [Nodes -> 0 .. r]
    BY <1>1, <1>3, <1>c, <1>d, <2>1 DEF MemoryOK
  <2>5. left' \in [Nodes -> 0 .. r] /\ right' \in [Nodes -> 0 .. r]
    <3>1. left \in [Nodes -> 0 .. last] /\ right \in [Nodes -> 0 .. last]
      BY <1>3 DEF MemoryOK
    <3>2. CASE a = r
      BY <3>1, <3>2, <1>a, <2>1
    <3>3. CASE a # r
      <4>1. /\ left' = [left EXCEPT ![r] = left[a], ![a] = r]
            /\ right' = [right EXCEPT ![r] = a, ![left[a]] = r]
        BY <3>3, <1>a
      <4>2. a \in 0 .. r /\ r \in 0 .. r /\ left[a] \in 0 .. r /\ 0 .. last \subseteq 0 .. r
        BY <3>3, <1>4, <1>2, <2>1
      <4> QED  BY <4>1, <4>2, <3>1
    <3> QED  BY <3>2, <3>3
  <2>6. ASSUME NEW m \in 1 .. r
        PROVE  up'[m] \in 1 .. r /\ down'[m] \in 1 .. r /\ col'[m] \in 1 .. r
    <3>1. CASE m = r
      BY <3>1, <1>1, <1>2, <1>3, <1>c, <1>d, <2>1 DEF MemoryOK
    <3>2. CASE m \in 1 .. last
      <4>1. /\ up[m] \in 1 .. last /\ down[m] \in 1 .. last /\ col[m] \in 1 .. last
            /\ m \in Nodes /\ m # r
        BY <3>2, <1>2, <1>3 DEF MemoryOK
      <4> QED  BY <4>1, <1>1, <1>2, <1>3, <2>1 DEF MemoryOK
    <3> QED  BY <3>1, <3>2, <1>2
  <2>7. ASSUME NEW m \in 1 .. r PROVE left'[m] \in 1 .. r /\ right'[m] \in 1 .. r
    <3>1. left \in [Nodes -> 0 .. last] /\ right \in [Nodes -> 0 .. last]
      BY <1>3 DEF MemoryOK
    <3>2. CASE m = r
      BY <3>1, <3>2, <1>a, <1>2, <1>4, <2>1
    <3>3. CASE m \in 1 .. last
      <4>1. left[m] \in 1 .. last /\ right[m] \in 1 .. last /\ m \in Nodes /\ m # r
        BY <3>3, <1>2, <1>3 DEF MemoryOK
      <4> QED  BY <4>1, <3>1, <1>a, <1>2, <1>4, <2>1
    <3> QED  BY <3>2, <3>3, <1>2
  <2> QED  BY <2>2, <2>3, <2>4, <2>5, <2>6, <2>7, <1>1, <1>2 DEF MemoryOK
<1>6. Named(F)'
  <2>1. /\ \A m \in 1 .. F : col[m] = m
        /\ \A x \in Names : columns[x] # 0 => columns[x] \in 2 .. F /\ name[columns[x]] = x
        /\ \A m \in 2 .. F : columns[name[m]] = m
    BY DEF Named
  <2>2. name \in [Nodes -> Names] /\ col \in [Nodes -> 0 .. last]
    BY <1>3 DEF MemoryOK
  <2>3. \A m \in 1 .. F : col'[m] = m /\ name'[m] = name[m]
    BY <2>1, <2>2, <1>1, <1>2, <1>b
  <2>4. F \in 1 .. r /\ 2 .. F \subseteq 1 .. F
    BY <1>2, <1>b
  <2> QED  BY <2>1, <2>3, <2>4, <1>1 DEF Named
<1>7. /\ \A m \in 1 .. F + 4 * N : right'[m] = right[m] /\ left'[m] = left[m]
      /\ \A q \in 0 .. 3 : q < k + 1 =>
            /\ right'[Node(F, N + 1, q)] = Node(F, N + 1, IF q = k THEN 0 ELSE q + 1)
            /\ left'[Node(F, N + 1, q)] = Node(F, N + 1, IF q = 0 THEN k ELSE q - 1)
  <2>1. left \in [Nodes -> 0 .. last] /\ right \in [Nodes -> 0 .. last]
    BY <1>3 DEF MemoryOK
  <2>2. CASE a = r
    <3>1. k = 0 /\ r = F + 4 * N + 1
      BY <2>2, <1>4
    <3>2. right' = [right EXCEPT ![r] = r] /\ left' = [left EXCEPT ![r] = r]
      BY <2>2, <1>a
    <3>3. \A m \in 1 .. F + 4 * N : m \in Nodes /\ m # r
      BY <3>1, <1>2, <1>b
    <3>4. right'[r] = r /\ left'[r] = r
      BY <3>2, <2>1, <1>2
    <3>5. \A q \in 0 .. 3 : q < k + 1 => q = 0
      BY <3>1
    <3> QED  BY <3>1, <3>2, <3>3, <3>4, <3>5, <2>1, <2>2, <1>4
  <2>3. CASE a # r
    <3>1. /\ k \in 1 .. 3 /\ left[a] = last /\ a \in 1 .. last /\ a = F + 4 * N + 1
          /\ r = a + k /\ last = a + k - 1 /\ r \in Nodes /\ a \in Nodes /\ last \in Nodes
          /\ a \in Nat /\ r \in Nat
      <4>1. /\ k \in 1 .. 3 /\ left[a] = last /\ a \in 1 .. last /\ a = F + 4 * N + 1
            /\ a \in Nat
        BY <2>3, <1>4
      <4>2. r = a + k /\ last = a + k - 1
        BY <4>1, <1>2 DEF a
      <4> QED  BY <4>1, <4>2, <1>2
    <3>2. left' = [left EXCEPT ![r] = last, ![a] = r] /\ right' = [right EXCEPT ![r] = a, ![last] = r]
      BY <2>3, <3>1, <1>a
    <3>3. \A m \in 1 .. F + 4 * N : m \in Nodes /\ m # r /\ m # a /\ m # last
      BY <3>1, <1>2, <1>b
    <3>4. \A q \in Nat : Node(F, N + 1, q) = a + q
      BY <1>4
    <3>5. ASSUME NEW q \in 0 .. 3, q < k
          PROVE  /\ right[a + q] = a + (IF q = k - 1 THEN 0 ELSE q + 1)
                 /\ left[a + q] = a + (IF q = 0 THEN k - 1 ELSE q - 1)
                 /\ a + q \in Nodes /\ a + q # r
      <4>1. /\ right[Node(F, N + 1, q)] = Node(F, N + 1, IF q = k - 1 THEN 0 ELSE q + 1)
            /\ left[Node(F, N + 1, q)] = Node(F, N + 1, IF q = 0 THEN k - 1 ELSE q - 1)
        BY <3>1, <3>5 DEF Ring
      <4>2. (IF q = k - 1 THEN 0 ELSE q + 1) \in Nat /\ (IF q = 0 THEN k - 1 ELSE q - 1) \in Nat
            /\ q \in Nat
        BY <3>1, <3>5
      <4>3. a + q \in 1 .. last /\ a + q # r
        BY <3>1, <3>5, <1>4, <1>2
      <4> QED  BY <4>1, <4>2, <4>3, <3>4, <1>2
    <3>6. ASSUME NEW q \in 0 .. 3, q < k + 1
          PROVE  /\ right'[a + q] = a + (IF q = k THEN 0 ELSE q + 1)
                 /\ left'[a + q] = a + (IF q = 0 THEN k ELSE q - 1)
      <4>1. CASE q = k
        <5>1. a + q = r /\ r # a /\ r # last /\ q # 0
          BY <4>1, <3>1, <1>2
        <5>2. right'[r] = a /\ left'[r] = last
          BY <5>1, <3>1, <3>2, <2>1
        <5> QED  BY <5>1, <5>2, <4>1, <3>1, <1>4
      <4>2. CASE q < k
        <5>1. /\ right[a + q] = a + (IF q = k - 1 THEN 0 ELSE q + 1)
              /\ left[a + q] = a + (IF q = 0 THEN k - 1 ELSE q - 1)
              /\ a + q \in Nodes /\ a + q # r
          BY <4>2, <3>5
        <5>2. right'[a + q] = IF a + q = last THEN r ELSE right[a + q]
          BY <5>1, <3>1, <3>2, <2>1
        <5>3. left'[a + q] = IF a + q = a THEN r ELSE left[a + q]
          BY <5>1, <3>1, <3>2, <2>1
        <5>4. /\ a + q = last <=> q = k - 1
              /\ a + q = a <=> q = 0
          BY <3>1
        <5> QED  BY <5>1, <5>2, <5>3, <5>4, <4>2, <3>1
      <4> QED  BY <4>1, <4>2, <3>1, <3>6
    <3>7. ASSUME NEW q \in 0 .. 3, q < k + 1
          PROVE  /\ right'[Node(F, N + 1, q)] = Node(F, N + 1, IF q = k THEN 0 ELSE q + 1)
                 /\ left'[Node(F, N + 1, q)] = Node(F, N + 1, IF q = 0 THEN k ELSE q - 1)
      <4>1. (IF q = k THEN 0 ELSE q + 1) \in Nat /\ (IF q = 0 THEN k ELSE q - 1) \in Nat /\ q \in Nat
        BY <3>1, <3>7
      <4> QED  BY <4>1, <3>4, <3>6, <3>7
    <3> QED  BY <3>2, <3>3, <3>7, <2>1
  <2> QED  BY <2>2, <2>3
<1>8. Dancing(1 .. F, One, None, right', left')
  <2>1. Dancing(1 .. F, One, None, right, left)
    BY DEF Fresh
  <2>2. \A x \in 1 .. F : right'[x] = right[x] /\ left'[x] = left[x]
    BY <1>7, <1>b
  <2>3. Same(1 .. F, One, None, right, left, One, None, right', left')
    BY <2>1, <2>2 DEF Same
  <2> QED  BY <2>3, DancingSame
<1>9. Dancing(1 .. r, col', None, down', up')
  <2>1. Dancing(1 .. last, col, None, down, up)
    BY DEF Fresh
  <2>2. /\ down'[r] = h /\ down'[up[h]] = r /\ up'[r] = up[h] /\ up'[h] = r /\ col'[r] = col[h]
        /\ \A x \in 1 .. last : x # up[h] => down'[x] = down[x]
        /\ \A x \in 1 .. last : x # h => up'[x] = up[x]
        /\ \A x \in 1 .. last : col'[x] = col[x]
    <3>1. up \in [Nodes -> 0 .. last] /\ down \in [Nodes -> 0 .. last] /\ col \in [Nodes -> 0 .. last]
      BY <1>3 DEF MemoryOK
    <3>2. col[h] = h
      BY <1>c DEF Named
    <3> QED  BY <3>1, <3>2, <1>1, <1>2, <1>c, <1>d
  <2>3. \A x \in 1 .. last : col[x] = col[h] => h <= x
    <3>1. \A x \in 1 .. F : col[x] = x
      BY DEF Named
    <3>2. ASSUME NEW x \in 1 .. last, col[x] = col[h] PROVE h <= x
      <4>1. CASE x \in 1 .. F
        BY <4>1, <3>1, <3>2, <1>c
      <4>2. CASE x \notin 1 .. F
        BY <4>2, <1>2, <1>b, <1>c
      <4> QED  BY <4>1, <4>2
    <3> QED  BY <3>2
  <2>4. /\ 1 .. last \subseteq Nat /\ \A x \in 1 .. last : None[x] = 0 /\ x < r
        /\ None[r] = 0
    BY <1>2 DEF None
  <2>5. Appending(1 .. last, col, None, r, h, down, up, col', down', up')
    BY <2>1, <2>2, <2>3, <2>4, <1>2, <1>c DEF Appending
  <2>6. Dancing(1 .. last \cup {r}, col', None, down', up')
    BY <2>5, AppendKeeps
  <2> QED  BY <2>6, <1>2
<1>10. \A c \in 2 .. F : size'[c] = Cardinality(OpenIn(F, None, c)')
  <2> SUFFICES ASSUME NEW c \in 2 .. F PROVE size'[c] = Cardinality(OpenIn(F, None, c)')
    OBVIOUS
  <2> DEFINE A == OpenIn(F, None, c)
  <2>1. PICK B : B = OpenIn(F, None, c)'
    OBVIOUS
  <2>2. size[c] = Cardinality(A) /\ size \in [Nodes -> Nat] /\ c \in Nodes
    <3>1. c \in Nodes
      BY <1>b, <1>2
    <3> QED  BY <3>1, <1>3 DEF MemoryOK, Fresh
  <2>3. IsFiniteSet(A)
    BY <1>b, <1>2, OpenInFinite
  <2>4. /\ B \ {r} = A \ {r} /\ r \notin A /\ (r \in B <=> c = h)
    <3>1. B = {m \in F + 1 .. r : col'[m] = c /\ None[m] = 0}
      BY <2>1, <1>1 DEF OpenIn
    <3>2. \A m \in 1 .. last : col'[m] = col[m]
      BY <1>1, <1>2, <1>3 DEF MemoryOK
    <3>3. col'[r] = h /\ None[r] = 0
      BY <1>1, <1>2, <1>3 DEF MemoryOK, None
    <3>4. F + 1 .. r = F + 1 .. last \cup {r} /\ r \notin F + 1 .. last /\ F + 1 .. last \subseteq 1 .. last
      BY <1>2, <1>b
    <3> QED  BY <3>1, <3>2, <3>3, <3>4 DEF OpenIn
  <2> HIDE DEF A
  <2>5. c = h => Cardinality(B) = Cardinality(A) + 1
    BY <2>3, <2>4, OneMoreOrLess
  <2>6. c # h => Cardinality(B) = Cardinality(A)
    <3>1. ASSUME c # h PROVE B = A
      <4>1. B = B \ {r} /\ A = A \ {r}
        BY <2>4, <3>1
      <4> QED  BY <4>1, <2>4
    <3> QED  BY <3>1
  <2>7. size'[c] = IF c = h THEN size[c] + 1 ELSE size[c]
    BY <2>2, <1>1
  <2> QED  BY <2>1, <2>2, <2>5, <2>6, <2>7
<1>11. Fresh(F)'
  <2>1. /\ cols = <<>> /\ rows = <<>> /\ stack = <<>> /\ board = puzzle /\ result = "none"
        /\ \A m \in Nodes : m > F => size[m] = 0
    BY DEF Fresh
  <2>2. \A m \in Nodes : m > F => size'[m] = 0
    <3>1. \A m \in Nodes : m > F => m # h
      BY <1>c, <1>b
    <3>2. size \in [Nodes -> Nat]
      BY <1>3 DEF MemoryOK
    <3> QED  BY <3>1, <3>2, <2>1, <1>1
  <2> QED  BY <2>1, <2>2, <1>1, <1>8, <1>9, <1>10 DEF Fresh
<1>12. name' = [name EXCEPT ![r] = n] /\ col' = [col EXCEPT ![r] = columns[n]]
  BY <1>1 DEF h
<1> QED  BY <1>1, <1>5, <1>6, <1>7, <1>11, <1>12

-------------------------------------------------------------------------------
(* Names and how far the constructor is.                                   *)

\* The numbers of cells, units and values.
LEMMA SmallNumbers ==
  /\ Side \in 1 .. 9 /\ Cells = 0 .. Side * Side - 1 /\ Side * Side \in 1 .. 81
  /\ \A c \in Cells : c \in 0 .. 80
  /\ \A u \in Units : u \in 0 .. 8
  /\ \A v \in Vals : v \in 1 .. 9
<1>1. CASE Side = 1
  BY <1>1 DEF Cells, Units, Vals
<1>2. CASE Side = 4
  BY <1>2 DEF Cells, Units, Vals
<1>3. CASE Side = 9
  BY <1>3 DEF Cells, Units, Vals
<1> QED  BY <1>1, <1>2, <1>3, Sizes

\* The name of a cell's column is below 100.
LEMMA CellNames == \A c \in Cells : c \in Names /\ c < 100
BY SmallNumbers DEF Names

\* The others are not.
LEMMA ConstraintNames ==
  ASSUME NEW t \in 1 .. 3, NEW u \in Units, NEW v \in Vals
  PROVE  NameOf(t, u, v) \in Names /\ NameOf(t, u, v) \in Nat /\ NameOf(t, u, v) >= 100
<1>1. u \in 0 .. 8 /\ v \in 1 .. 9
  BY SmallNumbers
<1> QED  BY <1>1 DEF Names, NameOf

\* And they are different for different constraints.
LEMMA NamesApart ==
  ASSUME NEW t \in 1 .. 3, NEW u \in Units, NEW v \in Vals,
         NEW p \in 1 .. 3, NEW q \in Units, NEW w \in Vals, NameOf(t, u, v) = NameOf(p, q, w)
  PROVE  t = p /\ u = q /\ v = w
<1>1. u \in 0 .. 8 /\ v \in 1 .. 9 /\ q \in 0 .. 8 /\ w \in 1 .. 9
  BY SmallNumbers
<1>2. 100 * t + 10 * u + v = 100 * p + 10 * q + w
  BY DEF NameOf
<1>3. t = p
  BY <1>1, <1>2
<1>4. u = q
  BY <1>1, <1>2, <1>3
<1> QED  BY <1>1, <1>2, <1>3, <1>4

\* A cell is in a row, a column and a box.
LEMMA UnitTypes == \A t \in 1 .. 3, c \in Cells : Unit[t][c] \in Units
<1> SUFFICES ASSUME NEW c \in Cells PROVE \A t \in 1 .. 3 : Unit[t][c] \in Units
  OBVIOUS
<1> DEFINE b == Box * (Row[c] \div Box) + Col[c] \div Box
<1>1. /\ Unit[1][c] = Row[c] /\ Unit[2][c] = Col[c] /\ Unit[3][c] = b
      /\ Row[c] = c \div Side /\ Col[c] = c % Side
  BY DEF Unit, Row, Col
<1>2. Row[c] \in Units /\ Col[c] \in Units /\ b \in Units
  <2>1. CASE Box = 1
    <3>1. Side = 1 /\ c = 0
      BY <2>1 DEF Side, Cells
    <3>2. Row[c] = 0 /\ Col[c] = 0
      BY <3>1, <1>1
    <3> QED  BY <3>1, <3>2, <2>1 DEF Units
  <2>2. CASE Box = 2
    <3>1. Side = 4 /\ c \in 0 .. 15
      BY <2>2 DEF Side, Cells
    <3>2. Row[c] = c \div 4 /\ Col[c] = c % 4
      BY <3>1, <1>1
    <3>3. Row[c] \in 0 .. 3 /\ Col[c] \in 0 .. 3
      BY <3>1, <3>2
    <3>4. b = 2 * (Row[c] \div 2) + Col[c] \div 2
      BY <2>2
    <3>5. b \in 0 .. 3
      BY <3>3, <3>4
    <3> QED  BY <3>1, <3>3, <3>5 DEF Units
  <2>3. CASE Box = 3
    <3>1. Side = 9 /\ c \in 0 .. 80
      BY <2>3 DEF Side, Cells
    <3>2. Row[c] = c \div 9 /\ Col[c] = c % 9
      BY <3>1, <1>1
    <3>3. Row[c] \in 0 .. 8 /\ Col[c] \in 0 .. 8
      BY <3>1, <3>2
    <3>4. b = 3 * (Row[c] \div 3) + Col[c] \div 3
      BY <2>3
    <3>5. b \in 0 .. 8
      BY <3>3, <3>4
    <3> QED  BY <3>1, <3>3, <3>5 DEF Units
  <2> QED  BY <2>1, <2>2, <2>3, Sizes
<1> QED  BY <1>1, <1>2

\* The names that an option meets.
LEMMA MeetsNames ==
  ASSUME NEW c \in Cells, NEW v \in Vals
  PROVE  /\ Meets(c, v)[0] = c
         /\ \A t \in 1 .. 3 : Meets(c, v)[t] = NameOf(t, Unit[t][c], v) /\ Unit[t][c] \in Units
         /\ \A t \in 0 .. 3 : Meets(c, v)[t] \in Names
         /\ \A t, p \in 0 .. 3 : Meets(c, v)[t] = Meets(c, v)[p] => t = p
<1>1. Meets(c, v)[0] = c
  BY DEF Meets
<1>2. \A t \in 1 .. 3 : Meets(c, v)[t] = NameOf(t, Unit[t][c], v) /\ Unit[t][c] \in Units
  BY UnitTypes DEF Meets
<1>3. \A t \in 1 .. 3 : Meets(c, v)[t] \in Names /\ Meets(c, v)[t] \in Nat /\ Meets(c, v)[t] >= 100
  BY <1>2, ConstraintNames
<1>4. c \in Names /\ c < 100 /\ c \in Nat
  BY CellNames, SmallNumbers
<1>5. \A t \in 0 .. 3 : Meets(c, v)[t] \in Names
  <2>1. \A t \in 0 .. 3 : t = 0 \/ t \in 1 .. 3
    OBVIOUS
  <2> QED  BY <2>1, <1>1, <1>3, <1>4
<1>6. ASSUME NEW t \in 0 .. 3, NEW p \in 0 .. 3, Meets(c, v)[t] = Meets(c, v)[p] PROVE t = p
  <2>1. CASE t = 0 \/ p = 0
    <3>1. (t = 0 \/ t \in 1 .. 3) /\ (p = 0 \/ p \in 1 .. 3)
      OBVIOUS
    <3> QED  BY <2>1, <3>1, <1>1, <1>3, <1>4, <1>6
  <2>2. CASE t \in 1 .. 3 /\ p \in 1 .. 3
    BY <2>2, <1>2, <1>6, NamesApart
  <2> QED  BY <2>1, <2>2
<1> QED  BY <1>1, <1>2, <1>5, <1>6

\* The constraints that an option meets have columns when options are made.
LEMMA OptionColumns ==
  ASSUME NEW N, NEW O, Complete(N, O), pc \notin {"start", "cells", "constraints"},
         NEW c \in Cells, NEW v \in Vals, Fits(puzzle, c, v), NEW t \in 0 .. 3
  PROVE  Meets(c, v)[t] \in Names /\ columns[Meets(c, v)[t]] # 0
<1>1. Meets(c, v)[t] \in Names
  BY MeetsNames
<1>2. PastColumn(Meets(c, v)[t])
  <2>1. CASE t = 0
    BY <2>1, MeetsNames DEF PastColumn, Fits
  <2>2. CASE t \in 1 .. 3
    <3>1. Meets(c, v)[t] = NameOf(t, Unit[t][c], v) /\ Unit[t][c] \in Units
      BY <2>2, MeetsNames
    <3>2. ~Has(puzzle, t, Unit[t][c], v)
      BY <2>2 DEF Fits
    <3> QED  BY <2>2, <3>1, <3>2 DEF PastColumn
  <2> QED  BY <2>1, <2>2
<1> QED  BY <1>1, <1>2 DEF Complete

\* What TypeOK says of the state but the nodes.
RestOK ==
    /\ puzzle \in Puzzles
    /\ cols \in Seq(1 .. last) /\ rows \in Seq(1 .. last) /\ stack \in Seq(1 .. last)
    /\ board \in [Cells -> Int] /\ result \in {"none", "solved"}
    /\ i \in Nat /\ j \in Nat /\ k \in Nat
    /\ pc \in {"start", "cells", "constraints", "options", "solve", "min", "cover",
               "coverRows", "row", "failed", "uncover", "uncoverRows", "done"}
    /\ stack = IF pc \in {"row", "uncover", "uncoverRows"} THEN Front(rows) ELSE rows

\* The parts of TypeOK make it.
LEMMA TypesNext ==
  ASSUME MemoryOK', RestOK' PROVE TypeOK'
<1>1. {left', right', up', down', col'} \subseteq [Nodes -> 0 .. last']
  BY DEF MemoryOK
<1>2. \A n \in 1 .. last' : {left'[n], right'[n], up'[n], down'[n], col'[n]} \subseteq 1 .. last'
  BY DEF MemoryOK
<1> QED  BY <1>1, <1>2, Zenon DEF TypeOK, MemoryOK, RestOK

\* A step of the constructor keeps the types if it keeps those of the nodes.
LEMMA TypesKept ==
  ASSUME TypeOK, UNCHANGED <<nodes, frames, answer, puzzle>>, MemoryOK',
         i' \in Nat, j' \in Nat, k' \in Nat,
         pc' \in {"start", "cells", "constraints", "options", "solve", "done"},
         pc \in {"start", "cells", "constraints", "options", "solve"}
  PROVE  TypeOK'
<1>1. RestOK
  BY MemoryTypes DEF RestOK
<1>2. RestOK'
  BY <1>1 DEF RestOK, nodes, names, frames, answer
<1> QED  BY <1>2, TypesNext

\* One column more.
LEMMA AddColumn ==
  ASSUME NEW F, NEW N, NEW O, Built(F, N, O), Fresh(F), TypeOK, pc \in {"cells", "constraints"},
         pc' = pc, NEW n \in Names, columns[n] = 0, last < MaxNodes, AppendColumn(n),
         UNCHANGED <<puzzle, frames, answer>>, i' \in Nat, j' \in Nat, k' \in Nat,
         \A x \in Names : PastColumn(x)' <=> PastColumn(x) \/ x = n,
         NEW c, c = last + 1
  PROVE  Built(c, N, O)' /\ Fresh(c)' /\ TypeOK' /\ last' = c
<1>1. /\ N = 0 /\ F = last /\ Named(F) /\ Meant(F, N, O) /\ Digits /\ last \in Nat
      /\ \A x \in Names : columns[x] # 0 <=> PastColumn(x)
      /\ \A b \in Cells, v \in Vals : PastOption(b, v) <=> \E g \in 1 .. N : O[g] = <<b, v>>
      /\ columns \in [Names -> 0 .. last]
  <2>1. /\ N = 0 /\ last = F + 4 * N /\ Named(F) /\ Meant(F, N, O) /\ Digits
        /\ \A x \in Names : columns[x] # 0 <=> PastColumn(x)
        /\ \A b \in Cells, v \in Vals : PastOption(b, v) <=> \E g \in 1 .. N : O[g] = <<b, v>>
    BY DEF Built, Half, Building, Complete
  <2>2. last \in Nat /\ F \in Nat /\ columns \in [Names -> 0 .. last]
    <3>1. last \in Nat /\ MemoryOK
      BY Arrays, MemoryTypes
    <3>2. F \in 1 .. last
      BY <2>1 DEF Named
    <3> QED  BY <3>1, <3>2 DEF MemoryOK
  <2> QED  BY <2>1, <2>2
<1>2. /\ MemoryOK' /\ Named(c)' /\ Fresh(c)' /\ last' = c
      /\ columns' = [columns EXCEPT ![n] = c]
  BY <1>1, ColumnKeeps
<1>3. TypeOK'
  <2>1. RestOK
    BY MemoryTypes DEF RestOK
  <2>2. UNCHANGED <<puzzle, cols, rows, stack, board, result>>
    BY DEF frames, answer
  <2>3. cols = <<>> /\ rows = <<>> /\ stack = <<>>
    BY DEF Fresh
  <2>4. RestOK'
    BY <2>1, <2>2, <2>3 DEF RestOK
  <2> QED  BY <2>4, <1>2, TypesNext
<1>4. Meant(c, N, O)'
  <2>1. O \in [1 .. N -> Cells \X Vals]
    BY <1>1 DEF Meant
  <2>2. 1 .. N = {}
    BY <1>1
  <2> QED  BY <2>1, <2>2 DEF Meant
<1>5. Half(c, N)'
  BY <1>1, <1>2 DEF Half, Building
<1>6. Complete(N, O)'
  <2>1. \A x \in Names : columns'[x] # 0 <=> PastColumn(x)'
    <3>1. \A x \in Names : columns'[x] = IF x = n THEN c ELSE columns[x]
      BY <1>1, <1>2
    <3>2. c # 0
      BY <1>1
    <3> QED  BY <3>1, <3>2, <1>1
  <2>2. \A b \in Cells, v \in Vals : ~PastOption(b, v)' /\ ~(\E g \in 1 .. N : O[g] = <<b, v>>)
    BY <1>1 DEF PastOption
  <2> QED  BY <2>1, <2>2 DEF Complete
<1>7. Digits'
  BY <1>1 DEF Digits
<1> QED  BY <1>1, <1>2, <1>3, <1>4, <1>5, <1>6, <1>7 DEF Built

\* A step of the constructor that makes no node.
LEMMA PassBy ==
  ASSUME NEW F, NEW N, NEW O, Built(F, N, O), Fresh(F), TypeOK,
         UNCHANGED <<nodes, puzzle, frames, answer>>, i' \in Nat, j' \in Nat, k' \in Nat,
         pc \in {"cells", "constraints", "options"},
         pc' \in {"cells", "constraints", "options", "solve"},
         \A x \in Names : PastColumn(x)' <=> PastColumn(x),
         \A c \in Cells, v \in Vals : PastOption(c, v)' <=> PastOption(c, v),
         last = F + 4 * N, pc' = "options" => k' = 0, pc' \in {"cells", "constraints"} => N = 0
  PROVE  Built(F, N, O)' /\ Fresh(F)' /\ TypeOK'
<1>1. /\ Named(F) /\ Meant(F, N, O) /\ Half(F, N) /\ Complete(N, O) /\ Digits /\ N \in Nat
  BY DEF Built
<1>2. UNCHANGED <<left, right, up, down, size, col, name, last, columns, puzzle, cols, rows, stack,
                  board, result>>
  BY DEF nodes, header, lists, names, frames, answer
<1>3. Named(F)' /\ Meant(F, N, O)' /\ Digits' /\ Fresh(F)'
  <2>1. Named(F)' /\ Digits'
    BY <1>1, <1>2 DEF Named, Digits
  <2>2. \A g : Ring(F, g, 4)' <=> Ring(F, g, 4)
    BY <1>2 DEF Ring
  <2>3. \A g, c, v : Option(F, g, 4, c, v)' <=> Option(F, g, 4, c, v)
    BY <1>2 DEF Option
  <2>4. Meant(F, N, O)'
    BY <1>1, <2>2, <2>3 DEF Meant
  <2>5. \A c : OpenIn(F, None, c)' = OpenIn(F, None, c)
    BY <1>2 DEF OpenIn
  <2>6. Fresh(F)'
    BY <1>2, <2>5 DEF Fresh
  <2> QED  BY <2>1, <2>4, <2>6
<1>4. Half(F, N)'
  BY <1>2 DEF Half, Building
<1>5. Complete(N, O)'
  BY <1>1, <1>2 DEF Complete
<1>6. MemoryOK'
  <2>1. MemoryOK
    BY MemoryTypes
  <2> QED  BY <2>1, <1>2 DEF MemoryOK
<1>7. TypeOK'
  BY <1>6, TypesKept
<1> QED  BY <1>1, <1>3, <1>4, <1>5, <1>7 DEF Built

\* A node is left for what the constructor may append.
LEMMA Room ==
  ASSUME NEW F, NEW N, NEW O, Built(F, N, O), Bounds, TypeOK,
         \/ pc \in {"cells", "options"} /\ i \in Cells
         \/ pc = "constraints" /\ i \in Units
  PROVE  last < MaxNodes
<1>1. Side \in 1 .. 9 /\ Side * Side \in Nat /\ Units = 0 .. Side - 1 /\ Vals = 1 .. Side
  BY SmallNumbers DEF Units, Vals
<1>2. last \in Nat /\ (pc = "options" => k \in 0 .. 3)
  BY Arrays DEF Built, Half
<1>3. CASE pc = "cells"
  <2>1. i \in 0 .. Side * Side - 1 /\ last <= 1 + i
    BY <1>3 DEF Bounds, Cells
  <2>2. CASE Side = 1
    BY <2>1, <2>2, <1>2 DEF MaxNodes
  <2>3. CASE Side = 4
    BY <2>1, <2>3, <1>2 DEF MaxNodes
  <2>4. CASE Side = 9
    BY <2>1, <2>4, <1>2 DEF MaxNodes
  <2> QED  BY <2>2, <2>3, <2>4, Sizes
<1>4. CASE pc = "constraints"
  <2>1. /\ i \in 0 .. Side - 1 /\ j \in 1 .. Side /\ k \in 1 .. 3
        /\ last <= 1 + Side * Side + (i * Side + j - 1) * 3 + k - 1
    BY <1>1, <1>4 DEF Bounds
  <2>2. CASE Side = 1
    BY <2>1, <2>2, <1>2 DEF MaxNodes
  <2>3. CASE Side = 4
    BY <2>1, <2>3, <1>2 DEF MaxNodes
  <2>4. CASE Side = 9
    BY <2>1, <2>4, <1>2 DEF MaxNodes
  <2> QED  BY <2>2, <2>3, <2>4, Sizes
<1>5. CASE pc = "options"
  <2>1. /\ i \in 0 .. Side * Side - 1 /\ j \in 1 .. Side /\ k \in 0 .. 3
        /\ last <= 1 + 4 * Side * Side + (i * Side + j - 1) * 4 + k
    BY <1>1, <1>2, <1>5 DEF Bounds, Cells
  <2>2. CASE Side = 1
    BY <2>1, <2>2, <1>2 DEF MaxNodes
  <2>3. CASE Side = 4
    BY <2>1, <2>3, <1>2 DEF MaxNodes
  <2>4. CASE Side = 9
    BY <2>1, <2>4, <1>2 DEF MaxNodes
  <2> QED  BY <2>2, <2>3, <2>4, Sizes
<1> QED  BY <1>3, <1>4, <1>5

\* The constraint that the constructor is at has no column yet.
LEMMA NoColumnYet ==
  ASSUME NEW F, NEW N, NEW O, Built(F, N, O), Bounds, TypeOK,
         NEW n, \/ pc = "cells" /\ i \in Cells /\ n = i
                \/ pc = "constraints" /\ i \in Units /\ n = NameOf(k, i, j)
  PROVE  n \in Names /\ ~PastColumn(n) /\ columns[n] = 0
<1>1. \A x \in Names : columns[x] # 0 <=> PastColumn(x)
  BY DEF Built, Complete
<1>2. CASE pc = "cells" /\ i \in Cells /\ n = i
  <2>1. n \in Names /\ n \in Nat
    BY <1>2, CellNames, SmallNumbers
  <2>2. ~PastColumn(n)
    BY <1>2, <2>1 DEF PastColumn
  <2> QED  BY <2>1, <2>2, <1>1
<1>3. CASE pc = "constraints" /\ i \in Units /\ n = NameOf(k, i, j)
  <2>1. /\ j \in Vals /\ k \in 1 .. 3 /\ Side \in 1 .. 9 /\ Vals = 1 .. Side
        /\ Units = 0 .. Side - 1
    BY <1>3, SmallNumbers DEF Bounds, Vals, Units
  <2>2. n \in Names /\ n >= 100 /\ n \in Nat
    BY <2>1, <1>3, ConstraintNames
  <2>3. \A c \in Cells : n # c
    <3>1. \A c \in Cells : c < 100 /\ c \in Nat
      BY SmallNumbers
    <3> QED  BY <2>2, <3>1
  <2>4. ASSUME NEW t \in 1 .. 3, NEW u \in Units, NEW v \in Vals, n = NameOf(t, u, v)
        PROVE  ~(u < i \/ (u = i /\ Earlier(v, t, j, k)))
    <3>1. NameOf(t, u, v) = NameOf(k, i, j) /\ k \in 1 .. 3 /\ i \in Units /\ j \in Vals
      BY <2>1, <2>4, <1>3
    <3>2. t = k /\ u = i /\ v = j
      BY <3>1, NamesApart
    <3> QED  BY <3>2, <2>1, <1>3 DEF Earlier
  <2>5. ~PastColumn(n)
    BY <2>3, <2>4, <1>3 DEF PastColumn
  <2> QED  BY <2>2, <2>5, <1>1
<1> QED  BY <1>2, <1>3

\* The loop over the cells.
LEMMA AppendCellKeeps ==
  ASSUME NEW F, NEW N, NEW O, Built(F, N, O), Fresh(F), Bounds, TypeOK, AppendCell
  PROVE  /\ \E F2, N2, O2 : Built(F2, N2, O2)' /\ Fresh(F2)'
         /\ Bounds' /\ TypeOK' /\ pc' \in {"cells", "constraints"}
<1>1. /\ pc = "cells" /\ UNCHANGED <<puzzle, frames, answer>> /\ N = 0 /\ last = F + 4 * N
      /\ i \in 0 .. Side * Side /\ last <= 1 + i /\ last \in Nat /\ j \in Nat /\ k \in Nat
      /\ \A x \in Names : columns[x] # 0 <=> PastColumn(x)
  <2>1. pc = "cells" /\ UNCHANGED <<puzzle, frames, answer>>
    BY DEF AppendCell
  <2>2. N = 0 /\ last = F + 4 * N /\ \A x \in Names : columns[x] # 0 <=> PastColumn(x)
    BY <2>1 DEF Built, Half, Building, Complete
  <2>3. i \in 0 .. Side * Side /\ last <= 1 + i
    BY <2>1 DEF Bounds
  <2>4. last \in Nat /\ j \in Nat /\ k \in Nat
    BY Arrays DEF TypeOK
  <2> QED  BY <2>1, <2>2, <2>3, <2>4
<1>2. \A x : PastColumn(x) <=> \E c \in Cells : x = c /\ puzzle[c] = 0 /\ c < i
  BY <1>1 DEF PastColumn
<1>3. CASE i \in Cells
  <2>1. i' = i + 1 /\ pc' = "cells" /\ j' = j /\ k' = k
    BY <1>1, <1>3 DEF AppendCell
  <2>2. \A x : PastColumn(x)' <=> \E c \in Cells : x = c /\ puzzle[c] = 0 /\ c < i + 1
    BY <2>1, <1>1 DEF PastColumn
  <2>3. \A x : PastColumn(x)' <=> PastColumn(x) \/ (puzzle[i] = 0 /\ x = i)
    <3>1. \A c \in Cells : c < i + 1 <=> c < i \/ c = i
      BY <1>3 DEF Cells
    <3> QED  BY <3>1, <2>2, <1>2, <1>3
  <2>4. i \in 0 .. Side * Side - 1 /\ i + 1 \in 0 .. Side * Side /\ Side * Side \in Nat /\ i + 1 \in Nat
    <3>1. Side * Side \in Nat
      BY SmallNumbers
    <3> QED  BY <3>1, <1>3, <1>1 DEF Cells
  <2>5. CASE puzzle[i] = 0
    <3>1. AppendColumn(i) /\ i \in Names /\ columns[i] = 0
      BY <2>5, <1>3, <1>1, NoColumnYet DEF AppendCell
    <3>2. last < MaxNodes
      BY <1>1, <1>3, Room
    <3>3. PICK c : c = last + 1
      OBVIOUS
    <3>4. Built(c, N, O)' /\ Fresh(c)' /\ TypeOK' /\ last' = c
      BY <3>1, <3>2, <3>3, <2>1, <2>3, <2>4, <2>5, <1>1, AddColumn
    <3>5. Bounds'
      BY <3>3, <3>4, <2>1, <2>4, <1>1 DEF Bounds
    <3> QED  BY <3>4, <3>5, <2>1
  <2>6. CASE puzzle[i] # 0
    <3>1. UNCHANGED nodes
      BY <2>6, <1>3, <1>1 DEF AppendCell
    <3>2. Built(F, N, O)' /\ Fresh(F)' /\ TypeOK'
      <4>1. \A c, v : ~PastOption(c, v) /\ ~PastOption(c, v)'
        BY <1>1, <2>1 DEF PastOption
      <4> QED  BY <4>1, <3>1, <2>1, <2>3, <2>4, <2>6, <1>1, PassBy
    <3>3. Bounds'
      <4>1. last' = last
        BY <3>1 DEF nodes, names
      <4> QED  BY <4>1, <2>1, <2>4, <1>1 DEF Bounds
    <3> QED  BY <3>2, <3>3, <2>1
  <2> QED  BY <2>5, <2>6
<1>4. CASE i \notin Cells
  <2>1. i' = 0 /\ j' = 1 /\ k' = 1 /\ pc' = "constraints" /\ UNCHANGED nodes
    BY <1>1, <1>4 DEF AppendCell
  <2>2. i = Side * Side /\ \A c \in Cells : c < i
    BY <1>1, <1>4, SmallNumbers DEF Cells
  <2>3. \A x \in Names : PastColumn(x)' <=> PastColumn(x)
    <3>1. ASSUME NEW x PROVE PastColumn(x)' <=> \E c \in Cells : x = c /\ puzzle[c] = 0
      <4>1. \A t \in 1 .. 3, u \in Units, v \in Vals : ~(u < 0 \/ (u = 0 /\ Earlier(v, t, 1, 1)))
        BY SmallNumbers DEF Earlier
      <4> QED  BY <4>1, <2>1, <1>1 DEF PastColumn
    <3> QED  BY <3>1, <2>2, <1>2
  <2>4. Built(F, N, O)' /\ Fresh(F)' /\ TypeOK'
    <3>1. \A c, v : ~PastOption(c, v) /\ ~PastOption(c, v)'
      BY <1>1, <2>1 DEF PastOption
    <3> QED  BY <3>1, <2>1, <2>3, <1>1, PassBy
  <2>5. Bounds'
    <3>1. last' = last /\ Side \in 1 .. 9 /\ 1 \in Vals /\ 0 # Side /\ 0 \in 0 .. Side
      BY <2>1, SmallNumbers DEF nodes, names, Vals
    <3>2. Side * Side \in Nat /\ 0 * Side = 0
      BY <3>1, SmallNumbers
    <3>3. last <= 1 + Side * Side + (0 * Side + 1 - 1) * 3 + 1 - 1
      BY <3>2, <2>2, <1>1
    <3> QED  BY <3>1, <3>3, <2>1 DEF Bounds
  <2> QED  BY <2>1, <2>4, <2>5
<1> QED  BY <1>3, <1>4

\* The loop over the rows, columns and boxes.
LEMMA AppendConstraintKeeps ==
  ASSUME NEW F, NEW N, NEW O, Built(F, N, O), Fresh(F), Bounds, TypeOK, AppendConstraint
  PROVE  /\ \E F2, N2, O2 : Built(F2, N2, O2)' /\ Fresh(F2)'
         /\ Bounds' /\ TypeOK' /\ pc' \in {"constraints", "options"}
<1>1. /\ pc = "constraints" /\ UNCHANGED <<puzzle, frames, answer>> /\ N = 0 /\ last = F + 4 * N
      /\ i \in 0 .. Side /\ j \in Vals /\ k \in 1 .. 3 /\ (i = Side => j = 1 /\ k = 1)
      /\ last <= 1 + Side * Side + (i * Side + j - 1) * 3 + k - 1 /\ last \in Nat
      /\ \A x \in Names : columns[x] # 0 <=> PastColumn(x)
  <2>1. pc = "constraints" /\ UNCHANGED <<puzzle, frames, answer>>
    BY DEF AppendConstraint
  <2>2. N = 0 /\ last = F + 4 * N /\ \A x \in Names : columns[x] # 0 <=> PastColumn(x)
    BY <2>1 DEF Built, Half, Building, Complete
  <2>3. /\ i \in 0 .. Side /\ j \in Vals /\ k \in 1 .. 3 /\ (i = Side => j = 1 /\ k = 1)
        /\ last <= 1 + Side * Side + (i * Side + j - 1) * 3 + k - 1
    BY <2>1 DEF Bounds
  <2>4. last \in Nat
    BY Arrays
  <2> QED  BY <2>1, <2>2, <2>3, <2>4
<1> DEFINE Past(t, u, v) == u < i \/ (u = i /\ Earlier(v, t, j, k))
           IsCell(x) == \E c \in Cells : x = c /\ puzzle[c] = 0
<1>2. \A x : PastColumn(x) <=>
         \/ IsCell(x)
         \/ \E t \in 1 .. 3, u \in Units, v \in Vals :
               x = NameOf(t, u, v) /\ ~Has(puzzle, t, u, v) /\ Past(t, u, v)
  BY <1>1 DEF PastColumn
<1>3. Side \in 1 .. 9 /\ Side * Side \in Nat /\ Units = 0 .. Side - 1 /\ Vals = 1 .. Side
  BY SmallNumbers DEF Units, Vals
<1>4. CASE i \in Units
  <2> DEFINE n == NameOf(k, i, j)
  <2>1. /\ k' = IF k < 3 THEN k + 1 ELSE 1
        /\ j' = IF k < 3 THEN j ELSE IF j < Side THEN j + 1 ELSE 1
        /\ i' = IF k = 3 /\ j = Side THEN i + 1 ELSE i
        /\ pc' = "constraints"
    BY <1>1, <1>4 DEF AppendConstraint
  <2>2. /\ i' \in 0 .. Side /\ j' \in Vals /\ k' \in 1 .. 3 /\ (i' = Side => j' = 1 /\ k' = 1)
        /\ i' \in Nat /\ j' \in Nat /\ k' \in Nat
    BY <2>1, <1>1, <1>3, <1>4
  <2>3. ASSUME NEW t \in 1 .. 3, NEW u \in Units, NEW v \in Vals
        PROVE  u < i' \/ (u = i' /\ Earlier(v, t, j', k')) <=>
               Past(t, u, v) \/ (t = k /\ u = i /\ v = j)
    BY <2>1, <1>1, <1>3, <1>4 DEF Earlier
  <2>4. \A x : PastColumn(x)' <=>
           \/ IsCell(x)
           \/ \E t \in 1 .. 3, u \in Units, v \in Vals :
                 /\ x = NameOf(t, u, v) /\ ~Has(puzzle, t, u, v)
                 /\ u < i' \/ (u = i' /\ Earlier(v, t, j', k'))
    BY <2>1, <1>1 DEF PastColumn
  <2>5. n \in Names /\ ~PastColumn(n) /\ i \in Units /\ j \in Vals /\ k \in 1 .. 3 /\ n \in Nat
    <3>1. n \in Names /\ ~PastColumn(n)
      BY <1>1, <1>4, NoColumnYet
    <3> QED  BY <3>1, <1>1, <1>4 DEF Names
  <2>6. \A x : PastColumn(x)' <=> PastColumn(x) \/ (~Has(puzzle, k, i, j) /\ x = n)
    <3> HIDE DEF Past, IsCell
    <3> SUFFICES ASSUME NEW x
                 PROVE  PastColumn(x)' <=> PastColumn(x) \/ (~Has(puzzle, k, i, j) /\ x = n)
      OBVIOUS
    <3>1. ASSUME PastColumn(x)' PROVE PastColumn(x) \/ (~Has(puzzle, k, i, j) /\ x = n)
      <4>1. CASE IsCell(x)
        BY <4>1, <1>2
      <4>2. CASE ~IsCell(x)
        <5>1. PICK t \in 1 .. 3, u \in Units, v \in Vals :
                 /\ x = NameOf(t, u, v) /\ ~Has(puzzle, t, u, v)
                 /\ u < i' \/ (u = i' /\ Earlier(v, t, j', k'))
          BY <3>1, <4>2, <2>4
        <5>2. Past(t, u, v) \/ (t = k /\ u = i /\ v = j)
          BY <5>1, <2>3
        <5> QED  BY <5>1, <5>2, <1>2
      <4> QED  BY <4>1, <4>2
    <3>2. ASSUME PastColumn(x) PROVE PastColumn(x)'
      <4>1. CASE IsCell(x)
        BY <4>1, <2>4
      <4>2. CASE ~IsCell(x)
        <5>1. PICK t \in 1 .. 3, u \in Units, v \in Vals :
                 x = NameOf(t, u, v) /\ ~Has(puzzle, t, u, v) /\ Past(t, u, v)
          BY <3>2, <4>2, <1>2
        <5>2. u < i' \/ (u = i' /\ Earlier(v, t, j', k'))
          BY <5>1, <2>3
        <5> QED  BY <5>1, <5>2, <2>4
      <4> QED  BY <4>1, <4>2
    <3>3. ASSUME ~Has(puzzle, k, i, j), x = n PROVE PastColumn(x)'
      <4>1. i < i' \/ (i = i' /\ Earlier(j, k, j', k'))
        BY <2>3, <2>5
      <4> QED  BY <3>3, <4>1, <2>4, <2>5
    <3> QED  BY <3>1, <3>2, <3>3
  <2> HIDE DEF n
  <2>7. (i' * Side + j' - 1) * 3 + k' = (i * Side + j - 1) * 3 + k + 1
    <3>1. CASE Side = 1
      BY <3>1, <2>1, <1>1, <1>3, <1>4
    <3>2. CASE Side = 4
      BY <3>2, <2>1, <1>1, <1>3, <1>4
    <3>3. CASE Side = 9
      BY <3>3, <2>1, <1>1, <1>3, <1>4
    <3> QED  BY <3>1, <3>2, <3>3, Sizes
  <2>8. ASSUME last' = last \/ last' = last + 1 PROVE Bounds'
    <3>1. last' <= 1 + Side * Side + (i' * Side + j' - 1) * 3 + k' - 1
      <4>1. CASE Side = 1
        BY <4>1, <2>1, <2>7, <2>8, <1>1, <1>3, <1>4
      <4>2. CASE Side = 4
        BY <4>2, <2>1, <2>7, <2>8, <1>1, <1>3, <1>4
      <4>3. CASE Side = 9
        BY <4>3, <2>1, <2>7, <2>8, <1>1, <1>3, <1>4
      <4> QED  BY <4>1, <4>2, <4>3, Sizes
    <3> QED  BY <3>1, <2>1, <2>2 DEF Bounds
  <2>9. CASE ~Has(puzzle, k, i, j)
    <3>1. AppendColumn(n) /\ n \in Names /\ columns[n] = 0
      <4>1. AppendColumn(n)
        BY <2>9, <1>1, <1>4 DEF AppendConstraint, n
      <4> QED  BY <4>1, <2>5, <1>1
    <3>2. last < MaxNodes
      BY <1>1, <1>4, Room
    <3>3. PICK c : c = last + 1
      OBVIOUS
    <3>4. \A x \in Names : PastColumn(x)' <=> PastColumn(x) \/ x = n
      BY <2>6, <2>9
    <3>5. Built(c, N, O)' /\ Fresh(c)' /\ TypeOK' /\ last' = c
      BY <3>1, <3>2, <3>3, <3>4, <2>1, <2>2, <1>1, AddColumn
    <3> QED  BY <3>3, <3>5, <2>1, <2>8
  <2>10. CASE Has(puzzle, k, i, j)
    <3>1. UNCHANGED nodes /\ last' = last
      BY <2>10, <1>1, <1>4 DEF AppendConstraint, nodes, names
    <3>2. \A x \in Names : PastColumn(x)' <=> PastColumn(x)
      BY <2>6, <2>10
    <3>3. \A c, v : ~PastOption(c, v) /\ ~PastOption(c, v)'
      BY <1>1, <2>1 DEF PastOption
    <3>4. Built(F, N, O)' /\ Fresh(F)' /\ TypeOK'
      BY <3>1, <3>2, <3>3, <2>1, <2>2, <1>1, PassBy
    <3> QED  BY <3>1, <3>4, <2>1, <2>8
  <2> QED  BY <2>9, <2>10
<1>5. CASE i \notin Units
  <2>1. i' = 0 /\ j' = 1 /\ k' = 0 /\ pc' = "options" /\ UNCHANGED nodes
    BY <1>1, <1>5 DEF AppendConstraint
  <2>2. i = Side /\ j = 1 /\ k = 1 /\ \A u \in Units : u < i
    BY <1>1, <1>3, <1>5
  <2>3. \A x : PastColumn(x)' <=>
           \/ IsCell(x)
           \/ \E t \in 1 .. 3, u \in Units, v \in Vals : x = NameOf(t, u, v) /\ ~Has(puzzle, t, u, v)
    BY <2>1, <1>1 DEF PastColumn
  <2>4. \A x \in Names : PastColumn(x)' <=> PastColumn(x)
    BY <2>2, <2>3, <1>2
  <2>5. \A c \in Cells, v \in Vals : ~PastOption(c, v) /\ ~PastOption(c, v)'
    <3>1. \A c \in Cells, v \in Vals : ~Earlier(c, v, 0, 1)
      BY SmallNumbers DEF Earlier
    <3> QED  BY <3>1, <1>1, <2>1 DEF PastOption
  <2>6. Built(F, N, O)' /\ Fresh(F)' /\ TypeOK'
    BY <2>1, <2>4, <2>5, <1>1, PassBy
  <2>7. Bounds'
    <3>1. last' = last /\ 1 \in Vals /\ Side * Side # 0 /\ 0 \in 0 .. Side * Side
      BY <2>1, <1>3, SmallNumbers DEF nodes, names
    <3>2. last <= 1 + 4 * Side * Side + (0 * Side + 1 - 1) * 4 + 0
      <4>1. CASE Side = 1
        BY <4>1, <2>2, <1>1
      <4>2. CASE Side = 4
        BY <4>2, <2>2, <1>1
      <4>3. CASE Side = 9
        BY <4>3, <2>2, <1>1
      <4> QED  BY <4>1, <4>2, <4>3, Sizes
    <3> QED  BY <3>1, <3>2, <2>1 DEF Bounds
  <2> QED  BY <2>1, <2>6, <2>7
<1> QED  BY <1>4, <1>5

\* A node for constraint k of the option of value j for cell i.
LEMMA AddNode ==
  ASSUME NEW F, NEW N, NEW O, Built(F, N, O), Fresh(F), TypeOK, pc = "options", pc' = "options",
         i \in Cells, j \in Vals, Fits(puzzle, i, j), last < MaxNodes,
         NewRow(Meets(i, j)[k], last + 1 - k), UNCHANGED <<puzzle, frames, answer>>,
         i' \in Nat, j' \in Nat, k' = IF k = 3 THEN 0 ELSE k + 1,
         k # 3 => i' = i /\ j' = j,
         k = 3 => \A c \in Cells, v \in Vals :
                     Earlier(c, v, i', j') <=> Earlier(c, v, i, j) \/ (c = i /\ v = j),
         NEW N2, N2 = IF k = 3 THEN N + 1 ELSE N,
         NEW O2, O2 = [g \in 1 .. N2 |-> IF g = N + 1 THEN <<i, j>> ELSE O[g]],
         NEW r, r = last + 1
  PROVE  Built(F, N2, O2)' /\ Fresh(F)' /\ TypeOK' /\ last' = r
<1> DEFINE n == Meets(i, j)[k]
<1>1. /\ k \in 0 .. 3 /\ last = F + 4 * N + k /\ Named(F) /\ Meant(F, N, O) /\ Digits /\ N \in Nat
      /\ k # 0 => Ring(F, N + 1, k) /\ Option(F, N + 1, k, i, j)
      /\ Complete(N, O)
  BY DEF Built, Half
<1>2. last \in Nat /\ F \in Nat /\ F \in 1 .. last /\ r \in Nat /\ r \in Nodes /\ 1 .. last \subseteq Nodes
      /\ F + 4 * N + k = last
  <2>1. last \in Nat /\ last \in 1 .. MaxNodes /\ MaxNodes \in Nat
    BY Arrays, Sizes DEF Nodes
  <2>2. F \in 1 .. last
    BY <1>1 DEF Named
  <2>3. r \in 1 .. MaxNodes /\ 1 .. last \subseteq 1 .. MaxNodes
    BY <2>1
  <2> QED  BY <2>1, <2>2, <2>3, <1>1, SMTT(20) DEF Nodes
<1>3. n \in Names /\ columns[n] # 0
  BY <1>1, OptionColumns
<1> HIDE DEF n
<1>4. /\ MemoryOK' /\ Named(F)' /\ Fresh(F)' /\ last' = r /\ columns' = columns
      /\ name' = [name EXCEPT ![r] = n] /\ col' = [col EXCEPT ![r] = columns[n]]
      /\ \A m \in 1 .. F + 4 * N : right'[m] = right[m] /\ left'[m] = left[m]
      /\ \A q \in 0 .. 3 : q < k + 1 =>
            /\ right'[Node(F, N + 1, q)] = Node(F, N + 1, IF q = k THEN 0 ELSE q + 1)
            /\ left'[Node(F, N + 1, q)] = Node(F, N + 1, IF q = 0 THEN k ELSE q - 1)
  <2>1. NewRow(n, last + 1 - k)
    BY DEF n
  <2> QED  BY <2>1, <1>1, <1>3, RowKeeps
<1>5. TypeOK'
  <2>1. RestOK
    BY MemoryTypes DEF RestOK
  <2>2. UNCHANGED <<puzzle, cols, rows, stack, board, result>>
    BY DEF frames, answer
  <2>3. cols = <<>> /\ rows = <<>> /\ stack = <<>>
    BY DEF Fresh
  <2>4. k' \in Nat
    BY <1>1
  <2>5. RestOK'
    BY <2>1, <2>2, <2>3, <2>4 DEF RestOK
  <2> QED  BY <2>5, <1>4, TypesNext
<1>6. /\ \A m \in 1 .. last : name'[m] = name[m] /\ col'[m] = col[m] /\ m # r
      /\ name'[r] = n /\ col'[r] = columns[n]
  <2>1. name \in [Nodes -> Names] /\ col \in [Nodes -> 0 .. last]
    BY MemoryTypes DEF MemoryOK
  <2> QED  BY <2>1, <1>2, <1>4
<1>7. ASSUME NEW g \in 1 .. N
      PROVE  Ring(F, g, 4)' /\ Option(F, g, 4, O[g][1], O[g][2])'
  <2>1. Ring(F, g, 4) /\ Option(F, g, 4, O[g][1], O[g][2])
    BY <1>1 DEF Meant
  <2>2. \A q \in 0 .. 3 : Node(F, g, q) \in 1 .. F + 4 * N /\ Node(F, g, q) \in 1 .. last
    <3>1. N \in Nat /\ F \in Nat /\ last = F + 4 * N + k /\ k \in 0 .. 3
      BY <1>1, <1>2
    <3>2. g \in Nat /\ g >= 1 /\ g <= N
      BY <3>1
    <3> QED  BY <3>1, <3>2 DEF Node
  <2>3. Ring(F, g, 4)'
    BY <2>1, <2>2, <1>4 DEF Ring
  <2>4. Option(F, g, 4, O[g][1], O[g][2])'
    BY <2>1, <2>2, <1>4, <1>6 DEF Option
  <2> QED  BY <2>3, <2>4
<1>8. \A q \in 0 .. 3 : q < k + 1 =>
         /\ name'[Node(F, N + 1, q)] = Meets(i, j)[q]
         /\ col'[Node(F, N + 1, q)] = columns'[Meets(i, j)[q]]
  <2> SUFFICES ASSUME NEW q \in 0 .. 3, q < k + 1
               PROVE  /\ name'[Node(F, N + 1, q)] = Meets(i, j)[q]
                      /\ col'[Node(F, N + 1, q)] = columns'[Meets(i, j)[q]]
    OBVIOUS
  <2>1. Node(F, N + 1, q) = F + 4 * N + 1 + q
    BY <1>1, <1>2 DEF Node
  <2>2. CASE q = k
    <3>1. Node(F, N + 1, q) = r
      BY <2>1, <2>2, <1>1, <1>2
    <3> QED  BY <3>1, <2>2, <1>4, <1>6 DEF n
  <2>3. CASE q # k
    <3>1. Node(F, N + 1, q) \in 1 .. last /\ q < k /\ k # 0
      BY <2>1, <2>3, <1>1, <1>2
    <3>2. /\ name[Node(F, N + 1, q)] = Meets(i, j)[q]
          /\ col[Node(F, N + 1, q)] = columns[Meets(i, j)[q]]
      BY <3>1, <1>1 DEF Option
    <3> QED  BY <3>1, <3>2, <1>4, <1>6
  <2> QED  BY <2>2, <2>3
<1>9. Digits' /\ \A x \in Names : PastColumn(x)' <=> PastColumn(x)
  <2>1. Digits'
    BY <1>1 DEF Digits
  <2>2. \A x : PastColumn(x)' <=> PastColumn(x)
    BY DEF PastColumn
  <2> QED  BY <2>1, <2>2
<1>10. \A x \in Names : columns'[x] # 0 <=> PastColumn(x)'
  BY <1>1, <1>4, <1>9 DEF Complete
<1>11. CASE k = 3
  <2>1. N2 = N + 1 /\ k' = 0 /\ N2 \in Nat
    BY <1>1, <1>11
  <2>2. /\ O2[N + 1] = <<i, j>> /\ \A g \in 1 .. N : O2[g] = O[g] /\ g # N + 1
        /\ O2 \in [1 .. N2 -> Cells \X Vals]
    <3>1. 1 .. N2 = 1 .. N \cup {N + 1} /\ N + 1 \notin 1 .. N
      BY <2>1, <1>1
    <3>2. O \in [1 .. N -> Cells \X Vals] /\ <<i, j>> \in Cells \X Vals
      BY <1>1 DEF Meant
    <3> QED  BY <3>1, <3>2
  <2>3. ASSUME NEW g \in 1 .. N2
        PROVE  Ring(F, g, 4)' /\ Option(F, g, 4, O2[g][1], O2[g][2])'
    <3>1. CASE g \in 1 .. N
      BY <3>1, <2>2, <1>7
    <3>2. CASE g = N + 1
      <4>1. O2[g][1] = i /\ O2[g][2] = j
        BY <3>2, <2>2
      <4>2. Ring(F, N + 1, 4)'
        <5>1. 4 - 1 = k /\ \A q \in 0 .. 3 : q < k + 1
          BY <1>11
        <5> QED  BY <5>1, <1>4 DEF Ring
      <4>3. \A q \in 0 .. 3 : /\ name'[Node(F, N + 1, q)] = Meets(i, j)[q]
                              /\ col'[Node(F, N + 1, q)] = columns'[Meets(i, j)[q]]
        BY <1>8, <1>11
      <4>4. ASSUME NEW c, NEW v, c = i, v = j PROVE Option(F, N + 1, 4, c, v)'
        BY <4>3, <4>4 DEF Option
      <4>5. PICK c, v : c = O2[g][1] /\ v = O2[g][2]
        OBVIOUS
      <4>6. Option(F, N + 1, 4, c, v)'
        BY <4>1, <4>4, <4>5
      <4> QED  BY <4>2, <4>5, <4>6, <3>2
    <3>3. g \in 1 .. N \/ g = N + 1
      BY <2>1, <1>1
    <3> QED  BY <3>1, <3>2, <3>3
  <2>4. ASSUME NEW g \in 1 .. N PROVE Earlier(O[g][1], O[g][2], i, j)
    <3>1. O[g] \in Cells \X Vals
      BY <1>1 DEF Meant
    <3>2. PICK c \in Cells, v \in Vals : O[g] = <<c, v>>
      BY <3>1
    <3>3. PastOption(c, v)
      BY <3>2, <1>1 DEF Complete
    <3> QED  BY <3>2, <3>3 DEF PastOption
  <2>5. ASSUME NEW g \in 1 .. N2, NEW h \in 1 .. N2, g < h
        PROVE  Earlier(O2[g][1], O2[g][2], O2[h][1], O2[h][2])
    <3>1. g \in 1 .. N /\ (h \in 1 .. N \/ h = N + 1)
      BY <2>1, <2>5, <1>1
    <3>2. CASE h \in 1 .. N
      BY <3>1, <3>2, <2>2, <2>5, <1>1 DEF Meant
    <3>3. CASE h = N + 1
      BY <3>1, <3>3, <2>2, <2>4
    <3> QED  BY <3>1, <3>2, <3>3
  <2>6. Meant(F, N2, O2)'
    BY <2>2, <2>3, <2>5 DEF Meant
  <2>7. Half(F, N2)'
    <3>1. last' = F + 4 * N2 + 0
      <4>1. last' = last + 1
        BY <1>4
      <4>2. last = F + 4 * N + 3 /\ N2 = N + 1 /\ F \in Nat /\ N \in Nat
        BY <2>1, <1>1, <1>2, <1>11
      <4>3. PICK f, g, h : f = F /\ g = N /\ h = last
        OBVIOUS
      <4>4. h + 1 = f + 4 * (g + 1) + 0
        BY <4>2, <4>3
      <4> QED  BY <4>1, <4>2, <4>3, <4>4
    <3> QED  BY <3>1, <2>1 DEF Half
  <2>8. ASSUME NEW c \in Cells, NEW v \in Vals
        PROVE  PastOption(c, v)' <=> \E g \in 1 .. N2 : O2[g] = <<c, v>>
    <3>1. PastOption(c, v)' <=> PastOption(c, v) \/ (c = i /\ v = j)
      BY <1>11 DEF PastOption
    <3>2. PastOption(c, v) <=> \E g \in 1 .. N : O[g] = <<c, v>>
      BY <1>1 DEF Complete
    <3>3. 1 .. N2 = 1 .. N \cup {N + 1}
      BY <2>1, <1>1
    <3> QED  BY <3>1, <3>2, <3>3, <2>2
  <2> QED  BY <2>1, <2>6, <2>7, <2>8, <1>4, <1>5, <1>9, <1>10 DEF Built, Complete
<1>12. CASE k # 3
  <2>1. N2 = N /\ k' = k + 1 /\ i' = i /\ j' = j /\ k + 1 \in 0 .. 3
    BY <1>1, <1>12
  <2>2. O2 = O
    <3>1. O \in [1 .. N -> Cells \X Vals]
      BY <1>1 DEF Meant
    <3>2. \A g \in 1 .. N : g # N + 1
      BY <1>1
    <3> QED  BY <3>1, <3>2, <2>1
  <2>3. Meant(F, N, O)'
    BY <1>1, <1>7 DEF Meant
  <2>4. Half(F, N)'
    <3>1. last' = F + 4 * N + k'
      <4>1. last' = last + 1 /\ k' = k + 1
        BY <1>4, <2>1
      <4>2. last = F + 4 * N + k /\ F \in Nat /\ N \in Nat /\ k \in Nat
        BY <1>1, <1>2
      <4>3. PICK f, g, h, x : f = F /\ g = N /\ h = last /\ x = k
        OBVIOUS
      <4>4. h + 1 = f + 4 * g + (x + 1)
        BY <4>2, <4>3
      <4> QED  BY <4>1, <4>3, <4>4
    <3>2. Ring(F, N + 1, k)'
      <4>1. \A q \in 0 .. 3 : q < k + 1 =>
               /\ right'[Node(F, N + 1, q)] = Node(F, N + 1, IF q = (k + 1) - 1 THEN 0 ELSE q + 1)
               /\ left'[Node(F, N + 1, q)] = Node(F, N + 1, IF q = 0 THEN (k + 1) - 1 ELSE q - 1)
        <5>1. (k + 1) - 1 = k
          BY <1>1
        <5> QED  BY <5>1, <1>4
      <4> QED  BY <4>1, <2>1 DEF Ring
    <3>3. Option(F, N + 1, k, i, j)'
      BY <1>8, <2>1 DEF Option
    <3> QED  BY <3>1, <3>2, <3>3, <2>1 DEF Half
  <2>5. \A c \in Cells, v \in Vals : PastOption(c, v)' <=> PastOption(c, v)
    BY <2>1 DEF PastOption
  <2>6. Complete(N, O)'
    BY <2>5, <1>1, <1>10 DEF Complete
  <2> QED  BY <2>1, <2>2, <2>3, <2>4, <2>6, <1>1, <1>4, <1>5, <1>9 DEF Built
<1> QED  BY <1>11, <1>12

\* The loop over the options.
LEMMA AppendNodeKeeps ==
  ASSUME NEW F, NEW N, NEW O, Built(F, N, O), Fresh(F), Bounds, TypeOK, AppendNode, i \in Cells
  PROVE  /\ \E F2, N2, O2 : Built(F2, N2, O2)' /\ Fresh(F2)'
         /\ Bounds' /\ TypeOK' /\ pc' = "options"
<1>1. /\ pc = "options" /\ UNCHANGED <<puzzle, frames, answer>> /\ pc' = "options"
      /\ i \in 0 .. Side * Side - 1 /\ j \in Vals /\ k \in 0 .. 3 /\ last \in Nat
      /\ last <= 1 + 4 * Side * Side + (i * Side + j - 1) * 4 + k
      /\ k # 0 => Fits(puzzle, i, j)
      /\ last = F + 4 * N + k /\ N \in Nat
  <2>1. pc = "options" /\ UNCHANGED <<puzzle, frames, answer>> /\ pc' = "options"
    BY DEF AppendNode
  <2>2. k \in 0 .. 3 /\ last = F + 4 * N + k /\ (k # 0 => Fits(puzzle, i, j)) /\ N \in Nat
    BY <2>1 DEF Built, Half, Option
  <2>3. j \in Vals /\ last <= 1 + 4 * Side * Side + (i * Side + j - 1) * 4 + k
    BY <2>1 DEF Bounds
  <2>4. last \in Nat
    BY Arrays
  <2> QED  BY <2>1, <2>2, <2>3, <2>4 DEF Cells
<1>2. Side \in 1 .. 9 /\ Side * Side \in Nat /\ Vals = 1 .. Side
  BY SmallNumbers DEF Vals
<1>3. last < MaxNodes
  BY <1>1, Room
<1>4. LET next == ~Fits(puzzle, i, j) \/ k = 3
      IN  /\ k' = IF next THEN 0 ELSE k + 1
          /\ j' = IF ~next THEN j ELSE IF j < Side THEN j + 1 ELSE 1
          /\ i' = IF next /\ j = Side THEN i + 1 ELSE i
  BY DEF AppendNode
<1>5. /\ i' \in 0 .. Side * Side /\ j' \in Vals /\ k' \in 0 .. 3
      /\ i' \in Nat /\ j' \in Nat /\ k' \in Nat /\ (i' = Side * Side => j' = 1 /\ k' = 0)
  BY <1>1, <1>2, <1>4
<1>6. (~Fits(puzzle, i, j) \/ k = 3) => \A c \in Cells, v \in Vals :
         Earlier(c, v, i', j') <=> Earlier(c, v, i, j) \/ (c = i /\ v = j)
  <2> SUFFICES ASSUME ~Fits(puzzle, i, j) \/ k = 3, NEW c \in Cells, NEW v \in Vals
               PROVE  Earlier(c, v, i', j') <=> Earlier(c, v, i, j) \/ (c = i /\ v = j)
    OBVIOUS
  <2>1. c \in 0 .. 80 /\ v \in 1 .. Side
    BY <1>2, SmallNumbers
  <2>2. i' = (IF j = Side THEN i + 1 ELSE i) /\ j' = IF j < Side THEN j + 1 ELSE 1
    BY <1>4
  <2> QED  BY <2>1, <2>2, <1>1, <1>2 DEF Earlier
<1>7. ASSUME last' = last \/ (last' = last + 1 /\ Fits(puzzle, i, j)) PROVE Bounds'
  <2>1. last' <= 1 + 4 * Side * Side + (i' * Side + j' - 1) * 4 + k'
    <3>1. CASE Side = 1
      BY <3>1, <1>1, <1>2, <1>4, <1>7
    <3>2. CASE Side = 4
      BY <3>2, <1>1, <1>2, <1>4, <1>7
    <3>3. CASE Side = 9
      BY <3>3, <1>1, <1>2, <1>4, <1>7
    <3> QED  BY <3>1, <3>2, <3>3, Sizes
  <2> QED  BY <2>1, <1>1, <1>5 DEF Bounds
<1>8. CASE Fits(puzzle, i, j)
  <2>1. NewRow(Meets(i, j)[k], last + 1 - k)
    BY <1>8, <1>1 DEF AppendNode
  <2>2. PICK r, N2 : r = last + 1 /\ N2 = IF k = 3 THEN N + 1 ELSE N
    OBVIOUS
  <2>3. PICK O2 : O2 = [g \in 1 .. N2 |-> IF g = N + 1 THEN <<i, j>> ELSE O[g]]
    OBVIOUS
  <2>4. /\ k' = IF k = 3 THEN 0 ELSE k + 1
        /\ k # 3 => i' = i /\ j' = j
    BY <1>4, <1>8
  <2>5. Built(F, N2, O2)' /\ Fresh(F)' /\ TypeOK' /\ last' = r
    BY <2>1, <2>2, <2>3, <2>4, <1>1, <1>3, <1>5, <1>6, <1>8, AddNode
  <2> QED  BY <2>2, <2>5, <1>1, <1>7, <1>8
<1>9. CASE ~Fits(puzzle, i, j)
  <2>1. UNCHANGED nodes /\ last' = last
    BY <1>9, <1>1 DEF AppendNode, nodes, names
  <2>2. k = 0 /\ k' = 0 /\ last = F + 4 * N
    <3>1. k = 0 /\ k' = 0
      BY <1>1, <1>4, <1>9
    <3>2. F \in Nat
      BY Arrays DEF Built, Named
    <3> QED  BY <3>1, <3>2, <1>1
  <2>3. \A x \in Names : PastColumn(x)' <=> PastColumn(x)
    BY <1>1 DEF PastColumn
  <2>4. \A c \in Cells, v \in Vals : PastOption(c, v)' <=> PastOption(c, v)
    BY <1>1, <1>6, <1>9 DEF PastOption
  <2>5. Built(F, N, O)' /\ Fresh(F)' /\ TypeOK'
    BY <2>1, <2>2, <2>3, <2>4, <1>1, <1>5, PassBy
  <2> QED  BY <2>1, <2>5, <1>1, <1>7
<1> QED  BY <1>8, <1>9

\* Every node behind the columns is one of four of an option.
BehindColumns(F, N, n) == F \in Nat /\ N \in Nat /\ n \in F + 1 .. F + 4 * N
NodeOfOption(F, N, n) == \E g \in 1 .. N, q \in 0 .. 3 : n = Node(F, g, q)

\* A node behind the columns is one of an option.
LEMMA NodeOf ==
  ASSUME NEW F, NEW N, NEW n, BehindColumns(F, N, n)
  PROVE  NodeOfOption(F, N, n)
<1> USE DEF BehindColumns
<1> DEFINE m == n - F - 1
<1>1. m \in 0 .. 4 * N - 1
  OBVIOUS
<1>2. m = (4 * (m \div 4)) + (m % 4) /\ m % 4 \in 0 .. 3 /\ m \div 4 \in Nat
  BY <1>1
<1>3. m \div 4 + 1 \in 1 .. N
  BY <1>1, <1>2
<1>4. n = Node(F, m \div 4 + 1, m % 4)
  BY <1>1, <1>2 DEF Node
<1> QED  BY <1>2, <1>3, <1>4 DEF NodeOfOption

\* Node n is the q-th of an option that starts with node a.
InOption(F, n, a, q) ==
    /\ OptionOf(n) = {a, a + 1, a + 2, a + 3} /\ n = a + q /\ a \in F + 1 .. last - 3 /\ a \in Nat
    /\ right[n] # n /\ right[right[n]] # n /\ right[right[right[right[n]]]] = n
    /\ left[right[n]] = n /\ left[n] = right[right[right[n]]]

\* The ring of an option when all four are made.
LEMMA OptionIs ==
  ASSUME NEW F \in Nat, NEW N \in Nat, last = F + 4 * N, NEW g \in 1 .. N, Ring(F, g, 4),
         NEW q \in 0 .. 3, NEW n, n = Node(F, g, q), NEW a, a = Node(F, g, 0)
  PROVE  InOption(F, n, a, q)
<1>1. a = F + 4 * g - 3 /\ a \in Nat /\ a \in F + 1 .. last - 3 /\ \A p \in 0 .. 3 : Node(F, g, p) = a + p
  BY DEF Node
<1>2. /\ right[a] = a + 1 /\ right[a + 1] = a + 2 /\ right[a + 2] = a + 3 /\ right[a + 3] = a
      /\ left[a] = a + 3 /\ left[a + 1] = a /\ left[a + 2] = a + 1 /\ left[a + 3] = a + 2
  <2>1. \A p \in 0 .. 3 : /\ right[Node(F, g, p)] = Node(F, g, IF p = 3 THEN 0 ELSE p + 1)
                          /\ left[Node(F, g, p)] = Node(F, g, IF p = 0 THEN 3 ELSE p - 1)
    BY DEF Ring
  <2>2. Node(F, g, 0) = a /\ Node(F, g, 1) = a + 1 /\ Node(F, g, 2) = a + 2 /\ Node(F, g, 3) = a + 3
    BY <1>1
  <2>3. /\ right[Node(F, g, 0)] = Node(F, g, 1) /\ right[Node(F, g, 1)] = Node(F, g, 2)
        /\ right[Node(F, g, 2)] = Node(F, g, 3) /\ right[Node(F, g, 3)] = Node(F, g, 0)
        /\ left[Node(F, g, 0)] = Node(F, g, 3) /\ left[Node(F, g, 1)] = Node(F, g, 0)
        /\ left[Node(F, g, 2)] = Node(F, g, 1) /\ left[Node(F, g, 3)] = Node(F, g, 2)
    BY <2>1
  <2> QED  BY <2>2, <2>3
<1>3. n = a + q
  BY <1>1
<1>4. n = a \/ n = a + 1 \/ n = a + 2 \/ n = a + 3
  BY <1>1, <1>3
<1>5. a # a + 1 /\ a # a + 2 /\ a # a + 3 /\ a + 1 # a + 2 /\ a + 1 # a + 3 /\ a + 2 # a + 3
  BY <1>1
<1>6. OptionOf(n) = {a, a + 1, a + 2, a + 3}
  BY <1>2, <1>4 DEF OptionOf
<1>7. /\ right[n] # n /\ right[right[n]] # n /\ right[right[right[right[n]]]] = n
      /\ left[right[n]] = n /\ left[n] = right[right[right[n]]]
  BY <1>2, <1>4, <1>5
<1> QED  BY <1>1, <1>3, <1>6, <1>7 DEF InOption

\* What the constructor leaves has the shape that solve works on.
LEMMA ShapeBuilt ==
  ASSUME NEW F, NEW N, NEW O, Built(F, N, O), TypeOK, last = F + 4 * N,
         pc \notin {"start", "cells", "constraints"}
  PROVE  Shape(F)
<1>1. /\ Named(F) /\ N \in Nat /\ Complete(N, O) /\ O \in [1 .. N -> Cells \X Vals]
      /\ \A g \in 1 .. N : Ring(F, g, 4) /\ Option(F, g, 4, O[g][1], O[g][2])
  BY DEF Built, Meant
<1>2. F \in Nat /\ last \in Nat /\ F \in 1 .. last
  BY <1>1, Arrays DEF Named
<1>3. \A n \in F + 1 .. last : \E g \in 1 .. N, q \in 0 .. 3 : n = Node(F, g, q)
  <2> SUFFICES ASSUME NEW n \in F + 1 .. last PROVE NodeOfOption(F, N, n)
    BY DEF NodeOfOption
  <2>1. BehindColumns(F, N, n)
    BY <1>1, <1>2 DEF BehindColumns
  <2> QED  BY <2>1, NodeOf
<1>4. \A g \in 1 .. N : O[g][1] \in Cells /\ O[g][2] \in Vals
  BY <1>1
<1>5. ASSUME NEW g \in 1 .. N, NEW q \in 0 .. 3, NEW x, x = Meets(O[g][1], O[g][2])[q]
      PROVE  col[Node(F, g, q)] = columns[x] /\ columns[x] \in 2 .. F /\ name[columns[x]] = x
  <2>1. PICK c \in Cells, v \in Vals : c = O[g][1] /\ v = O[g][2]
    BY <1>4
  <2>2. Option(F, g, 4, c, v)
    BY <2>1, <1>1
  <2>3. Fits(puzzle, c, v) /\ col[Node(F, g, q)] = columns[Meets(c, v)[q]] /\ x = Meets(c, v)[q]
    BY <2>1, <2>2, <1>5 DEF Option
  <2>4. x \in Names /\ columns[x] # 0
    BY <2>3, <1>1, OptionColumns
  <2> QED  BY <2>3, <2>4, <1>1 DEF Named
<1>6. ASSUME NEW n \in F + 1 .. last
      PROVE  /\ col[n] \in 2 .. F
             /\ OptionOf(n) \subseteq F + 1 .. last
             /\ right[n] # n /\ right[right[n]] # n /\ right[right[right[right[n]]]] = n
             /\ left[right[n]] = n /\ left[n] = right[right[right[n]]]
             /\ \A m \in OptionOf(n) : m # n => col[m] # col[n]
  <2>1. PICK g \in 1 .. N, q \in 0 .. 3 : n = Node(F, g, q)
    BY <1>3
  <2>2. PICK a : a = Node(F, g, 0)
    OBVIOUS
  <2>3. /\ OptionOf(n) = {a, a + 1, a + 2, a + 3} /\ n = a + q /\ a \in F + 1 .. last - 3 /\ a \in Nat
        /\ right[n] # n /\ right[right[n]] # n /\ right[right[right[right[n]]]] = n
        /\ left[right[n]] = n /\ left[n] = right[right[right[n]]]
        /\ \A p \in 0 .. 3 : Node(F, g, p) = a + p
    <3>1. F \in Nat /\ N \in Nat /\ last = F + 4 * N /\ Ring(F, g, 4)
      BY <1>1, <1>2
    <3>2. \A p \in 0 .. 3 : Node(F, g, p) = a + p
      BY <3>1, <2>2 DEF Node
    <3>3. /\ OptionOf(n) = {a, a + 1, a + 2, a + 3} /\ n = a + q /\ a \in F + 1 .. last - 3 /\ a \in Nat
          /\ right[n] # n /\ right[right[n]] # n /\ right[right[right[right[n]]]] = n
          /\ left[right[n]] = n /\ left[n] = right[right[right[n]]]
      <4>1. InOption(F, n, a, q)
        BY <3>1, <2>1, <2>2, OptionIs
      <4> QED  BY <4>1 DEF InOption
    <3> QED  BY <3>2, <3>3
  <2>4. col[n] \in 2 .. F
    BY <2>1, <1>5
  <2>5. OptionOf(n) \subseteq F + 1 .. last
    BY <2>3, <1>2
  <2>6. ASSUME NEW m \in OptionOf(n), col[m] = col[n] PROVE m = n
    <3>1. PICK p \in 0 .. 3 : m = a + p
      BY <2>3
    <3>2. m = Node(F, g, p)
      BY <3>1, <2>3
    <3>3. PICK c \in Cells, v \in Vals : c = O[g][1] /\ v = O[g][2]
      BY <1>4
    <3>4. Meets(c, v)[p] = Meets(c, v)[q]
      <4>1. PICK x, y : x = Meets(O[g][1], O[g][2])[p] /\ y = Meets(O[g][1], O[g][2])[q]
        OBVIOUS
      <4>2. col[m] = columns[x] /\ name[columns[x]] = x
        BY <3>2, <4>1, <1>5
      <4>3. col[n] = columns[y] /\ name[columns[y]] = y
        BY <2>1, <4>1, <1>5
      <4> QED  BY <4>1, <4>2, <4>3, <3>3, <2>6
    <3>5. p = q
      BY <3>4, MeetsNames
    <3> QED  BY <3>2, <3>5, <2>1
  <2> QED  BY <2>3, <2>4, <2>5, <2>6
<1>7. ASSUME NEW n \in F + 1 .. last, NEW m \in F + 1 .. last, n < m, m \notin OptionOf(n),
             NEW y \in OptionOf(n)
      PROVE  y < m
  <2>1. PICK g \in 1 .. N, q \in 0 .. 3 : n = Node(F, g, q)
    BY <1>3
  <2>2. PICK h \in 1 .. N, p \in 0 .. 3 : m = Node(F, h, p)
    BY <1>3
  <2>3. PICK a : a = Node(F, g, 0)
    OBVIOUS
  <2>4. OptionOf(n) = {a, a + 1, a + 2, a + 3} /\ n = a + q /\ a = F + 4 * g - 3
    <3>1. F \in Nat /\ N \in Nat /\ last = F + 4 * N /\ Ring(F, g, 4)
      BY <1>1, <1>2
    <3>2. InOption(F, n, a, q)
      BY <3>1, <2>1, <2>3, OptionIs
    <3>3. a = F + 4 * g - 3
      BY <3>1, <2>3 DEF Node
    <3> QED  BY <3>2, <3>3 DEF InOption
  <2>5. m = F + 4 * h - 3 + p
    BY <2>2 DEF Node
  <2>6. g # h
    <3> SUFFICES ASSUME g = h PROVE FALSE
      OBVIOUS
    <3>1. m = a + p
      BY <2>4, <2>5
    <3>2. p = 0 \/ p = 1 \/ p = 2 \/ p = 3
      OBVIOUS
    <3>3. a + 0 = a
      BY <2>4, <1>2
    <3> QED  BY <3>1, <3>2, <3>3, <2>4, <1>7
  <2>7. g \in Nat /\ h \in Nat /\ F \in Nat
    BY <1>1, <1>2
  <2>8. g < h
    BY <2>4, <2>5, <2>6, <2>7, <1>7
  <2>9. y <= a + 3 /\ y \in Nat /\ m \in Nat
    BY <2>4, <2>7, <1>2, <1>7
  <2> QED  BY <2>4, <2>5, <2>7, <2>8, <2>9
<1> QED  BY <1>1, <1>2, <1>6, <1>7 DEF Shape, Named

\* At the end of the constructor nothing is covered and nothing has gone.
LEMMA SearchStarts ==
  ASSUME NEW F, NEW N, NEW O, Built(F, N, O), Fresh(F), TypeOK, last = F + 4 * N, pc = "options",
         UNCHANGED <<nodes, puzzle, frames, answer>>, pc' = "solve"
  PROVE  \E cov, gone, Q : Solving(F, cov, gone, Q)'
<1>1. UNCHANGED <<left, right, up, down, size, col, name, last, columns, puzzle, cols, rows, stack,
                  board, result>>
  BY DEF nodes, header, lists, names, frames, answer
<1>2. Shape(F)
  BY ShapeBuilt
<1>3. Shape(F)'
  <2>1. \A n : OptionOf(n)' = OptionOf(n)
    BY <1>1 DEF OptionOf
  <2> QED  BY <1>1, <1>2, <2>1 DEF Shape
<1>4. F \in 1 .. last /\ last \in Nat /\ F \in Nat
  BY <1>2, Arrays DEF Shape
<1>5. PICK cov, gone : cov = [n \in 1 .. F |-> 0] /\ gone = [n \in 1 .. last |-> 0]
  OBVIOUS
<1>6. /\ \A n \in 1 .. F : cov[n] = 0 /\ None[n] = 0 /\ n \in 1 .. last
      /\ \A n \in 1 .. last : gone[n] = 0 /\ None[n] = 0 /\ n \in Nat
      /\ cov \in [1 .. F -> Nat] /\ gone \in [1 .. last -> Nat]
  BY <1>4, <1>5 DEF None
<1>7. Gone(F, cov, gone)'
  <2>1. \A n \in 1 .. F : gone[n] = 0
    BY <1>6
  <2>2. \A n \in F + 1 .. last : gone[n] = 0
    BY <1>4, <1>6
  <2>3. ASSUME NEW n \in F + 1 .. last, NEW x \in OptionOf(n)' PROVE ~First(cov, x)'
    <3>1. col'[x] \in 1 .. F
      <4>1. x \in F + 1 .. last
        BY <1>1, <1>3, <2>3 DEF Shape
      <4>2. col'[x] \in 2 .. F
        BY <1>1, <1>3, <4>1 DEF Shape
      <4> QED  BY <4>2, <1>4
    <3> QED  BY <3>1, <1>6 DEF First
  <2> QED  BY <1>1, <2>1, <2>2, <2>3 DEF Gone
<1>8. Lists(F, cov, gone)'
  <2>1. /\ Dancing(1 .. F, One, None, right, left)
        /\ Dancing(1 .. last, col, None, down, up)
        /\ \A c \in 2 .. F : size[c] = Cardinality(OpenIn(F, None, c))
    BY DEF Fresh
  <2>2. Same(1 .. F, One, None, right, left, One, cov, right', left')
    BY <2>1, <1>1, <1>6 DEF Same
  <2>3. Same(1 .. last, col, None, down, up, col', gone, down', up')
    BY <2>1, <1>1, <1>6 DEF Same
  <2>4. Dancing(1 .. F, One, cov, right', left') /\ Dancing(1 .. last, col', gone, down', up')
    BY <2>2, <2>3, DancingSame
  <2>5. \A c : OpenIn(F, gone, c)' = OpenIn(F, None, c)
    <3>1. \A n \in F + 1 .. last : gone[n] = None[n]
      BY <1>4, <1>6
    <3> QED  BY <3>1, <1>1 DEF OpenIn
  <2> QED  BY <2>1, <2>4, <2>5, <1>1, <1>6 DEF Lists
<1>9. Levels(F, cov, 3)'
  <2>1. cols' = <<>> /\ rows' = <<>> /\ Len(<<>>) = 0 /\ 1 .. 0 = {}
    BY <1>1 DEF Fresh
  <2>2. Depth' /\ Position(3)' /\ InFrames(F, cov)'
    BY <2>1 DEF Depth, Position, InFrames, AtHeader
  <2>3. Slots(F, cov, 3)'
    BY <2>1, <1>6 DEF Slots, Slot
  <2> QED  BY <2>2, <2>3, <1>4, <1>6 DEF Levels
<1>10. Scanning(F, cov, gone)'
  BY DEF Scanning, Sweeping
<1> QED  BY <1>3, <1>7, <1>8, <1>9, <1>10 DEF Solving

\* When all options are made solve is called.
LEMMA OptionsDone ==
  ASSUME NEW F, NEW N, NEW O, Built(F, N, O), Fresh(F), Bounds, TypeOK, AppendNode, i \notin Cells
  PROVE  /\ Built(F, N, O)' /\ TypeOK' /\ pc' = "solve"
         /\ \E cov, gone, Q : Solving(F, cov, gone, Q)'
<1>1. /\ pc = "options" /\ UNCHANGED <<nodes, puzzle, frames, answer, i, j, k>> /\ pc' = "solve"
      /\ i = Side * Side /\ j = 1 /\ k = 0
  <2>1. pc = "options" /\ UNCHANGED <<nodes, puzzle, frames, answer, i, j, k>> /\ pc' = "solve"
    BY DEF AppendNode
  <2>2. i \in 0 .. Side * Side /\ (i = Side * Side => j = 1 /\ k = 0)
    BY <2>1 DEF Bounds
  <2>3. Side * Side \in Nat
    BY SmallNumbers
  <2> QED  BY <2>1, <2>2, <2>3 DEF Cells
<1>2. last = F + 4 * N
  <2>1. N \in Nat /\ Named(F) /\ last = F + 4 * N + k
    BY <1>1 DEF Built, Half
  <2>2. F \in Nat
    BY <2>1, Arrays DEF Named
  <2> QED  BY <2>1, <2>2, <1>1
<1>3. \A c \in Cells, v \in Vals : PastOption(c, v)' <=> PastOption(c, v)
  <2>1. \A c \in Cells : c < i
    BY <1>1, SmallNumbers DEF Cells
  <2> QED  BY <2>1, <1>1 DEF PastOption, Earlier
<1>4. \A x \in Names : PastColumn(x)' <=> PastColumn(x)
  BY <1>1 DEF PastColumn
<1>5. Built(F, N, O)' /\ TypeOK'
  <2>1. i' \in Nat /\ j' \in Nat /\ k' \in Nat
    BY <1>1 DEF TypeOK
  <2> QED  BY <2>1, <1>1, <1>2, <1>3, <1>4, PassBy
<1>6. \E cov, gone, Q : Solving(F, cov, gone, Q)'
  BY <1>1, <1>2, SearchStarts
<1> QED  BY <1>1, <1>5, <1>6

\* Nothing is on the board but the root.
LEMMA InitKeeps ==
  ASSUME Init PROVE IInv
<1>1. /\ puzzle \in Puzzles /\ last = 1 /\ columns = [n \in Names |-> 0] /\ pc = "start"
      /\ left = [n \in Nodes |-> IF n = 1 THEN 1 ELSE 0]
      /\ right = [n \in Nodes |-> IF n = 1 THEN 1 ELSE 0]
      /\ up = [n \in Nodes |-> IF n = 1 THEN 1 ELSE 0]
      /\ down = [n \in Nodes |-> IF n = 1 THEN 1 ELSE 0]
      /\ col = [n \in Nodes |-> IF n = 1 THEN 1 ELSE 0]
      /\ name = [n \in Nodes |-> 0] /\ size = [n \in Nodes |-> 0]
      /\ cols = <<>> /\ rows = <<>> /\ stack = <<>> /\ board = puzzle /\ result = "none"
      /\ i = 0 /\ j = 0 /\ k = 0
  BY DEF Init
<1>2. 1 \in Nodes /\ 0 \in Names /\ 1 .. 1 = {1}
  <2>1. MaxNodes \in Nat /\ MaxNodes >= 1
    BY Sizes DEF MaxNodes
  <2> QED  BY <2>1 DEF Nodes, Names
<1>3. MemoryOK
  <2>1. 0 \in 0 .. 1 /\ 1 \in 0 .. 1
    OBVIOUS
  <2> QED  BY <1>1, <1>2, <2>1 DEF MemoryOK
<1>4. TypeOK
  <2>1. puzzle \in [Cells -> Int]
    BY <1>1, SolverAssumption
  <2> QED  BY <1>1, <1>3, <2>1, MemoryTypes
<1>5. Fresh(1)
  <2>1. \A of, T : Seen(1 .. 1, of, T, 1) = {1}
    BY <1>2 DEF Seen
  <2>2. Follows({1}, 1, 1)
    BY DEF Follows
  <2>3. right[1] = 1 /\ left[1] = 1 /\ down[1] = 1 /\ up[1] = 1
    BY <1>1, <1>2
  <2>4. Dancing(1 .. 1, One, None, right, left) /\ Dancing(1 .. 1, col, None, down, up)
    BY <1>2, <2>1, <2>2, <2>3 DEF Dancing
  <2>5. 2 .. 1 = {}
    OBVIOUS
  <2> QED  BY <1>1, <2>4, <2>5 DEF Fresh
<1>6. PICK O : O = [g \in 1 .. 0 |-> <<0, 0>>]
  OBVIOUS
<1>7. Built(1, 0, O)
  <2>1. Named(1)
    <3>1. 2 .. 1 = {} /\ 1 \in 1 .. 1 /\ col[1] = 1
      BY <1>1, <1>2
    <3> QED  BY <1>1, <1>2, <3>1 DEF Named
  <2>2. Meant(1, 0, O)
    <3>1. 1 .. 0 = {}
      OBVIOUS
    <3> QED  BY <1>6, <3>1 DEF Meant
  <2>3. Half(1, 0)
    BY <1>1 DEF Half
  <2>4. Complete(0, O)
    <3>1. 1 .. 0 = {}
      OBVIOUS
    <3> QED  BY <1>1, <3>1 DEF Complete, PastColumn, PastOption
  <2> QED  BY <1>1, <2>1, <2>2, <2>3, <2>4 DEF Built
<1>8. Bounds /\ Building
  BY <1>1 DEF Bounds, Building
<1> QED  BY <1>4, <1>5, <1>7, <1>8 DEF IInv

\* solveSuduku refuses a board or makes a solver for it.
LEMMA StartKeeps ==
  ASSUME NEW F, NEW N, NEW O, Built(F, N, O), Fresh(F), Bounds, TypeOK, Start
  PROVE  IInv'
<1>1. /\ pc = "start" /\ UNCHANGED <<puzzle, nodes, frames, answer, i, j, k>> /\ last = 1 /\ i = 0
      /\ pc' = IF \A c \in Cells : puzzle[c] \in 0 .. Side THEN "cells" ELSE "done"
  BY DEF Start, Bounds
<1>2. UNCHANGED <<left, right, up, down, size, col, name, last, columns, puzzle, cols, rows, stack,
                  board, result>>
  BY <1>1 DEF nodes, header, lists, names, frames, answer
<1>3. /\ Named(F) /\ Meant(F, N, O) /\ Complete(N, O) /\ N \in Nat /\ N = 0 /\ last = F + 4 * N
      /\ F = 1
  <2>1. Named(F) /\ Meant(F, N, O) /\ Complete(N, O) /\ N \in Nat /\ N = 0 /\ last = F + 4 * N
    BY <1>1 DEF Built, Half, Building
  <2>2. F \in 1 .. last
    BY <2>1 DEF Named
  <2> QED  BY <2>1, <2>2, <1>1
<1>4. MemoryOK' /\ i' \in Nat /\ j' \in Nat /\ k' \in Nat
  <2>1. MemoryOK /\ i \in Nat /\ j \in Nat /\ k \in Nat
    BY MemoryTypes
  <2> QED  BY <2>1, <1>1, <1>2 DEF MemoryOK
<1>5. CASE pc' = "cells"
  <2>1. TypeOK'
    BY <1>1, <1>4, <1>5, TypesKept
  <2>2. Fresh(F)'
    <3>1. \A c : OpenIn(F, None, c)' = OpenIn(F, None, c)
      BY <1>2 DEF OpenIn
    <3> QED  BY <1>2, <3>1 DEF Fresh
  <2>3. Built(F, N, O)'
    <3>1. Named(F)' /\ Digits'
      BY <1>1, <1>2, <1>3, <1>5 DEF Named, Digits
    <3>2. Meant(F, N, O)'
      <4>1. 1 .. N = {} /\ O \in [1 .. N -> Cells \X Vals]
        BY <1>3 DEF Meant
      <4> QED  BY <4>1 DEF Meant
    <3>3. Half(F, N)'
      BY <1>2, <1>3, <1>5 DEF Half
    <3>4. Complete(N, O)'
      <4>1. ASSUME NEW x PROVE ~PastColumn(x) /\ ~PastColumn(x)'
        <5>1. \A c \in Cells : ~(c < 0)
          BY SmallNumbers
        <5> QED  BY <5>1, <1>1, <1>5 DEF PastColumn
      <4>2. \A c, v : ~PastOption(c, v) /\ ~PastOption(c, v)'
        BY <1>1, <1>5 DEF PastOption
      <4> QED  BY <4>1, <4>2, <1>2, <1>3 DEF Complete
    <3> QED  BY <3>1, <3>2, <3>3, <3>4, <1>3 DEF Built
  <2>4. Bounds' /\ Building'
    <3>1. Side * Side \in Nat /\ last' = 1 /\ i' = 0
      BY <1>1, <1>2, SmallNumbers
    <3> QED  BY <1>5, <3>1 DEF Bounds, Building
  <2> QED  BY <2>1, <2>2, <2>3, <2>4 DEF IInv
<1>6. CASE pc' # "cells"
  <2>1. pc' = "done" /\ ~Digits
    BY <1>1, <1>6 DEF Digits
  <2>2. TypeOK'
    BY <1>1, <1>4, <2>1, TypesKept
  <2>3. right[1] = 1 /\ left[1] = 1
    <3>1. Dancing(1 .. 1, One, None, right, left) /\ 1 .. 1 = {1}
      BY <1>3 DEF Fresh
    <3> QED  BY <3>1 DEF Dancing, Follows, Seen
  <2>4. col[1] = 1 /\ cols = <<>> /\ rows = <<>> /\ stack = <<>> /\ result = "none"
    BY <1>3 DEF Named, Fresh
  <2>5. Rejected'
    BY <2>1, <2>3, <2>4, <1>1, <1>2 DEF Rejected, Digits
  <2> QED  BY <2>2, <2>5 DEF IInv
<1> QED  BY <1>5, <1>6

\* The steps of the constructor.
LEMMA BuildKeeps ==
  ASSUME IInv, Building, Next PROVE IInv'
<1>1. TypeOK /\ \E F, N, O : Built(F, N, O) /\ Fresh(F) /\ Bounds
  BY DEF IInv, Rejected, Building
<1>2. PICK F, N, O : Built(F, N, O) /\ Fresh(F) /\ Bounds
  BY <1>1
<1>3. Start \/ AppendCell \/ AppendConstraint \/ AppendNode
  BY DEF Building, Next, Solved, StartMin, CompareMin, TakeMin, TryRow, Descend, Backtrack, Advance,
         NoMoreRows, Cover, Unlink, NextToCover, Covered, Uncover, Relink, NextToRelink, Uncovered
<1>4. CASE Start
  BY <1>1, <1>2, <1>4, StartKeeps
<1>5. CASE AppendCell
  <2>1. (\E F2, N2, O2 : Built(F2, N2, O2)' /\ Fresh(F2)') /\ Bounds' /\ TypeOK' /\ Building'
    BY <1>1, <1>2, <1>5, AppendCellKeeps DEF Building
  <2> QED  BY <2>1 DEF IInv
<1>6. CASE AppendConstraint
  <2>1. (\E F2, N2, O2 : Built(F2, N2, O2)' /\ Fresh(F2)') /\ Bounds' /\ TypeOK' /\ Building'
    BY <1>1, <1>2, <1>6, AppendConstraintKeeps DEF Building
  <2> QED  BY <2>1 DEF IInv
<1>7. CASE AppendNode /\ i \in Cells
  <2>1. (\E F2, N2, O2 : Built(F2, N2, O2)' /\ Fresh(F2)') /\ Bounds' /\ TypeOK' /\ Building'
    BY <1>1, <1>2, <1>7, AppendNodeKeeps DEF Building
  <2> QED  BY <2>1 DEF IInv
<1>8. CASE AppendNode /\ i \notin Cells
  <2>1. /\ Built(F, N, O)' /\ TypeOK' /\ ~Building'
        /\ \E cov, gone, Q : Solving(F, cov, gone, Q)'
    BY <1>1, <1>2, <1>8, OptionsDone DEF Building
  <2> QED  BY <2>1 DEF IInv
<1> QED  BY <1>3, <1>4, <1>5, <1>6, <1>7, <1>8

-------------------------------------------------------------------------------
(* The steps of solve keep the types and what the constructor has made.    *)

\* What the last element of a sequence and the rest are.
LEMMA Ends ==
  ASSUME NEW S, NEW s \in Seq(S), NEW x
  PROVE  /\ x \in S => Append(s, x) \in Seq(S)
         /\ Front(Append(s, x)) = s /\ Last(Append(s, x)) = x
         /\ s # <<>> => /\ Front(s) \in Seq(S) /\ Last(s) \in S /\ Append(Front(s), Last(s)) = s
                        /\ Len(Front(s)) = Len(s) - 1 /\ Len(s) \in Nat \ {0}
                        /\ \A d \in 1 .. Len(s) - 1 : Front(s)[d] = s[d]
<1>1. x \in S => Append(s, x) \in Seq(S)
  OBVIOUS
<1>2. Len(s) \in Nat /\ Len(Append(s, x)) = Len(s) + 1 /\ Append(s, x)[Len(s) + 1] = x
      /\ \A d \in 1 .. Len(s) : Append(s, x)[d] = s[d]
  OBVIOUS
<1>3. Last(Append(s, x)) = x
  BY <1>2 DEF Last
<1>4. Front(Append(s, x)) = s
  BY <1>2 DEF Front
<1>5. ASSUME s # <<>>
      PROVE  /\ Front(s) \in Seq(S) /\ Last(s) \in S /\ Append(Front(s), Last(s)) = s
             /\ Len(Front(s)) = Len(s) - 1 /\ Len(s) \in Nat \ {0}
             /\ \A d \in 1 .. Len(s) - 1 : Front(s)[d] = s[d]
  <2>1. Len(s) \in Nat \ {0} /\ Last(s) \in S
    BY <1>5 DEF Last
  <2>2. Front(s) \in Seq(S) /\ Len(Front(s)) = Len(s) - 1
        /\ \A d \in 1 .. Len(s) - 1 : Front(s)[d] = s[d]
    <3>1. PICK n \in Nat : n = Len(s) - 1 /\ n + 1 = Len(s)
      BY <2>1
    <3>2. \A d \in 1 .. n : s[d] \in S
      BY <3>1
    <3>3. SubSeq(s, 1, n) \in Seq(S) /\ Len(SubSeq(s, 1, n)) = n
      BY <3>1, <3>2
    <3>4. \A d \in 1 .. n : SubSeq(s, 1, n)[d] = s[d]
      BY <3>1, <3>2
    <3> QED  BY <3>1, <3>3, <3>4 DEF Front
  <2>3. Append(Front(s), Last(s)) = s
    BY <2>1, <2>2 DEF Last
  <2> QED  BY <2>1, <2>2, <2>3
<1> QED  BY <1>1, <1>3, <1>4, <1>5

\* The names of the columns that node n's option meets give the cell and the value.
OptionAt(n, c, v) ==
    /\ c \in Cells /\ v \in Vals
    /\ NamesAt(n) = Range(Meets(c, v)) /\ CellAt(n) = c /\ ValAt(n) = v

\* An option has one name below 100, and the others end in its value.
LEMMA NamesToOption ==
  ASSUME NEW n, NEW c \in Cells, NEW v \in Vals, NamesAt(n) = Range(Meets(c, v))
  PROVE  OptionAt(n, c, v)
<1>1. c \in 0 .. 80 /\ v \in 1 .. 9
  BY SmallNumbers
<1>2. \A x : x \in NamesAt(n) <=> x = c \/ \E t \in 1 .. 3 : x = NameOf(t, Unit[t][c], v)
  <2>1. \A x : x \in NamesAt(n) <=> \E t \in 0 .. 3 : x = Meets(c, v)[t]
    BY DEF Range, Meets
  <2>2. Meets(c, v)[0] = c /\ \A t \in 1 .. 3 : Meets(c, v)[t] = NameOf(t, Unit[t][c], v)
    BY MeetsNames
  <2>3. \A t \in 0 .. 3 : t = 0 \/ t \in 1 .. 3
    OBVIOUS
  <2>4. 0 \in 0 .. 3 /\ \A t \in 1 .. 3 : t \in 0 .. 3
    OBVIOUS
  <2> QED  BY <2>1, <2>2, <2>3, <2>4
<1>3. \A t \in 1 .. 3 : /\ NameOf(t, Unit[t][c], v) \in Nat /\ NameOf(t, Unit[t][c], v) >= 100
                        /\ NameOf(t, Unit[t][c], v) % 10 = v
  <2> SUFFICES ASSUME NEW t \in 1 .. 3
               PROVE  /\ NameOf(t, Unit[t][c], v) \in Nat /\ NameOf(t, Unit[t][c], v) >= 100
                      /\ NameOf(t, Unit[t][c], v) % 10 = v
    OBVIOUS
  <2>1. Unit[t][c] \in Units
    BY UnitTypes
  <2>2. PICK u : u = Unit[t][c]
    OBVIOUS
  <2>3. u \in 0 .. 8
    BY <2>1, <2>2, SmallNumbers
  <2>4. NameOf(t, u, v) = 100 * t + 10 * u + v
    BY DEF NameOf
  <2>5. NameOf(t, u, v) \in Nat /\ NameOf(t, u, v) >= 100 /\ NameOf(t, u, v) % 10 = v
    BY <2>3, <2>4, <1>1
  <2> QED  BY <2>2, <2>5
<1>4. CellAt(n) = c
  <2>1. \A x \in NamesAt(n) : x < 100 <=> x = c
    <3>1. \A t \in 1 .. 3 : ~(NameOf(t, Unit[t][c], v) < 100)
      BY <1>3
    <3>2. c < 100
      BY <1>1
    <3> QED  BY <3>1, <3>2, <1>2
  <2>2. c \in NamesAt(n)
    BY <1>2
  <2> QED  BY <2>1, <2>2 DEF CellAt
<1>5. ValAt(n) = v
  <2>1. \A x \in NamesAt(n) : x >= 100 => x % 10 = v
    <3>1. ~(c >= 100)
      BY <1>1
    <3> QED  BY <3>1, <1>2, <1>3
  <2>2. \E x \in NamesAt(n) : x >= 100
    <3>1. 1 \in 1 .. 3
      OBVIOUS
    <3> QED  BY <3>1, <1>2, <1>3
  <2> QED  BY <2>1, <2>2 DEF ValAt
<1> QED  BY <1>4, <1>5 DEF OptionAt

\* Option g of the constructor.
LEMMA OptionNames ==
  ASSUME NEW F, NEW N, NEW O, Built(F, N, O), TypeOK, last = F + 4 * N,
         pc \notin {"start", "cells", "constraints"}, NEW n \in F + 1 .. last
  PROVE  \E g \in 1 .. N : /\ OptionAt(n, O[g][1], O[g][2]) /\ Fits(puzzle, O[g][1], O[g][2])
                           /\ n \in F + 4 * g - 3 .. F + 4 * g
<1>1. /\ Named(F) /\ N \in Nat /\ Complete(N, O) /\ O \in [1 .. N -> Cells \X Vals]
      /\ \A g \in 1 .. N : Ring(F, g, 4) /\ Option(F, g, 4, O[g][1], O[g][2])
  BY DEF Built, Meant
<1>2. F \in Nat /\ last \in Nat
  BY <1>1, Arrays DEF Named
<1>3. PICK g \in 1 .. N, q \in 0 .. 3 : n = Node(F, g, q)
  <2>1. BehindColumns(F, N, n)
    BY <1>1, <1>2 DEF BehindColumns
  <2>2. NodeOfOption(F, N, n)
    BY <2>1, NodeOf
  <2> QED  BY <2>2 DEF NodeOfOption
<1>4. PICK a : a = Node(F, g, 0)
  OBVIOUS
<1>5. PICK c \in Cells, v \in Vals : c = O[g][1] /\ v = O[g][2]
  BY <1>1
<1>6. /\ OptionOf(n) = {a, a + 1, a + 2, a + 3} /\ n = a + q /\ a = F + 4 * g - 3
      /\ \A p \in 0 .. 3 : Node(F, g, p) = a + p
  <2>1. Ring(F, g, 4)
    BY <1>1
  <2>2. InOption(F, n, a, q)
    BY <1>1, <1>2, <1>3, <1>4, <2>1, OptionIs
  <2>3. a = F + 4 * g - 3 /\ \A p \in 0 .. 3 : Node(F, g, p) = a + p
    BY <1>2, <1>4 DEF Node
  <2> QED  BY <2>2, <2>3 DEF InOption
<1>7. Fits(puzzle, c, v) /\ \A p \in 0 .. 3 : name[a + p] = Meets(c, v)[p]
  <2>1. Option(F, g, 4, c, v)
    BY <1>1, <1>5
  <2>2. Fits(puzzle, c, v) /\ \A p \in 0 .. 3 : name[Node(F, g, p)] = Meets(c, v)[p]
    BY <2>1 DEF Option
  <2> QED  BY <2>2, <1>6
<1>8. NamesAt(n) = Range(Meets(c, v))
  <2>1. \A x : x \in OptionOf(n) <=> \E p \in 0 .. 3 : x = a + p
    <3>1. a + 0 = a
      BY <1>2, <1>6
    <3> QED  BY <3>1, <1>6
  <2>2. \A y : y \in NamesAt(n) <=> \E p \in 0 .. 3 : y = name[a + p]
    BY <2>1 DEF NamesAt
  <2>3. \A y : y \in NamesAt(n) <=> \E p \in 0 .. 3 : y = Meets(c, v)[p]
    BY <2>2, <1>7
  <2>4. \A y : y \in Range(Meets(c, v)) <=> \E p \in 0 .. 3 : y = Meets(c, v)[p]
    BY DEF Range, Meets
  <2> QED  BY <2>3, <2>4
<1>9. OptionAt(n, c, v)
  BY <1>8, NamesToOption
<1>10. n \in F + 4 * g - 3 .. F + 4 * g
  BY <1>2, <1>6
<1> QED  BY <1>5, <1>7, <1>9, <1>10

\* solve changes neither the nodes of options nor what columns are named.
LEMMA BuiltKept ==
  ASSUME NEW F, NEW N, NEW O, Built(F, N, O), TypeOK, ~Building, ~Building',
         UNCHANGED <<puzzle, names>>,
         \A n \in F + 1 .. last : right'[n] = right[n] /\ left'[n] = left[n]
  PROVE  Built(F, N, O)'
<1>1. /\ Named(F) /\ Meant(F, N, O) /\ Half(F, N) /\ Complete(N, O) /\ Digits /\ N \in Nat
      /\ last = F + 4 * N
  BY DEF Built, Half, Building
<1>2. F \in Nat /\ F \in 1 .. last
  BY <1>1, Arrays DEF Named
<1>3. UNCHANGED <<col, name, last, columns>>
  BY DEF names
<1>4. Named(F)' /\ Digits'
  BY <1>1, <1>3 DEF Named, Digits
<1>5. Meant(F, N, O)'
  <2>1. ASSUME NEW g \in 1 .. N PROVE Ring(F, g, 4)' /\ Option(F, g, 4, O[g][1], O[g][2])'
    <3>1. Ring(F, g, 4) /\ Option(F, g, 4, O[g][1], O[g][2])
      BY <1>1 DEF Meant
    <3>2. \A q \in 0 .. 3 : Node(F, g, q) \in F + 1 .. last
      BY <1>1, <1>2 DEF Node
    <3>3. Ring(F, g, 4)'
      <4>1. \A q \in 0 .. 3 : right'[Node(F, g, q)] = right[Node(F, g, q)] /\ left'[Node(F, g, q)] = left[Node(F, g, q)]
        BY <3>2
      <4> QED  BY <3>1, <4>1 DEF Ring
    <3>4. Option(F, g, 4, O[g][1], O[g][2])'
      BY <3>1, <1>3 DEF Option
    <3> QED  BY <3>3, <3>4
  <2> QED  BY <1>1, <2>1 DEF Meant
<1>6. Half(F, N)'
  BY <1>1, <1>3 DEF Half, Building
<1>7. Complete(N, O)'
  <2>1. \A x : PastColumn(x)' <=> PastColumn(x)
    BY DEF PastColumn, Building
  <2>2. \A c, v : PastOption(c, v)' <=> PastOption(c, v)
    BY DEF PastOption, Building
  <2> QED  BY <2>1, <2>2, <1>1, <1>3 DEF Complete
<1> QED  BY <1>1, <1>4, <1>5, <1>6, <1>7 DEF Built

\* Links of nodes lead to nodes.
LEMMA LinkTypes ==
  ASSUME TypeOK
  PROVE  /\ last \in Nat /\ MemoryOK /\ RestOK
         /\ \A n \in 1 .. last : /\ left[n] \in 1 .. last /\ right[n] \in 1 .. last
                                 /\ up[n] \in 1 .. last /\ down[n] \in 1 .. last
                                 /\ left[n] \in Nat /\ right[n] \in Nat
                                 /\ up[n] \in Nat /\ down[n] \in Nat
<1>1. last \in Nat /\ MemoryOK /\ RestOK
  BY Arrays, MemoryTypes DEF RestOK
<1> QED  BY <1>1 DEF MemoryOK

\* k is 0 or a node, and i is a node where a column's rows are gone through.
LEMMA LoopNodes ==
  ASSUME NEW F, NEW cov, NEW gone, NEW Q, Solving(F, cov, gone, Q), TypeOK
  PROVE  /\ Sweeping => i \in 1 .. last /\ (k # 0 => k \in 1 .. last) /\ Argument \in 2 .. F
         /\ pc = "cover" => Argument \in 2 .. F \/ (k # 0 /\ k = Last(rows))
         /\ pc = "uncover" /\ (k # 0 => k # Last(rows)) => Argument \in 1 .. last
         /\ F \in 1 .. last /\ F \in Nat /\ Len(cols) \in Nat /\ Len(rows) \in Nat
         /\ (pc \in {"row", "failed", "cover", "coverRows", "uncover", "uncoverRows"} => Len(cols) > 0)
         /\ cols \in Seq(1 .. last) /\ rows \in Seq(1 .. last)
<1>1. F \in 1 .. last /\ F \in Nat /\ last \in Nat
  BY Arrays DEF Solving, Shape
<1>2. cols \in Seq(1 .. last) /\ rows \in Seq(1 .. last)
  BY LinkTypes DEF RestOK
<1>3. ASSUME Sweeping PROVE i \in 1 .. last /\ (k # 0 => k \in 1 .. last) /\ Argument \in 2 .. F
  <2>1. Argument \in 2 .. F /\ Len(cols) > 0
        /\ (k # 0 => Q \in 1 .. 3 /\ Len(rows) = Len(cols) /\ k = RightBy(rows[Len(rows)], Q))
    BY <1>3, SweepArgument
  <2>2. i \in 1 .. last
    <3>1. i = Argument \/ i \in F + 1 .. last
      BY <1>3 DEF Solving, Scanning
    <3> QED  BY <3>1, <2>1, <1>1
  <2>3. ASSUME k # 0 PROVE k \in 1 .. last
    <3>1. ~AtHeader
      BY <1>3, <2>3 DEF AtHeader, Sweeping
    <3>2. RightBy(rows[Len(rows)], Q) \in F + 1 .. last
      BY <3>1, <2>1, <2>3, RowFacts
    <3> QED  BY <3>2, <2>1, <2>3, <1>1
  <2> QED  BY <2>1, <2>2, <2>3
<1>4. ASSUME pc = "cover", k # 0 => k # Last(rows) PROVE Argument \in 2 .. F
  BY <1>4, CoverArgument
<1>5. ASSUME pc = "uncover", k # 0 => k # Last(rows) PROVE Argument \in 1 .. last
  <2>1. Argument \in 2 .. F
    BY <1>5, SweepArgument
  <2> QED  BY <2>1, <1>1
<1>6. Len(cols) \in Nat /\ Len(rows) \in Nat
  BY <1>2
<1>7. pc \in {"row", "failed", "cover", "coverRows", "uncover", "uncoverRows"} => Len(cols) > 0
  <2>1. Depth
    BY DEF Solving, Levels
  <2> QED  BY <2>1 DEF Depth
<1> QED  BY <1>1, <1>2, <1>3, <1>4, <1>5, <1>6, <1>7

\* The steps that change no node: the types.
LEMMA QuietTypes ==
  ASSUME TypeOK, UNCHANGED <<puzzle, nodes, answer>>, i' \in Nat, j' \in Nat, k' \in Nat,
         cols' \in Seq(1 .. last), rows' \in Seq(1 .. last), stack' \in Seq(1 .. last),
         pc' \in {"solve", "min", "cover", "coverRows", "row", "failed", "uncover", "uncoverRows",
                  "done"},
         stack' = IF pc' \in {"row", "uncover", "uncoverRows"} THEN Front(rows') ELSE rows'
  PROVE  TypeOK'
<1>1. UNCHANGED <<left, right, up, down, size, col, name, last, columns, board, result>>
  BY DEF nodes, header, lists, names, answer
<1>2. MemoryOK /\ RestOK
  BY LinkTypes
<1>3. MemoryOK'
  BY <1>1, <1>2 DEF MemoryOK
<1>4. RestOK'
  BY <1>1, <1>2 DEF RestOK
<1> QED  BY <1>3, <1>4, TypesNext

\* The steps of get_min_column keep the types.
LEMMA MinTypes ==
  ASSUME NEW F, NEW cov, NEW gone, NEW Q, Solving(F, cov, gone, Q), TypeOK,
         StartMin \/ CompareMin \/ TakeMin
  PROVE  TypeOK' /\ pc' \in {"min", "cover"}
<1>1. /\ F \in 1 .. last /\ F \in Nat /\ last \in Nat /\ cols \in Seq(1 .. last)
      /\ rows \in Seq(1 .. last) /\ stack \in Seq(1 .. last) /\ k \in Nat /\ i \in Nat /\ j \in Nat
      /\ \A n \in 1 .. last : right[n] \in 1 .. last /\ right[n] \in Nat
  BY LoopNodes, LinkTypes DEF RestOK
<1>2. pc \in {"solve", "min"} => stack = rows
  BY LinkTypes DEF RestOK
<1>3. pc = "min" => i \in 2 .. F /\ j \in 1 .. F
  BY DEF Solving, Scanning
<1>4. CASE StartMin
  <2>1. /\ i' = right[1] /\ j' = right[right[1]] /\ pc' = "min" /\ pc = "solve"
        /\ UNCHANGED <<puzzle, nodes, answer, cols, rows, stack, k>>
    BY <1>4 DEF StartMin, frames
  <2>2. i' \in Nat /\ j' \in Nat
    BY <2>1, <1>1
  <2> QED  BY <2>1, <2>2, <1>1, <1>2, QuietTypes
<1>5. CASE CompareMin
  <2>1. /\ i' = (IF size[j] < size[i] THEN j ELSE i) /\ j' = right[j] /\ pc' = "min" /\ pc = "min"
        /\ UNCHANGED <<puzzle, nodes, answer, cols, rows, stack, k>>
    BY <1>5 DEF CompareMin, frames
  <2>2. i' \in Nat /\ j' \in Nat
    BY <2>1, <1>1, <1>3
  <2> QED  BY <2>1, <2>2, <1>1, <1>2, QuietTypes
<1>6. CASE TakeMin
  <2>1. /\ cols' = Append(cols, i) /\ k' = 0 /\ pc' = "cover" /\ pc = "min"
        /\ UNCHANGED <<puzzle, nodes, rows, stack, answer, i, j>>
    BY <1>6 DEF TakeMin
  <2>2. cols' \in Seq(1 .. last)
    <3>1. i \in 1 .. last
      BY <2>1, <1>1, <1>3
    <3> QED  BY <3>1, <2>1, <1>1
  <2> QED  BY <2>1, <2>2, <1>1, <1>2, QuietTypes
<1>7. pc' \in {"min", "cover"}
  BY DEF StartMin, CompareMin, TakeMin
<1> QED  BY <1>4, <1>5, <1>6, <1>7

\* So do those of the loop over the rows.
LEMMA RowTypes ==
  ASSUME NEW F, NEW cov, NEW gone, NEW Q, Solving(F, cov, gone, Q), TypeOK,
         TryRow \/ Descend \/ Backtrack \/ Advance \/ NoMoreRows
  PROVE  TypeOK' /\ pc' \in {"cover", "solve", "row", "uncover"}
<1>1. /\ last \in Nat /\ cols \in Seq(1 .. last)
      /\ rows \in Seq(1 .. last) /\ stack \in Seq(1 .. last) /\ k \in Nat /\ i \in Nat /\ j \in Nat
      /\ \A n \in 1 .. last : /\ right[n] \in Nat /\ left[n] \in Nat
                              /\ down[n] \in 1 .. last
  BY LoopNodes, LinkTypes DEF RestOK
<1>2. stack = IF pc \in {"row", "uncover", "uncoverRows"} THEN Front(rows) ELSE rows
  BY LinkTypes DEF RestOK
<1>3. k # 0 \/ pc # "cover" => Len(rows) = Len(cols)
  <2>1. Depth
    BY DEF Solving, Levels
  <2> QED  BY <2>1 DEF Depth, TryRow, Descend, Backtrack, Advance, NoMoreRows
<1>4. rows # <<>>
  <2>1. Len(cols) > 0
    BY LoopNodes DEF TryRow, Descend, Backtrack, Advance, NoMoreRows
  <2>2. Len(rows) = Len(cols)
    BY <1>3 DEF TryRow, Descend, Backtrack, Advance, NoMoreRows
  <2> QED  BY <2>1, <2>2, <1>1
<1>5. /\ Front(rows) \in Seq(1 .. last) /\ Last(rows) \in 1 .. last
      /\ Append(Front(rows), Last(rows)) = rows
  BY <1>1, <1>4, Ends
<1>6. CASE TryRow
  <2>1. /\ pc = "row" /\ stack' = Append(stack, Last(rows)) /\ k' = right[Last(rows)] /\ pc' = "cover"
        /\ UNCHANGED <<puzzle, nodes, cols, rows, answer, i, j>>
    BY <1>6 DEF TryRow
  <2>2. stack' = rows /\ k' \in Nat
    BY <2>1, <1>1, <1>2, <1>5
  <2> QED  BY <2>1, <2>2, <1>1, QuietTypes
<1>7. CASE Descend
  <2>1. /\ pc = "cover" /\ pc' = "solve"
        /\ UNCHANGED <<puzzle, nodes, cols, rows, stack, answer, i, j, k>>
    BY <1>7 DEF Descend, frames
  <2> QED  BY <2>1, <1>1, <1>2, QuietTypes
<1>8. CASE Backtrack
  <2>1. /\ pc = "failed" /\ stack' = Front(stack) /\ k' = left[Last(rows)] /\ pc' = "uncover"
        /\ UNCHANGED <<puzzle, nodes, cols, rows, answer, i, j>>
    BY <1>8 DEF Backtrack, NextToUncover
  <2>2. stack' = Front(rows) /\ k' \in Nat
    BY <2>1, <1>1, <1>2, <1>5
  <2> QED  BY <2>1, <2>2, <1>1, <1>5, QuietTypes
<1>9. CASE Advance
  <2>1. /\ pc = "uncover" /\ rows' = Append(Front(rows), down[Last(rows)]) /\ pc' = "row"
        /\ UNCHANGED <<puzzle, nodes, cols, stack, answer, i, j, k>>
    BY <1>9 DEF Advance, NextRow
  <2>2. rows' \in Seq(1 .. last) /\ Front(rows') = Front(rows)
    <3>1. PICK s, m : s = Front(rows) /\ m = down[Last(rows)]
      OBVIOUS
    <3>2. s \in Seq(1 .. last) /\ m \in 1 .. last
      BY <3>1, <1>1, <1>5
    <3>3. Append(s, m) \in Seq(1 .. last) /\ Front(Append(s, m)) = s
      BY <3>2, Ends
    <3> QED  BY <3>1, <3>3, <2>1
  <2> QED  BY <2>1, <2>2, <1>1, <1>2, QuietTypes
<1>10. CASE NoMoreRows
  <2>1. /\ pc = "row" /\ k' = 0 /\ pc' = "uncover"
        /\ UNCHANGED <<puzzle, nodes, cols, rows, stack, answer, i, j>>
    BY <1>10 DEF NoMoreRows, frames
  <2> QED  BY <2>1, <1>1, <1>2, QuietTypes
<1>11. pc' \in {"cover", "solve", "row", "uncover"}
  BY DEF TryRow, Descend, Backtrack, Advance, NoMoreRows
<1> QED  BY <1>6, <1>7, <1>8, <1>9, <1>10, <1>11

\* And those of the loops of cover and uncover that change no link.
LEMMA LoopTypes ==
  ASSUME NEW F, NEW cov, NEW gone, NEW Q, Solving(F, cov, gone, Q), TypeOK,
         NextToCover \/ Covered \/ Uncover \/ NextToRelink
  PROVE  TypeOK' /\ pc' \in {"coverRows", "row", "cover", "uncoverRows"}
<1>1. /\ last \in Nat /\ cols \in Seq(1 .. last)
      /\ rows \in Seq(1 .. last) /\ stack \in Seq(1 .. last) /\ k \in Nat /\ i \in Nat /\ j \in Nat
      /\ \A n \in 1 .. last : /\ right[n] \in Nat /\ left[n] \in Nat /\ up[n] \in 1 .. last
                              /\ down[n] \in 1 .. last /\ up[n] \in Nat /\ down[n] \in Nat
  BY LoopNodes, LinkTypes DEF RestOK
<1>2. stack = IF pc \in {"row", "uncover", "uncoverRows"} THEN Front(rows) ELSE rows
  BY LinkTypes DEF RestOK
<1>3. /\ Sweeping => i \in 1 .. last /\ (k # 0 => k \in 1 .. last) /\ Argument \in 2 .. F
      /\ pc = "uncover" /\ (k # 0 => k # Last(rows)) => Argument \in 1 .. last
      /\ Sweeping => Len(cols) > 0
  BY LoopNodes DEF Sweeping
<1>4. CASE NextToCover
  <2>1. /\ pc = "coverRows" /\ pc' = "coverRows" /\ i' = down[i] /\ j' = right[down[i]]
        /\ UNCHANGED <<puzzle, nodes, cols, rows, stack, answer, k>>
    BY <1>4 DEF NextToCover, frames
  <2>2. i' \in Nat /\ j' \in Nat
    BY <2>1, <1>1, <1>3 DEF Sweeping
  <2> QED  BY <2>1, <2>2, <1>1, <1>2, QuietTypes
<1>5. CASE Covered /\ k = 0
  <2>1. /\ pc = "coverRows" /\ pc' = "row" /\ rows' = Append(rows, down[Last(cols)])
        /\ UNCHANGED <<puzzle, nodes, cols, stack, answer, i, j, k>>
    BY <1>5 DEF Covered, FirstRow
  <2>2. PICK m : m = down[Last(cols)]
    OBVIOUS
  <2>3. m \in 1 .. last
    <3>1. Last(cols) \in 1 .. last
      BY <2>1, <1>1, <1>3 DEF Sweeping, Last
    <3> QED  BY <3>1, <2>2, <1>1
  <2>4. Append(rows, m) \in Seq(1 .. last) /\ Front(Append(rows, m)) = rows
    BY <2>3, <1>1, Ends
  <2> QED  BY <2>1, <2>2, <2>4, <1>1, <1>2, QuietTypes
<1>6. CASE Covered /\ k # 0
  <2>1. /\ pc = "coverRows" /\ pc' = "cover" /\ k' = right[k]
        /\ UNCHANGED <<puzzle, nodes, cols, rows, stack, answer, i, j>>
    BY <1>6 DEF Covered
  <2>2. k' \in Nat
    BY <2>1, <1>1, <1>3, <1>6 DEF Sweeping
  <2> QED  BY <2>1, <2>2, <1>1, <1>2, QuietTypes
<1>7. CASE Uncover
  <2>1. /\ pc = "uncover" /\ pc' = "uncoverRows" /\ i' = up[Argument] /\ j' = left[up[Argument]]
        /\ (k # 0 => k # Last(rows)) /\ UNCHANGED <<puzzle, nodes, cols, rows, stack, answer, k>>
    BY <1>7 DEF Uncover, frames
  <2>2. i' \in Nat /\ j' \in Nat
    BY <2>1, <1>1, <1>3
  <2> QED  BY <2>1, <2>2, <1>1, <1>2, QuietTypes
<1>8. CASE NextToRelink
  <2>1. /\ pc = "uncoverRows" /\ pc' = "uncoverRows" /\ i' = up[i] /\ j' = left[up[i]]
        /\ UNCHANGED <<puzzle, nodes, cols, rows, stack, answer, k>>
    BY <1>8 DEF NextToRelink, frames
  <2>2. i' \in Nat /\ j' \in Nat
    BY <2>1, <1>1, <1>3 DEF Sweeping
  <2> QED  BY <2>1, <2>2, <1>1, <1>2, QuietTypes
<1>9. pc' \in {"coverRows", "row", "cover", "uncoverRows"}
  BY DEF NextToCover, Covered, Uncover, NextToRelink
<1> QED  BY <1>4, <1>5, <1>6, <1>7, <1>8, <1>9

\* The steps that change links: the types.
LEMMA HeaderTypes ==
  ASSUME NEW F, NEW cov, NEW gone, NEW Q, Solving(F, cov, gone, Q), TypeOK, Cover \/ Uncovered
  PROVE  /\ TypeOK' /\ pc' \in {"coverRows", "done", "failed", "uncover"}
         /\ UNCHANGED <<puzzle, names>>
         /\ \A n \in F + 1 .. last : right'[n] = right[n] /\ left'[n] = left[n]
<1>1. /\ last \in Nat /\ cols \in Seq(1 .. last) /\ F \in Nat /\ F \in 1 .. last
      /\ rows \in Seq(1 .. last) /\ stack \in Seq(1 .. last) /\ k \in Nat /\ i \in Nat /\ j \in Nat
      /\ \A n \in 1 .. last : /\ right[n] \in 1 .. last /\ left[n] \in 1 .. last
                              /\ right[n] \in Nat /\ left[n] \in Nat
                              /\ down[n] \in 1 .. last /\ down[n] \in Nat
      /\ MemoryOK /\ RestOK /\ Len(cols) \in Nat
  BY LoopNodes, LinkTypes DEF RestOK
<1>2. stack = IF pc \in {"row", "uncover", "uncoverRows"} THEN Front(rows) ELSE rows
  BY LinkTypes DEF RestOK
<1>3. PICK c, a, b : c = Argument /\ a = left[c] /\ b = right[c]
  OBVIOUS
<1>4. c \in 2 .. F
  <2>1. Cover => c \in 2 .. F
    BY <1>3, LoopNodes DEF Cover
  <2>2. Uncovered => c \in 2 .. F
    BY <1>3, LoopNodes DEF Uncovered, Sweeping
  <2> QED  BY <2>1, <2>2
<1>5. a \in 1 .. F /\ b \in 1 .. F
  <2>1. Dancing(1 .. F, One, cov, right, left)
    BY DEF Solving, Lists
  <2>2. c \in 1 .. F
    BY <1>1, <1>4
  <2> QED  BY <2>1, <2>2, <1>3, DancingIn
<1>6. PICK x, y \in 1 .. F : left' = [left EXCEPT ![b] = x] /\ right' = [right EXCEPT ![a] = y]
  <2>1. CASE Cover
    BY <2>1, <1>3, <1>5 DEF Cover
  <2>2. CASE Uncovered
    <3>1. c \in 1 .. F
      BY <1>1, <1>4
    <3>2. left' = [left EXCEPT ![b] = c] /\ right' = [right EXCEPT ![a] = c]
      BY <2>2, <1>3 DEF Uncovered
    <3> QED  BY <3>1, <3>2
  <2> QED  BY <2>1, <2>2
<1>7. UNCHANGED <<puzzle, lists, names, answer>>
  BY DEF Cover, Uncovered
<1>8. UNCHANGED <<up, down, size, col, name, last, columns, board, result>>
  BY <1>7 DEF lists, names, answer
<1>9. left \in [Nodes -> 0 .. last] /\ right \in [Nodes -> 0 .. last] /\ 1 .. last \subseteq Nodes
  BY Arrays
<1>10. /\ left' \in [Nodes -> 0 .. last] /\ right' \in [Nodes -> 0 .. last]
       /\ \A n \in 1 .. last : left'[n] \in 1 .. last /\ right'[n] \in 1 .. last
       /\ \A n \in F + 1 .. last : right'[n] = right[n] /\ left'[n] = left[n]
  <2>1. x \in 1 .. last /\ y \in 1 .. last /\ x \in 0 .. last /\ y \in 0 .. last
    BY <1>1
  <2>2. \A n \in F + 1 .. last : n # a /\ n # b /\ n \in 1 .. last
    BY <1>1, <1>5
  <2>3. left' \in [Nodes -> 0 .. last] /\ right' \in [Nodes -> 0 .. last]
    BY <2>1, <1>6, <1>9
  <2>4. \A n \in 1 .. last : left'[n] \in 1 .. last /\ right'[n] \in 1 .. last
    BY <2>1, <1>1, <1>6, <1>9
  <2>5. \A n \in F + 1 .. last : right'[n] = right[n] /\ left'[n] = left[n]
    BY <2>2, <1>6, <1>9
  <2> QED  BY <2>3, <2>4, <2>5
<1>11. MemoryOK'
  BY <1>1, <1>8, <1>10 DEF MemoryOK
<1>12. RestOK'
  <2>1. CASE Cover
    <3>1. /\ pc = "cover" /\ pc' = "coverRows" /\ i' = down[c] /\ j' = right[down[c]]
          /\ UNCHANGED <<cols, rows, stack, k>>
      BY <2>1, <1>3 DEF Cover, frames
    <3>2. i' \in Nat /\ j' \in Nat
      <4>1. c \in 1 .. last
        BY <1>1, <1>4
      <4> QED  BY <4>1, <3>1, <1>1
    <3> QED  BY <3>1, <3>2, <1>1, <1>2, <1>7, <1>8 DEF RestOK
  <2>2. CASE Uncovered /\ k = 0
    <3>1. /\ pc = "uncoverRows" /\ pc' \in {"done", "failed"} /\ cols' = Front(cols)
          /\ rows' = Front(rows) /\ UNCHANGED <<stack, i, j, k>>
      BY <2>2 DEF Uncovered
    <3>2. cols # <<>> /\ rows # <<>>
      <4>1. Len(cols) > 0 /\ Len(rows) = Len(cols)
        BY <3>1, LoopNodes, SweepArgument DEF Sweeping
      <4> QED  BY <4>1, <1>1
    <3>3. Front(cols) \in Seq(1 .. last) /\ Front(rows) \in Seq(1 .. last)
      BY <3>2, <1>1, Ends
    <3> QED  BY <3>1, <3>3, <1>1, <1>2, <1>7, <1>8 DEF RestOK
  <2>3. CASE Uncovered /\ k # 0
    <3>1. /\ pc = "uncoverRows" /\ pc' = "uncover" /\ k' = left[k]
          /\ UNCHANGED <<cols, rows, stack, i, j>>
      BY <2>3 DEF Uncovered, NextToUncover
    <3>2. k \in 1 .. last
      BY <3>1, <2>3, LoopNodes DEF Sweeping
    <3> QED  BY <3>1, <3>2, <1>1, <1>2, <1>7, <1>8 DEF RestOK
  <2> QED  BY <2>1, <2>2, <2>3
<1>13. pc' \in {"coverRows", "done", "failed", "uncover"}
  BY DEF Cover, Uncovered
<1> QED  BY <1>7, <1>10, <1>11, <1>12, <1>13, TypesNext

\* Unlinking and relinking keep them, because a size counts what is linked.
LEMMA ListTypes ==
  ASSUME NEW F, NEW cov, NEW gone, NEW Q, Solving(F, cov, gone, Q), TypeOK, Unlink \/ Relink,
         NEW gone2, Solving(F, cov, gone2, Q)'
  PROVE  TypeOK' /\ pc' = pc /\ Sweeping /\ UNCHANGED <<puzzle, header, names>>
<1>1. /\ last \in Nat /\ F \in Nat /\ F \in 1 .. last
      /\ \A n \in 1 .. last : /\ up[n] \in 1 .. last /\ down[n] \in 1 .. last
                              /\ right[n] \in Nat /\ left[n] \in Nat
      /\ MemoryOK /\ RestOK
  BY LoopNodes, LinkTypes DEF RestOK
<1>2. /\ pc' = pc /\ Sweeping /\ i # Argument /\ j # i
      /\ UNCHANGED <<puzzle, header, names, frames, answer, i, k>>
  BY DEF Unlink, Relink, Sweeping
<1>3. UNCHANGED <<left, right, col, name, last, columns, cols, rows, stack, board, result>>
  BY <1>2 DEF header, names, frames, answer
<1>4. j \in 1 .. last /\ col[j] \in 2 .. F
  <2>1. j \in F + 1 .. last /\ col[j] \in 2 .. F
    BY <1>2, SweepNode
  <2> QED  BY <2>1, <1>1
<1>5. PICK a, b, c : a = up[j] /\ b = down[j] /\ c = col[j]
  OBVIOUS
<1>6. a \in 1 .. last /\ b \in 1 .. last /\ c \in 2 .. F
  BY <1>1, <1>4, <1>5
<1>7. /\ \E x, y \in 1 .. last : up' = [up EXCEPT ![b] = x] /\ down' = [down EXCEPT ![a] = y]
      /\ size' = [size EXCEPT ![c] = size'[c]] /\ j' \in {right[j], left[j]}
  <2>1. size \in [Nodes -> Nat] /\ c \in Nodes
    <3>1. c \in 1 .. last
      BY <1>1, <1>6
    <3> QED  BY <3>1, Arrays
  <2>2. CASE Unlink
    <3>1. size' = [size EXCEPT ![c] = @ - 1]
      BY <2>2, <1>5 DEF Unlink
    <3> QED  BY <3>1, <2>1, <2>2, <1>5, <1>6 DEF Unlink
  <2>3. CASE Relink
    <3>1. size' = [size EXCEPT ![c] = @ + 1]
      BY <2>3, <1>5 DEF Relink
    <3> QED  BY <3>1, <2>1, <2>3, <1>4, <1>5 DEF Relink
  <2> QED  BY <2>2, <2>3
<1>8. size'[c] \in Nat
  <2>1. size'[c] = Cardinality(OpenIn(F, gone2, c)')
    BY <1>6 DEF Solving, Lists
  <2>2. IsFiniteSet(OpenIn(F, gone2, c)')
    <3>1. IsFiniteSet(F + 1 .. last')
      BY <1>1, <1>3, FS_Interval
    <3>2. OpenIn(F, gone2, c)' \subseteq F + 1 .. last'
      BY DEF OpenIn
    <3> QED  BY <3>1, <3>2, FS_Subset
  <2> QED  BY <2>1, <2>2, FS_CardinalityType
<1>9. /\ up \in [Nodes -> 0 .. last] /\ down \in [Nodes -> 0 .. last] /\ size \in [Nodes -> Nat]
      /\ 1 .. last \subseteq Nodes
  BY Arrays
<1>10. /\ up' \in [Nodes -> 0 .. last] /\ down' \in [Nodes -> 0 .. last] /\ size' \in [Nodes -> Nat]
       /\ \A n \in 1 .. last : up'[n] \in 1 .. last /\ down'[n] \in 1 .. last
  <2>1. PICK x, y \in 1 .. last : up' = [up EXCEPT ![b] = x] /\ down' = [down EXCEPT ![a] = y]
    BY <1>7
  <2>2. x \in 0 .. last /\ y \in 0 .. last
    BY <1>1
  <2>3. PICK s : s = size'[c]
    OBVIOUS
  <2>4. size' = [size EXCEPT ![c] = s] /\ s \in Nat
    BY <2>3, <1>7, <1>8
  <2>5. size' \in [Nodes -> Nat]
    BY <2>4, <1>9
  <2> QED  BY <2>1, <2>2, <2>5, <1>1, <1>9
<1>11. MemoryOK'
  BY <1>1, <1>3, <1>10 DEF MemoryOK
<1>12. RestOK'
  <2>1. j' \in Nat
    BY <1>1, <1>4, <1>7
  <2> QED  BY <2>1, <1>1, <1>2, <1>3 DEF RestOK
<1> QED  BY <1>2, <1>11, <1>12, TypesNext

-------------------------------------------------------------------------------
(* The options on the stack.                                               *)

\* The nodes of an option are in the columns of their names.
LEMMA NodeColumn ==
  ASSUME NEW F, NEW N, NEW O, Built(F, N, O), TypeOK, last = F + 4 * N, NEW n \in F + 1 .. last
  PROVE  col[n] = columns[name[n]]
<1>1. /\ F \in Nat /\ N \in Nat /\ \A g \in 1 .. N : Option(F, g, 4, O[g][1], O[g][2])
  BY Arrays DEF Built, Meant, Named
<1>2. PICK g \in 1 .. N, q \in 0 .. 3 : n = Node(F, g, q)
  <2>1. BehindColumns(F, N, n)
    BY <1>1 DEF BehindColumns
  <2>2. NodeOfOption(F, N, n)
    BY <2>1, NodeOf
  <2> QED  BY <2>2 DEF NodeOfOption
<1>3. PICK c, v : c = O[g][1] /\ v = O[g][2]
  OBVIOUS
<1>4. Option(F, g, 4, c, v)
  BY <1>1, <1>3
<1>5. q < 4
  OBVIOUS
<1>6. name[Node(F, g, q)] = Meets(c, v)[q] /\ col[Node(F, g, q)] = columns[Meets(c, v)[q]]
  BY <1>4, <1>5 DEF Option
<1> QED  BY <1>2, <1>6

\* Call d is one that has put its option on the stack.
Placed(Q, d) == d \in 1 .. Len(rows) /\ (d < Len(cols) \/ (Q = 3 /\ ~AtHeader /\ d = Len(cols)))

\* Each of its columns was covered by the call that has put an option on the stack.
LEMMA OptionSlots ==
  ASSUME NEW F, NEW cov, NEW gone, NEW Q, Solving(F, cov, gone, Q), TypeOK,
         NEW d, Placed(Q, d),
         NEW m \in OptionOf(rows[d])
  PROVE  /\ \E q \in 0 .. 3 : SlotCol(d, q) = col[m] /\ cov[col[m]] = At(d, q)
         /\ m \in F + 1 .. last /\ rows[d] \in F + 1 .. last
<1>1. /\ InFrames(F, cov) /\ Slots(F, cov, Q) /\ Shape(F) /\ last \in Nat /\ Len(cols) \in Nat
      /\ Len(rows) \in Nat
  BY LoopNodes, LinkTypes DEF Solving, Levels
<1>2. /\ d \in Nat /\ d \in 1 .. Len(cols) /\ (d = Len(cols) => ~AtHeader /\ Q = 3)
      /\ d \in 1 .. Len(rows)
  BY <1>1 DEF Placed
<1>3. rows[d] \in F + 1 .. last /\ col[rows[d]] = cols[d]
  BY <1>1, <1>2 DEF InFrames
<1>4. PICK r : r = rows[d]
  OBVIOUS
<1>5. m = r \/ m = right[r] \/ m = right[right[r]] \/ m = right[right[right[r]]]
  BY <1>4 DEF OptionOf
<1>6. \E q \in 0 .. 3 : SlotCol(d, q) = col[m]
  <2>1. /\ SlotCol(d, 0) = cols[d] /\ SlotCol(d, 1) = col[right[r]]
        /\ SlotCol(d, 2) = col[right[right[r]]] /\ SlotCol(d, 3) = col[right[right[right[r]]]]
    BY <1>4 DEF SlotCol, RightBy
  <2>2. CASE m = r
    BY <2>1, <2>2, <1>3, <1>4
  <2>3. CASE m # r
    <3>1. 1 \in 0 .. 3 /\ 2 \in 0 .. 3 /\ 3 \in 0 .. 3
      OBVIOUS
    <3> QED  BY <2>1, <2>3, <1>5, <3>1
  <2> QED  BY <2>2, <2>3
<1>7. PICK q \in 0 .. 3 : SlotCol(d, q) = col[m]
  BY <1>6
<1>8. Slot(Q, d, q) /\ q \in Nat
  BY <1>1, <1>2 DEF Slot
<1>9. cov[col[m]] = At(d, q)
  BY <1>1, <1>2, <1>7, <1>8 DEF Slots
<1>10. m \in F + 1 .. last
  BY <1>1, <1>3, OptionFacts
<1> QED  BY <1>3, <1>7, <1>9, <1>10

\* No constraint is met by two of them.
LEMMA MetOnce ==
  ASSUME NEW F, NEW N, NEW O, Built(F, N, O), last = F + 4 * N,
         NEW cov, NEW gone, NEW Q, Solving(F, cov, gone, Q), TypeOK,
         NEW d, Placed(Q, d), NEW e, Placed(Q, e), NEW x, x \in NamesAt(rows[d]), x \in NamesAt(rows[e])
  PROVE  d = e
<1>1. PICK m \in OptionOf(rows[d]) : x = name[m]
  BY DEF NamesAt
<1>2. PICK n \in OptionOf(rows[e]) : x = name[n]
  BY DEF NamesAt
<1>3. PICK q \in 0 .. 3 : cov[col[m]] = At(d, q) /\ m \in F + 1 .. last
  BY OptionSlots
<1>4. PICK p \in 0 .. 3 : cov[col[n]] = At(e, p) /\ n \in F + 1 .. last
  BY OptionSlots
<1>5. col[m] = col[n]
  BY <1>1, <1>2, <1>3, <1>4, NodeColumn
<1>6. At(d, q) = At(e, p) /\ d \in Nat /\ e \in Nat
  BY <1>3, <1>4, <1>5, LoopNodes DEF Placed
<1> QED  BY <1>6 DEF At

\* What Solved reads from the stack.
LEMMA SolvedBoard ==
  ASSUME NEW F, NEW N, NEW O, Built(F, N, O), last = F + 4 * N,
         NEW cov, NEW gone, NEW Q, Solving(F, cov, gone, Q), TypeOK, Solved
  PROVE  /\ \A d \in 1 .. Len(rows) :
               /\ \E g \in 1 .. N : /\ OptionAt(rows[d], O[g][1], O[g][2])
                                    /\ Fits(puzzle, O[g][1], O[g][2])
               /\ board'[CellAt(rows[d])] = ValAt(rows[d])
         /\ \A c \in Cells : (\A d \in 1 .. Len(rows) : CellAt(rows[d]) # c) => board'[c] = board[c]
         /\ board' \in [Cells -> Int]
<1>1. /\ pc = "solve" /\ stack = rows /\ Q = 3 /\ ~AtHeader /\ Len(rows) = Len(cols)
      /\ Len(rows) \in Nat /\ board \in [Cells -> Int]
  <2>1. pc = "solve"
    BY DEF Solved
  <2>2. stack = rows /\ board \in [Cells -> Int] /\ Len(rows) \in Nat
    BY <2>1, LinkTypes, LoopNodes DEF RestOK
  <2>3. Q = 3 /\ Len(rows) = Len(cols) /\ ~AtHeader
    BY <2>1 DEF Solving, Levels, Position, Depth, AtHeader
  <2> QED  BY <2>1, <2>2, <2>3
<1>2. /\ DOMAIN stack = 1 .. Len(rows)
      /\ \A d \in 1 .. Len(rows) : d = Len(cols) \/ d < Len(cols)
  <2>1. rows \in Seq(1 .. last)
    BY LoopNodes
  <2> QED  BY <2>1, <1>1
<1>3. ASSUME NEW d \in 1 .. Len(rows)
      PROVE  /\ \E g \in 1 .. N : /\ OptionAt(rows[d], O[g][1], O[g][2])
                                  /\ Fits(puzzle, O[g][1], O[g][2])
             /\ CellAt(rows[d]) \in Cells /\ CellAt(rows[d]) \in NamesAt(rows[d])
             /\ ValAt(rows[d]) \in Vals
  <2>1. rows[d] \in F + 1 .. last
    <3>1. InFrames(F, cov)
      BY DEF Solving, Levels
    <3> QED  BY <3>1, <1>1, <1>2 DEF InFrames
  <2>2. PICK g \in 1 .. N : /\ OptionAt(rows[d], O[g][1], O[g][2])
                            /\ Fits(puzzle, O[g][1], O[g][2])
    BY <2>1, <1>1, OptionNames
  <2>3. CellAt(rows[d]) \in Cells /\ ValAt(rows[d]) \in Vals
    BY <2>2 DEF OptionAt
  <2>4. CellAt(rows[d]) \in NamesAt(rows[d])
    <3>1. PICK c, v : c = O[g][1] /\ v = O[g][2]
      OBVIOUS
    <3>2. c \in Cells /\ v \in Vals /\ NamesAt(rows[d]) = Range(Meets(c, v)) /\ CellAt(rows[d]) = c
      BY <2>2, <3>1 DEF OptionAt
    <3>3. Meets(c, v)[0] = c /\ 0 \in DOMAIN Meets(c, v)
      BY <3>2 DEF Meets
    <3> QED  BY <3>2, <3>3 DEF Range
  <2> QED  BY <2>2, <2>3, <2>4
<1>4. ASSUME NEW d \in 1 .. Len(rows), NEW e \in 1 .. Len(rows), CellAt(rows[d]) = CellAt(rows[e])
      PROVE  d = e
  <2>1. PICK x : x = CellAt(rows[d])
    OBVIOUS
  <2>2. x \in NamesAt(rows[d]) /\ x \in NamesAt(rows[e])
    BY <2>1, <1>3, <1>4
  <2>3. Placed(Q, d) /\ Placed(Q, e)
    BY <1>1, <1>2 DEF Placed
  <2> QED  BY <2>2, <2>3, MetOnce
<1> DEFINE at(c) == {d \in 1 .. Len(rows) : CellAt(rows[d]) = c}
<1>5. /\ board' = [c \in Cells |-> board'[c]]
      /\ \A c \in Cells : at(c) = {} => board'[c] = board[c]
      /\ \A c \in Cells : \A d \in at(c) : at(c) = {d} => board'[c] = ValAt(rows[d])
  <2> DEFINE on(c) == {d \in DOMAIN stack : CellAt(stack[d]) = c}
  <2>1. board' = [c \in Cells |->
             IF on(c) = {} THEN board[c]
             ELSE ValAt(stack[CHOOSE d \in on(c) : \A e \in on(c) : e <= d])]
    BY DEF Solved
  <2>2. \A c : on(c) = at(c)
    BY <1>1, <1>2
  <2> HIDE DEF on, at
  <2>3. ASSUME NEW c \in Cells, at(c) = {} PROVE board'[c] = board[c]
    BY <2>1, <2>2, <2>3
  <2>4. ASSUME NEW c \in Cells, NEW d \in at(c), at(c) = {d} PROVE board'[c] = ValAt(rows[d])
    <3>1. on(c) = {d}
      BY <2>2, <2>4
    <3>2. d \in 1 .. Len(rows)
      BY <2>4 DEF at
    <3>3. (CHOOSE b \in {d} : \A e \in {d} : e <= b) = d
      BY <3>2
    <3>4. board'[c] = IF on(c) = {} THEN board[c]
                      ELSE ValAt(stack[CHOOSE b \in on(c) : \A e \in on(c) : e <= b])
      BY <2>1
    <3>5. board'[c] = IF {d} = {} THEN board[c]
                      ELSE ValAt(stack[CHOOSE b \in {d} : \A e \in {d} : e <= b])
      BY <3>1, <3>4
    <3> QED  BY <3>3, <3>5, <1>1
  <2>5. board' = [c \in Cells |-> board'[c]]
    BY <2>1
  <2> QED  BY <2>3, <2>4, <2>5
<1>6. \A c \in Cells : \A d \in at(c) : board'[c] = ValAt(rows[d])
  <2> SUFFICES ASSUME NEW c \in Cells, NEW d \in at(c) PROVE board'[c] = ValAt(rows[d])
    OBVIOUS
  <2>1. at(c) = {d}
    BY <1>4
  <2> QED  BY <2>1, <1>5
<1>7. \A d \in 1 .. Len(rows) : board'[CellAt(rows[d])] = ValAt(rows[d])
  <2> SUFFICES ASSUME NEW d \in 1 .. Len(rows) PROVE board'[CellAt(rows[d])] = ValAt(rows[d])
    OBVIOUS
  <2>1. PICK c : c = CellAt(rows[d])
    OBVIOUS
  <2>2. c \in Cells /\ d \in at(c)
    BY <2>1, <1>3
  <2> QED  BY <2>1, <2>2, <1>6
<1>8. \A c \in Cells : (\A d \in 1 .. Len(rows) : CellAt(rows[d]) # c) => board'[c] = board[c]
  BY <1>5
<1>9. board' \in [Cells -> Int]
  <2>1. ASSUME NEW c \in Cells PROVE board'[c] \in Int
    <3>1. CASE \A d \in 1 .. Len(rows) : CellAt(rows[d]) # c
      BY <3>1, <1>1, <1>8
    <3>2. CASE \E d \in 1 .. Len(rows) : CellAt(rows[d]) = c
      <4>1. PICK d \in 1 .. Len(rows) : CellAt(rows[d]) = c
        BY <3>2
      <4>2. board'[c] \in Vals
        BY <4>1, <1>3, <1>7
      <4> QED  BY <4>2, SmallNumbers
    <3> QED  BY <3>1, <3>2
  <2>2. board' = [c \in Cells |-> board'[c]]
    BY <1>5
  <2> QED  BY <2>1, <2>2
<1> QED  BY <1>3, <1>7, <1>8, <1>9

\* What is read from the options on the stack are cells and values.
LEMMA SolvedTypes ==
  ASSUME NEW F, NEW N, NEW O, Built(F, N, O), last = F + 4 * N,
         NEW cov, NEW gone, NEW Q, Solving(F, cov, gone, Q), TypeOK, Solved
  PROVE  TypeOK' /\ pc' = "done" /\ UNCHANGED <<puzzle, nodes>>
<1>1. /\ pc = "solve" /\ pc' = "done" /\ result' = "solved"
      /\ UNCHANGED <<puzzle, nodes, frames, i, j, k>>
  BY DEF Solved
<1>2. UNCHANGED <<left, right, up, down, size, col, name, last, columns, cols, rows, stack>>
  BY <1>1 DEF nodes, header, lists, names, frames
<1>3. board' \in [Cells -> Int]
  BY SolvedBoard
<1>4. MemoryOK /\ RestOK
  BY LinkTypes
<1>5. MemoryOK'
  BY <1>2, <1>4 DEF MemoryOK
<1>6. RestOK'
  BY <1>1, <1>2, <1>3, <1>4 DEF RestOK
<1> QED  BY <1>1, <1>5, <1>6, TypesNext

\* The steps of solve.
LEMMA SolveStep ==
  ASSUME NEW F, NEW cov, NEW gone, NEW Q, Solving(F, cov, gone, Q), TypeOK, Next, ~Building
  PROVE  \/ /\ Solved \/ StartMin \/ CompareMin \/ TakeMin \/ TryRow \/ Descend
               \/ Backtrack \/ Advance \/ NoMoreRows \/ NextToCover \/ Covered
               \/ Uncover \/ NextToRelink
            /\ UNCHANGED <<puzzle, nodes>> /\ \E P : Solving(F, cov, gone, P)'
         \/ /\ Cover \/ Uncovered
            /\ \E c, P : Solving(F, c, gone, P)'
         \/ /\ Unlink \/ Relink
            /\ \E g : Solving(F, cov, g, Q)'
<1>1. CASE Solved \/ StartMin \/ CompareMin
  <2>1. Solving(F, cov, gone, Q)'
    BY <1>1, SolvedKeeps, StartMinKeeps, CompareMinKeeps
  <2>2. UNCHANGED <<puzzle, nodes>>
    BY <1>1 DEF Solved, StartMin, CompareMin
  <2> QED  BY <2>1, <2>2, <1>1
<1>2. CASE TakeMin
  <2>1. Solving(F, cov, gone, -1)'
    BY <1>2, TakeMinKeeps
  <2>2. UNCHANGED <<puzzle, nodes>>
    BY <1>2 DEF TakeMin
  <2> QED  BY <2>1, <2>2, <1>2
<1>3. CASE TryRow \/ Descend \/ Backtrack \/ Advance \/ NoMoreRows
  <2>1. Solving(F, cov, gone, Q)'
    BY <1>3, TryRowKeeps, DescendKeeps, BacktrackKeeps, AdvanceKeeps, NoMoreRowsKeeps
  <2>2. UNCHANGED <<puzzle, nodes>>
    BY <1>3 DEF TryRow, Descend, Backtrack, Advance, NoMoreRows
  <2> QED  BY <2>1, <2>2, <1>3
<1>4. CASE NextToCover \/ Covered \/ Uncover \/ NextToRelink
  <2>1. Solving(F, cov, gone, Q)'
    BY <1>4, NextToCoverKeeps, CoveredKeeps, UncoverKeeps, NextToRelinkKeeps
  <2>2. UNCHANGED <<puzzle, nodes>>
    BY <1>4 DEF NextToCover, Covered, Uncover, NextToRelink
  <2> QED  BY <2>1, <2>2, <1>4
<1>5. CASE Cover
  <2>1. PICK c, D, P : c = Argument /\ D = Len(cols) /\ P = Q + 1
    OBVIOUS
  <2>2. PICK cov2 : cov2 = [cov EXCEPT ![c] = At(D, P)]
    OBVIOUS
  <2>3. Solving(F, cov2, gone, P)'
    BY <1>5, <2>1, <2>2, CoverKeeps
  <2> QED  BY <2>3, <1>5
<1>6. CASE Uncovered
  <2>1. PICK c, D, P : c = Argument /\ D = Len(cols) /\ P = IF k = 0 THEN 3 ELSE Q - 1
    OBVIOUS
  <2>2. PICK cov2 : cov2 = [cov EXCEPT ![c] = 0]
    OBVIOUS
  <2>3. Solving(F, cov2, gone, P)'
    BY <1>6, <2>1, <2>2, UncoveredKeeps
  <2> QED  BY <2>3, <1>6
<1>7. CASE Unlink
  <2>1. PICK e : e = j
    OBVIOUS
  <2>2. PICK gone2 : gone2 = [gone EXCEPT ![e] = At(Len(cols), Q)]
    OBVIOUS
  <2>3. Solving(F, cov, gone2, Q)'
    BY <1>7, <2>1, <2>2, UnlinkStepKeeps
  <2> QED  BY <2>3, <1>7
<1>8. CASE Relink
  <2>1. PICK e : e = j
    OBVIOUS
  <2>2. PICK gone2 : gone2 = [gone EXCEPT ![e] = 0]
    OBVIOUS
  <2>3. Solving(F, cov, gone2, Q)'
    BY <1>8, <2>1, <2>2, RelinkStepKeeps
  <2> QED  BY <2>3, <1>8
<1>9. ~Start /\ ~AppendCell /\ ~AppendConstraint /\ ~AppendNode
  BY DEF Start, AppendCell, AppendConstraint, AppendNode, Building
<1> QED  BY <1>1, <1>2, <1>3, <1>4, <1>5, <1>6, <1>7, <1>8, <1>9 DEF Next

\* What a step of solve leaves as it is.
LEMMA SolveChanges ==
  ASSUME NEW F, NEW N, NEW O, Built(F, N, O), NEW cov, NEW gone, NEW Q, Solving(F, cov, gone, Q),
         TypeOK, Next, ~Building
  PROVE  /\ TypeOK' /\ ~Building' /\ (\E c, g, P : Solving(F, c, g, P)')
         /\ UNCHANGED <<puzzle, names>>
         /\ \A n \in F + 1 .. last : right'[n] = right[n] /\ left'[n] = left[n]
<1>1. CASE /\ Solved \/ StartMin \/ CompareMin \/ TakeMin \/ TryRow \/ Descend
              \/ Backtrack \/ Advance \/ NoMoreRows \/ NextToCover \/ Covered
              \/ Uncover \/ NextToRelink
           /\ UNCHANGED <<puzzle, nodes>> /\ \E P : Solving(F, cov, gone, P)'
  <2>1. UNCHANGED <<puzzle, names, left, right>>
    BY <1>1 DEF nodes, header
  <2>2. TypeOK' /\ ~Building'
    <3>1. CASE Solved
      <4>1. last = F + 4 * N
        BY DEF Built, Half, Building
      <4>2. TypeOK' /\ pc' = "done"
        BY <3>1, <4>1, SolvedTypes
      <4> QED  BY <4>2 DEF Building
    <3>2. CASE StartMin \/ CompareMin \/ TakeMin
      <4>1. TypeOK' /\ pc' \in {"min", "cover"}
        BY <3>2, MinTypes
      <4> QED  BY <4>1 DEF Building
    <3>3. CASE TryRow \/ Descend \/ Backtrack \/ Advance \/ NoMoreRows
      <4>1. TypeOK' /\ pc' \in {"cover", "solve", "row", "uncover"}
        BY <3>3, RowTypes
      <4> QED  BY <4>1 DEF Building
    <3>4. CASE NextToCover \/ Covered \/ Uncover \/ NextToRelink
      <4>1. TypeOK' /\ pc' \in {"coverRows", "row", "cover", "uncoverRows"}
        BY <3>4, LoopTypes
      <4> QED  BY <4>1 DEF Building
    <3> QED  BY <1>1, <3>1, <3>2, <3>3, <3>4
  <2> QED  BY <1>1, <2>1, <2>2
<1>2. CASE (Cover \/ Uncovered) /\ \E c, P : Solving(F, c, gone, P)'
  <2>1. /\ TypeOK' /\ pc' \in {"coverRows", "done", "failed", "uncover"}
        /\ UNCHANGED <<puzzle, names>>
        /\ \A n \in F + 1 .. last : right'[n] = right[n] /\ left'[n] = left[n]
    BY <1>2, HeaderTypes
  <2> QED  BY <1>2, <2>1 DEF Building
<1>3. CASE (Unlink \/ Relink) /\ \E g : Solving(F, cov, g, Q)'
  <2>1. PICK g : Solving(F, cov, g, Q)'
    BY <1>3
  <2>2. TypeOK' /\ pc' = pc /\ UNCHANGED <<puzzle, header, names>>
    BY <1>3, <2>1, ListTypes
  <2> QED  BY <2>1, <2>2 DEF Building, header
<1> QED  BY <1>1, <1>2, <1>3, SolveStep

\* Every step of solve keeps the invariant.
LEMMA SolveKeeps ==
  ASSUME IInv, ~Building, Next PROVE IInv'
<1>1. pc # "done"
  BY DEF Building, Next, Start, AppendCell, AppendConstraint, AppendNode, Solved, StartMin,
         CompareMin, TakeMin, TryRow, Descend, Backtrack, Advance, NoMoreRows, Cover, Unlink,
         NextToCover, Covered, Uncover, Relink, NextToRelink, Uncovered
<1>2. TypeOK /\ \E F, N, O : Built(F, N, O) /\ \E cov, gone, Q : Solving(F, cov, gone, Q)
  BY <1>1 DEF IInv, Rejected
<1>3. PICK F, N, O : Built(F, N, O) /\ \E cov, gone, Q : Solving(F, cov, gone, Q)
  BY <1>2
<1>4. PICK cov, gone, Q : Solving(F, cov, gone, Q)
  BY <1>3
<1>5. TypeOK' /\ ~Building' /\ (\E c, g, P : Solving(F, c, g, P)')
      /\ UNCHANGED <<puzzle, names>>
      /\ \A n \in F + 1 .. last : right'[n] = right[n] /\ left'[n] = left[n]
  BY <1>1, <1>2, <1>3, <1>4, SolveChanges
<1>6. Built(F, N, O)'
  BY <1>2, <1>3, <1>5, BuiltKept
<1> QED  BY <1>5, <1>6 DEF IInv

\* And so does a step that changes nothing.
LEMMA StutterKeeps ==
  ASSUME IInv, UNCHANGED vars PROVE IInv'
<1>1. UNCHANGED <<puzzle, left, right, up, down, col, name, size, last, columns, cols, rows, stack,
                  board, i, j, k, pc, result>>
  BY DEF vars, nodes, header, lists, names, frames, answer
<1>2. TypeOK'
  <2>1. MemoryOK /\ RestOK
    BY LinkTypes DEF IInv
  <2>2. MemoryOK'
    BY <1>1, <2>1 DEF MemoryOK
  <2>3. RestOK'
    BY <1>1, <2>1 DEF RestOK
  <2> QED  BY <2>2, <2>3, TypesNext
<1>3. Rejected => Rejected'
  BY <1>1 DEF Rejected, Digits
<1>4. ASSUME NEW F, NEW N, NEW O, Built(F, N, O) PROVE Built(F, N, O)'
  <2>1. \A g, m : Ring(F, g, m)' <=> Ring(F, g, m)
    BY <1>1 DEF Ring
  <2>2. \A g, m, c, v : Option(F, g, m, c, v)' <=> Option(F, g, m, c, v)
    BY <1>1 DEF Option
  <2>3. Named(F)' /\ Meant(F, N, O)'
    BY <1>1, <1>4, <2>1, <2>2 DEF Built, Named, Meant
  <2>4. Half(F, N)'
    BY <1>1, <1>4, <2>1, <2>2 DEF Built, Half, Building
  <2>5. Complete(N, O)'
    <3>1. \A x : PastColumn(x)' <=> PastColumn(x)
      BY <1>1 DEF PastColumn
    <3>2. \A c, v : PastOption(c, v)' <=> PastOption(c, v)
      BY <1>1 DEF PastOption
    <3> QED  BY <3>1, <3>2, <1>1, <1>4 DEF Built, Complete
  <2> QED  BY <2>3, <2>4, <2>5, <1>1, <1>4 DEF Built, Digits
<1>5. ASSUME NEW F, Fresh(F), Bounds PROVE Fresh(F)' /\ Bounds'
  <2>1. \A c : OpenIn(F, None, c)' = OpenIn(F, None, c)
    BY <1>1 DEF OpenIn
  <2>2. Fresh(F)'
    BY <1>1, <1>5, <2>1 DEF Fresh
  <2>3. Bounds'
    BY <1>1, <1>5 DEF Bounds
  <2> QED  BY <2>2, <2>3
<1>6. ASSUME NEW F, NEW cov, NEW gone, NEW Q, Solving(F, cov, gone, Q)
      PROVE  Solving(F, cov, gone, Q)'
  <2>1. \A n : OptionOf(n)' = OptionOf(n)
    BY <1>1 DEF OptionOf
  <2>2. Shape(F)'
    BY <1>1, <1>6, <2>1 DEF Solving, Shape
  <2>3. Argument' = Argument /\ (Sweeping' <=> Sweeping) /\ (AtHeader' <=> AtHeader)
    BY <1>1 DEF Argument, Sweeping, AtHeader
  <2>4. \A x : First(cov, x)' <=> First(cov, x)
    BY <1>1, <2>1 DEF First
  <2>5. Gone(F, cov, gone)'
    <3>1. \A x, n : Swept(x, n)' <=> Swept(x, n)
      BY <1>1, <2>3 DEF Swept
    <3> QED  BY <1>1, <1>6, <2>1, <2>3, <2>4, <3>1 DEF Solving, Gone
  <2>6. Lists(F, cov, gone)'
    <3>1. \A c : OpenIn(F, gone, c)' = OpenIn(F, gone, c)
      BY <1>1 DEF OpenIn
    <3> QED  BY <1>1, <1>6, <3>1 DEF Solving, Lists
  <2>7. Levels(F, cov, Q)'
    <3>1. \A r, q : RightBy(r, q)' = RightBy(r, q)
      BY <1>1 DEF RightBy
    <3>2. Position(Q)' /\ Depth'
      BY <1>1, <1>6, <3>1 DEF Solving, Levels, Position, Depth
    <3>3. InFrames(F, cov)'
      BY <1>1, <1>6, <2>3, <2>4 DEF Solving, Levels, InFrames
    <3>4. Slots(F, cov, Q)'
      BY <1>1, <1>6, SlotsKept DEF Solving, Levels
    <3> QED  BY <3>2, <3>3, <3>4, <1>6 DEF Solving, Levels
  <2>8. Scanning(F, cov, gone)'
    BY <1>1, <1>6, <2>1, <2>3 DEF Solving, Scanning
  <2> QED  BY <2>2, <2>5, <2>6, <2>7, <2>8 DEF Solving
<1>7. Building' <=> Building
  BY <1>1 DEF Building
<1>8. CASE Rejected
  BY <1>2, <1>3, <1>8 DEF IInv
<1>9. CASE ~Rejected
  <2>1. PICK F, N, O : Built(F, N, O) /\ IF Building THEN Fresh(F) /\ Bounds
                                         ELSE \E cov, gone, Q : Solving(F, cov, gone, Q)
    BY <1>9 DEF IInv
  <2>2. CASE Building
    BY <2>1, <2>2, <1>2, <1>4, <1>5, <1>7 DEF IInv
  <2>3. CASE ~Building
    BY <2>1, <2>3, <1>2, <1>4, <1>6, <1>7 DEF IInv
  <2> QED  BY <2>2, <2>3
<1> QED  BY <1>8, <1>9

\* A step keeps the invariant,
LEMMA StepKeeps == IInv /\ [Next]_vars => IInv'
BY BuildKeeps, SolveKeeps, StutterKeeps

\* so that it holds in every state that solveSuduku can reach.
LEMMA Reached == Spec => []IInv
BY InitKeeps, StepKeeps, PTL DEF Spec

\* Every variable of the solver keeps its type, for every board of up to nine by nine, and
\* stack_ holds the option of each call of solve under way (suduku.cpp:89-127).
THEOREM TypeCorrect == Spec => []TypeOK
<1>1. IInv => TypeOK
  BY DEF IInv
<1> QED  BY <1>1, Reached, PTL

\* The assertions of the constructor hold for every board: a constraint is met once on its way,
\* an option only meets constraints that have their column, and nodes_ is large enough
\* (suduku.cpp:140,154,163,164).
THEOREM NoAssertionFails == Spec => []AssertionsHold
<1>1. ASSUME IInv PROVE AssertionsHold
  <2>1. CASE Building
    <3>1. PICK F, N, O : Built(F, N, O) /\ Fresh(F) /\ Bounds
      BY <1>1, <2>1 DEF IInv, Rejected, Building
    <3>2. TypeOK
      BY <1>1 DEF IInv
    <3>3. ASSUME pc = "cells", i \in Cells, puzzle[i] = 0 PROVE columns[i] = 0 /\ last < MaxNodes
      BY <3>1, <3>2, <3>3, NoColumnYet, Room
    <3>4. ASSUME pc = "constraints", i \in Units
          PROVE  columns[NameOf(k, i, j)] = 0 /\ last < MaxNodes
      BY <3>1, <3>2, <3>4, NoColumnYet, Room
    <3>5. ASSUME pc = "options", i \in Cells, Fits(puzzle, i, j)
          PROVE  columns[Meets(i, j)[k]] # 0 /\ last < MaxNodes
      <4>1. k \in 0 .. 3 /\ j \in Vals /\ Complete(N, O)
        BY <3>1, <3>5 DEF Built, Half, Bounds
      <4>2. columns[Meets(i, j)[k]] # 0
        BY <4>1, <3>5, OptionColumns
      <4> QED  BY <4>2, <3>1, <3>2, <3>5, Room
    <3> QED  BY <3>3, <3>4, <3>5 DEF AssertionsHold
  <2>2. CASE ~Building
    BY <2>2 DEF AssertionsHold, Building
  <2> QED  BY <2>1, <2>2
<1> QED  BY <1>1, Reached, PTL

-------------------------------------------------------------------------------
(* ListsMatch: what the links are where no column is being covered.        *)

\* The members of a list that are linked.
Linked(M, of, T, c) == {x \in M : of[x] = c /\ T[x] = 0}

\* What is linked in a list that dances is in order.
LEMMA OrderOf ==
  ASSUME NEW M, M \subseteq Nat, NEW of, NEW T, NEW next, NEW prev, Dancing(M, of, T, next, prev),
         NEW c, NEW S, S = Linked(M, of, T, c)
  PROVE  LinksInOrder(S, next, prev)
<1>1. \A n \in S : n \in M /\ n \in Nat /\ Seen(M, of, T, n) = S
  BY DEF Seen, Linked
<1> SUFFICES ASSUME NEW n \in S
             PROVE  /\ next[n] \in S /\ prev[next[n]] = n
                    /\ \A m \in S : IF n < next[n] THEN m <= n \/ next[n] <= m
                                    ELSE next[n] <= m /\ m <= n
  BY DEF LinksInOrder
<1>2. Follows(S, n, next[n])
  BY <1>1 DEF Dancing
<1>3. next[n] \in S
  BY <1>2 DEF Follows
<1>4. prev[next[n]] \in S /\ Follows(S, prev[next[n]], next[n])
  BY <1>1, <1>3 DEF Dancing
<1>5. prev[next[n]] = n
  <2>1. S \subseteq Nat
    BY <1>1
  <2> QED  BY <2>1, <1>2, <1>3, <1>4, FollowsOnce
<1> QED  BY <1>2, <1>3, <1>5 DEF Follows

\* The covered columns are those of the options on the stack, and a node is linked if its
\* option meets none of them.
Matched(F, cov, gone) ==
    /\ \A c : c \in CoveredColumns <=> c \in 1 .. F /\ cov[c] # 0
    /\ cov[1] = 0 /\ \A n \in 1 .. F : col[n] = n /\ gone[n] = 0
    /\ \A n \in F + 1 .. last :
          /\ col[n] \in 2 .. F /\ OptionOf(n) \subseteq F + 1 .. last /\ n \in OptionOf(n)
          /\ cov[col[n]] = 0 => (gone[n] = 0 <=> \A m \in OptionOf(n) : cov[col[m]] = 0)

\* If the nodes that are linked are those that should be, the lists are as they should be.
LEMMA MatchedLists ==
  ASSUME TypeOK, NEW F, F \in 1 .. last, NEW cov, NEW gone, Matched(F, cov, gone),
         Dancing(1 .. F, One, cov, right, left),
         Dancing(1 .. last, col, gone, down, up),
         \A c \in 2 .. F : size[c] = Cardinality(OpenIn(F, gone, c))
  PROVE  ListsMatch
<1> DEFINE uncovered == Columns \ CoveredColumns
           open == {n \in 2 .. last \ Columns : \A m \in OptionOf(n) : col[m] \in uncovered}
           openIn(c) == {n \in open : col[n] = c}
<1>1. last \in Nat /\ F \in Nat /\ 1 \in 1 .. F
  BY Arrays
<1>2. Columns = 2 .. F
  <2>1. \A n \in 2 .. last : n \in 2 .. F \/ n \in F + 1 .. last
    BY <1>1
  <2>2. \A n \in F + 1 .. last : col[n] # n
    BY <1>1 DEF Matched
  <2>3. \A n \in 2 .. F : n \in 2 .. last /\ col[n] = n
    BY <1>1 DEF Matched
  <2>4. \A n \in 2 .. F : n \notin F + 1 .. last
    BY <1>1
  <2> QED  BY <2>1, <2>2, <2>3, <2>4 DEF Columns
<1>3. \A c : c \in uncovered <=> c \in 2 .. F /\ cov[c] = 0
  <2>1. \A c \in 2 .. F : c \in 1 .. F
    BY <1>1
  <2> QED  BY <2>1, <1>2 DEF Matched
<1>4. \A n : n \in open <=> n \in F + 1 .. last /\ \A m \in OptionOf(n) : cov[col[m]] = 0
  <2>1. \A n : n \in 2 .. last \ Columns <=> n \in F + 1 .. last
    BY <1>1, <1>2
  <2>2. \A n \in F + 1 .. last : \A m \in OptionOf(n) : col[m] \in 2 .. F
    BY DEF Matched
  <2> QED  BY <2>1, <2>2, <1>3
<1>5. \A c : c \in uncovered => openIn(c) = OpenIn(F, gone, c)
  <2> HIDE DEF uncovered, open
  <2>1. ASSUME NEW c \in uncovered, NEW n \in F + 1 .. last, col[n] = c
        PROVE  n \in open <=> gone[n] = 0
    <3>1. cov[col[n]] = 0
      BY <2>1, <1>3
    <3>2. gone[n] = 0 <=> \A m \in OptionOf(n) : cov[col[m]] = 0
      BY <2>1, <3>1 DEF Matched
    <3> QED  BY <3>2, <1>4
  <2>2. \A n \in open : n \in F + 1 .. last
    BY <1>4
  <2> QED  BY <2>1, <2>2 DEF OpenIn
<1>6. LinksInOrder({1} \cup uncovered, right, left)
  <2>1. 1 .. F \subseteq Nat /\ \A c \in 1 .. F : One[c] = 1
    BY DEF One
  <2>2. {1} \cup uncovered = Linked(1 .. F, One, cov, 1)
    <3>1. \A c : c \in {1} \cup uncovered <=> c \in 1 .. F /\ cov[c] = 0
      <4>1. \A c : c \in 1 .. F <=> c = 1 \/ c \in 2 .. F
        BY <1>1
      <4>2. cov[1] = 0
        BY DEF Matched
      <4> QED  BY <4>1, <4>2, <1>3
    <3> HIDE DEF uncovered
    <3> QED  BY <3>1, <2>1 DEF Linked
  <2> HIDE DEF uncovered
  <2> QED  BY <2>1, <2>2, OrderOf
<1>7. ASSUME NEW c \in uncovered
      PROVE  LinksInOrder({c} \cup openIn(c), down, up) /\ size[c] = Cardinality(openIn(c))
  <2>1. openIn(c) = OpenIn(F, gone, c) /\ c \in 2 .. F
    BY <1>3, <1>5, <1>7
  <2>2. {c} \cup OpenIn(F, gone, c) = Linked(1 .. last, col, gone, c)
    <3>1. \A n : n \in 1 .. last <=> n \in 1 .. F \/ n \in F + 1 .. last
      BY <1>1
    <3>2. \A n \in 1 .. F : col[n] = n /\ gone[n] = 0
      BY DEF Matched
    <3>3. c \in 1 .. F
      BY <2>1, <1>1
    <3> QED  BY <3>1, <3>2, <3>3 DEF OpenIn, Linked
  <2>3. 1 .. last \subseteq Nat
    OBVIOUS
  <2>4. LinksInOrder({c} \cup OpenIn(F, gone, c), down, up)
    BY <2>2, <2>3, OrderOf
  <2> HIDE DEF openIn
  <2> QED  BY <2>1, <2>4
<1> QED  BY <1>6, <1>7 DEF ListsMatch

\* A node of the first m nodes of an option is in a column, and the next is one of them.
LEMMA RightOf ==
  ASSUME TypeOK, NEW F, NEW N, NEW O, Named(F), Complete(N, O), pc = "options",
         NEW g \in Nat \ {0}, NEW m \in 1 .. 4, NEW q \in 0 .. 3, q < m, NEW c \in Cells,
         NEW v \in Vals, Ring(F, g, m), Option(F, g, m, c, v), F + 4 * g - 4 + m <= last,
         NEW n, n = Node(F, g, q)
  PROVE  col[n] \in 2 .. F /\ right[n] \in F + 1 .. last
<1>1. F \in Nat /\ last \in Nat
  BY Arrays DEF Named
<1>2. col[n] = columns[Meets(c, v)[q]] /\ Fits(puzzle, c, v)
  BY DEF Option
<1>3. Meets(c, v)[q] \in Names /\ columns[Meets(c, v)[q]] # 0
  BY <1>2, OptionColumns
<1>4. col[n] \in 2 .. F
  BY <1>2, <1>3 DEF Named
<1>5. PICK p \in 0 .. 3 : p < m /\ right[n] = Node(F, g, p)
  <2>1. right[n] = Node(F, g, IF q = m - 1 THEN 0 ELSE q + 1)
    BY DEF Ring
  <2>2. (IF q = m - 1 THEN 0 ELSE q + 1) \in 0 .. 3 /\ (IF q = m - 1 THEN 0 ELSE q + 1) < m
    OBVIOUS
  <2> QED  BY <2>1, <2>2
<1>6. Node(F, g, p) \in F + 1 .. last
  BY <1>1, <1>5 DEF Node
<1> QED  BY <1>4, <1>5, <1>6

\* Nothing is covered while the constructor works.
LEMMA BuildingMatched ==
  ASSUME TypeOK, NEW F, NEW N, NEW O, Built(F, N, O), Fresh(F), Bounds, Building
  PROVE  Matched(F, None, None) /\ F \in 1 .. last
<1>1. /\ last \in Nat /\ F \in Nat /\ F \in 1 .. last /\ \A n \in 1 .. F : col[n] = n
      /\ N \in Nat /\ cols = <<>> /\ stack = <<>>
  BY Arrays DEF Built, Named, Fresh
<1>2. \A n \in Nat : None[n] = 0
  BY DEF None
<1>3. CoveredColumns = {}
  <2>1. ToSet(<<>>) = {}
    BY DEF ToSet
  <2> QED  BY <2>1, <1>1 DEF CoveredColumns
<1>4. ASSUME NEW n \in F + 1 .. last PROVE col[n] \in 2 .. F /\ right[n] \in F + 1 .. last
  <2>1. pc = "options" /\ k \in 0 .. 3 /\ last = F + 4 * N + k
    <3>1. pc # "options" => last = F + 4 * N /\ N = 0
      BY DEF Built, Half, Building
    <3>2. pc # "options" => last = F
      BY <3>1, <1>1
    <3>3. pc = "options"
      BY <3>2, <1>1
    <3> QED  BY <3>3 DEF Built, Half
  <2>2. Named(F) /\ Complete(N, O) /\ Meant(F, N, O)
    BY DEF Built
  <2>3. CASE n <= F + 4 * N
    <3>1. BehindColumns(F, N, n)
      BY <2>3, <1>1, <1>4 DEF BehindColumns
    <3>2. NodeOfOption(F, N, n)
      BY <3>1, NodeOf
    <3>3. PICK g \in 1 .. N, q \in 0 .. 3 : n = Node(F, g, q)
      BY <3>2 DEF NodeOfOption
    <3>4. PICK c, v : c = O[g][1] /\ v = O[g][2]
      OBVIOUS
    <3>5. Ring(F, g, 4) /\ Option(F, g, 4, c, v) /\ c \in Cells /\ v \in Vals
      <4>1. Ring(F, g, 4) /\ Option(F, g, 4, O[g][1], O[g][2]) /\ O[g] \in Cells \X Vals
        BY <2>2 DEF Meant
      <4> QED  BY <3>4, <4>1
    <3>6. F + 4 * g - 4 + 4 <= last /\ 4 \in 1 .. 4 /\ q < 4 /\ g \in Nat \ {0}
      BY <1>1, <2>1
    <3> QED  BY <3>3, <3>5, <3>6, <2>1, <2>2, RightOf
  <2>4. CASE n > F + 4 * N
    <3>1. PICK g, q : g = N + 1 /\ q = n - (F + 4 * N) - 1
      OBVIOUS
    <3>2. /\ k # 0 /\ k \in 1 .. 4 /\ q \in 0 .. 3 /\ q < k /\ n = Node(F, g, q) /\ g \in Nat \ {0}
          /\ F + 4 * g - 4 + k <= last
      BY <1>1, <1>4, <2>1, <2>4, <3>1 DEF Node
    <3>3. Ring(F, g, k) /\ Option(F, g, k, i, j)
      BY <2>1, <3>1, <3>2 DEF Built, Half
    <3>4. i \in Cells /\ j \in Vals
      <4>1. i \in 0 .. Side * Side /\ j \in Vals /\ i # Side * Side /\ Side * Side \in Nat
        BY <2>1, <3>2, SmallNumbers DEF Bounds
      <4> QED  BY <4>1 DEF Cells
    <3> QED  BY <3>2, <3>3, <3>4, <2>1, <2>2, RightOf
  <2> QED  BY <2>3, <2>4, <1>1, <1>4
<1>5. \A n \in F + 1 .. last : OptionOf(n) \subseteq F + 1 .. last /\ n \in OptionOf(n)
  BY <1>4 DEF OptionOf
<1>6. \A n \in 1 .. last : None[n] = 0 /\ col[n] \in Nat
  <2>1. \A n \in 1 .. last : n \in Nat
    OBVIOUS
  <2>2. \A n \in 1 .. last : n \in 1 .. F \/ n \in F + 1 .. last
    BY <1>1
  <2> QED  BY <2>1, <2>2, <1>1, <1>2, <1>4
<1>7. \A n \in 1 .. F : n \in 1 .. last
  BY <1>1
<1>8. \A n \in F + 1 .. last : n \in 1 .. last
  BY <1>1
<1>9. None[1] = 0 /\ 0 \notin 1 .. F
  BY <1>2
<1> QED  BY <1>1, <1>2, <1>3, <1>4, <1>5, <1>6, <1>7, <1>8, <1>9 DEF Matched

\* The options of the calls that have placed one are the stack.
LEMMA StackIs ==
  ASSUME NEW F, NEW cov, NEW gone, NEW Q, Solving(F, cov, gone, Q), TypeOK,
         pc \in {"solve", "min", "row", "failed", "done"}
  PROVE  /\ \A d : d \in 1 .. Len(stack) <=> Placed(Q, d)
         /\ \A d : Placed(Q, d) => stack[d] = rows[d]
         /\ DOMAIN stack = 1 .. Len(stack) /\ Len(rows) = Len(cols) /\ Q \in {0, 3}
         /\ pc # "row" => Q = 3 /\ stack = rows
         /\ pc = "row" => Q = 0 /\ stack = Front(rows)
<1>1. /\ rows \in Seq(1 .. last) /\ Len(rows) = Len(cols) /\ Len(rows) \in Nat
      /\ stack = IF pc = "row" THEN Front(rows) ELSE rows
      /\ pc = "row" => Q = 0 /\ Len(cols) > 0
      /\ pc # "row" => Q = 3 /\ ~AtHeader
  <2>1. Depth /\ Position(Q)
    BY DEF Solving, Levels
  <2>2. rows \in Seq(1 .. last) /\ stack = IF pc = "row" THEN Front(rows) ELSE rows
    BY LinkTypes DEF RestOK
  <2>3. pc = "row" => Q = 0 /\ Len(cols) > 0
    BY <2>1 DEF Depth, Position
  <2>4. pc # "row" => Q = 3 /\ ~AtHeader
    BY <2>1 DEF Position, AtHeader
  <2> QED  BY <2>1, <2>2, <2>3, <2>4 DEF Depth
<1>2. CASE pc = "row"
  <2>1. /\ stack \in Seq(1 .. last) /\ Len(stack) = Len(rows) - 1
        /\ \A d \in 1 .. Len(rows) - 1 : stack[d] = rows[d]
    BY <1>1, <1>2, Ends
  <2>2. \A d : Placed(Q, d) <=> d \in 1 .. Len(rows) - 1
    BY <1>1, <1>2 DEF Placed
  <2> QED  BY <2>1, <2>2, <1>1, <1>2
<1>3. CASE pc # "row"
  <2>1. \A d : Placed(Q, d) <=> d \in 1 .. Len(rows)
    BY <1>1, <1>3 DEF Placed
  <2> QED  BY <2>1, <1>1, <1>3
<1> QED  BY <1>2, <1>3

\* In the search they are, between the calls of cover and uncover.
LEMMA SolvingMatched ==
  ASSUME NEW F, NEW cov, NEW gone, NEW Q, Solving(F, cov, gone, Q), TypeOK,
         pc \in {"solve", "min", "row", "failed", "done"}
  PROVE  Matched(F, cov, gone)
<1>1. /\ \A d : d \in 1 .. Len(stack) <=> Placed(Q, d)
      /\ \A d : Placed(Q, d) => stack[d] = rows[d]
      /\ DOMAIN stack = 1 .. Len(stack) /\ Len(rows) = Len(cols) /\ Q \in {0, 3}
  BY StackIs
<1>2. /\ Shape(F) /\ Gone(F, cov, gone) /\ Slots(F, cov, Q) /\ InFrames(F, cov) /\ cov[1] = 0
      /\ last \in Nat /\ cols \in Seq(1 .. last) /\ Len(cols) \in Nat /\ ~Sweeping
      /\ F \in Nat /\ F \in 1 .. last /\ cov \in [1 .. F -> Nat]
  <2>1. /\ Shape(F) /\ Gone(F, cov, gone) /\ Slots(F, cov, Q) /\ InFrames(F, cov) /\ cov[1] = 0
        /\ ~Sweeping /\ cov \in [1 .. F -> Nat]
    BY DEF Solving, Levels, Lists, Sweeping
  <2> QED  BY <2>1, LoopNodes, LinkTypes
<1>3. \A c : c \in CoveredColumns <=>
         \/ \E d : Placed(Q, d) /\ \E m \in OptionOf(rows[d]) : c = col[m]
         \/ \E d \in 1 .. Len(cols) : c = cols[d]
  <2>1. \A x : x \in ToSet(cols) <=> \E d \in 1 .. Len(cols) : x = cols[d]
    BY <1>2 DEF ToSet
  <2>2. \A x : x \in ToSet(stack) <=> \E d : Placed(Q, d) /\ x = rows[d]
    BY <1>1 DEF ToSet
  <2>3. \A c : c \in CoveredColumns <=>
           \/ \E n \in ToSet(stack) : \E m \in OptionOf(n) : c = col[m]
           \/ c \in ToSet(cols)
    BY DEF CoveredColumns
  <2> QED  BY <2>1, <2>2, <2>3
<1>4. ASSUME NEW c, c \in CoveredColumns PROVE c \in 1 .. F /\ cov[c] # 0
  <2>1. CASE \E d : Placed(Q, d) /\ \E m \in OptionOf(rows[d]) : c = col[m]
    <3>1. PICK d : Placed(Q, d) /\ \E m \in OptionOf(rows[d]) : c = col[m]
      BY <2>1
    <3>2. PICK m \in OptionOf(rows[d]) : c = col[m]
      BY <3>1
    <3>3. PICK q \in 0 .. 3 : cov[col[m]] = At(d, q) /\ m \in F + 1 .. last
      BY <3>1, OptionSlots
    <3>4. c \in 2 .. F
      BY <3>2, <3>3, <1>2 DEF Shape
    <3>5. At(d, q) # 0
      BY <3>1, <3>3, <1>2 DEF At, Placed
    <3> QED  BY <3>2, <3>3, <3>4, <3>5, <1>2
  <2>2. CASE \E d \in 1 .. Len(cols) : c = cols[d]
    <3>1. PICK d \in 1 .. Len(cols) : c = cols[d]
      BY <2>2
    <3>2. Slot(Q, d, 0) /\ SlotCol(d, 0) = c /\ d \in Nat /\ c \in 2 .. F
      BY <3>1, <1>1, <1>2 DEF Slot, SlotCol, InFrames
    <3>3. cov[c] = At(d, 0)
      BY <3>2, <1>2 DEF Slots
    <3>4. At(d, 0) # 0
      BY <3>1 DEF At
    <3> QED  BY <3>2, <3>3, <3>4, <1>2
  <2> QED  BY <2>1, <2>2, <1>3, <1>4
<1>5. ASSUME NEW c \in 1 .. F, cov[c] # 0 PROVE c \in CoveredColumns
  <2>1. PICK d, q \in Nat : Slot(Q, d, q) /\ SlotCol(d, q) = c
    BY <1>2, <1>5 DEF Slots
  <2>2. d \in 1 .. Len(cols) /\ q \in 0 .. 3 /\ (d = Len(cols) => q <= Q)
    BY <2>1 DEF Slot
  <2>3. CASE q = 0
    BY <2>1, <2>2, <2>3, <1>3 DEF SlotCol
  <2>4. CASE q # 0
    <3>1. Placed(Q, d)
      <4>1. d < Len(cols) \/ (d = Len(cols) /\ Q = 3)
        BY <2>2, <2>4, <1>1, <1>2
      <4>2. Q = 3 => ~AtHeader
        BY StackIs DEF AtHeader
      <4> QED  BY <2>2, <4>1, <4>2, <1>1 DEF Placed
    <3>2. c = col[RightBy(rows[d], q)]
      BY <2>1, <2>4 DEF SlotCol
    <3>3. RightBy(rows[d], q) \in OptionOf(rows[d])
      BY <2>2, <2>4 DEF RightBy, OptionOf
    <3> QED  BY <3>1, <3>2, <3>3, <1>3
  <2> QED  BY <2>3, <2>4
<1>6. ASSUME NEW n \in F + 1 .. last
      PROVE  /\ col[n] \in 2 .. F /\ OptionOf(n) \subseteq F + 1 .. last /\ n \in OptionOf(n)
             /\ cov[col[n]] = 0 => (gone[n] = 0 <=> \A m \in OptionOf(n) : cov[col[m]] = 0)
  <2>1. col[n] \in 2 .. F /\ OptionOf(n) \subseteq F + 1 .. last /\ n \in OptionOf(n)
    BY <1>2, OptionFacts DEF Shape
  <2>2. (\A m \in OptionOf(n) : cov[col[m]] = 0) => gone[n] = 0
    BY <1>2 DEF Gone
  <2>3. ASSUME NEW m \in OptionOf(n), cov[col[m]] # 0, cov[col[n]] = 0 PROVE gone[n] # 0
    <3>1. PICK x \in OptionOf(n) : First(cov, x)
      BY <2>3, <1>2, FirstExists
    <3>2. cov[col[x]] # 0
      BY <3>1 DEF First
    <3>3. gone[n] = cov[col[x]]
      BY <3>1, <3>2, <2>3, <1>2 DEF Gone
    <3> QED  BY <3>2, <3>3
  <2> QED  BY <2>1, <2>2, <2>3
<1>7. \A n \in 1 .. F : col[n] = n /\ gone[n] = 0
  BY <1>2 DEF Shape, Gone
<1> QED  BY <1>2, <1>4, <1>5, <1>6, <1>7 DEF Matched

\* Whatever the search has covered and uncovered, the links are those of the options on the
\* stack (suduku.cpp:212-236), in the order in which the constructor made them: nothing that
\* cover has unlinked is lost, doubled or put back in another place.
THEOREM LinksAreRestored == Spec => []ListsMatch
<1>1. ASSUME IInv PROVE ListsMatch
  <2>1. TypeOK /\ last \in Nat
    BY <1>1, LinkTypes DEF IInv
  <2>2. CASE Rejected
    <3>1. Columns = {} /\ right[1] = 1 /\ left[1] = 1
      BY <2>2 DEF Rejected, Columns
    <3>2. LinksInOrder({1}, right, left)
      BY <3>1 DEF LinksInOrder
    <3> QED  BY <3>1, <3>2 DEF ListsMatch
  <2>3. CASE ~Rejected /\ Building
    <3>1. PICK F, N, O : Built(F, N, O) /\ Fresh(F) /\ Bounds
      BY <1>1, <2>3 DEF IInv
    <3>2. Matched(F, None, None) /\ F \in 1 .. last
      BY <2>1, <2>3, <3>1, BuildingMatched
    <3> QED  BY <2>1, <3>1, <3>2, MatchedLists DEF Fresh
  <2>4. CASE /\ ~Rejected /\ ~Building
             /\ pc \notin {"cover", "coverRows", "uncover", "uncoverRows"}
    <3>1. PICK F, cov, gone, Q : Solving(F, cov, gone, Q)
      BY <1>1, <2>4 DEF IInv
    <3>2. pc \in {"solve", "min", "row", "failed", "done"}
      BY <2>1, <2>4, LinkTypes DEF RestOK, Building
    <3>3. Matched(F, cov, gone)
      BY <2>1, <3>1, <3>2, SolvingMatched
    <3>4. F \in 1 .. last /\ Lists(F, cov, gone)
      BY <3>1 DEF Solving, Shape
    <3> QED  BY <2>1, <3>3, <3>4, MatchedLists DEF Lists
  <2>5. CASE pc \in {"cover", "coverRows", "uncover", "uncoverRows"}
    BY <2>5 DEF ListsMatch
  <2> QED  BY <2>2, <2>3, <2>4, <2>5
<1> QED  BY <1>1, Reached, PTL

-------------------------------------------------------------------------------
(* SearchSpec: the recursion over the lists is a search for an exact cover *)
(* of the items of the puzzle by its options.                              *)

\* How columns and nodes stand for items and options: every item has a column, every option
\* a node in the column of each of its items.
Translated(F) ==
    /\ \A c \in 1 .. F : col[c] = c
    /\ \A c, d \in 2 .. F : name[c] = name[d] => c = d
    /\ \A x : x \in ItemsOf[puzzle] <=> \E c \in 2 .. F : x = name[c]
    /\ \A n \in F + 1 .. last :
          /\ OptionOf(n) \subseteq F + 1 .. last /\ n \in OptionOf(n)
          /\ NamesAt(n) \in OptionsOf[puzzle]
          /\ col[n] \in 2 .. F /\ name[col[n]] = name[n]
    /\ \A n, m \in F + 1 .. last : col[n] = col[m] /\ NamesAt(n) = NamesAt(m) => n = m
    /\ \A o \in OptionsOf[puzzle] : \A x \in o :
          \E n \in F + 1 .. last : NamesAt(n) = o /\ name[n] = x

\* The items are the names of the columns.
LEMMA ItemNames ==
  ASSUME NEW F, NEW N, NEW O, Built(F, N, O), TypeOK, ~Building
  PROVE  \A x : x \in ItemsOf[puzzle] <=> \E c \in 2 .. F : x = name[c]
<1>1. /\ Named(F) /\ Complete(N, O) /\ last \in Nat /\ F \in 1 .. last /\ F \in Nat
      /\ ItemsOf[puzzle] = Items(puzzle)
  <2>1. puzzle \in Puzzles
    BY LinkTypes DEF RestOK
  <2>2. Named(F) /\ Complete(N, O)
    BY DEF Built
  <2> QED  BY <2>1, <2>2, Arrays DEF ItemsOf, Named
<1>2. \A x : x \in Items(puzzle) => x \in Names /\ PastColumn(x)
  <2> SUFFICES ASSUME NEW x, x \in Items(puzzle) PROVE x \in Names /\ PastColumn(x)
    OBVIOUS
  <2>1. CASE x \in {c \in Cells : puzzle[c] = 0}
    BY <2>1, CellNames DEF PastColumn, Building
  <2>2. CASE x \notin {c \in Cells : puzzle[c] = 0}
    <3>1. PICK t \in 1 .. 3, u \in Units, v \in Vals : x = NameOf(t, u, v) /\ ~Has(puzzle, t, u, v)
      BY <2>2 DEF Items
    <3>2. x \in Names
      BY <3>1, ConstraintNames
    <3> QED  BY <3>1, <3>2 DEF PastColumn, Building
  <2> QED  BY <2>1, <2>2
<1>3. \A x : PastColumn(x) => x \in Items(puzzle)
  <2> SUFFICES ASSUME NEW x, PastColumn(x) PROVE x \in Items(puzzle)
    OBVIOUS
  <2>1. CASE \E c \in Cells : x = c /\ puzzle[c] = 0
    BY <2>1 DEF Items
  <2>2. CASE \E t \in 1 .. 3, u \in Units, v \in Vals : x = NameOf(t, u, v) /\ ~Has(puzzle, t, u, v)
    <3>1. PICK t \in 1 .. 3, u \in Units, v \in Vals : x = NameOf(t, u, v) /\ ~Has(puzzle, t, u, v)
      BY <2>2
    <3>2. PICK z : z = <<t, u, v>>
      OBVIOUS
    <3>3. z \in (1 .. 3) \X Units \X Vals /\ z[1] = t /\ z[2] = u /\ z[3] = v
      BY <3>2
    <3> QED  BY <3>1, <3>3 DEF Items
  <2> QED  BY <2>1, <2>2 DEF PastColumn
<1>4. \A x \in Names : columns[x] # 0 => columns[x] \in 2 .. F /\ name[columns[x]] = x
  BY <1>1 DEF Named
<1>5. \A c \in 2 .. F : name[c] \in Names /\ columns[name[c]] # 0
  <2>1. MemoryOK
    BY LinkTypes
  <2>2. \A c \in 2 .. F : c \in Nodes
    BY <1>1, <2>1, Sizes DEF MemoryOK, Nodes
  <2>3. \A c \in 2 .. F : columns[name[c]] = c /\ c # 0
    BY <1>1 DEF Named
  <2> QED  BY <2>1, <2>2, <2>3 DEF MemoryOK
<1> QED  BY <1>1, <1>2, <1>3, <1>4, <1>5 DEF Complete

\* Node n is the q-th of option g of the constructor, value v for cell c.
Stands(F, N, O, n, g, q, c, v) ==
    /\ g \in 1 .. N /\ q \in 0 .. 3 /\ c \in Cells /\ v \in Vals
    /\ O[g] = <<c, v>> /\ n = Node(F, g, q) /\ OptionAt(n, c, v) /\ Fits(puzzle, c, v)
    /\ name[n] = Meets(c, v)[q]

\* Every node behind the columns does.
LEMMA OptionPlace ==
  ASSUME NEW F, NEW N, NEW O, Built(F, N, O), TypeOK, ~Building, NEW n \in F + 1 .. last
  PROVE  \E g, q, c, v : Stands(F, N, O, n, g, q, c, v)
<1>1. /\ last = F + 4 * N /\ N \in Nat /\ F \in Nat /\ Meant(F, N, O)
      /\ O \in [1 .. N -> Cells \X Vals]
  BY Arrays DEF Built, Half, Building, Named, Meant
<1>2. PICK g \in 1 .. N : /\ OptionAt(n, O[g][1], O[g][2]) /\ Fits(puzzle, O[g][1], O[g][2])
                          /\ n \in F + 4 * g - 3 .. F + 4 * g
  BY <1>1, OptionNames DEF Building
<1>3. PICK c \in Cells, v \in Vals : O[g] = <<c, v>>
  BY <1>1
<1>4. O[g][1] = c /\ O[g][2] = v
  BY <1>3
<1>5. PICK q \in 0 .. 3 : n = Node(F, g, q)
  <2>1. PICK q : q = n - (F + 4 * g - 3)
    OBVIOUS
  <2>2. q \in 0 .. 3 /\ n = Node(F, g, q)
    BY <1>1, <1>2, <2>1 DEF Node
  <2> QED  BY <2>2
<1>6. Option(F, g, 4, c, v)
  BY <1>1, <1>4 DEF Meant
<1>7. name[n] = Meets(c, v)[q]
  BY <1>5, <1>6 DEF Option
<1> QED  BY <1>2, <1>3, <1>4, <1>5, <1>7 DEF Stands

\* Options are made once.
LEMMA OptionOnce ==
  ASSUME NEW F, NEW N, NEW O, Built(F, N, O), N \in Nat, NEW g \in 1 .. N, NEW h \in 1 .. N, O[g] = O[h]
  PROVE  g = h
<1>1. \A a, b \in 1 .. N : a < b => Earlier(O[a][1], O[a][2], O[b][1], O[b][2])
  BY DEF Built, Meant
<1>2. O[g] \in Cells \X Vals
  BY DEF Built, Meant
<1>3. PICK c \in Cells, v \in Vals : O[g][1] = c /\ O[g][2] = v
  BY <1>2
<1>4. ~Earlier(c, v, c, v)
  BY SmallNumbers DEF Earlier
<1>5. ~(g < h) /\ ~(h < g)
  BY <1>1, <1>3, <1>4
<1> QED  BY <1>5

\* Every option has a node for each of its items.
LEMMA NodeForItem ==
  ASSUME NEW F, NEW N, NEW O, Built(F, N, O), TypeOK, ~Building,
         NEW c \in Cells, NEW v \in Vals, Fits(puzzle, c, v), NEW q \in 0 .. 3
  PROVE  \E n \in F + 1 .. last : NamesAt(n) = Range(Meets(c, v)) /\ name[n] = Meets(c, v)[q]
<1>1. /\ last = F + 4 * N /\ N \in Nat /\ F \in Nat /\ Complete(N, O)
  BY Arrays DEF Built, Half, Building, Named
<1>2. PICK g \in 1 .. N : O[g] = <<c, v>>
  BY <1>1 DEF Complete, PastOption, Building
<1>3. PICK n : n = Node(F, g, q)
  OBVIOUS
<1>4. n \in F + 1 .. last
  BY <1>1, <1>3 DEF Node
<1>5. PICK h, p, d, w : Stands(F, N, O, n, h, p, d, w)
  BY <1>4, OptionPlace
<1>6. h = g /\ p = q
  BY <1>1, <1>3, <1>5 DEF Node, Stands
<1>7. d = c /\ w = v
  BY <1>2, <1>5, <1>6 DEF Stands
<1> QED  BY <1>4, <1>5, <1>6, <1>7 DEF OptionAt, Stands

\* What the constructor has made stands for the problem.
LEMMA Translation ==
  ASSUME NEW F, NEW N, NEW O, Built(F, N, O), TypeOK, ~Building, Shape(F)
  PROVE  Translated(F)
<1>1. /\ last = F + 4 * N /\ N \in Nat /\ F \in Nat /\ last \in Nat /\ Named(F)
      /\ OptionsOf[puzzle] = Options(puzzle)
  <2>1. puzzle \in Puzzles
    BY LinkTypes DEF RestOK
  <2> QED  BY <2>1, Arrays DEF Built, Half, Building, Named, OptionsOf
<1>2. \A x : x \in ItemsOf[puzzle] <=> \E c \in 2 .. F : x = name[c]
  BY ItemNames
<1>3. \A c, d \in 2 .. F : name[c] = name[d] => c = d
  <2>1. \A c \in 2 .. F : columns[name[c]] = c
    BY <1>1 DEF Named
  <2> QED  BY <2>1
<1>4. ASSUME NEW n \in F + 1 .. last
      PROVE  /\ OptionOf(n) \subseteq F + 1 .. last /\ n \in OptionOf(n)
             /\ NamesAt(n) \in OptionsOf[puzzle]
             /\ col[n] \in 2 .. F /\ name[col[n]] = name[n]
  <2>1. OptionOf(n) \subseteq F + 1 .. last /\ n \in OptionOf(n) /\ col[n] \in 2 .. F
    BY DEF Shape, OptionOf
  <2>2. NamesAt(n) \in Options(puzzle)
    <3>1. PICK c \in Cells, v \in Vals : OptionAt(n, c, v) /\ Fits(puzzle, c, v)
      BY OptionPlace DEF Stands
    <3>2. PICK z : z = <<c, v>>
      OBVIOUS
    <3>3. z \in Cells \X Vals /\ z[1] = c /\ z[2] = v
      BY <3>2
    <3> QED  BY <3>1, <3>3 DEF Options, OptionAt
  <2>3. name[col[n]] = name[n]
    <3>1. col[n] = columns[name[n]] /\ col[n] # 0
      BY <1>1, <2>1, NodeColumn
    <3>2. name[n] \in Names
      <4>1. MemoryOK
        BY LinkTypes
      <4>2. n \in Nodes
        BY <1>1, <4>1, Sizes DEF MemoryOK, Nodes
      <4> QED  BY <4>1, <4>2 DEF MemoryOK
    <3> QED  BY <1>1, <3>1, <3>2 DEF Named
  <2> QED  BY <2>1, <2>2, <2>3, <1>1
<1>5. ASSUME NEW n \in F + 1 .. last, NEW m \in F + 1 .. last, col[n] = col[m],
             NamesAt(n) = NamesAt(m)
      PROVE  n = m
  <2>1. PICK g, q, c, v : Stands(F, N, O, n, g, q, c, v)
    BY OptionPlace
  <2>2. PICK h, p, d, w : Stands(F, N, O, m, h, p, d, w)
    BY OptionPlace
  <2>3. CellAt(n) = CellAt(m) /\ ValAt(n) = ValAt(m)
    BY <1>5 DEF CellAt, ValAt
  <2>4. c = d /\ v = w
    BY <2>1, <2>2, <2>3 DEF OptionAt, Stands
  <2>5. g = h
    BY <2>1, <2>2, <2>4, <1>1, OptionOnce DEF Stands
  <2>6. name[n] = name[m]
    BY <1>4, <1>5
  <2>7. q = p
    BY <2>1, <2>2, <2>4, <2>6, MeetsNames DEF Stands
  <2> QED  BY <2>1, <2>2, <2>5, <2>7 DEF Stands
<1>6. ASSUME NEW o \in OptionsOf[puzzle], NEW x \in o
      PROVE  \E n \in F + 1 .. last : NamesAt(n) = o /\ name[n] = x
  <2>1. PICK z \in Cells \X Vals : Fits(puzzle, z[1], z[2]) /\ o = Range(Meets(z[1], z[2]))
    BY <1>1 DEF Options
  <2>2. PICK c \in Cells, v \in Vals : c = z[1] /\ v = z[2]
    OBVIOUS
  <2>3. PICK q \in 0 .. 3 : x = Meets(c, v)[q]
    BY <2>1, <2>2 DEF Range, Meets
  <2> QED  BY <2>1, <2>2, <2>3, NodeForItem
<1> QED  BY <1>1, <1>2, <1>3, <1>4, <1>5, <1>6 DEF Translated, Named

\* A function on 1 .. n is a sequence.
LEMMA Sequenced ==
  ASSUME NEW n \in Nat, NEW s, s = [d \in 1 .. n |-> s[d]]
  PROVE  s \in Seq({s[d] : d \in 1 .. n}) /\ Len(s) = n
OBVIOUS

\* One with a place more is the other with something appended.
LEMMA Appended ==
  ASSUME NEW n \in Nat, NEW s, NEW t, s = [d \in 1 .. n |-> s[d]], t = [d \in 1 .. n + 1 |-> t[d]],
         \A d \in 1 .. n : t[d] = s[d]
  PROVE  t = Append(s, t[n + 1]) /\ Len(s) = n /\ Len(t) = n + 1
<1>1. s \in Seq({s[d] : d \in 1 .. n}) /\ Len(s) = n
  BY Sequenced
<1>2. t \in Seq({t[d] : d \in 1 .. n + 1}) /\ Len(t) = n + 1
  BY Sequenced
<1> DEFINE S == {t[d] : d \in 1 .. n + 1}
<1>3. s \in Seq(S)
  <2>1. {s[d] : d \in 1 .. n} \subseteq S
    BY \A d \in 1 .. n : t[d] = s[d] /\ d \in 1 .. n + 1
  <2> QED  BY <2>1, <1>1, SeqMonotonic
<1>4. Append(s, t[n + 1]) \in Seq(S) /\ Len(Append(s, t[n + 1])) = n + 1
      /\ Append(s, t[n + 1])[n + 1] = t[n + 1]
      /\ \A d \in 1 .. n : Append(s, t[n + 1])[d] = s[d]
  <2>1. t[n + 1] \in S
    OBVIOUS
  <2> HIDE DEF S
  <2> QED  BY <2>1, <1>1, <1>3
<1>5. \A d \in 1 .. n + 1 : d \in 1 .. n \/ d = n + 1
  OBVIOUS
<1> HIDE DEF S
<1>6. t = Append(s, t[n + 1])
  BY <1>2, <1>4, <1>5, SeqEqual DEF S
<1> QED  BY <1>1, <1>2, <1>6

\* One with a place less is the beginning of the other.
LEMMA Shortened ==
  ASSUME NEW n \in Nat, NEW s, NEW t, t = [d \in 1 .. n |-> t[d]], s = [d \in 1 .. n + 1 |-> s[d]],
         \A d \in 1 .. n : t[d] = s[d]
  PROVE  t = ExactCover!Shorter(s)
<1>1. t \in Seq({t[d] : d \in 1 .. n}) /\ Len(t) = n
  BY Sequenced
<1>2. s \in Seq({s[d] : d \in 1 .. n + 1}) /\ Len(s) = n + 1
  BY Sequenced
<1>3. Len(s) - 1 = n
  BY <1>2
<1>4. SubSeq(s, 1, n) = [d \in 1 .. n |-> s[d]]
  BY <1>2
<1> QED  BY <1>1, <1>2, <1>3, <1>4 DEF ExactCover!Shorter

\* The calls that have guessed: all of them, or all but the innermost.
LEMMA GuessedAre ==
  ASSUME NEW F, NEW cov, NEW gone, NEW Q, Solving(F, cov, gone, Q), TypeOK, ~Building
  PROVE  /\ Len(Guessed) = IF pc \in {"solve", "min", "done"} \/ (pc \in {"cover", "coverRows"} /\ k # 0)
                           THEN Len(cols) ELSE Len(cols) - 1
         /\ Len(Guessed) \in Nat /\ DOMAIN Guessed = 1 .. Len(Guessed)
         /\ \A d \in 1 .. Len(Guessed) :
               /\ Guessed[d] = rows[d] /\ rows[d] \in F + 1 .. last /\ col[rows[d]] = cols[d]
               /\ d \in 1 .. Len(rows) /\ d \in 1 .. Len(cols)
<1>1. /\ rows \in Seq(1 .. last) /\ Len(rows) \in Nat /\ Len(cols) \in Nat
      /\ Depth /\ InFrames(F, cov)
      /\ stack = IF pc \in {"row", "uncover", "uncoverRows"} THEN Front(rows) ELSE rows
      /\ pc \in {"solve", "min", "cover", "coverRows", "row", "failed", "uncover", "uncoverRows", "done"}
  BY LoopNodes, LinkTypes DEF Solving, Levels, RestOK, Building
<1>2. Guessed = IF pc \in {"row", "uncover", "uncoverRows", "failed"} THEN Front(rows) ELSE rows
  BY <1>1 DEF Guessed
<1>3. /\ \A d \in 1 .. Len(rows) : d < Len(cols) => rows[d] \in F + 1 .. last /\ col[rows[d]] = cols[d]
      /\ ~AtHeader => \A d \in 1 .. Len(rows) : rows[d] \in F + 1 .. last /\ col[rows[d]] = cols[d]
  <2>1. \A d \in 1 .. Len(rows) : (d < Len(cols) \/ ~AtHeader) =>
           rows[d] \in F + 1 .. last /\ col[rows[d]] = cols[d]
    <3>1. \A d \in 1 .. Len(rows) : d < Len(cols) => d # Len(cols)
      BY <1>1
    <3> QED  BY <3>1, <1>1 DEF InFrames
  <2> QED  BY <2>1
<1>4. CASE pc \in {"row", "uncover", "uncoverRows", "failed"}
  <2>1. Len(rows) = Len(cols) /\ Len(cols) > 0
    BY <1>1, <1>4 DEF Depth
  <2>2. /\ Front(rows) \in Seq(1 .. last) /\ Len(Front(rows)) = Len(rows) - 1
        /\ \A d \in 1 .. Len(rows) - 1 : Front(rows)[d] = rows[d]
    <3>1. rows # <<>>
      BY <2>1
    <3> QED  BY <3>1, <1>1, Ends
  <2>3. Guessed = Front(rows)
    BY <1>2, <1>4
  <2>4. Len(Guessed) \in Nat /\ DOMAIN Guessed = 1 .. Len(Guessed) /\ Len(Guessed) = Len(cols) - 1
    BY <2>1, <2>2, <2>3
  <2>5. \A d \in 1 .. Len(cols) - 1 : d \in 1 .. Len(rows) /\ d < Len(cols) /\ d \in 1 .. Len(cols)
    BY <1>1, <2>1
  <2> QED  BY <2>1, <2>2, <2>3, <2>4, <2>5, <1>3, <1>4
<1>5. CASE pc \in {"solve", "min", "done", "cover", "coverRows"}
  <2>1. Guessed = rows /\ ~AtHeader
    BY <1>2, <1>5 DEF AtHeader
  <2>2. /\ Len(rows) = IF pc \in {"cover", "coverRows"} /\ k = 0 THEN Len(cols) - 1 ELSE Len(cols)
    BY <1>1 DEF Depth
  <2>3. \A d \in 1 .. Len(rows) : d \in 1 .. Len(cols)
    BY <2>2, <1>1
  <2>4. Len(Guessed) = IF pc \in {"solve", "min", "done"} \/ (pc \in {"cover", "coverRows"} /\ k # 0)
                       THEN Len(cols) ELSE Len(cols) - 1
    BY <2>1, <2>2, <1>5
  <2>5. DOMAIN Guessed = 1 .. Len(Guessed) /\ Len(Guessed) \in Nat
    BY <2>1, <1>1
  <2> QED  BY <2>1, <2>3, <2>4, <2>5, <1>3
<1> QED  BY <1>1, <1>4, <1>5

\* No column of an option guessed changes while solve runs.
LEMMA OptionsStay ==
  ASSUME NEW F, Translated(F), UNCHANGED names, \A n \in F + 1 .. last : right'[n] = right[n]
  PROVE  \A n \in F + 1 .. last : OptionOf(n)' = OptionOf(n) /\ NamesAt(n)' = NamesAt(n)
<1> SUFFICES ASSUME NEW n \in F + 1 .. last
             PROVE  OptionOf(n)' = OptionOf(n) /\ NamesAt(n)' = NamesAt(n)
  OBVIOUS
<1>1. \A m \in OptionOf(n) : right'[m] = right[m]
  BY DEF Translated
<1>2. OptionOf(n)' = OptionOf(n)
  BY <1>1 DEF OptionOf
<1>3. name' = name
  BY DEF names
<1> QED  BY <1>2, <1>3 DEF NamesAt

\* A candidate is a node of its column.
LEMMA CandidateNode ==
  ASSUME NEW F, Translated(F), F \in 1 .. last, last \in Nat, NEW d, NEW n \in Candidates(d)
  PROVE  n \in F + 1 .. last /\ col[n] = cols[d]
<1>1. n \in 1 .. last /\ n # cols[d] /\ col[n] = cols[d]
  BY DEF Candidates
<1>2. n \in 1 .. F => col[n] = n
  BY DEF Translated
<1> QED  BY <1>1, <1>2

\* Nor does what fits at a level while the levels before it stay.
LEMMA CandidatesStay ==
  ASSUME NEW F, NEW cov, NEW gone, NEW Q, Solving(F, cov, gone, Q), TypeOK, Translated(F),
         UNCHANGED names, \A n \in F + 1 .. last : right'[n] = right[n],
         NEW d \in 1 .. Len(cols), cols'[d] = cols[d], \A e \in 1 .. d - 1 : rows'[e] = rows[e]
  PROVE  Candidates(d)' = Candidates(d)
<1>1. /\ F \in 1 .. last /\ F \in Nat /\ last \in Nat /\ Len(cols) \in Nat /\ Len(rows) \in Nat
      /\ Depth /\ InFrames(F, cov) /\ col' = col /\ last' = last
  BY LoopNodes, LinkTypes DEF Solving, Levels, names
<1>2. ASSUME NEW e \in 1 .. d - 1 PROVE OptionOf(rows[e])' = OptionOf(rows[e])
  <2>1. e \in 1 .. Len(rows) /\ e # Len(cols)
    BY <1>1 DEF Depth
  <2>2. PICK r : r = rows[e]
    OBVIOUS
  <2>3. r \in F + 1 .. last
    BY <2>1, <2>2, <1>1 DEF InFrames
  <2>4. OptionOf(r)' = OptionOf(r)
    BY <2>3, OptionsStay
  <2>5. rows'[e] = r
    BY <2>2
  <2> QED  BY <2>2, <2>4, <2>5 DEF OptionOf
<1>3. ASSUME NEW n \in 1 .. last, col[n] = cols[d], n # cols[d] PROVE OptionOf(n)' = OptionOf(n)
  <2>1. n \in F + 1 .. last
    BY <1>1, <1>3 DEF Translated
  <2> QED  BY <2>1, OptionsStay
<1>4. ASSUME NEW n PROVE n \in Candidates(d)' <=> n \in Candidates(d)
  <2>1. CASE n \in 1 .. last /\ col[n] = cols[d] /\ n # cols[d]
    <3>1. OptionOf(n)' = OptionOf(n)
      BY <2>1, <1>3
    <3> QED  BY <2>1, <3>1, <1>1, <1>2 DEF Candidates
  <2>2. CASE ~(n \in 1 .. last /\ col[n] = cols[d] /\ n # cols[d])
    BY <2>2, <1>1 DEF Candidates
  <2> QED  BY <2>1, <2>2
<1>5. Candidates(d)' \subseteq Nodes /\ Candidates(d) \subseteq Nodes
  BY DEF Candidates
<1> QED  BY <1>4, <1>5

\* What call d has still to try.
TryAt(d) == {NamesAt(n) : n \in {n \in Candidates(d) : Untried(d, n)}}

\* It stays if the same is before the call.
LEMMA TryStays ==
  ASSUME NEW F, NEW cov, NEW gone, NEW Q, Solving(F, cov, gone, Q), TypeOK, Translated(F),
         UNCHANGED names, \A n \in F + 1 .. last : right'[n] = right[n],
         NEW d \in 1 .. Len(cols), cols'[d] = cols[d], \A e \in 1 .. d - 1 : rows'[e] = rows[e],
         \A n \in Candidates(d) : Untried(d, n)' <=> Untried(d, n)
  PROVE  TryAt(d)' = TryAt(d)
<1>1. Candidates(d)' = Candidates(d)
  BY CandidatesStay
<1>2. \A n \in Candidates(d) : NamesAt(n)' = NamesAt(n)
  BY LoopNodes, LinkTypes, CandidateNode, OptionsStay
<1> QED  BY <1>1, <1>2 DEF TryAt

\* A step is none of the search if it leaves the guesses and what is before each call.
LEMMA SearchStays ==
  ASSUME NEW F, NEW cov, NEW gone, NEW Q, Solving(F, cov, gone, Q), TypeOK, Translated(F), ~Building,
         UNCHANGED <<puzzle, names, cols, Guessed, Outcome>>,
         \A n \in F + 1 .. last : right'[n] = right[n],
         \A e \in 1 .. Len(cols) - 1 : rows'[e] = rows[e],
         \A d \in 1 .. Len(cols) : \A n \in Candidates(d) : Untried(d, n)' <=> Untried(d, n)
  PROVE  UNCHANGED ExactCover!searchVars
<1>1. DOMAIN cols = 1 .. Len(cols) /\ Len(cols) \in Nat
  BY LoopNodes
<1>2. ASSUME NEW d \in 1 .. Len(cols) PROVE TryAt(d)' = TryAt(d)
  BY <1>1, TryStays
<1>3. ToTry' = ToTry
  BY <1>1, <1>2 DEF ToTry, TryAt
<1>4. Guesses' = Guesses
  <2>1. \A d \in DOMAIN Guessed : NamesAt(Guessed[d])' = NamesAt(Guessed[d])
    <3> SUFFICES ASSUME NEW d \in DOMAIN Guessed PROVE NamesAt(Guessed[d])' = NamesAt(Guessed[d])
      OBVIOUS
    <3>1. PICK r : r = Guessed[d]
      OBVIOUS
    <3>2. r \in F + 1 .. last
      BY <3>1, GuessedAre
    <3>3. NamesAt(r)' = NamesAt(r) /\ Guessed'[d] = r
      BY <3>1, <3>2, OptionsStay
    <3> QED  BY <3>1, <3>3 DEF NamesAt, OptionOf
  <2> QED  BY <2>1 DEF Guesses
<1> QED  BY <1>3, <1>4 DEF ExactCover!searchVars, ExactCover!problem

\* Where solve is, and what it leaves as it is.
Running(F, cov, gone, Q) == TypeOK /\ ~Building /\ Solving(F, cov, gone, Q) /\ Translated(F)
Goes(F) == UNCHANGED <<puzzle, names>> /\ \A n \in F + 1 .. last : right'[n] = right[n]

\* The lengths of the lists of the calls under way.
LEMMA CallsUnderWay ==
  ASSUME NEW F, NEW cov, NEW gone, NEW Q, Running(F, cov, gone, Q)
  PROVE  /\ cols \in Seq(1 .. last) /\ rows \in Seq(1 .. last) /\ stack \in Seq(1 .. last)
         /\ Len(cols) \in Nat /\ DOMAIN cols = 1 .. Len(cols) /\ last \in Nat /\ F \in Nat
         /\ F \in 1 .. last
         /\ Len(rows) = IF pc \in {"cover", "coverRows"} /\ k = 0 THEN Len(cols) - 1 ELSE Len(cols)
         /\ Len(stack) = IF \/ pc \in {"row", "uncover", "uncoverRows"}
                            \/ pc \in {"cover", "coverRows"} /\ k = 0
                         THEN Len(cols) - 1 ELSE Len(cols)
         /\ pc \notin {"row", "uncover", "uncoverRows"} => stack = rows
         /\ pc \in {"row", "uncover", "uncoverRows"} => stack = Front(rows)
         /\ pc \in {"row", "failed", "cover", "coverRows", "uncover", "uncoverRows"} => Len(cols) > 0
<1>1. /\ rows \in Seq(1 .. last) /\ cols \in Seq(1 .. last) /\ stack \in Seq(1 .. last)
      /\ Len(rows) \in Nat /\ Len(cols) \in Nat /\ Depth /\ F \in Nat /\ F \in 1 .. last
      /\ stack = IF pc \in {"row", "uncover", "uncoverRows"} THEN Front(rows) ELSE rows
      /\ last \in Nat
  BY LoopNodes, LinkTypes DEF Running, Solving, Levels, RestOK
<1>2. ASSUME pc \in {"row", "uncover", "uncoverRows"} PROVE Len(stack) = Len(cols) - 1
  <2>1. Len(rows) = Len(cols) /\ Len(cols) > 0
    BY <1>1, <1>2 DEF Depth
  <2>2. rows # <<>>
    BY <2>1
  <2>3. Len(Front(rows)) = Len(rows) - 1
    BY <2>2, <1>1, Ends
  <2> QED  BY <2>1, <2>3, <1>1, <1>2
<1> QED  BY <1>1, <1>2 DEF Depth

\* Before the end the search goes on.
LEMMA SearchGoesOn ==
  ASSUME result = "none", pc # "done" PROVE Outcome = "searching"
BY DEF Outcome

\* What the stack stands for.
LEMMA SearchIs ==
  ASSUME NEW F, NEW cov, NEW gone, NEW Q, Running(F, cov, gone, Q)
  PROVE  /\ ToTry = [d \in 1 .. Len(cols) |-> TryAt(d)] /\ Len(ToTry) = Len(cols)
         /\ Guesses = [d \in 1 .. Len(Guessed) |-> NamesAt(rows[d])] /\ Len(Guesses) = Len(Guessed)
         /\ Len(Guessed) \in Nat
<1>1. ToTry = [d \in 1 .. Len(cols) |-> TryAt(d)] /\ Len(cols) \in Nat
  BY CallsUnderWay DEF ToTry, TryAt
<1>2. Guesses = [d \in 1 .. Len(Guessed) |-> NamesAt(rows[d])] /\ Len(Guessed) \in Nat
  <2>1. /\ Len(Guessed) \in Nat /\ DOMAIN Guessed = 1 .. Len(Guessed)
        /\ \A d \in 1 .. Len(Guessed) : Guessed[d] = rows[d]
    BY GuessedAre DEF Running
  <2> QED  BY <2>1 DEF Guesses
<1>3. ToTry = [d \in 1 .. Len(cols) |-> ToTry[d]]
  BY <1>1
<1>4. Guesses = [d \in 1 .. Len(Guessed) |-> Guesses[d]]
  BY <1>2
<1> QED  BY <1>1, <1>2, <1>3, <1>4, Sequenced

\* The steps between the choices.
LEMMA QuietSearch ==
  ASSUME NEW F, NEW cov, NEW gone, NEW Q, Running(F, cov, gone, Q), Goes(F),
         \/ StartMin \/ CompareMin \/ Descend \/ NoMoreRows \/ Cover \/ Unlink \/ NextToCover
         \/ Uncover \/ Relink \/ NextToRelink \/ (Covered /\ k # 0) \/ (Uncovered /\ k # 0)
  PROVE  UNCHANGED ExactCover!searchVars
<1>1. /\ UNCHANGED <<cols, rows, stack, result, last>> /\ pc \notin {"done", "failed"}
      /\ pc' \notin {"done", "failed"}
  BY DEF StartMin, CompareMin, Descend, NoMoreRows, Cover, Unlink, NextToCover, Uncover, Relink,
         NextToRelink, Covered, Uncovered, frames, answer, nodes, names
<1>2. Guessed' = Guessed /\ Outcome' = Outcome
  BY <1>1 DEF Guessed, Outcome
<1>3. ASSUME NEW d \in 1 .. Len(cols), NEW n \in Candidates(d) PROVE Untried(d, n)' <=> Untried(d, n)
  <2>1. CASE NoMoreRows
    <3>1. pc = "row" /\ Last(rows) = Last(cols) /\ pc' = "uncover"
      BY <2>1 DEF NoMoreRows
    <3>2. Len(rows) = Len(cols) /\ Len(stack) = Len(cols) - 1 /\ Len(cols) \in Nat
      BY <3>1, CallsUnderWay
    <3>3. d > Len(stack) => rows[d] = cols[d]
      <4>1. rows[Len(cols)] = cols[Len(cols)]
        BY <3>1, <3>2 DEF Last
      <4> QED  BY <4>1, <3>2
    <3> QED  BY <3>3, <1>1 DEF Untried
  <2>2. CASE ~NoMoreRows
    <3>1. pc # "row" /\ pc' # "row"
      BY <2>2 DEF StartMin, CompareMin, Descend, Cover, Unlink, NextToCover, Uncover, Relink,
                  NextToRelink, Covered, Uncovered
    <3> QED  BY <3>1, <1>1 DEF Untried
  <2> QED  BY <2>1, <2>2
<1> QED  BY <1>1, <1>2, <1>3, SearchStays DEF Running, Goes

\* Of a column that is covered, the candidates are those whose first column it was.
LEMMA CandidateIs ==
  ASSUME NEW F, NEW cov, NEW gone, NEW Q, Running(F, cov, gone, Q), NEW d \in 1 .. Len(cols),
         Slot(Q, d, 0)
  PROVE  \A n : n \in Candidates(d) <=> n \in F + 1 .. last /\ col[n] = cols[d] /\ First(cov, n)
<1>1. /\ cov \in [1 .. F -> Nat] /\ Slots(F, cov, Q) /\ InFrames(F, cov) /\ Q \in -1 .. 3
      /\ F \in Nat /\ last \in Nat /\ Len(cols) \in Nat /\ F \in 1 .. last
      /\ Solving(F, cov, gone, Q) /\ TypeOK /\ d \in Nat /\ Translated(F)
      /\ Len(cols) - 1 <= Len(rows) /\ Len(rows) \in Nat
  <2>1. Solving(F, cov, gone, Q) /\ TypeOK /\ Translated(F)
    BY DEF Running
  <2>2. cov \in [1 .. F -> Nat] /\ Slots(F, cov, Q) /\ InFrames(F, cov) /\ Q \in -1 .. 3
    BY <2>1 DEF Solving, Levels, Lists
  <2>3. /\ F \in Nat /\ last \in Nat /\ Len(cols) \in Nat /\ F \in 1 .. last
        /\ rows \in Seq(1 .. last) /\ Len(cols) - 1 <= Len(rows)
    BY CallsUnderWay
  <2>4. d \in Nat /\ Len(rows) \in Nat
    BY <2>3
  <2> QED  BY <2>1, <2>2, <2>3, <2>4
<1>2. cov[cols[d]] = At(d, 0) /\ cols[d] \in 2 .. F /\ At(d, 0) # 0
  <2>1. SlotCol(d, 0) = cols[d] /\ 0 \in Nat
    BY DEF SlotCol
  <2>2. cov[cols[d]] = At(d, 0)
    BY <2>1, <1>1 DEF Slots
  <2> QED  BY <2>2, <1>1 DEF InFrames, At
<1>3. ASSUME NEW e \in 1 .. d - 1 PROVE Placed(Q, e) /\ rows[e] \in F + 1 .. last /\ col[rows[e]] = cols[e]
  <2>1. e \in 1 .. Len(rows) /\ e < Len(cols) /\ e # Len(cols)
    BY <1>1
  <2> QED  BY <2>1, <1>1 DEF Placed, InFrames
<1>4. ASSUME NEW n \in Candidates(d) PROVE n \in F + 1 .. last /\ col[n] = cols[d] /\ First(cov, n)
  <2>1. n \in F + 1 .. last /\ col[n] = cols[d]
    BY <1>1, CandidateNode
  <2>2. ASSUME NEW y \in OptionOf(n), cov[col[y]] # 0 PROVE At(d, 0) <= cov[col[y]]
    <3>1. col[y] \in 1 .. F
      BY <1>1, <2>1 DEF Translated
    <3>2. PICK e, q \in Nat : /\ Slot(Q, e, q) /\ SlotCol(e, q) = col[y] /\ cov[col[y]] = At(e, q)
                              /\ q <= 3 /\ e <= Len(cols) /\ (e = Len(cols) => q <= Q)
      BY <3>1, <2>2, <1>1, CovSlot
    <3>3. e \in 1 .. Len(cols) /\ q \in 0 .. 3
      BY <3>2 DEF Slot
    <3>4. ~(e < d)
      <4> SUFFICES ASSUME e < d PROVE FALSE
        OBVIOUS
      <4>1. e \in 1 .. d - 1
        BY <3>3, <1>1
      <4>2. PICK r : r = rows[e]
        OBVIOUS
      <4>3. RightBy(r, q) \in OptionOf(r)
        BY <3>3 DEF RightBy, OptionOf
      <4>4. col[RightBy(r, q)] = col[y]
        <5>1. CASE q = 0
          BY <5>1, <4>1, <4>2, <3>2, <1>3 DEF SlotCol, RightBy
        <5>2. CASE q # 0
          BY <5>2, <4>2, <3>2 DEF SlotCol
        <5> QED  BY <5>1, <5>2
      <4> QED  BY <4>1, <4>2, <4>3, <4>4 DEF Candidates
    <3> QED  BY <3>2, <3>3, <3>4, <1>1 DEF At
  <2> QED  BY <2>1, <2>2, <1>2 DEF First
<1>5. ASSUME NEW n \in F + 1 .. last, col[n] = cols[d], First(cov, n) PROVE n \in Candidates(d)
  <2>1. ASSUME NEW e \in 1 .. d - 1, NEW m \in OptionOf(n), NEW z \in OptionOf(rows[e])
        PROVE  col[m] # col[z]
    <3>1. PICK q \in 0 .. 3 : SlotCol(e, q) = col[z] /\ cov[col[z]] = At(e, q)
      <4>1. Placed(Q, e) /\ Solving(F, cov, gone, Q) /\ TypeOK
        BY <1>1, <1>3
      <4> QED  BY <4>1, OptionSlots
    <3>2. At(e, q) < At(d, 0) /\ At(e, q) # 0
      BY <1>1 DEF At
    <3>3. cov[col[m]] = 0 \/ At(d, 0) <= cov[col[m]]
      BY <1>2, <1>5 DEF First
    <3>4. At(e, q) \in Nat /\ At(d, 0) \in Nat
      BY <1>1 DEF At
    <3> QED  BY <3>1, <3>2, <3>3, <3>4
  <2>2. n \in Nodes /\ n \in 1 .. last /\ n # cols[d]
    <3>1. last \in Nodes
      BY <1>1, LinkTypes DEF MemoryOK
    <3>2. n \in 1 .. last /\ n # cols[d]
      BY <1>1, <1>2
    <3> QED  BY <3>1, <3>2, Sizes DEF Nodes
  <2> QED  BY <2>1, <2>2, <1>5 DEF Candidates
<1> QED  BY <1>4, <1>5

\* They are linked in it.
LEMMA CandidateLinked ==
  ASSUME NEW F, NEW cov, NEW gone, NEW Q, Running(F, cov, gone, Q), NEW d \in 1 .. Len(cols),
         Slot(Q, d, 0), NEW n \in Candidates(d)
  PROVE  n \in InColumn(gone, cols[d]) /\ gone[n] = 0 /\ n \in F + 1 .. last
<1>1. n \in F + 1 .. last /\ col[n] = cols[d] /\ First(cov, n)
  BY CandidateIs
<1>2. n \in OptionOf(n) /\ Gone(F, cov, gone) /\ F \in Nat /\ last \in Nat
  BY <1>1, CallsUnderWay DEF Running, Translated, Solving
<1>3. gone[n] = 0
  BY <1>1, <1>2 DEF Gone
<1>4. n \in 1 .. last
  BY <1>1, <1>2
<1> QED  BY <1>1, <1>3, <1>4 DEF InColumn

\* The first option of a column is the first of those that fit.
LEMMA FirstRowSearch ==
  ASSUME NEW F, NEW cov, NEW gone, NEW Q, Running(F, cov, gone, Q), Goes(F), Covered, k = 0
  PROVE  UNCHANGED ExactCover!searchVars
<1> DEFINE D == Len(cols)
<1>1. PICK c : c = cols[D]
  OBVIOUS
<1>2. /\ pc = "coverRows" /\ pc' = "row" /\ rows' = Append(rows, down[c])
      /\ UNCHANGED <<cols, stack, result, last>>
  BY <1>1 DEF Covered, FirstRow, Last, answer, nodes, names
<1>3. /\ Len(rows) = D - 1 /\ Len(stack) = D - 1 /\ D \in Nat \ {0} /\ rows \in Seq(1 .. last)
      /\ F \in Nat /\ last \in Nat /\ F \in 1 .. last /\ D \in 1 .. D
  BY <1>2, CallsUnderWay
<1>4. /\ Len(rows') = D /\ rows'[D] = down[c] /\ \A e \in 1 .. D - 1 : rows'[e] = rows[e]
  BY <1>2, <1>3
<1>5. Slot(Q, D, 0) /\ c \in 2 .. F /\ gone[c] = 0 /\ col[c] = c /\ c \in 1 .. last
      /\ Lists(F, cov, gone)
  <2>1. Q = 0 /\ c \in 2 .. F /\ Lists(F, cov, gone) /\ Gone(F, cov, gone)
    BY <1>1, <1>2, <1>3 DEF Running, Solving, Levels, Position, InFrames
  <2>2. c \in 1 .. F /\ c \in 1 .. last
    BY <2>1, <1>3
  <2> QED  BY <2>1, <2>2, <1>3 DEF Slot, Gone, Running, Translated
<1>6. Follows(InColumn(gone, c), c, down[c])
  BY <1>3, <1>5, ColumnRing
<1>7. ASSUME NEW n \in Candidates(D) PROVE down[c] # c /\ n >= down[c]
  <2>1. n \in InColumn(gone, c) /\ n \in F + 1 .. last
    BY <1>1, <1>3, <1>5, CandidateLinked
  <2>2. c < n /\ n \in Nat /\ down[c] \in Nat
    BY <2>1, <1>3, <1>5, LinkTypes DEF Running
  <2> QED  BY <2>1, <2>2, <1>3, <1>5, <1>6 DEF Follows
<1>8. ASSUME NEW d \in 1 .. Len(cols), NEW n \in Candidates(d) PROVE Untried(d, n)' <=> Untried(d, n)
  <2>1. CASE d = D
    BY <2>1, <1>1, <1>2, <1>3, <1>4, <1>7 DEF Untried
  <2>2. CASE d # D
    <3>1. d <= Len(rows) /\ d <= Len(stack) /\ d <= Len(rows') /\ rows'[d] = rows[d] /\ d \in Nat
      BY <2>2, <1>3, <1>4
    <3> QED  BY <3>1, <1>2, <1>3, <1>4 DEF Untried
  <2> QED  BY <2>1, <2>2
<1>9. Guessed' = Guessed /\ Outcome' = Outcome
  BY <1>2 DEF Guessed, Outcome
<1> QED  BY <1>2, <1>4, <1>8, <1>9, SearchStays DEF Running, Goes

\* The option below one is the next of those that fit.
LEMMA NextRowSearch ==
  ASSUME NEW F, NEW cov, NEW gone, NEW Q, Running(F, cov, gone, Q), Goes(F), Advance
  PROVE  UNCHANGED ExactCover!searchVars
<1> DEFINE D == Len(cols)
<1>1. PICK c, r : c = cols[D] /\ r = rows[D]
  OBVIOUS
<1>2. /\ pc = "uncover" /\ k # 0 /\ k = Last(rows) /\ pc' = "row"
      /\ rows' = Append(Front(rows), NextRow(Last(rows)))
      /\ UNCHANGED <<cols, stack, result, last>>
  BY DEF Advance, answer, nodes, names
<1>3. /\ Len(rows) = D /\ Len(stack) = D - 1 /\ D \in Nat \ {0} /\ rows \in Seq(1 .. last)
      /\ F \in Nat /\ last \in Nat /\ F \in 1 .. last /\ D \in 1 .. D
  BY <1>2, CallsUnderWay
<1>4. /\ Len(rows') = D /\ rows'[D] = down[r] /\ \A e \in 1 .. D - 1 : rows'[e] = rows[e]
  <2>1. rows # <<>> /\ Last(rows) = r
    BY <1>1, <1>3 DEF Last
  <2>2. /\ Front(rows) \in Seq(1 .. last) /\ Len(Front(rows)) = D - 1
        /\ \A e \in 1 .. D - 1 : Front(rows)[e] = rows[e]
    BY <2>1, <1>3, Ends
  <2>3. rows' = Append(Front(rows), down[r])
    BY <2>1, <1>2 DEF NextRow
  <2> QED  BY <2>2, <2>3, <1>3
<1>5. /\ Slot(Q, D, 0) /\ c \in 2 .. F /\ r \in F + 1 .. last /\ col[r] = c /\ r \in 1 .. last
      /\ First(cov, r) /\ Lists(F, cov, gone)
  <2>1. ~AtHeader /\ Q \in 0 .. 3
    BY <1>2 DEF AtHeader, Running, Solving, Levels, Position
  <2>2. /\ c \in 2 .. F /\ r \in F + 1 .. last /\ col[r] = c /\ First(cov, r) /\ Lists(F, cov, gone)
    BY <2>1, <1>1, <1>3 DEF Running, Solving, Levels, InFrames
  <2> QED  BY <2>1, <2>2, <1>3 DEF Slot
<1>6. gone[r] = 0 /\ r \in Candidates(D)
  <2>1. r \in Candidates(D)
    BY <1>1, <1>3, <1>5, CandidateIs
  <2> QED  BY <2>1, <1>3, <1>5, CandidateLinked
<1>7. /\ Follows(InColumn(gone, c), r, down[r]) /\ down[r] \in 1 .. last /\ col[down[r]] = c
  BY <1>3, <1>5, <1>6, ColumnRing
<1>8. c \in InColumn(gone, c) /\ \A n \in F + 1 .. last : c < n
  <2>1. gone[c] = 0 /\ col[c] = c /\ c \in 1 .. last
    <3>1. c \in 1 .. F /\ c \in 1 .. last
      BY <1>3, <1>5
    <3> QED  BY <3>1 DEF Running, Solving, Gone, Translated
  <2> QED  BY <2>1, <1>3, <1>5 DEF InColumn
<1>9. ASSUME NEW n \in Candidates(D) PROVE n > r <=> down[r] # c /\ n >= down[r]
  <2>1. n \in InColumn(gone, c) /\ n \in F + 1 .. last /\ n \in Nat
    BY <1>1, <1>3, <1>5, CandidateLinked
  <2>2. r \in Nat /\ c \in Nat /\ down[r] \in Nat /\ c < n /\ c < r
    BY <2>1, <1>3, <1>5, <1>7, <1>8
  <2>3. CASE r < down[r]
    <3>1. n <= r \/ down[r] <= n
      BY <2>1, <2>3, <1>7 DEF Follows
    <3> QED  BY <3>1, <2>1, <2>2, <2>3
  <2>4. CASE ~(r < down[r])
    <3>1. down[r] <= n /\ n <= r /\ down[r] <= c
      BY <2>1, <2>4, <1>7, <1>8 DEF Follows
    <3>2. down[r] = c
      <4>1. down[r] \in 1 .. F => col[down[r]] = down[r]
        BY DEF Running, Translated
      <4>2. down[r] \in 1 .. F
        BY <3>1, <2>2, <1>3, <1>5, <1>7
      <4> QED  BY <4>1, <4>2, <1>7
    <3> QED  BY <3>1, <3>2, <2>1, <2>2
  <2> QED  BY <2>3, <2>4
<1>10. ASSUME NEW d \in 1 .. Len(cols), NEW n \in Candidates(d) PROVE Untried(d, n)' <=> Untried(d, n)
  <2>1. CASE d = D
    <3>1. r # c
      BY <1>3, <1>5
    <3>2. Untried(d, n) <=> n > r
      BY <2>1, <3>1, <1>1, <1>2, <1>3 DEF Untried
    <3>3. Untried(d, n)' <=> down[r] # c /\ n >= down[r]
      BY <2>1, <1>1, <1>2, <1>3, <1>4 DEF Untried
    <3>4. n \in Candidates(D)
      BY <2>1, <1>10
    <3> QED  BY <3>2, <3>3, <3>4, <1>9
  <2>2. CASE d # D
    <3>1. d <= Len(rows) /\ d <= Len(stack) /\ d <= Len(rows') /\ rows'[d] = rows[d] /\ d \in Nat
      BY <2>2, <1>3, <1>4
    <3> QED  BY <3>1, <1>2, <1>3, <1>4 DEF Untried
  <2> QED  BY <2>1, <2>2
<1>11. Guessed' = Guessed /\ Outcome' = Outcome
  BY <1>2 DEF Guessed, Outcome
<1> QED  BY <1>2, <1>4, <1>10, <1>11, SearchStays DEF Running, Goes

\* An option that failed is no guess any more from the time that its call returned.
LEMMA BacktrackSearch ==
  ASSUME NEW F, NEW cov, NEW gone, NEW Q, Running(F, cov, gone, Q), Goes(F), Backtrack
  PROVE  UNCHANGED ExactCover!searchVars
<1> DEFINE D == Len(cols)
<1>1. /\ pc = "failed" /\ pc' = "uncover" /\ stack' = Front(stack)
      /\ UNCHANGED <<cols, rows, result, last>>
  BY DEF Backtrack, answer, nodes, names
<1>2. /\ Len(rows) = D /\ Len(stack) = D /\ D \in Nat \ {0} /\ stack \in Seq(1 .. last)
      /\ F \in Nat /\ last \in Nat
  BY <1>1, CallsUnderWay
<1>3. Len(stack') = D - 1
  <2>1. stack # <<>>
    BY <1>2
  <2> QED  BY <2>1, <1>1, <1>2, Ends
<1>4. rows[D] # cols[D]
  <2>1. ~AtHeader
    BY <1>1 DEF AtHeader
  <2>2. cols[D] \in 2 .. F /\ rows[D] \in F + 1 .. last
    BY <2>1, <1>2 DEF Running, Solving, Levels, InFrames
  <2> QED  BY <2>2, <1>2
<1>5. ASSUME NEW d \in 1 .. Len(cols), NEW n \in Candidates(d) PROVE Untried(d, n)' <=> Untried(d, n)
  <2>1. CASE d = D
    BY <2>1, <1>1, <1>2, <1>3, <1>4 DEF Untried
  <2>2. CASE d # D
    <3>1. d <= Len(rows) /\ d <= Len(stack) /\ d <= Len(stack') /\ d \in Nat
      BY <2>2, <1>2, <1>3
    <3> QED  BY <3>1, <1>1, <1>2, <1>3 DEF Untried
  <2> QED  BY <2>1, <2>2
<1>6. Guessed' = Guessed /\ Outcome' = Outcome
  BY <1>1 DEF Guessed, Outcome
<1> QED  BY <1>1, <1>5, <1>6, SearchStays DEF Running, Goes

\* Columns and the items of options correspond.
LEMMA ItemsMet ==
  ASSUME NEW F, Translated(F), NEW n \in F + 1 .. last
  PROVE  /\ \A m \in OptionOf(n) : m \in F + 1 .. last /\ col[m] \in 2 .. F /\ name[col[m]] = name[m]
         /\ \A c \in 2 .. F : name[c] \in NamesAt(n) <=> \E m \in OptionOf(n) : col[m] = c
         /\ \A x \in NamesAt(n) : x \in ItemsOf[puzzle] /\ \E m \in OptionOf(n) : x = name[col[m]]
<1>1. \A m \in OptionOf(n) : m \in F + 1 .. last /\ col[m] \in 2 .. F /\ name[col[m]] = name[m]
  BY DEF Translated
<1>2. \A x : x \in NamesAt(n) <=> \E m \in OptionOf(n) : x = name[m]
  BY DEF NamesAt
<1>3. \A c \in 2 .. F : name[c] \in NamesAt(n) <=> \E m \in OptionOf(n) : col[m] = c
  <2> SUFFICES ASSUME NEW c \in 2 .. F
               PROVE  name[c] \in NamesAt(n) <=> \E m \in OptionOf(n) : col[m] = c
    OBVIOUS
  <2>1. \A m \in OptionOf(n) : name[c] = name[m] <=> col[m] = c
    <3> SUFFICES ASSUME NEW m \in OptionOf(n) PROVE name[c] = name[m] <=> col[m] = c
      OBVIOUS
    <3>1. col[m] \in 2 .. F /\ name[col[m]] = name[m]
      BY <1>1
    <3>2. name[c] = name[col[m]] => c = col[m]
      BY <3>1 DEF Translated
    <3> QED  BY <3>1, <3>2
  <2> QED  BY <2>1, <1>2
<1>4. \A x \in NamesAt(n) : x \in ItemsOf[puzzle] /\ \E m \in OptionOf(n) : x = name[col[m]]
  <2> SUFFICES ASSUME NEW x \in NamesAt(n)
               PROVE  x \in ItemsOf[puzzle] /\ \E m \in OptionOf(n) : x = name[col[m]]
    OBVIOUS
  <2>1. PICK m \in OptionOf(n) : x = name[m]
    BY <1>2
  <2>2. col[m] \in 2 .. F /\ x = name[col[m]]
    BY <2>1, <1>1
  <2>3. x \in ItemsOf[puzzle]
    BY <2>2 DEF Translated
  <2> QED  BY <2>2, <2>3
<1> QED  BY <1>1, <1>3, <1>4

\* A column chosen is an item that is left, and its candidates are the options for it that fit.
LEMMA TakeMinChooses ==
  ASSUME NEW F, NEW cov, NEW gone, NEW Q, Running(F, cov, gone, Q), Goes(F), TakeMin, result = "none"
  PROVE  ExactCover!Choose
<1>0. PICK D : D = Len(cols)
  OBVIOUS
<1>1. /\ pc = "min" /\ cols' = Append(cols, i) /\ pc' = "cover"
      /\ UNCHANGED <<rows, stack, result, last, col, name, right, puzzle>>
  BY DEF TakeMin, answer, nodes, names, header
<1>2. /\ Len(rows) = D /\ Len(stack) = D /\ D \in Nat /\ cols \in Seq(1 .. last)
      /\ rows \in Seq(1 .. last) /\ F \in Nat /\ last \in Nat /\ F \in 1 .. last
      /\ i \in 2 .. F /\ cov[i] = 0 /\ i \in 1 .. last /\ Q = 3 /\ ~AtHeader
  <2>1. i \in 2 .. F /\ cov[i] = 0 /\ Q = 3 /\ ~AtHeader
    BY <1>1 DEF Running, Solving, Scanning, Levels, Position, AtHeader
  <2> QED  BY <2>1, <1>0, <1>1, CallsUnderWay
<1>3. /\ Len(cols') = D + 1 /\ cols'[D + 1] = i /\ \A d \in 1 .. D : cols'[d] = cols[d]
      /\ DOMAIN cols' = 1 .. D + 1
  BY <1>0, <1>1, <1>2
<1>4. /\ Len(Guessed) = D /\ \A d \in 1 .. D : Guessed[d] = rows[d] /\ rows[d] \in F + 1 .. last
      /\ Len(ToTry) = D /\ Len(Guesses) = D /\ \A d \in 1 .. D : Guesses[d] = NamesAt(rows[d])
  <2>1. Len(Guessed) = D /\ \A d \in 1 .. D : Guessed[d] = rows[d] /\ rows[d] \in F + 1 .. last
    BY <1>0, <1>1, GuessedAre DEF Running
  <2> QED  BY <2>1, <1>0, SearchIs
<1>5. ExactCover!AtChoice
  BY <1>1, <1>4, SearchGoesOn DEF ExactCover!AtChoice
<1>6. UNCHANGED <<Guesses, Outcome>>
  <2>1. Guessed' = Guessed /\ \A r : NamesAt(r)' = NamesAt(r)
    BY <1>1 DEF Guessed, NamesAt, OptionOf
  <2> QED  BY <2>1, <1>1 DEF Guesses, Outcome
<1>7. UNCHANGED ExactCover!problem
  BY <1>1 DEF ExactCover!problem
<1>8. ASSUME NEW n \in F + 1 .. last
      PROVE  (\A e \in 1 .. D : \A m \in OptionOf(n), q \in OptionOf(rows[e]) : col[m] # col[q])
             <=> NamesAt(n) \subseteq ExactCover!Left(D)
  <2>1. \A e \in 1 .. D : rows[e] \in F + 1 .. last
    BY <1>4
  <2>2. Translated(F)
    BY DEF Running
  <2>3. ASSUME NEW e \in 1 .. D
        PROVE  (\A m \in OptionOf(n), q \in OptionOf(rows[e]) : col[m] # col[q])
               <=> \A x \in NamesAt(n) : x \notin NamesAt(rows[e])
    <3>1. PICK r : r = rows[e]
      OBVIOUS
    <3>2. r \in F + 1 .. last
      BY <2>1, <3>1
    <3>3. /\ \A m \in OptionOf(n) : col[m] \in 2 .. F
          /\ \A c \in 2 .. F : name[c] \in NamesAt(n) <=> \E m \in OptionOf(n) : col[m] = c
          /\ \A x \in NamesAt(n) : \E m \in OptionOf(n) : x = name[col[m]]
      BY <2>2, ItemsMet
    <3>4. \A c \in 2 .. F : name[c] \in NamesAt(r) <=> \E q \in OptionOf(r) : col[q] = c
      BY <2>2, <3>2, ItemsMet
    <3> QED  BY <3>1, <3>3, <3>4
  <2>4. \A x \in NamesAt(n) : x \in ItemsOf[puzzle]
    BY <2>2, ItemsMet
  <2>5. NamesAt(n) \subseteq ExactCover!Left(D) <=>
           \A e \in 1 .. D : \A x \in NamesAt(n) : x \notin NamesAt(rows[e])
    BY <2>4, <1>4 DEF ExactCover!Left
  <2> QED  BY <2>3, <2>5
<1>9. name[i] \in ExactCover!Left(D)
  <2>1. name[i] \in ItemsOf[puzzle]
    BY <1>2 DEF Running, Translated
  <2>2. ASSUME NEW e \in 1 .. D PROVE name[i] \notin NamesAt(rows[e])
    <3>1. PICK r : r = rows[e]
      OBVIOUS
    <3>2. r \in F + 1 .. last
      BY <1>4, <3>1
    <3>3. Placed(Q, e)
      BY <1>0, <1>2 DEF Placed
    <3>4. \A m \in OptionOf(rows[e]) : cov[col[m]] # 0
      <4> SUFFICES ASSUME NEW m \in OptionOf(rows[e]) PROVE cov[col[m]] # 0
        OBVIOUS
      <4>1. PICK q \in 0 .. 3 : SlotCol(e, q) = col[m] /\ cov[col[m]] = At(e, q)
        BY <3>3, OptionSlots DEF Running
      <4> QED  BY <4>1, <1>2 DEF At
    <3>5. name[i] \in NamesAt(r) <=> \E m \in OptionOf(r) : col[m] = i
      <4>1. Translated(F)
        BY DEF Running
      <4>2. \A c \in 2 .. F : name[c] \in NamesAt(r) <=> \E m \in OptionOf(r) : col[m] = c
        BY <4>1, <3>2, ItemsMet
      <4> QED  BY <4>2, <1>2
    <3> QED  BY <3>1, <3>4, <3>5, <1>2
  <2> QED  BY <2>1, <2>2, <1>4 DEF ExactCover!Left
<1>10. ASSUME NEW n
       PROVE  n \in Candidates(D + 1)' <=>
                 n \in F + 1 .. last /\ col[n] = i /\ NamesAt(n) \subseteq ExactCover!Left(D)
  <2>1. n \in Candidates(D + 1)' <=>
           /\ n \in 1 .. last /\ n # i /\ col[n] = i
           /\ \A e \in 1 .. D : \A m \in OptionOf(n), q \in OptionOf(rows[e]) : col[m] # col[q]
    <3>1. /\ \A m : OptionOf(m)' = OptionOf(m)
      BY <1>1 DEF OptionOf
    <3>2. \A m \in 1 .. last : m \in Nodes
      <4>1. last \in Nodes
        BY LinkTypes DEF MemoryOK, Running
      <4> QED  BY <4>1, Sizes, <1>2 DEF Nodes
    <3>3. (D + 1) - 1 = D
      BY <1>2
    <3>4. \A e : OptionOf(rows[e])' = OptionOf(rows[e])
      BY <1>1 DEF OptionOf
    <3>5. (\A e \in 1 .. (D + 1) - 1 : \A m \in OptionOf(n)', q \in OptionOf(rows[e])' : col'[m] # col'[q])
          <=> \A e \in 1 .. D : \A m \in OptionOf(n), q \in OptionOf(rows[e]) : col[m] # col[q]
      BY <3>1, <3>3, <3>4, <1>1
    <3>6. n \in Candidates(D + 1)' <=>
             /\ n \in Nodes /\ n \in 1 .. last /\ n # i /\ col[n] = i
             /\ \A e \in 1 .. (D + 1) - 1 : \A m \in OptionOf(n)', q \in OptionOf(rows[e])' :
                   col'[m] # col'[q]
      BY <1>1, <1>3 DEF Candidates
    <3> QED  BY <3>2, <3>5, <3>6
  <2>2. n \in F + 1 .. last => n \in 1 .. last /\ n # i
    BY <1>2
  <2>3. n \in 1 .. last /\ n # i /\ col[n] = i => n \in F + 1 .. last
    <3>1. n \in 1 .. F => col[n] = n
      BY DEF Running, Translated
    <3> QED  BY <3>1, <1>2
  <2> QED  BY <2>1, <2>2, <2>3, <1>8
<1>11. TryAt(D + 1)' = {o \in OptionsOf[puzzle] : name[i] \in o /\ o \subseteq ExactCover!Left(D)}
  <2>1. /\ \A n : NamesAt(n)' = NamesAt(n)
        /\ \A n : Untried(D + 1, n)'
    <3>1. \A n : NamesAt(n)' = NamesAt(n)
      BY <1>1 DEF NamesAt, OptionOf
    <3>2. \A n : Untried(D + 1, n)'
      BY <1>1, <1>2 DEF Untried
    <3> QED  BY <3>1, <3>2
  <2>2. TryAt(D + 1)' = {NamesAt(n) : n \in Candidates(D + 1)'}
    BY <2>1 DEF TryAt
  <2>3. ASSUME NEW n \in Candidates(D + 1)'
        PROVE  NamesAt(n) \in {o \in OptionsOf[puzzle] : name[i] \in o /\ o \subseteq ExactCover!Left(D)}
    <3>1. n \in F + 1 .. last /\ col[n] = i /\ NamesAt(n) \subseteq ExactCover!Left(D)
      BY <1>10
    <3>2. NamesAt(n) \in OptionsOf[puzzle] /\ n \in OptionOf(n)
      BY <3>1 DEF Running, Translated
    <3>3. name[i] \in NamesAt(n)
      BY <3>1, <3>2, <1>2, ItemsMet DEF Running
    <3> QED  BY <3>1, <3>2, <3>3
  <2>4. ASSUME NEW o \in OptionsOf[puzzle], name[i] \in o, o \subseteq ExactCover!Left(D)
        PROVE  \E n \in Candidates(D + 1)' : o = NamesAt(n)
    <3>1. PICK n \in F + 1 .. last : NamesAt(n) = o /\ name[n] = name[i]
      BY <2>4 DEF Running, Translated
    <3>2. col[n] = i
      <4>1. col[n] \in 2 .. F /\ name[col[n]] = name[i]
        BY <3>1 DEF Running, Translated
      <4> QED  BY <4>1, <1>2 DEF Running, Translated
    <3> QED  BY <3>1, <3>2, <2>4, <1>10
  <2> QED  BY <2>2, <2>3, <2>4
<1>12. ToTry' = Append(ToTry, TryAt(D + 1)')
  <2>1. ToTry = [d \in 1 .. D |-> TryAt(d)]
    BY <1>0, SearchIs
  <2>2. ToTry' = [d \in 1 .. D + 1 |-> TryAt(d)']
    BY <1>3 DEF ToTry, TryAt
  <2>3. ASSUME NEW d \in 1 .. D PROVE TryAt(d)' = TryAt(d)
    <3>1. \A n \in Candidates(d) : Untried(d, n)' <=> Untried(d, n)
      BY <1>1, <1>2, <1>3 DEF Untried
    <3>2. cols'[d] = cols[d] /\ \A e \in 1 .. d - 1 : rows'[e] = rows[e]
      BY <1>1, <1>3
    <3> QED  BY <3>1, <3>2, <1>0, TryStays DEF Running, Goes
  <2>4. /\ ToTry = [d \in 1 .. D |-> ToTry[d]] /\ ToTry' = [d \in 1 .. D + 1 |-> ToTry'[d]]
        /\ \A d \in 1 .. D : ToTry'[d] = ToTry[d]
        /\ ToTry'[D + 1] = TryAt(D + 1)'
    <3>1. \A d \in 1 .. D : d \in 1 .. D + 1
      BY <1>2
    <3>2. D + 1 \in 1 .. D + 1
      BY <1>2
    <3>3. ToTry'[D + 1] = TryAt(D + 1)' /\ ToTry' = [d \in 1 .. D + 1 |-> ToTry'[d]]
      <4>1. \A d \in 1 .. D + 1 : ToTry'[d] = TryAt(d)'
        BY <2>2
      <4>2. ToTry' = [d \in 1 .. D + 1 |-> ToTry'[d]]
        BY <2>2
      <4> QED  BY <4>1, <4>2, <3>2
    <3>4. ASSUME NEW d \in 1 .. D PROVE ToTry'[d] = ToTry[d]
      <4>1. ToTry'[d] = TryAt(d)'
        BY <2>2, <3>1
      <4>2. ToTry[d] = TryAt(d)
        BY <2>1
      <4> QED  BY <4>1, <4>2, <2>3
    <3>5. ToTry = [d \in 1 .. D |-> ToTry[d]]
      BY <2>1
    <3> QED  BY <3>3, <3>4, <3>5
  <2> QED  BY <2>4, <1>2, Appended
<1> QED  BY <1>4, <1>5, <1>6, <1>7, <1>9, <1>11, <1>12 DEF ExactCover!Choose

\* An option that is pushed is one of those left, and leaves the others.
LEMMA TryRowGuesses ==
  ASSUME NEW F, NEW cov, NEW gone, NEW Q, Running(F, cov, gone, Q), Goes(F), TryRow, result = "none"
  PROVE  ExactCover!Guess
<1>0. PICK D : D = Len(cols)
  OBVIOUS
<1>1. PICK c, r : c = cols[D] /\ r = rows[D]
  OBVIOUS
<1>2. /\ pc = "row" /\ Last(rows) # Last(cols) /\ pc' = "cover" /\ stack' = Append(stack, Last(rows))
      /\ UNCHANGED <<cols, rows, result, last, col, name, right, puzzle>>
  BY DEF TryRow, answer, nodes, names, header
<1>3. /\ Len(rows) = D /\ Len(stack) = D - 1 /\ D \in Nat \ {0} /\ stack \in Seq(1 .. last)
      /\ rows \in Seq(1 .. last) /\ F \in Nat /\ last \in Nat /\ F \in 1 .. last /\ D \in 1 .. D
  BY <1>0, <1>2, CallsUnderWay
<1>4. Last(rows) = r /\ Last(cols) = c /\ r # c
  BY <1>0, <1>1, <1>2, <1>3 DEF Last
<1>5. stack' = Append(stack, r) /\ Len(stack') = D
  <2>1. stack' = Append(stack, r)
    BY <1>2, <1>4
  <2>2. r \in 1 .. last
    BY <1>1, <1>3
  <2> QED  BY <2>1, <2>2, <1>3
<1>6. r \in F + 1 .. last /\ col[r] = c /\ First(cov, r) /\ Slot(Q, D, 0)
  <2>1. ~AtHeader
    BY <1>0, <1>1, <1>2, <1>3, <1>4 DEF AtHeader
  <2>3. Q = 0
    BY <1>2 DEF Running, Solving, Levels, Position
  <2>2. r \in F + 1 .. last /\ col[r] = c /\ First(cov, r)
    BY <2>1, <1>0, <1>1, <1>3 DEF Running, Solving, Levels, InFrames
  <2> QED  BY <2>2, <2>3, <1>0, <1>3 DEF Slot
<1>7. r \in Candidates(D)
  <2>1. D \in 1 .. Len(cols)
    BY <1>0, <1>3
  <2>2. \A n : n \in Candidates(D) <=> n \in F + 1 .. last /\ col[n] = cols[D] /\ First(cov, n)
    BY <2>1, <1>6, CandidateIs
  <2> QED  BY <2>2, <1>1, <1>6
<1>8. /\ Len(Guessed) = D - 1 /\ Guessed = stack
      /\ Len(ToTry) = D /\ Len(Guesses) = D - 1
      /\ ToTry = [d \in 1 .. D |-> TryAt(d)]
      /\ Guesses = [d \in 1 .. D - 1 |-> NamesAt(rows[d])]
      /\ \A d \in 1 .. D - 1 : stack[d] = rows[d]
  <2>1. /\ Len(Guessed) = D - 1 /\ \A d \in 1 .. Len(Guessed) : Guessed[d] = rows[d]
    BY <1>0, <1>2, GuessedAre DEF Running
  <2>2. Guessed = stack
    BY <1>2 DEF Guessed
  <2> QED  BY <2>1, <2>2, <1>0, SearchIs
<1>9. ExactCover!AtGuess
  <2>1. Outcome = "searching"
    BY <1>2, SearchGoesOn
  <2> QED  BY <2>1, <1>3, <1>8 DEF ExactCover!AtGuess
<1>10. Guesses' = Append(Guesses, NamesAt(r))
  <2>1. /\ Guessed' = stack' /\ \A x : NamesAt(x)' = NamesAt(x)
    BY <1>2 DEF Guessed, NamesAt, OptionOf
  <2>2. /\ DOMAIN stack' = 1 .. D /\ stack'[D] = r
        /\ \A d \in 1 .. D - 1 : stack'[d] = rows[d]
    BY <1>3, <1>5, <1>8
  <2>3. Guesses' = [d \in 1 .. D |-> NamesAt(stack'[d])]
    BY <2>1, <2>2 DEF Guesses
  <2>4. PICK m \in Nat : m = D - 1 /\ m + 1 = D
    BY <1>3
  <2>5. /\ Guesses = [d \in 1 .. m |-> Guesses[d]] /\ Guesses' = [d \in 1 .. m + 1 |-> Guesses'[d]]
        /\ Guesses'[m + 1] = NamesAt(r)
        /\ \A d \in 1 .. m : Guesses'[d] = Guesses[d]
    <3>1. \A d \in 1 .. m : d \in 1 .. D
      BY <2>4
    <3> QED  BY <2>2, <2>3, <2>4, <3>1, <1>3, <1>8
  <2> QED  BY <2>5, Appended
<1>11. NamesAt(r) \in TryAt(D)
  <2>1. Untried(D, r)
    BY <1>1, <1>2, <1>3, <1>4 DEF Untried
  <2> QED  BY <2>1, <1>7 DEF TryAt
<1>12. TryAt(D)' = TryAt(D) \ {NamesAt(r)}
  <2>1. Candidates(D)' = Candidates(D)
    BY <1>0, <1>2, <1>3, CandidatesStay DEF Running, Goes
  <2>2. \A n : NamesAt(n)' = NamesAt(n)
    BY <1>2 DEF NamesAt, OptionOf
  <2>3. /\ \A n : Untried(D, n) <=> n >= r
        /\ \A n : Untried(D, n)' <=> n > r
    BY <1>1, <1>2, <1>3, <1>4, <1>5 DEF Untried
  <2>4. \A n \in Candidates(D) : n \in F + 1 .. last /\ col[n] = c
    BY <1>0, <1>1, <1>3, CandidateNode DEF Running
  <2>5. \A n \in Candidates(D) : NamesAt(n) = NamesAt(r) <=> n = r
    BY <2>4, <1>6 DEF Running, Translated
  <2>6. \A n \in Candidates(D) : n > r <=> n >= r /\ n # r
    BY <2>4, <1>3, <1>6
  <2>7. TryAt(D)' = {NamesAt(n) : n \in {n \in Candidates(D) : n > r}}
    BY <2>1, <2>2, <2>3 DEF TryAt
  <2>8. TryAt(D) = {NamesAt(n) : n \in {n \in Candidates(D) : n >= r}}
    BY <2>3 DEF TryAt
  <2> QED  BY <2>5, <2>6, <2>7, <2>8
<1>13. ToTry' = [ToTry EXCEPT ![D] = @ \ {NamesAt(r)}]
  <2>1. ToTry' = [d \in 1 .. D |-> TryAt(d)']
    <3>1. DOMAIN cols' = 1 .. D
      BY <1>0, <1>2, CallsUnderWay
    <3> QED  BY <3>1 DEF ToTry, TryAt
  <2>2. ASSUME NEW d \in 1 .. D, d # D PROVE TryAt(d)' = TryAt(d)
    <3>1. d <= Len(rows) /\ d <= Len(stack) /\ d <= Len(stack') /\ d \in Nat
      BY <2>2, <1>3, <1>5
    <3>2. \A n \in Candidates(d) : Untried(d, n)' <=> Untried(d, n)
      BY <3>1, <1>2, <1>3, <1>5 DEF Untried
    <3>3. cols'[d] = cols[d] /\ \A e \in 1 .. d - 1 : rows'[e] = rows[e]
      BY <1>2
    <3> QED  BY <3>2, <3>3, <1>0, TryStays DEF Running, Goes
  <2>3. \A d \in 1 .. D : ToTry'[d] = [ToTry EXCEPT ![D] = @ \ {NamesAt(r)}][d]
    <3> SUFFICES ASSUME NEW d \in 1 .. D
                 PROVE  ToTry'[d] = [ToTry EXCEPT ![D] = @ \ {NamesAt(r)}][d]
      OBVIOUS
    <3>1. ToTry'[d] = TryAt(d)' /\ ToTry[d] = TryAt(d) /\ d \in DOMAIN ToTry
      BY <2>1, <1>8
    <3>2. CASE d = D
      <4>1. [ToTry EXCEPT ![D] = @ \ {NamesAt(r)}][d] = ToTry[d] \ {NamesAt(r)}
        BY <3>1, <3>2
      <4>2. TryAt(d)' = TryAt(D)' /\ TryAt(d) = TryAt(D)
        BY <3>2
      <4> QED  BY <3>1, <4>1, <4>2, <1>12
    <3>3. CASE d # D
      <4>1. [ToTry EXCEPT ![D] = @ \ {NamesAt(r)}][d] = ToTry[d]
        BY <3>1, <3>3
      <4> QED  BY <3>1, <3>3, <4>1, <2>2
    <3> QED  BY <3>2, <3>3
  <2>4. /\ ToTry' = [d \in 1 .. D |-> ToTry'[d]]
        /\ [ToTry EXCEPT ![D] = @ \ {NamesAt(r)}] =
              [d \in 1 .. D |-> [ToTry EXCEPT ![D] = @ \ {NamesAt(r)}][d]]
    <3>1. DOMAIN ToTry = 1 .. D
      BY <1>8
    <3> QED  BY <2>1, <3>1
  <2> QED  BY <2>3, <2>4
<1>14. UNCHANGED <<Outcome, ExactCover!problem>>
  BY <1>2 DEF Outcome, ExactCover!problem
<1>15. ToTry[D] = TryAt(D)
  BY <1>3, <1>8
<1> QED  BY <1>8, <1>9, <1>10, <1>11, <1>13, <1>14, <1>15 DEF ExactCover!Guess, ExactCover!problem

\* A call that has tried every option of its column retreats.
LEMMA UncoveredRetreats ==
  ASSUME NEW F, NEW cov, NEW gone, NEW Q, Running(F, cov, gone, Q), Goes(F), Uncovered, k = 0,
         result = "none"
  PROVE  ExactCover!Retreat
<1>0. PICK D, m : D = Len(cols) /\ m = D - 1
  OBVIOUS
<1>1. /\ pc = "uncoverRows" /\ cols' = Front(cols) /\ rows' = Front(rows)
      /\ pc' = (IF D = 1 THEN "done" ELSE "failed")
      /\ UNCHANGED <<stack, result, last, col, name, puzzle>>
  BY <1>0 DEF Uncovered, answer, names
<1>2. /\ Len(rows) = D /\ Len(stack) = m /\ D \in Nat \ {0} /\ m \in Nat /\ D = m + 1
      /\ cols \in Seq(1 .. last) /\ rows \in Seq(1 .. last)
      /\ F \in Nat /\ last \in Nat /\ F \in 1 .. last /\ D \in 1 .. D
  BY <1>0, <1>1, CallsUnderWay
<1>3. rows[D] = cols[D] /\ cols[D] \in 2 .. F
  <2>1. AtHeader
    BY <1>1 DEF AtHeader
  <2> QED  BY <2>1, <1>0, <1>2 DEF Running, Solving, Levels, InFrames
<1>4. /\ Len(cols') = m /\ DOMAIN cols' = 1 .. m /\ \A d \in 1 .. m : cols'[d] = cols[d]
      /\ Len(rows') = m /\ \A d \in 1 .. m : rows'[d] = rows[d]
  <2>1. cols # <<>> /\ rows # <<>>
    BY <1>0, <1>2
  <2>2. /\ Front(cols) \in Seq(1 .. last) /\ Len(Front(cols)) = Len(cols) - 1
        /\ \A d \in 1 .. Len(cols) - 1 : Front(cols)[d] = cols[d]
    BY <2>1, <1>2, Ends
  <2>3. /\ Front(rows) \in Seq(1 .. last) /\ Len(Front(rows)) = Len(rows) - 1
        /\ \A d \in 1 .. Len(rows) - 1 : Front(rows)[d] = rows[d]
    BY <2>1, <1>2, Ends
  <2>4. Len(cols) - 1 = m /\ Len(rows) - 1 = m
    BY <1>0, <1>2
  <2>5. /\ Len(Front(cols)) = m /\ DOMAIN Front(cols) = 1 .. m
        /\ \A d \in 1 .. m : Front(cols)[d] = cols[d]
    BY <2>2, <2>4
  <2>6. Len(Front(rows)) = m /\ \A d \in 1 .. m : Front(rows)[d] = rows[d]
    BY <2>3, <2>4
  <2> QED  BY <2>5, <2>6, <1>1
<1>5. /\ Len(Guessed) = m /\ Guessed = stack /\ DOMAIN stack = 1 .. m
      /\ Len(ToTry) = D /\ Len(Guesses) = m
      /\ ToTry = [d \in 1 .. D |-> TryAt(d)]
      /\ Guesses = [d \in 1 .. m |-> NamesAt(rows[d])]
      /\ \A d \in 1 .. m : stack[d] = rows[d] /\ rows[d] \in F + 1 .. last
  <2>1. /\ Len(Guessed) = m /\ DOMAIN Guessed = 1 .. m
        /\ \A d \in 1 .. m : Guessed[d] = rows[d] /\ rows[d] \in F + 1 .. last
    BY <1>0, <1>1, GuessedAre DEF Running
  <2>2. Guessed = stack
    BY <1>1 DEF Guessed
  <2> QED  BY <2>1, <2>2, <1>0, SearchIs
<1>6. ExactCover!AtGuess
  <2>1. Outcome = "searching"
    BY <1>1, SearchGoesOn
  <2> QED  BY <2>1, <1>2, <1>5 DEF ExactCover!AtGuess
<1>7. ToTry[Len(ToTry)] = {}
  <2>1. \A n : ~Untried(D, n)
    BY <1>2, <1>3 DEF Untried
  <2>2. TryAt(D) = {}
    BY <2>1 DEF TryAt
  <2> QED  BY <2>2, <1>2, <1>5
<1>8. ToTry' = ExactCover!Shorter(ToTry)
  <2>1. ToTry' = [d \in 1 .. m |-> TryAt(d)']
    BY <1>4 DEF ToTry, TryAt
  <2>2. ASSUME NEW d \in 1 .. m PROVE TryAt(d)' = TryAt(d) /\ d \in 1 .. D
    <3>1. d \in 1 .. Len(cols) /\ d <= Len(rows) /\ d <= Len(stack) /\ d <= Len(rows') /\ d \in Nat
      BY <1>0, <1>2, <1>4
    <3>2. \A n \in Candidates(d) : Untried(d, n)' <=> Untried(d, n)
      BY <3>1, <1>1, <1>2, <1>4 DEF Untried
    <3>3. \A e \in 1 .. d - 1 : e \in 1 .. m
      BY <1>2
    <3>4. cols'[d] = cols[d] /\ \A e \in 1 .. d - 1 : rows'[e] = rows[e]
      BY <3>3, <1>4
    <3> QED  BY <3>1, <3>2, <3>4, <1>0, <1>2, TryStays DEF Running, Goes
  <2>3. /\ \A d \in 1 .. m : ToTry'[d] = ToTry[d]
        /\ ToTry' = [d \in 1 .. m |-> ToTry'[d]]
        /\ ToTry = [d \in 1 .. m + 1 |-> ToTry[d]]
    <3>1. \A d \in 1 .. m : ToTry'[d] = TryAt(d)' /\ ToTry[d] = TryAt(d)
      BY <2>1, <2>2, <1>5
    <3>2. ToTry' = [d \in 1 .. m |-> ToTry'[d]]
      BY <2>1
    <3>3. ToTry = [d \in 1 .. m + 1 |-> ToTry[d]]
      BY <1>2, <1>5
    <3> QED  BY <3>1, <3>2, <3>3, <2>2
  <2>4. m \in Nat
    BY <1>2
  <2> QED  BY <2>3, <2>4, Shortened
<1>9. UNCHANGED ExactCover!problem
  BY <1>1 DEF ExactCover!problem
<1>10. CASE D = 1
  <2>1. m = 0 /\ pc' = "done" /\ stack' = stack /\ result' = "none"
    BY <1>0, <1>1, <1>10
  <2>2. last > 1
    BY <1>2, <1>3
  <2>3. Outcome' = "none"
    BY <2>1, <2>2, <1>1 DEF Outcome
  <2>4. stack = <<>>
    BY <2>1, <1>2, CallsUnderWay
  <2>5. Guessed' = <<>> /\ Guessed = <<>>
    BY <2>1, <2>4, <1>5 DEF Guessed
  <2>6. Guesses = <<>> /\ Guesses' = <<>>
    BY <2>5 DEF Guesses
  <2> QED  BY <2>3, <2>6, <1>6, <1>7, <1>8, <1>9 DEF ExactCover!Retreat
<1>11. CASE D # 1
  <2>1. PICK h \in Nat : m = h + 1
    <3>1. m - 1 \in Nat /\ m = (m - 1) + 1
      BY <1>2, <1>11
    <3> QED  BY <3>1
  <2>2. pc' = "failed" /\ stack' = stack /\ stack \in Seq(1 .. last)
    BY <1>1, <1>11, CallsUnderWay
  <2>3. Guessed' = Front(stack)
    BY <2>2 DEF Guessed
  <2>4. /\ Front(stack) \in Seq(1 .. last) /\ Len(Front(stack)) = Len(stack) - 1
        /\ \A d \in 1 .. Len(stack) - 1 : Front(stack)[d] = stack[d]
    <3>1. stack # <<>>
      BY <2>1, <1>2
    <3> QED  BY <3>1, <2>2, Ends
  <2>5. /\ DOMAIN Guessed' = 1 .. h
        /\ \A d \in 1 .. h : Guessed'[d] = rows[d] /\ rows[d] \in F + 1 .. last /\ d \in 1 .. m
    <3>1. Len(stack) - 1 = h /\ \A d \in 1 .. h : d \in 1 .. m
      BY <2>1, <1>2
    <3> QED  BY <3>1, <2>3, <2>4, <1>5
  <2>6. \A d \in 1 .. h : NamesAt(Guessed[d])' = NamesAt(rows[d])
    <3> SUFFICES ASSUME NEW d \in 1 .. h PROVE NamesAt(Guessed[d])' = NamesAt(rows[d])
      OBVIOUS
    <3>1. PICK r : r = rows[d]
      OBVIOUS
    <3>2. r \in F + 1 .. last /\ Guessed'[d] = r
      BY <2>5, <3>1
    <3>3. NamesAt(r)' = NamesAt(r)
      BY <3>2, OptionsStay DEF Running, Goes
    <3> QED  BY <3>1, <3>2, <3>3 DEF NamesAt, OptionOf
  <2>7. Guesses' = [d \in 1 .. h |-> NamesAt(Guessed[d])']
    BY <2>5 DEF Guesses
  <2>8. /\ \A d \in 1 .. h : Guesses'[d] = Guesses[d]
        /\ Guesses' = [d \in 1 .. h |-> Guesses'[d]]
        /\ Guesses = [d \in 1 .. h + 1 |-> Guesses[d]]
    <3>1. \A d \in 1 .. h : Guesses'[d] = NamesAt(rows[d]) /\ Guesses[d] = NamesAt(rows[d])
      BY <2>5, <2>6, <2>7, <1>5
    <3>2. Guesses' = [d \in 1 .. h |-> Guesses'[d]]
      BY <2>7
    <3>3. Guesses = [d \in 1 .. h + 1 |-> Guesses[d]]
      BY <2>1, <1>5
    <3> QED  BY <3>1, <3>2, <3>3
  <2>9. Guesses' = ExactCover!Shorter(Guesses)
    BY <2>8, Shortened
  <2>10. Guesses # <<>> /\ Outcome' = Outcome
    <3>1. Guesses # <<>>
      BY <2>1, <1>5
    <3>2. Outcome' = Outcome
      BY <2>2, <1>1 DEF Outcome
    <3> QED  BY <3>1, <3>2
  <2> QED  BY <2>9, <2>10, <1>6, <1>7, <1>8, <1>9 DEF ExactCover!Retreat
<1> QED  BY <1>10, <1>11

\* With no column left in the list of root_ no item is left.
LEMMA NoColumnLeft ==
  ASSUME NEW F, NEW cov, NEW gone, NEW Q, Running(F, cov, gone, Q), pc = "solve", left[1] = 1,
         NEW c \in 2 .. F
  PROVE  \E d \in 1 .. Len(cols) : name[c] \in NamesAt(rows[d]) /\ rows[d] \in F + 1 .. last
<1>1. /\ Len(rows) = Len(cols) /\ Len(cols) \in Nat /\ F \in Nat /\ last \in Nat /\ F \in 1 .. last
      /\ c \in 1 .. F /\ 1 \in 1 .. F
  <2>1. /\ Len(rows) = Len(cols) /\ Len(cols) \in Nat /\ F \in Nat /\ last \in Nat /\ F \in 1 .. last
    BY CallsUnderWay
  <2> QED  BY <2>1
<1>2. /\ Lists(F, cov, gone) /\ cov[1] = 0 /\ Slots(F, cov, Q) /\ Q \in -1 .. 3
      /\ \A d \in 1 .. Len(rows) : rows[d] \in F + 1 .. last /\ col[rows[d]] = cols[d]
  <2>1. ~AtHeader
    BY DEF AtHeader
  <2> QED  BY <2>1 DEF Running, Solving, Levels, InFrames
<1>3. cov[c] # 0
  <2>1. Follows(InHeader(F, cov), 1, 1)
    <3>1. Follows(InHeader(F, cov), left[1], 1)
      BY <1>1, <1>2, HeaderRing
    <3> QED  BY <3>1
  <2>2. c \in InHeader(F, cov) => c <= 1
    BY <2>1 DEF Follows
  <2> QED  BY <2>2, <1>1 DEF InHeader
<1>4. PICK d, q \in Nat : Slot(Q, d, q) /\ SlotCol(d, q) = c
  BY <1>1, <1>2, <1>3, CovSlot
<1>5. PICK r : r = rows[d]
  OBVIOUS
<1>6. d \in 1 .. Len(cols) /\ q \in 0 .. 3 /\ r \in F + 1 .. last /\ col[r] = cols[d]
  BY <1>1, <1>2, <1>4, <1>5 DEF Slot
<1>7. col[RightBy(r, q)] = c /\ RightBy(r, q) \in OptionOf(r)
  BY <1>4, <1>5, <1>6 DEF SlotCol, RightBy, OptionOf
<1>8. name[c] \in NamesAt(r)
  <2>1. Translated(F)
    BY DEF Running
  <2>2. \A e \in 2 .. F : name[e] \in NamesAt(r) <=> \E m \in OptionOf(r) : col[m] = e
    BY <2>1, <1>6, ItemsMet
  <2> QED  BY <2>2, <1>7
<1> QED  BY <1>5, <1>6, <1>8

\* The search is solved when every column is covered.
LEMMA SolvedFinishes ==
  ASSUME NEW F, NEW cov, NEW gone, NEW Q, Running(F, cov, gone, Q), Solved, result = "none"
  PROVE  ExactCover!Finish
<1>1. /\ pc = "solve" /\ left[1] = 1 /\ pc' = "done" /\ result' = "solved"
      /\ UNCHANGED <<cols, rows, stack, last, col, name, right, puzzle>>
  BY DEF Solved, nodes, header, names, frames
<1>2. /\ Len(Guessed) = Len(cols) /\ Len(ToTry) = Len(cols) /\ Len(Guesses) = Len(cols)
      /\ Guesses = [d \in 1 .. Len(cols) |-> NamesAt(rows[d])]
  <2>1. Len(Guessed) = Len(cols)
    BY <1>1, GuessedAre DEF Running
  <2> QED  BY <2>1, SearchIs
<1>3. ExactCover!AtChoice
  BY <1>1, <1>2, SearchGoesOn DEF ExactCover!AtChoice
<1>4. ExactCover!Left(Len(Guesses)) = {}
  <2> SUFFICES ASSUME NEW x \in ItemsOf[puzzle]
               PROVE  \E d \in 1 .. Len(cols) : x \in Guesses[d]
    BY <1>2 DEF ExactCover!Left
  <2>1. PICK c \in 2 .. F : x = name[c]
    BY DEF Running, Translated
  <2>2. PICK d \in 1 .. Len(cols) : name[c] \in NamesAt(rows[d])
    BY <1>1, NoColumnLeft
  <2> QED  BY <2>1, <2>2, <1>2
<1>5. Guesses' = Guesses /\ ToTry' = ToTry
  <2>1. Guessed' = Guessed /\ \A n : NamesAt(n)' = NamesAt(n) /\ OptionOf(n)' = OptionOf(n)
    BY <1>1 DEF Guessed, NamesAt, OptionOf
  <2>2. \A d, n : Untried(d, n)' <=> Untried(d, n)
    BY <1>1 DEF Untried
  <2>3. \A d : Candidates(d)' = Candidates(d)
    <3>1. \A e : OptionOf(rows[e])' = OptionOf(rows[e])
      BY <1>1 DEF OptionOf
    <3> QED  BY <3>1, <2>1, <1>1 DEF Candidates
  <2>4. \A d : TryAt(d)' = TryAt(d)
    BY <2>1, <2>2, <2>3 DEF TryAt
  <2>5. Guesses' = Guesses
    BY <2>1 DEF Guesses
  <2>6. ToTry' = ToTry
    BY <2>4, <1>1 DEF ToTry, TryAt
  <2> QED  BY <2>5, <2>6
<1>6. Outcome' = "solved" /\ UNCHANGED ExactCover!problem
  BY <1>1 DEF Outcome, ExactCover!problem
<1> QED  BY <1>3, <1>4, <1>5, <1>6 DEF ExactCover!Finish, ExactCover!problem

-------------------------------------------------------------------------------
(* AnswerCorrect: an exact cover is a completed board and a completed      *)
(* board an exact cover.                                                   *)

\* Where a cell is in its row, column or box.
Place(t, c) == IF t = 1 THEN Col[c] ELSE IF t = 2 THEN Row[c]
               ELSE Box * (Row[c] % Box) + (Col[c] % Box)

\* A unit has a cell for each place.
LEMMA PlaceApart ==
  ASSUME NEW t \in 1 .. 3, NEW c \in Cells, NEW d \in Cells, Unit[t][c] = Unit[t][d]
  PROVE  Place(t, c) \in Units /\ (Place(t, c) = Place(t, d) => c = d)
<1> DEFINE b(x) == Box * (Row[x] \div Box) + Col[x] \div Box
           p(x) == Box * (Row[x] % Box) + (Col[x] % Box)
<1>1. ASSUME NEW x \in Cells
      PROVE  /\ Unit[1][x] = Row[x] /\ Unit[2][x] = Col[x] /\ Unit[3][x] = b(x)
             /\ Row[x] = x \div Side /\ Col[x] = x % Side
  BY DEF Unit, Row, Col
<1>2. /\ Place(1, c) = Col[c] /\ Place(2, c) = Row[c] /\ Place(3, c) = p(c)
      /\ Place(1, d) = Col[d] /\ Place(2, d) = Row[d] /\ Place(3, d) = p(d)
  BY DEF Place
<1>3. /\ Row[c] \in Units /\ Col[c] \in Units /\ p(c) \in Units
      /\ Row[c] = Row[d] /\ Col[c] = Col[d] => c = d
      /\ b(c) = b(d) /\ p(c) = p(d) => Row[c] = Row[d] /\ Col[c] = Col[d]
  <2>1. CASE Box = 1
    <3>1. Side = 1 /\ c = 0 /\ d = 0
      BY <2>1 DEF Side, Cells
    <3>2. Row[c] = 0 /\ Col[c] = 0
      BY <3>1, <1>1
    <3> QED  BY <3>1, <3>2, <2>1 DEF Units
  <2>2. CASE Box = 2
    <3>1. Side = 4 /\ c \in 0 .. 15 /\ d \in 0 .. 15
      BY <2>2 DEF Side, Cells
    <3>2. Row[c] = c \div 4 /\ Col[c] = c % 4 /\ Row[d] = d \div 4 /\ Col[d] = d % 4
      BY <3>1, <1>1
    <3>3. /\ Row[c] \in 0 .. 3 /\ Col[c] \in 0 .. 3 /\ Row[d] \in 0 .. 3 /\ Col[d] \in 0 .. 3
      BY <3>1, <3>2
    <3>4. Row[c] = Row[d] /\ Col[c] = Col[d] => c = d
      BY <3>1, <3>2
    <3>5. /\ b(c) = 2 * (Row[c] \div 2) + Col[c] \div 2 /\ p(c) = 2 * (Row[c] % 2) + (Col[c] % 2)
          /\ b(d) = 2 * (Row[d] \div 2) + Col[d] \div 2 /\ p(d) = 2 * (Row[d] % 2) + (Col[d] % 2)
      BY <2>2
    <3>6. p(c) \in 0 .. 3
      BY <3>3, <3>5
    <3>7. b(c) = b(d) /\ p(c) = p(d) => Row[c] = Row[d] /\ Col[c] = Col[d]
      <4>1. \A r \in {Row[c], Col[c], Row[d], Col[d]} :
               r = 2 * (r \div 2) + (r % 2) /\ r \div 2 \in 0 .. 1 /\ r % 2 \in 0 .. 1
        BY <3>3
      <4>2. \A w, x, y, z \in 0 .. 1 : 2 * w + x = 2 * y + z => w = y /\ x = z
        OBVIOUS
      <4> QED  BY <4>1, <4>2, <3>5
    <3> QED  BY <3>1, <3>3, <3>4, <3>6, <3>7 DEF Units
  <2>3. CASE Box = 3
    <3>1. Side = 9 /\ c \in 0 .. 80 /\ d \in 0 .. 80
      BY <2>3 DEF Side, Cells
    <3>2. Row[c] = c \div 9 /\ Col[c] = c % 9 /\ Row[d] = d \div 9 /\ Col[d] = d % 9
      BY <3>1, <1>1
    <3>3. /\ Row[c] \in 0 .. 8 /\ Col[c] \in 0 .. 8 /\ Row[d] \in 0 .. 8 /\ Col[d] \in 0 .. 8
      BY <3>1, <3>2
    <3>4. Row[c] = Row[d] /\ Col[c] = Col[d] => c = d
      BY <3>1, <3>2
    <3>5. /\ b(c) = 3 * (Row[c] \div 3) + Col[c] \div 3 /\ p(c) = 3 * (Row[c] % 3) + (Col[c] % 3)
          /\ b(d) = 3 * (Row[d] \div 3) + Col[d] \div 3 /\ p(d) = 3 * (Row[d] % 3) + (Col[d] % 3)
      BY <2>3
    <3>6. p(c) \in 0 .. 8
      BY <3>3, <3>5
    <3>7. b(c) = b(d) /\ p(c) = p(d) => Row[c] = Row[d] /\ Col[c] = Col[d]
      <4>1. \A r \in {Row[c], Col[c], Row[d], Col[d]} :
               r = 3 * (r \div 3) + (r % 3) /\ r \div 3 \in 0 .. 2 /\ r % 3 \in 0 .. 2
        BY <3>3
      <4>2. \A w, x, y, z \in 0 .. 2 : 3 * w + x = 3 * y + z => w = y /\ x = z
        OBVIOUS
      <4> QED  BY <4>1, <4>2, <3>5
    <3> QED  BY <3>1, <3>3, <3>4, <3>6, <3>7 DEF Units
  <2> QED  BY <2>1, <2>2, <2>3, Sizes
<1> HIDE DEF b, p
<1>4. CASE t = 1
  BY <1>1, <1>2, <1>3, <1>4
<1>5. CASE t = 2
  BY <1>1, <1>2, <1>3, <1>5
<1>6. CASE t = 3
  BY <1>1, <1>2, <1>3, <1>6
<1> QED  BY <1>4, <1>5, <1>6

\* The cells of a unit have every value without cell c, and cannot: they are too few.
HasAllWithout(t, c, b) ==
    \A v \in Vals : \E x \in Cells \ {c} : Unit[t][x] = Unit[t][c] /\ b[x] = v

LEMMA NotWithout ==
  ASSUME NEW t \in 1 .. 3, NEW c \in Cells, NEW b
  PROVE  ~HasAllWithout(t, c, b)
<1> SUFFICES ASSUME HasAllWithout(t, c, b) PROVE FALSE
  OBVIOUS
<1> DEFINE f == [v \in Vals |-> CHOOSE x \in Cells \ {c} : Unit[t][x] = Unit[t][c] /\ b[x] = v]
           g == [v \in Vals |-> Place(t, f[v])]
           T == Units \ {Place(t, c)}
<1>1. \A v \in Vals : f[v] \in Cells \ {c} /\ Unit[t][f[v]] = Unit[t][c] /\ b[f[v]] = v
  BY DEF HasAllWithout
<1> HIDE DEF f
<1>2. \A v \in Vals : g[v] \in T
  <2> SUFFICES ASSUME NEW v \in Vals PROVE Place(t, f[v]) \in T
    OBVIOUS
  <2>1. f[v] \in Cells /\ f[v] # c /\ Unit[t][f[v]] = Unit[t][c]
    BY <1>1
  <2>2. Place(t, f[v]) \in Units /\ Place(t, f[v]) # Place(t, c)
    BY <2>1, PlaceApart
  <2> QED  BY <2>2
<1>3. g \in [Vals -> T]
  BY <1>2
<1>4. IsFiniteSet(Vals) /\ Cardinality(Vals) = Side /\ Side \in Nat
  <2>1. Side \in Nat /\ Side >= 1 /\ 1 \in Int /\ Side \in Int
    BY SmallNumbers
  <2> QED  BY <2>1, FS_Interval DEF Vals
<1>5. IsFiniteSet(T) /\ Cardinality(T) = Side - 1
  <2>1. PICK n \in Nat : n = Side - 1
    BY SmallNumbers
  <2>2. IsFiniteSet(Units) /\ Cardinality(Units) = Side
    <3>1. IsFiniteSet(0 .. n) /\ Cardinality(0 .. n) = IF 0 > n THEN 0 ELSE n - 0 + 1
      BY FS_Interval
    <3>2. Units = 0 .. n
      BY <2>1 DEF Units
    <3> QED  BY <3>1, <3>2, <2>1, <1>4
  <2>3. Place(t, c) \in Units
    BY PlaceApart
  <2> QED  BY <2>2, <2>3, FS_RemoveElement
<1>6. PICK v, w \in Vals : v # w /\ g[v] = g[w]
  <2>1. Cardinality(T) < Cardinality(Vals)
    BY <1>4, <1>5
  <2> HIDE DEF T, g
  <2> QED  BY <2>1, <1>3, <1>4, <1>5, FS_PigeonHole
<1>7. f[v] = f[w]
  <2>1. f[v] \in Cells /\ f[w] \in Cells /\ Unit[t][f[v]] = Unit[t][f[w]]
        /\ Place(t, f[v]) = Place(t, f[w])
    BY <1>1, <1>6
  <2> QED  BY <2>1, PlaceApart
<1> QED  BY <1>1, <1>6, <1>7

\* In a sudoku a unit has every value just once.
LEMMA UnitFilled ==
  ASSUME NEW b, IsSudoku(b), NEW t \in 1 .. 3, NEW c \in Cells
  PROVE  b[c] \in Vals /\ \A d \in Cells : Unit[t][d] = Unit[t][c] /\ b[d] = b[c] => d = c
<1>1. \A v \in Vals : \E x \in Cells : Unit[t][x] = Unit[t][c] /\ b[x] = v
  BY UnitTypes DEF IsSudoku, Has
<1>2. b[c] \in Vals
  <2> SUFFICES ASSUME b[c] \notin Vals PROVE FALSE
    OBVIOUS
  <2>1. HasAllWithout(t, c, b)
    BY <1>1 DEF HasAllWithout
  <2> QED  BY <2>1, NotWithout
<1>3. ASSUME NEW d \in Cells, Unit[t][d] = Unit[t][c], b[d] = b[c], d # c PROVE FALSE
  <2>1. HasAllWithout(t, c, b)
    <3> SUFFICES ASSUME NEW v \in Vals
                 PROVE  \E x \in Cells \ {c} : Unit[t][x] = Unit[t][c] /\ b[x] = v
      BY DEF HasAllWithout
    <3>1. PICK x \in Cells : Unit[t][x] = Unit[t][c] /\ b[x] = v
      BY <1>1
    <3>2. CASE x = c
      BY <3>1, <3>2, <1>3
    <3>3. CASE x # c
      BY <3>1, <3>3
    <3> QED  BY <3>2, <3>3
  <2> QED  BY <2>1, NotWithout
<1> QED  BY <1>2, <1>3

\* The cells of a completed board and their values.
LEMMA CompletionIs ==
  ASSUME NEW b \in Completions
  PROVE  \A c \in Cells : IF puzzle[c] = 0 THEN b[c] \in Vals ELSE b[c] = puzzle[c]
<1> DEFINE empty == {c \in Cells : puzzle[c] = 0}
<1>1. PICK f \in [empty -> Vals] : b = [c \in Cells |-> IF c \in empty THEN f[c] ELSE puzzle[c]]
  BY DEF Completions
<1> QED  BY <1>1

\* A board with a character that is no digit cannot be completed.
LEMMA NotWithoutDigits ==
  ASSUME ~Digits, puzzle \in [Cells -> Int], NEW b \in Completions
  PROVE  ~IsSudoku(b)
<1>1. PICK c \in Cells : puzzle[c] \notin 0 .. Side
  BY DEF Digits
<1>2. Side \in Nat /\ puzzle[c] \in Int
  BY <1>1, SmallNumbers
<1>3. b[c] = puzzle[c] /\ b[c] \notin Vals
  <2>1. puzzle[c] # 0 /\ puzzle[c] \notin Vals
    BY <1>1, <1>2 DEF Vals
  <2> QED  BY <2>1, CompletionIs
<1>4. 1 \in 1 .. 3
  OBVIOUS
<1> QED  BY <1>3, <1>4, UnitFilled

\* What an option meets.
LEMMA MeetsAre ==
  ASSUME NEW c \in Cells, NEW v \in Vals
  PROVE  \A x : x \in Range(Meets(c, v)) <=> x = c \/ \E t \in 1 .. 3 : x = NameOf(t, Unit[t][c], v)
<1>1. \A x : x \in Range(Meets(c, v)) <=> \E t \in 0 .. 3 : x = Meets(c, v)[t]
  BY DEF Range, Meets
<1>2. Meets(c, v)[0] = c /\ \A t \in 1 .. 3 : Meets(c, v)[t] = NameOf(t, Unit[t][c], v)
  BY MeetsNames
<1>3. \A t \in 0 .. 3 : t = 0 \/ t \in 1 .. 3
  OBVIOUS
<1>4. 0 \in 0 .. 3 /\ \A t \in 1 .. 3 : t \in 0 .. 3
  OBVIOUS
<1> QED  BY <1>1, <1>2, <1>3, <1>4

\* The names of a constraint and of a cell.
LEMMA ItemsAre ==
  ASSUME NEW b
  PROVE  \A x : x \in Items(b) <=>
            \/ x \in Cells /\ b[x] = 0
            \/ \E t \in 1 .. 3, u \in Units, v \in Vals : x = NameOf(t, u, v) /\ ~Has(b, t, u, v)
<1>1. ASSUME NEW t \in 1 .. 3, NEW u \in Units, NEW v \in Vals, ~Has(b, t, u, v)
      PROVE  NameOf(t, u, v) \in Items(b)
  <2>1. PICK z : z = <<t, u, v>>
    OBVIOUS
  <2>2. z \in (1 .. 3) \X Units \X Vals /\ z[1] = t /\ z[2] = u /\ z[3] = v
    BY <2>1
  <2> QED  BY <2>2, <1>1 DEF Items
<1>2. ASSUME NEW x \in Items(b), ~(x \in Cells /\ b[x] = 0)
      PROVE  \E t \in 1 .. 3, u \in Units, v \in Vals : x = NameOf(t, u, v) /\ ~Has(b, t, u, v)
  BY <1>2 DEF Items
<1>3. \A x \in Cells : b[x] = 0 => x \in Items(b)
  BY DEF Items
<1> QED  BY <1>1, <1>2, <1>3

\* The options are values that fit.
LEMMA OptionsAre ==
  ASSUME NEW b
  PROVE  \A o : o \in Options(b) <=> \E c \in Cells, v \in Vals : Fits(b, c, v) /\ o = Range(Meets(c, v))
<1>1. ASSUME NEW c \in Cells, NEW v \in Vals, Fits(b, c, v) PROVE Range(Meets(c, v)) \in Options(b)
  <2>1. PICK z : z = <<c, v>>
    OBVIOUS
  <2>2. z \in Cells \X Vals /\ z[1] = c /\ z[2] = v
    BY <2>1
  <2> QED  BY <2>2, <1>1 DEF Options
<1>2. ASSUME NEW o \in Options(b)
      PROVE  \E c \in Cells, v \in Vals : Fits(b, c, v) /\ o = Range(Meets(c, v))
  <2>1. PICK z \in Cells \X Vals : Fits(b, z[1], z[2]) /\ o = Range(Meets(z[1], z[2]))
    BY DEF Options
  <2> QED  BY <2>1
<1> QED  BY <1>1, <1>2

\* An option meets constraints that are to be met.
LEMMA OptionsMeetItems ==
  ASSUME NEW b PROVE Options(b) \subseteq SUBSET Items(b)
<1> SUFFICES ASSUME NEW c \in Cells, NEW v \in Vals, Fits(b, c, v), NEW x \in Range(Meets(c, v))
             PROVE  x \in Items(b)
  BY OptionsAre
<1>1. CASE x = c
  BY <1>1, ItemsAre DEF Fits
<1>2. CASE \E t \in 1 .. 3 : x = NameOf(t, Unit[t][c], v)
  <2>1. PICK t \in 1 .. 3 : x = NameOf(t, Unit[t][c], v)
    BY <1>2
  <2>2. Unit[t][c] \in Units /\ ~Has(b, t, Unit[t][c], v)
    BY UnitTypes DEF Fits
  <2> QED  BY <2>1, <2>2, ItemsAre
<1> QED  BY <1>1, <1>2, MeetsAre

\* The problem of the search.
Right == INSTANCE SearchProofs WITH
    items   <- ItemsOf[puzzle], options <- OptionsOf[puzzle],
    guesses <- Guesses, untried <- ToTry, answer <- Outcome

\* The values that complete a board are an exact cover.
LEMMA CompletionCovers ==
  ASSUME puzzle \in Puzzles, NEW b \in Completions, IsSudoku(b)
  PROVE  \E E \in SUBSET OptionsOf[puzzle] : Right!IsExactCover(E)
<1> DEFINE empty == {c \in Cells : puzzle[c] = 0}
           E == {Range(Meets(c, b[c])) : c \in empty}
<1>1. /\ \A c \in Cells : b[c] \in Vals /\ (puzzle[c] # 0 => b[c] = puzzle[c])
      /\ \A t \in 1 .. 3, c, d \in Cells : Unit[t][d] = Unit[t][c] /\ b[d] = b[c] => d = c
  <2>1. 1 \in 1 .. 3
    OBVIOUS
  <2> QED  BY <2>1, CompletionIs, UnitFilled
<1>2. 0 \notin Vals
  BY SmallNumbers
<1>3. ASSUME NEW c \in empty PROVE Fits(puzzle, c, b[c])
  <2> SUFFICES ASSUME NEW t \in 1 .. 3, NEW d \in Cells, Unit[t][d] = Unit[t][c], puzzle[d] = b[c]
               PROVE  FALSE
    BY DEF Fits, Has
  <2>1. puzzle[d] # 0
    BY <1>1, <1>2
  <2>2. b[d] = b[c]
    BY <2>1, <1>1
  <2> QED  BY <2>1, <2>2, <1>1
<1>4. ItemsOf[puzzle] = Items(puzzle) /\ OptionsOf[puzzle] = Options(puzzle)
  BY DEF ItemsOf, OptionsOf
<1>5. E \in SUBSET OptionsOf[puzzle]
  BY <1>1, <1>3, <1>4, OptionsAre
<1>6. ASSUME NEW x \in ItemsOf[puzzle] PROVE \E o \in E : x \in o
  <2>1. CASE x \in Cells /\ puzzle[x] = 0
    <3>1. x \in Range(Meets(x, b[x]))
      BY <2>1, <1>1, MeetsAre
    <3> QED  BY <2>1, <3>1
  <2>2. CASE \E t \in 1 .. 3, u \in Units, v \in Vals : x = NameOf(t, u, v) /\ ~Has(puzzle, t, u, v)
    <3>1. PICK t \in 1 .. 3, u \in Units, v \in Vals : x = NameOf(t, u, v) /\ ~Has(puzzle, t, u, v)
      BY <2>2
    <3>2. PICK c \in Cells : Unit[t][c] = u /\ b[c] = v
      BY DEF IsSudoku, Has
    <3>3. puzzle[c] # v
      BY <3>1, <3>2 DEF Has
    <3>4. c \in empty
      BY <3>2, <3>3, <1>1
    <3>5. x \in Range(Meets(c, b[c]))
      BY <3>1, <3>2, MeetsAre
    <3> QED  BY <3>4, <3>5
  <2> QED  BY <2>1, <2>2, <1>4, ItemsAre
<1>7. ASSUME NEW c \in empty, NEW d \in empty,
             NEW x, x \in Range(Meets(c, b[c])), x \in Range(Meets(d, b[d]))
      PROVE  c = d
  <2>1. \A y \in Cells : y < 100
    BY CellNames
  <2>2. ASSUME NEW t \in 1 .. 3, NEW y \in Cells
        PROVE  /\ Unit[t][y] \in Units /\ NameOf(t, Unit[t][y], b[y]) \in Nat
               /\ NameOf(t, Unit[t][y], b[y]) >= 100
    BY <1>1, UnitTypes, ConstraintNames
  <2>3. CASE x \in Cells
    <3>1. \A t \in 1 .. 3, y \in Cells : x # NameOf(t, Unit[t][y], b[y])
      BY <2>1, <2>2, <2>3
    <3> QED  BY <3>1, <1>1, <1>7, MeetsAre
  <2>4. CASE x \notin Cells
    <3>1. PICK t \in 1 .. 3 : x = NameOf(t, Unit[t][c], b[c])
      BY <2>4, <1>1, <1>7, MeetsAre
    <3>2. PICK p \in 1 .. 3 : x = NameOf(p, Unit[p][d], b[d])
      BY <2>4, <1>1, <1>7, MeetsAre
    <3>3. t = p /\ Unit[t][c] = Unit[p][d] /\ b[c] = b[d]
      <4>1. /\ Unit[t][c] \in Units /\ Unit[p][d] \in Units /\ b[c] \in Vals /\ b[d] \in Vals
            /\ NameOf(t, Unit[t][c], b[c]) = NameOf(p, Unit[p][d], b[d])
        BY <3>1, <3>2, <2>2, <1>1
      <4> QED  BY <4>1, NamesApart
    <3> QED  BY <3>3, <1>1
  <2> QED  BY <2>3, <2>4
<1>8. \A o, p \in E : o # p => o \cap p = {}
  <2> SUFFICES ASSUME NEW c \in empty, NEW d \in empty, NEW x,
                      x \in Range(Meets(c, b[c])), x \in Range(Meets(d, b[d]))
               PROVE  Range(Meets(c, b[c])) = Range(Meets(d, b[d]))
    OBVIOUS
  <2> QED  BY <1>7
<1> QED  BY <1>5, <1>6, <1>8 DEF Right!IsExactCover

\* The options on the stack of a search that is solved complete the board.
LEMMA SolvedIsSudoku ==
  ASSUME NEW F, NEW N, NEW O, Built(F, N, O), NEW cov, NEW gone, NEW Q, Running(F, cov, gone, Q),
         Solved, board = puzzle
  PROVE  Completes(board)' /\ IsSudoku(board)'
<1>1. /\ pc = "solve" /\ left[1] = 1 /\ puzzle' = puzzle /\ puzzle \in Puzzles
      /\ Len(rows) = Len(cols) /\ last = F + 4 * N /\ Solving(F, cov, gone, Q) /\ TypeOK
      /\ Translated(F)
  <2>1. pc = "solve" /\ left[1] = 1 /\ puzzle' = puzzle
    BY DEF Solved
  <2>2. Solving(F, cov, gone, Q) /\ TypeOK /\ Translated(F)
    BY DEF Running
  <2>3. Len(rows) = Len(cols)
    BY <2>1, CallsUnderWay
  <2>4. puzzle \in Puzzles
    BY <2>2, LinkTypes DEF RestOK
  <2>5. last = F + 4 * N
    BY <2>1 DEF Built, Half, Building
  <2> QED  BY <2>1, <2>2, <2>3, <2>4, <2>5
<1>2. /\ \A d \in 1 .. Len(rows) :
            /\ \E g \in 1 .. N : /\ OptionAt(rows[d], O[g][1], O[g][2])
                                 /\ Fits(puzzle, O[g][1], O[g][2])
            /\ board'[CellAt(rows[d])] = ValAt(rows[d])
      /\ \A c \in Cells : (\A d \in 1 .. Len(rows) : CellAt(rows[d]) # c) => board'[c] = board[c]
  BY <1>1, SolvedBoard
<1>3. ASSUME NEW d \in 1 .. Len(rows)
      PROVE  \E c \in Cells, v \in Vals :
                /\ puzzle[c] = 0 /\ NamesAt(rows[d]) = Range(Meets(c, v))
                /\ CellAt(rows[d]) = c /\ board'[c] = v
  <2>1. PICK g \in 1 .. N : OptionAt(rows[d], O[g][1], O[g][2]) /\ Fits(puzzle, O[g][1], O[g][2])
    BY <1>2
  <2>2. PICK c, v : c = O[g][1] /\ v = O[g][2]
    OBVIOUS
  <2>3. c \in Cells /\ v \in Vals /\ NamesAt(rows[d]) = Range(Meets(c, v)) /\ puzzle[c] = 0
        /\ CellAt(rows[d]) = c /\ ValAt(rows[d]) = v
    BY <2>1, <2>2 DEF OptionAt, Fits
  <2> QED  BY <2>3, <1>2
<1>4. ASSUME NEW c \in Cells, puzzle[c] # 0 PROVE board'[c] = puzzle[c]
  <2>1. \A d \in 1 .. Len(rows) : CellAt(rows[d]) # c
    BY <1>3, <1>4
  <2> QED  BY <2>1, <1>2
<1>5. ASSUME NEW t \in 1 .. 3, NEW u \in Units, NEW v \in Vals
      PROVE  \E c \in Cells : Unit[t][c] = u /\ board'[c] = v
  <2>1. CASE Has(puzzle, t, u, v)
    <3>1. PICK c \in Cells : Unit[t][c] = u /\ puzzle[c] = v
      BY <2>1 DEF Has
    <3>2. puzzle[c] # 0
      BY <3>1, SmallNumbers
    <3> QED  BY <3>1, <3>2, <1>4
  <2>2. CASE ~Has(puzzle, t, u, v)
    <3>1. PICK x : x = NameOf(t, u, v)
      OBVIOUS
    <3>2. x \in ItemsOf[puzzle]
      BY <2>2, <3>1, <1>1, ItemsAre DEF ItemsOf
    <3>3. PICK e \in 2 .. F : x = name[e]
      BY <3>2, <1>1 DEF Translated
    <3>4. PICK d \in 1 .. Len(cols) : x \in NamesAt(rows[d])
      BY <3>3, <1>1, NoColumnLeft
    <3>5. PICK c \in Cells, w \in Vals : NamesAt(rows[d]) = Range(Meets(c, w)) /\ board'[c] = w
      BY <3>4, <1>1, <1>3
    <3>6. x # c
      BY <3>1, CellNames, ConstraintNames
    <3>7. PICK p \in 1 .. 3 : x = NameOf(p, Unit[p][c], w)
      BY <3>4, <3>5, <3>6, MeetsAre
    <3>8. t = p /\ u = Unit[p][c] /\ v = w
      <4>1. Unit[p][c] \in Units /\ NameOf(t, u, v) = NameOf(p, Unit[p][c], w)
        BY <3>1, <3>7, UnitTypes
      <4> QED  BY <4>1, NamesApart
    <3> QED  BY <3>5, <3>8
  <2> QED  BY <2>1, <2>2
<1> QED  BY <1>1, <1>4, <1>5 DEF Completes, IsSudoku, Has

-------------------------------------------------------------------------------
(* The two together.                                                       *)

\* Until the end nothing is answered, and then what is answered is a sudoku; a search is none
\* only if it began.
Answered ==
    /\ pc # "done" => result = "none" /\ board = puzzle
    /\ pc = "done" => IF result = "solved" THEN Completes(board) /\ IsSudoku(board)
                      ELSE last > 1 \/ ~Digits

\* Before a call of solve the search is where it begins.
LEMMA NothingGuessed ==
  ASSUME cols = <<>>, stack = <<>>
  PROVE  Guesses = <<>> /\ ToTry = <<>>
<1>1. Guessed = <<>>
  <2>1. pc # "failed" => Guessed = <<>>
    BY DEF Guessed
  <2>2. Front(<<>>) = <<>>
    BY DEF Front
  <2> QED  BY <2>1, <2>2 DEF Guessed
<1> QED  BY <1>1 DEF Guesses, ToTry

\* At first nothing is answered and the search is there.
LEMMA InitSearches ==
  ASSUME Init PROVE Answered /\ ExactCover!Init
<1>1. /\ puzzle \in Puzzles /\ cols = <<>> /\ stack = <<>> /\ result = "none" /\ pc = "start"
      /\ board = puzzle
  BY DEF Init
<1>2. Guesses = <<>> /\ ToTry = <<>> /\ Outcome = "searching"
  BY <1>1, NothingGuessed, SearchGoesOn
<1>3. OptionsOf[puzzle] \subseteq SUBSET ItemsOf[puzzle]
  BY <1>1, OptionsMeetItems DEF OptionsOf, ItemsOf
<1> QED  BY <1>1, <1>2, <1>3 DEF Answered, ExactCover!Init

\* While the constructor works it stays there.
LEMMA BuildingSearches ==
  ASSUME NEW F, Fresh(F), Bounds, Answered, Building, Next
  PROVE  Answered' /\ UNCHANGED ExactCover!searchVars
<1>1. /\ cols = <<>> /\ stack = <<>> /\ result = "none" /\ board = puzzle /\ pc # "done"
  BY DEF Fresh, Building
<1>2. Start \/ AppendCell \/ AppendConstraint \/ AppendNode
  BY DEF Next, Building, Solved, StartMin, CompareMin, TakeMin, TryRow, Descend, Backtrack, Advance,
         NoMoreRows, Cover, Unlink, NextToCover, Covered, Uncover, Relink, NextToRelink, Uncovered
<1>3. UNCHANGED <<puzzle, frames, answer>>
  BY <1>2 DEF Start, AppendCell, AppendConstraint, AppendNode
<1>4. cols' = <<>> /\ stack' = <<>> /\ result' = "none" /\ board' = puzzle' /\ puzzle' = puzzle
  BY <1>1, <1>3 DEF frames, answer
<1>5. pc' # "done" \/ (last' = 1 /\ ~Digits')
  <2>1. CASE Start
    BY <2>1, <1>4 DEF Start, Bounds, Digits, nodes, names
  <2>2. CASE AppendCell \/ AppendConstraint \/ AppendNode
    BY <2>2 DEF AppendCell, AppendConstraint, AppendNode
  <2> QED  BY <1>2, <2>1, <2>2
<1>6. Guesses' = <<>> /\ ToTry' = <<>> /\ Guesses = <<>> /\ ToTry = <<>>
  <2>1. Guesses = <<>> /\ ToTry = <<>>
    BY <1>1, NothingGuessed
  <2>2. Guessed' = <<>>
    <3>1. pc' # "failed"
      BY <1>2 DEF Start, AppendCell, AppendConstraint, AppendNode, Building
    <3> QED  BY <3>1, <1>4 DEF Guessed
  <2>3. Guesses' = <<>> /\ ToTry' = <<>>
    BY <2>2, <1>4 DEF Guesses, ToTry
  <2> QED  BY <2>1, <2>3
<1>7. Outcome = "searching" /\ Outcome' = "searching"
  BY <1>1, <1>4, <1>5 DEF Outcome
<1>8. Answered'
  BY <1>4, <1>5 DEF Answered
<1> QED  BY <1>4, <1>6, <1>7, <1>8 DEF ExactCover!searchVars, ExactCover!problem

\* Every step of solve is one of the search, or none.
LEMMA SolveSearches ==
  ASSUME NEW F, NEW cov, NEW gone, NEW Q, Running(F, cov, gone, Q), Goes(F), Next, result = "none"
  PROVE  [ExactCover!Next]_(ExactCover!searchVars)
<1>1. CASE \/ StartMin \/ CompareMin \/ Descend \/ NoMoreRows \/ Cover \/ Unlink \/ NextToCover
           \/ Uncover \/ Relink \/ NextToRelink \/ (Covered /\ k # 0) \/ (Uncovered /\ k # 0)
  BY <1>1, QuietSearch
<1>2. CASE Covered /\ k = 0
  BY <1>2, FirstRowSearch
<1>3. CASE Advance
  BY <1>3, NextRowSearch
<1>4. CASE Backtrack
  BY <1>4, BacktrackSearch
<1>5. CASE TakeMin
  BY <1>5, TakeMinChooses DEF ExactCover!Next
<1>6. CASE TryRow
  BY <1>6, TryRowGuesses DEF ExactCover!Next
<1>7. CASE Uncovered /\ k = 0
  BY <1>7, UncoveredRetreats DEF ExactCover!Next
<1>8. CASE Solved
  BY <1>8, SolvedFinishes DEF ExactCover!Next
<1>9. ~Start /\ ~AppendCell /\ ~AppendConstraint /\ ~AppendNode
  BY DEF Running, Building, Start, AppendCell, AppendConstraint, AppendNode
<1> QED  BY <1>1, <1>2, <1>3, <1>4, <1>5, <1>6, <1>7, <1>8, <1>9 DEF Next

\* And it answers nothing, or a sudoku.
LEMMA SolveAnswers ==
  ASSUME NEW F, NEW N, NEW O, Built(F, N, O), NEW cov, NEW gone, NEW Q, Running(F, cov, gone, Q),
         Goes(F), Answered, pc # "done", Next
  PROVE  Answered'
<1>1. result = "none" /\ board = puzzle /\ UNCHANGED <<puzzle, last>>
  BY DEF Answered, Goes, names
<1>2. CASE Solved
  <2>1. pc' = "done" /\ result' = "solved"
    BY <1>2 DEF Solved
  <2>2. Completes(board)' /\ IsSudoku(board)'
    BY <1>1, <1>2, SolvedIsSudoku
  <2> QED  BY <2>1, <2>2 DEF Answered
<1>3. CASE Uncovered
  <2>1. result' = "none" /\ board' = board
    BY <1>1, <1>3 DEF Uncovered, answer
  <2>2. last' > 1
    <3>1. pc = "uncoverRows"
      BY <1>3 DEF Uncovered
    <3>2. Len(cols) \in Nat \ {0} /\ F \in Nat /\ last \in Nat /\ F \in 1 .. last
      BY <3>1, CallsUnderWay
    <3>3. \A d \in 1 .. Len(cols) : cols[d] \in 2 .. F
      BY DEF Running, Solving, Levels, InFrames
    <3>4. 1 \in 1 .. Len(cols)
      BY <3>2
    <3>5. F > 1
      BY <3>2, <3>3, <3>4
    <3> QED  BY <3>2, <3>5, <1>1
  <2> QED  BY <2>1, <2>2, <1>1 DEF Answered
<1>4. CASE ~Solved /\ ~Uncovered
  <2>1. pc' # "done" /\ UNCHANGED answer
    BY <1>4 DEF Next, Running, Building, Start, AppendCell, AppendConstraint, AppendNode, StartMin,
                CompareMin, TakeMin, TryRow, Descend, Backtrack, Advance, NoMoreRows, Cover, Unlink,
                NextToCover, Covered, Uncover, Relink, NextToRelink
  <2> QED  BY <2>1, <1>1 DEF Answered, answer
<1> QED  BY <1>2, <1>3, <1>4

\* A stutter is none of the search.
LEMMA StutterSearches ==
  ASSUME UNCHANGED vars, Answered
  PROVE  Answered' /\ UNCHANGED ExactCover!searchVars
<1>1. UNCHANGED <<puzzle, left, right, col, name, last, cols, rows, stack, board, pc, result>>
  BY DEF vars, nodes, header, names, frames, answer
<1>2. \A n : OptionOf(n)' = OptionOf(n) /\ NamesAt(n)' = NamesAt(n)
  BY <1>1 DEF OptionOf, NamesAt
<1>3. \A d : Candidates(d)' = Candidates(d)
  <2>1. \A e : OptionOf(rows[e])' = OptionOf(rows[e])
    BY <1>1 DEF OptionOf
  <2> QED  BY <2>1, <1>1, <1>2 DEF Candidates
<1>4. \A d, n : Untried(d, n)' <=> Untried(d, n)
  BY <1>1 DEF Untried
<1>5. ToTry' = ToTry
  BY <1>1, <1>2, <1>3, <1>4 DEF ToTry
<1>6. Guesses' = Guesses
  <2>1. Guessed' = Guessed
    BY <1>1 DEF Guessed
  <2> QED  BY <2>1, <1>2 DEF Guesses
<1>7. Outcome' = Outcome
  BY <1>1 DEF Outcome
<1>8. Answered'
  BY <1>1 DEF Answered, Completes, Digits
<1> QED  BY <1>1, <1>5, <1>6, <1>7, <1>8 DEF ExactCover!searchVars, ExactCover!problem

\* Every step of the solver.
LEMMA StepSearches ==
  ASSUME IInv, Answered, [Next]_vars
  PROVE  Answered' /\ [ExactCover!Next]_(ExactCover!searchVars)
<1>1. CASE UNCHANGED vars
  BY <1>1, StutterSearches
<1>2. CASE Next
  <2>1. pc # "done"
    BY <1>2 DEF Next, Start, AppendCell, AppendConstraint, AppendNode, Solved, StartMin,
           CompareMin, TakeMin, TryRow, Descend, Backtrack, Advance, NoMoreRows, Cover, Unlink,
           NextToCover, Covered, Uncover, Relink, NextToRelink, Uncovered
  <2>2. PICK F, N, O : Built(F, N, O) /\ IF Building THEN Fresh(F) /\ Bounds
                                         ELSE \E cov, gone, Q : Solving(F, cov, gone, Q)
    BY <2>1 DEF IInv, Rejected
  <2>3. CASE Building
    BY <2>2, <2>3, <1>2, BuildingSearches
  <2>4. CASE ~Building
    <3>1. PICK cov, gone, Q : Solving(F, cov, gone, Q)
      BY <2>2, <2>4
    <3>2. TypeOK
      BY DEF IInv
    <3>3. Translated(F)
      BY <2>2, <2>4, <3>1, <3>2, Translation DEF Solving
    <3>4. Running(F, cov, gone, Q)
      BY <2>4, <3>1, <3>2, <3>3 DEF Running
    <3>5. Goes(F)
      BY <2>2, <2>4, <3>1, <3>2, <1>2, SolveChanges DEF Goes
    <3>6. result = "none"
      BY <2>1 DEF Answered
    <3> QED  BY <2>1, <2>2, <3>4, <3>5, <3>6, <1>2, SolveSearches, SolveAnswers
  <2> QED  BY <2>3, <2>4
<1> QED  BY <1>1, <1>2

\* What the search has answered stays true with the invariant.
LEMMA AnsweredReached == Spec => [](IInv /\ Answered)
<1>1. Init => IInv /\ Answered
  BY InitKeeps, InitSearches
<1>2. IInv /\ Answered /\ [Next]_vars => (IInv /\ Answered)'
  BY StepKeeps, StepSearches
<1> QED  BY <1>1, <1>2, PTL DEF Spec

\* solve is a search: covering a column chooses an item, putting an option on stack_ guesses
\* one that no call has tried there, returning false takes one back, and nothing between
\* them changes what has been guessed and what is still to try (suduku.cpp:89-127).
THEOREM ImplementsSearch == Spec => SearchSpec
<1>1. Init => ExactCover!Init
  BY InitSearches
<1>2. IInv /\ Answered /\ [Next]_vars => [ExactCover!Next]_(ExactCover!searchVars)
  BY StepSearches
<1> QED  BY <1>1, <1>2, AnsweredReached, PTL DEF Spec, SearchSpec, ExactCover!Spec

\* What a search promises holds of it.
LEMMA SearchPromises == SearchSpec => []Right!AnswerRight
<1>1. ExactCover!Init <=> Right!Init
  BY DEF ExactCover!Init, Right!Init
<1>2. [ExactCover!Next]_(ExactCover!searchVars) <=> [Right!Next]_(Right!searchVars)
  BY DEF ExactCover!Next, Right!Next, ExactCover!searchVars, Right!searchVars,
         ExactCover!Choose, ExactCover!Guess, ExactCover!Retreat, ExactCover!Finish,
         ExactCover!problem, ExactCover!Left, ExactCover!AtChoice, ExactCover!AtGuess,
         ExactCover!Shorter, Right!Choose, Right!Guess, Right!Retreat, Right!Finish,
         Right!problem, Right!Left, Right!AtChoice, Right!AtGuess, Right!Shorter
<1>3. ExactCover!Spec <=> Right!Spec
  BY <1>1, <1>2, PTL DEF ExactCover!Spec, Right!Spec
<1> QED  BY <1>3, Right!SearchIsRight, PTL DEF SearchSpec

\* The board that comes back is the puzzle, completed to a sudoku, and NoSolution comes back
\* only if it cannot be completed, whatever the puzzle is (suduku.cpp:11-19,71-87).
THEOREM AnswerIsRight == Spec => []AnswerCorrect
<1>1. ASSUME TypeOK, Answered, Right!AnswerRight PROVE AnswerCorrect
  <2> SUFFICES ASSUME pc = "done", result # "solved", NEW b \in Completions, IsSudoku(b) PROVE FALSE
    BY <1>1 DEF Answered, AnswerCorrect
  <2>1. puzzle \in Puzzles /\ puzzle \in [Cells -> Int]
    BY <1>1, LinkTypes, SolverAssumption DEF RestOK
  <2>2. Digits
    BY <2>1, NotWithoutDigits
  <2>3. last > 1
    BY <2>2, <1>1 DEF Answered
  <2>4. Outcome = "none"
    BY <2>3 DEF Outcome
  <2>5. \A E \in SUBSET OptionsOf[puzzle] : ~Right!IsExactCover(E)
    BY <2>4, <1>1 DEF Right!AnswerRight
  <2> QED  BY <2>1, <2>5, CompletionCovers
<1>2. IInv => TypeOK
  BY DEF IInv
<1> QED  BY <1>1, <1>2, AnsweredReached, ImplementsSearch, SearchPromises, PTL
===============================================================================
