--------------------------- MODULE EventLoopProofs ---------------------------
(***************************************************************************)
(* EventLoop's type invariant, ExactlyOnce and the refinement of Mailbox,  *)
(* proved for any threads, functors and descriptors.                       *)
(***************************************************************************)
EXTENDS EventLoop, SequenceTheorems, TLAPS

-------------------------------------------------------------------------------
(* The vectors as queues of functors.                                      *)

\* Appending to the second of two sequences appends to their concatenation.
LEMMA AppendToConcat ==
  ASSUME NEW S, NEW s \in Seq(S), NEW t \in Seq(S), NEW e \in S
  PROVE  s \o Append(t, e) = Append(s \o t, e)
<1>1. s \o t \in Seq(S) /\ <<e>> \in Seq(S)
  BY ConcatProperties
<1>2. Append(t, e) = t \o <<e>> /\ Append(s \o t, e) = (s \o t) \o <<e>>
  BY <1>1, AppendIsConcat
<1>3. (s \o t) \o <<e>> = s \o (t \o <<e>>)
  BY <1>1, ConcatAssociative
<1>. QED
  BY <1>2, <1>3

\* A nonempty sequence is its head followed by its tail.
LEMMA HeadThenTail ==
  ASSUME NEW S, NEW t \in Seq(S), t # <<>>
  PROVE  /\ Head(t) \in S /\ Tail(t) \in Seq(S) /\ <<Head(t)>> \in Seq(S)
         /\ <<Head(t)>> \o Tail(t) = t
<1>1. Head(t) \in S /\ Tail(t) \in Seq(S) /\ Len(Tail(t)) = Len(t) - 1
  BY HeadTailProperties
<1>2. \A i \in 1 .. Len(t) - 1 : Tail(t)[i] = t[i+1]
  BY <1>1, HeadTailProperties
<1>3. Len(t) \in Nat /\ Len(t) > 0 /\ Head(t) = t[1]
  BY EmptySeq
<1>. DEFINE h == <<Head(t)>>
<1>4. h \in Seq(S) /\ Len(h) = 1 /\ h[1] = Head(t)
  BY <1>1
<1>. HIDE DEF h
<1>5. /\ h \o Tail(t) \in Seq(S) /\ Len(h \o Tail(t)) = Len(h) + Len(Tail(t))
      /\ \A i \in 1 .. Len(h) + Len(Tail(t)) :
            (h \o Tail(t))[i] = IF i <= Len(h) THEN h[i] ELSE Tail(t)[i - Len(h)]
  BY <1>1, <1>4, ConcatProperties
<1>6. Len(h) + Len(Tail(t)) = Len(t) /\ Len(h \o Tail(t)) = Len(t)
  BY <1>1, <1>3, <1>4, <1>5
<1>7. \A i \in 1 .. Len(t) : (h \o Tail(t))[i] = t[i]
  <2>1. TAKE i \in 1 .. Len(t)
  <2>2. (h \o Tail(t))[i] = IF i <= 1 THEN h[i] ELSE Tail(t)[i - 1]
    BY <1>4, <1>5, <1>6
  <2>3. CASE i = 1
    BY <2>2, <2>3, <1>3, <1>4
  <2>4. CASE i # 1
    <3>1. i - 1 \in 1 .. Len(t) - 1 /\ (i - 1) + 1 = i
      BY <1>3, <2>4
    <3>2. Tail(t)[i - 1] = t[(i - 1) + 1]
      BY <1>2, <3>1
    <3>3. ~(i <= 1)
      BY <1>3, <2>4
    <3>. QED BY <2>2, <3>1, <3>2, <3>3
  <2>. QED BY <2>3, <2>4
<1>8. h \o Tail(t) = t
  BY <1>5, <1>7, <1>6, SeqEqual
<1>. QED
  BY <1>1, <1>4, <1>8 DEF h

\* Moving the head of a sequence behind the one it follows changes nothing.
LEMMA MoveHead ==
  ASSUME NEW S, NEW s \in Seq(S), NEW t \in Seq(S), t # <<>>
  PROVE  Append(s, Head(t)) \o Tail(t) = s \o t
<1>1. Head(t) \in S /\ Tail(t) \in Seq(S) /\ <<Head(t)>> \o Tail(t) = t
      /\ <<Head(t)>> \in Seq(S)
  BY HeadThenTail
<1>2. Append(s, Head(t)) = s \o <<Head(t)>>
  BY <1>1, AppendIsConcat
<1>3. (s \o <<Head(t)>>) \o Tail(t) = s \o (<<Head(t)>> \o Tail(t))
  BY <1>1, ConcatAssociative
<1>. QED
  BY <1>1, <1>2, <1>3

\* The head and the tail of a concatenation that starts with t # <<>>.
LEMMA HeadTailConcat ==
  ASSUME NEW S, NEW t \in Seq(S), NEW u \in Seq(S), t # <<>>
  PROVE  /\ t \o u # <<>>
         /\ Head(t \o u) = Head(t)
         /\ Tail(t \o u) = Tail(t) \o u
<1>. DEFINE h == Head(t)
            v == Tail(t) \o u
<1>1. h \in S /\ Tail(t) \in Seq(S) /\ <<h>> \o Tail(t) = t /\ <<h>> \in Seq(S)
  BY HeadThenTail
<1>2. v \in Seq(S)
  BY <1>1, ConcatProperties
<1>3. t \o u = <<h>> \o v
  BY <1>1, ConcatAssociative
<1>. HIDE DEF v
<1>4. /\ <<h>> \o v \in Seq(S) /\ Len(<<h>> \o v) = 1 + Len(v)
      /\ \A i \in 1 .. 1 + Len(v) : (<<h>> \o v)[i] = IF i <= 1 THEN <<h>>[i] ELSE v[i - 1]
  BY <1>1, <1>2, ConcatProperties
<1>5. <<h>> \o v # <<>> /\ Head(<<h>> \o v) = h
  BY <1>2, <1>4
<1>6. Tail(<<h>> \o v) = v
  <2>1. /\ Tail(<<h>> \o v) \in Seq(S) /\ Len(Tail(<<h>> \o v)) = Len(v)
        /\ \A i \in 1 .. Len(v) : Tail(<<h>> \o v)[i] = (<<h>> \o v)[i+1]
    BY <1>2, <1>4, <1>5, HeadTailProperties
  <2>2. \A i \in 1 .. Len(v) : Tail(<<h>> \o v)[i] = v[i]
    BY <1>2, <1>4, <2>1
  <2>. QED BY <1>2, <2>1, <2>2, SeqEqual
<1>. QED
  BY <1>3, <1>5, <1>6 DEF v

\* A new element between s and t keeps their concatenation free of duplicates.
LEMMA InsertFresh ==
  ASSUME NEW S, NEW s \in Seq(S), NEW t \in Seq(S), NEW e \in S,
         IsInjective(s \o t), e \notin Range(s \o t)
  PROVE  /\ IsInjective(Append(s, e) \o t)
         /\ Range(Append(s, e) \o t) = Range(s \o t) \cup {e}
<1>. DEFINE old == s \o t
            a == Append(s, e)
            new == a \o t
            n == Len(s) + 1
            back(i) == IF i < n THEN i ELSE i - 1
<1>1. /\ old \in Seq(S) /\ Len(old) = Len(s) + Len(t) /\ Len(s) \in Nat /\ Len(t) \in Nat
      /\ DOMAIN old = 1 .. Len(s) + Len(t)
  BY ConcatProperties, LenProperties
<1>2. \A i \in 1 .. Len(s) + Len(t) : old[i] = IF i <= Len(s) THEN s[i] ELSE t[i - Len(s)]
  BY ConcatProperties
<1>3. /\ a \in Seq(S) /\ Len(a) = n
      /\ a[n] = e /\ \A i \in 1 .. Len(s) : a[i] = s[i]
  BY AppendProperties
<1>. HIDE DEF a
<1>4. /\ new \in Seq(S) /\ Len(new) = n + Len(t) /\ DOMAIN new = 1 .. n + Len(t)
      /\ \A i \in 1 .. n + Len(t) : new[i] = IF i <= n THEN a[i] ELSE t[i - n]
  <2>1. a \o t \in Seq(S)
    BY <1>3, ConcatProperties
  <2>2. Len(a \o t) = n + Len(t)
    BY <1>3, ConcatProperties
  <2>3. DOMAIN (a \o t) = 1 .. n + Len(t)
    BY <2>1, <2>2, LenProperties
  <2>4. \A i \in 1 .. Len(a) + Len(t) : (a \o t)[i] = IF i <= Len(a) THEN a[i] ELSE t[i - Len(a)]
    BY <1>3, ConcatProperties
  <2>. QED BY <1>3, <2>1, <2>2, <2>3, <2>4
<1>. HIDE DEF old, new
<1>5. new[n] = e /\ n \in DOMAIN new
  BY <1>1, <1>3, <1>4
<1>6. \A i \in DOMAIN new \ {n} : back(i) \in DOMAIN old /\ new[i] = old[back(i)]
  <2>1. SUFFICES ASSUME NEW i \in DOMAIN new \ {n}
                 PROVE  back(i) \in DOMAIN old /\ new[i] = old[back(i)]
    OBVIOUS
  <2>2. CASE i < n
    <3>1. i \in 1 .. Len(s) /\ i \in 1 .. Len(s) + Len(t) /\ back(i) = i
      BY <1>1, <1>4, <2>2
    <3>2. old[i] = s[i]
      BY <1>1, <1>2, <3>1
    <3>3. new[i] = a[i] /\ a[i] = s[i]
      BY <1>1, <1>3, <1>4, <3>1
    <3>. QED BY <1>1, <3>1, <3>2, <3>3
  <2>3. CASE i > n
    <3>1. /\ i \in 1 .. n + Len(t) /\ i - 1 \in 1 .. Len(s) + Len(t) /\ back(i) = i - 1
          /\ ~(i <= n) /\ ~(i - 1 <= Len(s)) /\ (i - 1) - Len(s) = i - n
      BY <1>1, <1>4, <2>3
    <3>2. new[i] = t[i - n]
      BY <1>4, <3>1
    <3>3. old[i - 1] = t[(i - 1) - Len(s)]
      BY <1>2, <3>1 DEF old
    <3>. QED BY <1>1, <3>1, <3>2, <3>3
  <2>. QED BY <1>1, <1>4, <2>2, <2>3
<1>7. \A j \in DOMAIN old : \E i \in DOMAIN new \ {n} : back(i) = j
  <2>1. SUFFICES ASSUME NEW j \in DOMAIN old
                 PROVE  \E i \in DOMAIN new \ {n} : back(i) = j
    OBVIOUS
  <2>2. CASE j < n
    <3>1. j \in DOMAIN new \ {n} /\ back(j) = j
      BY <1>1, <1>4, <2>2
    <3>. QED BY <3>1
  <2>3. CASE ~(j < n)
    <3>1. j + 1 \in DOMAIN new \ {n} /\ back(j + 1) = j
      BY <1>1, <1>4, <2>3
    <3>. QED BY <3>1
  <2>. QED BY <2>2, <2>3
<1>8. \A i, k \in DOMAIN new \ {n} : back(i) = back(k) => i = k
  BY <1>1, <1>4
<1>. HIDE DEF n, back
<1>9. \A i \in DOMAIN new \ {n} : new[i] # e
  BY <1>6 DEF Range, old
<1>10. \A i, k \in DOMAIN old : old[i] = old[k] => i = k
  BY DEF old, IsInjective
<1>11. \A i, k \in DOMAIN new : new[i] = new[k] => i = k
  BY <1>5, <1>6, <1>8, <1>9, <1>10
<1>12. IsInjective(new)
  BY <1>11 DEF IsInjective
<1>13. Range(new) = Range(old) \cup {e}
  BY <1>5, <1>6, <1>7 DEF Range
<1>. QED
  BY <1>12, <1>13 DEF old, new, a

-------------------------------------------------------------------------------
\* Who may touch the vectors: a caller between lock and unlock holds the mutex
\* and the queue is still what it read; the loop holds it while it swaps; the
\* batch is empty unless functors are being run; a caller holds a functor
\* exactly while it has one to push.
Locking ==
    /\ \A c \in Callers : callerPc[c] = "push" => mutex = c /\ seen[c] = functions
    /\ \A c \in Callers : callerPc[c] \in {"lock", "push"} <=> arg[c] # NoFunc
    /\ loopPc = "swap" => mutex = LoopThread
    /\ loopPc \notin {"run", "functor"} => allfunctors = <<>>

USE LoopAssumption DEF Threads, Fds

\* EventLoop::EventLoop leaves typed variables, a free mutex and empty vectors.
LEMMA TypesInit == Init => TypeOK /\ Locking
<1>. SUFFICES ASSUME Init PROVE TypeOK /\ Locking
  OBVIOUS
<1>1. <<>> \in Seq(Funcs) /\ watched = {}
  BY DEF Init, EnableReading
<1>2. TypeOK
  BY <1>1 DEF Init, TypeOK, LoopPcs, CallerPcs
<1>3. Locking
  BY <1>1 DEF Init, Locking
<1>. QED
  BY <1>2, <1>3

\* The types and the locking discipline support each other: every step keeps
\* both of them.
LEMMA TypesStep == TypeOK /\ Locking /\ [Next]_vars => TypeOK' /\ Locking'
<1>. SUFFICES ASSUME TypeOK, Locking, [Next]_vars PROVE TypeOK' /\ Locking'
  OBVIOUS
<1>. USE DEF TypeOK, Locking, queueVars, pollVars, callerVars, LoopPcs, CallerPcs
<1>1. ASSUME NEW c \in Callers, NEW f \in Funcs, RunInLoop(c, f) PROVE TypeOK' /\ Locking'
  BY <1>1 DEF RunInLoop
<1>2. ASSUME NEW c \in Callers, NEW f \in Funcs, CallerInline(c, f) PROVE TypeOK' /\ Locking'
  BY <1>2 DEF CallerInline, Inline, InThisThread
<1>3. ASSUME NEW c \in Callers, Lock(c) PROVE TypeOK' /\ Locking'
  BY <1>3 DEF Lock
<1>4. ASSUME NEW c \in Callers, Push(c) PROVE TypeOK' /\ Locking'
  BY <1>4 DEF Push
<1>5. ASSUME NEW c \in Callers, Wakeup(c) PROVE TypeOK' /\ Locking'
  BY <1>5 DEF Wakeup
<1>6. ASSUME NEW f \in Funcs, LoopInline(f) PROVE TypeOK' /\ Locking'
  BY <1>6 DEF LoopInline, Inline, InUserCode
<1>7. ASSUME NEW fd \in SockFds, AddEvent(fd) PROVE TypeOK' /\ Locking'
  BY <1>7 DEF AddEvent, EnableReading, InUserCode
<1>8. ASSUME NEW fd \in SockFds, RemoveEvent(fd) PROVE TypeOK' /\ Locking'
  BY <1>8 DEF RemoveEvent, InUserCode
<1>9. ASSUME Run PROVE TypeOK' /\ Locking'
  BY <1>9 DEF Run
<1>10. ASSUME PollReady PROVE TypeOK' /\ Locking'
  BY <1>10 DEF PollReady, Readable
<1>11. ASSUME TimedOut PROVE TypeOK' /\ Locking'
  BY <1>11 DEF TimedOut
<1>12. ASSUME Interrupted PROVE TypeOK' /\ Locking'
  BY <1>12 DEF Interrupted
<1>13. ASSUME NEW fd \in active, Dispatch(fd) PROVE TypeOK' /\ Locking'
  BY <1>13 DEF Dispatch
<1>14. ASSUME HandlerReturns PROVE TypeOK' /\ Locking'
  BY <1>14 DEF HandlerReturns
<1>15. ASSUME AllDispatched PROVE TypeOK' /\ Locking'
  BY <1>15 DEF AllDispatched
<1>16. ASSUME BeginFunctions PROVE TypeOK' /\ Locking'
  BY <1>16 DEF BeginFunctions
<1>17. ASSUME LockFunctions PROVE TypeOK' /\ Locking'
  BY <1>17 DEF LockFunctions
<1>18. ASSUME Swap PROVE TypeOK' /\ Locking'
  BY <1>18 DEF Swap
<1>19. ASSUME RunNext PROVE TypeOK' /\ Locking'
  <2>1. Head(allfunctors) \in Funcs /\ Tail(allfunctors) \in Seq(Funcs)
    BY <1>19, HeadTailProperties DEF RunNext
  <2>. QED BY <1>19, <2>1 DEF RunNext
<1>20. ASSUME FunctorReturns PROVE TypeOK' /\ Locking'
  BY <1>20 DEF FunctorReturns
<1>21. ASSUME EndFunctions PROVE TypeOK' /\ Locking'
  BY <1>21 DEF EndFunctions
<1>22. ASSUME NEW fd \in SockFds, SockReady(fd) PROVE TypeOK' /\ Locking'
  BY <1>22 DEF SockReady
<1>23. ASSUME NEW fd \in SockFds, CloseFd(fd) PROVE TypeOK' /\ Locking'
  BY <1>23 DEF CloseFd
<1>24. CASE UNCHANGED vars
  BY <1>24 DEF vars
<1>. QED
  BY <1>1, <1>2, <1>3, <1>4, <1>5, <1>6, <1>7, <1>8, <1>9, <1>10, <1>11, <1>12, <1>13, <1>14, <1>15, <1>16, <1>17, <1>18, <1>19, <1>20, <1>21, <1>22, <1>23, <1>24 DEF Next, CallerStep, LoopStep

\* The functors in flight are the ones the callers hold.
LEMMA InFlightArgs ==
  TypeOK /\ Locking => InFlight = {arg[c] : c \in Callers} \ {NoFunc}
  BY DEF TypeOK, Locking, InFlight

\* Everything that reached the queue, in the order it did or will run.
Accepted == ran \o (allfunctors \o functions)

\* The five steps that move a functor keep every functor in one place.
LEMMA ExactlyOnceStep ==
  TypeOK /\ Locking /\ ExactlyOnce /\ TypeOK' /\ Locking' /\ [Next]_vars
    => ExactlyOnce'
<1>. SUFFICES ASSUME TypeOK, Locking, ExactlyOnce, TypeOK', Locking', [Next]_vars
              PROVE  ExactlyOnce'
  OBVIOUS
<1>. DEFINE Args == {arg[c] : c \in Callers} \ {NoFunc}
<1>1. /\ ran \in Seq(Funcs) /\ allfunctors \in Seq(Funcs) /\ functions \in Seq(Funcs)
      /\ allfunctors \o functions \in Seq(Funcs)
      /\ Accepted \in Seq(Funcs)
  BY ConcatProperties DEF TypeOK, Accepted
<1>2. InFlight = Args /\ InFlight' = Args'
  <2>1. InFlight = Args
    BY InFlightArgs
  <2>2. \A c \in Callers : callerPc'[c] \in {"lock", "push"} <=> arg'[c] # NoFunc
    BY DEF Locking
  <2>3. InFlight' = Args'
    BY <2>2 DEF InFlight
  <2>. QED BY <2>1, <2>3
<1>3. /\ IsInjective(Accepted)
      /\ \A c, d \in Callers : c # d /\ arg[c] = arg[d] => arg[c] = NoFunc
      /\ Args \cap Range(Accepted) = {}
      /\ handed = Args \cup Range(Accepted)
  BY <1>2 DEF ExactlyOnce, Accepted
<1>4. ASSUME IsInjective(Accepted'),
             \A c, d \in Callers : c # d /\ arg'[c] = arg'[d] => arg'[c] = NoFunc,
             Args' \cap Range(Accepted') = {},
             handed' = Args' \cup Range(Accepted')
      PROVE  ExactlyOnce'
  BY <1>2, <1>4 DEF ExactlyOnce, Accepted
<1>5. ASSUME NEW f \in Funcs, Inline(f) PROVE ExactlyOnce'
  <2>1. f \notin Range(ran \o (allfunctors \o functions)) /\ f \notin Args
    BY <1>3, <1>5 DEF Inline, Accepted
  <2>2. Accepted' = Append(ran, f) \o (allfunctors \o functions)
    BY <1>5 DEF Inline, Accepted
  <2>3. IsInjective(Accepted') /\ Range(Accepted') = Range(Accepted) \cup {f}
    <3>. DEFINE p == allfunctors \o functions
    <3>1. /\ p \in Seq(Funcs) /\ ran \in Seq(Funcs)
          /\ IsInjective(ran \o p) /\ f \notin Range(ran \o p)
      BY <1>1, <1>3, <2>1 DEF Accepted
    <3>. HIDE DEF p
    <3>2. /\ IsInjective(Append(ran, f) \o p)
          /\ Range(Append(ran, f) \o p) = Range(ran \o p) \cup {f}
      BY <3>1, InsertFresh
    <3>. QED BY <2>2, <3>2 DEF Accepted, p
  <2>4. Args' = Args /\ arg' = arg /\ handed' = handed \cup {f}
    BY <1>5 DEF Inline
  <2>. QED BY <1>3, <1>4, <2>1, <2>3, <2>4
<1>6. ASSUME NEW c \in Callers, NEW f \in Funcs, RunInLoop(c, f) PROVE ExactlyOnce'
  <2>1. Accepted' = Accepted /\ f \notin handed /\ handed' = handed \cup {f}
    BY <1>6 DEF RunInLoop, queueVars, Accepted
  <2>2. arg[c] = NoFunc /\ arg' = [arg EXCEPT ![c] = f]
    BY <1>6 DEF RunInLoop, Locking
  <2>3. /\ f # NoFunc /\ arg'[c] = f
        /\ \A d \in Callers : d # c => arg'[d] = arg[d]
    BY <2>2, LoopAssumption DEF TypeOK
  <2>4. Args' = Args \cup {f}
    BY <2>2, <2>3
  <2>5. \A d \in Callers : arg[d] # f
    BY <1>3, <2>1, <2>3
  <2>6. \A d, e \in Callers : d # e /\ arg'[d] = arg'[e] => arg'[d] = NoFunc
    <3>1. SUFFICES ASSUME NEW d \in Callers, NEW e \in Callers, d # e, arg'[d] = arg'[e]
                   PROVE  arg'[d] = NoFunc
      OBVIOUS
    <3>2. d # c /\ e # c
      BY <2>3, <2>5, <3>1
    <3>. QED BY <1>3, <2>3, <3>1, <3>2
  <2>7. f \notin Range(Accepted)
    BY <1>3, <2>1
  <2>8. Args' \cap Range(Accepted') = {} /\ handed' = Args' \cup Range(Accepted')
    BY <1>3, <2>1, <2>4, <2>7
  <2>. QED BY <1>3, <1>4, <2>1, <2>6, <2>8
<1>7. ASSUME NEW c \in Callers, Push(c) PROVE ExactlyOnce'
  <2>1. /\ arg[c] \in Funcs /\ arg[c] # NoFunc
        /\ functions' = Append(functions, arg[c]) /\ ran' = ran /\ allfunctors' = allfunctors
        /\ arg' = [arg EXCEPT ![c] = NoFunc] /\ handed' = handed
    BY <1>7 DEF Push, Locking, TypeOK
  <2>2. Accepted' = Append(Accepted, arg[c]) \o <<>>
    <3>1. allfunctors \o Append(functions, arg[c]) = Append(allfunctors \o functions, arg[c])
      BY <1>1, <2>1, AppendToConcat
    <3>2. ran \o Append(allfunctors \o functions, arg[c]) = Append(Accepted, arg[c])
      BY <1>1, <2>1, AppendToConcat DEF Accepted
    <3>3. Append(Accepted, arg[c]) \in Seq(Funcs)
      BY <1>1, <2>1
    <3>4. Append(Accepted, arg[c]) \o <<>> = Append(Accepted, arg[c])
      BY <3>3, ConcatEmptySeq
    <3>. QED BY <2>1, <3>1, <3>2, <3>4 DEF Accepted
  <2>3. arg[c] \notin Range(Accepted) /\ Accepted \o <<>> = Accepted
    BY <1>1, <1>3, <2>1, ConcatEmptySeq
  <2>4. IsInjective(Accepted') /\ Range(Accepted') = Range(Accepted) \cup {arg[c]}
    <3>. HIDE DEF Accepted
    <3>1. <<>> \in Seq(Funcs)
      BY EmptySeq
    <3>2. IsInjective(Accepted \o <<>>) /\ arg[c] \notin Range(Accepted \o <<>>)
      BY <1>3, <2>3
    <3>. DEFINE e == arg[c]
                none == <<>>
    <3>3. /\ Accepted \in Seq(Funcs) /\ e \in Funcs /\ none \in Seq(Funcs)
          /\ IsInjective(Accepted \o none) /\ e \notin Range(Accepted \o none)
      BY <1>1, <2>1, <3>1, <3>2
    <3>. HIDE DEF e, none
    <3>4. /\ IsInjective(Append(Accepted, e) \o none)
          /\ Range(Append(Accepted, e) \o none) = Range(Accepted \o none) \cup {e}
      BY <3>3, InsertFresh
    <3>. QED BY <2>2, <2>3, <3>4 DEF e, none
  <2>5. arg'[c] = NoFunc /\ \A d \in Callers : d # c => arg'[d] = arg[d] /\ arg[d] # arg[c]
    BY <1>3, <2>1 DEF TypeOK
  <2>6. Args' = Args \ {arg[c]}
    BY <2>1, <2>5
  <2>7. \A d, e \in Callers : d # e /\ arg'[d] = arg'[e] => arg'[d] = NoFunc
    BY <1>3, <2>5
  <2>8. arg[c] \in Args
    BY <2>1
  <2>. QED BY <1>3, <1>4, <2>1, <2>4, <2>6, <2>7, <2>8
<1>8. ASSUME Swap PROVE ExactlyOnce'
  <2>1. allfunctors = <<>> /\ allfunctors' = functions /\ functions' = <<>>
        /\ ran' = ran /\ arg' = arg /\ handed' = handed
    BY <1>8 DEF Swap, Locking, callerVars
  <2>2. functions \o <<>> = functions /\ <<>> \o functions = functions
    BY <1>1, ConcatEmptySeq
  <2>3. Accepted' = Accepted
    BY <2>1, <2>2 DEF Accepted
  <2>. QED BY <1>3, <1>4, <2>1, <2>3
<1>9. ASSUME RunNext PROVE ExactlyOnce'
  <2>1. /\ allfunctors # <<>> /\ ran' = Append(ran, Head(allfunctors))
        /\ allfunctors' = Tail(allfunctors) /\ functions' = functions
        /\ arg' = arg /\ handed' = handed
    BY <1>9 DEF RunNext, callerVars
  <2>2. Head(allfunctors) \in Funcs /\ Tail(allfunctors) \in Seq(Funcs)
    BY <1>1, <2>1, HeadTailProperties
  <2>3. /\ allfunctors \o functions # <<>>
        /\ Head(allfunctors \o functions) = Head(allfunctors)
        /\ Tail(allfunctors \o functions) = Tail(allfunctors) \o functions
    BY <1>1, <2>1, HeadTailConcat
  <2>4. Append(ran, Head(allfunctors \o functions)) \o Tail(allfunctors \o functions)
          = Accepted
    BY <1>1, <2>3, MoveHead DEF Accepted
  <2>5. Accepted' = Accepted
    BY <2>1, <2>3, <2>4 DEF Accepted
  <2>. QED BY <1>3, <1>4, <2>1, <2>5
<1>10. ASSUME UNCHANGED <<functions, allfunctors, ran, arg, handed>> PROVE ExactlyOnce'
  <2>1. Accepted' = Accepted /\ Args' = Args
    BY <1>10 DEF Accepted
  <2>. QED BY <1>3, <1>4, <1>10, <2>1
<1>11. ASSUME NEW c \in Callers, Lock(c) \/ Wakeup(c) PROVE ExactlyOnce'
  BY <1>10, <1>11 DEF Lock, Wakeup, queueVars
<1>12. ASSUME NEW fd \in SockFds, AddEvent(fd) \/ RemoveEvent(fd) \/ SockReady(fd) \/ CloseFd(fd)
       PROVE  ExactlyOnce'
  BY <1>10, <1>12 DEF AddEvent, RemoveEvent, SockReady, CloseFd, queueVars, callerVars
<1>13. ASSUME NEW fd \in active, Dispatch(fd) PROVE ExactlyOnce'
  BY <1>10, <1>13 DEF Dispatch, queueVars, callerVars
<1>14. ASSUME \/ Run \/ PollReady \/ TimedOut \/ Interrupted \/ HandlerReturns
              \/ AllDispatched \/ BeginFunctions \/ LockFunctions \/ FunctorReturns
              \/ EndFunctions
       PROVE  ExactlyOnce'
  BY <1>10, <1>14 DEF Run, PollReady, TimedOut, Interrupted, HandlerReturns, AllDispatched,
     BeginFunctions, LockFunctions, FunctorReturns, EndFunctions, queueVars, callerVars
<1>15. CASE UNCHANGED vars
  BY <1>10, <1>15 DEF vars, queueVars, callerVars
<1>. QED
  BY <1>5, <1>6, <1>7, <1>8, <1>9, <1>11, <1>12, <1>13, <1>14, <1>15
     DEF Next, CallerStep, LoopStep, CallerInline, LoopInline

\* The conjunction is inductive: types, locking, and one place per functor.
IInv == TypeOK /\ Locking /\ ExactlyOnce

\* When the loop is constructed nothing was handed over.
LEMMA ExactlyOnceInit == Init => ExactlyOnce
<1>. SUFFICES ASSUME Init PROVE ExactlyOnce
  OBVIOUS
<1>1. ran \o (allfunctors \o functions) = <<>>
  BY ConcatEmptySeq DEF Init
<1>2. InFlight = {}
  BY DEF Init, InFlight
<1>3. Range(<<>>) = {} /\ IsInjective(<<>>)
  BY DEF Range, IsInjective
<1>. QED
  BY <1>1, <1>2, <1>3 DEF Init, ExactlyOnce

\* IInv holds in every state of every behaviour.
THEOREM Inductive == Spec => []IInv
<1>1. Init => IInv
  BY TypesInit, ExactlyOnceInit DEF IInv
<1>2. IInv /\ [Next]_vars => IInv'
  BY TypesStep, ExactlyOnceStep DEF IInv
<1>. QED
  BY <1>1, <1>2, PTL DEF Spec

\* The variables keep their types, for any number of threads and functors.
THEOREM TypeCorrect == Spec => []TypeOK
<1>1. IInv => TypeOK
  BY DEF IInv
<1>. QED
  BY <1>1, Inductive, PTL

\* No functor handed to runInLoop is lost or run twice, whatever the threads,
\* the functors and the descriptors: the mutex of addFunInLoop and of
\* runAllFunctionInLoop is enough.
THEOREM NoFunctorLostOrDoubled == Spec => []ExactlyOnce
<1>1. IInv => ExactlyOnce
  BY DEF IInv
<1>. QED
  BY <1>1, Inductive, PTL

\* A loop that was just constructed is an empty mailbox.
LEMMA BoxInit == Init => Box!Init
  BY ConcatEmptySeq DEF Init, Box!Init

\* A functor that is not yet handed over is fresh for the mailbox, and so is
\* one that its caller has not pushed.
LEMMA FreshInBox ==
  ASSUME TypeOK, ExactlyOnce, NEW f,
         f \notin handed \/ f \in InFlight
  PROVE  Box!Fresh(f)
<1>1. /\ ran \in Seq(Funcs) /\ allfunctors \in Seq(Funcs) /\ functions \in Seq(Funcs)
      /\ allfunctors \o functions \in Seq(Funcs)
  BY ConcatProperties DEF TypeOK
<1>. DEFINE p == allfunctors \o functions
<1>2. f \notin Range(ran \o p)
  BY DEF ExactlyOnce
<1>3. p \in Seq(Funcs)
  BY <1>1
<1>4. f \notin Box!Range(p) /\ f \notin Box!Range(ran) <=> Box!Fresh(f)
  BY DEF Box!Fresh
<1>. HIDE DEF p
<1>5. Range(ran \o p) = Range(ran) \cup Range(p)
  BY <1>1, <1>3, RangeConcatenation
<1>6. Box!Range(p) = Range(p) /\ Box!Range(ran) = Range(ran)
  BY DEF Box!Range, Range
<1>. QED
  BY <1>2, <1>4, <1>5, <1>6

\* Every step of the loop is a step of the mailbox, or leaves it as it was:
\* pushing is Submit, an inline call is RunDirect, taking the next of the batch
\* is RunNext, and the swap moves the queue into the batch unchanged.
LEMMA BoxStep == IInv /\ [Next]_vars => [Box!Next]_(Box!mailboxVars)
<1>. SUFFICES ASSUME TypeOK, Locking, ExactlyOnce, [Next]_vars
              PROVE  [Box!Next]_(Box!mailboxVars)
  BY DEF IInv
<1>. USE DEF Box!mailboxVars
<1>1. /\ ran \in Seq(Funcs) /\ allfunctors \in Seq(Funcs) /\ functions \in Seq(Funcs)
  BY DEF TypeOK
<1>2. ASSUME NEW f \in Funcs, Inline(f) PROVE Box!Next
  <2>1. Box!Fresh(f)
    BY <1>2, FreshInBox DEF Inline
  <2>. QED BY <1>2, <2>1 DEF Inline, Box!Next, Box!RunDirect
<1>3. ASSUME NEW c \in Callers, Push(c) PROVE Box!Next
  <2>1. arg[c] \in Funcs /\ arg[c] \in InFlight
    BY <1>3 DEF Push, Locking, TypeOK, InFlight
  <2>2. Box!Fresh(arg[c])
    BY <2>1, FreshInBox
  <2>3. functions' = Append(functions, arg[c]) /\ allfunctors' = allfunctors /\ ran' = ran
    BY <1>3 DEF Push, Locking
  <2>4. allfunctors' \o functions' = Append(allfunctors \o functions, arg[c])
    BY <1>1, <2>1, <2>3, AppendToConcat
  <2>. QED BY <2>1, <2>2, <2>3, <2>4 DEF Box!Next, Box!Submit
<1>4. ASSUME Swap PROVE UNCHANGED Box!mailboxVars
  <2>1. allfunctors = <<>> /\ allfunctors' = functions /\ functions' = <<>> /\ ran' = ran
    BY <1>4 DEF Swap, Locking
  <2>2. functions \o <<>> = functions /\ <<>> \o functions = functions
    BY <1>1, ConcatEmptySeq
  <2>. QED BY <2>1, <2>2
<1>5. ASSUME RunNext PROVE Box!Next
  <2>1. /\ allfunctors # <<>> /\ ran' = Append(ran, Head(allfunctors))
        /\ allfunctors' = Tail(allfunctors) /\ functions' = functions
    BY <1>5 DEF RunNext
  <2>2. /\ allfunctors \o functions # <<>>
        /\ Head(allfunctors \o functions) = Head(allfunctors)
        /\ Tail(allfunctors \o functions) = Tail(allfunctors) \o functions
    BY <1>1, <2>1, HeadTailConcat
  <2>. QED BY <2>1, <2>2 DEF Box!Next, Box!RunNext
<1>6. ASSUME UNCHANGED <<functions, allfunctors, ran>> PROVE UNCHANGED Box!mailboxVars
  BY <1>6
<1>7. ASSUME NEW c \in Callers, (\E f \in Funcs : RunInLoop(c, f)) \/ Lock(c) \/ Wakeup(c)
      PROVE  UNCHANGED Box!mailboxVars
  BY <1>6, <1>7 DEF RunInLoop, Lock, Wakeup, queueVars
<1>8. ASSUME NEW fd \in SockFds, AddEvent(fd) \/ RemoveEvent(fd) \/ SockReady(fd) \/ CloseFd(fd)
      PROVE  UNCHANGED Box!mailboxVars
  BY <1>6, <1>8 DEF AddEvent, RemoveEvent, SockReady, CloseFd, queueVars
<1>9. ASSUME NEW fd \in active, Dispatch(fd) PROVE UNCHANGED Box!mailboxVars
  BY <1>6, <1>9 DEF Dispatch, queueVars
<1>10. ASSUME \/ Run \/ PollReady \/ TimedOut \/ Interrupted \/ HandlerReturns
              \/ AllDispatched \/ BeginFunctions \/ LockFunctions \/ FunctorReturns
              \/ EndFunctions
       PROVE  UNCHANGED Box!mailboxVars
  BY <1>6, <1>10 DEF Run, PollReady, TimedOut, Interrupted, HandlerReturns, AllDispatched,
     BeginFunctions, LockFunctions, FunctorReturns, EndFunctions, queueVars
<1>11. CASE UNCHANGED vars
  BY <1>6, <1>11 DEF vars, queueVars
<1>. QED
  BY <1>2, <1>3, <1>4, <1>5, <1>7, <1>8, <1>9, <1>10, <1>11
     DEF Next, CallerStep, LoopStep, CallerInline, LoopInline

\* The loop implements the mailbox: functors run in the order they were pushed,
\* each once, for any threads, functors and descriptors.
THEOREM ImplementsMailbox == Spec => MailboxSpec
<1>1. Init => Box!Init
  BY BoxInit
<1>2. IInv /\ [Next]_vars => [Box!Next]_(Box!mailboxVars)
  BY BoxStep
<1>. QED
  BY <1>1, <1>2, Inductive, PTL DEF Spec, MailboxSpec, Box!Spec
===============================================================================
