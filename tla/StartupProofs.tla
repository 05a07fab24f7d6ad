---------------------------- MODULE StartupProofs ----------------------------
(***************************************************************************)
(* A loop is given connections only when it is ready, and no loop more     *)
(* than its share, for any number of threads, starts and connections.      *)
(***************************************************************************)
EXTENDS Startup, SequenceTheorems, TLAPS

Published == {"published", "notified", "running"}
Prepared  == Published \cup {"init", "locked"}

\* How far the main thread has come: all threads but the one being started have
\* their loop in the pool.
Progress ==
    /\ main \in {"ready", "next", "listen"} => cur = Len(pool)
    /\ main \in {"lock", "check", "sleep", "asleep", "unlock"} => cur = Len(pool) + 1
    /\ main \in {"ready", "listen"} /\ isStart => cur = threadNum
    /\ ~isStart => main = "ready" /\ cur = 0

\* What a thread has done so far shows in its loop_ and in the callback's runs.
ThreadsAgree ==
    \A t \in Threads :
        /\ io[t] = "none" <=> t > cur
        /\ loop[t] = IF io[t] \in Published THEN t ELSE Null
        /\ inits[t] = IF io[t] \in Prepared THEN 1 ELSE 0

\* The pool has the loops of the threads in order.
PoolInOrder ==
    /\ \A i \in 1 .. Len(pool) : pool[i] = i /\ io[i] \in Published
    /\ main = "unlock" => io[cur] \in Published
    /\ inits[0] = IF threadNum = 0 /\ isStart /\ main # "next" THEN 1 ELSE 0

\* The loops before next_ are one connection ahead of the others.
RoundRobin ==
    /\ ~(isStart /\ main \in {"ready", "listen"}) => next = 0 /\ \A l \in Loops : given[l] = 0
    /\ \A l \in Loops : given[l] > 0 => inits[l] = 1
    /\ \E q \in Nat : \A i \in 1 .. Len(pool) : given[i] = q + IF i <= next THEN 1 ELSE 0

\* The inductive invariant.
IInv == TypeOK /\ Progress /\ ThreadsAgree /\ PoolInOrder /\ RoundRobin

-------------------------------------------------------------------------------
\* The bounds of the indexes.
LEMMA Bounds ==
  ASSUME TypeOK
  PROVE  /\ Len(pool) \in Nat /\ cur \in Nat /\ threadNum \in Nat /\ MaxThreads \in Nat
         /\ cur <= threadNum /\ threadNum <= MaxThreads
         /\ \A i \in Nat : i > 0 /\ i <= threadNum => i \in Threads /\ i \in Loops
         /\ \A t \in Threads : t \in Nat /\ t > 0 /\ t \in Loops
BY LenProperties, StartupAssumption DEF TypeOK, Threads, Loops

\* Every index of the pool is a thread and a loop.
LEMMA PoolThreads ==
  ASSUME TypeOK, Progress
  PROVE  /\ Len(pool) <= cur
         /\ \A i \in 1 .. Len(pool) : i \in Threads /\ i \in Loops /\ i \in Nat
<1>1. main \in {"ready", "next", "lock", "check", "sleep", "asleep", "unlock", "listen"}
  BY DEF TypeOK
<1>2. Len(pool) <= cur
  BY <1>1, Bounds DEF Progress
<1>. QED
  BY <1>2, Bounds

\* Nothing has been started at first.
LEMMA StartupInit == Init => IInv
<1>. SUFFICES ASSUME Init PROVE IInv
  OBVIOUS
<1>1. pool = <<>> /\ pool \in Seq(Threads) /\ Len(pool) = 0
  BY EmptySeq DEF Init
<1>2. TypeOK
  <2>1. /\ MaxThreads \in Nat /\ MaxStarts \in Nat
        /\ threadNum \in Nat /\ threadNum \in Loops
        /\ cur \in 0 .. threadNum /\ starts \in 0 .. MaxStarts
    BY StartupAssumption DEF Init, Loops
  <2>. QED BY <1>1, <2>1 DEF Init, TypeOK
<1>3. Progress
  BY <1>1 DEF Init, Progress
<1>4. ThreadsAgree
  <2>1. ASSUME NEW t \in Threads
        PROVE  io[t] = "none" /\ t > 0 /\ loop[t] = Null /\ inits[t] = 0
    BY Bounds, <1>2 DEF Init
  <2>. QED BY <2>1 DEF Init, ThreadsAgree, Published, Prepared
<1>5. PoolInOrder
  BY <1>1, StartupAssumption DEF Init, PoolInOrder, Loops
<1>6. RoundRobin
  BY <1>1, StartupAssumption DEF Init, RoundRobin, Loops
<1>. QED
  BY <1>2, <1>3, <1>4, <1>5, <1>6 DEF IInv

\* A call of start.
LEMMA StartStep ==
  ASSUME IInv, Start
  PROVE  IInv'
<1>1. /\ TypeOK /\ Progress /\ ThreadsAgree /\ PoolInOrder /\ RoundRobin
      /\ main = "ready" /\ starts < MaxStarts /\ starts' = starts + 1 /\ isStart' = TRUE
      /\ main' = IF isStart THEN "listen" ELSE "next"
      /\ threadNum' = threadNum /\ cur' = cur /\ owner' = owner
      /\ io' = io /\ loop' = loop /\ inits' = inits
      /\ pool' = pool /\ next' = next /\ given' = given
  BY DEF IInv, Start, threadVars, poolVars
<1>2. TypeOK'
  BY <1>1, StartupAssumption DEF TypeOK
<1>3. Progress' /\ ThreadsAgree' /\ PoolInOrder'
  BY <1>1 DEF Progress, ThreadsAgree, PoolInOrder
<1>4. RoundRobin'
  BY <1>1 DEF RoundRobin
<1>. QED
  BY <1>2, <1>3, <1>4 DEF IInv

\* A thread is created, or not.
LEMMA StartThreadStep ==
  ASSUME IInv, StartThread
  PROVE  IInv'
<1>1. PICK s \in {"born", "failed"} : io' = [io EXCEPT ![cur + 1] = s]
  BY DEF StartThread
<1>2. /\ TypeOK /\ Progress /\ ThreadsAgree /\ PoolInOrder /\ RoundRobin
      /\ main = "next" /\ cur < threadNum /\ cur' = cur + 1 /\ main' = "lock"
      /\ threadNum' = threadNum /\ isStart' = isStart /\ starts' = starts /\ owner' = owner
      /\ loop' = loop /\ inits' = inits
      /\ pool' = pool /\ next' = next /\ given' = given
  BY DEF IInv, StartThread, callVars, poolVars
<1>3. /\ cur + 1 \in Threads /\ cur \in Nat /\ threadNum \in Nat
      /\ cur = Len(pool) /\ isStart /\ \A t \in Threads : t \in Nat
  BY <1>2, Bounds DEF Progress
<1>4. /\ io'[cur + 1] = s /\ io[cur + 1] = "none"
      /\ \A t \in Threads \ {cur + 1} : io'[t] = io[t]
  BY <1>1, <1>2, <1>3 DEF TypeOK, ThreadsAgree
<1>5. TypeOK'
  <2>1. cur' \in 0 .. threadNum'
    BY <1>2, <1>3
  <2>. QED BY <1>1, <1>2, <2>1 DEF TypeOK
<1>6. Progress'
  BY <1>2, <1>3 DEF Progress
<1>7. ThreadsAgree'
  <2>1. ASSUME NEW t \in Threads, t = cur + 1
        PROVE  /\ io'[t] = "none" <=> t > cur'
               /\ loop'[t] = IF io'[t] \in Published THEN t ELSE Null
               /\ inits'[t] = IF io'[t] \in Prepared THEN 1 ELSE 0
    BY <1>2, <1>3, <1>4, <2>1 DEF ThreadsAgree, Published, Prepared
  <2>2. ASSUME NEW t \in Threads, t # cur + 1
        PROVE  /\ io'[t] = "none" <=> t > cur'
               /\ loop'[t] = IF io'[t] \in Published THEN t ELSE Null
               /\ inits'[t] = IF io'[t] \in Prepared THEN 1 ELSE 0
    <3>1. t > cur <=> t > cur'
      BY <1>2, <1>3, <2>2
    <3>. QED BY <1>2, <1>4, <2>2, <3>1 DEF ThreadsAgree
  <2>. QED BY <2>1, <2>2 DEF ThreadsAgree
<1>8. PoolInOrder'
  <2>1. \A i \in 1 .. Len(pool) : i \in Threads \ {cur + 1}
    BY <1>2, <1>3, Bounds
  <2>2. \A i \in 1 .. Len(pool') : pool'[i] = i /\ io'[i] \in Published
    BY <1>2, <1>4, <2>1 DEF PoolInOrder
  <2>3. threadNum # 0
    BY <1>2, <1>3
  <2>. QED BY <1>2, <2>2, <2>3 DEF PoolInOrder
<1>9. RoundRobin'
  BY <1>2 DEF RoundRobin
<1>. QED
  BY <1>5, <1>6, <1>7, <1>8, <1>9 DEF IInv

\* The steps of the main thread that only move it and the mutex.
LEMMA MainMovesStep ==
  ASSUME IInv, Lock \/ Check \/ Sleep \/ SpuriousWakeup \/ Listen
  PROVE  IInv'
<1>1. /\ TypeOK /\ Progress /\ ThreadsAgree /\ PoolInOrder /\ RoundRobin
      /\ threadNum' = threadNum /\ isStart' = isStart /\ starts' = starts /\ cur' = cur
      /\ io' = io /\ loop' = loop /\ inits' = inits
      /\ pool' = pool /\ next' = next /\ given' = given
  BY DEF IInv, Lock, Check, Sleep, SpuriousWakeup, Listen, callVars, threadVars, poolVars
<1>2. /\ owner' \in [Threads -> {"free", "main", "io"}]
      /\ \/ /\ main \in {"lock", "check", "sleep", "asleep"}
            /\ main' \in {"lock", "check", "sleep", "asleep"}
         \/ main = "check" /\ main' = "unlock" /\ loop[cur] # Null
         \/ main = "listen" /\ main' = "ready"
  BY <1>1 DEF Lock, Check, Sleep, SpuriousWakeup, WakesTo, Listen, TypeOK
<1>3. TypeOK'
  BY <1>1, <1>2 DEF TypeOK
<1>4. Progress' /\ ThreadsAgree'
  BY <1>1, <1>2 DEF Progress, ThreadsAgree
<1>5. PoolInOrder'
  <2>1. CASE main' = "unlock"
    <3>1. cur \in Threads
      BY <1>1, <1>2, <2>1, Bounds DEF Progress
    <3>2. loop[cur] # Null
      BY <1>2, <2>1
    <3>3. io[cur] \in Published
      BY <1>1, <3>1, <3>2 DEF ThreadsAgree
    <3>. QED BY <1>1, <1>2, <2>1, <3>3 DEF PoolInOrder
  <2>2. CASE main' # "unlock"
    BY <1>1, <1>2, <2>2 DEF PoolInOrder
  <2>. QED BY <2>1, <2>2
<1>6. RoundRobin'
  BY <1>1, <1>2 DEF RoundRobin
<1>. QED
  BY <1>3, <1>4, <1>5, <1>6 DEF IInv

\* The pool is complete.
LEMMA AllStartedStep ==
  ASSUME IInv, AllStarted
  PROVE  IInv'
<1>1. /\ TypeOK /\ Progress /\ ThreadsAgree /\ PoolInOrder /\ RoundRobin
      /\ main = "next" /\ cur = threadNum /\ main' = "listen"
      /\ inits' = IF threadNum = 0 THEN [inits EXCEPT ![0] = inits[0] + 1] ELSE inits
      /\ threadNum' = threadNum /\ isStart' = isStart /\ starts' = starts /\ cur' = cur
      /\ io' = io /\ loop' = loop /\ owner' = owner
      /\ pool' = pool /\ next' = next /\ given' = given
  BY DEF IInv, AllStarted, callVars, poolVars
<1>2. isStart /\ inits[0] = 0
  BY <1>1 DEF Progress, PoolInOrder
<1>3. /\ inits' \in [Loops -> Nat]
      /\ inits'[0] = IF threadNum = 0 THEN 1 ELSE 0
      /\ \A t \in Threads : inits'[t] = inits[t]
  <2>1. 0 \in Loops /\ inits \in [Loops -> Nat] /\ \A t \in Threads : t \in Loops /\ t # 0
    BY <1>1, StartupAssumption DEF TypeOK, Loops, Threads
  <2>. QED BY <1>1, <1>2, <2>1
<1>4. TypeOK'
  BY <1>1, <1>3 DEF TypeOK
<1>5. Progress'
  BY <1>1 DEF Progress
<1>6. ThreadsAgree'
  BY <1>1, <1>3 DEF ThreadsAgree
<1>7. PoolInOrder'
  BY <1>1, <1>2, <1>3 DEF PoolInOrder
<1>8. RoundRobin'
  <2>1. next = 0 /\ \A l \in Loops : given[l] = 0
    BY <1>1 DEF RoundRobin
  <2>2. \E q \in Nat : \A i \in 1 .. Len(pool) : given[i] = q + IF i <= next THEN 1 ELSE 0
    BY <1>1 DEF RoundRobin
  <2>. QED BY <1>1, <2>1, <2>2 DEF RoundRobin
<1>. QED
  BY <1>4, <1>5, <1>6, <1>7, <1>8 DEF IInv

\* A loop gets into the pool.
LEMMA UnlockStep ==
  ASSUME IInv, Unlock
  PROVE  IInv'
<1>1. /\ TypeOK /\ Progress /\ ThreadsAgree /\ PoolInOrder /\ RoundRobin
      /\ main = "unlock" /\ main' = "next"
      /\ owner' = [owner EXCEPT ![cur] = "free"]
      /\ pool' = Append(pool, loop[cur])
      /\ threadNum' = threadNum /\ isStart' = isStart /\ starts' = starts /\ cur' = cur
      /\ io' = io /\ loop' = loop /\ inits' = inits
      /\ next' = next /\ given' = given
  BY DEF IInv, Unlock, callVars, threadVars
<1>2. /\ cur = Len(pool) + 1 /\ Len(pool) \in Nat /\ isStart
      /\ cur \in Threads /\ threadNum # 0
  BY <1>1, Bounds DEF Progress
<1>3. io[cur] \in Published /\ loop[cur] = cur
  BY <1>1, <1>2 DEF PoolInOrder, ThreadsAgree
<1>4. /\ pool' \in Seq(Threads) /\ Len(pool') = cur
      /\ \A i \in 1 .. Len(pool) : pool'[i] = pool[i]
      /\ pool'[cur] = cur
  <2>1. pool \in Seq(Threads)
    BY <1>1 DEF TypeOK
  <2>. QED BY <1>1, <1>2, <1>3, <2>1, AppendProperties
<1>5. next = 0 /\ \A l \in Loops : given[l] = 0
  BY <1>1 DEF RoundRobin
<1>6. TypeOK'
  BY <1>1, <1>4, <1>5 DEF TypeOK
<1>7. Progress'
  BY <1>1, <1>2, <1>4 DEF Progress
<1>8. ThreadsAgree'
  BY <1>1 DEF ThreadsAgree
<1>9. PoolInOrder'
  <2>1. ASSUME NEW i \in 1 .. Len(pool') PROVE pool'[i] = i /\ io'[i] \in Published
    <3>1. CASE i = cur
      BY <1>1, <1>3, <1>4, <3>1
    <3>2. CASE i # cur
      <4>1. i \in 1 .. Len(pool)
        BY <1>2, <1>4, <3>2
      <4>. QED BY <1>1, <1>4, <4>1 DEF PoolInOrder
    <3>. QED BY <3>1, <3>2
  <2>. QED BY <1>1, <1>2, <2>1 DEF PoolInOrder
<1>10. RoundRobin'
  <2>1. \A i \in 1 .. Len(pool') : i \in Loops /\ ~(i <= next)
    BY <1>1, <1>2, <1>4, <1>5, Bounds
  <2>2. \A i \in 1 .. Len(pool') : given'[i] = 0 + IF i <= next' THEN 1 ELSE 0
    BY <1>1, <1>5, <2>1
  <2>3. \E q \in Nat : \A i \in 1 .. Len(pool') : given'[i] = q + IF i <= next' THEN 1 ELSE 0
    BY <2>2, 0 \in Nat
  <2>. QED BY <1>1, <1>5, <2>3 DEF RoundRobin
<1>. QED
  BY <1>6, <1>7, <1>8, <1>9, <1>10 DEF IInv

\* The next loop in turn is given a connection.
LEMMA GetNextLoopStep ==
  ASSUME IInv, GetNextLoop
  PROVE  IInv'
<1>. DEFINE l == IF pool = <<>> THEN 0 ELSE pool[next + 1]
<1>1. /\ TypeOK /\ Progress /\ ThreadsAgree /\ PoolInOrder /\ RoundRobin
      /\ main = "ready" /\ isStart
      /\ given' = [given EXCEPT ![l] = given[l] + 1]
      /\ next' = IF pool = <<>> THEN next ELSE NextIndex(next)
      /\ threadNum' = threadNum /\ isStart' = isStart /\ starts' = starts
      /\ main' = main /\ cur' = cur /\ owner' = owner
      /\ io' = io /\ loop' = loop /\ inits' = inits /\ pool' = pool
  BY DEF IInv, GetNextLoop, callVars, threadVars
<1>2. /\ Len(pool) \in Nat /\ Len(pool) = threadNum /\ next \in Nat
      /\ given \in [Loops -> Nat] /\ 0 \in Loops
      /\ pool \in Seq(Threads) /\ (pool = <<>> <=> Len(pool) = 0)
  <2>1. Len(pool) \in Nat /\ Len(pool) = threadNum
    BY <1>1, Bounds DEF Progress
  <2>2. next \in Nat /\ given \in [Loops -> Nat] /\ pool \in Seq(Threads)
    BY <1>1 DEF TypeOK
  <2>3. 0 \in Loops
    BY StartupAssumption DEF Loops
  <2>4. pool = <<>> <=> Len(pool) = 0
    BY <2>2, EmptySeq
  <2>. QED BY <2>1, <2>2, <2>3, <2>4
<1>3. PICK q \in Nat : \A i \in 1 .. Len(pool) : given[i] = q + IF i <= next THEN 1 ELSE 0
  BY <1>1 DEF RoundRobin
<1>4. \A i \in 1 .. Len(pool) : i \in Loops /\ i \in Nat
  BY <1>1, PoolThreads
<1>12. ASSUME NEW c \in Loops, given' = [given EXCEPT ![c] = given[c] + 1], inits[c] = 1
      PROVE  given' \in [Loops -> Nat] /\ \A k \in Loops : given'[k] > 0 => inits'[k] = 1
  <2>1. given[c] + 1 \in Nat
    BY <1>2
  <2>2. given' \in [Loops -> Nat]
    BY <1>2, <1>12, <2>1
  <2>3. ASSUME NEW k \in Loops, given'[k] > 0 PROVE inits'[k] = 1
    <3>1. CASE k = c
      BY <1>1, <1>12, <3>1
    <3>2. CASE k # c
      BY <1>1, <1>2, <1>12, <2>3, <3>2 DEF RoundRobin
    <3>. QED BY <3>1, <3>2
  <2>. QED BY <2>2, <2>3
<1>5. CASE pool = <<>>
  <2>1. l = 0 /\ next' = next /\ inits[0] = 1
    BY <1>1, <1>2, <1>5 DEF PoolInOrder
  <2>2. given' \in [Loops -> Nat] /\ \A k \in Loops : given'[k] > 0 => inits'[k] = 1
    BY <1>1, <1>2, <1>12, <2>1
  <2>3. TypeOK'
    BY <1>1, <2>1, <2>2 DEF TypeOK
  <2>4. Progress' /\ ThreadsAgree' /\ PoolInOrder'
    BY <1>1 DEF Progress, ThreadsAgree, PoolInOrder
  <2>5. \A i \in 1 .. Len(pool') : given'[i] = q + IF i <= next' THEN 1 ELSE 0
    BY <1>1, <1>2, <1>5
  <2>6. RoundRobin'
    BY <1>1, <2>1, <2>2, <2>5 DEF RoundRobin
  <2>. QED BY <2>3, <2>4, <2>6 DEF IInv
<1>6. CASE pool # <<>>
  <2>1. next < Len(pool) /\ next + 1 \in 1 .. Len(pool)
    BY <1>1, <1>2, <1>6 DEF TypeOK
  <2>2. l = next + 1 /\ io[next + 1] \in Published /\ next + 1 \in Loops
    BY <1>1, <1>4, <1>6, <2>1 DEF PoolInOrder
  <2>3. next + 1 \in Threads /\ inits[next + 1] = 1
    <3>1. next + 1 \in Threads
      BY <1>1, <1>2, <2>1, Bounds
    <3>. QED BY <1>1, <2>2, <3>1 DEF ThreadsAgree, Prepared
  <2>4. /\ given' = [given EXCEPT ![next + 1] = given[next + 1] + 1]
        /\ given' \in [Loops -> Nat] /\ \A k \in Loops : given'[k] > 0 => inits'[k] = 1
    BY <1>1, <1>12, <2>2, <2>3
  <2>5. next' = IF next + 1 >= Len(pool) THEN 0 ELSE next + 1
    BY <1>1, <1>6 DEF NextIndex
  <2>6. next' \in Nat /\ (next' # 0 => next' < Len(pool))
    BY <1>2, <2>5
  <2>7. TypeOK'
    BY <1>1, <2>4, <2>6 DEF TypeOK
  <2>8. Progress' /\ ThreadsAgree' /\ PoolInOrder'
    BY <1>1 DEF Progress, ThreadsAgree, PoolInOrder
  <2>9. \E r \in Nat : \A i \in 1 .. Len(pool) : given'[i] = r + IF i <= next' THEN 1 ELSE 0
    <3>1. \A i \in 1 .. Len(pool) : given'[i] = IF i = next + 1 THEN given[i] + 1 ELSE given[i]
      BY <1>2, <1>4, <2>4
    <3>2. \A i \in 1 .. Len(pool) : given'[i] = q + IF i <= next + 1 THEN 1 ELSE 0
      BY <1>2, <1>3, <1>4, <3>1
    <3>3. CASE next + 1 >= Len(pool)
      <4>1. next' = 0 /\ \A i \in 1 .. Len(pool) : i <= next + 1 /\ ~(i <= 0)
        BY <1>2, <2>5, <3>3
      <4>. DEFINE r == q + 1
      <4>2. r \in Nat /\ \A i \in 1 .. Len(pool) : given'[i] = r + IF i <= next' THEN 1 ELSE 0
        BY <3>2, <4>1
      <4>. HIDE DEF r
      <4>. QED BY <4>2
    <3>4. CASE ~(next + 1 >= Len(pool))
      BY <2>5, <3>2, <3>4
    <3>. QED BY <3>3, <3>4
  <2>10. RoundRobin'
    BY <1>1, <2>4, <2>9 DEF RoundRobin
  <2>. QED BY <2>7, <2>8, <2>10 DEF IInv
<1>. QED
  BY <1>5, <1>6

\* A step of thread t to s that keeps to what a thread does.
LEMMA ThreadMoves ==
  ASSUME IInv, NEW t \in Threads,
         NEW s \in Prepared, io[t] \notin {"none", "failed"},
         io[t] \in Published => s \in Published,
         io' = [io EXCEPT ![t] = s],
         loop' = [loop EXCEPT ![t] = IF s \in Published THEN t ELSE Null],
         inits' = [inits EXCEPT ![t] = 1],
         owner' \in [Threads -> {"free", "main", "io"}],
         main' = main \/ (main = "asleep" /\ main' = "lock"),
         UNCHANGED <<callVars, cur, poolVars>>
  PROVE  IInv'
<1>1. /\ TypeOK /\ Progress /\ ThreadsAgree /\ PoolInOrder /\ RoundRobin
      /\ threadNum' = threadNum /\ isStart' = isStart /\ starts' = starts /\ cur' = cur
      /\ pool' = pool /\ next' = next /\ given' = given
  BY DEF IInv, callVars, poolVars
<1>2. t \in Loops /\ t # 0 /\ s \in {"init", "locked", "published", "notified", "running"}
  BY <1>1, Bounds DEF Prepared, Published
<1>3. /\ io'[t] = s /\ loop'[t] = IF s \in Published THEN t ELSE Null
      /\ inits'[t] = 1
      /\ \A u \in Threads \ {t} : io'[u] = io[u] /\ loop'[u] = loop[u]
      /\ \A l \in Loops \ {t} : inits'[l] = inits[l]
  BY <1>1, <1>2 DEF TypeOK
<1>4. TypeOK'
  <2>1. inits' \in [Loops -> Nat] /\ loop' \in [Threads -> Threads \cup {Null}]
    BY <1>1 DEF TypeOK
  <2>2. io' \in [Threads -> {"none", "failed", "born", "init", "locked", "published",
                             "notified", "running"}]
    BY <1>1, <1>2 DEF TypeOK
  <2>3. main' \in {"ready", "next", "lock", "check", "sleep", "asleep", "unlock", "listen"}
    BY <1>1 DEF TypeOK
  <2>. QED BY <1>1, <2>1, <2>2, <2>3 DEF TypeOK
<1>5. Progress'
  BY <1>1 DEF Progress
<1>6. ThreadsAgree'
  <2>1. ASSUME NEW u \in Threads
        PROVE  /\ io'[u] = "none" <=> u > cur'
               /\ loop'[u] = IF io'[u] \in Published THEN u ELSE Null
               /\ inits'[u] = IF io'[u] \in Prepared THEN 1 ELSE 0
    <3>1. CASE u = t
      BY <1>1, <1>2, <1>3, <3>1 DEF ThreadsAgree
    <3>2. CASE u # t
      <4>1. u \in Loops \ {t} /\ u \in Threads \ {t}
        BY <1>1, <3>2, Bounds
      <4>. QED BY <1>1, <1>3, <4>1 DEF ThreadsAgree
    <3>. QED BY <3>1, <3>2
  <2>. QED BY <2>1 DEF ThreadsAgree
<1>7. PoolInOrder'
  <2>1. ASSUME NEW u \in Threads, io[u] \in Published PROVE io'[u] \in Published
    <3>1. CASE u = t
      BY <1>3, <2>1, <3>1
    <3>2. CASE u # t
      BY <1>3, <2>1, <3>2
    <3>. QED BY <3>1, <3>2
  <2>2. \A i \in 1 .. Len(pool) : i \in Threads
    BY <1>1, PoolThreads
  <2>3. inits'[0] = inits[0]
    BY <1>2, <1>3, StartupAssumption DEF Loops
  <2>4. main = "unlock" => cur \in Threads
    BY <1>1, Bounds DEF Progress
  <2>5. \A i \in 1 .. Len(pool') : pool'[i] = i /\ io'[i] \in Published
    BY <1>1, <2>1, <2>2 DEF PoolInOrder
  <2>6. main' = "unlock" => io'[cur'] \in Published
    BY <1>1, <2>1, <2>4 DEF PoolInOrder
  <2>7. main = "next" <=> main' = "next"
    OBVIOUS
  <2>. QED BY <1>1, <2>3, <2>5, <2>6, <2>7 DEF PoolInOrder
<1>8. RoundRobin'
  <2>1. \A l \in Loops : given'[l] > 0 => inits'[l] = 1
    BY <1>1, <1>3 DEF RoundRobin
  <2>2. \E q \in Nat : \A i \in 1 .. Len(pool) : given[i] = q + IF i <= next THEN 1 ELSE 0
    BY <1>1 DEF RoundRobin
  <2>3. ~(isStart' /\ main' \in {"ready", "listen"}) =>
           next' = 0 /\ \A l \in Loops : given'[l] = 0
    BY <1>1 DEF RoundRobin
  <2>. QED BY <1>1, <2>1, <2>2, <2>3 DEF RoundRobin
<1>. QED
  BY <1>4, <1>5, <1>6, <1>7, <1>8 DEF IInv

\* Every step of a thread.
LEMMA ThreadStepKeeps ==
  ASSUME IInv, NEW t \in Threads, ThreadStep(t)
  PROVE  IInv'
<1>1. /\ TypeOK /\ ThreadsAgree
      /\ owner \in [Threads -> {"free", "main", "io"}]
      /\ io \in [Threads -> {"none", "failed", "born", "init", "locked", "published",
                             "notified", "running"}]
      /\ loop \in [Threads -> Threads \cup {Null}] /\ inits \in [Loops -> Nat]
      /\ t \in Loops
  BY Bounds DEF IInv, TypeOK
<1>2. /\ loop[t] = IF io[t] \in Published THEN t ELSE Null
      /\ inits[t] = IF io[t] \in Prepared THEN 1 ELSE 0
  BY <1>1 DEF ThreadsAgree
<1>3. CASE Prepare(t)
  <2>1. /\ io[t] = "born" /\ io' = [io EXCEPT ![t] = "init"]
        /\ inits' = [inits EXCEPT ![t] = 1] /\ loop' = [loop EXCEPT ![t] = Null]
        /\ owner' = owner /\ main' = main /\ UNCHANGED <<callVars, cur, poolVars>>
    BY <1>1, <1>2, <1>3 DEF Prepare, Published, Prepared
  <2>2. /\ "init" \in Prepared /\ "init" \notin Published /\ io[t] \notin Published
    BY <2>1 DEF Prepared, Published
  <2>. QED BY <1>1, <2>1, <2>2, ThreadMoves
<1>4. CASE LockPublish(t)
  <2>1. /\ io[t] = "init" /\ io' = [io EXCEPT ![t] = "locked"]
        /\ inits' = [inits EXCEPT ![t] = 1] /\ loop' = [loop EXCEPT ![t] = Null]
        /\ owner' \in [Threads -> {"free", "main", "io"}] /\ main' = main
        /\ UNCHANGED <<callVars, cur, poolVars>>
    BY <1>1, <1>2, <1>4 DEF LockPublish, Published, Prepared
  <2>2. /\ "locked" \in Prepared /\ "locked" \notin Published /\ io[t] \notin Published
    BY <2>1 DEF Prepared, Published
  <2>. QED BY <1>1, <2>1, <2>2, ThreadMoves
<1>5. CASE Publish(t)
  <2>1. /\ io[t] = "locked" /\ io' = [io EXCEPT ![t] = "published"]
        /\ inits' = [inits EXCEPT ![t] = 1] /\ loop' = [loop EXCEPT ![t] = t]
        /\ owner' = owner /\ main' = main /\ UNCHANGED <<callVars, cur, poolVars>>
    BY <1>1, <1>2, <1>5 DEF Publish, Published, Prepared
  <2>2. "published" \in Prepared /\ "published" \in Published
    BY DEF Prepared, Published
  <2>. QED BY <1>1, <2>1, <2>2, ThreadMoves
<1>6. CASE Notify(t)
  <2>1. /\ io[t] = "published" /\ io' = [io EXCEPT ![t] = "notified"]
        /\ inits' = [inits EXCEPT ![t] = 1] /\ loop' = [loop EXCEPT ![t] = t]
        /\ owner' = owner /\ UNCHANGED <<callVars, cur, poolVars>>
    BY <1>1, <1>2, <1>6 DEF Notify, Published, Prepared
  <2>2. main' = main \/ (main = "asleep" /\ main' = "lock")
    BY <1>6 DEF Notify, WakesTo
  <2>3. "notified" \in Prepared /\ "notified" \in Published
    BY DEF Prepared, Published
  <2>. QED BY <1>1, <2>1, <2>2, <2>3, ThreadMoves
<1>7. CASE UnlockAndRun(t)
  <2>1. /\ io[t] = "notified" /\ io' = [io EXCEPT ![t] = "running"]
        /\ inits' = [inits EXCEPT ![t] = 1] /\ loop' = [loop EXCEPT ![t] = t]
        /\ owner' \in [Threads -> {"free", "main", "io"}] /\ main' = main
        /\ UNCHANGED <<callVars, cur, poolVars>>
    BY <1>1, <1>2, <1>7 DEF UnlockAndRun, Published, Prepared
  <2>2. "running" \in Prepared /\ "running" \in Published
    BY DEF Prepared, Published
  <2>. QED BY <1>1, <2>1, <2>2, ThreadMoves
<1>. QED
  BY <1>3, <1>4, <1>5, <1>6, <1>7 DEF ThreadStep

-------------------------------------------------------------------------------
(* The specification.                                                      *)

\* The invariant holds in every state.
LEMMA Invariant == Spec => []IInv
<1>1. Init => IInv
  BY StartupInit
<1>2. IInv /\ [Next]_vars => IInv'
  <2>. SUFFICES ASSUME IInv, [Next]_vars PROVE IInv'
    OBVIOUS
  <2>1. CASE Next
    BY <2>1, StartStep, StartThreadStep, MainMovesStep, AllStartedStep, UnlockStep,
       GetNextLoopStep, ThreadStepKeeps DEF Next, MainStep
  <2>2. CASE UNCHANGED vars
    <3>1. /\ threadNum' = threadNum /\ isStart' = isStart /\ starts' = starts
          /\ main' = main /\ cur' = cur /\ owner' = owner
          /\ io' = io /\ loop' = loop /\ inits' = inits
          /\ pool' = pool /\ next' = next /\ given' = given
      BY <2>2 DEF vars, callVars, threadVars, poolVars
    <3>2. TypeOK'
      BY <3>1 DEF IInv, TypeOK
    <3>3. Progress' /\ ThreadsAgree'
      BY <3>1 DEF IInv, Progress, ThreadsAgree
    <3>4. PoolInOrder'
      BY <3>1 DEF IInv, PoolInOrder
    <3>5. RoundRobin'
      BY <3>1 DEF IInv, RoundRobin
    <3>. QED BY <3>2, <3>3, <3>4, <3>5 DEF IInv
  <2>. QED BY <2>1, <2>2
<1>. QED
  BY <1>1, <1>2, PTL DEF Spec

\* The types: next_ is always an index of the pool, and no null pointer gets into it.
THEOREM StartupTypes == Spec => []TypeOK
<1>1. IInv => TypeOK
  BY DEF IInv
<1>. QED
  BY <1>1, Invariant, PTL

\* However the steps of start and of the threads fall, the pool has one published loop
\* per thread when start is done, and a loop is given connections only after its
\* callback ran, once.
THEOREM LoopsReadyBeforeUse == Spec => []ReadyBeforeUse
<1>1. IInv => ReadyBeforeUse
  <2>. SUFFICES ASSUME IInv PROVE ReadyBeforeUse
    OBVIOUS
  <2>1. TypeOK /\ Progress /\ ThreadsAgree /\ PoolInOrder /\ RoundRobin
    BY DEF IInv
  <2>2. \A i \in 1 .. Len(pool) : i \in Threads
    BY <2>1, PoolThreads
  <2>3. \A i \in 1 .. Len(pool) : pool[i] = i /\ loop[i] = i /\ inits[i] = 1
    BY <2>1, <2>2 DEF PoolInOrder, ThreadsAgree, Prepared
  <2>4. main \in {"ready", "listen"} /\ isStart => Len(pool) = threadNum
    BY <2>1 DEF Progress
  <2>. QED BY <2>1, <2>3, <2>4 DEF ReadyBeforeUse, RoundRobin
<1>. QED
  BY <1>1, Invariant, PTL

\* No loop is ever two connections ahead of another one.
THEOREM LoadBalanced == Spec => []Balanced
<1>1. IInv => Balanced
  <2>. SUFFICES ASSUME IInv, NEW i \in 1 .. Len(pool), NEW j \in 1 .. Len(pool)
                PROVE  given[i] <= given[j] + 1
    BY DEF Balanced
  <2>1. PICK q \in Nat : \A k \in 1 .. Len(pool) : given[k] = q + IF k <= next THEN 1 ELSE 0
    BY DEF IInv, RoundRobin
  <2>2. given[i] \in {q, q + 1} /\ given[j] \in {q, q + 1}
    BY <2>1
  <2>. QED BY <2>2
<1>. QED
  BY <1>1, Invariant, PTL
===============================================================================
