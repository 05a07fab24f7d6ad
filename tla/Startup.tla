------------------------------- MODULE Startup -------------------------------
(***************************************************************************)
(* TcpServer::start and the loops it starts: EventLoopThreadPool::start,   *)
(* EventLoopThread::startLoop and threadFunc with their mutex and          *)
(* condition, and getNextLoop.  The main thread starts one thread after    *)
(* the other and waits each time until the thread has published the loop   *)
(* on its stack.  Loop 0 is the main loop, loop t is on the stack of       *)
(* thread t.                                                               *)
(***************************************************************************)
EXTENDS Sequences, Integers

CONSTANTS Null,        \* the null pointer
          MaxThreads,  \* bound: argument of setThreadNum
          MaxStarts,   \* bound: calls of TcpServer::start
          MaxConns     \* bound: connections given to one loop

Threads == 1 .. MaxThreads
Loops   == 0 .. MaxThreads

ASSUME StartupAssumption ==
    /\ MaxThreads \in Nat /\ MaxStarts \in Nat /\ MaxConns \in Nat
    /\ Null \notin Loops

VARIABLES
    threadNum,   \* EventLoopThreadPool::threadNum_
    isStart,     \* TcpServer::isStart_
    starts,      \* number of calls of start
    main,        \* where the main thread is
    cur,         \* number of threads created; the last one is being started
    io,          \* where each thread is
    loop,        \* EventLoopThread::loop_
    owner,       \* who holds EventLoopThread::mutex_: "free", "main" or "io"
    pool,        \* eventLoopPool_
    next,        \* next_
    inits,       \* how often the thread's callback ran for each loop
    given        \* how often getNextLoop returned each loop

threadVars == <<io, loop, inits>>
poolVars   == <<pool, next, given>>
callVars   == <<threadNum, isStart, starts>>
vars == <<callVars, main, cur, owner, threadVars, poolVars>>

\* The types; next_ is an index of the pool, and a null pointer never gets into it.
TypeOK ==
    /\ threadNum \in Loops
    /\ isStart \in BOOLEAN
    /\ starts \in 0 .. MaxStarts
    /\ main \in {"ready", "next", "lock", "check", "sleep", "asleep", "unlock", "listen"}
    /\ cur \in 0 .. threadNum
    /\ io \in [Threads -> {"none", "failed", "born", "init", "locked", "published",
                           "notified", "running"}]
    /\ loop \in [Threads -> Threads \cup {Null}]
    /\ owner \in [Threads -> {"free", "main", "io"}]
    /\ pool \in Seq(Threads)
    /\ next \in Nat /\ (next # 0 => next < Len(pool))
    /\ inits \in [Loops -> Nat]
    /\ given \in [Loops -> Nat]

\* setThreadNum was called with a positive number, or not at all.
Init ==
    /\ threadNum \in Loops
    /\ isStart = FALSE /\ starts = 0
    /\ main = "ready" /\ cur = 0
    /\ io = [t \in Threads |-> "none"]
    /\ loop = [t \in Threads |-> Null]
    /\ owner = [t \in Threads |-> "free"]
    /\ pool = <<>> /\ next = 0
    /\ inits = [l \in Loops |-> 0]
    /\ given = [l \in Loops |-> 0]

-------------------------------------------------------------------------------
(* The main thread.                                                        *)

Start ==
    /\ main = "ready" /\ starts < MaxStarts
    /\ starts' = starts + 1
    /\ isStart' = TRUE
    /\ main' = IF isStart THEN "listen" ELSE "next"
    /\ UNCHANGED <<threadNum, cur, owner, threadVars, poolVars>>

\* pthread_create may fail, which Thread::start only logs.
StartThread ==
    /\ main = "next" /\ cur < threadNum
    /\ cur' = cur + 1
    /\ \E s \in {"born", "failed"} : io' = [io EXCEPT ![cur + 1] = s]
    /\ main' = "lock"
    /\ UNCHANGED <<callVars, loop, owner, inits, poolVars>>

\* The end of EventLoopThreadPool::start.
AllStarted ==
    /\ main = "next" /\ cur = threadNum
    /\ main' = "listen"
    /\ inits' = IF threadNum = 0 THEN [inits EXCEPT ![0] = @ + 1] ELSE inits
    /\ UNCHANGED <<callVars, cur, io, loop, owner, poolVars>>

\* startLoop takes the mutex, and so does a wait that ends.
Lock ==
    /\ main = "lock" /\ owner[cur] = "free"
    /\ owner' = [owner EXCEPT ![cur] = "main"]
    /\ main' = "check"
    /\ UNCHANGED <<callVars, cur, threadVars, poolVars>>

Check ==
    /\ main = "check"
    /\ main' = IF loop[cur] = Null THEN "sleep" ELSE "unlock"
    /\ UNCHANGED <<callVars, cur, owner, threadVars, poolVars>>

\* pthread_cond_wait gives up the mutex and waits.
Sleep ==
    /\ main = "sleep"
    /\ owner' = [owner EXCEPT ![cur] = "free"]
    /\ main' = "asleep"
    /\ UNCHANGED <<callVars, cur, threadVars, poolVars>>

\* Mutant of WakesTo: the loop is not tested again after the wait.
WakesTo_NoTest == "unlock"

\* Where startLoop goes on after a wait: the test is in a while.
WakesTo == "lock"

SpuriousWakeup ==
    /\ main = "asleep"
    /\ main' = WakesTo
    /\ UNCHANGED <<callVars, cur, owner, threadVars, poolVars>>

\* startLoop returns loop_, and the pool keeps it.
Unlock ==
    /\ main = "unlock"
    /\ owner' = [owner EXCEPT ![cur] = "free"]
    /\ pool' = Append(pool, loop[cur])
    /\ main' = "next"
    /\ UNCHANGED <<callVars, cur, threadVars, next, given>>

Listen ==
    /\ main = "listen"
    /\ main' = "ready"
    /\ UNCHANGED <<callVars, cur, owner, threadVars, poolVars>>

\* Mutants of NextIndex: the index runs one too far, or it does not move.
NextIndex_TooFar(n) == IF n + 1 > Len(pool) THEN 0 ELSE n + 1
NextIndex_Stays(n) == n

NextIndex(n) == IF n + 1 >= Len(pool) THEN 0 ELSE n + 1

\* Called by newConnected on the main thread, once the server listens.
GetNextLoop ==
    /\ main = "ready" /\ isStart
    /\ \A l \in Loops : given[l] < MaxConns
    /\ LET l == IF pool = <<>> THEN 0 ELSE pool[next + 1]
       IN  given' = [given EXCEPT ![l] = @ + 1]
    /\ next' = IF pool = <<>> THEN next ELSE NextIndex(next)
    /\ UNCHANGED <<callVars, main, cur, owner, threadVars, pool>>

-------------------------------------------------------------------------------
(* threadFunc on thread t.                                                 *)

\* The loop is constructed on the thread's stack, and the callback runs.
Prepare(t) ==
    /\ io[t] = "born"
    /\ io' = [io EXCEPT ![t] = "init"]
    /\ inits' = [inits EXCEPT ![t] = @ + 1]
    /\ UNCHANGED <<callVars, main, cur, loop, owner, poolVars>>

\* Mutant of LockPublish: the loop is published without the mutex.
LockPublish_NoMutex(t) ==
    /\ io[t] = "init"
    /\ io' = [io EXCEPT ![t] = "locked"]
    /\ UNCHANGED <<callVars, main, cur, loop, owner, inits, poolVars>>

LockPublish(t) ==
    /\ io[t] = "init" /\ owner[t] = "free"
    /\ owner' = [owner EXCEPT ![t] = "io"]
    /\ io' = [io EXCEPT ![t] = "locked"]
    /\ UNCHANGED <<callVars, main, cur, loop, inits, poolVars>>

Publish(t) ==
    /\ io[t] = "locked"
    /\ loop' = [loop EXCEPT ![t] = t]
    /\ io' = [io EXCEPT ![t] = "published"]
    /\ UNCHANGED <<callVars, main, cur, owner, inits, poolVars>>

\* A notification wakes the main thread only if it waits already.
Notify(t) ==
    /\ io[t] = "published"
    /\ io' = [io EXCEPT ![t] = "notified"]
    /\ main' = IF main = "asleep" /\ cur = t THEN WakesTo ELSE main
    /\ UNCHANGED <<callVars, cur, loop, owner, inits, poolVars>>

\* The mutex is given up, and the loop runs for good.
UnlockAndRun(t) ==
    /\ io[t] = "notified"
    /\ owner' = [owner EXCEPT ![t] = "free"]
    /\ io' = [io EXCEPT ![t] = "running"]
    /\ UNCHANGED <<callVars, main, cur, loop, inits, poolVars>>

MainStep == StartThread \/ AllStarted \/ Lock \/ Check \/ Sleep \/ Unlock \/ Listen

ThreadStep(t) == Prepare(t) \/ LockPublish(t) \/ Publish(t) \/ Notify(t) \/ UnlockAndRun(t)

Next ==
    \/ Start \/ GetNextLoop \/ SpuriousWakeup \/ MainStep
    \/ \E t \in Threads : ThreadStep(t)

Spec == Init /\ [][Next]_vars

\* Threads are scheduled, and the mutex starves nobody, even if the main thread
\* takes it again and again because its waits end for nothing.
FairSpec ==
    /\ Spec
    /\ WF_vars(MainStep)
    /\ \A t \in Threads : WF_vars(ThreadStep(t)) /\ SF_vars(LockPublish(t))

-------------------------------------------------------------------------------
(* Properties.                                                             *)

\* A loop that is given a connection is the one of the thread at its place in the
\* pool, was published, and the thread's callback ran for it exactly once.
ReadyBeforeUse ==
    /\ \A i \in 1 .. Len(pool) : pool[i] = i /\ loop[i] = i /\ inits[i] = 1
    /\ \A l \in Loops : given[l] > 0 => inits[l] = 1
    /\ main \in {"ready", "listen"} /\ isStart => Len(pool) = threadNum

\* The round robin: no loop of the pool is ever two connections ahead of another.
Balanced ==
    \A i, j \in 1 .. Len(pool) : given[i] <= given[j] + 1

\* start returns, however the steps of the threads fall and however often a wait
\* ends for nothing, if every thread could be created.
StartReturns ==
    [](\A t \in Threads : io[t] # "failed") => [](main # "ready" => <>(main = "ready"))
===============================================================================
