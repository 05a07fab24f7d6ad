------------------------------ MODULE EventLoop ------------------------------
(***************************************************************************)
(* One EventLoop (EventLoop.cpp) with its EventCtrl (EventCtrl.cpp): the   *)
(* loop's thread polls, dispatches the active descriptors, then swaps the  *)
(* queue of functors out under the mutex and runs them; other threads hand *)
(* functors over with runInLoop.  A vector operation under the mutex reads *)
(* the vector in one step and writes it in another, so it is the mutex and *)
(* not the grain of the model that keeps two of them apart.                *)
(***************************************************************************)
EXTENDS Sequences, Functions, FiniteSets, Integers

CONSTANTS Callers,           \* threads that call runInLoop from outside
          LoopThread,        \* the thread that calls run()
          Funcs,             \* functors; each submission is its own value
          SockFds,           \* descriptors with a read handler
          WakeupFd,          \* the eventfd of wakeup()
          NoThread, NoFunc,
          ActiveEventLength  \* EventCtrl::activeEventLength, 16 in the code

Threads == Callers \cup {LoopThread}
Fds     == SockFds \cup {WakeupFd}

ASSUME LoopAssumption ==
    /\ LoopThread \notin Callers
    /\ NoThread \notin Threads
    /\ NoFunc \notin Funcs
    /\ WakeupFd \notin SockFds
    /\ ActiveEventLength \in Nat \ {0}

VARIABLES
    mutex,             \* holder of EventLoop::mutex, or NoThread
    functions,         \* EventLoop::functions
    allfunctors,       \* what is left of the batch runAllFunctionInLoop swapped out
    callingFunctions,  \* EventLoop::callingFunctions
    threadId,          \* EventLoop::threadId
    wakeups,           \* counter of the eventfd
    eventPool,         \* descriptors with an entry in EventCtrl::eventPool
    live,              \* those whose entry is a weak_ptr to a living Event
    watched,           \* descriptors epoll reports when readable
    ready,             \* sockets with unread input
    active,            \* descriptors epoll_wait returned, not yet dispatched
    loopPc,            \* where the loop's thread is
    callerPc,          \* where each caller is in addFunInLoop
    arg,               \* the functor each caller is handing over
    seen,              \* the queue as a caller read it after locking
    handed,            \* functors runInLoop has been called with (history)
    ran                \* functors run, in order (history)

queueVars  == <<mutex, functions, allfunctors, callingFunctions, ran>>
pollVars   == <<wakeups, eventPool, live, watched, ready, active>>
callerVars == <<callerPc, arg, seen, handed>>
vars == <<queueVars, threadId, pollVars, loopPc, callerVars>>

LoopPcs   == {"setup", "poll", "handle", "handler",
              "begin", "lock", "swap", "run", "functor"}
CallerPcs == {"idle", "lock", "push", "wake"}

\* The types: the vectors hold functors, and the registry of living Events is part of
\* the pool.
TypeOK ==
    /\ mutex \in Threads \cup {NoThread}
    /\ functions \in Seq(Funcs)
    /\ allfunctors \in Seq(Funcs)
    /\ callingFunctions \in BOOLEAN
    /\ threadId \in Threads
    /\ wakeups \in Nat
    /\ eventPool \subseteq Fds
    /\ live \subseteq eventPool
    /\ watched \subseteq Fds
    /\ ready \subseteq SockFds
    /\ active \subseteq Fds
    /\ loopPc \in LoopPcs
    /\ callerPc \in [Callers -> CallerPcs]
    /\ arg \in [Callers -> Funcs \cup {NoFunc}]
    /\ seen \in [Callers -> Seq(Funcs)]
    /\ handed \subseteq Funcs
    /\ ran \in Seq(Funcs)

-------------------------------------------------------------------------------
\* Event::enableReading -> EventCtrl::modifyEvent(int): the mask reaches epoll
\* only if the descriptor has an entry whose Event is alive.
EnableReading(alive, mask, fd) == IF fd \in alive THEN mask \cup {fd} ELSE mask

\* EventLoop::EventLoop.  The wakeup event asks for read interest, but was never
\* added to the pool.  The loop belongs to the thread that constructs it.
Init ==
    /\ mutex = NoThread
    /\ functions = <<>>
    /\ allfunctors = <<>>
    /\ callingFunctions = FALSE
    /\ threadId \in Threads
    /\ wakeups = 0
    /\ eventPool = {}
    /\ live = {}
    /\ watched = EnableReading({}, {}, WakeupFd)
    /\ ready = {}
    /\ active = {}
    /\ loopPc = "setup"
    /\ callerPc = [c \in Callers |-> "idle"]
    /\ arg = [c \in Callers |-> NoFunc]
    /\ seen = [c \in Callers |-> <<>>]
    /\ handed = {}
    /\ ran = <<>>

InThisThread(t) == threadId = t

\* The functor runs inside runInLoop.
Inline(f) ==
    /\ f \notin handed
    /\ handed' = handed \cup {f}
    /\ ran' = Append(ran, f)
    /\ UNCHANGED <<mutex, functions, allfunctors, callingFunctions, threadId,
                   pollVars, loopPc, callerPc, arg, seen>>

-------------------------------------------------------------------------------
(* The callers: runInLoop and addFunInLoop on another thread.              *)

\* A caller on which the loop was constructed, as long as run() has not moved
\* the loop to its own thread, runs the functor itself.
CallerInline(c, f) ==
    /\ callerPc[c] = "idle"
    /\ InThisThread(c)
    /\ Inline(f)

\* Mutant of RunInLoop: the functor is not kept for the push.
RunInLoop_NoArg(c, f) ==
    /\ callerPc[c] = "idle"
    /\ ~InThisThread(c)
    /\ f \notin handed
    /\ handed' = handed \cup {f}
    /\ callerPc' = [callerPc EXCEPT ![c] = "lock"]
    /\ UNCHANGED <<queueVars, threadId, pollVars, loopPc, arg, seen>>

RunInLoop(c, f) ==
    /\ callerPc[c] = "idle"
    /\ ~InThisThread(c)
    /\ f \notin handed
    /\ handed' = handed \cup {f}
    /\ arg' = [arg EXCEPT ![c] = f]
    /\ callerPc' = [callerPc EXCEPT ![c] = "lock"]
    /\ UNCHANGED <<queueVars, threadId, pollVars, loopPc, seen>>

\* Mutant of Lock: push_back without the MutexLockGuard.
Lock_NoMutex(c) ==
    /\ callerPc[c] = "lock"
    /\ mutex' = c
    /\ seen' = [seen EXCEPT ![c] = functions]
    /\ callerPc' = [callerPc EXCEPT ![c] = "push"]
    /\ UNCHANGED <<functions, allfunctors, callingFunctions, ran, threadId,
                   pollVars, loopPc, arg, handed>>

Lock(c) ==
    /\ callerPc[c] = "lock"
    /\ mutex = NoThread
    /\ mutex' = c
    /\ seen' = [seen EXCEPT ![c] = functions]
    /\ callerPc' = [callerPc EXCEPT ![c] = "push"]
    /\ UNCHANGED <<functions, allfunctors, callingFunctions, ran, threadId,
                   pollVars, loopPc, arg, handed>>

\* Mutant of Push: the functor goes to the front.
Push_Front(c) ==
    /\ callerPc[c] = "push"
    /\ functions' = <<arg[c]>> \o seen[c]
    /\ mutex' = NoThread
    /\ seen' = [seen EXCEPT ![c] = <<>>]
    /\ arg' = [arg EXCEPT ![c] = NoFunc]
    /\ callerPc' = [callerPc EXCEPT ![c] = "wake"]
    /\ UNCHANGED <<allfunctors, callingFunctions, ran, threadId, pollVars, loopPc,
                   handed>>

\* functions.push_back(func), and the guard's destructor unlocks.
Push(c) ==
    /\ callerPc[c] = "push"
    /\ functions' = Append(seen[c], arg[c])
    /\ mutex' = NoThread
    /\ seen' = [seen EXCEPT ![c] = <<>>]
    /\ arg' = [arg EXCEPT ![c] = NoFunc]
    /\ callerPc' = [callerPc EXCEPT ![c] = "wake"]
    /\ UNCHANGED <<allfunctors, callingFunctions, ran, threadId, pollVars, loopPc,
                   handed>>

Wakeup(c) ==
    /\ callerPc[c] = "wake"
    /\ wakeups' = IF ~InThisThread(c) \/ ~callingFunctions
                  THEN wakeups + 1 ELSE wakeups
    /\ callerPc' = [callerPc EXCEPT ![c] = "idle"]
    /\ UNCHANGED <<queueVars, threadId, eventPool, live, watched, ready, active,
                   loopPc, arg, seen, handed>>

-------------------------------------------------------------------------------
(* The loop's thread.                                                      *)

\* EventLoop::run: the thread that runs the loop becomes its owner.
Run ==
    /\ loopPc = "setup"
    /\ threadId' = LoopThread
    /\ loopPc' = "poll"
    /\ UNCHANGED <<queueVars, pollVars, callerVars>>

\* The loop's thread is in user code: before run(), in a handler or a functor.
InUserCode == loopPc \in {"setup", "handler", "functor"}

LoopInline(f) ==
    /\ InUserCode
    /\ InThisThread(LoopThread)
    /\ Inline(f)

\* EventLoop::addEvent then Event::enableReading.  std::map::insert does not
\* replace an entry a dead Event left under the same descriptor.
AddEvent(fd) ==
    /\ InUserCode
    /\ fd \in SockFds \ live
    /\ eventPool' = eventPool \cup {fd}
    /\ live' = IF fd \in eventPool THEN live ELSE live \cup {fd}
    /\ watched' = EnableReading(live', watched, fd)
    /\ UNCHANGED <<queueVars, threadId, wakeups, ready, active, loopPc, callerVars>>

\* EventLoop::removeEvent(int) -> EventCtrl::deleteEvent(int).
RemoveEvent(fd) ==
    /\ InUserCode
    /\ fd \in eventPool
    /\ eventPool' = eventPool \ {fd}
    /\ live' = live \ {fd}
    /\ watched' = watched \ {fd}
    /\ UNCHANGED <<queueVars, threadId, wakeups, ready, active, loopPc, callerVars>>

\* epoll_wait returns descriptors, in any order, at most activeEventLength.
Readable == {fd \in watched : fd \in ready \/ (fd = WakeupFd /\ wakeups > 0)}

PollReady ==
    /\ loopPc = "poll"
    /\ \E S \in SUBSET Readable :
          /\ S # {}
          /\ Cardinality(S) <= ActiveEventLength
          /\ active' = S
    /\ loopPc' = "handle"
    /\ UNCHANGED <<queueVars, threadId, wakeups, eventPool, live, watched, ready,
                   callerVars>>

\* Mutant of TimedOut: epoll_wait with the timeout -1.
TimedOut_Never == FALSE

\* PollTimeMs passes with nothing to report.
TimedOut ==
    /\ loopPc = "poll"
    /\ Readable = {}
    /\ loopPc' = "handle"
    /\ UNCHANGED <<queueVars, threadId, pollVars, callerVars>>

\* epoll_wait fails (a signal): waitAndRunHandle returns at once.
Interrupted ==
    /\ loopPc = "poll"
    /\ loopPc' = "begin"
    /\ UNCHANGED <<queueVars, threadId, pollVars, callerVars>>

\* One iteration of waitAndRunHandle's loop.  A living Event's handler starts;
\* handleRead of the wakeup event empties the counter.  A dead one is deleted.
Dispatch(fd) ==
    /\ loopPc = "handle"
    /\ fd \in active
    /\ active' = active \ {fd}
    /\ IF fd \in live
       THEN /\ loopPc' = "handler"
            /\ wakeups' = IF fd = WakeupFd THEN 0 ELSE wakeups
            /\ ready' \in {ready, ready \ {fd}}
            /\ UNCHANGED <<eventPool, watched>>
       ELSE /\ eventPool' = eventPool \ {fd}
            /\ watched' = watched \ {fd}
            /\ UNCHANGED <<loopPc, wakeups, ready>>
    /\ UNCHANGED <<queueVars, threadId, live, callerVars>>

HandlerReturns ==
    /\ loopPc = "handler"
    /\ loopPc' = "handle"
    /\ UNCHANGED <<queueVars, threadId, pollVars, callerVars>>

AllDispatched ==
    /\ loopPc = "handle"
    /\ active = {}
    /\ loopPc' = "begin"
    /\ UNCHANGED <<queueVars, threadId, pollVars, callerVars>>

(* runAllFunctionInLoop *)
BeginFunctions ==
    /\ loopPc = "begin"
    /\ callingFunctions' = TRUE
    /\ loopPc' = "lock"
    /\ UNCHANGED <<mutex, functions, allfunctors, ran, threadId, pollVars, callerVars>>

LockFunctions ==
    /\ loopPc = "lock"
    /\ mutex = NoThread
    /\ mutex' = LoopThread
    /\ loopPc' = "swap"
    /\ UNCHANGED <<functions, allfunctors, callingFunctions, ran, threadId, pollVars,
                   callerVars>>

Swap ==
    /\ loopPc = "swap"
    /\ allfunctors' = functions
    /\ functions' = allfunctors
    /\ mutex' = NoThread
    /\ loopPc' = "run"
    /\ UNCHANGED <<callingFunctions, ran, threadId, pollVars, callerVars>>

RunNext ==
    /\ loopPc = "run"
    /\ allfunctors # <<>>
    /\ ran' = Append(ran, Head(allfunctors))
    /\ allfunctors' = Tail(allfunctors)
    /\ loopPc' = "functor"
    /\ UNCHANGED <<mutex, functions, callingFunctions, threadId, pollVars, callerVars>>

FunctorReturns ==
    /\ loopPc = "functor"
    /\ loopPc' = "run"
    /\ UNCHANGED <<queueVars, threadId, pollVars, callerVars>>

EndFunctions ==
    /\ loopPc = "run"
    /\ allfunctors = <<>>
    /\ callingFunctions' = FALSE
    /\ loopPc' = "poll"
    /\ UNCHANGED <<mutex, functions, allfunctors, ran, threadId, pollVars, callerVars>>

-------------------------------------------------------------------------------
(* The environment.                                                        *)

SockReady(fd) ==
    /\ fd \in watched \ ready
    /\ ready' = ready \cup {fd}
    /\ UNCHANGED <<queueVars, threadId, wakeups, eventPool, live, watched, active,
                   loopPc, callerVars>>

\* The owner of a socket destroys its Event and closes the descriptor, which
\* takes it out of epoll but leaves the entry of the pool.
CloseFd(fd) ==
    /\ fd \in SockFds \cap live
    /\ live' = live \ {fd}
    /\ watched' = watched \ {fd}
    /\ ready' = ready \ {fd}
    /\ UNCHANGED <<queueVars, threadId, wakeups, eventPool, active, loopPc, callerVars>>

CallerStep(c) == Lock(c) \/ Push(c) \/ Wakeup(c)

\* The steps the loop's thread takes whatever user code does.
LoopStep ==
    \/ Run \/ PollReady \/ TimedOut
    \/ \E fd \in active : Dispatch(fd)
    \/ HandlerReturns \/ AllDispatched
    \/ BeginFunctions \/ LockFunctions \/ Swap
    \/ RunNext \/ FunctorReturns \/ EndFunctions

Next ==
    \/ \E c \in Callers, f \in Funcs : RunInLoop(c, f) \/ CallerInline(c, f)
    \/ \E c \in Callers : CallerStep(c)
    \/ \E f \in Funcs : LoopInline(f)
    \/ \E fd \in SockFds : AddEvent(fd) \/ RemoveEvent(fd)
    \/ LoopStep
    \/ Interrupted
    \/ \E fd \in SockFds : SockReady(fd) \/ CloseFd(fd)

\* Threads are scheduled, handlers and functors return, and a thread that keeps
\* finding the mutex free now and then gets it in the end.
Fairness ==
    /\ WF_vars(LoopStep)
    /\ \A c \in Callers : WF_vars(CallerStep(c)) /\ SF_vars(Lock(c))

Spec == Init /\ [][Next]_vars /\ Fairness

-------------------------------------------------------------------------------
(* Properties.                                                             *)

InFlight == {arg[c] : c \in {d \in Callers : callerPc[d] \in {"lock", "push"}}}

\* Every functor runInLoop was called with is in exactly one place: with one
\* caller that has not pushed it yet, once in the queue, once in the batch, or
\* once among those that ran.  No push_back and no swap loses or doubles one.
ExactlyOnce ==
    /\ IsInjective(ran \o (allfunctors \o functions))
    /\ \A c, d \in Callers :
          c # d /\ arg[c] = arg[d] => arg[c] = NoFunc
    /\ InFlight \cap Range(ran \o (allfunctors \o functions)) = {}
    /\ handed = InFlight \cup Range(ran \o (allfunctors \o functions))

\* The loop implements the mailbox: the functors accepted and not run are the
\* rest of the batch followed by the queue, and they run in that order.
Box == INSTANCE Mailbox WITH pending <- allfunctors \o functions, ran <- ran
MailboxSpec == Box!Spec

\* Whatever was handed to runInLoop runs in the end, even if no descriptor ever
\* becomes ready: the poll's timeout is what guarantees it.
EveryFunctorRuns == \A f \in Funcs : f \in handed ~> f \in Range(ran)

\* EventLoop.h:58 calls wakeup() "wake up": a poll does not last its whole
\* timeout while a wakeup is waiting in the eventfd.
WakeupCutsPollShort == [][TimedOut => wakeups = 0]_vars
===============================================================================
