----------------------------- MODULE TimerQueue -----------------------------
(***************************************************************************)
(* Timer and TimerQueue: two multimaps of timers ordered by their time     *)
(* out, and one timerfd for both.  The times are in milliseconds and keep  *)
(* the widths of the code: a time out goes through an int.                 *)
(***************************************************************************)
EXTENDS Integers, Sequences, SequencesExt

CONSTANTS Timers,     \* the timers ever made
          Intervals,  \* the intervals asked for, positive
          Start,      \* the time at which the loop is constructed
          Tick,       \* how far the clock goes in a step
          MaxTime,    \* bound: the clock stops
          Narrow,     \* 2^32
          Wide        \* 2^64

VARIABLES
    clock,     \* gettimeofday, and the clock of the timerfd
    onice,     \* oniceTimers: a sequence of [key, timer], ordered by key,
               \* the timer's getTimeOutMSecond()
    every,     \* everyTimers
    interval,  \* intervalMs of each timer; 0 before it is made
    armed,     \* when the timerfd becomes readable; 0 if it is not set
    watched,   \* whether the loop's epoll has the timerfd, with timerHandle to call
    up,        \* the process runs
    ran        \* the timers whose function was called

vars == <<clock, onice, every, interval, armed, watched, up, ran>>

-------------------------------------------------------------------------------
Unsigned(x) == x % Wide
Signed(x)   == IF x % Wide < Wide \div 2 THEN x % Wide ELSE (x % Wide) - Wide
Int32(x)    == IF x % Narrow < Narrow \div 2 THEN x % Narrow ELSE (x % Narrow) - Narrow

\* getTimeOut and getTimeOutMSecond: the milliseconds below a second count a tenth, and
\* the sum goes through an int into a uint64_t.
TimeOut(since, i) == Unsigned(Int32(since + 1000 * (i \div 1000) + (i % 1000) \div 10))

\* getTimeInterval
TimeInterval(key) == LET left == Signed(key - clock) IN IF left <= 10 THEN 10 ELSE left

Insert(q, key, t) ==
    LET before(e) == e.key <= key
        after(e)  == e.key > key
    IN  SelectSeq(q, before) \o <<[key |-> key, timer |-> t]>> \o SelectSeq(q, after)

NeedResetTimer(q, key) ==
    q # <<>> => /\ Head(q).key >= key
                /\ Len(SelectSeq(q, LAMBDA e : e.key = key)) <= 1

\* The time the descriptor is set to for the earlier of the two first timers.
ResetTimer(once, ever) ==
    LET first == IF once = <<>> \/ (ever # <<>> /\ Head(ever).key < Head(once).key)
                 THEN ever ELSE once
    IN  IF first = <<>> THEN 0 ELSE clock + TimeInterval(Head(first).key)

-------------------------------------------------------------------------------
\* The event of the timerfd is constructed, not added.
Init ==
    /\ clock = Start
    /\ onice = <<>> /\ every = <<>>
    /\ interval = [t \in Timers |-> 0]
    /\ armed = 0 /\ watched = FALSE /\ up = TRUE /\ ran = {}

\* The end of addOniceTimer and addEveryTimer.
ArmFor(key) ==
    armed' = IF NeedResetTimer(onice', key) /\ NeedResetTimer(every', key)
             THEN clock + TimeInterval(key) ELSE armed

AddTimer(t, i) ==
    /\ up /\ interval[t] = 0
    /\ interval' = [interval EXCEPT ![t] = i]
    /\ UNCHANGED <<clock, watched, up, ran>>

RunOniceAfter(t, i) ==
    /\ AddTimer(t, i)
    /\ onice' = Insert(onice, TimeOut(clock, i), t)
    /\ every' = every
    /\ ArmFor(TimeOut(clock, i))

RunEveryInterval(t, i) ==
    /\ AddTimer(t, i)
    /\ every' = Insert(every, TimeOut(clock, i), t)
    /\ onice' = onice
    /\ ArmFor(TimeOut(clock, i))

\* timerHandle.  Its loops erase the element they stand on and go on from it, which may
\* end the process; the second one does not end if a timer put back is due at once.
TimerHandle ==
    LET due(e)     == e.key <= clock
        late(e)    == e.key > clock
        again(e)   == TimeOut(clock, interval[e.timer])
        PutBack(q, e) == Insert(q, again(e), e.timer)
        dueOnce    == SelectSeq(onice, due)
        dueEvery   == SelectSeq(every, due)
        timers     == {e.timer : e \in ToSet(dueOnce \o dueEvery)}
    IN  /\ up /\ watched /\ armed # 0 /\ armed <= clock
        /\ ran' = ran \cup timers
        /\ onice' = SelectSeq(onice, late)
        /\ every' = FoldLeft(PutBack, SelectSeq(every, late), dueEvery)
        /\ armed' = ResetTimer(onice', every')
        /\ up' \in IF timers = {} THEN {TRUE}
                   ELSE IF \E e \in ToSet(dueEvery) : again(e) <= clock THEN {FALSE} ELSE BOOLEAN
        /\ UNCHANGED <<clock, interval, watched>>

TimePasses ==
    /\ clock + Tick <= MaxTime
    /\ clock' = clock + Tick
    /\ UNCHANGED <<onice, every, interval, armed, watched, up, ran>>

Next ==
    \/ \E t \in Timers, i \in Intervals : RunOniceAfter(t, i) \/ RunEveryInterval(t, i)
    \/ TimerHandle \/ TimePasses

\* The clock goes on, and the loop polls again and again.
Spec == Init /\ [][Next]_vars /\ WF_vars(TimePasses) /\ WF_vars(TimerHandle)

-------------------------------------------------------------------------------
\* What the comments of TimerQueue promise (TimerQueue.h:34, :47): the timerfd is one of
\* the loop's descriptors, and when it is due, the timers are looked through and it is
\* set anew.
ExpiryHandled == (armed # 0 /\ armed <= clock) ~> (armed = 0 \/ armed > clock \/ ~up)
===============================================================================
