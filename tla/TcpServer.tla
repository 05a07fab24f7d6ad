------------------------------ MODULE TcpServer ------------------------------
(***************************************************************************)
(* A TcpServer with its loops, its connections and their registrations:    *)
(* TcpServer.cpp, TcpConnect.cpp, TcpAccept.cpp, EventCtrl.cpp and the     *)
(* round robin of EventLoopThreadPool.cpp.  Loop 0 is the main loop, which *)
(* accepts; the io loops serve the connections, or the main loop           *)
(* does if there are none.  What the threads hand each other goes through  *)
(* runInLoop, taken here as what EventLoop is shown to implement: a queue  *)
(* whose functors run once and in order.  The peers and the kernel's view  *)
(* of a socket are the environment.  A setup fixes what may happen: a run  *)
(* checks several of them at once.                                         *)
(***************************************************************************)
EXTENDS Sequences, Functions, FiniteSets, Integers, Address

CONSTANTS MaxThreads,  \* bound: argument of setThreadNum
          MaxConns,    \* bound: connections accepted in all
          Peers,       \* the addresses clients connect from
          MaxQueue,    \* bound: an io loop polls only below this backlog
          Setups       \* the setups to check

Main  == 0
Loops == 0 .. MaxThreads
Conns == 1 .. MaxConns
Fds   == 1 .. MaxConns
None  == 0

\* EventLoopThreadPool::threadNum_; the descriptors the process may have for connections;
\* may peers reset, and come back from the same port at once; do they send; may the callbacks
\* call shutdownWrite, and may what they write be cut short, so that the rest waits in writeBuf.
AllSetups == [threads : Loops, conns : Conns, fds : Fds, resets : BOOLEAN,
              quickReuse : BOOLEAN, sends : BOOLEAN, shuts : BOOLEAN, cuts : BOOLEAN]

ASSUME ServerAssumption ==
    /\ MaxThreads \in Nat
    /\ MaxConns \in Nat \ {0}
    /\ MaxQueue \in Nat \ {0}
    /\ Peers \subseteq SockAddr
    /\ Setups \subseteq AllSetups
    /\ \A s \in Setups : s.fds <= 14   \* every descriptor fits in activeEvents

\* The keys of connections_.
Names == {ToString(p) : p \in Peers}

VARIABLES
    setup,
    created,      \* number of connections accepted so far
    next,         \* EventLoopThreadPool::next_
    peer, fd, loop,  \* of each connection, fixed by newConnected
    st,           \* TcpConnect::state
    link,         \* the kernel's socket: "up", "data" to read, "eof", "rst" (with "rstData"
                  \* before it), "rstRead" when its error has been read
    watch,        \* its epoll mask: "out" of epoll, "none", "read", "both" read and write
    accepting,    \* how far newConnected is with connection number `created'
    connections,  \* TcpServer::connections_: name -> connection
    pool,         \* EventCtrl::eventPool of each loop: descriptor -> weak_ptr
    functions,    \* functors queued for each loop
    batch,        \* the vector each loop swapped out; it keeps its functors
    at,           \* index of the batch's next functor
    active,       \* events epoll_wait returned and not dispatched
    calls,        \* handlers Event::handle has still to call
    handling,     \* the connection they belong to
    pc,           \* where each loop is: "poll", "handle" or "run"
    up            \* the process runs, and nothing undefined has happened to it

connVars  == <<setup, created, next, peer, fd, loop>>
queueVars == <<functions, batch, at>>
handVars  == <<active, calls, handling>>
vars == <<connVars, st, link, watch, accepting, connections, pool, queueVars,
          handVars, pc, up>>

Created   == 1 .. created
Functors  == [op : {"connected", "remove", "removed"}, conn : Conns]
Events    == {"in", "out", "err", "hup"}
Handlers  == {"close", "error", "read", "write"}
Links     == {"up", "data", "eof", "rst", "rstData", "rstRead"}
Masks     == {"out", "none", "read", "both"}
Stages    == {"no", "inserting", "constructed", "bound", "registered", "handedOff"}

\* The types: every registry names connections, and a loop's index stays in its batch.
TypeOK ==
    /\ setup \in Setups
    /\ created \in 0 .. setup.conns
    /\ next \in 0 .. setup.threads
    /\ peer \in [Created -> Peers]
    /\ fd \in [Created -> 1 .. setup.fds]
    /\ loop \in [Created -> 0 .. setup.threads]
    /\ st \in [Created -> {"Disconnected", "Connected", "Disconnecting"}]
    /\ link \in [Created -> Links]
    /\ watch \in [Created -> Masks]
    /\ accepting \in Stages
    /\ connections \in [Names -> Conns \cup {None}]
    /\ pool \in [Loops -> [Fds -> Conns \cup {None}]]
    /\ functions \in [Loops -> Seq(Functors)]
    /\ batch \in [Loops -> Seq(Functors)]
    /\ \A l \in Loops : at[l] \in 1 .. Len(batch[l]) + 1
    /\ active \in [Loops -> SUBSET [conn : Conns \cup {None}, events : SUBSET Events]]
    /\ calls \in [Loops -> Seq(Handlers)]
    /\ handling \in [Loops -> Conns \cup {None}]
    /\ pc \in [Loops -> {"poll", "handle", "run"}]
    /\ up \in BOOLEAN

-------------------------------------------------------------------------------
(* Ownership.  A TcpConnect lives while a shared_ptr to it does: in        *)
(* connections_, in a functor not yet destroyed, or as newConnected's      *)
(* local.  Its Socket and its Event go with it; eventPool does not count.  *)

InFunctor(c) ==
    \E l \in Loops : \E f \in Range(functions[l]) \cup Range(batch[l]) : f.conn = c

Alive(c) ==
    \/ c \in Range(connections)
    \/ InFunctor(c)
    \/ c = created /\ accepting # "no"

\* The callbacks newConnected has set by now.
EventFuncsSet(c)    == ~(c = created /\ accepting \in {"inserting", "constructed"})
CloseCallbackSet(c) == ~(c = created /\ accepting \in {"inserting", "constructed", "bound"})

\* The peer has hung up, and nothing it sent is left to read before that.
Gone(c) == link[c] \notin {"up", "data"}

\* What EventCtrl::modifyEvent(int) and deleteEvent(int) do for c's descriptor.
Registered(c) == pool[loop[c]][fd[c]] = c

SetMask(c, mask) == IF Registered(c) THEN [watch EXCEPT ![c] = mask] ELSE watch

\* EPOLL_CTL_DEL takes out whichever open socket has the descriptor now.
EpollDel(l, f) ==
    [c \in Created |-> IF loop[c] = l /\ fd[c] = f /\ Alive(c) THEN "out" ELSE watch[c]]

\* The main thread is inserting in the map of loop l, which l's own thread uses without
\* a lock: the insertion and the use may go well, or anything may happen from here on.
InsertingFor(l) == accepting = "inserting" /\ loop[created] = l /\ l # Main
UsesPool(l) == up' \in IF InsertingFor(l) THEN BOOLEAN ELSE {up}

DeleteEvent(l, f) ==
    IF pool[l][f] # None
    THEN pool' = [pool EXCEPT ![l][f] = None] /\ watch' = EpollDel(l, f)
    ELSE UNCHANGED <<pool, watch>>

\* EventCtrl::addEvent: std::map::insert keeps an entry that is already there.
AddEvent(l, f, c) == pool' = [pool EXCEPT ![l][f] = IF @ = None THEN c ELSE @]

Functor(op, c) == [op |-> op, conn |-> c]

QueueFor(l, functor) == functions' = [functions EXCEPT ![l] = Append(@, functor)]

Name(c) == ToString(peer[c])

EraseName(c) == connections' = [connections EXCEPT ![Name(c)] = None]

-------------------------------------------------------------------------------
(* TcpServer::newConnected on the main loop's thread.                      *)

Init ==
    /\ setup \in Setups
    /\ created = 0 /\ next = 0
    /\ peer = <<>> /\ fd = <<>> /\ loop = <<>>
    /\ st = <<>> /\ link = <<>> /\ watch = <<>>
    /\ accepting = "no"
    /\ connections = [n \in Names |-> None]
    /\ pool = [l \in Loops |-> [f \in Fds |-> None]]
    /\ functions = [l \in Loops |-> <<>>]
    /\ batch = [l \in Loops |-> <<>>]
    /\ at = [l \in Loops |-> 1]
    /\ active = [l \in Loops |-> {}]
    /\ calls = [l \in Loops |-> <<>>]
    /\ handling = [l \in Loops |-> None]
    /\ pc = [l \in Loops |-> "poll"]
    /\ up = TRUE

\* The peer of c no longer holds its address: c's socket is closed, or c was
\* reset and the peer comes back from the same port.
AddressFree(p) ==
    \A c \in Created :
       peer[c] = p /\ Alive(c) => setup.quickReuse /\ link[c] \in {"rst", "rstData", "rstRead"}

FreeFds == (1 .. setup.fds) \ {fd[c] : c \in {d \in Created : Alive(d)}}

\* accept(2) returns the lowest free descriptor.
LowestFree == CHOOSE f \in FreeFds : \A g \in FreeFds : f <= g

NextLoop == IF setup.threads = 0 THEN Main ELSE next + 1

\* Whether acceptHandle is called: its event is the next to be dispatched.
Connecting == [conn |-> None, events |-> {"in"}]
AcceptHandle ==
    /\ up
    /\ Connecting \in active[Main]
    /\ accepting = "no" /\ calls[Main] = <<>>
    /\ active' = [active EXCEPT ![Main] = @ \ {Connecting}]

\* No descriptor is left, or the peer has given up: acceptHandle does nothing.
AcceptFails ==
    /\ AcceptHandle
    /\ UNCHANGED <<connVars, st, link, watch, accepting, connections, pool, queueVars,
                   calls, handling, pc, up>>

\* acceptHandle, getNextLoop and TcpConnect's constructor, up to its addEvent.
Accept(p) ==
    /\ AcceptHandle
    /\ created < setup.conns /\ AddressFree(p) /\ FreeFds # {}
    /\ created' = created + 1
    /\ next' = IF setup.threads = 0 THEN 0 ELSE (next + 1) % setup.threads
    /\ peer' = Append(peer, p)
    /\ fd' = Append(fd, LowestFree)
    /\ loop' = Append(loop, NextLoop)
    /\ st' = Append(st, "Disconnecting")
    /\ link' = Append(link, "up")
    /\ watch' = Append(watch, "out")
    /\ accepting' = "inserting"
    /\ UNCHANGED <<setup, connections, pool, queueVars, calls, handling, pc, up>>

\* addEvent is through: the descriptor is in the io loop's pool and epoll (mask 0) before
\* the Event has its handlers.
Inserted ==
    /\ up /\ accepting = "inserting"
    /\ AddEvent(loop[created], fd[created], created)
    /\ watch' = [watch EXCEPT ![created] = "none"]
    /\ accepting' = "constructed"
    /\ UNCHANGED <<connVars, st, link, connections, queueVars, handVars, pc, up>>

\* Event::set*Func, at the end of the constructor.
BindHandlers ==
    /\ up /\ accepting = "constructed"
    /\ accepting' = "bound"
    /\ UNCHANGED <<connVars, st, link, watch, connections, pool, queueVars, handVars, pc, up>>

\* addConnect (insert keeps an older connection of that name), setCloseCallback.
AddConnect ==
    /\ up /\ accepting = "bound"
    /\ connections' = [connections EXCEPT ![Name(created)] = IF @ = None THEN created ELSE @]
    /\ accepting' = "registered"
    /\ UNCHANGED <<connVars, st, link, watch, pool, queueVars, handVars, pc, up>>

\* A callback of the user's on c in state s: it may write, and ask for EPOLLOUT if the write
\* is cut short, and then shut its sending side. In another state nothing comes of either.
AfterCallback(c, s, mask) ==
    /\ \E t \in IF s = "Connected" /\ setup.shuts THEN {s, "Disconnecting"} ELSE {s} :
          st' = [st EXCEPT ![c] = t]
    /\ \E m \in IF s = "Connected" /\ setup.cuts THEN {mask, "both"} ELSE {mask} :
          watch' = SetMask(c, m)

\* Mutant of Connected: no enableReading.
Connected_NoReading(c) == AfterCallback(c, "Connected", watch[c])

\* TcpConnect::connectedHandle.
Connected(c) == AfterCallback(c, "Connected", "read")

HandOff ==
    /\ up /\ accepting = "registered"
    /\ accepting' = "handedOff"
    /\ IF loop[created] = Main
       THEN Connected(created) /\ UNCHANGED functions
       ELSE QueueFor(loop[created], Functor("connected", created)) /\ UNCHANGED <<st, watch>>
    /\ UNCHANGED <<connVars, link, connections, pool, batch, at, handVars, pc, up>>

\* newConnected returns and drops its shared_ptr.
NewConnectedReturns ==
    /\ up /\ accepting = "handedOff"
    /\ accepting' = "no"
    /\ UNCHANGED <<connVars, st, link, watch, connections, pool, queueVars, handVars, pc, up>>

-------------------------------------------------------------------------------
(* The loops.                                                              *)

\* What epoll reports for c under its mask: EPOLLERR and EPOLLHUP always, input and
\* output only if asked for.  Level-triggered: as long as the condition lasts.
Report(c) ==
    LET cond  == CASE link[c] = "up"                -> {"out"}
                   [] link[c] \in {"data", "eof"}   -> {"in", "out"}
                   [] link[c] \in {"rst", "rstData"} -> {"in", "out", "err", "hup"}
                   [] link[c] = "rstRead"           -> {"in", "out", "hup"}
        asked == CASE watch[c] = "both" -> {"in", "out"}
                   [] watch[c] = "read" -> {"in"}
                   [] OTHER             -> {}
    IN  cond \cap (asked \cup {"err", "hup"})

\* The send buffers of some may be full.
ReportedOf(c, full) ==
    [conn |-> c, events |-> IF c \in full THEN Report(c) \ {"out"} ELSE Report(c)]

Reported(l, full) ==
    {e \in {ReportedOf(c, full) :
               c \in {d \in Created : loop[d] = l /\ Alive(d) /\ watch[d] # "out"}} :
        e.events # {}}

\* epoll_wait returns what is ready, or nothing after PollTimeMs; on the main
\* loop also the listening socket if a peer is connecting.
Poll(l) ==
    /\ up /\ pc[l] = "poll" /\ l <= setup.threads
    /\ l = Main \/ Len(functions[Main]) < MaxQueue
    /\ \E waiting \in SUBSET {Connecting}, full \in SUBSET {c \in Created : watch[c] = "both"} :
          /\ waiting # {} => l = Main /\ created < setup.conns /\ \E p \in Peers : AddressFree(p)
          /\ active' = [active EXCEPT ![l] = Reported(l, full) \cup waiting]
    /\ pc' = [pc EXCEPT ![l] = "handle"]
    /\ UNCHANGED <<connVars, st, link, watch, accepting, connections, pool, queueVars,
                   calls, handling, up>>

InHandlers(l) == calls[l] # <<>> \/ (l = Main /\ accepting # "no")

\* Mutant of HandlerCalls: the end of input also calls the close handler.
HandlerCalls_ReadThenClose(events) ==
    (IF "err" \in events THEN <<"error">> ELSE <<>>)
    \o (IF "in" \in events THEN <<"read", "close">> ELSE <<>>)
    \o (IF "out" \in events THEN <<"write">> ELSE <<>>)

\* The calls Event::handle makes for an event mask, in its order.
HandlerCalls(events) ==
    (IF "hup" \in events /\ "in" \notin events THEN <<"close">> ELSE <<>>)
    \o (IF "err" \in events THEN <<"error">> ELSE <<>>)
    \o (IF "in" \in events THEN <<"read">> ELSE <<>>)
    \o (IF "out" \in events THEN <<"write">> ELSE <<>>)

\* waitAndRunHandle takes the next event: the Event its descriptor leads to now
\* handles it; a descriptor without a living Event is deleted.
Dispatch(l) ==
    /\ up /\ pc[l] = "handle" /\ ~InHandlers(l)
    /\ \E e \in active[l] :
          /\ e.conn # None
          /\ active' = [active EXCEPT ![l] = @ \ {e}]
          /\ LET c == pool[l][fd[e.conn]]
             IN  IF c # None /\ Alive(c)
                 THEN /\ calls' = [calls EXCEPT ![l] = HandlerCalls(e.events)]
                      /\ handling' = [handling EXCEPT ![l] = c]
                      /\ UNCHANGED <<pool, watch>>
                 ELSE /\ pool' = [pool EXCEPT ![l][fd[e.conn]] = None]
                      /\ watch' = EpollDel(l, fd[e.conn])
                      /\ UNCHANGED <<calls, handling>>
    /\ UsesPool(l)
    /\ UNCHANGED <<connVars, st, link, accepting, connections, queueVars, pc>>

\* TcpConnect::closeEvent on loop l.  connectCloseEvent hands the removal to the
\* main loop; on the main loop itself removeConnectInLoop and removedHandle run
\* before the call returns.
CloseEvent(l, c) ==
    /\ st' = [st EXCEPT ![c] = "Disconnected"]
    /\ IF ~CloseCallbackSet(c) THEN UNCHANGED <<functions, connections, pool, watch>>
       ELSE IF l = Main
       THEN EraseName(c) /\ DeleteEvent(Main, fd[c]) /\ UNCHANGED functions
       ELSE QueueFor(Main, Functor("remove", c)) /\ UNCHANGED <<connections, pool, watch>>

\* TcpConnect::readEvent.  The sockets block, so without input the call waits.
\* A reset makes readv fail: Buffer::readFromIO takes -1 for a length, and ends
\* the process if the buffer was empty.
ReadEvent(l, c) ==
    \/ /\ link[c] \in {"data", "rstData"}
       /\ link' = [link EXCEPT ![c] = IF @ = "data" THEN "up" ELSE "rst"]
       /\ AfterCallback(c, st[c], watch[c])
       /\ UNCHANGED <<functions, connections, pool, up>>
    \/ /\ link[c] = "rst"
       /\ link' = [link EXCEPT ![c] = "rstRead"]
       /\ up' \in BOOLEAN
       /\ UNCHANGED <<st, functions, connections, pool, watch>>
    \/ /\ link[c] \in {"eof", "rstRead"}
       /\ CloseEvent(l, c) /\ UNCHANGED <<link, up>>

\* TcpConnect::writeEvent: if all of writeBuf is taken the interest in EPOLLOUT ends.
WriteEvent(c) ==
    /\ \E m \in IF watch[c] = "both" THEN {"both", "read"} ELSE {watch[c]} : watch' = SetMask(c, m)
    /\ UNCHANGED <<st, functions, connections, pool, link, up>>

CallHandler(l) ==
    /\ up /\ calls[l] # <<>>
    /\ Alive(handling[l])
    /\ calls' = [calls EXCEPT ![l] = Tail(@)]
    /\ handling' = [handling EXCEPT ![l] = IF Len(calls[l]) = 1 THEN None ELSE @]
    /\ IF ~EventFuncsSet(handling[l])
       THEN UNCHANGED <<st, functions, connections, pool, watch, link, up>>
       ELSE IF Head(calls[l]) = "read"
       THEN ReadEvent(l, handling[l])
       ELSE IF Head(calls[l]) = "write"
       THEN WriteEvent(handling[l])
       ELSE CloseEvent(l, handling[l]) /\ UNCHANGED <<link, up>>
    /\ UNCHANGED <<connVars, accepting, batch, at, active, pc>>

\* runAllFunctionInLoop swaps the queue out ...
BeginFunctions(l) ==
    /\ up /\ pc[l] = "handle" /\ active[l] = {} /\ ~InHandlers(l)
    /\ batch' = [batch EXCEPT ![l] = functions[l]]
    /\ functions' = [functions EXCEPT ![l] = <<>>]
    /\ at' = [at EXCEPT ![l] = 1]
    /\ pc' = [pc EXCEPT ![l] = "run"]
    /\ UNCHANGED <<connVars, st, link, watch, accepting, connections, pool, handVars, up>>

\* Mutant of RemoveConnectInLoop: the main loop deregisters the connection itself.
RemoveConnectInLoop_Direct(c) ==
    /\ EraseName(c)
    /\ DeleteEvent(loop[c], fd[c])
    /\ UNCHANGED <<st, functions>>

\* TcpServer::removeConnectInLoop: erases by name, then removedHandle goes to
\* the connection's loop.
RemoveConnectInLoop(c) ==
    /\ EraseName(c)
    /\ QueueFor(loop[c], Functor("removed", c))
    /\ UNCHANGED <<st, pool, watch>>

\* Mutant of RemovedHandle: no removeFromLoop.
RemovedHandle_StaysInLoop(c) ==
    /\ IF st[c] = "Connected"
       THEN /\ st' = [st EXCEPT ![c] = "Disconnected"]
            /\ QueueFor(Main, Functor("remove", c))
            /\ watch' = SetMask(c, "none")
       ELSE UNCHANGED <<st, functions, watch>>
    /\ UNCHANGED <<connections, pool>>

\* TcpConnect::removedHandle.
RemovedHandle(c) ==
    /\ DeleteEvent(loop[c], fd[c])
    /\ IF st[c] = "Connected"
       THEN st' = [st EXCEPT ![c] = "Disconnected"] /\ QueueFor(Main, Functor("remove", c))
       ELSE UNCHANGED <<st, functions>>
    /\ UNCHANGED connections

\* ... runs its functors one by one ...
RunFunctor(l) ==
    /\ up /\ pc[l] = "run" /\ at[l] <= Len(batch[l])
    /\ LET f == batch[l][at[l]]
       IN  CASE f.op = "connected" -> Connected(f.conn) /\ UNCHANGED <<functions, connections, pool>>
             [] f.op = "remove"    -> RemoveConnectInLoop(f.conn)
             [] f.op = "removed"   -> RemovedHandle(f.conn)
    /\ UsesPool(l)
    /\ at' = [at EXCEPT ![l] = @ + 1]
    /\ UNCHANGED <<connVars, link, accepting, batch, handVars, pc>>

\* Mutant of EndFunctions: the index is not the loop's own.
EndFunctions_KeepsIndex(l) ==
    /\ up /\ pc[l] = "run" /\ at[l] > Len(batch[l])
    /\ batch' = [batch EXCEPT ![l] = <<>>]
    /\ pc' = [pc EXCEPT ![l] = "poll"]
    /\ UNCHANGED <<connVars, st, link, watch, accepting, connections, pool, functions,
                   at, handVars, up>>

\* ... and destroys them together.
EndFunctions(l) ==
    /\ up /\ pc[l] = "run" /\ at[l] > Len(batch[l])
    /\ batch' = [batch EXCEPT ![l] = <<>>]
    /\ at' = [at EXCEPT ![l] = 1]
    /\ pc' = [pc EXCEPT ![l] = "poll"]
    /\ UNCHANGED <<connVars, st, link, watch, accepting, connections, pool, functions,
                   handVars, up>>

-------------------------------------------------------------------------------
(* The peers.                                                              *)

\* Behind unread data a FIN changes nothing: readv returns the data first.
PeerSends(c) ==
    /\ up /\ setup.sends /\ c \in Created
    /\ link[c] = "up" /\ Alive(c)
    /\ link' = [link EXCEPT ![c] = "data"]
    /\ UNCHANGED <<connVars, st, watch, accepting, connections, pool, queueVars, handVars, pc, up>>

PeerCloses(c) ==
    /\ up /\ c \in Created
    /\ link[c] = "up" /\ Alive(c)
    /\ link' = [link EXCEPT ![c] = "eof"]
    /\ UNCHANGED <<connVars, st, watch, accepting, connections, pool, queueVars, handVars, pc, up>>

PeerResets(c) ==
    /\ up /\ setup.resets /\ c \in Created
    /\ ~Gone(c) /\ Alive(c)
    /\ link' = [link EXCEPT ![c] = IF @ = "data" THEN "rstData" ELSE "rst"]
    /\ UNCHANGED <<connVars, st, watch, accepting, connections, pool, queueVars, handVars, pc, up>>

NewConnected ==
    (\E p \in Peers : Accept(p)) \/ AcceptFails \/ Inserted \/ BindHandlers \/ AddConnect \/ HandOff \/ NewConnectedReturns

LoopStep(l) ==
    Poll(l) \/ Dispatch(l) \/ CallHandler(l) \/ BeginFunctions(l) \/ RunFunctor(l)
    \/ EndFunctions(l)

Next ==
    \/ NewConnected
    \/ \E l \in Loops : LoopStep(l)
    \/ \E c \in Conns : PeerSends(c) \/ PeerCloses(c) \/ PeerResets(c)

\* Every loop's thread is scheduled; the main loop's thread also runs newConnected.
Fairness == /\ WF_vars(NewConnected \/ LoopStep(Main))
            /\ \A l \in Loops \ {Main} : WF_vars(LoopStep(l))

Spec == Init /\ [][Next]_vars /\ Fairness

-------------------------------------------------------------------------------
(* Properties.                                                             *)

\* Event::handle holds the Event but not the TcpConnect its handlers are bound
\* to: none of them runs on a TcpConnect that is gone.
HandlersRunOnLiveConnections ==
    \A l \in Loops : calls[l] # <<>> => Alive(handling[l])

\* A connection past its constructor's addEvent.
Constructed(c) == c # created \/ accepting # "inserting"

\* The two registries of a loop agree on a living connection, and the pool
\* keeps no descriptor of a destroyed one: std::map::insert would not replace
\* it when the kernel gives the number to the next connection.
RegistrationsAgree ==
    /\ \A c \in Created : Alive(c) /\ Constructed(c) => (Registered(c) <=> watch[c] # "out")
    /\ \A l \in Loops, f \in Fds : pool[l][f] # None => Alive(pool[l][f])

\* A connection its peer keeps open stays in connections_ and, once
\* connectedHandle has run, is read by its loop, whatever happens to the
\* connections before it and to their names and descriptors.
HandedOff(c) ==
    /\ c # created \/ accepting \in {"handedOff", "no"}
    /\ \A l \in Loops :
          /\ Functor("connected", c) \notin Range(functions[l])
          /\ \A i \in at[l] .. Len(batch[l]) : batch[l][i] # Functor("connected", c)

OpenConnectionsServed ==
    \A c \in Created :
       ~Gone(c) /\ HandedOff(c) =>
          connections[Name(c)] = c /\ Registered(c) /\ watch[c] \in {"read", "both"}

\* connectedHandle runs before removedHandle: while it is on its way the connection is
\* still in its loop, however early the peer hung up (TcpConnect.cpp:84-106).
ConnectedBeforeRemoved ==
    \A c \in Created : Constructed(c) /\ ~HandedOff(c) => Registered(c)

\* An event is handled by the connection it was reported for: no descriptor
\* changes hands between epoll_wait and the dispatch.
EventsReachTheirConnection ==
    \A l \in Loops : \A e \in active[l] :
       e.conn # None =>
          LET c == pool[l][fd[e.conn]] IN c # None /\ Alive(c) => c = e.conn

\* Connections whose peer has gone do not pile up: each is destroyed in the end,
\* with its descriptor, unless the process ends first.  A gone peer stays gone
\* and connections are finitely many, so this is one formula for all of them.
Leaking == {c \in Created : Gone(c) /\ Alive(c)}
Reclaimed == []<>(~up \/ Leaking = {})
===============================================================================
