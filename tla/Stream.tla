------------------------------- MODULE Stream -------------------------------
(***************************************************************************)
(* The write path of the connections one loop serves: writeData,           *)
(* writeEvent, shutdownWrite, closeEvent and removedHandle of              *)
(* TcpConnect.cpp, after connectedHandle.  All of them run on the loop's   *)
(* thread.  A write fills the socket's send buffer as far as it goes; on a *)
(* blocking socket, which accept returns (SocketOperation.cpp:54), the     *)
(* loop then waits in the system call until the rest went in as well, a    *)
(* signal interrupts it, or the connection is lost.  writeBuf is a queue   *)
(* of bytes, as Buffer is shown to be.  Bytes are numbered in the order    *)
(* they are written; the code does not look at them.                       *)
(***************************************************************************)
EXTENDS Sequences, Integers

CONSTANTS Conns,
          None,        \* no connection
          SendBuf,     \* bytes a socket's send buffer holds
          MaxBytes     \* bound: bytes written to one connection

ASSUME StreamAssumption ==
    /\ None \notin Conns
    /\ SendBuf \in Nat \ {0} /\ MaxBytes \in Nat

VARIABLES
    state,       \* TcpConnect::state
    writing,     \* Event::isWriting: EPOLLOUT is in the event's mask
    inLoop,      \* the event is in the loop's pool and epoll
    closing,     \* closeEvent has sent for removedHandle
    writeBuf,    \* content of TcpConnect::writeBuf
    sock,        \* the socket's sending side: "open", "shut" or "reset"
    sendq,       \* what the kernel has taken and the peer has not read
    call,        \* the system call the loop waits in
    written,     \* number of bytes given to write
    got,         \* what the peer has read
    blocking,    \* do the sockets block
    reads        \* does the peer keep reading

connVars == <<state, inLoop, closing>>
bufVars  == <<writing, writeBuf>>
envVars  == <<blocking, reads>>
vars == <<connVars, bufVars, sock, sendq, call, written, got, envVars>>

Bytes == Nat \ {0}

\* The types: a call under way has bytes left to hand over and runs for a
\* connection still in the loop, and only a disconnected one has left it.
TypeOK ==
    /\ state \in [Conns -> {"Connected", "Disconnecting", "Disconnected"}]
    /\ writing \in [Conns -> BOOLEAN]
    /\ inLoop \in [Conns -> BOOLEAN]
    /\ closing \in [Conns -> BOOLEAN]
    /\ writeBuf \in [Conns -> Seq(Bytes)]
    /\ sock \in [Conns -> {"open", "shut", "reset"}]
    /\ sendq \in [Conns -> Seq(Bytes)]
    /\ \A c \in Conns : Len(sendq[c]) <= SendBuf
    /\ call \in [conn : Conns \cup {None}, op : {"writeData", "writeEvent"},
                 taken : Nat, rest : Seq(Bytes)]
    /\ call.conn # None => inLoop[call.conn] /\ call.rest # <<>>
    /\ written \in [Conns -> Nat]
    /\ got \in [Conns -> Seq(Bytes)]
    /\ blocking \in BOOLEAN
    /\ reads \in [Conns -> BOOLEAN]
    /\ \A c \in Conns : ~inLoop[c] => state[c] # "Connected"

-------------------------------------------------------------------------------
First(s, n) == SubSeq(s, 1, n)
After(s, n) == SubSeq(s, n + 1, Len(s))

AtMost(n, m) == IF n <= m THEN n ELSE m

Idle    == call.conn = None
NoCall  == [conn |-> None, op |-> "writeData", taken |-> 0, rest |-> <<>>]
Room(c) == SendBuf - Len(sendq[c])

\* The next n bytes for c.
Fresh(c, n) == [i \in 1 .. n |-> written[c] + i]

\* write(2) takes a first part of the data.
Take(c, data) == sendq' = [sendq EXCEPT ![c] = @ \o data]

\* A peer that hung up before connectedHandle ran: its removal is on the way.
Init ==
    /\ state = [c \in Conns |-> "Connected"]
    /\ writing = [c \in Conns |-> FALSE]
    /\ inLoop = [c \in Conns |-> TRUE]
    /\ closing \in [Conns -> BOOLEAN]
    /\ writeBuf = [c \in Conns |-> <<>>]
    /\ sock = [c \in Conns |-> "open"]
    /\ sendq = [c \in Conns |-> <<>>]
    /\ call = NoCall
    /\ written = [c \in Conns |-> 0]
    /\ got = [c \in Conns |-> <<>>]
    /\ blocking \in BOOLEAN
    /\ reads \in [Conns -> BOOLEAN]

-------------------------------------------------------------------------------
(* writeData, called from a callback of the loop.                          *)

\* Mutant of MayWriteDirectly: what waits in writeBuf is not looked at.
MayWriteDirectly_Always(c) == TRUE

MayWriteDirectly(c) == ~writing[c] /\ writeBuf[c] = <<>>

\* Mutant of AppendRest: write interest is not switched on.
AppendRest_NotEnabled(c, rest) ==
    /\ writeBuf' = [writeBuf EXCEPT ![c] = @ \o rest]
    /\ UNCHANGED writing

\* The end of writeData: what was not taken waits for EPOLLOUT.
AppendRest(c, rest) ==
    IF rest = <<>>
    THEN UNCHANGED bufVars
    ELSE /\ writeBuf' = [writeBuf EXCEPT ![c] = @ \o rest]
         /\ writing' = [writing EXCEPT ![c] = TRUE]

\* A write of n bytes; on a disconnected connection it returns at once, and on a
\* socket that is shut or reset the system call fails with EPIPE or ECONNRESET
\* and the data is dropped: neither changes anything.
CanWrite(c, n) ==
    /\ Idle /\ inLoop[c]
    /\ state[c] # "Disconnected"
    /\ written[c] + n <= MaxBytes
    /\ written' = [written EXCEPT ![c] = @ + n]

WriteDirect(c, n) ==
    /\ CanWrite(c, n)
    /\ MayWriteDirectly(c)
    /\ sock[c] = "open"
    /\ LET data == Fresh(c, n)
           k    == AtMost(n, Room(c))
       IN  /\ Take(c, First(data, k))
           /\ IF blocking /\ k < n
              THEN /\ call' = [conn |-> c, op |-> "writeData", taken |-> k,
                               rest |-> After(data, k)]
                   /\ UNCHANGED bufVars
              ELSE AppendRest(c, After(data, k)) /\ UNCHANGED call
    /\ UNCHANGED <<connVars, sock, got, envVars>>

WriteBuffered(c, n) ==
    /\ CanWrite(c, n)
    /\ ~MayWriteDirectly(c)
    /\ AppendRest(c, Fresh(c, n))
    /\ UNCHANGED <<connVars, sock, sendq, call, got, envVars>>

-------------------------------------------------------------------------------
(* writeEvent, on EPOLLOUT.                                                *)

\* Mutant of ClearWritten: write interest stays on.
ClearWritten_StaysOn(c, n) ==
    /\ writeBuf' = [writeBuf EXCEPT ![c] = After(@, n)]
    /\ UNCHANGED writing

\* The end of writeEvent when n > 0 bytes were taken.
ClearWritten(c, n) ==
    /\ writeBuf' = [writeBuf EXCEPT ![c] = After(@, n)]
    /\ writing' = [writing EXCEPT ![c] = n < Len(writeBuf[c])]

\* On a socket that is shut or reset write fails and writeEvent only logs it.
WriteEvent(c) ==
    /\ Idle /\ inLoop[c]
    /\ writing[c]
    /\ sock[c] = "open" /\ Room(c) > 0
    /\ LET k == AtMost(Len(writeBuf[c]), Room(c))
       IN  /\ Take(c, First(writeBuf[c], k))
           /\ IF blocking /\ k < Len(writeBuf[c])
              THEN /\ call' = [conn |-> c, op |-> "writeEvent", taken |-> k,
                               rest |-> After(writeBuf[c], k)]
                   /\ UNCHANGED bufVars
              ELSE ClearWritten(c, k) /\ UNCHANGED call
    /\ UNCHANGED <<connVars, sock, written, got, envVars>>

-------------------------------------------------------------------------------
(* The system call a loop waits in.                                        *)

\* It returns `taken' and its caller goes on; with -1 for EINTR, nothing taken,
\* writeData keeps all of the data.
Return(taken, rest) ==
    /\ IF call.op = "writeData" THEN AppendRest(call.conn, rest)
                                ELSE ClearWritten(call.conn, taken)
    /\ call' = NoCall

CallGoesOn ==
    /\ ~Idle
    /\ sock[call.conn] = "open" /\ Room(call.conn) > 0
    /\ LET k    == AtMost(Len(call.rest), Room(call.conn))
           rest == After(call.rest, k)
       IN  /\ Take(call.conn, First(call.rest, k))
           /\ IF k < Len(call.rest)
              THEN /\ call' = [call EXCEPT !.taken = @ + k, !.rest = rest]
                   /\ UNCHANGED bufVars
              ELSE Return(call.taken + k, <<>>)
    /\ UNCHANGED <<connVars, sock, written, got, envVars>>

\* A signal.
Interrupted ==
    /\ ~Idle
    /\ sock[call.conn] = "open"
    /\ Return(call.taken, call.rest)
    /\ UNCHANGED <<connVars, sock, sendq, written, got, envVars>>

\* The connection was reset: -1 with ECONNRESET or EPIPE if nothing was taken,
\* and writeData then drops the data.
CallFails ==
    /\ ~Idle
    /\ sock[call.conn] = "reset"
    /\ IF call.op = "writeData" /\ call.taken = 0
       THEN call' = NoCall /\ UNCHANGED bufVars
       ELSE Return(call.taken, call.rest)
    /\ UNCHANGED <<connVars, sock, sendq, written, got, envVars>>

-------------------------------------------------------------------------------
(* The end of a connection.                                                *)

\* What is still in writeBuf is not looked at.
ShutdownWrite(c) ==
    /\ Idle /\ inLoop[c]
    /\ state[c] = "Connected"
    /\ state' = [state EXCEPT ![c] = "Disconnecting"]
    /\ sock' = [sock EXCEPT ![c] = IF @ = "open" THEN "shut" ELSE @]
    /\ UNCHANGED <<inLoop, closing, bufVars, sendq, call, written, got, envVars>>

\* closeEvent, on the end of the peer's data, a hang-up or an error.
CloseEvent(c) ==
    /\ Idle /\ inLoop[c]
    /\ state' = [state EXCEPT ![c] = "Disconnected"]
    /\ closing' = [closing EXCEPT ![c] = TRUE]
    /\ UNCHANGED <<inLoop, bufVars, sock, sendq, call, written, got, envVars>>

\* Mutant of RemovedHandle: it does not test the state.
RemovedHandle_NoState(c) ==
    /\ Idle /\ inLoop[c] /\ closing[c]
    /\ inLoop' = [inLoop EXCEPT ![c] = FALSE]
    /\ UNCHANGED <<state, closing, bufVars, sock, sendq, call, written, got, envVars>>

RemovedHandle(c) ==
    /\ Idle /\ inLoop[c] /\ closing[c]
    /\ IF state[c] = "Connected"
       THEN /\ state' = [state EXCEPT ![c] = "Disconnected"]
            /\ writing' = [writing EXCEPT ![c] = FALSE]
       ELSE UNCHANGED <<state, writing>>
    /\ inLoop' = [inLoop EXCEPT ![c] = FALSE]
    /\ UNCHANGED <<closing, writeBuf, sock, sendq, call, written, got, envVars>>

-------------------------------------------------------------------------------
(* The peer.                                                               *)

PeerReads(c) ==
    /\ \E n \in 1 .. Len(sendq[c]) :
          /\ got' = [got EXCEPT ![c] = @ \o First(sendq[c], n)]
          /\ sendq' = [sendq EXCEPT ![c] = After(@, n)]
    /\ UNCHANGED <<connVars, bufVars, sock, call, written, envVars>>

PeerResets(c) ==
    /\ sock' = [sock EXCEPT ![c] = "reset"]
    /\ sendq' = [sendq EXCEPT ![c] = <<>>]
    /\ UNCHANGED <<connVars, bufVars, call, written, got, envVars>>

Next ==
    \/ \E c \in Conns, n \in 1 .. MaxBytes : WriteDirect(c, n) \/ WriteBuffered(c, n)
    \/ \E c \in Conns :
          \/ WriteEvent(c) \/ ShutdownWrite(c) \/ CloseEvent(c) \/ RemovedHandle(c)
          \/ PeerReads(c) \/ PeerResets(c)
    \/ CallGoesOn \/ Interrupted \/ CallFails

Spec == Init /\ [][Next]_vars

\* The loop dispatches an event that stays ready, the kernel lets a call go on
\* that can, and some peers keep reading.
FairSpec ==
    /\ Spec
    /\ \A c \in Conns : WF_vars(WriteEvent(c)) /\ WF_vars(reads[c] /\ PeerReads(c))
    /\ WF_vars(CallGoesOn) /\ WF_vars(CallFails)

-------------------------------------------------------------------------------
(* Properties.                                                             *)

\* Outside of a system call a connection in the loop asks for EPOLLOUT exactly
\* while bytes wait in writeBuf: never waiting without being woken, and never
\* woken on each poll for nothing.
WriteInterest ==
    \A c \in Conns :
        inLoop[c] /\ call.conn # c => (writing[c] <=> writeBuf[c] # <<>>)

\* The bytes of c that can still reach its peer.
Unsent(c) == IF call.conn = c THEN call.rest ELSE writeBuf[c]
Transit(c) == sendq[c] \o IF inLoop[c] /\ sock[c] = "open" THEN Unsent(c) ELSE <<>>

Open(c) == inLoop[c] /\ sock[c] = "open" /\ state[c] = "Connected"

\* The bytes of all the writes, direct or through writeBuf, interrupted or not,
\* reach the peer in order without a gap; TcpConnect.cpp:167 says that a direct
\* write past a full writeBuf would break that.
Stream == INSTANCE Pipe WITH transit <- [c \in Conns |-> Transit(c)],
                             open <- [c \in Conns |-> Open(c)]
PipeSpec == Stream!Spec

\* A connection is served if its peer reads and no other peer can make the loop
\* wait in a blocking write.
Served(c) == reads[c] /\ (blocking => \A d \in Conns : reads[d])

\* Whatever waits for a peer that is served reaches it, unless it is cut off by
\* shutdownWrite, a reset or the removal.
Delivered == \A c \in Conns : Served(c) => []<>(Transit(c) = <<>>)
===============================================================================
