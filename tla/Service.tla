------------------------------- MODULE Service -------------------------------
(***************************************************************************)
(* The programs on top of a TcpServer and the receiving end of their       *)
(* connections: readEvent of TcpConnect.cpp with the message callbacks of  *)
(* SudokuServer.cpp and test_tcp_server.cpp, for the connections of one io *)
(* loop.  A client's bytes are numbered in the order it sends them, so     *)
(* request k is the k-th run of RequestLen numbers.  What is written to a  *)
(* client goes through a Pipe, which Stream is shown to implement; how a   *)
(* connection is made and removed is TcpServer's and is here only what the *)
(* bytes can meet.                                                         *)
(***************************************************************************)
EXTENDS Sequences, Integers

CONSTANTS Clients,
          RequestLen,    \* kCells, 81 in the code
          ReplyLen,      \* 83 in the code: a board and "\r\n"
          ReadMax,       \* what one readv takes at least: InitSize and extrabuf
          MaxRequests    \* bound: requests of one client

ASSUME ServiceAssumption ==
    /\ RequestLen \in Nat \ {0} /\ ReplyLen \in Nat \ {0}
    /\ ReadMax \in Nat /\ RequestLen <= ReadMax
    /\ MaxRequests \in Nat

VARIABLES
    program,     \* "sudoku" or "echo"
    kind,        \* what each client does, and the network with its requests
    phase,       \* how far each connection is
    sent,        \* bytes each client has sent
    arrived,     \* bytes that have reached the server's socket
    taken,       \* bytes the server has read from it
    fin,         \* has the client shut its sending side
    readBuf,     \* content of TcpConnect::readBuf
    transit, got, open,  \* the pipe to each client
    up           \* the process has not aborted

clientVars == <<program, kind, sent, fin>>
outVars    == <<transit, got, open>>
vars == <<clientVars, phase, arrived, taken, readBuf, outVars, up>>

Out == INSTANCE Pipe WITH Conns <- Clients

Programs == {"sudoku", "echo"}

\* patient: waits for the answer to a request before it sends the next or shuts its
\* side; whole: the network splits no request, though it may join them.
Kinds == [patient : BOOLEAN, whole : BOOLEAN]

\* "waiting" for accept; "constructed" with its read handler; "bound" to the callbacks;
\* "connected"; "closing" after closeEvent; "removed" after removedHandle.
Phases == {"waiting", "constructed", "bound", "connected", "closing", "removed"}

MaxSent == MaxRequests * RequestLen

-------------------------------------------------------------------------------
(* Requests and answers.                                                   *)

\* The bytes m + 1 .. n of a client's stream.
Bytes(m, n) == [i \in 1 .. n - m |-> m + i]

\* The answer of solveSuduku to a request, with its line end: byte i of it.
Solution(request) == [i \in 1 .. ReplyLen |-> <<request, i>>]

Request(k) == Bytes((k - 1) * RequestLen, k * RequestLen)

\* Byte i of the answers to all requests.
SolutionByte(i) ==
    Solution(Request((i - 1) \div ReplyLen + 1))[((i - 1) % ReplyLen) + 1]

AnswerLen == IF program = "sudoku" THEN ReplyLen ELSE RequestLen

\* What a client is owed for its first n requests.
Promised(n) == IF program = "sudoku"
               THEN [i \in 1 .. n * ReplyLen |-> SolutionByte(i)]
               ELSE Bytes(0, n * RequestLen)

Asked(c) == sent[c] \div RequestLen
Answered(c) == Len(got[c]) >= Asked(c) * AnswerLen

\* A client that uses the sudoku program as it expects.
Good(c) == kind[c].patient /\ kind[c].whole

-------------------------------------------------------------------------------
Init ==
    /\ program \in Programs
    /\ kind \in [Clients -> Kinds]
    /\ phase = [c \in Clients |-> "waiting"]
    /\ sent = [c \in Clients |-> 0]
    /\ arrived = [c \in Clients |-> 0]
    /\ taken = [c \in Clients |-> 0]
    /\ fin = [c \in Clients |-> FALSE]
    /\ readBuf = [c \in Clients |-> <<>>]
    /\ Out!Init
    /\ up = TRUE

(* The clients and the network.                                            *)

SendRequest(c) ==
    /\ ~fin[c] /\ sent[c] < MaxSent
    /\ kind[c].patient => Answered(c)
    /\ sent' = [sent EXCEPT ![c] = @ + RequestLen]
    /\ UNCHANGED <<program, kind, fin, phase, arrived, taken, readBuf, outVars, up>>

ShutsItsSide(c) ==
    /\ ~fin[c]
    /\ kind[c].patient => Answered(c)
    /\ fin' = [fin EXCEPT ![c] = TRUE]
    /\ UNCHANGED <<program, kind, sent, phase, arrived, taken, readBuf, outVars, up>>

Arrive(c) ==
    /\ \E n \in arrived[c] + 1 .. sent[c] :
          /\ kind[c].whole => n % RequestLen = 0
          /\ arrived' = [arrived EXCEPT ![c] = n]
    /\ UNCHANGED <<clientVars, phase, taken, readBuf, outVars, up>>

Deliver(c) ==
    /\ Out!Deliver(c)
    /\ UNCHANGED <<clientVars, phase, arrived, taken, readBuf, up>>

-------------------------------------------------------------------------------
(* newConnected on the main loop's thread, one connection at a time, and   *)
(* connectedHandle on the io loop's.                                       *)

Move(c, from, to) ==
    /\ up /\ phase[c] = from
    /\ phase' = [phase EXCEPT ![c] = to]
    /\ UNCHANGED <<clientVars, arrived, taken, readBuf, outVars, up>>

Construct(c)    == Move(c, "waiting", "constructed") /\ \A d \in Clients : phase[d] # "constructed"
SetCallbacks(c) == Move(c, "constructed", "bound")
Connected(c)    == Move(c, "bound", "connected")

-------------------------------------------------------------------------------
(* The io loop.                                                            *)

\* Mutant of Reading: the event asks for input as soon as it is in the loop.
Reading_AtOnce(c) == phase[c] \in {"constructed", "bound", "connected", "closing"}

\* connectedHandle asks for input, removeFromLoop ends it.
Reading(c) == phase[c] \in {"connected", "closing"}

\* newConnected has called setMessageCallback.
MessageCallbackSet(c) == phase[c] \notin {"waiting", "constructed"}

\* TcpConnect::write; the rest of writeData is Stream's.
Write(c, bytes) ==
    /\ transit' = [transit EXCEPT ![c] = IF open[c] THEN @ \o bytes ELSE @]
    /\ UNCHANGED <<got, open>>

\* The assertion fails: the process ends and all its connections with it.
Abort ==
    /\ up' = FALSE
    /\ open' = [c \in Clients |-> FALSE]
    /\ UNCHANGED <<transit, got>>

\* Mutant of LongEnough: the boundary is off by one.
LongEnough_OffByOne(data) == Len(data) > RequestLen

LongEnough(data) == Len(data) >= RequestLen

\* SudokuServer::OnMessage: what follows the first request is dropped.
Sudoku(c, data) ==
    IF LongEnough(data)
    THEN Write(c, Solution(SubSeq(data, 1, RequestLen))) /\ UNCHANGED up
    ELSE Abort

\* TestServer::OnMessage.
Echo(c, data) == Write(c, data) /\ UNCHANGED up

\* Mutant of ReadAllAsString: the buffer keeps what was copied out.
ReadAllAsString_Keeps(c, data) == readBuf' = [readBuf EXCEPT ![c] = data]

ReadAllAsString(c, data) == readBuf' = [readBuf EXCEPT ![c] = <<>>]

OnMessage(c, data) ==
    /\ ReadAllAsString(c, data)
    /\ IF program = "sudoku" THEN Sudoku(c, data) ELSE Echo(c, data)

Available(c) == arrived[c] - taken[c]

\* Mutant of ReadSizes: readFromIO takes the room of its two vectors for what readv returned.
ReadSizes_Room(c) == IF Available(c) > 0 THEN {ReadMax} ELSE {}

\* One readv takes all there is, or as much as the room in readBuf, which may have
\* grown, and extrabuf hold.
ReadSizes(c) ==
    {n \in 1 .. Available(c) : n = Available(c) \/ n >= ReadMax}

\* TcpConnect::readEvent with input.
ReadEvent(c) ==
    /\ up /\ Reading(c)
    /\ \E n \in ReadSizes(c) :
          /\ taken' = [taken EXCEPT ![c] = @ + n]
          /\ LET data == readBuf[c] \o Bytes(taken[c], taken[c] + n)
             IN  IF MessageCallbackSet(c)
                 THEN OnMessage(c, data)
                 ELSE readBuf' = [readBuf EXCEPT ![c] = data] /\ UNCHANGED <<outVars, up>>
    /\ UNCHANGED <<clientVars, phase, arrived>>

\* readEvent at the end of input: closeEvent, and the way of the removal begins.
EndOfInput(c) ==
    /\ up /\ Reading(c)
    /\ fin[c] /\ taken[c] = sent[c]
    /\ phase' = [phase EXCEPT ![c] = "closing"]
    /\ Out!Cut(c)
    /\ UNCHANGED <<clientVars, arrived, taken, readBuf, up>>

\* removedHandle, and the connection is destroyed.
Removed(c) ==
    /\ up /\ phase[c] = "closing"
    /\ phase' = [phase EXCEPT ![c] = "removed"]
    /\ Out!Cut(c)
    /\ UNCHANGED <<clientVars, arrived, taken, readBuf, up>>

\* What was in a writeBuf, or behind bytes nobody read, goes with the process.
LostWithProcess(c) ==
    /\ ~up /\ phase[c] # "waiting"
    /\ Out!Cut(c)
    /\ UNCHANGED <<clientVars, phase, arrived, taken, readBuf, up>>

NewConnected(c) == Construct(c) \/ SetCallbacks(c)
LoopStep(c)     == Connected(c) \/ ReadEvent(c) \/ EndOfInput(c) \/ Removed(c)
Client(c)       == SendRequest(c) \/ ShutsItsSide(c)

Next == \E c \in Clients :
            \/ Client(c) \/ Arrive(c) \/ Deliver(c)
            \/ NewConnected(c) \/ LoopStep(c)
            \/ LostWithProcess(c)

\* The threads are scheduled and the loop serves each of its connections, the network
\* delivers, and clients read; nobody has to send.
Fairness == \A c \in Clients :
    /\ WF_vars(Arrive(c)) /\ WF_vars(Deliver(c))
    /\ WF_vars(NewConnected(c)) /\ WF_vars(LoopStep(c))

Spec == Init /\ [][Next]_vars /\ Fairness

-------------------------------------------------------------------------------
(* Properties.                                                             *)

\* The types, and what is read has arrived, what has arrived was sent.
TypeOK ==
    /\ program \in Programs /\ kind \in [Clients -> Kinds]
    /\ phase \in [Clients -> Phases]
    /\ sent \in [Clients -> 0 .. MaxSent]
    /\ arrived \in [Clients -> 0 .. MaxSent]
    /\ taken \in [Clients -> 0 .. MaxSent]
    /\ \A c \in Clients : taken[c] <= arrived[c] /\ arrived[c] <= sent[c]
    /\ fin \in [Clients -> BOOLEAN]
    /\ \A c \in Clients : Len(readBuf[c]) <= taken[c]
    /\ open \in [Clients -> BOOLEAN]
    /\ up \in BOOLEAN

\* A connection that still runs has its bytes in one of three places and in order: back
\* with the client, on the way there, or in readBuf (test_tcp_server.cpp:46-54).
EchoConserves ==
    program = "echo" =>
       \A c \in Clients :
          open[c] => got[c] \o transit[c] \o readBuf[c] = Bytes(0, taken[c])

\* Only a client whose requests the network splits, or who does not wait, ends the sudoku
\* program by its assertion (SudokuServer.cpp:59); nobody ends the echo program.
Survives == ~up => program = "sudoku" /\ \E c \in Clients : ~Good(c)

\* Whoever uses the program as it expects gets the answers to its requests and nothing
\* else, whatever the other clients of its loop do (SudokuServer.cpp:53-66).
Requests == INSTANCE RequestReply WITH
    promised <- [n \in 0 .. MaxRequests |-> Promised(n)],
    asked    <- [c \in Clients |-> IF Good(c) THEN Asked(c) ELSE 0],
    received <- [c \in Clients |-> IF Good(c) THEN got[c] ELSE <<>>]
RequestReplySpec == Requests!Spec

\* ... and gets all of them, unless another client has ended the process; the echo
\* program answers whoever keeps its side open.
Owed(c) == Good(c) \/ (program = "echo" /\ ~fin[c])
EveryRequestAnswered ==
    \A c \in Clients : []<>(Owed(c) => Answered(c) \/ ~up)
===============================================================================
