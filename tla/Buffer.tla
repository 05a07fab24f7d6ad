-------------------------------- MODULE Buffer --------------------------------
(***************************************************************************)
(* Buffers as TcpConnect has them, readBuf and writeBuf: Buffer.cpp and    *)
(* Buffer.h.  Each method is an operator on a buffer's value, and an       *)
(* action applies it to one of the buffers.                                *)
(***************************************************************************)
EXTENDS Sequences, Integers

CONSTANTS Buffers,
          Bytes,
          Zero,        \* the byte vector::resize fills with
          InitSize,    \* 1024 in the code
          ExtraSize,   \* sizeof extrabuf, 65536 in the code
          MaxSize,     \* bound of buffer_.size()
          Narrow,      \* values of a uint32_t, 2^32 in the code
          Wide         \* values of a size_t, 2^64 in the code

\* A vector below MaxSize keeps the 32-bit indexes from wrapping.
ASSUME BufferAssumption ==
    /\ Zero \in Bytes
    /\ InitSize \in Nat \ {0} /\ ExtraSize \in Nat \ {0} /\ MaxSize \in Nat
    /\ InitSize <= MaxSize /\ MaxSize < Narrow - 1
    /\ Narrow \in Nat /\ Wide \in Nat /\ 2 * Narrow <= Wide

VARIABLES buf,         \* of each buffer: readIndex_, writeIndex_ and buffer_
          moved,       \* what the last call moved (history)
          up           \* the process has not terminated

vars == <<buf, moved, up>>

\* The bytes an action may be given.
Inputs == UNION {[1 .. n -> Bytes] : n \in 0 .. MaxSize}

-------------------------------------------------------------------------------
(* The methods of Buffer.h.                                                *)

ReadableBytes(x) == x.write - x.read
WritableBytes(x) == Len(x.cells) - x.write

\* What readIndexPtr() and readableBytes() delimit.
Content(x) == SubSeq(x.cells, x.read + 1, x.write)

Resize(cells, n) == [i \in 1 .. n |-> IF i <= Len(cells) THEN cells[i] ELSE Zero]

\* std::copy to the cells that follow the first `at'.
Copy(cells, at, data) ==
    [i \in 1 .. Len(cells) |->
        IF i \in at + 1 .. at + Len(data) THEN data[i - at] ELSE cells[i]]

EnsureWriteableBytes(x, len) ==
    IF WritableBytes(x) < len
    THEN [x EXCEPT !.cells = Resize(x.cells, x.write + len)]
    ELSE x

\* copy(...) and writeIndex_ += len.
Fill(x, data) ==
    [x EXCEPT !.cells = Copy(x.cells, x.write, data), !.write = x.write + Len(data)]

AppendData(x, data) == Fill(EnsureWriteableBytes(x, Len(data)), data)

ResetIndex(x) == [x EXCEPT !.read = 0, !.write = 0]

\* Mutant of ClearReadIndex: the indexes are not reset when the last byte goes.
ClearReadIndex_NoReset(x, len) ==
    [x EXCEPT !.read = IF len < ReadableBytes(x) THEN x.read + len ELSE x.write]

ClearReadIndex(x, len) ==
    IF len < ReadableBytes(x) THEN [x EXCEPT !.read = x.read + len] ELSE ResetIndex(x)

\* Mutant of ReadIntoBuffer: everything that was read is taken from extrabuf.
ReadIntoBuffer_WholeExtra(x, data) ==
    IF Len(data) <= WritableBytes(x)
    THEN Fill(x, data)
    ELSE AppendData(Fill(x, SubSeq(data, 1, WritableBytes(x))), data)

\* readFromIO when readv returns Len(data): what does not fit went to extrabuf.
ReadIntoBuffer(x, data) ==
    IF Len(data) <= WritableBytes(x)
    THEN Fill(x, data)
    ELSE AppendData(Fill(x, SubSeq(data, 1, WritableBytes(x))),
                    SubSeq(data, WritableBytes(x) + 1, Len(data)))

-------------------------------------------------------------------------------
Init ==
    /\ buf = [b \in Buffers |->
                 [read |-> 0, write |-> 0, cells |-> [i \in 1 .. InitSize |-> Zero]]]
    /\ moved \in [op : {"none"}, at : Buffers, bytes : {<<>>}]
    /\ up = TRUE

Move(op, b, bytes) == moved' = [op |-> op, at |-> b, bytes |-> bytes]

Put(b, x, data) ==
    /\ Len(x.cells) <= MaxSize
    /\ buf' = [buf EXCEPT ![b] = x]
    /\ Move("put", b, data)
    /\ UNCHANGED up

\* A call of ensureWriteableBytes from outside.
Reserve(b, len) ==
    /\ up
    /\ Len(EnsureWriteableBytes(buf[b], len).cells) <= MaxSize
    /\ buf' = [buf EXCEPT ![b] = EnsureWriteableBytes(@, len)]
    /\ UNCHANGED <<moved, up>>

\* append(const char*, size_t) and append(const string&).
AppendTo(b, data) == up /\ Put(b, AppendData(buf[b], data), data)

ReadFromIO(b, data) ==
    /\ up
    /\ Len(data) <= WritableBytes(buf[b]) + ExtraSize
    /\ Put(b, ReadIntoBuffer(buf[b], data), data)

AtMost(n, m) == IF n <= m THEN n ELSE m

\* clearReadIndex(len), alone or at the end of readAsString, readAllAsString,
\* readBytes and readAllAsByte, which copy out the bytes it drops; resetIndex()
\* is the case that drops all of them.
ReadAsString(b, len) ==
    /\ up
    /\ buf' = [buf EXCEPT ![b] = ClearReadIndex(buf[b], len)]
    /\ Move("take", b, SubSeq(Content(buf[b]), 1, AtMost(len, ReadableBytes(buf[b]))))
    /\ UNCHANGED up

\* retrieveUntil, with a pointer `end' cells behind the first: outside of the
\* readable bytes it returns.
RetrieveUntil(b, end) ==
    /\ buf[b].read <= end /\ end <= buf[b].write
    /\ ReadAsString(b, end - buf[b].read)

Swap(a, b) ==
    /\ up
    /\ buf' = [buf EXCEPT ![a] = buf[b], ![b] = buf[a]]
    /\ Move("swap", a, <<>>)
    /\ UNCHANGED up

\* readFromIO when readv fails.  n is a size_t, so `n < 0' is false and n is
\* 2^64 - 1: append resizes the vector by n - writable, modulo 2^64, to one byte
\* less than writeIndex_, or throws length_error if writeIndex_ is 0; nothing is
\* copied.
ReadFails(b) ==
    /\ up
    /\ LET x   == buf[b]
           n   == Wide - 1
           len == n - WritableBytes(x)
           new == (Len(x.cells) + len) % Wide
       IN  IF n % Narrow <= WritableBytes(x)
           THEN /\ buf' = [buf EXCEPT ![b].write = (@ + n) % Narrow]
                /\ UNCHANGED up
           ELSE IF new > Wide \div 2 - 1
           THEN up' = FALSE /\ UNCHANGED buf
           ELSE /\ buf' = [buf EXCEPT ![b].cells = Resize(@, new),
                                      ![b].write = (Len(x.cells) + len) % Narrow]
                /\ UNCHANGED up
    /\ UNCHANGED moved

Next ==
    \/ \E b \in Buffers, data \in Inputs : AppendTo(b, data) \/ ReadFromIO(b, data)
    \/ \E b \in Buffers, n \in 0 .. MaxSize :
          Reserve(b, n) \/ ReadAsString(b, n) \/ RetrieveUntil(b, n)
    \/ \E a, b \in Buffers : Swap(a, b)

\* Every readv succeeds.
Spec == Init /\ [][Next]_vars

\* A readv may fail, with ECONNRESET for instance.
SpecWithErrors == Init /\ [][Next \/ \E b \in Buffers : ReadFails(b)]_vars

-------------------------------------------------------------------------------
(* Properties.                                                             *)

\* The indexes stay ordered within the vector, and both are 0 once every byte
\* was read: only that gives the space before readIndex_ back.
IndexesOK(x) ==
    /\ x \in [read : Nat, write : Nat, cells : Seq(Bytes)]
    /\ x.read <= x.write /\ x.write <= Len(x.cells)
    /\ x.read = x.write => x.read = 0

TypeOK ==
    /\ \A b \in Buffers : IndexesOK(buf[b])
    /\ DOMAIN buf = Buffers
    /\ moved \in [op : {"none", "put", "take", "swap"}, at : Buffers, bytes : Seq(Bytes)]
    /\ up \in BOOLEAN

\* A buffer is a queue of bytes: whatever the sizes of the reads from the socket
\* (in the vector, or in extrabuf and appended), bytes leave as they came.
Queue == INSTANCE ByteQueue WITH content <- [b \in Buffers |-> Content(buf[b])]
ByteQueueSpec == Queue!Spec

\* readFromIO keeps a branch for a failed readv that only reports errno
\* (Buffer.cpp:23-26): the bytes received before stay in the buffer.
FailedReadKeepsContent ==
    [][\A b \in Buffers :
          ReadFails(b) => up' /\ Content(buf'[b]) = Content(buf[b])]_vars
===============================================================================
