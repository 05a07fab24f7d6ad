----------------------------- MODULE StreamProofs -----------------------------
(***************************************************************************)
(* The write path asks for EPOLLOUT exactly while bytes wait, and          *)
(* implements the Pipe, for any number of connections, sizes of buffers    *)
(* and of writes, blocking or not.                                         *)
(***************************************************************************)
EXTENDS Stream, SequenceTheorems, TLAPS

\* What a record of a system call says of its connection's buffer b and write
\* interest w: writeData waits with an empty buffer, writeEvent with the buffer
\* it hands over.
CallOK(r, b, w) ==
    /\ r.op = "writeData" => b = <<>> /\ ~w
    /\ r.op = "writeEvent" => w /\ r.taken \in 1 .. Len(b) /\ r.rest = After(b, r.taken)

CallMatchesBuffer ==
    \A c \in Conns : call.conn = c => CallOK(call, writeBuf[c], writing[c])

\* The state Disconnecting comes with a socket that sends no more.
ShutSocket == \A c \in Conns : state[c] = "Disconnecting" => sock[c] # "open"

\* The inductive invariant.
IInv == TypeOK /\ WriteInterest /\ CallMatchesBuffer /\ ShutSocket

Calls == [conn : Conns \cup {None}, op : {"writeData", "writeEvent"},
          taken : Nat, rest : Seq(Bytes)]

-------------------------------------------------------------------------------
(* The parts a sequence is split into.                                     *)

\* The first part of a concatenation, and what is behind it.
LEMMA ConcatParts ==
  ASSUME NEW S, NEW s \in Seq(S), NEW t \in Seq(S)
  PROVE  /\ s \o t \in Seq(S) /\ Len(s \o t) = Len(s) + Len(t)
         /\ SubSeq(s \o t, 1, Len(s)) = s
         /\ SubSeq(s \o t, Len(s) + 1, Len(s \o t)) = t
<1>. DEFINE u == s \o t
            a == SubSeq(u, 1, Len(s))
            b == SubSeq(u, Len(s) + 1, Len(u))
<1>1. /\ u \in Seq(S) /\ Len(u) = Len(s) + Len(t) /\ Len(s) \in Nat /\ Len(t) \in Nat
      /\ \A i \in 1 .. Len(s) + Len(t) : u[i] = IF i <= Len(s) THEN s[i] ELSE t[i - Len(s)]
  BY ConcatProperties, LenProperties
<1>. HIDE DEF u
<1>2. \A i \in 1 .. Len(u) : u[i] \in S
  BY <1>1, ElementOfSeq
<1>3. /\ a \in Seq(S) /\ Len(a) = Len(s)
      /\ \A i \in 1 .. Len(s) : a[i] = u[i]
  <2>1. \A i \in 1 .. Len(s) : u[i] \in S
    BY <1>1, <1>2
  <2>2. /\ a \in Seq(S)
        /\ Len(a) = IF 1 <= Len(s) THEN Len(s) - 1 + 1 ELSE 0
        /\ \A i \in 1 .. Len(s) - 1 + 1 : a[i] = u[1 + i - 1]
    BY <1>1, <2>1, SubSeqProperties, 1 \in Int, Len(s) \in Int
  <2>. HIDE DEF a
  <2>3. \A i \in 1 .. Len(s) : 1 + i - 1 = i
    BY <1>1
  <2>. QED BY <1>1, <2>2, <2>3
<1>4. /\ b \in Seq(S) /\ Len(b) = Len(t)
      /\ \A i \in 1 .. Len(t) : b[i] = u[Len(s) + i]
  <2>1. \A i \in Len(s) + 1 .. Len(u) : u[i] \in S
    BY <1>1, <1>2
  <2>2. /\ b \in Seq(S)
        /\ Len(b) = IF Len(s) + 1 <= Len(u) THEN Len(u) - (Len(s) + 1) + 1 ELSE 0
        /\ \A i \in 1 .. Len(u) - (Len(s) + 1) + 1 : b[i] = u[(Len(s) + 1) + i - 1]
    BY <1>1, <2>1, SubSeqProperties, Len(s) + 1 \in Int, Len(u) \in Int
  <2>. HIDE DEF b
  <2>3. /\ Len(u) - (Len(s) + 1) + 1 = Len(t)
        /\ \A i \in 1 .. Len(t) : (Len(s) + 1) + i - 1 = Len(s) + i
    BY <1>1
  <2>4. Len(b) = Len(t)
    BY <1>1, <2>2
  <2>. QED BY <2>2, <2>3, <2>4
<1>. HIDE DEF a, b
<1>5. a = s
  <2>1. \A i \in 1 .. Len(s) : a[i] = s[i]
    BY <1>1, <1>3
  <2>. QED BY <1>3, <2>1, SeqEqual
<1>6. b = t
  <2>1. ASSUME NEW i \in 1 .. Len(t) PROVE b[i] = t[i]
    <3>1. Len(s) + i \in 1 .. Len(s) + Len(t) /\ ~(Len(s) + i <= Len(s))
          /\ (Len(s) + i) - Len(s) = i
      BY <1>1
    <3>. QED BY <1>1, <1>4, <3>1
  <2>. QED BY <1>4, <2>1, SeqEqual
<1>. QED
  BY <1>1, <1>5, <1>6 DEF a, b, u

\* What is behind the first two of three sequences.
LEMMA BehindTwo ==
  ASSUME NEW S, NEW a \in Seq(S), NEW b \in Seq(S), NEW v \in Seq(S)
  PROVE  SubSeq(a \o (b \o v), Len(a) + Len(b) + 1, Len(a \o (b \o v))) = v
<1>1. a \o (b \o v) = (a \o b) \o v
  BY ConcatAssociative
<1>2. a \o b \in Seq(S) /\ Len(a \o b) = Len(a) + Len(b)
  BY ConcatProperties
<1>. DEFINE ab == a \o b
<1>. HIDE DEF ab
<1>3. ab \in Seq(S) /\ Len(ab) = Len(a) + Len(b) /\ a \o (b \o v) = ab \o v
  BY <1>1, <1>2 DEF ab
<1>4. SubSeq(ab \o v, Len(ab) + 1, Len(ab \o v)) = v
  BY <1>3, ConcatParts
<1>. QED
  BY <1>3, <1>4

\* A sequence is its first n elements followed by the others.
LEMMA SplitAt ==
  ASSUME NEW S, NEW s \in Seq(S), NEW n \in 0 .. Len(s)
  PROVE  /\ SubSeq(s, 1, n) \in Seq(S) /\ Len(SubSeq(s, 1, n)) = n
         /\ SubSeq(s, n + 1, Len(s)) \in Seq(S)
         /\ Len(SubSeq(s, n + 1, Len(s))) = Len(s) - n
         /\ SubSeq(s, 1, n) \o SubSeq(s, n + 1, Len(s)) = s
<1>. DEFINE a == SubSeq(s, 1, n)
            b == SubSeq(s, n + 1, Len(s))
<1>1. Len(s) \in Nat /\ n \in Nat /\ n <= Len(s)
  BY LenProperties
<1>2. \A i \in 1 .. Len(s) : s[i] \in S
  BY ElementOfSeq
<1>3. a \in Seq(S) /\ Len(a) = IF 1 <= n THEN n - 1 + 1 ELSE 0
  <2>1. \A i \in 1 .. n : s[i] \in S
    BY <1>1, <1>2
  <2>. QED BY <1>1, <2>1, SubSeqProperties, 1 \in Int, n \in Int
<1>4. /\ b \in Seq(S)
      /\ Len(b) = IF n + 1 <= Len(s) THEN Len(s) - (n + 1) + 1 ELSE 0
  <2>1. \A i \in n + 1 .. Len(s) : s[i] \in S
    BY <1>1, <1>2
  <2>. QED BY <1>1, <2>1, SubSeqProperties, n + 1 \in Int, Len(s) \in Int
<1>5. a \o b = SubSeq(s, 1, Len(s))
  <2>1. 1 \in 1 .. Len(s) + 1 /\ n \in 1 - 1 .. Len(s) /\ Len(s) \in n .. Len(s)
    BY <1>1
  <2>. QED BY <2>1, ConcatAdjacentSubSeq
<1>6. SubSeq(s, 1, Len(s)) = s
  BY SubSeqFull
<1>. HIDE DEF a, b
<1>7. Len(a) = n /\ Len(b) = Len(s) - n
  <2>. DEFINE l == Len(s)
              la == Len(a)
              lb == Len(b)
  <2>1. /\ l \in Nat /\ n \in Nat /\ n <= l
        /\ la = IF 1 <= n THEN n - 1 + 1 ELSE 0
        /\ lb = IF n + 1 <= l THEN l - (n + 1) + 1 ELSE 0
    BY <1>1, <1>3, <1>4
  <2>. HIDE DEF l, la, lb
  <2>2. la = n /\ lb = l - n
    BY <2>1
  <2>. QED BY <2>2 DEF l, la, lb
<1>. QED
  BY <1>3, <1>4, <1>5, <1>6, <1>7 DEF a, b

\* Taking n elements from the first of two sequences takes them from their
\* concatenation.
LEMMA SplitConcat ==
  ASSUME NEW S, NEW s \in Seq(S), NEW t \in Seq(S), NEW n \in 0 .. Len(s)
  PROVE  /\ n <= Len(s \o t)
         /\ SubSeq(s \o t, 1, n) = SubSeq(s, 1, n)
         /\ SubSeq(s \o t, n + 1, Len(s \o t)) = SubSeq(s, n + 1, Len(s)) \o t
<1>. DEFINE a == SubSeq(s, 1, n)
            b == SubSeq(s, n + 1, Len(s))
<1>1. a \in Seq(S) /\ Len(a) = n /\ b \in Seq(S) /\ a \o b = s
  BY SplitAt
<1>. HIDE DEF a, b
<1>2. a \o (b \o t) = s \o t
  <2>1. a \in Seq(S) /\ b \in Seq(S)
    BY <1>1
  <2>2. (a \o b) \o t = a \o (b \o t)
    BY <2>1, ConcatAssociative
  <2>. QED BY <1>1, <2>2
<1>. DEFINE v == b \o t
<1>3. v \in Seq(S) /\ a \o v = s \o t
  BY <1>1, <1>2, ConcatProperties
<1>. HIDE DEF v
<1>4. /\ SubSeq(a \o v, 1, Len(a)) = a
      /\ SubSeq(a \o v, Len(a) + 1, Len(a \o v)) = v
  <2>1. ASSUME NEW x \in Seq(S), NEW y \in Seq(S)
        PROVE  /\ SubSeq(x \o y, 1, Len(x)) = x
               /\ SubSeq(x \o y, Len(x) + 1, Len(x \o y)) = y
    BY ConcatParts
  <2>2. a \in Seq(S) /\ v \in Seq(S)
    BY <1>1, <1>3
  <2>. QED BY <2>1, <2>2
<1>5. n <= Len(s \o t)
  <2>1. Len(s \o t) = Len(s) + Len(t) /\ Len(s) \in Nat /\ Len(t) \in Nat
    BY ConcatProperties, LenProperties
  <2>. QED BY <2>1
<1>6. SubSeq(s \o t, 1, n) = a /\ SubSeq(s \o t, n + 1, Len(s \o t)) = v
  BY <1>1, <1>3, <1>4
<1>. QED
  BY <1>5, <1>6 DEF a, b, v

\* What is taken from a sequence and what is left make it up.
LEMMA Parts ==
  ASSUME NEW s \in Seq(Bytes), NEW n \in Nat, n <= Len(s)
  PROVE  /\ First(s, n) \in Seq(Bytes) /\ After(s, n) \in Seq(Bytes)
         /\ Len(First(s, n)) = n /\ Len(After(s, n)) = Len(s) - n
         /\ First(s, n) \o After(s, n) = s
<1>1. n \in 0 .. Len(s)
  BY LenProperties
<1>. QED
  BY <1>1, SplitAt DEF First, After

\* Nothing is left exactly if everything was taken.
LEMMA NothingLeft ==
  ASSUME NEW s \in Seq(Bytes), NEW n \in Nat, n <= Len(s)
  PROVE  After(s, n) = <<>> <=> n = Len(s)
<1>. DEFINE a == After(s, n)
<1>1. a \in Seq(Bytes) /\ Len(a) = Len(s) - n /\ Len(s) \in Nat
  BY Parts, LenProperties
<1>2. a = <<>> <=> Len(a) = 0
  BY <1>1, EmptySeq
<1>. HIDE DEF a
<1>3. Len(a) = 0 <=> n = Len(s)
  BY <1>1
<1>. QED
  BY <1>2, <1>3 DEF a

\* All of a sequence.
LEMMA WholeFirst ==
  ASSUME NEW s \in Seq(Bytes)
  PROVE  First(s, Len(s)) = s
BY SubSeqFull DEF First

\* Taking in two portions.
LEMMA AfterAfter ==
  ASSUME NEW s \in Seq(Bytes), NEW m \in Nat, NEW n \in Nat, m + n <= Len(s)
  PROVE  After(After(s, m), n) = After(s, m + n)
<1>. DEFINE t == After(s, m)
            a == First(s, m)
            b == First(t, n)
            v == After(t, n)
<1>1. Len(s) \in Nat /\ m <= Len(s) /\ n <= Len(s) - m /\ m + n \in Nat
  BY LenProperties
<1>2. a \in Seq(Bytes) /\ t \in Seq(Bytes) /\ Len(a) = m /\ Len(t) = Len(s) - m /\ a \o t = s
  BY <1>1, Parts
<1>. HIDE DEF t, a
<1>3. n <= Len(t)
  BY <1>1, <1>2
<1>4. b \in Seq(Bytes) /\ v \in Seq(Bytes) /\ Len(b) = n /\ b \o v = t
  BY <1>2, <1>3, Parts
<1>. HIDE DEF b, v
<1>5. a \in Seq(Bytes) /\ b \in Seq(Bytes) /\ v \in Seq(Bytes)
  BY <1>2, <1>4
<1>6. SubSeq(a \o (b \o v), Len(a) + Len(b) + 1, Len(a \o (b \o v))) = v
  BY <1>5, BehindTwo
<1>7. SubSeq(s, (m + n) + 1, Len(s)) = v
  BY <1>2, <1>4, <1>6
<1>. QED
  BY <1>7 DEF After, v, t

\* The place of a portion in what it was taken from.
LEMMA FurtherIn ==
  ASSUME NEW b \in Seq(Bytes), NEW m \in 1 .. Len(b), NEW k \in Nat,
         k <= Len(After(b, m))
  PROVE  m + k \in 1 .. Len(b) /\ After(After(b, m), k) = After(b, m + k)
<1>1. Len(b) \in Nat /\ m \in Nat /\ m <= Len(b)
  BY LenProperties
<1>2. Len(After(b, m)) = Len(b) - m
  BY <1>1, Parts
<1>3. m + k <= Len(b) /\ m + k \in 1 .. Len(b)
  BY <1>1, <1>2
<1>. QED
  BY <1>1, <1>3, AfterAfter

\* The bytes of a write are new to the model and form a sequence.
LEMMA FreshIsSeq ==
  ASSUME NEW c \in Conns, NEW n \in Nat, written[c] \in Nat
  PROVE  Fresh(c, n) \in Seq(Bytes) /\ Len(Fresh(c, n)) = n
<1>1. Fresh(c, n) \in [1 .. n -> Bytes]
  BY DEF Fresh, Bytes
<1>. QED
  BY <1>1, SeqDef
-------------------------------------------------------------------------------
(* The parts of a step.                                                    *)

\* The bytes a connection's peer is still owed form a sequence.
LEMMA TransitIsSeq ==
  ASSUME TypeOK, NEW c \in Conns
  PROVE  /\ sendq[c] \in Seq(Bytes) /\ Len(sendq[c]) \in Nat
         /\ writeBuf[c] \in Seq(Bytes) /\ Unsent(c) \in Seq(Bytes)
         /\ Transit(c) \in Seq(Bytes)
<1>1. sendq[c] \in Seq(Bytes) /\ writeBuf[c] \in Seq(Bytes) /\ call.rest \in Seq(Bytes)
  BY DEF TypeOK
<1>2. Unsent(c) \in Seq(Bytes)
  BY <1>1 DEF Unsent
<1>. DEFINE u == IF inLoop[c] /\ sock[c] = "open" THEN Unsent(c) ELSE <<>>
<1>3. u \in Seq(Bytes)
  BY <1>2, EmptySeq
<1>. HIDE DEF u
<1>4. sendq[c] \o u \in Seq(Bytes)
  BY <1>1, <1>3, ConcatProperties
<1>5. Transit(c) \in Seq(Bytes)
  BY <1>4 DEF Transit, u
<1>. QED
  BY <1>1, <1>2, <1>5, LenProperties

\* A step of the write path for c that leaves q in the socket, b in writeBuf, the
\* write interest w and the system call r.
LEMMA OneConn ==
  ASSUME IInv, NEW c \in Conns, inLoop[c],
         NEW q \in Seq(Bytes), Len(q) <= SendBuf,
         NEW b \in Seq(Bytes), NEW w \in BOOLEAN, NEW r \in Calls,
         call.conn \in {None, c}, r.conn \in {None, c},
         r.conn = c => r.rest # <<>> /\ CallOK(r, b, w),
         r.conn # c => (w <=> b # <<>>),
         sendq' = [sendq EXCEPT ![c] = q],
         writeBuf' = [writeBuf EXCEPT ![c] = b],
         writing' = [writing EXCEPT ![c] = w],
         call' = r,
         written' \in [Conns -> Nat],
         UNCHANGED <<connVars, sock, got, envVars>>
  PROVE  /\ IInv'
         /\ \A d \in Conns : Open(d)' = Open(d)
         /\ \A d \in Conns \ {c} : Transit(d)' = Transit(d)
         /\ Transit(c)' = q \o IF sock[c] = "open" THEN IF r.conn = c THEN r.rest ELSE b
                                                  ELSE <<>>
<1>1. TypeOK /\ WriteInterest /\ CallMatchesBuffer /\ ShutSocket
  BY DEF IInv
<1>2. /\ sendq \in [Conns -> Seq(Bytes)] /\ writeBuf \in [Conns -> Seq(Bytes)]
      /\ writing \in [Conns -> BOOLEAN]
      /\ \A d \in Conns : Len(sendq[d]) <= SendBuf
  BY <1>1 DEF TypeOK
<1>3. /\ state' = state /\ inLoop' = inLoop /\ closing' = closing /\ sock' = sock
      /\ got' = got /\ blocking' = blocking /\ reads' = reads
  BY DEF connVars, envVars
<1>4. /\ sendq'[c] = q /\ writeBuf'[c] = b /\ writing'[c] = w
      /\ \A d \in Conns \ {c} : /\ sendq'[d] = sendq[d] /\ writeBuf'[d] = writeBuf[d]
                                /\ writing'[d] = writing[d]
                                /\ call.conn # d /\ r.conn # d
  BY <1>2, StreamAssumption
<1>5. TypeOK'
  <2>1. /\ sendq' \in [Conns -> Seq(Bytes)] /\ writeBuf' \in [Conns -> Seq(Bytes)]
        /\ writing' \in [Conns -> BOOLEAN]
    BY <1>2
  <2>2. \A d \in Conns : Len(sendq'[d]) <= SendBuf
    BY <1>2, <1>4
  <2>3. /\ call' \in Calls
        /\ call'.conn # None => inLoop'[call'.conn] /\ call'.rest # <<>>
    BY <1>3
  <2>. QED BY <1>1, <1>3, <2>1, <2>2, <2>3 DEF TypeOK, Calls
<1>6. WriteInterest'
  <2>1. ASSUME NEW d \in Conns, inLoop'[d], call'.conn # d
        PROVE  writing'[d] <=> writeBuf'[d] # <<>>
    <3>1. CASE d = c
      BY <1>4, <2>1, <3>1
    <3>2. CASE d # c
      BY <1>1, <1>3, <1>4, <2>1, <3>2 DEF WriteInterest
    <3>. QED BY <3>1, <3>2
  <2>. QED BY <2>1 DEF WriteInterest
<1>7. CallMatchesBuffer'
  BY <1>4 DEF CallMatchesBuffer
<1>8. ShutSocket'
  BY <1>1, <1>3 DEF ShutSocket
<1>9. \A d \in Conns : Open(d)' = Open(d)
  BY <1>3 DEF Open
<1>10. \A d \in Conns \ {c} : Transit(d)' = Transit(d)
  <2>1. ASSUME NEW d \in Conns \ {c} PROVE Transit(d)' = Transit(d)
    <3>1. Unsent(d) = writeBuf[d] /\ Unsent(d)' = writeBuf'[d]
      BY <1>4 DEF Unsent
    <3>2. Unsent(d)' = Unsent(d) /\ sendq'[d] = sendq[d]
      BY <1>4, <3>1
    <3>. QED BY <1>3, <3>2 DEF Transit
  <2>. QED BY <2>1
<1>11. Transit(c)' = q \o IF sock[c] = "open" THEN IF r.conn = c THEN r.rest ELSE b
                                             ELSE <<>>
  BY <1>3, <1>4 DEF Transit, Unsent
<1>. QED
  BY <1>5, <1>6, <1>7, <1>8, <1>9, <1>10, <1>11 DEF IInv

\* The end of writeData on an empty buffer.
LEMMA AppendRestEffect ==
  ASSUME TypeOK, NEW c \in Conns, NEW rest \in Seq(Bytes), AppendRest(c, rest),
         writeBuf[c] = <<>>, ~writing[c]
  PROVE  \E w \in BOOLEAN : /\ w <=> rest # <<>>
                            /\ writeBuf' = [writeBuf EXCEPT ![c] = rest]
                            /\ writing' = [writing EXCEPT ![c] = w]
<1>1. writeBuf \in [Conns -> Seq(Bytes)] /\ writing \in [Conns -> BOOLEAN]
  BY DEF TypeOK
<1>2. <<>> \o rest = rest
  BY ConcatSimplifications
<1>3. CASE rest = <<>>
  <2>1. writeBuf' = writeBuf /\ writing' = writing
    BY <1>3 DEF AppendRest, bufVars
  <2>2. writing[c] = FALSE
    BY <1>1
  <2>3. writeBuf' = [writeBuf EXCEPT ![c] = rest] /\ writing' = [writing EXCEPT ![c] = FALSE]
    BY <1>1, <1>3, <2>1, <2>2
  <2>. QED BY <1>3, <2>3
<1>4. CASE rest # <<>>
  <2>1. /\ writeBuf' = [writeBuf EXCEPT ![c] = writeBuf[c] \o rest]
        /\ writing' = [writing EXCEPT ![c] = TRUE]
    BY <1>4 DEF AppendRest
  <2>. QED BY <1>2, <1>4, <2>1
<1>. QED
  BY <1>3, <1>4

\* Three runs of bytes in a row.
LEMMA InARow ==
  ASSUME NEW s \in Seq(Bytes), NEW t \in Seq(Bytes), NEW u \in Seq(Bytes)
  PROVE  (s \o t) \o u = s \o (t \o u)
BY ConcatAssociative

\* Bytes move from one place to the next.
LEMMA MoveOn ==
  ASSUME NEW s \in Seq(Bytes), NEW data \in Seq(Bytes), NEW k \in Nat, k <= Len(data)
  PROVE  /\ s \o First(data, k) \in Seq(Bytes)
         /\ Len(s \o First(data, k)) = Len(s) + k
         /\ (s \o First(data, k)) \o After(data, k) = s \o data
<1>. DEFINE f == First(data, k)
            a == After(data, k)
<1>1. f \in Seq(Bytes) /\ a \in Seq(Bytes) /\ Len(f) = k /\ f \o a = data
  BY Parts
<1>. HIDE DEF f, a
<1>2. s \o f \in Seq(Bytes) /\ Len(s \o f) = Len(s) + Len(f)
  BY <1>1, ConcatProperties
<1>3. (s \o f) \o a = s \o (f \o a)
  <2>1. f \in Seq(Bytes) /\ a \in Seq(Bytes)
    BY <1>1
  <2>. QED BY <2>1, InARow
<1>. QED
  BY <1>1, <1>2, <1>3 DEF f, a

\* The part of the data that fits in the socket.
LEMMA Fits ==
  ASSUME TypeOK, NEW c \in Conns, NEW n \in Nat
  PROVE  /\ AtMost(n, Room(c)) \in Nat
         /\ AtMost(n, Room(c)) <= n /\ Len(sendq[c]) + AtMost(n, Room(c)) <= SendBuf
         /\ n > 0 /\ Room(c) > 0 => AtMost(n, Room(c)) > 0
<1>1. Len(sendq[c]) \in Nat /\ Len(sendq[c]) <= SendBuf /\ SendBuf \in Nat
  BY TransitIsSeq, StreamAssumption DEF TypeOK
<1>. DEFINE l == Len(sendq[c])
            room == SendBuf - l
<1>2. l \in Nat /\ l <= SendBuf /\ SendBuf \in Nat
  BY <1>1
<1>. HIDE DEF l
<1>3. /\ AtMost(n, room) \in Nat
      /\ AtMost(n, room) <= n /\ l + AtMost(n, room) <= SendBuf
      /\ n > 0 /\ room > 0 => AtMost(n, room) > 0
  BY <1>2 DEF AtMost
<1>. QED
  BY <1>3 DEF l, Room

-------------------------------------------------------------------------------
(* Steps of the Pipe.                                                      *)

\* Nothing the Pipe shows has changed.
LEMMA PipeStutter ==
  ASSUME \A d \in Conns : Open(d)' = Open(d) /\ Transit(d)' = Transit(d), got' = got
  PROVE  UNCHANGED Stream!pipeVars
BY DEF Stream!pipeVars

\* Bytes were added behind the others.
LEMMA PipeSend ==
  ASSUME TypeOK, NEW c \in Conns, NEW data \in Seq(Bytes), Open(c),
         \A d \in Conns : Open(d)' = Open(d),
         \A d \in Conns \ {c} : Transit(d)' = Transit(d),
         Transit(c)' = Transit(c) \o data, got' = got
  PROVE  Stream!Send(c)
<1>. DEFINE T  == [d \in Conns |-> Transit(d)]
            T2 == [d \in Conns |-> Transit(d)']
            x  == Transit(c)
<1>1. x \in Seq(Bytes)
  BY TransitIsSeq
<1>. HIDE DEF x
<1>2. Len(x) <= Len(x \o data) /\ SubSeq(x \o data, 1, Len(x)) = x
  <2>1. /\ Len(x \o data) = Len(x) + Len(data) /\ Len(x) \in Nat /\ Len(data) \in Nat
        /\ SubSeq(x \o data, 1, Len(x)) = x
    BY <1>1, ConcatParts, LenProperties
  <2>. QED BY <2>1
<1>3. T[c] = x /\ T2[c] = x \o data
  BY DEF x
<1>4. T2 = [T EXCEPT ![c] = T2[c]]
  OBVIOUS
<1>5. [d \in Conns |-> Open(d)'] = [d \in Conns |-> Open(d)]
  OBVIOUS
<1>6. [d \in Conns |-> Open(d)][c] = TRUE
  OBVIOUS
<1>. HIDE DEF T, T2
<1>7. Len(T[c]) <= Len(T2[c]) /\ SubSeq(T2[c], 1, Len(T[c])) = T[c]
  BY <1>2, <1>3
<1>. QED
  BY <1>4, <1>5, <1>6, <1>7 DEF Stream!Send, T, T2

\* An end of what was on its way to c is lost, and c is closed.
LEMMA PipeCut ==
  ASSUME NEW c \in Conns, NEW n \in 0 .. Len(Transit(c)),
         Open(c)' = FALSE, \A d \in Conns \ {c} : Open(d)' = Open(d),
         \A d \in Conns \ {c} : Transit(d)' = Transit(d),
         Transit(c)' = SubSeq(Transit(c), 1, n), got' = got
  PROVE  Stream!Cut(c)
<1>1. [d \in Conns |-> Open(d)'] = [[d \in Conns |-> Open(d)] EXCEPT ![c] = FALSE]
  OBVIOUS
<1>2. [d \in Conns |-> Transit(d)'] =
         [[d \in Conns |-> Transit(d)] EXCEPT ![c] = SubSeq(@, 1, n)]
  OBVIOUS
<1>3. n \in 0 .. Len([d \in Conns |-> Transit(d)][c])
  OBVIOUS
<1>. QED
  BY <1>1, <1>2, <1>3 DEF Stream!Cut

\* The whole of what is on its way, or only what the socket holds, is left.
LEMMA WhatIsLeft ==
  ASSUME TypeOK, NEW c \in Conns
  PROVE  /\ Len(Transit(c)) \in 0 .. Len(Transit(c))
         /\ SubSeq(Transit(c), 1, Len(Transit(c))) = Transit(c)
         /\ Len(sendq[c]) \in 0 .. Len(Transit(c))
         /\ SubSeq(Transit(c), 1, Len(sendq[c])) = sendq[c]
         /\ 0 \in 0 .. Len(Transit(c)) /\ SubSeq(Transit(c), 1, 0) = <<>>
<1>. DEFINE u == IF inLoop[c] /\ sock[c] = "open" THEN Unsent(c) ELSE <<>>
            q == sendq[c]
<1>1. q \in Seq(Bytes) /\ u \in Seq(Bytes) /\ Transit(c) \in Seq(Bytes)
  BY TransitIsSeq, EmptySeq
<1>2. Transit(c) = q \o u
  BY DEF Transit
<1>. HIDE DEF q, u
<1>3. Len(q \o u) = Len(q) + Len(u) /\ SubSeq(q \o u, 1, Len(q)) = q
  BY <1>1, ConcatParts
<1>4. Len(q) \in Nat /\ Len(u) \in Nat /\ Len(Transit(c)) \in Nat
  BY <1>1, LenProperties
<1>5. SubSeq(Transit(c), 1, Len(Transit(c))) = Transit(c)
  BY <1>1, SubSeqFull
<1>6. SubSeq(Transit(c), 1, 0) = <<>>
  BY SubSeqEmpty, 1 \in Int, 0 \in Int
<1>7. Len(q) \in 0 .. Len(Transit(c)) /\ SubSeq(Transit(c), 1, Len(q)) = q
  BY <1>2, <1>3, <1>4
<1>. QED
  BY <1>4, <1>5, <1>6, <1>7 DEF q

-------------------------------------------------------------------------------
(* The steps of the write path.                                            *)

\* A direct write sends its bytes, whether the loop has to wait for them or not.
LEMMA WriteDirectStep ==
  ASSUME IInv, NEW c \in Conns, NEW n \in 1 .. MaxBytes, WriteDirect(c, n)
  PROVE  IInv' /\ Stream!Send(c)
<1>. DEFINE data == Fresh(c, n)
            k    == AtMost(n, Room(c))
            q    == sendq[c] \o First(data, k)
            a    == After(data, k)
<1>1. TypeOK /\ n \in Nat /\ MaxBytes \in Nat
  BY StreamAssumption DEF IInv
<1>2. written \in [Conns -> Nat]
  BY <1>1 DEF TypeOK
<1>3. data \in Seq(Bytes) /\ Len(data) = n
  BY <1>1, <1>2, FreshIsSeq
<1>4. /\ k \in Nat /\ k <= n /\ Len(sendq[c]) + k <= SendBuf
      /\ sendq[c] \in Seq(Bytes)
  BY <1>1, Fits, TransitIsSeq
<1>5. /\ call.conn = None /\ inLoop[c] /\ state[c] # "Disconnected" /\ sock[c] = "open"
      /\ ~writing[c] /\ writeBuf[c] = <<>>
      /\ written' = [written EXCEPT ![c] = written[c] + n]
      /\ sendq' = [sendq EXCEPT ![c] = q]
      /\ UNCHANGED <<connVars, sock, got, envVars>>
  BY DEF WriteDirect, CanWrite, Idle, MayWriteDirectly, Take
<1>6. IF blocking /\ k < n
      THEN /\ call' = [conn |-> c, op |-> "writeData", taken |-> k, rest |-> a]
           /\ UNCHANGED bufVars
      ELSE AppendRest(c, a) /\ UNCHANGED call
  BY DEF WriteDirect
<1>. HIDE DEF data, k
<1>7. /\ q \in Seq(Bytes) /\ Len(q) <= SendBuf
      /\ q \o a = sendq[c] \o data
  <2>1. /\ q \in Seq(Bytes) /\ Len(q) = Len(sendq[c]) + k
        /\ q \o a = sendq[c] \o data
    BY <1>3, <1>4, MoveOn
  <2>. QED BY <1>4, <2>1
<1>8. a \in Seq(Bytes) /\ (a = <<>> <=> k = n)
  BY <1>3, <1>4, Parts, NothingLeft
<1>. HIDE DEF q, a
<1>9. c # None /\ call \in Calls
  BY <1>1, StreamAssumption DEF TypeOK, Calls
<1>10. written' \in [Conns -> Nat]
  BY <1>1, <1>2, <1>5
<1>11. /\ IInv'
       /\ \A d \in Conns : Open(d)' = Open(d)
       /\ \A d \in Conns \ {c} : Transit(d)' = Transit(d)
       /\ Transit(c)' = q \o a
  <2>1. CASE blocking /\ k < n
    <3>. DEFINE r == [conn |-> c, op |-> "writeData", taken |-> k, rest |-> a]
    <3>1. /\ r \in Calls /\ r.conn = c /\ r.rest = a /\ r.op = "writeData"
          /\ call' = r /\ a # <<>>
      BY <1>4, <1>6, <1>8, <2>1 DEF Calls
    <3>. HIDE DEF r
    <3>2. writeBuf \in [Conns -> Seq(Bytes)] /\ writing \in [Conns -> BOOLEAN]
      BY <1>1 DEF TypeOK
    <3>3. /\ writeBuf' = [writeBuf EXCEPT ![c] = <<>>]
          /\ writing' = [writing EXCEPT ![c] = FALSE]
      BY <1>5, <1>6, <2>1, <3>2 DEF bufVars
    <3>4. CallOK(r, <<>>, FALSE)
      BY <3>1 DEF CallOK
    <3>5. <<>> \in Seq(Bytes) /\ FALSE \in BOOLEAN
      BY EmptySeq
    <3>. QED BY <1>5, <1>7, <1>9, <1>10, <3>1, <3>3, <3>4, <3>5, OneConn
  <2>2. CASE ~(blocking /\ k < n)
    <3>1. PICK w \in BOOLEAN : /\ w <=> a # <<>>
                               /\ writeBuf' = [writeBuf EXCEPT ![c] = a]
                               /\ writing' = [writing EXCEPT ![c] = w]
      BY <1>1, <1>5, <1>6, <1>8, <2>2, AppendRestEffect
    <3>. DEFINE r == call
    <3>2. /\ call' = r /\ r \in Calls /\ r.conn \in {None, c} /\ r.conn # c
          /\ call.conn \in {None, c}
      BY <1>5, <1>6, <1>9, <2>2
    <3>. HIDE DEF r
    <3>3. q \in Seq(Bytes) /\ Len(q) <= SendBuf /\ a \in Seq(Bytes)
      BY <1>7, <1>8
    <3>. QED BY <1>5, <1>10, <3>1, <3>2, <3>3, OneConn
  <2>. QED BY <2>1, <2>2
<1>12. Transit(c) = sendq[c]
  <2>1. Unsent(c) = <<>>
    BY <1>5, <1>9 DEF Unsent
  <2>2. sendq[c] \o <<>> = sendq[c]
    BY <1>4, ConcatSimplifications
  <2>. QED BY <1>5, <2>1, <2>2 DEF Transit
<1>13. Open(c)
  <2>1. ShutSocket /\ state[c] \in {"Connected", "Disconnecting", "Disconnected"}
    BY <1>1 DEF IInv, TypeOK
  <2>. QED BY <1>5, <2>1 DEF Open, ShutSocket
<1>14. Transit(c)' = Transit(c) \o data /\ got' = got
  BY <1>5, <1>7, <1>11, <1>12
<1>. QED
  BY <1>1, <1>3, <1>11, <1>13, <1>14, PipeSend

\* A write behind waiting bytes sends its bytes as long as the socket sends.
LEMMA WriteBufferedStep ==
  ASSUME IInv, NEW c \in Conns, NEW n \in 1 .. MaxBytes, WriteBuffered(c, n)
  PROVE  IInv' /\ (Stream!Send(c) \/ UNCHANGED Stream!pipeVars)
<1>. DEFINE data == Fresh(c, n)
            b    == writeBuf[c] \o data
            q    == sendq[c]
            r    == call
<1>1. TypeOK /\ n \in Nat /\ n > 0 /\ MaxBytes \in Nat
  BY StreamAssumption DEF IInv
<1>2. /\ written \in [Conns -> Nat] /\ sendq \in [Conns -> Seq(Bytes)]
      /\ Len(q) <= SendBuf /\ call \in Calls
  BY <1>1 DEF TypeOK, Calls
<1>3. data \in Seq(Bytes) /\ Len(data) = n /\ data # <<>>
  <2>1. data \in Seq(Bytes) /\ Len(data) = n
    BY <1>1, <1>2, FreshIsSeq
  <2>. QED BY <1>1, <2>1, EmptySeq
<1>4. q \in Seq(Bytes) /\ writeBuf[c] \in Seq(Bytes)
  BY <1>1, TransitIsSeq
<1>5. /\ call.conn = None /\ inLoop[c] /\ state[c] # "Disconnected"
      /\ written' = [written EXCEPT ![c] = written[c] + n]
      /\ sendq' = sendq /\ call' = r
      /\ UNCHANGED <<connVars, sock, got, envVars>>
      /\ AppendRest(c, data)
  BY DEF WriteBuffered, CanWrite, Idle
<1>. HIDE DEF data
<1>6. /\ writeBuf' = [writeBuf EXCEPT ![c] = b]
      /\ writing' = [writing EXCEPT ![c] = TRUE]
  BY <1>3, <1>5 DEF AppendRest
<1>7. b \in Seq(Bytes) /\ b # <<>>
  <2>1. b \in Seq(Bytes) /\ Len(b) = Len(writeBuf[c]) + Len(data)
    BY <1>3, <1>4, ConcatProperties
  <2>2. Len(writeBuf[c]) \in Nat /\ Len(data) > 0
    BY <1>1, <1>3, <1>4, LenProperties
  <2>3. Len(b) > 0
    BY <1>1, <1>3, <2>1, <2>2
  <2>. HIDE DEF b
  <2>. QED BY <2>1, <2>3, EmptySeq
<1>8. q \o b = (q \o writeBuf[c]) \o data
  <2>. DEFINE wb == writeBuf[c]
  <2>1. q \in Seq(Bytes) /\ wb \in Seq(Bytes) /\ data \in Seq(Bytes)
    BY <1>3, <1>4
  <2>. HIDE DEF wb, q
  <2>2. (q \o wb) \o data = q \o (wb \o data)
    BY <2>1, InARow
  <2>. QED BY <2>2 DEF wb
<1>9. sendq' = [sendq EXCEPT ![c] = q] /\ written' \in [Conns -> Nat]
  BY <1>1, <1>2, <1>5
<1>10. Len(q) <= SendBuf /\ call' = r /\ r \in Calls /\ r.conn # c /\ r.conn \in {None, c} /\ call.conn \in {None, c}
  BY <1>2, <1>5, StreamAssumption
<1>. HIDE DEF b, q, r
<1>11. /\ IInv'
       /\ \A d \in Conns : Open(d)' = Open(d)
       /\ \A d \in Conns \ {c} : Transit(d)' = Transit(d)
       /\ Transit(c)' = q \o IF sock[c] = "open" THEN b ELSE <<>>
  <2>1. PICK w \in BOOLEAN : w /\ writing' = [writing EXCEPT ![c] = w]
    BY <1>6
  <2>2. inLoop[c] /\ UNCHANGED <<connVars, sock, got, envVars>>
    BY <1>5
  <2>3. writeBuf' = [writeBuf EXCEPT ![c] = b] /\ q \in Seq(Bytes)
    BY <1>4, <1>6
  <2>4. /\ IInv'
        /\ \A d \in Conns : Open(d)' = Open(d)
        /\ \A d \in Conns \ {c} : Transit(d)' = Transit(d)
        /\ Transit(c)' = q \o IF sock[c] = "open" THEN IF r.conn = c THEN r.rest ELSE b
                                                 ELSE <<>>
    BY <1>7, <1>9, <1>10, <2>1, <2>2, <2>3, OneConn
  <2>. QED BY <1>10, <2>4
<1>12. got' = got
  BY <1>5
<1>13. CASE sock[c] = "open"
  <2>1. Transit(c) = q \o writeBuf[c]
    BY <1>5, <1>10, <1>13 DEF Transit, Unsent, q, r
  <2>2. Open(c)
    <3>1. ShutSocket /\ state[c] \in {"Connected", "Disconnecting", "Disconnected"}
      BY <1>1 DEF IInv, TypeOK
    <3>. QED BY <1>5, <1>13, <3>1 DEF Open, ShutSocket
  <2>3. Transit(c)' = Transit(c) \o data
    BY <1>8, <1>11, <1>13, <2>1
  <2>. QED BY <1>1, <1>3, <1>11, <1>12, <2>2, <2>3, PipeSend
<1>14. CASE sock[c] # "open"
  <2>1. Transit(c) = q \o <<>> /\ Transit(c)' = q \o <<>>
    BY <1>11, <1>14 DEF Transit, q
  <2>. QED BY <1>11, <1>12, <2>1, PipeStutter
<1>. QED
  BY <1>11, <1>13, <1>14

\* The end of writeEvent.
LEMMA ClearWrittenEffect ==
  ASSUME TypeOK, NEW c \in Conns, NEW n \in Nat, n <= Len(writeBuf[c]), ClearWritten(c, n)
  PROVE  \E w \in BOOLEAN : /\ w <=> After(writeBuf[c], n) # <<>>
                            /\ writeBuf' = [writeBuf EXCEPT ![c] = After(writeBuf[c], n)]
                            /\ writing' = [writing EXCEPT ![c] = w]
<1>. DEFINE l == Len(writeBuf[c])
<1>1. writeBuf[c] \in Seq(Bytes) /\ l \in Nat /\ n <= l
  BY TransitIsSeq, LenProperties
<1>2. After(writeBuf[c], n) = <<>> <=> n = l
  BY <1>1, NothingLeft
<1>3. /\ writeBuf' = [writeBuf EXCEPT ![c] = After(writeBuf[c], n)]
      /\ writing' = [writing EXCEPT ![c] = n < l]
  BY DEF ClearWritten
<1>. HIDE DEF l
<1>4. (n < l) \in BOOLEAN /\ (n < l <=> After(writeBuf[c], n) # <<>>)
  BY <1>1, <1>2
<1>. QED
  BY <1>3, <1>4

\* Handing over waiting bytes changes nothing for the peer.
LEMMA WriteEventStep ==
  ASSUME IInv, NEW c \in Conns, WriteEvent(c)
  PROVE  IInv' /\ UNCHANGED Stream!pipeVars
<1>. DEFINE wb == writeBuf[c]
            k  == AtMost(Len(wb), Room(c))
            q  == sendq[c] \o First(wb, k)
            a  == After(wb, k)
<1>1. TypeOK
  BY DEF IInv
<1>2. /\ call.conn = None /\ inLoop[c] /\ sock[c] = "open" /\ Room(c) > 0 /\ writing[c]
      /\ sendq' = [sendq EXCEPT ![c] = q]
      /\ written' = written
      /\ UNCHANGED <<connVars, sock, got, envVars>>
  BY DEF WriteEvent, Idle, Take
<1>3. IF blocking /\ k < Len(wb)
      THEN /\ call' = [conn |-> c, op |-> "writeEvent", taken |-> k, rest |-> a]
           /\ UNCHANGED bufVars
      ELSE ClearWritten(c, k) /\ UNCHANGED call
  BY DEF WriteEvent
<1>4. /\ sendq[c] \in Seq(Bytes) /\ wb \in Seq(Bytes) /\ Len(wb) \in Nat
      /\ wb # <<>> /\ Len(wb) > 0
  <2>1. wb \in Seq(Bytes) /\ sendq[c] \in Seq(Bytes) /\ Len(wb) \in Nat
    BY <1>1, TransitIsSeq, LenProperties
  <2>2. wb # <<>>
    BY <1>2, StreamAssumption DEF IInv, WriteInterest
  <2>. QED BY <2>1, <2>2, EmptySeq
<1>5. k \in Nat /\ k <= Len(wb) /\ Len(sendq[c]) + k <= SendBuf /\ k > 0
  BY <1>1, <1>2, <1>4, Fits
<1>. HIDE DEF k
<1>6. /\ q \in Seq(Bytes) /\ Len(q) <= SendBuf
      /\ q \o a = sendq[c] \o wb
  <2>1. /\ q \in Seq(Bytes) /\ Len(q) = Len(sendq[c]) + k
        /\ q \o a = sendq[c] \o wb
    BY <1>4, <1>5, MoveOn
  <2>. QED BY <1>5, <2>1
<1>7. a \in Seq(Bytes) /\ (a = <<>> <=> k = Len(wb))
  BY <1>4, <1>5, Parts, NothingLeft
<1>. HIDE DEF q
<1>8. c # None /\ call \in Calls /\ written' \in [Conns -> Nat]
  BY <1>1, <1>2, StreamAssumption DEF TypeOK, Calls
<1>9. /\ IInv'
      /\ \A d \in Conns : Open(d)' = Open(d)
      /\ \A d \in Conns \ {c} : Transit(d)' = Transit(d)
      /\ Transit(c)' = q \o a
  <2>1. CASE blocking /\ k < Len(wb)
    <3>. DEFINE r == [conn |-> c, op |-> "writeEvent", taken |-> k, rest |-> a]
    <3>1. /\ r \in Calls /\ r.conn = c /\ r.rest = a /\ r.op = "writeEvent"
          /\ r.taken = k /\ call' = r /\ a # <<>>
      BY <1>3, <1>5, <1>7, <2>1 DEF Calls
    <3>. HIDE DEF r
    <3>2. writeBuf \in [Conns -> Seq(Bytes)] /\ writing \in [Conns -> BOOLEAN]
      BY <1>1 DEF TypeOK
    <3>3. writeBuf' = [writeBuf EXCEPT ![c] = wb]
      BY <1>3, <2>1, <3>2 DEF bufVars
    <3>4. writing' = [writing EXCEPT ![c] = TRUE]
      BY <1>2, <1>3, <2>1, <3>2 DEF bufVars
    <3>5. CallOK(r, wb, TRUE)
      BY <1>4, <1>5, <3>1 DEF CallOK
    <3>. HIDE DEF a
    <3>. QED BY <1>2, <1>4, <1>6, <1>7, <1>8, <3>1, <3>3, <3>4, <3>5, OneConn
  <2>2. CASE ~(blocking /\ k < Len(wb))
    <3>1. PICK w \in BOOLEAN : /\ w <=> a # <<>>
                               /\ writeBuf' = [writeBuf EXCEPT ![c] = a]
                               /\ writing' = [writing EXCEPT ![c] = w]
      BY <1>1, <1>3, <1>5, <2>2, ClearWrittenEffect
    <3>. DEFINE r == call
    <3>2. /\ call' = r /\ r \in Calls /\ r.conn \in {None, c} /\ r.conn # c
          /\ call.conn \in {None, c}
      BY <1>2, <1>3, <1>8, <2>2
    <3>. HIDE DEF r, a
    <3>3. q \in Seq(Bytes) /\ Len(q) <= SendBuf /\ a \in Seq(Bytes)
      BY <1>6, <1>7
    <3>. QED BY <1>2, <1>8, <3>1, <3>2, <3>3, OneConn
  <2>. QED BY <2>1, <2>2
<1>10. Transit(c) = sendq[c] \o wb
  BY <1>2, <1>8 DEF Transit, Unsent
<1>. QED
  BY <1>2, <1>6, <1>9, <1>10, PipeStutter

-------------------------------------------------------------------------------
(* The steps of a system call the loop waits in.                           *)

\* What holds while the loop waits.
LEMMA Waiting ==
  ASSUME IInv, ~Idle
  PROVE  /\ call.conn \in Conns /\ inLoop[call.conn] /\ call \in Calls
         /\ call.rest \in Seq(Bytes) /\ call.rest # <<>> /\ call.taken \in Nat
         /\ call.op \in {"writeData", "writeEvent"}
         /\ CallOK(call, writeBuf[call.conn], writing[call.conn])
<1>1. call \in Calls /\ call.conn # None
  BY DEF IInv, TypeOK, Calls, Idle
<1>2. call.conn \in Conns
  BY <1>1 DEF Calls
<1>. QED
  BY <1>1, <1>2 DEF IInv, TypeOK, Calls, CallMatchesBuffer

\* When the call returns, with k more bytes taken, what is left waits in writeBuf.
LEMMA ReturnEffect ==
  ASSUME IInv, ~Idle, NEW k \in Nat, k <= Len(call.rest),
         NEW rest, rest = After(call.rest, k), Return(call.taken + k, rest)
  PROVE  \E w \in BOOLEAN : /\ w <=> rest # <<>>
                            /\ writeBuf' = [writeBuf EXCEPT ![call.conn] = rest]
                            /\ writing' = [writing EXCEPT ![call.conn] = w]
<1>. DEFINE c  == call.conn
            wb == writeBuf[c]
            m  == call.taken
<1>1. /\ c \in Conns /\ call.rest \in Seq(Bytes) /\ m \in Nat /\ TypeOK
      /\ call.op \in {"writeData", "writeEvent"} /\ CallOK(call, wb, writing[c])
  BY Waiting DEF IInv
<1>2. rest \in Seq(Bytes)
  BY <1>1, Parts
<1>3. CASE call.op = "writeData"
  <2>1. wb = <<>> /\ ~writing[c]
    BY <1>1, <1>3 DEF CallOK
  <2>2. AppendRest(c, rest)
    BY <1>3 DEF Return
  <2>. QED BY <1>1, <1>2, <2>1, <2>2, AppendRestEffect
<1>4. CASE call.op = "writeEvent"
  <2>1. m <= Len(wb) /\ call.rest = After(wb, m) /\ wb \in Seq(Bytes) /\ Len(wb) \in Nat
    <3>1. m \in 1 .. Len(wb) /\ call.rest = After(wb, m)
      BY <1>1, <1>4 DEF CallOK
    <3>2. wb \in Seq(Bytes) /\ Len(wb) \in Nat
      BY <1>1, TransitIsSeq, LenProperties
    <3>. QED BY <1>1, <3>1, <3>2
  <2>2. Len(call.rest) = Len(wb) - m
    BY <1>1, <2>1, Parts
  <2>3. m + k \in Nat /\ m + k <= Len(wb)
    BY <1>1, <2>1, <2>2
  <2>4. After(wb, m + k) = rest
    BY <1>1, <2>1, <2>3, AfterAfter
  <2>5. ClearWritten(c, m + k)
    BY <1>4 DEF Return
  <2>. QED BY <1>1, <2>3, <2>4, <2>5, ClearWrittenEffect
<1>. QED
  BY <1>1, <1>3, <1>4

\* A step that leaves c without a system call.
LEMMA OneConnDone ==
  ASSUME IInv, NEW c \in Conns, inLoop[c],
         NEW q \in Seq(Bytes), Len(q) <= SendBuf,
         NEW b \in Seq(Bytes), NEW w \in BOOLEAN, w <=> b # <<>>,
         call.conn = c,
         sendq' = [sendq EXCEPT ![c] = q],
         writeBuf' = [writeBuf EXCEPT ![c] = b],
         writing' = [writing EXCEPT ![c] = w],
         call' = NoCall,
         UNCHANGED <<connVars, sock, written, got, envVars>>
  PROVE  /\ IInv'
         /\ \A d \in Conns : Open(d)' = Open(d)
         /\ \A d \in Conns \ {c} : Transit(d)' = Transit(d)
         /\ Transit(c)' = q \o IF sock[c] = "open" THEN b ELSE <<>>
<1>. DEFINE r == NoCall
<1>1. call' = r /\ r \in Calls /\ r.conn \in {None, c} /\ r.conn # c
  <2>1. <<>> \in Seq(Bytes)
    BY EmptySeq
  <2>. QED BY <2>1, StreamAssumption DEF NoCall, Calls
<1>. HIDE DEF r
<1>2. written' \in [Conns -> Nat] /\ UNCHANGED <<connVars, sock, got, envVars>>
  BY DEF IInv, TypeOK
<1>3. call.conn \in {None, c}
  OBVIOUS
<1>4. r.conn = c => r.rest # <<>> /\ CallOK(r, b, w)
  BY <1>1
<1>5. r.conn # c => (w <=> b # <<>>)
  OBVIOUS
<1>6. /\ IInv'
      /\ \A d \in Conns : Open(d)' = Open(d)
      /\ \A d \in Conns \ {c} : Transit(d)' = Transit(d)
      /\ Transit(c)' = q \o IF sock[c] = "open" THEN IF r.conn = c THEN r.rest ELSE b
                                               ELSE <<>>
  BY <1>1, <1>2, <1>3, <1>4, <1>5, OneConn, ZenonT(20)
<1>7. (IF r.conn = c THEN r.rest ELSE b) = b
  BY <1>1
<1>. QED
  BY <1>6, <1>7

\* The call for c returns with q in the socket.
LEMMA ReturnStep ==
  ASSUME IInv, ~Idle, NEW c \in Conns, c = call.conn,
         NEW k \in Nat, k <= Len(call.rest),
         NEW rest, rest = After(call.rest, k), Return(call.taken + k, rest),
         NEW q \in Seq(Bytes), Len(q) <= SendBuf,
         sendq' = [sendq EXCEPT ![c] = q],
         UNCHANGED <<connVars, sock, written, got, envVars>>
  PROVE  /\ IInv'
         /\ \A d \in Conns : Open(d)' = Open(d)
         /\ \A d \in Conns \ {c} : Transit(d)' = Transit(d)
         /\ Transit(c)' = q \o IF sock[c] = "open" THEN rest ELSE <<>>
<1>1. inLoop[c]
  BY Waiting
<1>2. rest \in Seq(Bytes)
  BY Waiting, Parts
<1>3. PICK w \in BOOLEAN : /\ w <=> rest # <<>>
                           /\ writeBuf' = [writeBuf EXCEPT ![c] = rest]
                           /\ writing' = [writing EXCEPT ![c] = w]
  BY ReturnEffect
<1>4. call' = NoCall
  BY DEF Return
<1>. QED
  BY <1>1, <1>2, <1>3, <1>4, OneConnDone

\* What a peer is owed while the loop waits in a write to it.
LEMMA OwedWhileWaiting ==
  ASSUME IInv, ~Idle, NEW c \in Conns, c = call.conn
  PROVE  Transit(c) = sendq[c] \o IF sock[c] = "open" THEN call.rest ELSE <<>>
BY Waiting DEF Transit, Unsent

\* A write that gets further changes nothing for the peer.
LEMMA CallGoesOnStep ==
  ASSUME IInv, CallGoesOn
  PROVE  IInv' /\ UNCHANGED Stream!pipeVars
<1>1. ~Idle
  BY DEF CallGoesOn
<1>2. PICK c \in Conns : c = call.conn
  BY <1>1, Waiting
<1>. DEFINE s == call.rest
            k == AtMost(Len(s), Room(c))
            q == sendq[c] \o First(s, k)
            a == After(s, k)
<1>3. /\ TypeOK /\ inLoop[c] /\ s \in Seq(Bytes) /\ s # <<>> /\ Len(s) \in Nat
      /\ call \in Calls /\ call.taken \in Nat
      /\ CallOK(call, writeBuf[c], writing[c])
  BY <1>1, <1>2, Waiting, LenProperties DEF IInv
<1>4. /\ sock[c] = "open"
      /\ sendq' = [sendq EXCEPT ![c] = q]
      /\ UNCHANGED <<connVars, sock, written, got, envVars>>
      /\ IF k < Len(s)
         THEN /\ call' = [call EXCEPT !.taken = @ + k, !.rest = a]
              /\ UNCHANGED bufVars
         ELSE Return(call.taken + k, <<>>)
  BY <1>2 DEF CallGoesOn, Take
<1>5. k \in Nat /\ k <= Len(s) /\ Len(sendq[c]) + k <= SendBuf /\ sendq[c] \in Seq(Bytes)
  BY <1>3, Fits, TransitIsSeq
<1>. HIDE DEF k
<1>6. /\ q \in Seq(Bytes) /\ Len(q) <= SendBuf
      /\ q \o a = sendq[c] \o s
  <2>1. /\ q \in Seq(Bytes) /\ Len(q) = Len(sendq[c]) + k
        /\ q \o a = sendq[c] \o s
    BY <1>3, <1>5, MoveOn
  <2>. QED BY <1>5, <2>1
<1>7. a \in Seq(Bytes) /\ (a = <<>> <=> k = Len(s))
  BY <1>3, <1>5, Parts, NothingLeft
<1>. HIDE DEF q
<1>8. /\ IInv'
      /\ \A d \in Conns : Open(d)' = Open(d)
      /\ \A d \in Conns \ {c} : Transit(d)' = Transit(d)
      /\ Transit(c)' = q \o a
  <2>1. CASE k < Len(s)
    <3>. DEFINE r == [call EXCEPT !.taken = @ + k, !.rest = a]
                b == writeBuf[c]
                w == writing[c]
    <3>1. /\ r \in Calls /\ r.conn = c /\ r.rest = a /\ r.op = call.op
          /\ r.taken = call.taken + k /\ call' = r /\ a # <<>>
      <4>1. call' = r /\ a # <<>>
        BY <1>3, <1>4, <1>5, <1>7, <2>1
      <4>2. call.taken + k \in Nat /\ a \in Seq(Bytes)
        BY <1>3, <1>5, <1>7
      <4>. HIDE DEF a
      <4>3. /\ r \in Calls /\ r.conn = call.conn /\ r.rest = a /\ r.op = call.op
            /\ r.taken = call.taken + k
        BY <1>3, <4>2 DEF Calls
      <4>. QED BY <1>2, <4>1, <4>3
    <3>. HIDE DEF r
    <3>2. CallOK(r, b, w)
      <4>1. r.op = "writeData" => b = <<>> /\ ~w
        BY <1>3, <3>1 DEF CallOK
      <4>2. ASSUME r.op = "writeEvent"
            PROVE  w /\ r.taken \in 1 .. Len(b) /\ r.rest = After(b, r.taken)
        <5>1. w /\ call.taken \in 1 .. Len(b) /\ s = After(b, call.taken)
          BY <1>3, <3>1, <4>2 DEF CallOK
        <5>2. b \in Seq(Bytes) /\ Len(b) \in Nat
          BY <1>3, TransitIsSeq, LenProperties
        <5>3. call.taken + k \in 1 .. Len(b) /\ After(s, k) = After(b, call.taken + k)
          BY <1>5, <5>1, <5>2, FurtherIn
        <5>. QED BY <3>1, <5>1, <5>3
      <4>. QED BY <4>1, <4>2 DEF CallOK
    <3>3. writeBuf \in [Conns -> Seq(Bytes)] /\ writing \in [Conns -> BOOLEAN]
      BY <1>3 DEF TypeOK
    <3>4. /\ writeBuf' = [writeBuf EXCEPT ![c] = b] /\ writing' = [writing EXCEPT ![c] = w]
          /\ b \in Seq(Bytes) /\ w \in BOOLEAN
      BY <1>4, <2>1, <3>3 DEF bufVars
    <3>5. written' \in [Conns -> Nat] /\ UNCHANGED <<connVars, sock, got, envVars>>
      BY <1>3, <1>4 DEF TypeOK
    <3>6. call.conn \in {None, c} /\ r.conn \in {None, c}
      BY <1>2, <3>1
    <3>7. r.conn = c => r.rest # <<>> /\ CallOK(r, b, w)
      BY <3>1, <3>2
    <3>. HIDE DEF a, b, w, s
    <3>8. /\ IInv'
          /\ \A d \in Conns : Open(d)' = Open(d)
          /\ \A d \in Conns \ {c} : Transit(d)' = Transit(d)
          /\ Transit(c)' = q \o IF sock[c] = "open" THEN IF r.conn = c THEN r.rest ELSE b
                                                   ELSE <<>>
      BY <1>3, <1>4, <1>6, <3>1, <3>4, <3>5, <3>6, <3>7, OneConn
    <3>. QED BY <1>4, <3>1, <3>8
  <2>2. CASE ~(k < Len(s))
    <3>1. k = Len(s)
      BY <1>3, <1>5, <2>2
    <3>2. a = <<>>
      BY <1>7, <3>1
    <3>3. Return(call.taken + k, a)
      BY <1>4, <2>2, <3>2
    <3>4. k <= Len(call.rest) /\ a = After(call.rest, k)
      BY <1>5
    <3>. HIDE DEF a
    <3>5. /\ IInv'
          /\ \A d \in Conns : Open(d)' = Open(d)
          /\ \A d \in Conns \ {c} : Transit(d)' = Transit(d)
          /\ Transit(c)' = q \o IF sock[c] = "open" THEN a ELSE <<>>
      BY <1>1, <1>2, <1>4, <1>5, <1>6, <3>3, <3>4, ReturnStep
    <3>. QED BY <1>4, <3>5
  <2>. QED BY <2>1, <2>2
<1>9. Transit(c) = sendq[c] \o s
  BY <1>1, <1>2, <1>4, OwedWhileWaiting
<1>. QED
  BY <1>4, <1>6, <1>8, <1>9, PipeStutter

\* A call that returns without another byte taken changes nothing for the peer.
LEMMA ReturnsAsIs ==
  ASSUME IInv, ~Idle, Return(call.taken, call.rest),
         UNCHANGED <<connVars, sock, sendq, written, got, envVars>>
  PROVE  IInv' /\ UNCHANGED Stream!pipeVars
<1>1. PICK c \in Conns : c = call.conn
  BY Waiting
<1>. DEFINE rest == call.rest
            q    == sendq[c]
<1>2. TypeOK /\ rest \in Seq(Bytes) /\ call.taken \in Nat
  BY Waiting DEF IInv
<1>3. sendq \in [Conns -> Seq(Bytes)] /\ q \in Seq(Bytes) /\ Len(q) <= SendBuf
  BY <1>2 DEF TypeOK
<1>4. sendq' = [sendq EXCEPT ![c] = q]
  BY <1>3
<1>5. Return(call.taken + 0, rest) /\ 0 \in Nat /\ 0 <= Len(call.rest)
  <2>1. call.taken + 0 = call.taken /\ Len(rest) \in Nat
    BY <1>2, LenProperties
  <2>. QED BY <2>1
<1>6. rest = After(call.rest, 0)
  BY <1>2, SubSeqFull DEF After
<1>7. UNCHANGED <<connVars, sock, written, got, envVars>>
  OBVIOUS
<1>. HIDE DEF rest, q
<1>8. /\ IInv'
      /\ \A d \in Conns : Open(d)' = Open(d)
      /\ \A d \in Conns \ {c} : Transit(d)' = Transit(d)
      /\ Transit(c)' = q \o IF sock[c] = "open" THEN rest ELSE <<>>
  BY <1>1, <1>3, <1>4, <1>5, <1>6, <1>7, ReturnStep
<1>9. Transit(c) = q \o IF sock[c] = "open" THEN rest ELSE <<>>
  BY <1>1, OwedWhileWaiting DEF q, rest
<1>. QED
  BY <1>8, <1>9, PipeStutter

\* A signal changes nothing for the peer.
LEMMA InterruptedStep ==
  ASSUME IInv, Interrupted
  PROVE  IInv' /\ UNCHANGED Stream!pipeVars
BY ReturnsAsIs DEF Interrupted

\* A call that fails on a lost connection changes nothing for the peer: its bytes
\* were lost with the connection.
LEMMA CallFailsStep ==
  ASSUME IInv, CallFails
  PROVE  IInv' /\ UNCHANGED Stream!pipeVars
<1>1. /\ ~Idle /\ sock[call.conn] = "reset"
      /\ UNCHANGED <<connVars, sock, sendq, written, got, envVars>>
  BY DEF CallFails
<1>2. CASE call.op = "writeData" /\ call.taken = 0
  <2>1. call' = NoCall /\ UNCHANGED bufVars
    BY <1>2 DEF CallFails
  <2>2. PICK c \in Conns : c = call.conn
    BY <1>1, Waiting
  <2>. DEFINE q == sendq[c]
              b == writeBuf[c]
              w == writing[c]
  <2>3. TypeOK /\ inLoop[c] /\ b = <<>> /\ w = FALSE
    BY <1>1, <1>2, <2>2, Waiting DEF IInv, TypeOK, CallOK
  <2>4. /\ q \in Seq(Bytes) /\ Len(q) <= SendBuf
        /\ sendq' = [sendq EXCEPT ![c] = q]
        /\ b \in Seq(Bytes) /\ writeBuf' = [writeBuf EXCEPT ![c] = b]
        /\ w \in BOOLEAN /\ writing' = [writing EXCEPT ![c] = w]
    BY <1>1, <2>1, <2>3 DEF TypeOK, bufVars
  <2>5. UNCHANGED <<connVars, sock, written, got, envVars>> /\ (w <=> b # <<>>)
    BY <1>1, <2>3
  <2>6. sock[c] = "reset"
    BY <1>1, <2>2
  <2>7. inLoop[c] /\ call.conn = c
    BY <2>2, <2>3
  <2>. HIDE DEF q, b, w
  <2>8. /\ IInv'
        /\ \A d \in Conns : Open(d)' = Open(d)
        /\ \A d \in Conns \ {c} : Transit(d)' = Transit(d)
        /\ Transit(c)' = q \o IF sock[c] = "open" THEN b ELSE <<>>
    BY <2>1, <2>4, <2>5, <2>7, OneConnDone
  <2>9. Transit(c) = q \o <<>> /\ Transit(c)' = q \o <<>>
    BY <1>1, <2>2, <2>6, <2>8, OwedWhileWaiting DEF q
  <2>10. got' = got
    BY <1>1
  <2>. QED BY <2>8, <2>9, <2>10, PipeStutter
<1>3. CASE ~(call.op = "writeData" /\ call.taken = 0)
  <2>1. Return(call.taken, call.rest)
    BY <1>3 DEF CallFails
  <2>. QED BY <1>1, <2>1, ReturnsAsIs
<1>. QED
  BY <1>2, <1>3

-------------------------------------------------------------------------------
(* The end of a connection.                                                *)

\* shutdownWrite loses what is still in writeBuf.
LEMMA ShutdownWriteStep ==
  ASSUME IInv, NEW c \in Conns, ShutdownWrite(c)
  PROVE  IInv' /\ Stream!Cut(c)
<1>1. /\ TypeOK /\ WriteInterest /\ CallMatchesBuffer /\ ShutSocket
      /\ call.conn = None /\ c # None
      /\ state' = [state EXCEPT ![c] = "Disconnecting"]
      /\ sock' = [sock EXCEPT ![c] = IF sock[c] = "open" THEN "shut" ELSE sock[c]]
      /\ inLoop' = inLoop /\ closing' = closing /\ writing' = writing
      /\ writeBuf' = writeBuf /\ sendq' = sendq /\ call' = call
      /\ written' = written /\ got' = got /\ blocking' = blocking /\ reads' = reads
  BY StreamAssumption DEF IInv, ShutdownWrite, Idle, bufVars, envVars
<1>2. /\ state'[c] = "Disconnecting" /\ sock'[c] # "open"
      /\ \A d \in Conns \ {c} : state'[d] = state[d] /\ sock'[d] = sock[d]
  BY <1>1 DEF TypeOK
<1>3. TypeOK'
  BY <1>1, <1>2 DEF TypeOK
<1>4. WriteInterest' /\ CallMatchesBuffer'
  BY <1>1 DEF WriteInterest, CallMatchesBuffer, CallOK
<1>5. ShutSocket'
  BY <1>1, <1>2 DEF ShutSocket
<1>6. Open(c)' = FALSE /\ \A d \in Conns \ {c} : Open(d)' = Open(d) /\ Transit(d)' = Transit(d)
  BY <1>1, <1>2 DEF Open, Transit, Unsent
<1>7. Transit(c)' = sendq[c]
  <2>1. Transit(c)' = sendq[c] \o <<>> /\ sendq[c] \in Seq(Bytes)
    BY <1>1, <1>2, TransitIsSeq DEF Transit
  <2>. QED BY <2>1, ConcatSimplifications
<1>8. PICK n \in 0 .. Len(Transit(c)) : SubSeq(Transit(c), 1, n) = sendq[c]
  BY <1>1, WhatIsLeft
<1>. QED
  BY <1>1, <1>3, <1>4, <1>5, <1>6, <1>7, <1>8, PipeCut DEF IInv

\* closeEvent loses nothing, but no more is written.
LEMMA CloseEventStep ==
  ASSUME IInv, NEW c \in Conns, CloseEvent(c)
  PROVE  IInv' /\ Stream!Cut(c)
<1>1. /\ TypeOK /\ WriteInterest /\ CallMatchesBuffer /\ ShutSocket
      /\ state' = [state EXCEPT ![c] = "Disconnected"]
      /\ closing' = [closing EXCEPT ![c] = TRUE]
      /\ inLoop' = inLoop /\ writing' = writing /\ sock' = sock
      /\ writeBuf' = writeBuf /\ sendq' = sendq /\ call' = call
      /\ written' = written /\ got' = got /\ blocking' = blocking /\ reads' = reads
  BY DEF IInv, CloseEvent, bufVars, envVars
<1>2. state'[c] = "Disconnected" /\ \A d \in Conns \ {c} : state'[d] = state[d]
  BY <1>1 DEF TypeOK
<1>3. TypeOK'
  BY <1>1, <1>2 DEF TypeOK
<1>4. WriteInterest' /\ CallMatchesBuffer'
  BY <1>1 DEF WriteInterest, CallMatchesBuffer, CallOK
<1>5. ShutSocket'
  BY <1>1, <1>2 DEF ShutSocket
<1>6. Open(c)' = FALSE /\ \A d \in Conns \ {c} : Open(d)' = Open(d) /\ Transit(d)' = Transit(d)
  BY <1>1, <1>2 DEF Open, Transit, Unsent
<1>7. Transit(c)' = Transit(c)
  BY <1>1 DEF Transit, Unsent
<1>8. PICK n \in 0 .. Len(Transit(c)) : SubSeq(Transit(c), 1, n) = Transit(c)
  BY <1>1, WhatIsLeft
<1>. QED
  BY <1>1, <1>3, <1>4, <1>5, <1>6, <1>7, <1>8, PipeCut DEF IInv

\* The removal loses what is still in writeBuf.
LEMMA RemovedHandleStep ==
  ASSUME IInv, NEW c \in Conns, RemovedHandle(c)
  PROVE  IInv' /\ Stream!Cut(c)
<1>1. /\ TypeOK /\ WriteInterest /\ CallMatchesBuffer /\ ShutSocket
      /\ call.conn = None /\ c # None
      /\ inLoop' = [inLoop EXCEPT ![c] = FALSE]
      /\ IF state[c] = "Connected"
         THEN /\ state' = [state EXCEPT ![c] = "Disconnected"]
              /\ writing' = [writing EXCEPT ![c] = FALSE]
         ELSE state' = state /\ writing' = writing
      /\ closing' = closing /\ sock' = sock
      /\ writeBuf' = writeBuf /\ sendq' = sendq /\ call' = call
      /\ written' = written /\ got' = got /\ blocking' = blocking /\ reads' = reads
  BY StreamAssumption DEF IInv, RemovedHandle, Idle, envVars
<1>2. /\ state'[c] # "Connected" /\ ~inLoop'[c]
      /\ state'[c] = "Disconnecting" => state[c] = "Disconnecting"
      /\ \A d \in Conns \ {c} : /\ state'[d] = state[d] /\ inLoop'[d] = inLoop[d]
                                /\ writing'[d] = writing[d]
  BY <1>1 DEF TypeOK
<1>3. TypeOK'
  <2>1. /\ state' \in [Conns -> {"Connected", "Disconnecting", "Disconnected"}]
        /\ writing' \in [Conns -> BOOLEAN] /\ inLoop' \in [Conns -> BOOLEAN]
    BY <1>1 DEF TypeOK
  <2>2. \A d \in Conns : ~inLoop'[d] => state'[d] # "Connected"
    BY <1>1, <1>2 DEF TypeOK
  <2>. QED BY <1>1, <2>1, <2>2 DEF TypeOK
<1>4. WriteInterest'
  BY <1>1, <1>2 DEF WriteInterest
<1>5. CallMatchesBuffer' /\ ShutSocket'
  BY <1>1, <1>2 DEF CallMatchesBuffer, ShutSocket
<1>6. Open(c)' = FALSE /\ \A d \in Conns \ {c} : Open(d)' = Open(d) /\ Transit(d)' = Transit(d)
  BY <1>1, <1>2 DEF Open, Transit, Unsent
<1>7. Transit(c)' = sendq[c]
  <2>1. Transit(c)' = sendq[c] \o <<>> /\ sendq[c] \in Seq(Bytes)
    BY <1>1, <1>2, TransitIsSeq DEF Transit
  <2>. QED BY <2>1, ConcatSimplifications
<1>8. PICK n \in 0 .. Len(Transit(c)) : SubSeq(Transit(c), 1, n) = sendq[c]
  BY <1>1, WhatIsLeft
<1>. QED
  BY <1>1, <1>3, <1>4, <1>5, <1>6, <1>7, <1>8, PipeCut DEF IInv

-------------------------------------------------------------------------------
(* The peer.                                                               *)

\* A reset loses all that is on its way.
LEMMA PeerResetsStep ==
  ASSUME IInv, NEW c \in Conns, PeerResets(c)
  PROVE  IInv' /\ Stream!Cut(c)
<1>1. /\ TypeOK /\ WriteInterest /\ CallMatchesBuffer /\ ShutSocket
      /\ sock' = [sock EXCEPT ![c] = "reset"]
      /\ sendq' = [sendq EXCEPT ![c] = <<>>]
      /\ state' = state /\ inLoop' = inLoop /\ closing' = closing
      /\ writing' = writing /\ writeBuf' = writeBuf /\ call' = call
      /\ written' = written /\ got' = got /\ blocking' = blocking /\ reads' = reads
  BY DEF IInv, PeerResets, connVars, bufVars, envVars
<1>2. /\ sock'[c] = "reset" /\ sendq'[c] = <<>>
      /\ \A d \in Conns \ {c} : sock'[d] = sock[d] /\ sendq'[d] = sendq[d]
  BY <1>1 DEF TypeOK
<1>3. TypeOK'
  <2>1. <<>> \in Seq(Bytes) /\ Len(<<>>) <= SendBuf
    BY EmptySeq, StreamAssumption
  <2>2. sendq' \in [Conns -> Seq(Bytes)] /\ \A d \in Conns : Len(sendq'[d]) <= SendBuf
    BY <1>1, <1>2, <2>1 DEF TypeOK
  <2>3. sock' \in [Conns -> {"open", "shut", "reset"}]
    BY <1>1 DEF TypeOK
  <2>. QED BY <1>1, <2>2, <2>3 DEF TypeOK
<1>4. WriteInterest' /\ CallMatchesBuffer'
  BY <1>1 DEF WriteInterest, CallMatchesBuffer, CallOK
<1>5. ShutSocket'
  BY <1>1, <1>2 DEF ShutSocket
<1>6. Open(c)' = FALSE /\ \A d \in Conns \ {c} : Open(d)' = Open(d) /\ Transit(d)' = Transit(d)
  BY <1>1, <1>2 DEF Open, Transit, Unsent
<1>7. Transit(c)' = <<>>
  <2>1. Transit(c)' = <<>> \o <<>>
    BY <1>2 DEF Transit
  <2>2. <<>> \o <<>> = <<>>
    BY EmptySeq, ConcatSimplifications
  <2>. QED BY <2>1, <2>2
<1>8. PICK n \in 0 .. Len(Transit(c)) : SubSeq(Transit(c), 1, n) = <<>>
  BY <1>1, WhatIsLeft
<1>. QED
  BY <1>1, <1>3, <1>4, <1>5, <1>6, <1>7, <1>8, PipeCut DEF IInv

\* What the peer reads is what the Pipe delivers.
LEMMA PeerReadsStep ==
  ASSUME IInv, NEW c \in Conns, PeerReads(c)
  PROVE  IInv' /\ Stream!Deliver(c)
<1>1. PICK n \in 1 .. Len(sendq[c]) :
          /\ got' = [got EXCEPT ![c] = got[c] \o First(sendq[c], n)]
          /\ sendq' = [sendq EXCEPT ![c] = After(sendq[c], n)]
  BY DEF PeerReads
<1>2. /\ TypeOK /\ WriteInterest /\ CallMatchesBuffer /\ ShutSocket
      /\ state' = state /\ inLoop' = inLoop /\ closing' = closing /\ sock' = sock
      /\ writing' = writing /\ writeBuf' = writeBuf /\ call' = call
      /\ written' = written /\ blocking' = blocking /\ reads' = reads
  BY DEF IInv, PeerReads, connVars, bufVars, envVars
<1>3. /\ sendq \in [Conns -> Seq(Bytes)] /\ got \in [Conns -> Seq(Bytes)]
      /\ sendq[c] \in Seq(Bytes) /\ Len(sendq[c]) \in Nat
      /\ got[c] \in Seq(Bytes) /\ Len(sendq[c]) <= SendBuf /\ SendBuf \in Nat
  BY <1>2, LenProperties, StreamAssumption DEF TypeOK
<1>. DEFINE q == sendq[c]
            f == First(q, n)
            a == After(q, n)
            u == IF inLoop[c] /\ sock[c] = "open" THEN Unsent(c) ELSE <<>>
            x == Transit(c)
<1>4. /\ f \in Seq(Bytes) /\ a \in Seq(Bytes) /\ Len(a) = Len(q) - n
      /\ n \in Nat /\ n <= Len(q) /\ n \in 0 .. Len(q)
  <2>1. n \in Nat /\ n <= Len(q) /\ n \in 0 .. Len(q)
    BY <1>3
  <2>. QED BY <1>3, <2>1, Parts
<1>5. u \in Seq(Bytes) /\ x = q \o u
  BY <1>2, TransitIsSeq, EmptySeq DEF Transit
<1>6. n <= Len(x) /\ SubSeq(x, 1, n) = f /\ SubSeq(x, n + 1, Len(x)) = a \o u
  <2>. HIDE DEF q, u, x
  <2>1. q \in Seq(Bytes) /\ u \in Seq(Bytes) /\ n \in 0 .. Len(q)
    BY <1>3, <1>4, <1>5 DEF q
  <2>2. /\ n <= Len(q \o u) /\ SubSeq(q \o u, 1, n) = SubSeq(q, 1, n)
        /\ SubSeq(q \o u, n + 1, Len(q \o u)) = SubSeq(q, n + 1, Len(q)) \o u
    BY <2>1, SplitConcat
  <2>. QED BY <1>5, <2>2 DEF First, After
<1>7. IInv'
  <2>1. got[c] \o f \in Seq(Bytes)
    BY <1>3, <1>4, ConcatProperties
  <2>2. got' \in [Conns -> Seq(Bytes)]
    BY <1>1, <1>3, <2>1
  <2>3. sendq' \in [Conns -> Seq(Bytes)]
    BY <1>1, <1>3, <1>4
  <2>4. sendq'[c] = a /\ \A d \in Conns \ {c} : sendq'[d] = sendq[d]
    BY <1>1, <1>3
  <2>5. Len(a) <= SendBuf
    BY <1>3, <1>4
  <2>6. \A d \in Conns : Len(sendq'[d]) <= SendBuf
    BY <1>2, <2>4, <2>5 DEF TypeOK
  <2>7. TypeOK'
    BY <1>2, <2>2, <2>3, <2>6 DEF TypeOK
  <2>8. WriteInterest' /\ CallMatchesBuffer' /\ ShutSocket'
    BY <1>2 DEF WriteInterest, CallMatchesBuffer, CallOK, ShutSocket
  <2>. QED BY <2>7, <2>8 DEF IInv
<1>8. Transit(c)' = a \o u /\ \A d \in Conns \ {c} : Transit(d)' = Transit(d)
  BY <1>1, <1>2, <1>3 DEF Transit, Unsent
<1>9. \A d \in Conns : Open(d)' = Open(d)
  BY <1>2 DEF Open
<1>10. Stream!Deliver(c)
  <2>. DEFINE T  == [d \in Conns |-> Transit(d)]
  <2>1. [d \in Conns |-> Transit(d)'] = [T EXCEPT ![c] = SubSeq(T[c], n + 1, Len(T[c]))]
    BY <1>6, <1>8
  <2>2. got' = [got EXCEPT ![c] = got[c] \o SubSeq(T[c], 1, n)]
    BY <1>1, <1>6
  <2>3. n \in 1 .. Len(T[c])
    <3>. DEFINE l == Len(x)
    <3>1. l \in Nat /\ n <= l
      BY <1>2, <1>6, TransitIsSeq, LenProperties
    <3>2. T[c] = x
      OBVIOUS
    <3>. HIDE DEF l, T, x
    <3>3. n \in 1 .. l
      BY <1>3, <3>1
    <3>. QED BY <3>2, <3>3 DEF l
  <2>4. [d \in Conns |-> Open(d)'] = [d \in Conns |-> Open(d)]
    BY <1>9
  <2>. QED BY <2>1, <2>2, <2>3, <2>4 DEF Stream!Deliver
<1>. QED
  BY <1>7, <1>10

-------------------------------------------------------------------------------
(* The specification.                                                      *)

\* Nothing is written at first.
LEMMA StreamInit ==
  ASSUME Init
  PROVE  IInv /\ Stream!Init
<1>1. /\ TypeOK
      /\ WriteInterest /\ CallMatchesBuffer /\ ShutSocket
  <2>1. <<>> \in Seq(Bytes) /\ Len(<<>>) <= SendBuf /\ None \notin Conns
    BY EmptySeq, StreamAssumption
  <2>2. TypeOK
    BY <2>1 DEF Init, TypeOK, NoCall
  <2>. QED BY <2>1, <2>2 DEF Init, NoCall, WriteInterest, CallMatchesBuffer, ShutSocket
<1>2. \A c \in Conns : Transit(c) = <<>> /\ Open(c) = TRUE
  <2>1. <<>> \o <<>> = <<>>
    BY EmptySeq, ConcatSimplifications
  <2>2. \A c \in Conns : Transit(c) = <<>> \o <<>>
    BY StreamAssumption DEF Init, NoCall, Transit, Unsent
  <2>3. \A c \in Conns : Open(c) = TRUE
    BY DEF Init, Open
  <2>. QED BY <2>1, <2>2, <2>3
<1>3. Stream!Init
  BY <1>2 DEF Stream!Init, Init
<1>. QED
  BY <1>1, <1>3 DEF IInv

\* Each step of the code keeps the invariant and is a step of the Pipe, or nothing
\* the Pipe shows.
LEMMA StreamStep ==
  ASSUME IInv, [Next]_vars
  PROVE  IInv' /\ [Stream!Next]_(Stream!pipeVars)
<1>1. ASSUME NEW c \in Conns, NEW n \in 1 .. MaxBytes, WriteDirect(c, n)
      PROVE  IInv' /\ [Stream!Next]_(Stream!pipeVars)
  BY <1>1, WriteDirectStep DEF Stream!Next
<1>2. ASSUME NEW c \in Conns, NEW n \in 1 .. MaxBytes, WriteBuffered(c, n)
      PROVE  IInv' /\ [Stream!Next]_(Stream!pipeVars)
  BY <1>2, WriteBufferedStep DEF Stream!Next
<1>3. ASSUME NEW c \in Conns, WriteEvent(c)
      PROVE  IInv' /\ [Stream!Next]_(Stream!pipeVars)
  BY <1>3, WriteEventStep
<1>4. ASSUME NEW c \in Conns, ShutdownWrite(c) \/ CloseEvent(c) \/ RemovedHandle(c) \/ PeerResets(c)
      PROVE  IInv' /\ [Stream!Next]_(Stream!pipeVars)
  BY <1>4, ShutdownWriteStep, CloseEventStep, RemovedHandleStep, PeerResetsStep
     DEF Stream!Next
<1>5. ASSUME NEW c \in Conns, PeerReads(c)
      PROVE  IInv' /\ [Stream!Next]_(Stream!pipeVars)
  BY <1>5, PeerReadsStep DEF Stream!Next
<1>6. CASE CallGoesOn \/ Interrupted \/ CallFails
  BY <1>6, CallGoesOnStep, InterruptedStep, CallFailsStep
<1>7. CASE UNCHANGED vars
  <2>1. IInv'
    BY <1>7 DEF IInv, TypeOK, WriteInterest, CallMatchesBuffer, CallOK, ShutSocket,
                vars, connVars, bufVars, envVars
  <2>2. UNCHANGED Stream!pipeVars
    BY <1>7, PipeStutter DEF Transit, Unsent, Open, vars, connVars, bufVars, envVars
  <2>. QED BY <2>1, <2>2
<1>. QED
  BY <1>1, <1>2, <1>3, <1>4, <1>5, <1>6, <1>7 DEF Next

\* The invariant holds in every state.
LEMMA Invariant == Spec => []IInv
<1>1. Init => IInv
  BY StreamInit
<1>2. IInv /\ [Next]_vars => IInv'
  BY StreamStep
<1>. QED
  BY <1>1, <1>2, PTL DEF Spec

\* The types: the socket never holds more than its send buffer, and a system call
\* under way has bytes left and a connection that is still in the loop.
THEOREM StreamTypes == Spec => []TypeOK
<1>1. IInv => TypeOK
  BY DEF IInv
<1>. QED
  BY <1>1, Invariant, PTL

\* Whatever mixture of direct and buffered writes, partial writes, signals and lost
\* connections happens, EPOLLOUT is asked for exactly while bytes wait in writeBuf.
THEOREM WriteInterestExact == Spec => []WriteInterest
<1>1. IInv => WriteInterest
  BY DEF IInv
<1>. QED
  BY <1>1, Invariant, PTL

\* Every peer gets the bytes written to it in order, none doubled and none missing
\* in between.
THEOREM ImplementsPipe == Spec => PipeSpec
<1>1. Init => Stream!Init
  BY StreamInit
<1>2. IInv /\ [Next]_vars => [Stream!Next]_(Stream!pipeVars)
  BY StreamStep
<1>. QED
  BY <1>1, <1>2, Invariant, PTL DEF Spec, PipeSpec, Stream!Spec
===============================================================================
