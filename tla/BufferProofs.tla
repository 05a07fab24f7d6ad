----------------------------- MODULE BufferProofs -----------------------------
(***************************************************************************)
(* Buffer's indexes stay in order and a Buffer implements the ByteQueue,   *)
(* for any bytes and sizes, as long as every readv succeeds.               *)
(***************************************************************************)
EXTENDS Buffer, SequenceTheorems, TLAPS

\* A function on 1 .. n is a sequence of length n.
LEMMA FunctionIsSeq ==
  ASSUME NEW S, NEW n \in Nat, NEW f \in [1 .. n -> S]
  PROVE  f \in Seq(S) /\ Len(f) = n
BY SeqDef

\* The slice of s behind its first m elements up to the n-th.
LEMMA Slice ==
  ASSUME NEW S, NEW s \in Seq(S), NEW m \in Nat, NEW n \in Nat, m <= n, n <= Len(s)
  PROVE  /\ SubSeq(s, m + 1, n) \in Seq(S)
         /\ Len(SubSeq(s, m + 1, n)) = n - m
         /\ \A i \in 1 .. n - m : SubSeq(s, m + 1, n)[i] = s[m + i]
<1>1. \A i \in m + 1 .. n : s[i] \in S
  BY ElementOfSeq, LenProperties
<1>2. /\ SubSeq(s, m + 1, n) \in Seq(S)
      /\ Len(SubSeq(s, m + 1, n)) = IF m + 1 <= n THEN n - (m + 1) + 1 ELSE 0
      /\ \A i \in 1 .. n - (m + 1) + 1 : SubSeq(s, m + 1, n)[i] = s[(m + 1) + i - 1]
  BY <1>1, SubSeqProperties, m + 1 \in Int, n \in Int
<1>3. n - (m + 1) + 1 = n - m /\ \A i \in 1 .. n - m : (m + 1) + i - 1 = m + i
  OBVIOUS
<1>. QED
  BY <1>2, <1>3

\* copy() writes data behind the first `at' cells and leaves the others alone.
LEMMA CopyProperties ==
  ASSUME NEW S, NEW cells \in Seq(S), NEW at \in Nat, NEW data \in Seq(S),
         at + Len(data) <= Len(cells)
  PROVE  /\ Copy(cells, at, data) \in Seq(S)
         /\ Len(Copy(cells, at, data)) = Len(cells)
         /\ \A i \in 1 .. at : Copy(cells, at, data)[i] = cells[i]
         /\ \A i \in 1 .. Len(data) : Copy(cells, at, data)[at + i] = data[i]
<1>. DEFINE new == Copy(cells, at, data)
<1>1. Len(cells) \in Nat /\ Len(data) \in Nat
  BY LenProperties
<1>2. new \in [1 .. Len(cells) -> S]
  <2>1. \A i \in 1 .. Len(cells) : cells[i] \in S
    BY ElementOfSeq
  <2>2. \A i \in 1 .. Len(cells) :
           i \in at + 1 .. at + Len(data) => data[i - at] \in S
    <3>1. \A i \in at + 1 .. at + Len(data) : i - at \in 1 .. Len(data)
      BY <1>1
    <3>. QED BY <3>1, ElementOfSeq
  <2>. QED BY <2>1, <2>2 DEF Copy
<1>3. new \in Seq(S) /\ Len(new) = Len(cells)
  BY <1>1, <1>2, FunctionIsSeq
<1>4. \A i \in 1 .. at : new[i] = cells[i]
  BY <1>1 DEF Copy
<1>5. \A i \in 1 .. Len(data) : new[at + i] = data[i]
  BY <1>1 DEF Copy
<1>. QED
  BY <1>3, <1>4, <1>5

\* Bytes that fit are added behind the content.
LEMMA FillProperties ==
  ASSUME NEW x, IndexesOK(x), NEW data \in Seq(Bytes), Len(data) <= WritableBytes(x)
  PROVE  /\ IndexesOK(Fill(x, data))
         /\ Content(Fill(x, data)) = Content(x) \o data
         /\ WritableBytes(Fill(x, data)) = WritableBytes(x) - Len(data)
         /\ Fill(x, data).read = x.read
<1>. DEFINE y == Fill(x, data)
            cells == Copy(x.cells, x.write, data)
<1>1. /\ x \in [read : Nat, write : Nat, cells : Seq(Bytes)]
      /\ x.read \in Nat /\ x.write \in Nat /\ x.cells \in Seq(Bytes)
      /\ x.read <= x.write /\ x.write <= Len(x.cells)
      /\ x.read = x.write => x.read = 0
      /\ Len(x.cells) \in Nat /\ Len(data) \in Nat
      /\ x.write + Len(data) <= Len(x.cells)
  BY LenProperties DEF IndexesOK, WritableBytes
<1>2. y = [x EXCEPT !.cells = cells, !.write = x.write + Len(data)]
  BY DEF Fill
<1>3. y.read = x.read /\ y.write = x.write + Len(data) /\ y.cells = cells
  BY <1>1, <1>2
<1>4. /\ cells \in Seq(Bytes) /\ Len(cells) = Len(x.cells)
      /\ \A i \in 1 .. x.write : cells[i] = x.cells[i]
      /\ \A i \in 1 .. Len(data) : cells[x.write + i] = data[i]
  BY <1>1, CopyProperties
<1>. HIDE DEF cells
<1>5. IndexesOK(y)
  <2>1. y \in [read : Nat, write : Nat, cells : Seq(Bytes)]
    <3>1. x.write + Len(data) \in Nat
      BY <1>1
    <3>. HIDE DEF y
    <3>. QED BY <1>1, <1>2, <1>4, <3>1
  <2>. HIDE DEF y
  <2>. QED BY <2>1, <1>1, <1>3, <1>4 DEF IndexesOK
<1>6. Content(y) = Content(x) \o data
  <2>. DEFINE old == SubSeq(x.cells, x.read + 1, x.write)
              end == x.write + Len(data)
              new == SubSeq(cells, x.read + 1, end)
              k == x.write - x.read
  <2>1. /\ old \in Seq(Bytes) /\ Len(old) = k
        /\ \A i \in 1 .. k : old[i] = x.cells[x.read + i]
    BY <1>1, Slice
  <2>2. /\ new \in Seq(Bytes) /\ Len(new) = end - x.read
        /\ \A i \in 1 .. end - x.read : new[i] = cells[x.read + i]
    <3>1. end \in Nat /\ x.read <= end /\ end <= Len(cells)
      BY <1>1, <1>4
    <3>. HIDE DEF end
    <3>. QED BY <1>1, <1>4, <3>1, Slice
  <2>. HIDE DEF old, new
  <2>3. /\ old \o data \in Seq(Bytes) /\ Len(old \o data) = k + Len(data)
        /\ \A i \in 1 .. k + Len(data) :
              (old \o data)[i] = IF i <= k THEN old[i] ELSE data[i - k]
    <3>1. /\ old \o data \in Seq(Bytes) /\ Len(old \o data) = Len(old) + Len(data)
          /\ \A i \in 1 .. Len(old) + Len(data) :
                (old \o data)[i] = IF i <= Len(old) THEN old[i] ELSE data[i - Len(old)]
      BY <2>1, ConcatProperties
    <3>. HIDE DEF k
    <3>. QED BY <2>1, <3>1
  <2>4. Len(new) = Len(old \o data)
    BY <1>1, <2>2, <2>3
  <2>5. ASSUME NEW i \in 1 .. Len(new) PROVE new[i] = (old \o data)[i]
    <3>1. i \in 1 .. k + Len(data) /\ i \in 1 .. end - x.read
          /\ i \in Nat /\ k \in Nat
      BY <1>1, <2>2
    <3>2. CASE i <= k
      <4>1. x.read + i \in 1 .. x.write /\ i \in 1 .. k
        BY <1>1, <3>1, <3>2
      <4>2. cells[x.read + i] = x.cells[x.read + i]
        BY <1>4, <4>1
      <4>3. new[i] = cells[x.read + i] /\ old[i] = x.cells[x.read + i]
        BY <2>1, <2>2, <3>1, <4>1
      <4>. QED BY <2>3, <3>1, <3>2, <4>2, <4>3
    <3>3. CASE ~(i <= k)
      <4>1. i - k \in 1 .. Len(data) /\ x.write + (i - k) = x.read + i
        BY <1>1, <3>1, <3>3
      <4>2. cells[x.write + (i - k)] = data[i - k]
        BY <1>4, <4>1
      <4>3. new[i] = cells[x.read + i] /\ (old \o data)[i] = data[i - k]
        BY <2>2, <2>3, <3>1, <3>3
      <4>. QED BY <4>1, <4>2, <4>3
    <3>. QED BY <3>2, <3>3
  <2>6. new = old \o data
    BY <2>2, <2>3, <2>4, <2>5, SeqEqual
  <2>. QED BY <1>3, <2>6 DEF Content, old, new
<1>7. WritableBytes(y) = WritableBytes(x) - Len(data)
  BY <1>1, <1>3, <1>4 DEF WritableBytes
<1>. QED
  BY <1>3, <1>5, <1>6, <1>7 DEF y

\* Making room changes neither the indexes nor the content.
LEMMA EnsureWriteableBytesProperties ==
  ASSUME NEW x, IndexesOK(x), NEW len \in Nat
  PROVE  /\ IndexesOK(EnsureWriteableBytes(x, len))
         /\ Content(EnsureWriteableBytes(x, len)) = Content(x)
         /\ len <= WritableBytes(EnsureWriteableBytes(x, len))
<1>1. /\ x \in [read : Nat, write : Nat, cells : Seq(Bytes)]
      /\ x.read \in Nat /\ x.write \in Nat /\ x.cells \in Seq(Bytes)
      /\ x.read <= x.write /\ x.write <= Len(x.cells)
      /\ x.read = x.write => x.read = 0
      /\ Len(x.cells) \in Nat
  BY LenProperties DEF IndexesOK
<1>2. CASE ~(WritableBytes(x) < len)
  BY <1>1, <1>2 DEF EnsureWriteableBytes, WritableBytes
<1>3. CASE WritableBytes(x) < len
  <2>. DEFINE n == x.write + len
              cells == Resize(x.cells, n)
              y == [x EXCEPT !.cells = cells]
  <2>1. EnsureWriteableBytes(x, len) = y
    BY <1>3 DEF EnsureWriteableBytes
  <2>2. n \in Nat /\ Len(x.cells) < n
    BY <1>1, <1>3 DEF WritableBytes
  <2>3. cells \in [1 .. n -> Bytes]
    <3>1. \A i \in 1 .. n : i <= Len(x.cells) => x.cells[i] \in Bytes
      BY <1>1, <2>2, ElementOfSeq
    <3>. QED BY <2>2, <3>1, BufferAssumption DEF Resize
  <2>4. \A i \in 1 .. Len(x.cells) : cells[i] = x.cells[i]
    BY <1>1, <2>2 DEF Resize
  <2>. HIDE DEF cells, n
  <2>5. cells \in Seq(Bytes) /\ Len(cells) = n
    BY <2>2, <2>3, FunctionIsSeq
  <2>6. /\ y.read = x.read /\ y.write = x.write /\ y.cells = cells
        /\ y \in [read : Nat, write : Nat, cells : Seq(Bytes)]
    BY <1>1, <2>5
  <2>. HIDE DEF y
  <2>7. IndexesOK(y)
    BY <1>1, <2>2, <2>5, <2>6 DEF IndexesOK
  <2>8. Content(y) = Content(x)
    <3>1. /\ Content(x) \in Seq(Bytes) /\ Len(Content(x)) = x.write - x.read
          /\ \A i \in 1 .. x.write - x.read : Content(x)[i] = x.cells[x.read + i]
      BY <1>1, Slice DEF Content
    <3>2. /\ Content(y) \in Seq(Bytes) /\ Len(Content(y)) = x.write - x.read
          /\ \A i \in 1 .. x.write - x.read : Content(y)[i] = cells[x.read + i]
      <4>1. x.write <= Len(cells)
        BY <1>1, <2>2, <2>5
      <4>2. Content(y) = SubSeq(cells, x.read + 1, x.write)
        BY <2>6 DEF Content
      <4>. DEFINE r == x.read
                  w == x.write
      <4>3. r \in Nat /\ w \in Nat /\ r <= w /\ w <= Len(cells)
        BY <1>1, <4>1
      <4>. HIDE DEF r, w
      <4>4. /\ SubSeq(cells, r + 1, w) \in Seq(Bytes)
            /\ Len(SubSeq(cells, r + 1, w)) = w - r
            /\ \A i \in 1 .. w - r : SubSeq(cells, r + 1, w)[i] = cells[r + i]
        BY <2>5, <4>3, Slice
      <4>. QED BY <4>2, <4>4 DEF r, w
    <3>3. ASSUME NEW i \in 1 .. x.write - x.read PROVE Content(y)[i] = Content(x)[i]
      <4>1. x.read + i \in 1 .. Len(x.cells)
        BY <1>1
      <4>. QED BY <2>4, <3>1, <3>2, <4>1
    <3>. QED BY <3>1, <3>2, <3>3, SeqEqual
  <2>9. len <= WritableBytes(y)
    BY <1>1, <2>5, <2>6 DEF WritableBytes, n
  <2>. QED BY <2>1, <2>7, <2>8, <2>9
<1>. QED
  BY <1>2, <1>3

\* append adds its bytes behind the content, whatever room there was.
LEMMA AppendDataProperties ==
  ASSUME NEW x, IndexesOK(x), NEW data \in Seq(Bytes)
  PROVE  /\ IndexesOK(AppendData(x, data))
         /\ Content(AppendData(x, data)) = Content(x) \o data
<1>. DEFINE y == EnsureWriteableBytes(x, Len(data))
<1>1. Len(data) \in Nat
  BY LenProperties
<1>2. IndexesOK(y) /\ Content(y) = Content(x) /\ Len(data) <= WritableBytes(y)
  BY <1>1, EnsureWriteableBytesProperties
<1>. HIDE DEF y
<1>3. IndexesOK(Fill(y, data)) /\ Content(Fill(y, data)) = Content(y) \o data
  BY <1>2, FillProperties
<1>. QED
  BY <1>2, <1>3 DEF AppendData, y

\* A read from the socket adds its bytes behind the content, in the vector or by
\* way of extrabuf.
LEMMA ReadIntoBufferProperties ==
  ASSUME NEW x, IndexesOK(x), NEW data \in Seq(Bytes)
  PROVE  /\ IndexesOK(ReadIntoBuffer(x, data))
         /\ Content(ReadIntoBuffer(x, data)) = Content(x) \o data
<1>. DEFINE room  == WritableBytes(x)
            first == SubSeq(data, 1, room)
            rest  == SubSeq(data, room + 1, Len(data))
            full  == Fill(x, first)
<1>1. CASE Len(data) <= room
  BY <1>1, FillProperties DEF ReadIntoBuffer
<1>2. CASE ~(Len(data) <= room)
  <2>1. /\ room \in Nat /\ Len(data) \in Nat /\ room < Len(data)
        /\ Content(x) \in Seq(Bytes)
    <3>1. /\ x.read \in Nat /\ x.write \in Nat /\ x.cells \in Seq(Bytes)
          /\ x.read <= x.write /\ x.write <= Len(x.cells) /\ Len(x.cells) \in Nat
      BY LenProperties DEF IndexesOK
    <3>2. Content(x) \in Seq(Bytes)
      BY <3>1, Slice DEF Content
    <3>. QED BY <1>2, <3>1, <3>2, LenProperties DEF WritableBytes
  <2>. HIDE DEF room
  <2>2. /\ first \in Seq(Bytes) /\ Len(first) = room
        /\ \A i \in 1 .. room : first[i] = data[i]
    <3>1. /\ SubSeq(data, 0 + 1, room) \in Seq(Bytes)
          /\ Len(SubSeq(data, 0 + 1, room)) = room - 0
          /\ \A i \in 1 .. room - 0 : SubSeq(data, 0 + 1, room)[i] = data[0 + i]
      BY <2>1, Slice, 0 \in Nat
    <3>2. 0 + 1 = 1 /\ room - 0 = room /\ \A i \in 1 .. room : 0 + i = i
      BY <2>1
    <3>. QED BY <3>1, <3>2
  <2>3. /\ rest \in Seq(Bytes) /\ Len(rest) = Len(data) - room
        /\ \A i \in 1 .. Len(data) - room : rest[i] = data[room + i]
    BY <2>1, Slice
  <2>. HIDE DEF first, rest
  <2>4. first \o rest = data
    <3>1. /\ first \o rest \in Seq(Bytes) /\ Len(first \o rest) = Len(first) + Len(rest)
          /\ \A i \in 1 .. Len(first) + Len(rest) :
                (first \o rest)[i] = IF i <= Len(first) THEN first[i]
                                                       ELSE rest[i - Len(first)]
      BY <2>2, <2>3, ConcatProperties
    <3>2. Len(first \o rest) = Len(data) /\ Len(first) + Len(rest) = Len(data)
      BY <2>1, <2>2, <2>3, <3>1
    <3>3. ASSUME NEW i \in 1 .. Len(data) PROVE (first \o rest)[i] = data[i]
      <4>1. CASE i <= room
        BY <2>1, <2>2, <3>1, <3>2, <4>1
      <4>2. CASE ~(i <= room)
        <5>1. i - room \in 1 .. Len(data) - room /\ room + (i - room) = i
          BY <2>1, <4>2
        <5>2. rest[i - room] = data[room + (i - room)]
          BY <2>3, <5>1
        <5>. QED BY <2>2, <3>1, <3>2, <4>2, <5>1, <5>2
      <4>. QED BY <4>1, <4>2
    <3>. QED BY <3>1, <3>2, <3>3, SeqEqual
  <2>5. /\ IndexesOK(full)
        /\ Content(full) = Content(x) \o first
    BY <2>1, <2>2, FillProperties DEF room
  <2>. HIDE DEF full
  <2>6. /\ IndexesOK(AppendData(full, rest))
        /\ Content(AppendData(full, rest)) = (Content(x) \o first) \o rest
    BY <2>3, <2>5, AppendDataProperties
  <2>7. (Content(x) \o first) \o rest = Content(x) \o (first \o rest)
    <3>. DEFINE old == Content(x)
    <3>1. old \in Seq(Bytes) /\ first \in Seq(Bytes) /\ rest \in Seq(Bytes)
      BY <2>1, <2>2, <2>3
    <3>. HIDE DEF old
    <3>2. (old \o first) \o rest = old \o (first \o rest)
      BY <3>1, ConcatAssociative
    <3>. QED BY <3>2 DEF old
  <2>8. ReadIntoBuffer(x, data) = AppendData(full, rest)
    BY <1>2 DEF ReadIntoBuffer, full, first, rest, room
  <2>. QED BY <2>4, <2>6, <2>7, <2>8
<1>. QED
  BY <1>1, <1>2

\* What clearReadIndex(len) drops is the beginning of the content.
LEMMA ClearReadIndexProperties ==
  ASSUME NEW x, IndexesOK(x), NEW len \in Nat
  PROVE  LET gone == SubSeq(Content(x), 1, AtMost(len, ReadableBytes(x)))
         IN  /\ IndexesOK(ClearReadIndex(x, len))
             /\ gone \in Seq(Bytes)
             /\ Content(x) = gone \o Content(ClearReadIndex(x, len))
<1>. DEFINE k == x.write - x.read
            all == Content(x)
            y == ClearReadIndex(x, len)
<1>1. /\ x \in [read : Nat, write : Nat, cells : Seq(Bytes)]
      /\ x.read \in Nat /\ x.write \in Nat /\ x.cells \in Seq(Bytes)
      /\ x.read <= x.write /\ x.write <= Len(x.cells)
      /\ Len(x.cells) \in Nat /\ k \in Nat
  BY LenProperties DEF IndexesOK
<1>2. /\ all \in Seq(Bytes) /\ Len(all) = k
      /\ \A i \in 1 .. k : all[i] = x.cells[x.read + i]
  BY <1>1, Slice DEF Content
<1>3. SubSeq(all, 1, k) = all
  BY <1>2, SubSeqFull
<1>4. CASE len < ReadableBytes(x)
  <2>1. len < k /\ AtMost(len, ReadableBytes(x)) = len
    BY <1>1, <1>4 DEF ReadableBytes, AtMost
  <2>2. y = [x EXCEPT !.read = x.read + len]
    BY <1>4 DEF ClearReadIndex
  <2>3. /\ y.read = x.read + len /\ y.write = x.write /\ y.cells = x.cells
        /\ y \in [read : Nat, write : Nat, cells : Seq(Bytes)]
    <3>1. x.read + len \in Nat
      BY <1>1
    <3>. HIDE DEF y
    <3>. QED BY <1>1, <2>2, <3>1
  <2>. HIDE DEF y
  <2>4. IndexesOK(y)
    BY <1>1, <2>1, <2>3 DEF IndexesOK
  <2>5. SubSeq(all, len + 1, k) = Content(y)
    <3>. DEFINE left == SubSeq(all, len + 1, k)
    <3>1. /\ left \in Seq(Bytes) /\ Len(left) = k - len
          /\ \A i \in 1 .. k - len : left[i] = all[len + i]
      <4>. HIDE DEF all, k
      <4>. QED BY <1>1, <1>2, <2>1, Slice
    <3>2. /\ Content(y) \in Seq(Bytes) /\ Len(Content(y)) = x.write - (x.read + len)
          /\ \A i \in 1 .. x.write - (x.read + len) :
                Content(y)[i] = x.cells[(x.read + len) + i]
      <4>. DEFINE start == x.read + len
                  cells == x.cells
                  w == x.write
      <4>1. /\ start \in Nat /\ w \in Nat /\ start <= w
            /\ cells \in Seq(Bytes) /\ w <= Len(cells)
        BY <1>1, <2>1
      <4>2. Content(y) = SubSeq(cells, start + 1, w)
        BY <2>3 DEF Content
      <4>. HIDE DEF start, cells, w
      <4>3. /\ SubSeq(cells, start + 1, w) \in Seq(Bytes)
            /\ Len(SubSeq(cells, start + 1, w)) = w - start
            /\ \A i \in 1 .. w - start : SubSeq(cells, start + 1, w)[i] = cells[start + i]
        BY <4>1, Slice
      <4>. QED BY <4>2, <4>3 DEF start, cells, w
    <3>. HIDE DEF left
    <3>3. ASSUME NEW i \in 1 .. k - len PROVE left[i] = Content(y)[i]
      <4>1. /\ len + i \in 1 .. k /\ x.read + (len + i) = (x.read + len) + i
            /\ i \in 1 .. x.write - (x.read + len)
        BY <1>1, <2>1
      <4>2. left[i] = all[len + i] /\ all[len + i] = x.cells[x.read + (len + i)]
        BY <1>2, <3>1, <4>1
      <4>. QED BY <3>2, <4>1, <4>2
    <3>4. x.write - (x.read + len) = k - len
      BY <1>1
    <3>5. left = Content(y)
      BY <3>1, <3>2, <3>3, <3>4, SeqEqual
    <3>. QED BY <3>5 DEF left
  <2>6. SubSeq(all, 1, len) \o SubSeq(all, len + 1, k) = SubSeq(all, 1, k)
    <3>1. /\ 1 \in 1 .. Len(all) + 1
          /\ len \in 1 - 1 .. Len(all)
          /\ k \in len .. Len(all)
      BY <1>1, <1>2, <2>1
    <3>. HIDE DEF all, k
    <3>. QED BY <1>2, <3>1, ConcatAdjacentSubSeq
  <2>7. SubSeq(all, 1, len) \in Seq(Bytes)
    <3>1. SubSeq(all, 0 + 1, len) \in Seq(Bytes)
      <4>. HIDE DEF all, k
      <4>. QED BY <1>1, <1>2, <2>1, Slice, 0 \in Nat
    <3>. QED BY <3>1, 0 + 1 = 1
  <2>. QED
    BY <1>3, <2>1, <2>4, <2>5, <2>6, <2>7 DEF y
<1>5. CASE ~(len < ReadableBytes(x))
  <2>1. AtMost(len, ReadableBytes(x)) = k
    BY <1>1, <1>5 DEF ReadableBytes, AtMost
  <2>2. y = [x EXCEPT !.read = 0, !.write = 0]
    BY <1>5 DEF ClearReadIndex, ResetIndex
  <2>3. /\ y.read = 0 /\ y.write = 0 /\ y.cells = x.cells
        /\ y \in [read : Nat, write : Nat, cells : Seq(Bytes)]
    <3>. HIDE DEF y
    <3>. QED BY <1>1, <2>2
  <2>. HIDE DEF y
  <2>4. IndexesOK(y)
    BY <1>1, <2>3 DEF IndexesOK
  <2>5. Content(y) = <<>>
    BY <2>3, SubSeqEmpty, 0 + 1 \in Int, 0 \in Int, 0 < 0 + 1 DEF Content
  <2>6. all \o <<>> = all
    BY <1>2, ConcatEmptySeq
  <2>. QED
    BY <1>2, <1>3, <2>1, <2>4, <2>5, <2>6 DEF y
<1>. QED
  BY <1>4, <1>5

-------------------------------------------------------------------------------
(* The state machine.                                                      *)

USE BufferAssumption

\* What an action may append is a sequence of bytes.
LEMMA InputsAreSequences == Inputs \subseteq Seq(Bytes)
  BY FunctionIsSeq DEF Inputs

\* A new Buffer is empty, with both of its indexes 0.
LEMMA BufferInit == Init => TypeOK /\ Queue!Init
<1>. SUFFICES ASSUME Init PROVE TypeOK /\ Queue!Init
  OBVIOUS
<1>. DEFINE zeros == [i \in 1 .. InitSize |-> Zero]
<1>1. zeros \in Seq(Bytes) /\ Len(zeros) = InitSize
  <2>1. zeros \in [1 .. InitSize -> Bytes]
    OBVIOUS
  <2>. HIDE DEF zeros
  <2>. QED BY <2>1, FunctionIsSeq
<1>2. /\ DOMAIN buf = Buffers
      /\ \A b \in Buffers : buf[b] = [read |-> 0, write |-> 0, cells |-> zeros]
  BY DEF Init
<1>. HIDE DEF zeros
<1>3. ASSUME NEW b \in Buffers
      PROVE  /\ buf[b] \in [read : Nat, write : Nat, cells : Seq(Bytes)]
             /\ buf[b].read = 0 /\ buf[b].write = 0 /\ buf[b].cells = zeros
  <2>1. buf[b] = [read |-> 0, write |-> 0, cells |-> zeros]
    BY <1>2
  <2>2. [read |-> 0, write |-> 0, cells |-> zeros]
           \in [read : Nat, write : Nat, cells : Seq(Bytes)]
    BY <1>1
  <2>. QED BY <2>1, <2>2
<1>4. ASSUME NEW b \in Buffers PROVE IndexesOK(buf[b])
  <2>1. 0 <= Len(zeros)
    BY <1>1
  <2>. QED BY <1>3, <2>1 DEF IndexesOK
<1>5. \A b \in Buffers : Content(buf[b]) = <<>>
  BY <1>3, SubSeqEmpty, 0 + 1 \in Int, 0 \in Int, 0 < 0 + 1 DEF Content
<1>6. <<>> \in Seq(Bytes)
  BY EmptySeq
<1>7. TypeOK
  BY <1>2, <1>4, <1>6 DEF TypeOK, Init
<1>8. Queue!Init
  BY <1>5, <1>6 DEF Queue!Init, Queue!Moves, Init
<1>. QED
  BY <1>7, <1>8

\* A step that puts a new value, and what it was given, in one buffer.
LEMMA PutStep ==
  ASSUME TypeOK, NEW b \in Buffers, NEW data \in Seq(Bytes), NEW x, IndexesOK(x),
         Content(x) = Content(buf[b]) \o data, Put(b, x, data)
  PROVE  TypeOK' /\ Queue!Next
<1>1. /\ buf' = [buf EXCEPT ![b] = x]
      /\ moved' = [op |-> "put", at |-> b, bytes |-> data]
      /\ up' = up
  BY DEF Put, Move
<1>2. DOMAIN buf = Buffers /\ \A c \in Buffers : IndexesOK(buf[c])
  BY DEF TypeOK
<1>3. buf'[b] = x /\ \A c \in Buffers \ {b} : buf'[c] = buf[c]
  BY <1>1, <1>2
<1>4. DOMAIN buf' = Buffers /\ \A c \in Buffers : IndexesOK(buf'[c])
  BY <1>1, <1>2, <1>3
<1>5. moved' \in Queue!Moves /\ moved'.op = "put" /\ moved'.at = b /\ moved'.bytes = data
  BY <1>1 DEF Queue!Moves
<1>6. TypeOK'
  BY <1>1, <1>4, <1>5 DEF TypeOK, Queue!Moves
<1>7. Queue!Put(b)
  <2>1. [c \in Buffers |-> Content(buf'[c])] =
           [[c \in Buffers |-> Content(buf[c])] EXCEPT ![b] = @ \o data]
    BY <1>3
  <2>. QED BY <1>5, <2>1 DEF Queue!Put
<1>. QED
  BY <1>5, <1>6, <1>7 DEF Queue!Next

\* A step that takes bytes from the beginning of one buffer.
LEMMA TakeStep ==
  ASSUME TypeOK, NEW b \in Buffers, NEW len \in Nat, ReadAsString(b, len)
  PROVE  TypeOK' /\ Queue!Next
<1>. DEFINE x == ClearReadIndex(buf[b], len)
            gone == SubSeq(Content(buf[b]), 1, AtMost(len, ReadableBytes(buf[b])))
<1>1. /\ buf' = [buf EXCEPT ![b] = x]
      /\ moved' = [op |-> "take", at |-> b, bytes |-> gone]
      /\ up' = up
  BY DEF ReadAsString, Move
<1>2. DOMAIN buf = Buffers /\ \A c \in Buffers : IndexesOK(buf[c])
  BY DEF TypeOK
<1>3. IndexesOK(x) /\ gone \in Seq(Bytes) /\ Content(buf[b]) = gone \o Content(x)
  BY <1>2, ClearReadIndexProperties
<1>. HIDE DEF x, gone
<1>4. buf'[b] = x /\ \A c \in Buffers \ {b} : buf'[c] = buf[c]
  BY <1>1, <1>2
<1>5. DOMAIN buf' = Buffers /\ \A c \in Buffers : IndexesOK(buf'[c])
  BY <1>1, <1>2, <1>3, <1>4
<1>6. moved' \in Queue!Moves /\ moved'.op = "take" /\ moved'.at = b /\ moved'.bytes = gone
  BY <1>1, <1>3 DEF Queue!Moves
<1>7. TypeOK'
  BY <1>1, <1>5, <1>6 DEF TypeOK, Queue!Moves
<1>8. Queue!Take(b)
  <2>. DEFINE before == [c \in Buffers |-> Content(buf[c])]
              after  == [c \in Buffers |-> Content(buf'[c])]
  <2>1. after = [before EXCEPT ![b] = after[b]]
    BY <1>4
  <2>2. before[b] = gone \o after[b]
    BY <1>3, <1>4
  <2>. QED BY <1>6, <2>1, <2>2 DEF Queue!Take
<1>. QED
  BY <1>6, <1>7, <1>8 DEF Queue!Next

\* A step that exchanges two buffers.
LEMMA SwapStep ==
  ASSUME TypeOK, NEW a \in Buffers, NEW b \in Buffers, Swap(a, b)
  PROVE  TypeOK' /\ Queue!Next
<1>1. /\ buf' = [buf EXCEPT ![a] = buf[b], ![b] = buf[a]]
      /\ moved' = [op |-> "swap", at |-> a, bytes |-> <<>>]
      /\ up' = up
  BY DEF Swap, Move
<1>2. DOMAIN buf = Buffers /\ \A c \in Buffers : IndexesOK(buf[c])
  BY DEF TypeOK
<1>3. /\ buf'[b] = buf[a] /\ buf'[a] = buf[b]
      /\ \A c \in Buffers \ {a, b} : buf'[c] = buf[c]
  BY <1>1, <1>2
<1>4. DOMAIN buf' = Buffers /\ \A c \in Buffers : IndexesOK(buf'[c])
  BY <1>1, <1>2, <1>3
<1>5. moved' \in Queue!Moves /\ moved'.op = "swap"
  BY <1>1, EmptySeq DEF Queue!Moves
<1>6. TypeOK'
  BY <1>1, <1>4, <1>5 DEF TypeOK, Queue!Moves
<1>7. Queue!Swap(a, b)
  <2>1. [c \in Buffers |-> Content(buf'[c])] =
           [[c \in Buffers |-> Content(buf[c])] EXCEPT ![a] = Content(buf[b]),
                                                       ![b] = Content(buf[a])]
    BY <1>3
  <2>. QED BY <1>5, <2>1 DEF Queue!Swap
<1>. QED
  BY <1>5, <1>6, <1>7 DEF Queue!Next

\* Making room in one buffer changes no content.
LEMMA ReserveStep ==
  ASSUME TypeOK, NEW b \in Buffers, NEW len \in Nat, Reserve(b, len)
  PROVE  TypeOK' /\ UNCHANGED Queue!queueVars
<1>. DEFINE x == EnsureWriteableBytes(buf[b], len)
<1>1. buf' = [buf EXCEPT ![b] = x] /\ moved' = moved /\ up' = up
  BY DEF Reserve
<1>2. DOMAIN buf = Buffers /\ \A c \in Buffers : IndexesOK(buf[c])
  BY DEF TypeOK
<1>3. IndexesOK(x) /\ Content(x) = Content(buf[b])
  BY <1>2, EnsureWriteableBytesProperties
<1>. HIDE DEF x
<1>4. buf'[b] = x /\ \A c \in Buffers \ {b} : buf'[c] = buf[c]
  BY <1>1, <1>2
<1>5. DOMAIN buf' = Buffers /\ \A c \in Buffers : IndexesOK(buf'[c])
  BY <1>1, <1>2, <1>3, <1>4
<1>6. \A c \in Buffers : Content(buf'[c]) = Content(buf[c])
  BY <1>3, <1>4
<1>. QED
  BY <1>1, <1>5, <1>6 DEF TypeOK, Queue!queueVars

\* Every method keeps the indexes in order and is a step of the queue.
LEMMA BufferStep == TypeOK /\ [Next]_vars => TypeOK' /\ [Queue!Next]_(Queue!queueVars)
<1>. SUFFICES ASSUME TypeOK, [Next]_vars
              PROVE  TypeOK' /\ [Queue!Next]_(Queue!queueVars)
  OBVIOUS
<1>1. ASSUME NEW b \in Buffers, NEW data \in Inputs, AppendTo(b, data)
      PROVE  TypeOK' /\ Queue!Next
  <2>1. data \in Seq(Bytes) /\ IndexesOK(buf[b])
    BY InputsAreSequences DEF TypeOK
  <2>. QED BY <1>1, <2>1, AppendDataProperties, PutStep DEF AppendTo
<1>2. ASSUME NEW b \in Buffers, NEW data \in Inputs, ReadFromIO(b, data)
      PROVE  TypeOK' /\ Queue!Next
  <2>1. data \in Seq(Bytes) /\ IndexesOK(buf[b])
    BY InputsAreSequences DEF TypeOK
  <2>. QED BY <1>2, <2>1, ReadIntoBufferProperties, PutStep DEF ReadFromIO
<1>3. ASSUME NEW b \in Buffers, NEW n \in 0 .. MaxSize, ReadAsString(b, n)
      PROVE  TypeOK' /\ Queue!Next
  BY <1>3, TakeStep
<1>4. ASSUME NEW b \in Buffers, NEW n \in 0 .. MaxSize, RetrieveUntil(b, n)
      PROVE  TypeOK' /\ Queue!Next
  <2>1. buf[b].read \in Nat
    BY DEF TypeOK, IndexesOK
  <2>2. n - buf[b].read \in Nat
    BY <1>4, <2>1 DEF RetrieveUntil
  <2>. QED BY <1>4, <2>2, TakeStep DEF RetrieveUntil
<1>5. ASSUME NEW a \in Buffers, NEW b \in Buffers, Swap(a, b)
      PROVE  TypeOK' /\ Queue!Next
  BY <1>5, SwapStep
<1>6. ASSUME NEW b \in Buffers, NEW n \in 0 .. MaxSize, Reserve(b, n)
      PROVE  TypeOK' /\ UNCHANGED Queue!queueVars
  BY <1>6, ReserveStep
<1>7. CASE UNCHANGED vars
  <2>1. buf' = buf /\ moved' = moved /\ up' = up
    BY <1>7 DEF vars
  <2>. QED BY <2>1 DEF TypeOK, Queue!queueVars
<1>. QED
  BY <1>1, <1>2, <1>3, <1>4, <1>5, <1>6, <1>7 DEF Next

\* The indexes stay ordered within the vector and return to 0 whenever the buffer
\* empties, for any sizes.
THEOREM IndexesInOrder == Spec => []TypeOK
<1>1. Init => TypeOK
  BY BufferInit
<1>2. TypeOK /\ [Next]_vars => TypeOK'
  BY BufferStep
<1>. QED
  BY <1>1, <1>2, PTL DEF Spec

\* Whatever mixture of reads into the vector, reads that overflow into extrabuf,
\* appends and partial retrievals happens, the bytes come out in order, once each.
THEOREM ImplementsByteQueue == Spec => ByteQueueSpec
<1>1. Init => Queue!Init
  BY BufferInit
<1>2. TypeOK /\ [Next]_vars => [Queue!Next]_(Queue!queueVars)
  BY BufferStep
<1>. QED
  BY <1>1, <1>2, IndexesInOrder, PTL DEF Spec, ByteQueueSpec, Queue!Spec
===============================================================================
