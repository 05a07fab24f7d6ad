---------------------------- MODULE ServiceProofs ----------------------------
(***************************************************************************)
(* The programs on top of a TcpServer for any number of clients, requests  *)
(* of any length and reads of any size: nobody loses an echo, only clients *)
(* that misuse the sudoku program end it, and the others get exactly the   *)
(* answers to their requests.                                              *)
(***************************************************************************)
EXTENDS Service, SequenceTheorems, TLAPS

-------------------------------------------------------------------------------
(* The parts of a string.                                                  *)

\* A sequence is its first n elements followed by the others.
LEMMA SplitAt ==
  ASSUME NEW S, NEW s \in Seq(S), NEW n \in 0 .. Len(s)
  PROVE  /\ SubSeq(s, 1, n) \in Seq(S) /\ Len(SubSeq(s, 1, n)) = n
         /\ SubSeq(s, n + 1, Len(s)) \in Seq(S)
         /\ Len(SubSeq(s, n + 1, Len(s))) = Len(s) - n
         /\ SubSeq(s, 1, n) \o SubSeq(s, n + 1, Len(s)) = s
<1>. DEFINE a == SubSeq(s, 1, n)
            b == SubSeq(s, n + 1, Len(s))
<1>1. Len(s) \in Nat /\ n \in Nat /\ n <= Len(s)
  BY LenProperties
<1>2. \A i \in 1 .. Len(s) : s[i] \in S
  BY ElementOfSeq
<1>3. a \in Seq(S) /\ Len(a) = IF 1 <= n THEN n - 1 + 1 ELSE 0
  <2>1. \A i \in 1 .. n : s[i] \in S
    BY <1>1, <1>2
  <2>. QED BY <1>1, <2>1, SubSeqProperties, 1 \in Int, n \in Int
<1>4. /\ b \in Seq(S)
      /\ Len(b) = IF n + 1 <= Len(s) THEN Len(s) - (n + 1) + 1 ELSE 0
  <2>1. \A i \in n + 1 .. Len(s) : s[i] \in S
    BY <1>1, <1>2
  <2>. QED BY <1>1, <2>1, SubSeqProperties, n + 1 \in Int, Len(s) \in Int
<1>5. a \o b = SubSeq(s, 1, Len(s))
  <2>1. 1 \in 1 .. Len(s) + 1 /\ n \in 1 - 1 .. Len(s) /\ Len(s) \in n .. Len(s)
    BY <1>1
  <2>. QED BY <2>1, ConcatAdjacentSubSeq
<1>6. SubSeq(s, 1, Len(s)) = s
  BY SubSeqFull
<1>. HIDE DEF a, b
<1>7. Len(a) = n /\ Len(b) = Len(s) - n
  <2>. DEFINE l == Len(s)
              la == Len(a)
              lb == Len(b)
  <2>1. /\ l \in Nat /\ n \in Nat /\ n <= l
        /\ la = IF 1 <= n THEN n - 1 + 1 ELSE 0
        /\ lb = IF n + 1 <= l THEN l - (n + 1) + 1 ELSE 0
    BY <1>1, <1>3, <1>4
  <2>. HIDE DEF l, la, lb
  <2>2. la = n /\ lb = l - n
    BY <2>1
  <2>. QED BY <2>2 DEF l, la, lb
<1>. QED
  BY <1>3, <1>4, <1>5, <1>6, <1>7 DEF a, b

-------------------------------------------------------------------------------
(* Multiples.                                                              *)

LEMMA TimesBounds ==
    ASSUME NEW L \in Nat \ {0}, NEW a \in Nat, NEW b \in Nat, a < b
    PROVE  a * L + L <= b * L
<1>1. b - (a + 1) \in Nat
  OBVIOUS
<1>2. \A x \in Nat : x * L >= 0
  BY SMT
<1>3. (b - (a + 1)) * L = b * L - a * L - L
  BY SMT
<1>4. (b - (a + 1)) * L >= 0
  BY <1>1, <1>2
<1>5. a * L \in Nat /\ b * L \in Nat
  BY SMT
<1> QED  BY <1>3, <1>4, <1>5, SMT

LEMMA QuotientUnique ==
    ASSUME NEW L \in Nat \ {0}, NEW q \in Nat, NEW d \in Nat, NEW r \in 0 .. L - 1,
           NEW m \in 0 .. L - 1, q * L + r = d * L + m
    PROVE  q = d /\ r = m
<1>1. q * L \in Nat /\ d * L \in Nat
  BY SMT
<1>2. ~(q < d)
  <2>1. q < d => q * L + L <= d * L
    BY TimesBounds
  <2> QED  BY <2>1, <1>1, SMT
<1>3. ~(d < q)
  <2>1. d < q => d * L + L <= q * L
    BY TimesBounds
  <2> QED  BY <2>1, <1>1, SMT
<1> QED  BY <1>1, <1>2, <1>3, SMT

LEMMA Division ==
    ASSUME NEW L \in Nat \ {0}, NEW n \in Nat
    PROVE  /\ n \div L \in Nat /\ n % L \in 0 .. L - 1
           /\ n = (n \div L) * L + (n % L)
<1>1. n \div L \in Int /\ n % L \in 0 .. L - 1 /\ n = L * (n \div L) + (n % L)
  BY SMT
<1>2. n \div L \in Nat
  BY <1>1, SMT
<1>3. L * (n \div L) = (n \div L) * L
  BY <1>2, SMT
<1> QED  BY <1>1, <1>2, <1>3

LEMMA DivMod ==
    ASSUME NEW L \in Nat \ {0}, NEW q \in Nat, NEW r \in 0 .. L - 1
    PROVE  (q * L + r) \div L = q /\ (q * L + r) % L = r
<1> DEFINE n == q * L + r
<1>1. n \in Nat
  BY SMT
<1> HIDE DEF n
<1>2. /\ n \div L \in Nat /\ n % L \in 0 .. L - 1
      /\ n = (n \div L) * L + (n % L)
  BY <1>1, Division
<1>3. q * L + r = (n \div L) * L + (n % L)
  BY <1>2 DEF n
<1>4. q = n \div L /\ r = n % L
  BY <1>2, <1>3, QuotientUnique
<1> QED  BY <1>4 DEF n

\* Between a multiple of L and the next one there is no other.
LEMMA NextMultiple ==
    ASSUME NEW L \in Nat \ {0}, NEW k \in Nat, NEW n \in Nat,
           k * L < n, n <= k * L + L, n % L = 0
    PROVE  n = k * L + L
<1> SUFFICES ASSUME n # k * L + L PROVE FALSE
  OBVIOUS
<1>1. k * L \in Nat
  BY SMT
<1> DEFINE r == n - k * L
<1>2. r \in 0 .. L - 1 /\ r # 0 /\ n = k * L + r
  BY <1>1, SMT
<1> HIDE DEF r
<1>3. (k * L + r) % L = r
  BY <1>2, DivMod
<1> QED  BY <1>2, <1>3

LEMMA MoreTimes ==
    ASSUME NEW L \in Nat \ {0}, NEW k \in Nat
    PROVE  (k + 1) * L = k * L + L /\ k * L \in Nat /\ (k + 1) * L \in Nat
BY SMT

-------------------------------------------------------------------------------
(* Streams of bytes.                                                       *)

Elem == Nat \cup (Seq(Nat) \X Nat)

LEMMA BytesSeq ==
    ASSUME NEW m \in Nat, NEW n \in Nat, m <= n
    PROVE  /\ Bytes(m, n) \in Seq(Nat) /\ Len(Bytes(m, n)) = n - m
           /\ \A i \in 1 .. n - m : Bytes(m, n)[i] = m + i
<1>1. n - m \in Nat /\ \A i \in 1 .. n - m : m + i \in Nat
  OBVIOUS
<1> QED  BY <1>1 DEF Bytes

LEMMA Regroup == \A s, t, u \in Seq(Elem) : (s \o t) \o u = s \o (t \o u)
BY ConcatAssociative

LEMMA SeqOfElem == \A s \in Seq(Nat) : s \in Seq(Elem)
BY DEF Elem

LEMMA RequestSeq ==
    ASSUME NEW k \in Nat
    PROVE  /\ Request(k + 1) \in Seq(Nat)
           /\ Request(k + 1) = Bytes(k * RequestLen, k * RequestLen + RequestLen)
<1>1. RequestLen \in Nat \ {0}
  BY ServiceAssumption
<1>2. /\ (k + 1) * RequestLen = k * RequestLen + RequestLen
      /\ k * RequestLen \in Nat /\ (k + 1) * RequestLen \in Nat
  BY <1>1, MoreTimes
<1>3. (k + 1) - 1 = k
  OBVIOUS
<1>4. Request(k + 1) = Bytes(k * RequestLen, k * RequestLen + RequestLen)
  BY <1>2, <1>3 DEF Request
<1>5. k * RequestLen + RequestLen \in Nat /\ k * RequestLen <= k * RequestLen + RequestLen
  BY <1>1, <1>2
<1> QED  BY <1>2, <1>4, <1>5, BytesSeq

LEMMA SolutionSeq ==
    ASSUME NEW s \in Seq(Nat)
    PROVE  /\ Solution(s) \in Seq(Elem) /\ Len(Solution(s)) = ReplyLen
           /\ \A i \in 1 .. ReplyLen : Solution(s)[i] = <<s, i>>
<1>1. ReplyLen \in Nat
  BY ServiceAssumption
<1>2. \A i \in 1 .. ReplyLen : <<s, i>> \in Elem
  BY DEF Elem
<1> QED  BY <1>1, <1>2 DEF Solution

\* Byte i of the answer to request k + 1.
LEMMA SolutionByteAt ==
    ASSUME NEW k \in Nat, NEW i \in 1 .. ReplyLen
    PROVE  SolutionByte(k * ReplyLen + i) = Solution(Request(k + 1))[i]
<1>1. ReplyLen \in Nat \ {0}
  BY ServiceAssumption
<1>2. i - 1 \in 0 .. ReplyLen - 1 /\ (i - 1) + 1 = i
  BY <1>1
<1>3. k * ReplyLen \in Nat
  BY <1>1, SMT
<1>4. (k * ReplyLen + i) - 1 = k * ReplyLen + (i - 1)
  BY <1>1, <1>3
<1>5. /\ (k * ReplyLen + (i - 1)) \div ReplyLen = k
      /\ (k * ReplyLen + (i - 1)) % ReplyLen = i - 1
  BY <1>1, <1>2, DivMod
<1> QED  BY <1>2, <1>4, <1>5 DEF SolutionByte

\* Byte i of what a client is owed.
AnswerByte(i) == IF program = "sudoku" THEN SolutionByte(i) ELSE i

LEMMA AnswerLenType == program \in Programs => AnswerLen \in Nat \ {0}
BY ServiceAssumption DEF AnswerLen

LEMMA PromisedBytes ==
    ASSUME program \in Programs, NEW n \in Nat
    PROVE  /\ Promised(n) \in Seq(Elem) /\ Len(Promised(n)) = n * AnswerLen
           /\ \A i \in 1 .. n * AnswerLen : Promised(n)[i] = AnswerByte(i)
<1>1. n * AnswerLen \in Nat
  BY AnswerLenType, SMT
<1>2. CASE program = "sudoku"
  <2>1. ReplyLen \in Nat \ {0} /\ AnswerLen = ReplyLen
    BY <1>2, ServiceAssumption DEF AnswerLen
  <2>2. \A i \in 1 .. n * ReplyLen : SolutionByte(i) \in Elem
    <3> DEFINE m == n * ReplyLen
    <3>0. m \in Nat
      BY <1>1, <2>1
    <3> HIDE DEF m
    <3> SUFFICES ASSUME NEW i \in 1 .. m PROVE SolutionByte(i) \in Elem
      BY DEF m
    <3> DEFINE q == (i - 1) \div ReplyLen
               r == (i - 1) % ReplyLen
    <3>1. i - 1 \in Nat
      BY <3>0
    <3>2. q \in Nat /\ r \in 0 .. ReplyLen - 1
      BY <2>1, <3>1, Division
    <3> HIDE DEF q, r
    <3>3. Request(q + 1) \in Seq(Nat)
      BY <3>2, RequestSeq
    <3>4. r + 1 \in 1 .. ReplyLen
      BY <2>1, <3>2
    <3>5. Solution(Request(q + 1))[r + 1] \in Elem
      BY <3>3, <3>4, SolutionSeq DEF Elem
    <3> QED  BY <3>5 DEF q, r, SolutionByte
  <2> QED  BY <1>1, <1>2, <2>1, <2>2 DEF Promised, AnswerByte
<1>3. CASE program = "echo"
  <2>1. AnswerLen = RequestLen
    BY <1>3 DEF AnswerLen
  <2>2. /\ Bytes(0, n * RequestLen) \in Seq(Nat) /\ Len(Bytes(0, n * RequestLen)) = n * RequestLen
        /\ \A i \in 1 .. n * RequestLen : Bytes(0, n * RequestLen)[i] = i
    <3> DEFINE e == n * RequestLen
    <3>1. e \in Nat
      BY <1>1, <2>1
    <3> HIDE DEF e
    <3>2. e - 0 = e /\ 0 <= e /\ \A i \in 1 .. e : 0 + i = i
      BY <3>1
    <3>3. /\ Bytes(0, e) \in Seq(Nat) /\ Len(Bytes(0, e)) = e
          /\ \A i \in 1 .. e : Bytes(0, e)[i] = i
      BY <3>1, <3>2, BytesSeq
    <3> QED  BY <3>3 DEF e
  <2>3. Promised(n) = Bytes(0, n * RequestLen)
    BY <1>3 DEF Promised
  <2>4. \A i : AnswerByte(i) = i
    BY <1>3 DEF AnswerByte
  <2> QED  BY <2>1, <2>2, <2>3, <2>4, SeqOfElem
<1> QED  BY <1>2, <1>3 DEF Programs

-------------------------------------------------------------------------------
(* The inductive invariant.                                                *)

\* Everything a client was sent, in order, what it has read first.
OnTheWay(c) == got[c] \o transit[c]

Right(s) == \A i \in 1 .. Len(s) : s[i] = AnswerByte(i)

\* readBuf is empty between the events: nothing is read before the callbacks are set.
Types ==
    /\ program \in Programs /\ kind \in [Clients -> Kinds]
    /\ phase \in [Clients -> Phases] /\ fin \in [Clients -> BOOLEAN]
    /\ sent \in [Clients -> 0 .. MaxSent]
    /\ arrived \in [Clients -> Nat] /\ taken \in [Clients -> Nat]
    /\ \A c \in Clients : taken[c] <= arrived[c] /\ arrived[c] <= sent[c]
    /\ readBuf = [c \in Clients |-> <<>>]
    /\ transit \in [Clients -> Seq(Elem)] /\ got \in [Clients -> Seq(Elem)]
    /\ open \in [Clients -> BOOLEAN] /\ up \in BOOLEAN

SentWhole(c) == \E j \in Nat : sent[c] = j * RequestLen

Ordered(c) == program = "echo" \/ Good(c) => Right(OnTheWay(c))

EchoLength(c) == program = "echo" /\ open[c] => Len(OnTheWay(c)) = taken[c]

\* A client that waits has at most one request that is not answered, and a network
\* that splits none brings it whole.
AtRequest(c, k) ==
    /\ taken[c] = k * RequestLen
    /\ sent[c] = k * RequestLen \/ sent[c] = k * RequestLen + RequestLen
    /\ arrived[c] = k * RequestLen \/ arrived[c] = sent[c]
    /\ Len(OnTheWay(c)) <= k * AnswerLen
    /\ open[c] => Len(OnTheWay(c)) = k * AnswerLen

OneAtATime(c) == Good(c) => \E k \in Nat : AtRequest(c, k)

ClientInv(c) == SentWhole(c) /\ Ordered(c) /\ EchoLength(c) /\ OneAtATime(c)

IInv == Types /\ (\A c \in Clients : ClientInv(c)) /\ Survives

-------------------------------------------------------------------------------
(* What happens to the bytes of one client.                                *)

LEMMA OnTheWaySeq ==
    ASSUME Types, NEW c \in Clients
    PROVE  /\ OnTheWay(c) \in Seq(Elem) /\ Len(OnTheWay(c)) \in Nat
           /\ Len(OnTheWay(c)) = Len(got[c]) + Len(transit[c])
           /\ Len(got[c]) \in Nat /\ Len(transit[c]) \in Nat
<1>1. got[c] \in Seq(Elem) /\ transit[c] \in Seq(Elem)
  BY DEF Types
<1>2. Len(got[c]) \in Nat /\ Len(transit[c]) \in Nat
  BY <1>1, LenProperties
<1>3. /\ got[c] \o transit[c] \in Seq(Elem)
      /\ Len(got[c] \o transit[c]) = Len(got[c]) + Len(transit[c])
  BY <1>1, ConcatProperties
<1>4. OnTheWay(c) = got[c] \o transit[c]
  BY DEF OnTheWay
<1>5. Len(got[c]) + Len(transit[c]) \in Nat
  <2>1. \A m, n \in Nat : m + n \in Nat
    OBVIOUS
  <2> QED  BY <1>2, <2>1
<1> QED  BY <1>2, <1>3, <1>4, <1>5

\* The front of right bytes is right.
LEMMA FrontRight ==
    ASSUME NEW s \in Seq(Elem), NEW t \in Seq(Elem), Right(s \o t)
    PROVE  Right(s) /\ Len(s) <= Len(s \o t)
<1>1. Len(s) \in Nat /\ Len(t) \in Nat /\ Len(s \o t) = Len(s) + Len(t)
  BY LenProperties, ConcatProperties
<1>2. \A i \in 1 .. Len(s) : (s \o t)[i] = s[i] /\ i \in 1 .. Len(s \o t)
  <2> SUFFICES ASSUME NEW i \in 1 .. Len(s) PROVE (s \o t)[i] = s[i] /\ i \in 1 .. Len(s \o t)
    OBVIOUS
  <2>1. i \in 1 .. Len(s) + Len(t) /\ i <= Len(s)
    BY <1>1
  <2> QED  BY <1>1, <2>1, ConcatProperties
<1> QED  BY <1>1, <1>2 DEF Right

\* Right bytes and those that are next make right bytes.
LEMMA RightGrows ==
    ASSUME NEW s \in Seq(Elem), NEW t \in Seq(Elem), Right(s),
           \A i \in 1 .. Len(t) : t[i] = AnswerByte(Len(s) + i)
    PROVE  Right(s \o t)
<1>1. Len(s) \in Nat /\ Len(t) \in Nat /\ Len(s \o t) = Len(s) + Len(t)
  BY LenProperties, ConcatProperties
<1> SUFFICES ASSUME NEW i \in 1 .. Len(s) + Len(t) PROVE (s \o t)[i] = AnswerByte(i)
  BY <1>1 DEF Right
<1>2. (s \o t)[i] = IF i <= Len(s) THEN s[i] ELSE t[i - Len(s)]
  BY ConcatProperties
<1>3. CASE i <= Len(s)
  BY <1>1, <1>2, <1>3 DEF Right
<1>4. CASE ~(i <= Len(s))
  <2>1. i - Len(s) \in 1 .. Len(t) /\ Len(s) + (i - Len(s)) = i
    BY <1>1, <1>4
  <2>2. t[i - Len(s)] = AnswerByte(i)
    BY <2>1
  <2> QED  BY <1>2, <1>4, <2>2
<1> QED  BY <1>3, <1>4

\* A client whose counters and bytes stay, and whose connection is no more open than
\* before, keeps its part of the invariant.
LEMMA Kept ==
    ASSUME NEW c \in Clients, ClientInv(c),
           program' = program, kind' = kind, sent'[c] = sent[c],
           arrived'[c] = arrived[c], taken'[c] = taken[c],
           OnTheWay(c)' = OnTheWay(c), open'[c] => open[c]
    PROVE  ClientInv(c)'
<1>1. SentWhole(c)'
  BY DEF ClientInv, SentWhole
<1>2. Good(c)' = Good(c) /\ AnswerLen' = AnswerLen /\ \A i : AnswerByte(i)' = AnswerByte(i)
  BY DEF Good, AnswerLen, AnswerByte, SolutionByte, Solution, Request, Bytes
<1>3. Ordered(c)'
  BY <1>2 DEF ClientInv, Ordered, Right
<1>4. EchoLength(c)'
  BY DEF ClientInv, EchoLength
<1>5. OneAtATime(c)'
  <2> SUFFICES ASSUME Good(c) PROVE \E k \in Nat : AtRequest(c, k)'
    BY <1>2 DEF OneAtATime
  <2>1. PICK k \in Nat : AtRequest(c, k)
    BY DEF ClientInv, OneAtATime
  <2>2. AtRequest(c, k)'
    BY <1>2, <2>1 DEF AtRequest
  <2> QED  BY <2>2
<1> QED  BY <1>1, <1>3, <1>4, <1>5 DEF ClientInv

-------------------------------------------------------------------------------
(* The pipe.                                                               *)

\* A cut leaves a client the front of what it would have got.
LEMMA CutKeeps ==
    ASSUME IInv, NEW c \in Clients, Out!Cut(c), program' = program, kind' = kind,
           UNCHANGED <<sent, arrived, taken>>
    PROVE  /\ transit' \in [Clients -> Seq(Elem)] /\ open' \in [Clients -> BOOLEAN]
           /\ \A d \in Clients : ClientInv(d)'
<1>1. Types /\ \A d \in Clients : ClientInv(d)
  BY DEF IInv
<1>2. transit \in [Clients -> Seq(Elem)] /\ got \in [Clients -> Seq(Elem)]
      /\ open \in [Clients -> BOOLEAN]
  BY <1>1 DEF Types
<1>3. PICK n \in 0 .. Len(transit[c]) :
         transit' = [transit EXCEPT ![c] = SubSeq(@, 1, n)]
  BY DEF Out!Cut
<1>4. open' = [open EXCEPT ![c] = FALSE] /\ got' = got
  BY DEF Out!Cut
<1> DEFINE a == SubSeq(transit[c], 1, n)
           b == SubSeq(transit[c], n + 1, Len(transit[c]))
<1>5. a \in Seq(Elem) /\ b \in Seq(Elem) /\ a \o b = transit[c]
  BY <1>2, SplitAt
<1>6. transit'[c] = a /\ ~open'[c]
  BY <1>2, <1>3, <1>4
<1> HIDE DEF a, b
<1>7. transit' \in [Clients -> Seq(Elem)] /\ open' \in [Clients -> BOOLEAN]
  BY <1>2, <1>3, <1>4, <1>5 DEF a
<1>8. OnTheWay(c)' = got[c] \o a /\ OnTheWay(c) = got[c] \o a \o b
  <2>1. OnTheWay(c)' = got[c] \o a
    BY <1>4, <1>6 DEF OnTheWay
  <2>2. (got[c] \o a) \o b = got[c] \o (a \o b)
    <3>1. got[c] \in Seq(Elem) /\ a \in Seq(Elem) /\ b \in Seq(Elem)
      BY <1>2, <1>5
    <3> QED  BY <3>1, Regroup, Zenon
  <2> QED  BY <1>5, <2>1, <2>2 DEF OnTheWay
<1>9. ClientInv(c)'
  <2> DEFINE s == got[c] \o a
  <2>1. s \in Seq(Elem) /\ OnTheWay(c) = s \o b /\ OnTheWay(c)' = s
    BY <1>2, <1>5, <1>8, ConcatProperties
  <2> HIDE DEF s
  <2>2. ClientInv(c)
    BY <1>1
  <2>3. Good(c)' = Good(c) /\ AnswerLen' = AnswerLen /\ \A i : AnswerByte(i)' = AnswerByte(i)
    BY DEF Good, AnswerLen, AnswerByte, SolutionByte, Solution, Request, Bytes
  <2>4. Ordered(c)'
    <3> SUFFICES ASSUME program = "echo" \/ Good(c) PROVE Right(OnTheWay(c))'
      BY <2>3 DEF Ordered
    <3>1. Right(s \o b)
      BY <2>1, <2>2 DEF ClientInv, Ordered
    <3>2. Right(s)
      BY <1>5, <2>1, <3>1, FrontRight
    <3> QED  BY <2>1, <2>3, <3>2 DEF Right
  <2>5. OneAtATime(c)'
    <3> SUFFICES ASSUME Good(c) PROVE \E k \in Nat : AtRequest(c, k)'
      BY <2>3 DEF OneAtATime
    <3>1. PICK k \in Nat : AtRequest(c, k)
      BY <2>2 DEF ClientInv, OneAtATime
    <3>2. Len(s) <= Len(s \o b) /\ Len(s) \in Nat /\ Len(s \o b) \in Nat
      <4>1. Len(s) \in Nat /\ Len(b) \in Nat /\ Len(s \o b) = Len(s) + Len(b)
        BY <1>5, <2>1, LenProperties, ConcatProperties
      <4> QED  BY <4>1
    <3>3. k * AnswerLen \in Nat
      BY <1>1, AnswerLenType, MoreTimes DEF Types
    <3>4. Len(s) <= k * AnswerLen
      BY <2>1, <3>1, <3>2, <3>3 DEF AtRequest
    <3>5. AtRequest(c, k)'
      BY <1>6, <2>1, <2>3, <3>1, <3>4 DEF AtRequest
    <3> QED  BY <3>5
  <2>6. SentWhole(c)' /\ EchoLength(c)'
    BY <1>6, <2>2 DEF ClientInv, SentWhole, EchoLength
  <2> QED  BY <2>4, <2>5, <2>6 DEF ClientInv
<1>10. ASSUME NEW d \in Clients, d # c PROVE ClientInv(d)'
  <2>1. transit'[d] = transit[d] /\ open'[d] = open[d] /\ got' = got
    BY <1>2, <1>3, <1>4, <1>10
  <2>2. OnTheWay(d)' = OnTheWay(d)
    BY <2>1 DEF OnTheWay
  <2> QED  BY <1>1, <2>1, <2>2, Kept
<1> QED  BY <1>7, <1>9, <1>10

\* A delivery moves bytes and changes none.
LEMMA DeliverKeeps ==
    ASSUME IInv, NEW c \in Clients, Out!Deliver(c), program' = program, kind' = kind,
           UNCHANGED <<sent, arrived, taken>>
    PROVE  /\ transit' \in [Clients -> Seq(Elem)] /\ got' \in [Clients -> Seq(Elem)]
           /\ open' = open
           /\ \A d \in Clients : OnTheWay(d)' = OnTheWay(d)
           /\ \A d \in Clients : ClientInv(d)'
<1>1. Types /\ \A d \in Clients : ClientInv(d)
  BY DEF IInv
<1>2. transit \in [Clients -> Seq(Elem)] /\ got \in [Clients -> Seq(Elem)]
  BY <1>1 DEF Types
<1>3. PICK n \in 1 .. Len(transit[c]) :
         /\ got' = [got EXCEPT ![c] = @ \o SubSeq(transit[c], 1, n)]
         /\ transit' = [transit EXCEPT ![c] = SubSeq(@, n + 1, Len(@))]
  BY DEF Out!Deliver
<1>4. open' = open
  BY DEF Out!Deliver
<1> DEFINE a == SubSeq(transit[c], 1, n)
           b == SubSeq(transit[c], n + 1, Len(transit[c]))
<1>5. a \in Seq(Elem) /\ b \in Seq(Elem) /\ a \o b = transit[c]
  <2>1. n \in 0 .. Len(transit[c])
    OBVIOUS
  <2> QED  BY <1>2, <2>1, SplitAt
<1>6. got'[c] = got[c] \o a /\ transit'[c] = b
  BY <1>2, <1>3
<1>7. /\ got' = [got EXCEPT ![c] = @ \o a]
      /\ transit' = [transit EXCEPT ![c] = b]
  BY <1>2, <1>3
<1> HIDE DEF a, b
<1>8. got[c] \o a \in Seq(Elem)
  BY <1>2, <1>5, ConcatProperties
<1>9. transit' \in [Clients -> Seq(Elem)] /\ got' \in [Clients -> Seq(Elem)]
  BY <1>2, <1>5, <1>7, <1>8
<1>10. ASSUME NEW d \in Clients PROVE OnTheWay(d)' = OnTheWay(d)
  <2>1. CASE d = c
    <3>1. (got[c] \o a) \o b = got[c] \o (a \o b)
      <4>1. got[c] \in Seq(Elem) /\ a \in Seq(Elem) /\ b \in Seq(Elem)
        BY <1>2, <1>5
      <4> QED  BY <4>1, Regroup, Zenon
    <3> QED  BY <1>5, <1>6, <2>1, <3>1 DEF OnTheWay
  <2>2. CASE d # c
    <3>1. transit'[d] = transit[d] /\ got'[d] = got[d]
      BY <1>2, <1>7, <2>2
    <3> QED  BY <3>1 DEF OnTheWay
  <2> QED  BY <2>1, <2>2
<1>11. ASSUME NEW d \in Clients PROVE ClientInv(d)'
  BY <1>1, <1>4, <1>10, Kept
<1> QED  BY <1>4, <1>9, <1>10, <1>11

\* What is written follows what was, if the connection is open.
LEMMA WriteAppends ==
    ASSUME Types, NEW c \in Clients, NEW bytes \in Seq(Elem), Write(c, bytes)
    PROVE  /\ transit' \in [Clients -> Seq(Elem)] /\ got' = got /\ open' = open
           /\ OnTheWay(c)' = IF open[c] THEN OnTheWay(c) \o bytes ELSE OnTheWay(c)
           /\ \A d \in Clients \ {c} : OnTheWay(d)' = OnTheWay(d)
<1>1. transit \in [Clients -> Seq(Elem)] /\ got \in [Clients -> Seq(Elem)]
  BY DEF Types
<1>2. got' = got /\ open' = open
  BY DEF Write
<1>3. transit' = [transit EXCEPT ![c] = IF open[c] THEN @ \o bytes ELSE @]
  BY DEF Write
<1>4. transit[c] \o bytes \in Seq(Elem)
  BY <1>1, ConcatProperties
<1>5. transit' \in [Clients -> Seq(Elem)]
  BY <1>1, <1>3, <1>4
<1>6. \A d \in Clients \ {c} : OnTheWay(d)' = OnTheWay(d)
  BY <1>1, <1>2, <1>3 DEF OnTheWay
<1>7. CASE open[c]
  <2>1. transit'[c] = transit[c] \o bytes
    BY <1>1, <1>3, <1>7
  <2>2. got[c] \in Seq(Elem) /\ transit[c] \in Seq(Elem)
    BY <1>1
  <2>3. (got[c] \o transit[c]) \o bytes = got[c] \o (transit[c] \o bytes)
    BY <2>2, Regroup, Zenon
  <2>4. OnTheWay(c)' = OnTheWay(c) \o bytes
    BY <1>2, <2>1, <2>3 DEF OnTheWay
  <2> QED  BY <1>2, <1>5, <1>6, <1>7, <2>4
<1>8. CASE ~open[c]
  <2>1. transit'[c] = transit[c]
    BY <1>1, <1>3, <1>8
  <2>2. OnTheWay(c)' = OnTheWay(c)
    BY <1>2, <2>1 DEF OnTheWay
  <2> QED  BY <1>2, <1>5, <1>6, <1>8, <2>2
<1> QED  BY <1>7, <1>8

-------------------------------------------------------------------------------
(* One read.                                                               *)

\* The callbacks are set before input is asked for, so a read goes to OnMessage, and
\* with an empty readBuf it is all that is handed over.
LEMMA ReadHandsOver ==
    ASSUME Types, NEW c \in Clients, ReadEvent(c)
    PROVE  \E n \in ReadSizes(c) :
              /\ taken' = [taken EXCEPT ![c] = @ + n]
              /\ OnMessage(c, Bytes(taken[c], taken[c] + n))
              /\ n \in Nat /\ n >= 1 /\ taken[c] + n <= arrived[c]
              /\ n = Available(c) \/ n >= ReadMax
<1>1. PICK n \in ReadSizes(c) :
          /\ taken' = [taken EXCEPT ![c] = @ + n]
          /\ LET data == readBuf[c] \o Bytes(taken[c], taken[c] + n)
             IN  IF MessageCallbackSet(c)
                 THEN OnMessage(c, data)
                 ELSE readBuf' = [readBuf EXCEPT ![c] = data] /\ UNCHANGED <<outVars, up>>
  BY DEF ReadEvent
<1>2. MessageCallbackSet(c)
  BY DEF ReadEvent, Reading, MessageCallbackSet
<1>3. taken[c] \in Nat /\ arrived[c] \in Nat /\ readBuf[c] = <<>>
  BY DEF Types
<1>4. n \in Nat /\ n >= 1 /\ n <= arrived[c] - taken[c] /\ (n = Available(c) \/ n >= ReadMax)
  BY <1>3 DEF ReadSizes, Available
<1>5. taken[c] + n <= arrived[c] /\ taken[c] + n \in Nat /\ taken[c] <= taken[c] + n
  BY <1>3, <1>4
<1>6. Bytes(taken[c], taken[c] + n) \in Seq(Nat)
  BY <1>3, <1>5, BytesSeq
<1>7. readBuf[c] \o Bytes(taken[c], taken[c] + n) = Bytes(taken[c], taken[c] + n)
  BY <1>3, <1>6, ConcatEmptySeq
<1>8. OnMessage(c, Bytes(taken[c], taken[c] + n))
  BY <1>1, <1>2, <1>7
<1> QED  BY <1>1, <1>4, <1>5, <1>8

\* A client that waits, with a network that splits nothing, is read a request at a time.
LEMMA ReadsWholeRequest ==
    ASSUME Types, NEW c \in Clients, NEW k \in Nat, AtRequest(c, k),
           NEW n \in Nat, n >= 1, taken[c] + n <= arrived[c],
           n = Available(c) \/ n >= ReadMax
    PROVE  /\ n = RequestLen
           /\ arrived[c] = k * RequestLen + RequestLen
           /\ sent[c] = k * RequestLen + RequestLen
           /\ Bytes(taken[c], taken[c] + n) = Request(k + 1)
<1>1. RequestLen \in Nat \ {0} /\ ReadMax \in Nat /\ RequestLen <= ReadMax
  BY ServiceAssumption
<1> DEFINE m == k * RequestLen
<1>2. m \in Nat
  BY <1>1, MoreTimes
<1>3. /\ taken[c] = m /\ (sent[c] = m \/ sent[c] = m + RequestLen)
      /\ arrived[c] = m \/ arrived[c] = sent[c]
  BY DEF AtRequest
<1>4. Request(k + 1) = Bytes(m, m + RequestLen)
  BY RequestSeq
<1> HIDE DEF m
<1>5. arrived[c] = m + RequestLen /\ sent[c] = m + RequestLen
  BY <1>1, <1>2, <1>3
<1>6. n = RequestLen
  BY <1>1, <1>2, <1>3, <1>5 DEF Available
<1> QED  BY <1>3, <1>4, <1>5, <1>6 DEF m

\* The echo program, whoever the client is.
LEMMA EchoKeeps ==
    ASSUME Types, NEW c \in Clients, ClientInv(c), program = "echo",
           NEW n \in Nat, n >= 1, taken[c] + n <= arrived[c],
           n = Available(c) \/ n >= ReadMax,
           Write(c, Bytes(taken[c], taken[c] + n)),
           taken'[c] = taken[c] + n, program' = program, kind' = kind,
           UNCHANGED <<sent, arrived>>
    PROVE  ClientInv(c)'
<1> DEFINE bytes == Bytes(taken[c], taken[c] + n)
<1>1. taken[c] \in Nat /\ taken[c] + n \in Nat /\ taken[c] <= taken[c] + n
      /\ (taken[c] + n) - taken[c] = n
  BY DEF Types
<1>2. /\ bytes \in Seq(Elem) /\ Len(bytes) = n
      /\ \A i \in 1 .. n : bytes[i] = taken[c] + i
  BY <1>1, BytesSeq, SeqOfElem
<1>3. Good(c)' = Good(c) /\ AnswerLen' = AnswerLen /\ AnswerLen = RequestLen
  BY DEF Good, AnswerLen
<1>4. \A i : AnswerByte(i) = i /\ AnswerByte(i)' = i
  BY DEF AnswerByte
<1>5. /\ Write(c, bytes)
      /\ OnTheWay(c) \in Seq(Elem) /\ Len(OnTheWay(c)) \in Nat
  BY OnTheWaySeq
<1> HIDE DEF bytes
<1>6. open' = open /\ OnTheWay(c)' = IF open[c] THEN OnTheWay(c) \o bytes ELSE OnTheWay(c)
  BY <1>2, <1>5, WriteAppends
<1>7. Right(OnTheWay(c)) /\ (open[c] => Len(OnTheWay(c)) = taken[c])
  BY DEF ClientInv, Ordered, EchoLength
<1>8. open[c] => Right(OnTheWay(c) \o bytes) /\ Len(OnTheWay(c) \o bytes) = taken[c] + n
  <2> SUFFICES ASSUME open[c]
               PROVE Right(OnTheWay(c) \o bytes) /\ Len(OnTheWay(c) \o bytes) = taken[c] + n
    OBVIOUS
  <2>1. \A i \in 1 .. Len(bytes) : bytes[i] = AnswerByte(Len(OnTheWay(c)) + i)
    BY <1>2, <1>4, <1>7
  <2>2. Right(OnTheWay(c) \o bytes)
    BY <1>2, <1>5, <1>7, <2>1, RightGrows
  <2>3. Len(OnTheWay(c) \o bytes) = Len(OnTheWay(c)) + Len(bytes)
    BY <1>2, <1>5, ConcatProperties
  <2> QED  BY <1>2, <1>7, <2>2, <2>3
<1>9. Ordered(c)'
  BY <1>4, <1>6, <1>7, <1>8 DEF Ordered, Right
<1>10. EchoLength(c)'
  BY <1>6, <1>8 DEF EchoLength
<1>11. SentWhole(c)'
  BY DEF ClientInv, SentWhole
<1>12. OneAtATime(c)'
  <2> SUFFICES ASSUME Good(c) PROVE \E k \in Nat : AtRequest(c, k)'
    BY <1>3 DEF OneAtATime
  <2>1. PICK k \in Nat : AtRequest(c, k)
    BY DEF ClientInv, OneAtATime
  <2>2. /\ n = RequestLen /\ arrived[c] = k * RequestLen + RequestLen
        /\ sent[c] = k * RequestLen + RequestLen
    BY <2>1, ReadsWholeRequest
  <2>3. (k + 1) * RequestLen = k * RequestLen + RequestLen /\ k * RequestLen \in Nat
        /\ RequestLen \in Nat
    BY ServiceAssumption, MoreTimes
  <2>4. taken[c] = k * RequestLen /\ Len(OnTheWay(c)) <= k * RequestLen
    BY <1>3, <2>1 DEF AtRequest
  <2> DEFINE m == k * RequestLen
             l == Len(OnTheWay(c))
  <2>5. l <= m + RequestLen
    <3>1. l \in Nat /\ m \in Nat /\ RequestLen \in Nat /\ l <= m
      BY <1>5, <2>3, <2>4
    <3> HIDE DEF l, m
    <3> QED  BY <3>1
  <2>6. open'[c] => Len(OnTheWay(c))' = m + RequestLen
    BY <1>6, <1>8, <2>2, <2>4
  <2>7. Len(OnTheWay(c))' <= m + RequestLen
    <3>1. m + RequestLen <= m + RequestLen
      BY <2>3
    <3> QED  BY <1>6, <2>5, <2>6, <3>1
  <2>8. taken'[c] = m + RequestLen /\ arrived'[c] = m + RequestLen /\ sent'[c] = m + RequestLen
    BY <2>2, <2>4
  <2> HIDE DEF m, l
  <2>9. (k + 1) * RequestLen = m + RequestLen /\ (k + 1) * AnswerLen' = m + RequestLen
    BY <1>3, <2>3 DEF m
  <2>10. AtRequest(c, k + 1)'
    BY <2>6, <2>7, <2>8, <2>9 DEF AtRequest
  <2> QED  BY <2>10
<1> QED  BY <1>9, <1>10, <1>11, <1>12 DEF ClientInv

\* The sudoku program with a request that is long enough.
LEMMA AnswerKeeps ==
    ASSUME Types, NEW c \in Clients, ClientInv(c), program = "sudoku",
           NEW n \in Nat, n >= 1, taken[c] + n <= arrived[c],
           n = Available(c) \/ n >= ReadMax,
           LongEnough(Bytes(taken[c], taken[c] + n)),
           Write(c, Solution(SubSeq(Bytes(taken[c], taken[c] + n), 1, RequestLen))),
           taken'[c] = taken[c] + n, program' = program, kind' = kind,
           UNCHANGED <<sent, arrived>>
    PROVE  ClientInv(c)'
<1>1. Good(c)' = Good(c) /\ AnswerLen' = AnswerLen /\ AnswerLen = ReplyLen
      /\ \A i : AnswerByte(i)' = AnswerByte(i) /\ AnswerByte(i) = SolutionByte(i)
  BY DEF Good, AnswerLen, AnswerByte, SolutionByte, Solution, Request, Bytes
<1>2. SentWhole(c)' /\ EchoLength(c)'
  BY DEF ClientInv, SentWhole, EchoLength
<1>3. CASE ~Good(c)
  BY <1>1, <1>2, <1>3 DEF ClientInv, Ordered, OneAtATime
<1>4. CASE Good(c)
  <2>1. PICK k \in Nat : AtRequest(c, k)
    BY <1>4 DEF ClientInv, OneAtATime
  <2>2. /\ n = RequestLen /\ arrived[c] = k * RequestLen + RequestLen
        /\ sent[c] = k * RequestLen + RequestLen
        /\ Bytes(taken[c], taken[c] + n) = Request(k + 1)
    BY <2>1, ReadsWholeRequest
  <2>3. RequestLen \in Nat \ {0} /\ ReplyLen \in Nat \ {0}
    BY ServiceAssumption
  <2>4. (k + 1) * RequestLen = k * RequestLen + RequestLen /\ k * RequestLen \in Nat
    BY <2>3, MoreTimes
  <2>5. (k + 1) * ReplyLen = k * ReplyLen + ReplyLen /\ k * ReplyLen \in Nat
    BY <2>3, MoreTimes
  <2> DEFINE data == Request(k + 1)
             bytes == Solution(data)
  <2>6. data \in Seq(Nat) /\ Len(data) = RequestLen
    <3> DEFINE p == k * RequestLen
    <3>1. data = Bytes(p, p + RequestLen)
      BY RequestSeq
    <3> HIDE DEF data
    <3>2. p \in Nat /\ RequestLen \in Nat
      BY <2>3, <2>4
    <3> HIDE DEF p
    <3>3. p + RequestLen \in Nat /\ p <= p + RequestLen /\ (p + RequestLen) - p = RequestLen
      BY <3>2
    <3> QED  BY <3>1, <3>2, <3>3, BytesSeq
  <2>7. SubSeq(data, 1, RequestLen) = data
    BY <2>6, SubSeqFull
  <2>8. Write(c, bytes)
    BY <2>2, <2>7
  <2> HIDE DEF data
  <2>9. /\ bytes \in Seq(Elem) /\ Len(bytes) = ReplyLen
        /\ \A i \in 1 .. ReplyLen : bytes[i] = SolutionByte(k * ReplyLen + i)
    BY <2>6, SolutionSeq, SolutionByteAt DEF data
  <2> HIDE DEF bytes
  <2>10. OnTheWay(c) \in Seq(Elem) /\ Len(OnTheWay(c)) \in Nat
    BY OnTheWaySeq
  <2>11. open' = open /\ OnTheWay(c)' = IF open[c] THEN OnTheWay(c) \o bytes ELSE OnTheWay(c)
    BY <2>8, <2>9, WriteAppends
  <2>12. Right(OnTheWay(c))
    BY <1>4 DEF ClientInv, Ordered
  <2>13. /\ taken[c] = k * RequestLen /\ Len(OnTheWay(c)) <= k * ReplyLen
         /\ open[c] => Len(OnTheWay(c)) = k * ReplyLen
    BY <1>1, <2>1 DEF AtRequest
  <2>14. open[c] => Right(OnTheWay(c) \o bytes)
                    /\ Len(OnTheWay(c) \o bytes) = k * ReplyLen + ReplyLen
    <3> SUFFICES ASSUME open[c]
                 PROVE  /\ Right(OnTheWay(c) \o bytes)
                        /\ Len(OnTheWay(c) \o bytes) = k * ReplyLen + ReplyLen
      OBVIOUS
    <3>1. \A i \in 1 .. Len(bytes) : bytes[i] = AnswerByte(Len(OnTheWay(c)) + i)
      BY <1>1, <2>9, <2>13
    <3>2. Len(OnTheWay(c) \o bytes) = Len(OnTheWay(c)) + Len(bytes)
      <4>1. bytes \in Seq(Elem) /\ OnTheWay(c) \in Seq(Elem)
        BY <2>9, <2>10
      <4> QED  BY <4>1, ConcatProperties
    <3> QED  BY <2>9, <2>10, <2>12, <2>13, <3>1, <3>2, RightGrows
  <2>15. Right(OnTheWay(c))'
    BY <1>1, <2>11, <2>12, <2>14 DEF Right
  <2> DEFINE m == k * RequestLen
             a == k * ReplyLen
             l == Len(OnTheWay(c))
  <2>16. l <= a + ReplyLen
    <3>1. l \in Nat /\ a \in Nat /\ ReplyLen \in Nat /\ l <= a
      BY <2>3, <2>5, <2>10, <2>13
    <3> HIDE DEF l, a
    <3> QED  BY <3>1
  <2>17. open'[c] => Len(OnTheWay(c))' = a + ReplyLen
    BY <2>11, <2>14
  <2>18. Len(OnTheWay(c))' <= a + ReplyLen
    <3>1. a + ReplyLen <= a + ReplyLen
      BY <2>3, <2>5
    <3> QED  BY <2>11, <2>16, <2>17, <3>1
  <2>19. taken'[c] = m + RequestLen /\ arrived'[c] = m + RequestLen /\ sent'[c] = m + RequestLen
    BY <2>2, <2>13
  <2> HIDE DEF m, a, l
  <2>20. (k + 1) * RequestLen = m + RequestLen /\ (k + 1) * AnswerLen' = a + ReplyLen
    BY <1>1, <2>4, <2>5 DEF m, a
  <2>21. AtRequest(c, k + 1)'
    BY <2>17, <2>18, <2>19, <2>20 DEF AtRequest
  <2>22. OneAtATime(c)'
    BY <2>21 DEF OneAtATime
  <2> QED  BY <1>2, <2>15, <2>22 DEF ClientInv, Ordered
<1> QED  BY <1>3, <1>4

\* A read keeps the invariant; it ends the process only if the client misuses the
\* sudoku program.
LEMMA ReadKeeps ==
    ASSUME IInv, NEW c \in Clients, ReadEvent(c)
    PROVE  IInv'
<1>1. Types /\ \A d \in Clients : ClientInv(d)
  BY DEF IInv
<1>2. PICK n \in ReadSizes(c) :
          /\ taken' = [taken EXCEPT ![c] = @ + n]
          /\ OnMessage(c, Bytes(taken[c], taken[c] + n))
          /\ n \in Nat /\ n >= 1 /\ taken[c] + n <= arrived[c]
          /\ n = Available(c) \/ n >= ReadMax
  BY <1>1, ReadHandsOver
<1> DEFINE data == Bytes(taken[c], taken[c] + n)
<1>3. UNCHANGED <<program, kind, sent, fin, phase, arrived>> /\ up
  BY DEF ReadEvent, clientVars
<1>4. taken[c] \in Nat /\ taken[c] + n \in Nat /\ taken[c] <= taken[c] + n
  BY <1>1, <1>2 DEF Types
<1>5. data \in Seq(Nat) /\ data \in Seq(Elem) /\ Len(data) = n
  <2>1. data \in Seq(Nat) /\ Len(data) = (taken[c] + n) - taken[c]
    BY <1>4, BytesSeq
  <2>2. (taken[c] + n) - taken[c] = n
    BY <1>2, <1>4
  <2> QED  BY <2>1, <2>2, SeqOfElem
<1>6. /\ taken' \in [Clients -> Nat] /\ taken'[c] = taken[c] + n
      /\ \A d \in Clients \ {c} : taken'[d] = taken[d]
      /\ \A d \in Clients : taken'[d] <= arrived'[d] /\ arrived'[d] <= sent'[d]
  BY <1>1, <1>2, <1>3, <1>4 DEF Types
<1>7. readBuf' = [d \in Clients |-> <<>>]
  BY <1>1, <1>2 DEF Types, OnMessage, ReadAllAsString
<1>8. ASSUME NEW bytes \in Seq(Elem), Write(c, bytes), UNCHANGED up, ClientInv(c)'
      PROVE  IInv'
  <2>1. /\ transit' \in [Clients -> Seq(Elem)] /\ got' = got /\ open' = open
        /\ \A d \in Clients \ {c} : OnTheWay(d)' = OnTheWay(d)
    BY <1>1, <1>8, WriteAppends
  <2>2. Types'
    BY <1>1, <1>3, <1>6, <1>7, <1>8, <2>1 DEF Types
  <2>3. \A d \in Clients \ {c} : ClientInv(d)'
    BY <1>1, <1>3, <1>6, <2>1, Kept
  <2>4. Survives'
    BY <1>3, <1>8 DEF Survives
  <2> QED  BY <1>8, <2>2, <2>3, <2>4 DEF IInv
<1>9. CASE program = "echo"
  <2>1. Write(c, data) /\ UNCHANGED up
    BY <1>2, <1>9 DEF OnMessage, Echo
  <2>2. ClientInv(c)'
    BY <1>1, <1>2, <1>3, <1>6, <1>9, <2>1, EchoKeeps
  <2> QED  BY <1>5, <1>8, <2>1, <2>2
<1>10. CASE program = "sudoku" /\ LongEnough(data)
  <2> DEFINE answer == Solution(SubSeq(data, 1, RequestLen))
  <2>1. Write(c, answer) /\ UNCHANGED up
    BY <1>2, <1>10 DEF OnMessage, Sudoku
  <2>2. ClientInv(c)'
    BY <1>1, <1>2, <1>3, <1>6, <1>10, <2>1, AnswerKeeps
  <2>3. SubSeq(data, 1, RequestLen) \in Seq(Nat)
    <3>1. RequestLen \in 0 .. Len(data)
      BY <1>5, <1>10, ServiceAssumption DEF LongEnough
    <3> QED  BY <1>5, <3>1, SplitAt
  <2>4. answer \in Seq(Elem)
    BY <2>3, SolutionSeq
  <2> QED  BY <1>8, <2>1, <2>2, <2>4
<1>11. CASE program = "sudoku" /\ ~LongEnough(data)
  <2>1. Abort
    BY <1>2, <1>11 DEF OnMessage, Sudoku
  <2>2. ~Good(c)
    <3> SUFFICES ASSUME Good(c) PROVE FALSE
      OBVIOUS
    <3>1. PICK k \in Nat : AtRequest(c, k)
      BY <1>1 DEF ClientInv, OneAtATime
    <3>2. n = RequestLen
      BY <1>1, <1>2, <3>1, ReadsWholeRequest
    <3> QED  BY <1>2, <1>5, <1>11, <3>2 DEF LongEnough
  <2>3. /\ transit' = transit /\ got' = got /\ up' = FALSE
        /\ open' = [d \in Clients |-> FALSE]
    BY <2>1 DEF Abort
  <2>4. Types'
    BY <1>1, <1>3, <1>6, <1>7, <2>3 DEF Types
  <2>5. \A d \in Clients \ {c} : ClientInv(d)'
    <3> SUFFICES ASSUME NEW d \in Clients \ {c} PROVE ClientInv(d)'
      OBVIOUS
    <3>1. OnTheWay(d)' = OnTheWay(d) /\ ~open'[d]
      BY <2>3 DEF OnTheWay
    <3> QED  BY <1>1, <1>3, <1>6, <3>1, Kept
  <2>6. ClientInv(c)'
    <3>1. ~Good(c)' /\ program' # "echo"
      BY <1>3, <1>11, <2>2 DEF Good
    <3>2. SentWhole(c)'
      BY <1>1, <1>3 DEF ClientInv, SentWhole
    <3> QED  BY <3>1, <3>2 DEF ClientInv, Ordered, EchoLength, OneAtATime
  <2>7. Survives'
    BY <1>3, <1>11, <2>2 DEF Survives, Good
  <2> QED  BY <2>4, <2>5, <2>6, <2>7 DEF IInv
<1>12. program \in Programs
  BY <1>1 DEF Types
<1> QED  BY <1>9, <1>10, <1>11, <1>12 DEF Programs

-------------------------------------------------------------------------------
(* The clients.                                                            *)

LEMMA AskedIs ==
    ASSUME NEW c \in Clients, NEW j \in Nat, sent[c] = j * RequestLen
    PROVE  Asked(c) = j
<1>1. RequestLen \in Nat \ {0} /\ 0 \in 0 .. RequestLen - 1
  BY ServiceAssumption
<1>2. j * RequestLen + 0 = j * RequestLen
  BY <1>1, MoreTimes
<1>3. (j * RequestLen + 0) \div RequestLen = j
  BY <1>1, DivMod
<1> QED  BY <1>2, <1>3 DEF Asked

\* A client that is owed nothing has read the answers to all it has sent, and nothing
\* more is on its way.
LEMMA AllAnswered ==
    ASSUME Types, NEW c \in Clients, ClientInv(c), Good(c), Answered(c)
    PROVE  \E k \in Nat : /\ AtRequest(c, k) /\ sent[c] = k * RequestLen /\ Asked(c) = k
                          /\ got[c] = Promised(k)
<1>1. PICK k \in Nat : AtRequest(c, k)
  BY DEF ClientInv, OneAtATime
<1>2. AnswerLen \in Nat \ {0} /\ program \in Programs
  BY AnswerLenType DEF Types
<1>3. /\ OnTheWay(c) \in Seq(Elem) /\ Len(OnTheWay(c)) \in Nat
      /\ Len(OnTheWay(c)) = Len(got[c]) + Len(transit[c])
      /\ Len(got[c]) \in Nat /\ Len(transit[c]) \in Nat
  BY OnTheWaySeq
<1>4. (k + 1) * RequestLen = k * RequestLen + RequestLen
  BY ServiceAssumption, MoreTimes
<1>5. Len(OnTheWay(c)) <= k * AnswerLen /\ k * AnswerLen \in Nat
      /\ (k + 1) * AnswerLen = k * AnswerLen + AnswerLen
  BY <1>1, <1>2, MoreTimes DEF AtRequest
<1>6. sent[c] = k * RequestLen
  <2> SUFFICES ASSUME sent[c] # k * RequestLen PROVE FALSE
    OBVIOUS
  <2>1. k + 1 \in Nat /\ sent[c] = (k + 1) * RequestLen
    BY <1>1, <1>4 DEF AtRequest
  <2>2. Asked(c) = k + 1
    BY <2>1, AskedIs
  <2>3. Len(got[c]) >= k * AnswerLen + AnswerLen
    BY <1>5, <2>2 DEF Answered
  <2> DEFINE a == k * AnswerLen
             g == Len(got[c])
             t == Len(transit[c])
  <2>4. g \in Nat /\ t \in Nat /\ a \in Nat /\ g + t <= a /\ g >= a + AnswerLen
    BY <1>3, <1>5, <2>3
  <2> HIDE DEF a, g, t
  <2> QED  BY <1>2, <2>4
<1>7. Asked(c) = k
  BY <1>6, AskedIs
<1>8. Len(got[c]) = k * AnswerLen /\ Len(transit[c]) = 0
  <2> DEFINE a == k * AnswerLen
             g == Len(got[c])
             t == Len(transit[c])
  <2>1. g \in Nat /\ t \in Nat /\ a \in Nat /\ g + t <= a /\ g >= a
    BY <1>3, <1>5, <1>7 DEF Answered
  <2> HIDE DEF a, g, t
  <2>2. g = a /\ t = 0
    BY <2>1
  <2> QED  BY <2>2 DEF g, a, t
<1>9. got[c] \in Seq(Elem) /\ transit[c] \in Seq(Elem)
  BY DEF Types
<1>10. OnTheWay(c) = got[c]
  <2>1. transit[c] = <<>>
    BY <1>8, <1>9, EmptySeq
  <2> QED  BY <1>9, <2>1, ConcatEmptySeq DEF OnTheWay
<1>11. got[c] = Promised(k)
  <2>1. /\ Promised(k) \in Seq(Elem) /\ Len(Promised(k)) = k * AnswerLen
        /\ \A i \in 1 .. k * AnswerLen : Promised(k)[i] = AnswerByte(i)
    BY <1>2, PromisedBytes
  <2>2. \A i \in 1 .. Len(got[c]) : got[c][i] = AnswerByte(i)
    BY <1>10 DEF ClientInv, Ordered, Right
  <2>3. Len(got[c]) = Len(Promised(k)) /\ \A i \in 1 .. Len(got[c]) : got[c][i] = Promised(k)[i]
    BY <1>8, <2>1, <2>2
  <2> QED  BY <1>9, <2>1, <2>3, SeqEqual
<1> QED  BY <1>1, <1>6, <1>7, <1>11

LEMMA SendKeeps ==
    ASSUME IInv, NEW c \in Clients, SendRequest(c)
    PROVE  IInv'
<1>1. Types /\ \A d \in Clients : ClientInv(d)
  BY DEF IInv
<1>2. UNCHANGED <<program, kind, fin, phase, arrived, taken, readBuf, transit, got, open, up>>
      /\ sent' = [sent EXCEPT ![c] = @ + RequestLen]
  BY DEF SendRequest, outVars
<1>3. PICK j \in Nat : sent[c] = j * RequestLen
  BY <1>1 DEF ClientInv, SentWhole
<1>4. RequestLen \in Nat \ {0} /\ MaxRequests \in Nat
  BY ServiceAssumption
<1>5. (j + 1) * RequestLen = j * RequestLen + RequestLen /\ j * RequestLen \in Nat
      /\ MaxSent \in Nat
  BY <1>4, MoreTimes DEF MaxSent
<1>6. sent'[c] = (j + 1) * RequestLen
  BY <1>1, <1>2, <1>3, <1>5 DEF Types
<1>7. (j + 1) * RequestLen <= MaxSent
  <2>1. j * RequestLen < MaxRequests * RequestLen
    BY <1>3 DEF SendRequest, MaxSent
  <2>2. j < MaxRequests
    <3> SUFFICES ASSUME ~(j < MaxRequests) PROVE FALSE
      OBVIOUS
    <3>1. MaxRequests = j \/ MaxRequests < j
      BY <1>4
    <3>2. MaxRequests < j => MaxRequests * RequestLen + RequestLen <= j * RequestLen
      BY <1>4, TimesBounds
    <3>3. MaxRequests * RequestLen \in Nat
      BY <1>4, MoreTimes
    <3> DEFINE m == MaxRequests * RequestLen
               p == j * RequestLen
    <3>4. m \in Nat /\ p \in Nat /\ p < m /\ (m = p \/ m + RequestLen <= p)
      BY <1>5, <2>1, <3>1, <3>2, <3>3
    <3> HIDE DEF m, p
    <3> QED  BY <1>4, <3>4
  <2> QED  BY <1>4, <1>5, <2>2, TimesBounds DEF MaxSent
<1>8. sent' \in [Clients -> 0 .. MaxSent]
  <2>1. (j + 1) * RequestLen \in Nat
    BY <1>4, MoreTimes
  <2>2. (j + 1) * RequestLen \in 0 .. MaxSent
    BY <1>5, <1>7, <2>1
  <2>3. sent' = [sent EXCEPT ![c] = (j + 1) * RequestLen]
    BY <1>2, <1>3, <1>5
  <2> QED  BY <1>1, <2>2, <2>3 DEF Types
<1>9. \A d \in Clients : taken'[d] <= arrived'[d] /\ arrived'[d] <= sent'[d]
  <2> SUFFICES ASSUME NEW d \in Clients
               PROVE  taken'[d] <= arrived'[d] /\ arrived'[d] <= sent'[d]
    OBVIOUS
  <2>1. sent[d] \in 0 .. MaxSent /\ arrived[d] \in Nat /\ arrived[d] <= sent[d]
        /\ taken[d] <= arrived[d]
    BY <1>1 DEF Types
  <2>2. sent'[d] = sent[d] \/ sent'[d] = sent[d] + RequestLen
    BY <1>1, <1>2 DEF Types
  <2> QED  BY <1>2, <1>4, <2>1, <2>2
<1>10. Types'
  BY <1>1, <1>2, <1>8, <1>9 DEF Types
<1>11. Survives'
  BY <1>2 DEF IInv, Survives, Good
<1>12. ASSUME NEW d \in Clients, d # c PROVE ClientInv(d)'
  <2>1. sent'[d] = sent[d] /\ OnTheWay(d)' = OnTheWay(d)
    BY <1>1, <1>2, <1>12 DEF Types, OnTheWay
  <2> QED  BY <1>1, <1>2, <2>1, Kept
<1>13. ClientInv(c)'
  <2>1. Good(c)' = Good(c) /\ AnswerLen' = AnswerLen /\ (\A i : AnswerByte(i)' = AnswerByte(i))
        /\ OnTheWay(c)' = OnTheWay(c)
    BY <1>2 DEF Good, AnswerLen, AnswerByte, SolutionByte, Solution, Request, Bytes, OnTheWay
  <2>2. SentWhole(c)'
    BY <1>6 DEF SentWhole
  <2>3. Ordered(c)' /\ EchoLength(c)'
    BY <1>1, <1>2, <2>1 DEF ClientInv, Ordered, Right, EchoLength
  <2>4. OneAtATime(c)'
    <3> SUFFICES ASSUME Good(c) PROVE \E k \in Nat : AtRequest(c, k)'
      BY <2>1 DEF OneAtATime
    <3>1. Answered(c)
      BY DEF SendRequest, Good
    <3>2. PICK k \in Nat : AtRequest(c, k) /\ sent[c] = k * RequestLen
      BY <1>1, <3>1, AllAnswered
    <3>3. sent'[c] = k * RequestLen + RequestLen
      BY <1>1, <1>2, <3>2 DEF Types
    <3>4. arrived[c] = k * RequestLen
      BY <3>2 DEF AtRequest
    <3>5. AtRequest(c, k)'
      BY <1>2, <2>1, <3>2, <3>3, <3>4 DEF AtRequest
    <3> QED  BY <3>5
  <2> QED  BY <2>2, <2>3, <2>4 DEF ClientInv
<1> QED  BY <1>10, <1>11, <1>12, <1>13 DEF IInv

LEMMA ArriveKeeps ==
    ASSUME IInv, NEW c \in Clients, Arrive(c)
    PROVE  IInv'
<1>1. Types /\ \A d \in Clients : ClientInv(d)
  BY DEF IInv
<1>2. PICK n \in arrived[c] + 1 .. sent[c] :
         /\ kind[c].whole => n % RequestLen = 0
         /\ arrived' = [arrived EXCEPT ![c] = n]
  BY DEF Arrive
<1>3. UNCHANGED <<program, kind, sent, fin, phase, taken, readBuf, transit, got, open, up>>
  BY DEF Arrive, clientVars, outVars
<1>4. arrived[c] \in Nat /\ sent[c] \in Nat /\ n \in Nat /\ arrived[c] < n /\ n <= sent[c]
  BY <1>1 DEF Types, MaxSent
<1>5. arrived' \in [Clients -> Nat] /\ arrived'[c] = n
      /\ \A d \in Clients \ {c} : arrived'[d] = arrived[d]
  BY <1>1, <1>2, <1>4 DEF Types
<1>6. \A d \in Clients : taken'[d] <= arrived'[d] /\ arrived'[d] <= sent'[d]
  <2>1. taken[c] \in Nat /\ taken[c] <= arrived[c]
    BY <1>1 DEF Types
  <2>2. taken[c] <= n
    BY <1>4, <2>1
  <2> QED  BY <1>1, <1>3, <1>4, <1>5, <2>2 DEF Types
<1>7. Types'
  BY <1>1, <1>3, <1>5, <1>6 DEF Types
<1>8. Survives'
  BY <1>3 DEF IInv, Survives, Good
<1>9. ASSUME NEW d \in Clients, d # c PROVE ClientInv(d)'
  <2>1. arrived'[d] = arrived[d] /\ OnTheWay(d)' = OnTheWay(d)
    BY <1>3, <1>5, <1>9 DEF OnTheWay
  <2> QED  BY <1>1, <1>3, <2>1, Kept
<1>10. ClientInv(c)'
  <2>1. Good(c)' = Good(c) /\ AnswerLen' = AnswerLen /\ (\A i : AnswerByte(i)' = AnswerByte(i))
        /\ OnTheWay(c)' = OnTheWay(c)
    BY <1>3 DEF Good, AnswerLen, AnswerByte, SolutionByte, Solution, Request, Bytes, OnTheWay
  <2>2. SentWhole(c)' /\ Ordered(c)' /\ EchoLength(c)'
    BY <1>1, <1>3, <2>1 DEF ClientInv, SentWhole, Ordered, Right, EchoLength
  <2>3. OneAtATime(c)'
    <3> SUFFICES ASSUME Good(c) PROVE \E k \in Nat : AtRequest(c, k)'
      BY <2>1 DEF OneAtATime
    <3>1. PICK k \in Nat : AtRequest(c, k)
      BY <1>1 DEF ClientInv, OneAtATime
    <3> DEFINE m == k * RequestLen
    <3>2. m \in Nat /\ RequestLen \in Nat \ {0}
      BY ServiceAssumption, MoreTimes
    <3>3. /\ sent[c] = m \/ sent[c] = m + RequestLen
          /\ arrived[c] = m \/ arrived[c] = sent[c]
      BY <3>1 DEF AtRequest
    <3> HIDE DEF m
    <3>4. sent[c] = m + RequestLen /\ m < n /\ n <= m + RequestLen
      BY <1>4, <3>2, <3>3
    <3>5. n = m + RequestLen
      <4>1. n % RequestLen = 0
        BY <1>2 DEF Good
      <4> QED  BY <1>4, <3>2, <3>4, <4>1, NextMultiple DEF m
    <3>6. arrived'[c] = sent'[c]
      BY <1>3, <1>5, <3>4, <3>5
    <3>7. AtRequest(c, k)'
      BY <1>3, <2>1, <3>1, <3>6 DEF AtRequest
    <3> QED  BY <3>7
  <2> QED  BY <2>2, <2>3 DEF ClientInv
<1> QED  BY <1>7, <1>8, <1>9, <1>10 DEF IInv

-------------------------------------------------------------------------------
(* The other steps.                                                        *)

\* Steps that touch no bytes.
LEMMA QuietKeeps ==
    ASSUME IInv,
           UNCHANGED <<program, kind, sent, arrived, taken, readBuf, transit, got, open, up>>,
           phase' \in [Clients -> Phases], fin' \in [Clients -> BOOLEAN]
    PROVE  IInv'
<1>1. Types'
  BY DEF IInv, Types
<1>2. Survives'
  BY DEF IInv, Survives, Good
<1>3. ASSUME NEW d \in Clients PROVE ClientInv(d)'
  <2>1. OnTheWay(d)' = OnTheWay(d)
    BY DEF OnTheWay
  <2> QED  BY <2>1, Kept DEF IInv
<1> QED  BY <1>1, <1>2, <1>3 DEF IInv

\* Steps that cut a connection.
LEMMA ClosingKeeps ==
    ASSUME IInv, NEW c \in Clients, Out!Cut(c), phase' \in [Clients -> Phases],
           UNCHANGED <<clientVars, arrived, taken, readBuf, up>>
    PROVE  IInv'
<1>1. UNCHANGED <<program, kind, sent, fin, arrived, taken, readBuf, up>>
  BY DEF clientVars
<1>2. /\ transit' \in [Clients -> Seq(Elem)] /\ open' \in [Clients -> BOOLEAN]
      /\ \A d \in Clients : ClientInv(d)'
  BY <1>1, CutKeeps
<1>3. got' = got
  BY DEF Out!Cut
<1>4. Types'
  BY <1>1, <1>2, <1>3 DEF IInv, Types
<1>5. Survives'
  BY <1>1 DEF IInv, Survives, Good
<1> QED  BY <1>2, <1>4, <1>5 DEF IInv

LEMMA InitInv == Init => IInv
<1> SUFFICES ASSUME Init PROVE IInv
  OBVIOUS
<1>1. /\ transit = [c \in Clients |-> <<>>] /\ got = [c \in Clients |-> <<>>]
      /\ open = [c \in Clients |-> TRUE]
  BY DEF Init, Out!Init
<1>2. <<>> \in Seq(Elem) /\ Len(<<>>) = 0 /\ <<>> \o <<>> = <<>>
  BY EmptySeq, ConcatEmptySeq
<1>3. MaxSent \in Nat
  BY ServiceAssumption, MoreTimes DEF MaxSent
<1>4. Types
  BY <1>1, <1>2, <1>3 DEF Init, Types, Phases
<1>5. ASSUME NEW c \in Clients PROVE ClientInv(c)
  <2>1. OnTheWay(c) = <<>>
    BY <1>1, <1>2 DEF OnTheWay
  <2>2. 0 * RequestLen = 0 /\ 0 * AnswerLen = 0
    BY <1>4, ServiceAssumption, AnswerLenType DEF Types
  <2>3. sent[c] = 0 /\ arrived[c] = 0 /\ taken[c] = 0
    BY DEF Init
  <2>4. SentWhole(c) /\ EchoLength(c)
    BY <1>2, <2>1, <2>2, <2>3 DEF SentWhole, EchoLength
  <2>5. Ordered(c)
    BY <1>2, <2>1 DEF Ordered, Right
  <2>6. AtRequest(c, 0)
    BY <1>2, <2>1, <2>2, <2>3 DEF AtRequest
  <2> QED  BY <2>4, <2>5, <2>6 DEF ClientInv, OneAtATime
<1>6. Survives
  BY DEF Init, Survives
<1> QED  BY <1>4, <1>5, <1>6 DEF IInv

LEMMA NextInv == IInv /\ [Next]_vars => IInv'
<1> SUFFICES ASSUME IInv, [Next]_vars PROVE IInv'
  OBVIOUS
<1>1. phase \in [Clients -> Phases] /\ fin \in [Clients -> BOOLEAN]
  BY DEF IInv, Types
<1>2. CASE UNCHANGED vars
  BY <1>1, <1>2, QuietKeeps DEF vars, clientVars, outVars
<1> SUFFICES ASSUME Next PROVE IInv'
  BY <1>2
<1>3. PICK c \in Clients :
        \/ Client(c) \/ Arrive(c) \/ Deliver(c)
        \/ NewConnected(c) \/ LoopStep(c)
        \/ LostWithProcess(c)
  BY DEF Next
<1>4. CASE Client(c)
  <2>1. CASE SendRequest(c)
    BY <2>1, SendKeeps
  <2>2. CASE ShutsItsSide(c)
    <3>1. fin' \in [Clients -> BOOLEAN]
      BY <1>1, <2>2 DEF ShutsItsSide
    <3> QED  BY <1>1, <2>2, <3>1, QuietKeeps DEF ShutsItsSide, outVars
  <2> QED  BY <1>4, <2>1, <2>2 DEF Client
<1>5. CASE Arrive(c)
  BY <1>5, ArriveKeeps
<1>6. CASE Deliver(c)
  <2>1. /\ Out!Deliver(c)
        /\ UNCHANGED <<program, kind, sent, fin, phase, arrived, taken, readBuf, up>>
    BY <1>6 DEF Deliver, clientVars
  <2>2. /\ transit' \in [Clients -> Seq(Elem)] /\ got' \in [Clients -> Seq(Elem)]
        /\ open' = open /\ \A d \in Clients : ClientInv(d)'
    BY <2>1, DeliverKeeps
  <2>3. Types'
    BY <2>1, <2>2 DEF IInv, Types
  <2>4. Survives'
    BY <2>1 DEF IInv, Survives, Good
  <2> QED  BY <2>2, <2>3, <2>4 DEF IInv
<1>7. ASSUME NEW from \in Phases, NEW to \in Phases, Move(c, from, to) PROVE IInv'
  <2>1. phase' \in [Clients -> Phases]
    BY <1>1, <1>7 DEF Move
  <2> QED  BY <1>1, <1>7, <2>1, QuietKeeps DEF Move, clientVars, outVars
<1>8. CASE NewConnected(c)
  BY <1>7, <1>8 DEF NewConnected, Construct, SetCallbacks, Phases
<1>9. CASE LoopStep(c)
  <2>1. CASE Connected(c)
    BY <1>7, <2>1 DEF Connected, Phases
  <2>2. CASE ReadEvent(c)
    BY <2>2, ReadKeeps
  <2>3. CASE EndOfInput(c)
    <3>1. phase' \in [Clients -> Phases]
      BY <1>1, <2>3 DEF EndOfInput, Phases
    <3> QED  BY <2>3, <3>1, ClosingKeeps DEF EndOfInput
  <2>4. CASE Removed(c)
    <3>1. phase' \in [Clients -> Phases]
      BY <1>1, <2>4 DEF Removed, Phases
    <3> QED  BY <2>4, <3>1, ClosingKeeps DEF Removed
  <2> QED  BY <1>9, <2>1, <2>2, <2>3, <2>4 DEF LoopStep
<1>10. CASE LostWithProcess(c)
  BY <1>1, <1>10, ClosingKeeps DEF LostWithProcess
<1> QED  BY <1>3, <1>4, <1>5, <1>6, <1>8, <1>9, <1>10

LEMMA Invariant == Spec => []IInv
BY InitInv, NextInv, PTL DEF Spec

-------------------------------------------------------------------------------
(* The theorems.                                                           *)

\* The types: nothing is read that has not arrived, nothing arrives that was not sent.
THEOREM TypeCorrect == Spec => []TypeOK
<1>1. IInv => TypeOK
  <2> SUFFICES ASSUME Types PROVE TypeOK
    BY DEF IInv
  <2>1. MaxSent \in Nat
    BY ServiceAssumption, MoreTimes DEF MaxSent
  <2>2. ASSUME NEW c \in Clients
        PROVE  /\ arrived[c] \in 0 .. MaxSent /\ taken[c] \in 0 .. MaxSent
               /\ Len(readBuf[c]) <= taken[c]
    <3>1. /\ sent[c] \in 0 .. MaxSent /\ arrived[c] \in Nat /\ taken[c] \in Nat
          /\ taken[c] <= arrived[c] /\ arrived[c] <= sent[c] /\ readBuf[c] = <<>>
      BY DEF Types
    <3>2. Len(readBuf[c]) = 0
      BY <3>1, EmptySeq
    <3> QED  BY <2>1, <3>1, <3>2
  <2>3. arrived \in [Clients -> 0 .. MaxSent] /\ taken \in [Clients -> 0 .. MaxSent]
    BY <2>2 DEF Types
  <2> QED  BY <2>2, <2>3 DEF Types, TypeOK
<1> QED  BY <1>1, Invariant, PTL

\* Only a client that misuses the sudoku program ends it (SudokuServer.cpp:59).
THEOREM OnlyMisuseEnds == Spec => []Survives
BY Invariant, PTL DEF IInv

\* The echo program returns the bytes of each open connection whole and in order.
THEOREM EchoIsWhole == Spec => []EchoConserves
<1>1. IInv => EchoConserves
  <2> SUFFICES ASSUME IInv, program = "echo", NEW c \in Clients, open[c]
               PROVE  got[c] \o transit[c] \o readBuf[c] = Bytes(0, taken[c])
    BY DEF EchoConserves
  <2>1. Types /\ ClientInv(c)
    BY DEF IInv
  <2>2. OnTheWay(c) \in Seq(Elem) /\ readBuf[c] = <<>>
    BY <2>1, OnTheWaySeq DEF Types
  <2>3. got[c] \o transit[c] \o readBuf[c] = OnTheWay(c)
    BY <2>2, ConcatEmptySeq DEF OnTheWay
  <2>4. taken[c] \in Nat /\ 0 <= taken[c] /\ taken[c] - 0 = taken[c]
        /\ \A i \in 1 .. taken[c] : 0 + i = i
    BY <2>1 DEF Types
  <2>5. /\ Bytes(0, taken[c]) \in Seq(Elem) /\ Len(Bytes(0, taken[c])) = taken[c]
        /\ \A i \in 1 .. taken[c] : Bytes(0, taken[c])[i] = i
    <3> DEFINE e == taken[c]
    <3>1. e \in Nat /\ 0 <= e /\ e - 0 = e /\ \A i \in 1 .. e : 0 + i = i
      BY <2>4
    <3> HIDE DEF e
    <3>2. /\ Bytes(0, e) \in Seq(Nat) /\ Len(Bytes(0, e)) = e
          /\ \A i \in 1 .. e : Bytes(0, e)[i] = i
      BY <3>1, BytesSeq
    <3>3. Bytes(0, e) \in Seq(Elem)
      BY <3>2, SeqOfElem
    <3> QED  BY <3>2, <3>3 DEF e
  <2>6. /\ Len(OnTheWay(c)) = taken[c]
        /\ \A i \in 1 .. taken[c] : OnTheWay(c)[i] = i
    BY <2>1 DEF ClientInv, Ordered, EchoLength, Right, AnswerByte
  <2>7. OnTheWay(c) = Bytes(0, taken[c])
    BY <2>2, <2>5, <2>6, SeqEqual
  <2> QED  BY <2>3, <2>7
<1> QED  BY <1>1, Invariant, PTL

-------------------------------------------------------------------------------
(* The refinement.                                                         *)

\* What RequestReply sees of a client.
AskedOf    == [c \in Clients |-> IF Good(c) THEN Asked(c) ELSE 0]
ReceivedBy == [c \in Clients |-> IF Good(c) THEN got[c] ELSE <<>>]
PromisedTo == [n \in 0 .. MaxRequests |-> Promised(n)]

\* Whoever waits has asked for no more than is counted, and may get all of it.
LEMMA AskedInRange ==
    ASSUME Types, NEW c \in Clients, ClientInv(c), Good(c)
    PROVE  /\ Asked(c) \in 0 .. MaxRequests
           /\ Len(OnTheWay(c)) <= Asked(c) * AnswerLen
<1>1. PICK k \in Nat : AtRequest(c, k)
  BY DEF ClientInv, OneAtATime
<1>2. RequestLen \in Nat \ {0} /\ MaxRequests \in Nat /\ AnswerLen \in Nat \ {0}
  BY ServiceAssumption, AnswerLenType DEF Types
<1>3. Len(OnTheWay(c)) \in Nat
  BY OnTheWaySeq
<1>4. PICK j \in Nat : sent[c] = j * RequestLen
  BY DEF ClientInv, SentWhole
<1>5. Asked(c) = j
  BY <1>4, AskedIs
<1>6. j <= MaxRequests
  <2> SUFFICES ASSUME MaxRequests < j PROVE FALSE
    BY <1>2
  <2>1. MaxRequests * RequestLen + RequestLen <= j * RequestLen
    BY <1>2, TimesBounds
  <2>2. sent[c] <= MaxRequests * RequestLen /\ MaxRequests * RequestLen \in Nat
    BY <1>2, MoreTimes DEF Types, MaxSent
  <2> DEFINE m == MaxRequests * RequestLen
  <2>3. m \in Nat /\ sent[c] \in Nat /\ sent[c] <= m /\ m + RequestLen <= sent[c]
    BY <1>4, <2>1, <2>2 DEF Types
  <2> HIDE DEF m
  <2> QED  BY <1>2, <2>3
<1>7. j = k \/ j = k + 1
  <2>1. (k + 1) * RequestLen = k * RequestLen + RequestLen /\ k + 1 \in Nat
    BY <1>2, MoreTimes
  <2>2. CASE sent[c] = k * RequestLen
    BY <1>5, <2>2, AskedIs
  <2>3. CASE sent[c] = k * RequestLen + RequestLen
    <3>1. sent[c] = (k + 1) * RequestLen
      BY <2>1, <2>3
    <3>2. Asked(c) = k + 1
      BY <2>1, <3>1, AskedIs
    <3> QED  BY <1>5, <3>2
  <2> QED  BY <1>1, <2>2, <2>3 DEF AtRequest
<1>8. Len(OnTheWay(c)) <= j * AnswerLen
  <2> DEFINE a == k * AnswerLen
             l == Len(OnTheWay(c))
  <2>1. a \in Nat /\ (k + 1) * AnswerLen = a + AnswerLen
    BY <1>2, MoreTimes
  <2>2. l \in Nat /\ l <= a /\ (j * AnswerLen = a \/ j * AnswerLen = a + AnswerLen)
    BY <1>1, <1>3, <1>7, <2>1 DEF AtRequest
  <2> HIDE DEF a, l
  <2>3. l <= j * AnswerLen
    BY <1>2, <2>1, <2>2
  <2> QED  BY <2>3 DEF l
<1> QED  BY <1>2, <1>5, <1>6, <1>8

\* What a client has read is a front of what it is owed.
LEMMA ReadsWhatIsPromised ==
    ASSUME program \in Programs, NEW s \in Seq(Elem), NEW n \in Nat, Right(s),
           Len(s) <= n * AnswerLen
    PROVE  s = SubSeq(Promised(n), 1, Len(s)) /\ Len(s) \in 0 .. Len(Promised(n))
<1>1. /\ Promised(n) \in Seq(Elem) /\ Len(Promised(n)) = n * AnswerLen
      /\ \A i \in 1 .. n * AnswerLen : Promised(n)[i] = AnswerByte(i)
  BY PromisedBytes
<1>2. Len(s) \in Nat /\ n * AnswerLen \in Nat
  BY AnswerLenType, MoreTimes, LenProperties
<1> DEFINE a == n * AnswerLen
           l == Len(s)
           p == Promised(n)
<1>3. /\ p \in Seq(Elem) /\ Len(p) = a /\ l \in Nat /\ a \in Nat /\ l <= a
      /\ \A i \in 1 .. a : p[i] = AnswerByte(i)
      /\ \A i \in 1 .. l : s[i] = AnswerByte(i)
  BY <1>1, <1>2 DEF Right
<1> HIDE DEF a, p
<1>4. l \in 0 .. Len(p)
  BY <1>3
<1>5. SubSeq(p, 1, l) \in Seq(Elem) /\ Len(SubSeq(p, 1, l)) = l
  BY <1>3, <1>4, SplitAt
<1>6. \A i \in 1 .. l : p[i] = AnswerByte(i) /\ SubSeq(p, 1, l)[i] = p[i]
  BY <1>3
<1>7. \A i \in 1 .. l : s[i] = SubSeq(p, 1, l)[i]
  BY <1>3, <1>6
<1>8. s = SubSeq(p, 1, l)
  BY <1>5, <1>7, SeqEqual
<1> QED  BY <1>4, <1>8 DEF p

\* Steps that touch neither requests nor what has been read are not seen.
LEMMA NotSeen ==
    ASSUME UNCHANGED <<program, kind, sent, got>>
    PROVE  UNCHANGED Requests!rrVars
BY DEF Requests!rrVars, Promised, SolutionByte, Solution, Request, Bytes, Good, Asked

LEMMA PromiseStays ==
    ASSUME program' = program
    PROVE  PromisedTo' = PromisedTo
BY DEF PromisedTo, Promised, SolutionByte, Solution, Request, Bytes

\* A request of a client that waits is an Ask, any other is not seen.
LEMMA SendAsks ==
    ASSUME IInv, NEW c \in Clients, SendRequest(c)
    PROVE  [Requests!Next]_(Requests!rrVars)
<1>1. Types /\ ClientInv(c) /\ IInv'
  BY SendKeeps DEF IInv
<1>2. /\ UNCHANGED <<program, kind, got, transit, open, taken, arrived>>
      /\ sent' = [sent EXCEPT ![c] = @ + RequestLen]
  BY DEF SendRequest, outVars
<1>3. PromisedTo' = PromisedTo /\ ReceivedBy' = ReceivedBy
  BY <1>2, PromiseStays DEF ReceivedBy, Good
<1>4. CASE ~Good(c)
  <2>1. \A d \in Clients : Good(d)' = Good(d) /\ (Good(d) => sent'[d] = sent[d])
    BY <1>1, <1>2, <1>4 DEF Good, Types
  <2>2. AskedOf' = AskedOf
    BY <2>1 DEF AskedOf, Asked
  <2> QED  BY <1>3, <2>2 DEF Requests!rrVars, AskedOf, ReceivedBy, PromisedTo
<1>5. CASE Good(c)
  <2>1. Answered(c)
    BY <1>5 DEF SendRequest, Good
  <2>2. PICK k \in Nat : /\ sent[c] = k * RequestLen /\ Asked(c) = k
                         /\ got[c] = Promised(k)
    BY <1>1, <1>5, <2>1, AllAnswered
  <2>3. k \in 0 .. MaxRequests
    BY <1>1, <1>5, <2>2, AskedInRange
  <2>4. ReceivedBy[c] = PromisedTo[AskedOf[c]]
    BY <1>5, <2>2, <2>3 DEF ReceivedBy, PromisedTo, AskedOf
  <2>5. sent'[c] = (k + 1) * RequestLen
    BY <1>1, <1>2, <2>2, ServiceAssumption, MoreTimes DEF Types
  <2>6. Asked(c)' = k + 1
    <3>1. ASSUME NEW j \in Nat PROVE (j * RequestLen) \div RequestLen = j
      <4>1. RequestLen \in Nat \ {0} /\ 0 \in 0 .. RequestLen - 1
        BY ServiceAssumption
      <4>2. j * RequestLen + 0 = j * RequestLen
        BY <4>1, MoreTimes
      <4> QED  BY <4>1, <4>2, DivMod
    <3>2. k + 1 \in Nat
      OBVIOUS
    <3> QED  BY <2>5, <3>1, <3>2 DEF Asked
  <2>7. AskedOf' = [AskedOf EXCEPT ![c] = @ + 1]
    <3>1. \A d \in Clients : Good(d)' = Good(d)
      BY <1>2 DEF Good
    <3>2. \A d \in Clients \ {c} : Asked(d)' = Asked(d)
      BY <1>1, <1>2 DEF Asked, Types
    <3>3. AskedOf[c] = k
      BY <1>5, <2>2 DEF AskedOf
    <3> QED  BY <1>5, <2>6, <3>1, <3>2, <3>3 DEF AskedOf
  <2>8. Requests!Ask(c)
    BY <1>3, <2>4, <2>7 DEF Requests!Ask, AskedOf, ReceivedBy, PromisedTo
  <2> QED  BY <2>8 DEF Requests!Next
<1> QED  BY <1>4, <1>5

\* A delivery to a client that waits is a Receive.
LEMMA DeliverReceives ==
    ASSUME IInv, NEW c \in Clients, Deliver(c)
    PROVE  [Requests!Next]_(Requests!rrVars)
<1>1. Types /\ ClientInv(c)
  BY DEF IInv
<1>2. Out!Deliver(c) /\ UNCHANGED <<program, kind, sent, arrived, taken>>
  BY DEF Deliver, clientVars
<1>3. /\ transit' \in [Clients -> Seq(Elem)] /\ got' \in [Clients -> Seq(Elem)]
      /\ OnTheWay(c)' = OnTheWay(c)
  BY <1>2, DeliverKeeps
<1>4. PICK n \in 1 .. Len(transit[c]) :
         got' = [got EXCEPT ![c] = @ \o SubSeq(transit[c], 1, n)]
  BY <1>2 DEF Out!Deliver
<1>5. PromisedTo' = PromisedTo /\ AskedOf' = AskedOf
  BY <1>2, PromiseStays DEF AskedOf, Good, Asked
<1>6. \A d \in Clients : Good(d)' = Good(d)
  BY <1>2 DEF Good
<1>7. got \in [Clients -> Seq(Elem)] /\ transit \in [Clients -> Seq(Elem)]
  BY <1>1 DEF Types
<1>8. \A d \in Clients \ {c} : got'[d] = got[d]
  BY <1>4, <1>7
<1>9. CASE ~Good(c)
  <2>1. ReceivedBy' = ReceivedBy
    BY <1>6, <1>8, <1>9 DEF ReceivedBy
  <2> QED  BY <1>5, <2>1 DEF Requests!rrVars, AskedOf, ReceivedBy, PromisedTo
<1>10. CASE Good(c)
  <2> DEFINE g == got'[c]
             t == transit'[c]
             a == SubSeq(transit[c], 1, n)
             k == Asked(c)
  <2>1. g \in Seq(Elem) /\ t \in Seq(Elem) /\ g \o t = OnTheWay(c)
    BY <1>3 DEF OnTheWay
  <2>2. a \in Seq(Elem) /\ Len(a) = n /\ n \in Nat /\ n >= 1
    <3>1. n \in 0 .. Len(transit[c]) /\ transit[c] \in Seq(Elem)
      BY <1>7
    <3> QED  BY <3>1, SplitAt
  <2>3. g = got[c] \o a
    BY <1>4, <1>7
  <2>4. Right(OnTheWay(c))
    BY <1>1, <1>10 DEF ClientInv, Ordered
  <2>5. k \in 0 .. MaxRequests /\ Len(OnTheWay(c)) <= k * AnswerLen
    BY <1>1, <1>10, AskedInRange
  <2> HIDE DEF g, t, a, k
  <2>6. Right(g) /\ Len(g) <= Len(OnTheWay(c))
    BY <2>1, <2>4, FrontRight
  <2>7. Len(g) = Len(got[c]) + n /\ Len(g) \in Nat /\ Len(got[c]) \in Nat
    <3>1. got[c] \in Seq(Elem)
      BY <1>7
    <3>2. Len(got[c] \o a) = Len(got[c]) + Len(a)
      BY <2>2, <3>1, ConcatProperties
    <3>3. Len(got[c]) \in Nat /\ Len(g) \in Nat
      BY <2>1, <3>1, LenProperties
    <3> QED  BY <2>2, <2>3, <3>2, <3>3
  <2>8. Len(g) <= k * AnswerLen
    <3>1. Len(OnTheWay(c)) \in Nat /\ k * AnswerLen \in Nat
      BY <1>1, <2>5, OnTheWaySeq, AnswerLenType, MoreTimes DEF Types
    <3> QED  BY <2>5, <2>6, <2>7, <3>1
  <2>9. g = SubSeq(Promised(k), 1, Len(g)) /\ Len(g) \in 0 .. Len(Promised(k))
    <3>1. k \in Nat /\ program \in Programs
      BY <1>1, <2>5 DEF Types
    <3> QED  BY <2>1, <2>6, <2>8, <3>1, ReadsWhatIsPromised
  <2>10. AskedOf[c] = k /\ PromisedTo[k] = Promised(k) /\ ReceivedBy[c] = got[c]
    BY <1>10, <2>5 DEF AskedOf, PromisedTo, ReceivedBy, k
  <2>11. ReceivedBy' = [ReceivedBy EXCEPT ![c] = g]
    BY <1>6, <1>8, <1>10 DEF ReceivedBy, g
  <2>12. Len(g) \in Len(got[c]) + 1 .. Len(Promised(k))
    BY <2>2, <2>7, <2>9
  <2>13. \E m \in Len(ReceivedBy[c]) + 1 .. Len(PromisedTo[AskedOf[c]]) :
            ReceivedBy' = [ReceivedBy EXCEPT ![c] = SubSeq(PromisedTo[AskedOf[c]], 1, m)]
    BY <2>9, <2>10, <2>11, <2>12
  <2>14. Requests!Receive(c)
    BY <1>5, <2>13 DEF Requests!Receive, AskedOf, ReceivedBy, PromisedTo
  <2> QED  BY <2>14 DEF Requests!Next
<1> QED  BY <1>9, <1>10

LEMMA RequestInit == Init => Requests!Init
<1> SUFFICES ASSUME Init PROVE Requests!Init
  OBVIOUS
<1>1. got = [c \in Clients |-> <<>>] /\ sent = [c \in Clients |-> 0]
  BY DEF Init, Out!Init
<1>2. \A c \in Clients : Asked(c) = 0
  <2>1. 0 * RequestLen = 0
    BY ServiceAssumption
  <2> QED  BY <1>1, <2>1, AskedIs
<1>3. AskedOf = [c \in Clients |-> 0] /\ ReceivedBy = [c \in Clients |-> <<>>]
  BY <1>1, <1>2 DEF AskedOf, ReceivedBy
<1> QED  BY <1>3 DEF Requests!Init, AskedOf, ReceivedBy

LEMMA RequestStep == IInv /\ [Next]_vars => [Requests!Next]_(Requests!rrVars)
<1> SUFFICES ASSUME IInv, [Next]_vars PROVE [Requests!Next]_(Requests!rrVars)
  OBVIOUS
<1>1. CASE UNCHANGED vars
  BY <1>1, NotSeen DEF vars, clientVars, outVars
<1> SUFFICES ASSUME Next PROVE [Requests!Next]_(Requests!rrVars)
  BY <1>1
<1>2. PICK c \in Clients :
        \/ Client(c) \/ Arrive(c) \/ Deliver(c)
        \/ NewConnected(c) \/ LoopStep(c)
        \/ LostWithProcess(c)
  BY DEF Next
<1>3. CASE SendRequest(c)
  BY <1>3, SendAsks
<1>4. CASE Deliver(c)
  BY <1>4, DeliverReceives
<1>5. CASE ReadEvent(c)
  <2>1. got' = got
    BY <1>5 DEF ReadEvent, OnMessage, Sudoku, Echo, Write, Abort, outVars
  <2> QED  BY <1>5, <2>1, NotSeen DEF ReadEvent, clientVars
<1>6. CASE ShutsItsSide(c) \/ Arrive(c) \/ NewConnected(c) \/ Connected(c)
  BY <1>6, NotSeen DEF ShutsItsSide, Arrive, NewConnected, Construct, SetCallbacks, Connected,
                       Move, clientVars, outVars
<1>7. CASE EndOfInput(c) \/ Removed(c) \/ LostWithProcess(c)
  BY <1>7, NotSeen DEF EndOfInput, Removed, LostWithProcess, Out!Cut, clientVars
<1> QED  BY <1>2, <1>3, <1>4, <1>5, <1>6, <1>7 DEF Client, LoopStep

\* Every client that waits for its answers, over a network that splits no request, gets
\* each answer whole, once and in order, whatever the others do (SudokuServer.cpp:53-66).
THEOREM ImplementsRequestReply == Spec => RequestReplySpec
BY RequestInit, RequestStep, Invariant, PTL DEF Spec, RequestReplySpec, Requests!Spec
===============================================================================
