--------------------------- MODULE TcpServerProofs ----------------------------
(***************************************************************************)
(* The server's registries, for any peers, connections, descriptors and io *)
(* loops: the map connections_, the maps of descriptors of the loops,      *)
(* epoll, and the functors that hold a connection while it is added or     *)
(* removed.                                                                *)
(*                                                                         *)
(* IInv says who keeps a connection alive at each stage of its life if the *)
(* server has io loops, LoneInv if the main loop serves the connections.   *)
(* The first needs peers that do not come back at once from the port they  *)
(* have reset, the second peers that do not reset and writes that are not  *)
(* cut short: otherwise the code breaks them, as runs server_reuse and     *)
(* server_reset show.                                                      *)
(*                                                                         *)
(* First come the addresses, whose text is the key of connections_.        *)
(***************************************************************************)
EXTENDS TcpServer, SequenceTheorems, TLAPS, WellFoundedInduction

\* An octet is one of 256 numbers.
LEMMA OctetBounds ==
    ASSUME NEW o \in Octets
    PROVE  o \in Nat /\ o < 256
BY SMT DEF Octets

\* A number below 256 is an octet.
LEMMA OctetIf ==
    ASSUME NEW n \in Nat, n < 256
    PROVE  n \in Octets
BY SMT DEF Octets

\* An octet is small enough to parse as a port.
LEMMA OctetsArePorts == \A o \in Octets : o \in Ports
BY DEF Octets, Ports

\* ntohs of a word with these two octets, on a little-endian host.
LEMMA SwapWord ==
    ASSUME NEW x \in Octets, NEW y \in Octets
    PROVE  SwapBytes(Word16(<<x, y>>)) = 256 * x + y
<1>1. x \in Nat /\ x < 256 /\ y \in Nat /\ y < 256
  BY OctetBounds
<1>2. Word16(<<x, y>>) = x + 256 * y
  BY DEF Word16
<1>3. (x + 256 * y) * 256 = 65536 * y + 256 * x /\ 256 * x < 65536
  BY <1>1, SMT
<1>4. (65536 * y + 256 * x) % 65536 = 256 * x
  BY <1>1, <1>3, SMT
<1>5. (x + 256 * y) \div 256 = y
  BY <1>1, SMT
<1> QED  BY <1>2, <1>3, <1>4, <1>5 DEF SwapBytes

\* Two peers with the same text are the same peer: the key of TcpServer::connections_
\* never confuses two addresses (TcpConnect.cpp:18, TcpServer.cpp:67).
THEOREM TextIdentifiesAddress ==
    ASSUME NEW a \in SockAddr, NEW b \in SockAddr, ToString(a) = ToString(b)
    PROVE  a = b
<1>1. /\ a = [ip |-> a.ip, port |-> a.port] /\ b = [ip |-> b.ip, port |-> b.port]
      /\ a.ip \in [1 .. 4 -> Octets] /\ b.ip \in [1 .. 4 -> Octets]
      /\ a.port \in [1 .. 2 -> Octets] /\ b.port \in [1 .. 2 -> Octets]
  BY DEF SockAddr
<1>2. a.ip = b.ip
  <2>1. a.ip[1] = b.ip[1] /\ a.ip[2] = b.ip[2] /\ a.ip[3] = b.ip[3] /\ a.ip[4] = b.ip[4]
    BY DEF ToString
  <2>2. \A i \in 1 .. 4 : a.ip[i] = b.ip[i]
    BY <2>1
  <2> QED  BY <1>1, <2>2
<1>3. 256 * a.port[1] + a.port[2] = 256 * b.port[1] + b.port[2]
  <2>1. /\ a.port[1] \in Octets /\ a.port[2] \in Octets
        /\ b.port[1] \in Octets /\ b.port[2] \in Octets
    BY <1>1
  <2>2. /\ SwapBytes(Word16(a.port)) = 256 * a.port[1] + a.port[2]
        /\ SwapBytes(Word16(b.port)) = 256 * b.port[1] + b.port[2]
    BY <2>1, SwapWord DEF Word16
  <2> QED  BY <2>2 DEF ToString
<1>4. a.port = b.port
  <2> DEFINE a1 == a.port[1]
             a2 == a.port[2]
             b1 == b.port[1]
             b2 == b.port[2]
  <2>0. /\ a1 \in Nat /\ a1 < 256 /\ a2 \in Nat /\ a2 < 256
        /\ b1 \in Nat /\ b1 < 256 /\ b2 \in Nat /\ b2 < 256
    BY <1>1, OctetBounds
  <2>1. a1 = b1 /\ a2 = b2
    <3> HIDE DEF a1, a2, b1, b2
    <3> QED  BY <1>3, <2>0, SMT DEF a1, a2, b1, b2
  <2>2. \A i \in 1 .. 2 : a.port[i] = b.port[i]
    BY <2>1
  <2> QED  BY <1>1, <2>2
<1> QED  BY <1>1, <1>2, <1>4

\* htons, then ntohs, gives the port back.
LEMMA PortKept ==
    ASSUME NEW p \in Ports
    PROVE  SwapBytes(Word16(NetworkPort(p))) = p
<1>1. p \in Nat /\ p < 65536
  BY SMT DEF Ports
<1>2. /\ p \div 256 \in Nat /\ p \div 256 < 256
      /\ (p % 256) \in Nat /\ (p % 256) < 256
      /\ 256 * (p \div 256) + (p % 256) = p
  BY <1>1, SMT
<1> QED  BY <1>2, OctetIf, SwapWord DEF NetworkPort

\* Shifting a word to the left moves its octets by one place.
LEMMA ShiftKeepsOctets ==
    ASSUME NEW w \in Nat, NEW o \in Octets
    PROVE  /\ ShiftIn(w, o) \in Nat
           /\ ShiftIn(w, o) % 256 = o
           /\ ShiftIn(w, o) \div 256 = w % 16777216
<1>1. PICK q \in Nat, m \in Nat : w = 16777216 * q + m /\ m < 16777216 /\ m = w % 16777216
  <2>1. /\ w \div 16777216 \in Nat /\ (w % 16777216) \in Nat /\ (w % 16777216) < 16777216
        /\ w = 16777216 * (w \div 16777216) + (w % 16777216)
    BY SMT
  <2> QED  BY <2>1, SMT
<1>2. w * 256 = 4294967296 * q + 256 * m /\ 256 * m \in Nat /\ 256 * m < 4294967296
  BY <1>1, SMT
<1>3. (4294967296 * q + 256 * m) % 4294967296 = 256 * m
  BY <1>2, SMT
<1>4. ShiftIn(w, o) = 256 * m + o
  BY <1>2, <1>3, SMT DEF ShiftIn
<1>5. o \in Nat /\ o < 256
  BY OctetBounds
<1> QED  BY <1>1, <1>4, <1>5, SMT

\* The word shifted together from four octets has them in the opposite order in memory.
LEMMA WordIsReversed ==
    ASSUME NEW a \in Octets, NEW b \in Octets, NEW c \in Octets, NEW d \in Octets,
           NEW garbage \in Nat
    PROVE  Bytes32(Addr32(garbage, <<a, b, c, d>>)) = <<d, c, b, a>>
<1> DEFINE w1 == ShiftIn(garbage, a)
           w2 == ShiftIn(w1, b)
           w3 == ShiftIn(w2, c)
           w4 == ShiftIn(w3, d)
<1>1. w1 \in Nat /\ w2 \in Nat /\ w3 \in Nat /\ w4 \in Nat
  BY ShiftKeepsOctets, SMT
<1>2. w4 % 256 = d /\ w4 \div 256 = w3 % 16777216
  BY <1>1, ShiftKeepsOctets, SMT
<1>3. w3 % 256 = c /\ w3 \div 256 = w2 % 16777216
  BY <1>1, ShiftKeepsOctets, SMT
<1>4. w2 % 256 = b /\ w2 \div 256 = w1 % 16777216
  BY <1>1, ShiftKeepsOctets, SMT
<1>5. w1 % 256 = a
  BY ShiftKeepsOctets, SMT
<1> HIDE DEF w1, w2, w3, w4
<1>6. (w4 \div 256) % 256 = c
  BY <1>1, <1>2, <1>3, SMT
<1>7. (w4 \div 65536) % 256 = b
  <2>1. w4 \div 65536 = (w3 % 16777216) \div 256
    BY <1>1, <1>2, SMT
  <2>2. ((w3 % 16777216) \div 256) % 256 = (w3 \div 256) % 256
    BY <1>1, SMT
  <2> QED  BY <2>1, <2>2, <1>1, <1>3, <1>4, SMT
<1>8. (w4 \div 16777216) % 256 = a
  <2>1. w4 \div 16777216 = (w3 % 16777216) \div 65536
    BY <1>1, <1>2, SMT
  <2>2. ((w3 % 16777216) \div 65536) % 256 = (w3 \div 65536) % 256
    BY <1>1, SMT
  <2>3. w3 \div 65536 = (w2 % 16777216) \div 256
    BY <1>1, <1>3, SMT
  <2>4. ((w2 % 16777216) \div 256) % 256 = (w2 \div 256) % 256
    BY <1>1, SMT
  <2> QED  BY <2>1, <2>2, <2>3, <2>4, <1>1, <1>4, <1>5, SMT
<1>9. Addr32(garbage, <<a, b, c, d>>) = w4
  BY SMT DEF Addr32, w1, w2, w3, w4
<1> QED  BY <1>2, <1>6, <1>7, <1>8, <1>9, SMT DEF Bytes32

\* A number of at most 16 bits parses as itself.
LEMMA NumberParses ==
    ASSUME NEW o \in Ports
    PROVE  StringToInt(<<o>>) = <<o>>
<1>1. o \in Nat /\ o < 65536
  BY SMTT(30) DEF Ports
<1>2. o % 65536 = o
  BY <1>1, SMT
<1>3. -65536 < o /\ o < 65536
  BY <1>1, SMT
<1>4. <<o>> # <<>> /\ <<o>>[1] = o
  OBVIOUS
<1> QED  BY <1>2, <1>3, <1>4, SMT DEF StringToInt

\* Whatever addr32 held before, it is shifted out: the uninitialised variable of
\* SocketOperation.cpp:119 does no harm.  But the octets end up in memory in the opposite
\* order: the address made from "a.b.c.d:p" is d.c.b.a, and prints as "d.c.b.a:p".
THEOREM ParsedAddressIsReversed ==
    ASSUME NEW a \in Octets, NEW b \in Octets, NEW c \in Octets, NEW d \in Octets,
           NEW p \in Ports, NEW garbage \in Nat
    PROVE  LET parsed == FromText(<< <<a>>, <<b>>, <<c>>, <<d>> >>, <<p>>, garbage)
           IN  Len(parsed) = 1 /\ ToString(parsed[1]) = <<d, c, b, a, p>>
<1> DEFINE parts == << <<a>>, <<b>>, <<c>>, <<d>> >>
           octets == [i \in 1 .. 4 |-> StringToInt(parts[i])[1]]
           addr == [ip |-> <<d, c, b, a>>, port |-> NetworkPort(p)]
<1>1. \A o \in Octets : StringToInt(<<o>>) = <<o>>
  BY OctetsArePorts, NumberParses
<1>2. \A i \in 1 .. 4 : parts[i] = <<octets[i]>> /\ octets[i] \in Octets
                        /\ StringToInt(parts[i]) = parts[i]
  <2>1. /\ parts[1] = <<a>> /\ parts[2] = <<b>> /\ parts[3] = <<c>> /\ parts[4] = <<d>>
        /\ StringToInt(<<a>>) = <<a>> /\ StringToInt(<<b>>) = <<b>>
        /\ StringToInt(<<c>>) = <<c>> /\ StringToInt(<<d>>) = <<d>>
    BY <1>1
  <2>2. octets[1] = a /\ octets[2] = b /\ octets[3] = c /\ octets[4] = d
    BY <2>1
  <2> HIDE DEF parts, octets
  <2>3. \A i \in 1 .. 4 : i = 1 \/ i = 2 \/ i = 3 \/ i = 4
    BY SMT
  <2> QED  BY <2>1, <2>2, <2>3
<1>3. octets = <<a, b, c, d>>
  BY <1>2
<1>4. ValidIp(parts)
  BY <1>2 DEF ValidIp
<1>5. ToAddrIpv4(parts, p, garbage) = <<addr>>
  <2>1. Bytes32(Addr32(garbage, octets)) = <<d, c, b, a>>
    <3>1. Bytes32(Addr32(garbage, <<a, b, c, d>>)) = <<d, c, b, a>>
      BY WordIsReversed
    <3> HIDE DEF octets
    <3> QED  BY <1>3, <3>1, Zenon
  <2>2. ToAddrIpv4(parts, p, garbage)
          = << [ip |-> Bytes32(Addr32(garbage, octets)), port |-> NetworkPort(p)] >>
    BY <1>4, Zenon DEF ToAddrIpv4
  <2> QED  BY <2>1, <2>2
<1>6. ToString(addr) = <<d, c, b, a, p>>
  BY PortKept DEF ToString
<1>7. FromText(parts, <<p>>, garbage) = ToAddrIpv4(parts, p, garbage)
  <2>1. StringToInt(<<p>>) = <<p>>
    BY NumberParses
  <2> HIDE DEF parts
  <2> QED  BY <2>1 DEF FromText
<1> QED  BY <1>5, <1>6, <1>7

\* accept has a lowest descriptor to return.
LEMMA LeastOf ==
    ASSUME NEW S \in SUBSET Nat, S # {}
    PROVE  \E m \in S : \A n \in S : m <= n
<1> DEFINE R == OpToRel(<, Nat)
<1>1. IsWellFoundedOn(R, Nat)
  BY NatLessThanWellFounded
<1>2. \A x, y \in Nat : y < x => <<y, x>> \in R
  BY DEF OpToRel
<1> HIDE DEF R
<1>3. \E x \in S : \A y \in S : ~(<<y, x>> \in R)
  BY <1>1, WFMin
<1>4. PICK x \in S : \A y \in S : ~(<<y, x>> \in R)
  BY <1>3
<1>5. \A y \in S : ~(y < x)
  BY <1>2, <1>4
<1> QED  BY <1>5

\* One more entry in a table of the connections.
LEMMA OneMore ==
    ASSUME NEW S, NEW n \in Nat, NEW t \in [1 .. n -> S], NEW e \in S
    PROVE  /\ Append(t, e) \in [1 .. n + 1 -> S]
           /\ \A i \in 1 .. n : Append(t, e)[i] = t[i]
           /\ Append(t, e)[n + 1] = e
<1>1. t \in Seq(S) /\ Len(t) = n
  OBVIOUS
<1>2. /\ Append(t, e) \in Seq(S) /\ Len(Append(t, e)) = n + 1
      /\ Append(t, e)[n + 1] = e /\ \A i \in 1 .. n : Append(t, e)[i] = t[i]
  BY <1>1, AppendProperties

<1>3. Append(t, e) \in [1 .. n + 1 -> S]
  BY <1>2, LenProperties
<1> QED  BY <1>2, <1>3

\* One more functor at the end of a queue.
LEMMA RangeAppend ==
    ASSUME NEW S, NEW s \in Seq(S), NEW e \in S
    PROVE  /\ Append(s, e) \in Seq(S) /\ Range(Append(s, e)) = Range(s) \cup {e}
           /\ Len(Append(s, e)) = Len(s) + 1 /\ Append(s, e)[Len(s) + 1] = e
           /\ \A i \in 1 .. Len(s) : Append(s, e)[i] = s[i]
<1>1. /\ Append(s, e) \in Seq(S) /\ Len(Append(s, e)) = Len(s) + 1
      /\ Append(s, e)[Len(s) + 1] = e /\ \A i \in 1 .. Len(s) : Append(s, e)[i] = s[i]
      /\ Len(s) \in Nat
  BY AppendProperties, LenProperties
<1>2. DOMAIN Append(s, e) = 1 .. Len(s) + 1 /\ DOMAIN s = 1 .. Len(s)
  BY <1>1, LenProperties
<1>3. Range(s) = {s[i] : i \in 1 .. Len(s)}
      /\ Range(Append(s, e)) = {Append(s, e)[i] : i \in 1 .. Len(s) + 1}
  BY <1>2 DEF Range
<1>4. 1 .. Len(s) + 1 = 1 .. Len(s) \cup {Len(s) + 1}
  BY <1>1
<1> QED  BY <1>1, <1>3, <1>4

\* Two sequences of calls, one after the other.
LEMMA RangeConcat ==
    ASSUME NEW S, NEW s \in Seq(S), NEW t \in Seq(S)
    PROVE  Range(s \o t) \subseteq Range(s) \cup Range(t)
<1>1. /\ DOMAIN s = 1 .. Len(s) /\ DOMAIN t = 1 .. Len(t) /\ Len(s) \in Nat /\ Len(t) \in Nat
      /\ s \o t \in Seq(S) /\ Len(s \o t) = Len(s) + Len(t)
      /\ \A i \in 1 .. Len(s) + Len(t) :
            (s \o t)[i] = IF i <= Len(s) THEN s[i] ELSE t[i - Len(s)]
  BY ConcatProperties, LenProperties
<1> SUFFICES ASSUME NEW i \in DOMAIN (s \o t) PROVE (s \o t)[i] \in Range(s) \cup Range(t)
  BY DEF Range
<1>2. i \in 1 .. Len(s) + Len(t)
  BY <1>1, LenProperties
<1>3. CASE i <= Len(s)
  BY <1>1, <1>2, <1>3 DEF Range
<1>4. CASE ~(i <= Len(s))
  <2>1. i - Len(s) \in 1 .. Len(t)
    BY <1>1, <1>2, <1>4
  <2> QED  BY <1>1, <1>2, <1>4, <2>1 DEF Range
<1> QED  BY <1>3, <1>4

\* The next call, and those after it.
LEMMA RangeTail ==
    ASSUME NEW S, NEW s \in Seq(S), s # <<>>
    PROVE  Head(s) \in Range(s) /\ Range(Tail(s)) \subseteq Range(s)
<1>1. /\ Tail(s) \in Seq(S) /\ Len(Tail(s)) = Len(s) - 1 /\ Len(s) \in Nat /\ Len(s) >= 1
      /\ \A i \in 1 .. Len(Tail(s)) : Tail(s)[i] = s[i + 1]
      /\ Head(s) = s[1]
  BY HeadTailProperties, EmptySeq, LenProperties
<1>2. DOMAIN s = 1 .. Len(s) /\ DOMAIN Tail(s) = 1 .. Len(Tail(s))
  BY <1>1, LenProperties
<1>3. 1 \in DOMAIN s /\ \A i \in DOMAIN Tail(s) : i + 1 \in DOMAIN s
  BY <1>1, <1>2
<1> QED  BY <1>1, <1>2, <1>3 DEF Range

\* An empty queue holds nothing.
LEMMA RangeEmpty == Range(<<>>) = {} /\ Len(<<>>) = 0
BY DEF Range

-------------------------------------------------------------------------------
\* The types, with what the steps need of the tables besides.
Types ==
    /\ TypeOK
    /\ at \in [Loops -> Nat]
    /\ setup.threads # 0 => next < setup.threads
    /\ accepting # "no" => created # 0
    /\ \A l \in Loops : \A e \in active[l] : e.conn # None => e.conn \in Created
    /\ \A l \in Loops : calls[l] # <<>> => handling[l] # None

\* The sizes of a setup are within the bounds.
LEMMA SetupType ==
    ASSUME setup \in Setups
    PROVE  /\ setup.threads \in Loops /\ setup.conns \in Conns /\ setup.fds \in Fds
           /\ setup.threads \in Nat /\ setup.conns \in Nat /\ setup.fds \in Nat
           /\ setup.threads <= MaxThreads /\ setup.conns <= MaxConns /\ setup.fds <= MaxConns
           /\ MaxConns \in Nat /\ MaxConns >= 1 /\ MaxThreads \in Nat
<1>1. setup \in AllSetups
  BY ServerAssumption
<1>2. setup.threads \in Loops /\ setup.conns \in Conns /\ setup.fds \in Fds
  BY <1>1 DEF AllSetups
<1>3. MaxConns \in Nat /\ MaxConns >= 1 /\ MaxThreads \in Nat
  BY ServerAssumption
<1> QED  BY <1>2, <1>3 DEF Loops, Conns, Fds

\* What the tables say of a connection that exists.
LEMMA CreatedType ==
    ASSUME TypeOK
    PROVE  /\ created \in Nat /\ Created \subseteq Conns /\ created \in Conns \cup {None}
           /\ \A c \in Created : fd[c] \in Fds /\ loop[c] \in Loops /\ peer[c] \in Peers
                                 /\ Name(c) \in Names
<1>1. setup \in Setups /\ created \in 0 .. setup.conns
  BY DEF TypeOK
<1>2. created \in Nat /\ Created \subseteq Conns /\ created \in Conns \cup {None}
  BY <1>1, SetupType DEF Created, Conns, None
<1>3. \A c \in Created : fd[c] \in 1 .. setup.fds /\ loop[c] \in 0 .. setup.threads /\ peer[c] \in Peers
  BY DEF TypeOK
<1>4. 1 .. setup.fds \subseteq Fds /\ 0 .. setup.threads \subseteq Loops
  BY <1>1, SetupType DEF Fds, Loops
<1> QED  BY <1>2, <1>3, <1>4 DEF Names, Name
-------------------------------------------------------------------------------
(***************************************************************************)
(* The types, step by step.                                                *)
(***************************************************************************)

States == {"Disconnected", "Connected", "Disconnecting"}

\* queueInLoop.
LEMMA QueueTypes ==
    ASSUME TypeOK, NEW l, NEW f \in Functors, QueueFor(l, f)
    PROVE  functions' \in [Loops -> Seq(Functors)]
<1>1. functions \in [Loops -> Seq(Functors)]
      /\ functions' = [functions EXCEPT ![l] = Append(@, f)]
  BY DEF TypeOK, QueueFor
<1>2. l \in Loops => Append(functions[l], f) \in Seq(Functors)
  BY <1>1, AppendProperties
<1> QED  BY <1>1, <1>2

\* EventCtrl::deleteEvent.
LEMMA DeleteTypes ==
    ASSUME TypeOK, NEW l, NEW f, DeleteEvent(l, f)
    PROVE  pool' \in [Loops -> [Fds -> Conns \cup {None}]] /\ watch' \in [Created -> Masks]
<1>1. pool \in [Loops -> [Fds -> Conns \cup {None}]] /\ watch \in [Created -> Masks]
  BY DEF TypeOK, Masks
<1>2. EpollDel(l, f) \in [Created -> Masks]
  BY <1>1 DEF EpollDel, Masks
<1>3. [pool EXCEPT ![l][f] = None] \in [Loops -> [Fds -> Conns \cup {None}]]
  BY <1>1
<1> QED  BY <1>1, <1>2, <1>3 DEF DeleteEvent

\* TcpServer::removeConnect.
LEMMA EraseTypes ==
    ASSUME TypeOK, NEW c, EraseName(c)
    PROVE  connections' \in [Names -> Conns \cup {None}]
BY DEF TypeOK, EraseName

\* EventCtrl::modifyEvent.
LEMMA MaskTypes ==
    ASSUME TypeOK, NEW c, NEW mask \in Masks
    PROVE  SetMask(c, mask) \in [Created -> Masks]
BY DEF TypeOK, SetMask

\* A callback of the user's.
LEMMA AfterCallbackTypes ==
    ASSUME TypeOK, NEW c, NEW s \in States, NEW mask \in Masks, AfterCallback(c, s, mask)
    PROVE  st' \in [Created -> States] /\ watch' \in [Created -> Masks]
<1>1. PICK t : /\ t \in IF s = "Connected" /\ setup.shuts THEN {s, "Disconnecting"} ELSE {s}
               /\ st' = [st EXCEPT ![c] = t]
  BY DEF AfterCallback
<1>2. PICK m : /\ m \in IF s = "Connected" /\ setup.cuts THEN {mask, "both"} ELSE {mask}
               /\ watch' = SetMask(c, m)
  BY DEF AfterCallback
<1>3. t \in States /\ st \in [Created -> States]
  BY <1>1 DEF States, TypeOK
<1>4. m \in Masks
  BY <1>2 DEF Masks
<1> QED  BY <1>1, <1>2, <1>3, <1>4, MaskTypes

\* TcpConnect::connectedHandle with the user's callback.
LEMMA ConnectedTypes ==
    ASSUME TypeOK, NEW c, Connected(c)
    PROVE  st' \in [Created -> States] /\ watch' \in [Created -> Masks]
<1>1. "Connected" \in States /\ "read" \in Masks
  BY DEF States, Masks
<1> QED  BY <1>1, AfterCallbackTypes DEF Connected

\* TcpConnect::closeEvent.
LEMMA CloseTypes ==
    ASSUME TypeOK, NEW l, NEW c \in Conns, CloseEvent(l, c)
    PROVE  /\ st' \in [Created -> States] /\ watch' \in [Created -> Masks]
           /\ functions' \in [Loops -> Seq(Functors)]
           /\ connections' \in [Names -> Conns \cup {None}]
           /\ pool' \in [Loops -> [Fds -> Conns \cup {None}]]
<1>1. /\ st \in [Created -> States] /\ watch \in [Created -> Masks]
      /\ functions \in [Loops -> Seq(Functors)]
      /\ connections \in [Names -> Conns \cup {None}]
      /\ pool \in [Loops -> [Fds -> Conns \cup {None}]]
  BY DEF TypeOK, Masks, States
<1>2. st' \in [Created -> States]
  BY <1>1 DEF CloseEvent, States
<1>3. Functor("remove", c) \in Functors
  BY DEF Functor, Functors
<1>4. CASE ~CloseCallbackSet(c)
  BY <1>1, <1>2, <1>4 DEF CloseEvent
<1>5. CASE CloseCallbackSet(c) /\ l = Main
  BY <1>1, <1>2, <1>5, EraseTypes, DeleteTypes DEF CloseEvent
<1>6. CASE CloseCallbackSet(c) /\ l # Main
  BY <1>1, <1>2, <1>3, <1>6, QueueTypes DEF CloseEvent
<1> QED  BY <1>4, <1>5, <1>6

\* removeConnectInLoop and removedHandle.
LEMMA RemoveTypes ==
    ASSUME TypeOK, NEW c \in Conns, RemoveConnectInLoop(c) \/ RemovedHandle(c)
    PROVE  /\ st' \in [Created -> States] /\ watch' \in [Created -> Masks]
           /\ functions' \in [Loops -> Seq(Functors)]
           /\ connections' \in [Names -> Conns \cup {None}]
           /\ pool' \in [Loops -> [Fds -> Conns \cup {None}]]
<1>1. /\ st \in [Created -> States] /\ watch \in [Created -> Masks]
      /\ functions \in [Loops -> Seq(Functors)]
      /\ connections \in [Names -> Conns \cup {None}]
      /\ pool \in [Loops -> [Fds -> Conns \cup {None}]]
  BY DEF TypeOK, Masks, States
<1>2. Functor("remove", c) \in Functors /\ Functor("removed", c) \in Functors
  BY DEF Functor, Functors
<1>3. CASE RemoveConnectInLoop(c)
  BY <1>1, <1>2, <1>3, EraseTypes, QueueTypes DEF RemoveConnectInLoop
<1>4. CASE RemovedHandle(c)
  <2>1. [st EXCEPT ![c] = "Disconnected"] \in [Created -> States]
    BY <1>1 DEF States
  <2> QED  BY <1>1, <1>2, <1>4, <2>1, DeleteTypes, QueueTypes DEF RemovedHandle
<1> QED  BY <1>3, <1>4

\* Steps of newConnected and of the peers.
LEMMA AcceptTypes ==
    ASSUME Types, NEW p \in Peers, Accept(p)
    PROVE  Types'
<1>1. TypeOK /\ setup \in Setups
  BY DEF Types, TypeOK
<1> DEFINE n == created
           threads == setup.threads
<1>2. /\ n \in Nat /\ n < setup.conns /\ n + 1 \in 0 .. setup.conns
      /\ Created = 1 .. n
  <2>1. n < setup.conns /\ n \in 0 .. setup.conns
    BY <1>1 DEF Accept, TypeOK
  <2> QED  BY <1>1, <2>1, SetupType DEF Created
<1>3. /\ created' = n + 1
      /\ next' = IF threads = 0 THEN 0 ELSE (next + 1) % threads
      /\ peer' = Append(peer, p) /\ fd' = Append(fd, LowestFree)
      /\ loop' = Append(loop, NextLoop) /\ st' = Append(st, "Disconnecting")
      /\ link' = Append(link, "up") /\ watch' = Append(watch, "out")
      /\ accepting' = "inserting"
      /\ active' = [active EXCEPT ![Main] = @ \ {Connecting}]
      /\ UNCHANGED <<setup, connections, pool, functions, batch, at, calls, handling, pc, up>>
  BY DEF Accept, AcceptHandle, queueVars
<1>4. LowestFree \in 1 .. setup.fds
  <2>1. FreeFds # {} /\ FreeFds \subseteq 1 .. setup.fds /\ setup.fds \in Nat
    BY <1>1, SetupType DEF Accept, FreeFds
  <2>2. \E m \in FreeFds : \A k \in FreeFds : m <= k
    BY <2>1, LeastOf
  <2>3. LowestFree \in FreeFds
    BY <2>2 DEF LowestFree
  <2> QED  BY <2>1, <2>3
<1>5. /\ next' \in 0 .. threads /\ NextLoop \in 0 .. threads
      /\ threads # 0 => next' < threads
  <2>1. threads \in Nat /\ next \in 0 .. threads /\ (threads # 0 => next < threads)
    BY <1>1, SetupType DEF Types, TypeOK
  <2>2. threads # 0 => (next + 1) % threads \in 0 .. threads - 1
    BY <2>1, SMT
  <2> HIDE DEF threads
  <2>3. NextLoop \in 0 .. threads
    BY <2>1 DEF NextLoop, Main, threads
  <2> QED  BY <1>3, <2>1, <2>2, <2>3
<1> HIDE DEF n, threads
<1>6. Created' = 1 .. n + 1
  BY <1>3 DEF Created
<1>7. /\ peer' \in [1 .. n + 1 -> Peers] /\ fd' \in [1 .. n + 1 -> 1 .. setup.fds]
      /\ loop' \in [1 .. n + 1 -> 0 .. threads]
  BY <1>1, <1>2, <1>3, <1>4, <1>5, OneMore DEF TypeOK, threads
<1>8. /\ st' \in [1 .. n + 1 -> {"Disconnected", "Connected", "Disconnecting"}]
      /\ link' \in [1 .. n + 1 -> Links]
      /\ watch' \in [1 .. n + 1 -> Masks]
  <2>1. "up" \in Links /\ "out" \in Masks
    BY DEF Links, Masks
  <2> QED  BY <1>1, <1>2, <1>3, <2>1, OneMore DEF TypeOK
<1>9. active' \in [Loops -> SUBSET [conn : Conns \cup {None}, events : SUBSET Events]]
      /\ \A l \in Loops : active'[l] \subseteq active[l]
  BY <1>1, <1>3 DEF TypeOK
<1>10. TypeOK'
  BY <1>1, <1>2, <1>3, <1>5, <1>6, <1>7, <1>8, <1>9 DEF TypeOK, Stages, Events, Handlers, threads
<1>11. \A l \in Loops : \A e \in active'[l] : e.conn # None => e.conn \in Created'
  BY <1>2, <1>6, <1>9 DEF Types
<1>12. created' # 0
  BY <1>2, <1>3
<1> QED  BY <1>3, <1>5, <1>10, <1>11, <1>12 DEF Types, threads

\* Steps that create nothing.
LEMMA SameTables ==
    ASSUME Types, UNCHANGED connVars,
           st' \in [Created -> States], watch' \in [Created -> Masks],
           link' \in [Created -> Links],
           accepting' \in Stages, accepting' # "no" => accepting # "no",
           connections' \in [Names -> Conns \cup {None}],
           pool' \in [Loops -> [Fds -> Conns \cup {None}]],
           functions' \in [Loops -> Seq(Functors)],
           batch' \in [Loops -> Seq(Functors)], at' \in [Loops -> Nat],
           \A l \in Loops : at'[l] \in 1 .. Len(batch'[l]) + 1,
           active' \in [Loops -> SUBSET [conn : Conns \cup {None}, events : SUBSET Events]],
           \A l \in Loops : \A e \in active'[l] : e.conn # None => e.conn \in Created,
           calls' \in [Loops -> Seq(Handlers)], handling' \in [Loops -> Conns \cup {None}],
           \A l \in Loops : calls'[l] # <<>> => handling'[l] # None,
           pc' \in [Loops -> {"poll", "handle", "run"}], up' \in BOOLEAN
    PROVE  Types'
<1>1. Created' = Created
  BY DEF connVars, Created
<1>2. UNCHANGED <<setup, created, next, peer, fd, loop>>
  BY DEF connVars
<1> QED  BY <1>1, <1>2 DEF Types, TypeOK, States, Masks

\* The tables of a state, one by one.
LEMMA Tables ==
    ASSUME Types
    PROVE  /\ st \in [Created -> States] /\ watch \in [Created -> Masks]
           /\ link \in [Created -> Links]
           /\ accepting \in Stages
           /\ connections \in [Names -> Conns \cup {None}]
           /\ pool \in [Loops -> [Fds -> Conns \cup {None}]]
           /\ functions \in [Loops -> Seq(Functors)]
           /\ batch \in [Loops -> Seq(Functors)] /\ at \in [Loops -> Nat]
           /\ \A l \in Loops : at[l] \in 1 .. Len(batch[l]) + 1
           /\ active \in [Loops -> SUBSET [conn : Conns \cup {None}, events : SUBSET Events]]
           /\ \A l \in Loops : \A e \in active[l] : e.conn # None => e.conn \in Created
           /\ calls \in [Loops -> Seq(Handlers)] /\ handling \in [Loops -> Conns \cup {None}]
           /\ \A l \in Loops : calls[l] # <<>> => handling[l] # None
           /\ pc \in [Loops -> {"poll", "handle", "run"}] /\ up \in BOOLEAN
BY DEF Types, TypeOK, States, Masks

\* The steps of newConnected after accept.
LEMMA NewConnectedTypes ==
    ASSUME Types, AcceptFails \/ Inserted \/ BindHandlers \/ AddConnect \/ HandOff \/ NewConnectedReturns
    PROVE  Types'
<1>1. TypeOK /\ created \in Conns \cup {None}
  BY CreatedType DEF Types
<1>2. CASE AcceptFails
  <2>1. active' = [active EXCEPT ![Main] = @ \ {Connecting}]
        /\ UNCHANGED <<connVars, st, link, watch, accepting, connections, pool, queueVars,
                       calls, handling, pc, up>>
    BY <1>2 DEF AcceptFails, AcceptHandle
  <2>2. active' \in [Loops -> SUBSET [conn : Conns \cup {None}, events : SUBSET Events]]
        /\ \A l \in Loops : active'[l] \subseteq active[l]
    BY <2>1, Tables
  <2> QED  BY <2>1, <2>2, Tables, SameTables DEF queueVars
<1>3. CASE Inserted
  <2>1. pool' \in [Loops -> [Fds -> Conns \cup {None}]]
    <3> DEFINE l == loop[created]
               f == fd[created]
               entry == IF pool[l][f] = None THEN created ELSE pool[l][f]
    <3>1. pool \in [Loops -> [Fds -> Conns \cup {None}]]
      BY Tables
    <3>2. pool' = [pool EXCEPT ![l][f] = entry]
      BY <1>3 DEF Inserted, AddEvent
    <3>3. l \in Loops /\ f \in Fds => entry \in Conns \cup {None}
      BY <1>1, <3>1
    <3> HIDE DEF l, f, entry
    <3> QED  BY <3>1, <3>2, <3>3
  <2>2. watch' \in [Created -> Masks] /\ accepting' \in Stages /\ accepting # "no"
    BY <1>3, Tables DEF Inserted, Masks, Stages
  <2> QED  BY <1>3, <2>1, <2>2, Tables, SameTables DEF Inserted, queueVars, handVars
<1>4. CASE BindHandlers
  <2>1. accepting' \in Stages /\ accepting # "no"
    BY <1>4 DEF BindHandlers, Stages
  <2> QED  BY <1>4, <2>1, Tables, SameTables DEF BindHandlers, queueVars, handVars
<1>5. CASE AddConnect
  <2>1. connections' \in [Names -> Conns \cup {None}]
    BY <1>1, <1>5, Tables DEF AddConnect
  <2>2. accepting' \in Stages /\ accepting # "no"
    BY <1>5 DEF AddConnect, Stages
  <2> QED  BY <1>5, <2>1, <2>2, Tables, SameTables DEF AddConnect, queueVars, handVars
<1>6. CASE HandOff
  <2>1. accepting' \in Stages /\ accepting # "no"
    BY <1>6 DEF HandOff, Stages
  <2>2. UNCHANGED <<connVars, link, connections, pool, batch, at, handVars, pc, up>>
    BY <1>6 DEF HandOff
  <2>3. CASE loop[created] = Main
    <3>1. Connected(created) /\ UNCHANGED functions
      BY <1>6, <2>3 DEF HandOff
    <3>2. st' \in [Created -> States] /\ watch' \in [Created -> Masks]
      BY <1>1, <3>1, ConnectedTypes
    <3> QED  BY <2>1, <2>2, <3>1, <3>2, Tables, SameTables DEF handVars
  <2>4. CASE loop[created] # Main
    <3>1. QueueFor(loop[created], Functor("connected", created)) /\ UNCHANGED <<st, watch>>
      BY <1>6, <2>4 DEF HandOff
    <3>2. created \in Conns
      <4>1. accepting = "registered"
        BY <1>6 DEF HandOff
      <4> QED  BY <1>1, <4>1 DEF None, Types
    <3>3. Functor("connected", created) \in Functors
      BY <3>2 DEF Functor, Functors
    <3>4. functions' \in [Loops -> Seq(Functors)]
      BY <1>1, <3>1, <3>3, QueueTypes
    <3> QED  BY <2>1, <2>2, <3>1, <3>4, Tables, SameTables DEF handVars
  <2> QED  BY <2>3, <2>4
<1>7. CASE NewConnectedReturns
  <2>1. accepting' \in Stages /\ accepting # "no"
    BY <1>7 DEF NewConnectedReturns, Stages
  <2> QED  BY <1>7, <2>1, Tables, SameTables DEF NewConnectedReturns, queueVars, handVars
<1> QED  BY <1>2, <1>3, <1>4, <1>5, <1>6, <1>7

\* What Epoll::poll reports are connections that exist.
LEMMA ReportType ==
    ASSUME NEW c, link[c] \in Links
    PROVE  Report(c) \subseteq Events
BY DEF Report, Events, Links

\* Event::handle calls handlers.
LEMMA CallsType ==
    ASSUME NEW events
    PROVE  HandlerCalls(events) \in Seq(Handlers)
<1> DEFINE a == IF "hup" \in events /\ "in" \notin events THEN <<"close">> ELSE <<>>
           b == IF "err" \in events THEN <<"error">> ELSE <<>>
           d == IF "in" \in events THEN <<"read">> ELSE <<>>
           w == IF "out" \in events THEN <<"write">> ELSE <<>>
<1>1. a \in Seq(Handlers) /\ b \in Seq(Handlers) /\ d \in Seq(Handlers) /\ w \in Seq(Handlers)
  <2>1. "close" \in Handlers /\ "error" \in Handlers /\ "read" \in Handlers /\ "write" \in Handlers
    BY DEF Handlers
  <2>2. \A x \in Handlers : <<x>> \in Seq(Handlers)
    OBVIOUS
  <2>3. <<>> \in Seq(Handlers)
    BY EmptySeq
  <2>4. /\ <<"close">> \in Seq(Handlers) /\ <<"error">> \in Seq(Handlers)
        /\ <<"read">> \in Seq(Handlers) /\ <<"write">> \in Seq(Handlers)
    BY <2>1, <2>2
  <2> QED  BY <2>3, <2>4
<1>2. HandlerCalls(events) = a \o b \o d \o w
  BY DEF HandlerCalls
<1> HIDE DEF a, b, d, w
<1>3. a \o b \in Seq(Handlers)
  BY <1>1, ConcatProperties
<1>4. (a \o b) \o d \in Seq(Handlers)
  BY <1>1, <1>3, ConcatProperties
<1>5. ((a \o b) \o d) \o w \in Seq(Handlers)
  BY <1>1, <1>4, ConcatProperties
<1> QED  BY <1>2, <1>5

\* Which handlers Event::handle calls: closeHandle after EPOLLHUP, errorHandle after EPOLLERR.
LEMMA CallsOf ==
    ASSUME NEW events
    PROVE  "close" \in Range(HandlerCalls(events)) \/ "error" \in Range(HandlerCalls(events))
              => "hup" \in events \/ "err" \in events
<1> DEFINE a == IF "hup" \in events /\ "in" \notin events THEN <<"close">> ELSE <<>>
           b == IF "err" \in events THEN <<"error">> ELSE <<>>
           d == IF "in" \in events THEN <<"read">> ELSE <<>>
           w == IF "out" \in events THEN <<"write">> ELSE <<>>
<1>1. /\ a \in Seq(Handlers) /\ b \in Seq(Handlers) /\ d \in Seq(Handlers) /\ w \in Seq(Handlers)
      /\ Range(a) \subseteq {"close"} /\ ("hup" \in events \/ Range(a) = {})
      /\ Range(b) \subseteq {"error"} /\ ("err" \in events \/ Range(b) = {})
      /\ Range(d) \subseteq {"read"} /\ Range(w) \subseteq {"write"}
  <2>1. \A x \in Handlers : <<x>> \in Seq(Handlers) /\ Range(<<x>>) = {x}
    <3> SUFFICES ASSUME NEW x \in Handlers PROVE <<x>> \in Seq(Handlers) /\ Range(<<x>>) = {x}
      OBVIOUS
    <3>1. <<x>> \in Seq(Handlers) /\ DOMAIN <<x>> = 1 .. 1 /\ <<x>>[1] = x
      OBVIOUS
    <3>2. 1 .. 1 = {1}
      OBVIOUS
    <3> HIDE DEF Handlers
    <3> QED  BY <3>1, <3>2 DEF Range
  <2>2. <<>> \in Seq(Handlers) /\ Range(<<>>) = {}
    BY EmptySeq, RangeEmpty
  <2>3. "close" \in Handlers /\ "error" \in Handlers /\ "read" \in Handlers /\ "write" \in Handlers
    BY DEF Handlers
  <2>4. /\ <<"close">> \in Seq(Handlers) /\ Range(<<"close">>) = {"close"}
        /\ <<"error">> \in Seq(Handlers) /\ Range(<<"error">>) = {"error"}
        /\ <<"read">> \in Seq(Handlers) /\ Range(<<"read">>) = {"read"}
        /\ <<"write">> \in Seq(Handlers) /\ Range(<<"write">>) = {"write"}
    BY <2>1, <2>3
  <2>5. a \in Seq(Handlers) /\ Range(a) \subseteq {"close"} /\ ("hup" \in events \/ Range(a) = {})
    BY <2>2, <2>4
  <2>6. b \in Seq(Handlers) /\ Range(b) \subseteq {"error"} /\ ("err" \in events \/ Range(b) = {})
    BY <2>2, <2>4
  <2>7. /\ d \in Seq(Handlers) /\ Range(d) \subseteq {"read"}
        /\ w \in Seq(Handlers) /\ Range(w) \subseteq {"write"}
    BY <2>2, <2>4
  <2> QED  BY <2>5, <2>6, <2>7
<1>2. HandlerCalls(events) = a \o b \o d \o w
  BY DEF HandlerCalls
<1> HIDE DEF a, b, d, w
<1> HIDE DEF Handlers
<1>3. a \o b \in Seq(Handlers)
  BY <1>1, ConcatProperties
<1>4. (a \o b) \o d \in Seq(Handlers)
  BY <1>1, <1>3, ConcatProperties
<1>5. \A s, t \in Seq(Handlers) : Range(s \o t) \subseteq Range(s) \cup Range(t)
  BY RangeConcat
<1>6. PICK ab \in Seq(Handlers) : ab = a \o b
  BY <1>3
<1>7. PICK abd \in Seq(Handlers) : abd = ab \o d
  BY <1>4, <1>6
<1>8. HandlerCalls(events) = abd \o w
  BY <1>2, <1>6, <1>7
<1>9. /\ Range(ab) \subseteq Range(a) \cup Range(b) /\ Range(abd) \subseteq Range(ab) \cup Range(d)
      /\ Range(HandlerCalls(events)) \subseteq Range(abd) \cup Range(w)
  BY <1>1, <1>5, <1>6, <1>7, <1>8
<1>10. /\ "close" # "read" /\ "close" # "write" /\ "error" # "read" /\ "error" # "write"
       /\ "close" # "error"
  OBVIOUS
<1> QED  BY <1>1, <1>9, <1>10

\* A return of epoll_wait.
LEMMA PollTypes ==
    ASSUME Types, NEW l \in Loops, Poll(l)
    PROVE  Types'
<1>1. PICK waiting \in SUBSET {Connecting}, full \in SUBSET Created :
         active' = [active EXCEPT ![l] = Reported(l, full) \cup waiting]
  BY DEF Poll
<1>2. pc' = [pc EXCEPT ![l] = "handle"]
      /\ UNCHANGED <<connVars, st, link, watch, accepting, connections, pool, queueVars,
                     calls, handling, up>>
  BY DEF Poll
<1>3. Created \subseteq Conns
  BY CreatedType DEF Types
<1>4. \A e \in Reported(l, full) : e \in [conn : Conns \cup {None}, events : SUBSET Events]
                                   /\ e.conn \in Created
  <2> SUFFICES ASSUME NEW e \in Reported(l, full)
               PROVE e \in [conn : Conns \cup {None}, events : SUBSET Events] /\ e.conn \in Created
    OBVIOUS
  <2>1. PICK c \in Created : \E x \in SUBSET Report(c) : e = [conn |-> c, events |-> x]
    BY DEF Reported, ReportedOf
  <2>2. Report(c) \subseteq Events
    <3>1. link[c] \in Links
      BY Tables
    <3> QED  BY <3>1, ReportType
  <2> QED  BY <1>3, <2>1, <2>2
<1>5. Connecting \in [conn : Conns \cup {None}, events : SUBSET Events] /\ Connecting.conn = None
  BY DEF Connecting, Events
<1>6. \A e \in Reported(l, full) \cup waiting :
         /\ e \in [conn : Conns \cup {None}, events : SUBSET Events]
         /\ e.conn # None => e.conn \in Created
  BY <1>4, <1>5
<1>7. active' \in [Loops -> SUBSET [conn : Conns \cup {None}, events : SUBSET Events]]
  BY <1>1, <1>6, Tables
<1>8. \A k \in Loops : \A e \in active'[k] : e.conn # None => e.conn \in Created
  BY <1>1, <1>6, Tables
<1>9. pc' \in [Loops -> {"poll", "handle", "run"}]
  BY <1>2, Tables
<1> QED  BY <1>2, <1>7, <1>8, <1>9, Tables, SameTables DEF queueVars

\* A use of the map of descriptors may end all claims.
LEMMA UseTypes ==
    ASSUME Types, NEW l, UsesPool(l)
    PROVE  up' \in BOOLEAN
BY Tables DEF UsesPool

\* The next descriptor that epoll reported.
LEMMA DispatchTypes ==
    ASSUME Types, NEW l \in Loops, Dispatch(l)
    PROVE  Types'
<1>1. PICK e \in active[l] :
          /\ e.conn # None
          /\ active' = [active EXCEPT ![l] = @ \ {e}]
          /\ LET c == pool[l][fd[e.conn]]
             IN  IF c # None /\ Alive(c)
                 THEN /\ calls' = [calls EXCEPT ![l] = HandlerCalls(e.events)]
                      /\ handling' = [handling EXCEPT ![l] = c]
                      /\ UNCHANGED <<pool, watch>>
                 ELSE /\ pool' = [pool EXCEPT ![l][fd[e.conn]] = None]
                      /\ watch' = EpollDel(l, fd[e.conn])
                      /\ UNCHANGED <<calls, handling>>
  BY DEF Dispatch
<1>2. UsesPool(l) /\ UNCHANGED <<connVars, st, link, accepting, connections, queueVars, pc>>
  BY DEF Dispatch
<1>3. up' \in BOOLEAN
  BY <1>2, UseTypes
<1>4. active' \in [Loops -> SUBSET [conn : Conns \cup {None}, events : SUBSET Events]]
      /\ \A k \in Loops : active'[k] \subseteq active[k]
  BY <1>1, Tables
<1>5. \A k \in Loops : \A x \in active'[k] : x.conn # None => x.conn \in Created
  BY <1>4, Tables
<1> DEFINE f == fd[e.conn]
           c == pool[l][f]
<1>6. f \in Fds /\ c \in Conns \cup {None}
  <2>1. e.conn \in Created
    BY <1>1, Tables
  <2>2. f \in Fds
    BY <2>1, CreatedType DEF Types
  <2> HIDE DEF f
  <2> QED  BY <2>2, Tables
<1> HIDE DEF f
<1>7. CASE c # None /\ Alive(c)
  <2>1. /\ calls' = [calls EXCEPT ![l] = HandlerCalls(e.events)]
        /\ handling' = [handling EXCEPT ![l] = c]
        /\ UNCHANGED <<pool, watch>>
    BY <1>1, <1>7 DEF f
  <2>2. calls' \in [Loops -> Seq(Handlers)]
    BY <2>1, Tables, CallsType
  <2>3. handling' \in [Loops -> Conns \cup {None}]
    BY <1>6, <2>1, Tables
  <2>4. \A k \in Loops : calls'[k] # <<>> => handling'[k] # None
    BY <1>7, <2>1, Tables
  <2> QED  BY <1>2, <1>3, <1>4, <1>5, <2>1, <2>2, <2>3, <2>4, Tables, SameTables DEF queueVars
<1>8. CASE ~(c # None /\ Alive(c))
  <2>1. /\ pool' = [pool EXCEPT ![l][f] = None]
        /\ watch' = EpollDel(l, f)
        /\ UNCHANGED <<calls, handling>>
    BY <1>1, <1>8 DEF f
  <2>2. pool' \in [Loops -> [Fds -> Conns \cup {None}]]
    BY <2>1, Tables
  <2>3. watch' \in [Created -> Masks]
    <3>1. watch \in [Created -> Masks] /\ "out" \in Masks
      BY Tables DEF Masks
    <3> QED  BY <2>1, <3>1 DEF EpollDel
  <2> QED  BY <1>2, <1>3, <1>4, <1>5, <2>1, <2>2, <2>3, Tables, SameTables DEF queueVars
<1> QED  BY <1>7, <1>8

\* TcpConnect::readEvent.
LEMMA ReadTypes ==
    ASSUME Types, NEW l \in Loops, NEW c \in Conns, ReadEvent(l, c)
    PROVE  /\ st' \in [Created -> States] /\ watch' \in [Created -> Masks]
           /\ functions' \in [Loops -> Seq(Functors)]
           /\ connections' \in [Names -> Conns \cup {None}]
           /\ pool' \in [Loops -> [Fds -> Conns \cup {None}]]
           /\ link' \in [Created -> Links] /\ up' \in BOOLEAN
<1>1. TypeOK /\ link \in [Created -> Links] /\ {"up", "rst", "rstRead"} \subseteq Links
  BY Tables DEF Types, Links
<1>2. CASE link[c] \in {"data", "rstData"}
  <2>1. /\ link' = [link EXCEPT ![c] = IF @ = "data" THEN "up" ELSE "rst"]
        /\ AfterCallback(c, st[c], watch[c])
        /\ UNCHANGED <<functions, connections, pool, up>>
    BY <1>2 DEF ReadEvent
  <2>2. link' \in [Created -> Links]
    BY <1>1, <2>1
  <2>3. CASE c \in Created
    <3>1. st[c] \in States /\ watch[c] \in Masks
      BY <2>3, Tables
    <3> QED  BY <1>1, <2>1, <2>2, <3>1, AfterCallbackTypes, Tables
  <2>4. CASE c \notin Created
    BY <1>1, <2>1, <2>2, <2>4, Tables DEF AfterCallback, SetMask
  <2> QED  BY <2>3, <2>4
<1>3. CASE link[c] = "rst"
  <2>1. /\ link' = [link EXCEPT ![c] = "rstRead"] /\ up' \in BOOLEAN
        /\ UNCHANGED <<st, functions, connections, pool, watch>>
    BY <1>3 DEF ReadEvent
  <2> QED  BY <1>1, <2>1, Tables
<1>4. CASE link[c] \in {"eof", "rstRead"}
  <2>1. CloseEvent(l, c) /\ UNCHANGED <<link, up>>
    BY <1>4 DEF ReadEvent
  <2> QED  BY <1>1, <2>1, CloseTypes, Tables
<1> QED  BY <1>2, <1>3, <1>4 DEF ReadEvent

\* TcpConnect::writeEvent.
LEMMA WriteTypes ==
    ASSUME Types, NEW c, WriteEvent(c)
    PROVE  /\ st' \in [Created -> States] /\ watch' \in [Created -> Masks]
           /\ functions' \in [Loops -> Seq(Functors)]
           /\ connections' \in [Names -> Conns \cup {None}]
           /\ pool' \in [Loops -> [Fds -> Conns \cup {None}]]
           /\ link' \in [Created -> Links] /\ up' \in BOOLEAN
<1>1. PICK m : m \in {"both", "read", watch[c]} /\ watch' = SetMask(c, m)
  BY DEF WriteEvent
<1>2. watch \in [Created -> Masks] /\ TypeOK
  BY Tables DEF Types
<1>3. watch' \in [Created -> Masks]
  BY <1>1, <1>2 DEF SetMask, Masks
<1> QED  BY <1>3, Tables DEF WriteEvent

\* A handler of a connection.
LEMMA HandlerTypes ==
    ASSUME Types, NEW l \in Loops, CallHandler(l)
    PROVE  Types'
<1> DEFINE c == handling[l]
<1>1. c \in Conns /\ TypeOK /\ None \in Conns \cup {None}
  <2>1. calls[l] # <<>>
    BY DEF CallHandler
  <2> QED  BY <2>1, Tables DEF Types
<1>2. /\ calls[l] # <<>> /\ calls' = [calls EXCEPT ![l] = Tail(@)]
      /\ handling' = [handling EXCEPT ![l] = IF Len(calls[l]) = 1 THEN None ELSE @]
      /\ UNCHANGED <<connVars, accepting, batch, at, active, pc>>
      /\ IF ~EventFuncsSet(c)
         THEN UNCHANGED <<st, functions, connections, pool, watch, link, up>>
         ELSE IF Head(calls[l]) = "read"
         THEN ReadEvent(l, c)
         ELSE IF Head(calls[l]) = "write"
         THEN WriteEvent(c)
         ELSE CloseEvent(l, c) /\ UNCHANGED <<link, up>>
  BY DEF CallHandler
<1> HIDE DEF c
<1>3. calls' \in [Loops -> Seq(Handlers)]
  <2>1. calls[l] \in Seq(Handlers)
    BY Tables
  <2>2. Tail(calls[l]) \in Seq(Handlers)
    BY <1>2, <2>1, HeadTailProperties
  <2> QED  BY <1>2, <2>2, Tables
<1>4. /\ handling' \in [Loops -> Conns \cup {None}]
      /\ \A k \in Loops : calls'[k] # <<>> => handling'[k] # None
  <2>1. handling' \in [Loops -> Conns \cup {None}]
    BY <1>2, Tables
  <2>2. calls[l] \in Seq(Handlers) /\ (Len(calls[l]) = 1 => Tail(calls[l]) = <<>>)
    <3>1. calls[l] \in Seq(Handlers) /\ calls[l] # <<>>
      BY <1>2, Tables
    <3>2. Len(Tail(calls[l])) = Len(calls[l]) - 1 /\ Tail(calls[l]) \in Seq(Handlers)
      BY <3>1, HeadTailProperties
    <3>3. Len(calls[l]) = 1 => Len(Tail(calls[l])) = 0
      BY <3>2
    <3>4. Len(Tail(calls[l])) = 0 => Tail(calls[l]) = <<>>
      BY <3>2, EmptySeq
    <3> QED  BY <3>1, <3>3, <3>4
  <2> SUFFICES ASSUME NEW k \in Loops, calls'[k] # <<>> PROVE handling'[k] # None
    BY <2>1
  <2>3. CASE k = l
    <3>1. calls'[l] = Tail(calls[l])
          /\ handling'[l] = IF Len(calls[l]) = 1 THEN None ELSE handling[l]
      BY <1>2, Tables
    <3> QED  BY <1>2, <2>2, <2>3, <3>1, Tables
  <2>4. CASE k # l
    BY <1>2, <2>4, Tables
  <2> QED  BY <2>3, <2>4
<1>5. /\ st' \in [Created -> States] /\ watch' \in [Created -> Masks]
      /\ functions' \in [Loops -> Seq(Functors)]
      /\ connections' \in [Names -> Conns \cup {None}]
      /\ pool' \in [Loops -> [Fds -> Conns \cup {None}]]
      /\ link' \in [Created -> Links] /\ up' \in BOOLEAN
  <2>1. CASE UNCHANGED <<st, functions, connections, pool, watch, link, up>>
    BY <2>1, Tables
  <2>2. CASE CloseEvent(l, c) /\ UNCHANGED <<link, up>>
    BY <1>1, <2>2, CloseTypes, Tables
  <2>3. CASE ReadEvent(l, c)
    BY <1>1, <2>3, ReadTypes
  <2>4. CASE WriteEvent(c)
    BY <2>4, WriteTypes
  <2> QED  BY <1>2, <2>1, <2>2, <2>3, <2>4
<1> QED  BY <1>2, <1>3, <1>4, <1>5, Tables, SameTables

\* The swap of the queue and the end of its batch.
LEMMA FunctionsTypes ==
    ASSUME Types, NEW l \in Loops, BeginFunctions(l) \/ EndFunctions(l)
    PROVE  Types'
<1>1. Len(<<>>) = 0 /\ <<>> \in Seq(Functors) /\ 1 \in Nat
  BY EmptySeq
<1>2. CASE BeginFunctions(l)
  <2>1. /\ batch' = [batch EXCEPT ![l] = functions[l]]
        /\ functions' = [functions EXCEPT ![l] = <<>>]
        /\ at' = [at EXCEPT ![l] = 1] /\ pc' = [pc EXCEPT ![l] = "run"]
        /\ UNCHANGED <<connVars, st, link, watch, accepting, connections, pool, handVars, up>>
    BY <1>2 DEF BeginFunctions
  <2>2. /\ batch' \in [Loops -> Seq(Functors)] /\ functions' \in [Loops -> Seq(Functors)]
        /\ at' \in [Loops -> Nat] /\ pc' \in [Loops -> {"poll", "handle", "run"}]
    BY <1>1, <2>1, Tables
  <2>3. \A k \in Loops : at'[k] \in 1 .. Len(batch'[k]) + 1
    <3>1. Len(batch'[l]) \in Nat /\ at'[l] = 1
      BY <2>1, <2>2, Tables, LenProperties
    <3>2. \A k \in Loops \ {l} : at'[k] = at[k] /\ batch'[k] = batch[k]
      BY <2>1, Tables
    <3>3. \A n \in Nat : 1 \in 1 .. n + 1
      OBVIOUS
    <3> SUFFICES ASSUME NEW k \in Loops PROVE at'[k] \in 1 .. Len(batch'[k]) + 1
      OBVIOUS
    <3>4. CASE k = l
      BY <3>1, <3>3, <3>4
    <3>5. CASE k # l
      BY <3>2, <3>5, Tables
    <3> QED  BY <3>4, <3>5
  <2> QED  BY <2>1, <2>2, <2>3, Tables, SameTables DEF handVars
<1>3. CASE EndFunctions(l)
  <2>1. /\ batch' = [batch EXCEPT ![l] = <<>>]
        /\ at' = [at EXCEPT ![l] = 1] /\ pc' = [pc EXCEPT ![l] = "poll"]
        /\ UNCHANGED <<connVars, st, link, watch, accepting, connections, pool, functions,
                       handVars, up>>
    BY <1>3 DEF EndFunctions
  <2>2. /\ batch' \in [Loops -> Seq(Functors)] /\ at' \in [Loops -> Nat]
        /\ pc' \in [Loops -> {"poll", "handle", "run"}]
    BY <1>1, <2>1, Tables
  <2>3. \A k \in Loops : at'[k] \in 1 .. Len(batch'[k]) + 1
    <3>1. Len(batch'[l]) = 0 /\ at'[l] = 1
      BY <1>1, <2>1, Tables
    <3>2. \A k \in Loops \ {l} : at'[k] = at[k] /\ batch'[k] = batch[k]
      BY <2>1, Tables
    <3>3. \A n \in Nat : 1 \in 1 .. n + 1
      OBVIOUS
    <3> SUFFICES ASSUME NEW k \in Loops PROVE at'[k] \in 1 .. Len(batch'[k]) + 1
      OBVIOUS
    <3>4. CASE k = l
      BY <3>1, <3>3, <3>4
    <3>5. CASE k # l
      BY <3>2, <3>5, Tables
    <3> QED  BY <3>4, <3>5
  <2> QED  BY <2>1, <2>2, <2>3, Tables, SameTables DEF handVars
<1> QED  BY <1>2, <1>3

\* What RunFunctor does for each kind of functor.
LEMMA RunCases ==
    ASSUME Types, NEW l \in Loops, RunFunctor(l)
    PROVE  LET f == batch[l][at[l]]
           IN  /\ f \in Functors /\ f.conn \in Conns /\ at[l] \in 1 .. Len(batch[l])
               /\ up /\ pc[l] = "run"
               /\ f.op = "connected" => Connected(f.conn) /\ UNCHANGED <<functions, connections, pool>>
               /\ f.op = "remove" => RemoveConnectInLoop(f.conn)
               /\ f.op = "removed" => RemovedHandle(f.conn)
               /\ f.op \in {"connected", "remove", "removed"}
<1> DEFINE f == batch[l][at[l]]
<1>1. at[l] \in 1 .. Len(batch[l]) /\ up /\ pc[l] = "run"
  <2>1. at[l] <= Len(batch[l]) /\ up /\ pc[l] = "run"
    BY DEF RunFunctor
  <2>2. batch[l] \in Seq(Functors) /\ at[l] \in 1 .. Len(batch[l]) + 1 /\ at[l] \in Nat
    BY Tables
  <2>3. Len(batch[l]) \in Nat
    BY <2>2, LenProperties
  <2> QED  BY <2>1, <2>2, <2>3
<1>2. f \in Functors
  <2>1. batch[l] \in Seq(Functors)
    BY Tables
  <2> QED  BY <1>1, <2>1, ElementOfSeq
<1>3. f.op \in {"connected", "remove", "removed"} /\ f.conn \in Conns
  BY <1>2 DEF Functors
<1> QED  BY <1>1, <1>2, <1>3 DEF RunFunctor

\* A functor.
LEMMA RunTypes ==
    ASSUME Types, NEW l \in Loops, RunFunctor(l)
    PROVE  Types'
<1> DEFINE f == batch[l][at[l]]
<1>1. /\ f \in Functors /\ f.conn \in Conns /\ at[l] \in 1 .. Len(batch[l])
      /\ f.op = "connected" => Connected(f.conn) /\ UNCHANGED <<functions, connections, pool>>
      /\ f.op = "remove" => RemoveConnectInLoop(f.conn)
      /\ f.op = "removed" => RemovedHandle(f.conn)
      /\ f.op \in {"connected", "remove", "removed"}
  BY RunCases
<1>2. /\ UsesPool(l) /\ at' = [at EXCEPT ![l] = @ + 1]
      /\ UNCHANGED <<connVars, link, accepting, batch, handVars, pc>>
  BY DEF RunFunctor
<1> HIDE DEF f
<1>3. up' \in BOOLEAN
  BY <1>2, UseTypes
<1>4. /\ st' \in [Created -> States] /\ watch' \in [Created -> Masks]
      /\ functions' \in [Loops -> Seq(Functors)]
      /\ connections' \in [Names -> Conns \cup {None}]
      /\ pool' \in [Loops -> [Fds -> Conns \cup {None}]]
  <2>1. TypeOK
    BY DEF Types
  <2>2. CASE f.op = "connected"
    BY <1>1, <2>1, <2>2, ConnectedTypes, Tables
  <2>3. CASE f.op \in {"remove", "removed"}
    BY <1>1, <2>1, <2>3, RemoveTypes
  <2> QED  BY <1>1, <2>2, <2>3
<1>5. at' \in [Loops -> Nat] /\ \A k \in Loops : at'[k] \in 1 .. Len(batch'[k]) + 1
  <2>1. Len(batch[l]) \in Nat /\ at[l] \in Nat /\ at[l] \in 1 .. Len(batch[l])
    <3>1. batch[l] \in Seq(Functors) /\ at[l] \in Nat
      BY Tables
    <3> QED  BY <1>1, <3>1, LenProperties
  <2>2. at[l] + 1 \in Nat /\ at[l] + 1 \in 1 .. Len(batch[l]) + 1
    BY <2>1
  <2>3. at' \in [Loops -> Nat] /\ at'[l] = at[l] + 1 /\ \A k \in Loops \ {l} : at'[k] = at[k]
    BY <1>2, <2>2, Tables
  <2> SUFFICES ASSUME NEW k \in Loops PROVE at'[k] \in 1 .. Len(batch'[k]) + 1
    BY <2>3
  <2>4. CASE k = l
    BY <1>2, <2>2, <2>3, <2>4
  <2>5. CASE k # l
    BY <1>2, <2>3, <2>5, Tables
  <2> QED  BY <2>4, <2>5
<1> QED  BY <1>2, <1>3, <1>4, <1>5, Tables, SameTables DEF handVars

\* A peer sends, hangs up or resets.
LEMMA PeerTypes ==
    ASSUME Types, NEW c, PeerSends(c) \/ PeerCloses(c) \/ PeerResets(c)
    PROVE  Types'
<1>1. /\ UNCHANGED <<connVars, st, watch, accepting, connections, pool, queueVars, handVars, pc, up>>
      /\ \E v \in {"data", "eof", "rst", "rstData"} : link' = [link EXCEPT ![c] = v]
  BY DEF PeerSends, PeerCloses, PeerResets
<1>2. link' \in [Created -> Links]
  BY <1>1, Tables DEF Links
<1> QED  BY <1>1, <1>2, Tables, SameTables DEF queueVars, handVars

\* Nothing happens.
LEMMA StutterTypes ==
    ASSUME Types, UNCHANGED vars
    PROVE  Types'
BY Tables, SameTables DEF vars, queueVars, handVars

\* The constructor of TcpServer.
LEMMA InitTypes == Init => Types
<1> SUFFICES ASSUME Init PROVE Types
  OBVIOUS
<1>1. setup \in Setups /\ setup.conns \in Nat /\ setup.threads \in Nat /\ setup.fds \in Nat
  BY SetupType DEF Init
<1>2. Created = {} /\ created \in 0 .. setup.conns /\ next \in 0 .. setup.threads
  BY <1>1 DEF Init, Created
<1>3. \A S : <<>> \in [{} -> S]
  OBVIOUS
<1>4. /\ peer \in [Created -> Peers] /\ fd \in [Created -> 1 .. setup.fds]
      /\ loop \in [Created -> 0 .. setup.threads]
      /\ st \in [Created -> {"Disconnected", "Connected", "Disconnecting"}]
      /\ link \in [Created -> Links]
      /\ watch \in [Created -> Masks]
  BY <1>2, <1>3 DEF Init
<1>5. /\ connections \in [Names -> Conns \cup {None}]
      /\ pool \in [Loops -> [Fds -> Conns \cup {None}]]
      /\ active \in [Loops -> SUBSET [conn : Conns \cup {None}, events : SUBSET Events]]
      /\ \A l \in Loops : active[l] = {}
      /\ handling \in [Loops -> Conns \cup {None}]
      /\ pc \in [Loops -> {"poll", "handle", "run"}] /\ up \in BOOLEAN
      /\ accepting \in Stages /\ accepting = "no" /\ at \in [Loops -> Nat]
  BY DEF Init, Stages
<1>6. /\ functions \in [Loops -> Seq(Functors)] /\ batch \in [Loops -> Seq(Functors)]
      /\ calls \in [Loops -> Seq(Handlers)] /\ \A l \in Loops : calls[l] = <<>>
      /\ \A l \in Loops : at[l] \in 1 .. Len(batch[l]) + 1
  <2>1. \A S : <<>> \in Seq(S)
    OBVIOUS
  <2>2. \A l \in Loops : Len(batch[l]) = 0 /\ at[l] = 1
    BY DEF Init
  <2> QED  BY <2>1, <2>2 DEF Init
<1>7. setup.threads # 0 => next < setup.threads
  BY <1>1 DEF Init
<1> QED  BY <1>1, <1>2, <1>4, <1>5, <1>6, <1>7 DEF Types, TypeOK

\* All steps together.
LEMMA NextTypes == Types /\ [Next]_vars => Types'
<1> SUFFICES ASSUME Types, [Next]_vars PROVE Types'
  OBVIOUS
<1>1. CASE NewConnected
  BY <1>1, AcceptTypes, NewConnectedTypes DEF NewConnected
<1>2. CASE \E l \in Loops : LoopStep(l)
  BY <1>2, PollTypes, DispatchTypes, HandlerTypes, FunctionsTypes, RunTypes DEF LoopStep
<1>3. CASE \E c \in Conns : PeerSends(c) \/ PeerCloses(c) \/ PeerResets(c)
  BY <1>3, PeerTypes
<1>4. CASE UNCHANGED vars
  BY <1>4, StutterTypes
<1> QED  BY <1>1, <1>2, <1>3, <1>4 DEF Next

\* Every table of the server, its queues and its registries keep their types, and the index of
\* the next io loop stays within the pool (TcpServer.cpp, EventLoopThreadPool.cpp:39), for any
\* peers, loops, connections and descriptors.
THEOREM TypeCorrect == Spec => []TypeOK
<1>1. Types => TypeOK
  BY DEF Types
<1> QED  BY <1>1, InitTypes, NextTypes, PTL DEF Spec

\* The functors a loop keeps alive, and those among them it has still to run.
Held(l)   == Range(functions[l]) \cup Range(batch[l])
Coming(l) == Range(functions[l]) \cup {batch[l][i] : i \in at[l] .. Len(batch[l])}

\* How far newConnected is with c: not yet in connections_; connectedHandle handed to its loop.
Fresh(c)  == c = created /\ accepting \in {"inserting", "constructed", "bound"}
Staged(c) == c # created \/ accepting \in {"handedOff", "no"}

\* Everything is with the loop and under the name of the connection it belongs to.
Places ==
    /\ \A c \in Created : loop[c] # Main
    /\ \A n \in Names : connections[n] # None =>
          connections[n] \in Created /\ Name(connections[n]) = n
    /\ \A l \in Loops, f \in Fds : pool[l][f] # None =>
          pool[l][f] \in Created /\ loop[pool[l][f]] = l /\ fd[pool[l][f]] = f
    /\ \A l \in Loops : \A f \in Held(l) :
          /\ f.conn \in Created /\ ~Fresh(f.conn)
          /\ f.op = "remove" => l = Main
          /\ f.op # "remove" => loop[f.conn] = l

\* A loop handles events or runs functors, never both; newConnected is inside an event.
Phases ==
    /\ \A l \in Loops :
          /\ batch[l] # <<>> => pc[l] = "run"
          /\ calls[l] # <<>> \/ active[l] # {} => pc[l] = "handle"
          /\ pc[l] # "run" => at[l] = 1
    /\ accepting # "no" => pc[Main] = "handle"

\* A registered connection is kept alive by newConnected, by connections_ or by the functor
\* that deregisters it; an entry of connections_ is registered; until connectedHandle has
\* run, the connection stays registered.
OwnedBy(c) ==
    /\ Registered(c) => \/ Fresh(c) \/ connections[Name(c)] = c
                        \/ \E l \in Loops : Functor("removed", c) \in Coming(l)
    /\ connections[Name(c)] = c => Registered(c) /\ ~Fresh(c)
    /\ \A l \in Loops : Functor("removed", c) \in Held(l) =>
          connections[Name(c)] # c /\ ~(c = created /\ accepting # "no")
    /\ Constructed(c) /\ ~HandedOff(c) => Registered(c)
    /\ ~Constructed(c) => ~Registered(c)

Owned == \A c \in Created : OwnedBy(c)

\* No two living connections share a descriptor or a name.
Distinct ==
    \A c, d \in Created : Alive(c) /\ Alive(d) /\ c # d => fd[c] # fd[d] /\ Name(c) # Name(d)

\* connectedHandle is never queued behind removedHandle.
OrderOf(l, c) ==
    /\ \A i, j \in at[l] .. Len(batch[l]) :
          i < j /\ batch[l][i] = Functor("removed", c) => batch[l][j] # Functor("connected", c)
    /\ \A i, j \in 1 .. Len(functions[l]) :
          i < j /\ functions[l][i] = Functor("removed", c) =>
             functions[l][j] # Functor("connected", c)
    /\ \A i \in at[l] .. Len(batch[l]) : batch[l][i] = Functor("removed", c) =>
          Functor("connected", c) \notin Range(functions[l])

InOrder == \A l \in Loops : \A c \in Created : OrderOf(l, c)

\* Epoll's view of a connection agrees with the pool's.
WatchRight ==
    \A c \in Created :
       /\ Alive(c) /\ Constructed(c) => (Registered(c) <=> watch[c] # "out")
       /\ ~Constructed(c) => watch[c] = "out"
       /\ Registered(c) /\ HandedOff(c) => watch[c] \in {"read", "both"}

\* What a loop is handling is registered with it, and its peer has gone if there is an error
\* or a hang-up to handle.
EventRight(l, e) ==
    e.conn # None =>
       /\ loop[e.conn] = l /\ Registered(e.conn)
       /\ "err" \in e.events \/ "hup" \in e.events => Gone(e.conn)

CallsRight(l) ==
    calls[l] # <<>> =>
       /\ handling[l] \in Created /\ loop[handling[l]] = l /\ Registered(handling[l])
       /\ "close" \in Range(calls[l]) \/ "error" \in Range(calls[l]) => Gone(handling[l])

Reporting == \A l \in Loops : (\A e \in active[l] : EventRight(l, e)) /\ CallsRight(l)

\* Nobody removes a connection whose peer has not hung up.
OpenStays ==
    \A c \in Created : ~Gone(c) =>
       /\ \A l \in Loops : \A f \in Held(l) : f.conn = c => f.op = "connected"
       /\ Fresh(c) \/ connections[Name(c)] = c

\* At least one io loop, and no peer back at once from the port it has reset.
Pooled == setup.threads # 0 /\ ~setup.quickReuse

\* HandedOff, with what a loop has still to run as a set.
LEMMA HandedOffMeans ==
    ASSUME NEW c
    PROVE  HandedOff(c) <=> Staged(c) /\ \A l \in Loops : Functor("connected", c) \notin Coming(l)
BY DEF HandedOff, Staged, Coming

\* The same after a step.
LEMMA HandedOffNext ==
   (\A c \in Conns : HandedOff(c) <=>
       Staged(c) /\ \A l \in Loops : Functor("connected", c) \notin Coming(l))'
<1>1. \A c \in Conns : HandedOff(c) <=>
         Staged(c) /\ \A l \in Loops : Functor("connected", c) \notin Coming(l)
  BY HandedOffMeans
<1> QED  BY <1>1, PTL

\* Who keeps a connection alive, with connections_ read at its name alone.
LEMMA AliveMeans ==
    ASSUME Types, Places, NEW c \in Created
    PROVE  Alive(c) <=> \/ connections[Name(c)] = c
                        \/ \E l \in Loops : \E f \in Held(l) : f.conn = c
                        \/ c = created /\ accepting # "no"
<1>1. connections \in [Names -> Conns \cup {None}] /\ Name(c) \in Names
      /\ c \in Conns /\ c # None
  <2>1. c \in Conns /\ Name(c) \in Names
    BY CreatedType DEF Types
  <2> QED  BY <2>1, Tables DEF Conns, None
<1>2. c \in Range(connections) => connections[Name(c)] = c
  <2> SUFFICES ASSUME c \in Range(connections) PROVE connections[Name(c)] = c
    OBVIOUS
  <2>1. PICK n \in Names : connections[n] = c
    BY <1>1 DEF Range
  <2> QED  BY <1>1, <2>1 DEF Places
<1>3. connections[Name(c)] = c => c \in Range(connections)
  BY <1>1 DEF Range
<1>4. InFunctor(c) <=> \E l \in Loops : \E f \in Held(l) : f.conn = c
  BY DEF InFunctor, Held
<1> QED  BY <1>2, <1>3, <1>4 DEF Alive

\* The same as a formula, to be primed.
LEMMA AliveAlways ==
    Types /\ Places => \A c \in Created :
        Alive(c) <=> \/ connections[Name(c)] = c
                     \/ \E l \in Loops : \E f \in Held(l) : f.conn = c
                     \/ c = created /\ accepting # "no"
BY AliveMeans

\* The same after a step.
LEMMA AliveNext ==
   (Types /\ Places => \A c \in Created :
        Alive(c) <=> \/ connections[Name(c)] = c
                     \/ \E l \in Loops : \E f \in Held(l) : f.conn = c
                     \/ c = created /\ accepting # "no")'
BY AliveAlways, PTL

\* What is to run is held.
LEMMA ComingHeld ==
    ASSUME Types, NEW l \in Loops
    PROVE  /\ Coming(l) \subseteq Held(l) /\ Held(l) \subseteq Functors
           /\ Range(functions[l]) \subseteq Coming(l)
           /\ at[l] \in 1 .. Len(batch[l]) => batch[l][at[l]] \in Coming(l)
<1>1. batch[l] \in Seq(Functors) /\ functions[l] \in Seq(Functors)
      /\ at[l] \in Nat /\ at[l] \in 1 .. Len(batch[l]) + 1
  BY Tables
<1>2. Len(batch[l]) \in Nat /\ DOMAIN batch[l] = 1 .. Len(batch[l])
      /\ batch[l] \in [1 .. Len(batch[l]) -> Functors]
      /\ DOMAIN functions[l] = 1 .. Len(functions[l])
      /\ functions[l] \in [1 .. Len(functions[l]) -> Functors]
  BY <1>1, LenProperties
<1>3. at[l] .. Len(batch[l]) \subseteq 1 .. Len(batch[l])
  BY <1>1, <1>2
<1>4. Range(batch[l]) = {batch[l][i] : i \in 1 .. Len(batch[l])}
      /\ Range(functions[l]) = {functions[l][i] : i \in 1 .. Len(functions[l])}
  BY <1>2 DEF Range
<1>5. at[l] \in 1 .. Len(batch[l]) => at[l] \in at[l] .. Len(batch[l])
  BY <1>1, <1>2
<1> QED  BY <1>2, <1>3, <1>4, <1>5 DEF Coming, Held

\* A connection in a map of descriptors is alive.
LEMMA RegisteredLives ==
    ASSUME Types, Places, Owned, NEW c \in Created, Registered(c)
    PROVE  Alive(c)
<1>1. CASE Fresh(c)
  BY <1>1, AliveMeans DEF Fresh
<1>2. CASE connections[Name(c)] = c
  BY <1>2, AliveMeans
<1>3. CASE \E l \in Loops : Functor("removed", c) \in Coming(l)
  <2>1. PICK l \in Loops : Functor("removed", c) \in Held(l)
    BY <1>3, ComingHeld
  <2> QED  BY <2>1, AliveMeans DEF Functor
<1> QED  BY <1>1, <1>2, <1>3 DEF Owned, OwnedBy

\* A step that leaves connections_, the pools and the functors that deregister alone keeps
\* what they owe to each other.
LEMMA FrameOwned ==
    ASSUME Types, Types', Places, Owned, Distinct,
           UNCHANGED <<connVars, connections, pool>>,
           accepting' # "no" => accepting # "no",
           \A c \in Created : /\ Fresh(c)' <=> Fresh(c)
                              /\ Constructed(c)' <=> Constructed(c)
                              /\ HandedOff(c) => HandedOff(c)',
           \A l \in Loops : \A c \in Created :
              Functor("removed", c) \in Coming(l)' <=> Functor("removed", c) \in Coming(l),
           \A l \in Loops : \A f \in Held(l)' :
              \/ f \in Held(l)
              \/ /\ f.op # "removed" /\ f.conn \in Created /\ ~Fresh(f.conn) /\ Alive(f.conn)
                 /\ f.op = "remove" => l = Main
                 /\ f.op # "remove" => loop[f.conn] = l
    PROVE  Places' /\ Owned' /\ Distinct'
           /\ \A c \in Created : Alive(c)' => Alive(c)
<1>1. /\ Created' = Created /\ \A c \in Created : Name(c)' = Name(c)
      /\ \A c \in Created : Registered(c)' <=> Registered(c)
      /\ created' = created /\ loop' = loop /\ fd' = fd /\ peer' = peer
      /\ connections' = connections /\ pool' = pool
  BY DEF connVars, Created, Name, Registered
<1>2. Places'
  <2>1. (\A c \in Created : loop[c] # Main)'
    BY <1>1 DEF Places
  <2>2. (\A n \in Names : connections[n] # None =>
           connections[n] \in Created /\ Name(connections[n]) = n)'
    BY <1>1 DEF Places, Name
  <2>3. (\A l \in Loops, f \in Fds : pool[l][f] # None =>
          pool[l][f] \in Created /\ loop[pool[l][f]] = l /\ fd[pool[l][f]] = f)'
    BY <1>1 DEF Places
  <2>4. (\A l \in Loops : \A f \in Held(l) :
          /\ f.conn \in Created /\ ~Fresh(f.conn)
          /\ f.op = "remove" => l = Main
          /\ f.op # "remove" => loop[f.conn] = l)'
    BY <1>1 DEF Places
  <2> QED  BY <2>1, <2>2, <2>3, <2>4 DEF Places
<1>3. \A c \in Created : Alive(c)' => Alive(c)
  <2> SUFFICES ASSUME NEW c \in Created, Alive(c)' PROVE Alive(c)
    OBVIOUS
  <2>1. \/ connections'[Name(c)'] = c
        \/ \E l \in Loops : \E f \in Held(l)' : f.conn = c
        \/ c = created' /\ accepting' # "no"
    BY <1>1, <1>2, AliveNext
  <2> QED  BY <1>1, <2>1, AliveMeans
<1>5. Owned'
  <2>1. \A c \in Created : Functor("removed", c).op = "removed"
    BY DEF Functor
  <2>2. \A l \in Loops : \A c \in Created :
           Functor("removed", c) \in Held(l)' => Functor("removed", c) \in Held(l)
    BY <2>1
  <2>3. \A c \in Created : OwnedBy(c)'
    BY <1>1, <2>2 DEF Owned, OwnedBy
  <2> QED  BY <1>1, <2>3 DEF Owned, OwnedBy
<1>6. Distinct'
  BY <1>1, <1>3 DEF Distinct
<1> QED  BY <1>2, <1>3, <1>5, <1>6

\* The same of a step that leaves everything in epoll, and read.
LEMMA Frame ==
    ASSUME Types, Types', Places, Owned, Distinct, WatchRight,
           UNCHANGED <<connVars, connections, pool>>,
           \A c \in Created : /\ watch'[c] = "out" <=> watch[c] = "out"
                              /\ watch[c] \in {"read", "both"} => watch'[c] \in {"read", "both"},
           accepting' # "no" => accepting # "no",
           \A c \in Created : /\ Fresh(c)' <=> Fresh(c)
                              /\ Constructed(c)' <=> Constructed(c)
                              /\ HandedOff(c)' <=> HandedOff(c),
           \A l \in Loops : \A c \in Created :
              Functor("removed", c) \in Coming(l)' <=> Functor("removed", c) \in Coming(l),
           \A l \in Loops : \A f \in Held(l)' :
              \/ f \in Held(l)
              \/ /\ f.op # "removed" /\ f.conn \in Created /\ ~Fresh(f.conn) /\ Alive(f.conn)
                 /\ f.op = "remove" => l = Main
                 /\ f.op # "remove" => loop[f.conn] = l
    PROVE  Places' /\ Owned' /\ Distinct' /\ WatchRight'
<1>1. /\ Created' = Created /\ \A c \in Created : Registered(c)' <=> Registered(c)
  BY DEF connVars, Created, Registered
<1>2. Places' /\ Owned' /\ Distinct' /\ \A c \in Created : Alive(c)' => Alive(c)
  BY FrameOwned
<1>3. WatchRight'
  BY <1>1, <1>2 DEF WatchRight
<1> QED  BY <1>2, <1>3

\* Whether connectedHandle has run, as far as the stage and the queues tell.
LEMMA SameHandedOff ==
    ASSUME Types, UNCHANGED created,
           \A c \in Created : Staged(c)' <=> Staged(c),
           \A l \in Loops : \A c \in Created :
              Functor("connected", c) \in Coming(l)' <=> Functor("connected", c) \in Coming(l)
    PROVE  \A c \in Created : HandedOff(c)' <=> HandedOff(c)
<1> SUFFICES ASSUME NEW c \in Created PROVE HandedOff(c)' <=> HandedOff(c)
  OBVIOUS
<1>1. c \in Conns
  BY CreatedType DEF Types
<1> QED  BY <1>1, HandedOffNext, HandedOffMeans

-------------------------------------------------------------------------------
(***************************************************************************)
(* What the steps do to the queues.                                        *)
(***************************************************************************)

\* A step that leaves the queues alone.
LEMMA SameSets ==
    ASSUME UNCHANGED queueVars
    PROVE  \A l \in Loops : Held(l)' = Held(l) /\ Coming(l)' = Coming(l)
BY DEF queueVars, Held, Coming

\* queueInLoop adds one functor, to be run and held.
LEMMA QueueSets ==
    ASSUME Types, NEW l \in Loops, NEW f \in Functors, QueueFor(l, f), UNCHANGED <<batch, at>>
    PROVE  /\ Held(l)' = Held(l) \cup {f} /\ Coming(l)' = Coming(l) \cup {f}
           /\ \A k \in Loops \ {l} : Held(k)' = Held(k) /\ Coming(k)' = Coming(k)
<1>1. functions \in [Loops -> Seq(Functors)]
      /\ functions' = [functions EXCEPT ![l] = Append(@, f)]
  BY Tables DEF QueueFor
<1>2. functions'[l] = Append(functions[l], f) /\ \A k \in Loops \ {l} : functions'[k] = functions[k]
  BY <1>1
<1>3. Range(functions'[l]) = Range(functions[l]) \cup {f}
  BY <1>1, <1>2, RangeAppend
<1> QED  BY <1>2, <1>3 DEF Held, Coming

\* The swap of callFunctors loses and adds nothing.
LEMMA BeginSets ==
    ASSUME Types, Phases, NEW l \in Loops, BeginFunctions(l)
    PROVE  \A k \in Loops : Held(k)' = Held(k) /\ Coming(k)' = Coming(k)
<1>1. /\ batch' = [batch EXCEPT ![l] = functions[l]]
      /\ functions' = [functions EXCEPT ![l] = <<>>]
      /\ at' = [at EXCEPT ![l] = 1] /\ pc[l] = "handle"
  BY DEF BeginFunctions
<1>2. batch[l] = <<>> /\ at[l] = 1
  BY <1>1 DEF Phases
<1>3. /\ batch'[l] = functions[l] /\ functions'[l] = <<>> /\ at'[l] = 1
      /\ \A k \in Loops \ {l} : batch'[k] = batch[k] /\ functions'[k] = functions[k] /\ at'[k] = at[k]
  BY <1>1, Tables
<1>4. functions[l] \in Seq(Functors) /\ DOMAIN functions[l] = 1 .. Len(functions[l])
  BY Tables, LenProperties
<1>5. Range(functions[l]) = {functions[l][i] : i \in 1 .. Len(functions[l])}
  BY <1>4 DEF Range
<1>6. Range(batch[l]) = {} /\ {batch[l][i] : i \in at[l] .. Len(batch[l])} = {}
  BY <1>2, RangeEmpty
<1>7. Held(l)' = Held(l) /\ Coming(l)' = Coming(l)
  <2>1. Held(l)' = Range(functions'[l]) \cup Range(batch'[l])
        /\ Coming(l)' = Range(functions'[l]) \cup {batch'[l][i] : i \in at'[l] .. Len(batch'[l])}
    BY DEF Held, Coming
  <2>2. Held(l)' = Range(functions[l]) /\ Coming(l)' = Range(functions[l])
    BY <1>3, <1>5, <2>1, RangeEmpty
  <2>3. Held(l) = Range(functions[l]) /\ Coming(l) = Range(functions[l])
    BY <1>6 DEF Held, Coming
  <2> QED  BY <2>2, <2>3
<1> QED  BY <1>3, <1>7 DEF Held, Coming

\* The end of a batch lets go of functors that have run.
LEMMA EndSets ==
    ASSUME Types, NEW l \in Loops, EndFunctions(l)
    PROVE  \A k \in Loops : Held(k)' \subseteq Held(k) /\ Coming(k)' = Coming(k)
<1>1. /\ at[l] > Len(batch[l]) /\ batch' = [batch EXCEPT ![l] = <<>>]
      /\ at' = [at EXCEPT ![l] = 1] /\ functions' = functions
  BY DEF EndFunctions
<1>2. /\ batch'[l] = <<>> /\ at'[l] = 1
      /\ \A k \in Loops \ {l} : batch'[k] = batch[k] /\ at'[k] = at[k]
  BY <1>1, Tables
<1>3. Len(batch[l]) \in Nat /\ at[l] \in Nat
  BY Tables, LenProperties
<1>4. at[l] .. Len(batch[l]) = {} /\ 1 .. 0 = {}
  BY <1>1, <1>3
<1>5. Held(l)' \subseteq Held(l) /\ Coming(l)' = Coming(l)
  BY <1>1, <1>2, <1>4, RangeEmpty DEF Held, Coming
<1> QED  BY <1>1, <1>2, <1>5 DEF Held, Coming

\* Running a functor takes at most that functor out of what is to come.
LEMMA AdvanceSets ==
    ASSUME Types, NEW l \in Loops, at[l] \in 1 .. Len(batch[l]),
           at' = [at EXCEPT ![l] = @ + 1], UNCHANGED <<batch, functions>>
    PROVE  /\ \A k \in Loops : Held(k)' = Held(k)
           /\ \A k \in Loops \ {l} : Coming(k)' = Coming(k)
           /\ Coming(l)' \cup {batch[l][at[l]]} = Coming(l)
<1>1. at'[l] = at[l] + 1 /\ \A k \in Loops \ {l} : at'[k] = at[k]
  BY Tables
<1>2. at[l] \in Nat /\ Len(batch[l]) \in Nat
  BY Tables, LenProperties
<1>3. at[l] .. Len(batch[l]) = (at[l] + 1) .. Len(batch[l]) \cup {at[l]}
  BY <1>2
<1> QED  BY <1>1, <1>3 DEF Held, Coming

\* A functor that runs and queues another one.
LEMMA AdvanceAndQueue ==
    ASSUME Types, NEW l \in Loops, at[l] \in 1 .. Len(batch[l]),
           at' = [at EXCEPT ![l] = @ + 1], UNCHANGED batch,
           NEW m \in Loops, NEW f \in Functors, QueueFor(m, f)
    PROVE  /\ \A k \in Loops : \A h \in Held(k)' : h \in Held(k) \/ (h = f /\ k = m)
           /\ \A k \in Loops : \A h : h # batch[l][at[l]] /\ h # f =>
                 (h \in Coming(k)' <=> h \in Coming(k))
           /\ f \in Coming(m)'
<1>1. at'[l] = at[l] + 1 /\ \A k \in Loops \ {l} : at'[k] = at[k]
  BY Tables
<1>2. at[l] \in Nat /\ Len(batch[l]) \in Nat
  BY Tables, LenProperties
<1>3. at[l] .. Len(batch[l]) = (at[l] + 1) .. Len(batch[l]) \cup {at[l]}
  BY <1>2
<1>4. functions \in [Loops -> Seq(Functors)]
      /\ functions' = [functions EXCEPT ![m] = Append(@, f)]
  BY Tables DEF QueueFor
<1>5. functions'[m] = Append(functions[m], f) /\ \A k \in Loops \ {m} : functions'[k] = functions[k]
  BY <1>4
<1>6. Range(functions'[m]) = Range(functions[m]) \cup {f}
  BY <1>4, <1>5, RangeAppend
<1>7. Held(m)' = Held(m) \cup {f} /\ \A k \in Loops \ {m} : Held(k)' = Held(k)
  BY <1>5, <1>6 DEF Held
<1>8. \A k \in Loops \ {l} : Coming(k)' = IF k = m THEN Coming(k) \cup {f} ELSE Coming(k)
  BY <1>1, <1>5, <1>6 DEF Coming
<1>9. {batch'[l][i] : i \in at'[l] .. Len(batch'[l])} \cup {batch[l][at[l]]}
         = {batch[l][i] : i \in at[l] .. Len(batch[l])}
  BY <1>1, <1>3
<1>10. Coming(l)' \cup {batch[l][at[l]]} = IF l = m THEN Coming(l) \cup {f} ELSE Coming(l)
  BY <1>5, <1>6, <1>9 DEF Coming
<1>11. f \in Coming(m)'
  BY <1>6 DEF Coming
<1>12. \A k \in Loops : \A h \in Held(k)' : h \in Held(k) \/ (h = f /\ k = m)
  BY <1>7
<1>13. \A k \in Loops : \A h : h # batch[l][at[l]] /\ h # f => (h \in Coming(k)' <=> h \in Coming(k))
  BY <1>8, <1>10
<1> QED  BY <1>11, <1>12, <1>13

-------------------------------------------------------------------------------
(***************************************************************************)
(* The order of the functors.                                              *)
(***************************************************************************)

\* The swap keeps the order,
LEMMA OrderBegins ==
    ASSUME Types, Phases, InOrder, Created' = Created, NEW l \in Loops, BeginFunctions(l)
    PROVE  InOrder'
<1>1. /\ batch' = [batch EXCEPT ![l] = functions[l]]
      /\ functions' = [functions EXCEPT ![l] = <<>>]
      /\ at' = [at EXCEPT ![l] = 1]
  BY DEF BeginFunctions
<1>2. /\ batch'[l] = functions[l] /\ functions'[l] = <<>> /\ at'[l] = 1
      /\ \A k \in Loops \ {l} : batch'[k] = batch[k] /\ functions'[k] = functions[k] /\ at'[k] = at[k]
  BY <1>1, Tables
<1>3. 1 .. 0 = {} /\ Range(<<>>) = {} /\ Len(<<>>) = 0
  BY RangeEmpty
<1> SUFFICES ASSUME NEW k \in Loops, NEW c \in Created PROVE OrderOf(k, c)'
  BY DEF InOrder, OrderOf
<1>4. OrderOf(k, c) /\ OrderOf(l, c)
  BY DEF InOrder, OrderOf
<1>5. CASE k = l
  BY <1>2, <1>3, <1>4, <1>5 DEF OrderOf
<1>6. CASE k # l
  BY <1>2, <1>4, <1>6 DEF OrderOf
<1> QED  BY <1>5, <1>6

\* the end of a batch does,
LEMMA OrderEnds ==
    ASSUME Types, InOrder, Created' = Created, NEW l \in Loops, EndFunctions(l)
    PROVE  InOrder'
<1>1. /\ batch' = [batch EXCEPT ![l] = <<>>] /\ at' = [at EXCEPT ![l] = 1] /\ functions' = functions
  BY DEF EndFunctions
<1>2. /\ batch'[l] = <<>> /\ at'[l] = 1
      /\ \A k \in Loops \ {l} : batch'[k] = batch[k] /\ at'[k] = at[k]
  BY <1>1, Tables
<1>3. 1 .. 0 = {} /\ Len(<<>>) = 0
  BY RangeEmpty
<1> SUFFICES ASSUME NEW k \in Loops, NEW c \in Created PROVE OrderOf(k, c)'
  BY DEF InOrder, OrderOf
<1>4. OrderOf(k, c)
  BY DEF InOrder, OrderOf
<1>5. CASE k = l
  BY <1>1, <1>2, <1>3, <1>4, <1>5 DEF OrderOf
<1>6. CASE k # l
  BY <1>1, <1>2, <1>4, <1>6 DEF OrderOf
<1> QED  BY <1>5, <1>6

\* Functors are run from the front and queued at the back.
LEMMA OrderKept ==
    ASSUME Types, InOrder, Created' = Created, batch' = batch,
           \/ at' = at
           \/ \E l \in Loops : at' = [at EXCEPT ![l] = @ + 1],
           \/ functions' = functions
           \/ \E m \in Loops, f \in Functors :
                 /\ functions' = [functions EXCEPT ![m] = Append(@, f)]
                 /\ \A c \in Created : f = Functor("connected", c) =>
                                          Functor("removed", c) \notin Coming(m)
    PROVE  InOrder'
<1> SUFFICES ASSUME NEW k \in Loops, NEW c \in Created PROVE OrderOf(k, c)'
  BY DEF InOrder, OrderOf
<1>1. OrderOf(k, c) /\ at[k] \in Nat /\ Len(batch[k]) \in Nat
      /\ batch[k] \in Seq(Functors) /\ functions[k] \in Seq(Functors)
  BY Tables, LenProperties DEF InOrder, OrderOf
<1>2. at'[k] \in {at[k], at[k] + 1}
  BY Tables
<1>3. \A i \in at'[k] .. Len(batch[k]) : i \in at[k] .. Len(batch[k])
  BY <1>1, <1>2
<1>4. CASE functions'[k] = functions[k]
  BY <1>1, <1>3, <1>4 DEF OrderOf
<1>5. CASE functions'[k] # functions[k]
  <2>1. PICK f \in Functors :
           /\ functions'[k] = Append(functions[k], f)
           /\ f = Functor("connected", c) => Functor("removed", c) \notin Coming(k)
    BY <1>5, Tables
  <2>2. /\ Range(functions'[k]) = Range(functions[k]) \cup {f}
        /\ Len(functions'[k]) = Len(functions[k]) + 1 /\ functions'[k][Len(functions[k]) + 1] = f
        /\ \A i \in 1 .. Len(functions[k]) : functions'[k][i] = functions[k][i]
        /\ Len(functions[k]) \in Nat
    BY <1>1, <2>1, RangeAppend, LenProperties
  <2>3. \A i \in 1 .. Len(functions[k]) : functions[k][i] \in Coming(k)
    <3>1. DOMAIN functions[k] = 1 .. Len(functions[k])
      BY <1>1, LenProperties
    <3> QED  BY <3>1 DEF Coming, Range
  <2>4. \A i, j \in 1 .. Len(functions'[k]) :
             i < j /\ functions'[k][i] = Functor("removed", c) =>
                functions'[k][j] # Functor("connected", c)
    <3> SUFFICES ASSUME NEW i \in 1 .. Len(functions'[k]), NEW j \in 1 .. Len(functions'[k]),
                        i < j, functions'[k][i] = Functor("removed", c)
                 PROVE  functions'[k][j] # Functor("connected", c)
      OBVIOUS
    <3>1. i \in 1 .. Len(functions[k]) /\ functions[k][i] = Functor("removed", c)
      BY <2>2
    <3>2. CASE j \in 1 .. Len(functions[k])
      BY <1>1, <2>2, <3>1, <3>2 DEF OrderOf
    <3>3. CASE j = Len(functions[k]) + 1
      BY <2>1, <2>2, <2>3, <3>1, <3>3
    <3> QED  BY <2>2, <3>2, <3>3
  <2>5. \A i \in at'[k] .. Len(batch'[k]) : batch'[k][i] = Functor("removed", c) =>
             Functor("connected", c) \notin Range(functions'[k])
    <3>1. \A i \in at[k] .. Len(batch[k]) : batch[k][i] \in Coming(k)
      BY DEF Coming
    <3> QED  BY <1>1, <1>3, <2>1, <2>2, <3>1 DEF OrderOf
  <2>6. \A i, j \in at'[k] .. Len(batch'[k]) :
             i < j /\ batch'[k][i] = Functor("removed", c) => batch'[k][j] # Functor("connected", c)
    BY <1>1, <1>3 DEF OrderOf
  <2> QED  BY <2>4, <2>5, <2>6 DEF OrderOf
<1> QED  BY <1>4, <1>5

\* The inductive invariant.
IInv == /\ Types /\ Places /\ Phases /\ Owned /\ Distinct /\ InOrder /\ WatchRight
        /\ Reporting /\ OpenStays

\* A step that accepts nobody leaves names, loops and descriptors alone.
LEMMA NamesStay ==
    ASSUME UNCHANGED connVars
    PROVE  /\ Created' = Created /\ created' = created /\ loop' = loop /\ fd' = fd /\ setup' = setup
           /\ \A c : Name(c)' = Name(c)
BY DEF connVars, Created, Name

\* Nobody new is held who has not been hung up on.
LEMMA StillOpen ==
    ASSUME OpenStays, UNCHANGED <<connVars, connections>>,
           \A c \in Created : Fresh(c) => Fresh(c)',
           \A c \in Created : Gone(c) => Gone(c)',
           \A l \in Loops : \A f \in Held(l)' : f \in Held(l) \/ Gone(f.conn)
    PROVE  OpenStays'
<1>1. \A c \in Created : ~Gone(c)' =>
         /\ \A l \in Loops : \A f \in Held(l)' : f.conn = c => f.op = "connected"
         /\ Fresh(c)' \/ connections'[Name(c)'] = c
  BY NamesStay DEF OpenStays
<1>2. Created' = Created
  BY NamesStay
<1> QED  BY <1>1, <1>2 DEF OpenStays

\* What loops are handling stays true while nobody they may be handling is deregistered.
LEMMA ReportingKept ==
    ASSUME Types, Reporting, Created \subseteq Created',
           \A c \in Created : /\ loop'[c] = loop[c]
                              /\ Registered(c) /\ (active[loop[c]] # {} \/ calls[loop[c]] # <<>>)
                                    => pool'[loop'[c]][fd'[c]] = c
                              /\ Gone(c) => Gone(c)',
           \A l \in Loops :
              /\ active'[l] \subseteq active[l]
              /\ calls'[l] # <<>> => /\ calls[l] # <<>> /\ handling'[l] = handling[l]
                                     /\ Range(calls'[l]) \subseteq Range(calls[l])
    PROVE  Reporting'
<1> SUFFICES ASSUME NEW l \in Loops
             PROVE  (\A e \in active[l] : EventRight(l, e))' /\ CallsRight(l)'
  BY DEF Reporting
<1>1. \A e \in active'[l] : e.conn # None =>
         /\ loop'[e.conn] = l /\ pool'[loop'[e.conn]][fd'[e.conn]] = e.conn
         /\ "err" \in e.events \/ "hup" \in e.events => Gone(e.conn)'
  <2> SUFFICES ASSUME NEW e \in active'[l], e.conn # None
               PROVE /\ loop'[e.conn] = l /\ pool'[loop'[e.conn]][fd'[e.conn]] = e.conn
                     /\ "err" \in e.events \/ "hup" \in e.events => Gone(e.conn)'
    OBVIOUS
  <2>1. e \in active[l] /\ e.conn \in Created
    BY Tables
  <2>2. EventRight(l, e)
    BY <2>1 DEF Reporting
  <2> QED  BY <2>1, <2>2 DEF EventRight
<1>2. CallsRight(l)'
  <2> SUFFICES ASSUME calls'[l] # <<>>
               PROVE /\ handling'[l] \in Created' /\ loop'[handling'[l]] = l
                     /\ pool'[loop'[handling'[l]]][fd'[handling'[l]]] = handling'[l]
                     /\ "close" \in Range(calls'[l]) \/ "error" \in Range(calls'[l])
                           => link'[handling'[l]] \notin {"up", "data"}
    BY DEF CallsRight, Registered, Gone
  <2>1. CallsRight(l) /\ calls[l] # <<>> /\ handling'[l] = handling[l]
        /\ Range(calls'[l]) \subseteq Range(calls[l])
    BY DEF Reporting
  <2>2. /\ handling[l] \in Created /\ loop[handling[l]] = l /\ Registered(handling[l])
        /\ "close" \in Range(calls'[l]) \/ "error" \in Range(calls'[l]) => Gone(handling[l])
    BY <2>1 DEF CallsRight
  <2> QED  BY <2>1, <2>2 DEF Gone
<1> QED  BY <1>1, <1>2 DEF EventRight, Registered, Gone

\* The same of a step that leaves the tables and the pools alone.
LEMMA StillReporting ==
    ASSUME Types, Reporting, UNCHANGED <<connVars, pool>>,
           \A c \in Created : Gone(c) => Gone(c)',
           \A l \in Loops :
              /\ active'[l] \subseteq active[l]
              /\ calls'[l] # <<>> => /\ calls[l] # <<>> /\ handling'[l] = handling[l]
                                     /\ Range(calls'[l]) \subseteq Range(calls[l])
    PROVE  Reporting'
<1>1. loop' = loop /\ fd' = fd /\ Created' = Created /\ pool' = pool
  BY NamesStay
<1>2. \A c \in Created : /\ loop'[c] = loop[c]
                         /\ Registered(c) => pool'[loop'[c]][fd'[c]] = c
  BY <1>1 DEF Registered
<1> QED  BY <1>1, <1>2, ReportingKept

\* A peer sends, hangs up or resets: nobody comes back.
LEMMA PeerStep ==
    ASSUME IInv, Types', NEW c \in Conns, PeerSends(c) \/ PeerCloses(c) \/ PeerResets(c)
    PROVE  IInv'
<1>1. /\ UNCHANGED <<connVars, st, watch, accepting, connections, pool, queueVars, handVars, pc, up>>
      /\ \/ link' = [link EXCEPT ![c] = "data"] /\ link[c] = "up"
         \/ \E v \in {"eof", "rst", "rstData"} : link' = [link EXCEPT ![c] = v]
  BY DEF PeerSends, PeerCloses, PeerResets
<1>3. \A d \in Created : Gone(d) => Gone(d)'
  BY <1>1, Tables DEF IInv, Gone
<1>4. \A d : /\ Fresh(d)' <=> Fresh(d)
             /\ Constructed(d)' <=> Constructed(d)
             /\ Staged(d)' <=> Staged(d)
  BY <1>1, NamesStay DEF Fresh, Constructed, Staged
<1>5. Places' /\ Owned' /\ Distinct' /\ WatchRight'
  BY <1>1, <1>4, SameSets, SameHandedOff, NamesStay, Frame DEF IInv
<1>6. Phases'
  BY <1>1 DEF IInv, Phases, queueVars, handVars
<1>7. InOrder'
  BY <1>1, NamesStay, OrderKept DEF IInv, queueVars
<1>8. Reporting'
  BY <1>1, <1>3, StillReporting DEF IInv, Gone, handVars
<1>9. OpenStays'
  BY <1>1, <1>3, <1>4, SameSets, StillOpen DEF IInv, Gone
<1> QED  BY <1>5, <1>6, <1>7, <1>8, <1>9 DEF IInv

\* accept finds nobody, or nothing happens.
LEMMA FailStep ==
    ASSUME IInv, Types', AcceptFails \/ UNCHANGED vars
    PROVE  IInv'
<1>1. /\ UNCHANGED <<connVars, st, link, watch, accepting, connections, pool, queueVars,
                     calls, handling, pc, up>>
      /\ \/ active' = active
         \/ active' = [active EXCEPT ![Main] = @ \ {Connecting}]
  BY DEF AcceptFails, AcceptHandle, vars, handVars
<1>2. \A l \in Loops : active'[l] \subseteq active[l]
  BY <1>1, Tables DEF IInv
<1>4. \A d : /\ Fresh(d)' <=> Fresh(d)
             /\ Constructed(d)' <=> Constructed(d)
             /\ Staged(d)' <=> Staged(d)
  BY <1>1, NamesStay DEF Fresh, Constructed, Staged
<1>5. Places' /\ Owned' /\ Distinct' /\ WatchRight'
  BY <1>1, <1>4, SameSets, SameHandedOff, NamesStay, Frame DEF IInv
<1>6. Phases'
  BY <1>1, <1>2 DEF IInv, Phases, queueVars
<1>7. InOrder'
  BY <1>1, NamesStay, OrderKept DEF IInv, queueVars
<1>8. Reporting'
  BY <1>1, <1>2, StillReporting DEF IInv, Gone
<1>9. OpenStays'
  BY <1>1, <1>4, SameSets, StillOpen DEF IInv, Gone
<1> QED  BY <1>5, <1>6, <1>7, <1>8, <1>9 DEF IInv

\* The steps of newConnected that set callbacks and that return.
LEMMA StageStep ==
    ASSUME IInv, Types', BindHandlers \/ NewConnectedReturns
    PROVE  IInv'
<1>1. /\ UNCHANGED <<connVars, st, link, watch, connections, pool, queueVars, handVars, pc, up>>
      /\ \/ accepting = "constructed" /\ accepting' = "bound"
         \/ accepting = "handedOff" /\ accepting' = "no"
  BY DEF BindHandlers, NewConnectedReturns
<1>4. \A d : /\ Fresh(d)' <=> Fresh(d)
             /\ Constructed(d)' <=> Constructed(d)
             /\ Staged(d)' <=> Staged(d)
  BY <1>1, NamesStay DEF Fresh, Constructed, Staged
<1>5. Places' /\ Owned' /\ Distinct' /\ WatchRight'
  BY <1>1, <1>4, SameSets, SameHandedOff, NamesStay, Frame DEF IInv
<1>6. Phases'
  BY <1>1 DEF IInv, Phases, queueVars, handVars
<1>7. InOrder'
  BY <1>1, NamesStay, OrderKept DEF IInv, queueVars
<1>8. Reporting'
  BY <1>1, StillReporting DEF IInv, Gone, handVars
<1>9. OpenStays'
  BY <1>1, <1>4, SameSets, StillOpen DEF IInv, Gone
<1> QED  BY <1>5, <1>6, <1>7, <1>8, <1>9 DEF IInv

\* The swap of the queue and the end of its batch.
LEMMA FunctionsStep ==
    ASSUME IInv, Types', NEW l \in Loops, BeginFunctions(l) \/ EndFunctions(l)
    PROVE  IInv'
<1>1. UNCHANGED <<connVars, st, link, watch, accepting, connections, pool, handVars, up>>
  BY DEF BeginFunctions, EndFunctions
<1>2. \A k \in Loops : Held(k)' \subseteq Held(k) /\ Coming(k)' = Coming(k)
  BY BeginSets, EndSets DEF IInv
<1>4. \A d : /\ Fresh(d)' <=> Fresh(d)
             /\ Constructed(d)' <=> Constructed(d)
             /\ Staged(d)' <=> Staged(d)
  BY <1>1, NamesStay DEF Fresh, Constructed, Staged
<1>5. Places' /\ Owned' /\ Distinct' /\ WatchRight'
  BY <1>1, <1>2, <1>4, SameHandedOff, NamesStay, Frame DEF IInv
<1>6. Phases'
  <2>1. CASE BeginFunctions(l)
    <3>1. /\ active[l] = {} /\ calls[l] = <<>> /\ (l = Main => accepting = "no")
          /\ batch' = [batch EXCEPT ![l] = functions[l]]
          /\ at' = [at EXCEPT ![l] = 1] /\ pc' = [pc EXCEPT ![l] = "run"]
      BY <2>1 DEF BeginFunctions, InHandlers
    <3> QED  BY <1>1, <3>1, Tables DEF IInv, Phases, handVars
  <2>2. CASE EndFunctions(l)
    <3>1. /\ pc[l] = "run"
          /\ batch' = [batch EXCEPT ![l] = <<>>]
          /\ at' = [at EXCEPT ![l] = 1] /\ pc' = [pc EXCEPT ![l] = "poll"]
      BY <2>2 DEF EndFunctions
    <3> QED  BY <1>1, <3>1, Tables DEF IInv, Phases, handVars
  <2> QED  BY <2>1, <2>2
<1>7. InOrder'
  BY <1>1, NamesStay, OrderBegins, OrderEnds DEF IInv
<1>8. Reporting'
  BY <1>1, StillReporting DEF IInv, Gone, handVars
<1>9. OpenStays'
  BY <1>1, <1>2, <1>4, StillOpen DEF IInv, Gone
<1> QED  BY <1>5, <1>6, <1>7, <1>8, <1>9 DEF IInv

\* epoll_wait returns: it reports descriptors that are watched, so registered ones.
LEMMA PollStep ==
    ASSUME IInv, Types', NEW l \in Loops, Poll(l)
    PROVE  IInv'
<1>1. /\ pc[l] = "poll" /\ pc' = [pc EXCEPT ![l] = "handle"]
      /\ UNCHANGED <<connVars, st, link, watch, accepting, connections, pool, queueVars,
                     calls, handling, up>>
  BY DEF Poll
<1>2. PICK waiting \in SUBSET {Connecting}, full \in SUBSET Created :
         active' = [active EXCEPT ![l] = Reported(l, full) \cup waiting]
  BY DEF Poll
<1>4. \A d : /\ Fresh(d)' <=> Fresh(d)
             /\ Constructed(d)' <=> Constructed(d)
             /\ Staged(d)' <=> Staged(d)
  BY <1>1, NamesStay DEF Fresh, Constructed, Staged
<1>5. Places' /\ Owned' /\ Distinct' /\ WatchRight'
  BY <1>1, <1>4, SameSets, SameHandedOff, NamesStay, Frame DEF IInv
<1>6. Phases'
  <2>1. active \in [Loops -> SUBSET [conn : Conns \cup {None}, events : SUBSET Events]]
        /\ pc \in [Loops -> {"poll", "handle", "run"}]
    BY Tables DEF IInv
  <2>2. \A k \in Loops \ {l} : active'[k] = active[k]
    BY <1>2, <2>1
  <2> QED  BY <1>1, <2>1, <2>2 DEF IInv, Phases, queueVars
<1>7. InOrder'
  BY <1>1, NamesStay, OrderKept DEF IInv, queueVars
<1>8. Reporting'
  <2>1. \A e \in Reported(l, full) : EventRight(l, e)
    <3> SUFFICES ASSUME NEW e \in Reported(l, full) PROVE EventRight(l, e)
      OBVIOUS
    <3>1. PICK d \in Created : /\ loop[d] = l /\ Alive(d) /\ watch[d] # "out"
                               /\ e = ReportedOf(d, full)
      BY DEF Reported
    <3>2. e.conn = d /\ e.events \subseteq Report(d)
      BY <3>1 DEF ReportedOf
    <3>3. "err" \in Report(d) \/ "hup" \in Report(d) => Gone(d)
      <4>1. link[d] \in Links
        BY Tables DEF IInv
      <4> QED  BY <4>1 DEF Report, Gone, Links
    <3>4. Registered(d)
      <4>1. Constructed(d)
        BY <3>1 DEF IInv, WatchRight
      <4> QED  BY <3>1, <4>1 DEF IInv, WatchRight
    <3> QED  BY <3>1, <3>2, <3>3, <3>4 DEF EventRight
  <2>2. Connecting.conn = None
    BY DEF Connecting
  <2>3. \A k \in Loops : \A e \in active'[k] : EventRight(k, e)
    <3>1. \A e \in active'[l] : e \in Reported(l, full) \/ e = Connecting
      BY <1>2, Tables DEF IInv
    <3>2. \A k \in Loops \ {l} : active'[k] = active[k]
      BY <1>2, Tables DEF IInv
    <3> QED  BY <2>1, <2>2, <3>1, <3>2 DEF IInv, Reporting, EventRight
  <2>4. \A k : /\ \A e : EventRight(k, e)' <=> EventRight(k, e)
               /\ CallsRight(k)' <=> CallsRight(k)
    BY <1>1, NamesStay DEF EventRight, CallsRight, Registered, Gone
  <2> QED  BY <2>3, <2>4 DEF IInv, Reporting
<1>9. OpenStays'
  BY <1>1, <1>4, SameSets, StillOpen DEF IInv, Gone
<1> QED  BY <1>5, <1>6, <1>7, <1>8, <1>9 DEF IInv

\* EventCtrl's loop looks a descriptor up: it finds the connection epoll meant.
LEMMA DispatchStep ==
    ASSUME IInv, Types', NEW l \in Loops, Dispatch(l)
    PROVE  IInv'
<1>1. PICK e \in active[l] :
          /\ e.conn # None
          /\ active' = [active EXCEPT ![l] = @ \ {e}]
          /\ LET c == pool[l][fd[e.conn]]
             IN  IF c # None /\ Alive(c)
                 THEN /\ calls' = [calls EXCEPT ![l] = HandlerCalls(e.events)]
                      /\ handling' = [handling EXCEPT ![l] = c]
                      /\ UNCHANGED <<pool, watch>>
                 ELSE /\ pool' = [pool EXCEPT ![l][fd[e.conn]] = None]
                      /\ watch' = EpollDel(l, fd[e.conn])
                      /\ UNCHANGED <<calls, handling>>
  BY DEF Dispatch
<1>2. pc[l] = "handle" /\ UNCHANGED <<connVars, st, link, accepting, connections, queueVars, pc>>
  BY DEF Dispatch
<1>3. /\ e.conn \in Created /\ loop[e.conn] = l /\ Registered(e.conn)
      /\ "err" \in e.events \/ "hup" \in e.events => Gone(e.conn)
      /\ pool[l][fd[e.conn]] = e.conn
  <2>1. e.conn \in Created /\ EventRight(l, e)
    BY <1>1, Tables DEF IInv, Reporting
  <2> QED  BY <1>1, <2>1 DEF EventRight, Registered
<1>4. Alive(e.conn)
  BY <1>3, RegisteredLives DEF IInv
<1>5. /\ calls' = [calls EXCEPT ![l] = HandlerCalls(e.events)]
      /\ handling' = [handling EXCEPT ![l] = e.conn]
      /\ UNCHANGED <<pool, watch>>
  BY <1>1, <1>3, <1>4
<1>6. \A d : /\ Fresh(d)' <=> Fresh(d)
             /\ Constructed(d)' <=> Constructed(d)
             /\ Staged(d)' <=> Staged(d)
  BY <1>2, NamesStay DEF Fresh, Constructed, Staged
<1>7. Places' /\ Owned' /\ Distinct' /\ WatchRight'
  BY <1>2, <1>5, <1>6, SameSets, SameHandedOff, NamesStay, Frame DEF IInv
<1>8. /\ \A k \in Loops \ {l} : active'[k] = active[k] /\ calls'[k] = calls[k] /\ handling'[k] = handling[k]
      /\ active'[l] \subseteq active[l] /\ handling'[l] = e.conn
  BY <1>1, <1>5, Tables DEF IInv
<1>9. Phases'
  BY <1>2, <1>8 DEF IInv, Phases, queueVars
<1>10. InOrder'
  BY <1>2, NamesStay, OrderKept DEF IInv, queueVars
<1>11. Reporting'
  <2>1. \A k \in Loops : /\ \A x : EventRight(k, x)' <=> EventRight(k, x)
                         /\ k # l => (CallsRight(k)' <=> CallsRight(k))
    BY <1>2, <1>5, <1>8, NamesStay DEF EventRight, CallsRight, Registered, Gone
  <2>2. \A k \in Loops : \A x \in active'[k] : EventRight(k, x)
    BY <1>8 DEF IInv, Reporting
  <2>3. CallsRight(l)'
    <3>1. calls'[l] = HandlerCalls(e.events)
      BY <1>5, Tables DEF IInv
    <3>2. "close" \in Range(calls'[l]) \/ "error" \in Range(calls'[l]) => Gone(e.conn)
      BY <1>3, <3>1, CallsOf
    <3> QED  BY <1>2, <1>3, <1>5, <1>8, <3>2, NamesStay DEF CallsRight, Registered, Gone
  <2> QED  BY <2>1, <2>2, <2>3 DEF IInv, Reporting
<1>12. OpenStays'
  BY <1>2, <1>6, SameSets, StillOpen DEF IInv, Gone
<1> QED  BY <1>7, <1>9, <1>10, <1>11, <1>12 DEF IInv

\* A callback of the user's leaves what is in epoll there, and what is read.
LEMMA CallbackWatch ==
    ASSUME IInv, NEW c \in Created, NEW s, AfterCallback(c, s, watch[c]) \/ WriteEvent(c)
    PROVE  \A d \in Created : /\ watch'[d] = "out" <=> watch[d] = "out"
                              /\ watch[d] \in {"read", "both"} => watch'[d] \in {"read", "both"}
<1>1. PICK m : /\ watch' = SetMask(c, m) /\ m \in {watch[c], "both", "read"}
               /\ m = "read" => watch[c] \in {"read", "both"}
  <2>1. CASE AfterCallback(c, s, watch[c])
    <3>1. PICK m : /\ m \in IF s = "Connected" /\ setup.cuts THEN {watch[c], "both"} ELSE {watch[c]}
                   /\ watch' = SetMask(c, m)
      BY <2>1 DEF AfterCallback
    <3> QED  BY <3>1
  <2>2. CASE WriteEvent(c)
    <3>1. PICK m : /\ m \in IF watch[c] = "both" THEN {"both", "read"} ELSE {watch[c]}
                   /\ watch' = SetMask(c, m)
      BY <2>2 DEF WriteEvent
    <3> QED  BY <3>1
  <2> QED  BY <2>1, <2>2
<1>2. watch \in [Created -> Masks]
  BY Tables DEF IInv
<1>3. CASE ~Registered(c)
  BY <1>1, <1>3 DEF SetMask
<1>4. CASE Registered(c)
  <2>1. watch' = [watch EXCEPT ![c] = m]
    BY <1>1, <1>4 DEF SetMask
  <2>2. watch[c] # "out"
    BY <1>4, RegisteredLives DEF IInv, WatchRight, Owned, OwnedBy
  <2> QED  BY <1>1, <1>2, <2>1, <2>2
<1> QED  BY <1>3, <1>4

\* What a handler does to a connection of an io loop.
LEMMA HandlerEffects ==
    ASSUME IInv, NEW l \in Loops, CallHandler(l)
    PROVE  LET c == handling[l]
           IN  /\ c \in Created /\ loop[c] = l /\ l # Main /\ Alive(c)
               /\ UNCHANGED <<connVars, accepting, batch, at, active, pc, connections, pool>>
               /\ \A d \in Created : Gone(d) => Gone(d)'
               /\ \A d \in Created :
                     /\ watch'[d] = "out" <=> watch[d] = "out"
                     /\ watch[d] \in {"read", "both"} => watch'[d] \in {"read", "both"}
               /\ functions' = functions
                  \/ (QueueFor(Main, Functor("remove", c)) /\ ~Fresh(c) /\ Gone(c))
<1> DEFINE c == handling[l]
<1>1. /\ c \in Created /\ loop[c] = l /\ Registered(c) /\ calls[l] # <<>>
      /\ "close" \in Range(calls[l]) \/ "error" \in Range(calls[l]) => Gone(c)
  BY DEF CallHandler, IInv, Reporting, CallsRight
<1>2. l # Main /\ Alive(c)
  BY <1>1, RegisteredLives DEF IInv, Places
<1>3. /\ UNCHANGED <<connVars, accepting, batch, at, active, pc>>
      /\ IF ~EventFuncsSet(c)
         THEN UNCHANGED <<st, functions, connections, pool, watch, link, up>>
         ELSE IF Head(calls[l]) = "read"
         THEN ReadEvent(l, c)
         ELSE IF Head(calls[l]) = "write"
         THEN WriteEvent(c)
         ELSE CloseEvent(l, c) /\ UNCHANGED <<link, up>>
  BY DEF CallHandler
<1>4. Head(calls[l]) \notin {"read", "write"} => Gone(c)
  <2>1. calls[l] \in Seq(Handlers)
    BY Tables DEF IInv
  <2>2. Head(calls[l]) \in Handlers /\ Head(calls[l]) \in Range(calls[l])
    BY <1>1, <2>1, HeadTailProperties, RangeTail
  <2> QED  BY <1>1, <2>2 DEF Handlers
<1> HIDE DEF c
<1>5. CloseEvent(l, c) =>
         /\ UNCHANGED <<connections, pool, watch>>
         /\ functions' = functions \/ (QueueFor(Main, Functor("remove", c)) /\ ~Fresh(c))
  BY <1>2 DEF CloseEvent, CloseCallbackSet, Fresh
<1>6. CASE UNCHANGED <<st, functions, connections, pool, watch, link, up>>
  BY <1>1, <1>2, <1>3, <1>6 DEF c, Gone
<1>7. CASE CloseEvent(l, c) /\ UNCHANGED link /\ Gone(c)
  BY <1>1, <1>2, <1>3, <1>5, <1>7 DEF c, Gone
<1>8. CASE WriteEvent(c)
  <2>1. UNCHANGED <<functions, connections, pool, link>>
    BY <1>8 DEF WriteEvent
  <2>2. \A d \in Created : /\ watch'[d] = "out" <=> watch[d] = "out"
                           /\ watch[d] \in {"read", "both"} => watch'[d] \in {"read", "both"}
    BY <1>1, <1>8, CallbackWatch
  <2> QED  BY <1>1, <1>2, <1>3, <2>1, <2>2 DEF c, Gone
<1>9. CASE ReadEvent(l, c)
  <2>1. CASE link[c] \in {"data", "rstData"}
    <3>1. /\ link' = [link EXCEPT ![c] = IF @ = "data" THEN "up" ELSE "rst"]
          /\ AfterCallback(c, st[c], watch[c])
          /\ UNCHANGED <<functions, connections, pool>>
      BY <1>9, <2>1 DEF ReadEvent
    <3>2. \A d \in Created : Gone(d) => Gone(d)'
      BY <1>1, <2>1, <3>1, Tables DEF IInv, Gone
    <3>3. \A d \in Created : /\ watch'[d] = "out" <=> watch[d] = "out"
                             /\ watch[d] \in {"read", "both"} => watch'[d] \in {"read", "both"}
      BY <1>1, <3>1, CallbackWatch
    <3> QED  BY <1>1, <1>2, <1>3, <3>1, <3>2, <3>3 DEF c
  <2>2. CASE link[c] = "rst"
    <3>1. link' = [link EXCEPT ![c] = "rstRead"] /\ UNCHANGED <<functions, connections, pool, watch>>
      BY <1>9, <2>2 DEF ReadEvent
    <3>2. \A d \in Created : Gone(d) => Gone(d)'
      BY <1>1, <2>2, <3>1, Tables DEF IInv, Gone
    <3> QED  BY <1>1, <1>2, <1>3, <3>1, <3>2 DEF c
  <2>3. CASE link[c] \in {"eof", "rstRead"}
    BY <1>7, <1>9, <2>3 DEF ReadEvent, Gone
  <2> QED  BY <1>9, <2>1, <2>2, <2>3 DEF ReadEvent
<1> QED  BY <1>3, <1>4, <1>6, <1>7, <1>8, <1>9 DEF c

\* A call before another one.
LEMMA TailOfOne ==
    ASSUME NEW S, NEW s \in Seq(S), s # <<>>, Tail(s) # <<>>
    PROVE  Len(s) # 1
<1>1. Len(Tail(s)) = Len(s) - 1 /\ Tail(s) \in Seq(S)
  BY HeadTailProperties
<1>2. Len(Tail(s)) = 0 => Tail(s) = <<>>
  BY <1>1, EmptySeq
<1> QED  BY <1>1, <1>2

\* A handler of a connection with an io loop destroys nothing: it queues a functor.
LEMMA HandlerStep ==
    ASSUME IInv, Types', NEW l \in Loops, CallHandler(l)
    PROVE  IInv'
<1> DEFINE c == handling[l]
           f == Functor("remove", c)
<1>1. /\ c \in Created /\ loop[c] = l /\ l # Main /\ Alive(c)
      /\ UNCHANGED <<connVars, accepting, batch, at, active, pc, connections, pool>>
      /\ \A d \in Created : Gone(d) => Gone(d)'
      /\ \A d \in Created :
            /\ watch'[d] = "out" <=> watch[d] = "out"
            /\ watch[d] \in {"read", "both"} => watch'[d] \in {"read", "both"}
      /\ functions' = functions \/ (QueueFor(Main, f) /\ ~Fresh(c) /\ Gone(c))
  BY HandlerEffects
<1>2. /\ calls[l] # <<>> /\ calls' = [calls EXCEPT ![l] = Tail(@)]
      /\ handling' = [handling EXCEPT ![l] = IF Len(calls[l]) = 1 THEN None ELSE @]
  BY DEF CallHandler
<1>3. f \in Functors /\ f.op = "remove" /\ f.conn = c /\ Main \in Loops
      /\ \A d : f # Functor("connected", d) /\ f # Functor("removed", d)
  <2>1. c \in Conns
    BY <1>1, CreatedType DEF IInv, Types
  <2>2. Main \in Loops
    BY ServerAssumption DEF Main, Loops
  <2> QED  BY <2>1, <2>2 DEF Functor, Functors
<1> HIDE DEF c, f
<1>4. /\ \A k \in Loops : \A g \in Held(k)' :
            g \in Held(k) \/ (g = f /\ k = Main /\ ~Fresh(c) /\ Gone(c))
      /\ \A k \in Loops : \A g : g # f => (g \in Coming(k)' <=> g \in Coming(k))
  <2>1. CASE functions' = functions
    BY <1>1, <2>1, SameSets DEF queueVars
  <2>2. CASE QueueFor(Main, f) /\ ~Fresh(c) /\ Gone(c)
    BY <1>1, <1>3, <2>2, QueueSets DEF IInv
  <2> QED  BY <1>1, <2>1, <2>2
<1>5. \A d : /\ Fresh(d)' <=> Fresh(d)
             /\ Constructed(d)' <=> Constructed(d)
             /\ Staged(d)' <=> Staged(d)
  BY <1>1, NamesStay DEF Fresh, Constructed, Staged
<1>6. Places' /\ Owned' /\ Distinct' /\ WatchRight'
  <2>1. \A k \in Loops : \A g \in Held(k)' :
           \/ g \in Held(k)
           \/ /\ k = Main /\ g.op = "remove" /\ g.op # "removed"
              /\ g.conn \in Created /\ ~Fresh(g.conn) /\ Alive(g.conn)
    BY <1>1, <1>3, <1>4
  <2>2. \A k \in Loops : \A d \in Created :
              /\ Functor("connected", d) \in Coming(k)' <=> Functor("connected", d) \in Coming(k)
              /\ Functor("removed", d) \in Coming(k)' <=> Functor("removed", d) \in Coming(k)
    BY <1>3, <1>4
  <2> QED  BY <1>1, <1>5, <2>1, <2>2, SameHandedOff, NamesStay, Frame DEF IInv
<1>7. \A k \in Loops : calls'[k] # <<>> => /\ calls[k] # <<>> /\ handling'[k] = handling[k]
                                             /\ Range(calls'[k]) \subseteq Range(calls[k])
  <2> SUFFICES ASSUME NEW k \in Loops, calls'[k] # <<>>
               PROVE /\ calls[k] # <<>> /\ handling'[k] = handling[k]
                     /\ Range(calls'[k]) \subseteq Range(calls[k])
    OBVIOUS
  <2>1. CASE k = l
    <3>1. calls[l] \in Seq(Handlers) /\ Tail(calls[l]) # <<>>
      BY <1>2, <2>1, Tables DEF IInv
    <3>2. Len(calls[l]) # 1 /\ Range(Tail(calls[l])) \subseteq Range(calls[l])
      BY <1>2, <3>1, TailOfOne, RangeTail
    <3> QED  BY <1>2, <2>1, <3>2, Tables DEF IInv
  <2>2. CASE k # l
    BY <1>2, <2>2, Tables DEF IInv
  <2> QED  BY <2>1, <2>2
<1>8. Phases'
  BY <1>1, <1>7 DEF IInv, Phases
<1>9. InOrder'
  <2>1. \/ functions' = functions
        \/ functions' = [functions EXCEPT ![Main] = Append(@, f)]
    BY <1>1 DEF QueueFor
  <2> QED  BY <1>1, <1>3, <2>1, NamesStay, OrderKept DEF IInv
<1>10. Reporting'
  BY <1>1, <1>7, StillReporting DEF IInv
<1>11. OpenStays'
  <2>1. \A k \in Loops : \A g \in Held(k)' : g \in Held(k) \/ Gone(g.conn)
    BY <1>1, <1>3, <1>4
  <2> QED  BY <1>1, <1>5, <2>1, StillOpen DEF IInv
<1> QED  BY <1>6, <1>8, <1>9, <1>10, <1>11 DEF IInv

-------------------------------------------------------------------------------
(***************************************************************************)
(* One step of newConnected, of a loop, of a functor: each keeps IInv.     *)
(***************************************************************************)

\* A slot of a pool has one living connection.
LEMMA OneInSlot ==
    ASSUME IInv, NEW c \in Created, Alive(c)
    PROVE  pool[loop[c]][fd[c]] \in {None, c}
<1> DEFINE d == pool[loop[c]][fd[c]]
<1>1. loop[c] \in Loops /\ fd[c] \in Fds
  BY CreatedType DEF IInv, Types
<1> SUFFICES ASSUME d # None, d # c PROVE FALSE
  OBVIOUS
<1>2. d \in Created /\ loop[d] = loop[c] /\ fd[d] = fd[c]
  BY <1>1 DEF IInv, Places
<1>3. Registered(d)
  BY <1>2 DEF Registered
<1>4. Alive(d)
  BY <1>2, <1>3, RegisteredLives DEF IInv
<1> QED  BY <1>2, <1>4 DEF IInv, Distinct

\* A name in connections_ has one living connection.
LEMMA OneOfName ==
    ASSUME IInv, NEW c \in Created, Alive(c)
    PROVE  connections[Name(c)] \in {None, c}
<1> DEFINE d == connections[Name(c)]
<1>1. Name(c) \in Names
  BY CreatedType DEF IInv, Types
<1> SUFFICES ASSUME d # None, d # c PROVE FALSE
  OBVIOUS
<1>2. d \in Created /\ Name(d) = Name(c)
  BY <1>1 DEF IInv, Places
<1>3. Alive(d)
  BY <1>2, AliveMeans DEF IInv
<1> QED  BY <1>2, <1>3 DEF IInv, Distinct

\* The connection newConnected works on.
LEMMA Newest ==
    ASSUME Types, accepting # "no"
    PROVE  created \in Created /\ created \in Conns /\ created # None
<1>1. created \in Nat /\ created # 0
  BY CreatedType DEF Types
<1> QED  BY <1>1, CreatedType DEF Types, Created, None

\* newConnected queues connectedHandle: the connection is in connections_ by then.
LEMMA HandOffStep ==
    ASSUME IInv, Types', HandOff
    PROVE  IInv'
<1>1. /\ accepting = "registered" /\ accepting' = "handedOff"
      /\ UNCHANGED <<connVars, link, connections, pool, batch, at, handVars, pc, up>>
  BY DEF HandOff
<1> PICK c \in Created, l \in Loops : c = created /\ l = loop[c]
  BY <1>1, Newest, CreatedType DEF IInv, Types
<1> DEFINE f == Functor("connected", c)
<1>2. c \in Conns /\ l # Main
  BY <1>1, Newest DEF IInv, Places
<1>3. QueueFor(l, f) /\ UNCHANGED <<st, watch>>
  BY <1>2 DEF HandOff
<1>4. /\ f \in Functors /\ f.op = "connected" /\ f.conn = c
      /\ \A d : f # Functor("removed", d) /\ (f = Functor("connected", d) => d = c)
  BY <1>2 DEF Functor, Functors
<1>5. /\ Held(l)' = Held(l) \cup {f} /\ Coming(l)' = Coming(l) \cup {f}
      /\ \A k \in Loops \ {l} : Held(k)' = Held(k) /\ Coming(k)' = Coming(k)
  BY <1>1, <1>2, <1>3, <1>4, QueueSets DEF IInv
<1>6. /\ created' = c /\ loop' = loop /\ Created' = Created
      /\ \A d : (Fresh(d)' <=> Fresh(d)) /\ (Constructed(d)' <=> Constructed(d))
  BY <1>1, NamesStay DEF Fresh, Constructed
<1>7. ~Fresh(c) /\ Alive(c)
  BY <1>1 DEF Fresh, Alive
<1>8. \A d \in Created : HandedOff(d)' <=> HandedOff(d)
  <2> SUFFICES ASSUME NEW d \in Created PROVE HandedOff(d)' <=> HandedOff(d)
    OBVIOUS
  <2>1. d \in Conns
    BY CreatedType DEF IInv, Types
  <2>2. HandedOff(d)' <=> Staged(d)' /\ \A k \in Loops : Functor("connected", d) \notin Coming(k)'
    BY <2>1, HandedOffNext
  <2>3. CASE d = c
    <3>1. ~Staged(d)
      BY <1>1, <2>3 DEF Staged
    <3>2. Functor("connected", d) \in Coming(l)'
      BY <1>5, <2>3
    <3> HIDE DEF f
    <3> QED  BY <1>2, <2>2, <3>1, <3>2, HandedOffMeans
  <2>4. CASE d # c
    <3>1. Staged(d)' /\ Staged(d)
      BY <1>6, <2>4 DEF Staged
    <3>2. Functor("connected", d) # f
      BY <1>4, <2>4
    <3> HIDE DEF f
    <3>3. \A k \in Loops : Functor("connected", d) \in Coming(k)' <=> Functor("connected", d) \in Coming(k)
      BY <1>5, <3>2
    <3> QED  BY <2>2, <3>1, <3>3, HandedOffMeans
  <2> QED  BY <2>3, <2>4
<1> HIDE DEF f
<1>9. /\ \A k \in Loops : \A d \in Created :
              Functor("removed", d) \in Coming(k)' <=> Functor("removed", d) \in Coming(k)
      /\ \A k \in Loops : \A g \in Held(k)' :
              \/ g \in Held(k)
              \/ /\ g.op # "removed" /\ g.conn \in Created /\ ~Fresh(g.conn) /\ Alive(g.conn)
                 /\ g.op = "remove" => k = Main
                 /\ g.op # "remove" => loop[g.conn] = k
  <2> QED  BY <1>2, <1>4, <1>5, <1>7
<1>10. Places' /\ Owned' /\ Distinct' /\ WatchRight'
  BY <1>1, <1>3, <1>6, <1>8, <1>9, Frame DEF IInv
<1>11. Phases'
  BY <1>1 DEF IInv, Phases, handVars
<1>12. InOrder'
  <2>1. Functor("removed", c) \notin Coming(l)
    BY <1>1, <1>2, ComingHeld DEF IInv, Owned, OwnedBy
  <2>2. /\ functions' = [functions EXCEPT ![l] = Append(@, f)]
        /\ \A d \in Created : f = Functor("connected", d) => Functor("removed", d) \notin Coming(l)
    BY <1>3, <1>4, <2>1 DEF QueueFor
  <2>3. batch' = batch /\ at' = at
    BY <1>1
  <2> QED  BY <1>2, <1>4, <1>6, <2>2, <2>3, OrderKept DEF IInv
<1>13. Reporting'
  BY <1>1, StillReporting DEF IInv, Gone, handVars
<1>14. OpenStays'
  <2>1. \A d \in Created : ~Gone(d)' =>
         /\ \A k \in Loops : \A g \in Held(k)' : g.conn = d => g.op = "connected"
         /\ Fresh(d)' \/ connections'[Name(d)'] = d
    BY <1>1, <1>4, <1>5, <1>6, NamesStay DEF IInv, OpenStays, Gone
  <2> QED  BY <1>6, <2>1 DEF OpenStays
<1> QED  BY <1>10, <1>11, <1>12, <1>13, <1>14 DEF IInv

\* newConnected enters the connection in connections_: its name is free.
LEMMA AddStep ==
    ASSUME IInv, Types', AddConnect
    PROVE  IInv'
<1> DEFINE c == created
           n == Name(created)
<1>1. /\ accepting = "bound" /\ accepting' = "registered"
      /\ connections' = [connections EXCEPT ![Name(created)] = IF @ = None THEN created ELSE @]
      /\ UNCHANGED <<connVars, st, link, watch, pool, queueVars, handVars, pc, up>>
  BY DEF AddConnect
<1>2. c \in Created /\ c # None /\ n \in Names /\ Name(c) = n
  BY <1>1, Newest, CreatedType DEF IInv, Types
<1>3. Fresh(c) /\ Alive(c) /\ Constructed(c) /\ ~HandedOff(c) /\ Registered(c)
  BY <1>1, <1>2 DEF IInv, Owned, OwnedBy, Fresh, Alive, Constructed, HandedOff
<1>4. connections[n] = None
  <2>1. connections[n] # c
    BY <1>2, <1>3 DEF IInv, Owned, OwnedBy
  <2> QED  BY <1>2, <1>3, <2>1, OneOfName DEF IInv
<1> HIDE DEF c, n
<1>5. connections' = [connections EXCEPT ![n] = c]
  BY <1>1, <1>4 DEF c, n
<1>6. connections'[n] = c /\ \A m \in Names \ {n} : connections'[m] = connections[m]
  BY <1>2, <1>5, Tables DEF IInv
<1>7. /\ created' = c /\ loop' = loop /\ fd' = fd /\ Created' = Created
      /\ \A d : Name(d)' = Name(d)
      /\ \A d \in Created : Registered(d)' <=> Registered(d)
      /\ \A k \in Loops : Held(k)' = Held(k) /\ Coming(k)' = Coming(k)
  BY <1>1, NamesStay, SameSets DEF c, Registered
<1>8. /\ \A d \in Created : Fresh(d)' <=> Fresh(d) /\ d # c
      /\ \A d \in Created : Constructed(d)' <=> Constructed(d)
      /\ \A d \in Created : Staged(d)' <=> Staged(d)
  BY <1>1, <1>7 DEF Fresh, Constructed, Staged, c
<1>9. \A d \in Created : HandedOff(d)' <=> HandedOff(d)
  BY <1>1, <1>7, <1>8, SameHandedOff DEF IInv, c
<1>10. Places'
  <2>1. \A m \in Names : connections'[m] # None => connections'[m] \in Created /\ Name(connections'[m]) = m
    BY <1>2, <1>6 DEF IInv, Places
  <2>2. (\A m \in Names : connections[m] # None => connections[m] \in Created /\ Name(connections[m]) = m)'
    BY <1>1, <1>7, <2>1 DEF Name, connVars
  <2>3. (\A k \in Loops : \A f \in Held(k) :
          /\ f.conn \in Created /\ ~Fresh(f.conn)
          /\ f.op = "remove" => k = Main
          /\ f.op # "remove" => loop[f.conn] = k)'
    BY <1>7, <1>8 DEF IInv, Places
  <2>4. (\A d \in Created : loop[d] # Main)'
        /\ (\A k \in Loops, f \in Fds : pool[k][f] # None =>
              pool[k][f] \in Created /\ loop[pool[k][f]] = k /\ fd[pool[k][f]] = f)'
    BY <1>1, <1>7 DEF IInv, Places
  <2> QED  BY <2>2, <2>3, <2>4 DEF Places
<1>11. Owned'
  <2>1. \A d \in Created : OwnedBy(d)'
    <3> SUFFICES ASSUME NEW d \in Created
                 PROVE OwnedBy(d)'
      OBVIOUS
    <3>1. Name(d) \in Names
      BY CreatedType DEF IInv, Types
    <3>2. \A k \in Loops : Functor("removed", c) \notin Held(k)
      BY <1>1, <1>2 DEF IInv, Owned, OwnedBy, c
    <3>3. CASE d = c
      BY <1>2, <1>3, <1>6, <1>7, <1>8, <1>9, <3>2, <3>3 DEF OwnedBy
    <3>4. CASE d # c
      <4>1. connections'[Name(d)'] = d <=> connections[Name(d)] = d
        BY <1>4, <1>6, <1>7, <3>1, <3>4, CreatedType DEF IInv, Types, Created, None
      <4> QED  BY <1>7, <1>8, <1>9, <3>4, <4>1 DEF IInv, Owned, OwnedBy
    <3> QED  BY <3>3, <3>4
  <2> QED  BY <1>7, <2>1 DEF Owned, OwnedBy
<1>12. \A d \in Created : Alive(d)' => Alive(d)
  <2> SUFFICES ASSUME NEW d \in Created, Alive(d)', d # c PROVE Alive(d)
    BY <1>3
  <2>1. \/ connections'[Name(d)'] = d
        \/ \E k \in Loops : \E f \in Held(k)' : f.conn = d
        \/ d = created' /\ accepting' # "no"
    BY <1>7, <1>10, AliveNext
  <2>2. Name(d) \in Names
    BY CreatedType DEF IInv, Types
  <2>3. connections'[Name(d)'] = d => connections[Name(d)] = d
    BY <1>6, <1>7, <2>2
  <2> QED  BY <1>7, <2>1, <2>3, AliveMeans DEF IInv
<1>13. Distinct'
  BY <1>7, <1>12 DEF IInv, Distinct
<1>14. WatchRight'
  BY <1>1, <1>7, <1>8, <1>9, <1>12 DEF IInv, WatchRight
<1>15. Phases'
  BY <1>1 DEF IInv, Phases, queueVars, handVars
<1>16. InOrder'
  BY <1>1, <1>7, OrderKept DEF IInv, queueVars
<1>17. Reporting'
  BY <1>1, StillReporting DEF IInv, Gone, handVars
<1>18. OpenStays'
  <2>1. \A d \in Created : ~Gone(d)' =>
         /\ \A k \in Loops : \A g \in Held(k)' : g.conn = d => g.op = "connected"
         /\ Fresh(d)' \/ connections'[Name(d)'] = d
    <3> SUFFICES ASSUME NEW d \in Created, ~Gone(d)
                 PROVE Fresh(d)' \/ connections'[Name(d)'] = d
      BY <1>1, <1>7 DEF IInv, OpenStays, Gone
    <3>1. Name(d) \in Names /\ d # None
      BY CreatedType DEF IInv, Types, Created, None
    <3> QED  BY <1>1, <1>2, <1>4, <1>6, <1>7, <1>8, <3>1 DEF IInv, OpenStays
  <2> QED  BY <1>7, <2>1 DEF OpenStays
<1> QED  BY <1>10, <1>11, <1>13, <1>14, <1>15, <1>16, <1>17, <1>18 DEF IInv

\* The constructor of TcpConnect enters it in the map: its descriptor's slot is free.
LEMMA InsertStep ==
    ASSUME IInv, Types', Inserted
    PROVE  IInv'
<1>1. /\ accepting = "inserting" /\ accepting' = "constructed"
      /\ pool' = [pool EXCEPT ![loop[created]][fd[created]] = IF @ = None THEN created ELSE @]
      /\ watch' = [watch EXCEPT ![created] = "none"]
      /\ UNCHANGED <<connVars, st, link, connections, queueVars, handVars, pc, up>>
  BY DEF Inserted, AddEvent
<1> PICK c \in Created, l \in Loops, f \in Fds : c = created /\ l = loop[c] /\ f = fd[c]
  BY <1>1, Newest, CreatedType DEF IInv, Types
<1>2. c # None /\ Fresh(c) /\ Alive(c) /\ ~Constructed(c) /\ ~HandedOff(c)
  BY <1>1, Newest DEF IInv, Fresh, Alive, Constructed, HandedOff
<1>3. pool[l][f] = None
  BY <1>2, OneInSlot DEF IInv, Owned, OwnedBy, Registered
<1>4. /\ pool'[l][f] = c
      /\ \A k \in Loops, g \in Fds : k # l \/ g # f => pool'[k][g] = pool[k][g]
  <2>1. pool \in [Loops -> [Fds -> Conns \cup {None}]]
    BY Tables DEF IInv
  <2>2. pool' = [pool EXCEPT ![l][f] = c]
    BY <1>1, <1>3
  <2> QED  BY <2>1, <2>2
<1>5. watch'[c] = "none" /\ \A d \in Created \ {c} : watch'[d] = watch[d]
  BY <1>1, Tables DEF IInv
<1>6. /\ created' = c /\ loop' = loop /\ fd' = fd /\ Created' = Created
      /\ \A d : Name(d)' = Name(d)
      /\ \A k \in Loops : Held(k)' = Held(k) /\ Coming(k)' = Coming(k)
  BY <1>1, NamesStay, SameSets
<1>7. \A d \in Created : Registered(d)' <=> Registered(d) \/ d = c
  <2> SUFFICES ASSUME NEW d \in Created PROVE Registered(d)' <=> Registered(d) \/ d = c
    OBVIOUS
  <2>1. loop[d] \in Loops /\ fd[d] \in Fds /\ d # None
    BY CreatedType DEF IInv, Types, Created, None
  <2> QED  BY <1>3, <1>4, <1>6, <2>1 DEF Registered
<1>8. /\ \A d \in Created : Fresh(d)' <=> Fresh(d)
      /\ \A d \in Created : Constructed(d)' /\ (Constructed(d) <=> d # c)
      /\ \A d \in Created : Staged(d)' <=> Staged(d)
  BY <1>1, <1>6 DEF Fresh, Constructed, Staged
<1>9. \A d \in Created : HandedOff(d)' <=> HandedOff(d)
  BY <1>1, <1>6, <1>8, SameHandedOff DEF IInv
<1>10. \A d \in Created : Alive(d)' => Alive(d)
  BY <1>1, <1>6 DEF Alive, InFunctor, queueVars
<1>11. Places'
  <2>1. \A k \in Loops, g \in Fds : pool'[k][g] # None =>
          pool'[k][g] \in Created /\ loop[pool'[k][g]] = k /\ fd[pool'[k][g]] = g
    BY <1>4 DEF IInv, Places
  <2>2. (\A k \in Loops, g \in Fds : pool[k][g] # None =>
          pool[k][g] \in Created /\ loop[pool[k][g]] = k /\ fd[pool[k][g]] = g)'
    BY <1>6, <2>1
  <2>3. (\A k \in Loops : \A g \in Held(k) :
          /\ g.conn \in Created /\ ~Fresh(g.conn)
          /\ g.op = "remove" => k = Main
          /\ g.op # "remove" => loop[g.conn] = k)'
    BY <1>6, <1>8 DEF IInv, Places
  <2>4. (\A d \in Created : loop[d] # Main)'
        /\ (\A n \in Names : connections[n] # None =>
               connections[n] \in Created /\ Name(connections[n]) = n)'
    BY <1>1, <1>6 DEF IInv, Places, Name, connVars
  <2> QED  BY <2>2, <2>3, <2>4 DEF Places
<1>12. Owned'
  <2>1. \A d \in Created : OwnedBy(d)'
    BY <1>1, <1>2, <1>6, <1>7, <1>8, <1>9 DEF IInv, Owned, OwnedBy
  <2> QED  BY <1>6, <2>1 DEF Owned, OwnedBy
<1>13. Distinct'
  BY <1>6, <1>10 DEF IInv, Distinct
<1>14. WatchRight'
  BY <1>2, <1>5, <1>6, <1>7, <1>8, <1>9, <1>10 DEF IInv, WatchRight
<1>15. Phases'
  BY <1>1 DEF IInv, Phases, queueVars, handVars
<1>16. InOrder'
  BY <1>1, <1>6, OrderKept DEF IInv, queueVars
<1>17. Reporting'
  <2>1. \A d \in Created : Registered(d) => pool'[loop'[d]][fd'[d]] = d
    BY <1>7 DEF Registered
  <2> QED  BY <1>1, <1>6, <2>1, ReportingKept DEF IInv, handVars, Gone
<1>18. OpenStays'
  BY <1>1, <1>6, <1>8, StillOpen DEF IInv, Gone
<1> QED  BY <1>11, <1>12, <1>13, <1>14, <1>15, <1>16, <1>17, <1>18 DEF IInv

\* What a new connection finds.
LEMMA AcceptFacts ==
    ASSUME Types, Types', NEW p \in Peers, Accept(p), NEW n, n = created + 1,
           \A d \in Created : Alive(d) => ~setup.quickReuse \/ link[d] \notin {"rst", "rstData", "rstRead"}
    PROVE  /\ created' = n /\ n \notin Created /\ n # None /\ Created' = Created \cup {n}
           /\ \A d \in Created : /\ Name(d)' = Name(d) /\ fd'[d] = fd[d] /\ loop'[d] = loop[d]
                                 /\ link'[d] = link[d] /\ watch'[d] = watch[d]
           /\ watch'[n] = "out" /\ link'[n] = "up" /\ loop'[n] = NextLoop
           /\ accepting = "no" /\ accepting' = "inserting"
           /\ \A d \in Created : Alive(d) => fd[d] # fd'[n] /\ Name(d) # Name(n)'
           /\ UNCHANGED <<setup, connections, pool, queueVars, calls, handling, pc, up>>
           /\ \A l \in Loops : active'[l] \subseteq active[l]
<1>1. /\ created' = created + 1
      /\ peer' = Append(peer, p) /\ fd' = Append(fd, LowestFree)
      /\ loop' = Append(loop, NextLoop)
      /\ link' = Append(link, "up") /\ watch' = Append(watch, "out")
      /\ accepting = "no" /\ accepting' = "inserting"
      /\ active' = [active EXCEPT ![Main] = @ \ {Connecting}]
      /\ UNCHANGED <<setup, connections, pool, queueVars, calls, handling, pc, up>>
      /\ AddressFree(p) /\ FreeFds # {}
  BY DEF Accept, AcceptHandle
<1>2. TypeOK /\ created \in Nat /\ Created = 1 .. created
  BY CreatedType DEF Types, Created
<1>3. n \in Nat /\ n \notin Created /\ n # None /\ Created' = Created \cup {n} /\ created' = n
  BY <1>1, <1>2 DEF Created, None
<1>4. LowestFree \in FreeFds
  <2>1. setup \in Setups /\ setup.fds \in Nat
    BY <1>2, SetupType DEF TypeOK
  <2>2. FreeFds # {} /\ FreeFds \subseteq Nat
    <3>1. FreeFds \subseteq 1 .. setup.fds
      BY DEF FreeFds
    <3> QED  BY <1>1, <2>1, <3>1
  <2>3. \E m \in FreeFds : \A k \in FreeFds : m <= k
    BY <2>2, LeastOf
  <2> QED  BY <2>3 DEF LowestFree
<1>5. \A d \in Created : Alive(d) => fd[d] # LowestFree
  BY <1>4 DEF FreeFds
<1>6. /\ peer \in [1 .. created -> Peers] /\ fd \in [1 .. created -> 1 .. setup.fds]
      /\ loop \in [1 .. created -> 0 .. setup.threads]
      /\ link \in [1 .. created -> Links]
      /\ watch \in [1 .. created -> Masks]
      /\ "up" \in Links /\ "out" \in Masks
  BY <1>2 DEF TypeOK, Links, Masks
<1>7. LowestFree \in 1 .. setup.fds
  BY <1>4 DEF FreeFds
<1>8. NextLoop \in 0 .. setup.threads
  <2>1. setup \in Setups /\ setup.threads \in Nat /\ next \in 0 .. setup.threads
        /\ (setup.threads # 0 => next < setup.threads)
    BY <1>2, SetupType DEF TypeOK, Types
  <2> QED  BY <2>1 DEF NextLoop, Main
<1>9. /\ \A d \in Created : peer'[d] = peer[d] /\ fd'[d] = fd[d] /\ loop'[d] = loop[d]
      /\ peer'[n] = p /\ fd'[n] = LowestFree /\ loop'[n] = NextLoop
  BY <1>1, <1>2, <1>6, <1>7, <1>8, OneMore
<1>10. /\ \A d \in Created : link'[d] = link[d] /\ watch'[d] = watch[d]
       /\ watch'[n] = "out" /\ link'[n] = "up"
  BY <1>1, <1>2, <1>6, OneMore
<1>11. \A d \in Created : Alive(d) => Name(d) # Name(n)'
  <2> SUFFICES ASSUME NEW d \in Created, Alive(d) PROVE ToString(peer[d]) # ToString(p)
    BY <1>9 DEF Name
  <2>1. peer[d] # p
    BY <1>1 DEF AddressFree
  <2>2. peer[d] \in SockAddr /\ p \in SockAddr
    BY CreatedType, ServerAssumption DEF Types
  <2> QED  BY <2>1, <2>2, TextIdentifiesAddress
<1>12. \A l \in Loops : active'[l] \subseteq active[l]
  BY <1>1, Tables
<1>13. /\ \A d \in Created : /\ Name(d)' = Name(d) /\ fd'[d] = fd[d] /\ loop'[d] = loop[d]
                             /\ link'[d] = link[d] /\ watch'[d] = watch[d]
       /\ watch'[n] = "out" /\ link'[n] = "up" /\ loop'[n] = NextLoop
  BY <1>9, <1>10 DEF Name
<1>14. \A d \in Created : Alive(d) => fd[d] # fd'[n] /\ Name(d) # Name(n)'
  BY <1>5, <1>9, <1>11
<1> QED  BY <1>1, <1>3, <1>12, <1>13, <1>14

\* What the tables say of a connection, after a step.
LEMMA CreatedNext ==
   (TypeOK => /\ Created \subseteq Conns
              /\ \A c \in Created : fd[c] \in Fds /\ loop[c] \in Loops /\ Name(c) \in Names)'
<1>1. TypeOK => /\ Created \subseteq Conns
                /\ \A c \in Created : fd[c] \in Fds /\ loop[c] \in Loops /\ Name(c) \in Names
  BY CreatedType
<1> QED  BY <1>1, PTL

\* accept: the new connection shares neither descriptor nor name with a living one.
LEMMA AcceptStep ==
    ASSUME IInv, Types', Pooled, NEW p \in Peers, Accept(p)
    PROVE  IInv'
<1> PICK n : n = created + 1
  OBVIOUS
<1>1. /\ created' = n /\ n \notin Created /\ n # None /\ Created' = Created \cup {n}
      /\ \A d \in Created : /\ Name(d)' = Name(d) /\ fd'[d] = fd[d] /\ loop'[d] = loop[d]
                            /\ link'[d] = link[d] /\ watch'[d] = watch[d]
      /\ watch'[n] = "out" /\ loop'[n] # Main
      /\ accepting = "no" /\ accepting' = "inserting"
      /\ \A d \in Created : Alive(d) => fd[d] # fd'[n] /\ Name(d) # Name(n)'
      /\ UNCHANGED <<setup, connections, pool, queueVars, calls, handling, pc, up>>
      /\ \A l \in Loops : active'[l] \subseteq active[l]
  <2>1. NextLoop # Main
    <3>1. setup \in Setups /\ next \in 0 .. setup.threads
      BY DEF IInv, Types, TypeOK
    <3> QED  BY <3>1, SetupType DEF NextLoop, Main, Pooled
  <2> QED  BY <2>1, AcceptFacts DEF IInv, Pooled
<1>2. \A l \in Loops : Held(l)' = Held(l) /\ Coming(l)' = Coming(l)
  BY <1>1, SameSets
<1>3. /\ \A d \in Created : ~Fresh(d) /\ ~Fresh(d)' /\ Constructed(d) /\ Constructed(d)'
                            /\ Staged(d) /\ Staged(d)'
      /\ Fresh(n)' /\ ~Constructed(n)' /\ ~Staged(n)'
  BY <1>1 DEF Fresh, Constructed, Staged
<1>4. /\ \A d \in Created : HandedOff(d)' <=> HandedOff(d)
      /\ ~HandedOff(n)'
  <2>1. Created \subseteq Conns /\ n \in Conns
    <3>1. Created' \subseteq Conns
      BY CreatedNext DEF Types
    <3> QED  BY <1>1, <3>1
  <2> QED  BY <1>2, <1>3, <2>1, HandedOffNext, HandedOffMeans
<1>5. \A l \in Loops : \A f \in Held(l) : f.conn \in Created /\ f.conn # n
  BY <1>1 DEF IInv, Places
<1>6. \A d \in Created : Registered(d)' <=> Registered(d)
  BY <1>1 DEF Registered
<1>7. ~Registered(n)'
  <2>1. loop'[n] \in Loops /\ fd'[n] \in Fds
    BY <1>1, CreatedNext DEF Types
  <2> QED  BY <1>1, <2>1 DEF IInv, Places, Registered
<1>8. \A d \in Created : Alive(d)' => Alive(d)
  BY <1>1, <1>2 DEF Alive, InFunctor, queueVars
<1>9. Places'
  <2>1. (\A d \in Created : loop[d] # Main)'
    BY <1>1 DEF IInv, Places
  <2>2. (\A m \in Names : connections[m] # None => connections[m] \in Created /\ Name(connections[m]) = m)'
    <3>1. \A m \in Names : connections[m] # None =>
             connections[m] \in Created' /\ ToString(peer'[connections[m]]) = m
      BY <1>1 DEF IInv, Places, Name
    <3> QED  BY <1>1, <3>1 DEF Name
  <2>3. (\A k \in Loops, f \in Fds : pool[k][f] # None =>
              pool[k][f] \in Created /\ loop[pool[k][f]] = k /\ fd[pool[k][f]] = f)'
    <3>1. \A k \in Loops, f \in Fds : pool[k][f] # None =>
              pool[k][f] \in Created' /\ loop'[pool[k][f]] = k /\ fd'[pool[k][f]] = f
      BY <1>1 DEF IInv, Places
    <3> QED  BY <1>1, <3>1
  <2>4. (\A k \in Loops : \A f \in Held(k) :
          /\ f.conn \in Created /\ ~Fresh(f.conn)
          /\ f.op = "remove" => k = Main
          /\ f.op # "remove" => loop[f.conn] = k)'
    BY <1>1, <1>2, <1>3 DEF IInv, Places
  <2> QED  BY <2>1, <2>2, <2>3, <2>4 DEF Places
<1>10. Owned'
  <2>1. \A k \in Loops : Functor("removed", n) \notin Held(k)
    BY <1>5 DEF Functor
  <2>2. connections[Name(n)'] # n
    <3>1. Name(n)' \in Names
      BY <1>1, CreatedNext DEF Types
    <3> QED  BY <1>1, <3>1 DEF IInv, Places
  <2>3. \A d \in Created \cup {n} : OwnedBy(d)'
    <3> SUFFICES ASSUME NEW d \in Created \cup {n}
                 PROVE OwnedBy(d)'
      OBVIOUS
    <3>1. CASE d = n
      BY <1>1, <1>2, <1>3, <1>7, <2>1, <2>2, <3>1 DEF OwnedBy
    <3>2. CASE d \in Created
      BY <1>1, <1>2, <1>3, <1>4, <1>6, <3>2 DEF IInv, Owned, OwnedBy
    <3> QED  BY <3>1, <3>2
  <2> QED  BY <1>1, <2>3 DEF Owned, OwnedBy
<1>11. Distinct'
  <2>1. \A c, d \in Created \cup {n} : Alive(c)' /\ Alive(d)' /\ c # d =>
           fd'[c] # fd'[d] /\ Name(c)' # Name(d)'
    BY <1>1, <1>8 DEF IInv, Distinct
  <2> QED  BY <1>1, <2>1 DEF Distinct
<1>12. WatchRight'
  <2>1. \A d \in Created \cup {n} :
       /\ Alive(d)' /\ Constructed(d)' => (Registered(d)' <=> watch'[d] # "out")
       /\ ~Constructed(d)' => watch'[d] = "out"
       /\ Registered(d)' /\ HandedOff(d)' => watch'[d] \in {"read", "both"}
    BY <1>1, <1>3, <1>4, <1>6, <1>7, <1>8 DEF IInv, WatchRight
  <2> QED  BY <1>1, <2>1 DEF WatchRight
<1>13. Phases'
  <2>1. pc[Main] = "handle"
    <3>1. Connecting \in active[Main] /\ Main \in Loops
      BY ServerAssumption DEF Accept, AcceptHandle, Main, Loops
    <3> QED  BY <3>1 DEF IInv, Phases
  <2> QED  BY <1>1, <2>1 DEF IInv, Phases, queueVars
<1>14. InOrder'
  <2>1. \A k \in Loops : \A i \in at[k] .. Len(batch[k]) : batch[k][i] \in Coming(k)
    BY DEF Coming
  <2>2. \A k \in Loops : \A i \in 1 .. Len(functions[k]) : functions[k][i] \in Coming(k)
    <3> SUFFICES ASSUME NEW k \in Loops, NEW i \in 1 .. Len(functions[k])
                 PROVE functions[k][i] \in Coming(k)
      OBVIOUS
    <3>1. DOMAIN functions[k] = 1 .. Len(functions[k])
      BY Tables, LenProperties DEF IInv
    <3> QED  BY <3>1 DEF Coming, Range
  <2>3. \A k \in Loops : Functor("removed", n) \notin Coming(k)
    BY <1>5, ComingHeld DEF Functor, IInv
  <2>4. \A k \in Loops : OrderOf(k, n)
    BY <2>1, <2>2, <2>3 DEF OrderOf
  <2>5. \A k \in Loops : \A d \in Created : OrderOf(k, d)
    BY DEF IInv, InOrder, OrderOf
  <2>6. \A k \in Loops : \A d \in Created \cup {n} : OrderOf(k, d)'
    BY <1>1, <2>4, <2>5 DEF OrderOf, queueVars
  <2> QED  BY <1>1, <2>6 DEF InOrder, OrderOf
<1>15. Reporting'
  <2>1. \A d \in Created : Registered(d) => pool'[loop'[d]][fd'[d]] = d
    BY <1>6 DEF Registered
  <2> QED  BY <1>1, <2>1, ReportingKept DEF IInv, Gone
<1>16. OpenStays'
  <2>1. \A d \in Created \cup {n} : ~Gone(d)' =>
         /\ \A k \in Loops : \A g \in Held(k)' : g.conn = d => g.op = "connected"
         /\ Fresh(d)' \/ connections'[Name(d)'] = d
    BY <1>1, <1>2, <1>3, <1>5 DEF IInv, OpenStays, Gone
  <2> QED  BY <1>1, <2>1 DEF OpenStays
<1> QED  BY <1>9, <1>10, <1>11, <1>12, <1>13, <1>14, <1>15, <1>16 DEF IInv

\* What a functor about to run tells of its connection.
LEMMA RunFacts ==
    ASSUME IInv, NEW l \in Loops, RunFunctor(l),
           NEW f, f = batch[l][at[l]], NEW c, c = f.conn
    PROVE  /\ f \in Coming(l) /\ f \in Held(l) /\ at[l] \in 1 .. Len(batch[l])
           /\ f = Functor(f.op, c) /\ f.op \in {"connected", "remove", "removed"}
           /\ c \in Created /\ c \in Conns /\ ~Fresh(c) /\ Constructed(c) /\ Alive(c)
           /\ f.op = "remove" => l = Main
           /\ f.op # "remove" => loop[c] = l
           /\ pc[l] = "run"
           /\ l = Main => accepting = "no"
           /\ f.op = "connected" => Connected(c) /\ UNCHANGED <<functions, connections, pool>>
           /\ f.op = "remove" => RemoveConnectInLoop(c)
           /\ f.op = "removed" => RemovedHandle(c)
           /\ at' = [at EXCEPT ![l] = @ + 1]
           /\ UNCHANGED <<connVars, link, accepting, batch, handVars, pc>>
<1>1. /\ f \in Functors /\ f.conn \in Conns /\ at[l] \in 1 .. Len(batch[l])
      /\ up /\ pc[l] = "run"
      /\ f.op = "connected" => Connected(f.conn) /\ UNCHANGED <<functions, connections, pool>>
      /\ f.op = "remove" => RemoveConnectInLoop(f.conn)
      /\ f.op = "removed" => RemovedHandle(f.conn)
      /\ f.op \in {"connected", "remove", "removed"}
  BY RunCases DEF IInv
<1>2. f \in Coming(l) /\ f \in Held(l)
  BY <1>1, ComingHeld DEF IInv
<1>3. /\ c \in Created /\ ~Fresh(c)
      /\ f.op = "remove" => l = Main
      /\ f.op # "remove" => loop[c] = l
  BY <1>2 DEF IInv, Places
<1>4. Constructed(c)
  BY <1>3 DEF Fresh, Constructed
<1>5. Alive(c)
  BY <1>2, <1>3, AliveMeans DEF IInv
<1>6. f = Functor(f.op, c)
  BY <1>1 DEF Functor, Functors
<1>7. l = Main => accepting = "no"
  BY <1>1 DEF IInv, Phases
<1>8. at' = [at EXCEPT ![l] = @ + 1] /\ UNCHANGED <<connVars, link, accepting, batch, handVars, pc>>
  BY DEF RunFunctor
<1> QED  BY <1>1, <1>2, <1>3, <1>4, <1>5, <1>6, <1>7, <1>8

\* What running a functor leaves as it is.
LEMMA RunStays ==
    ASSUME IInv, NEW l \in Loops, RunFunctor(l)
    PROVE  /\ Phases'
           /\ \A d : Name(d)' = Name(d)
           /\ created' = created /\ Created' = Created /\ loop' = loop /\ fd' = fd
           /\ \A d : /\ Fresh(d)' <=> Fresh(d)
                     /\ Constructed(d)' <=> Constructed(d)
                     /\ Staged(d)' <=> Staged(d)
<1>1. /\ pc[l] = "run" /\ at' = [at EXCEPT ![l] = @ + 1]
      /\ UNCHANGED <<connVars, link, accepting, batch, handVars, pc>>
  BY DEF RunFunctor
<1>2. Phases'
  BY <1>1, Tables DEF IInv, Phases, handVars
<1> QED  BY <1>1, <1>2, NamesStay DEF Fresh, Constructed, Staged

\* connectedHandle runs: the connection is still registered.
LEMMA RunConnected ==
    ASSUME IInv, Types', NEW l \in Loops, RunFunctor(l), batch[l][at[l]].op = "connected"
    PROVE  IInv'
<1> PICK f, c : f = batch[l][at[l]] /\ c = f.conn
  OBVIOUS
<1>1. /\ f \in Coming(l) /\ at[l] \in 1 .. Len(batch[l])
      /\ f = Functor("connected", c) /\ c \in Created /\ ~Fresh(c) /\ Constructed(c)
      /\ loop[c] = l
      /\ Connected(c) /\ UNCHANGED <<functions, connections, pool>>
      /\ at' = [at EXCEPT ![l] = @ + 1]
      /\ UNCHANGED <<connVars, link, accepting, batch, handVars, pc>>
  BY RunFacts
<1>2. /\ Phases' /\ \A d : Name(d)' = Name(d)
      /\ created' = created /\ Created' = Created /\ loop' = loop /\ fd' = fd
      /\ \A d : /\ Fresh(d)' <=> Fresh(d)
                /\ Constructed(d)' <=> Constructed(d)
                /\ Staged(d)' <=> Staged(d)
  BY RunStays
<1>3. /\ \A k \in Loops : Held(k)' = Held(k)
      /\ \A k \in Loops \ {l} : Coming(k)' = Coming(k)
      /\ Coming(l)' \cup {f} = Coming(l)
  BY <1>1, AdvanceSets DEF IInv
<1>4. Registered(c)
  BY <1>1, HandedOffMeans DEF IInv, Owned, OwnedBy
<1>5. watch'[c] \in {"read", "both"} /\ \A d \in Created \ {c} : watch'[d] = watch[d]
  BY <1>1, <1>4, Tables DEF IInv, Connected, AfterCallback, SetMask
<1>6. \A d : (d # c => f # Functor("connected", d)) /\ f # Functor("removed", d)
  BY <1>1 DEF Functor
<1>7. \A k \in Loops : Coming(k)' \subseteq Coming(k) /\ \A g \in Coming(k) : g # f => g \in Coming(k)'
  BY <1>3
<1>8. \A d \in Created : /\ HandedOff(d) => HandedOff(d)'
                         /\ d # c => (HandedOff(d)' <=> HandedOff(d))
  <2> SUFFICES ASSUME NEW d \in Created
               PROVE  /\ HandedOff(d) => HandedOff(d)'
                      /\ d # c => (HandedOff(d)' <=> HandedOff(d))
    OBVIOUS
  <2>1. d \in Conns
    BY CreatedType DEF IInv, Types
  <2>2. HandedOff(d)' <=> Staged(d)' /\ \A k \in Loops : Functor("connected", d) \notin Coming(k)'
    BY <2>1, HandedOffNext
  <2>3. HandedOff(d) <=> Staged(d) /\ \A k \in Loops : Functor("connected", d) \notin Coming(k)
    BY HandedOffMeans
  <2> QED  BY <1>2, <1>6, <1>7, <2>2, <2>3
<1>9. Places' /\ Owned' /\ Distinct' /\ \A d \in Created : Alive(d)' => Alive(d)
  BY <1>1, <1>2, <1>3, <1>6, <1>7, <1>8, FrameOwned DEF IInv
<1>10. WatchRight'
  <2>1. \A d \in Created : Registered(d)' <=> Registered(d)
    BY <1>1, <1>2 DEF Registered
  <2>2. \A d \in Created :
       /\ Alive(d)' /\ Constructed(d)' => (Registered(d)' <=> watch'[d] # "out")
       /\ ~Constructed(d)' => watch'[d] = "out"
       /\ Registered(d)' /\ HandedOff(d)' => watch'[d] \in {"read", "both"}
    <3> SUFFICES ASSUME NEW d \in Created
                 PROVE /\ Alive(d)' /\ Constructed(d)' => (Registered(d)' <=> watch'[d] # "out")
                       /\ ~Constructed(d)' => watch'[d] = "out"
                       /\ Registered(d)' /\ HandedOff(d)' => watch'[d] \in {"read", "both"}
      OBVIOUS
    <3>1. CASE d = c
      BY <1>1, <1>2, <1>4, <1>5, <2>1, <3>1
    <3>2. CASE d # c
      BY <1>2, <1>5, <1>8, <1>9, <2>1, <3>2 DEF IInv, WatchRight
    <3> QED  BY <3>1, <3>2
  <2> QED  BY <1>2, <2>2 DEF WatchRight
<1>11. InOrder'
  BY <1>1, <1>2, OrderKept DEF IInv
<1>12. Reporting'
  BY <1>1, StillReporting DEF IInv, Gone, handVars
<1>13. OpenStays'
  BY <1>1, <1>2, <1>3, StillOpen DEF IInv, Gone
<1> QED  BY <1>2, <1>9, <1>10, <1>11, <1>12, <1>13 DEF IInv

\* removeConnectInLoop runs: the functor it queues takes over from connections_.
LEMMA RunRemove ==
    ASSUME IInv, Types', NEW l \in Loops, RunFunctor(l), batch[l][at[l]].op = "remove"
    PROVE  IInv'
<1> PICK f, c : f = batch[l][at[l]] /\ c = f.conn
  OBVIOUS
<1>1. /\ f \in Coming(l) /\ f \in Held(l) /\ at[l] \in 1 .. Len(batch[l])
      /\ f = Functor("remove", c) /\ c \in Created /\ c \in Conns /\ Alive(c)
      /\ ~Fresh(c) /\ accepting = "no" /\ RemoveConnectInLoop(c)
      /\ at' = [at EXCEPT ![l] = @ + 1]
      /\ UNCHANGED <<connVars, link, accepting, batch, handVars, pc>>
  BY RunFacts
<1> PICK m \in Loops, n \in Names : m = loop[c] /\ n = Name(c)
  BY <1>1, CreatedType DEF IInv, Types
<1> DEFINE g == Functor("removed", c)
<1>2. /\ Phases' /\ \A d : Name(d)' = Name(d)
      /\ created' = created /\ Created' = Created /\ loop' = loop /\ fd' = fd
      /\ \A d : /\ Fresh(d)' <=> Fresh(d)
                /\ Constructed(d)' <=> Constructed(d)
                /\ Staged(d)' <=> Staged(d)
  BY RunStays
<1>3. /\ g \in Functors /\ g.op = "removed" /\ g.conn = c
      /\ \A d : /\ g # Functor("connected", d) /\ (g = Functor("removed", d) => d = c)
                /\ f # Functor("connected", d) /\ f # Functor("removed", d)
  BY <1>1 DEF Functor, Functors
<1>4. /\ connections' = [connections EXCEPT ![n] = None]
      /\ QueueFor(m, g) /\ UNCHANGED <<st, pool, watch>>
  BY <1>1 DEF RemoveConnectInLoop, EraseName
<1>5. connections'[n] = None /\ \A k \in Names \ {n} : connections'[k] = connections[k]
  BY <1>4, Tables DEF IInv
<1> HIDE DEF g
<1>7. /\ \A k \in Loops : \A h \in Held(k)' : h \in Held(k) \/ (h = g /\ k = m)
      /\ \A k \in Loops : \A h : h # f /\ h # g => (h \in Coming(k)' <=> h \in Coming(k))
      /\ g \in Coming(m)'
  <2>1. batch' = batch /\ f = batch[l][at[l]]
    BY <1>1
  <2>2. g \in Functors /\ QueueFor(m, g) /\ at[l] \in 1 .. Len(batch[l])
        /\ at' = [at EXCEPT ![l] = @ + 1] /\ Types
    BY <1>1, <1>3, <1>4 DEF IInv
  <2>3. /\ \A k \in Loops : \A h \in Held(k)' : h \in Held(k) \/ (h = g /\ k = m)
        /\ \A k \in Loops : \A h : h # batch[l][at[l]] /\ h # g =>
              (h \in Coming(k)' <=> h \in Coming(k))
        /\ g \in Coming(m)'
    BY <2>1, <2>2, AdvanceAndQueue
  <2> QED  BY <2>1, <2>3
<1>8. \A d \in Created : HandedOff(d)' <=> HandedOff(d)
  BY <1>2, <1>3, <1>7, SameHandedOff DEF IInv
<1>9. \A d \in Created : Registered(d)' <=> Registered(d)
  BY <1>2, <1>4 DEF Registered
<1>10. Gone(c)
  BY <1>1 DEF Functor, IInv, OpenStays
<1>11. \A d \in Created : d # c /\ connections[Name(d)] = d => connections'[Name(d)] = d
  <2> SUFFICES ASSUME NEW d \in Created, d # c, connections[Name(d)] = d
               PROVE connections'[Name(d)] = d
    OBVIOUS
  <2>1. Alive(d) /\ Name(d) \in Names
    BY AliveMeans, CreatedType DEF IInv, Types
  <2>2. Name(d) # n
    BY <1>1, <2>1 DEF IInv, Distinct
  <2> QED  BY <1>5, <2>1, <2>2
<1>12. /\ \A d \in Created : connections'[Name(d)] = d => connections[Name(d)] = d /\ d # c
  <2> SUFFICES ASSUME NEW d \in Created, connections'[Name(d)] = d
               PROVE connections[Name(d)] = d /\ d # c
    OBVIOUS
  <2>1. Name(d) \in Names /\ d # None
    BY CreatedType DEF IInv, Types, Created, None
  <2> QED  BY <1>5, <2>1
<1>13. Places'
  <2>1. \A k \in Names : connections'[k] # None => connections'[k] \in Created /\ Name(connections'[k]) = k
    BY <1>5 DEF IInv, Places
  <2>2. (\A k \in Names : connections[k] # None => connections[k] \in Created /\ Name(connections[k]) = k)'
    BY <1>1, <1>2, <2>1 DEF Name, connVars
  <2>3. (\A k \in Loops : \A h \in Held(k) :
          /\ h.conn \in Created /\ ~Fresh(h.conn)
          /\ h.op = "remove" => k = Main
          /\ h.op # "remove" => loop[h.conn] = k)'
    <3>1. \A k \in Loops : \A h \in Held(k)' :
            /\ h.conn \in Created /\ ~Fresh(h.conn)
            /\ h.op = "remove" => k = Main
            /\ h.op # "remove" => loop[h.conn] = k
      <4> SUFFICES ASSUME NEW k \in Loops, NEW h \in Held(k)'
                   PROVE  /\ h.conn \in Created /\ ~Fresh(h.conn)
                          /\ h.op = "remove" => k = Main
                          /\ h.op # "remove" => loop[h.conn] = k
        OBVIOUS
      <4>1. CASE h \in Held(k)
        BY <4>1 DEF IInv, Places
      <4>2. CASE h = g /\ k = m
        BY <1>1, <1>3, <4>2
      <4> QED  BY <1>7, <4>1, <4>2
    <3> QED  BY <1>2, <3>1
  <2>4. (\A d \in Created : loop[d] # Main)'
        /\ (\A k \in Loops, h \in Fds : pool[k][h] # None =>
              pool[k][h] \in Created /\ loop[pool[k][h]] = k /\ fd[pool[k][h]] = h)'
    BY <1>2, <1>4 DEF IInv, Places
  <2> QED  BY <2>2, <2>3, <2>4 DEF Places
<1>14. Owned'
  <2>1. \A d \in Created : OwnedBy(d)'
    <3> SUFFICES ASSUME NEW d \in Created
                 PROVE OwnedBy(d)'
      OBVIOUS
    <3>1. \E k \in Loops : Functor("removed", c) \in Coming(k)'
      BY <1>7 DEF g
    <3>2. Registered(d)' => \/ Fresh(d)' \/ connections'[Name(d)'] = d
                            \/ \E k \in Loops : Functor("removed", d) \in Coming(k)'
      <4>1. CASE d = c
        BY <3>1, <4>1
      <4>2. CASE d # c
        <5>1. Functor("removed", d) # f /\ Functor("removed", d) # g
          BY <1>3, <4>2
        <5> QED  BY <1>2, <1>7, <1>9, <1>11, <4>2, <5>1 DEF IInv, Owned, OwnedBy
      <4> QED  BY <4>1, <4>2
    <3>3. connections'[Name(d)'] = d => Registered(d)' /\ ~Fresh(d)'
      BY <1>2, <1>9, <1>12 DEF IInv, Owned, OwnedBy
    <3>4. \A k \in Loops : Functor("removed", d) \in Held(k)' =>
             connections'[Name(d)'] # d /\ ~(d = created' /\ accepting' # "no")
      BY <1>1, <1>2, <1>3, <1>7, <1>12 DEF IInv, Owned, OwnedBy
    <3>5. /\ Constructed(d)' /\ ~HandedOff(d)' => Registered(d)'
          /\ ~Constructed(d)' => ~Registered(d)'
      BY <1>2, <1>8, <1>9 DEF IInv, Owned, OwnedBy
    <3> QED  BY <3>2, <3>3, <3>4, <3>5 DEF OwnedBy
  <2> QED  BY <1>2, <2>1 DEF Owned, OwnedBy
<1>15. \A d \in Created : Alive(d)' => Alive(d)
  <2> SUFFICES ASSUME NEW d \in Created, Alive(d)', d # c PROVE Alive(d)
    BY <1>1
  <2>1. \/ connections'[Name(d)'] = d
        \/ \E k \in Loops : \E h \in Held(k)' : h.conn = d
        \/ d = created' /\ accepting' # "no"
    BY <1>2, <1>13, AliveNext
  <2> QED  BY <1>1, <1>2, <1>3, <1>7, <1>12, <2>1, AliveMeans DEF IInv
<1>16. Distinct'
  BY <1>2, <1>15 DEF IInv, Distinct
<1>17. WatchRight'
  BY <1>2, <1>4, <1>8, <1>9, <1>15 DEF IInv, WatchRight
<1>18. InOrder'
  <2>1. /\ functions' = [functions EXCEPT ![m] = Append(@, g)]
        /\ \A d \in Created : g = Functor("connected", d) => Functor("removed", d) \notin Coming(m)
    BY <1>3, <1>4 DEF QueueFor
  <2>2. batch' = batch /\ at' = [at EXCEPT ![l] = @ + 1]
    BY <1>1
  <2> QED  BY <1>2, <1>3, <2>1, <2>2, OrderKept DEF IInv
<1>19. Reporting'
  BY <1>1, <1>4, StillReporting DEF IInv, Gone, handVars
<1>20. OpenStays'
  <2>1. \A d \in Created : ~Gone(d)' =>
         /\ \A k \in Loops : \A h \in Held(k)' : h.conn = d => h.op = "connected"
         /\ Fresh(d)' \/ connections'[Name(d)'] = d
    <3> SUFFICES ASSUME NEW d \in Created, ~Gone(d)'
                 PROVE /\ \A k \in Loops : \A h \in Held(k)' : h.conn = d => h.op = "connected"
                       /\ Fresh(d)' \/ connections'[Name(d)'] = d
      OBVIOUS
    <3>1. ~Gone(d) /\ d # c
      BY <1>1, <1>10 DEF Gone
    <3>2. \A k \in Loops : \A h \in Held(k)' : h.conn = d => h.op = "connected"
      BY <1>3, <1>7, <3>1 DEF IInv, OpenStays
    <3>3. Fresh(d)' \/ connections'[Name(d)'] = d
      BY <1>2, <1>11, <3>1 DEF IInv, OpenStays
    <3> QED  BY <3>2, <3>3
  <2> QED  BY <1>2, <2>1 DEF OpenStays
<1> QED  BY <1>2, <1>13, <1>14, <1>16, <1>17, <1>18, <1>19, <1>20 DEF IInv

\* removedHandle finds its connection read or unread, and leaves it out of pool and epoll.
LEMMA RemovedEffects ==
    ASSUME IInv, NEW l \in Loops, NEW c \in Created, Alive(c), Constructed(c), loop[c] = l,
           RemovedHandle(c), UNCHANGED connVars
    PROVE  /\ pool' \in {pool, [pool EXCEPT ![l][fd[c]] = None]}
           /\ pool'[l][fd[c]] = None
           /\ watch'[c] = "out" /\ \A d \in Created \ {c} : watch'[d] = watch[d]
           /\ \/ functions' = functions
              \/ QueueFor(Main, Functor("remove", c))
           /\ connections' = connections
<1>1. /\ DeleteEvent(l, fd[c]) /\ connections' = connections
      /\ \/ functions' = functions
         \/ QueueFor(Main, Functor("remove", c))
  BY DEF RemovedHandle
<1>2. l \in Loops /\ fd[c] \in Fds /\ pool[l][fd[c]] \in {None, c} /\ c # None
  BY OneInSlot, CreatedType DEF IInv, Types, Created, None
<1>3. CASE pool[l][fd[c]] = None
  <2>1. pool' = pool /\ watch' = watch
    BY <1>1, <1>3 DEF DeleteEvent
  <2>2. watch[c] = "out"
    BY <1>2, <1>3 DEF IInv, WatchRight, Registered
  <2> QED  BY <1>1, <1>3, <2>1, <2>2
<1>4. CASE pool[l][fd[c]] # None
  <2>1. pool' = [pool EXCEPT ![l][fd[c]] = None] /\ watch' = EpollDel(l, fd[c])
    BY <1>1, <1>4 DEF DeleteEvent
  <2>2. pool'[l][fd[c]] = None
    BY <1>2, <2>1, Tables DEF IInv
  <2>3. watch'[c] = "out"
    BY <2>1 DEF EpollDel
  <2>4. \A d \in Created \ {c} : watch'[d] = watch[d]
    BY <2>1 DEF EpollDel, IInv, Distinct
  <2> QED  BY <1>1, <2>1, <2>2, <2>3, <2>4
<1> QED  BY <1>3, <1>4

\* removedHandle runs: nothing else of the connection is queued, and its descriptor is freed.
LEMMA RunRemoved ==
    ASSUME IInv, Types', NEW l \in Loops, RunFunctor(l), batch[l][at[l]].op = "removed"
    PROVE  IInv'
<1> PICK f, c : f = batch[l][at[l]] /\ c = f.conn
  OBVIOUS
<1>1. /\ f \in Coming(l) /\ f \in Held(l) /\ at[l] \in 1 .. Len(batch[l])
      /\ f = Functor("removed", c) /\ c \in Created /\ c \in Conns /\ Alive(c)
      /\ ~Fresh(c) /\ Constructed(c) /\ loop[c] = l /\ RemovedHandle(c)
      /\ pc[l] = "run" /\ at' = [at EXCEPT ![l] = @ + 1]
      /\ UNCHANGED <<connVars, link, accepting, batch, handVars, pc>>
  BY RunFacts
<1> DEFINE g == Functor("remove", c)
<1>2. /\ Phases' /\ \A d : Name(d)' = Name(d)
      /\ created' = created /\ Created' = Created /\ loop' = loop /\ fd' = fd
      /\ \A d : /\ Fresh(d)' <=> Fresh(d)
                /\ Constructed(d)' <=> Constructed(d)
                /\ Staged(d)' <=> Staged(d)
  BY RunStays
<1>3. /\ g \in Functors /\ g.op = "remove" /\ g.conn = c /\ Main \in Loops
      /\ \A d : /\ g # Functor("connected", d) /\ g # Functor("removed", d)
                /\ f # Functor("connected", d) /\ (f = Functor("removed", d) => d = c)
  <2>1. Main \in Loops
    BY ServerAssumption DEF Main, Loops
  <2> QED  BY <1>1, <2>1 DEF Functor, Functors
<1>4. /\ pool' \in {pool, [pool EXCEPT ![l][fd[c]] = None]}
      /\ pool'[l][fd[c]] = None
      /\ watch'[c] = "out" /\ \A d \in Created \ {c} : watch'[d] = watch[d]
      /\ \/ functions' = functions
         \/ QueueFor(Main, g)
      /\ connections' = connections
  BY <1>1, RemovedEffects
<1>5. Gone(c)
  BY <1>1 DEF Functor, IInv, OpenStays
<1> HIDE DEF g
<1>6. /\ \A k \in Loops : \A h \in Held(k)' : h \in Held(k) \/ (h = g /\ k = Main)
      /\ \A k \in Loops : \A h : h # f /\ h # g => (h \in Coming(k)' <=> h \in Coming(k))
  <2>1. CASE functions' = functions
    <3>1. UNCHANGED <<batch, functions>>
      BY <1>1, <2>1
    <3>2. /\ \A k \in Loops : Held(k)' = Held(k)
          /\ \A k \in Loops \ {l} : Coming(k)' = Coming(k)
          /\ Coming(l)' \cup {batch[l][at[l]]} = Coming(l)
      BY <1>1, <3>1, AdvanceSets DEF IInv
    <3>3. f = batch[l][at[l]]
      OBVIOUS
    <3> QED  BY <3>2, <3>3
  <2>2. CASE QueueFor(Main, g)
    <3>1. /\ batch' = batch /\ at[l] \in 1 .. Len(batch[l])
          /\ at' = [at EXCEPT ![l] = @ + 1] /\ Types
      BY <1>1 DEF IInv
    <3>2. /\ \A k \in Loops : \A h \in Held(k)' : h \in Held(k) \/ (h = g /\ k = Main)
          /\ \A k \in Loops : \A h : h # batch[l][at[l]] /\ h # g =>
                (h \in Coming(k)' <=> h \in Coming(k))
      BY <1>3, <2>2, <3>1, AdvanceAndQueue
    <3> QED  BY <3>2
  <2> QED  BY <1>4, <2>1, <2>2
<1>7. \A d \in Created : HandedOff(d)' <=> HandedOff(d)
  BY <1>2, <1>3, <1>6, SameHandedOff DEF IInv
<1>8. connections[Name(c)] # c /\ ~(c = created /\ accepting # "no")
  BY <1>1 DEF IInv, Owned, OwnedBy
<1>9. HandedOff(c)
  <2>1. Staged(c)
    BY <1>8 DEF Staged
  <2>2. Functor("connected", c) \notin Coming(l)
    <3>1. Functor("connected", c) \notin Range(functions[l])
      <4>1. at[l] \in at[l] .. Len(batch[l])
        BY <1>1, Tables, LenProperties DEF IInv
      <4> QED  BY <1>1, <4>1 DEF IInv, InOrder, OrderOf
    <3>2. \A i \in at[l] .. Len(batch[l]) : batch[l][i] # Functor("connected", c)
      <4> SUFFICES ASSUME NEW i \in at[l] .. Len(batch[l])
                   PROVE batch[l][i] # Functor("connected", c)
        OBVIOUS
      <4>1. at[l] \in Nat /\ Len(batch[l]) \in Nat /\ at[l] \in at[l] .. Len(batch[l])
        BY <1>1, Tables, LenProperties DEF IInv
      <4>2. CASE i = at[l]
        BY <1>1, <1>3, <4>2
      <4>3. CASE at[l] < i
        BY <1>1, <4>1, <4>3 DEF IInv, InOrder, OrderOf
      <4> QED  BY <4>1, <4>2, <4>3
    <3> QED  BY <3>1, <3>2 DEF Coming
  <2>3. \A k \in Loops : Functor("connected", c) \in Coming(k) => k = l
    <3> SUFFICES ASSUME NEW k \in Loops, Functor("connected", c) \in Coming(k) PROVE k = l
      OBVIOUS
    <3>1. Functor("connected", c) \in Held(k)
      BY ComingHeld DEF IInv
    <3>2. Functor("connected", c).op = "connected" /\ Functor("connected", c).conn = c
      BY DEF Functor
    <3>3. \A h \in Held(k) : h.op # "remove" => loop[h.conn] = k
      BY DEF IInv, Places
    <3>4. loop[c] = k
      BY <3>1, <3>2, <3>3
    <3> QED  BY <1>1, <3>4
  <2> QED  BY <2>1, <2>2, <2>3, HandedOffMeans
<1>10. /\ l \in Loops /\ fd[c] \in Fds /\ c # None
       /\ \A k \in Loops, h \in Fds : k # l \/ h # fd[c] => pool'[k][h] = pool[k][h]
  <2>1. fd[c] \in Fds /\ c # None
    <3>1. fd[c] \in Fds /\ c \in Conns
      BY <1>1, CreatedType DEF IInv, Types
    <3> QED  BY <3>1 DEF Conns, None
  <2>2. pool \in [Loops -> [Fds -> Conns \cup {None}]]
    BY Tables DEF IInv
  <2> HIDE DEF g
  <2>3. CASE pool' = pool
    BY <2>1, <2>3
  <2>4. CASE pool' = [pool EXCEPT ![l][fd[c]] = None]
    BY <2>1, <2>2, <2>4
  <2> QED  BY <1>4, <2>1, <2>3, <2>4
<1>11. \A d \in Created : Registered(d)' <=> Registered(d) /\ d # c
  <2> SUFFICES ASSUME NEW d \in Created PROVE Registered(d)' <=> Registered(d) /\ d # c
    OBVIOUS
  <2>1. loop[d] \in Loops /\ fd[d] \in Fds /\ d # None
    BY CreatedType DEF IInv, Types, Created, None
  <2>2. CASE d = c
    BY <1>1, <1>2, <1>4, <2>1, <2>2 DEF Registered
  <2>3. CASE d # c
    <3>1. CASE loop[d] = l /\ fd[d] = fd[c]
      <4>1. pool[l][fd[c]] \in {None, c}
        BY <1>1, OneInSlot
      <4> QED  BY <1>2, <1>4, <2>1, <2>3, <3>1, <4>1 DEF Registered
    <3>2. CASE ~(loop[d] = l /\ fd[d] = fd[c])
      BY <1>2, <1>10, <2>1, <2>3, <3>2 DEF Registered
    <3> QED  BY <3>1, <3>2
  <2> QED  BY <2>2, <2>3
<1>12. Places'
  <2>1. (\A k \in Loops, h \in Fds : pool[k][h] # None =>
              pool[k][h] \in Created /\ loop[pool[k][h]] = k /\ fd[pool[k][h]] = h)'
    <3>1. \A k \in Loops, h \in Fds : pool'[k][h] # None =>
              pool'[k][h] \in Created /\ loop[pool'[k][h]] = k /\ fd[pool'[k][h]] = h
      BY <1>4, <1>10 DEF IInv, Places
    <3> QED  BY <1>2, <3>1
  <2>2. (\A k \in Loops : \A h \in Held(k) :
          /\ h.conn \in Created /\ ~Fresh(h.conn)
          /\ h.op = "remove" => k = Main
          /\ h.op # "remove" => loop[h.conn] = k)'
    <3>1. \A k \in Loops : \A h \in Held(k)' :
            /\ h.conn \in Created /\ ~Fresh(h.conn)
            /\ h.op = "remove" => k = Main
            /\ h.op # "remove" => loop[h.conn] = k
      <4> SUFFICES ASSUME NEW k \in Loops, NEW h \in Held(k)'
                   PROVE  /\ h.conn \in Created /\ ~Fresh(h.conn)
                          /\ h.op = "remove" => k = Main
                          /\ h.op # "remove" => loop[h.conn] = k
        OBVIOUS
      <4>1. CASE h \in Held(k)
        BY <4>1 DEF IInv, Places
      <4>2. CASE h = g /\ k = Main
        BY <1>1, <1>3, <4>2
      <4> QED  BY <1>6, <4>1, <4>2
    <3> QED  BY <1>2, <3>1
  <2>3. (\A d \in Created : loop[d] # Main)'
    BY <1>2 DEF IInv, Places
  <2>4. (\A n \in Names : connections[n] # None =>
               connections[n] \in Created /\ Name(connections[n]) = n)'
    <3>1. connections' = connections /\ peer' = peer /\ Created' = Created
      BY <1>1, <1>2, <1>4 DEF connVars
    <3> QED  BY <3>1 DEF IInv, Places, Name
  <2> QED  BY <2>1, <2>2, <2>3, <2>4 DEF Places
<1>13. Owned'
  <2>1. \A d \in Created : OwnedBy(d)'
    <3> SUFFICES ASSUME NEW d \in Created
                 PROVE OwnedBy(d)'
      OBVIOUS
    <3>1. \A k \in Loops : Functor("removed", d) \in Held(k)' => Functor("removed", d) \in Held(k)
      BY <1>3, <1>6
    <3>2. \A k \in Loops : Functor("removed", d) \in Held(k)' =>
             connections'[Name(d)'] # d /\ ~(d = created' /\ accepting' # "no")
      BY <1>1, <1>2, <1>4, <3>1 DEF IInv, Owned, OwnedBy
    <3>3. CASE d = c
      BY <1>1, <1>2, <1>4, <1>7, <1>8, <1>9, <1>11, <3>2, <3>3 DEF OwnedBy
    <3>4. CASE d # c
      <4>1. Functor("removed", d) # f /\ Functor("removed", d) # g
        BY <1>3, <3>4
      <4> QED  BY <1>2, <1>4, <1>6, <1>7, <1>11, <3>2, <3>4, <4>1 DEF IInv, Owned, OwnedBy
    <3> QED  BY <3>3, <3>4
  <2> QED  BY <1>2, <2>1 DEF Owned, OwnedBy
<1>14. \A d \in Created : Alive(d)' => Alive(d)
  <2> SUFFICES ASSUME NEW d \in Created, Alive(d)', d # c PROVE Alive(d)
    BY <1>1
  <2>1. \/ connections'[Name(d)'] = d
        \/ \E k \in Loops : \E h \in Held(k)' : h.conn = d
        \/ d = created' /\ accepting' # "no"
    BY <1>2, <1>12, AliveNext
  <2> QED  BY <1>1, <1>2, <1>3, <1>4, <1>6, <2>1, AliveMeans DEF IInv
<1>15. Distinct'
  BY <1>2, <1>14 DEF IInv, Distinct
<1>16. WatchRight'
  <2>1. \A d \in Created :
       /\ Alive(d)' /\ Constructed(d)' => (Registered(d)' <=> watch'[d] # "out")
       /\ ~Constructed(d)' => watch'[d] = "out"
       /\ Registered(d)' /\ HandedOff(d)' => watch'[d] \in {"read", "both"}
    <3> SUFFICES ASSUME NEW d \in Created
                 PROVE /\ Alive(d)' /\ Constructed(d)' => (Registered(d)' <=> watch'[d] # "out")
                       /\ ~Constructed(d)' => watch'[d] = "out"
                       /\ Registered(d)' /\ HandedOff(d)' => watch'[d] \in {"read", "both"}
      OBVIOUS
    <3>1. CASE d = c
      BY <1>1, <1>2, <1>4, <1>11, <3>1
    <3>2. CASE d # c
      BY <1>2, <1>4, <1>7, <1>11, <1>14, <3>2 DEF IInv, WatchRight
    <3> QED  BY <3>1, <3>2
  <2> QED  BY <1>2, <2>1 DEF WatchRight
<1>17. InOrder'
  <2>1. \/ functions' = functions
        \/ functions' = [functions EXCEPT ![Main] = Append(@, g)]
    BY <1>4 DEF QueueFor
  <2>2. batch' = batch /\ at' = [at EXCEPT ![l] = @ + 1]
    BY <1>1
  <2> QED  BY <1>2, <1>3, <2>1, <2>2, OrderKept DEF IInv
<1>18. Reporting'
  <2>1. \A k \in Loops : active[k] # {} \/ calls[k] # <<>> => k # l
    BY <1>1 DEF IInv, Phases
  <2>2. \A d \in Created :
           Registered(d) /\ (active[loop[d]] # {} \/ calls[loop[d]] # <<>>)
              => pool'[loop'[d]][fd'[d]] = d
    <3> SUFFICES ASSUME NEW d \in Created, Registered(d), active[loop[d]] # {} \/ calls[loop[d]] # <<>>
                 PROVE pool'[loop'[d]][fd'[d]] = d
      OBVIOUS
    <3>1. loop[d] \in Loops
      BY CreatedType DEF IInv, Types
    <3>2. d # c
      BY <1>1, <2>1, <3>1
    <3>3. Registered(d)'
      BY <1>11, <3>2
    <3> QED  BY <3>3 DEF Registered
  <2> QED  BY <1>1, <1>2, <2>2, ReportingKept DEF IInv, Gone, handVars
<1>19. OpenStays'
  <2>1. \A k \in Loops : \A h \in Held(k)' : h \in Held(k) \/ Gone(h.conn)
    BY <1>3, <1>5, <1>6
  <2> QED  BY <1>1, <1>2, <1>4, <2>1, StillOpen DEF IInv, Gone
<1> QED  BY <1>2, <1>12, <1>13, <1>15, <1>16, <1>17, <1>18, <1>19 DEF IInv

-------------------------------------------------------------------------------
(***************************************************************************)
(* The server without io loops: the main loop serves the connections, no   *)
(* functor is ever queued, and a connection is removed within the handler  *)
(* that found it closed.                                                   *)
(***************************************************************************)

\* No io loop, no peer resets and no write is cut short: a reset, or a hang-up while EPOLLOUT
\* is asked for, calls a second handler (run server_reset).
Lone == setup.threads = 0 /\ ~setup.resets /\ ~setup.cuts

\* Everything is with the main loop and under the name of the connection it belongs to.
LonePlaces ==
    /\ \A l \in Loops : functions[l] = <<>> /\ batch[l] = <<>>
    /\ \A c \in Created : loop[c] = Main /\ link[c] \in {"up", "data", "eof"}
    /\ \A n \in Names : connections[n] # None =>
          connections[n] \in Created /\ Name(connections[n]) = n
    /\ \A l \in Loops, f \in Fds : pool[l][f] # None =>
          l = Main /\ pool[l][f] \in Created /\ fd[pool[l][f]] = f

\* A connection is registered while it is in connections_, and before that once it is
\* constructed; it is read from connectedHandle on; only the end of its input removes it.
LoneOwnedBy(c) ==
    /\ Registered(c) <=> \/ connections[Name(c)] = c
                         \/ c = created /\ accepting \in {"constructed", "bound"}
    /\ Fresh(c) => connections[Name(c)] # c
    /\ c = created /\ accepting \in {"registered", "handedOff"} => connections[Name(c)] = c
    /\ ~Gone(c) => Fresh(c) \/ connections[Name(c)] = c
    /\ Registered(c) => watch[c] # "out"
    /\ Registered(c) /\ Staged(c) => watch[c] = "read"
    /\ Alive(c) /\ ~Registered(c) => watch[c] = "out"

LoneOwned == \A c \in Created : LoneOwnedBy(c)

\* What epoll reported has data to read, or the end of its input, and is handled once.
Readable(c) == c \in Created /\ Registered(c) /\ link[c] \in {"data", "eof"}

LoneReporting ==
    /\ \A l \in Loops \ {Main} : active[l] = {} /\ calls[l] = <<>>
    /\ \A e \in active[Main] : e.conn # None =>
          /\ Readable(e.conn) /\ e.events = {"in"}
          /\ calls[Main] # <<>> => e.conn # handling[Main]
    /\ calls[Main] # <<>> =>
          accepting = "no" /\ calls[Main] = <<"read">> /\ Readable(handling[Main])

LoneInv == Types /\ LonePlaces /\ LoneOwned /\ Distinct /\ Phases /\ LoneReporting

\* Who keeps a connection alive when no functor does.
LEMMA LoneAlive ==
    Types /\ LonePlaces => \A c \in Created :
        Alive(c) <=> connections[Name(c)] = c \/ (c = created /\ accepting # "no")
<1> SUFFICES ASSUME Types, LonePlaces, NEW c \in Created
             PROVE  Alive(c) <=> connections[Name(c)] = c \/ (c = created /\ accepting # "no")
  OBVIOUS
<1>1. connections \in [Names -> Conns \cup {None}] /\ Name(c) \in Names
      /\ c \in Conns /\ c # None
  <2>1. c \in Conns /\ Name(c) \in Names
    BY CreatedType DEF Types
  <2> QED  BY <2>1, Tables DEF Conns, None
<1>2. c \in Range(connections) <=> connections[Name(c)] = c
  <2>1. c \in Range(connections) => \E n \in Names : connections[n] = c
    BY <1>1 DEF Range
  <2>2. connections[Name(c)] = c => c \in Range(connections)
    BY <1>1 DEF Range
  <2> QED  BY <1>1, <2>1, <2>2 DEF LonePlaces
<1>3. ~InFunctor(c)
  BY RangeEmpty DEF InFunctor, LonePlaces
<1> QED  BY <1>2, <1>3 DEF Alive

\* The same after a step.
LEMMA LoneAliveNext ==
   (Types /\ LonePlaces => \A c \in Created :
        Alive(c) <=> connections[Name(c)] = c \/ (c = created /\ accepting # "no"))'
BY LoneAlive, PTL

\* What is registered is alive.
LEMMA LoneLives ==
    ASSUME Types, LonePlaces, LoneOwned, NEW c \in Created, Registered(c)
    PROVE  Alive(c)
<1>1. connections[Name(c)] = c \/ (c = created /\ accepting \in {"constructed", "bound"})
  BY DEF LoneOwned, LoneOwnedBy
<1> QED  BY <1>1, LoneAlive

\* A step that leaves the tables alone, but for the links and the stage of newConnected.
LEMMA LoneFrame ==
    ASSUME LoneInv, Types', UNCHANGED <<connVars, connections, pool, functions, batch>>,
           \A c \in Created : link'[c] \in {link[c], "up", "data", "eof"}
    PROVE  /\ LonePlaces' /\ Created' = Created
           /\ \A c \in Created : (Registered(c)' <=> Registered(c)) /\ Name(c)' = Name(c)
           /\ \A c \in Created : (Readable(c)' <=> Registered(c) /\ link'[c] \in {"data", "eof"})
           /\ \A c \in Created : Alive(c)' <=> connections[Name(c)] = c \/ (c = created /\ accepting' # "no")
<1>1. /\ Created' = Created /\ created' = created /\ loop' = loop /\ fd' = fd /\ setup' = setup
      /\ \A c : Name(c)' = Name(c)
  BY NamesStay
<1>2. \A c \in Created : Registered(c)' <=> Registered(c)
  BY <1>1 DEF Registered
<1>3. LonePlaces'
  BY <1>1 DEF LoneInv, LonePlaces, Name
<1>4. \A c \in Created : Alive(c)' <=> connections[Name(c)] = c \/ (c = created /\ accepting' # "no")
  BY <1>1, <1>3, LoneAliveNext
<1> QED  BY <1>1, <1>2, <1>3, <1>4 DEF Readable

\* The reports stay true while nobody is registered or removed.
LEMMA LoneReportingKept ==
    ASSUME LoneInv, UNCHANGED <<connVars, pool>>,
           \A c \in Created : link[c] \in {"data", "eof"} => link'[c] \in {"data", "eof"},
           calls'[Main] # <<>> => calls' = calls /\ handling' = handling /\ accepting' = "no",
           \A l \in Loops : active'[l] \subseteq active[l],
           \A l \in Loops \ {Main} : calls'[l] = <<>>
    PROVE  LoneReporting'
<1>1. Created' = Created /\ loop' = loop /\ fd' = fd
  BY NamesStay
<1>2. \A c : Readable(c) => Readable(c)'
  BY <1>1 DEF Readable, Registered
<1>3. Main \in Loops
  BY ServerAssumption DEF Main, Loops
<1>4. (\A l \in Loops \ {Main} : active[l] = {} /\ calls[l] = <<>>)'
  BY DEF LoneInv, LoneReporting
<1>5. \A e \in active'[Main] : e.conn # None =>
          /\ Readable(e.conn)' /\ e.events = {"in"}
          /\ calls'[Main] # <<>> => e.conn # handling'[Main]
  BY <1>2, <1>3 DEF LoneInv, LoneReporting
<1>6. calls'[Main] # <<>> =>
          accepting' = "no" /\ calls'[Main] = <<"read">> /\ Readable(handling[Main])' /\ handling' = handling
  BY <1>2 DEF LoneInv, LoneReporting
<1>7. calls'[Main] # <<>> =>
          accepting' = "no" /\ calls'[Main] = <<"read">> /\ Readable(handling[Main])'
  BY <1>6
<1> QED  BY <1>4, <1>5, <1>7 DEF LoneReporting

\* The steps of newConnected that set callbacks and that return, a connection refused, a
\* peer that sends or hangs up, and nothing at all.
LEMMA LoneQuiet ==
    ASSUME LoneInv, Types', Lone,
           \/ AcceptFails \/ BindHandlers \/ NewConnectedReturns \/ UNCHANGED vars
           \/ \E c \in Conns : PeerSends(c) \/ PeerCloses(c) \/ PeerResets(c)
    PROVE  LoneInv'
<1>1. /\ UNCHANGED <<connVars, st, watch, connections, pool, queueVars, calls, handling, pc, up>>
      /\ \/ active' = active
         \/ active' = [active EXCEPT ![Main] = @ \ {Connecting}]
      /\ \/ accepting' = accepting
         \/ accepting = "constructed" /\ accepting' = "bound"
         \/ accepting = "handedOff" /\ accepting' = "no"
      /\ \/ link' = link
         \/ \E c \in Created, x \in {"data", "eof"} : link[c] = "up" /\ link' = [link EXCEPT ![c] = x]
  <2>1. \A c : ~PeerResets(c)
    BY DEF PeerResets, Lone
  <2>2. CASE AcceptFails \/ BindHandlers \/ NewConnectedReturns
    BY <2>2 DEF AcceptFails, AcceptHandle, BindHandlers, NewConnectedReturns, handVars
  <2>3. CASE UNCHANGED vars
    BY <2>3 DEF vars, handVars
  <2>4. CASE \E c \in Conns : PeerSends(c) \/ PeerCloses(c)
    BY <2>4 DEF PeerSends, PeerCloses, handVars
  <2> QED  BY <2>1, <2>2, <2>3, <2>4
<1>2. /\ \A c \in Created : /\ link'[c] \in {link[c], "up", "data", "eof"}
                            /\ link[c] \in {"data", "eof"} => link'[c] \in {"data", "eof"}
                            /\ Gone(c) => Gone(c)'
      /\ \A l \in Loops : active'[l] \subseteq active[l]
  <2>1. \A l \in Loops : active'[l] \subseteq active[l]
    BY <1>1, Tables, ZenonT(40) DEF LoneInv
  <2>2. ASSUME NEW c \in Created
        PROVE  \/ link'[c] = link[c]
               \/ link[c] = "up" /\ link'[c] \in {"data", "eof"}
    <3>1. link \in [Created -> Links]
      BY Tables DEF LoneInv
    <3> QED  BY <1>1, <3>1
  <2> QED  BY <2>1, <2>2 DEF Gone
<1>3. functions' = functions /\ batch' = batch
  BY <1>1 DEF queueVars
<1>4. /\ LonePlaces' /\ Created' = Created /\ created' = created
      /\ \A c \in Created : (Registered(c)' <=> Registered(c)) /\ Name(c)' = Name(c)
      /\ \A c \in Created : Alive(c)' <=> connections[Name(c)] = c \/ (c = created /\ accepting' # "no")
  BY <1>1, <1>2, <1>3, LoneFrame, NamesStay
<1>5. \A c \in Created : Alive(c)' => Alive(c)
  <2>1. accepting' # "no" => accepting # "no"
    BY <1>1
  <2> QED  BY <1>4, <2>1, LoneAlive DEF LoneInv
<1>6. LoneOwned'
  <2>1. \A c \in Created : LoneOwnedBy(c)'
    <3> SUFFICES ASSUME NEW c \in Created PROVE LoneOwnedBy(c)'
      OBVIOUS
    <3>1. /\ Fresh(c)' <=> Fresh(c)
          /\ Staged(c)' <=> Staged(c)
          /\ accepting' \in {"constructed", "bound"} <=> accepting \in {"constructed", "bound"}
          /\ accepting' \in {"registered", "handedOff"} => accepting \in {"registered", "handedOff"}
      BY <1>1, <1>4 DEF Fresh, Staged
    <3>2. Gone(c) => Gone(c)'
      BY <1>2
    <3>3. connections' = connections /\ watch' = watch
      BY <1>1
    <3> QED  BY <1>4, <1>5, <3>1, <3>2, <3>3 DEF LoneInv, LoneOwned, LoneOwnedBy
  <2> QED  BY <1>4, <2>1 DEF LoneOwned
<1>7. Distinct'
  <2>1. fd' = fd
    BY <1>1, NamesStay
  <2> QED  BY <1>4, <1>5, <2>1 DEF LoneInv, Distinct
<1>8. Phases'
  BY <1>1, <1>2 DEF LoneInv, Phases, queueVars
<1>9. LoneReporting'
  <2>1. calls[Main] # <<>> => accepting' = "no"
    BY <1>1 DEF LoneInv, LoneReporting
  <2> QED  BY <1>1, <1>2, <2>1, LoneReportingKept DEF LoneInv, LoneReporting
<1> QED  BY <1>4, <1>6, <1>7, <1>8, <1>9 DEF LoneInv

\* The swap of the queue and the end of its batch find nothing.
LEMMA LoneFunctions ==
    ASSUME LoneInv, Types', NEW l \in Loops, BeginFunctions(l) \/ EndFunctions(l)
    PROVE  LoneInv'
<1>1. /\ UNCHANGED <<connVars, st, link, watch, accepting, connections, pool, handVars, up>>
      /\ at' = [at EXCEPT ![l] = 1]
      /\ \/ BeginFunctions(l) /\ pc' = [pc EXCEPT ![l] = "run"]
         \/ EndFunctions(l) /\ pc[l] = "run" /\ pc' = [pc EXCEPT ![l] = "poll"]
  BY DEF BeginFunctions, EndFunctions
<1>2. functions' = functions /\ batch' = batch
  <2>1. /\ functions[l] = <<>> /\ batch[l] = <<>>
        /\ functions \in [Loops -> Seq(Functors)] /\ batch \in [Loops -> Seq(Functors)]
    BY Tables DEF LoneInv, LonePlaces
  <2> QED  BY <2>1 DEF BeginFunctions, EndFunctions
<1>3. /\ LonePlaces' /\ Created' = Created /\ created' = created
      /\ \A c \in Created : (Registered(c)' <=> Registered(c)) /\ Name(c)' = Name(c)
      /\ \A c \in Created : Alive(c)' <=> Alive(c)
  BY <1>1, <1>2, LoneFrame, NamesStay, LoneAlive DEF LoneInv
<1>4. LoneOwned' /\ Distinct'
  <2>1. \A c \in Created : LoneOwnedBy(c)'
    BY <1>1, <1>3 DEF LoneInv, LoneOwned, LoneOwnedBy, Fresh, Staged, Gone
  <2>2. fd' = fd
    BY <1>1, NamesStay
  <2> QED  BY <1>3, <2>1, <2>2 DEF LoneOwned, LoneInv, Distinct
<1>5. Phases'
  <2>1. CASE BeginFunctions(l)
    <3>1. /\ active[l] = {} /\ calls[l] = <<>> /\ (l = Main => accepting = "no")
          /\ pc' = [pc EXCEPT ![l] = "run"]
      BY <2>1 DEF BeginFunctions, InHandlers
    <3> QED  BY <1>1, <1>2, <3>1, Tables DEF LoneInv, Phases, handVars
  <2>2. CASE EndFunctions(l)
    <3>1. batch[l] = <<>> /\ pc' = [pc EXCEPT ![l] = "poll"] /\ pc[l] = "run"
      BY <2>2 DEF LoneInv, LonePlaces, EndFunctions
    <3> QED  BY <1>1, <1>2, <3>1, Tables DEF LoneInv, Phases, handVars
  <2> QED  BY <1>1, <2>1, <2>2
<1>6. LoneReporting'
  BY <1>1, LoneReportingKept DEF LoneInv, LoneReporting, handVars
<1> QED  BY <1>3, <1>4, <1>5, <1>6 DEF LoneInv

\* epoll_wait returns: it reports what is watched and has something to read.
LEMMA LonePoll ==
    ASSUME LoneInv, Types', Lone, NEW l \in Loops, Poll(l)
    PROVE  LoneInv'
<1>1. /\ pc[l] = "poll" /\ pc' = [pc EXCEPT ![l] = "handle"] /\ l <= setup.threads
      /\ UNCHANGED <<connVars, st, link, watch, accepting, connections, pool, queueVars,
                     calls, handling, up>>
      /\ \E waiting \in SUBSET {Connecting}, full \in SUBSET {c \in Created : watch[c] = "both"} :
            active' = [active EXCEPT ![l] = Reported(l, full) \cup waiting]
  BY DEF Poll
<1>2. l = Main /\ calls[Main] = <<>> /\ accepting = "no"
  <2>1. l = Main
    BY <1>1, ServerAssumption DEF Lone, Loops, Main
  <2> QED  BY <1>1, <2>1 DEF LoneInv, Phases
<1>3. functions' = functions /\ batch' = batch
  BY <1>1 DEF queueVars
<1>4. /\ LonePlaces' /\ Created' = Created /\ created' = created
      /\ \A c \in Created : (Registered(c)' <=> Registered(c)) /\ Name(c)' = Name(c)
      /\ \A c \in Created : Alive(c)' <=> Alive(c)
      /\ \A c \in Created : Readable(c)' <=> Readable(c)
  <2>1. \A c \in Created : Readable(c)' <=> Readable(c)
    BY <1>1, <1>3, LoneFrame DEF Readable
  <2> QED  BY <1>1, <1>3, <2>1, LoneFrame, NamesStay, LoneAlive DEF LoneInv
<1>5. LoneOwned' /\ Distinct'
  <2>1. \A c \in Created : LoneOwnedBy(c)'
    BY <1>1, <1>4 DEF LoneInv, LoneOwned, LoneOwnedBy, Fresh, Staged, Gone
  <2>2. fd' = fd
    BY <1>1, NamesStay
  <2> QED  BY <1>4, <2>1, <2>2 DEF LoneOwned, LoneInv, Distinct
<1>6. active \in [Loops -> SUBSET [conn : Conns \cup {None}, events : SUBSET Events]]
      /\ pc \in [Loops -> {"poll", "handle", "run"}]
  BY Tables DEF LoneInv
<1>7. \A k \in Loops \ {l} : active'[k] = active[k]
  BY <1>1, <1>6
<1>8. Phases'
  BY <1>1, <1>6, <1>7 DEF LoneInv, Phases, queueVars
<1>9. LoneReporting'
  <2>1. \A full : \A e \in Reported(Main, full) : Readable(e.conn) /\ e.events = {"in"}
    <3> SUFFICES ASSUME NEW full, NEW e \in Reported(Main, full)
                 PROVE  Readable(e.conn) /\ e.events = {"in"}
      OBVIOUS
    <3>1. PICK d \in Created : /\ Alive(d) /\ watch[d] # "out"
                               /\ e = ReportedOf(d, full) /\ e.events # {}
      BY DEF Reported
    <3>2. e.conn = d /\ e.events \in {Report(d), Report(d) \ {"out"}}
      BY <3>1 DEF ReportedOf
    <3>3. Registered(d) /\ watch[d] = "read" /\ link[d] \in {"up", "data", "eof"}
      BY <1>2, <3>1 DEF LoneInv, LoneOwned, LoneOwnedBy, LonePlaces, Staged
    <3>4. Report(d) = IF link[d] = "up" THEN {} ELSE {"in"}
      <4>1. CASE link[d] = "up"
        BY <3>3, <4>1 DEF Report
      <4>2. CASE link[d] \in {"data", "eof"}
        BY <3>3, <4>2 DEF Report
      <4> QED  BY <3>3, <4>1, <4>2
    <3> QED  BY <3>1, <3>2, <3>3, <3>4 DEF Readable
  <2>2. Connecting.conn = None
    BY DEF Connecting
  <2>3. \A e \in active'[Main] : e.conn # None => Readable(e.conn) /\ e.events = {"in"}
    BY <1>1, <1>2, <1>6, <2>1, <2>2
  <2>4. \A e \in active'[Main] : e.conn # None => Readable(e.conn)' /\ e.events = {"in"}
    BY <1>4, <2>3 DEF Readable
  <2>5. calls' = calls
    BY <1>1
  <2> QED  BY <1>2, <1>7, <2>4, <2>5 DEF LoneInv, LoneReporting
<1> QED  BY <1>4, <1>5, <1>8, <1>9 DEF LoneInv

\* The next report: its connection's read handler is to be called.
LEMMA LoneDispatch ==
    ASSUME LoneInv, Types', NEW l \in Loops, Dispatch(l)
    PROVE  LoneInv'
<1>1. PICK e \in active[l] :
          /\ e.conn # None
          /\ active' = [active EXCEPT ![l] = @ \ {e}]
          /\ LET c == pool[l][fd[e.conn]]
             IN  IF c # None /\ Alive(c)
                 THEN /\ calls' = [calls EXCEPT ![l] = HandlerCalls(e.events)]
                      /\ handling' = [handling EXCEPT ![l] = c]
                      /\ UNCHANGED <<pool, watch>>
                 ELSE /\ pool' = [pool EXCEPT ![l][fd[e.conn]] = None]
                      /\ watch' = EpollDel(l, fd[e.conn])
                      /\ UNCHANGED <<calls, handling>>
  BY DEF Dispatch
<1>2. /\ pc[l] = "handle" /\ ~InHandlers(l)
      /\ UNCHANGED <<connVars, st, link, accepting, connections, queueVars, pc>>
  BY DEF Dispatch
<1>3. l = Main /\ accepting = "no" /\ calls[Main] = <<>>
  BY <1>1, <1>2 DEF LoneInv, LoneReporting, InHandlers
<1>4. Readable(e.conn) /\ e.events = {"in"} /\ pool[Main][fd[e.conn]] = e.conn /\ Alive(e.conn)
  <2>1. Readable(e.conn) /\ e.events = {"in"} /\ e.conn \in Created
    BY <1>1, <1>3 DEF LoneInv, LoneReporting, Readable
  <2>2. loop[e.conn] = Main /\ Alive(e.conn)
    BY <2>1, LoneLives DEF LoneInv, LonePlaces, Readable
  <2> QED  BY <2>1, <2>2 DEF Readable, Registered
<1>5. /\ calls' = [calls EXCEPT ![Main] = <<"read">>]
      /\ handling' = [handling EXCEPT ![Main] = e.conn]
      /\ UNCHANGED <<pool, watch>>
  <2>1. HandlerCalls({"in"}) = <<"read">>
    BY DEF HandlerCalls
  <2> QED  BY <1>1, <1>3, <1>4, <2>1
<1>6. /\ active' = [active EXCEPT ![Main] = @ \ {e}]
      /\ active \in [Loops -> SUBSET [conn : Conns \cup {None}, events : SUBSET Events]]
      /\ calls \in [Loops -> Seq(Handlers)] /\ handling \in [Loops -> Conns \cup {None}]
      /\ Main \in Loops
  BY <1>1, <1>3, Tables DEF LoneInv
<1>7. functions' = functions /\ batch' = batch
  BY <1>2 DEF queueVars
<1>8. /\ LonePlaces' /\ Created' = Created /\ created' = created
      /\ \A c \in Created : (Registered(c)' <=> Registered(c)) /\ Name(c)' = Name(c)
      /\ \A c \in Created : Alive(c)' <=> Alive(c)
      /\ \A c : Readable(c)' <=> Readable(c)
  <2>1. \A c \in Created : Readable(c)' <=> Readable(c)
    BY <1>2, <1>5, <1>7, LoneFrame DEF Readable
  <2> QED  BY <1>2, <1>5, <1>7, <2>1, LoneFrame, NamesStay, LoneAlive DEF LoneInv, Readable
<1>9. LoneOwned' /\ Distinct'
  <2>1. \A c \in Created : LoneOwnedBy(c)'
    BY <1>2, <1>5, <1>8 DEF LoneInv, LoneOwned, LoneOwnedBy, Fresh, Staged, Gone
  <2>2. fd' = fd
    BY <1>2, NamesStay
  <2> QED  BY <1>8, <2>1, <2>2 DEF LoneOwned, LoneInv, Distinct
<1>10. Phases'
  <2>1. \A k \in Loops \ {Main} : active'[k] = active[k] /\ calls'[k] = calls[k]
    BY <1>5, <1>6
  <2> QED  BY <1>2, <1>3, <2>1 DEF LoneInv, Phases, queueVars
<1>11. LoneReporting'
  <2>1. \A k \in Loops \ {Main} : active'[k] = {} /\ calls'[k] = <<>>
    BY <1>5, <1>6 DEF LoneInv, LoneReporting
  <2>2. calls'[Main] = <<"read">> /\ handling'[Main] = e.conn /\ accepting' = "no"
    BY <1>2, <1>3, <1>5, <1>6
  <2>3. \A x \in active'[Main] : x.conn # None =>
            Readable(x.conn)' /\ x.events = {"in"} /\ x.conn # e.conn
    <3> SUFFICES ASSUME NEW x \in active'[Main], x.conn # None
                 PROVE Readable(x.conn) /\ x.events = {"in"} /\ x.conn # e.conn
      BY <1>8
    <3>1. x \in active[Main] /\ x # e /\ e \in active[Main]
      BY <1>1, <1>3, <1>6
    <3>2. Readable(x.conn) /\ x.events = {"in"}
      BY <3>1 DEF LoneInv, LoneReporting
    <3>3. x = [conn |-> x.conn, events |-> x.events] /\ e = [conn |-> e.conn, events |-> e.events]
      BY <1>6, <3>1
    <3> QED  BY <1>4, <3>1, <3>2, <3>3
  <2>4. Readable(e.conn)'
    BY <1>4, <1>8
  <2>5. calls'[Main] # <<>> =>
            accepting' = "no" /\ calls'[Main] = <<"read">> /\ Readable(handling[Main])'
    BY <2>2, <2>4 DEF Readable, Registered
  <2> QED  BY <2>1, <2>2, <2>3, <2>5 DEF LoneReporting
<1> QED  BY <1>8, <1>9, <1>10, <1>11 DEF LoneInv

\* What the loop calls is the read handler of a connection with something to read.
LEMMA LoneCall ==
    ASSUME LoneInv, NEW l \in Loops, CallHandler(l), NEW c, c = handling[l]
    PROVE  /\ l = Main /\ Readable(c) /\ accepting = "no"
           /\ UNCHANGED <<connVars, accepting, batch, at, active, pc>>
           /\ calls' = [calls EXCEPT ![Main] = <<>>]
           /\ ReadEvent(Main, c)
<1>1. l = Main
  BY DEF CallHandler, LoneInv, LoneReporting
<1>2. Readable(c) /\ accepting = "no" /\ calls[Main] = <<"read">>
  BY <1>1 DEF CallHandler, LoneInv, LoneReporting
<1>3. EventFuncsSet(c) /\ Head(calls[Main]) = "read" /\ Tail(calls[Main]) = <<>>
  BY <1>2 DEF EventFuncsSet
<1>4. /\ calls' = [calls EXCEPT ![l] = Tail(@)]
      /\ UNCHANGED <<connVars, accepting, batch, at, active, pc>>
      /\ IF ~EventFuncsSet(c)
         THEN UNCHANGED <<st, functions, connections, pool, watch, link, up>>
         ELSE IF Head(calls[l]) = "read"
         THEN ReadEvent(l, c)
         ELSE IF Head(calls[l]) = "write"
         THEN WriteEvent(c)
         ELSE CloseEvent(l, c) /\ UNCHANGED <<link, up>>
  BY DEF CallHandler
<1>5. ReadEvent(Main, c)
  BY <1>1, <1>3, <1>4
<1>6. calls' = [calls EXCEPT ![Main] = <<>>]
  BY <1>1, <1>3, <1>4
<1> QED  BY <1>1, <1>2, <1>4, <1>5, <1>6

\* It reads data: the message callback may shut the sending side, and nobody is removed.
LEMMA LoneReads ==
    ASSUME LoneInv, Types', Lone, NEW c, Readable(c), link[c] = "data", accepting = "no",
           UNCHANGED <<connVars, accepting, batch, at, active, pc>>,
           calls' = [calls EXCEPT ![Main] = <<>>], handling[Main] = c, calls[Main] # <<>>,
           ReadEvent(Main, c)
    PROVE  LoneInv'
<1>1. c \in Created /\ Registered(c) /\ watch \in [Created -> Masks] /\ link \in [Created -> Links]
  BY Tables DEF Readable, LoneInv
<1>2. /\ link' = [link EXCEPT ![c] = "up"] /\ AfterCallback(c, st[c], watch[c])
      /\ UNCHANGED <<functions, connections, pool>>
  BY <1>1 DEF ReadEvent
<1>3. watch' = watch
  BY <1>1, <1>2 DEF AfterCallback, SetMask, Lone
<1>4. /\ LonePlaces' /\ Created' = Created /\ created' = created /\ fd' = fd
      /\ \A d \in Created : (Registered(d)' <=> Registered(d)) /\ Name(d)' = Name(d)
      /\ \A d \in Created : Alive(d)' <=> Alive(d)
  <2>1. \A d \in Created : link'[d] \in {link[d], "up", "data", "eof"}
    BY <1>1, <1>2
  <2> QED  BY <1>2, <2>1, LoneFrame, NamesStay, LoneAlive DEF LoneInv
<1>5. LoneOwned'
  <2>1. \A d \in Created : Gone(d) <=> Gone(d)'
    BY <1>1, <1>2 DEF Gone
  <2>2. \A d \in Created : LoneOwnedBy(d)'
    BY <1>2, <1>3, <1>4, <2>1 DEF LoneInv, LoneOwned, LoneOwnedBy, Fresh, Staged
  <2> QED  BY <1>4, <2>2 DEF LoneOwned
<1>6. Distinct'
  BY <1>4 DEF LoneInv, Distinct
<1>7. /\ calls \in [Loops -> Seq(Handlers)] /\ Main \in Loops
      /\ calls'[Main] = <<>> /\ \A k \in Loops \ {Main} : calls'[k] = calls[k]
  <2>1. calls \in [Loops -> Seq(Handlers)] /\ Main \in Loops
    BY Tables, ServerAssumption DEF LoneInv, Main, Loops
  <2> QED  BY <2>1
<1>8. Phases'
  BY <1>7 DEF LoneInv, Phases
<1>9. LoneReporting'
  <2>1. \A e \in active[Main] : e.conn # None => Readable(e.conn) /\ e.conn # c /\ e.events = {"in"}
    BY DEF LoneInv, LoneReporting
  <2>2. \A d \in Created : d # c /\ Readable(d) => Readable(d)'
    BY <1>1, <1>2, <1>4 DEF Readable
  <2>3. \A e \in active'[Main] : e.conn # None => Readable(e.conn)' /\ e.events = {"in"}
    BY <2>1, <2>2 DEF Readable
  <2>4. \A k \in Loops \ {Main} : active'[k] = {} /\ calls'[k] = <<>>
    BY <1>7 DEF LoneInv, LoneReporting
  <2> QED  BY <1>7, <2>3, <2>4 DEF LoneReporting
<1> QED  BY <1>4, <1>5, <1>6, <1>8, <1>9 DEF LoneInv

\* It finds the end of the input: closeEvent, removeConnectInLoop and removedHandle run before
\* it returns.
LEMMA LoneCloses ==
    ASSUME LoneInv, NEW c, Readable(c), link[c] = "eof", accepting = "no", ReadEvent(Main, c)
    PROVE  /\ UNCHANGED <<functions, link, up>>
           /\ connections' = [connections EXCEPT ![Name(c)] = None]
           /\ pool' = [pool EXCEPT ![Main][fd[c]] = None]
           /\ watch' = EpollDel(Main, fd[c])
<1>1. c \in Created /\ Registered(c) /\ loop[c] = Main
  BY DEF Readable, LoneInv, LonePlaces
<1>2. CloseCallbackSet(c)
  BY DEF CloseCallbackSet
<1>3. pool[Main][fd[c]] # None
  <2>1. c # None
    BY <1>1, CreatedType DEF LoneInv, Types, Conns, None
  <2> QED  BY <1>1, <2>1 DEF Registered
<1>4. CloseEvent(Main, c) /\ UNCHANGED <<link, up>>
  BY DEF ReadEvent
<1>5. EraseName(c) /\ DeleteEvent(Main, fd[c]) /\ UNCHANGED functions
  BY <1>2, <1>4 DEF CloseEvent
<1> QED  BY <1>3, <1>4, <1>5 DEF EraseName, DeleteEvent

\* After it, the connection is in no registry, and the others are where they were.
LEMMA LoneRemoves ==
    ASSUME LoneInv, Types', NEW c, Readable(c), link[c] = "eof", accepting = "no",
           UNCHANGED <<connVars, accepting, batch, at, active, pc>>,
           calls' = [calls EXCEPT ![Main] = <<>>], handling[Main] = c, calls[Main] # <<>>,
           ReadEvent(Main, c)
    PROVE  LoneInv'
<1>1. /\ Readable(c) /\ accepting = "no" /\ calls[Main] = <<"read">>
      /\ UNCHANGED <<connVars, accepting, functions, batch, at, active, pc, link, up>>
      /\ calls' = [calls EXCEPT ![Main] = <<>>]
      /\ connections' = [connections EXCEPT ![Name(c)] = None]
      /\ pool' = [pool EXCEPT ![Main][fd[c]] = None]
      /\ watch' = EpollDel(Main, fd[c])
  BY LoneCloses DEF LoneInv, LoneReporting
<1>2. /\ c \in Created /\ Registered(c) /\ connections[Name(c)] = c /\ Alive(c) /\ loop[c] = Main
      /\ c # None /\ pool[Main][fd[c]] = c /\ Name(c) \in Names /\ fd[c] \in Fds /\ Main \in Loops
  <2>1. c \in Created /\ Registered(c)
    BY <1>1 DEF Readable
  <2>2. connections[Name(c)] = c /\ Alive(c) /\ loop[c] = Main
    BY <1>1, <2>1, LoneLives DEF LoneInv, LoneOwned, LoneOwnedBy, LonePlaces
  <2>3. Name(c) \in Names /\ fd[c] \in Fds /\ loop[c] \in Loops /\ c \in Conns
    BY <2>1, CreatedType DEF LoneInv, Types
  <2> QED  BY <2>1, <2>2, <2>3 DEF Registered, Conns, None
<1>3. /\ Created' = Created /\ created' = created /\ loop' = loop /\ fd' = fd
      /\ \A d : Name(d)' = Name(d)
  BY <1>1, NamesStay
<1>4. connections \in [Names -> Conns \cup {None}]
      /\ pool \in [Loops -> [Fds -> Conns \cup {None}]]
      /\ active \in [Loops -> SUBSET [conn : Conns \cup {None}, events : SUBSET Events]]
      /\ calls \in [Loops -> Seq(Handlers)]
  BY Tables DEF LoneInv
<1>5. /\ \A n \in Names : connections'[n] = IF n = Name(c) THEN None ELSE connections[n]
      /\ \A k \in Loops, f \in Fds : pool'[k][f] = IF k = Main /\ f = fd[c] THEN None ELSE pool[k][f]
      /\ calls'[Main] = <<>> /\ \A k \in Loops \ {Main} : calls'[k] = calls[k]
  BY <1>1, <1>2, <1>4
<1>6. \A d \in Created : Registered(d)' <=> Registered(d) /\ d # c
  <2> SUFFICES ASSUME NEW d \in Created PROVE Registered(d)' <=> Registered(d) /\ d # c
    OBVIOUS
  <2>1. loop[d] = Main /\ fd[d] \in Fds /\ d # None
    BY CreatedType DEF LoneInv, Types, LonePlaces, Created, None
  <2> QED  BY <1>2, <1>3, <1>5, <2>1 DEF Registered
<1>7. LonePlaces'
  <2>1. (\A k \in Loops : functions[k] = <<>> /\ batch[k] = <<>>)'
        /\ (\A d \in Created : loop[d] = Main /\ link[d] \in {"up", "data", "eof"})'
    BY <1>1, <1>3 DEF LoneInv, LonePlaces
  <2>2. (\A n \in Names : connections[n] # None =>
            connections[n] \in Created /\ Name(connections[n]) = n)'
    BY <1>3, <1>5 DEF LoneInv, LonePlaces
  <2>3. (\A k \in Loops, f \in Fds : pool[k][f] # None =>
            k = Main /\ pool[k][f] \in Created /\ fd[pool[k][f]] = f)'
    BY <1>3, <1>5 DEF LoneInv, LonePlaces
  <2> QED  BY <2>1, <2>2, <2>3 DEF LonePlaces
<1>8. \A d \in Created : Alive(d)' <=> Alive(d) /\ d # c
  <2> SUFFICES ASSUME NEW d \in Created PROVE Alive(d)' <=> Alive(d) /\ d # c
    OBVIOUS
  <2>1. Alive(d)' <=> connections'[Name(d)] = d
    BY <1>1, <1>3, <1>7, LoneAliveNext
  <2>2. Alive(d) <=> connections[Name(d)] = d
    BY <1>1, LoneAlive DEF LoneInv
  <2>3. Name(d) \in Names /\ d # None
    BY CreatedType DEF LoneInv, Types, Created, None
  <2> QED  BY <1>2, <1>5, <2>1, <2>2, <2>3
<1>9. \A d \in Created \ {c} : watch'[d] = watch[d]
  <2> SUFFICES ASSUME NEW d \in Created, d # c PROVE watch'[d] = watch[d]
    OBVIOUS
  <2>1. ~(fd[d] = fd[c] /\ Alive(d))
    BY <1>2 DEF LoneInv, Distinct
  <2> QED  BY <1>1, <2>1 DEF EpollDel
<1>10. LoneOwned'
  <2>1. \A d \in Created : LoneOwnedBy(d)'
    <3> SUFFICES ASSUME NEW d \in Created PROVE LoneOwnedBy(d)'
      OBVIOUS
    <3>1. Name(d) \in Names /\ d # None
      BY CreatedType DEF LoneInv, Types, Created, None
    <3>2. connections'[Name(d)] = d <=> connections[Name(d)] = d /\ d # c
      BY <1>2, <1>5, <3>1
    <3>3. accepting' = "no" /\ ~Fresh(d)' /\ Staged(d)' /\ Staged(d)
      BY <1>1 DEF Fresh, Staged
    <3>4. CASE d = c
      BY <1>1, <1>3, <1>6, <1>8, <3>2, <3>3, <3>4 DEF LoneOwnedBy, Readable, Gone
    <3>5. CASE d # c
      <4>1. ~Fresh(d) /\ (Gone(d)' <=> Gone(d)) /\ watch'[d] = watch[d]
        BY <1>1, <1>9, <3>5 DEF Fresh, Gone
      <4> QED  BY <1>1, <1>3, <1>6, <1>8, <3>2, <3>3, <3>5, <4>1 DEF LoneInv, LoneOwned, LoneOwnedBy
    <3> QED  BY <3>4, <3>5
  <2> QED  BY <1>3, <2>1 DEF LoneOwned
<1>11. Distinct'
  BY <1>3, <1>8 DEF LoneInv, Distinct
<1>12. Phases'
  BY <1>1, <1>5 DEF LoneInv, Phases
<1>13. LoneReporting'
  <2>1. \A e \in active[Main] : e.conn # None => Readable(e.conn) /\ e.conn # c /\ e.events = {"in"}
    BY <1>1 DEF LoneInv, LoneReporting
  <2>2. \A d \in Created : d # c /\ Readable(d) => Readable(d)'
    BY <1>1, <1>3, <1>6 DEF Readable
  <2>3. \A e \in active'[Main] : e.conn # None => Readable(e.conn)' /\ e.events = {"in"}
    BY <1>1, <2>1, <2>2 DEF Readable
  <2>4. \A k \in Loops \ {Main} : active'[k] = {} /\ calls'[k] = <<>>
    BY <1>1, <1>5 DEF LoneInv, LoneReporting
  <2> QED  BY <1>5, <2>3, <2>4 DEF LoneReporting
<1> QED  BY <1>7, <1>10, <1>11, <1>12, <1>13 DEF LoneInv

\* The loop calls a handler.
LEMMA LoneHandler ==
    ASSUME LoneInv, Types', Lone, NEW l \in Loops, CallHandler(l)
    PROVE  LoneInv'
<1> PICK c : c = handling[l]
  OBVIOUS
<1>1. /\ l = Main /\ Readable(c) /\ accepting = "no"
      /\ UNCHANGED <<connVars, accepting, batch, at, active, pc>>
      /\ calls' = [calls EXCEPT ![Main] = <<>>]
      /\ ReadEvent(Main, c)
  BY LoneCall
<1>2. handling[Main] = c /\ calls[Main] # <<>> /\ link[c] \in {"data", "eof"}
  BY <1>1 DEF CallHandler, Readable
<1> QED  BY <1>1, <1>2, LoneReads, LoneRemoves

\* connectedHandle runs at once on the main loop: the connection is read from here on.
LEMMA LoneHandOff ==
    ASSUME LoneInv, Types', Lone, HandOff
    PROVE  LoneInv'
<1>1. /\ accepting = "registered" /\ accepting' = "handedOff"
      /\ UNCHANGED <<connVars, link, connections, pool, batch, at, handVars, pc, up>>
      /\ IF loop[created] = Main
         THEN Connected(created) /\ UNCHANGED functions
         ELSE QueueFor(loop[created], Functor("connected", created)) /\ UNCHANGED <<st, watch>>
  BY DEF HandOff
<1> PICK c \in Created : c = created
  BY <1>1, Newest DEF LoneInv
<1>2. connections[Name(c)] = c /\ Registered(c) /\ loop[c] = Main
  BY <1>1 DEF LoneInv, LoneOwned, LoneOwnedBy, LonePlaces
<1>3. functions' = functions /\ watch' = [watch EXCEPT ![c] = "read"]
  BY <1>1, <1>2 DEF Connected, AfterCallback, SetMask, Lone
<1>4. /\ LonePlaces' /\ Created' = Created /\ created' = c
      /\ \A d \in Created : (Registered(d)' <=> Registered(d)) /\ Name(d)' = Name(d)
      /\ \A d \in Created : Alive(d)' <=> Alive(d)
  <2>1. /\ LonePlaces' /\ Created' = Created
        /\ \A d \in Created : (Registered(d)' <=> Registered(d)) /\ Name(d)' = Name(d)
        /\ \A d \in Created : Alive(d)' <=> connections[Name(d)] = d \/ (d = created /\ accepting' # "no")
    BY <1>1, <1>3, LoneFrame DEF LoneInv
  <2> QED  BY <1>1, <2>1, LoneAlive, NamesStay DEF LoneInv
<1>5. \A d \in Created : /\ Fresh(d)' <=> Fresh(d)
                         /\ watch'[d] = IF d = c THEN "read" ELSE watch[d]
                         /\ (d # c => (Staged(d)' <=> Staged(d)))
  <2>1. watch \in [Created -> Masks]
    BY Tables DEF LoneInv
  <2> QED  BY <1>1, <1>3, <1>4, <2>1 DEF Fresh, Staged
<1>6. LoneOwned' /\ Distinct'
  <2>1. \A d \in Created : LoneOwnedBy(d)'
    <3> SUFFICES ASSUME NEW d \in Created PROVE LoneOwnedBy(d)'
      OBVIOUS
    <3>1. CASE d = c
      BY <1>1, <1>2, <1>4, <1>5, <3>1 DEF LoneInv, LoneOwned, LoneOwnedBy, Fresh
    <3>2. CASE d # c
      BY <1>1, <1>4, <1>5, <3>2 DEF LoneInv, LoneOwned, LoneOwnedBy, Gone
    <3> QED  BY <3>1, <3>2
  <2>2. fd' = fd
    BY <1>1, NamesStay
  <2> QED  BY <1>4, <2>1, <2>2 DEF LoneOwned, LoneInv, Distinct
<1>7. Phases'
  BY <1>1, <1>3 DEF LoneInv, Phases, handVars
<1>8. LoneReporting'
  <2>1. calls[Main] = <<>>
    BY <1>1 DEF LoneInv, LoneReporting
  <2> QED  BY <1>1, <2>1, LoneReportingKept DEF LoneInv, LoneReporting, handVars
<1> QED  BY <1>4, <1>6, <1>7, <1>8 DEF LoneInv

\* newConnected enters the connection in connections_: its name is free.
LEMMA LoneAdd ==
    ASSUME LoneInv, Types', AddConnect
    PROVE  LoneInv'
<1>1. /\ accepting = "bound" /\ accepting' = "registered"
      /\ connections' = [connections EXCEPT ![Name(created)] = IF @ = None THEN created ELSE @]
      /\ UNCHANGED <<connVars, st, link, watch, pool, queueVars, handVars, pc, up>>
  BY DEF AddConnect
<1> PICK c \in Created : c = created
  BY <1>1, Newest DEF LoneInv
<1>2. /\ Fresh(c) /\ Alive(c) /\ Registered(c) /\ c # None /\ Name(c) \in Names
      /\ connections[Name(c)] # c /\ \A d \in Created : d # c => ~Fresh(d)
  BY <1>1, Newest, CreatedType DEF LoneInv, LoneOwned, LoneOwnedBy, Fresh, Alive, Types
<1>3. connections[Name(c)] = None
  <2> SUFFICES ASSUME connections[Name(c)] # None PROVE FALSE
    OBVIOUS
  <2> PICK d : d = connections[Name(c)]
    OBVIOUS
  <2>1. d \in Created /\ Name(d) = Name(c) /\ d # c
    BY <1>2 DEF LoneInv, LonePlaces
  <2>2. Alive(d)
    BY <2>1, LoneAlive DEF LoneInv
  <2> QED  BY <1>2, <2>1, <2>2 DEF LoneInv, Distinct
<1>4. \A n \in Names : connections'[n] = IF n = Name(c) THEN c ELSE connections[n]
  BY <1>1, <1>2, <1>3, Tables DEF LoneInv
<1>5. /\ Created' = Created /\ created' = c /\ loop' = loop /\ fd' = fd
      /\ \A d : Name(d)' = Name(d)
      /\ pool' = pool /\ link' = link /\ watch' = watch
  BY <1>1, NamesStay
<1>6. /\ \A d \in Created : Registered(d)' <=> Registered(d)
      /\ \A d \in Created : Name(d) \in Names
  BY <1>5, CreatedType DEF LoneInv, Types, Registered
<1>7. LonePlaces'
  <2>1. (\A k \in Loops : functions[k] = <<>> /\ batch[k] = <<>>)'
        /\ (\A d \in Created : loop[d] = Main /\ link[d] \in {"up", "data", "eof"})'
    BY <1>1, <1>5 DEF LoneInv, LonePlaces, queueVars
  <2>2. (\A n \in Names : connections[n] # None =>
            connections[n] \in Created /\ Name(connections[n]) = n)'
    BY <1>4, <1>5 DEF LoneInv, LonePlaces
  <2>3. (\A k \in Loops, f \in Fds : pool[k][f] # None =>
            k = Main /\ pool[k][f] \in Created /\ fd[pool[k][f]] = f)'
    BY <1>5 DEF LoneInv, LonePlaces
  <2> QED  BY <2>1, <2>2, <2>3 DEF LonePlaces
<1>8. \A d \in Created : connections'[Name(d)] = d <=> connections[Name(d)] = d \/ d = c
  <2> SUFFICES ASSUME NEW d \in Created
               PROVE connections'[Name(d)] = d <=> connections[Name(d)] = d \/ d = c
    OBVIOUS
  <2>1. d # None
    BY DEF Created, None
  <2> QED  BY <1>2, <1>3, <1>4, <1>6, <2>1
<1>9. \A d \in Created : Alive(d)' <=> Alive(d)
  BY <1>1, <1>5, <1>7, <1>8, LoneAlive, LoneAliveNext DEF LoneInv
<1>10. LoneOwned'
  <2>1. \A d \in Created : LoneOwnedBy(d)'
    <3> SUFFICES ASSUME NEW d \in Created PROVE LoneOwnedBy(d)'
      OBVIOUS
    <3>1. ~Fresh(d)'
      BY <1>1, <1>5 DEF Fresh
    <3>2. CASE d = c
      <4>1. ~Staged(c)'
        BY <1>1, <1>5 DEF Staged
      <4> QED  BY <1>1, <1>2, <1>5, <1>6, <1>8, <1>9, <3>1, <3>2, <4>1 DEF LoneInv, LoneOwned, LoneOwnedBy
    <3>3. CASE d # c
      <4>1. Staged(d)' /\ Staged(d) /\ ~Fresh(d)
        BY <1>2, <1>5, <3>3 DEF Staged
      <4> QED  BY <1>5, <1>6, <1>8, <1>9, <3>1, <3>3, <4>1 DEF LoneInv, LoneOwned, LoneOwnedBy, Gone
    <3> QED  BY <3>2, <3>3
  <2> QED  BY <1>5, <2>1 DEF LoneOwned
<1>11. Distinct'
  BY <1>5, <1>9 DEF LoneInv, Distinct
<1>12. Phases'
  BY <1>1 DEF LoneInv, Phases, queueVars, handVars
<1>13. LoneReporting'
  <2>1. calls[Main] = <<>>
    BY <1>1 DEF LoneInv, LoneReporting
  <2> QED  BY <1>1, <2>1, LoneReportingKept DEF LoneInv, LoneReporting, handVars
<1> QED  BY <1>7, <1>10, <1>11, <1>12, <1>13 DEF LoneInv

\* addEvent: the descriptor's place in the map is free.
LEMMA LoneInsert ==
    ASSUME LoneInv, Types', Inserted
    PROVE  LoneInv'
<1>1. /\ accepting = "inserting" /\ accepting' = "constructed"
      /\ pool' = [pool EXCEPT ![loop[created]][fd[created]] = IF @ = None THEN created ELSE @]
      /\ watch' = [watch EXCEPT ![created] = "none"]
      /\ UNCHANGED <<connVars, st, link, connections, queueVars, handVars, pc, up>>
  BY DEF Inserted, AddEvent
<1> PICK c \in Created : c = created
  BY <1>1, Newest DEF LoneInv
<1>2. /\ Fresh(c) /\ Alive(c) /\ c # None /\ loop[c] = Main /\ fd[c] \in Fds /\ Main \in Loops
      /\ connections[Name(c)] # c /\ ~Registered(c)
  <2>1. loop[c] = Main /\ Fresh(c) /\ Alive(c) /\ connections[Name(c)] # c /\ ~Registered(c)
    BY <1>1 DEF LoneInv, LonePlaces, LoneOwned, LoneOwnedBy, Fresh, Alive
  <2>2. loop[c] \in Loops /\ fd[c] \in Fds /\ c # None
    BY <1>1, Newest, CreatedType DEF LoneInv, Types
  <2> QED  BY <2>1, <2>2
<1>3. pool[Main][fd[c]] = None
  <2> SUFFICES ASSUME pool[Main][fd[c]] # None PROVE FALSE
    OBVIOUS
  <2> PICK d : d = pool[Main][fd[c]]
    OBVIOUS
  <2>1. d \in Created /\ fd[d] = fd[c] /\ Registered(d)
    BY <1>2 DEF LoneInv, LonePlaces, Registered
  <2>2. d # c /\ Alive(d)
    BY <1>2, <2>1, LoneLives DEF LoneInv
  <2> QED  BY <1>2, <2>1, <2>2 DEF LoneInv, Distinct
<1>4. \A k \in Loops, f \in Fds : pool'[k][f] = IF k = Main /\ f = fd[c] THEN c ELSE pool[k][f]
  BY <1>1, <1>2, <1>3, Tables DEF LoneInv
<1>5. /\ Created' = Created /\ created' = c /\ loop' = loop /\ fd' = fd
      /\ \A d : Name(d)' = Name(d)
      /\ connections' = connections /\ link' = link
  BY <1>1, NamesStay
<1>6. /\ \A d \in Created : Registered(d)' <=> Registered(d) \/ d = c
      /\ \A d \in Created : watch'[d] = IF d = c THEN "none" ELSE watch[d]
  <2>1. \A d \in Created : Registered(d)' <=> Registered(d) \/ d = c
    <3> SUFFICES ASSUME NEW d \in Created PROVE Registered(d)' <=> Registered(d) \/ d = c
      OBVIOUS
    <3>1. loop[d] = Main /\ fd[d] \in Fds /\ d # None
      BY CreatedType DEF LoneInv, Types, LonePlaces, Created, None
    <3> QED  BY <1>2, <1>3, <1>4, <1>5, <3>1 DEF Registered
  <2>2. watch \in [Created -> Masks]
    BY Tables DEF LoneInv
  <2> QED  BY <1>1, <2>1, <2>2
<1>7. LonePlaces'
  <2>1. (\A k \in Loops : functions[k] = <<>> /\ batch[k] = <<>>)'
        /\ (\A d \in Created : loop[d] = Main /\ link[d] \in {"up", "data", "eof"})'
    BY <1>1, <1>5 DEF LoneInv, LonePlaces, queueVars
  <2>2. (\A n \in Names : connections[n] # None =>
            connections[n] \in Created /\ Name(connections[n]) = n)'
    BY <1>5 DEF LoneInv, LonePlaces
  <2>3. (\A k \in Loops, f \in Fds : pool[k][f] # None =>
            k = Main /\ pool[k][f] \in Created /\ fd[pool[k][f]] = f)'
    BY <1>4, <1>5 DEF LoneInv, LonePlaces
  <2> QED  BY <2>1, <2>2, <2>3 DEF LonePlaces
<1>8. \A d \in Created : Alive(d)' <=> Alive(d)
  BY <1>1, <1>5, <1>7, LoneAlive, LoneAliveNext DEF LoneInv
<1>9. LoneOwned'
  <2>1. \A d \in Created : LoneOwnedBy(d)'
    <3> SUFFICES ASSUME NEW d \in Created PROVE LoneOwnedBy(d)'
      OBVIOUS
    <3>1. CASE d = c
      <4>1. ~Staged(c)' /\ Fresh(c)'
        BY <1>1, <1>5 DEF Staged, Fresh
      <4> QED  BY <1>1, <1>2, <1>5, <1>6, <3>1, <4>1 DEF LoneOwnedBy
    <3>2. CASE d # c
      <4>1. Staged(d)' /\ Staged(d) /\ ~Fresh(d) /\ ~Fresh(d)'
        BY <1>5, <3>2 DEF Staged, Fresh
      <4> QED  BY <1>5, <1>6, <1>8, <3>2, <4>1 DEF LoneInv, LoneOwned, LoneOwnedBy, Gone
    <3> QED  BY <3>1, <3>2
  <2> QED  BY <1>5, <2>1 DEF LoneOwned
<1>10. Distinct'
  BY <1>5, <1>8 DEF LoneInv, Distinct
<1>11. Phases'
  BY <1>1 DEF LoneInv, Phases, queueVars, handVars
<1>12. LoneReporting'
  <2>1. calls[Main] = <<>> /\ handVars' = handVars
    BY <1>1 DEF LoneInv, LoneReporting
  <2>2. \A d : Readable(d) => Readable(d)'
    BY <1>5, <1>6 DEF Readable
  <2> QED  BY <2>1, <2>2 DEF LoneInv, LoneReporting, handVars
<1> QED  BY <1>7, <1>9, <1>10, <1>11, <1>12 DEF LoneInv

\* accept: the new connection shares neither descriptor nor name with a living one.
LEMMA LoneAccept ==
    ASSUME LoneInv, Types', Lone, NEW p \in Peers, Accept(p)
    PROVE  LoneInv'
<1> PICK n : n = created + 1
  OBVIOUS
<1>1. /\ created' = n /\ n \notin Created /\ n # None /\ Created' = Created \cup {n}
      /\ \A d \in Created : /\ Name(d)' = Name(d) /\ fd'[d] = fd[d] /\ loop'[d] = loop[d]
                            /\ link'[d] = link[d] /\ watch'[d] = watch[d]
      /\ watch'[n] = "out" /\ link'[n] = "up" /\ loop'[n] = Main
      /\ accepting = "no" /\ accepting' = "inserting"
      /\ \A d \in Created : Alive(d) => fd[d] # fd'[n] /\ Name(d) # Name(n)'
      /\ UNCHANGED <<setup, connections, pool, queueVars, calls, handling, pc, up>>
      /\ \A l \in Loops : active'[l] \subseteq active[l]
  <2>1. \A d \in Created : link[d] \notin {"rst", "rstData", "rstRead"}
    BY DEF LoneInv, LonePlaces
  <2> QED  BY <2>1, AcceptFacts DEF LoneInv, Lone, NextLoop
<1>2. calls[Main] = <<>> /\ pc[Main] = "handle"
  <2>1. calls[Main] = <<>> /\ Connecting \in active[Main] /\ Main \in Loops
    BY ServerAssumption DEF Accept, AcceptHandle, Main, Loops
  <2> QED  BY <2>1 DEF LoneInv, Phases
<1>3. \A d \in Created : ~Fresh(d) /\ ~Fresh(d)' /\ Staged(d) /\ Staged(d)'
  BY <1>1 DEF Fresh, Staged
<1>4. \A d \in Created : Registered(d)' <=> Registered(d)
  BY <1>1 DEF Registered
<1>5. ~Registered(n)' /\ connections[Name(n)'] # n
  <2>1. loop'[n] \in Loops /\ fd'[n] \in Fds /\ Name(n)' \in Names
    BY <1>1, CreatedNext DEF Types
  <2> QED  BY <1>1, <2>1 DEF LoneInv, LonePlaces, Registered
<1>6. LonePlaces'
  <2>1. (\A k \in Loops : functions[k] = <<>> /\ batch[k] = <<>>)'
        /\ (\A d \in Created : loop[d] = Main /\ link[d] \in {"up", "data", "eof"})'
    BY <1>1 DEF LoneInv, LonePlaces, queueVars
  <2>2. (\A m \in Names : connections[m] # None =>
            connections[m] \in Created /\ Name(connections[m]) = m)'
    <3>1. \A m \in Names : connections[m] # None =>
             connections[m] \in Created' /\ ToString(peer'[connections[m]]) = m
      BY <1>1 DEF LoneInv, LonePlaces, Name
    <3> QED  BY <1>1, <3>1 DEF Name
  <2>3. (\A k \in Loops, f \in Fds : pool[k][f] # None =>
            k = Main /\ pool[k][f] \in Created /\ fd[pool[k][f]] = f)'
    <3>1. \A k \in Loops, f \in Fds : pool[k][f] # None =>
            k = Main /\ pool[k][f] \in Created' /\ fd'[pool[k][f]] = f
      BY <1>1 DEF LoneInv, LonePlaces
    <3> QED  BY <1>1, <3>1
  <2> QED  BY <2>1, <2>2, <2>3 DEF LonePlaces
<1>7. \A d \in Created : Alive(d)' <=> Alive(d)
  BY <1>1, <1>6, LoneAlive, LoneAliveNext DEF LoneInv
<1>8. LoneOwned'
  <2>1. \A d \in Created \cup {n} : LoneOwnedBy(d)'
    <3> SUFFICES ASSUME NEW d \in Created \cup {n} PROVE LoneOwnedBy(d)'
      OBVIOUS
    <3>1. CASE d = n
      <4>1. Fresh(n)'
        BY <1>1 DEF Fresh
      <4> QED  BY <1>1, <1>5, <3>1, <4>1 DEF LoneOwnedBy
    <3>2. CASE d \in Created
      BY <1>1, <1>3, <1>4, <1>7, <3>2 DEF LoneInv, LoneOwned, LoneOwnedBy, Gone
    <3> QED  BY <3>1, <3>2
  <2> QED  BY <1>1, <2>1 DEF LoneOwned
<1>9. Distinct'
  <2>1. \A c, d \in Created \cup {n} : Alive(c)' /\ Alive(d)' /\ c # d =>
           fd'[c] # fd'[d] /\ Name(c)' # Name(d)'
    BY <1>1, <1>7 DEF LoneInv, Distinct
  <2> QED  BY <1>1, <2>1 DEF Distinct
<1>10. Phases'
  BY <1>1, <1>2 DEF LoneInv, Phases, queueVars
<1>11. LoneReporting'
  <2>1. (\A k \in Loops \ {Main} : active[k] = {} /\ calls[k] = <<>>)'
    BY <1>1 DEF LoneInv, LoneReporting
  <2>2. \A d : Readable(d) => Readable(d)'
    BY <1>1, <1>4 DEF Readable
  <2>3. active'[Main] \subseteq active[Main]
    BY <1>1, ServerAssumption DEF Main, Loops
  <2> QED  BY <1>1, <1>2, <2>1, <2>2, <2>3 DEF LoneInv, LoneReporting
<1> QED  BY <1>6, <1>8, <1>9, <1>10, <1>11 DEF LoneInv

\* One case for each action; without functors, RunFunctor never runs.
LEMMA LoneNext ==
    ASSUME LoneInv, Lone, [Next]_vars
    PROVE  LoneInv'
<1>1. Types'
  BY NextTypes DEF LoneInv
<1>2. CASE NewConnected
  BY <1>1, <1>2, LoneAccept, LoneQuiet, LoneInsert, LoneAdd, LoneHandOff DEF NewConnected
<1>3. CASE \E l \in Loops : LoopStep(l)
  <2>1. PICK l \in Loops : LoopStep(l)
    BY <1>3
  <2>2. ~RunFunctor(l)
    <3>1. batch[l] = <<>> /\ at[l] \in 1 .. Len(batch[l]) + 1
      BY Tables DEF LoneInv, LonePlaces
    <3>2. ~(at[l] <= Len(batch[l]))
      BY <3>1, RangeEmpty
    <3> QED  BY <3>2 DEF RunFunctor
  <2> QED  BY <1>1, <2>1, <2>2, LonePoll, LoneDispatch, LoneHandler, LoneFunctions DEF LoopStep
<1>4. CASE (\E c \in Conns : PeerSends(c) \/ PeerCloses(c) \/ PeerResets(c)) \/ UNCHANGED vars
  BY <1>1, <1>4, LoneQuiet
<1> QED  BY <1>2, <1>3, <1>4 DEF Next

-------------------------------------------------------------------------------
(***************************************************************************)
(* The invariant, and what follows from it.                                *)
(***************************************************************************)

\* Where the code is right: with io loops if no peer comes back at once from the port it has
\* reset (run server_reuse), without them if no peer resets and no write is cut short (run
\* server_reset).
SafeSetups == \A s \in Setups : IF s.threads = 0 THEN ~s.resets /\ ~s.cuts ELSE ~s.quickReuse

\* The invariant, with io loops or without.
ServerInv == IF setup.threads = 0 THEN Lone /\ LoneInv ELSE Pooled /\ IInv

\* A server that has just been constructed.
LEMMA InitInv ==
    ASSUME SafeSetups
    PROVE  Init => ServerInv
<1> SUFFICES ASSUME Init PROVE ServerInv
  OBVIOUS
<1>1. Types /\ Created = {} /\ created = 0
  <2>1. 1 .. 0 = {}
    OBVIOUS
  <2> QED  BY <2>1, InitTypes DEF Init, Created
<1>2. /\ \A l \in Loops : /\ functions[l] = <<>> /\ batch[l] = <<>> /\ at[l] = 1
                          /\ calls[l] = <<>> /\ active[l] = {}
      /\ \A n \in Names : connections[n] = None
      /\ \A l \in Loops, f \in Fds : pool[l][f] = None
      /\ accepting = "no"
  BY DEF Init
<1>3. \A l \in Loops : Held(l) = {}
  BY <1>2, RangeEmpty DEF Held
<1>4. Places /\ Phases /\ Owned /\ Distinct /\ WatchRight /\ OpenStays
  BY <1>1, <1>2, <1>3 DEF Places, Phases, Owned, OwnedBy, Distinct, WatchRight, OpenStays
<1>5. InOrder /\ Reporting
  BY <1>1, <1>2 DEF InOrder, OrderOf, Reporting, CallsRight
<1>6. LonePlaces /\ LoneOwned /\ LoneReporting
  <2>1. Main \in Loops
    BY ServerAssumption DEF Main, Loops
  <2> QED  BY <1>1, <1>2, <2>1 DEF LonePlaces, LoneOwned, LoneReporting
<1>7. IF setup.threads = 0 THEN Lone ELSE Pooled
  BY <1>1 DEF SafeSetups, Types, TypeOK, Lone, Pooled
<1> QED  BY <1>1, <1>4, <1>5, <1>6, <1>7 DEF IInv, LoneInv, ServerInv

\* One case for each action of a server with io loops.
LEMMA PooledNext ==
    ASSUME IInv, Pooled, [Next]_vars
    PROVE  IInv'
<1>1. Types'
  BY NextTypes DEF IInv
<1>2. CASE NewConnected
  BY <1>1, <1>2, AcceptStep, FailStep, InsertStep, StageStep, AddStep, HandOffStep DEF NewConnected
<1>3. CASE \E l \in Loops : LoopStep(l)
  <2>1. PICK l \in Loops : LoopStep(l)
    BY <1>3
  <2>2. CASE RunFunctor(l)
    <3>1. batch[l][at[l]].op \in {"connected", "remove", "removed"}
      BY <2>2, RunCases DEF IInv
    <3> QED  BY <1>1, <2>2, <3>1, RunConnected, RunRemove, RunRemoved
  <2> QED  BY <1>1, <2>1, <2>2, PollStep, DispatchStep, HandlerStep, FunctionsStep DEF LoopStep
<1>4. CASE \E c \in Conns : PeerSends(c) \/ PeerCloses(c) \/ PeerResets(c)
  BY <1>1, <1>4, PeerStep
<1>5. CASE UNCHANGED vars
  BY <1>1, <1>5, FailStep
<1> QED  BY <1>2, <1>3, <1>4, <1>5 DEF Next

\* The server keeps its loops.
LEMMA SetupStays == [Next]_vars => setup' = setup
<1> SUFFICES ASSUME [Next]_vars PROVE setup' = setup
  OBVIOUS
<1>1. CASE NewConnected
  BY <1>1 DEF NewConnected, Accept, AcceptFails, Inserted, BindHandlers, AddConnect, HandOff,
              NewConnectedReturns, connVars
<1>2. CASE \E l \in Loops : LoopStep(l)
  BY <1>2 DEF LoopStep, Poll, Dispatch, CallHandler, BeginFunctions, RunFunctor, EndFunctions,
              connVars
<1>3. CASE (\E c \in Conns : PeerSends(c) \/ PeerCloses(c) \/ PeerResets(c)) \/ UNCHANGED vars
  BY <1>3 DEF PeerSends, PeerCloses, PeerResets, vars, connVars
<1> QED  BY <1>1, <1>2, <1>3 DEF Next

\* Every step keeps the invariant.
LEMMA NextInv == ServerInv /\ [Next]_vars => ServerInv'
<1> SUFFICES ASSUME ServerInv, [Next]_vars PROVE ServerInv'
  OBVIOUS
<1>1. setup' = setup
  BY SetupStays
<1>2. IF setup.threads = 0 THEN LoneInv' ELSE IInv'
  BY LoneNext, PooledNext DEF ServerInv
<1>3. (Lone' <=> Lone) /\ (Pooled' <=> Pooled)
  BY <1>1 DEF Lone, Pooled
<1> QED  BY <1>1, <1>2, <1>3 DEF ServerInv

\* The invariant holds in every state.
LEMMA InvAlways ==
    ASSUME SafeSetups
    PROVE  Spec => []ServerInv
BY InitInv, NextInv, PTL DEF Spec

\* What a handler runs on is registered, hence alive.
LEMMA HandlersLive == ServerInv => HandlersRunOnLiveConnections
<1> SUFFICES ASSUME ServerInv, NEW l \in Loops, calls[l] # <<>> PROVE Alive(handling[l])
  BY DEF HandlersRunOnLiveConnections
<1>1. CASE IInv
  BY <1>1, RegisteredLives DEF IInv, Reporting, CallsRight
<1>2. CASE LoneInv
  BY <1>2, LoneLives DEF LoneInv, LoneReporting, Readable
<1> QED  BY <1>1, <1>2 DEF ServerInv

\* What is registered is alive and watched.
LEMMA RegistriesAgree == ServerInv => RegistrationsAgree
<1> SUFFICES ASSUME ServerInv PROVE RegistrationsAgree
  OBVIOUS
<1>1. \A c \in Created : Alive(c) /\ Constructed(c) => (Registered(c) <=> watch[c] # "out")
  BY DEF ServerInv, IInv, WatchRight, LoneInv, LoneOwned, LoneOwnedBy
<1>2. \A l \in Loops, f \in Fds : pool[l][f] # None => Alive(pool[l][f])
  <2> SUFFICES ASSUME NEW l \in Loops, NEW f \in Fds, pool[l][f] # None PROVE Alive(pool[l][f])
    OBVIOUS
  <2>1. CASE IInv
    <3>1. pool[l][f] \in Created /\ Registered(pool[l][f])
      BY <2>1 DEF IInv, Places, Registered
    <3> QED  BY <2>1, <3>1, RegisteredLives DEF IInv
  <2>2. CASE LoneInv
    <3>1. pool[l][f] \in Created /\ Registered(pool[l][f])
      BY <2>2 DEF LoneInv, LonePlaces, Registered
    <3> QED  BY <2>2, <3>1, LoneLives DEF LoneInv
  <2> QED  BY <2>1, <2>2 DEF ServerInv
<1> QED  BY <1>1, <1>2 DEF RegistrationsAgree

\* A connection that nobody hung up on is in connections_, registered and watched.
LEMMA OpenServed == ServerInv => OpenConnectionsServed
<1> SUFFICES ASSUME ServerInv, NEW c \in Created, ~Gone(c), HandedOff(c)
             PROVE  connections[Name(c)] = c /\ Registered(c) /\ watch[c] \in {"read", "both"}
  BY DEF OpenConnectionsServed
<1>1. ~Fresh(c) /\ Staged(c)
  BY DEF HandedOff, Fresh, Staged
<1>2. CASE IInv
  BY <1>1, <1>2 DEF IInv, OpenStays, Owned, OwnedBy, WatchRight
<1>3. CASE LoneInv
  BY <1>1, <1>3 DEF LoneInv, LoneOwned, LoneOwnedBy
<1> QED  BY <1>2, <1>3 DEF ServerInv

\* A connection whose deregistration is queued is beyond newConnected.
LEMMA ConnectedFirst == ServerInv => ConnectedBeforeRemoved
<1>1. IInv => ConnectedBeforeRemoved
  BY DEF IInv, Owned, OwnedBy, ConnectedBeforeRemoved
<1>2. LoneInv => ConnectedBeforeRemoved
  <2> SUFFICES ASSUME LoneInv, NEW c \in Created, Constructed(c), ~HandedOff(c)
               PROVE  Registered(c)
    BY DEF ConnectedBeforeRemoved
  <2>1. \A l \in Loops : Coming(l) = {}
    <3> SUFFICES ASSUME NEW l \in Loops PROVE Coming(l) = {}
      OBVIOUS
    <3>1. functions[l] = <<>> /\ batch[l] = <<>> /\ at[l] \in 1 .. Len(batch[l]) + 1
      BY Tables DEF LoneInv, LonePlaces
    <3>2. at[l] = 1 /\ Len(batch[l]) = 0
      BY <3>1, RangeEmpty
    <3>3. at[l] .. Len(batch[l]) = {}
      BY <3>2
    <3> QED  BY <3>1, <3>3, RangeEmpty DEF Coming
  <2>2. ~Staged(c)
    BY <2>1, HandedOffMeans
  <2>3. c = created /\ accepting \in {"constructed", "bound", "registered"}
    BY <2>2, Tables DEF LoneInv, Staged, Constructed, Stages
  <2> QED  BY <2>3 DEF LoneInv, LoneOwned, LoneOwnedBy
<1> QED  BY <1>1, <1>2 DEF ServerInv

\* What epoll reported is registered under its descriptor.
LEMMA EventsArrive == ServerInv => EventsReachTheirConnection
<1>1. IInv => EventsReachTheirConnection
  BY DEF IInv, Reporting, EventRight, Registered, EventsReachTheirConnection
<1>2. LoneInv => EventsReachTheirConnection
  <2> SUFFICES ASSUME LoneInv, NEW l \in Loops, NEW e \in active[l], e.conn # None
               PROVE  pool[l][fd[e.conn]] = e.conn
    BY DEF EventsReachTheirConnection
  <2>1. l = Main /\ Readable(e.conn)
    BY DEF LoneInv, LoneReporting
  <2> QED  BY <2>1 DEF LoneInv, LonePlaces, Readable, Registered
<1> QED  BY <1>1, <1>2 DEF ServerInv

\* Event::handle holds no reference: a handler runs on a connection that connections_ or a
\* queued functor keeps alive (TcpServer.cpp:79-93), however removal and events interleave.
THEOREM HandlersAreSafe ==
    ASSUME SafeSetups
    PROVE  Spec => []HandlersRunOnLiveConnections
BY InvAlways, HandlersLive, PTL

\* The map of descriptors, epoll and the owners of the connections agree: no entry outlives its
\* connection, and epoll watches exactly what is registered (EventCtrl.cpp:17-53).
THEOREM RegistriesAreConsistent ==
    ASSUME SafeSetups
    PROVE  Spec => []RegistrationsAgree
BY InvAlways, RegistriesAgree, PTL

\* A connection whose peer has not hung up is never lost between newConnected's steps, the
\* removal of others and the reuse of descriptors: it is owned, registered and read.
THEOREM OpenConnectionsAreServed ==
    ASSUME SafeSetups
    PROVE  Spec => []OpenConnectionsServed
BY InvAlways, OpenServed, PTL

\* connectedHandle has run before removedHandle does, though the two are queued by different
\* threads' steps (TcpServer.cpp:72 and 92).
THEOREM ConnectedComesFirst ==
    ASSUME SafeSetups
    PROVE  Spec => []ConnectedBeforeRemoved
BY InvAlways, ConnectedFirst, PTL

\* An event that epoll_wait returned is still its connection's when EventCtrl looks the
\* descriptor up: nobody deregistered it, or took over the descriptor, in between.
THEOREM EventsAreDelivered ==
    ASSUME SafeSetups
    PROVE  Spec => []EventsReachTheirConnection
BY InvAlways, EventsArrive, PTL
===============================================================================
