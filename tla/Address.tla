------------------------------- MODULE Address -------------------------------
(***************************************************************************)
(* Socket addresses and their text: SocketAddr.cpp and the functions of    *)
(* SocketOperation.cpp behind it.  A sockaddr_in is given by the bytes of  *)
(* s_addr and of sin_port as they lie in memory; the machine is little     *)
(* endian.  A text such as "1.2.3.4:80" is given by the numbers its dots   *)
(* and its colon separate.                                                 *)
(***************************************************************************)
EXTENDS Integers, Sequences

Octets   == 0 .. 255
Ports    == 0 .. 65535
SockAddr == [ip : [1 .. 4 -> Octets], port : [1 .. 2 -> Octets]]

\* The value of bytes in memory as a 16-bit word, and the bytes of a 32-bit word.
Word16(b) == b[1] + 256 * b[2]
Bytes32(w) == <<w % 256, (w \div 256) % 256, (w \div 65536) % 256, (w \div 16777216) % 256>>

\* htons.
NetworkPort(p) == <<p \div 256, p % 256>>

\* The port of a text: the word's two bytes exchanged by shifts.
SwapBytes(w) == ((w * 256) % 65536) + (w \div 256)

\* Mutant of ToString: the port is left out, so connections of one host look the same.
ToString_NoPort(a) == <<a.ip[1], a.ip[2], a.ip[3], a.ip[4], 0>>

ToString(a) == <<a.ip[1], a.ip[2], a.ip[3], a.ip[4], SwapBytes(Word16(a.port))>>

\* SocketAddr(true, port): any address of this host.
AnyIpv4(port) == [ip |-> <<0, 0, 0, 0>>, port |-> NetworkPort(port)]

-------------------------------------------------------------------------------
(* Parsing.  A part of a text is the sequence of the number it starts with,*)
(* or empty if it starts with none.                                        *)

\* stringToInt<uint16_t>: >> takes a minus sign and wraps, and fails beyond 16 bits;
\* the line end appended to the part hides from good() whether the text ended there.
StringToInt(part) ==
    IF part # <<>> /\ -65536 < part[1] /\ part[1] < 65536 THEN <<part[1] % 65536>> ELSE <<>>

\* Four times addr32 <<= 8, |= octet, from whatever addr32 held.
ShiftIn(w, octet) == ((w * 256) % (65536 * 65536)) + octet
Addr32(w, o) == ShiftIn(ShiftIn(ShiftIn(ShiftIn(w, o[1]), o[2]), o[3]), o[4])

ValidIp(parts) ==
    /\ Len(parts) = 4
    /\ \A i \in 1 .. 4 : StringToInt(parts[i]) # <<>> /\ StringToInt(parts[i])[1] \in Octets

\* SocketAddr(addr, port), with `garbage' in addr32: the address, if it is valid.
\* s_addr gets the word as it is, without htonl.
ToAddrIpv4(parts, port, garbage) ==
    IF ValidIp(parts)
    THEN << [ip |-> Bytes32(Addr32(garbage, [i \in 1 .. 4 |-> StringToInt(parts[i])[1]])),
             port |-> NetworkPort(port)] >>
    ELSE <<>>

\* SocketAddr("ip:port").
FromText(parts, portPart, garbage) ==
    IF StringToInt(portPart) # <<>>
    THEN ToAddrIpv4(parts, StringToInt(portPart)[1], garbage)
    ELSE <<>>
===============================================================================
