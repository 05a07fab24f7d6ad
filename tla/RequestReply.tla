----------------------------- MODULE RequestReply -----------------------------
(***************************************************************************)
(* What a program on a TcpServer promises a client that waits for each     *)
(* answer: every request gets its answer, whole, once and in order, and    *)
(* nothing else ever comes back.                                           *)
(***************************************************************************)
EXTENDS Sequences, Naturals

CONSTANTS Clients

VARIABLES promised,      \* the answers to the first n requests, for each n; never changes
          asked,         \* the number of requests of each client
          received       \* the bytes each client has read

rrVars == <<promised, asked, received>>

Init == /\ asked = [c \in Clients |-> 0]
        /\ received = [c \in Clients |-> <<>>]

Ask(c) == /\ received[c] = promised[asked[c]]
          /\ asked' = [asked EXCEPT ![c] = @ + 1]
          /\ UNCHANGED <<promised, received>>

Receive(c) ==
    /\ \E n \in Len(received[c]) + 1 .. Len(promised[asked[c]]) :
          received' = [received EXCEPT ![c] = SubSeq(promised[asked[c]], 1, n)]
    /\ UNCHANGED <<promised, asked>>

Next == \E c \in Clients : Ask(c) \/ Receive(c)

Spec == Init /\ [][Next]_rrVars
===============================================================================
