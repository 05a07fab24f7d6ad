------------------------------ MODULE ByteQueue ------------------------------
(***************************************************************************)
(* What a Buffer promises TcpConnect, without indexes, a vector or a       *)
(* second block of memory: bytes come out in the order they went in, none  *)
(* lost, doubled or made up.                                               *)
(***************************************************************************)
EXTENDS Sequences

CONSTANTS Buffers, Bytes

VARIABLES content,     \* the bytes each buffer holds, oldest first
          moved        \* what the last call moved: [op, at, bytes]

queueVars == <<content, moved>>

Moves == [op : {"none", "put", "take", "swap"}, at : Buffers, bytes : Seq(Bytes)]

Init == /\ content = [b \in Buffers |-> <<>>]
        /\ moved \in Moves /\ moved.op = "none"

Put(b) == /\ moved'.op = "put" /\ moved'.at = b
          /\ content' = [content EXCEPT ![b] = @ \o moved'.bytes]

Take(b) == /\ moved'.op = "take" /\ moved'.at = b
           /\ content[b] = moved'.bytes \o content'[b]
           /\ content' = [content EXCEPT ![b] = content'[b]]

Swap(a, b) == /\ moved'.op = "swap"
              /\ content' = [content EXCEPT ![a] = content[b], ![b] = content[a]]

Next == /\ moved' \in Moves
        /\ \/ \E b \in Buffers : Put(b) \/ Take(b)
           \/ \E a, b \in Buffers : Swap(a, b)

Spec == Init /\ [][Next]_queueVars
===============================================================================
