-------------------------------- MODULE Pipe --------------------------------
(***************************************************************************)
(* What a TcpConnect promises whoever calls write, without a buffer, write *)
(* interest or a system call: each peer gets the bytes in the order they   *)
(* were written, none doubled and none missing in between.  When the       *)
(* connection is cut an end of what is on its way may be lost, and nothing *)
(* written later arrives.                                                  *)
(***************************************************************************)
EXTENDS Sequences, Integers

CONSTANTS Conns

VARIABLES transit,     \* the bytes on their way to each peer, oldest first
          got,         \* the bytes each peer has read
          open         \* may more be written

pipeVars == <<transit, got, open>>

Init == /\ transit = [c \in Conns |-> <<>>]
        /\ got = [c \in Conns |-> <<>>]
        /\ open = [c \in Conns |-> TRUE]

Send(c) == /\ open[c]
           /\ Len(transit[c]) <= Len(transit'[c])
           /\ SubSeq(transit'[c], 1, Len(transit[c])) = transit[c]
           /\ transit' = [transit EXCEPT ![c] = transit'[c]]
           /\ UNCHANGED <<got, open>>

Deliver(c) == /\ \E n \in 1 .. Len(transit[c]) :
                    /\ got' = [got EXCEPT ![c] = @ \o SubSeq(transit[c], 1, n)]
                    /\ transit' = [transit EXCEPT ![c] = SubSeq(@, n + 1, Len(@))]
              /\ UNCHANGED open

Cut(c) == /\ open' = [open EXCEPT ![c] = FALSE]
          /\ \E n \in 0 .. Len(transit[c]) :
                transit' = [transit EXCEPT ![c] = SubSeq(@, 1, n)]
          /\ UNCHANGED got

Next == \E c \in Conns : Send(c) \/ Deliver(c) \/ Cut(c)

Spec == Init /\ [][Next]_pipeVars
===============================================================================
