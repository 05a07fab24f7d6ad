----------------------------- MODULE MCTcpServer -----------------------------
(***************************************************************************)
(* The instances of TcpServer that TLC checks: two clients on one host,    *)
(* and setups with one loop, with an io loop and with two.                 *)
(***************************************************************************)
EXTENDS TcpServer

MCPeers == {[ip |-> <<10, 0, 0, 1>>, port |-> NetworkPort(p)] : p \in {80, 20480}}

Base == [threads |-> 1, conns |-> 2, fds |-> 2, resets |-> FALSE, quickReuse |-> FALSE,
         sends |-> FALSE, shuts |-> FALSE, cuts |-> FALSE]

OneLoop    == [Base EXCEPT !.threads = 0, !.conns = 3, !.sends = TRUE, !.shuts = TRUE]
TwoLoops   == [Base EXCEPT !.threads = 2, !.shuts = TRUE]
ThreeConns == [Base EXCEPT !.conns = 3]
FewFds     == [Base EXCEPT !.conns = 3, !.fds = 1]
Resetting  == [Base EXCEPT !.resets = TRUE]
Writing    == [Base EXCEPT !.sends = TRUE, !.shuts = TRUE, !.cuts = TRUE]
ResetAlone == [Base EXCEPT !.threads = 0, !.resets = TRUE]
CutAlone   == [Base EXCEPT !.threads = 0, !.cuts = TRUE]
Both       == [Writing EXCEPT !.conns = 1, !.resets = TRUE]
ReusePort  == [Base EXCEPT !.resets = TRUE, !.quickReuse = TRUE]

MCSetups     == {OneLoop, TwoLoops, ThreeConns, FewFds, Resetting, Writing, Both}
MCAloneSetup == {ResetAlone, CutAlone}
MCReuseSetup == {ReusePort}
===============================================================================
