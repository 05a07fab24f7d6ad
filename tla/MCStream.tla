------------------------------- MODULE MCStream -------------------------------
(* Two connections, writes of up to three bytes, sockets that hold one.    *)
EXTENDS Stream
===============================================================================
