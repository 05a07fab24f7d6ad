------------------------------ MODULE MCService ------------------------------
(* Two clients that interchange, requests and answers of two bytes.         *)
EXTENDS Service, TLC
===============================================================================
