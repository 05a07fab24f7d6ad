------------------------------ MODULE MCStartup ------------------------------
(* Up to three threads, two calls of start.                                *)
EXTENDS Startup
===============================================================================
