----------------------------- MODULE MCEventLoop -----------------------------
(* The instance of EventLoop that TLC checks.                              *)
EXTENDS EventLoop
===============================================================================
