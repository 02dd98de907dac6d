---------------------------- MODULE MCEventLoop -----------------------------
(***************************************************************************)
(* An instance of EventLoop for TLC.                                       *)
(***************************************************************************)
EXTENDS EventLoop
=============================================================================
