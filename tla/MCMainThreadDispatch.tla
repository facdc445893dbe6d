----------------------- MODULE MCMainThreadDispatch -----------------------
(* A small instance of MainThreadDispatch for TLC.                         *)
EXTENDS MainThreadDispatch
=============================================================================
