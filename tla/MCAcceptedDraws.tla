---------------------------- MODULE MCAcceptedDraws --------------------------
(* A small instance of AcceptedDraws for TLC.                              *)
EXTENDS AcceptedDraws

CONSTANTS r1, r2, c1, c2
=============================================================================
