---------------------------- MODULE MCSmartClear ----------------------------
(* Small instances of SmartClear: a single descriptor.                     *)
EXTENDS SmartClear, TLC

CONSTANTS t1, k1, w1, w2

JustOne == t1 :> k1
=============================================================================
