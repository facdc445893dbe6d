--------------------------- MODULE MCShaderClaims ---------------------------
(* Small instances of ShaderClaims.                                        *)
EXTENDS ShaderClaims, TLC

CONSTANTS t1, t2, k1, w1, w2

\* Two descriptors with the same macros, and a single one.
OneKey == t1 :> k1 @@ t2 :> k1
JustOne == t1 :> k1
=============================================================================
