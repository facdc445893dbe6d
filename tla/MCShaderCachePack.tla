-------------------------- MODULE MCShaderCachePack -------------------------
(* A small instance of ShaderCachePack for TLC.                            *)
EXTENDS ShaderCachePack, TLC

CONSTANTS x1, x2, x3, l1, l2

\* Two versions of one logical shader, and another shader.
MCLogicalOf == x1 :> l1 @@ x2 :> l1 @@ x3 :> l2
=============================================================================
