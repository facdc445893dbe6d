--------------------------- MODULE MCCompileDedupe --------------------------
(* A small instance of CompileDedupe for TLC: two keys whose blobs do not   *)
(* fit under the cap together.                                              *)
EXTENDS CompileDedupe, TLC

CONSTANTS small, large

MCSizeOf == (small :> 1) @@ (large :> 2)
=============================================================================
