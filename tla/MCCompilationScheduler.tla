----------------------- MODULE MCCompilationScheduler -----------------------
(* A small instance of CompilationScheduler for TLC.                       *)
EXTENDS CompilationScheduler, TLC

CONSTANTS lighting, grass, l1, g1

MCTypeOf == (l1 :> lighting) @@ (g1 :> grass)
MCRank == (l1 :> 2) @@ (g1 :> 1)

=============================================================================
