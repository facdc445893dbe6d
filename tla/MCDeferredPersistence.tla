------------------------ MODULE MCDeferredPersistence ----------------------
(* Small instances of DeferredPersistence for TLC.                         *)
EXTENDS DeferredPersistence, TLC

=============================================================================
