--------------------------- MODULE MCStoreSession ---------------------------
(* StoreSession on small instances for TLC. *)
EXTENDS StoreSession, TLC

CONSTANTS u1, u2

MCFirstToken == u1 :> 1 @@ u2 :> 2

Symmetry == Permutations(Procs)

=============================================================================
