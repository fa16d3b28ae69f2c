----------------------------- MODULE MCThemeDev -----------------------------
(* ThemeDev on small instances for TLC. *)
EXTENDS ThemeDev, TLC

Symmetry == Permutations(Keys)

=============================================================================
