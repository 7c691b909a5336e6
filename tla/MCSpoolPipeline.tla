--------------------------- MODULE MCSpoolPipeline --------------------------
(* Small instances of SpoolPipeline for TLC. *)
EXTENDS SpoolPipeline, TLC

Symmetry == Permutations(Url)

=============================================================================
