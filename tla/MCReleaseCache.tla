---------------------------- MODULE MCReleaseCache ----------------------------
(* ReleaseCache on a few processes; processes are interchangeable. *)
EXTENDS ReleaseCache, TLC

Symmetry == Permutations(Proc)
=============================================================================
