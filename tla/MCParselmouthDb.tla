---------------------------- MODULE MCParselmouthDb ----------------------------
(* ParselmouthDb on a few processes; they and the inodes are interchangeable. *)
EXTENDS ParselmouthDb, TLC

Symmetry == Permutations(Proc) \cup Permutations(Inode)
=============================================================================
