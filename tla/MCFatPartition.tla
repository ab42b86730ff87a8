--------------------------- MODULE MCFatPartition ---------------------------
(* Four clusters and two files: enough for a file in two pieces around the  *)
(* other, for a hole below the search start and for a group of two or more. *)
EXTENDS FatPartition, TLC

CONSTANTS f1, f2
MCFile == {f1, f2}
FileSymmetry == Permutations(MCFile)
=============================================================================
