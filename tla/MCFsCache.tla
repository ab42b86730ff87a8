----------------------------- MODULE MCFsCache -----------------------------
(* A volume of six sectors: two FAT sectors, the two of the second FAT, and *)
(* two data sectors that a range read or write can cover together.          *)
EXTENDS FsCache, TLC

CONSTANTS x, y
MCSector == 1 .. 6
MCFatSector == {1, 2}
MCVal == {x, y}
(* No operator compares values by anything but equality. *)
ValSymmetry == Permutations(MCVal)
=============================================================================
