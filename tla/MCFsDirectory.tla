--------------------------- MODULE MCFsDirectory ---------------------------
(* Kinds of volume and program.  FAT: short and long names in directories   *)
(* that grow, with power failures; three long names, of which only two find *)
(* a short name; runs of free entries around an entry in use; directories   *)
(* that are moved into another, for which four clusters are needed.  exFAT: *)
(* sets that span clusters, with power failures; long names and O_TRUNC;    *)
(* directories that grow in place or become chains, used through the        *)
(* working directory too.                                                   *)
EXTENDS FsDirectory, FiniteSetsExt, TLC

CONSTANTS c1, c2, c3, a, b, log1, log2, log3
MCShortNames == {a, b}
MCLongNames == {log1, log2, log3}
FatKind(clusters, sectors, entries, nameSets, modes, restarts) ==
  [clusters : {{rootDirStart} \cup C : C \in kSubset(clusters, {c1, c2, c3})},
   maxDirSectors : {sectors}, entriesPerSector : {entries},
   names : nameSets, modes : {modes}, restarts : {restarts}]
MCFatPrograms ==
  FatKind(2, 2, 3, {{x, log1} : x \in MCShortNames}, {"read", "trunc"}, TRUE)
  \cup FatKind(2, 2, 5, {MCLongNames}, {"write"}, FALSE)
  \cup FatKind(1, 2, 3, {MCShortNames \cup {log1}}, {"write"}, FALSE)
  \cup FatKind(3, 1, 3, {MCShortNames}, {"read"}, FALSE)

MCNameEntries == [name \in AllNames |-> IF name \in MCLongNames THEN 2 ELSE 1]
ExFatKind(clusters, nameSets, modes, restarts, cwd) ==
  [lastCluster : {clusters + 1}, entriesPerSector : {4}, systemEntries : {1},
   names : nameSets, modes : {modes}, restarts : {restarts}, cwd : {cwd}]
MCExFatPrograms ==
  ExFatKind(3, {MCShortNames}, {"read", "write"}, TRUE, "never")
  \cup ExFatKind(3, {MCShortNames \cup {log1}}, {"trunc"}, FALSE, "never")
  \cup ExFatKind(4, {MCShortNames}, {"write"}, FALSE, "alone")

(* Nothing orders names, nor clusters of FAT but for that of the root;      *)
(* those of exFAT are numbers.  Most programs have one long name only.      *)
Symmetry ==
  Permutations({c1, c2, c3}) \cup Permutations(MCShortNames)
=============================================================================
