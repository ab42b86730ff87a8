---------------------------- MODULE FsDirectory ----------------------------
(***************************************************************************)
(* FsVolume of src/src/FsLib: the calls on paths (open, mkdir, rename,     *)
(* remove, rmdir, chdir) of a volume that is FAT or exFAT.  Every call is  *)
(* handed to the FatVolume or the ExFatVolume that begin() has made in     *)
(* m_volMem, so the two share the variables they have in common.  Both     *)
(* keep the same promises, which are stated once.                          *)
(***************************************************************************)
EXTENDS Integers

CONSTANTS
  rootDirStart, EOC, ShortNames, LongNames, LfnEntries, Basis, Hashes, FatPrograms,
  AllNames, NameEntries, ExFatPrograms

VARIABLES
  volume,           \* the file system that begin() has found
  program, device, m_sector, m_buffer, file, pc, call, at, kept,
  fatOnDevice, fat,                     \* FAT: m_fatCache
  bitmapOnDevice, bitmap, m_vwd         \* exFAT: m_bitmapCache, working directory

F == INSTANCE FatDirectory WITH Programs <- FatPrograms
X == INSTANCE ExFatDirectory WITH Programs <- ExFatPrograms

ASSUME FatAssumption == F!DirectoryAssumption
ASSUME ExFatAssumption == X!DirectoryAssumption

fatOnly == <<fatOnDevice, fat>>
exFatOnly == <<bitmapOnDevice, bitmap, m_vwd>>
vars == <<volume, F!vars, exFatOnly>>

m_fVol == volume = "fat"
m_xVol == volume = "exfat"

Init ==
  \/ /\ volume = "fat" /\ F!Init
     /\ bitmapOnDevice = {} /\ bitmap = {} /\ m_vwd = X!Closed
  \/ /\ volume = "exfat" /\ X!Init
     /\ fatOnDevice = <<>> /\ fat = <<>>

FatCall == m_fVol /\ F!Next /\ UNCHANGED <<volume, exFatOnly>>
ExFatCall == m_xVol /\ X!Next /\ UNCHANGED <<volume, fatOnly>>
Next == FatCall \/ ExFatCall
Spec == Init /\ [][Next]_vars

-----------------------------------------------------------------------------
(* Types; what is in the caches and objects is of the volume. *)
TypeOK == volume \in {"fat", "exfat"} /\ IF m_fVol THEN F!TypeOK ELSE X!TypeOK

(* Between two calls a name is found, where its entries are, exactly when  *)
(* the program has created it and not removed or renamed it since.         *)
LookupAgrees == IF m_fVol THEN F!LookupAgrees ELSE X!LookupAgrees

(* The entries of a name belong together: on FAT a file with a long name   *)
(* has all of it on the device at any moment; on exFAT a set has the       *)
(* checksum of its entries, those in another sector too, between calls.    *)
WholeNames == IF m_fVol THEN F!WholeNames ELSE X!SumsRight

(* No two entries of a directory of FAT have the same short name.          *)
SfnUnique == m_fVol => F!SfnUnique

(* What a directory says of itself is true between two calls: on FAT the   *)
(* dot entries name it and its parent, on exFAT its length and contiguous  *)
(* flag are those of its clusters.                                         *)
DirectoriesRight == IF m_fVol THEN F!DotDotRight ELSE X!LengthsRight

(* At any moment a file or directory that was synced and not removed has   *)
(* an entry on the device that names its cluster, in use there: see        *)
(* FatDirectory and ExFatDirectory for the exceptions.                     *)
SettledKept == IF m_fVol THEN F!SettledKept ELSE X!SettledKept

(* At any moment what the device has for a directory holds entries, never  *)
(* what a file has left in the sector; on exFAT for contiguous ones.       *)
NoGarbage == IF m_fVol THEN F!NoGarbage ELSE X!NoGarbage

(* Between two calls nothing is in use behind the end of a directory.      *)
FreeBehind == IF m_fVol THEN F!FreeBehind ELSE X!FreeBehind

(* Between two calls a cluster is in use exactly when a directory or a     *)
(* file has it.                                                            *)
NothingLeaked == IF m_fVol THEN F!NothingLeaked ELSE X!NothingLeaked
=============================================================================
