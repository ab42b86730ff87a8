------------------------------- MODULE FsFile -------------------------------
(***************************************************************************)
(* FsBaseFile of src/src/FsLib: one file object for both file systems.     *)
(* begin() of FsVolume tries exFAT, then FAT; every call of the file goes  *)
(* to the FatFile or the ExFatFile that lives in the same memory           *)
(* (m_fileMem), so the two share the variables they have in common.  The   *)
(* properties are stated once: both files keep the same promises.          *)
(***************************************************************************)
EXTENDS Integers, Sequences

CONSTANTS
  m_lastCluster, EOC, BytesPerSector, MaxTransfer, Retries,
  (* FatFile *)
  SectorsPerCluster, Word, Followed, IoFails, EarlySetPos,
  (* ExFatFile, whose values for the same parameters begin with an X *)
  XSectorsPerCluster, XWord, XFollowed, XMaxTransfer, MaxOthers, Devices

VARIABLES
  volume,           \* the file system that begin() has found
  open, m_flags, m_curPosition, m_curCluster, m_firstCluster,
  pc, left, chain, byte, place, written,
  m_fileSize, dirFirst, dirSize,
  ioFails, m_dataLength, m_validLength, entry, allocated, m_bitmapStart, fat, toFill,
  others, own

F == INSTANCE FatFile
X == INSTANCE ExFatFile
       WITH SectorsPerCluster <- XSectorsPerCluster, Word <- XWord, Followed <- XFollowed,
            MaxTransfer <- XMaxTransfer

ASSUME FatAssumption == F!FileAssumption
ASSUME ExFatAssumption == X!FileAssumption

fatOnly == <<m_fileSize, dirFirst, dirSize>>
exFatOnly == <<ioFails, m_dataLength, m_validLength, entry, allocated, m_bitmapStart, fat,
               toFill, others, own>>
vars == <<volume, F!vars, exFatOnly>>

(* m_fVol and m_xVol: which of the two file systems the volume has; the    *)
(* file object has a pointer of the same kind while it is open.            *)
m_fVol == volume = "fat"
m_xVol == volume = "exfat"
m_fFile == m_fVol /\ open
m_xFile == m_xVol /\ open

Init ==
  \/ /\ volume = "fat" /\ F!Init
     /\ ioFails = IoFails /\ m_dataLength = 0 /\ m_validLength = 0
     /\ entry = X!NoEntry /\ allocated = {} /\ m_bitmapStart = 0 /\ fat = <<>>
     /\ toFill = 0 /\ others = {} /\ own = {}
  \/ /\ volume = "exfat" /\ X!Init
     /\ m_fileSize = 0 /\ dirFirst = 0 /\ dirSize = 0

FatCall == m_fVol /\ F!Next /\ UNCHANGED <<volume, exFatOnly>>
ExFatCall == m_xVol /\ X!Next /\ UNCHANGED <<volume, fatOnly>>
Next == FatCall \/ ExFatCall
Spec == Init /\ [][Next]_vars

-----------------------------------------------------------------------------
(* Types. *)
TypeOK == volume \in {"fat", "exfat"} /\ IF m_fVol THEN F!TypeOK ELSE X!TypeOK

(* A transfer goes to the cluster of the file that holds the position: see *)
(* FatFile and ExFatFile.                                                  *)
RightCluster == IF m_fVol THEN F!RightCluster ELSE X!RightCluster

(* A byte that was written and not cut off is where a read looks for it,   *)
(* and on exFAT below the valid length.                                    *)
WrittenInPlace == IF m_fVol THEN F!WrittenInPlace ELSE X!WrittenInPlace

(* The flag for a contiguous file is set only while the clusters have      *)
(* consecutive numbers; an exFAT file without it has its links in the FAT. *)
ContiguousHolds == IF m_fVol THEN F!ContiguousHolds ELSE X!ContiguousHolds

(* Between calls the lengths are in their order and a read stays inside    *)
(* the file.                                                               *)
InsideFile == IF m_fVol THEN F!InsideFile ELSE X!InsideFile

(* The dirty flag is set whenever the directory entry is behind the file.  *)
EntryAgrees == IF m_fVol THEN F!EntryAgrees ELSE X!EntryAgrees

(* A read of exFAT returns nothing that the file did not store: gaps       *)
(* before the position of a write are filled with zeros.                   *)
NothingStale == m_xVol => X!NothingStale

(* No call of an exFAT file clears or takes a bit of another file's        *)
(* clusters.                                                               *)
NoClusterShared == m_xVol => X!NoClusterShared

(* A search of the bitmap from m_bitmapStart passes over no free cluster.  *)
SearchReaches == m_xVol => X!SearchReaches
=============================================================================
