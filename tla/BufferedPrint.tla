--------------------------- MODULE BufferedPrint ---------------------------
(***************************************************************************)
(* The template of src/src/BufferedPrint.h: what print, println and        *)
(* printField format is collected in m_buf and written when it is full.    *)
(* The file is external; when it fails it may have taken a part, of which  *)
(* it says nothing (write() of FatFile returns 0).  A program may then     *)
(* repeat the call.  Byte number i that a program prints is the number i.  *)
(***************************************************************************)
EXTENDS Integers, Sequences

CONSTANTS
  BufDim,       \* bytes in m_buf
  MaxPrinted,   \* bound: bytes that are printed
  MaxWritten    \* bound: bytes in the file, repeated ones included

PrintAssumption == BufDim \in Nat \ {0} /\ MaxPrinted \in Nat /\ MaxWritten \in Nat

VARIABLES
  m_in,         \* the bytes in m_buf
  written,      \* the bytes of the file
  printed       \* how many bytes write() has accepted

vars == <<m_in, written, printed>>

Numbers(first, k) == [i \in 1 .. k |-> first + i]
FileWrite(k, bytes) ==
  /\ Len(written) + k <= MaxWritten
  /\ written' = written \o SubSeq(bytes, 1, k)

(* sync(): the buffer is kept until all of it is written. *)
KeptNever(k, bytes) == <<>>                             \* slip: m_in reset first
Kept(k, bytes) == IF k = Len(bytes) THEN <<>> ELSE bytes
sync ==
  \E k \in 0 .. Len(m_in) :
    FileWrite(k, m_in) /\ m_in' = Kept(k, m_in) /\ UNCHANGED printed

(* write(src, n) of bytes that fit. *)
writeFits(n) ==
  /\ Len(m_in) + n <= BufDim
  /\ m_in' = m_in \o Numbers(printed, n)
  /\ printed' = printed + n
  /\ UNCHANGED written

(* ... and of bytes that do not: after sync() they are buffered, or if the *)
(* buffer is too small for them written directly.                          *)
writeSyncFails(n) ==
  /\ Len(m_in) + n > BufDim
  /\ \E k \in 0 .. Len(m_in) - 1 : FileWrite(k, m_in) /\ m_in' = Kept(k, m_in)
  /\ UNCHANGED printed
writeAfterSync(n) ==
  /\ Len(m_in) + n > BufDim /\ n < BufDim
  /\ FileWrite(Len(m_in), m_in)
  /\ m_in' = Numbers(printed, n)
  /\ printed' = printed + n
writeDirectly(n) ==
  /\ Len(m_in) + n > BufDim /\ n >= BufDim
  /\ \E k \in 0 .. n :
       /\ FileWrite(Len(m_in) + k, m_in \o Numbers(printed, n))
       /\ printed' = IF k = n THEN printed + n ELSE printed
  /\ m_in' = <<>>

Init == m_in = <<>> /\ written = <<>> /\ printed = 0

Next ==
  \/ sync
  \/ \E n \in 1 .. MaxPrinted - printed :
       writeFits(n) \/ writeSyncFails(n) \/ writeAfterSync(n) \/ writeDirectly(n)

Spec == Init /\ [][Next]_vars

-----------------------------------------------------------------------------
(* Nothing that write() has accepted is lost or overtaken, however often   *)
(* the file fails: it is in the file or in the buffer, and the file has    *)
(* each byte after the one before it.  A byte may be there more than once. *)
PrintKeeps ==
  LET inFile == {written[j] : j \in DOMAIN written} IN
  /\ m_in = Numbers(printed - Len(m_in), Len(m_in))
  /\ 1 .. printed - Len(m_in) \subseteq inFile
  /\ \A j \in DOMAIN written :
       written[j] > 1 => \E i \in 1 .. j - 1 : written[i] = written[j] - 1
=============================================================================
