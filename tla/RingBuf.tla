------------------------------- MODULE RingBuf -------------------------------
(***************************************************************************)
(* The ring buffer of src/src/RingBuf.h between an interrupt handler and   *)
(* the main program.  A logger's handler produces with write() and its     *)
(* main program stores with writeOut(); a player's main program loads with *)
(* readIn() and its handler consumes with read().                          *)
(*                                                                         *)
(* The handler runs to its end whenever interrupts are enabled, between    *)
(* any two steps of the main program; m_count += amount is a load and a    *)
(* store.  The file is external: it transfers any part of what it is asked *)
(* for, or fails.  Byte number i of the stream is the number i.            *)
(***************************************************************************)
EXTENDS Integers, Sequences

CONSTANTS
  Size,        \* bytes in m_buf
  CountMod,    \* 2^w for the w bits of size_t
  MaxChunk,    \* bound: bytes in one call of the interrupt handler
  MaxBytes,    \* bound: bytes in the logger's run, or in the player's file
  FileFails,   \* whether a file transfer may fail or stop short
  CallerCaps   \* whether the handler asks read(buf, count) for no more than is there

ASSUME SizeAssumption ==
  /\ Size \in Nat \ {0}
  /\ CountMod \in Nat /\ CountMod > 2 * Size
  /\ MaxChunk \in Nat
  /\ MaxBytes \in Nat
  /\ FileFails \in BOOLEAN /\ CallerCaps \in BOOLEAN

VARIABLES
  m_buf, m_count, m_head, m_tail, m_writeError,
  mode,        \* "logger" or "player"
  enabled,     \* interrupts are enabled
  pc,          \* where the main program is in writeOut() or readIn()
  count, n,    \* its locals: bytes to transfer, bytes of the first segment,
  moved,       \* nwrite or nread,
  loaded,      \* the value m_count += amount has loaded
  in,          \* bytes the producer has handed over
  out          \* bytes the consumer has received, in order

ring == <<m_buf, m_count, m_head, m_tail, m_writeError>>
locals == <<count, n, moved, loaded>>
vars == <<ring, mode, enabled, pc, locals, in, out>>

Slot == 0 .. Size - 1

-----------------------------------------------------------------------------
minSize(a, b) == IF a < b THEN a ELSE b

(* Operators marked "slip" are not used: each is the form its neighbour    *)
(* would have after a plausible bug, and a run shows that a property sees  *)
(* it.                                                                     *)
advanceLate(index, k) ==                                  \* slip: wraps one slot late
  IF index + k <= Size THEN index + k ELSE index + k - Size
advance(index, k) == IF index + k < Size THEN index + k ELSE index + k - Size

(* Unsigned arithmetic on m_count. *)
Unsigned(x) == IF x < 0 THEN x + CountMod ELSE IF x >= CountMod THEN x - CountMod ELSE x

BytesUsedBut1 == IF m_count = 0 THEN 0 ELSE m_count - 1     \* slip: one slot kept free
bytesUsed == m_count
bytesFree == Unsigned(Size - m_count)

(* m_buf after bytes first, first + 1, ... were copied to k slots from at. *)
Offset(at, j) == IF j >= at THEN j - at ELSE j + Size - at
CopiedIn(at, k, first) ==
  [j \in Slot |-> IF Offset(at, j) < k THEN first + Offset(at, j) ELSE m_buf[j]]

(* The k bytes in the slots from at on, which memcpyBuf takes in two parts *)
(* when they wrap.                                                         *)
CopiedOut(at, k) == [i \in 1 .. k |-> m_buf[advance(at, i - 1)]]

(* What a file write of k bytes returns: all of them, or with FileFails    *)
(* any part; and a file read: no more than the file has left.              *)
Transferred(k) == IF FileFails THEN 0 .. k ELSE {k}
Available(k) == Transferred(minSize(k, MaxBytes - in))

(* After the first of two segments has moved rtn bytes: is there a second? *)
SecondSegmentShort(rtn) == n < count                     \* slip: nwrite == n not tested
SecondSegment(rtn) == n < count /\ rtn = n
AfterFirst(rtn) == IF rtn = 0 THEN "idle"
                   ELSE IF SecondSegment(rtn) THEN "second" ELSE "advance"

-----------------------------------------------------------------------------
Init ==
  /\ m_buf = [j \in Slot |-> 0]
  /\ m_count = 0 /\ m_head = 0 /\ m_tail = 0
  /\ m_writeError = FALSE
  /\ mode \in {"logger", "player"}
  /\ enabled = TRUE
  /\ pc = "idle"
  /\ count = 0 /\ n = 0 /\ moved = 0 /\ loaded = 0
  /\ in = 0
  /\ out = <<>>

(* write(buf, k) in the handler of a logger: all k bytes or none. *)
WriteFitsOver(k) == ~(bytesFree + 1 < k)                    \* slip: off by one
WriteFits(k) == ~(bytesFree < k)

IsrWrite(k) ==
  /\ mode = "logger" /\ enabled
  /\ in + k <= MaxBytes
  /\ IF WriteFits(k)
     THEN /\ m_buf' = CopiedIn(m_head, k, in + 1)
          /\ m_head' = advance(m_head, k)
          /\ m_count' = Unsigned(m_count + k)
          /\ in' = in + k
          /\ UNCHANGED m_writeError
     ELSE m_writeError' = TRUE /\ UNCHANGED <<m_buf, m_head, m_count, in>>
  /\ UNCHANGED <<m_tail, mode, enabled, pc, locals, out>>

(* Removing k bytes in the handler of a player. *)
IsrTake(k) ==
  /\ out' = out \o CopiedOut(m_tail, k)
  /\ m_tail' = advance(m_tail, k)
  /\ m_count' = Unsigned(m_count - k)
  /\ UNCHANGED <<m_buf, m_head, m_writeError, mode, enabled, pc, locals, in>>

(* read() of a type of k bytes. *)
IsrReadType(k) ==
  /\ mode = "player" /\ enabled
  /\ ~(bytesUsed < k)
  /\ IsrTake(k)

(* read(buf, k): limits k by bytesFree(). *)
IsrReadBuf(k) ==
  /\ mode = "player" /\ enabled
  /\ CallerCaps => k <= bytesUsed
  /\ minSize(k, bytesFree) > 0
  /\ IsrTake(minSize(k, bytesFree))

-----------------------------------------------------------------------------
(* writeOut(c): reads bytesUsed with interrupts off. *)
WriteOutCall(c) ==
  /\ mode = "logger" /\ pc = "idle"
  /\ count' = minSize(c, bytesUsed)
  /\ n' = minSize(Size - m_tail, count')
  /\ moved' = 0
  /\ pc' = "first"
  /\ UNCHANGED <<ring, mode, enabled, loaded, in, out>>

(* Its file writes.  The second is made only after a complete first one.   *)
WriteOutFirst ==
  /\ mode = "logger" /\ pc = "first"
  /\ \E rtn \in Transferred(n) :
       /\ moved' = rtn
       /\ out' = out \o CopiedOut(m_tail, rtn)
       /\ pc' = AfterFirst(rtn)
  /\ UNCHANGED <<ring, mode, enabled, count, n, loaded, in>>

WriteOutSecond ==
  /\ mode = "logger" /\ pc = "second"
  /\ \E rtn \in Transferred(count - n) :
       /\ moved' = moved + rtn
       /\ out' = out \o CopiedOut(0, rtn)
  /\ pc' = "advance"
  /\ UNCHANGED <<ring, mode, enabled, count, n, loaded, in>>

(* readIn(c): the same, towards the buffer. *)
ReadInCall(c) ==
  /\ mode = "player" /\ pc = "idle"
  /\ count' = minSize(c, bytesFree)
  /\ n' = minSize(Size - m_head, count')
  /\ moved' = 0
  /\ pc' = "first"
  /\ UNCHANGED <<ring, mode, enabled, loaded, in, out>>

ReadInFirst ==
  /\ mode = "player" /\ pc = "first"
  /\ \E rtn \in Available(n) :
       /\ moved' = rtn
       /\ m_buf' = CopiedIn(m_head, rtn, in + 1)
       /\ in' = in + rtn
       /\ pc' = AfterFirst(rtn)
  /\ UNCHANGED <<m_count, m_head, m_tail, m_writeError, mode, enabled, count, n, loaded, out>>

ReadInSecond ==
  /\ mode = "player" /\ pc = "second"
  /\ \E rtn \in Available(count - n) :
       /\ moved' = moved + rtn
       /\ m_buf' = CopiedIn(0, rtn, in + 1)
       /\ in' = in + rtn
  /\ pc' = "advance"
  /\ UNCHANGED <<m_count, m_head, m_tail, m_writeError, mode, enabled, count, n, loaded, out>>

(* Both: m_tail or m_head is moved before the count is adjusted. *)
Advance ==
  /\ pc = "advance"
  /\ IF mode = "logger"
     THEN m_tail' = advance(m_tail, moved) /\ UNCHANGED m_head
     ELSE m_head' = advance(m_head, moved) /\ UNCHANGED m_tail
  /\ pc' = "protect"
  /\ UNCHANGED <<m_buf, m_count, m_writeError, mode, enabled, locals, in, out>>

(* adjustCount outside of the handler: noInterrupts, load, store, and      *)
(* interrupts.                                                             *)
EnabledStill == TRUE                                        \* slip: no noInterrupts()
EnabledDuringAdjust == FALSE

AdjustProtect ==
  /\ pc = "protect"
  /\ enabled' = EnabledDuringAdjust
  /\ pc' = "load"
  /\ UNCHANGED <<ring, mode, locals, in, out>>

AdjustLoad ==
  /\ pc = "load"
  /\ loaded' = m_count
  /\ pc' = "store"
  /\ UNCHANGED <<ring, mode, enabled, count, n, moved, in, out>>

AdjustStore ==
  /\ pc = "store"
  /\ m_count' = Unsigned(IF mode = "logger" THEN loaded - moved ELSE loaded + moved)
  /\ pc' = "unprotect"
  /\ UNCHANGED <<m_buf, m_head, m_tail, m_writeError, mode, enabled, locals, in, out>>

AdjustUnprotect ==
  /\ pc = "unprotect"
  /\ enabled' = TRUE
  /\ pc' = "idle"
  /\ UNCHANGED <<ring, mode, locals, in, out>>

Main ==
  \/ \E c \in 1 .. Size : WriteOutCall(c)
  \/ WriteOutFirst
  \/ WriteOutSecond
  \/ \E c \in 1 .. Size : ReadInCall(c)
  \/ ReadInFirst
  \/ ReadInSecond
  \/ Advance
  \/ AdjustProtect
  \/ AdjustLoad
  \/ AdjustStore
  \/ AdjustUnprotect

Isr == \E k \in 1 .. MaxChunk : IsrWrite(k) \/ IsrReadType(k) \/ IsrReadBuf(k)

Next == Main \/ Isr

(* The main program never stops calling, and a file that is asked again    *)
(* and again at some time takes a byte; the handler need not run.          *)
FileTakes == WriteOutFirst /\ out' # out
Spec == Init /\ [][Next]_vars /\ WF_vars(Main) /\ SF_vars(FileTakes)

-----------------------------------------------------------------------------
PC == {"idle", "first", "second", "advance", "protect", "load", "store", "unprotect"}

(* Types; m_count never leaves 0 .. Size, so its unsigned arithmetic never *)
(* wraps; interrupts are off exactly while m_count is adjusted.            *)
TypeOK ==
  /\ m_buf \in [Slot -> Nat]
  /\ m_count \in 0 .. Size
  /\ m_head \in Slot /\ m_tail \in Slot
  /\ m_writeError \in BOOLEAN
  /\ mode \in {"logger", "player"}
  /\ pc \in PC
  /\ enabled \in BOOLEAN /\ (enabled <=> pc \notin {"load", "store", "unprotect"})
  /\ count \in 0 .. Size /\ n \in 0 .. Size /\ moved \in 0 .. Size
  /\ loaded \in 0 .. Size
  /\ in \in 0 .. MaxBytes
  /\ out \in Seq(Nat)

(* Bytes before m_tail and before m_head in the stream, and bytes that the *)
(* main program has moved without adjusting m_count yet.                   *)
TailPos == Len(out) - (IF mode = "logger" /\ pc \in {"second", "advance"} THEN moved ELSE 0)
HeadPos == in - (IF mode = "player" /\ pc \in {"second", "advance"} THEN moved ELSE 0)
Unadjusted == IF pc \in {"second", "advance", "protect", "load", "store"} THEN moved ELSE 0

(* m_count is the number of bytes between the consumer and the producer,   *)
(* on the safe side by what the main program has moved but not yet         *)
(* adjusted: no update is lost to an interrupt between load and store.     *)
CountAccounts ==
  m_count = IF mode = "logger" THEN in - Len(out) + Unadjusted
                               ELSE in - Unadjusted - Len(out)

(* Head and tail agree with the bytes between them, and each of those is   *)
(* still in its slot: the producer overwrites nothing that is not consumed *)
(* and the consumer reads nothing that is not produced, in the middle of   *)
(* a transfer too (write, writeOut, readIn, read).                         *)
BytesInPlace ==
  /\ 0 <= HeadPos - TailPos /\ in - TailPos <= Size
  /\ m_head = advance(m_tail, HeadPos - TailPos)
  /\ \A i \in TailPos + 1 .. in : m_buf[advance(m_tail, i - TailPos - 1)] = i

(* What the main program relies on between the steps of a transfer, while  *)
(* the handler runs: the bytes or the room it found are still there, the   *)
(* first segment ends where the buffer ends, and nobody changes m_count    *)
(* between its load and its store.  CountAccounts and BytesInPlace are     *)
(* inductive together with it.                                             *)
InFlight ==
  /\ Len(out) <= in
  /\ pc \in {"first", "second"} =>
       LET at == IF mode = "logger" THEN m_tail ELSE m_head IN
       /\ n = minSize(Size - at, count)
       /\ IF mode = "logger" THEN count <= m_count ELSE count <= Size - m_count
       /\ pc = "second" => n < count /\ moved = n
  /\ pc = "store" => loaded = m_count

(* The ring buffer is a bounded FIFO: the consumer receives the bytes of   *)
(* the producer, each once and in order (RingBuf.h:63-68).                 *)
Fifo == INSTANCE ByteFifo WITH accepted <- in, delivered <- out
FifoSpec == Fifo!Spec

(* read(): "Actual count of bytes read" (RingBuf.h:182); the bytes it      *)
(* returns were written before, in order.                                  *)
ReadsWritten == Len(out) <= in /\ \A i \in 1 .. Len(out) : out[i] = i

(* Every byte of a logger reaches a file that does not fail for ever: no   *)
(* sequence of short and failed writes strands data in the buffer          *)
(* (writeOut, sync).                                                       *)
AllReachFile == \A i \in 1 .. MaxBytes : (mode = "logger" /\ in >= i) ~> Len(out) >= i
=============================================================================
