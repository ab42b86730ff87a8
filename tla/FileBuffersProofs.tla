-------------------------- MODULE FileBuffersProofs --------------------------
(***************************************************************************)
(* The three buffers between a program and a file.                         *)
(*                                                                         *)
(* RingBuf is a bounded first-in first-out stream for every Size, every    *)
(* width of size_t and every interleaving with the interrupt handler, when *)
(* read(buf, count) is asked for no more than the buffer holds.            *)
(*                                                                         *)
(* StdioStream and the file together are what the program knows of the     *)
(* file, for every size of the buffer, any sequence of calls the program   *)
(* may make and any failure of the file.                                   *)
(*                                                                         *)
(* BufferedPrint loses and reorders nothing that was printed, for every    *)
(* size of the buffer and of the prints.                                   *)
(***************************************************************************)
EXTENDS FileBuffers, SequenceTheorems, TLAPS

-----------------------------------------------------------------------------
(* Arithmetic of the ring. *)

(* advance stays in the buffer for every distance up to Size. *)
LEMMA AdvanceInSlot ==
  ASSUME NEW t \in Slot, NEW a \in 0 .. Size
  PROVE  advance(t, a) \in Slot
BY SizeAssumption DEF advance, Slot

(* Two advances that together make at most one turn add up. *)
LEMMA AdvanceAdds ==
  ASSUME NEW t \in Slot, NEW a \in Nat, NEW b \in Nat, a + b <= Size
  PROVE  advance(advance(t, a), b) = advance(t, a + b)
BY SizeAssumption DEF advance, Slot

(* The distance of two slots in the ring. *)
LEMMA OffsetOfAdvance ==
  ASSUME NEW t \in Slot, NEW d \in Nat, NEW k \in Nat, NEW e \in Nat,
         d + k <= Size, e < d + k
  PROVE  Offset(advance(t, d), advance(t, e)) = IF e < d THEN e - d + Size ELSE e - d
BY SizeAssumption DEF advance, Slot, Offset

(* m_count stays far from the limit of its type. *)
LEMMA UnsignedExact ==
  ASSUME NEW x \in 0 .. Size
  PROVE  Unsigned(x) = x
BY SizeAssumption DEF Unsigned

-----------------------------------------------------------------------------
(* Bytes b[first + 1 .. final] of the stream lie in the ring from slot t   *)
(* on.                                                                     *)
InRing(b, t, first, final) ==
  \A i \in first + 1 .. final : b[advance(t, i - first - 1)] = i

(* Copying k bytes in behind the d that are there keeps those. *)
LEMMA CopyingIn ==
  ASSUME m_buf \in [Slot -> Nat], NEW t \in Slot, NEW T \in Int, NEW k \in Nat, in \in Nat,
         T <= in, in + k - T <= Size, InRing(m_buf, t, T, in)
  PROVE  /\ CopiedIn(advance(t, in - T), k, in + 1) \in [Slot -> Nat]
         /\ InRing(CopiedIn(advance(t, in - T), k, in + 1), t, T, in + k)
<1> DEFINE d == in - T
           h == advance(t, d)
<1>1. h \in Slot
  BY AdvanceInSlot, SizeAssumption
<1>2. CopiedIn(h, k, in + 1) \in [Slot -> Nat]
  <2>1. ASSUME NEW j \in Slot
        PROVE  Offset(h, j) \in Nat
    BY SMTT(30), <1>1, SizeAssumption DEF Offset, Slot
  <2> QED BY <2>1 DEF CopiedIn
<1>3. ASSUME NEW i \in T + 1 .. in + k
      PROVE  CopiedIn(h, k, in + 1)[advance(t, i - T - 1)] = i
  <2> DEFINE e == i - T - 1
             s == advance(t, e)
  <2>1. e \in Nat /\ e < d + k /\ d \in Nat /\ d + k <= Size
    OBVIOUS
  <2>2. s \in Slot
    BY <2>1, AdvanceInSlot, SizeAssumption
  <2>3. Offset(h, s) = IF e < d THEN e - d + Size ELSE e - d
    BY <2>1, OffsetOfAdvance
  <2>4. CopiedIn(h, k, in + 1)[s] = IF Offset(h, s) < k THEN in + 1 + Offset(h, s) ELSE m_buf[s]
    BY <2>2 DEF CopiedIn
  <2>5. CASE e < d
    <3>1. m_buf[s] = i
      BY <2>5, <2>1 DEF InRing
    <3>2. ~(Offset(h, s) < k)
      BY <2>1, <2>3, <2>5, SizeAssumption
    <3> QED BY <3>1, <3>2, <2>4
  <2>6. CASE ~(e < d)
    <3>1. Offset(h, s) = e - d
      BY <2>3, <2>6
    <3>2. Offset(h, s) < k /\ in + 1 + Offset(h, s) = i
      BY <3>1, <2>1
    <3> QED BY <3>2, <2>4
  <2> QED BY <2>5, <2>6
<1> QED BY <1>2, <1>3 DEF InRing

(* The k bytes copied out d slots behind the first are the next k ones. *)
LEMMA CopyingOut ==
  ASSUME NEW t \in Slot, NEW T \in Int, NEW d \in Nat, NEW k \in Nat, in \in Nat,
         T + d + k <= in, in - T <= Size, InRing(m_buf, t, T, in)
  PROVE  CopiedOut(advance(t, d), k) = [i \in 1 .. k |-> T + d + i]
<1> SUFFICES ASSUME NEW i \in 1 .. k
             PROVE  m_buf[advance(advance(t, d), i - 1)] = T + d + i
  BY DEF CopiedOut
<1>1. advance(advance(t, d), i - 1) = advance(t, d + (i - 1))
  BY AdvanceAdds, SizeAssumption
<1>2. T + d + i \in T + 1 .. in /\ (T + d + i) - T - 1 = d + (i - 1)
  OBVIOUS
<1> QED BY <1>1, <1>2 DEF InRing

(* Taking k bytes away from the front. *)
LEMMA Taking ==
  ASSUME NEW t \in Slot, NEW T \in Int, NEW k \in Nat, in \in Nat,
         T + k <= in, in - T <= Size, InRing(m_buf, t, T, in)
  PROVE  InRing(m_buf, advance(t, k), T + k, in)
<1> SUFFICES ASSUME NEW i \in (T + k) + 1 .. in
             PROVE  m_buf[advance(advance(t, k), i - (T + k) - 1)] = i
  BY DEF InRing
<1>1. advance(advance(t, k), i - (T + k) - 1) = advance(t, k + (i - (T + k) - 1))
  BY AdvanceAdds, SizeAssumption
<1>2. k + (i - (T + k) - 1) = i - T - 1 /\ i \in T + 1 .. in
  OBVIOUS
<1> QED BY <1>1, <1>2 DEF InRing

-----------------------------------------------------------------------------
(* The inductive invariant.  CountAccounts needs InFlight where the count  *)
(* is stored, BytesInPlace needs both where a byte is written or taken.    *)
IInv == TypeOK /\ CountAccounts /\ BytesInPlace /\ InFlight

Positions ==
  /\ 0 <= HeadPos - TailPos /\ in - TailPos <= Size
  /\ m_head = advance(m_tail, HeadPos - TailPos)
  /\ InRing(m_buf, m_tail, TailPos, in)

LEMMA BytesInPlacePositions == BytesInPlace <=> Positions
BY DEF BytesInPlace, Positions, InRing

LEMMA BytesInPlacePositionsNext == BytesInPlace' <=> Positions'
BY DEF BytesInPlace, Positions, InRing

(* What m_count tells the handler and the main program. *)
LEMMA CountFacts ==
  ASSUME IInv
  PROVE  /\ Len(out) \in Nat /\ in \in Nat /\ m_count \in Nat
         /\ TailPos \in Int /\ HeadPos \in Int
         /\ bytesUsed = m_count /\ bytesFree = Size - m_count
         /\ mode = "logger" => HeadPos = in /\ in - TailPos <= m_count
         /\ mode = "player" => TailPos = Len(out) /\ m_count <= HeadPos - TailPos
<1>1. Len(out) \in Nat /\ in \in Nat /\ m_count \in 0 .. Size /\ moved \in Nat
  BY DEF IInv, TypeOK
<1>2. bytesFree = Size - m_count
  BY <1>1, UnsignedExact, SizeAssumption DEF bytesFree
<1>3. TailPos \in Int /\ HeadPos \in Int
  BY <1>1 DEF TailPos, HeadPos
<1>4. mode = "logger" => HeadPos = in /\ in - TailPos <= m_count
  BY <1>1 DEF IInv, CountAccounts, TailPos, HeadPos, Unadjusted
<1>5. mode = "player" => TailPos = Len(out) /\ m_count <= HeadPos - TailPos
  BY <1>1 DEF IInv, CountAccounts, TailPos, HeadPos, Unadjusted
<1> QED BY <1>1, <1>2, <1>3, <1>4, <1>5 DEF bytesUsed

LEMMA InitIInv == Init => IInv
<1> SUFFICES ASSUME Init PROVE IInv
  OBVIOUS
<1>1. TypeOK
  BY SizeAssumption DEF Init, TypeOK, Slot, PC
<1>5. /\ Len(out) = 0 /\ mode \in {"logger", "player"} /\ pc = "idle" /\ in = 0
      /\ m_count = 0 /\ m_head = 0 /\ m_tail = 0
  BY DEF Init
<1>2. CountAccounts
  BY <1>5 DEF CountAccounts, Unadjusted
<1>3. BytesInPlace
  BY <1>5, SizeAssumption DEF BytesInPlace, TailPos, HeadPos, advance
<1>4. InFlight
  BY <1>5 DEF Init, InFlight
<1> QED BY <1>1, <1>2, <1>3, <1>4 DEF IInv

-----------------------------------------------------------------------------
(* The handler. *)

LEMMA IsrWriteIInv ==
  ASSUME IInv, NEW k \in 1 .. MaxChunk, IsrWrite(k)
  PROVE  IInv'
<1> USE DEF IInv
<1>1. mode = "logger" /\ pc \notin {"load", "store", "unprotect"} /\ k \in Nat
  BY SizeAssumption DEF IsrWrite, TypeOK
<1>2. UNCHANGED <<m_tail, mode, enabled, pc, count, n, moved, loaded, out>>
  BY DEF IsrWrite, locals
<1>3. CASE ~WriteFits(k)
  <2>1. m_writeError' = TRUE /\ UNCHANGED <<m_buf, m_head, m_count, in>>
    BY <1>3 DEF IsrWrite
  <2> QED BY <1>2, <2>1 DEF TypeOK, CountAccounts, BytesInPlace, InFlight, TailPos,
                            HeadPos, Unadjusted
<1>4. CASE WriteFits(k)
  <2>1. /\ m_buf' = CopiedIn(m_head, k, in + 1)
        /\ m_head' = advance(m_head, k)
        /\ m_count' = Unsigned(m_count + k)
        /\ in' = in + k /\ in + k <= MaxBytes
        /\ UNCHANGED m_writeError
    BY <1>4 DEF IsrWrite
  <2>2. m_count + k <= Size
    BY <1>1, <1>4, CountFacts, SizeAssumption DEF WriteFits, TypeOK
  <2>3. m_count' = m_count + k
    BY <1>1, <2>1, <2>2, UnsignedExact DEF TypeOK
  <2>4. /\ HeadPos = in /\ in + k - TailPos <= Size /\ TailPos <= in
        /\ m_head = advance(m_tail, in - TailPos)
        /\ InRing(m_buf, m_tail, TailPos, in)
    BY <1>1, <2>2, CountFacts, BytesInPlacePositions, SizeAssumption DEF Positions
  <2>5. TailPos' = TailPos /\ HeadPos' = in + k
    BY <1>1, <1>2, <2>1 DEF TailPos, HeadPos, TypeOK
  <2>6. m_buf' \in [Slot -> Nat] /\ InRing(m_buf', m_tail, TailPos, in + k)
    BY <1>1, <2>1, <2>4, CopyingIn, CountFacts DEF TypeOK
  <2>7. m_head' = advance(m_tail, in + k - TailPos)
    BY <1>1, <2>1, <2>4, AdvanceAdds, CountFacts DEF TypeOK
  <2>8. m_head' \in Slot
    <3>1. in + k - TailPos \in 0 .. Size
      BY <1>1, <2>4, CountFacts, SizeAssumption
    <3> QED BY <2>7, <3>1, AdvanceInSlot DEF TypeOK
  <2>9. TypeOK'
    <3>1. in' \in 0 .. MaxBytes /\ m_count' \in 0 .. Size
      BY <1>1, <2>1, <2>2, <2>3, CountFacts, SizeAssumption
    <3> QED BY <1>2, <2>1, <2>6, <2>8, <3>1 DEF TypeOK
  <2>10. CountAccounts'
    <3>1. Unadjusted' = Unadjusted /\ Unadjusted \in Int
      BY <1>2 DEF Unadjusted, TypeOK
    <3>2. m_count = in - Len(out) + Unadjusted /\ Len(out') = Len(out)
      BY <1>1, <1>2 DEF CountAccounts
    <3>3. m_count' = in' - Len(out') + Unadjusted'
      BY <1>1, <2>1, <2>3, <3>1, <3>2, CountFacts, SMTT(30)
    <3> QED BY <1>1, <1>2, <3>3 DEF CountAccounts
  <2>11. BytesInPlace'
    <3>1. Positions'
      BY <1>1, <1>2, <2>1, <2>4, <2>5, <2>6, <2>7, CountFacts DEF Positions, InRing
    <3> QED BY <3>1, BytesInPlacePositionsNext
  <2>12. InFlight'
    BY <1>1, <1>2, <2>1, <2>3 DEF InFlight, TypeOK
  <2> QED BY <2>9, <2>10, <2>11, <2>12
<1> QED BY <1>3, <1>4

(* The bytes the handler takes when there are that many. *)
LEMMA IsrTakeIInv ==
  ASSUME IInv, NEW k \in Nat, k <= m_count, IsrTake(k),
         mode = "player", enabled
  PROVE  IInv' /\ out' = out \o [i \in 1 .. k |-> Len(out) + i] /\ Len(out) + k <= in
<1> USE DEF IInv
<1>1. pc \notin {"load", "store", "unprotect"}
  BY DEF TypeOK
<1>2. /\ UNCHANGED <<m_buf, m_head, m_writeError, mode, enabled, pc, count, n, moved, loaded, in>>
      /\ m_tail' = advance(m_tail, k)
      /\ m_count' = Unsigned(m_count - k)
      /\ out' = out \o CopiedOut(m_tail, k)
  BY DEF IsrTake, locals
<1>3. m_count' = m_count - k
  BY <1>2, UnsignedExact, SizeAssumption DEF TypeOK
<1>4. /\ TailPos = Len(out) /\ k <= HeadPos - TailPos
      /\ HeadPos <= in
      /\ m_head = advance(m_tail, HeadPos - TailPos)
      /\ in - TailPos <= Size
      /\ InRing(m_buf, m_tail, TailPos, in)
  <2>1. HeadPos <= in
    BY DEF HeadPos, TypeOK
  <2> QED BY <2>1, CountFacts, BytesInPlacePositions DEF Positions
<1>5. CopiedOut(m_tail, k) = [i \in 1 .. k |-> Len(out) + i]
  <2>1. m_tail = advance(m_tail, 0)
    BY SizeAssumption DEF advance, TypeOK, Slot
  <2>2. CopiedOut(advance(m_tail, 0), k) = [i \in 1 .. k |-> TailPos + 0 + i]
    BY SMTT(30), <1>4, CopyingOut, CountFacts DEF TypeOK
  <2> QED BY <1>4, <2>1, <2>2, CountFacts
<1>6. out' \in Seq(Nat) /\ Len(out') = Len(out) + k
  <2>1. [i \in 1 .. k |-> Len(out) + i] \in Seq(Nat)
    BY CountFacts
  <2> QED BY <1>2, <1>5, <2>1 DEF TypeOK
<1>7. TailPos' = TailPos + k /\ HeadPos' = HeadPos
  BY <1>2, <1>4, <1>6 DEF TailPos, HeadPos
<1>8. m_tail' \in Slot
  BY <1>2, AdvanceInSlot, SizeAssumption DEF TypeOK
<1>9. TypeOK'
  <2>1. m_count' \in 0 .. Size
    BY <1>3, CountFacts, SizeAssumption DEF TypeOK
  <2> QED BY <1>2, <1>6, <1>8, <2>1 DEF TypeOK
<1>10. CountAccounts'
  BY <1>2, <1>3, <1>6, CountFacts DEF CountAccounts, Unadjusted, TypeOK
<1>11. BytesInPlace'
  <2>1. InRing(m_buf, m_tail', TailPos + k, in)
    BY SMTT(30), <1>2, <1>4, Taking, CountFacts DEF TypeOK
  <2>2. advance(m_tail', HeadPos - (TailPos + k)) = advance(m_tail, HeadPos - TailPos)
    <3> DEFINE b == HeadPos - (TailPos + k)
    <3>1. b \in Nat /\ k + b <= Size /\ k + b = HeadPos - TailPos
      BY <1>4, CountFacts, SizeAssumption
    <3>2. advance(advance(m_tail, k), b) = advance(m_tail, k + b)
      BY <3>1, AdvanceAdds DEF TypeOK
    <3> QED BY <1>2, <3>1, <3>2
  <2>3. 0 <= HeadPos' - TailPos' /\ in' - TailPos' <= Size
    BY SMTT(30), <1>2, <1>4, <1>7, CountFacts, SizeAssumption
  <2>4. m_head' = advance(m_tail', HeadPos' - TailPos')
    BY <1>2, <1>4, <1>7, <2>2
  <2>5. InRing(m_buf', m_tail', TailPos', in')
    BY <1>2, <1>7, <2>1
  <2>6. Positions'
    BY <2>3, <2>4, <2>5 DEF Positions, InRing
  <2> QED BY <2>6, BytesInPlacePositionsNext
<1>12. InFlight'
  <2>1. Len(out') <= in'
    BY <1>2, <1>4, <1>6, CountFacts
  <2>2. pc' \in {"first", "second"} =>
          count' <= Size - m_count' /\ n' = minSize(Size - m_head', count')
            /\ (pc' = "second" => n' < count' /\ moved' = n')
    BY <1>2, <1>3, CountFacts, SizeAssumption DEF InFlight, TypeOK
  <2> QED BY <1>1, <1>2, <2>1, <2>2 DEF InFlight
<1> QED BY <1>2, <1>4, <1>5, <1>9, <1>10, <1>11, <1>12, CountFacts

(* Both reads of the handler take what is there. *)
LEMMA IsrReads ==
  ASSUME IInv, CallerCaps, NEW k \in 1 .. MaxChunk, IsrReadType(k) \/ IsrReadBuf(k)
  PROVE  \E j \in 1 .. Size : j <= m_count /\ IsrTake(j) /\ mode = "player" /\ enabled
<1>1. k \in Nat /\ k >= 1 /\ m_count \in 0 .. Size /\ Size \in Nat
  BY SizeAssumption DEF IInv, TypeOK
<1>2. CASE IsrReadType(k)
  BY <1>1, <1>2, CountFacts DEF IsrReadType
<1>3. CASE IsrReadBuf(k)
  <2>1. minSize(k, bytesFree) \in 1 .. Size /\ minSize(k, bytesFree) <= m_count
    BY <1>1, <1>3, CountFacts DEF IsrReadBuf, minSize
  <2> QED BY <1>3, <2>1 DEF IsrReadBuf
<1> QED BY <1>2, <1>3

-----------------------------------------------------------------------------
(* The main program. *)

LEMMA Transfers ==
  ASSUME NEW k \in Nat, in \in 0 .. MaxBytes
  PROVE  /\ \A rtn \in Transferred(k) : rtn \in 0 .. k
         /\ \A rtn \in Available(k) : rtn \in 0 .. k /\ in + rtn \in 0 .. MaxBytes
BY SizeAssumption DEF Transferred, Available, minSize

(* Appending the next k bytes to what the consumer has. *)
LEMMA Appending ==
  ASSUME out \in Seq(Nat), NEW k \in Nat,
         out' = out \o [i \in 1 .. k |-> Len(out) + i]
  PROVE  out' \in Seq(Nat) /\ Len(out') = Len(out) + k /\ (k = 0 => out' = out)
<1>1. Len(out) \in Nat
  OBVIOUS
<1>2. [i \in 1 .. k |-> Len(out) + i] \in Seq(Nat)
  BY <1>1
<1>3. Len([i \in 1 .. k |-> Len(out) + i]) = k
  BY <1>1
<1>4. k = 0 => out' = out
  <2> SUFFICES ASSUME k = 0 PROVE out' = out
    OBVIOUS
  <2>1. out' \in Seq(Nat) /\ Len(out') = Len(out)
    BY <1>1, <1>2, <1>3
  <2>2. \A i \in 1 .. Len(out) : out'[i] = out[i]
    BY <1>1, <1>2, <1>3
  <2> QED BY <2>1, <2>2, SeqEqual
<1> QED BY <1>2, <1>3, <1>4

LEMMA CallIInv ==
  ASSUME IInv, NEW c \in 1 .. Size, WriteOutCall(c) \/ ReadInCall(c)
  PROVE  IInv' /\ UNCHANGED <<in, out>>
<1> USE DEF IInv
<1>1. /\ UNCHANGED <<m_buf, m_count, m_head, m_tail, m_writeError, mode, enabled, loaded, in, out>>
      /\ pc = "idle" /\ pc' = "first" /\ moved' = 0
  BY DEF WriteOutCall, ReadInCall, ring
<1>2. /\ n' = minSize(Size - (IF mode = "logger" THEN m_tail ELSE m_head), count')
      /\ count' \in 0 .. Size
      /\ IF mode = "logger" THEN count' <= m_count ELSE count' <= Size - m_count
  <2>1. m_count \in 0 .. Size /\ Size \in Nat /\ c \in Nat
    BY SizeAssumption DEF TypeOK
  <2>2. CASE WriteOutCall(c)
    BY <2>1, <2>2, CountFacts DEF WriteOutCall, minSize
  <2>3. CASE ReadInCall(c)
    BY <2>1, <2>3, CountFacts DEF ReadInCall, minSize
  <2> QED BY <2>2, <2>3
<1>3. n' \in 0 .. Size
  BY <1>2, SizeAssumption DEF minSize, TypeOK, Slot
<1>4. TypeOK'
  BY <1>1, <1>2, <1>3, SizeAssumption DEF TypeOK, PC
<1>5. CountAccounts' /\ BytesInPlace'
  BY <1>1 DEF CountAccounts, BytesInPlace, Unadjusted, TailPos, HeadPos
<1>6. InFlight'
  BY <1>1, <1>2 DEF InFlight
<1> QED BY <1>1, <1>4, <1>5, <1>6

(* What the main program knows while a transfer is on. *)
LEMMA TransferFacts ==
  ASSUME IInv, pc \in {"first", "second"}
  PROVE  /\ n \in Nat /\ count \in Nat /\ moved \in Nat /\ n <= count
         /\ pc = "second" => moved = n /\ count - n \in Nat
         /\ mode = "logger" =>
              /\ Len(out) + count <= in + (IF pc = "second" THEN n ELSE 0)
              /\ n <= Size - m_tail
              /\ pc = "second" => m_tail + n = Size
         /\ mode = "player" =>
              /\ in - (IF pc = "second" THEN n ELSE 0) + count - Len(out) <= Size
              /\ n <= Size - m_head
              /\ pc = "second" => m_head + n = Size
<1> USE DEF IInv
<1>1. /\ n \in Nat /\ count \in Nat /\ moved \in Nat /\ m_tail \in Slot /\ m_head \in Slot
      /\ mode \in {"logger", "player"} /\ m_count \in Nat
  BY DEF TypeOK
<1>2. pc = "second" => n < count /\ moved = n
  BY DEF InFlight
<1>3. n = minSize(Size - (IF mode = "logger" THEN m_tail ELSE m_head), count)
  BY DEF InFlight
<1>4. mode = "logger" => count <= m_count
  BY DEF InFlight
<1>5. mode = "player" => count <= Size - m_count
  BY <1>1 DEF InFlight
<1>6. Unadjusted = IF pc = "second" THEN n ELSE 0
  BY <1>2 DEF Unadjusted
<1>7. n <= count
  BY <1>1, <1>3, SizeAssumption DEF minSize, Slot
<1>8. mode = "logger" => n <= Size - m_tail /\ (pc = "second" => m_tail + n = Size)
  BY <1>1, <1>2, <1>3, SizeAssumption DEF minSize, Slot
<1>9. mode = "player" => n <= Size - m_head /\ (pc = "second" => m_head + n = Size)
  BY <1>1, <1>2, <1>3, SizeAssumption DEF minSize, Slot
<1>10. mode = "logger" => Len(out) + count <= in + (IF pc = "second" THEN n ELSE 0)
  BY <1>1, <1>4, <1>6, CountFacts DEF CountAccounts
<1>11. mode = "player" => in - (IF pc = "second" THEN n ELSE 0) + count - Len(out) <= Size
  BY SMTT(30), <1>1, <1>5, <1>6, CountFacts, SizeAssumption DEF CountAccounts
<1> QED BY <1>1, <1>2, <1>7, <1>8, <1>9, <1>10, <1>11

(* A transfer by writeOut: rtn bytes reach the file, the ring stays as it is. *)
LEMMA WriteOutIInv ==
  ASSUME IInv, NEW rtn \in Nat, mode = "logger", pc \in {"first", "second"},
         UNCHANGED <<ring, mode, enabled, count, n, loaded, in>>,
         Len(out) + rtn <= in,
         out' = out \o [i \in 1 .. rtn |-> Len(out) + i],
         moved' = (IF pc = "second" THEN moved ELSE 0) + rtn,
         moved' \in 0 .. Size,
         \/ pc' = "idle" /\ moved' = 0
         \/ pc' = "second" /\ pc = "first" /\ n < count /\ moved' = n
         \/ pc' = "advance"
  PROVE  IInv'
<1> USE DEF IInv
<1>1. out' \in Seq(Nat) /\ Len(out') = Len(out) + rtn
  BY Appending DEF TypeOK
<1>2. UNCHANGED <<m_buf, m_count, m_head, m_tail, m_writeError>>
  BY DEF ring
<1>3. moved \in Nat /\ Len(out) \in Nat /\ in \in Nat
  BY CountFacts DEF TypeOK
<1>4. TypeOK'
  BY <1>1, <1>2 DEF TypeOK, PC
<1>5. CountAccounts'
  <2>1. Unadjusted = (IF pc = "second" THEN moved ELSE 0) /\ Unadjusted' = moved'
    BY <1>3 DEF Unadjusted
  <2>2. m_count = in - Len(out) + Unadjusted
    BY DEF CountAccounts
  <2>3. m_count' = in' - Len(out') + Unadjusted'
    BY <1>1, <1>2, <1>3, <2>1, <2>2, SMTT(30)
  <2> QED BY <2>3 DEF CountAccounts
<1>6. BytesInPlace'
  <2>1. TailPos' = TailPos /\ HeadPos' = HeadPos
    BY <1>1, <1>2, <1>3 DEF TailPos, HeadPos
  <2>2. Positions
    BY BytesInPlacePositions
  <2>3. Positions'
    BY <1>2, <2>1, <2>2 DEF Positions, InRing
  <2> QED BY <2>3, BytesInPlacePositionsNext
<1>7. InFlight'
  BY <1>1, <1>2, <1>3 DEF InFlight
<1> QED BY <1>4, <1>5, <1>6, <1>7

(* The same by readIn: rtn bytes of the file are stored behind the others. *)
LEMMA ReadInIInv ==
  ASSUME IInv, NEW rtn \in Nat, mode = "player", pc \in {"first", "second"},
         UNCHANGED <<m_count, m_head, m_tail, m_writeError, mode, enabled, count, n, loaded, out>>,
         in' = in + rtn, in' \in 0 .. MaxBytes, in' - TailPos <= Size,
         m_buf' = CopiedIn(advance(m_tail, in - TailPos), rtn, in + 1),
         moved' = (IF pc = "second" THEN moved ELSE 0) + rtn,
         moved' \in 0 .. Size,
         \/ pc' = "idle" /\ moved' = 0
         \/ pc' = "second" /\ pc = "first" /\ n < count /\ moved' = n
         \/ pc' = "advance"
  PROVE  IInv'
<1> USE DEF IInv
<1>1. moved \in Nat /\ Len(out) \in Nat /\ in \in Nat /\ TailPos = Len(out) /\ TailPos <= in
  BY CountFacts DEF TypeOK, InFlight
<1>2. Positions
  BY BytesInPlacePositions
<1>3. m_buf' \in [Slot -> Nat] /\ InRing(m_buf', m_tail, TailPos, in')
  <2>1. /\ m_buf \in [Slot -> Nat] /\ m_tail \in Slot
        /\ InRing(m_buf, m_tail, TailPos, in)
        /\ TailPos \in Int /\ in + rtn - TailPos <= Size
    BY <1>1, <1>2 DEF Positions, TypeOK
  <2> QED BY <1>1, <2>1, CopyingIn
<1>4. TypeOK'
  BY <1>3 DEF TypeOK, PC
<1>5. CountAccounts'
  <2>1. Unadjusted = (IF pc = "second" THEN moved ELSE 0) /\ Unadjusted' = moved'
    BY <1>1 DEF Unadjusted
  <2> QED BY <1>1, <2>1 DEF CountAccounts
<1>6. BytesInPlace'
  <2>1. TailPos' = TailPos /\ HeadPos' = HeadPos
    BY <1>1 DEF TailPos, HeadPos
  <2>2. Positions'
    BY <1>2, <1>3, <2>1 DEF Positions, InRing
  <2> QED BY <2>2, BytesInPlacePositionsNext
<1>7. InFlight'
  BY <1>1 DEF InFlight
<1> QED BY <1>4, <1>5, <1>6, <1>7

(* What the refinement shows of each step. *)
FifoStep == [Fifo!Next]_<<in, out>>

LEMMA PutStep ==
  ASSUME IInv', in \in Nat, NEW k \in 0 .. Size, in' = in + k, UNCHANGED out
  PROVE  FifoStep
<1>1. CASE k = 0
  BY <1>1 DEF FifoStep, IInv, TypeOK
<1>2. CASE k # 0
  <2>1. in' <= Len(out) + Size
    <3>1. Len(out') \in Nat /\ moved' \in Nat /\ in' \in Nat
      BY DEF IInv, TypeOK
    <3>2. in' - TailPos' <= Size /\ TailPos' <= Len(out')
      BY <3>1 DEF IInv, BytesInPlace, TailPos
    <3> QED BY <3>1, <3>2, SizeAssumption DEF TailPos
  <2> QED BY <1>2, <2>1 DEF FifoStep, Fifo!Next, Fifo!Put
<1> QED BY <1>1, <1>2

LEMMA GetStep ==
  ASSUME IInv, NEW k \in 0 .. Size, UNCHANGED in, Len(out) + k <= in,
         out' = out \o [i \in 1 .. k |-> Len(out) + i]
  PROVE  FifoStep
<1>1. CASE k = 0
  BY <1>1, Appending DEF FifoStep, IInv, TypeOK
<1>2. CASE k # 0
  BY <1>2 DEF FifoStep, Fifo!Next, Fifo!Get
<1> QED BY <1>1, <1>2

(* The steps of a transfer. *)
LEMMA WriteOutSteps ==
  ASSUME IInv, WriteOutFirst \/ WriteOutSecond
  PROVE  IInv' /\ FifoStep
<1> USE DEF IInv
<1>1. /\ mode = "logger" /\ pc \in {"first", "second"}
      /\ UNCHANGED <<ring, mode, enabled, count, n, loaded, in>>
  BY DEF WriteOutFirst, WriteOutSecond
<1>2. /\ n \in 0 .. Size /\ count \in 0 .. Size /\ in \in Nat /\ in \in 0 .. MaxBytes
      /\ Len(out) \in Nat /\ m_tail \in Slot /\ Size \in Nat
  BY SizeAssumption, CountFacts DEF TypeOK
<1>3. Positions
  BY BytesInPlacePositions
<1>4. CASE WriteOutFirst
  <2>1. PICK rtn \in Transferred(n) :
          /\ moved' = rtn
          /\ out' = out \o CopiedOut(m_tail, rtn)
          /\ pc' = AfterFirst(rtn)
    BY <1>4 DEF WriteOutFirst
  <2>2. pc = "first"
    BY <1>4 DEF WriteOutFirst
  <2>3. rtn \in 0 .. n /\ Len(out) + rtn <= in /\ TailPos = Len(out)
    BY <1>1, <1>2, <2>2, Transfers, TransferFacts DEF TailPos
  <2>4. CopiedOut(m_tail, rtn) = [i \in 1 .. rtn |-> Len(out) + i]
    <3>1. CopiedOut(advance(m_tail, 0), rtn) = [i \in 1 .. rtn |-> Len(out) + 0 + i]
      BY <1>2, <1>3, <2>3, CopyingOut DEF Positions
    <3>2. advance(m_tail, 0) = m_tail
      BY <1>2, SizeAssumption DEF advance, Slot
    <3> QED BY <1>2, <3>1, <3>2
  <2>5. \/ pc' = "idle" /\ moved' = 0
        \/ pc' = "second" /\ n < count /\ moved' = n
        \/ pc' = "advance"
    BY <2>1 DEF AfterFirst, SecondSegment
  <2>6. moved' = (IF pc = "second" THEN moved ELSE 0) + rtn /\ moved' \in 0 .. Size
    BY <1>2, <2>1, <2>2, <2>3
  <2>7. IInv'
    BY <1>1, <2>1, <2>2, <2>3, <2>4, <2>5, <2>6, WriteOutIInv
  <2>8. rtn \in 0 .. Size /\ in' = in
    BY <1>1, <1>2, <2>3
  <2> QED BY <2>1, <2>3, <2>4, <2>7, <2>8, GetStep
<1>5. CASE WriteOutSecond
  <2>1. PICK rtn \in Transferred(count - n) :
          moved' = moved + rtn /\ out' = out \o CopiedOut(0, rtn)
    BY <1>5 DEF WriteOutSecond
  <2>2. pc = "second" /\ pc' = "advance"
    BY <1>5 DEF WriteOutSecond
  <2>3. /\ moved = n /\ count - n \in Nat /\ Len(out) + count <= in + n
        /\ m_tail + n = Size /\ TailPos = Len(out) - n
    BY <1>1, <2>2, TransferFacts DEF TailPos
  <2>4. rtn \in 0 .. count - n /\ Len(out) + rtn <= in
    BY <1>2, <2>3, Transfers
  <2>5. CopiedOut(0, rtn) = [i \in 1 .. rtn |-> Len(out) + i]
    <3>1. advance(m_tail, n) = 0
      BY <1>2, <2>3, SizeAssumption DEF advance, Slot
    <3>2. /\ TailPos \in Int /\ TailPos + n + rtn <= in /\ in - TailPos <= Size
          /\ InRing(m_buf, m_tail, TailPos, in) /\ n \in Nat /\ rtn \in Nat
      BY <1>2, <1>3, <2>3, <2>4 DEF Positions
    <3>3. CopiedOut(advance(m_tail, n), rtn) = [i \in 1 .. rtn |-> TailPos + n + i]
      BY <1>2, <3>2, CopyingOut
    <3>4. \A i \in 1 .. rtn : TailPos + n + i = Len(out) + i
      BY <1>2, <2>3
    <3> QED BY <3>1, <3>3, <3>4
  <2>6. /\ moved' \in 0 .. Size /\ rtn \in 0 .. Size /\ in' = in
        /\ moved' = (IF pc = "second" THEN moved ELSE 0) + rtn
    BY <1>1, <1>2, <2>1, <2>2, <2>3, <2>4
  <2>7. IInv'
    <3>1. rtn \in Nat
      BY <2>4
    <3>2. out' = out \o [i \in 1 .. rtn |-> Len(out) + i]
      BY <2>1, <2>5
    <3> QED BY <1>1, <2>2, <2>4, <2>6, <3>1, <3>2, WriteOutIInv
  <2> QED BY <2>1, <2>4, <2>5, <2>6, <2>7, GetStep
<1> QED BY <1>4, <1>5

LEMMA ReadInSteps ==
  ASSUME IInv, ReadInFirst \/ ReadInSecond
  PROVE  IInv' /\ FifoStep
<1> USE DEF IInv
<1>1. /\ mode = "player" /\ pc \in {"first", "second"}
      /\ UNCHANGED <<m_count, m_head, m_tail, m_writeError, mode, enabled, count, n, loaded, out>>
  BY DEF ReadInFirst, ReadInSecond
<1>2. /\ n \in 0 .. Size /\ count \in 0 .. Size /\ in \in Nat /\ in \in 0 .. MaxBytes
      /\ Len(out) \in Nat /\ m_tail \in Slot /\ m_head \in Slot /\ Size \in Nat
      /\ TailPos = Len(out)
  BY <1>1, SizeAssumption, CountFacts DEF TypeOK
<1>3. Positions
  BY BytesInPlacePositions
<1>4. CASE ReadInFirst
  <2>1. PICK rtn \in Available(n) :
          /\ moved' = rtn
          /\ m_buf' = CopiedIn(m_head, rtn, in + 1)
          /\ in' = in + rtn
          /\ pc' = AfterFirst(rtn)
    BY <1>4 DEF ReadInFirst
  <2>2. pc = "first" /\ HeadPos = in
    BY <1>2, <1>4 DEF ReadInFirst, HeadPos
  <2>3. rtn \in 0 .. n /\ in' \in 0 .. MaxBytes
    BY <1>2, <2>1, Transfers
  <2>4. in' - TailPos <= Size
    BY <1>1, <1>2, <2>1, <2>2, <2>3, TransferFacts
  <2>5. m_head = advance(m_tail, in - TailPos)
    BY <1>3, <2>2 DEF Positions
  <2>6. \/ pc' = "idle" /\ moved' = 0
        \/ pc' = "second" /\ n < count /\ moved' = n
        \/ pc' = "advance"
    BY <2>1 DEF AfterFirst, SecondSegment
  <2>7. moved' = (IF pc = "second" THEN moved ELSE 0) + rtn /\ moved' \in 0 .. Size
    BY <1>2, <2>1, <2>2, <2>3
  <2>8. IInv'
    BY <1>1, <2>1, <2>2, <2>3, <2>4, <2>5, <2>6, <2>7, ReadInIInv
  <2>9. rtn \in 0 .. Size /\ out' = out
    BY <1>1, <1>2, <2>3
  <2> QED BY <1>2, <2>1, <2>8, <2>9, PutStep
<1>5. CASE ReadInSecond
  <2>1. PICK rtn \in Available(count - n) :
          /\ moved' = moved + rtn
          /\ m_buf' = CopiedIn(0, rtn, in + 1)
          /\ in' = in + rtn
    BY <1>5 DEF ReadInSecond
  <2>2. pc = "second" /\ pc' = "advance"
    BY <1>5 DEF ReadInSecond
  <2>3. /\ moved = n /\ count - n \in Nat /\ in - n + count - Len(out) <= Size
        /\ m_head + n = Size /\ HeadPos = in - n
    BY <1>1, <2>2, TransferFacts DEF HeadPos
  <2>4. rtn \in 0 .. count - n /\ in' \in 0 .. MaxBytes
    BY <1>2, <2>1, <2>3, Transfers
  <2>5. in' - TailPos <= Size
    BY <1>2, <2>1, <2>3, <2>4
  <2>6. advance(m_tail, in - TailPos) = 0
    <3>1. advance(m_head, n) = 0
      BY <1>2, <2>3, SizeAssumption DEF advance, Slot
    <3> DEFINE d == HeadPos - TailPos
    <3>2. m_head = advance(m_tail, d) /\ d \in Nat /\ d + n <= Size /\ d + n = in - TailPos
      BY <1>2, <1>3, <2>3 DEF Positions
    <3>3. advance(advance(m_tail, d), n) = advance(m_tail, d + n)
      BY <1>2, <3>2, AdvanceAdds
    <3> QED BY <3>1, <3>2, <3>3
  <2>7. moved' \in 0 .. Size /\ rtn \in 0 .. Size /\ out' = out
    BY <1>1, <1>2, <2>1, <2>3, <2>4
  <2>8. IInv'
    BY <1>1, <2>1, <2>2, <2>4, <2>5, <2>6, <2>7, ReadInIInv
  <2> QED BY <1>2, <2>1, <2>7, <2>8, PutStep
<1> QED BY <1>4, <1>5

LEMMA AdvanceIInv ==
  ASSUME IInv, Advance
  PROVE  IInv' /\ UNCHANGED <<in, out>>
<1> USE DEF IInv
<1>1. /\ UNCHANGED <<m_buf, m_count, m_writeError, mode, enabled, count, n, moved, loaded, in, out>>
      /\ pc = "advance" /\ pc' = "protect"
  BY DEF Advance, locals
<1>2. /\ moved \in 0 .. Size /\ moved \in Nat /\ in \in Nat /\ Len(out) \in Nat /\ Len(out) <= in
      /\ m_tail \in Slot /\ m_head \in Slot /\ Size \in Nat /\ mode \in {"logger", "player"}
  BY SizeAssumption, CountFacts DEF TypeOK, InFlight
<1>3. Positions
  BY BytesInPlacePositions
<1>4. CountAccounts' /\ InFlight'
  BY <1>1 DEF CountAccounts, InFlight, Unadjusted
<1>5. CASE mode = "logger"
  <2>1. m_tail' = advance(m_tail, moved) /\ m_head' = m_head
    BY <1>5 DEF Advance
  <2>2. TailPos = Len(out) - moved /\ TailPos' = Len(out) /\ HeadPos = in /\ HeadPos' = in
    BY <1>1, <1>2, <1>5 DEF TailPos, HeadPos
  <2>3. m_tail' \in Slot
    BY <1>2, <2>1, AdvanceInSlot
  <2>4. InRing(m_buf, m_tail', Len(out), in)
    <3>1. TailPos \in Int /\ TailPos + moved <= in /\ in - TailPos <= Size /\ TailPos + moved = Len(out)
          /\ InRing(m_buf, m_tail, TailPos, in)
      BY <1>2, <1>3, <2>2 DEF Positions
    <3>2. InRing(m_buf, advance(m_tail, moved), TailPos + moved, in)
      BY <1>2, <3>1, Taking
    <3> QED BY <2>1, <3>1, <3>2
  <2>5. m_head = advance(m_tail', in - Len(out))
    <3> DEFINE b == in - Len(out)
    <3>1. b \in Nat /\ moved + b <= Size /\ moved + b = HeadPos - TailPos
      BY <1>2, <1>3, <2>2 DEF Positions
    <3>2. advance(advance(m_tail, moved), b) = advance(m_tail, moved + b)
      BY <1>2, <3>1, AdvanceAdds
    <3> QED BY <1>3, <2>1, <3>1, <3>2 DEF Positions
  <2>6. Positions'
    <3>1. 0 <= in - Len(out) /\ in - Len(out) <= Size
      BY <1>2, <1>3, <2>2 DEF Positions
    <3> QED BY <1>1, <2>1, <2>2, <2>4, <2>5, <3>1 DEF Positions, InRing
  <2>7. TypeOK'
    BY <1>1, <2>1, <2>3 DEF TypeOK, PC
  <2> QED BY <1>1, <1>4, <2>6, <2>7, BytesInPlacePositionsNext
<1>6. CASE mode = "player"
  <2>1. m_head' = advance(m_head, moved) /\ m_tail' = m_tail
    BY <1>6 DEF Advance
  <2>2. TailPos = Len(out) /\ TailPos' = Len(out) /\ HeadPos = in - moved /\ HeadPos' = in
    BY <1>1, <1>2, <1>6 DEF TailPos, HeadPos
  <2>3. m_head' \in Slot
    BY <1>2, <2>1, AdvanceInSlot
  <2>4. m_head' = advance(m_tail, in - Len(out))
    <3> DEFINE d == HeadPos - TailPos
    <3>1. d \in Nat /\ d + moved <= Size /\ d + moved = in - Len(out) /\ m_head = advance(m_tail, d)
      BY <1>2, <1>3, <2>2 DEF Positions
    <3>2. advance(advance(m_tail, d), moved) = advance(m_tail, d + moved)
      BY <1>2, <3>1, AdvanceAdds
    <3> QED BY <2>1, <3>1, <3>2
  <2>5. Positions'
    <3>1. 0 <= in - Len(out) /\ in - Len(out) <= Size
      BY <1>2, <1>3, <2>2 DEF Positions
    <3> QED BY <1>1, <1>3, <2>1, <2>2, <2>4, <3>1 DEF Positions, InRing
  <2>6. TypeOK'
    BY <1>1, <2>1, <2>3 DEF TypeOK, PC
  <2> QED BY <1>1, <1>4, <2>5, <2>6, BytesInPlacePositionsNext
<1> QED BY <1>2, <1>5, <1>6

LEMMA AdjustIInv ==
  ASSUME IInv, AdjustProtect \/ AdjustLoad \/ AdjustStore \/ AdjustUnprotect
  PROVE  IInv' /\ UNCHANGED <<in, out>>
<1> USE DEF IInv
<1>1. /\ UNCHANGED <<m_buf, m_head, m_tail, m_writeError, mode, count, n, moved, in, out>>
      /\ pc \in {"protect", "load", "store", "unprotect"}
      /\ pc' \in {"load", "store", "unprotect", "idle"}
  BY DEF AdjustProtect, AdjustLoad, AdjustStore, AdjustUnprotect, ring, locals
<1>2. BytesInPlace'
  BY <1>1 DEF BytesInPlace, TailPos, HeadPos
<1>3. moved \in Nat /\ in \in Nat /\ Len(out) \in Nat /\ Len(out) <= in /\ in - Len(out) <= Size
  BY SMTT(30), <1>1, CountFacts DEF TypeOK, InFlight, BytesInPlace, TailPos
<1>4. CASE AdjustProtect
  <2>1. pc = "protect" /\ pc' = "load" /\ enabled' = FALSE /\ m_count' = m_count /\ loaded' = loaded
    BY <1>4 DEF AdjustProtect, EnabledDuringAdjust, ring, locals
  <2> QED BY <1>1, <1>2, <2>1 DEF TypeOK, PC, CountAccounts, Unadjusted, InFlight
<1>5. CASE AdjustLoad
  <2>1. pc = "load" /\ pc' = "store" /\ enabled' = enabled /\ m_count' = m_count /\ loaded' = m_count
    BY <1>5 DEF AdjustLoad, ring
  <2> QED BY <1>1, <1>2, <2>1 DEF TypeOK, PC, CountAccounts, Unadjusted, InFlight
<1>6. CASE AdjustStore
  <2>1. /\ pc = "store" /\ pc' = "unprotect" /\ enabled' = enabled /\ loaded' = loaded
        /\ m_count' = Unsigned(IF mode = "logger" THEN m_count - moved ELSE m_count + moved)
    BY <1>6 DEF AdjustStore, locals, InFlight
  <2>2. (IF mode = "logger" THEN m_count - moved ELSE m_count + moved) = in - Len(out)
    BY <1>3, <2>1, CountFacts DEF CountAccounts, Unadjusted
  <2>3. m_count' = in - Len(out) /\ m_count' \in 0 .. Size
    BY <1>3, <2>1, <2>2, UnsignedExact, SizeAssumption
  <2>4. TypeOK'
    BY <1>1, <2>1, <2>3 DEF TypeOK, PC
  <2>5. CountAccounts' /\ InFlight'
    BY <1>1, <1>3, <2>1, <2>3 DEF CountAccounts, Unadjusted, InFlight
  <2> QED BY <1>1, <1>2, <2>4, <2>5
<1>7. CASE AdjustUnprotect
  <2>1. pc = "unprotect" /\ pc' = "idle" /\ enabled' = TRUE /\ m_count' = m_count /\ loaded' = loaded
    BY <1>7 DEF AdjustUnprotect, ring, locals
  <2> QED BY <1>1, <1>2, <2>1 DEF TypeOK, PC, CountAccounts, Unadjusted, InFlight
<1> QED BY <1>4, <1>5, <1>6, <1>7

-----------------------------------------------------------------------------
LEMMA NextIInv ==
  ASSUME IInv, CallerCaps, [Next]_vars
  PROVE  IInv' /\ FifoStep
<1>1. ASSUME NEW c \in 1 .. Size, WriteOutCall(c) \/ ReadInCall(c)
      PROVE  IInv' /\ FifoStep
  BY <1>1, CallIInv DEF FifoStep
<1>2. CASE WriteOutFirst \/ WriteOutSecond
  BY <1>2, WriteOutSteps
<1>3. CASE ReadInFirst \/ ReadInSecond
  BY <1>3, ReadInSteps
<1>4. CASE Advance
  BY <1>4, AdvanceIInv DEF FifoStep
<1>5. CASE AdjustProtect \/ AdjustLoad \/ AdjustStore \/ AdjustUnprotect
  BY <1>5, AdjustIInv DEF FifoStep
<1>6. ASSUME NEW k \in 1 .. MaxChunk, IsrWrite(k)
      PROVE  IInv' /\ FifoStep
  <2>1. IInv'
    BY <1>6, IsrWriteIInv
  <2>2. in \in Nat /\ k \in Nat /\ Size \in Nat /\ m_count \in Nat
    BY SizeAssumption, CountFacts
  <2>3. CASE WriteFits(k)
    <3>1. in' = in + k /\ out' = out
      BY <1>6, <2>3 DEF IsrWrite
    <3>2. k \in 0 .. Size
      BY <2>2, <2>3, CountFacts DEF WriteFits
    <3> QED BY <2>1, <2>2, <3>1, <3>2, PutStep
  <2>4. CASE ~WriteFits(k)
    <3>1. in' = in /\ out' = out
      BY <1>6, <2>4 DEF IsrWrite
    <3> QED BY <2>1, <3>1 DEF FifoStep
  <2> QED BY <2>3, <2>4
<1>7. ASSUME NEW k \in 1 .. MaxChunk, IsrReadType(k) \/ IsrReadBuf(k)
      PROVE  IInv' /\ FifoStep
  <2>1. PICK j \in 1 .. Size : j <= m_count /\ IsrTake(j) /\ mode = "player" /\ enabled
    BY <1>7, IsrReads
  <2>2. IInv' /\ out' = out \o [i \in 1 .. j |-> Len(out) + i] /\ Len(out) + j <= in
    <3>1. j \in Nat
      BY SizeAssumption
    <3> QED BY <2>1, <3>1, IsrTakeIInv
  <2>3. in' = in /\ j \in 0 .. Size
    BY <2>1, SizeAssumption DEF IsrTake
  <2> QED BY <2>2, <2>3, GetStep
<1>8. CASE UNCHANGED vars
  <2>1. UNCHANGED <<m_buf, m_count, m_head, m_tail, m_writeError, mode, enabled, pc, count, n,
                    moved, loaded, in, out>>
    BY <1>8 DEF vars, ring, locals
  <2>2. TypeOK' /\ CountAccounts' /\ InFlight'
    BY <2>1 DEF IInv, TypeOK, CountAccounts, Unadjusted, InFlight
  <2>3. BytesInPlace'
    BY <2>1 DEF IInv, BytesInPlace, TailPos, HeadPos
  <2> QED BY <2>1, <2>2, <2>3 DEF IInv, FifoStep
<1> QED BY <1>1, <1>2, <1>3, <1>4, <1>5, <1>6, <1>7, <1>8 DEF Next, Main, Isr

(* The count, the indices and the bytes between them stay right through    *)
(* every interleaving of writeOut or readIn with the interrupt handler.    *)
THEOREM RingCorrect ==
  ASSUME CallerCaps
  PROVE  Spec => [](TypeOK /\ CountAccounts /\ BytesInPlace)
<1>1. Init => IInv
  BY InitIInv
<1>2. IInv /\ [Next]_vars => IInv'
  BY NextIInv
<1>3. IInv => TypeOK /\ CountAccounts /\ BytesInPlace
  BY DEF IInv
<1> QED BY <1>1, <1>2, <1>3, PTL DEF Spec

(* RingBuf implements a bounded FIFO: what the consumer receives is what   *)
(* the producer handed over, in order, and never more than Size behind.    *)
THEOREM ImplementsFifo ==
  ASSUME CallerCaps
  PROVE  Spec => FifoSpec
<1>1. Init => IInv
  BY InitIInv
<1>2. IInv /\ [Next]_vars => IInv'
  BY NextIInv
<1>3. Init => Fifo!Init
  BY DEF Init, Fifo!Init
<1>4. IInv /\ [Next]_vars => [Fifo!Next]_<<in, out>>
  BY NextIInv DEF FifoStep
<1> QED BY <1>1, <1>2, <1>3, <1>4, PTL DEF Spec, FifoSpec, Fifo!Spec

(* The variables keep their types: the indices stay inside the buffer.      *)
COROLLARY RingTyped ==
  ASSUME CallerCaps
  PROVE  Spec => []TypeOK
<1> QED BY RingCorrect, PTL

(* m_count is what was put less what was taken, although the handler and    *)
(* the main program both change it (adjustCount, memcpyOut, ...).           *)
COROLLARY CountCorrect ==
  ASSUME CallerCaps
  PROVE  Spec => []CountAccounts
<1> QED BY RingCorrect, PTL

-----------------------------------------------------------------------------
(* Sequences of bytes. *)
LEMMA LenInt ==
  ASSUME NEW s \in Seq(Int)
  PROVE  Len(s) \in Nat /\ DOMAIN s = 1 .. Len(s) /\ \A i \in 1 .. Len(s) : s[i] \in Int
<1> QED BY LenProperties, ElementOfSeq

LEMMA EmptyInt == <<>> \in Seq(Int) /\ Len(<<>>) = 0
<1> QED BY EmptySeq

LEMMA ConcatInt ==
  ASSUME NEW s \in Seq(Int), NEW t \in Seq(Int)
  PROVE  /\ s \o t \in Seq(Int) /\ Len(s \o t) = Len(s) + Len(t)
         /\ \A i \in 1 .. Len(s) + Len(t) :
              (s \o t)[i] = IF i <= Len(s) THEN s[i] ELSE t[i - Len(s)]
<1> QED BY ConcatProperties

LEMMA EqualInt ==
  ASSUME NEW s \in Seq(Int), NEW t \in Seq(Int), Len(s) = Len(t),
         \A i \in 1 .. Len(s) : s[i] = t[i]
  PROVE  s = t
<1> QED BY SeqEqual

(* A sequence without elements is the empty one.                           *)
LEMMA EmptyIs ==
  ASSUME NEW s \in Seq(Int)
  PROVE  s = <<>> <=> Len(s) = 0
<1> QED BY EmptySeq

(* The bytes from behind position a up to b. *)
LEMMA PartInt ==
  ASSUME NEW s \in Seq(Int), NEW a \in Nat, NEW b \in 0 .. Len(s), a <= b
  PROVE  /\ SubSeq(s, a + 1, b) \in Seq(Int) /\ Len(SubSeq(s, a + 1, b)) = b - a
         /\ \A i \in 1 .. b - a : SubSeq(s, a + 1, b)[i] = s[a + i]
<1> DEFINE t == SubSeq(s, a + 1, b)
<1>0. Len(s) \in Nat /\ \A i \in 1 .. Len(s) : s[i] \in Int
  BY LenInt
<1>1. a + 1 \in Int /\ b \in Int /\ \A i \in a + 1 .. b : s[i] \in Int
  BY <1>0
<1>2. /\ t \in Seq(Int) /\ Len(t) = IF a + 1 <= b THEN b - (a + 1) + 1 ELSE 0
      /\ \A i \in 1 .. b - (a + 1) + 1 : t[i] = s[a + 1 + i - 1]
  BY <1>1, SubSeqProperties, SMTT(30)
<1>3. b - (a + 1) + 1 = b - a /\ (IF a + 1 <= b THEN b - (a + 1) + 1 ELSE 0) = b - a
  BY <1>0
<1>4. \A i \in 1 .. b - a : a + 1 + i - 1 = a + i
  OBVIOUS
<1> HIDE DEF t
<1>5. t \in Seq(Int) /\ Len(t) = b - a
  BY <1>2, <1>3, Zenon
<1>6. ASSUME NEW i \in 1 .. b - a
      PROVE  t[i] = s[a + i]
  BY <1>2, <1>3, <1>4, Zenon
<1> QED BY <1>5, <1>6 DEF t

(* The first k bytes of a sequence.                                        *)
LEMMA PrefixInt ==
  ASSUME NEW s \in Seq(Int), NEW k \in 0 .. Len(s)
  PROVE  /\ SubSeq(s, 1, k) \in Seq(Int) /\ Len(SubSeq(s, 1, k)) = k
         /\ \A i \in 1 .. k : SubSeq(s, 1, k)[i] = s[i]
<1>1. 0 \in Nat /\ 0 <= k /\ 0 + 1 = 1 /\ k - 0 = k /\ \A i \in 1 .. k : 0 + i = i
  BY LenInt
<1>2. /\ SubSeq(s, 0 + 1, k) \in Seq(Int) /\ Len(SubSeq(s, 0 + 1, k)) = k - 0
      /\ \A i \in 1 .. k - 0 : SubSeq(s, 0 + 1, k)[i] = s[0 + i]
  BY <1>1, PartInt
<1> QED BY <1>1, <1>2

(* A part whose bounds are the wrong way round. *)
LEMMA NoPart ==
  ASSUME NEW s \in Seq(Int), NEW a \in Int, NEW b \in Int, b < a
  PROVE  SubSeq(s, a, b) = <<>>
<1>1. /\ SubSeq(s, a, b) \in Seq(Int) /\ Len(SubSeq(s, a, b)) = IF a <= b THEN b - a + 1 ELSE 0
  BY SubSeqProperties
<1>2. Len(SubSeq(s, a, b)) = 0
  BY <1>1
<1> QED BY <1>1, <1>2, EmptyIs

(* Bytes written over those of a file, or behind them. *)
LEMMA OverwrittenIs ==
  ASSUME NEW f \in Seq(Int), NEW from \in 0 .. Len(f), NEW b \in Seq(Int)
  PROVE  LET o == S!Overwritten(f, from, b) IN
         /\ o \in Seq(Int)
         /\ Len(o) = IF from + Len(b) > Len(f) THEN from + Len(b) ELSE Len(f)
         /\ \A i \in 1 .. Len(o) :
              o[i] = IF from < i /\ i <= from + Len(b) THEN b[i - from] ELSE f[i]
<1> DEFINE x == SubSeq(f, 1, from)
           z == SubSeq(f, from + Len(b) + 1, Len(f))
           L == Len(f)
           B == Len(b)
           rest == IF from + B > L THEN 0 ELSE L - (from + B)
<1>1. L \in Nat /\ B \in Nat /\ from \in Nat /\ from <= L
  BY LenInt
<1>2. x \in Seq(Int) /\ Len(x) = from /\ \A i \in 1 .. from : x[i] = f[i]
  BY PrefixInt
<1>3. /\ z \in Seq(Int) /\ Len(z) = rest /\ \A i \in 1 .. rest : z[i] = f[from + B + i]
  <2>1. CASE from + B > L
    <3>1. z = <<>>
      BY <1>1, <2>1, NoPart
    <3> QED BY <3>1, <2>1, EmptyInt
  <2>2. CASE from + B <= L
    <3>1. from + B \in Nat /\ L \in 0 .. L /\ rest = L - (from + B)
      BY <1>1, <2>2
    <3> HIDE DEF rest
    <3> QED BY <3>1, <2>2, PartInt
  <2> QED BY <1>1, <2>1, <2>2
<1> DEFINE y == x \o b
           o == y \o z
<1>4. rest \in Nat /\ from + B + rest = IF from + B > L THEN from + B ELSE L
  <2> HIDE DEF L, B
  <2>1. CASE from + B > L
    BY <1>1, <2>1
  <2>2. CASE from + B <= L
    <3>1. rest = L - (from + B)
      BY <1>1, <2>2
    <3> HIDE DEF rest
    <3> QED BY <1>1, <2>2, <3>1
  <2> QED BY <1>1, <2>1, <2>2
<1> HIDE DEF x, z, rest
<1>5. y \in Seq(Int) /\ Len(y) = from + B
      /\ \A i \in 1 .. from + B : y[i] = IF i <= from THEN x[i] ELSE b[i - from]
  BY <1>2, ConcatInt
<1> HIDE DEF y
<1>7. o \in Seq(Int) /\ Len(o) = from + B + rest
      /\ \A i \in 1 .. from + B + rest : o[i] = IF i <= from + B THEN y[i] ELSE z[i - (from + B)]
  <2>1. o \in Seq(Int) /\ Len(o) = Len(y) + Len(z)
        /\ \A i \in 1 .. Len(y) + Len(z) : o[i] = IF i <= Len(y) THEN y[i] ELSE z[i - Len(y)]
    BY <1>3, <1>5, ConcatInt
  <2>2. Len(y) = from + B /\ Len(z) = rest
    BY <1>3, <1>5
  <2> QED BY <2>1, <2>2, Zenon
<1> HIDE DEF o
<1>8. Len(o) = IF from + B > L THEN from + B ELSE L
  BY <1>4, <1>7
<1>9. ASSUME NEW i \in 1 .. from + B + rest
      PROVE  o[i] = IF from < i /\ i <= from + B THEN b[i - from] ELSE f[i]
  <2>0. i \in Nat /\ i >= 1
    BY <1>1
  <2>1. CASE i <= from
    <3>1. i \in 1 .. from /\ i \in 1 .. from + B /\ i <= from + B /\ ~(from < i)
      BY <1>1, <2>0, <2>1
    <3>2. o[i] = y[i]
      BY <1>7, <1>9, <3>1
    <3>3. y[i] = x[i]
      BY <1>5, <2>1, <3>1
    <3>4. x[i] = f[i]
      BY <1>2, <3>1
    <3> QED BY <3>1, <3>2, <3>3, <3>4
  <2>2. CASE from < i /\ i <= from + B
    <3>1. i \in 1 .. from + B /\ ~(i <= from)
      BY <1>1, <2>0, <2>2
    <3>2. o[i] = y[i]
      BY <1>7, <1>9, <2>2
    <3>3. y[i] = b[i - from]
      BY <1>5, <3>1
    <3> QED BY <2>2, <3>2, <3>3
  <2>3. CASE i > from + B
    <3>1. i - (from + B) \in 1 .. rest /\ ~(i <= from + B) /\ from + B + (i - (from + B)) = i
      BY <1>1, <1>4, <2>3
    <3>2. o[i] = z[i - (from + B)]
      BY <1>7, <1>9, <3>1
    <3>3. z[i - (from + B)] = f[from + B + (i - (from + B))]
      BY <1>3, <3>1
    <3> QED BY <3>1, <3>2, <3>3
  <2> QED BY <1>1, <2>0, <2>1, <2>2, <2>3
<1>10. S!Overwritten(f, from, b) = o
  BY DEF S!Overwritten, o, y, x, z
<1>11. \A i \in 1 .. Len(o) : o[i] = IF from < i /\ i <= from + B THEN b[i - from] ELSE f[i]
  BY <1>7, <1>9
<1> QED BY <1>7, <1>8, <1>10, <1>11

(* Nothing is overwritten by nothing.                                      *)
LEMMA OverwrittenNot ==
  ASSUME NEW f \in Seq(Int), NEW from \in 0 .. Len(f)
  PROVE  S!Overwritten(f, from, <<>>) = f
<1> DEFINE o == S!Overwritten(f, from, <<>>)
<1>1. Len(f) \in Nat /\ <<>> \in Seq(Int) /\ Len(<<>>) = 0
  BY LenInt, EmptyInt
<1>2. /\ o \in Seq(Int)
      /\ Len(o) = IF from + 0 > Len(f) THEN from + 0 ELSE Len(f)
      /\ \A i \in 1 .. Len(o) : o[i] = IF from < i /\ i <= from + 0 THEN <<>>[i - from] ELSE f[i]
  BY <1>1, OverwrittenIs
<1> HIDE DEF o
<1>3. Len(o) = Len(f) /\ \A i \in 1 .. Len(o) : o[i] = f[i]
  BY <1>1, <1>2
<1>4. o = f
  BY <1>2, <1>3, EqualInt
<1> QED BY <1>4 DEF o

(* Two writes, one behind the other, are one. *)
LEMMA OverwrittenTwice ==
  ASSUME NEW f \in Seq(Int), NEW from \in 0 .. Len(f), NEW a \in Seq(Int), NEW b \in Seq(Int)
  PROVE  /\ from + Len(a) \in 0 .. Len(S!Overwritten(f, from, a))
         /\ S!Overwritten(S!Overwritten(f, from, a), from + Len(a), b) =
              S!Overwritten(f, from, a \o b)
<1> DEFINE g == S!Overwritten(f, from, a)
           ab == a \o b
           x == S!Overwritten(g, from + Len(a), b)
           y == S!Overwritten(f, from, ab)
           L == Len(f)
           A == Len(a)
           B == Len(b)
<1>1. L \in Nat /\ A \in Nat /\ B \in Nat /\ from \in Nat /\ from <= L
  BY LenInt
<1>2. /\ g \in Seq(Int) /\ Len(g) = IF from + A > L THEN from + A ELSE L
      /\ \A i \in 1 .. Len(g) : g[i] = IF from < i /\ i <= from + A THEN a[i - from] ELSE f[i]
  BY OverwrittenIs
<1>3. /\ ab \in Seq(Int) /\ Len(ab) = A + B
      /\ \A i \in 1 .. A + B : ab[i] = IF i <= A THEN a[i] ELSE b[i - A]
  BY ConcatInt
<1> HIDE DEF g, ab
<1>4. from + A \in 0 .. Len(g)
  BY <1>1, <1>2
<1>5. /\ x \in Seq(Int) /\ Len(x) = IF from + A + B > Len(g) THEN from + A + B ELSE Len(g)
      /\ \A i \in 1 .. Len(x) :
           x[i] = IF from + A < i /\ i <= from + A + B THEN b[i - (from + A)] ELSE g[i]
  BY <1>2, <1>4, OverwrittenIs
<1>6. /\ y \in Seq(Int) /\ Len(y) = IF from + (A + B) > L THEN from + (A + B) ELSE L
      /\ \A i \in 1 .. Len(y) :
           y[i] = IF from < i /\ i <= from + (A + B) THEN ab[i - from] ELSE f[i]
  <2>1. /\ y \in Seq(Int) /\ Len(y) = IF from + Len(ab) > L THEN from + Len(ab) ELSE L
        /\ \A i \in 1 .. Len(y) :
             y[i] = IF from < i /\ i <= from + Len(ab) THEN ab[i - from] ELSE f[i]
    BY <1>3, OverwrittenIs
  <2>2. Len(ab) = A + B
    BY <1>3
  <2> QED BY <2>1, <2>2, Zenon
<1> HIDE DEF x, y
<1>0. /\ Len(g) = (IF from + A > L THEN from + A ELSE L)
      /\ Len(x) = (IF from + A + B > Len(g) THEN from + A + B ELSE Len(g))
      /\ Len(y) = (IF from + (A + B) > L THEN from + (A + B) ELSE L)
  BY <1>2, <1>5, <1>6, Zenon
<1> HIDE DEF L, A, B
<1>7. Len(x) = Len(y) /\ Len(x) \in Nat /\ Len(g) <= Len(x) /\ Len(g) \in Nat
  <2>1. CASE from + A > L
    BY <1>0, <1>1, <2>1
  <2>2. CASE from + A <= L
    BY <1>0, <1>1, <2>2
  <2> QED BY <1>1, <2>1, <2>2
<1>8. ASSUME NEW i \in 1 .. Len(x)
      PROVE  x[i] = y[i]
  <2>0. i \in Nat /\ i >= 1 /\ i \in 1 .. Len(y) /\ i <= Len(y)
    BY <1>7
  <2>1. CASE i <= from
    <3>1. i \in 1 .. Len(g) /\ ~(from + A < i) /\ ~(from < i)
      BY <1>0, <1>1, <2>0, <2>1
    <3>2. x[i] = g[i]
      BY <1>5, <3>1
    <3>3. g[i] = f[i]
      BY <1>2, <3>1
    <3>4. y[i] = f[i]
      BY <1>6, <2>0, <3>1
    <3> QED BY <3>2, <3>3, <3>4
  <2>2. CASE from < i /\ i <= from + A
    <3>1. i \in 1 .. Len(g) /\ ~(from + A < i) /\ i <= from + (A + B) /\ i - from \in 1 .. A + B
          /\ i - from <= A
      BY <1>0, <1>1, <2>0, <2>2
    <3>2. x[i] = g[i]
      BY <1>5, <3>1
    <3>3. g[i] = a[i - from]
      BY <1>2, <2>2, <3>1
    <3>4. y[i] = ab[i - from]
      BY <1>6, <2>0, <2>2, <3>1
    <3>5. ab[i - from] = a[i - from]
      BY <1>3, <3>1
    <3> QED BY <3>2, <3>3, <3>4, <3>5
  <2>3. CASE from + A < i /\ i <= from + A + B
    <3>1. from < i /\ i <= from + (A + B) /\ i - from \in 1 .. A + B /\ ~(i - from <= A)
          /\ i - from - A = i - (from + A)
      BY <1>1, <2>0, <2>3
    <3>2. x[i] = b[i - (from + A)]
      BY <1>5, <2>3
    <3>3. y[i] = ab[i - from]
      BY <1>6, <2>0, <3>1
    <3>4. ab[i - from] = b[i - from - A]
      BY <1>3, <3>1
    <3> QED BY <3>1, <3>2, <3>3, <3>4
  <2>4. CASE i > from + A + B
    <3>1. i \in 1 .. Len(g) /\ ~(i <= from + A + B) /\ ~(i <= from + (A + B)) /\ ~(i <= from + A)
      BY <1>0, <1>1, <2>0, <2>4, <1>7
    <3>2. x[i] = g[i]
      BY <1>5, <3>1
    <3>3. g[i] = f[i]
      BY <1>2, <3>1
    <3>4. y[i] = f[i]
      BY <1>6, <2>0, <3>1
    <3> QED BY <3>2, <3>3, <3>4
  <2> QED BY <1>1, <2>0, <2>1, <2>2, <2>3, <2>4
<1>9. x = y
  BY <1>5, <1>6, <1>7, <1>8, EqualInt
<1> QED BY <1>4, <1>9 DEF x, y, g, ab, A

(* A file of bytes that a program may have.                                *)
Bytes(f) ==
  /\ f \in Seq(Int) /\ Len(f) <= MaxSize
  /\ \A i \in 1 .. Len(f) : f[i] \in {S!Original(i), S!Stored(i)}
Statuses == {{}, {"SRD"}, {"SWR"}, {"SRW"}, {"SRD", "SRW"}, {"SWR", "SRW"}}
Streams ==
  [m_status : Statuses, append : BOOLEAN, m_r : 0 .. Uint8 - 1, m_w : 0 .. Uint8 - 1,
   m_p : 0 .. BufSize, m_buf : Seq(Int), curPosition : Nat, file : Seq(Int)]
(* The type of a stream.                                                   *)
Typed(s) ==
  /\ s \in Streams /\ Len(s.m_buf) <= BufSize
  /\ Bytes(s.file) /\ s.curPosition <= Len(s.file)
(* A stream with S_SRD or S_SRW that has read ahead, or nothing yet: kn    *)
(* are the bytes of the file and pos is the next of them.                  *)
Reader(s, kn, pos) ==
  /\ Typed(s) /\ s.file = kn /\ s.m_w = 0
  /\ s.m_r <= s.curPosition /\ s.m_p + s.m_r <= BufSize
  /\ pos = s.curPosition - s.m_r /\ s.m_buf = SubSeq(kn, pos + 1, s.curPosition)
(* A stream with S_SWR: file and buffer together are kn.                   *)
Unwritten(s, kn, pos) ==
  /\ Typed(s) /\ S!Has(s, "SWR") /\ Bytes(kn) /\ S!View(s) = kn
  /\ s.m_r = 0 /\ s.m_p = Len(s.m_buf)
  /\ ~s.append => pos = s.curPosition + s.m_p
(* The same between two calls: m_w counts what is left of the buffer, or   *)
(* is 0 if there is none yet.                                              *)
Writer(s, kn, pos) ==
  /\ Unwritten(s, kn, pos)
  /\ s.m_p + s.m_w = BufSize \/ (s.m_p = 0 /\ s.m_w = 0)
(* Where the file takes the next bytes, and where it stands after          *)
(* flushBuf().                                                             *)
From(s) == IF s.append THEN Len(s.file) ELSE s.curPosition
NextPos(s) == IF S!Has(s, "SWR") THEN From(s) + Len(s.m_buf) ELSE s.curPosition
(* A stream that appends takes its bytes to the end of the file.           *)
AtEnd(s, kn, pos) == s.append => pos = IF s.m_p > 0 THEN Len(kn) ELSE s.curPosition
(* Calls that run in several steps.                                        *)
Calls == {S!NoCall} \cup [name : {"fread", "fgets", "write"}, todo : Nat \ {0}]
InRead(c) == c.name \in {"fread", "fgets"}
(* A stream s that has not failed, in call c, with what the program knows. *)
Good(s, c, kn, pos, la) ==
  /\ Typed(s) /\ c \in Calls /\ la \in {"seek", "read", "unget", "write"}
  /\ s.m_status = {} => s.m_buf = <<>> /\ s.file = kn /\ c = S!NoCall
  /\ s.m_status # {} /\ ~S!Has(s, "SWR") => Reader(s, kn, pos)
  /\ S!Has(s, "SWR") => Writer(s, kn, pos) /\ (c.name # "write" => AtEnd(s, kn, pos))
  /\ InRead(c) => /\ S!Reads(s) /\ la # "write"
                  /\ s.append /\ S!Has(s, "SWR") => pos = Len(kn)
  /\ c.name = "write" => S!Writes(s) /\ la = "write"
  /\ la \in {"seek", "write"} /\ ~InRead(c) => s.m_r = 0
  /\ la \in {"read", "unget"} => ~S!Has(s, "SWR")
  /\ la = "read" => s.m_p > 0
(* The inductive invariant: after a failure only that no byte is left to   *)
(* be written twice.                                                       *)
StreamInv ==
  /\ Typed(stream) /\ wrong = FALSE /\ failed \in BOOLEAN
  /\ failed => call = S!NoCall /\ (S!Has(stream, "SWR") => stream.m_buf = <<>>)
  /\ ~failed => Good(stream, call, known, position, last)

-----------------------------------------------------------------------------
(* What is assumed of the sizes.                                           *)
LEMMA Sizes ==
  ASSUME S!StreamAssumption
  PROVE  /\ BufSize \in Nat /\ UngetSize \in Nat /\ Uint8 \in Nat /\ MaxSize \in Nat
         /\ 1 <= UngetSize /\ UngetSize + 1 < BufSize /\ BufSize < Uint8
<1> QED BY DEF S!StreamAssumption

(* The types of the members of a stream.                                   *)
LEMMA TypedFields ==
  ASSUME S!StreamAssumption, NEW s, Typed(s)
  PROVE  /\ s.m_status \in Statuses /\ s.append \in BOOLEAN
         /\ s.m_r \in 0 .. Uint8 - 1 /\ s.m_w \in 0 .. Uint8 - 1 /\ s.m_p \in 0 .. BufSize
         /\ s.m_buf \in Seq(Int) /\ Len(s.m_buf) \in 0 .. BufSize
         /\ s.curPosition \in 0 .. Len(s.file)
         /\ s.file \in Seq(Int) /\ Len(s.file) \in Nat /\ Len(s.file) <= MaxSize
         /\ From(s) \in 0 .. Len(s.file)
<1>1. /\ s.m_status \in Statuses /\ s.append \in BOOLEAN
      /\ s.m_r \in 0 .. Uint8 - 1 /\ s.m_w \in 0 .. Uint8 - 1 /\ s.m_p \in 0 .. BufSize
      /\ s.m_buf \in Seq(Int) /\ s.curPosition \in Nat /\ s.file \in Seq(Int)
  BY DEF Typed, Streams
<1>2. Len(s.m_buf) \in Nat /\ Len(s.file) \in Nat
  BY <1>1, LenInt
<1>3. Len(s.m_buf) <= BufSize /\ Len(s.file) <= MaxSize /\ s.curPosition <= Len(s.file)
  BY DEF Typed, Bytes
<1>4. BufSize \in Nat /\ MaxSize \in Nat
  BY Sizes
<1>5. s.curPosition \in 0 .. Len(s.file) /\ Len(s.m_buf) \in 0 .. BufSize
      /\ Len(s.file) \in 0 .. Len(s.file)
  BY <1>1, <1>2, <1>3, <1>4
<1>6. From(s) \in 0 .. Len(s.file)
  BY <1>5 DEF From
<1> QED BY <1>1, <1>2, <1>3, <1>5, <1>6

(* The stream after the file took the first j bytes.                       *)
Wrote(s, bytes, j) ==
  [s EXCEPT !.file = S!Overwritten(@, From(s), SubSeq(bytes, 1, j)), !.curPosition = From(s) + j]

(* The file takes all of the bytes, or reports an error after the first j. *)
LEMMA FileWriteCases ==
  ASSUME NEW s, NEW bytes, Len(bytes) \in Nat, NEW r \in S!FileWrite(s, bytes)
  PROVE  \E j \in 0 .. Len(bytes) :
           /\ r.s = Wrote(s, bytes, j)
           /\ r.what = (IF j = Len(bytes) THEN "done" ELSE "error")
<1> DEFINE L == Len(bytes)
<1>1. \/ r = S!Outcome("done", Wrote(s, bytes, L))
      \/ \E j \in 0 .. L - 1 : r = S!Outcome("error", Wrote(s, bytes, j))
  BY DEF S!FileWrite, From, Wrote
<1>2. CASE r = S!Outcome("done", Wrote(s, bytes, L))
  <2>1. L \in 0 .. L /\ r.s = Wrote(s, bytes, L) /\ r.what = "done"
    BY <1>2 DEF S!Outcome
  <2> QED BY <2>1
<1>3. ASSUME NEW j \in 0 .. L - 1, r = S!Outcome("error", Wrote(s, bytes, j))
      PROVE  j \in 0 .. L /\ j # L /\ r.s = Wrote(s, bytes, j) /\ r.what = "error"
  BY <1>3 DEF S!Outcome
<1> QED BY <1>1, <1>2, <1>3

(* The first bytes of those that complete a file. *)
LEMMA PartWritten ==
  ASSUME NEW f, Bytes(f), NEW from \in 0 .. Len(f), NEW b \in Seq(Int), NEW j \in 0 .. Len(b),
         Bytes(S!Overwritten(f, from, b)), MaxSize \in Nat
  PROVE  /\ Bytes(S!Overwritten(f, from, SubSeq(b, 1, j)))
         /\ from + j \in 0 .. Len(S!Overwritten(f, from, SubSeq(b, 1, j)))
<1> DEFINE p == SubSeq(b, 1, j)
           g == S!Overwritten(f, from, b)
           h == S!Overwritten(f, from, p)
           L == Len(f)
           B == Len(b)
<1>1. L \in Nat /\ B \in Nat /\ from \in Nat /\ from <= L /\ j <= B /\ j \in Nat /\ f \in Seq(Int)
  BY LenInt DEF Bytes
<1>2. p \in Seq(Int) /\ Len(p) = j /\ \A i \in 1 .. j : p[i] = b[i]
  BY PrefixInt
<1>3. /\ g \in Seq(Int) /\ Len(g) = (IF from + B > L THEN from + B ELSE L)
      /\ \A i \in 1 .. Len(g) : g[i] = IF from < i /\ i <= from + B THEN b[i - from] ELSE f[i]
  BY <1>1, OverwrittenIs
<1> HIDE DEF p
<1>4. /\ h \in Seq(Int) /\ Len(h) = (IF from + j > L THEN from + j ELSE L)
      /\ \A i \in 1 .. Len(h) : h[i] = IF from < i /\ i <= from + j THEN p[i - from] ELSE f[i]
  <2>1. /\ h \in Seq(Int) /\ Len(h) = (IF from + Len(p) > L THEN from + Len(p) ELSE L)
        /\ \A i \in 1 .. Len(h) :
             h[i] = IF from < i /\ i <= from + Len(p) THEN p[i - from] ELSE f[i]
    BY <1>1, <1>2, OverwrittenIs
  <2> QED BY <1>2, <2>1, Zenon
<1>5. Len(g) <= MaxSize /\ \A i \in 1 .. Len(g) : g[i] \in {S!Original(i), S!Stored(i)}
  BY DEF Bytes
<1>6. \A i \in 1 .. L : f[i] \in {S!Original(i), S!Stored(i)}
  BY DEF Bytes
<1> HIDE DEF g, h, L, B
<1>7. Len(h) \in Nat /\ L <= Len(h) /\ from + j <= Len(h)
  BY <1>1, <1>4
<1>8. Len(h) <= Len(g) /\ Len(g) \in Nat
  BY <1>1, <1>3, <1>4
<1>9. ASSUME NEW i \in 1 .. Len(h)
      PROVE  h[i] \in {S!Original(i), S!Stored(i)}
  <2>1. CASE from < i /\ i <= from + j
    <3>1. i - from \in 1 .. j /\ i <= from + B /\ i \in 1 .. Len(g)
      BY <1>1, <1>7, <1>8, <2>1
    <3>2. h[i] = p[i - from]
      BY <1>4, <2>1
    <3>3. p[i - from] = b[i - from]
      BY <1>2, <3>1
    <3>4. g[i] = b[i - from]
      BY <1>3, <2>1, <3>1
    <3>5. g[i] \in {S!Original(i), S!Stored(i)}
      BY <1>5, <3>1
    <3> QED BY <3>2, <3>3, <3>4, <3>5
  <2>2. CASE ~(from < i /\ i <= from + j)
    <3>1. h[i] = f[i]
      BY <1>4, <2>2
    <3>2. i \in 1 .. L
      BY <1>1, <1>4, <1>7, <2>2
    <3> QED BY <1>6, <3>1, <3>2
  <2> QED BY <2>1, <2>2
<1>10. Len(h) <= MaxSize
  BY <1>5, <1>7, <1>8
<1>11. from + j \in 0 .. Len(h)
  BY <1>1, <1>7
<1>12. Bytes(h)
  BY <1>4, <1>9, <1>10 DEF Bytes
<1> QED BY <1>11, <1>12 DEF h, p

(* flushBuf() of a stream with bytes to write. *)
LEMMA Flushed ==
  ASSUME S!StreamAssumption, NEW s, NEW kn, Typed(s), S!Has(s, "SWR"), Bytes(kn), S!View(s) = kn,
         NEW r \in S!flushBuf(s)
  PROVE  /\ Typed(r.s) /\ r.what \in {"done", "error"}
         /\ r.s.m_status = s.m_status /\ r.s.append = s.append /\ r.s.m_r = s.m_r
         /\ r.s.m_w = BufSize /\ r.s.m_p = 0 /\ r.s.m_buf = <<>>
         /\ r.what = "done" => r.s.file = kn /\ r.s.curPosition = NextPos(s)
<1> DEFINE e == [s EXCEPT !.m_p = 0, !.m_w = BufSize, !.m_buf = <<>>]
<1>1. /\ BufSize \in Nat /\ BufSize \in 0 .. Uint8 - 1 /\ 0 \in 0 .. BufSize
      /\ <<>> \in Seq(Int) /\ Len(<<>>) = 0 /\ MaxSize \in Nat
  BY Sizes, EmptyInt
<1>2. s \in Streams /\ Bytes(s.file)
  BY DEF Typed
<1>3. /\ s.m_status \in Statuses /\ s.m_r \in 0 .. Uint8 - 1 /\ s.m_buf \in Seq(Int)
      /\ Len(s.m_buf) \in Nat /\ From(s) \in 0 .. Len(s.file) /\ s.file \in Seq(Int)
  BY TypedFields, <1>1
<1>4. /\ e \in Streams /\ e.m_status = s.m_status /\ e.append = s.append /\ e.m_r = s.m_r
      /\ e.m_w = BufSize /\ e.m_p = 0 /\ e.m_buf = <<>> /\ e.curPosition = s.curPosition
      /\ e.file = s.file
  BY <1>1, <1>2 DEF Streams
<1>5. r \in S!FileWrite(e, s.m_buf)
  BY DEF S!flushBuf
<1> HIDE DEF e
<1>6. From(e) = From(s)
  BY <1>4 DEF From
<1>7. PICK j \in 0 .. Len(s.m_buf) :
        /\ r.s = Wrote(e, s.m_buf, j)
        /\ r.what = (IF j = Len(s.m_buf) THEN "done" ELSE "error")
  BY <1>3, <1>5, FileWriteCases
<1> DEFINE g == S!Overwritten(s.file, From(s), SubSeq(s.m_buf, 1, j))
           c == From(s) + j
<1>9. kn = S!Overwritten(s.file, From(s), s.m_buf)
  BY DEF S!View, S!Pending, From
<1>10. Bytes(g) /\ c \in 0 .. Len(g) /\ g \in Seq(Int) /\ c \in Nat /\ c <= Len(g)
  <2>1. Bytes(g) /\ c \in 0 .. Len(g)
    BY <1>1, <1>2, <1>3, <1>9, PartWritten
  <2> HIDE DEF g, c
  <2>2. g \in Seq(Int) /\ Len(g) \in Nat
    BY <2>1, LenInt DEF Bytes
  <2> QED BY <2>1, <2>2
<1>11. ASSUME j = Len(s.m_buf)
       PROVE  g = kn /\ c = NextPos(s)
  <2>1. SubSeq(s.m_buf, 1, j) = s.m_buf
    <3> DEFINE p == SubSeq(s.m_buf, 1, j)
    <3>1. p \in Seq(Int) /\ Len(p) = j /\ \A i \in 1 .. j : p[i] = s.m_buf[i]
      BY <1>3, PrefixInt
    <3> HIDE DEF p
    <3>2. p = s.m_buf
      BY <1>3, <1>11, <3>1, EqualInt
    <3> QED BY <3>2 DEF p
  <2>2. g = kn
    BY <1>9, <2>1
  <2>3. c = NextPos(s)
    BY <1>11 DEF NextPos
  <2> QED BY <2>2, <2>3
<1>12. r.s = [e EXCEPT !.file = g, !.curPosition = c]
  BY <1>4, <1>6, <1>7 DEF Wrote
<1> HIDE DEF g, c
<1>13. /\ r.s \in Streams /\ r.s.m_status = s.m_status /\ r.s.append = s.append
       /\ r.s.m_r = s.m_r /\ r.s.m_w = BufSize /\ r.s.m_p = 0 /\ r.s.m_buf = <<>>
       /\ r.s.curPosition = c /\ r.s.file = g
  BY <1>4, <1>10, <1>12 DEF Streams
<1>14. Typed(r.s)
  BY <1>1, <1>10, <1>13 DEF Typed
<1>15. r.what = "done" => j = Len(s.m_buf)
  BY <1>7
<1>16. r.what \in {"done", "error"}
  BY <1>7
<1>17. r.what = "done" => r.s.file = kn /\ r.s.curPosition = NextPos(s)
  BY <1>11, <1>13, <1>15
<1> QED BY <1>13, <1>14, <1>16, <1>17

(* What the three flags say of each other.                                 *)
LEMMA StatusFacts ==
  ASSUME NEW s, s.m_status \in Statuses
  PROVE  /\ S!Has(s, "SWR") => /\ ~S!Has(s, "SRD") /\ s.m_status # {} /\ S!Writes(s)
                             /\ (S!Reads(s) => S!Has(s, "SRW"))
         /\ S!Has(s, "SRD") => S!Reads(s) /\ s.m_status # {}
         /\ S!Has(s, "SRW") => S!Reads(s) /\ S!Writes(s) /\ s.m_status # {}
         /\ S!Reads(s) => s.m_status # {} /\ (S!Has(s, "SRD") \/ S!Has(s, "SRW"))
         /\ S!Writes(s) => s.m_status # {} /\ (S!Has(s, "SWR") \/ S!Has(s, "SRW"))
         /\ S!Has(s, "SRW") /\ ~S!Has(s, "SWR") /\ ~S!Has(s, "SRD") => s.m_status = {"SRW"}
<1> QED BY DEF S!Has, S!Reads, S!Writes, Statuses

(* The flags of a stream for both directions after its first transfer.     *)
LEMMA StatusOf ==
  ASSUME NEW s
  PROVE  /\ s.m_status = {"SWR", "SRW"} =>
              S!Has(s, "SWR") /\ S!Has(s, "SRW") /\ ~S!Has(s, "SRD") /\ s.m_status # {}
         /\ s.m_status = {"SRD", "SRW"} =>
              S!Has(s, "SRD") /\ S!Has(s, "SRW") /\ ~S!Has(s, "SWR") /\ s.m_status # {}
         /\ {"SWR", "SRW"} \in Statuses /\ {"SRD", "SRW"} \in Statuses
<1> QED BY DEF S!Has, Statuses

(* With nothing to write the file is what there is. *)
LEMMA ViewIsFile ==
  ASSUME S!StreamAssumption, NEW s, Typed(s), S!Has(s, "SWR") => s.m_buf = <<>>
  PROVE  S!View(s) = s.file
<1>1. s.file \in Seq(Int) /\ From(s) \in 0 .. Len(s.file)
  BY TypedFields
<1>2. S!Pending(s) = <<>>
  BY DEF S!Pending
<1> QED BY <1>1, <1>2, OverwrittenNot DEF S!View, From

(* flushBuf() of a stream for both that is not writing. *)
LEMMA Turned ==
  ASSUME S!StreamAssumption, NEW s, Typed(s), ~S!Has(s, "SWR"), S!Has(s, "SRW"),
         NEW r \in S!flushBuf(s)
  PROVE  /\ Typed(r.s) /\ r.what = "done"
         /\ r.s.m_status = {"SWR", "SRW"} /\ r.s.append = s.append /\ r.s.m_r = 0
         /\ r.s.m_w = BufSize /\ r.s.m_p = 0 /\ r.s.m_buf = <<>>
         /\ r.s.file = s.file /\ r.s.curPosition = s.curPosition
<1>1. r = S!Outcome("done", [[s EXCEPT !.m_p = 0, !.m_w = BufSize, !.m_buf = <<>>]
                              EXCEPT !.m_status = {"SWR", "SRW"}, !.m_r = 0])
  BY DEF S!flushBuf
<1>2. s \in Streams /\ Bytes(s.file) /\ s.curPosition <= Len(s.file)
  BY DEF Typed
<1>3. /\ BufSize \in Nat /\ BufSize \in 0 .. Uint8 - 1 /\ 0 \in 0 .. BufSize /\ 0 \in 0 .. Uint8 - 1
      /\ <<>> \in Seq(Int) /\ Len(<<>>) = 0
  BY Sizes, EmptyInt
<1>4. {"SWR", "SRW"} \in Statuses
  BY StatusOf
<1>5. r.s = [[s EXCEPT !.m_p = 0, !.m_w = BufSize, !.m_buf = <<>>]
                EXCEPT !.m_status = {"SWR", "SRW"}, !.m_r = 0] /\ r.what = "done"
  BY <1>1 DEF S!Outcome
<1> DEFINE st == {"SWR", "SRW"}
<1> HIDE DEF st
<1>6. r.s = [[s EXCEPT !.m_p = 0, !.m_w = BufSize, !.m_buf = <<>>]
                EXCEPT !.m_status = st, !.m_r = 0] /\ st \in Statuses
  BY <1>4, <1>5 DEF st
<1>7. /\ r.s \in Streams
      /\ r.s.m_status = st /\ r.s.append = s.append /\ r.s.m_r = 0
      /\ r.s.m_w = BufSize /\ r.s.m_p = 0 /\ r.s.m_buf = <<>>
      /\ r.s.file = s.file /\ r.s.curPosition = s.curPosition
  BY <1>2, <1>3, <1>6 DEF Streams
<1>8. Typed(r.s)
  BY <1>2, <1>3, <1>7 DEF Typed
<1> QED BY <1>5, <1>7, <1>8 DEF st

(* A stream that can be written to after flushBuf(). *)
Writable(s, kn, pos) ==
  /\ Typed(s) /\ S!Writes(s) /\ Bytes(kn) /\ S!View(s) = kn
  /\ S!Has(s, "SWR") => Unwritten(s, kn, pos)
  /\ ~S!Has(s, "SWR") /\ ~s.append => pos = s.curPosition

(* flushBuf() makes a buffer with all its room.                            *)
LEMMA MadeWritable ==
  ASSUME S!StreamAssumption, NEW s, NEW kn, NEW pos, Writable(s, kn, pos), NEW r \in S!flushBuf(s)
  PROVE  /\ Typed(r.s) /\ r.what \in {"done", "error"} /\ (S!Has(r.s, "SWR") => r.s.m_buf = <<>>)
         /\ r.what = "done" =>
              /\ Writer(r.s, kn, pos) /\ S!Has(r.s, "SWR") /\ S!Writes(r.s)
              /\ r.s.append = s.append /\ r.s.m_w = BufSize /\ r.s.m_p = 0 /\ r.s.file = kn
              /\ r.s.curPosition = NextPos(s) /\ (S!Reads(s) => S!Reads(r.s))
<1>1. Typed(s) /\ S!Writes(s) /\ Bytes(kn) /\ S!View(s) = kn
  BY DEF Writable
<1>2. s.m_status \in Statuses /\ BufSize \in Nat /\ Len(<<>>) = 0
  BY <1>1, TypedFields, Sizes, EmptyInt
<1>3. CASE S!Has(s, "SWR")
  <2>1. /\ Typed(r.s) /\ r.what \in {"done", "error"}
        /\ r.s.m_status = s.m_status /\ r.s.append = s.append /\ r.s.m_r = s.m_r
        /\ r.s.m_w = BufSize /\ r.s.m_p = 0 /\ r.s.m_buf = <<>>
        /\ r.what = "done" => r.s.file = kn /\ r.s.curPosition = NextPos(s)
    BY <1>1, <1>3, Flushed
  <2>2. S!Has(r.s, "SWR") /\ S!Writes(r.s) /\ (S!Reads(s) => S!Reads(r.s))
    BY <1>1, <1>3, <2>1 DEF S!Has, S!Writes, S!Reads
  <2>3. ASSUME r.what = "done" PROVE Writer(r.s, kn, pos)
    <3>1. S!View(r.s) = kn
      BY <2>1, <2>3, ViewIsFile
    <3>2. s.m_r = 0 /\ s.m_p = Len(s.m_buf) /\ (~s.append => pos = s.curPosition + s.m_p)
      BY <1>3 DEF Writable, Unwritten
    <3>3. ~s.append => NextPos(s) = s.curPosition + Len(s.m_buf)
      BY <1>3 DEF NextPos, From
    <3>4. Len(s.m_buf) \in Nat /\ s.curPosition \in Nat
      BY <1>1, TypedFields
    <3>5. r.s.m_p + r.s.m_w = BufSize /\ r.s.m_p = Len(r.s.m_buf)
      BY <1>2, <2>1
    <3>6. ~r.s.append => pos = r.s.curPosition + r.s.m_p
      BY <2>1, <2>3, <3>2, <3>3, <3>4
    <3> QED BY <1>1, <2>1, <2>2, <3>1, <3>2, <3>5, <3>6 DEF Writer, Unwritten
  <2> QED BY <2>1, <2>2, <2>3
<1>4. CASE ~S!Has(s, "SWR")
  <2>1. S!Has(s, "SRW")
    BY <1>1, <1>2, <1>4, StatusFacts
  <2>2. /\ Typed(r.s) /\ r.what = "done"
        /\ r.s.m_status = {"SWR", "SRW"} /\ r.s.append = s.append /\ r.s.m_r = 0
        /\ r.s.m_w = BufSize /\ r.s.m_p = 0 /\ r.s.m_buf = <<>>
        /\ r.s.file = s.file /\ r.s.curPosition = s.curPosition
    BY <1>1, <1>4, <2>1, Turned
  <2>3. S!Has(r.s, "SWR") /\ S!Has(r.s, "SRW")
    BY <2>2, StatusOf
  <2>4. S!Writes(r.s) /\ S!Reads(r.s)
    BY <2>3 DEF S!Has, S!Writes, S!Reads
  <2>5. s.file = kn /\ S!View(r.s) = kn
    BY <1>1, <1>4, <2>2, ViewIsFile
  <2>6. /\ ~s.append => pos = s.curPosition
        /\ NextPos(s) = s.curPosition /\ s.curPosition \in Nat
    BY <1>1, <1>4, TypedFields DEF Writable, NextPos
  <2>7. /\ r.s.m_p + r.s.m_w = BufSize /\ r.s.m_p = Len(r.s.m_buf)
        /\ ~r.s.append => pos = r.s.curPosition + r.s.m_p
    BY <1>2, <2>2, <2>6
  <2>8. Writer(r.s, kn, pos)
    BY <1>1, <2>2, <2>3, <2>5, <2>7 DEF Writer, Unwritten
  <2> QED BY <2>2, <2>3, <2>4, <2>5, <2>6, <2>8
<1> QED BY <1>3, <1>4

-----------------------------------------------------------------------------
(* A buffer is filled from where the file is. *)
LEMMA FileReadCases ==
  ASSUME S!StreamAssumption, NEW s, Typed(s), ~S!Has(s, "SWR"), s.m_w = 0, s.m_p = UngetSize,
         NEW r \in S!FileRead(s, BufSize - UngetSize)
  PROVE  /\ Typed(r.s) /\ r.what \in {"done", "end", "error"}
         /\ r.s.m_status = s.m_status /\ r.s.append = s.append /\ r.s.m_p = UngetSize
         /\ r.what # "error" => Reader(r.s, s.file, s.curPosition)
         /\ r.what = "end" => r.s.m_r = 0 /\ s.curPosition = Len(s.file)
         /\ r.what = "done" => r.s.m_r > 0
<1> DEFINE L == Len(s.file)
           cp == s.curPosition
           k == BufSize - UngetSize
           nr == S!Least(k, L - cp)
           b == SubSeq(s.file, cp + 1, cp + nr)
<1>1. /\ s \in Streams /\ Bytes(s.file) /\ s.file \in Seq(Int) /\ L \in Nat /\ cp \in 0 .. L
  BY TypedFields DEF Typed
<1>2. /\ BufSize \in Nat /\ UngetSize \in Nat /\ 0 \in 0 .. Uint8 - 1
      /\ k \in Nat /\ k > 0 /\ k < Uint8 /\ k <= BufSize /\ UngetSize + k = BufSize /\ Uint8 \in Nat
      /\ <<>> \in Seq(Int) /\ Len(<<>>) = 0
  BY Sizes, EmptyInt
<1> HIDE DEF k, L
<1>3. /\ nr \in Nat /\ nr <= k /\ cp + nr \in 0 .. L /\ (nr = 0 => cp = L) /\ nr \in 0 .. Uint8 - 1
  <2>1. CASE k < L - cp
    <3>1. nr = k
      BY <2>1 DEF S!Least
    <3> HIDE DEF nr, cp
    <3> QED BY <1>1, <1>2, <2>1, <3>1
  <2>2. CASE ~(k < L - cp)
    <3>1. nr = L - cp
      BY <2>2 DEF S!Least
    <3> HIDE DEF nr, cp
    <3>2. L \in Nat /\ cp \in Int /\ cp <= L /\ 0 <= cp
      BY <1>1
    <3>3. nr \in Nat /\ cp + nr = L /\ (nr = 0 => cp = L)
      BY <3>1, <3>2
    <3>4. nr <= k
      BY <1>2, <2>2, <3>1, <3>2
    <3>5. nr \in 0 .. Uint8 - 1 /\ L \in 0 .. L
      BY <1>2, <3>2, <3>3, <3>4
    <3> QED BY <3>3, <3>4, <3>5, Zenon
  <2> QED BY <2>1, <2>2, Zenon
<1>4. b \in Seq(Int) /\ Len(b) = nr
  <2>1. cp \in Nat /\ cp + nr \in 0 .. Len(s.file) /\ cp <= cp + nr /\ (cp + nr) - cp = nr
    BY <1>1, <1>3 DEF L
  <2> HIDE DEF nr, cp
  <2> QED BY <1>1, <2>1, PartInt
<1>5. \/ r = S!Outcome(IF nr = 0 THEN "end" ELSE "done",
                     [s EXCEPT !.m_buf = b, !.curPosition = @ + nr, !.m_r = nr])
      \/ r = S!Outcome("error", [s EXCEPT !.m_r = 0, !.m_buf = <<>>])
  BY DEF S!FileRead, k, L
<1>6. CASE r = S!Outcome("error", [s EXCEPT !.m_r = 0, !.m_buf = <<>>])
  <2>1. r.what = "error" /\ r.s = [s EXCEPT !.m_r = 0, !.m_buf = <<>>]
    BY <1>6 DEF S!Outcome
  <2>2. /\ r.s \in Streams /\ r.s.m_status = s.m_status /\ r.s.append = s.append
        /\ r.s.m_p = s.m_p /\ r.s.m_buf = <<>> /\ r.s.curPosition = cp /\ r.s.file = s.file
    BY <1>1, <1>2, <2>1 DEF Streams
  <2>3. Typed(r.s)
    BY <1>2, <2>2 DEF Typed
  <2> QED BY <2>1, <2>2, <2>3
<1>7. CASE r = S!Outcome(IF nr = 0 THEN "end" ELSE "done",
                       [s EXCEPT !.m_buf = b, !.curPosition = @ + nr, !.m_r = nr])
  <2> DEFINE c == cp + nr
  <2>1. /\ r.what = (IF nr = 0 THEN "end" ELSE "done")
        /\ r.s = [s EXCEPT !.m_buf = b, !.curPosition = c, !.m_r = nr]
    BY <1>7 DEF S!Outcome
  <2>2. c \in Nat /\ c \in 0 .. L /\ c <= Len(s.file) /\ cp \in Nat
    BY <1>1, <1>3 DEF L
  <2>3. b = SubSeq(s.file, cp + 1, c) /\ c - nr = cp
    BY <1>1, <1>3
  <2> HIDE DEF c, b, nr
  <2>4. /\ r.s \in Streams /\ r.s.m_status = s.m_status /\ r.s.append = s.append
        /\ r.s.m_p = s.m_p /\ r.s.m_buf = b /\ r.s.curPosition = c /\ r.s.file = s.file
        /\ r.s.m_r = nr /\ r.s.m_w = s.m_w
    BY <1>1, <1>3, <1>4, <2>1, <2>2 DEF Streams
  <2>5. Typed(r.s)
    <3>1. Len(b) <= BufSize
      BY <1>2, <1>3, <1>4
    <3> QED BY <1>1, <2>2, <2>4, <3>1 DEF Typed
  <2>6. Reader(r.s, s.file, cp)
    <3>1. nr <= c /\ UngetSize + nr <= BufSize
      BY <1>1, <1>2, <1>3, <2>2, <2>3
    <3> QED BY <2>3, <2>4, <2>5, <3>1 DEF Reader
  <2>7. nr \in Nat /\ (nr = 0 => s.curPosition = Len(s.file))
    BY <1>3 DEF L
  <2> QED BY <2>1, <2>4, <2>5, <2>6, <2>7
<1> QED BY <1>5, <1>6, <1>7

(* fillBuf() reads on where the bytes of the stream end. *)
LEMMA Filled ==
  ASSUME S!StreamAssumption, NEW s, NEW kn, Typed(s), S!Reads(s), Bytes(kn), S!View(s) = kn,
         ~S!Has(s, "SWR") => s.m_w = 0, NEW r \in S!fillBuf(s)
  PROVE  /\ Typed(r.s) /\ r.what \in {"done", "end", "error"}
         /\ S!Has(r.s, "SWR") => r.s.m_buf = <<>>
         /\ r.what # "error" =>
              /\ Reader(r.s, kn, NextPos(s)) /\ ~S!Has(r.s, "SWR") /\ S!Reads(r.s)
              /\ r.s.m_p = UngetSize /\ r.s.append = s.append
         /\ r.what = "end" => r.s.m_r = 0 /\ NextPos(s) = Len(kn)
         /\ r.what = "done" => r.s.m_r > 0
<1>0. s \in Streams /\ s.m_status \in Statuses
  BY TypedFields DEF Typed
<1> DEFINE ready == S!forReading(s)
           ahead(t) == [t EXCEPT !.m_p = UngetSize]
<1>1. PICK q \in ready :
        \/ q.what = "done" /\ r \in S!FileRead(ahead(q.s), BufSize - UngetSize)
        \/ q.what # "done" /\ r = q
  BY DEF S!fillBuf
<1>2. /\ Typed(q.s) /\ q.what \in {"done", "error"} /\ (S!Has(q.s, "SWR") => q.s.m_buf = <<>>)
      /\ q.what = "done" =>
           /\ ~S!Has(q.s, "SWR") /\ S!Reads(q.s) /\ q.s.m_w = 0 /\ q.s.append = s.append
           /\ q.s.file = kn /\ q.s.curPosition = NextPos(s)
  <2>1. CASE ~S!Has(s, "SRD") /\ S!Has(s, "SRW") /\ S!Has(s, "SWR")
    <3>1. PICK f \in S!flushBuf(s) :
            q = IF f.what = "done"
                THEN S!Outcome("done", S!NoRoom([f.s EXCEPT !.m_status = {"SRD", "SRW"}])) ELSE f
      BY <2>1 DEF S!forReading
    <3>2. /\ Typed(f.s) /\ f.what \in {"done", "error"}
          /\ f.s.append = s.append /\ f.s.m_buf = <<>>
          /\ f.what = "done" => f.s.file = kn /\ f.s.curPosition = NextPos(s)
      BY <2>1, Flushed
    <3>3. CASE f.what # "done"
      BY <3>1, <3>2, <3>3
    <3>4. CASE f.what = "done"
      <4> DEFINE st == {"SRD", "SRW"}
      <4>1. q.what = "done" /\ q.s = [[f.s EXCEPT !.m_status = st] EXCEPT !.m_w = 0]
        BY <3>1, <3>4 DEF S!Outcome, S!NoRoom
      <4>2. st \in Statuses /\ 0 \in 0 .. Uint8 - 1
        BY StatusOf, Sizes
      <4>3. f.s \in Streams /\ Bytes(f.s.file) /\ f.s.curPosition <= Len(f.s.file)
            /\ Len(f.s.m_buf) <= BufSize
        BY <3>2 DEF Typed
      <4> HIDE DEF st
      <4>4. /\ q.s \in Streams /\ q.s.m_status = st /\ q.s.m_w = 0 /\ q.s.append = f.s.append
            /\ q.s.m_buf = f.s.m_buf /\ q.s.file = f.s.file /\ q.s.curPosition = f.s.curPosition
        BY <4>1, <4>2, <4>3 DEF Streams
      <4>5. ~S!Has(q.s, "SWR") /\ S!Has(q.s, "SRD")
        BY <4>4, StatusOf DEF st
      <4>6. S!Reads(q.s)
        BY <4>5 DEF S!Has, S!Reads
      <4>7. Typed(q.s)
        BY <4>3, <4>4 DEF Typed
      <4> QED BY <3>2, <3>4, <4>1, <4>4, <4>5, <4>6, <4>7
    <3> QED BY <3>3, <3>4
  <2>2. CASE ~(~S!Has(s, "SRD") /\ S!Has(s, "SRW") /\ S!Has(s, "SWR"))
    <3>1. ~S!Has(s, "SWR") /\ (S!Has(s, "SRD") \/ S!Has(s, "SRW"))
      BY <1>0, <2>2, StatusFacts
    <3>2. q = S!Outcome("done", s)
      BY <2>2, <3>1 DEF S!forReading
    <3>3. q.what = "done" /\ q.s = s
      BY <3>2 DEF S!Outcome
    <3>4. s.file = kn /\ NextPos(s) = s.curPosition
      BY <3>1, ViewIsFile DEF NextPos
    <3> QED BY <3>1, <3>3, <3>4
  <2> QED BY <2>1, <2>2
<1>3. CASE q.what # "done" /\ r = q
  BY <1>2, <1>3
<1>4. CASE q.what = "done" /\ r \in S!FileRead(ahead(q.s), BufSize - UngetSize)
  <2> DEFINE t == ahead(q.s)
  <2>1. q.s \in Streams /\ Bytes(q.s.file) /\ q.s.curPosition <= Len(q.s.file)
        /\ Len(q.s.m_buf) <= BufSize
    BY <1>2 DEF Typed
  <2>2. UngetSize \in 0 .. BufSize
    BY Sizes
  <2>3. /\ t \in Streams /\ t.m_status = q.s.m_status /\ t.append = q.s.append /\ t.m_w = q.s.m_w
        /\ t.m_p = UngetSize /\ t.m_buf = q.s.m_buf /\ t.curPosition = q.s.curPosition
        /\ t.file = q.s.file
    BY <2>1, <2>2 DEF Streams
  <2>4. Typed(t) /\ ~S!Has(t, "SWR") /\ t.m_w = 0 /\ S!Reads(t)
    BY <1>2, <1>4, <2>1, <2>3 DEF Typed, S!Has, S!Reads
  <2>5. r \in S!FileRead(t, BufSize - UngetSize)
    BY <1>4
  <2> HIDE DEF t
  <2>6. /\ Typed(r.s) /\ r.what \in {"done", "end", "error"}
        /\ r.s.m_status = t.m_status /\ r.s.append = t.append /\ r.s.m_p = UngetSize
        /\ r.what # "error" => Reader(r.s, t.file, t.curPosition)
        /\ r.what = "end" => r.s.m_r = 0 /\ t.curPosition = Len(t.file)
        /\ r.what = "done" => r.s.m_r > 0
    BY <2>3, <2>4, <2>5, FileReadCases
  <2>7. ~S!Has(r.s, "SWR") /\ S!Reads(r.s)
    BY <2>4, <2>6 DEF S!Has, S!Reads
  <2>8. t.file = kn /\ t.curPosition = NextPos(s) /\ t.append = s.append
    BY <1>2, <1>4, <2>3
  <2> QED BY <2>6, <2>7, <2>8
<1> QED BY <1>1, <1>3, <1>4

(* The program gets the next k bytes that were read ahead. *)
LEMMA Takes ==
  ASSUME S!StreamAssumption, NEW s, NEW kn, NEW pos, Reader(s, kn, pos), NEW k \in 0 .. s.m_r
  PROVE  /\ pos \in Nat /\ pos <= Len(kn)
         /\ S!Ahead(s, k) = SubSeq(kn, pos + 1, pos + k) /\ Len(S!Ahead(s, k)) = k
         /\ Reader(S!Taken(s, k), kn, pos + k)
         /\ S!Taken(s, k).m_status = s.m_status /\ S!Taken(s, k).append = s.append
         /\ S!Taken(s, k).m_p = s.m_p + k /\ S!Taken(s, k).m_r = s.m_r - k
<1> DEFINE t == S!Taken(s, k)
           cp == s.curPosition
           L == Len(kn)
           b == s.m_buf
           a == S!Ahead(s, k)
           m == s.m_r
           x == SubSeq(kn, pos + 1, pos + k)
           z == SubSeq(b, k + 1, Len(b))
           y == SubSeq(kn, pos + k + 1, cp)
<1>1. /\ Typed(s) /\ s.file = kn /\ s.m_w = 0 /\ m <= cp /\ s.m_p + m <= BufSize
      /\ pos = cp - m /\ b = SubSeq(kn, pos + 1, cp)
  BY DEF Reader
<1>2. /\ s \in Streams /\ Bytes(kn) /\ kn \in Seq(Int) /\ L \in Nat /\ cp \in 0 .. L
      /\ m \in 0 .. Uint8 - 1 /\ s.m_p \in 0 .. BufSize /\ BufSize \in Nat /\ Uint8 \in Nat
  BY <1>1, TypedFields, Sizes DEF Typed
<1>0. k \in 0 .. m
  OBVIOUS
<1> HIDE DEF cp, m, L
<1>3. /\ pos \in Nat /\ pos <= L /\ k \in Nat /\ k <= m /\ pos + m = cp /\ pos + k <= cp
      /\ m \in Nat /\ cp \in Nat /\ cp - pos = m /\ pos <= cp
  <2>1. m \in Nat /\ cp \in Nat /\ cp <= L /\ m <= cp /\ pos = cp - m
    BY <1>1, <1>2
  <2> QED BY <1>0, <1>2, <2>1
<1>4. /\ b \in Seq(Int) /\ Len(b) = m /\ \A i \in 1 .. m : b[i] = kn[pos + i]
  <2>1. cp \in 0 .. Len(kn)
    BY <1>2 DEF L
  <2>2. /\ b \in Seq(Int) /\ Len(b) = cp - pos /\ \A i \in 1 .. cp - pos : b[i] = kn[pos + i]
    BY <1>1, <1>2, <1>3, <2>1, PartInt
  <2> QED BY <1>3, <2>2, Zenon
<1> HIDE DEF b
<1>5. a = x /\ Len(a) = k
  <2>1. a = [i \in 1 .. k |-> IF i <= Len(s.m_buf) THEN s.m_buf[i] ELSE 0]
    BY DEF S!Ahead
  <2>2. ASSUME NEW i \in 1 .. k PROVE a[i] = b[i] /\ b[i] \in Int
    <3>1. i <= Len(b) /\ i \in 1 .. Len(b)
      BY <1>3, <1>4
    <3>2. b[i] \in Int
      BY <1>4, <3>1, LenInt
    <3> QED BY <2>1, <3>1, <3>2 DEF b
  <2>3. a \in Seq(Int) /\ Len(a) = k
    <3>1. a \in [1 .. k -> Int]
      BY <2>1, <2>2
    <3> HIDE DEF a
    <3> QED BY <1>3, <3>1
  <2>4. x \in Seq(Int) /\ Len(x) = k /\ \A i \in 1 .. k : x[i] = kn[pos + i]
    <3>1. pos + k \in 0 .. Len(kn) /\ pos <= pos + k /\ (pos + k) - pos = k
      BY <1>2, <1>3 DEF L
    <3>2. /\ x \in Seq(Int) /\ Len(x) = (pos + k) - pos
          /\ \A i \in 1 .. (pos + k) - pos : x[i] = kn[pos + i]
      BY <1>2, <1>3, <3>1, PartInt, SMTT(30)
    <3> QED BY <3>1, <3>2, Zenon
  <2> HIDE DEF a, x
  <2>5. ASSUME NEW i \in 1 .. k PROVE a[i] = x[i]
    <3>1. i \in 1 .. m
      BY <1>3
    <3> QED BY <1>4, <2>2, <2>4, <3>1
  <2> QED BY <2>3, <2>4, <2>5, EqualInt
<1>6. z \in Seq(Int) /\ Len(z) = m - k /\ \A i \in 1 .. m - k : z[i] = b[k + i]
  <2>1. Len(b) \in 0 .. Len(b) /\ k <= Len(b) /\ Len(b) - k = m - k
    BY <1>3, <1>4
  <2> QED BY <1>3, <1>4, <2>1, PartInt
<1>7. y \in Seq(Int) /\ Len(y) = m - k /\ \A i \in 1 .. m - k : y[i] = kn[pos + k + i]
  <2>1. pos + k \in Nat /\ cp \in 0 .. Len(kn) /\ pos + k <= cp /\ cp - (pos + k) = m - k
    BY <1>2, <1>3 DEF L
  <2> QED BY <1>2, <2>1, PartInt, SMTT(30)
<1> HIDE DEF z, y
<1>8. z = y
  <2>1. ASSUME NEW i \in 1 .. m - k PROVE z[i] = y[i]
    <3>1. k + i \in 1 .. m /\ pos + (k + i) = pos + k + i
      BY <1>3
    <3>2. b[k + i] = kn[pos + (k + i)]
      BY <1>4, <3>1
    <3> QED BY <1>6, <1>7, <3>1, <3>2
  <2> QED BY <1>6, <1>7, <2>1, EqualInt
<1>9. t = [s EXCEPT !.m_r = m - k, !.m_p = s.m_p + k, !.m_buf = z]
  BY <1>2 DEF S!Taken, m, z, b, Streams
<1>10. /\ m - k \in 0 .. Uint8 - 1 /\ s.m_p + k \in 0 .. BufSize /\ m - k <= cp
       /\ s.m_p + k + (m - k) <= BufSize /\ pos + k = cp - (m - k)
  BY <1>1, <1>2, <1>3
<1>11. /\ t \in Streams /\ t.m_status = s.m_status /\ t.append = s.append /\ t.m_r = m - k
       /\ t.m_p = s.m_p + k /\ t.m_w = s.m_w /\ t.m_buf = z /\ t.file = s.file
       /\ t.curPosition = cp
  BY <1>2, <1>6, <1>9, <1>10 DEF Streams, cp
<1> HIDE DEF t
<1>12. Typed(t)
  <2>1. Len(z) <= BufSize
    BY <1>1, <1>2, <1>3, <1>6
  <2> QED BY <1>1, <1>2, <1>11, <2>1 DEF Typed, cp
<1>13. Reader(t, kn, pos + k)
  BY <1>1, <1>8, <1>10, <1>11, <1>12 DEF Reader, y
<1> QED BY <1>3, <1>5, <1>11, <1>13 DEF t, a, x, m, L

(* The program stores k bytes as those that follow. *)
FollowingIn(s, kn, pos) == IF s.append THEN Len(kn) ELSE pos

(* The next byte that is put goes behind those in the buffer.              *)
LEMMA FollowsAll ==
  ASSUME S!StreamAssumption, NEW s, NEW kn, NEW pos, Unwritten(s, kn, pos)
  PROVE  FollowingIn(s, kn, pos) = NextPos(s) /\ NextPos(s) \in 0 .. Len(kn) /\ Len(kn) \in Nat
<1>1. /\ Typed(s) /\ S!Has(s, "SWR") /\ Bytes(kn) /\ S!View(s) = kn
      /\ s.m_p = Len(s.m_buf) /\ (~s.append => pos = s.curPosition + s.m_p)
  BY DEF Unwritten
<1>2. /\ s.file \in Seq(Int) /\ From(s) \in 0 .. Len(s.file) /\ s.m_buf \in Seq(Int)
      /\ Len(s.m_buf) \in Nat /\ Len(s.file) \in Nat
  BY <1>1, TypedFields, LenInt
<1>3. kn = S!Overwritten(s.file, From(s), s.m_buf)
  BY <1>1 DEF S!View, S!Pending, From
<1>4. Len(kn) = IF From(s) + Len(s.m_buf) > Len(s.file) THEN From(s) + Len(s.m_buf) ELSE Len(s.file)
  BY <1>2, <1>3, OverwrittenIs
<1>5. NextPos(s) = From(s) + Len(s.m_buf)
  BY <1>1 DEF NextPos
<1>6. NextPos(s) \in 0 .. Len(kn) /\ Len(kn) \in Nat
  BY <1>2, <1>4, <1>5
<1>7. CASE s.append
  <2>1. From(s) = Len(s.file)
    BY <1>7 DEF From
  <2>2. Len(kn) = NextPos(s)
    <3> DEFINE L == Len(s.file)
               B == Len(s.m_buf)
               K == Len(kn)
    <3>1. L \in Nat /\ B \in Nat /\ K = (IF L + B > L THEN L + B ELSE L) /\ NextPos(s) = L + B
      BY <1>2, <1>4, <1>5, <2>1, Zenon
    <3> HIDE DEF L, B, K
    <3>2. K = L + B
      BY <3>1
    <3> QED BY <3>1, <3>2 DEF K
  <2> QED BY <1>6, <1>7, <2>2 DEF FollowingIn
<1>8. CASE ~s.append
  <2>1. From(s) = s.curPosition
    BY <1>8 DEF From
  <2> QED BY <1>1, <1>5, <1>6, <1>8, <2>1 DEF FollowingIn
<1> QED BY <1>7, <1>8

(* k bytes put in a buffer with room for them.                             *)
LEMMA Puts ==
  ASSUME S!StreamAssumption, NEW s, NEW kn, NEW pos, Unwritten(s, kn, pos), s.m_p + s.m_w = BufSize,
         NEW k \in 0 .. s.m_w, NEW nb \in Seq(Int), Len(nb) = k,
         FollowingIn(s, kn, pos) + k <= MaxSize,
         \A i \in 1 .. k : nb[i] = S!Stored(FollowingIn(s, kn, pos) + i)
  PROVE  LET kn2 == S!Overwritten(kn, FollowingIn(s, kn, pos), nb)
             pos2 == FollowingIn(s, kn, pos) + k
             t == S!Put(s, nb) IN
         /\ Writer(t, kn2, pos2) /\ (s.append => pos2 = Len(kn2))
         /\ t.m_p = s.m_p + k /\ t.append = s.append /\ t.m_status = s.m_status
<1> DEFINE F == FollowingIn(s, kn, pos)
           kn2 == S!Overwritten(kn, F, nb)
           t == S!Put(s, nb)
           b == s.m_buf
           bb == b \o nb
<1>1. /\ Typed(s) /\ S!Has(s, "SWR") /\ Bytes(kn) /\ S!View(s) = kn /\ s.m_r = 0
      /\ s.m_p = Len(s.m_buf) /\ (~s.append => pos = s.curPosition + s.m_p)
  BY DEF Unwritten
<1>2. /\ s \in Streams /\ s.file \in Seq(Int) /\ From(s) \in 0 .. Len(s.file) /\ b \in Seq(Int)
      /\ Len(b) \in Nat /\ BufSize \in Nat /\ Uint8 \in Nat /\ BufSize < Uint8
      /\ s.m_w \in 0 .. Uint8 - 1 /\ s.m_p \in 0 .. BufSize
      /\ MaxSize \in Nat
  BY <1>1, TypedFields, LenInt, Sizes DEF Typed
<1>3. F = From(s) + Len(b) /\ F \in 0 .. Len(kn) /\ Len(kn) \in Nat /\ (s.append => F = Len(kn))
  BY <1>1, FollowsAll DEF NextPos, FollowingIn
<1>4. bb \in Seq(Int) /\ Len(bb) = Len(b) + k
  BY <1>2, ConcatInt
<1>5. kn \in Seq(Int) /\ Len(kn) <= MaxSize
      /\ \A i \in 1 .. Len(kn) : kn[i] \in {S!Original(i), S!Stored(i)}
  BY <1>1 DEF Bytes
<1>6. kn = S!Overwritten(s.file, From(s), b)
  BY <1>1 DEF S!View, S!Pending, From
<1>7. kn2 = S!Overwritten(s.file, From(s), bb)
  <2>1. S!Overwritten(S!Overwritten(s.file, From(s), b), From(s) + Len(b), nb) =
          S!Overwritten(s.file, From(s), b \o nb)
    BY <1>2, OverwrittenTwice
  <2>2. kn2 = S!Overwritten(kn, From(s) + Len(b), nb)
    BY <1>3
  <2> QED BY <1>6, <2>1, <2>2, Zenon
<1>8. /\ kn2 \in Seq(Int) /\ Len(kn2) = (IF F + k > Len(kn) THEN F + k ELSE Len(kn))
      /\ \A i \in 1 .. Len(kn2) : kn2[i] = IF F < i /\ i <= F + k THEN nb[i - F] ELSE kn[i]
  <2> HIDE DEF F
  <2> QED BY ZenonT(30), <1>3, <1>5, OverwrittenIs
<1> HIDE DEF F, kn2
<1>9. k \in Nat /\ F \in Nat /\ F + k <= MaxSize /\ k <= s.m_w
      /\ \A i \in 1 .. k : nb[i] = S!Stored(F + i)
  BY <1>2, <1>3 DEF F
<1>10. Bytes(kn2)
  <2>1. Len(kn2) <= MaxSize /\ Len(kn2) \in Nat
    BY <1>2, <1>3, <1>5, <1>8, <1>9
  <2>2. ASSUME NEW i \in 1 .. Len(kn2) PROVE kn2[i] \in {S!Original(i), S!Stored(i)}
    <3>1. CASE F < i /\ i <= F + k
      <4>1. i - F \in 1 .. k /\ F + (i - F) = i
        BY <1>3, <1>9, <2>1, <3>1
      <4>2. kn2[i] = nb[i - F]
        BY <1>8, <3>1
      <4>3. nb[i - F] = S!Stored(F + (i - F))
        BY <1>9, <4>1
      <4> QED BY <4>1, <4>2, <4>3
    <3>2. CASE ~(F < i /\ i <= F + k)
      <4>1. kn2[i] = kn[i]
        BY <1>8, <3>2
      <4>2. i \in 1 .. Len(kn)
        BY <1>3, <1>8, <1>9, <2>1, <3>2
      <4> QED BY <1>5, <4>1, <4>2
    <3> QED BY <3>1, <3>2
  <2> QED BY <1>8, <2>1, <2>2 DEF Bytes
<1> HIDE DEF bb, b
<1>11. t = [s EXCEPT !.m_buf = bb, !.m_p = s.m_p + k, !.m_w = s.m_w - k]
  BY <1>2 DEF S!Put, bb, b, Streams
<1>12. /\ s.m_p + k \in 0 .. BufSize /\ s.m_w - k \in 0 .. Uint8 - 1
       /\ (s.m_p + k) + (s.m_w - k) = BufSize
  BY <1>2, <1>9, SMTT(30)
<1>13. /\ t \in Streams /\ t.m_status = s.m_status /\ t.append = s.append /\ t.m_r = 0
       /\ t.m_p = s.m_p + k /\ t.m_w = s.m_w - k /\ t.m_buf = bb /\ t.file = s.file
       /\ t.curPosition = s.curPosition
  BY <1>1, <1>2, <1>4, <1>11, <1>12 DEF Streams
<1> HIDE DEF t
<1>14. t.m_p = Len(bb) /\ Len(bb) <= BufSize
  BY <1>1, <1>4, <1>12, <1>13 DEF b
<1>15. Typed(t)
  BY <1>1, <1>13, <1>14 DEF Typed
<1>16. S!Has(t, "SWR") /\ S!View(t) = kn2
  BY <1>1, <1>7, <1>13 DEF S!Has, S!View, S!Pending, From
<1>17. ~t.append => F + k = t.curPosition + t.m_p
  <2>1. ASSUME ~s.append PROVE F + k = s.curPosition + (s.m_p + k)
    <3>1. F = s.curPosition + Len(b)
      BY <1>3, <2>1 DEF From
    <3>2. s.curPosition \in Nat /\ s.m_p = Len(b)
      BY <1>1, <1>2 DEF Streams, b
    <3>3. F = s.curPosition + s.m_p /\ s.m_p \in Nat /\ k \in Nat
      BY <1>2, <1>9, <3>1, <3>2
    <3> QED BY <3>2, <3>3
  <2> QED BY <1>13, <2>1
<1>18. Writer(t, kn2, F + k)
  BY <1>10, <1>12, <1>13, <1>14, <1>15, <1>16, <1>17 DEF Writer, Unwritten
<1>19. s.append => F + k = Len(kn2)
  BY <1>3, <1>8, <1>9
<1> QED BY <1>13, <1>18, <1>19 DEF t, kn2, F

(* The invariant, from its parts after a step.                             *)
LEMMA InvOK ==
  ASSUME wrong' = FALSE, failed' = FALSE, Good(stream', call', known', position', last')
  PROVE  StreamInv'
<1>1. Typed(stream')
  BY DEF Good
<1> QED BY <1>1 DEF StreamInv, Typed, Streams, Bytes, Statuses

(* The same, after a step that failed.                                     *)
LEMMA InvFailed ==
  ASSUME wrong' = FALSE, failed' = TRUE, call' = S!NoCall, Typed(stream'),
         S!Has(stream', "SWR") => stream'.m_buf = <<>>
  PROVE  StreamInv'
<1> QED BY DEF StreamInv

(* A stream that reads.                                                    *)
LEMMA ReaderGood ==
  ASSUME NEW s, NEW c \in Calls, NEW kn, NEW pos, NEW la \in {"seek", "read", "unget", "write"},
         Reader(s, kn, pos), ~S!Has(s, "SWR"), s.m_status # {}, c.name # "write",
         InRead(c) => S!Reads(s) /\ la # "write",
         la \in {"seek", "write"} /\ ~InRead(c) => s.m_r = 0, la = "read" => s.m_p > 0
  PROVE  Good(s, c, kn, pos, la)
<1>1. Typed(s)
  BY DEF Reader
<1> QED BY <1>1 DEF Good

(* No call is a call that neither reads nor writes.                        *)
LEMMA NoCallIs == S!NoCall \in Calls /\ S!NoCall.name = "none" /\ ~InRead(S!NoCall)
<1> QED BY DEF S!NoCall, Calls, InRead

(* A stream that may be written to, in or outside of a call. *)
LEMMA GoodWrites ==
  ASSUME S!StreamAssumption, NEW s, NEW c, NEW kn, NEW pos, NEW la, Good(s, c, kn, pos, la),
         la \in {"seek", "write"}, ~InRead(c), S!Writes(s)
  PROVE  /\ Writable(s, kn, pos) /\ s.m_r = 0 /\ s.m_p \in Nat
         /\ S!Has(s, "SWR") => Writer(s, kn, pos)
         /\ ~S!Has(s, "SWR") => Reader(s, kn, pos) /\ pos = s.curPosition /\ s.m_w = 0
         /\ s.m_w > 0 => /\ S!Has(s, "SWR") /\ Unwritten(s, kn, pos) /\ s.m_p + s.m_w = BufSize
<1>1. /\ Typed(s) /\ s.m_r = 0 /\ s.m_status \in Statuses
      /\ S!Has(s, "SWR") => Writer(s, kn, pos)
      /\ s.m_status # {} /\ ~S!Has(s, "SWR") => Reader(s, kn, pos)
  BY TypedFields DEF Good
<1>2. s.m_status # {}
  BY <1>1, StatusFacts
<1>3. s.m_p \in Nat /\ s.m_w \in Nat /\ s.curPosition \in Nat /\ BufSize \in Nat
  BY <1>1, TypedFields, Sizes
<1>4. CASE S!Has(s, "SWR")
  <2>1. Unwritten(s, kn, pos) /\ (s.m_p + s.m_w = BufSize \/ (s.m_p = 0 /\ s.m_w = 0))
    BY <1>1, <1>4 DEF Writer
  <2>2. Bytes(kn) /\ S!View(s) = kn
    BY <2>1 DEF Unwritten
  <2> QED BY <1>1, <1>3, <1>4, <2>1, <2>2 DEF Writable
<1>5. CASE ~S!Has(s, "SWR")
  <2>1. Reader(s, kn, pos)
    BY <1>1, <1>2, <1>5
  <2>2. s.file = kn /\ s.m_w = 0 /\ pos = s.curPosition - s.m_r
    BY <2>1 DEF Reader
  <2>3. pos = s.curPosition
    BY <1>1, <1>3, <2>2
  <2>4. S!View(s) = kn /\ Bytes(kn)
    BY <1>1, <1>5, <2>2, ViewIsFile DEF Typed
  <2> QED BY <1>1, <1>3, <1>5, <2>1, <2>2, <2>3, <2>4 DEF Writable
<1> QED BY <1>4, <1>5

(* A stream that may be read. *)
LEMMA GoodReads ==
  ASSUME S!StreamAssumption, NEW s, NEW c, NEW kn, NEW pos, NEW la, Good(s, c, kn, pos, la),
         S!Reads(s), s.append /\ S!Has(s, "SWR") => pos = Len(kn)
  PROVE  /\ Typed(s) /\ S!View(s) = kn /\ Bytes(kn) /\ NextPos(s) = pos + s.m_r
         /\ pos \in Nat /\ s.m_r \in Nat
         /\ ~S!Has(s, "SWR") => Reader(s, kn, pos) /\ s.m_w = 0
         /\ S!Has(s, "SWR") => s.m_r = 0
<1>1. /\ Typed(s) /\ s.m_status \in Statuses
      /\ S!Has(s, "SWR") => Writer(s, kn, pos)
      /\ s.m_status # {} /\ ~S!Has(s, "SWR") => Reader(s, kn, pos)
  BY TypedFields DEF Good
<1>2. s.m_status # {}
  BY <1>1, StatusFacts
<1>3. s.m_r \in Nat /\ s.curPosition \in Nat /\ s.m_p \in Nat
  BY <1>1, TypedFields, Sizes
<1>4. CASE S!Has(s, "SWR")
  <2>1. Unwritten(s, kn, pos)
    BY <1>1, <1>4 DEF Writer
  <2>2. Bytes(kn) /\ S!View(s) = kn /\ s.m_r = 0 /\ (~s.append => pos = s.curPosition + s.m_p)
    BY <2>1 DEF Unwritten
  <2>3. FollowingIn(s, kn, pos) = NextPos(s) /\ NextPos(s) \in 0 .. Len(kn) /\ Len(kn) \in Nat
    BY <2>1, FollowsAll
  <2>4. pos = NextPos(s)
    BY <1>4, <2>3 DEF FollowingIn
  <2>5. pos \in Nat /\ NextPos(s) = pos + 0
    BY <2>3, <2>4
  <2> QED BY <1>1, <1>3, <1>4, <2>2, <2>5
<1>5. CASE ~S!Has(s, "SWR")
  <2>1. Reader(s, kn, pos)
    BY <1>1, <1>2, <1>5
  <2>2. s.file = kn /\ s.m_w = 0 /\ pos = s.curPosition - s.m_r /\ s.m_r <= s.curPosition
    BY <2>1 DEF Reader
  <2>3. pos \in Nat /\ s.curPosition = pos + s.m_r /\ NextPos(s) = s.curPosition
    BY <1>3, <1>5, <2>2 DEF NextPos
  <2>4. S!View(s) = kn /\ Bytes(kn)
    BY <1>1, <1>5, <2>2, ViewIsFile DEF Typed
  <2> QED BY <1>1, <1>3, <1>5, <2>1, <2>2, <2>3, <2>4
<1> QED BY <1>4, <1>5

-----------------------------------------------------------------------------
(* What is left in m_r before the buffer is filled does not matter. *)
LEMMA OtherCount ==
  ASSUME S!StreamAssumption, NEW s, Typed(s), NEW room \in 0 .. Uint8 - 1
  PROVE  LET t == [s EXCEPT !.m_r = room] IN
         /\ Typed(t) /\ S!View(t) = S!View(s) /\ NextPos(t) = NextPos(s) /\ t.m_w = s.m_w
         /\ t.append = s.append /\ (S!Has(t, "SWR") <=> S!Has(s, "SWR"))
         /\ (S!Reads(t) <=> S!Reads(s))
<1> DEFINE t == [s EXCEPT !.m_r = room]
<1>1. s \in Streams /\ Bytes(s.file) /\ s.curPosition <= Len(s.file) /\ Len(s.m_buf) <= BufSize
  BY DEF Typed
<1>2. /\ t \in Streams /\ t.m_status = s.m_status /\ t.append = s.append /\ t.m_w = s.m_w
      /\ t.m_p = s.m_p /\ t.m_buf = s.m_buf /\ t.curPosition = s.curPosition /\ t.file = s.file
  BY <1>1 DEF Streams
<1> HIDE DEF t
<1>3. Typed(t)
  BY <1>1, <1>2 DEF Typed
<1>4. S!View(t) = S!View(s) /\ NextPos(t) = NextPos(s)
  BY <1>2 DEF S!View, S!Pending, S!Has, NextPos, From
<1>5. (S!Has(t, "SWR") <=> S!Has(s, "SWR")) /\ (S!Reads(t) <=> S!Reads(s))
  BY <1>2 DEF S!Has, S!Reads
<1> QED BY <1>2, <1>3, <1>4, <1>5 DEF t

(* The place in the buffer is not looked at by fillBuf() and flushBuf().   *)
LEMMA OtherPlace ==
  ASSUME S!StreamAssumption, NEW s, Typed(s), NEW room \in 0 .. BufSize
  PROVE  LET t == [s EXCEPT !.m_p = room] IN
         /\ Typed(t) /\ S!View(t) = S!View(s) /\ NextPos(t) = NextPos(s) /\ t.m_w = s.m_w
         /\ t.append = s.append /\ (S!Has(t, "SWR") <=> S!Has(s, "SWR"))
         /\ (S!Reads(t) <=> S!Reads(s))
<1> DEFINE t == [s EXCEPT !.m_p = room]
<1>1. s \in Streams /\ Bytes(s.file) /\ s.curPosition <= Len(s.file) /\ Len(s.m_buf) <= BufSize
  BY DEF Typed
<1>2. /\ t \in Streams /\ t.m_status = s.m_status /\ t.append = s.append /\ t.m_w = s.m_w
      /\ t.m_buf = s.m_buf /\ t.curPosition = s.curPosition /\ t.file = s.file
  BY <1>1 DEF Streams
<1> HIDE DEF t
<1>3. Typed(t)
  BY <1>1, <1>2 DEF Typed
<1>4. S!View(t) = S!View(s) /\ NextPos(t) = NextPos(s)
  BY <1>2 DEF S!View, S!Pending, S!Has, NextPos, From
<1>5. (S!Has(t, "SWR") <=> S!Has(s, "SWR")) /\ (S!Reads(t) <=> S!Reads(s))
  BY <1>2 DEF S!Has, S!Reads
<1> QED BY <1>2, <1>3, <1>4, <1>5 DEF t

(* Nor is the room: putc() makes it 255 before it calls flushBuf().        *)
LEMMA OtherRoom ==
  ASSUME S!StreamAssumption, NEW s, NEW kn, NEW pos, Writable(s, kn, pos),
         NEW room \in 0 .. Uint8 - 1
  PROVE  LET t == [s EXCEPT !.m_w = room] IN
         Writable(t, kn, pos) /\ NextPos(t) = NextPos(s) /\ t.append = s.append
<1> DEFINE t == [s EXCEPT !.m_w = room]
<1>1. s \in Streams /\ Bytes(s.file) /\ s.curPosition <= Len(s.file) /\ Len(s.m_buf) <= BufSize
  BY DEF Writable, Typed
<1>2. /\ t \in Streams /\ t.m_status = s.m_status /\ t.append = s.append /\ t.m_r = s.m_r
      /\ t.m_p = s.m_p /\ t.m_buf = s.m_buf /\ t.curPosition = s.curPosition /\ t.file = s.file
  BY <1>1 DEF Streams
<1> HIDE DEF t
<1>3. Typed(t)
  BY <1>1, <1>2 DEF Typed
<1>4. S!View(t) = S!View(s) /\ NextPos(t) = NextPos(s) /\ (S!Has(t, "SWR") <=> S!Has(s, "SWR"))
      /\ (S!Writes(t) <=> S!Writes(s))
  BY <1>2 DEF S!View, S!Pending, S!Has, NextPos, From, S!Writes
<1>5. Unwritten(s, kn, pos) => Unwritten(t, kn, pos)
  BY <1>2, <1>3, <1>4 DEF Unwritten
<1>6. Writable(t, kn, pos)
  BY <1>2, <1>3, <1>4, <1>5 DEF Writable
<1> QED BY <1>2, <1>4, <1>6 DEF t

-----------------------------------------------------------------------------
(* Bytes are taken from those read ahead.                                  *)
LEMMA AfterTake ==
  ASSUME S!StreamAssumption, NEW s, Reader(s, known, position), S!Reads(s), ~S!Has(s, "SWR"),
         NEW k \in 1 .. s.m_r, s.m_r \in Nat,
         stream' = S!Taken(s, k), S!Gets(S!Ahead(s, k)), wrong = FALSE
  PROVE  /\ wrong' = FALSE /\ Reader(stream', known', position')
         /\ S!Reads(stream') /\ ~S!Has(stream', "SWR") /\ stream'.m_status # {} /\ stream'.m_p > 0
<1>1. k \in 0 .. s.m_r /\ k \in Nat /\ k > 0
  OBVIOUS
<1>2. /\ S!Ahead(s, k) = SubSeq(known, position + 1, position + k) /\ Len(S!Ahead(s, k)) = k
      /\ Reader(stream', known, position + k)
      /\ stream'.m_status = s.m_status /\ stream'.m_p = s.m_p + k
  BY <1>1, Takes
<1>3. wrong' = FALSE /\ position' = position + k /\ known' = known
  BY <1>2 DEF S!Gets
<1>4. s.m_p \in Nat /\ s.m_status \in Statuses
  <2>1. Typed(s)
    BY DEF Reader
  <2> QED BY <2>1, TypedFields, Sizes
<1>5. s.m_status # {}
  BY <1>4, StatusFacts
<1>6. S!Reads(stream') /\ ~S!Has(stream', "SWR")
  BY <1>2 DEF S!Reads, S!Has
<1>7. stream'.m_p > 0
  BY <1>1, <1>2, <1>4
<1> QED BY <1>2, <1>3, <1>5, <1>6, <1>7

(* getc() with bytes in the buffer and without.                            *)
LEMMA InvGetc ==
  ASSUME S!StreamAssumption, Careful = TRUE, StreamInv, S!getc
  PROVE  StreamInv'
<1>1. /\ call = S!NoCall /\ failed = FALSE /\ S!Reads(stream) /\ ~S!ToEnd(stream) /\ call' = call
      /\ wrong = FALSE
  BY DEF S!getc, S!MayRead, S!Open, S!Idle, StreamInv
<1>2. Good(stream, call, known, position, last)
  BY <1>1 DEF StreamInv
<1>3. /\ Typed(stream) /\ S!View(stream) = known /\ Bytes(known)
      /\ NextPos(stream) = position + stream.m_r
      /\ position \in Nat /\ stream.m_r \in Nat
      /\ ~S!Has(stream, "SWR") => Reader(stream, known, position) /\ stream.m_w = 0
      /\ S!Has(stream, "SWR") => stream.m_r = 0
  BY <1>1, <1>2, GoodReads DEF S!ToEnd
<1>4. PICK r \in IF stream.m_r = 0 THEN S!fillBuf([stream EXCEPT !.m_r = Uint8 - 1])
                 ELSE {S!Outcome("done", stream)} :
       /\ S!ReadEnds(r.what)
       /\ IF r.what = "done"
          THEN stream' = S!Taken(r.s, 1) /\ S!Gets(S!Ahead(r.s, 1))
          ELSE /\ stream' = r.s
               /\ wrong' = (wrong \/ S!Short(r.what, position))
               /\ UNCHANGED <<known, position>>
  BY DEF S!getc
<1>5. /\ Typed(r.s) /\ r.what \in {"done", "end", "error"}
      /\ S!Has(r.s, "SWR") => r.s.m_buf = <<>>
      /\ r.what # "error" => Reader(r.s, known, position) /\ ~S!Has(r.s, "SWR") /\ S!Reads(r.s)
      /\ r.what = "end" => r.s.m_r = 0 /\ position = Len(known)
      /\ r.what = "done" => r.s.m_r > 0
  <2>1. CASE stream.m_r = 0
    <3> DEFINE t == [stream EXCEPT !.m_r = Uint8 - 1]
    <3>1. Uint8 - 1 \in 0 .. Uint8 - 1
      BY Sizes
    <3>2. /\ Typed(t) /\ S!View(t) = known /\ NextPos(t) = NextPos(stream) /\ t.m_w = stream.m_w
          /\ (S!Has(t, "SWR") <=> S!Has(stream, "SWR")) /\ S!Reads(t)
      BY <1>1, <1>3, <3>1, OtherCount
    <3>3. r \in S!fillBuf(t)
      BY <1>4, <2>1
    <3>4. NextPos(t) = position
      BY <1>3, <2>1, <3>2
    <3> HIDE DEF t
    <3> QED BY <1>3, <3>2, <3>3, <3>4, Filled
  <2>2. CASE stream.m_r # 0
    <3>1. r.what = "done" /\ r.s = stream
      BY <1>4, <2>2 DEF S!Outcome
    <3>2. ~S!Has(stream, "SWR") /\ stream.m_r > 0
      BY <1>3, <2>2
    <3> QED BY <1>1, <1>3, <3>1, <3>2
  <2> QED BY <2>1, <2>2
<1>6. r.s.m_r \in Nat /\ r.s.m_status \in Statuses
  BY <1>5, TypedFields, Sizes
<1>7. CASE r.what = "done"
  <2>1. 1 \in 1 .. r.s.m_r
    BY <1>5, <1>6, <1>7
  <2>2. /\ wrong' = FALSE /\ Reader(stream', known', position')
        /\ S!Reads(stream') /\ ~S!Has(stream', "SWR") /\ stream'.m_status # {} /\ stream'.m_p > 0
    BY <1>1, <1>4, <1>5, <1>6, <1>7, <2>1, AfterTake
  <2>3. last' = "read" /\ failed' = FALSE
    BY <1>4, <1>7 DEF S!ReadEnds
  <2>4. Good(stream', call', known', position', last')
    BY <1>1, <2>2, <2>3, NoCallIs, ReaderGood
  <2> QED BY <2>2, <2>3, <2>4, InvOK
<1>8. CASE r.what = "end"
  <2>1. last' = "seek" /\ failed' = FALSE /\ stream' = r.s /\ known' = known /\ position' = position
    BY <1>4, <1>8 DEF S!ReadEnds
  <2>2. wrong' = FALSE
    BY <1>1, <1>4, <1>5, <1>8 DEF S!Short
  <2>3. r.s.m_status # {}
    BY <1>5, <1>6, <1>8, StatusFacts
  <2>4. Good(stream', call', known', position', last')
    BY <1>1, <1>5, <1>8, <2>1, <2>3, NoCallIs, ReaderGood
  <2> QED BY <2>1, <2>2, <2>4, InvOK
<1>9. CASE r.what = "error"
  <2>1. failed' = TRUE /\ stream' = r.s /\ wrong' = FALSE
    BY <1>1, <1>4, <1>9 DEF S!ReadEnds, S!Short
  <2> QED BY <1>1, <1>5, <2>1, InvFailed
<1> QED BY <1>5, <1>7, <1>8, <1>9

(* fread() and fgets() start.                                              *)
LEMMA InvReading ==
  ASSUME S!StreamAssumption, Careful = TRUE, StreamInv, MaxCall \in Nat,
         NEW name \in {"fread", "fgets"}, NEW k \in 1 .. MaxCall, S!Reading(name, k)
  PROVE  StreamInv'
<1>1. /\ call = S!NoCall /\ failed = FALSE /\ S!Reads(stream) /\ ~S!ToEnd(stream) /\ last # "write"
      /\ call' = [name |-> name, todo |-> k] /\ UNCHANGED <<stream, S!history>> /\ wrong = FALSE
  BY DEF S!Reading, S!MayRead, S!Open, S!Idle, StreamInv
<1>2. Good(stream, call, known, position, last)
  BY <1>1 DEF StreamInv
<1>3. call' \in Calls /\ InRead(call') /\ call'.name # "write" /\ call' # S!NoCall
  BY <1>1 DEF Calls, InRead, S!NoCall
<1>4. stream.m_status # {}
  BY DEF S!Reading, S!MayRead, S!Open
<1>5. stream.append /\ S!Has(stream, "SWR") => position = Len(known)
  BY <1>1 DEF S!ToEnd
<1>6. Good(stream, call', known, position, last)
  BY <1>1, <1>2, <1>3, <1>4, <1>5, NoCallIs DEF Good
<1> QED BY <1>1, <1>6, InvOK DEF S!history

(* A pass of fread() or fgets() that fills the buffer. *)
LEMMA InvFill ==
  ASSUME S!StreamAssumption, NEW r, wrong' = FALSE, call \in Calls, InRead(call), last # "write",
         last \in {"seek", "read", "unget"}, known' = known, stream' = r.s,
         Typed(r.s), r.what \in {"done", "end", "error"},
         S!Has(r.s, "SWR") => r.s.m_buf = <<>>,
         r.what # "error" =>
           /\ Reader(r.s, known, position') /\ ~S!Has(r.s, "SWR") /\ S!Reads(r.s)
           /\ r.s.m_p = UngetSize,
         r.what = "end" => r.s.m_r = 0,
         IF r.what = "done" THEN /\ call' \in Calls /\ InRead(call') /\ last' = last
                                 /\ failed' = FALSE
         ELSE call' = S!NoCall /\ S!ReadEnds(r.what)
  PROVE  StreamInv'
<1>0. r.s.m_status \in Statuses /\ UngetSize > 0
  BY TypedFields, Sizes
<1>1. CASE r.what = "done"
  <2>1. call'.name # "write" /\ last' \in {"seek", "read", "unget", "write"}
    BY <1>1 DEF InRead
  <2>2. r.s.m_status # {} /\ r.s.m_p > 0
    BY <1>0, <1>1, StatusFacts
  <2>3. Good(stream', call', known', position', last')
    BY <1>1, <2>1, <2>2, ReaderGood
  <2> QED BY <1>1, <2>3, InvOK
<1>2. CASE r.what = "end"
  <2>1. last' = "seek" /\ failed' = FALSE /\ call' = S!NoCall
    BY <1>2 DEF S!ReadEnds
  <2>2. r.s.m_status # {}
    BY <1>0, <1>2, StatusFacts
  <2>3. Good(stream', call', known', position', last')
    BY <1>2, <2>1, <2>2, NoCallIs, ReaderGood
  <2> QED BY <2>1, <2>3, InvOK
<1>3. CASE r.what = "error"
  <2>1. failed' = TRUE /\ call' = S!NoCall
    BY <1>3 DEF S!ReadEnds
  <2> QED BY <2>1, InvFailed
<1> QED BY <1>1, <1>2, <1>3

(* What is known in a call that reads. *)
LEMMA InReadFacts ==
  ASSUME S!StreamAssumption, StreamInv, InRead(call)
  PROVE  /\ call \in Calls /\ call # S!NoCall /\ failed = FALSE /\ wrong = FALSE
         /\ call.todo \in Nat /\ call.todo > 0 /\ call.name \in {"fread", "fgets"}
         /\ last # "write" /\ last \in {"seek", "read", "unget"} /\ S!Reads(stream)
         /\ Typed(stream) /\ S!View(stream) = known /\ Bytes(known)
         /\ NextPos(stream) = position + stream.m_r
         /\ position \in Nat /\ stream.m_r \in Nat
         /\ ~S!Has(stream, "SWR") => Reader(stream, known, position) /\ stream.m_w = 0
         /\ S!Has(stream, "SWR") => stream.m_r = 0
<1>1. call # S!NoCall
  BY NoCallIs
<1>2. failed = FALSE /\ wrong = FALSE /\ Good(stream, call, known, position, last)
  BY <1>1 DEF StreamInv
<1>3. /\ call \in Calls /\ last # "write" /\ last \in {"seek", "read", "unget", "write"}
      /\ S!Reads(stream) /\ (stream.append /\ S!Has(stream, "SWR") => position = Len(known))
  BY <1>2 DEF Good
<1>4. call.todo \in Nat /\ call.todo > 0 /\ call.name \in {"fread", "fgets"}
  BY <1>1, <1>3 DEF Calls, InRead
<1> QED BY <1>1, <1>2, <1>3, <1>4, GoodReads

(* A call that has done a part goes on.                                    *)
LEMMA TodoLess ==
  ASSUME call \in Calls, call # S!NoCall, NEW k \in Nat, call.todo > k,
         call' = [call EXCEPT !.todo = @ - k]
  PROVE  call' \in Calls /\ call'.name = call.name /\ (InRead(call) => InRead(call'))
<1>1. call \in [name : {"fread", "fgets", "write"}, todo : Nat \ {0}]
  BY DEF Calls
<1>2. call.todo - k \in Nat \ {0}
  BY <1>1
<1>3. call' \in [name : {"fread", "fgets", "write"}, todo : Nat \ {0}] /\ call'.name = call.name
  BY <1>1, <1>2
<1> QED BY <1>3 DEF Calls, InRead

(* fread() takes what is there and fills the buffer again.                 *)
LEMMA InvFreadPass ==
  ASSUME S!StreamAssumption, Careful = TRUE, StreamInv, S!freadPass
  PROVE  StreamInv'
<1> DEFINE k == stream.m_r
           t == [stream EXCEPT !.m_p = @ + k]
<1>1. call.name = "fread" /\ InRead(call) /\ call.todo > k /\ known' = known
  BY DEF S!freadPass, InRead
<1>2. PICK r \in S!fillBuf(t) :
       /\ stream' = r.s
       /\ wrong' = \/ wrong
                   \/ S!Ahead(stream, k) # SubSeq(known, position + 1, position + k)
                   \/ S!Short(r.what, position + k)
       /\ position' = position + k
       /\ IF r.what = "done"
          THEN call' = [call EXCEPT !.todo = @ - k] /\ UNCHANGED <<last, failed>>
          ELSE call' = S!NoCall /\ S!ReadEnds(r.what)
  BY DEF S!freadPass
<1>3. /\ call \in Calls /\ call # S!NoCall /\ failed = FALSE /\ wrong = FALSE
      /\ last # "write" /\ last \in {"seek", "read", "unget"} /\ S!Reads(stream)
      /\ Typed(stream) /\ S!View(stream) = known /\ Bytes(known)
      /\ NextPos(stream) = position + k
      /\ position \in Nat /\ k \in Nat
      /\ ~S!Has(stream, "SWR") => Reader(stream, known, position) /\ stream.m_w = 0
      /\ S!Has(stream, "SWR") => k = 0
  BY <1>1, InReadFacts
<1>4. stream.m_p + k \in 0 .. BufSize /\ t = [stream EXCEPT !.m_p = stream.m_p + k]
  <2>1. stream.m_p \in 0 .. BufSize /\ BufSize \in Nat
    BY <1>3, TypedFields, Sizes
  <2>2. stream.m_p + k <= BufSize
    BY <1>3, <2>1 DEF Reader
  <2> QED BY <1>3, <2>1, <2>2
<1>5. /\ Typed(t) /\ S!View(t) = known /\ NextPos(t) = position + k /\ t.m_w = stream.m_w
      /\ (S!Has(t, "SWR") <=> S!Has(stream, "SWR")) /\ S!Reads(t)
  BY <1>3, <1>4, OtherPlace
<1> HIDE DEF t
<1>6. /\ Typed(r.s) /\ r.what \in {"done", "end", "error"}
      /\ S!Has(r.s, "SWR") => r.s.m_buf = <<>>
      /\ r.what # "error" =>
           /\ Reader(r.s, known, position + k) /\ ~S!Has(r.s, "SWR") /\ S!Reads(r.s)
           /\ r.s.m_p = UngetSize
      /\ r.what = "end" => r.s.m_r = 0 /\ position + k = Len(known)
  BY <1>2, <1>3, <1>5, Filled
<1>7. S!Ahead(stream, k) = SubSeq(known, position + 1, position + k)
  <2>1. CASE S!Has(stream, "SWR")
    <3>1. k = 0 /\ known \in Seq(Int)
      BY <1>3, <2>1 DEF Bytes
    <3>2. SubSeq(known, position + 1, position + 0) = <<>>
      BY <1>3, <3>1, NoPart
    <3>3. S!Ahead(stream, 0) = <<>>
      BY DEF S!Ahead
    <3> QED BY <3>1, <3>2, <3>3
  <2>2. CASE ~S!Has(stream, "SWR")
    <3>1. Reader(stream, known, position) /\ k \in 0 .. stream.m_r
      BY <1>3, <2>2
    <3> QED BY <3>1, Takes
  <2> QED BY <2>1, <2>2
<1> HIDE DEF k
<1>8. wrong' = FALSE
  BY <1>2, <1>3, <1>6, <1>7 DEF S!Short
<1>9. r.what = "done" => call' \in Calls /\ InRead(call')
  BY <1>1, <1>2, <1>3, TodoLess
<1> QED BY <1>1, <1>2, <1>3, <1>6, <1>8, <1>9, InvFill

(* fread() takes the last bytes.                                           *)
LEMMA InvFreadEnd ==
  ASSUME S!StreamAssumption, Careful = TRUE, StreamInv, S!freadEnd
  PROVE  StreamInv'
<1>1. /\ InRead(call) /\ call.todo <= stream.m_r /\ stream' = S!Taken(stream, call.todo)
      /\ S!Gets(S!Ahead(stream, call.todo)) /\ call' = S!NoCall /\ last' = "read" /\ failed' = FALSE
  BY DEF S!freadEnd, InRead, S!ReadEnds
<1>2. /\ wrong = FALSE /\ call.todo \in Nat /\ call.todo > 0 /\ S!Reads(stream)
      /\ stream.m_r \in Nat
      /\ ~S!Has(stream, "SWR") => Reader(stream, known, position)
      /\ S!Has(stream, "SWR") => stream.m_r = 0
  BY <1>1, InReadFacts
<1>3. ~S!Has(stream, "SWR") /\ call.todo \in 1 .. stream.m_r
  BY <1>1, <1>2
<1>4. /\ wrong' = FALSE /\ Reader(stream', known', position')
      /\ ~S!Has(stream', "SWR") /\ stream'.m_status # {} /\ stream'.m_p > 0
  BY <1>1, <1>2, <1>3, AfterTake
<1>5. Good(stream', call', known', position', last')
  BY <1>1, <1>4, NoCallIs, ReaderGood
<1> QED BY <1>1, <1>4, <1>5, InvOK

(* fgets() finds the buffer empty.                                         *)
LEMMA InvFgetsFill ==
  ASSUME S!StreamAssumption, Careful = TRUE, StreamInv, S!fgetsFill
  PROVE  StreamInv'
<1>1. InRead(call) /\ stream.m_r = 0 /\ UNCHANGED <<known, position>>
  BY DEF S!fgetsFill, InRead
<1>2. PICK r \in S!fillBuf(stream) :
       /\ stream' = r.s
       /\ IF r.what = "done" THEN UNCHANGED <<call, last, wrong, failed>>
          ELSE /\ call' = S!NoCall /\ S!ReadEnds(r.what)
               /\ wrong' = (wrong \/ S!Short(r.what, position))
  BY DEF S!fgetsFill
<1>3. /\ call \in Calls /\ failed = FALSE /\ wrong = FALSE
      /\ last # "write" /\ last \in {"seek", "read", "unget"} /\ S!Reads(stream)
      /\ Typed(stream) /\ S!View(stream) = known /\ Bytes(known)
      /\ NextPos(stream) = position + stream.m_r /\ position \in Nat
      /\ ~S!Has(stream, "SWR") => stream.m_w = 0
  BY <1>1, InReadFacts
<1>4. NextPos(stream) = position
  BY <1>1, <1>3
<1>5. /\ Typed(r.s) /\ r.what \in {"done", "end", "error"}
      /\ S!Has(r.s, "SWR") => r.s.m_buf = <<>>
      /\ r.what # "error" =>
           /\ Reader(r.s, known, position) /\ ~S!Has(r.s, "SWR") /\ S!Reads(r.s)
           /\ r.s.m_p = UngetSize
      /\ r.what = "end" => r.s.m_r = 0 /\ position = Len(known)
  BY <1>2, <1>3, <1>4, Filled
<1>6. wrong' = FALSE
  BY <1>2, <1>3, <1>5 DEF S!Short
<1>7. r.what = "done" => call' \in Calls /\ InRead(call')
  BY <1>1, <1>2, <1>3 DEF InRead
<1> QED BY <1>1, <1>2, <1>3, <1>5, <1>6, <1>7, InvFill

(* fgets() takes bytes up to a new-line or to the last it may.             *)
LEMMA InvFgetsCopy ==
  ASSUME S!StreamAssumption, Careful = TRUE, StreamInv, S!fgetsCopy
  PROVE  StreamInv'
<1>1. InRead(call) /\ stream.m_r > 0
  BY DEF S!fgetsCopy, InRead
<1>2. /\ wrong = FALSE /\ failed = FALSE /\ call.todo \in Nat /\ call.todo > 0 /\ S!Reads(stream)
      /\ stream.m_r \in Nat /\ call \in Calls /\ call # S!NoCall
      /\ last # "write" /\ last \in {"seek", "read", "unget"}
      /\ ~S!Has(stream, "SWR") => Reader(stream, known, position)
      /\ S!Has(stream, "SWR") => stream.m_r = 0
  BY <1>1, InReadFacts
<1>3. PICK k \in 1 .. S!Least(stream.m_r, call.todo), newLine \in BOOLEAN :
       /\ stream' = S!Taken(stream, k)
       /\ S!Gets(S!Ahead(stream, k))
       /\ IF newLine \/ k = call.todo THEN call' = S!NoCall /\ S!ReadEnds("done")
          ELSE call' = [call EXCEPT !.todo = @ - k] /\ UNCHANGED <<last, failed>>
  BY DEF S!fgetsCopy
<1>4. k \in 1 .. stream.m_r /\ k \in Nat /\ k <= call.todo
  BY <1>2 DEF S!Least
<1>5. ~S!Has(stream, "SWR")
  BY <1>1, <1>2
<1>6. /\ wrong' = FALSE /\ Reader(stream', known', position')
      /\ ~S!Has(stream', "SWR") /\ S!Reads(stream') /\ stream'.m_status # {} /\ stream'.m_p > 0
  BY <1>2, <1>3, <1>4, <1>5, AfterTake
<1>7. CASE newLine \/ k = call.todo
  <2>1. call' = S!NoCall /\ last' = "read" /\ failed' = FALSE
    BY <1>3, <1>7 DEF S!ReadEnds
  <2>2. Good(stream', call', known', position', last')
    BY <1>6, <2>1, NoCallIs, ReaderGood
  <2> QED BY <1>6, <2>1, <2>2, InvOK
<1>8. CASE ~(newLine \/ k = call.todo)
  <2>1. call' = [call EXCEPT !.todo = @ - k] /\ last' = last /\ failed' = FALSE
    BY <1>2, <1>3, <1>8
  <2>2. call.todo > k
    BY <1>2, <1>4, <1>8
  <2>3. call' \in Calls /\ InRead(call')
    BY <1>1, <1>2, <1>4, <2>1, <2>2, TodoLess
  <2>4. call'.name # "write"
    BY <2>3 DEF InRead
  <2>5. Good(stream', call', known', position', last')
    BY <1>2, <1>6, <2>1, <2>3, <2>4, ReaderGood
  <2> QED BY <1>6, <2>1, <2>5, InvOK
<1> QED BY <1>7, <1>8

(* ungetc() of the byte before the next one. *)
LEMMA Ungets ==
  ASSUME S!StreamAssumption, NEW s, NEW kn, NEW pos, Reader(s, kn, pos), pos > 0, s.m_p > 0
  PROVE  LET t == [s EXCEPT !.m_r = @ + 1, !.m_p = @ - 1, !.m_buf = <<kn[pos]>> \o @] IN
         Reader(t, kn, pos - 1) /\ t.m_status = s.m_status
<1> DEFINE t == [s EXCEPT !.m_r = @ + 1, !.m_p = @ - 1, !.m_buf = <<kn[pos]>> \o @]
           cp == s.curPosition
           m == s.m_r
           one == <<kn[pos]>>
           b == s.m_buf
           z == one \o b
           y == SubSeq(kn, pos - 1 + 1, cp)
<1>1. /\ Typed(s) /\ s.file = kn /\ s.m_w = 0 /\ m <= cp /\ s.m_p + m <= BufSize
      /\ pos = cp - m /\ b = SubSeq(kn, pos + 1, cp)
  BY DEF Reader
<1>2. /\ s \in Streams /\ Bytes(kn) /\ kn \in Seq(Int) /\ Len(kn) \in Nat /\ cp \in 0 .. Len(kn)
      /\ m \in 0 .. Uint8 - 1 /\ s.m_p \in 0 .. BufSize /\ BufSize \in Nat /\ Uint8 \in Nat
      /\ BufSize < Uint8
  BY <1>1, TypedFields, Sizes DEF Typed
<1> HIDE DEF cp, m
<1>3. /\ m \in Nat /\ cp \in Nat /\ cp <= Len(kn) /\ pos \in Nat /\ pos - 1 \in Nat /\ pos <= cp
      /\ cp - pos = m /\ pos - 1 <= cp /\ cp - (pos - 1) = m + 1 /\ pos \in 1 .. Len(kn)
  <2> DEFINE L == Len(kn)
  <2>1. m \in Nat /\ cp \in Nat /\ L \in Nat /\ cp <= L /\ m <= cp /\ pos = cp - m
    BY <1>1, <1>2
  <2> HIDE DEF L
  <2>2. pos \in Int /\ pos > 0 /\ pos <= cp /\ cp - pos = m
    BY <2>1
  <2>3. pos \in Nat /\ pos - 1 \in Nat /\ pos - 1 <= cp /\ cp - (pos - 1) = m + 1 /\ pos \in 1 .. L
    BY <2>1, <2>2
  <2> QED BY <2>1, <2>2, <2>3 DEF L
<1>4. b \in Seq(Int) /\ Len(b) = m /\ \A i \in 1 .. m : b[i] = kn[pos + i]
  <2> DEFINE q == SubSeq(kn, pos + 1, cp)
  <2>1. /\ q \in Seq(Int) /\ Len(q) = cp - pos /\ \A i \in 1 .. cp - pos : q[i] = kn[pos + i]
    BY <1>2, <1>3, PartInt
  <2> HIDE DEF q, b
  <2>2. b = q
    BY <1>1 DEF q
  <2> QED BY <1>3, <2>1, <2>2, Zenon
<1>5. one \in Seq(Int) /\ Len(one) = 1 /\ one[1] = kn[pos]
  <2>1. kn[pos] \in Int
    BY <1>2, <1>3, LenInt
  <2> QED BY <2>1
<1> HIDE DEF b, one
<1>6. /\ z \in Seq(Int) /\ Len(z) = 1 + m
      /\ \A i \in 1 .. 1 + m : z[i] = IF i <= 1 THEN one[i] ELSE b[i - 1]
  <2>1. /\ z \in Seq(Int) /\ Len(z) = Len(one) + Len(b)
        /\ \A i \in 1 .. Len(one) + Len(b) :
             z[i] = IF i <= Len(one) THEN one[i] ELSE b[i - Len(one)]
    BY <1>4, <1>5, ConcatInt
  <2>2. Len(one) = 1 /\ Len(b) = m
    BY <1>4, <1>5
  <2> QED BY <2>1, <2>2, Zenon
<1>7. /\ y \in Seq(Int) /\ Len(y) = m + 1 /\ \A i \in 1 .. m + 1 : y[i] = kn[pos - 1 + i]
  <2>1. /\ y \in Seq(Int) /\ Len(y) = cp - (pos - 1)
        /\ \A i \in 1 .. cp - (pos - 1) : y[i] = kn[pos - 1 + i]
    BY <1>2, <1>3, PartInt
  <2> QED BY <1>3, <2>1, Zenon
<1> HIDE DEF z, y
<1>8. z = y
  <2>1. ASSUME NEW i \in 1 .. m + 1 PROVE z[i] = y[i]
    <3>1. i \in 1 .. 1 + m
      BY <1>3
    <3>2. CASE i = 1
      <4>1. z[i] = one[1] /\ pos - 1 + i = pos
        BY <1>3, <1>6, <3>1, <3>2
      <4> QED BY <1>5, <1>7, <4>1
    <3>3. CASE i > 1
      <4>1. i - 1 \in 1 .. m /\ pos + (i - 1) = pos - 1 + i /\ ~(i <= 1)
        BY <1>3, <3>3
      <4>2. z[i] = b[i - 1]
        BY <1>6, <3>1, <4>1
      <4>3. b[i - 1] = kn[pos + (i - 1)]
        BY <1>4, <4>1
      <4> QED BY <1>7, <4>1, <4>2, <4>3
    <3> QED BY <1>3, <3>2, <3>3
  <2>2. 1 + m = m + 1
    BY <1>3
  <2> QED BY <1>6, <1>7, <2>1, <2>2, EqualInt
<1>9. t = [s EXCEPT !.m_r = m + 1, !.m_p = s.m_p - 1, !.m_buf = z]
  BY <1>2 DEF m, z, one, b, Streams
<1>10. /\ m + 1 \in 0 .. Uint8 - 1 /\ s.m_p - 1 \in 0 .. BufSize /\ m + 1 <= cp
       /\ s.m_p - 1 + (m + 1) <= BufSize /\ pos - 1 = cp - (m + 1) /\ m + 1 <= BufSize
  BY <1>1, <1>2, <1>3
<1>11. /\ t \in Streams /\ t.m_status = s.m_status /\ t.append = s.append /\ t.m_r = m + 1
       /\ t.m_p = s.m_p - 1 /\ t.m_w = s.m_w /\ t.m_buf = z /\ t.file = s.file
       /\ t.curPosition = cp
  BY <1>2, <1>6, <1>9, <1>10 DEF Streams, cp
<1> HIDE DEF t
<1>12. Typed(t)
  <2>1. Len(z) <= BufSize
    BY <1>2, <1>3, <1>6, <1>10
  <2> QED BY <1>1, <1>2, <1>11, <2>1 DEF Typed, cp
<1>13. Reader(t, kn, pos - 1)
  BY <1>1, <1>8, <1>10, <1>11, <1>12 DEF Reader, y
<1> QED BY <1>11, <1>13 DEF t

(* ungetc() of the byte that was read last.                                *)
LEMMA InvUngetc ==
  ASSUME S!StreamAssumption, Careful = TRUE, StreamInv, S!ungetc
  PROVE  StreamInv'
<1>1. /\ call = S!NoCall /\ failed = FALSE /\ wrong = FALSE /\ stream.m_status # {}
      /\ position > 0 /\ last \in {"read", "unget"} /\ ~S!Unmarked(stream)
      /\ UNCHANGED <<call, known, failed>>
  BY DEF S!ungetc, S!Open, S!Idle, StreamInv
<1>2. Good(stream, call, known, position, last)
  BY <1>1 DEF StreamInv
<1>3. /\ ~S!Has(stream, "SWR") /\ Reader(stream, known, position)
      /\ (last = "read" => stream.m_p > 0)
      /\ stream.m_status \in Statuses
  BY <1>1, <1>2, TypedFields DEF Good
<1>4. CASE S!Has(stream, "SRD") /\ stream.m_p > 0
  <2>1. /\ stream' = [stream EXCEPT !.m_r = @ + 1, !.m_p = @ - 1,
                                    !.m_buf = <<known[position]>> \o @]
        /\ position' = position - 1 /\ last' = "unget" /\ UNCHANGED wrong
    BY <1>4 DEF S!ungetc
  <2>2. Reader(stream', known, position - 1) /\ stream'.m_status = stream.m_status
    BY <1>1, <1>3, <1>4, <2>1, Ungets
  <2>3. ~S!Has(stream', "SWR") /\ stream'.m_status # {}
    BY <1>1, <1>3, <2>2 DEF S!Has
  <2>4. Good(stream', call', known', position', last')
    BY <1>1, <2>1, <2>2, <2>3, NoCallIs, ReaderGood
  <2> QED BY <1>1, <2>1, <2>4, InvOK
<1>5. CASE ~(S!Has(stream, "SRD") /\ stream.m_p > 0)
  <2>1. wrong' = (wrong \/ last = "read") /\ UNCHANGED <<stream, position, last>>
    BY <1>5 DEF S!ungetc
  <2>2. last # "read"
    <3>1. ASSUME last = "read" PROVE FALSE
      <4>1. ~S!Has(stream, "SRD")
        BY <1>3, <1>5, <3>1
      <4>2. stream.m_status = {"SRW"}
        BY <1>1, <1>3, <4>1 DEF S!Has, Statuses
      <4> QED BY <1>1, <3>1, <4>2 DEF S!Unmarked
    <3> QED BY <3>1
  <2>3. wrong' = FALSE
    BY <1>1, <2>1, <2>2
  <2> QED BY <1>1, <1>2, <2>1, <2>3, InvOK
<1> QED BY <1>4, <1>5

-----------------------------------------------------------------------------
(* Bytes are put behind those that are known to the buffer. *)
LEMMA AfterPut ==
  ASSUME S!StreamAssumption, NEW s, Unwritten(s, known, position), s.m_p + s.m_w = BufSize,
         NEW k \in 0 .. s.m_w, S!Stores(s, k)
  PROVE  LET t == S!Put(s, S!NewBytes(s, k)) IN
         /\ Writer(t, known', position') /\ (t.append => position' = Len(known'))
         /\ t.m_p = s.m_p + k /\ t.append = s.append /\ t.m_status = s.m_status
<1> DEFINE f == FollowingIn(s, known, position)
           nb == S!NewBytes(s, k)
<1>1. S!Following(s) = f
  BY DEF S!Following, FollowingIn
<1>2. f \in Nat
  <2>1. f = NextPos(s) /\ NextPos(s) \in 0 .. Len(known) /\ Len(known) \in Nat
    BY FollowsAll
  <2> HIDE DEF f
  <2> QED BY <2>1
<1>3. k \in Nat
  <2>1. s.m_w \in Nat
    BY TypedFields, Sizes DEF Unwritten
  <2> QED BY <2>1
<1> HIDE DEF f
<1>4. nb = [i \in 1 .. k |-> S!Stored(f + i)]
  BY <1>1 DEF S!NewBytes
<1>5. nb \in Seq(Int) /\ Len(nb) = k /\ \A i \in 1 .. k : nb[i] = S!Stored(f + i)
  <2>1. \A i \in 1 .. k : S!Stored(f + i) \in Int
    BY <1>2 DEF S!Stored
  <2> QED BY <1>3, <1>4, <2>1
<1>6. f + k <= MaxSize /\ known' = S!Overwritten(known, f, nb) /\ position' = f + k
  BY <1>1 DEF S!Stores
<1> HIDE DEF nb
<1>7. /\ Writer(S!Put(s, nb), S!Overwritten(known, f, nb), f + k)
      /\ (s.append => f + k = Len(S!Overwritten(known, f, nb)))
      /\ S!Put(s, nb).m_p = s.m_p + k /\ S!Put(s, nb).append = s.append
      /\ S!Put(s, nb).m_status = s.m_status
  BY <1>5, <1>6, Puts DEF f
<1> QED BY <1>6, <1>7 DEF nb

(* A stream that writes.                                                   *)
LEMMA WriterGood ==
  ASSUME NEW s, NEW c \in Calls, NEW kn, NEW pos, NEW la \in {"seek", "write"},
         Writer(s, kn, pos), ~InRead(c), c.name = "write" => la = "write" /\ S!Writes(s),
         c.name # "write" => AtEnd(s, kn, pos)
  PROVE  Good(s, c, kn, pos, la)
<1>1. Typed(s) /\ S!Has(s, "SWR") /\ s.m_r = 0
  BY DEF Writer, Unwritten
<1>2. s.m_status # {}
  BY <1>1 DEF S!Has
<1> QED BY <1>1, <1>2 DEF Good

(* What is known when a program may write. *)
LEMMA MayWriteFacts ==
  ASSUME S!StreamAssumption, Careful = TRUE, StreamInv, S!MayWrite
  PROVE  /\ call = S!NoCall /\ failed = FALSE /\ wrong = FALSE
         /\ Good(stream, call, known, position, last) /\ last \in {"seek", "write"}
         /\ S!Writes(stream) /\ Writable(stream, known, position)
         /\ stream.m_w > 0 => /\ S!Has(stream, "SWR") /\ Unwritten(stream, known, position)
                              /\ stream.m_p + stream.m_w = BufSize
<1>1. /\ call = S!NoCall /\ failed = FALSE /\ wrong = FALSE /\ last \in {"seek", "write"}
      /\ S!Writes(stream)
  BY DEF S!MayWrite, S!Open, S!Idle, StreamInv
<1>2. Good(stream, call, known, position, last)
  BY <1>1 DEF StreamInv
<1> QED BY <1>1, <1>2, NoCallIs, GoodWrites

(* putc() and putCRLF(): k bytes in a buffer that may have to be flushed.  *)
LEMMA InvPut ==
  ASSUME S!StreamAssumption, Careful = TRUE, StreamInv, S!MayWrite, NEW k \in 1 .. 2, NEW r,
         \/ \E room \in 0 .. Uint8 - 1 : r \in S!flushBuf([stream EXCEPT !.m_w = room])
         \/ stream.m_w >= k /\ r = S!Outcome("done", stream),
         IF r.what = "done"
         THEN stream' = S!Put(r.s, S!NewBytes(r.s, k)) /\ S!Stores(r.s, k) /\ failed' = failed
         ELSE stream' = r.s /\ failed' = TRUE /\ UNCHANGED <<known, position>>,
         last' = "write", UNCHANGED <<call, wrong>>
  PROVE  StreamInv'
<1>1. /\ call = S!NoCall /\ failed = FALSE /\ wrong = FALSE
      /\ Writable(stream, known, position)
      /\ stream.m_w > 0 => /\ S!Has(stream, "SWR") /\ Unwritten(stream, known, position)
                           /\ stream.m_p + stream.m_w = BufSize
  BY MayWriteFacts
<1>2. BufSize \in Nat /\ BufSize > 2 /\ k \in Nat /\ k > 0 /\ k <= 2
  BY Sizes
<1>3. /\ Typed(r.s) /\ r.what \in {"done", "error"}
      /\ r.what = "error" => (S!Has(r.s, "SWR") => r.s.m_buf = <<>>)
      /\ r.what = "done" => /\ Unwritten(r.s, known, position) /\ r.s.m_p + r.s.m_w = BufSize
                            /\ k \in 0 .. r.s.m_w /\ r.s.m_p \in Nat
  <2>1. ASSUME NEW room \in 0 .. Uint8 - 1, r \in S!flushBuf([stream EXCEPT !.m_w = room])
        PROVE  <1>3!1 /\ <1>3!2 /\ <1>3!3
    <3> DEFINE t == [stream EXCEPT !.m_w = room]
    <3>1. Writable(t, known, position)
      BY <1>1, OtherRoom
    <3> HIDE DEF t
    <3>2. r \in S!flushBuf(t)
      BY <2>1 DEF t
    <3>3. /\ Typed(r.s) /\ r.what \in {"done", "error"} /\ (S!Has(r.s, "SWR") => r.s.m_buf = <<>>)
          /\ r.what = "done" => /\ Writer(r.s, known, position) /\ r.s.m_w = BufSize /\ r.s.m_p = 0
      BY <3>1, <3>2, MadeWritable
    <3> QED BY <1>2, <3>3 DEF Writer
  <2>2. ASSUME stream.m_w >= k, r = S!Outcome("done", stream)
        PROVE  <1>3!1 /\ <1>3!2 /\ <1>3!3
    <3>1. r.s = stream /\ r.what = "done"
      BY <2>2 DEF S!Outcome
    <3>2. Typed(stream) /\ stream.m_w \in Nat /\ stream.m_p \in Nat
      BY <1>1, TypedFields, Sizes DEF Writable
    <3> QED BY <1>1, <1>2, <2>2, <3>1, <3>2
  <2> QED BY <2>1, <2>2
<1>4. CASE r.what = "done"
  <2> DEFINE t == S!Put(r.s, S!NewBytes(r.s, k))
  <2>1. stream' = t /\ S!Stores(r.s, k) /\ failed' = FALSE
    BY <1>1, <1>4
  <2>2. /\ Writer(t, known', position') /\ (t.append => position' = Len(known'))
        /\ t.m_p = r.s.m_p + k
    BY <1>3, <1>4, <2>1, AfterPut
  <2> HIDE DEF t
  <2>3. t.m_p > 0
    BY <1>2, <1>3, <1>4, <2>2
  <2>4. AtEnd(t, known', position')
    BY <2>2, <2>3 DEF AtEnd
  <2>5. Good(stream', call', known', position', last')
    BY <1>1, <2>1, <2>2, <2>4, NoCallIs, WriterGood
  <2> QED BY <1>1, <2>1, <2>5, InvOK
<1>5. CASE r.what = "error"
  BY <1>1, <1>3, <1>5, InvFailed
<1> QED BY <1>3, <1>4, <1>5

(* putc() is InvPut for one byte.                                          *)
LEMMA InvPutc ==
  ASSUME S!StreamAssumption, Careful = TRUE, StreamInv, S!putc
  PROVE  StreamInv'
<1>1. S!MayWrite /\ last' = "write" /\ UNCHANGED <<call, wrong>>
  BY DEF S!putc
<1>2. PICK r \in IF stream.m_w = 0 THEN S!flushBuf([stream EXCEPT !.m_w = Uint8 - 1])
                 ELSE {S!Outcome("done", stream)} :
        IF r.what = "done"
        THEN stream' = S!Put(r.s, S!NewBytes(r.s, 1)) /\ S!Stores(r.s, 1) /\ failed' = failed
        ELSE stream' = r.s /\ failed' = TRUE /\ UNCHANGED <<known, position>>
  BY DEF S!putc
<1>3. \/ \E room \in 0 .. Uint8 - 1 : r \in S!flushBuf([stream EXCEPT !.m_w = room])
      \/ stream.m_w >= 1 /\ r = S!Outcome("done", stream)
  <2>1. CASE stream.m_w = 0
    <3>1. Uint8 - 1 \in 0 .. Uint8 - 1 /\ r \in S!flushBuf([stream EXCEPT !.m_w = Uint8 - 1])
      BY <1>2, <2>1, Sizes
    <3> QED BY <3>1
  <2>2. CASE stream.m_w # 0
    <3>1. stream.m_w \in Nat
      BY TypedFields, Sizes DEF StreamInv
    <3> QED BY <1>2, <2>2, <3>1
  <2> QED BY <2>1, <2>2
<1>4. 1 \in 1 .. 2
  OBVIOUS
<1> QED BY <1>1, <1>2, <1>3, <1>4, InvPut

(* putCRLF() is InvPut for two.                                            *)
LEMMA InvPutCRLF ==
  ASSUME S!StreamAssumption, Careful = TRUE, StreamInv, S!putCRLF
  PROVE  StreamInv'
<1>1. S!MayWrite /\ last' = "write" /\ UNCHANGED <<call, wrong>>
  BY DEF S!putCRLF
<1>2. PICK r \in IF stream.m_w < 2 THEN S!flushBuf(stream) ELSE {S!Outcome("done", stream)} :
        IF r.what = "done"
        THEN stream' = S!Put(r.s, S!NewBytes(r.s, 2)) /\ S!Stores(r.s, 2) /\ failed' = failed
        ELSE stream' = r.s /\ failed' = TRUE /\ UNCHANGED <<known, position>>
  BY DEF S!putCRLF
<1>3. stream.m_w \in 0 .. Uint8 - 1 /\ Uint8 \in Nat /\ stream \in Streams
  BY TypedFields, Sizes DEF StreamInv, Typed
<1>4. \/ \E room \in 0 .. Uint8 - 1 : r \in S!flushBuf([stream EXCEPT !.m_w = room])
      \/ stream.m_w >= 2 /\ r = S!Outcome("done", stream)
  <2>1. CASE stream.m_w < 2
    <3>1. stream = [stream EXCEPT !.m_w = stream.m_w]
      BY <1>3 DEF Streams
    <3>2. r \in S!flushBuf([stream EXCEPT !.m_w = stream.m_w])
      BY <1>2, <2>1, <3>1
    <3> QED BY <1>3, <3>2
  <2>2. CASE ~(stream.m_w < 2)
    BY <1>2, <1>3, <2>2
  <2> QED BY <2>1, <2>2
<1>5. 2 \in 1 .. 2
  OBVIOUS
<1> QED BY <1>1, <1>2, <1>4, <1>5, InvPut

(* write() starts.                                                         *)
LEMMA InvWriting ==
  ASSUME S!StreamAssumption, Careful = TRUE, StreamInv, NEW k \in 1 .. MaxCall, S!Writing(k)
  PROVE  StreamInv'
<1> DEFINE c == [name |-> "write", todo |-> k]
<1>1. /\ S!MayWrite /\ call' = c /\ last' = "write"
      /\ UNCHANGED <<stream, known, position, wrong, failed>>
  BY DEF S!Writing
<1>2. /\ failed = FALSE /\ wrong = FALSE /\ Good(stream, call, known, position, last)
      /\ last \in {"seek", "write"} /\ S!Writes(stream) /\ call = S!NoCall
  BY <1>1, MayWriteFacts
<1>3. k \in Nat \ {0}
  BY DEF S!StreamAssumption
<1>4. c \in Calls /\ c.name = "write" /\ ~InRead(c) /\ c # S!NoCall
  BY <1>3 DEF Calls, InRead, S!NoCall
<1> HIDE DEF c
<1>5. CASE S!Has(stream, "SWR")
  <2>1. Writer(stream, known, position)
    BY <1>2, <1>5 DEF Good
  <2>2. Good(stream, c, known, position, "write")
    BY <1>2, <1>4, <2>1, WriterGood
  <2> QED BY <1>1, <1>2, <2>2, InvOK
<1>6. CASE ~S!Has(stream, "SWR")
  <2>1. Good(stream, c, known, position, "write")
    BY <1>2, <1>4, <1>6, NoCallIs, StatusFacts, TypedFields DEF Good
  <2> QED BY <1>1, <1>2, <2>1, InvOK
<1> QED BY <1>5, <1>6

(* What is known while write() runs. *)
LEMMA InWriteFacts ==
  ASSUME S!StreamAssumption, StreamInv, call.name = "write"
  PROVE  /\ call \in Calls /\ call # S!NoCall /\ failed = FALSE /\ wrong = FALSE
         /\ call.todo \in Nat /\ call.todo > 0 /\ last = "write"
         /\ S!Writes(stream) /\ Writable(stream, known, position) /\ stream.m_w \in Nat
         /\ stream.m_w > 0 => /\ S!Has(stream, "SWR") /\ Unwritten(stream, known, position)
                              /\ stream.m_p + stream.m_w = BufSize
         /\ S!Following(stream) \in 0 .. Len(known) /\ stream.m_p \in Nat
<1>1. call # S!NoCall /\ ~InRead(call)
  BY DEF S!NoCall, InRead
<1>2. failed = FALSE /\ wrong = FALSE /\ Good(stream, call, known, position, last)
  BY <1>1 DEF StreamInv
<1>3. call \in Calls /\ last = "write" /\ S!Writes(stream) /\ Typed(stream)
  BY <1>2 DEF Good
<1>4. call.todo \in Nat /\ call.todo > 0
  BY <1>1, <1>3 DEF Calls
<1>5. /\ Writable(stream, known, position)
      /\ S!Has(stream, "SWR") => Writer(stream, known, position)
      /\ ~S!Has(stream, "SWR") => Reader(stream, known, position)
      /\ stream.m_w > 0 => /\ S!Has(stream, "SWR") /\ Unwritten(stream, known, position)
                           /\ stream.m_p + stream.m_w = BufSize
      /\ stream.m_p \in Nat
  BY <1>1, <1>2, <1>3, GoodWrites
<1>6. stream.m_w \in Nat /\ stream.m_r \in Nat
  BY <1>3, TypedFields, Sizes
<1>7. S!Following(stream) = FollowingIn(stream, known, position)
  BY DEF S!Following, FollowingIn
<1> DEFINE f == FollowingIn(stream, known, position)
<1>8. f \in 0 .. Len(known)
  <2>1. CASE S!Has(stream, "SWR")
    <3>1. f = NextPos(stream) /\ NextPos(stream) \in 0 .. Len(known)
      BY <1>5, <2>1, FollowsAll DEF Writer
    <3> HIDE DEF f
    <3> QED BY <3>1
  <2>2. CASE ~S!Has(stream, "SWR")
    <3>1. position \in Nat /\ position <= Len(known)
      <4>1. 0 \in 0 .. stream.m_r
        BY <1>6
      <4> QED BY <1>5, <2>2, <4>1, Takes
    <3>2. Len(known) \in Nat
      <4>1. known = stream.file
        BY <1>5, <2>2 DEF Reader
      <4> QED BY <1>3, <4>1, TypedFields
    <3> QED BY <3>1, <3>2 DEF FollowingIn
  <2> QED BY <2>1, <2>2
<1> HIDE DEF f
<1> QED BY <1>1, <1>2, <1>3, <1>4, <1>5, <1>6, <1>7, <1>8 DEF f

(* write() fills the buffer, or with no room puts nothing, and flushes it. *)
LEMMA InvWritePass ==
  ASSUME S!StreamAssumption, Careful = TRUE, StreamInv, S!writePass
  PROVE  StreamInv'
<1> DEFINE k == stream.m_w
           t == S!Put(stream, S!NewBytes(stream, k))
<1>1. call.name = "write" /\ call.todo > k /\ S!Stores(stream, k) /\ UNCHANGED <<last, wrong>>
  BY DEF S!writePass
<1>2. PICK r \in S!flushBuf(t) :
        /\ stream' = r.s /\ failed' = (r.what # "done")
        /\ call' = IF r.what = "done" THEN [call EXCEPT !.todo = @ - k] ELSE S!NoCall
  BY DEF S!writePass
<1>3. /\ call \in Calls /\ call # S!NoCall /\ failed = FALSE /\ wrong = FALSE
      /\ last = "write" /\ S!Writes(stream) /\ Writable(stream, known, position) /\ k \in Nat
      /\ k > 0 => /\ S!Has(stream, "SWR") /\ Unwritten(stream, known, position)
                  /\ stream.m_p + k = BufSize
      /\ S!Following(stream) \in 0 .. Len(known) /\ stream.m_p \in Nat
  BY <1>1, InWriteFacts
<1>4. Writable(t, known', position')
  <2>1. CASE k > 0
    <3>1. k \in 0 .. stream.m_w
      BY <1>3
    <3>2. Writer(t, known', position') /\ t.m_status = stream.m_status
      BY <1>1, <1>3, <2>1, <3>1, AfterPut
    <3> HIDE DEF t
    <3>3. S!Writes(t) /\ S!Has(t, "SWR")
      BY <1>3, <2>1, <3>2 DEF S!Writes, S!Has
    <3> QED BY <3>2, <3>3 DEF Writer, Unwritten, Writable
  <2>2. CASE k = 0
    <3> DEFINE f == S!Following(stream)
               nb == S!NewBytes(stream, k)
    <3>1. nb = <<>>
      BY <2>2 DEF S!NewBytes
    <3>2. stream \in Streams /\ stream.m_buf \in Seq(Int) /\ Bytes(known)
      BY <1>3 DEF Writable, Typed, Streams
    <3>3. stream.m_buf \o <<>> = stream.m_buf
      <4>1. /\ stream.m_buf \o <<>> \in Seq(Int)
            /\ Len(stream.m_buf \o <<>>) = Len(stream.m_buf) + 0
            /\ \A i \in 1 .. Len(stream.m_buf) + 0 :
                 (stream.m_buf \o <<>>)[i] =
                   IF i <= Len(stream.m_buf) THEN stream.m_buf[i] ELSE <<>>[i - Len(stream.m_buf)]
        BY <3>2, EmptyInt, ConcatInt
      <4>2. Len(stream.m_buf) \in Nat
        BY <3>2, LenInt
      <4> DEFINE x == stream.m_buf \o <<>>
                 y == stream.m_buf
      <4>3. Len(x) = Len(y) /\ \A i \in 1 .. Len(x) : x[i] = y[i]
        BY <4>1, <4>2
      <4> HIDE DEF x, y
      <4>4. x \in Seq(Int) /\ y \in Seq(Int)
        BY <3>2, <4>1 DEF x, y
      <4>5. x = y
        BY <4>3, <4>4, EqualInt
      <4> QED BY <4>5 DEF x, y
    <3>4. t = stream
      <4>1. t = [stream EXCEPT !.m_buf = @ \o <<>>, !.m_p = @ + 0, !.m_w = @ - 0]
        BY <3>1, EmptyInt DEF S!Put
      <4>2. stream.m_p + 0 = stream.m_p /\ stream.m_w - 0 = stream.m_w
        BY <1>3
      <4> HIDE DEF t
      <4> QED BY <3>2, <3>3, <4>1, <4>2 DEF Streams
    <3>5. known' = S!Overwritten(known, f, nb) /\ position' = f + k
      BY <1>1 DEF S!Stores
    <3>6. known' = known
      BY <1>3, <3>1, <3>2, <3>5, OverwrittenNot DEF Bytes
    <3>7. ~stream.append => position' = position
      <4>1. f \in Nat
        <5>1. Len(known) \in Nat
          BY <3>2, LenInt DEF Bytes
        <5> QED BY <1>3, <5>1
      <4>2. position' = f
        BY <2>2, <3>5, <4>1
      <4> QED BY <4>2 DEF S!Following
    <3> HIDE DEF t
    <3>8. Writable(stream, known, position')
      BY <1>3, <3>7 DEF Writable, Unwritten
    <3> QED BY <3>4, <3>6, <3>8
  <2> QED BY <1>3, <2>1, <2>2
<1> HIDE DEF t
<1>5. /\ Typed(r.s) /\ r.what \in {"done", "error"} /\ (S!Has(r.s, "SWR") => r.s.m_buf = <<>>)
      /\ r.what = "done" => Writer(r.s, known', position') /\ S!Writes(r.s)
  BY <1>2, <1>4, MadeWritable
<1>6. CASE r.what = "done"
  <2>1. call' = [call EXCEPT !.todo = @ - k] /\ failed' = FALSE /\ stream' = r.s
    BY <1>2, <1>6
  <2>2. call' \in Calls /\ call'.name = "write"
    BY <1>1, <1>3, <2>1, TodoLess
  <2>3. ~InRead(call')
    BY <2>2 DEF InRead
  <2>4. last' = "write" /\ wrong' = FALSE
    BY <1>1, <1>3
  <2>5. Good(r.s, call', known', position', "write")
    BY <1>5, <1>6, <2>2, <2>3, WriterGood
  <2> QED BY <2>1, <2>4, <2>5, InvOK
<1>7. CASE r.what = "error"
  <2>1. call' = S!NoCall /\ failed' = TRUE /\ stream' = r.s /\ wrong' = FALSE
    BY <1>1, <1>2, <1>3, <1>7
  <2> QED BY <1>5, <2>1, InvFailed
<1> QED BY <1>5, <1>6, <1>7

(* write() puts the last bytes.                                            *)
LEMMA InvWriteEnd ==
  ASSUME S!StreamAssumption, Careful = TRUE, StreamInv, S!writeEnd
  PROVE  StreamInv'
<1> DEFINE k == call.todo
           t == S!Put(stream, S!NewBytes(stream, k))
<1>1. /\ call.name = "write" /\ k <= stream.m_w /\ stream' = t /\ S!Stores(stream, k)
      /\ call' = S!NoCall /\ UNCHANGED <<last, wrong, failed>>
  BY DEF S!writeEnd
<1>2. /\ failed = FALSE /\ wrong = FALSE /\ last = "write" /\ S!Writes(stream)
      /\ stream.m_w \in Nat /\ k \in Nat /\ k > 0 /\ stream.m_p \in Nat
      /\ stream.m_w > 0 => /\ Unwritten(stream, known, position)
                           /\ stream.m_p + stream.m_w = BufSize
  BY <1>1, InWriteFacts
<1> HIDE DEF k
<1>3. stream.m_w > 0 /\ k \in 0 .. stream.m_w
  BY <1>1, <1>2
<1>4. /\ Writer(t, known', position') /\ (t.append => position' = Len(known'))
      /\ t.m_p = stream.m_p + k
  BY <1>1, <1>2, <1>3, AfterPut
<1> HIDE DEF t
<1>5. t.m_p > 0
  BY <1>2, <1>4
<1>6. AtEnd(t, known', position')
  BY <1>4, <1>5 DEF AtEnd
<1>7. Good(stream', call', known', position', last')
  BY <1>1, <1>2, <1>4, <1>6, NoCallIs, WriterGood
<1> QED BY <1>1, <1>2, <1>7, InvOK

(* A stream of a file that is known, put at position c with no byte in its *)
(* buffer.                                                                 *)
LEMMA Placed ==
  ASSUME S!StreamAssumption, NEW s \in Streams, NEW kn, Bytes(kn), s.file = kn, s.m_status # {},
         NEW c \in 0 .. Len(kn), NEW p \in 0 .. BufSize,
         S!Has(s, "SWR") => p = 0 /\ s.m_w \in {0, BufSize},
         ~S!Has(s, "SWR") => s.m_w = 0
  PROVE  Good([s EXCEPT !.curPosition = c, !.m_r = 0, !.m_p = p, !.m_buf = <<>>],
              S!NoCall, kn, c, "seek")
<1> DEFINE t == [s EXCEPT !.curPosition = c, !.m_r = 0, !.m_p = p, !.m_buf = <<>>]
<1>1. BufSize \in Nat /\ Uint8 \in Nat /\ 0 \in 0 .. Uint8 - 1 /\ kn \in Seq(Int) /\ Len(kn) \in Nat
  BY Sizes, LenInt DEF Bytes
<1>2. c \in Nat /\ c <= Len(kn) /\ c <= c
  BY <1>1
<1>3. /\ t \in Streams /\ t.m_status = s.m_status /\ t.append = s.append /\ t.m_r = 0
      /\ t.m_p = p /\ t.m_w = s.m_w /\ t.m_buf = <<>> /\ t.file = kn /\ t.curPosition = c
  BY <1>1, <1>2, EmptyInt DEF Streams
<1> HIDE DEF t
<1>4. Typed(t)
  BY <1>1, <1>2, <1>3, EmptyInt DEF Typed
<1>5. (S!Has(t, "SWR") <=> S!Has(s, "SWR")) /\ t.m_status # {}
  BY <1>3 DEF S!Has
<1>6. CASE S!Has(s, "SWR")
  <2>1. S!View(t) = kn
    BY <1>3, <1>4, ViewIsFile
  <2>2. Unwritten(t, kn, c)
    BY <1>1, <1>2, <1>3, <1>4, <1>5, <1>6, <2>1, EmptyInt DEF Unwritten
  <2>3. Writer(t, kn, c)
    BY <1>1, <1>3, <1>6, <2>2 DEF Writer
  <2>4. AtEnd(t, kn, c)
    BY <1>3, <1>6 DEF AtEnd
  <2>5. Good(t, S!NoCall, kn, c, "seek")
    BY <2>3, <2>4, NoCallIs, WriterGood
  <2> QED BY <2>5 DEF t
<1>7. CASE ~S!Has(s, "SWR")
  <2>1. SubSeq(kn, c + 1, c) = <<>>
    BY <1>1, <1>2, NoPart
  <2>2. c = c - 0 /\ 0 <= c /\ p + 0 <= BufSize
    BY <1>1, <1>2
  <2>3. Reader(t, kn, c)
    BY <1>3, <1>4, <1>7, <2>1, <2>2 DEF Reader
  <2>4. Good(t, S!NoCall, kn, c, "seek")
    BY <1>3, <1>5, <1>7, <2>3, NoCallIs, ReaderGood
  <2> QED BY <2>4 DEF t
<1> QED BY <1>6, <1>7

(* What is known when a program may call. *)
LEMMA OpenFacts ==
  ASSUME S!StreamAssumption, StreamInv, S!Open
  PROVE  /\ call = S!NoCall /\ failed = FALSE /\ wrong = FALSE /\ stream.m_status # {}
         /\ Good(stream, S!NoCall, known, position, last) /\ Typed(stream)
         /\ ~S!Has(stream, "SWR") => Reader(stream, known, position)
         /\ S!Has(stream, "SWR") => /\ Writer(stream, known, position) /\ last \in {"seek", "write"}
                                  /\ AtEnd(stream, known, position)
                                  /\ Writable(stream, known, position)
<1>1. /\ call = S!NoCall /\ failed = FALSE /\ wrong = FALSE /\ stream.m_status # {}
      /\ Good(stream, S!NoCall, known, position, last) /\ Typed(stream)
  BY DEF S!Open, S!Idle, StreamInv
<1>2. ~S!Has(stream, "SWR") => Reader(stream, known, position)
  BY <1>1 DEF Good
<1>3. ASSUME S!Has(stream, "SWR")
      PROVE  /\ Writer(stream, known, position) /\ last \in {"seek", "write"}
             /\ AtEnd(stream, known, position) /\ Writable(stream, known, position)
  <2>1. /\ Writer(stream, known, position) /\ last \in {"seek", "write"}
        /\ AtEnd(stream, known, position)
    BY <1>1, <1>3, NoCallIs DEF Good
  <2>2. S!Writes(stream)
    BY <1>3 DEF S!Has, S!Writes
  <2>3. Writable(stream, known, position)
    BY <1>3, <2>1, <2>2 DEF Writable, Writer, Unwritten
  <2> QED BY <2>1, <2>3
<1> QED BY <1>1, <1>2, <1>3

(* fseek() and rewind() after they have written what was in the buffer. *)
LEMMA Emptied ==
  ASSUME S!StreamAssumption, StreamInv, S!Open, NEW r \in S!flushed(stream)
  PROVE  /\ Typed(r.s) /\ r.what \in {"done", "error"}
         /\ r.what = "error" => (S!Has(r.s, "SWR") => r.s.m_buf = <<>>)
         /\ ~S!Has(stream, "SWR") => /\ r.s = stream /\ r.what = "done"
                                   /\ Reader(stream, known, position)
         /\ r.what = "done" =>
              /\ r.s.m_status # {} /\ r.s.file = known /\ Bytes(known)
              /\ S!Has(r.s, "SWR") <=> S!Has(stream, "SWR")
              /\ ~S!Has(r.s, "SWR") => r.s.m_w = 0
              /\ S!Has(stream, "SWR") =>
                   /\ Writer(r.s, known, position) /\ r.s.append = stream.append
                   /\ r.s.m_w = BufSize /\ r.s.m_p = 0 /\ r.s.curPosition = NextPos(stream)
<1>1. CASE S!Has(stream, "SWR")
  <2>1. r \in S!flushBuf(stream)
    BY <1>1 DEF S!flushed
  <2>2. Writable(stream, known, position)
    BY <1>1, OpenFacts
  <2>3. /\ Typed(r.s) /\ r.what \in {"done", "error"} /\ (S!Has(r.s, "SWR") => r.s.m_buf = <<>>)
        /\ r.what = "done" =>
              /\ Writer(r.s, known, position) /\ S!Has(r.s, "SWR")
              /\ r.s.append = stream.append /\ r.s.m_w = BufSize /\ r.s.m_p = 0
              /\ r.s.file = known /\ r.s.curPosition = NextPos(stream)
    BY <2>1, <2>2, MadeWritable
  <2>4. Bytes(known)
    BY <2>2 DEF Writable
  <2>5. S!Has(r.s, "SWR") => r.s.m_status # {}
    BY DEF S!Has
  <2> QED BY <1>1, <2>3, <2>4, <2>5
<1>2. CASE ~S!Has(stream, "SWR")
  <2>1. r = S!Outcome("done", stream)
    BY <1>2 DEF S!flushed
  <2>2. r.s = stream /\ r.what = "done"
    BY <2>1 DEF S!Outcome
  <2>3. Reader(stream, known, position) /\ stream.m_status # {} /\ Typed(stream)
    BY <1>2, OpenFacts
  <2>4. stream.m_w = 0 /\ stream.file = known /\ Bytes(known)
    BY <2>3 DEF Reader, Typed
  <2> QED BY <1>2, <2>2, <2>3, <2>4
<1> QED BY <1>1, <1>2

(* Where flushBuf() leaves a file whose stream appends. *)
LEMMA AppendsAtEnd ==
  ASSUME S!StreamAssumption, StreamInv, S!Open, S!Has(stream, "SWR"), stream.append
  PROVE  NextPos(stream) = Len(known)
<1>1. Unwritten(stream, known, position)
  BY OpenFacts DEF Writer
<1>2. FollowingIn(stream, known, position) = NextPos(stream)
  BY <1>1, FollowsAll
<1> QED BY <1>2 DEF FollowingIn

(* fflush() of a stream that does not read ahead.                          *)
LEMMA InvFflush ==
  ASSUME S!StreamAssumption, Careful = TRUE, StreamInv, S!fflush
  PROVE  StreamInv'
<1>1. /\ S!Open /\ ~S!Unmarked(stream) /\ ~S!ToEnd(stream) /\ S!Writes(stream)
      /\ ~S!Has(stream, "SRD")
      /\ last' = "seek" /\ UNCHANGED <<call, known, position, wrong>>
  BY DEF S!fflush
<1>2. PICK r \in S!flushBuf(stream), synced \in BOOLEAN :
        stream' = r.s /\ failed' = (r.what # "done" \/ ~synced)
  BY DEF S!fflush
<1>3. /\ call = S!NoCall /\ failed = FALSE /\ wrong = FALSE
      /\ Good(stream, S!NoCall, known, position, last) /\ Typed(stream)
      /\ S!Has(stream, "SWR") => last \in {"seek", "write"}
  BY <1>1, OpenFacts
<1>4. last \in {"seek", "write"}
  <2>1. CASE ~S!Has(stream, "SWR")
    <3>1. stream.m_status \in Statuses
      BY <1>3, TypedFields
    <3>2. stream.m_status = {"SRW"}
      BY <1>1, <2>1, <3>1, StatusFacts
    <3>3. last \in {"seek", "read", "unget", "write"}
      BY <1>3 DEF Good
    <3> QED BY <1>1, <3>2, <3>3 DEF S!Unmarked
  <2> QED BY <1>3, <2>1
<1>5. /\ Writable(stream, known, position)
      /\ ~S!Has(stream, "SWR") => position = stream.curPosition
  BY <1>1, <1>3, <1>4, NoCallIs, GoodWrites
<1>6. /\ Typed(r.s) /\ r.what \in {"done", "error"} /\ (S!Has(r.s, "SWR") => r.s.m_buf = <<>>)
      /\ r.what = "done" => /\ Writer(r.s, known, position) /\ r.s.append = stream.append
                            /\ r.s.m_p = 0 /\ r.s.curPosition = NextPos(stream)
  BY <1>2, <1>5, MadeWritable
<1>7. CASE failed' = FALSE
  <2>1. r.what = "done"
    BY <1>2, <1>7
  <2>2. stream.append => position = NextPos(stream)
    <3>1. CASE S!Has(stream, "SWR")
      BY <1>1, <3>1, AppendsAtEnd DEF S!ToEnd
    <3>2. CASE ~S!Has(stream, "SWR")
      BY <1>5, <3>2 DEF NextPos
    <3> QED BY <3>1, <3>2
  <2>3. AtEnd(r.s, known, position)
    <3>1. r.s.m_p = 0 /\ r.s.curPosition = NextPos(stream)
      BY <1>6, <2>1
    <3>2. r.s.append => stream.append
      <4>1. r.s.append = stream.append
        BY <1>6, <2>1
      <4> QED BY <4>1, Zenon
    <3>3. r.s.append => position = r.s.curPosition
      BY <2>2, <3>1, <3>2, Zenon
    <3> QED BY <3>1, <3>3 DEF AtEnd
  <2>4. Good(r.s, S!NoCall, known, position, "seek")
    BY <1>6, <2>1, <2>3, NoCallIs, WriterGood
  <2> QED BY <1>1, <1>2, <1>3, <1>7, <2>4, InvOK
<1>8. CASE failed' = TRUE
  BY <1>1, <1>2, <1>3, <1>6, <1>8, InvFailed
<1>9. failed' \in BOOLEAN
  BY <1>2
<1> QED BY <1>7, <1>8, <1>9

(* The position that fseek() asks the file for is the one that a program   *)
(* wants.                                                                  *)
LEMMA SoughtWanted ==
  ASSUME S!StreamAssumption, StreamInv, S!Open, NEW r \in S!flushed(stream), r.what = "done",
         NEW offset \in Int, NEW origin \in {"SEEK_SET", "SEEK_CUR", "SEEK_END"},
         origin = "SEEK_CUR" => S!ftell(stream) = 0 /\ stream.curPosition = 0 /\ ~S!ToEnd(stream)
  PROVE  S!Sought(r.s, origin, offset) = S!Wanted(origin, offset)
<1>1. r.s.file = known
  BY Emptied
<1>2. CASE origin = "SEEK_SET"
  BY <1>2 DEF S!Sought, S!Wanted
<1>3. CASE origin = "SEEK_END"
  BY <1>1, <1>3 DEF S!Sought, S!Wanted
<1>4. CASE origin = "SEEK_CUR"
  <2>1. S!ftell(stream) = 0 /\ stream.curPosition = 0 /\ ~S!ToEnd(stream)
    BY <1>4
  <2>2. S!Sought(r.s, origin, offset) = r.s.curPosition + S!ftell(r.s) + offset
    BY <1>4 DEF S!Sought
  <2>3. S!Wanted(origin, offset) = position + offset
    BY <1>4 DEF S!Wanted
  <2>4. CASE ~S!Has(stream, "SWR")
    <3>1. r.s = stream /\ Reader(stream, known, position)
      BY <2>4, Emptied
    <3>2. stream.m_r \in Nat
      BY <3>1, TypedFields, Sizes DEF Reader
    <3>3. position = 0
      BY <2>1, <3>1, <3>2 DEF Reader
    <3> QED BY <2>1, <2>2, <2>3, <3>1, <3>3
  <2>5. CASE S!Has(stream, "SWR")
    <3>1. /\ S!Has(r.s, "SWR") /\ r.s.m_p = 0 /\ r.s.curPosition = NextPos(stream) /\ Typed(r.s)
      BY <2>5, Emptied
    <3>2. /\ Typed(stream) /\ Unwritten(stream, known, position)
          /\ AtEnd(stream, known, position)
      BY <2>5, OpenFacts DEF Writer
    <3>3. ~S!Has(r.s, "SRD") /\ ~S!Has(stream, "SRD")
      BY <2>5, <3>1, <3>2, TypedFields, StatusFacts
    <3>4. stream.curPosition + stream.m_p = 0 /\ stream.m_p \in Nat
      <4>1. stream.m_p \in Nat
        BY <3>2, TypedFields, Sizes
      <4> QED BY <2>1, <2>5, <3>3, <4>1 DEF S!ftell
    <3>5. stream.m_p = 0 /\ Len(stream.m_buf) = 0
      BY <2>1, <3>2, <3>4 DEF Unwritten
    <3>6. position = 0
      <4>1. CASE stream.append
        <5>1. position = stream.curPosition
          BY <3>2, <3>5, <4>1 DEF AtEnd
        <5> QED BY <2>1, <5>1
      <4>2. CASE ~stream.append
        BY <2>1, <3>2, <3>5, <4>2 DEF Unwritten
      <4>3. stream.append \in BOOLEAN
        BY <3>2, TypedFields
      <4> QED BY <4>1, <4>2, <4>3
    <3>7. NextPos(stream) = 0
      <4>1. CASE stream.append
        <5>1. NextPos(stream) = Len(known)
          BY <2>5, <4>1, AppendsAtEnd
        <5>2. position = Len(known)
          BY <2>1, <2>5, <4>1 DEF S!ToEnd
        <5> QED BY <3>6, <5>1, <5>2
      <4>2. CASE ~stream.append
        BY <2>1, <2>5, <3>5, <4>2 DEF NextPos, From
      <4> QED BY <4>1, <4>2
    <3>8. S!ftell(r.s) = 0
      BY <3>1, <3>3, <3>7 DEF S!ftell
    <3> QED BY <2>2, <2>3, <3>1, <3>6, <3>7, <3>8
  <2> QED BY <2>4, <2>5
<1> QED BY <1>2, <1>3, <1>4

(* fseek() that moves, that the file refuses, and that fails.              *)
LEMMA InvFseek ==
  ASSUME S!StreamAssumption, Careful = TRUE, StreamInv, NEW offset \in Int,
         NEW origin \in {"SEEK_SET", "SEEK_CUR", "SEEK_END"}, S!fseek(origin, offset)
  PROVE  StreamInv'
<1>1. /\ S!Open /\ UNCHANGED <<call, known, wrong>>
      /\ origin = "SEEK_CUR" => S!ftell(stream) = 0 /\ stream.curPosition = 0 /\ ~S!ToEnd(stream)
  BY DEF S!fseek
<1> DEFINE Asked(r) == S!seekSet(r.s, S!Sought(r.s, origin, offset))
<1>2. PICK r \in S!flushed(stream) :
        IF r.what # "done"
        THEN stream' = r.s /\ failed' = TRUE /\ UNCHANGED <<position, last>>
        ELSE /\ failed' = failed
             /\ IF Asked(r).what = "done"
                THEN /\ stream' = [Asked(r).s EXCEPT !.m_r = 0, !.m_p = 0, !.m_buf = <<>>]
                     /\ position' = S!Wanted(origin, offset) /\ last' = "seek"
                ELSE /\ stream' = Asked(r).s
                     /\ ~S!ToEnd(stream)
                     /\ UNCHANGED <<position, last>>
  BY DEF S!fseek
<1>3. /\ call = S!NoCall /\ failed = FALSE /\ wrong = FALSE /\ stream.m_status # {}
      /\ Good(stream, S!NoCall, known, position, last)
      /\ S!Has(stream, "SWR") => last \in {"seek", "write"}
  BY <1>1, OpenFacts
<1>4. /\ Typed(r.s) /\ r.what \in {"done", "error"}
      /\ r.what = "error" => (S!Has(r.s, "SWR") => r.s.m_buf = <<>>)
  BY <1>1, Emptied
<1>5. CASE r.what = "error"
  <2>1. stream' = r.s /\ failed' = TRUE /\ call' = S!NoCall /\ wrong' = FALSE
    BY <1>1, <1>2, <1>3, <1>5
  <2> QED BY <1>4, <1>5, <2>1, InvFailed
<1>6. CASE r.what = "done"
  <2> DEFINE to == S!Sought(r.s, origin, offset)
  <2>1. /\ ~S!Has(stream, "SWR") => r.s = stream
        /\ r.s.m_status # {} /\ r.s.file = known /\ Bytes(known)
        /\ S!Has(r.s, "SWR") <=> S!Has(stream, "SWR")
        /\ ~S!Has(r.s, "SWR") => r.s.m_w = 0
        /\ S!Has(stream, "SWR") =>
             /\ Writer(r.s, known, position) /\ r.s.append = stream.append
             /\ r.s.m_w = BufSize /\ r.s.m_p = 0 /\ r.s.curPosition = NextPos(stream)
    BY <1>1, <1>6, Emptied
  <2>2. to = S!Wanted(origin, offset)
    BY <1>1, <1>6, SoughtWanted
  <2>3. call' = S!NoCall /\ failed' = FALSE /\ wrong' = FALSE /\ known' = known
    BY <1>1, <1>2, <1>3, <1>6
  <2>4. CASE Asked(r).what = "done"
    <3> DEFINE s0 == [r.s EXCEPT !.curPosition = to]
               t == [s0 EXCEPT !.m_r = 0, !.m_p = 0, !.m_buf = <<>>]
               u == [r.s EXCEPT !.curPosition = to, !.m_r = 0, !.m_p = 0, !.m_buf = <<>>]
    <3>1. to \in 0 .. Len(r.s.file) /\ Asked(r).s = s0
      BY <2>4 DEF S!seekSet, S!Outcome
    <3>2. stream' = t /\ position' = to /\ last' = "seek"
      BY <1>2, <1>6, <2>2, <2>4, <3>1
    <3>3. r.s \in Streams /\ 0 \in 0 .. BufSize /\ to \in 0 .. Len(known)
      BY <1>4, <2>1, <3>1, Sizes DEF Typed
    <3> HIDE DEF to
    <3>4. t = u
      BY <3>3 DEF Streams
    <3>5. Good(u, S!NoCall, known, to, "seek")
      BY <2>1, <3>3, Placed
    <3> HIDE DEF t, u
    <3> QED BY <2>3, <3>2, <3>4, <3>5, InvOK
  <2>5. CASE Asked(r).what # "done"
    <3>1. Asked(r).s = r.s
      BY <2>5 DEF S!seekSet, S!Outcome
    <3>2. stream' = r.s /\ ~S!ToEnd(stream) /\ position' = position /\ last' = last
      BY <1>2, <1>6, <2>5, <3>1
    <3>3. CASE S!Has(stream, "SWR")
      <4>1. r.s.append => position = r.s.curPosition
        <5>1. ASSUME stream.append PROVE position = NextPos(stream)
          BY <1>1, <3>2, <3>3, <5>1, AppendsAtEnd DEF S!ToEnd
        <5>2. r.s.append = stream.append /\ r.s.curPosition = NextPos(stream)
          BY <2>1, <3>3
        <5> QED BY <5>1, <5>2, Zenon
      <4>2. r.s.m_p = 0
        BY <2>1, <3>3
      <4>3. AtEnd(r.s, known, position)
        BY <4>1, <4>2 DEF AtEnd
      <4>4. Good(r.s, S!NoCall, known, position, last)
        BY <1>3, <2>1, <3>3, <4>3, NoCallIs, WriterGood
      <4> QED BY <2>3, <3>2, <4>4, InvOK
    <3>4. CASE ~S!Has(stream, "SWR")
      BY <1>3, <2>1, <2>3, <3>2, <3>4, InvOK
    <3> QED BY <3>3, <3>4
  <2> QED BY <2>4, <2>5
<1> QED BY <1>4, <1>5, <1>6

(* rewind() leaves m_p where it is.                                        *)
LEMMA InvRewind ==
  ASSUME S!StreamAssumption, Careful = TRUE, StreamInv, S!rewind
  PROVE  StreamInv'
<1>1. S!Open /\ UNCHANGED <<call, known, wrong>>
  BY DEF S!rewind
<1>2. PICK r \in S!flushed(stream) :
        IF r.what # "done"
        THEN stream' = r.s /\ failed' = TRUE /\ UNCHANGED <<position, last>>
        ELSE /\ stream' = [r.s EXCEPT !.curPosition = 0, !.m_r = 0, !.m_buf = <<>>]
             /\ position' = 0 /\ last' = "seek" /\ failed' = failed
  BY DEF S!rewind
<1>3. call = S!NoCall /\ failed = FALSE /\ wrong = FALSE
  BY <1>1, OpenFacts
<1>4. /\ Typed(r.s) /\ r.what \in {"done", "error"}
      /\ r.what = "error" => (S!Has(r.s, "SWR") => r.s.m_buf = <<>>)
  BY <1>1, Emptied
<1>5. CASE r.what = "error"
  <2>1. stream' = r.s /\ failed' = TRUE /\ call' = S!NoCall /\ wrong' = FALSE
    BY <1>1, <1>2, <1>3, <1>5
  <2> QED BY <1>4, <1>5, <2>1, InvFailed
<1>6. CASE r.what = "done"
  <2> DEFINE t == [r.s EXCEPT !.curPosition = 0, !.m_r = 0, !.m_buf = <<>>]
             u == [r.s EXCEPT !.curPosition = 0, !.m_r = 0, !.m_p = r.s.m_p, !.m_buf = <<>>]
  <2>1. /\ r.s.m_status # {} /\ r.s.file = known /\ Bytes(known)
        /\ S!Has(r.s, "SWR") <=> S!Has(stream, "SWR")
        /\ ~S!Has(r.s, "SWR") => r.s.m_w = 0
        /\ S!Has(stream, "SWR") => r.s.m_w = BufSize /\ r.s.m_p = 0
    BY <1>1, <1>6, Emptied
  <2>2. r.s \in Streams /\ r.s.m_p \in 0 .. BufSize /\ 0 \in 0 .. Len(known)
    <3>1. r.s \in Streams /\ r.s.m_p \in 0 .. BufSize
      BY <1>4, TypedFields DEF Typed
    <3>2. Len(known) \in Nat
      BY <2>1, LenInt DEF Bytes
    <3> QED BY <3>1, <3>2
  <2>3. t = u
    BY <2>2 DEF Streams
  <2>4. Good(u, S!NoCall, known, 0, "seek")
    BY <2>1, <2>2, Placed
  <2>5. /\ stream' = t /\ position' = 0 /\ last' = "seek"
        /\ call' = S!NoCall /\ failed' = FALSE /\ wrong' = FALSE /\ known' = known
    BY <1>1, <1>2, <1>3, <1>6
  <2> HIDE DEF t, u
  <2> QED BY <2>3, <2>4, <2>5, InvOK
<1> QED BY <1>4, <1>5, <1>6

(* fopen() in each mode.                                                   *)
LEMMA InvFopen ==
  ASSUME S!StreamAssumption, StreamInv, NEW m \in S!Modes, S!fopen(m[1], m[2], m[3])
  PROVE  StreamInv'
<1> DEFINE f == IF m[3] THEN <<>> ELSE stream.file
           s == [stream EXCEPT !.m_status = m[2], !.append = m[1], !.m_w = 0, !.file = f]
           t == [stream EXCEPT !.m_status = m[2], !.append = m[1], !.m_r = 0, !.m_w = 0,
                               !.m_p = 0, !.file = f, !.curPosition = 0]
           u == [s EXCEPT !.curPosition = 0, !.m_r = 0, !.m_p = 0, !.m_buf = <<>>]
<1>1. /\ S!Idle /\ stream.m_status = {} /\ stream' = t /\ known' = f /\ position' = 0
      /\ last' = "seek" /\ UNCHANGED <<call, wrong, failed>>
  BY DEF S!fopen
<1>2. call = S!NoCall /\ failed = FALSE /\ wrong = FALSE
  BY <1>1 DEF S!Idle, StreamInv
<1>3. Typed(stream) /\ stream \in Streams /\ Bytes(stream.file)
  BY DEF StreamInv, Typed
<1>4. m[1] \in BOOLEAN /\ m[2] \in Statuses /\ m[2] # {}
  <2>1. m[1] \in BOOLEAN /\ m[2] \in {{"SRD"}, {"SWR"}, {"SRW"}}
    <3>1. \/ m = <<FALSE, {"SRD"}, FALSE>> \/ m = <<FALSE, {"SWR"}, TRUE>>
          \/ m = <<TRUE, {"SWR"}, FALSE>> \/ m = <<FALSE, {"SRW"}, FALSE>>
          \/ m = <<FALSE, {"SRW"}, TRUE>> \/ m = <<TRUE, {"SRW"}, FALSE>>
      BY DEF S!Modes
    <3>2. ASSUME NEW append \in BOOLEAN, NEW status \in {{"SRD"}, {"SWR"}, {"SRW"}},
                 NEW truncates, m = <<append, status, truncates>>
          PROVE  m[1] \in BOOLEAN /\ m[2] \in {{"SRD"}, {"SWR"}, {"SRW"}}
      <4>1. m[1] = append /\ m[2] = status
        BY <3>2
      <4> QED BY <4>1, Zenon
    <3>3. /\ TRUE \in BOOLEAN /\ FALSE \in BOOLEAN
          /\ {"SRD"} \in {{"SRD"}, {"SWR"}, {"SRW"}} /\ {"SWR"} \in {{"SRD"}, {"SWR"}, {"SRW"}}
          /\ {"SRW"} \in {{"SRD"}, {"SWR"}, {"SRW"}}
      BY Zenon
    <3> QED BY <3>1, <3>2, <3>3, Zenon
  <2>2. {"SRD"} # {} /\ {"SWR"} # {} /\ {"SRW"} # {}
    OBVIOUS
  <2> QED BY <2>1, <2>2, Zenon DEF Statuses
<1>5. Bytes(f) /\ f \in Seq(Int)
  <2>1. Bytes(<<>>)
    BY Sizes, EmptyInt DEF Bytes
  <2> QED BY <1>3, <2>1 DEF Bytes
<1>6. Good(stream, S!NoCall, known, position, last)
  BY <1>2 DEF StreamInv
<1>7. stream.m_buf = <<>>
  BY <1>1, <1>6 DEF Good
<1> HIDE DEF f
<1>8. 0 \in 0 .. Uint8 - 1 /\ 0 \in 0 .. BufSize /\ 0 \in 0 .. Len(f) /\ 0 \in {0, BufSize}
  <2>1. Len(f) \in Nat
    BY <1>5, LenInt
  <2> QED BY <2>1, Sizes
<1>9. /\ s \in Streams /\ s.m_status = m[2] /\ s.m_w = 0 /\ s.file = f
  BY <1>3, <1>4, <1>5, <1>8 DEF Streams
<1>10. t = u
  BY <1>3, <1>7 DEF Streams
<1> HIDE DEF s, t
<1>11. Good([s EXCEPT !.curPosition = 0, !.m_r = 0, !.m_p = 0, !.m_buf = <<>>],
            S!NoCall, f, 0, "seek")
  BY <1>4, <1>5, <1>8, <1>9, Placed
<1>12. Good(stream', call', known', position', last')
  BY <1>1, <1>2, <1>10, <1>11
<1> QED BY <1>1, <1>2, <1>12, InvOK

(* fclose(), after a call that failed as well.                             *)
LEMMA InvFclose ==
  ASSUME S!StreamAssumption, StreamInv, S!fclose
  PROVE  StreamInv'
<1>1. /\ call = S!NoCall /\ stream.m_status # {} /\ failed' = FALSE /\ position' = 0
      /\ last' = "seek" /\ UNCHANGED <<call, wrong>>
  BY DEF S!fclose
<1>2. PICK r \in S!flushed(stream) :
        /\ stream' = [r.s EXCEPT !.m_status = {}, !.m_r = 0, !.m_w = 0, !.m_buf = <<>>]
        /\ known' = IF failed \/ r.what = "error" THEN r.s.file ELSE known
  BY DEF S!fclose
<1>3. Typed(stream) /\ failed \in BOOLEAN /\ wrong = FALSE
  BY DEF StreamInv
<1>4. /\ Typed(r.s) /\ r.what \in {"done", "error"}
      /\ ~failed /\ r.what = "done" => r.s.file = known
  <2>1. CASE failed = FALSE
    <3>1. S!Open
      BY <1>1, <2>1 DEF S!Open, S!Idle
    <3> QED BY <3>1, Emptied
  <2>2. CASE failed = TRUE /\ S!Has(stream, "SWR")
    <3>1. stream.m_buf = <<>>
      BY <2>2 DEF StreamInv
    <3>2. S!View(stream) = stream.file
      BY <1>3, <3>1, ViewIsFile
    <3>3. Bytes(stream.file)
      BY <1>3 DEF Typed
    <3>4. r \in S!flushBuf(stream)
      BY <2>2 DEF S!flushed
    <3> QED BY <1>3, <2>2, <3>2, <3>3, <3>4, Flushed
  <2>3. CASE failed = TRUE /\ ~S!Has(stream, "SWR")
    BY <1>3, <2>3 DEF S!flushed, S!Outcome
  <2> QED BY <1>3, <2>1, <2>2, <2>3
<1>5. known' = r.s.file
  BY <1>2, <1>3, <1>4
<1> DEFINE t == [r.s EXCEPT !.m_status = {}, !.m_r = 0, !.m_w = 0, !.m_buf = <<>>]
<1>6. /\ BufSize \in Nat /\ 0 \in 0 .. Uint8 - 1 /\ {} \in Statuses /\ <<>> \in Seq(Int)
      /\ Len(<<>>) = 0
  BY Sizes, EmptyInt DEF Statuses
<1>7. r.s \in Streams /\ Bytes(r.s.file) /\ r.s.curPosition <= Len(r.s.file)
  BY <1>4 DEF Typed
<1>8. /\ t \in Streams /\ t.m_status = {} /\ t.m_r = 0 /\ t.m_buf = <<>>
      /\ t.file = r.s.file /\ t.curPosition = r.s.curPosition
  BY <1>6, <1>7 DEF Streams
<1> HIDE DEF t
<1>9. Typed(t)
  BY <1>6, <1>7, <1>8 DEF Typed
<1>10. ~S!Has(t, "SWR")
  BY <1>8 DEF S!Has
<1>11. Good(t, S!NoCall, r.s.file, 0, "seek")
  BY <1>8, <1>9, <1>10, NoCallIs DEF Good
<1>12. stream' = t /\ call' = S!NoCall /\ wrong' = FALSE
  BY <1>1, <1>2, <1>3 DEF t
<1> QED BY <1>1, <1>5, <1>11, <1>12, InvOK

-----------------------------------------------------------------------------
(* A closed stream, and nothing of it known but the file.                  *)
LEMMA StreamInvInit ==
  ASSUME S!StreamAssumption, S!Init
  PROVE  StreamInv
<1>1. PICK k \in 0 .. MaxSize : stream.file = [i \in 1 .. k |-> S!Original(i)]
  BY DEF S!Init
<1>2. /\ stream \in [m_status : {{}}, append : {FALSE}, m_r : {0}, m_w : {0}, m_p : {0},
                     m_buf : {<<>>}, curPosition : {0},
                     file : {[i \in 1 .. room |-> S!Original(i)] : room \in 0 .. MaxSize}]
      /\ call = S!NoCall /\ known = stream.file /\ position = 0 /\ last = "seek"
      /\ wrong = FALSE /\ failed = FALSE
  BY DEF S!Init
<1> DEFINE f == [i \in 1 .. k |-> S!Original(i)]
<1>3. k \in Nat /\ k <= MaxSize
  BY Sizes
<1>4. f \in Seq(Int) /\ Len(f) = k /\ \A i \in 1 .. k : f[i] = S!Original(i)
  <2>1. \A i \in 1 .. k : S!Original(i) \in Int
    BY DEF S!Original
  <2> QED BY <1>3, <2>1
<1>5. Bytes(f)
  BY <1>3, <1>4 DEF Bytes
<1> HIDE DEF f
<1>6. /\ stream.m_status = {} /\ stream.append = FALSE /\ stream.m_r = 0 /\ stream.m_w = 0
      /\ stream.m_p = 0 /\ stream.m_buf = <<>> /\ stream.curPosition = 0 /\ stream.file = f
      /\ stream = [m_status |-> {}, append |-> FALSE, m_r |-> 0, m_w |-> 0, m_p |-> 0,
                   m_buf |-> <<>>, curPosition |-> 0, file |-> f]
  BY <1>1, <1>2 DEF f
<1>7. /\ {} \in Statuses /\ FALSE \in BOOLEAN /\ 0 \in 0 .. Uint8 - 1 /\ 0 \in 0 .. BufSize
      /\ <<>> \in Seq(Int) /\ Len(<<>>) = 0 /\ 0 <= BufSize /\ 0 <= Len(f)
  BY <1>3, <1>4, Sizes, EmptyInt DEF Statuses
<1>8. stream \in Streams
  BY <1>4, <1>6, <1>7 DEF Streams
<1>9. Typed(stream)
  BY <1>5, <1>6, <1>7, <1>8 DEF Typed
<1>10. ~S!Has(stream, "SWR")
  BY <1>6 DEF S!Has
<1>11. Good(stream, call, known, position, last)
  BY <1>2, <1>6, <1>9, <1>10, NoCallIs DEF Good
<1> QED BY <1>2, <1>9, <1>11 DEF StreamInv

(* A step of another buffer.                                               *)
LEMMA StreamInvStutter ==
  ASSUME StreamInv, UNCHANGED S!vars
  PROVE  StreamInv'
<1>1. /\ stream' = stream /\ call' = call /\ known' = known /\ position' = position
      /\ last' = last /\ wrong' = wrong /\ failed' = failed
  BY DEF S!vars, S!history
<1>2. wrong = FALSE /\ failed \in BOOLEAN
  BY DEF StreamInv
<1>3. CASE failed = TRUE
  <2>1. Typed(stream) /\ call = S!NoCall /\ (S!Has(stream, "SWR") => stream.m_buf = <<>>)
    BY <1>3 DEF StreamInv
  <2> QED BY <1>1, <1>2, <1>3, <2>1, InvFailed
<1>4. CASE failed = FALSE
  <2>1. Good(stream, call, known, position, last)
    BY <1>4 DEF StreamInv
  <2> QED BY <1>1, <1>2, <1>4, <2>1, InvOK
<1> QED BY <1>2, <1>3, <1>4

(* The invariant says what StreamAgrees says.                              *)
LEMMA StreamInvImplies ==
  ASSUME S!StreamAssumption, StreamInv
  PROVE  S!StreamAgrees
<1>1. Typed(stream) /\ wrong = FALSE /\ failed \in BOOLEAN
  BY DEF StreamInv
<1>2. /\ stream.m_status \in Statuses /\ stream.append \in BOOLEAN
      /\ stream.m_r \in 0 .. Uint8 - 1 /\ stream.m_w \in 0 .. Uint8 - 1
      /\ stream.m_p \in 0 .. BufSize
      /\ stream.m_buf \in Seq(Int) /\ Len(stream.m_buf) \in 0 .. BufSize
      /\ stream.curPosition \in 0 .. Len(stream.file) /\ Len(stream.file) <= MaxSize
      /\ BufSize \in Nat /\ Uint8 \in Nat
  BY <1>1, TypedFields, Sizes
<1>3. S!StreamOK(stream)
  <2>1. /\ stream.m_status \subseteq {"SRD", "SWR", "SRW"}
        /\ {"SRD", "SWR"} \cap stream.m_status # {"SRD", "SWR"}
    <3>1. ASSUME NEW x \in Statuses
          PROVE  x \subseteq {"SRD", "SWR", "SRW"} /\ ("SRD" \notin x \/ "SWR" \notin x)
      BY <3>1 DEF Statuses
    <3>2. /\ stream.m_status \subseteq {"SRD", "SWR", "SRW"}
          /\ "SRD" \notin stream.m_status \/ "SWR" \notin stream.m_status
      BY <1>2, <3>1
    <3> QED BY <3>2
  <2>2. \A i \in 1 .. Len(stream.file) : stream.file[i] \in {S!Original(i), S!Stored(i)}
    BY <1>1 DEF Typed, Bytes
  <2> QED BY <1>2, <2>1, <2>2 DEF S!StreamOK
<1>4. ASSUME failed = FALSE
      PROVE  /\ S!View(stream) = known
             /\ stream.m_status # {} => IF S!Has(stream, "SWR") THEN S!ToWrite(stream)
                                        ELSE S!ReadAhead(stream)
  <2>1. Good(stream, call, known, position, last)
    BY <1>4 DEF StreamInv
  <2>2. CASE stream.m_status = {}
    <3>1. stream.file = known /\ ~S!Has(stream, "SWR")
      BY <2>1, <2>2 DEF Good, S!Has
    <3> QED BY <1>1, <2>2, <3>1, ViewIsFile
  <2>3. CASE stream.m_status # {} /\ ~S!Has(stream, "SWR")
    <3>1. Reader(stream, known, position)
      BY <2>1, <2>3 DEF Good
    <3>2. S!View(stream) = known
      BY <1>1, <2>3, <3>1, ViewIsFile DEF Reader
    <3>3. S!ReadAhead(stream)
      BY <3>1 DEF Reader, S!ReadAhead
    <3> QED BY <2>3, <3>2, <3>3
  <2>4. CASE S!Has(stream, "SWR")
    <3>1. /\ Writer(stream, known, position)
          /\ call.name # "write" => AtEnd(stream, known, position)
      BY <2>1, <2>4 DEF Good
    <3>2. /\ S!View(stream) = known /\ stream.m_r = 0 /\ stream.m_p = Len(stream.m_buf)
          /\ ~stream.append => position = stream.curPosition + stream.m_p
          /\ stream.m_p + stream.m_w = BufSize \/ (stream.m_p = 0 /\ stream.m_w = 0)
      BY <3>1 DEF Writer, Unwritten
    <3>3. ~S!Has(stream, "SRD")
      BY <1>2, <2>4, StatusFacts
    <3>4. S!ftell(stream) = stream.curPosition + stream.m_p
      BY <2>4, <3>3 DEF S!ftell
    <3>5. stream.m_p + stream.m_w \in {0, BufSize}
      BY <1>2, <3>2
    <3>6. \/ position = IF stream.append /\ stream.m_p > 0 THEN Len(known) ELSE S!ftell(stream)
          \/ stream.append /\ call # S!NoCall
      <4>1. CASE ~stream.append
        BY <3>2, <3>4, <4>1
      <4>2. CASE stream.append /\ call.name = "write"
        <5>1. call # S!NoCall
          BY <4>2 DEF S!NoCall
        <5> QED BY <4>2, <5>1
      <4>3. CASE stream.append /\ call.name # "write"
        <5>1. position = IF stream.m_p > 0 THEN Len(known) ELSE stream.curPosition
          BY <3>1, <4>3 DEF AtEnd
        <5>2. CASE stream.m_p > 0
          BY <4>3, <5>1, <5>2
        <5>3. CASE ~(stream.m_p > 0)
          <6>1. stream.m_p = 0 /\ stream.curPosition + 0 = stream.curPosition
            BY <1>1, <1>2, <5>3, TypedFields
          <6>2. position = S!ftell(stream)
            BY <3>4, <5>1, <5>3, <6>1
          <6> QED BY <5>3, <6>2
        <5> QED BY <5>2, <5>3
      <4> QED BY <4>1, <4>2, <4>3
    <3>7. S!ToWrite(stream)
      BY <3>2, <3>5, <3>6 DEF S!ToWrite
    <3> QED BY <2>4, <3>2, <3>7
  <2> QED BY <2>2, <2>3, <2>4
<1> QED BY <1>1, <1>3, <1>4 DEF S!StreamAgrees

(* Every step of a program that is careful keeps the invariant.            *)
LEMMA StreamInvNext ==
  ASSUME S!StreamAssumption, Careful = TRUE, StreamInv, S!Next
  PROVE  StreamInv'
<1>1. CASE \E m \in S!Modes : S!fopen(m[1], m[2], m[3])
  BY <1>1, InvFopen
<1>2. CASE \E k \in 1 .. MaxCall : S!Reading("fread", k) \/ S!Reading("fgets", k) \/ S!Writing(k)
  BY <1>2, InvReading, InvWriting DEF S!StreamAssumption
<1>3. CASE \E offset \in -1 .. MaxSize :
             \E origin \in {"SEEK_SET", "SEEK_CUR", "SEEK_END"} : S!fseek(origin, offset)
  BY <1>3, InvFseek, Sizes
<1>4. CASE S!fclose \/ S!getc \/ S!ungetc \/ S!putc \/ S!putCRLF \/ S!fflush \/ S!rewind
  BY <1>4, InvFclose, InvGetc, InvUngetc, InvPutc, InvPutCRLF, InvFflush, InvRewind
<1>5. CASE S!freadPass \/ S!freadEnd \/ S!fgetsFill \/ S!fgetsCopy \/ S!writePass \/ S!writeEnd
  BY <1>5, InvFreadPass, InvFreadEnd, InvFgetsFill, InvFgetsCopy, InvWritePass, InvWriteEnd
<1> QED BY <1>1, <1>2, <1>3, <1>4, <1>5 DEF S!Next

(* The buffer and the file together stay the file as the program knows it, *)
(* and every read returns the right bytes, through any calls that a        *)
(* careful program makes and any failure of the file (fillBuf, flushBuf,   *)
(* fseek, ftell, fclose).                                                  *)
THEOREM StreamKept ==
  ASSUME S!StreamAssumption, Careful = TRUE
  PROVE  S!Spec => []S!StreamAgrees
<1>1. S!Init => StreamInv
  BY StreamInvInit
<1>2. StreamInv /\ [S!Next]_S!vars => StreamInv'
  BY StreamInvNext, StreamInvStutter
<1>3. StreamInv => S!StreamAgrees
  BY StreamInvImplies
<1> QED BY <1>1, <1>2, <1>3, PTL DEF S!Spec

-----------------------------------------------------------------------------
InFile(w) == {w[j] : j \in DOMAIN w}
InOrder(w) ==
  \A j \in DOMAIN w : w[j] > 1 => \E i \in 1 .. j - 1 : w[i] = w[j] - 1
FileHas(w, first) == w \in Seq(Nat) /\ InOrder(w) /\ 1 .. first \subseteq InFile(w)

(* The bytes up to some first are in the file, those from there on are in  *)
(* the buffer.                                                             *)
PrintInv ==
  \E first \in Nat, k \in Nat :
    /\ printed = first + k /\ m_in = P!Numbers(first, k) /\ FileHas(written, first)

LEMMA LenNat ==
  ASSUME NEW s \in Seq(Nat)
  PROVE  Len(s) \in Nat /\ DOMAIN s = 1 .. Len(s)
<1> QED BY LenProperties

LEMMA EmptyNat == <<>> \in Seq(Nat) /\ Len(<<>>) = 0
<1> QED BY EmptySeq

LEMMA ConcatNat ==
  ASSUME NEW s \in Seq(Nat), NEW t \in Seq(Nat)
  PROVE  /\ s \o t \in Seq(Nat) /\ Len(s \o t) = Len(s) + Len(t)
         /\ \A i \in 1 .. Len(s) + Len(t) :
              (s \o t)[i] = IF i <= Len(s) THEN s[i] ELSE t[i - Len(s)]
<1> QED BY ConcatProperties

LEMMA EqualNat ==
  ASSUME NEW s \in Seq(Nat), NEW t \in Seq(Nat), Len(s) = Len(t),
         \A i \in 1 .. Len(s) : s[i] = t[i]
  PROVE  s = t
<1> QED BY SeqEqual

LEMMA PrefixNat ==
  ASSUME NEW s, NEW k \in Nat, \A i \in 1 .. k : s[i] \in Nat
  PROVE  /\ SubSeq(s, 1, k) \in Seq(Nat) /\ Len(SubSeq(s, 1, k)) = k
         /\ \A i \in 1 .. k : SubSeq(s, 1, k)[i] = s[i]
<1> DEFINE t == SubSeq(s, 1, k)
<1>1. /\ t \in Seq(Nat) /\ Len(t) = IF 1 <= k THEN k - 1 + 1 ELSE 0
      /\ \A i \in 1 .. k - 1 + 1 : t[i] = s[1 + i - 1]
  BY SubSeqProperties
<1>2. k - 1 + 1 = k /\ (IF 1 <= k THEN k - 1 + 1 ELSE 0) = k /\ \A i \in 1 .. k : 1 + i - 1 = i
  OBVIOUS
<1> HIDE DEF t
<1>3. \A i \in 1 .. k : t[i] = s[i]
  BY <1>1, <1>2
<1>4. t \in Seq(Nat) /\ Len(t) = k
  BY <1>1, <1>2
<1> QED BY <1>3, <1>4 DEF t

(* The numbers behind first.                                               *)
LEMMA NumbersAre ==
  ASSUME NEW first \in Nat, NEW k \in Nat
  PROVE  /\ P!Numbers(first, k) \in Seq(Nat) /\ Len(P!Numbers(first, k)) = k
         /\ \A i \in 1 .. k : P!Numbers(first, k)[i] = first + i
<1> QED BY DEF P!Numbers

(* No numbers at all.                                                      *)
LEMMA NumbersNone ==
  ASSUME NEW first \in Nat
  PROVE  P!Numbers(first, 0) = <<>>
<1>1. P!Numbers(first, 0) \in Seq(Nat) /\ Len(P!Numbers(first, 0)) = 0
  BY NumbersAre
<1> QED BY <1>1, EmptyNat, EqualNat

(* Numbers and those that follow them.                                     *)
LEMMA NumbersJoin ==
  ASSUME NEW first \in Nat, NEW k \in Nat, NEW size \in Nat
  PROVE  P!Numbers(first, k) \o P!Numbers(first + k, size) = P!Numbers(first, k + size)
<1> DEFINE s == P!Numbers(first, k)
           t == P!Numbers(first + k, size)
           u == P!Numbers(first, k + size)
<1>0. first + k \in Nat /\ k + size \in Nat
  OBVIOUS
<1>1. /\ s \in Seq(Nat) /\ Len(s) = k /\ \A i \in 1 .. k : s[i] = first + i
  BY NumbersAre
<1>2. /\ t \in Seq(Nat) /\ Len(t) = size /\ \A i \in 1 .. size : t[i] = first + k + i
  BY <1>0, NumbersAre
<1>3. /\ u \in Seq(Nat) /\ Len(u) = k + size /\ \A i \in 1 .. k + size : u[i] = first + i
  BY <1>0, NumbersAre
<1> DEFINE c == s \o t
<1> HIDE DEF s, t, u
<1>4. /\ c \in Seq(Nat) /\ Len(c) = k + size
      /\ \A i \in 1 .. k + size : c[i] = IF i <= k THEN s[i] ELSE t[i - k]
  BY <1>1, <1>2, ConcatNat
<1> HIDE DEF c
<1>5. ASSUME NEW i \in 1 .. k + size
      PROVE  c[i] = first + i
  <2>1. i <= k \/ i > k
    OBVIOUS
  <2>2. CASE i <= k
    <3>1. i \in 1 .. k
      BY <2>2
    <3>2. c[i] = s[i]
      BY <1>4, <2>2
    <3>3. s[i] = first + i
      BY <1>1, <3>1
    <3> QED BY <3>2, <3>3, Zenon
  <2>3. CASE i > k
    <3>1. i - k \in 1 .. size /\ first + k + (i - k) = first + i /\ ~(i <= k)
      BY <2>3
    <3>2. c[i] = t[i - k]
      BY <1>4, <3>1
    <3>3. t[i - k] = first + k + (i - k)
      BY <1>2, <3>1
    <3> QED BY <3>1, <3>2, <3>3, Zenon
  <2> QED BY <2>1, <2>2, <2>3, Zenon
<1>6. \A i \in 1 .. Len(c) : c[i] = u[i]
  BY <1>3, <1>4, <1>5
<1>7. c = u
  BY <1>3, <1>4, <1>6, EqualNat
<1> QED BY <1>7 DEF c, s, t, u

(* A file that has all bytes up to first takes t, the k bytes behind it.   *)
LEMMA FileExtended ==
  ASSUME NEW first \in Nat, NEW k \in Nat, NEW w, FileHas(w, first),
         NEW t \in Seq(Nat), Len(t) = k, \A i \in 1 .. k : t[i] = first + i
  PROVE  FileHas(w \o t, first + k)
<1> DEFINE v == w \o t
           L == Len(w)
<1>1. w \in Seq(Nat) /\ L \in Nat /\ DOMAIN w = 1 .. L
  BY LenNat DEF FileHas
<1>2. v \in Seq(Nat) /\ Len(v) = L + k /\ DOMAIN v = 1 .. L + k
  <2>1. v \in Seq(Nat) /\ Len(v) = L + k
    BY <1>1, ConcatNat
  <2> HIDE DEF v, L
  <2> QED BY <2>1, LenNat
<1>3. \A i \in 1 .. L + k : v[i] = IF i <= L THEN w[i] ELSE t[i - L]
  BY <1>1, ConcatNat
<1> HIDE DEF v, L
<1>4. \A i \in 1 .. L : v[i] = w[i]
  BY <1>1, <1>3
<1>5. ASSUME NEW i \in 1 .. k
      PROVE  L + i \in 1 .. L + k /\ v[L + i] = first + i
  <2>1. L + i \in 1 .. L + k /\ ~(L + i <= L) /\ (L + i) - L = i
    BY <1>1
  <2>2. v[L + i] = t[i]
    BY <1>3, <2>1
  <2> QED BY <2>1, <2>2
<1>6. ASSUME NEW b \in 1 .. first + k
      PROVE  b \in InFile(v)
  <2>1. CASE b <= first
    <3>1. b \in 1 .. first
      BY <2>1
    <3>2. PICK j \in 1 .. L : w[j] = b
      BY <3>1, <1>1 DEF FileHas, InFile
    <3>3. j \in DOMAIN v /\ v[j] = b
      BY <3>2, <1>1, <1>2, <1>4
    <3> QED BY <3>3 DEF InFile
  <2>2. CASE b > first
    <3>1. b - first \in 1 .. k /\ first + (b - first) = b
      BY <2>2
    <3>2. L + (b - first) \in DOMAIN v /\ v[L + (b - first)] = b
      BY <3>1, <1>2, <1>5
    <3> QED BY <3>2 DEF InFile
  <2> QED BY <2>1, <2>2
<1>7. ASSUME NEW j \in 1 .. L + k, v[j] > 1
      PROVE  \E i \in 1 .. j - 1 : v[i] = v[j] - 1
  <2>1. CASE j <= L
    <3>1. j \in 1 .. L /\ v[j] = w[j]
      BY <2>1, <1>1, <1>4
    <3>2. PICK i \in 1 .. j - 1 : w[i] = w[j] - 1
      BY <3>1, <1>1, <1>7 DEF FileHas, InOrder
    <3>3. i \in 1 .. L
      BY <3>1, <1>1
    <3>4. v[i] = v[j] - 1
      BY <3>1, <3>2, <3>3, <1>4
    <3> QED BY <3>4
  <2>2. CASE j = L + 1
    <3>1. 1 \in 1 .. k
      BY <2>2, <1>1
    <3>2. v[j] = first + 1
      BY <2>2, <3>1, <1>5
    <3>3. first \in 1 .. first
      BY <3>2, <1>7
    <3>4. PICK i \in 1 .. L : w[i] = first
      BY <3>3, <1>1 DEF FileHas, InFile
    <3>5. i \in 1 .. j - 1 /\ v[i] = first
      BY <2>2, <3>4, <1>1, <1>4
    <3>6. v[i] = v[j] - 1
      BY <3>2, <3>5
    <3> QED BY <3>5, <3>6
  <2>3. CASE j > L + 1
    <3> DEFINE i == j - L
    <3>1. i \in 1 .. k /\ i - 1 \in 1 .. k /\ L + i = j /\ L + (i - 1) = j - 1
      BY <2>3, <1>1
    <3> HIDE DEF i
    <3>2. v[j] = first + i
      <4>1. v[L + i] = first + i
        BY <3>1, <1>5
      <4> QED BY <3>1, <4>1
    <3>3. v[j - 1] = first + (i - 1)
      <4>1. v[L + (i - 1)] = first + (i - 1)
        BY <3>1, <1>5
      <4> QED BY <3>1, <4>1
    <3>4. v[j - 1] = v[j] - 1
      BY <3>1, <3>2, <3>3
    <3>5. j - 1 \in 1 .. j - 1
      BY <2>3, <1>1
    <3> QED BY <3>4, <3>5
  <2> QED BY <2>1, <2>2, <2>3, <1>1
<1>8. FileHas(v, first + k)
  BY <1>2, <1>6, <1>7 DEF FileHas, InOrder
<1> QED BY <1>8 DEF v

(* The file takes the first k bytes of a run that begins behind first.     *)
LEMMA PrintTakes ==
  ASSUME NEW first \in Nat, NEW size \in Nat, NEW k \in 0 .. size, NEW w, FileHas(w, first)
  PROVE  FileHas(w \o SubSeq(P!Numbers(first, size), 1, k), first + k)
<1> DEFINE bytes == P!Numbers(first, size)
           t == SubSeq(bytes, 1, k)
<1>1. \A i \in 1 .. size : bytes[i] = first + i
  BY NumbersAre
<1> HIDE DEF bytes
<1>2. k \in Nat /\ \A i \in 1 .. k : i \in 1 .. size /\ first + i \in Nat
  OBVIOUS
<1>3. \A i \in 1 .. k : bytes[i] \in Nat /\ bytes[i] = first + i
  BY <1>1, <1>2
<1>4. t \in Seq(Nat) /\ Len(t) = k /\ \A i \in 1 .. k : t[i] = bytes[i]
  BY <1>2, <1>3, PrefixNat
<1> HIDE DEF t
<1>5. \A i \in 1 .. k : t[i] = first + i
  BY <1>3, <1>4
<1>6. FileHas(w \o t, first + k)
  BY <1>2, <1>4, <1>5, FileExtended
<1> QED BY <1>6 DEF t, bytes

-----------------------------------------------------------------------------
(* The invariant of BufferedPrint, from its parts after a step.            *)
LEMMA PrintInvNext ==
  ASSUME NEW first \in Nat, NEW k \in Nat, printed' = first + k, m_in' = P!Numbers(first, k),
         FileHas(written', first)
  PROVE  PrintInv'
<1> QED BY DEF PrintInv, FileHas, InOrder, InFile

(* Nothing is forgotten when a part of the buffer is written. *)
LEMMA PartKept ==
  ASSUME PrintInv, NEW p \in 0 .. Len(m_in), P!FileWrite(p, m_in), m_in' = P!Kept(p, m_in),
         UNCHANGED printed
  PROVE  PrintInv'
<1>1. PICK first \in Nat, k \in Nat :
        printed = first + k /\ m_in = P!Numbers(first, k) /\ FileHas(written, first)
  BY DEF PrintInv
<1>2. Len(m_in) = k
  BY <1>1, NumbersAre
<1>3. p \in 0 .. k
  BY <1>2
<1>4. FileHas(written', first + p)
  <2>1. written' = written \o SubSeq(P!Numbers(first, k), 1, p)
    BY <1>1 DEF P!FileWrite
  <2> QED BY <1>1, <1>3, <2>1, PrintTakes
<1>5. CASE p = k
  <2>1. m_in' = P!Numbers(printed, 0)
    BY <1>1, <1>2, <1>5, NumbersNone DEF P!Kept
  <2>2. printed' = printed + 0 /\ printed \in Nat /\ FileHas(written', printed)
    BY <1>1, <1>4, <1>5
  <2> QED BY <2>1, <2>2, PrintInvNext
<1>6. CASE p # k
  <2>1. m_in' = P!Numbers(first, k) /\ printed' = first + k
    BY <1>1, <1>2, <1>6 DEF P!Kept
  <2>2. 1 .. first \subseteq 1 .. first + p
    BY <1>1, <1>3
  <2>3. FileHas(written', first)
    BY <1>4, <2>2 DEF FileHas
  <2> QED BY <2>1, <2>3, PrintInvNext
<1> QED BY <1>5, <1>6

(* Every step keeps it.                                                    *)
LEMMA NextPrintInv ==
  ASSUME P!PrintAssumption, PrintInv, [P!Next]_P!vars
  PROVE  PrintInv'
<1>0. PICK first \in Nat, k \in Nat :
        printed = first + k /\ m_in = P!Numbers(first, k) /\ FileHas(written, first)
  BY DEF PrintInv
<1>00. Len(m_in) = k /\ printed \in Nat /\ \A size \in 1 .. MaxPrinted - printed : size \in Nat
  BY <1>0, NumbersAre DEF P!PrintAssumption
<1>1. CASE P!sync
  BY <1>1, PartKept DEF P!sync
<1>2. ASSUME NEW size \in 1 .. MaxPrinted - printed, P!writeFits(size)
      PROVE  PrintInv'
  <2>1. size \in Nat
    BY <1>00
  <2>2. m_in' = P!Numbers(first, k + size)
    BY <1>0, <1>2, <2>1, NumbersJoin DEF P!writeFits
  <2>3. printed' = first + (k + size) /\ k + size \in Nat /\ FileHas(written', first)
    BY <1>0, <1>2, <2>1 DEF P!writeFits
  <2> QED BY <2>2, <2>3, PrintInvNext
<1>3. ASSUME NEW size \in 1 .. MaxPrinted - printed, P!writeSyncFails(size)
      PROVE  PrintInv'
  <2>1. PICK p \in 0 .. Len(m_in) - 1 : P!FileWrite(p, m_in) /\ m_in' = P!Kept(p, m_in)
    BY <1>3 DEF P!writeSyncFails
  <2>2. p \in 0 .. Len(m_in) /\ UNCHANGED printed
    BY <1>00, <1>3 DEF P!writeSyncFails
  <2> QED BY <2>1, <2>2, PartKept
<1>4. ASSUME NEW size \in 1 .. MaxPrinted - printed, P!writeAfterSync(size)
      PROVE  PrintInv'
  <2>1. size \in Nat /\ printed' = printed + size /\ m_in' = P!Numbers(printed, size)
    BY <1>00, <1>4 DEF P!writeAfterSync
  <2>2. written' = written \o SubSeq(P!Numbers(first, k), 1, k) /\ k \in 0 .. k
    BY <1>0, <1>00, <1>4 DEF P!writeAfterSync, P!FileWrite
  <2>3. FileHas(written', printed)
    BY <1>0, <2>2, PrintTakes
  <2> QED BY <1>00, <2>1, <2>3, PrintInvNext
<1>5. ASSUME NEW size \in 1 .. MaxPrinted - printed, P!writeDirectly(size)
      PROVE  PrintInv'
  <2>1. size \in Nat
    BY <1>00
  <2>2. PICK p \in 0 .. size :
          /\ P!FileWrite(Len(m_in) + p, m_in \o P!Numbers(printed, size))
          /\ printed' = IF p = size THEN printed + size ELSE printed
    BY <1>5 DEF P!writeDirectly
  <2>3. written' = written \o SubSeq(P!Numbers(first, k + size), 1, k + p)
    <3>1. m_in \o P!Numbers(printed, size) = P!Numbers(first, k + size)
      BY <1>0, <2>1, NumbersJoin
    <3> QED BY <1>00, <2>2, <3>1 DEF P!FileWrite
  <2>4. k + size \in Nat /\ k + p \in 0 .. k + size /\ first + (k + p) = printed + p
    BY <1>0, <2>1
  <2>5. FileHas(written', first + (k + p))
    BY <1>0, <2>3, <2>4, PrintTakes
  <2>6. printed' \in Nat /\ 1 .. printed' \subseteq 1 .. printed + p
    BY <1>00, <2>1, <2>2
  <2>7. FileHas(written', printed')
    BY <2>4, <2>5, <2>6 DEF FileHas
  <2>8. m_in' = P!Numbers(printed', 0) /\ printed' = printed' + 0
    BY <1>5, <2>6, NumbersNone DEF P!writeDirectly
  <2> QED BY <2>6, <2>7, <2>8, PrintInvNext
<1>6. CASE UNCHANGED P!vars
  BY <1>0, <1>6, PrintInvNext DEF P!vars
<1> QED BY <1>1, <1>2, <1>3, <1>4, <1>5, <1>6 DEF P!Next

(* It says what PrintKeeps says.                                           *)
LEMMA InvKeeps ==
  ASSUME PrintInv
  PROVE  P!PrintKeeps
<1>1. PICK first \in Nat, k \in Nat :
        printed = first + k /\ m_in = P!Numbers(first, k) /\ FileHas(written, first)
  BY DEF PrintInv
<1>2. Len(m_in) = k /\ printed - k = first
  BY <1>1, NumbersAre
<1> QED BY <1>1, <1>2 DEF P!PrintKeeps, FileHas, InFile, InOrder

(* Nothing is printed yet. *)
LEMMA PrintInvInit ==
  ASSUME P!Init
  PROVE  PrintInv
<1>1. P!Numbers(0, 0) = <<>> /\ <<>> \in Seq(Nat) /\ DOMAIN <<>> = 1 .. 0
  BY NumbersNone, EmptyNat, LenNat
<1>2. FileHas(<<>>, 0)
  BY <1>1 DEF FileHas, InOrder, InFile
<1>3. printed = 0 + 0 /\ m_in = P!Numbers(0, 0) /\ FileHas(written, 0)
  BY <1>1, <1>2 DEF P!Init
<1> QED BY <1>3 DEF PrintInv

(* Whatever a file takes of the writes of a BufferedPrint, and however     *)
(* often a program repeats a print that failed, every byte that was        *)
(* accepted is in the file or in the buffer, and none is in the file       *)
(* before the one it follows (sync, write).                                *)
THEOREM PrintsKept ==
  ASSUME P!PrintAssumption
  PROVE  P!Spec => []P!PrintKeeps
<1>1. P!Init => PrintInv
  BY PrintInvInit
<1>2. PrintInv /\ [P!Next]_P!vars => PrintInv'
  BY NextPrintInv
<1>3. PrintInv => P!PrintKeeps
  BY InvKeeps
<1> QED BY <1>1, <1>2, <1>3, PTL DEF P!Spec

-----------------------------------------------------------------------------
(* A program has one of the buffers. *)
BuffersInv == IInv /\ StreamInv /\ PrintInv

LEMMA BuffersInvInit ==
  ASSUME BuffersInit
  PROVE  BuffersInv
<1> QED BY StreamAssumption, InitIInv, StreamInvInit, PrintInvInit DEF BuffersInit, BuffersInv

LEMMA BuffersInvNext ==
  ASSUME CallerCaps, Careful = TRUE, BuffersInv, [BuffersNext]_bufferVars
  PROVE  BuffersInv' /\ FifoStep
<1>1. IInv /\ StreamInv /\ PrintInv
  BY DEF BuffersInv
<1>2. /\ Next \/ UNCHANGED vars
      /\ S!Next \/ UNCHANGED S!vars
      /\ P!Next \/ UNCHANGED P!vars
  <2>1. CASE RingCall
    BY <2>1 DEF RingCall, streamVars, printVars, S!vars, S!history, P!vars
  <2>2. CASE StreamCall
    BY <2>2 DEF StreamCall, printVars, P!vars
  <2>3. CASE PrintCall
    BY <2>3 DEF PrintCall, streamVars, S!vars, S!history
  <2>4. CASE UNCHANGED bufferVars
    BY <2>4 DEF bufferVars, streamVars, printVars, S!vars, S!history, P!vars
  <2> QED BY <2>1, <2>2, <2>3, <2>4 DEF BuffersNext
<1>3. IInv' /\ FifoStep
  BY <1>1, <1>2, NextIInv
<1>4. StreamInv'
  BY <1>1, <1>2, StreamAssumption, StreamInvNext, StreamInvStutter
<1>5. PrintInv'
  BY <1>1, <1>2, PrintAssumption, NextPrintInv
<1> QED BY <1>3, <1>4, <1>5 DEF BuffersInv

(* Whichever of the three buffers a program has, what is in it and what    *)
(* the file has are together what was handed over: no byte is lost, moved  *)
(* or given twice, for all sizes of the buffers and the file.              *)
THEOREM BuffersCorrect ==
  ASSUME CallerCaps, Careful = TRUE
  PROVE  BuffersSpec => [](TypeOK /\ CountAccounts /\ BytesInPlace /\ BuffersAgree)
<1>1. BuffersInit => BuffersInv
  BY BuffersInvInit
<1>2. BuffersInv /\ [BuffersNext]_bufferVars => BuffersInv'
  BY BuffersInvNext
<1>3. BuffersInv => TypeOK /\ CountAccounts /\ BytesInPlace /\ BuffersAgree
  BY StreamAssumption, StreamInvImplies, InvKeeps DEF BuffersInv, IInv, BuffersAgree
<1> QED BY <1>1, <1>2, <1>3, PTL DEF BuffersSpec

(* A RingBuf among the other buffers is still a bounded FIFO.              *)
THEOREM BuffersImplementFifo ==
  ASSUME CallerCaps, Careful = TRUE
  PROVE  BuffersSpec => FifoSpec
<1>1. BuffersInit => BuffersInv
  BY BuffersInvInit
<1>2. BuffersInv /\ [BuffersNext]_bufferVars => BuffersInv'
  BY BuffersInvNext
<1>3. BuffersInit => Fifo!Init
  BY DEF BuffersInit, Init, Fifo!Init
<1>4. BuffersInv /\ [BuffersNext]_bufferVars => [Fifo!Next]_<<in, out>>
  BY BuffersInvNext DEF FifoStep
<1> QED BY <1>1, <1>2, <1>3, <1>4, PTL DEF BuffersSpec, FifoSpec, Fifo!Spec
=============================================================================
