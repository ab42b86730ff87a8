----------------------------- MODULE SdSpiCard -----------------------------
(***************************************************************************)
(* SdSpiCard of src/src/SdCard/SdSpiCard: a card reached over SPI, either  *)
(* shared with other devices or dedicated to the card.  In dedicated mode  *)
(* a multi-sector transfer stays open from one call to the next, and the   *)
(* driver only knows by m_state, m_curSector and m_spiActive where it      *)
(* stands.                                                                 *)
(*                                                                         *)
(* The card is external: any command or block may fail or its answer may   *)
(* be lost, it may stay busy past a timeout, and it may lose its power and *)
(* come back uninitialised.  It does not answer what it did not carry out, *)
(* nor lose a block it accepted in a multi-sector write; a deselected card *)
(* hears nothing and its line reads 0XFF.                                  *)
(*                                                                         *)
(* isBusy() leaves everything as it found it and is no action.  Sectors    *)
(* are numbers: the byte addresses of cards that are not SDHC name the     *)
(* same sectors.                                                           *)
(***************************************************************************)
EXTENDS Integers, FiniteSets

CONSTANTS
  Sectors,      \* sectors of the card
  Data,         \* what a sector may hold
  MaxSectors    \* bound: sectors in one call

ASSUME SectorsAssumption ==
  /\ Sectors \in Nat \ {0}
  /\ MaxSectors \in Nat \ {0}
  /\ Data # {}

Sector == 0 .. Sectors - 1

VARIABLES
  m_state, m_curSector, m_spiActive, m_dedicatedSpi,
  begun,        \* begin() succeeded and end() was not called since
  raw,          \* the caller's own readStart ... readStop or writeStart ...
                \* writeStop: its direction and its next sector
  card,         \* what the card is at: "off", "ready", "sending", "receiving"
  next,         \* the sector it sends or receives next
  disk,         \* the contents of its sectors
  last          \* the last call that concerned sectors, and its result

driver == <<m_state, m_curSector, m_spiActive, m_dedicatedSpi>>
vars == <<driver, begun, raw, card, next, disk, last>>

-----------------------------------------------------------------------------
(* A call is a chain of exchanges with the card.  It is described by the   *)
(* set of its outcomes: the result and the condition it leaves the driver  *)
(* and the card in.                                                        *)
now == [state |-> m_state, cur |-> m_curSector, active |-> m_spiActive,
        card |-> card, next |-> next, disk |-> disk]
Result(ok, s) == [ok |-> ok, s |-> s]

Becomes(s) ==
  /\ m_state' = s.state
  /\ m_curSector' = s.cur
  /\ m_spiActive' = s.active
  /\ card' = s.card
  /\ next' = s.next
  /\ disk' = s.disk

NoStream == [dir |-> "IDLE", next |-> 0]
Other == [call |-> "other"]

Length(a) == 1 .. (IF Sectors - a < MaxSectors THEN Sectors - a ELSE MaxSectors)
Blocks(n) == [0 .. n - 1 -> Data]

(* The disk after the first n blocks of src went to the sectors from a on. *)
Over(d, a, src, n) ==
  [t \in Sector |-> IF t \in a .. a + n - 1 THEN src[t - a] ELSE d[t]]

-----------------------------------------------------------------------------
spiStart(s) == [s EXCEPT !.active = TRUE]
spiStop(s) == [s EXCEPT !.active = FALSE]

(* waitReady: the card may be busy for longer than the timeout; where      *)
(* nobody drives the line, it reads as ready.                              *)
waitReady(s) == IF s.active /\ s.card # "off" THEN BOOLEAN ELSE {TRUE}

(* The card: which commands it carries out, and what it is then at. *)
Accepts(s, cmd) == s.card = (IF cmd = "CMD12" THEN "sending" ELSE "ready")
CarriedOut(s, cmd, a) ==
  [s EXCEPT !.card = CASE cmd = "CMD18" -> "sending"
                       [] cmd \in {"CMD24", "CMD25"} -> "receiving"
                       [] OTHER -> "ready",
            !.next = IF cmd \in {"CMD18", "CMD24", "CMD25"} THEN a ELSE 0]
Answers(s, cmd, a) ==
  {Result(FALSE, s)} \cup
  IF Accepts(s, cmd) THEN {Result(ok, CarriedOut(s, cmd, a)) : ok \in BOOLEAN} ELSE {}

(* The part of cardCommand after syncDevice. *)
sendCommand(s, cmd, a) ==
  LET t == spiStart(s)
      waited == IF cmd = "CMD12" THEN {TRUE} ELSE waitReady(t)
  IN  UNION {IF w THEN Answers(t, cmd, a) ELSE {Result(FALSE, t)} : w \in waited}

(* What follows a command and ends with spiStop however it went. *)
Ended(results) == {Result(r.ok, spiStop(r.s)) : r \in results}

readStop(s) == Ended(sendCommand([s EXCEPT !.state = "IDLE"], "CMD12", 0))

(* The stop token ends a write if it reaches the card. *)
Told(s) == IF s.active /\ s.card = "receiving"
           THEN [s EXCEPT !.card = "ready", !.next = 0] ELSE s

writeStop(s) ==
  {IF w THEN Result(TRUE, [spiStop(Told(s)) EXCEPT !.state = "IDLE"])
        ELSE Result(FALSE, spiStop(s)) : w \in waitReady(s)}

syncDevice(s) ==
  CASE s.state = "WRITE" -> writeStop(s)
    [] s.state = "READ"  -> readStop(s)
    [] OTHER             -> {Result(TRUE, s)}

cardCommand(s, cmd, a) ==
  UNION {IF r.ok THEN sendCommand(r.s, cmd, a) ELSE {r} : r \in syncDevice(s)}

(* CMD55, whose answer is ignored, then the command itself: a first        *)
(* syncDevice that failed is made good by a second.                        *)
cardAcmd(s, cmd) ==
  UNION {cardCommand(r.s, cmd, 0) : r \in cardCommand(s, "CMD55", 0)}

start(s, cmd, dir, a) ==
  {IF r.ok THEN Result(TRUE, [r.s EXCEPT !.state = dir])
           ELSE Result(FALSE, spiStop(r.s)) : r \in cardCommand(s, cmd, a)}
readStart(s, a) == start(s, "CMD18", "READ", a)
writeStart(s, a) == start(s, "CMD25", "WRITE", a)

(* Operators marked "slip" are not used: each is the form its neighbour    *)
(* would have after a plausible bug, and a run shows that a property sees  *)
(* it.                                                                     *)

(* How many of n blocks can pass, and what a block that fails leaves. *)
Passing(s, at, n) ==
  {k \in 0 .. n : k > 0 => s.active /\ s.card = at /\ s.next + k <= Sectors}
GivesUpSelected(s) == s                                  \* slip: spiStop forgotten
GivesUp(s) == spiStop(s)

(* n calls of readData, up to the first that fails.  The card may have     *)
(* sent a block that the driver did not take.                              *)
readData(s, n) ==
  LET sent(k) == [s EXCEPT !.next = s.next + k]
  IN  {Result(TRUE, sent(k)) : k \in Passing(s, "sending", n) \cap {n}} \cup
      {Result(FALSE, GivesUp(sent(k))) : k \in Passing(s, "sending", n)}

(* n calls of writeData; a block may be stored though its answer is lost. *)
writeData(s, src, n) ==
  LET stored(k) == [s EXCEPT !.next = s.next + k, !.disk = Over(s.disk, s.next, src, k)]
  IN  {Result(TRUE, stored(k)) : k \in Passing(s, "receiving", n) \cap {n}} \cup
      {Result(FALSE, GivesUp(stored(k))) : k \in Passing(s, "receiving", n)}

(* Does the open transfer go on with this sector? *)
ContinuesAnywhere(s, dir, a) == s.state = dir              \* slip: sector not compared
Continues(s, dir, a) == s.state = dir /\ a = s.cur

(* m_curSector += ns. *)
CurAfterOver(s, n) == [s EXCEPT !.cur = s.cur + n + 1]      \* slip: one too far
CurAfter(s, n) == [s EXCEPT !.cur = s.cur + n]

Opened(dir, a, started) ==
  IF Continues(now, dir, a) THEN {Result(TRUE, now)}
  ELSE {IF r.ok THEN Result(TRUE, [r.s EXCEPT !.cur = a]) ELSE r : r \in started}

-----------------------------------------------------------------------------
Init ==
  /\ m_state = "IDLE" /\ m_curSector = 0
  /\ m_spiActive = FALSE /\ m_dedicatedSpi = FALSE
  /\ begun = FALSE
  /\ raw = NoStream
  /\ card = "off" /\ next = 0
  /\ disk \in [Sector -> Data]
  /\ last = Other

(* begin(): CMD0 and ACMD41 bring the card to ready from whatever it was   *)
(* at.  The option is taken over only when all went well.                  *)
BeginSucceeds(dedicated) ==
  /\ Becomes([now EXCEPT !.state = "IDLE", !.active = FALSE, !.card = "ready", !.next = 0])
  /\ m_dedicatedSpi' = dedicated
  /\ begun' = TRUE
BeginFails ==
  /\ \E c \in {card, "off", "ready"} :
       Becomes([now EXCEPT !.state = "IDLE", !.active = FALSE, !.card = c,
                           !.next = IF c = card THEN next ELSE 0])
  /\ begun' = FALSE
  /\ UNCHANGED m_dedicatedSpi
begin ==
  /\ raw = NoStream
  /\ BeginFails \/ \E dedicated \in BOOLEAN : BeginSucceeds(dedicated)
  /\ raw' = raw
  /\ last' = Other

(* The calls below are made between begin() and end(), and while no raw    *)
(* transfer is open except for its own calls.                              *)
Usable == begun /\ raw = NoStream

end ==
  /\ Usable
  /\ \E r \in syncDevice(now) : Becomes(r.s)
  /\ begun' = FALSE
  /\ last' = Other
  /\ UNCHANGED <<m_dedicatedSpi, raw>>

sync ==
  /\ Usable
  /\ \E r \in syncDevice(now) : Becomes(r.s)
  /\ last' = Other
  /\ UNCHANGED <<m_dedicatedSpi, begun, raw>>

SettledNever(s) == {Result(TRUE, s)}                     \* slip: mode set at once
Settled(s) == syncDevice(s)
setDedicatedSpi(value) ==
  /\ Usable
  /\ \E r \in Settled(now) :
       /\ Becomes(r.s)
       /\ m_dedicatedSpi' = IF r.ok THEN value ELSE m_dedicatedSpi
  /\ last' = Other
  /\ UNCHANGED <<begun, raw>>

(* readCID, readCSD, sectorCount, readOCR, cardCMD6; readSCR, readSDS. *)
readRegister ==
  /\ Usable
  /\ \E r \in Ended(cardCommand(now, "CMD9", 0) \cup cardAcmd(now, "ACMD13")) :
       Becomes(r.s)
  /\ last' = Other
  /\ UNCHANGED <<m_dedicatedSpi, begun, raw>>

readSectors(a, n) ==
  /\ Usable
  /\ \E o \in Opened("READ", a, readStart(now, a)) :
       \/ ~o.ok /\ Becomes(o.s) /\ last' = Other
       \/ /\ o.ok
          /\ \E r \in readData(o.s, n) :
               \/ ~r.ok /\ Becomes(r.s) /\ last' = Other
               \/ /\ r.ok
                  /\ \E c \in IF m_dedicatedSpi THEN {Result(TRUE, CurAfter(r.s, n))}
                              ELSE readStop(CurAfter(r.s, n)) :
                       /\ Becomes(c.s)
                       /\ last' = IF c.ok
                                  THEN [call |-> "read", at |-> a, n |-> n,
                                        data |-> [i \in 0 .. n - 1 |-> disk[o.s.next + i]]]
                                  ELSE Other
  /\ UNCHANGED <<m_dedicatedSpi, begun, raw>>

Wrote(a, n, src, ok) == [call |-> "write", at |-> a, n |-> n, data |-> src, ok |-> ok]

writeSectors(a, n, src) ==
  /\ Usable
  /\ \E o \in Opened("WRITE", a, writeStart(now, a)) :
       \/ ~o.ok /\ Becomes(spiStop(o.s)) /\ last' = Wrote(a, n, src, FALSE)
       \/ /\ o.ok
          /\ \E r \in writeData(o.s, src, n) :
               \/ ~r.ok /\ Becomes(spiStop(r.s)) /\ last' = Wrote(a, n, src, FALSE)
               \/ /\ r.ok
                  /\ \E c \in IF m_dedicatedSpi THEN {Result(TRUE, CurAfter(r.s, n))}
                              ELSE writeStop(CurAfter(r.s, n)) :
                       Becomes(c.s) /\ last' = Wrote(a, n, src, c.ok)
  /\ UNCHANGED <<m_dedicatedSpi, begun, raw>>

(* writeSector in shared mode: CMD24, one block, then CMD13 tells whether  *)
(* the card could store it.  Dedicated mode uses writeSectors.             *)
StatusTells(ok, sent, stored) == ok => stored = sent
writeSector(a, src) ==
  /\ Usable
  /\ ~m_dedicatedSpi
  /\ \E r \in Ended(cardCommand(now, "CMD24", a)) :
       \/ ~r.ok /\ Becomes(r.s) /\ last' = Wrote(a, 1, src, FALSE)
       \/ /\ r.ok
          /\ \E ok \in BOOLEAN, d \in Data :
               /\ StatusTells(ok, src[0], d)
               /\ Becomes([r.s EXCEPT !.card = "ready", !.next = 0, !.disk[a] = d])
               /\ last' = Wrote(a, 1, src, ok)
  /\ UNCHANGED <<m_dedicatedSpi, begun, raw>>

(* erase of the n sectors from a on: CSD, CMD32, CMD33, CMD38. *)
Erased(a, n, ok) == [call |-> "erase", at |-> a, n |-> n, ok |-> ok]
erase(a, n) ==
  /\ Usable
  /\ \E r \in Ended(cardCommand(now, "CMD38", 0)), d \in Data :
       \/ Becomes(r.s) /\ last' = Erased(a, n, FALSE)
       \/ /\ r.ok
          /\ Becomes([r.s EXCEPT !.disk = Over(disk, a, [i \in 0 .. n - 1 |-> d], n)])
          /\ \E ok \in BOOLEAN : last' = Erased(a, n, ok)
  /\ UNCHANGED <<m_dedicatedSpi, begun, raw>>

(* A caller's own transfer: readStart, any number of readData, readStop,   *)
(* and the same for writing.  m_curSector takes no part in it.             *)
rawStart(dir, a) ==
  /\ Usable
  /\ \E r \in IF dir = "READ" THEN readStart(now, a) ELSE writeStart(now, a) :
       /\ Becomes(r.s)
       /\ raw' = IF r.ok THEN [dir |-> dir, next |-> a] ELSE raw
  /\ last' = Other
  /\ UNCHANGED <<m_dedicatedSpi, begun>>

rawRead ==
  /\ raw.dir = "READ" /\ raw.next \in Sector
  /\ \E r \in readData(now, 1) :
       /\ Becomes(r.s)
       /\ last' = IF r.ok THEN [call |-> "read", at |-> raw.next, n |-> 1,
                                data |-> [i \in {0} |-> disk[next]]]
                  ELSE Other
       /\ raw' = IF r.ok THEN [raw EXCEPT !.next = @ + 1] ELSE raw
  /\ UNCHANGED <<m_dedicatedSpi, begun>>

(* The public writeData waits for the card itself before its block. *)
rawWrite(src) ==
  /\ raw.dir = "WRITE" /\ raw.next \in Sector
  /\ \E r \in writeData(now, src, 1) :
       /\ Becomes(r.s)
       /\ last' = Wrote(raw.next, 1, src, r.ok)
       /\ raw' = IF r.ok THEN [raw EXCEPT !.next = @ + 1] ELSE raw
  /\ UNCHANGED <<m_dedicatedSpi, begun>>

rawStop ==
  /\ raw # NoStream
  /\ \E r \in IF raw.dir = "READ" THEN readStop(now) ELSE writeStop(now) : Becomes(r.s)
  /\ raw' = NoStream
  /\ last' = Other
  /\ UNCHANGED <<m_dedicatedSpi, begun>>

(* The card is pulled out and put back, or browns out. *)
PowerLoss ==
  /\ card' = "off" /\ next' = 0
  /\ UNCHANGED <<driver, begun, raw, disk, last>>

Next ==
  \/ begin \/ end \/ sync \/ readRegister \/ rawRead \/ rawStop \/ PowerLoss
  \/ \E value \in BOOLEAN : setDedicatedSpi(value)
  \/ \E src \in Blocks(1) : rawWrite(src)
  \/ \E a \in Sector :
       \/ \E dir \in {"READ", "WRITE"} : rawStart(dir, a)
       \/ \E src \in Blocks(1) : writeSector(a, src)
       \/ \E n \in Length(a) :
            \/ readSectors(a, n)
            \/ erase(a, n)
            \/ \E src \in Blocks(n) : writeSectors(a, n, src)

Spec == Init /\ [][Next]_vars

-----------------------------------------------------------------------------
(* The types of the variables; m_curSector never passes the sector after   *)
(* the last one.                                                           *)
TypeOK ==
  /\ m_state \in {"IDLE", "READ", "WRITE"}
  /\ m_curSector \in 0 .. Sectors
  /\ m_spiActive \in BOOLEAN /\ m_dedicatedSpi \in BOOLEAN
  /\ begun \in BOOLEAN
  /\ raw \in [dir : {"IDLE", "READ", "WRITE"}, next : 0 .. Sectors]
  /\ card \in {"off", "ready", "sending", "receiving"}
  /\ next \in 0 .. Sectors
  /\ disk \in [Sector -> Data]

(* While the card is selected between two calls, a transfer is open, the   *)
(* card is at it in the same direction and at the very sector the driver   *)
(* takes it to be at - unless it lost its power.  A transfer that broke    *)
(* off, at whatever block and for whatever reason, is never selected again *)
(* under the same m_state (readSectors, writeSectors skip the start of a   *)
(* transfer on the strength of it).                                        *)
StreamAgrees ==
  m_spiActive =>
    /\ m_state # "IDLE"
    /\ card # "off" =>
         /\ card = (IF m_state = "READ" THEN "sending" ELSE "receiving")
         /\ next = (IF raw = NoStream THEN m_curSector ELSE raw.next)

(* The card keeps the bus after a call only in dedicated mode or in a      *)
(* transfer that the caller opened: on a shared bus another device would   *)
(* answer together with it.                                                *)
BusReleased == m_spiActive => m_dedicatedSpi \/ raw # NoStream

(* The driver is a block device: through transfers that stay open, broken  *)
(* transfers, retries and card resets, a read that succeeds delivers the   *)
(* sectors asked for, a write that succeeds has stored them, and no call   *)
(* changes another sector.                                                 *)
Device == INSTANCE BlockDevice
DeviceSpec == Device!Spec
=============================================================================
