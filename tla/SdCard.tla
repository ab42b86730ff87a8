------------------------------- MODULE SdCard -------------------------------
(***************************************************************************)
(* The card that SdCardFactory of src/src/SdCard/SdCard.h makes: over SPI  *)
(* (SdSpiCard) or over SDIO, with PioSdioCard or with TeensySdioCard in    *)
(* its FIFO or its DMA mode.  The SDIO drivers keep a multi-sector         *)
(* transfer open from call to call, as SPI does in dedicated mode: their   *)
(* m_curState is the m_state of SdSpiCard, and the card is the same.       *)
(*                                                                         *)
(* In FIFO mode a write returns when the controller has its block; that    *)
(* the card did not take it is found by waitTransferComplete() in a later  *)
(* call.  readSectors and writeSectors are loops of single sectors there.  *)
(* The Teensy is one whose transfers have no block count (IMXRT1062).      *)
(*                                                                         *)
(* Neither SDIO driver closes a transfer that fails.  A call that goes on  *)
(* with it meets a card that stands elsewhere, so that a program that      *)
(* repeats the call can get or overwrite another sector.                   *)
(***************************************************************************)
EXTENDS SdSpiCard

CONSTANT
  Retries       \* a program may go on with a transfer that failed

ASSUME RetriesAssumption == Retries \in BOOLEAN

VARIABLES
  bus,              \* which driver the configuration asks for
  m_transferActive, \* FIFO: a block was handed to the controller
  controller,       \* what became of it: "free", "sending", "done" or "error"
  block,            \* the block, and the sector it is for
  unsure,           \* history: the open transfer belongs to a call that failed
  lost              \* history: a block was not stored and no call has said so

fifo == <<m_transferActive, controller, block>>
sdio == <<bus, fifo, unsure, lost>>
cardVars == <<vars, sdio>>
NoBlock == [at |-> 0, data |-> CHOOSE d \in Data : TRUE]

CardInit ==
  /\ Init
  /\ bus \in {"SPI", "PIO", "FIFO", "DMA"}
  /\ m_transferActive = FALSE /\ controller = "free" /\ block = NoBlock
  /\ unsure = FALSE /\ lost = FALSE

-----------------------------------------------------------------------------
(* On SDIO the card hears CMD12 in both directions, and nobody selects it. *)
sdioAnswers(s, cmd, a) ==
  IF cmd = "CMD12" /\ s.card = "receiving"
  THEN {Result(FALSE, s)} \cup {Result(ok, CarriedOut(s, cmd, a)) : ok \in BOOLEAN}
  ELSE Answers(s, cmd, a)

(* The stop of an open transfer.  PioSdioCard is idle when the card is no  *)
(* longer busy; TeensySdioCard is before it sends the command.             *)
Stopped(s) ==
  LET sent(t) == sdioAnswers(t, "CMD12", 0)
      idle(t) == [t EXCEPT !.state = "IDLE"] IN
  CASE s.state = "IDLE" -> {Result(TRUE, s)}
    [] s.state # "IDLE" /\ bus = "PIO" ->
         {Result(FALSE, r.s) : r \in sent(s)} \cup
         {Result(TRUE, idle(r.s)) : r \in {q \in sent(s) : q.ok}}
    [] OTHER ->
         sent(idle(s)) \cup {Result(FALSE, r.s) : r \in sent(idle(s))}

(* Does the open transfer go on?  If not it is stopped and another started. *)
sdioOpened(dir, a) ==
  LET cmd == IF dir = "READ" THEN "CMD18" ELSE "CMD25"
      started(s) == {IF r.ok THEN Result(TRUE, [r.s EXCEPT !.state = dir, !.cur = a]) ELSE r :
                       r \in sdioAnswers(s, cmd, a)}
  IN IF Continues(now, dir, a) THEN {Result(TRUE, now)}
     ELSE UNION {IF r.ok THEN started(r.s) ELSE {r} : r \in Stopped(now)}

Passes(s, at, k) == k > 0 => s.card = at /\ s.next + k <= Sectors
Stored(s, src, k) == [s EXCEPT !.next = @ + k, !.disk = Over(s.disk, s.next, src, k)]
(* j blocks are through when one fails; the card may count that one, too. *)
Broken(n) == {b \in (0 .. n - 1) \X (0 .. n) : b[2] \in {b[1], b[1] + 1}}

(* readSector counts each sector it has read. *)
sdioRead(s, n) ==
  LET sent(j, k) == [s EXCEPT !.next = @ + k, !.cur = @ + j]
  IN {Result(TRUE, sent(n, n)) : x \in {y \in {n} : Passes(s, "sending", n)}} \cup
     {Result(FALSE, sent(b[1], b[2])) : b \in {x \in Broken(n) : Passes(s, "sending", x[2])}}

(* writeSectors of PioSdioCard counts the sectors when all are written. *)
CountedNever(s, n, k) == s                                  \* slip: not counted
Counted(s, n, k) == [s EXCEPT !.cur = @ + IF k = n THEN n ELSE 0]
pioWrite(s, src, n) ==
  {Result(TRUE, Counted(Stored(s, src, n), n, n)) : x \in {y \in {n} : Passes(s, "receiving", n)}} \cup
  {Result(FALSE, Counted(Stored(s, src, b[2]), n, b[1])) :
     b \in {x \in Broken(n) : Passes(s, "receiving", x[2])}}

(* waitTransferComplete(): the calls below begin when the controller has   *)
(* come to an end with its block.                                          *)
Waited == controller # "sending"
CompleteAlways == TRUE                                      \* slip: error not looked at
Complete == m_transferActive => controller = "done"
AfterWait(results) == IF Complete THEN results ELSE {Result(FALSE, now)}

Returns(ok) ==
  /\ unsure' = (~ok /\ m_state' # "IDLE")
  /\ lost' = (lost /\ ok)
  /\ UNCHANGED <<m_dedicatedSpi, begun, raw, bus>>
NoTransfer == m_transferActive' = FALSE /\ controller' = "free" /\ UNCHANGED block

(* A call of an SDIO driver that is open. *)
Sdio(kinds) == bus \in kinds /\ begun /\ Waited
GoesOn(dir, a) == unsure /\ Continues(now, dir, a)

-----------------------------------------------------------------------------
SpiCall == bus = "SPI" /\ Next /\ UNCHANGED sdio

sdioPowerLoss == bus # "SPI" /\ PowerLoss /\ UNCHANGED sdio

(* begin() resets the controller and leaves m_transferActive as it is. *)
sdioBegin ==
  /\ bus # "SPI"
  /\ BeginFails \/ BeginSucceeds(FALSE)
  /\ raw' = raw /\ last' = Other
  /\ controller' = "free" /\ unsure' = FALSE
  /\ UNCHANGED <<bus, m_transferActive, block, lost>>

(* end(): nothing is told to the card. *)
sdioEnd ==
  /\ Sdio({"PIO", "FIFO", "DMA"})
  /\ begun' = FALSE /\ last' = Other
  /\ UNCHANGED <<driver, raw, card, next, disk, sdio>>

sdioSync ==
  /\ Sdio({"PIO", "FIFO", "DMA"})
  /\ \E r \in AfterWait(Stopped(now)) : Becomes(r.s) /\ Returns(r.ok)
  /\ NoTransfer
  /\ last' = Other

ReadOf(a, n, s) ==
  [call |-> "read", at |-> a, n |-> n, data |-> [i \in 0 .. n - 1 |-> disk[s.next - n + i]]]
sdioReadSectors(a, n) ==
  /\ Sdio({"PIO", "FIFO"}) /\ (Retries \/ ~GoesOn("READ", a))
  /\ \E o \in AfterWait(sdioOpened("READ", a)) :
     \E r \in IF o.ok THEN sdioRead(o.s, n) ELSE {o} :
       /\ Becomes(r.s) /\ Returns(r.ok)
       /\ last' = IF r.ok THEN ReadOf(a, n, r.s) ELSE Other
  /\ NoTransfer

pioWriteSectors(a, n, src) ==
  /\ Sdio({"PIO"}) /\ (Retries \/ ~GoesOn("WRITE", a))
  /\ \E o \in sdioOpened("WRITE", a) :
     \E r \in IF o.ok THEN pioWrite(o.s, src, n) ELSE {o} :
       Becomes(r.s) /\ Returns(r.ok) /\ last' = Wrote(a, n, src, r.ok)
  /\ UNCHANGED fifo

(* writeSector in FIFO mode: the block is handed over. *)
fifoWriteSector(a, d) ==
  /\ Sdio({"FIFO"}) /\ (Retries \/ ~GoesOn("WRITE", a))
  /\ \E o \in AfterWait(sdioOpened("WRITE", a)) :
       \/ /\ o.ok
          /\ Becomes([o.s EXCEPT !.cur = @ + 1]) /\ Returns(TRUE)
          /\ m_transferActive' = TRUE /\ controller' = "sending"
          /\ block' = [at |-> a, data |-> d]
       \/ Becomes(o.s) /\ Returns(FALSE) /\ NoTransfer
  /\ last' = Other

(* The controller: the card has the block, or an error or a timeout.  The  *)
(* block is then the write that its call has promised.                     *)
BlockDone ==
  LET src == [i \in {0} |-> block.data] IN
  /\ controller = "sending"
  /\ \E ok \in BOOLEAN, k \in 0 .. 1 :
       /\ Passes(now, "receiving", k) /\ (ok => k = 1)
       /\ Becomes(Stored(now, src, k))
       /\ controller' = IF ok THEN "done" ELSE "error"
       /\ lost' = (lost \/ ~ok)
       /\ last' = Wrote(block.at, 1, src, ok)
  /\ UNCHANGED <<m_dedicatedSpi, begun, raw, bus, m_transferActive, block, unsure>>

(* rdWrSectors() in DMA mode: the controller ends the transfer by itself,  *)
(* unless it fails.                                                        *)
Ends(s) == [s EXCEPT !.card = "ready", !.next = 0]
dmaReadSectors(a, n) ==
  /\ Sdio({"DMA"})
  /\ \E r \in sdioAnswers(now, "CMD18", a) :
       \/ /\ r.ok /\ Passes(r.s, "sending", n)
          /\ Becomes(Ends(r.s)) /\ Returns(TRUE)
          /\ last' = ReadOf(a, n, [r.s EXCEPT !.next = @ + n])
       \/ \E k \in 0 .. n :
            /\ k > 0 => r.ok /\ Passes(r.s, "sending", k)
            /\ \E t \in {[r.s EXCEPT !.next = @ + k], Ends(r.s)} : Becomes(IF r.ok THEN t ELSE r.s)
            /\ Returns(FALSE) /\ last' = Other
  /\ UNCHANGED fifo
dmaWriteSectors(a, n, src) ==
  /\ Sdio({"DMA"})
  /\ \E r \in sdioAnswers(now, "CMD25", a) :
       \/ /\ r.ok /\ Passes(r.s, "receiving", n)
          /\ Becomes(Ends(Stored(r.s, src, n))) /\ Returns(TRUE)
          /\ last' = Wrote(a, n, src, TRUE)
       \/ \E k \in 0 .. n :
            /\ k > 0 => r.ok /\ Passes(r.s, "receiving", k)
            /\ \E t \in {Stored(r.s, src, k), Ends(Stored(r.s, src, k))} :
                 Becomes(IF r.ok THEN t ELSE r.s)
            /\ Returns(FALSE) /\ last' = Wrote(a, n, src, FALSE)
  /\ UNCHANGED fifo

(* erase(): an open transfer is stopped first; the controller's block is   *)
(* waited for only then.                                                   *)
sdioErase(a, n) ==
  /\ Sdio({"PIO", "FIFO", "DMA"})
  /\ IF m_state = "IDLE" THEN UNCHANGED fifo ELSE NoTransfer
  /\ \E s \in IF m_state = "IDLE" THEN {Result(TRUE, now)} ELSE AfterWait(Stopped(now)) :
     \E r \in IF s.ok THEN sdioAnswers(s.s, "CMD38", 0) ELSE {s}, d \in Data, ok \in BOOLEAN :
       /\ ok => r.ok
       /\ \/ ~ok /\ Becomes(r.s)
          \/ /\ s.ok /\ r.ok
             /\ Becomes([r.s EXCEPT !.disk = Over(@, a, [i \in 0 .. n - 1 |-> d], n)])
       /\ Returns(ok)
       /\ last' = Erased(a, n, ok)

CardNext ==
  \/ SpiCall
  \/ sdioPowerLoss
  \/ sdioBegin
  \/ sdioEnd
  \/ sdioSync
  \/ BlockDone
  \/ \E a \in Sector :
       \/ \E d \in Data : fifoWriteSector(a, d)
       \/ \E n \in Length(a) :
            \/ sdioReadSectors(a, n)
            \/ dmaReadSectors(a, n)
            \/ sdioErase(a, n)
            \/ \E src \in Blocks(n) :
                 \/ pioWriteSectors(a, n, src)
                 \/ dmaWriteSectors(a, n, src)

CardSpec == CardInit /\ [][CardNext]_cardVars

-----------------------------------------------------------------------------
(* Between two calls of an SDIO driver the card is at the transfer, and at *)
(* the sector, from which a call goes on without a command; a block that   *)
(* the controller still has is counted already.                            *)
SdioAgrees ==
  bus # "SPI" /\ m_state # "IDLE" /\ ~unsure /\ controller # "error" /\ card # "off" =>
    /\ card = (IF m_state = "READ" THEN "sending" ELSE "receiving")
    /\ m_curSector = next + (IF controller = "sending" THEN 1 ELSE 0)

(* A block that the card did not take, after the write had returned true,  *)
(* is not forgotten: until a call has failed, m_transferActive makes the   *)
(* next one look at what the controller says.                              *)
ErrorsReported == lost => m_transferActive
=============================================================================
