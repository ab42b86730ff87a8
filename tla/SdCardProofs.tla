---------------------------- MODULE SdCardProofs ----------------------------
(***************************************************************************)
(* Proofs about SdSpiCard and SdCard, for any number of sectors, any data, *)
(* any lengths of calls and any driver.  The first part is about the       *)
(* driver over SPI alone: the driver and the card agree on the transfer    *)
(* that is open, a shared bus is released, and the driver is a block       *)
(* device.  The second is about the card that SdCardFactory makes: no      *)
(* write error of the controller in FIFO mode is forgotten; between two    *)
(* calls the card is where the driver takes it to be; and each driver is   *)
(* the block device that the file system code counts on, for a program     *)
(* that does not go on with a transfer that failed.                        *)
(***************************************************************************)
EXTENDS SdCard, TLAPS


-----------------------------------------------------------------------------
(* What each exchange leaves, for any condition it starts from.            *)
Direction == {"IDLE", "READ", "WRITE"}
CardState == {"off", "ready", "sending", "receiving"}
Condition ==
  [state : Direction, cur : 0 .. Sectors, active : BOOLEAN,
   card : CardState, next : 0 .. Sectors, disk : [Sector -> Data]]

(* The outcome r of an exchange that left m_curSector and the disk alone. *)
Keeps(r, s) ==
  /\ r.ok \in BOOLEAN
  /\ r.s \in Condition
  /\ r.s.cur = s.cur
  /\ r.s.disk = s.disk

Idle(s) == s.state = "IDLE"
Away(s) == s.active = FALSE

(* A card that carried out the start of a transfer from sector a on. *)
AtStart(s, cmd, a) ==
  /\ cmd = "CMD18" => s.card = "sending" /\ s.next = a
  /\ cmd = "CMD25" => s.card = "receiving" /\ s.next = a

(* What the card does for a command is the card's alone. *)
LEMMA Carried ==
  ASSUME NEW s \in Condition, NEW cmd, NEW a \in 0 .. Sectors
  PROVE  /\ CarriedOut(s, cmd, a) \in Condition
         /\ CarriedOut(s, cmd, a).state = s.state
         /\ CarriedOut(s, cmd, a).cur = s.cur
         /\ CarriedOut(s, cmd, a).active = s.active
         /\ CarriedOut(s, cmd, a).disk = s.disk
         /\ AtStart(CarriedOut(s, cmd, a), cmd, a)
<1> DEFINE c == CASE cmd = "CMD18" -> "sending"
                  [] cmd \in {"CMD24", "CMD25"} -> "receiving"
                  [] OTHER -> "ready"
           m == IF cmd \in {"CMD18", "CMD24", "CMD25"} THEN a ELSE 0
<1>1. /\ c \in CardState
      /\ cmd = "CMD18" => c = "sending"
      /\ cmd = "CMD25" => c = "receiving"
  BY DEF CardState
<1>2. m \in 0 .. Sectors /\ (cmd \in {"CMD18", "CMD25"} => m = a)
  BY SectorsAssumption
<1>3. CarriedOut(s, cmd, a) = [s EXCEPT !.card = c, !.next = m]
  BY DEF CarriedOut
<1> HIDE DEF c, m
<1> QED BY <1>1, <1>2, <1>3 DEF Condition, AtStart

(* A command that is answered was carried out. *)
LEMMA CommandSent ==
  ASSUME NEW s \in Condition, NEW cmd, NEW a \in 0 .. Sectors,
         NEW r \in sendCommand(s, cmd, a)
  PROVE  /\ Keeps(r, s)
         /\ r.s.state = s.state
         /\ r.ok => AtStart(r.s, cmd, a)
<1> DEFINE t == spiStart(s)
<1>1. t \in Condition /\ t.state = s.state /\ t.cur = s.cur /\ t.disk = s.disk
  BY DEF spiStart, Condition
<1>2. r \in Answers(t, cmd, a) \/ r = Result(FALSE, t)
  BY DEF sendCommand
<1>3. CASE r = Result(FALSE, t)
  BY <1>1, <1>3 DEF Result, Keeps
<1>4. CASE r \in Answers(t, cmd, a)
  <2>1. r = Result(FALSE, t) \/ \E ok \in BOOLEAN : r = Result(ok, CarriedOut(t, cmd, a))
    BY <1>4 DEF Answers
  <2>2. Keeps(Result(TRUE, CarriedOut(t, cmd, a)), s) /\ CarriedOut(t, cmd, a).state = s.state
    BY <1>1, Carried DEF Keeps, Result
  <2>3. AtStart(CarriedOut(t, cmd, a), cmd, a)
    BY <1>1, Carried
  <2> HIDE DEF t
  <2> QED BY <1>3, <2>1, <2>2, <2>3 DEF Result, Keeps
<1> QED BY <1>2, <1>3, <1>4

(* readStop deselects the card and is idle, whatever CMD12 said. *)
LEMMA ReadStopped ==
  ASSUME NEW s \in Condition, NEW r \in readStop(s)
  PROVE  Keeps(r, s) /\ Idle(r.s) /\ Away(r.s)
<1> DEFINE t == [s EXCEPT !.state = "IDLE"]
<1>1. t \in Condition /\ t.state = "IDLE" /\ t.cur = s.cur /\ t.disk = s.disk
  BY DEF Condition, Direction
<1>2. PICK q \in sendCommand(t, "CMD12", 0) : r = Result(q.ok, spiStop(q.s))
  BY DEF readStop, Ended
<1>3. Keeps(q, t) /\ q.s.state = t.state
  <2> HIDE DEF t
  <2> QED BY <1>1, <1>2, CommandSent, SectorsAssumption
<1> HIDE DEF t
<1> QED BY <1>1, <1>2, <1>3 DEF Keeps, Result, spiStop, Idle, Away, Condition

(* writeStop deselects the card; it is idle when it succeeds. *)
LEMMA WriteStopped ==
  ASSUME NEW s \in Condition, NEW r \in writeStop(s)
  PROVE  Keeps(r, s) /\ Away(r.s) /\ (r.ok => Idle(r.s))
<1>1. Told(s) \in Condition /\ Told(s).cur = s.cur /\ Told(s).disk = s.disk
  <2>1. CASE s.active /\ s.card = "receiving"
    <3>1. Told(s) = [s EXCEPT !.card = "ready", !.next = 0]
      BY <2>1 DEF Told
    <3>2. "ready" \in CardState /\ 0 \in 0 .. Sectors
      BY SectorsAssumption DEF CardState
    <3> QED BY <3>1, <3>2 DEF Condition
  <2>2. CASE ~(s.active /\ s.card = "receiving")
    BY <2>2 DEF Told
  <2> QED BY <2>1, <2>2
<1>2. \/ r = Result(TRUE, [spiStop(Told(s)) EXCEPT !.state = "IDLE"])
      \/ r = Result(FALSE, spiStop(s))
  BY DEF writeStop
<1>3. CASE r = Result(TRUE, [spiStop(Told(s)) EXCEPT !.state = "IDLE"])
  <2> DEFINE t == Told(s)
  <2>1. t \in Condition /\ t.cur = s.cur /\ t.disk = s.disk
    BY <1>1
  <2>2. r = Result(TRUE, [spiStop(t) EXCEPT !.state = "IDLE"])
    BY <1>3
  <2> HIDE DEF t
  <2> QED BY <2>1, <2>2 DEF Keeps, Result, spiStop, Idle, Away, Condition, Direction
<1>4. CASE r = Result(FALSE, spiStop(s))
  BY <1>4 DEF Keeps, Result, spiStop, Idle, Away, Condition
<1> QED BY <1>2, <1>3, <1>4

(* syncDevice is idle when it succeeds, and deselects what it stops. *)
LEMMA Synced ==
  ASSUME NEW s \in Condition, NEW r \in syncDevice(s)
  PROVE  /\ Keeps(r, s)
         /\ r.ok => Idle(r.s)
         /\ (s.active => ~Idle(s)) => Away(r.s)
         /\ ~r.ok => Away(r.s)
<1>1. CASE s.state = "WRITE"
  <2>1. r \in writeStop(s)
    BY <1>1 DEF syncDevice
  <2> QED BY <2>1, WriteStopped
<1>2. CASE s.state = "READ"
  <2>1. r \in readStop(s)
    BY <1>2 DEF syncDevice
  <2> QED BY <2>1, ReadStopped
<1>3. CASE s.state = "IDLE"
  <2>1. r = Result(TRUE, s)
    BY <1>3 DEF syncDevice
  <2> QED BY <1>3, <2>1 DEF Keeps, Result, Idle, Away, Condition
<1> QED BY <1>1, <1>2, <1>3 DEF Condition, Direction

(* cardCommand that succeeds leaves no transfer open. *)
LEMMA CommandDone ==
  ASSUME NEW s \in Condition, NEW cmd, NEW a \in 0 .. Sectors,
         NEW r \in cardCommand(s, cmd, a)
  PROVE  /\ Keeps(r, s)
         /\ r.ok => Idle(r.s) /\ AtStart(r.s, cmd, a)
<1>1. PICK q \in syncDevice(s) : r \in IF q.ok THEN sendCommand(q.s, cmd, a) ELSE {q}
  BY DEF cardCommand
<1>2. Keeps(q, s) /\ (q.ok => Idle(q.s))
  BY <1>1, Synced
<1>3. CASE q.ok
  <2>1. Keeps(r, q.s) /\ r.s.state = q.s.state /\ (r.ok => AtStart(r.s, cmd, a))
    BY <1>1, <1>2, <1>3, CommandSent DEF Keeps
  <2> QED BY <1>2, <1>3, <2>1 DEF Keeps, Idle
<1>4. CASE ~q.ok
  BY <1>1, <1>2, <1>4
<1> QED BY <1>3, <1>4

(* What ends with spiStop leaves the card deselected. *)
LEMMA EndedAway ==
  ASSUME NEW s \in Condition, NEW results, NEW r \in Ended(results),
         \A q \in results : Keeps(q, s)
  PROVE  Keeps(r, s) /\ Away(r.s)
<1>1. PICK q \in results : r = Result(q.ok, spiStop(q.s))
  BY DEF Ended
<1>2. Keeps(q, s)
  BY <1>1
<1> QED BY <1>1, <1>2 DEF Keeps, Result, spiStop, Away, Condition

(* The same for a command after CMD55. *)
LEMMA AcmdDone ==
  ASSUME NEW s \in Condition, NEW cmd, NEW r \in cardAcmd(s, cmd)
  PROVE  Keeps(r, s)
<1>0. 0 \in 0 .. Sectors
  BY SectorsAssumption
<1>1. PICK q \in cardCommand(s, "CMD55", 0) : r \in cardCommand(q.s, cmd, 0)
  BY DEF cardAcmd
<1>2. Keeps(q, s)
  BY <1>0, <1>1, CommandDone
<1>3. Keeps(r, q.s)
  BY <1>0, <1>1, <1>2, CommandDone DEF Keeps
<1> QED BY <1>2, <1>3 DEF Keeps

(* readStart and writeStart: the transfer is open where it was asked for, *)
(* or the card is deselected.                                              *)
LEMMA Started ==
  ASSUME NEW s \in Condition, NEW a \in 0 .. Sectors,
         NEW cmd, NEW dir, <<cmd, dir>> \in {<<"CMD18", "READ">>, <<"CMD25", "WRITE">>},
         NEW r \in start(s, cmd, dir, a)
  PROVE  /\ Keeps(r, s)
         /\ r.ok => r.s.state = dir /\ AtStart(r.s, cmd, a)
         /\ ~r.ok => Away(r.s)
<1>1. PICK q \in cardCommand(s, cmd, a) :
        r = IF q.ok THEN Result(TRUE, [q.s EXCEPT !.state = dir])
                    ELSE Result(FALSE, spiStop(q.s))
  BY DEF start
<1>2. Keeps(q, s) /\ (q.ok => AtStart(q.s, cmd, a))
  BY <1>1, CommandDone
<1>3. dir \in Direction
  BY DEF Direction
<1>4. CASE q.ok
  BY <1>1, <1>2, <1>3, <1>4 DEF Keeps, Result, Condition, AtStart
<1>5. CASE ~q.ok
  BY <1>1, <1>2, <1>5 DEF Keeps, Result, spiStop, Away, Condition
<1> QED BY <1>4, <1>5

-----------------------------------------------------------------------------
(* Blocks.                                                                 *)

(* The disk that blocks were stored on. *)
LEMMA OverType ==
  ASSUME NEW d \in [Sector -> Data], NEW n \in Nat, NEW k \in 0 .. n,
         NEW src \in Blocks(n), NEW a \in Nat
  PROVE  /\ Over(d, a, src, k) \in [Sector -> Data]
         /\ \A t \in Sector : t \notin a .. (a + n - 1) => Over(d, a, src, k)[t] = d[t]
         /\ k = 0 => Over(d, a, src, k) = d
<1>1. ASSUME NEW t \in Sector, t \in a .. (a + k - 1)
      PROVE  src[t - a] \in Data
  <2>1. t - a \in 0 .. n - 1
    BY <1>1, SectorsAssumption DEF Sector
  <2> QED BY <2>1 DEF Blocks
<1> QED BY <1>1, SectorsAssumption DEF Over, Sector

(* Blocks that pass, pass to a selected card from where it is at. *)
LEMMA ReadPassed ==
  ASSUME NEW s \in Condition, NEW n \in Nat \ {0}, NEW r \in readData(s, n)
  PROVE  /\ Keeps(r, s)
         /\ r.s.state = s.state /\ r.s.card = s.card
         /\ r.ok => /\ s.active /\ s.card = "sending"
                    /\ r.s.next = s.next + n
         /\ ~r.ok => Away(r.s)
<1>1. PICK k \in Passing(s, "sending", n) :
        \/ k = n /\ r = Result(TRUE, [s EXCEPT !.next = s.next + k])
        \/ r = Result(FALSE, spiStop([s EXCEPT !.next = s.next + k]))
  BY DEF readData, GivesUp
<1>2. /\ k \in 0 .. n
      /\ k > 0 => s.active /\ s.card = "sending" /\ s.next + k <= Sectors
      /\ s.next \in 0 .. Sectors
  BY DEF Passing, Condition
<1>3. s.next + k \in 0 .. Sectors
  BY <1>2, SectorsAssumption
<1>4. CASE k = n /\ r = Result(TRUE, [s EXCEPT !.next = s.next + k])
  BY <1>2, <1>3, <1>4 DEF Keeps, Result, Condition
<1>5. CASE r = Result(FALSE, spiStop([s EXCEPT !.next = s.next + k]))
  BY <1>3, <1>5 DEF Keeps, Result, Condition, spiStop, Away
<1> QED BY <1>1, <1>4, <1>5

LEMMA WritePassed ==
  ASSUME NEW s \in Condition, NEW n \in Nat \ {0}, NEW src \in Blocks(n),
         NEW r \in writeData(s, src, n)
  PROVE  /\ r.ok \in BOOLEAN /\ r.s \in Condition
         /\ r.s.state = s.state /\ r.s.card = s.card /\ r.s.cur = s.cur
         /\ \/ r.s.disk = s.disk
            \/ /\ s.active /\ s.card = "receiving"
               /\ \A t \in Sector :
                    t \notin s.next .. (s.next + n - 1) => r.s.disk[t] = s.disk[t]
         /\ r.ok => /\ s.active /\ s.card = "receiving"
                    /\ r.s.next = s.next + n
                    /\ r.s.disk = Over(s.disk, s.next, src, n)
         /\ ~r.ok => Away(r.s)
<1> DEFINE d(k) == Over(s.disk, s.next, src, k)
<1>1. PICK k \in Passing(s, "receiving", n) :
        \/ k = n /\ r = Result(TRUE, [s EXCEPT !.next = s.next + k, !.disk = d(k)])
        \/ r = Result(FALSE, spiStop([s EXCEPT !.next = s.next + k, !.disk = d(k)]))
  BY DEF writeData, GivesUp
<1>2. /\ k \in 0 .. n
      /\ k > 0 => s.active /\ s.card = "receiving" /\ s.next + k <= Sectors
      /\ s.next \in 0 .. Sectors
      /\ s.disk \in [Sector -> Data]
  BY DEF Passing, Condition
<1>3. s.next + k \in 0 .. Sectors
  BY <1>2, SectorsAssumption
<1>4. /\ d(k) \in [Sector -> Data]
      /\ \A t \in Sector : t \notin s.next .. (s.next + n - 1) => d(k)[t] = s.disk[t]
      /\ k = 0 => d(k) = s.disk
  BY <1>2, SectorsAssumption, OverType
<1>5. k = n => d(k) = Over(s.disk, s.next, src, n)
  OBVIOUS
<1> HIDE DEF d
<1>6. k # 0 => k > 0
  BY <1>2
<1>7. CASE k = n /\ r = Result(TRUE, [s EXCEPT !.next = s.next + k, !.disk = d(k)])
  BY <1>2, <1>3, <1>4, <1>5, <1>6, <1>7 DEF Result, Condition
<1>8. CASE r = Result(FALSE, spiStop([s EXCEPT !.next = s.next + k, !.disk = d(k)]))
  BY <1>2, <1>3, <1>4, <1>6, <1>8 DEF Result, Condition, spiStop, Away
<1> QED BY <1>1, <1>7, <1>8

-----------------------------------------------------------------------------
(* The inductive invariant, and what the device may show in one step.      *)
IInv == TypeOK /\ StreamAgrees /\ BusReleased
DeviceStep == [Device!Next]_<<disk, last>>

LEMMA NowCondition ==
  ASSUME TypeOK
  PROVE  /\ now \in Condition
         /\ now.state = m_state /\ now.cur = m_curSector /\ now.active = m_spiActive
         /\ now.card = card /\ now.next = next /\ now.disk = disk
BY DEF TypeOK, now, Condition, Direction, CardState

(* A selected card is at a transfer that m_state knows of. *)
LEMMA SyncedNow ==
  ASSUME IInv, NEW r \in syncDevice(now)
  PROVE  Keeps(r, now) /\ Away(r.s)
BY NowCondition, Synced DEF IInv, StreamAgrees, Idle

StreamType == [dir : Direction, next : 0 .. Sectors]

(* With the card deselected there is nothing to disagree about. *)
LEMMA AwayInv ==
  ASSUME NEW s \in Condition, Becomes(s), Away(s),
         m_dedicatedSpi' \in BOOLEAN, begun' \in BOOLEAN, raw' \in StreamType
  PROVE  IInv'
<1>1. TypeOK'
  BY DEF TypeOK, Becomes, Condition, Direction, CardState, StreamType
<1>2. m_spiActive' = FALSE
  BY DEF Becomes, Away
<1> QED BY <1>1, <1>2 DEF IInv, StreamAgrees, BusReleased

LEMMA OtherStep ==
  ASSUME disk' = disk, last' = Other
  PROVE  DeviceStep
BY DEF DeviceStep, Other, Device!Next, Device!Other

LEMMA WriteStep ==
  ASSUME NEW a \in Sector, NEW n \in Nat, NEW src, NEW ok \in BOOLEAN,
         a + n <= Sectors,
         last' = Wrote(a, n, src, ok),
         \A t \in Sector : t \notin a .. (a + n - 1) => disk'[t] = disk[t],
         ok => disk' = Over(disk, a, src, n)
  PROVE  DeviceStep
<1>1. /\ last'.call = "write" /\ last'.at = a /\ last'.n = n
      /\ last'.data = src /\ last'.ok = ok
  BY DEF Wrote
<1>2. Device!At(last') = a .. (a + n - 1)
  BY <1>1 DEF Device!At
<1>3. Device!Spares(last')
  BY <1>2 DEF Device!Spares, Sector
<1>4. last'.ok => \A t \in Device!At(last') : disk'[t] = last'.data[t - last'.at]
  BY <1>1, <1>2, SectorsAssumption DEF Over, Sector
<1>5. Device!Write
  BY <1>1, <1>3, <1>4 DEF Device!Write
<1> QED BY <1>5 DEF DeviceStep, Device!Next

LEMMA ErasedStep ==
  ASSUME NEW a \in Sector, NEW n \in Nat, NEW d \in Data, NEW ok \in BOOLEAN,
         a + n <= Sectors, disk \in [Sector -> Data],
         last' = Erased(a, n, ok),
         \/ disk' = Over(disk, a, [i \in 0 .. n - 1 |-> d], n)
         \/ ~ok /\ disk' = disk
  PROVE  DeviceStep
<1> DEFINE e == Over(disk, a, [i \in 0 .. n - 1 |-> d], n)
<1>1. a \in Nat /\ n \in 0 .. n
  BY SectorsAssumption DEF Sector
<1>2. \A t \in Sector : t \notin a .. (a + n - 1) => e[t] = disk[t]
  BY <1>1, SectorsAssumption DEF Over, Sector
<1>3. \A t \in a .. (a + n - 1) : e[t] = d
  BY <1>1, SectorsAssumption DEF Over, Sector
<1> HIDE DEF e
<1>4. disk' = e \/ (~ok /\ disk' = disk)
  BY DEF e
<1>5. /\ last'.call = "erase" /\ last'.ok = ok
      /\ Device!At(last') = a .. (a + n - 1)
  BY DEF Erased, Device!At
<1>6. Device!Spares(last')
  BY <1>2, <1>4, <1>5 DEF Device!Spares, Sector
<1>7. last'.ok => \A t \in Device!At(last') : disk'[t] = d
  BY <1>3, <1>4, <1>5
<1>8. Device!Erase
  BY <1>5, <1>6, <1>7 DEF Device!Erase
<1> QED BY <1>8 DEF DeviceStep, Device!Next

LEMMA Lengths ==
  ASSUME NEW a \in Sector, NEW n \in Length(a)
  PROVE  n \in Nat \ {0} /\ a + n <= Sectors
BY SectorsAssumption DEF Length, Sector

(* Skipping the start of a transfer and starting one come to the same: the *)
(* card, if selected, is at sector a.                                      *)
LEMMA OpenedAt ==
  ASSUME IInv, raw = NoStream, NEW a \in Sector,
         NEW dir, NEW at,
         <<dir, at>> \in {<<"READ", "sending">>, <<"WRITE", "receiving">>},
         NEW o \in Opened(dir, a, IF dir = "READ" THEN readStart(now, a)
                                                 ELSE writeStart(now, a))
  PROVE  /\ o.ok \in BOOLEAN /\ o.s \in Condition
         /\ o.s.disk = disk
         /\ ~o.ok => Away(o.s)
         /\ o.ok => /\ o.s.cur = a /\ o.s.state = dir
                    /\ o.s.active /\ o.s.card = at => o.s.next = a
<1> USE NowCondition DEF IInv
<1>1. CASE Continues(now, dir, a)
  <2>1. o = Result(TRUE, now)
    BY <1>1 DEF Opened
  <2>2. m_state = dir /\ m_curSector = a
    BY <1>1 DEF Continues
  <2>3. m_spiActive /\ card = at => next = a
    BY <2>2 DEF StreamAgrees
  <2> QED BY <2>1, <2>2, <2>3 DEF Result
<1>2. CASE ~Continues(now, dir, a)
  <2>1. PICK cmd : /\ <<cmd, dir>> \in {<<"CMD18", "READ">>, <<"CMD25", "WRITE">>}
                   /\ <<cmd, at>> \in {<<"CMD18", "sending">>, <<"CMD25", "receiving">>}
                   /\ (IF dir = "READ" THEN readStart(now, a) ELSE writeStart(now, a))
                        = start(now, cmd, dir, a)
    BY DEF readStart, writeStart
  <2>2. PICK r \in start(now, cmd, dir, a) :
          o = IF r.ok THEN Result(TRUE, [r.s EXCEPT !.cur = a]) ELSE r
    BY <1>2, <2>1 DEF Opened
  <2>3. a \in 0 .. Sectors
    BY SectorsAssumption DEF Sector
  <2>4. /\ Keeps(r, now)
        /\ r.ok => r.s.state = dir /\ AtStart(r.s, cmd, a)
        /\ ~r.ok => Away(r.s)
    BY <2>1, <2>2, <2>3, Started
  <2>5. CASE r.ok
    <3>1. o.ok = TRUE /\ o.s = [r.s EXCEPT !.cur = a]
      BY <2>2, <2>5 DEF Result
    <3>2. r.s.next = a
      BY <2>1, <2>4, <2>5 DEF AtStart
    <3> QED BY <2>3, <2>4, <2>5, <3>1, <3>2 DEF Keeps, Condition
  <2>6. CASE ~r.ok
    BY <2>2, <2>4, <2>6 DEF Keeps
  <2> QED BY <2>5, <2>6
<1> QED BY <1>1, <1>2

-----------------------------------------------------------------------------
(* The calls, one lemma for each that concerns sectors.                    *)

LEMMA InitIInv == Init => IInv
<1> SUFFICES ASSUME Init PROVE IInv
  OBVIOUS
<1>1. 0 \in 0 .. Sectors
  BY SectorsAssumption
<1>2. NoStream \in [dir : {"IDLE", "READ", "WRITE"}, next : 0 .. Sectors]
  BY <1>1 DEF NoStream
<1>3. TypeOK
  BY <1>1, <1>2 DEF Init, TypeOK
<1>4. StreamAgrees /\ BusReleased
  BY DEF Init, StreamAgrees, BusReleased
<1> QED BY <1>3, <1>4 DEF IInv

LEMMA ReadSectorsStep ==
  ASSUME IInv, NEW a \in Sector, NEW n \in Length(a), readSectors(a, n)
  PROVE  IInv' /\ DeviceStep
<1>1. n \in Nat \ {0} /\ a + n <= Sectors /\ a \in Nat /\ a + n \in 0 .. Sectors
  BY Lengths, SectorsAssumption DEF Sector
<1>2. /\ m_dedicatedSpi' = m_dedicatedSpi /\ m_dedicatedSpi' \in BOOLEAN
      /\ begun' \in BOOLEAN /\ raw' = raw /\ raw' \in StreamType /\ raw = NoStream
  BY DEF readSectors, Usable, IInv, TypeOK, StreamType, Direction
<1>3. PICK o \in Opened("READ", a, readStart(now, a)) :
        \/ ~o.ok /\ Becomes(o.s) /\ last' = Other
        \/ /\ o.ok
           /\ \E r \in readData(o.s, n) :
                \/ ~r.ok /\ Becomes(r.s) /\ last' = Other
                \/ /\ r.ok
                   /\ \E c \in IF m_dedicatedSpi THEN {Result(TRUE, CurAfter(r.s, n))}
                               ELSE readStop(CurAfter(r.s, n)) :
                        /\ Becomes(c.s)
                        /\ last' = IF c.ok
                                   THEN [call |-> "read", at |-> a, n |-> n,
                                         data |-> [i \in 0 .. n - 1 |-> disk[o.s.next + i]]]
                                   ELSE Other
  BY DEF readSectors
<1>4. /\ o.ok \in BOOLEAN /\ o.s \in Condition /\ o.s.disk = disk
      /\ ~o.ok => Away(o.s)
      /\ o.ok => /\ o.s.cur = a /\ o.s.state = "READ"
                 /\ o.s.active /\ o.s.card = "sending" => o.s.next = a
  BY <1>2, <1>3, OpenedAt
<1>5. CASE ~o.ok
  <2>1. Becomes(o.s) /\ last' = Other /\ disk' = disk
    BY <1>3, <1>4, <1>5 DEF Becomes
  <2> QED BY <1>2, <1>4, <1>5, <2>1, AwayInv, OtherStep
<1>6. CASE o.ok
  <2>1. PICK r \in readData(o.s, n) :
          \/ ~r.ok /\ Becomes(r.s) /\ last' = Other
          \/ /\ r.ok
             /\ \E c \in IF m_dedicatedSpi THEN {Result(TRUE, CurAfter(r.s, n))}
                         ELSE readStop(CurAfter(r.s, n)) :
                  /\ Becomes(c.s)
                  /\ last' = IF c.ok
                             THEN [call |-> "read", at |-> a, n |-> n,
                                   data |-> [i \in 0 .. n - 1 |-> disk[o.s.next + i]]]
                             ELSE Other
    BY <1>3, <1>6
  <2>2. /\ Keeps(r, o.s)
        /\ r.s.state = o.s.state /\ r.s.card = o.s.card
        /\ r.ok => /\ o.s.active /\ o.s.card = "sending"
                   /\ r.s.next = o.s.next + n
        /\ ~r.ok => Away(r.s)
    BY <1>1, <1>4, <2>1, ReadPassed
  <2>3. CASE ~r.ok
    <3>1. Becomes(r.s) /\ last' = Other /\ disk' = disk
      BY <1>4, <2>1, <2>2, <2>3 DEF Becomes, Keeps
    <3> QED BY <1>2, <2>2, <2>3, <3>1, AwayInv, OtherStep DEF Keeps
  <2>4. CASE r.ok
    <3> DEFINE q == CurAfter(r.s, n)
    <3>1. /\ q \in Condition /\ q.cur = a + n /\ q.disk = disk
          /\ q.state = "READ" /\ q.card = "sending" /\ q.next = a + n
          /\ o.s.next = a
      BY <1>1, <1>4, <1>6, <2>2, <2>4 DEF CurAfter, Keeps, Condition
    <3>2. PICK c \in IF m_dedicatedSpi THEN {Result(TRUE, q)} ELSE readStop(q) :
            /\ Becomes(c.s)
            /\ last' = IF c.ok
                       THEN [call |-> "read", at |-> a, n |-> n,
                             data |-> [i \in 0 .. n - 1 |-> disk[o.s.next + i]]]
                       ELSE Other
      BY <2>1, <2>4
    <3> HIDE DEF q
    <3>3. Keeps(c, q) /\ (c.s = q \/ Away(c.s)) /\ (~m_dedicatedSpi => Away(c.s))
      <4>1. CASE m_dedicatedSpi
        <5>1. c = Result(TRUE, q)
          BY <3>2, <4>1
        <5> QED BY <3>1, <4>1, <5>1 DEF Result, Keeps
      <4>2. CASE ~m_dedicatedSpi
        <5>1. c \in readStop(q)
          BY <3>2, <4>2
        <5> QED BY <3>1, <4>2, <5>1, ReadStopped
      <4> QED BY <4>1, <4>2
    <3>4. IInv'
      <4>1. CASE Away(c.s)
        BY <1>2, <3>2, <3>3, <4>1, AwayInv DEF Keeps
      <4>2. CASE c.s = q /\ m_dedicatedSpi
        BY <1>2, <3>1, <3>2, <4>2
           DEF IInv, TypeOK, StreamAgrees, BusReleased, Becomes, Condition, Direction,
               CardState, StreamType
      <4> QED BY <3>3, <4>1, <4>2
    <3>5. DeviceStep
      <4>1. disk' = disk
        BY <3>1, <3>2, <3>3 DEF Becomes, Keeps
      <4>2. CASE c.ok
        <5>1. /\ last'.call = "read" /\ last'.at = a /\ last'.n = n
              /\ last'.data = [i \in 0 .. n - 1 |-> disk[a + i]]
          BY <3>1, <3>2, <4>2
        <5> QED BY <4>1, <5>1 DEF DeviceStep, Device!Next, Device!Read
      <4>3. CASE ~c.ok
        BY <3>2, <4>1, <4>3, OtherStep
      <4> QED BY <4>2, <4>3
    <3> QED BY <3>4, <3>5
  <2> QED BY <2>3, <2>4
<1> QED BY <1>5, <1>6

LEMMA WriteSectorsStep ==
  ASSUME IInv, NEW a \in Sector, NEW n \in Length(a), NEW src \in Blocks(n),
         writeSectors(a, n, src)
  PROVE  IInv' /\ DeviceStep
<1>1. n \in Nat \ {0} /\ a + n <= Sectors /\ a \in Nat /\ a + n \in 0 .. Sectors
  BY Lengths, SectorsAssumption DEF Sector
<1>2. /\ m_dedicatedSpi' = m_dedicatedSpi /\ m_dedicatedSpi' \in BOOLEAN
      /\ begun' \in BOOLEAN /\ raw' = raw /\ raw' \in StreamType /\ raw = NoStream
  BY DEF writeSectors, Usable, IInv, TypeOK, StreamType, Direction
<1>3. PICK o \in Opened("WRITE", a, writeStart(now, a)) :
        \/ ~o.ok /\ Becomes(spiStop(o.s)) /\ last' = Wrote(a, n, src, FALSE)
        \/ /\ o.ok
           /\ \E r \in writeData(o.s, src, n) :
                \/ ~r.ok /\ Becomes(spiStop(r.s)) /\ last' = Wrote(a, n, src, FALSE)
                \/ /\ r.ok
                   /\ \E c \in IF m_dedicatedSpi THEN {Result(TRUE, CurAfter(r.s, n))}
                               ELSE writeStop(CurAfter(r.s, n)) :
                        Becomes(c.s) /\ last' = Wrote(a, n, src, c.ok)
  BY DEF writeSectors
<1>4. /\ o.ok \in BOOLEAN /\ o.s \in Condition /\ o.s.disk = disk
      /\ ~o.ok => Away(o.s)
      /\ o.ok => /\ o.s.cur = a /\ o.s.state = "WRITE"
                 /\ o.s.active /\ o.s.card = "receiving" => o.s.next = a
  BY <1>2, <1>3, OpenedAt
<1>5. CASE ~o.ok
  <2>1. Becomes(spiStop(o.s)) /\ last' = Wrote(a, n, src, FALSE)
    BY <1>3, <1>5
  <2>2. spiStop(o.s) \in Condition /\ Away(spiStop(o.s)) /\ spiStop(o.s).disk = disk
    BY <1>4 DEF spiStop, Condition, Away
  <2>3. disk' = disk
    BY <2>1, <2>2 DEF Becomes
  <2> QED BY <1>1, <1>2, <2>1, <2>2, <2>3, AwayInv, WriteStep
<1>6. CASE o.ok
  <2>1. PICK r \in writeData(o.s, src, n) :
          \/ ~r.ok /\ Becomes(spiStop(r.s)) /\ last' = Wrote(a, n, src, FALSE)
          \/ /\ r.ok
             /\ \E c \in IF m_dedicatedSpi THEN {Result(TRUE, CurAfter(r.s, n))}
                         ELSE writeStop(CurAfter(r.s, n)) :
                  Becomes(c.s) /\ last' = Wrote(a, n, src, c.ok)
    BY <1>3, <1>6
  <2>2. /\ r.ok \in BOOLEAN /\ r.s \in Condition
        /\ r.s.state = o.s.state /\ r.s.card = o.s.card /\ r.s.cur = o.s.cur
        /\ \/ r.s.disk = o.s.disk
           \/ /\ o.s.active /\ o.s.card = "receiving"
              /\ \A t \in Sector :
                   t \notin o.s.next .. (o.s.next + n - 1) => r.s.disk[t] = o.s.disk[t]
        /\ r.ok => /\ o.s.active /\ o.s.card = "receiving"
                   /\ r.s.next = o.s.next + n
                   /\ r.s.disk = Over(o.s.disk, o.s.next, src, n)
    BY <1>1, <1>4, <2>1, WritePassed
  <2>3. \A t \in Sector : t \notin a .. (a + n - 1) => r.s.disk[t] = disk[t]
    BY <1>4, <1>6, <2>2
  <2>4. CASE ~r.ok
    <3>1. Becomes(spiStop(r.s)) /\ last' = Wrote(a, n, src, FALSE)
      BY <2>1, <2>4
    <3>2. /\ spiStop(r.s) \in Condition /\ Away(spiStop(r.s))
          /\ spiStop(r.s).disk = r.s.disk
      BY <2>2 DEF spiStop, Condition, Away
    <3>3. disk' = r.s.disk
      BY <3>1, <3>2 DEF Becomes
    <3> QED BY <1>1, <1>2, <2>3, <3>1, <3>2, <3>3, AwayInv, WriteStep
  <2>5. CASE r.ok
    <3> DEFINE q == CurAfter(r.s, n)
    <3>1. /\ q \in Condition /\ q.cur = a + n /\ q.disk = r.s.disk
          /\ q.state = "WRITE" /\ q.card = "receiving" /\ q.next = a + n
      BY <1>1, <1>4, <1>6, <2>2, <2>5 DEF CurAfter, Condition
    <3>2. PICK c \in IF m_dedicatedSpi THEN {Result(TRUE, q)} ELSE writeStop(q) :
            Becomes(c.s) /\ last' = Wrote(a, n, src, c.ok)
      BY <2>1, <2>5
    <3> HIDE DEF q
    <3>3. Keeps(c, q) /\ (c.s = q \/ Away(c.s)) /\ (~m_dedicatedSpi => Away(c.s))
      <4>1. CASE m_dedicatedSpi
        <5>1. c = Result(TRUE, q)
          BY <3>2, <4>1
        <5> QED BY <3>1, <4>1, <5>1 DEF Result, Keeps
      <4>2. CASE ~m_dedicatedSpi
        <5>1. c \in writeStop(q)
          BY <3>2, <4>2
        <5> QED BY <3>1, <4>2, <5>1, WriteStopped
      <4> QED BY <4>1, <4>2
    <3>4. IInv'
      <4>1. CASE Away(c.s)
        BY <1>2, <3>2, <3>3, <4>1, AwayInv DEF Keeps
      <4>2. CASE c.s = q /\ m_dedicatedSpi
        BY <1>2, <3>1, <3>2, <4>2
           DEF IInv, TypeOK, StreamAgrees, BusReleased, Becomes, Condition, Direction,
               CardState, StreamType
      <4> QED BY <3>3, <4>1, <4>2
    <3>5. disk' = Over(disk, a, src, n) /\ disk' = r.s.disk
      BY <1>4, <1>6, <2>2, <2>5, <3>1, <3>2, <3>3 DEF Becomes, Keeps
    <3>6. DeviceStep
      BY <1>1, <2>3, <3>2, <3>3, <3>5, WriteStep DEF Keeps
    <3> QED BY <3>4, <3>6
  <2> QED BY <2>2, <2>4, <2>5
<1> QED BY <1>4, <1>5, <1>6

(* A call that ends with the card deselected and says nothing of sectors. *)
LEMMA QuietStep ==
  ASSUME NEW r, Keeps(r, now), Away(r.s), TypeOK, Becomes(r.s), last' = Other,
         m_dedicatedSpi' \in BOOLEAN, begun' \in BOOLEAN, raw' \in StreamType
  PROVE  IInv' /\ DeviceStep
<1>1. disk' = disk
  BY NowCondition DEF Becomes, Keeps
<1> QED BY <1>1, AwayInv, OtherStep DEF Keeps

LEMMA EndedNow ==
  ASSUME TypeOK, NEW cmd, NEW a \in 0 .. Sectors,
         NEW r \in Ended(cardCommand(now, cmd, a))
  PROVE  Keeps(r, now) /\ Away(r.s)
<1>1. \A q \in cardCommand(now, cmd, a) : Keeps(q, now)
  BY NowCondition, CommandDone
<1> QED BY <1>1, NowCondition, EndedAway

LEMMA RegisterStep ==
  ASSUME IInv, readRegister
  PROVE  IInv' /\ DeviceStep
<1>1. 0 \in 0 .. Sectors
  BY SectorsAssumption
<1>2. PICK r \in Ended(cardCommand(now, "CMD9", 0) \cup cardAcmd(now, "ACMD13")) :
        Becomes(r.s)
  BY DEF readRegister
<1>3. /\ last' = Other /\ m_dedicatedSpi' \in BOOLEAN /\ begun' \in BOOLEAN
      /\ raw' \in StreamType
  BY DEF readRegister, IInv, TypeOK, StreamType, Direction
<1>4. \A q \in cardCommand(now, "CMD9", 0) \cup cardAcmd(now, "ACMD13") : Keeps(q, now)
  BY <1>1, NowCondition, CommandDone, AcmdDone DEF IInv
<1>5. Keeps(r, now) /\ Away(r.s)
  BY <1>2, <1>4, NowCondition, EndedAway DEF IInv
<1> QED BY <1>2, <1>3, <1>5, QuietStep DEF IInv

LEMMA BeginStep ==
  ASSUME IInv, begin
  PROVE  IInv' /\ DeviceStep
<1>1. /\ last' = Other /\ raw' \in StreamType
  BY DEF begin, IInv, TypeOK, StreamType, Direction
<1>2. PICK c \in CardState, m \in 0 .. Sectors :
        /\ Becomes([now EXCEPT !.state = "IDLE", !.active = FALSE, !.card = c, !.next = m])
        /\ m_dedicatedSpi' \in BOOLEAN /\ begun' \in BOOLEAN
  <2>1. CASE BeginFails
    <3>1. PICK c \in {card, "off", "ready"} :
            Becomes([now EXCEPT !.state = "IDLE", !.active = FALSE, !.card = c,
                                !.next = IF c = card THEN next ELSE 0])
      BY <2>1 DEF BeginFails
    <3>2. c \in CardState /\ (IF c = card THEN next ELSE 0) \in 0 .. Sectors
      BY SectorsAssumption DEF IInv, TypeOK, CardState
    <3>3. m_dedicatedSpi' \in BOOLEAN /\ begun' \in BOOLEAN
      BY <2>1 DEF BeginFails, IInv, TypeOK
    <3> QED BY <3>1, <3>2, <3>3
  <2>2. ASSUME NEW dedicated \in BOOLEAN, BeginSucceeds(dedicated)
        PROVE  \E c \in CardState, m \in 0 .. Sectors :
                 /\ Becomes([now EXCEPT !.state = "IDLE", !.active = FALSE,
                                        !.card = c, !.next = m])
                 /\ m_dedicatedSpi' \in BOOLEAN /\ begun' \in BOOLEAN
    <3>1. "ready" \in CardState /\ 0 \in 0 .. Sectors
      BY SectorsAssumption DEF CardState
    <3> QED BY <2>2, <3>1 DEF BeginSucceeds
  <2> QED BY <2>1, <2>2 DEF begin
<1> DEFINE s == [now EXCEPT !.state = "IDLE", !.active = FALSE, !.card = c, !.next = m]
<1>3. s \in Condition /\ Away(s) /\ s.disk = disk
  BY NowCondition DEF IInv, Condition, Direction, Away
<1>4. Becomes(s)
  BY <1>2
<1> HIDE DEF s
<1>5. disk' = disk
  BY <1>3, <1>4 DEF Becomes
<1> QED BY <1>1, <1>2, <1>3, <1>4, <1>5, AwayInv, OtherStep

LEMMA WriteSectorStep ==
  ASSUME IInv, NEW a \in Sector, NEW src \in Blocks(1), writeSector(a, src)
  PROVE  IInv' /\ DeviceStep
<1>1. a \in 0 .. Sectors /\ a + 1 <= Sectors /\ a \in Nat /\ 0 \in 0 .. Sectors
  BY SectorsAssumption DEF Sector
<1>2. /\ m_dedicatedSpi' \in BOOLEAN /\ begun' \in BOOLEAN /\ raw' \in StreamType
  BY DEF writeSector, IInv, TypeOK, StreamType, Direction
<1>3. PICK r \in Ended(cardCommand(now, "CMD24", a)) :
        \/ ~r.ok /\ Becomes(r.s) /\ last' = Wrote(a, 1, src, FALSE)
        \/ /\ r.ok
           /\ \E ok \in BOOLEAN, d \in Data :
                /\ StatusTells(ok, src[0], d)
                /\ Becomes([r.s EXCEPT !.card = "ready", !.next = 0, !.disk[a] = d])
                /\ last' = Wrote(a, 1, src, ok)
  BY DEF writeSector
<1>4. Keeps(r, now) /\ Away(r.s) /\ r.s.disk = disk
  BY <1>1, <1>3, EndedNow, NowCondition DEF IInv, Keeps
<1>5. CASE Becomes(r.s) /\ last' = Wrote(a, 1, src, FALSE)
  <2>1. disk' = disk
    BY <1>4, <1>5 DEF Becomes
  <2> QED BY <1>1, <1>2, <1>4, <1>5, <2>1, AwayInv, WriteStep DEF Keeps
<1>6. CASE \E ok \in BOOLEAN, d \in Data :
             /\ StatusTells(ok, src[0], d)
             /\ Becomes([r.s EXCEPT !.card = "ready", !.next = 0, !.disk[a] = d])
             /\ last' = Wrote(a, 1, src, ok)
  <2>1. PICK ok \in BOOLEAN, d \in Data :
          /\ StatusTells(ok, src[0], d)
          /\ Becomes([r.s EXCEPT !.card = "ready", !.next = 0, !.disk[a] = d])
          /\ last' = Wrote(a, 1, src, ok)
    BY <1>6
  <2> DEFINE s == [r.s EXCEPT !.card = "ready", !.next = 0, !.disk[a] = d]
  <2>2. s \in Condition /\ Away(s) /\ s.disk = [disk EXCEPT ![a] = d]
    BY <1>1, <1>4 DEF Keeps, Condition, CardState, Away
  <2>3. Becomes(s)
    BY <2>1
  <2> HIDE DEF s
  <2>4. disk' = [disk EXCEPT ![a] = d] /\ disk \in [Sector -> Data]
    BY <2>2, <2>3 DEF Becomes, IInv, TypeOK
  <2>5. \A t \in Sector : t \notin a .. (a + 1 - 1) => disk'[t] = disk[t]
    BY <1>1, <2>4
  <2>6. ok => disk' = Over(disk, a, src, 1)
    <3>1. ASSUME ok, NEW t \in Sector
          PROVE  disk'[t] = IF t \in a .. (a + 1 - 1) THEN src[t - a] ELSE disk[t]
      <4>1. t \in Nat
        BY SectorsAssumption DEF Sector
      <4>2. CASE t = a
        BY <1>1, <2>1, <2>4, <3>1, <4>1, <4>2 DEF StatusTells
      <4>3. CASE t # a
        BY <1>1, <2>4, <3>1, <4>1, <4>3
      <4> QED BY <4>2, <4>3
    <3>2. disk' = [t \in Sector |-> disk'[t]]
      BY <2>4
    <3> QED BY <3>1, <3>2 DEF Over
  <2> QED BY <1>1, <1>2, <2>1, <2>2, <2>3, <2>5, <2>6, AwayInv, WriteStep
<1> QED BY <1>3, <1>5, <1>6

LEMMA EraseStep ==
  ASSUME IInv, NEW a \in Sector, NEW n \in Length(a), erase(a, n)
  PROVE  IInv' /\ DeviceStep
<1>1. /\ n \in Nat \ {0} /\ a + n <= Sectors /\ a \in Nat /\ 0 \in 0 .. Sectors
      /\ n \in 0 .. n
  BY Lengths, SectorsAssumption DEF Sector
<1>2. /\ m_dedicatedSpi' \in BOOLEAN /\ begun' \in BOOLEAN /\ raw' \in StreamType
      /\ disk \in [Sector -> Data]
  BY DEF erase, IInv, TypeOK, StreamType, Direction
<1>3. PICK r \in Ended(cardCommand(now, "CMD38", 0)), d \in Data :
        \/ Becomes(r.s) /\ last' = Erased(a, n, FALSE)
        \/ /\ r.ok
           /\ Becomes([r.s EXCEPT !.disk = Over(disk, a, [i \in 0 .. n - 1 |-> d], n)])
           /\ \E ok \in BOOLEAN : last' = Erased(a, n, ok)
  BY DEF erase
<1>4. Keeps(r, now) /\ Away(r.s) /\ r.s.disk = disk
  BY <1>1, <1>3, EndedNow, NowCondition DEF IInv, Keeps
<1> DEFINE e == Over(disk, a, [i \in 0 .. n - 1 |-> d], n)
<1>5. e \in [Sector -> Data]
  <2>1. [i \in 0 .. n - 1 |-> d] \in Blocks(n)
    BY <1>3 DEF Blocks
  <2> QED BY <1>1, <1>2, <2>1, OverType
<1> HIDE DEF e
<1>6. IInv' /\ \E ok \in BOOLEAN :
        /\ last' = Erased(a, n, ok)
        /\ disk' = e \/ (~ok /\ disk' = disk)
  <2>1. CASE Becomes(r.s) /\ last' = Erased(a, n, FALSE)
    <3>1. disk' = disk
      BY <1>4, <2>1 DEF Becomes
    <3> QED BY <1>2, <1>4, <2>1, <3>1, AwayInv DEF Keeps
  <2>2. CASE /\ Becomes([r.s EXCEPT !.disk = e])
             /\ \E ok \in BOOLEAN : last' = Erased(a, n, ok)
    <3> DEFINE s == [r.s EXCEPT !.disk = e]
    <3>1. s \in Condition /\ Away(s) /\ s.disk = e
      BY <1>4, <1>5 DEF Keeps, Condition, Away
    <3>2. Becomes(s)
      BY <2>2
    <3> HIDE DEF s
    <3>3. disk' = e
      BY <3>1, <3>2 DEF Becomes
    <3> QED BY <1>2, <2>2, <3>1, <3>2, <3>3, AwayInv
  <2> QED BY <1>3, <2>1, <2>2 DEF e
<1> QED BY <1>1, <1>2, <1>3, <1>6, ErasedStep DEF e

LEMMA RawStartStep ==
  ASSUME IInv, NEW dir \in {"READ", "WRITE"}, NEW a \in Sector, rawStart(dir, a)
  PROVE  IInv' /\ DeviceStep
<1>1. a \in 0 .. Sectors
  BY SectorsAssumption DEF Sector
<1>2. PICK cmd : /\ <<cmd, dir>> \in {<<"CMD18", "READ">>, <<"CMD25", "WRITE">>}
                 /\ (IF dir = "READ" THEN readStart(now, a) ELSE writeStart(now, a))
                      = start(now, cmd, dir, a)
  BY DEF readStart, writeStart
<1>3. PICK r \in start(now, cmd, dir, a) :
        /\ Becomes(r.s)
        /\ raw' = IF r.ok THEN [dir |-> dir, next |-> a] ELSE raw
  BY <1>2 DEF rawStart
<1>4. /\ last' = Other /\ m_dedicatedSpi' \in BOOLEAN /\ begun' \in BOOLEAN
      /\ raw \in StreamType
  BY DEF rawStart, IInv, TypeOK, StreamType, Direction
<1>5. raw' \in StreamType
  BY <1>1, <1>3, <1>4 DEF StreamType, Direction
<1>6. /\ Keeps(r, now)
      /\ r.ok => r.s.state = dir /\ AtStart(r.s, cmd, a)
      /\ ~r.ok => Away(r.s)
  BY <1>1, <1>2, <1>3, NowCondition, Started DEF IInv
<1>7. disk' = disk
  BY <1>3, <1>6, NowCondition DEF IInv, Becomes, Keeps
<1>8. IInv'
  <2>1. CASE ~r.ok
    BY <1>3, <1>4, <1>5, <1>6, <2>1, AwayInv DEF Keeps
  <2>2. CASE r.ok
    <3>1. raw' = [dir |-> dir, next |-> a] /\ raw' # NoStream
      BY <1>3, <2>2 DEF NoStream
    <3>2. TypeOK'
      BY <1>3, <1>4, <1>5, <1>6
         DEF TypeOK, Becomes, Keeps, Condition, Direction, CardState, StreamType
    <3>3. /\ m_state' = dir /\ next' = a
          /\ card' = (IF dir = "READ" THEN "sending" ELSE "receiving")
      BY <1>2, <1>3, <1>6, <2>2 DEF Becomes, AtStart
    <3> QED BY <3>1, <3>2, <3>3 DEF IInv, StreamAgrees, BusReleased
  <2> QED BY <2>1, <2>2
<1> QED BY <1>4, <1>7, <1>8, OtherStep

LEMMA RawReadStep ==
  ASSUME IInv, rawRead
  PROVE  IInv' /\ DeviceStep
<1>1. /\ raw.dir = "READ" /\ raw.next \in Sector /\ raw \in StreamType
      /\ raw.next + 1 \in 0 .. Sectors /\ raw # NoStream
  BY SectorsAssumption DEF rawRead, IInv, TypeOK, StreamType, Direction, Sector, NoStream
<1>2. PICK r \in readData(now, 1) :
        /\ Becomes(r.s)
        /\ last' = IF r.ok THEN [call |-> "read", at |-> raw.next, n |-> 1,
                                 data |-> [i \in {0} |-> disk[next]]]
                   ELSE Other
        /\ raw' = IF r.ok THEN [raw EXCEPT !.next = @ + 1] ELSE raw
  BY DEF rawRead
<1>3. m_dedicatedSpi' \in BOOLEAN /\ begun' \in BOOLEAN
  BY DEF rawRead, IInv, TypeOK
<1>4. /\ Keeps(r, now) /\ r.s.state = m_state /\ r.s.card = card
      /\ r.ok => m_spiActive /\ card = "sending" /\ r.s.next = next + 1
      /\ ~r.ok => Away(r.s)
  BY <1>2, NowCondition, ReadPassed DEF IInv
<1>5. disk' = disk
  BY <1>2, <1>4, NowCondition DEF IInv, Becomes, Keeps
<1>6. CASE r.ok
  <2>1. m_state = "READ" /\ next = raw.next
    BY <1>1, <1>4, <1>6 DEF IInv, StreamAgrees, TypeOK
  <2>2. /\ raw' \in StreamType /\ raw' # NoStream /\ raw'.next = raw.next + 1
    BY <1>1, <1>2, <1>6 DEF StreamType, NoStream
  <2>3. /\ m_state' = "READ" /\ card' = "sending" /\ next' = raw'.next
    BY <1>2, <1>4, <1>6, <2>1, <2>2 DEF Becomes
  <2>4. TypeOK'
    BY <1>2, <1>3, <1>4, <2>2
       DEF TypeOK, Becomes, Keeps, Condition, Direction, CardState, StreamType
  <2>5. IInv'
    BY <2>2, <2>3, <2>4 DEF IInv, StreamAgrees, BusReleased
  <2>6. /\ last'.call = "read" /\ last'.at = raw.next /\ last'.n = 1
        /\ last'.data = [i \in {0} |-> disk[next]]
    BY <1>2, <1>6
  <2>7. last'.data = [i \in 0 .. last'.n - 1 |-> disk[last'.at + i]]
    <3>1. 0 .. 1 - 1 = {0} /\ raw.next + 0 = raw.next
      BY <1>1, SectorsAssumption DEF Sector
    <3> QED BY <2>1, <2>6, <3>1
  <2> QED BY <1>5, <2>5, <2>6, <2>7 DEF DeviceStep, Device!Next, Device!Read
<1>7. CASE ~r.ok
  BY <1>1, <1>2, <1>3, <1>4, <1>7, QuietStep DEF IInv
<1> QED BY <1>6, <1>7

LEMMA RawWriteStep ==
  ASSUME IInv, NEW src \in Blocks(1), rawWrite(src)
  PROVE  IInv' /\ DeviceStep
<1>1. /\ raw.dir = "WRITE" /\ raw.next \in Sector /\ raw \in StreamType
      /\ raw.next + 1 \in 0 .. Sectors /\ raw.next + 1 <= Sectors /\ raw # NoStream
  BY SectorsAssumption DEF rawWrite, IInv, TypeOK, StreamType, Direction, Sector, NoStream
<1>2. PICK r \in writeData(now, src, 1) :
        /\ Becomes(r.s)
        /\ last' = Wrote(raw.next, 1, src, r.ok)
        /\ raw' = IF r.ok THEN [raw EXCEPT !.next = @ + 1] ELSE raw
  BY DEF rawWrite
<1>3. m_dedicatedSpi' \in BOOLEAN /\ begun' \in BOOLEAN
  BY DEF rawWrite, IInv, TypeOK
<1>4. /\ r.ok \in BOOLEAN /\ r.s \in Condition
      /\ r.s.state = m_state /\ r.s.card = card
      /\ \/ r.s.disk = disk
         \/ /\ m_spiActive /\ card = "receiving"
            /\ \A t \in Sector : t \notin next .. (next + 1 - 1) => r.s.disk[t] = disk[t]
      /\ r.ok => /\ m_spiActive /\ card = "receiving" /\ r.s.next = next + 1
                 /\ r.s.disk = Over(disk, next, src, 1)
      /\ ~r.ok => Away(r.s)
  BY <1>2, NowCondition, WritePassed DEF IInv
<1>5. m_spiActive /\ card = "receiving" => m_state = "WRITE" /\ next = raw.next
  BY <1>1 DEF IInv, StreamAgrees, TypeOK
<1>6. disk' = r.s.disk
  BY <1>2 DEF Becomes
<1>7. DeviceStep
  <2>1. \A t \in Sector : t \notin raw.next .. (raw.next + 1 - 1) => disk'[t] = disk[t]
    BY <1>4, <1>5, <1>6
  <2>2. r.ok => disk' = Over(disk, raw.next, src, 1)
    BY <1>4, <1>5, <1>6
  <2> QED BY <1>1, <1>2, <1>4, <2>1, <2>2, WriteStep
<1>8. CASE r.ok
  <2>1. /\ raw' \in StreamType /\ raw' # NoStream /\ raw'.next = raw.next + 1
    BY <1>1, <1>2, <1>8 DEF StreamType, NoStream
  <2>2. /\ m_state' = "WRITE" /\ card' = "receiving" /\ next' = raw'.next
    BY <1>2, <1>4, <1>5, <1>8, <2>1 DEF Becomes
  <2>3. TypeOK'
    BY <1>2, <1>3, <1>4, <2>1
       DEF TypeOK, Becomes, Condition, Direction, CardState, StreamType
  <2> QED BY <1>7, <2>1, <2>2, <2>3 DEF IInv, StreamAgrees, BusReleased
<1>9. CASE ~r.ok
  <2>1. raw' \in StreamType
    BY <1>1, <1>2, <1>9
  <2> QED BY <1>2, <1>3, <1>4, <1>7, <1>9, <2>1, AwayInv
<1> QED BY <1>8, <1>9

LEMMA RawStopStep ==
  ASSUME IInv, rawStop
  PROVE  IInv' /\ DeviceStep
<1>1. PICK r \in IF raw.dir = "READ" THEN readStop(now) ELSE writeStop(now) : Becomes(r.s)
  BY DEF rawStop
<1>2. Keeps(r, now) /\ Away(r.s)
  <2>1. CASE raw.dir = "READ"
    BY <1>1, <2>1, NowCondition, ReadStopped DEF IInv
  <2>2. CASE raw.dir # "READ"
    BY <1>1, <2>2, NowCondition, WriteStopped DEF IInv
  <2> QED BY <2>1, <2>2
<1>3. /\ last' = Other /\ m_dedicatedSpi' \in BOOLEAN /\ begun' \in BOOLEAN
      /\ raw' = NoStream
  BY DEF rawStop, IInv, TypeOK
<1>4. raw' \in StreamType
  BY <1>3, SectorsAssumption DEF NoStream, StreamType, Direction
<1> QED BY <1>1, <1>2, <1>3, <1>4, QuietStep DEF IInv

(* end, syncDevice, setDedicatedSpi: what was open is stopped. *)
LEMMA SyncStep ==
  ASSUME IInv, NEW value \in BOOLEAN, end \/ sync \/ setDedicatedSpi(value)
  PROVE  IInv' /\ DeviceStep
<1>1. PICK r \in syncDevice(now) : Becomes(r.s)
  BY DEF end, sync, setDedicatedSpi, Settled
<1>2. Keeps(r, now) /\ Away(r.s)
  BY <1>1, SyncedNow
<1>3. last' = Other /\ begun' \in BOOLEAN /\ raw' \in StreamType
  BY DEF end, sync, setDedicatedSpi, IInv, TypeOK, StreamType, Direction
<1>4. m_dedicatedSpi' \in BOOLEAN
  BY DEF end, sync, setDedicatedSpi, IInv, TypeOK
<1> QED BY <1>1, <1>2, <1>3, <1>4, QuietStep DEF IInv

LEMMA PowerLossStep ==
  ASSUME IInv, PowerLoss
  PROVE  IInv' /\ DeviceStep
<1>1. /\ m_state' = m_state /\ m_curSector' = m_curSector /\ m_spiActive' = m_spiActive
      /\ m_dedicatedSpi' = m_dedicatedSpi /\ begun' = begun /\ raw' = raw
      /\ disk' = disk /\ last' = last /\ card' = "off" /\ next' = 0
  BY DEF PowerLoss, driver
<1>2. IInv'
  BY <1>1, SectorsAssumption DEF IInv, TypeOK, StreamAgrees, BusReleased
<1> QED BY <1>1, <1>2 DEF DeviceStep

LEMMA NextIInv ==
  ASSUME IInv, [Next]_vars
  PROVE  IInv' /\ DeviceStep
<1>1. CASE begin \/ readRegister \/ rawRead \/ rawStop \/ PowerLoss
  BY <1>1, BeginStep, RegisterStep, RawReadStep, RawStopStep, PowerLossStep
<1>2. CASE end \/ sync
  BY <1>2, SyncStep
<1>3. CASE \E value \in BOOLEAN : setDedicatedSpi(value)
  BY <1>3, SyncStep
<1>4. CASE \E src \in Blocks(1) : rawWrite(src)
  BY <1>4, RawWriteStep
<1>5. ASSUME NEW a \in Sector,
             \/ \E dir \in {"READ", "WRITE"} : rawStart(dir, a)
             \/ \E src \in Blocks(1) : writeSector(a, src)
             \/ \E n \in Length(a) :
                  \/ readSectors(a, n)
                  \/ erase(a, n)
                  \/ \E src \in Blocks(n) : writeSectors(a, n, src)
      PROVE  IInv' /\ DeviceStep
  BY <1>5, RawStartStep, WriteSectorStep, ReadSectorsStep, EraseStep, WriteSectorsStep
<1>6. CASE UNCHANGED vars
  BY <1>6 DEF vars, driver, IInv, TypeOK, StreamAgrees, BusReleased, DeviceStep
<1> QED BY <1>1, <1>2, <1>3, <1>4, <1>5, <1>6 DEF Next

-----------------------------------------------------------------------------
(* The variables keep their types; m_curSector stays on the card or just   *)
(* behind it.                                                              *)
THEOREM TypeCorrect == Spec => []TypeOK
<1>1. Init => IInv
  BY InitIInv
<1>2. IInv /\ [Next]_vars => IInv'
  BY NextIInv
<1>3. IInv => TypeOK
  BY DEF IInv
<1> QED BY <1>1, <1>2, <1>3, PTL DEF Spec

(* Whenever the card is selected between two calls of readSectors,         *)
(* writeSectors and the rest, it is at the transfer and the sector that    *)
(* the driver takes it to be at, so that skipping readStart or writeStart  *)
(* is right.                                                               *)
THEOREM TransferAgrees == Spec => []StreamAgrees
<1>1. Init => IInv
  BY InitIInv
<1>2. IInv /\ [Next]_vars => IInv'
  BY NextIInv
<1>3. IInv => StreamAgrees
  BY DEF IInv
<1> QED BY <1>1, <1>2, <1>3, PTL DEF Spec

(* On a shared bus every call of the driver ends with the card deselected. *)
THEOREM BusShared == Spec => []BusReleased
<1>1. Init => IInv
  BY InitIInv
<1>2. IInv /\ [Next]_vars => IInv'
  BY NextIInv
<1>3. IInv => BusReleased
  BY DEF IInv
<1> QED BY <1>1, <1>2, <1>3, PTL DEF Spec

(* SdSpiCard implements the block device that the file system code counts  *)
(* on: whatever breaks off or is repeated, a read or write that reports    *)
(* success was of the sectors asked for, and no other sector changes.      *)
THEOREM ImplementsBlockDevice == Spec => DeviceSpec
<1>1. Init => IInv
  BY InitIInv
<1>2. IInv /\ [Next]_vars => IInv'
  BY NextIInv
<1>3. Init => Device!Init
  BY DEF Init, Device!Init, Sector, Other
<1>4. IInv /\ [Next]_vars => [Device!Next]_<<disk, last>>
  BY NextIInv DEF DeviceStep
<1> QED BY <1>1, <1>2, <1>3, <1>4, PTL DEF Spec, DeviceSpec, Device!Spec

-----------------------------------------------------------------------------
(* The card of SdCardFactory: one of the two drivers. *)
(* A block that is lost leaves the controller with its error, or reset by  *)
(* begin(), and m_transferActive set: ErrorsReported alone does not say    *)
(* that waitTransferComplete() fails.                                      *)
ErrorStands ==
  /\ lost => m_transferActive /\ controller \in {"error", "free"}
  /\ controller # "free" => m_transferActive

(* While it stands, a call that waits for the controller only fails.       *)
LEMMA WaitFails ==
  ASSUME ErrorStands, lost, NEW results, NEW r \in AfterWait(results)
  PROVE  ~r.ok
BY DEF ErrorStands, AfterWait, Complete, Result

(* A call that has waited for the controller and then ends with ok: if it  *)
(* goes on to the end it has found no error.                               *)
LEMMA ReturnClears ==
  ASSUME NEW ok, Returns(ok), lost => ~ok
  PROVE  lost' = FALSE
BY DEF Returns

LEMMA NextStands ==
  ASSUME ErrorStands, [CardNext]_cardVars
  PROVE  ErrorStands'
<1>1. CASE SpiCall
  BY <1>1 DEF SpiCall, ErrorStands, sdio, fifo
<1>2. CASE sdioPowerLoss
  BY <1>2 DEF sdioPowerLoss, ErrorStands, sdio, fifo
<1>3. CASE sdioBegin
  BY <1>3 DEF sdioBegin, ErrorStands
<1>4. CASE sdioEnd
  BY <1>4 DEF sdioEnd, ErrorStands, sdio, fifo
<1>5. CASE sdioSync
  <2>1. PICK r \in AfterWait(Stopped(now)) : Returns(r.ok)
    BY <1>5 DEF sdioSync
  <2>2. lost' = FALSE
    BY <2>1, WaitFails, ReturnClears
  <2> QED BY <1>5, <2>2 DEF sdioSync, NoTransfer, ErrorStands
<1>6. CASE BlockDone
  <2>1. /\ controller = "sending" /\ UNCHANGED m_transferActive
        /\ \E ok \in BOOLEAN : /\ controller' = (IF ok THEN "done" ELSE "error")
                              /\ lost' = (lost \/ ~ok)
    BY <1>6 DEF BlockDone
  <2>2. ~lost
    BY <2>1 DEF ErrorStands
  <2> QED BY <2>1, <2>2 DEF ErrorStands
<1>7. ASSUME NEW a \in Sector, NEW d \in Data, fifoWriteSector(a, d)
      PROVE  ErrorStands'
  <2>1. PICK o \in AfterWait(sdioOpened("WRITE", a)) :
          (o.ok /\ Returns(TRUE)) \/ Returns(FALSE)
    BY <1>7 DEF fifoWriteSector
  <2>2. lost' = FALSE
    BY <2>1, WaitFails DEF Returns
  <2>3. controller' # "free" => m_transferActive'
    BY <1>7 DEF fifoWriteSector, NoTransfer
  <2> QED BY <2>2, <2>3 DEF ErrorStands
<1>8. ASSUME NEW a \in Sector, NEW n \in Length(a), sdioReadSectors(a, n)
      PROVE  ErrorStands'
  <2>1. PICK o \in AfterWait(sdioOpened("READ", a)) :
          \E r \in IF o.ok THEN sdioRead(o.s, n) ELSE {o} : Returns(r.ok)
    BY <1>8 DEF sdioReadSectors
  <2>2. PICK r \in IF o.ok THEN sdioRead(o.s, n) ELSE {o} : Returns(r.ok)
    BY <2>1
  <2>3. lost => ~r.ok
    BY <2>2, WaitFails
  <2>4. lost' = FALSE
    BY <2>2, <2>3, ReturnClears
  <2>5. controller' = "free"
    BY <1>8 DEF sdioReadSectors, NoTransfer
  <2> QED BY <2>4, <2>5 DEF ErrorStands
<1>9. ASSUME NEW a \in Sector, NEW n \in Length(a), dmaReadSectors(a, n)
      PROVE  ErrorStands'
  BY <1>9 DEF dmaReadSectors, Returns, fifo, ErrorStands
<1>10. ASSUME NEW a \in Sector, NEW n \in Length(a), sdioErase(a, n)
       PROVE  ErrorStands'
  <2>1. CASE m_state = "IDLE"
    BY <1>10, <2>1 DEF sdioErase, Returns, fifo, ErrorStands
  <2>2. CASE m_state # "IDLE"
    <3>1. PICK s \in AfterWait(Stopped(now)) :
            \E r \in IF s.ok THEN sdioAnswers(s.s, "CMD38", 0) ELSE {s}, ok \in BOOLEAN :
              (ok => r.ok) /\ Returns(ok)
      BY <1>10, <2>2 DEF sdioErase
    <3>2. PICK r \in IF s.ok THEN sdioAnswers(s.s, "CMD38", 0) ELSE {s}, ok \in BOOLEAN :
            (ok => r.ok) /\ Returns(ok)
      BY <3>1
    <3>3. lost => ~ok
      BY <3>2, WaitFails
    <3>4. lost' = FALSE
      BY <3>2, <3>3, ReturnClears
    <3>5. controller' = "free"
      BY <1>10, <2>2 DEF sdioErase, NoTransfer
    <3> QED BY <3>4, <3>5 DEF ErrorStands
  <2> QED BY <2>1, <2>2
<1>11. ASSUME NEW a \in Sector, NEW n \in Length(a), NEW src \in Blocks(n),
              pioWriteSectors(a, n, src)
       PROVE  ErrorStands'
  BY <1>11 DEF pioWriteSectors, Returns, fifo, ErrorStands
<1>12. ASSUME NEW a \in Sector, NEW n \in Length(a), NEW src \in Blocks(n),
              dmaWriteSectors(a, n, src)
       PROVE  ErrorStands'
  BY <1>12 DEF dmaWriteSectors, Returns, fifo, ErrorStands
<1>13. CASE UNCHANGED cardVars
  BY <1>13 DEF cardVars, sdio, fifo, ErrorStands
<1> QED BY <1>1, <1>2, <1>3, <1>4, <1>5, <1>6, <1>7, <1>8, <1>9, <1>10, <1>11, <1>12, <1>13
        DEF CardNext

-----------------------------------------------------------------------------
(* What each exchange of an SDIO driver leaves.                            *)

(* The outcome r left all but m_state, the card and its sector alone. *)
Leaves(r, s) ==
  /\ Keeps(r, s)
  /\ r.s.active = s.active

LEMMA SdioAnswered ==
  ASSUME NEW s \in Condition, NEW cmd, NEW a \in 0 .. Sectors,
         NEW r \in sdioAnswers(s, cmd, a)
  PROVE  /\ Leaves(r, s)
         /\ r.s.state = s.state
         /\ r.ok => AtStart(r.s, cmd, a)
<1>1. \/ r = Result(FALSE, s)
      \/ \E ok \in BOOLEAN : r = Result(ok, CarriedOut(s, cmd, a))
  BY DEF sdioAnswers, Answers
<1>2. CASE r = Result(FALSE, s)
  BY <1>2 DEF Result, Leaves, Keeps
<1>3. ASSUME NEW ok \in BOOLEAN, r = Result(ok, CarriedOut(s, cmd, a))
      PROVE  Leaves(r, s) /\ r.s.state = s.state /\ AtStart(r.s, cmd, a)
  <2> DEFINE c == CarriedOut(s, cmd, a)
  <2>1. /\ c \in Condition /\ c.state = s.state /\ c.cur = s.cur
        /\ c.active = s.active /\ c.disk = s.disk /\ AtStart(c, cmd, a)
    BY Carried
  <2> HIDE DEF c
  <2>2. r.ok = ok /\ r.s = c
    BY <1>3 DEF Result, c
  <2> QED BY <2>1, <2>2 DEF Leaves, Keeps
<1> QED BY <1>1, <1>2, <1>3

(* A stop that succeeds is idle; one of nothing does nothing. *)
LEMMA StopLeaves ==
  ASSUME NEW s \in Condition, NEW r \in Stopped(s)
  PROVE  /\ Leaves(r, s)
         /\ r.ok => Idle(r.s)
         /\ Idle(s) => r.s = s
<1> DEFINE idle(t) == [t EXCEPT !.state = "IDLE"]
           sent(t) == sdioAnswers(t, "CMD12", 0)
<1>1. 0 \in 0 .. Sectors
  BY SectorsAssumption
<1>2. \A t \in Condition : /\ idle(t) \in Condition /\ Idle(idle(t))
                           /\ idle(t).cur = t.cur /\ idle(t).active = t.active
                           /\ idle(t).disk = t.disk
  BY DEF Condition, Direction, Idle
<1>3. CASE s.state = "IDLE"
  <2>1. r = Result(TRUE, s)
    BY <1>3 DEF Stopped
  <2> QED BY <1>3, <2>1 DEF Result, Leaves, Keeps, Idle
<1>4. CASE s.state # "IDLE" /\ bus = "PIO"
  <2>1. PICK q \in sent(s) : r = Result(FALSE, q.s) \/ r = Result(TRUE, idle(q.s))
    BY <1>4 DEF Stopped
  <2>2. Leaves(q, s)
    BY <1>1, <2>1, SdioAnswered
  <2>3. PICK t : /\ t \in Condition /\ Idle(t) /\ t.cur = q.s.cur
                 /\ t.active = q.s.active /\ t.disk = q.s.disk
                 /\ r = Result(FALSE, q.s) \/ r = Result(TRUE, t)
    BY <1>2, <2>1, <2>2 DEF Leaves, Keeps
  <2>4. CASE r = Result(FALSE, q.s)
    BY <1>4, <2>2, <2>4 DEF Result, Leaves, Keeps, Idle
  <2>5. CASE r = Result(TRUE, t)
    BY <1>4, <2>2, <2>3, <2>5 DEF Result, Leaves, Keeps, Idle
  <2> QED BY <2>3, <2>4, <2>5
<1>5. CASE s.state # "IDLE" /\ bus # "PIO"
  <2>1. r \in sent(idle(s)) \cup {Result(FALSE, q.s) : q \in sent(idle(s))}
    BY <1>5 DEF Stopped
  <2> HIDE DEF sent, idle
  <2>2. PICK q \in sent(idle(s)) : r = q \/ r = Result(FALSE, q.s)
    BY <2>1
  <2>3. Leaves(q, idle(s)) /\ q.s.state = idle(s).state
    BY <1>1, <1>2, <2>2, SdioAnswered DEF sent
  <2>4. /\ q.ok \in BOOLEAN /\ q.s \in Condition /\ q.s.cur = s.cur
        /\ q.s.active = s.active /\ q.s.disk = s.disk /\ q.s.state = "IDLE"
    BY <1>2, <2>3 DEF Leaves, Keeps, Idle
  <2>5. r.ok \in BOOLEAN /\ r.s = q.s
    <3>1. CASE r = q
      BY <2>4, <3>1
    <3>2. CASE r = Result(FALSE, q.s)
      BY <3>2 DEF Result
    <3> QED BY <2>2, <3>1, <3>2
  <2> QED BY <1>5, <2>4, <2>5 DEF Leaves, Keeps, Idle
<1> QED BY <1>3, <1>4, <1>5

(* The transfer is open: it goes on, or it was started where it was asked  *)
(* for.                                                                    *)
LEMMA SdioOpened ==
  ASSUME TypeOK, NEW a \in 0 .. Sectors, NEW dir, NEW at,
         <<dir, at>> \in {<<"READ", "sending">>, <<"WRITE", "receiving">>},
         NEW o \in sdioOpened(dir, a)
  PROVE  /\ Leaves(o, [now EXCEPT !.cur = o.s.cur])
         /\ o.ok => o.s.state = dir /\ o.s.cur = a
         /\ o.ok => \/ Continues(now, dir, a) /\ o.s = now
                    \/ o.s.card = at /\ o.s.next = a
<1> USE NowCondition
<1>1. CASE Continues(now, dir, a)
  <2>1. o = Result(TRUE, now)
    BY <1>1 DEF sdioOpened
  <2> QED BY <1>1, <2>1 DEF Result, Leaves, Keeps, Continues, Condition
<1>2. CASE ~Continues(now, dir, a)
  <2> DEFINE cmd == IF dir = "READ" THEN "CMD18" ELSE "CMD25"
  <2>1. PICK s \in Stopped(now) :
          \/ ~s.ok /\ o = s
          \/ \E r \in sdioAnswers(s.s, cmd, a) :
               o = IF r.ok THEN Result(TRUE, [r.s EXCEPT !.state = dir, !.cur = a]) ELSE r
    BY <1>2 DEF sdioOpened
  <2>2. Leaves(s, now)
    BY <2>1, StopLeaves
  <2>3. CASE ~s.ok /\ o = s
    BY <2>2, <2>3 DEF Leaves, Keeps, Condition
  <2>4. ASSUME NEW r \in sdioAnswers(s.s, cmd, a),
               o = IF r.ok THEN Result(TRUE, [r.s EXCEPT !.state = dir, !.cur = a]) ELSE r
        PROVE  /\ Leaves(o, [now EXCEPT !.cur = o.s.cur])
               /\ o.ok => o.s.state = dir /\ o.s.cur = a
               /\ o.ok => o.s.card = at /\ o.s.next = a
    <3>1. Leaves(r, s.s) /\ (r.ok => AtStart(r.s, cmd, a))
      BY <2>2, <2>4, SdioAnswered DEF Leaves, Keeps
    <3>2. r.s \in Condition /\ r.s.active = now.active /\ r.s.disk = now.disk
      BY <2>2, <3>1 DEF Leaves, Keeps
    <3>3. CASE r.ok
      <4>1. o.ok = TRUE /\ o.s = [r.s EXCEPT !.state = dir, !.cur = a]
        BY <2>4, <3>3 DEF Result
      <4>2. r.s.card = at /\ r.s.next = a
        BY <3>1, <3>3 DEF AtStart
      <4>3. /\ o.s \in Condition /\ o.s.state = dir /\ o.s.cur = a
            /\ o.s.card = at /\ o.s.next = a
            /\ o.s.active = now.active /\ o.s.disk = now.disk
        BY <3>2, <4>1, <4>2 DEF Condition, Direction
      <4> QED BY <4>1, <4>3 DEF Leaves, Keeps, Condition
    <3>4. CASE ~r.ok
      BY <2>2, <2>4, <3>1, <3>2, <3>4 DEF Leaves, Keeps, Condition
    <3> QED BY <3>3, <3>4
  <2> QED BY <2>1, <2>3, <2>4
<1> QED BY <1>1, <1>2

(* Blocks that were read: the card moved on, and the disk is as it was. *)
LEMMA SdioReadPassed ==
  ASSUME NEW s \in Condition, NEW n \in Nat \ {0}, s.cur + n <= Sectors,
         NEW r \in sdioRead(s, n)
  PROVE  /\ r.ok \in BOOLEAN /\ r.s \in Condition
         /\ r.s.state = s.state /\ r.s.active = s.active /\ r.s.disk = s.disk
         /\ r.s.card = s.card
         /\ r.ok => /\ s.card = "sending"
                    /\ r.s.next = s.next + n /\ r.s.cur = s.cur + n
<1>1. PICK j \in 0 .. n, k \in 0 .. n :
        /\ Passes(s, "sending", k)
        /\ r.s = [s EXCEPT !.next = @ + k, !.cur = @ + j]
        /\ r.ok \in BOOLEAN /\ (r.ok => j = n /\ k = n)
  <2>1. ASSUME Passes(s, "sending", n),
               r = Result(TRUE, [s EXCEPT !.next = @ + n, !.cur = @ + n])
        PROVE  \E j \in 0 .. n, k \in 0 .. n :
                 /\ Passes(s, "sending", k)
                 /\ r.s = [s EXCEPT !.next = @ + k, !.cur = @ + j]
                 /\ r.ok \in BOOLEAN /\ (r.ok => j = n /\ k = n)
    <3>1. n \in 0 .. n /\ r.ok = TRUE
      BY <2>1 DEF Result
    <3> QED BY <2>1, <3>1 DEF Result
  <2>2. ASSUME NEW b \in Broken(n), Passes(s, "sending", b[2]),
               r = Result(FALSE, [s EXCEPT !.next = @ + b[2], !.cur = @ + b[1]])
        PROVE  \E j \in 0 .. n, k \in 0 .. n :
                 /\ Passes(s, "sending", k)
                 /\ r.s = [s EXCEPT !.next = @ + k, !.cur = @ + j]
                 /\ r.ok \in BOOLEAN /\ (r.ok => j = n /\ k = n)
    <3>1. b[1] \in 0 .. n /\ b[2] \in 0 .. n /\ r.ok = FALSE
      BY <2>2 DEF Broken, Result
    <3> QED BY <2>2, <3>1 DEF Result
  <2>3. \/ /\ Passes(s, "sending", n)
           /\ r = Result(TRUE, [s EXCEPT !.next = @ + n, !.cur = @ + n])
        \/ \E b \in Broken(n) :
             /\ Passes(s, "sending", b[2])
             /\ r = Result(FALSE, [s EXCEPT !.next = @ + b[2], !.cur = @ + b[1]])
    BY DEF sdioRead
  <2> QED BY <2>1, <2>2, <2>3
<1>2. s.next + k \in 0 .. Sectors /\ s.cur + j \in 0 .. Sectors
  BY <1>1, SectorsAssumption DEF Passes, Condition
<1>3. /\ r.s \in Condition /\ r.s.next = s.next + k /\ r.s.cur = s.cur + j
      /\ r.s.state = s.state /\ r.s.active = s.active /\ r.s.disk = s.disk
      /\ r.s.card = s.card
  BY <1>1, <1>2 DEF Condition
<1> QED BY <1>1, <1>3 DEF Passes

(* Blocks that were stored, from the sector on at which the card was. *)
LEMMA StoredBlocks ==
  ASSUME NEW s \in Condition, NEW n \in Nat \ {0}, NEW src \in Blocks(n),
         NEW k \in 0 .. n, Passes(s, "receiving", k)
  PROVE  /\ Stored(s, src, k) \in Condition
         /\ Stored(s, src, k).state = s.state /\ Stored(s, src, k).cur = s.cur
         /\ Stored(s, src, k).active = s.active /\ Stored(s, src, k).card = s.card
         /\ Stored(s, src, k).next = s.next + k
         /\ Stored(s, src, k).disk = Over(s.disk, s.next, src, k)
         /\ \A t \in Sector : t \notin s.next .. (s.next + n - 1) =>
              Stored(s, src, k).disk[t] = s.disk[t]
         /\ k = 0 => Stored(s, src, k).disk = s.disk
         /\ k > 0 => s.card = "receiving"
<1> DEFINE d == Over(s.disk, s.next, src, k)
<1>1. s.next \in 0 .. Sectors /\ s.disk \in [Sector -> Data]
  BY DEF Condition
<1>2. s.next + k \in 0 .. Sectors
  BY <1>1, SectorsAssumption DEF Passes
<1>3. /\ d \in [Sector -> Data]
      /\ \A t \in Sector : t \notin s.next .. (s.next + n - 1) => d[t] = s.disk[t]
      /\ k = 0 => d = s.disk
  BY <1>1, SectorsAssumption, OverType
<1>4. Stored(s, src, k) = [s EXCEPT !.next = @ + k, !.disk = d]
  BY DEF Stored
<1> HIDE DEF d
<1>5. /\ Stored(s, src, k) \in Condition
      /\ Stored(s, src, k).state = s.state /\ Stored(s, src, k).cur = s.cur
      /\ Stored(s, src, k).active = s.active /\ Stored(s, src, k).card = s.card
      /\ Stored(s, src, k).next = s.next + k /\ Stored(s, src, k).disk = d
  BY <1>2, <1>3, <1>4 DEF Condition
<1> QED BY <1>3, <1>5 DEF d, Passes

LEMMA PioWritten ==
  ASSUME NEW s \in Condition, NEW n \in Nat \ {0}, s.cur + n <= Sectors,
         NEW src \in Blocks(n), NEW r \in pioWrite(s, src, n)
  PROVE  /\ r.ok \in BOOLEAN /\ r.s \in Condition
         /\ r.s.state = s.state /\ r.s.active = s.active /\ r.s.card = s.card
         /\ \/ r.s.disk = s.disk
            \/ /\ s.card = "receiving"
               /\ \A t \in Sector :
                    t \notin s.next .. (s.next + n - 1) => r.s.disk[t] = s.disk[t]
         /\ r.ok => /\ s.card = "receiving"
                    /\ r.s.next = s.next + n /\ r.s.cur = s.cur + n
                    /\ r.s.disk = Over(s.disk, s.next, src, n)
<1>1. PICK k \in 0 .. n, j \in {0, n} :
        /\ Passes(s, "receiving", k)
        /\ r.s = [Stored(s, src, k) EXCEPT !.cur = @ + j]
        /\ r.ok \in BOOLEAN /\ (r.ok => j = n /\ k = n)
  <2> DEFINE Shown == \E k \in 0 .. n, j \in {0, n} :
                        /\ Passes(s, "receiving", k)
                        /\ r.s = [Stored(s, src, k) EXCEPT !.cur = @ + j]
                        /\ r.ok \in BOOLEAN /\ (r.ok => j = n /\ k = n)
  <2>1. ASSUME Passes(s, "receiving", n), r = Result(TRUE, Counted(Stored(s, src, n), n, n))
        PROVE  Shown
    <3>1. n \in 0 .. n /\ r.ok = TRUE
      BY <2>1 DEF Result
    <3>2. r.s = [Stored(s, src, n) EXCEPT !.cur = @ + n]
      BY <2>1 DEF Result, Counted
    <3> QED BY <2>1, <3>1, <3>2
  <2>2. ASSUME NEW b \in Broken(n), Passes(s, "receiving", b[2]),
               r = Result(FALSE, Counted(Stored(s, src, b[2]), n, b[1]))
        PROVE  Shown
    <3>1. b[1] \in 0 .. n - 1 /\ b[2] \in 0 .. n /\ r.ok = FALSE
      BY <2>2 DEF Broken, Result
    <3>2. r.s = [Stored(s, src, b[2]) EXCEPT !.cur = @ + 0]
      BY <2>2, <3>1 DEF Result, Counted
    <3> QED BY <2>2, <3>1, <3>2
  <2>3. \/ /\ Passes(s, "receiving", n)
           /\ r = Result(TRUE, Counted(Stored(s, src, n), n, n))
        \/ \E b \in Broken(n) :
             /\ Passes(s, "receiving", b[2])
             /\ r = Result(FALSE, Counted(Stored(s, src, b[2]), n, b[1]))
    BY DEF pioWrite
  <2> QED BY <2>1, <2>2, <2>3
<1> DEFINE q == Stored(s, src, k)
<1>2. /\ q \in Condition /\ q.state = s.state /\ q.cur = s.cur
      /\ q.active = s.active /\ q.card = s.card /\ q.next = s.next + k
      /\ q.disk = Over(s.disk, s.next, src, k)
      /\ \A t \in Sector : t \notin s.next .. (s.next + n - 1) => q.disk[t] = s.disk[t]
      /\ k = 0 => q.disk = s.disk
      /\ k > 0 => s.card = "receiving"
  BY <1>1, StoredBlocks
<1>3. r.s = [q EXCEPT !.cur = @ + j]
  BY <1>1
<1> HIDE DEF q
<1>4. q.cur + j \in 0 .. Sectors /\ s.cur + j \in Nat
  BY <1>1, <1>2, SectorsAssumption DEF Condition
<1>5. /\ r.s \in Condition /\ r.s.cur = s.cur + j /\ r.s.state = q.state
      /\ r.s.active = q.active /\ r.s.card = q.card /\ r.s.next = q.next /\ r.s.disk = q.disk
  BY <1>2, <1>3, <1>4 DEF Condition
<1> QED BY <1>1, <1>2, <1>5

-----------------------------------------------------------------------------
(* The inductive invariant.                                                *)
CardTypeOK ==
  /\ bus \in {"SPI", "PIO", "FIFO", "DMA"}
  /\ m_transferActive \in BOOLEAN /\ controller \in {"free", "sending", "done", "error"}
  /\ block \in [at : Sector, data : Data]
  /\ unsure \in BOOLEAN /\ lost \in BOOLEAN

(* What only one of the drivers does. *)
Kinds ==
  /\ bus # "SPI" => ~m_spiActive /\ raw = NoStream
  /\ bus # "FIFO" => controller = "free"
  /\ bus = "DMA" => m_state = "IDLE"

(* The block that the controller has is the last that was counted. *)
Sending == controller = "sending" => m_state = "WRITE" /\ m_curSector = block.at + 1

(* A program that does not go on with a failed transfer hands no block to  *)
(* one; SdioAgrees alone would not say where BlockDone stores it.          *)
Sure == ~Retries => SdioAgrees /\ (controller = "sending" => ~unsure)

CardInv == IInv /\ CardTypeOK /\ Kinds /\ Sending /\ Sure
CardStep == CardInv' /\ (~Retries => DeviceStep)

LEMMA InitCardInv ==
  ASSUME CardInit
  PROVE  CardInv
<1>1. IInv
  BY InitIInv DEF CardInit
<1>2. NoBlock \in [at : Sector, data : Data]
  BY SectorsAssumption DEF NoBlock, Sector
<1>3. CardTypeOK
  BY <1>2 DEF CardInit, CardTypeOK
<1>4. Kinds /\ Sending /\ Sure
  BY DEF CardInit, Init, Kinds, Sending, Sure, SdioAgrees
<1> QED BY <1>1, <1>3, <1>4 DEF CardInv

(* A call of an SDIO driver that has waited for the controller. *)
LEMMA CallInv ==
  ASSUME CardInv, bus # "SPI", NEW ok \in BOOLEAN, NEW s \in Condition,
         Becomes(s), s.active = m_spiActive, Returns(ok),
         NoTransfer \/ (UNCHANGED fifo /\ controller # "sending"),
         bus = "DMA" => s.state = "IDLE",
         ~Retries /\ ok /\ s.state # "IDLE" /\ s.card # "off" =>
           /\ s.card = (IF s.state = "READ" THEN "sending" ELSE "receiving")
           /\ s.cur = s.next
  PROVE  CardInv'
<1> USE DEF CardInv
<1>1. /\ bus' = bus /\ raw' = raw /\ m_dedicatedSpi' = m_dedicatedSpi /\ begun' = begun
      /\ unsure' = (~ok /\ m_state' # "IDLE") /\ lost' = (lost /\ ok)
  BY DEF Returns
<1>2. /\ block' = block /\ m_transferActive' \in BOOLEAN
      /\ controller' \in {"free", "done", "error"}
      /\ controller' = "free" \/ controller' = controller
  BY DEF NoTransfer, fifo, CardTypeOK
<1>3. /\ m_state' = s.state /\ m_curSector' = s.cur /\ m_spiActive' = s.active
      /\ card' = s.card /\ next' = s.next
  BY DEF Becomes
<1>4. Away(s) /\ raw = NoStream
  BY DEF Kinds, Away, IInv, TypeOK
<1>5. IInv'
  <2>1. m_dedicatedSpi' \in BOOLEAN /\ begun' \in BOOLEAN /\ raw' \in StreamType
    BY <1>1 DEF IInv, TypeOK, StreamType, Direction
  <2> QED BY <1>4, <2>1, AwayInv
<1>6. CardTypeOK'
  BY <1>1, <1>2 DEF CardTypeOK
<1>7. Kinds'
  BY <1>1, <1>2, <1>3, <1>4 DEF Kinds, Away
<1>8. Sending'
  BY <1>2 DEF Sending
<1>9. Sure'
  <2>1. s.cur \in Nat /\ s.next \in Nat
    BY SectorsAssumption DEF Condition
  <2>2. ASSUME ~Retries, m_state' # "IDLE", ~unsure', card' # "off"
        PROVE  /\ card' = (IF m_state' = "READ" THEN "sending" ELSE "receiving")
               /\ m_curSector' = next'
    <3>1. ok
      BY <1>1, <2>2
    <3> QED BY <1>3, <2>2, <3>1
  <2>3. next' \in Nat /\ controller' # "sending"
    BY <1>2, <1>3, <2>1
  <2>4. ~Retries => SdioAgrees'
    BY <2>2, <2>3 DEF SdioAgrees
  <2> QED BY <2>3, <2>4 DEF Sure
<1> QED BY <1>5, <1>6, <1>7, <1>8, <1>9

-----------------------------------------------------------------------------
(* The transfer that a call goes on with, or has started, is at the sector *)
(* that the call is for.                                                   *)
LEMMA OpenAgrees ==
  ASSUME CardInv, ErrorStands, ~Retries, bus # "SPI", Waited,
         bus = "FIFO" => Complete,
         NEW a \in Sector, NEW dir, NEW at,
         <<dir, at>> \in {<<"READ", "sending">>, <<"WRITE", "receiving">>},
         ~GoesOn(dir, a),
         NEW o \in sdioOpened(dir, a), o.ok, o.s.card # "off"
  PROVE  o.s.card = at /\ o.s.next = a
<1>1. a \in 0 .. Sectors
  BY SectorsAssumption DEF Sector
<1>2. \/ Continues(now, dir, a) /\ o.s = now
      \/ o.s.card = at /\ o.s.next = a
  <2>1. o.ok => \/ Continues(now, dir, a) /\ o.s = now
                \/ o.s.card = at /\ o.s.next = a
    <3>1. TypeOK
      BY DEF CardInv, IInv
    <3>2. /\ Leaves(o, [now EXCEPT !.cur = o.s.cur])
          /\ o.ok => o.s.state = dir /\ o.s.cur = a
          /\ o.ok => \/ Continues(now, dir, a) /\ o.s = now
                     \/ o.s.card = at /\ o.s.next = a
      BY <1>1, <3>1, SdioOpened
    <3> QED BY <3>2
  <2> QED BY <2>1
<1>3. CASE Continues(now, dir, a) /\ o.s = now
  <2>1. m_state = dir /\ m_curSector = a /\ ~unsure
    BY <1>3, NowCondition DEF Continues, GoesOn, CardInv, IInv
  <2>2. controller # "error" /\ controller # "sending"
    BY DEF Waited, Complete, ErrorStands, CardInv, Kinds
  <2>3. card # "off" /\ o.s.card = card /\ o.s.next = next /\ next \in Nat
    BY <1>3, NowCondition, SectorsAssumption DEF CardInv, IInv, TypeOK
  <2>4. card = at /\ m_curSector = next
    BY <2>1, <2>2, <2>3 DEF CardInv, Sure, SdioAgrees
  <2> QED BY <2>1, <2>3, <2>4
<1> QED BY <1>2, <1>3

LEMMA SdioReadStep ==
  ASSUME CardInv, ErrorStands, NEW a \in Sector, NEW n \in Length(a), sdioReadSectors(a, n)
  PROVE  CardStep
<1>1. n \in Nat \ {0} /\ a + n <= Sectors /\ a \in Nat /\ a \in 0 .. Sectors
  BY Lengths, SectorsAssumption DEF Sector
<1>2. bus \in {"PIO", "FIFO"} /\ Waited /\ NoTransfer /\ (Retries \/ ~GoesOn("READ", a))
  BY DEF sdioReadSectors, Sdio
<1>3. PICK o \in AfterWait(sdioOpened("READ", a)) :
        \E r \in IF o.ok THEN sdioRead(o.s, n) ELSE {o} :
          /\ Becomes(r.s) /\ Returns(r.ok)
          /\ last' = IF r.ok THEN ReadOf(a, n, r.s) ELSE Other
  BY DEF sdioReadSectors
<1>4. PICK r \in IF o.ok THEN sdioRead(o.s, n) ELSE {o} :
        /\ Becomes(r.s) /\ Returns(r.ok)
        /\ last' = IF r.ok THEN ReadOf(a, n, r.s) ELSE Other
  BY <1>3
<1>5. /\ o.ok \in BOOLEAN /\ o.s \in Condition /\ o.s.active = m_spiActive /\ o.s.disk = disk
      /\ o.ok => o \in sdioOpened("READ", a) /\ Complete /\ o.s.state = "READ" /\ o.s.cur = a
  <2>1. CASE Complete
    <3>1. o \in sdioOpened("READ", a)
      BY <1>3, <2>1 DEF AfterWait
    <3>2. Leaves(o, [now EXCEPT !.cur = o.s.cur]) /\ (o.ok => o.s.state = "READ" /\ o.s.cur = a)
      BY <1>1, <3>1, SdioOpened DEF CardInv, IInv
    <3> QED BY <2>1, <3>1, <3>2, NowCondition DEF Leaves, Keeps, CardInv, IInv, Condition
  <2>2. CASE ~Complete
    <3>1. o = Result(FALSE, now)
      BY <1>3, <2>2 DEF AfterWait
    <3> QED BY <3>1, NowCondition DEF Result, CardInv, IInv
  <2> QED BY <2>1, <2>2
<1>6. CASE o.ok
  <2>1. r \in sdioRead(o.s, n) /\ o.s.cur + n <= Sectors
    BY <1>1, <1>4, <1>5, <1>6
  <2>2. /\ r.ok \in BOOLEAN /\ r.s \in Condition
        /\ r.s.state = o.s.state /\ r.s.active = o.s.active /\ r.s.disk = o.s.disk
        /\ r.s.card = o.s.card
        /\ r.ok => /\ o.s.card = "sending"
                   /\ r.s.next = o.s.next + n /\ r.s.cur = o.s.cur + n
    BY <1>1, <1>5, <2>1, SdioReadPassed
  <2>3. ~Retries /\ r.ok => o.s.next = a
    BY <1>2, <1>5, <1>6, <2>2, OpenAgrees
  <2>4. CardInv'
    BY <1>2, <1>4, <1>5, <1>6, <2>2, <2>3, CallInv
  <2>5. disk' = disk
    BY <1>4, <1>5, <2>2 DEF Becomes
  <2>6. ~Retries => DeviceStep
    <3>1. CASE ~r.ok
      BY <1>4, <2>5, <3>1, OtherStep
    <3>2. CASE ~Retries /\ r.ok
      <4>1. /\ last'.call = "read" /\ last'.at = a /\ last'.n = n
            /\ last'.data = [i \in 0 .. n - 1 |-> disk[r.s.next - n + i]]
        BY <1>4, <3>2 DEF ReadOf
      <4>2. r.s.next = a + n
        BY <2>2, <2>3, <3>2
      <4>3. \A i \in 0 .. n - 1 : r.s.next - n + i = a + i
        BY <1>1, <4>2
      <4>4. last'.data = [i \in 0 .. n - 1 |-> disk[a + i]]
        BY <4>1, <4>3
      <4> QED BY <2>5, <4>1, <4>4 DEF DeviceStep, Device!Next, Device!Read
    <3> QED BY <2>2, <3>1, <3>2
  <2> QED BY <2>4, <2>6 DEF CardStep
<1>7. CASE ~o.ok
  <2>1. r = o
    BY <1>4, <1>7
  <2>2. CardInv'
    BY <1>2, <1>4, <1>5, <1>7, <2>1, CallInv
  <2>3. disk' = disk /\ last' = Other
    BY <1>4, <1>5, <1>7, <2>1 DEF Becomes
  <2> QED BY <2>2, <2>3, OtherStep DEF CardStep
<1> QED BY <1>5, <1>6, <1>7

LEMMA PioWriteStep ==
  ASSUME CardInv, ErrorStands, NEW a \in Sector, NEW n \in Length(a), NEW src \in Blocks(n),
         pioWriteSectors(a, n, src)
  PROVE  CardStep
<1>1. n \in Nat \ {0} /\ a + n <= Sectors /\ a \in Nat /\ a \in 0 .. Sectors
  BY Lengths, SectorsAssumption DEF Sector
<1>2. /\ bus = "PIO" /\ Waited /\ UNCHANGED fifo /\ (Retries \/ ~GoesOn("WRITE", a))
      /\ controller # "sending"
  BY DEF pioWriteSectors, Sdio, Waited
<1>3. PICK o \in sdioOpened("WRITE", a) :
        \E r \in IF o.ok THEN pioWrite(o.s, src, n) ELSE {o} :
          Becomes(r.s) /\ Returns(r.ok) /\ last' = Wrote(a, n, src, r.ok)
  BY DEF pioWriteSectors
<1>4. PICK r \in IF o.ok THEN pioWrite(o.s, src, n) ELSE {o} :
        Becomes(r.s) /\ Returns(r.ok) /\ last' = Wrote(a, n, src, r.ok)
  BY <1>3
<1>5. /\ o.ok \in BOOLEAN /\ o.s \in Condition /\ o.s.active = m_spiActive /\ o.s.disk = disk
      /\ o.ok => o.s.state = "WRITE" /\ o.s.cur = a
  <2>1. Leaves(o, [now EXCEPT !.cur = o.s.cur]) /\ (o.ok => o.s.state = "WRITE" /\ o.s.cur = a)
    BY <1>1, <1>3, SdioOpened DEF CardInv, IInv
  <2> QED BY <2>1, NowCondition DEF Leaves, Keeps, CardInv, IInv, Condition
<1>6. disk' = r.s.disk
  BY <1>4 DEF Becomes
<1>7. CASE o.ok
  <2>1. r \in pioWrite(o.s, src, n) /\ o.s.cur + n <= Sectors
    BY <1>1, <1>4, <1>5, <1>7
  <2>2. /\ r.ok \in BOOLEAN /\ r.s \in Condition
        /\ r.s.state = o.s.state /\ r.s.active = o.s.active /\ r.s.card = o.s.card
        /\ \/ r.s.disk = o.s.disk
           \/ /\ o.s.card = "receiving"
              /\ \A t \in Sector :
                   t \notin o.s.next .. (o.s.next + n - 1) => r.s.disk[t] = o.s.disk[t]
        /\ r.ok => /\ o.s.card = "receiving"
                   /\ r.s.next = o.s.next + n /\ r.s.cur = o.s.cur + n
                   /\ r.s.disk = Over(o.s.disk, o.s.next, src, n)
    BY <1>1, <1>5, <2>1, PioWritten
  <2>3. ~Retries /\ o.s.card = "receiving" => o.s.next = a
    BY <1>2, <1>3, <1>7, OpenAgrees
  <2>4. CardInv'
    BY <1>2, <1>4, <1>5, <1>7, <2>2, <2>3, CallInv
  <2>5. ~Retries => DeviceStep
    <3> SUFFICES ASSUME ~Retries PROVE DeviceStep
      OBVIOUS
    <3>1. \A t \in Sector : t \notin a .. (a + n - 1) => disk'[t] = disk[t]
      BY <1>5, <1>6, <2>2, <2>3
    <3>2. r.ok => disk' = Over(disk, a, src, n)
      BY <1>5, <1>6, <2>2, <2>3
    <3> QED BY <1>1, <1>4, <2>2, <3>1, <3>2, WriteStep
  <2> QED BY <2>4, <2>5 DEF CardStep
<1>8. CASE ~o.ok
  <2>1. r = o /\ r.ok = FALSE
    BY <1>4, <1>5, <1>8
  <2>2. CardInv'
    BY <1>2, <1>4, <1>5, <2>1, CallInv
  <2>3. disk' = disk
    BY <1>5, <1>6, <2>1
  <2>4. DeviceStep
    BY <1>1, <1>4, <2>1, <2>3, WriteStep
  <2> QED BY <2>2, <2>4 DEF CardStep
<1> QED BY <1>5, <1>7, <1>8

(* What a call has after waitTransferComplete() and the stop. *)
LEMMA StopAfterWait ==
  ASSUME TypeOK, NEW r \in AfterWait(Stopped(now))
  PROVE  Leaves(r, now) /\ (r.ok => Idle(r.s))
<1>1. CASE Complete
  BY <1>1, NowCondition, StopLeaves DEF AfterWait
<1>2. CASE ~Complete
  <2>1. r = Result(FALSE, now)
    BY <1>2 DEF AfterWait
  <2> QED BY <2>1, NowCondition DEF Result, Leaves, Keeps
<1> QED BY <1>1, <1>2

(* In DMA mode no transfer stays open. *)
LEMMA DmaIdle ==
  ASSUME CardInv, bus = "DMA", NEW r \in AfterWait(Stopped(now))
  PROVE  r.s = now
<1>1. Idle(now) /\ now \in Condition
  BY NowCondition DEF CardInv, IInv, Kinds, Idle
<1>2. CASE Complete
  BY <1>1, <1>2, StopLeaves DEF AfterWait
<1>3. CASE ~Complete
  BY <1>3 DEF AfterWait, Result
<1> QED BY <1>2, <1>3

LEMMA SdioSyncStep ==
  ASSUME CardInv, sdioSync
  PROVE  CardStep
<1>1. bus # "SPI" /\ NoTransfer /\ last' = Other
  BY DEF sdioSync, Sdio
<1>2. PICK r \in AfterWait(Stopped(now)) : Becomes(r.s) /\ Returns(r.ok)
  BY DEF sdioSync
<1>3. Leaves(r, now) /\ (r.ok => Idle(r.s)) /\ TypeOK
  BY <1>2, StopAfterWait DEF CardInv, IInv
<1>4. bus = "DMA" => r.s.state = "IDLE"
  BY <1>2, DmaIdle, NowCondition DEF CardInv, IInv, Kinds
<1>5. /\ r.ok \in BOOLEAN /\ r.s \in Condition /\ r.s.active = m_spiActive
      /\ r.s.disk = disk /\ (r.ok => r.s.state = "IDLE")
  BY <1>3, NowCondition DEF Leaves, Keeps, Idle
<1>6. CardInv'
  BY <1>1, <1>2, <1>4, <1>5, CallInv
<1>7. disk' = disk
  BY <1>2, <1>5 DEF Becomes
<1> QED BY <1>1, <1>6, <1>7, OtherStep DEF CardStep

LEMMA SdioEraseStep ==
  ASSUME CardInv, NEW a \in Sector, NEW n \in Length(a), sdioErase(a, n)
  PROVE  CardStep
<1>1. /\ n \in Nat \ {0} /\ a + n <= Sectors /\ a \in Nat /\ 0 \in 0 .. Sectors
      /\ n \in 0 .. n
  BY Lengths, SectorsAssumption DEF Sector
<1>2. /\ bus # "SPI" /\ controller # "sending"
      /\ NoTransfer \/ UNCHANGED fifo
  BY DEF sdioErase, Sdio, Waited
<1>3. PICK s \in IF m_state = "IDLE" THEN {Result(TRUE, now)} ELSE AfterWait(Stopped(now)) :
        \E r \in IF s.ok THEN sdioAnswers(s.s, "CMD38", 0) ELSE {s}, d \in Data, ok \in BOOLEAN :
          /\ ok => r.ok
          /\ \/ ~ok /\ Becomes(r.s)
             \/ /\ s.ok /\ r.ok
                /\ Becomes([r.s EXCEPT !.disk = Over(@, a, [i \in 0 .. n - 1 |-> d], n)])
          /\ Returns(ok)
          /\ last' = Erased(a, n, ok)
  BY DEF sdioErase
<1>4. PICK r \in IF s.ok THEN sdioAnswers(s.s, "CMD38", 0) ELSE {s}, d \in Data, ok \in BOOLEAN :
        /\ ok => r.ok
        /\ \/ ~ok /\ Becomes(r.s)
           \/ /\ s.ok /\ r.ok
              /\ Becomes([r.s EXCEPT !.disk = Over(@, a, [i \in 0 .. n - 1 |-> d], n)])
        /\ Returns(ok)
        /\ last' = Erased(a, n, ok)
  BY <1>3
<1>5. Leaves(s, now) /\ (s.ok => Idle(s.s)) /\ (bus = "DMA" => s.s = now)
  <2>1. CASE m_state = "IDLE"
    <3>1. s = Result(TRUE, now)
      BY <1>3, <2>1
    <3> QED BY <2>1, <3>1, NowCondition DEF Result, Leaves, Keeps, Idle, CardInv, IInv
  <2>2. CASE m_state # "IDLE"
    BY <1>3, <2>2, StopAfterWait, DmaIdle DEF CardInv, IInv
  <2> QED BY <2>1, <2>2
<1>6. Leaves(r, s.s) /\ r.s.state = s.s.state
  <2>1. CASE s.ok
    BY <1>1, <1>4, <1>5, <2>1, SdioAnswered DEF Leaves, Keeps
  <2>2. CASE ~s.ok
    <3>1. r = s
      BY <1>4, <2>2
    <3> QED BY <1>5, <3>1 DEF Leaves, Keeps
  <2> QED BY <2>1, <2>2
<1>7. /\ r.s \in Condition /\ r.s.active = m_spiActive /\ r.s.disk = disk
      /\ s.ok => r.s.state = "IDLE"
      /\ bus = "DMA" => r.s.state = "IDLE"
  BY <1>5, <1>6, NowCondition DEF Leaves, Keeps, Idle, CardInv, IInv, Kinds
<1>8. ok => s.ok
  <2>1. CASE ~s.ok
    BY <1>4, <2>1
  <2> QED BY <2>1
<1> DEFINE e == Over(disk, a, [i \in 0 .. n - 1 |-> d], n)
<1>9. e \in [Sector -> Data] /\ disk \in [Sector -> Data]
  <2>1. [i \in 0 .. n - 1 |-> d] \in Blocks(n)
    BY <1>4 DEF Blocks
  <2>2. disk \in [Sector -> Data]
    BY DEF CardInv, IInv, TypeOK
  <2> QED BY <1>1, <2>1, <2>2, OverType
<1> HIDE DEF e
<1>10. CardInv' /\ (disk' = e \/ (~ok /\ disk' = disk))
  <2>1. CASE ~ok /\ Becomes(r.s)
    <3>1. disk' = disk
      BY <1>7, <2>1 DEF Becomes
    <3> QED BY <1>2, <1>4, <1>7, <2>1, <3>1, CallInv
  <2>2. CASE s.ok /\ r.ok /\ Becomes([r.s EXCEPT !.disk = e])
    <3> DEFINE q == [r.s EXCEPT !.disk = e]
    <3>1. /\ q \in Condition /\ q.disk = e /\ q.state = r.s.state
          /\ q.active = r.s.active
      BY <1>7, <1>9 DEF Condition
    <3>2. Becomes(q)
      BY <2>2
    <3> HIDE DEF q
    <3>3. disk' = e
      BY <3>1, <3>2 DEF Becomes
    <3> QED BY <1>2, <1>4, <1>7, <2>2, <3>1, <3>2, <3>3, CallInv
  <2>3. (~ok /\ Becomes(r.s)) \/ (s.ok /\ r.ok /\ Becomes([r.s EXCEPT !.disk = e]))
    BY <1>4, <1>7 DEF e
  <2> QED BY <2>1, <2>2, <2>3
<1>11. DeviceStep
  BY <1>1, <1>4, <1>9, <1>10, ErasedStep DEF e
<1> QED BY <1>10, <1>11 DEF CardStep

(* writeSector in FIFO mode: the block is counted before the card has it. *)
LEMMA FifoWriteStep ==
  ASSUME CardInv, ErrorStands, NEW a \in Sector, NEW d \in Data, fifoWriteSector(a, d)
  PROVE  CardStep
<1>1. a \in Nat /\ a \in 0 .. Sectors /\ a + 1 \in 0 .. Sectors
  BY SectorsAssumption DEF Sector
<1>2. /\ bus = "FIFO" /\ Waited /\ (Retries \/ ~GoesOn("WRITE", a))
      /\ last' = Other /\ TypeOK
  BY DEF fifoWriteSector, Sdio, CardInv, IInv
<1>3. PICK o \in AfterWait(sdioOpened("WRITE", a)) :
        \/ /\ o.ok
           /\ Becomes([o.s EXCEPT !.cur = @ + 1]) /\ Returns(TRUE)
           /\ m_transferActive' = TRUE /\ controller' = "sending"
           /\ block' = [at |-> a, data |-> d]
        \/ Becomes(o.s) /\ Returns(FALSE) /\ NoTransfer
  BY DEF fifoWriteSector
<1>4. /\ o.ok \in BOOLEAN /\ o.s \in Condition /\ o.s.active = m_spiActive /\ o.s.disk = disk
      /\ o.ok => o \in sdioOpened("WRITE", a) /\ Complete /\ o.s.state = "WRITE" /\ o.s.cur = a
  <2>1. CASE Complete
    <3>1. o \in sdioOpened("WRITE", a)
      BY <1>3, <2>1 DEF AfterWait
    <3>2. Leaves(o, [now EXCEPT !.cur = o.s.cur]) /\ (o.ok => o.s.state = "WRITE" /\ o.s.cur = a)
      BY <1>1, <1>2, <3>1, SdioOpened
    <3> QED BY <1>2, <2>1, <3>1, <3>2, NowCondition DEF Leaves, Keeps, Condition
  <2>2. CASE ~Complete
    <3>1. o = Result(FALSE, now)
      BY <1>3, <2>2 DEF AfterWait
    <3> QED BY <1>2, <3>1, NowCondition DEF Result
  <2> QED BY <2>1, <2>2
<1>5. CASE Becomes(o.s) /\ Returns(FALSE) /\ NoTransfer
  <2>1. CardInv'
    BY <1>2, <1>4, <1>5, CallInv
  <2>2. disk' = disk
    BY <1>4, <1>5 DEF Becomes
  <2> QED BY <1>2, <2>1, <2>2, OtherStep DEF CardStep
<1>6. CASE /\ o.ok
           /\ Becomes([o.s EXCEPT !.cur = @ + 1]) /\ Returns(TRUE)
           /\ m_transferActive' = TRUE /\ controller' = "sending"
           /\ block' = [at |-> a, data |-> d]
  <2> DEFINE s == [o.s EXCEPT !.cur = @ + 1]
  <2>1. /\ s \in Condition /\ s.cur = a + 1 /\ s.state = "WRITE" /\ s.active = m_spiActive
        /\ s.disk = disk /\ s.card = o.s.card /\ s.next = o.s.next
    BY <1>1, <1>4, <1>6 DEF Condition
  <2>2. Becomes(s)
    BY <1>6
  <2> HIDE DEF s
  <2>3. /\ m_state' = "WRITE" /\ m_curSector' = a + 1 /\ m_spiActive' = m_spiActive
        /\ card' = o.s.card /\ next' = o.s.next /\ disk' = disk
    BY <2>1, <2>2 DEF Becomes
  <2>4. /\ bus' = bus /\ raw' = raw /\ m_dedicatedSpi' = m_dedicatedSpi /\ begun' = begun
        /\ unsure' = FALSE /\ lost' = lost
    BY <1>6 DEF Returns, CardInv, CardTypeOK
  <2>5. Away(s) /\ raw = NoStream
    BY <1>2, <2>1 DEF Away, CardInv, Kinds, TypeOK
  <2>6. IInv'
    <3>1. m_dedicatedSpi' \in BOOLEAN /\ begun' \in BOOLEAN /\ raw' \in StreamType
      BY <1>2, <2>4 DEF TypeOK, StreamType, Direction
    <3> QED BY <2>1, <2>2, <2>5, <3>1, AwayInv
  <2>7. CardTypeOK'
    BY <1>6, <2>4 DEF CardInv, CardTypeOK
  <2>8. Kinds' /\ Sending'
    BY <1>2, <1>6, <2>3, <2>4, <2>5 DEF Kinds, Sending, CardInv
  <2>9. Sure'
    <3>1. ~Retries /\ o.s.card # "off" => o.s.card = "receiving" /\ o.s.next = a
      BY <1>2, <1>4, <1>6, OpenAgrees
    <3>2. ~Retries => SdioAgrees'
      BY <1>1, <1>6, <2>3, <3>1 DEF SdioAgrees
    <3> QED BY <2>4, <3>2 DEF Sure
  <2> QED BY <1>2, <2>3, <2>6, <2>7, <2>8, <2>9, OtherStep DEF CardStep, CardInv
<1> QED BY <1>3, <1>5, <1>6

(* The controller stores its block where the call wanted it. *)
LEMMA BlockDoneStep ==
  ASSUME CardInv, BlockDone
  PROVE  CardStep
<1> DEFINE src == [i \in {0} |-> block.data]
<1>1. /\ controller = "sending" /\ bus = "FIFO" /\ TypeOK /\ m_state = "WRITE"
      /\ block.at \in Sector /\ m_curSector = block.at + 1 /\ raw = NoStream
      /\ m_spiActive = FALSE /\ block \in [at : Sector, data : Data]
  BY DEF BlockDone, CardInv, IInv, CardTypeOK, Kinds, Sending, TypeOK
<1>2. src \in Blocks(1) /\ 1 \in Nat \ {0} /\ block.at \in Nat /\ block.at + 1 <= Sectors
  <2>1. 0 .. 1 - 1 = {0}
    OBVIOUS
  <2> QED BY <1>1, <2>1, SectorsAssumption DEF Blocks, Sector
<1>3. PICK ok \in BOOLEAN, k \in 0 .. 1 :
        /\ Passes(now, "receiving", k) /\ (ok => k = 1)
        /\ Becomes(Stored(now, src, k))
        /\ controller' = IF ok THEN "done" ELSE "error"
        /\ lost' = (lost \/ ~ok)
        /\ last' = Wrote(block.at, 1, src, ok)
  BY DEF BlockDone
<1>4. /\ m_dedicatedSpi' = m_dedicatedSpi /\ begun' = begun /\ raw' = raw /\ bus' = bus
      /\ m_transferActive' = m_transferActive /\ block' = block /\ unsure' = unsure
  BY DEF BlockDone
<1> HIDE DEF src
<1> DEFINE s == Stored(now, src, k)
<1>5. /\ s \in Condition /\ s.state = m_state /\ s.cur = m_curSector /\ s.active = m_spiActive
      /\ s.card = card /\ s.next = next + k /\ s.disk = Over(disk, next, src, k)
      /\ \A t \in Sector : t \notin next .. (next + 1 - 1) => s.disk[t] = disk[t]
      /\ k = 0 => s.disk = disk
      /\ k > 0 => card = "receiving"
  <2>1. now \in Condition
    BY <1>1, NowCondition
  <2> QED BY <1>1, <1>2, <1>3, <2>1, NowCondition, StoredBlocks
<1>6. Becomes(s)
  BY <1>3
<1> HIDE DEF s
<1>7. /\ m_state' = m_state /\ m_curSector' = m_curSector /\ m_spiActive' = m_spiActive
      /\ card' = card /\ next' = next + k /\ disk' = s.disk
  BY <1>5, <1>6 DEF Becomes
<1>8. ~Retries /\ card # "off" => card = "receiving" /\ next = block.at /\ ~unsure
  <2>1. next \in Nat
    BY <1>1, SectorsAssumption DEF TypeOK
  <2>2. ~Retries => SdioAgrees /\ ~unsure
    BY <1>1 DEF CardInv, Sure
  <2> QED BY <1>1, <1>2, <2>1, <2>2 DEF SdioAgrees
<1>9. IInv'
  <2>1. Away(s) /\ m_dedicatedSpi' \in BOOLEAN /\ begun' \in BOOLEAN /\ raw' \in StreamType
    BY <1>1, <1>4, <1>5 DEF Away, TypeOK, StreamType, Direction
  <2> QED BY <1>5, <1>6, <2>1, AwayInv
<1>10. CardTypeOK'
  BY <1>3, <1>4 DEF CardInv, CardTypeOK
<1>11. Kinds' /\ Sending'
  BY <1>1, <1>3, <1>4, <1>7 DEF CardInv, Kinds, Sending
<1>12. Sure'
  <2>1. ok => k = 1 /\ card = "receiving"
    BY <1>3, <1>5
  <2>2. ~Retries => SdioAgrees'
    BY <1>1, <1>2, <1>3, <1>4, <1>7, <1>8, <2>1 DEF SdioAgrees
  <2> QED BY <1>3, <2>2 DEF Sure
<1>13. ~Retries => DeviceStep
  <2> SUFFICES ASSUME ~Retries PROVE DeviceStep
    OBVIOUS
  <2>1. k = 0 \/ (k = 1 /\ next = block.at)
    BY <1>3, <1>5, <1>8
  <2>2. \A t \in Sector : t \notin block.at .. (block.at + 1 - 1) => disk'[t] = disk[t]
    BY <1>5, <1>7, <2>1
  <2>3. ok => disk' = Over(disk, block.at, src, 1)
    BY <1>3, <1>5, <1>7, <2>1
  <2> QED BY <1>1, <1>2, <1>3, <2>2, <2>3, WriteStep
<1> QED BY <1>9, <1>10, <1>11, <1>12, <1>13 DEF CardStep, CardInv

(* DMA mode: each call is a transfer of its own. *)
LEMMA EndsTransfer ==
  ASSUME NEW s \in Condition
  PROVE  /\ Ends(s) \in Condition /\ Ends(s).state = s.state /\ Ends(s).active = s.active
         /\ Ends(s).disk = s.disk
<1>1. "ready" \in CardState /\ 0 \in 0 .. Sectors
  BY SectorsAssumption DEF CardState
<1> QED BY <1>1 DEF Ends, Condition

LEMMA DmaReadStep ==
  ASSUME CardInv, NEW a \in Sector, NEW n \in Length(a), dmaReadSectors(a, n)
  PROVE  CardStep
<1>1. n \in Nat \ {0} /\ a + n <= Sectors /\ a \in Nat /\ a \in 0 .. Sectors
  BY Lengths, SectorsAssumption DEF Sector
<1>2. /\ bus = "DMA" /\ UNCHANGED fifo /\ controller # "sending" /\ m_state = "IDLE"
      /\ TypeOK
  BY DEF dmaReadSectors, Sdio, Waited, CardInv, Kinds, IInv
<1>3. PICK r \in sdioAnswers(now, "CMD18", a) :
        \/ /\ r.ok /\ Passes(r.s, "sending", n)
           /\ Becomes(Ends(r.s)) /\ Returns(TRUE)
           /\ last' = ReadOf(a, n, [r.s EXCEPT !.next = @ + n])
        \/ \E k \in 0 .. n :
             /\ k > 0 => r.ok /\ Passes(r.s, "sending", k)
             /\ \E t \in {[r.s EXCEPT !.next = @ + k], Ends(r.s)} :
                  Becomes(IF r.ok THEN t ELSE r.s)
             /\ Returns(FALSE) /\ last' = Other
  BY DEF dmaReadSectors
<1>4. /\ r.s \in Condition /\ r.s.state = "IDLE" /\ r.s.active = m_spiActive /\ r.s.disk = disk
      /\ r.ok => r.s.next = a
  BY <1>1, <1>2, <1>3, NowCondition, SdioAnswered DEF Leaves, Keeps, AtStart
<1>5. CASE /\ r.ok /\ Passes(r.s, "sending", n)
           /\ Becomes(Ends(r.s)) /\ Returns(TRUE)
           /\ last' = ReadOf(a, n, [r.s EXCEPT !.next = @ + n])
  <2>1. /\ Ends(r.s) \in Condition /\ Ends(r.s).state = "IDLE"
        /\ Ends(r.s).active = m_spiActive /\ Ends(r.s).disk = disk
    BY <1>4, EndsTransfer
  <2>2. CardInv'
    BY <1>2, <1>5, <2>1, CallInv
  <2>3. disk' = disk
    BY <1>5, <2>1 DEF Becomes
  <2>4. /\ last'.call = "read" /\ last'.at = a /\ last'.n = n
        /\ last'.data = [i \in 0 .. n - 1 |-> disk[a + i]]
    <3> DEFINE q == [r.s EXCEPT !.next = @ + n]
    <3>1. q.next = a + n
      BY <1>4, <1>5 DEF Condition
    <3>2. last' = ReadOf(a, n, q)
      BY <1>5
    <3> HIDE DEF q
    <3>3. \A i \in 0 .. n - 1 : q.next - n + i = a + i
      BY <1>1, <3>1
    <3> QED BY <3>2, <3>3 DEF ReadOf
  <2> QED BY <2>2, <2>3, <2>4 DEF CardStep, DeviceStep, Device!Next, Device!Read
<1>6. ASSUME NEW k \in 0 .. n,
             k > 0 => r.ok /\ Passes(r.s, "sending", k),
             NEW t \in {[r.s EXCEPT !.next = @ + k], Ends(r.s)},
             Becomes(IF r.ok THEN t ELSE r.s),
             Returns(FALSE), last' = Other
      PROVE  CardStep
  <2>1. r.s.next + k \in 0 .. Sectors
    BY <1>4, <1>6, SectorsAssumption DEF Passes, Condition
  <2>2. /\ t \in Condition /\ t.state = "IDLE" /\ t.active = m_spiActive /\ t.disk = disk
    <3>1. CASE t = [r.s EXCEPT !.next = @ + k]
      BY <1>4, <2>1, <3>1 DEF Condition
    <3>2. CASE t = Ends(r.s)
      BY <1>4, <3>2, EndsTransfer
    <3> QED BY <1>6, <3>1, <3>2
  <2>3. PICK q : q = (IF r.ok THEN t ELSE r.s)
    OBVIOUS
  <2>4. /\ q \in Condition /\ q.state = "IDLE" /\ q.active = m_spiActive /\ q.disk = disk
    BY <1>4, <2>2, <2>3
  <2>5. CardInv'
    BY <1>2, <1>6, <2>3, <2>4, CallInv
  <2>6. disk' = disk
    BY <1>6, <2>3, <2>4 DEF Becomes
  <2> QED BY <1>6, <2>5, <2>6, OtherStep DEF CardStep
<1> QED BY <1>3, <1>5, <1>6

LEMMA DmaWriteStep ==
  ASSUME CardInv, NEW a \in Sector, NEW n \in Length(a), NEW src \in Blocks(n),
         dmaWriteSectors(a, n, src)
  PROVE  CardStep
<1>1. n \in Nat \ {0} /\ a + n <= Sectors /\ a \in Nat /\ a \in 0 .. Sectors /\ n \in 0 .. n
  BY Lengths, SectorsAssumption DEF Sector
<1>2. /\ bus = "DMA" /\ UNCHANGED fifo /\ controller # "sending" /\ m_state = "IDLE"
      /\ TypeOK
  BY DEF dmaWriteSectors, Sdio, Waited, CardInv, Kinds, IInv
<1>3. PICK r \in sdioAnswers(now, "CMD25", a) :
        \/ /\ r.ok /\ Passes(r.s, "receiving", n)
           /\ Becomes(Ends(Stored(r.s, src, n))) /\ Returns(TRUE)
           /\ last' = Wrote(a, n, src, TRUE)
        \/ \E k \in 0 .. n :
             /\ k > 0 => r.ok /\ Passes(r.s, "receiving", k)
             /\ \E t \in {Stored(r.s, src, k), Ends(Stored(r.s, src, k))} :
                  Becomes(IF r.ok THEN t ELSE r.s)
             /\ Returns(FALSE) /\ last' = Wrote(a, n, src, FALSE)
  BY DEF dmaWriteSectors
<1>4. /\ r.s \in Condition /\ r.s.state = "IDLE" /\ r.s.active = m_spiActive /\ r.s.disk = disk
      /\ r.ok => r.s.next = a
  BY <1>1, <1>2, <1>3, NowCondition, SdioAnswered DEF Leaves, Keeps, AtStart
<1>5. ASSUME NEW k \in 0 .. n, r.ok, Passes(r.s, "receiving", k)
      PROVE  /\ Stored(r.s, src, k) \in Condition
             /\ Stored(r.s, src, k).state = "IDLE" /\ Stored(r.s, src, k).active = m_spiActive
             /\ Stored(r.s, src, k).disk = Over(disk, a, src, k)
             /\ \A x \in Sector : x \notin a .. (a + n - 1) =>
                  Stored(r.s, src, k).disk[x] = disk[x]
  BY <1>1, <1>4, <1>5, StoredBlocks
<1>6. CASE /\ r.ok /\ Passes(r.s, "receiving", n)
           /\ Becomes(Ends(Stored(r.s, src, n))) /\ Returns(TRUE)
           /\ last' = Wrote(a, n, src, TRUE)
  <2> DEFINE s == Stored(r.s, src, n)
  <2>1. /\ s \in Condition /\ s.state = "IDLE" /\ s.active = m_spiActive
        /\ s.disk = Over(disk, a, src, n)
        /\ \A x \in Sector : x \notin a .. (a + n - 1) => s.disk[x] = disk[x]
    BY <1>1, <1>5, <1>6
  <2>2. Becomes(Ends(s))
    BY <1>6
  <2> HIDE DEF s
  <2>3. /\ Ends(s) \in Condition /\ Ends(s).state = "IDLE"
        /\ Ends(s).active = m_spiActive /\ Ends(s).disk = s.disk
    BY <2>1, EndsTransfer
  <2>4. CardInv'
    BY <1>2, <1>6, <2>2, <2>3, CallInv
  <2>5. disk' = s.disk
    BY <2>2, <2>3 DEF Becomes
  <2>6. DeviceStep
    BY <1>1, <1>6, <2>1, <2>5, WriteStep
  <2> QED BY <2>4, <2>6 DEF CardStep
<1>7. ASSUME NEW k \in 0 .. n,
             k > 0 => r.ok /\ Passes(r.s, "receiving", k),
             NEW t \in {Stored(r.s, src, k), Ends(Stored(r.s, src, k))},
             Becomes(IF r.ok THEN t ELSE r.s),
             Returns(FALSE), last' = Wrote(a, n, src, FALSE)
      PROVE  CardStep
  <2>1. PICK q : q = (IF r.ok THEN t ELSE r.s)
    OBVIOUS
  <2>2. /\ q \in Condition /\ q.state = "IDLE" /\ q.active = m_spiActive
        /\ \A x \in Sector : x \notin a .. (a + n - 1) => q.disk[x] = disk[x]
    <3>1. CASE r.ok
      <4>1. Passes(r.s, "receiving", k)
        BY <1>7 DEF Passes
      <4>2. /\ t \in Condition /\ t.state = "IDLE" /\ t.active = m_spiActive
            /\ \A x \in Sector : x \notin a .. (a + n - 1) => t.disk[x] = disk[x]
        <5> DEFINE s == Stored(r.s, src, k)
        <5>1. /\ s \in Condition /\ s.state = "IDLE" /\ s.active = m_spiActive
              /\ \A x \in Sector : x \notin a .. (a + n - 1) => s.disk[x] = disk[x]
          BY <1>5, <3>1, <4>1
        <5>2. t = s \/ t = Ends(s)
          BY <1>7
        <5> HIDE DEF s
        <5>3. /\ Ends(s) \in Condition /\ Ends(s).state = s.state /\ Ends(s).active = s.active
              /\ Ends(s).disk = s.disk
          BY <5>1, EndsTransfer
        <5> QED BY <5>1, <5>2, <5>3
      <4> QED BY <2>1, <3>1, <4>2
    <3>2. CASE ~r.ok
      BY <1>4, <2>1, <3>2
    <3> QED BY <3>1, <3>2
  <2>3. CardInv'
    BY <1>2, <1>7, <2>1, <2>2, CallInv
  <2>4. disk' = q.disk
    BY <1>7, <2>1 DEF Becomes
  <2>5. DeviceStep
    BY <1>1, <1>7, <2>2, <2>4, WriteStep
  <2> QED BY <2>3, <2>5 DEF CardStep
<1> QED BY <1>3, <1>6, <1>7

-----------------------------------------------------------------------------
(* The calls that are the same for every driver.                           *)
LEMMA SpiCallStep ==
  ASSUME CardInv, SpiCall
  PROVE  CardStep
<1>1. IInv' /\ DeviceStep
  BY NextIInv DEF SpiCall, CardInv
<1>2. /\ bus = "SPI" /\ bus' = bus /\ m_transferActive' = m_transferActive
      /\ controller' = controller /\ block' = block /\ unsure' = unsure /\ lost' = lost
  BY DEF SpiCall, sdio, fifo
<1>3. controller = "free"
  BY <1>2 DEF CardInv, Kinds
<1> QED BY <1>1, <1>2, <1>3
        DEF CardStep, CardInv, CardTypeOK, Kinds, Sending, Sure, SdioAgrees

LEMMA SdioPowerLossStep ==
  ASSUME CardInv, sdioPowerLoss
  PROVE  CardStep
<1>1. IInv' /\ DeviceStep
  BY PowerLossStep DEF sdioPowerLoss, CardInv
<1>2. /\ bus # "SPI" /\ bus' = bus /\ m_transferActive' = m_transferActive
      /\ controller' = controller /\ block' = block /\ unsure' = unsure /\ lost' = lost
      /\ m_state' = m_state /\ m_curSector' = m_curSector /\ m_spiActive' = m_spiActive
      /\ raw' = raw /\ card' = "off"
  BY DEF sdioPowerLoss, PowerLoss, driver, sdio, fifo
<1> QED BY <1>1, <1>2
        DEF CardStep, CardInv, CardTypeOK, Kinds, Sending, Sure, SdioAgrees

LEMMA SdioBeginStep ==
  ASSUME CardInv, sdioBegin
  PROVE  CardStep
<1>1. bus # "SPI" /\ raw = NoStream /\ raw' = raw /\ last' = Other
  BY DEF sdioBegin, CardInv, Kinds
<1>2. begin
  BY <1>1 DEF sdioBegin, begin
<1>3. IInv' /\ DeviceStep
  BY <1>2, BeginStep DEF CardInv
<1>4. m_state' = "IDLE" /\ m_spiActive' = FALSE
  BY DEF sdioBegin, BeginFails, BeginSucceeds, Becomes, now
<1>5. /\ bus' = bus /\ m_transferActive' = m_transferActive /\ block' = block
      /\ lost' = lost /\ controller' = "free" /\ unsure' = FALSE
  BY DEF sdioBegin
<1> QED BY <1>1, <1>3, <1>4, <1>5
        DEF CardStep, CardInv, CardTypeOK, Kinds, Sending, Sure, SdioAgrees

LEMMA SdioEndStep ==
  ASSUME CardInv, sdioEnd
  PROVE  CardStep
<1>1. /\ m_state' = m_state /\ m_curSector' = m_curSector /\ m_spiActive' = m_spiActive
      /\ m_dedicatedSpi' = m_dedicatedSpi /\ raw' = raw /\ card' = card /\ next' = next
      /\ disk' = disk /\ begun' = FALSE /\ last' = Other
      /\ bus' = bus /\ m_transferActive' = m_transferActive
      /\ controller' = controller /\ block' = block /\ unsure' = unsure /\ lost' = lost
  BY DEF sdioEnd, driver, sdio, fifo
<1>2. IInv'
  BY <1>1 DEF CardInv, IInv, TypeOK, StreamAgrees, BusReleased
<1>3. CardInv'
  BY <1>1, <1>2 DEF CardInv, CardTypeOK, Kinds, Sending, Sure, SdioAgrees
<1> QED BY <1>1, <1>3, OtherStep DEF CardStep

LEMMA CardStutter ==
  ASSUME CardInv, UNCHANGED cardVars
  PROVE  CardStep
<1>1. IInv' /\ DeviceStep
  BY NextIInv DEF CardInv, cardVars
<1> QED BY <1>1
        DEF cardVars, vars, driver, sdio, fifo, CardStep, CardInv, CardTypeOK, Kinds, Sending,
            Sure, SdioAgrees

LEMMA CardNextStep ==
  ASSUME CardInv, ErrorStands, [CardNext]_cardVars
  PROVE  CardStep
<1>1. CASE SpiCall \/ sdioPowerLoss \/ sdioBegin \/ sdioEnd \/ sdioSync \/ BlockDone
  BY <1>1, SpiCallStep, SdioPowerLossStep, SdioBeginStep, SdioEndStep, SdioSyncStep,
     BlockDoneStep
<1>2. ASSUME NEW a \in Sector,
             \/ \E d \in Data : fifoWriteSector(a, d)
             \/ \E n \in Length(a) :
                  \/ sdioReadSectors(a, n)
                  \/ dmaReadSectors(a, n)
                  \/ sdioErase(a, n)
                  \/ \E src \in Blocks(n) :
                       \/ pioWriteSectors(a, n, src)
                       \/ dmaWriteSectors(a, n, src)
      PROVE  CardStep
  BY <1>2, FifoWriteStep, SdioReadStep, DmaReadStep, SdioEraseStep, PioWriteStep, DmaWriteStep
<1>3. CASE UNCHANGED cardVars
  BY <1>3, CardStutter
<1> QED BY <1>1, <1>2, <1>3 DEF CardNext

-----------------------------------------------------------------------------
(* A block that the card did not take, after writeSector() had returned    *)
(* true, is reported by a later call: m_transferActive stays set, through  *)
(* begin() too, until a call has failed (waitTransferComplete).            *)
THEOREM LateErrorReported == CardSpec => []ErrorsReported
<1>1. CardInit => ErrorStands
  BY DEF CardInit, ErrorStands
<1>2. ErrorStands /\ [CardNext]_cardVars => ErrorStands'
  BY NextStands
<1>3. ErrorStands => ErrorsReported
  BY DEF ErrorStands, ErrorsReported
<1> QED BY <1>1, <1>2, <1>3, PTL DEF CardSpec

AllInv == CardInv /\ ErrorStands

LEMMA AllInvariant == CardSpec => []AllInv
<1>1. CardInit => AllInv
  BY InitCardInv DEF AllInv, CardInit, ErrorStands
<1>2. AllInv /\ [CardNext]_cardVars => AllInv'
  BY CardNextStep, NextStands DEF AllInv, CardStep
<1> QED BY <1>1, <1>2, PTL DEF CardSpec

(* Over any of the drivers m_curSector stays on the card or just behind    *)
(* it, also for a program that goes on with transfers that failed.         *)
THEOREM CardTypeCorrect == CardSpec => []TypeOK
<1>1. AllInv => TypeOK
  BY DEF AllInv, CardInv, IInv
<1> QED BY <1>1, AllInvariant, PTL

(* SdSpiCard keeps to its promises inside SdCard: what the SDIO drivers do *)
(* never selects the card.                                                 *)
THEOREM CardTransferAgrees == CardSpec => []StreamAgrees /\ []BusReleased
<1>1. AllInv => StreamAgrees /\ BusReleased
  BY DEF AllInv, CardInv, IInv
<1> QED BY <1>1, AllInvariant, PTL

(* Between two calls of PioSdioCard or TeensySdioCard the card is at the   *)
(* transfer and the sector that m_curState and m_curSector name, so that   *)
(* readSectors and writeSectors may go on without a command - for programs *)
(* that do not go on with a transfer that failed.                          *)
THEOREM SdioTransferAgrees == ~Retries /\ CardSpec => []SdioAgrees
<1>1. AllInv /\ ~Retries => SdioAgrees
  BY DEF AllInv, CardInv, Sure
<1>2. CASE Retries
  BY <1>2
<1>3. CASE ~Retries
  <2>1. AllInv => SdioAgrees
    BY <1>1, <1>3
  <2> QED BY <2>1, AllInvariant, PTL
<1> QED BY <1>2, <1>3

(* Whatever driver SdCardFactory chose, the file system code has a block   *)
(* device: a call that reports success did it to the sectors asked for,    *)
(* and no call changes another sector; a block that the controller still   *)
(* has is stored where its write wanted it.                                *)
THEOREM CardImplementsBlockDevice == ~Retries /\ CardSpec => DeviceSpec
<1>1. CardInit => Device!Init
  BY DEF CardInit, Init, Device!Init, Sector, Other
<1>2. ~Retries /\ AllInv /\ [CardNext]_cardVars => [Device!Next]_<<disk, last>>
  BY CardNextStep DEF AllInv, CardStep, DeviceStep
<1>3. CASE Retries
  BY <1>3
<1>4. CASE ~Retries
  <2>1. AllInv /\ [CardNext]_cardVars => [Device!Next]_<<disk, last>>
    BY <1>2, <1>4
  <2> QED BY <1>1, <2>1, AllInvariant, PTL DEF CardSpec, DeviceSpec, Device!Spec
<1> QED BY <1>3, <1>4
=============================================================================
