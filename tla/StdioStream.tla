---------------------------- MODULE StdioStream ----------------------------
(***************************************************************************)
(* The buffer of src/src/iostream/StdioStream.cpp between a program and a  *)
(* file.  It holds either bytes that were read ahead or bytes that are to  *)
(* be written; m_r and m_w count what is left of each, and a call that     *)
(* finds 0 there turns the buffer round.  The file is external: a transfer *)
(* may fail after a part.                                                  *)
(*                                                                         *)
(* A program follows the rule of fopen(): a positioning call or fflush     *)
(* between output and input, a positioning call or the end of the file     *)
(* between input and output.  After a call that failed it closes the       *)
(* stream.  The error and end-of-file indicators are not followed.         *)
(***************************************************************************)
EXTENDS Integers, Sequences

CONSTANTS
  BufSize,      \* STREAM_BUF_SIZE
  UngetSize,    \* UNGETC_BUF_SIZE
  Uint8,        \* 2^8: m_r and m_w are below it
  MaxSize,      \* bound: bytes in the file
  MaxCall,      \* bound: bytes in one call
  Careful       \* the program keeps away from what the stream does wrong:
                \* see Unmarked, ToEnd and fseek

StreamAssumption ==
  /\ UngetSize \in Nat \ {0} /\ BufSize \in Nat /\ BufSize > UngetSize + 1
  /\ Uint8 \in Nat /\ Uint8 > BufSize
  /\ MaxSize \in Nat /\ MaxCall \in Nat /\ Careful \in BOOLEAN

VARIABLES
  stream,       \* the members, the file and its position: see StreamOK
  call,         \* the call that runs, and its todo, need or num
  (* History variables: what the program knows of the file. *)
  known,      \* its bytes
  position,     \* where the next byte is read or written
  last,         \* the last call: "seek", "read", "unget" or "write"
  wrong,        \* a read or an ungetc did not give what the program knows
  failed        \* a call has failed

history == <<known, position, last, wrong, failed>>
vars == <<stream, call, history>>

Original(i) == i                \* byte number i of the file at the start
Stored(i) == -i                 \* what a program writes as byte number i; nothing is 0
NoCall == [name |-> "none", todo |-> 0]

(* A stream: the members, the file and its position.  Of m_buf it has the  *)
(* bytes from m_p on, or with S_SWR those up to m_p.                       *)
StreamOK(s) ==
  /\ s.m_status \subseteq {"SRD", "SWR", "SRW"} /\ {"SRD", "SWR"} \cap s.m_status # {"SRD", "SWR"}
  /\ s.append \in BOOLEAN
  /\ s.m_r \in 0 .. Uint8 - 1 /\ s.m_w \in 0 .. Uint8 - 1 /\ s.m_p \in 0 .. BufSize
  /\ Len(s.m_buf) <= BufSize /\ Len(s.file) <= MaxSize /\ s.curPosition \in 0 .. Len(s.file)
  /\ \A i \in 1 .. Len(s.file) : s.file[i] \in {Original(i), Stored(i)}

Has(s, flag) == flag \in s.m_status
Ahead(s, k) == [i \in 1 .. k |-> IF i <= Len(s.m_buf) THEN s.m_buf[i] ELSE 0]
Overwritten(f, from, bytes) ==
  SubSeq(f, 1, from) \o bytes \o SubSeq(f, from + Len(bytes) + 1, Len(f))
Least(j, k) == IF j < k THEN j ELSE k

-----------------------------------------------------------------------------
(* The file.  An outcome is what became of a call and the stream after it. *)
Outcome(what, s) == [what |-> what, s |-> s]      \* what: "done", "end" or "error"

FileWrite(s, bytes) ==
  LET from == IF s.append THEN Len(s.file) ELSE s.curPosition
      wrote(j) == [s EXCEPT !.file = Overwritten(@, from, SubSeq(bytes, 1, j)),
                            !.curPosition = from + j]
  IN {Outcome("done", wrote(Len(bytes)))} \cup
     {Outcome("error", wrote(j)) : j \in 0 .. Len(bytes) - 1}

FileRead(s, k) ==
  LET nr == Least(k, Len(s.file) - s.curPosition)
      bytes == SubSeq(s.file, s.curPosition + 1, s.curPosition + nr)
      read == [s EXCEPT !.m_buf = bytes, !.curPosition = @ + nr, !.m_r = nr]
  IN {Outcome(IF nr = 0 THEN "end" ELSE "done", read),
      Outcome("error", [s EXCEPT !.m_r = 0, !.m_buf = <<>>])}

seekSet(s, pos) ==
  IF pos \in 0 .. Len(s.file) THEN Outcome("done", [s EXCEPT !.curPosition = pos])
  ELSE Outcome("refused", s)

(* flushBuf(): writes the buffer, or makes it one for writing. *)
flushBuf(s) ==
  LET emptied == [s EXCEPT !.m_p = 0, !.m_w = BufSize, !.m_buf = <<>>] IN
  CASE Has(s, "SWR") -> FileWrite(emptied, s.m_buf)
    [] ~Has(s, "SWR") /\ Has(s, "SRW") ->
         {Outcome("done", [emptied EXCEPT !.m_status = {"SWR", "SRW"}, !.m_r = 0])}
    [] OTHER -> {Outcome("error", s)}

(* Operators marked "slip" are not used: each is a neighbour's form after  *)
(* a plausible bug.                                                        *)

(* fillBuf(): reads ahead.  In a stream for both it sets S_SRD only after  *)
(* a write.                                                                *)
RoomKept(s) == s                                    \* slip: m_w not reset
NoRoom(s) == [s EXCEPT !.m_w = 0]
forReading(s) ==
  CASE ~Has(s, "SRD") /\ Has(s, "SRW") /\ Has(s, "SWR") ->
         {IF r.what = "done" THEN Outcome("done", NoRoom([r.s EXCEPT !.m_status = {"SRD", "SRW"}]))
                             ELSE r : r \in flushBuf(s)}
    [] ~Has(s, "SRD") /\ ~Has(s, "SRW") -> {Outcome("error", s)}
    [] OTHER -> {Outcome("done", s)}
fillBuf(s) ==
  UNION {IF r.what = "done" THEN FileRead([r.s EXCEPT !.m_p = UngetSize], BufSize - UngetSize)
                            ELSE {r} : r \in forReading(s)}

flushed(s) == IF Has(s, "SWR") THEN flushBuf(s) ELSE {Outcome("done", s)}
ftell(s) ==
  s.curPosition + (IF Has(s, "SRD") THEN -s.m_r ELSE IF Has(s, "SWR") THEN s.m_p ELSE 0)

-----------------------------------------------------------------------------
(* A program gets bytes, or stores some as those that follow. *)
Taken(s, k) ==
  [s EXCEPT !.m_r = @ - k, !.m_p = @ + k, !.m_buf = SubSeq(@, k + 1, Len(@))]
Gets(bytes) ==
  /\ wrong' = (wrong \/ bytes # SubSeq(known, position + 1, position + Len(bytes)))
  /\ position' = position + Len(bytes)
  /\ UNCHANGED known

Following(s) == IF s.append THEN Len(known) ELSE position
NewBytes(s, k) == [i \in 1 .. k |-> Stored(Following(s) + i)]
Put(s, bytes) ==
  [s EXCEPT !.m_buf = @ \o bytes, !.m_p = @ + Len(bytes), !.m_w = @ - Len(bytes)]
Stores(s, k) ==
  /\ Following(s) + k <= MaxSize
  /\ known' = Overwritten(known, Following(s), NewBytes(s, k))
  /\ position' = Following(s) + k

(* What the stream does not do right.  A stream for both that has not been *)
(* written to reads without S_SRD, so that ftell() is off by the bytes     *)
(* read ahead, ungetc() refuses and fflush() drops them; SEEK_CUR adds the *)
(* position twice; flushBuf() of a stream for appending goes to the end of *)
(* the file with nothing to write, too, so that input after output and a   *)
(* seek finds the end; input of a stream for output only, or output of one *)
(* for input only, leaves 255 in m_r or m_w.                               *)
Unmarked(s) == s.m_status = {"SRW"} /\ last \in {"read", "unget"}
ToEnd(s) == s.append /\ Has(s, "SWR") /\ position # Len(known)
Reads(s) == s.m_status \cap {"SRD", "SRW"} # {}
Writes(s) == s.m_status \cap {"SWR", "SRW"} # {}

Idle == call = NoCall /\ ~failed
Open == Idle /\ stream.m_status # {}
MayRead == Open /\ last # "write" /\ (Careful => Reads(stream) /\ ~ToEnd(stream))
MayWrite == Open /\ last \in {"seek", "write"} /\ (Careful => Writes(stream))

(* A call that read ends with outcome r: at the end of the file a program  *)
(* may write without a seek.                                               *)
ReadEnds(what) ==
  /\ last' = IF what = "end" THEN "seek" ELSE "read"
  /\ failed' = (what = "error")

Short(what, pos) == what = "end" /\ pos # Len(known)

fopen(append, m_status, truncates) ==
  /\ Idle /\ stream.m_status = {}
  /\ LET f == IF truncates THEN <<>> ELSE stream.file IN
     /\ stream' = [stream EXCEPT !.m_status = m_status, !.append = append, !.m_r = 0, !.m_w = 0,
                                 !.m_p = 0, !.file = f, !.curPosition = 0]
     /\ known' = f /\ position' = 0
  /\ last' = "seek"
  /\ UNCHANGED <<call, wrong, failed>>

(* The modes "r", "w", "a", and with "+". *)
Modes ==
  {<<FALSE, {"SRD"}, FALSE>>, <<FALSE, {"SWR"}, TRUE>>, <<TRUE, {"SWR"}, FALSE>>} \cup
  {<<FALSE, {"SRW"}, FALSE>>, <<FALSE, {"SRW"}, TRUE>>, <<TRUE, {"SRW"}, FALSE>>}

(* fclose(); the stream is closed whether the call succeeds or not. *)
fclose ==
  /\ call = NoCall /\ stream.m_status # {}
  /\ \E r \in flushed(stream) :
       /\ stream' = [r.s EXCEPT !.m_status = {}, !.m_r = 0, !.m_w = 0, !.m_buf = <<>>]
       /\ known' = IF failed \/ r.what = "error" THEN r.s.file ELSE known
  /\ failed' = FALSE /\ position' = 0 /\ last' = "seek"
  /\ UNCHANGED <<call, wrong>>

(* getc(): m_r-- == 0 ? fillGet() : *m_p++ *)
getc ==
  /\ MayRead
  /\ \E r \in IF stream.m_r = 0 THEN fillBuf([stream EXCEPT !.m_r = Uint8 - 1])
              ELSE {Outcome("done", stream)} :
       /\ ReadEnds(r.what)
       /\ IF r.what = "done"
          THEN stream' = Taken(r.s, 1) /\ Gets(Ahead(r.s, 1))
          ELSE /\ stream' = r.s
               /\ wrong' = (wrong \/ Short(r.what, position))
               /\ UNCHANGED <<known, position>>
  /\ UNCHANGED call

Reading(name, k) ==
  /\ MayRead
  /\ call' = [name |-> name, todo |-> k]
  /\ UNCHANGED <<stream, history>>

(* fread(): one pass of its loop, and what follows it. *)
freadPass ==
  /\ call.name = "fread" /\ call.todo > stream.m_r
  /\ LET k == stream.m_r
         first == Ahead(stream, k) IN
     \E r \in fillBuf([stream EXCEPT !.m_p = @ + k]) :
       /\ stream' = r.s
       /\ wrong' = \/ wrong
                   \/ first # SubSeq(known, position + 1, position + k)
                   \/ Short(r.what, position + k)
       /\ position' = position + k
       /\ IF r.what = "done"
          THEN call' = [call EXCEPT !.todo = @ - k] /\ UNCHANGED <<last, failed>>
          ELSE call' = NoCall /\ ReadEnds(r.what)
  /\ UNCHANGED known

freadEnd ==
  /\ call.name = "fread" /\ call.todo <= stream.m_r
  /\ stream' = Taken(stream, call.todo)
  /\ Gets(Ahead(stream, call.todo))
  /\ call' = NoCall /\ ReadEnds("done")

(* fgets(): a new-line may be anywhere among the bytes. *)
fgetsFill ==
  /\ call.name = "fgets" /\ stream.m_r = 0
  /\ \E r \in fillBuf(stream) :
       /\ stream' = r.s
       /\ IF r.what = "done" THEN UNCHANGED <<call, last, wrong, failed>>
          ELSE /\ call' = NoCall /\ ReadEnds(r.what)
               /\ wrong' = (wrong \/ Short(r.what, position))
  /\ UNCHANGED <<known, position>>

fgetsCopy ==
  /\ call.name = "fgets" /\ stream.m_r > 0
  /\ \E k \in 1 .. Least(stream.m_r, call.todo), newLine \in BOOLEAN :
       /\ newLine \/ k = Least(stream.m_r, call.todo)
       /\ stream' = Taken(stream, k)
       /\ Gets(Ahead(stream, k))
       /\ IF newLine \/ k = call.todo THEN call' = NoCall /\ ReadEnds("done")
          ELSE call' = [call EXCEPT !.todo = @ - k] /\ UNCHANGED <<last, failed>>

(* ungetc() of the byte that was read last. *)
ungetc ==
  /\ Open /\ position > 0 /\ last \in {"read", "unget"}
  /\ Careful => ~Unmarked(stream)
  /\ IF Has(stream, "SRD") /\ stream.m_p > 0
     THEN /\ stream' = [stream EXCEPT !.m_r = @ + 1, !.m_p = @ - 1,
                                      !.m_buf = <<known[position]>> \o @]
          /\ position' = position - 1 /\ last' = "unget"
          /\ UNCHANGED wrong
     ELSE wrong' = (wrong \/ last = "read") /\ UNCHANGED <<stream, position, last>>
  /\ UNCHANGED <<call, known, failed>>

(* putc(): m_w-- == 0 ? flushPut(c) : *m_p++ = c *)
putc ==
  /\ MayWrite
  /\ \E r \in IF stream.m_w = 0 THEN flushBuf([stream EXCEPT !.m_w = Uint8 - 1])
              ELSE {Outcome("done", stream)} :
       IF r.what = "done"
       THEN stream' = Put(r.s, NewBytes(r.s, 1)) /\ Stores(r.s, 1) /\ failed' = failed
       ELSE stream' = r.s /\ failed' = TRUE /\ UNCHANGED <<known, position>>
  /\ last' = "write"
  /\ UNCHANGED <<call, wrong>>

putCRLF ==
  /\ MayWrite
  /\ \E r \in IF stream.m_w < 2 THEN flushBuf(stream) ELSE {Outcome("done", stream)} :
       IF r.what = "done"
       THEN stream' = Put(r.s, NewBytes(r.s, 2)) /\ Stores(r.s, 2) /\ failed' = failed
       ELSE stream' = r.s /\ failed' = TRUE /\ UNCHANGED <<known, position>>
  /\ last' = "write"
  /\ UNCHANGED <<call, wrong>>

(* write() of k bytes, for fwrite, fputs and the print functions. *)
Writing(k) ==
  /\ MayWrite /\ Following(stream) + k <= MaxSize
  /\ call' = [name |-> "write", todo |-> k] /\ last' = "write"
  /\ UNCHANGED <<stream, known, position, wrong, failed>>

writePass ==
  /\ call.name = "write" /\ call.todo > stream.m_w
  /\ LET k == stream.m_w IN
     /\ Stores(stream, k)
     /\ \E r \in flushBuf(Put(stream, NewBytes(stream, k))) :
          /\ stream' = r.s
          /\ failed' = (r.what # "done")
          /\ call' = IF r.what = "done" THEN [call EXCEPT !.todo = @ - k] ELSE NoCall
  /\ UNCHANGED <<last, wrong>>

writeEnd ==
  /\ call.name = "write" /\ call.todo <= stream.m_w
  /\ stream' = Put(stream, NewBytes(stream, call.todo))
  /\ Stores(stream, call.todo)
  /\ call' = NoCall
  /\ UNCHANGED <<last, wrong, failed>>

(* fflush(): an error while S_SRD is set. *)
fflush ==
  /\ Open /\ (Careful => ~Unmarked(stream) /\ ~ToEnd(stream))
  /\ Writes(stream) /\ ~Has(stream, "SRD")
  /\ \E r \in flushBuf(stream), synced \in BOOLEAN :
       /\ stream' = r.s
       /\ failed' = (r.what # "done" \/ ~synced)
  /\ last' = "seek"
  /\ UNCHANGED <<call, known, position, wrong>>

(* fseek(): the file is asked for the position to, the program for want.   *)
(* A position outside the file is refused.                                 *)
Sought(s, origin, offset) ==
  CASE origin = "SEEK_SET" -> offset
    [] origin = "SEEK_CUR" -> s.curPosition + ftell(s) + offset   \* seekCur(pos)
    [] origin = "SEEK_END" -> Len(s.file) + offset
Wanted(origin, offset) ==
  CASE origin = "SEEK_SET" -> offset
    [] origin = "SEEK_CUR" -> position + offset
    [] origin = "SEEK_END" -> Len(known) + offset
fseek(origin, offset) ==
  /\ Open
  /\ Careful /\ origin = "SEEK_CUR" => ftell(stream) = 0 /\ stream.curPosition = 0 /\ ~ToEnd(stream)
  /\ \E r \in flushed(stream) :
       IF r.what # "done"
       THEN stream' = r.s /\ failed' = TRUE /\ UNCHANGED <<position, last>>
       ELSE LET to == seekSet(r.s, Sought(r.s, origin, offset)) IN
            /\ failed' = failed
            /\ IF to.what = "done"
               THEN /\ stream' = [to.s EXCEPT !.m_r = 0, !.m_p = 0, !.m_buf = <<>>]
                    /\ position' = Wanted(origin, offset) /\ last' = "seek"
               ELSE /\ stream' = to.s
                    /\ Careful => ~ToEnd(stream)
                    /\ UNCHANGED <<position, last>>
  /\ UNCHANGED <<call, known, wrong>>

rewind ==
  /\ Open
  /\ \E r \in flushed(stream) :
       IF r.what # "done"
       THEN stream' = r.s /\ failed' = TRUE /\ UNCHANGED <<position, last>>
       ELSE /\ stream' = [r.s EXCEPT !.curPosition = 0, !.m_r = 0, !.m_buf = <<>>]
            /\ position' = 0 /\ last' = "seek" /\ failed' = failed
  /\ UNCHANGED <<call, known, wrong>>

Init ==
  /\ stream \in [m_status : {{}}, append : {FALSE}, m_r : {0}, m_w : {0}, m_p : {0},
                 m_buf : {<<>>}, curPosition : {0},
                 file : {[i \in 1 .. k |-> Original(i)] : k \in 0 .. MaxSize}]
  /\ call = NoCall
  /\ known = stream.file /\ position = 0 /\ last = "seek" /\ wrong = FALSE /\ failed = FALSE

Next ==
  \/ \E m \in Modes : fopen(m[1], m[2], m[3])
  \/ fclose
  \/ getc
  \/ \E k \in 1 .. MaxCall : Reading("fread", k) \/ Reading("fgets", k) \/ Writing(k)
  \/ freadPass
  \/ freadEnd
  \/ fgetsFill
  \/ fgetsCopy
  \/ ungetc
  \/ putc
  \/ putCRLF
  \/ writePass
  \/ writeEnd
  \/ fflush
  \/ \E offset \in -1 .. MaxSize :
       \E origin \in {"SEEK_SET", "SEEK_CUR", "SEEK_END"} : fseek(origin, offset)
  \/ rewind

Spec == Init /\ [][Next]_vars

-----------------------------------------------------------------------------
(* Between any two steps the buffer and the file together are the file as  *)
(* the program knows it, and the next byte is where the program expects    *)
(* it: bytes read ahead are those before the position of the file, bytes   *)
(* to be written belong at it, and every read returned the right ones      *)
(* (fillBuf, flushBuf and everything that calls them, ftell, fclose).      *)
Pending(s) == IF Has(s, "SWR") THEN s.m_buf ELSE <<>>
View(s) == Overwritten(s.file, IF s.append THEN Len(s.file) ELSE s.curPosition, Pending(s))
ReadAhead(s) ==
  /\ s.m_w = 0 /\ s.m_r <= s.curPosition /\ s.m_p + s.m_r <= BufSize
  /\ position = s.curPosition - s.m_r
  /\ s.m_buf = SubSeq(s.file, position + 1, s.curPosition)
ToWrite(s) ==
  /\ s.m_r = 0 /\ s.m_p = Len(s.m_buf) /\ s.m_p + s.m_w \in {0, BufSize}
  /\ \/ position = IF s.append /\ s.m_p > 0 THEN Len(known) ELSE ftell(s)
     \/ s.append /\ call # NoCall
StreamAgrees ==
  /\ StreamOK(stream)
  /\ ~wrong
  /\ ~failed =>
       /\ View(stream) = known
       /\ stream.m_status # {} => IF Has(stream, "SWR") THEN ToWrite(stream) ELSE ReadAhead(stream)
=============================================================================
