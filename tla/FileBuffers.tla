---------------------------- MODULE FileBuffers ----------------------------
(***************************************************************************)
(* The three buffers that SdFat puts between a program and a file: RingBuf *)
(* for an interrupt handler, StdioStream for both directions, and          *)
(* BufferedPrint for output.  Each hands data over late, so that it must   *)
(* neither lose nor move what the file did not take at once.  A program    *)
(* has one of them.                                                        *)
(***************************************************************************)
EXTENDS RingBuf

CONSTANTS
  BufSize, UngetSize, Uint8, MaxSize, MaxCall, Careful,     \* StdioStream
  BufDim, MaxPrinted, MaxWritten                            \* BufferedPrint

VARIABLES
  buffer,       \* the one that the program has
  stream, call, known, position, last, wrong, failed,       \* StdioStream
  m_in, written, printed                                    \* BufferedPrint

S == INSTANCE StdioStream
P == INSTANCE BufferedPrint

ASSUME StreamAssumption == S!StreamAssumption
ASSUME PrintAssumption == P!PrintAssumption

streamVars == <<stream, call, known, position, last, wrong, failed>>
printVars == <<m_in, written, printed>>
bufferVars == <<vars, buffer, streamVars, printVars>>

BuffersInit ==
  /\ buffer \in {"RingBuf", "StdioStream", "BufferedPrint"}
  /\ Init /\ S!Init /\ P!Init
  /\ buffer # "StdioStream" => stream.file = <<>>

RingCall == buffer = "RingBuf" /\ Next /\ UNCHANGED <<buffer, streamVars, printVars>>
StreamCall == buffer = "StdioStream" /\ S!Next /\ UNCHANGED <<buffer, vars, printVars>>
PrintCall == buffer = "BufferedPrint" /\ P!Next /\ UNCHANGED <<buffer, vars, streamVars>>
BuffersNext == RingCall \/ StreamCall \/ PrintCall

(* Fairness is that of RingBuf, for a program that has one. *)
BuffersSpec ==
  /\ BuffersInit /\ [][BuffersNext]_bufferVars
  /\ WF_vars(buffer = "RingBuf" /\ Main) /\ SF_vars(buffer = "RingBuf" /\ FileTakes)

-----------------------------------------------------------------------------
(* The buffer and the file of a stream are together the file as the        *)
(* program knows it, its next byte is where the program expects it, and    *)
(* nothing that was printed is lost: see StdioStream and BufferedPrint.    *)
BuffersAgree == S!StreamAgrees /\ P!PrintKeeps
=============================================================================
