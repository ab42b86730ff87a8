---------------------------- MODULE BlockDevice ----------------------------
(***************************************************************************)
(* What the file system code expects of a block device, whatever its       *)
(* driver (src/src/common/FsBlockDeviceInterface.h): a call that succeeds  *)
(* did what was asked to the sectors asked for, and a call that fails      *)
(* touched no other sector.                                                *)
(***************************************************************************)
EXTENDS Integers

CONSTANTS
  Sectors,      \* how many sectors the device has
  Data          \* what a sector may hold

VARIABLES
  disk,         \* the contents of each sector
  last          \* the last call and its result

At(call) == call.at .. (call.at + call.n - 1)

(* The sectors that a call was not about keep their contents. *)
Spares(call) == \A s \in 0 .. Sectors - 1 : s \notin At(call) => disk'[s] = disk[s]

Init == disk \in [0 .. Sectors - 1 -> Data] /\ last = [call |-> "other"]

Read ==
  /\ last'.call = "read"
  /\ last'.data = [i \in 0 .. last'.n - 1 |-> disk[last'.at + i]]
  /\ UNCHANGED disk

Write ==
  /\ last'.call = "write"
  /\ Spares(last')
  /\ last'.ok => \A s \in At(last') : disk'[s] = last'.data[s - last'.at]

Erase ==
  /\ last'.call = "erase"
  /\ Spares(last')
  /\ last'.ok => \E d \in Data : \A s \in At(last') : disk'[s] = d

(* A read that fails, and every call that is about the device, not a sector. *)
Other == last'.call = "other" /\ UNCHANGED disk

Next == Read \/ Write \/ Erase \/ Other

Spec == Init /\ [][Next]_<<disk, last>>
=============================================================================
