------------------------------ MODULE ByteFifo ------------------------------
(***************************************************************************)
(* What RingBuf promises its two users: a bounded first-in first-out       *)
(* stream.  Byte number i of the stream is the number i, so "nothing lost, *)
(* nothing invented, nothing out of order" says delivered is 1, 2, 3, ...  *)
(***************************************************************************)
EXTENDS Naturals, Sequences

CONSTANT Size   \* capacity

VARIABLES
  accepted,     \* how many bytes the producer has handed over
  delivered     \* the bytes the consumer has received, in order

Init == accepted = 0 /\ delivered = <<>>

Put(k) ==
  /\ accepted' = accepted + k
  /\ accepted' <= Len(delivered) + Size
  /\ UNCHANGED delivered

Get(k) ==
  /\ Len(delivered) + k <= accepted
  /\ delivered' = delivered \o [i \in 1 .. k |-> Len(delivered) + i]
  /\ UNCHANGED accepted

Next == \E k \in 1 .. Size : Put(k) \/ Get(k)

Spec == Init /\ [][Next]_<<accepted, delivered>>
=============================================================================
