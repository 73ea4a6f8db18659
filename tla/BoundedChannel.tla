--------------------------- MODULE BoundedChannel ---------------------------
(***************************************************************************)
(* What the credit flow control promises: a lossless first-in first-out    *)
(* channel of chunks numbered 0, 1, 2, ... that never holds more than       *)
(* capacity chunks.  Chunks enter one at a time and leave in batches, in   *)
(* the order in which they entered.                                        *)
(***************************************************************************)
EXTENDS Naturals, Sequences

VARIABLES
  capacity,   \* how many chunks the channel may hold; never changes
  sent,       \* how many chunks have entered
  buffer,     \* the chunks inside, oldest first
  received    \* the chunks that have left, in the order they left

chVars == <<capacity, sent, buffer, received>>

Init ==
  /\ capacity \in Nat
  /\ sent = 0
  /\ buffer = <<>>
  /\ received = <<>>

Put ==
  /\ Len(buffer) < capacity
  /\ buffer' = Append(buffer, sent)
  /\ sent' = sent + 1
  /\ UNCHANGED <<capacity, received>>

Get(n) ==
  /\ received' = received \o SubSeq(buffer, 1, n)
  /\ buffer' = SubSeq(buffer, n + 1, Len(buffer))
  /\ UNCHANGED <<capacity, sent>>

Next == Put \/ \E n \in 1..Len(buffer) : Get(n)

Spec == Init /\ [][Next]_chVars
=============================================================================
