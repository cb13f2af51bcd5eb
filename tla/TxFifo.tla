------------------------------- MODULE TxFifo -------------------------------
(* What the ring of transmit descriptors promises: the frames given to the *)
(* firmware are held once, at most N of them, and leave in the order in    *)
(* which they came; a restart of the driver drops them all.                *)
EXTENDS Naturals, Sequences

CONSTANTS Skb, N

VARIABLE queue

Init == queue = <<>>

Push(f) ==
  /\ Len(queue) < N
  /\ \A i \in 1 .. Len(queue) : queue[i] # f
  /\ queue' = Append(queue, f)

Leave ==
  /\ queue # <<>>
  /\ queue' = Tail(queue)

Drop == queue' = <<>>

Next == (\E f \in Skb : Push(f)) \/ Leave \/ Drop

Spec == Init /\ [][Next]_queue
=============================================================================
