-------------------------------- MODULE Fifo --------------------------------
(***************************************************************************)
(* What a bounded buffer between a producer and a consumer promises:       *)
(* everything that was put in and not dropped comes out, in its order.     *)
(***************************************************************************)
EXTENDS Naturals, Sequences

CONSTANT Capacity

VARIABLE queue

Init == queue = << >>

\* One more at the end, behind what is there.
Put ==
    /\ Len(queue) < Capacity
    /\ Len(queue') = Len(queue) + 1
    /\ \A n \in 1 .. Len(queue) : queue'[n] = queue[n]

Get ==
    /\ queue # << >>
    /\ queue' = Tail(queue)

Drop == queue' = << >>

Next == Put \/ Get \/ Drop

Spec == Init /\ [][Next]_queue
=============================================================================
