---------------------------- MODULE BoundedFifo ----------------------------
(***************************************************************************)
(* What a buffer between a producer and a consumer promises: items leave   *)
(* in the order they came, none is lost or made up, and the producer is    *)
(* held back while Capacity of them wait.  PlayoutPipe implements it with  *)
(* the ring of the audio device.                                           *)
(***************************************************************************)
EXTENDS Naturals, Sequences

CONSTANTS Item, Capacity

VARIABLE queue

Init == queue = <<>>

Put(x) ==
    /\ Len(queue) < Capacity
    /\ queue' = Append(queue, x)

Take ==
    /\ queue # <<>>
    /\ queue' = Tail(queue)

Next == Take \/ \E x \in Item : Put(x)

Spec == Init /\ [][Next]_queue

=============================================================================
