------------------------------ MODULE BoundedFifo ------------------------------
(***************************************************************************)
(* What the users of a bounded queue rely on: elements come out exactly     *)
(* once, in the order they went in, and no more than Capacity of them are   *)
(* ever inside.  A refused call changes nothing, hence is a stuttering step. *)
(***************************************************************************)
EXTENDS Naturals, Sequences

CONSTANTS Values, Capacity

VARIABLES
  queue,      \* the elements inside, oldest first
  delivered   \* the elements handed out, oldest first

Init == queue = <<>> /\ delivered = <<>>

Put(v) == /\ Len(queue) < Capacity
          /\ queue' = Append(queue, v)
          /\ UNCHANGED delivered

Get == /\ queue # <<>>
       /\ delivered' = Append(delivered, Head(queue))
       /\ queue' = Tail(queue)

Next == Get \/ \E v \in Values : Put(v)

Spec == Init /\ [][Next]_<<queue, delivered>>
=============================================================================
