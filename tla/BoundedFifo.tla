----------------------------- MODULE BoundedFifo -----------------------------
(***************************************************************************)
(* What a bounded queue promises its users, with no threads, no locks and   *)
(* no waiting: elements leave in the order they entered, each once, and the *)
(* queue never holds more than it may.  A call that gives up (a try that    *)
(* fails, a timeout) is a stuttering step.                                  *)
(***************************************************************************)
EXTENDS Naturals, Sequences

CONSTANTS Items,   \* what can be put into the queue
          Bound    \* the largest number of elements; 0 stands for no bound

VARIABLES buffer,    \* the elements inside, oldest first
          delivered  \* every element taken out, oldest first

vars == <<buffer, delivered>>

Init == buffer = <<>> /\ delivered = <<>>

Put(x) == /\ Bound = 0 \/ Len(buffer) < Bound
          /\ buffer' = Append(buffer, x)
          /\ UNCHANGED delivered

Take == /\ buffer # <<>>
        /\ delivered' = Append(delivered, Head(buffer))
        /\ buffer' = Tail(buffer)

Next == Take \/ \E x \in Items : Put(x)

Spec == Init /\ [][Next]_vars
=============================================================================
