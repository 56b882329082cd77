---------------------------- MODULE ImageYielder -----------------------------
(***************************************************************************)
(* What a GstreamerRawImageYielder promises to its callback: images of what *)
(* was fed, in that order, some of them missing, and no image after an EOS. *)
(* An image is the position of its buffer among those fed.                  *)
(***************************************************************************)
EXTENDS Integers, Sequences

VARIABLES fed,     \* number of buffers fed
          yielded, \* images given to the callback
          ended    \* EOS has been given to the callback

Init == fed = 0 /\ yielded = <<>> /\ ended = FALSE

Feed == ~ended /\ fed' = fed + 1 /\ UNCHANGED <<yielded, ended>>

\* The next image is of a later buffer than the last one.
Yield ==
    /\ ~ended
    /\ \E n \in 1 .. fed :
          /\ \A k \in 1 .. Len(yielded) : yielded[k] < n
          /\ yielded' = Append(yielded, n)
    /\ UNCHANGED <<fed, ended>>

SignalEOS == ended' = TRUE /\ UNCHANGED <<fed, yielded>>

Next == Feed \/ Yield \/ SignalEOS

Spec == Init /\ [][Next]_<<fed, yielded, ended>>
=============================================================================
