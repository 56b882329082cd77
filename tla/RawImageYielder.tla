--------------------------- MODULE RawImageYielder ---------------------------
(***************************************************************************)
(* GstreamerRawImageYielder (gstreamer/gstreamer_raw_image_yielder.cc): a   *)
(* GstreamerRunner that decodes what it is fed and gives images, and an EOS *)
(* when it is done, to a callback.  Images come in the pipeline's thread,   *)
(* the EOS in that of the caller of SignalEOS or of the destructor.         *)
(*                                                                          *)
(* One yielder and its runner, beside the runners of other users.           *)
(***************************************************************************)
EXTENDS GstreamerRunner

CONSTANTS gstreamer_runner_,  \* the yielder's runner
          MaxSignals          \* bound: calls of SignalEOS

ASSUME YielderAssumption == gstreamer_runner_ \in WithAppsrc \cap WithAppsink
ASSUME SignalsAssumption == MaxSignals \in Nat \ {0}

VARIABLES
    eos_signaled_,
    eos_given   \* number of times that the callback was given an EOS

yielder_vars == <<vars, eos_signaled_, eos_given>>

YielderInit ==
    /\ Init
    /\ eos_signaled_ = FALSE
    /\ eos_given = 0

\* The Feed of a yielder looks at eos_signaled_ first.
YielderFeed(r) ==
    /\ r = gstreamer_runner_ => ~eos_signaled_
    /\ Feed(r)

\* Mutant: the EOS is given to the callback before the runner is destroyed.
SignalEOSFirst ==
    /\ ~eos_signaled_
    /\ eos_signaled_' = TRUE
    /\ eos_given' = eos_given + 1
    /\ Finalize(gstreamer_runner_)

\* SignalEOS, or the destructor, begins with the destruction of the runner.
SignalEOS ==
    /\ ~eos_signaled_
    /\ eos_signaled_' = TRUE
    /\ Finalize(gstreamer_runner_)
    /\ UNCHANGED eos_given

GiveEos ==
    /\ eos_given' = eos_given + 1
    /\ UNCHANGED vars

\* The runner is gone; SignalEOS goes on with the callback.
DeliverEos ==
    /\ eos_signaled_ /\ At(gstreamer_runner_, "destroyed") /\ eos_given = 0
    /\ GiveEos /\ UNCHANGED eos_signaled_

\* Initialize fails: Create destroys the yielder, which has no runner.
CreateFailsWithEos ==
    /\ ~eos_signaled_ /\ At(gstreamer_runner_, "failed")
    /\ eos_signaled_' = TRUE
    /\ GiveEos

\* A second call: there is no runner any more, and another EOS.
SignalEOSAgain ==
    /\ eos_given \in 1 .. MaxSignals - 1 /\ At(gstreamer_runner_, "destroyed")
    /\ GiveEos /\ UNCHANGED eos_signaled_

\* The lambda around the user's callback always returns OK.
YieldImage == CallbackReturns(gstreamer_runner_) /\ UNCHANGED <<eos_signaled_, eos_given>>

Yielder ==
    SignalEOS \/ DeliverEos \/ CreateFailsWithEos \/ SignalEOSAgain \/ YieldImage

OtherRunner(r) == Finalize(r) \/ Sink(r)

YielderNext ==
    /\ Alive
    /\ \/ Yielder
       \/ /\ \/ \E r \in Runners : YielderFeed(r) \/ Create(r) \/ Source(r) \/ ElementFails(r) \/ Runs(r)
             \/ \E r \in Runners \ {gstreamer_runner_} : OtherRunner(r)
          /\ UNCHANGED <<eos_signaled_, eos_given>>

YielderSpec == YielderInit /\ [][YielderNext]_yielder_vars

FairYielderSpec ==
    /\ YielderSpec
    /\ \A r \in Runners :
          WF_yielder_vars(Progress(r) /\ UNCHANGED <<eos_signaled_, eos_given>>)

-----------------------------------------------------------------------------
(* Properties.                                                              *)

\* A yielder implements ImageYielder: no image comes after the EOS, in spite of
\* the two threads that deliver them, and none comes twice or out of order.
Promise == INSTANCE ImageYielder WITH
    fed <- entered[gstreamer_runner_], yielded <- delivered[gstreamer_runner_],
    ended <- eos_given > 0

ImplementsImageYielder == Promise!Spec
=============================================================================
