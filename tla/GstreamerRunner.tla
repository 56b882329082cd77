--------------------------- MODULE GstreamerRunner ---------------------------
(***************************************************************************)
(* GstreamerRunner (gstreamer/gstreamer_runner.cc): each runner owns a      *)
(* pipeline, a completion signal that the watch on the pipeline's bus sets, *)
(* and a thread with a GLib main loop.                                      *)
(*                                                                          *)
(* All main loops of the process iterate one context, the default one, and  *)
(* GLib lets one thread own it at a time: the messages of a runner's bus    *)
(* are dispatched by the loop of whichever runner owns the context then.    *)
(*                                                                          *)
(* GStreamer and GLib are external: a pipeline takes samples in, hands them *)
(* to its sink in their order, or loses some, and posts EOS or errors; a    *)
(* change of its state to NULL waits for its streaming thread.  A sample is *)
(* its position in the input.                                               *)
(***************************************************************************)
EXTENDS Integers, Sequences, FiniteSets, Functions

CONSTANTS Runners,
          WithAppsrc,   \* those with an appsrc_caps_string, that are fed
          WithAppsink,  \* those with a receiver_callback
          LastSample,   \* bound: samples that enter the pipeline of a runner
          MaxErrors     \* bound: errors that elements of a pipeline post

ASSUME RunnersAssumption ==
    IsFiniteSet(Runners) /\ WithAppsrc \subseteq Runners /\ WithAppsink \subseteq Runners

ASSUME BoundsAssumption == LastSample \in [Runners -> Nat] /\ MaxErrors \in [Runners -> Nat]

VARIABLES
    phase,      \* where the thread is that creates, uses and destroys a runner
    signal,     \* completion_signal_
    loop,       \* the thread of GMainLoopManager
    is_running, \* g_main_loop_is_running
    dispatch,   \* the message a loop hands to gst_bus_message_callback
    entered,    \* number of samples that have entered the pipeline
    inside,     \* the samples inside, and an EOS
    flowing,    \* the pipeline is PLAYING, and has not stopped on an error or EOS
    sink,       \* the sample its sink is busy with: on_new_sample_from_sink
    bus,        \* the messages nobody has popped yet
    errors,     \* number of errors posted so far
    delivered,  \* history: samples handed to the callback, or written out
    stray       \* history: <<l, r>>, loop l touched the destroyed signal of r

loops    == <<loop, is_running, dispatch, stray>>
pipeline == <<inside, flowing, sink, errors>>
vars     == <<phase, signal, loops, pipeline, entered, bus, delivered>>

Samples   == Nat \ {0}
Eos       == 0
Idle      == 0
NoMessage == [of |-> "none", type |-> "none"]

Init ==
    /\ phase = [r \in Runners |-> "new"]
    /\ signal = [r \in Runners |-> "none"]
    /\ loop = [r \in Runners |-> "none"]
    /\ is_running = [r \in Runners |-> FALSE]
    /\ dispatch = [r \in Runners |-> NoMessage]
    /\ entered = [r \in Runners |-> 0]
    /\ inside = [r \in Runners |-> <<>>]
    /\ flowing = [r \in Runners |-> FALSE]
    /\ sink = [r \in Runners |-> Idle]
    /\ bus = [r \in Runners |-> <<>>]
    /\ errors = [r \in Runners |-> 0]
    /\ delivered = [r \in Runners |-> <<>>]
    /\ stray = {}

\* The process has not been stopped by an undefined access.
Alive == stray = {} /\ \A r \in Runners : phase[r] # "aborted"

At(r, where)    == phase[r] = where
GoesTo(r, next) == phase' = [phase EXCEPT ![r] = next]

-----------------------------------------------------------------------------
(* Create.                                                                  *)

\* GstInit fails, before there is a GstreamerRunnerImpl.
CreateFails(r) ==
    /\ At(r, "new") /\ GoesTo(r, "failed")
    /\ UNCHANGED <<signal, loops, pipeline, entered, bus, delivered>>

\* GstreamerPipeline::Create fails: an invalid pipeline string, or caps.
\* Initialize returns early, and the GstreamerRunnerImpl is destroyed.
PipelineCreateFails(r) ==
    /\ At(r, "new") /\ GoesTo(r, "unwind")
    /\ UNCHANGED <<signal, loops, pipeline, entered, bus, delivered>>

\* The pipeline, the signal, the watch on the bus, and a thread for the loop.
Initialize(r) ==
    /\ At(r, "new") /\ GoesTo(r, "spin")
    /\ signal' = [signal EXCEPT ![r] = "started"]
    /\ loop' = [loop EXCEPT ![r] = "spawned"]
    /\ UNCHANGED <<is_running, dispatch, stray, pipeline, entered, bus, delivered>>

\* Mutant: the constructor does not wait for its thread.
SetStatePlayingAtOnce(r) ==
    /\ At(r, "spin")
    /\ GoesTo(r, "playing")
    /\ flowing' = [flowing EXCEPT ![r] = TRUE]
    /\ UNCHANGED <<signal, loops, inside, sink, errors, entered, bus, delivered>>

\* while (g_main_loop_is_running(glib_main_loop_) != TRUE); then PLAYING.
SetStatePlaying(r) ==
    /\ At(r, "spin") /\ is_running[r]
    /\ GoesTo(r, "playing")
    /\ flowing' = [flowing EXCEPT ![r] = TRUE]
    /\ UNCHANGED <<signal, loops, inside, sink, errors, entered, bus, delivered>>

-----------------------------------------------------------------------------
(* Use.                                                                     *)

Enter(r) ==
    /\ entered[r] < LastSample[r]
    /\ entered' = [entered EXCEPT ![r] = @ + 1]
    /\ inside' = [inside EXCEPT ![r] = Append(@, entered[r] + 1)]
    /\ UNCHANGED <<phase, signal, loops, flowing, sink, errors, bus, delivered>>

\* A Feed that succeeds: the runner has not completed, the caps agree and the
\* appsrc takes the buffer, also when an error has stopped the pipeline and the
\* signal does not say so yet.  A Feed that fails changes nothing.
Feed(r) ==
    /\ At(r, "playing") /\ r \in WithAppsrc
    /\ signal[r] # "completed"
    /\ Enter(r)

\* A pipeline with a source of its own, until that ends.
Produce(r) ==
    /\ r \notin WithAppsrc /\ flowing[r]
    /\ Eos \notin Range(inside[r])
    /\ Enter(r)

SourceEnds(r) ==
    /\ r \notin WithAppsrc /\ flowing[r]
    /\ Eos \notin Range(inside[r])
    /\ inside' = [inside EXCEPT ![r] = Append(@, Eos)]
    /\ UNCHANGED <<phase, signal, loops, flowing, sink, errors, entered, bus, delivered>>

-----------------------------------------------------------------------------
(* The streaming thread of a pipeline.                                      *)

Streams(r) == flowing[r] /\ sink[r] = Idle /\ inside[r] # <<>>

\* A sample comes to the sink: on_new_sample_from_sink has been called.
NewSample(r) ==
    /\ Streams(r) /\ Head(inside[r]) # Eos
    /\ sink' = [sink EXCEPT ![r] = Head(inside[r])]
    /\ inside' = [inside EXCEPT ![r] = Tail(@)]
    /\ UNCHANGED <<phase, signal, loops, flowing, errors, entered, bus, delivered>>

LoseSample(r) ==
    /\ Streams(r) /\ Head(inside[r]) # Eos
    /\ inside' = [inside EXCEPT ![r] = Tail(@)]
    /\ UNCHANGED <<phase, signal, loops, flowing, sink, errors, entered, bus, delivered>>

SinkEos(r) ==
    /\ Streams(r) /\ Head(inside[r]) = Eos
    /\ bus' = [bus EXCEPT ![r] = Append(@, "EOS")]
    /\ inside' = [inside EXCEPT ![r] = <<>>]
    /\ flowing' = [flowing EXCEPT ![r] = FALSE]
    /\ UNCHANGED <<phase, signal, loops, sink, errors, entered, delivered>>

CallbackReturns(r) ==
    /\ sink[r] # Idle
    /\ delivered' = [delivered EXCEPT ![r] = Append(@, sink[r])]
    /\ sink' = [sink EXCEPT ![r] = Idle]
    /\ UNCHANGED <<phase, signal, loops, inside, flowing, errors, entered, bus>>

\* The callback returns an error, GST_FLOW_ERROR: the pipeline stops.
CallbackFails(r) ==
    /\ sink[r] # Idle /\ r \in WithAppsink
    /\ delivered' = [delivered EXCEPT ![r] = Append(@, sink[r])]
    /\ sink' = [sink EXCEPT ![r] = Idle]
    /\ flowing' = [flowing EXCEPT ![r] = FALSE]
    /\ errors' = [errors EXCEPT ![r] = @ + 1]
    /\ bus' = [bus EXCEPT ![r] = Append(@, "ERROR")]
    /\ UNCHANGED <<phase, signal, loops, inside, entered>>

\* An element posts an error and the data stops; other elements may post more.
ElementFails(r) ==
    /\ phase[r] \in {"playing", "drain", "stop", "late"} /\ errors[r] < MaxErrors[r]
    /\ errors' = [errors EXCEPT ![r] = @ + 1]
    /\ flowing' = [flowing EXCEPT ![r] = FALSE]
    /\ bus' = [bus EXCEPT ![r] = Append(@, "ERROR")]
    /\ UNCHANGED <<phase, signal, loops, inside, sink, entered, delivered>>

-----------------------------------------------------------------------------
(* The main loop threads.                                                   *)

LoopRuns(l) ==
    /\ loop[l] = "spawned"
    /\ loop' = [loop EXCEPT ![l] = "waiting"]
    /\ is_running' = [is_running EXCEPT ![l] = TRUE]
    /\ UNCHANGED <<phase, signal, dispatch, stray, pipeline, entered, bus, delivered>>

AcquireContext(l) ==
    /\ loop[l] = "waiting" /\ is_running[l]
    /\ \A m \in Runners : loop[m] # "owner"
    /\ loop' = [loop EXCEPT ![l] = "owner"]
    /\ UNCHANGED <<phase, signal, is_running, dispatch, stray, pipeline, entered, bus, delivered>>

\* An iteration of the context dispatches every bus that has a message, also
\* when the loop has been told to quit in the middle of it.
PopMessage(l, r) ==
    /\ loop[l] = "owner" /\ dispatch[l] = NoMessage
    /\ bus[r] # <<>>
    /\ dispatch' = [dispatch EXCEPT ![l] = [of |-> r, type |-> Head(bus[r])]]
    /\ bus' = [bus EXCEPT ![r] = Tail(@)]
    /\ UNCHANGED <<phase, signal, loop, is_running, stray, pipeline, entered, delivered>>

\* gst_bus_message_callback ends the signal it was given when the watch was
\* added, which nobody has told it is gone.
EndsSignal(l, types) ==
    LET r == dispatch[l].of IN
    /\ dispatch[l] # NoMessage
    /\ dispatch' = [dispatch EXCEPT ![l] = NoMessage]
    /\ IF signal[r] = "destroyed"
       THEN stray' = stray \cup {<<l, r>>} /\ UNCHANGED signal
       ELSE /\ signal' = IF dispatch[l].type \in types
                         THEN [signal EXCEPT ![r] = "completed"] ELSE signal
            /\ UNCHANGED stray
    /\ UNCHANGED <<phase, loop, is_running, pipeline, entered, bus, delivered>>

\* Mutant: errors are logged only.
BusMessageEosOnly(l) == EndsSignal(l, {"EOS"})

gst_bus_message_callback(l) == EndsSignal(l, {"EOS", "ERROR"})

LoopReturns(l) ==
    /\ loop[l] \in {"waiting", "owner"} /\ ~is_running[l] /\ dispatch[l] = NoMessage
    /\ loop' = [loop EXCEPT ![l] = "ended"]
    /\ UNCHANGED <<phase, signal, is_running, dispatch, stray, pipeline, entered, bus, delivered>>

-----------------------------------------------------------------------------
(* The destructor: Finalize, then the members in the reverse of their order. *)

\* Mutant: a runner that has completed is not set to NULL.
FinalizeUnlessCompleted(r) ==
    /\ At(r, "playing")
    /\ GoesTo(r, IF signal[r] = "completed" THEN "quit" ELSE "drain")
    /\ inside' = IF signal[r] = "completed" THEN inside
                 ELSE [inside EXCEPT ![r] = Append(@, Eos)]
    /\ UNCHANGED <<signal, loops, flowing, sink, errors, entered, bus, delivered>>

\* Finalize looks at a signal that Initialize has not come to create.
FinalizeUncreated(r) ==
    /\ At(r, "unwind") /\ signal[r] = "none"
    /\ GoesTo(r, "aborted")
    /\ UNCHANGED <<signal, loops, pipeline, entered, bus, delivered>>

\* A runner that has not completed is sent an EOS, and waited for.
Finalize(r) ==
    /\ At(r, "playing")
    /\ GoesTo(r, IF signal[r] = "completed" THEN "stop" ELSE "drain")
    /\ inside' = IF signal[r] = "completed" THEN inside
                 ELSE [inside EXCEPT ![r] = Append(@, Eos)]
    /\ UNCHANGED <<signal, loops, flowing, sink, errors, entered, bus, delivered>>

\* Mutant: the wait is left out.
DrainsAtOnce(r) ==
    /\ At(r, "drain") /\ GoesTo(r, "stop")
    /\ UNCHANGED <<signal, loops, pipeline, entered, bus, delivered>>

Drained(r) ==
    /\ At(r, "drain") /\ signal[r] = "completed"
    /\ GoesTo(r, "stop")
    /\ UNCHANGED <<signal, loops, pipeline, entered, bus, delivered>>

\* kPipelineFinishTimeoutSeconds have passed: "Discarding to move on".
DrainTimesOut(r) ==
    /\ At(r, "drain") /\ signal[r] # "completed"
    /\ GoesTo(r, "late")
    /\ UNCHANGED <<signal, loops, pipeline, entered, bus, delivered>>

\* GST_STATE_NULL: waits for the callback, if one is running; the pipeline and
\* its bus are flushed.
SetStateNull(r) ==
    /\ phase[r] \in {"stop", "late"} /\ sink[r] = Idle
    /\ GoesTo(r, "quit")
    /\ inside' = [inside EXCEPT ![r] = <<>>]
    /\ flowing' = [flowing EXCEPT ![r] = FALSE]
    /\ bus' = [bus EXCEPT ![r] = <<>>]
    /\ UNCHANGED <<signal, loops, sink, errors, entered, delivered>>

\* ~GMainLoopManager, the member declared last.
QuitLoop(r) ==
    /\ At(r, "quit") /\ GoesTo(r, "join")
    /\ is_running' = [is_running EXCEPT ![r] = FALSE]
    /\ UNCHANGED <<signal, loop, dispatch, stray, pipeline, entered, bus, delivered>>

\* Mutant: the signal is destroyed before the thread is joined.
JoinLoopLast(r) ==
    /\ At(r, "join") /\ GoesTo(r, "destroyed")
    /\ signal' = [signal EXCEPT ![r] = "destroyed"]
    /\ UNCHANGED <<loops, pipeline, entered, bus, delivered>>

\* The thread is joined, and then the signal and the pipeline are destroyed.
JoinLoop(r) ==
    /\ At(r, "join") /\ loop[r] = "ended"
    /\ GoesTo(r, "destroyed")
    /\ signal' = [signal EXCEPT ![r] = "destroyed"]
    /\ UNCHANGED <<loops, pipeline, entered, bus, delivered>>

-----------------------------------------------------------------------------
Create(r)   == CreateFails(r) \/ PipelineCreateFails(r) \/ Initialize(r) \/ SetStatePlaying(r)
Source(r)   == Produce(r) \/ SourceEnds(r)
Pipeline(r) == NewSample(r) \/ LoseSample(r) \/ SinkEos(r)
Sink(r)     == CallbackReturns(r) \/ CallbackFails(r)
Loop(l)     == \/ LoopRuns(l) \/ AcquireContext(l) \/ gst_bus_message_callback(l) \/ LoopReturns(l)
               \/ \E r \in Runners : PopMessage(l, r)
Destroy(r)  == \/ FinalizeUncreated(r) \/ Drained(r) \/ DrainTimesOut(r) \/ SetStateNull(r)
               \/ QuitLoop(r) \/ JoinLoop(r)

Runs(r) == Pipeline(r) \/ Loop(r) \/ Destroy(r)

Next ==
    /\ Alive
    /\ \E r \in Runners :
          \/ Create(r) \/ Feed(r) \/ Source(r) \/ Sink(r) \/ ElementFails(r)
          \/ Finalize(r) \/ Runs(r)

Spec == Init /\ [][Next]_vars

\* The threads of a runner run, its callback returns and the bounded wait ends.
\* None of these can go on for ever, so that one condition for all of them is
\* enough.  Nobody has to feed or destroy a runner, and no pipeline has to fail
\* or to end by itself.
Progress(r) == Alive /\ (Runs(r) \/ Sink(r) \/ SetStatePlaying(r))

FairSpec == Spec /\ \A r \in Runners : WF_vars(Progress(r))

-----------------------------------------------------------------------------
(* Properties.                                                              *)

Messages == [of : Runners, type : {"EOS", "ERROR"}] \cup {NoMessage}

TypeOK ==
    /\ phase \in [Runners -> {"new", "failed", "unwind", "aborted", "spin", "playing", "drain", "stop", "late",
                              "quit", "join", "destroyed"}]
    /\ signal \in [Runners -> {"none", "started", "completed", "destroyed"}]
    /\ loop \in [Runners -> {"none", "spawned", "waiting", "owner", "ended"}]
    /\ is_running \in [Runners -> BOOLEAN] /\ flowing \in [Runners -> BOOLEAN]
    /\ dispatch \in [Runners -> Messages]
    /\ entered \in [Runners -> Nat] /\ \A r \in Runners : entered[r] <= LastSample[r]
    /\ inside \in [Runners -> Seq(Samples \cup {Eos})]
    /\ sink \in [Runners -> Samples \cup {Idle}]
    /\ bus \in [Runners -> Seq({"EOS", "ERROR"})]
    /\ errors \in [Runners -> Nat]
    /\ delivered \in [Runners -> Seq(Samples)]
    /\ stray \subseteq Runners \X Runners
    /\ \A r \in Runners : signal[r] = "destroyed" <=> phase[r] = "destroyed"

\* A runner's own loop never touches its destroyed signal: the loop manager is
\* declared after the signal, so that its thread is joined first.  (The loop of
\* another runner that owns the context at the time may.)
OwnLoopSafe == \A r \in Runners : <<r, r>> \notin stray

\* Once Finalize is over nothing of the runner moves any more: its callback is
\* not running, and will not be called on an object that is gone.  It holds
\* because of the state change to NULL, which waits and which comes whether or
\* not the runner has completed.
QuietAfterFinalize ==
    \A r \in Runners : phase[r] \in {"quit", "join", "destroyed"} =>
        sink[r] = Idle /\ ~flowing[r] /\ inside[r] = <<>>

\* What was fed has left the pipeline when Finalize comes to stop it, unless it
\* waited as long as it may, or an error has stopped the pipeline.
DrainedUnlessLate ==
    \A r \in WithAppsrc :
        At(r, "stop") /\ errors[r] = 0 => sink[r] = Idle /\ inside[r] = <<>>

\* What ends a pipeline completes its signal, whichever loop owns the context
\* and also when that loop quits: WaitUntilCompleted comes to an end.
CompletionSeen ==
    \A r \in Runners :
        (bus[r] # <<>>) ~> (signal[r] = "completed" \/ phase[r] = "destroyed" \/ ~Alive)

\* The destructor returns: a callback that returns, a loop that has run and is
\* told to quit, and a bounded wait is all that it waits for.
DestructorReturns ==
    \A r \in Runners : (phase[r] \in {"drain", "stop"}) ~> (phase[r] = "destroyed" \/ ~Alive)

\* A Create that fails returns an error to its caller: "Failed to create a
\* gstreamer runner".  It does not when it is the pipeline that cannot be made.
CreateReturnsError == \A r \in Runners : ~At(r, "aborted")
=============================================================================
