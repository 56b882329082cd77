------------------------------ MODULE GstLaunch ------------------------------
(***************************************************************************)
(* GstLaunchPipeline (gstreamer/gstreamer_utils.cc): builds a pipeline,     *)
(* plays it, waits for the first ERROR or EOS message on its bus and stops  *)
(* it.  With a duration, a detached thread sends an EOS event into the      *)
(* pipeline when it has slept that long.  One pipeline per application; a   *)
(* module that composes it says what the pipeline's elements do.            *)
(***************************************************************************)
EXTENDS Integers, Sequences, FiniteSets

CONSTANT Installed  \* the elements GStreamer finds, besides aissrc and aissink

Apps == {"ingester_app", "playback_app"}

VARIABLES launch,    \* per application: where its GstLaunchPipeline is
          returned,  \* what it returned last
          bus,       \* messages on the pipeline's bus, ERROR and EOS only
          stopper,   \* the thread: "none", "sleeping", "done", "stray"
          eosEvent   \* an EOS event was sent into the pipeline

launchVars == <<launch, returned, bus, stopper, eosEvent>>

LaunchInit ==
    /\ launch = [a \in Apps |-> "idle"]
    /\ returned = [a \in Apps |-> "none"]
    /\ bus = [a \in Apps |-> {}]
    /\ stopper = [a \in Apps |-> "none"]
    /\ eosEvent = [a \in Apps |-> FALSE]

\* GstInit fails, or gst_parse_launch does: an element is missing.
LaunchFails(a) ==
    /\ launch[a] = "idle"
    /\ launch' = [launch EXCEPT ![a] = "returned"]
    /\ returned' = [returned EXCEPT ![a] = "INTERNAL"]
    /\ UNCHANGED <<bus, stopper, eosEvent>>

\* gst_parse_launch: a pipeline with a bus of its own
LaunchBuilds(a) ==
    /\ launch[a] = "idle"
    /\ launch' = [launch EXCEPT ![a] = "built"]
    /\ bus' = [bus EXCEPT ![a] = {}] /\ eosEvent' = [eosEvent EXCEPT ![a] = FALSE]
    /\ UNCHANGED <<returned, stopper>>

\* set_state(PLAYING) fails.  The pipeline is neither stopped nor unreffed: the
\* elements that did start stay started.
LaunchPlayFails(a) ==
    /\ launch[a] = "built"
    /\ launch' = [launch EXCEPT ![a] = "returned"]
    /\ returned' = [returned EXCEPT ![a] = "INTERNAL"]
    /\ UNCHANGED <<bus, stopper, eosEvent>>

LaunchPlays(a, duration) ==
    /\ launch[a] = "built"
    /\ launch' = [launch EXCEPT ![a] = "playing"]
    /\ stopper' = [stopper EXCEPT ![a] = IF duration >= 0 THEN "sleeping" ELSE @]
    /\ UNCHANGED <<returned, bus, eosEvent>>

\* An element posts a message.
Post(a, message) == bus' = [bus EXCEPT ![a] = @ \cup {message}]

\* gst_bus_timed_pop_filtered.  The message is not looked at.
LaunchPops(a) ==
    /\ launch[a] = "playing" /\ bus[a] # {}
    /\ launch' = [launch EXCEPT ![a] = "stopping"]
    /\ UNCHANGED <<returned, bus, stopper, eosEvent>>

\* set_state(NULL) has stopped every element; the pipeline is unreffed.
LaunchReturns(a) ==
    /\ launch[a] = "stopping"
    /\ launch' = [launch EXCEPT ![a] = "returned"]
    /\ returned' = [returned EXCEPT ![a] = "OK"]
    /\ UNCHANGED <<bus, stopper, eosEvent>>

\* The stopper's sleep is over.  It uses the pipeline it was started with,
\* which may have been unreffed meanwhile.
StopperWakes(a) ==
    /\ stopper[a] = "sleeping"
    /\ IF launch[a] \in {"playing", "stopping"}
       THEN /\ stopper' = [stopper EXCEPT ![a] = "done"]
            /\ eosEvent' = [eosEvent EXCEPT ![a] = TRUE]
       ELSE stopper' = [stopper EXCEPT ![a] = "stray"] /\ UNCHANGED eosEvent
    /\ UNCHANGED <<launch, returned, bus>>

\* The next call of GstLaunchPipeline, or the end of the process.
LaunchReset(a) ==
    /\ launch' = [launch EXCEPT ![a] = "idle"]
    /\ stopper' = [stopper EXCEPT ![a] = "none"]
    /\ UNCHANGED <<returned, bus, eosEvent>>
=============================================================================
