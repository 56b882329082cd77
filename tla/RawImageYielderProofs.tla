------------------------ MODULE RawImageYielderProofs ------------------------
(* Proofs about GstreamerRunner, for any runners, samples and errors, and    *)
(* about RawImageYielder, for any other runners.                            *)
EXTENDS RawImageYielder, SequenceTheorems, TLAPS

\* One leaf of a step proof per action, each with the facts that action needs.
Step(r) ==
    \/ Create(r) \/ Feed(r) \/ Source(r) \/ Sink(r) \/ ElementFails(r) \/ Finalize(r) \/ Runs(r)

-----------------------------------------------------------------------------
(* Types.                                                                   *)

LEMMA InitType == Init => TypeOK
BY BoundsAssumption, EmptySeq DEF Init, TypeOK, Messages, NoMessage, Idle, Eos, Samples

LEMMA CreateType == ASSUME TypeOK, NEW r \in Runners, Create(r) PROVE TypeOK'
BY DEF TypeOK, Create, CreateFails, PipelineCreateFails, Initialize, SetStatePlaying, At, GoesTo,
       loops, pipeline

LEMMA EnterType ==
    ASSUME TypeOK, NEW r \in Runners, Feed(r) \/ Source(r)
    PROVE  TypeOK'
<1>1. CASE Enter(r)
    <2>1. entered[r] + 1 \in Samples /\ entered[r] + 1 <= LastSample[r]
        <3>1. entered[r] \in Nat /\ entered[r] < LastSample[r]
            BY <1>1 DEF TypeOK, Enter
        <3>2. LastSample[r] \in Nat
            BY BoundsAssumption
        <3>. QED
            BY <3>1, <3>2 DEF Samples
    <2>2. inside' \in [Runners -> Seq(Samples \cup {Eos})]
        BY <1>1, <2>1, AppendProperties DEF TypeOK, Enter
    <2>. QED
        BY <1>1, <2>1, <2>2 DEF TypeOK, Enter, loops, Samples
<1>2. CASE SourceEnds(r)
    <2>1. inside' \in [Runners -> Seq(Samples \cup {Eos})]
        BY <1>2, AppendProperties DEF TypeOK, SourceEnds
    <2>. QED
        BY <1>2, <2>1 DEF TypeOK, SourceEnds, loops
<1>. QED
    BY <1>1, <1>2 DEF Feed, Source, Produce

LEMMA PipelineType == ASSUME TypeOK, NEW r \in Runners, Pipeline(r) PROVE TypeOK'
<1>1. inside[r] # <<>> => /\ Head(inside[r]) \in Samples \cup {Eos}
                          /\ Tail(inside[r]) \in Seq(Samples \cup {Eos})
    BY HeadTailProperties DEF TypeOK
<1>2. <<>> \in Seq(Samples \cup {Eos}) /\ Append(bus[r], "EOS") \in Seq({"EOS", "ERROR"})
    BY EmptySeq, AppendProperties DEF TypeOK
<1>. QED
    BY <1>1, <1>2 DEF TypeOK, Pipeline, NewSample, LoseSample, SinkEos, Streams, loops

LEMMA SinkType ==
    ASSUME TypeOK, NEW r \in Runners, Sink(r) \/ ElementFails(r)
    PROVE  TypeOK'
<1>1. Append(bus[r], "ERROR") \in Seq({"EOS", "ERROR"})
    BY AppendProperties DEF TypeOK
<1>2. sink[r] # Idle => Append(delivered[r], sink[r]) \in Seq(Samples)
    BY AppendProperties DEF TypeOK, Samples, Idle
<1>3. CASE CallbackReturns(r)
    BY <1>2, <1>3 DEF TypeOK, CallbackReturns, loops
<1>4. CASE CallbackFails(r)
    <2>1. errors[r] + 1 \in Nat
        BY DEF TypeOK
    <2>. QED
        BY <1>1, <1>2, <1>4, <2>1 DEF TypeOK, CallbackFails, loops
<1>5. CASE ElementFails(r)
    <2>1. errors[r] + 1 \in Nat
        BY DEF TypeOK
    <2>. QED
        BY <1>1, <1>5, <2>1 DEF TypeOK, ElementFails, loops
<1>. QED
    BY <1>3, <1>4, <1>5 DEF Sink

LEMMA LoopType == ASSUME TypeOK, NEW l \in Runners, Loop(l) PROVE TypeOK'
<1>1. CASE LoopRuns(l) \/ AcquireContext(l) \/ LoopReturns(l)
    BY <1>1 DEF TypeOK, LoopRuns, AcquireContext, LoopReturns, pipeline
<1>2. CASE \E r \in Runners : PopMessage(l, r)
    <2>1. PICK r \in Runners : PopMessage(l, r)
        BY <1>2
    <2>2. Head(bus[r]) \in {"EOS", "ERROR"} /\ Tail(bus[r]) \in Seq({"EOS", "ERROR"})
        BY <2>1, HeadTailProperties DEF TypeOK, PopMessage
    <2>. QED
        BY <2>1, <2>2 DEF TypeOK, PopMessage, Messages, pipeline
<1>3. CASE gst_bus_message_callback(l)
    <2>1. dispatch[l].of \in Runners
        BY <1>3 DEF TypeOK, Messages, gst_bus_message_callback, EndsSignal
    <2>2. stray' \subseteq Runners \X Runners /\ dispatch' \in [Runners -> Messages]
        BY <1>3, <2>1 DEF TypeOK, Messages, gst_bus_message_callback, EndsSignal
    <2>3. /\ signal' \in [Runners -> {"none", "started", "completed", "destroyed"}]
          /\ \A r \in Runners : signal'[r] = "destroyed" <=> signal[r] = "destroyed"
        BY <1>3, <2>1 DEF TypeOK, gst_bus_message_callback, EndsSignal
    <2>. QED
        BY <1>3, <2>2, <2>3 DEF TypeOK, gst_bus_message_callback, EndsSignal, pipeline
<1>. QED
    BY <1>1, <1>2, <1>3 DEF Loop

LEMMA DestroyType ==
    ASSUME TypeOK, NEW r \in Runners, Finalize(r) \/ Destroy(r)
    PROVE  TypeOK'
<1>1. /\ <<>> \in Seq(Samples \cup {Eos}) /\ <<>> \in Seq({"EOS", "ERROR"})
      /\ Append(inside[r], Eos) \in Seq(Samples \cup {Eos})
    BY EmptySeq, AppendProperties DEF TypeOK
<1>2. CASE Finalize(r)
    <2>1. inside' \in [Runners -> Seq(Samples \cup {Eos})]
        BY <1>1, <1>2 DEF TypeOK, Finalize
    <2>. QED
        BY <1>2, <2>1 DEF TypeOK, Finalize, At, GoesTo, loops
<1>3. CASE SetStateNull(r)
    BY <1>1, <1>3 DEF TypeOK, SetStateNull, GoesTo, loops
<1>4. CASE FinalizeUncreated(r) \/ Drained(r) \/ DrainTimesOut(r)
    BY <1>4 DEF TypeOK, FinalizeUncreated, Drained, DrainTimesOut, At, GoesTo, loops, pipeline
<1>5. CASE QuitLoop(r) \/ JoinLoop(r)
    BY <1>5 DEF TypeOK, QuitLoop, JoinLoop, At, GoesTo, loops, pipeline
<1>. QED
    BY <1>2, <1>3, <1>4, <1>5 DEF Destroy

LEMMA NextType == TypeOK /\ [Next]_vars => TypeOK'
<1> SUFFICES ASSUME TypeOK, [Next]_vars PROVE TypeOK'
    OBVIOUS
<1>1. CASE UNCHANGED vars
    BY <1>1 DEF vars, loops, pipeline, TypeOK
<1>2. CASE Next
    <2>1. PICK r \in Runners : Step(r)
        BY <1>2 DEF Next, Step
    <2>. QED
        BY <2>1, CreateType, EnterType, PipelineType, SinkType, LoopType, DestroyType DEF Step, Runs
<1>. QED
    BY <1>1, <1>2

\* Every variable stays in range, and a signal is destroyed with its runner.
THEOREM TypeCorrect == Spec => []TypeOK
BY InitType, NextType, PTL DEF Spec

-----------------------------------------------------------------------------
(* Nothing moves before PLAYING and after NULL.                             *)

Resting == {"new", "failed", "unwind", "aborted", "spin", "quit", "join", "destroyed"}

\* QuietAfterFinalize is not inductive: a runner is also quiet until it plays.
Quiet ==
    \A r \in Runners : phase[r] \in Resting =>
        sink[r] = Idle /\ ~flowing[r] /\ inside[r] = <<>>

LEMMA QuietInit == Init => Quiet
BY DEF Init, Quiet

LEMMA QuietStep == TypeOK /\ Quiet /\ [Next]_vars => Quiet'
<1> SUFFICES ASSUME TypeOK, Quiet, [Next]_vars PROVE Quiet'
    OBVIOUS
<1>1. CASE UNCHANGED vars
    BY <1>1 DEF vars, loops, pipeline, Quiet
<1>2. CASE Next
    <2>1. PICK r \in Runners : Step(r)
        BY <1>2 DEF Next, Step
    <2>2. CASE Create(r)
        BY <2>2 DEF TypeOK, Quiet, Resting, Create, CreateFails, PipelineCreateFails, Initialize,
                    SetStatePlaying, At, GoesTo, loops, pipeline
    <2>3. CASE Feed(r) \/ Source(r)
        BY <2>3 DEF TypeOK, Quiet, Resting, Feed, Source, Produce, SourceEnds, Enter, At, loops
    <2>4. CASE Pipeline(r)
        BY <2>4 DEF TypeOK, Quiet, Pipeline, NewSample, LoseSample, SinkEos, Streams, loops
    <2>5. CASE Sink(r) \/ ElementFails(r)
        BY <2>5 DEF TypeOK, Quiet, Resting, Sink, CallbackReturns, CallbackFails, ElementFails,
                    loops, pipeline
    <2>6. CASE Loop(r)
        BY <2>6 DEF Quiet, Loop, LoopRuns, AcquireContext, PopMessage, gst_bus_message_callback,
                    EndsSignal, LoopReturns, loops, pipeline
    <2>7. CASE Finalize(r)
        BY <2>7 DEF TypeOK, Quiet, Resting, Finalize, At, GoesTo, loops
    <2>8. CASE Destroy(r)
        BY <2>8 DEF TypeOK, Quiet, Resting, Destroy, FinalizeUncreated, Drained, DrainTimesOut,
                    SetStateNull, QuitLoop, JoinLoop, At, GoesTo, loops, pipeline
    <2>. QED
        BY <2>1, <2>2, <2>3, <2>4, <2>5, <2>6, <2>7, <2>8 DEF Step, Runs
<1>. QED
    BY <1>1, <1>2

LEMMA QuietAlways == Spec => []Quiet
BY TypeCorrect, QuietInit, QuietStep, PTL DEF Spec

\* Once Finalize is over no callback of the runner is running or will run.
THEOREM QuietAfterFinalizeCorrect == Spec => []QuietAfterFinalize
<1>1. Quiet => QuietAfterFinalize
    BY DEF Quiet, Resting, QuietAfterFinalize
<1>. QED
    BY <1>1, QuietAlways, PTL

-----------------------------------------------------------------------------
(* A runner's own loop has ended before its signal is destroyed.            *)

\* Only the owner of the context dispatches, a loop is begun by its runner, and
\* has ended when its runner is gone.
LoopsEnd ==
    \A r \in Runners :
        /\ loop[r] # "owner" => dispatch[r] = NoMessage
        /\ phase[r] = "new" => loop[r] = "none"
        /\ phase[r] = "destroyed" => loop[r] = "ended"

LEMMA LoopsEndInit == Init => LoopsEnd /\ OwnLoopSafe
BY DEF Init, LoopsEnd, OwnLoopSafe

LEMMA LoopsEndStep == TypeOK /\ LoopsEnd /\ [Next]_vars => LoopsEnd'
<1> SUFFICES ASSUME TypeOK, LoopsEnd, [Next]_vars PROVE LoopsEnd'
    OBVIOUS
<1>1. CASE UNCHANGED vars
    BY <1>1 DEF vars, loops, LoopsEnd
<1>2. CASE Next
    <2>1. PICK r \in Runners : Step(r)
        BY <1>2 DEF Next, Step
    <2>2. CASE Create(r)
        BY <2>2 DEF TypeOK, LoopsEnd, Create, CreateFails, PipelineCreateFails, Initialize,
                    SetStatePlaying, At, GoesTo, loops
    <2>3. CASE Feed(r) \/ Source(r) \/ Pipeline(r) \/ Sink(r) \/ ElementFails(r)
        BY <2>3 DEF LoopsEnd, Feed, Source, Produce, SourceEnds, Enter, Pipeline, NewSample,
                    LoseSample, SinkEos, Sink, CallbackReturns, CallbackFails, ElementFails, loops
    <2>4. CASE LoopRuns(r) \/ AcquireContext(r) \/ LoopReturns(r)
        <3>1. UNCHANGED <<phase, dispatch>>
            BY <2>4 DEF LoopRuns, AcquireContext, LoopReturns
        <3>2. /\ \A s \in Runners \ {r} : loop'[s] = loop[s]
              /\ loop[r] \notin {"none", "ended"}
              /\ loop[r] # "owner" => dispatch[r] = NoMessage
            BY <2>4 DEF TypeOK, LoopsEnd, LoopRuns, AcquireContext, LoopReturns
        <3>. QED
            BY <3>1, <3>2, <2>4 DEF TypeOK, LoopsEnd, LoopRuns, AcquireContext, LoopReturns
    <2>5. CASE \E s \in Runners : PopMessage(r, s)
        BY <2>5 DEF TypeOK, LoopsEnd, PopMessage
    <2>6. CASE gst_bus_message_callback(r)
        BY <2>6 DEF TypeOK, LoopsEnd, gst_bus_message_callback, EndsSignal
    <2>7. CASE Finalize(r) \/ Destroy(r)
        BY <2>7 DEF TypeOK, LoopsEnd, Finalize, Destroy, FinalizeUncreated, Drained, DrainTimesOut,
                    SetStateNull, QuitLoop, JoinLoop, At, GoesTo, loops
    <2>. QED
        BY <2>1, <2>2, <2>3, <2>4, <2>5, <2>6, <2>7 DEF Step, Runs, Loop
<1>. QED
    BY <1>1, <1>2

\* Only gst_bus_message_callback touches a signal by itself.
LEMMA StrayStep ==
    ASSUME NEW r \in Runners, Step(r), ~gst_bus_message_callback(r)
    PROVE  stray' = stray
BY DEF Step, Create, CreateFails, PipelineCreateFails, Initialize, SetStatePlaying, Feed, Source,
       Produce, SourceEnds, Enter, Sink, CallbackReturns, CallbackFails, ElementFails, Finalize,
       Runs, Pipeline, NewSample, LoseSample, SinkEos, Loop, LoopRuns, AcquireContext, PopMessage,
       LoopReturns, Destroy, FinalizeUncreated, Drained, DrainTimesOut, SetStateNull, QuitLoop,
       JoinLoop, loops

LEMMA OwnLoopStep == TypeOK /\ LoopsEnd /\ OwnLoopSafe /\ [Next]_vars => OwnLoopSafe'
<1> SUFFICES ASSUME TypeOK, LoopsEnd, OwnLoopSafe, [Next]_vars PROVE OwnLoopSafe'
    OBVIOUS
<1>1. CASE UNCHANGED vars
    BY <1>1 DEF vars, loops, OwnLoopSafe
<1>2. CASE Next
    <2>1. PICK r \in Runners : Step(r)
        BY <1>2 DEF Next, Step
    <2>2. CASE ~gst_bus_message_callback(r)
        BY <2>1, <2>2, StrayStep DEF OwnLoopSafe
    <2>3. CASE gst_bus_message_callback(r)
        <3>1. loop[r] = "owner" /\ signal[r] # "destroyed"
            BY <2>3 DEF TypeOK, LoopsEnd, gst_bus_message_callback, EndsSignal
        <3>2. CASE stray' = stray
            BY <3>2 DEF OwnLoopSafe
        <3>3. CASE stray' # stray
            <4>1. stray' = stray \cup {<<r, dispatch[r].of>>} /\ signal[dispatch[r].of] = "destroyed"
                BY <2>3, <3>3 DEF gst_bus_message_callback, EndsSignal
            <4>2. dispatch[r].of # r
                BY <3>1, <4>1
            <4>. QED
                BY <4>1, <4>2 DEF OwnLoopSafe
        <3>. QED
            BY <3>2, <3>3
    <2>. QED
        BY <2>2, <2>3
<1>. QED
    BY <1>1, <1>2

\* A runner's own loop never touches its destroyed signal.
THEOREM OwnLoopSafeCorrect == Spec => []OwnLoopSafe
BY TypeCorrect, LoopsEndInit, LoopsEndStep, OwnLoopStep, PTL DEF Spec

-----------------------------------------------------------------------------
(* What is fed is drained.                                                  *)

\* Something has ended the pipeline: a message of its bus is on the way to its
\* signal, or has come there.
Ending(r) ==
    \/ bus[r] # <<>> \/ signal[r] = "completed"
    \/ \E l \in Runners : dispatch[l] # NoMessage /\ dispatch[l].of = r

HasEos(r) == \E i \in 1 .. Len(inside[r]) : inside[r][i] = Eos

\* DrainedUnlessLate is not inductive: unless there is an error, what is fed has
\* no EOS among it and nothing ends the pipeline before Finalize; after that the
\* EOS comes behind all samples, and only its coming out ends the pipeline.
Draining(r) ==
    errors[r] = 0 =>
        /\ phase[r] \in {"new", "failed", "unwind", "aborted", "spin", "playing"} =>
               ~HasEos(r) /\ ~Ending(r)
        /\ phase[r] \in {"drain", "stop"} /\ Ending(r) => sink[r] = Idle /\ inside[r] = <<>>
        /\ phase[r] = "stop" => Ending(r)

AllDraining == \A r \in WithAppsrc : Draining(r)

LEMMA DrainingInit == Init => AllDraining
BY RunnersAssumption DEF Init, AllDraining, Draining, Ending, HasEos

\* A main loop passes messages on from the bus to the signal, and makes none.
LEMMA LoopKeepsEnding ==
    ASSUME TypeOK, NEW l \in Runners, Loop(l), NEW r \in Runners, phase[r] # "destroyed"
    PROVE  Ending(r)' <=> Ending(r)
<1>1. signal[r] # "destroyed"
    BY DEF TypeOK
<1>2. CASE LoopRuns(l) \/ AcquireContext(l) \/ LoopReturns(l)
    BY <1>2 DEF Ending, LoopRuns, AcquireContext, LoopReturns
<1>3. CASE \E s \in Runners : PopMessage(l, s)
    <2>1. PICK s \in Runners : PopMessage(l, s)
        BY <1>3
    <2>2. Head(bus[s]) \in {"EOS", "ERROR"}
        BY <2>1, HeadTailProperties DEF TypeOK, PopMessage
    <2>3. /\ dispatch[l] = NoMessage /\ signal' = signal
          /\ dispatch' = [dispatch EXCEPT ![l] = [of |-> s, type |-> Head(bus[s])]]
          /\ [of |-> s, type |-> Head(bus[s])] # NoMessage
        BY <2>1, <2>2 DEF PopMessage, NoMessage
    <2>4. CASE s = r
        <3>1. bus[r] # <<>>
            BY <2>1, <2>4 DEF PopMessage
        <3>2. dispatch'[l] # NoMessage /\ dispatch'[l].of = r
            BY <2>3, <2>4 DEF TypeOK
        <3>. QED
            BY <3>1, <3>2 DEF Ending
    <2>5. CASE s # r
        <3>1. bus'[r] = bus[r]
            BY <2>1, <2>5 DEF TypeOK, PopMessage
        <3>2. \A m \in Runners : /\ m # l => dispatch'[m] = dispatch[m]
                                 /\ m = l => dispatch'[m].of # r /\ dispatch[m] = NoMessage
            BY <2>3, <2>5 DEF TypeOK
        <3>. QED
            BY <2>3, <3>1, <3>2 DEF Ending
    <2>. QED
        BY <2>4, <2>5
<1>4. CASE gst_bus_message_callback(l)
    <2>1. /\ dispatch[l] # NoMessage /\ bus' = bus
          /\ dispatch' = [dispatch EXCEPT ![l] = NoMessage]
        BY <1>4 DEF gst_bus_message_callback, EndsSignal
    <2>2. dispatch[l].type \in {"EOS", "ERROR"} /\ dispatch[l].of \in Runners
        BY <2>1 DEF TypeOK, Messages
    <2>3. CASE dispatch[l].of = r
        <3>1. signal'[r] = "completed"
            BY <1>1, <1>4, <2>2, <2>3 DEF TypeOK, gst_bus_message_callback, EndsSignal
        <3>. QED
            BY <2>1, <2>3, <3>1 DEF Ending
    <2>4. CASE dispatch[l].of # r
        <3>1. signal'[r] = signal[r]
            BY <1>4, <2>2, <2>4 DEF TypeOK, gst_bus_message_callback, EndsSignal
        <3>2. \A m \in Runners : m # l => dispatch'[m] = dispatch[m]
            BY <2>1 DEF TypeOK
        <3>3. dispatch'[l] = NoMessage
            BY <2>1 DEF TypeOK
        <3>. QED
            BY <2>1, <2>4, <3>1, <3>2, <3>3 DEF Ending
    <2>. QED
        BY <2>3, <2>4
<1>. QED
    BY <1>2, <1>3, <1>4 DEF Loop

\* What Draining says of a runner.
Drains(r) == <<phase[r], errors[r], inside[r], sink[r]>>

LEMMA DrainingKept ==
    ASSUME NEW r \in Runners, Draining(r), UNCHANGED Drains(r),
           phase[r] # "destroyed" => (Ending(r)' <=> Ending(r))
    PROVE  Draining(r)'
BY DEF Draining, Drains, HasEos

LEMMA LoopDraining ==
    ASSUME TypeOK, NEW l \in Runners, Loop(l), NEW r \in Runners, Draining(r)
    PROVE  Draining(r)'
<1>1. UNCHANGED Drains(r)
    BY DEF Drains, Loop, LoopRuns, AcquireContext, PopMessage, gst_bus_message_callback,
           EndsSignal, LoopReturns, pipeline
<1>. QED
    BY <1>1, LoopKeepsEnding, DrainingKept

\* The other steps of another runner.
LEMMA OthersDraining ==
    ASSUME TypeOK, NEW s \in Runners, Step(s), ~Loop(s), NEW r \in Runners, r # s, Draining(r)
    PROVE  Draining(r)'
<1>1. /\ UNCHANGED Drains(r)
      /\ UNCHANGED <<bus[r], signal[r], dispatch>>
    <2>1. CASE Create(s) \/ ElementFails(s)
        BY <2>1 DEF TypeOK, Create, CreateFails, PipelineCreateFails, Initialize, SetStatePlaying,
                    At, GoesTo, ElementFails, loops, pipeline, Drains
    <2>2. CASE Feed(s) \/ Source(s)
        BY <2>2 DEF TypeOK, Feed, Source, Produce, SourceEnds, Enter, loops, Drains
    <2>3. CASE Pipeline(s) \/ Sink(s)
        BY <2>3 DEF TypeOK, Pipeline, NewSample, LoseSample, SinkEos, Sink, CallbackReturns,
                    CallbackFails, loops, Drains
    <2>4. CASE Finalize(s) \/ Destroy(s)
        BY <2>4 DEF TypeOK, Finalize, Destroy, FinalizeUncreated, Drained, DrainTimesOut,
                    SetStateNull, QuitLoop, JoinLoop, At, GoesTo, loops, pipeline, Drains
    <2>. QED
        BY <2>1, <2>2, <2>3, <2>4 DEF Step, Runs
<1>2. Ending(r)' <=> Ending(r)
    BY <1>1 DEF Ending
<1>. QED
    BY <1>1, <1>2, DrainingKept

LEMMA CreateDraining ==
    ASSUME TypeOK, NEW r \in Runners, Create(r), Draining(r)
    PROVE  Draining(r)'
<1>1. /\ UNCHANGED <<errors, inside, sink, bus, dispatch>>
      /\ signal'[r] # "completed" \/ signal'[r] = signal[r]
      /\ phase[r] \in {"new", "spin"}
      /\ phase'[r] \in {"failed", "unwind", "spin", "playing"}
    BY DEF TypeOK, Create, CreateFails, PipelineCreateFails, Initialize, SetStatePlaying,
           At, GoesTo, loops, pipeline
<1>2. Ending(r)' => Ending(r)
    BY <1>1 DEF Ending
<1>. QED
    BY <1>1, <1>2 DEF Draining, HasEos

\* A sample that is fed is not an EOS.
LEMMA FeedDraining ==
    ASSUME TypeOK, NEW r \in Runners, Feed(r), Draining(r)
    PROVE  Draining(r)'
<1>1. /\ UNCHANGED <<phase, errors, sink, bus, signal, dispatch>> /\ phase[r] = "playing"
      /\ inside'[r] = Append(inside[r], entered[r] + 1) /\ entered[r] \in Nat
    BY DEF TypeOK, Feed, Enter, At, loops
<1>2. /\ Len(inside'[r]) = Len(inside[r]) + 1 /\ Len(inside[r]) \in Nat
      /\ inside'[r][Len(inside[r]) + 1] = entered[r] + 1
      /\ \A i \in 1 .. Len(inside[r]) : inside'[r][i] = inside[r][i]
    BY <1>1, AppendProperties, LenProperties DEF TypeOK, Samples, Eos
<1>3. HasEos(r)' => HasEos(r)
    BY <1>1, <1>2 DEF HasEos, Eos
<1>4. Ending(r)' <=> Ending(r)
    BY <1>1 DEF Ending
<1>. QED
    BY <1>1, <1>3, <1>4 DEF Draining

\* An EOS comes out of the pipeline when the sink is idle and nothing follows.
LEMMA PipelineDraining ==
    ASSUME TypeOK, NEW r \in Runners, Pipeline(r), Draining(r)
    PROVE  Draining(r)'
<1>1. /\ UNCHANGED <<phase, errors, signal, dispatch>>
      /\ sink[r] = Idle /\ inside[r] # <<>> /\ inside[r] \in Seq(Samples \cup {Eos})
    BY DEF TypeOK, Pipeline, NewSample, LoseSample, SinkEos, Streams, loops
<1>2. /\ Len(inside[r]) \in Nat \ {0} /\ Head(inside[r]) = inside[r][1]
      /\ Len(Tail(inside[r])) = Len(inside[r]) - 1
      /\ \A i \in 1 .. Len(Tail(inside[r])) : Tail(inside[r])[i] = inside[r][i + 1]
    BY <1>1, HeadTailProperties, LenProperties, EmptySeq
<1>3. CASE NewSample(r) \/ LoseSample(r)
    <2>1. inside'[r] = Tail(inside[r]) /\ bus' = bus
        BY <1>3 DEF TypeOK, NewSample, LoseSample
    <2>2. HasEos(r)' => HasEos(r)
        BY <1>2, <2>1 DEF HasEos
    <2>3. Ending(r)' <=> Ending(r)
        BY <1>1, <2>1 DEF Ending
    <2>. QED
        BY <1>1, <2>2, <2>3 DEF Draining
<1>4. CASE SinkEos(r)
    <2>1. HasEos(r)
        BY <1>2, <1>4 DEF HasEos, SinkEos
    <2>2. /\ inside'[r] = <<>> /\ sink'[r] = Idle /\ bus'[r] = Append(bus[r], "EOS")
        BY <1>1, <1>4 DEF TypeOK, SinkEos
    <2>3. bus'[r] # <<>>
        <3>1. bus[r] \in Seq({"EOS", "ERROR"})
            BY DEF TypeOK
        <3>2. Append(bus[r], "EOS") # <<>>
            BY <3>1, AppendProperties
        <3>. QED
            BY <2>2, <3>2
    <2>. QED
        BY <1>1, <2>1, <2>2, <2>3 DEF Draining, Ending
<1>. QED
    BY <1>3, <1>4 DEF Pipeline

LEMMA SinkDraining ==
    ASSUME TypeOK, NEW r \in Runners, Sink(r) \/ ElementFails(r), Draining(r)
    PROVE  Draining(r)'
<1>1. CASE CallbackReturns(r)
    <2>1. UNCHANGED <<phase, errors, inside, bus, signal, dispatch>> /\ sink'[r] = Idle
        BY <1>1 DEF TypeOK, CallbackReturns, loops
    <2>2. Ending(r)' <=> Ending(r)
        BY <2>1 DEF Ending
    <2>. QED
        BY <2>1, <2>2 DEF Draining, HasEos
<1>2. CASE CallbackFails(r) \/ ElementFails(r)
    <2>1. errors'[r] # 0
        BY <1>2 DEF TypeOK, CallbackFails, ElementFails
    <2>. QED
        BY <2>1 DEF Draining
<1>. QED
    BY <1>1, <1>2 DEF Sink

\* Without an error, Finalize finds that nothing has ended the pipeline, and
\* goes on only when the EOS has come out.
LEMMA DestroyDraining ==
    ASSUME TypeOK, NEW r \in Runners, Finalize(r) \/ Destroy(r), Draining(r)
    PROVE  Draining(r)'
<1>1. CASE Finalize(r)
    <2>1. UNCHANGED <<errors, sink, bus, signal, dispatch>> /\ phase[r] = "playing"
        BY <1>1 DEF Finalize, At, loops
    <2>2. Ending(r)' <=> Ending(r)
        BY <2>1 DEF Ending
    <2>3. signal[r] # "completed" => phase'[r] = "drain"
        BY <1>1 DEF TypeOK, Finalize, GoesTo
    <2>4. errors[r] = 0 => ~Ending(r) /\ signal[r] # "completed"
        BY <2>1 DEF Draining, Ending
    <2>. QED
        BY <2>1, <2>2, <2>3, <2>4 DEF Draining
<1>2. CASE FinalizeUncreated(r)
    <2>1. /\ UNCHANGED <<errors, inside, sink, bus, signal, dispatch>>
          /\ phase[r] = "unwind" /\ phase'[r] = "aborted"
        BY <1>2 DEF TypeOK, FinalizeUncreated, At, GoesTo, loops, pipeline
    <2>2. Ending(r)' <=> Ending(r)
        BY <2>1 DEF Ending
    <2>. QED
        BY <2>1, <2>2 DEF Draining, HasEos
<1>3. CASE Drained(r)
    <2>1. /\ UNCHANGED <<errors, inside, sink, bus, signal, dispatch>>
          /\ phase[r] = "drain" /\ phase'[r] = "stop" /\ signal[r] = "completed"
        BY <1>3 DEF TypeOK, Drained, At, GoesTo, loops, pipeline
    <2>. QED
        BY <2>1 DEF Draining, Ending
<1>4. CASE DrainTimesOut(r) \/ SetStateNull(r) \/ QuitLoop(r) \/ JoinLoop(r)
    <2>1. phase'[r] \in {"late", "quit", "join", "destroyed"}
        BY <1>4 DEF TypeOK, DrainTimesOut, SetStateNull, QuitLoop, JoinLoop, GoesTo
    <2>. QED
        BY <2>1 DEF Draining
<1>. QED
    BY <1>1, <1>2, <1>3, <1>4 DEF Destroy

LEMMA DrainingStep == TypeOK /\ AllDraining /\ [Next]_vars => AllDraining'
<1> SUFFICES ASSUME TypeOK, AllDraining, [Next]_vars, NEW r \in WithAppsrc PROVE Draining(r)'
    BY DEF AllDraining
<1>1. r \in Runners /\ Draining(r)
    BY RunnersAssumption DEF AllDraining
<1>2. CASE UNCHANGED vars
    <2>1. UNCHANGED Drains(r) /\ (Ending(r)' <=> Ending(r))
        BY <1>2 DEF vars, loops, pipeline, Drains, Ending
    <2>. QED
        BY <1>1, <2>1, DrainingKept
<1>3. CASE Next
    <2>1. PICK s \in Runners : Step(s)
        BY <1>3 DEF Next, Step
    <2>2. CASE Loop(s)
        BY <1>1, <2>2, LoopDraining
    <2>3. CASE ~Loop(s) /\ s # r
        BY <1>1, <2>1, <2>3, OthersDraining
    <2>4. CASE ~Loop(s) /\ s = r
        <3>1. ~Source(r)
            BY DEF Source, Produce, SourceEnds
        <3>. QED
            BY <1>1, <2>1, <2>4, <3>1, CreateDraining, FeedDraining, PipelineDraining,
               SinkDraining, DestroyDraining DEF Step, Runs
    <2>. QED
        BY <2>2, <2>3, <2>4
<1>. QED
    BY <1>2, <1>3

\* Whatever was fed has come out of the pipeline when Finalize stops it, unless
\* the wait has timed out or an error has stopped the pipeline before.
THEOREM DrainedUnlessLateCorrect == Spec => []DrainedUnlessLate
<1>1. AllDraining => DrainedUnlessLate
    BY DEF AllDraining, Draining, DrainedUnlessLate, At
<1>. QED
    BY <1>1, TypeCorrect, DrainingInit, DrainingStep, PTL DEF Spec

-----------------------------------------------------------------------------
(* Samples pass through a pipeline in their order.                          *)

\* What has left the pipeline came before n.
Before(r, n) == sink[r] < n /\ \A k \in 1 .. Len(delivered[r]) : delivered[r][k] < n

Ordered(r) ==
    /\ \A k \in 1 .. Len(delivered[r]) : delivered[r][k] <= entered[r]
    /\ sink[r] <= entered[r]
    /\ sink[r] # Idle => \A k \in 1 .. Len(delivered[r]) : delivered[r][k] < sink[r]
    /\ \A i \in 1 .. Len(inside[r]) : inside[r][i] # Eos =>
          inside[r][i] <= entered[r] /\ Before(r, inside[r][i])
    /\ \A i, j \in 1 .. Len(inside[r]) :
          i < j /\ inside[r][i] # Eos /\ inside[r][j] # Eos => inside[r][i] < inside[r][j]

AllOrdered == \A r \in Runners : Ordered(r)

Moved(r) == <<entered[r], inside[r], sink[r], delivered[r]>>

LEMMA OrderedInit == Init => AllOrdered
BY DEF Init, AllOrdered, Ordered, Before, Idle

LEMMA SampleTypes ==
    ASSUME TypeOK, NEW r \in Runners
    PROVE  /\ entered[r] \in Nat /\ sink[r] \in Nat
           /\ inside[r] \in Seq(Nat) /\ delivered[r] \in Seq(Nat)
BY DEF TypeOK, Samples, Eos, Idle

LEMMA UnmovedOrdered ==
    ASSUME NEW r \in Runners, Ordered(r), UNCHANGED Moved(r)
    PROVE  Ordered(r)'
BY DEF Moved, Ordered, Before

LEMMA OthersUnmoved ==
    ASSUME TypeOK, NEW r \in Runners, Step(r), NEW s \in Runners, s # r
    PROVE  UNCHANGED Moved(s)
<1>1. CASE Create(r) \/ ElementFails(r) \/ Loop(r)
    BY <1>1 DEF Create, CreateFails, PipelineCreateFails, Initialize, SetStatePlaying, ElementFails,
                Loop, LoopRuns, AcquireContext, PopMessage, gst_bus_message_callback, EndsSignal,
                LoopReturns, pipeline, Moved
<1>2. CASE Feed(r) \/ Source(r)
    BY <1>2 DEF TypeOK, Feed, Source, Produce, SourceEnds, Enter, Moved
<1>3. CASE Pipeline(r) \/ Sink(r)
    BY <1>3 DEF TypeOK, Pipeline, NewSample, LoseSample, SinkEos, Sink, CallbackReturns,
                CallbackFails, Moved
<1>4. CASE Finalize(r) \/ Destroy(r)
    BY <1>4 DEF TypeOK, Finalize, Destroy, FinalizeUncreated, Drained, DrainTimesOut, SetStateNull,
                QuitLoop, JoinLoop, pipeline, Moved
<1>. QED
    BY <1>1, <1>2, <1>3, <1>4 DEF Step, Runs

\* A new sample is later than all others.
LEMMA EnterOrdered == ASSUME TypeOK, NEW r \in Runners, Ordered(r), Enter(r) PROVE Ordered(r)'
<1>1. /\ entered'[r] = entered[r] + 1 /\ sink'[r] = sink[r] /\ delivered'[r] = delivered[r]
      /\ inside'[r] = Append(inside[r], entered[r] + 1)
    BY DEF TypeOK, Enter
<1>2. /\ Len(inside'[r]) = Len(inside[r]) + 1
      /\ inside'[r][Len(inside[r]) + 1] = entered[r] + 1
      /\ \A i \in 1 .. Len(inside[r]) : inside'[r][i] = inside[r][i]
    BY <1>1, SampleTypes, AppendProperties
<1>3. Len(inside[r]) \in Nat /\ \A i \in 1 .. Len(inside[r]) : inside[r][i] \in Nat
    BY SampleTypes, LenProperties, ElementOfSeq
<1>4. Len(delivered[r]) \in Nat /\ \A k \in 1 .. Len(delivered[r]) : delivered[r][k] \in Nat
    BY SampleTypes, LenProperties, ElementOfSeq
<1>5. entered[r] \in Nat /\ sink[r] \in Nat
    BY SampleTypes
<1>6. /\ \A k \in 1 .. Len(delivered'[r]) : delivered'[r][k] <= entered'[r]
      /\ sink'[r] <= entered'[r]
      /\ sink'[r] # Idle => \A k \in 1 .. Len(delivered'[r]) : delivered'[r][k] < sink'[r]
    BY <1>1, <1>4, <1>5 DEF Ordered
<1>7. Before(r, entered[r] + 1)
    BY <1>4, <1>5 DEF Ordered, Before
<1>8. \A i \in 1 .. Len(inside[r]) : inside[r][i] # Eos =>
          inside[r][i] <= entered[r] /\ Before(r, inside[r][i])
    BY DEF Ordered
<1>9. \A i \in 1 .. Len(inside'[r]) : inside'[r][i] # Eos =>
          inside'[r][i] <= entered'[r] /\ Before(r, inside'[r][i])
    <2> SUFFICES ASSUME NEW i \in 1 .. Len(inside'[r]), inside'[r][i] # Eos
                 PROVE  inside'[r][i] <= entered'[r] /\ Before(r, inside'[r][i])
        OBVIOUS
    <2>1. CASE i = Len(inside[r]) + 1
        BY <2>1, <1>1, <1>2, <1>5, <1>7
    <2>2. CASE i \in 1 .. Len(inside[r])
        BY <2>2, <1>1, <1>2, <1>3, <1>5, <1>8
    <2>. QED
        BY <2>1, <2>2, <1>2, <1>3
<1>10. \A i, j \in 1 .. Len(inside'[r]) :
          i < j /\ inside'[r][i] # Eos /\ inside'[r][j] # Eos => inside'[r][i] < inside'[r][j]
    BY <1>1, <1>2, <1>3, <1>5, <1>8 DEF Ordered
<1>. QED
    BY <1>1, <1>6, <1>9, <1>10 DEF Ordered, Before

\* An EOS at the end does not matter.
LEMMA AppendEosOrdered ==
    ASSUME TypeOK, NEW r \in Runners, Ordered(r), inside'[r] = Append(inside[r], Eos),
           UNCHANGED <<entered[r], sink[r], delivered[r]>>
    PROVE  Ordered(r)'
<1>1. /\ Len(inside'[r]) = Len(inside[r]) + 1
      /\ inside'[r][Len(inside[r]) + 1] = Eos
      /\ \A i \in 1 .. Len(inside[r]) : inside'[r][i] = inside[r][i]
    BY SampleTypes, AppendProperties DEF Eos
<1>2. Len(inside[r]) \in Nat
    BY SampleTypes, LenProperties
<1>. QED
    BY <1>1, <1>2 DEF Ordered, Before

\* Without its head the rest is in order, and comes after the head.
LEMMA TailOrdered ==
    ASSUME TypeOK, NEW r \in Runners, Ordered(r), inside[r] # <<>>, Head(inside[r]) # Eos,
           inside'[r] = Tail(inside[r]), UNCHANGED <<entered[r], delivered[r]>>,
           sink'[r] \in {sink[r], Head(inside[r])}
    PROVE  Ordered(r)'
<1>1. /\ Len(inside'[r]) = Len(inside[r]) - 1
      /\ \A i \in 1 .. Len(inside'[r]) : inside'[r][i] = inside[r][i + 1]
      /\ Head(inside[r]) = inside[r][1]
    BY SampleTypes, HeadTailProperties
<1>2. Len(inside[r]) \in Nat \ {0} /\ \A i \in 1 .. Len(inside[r]) : inside[r][i] \in Nat
    BY SampleTypes, LenProperties, ElementOfSeq, EmptySeq
<1>3. Head(inside[r]) <= entered[r] /\ Before(r, Head(inside[r]))
    BY <1>1, <1>2 DEF Ordered
<1>4. \A i \in 1 .. Len(inside'[r]) : inside'[r][i] # Eos =>
          /\ inside'[r][i] <= entered[r] /\ Before(r, inside'[r][i])
          /\ Head(inside[r]) < inside'[r][i]
    BY <1>1, <1>2 DEF Ordered
<1>5. \A i, j \in 1 .. Len(inside'[r]) :
          i < j /\ inside'[r][i] # Eos /\ inside'[r][j] # Eos => inside'[r][i] < inside'[r][j]
    BY <1>1, <1>2 DEF Ordered
<1>. QED
    BY <1>3, <1>4, <1>5 DEF Ordered, Before

\* The sample at the sink is later than what was delivered, earlier than what
\* is inside.
LEMMA DeliverOrdered ==
    ASSUME TypeOK, NEW r \in Runners, Ordered(r), sink[r] # Idle, sink'[r] = Idle,
           delivered'[r] = Append(delivered[r], sink[r]), UNCHANGED <<entered[r], inside[r]>>
    PROVE  Ordered(r)'
<1>1. /\ Len(delivered'[r]) = Len(delivered[r]) + 1
      /\ delivered'[r][Len(delivered[r]) + 1] = sink[r]
      /\ \A k \in 1 .. Len(delivered[r]) : delivered'[r][k] = delivered[r][k]
    BY SampleTypes, AppendProperties
<1>2. /\ Len(delivered[r]) \in Nat
      /\ \A i \in 1 .. Len(inside[r]) : inside[r][i] \in Nat
    BY SampleTypes, LenProperties, ElementOfSeq
<1>3. \A i \in 1 .. Len(inside[r]) : inside[r][i] # Eos => Before(r, inside[r][i])'
    BY <1>1, <1>2 DEF Ordered, Before, Eos, Idle
<1>. QED
    BY <1>1, <1>2, <1>3, SampleTypes DEF Ordered, Idle

LEMMA EmptyOrdered ==
    ASSUME TypeOK, NEW r \in Runners, Ordered(r), inside'[r] = <<>>,
           UNCHANGED <<entered[r], sink[r], delivered[r]>>
    PROVE  Ordered(r)'
BY DEF Ordered, Before

LEMMA StepOrdered == ASSUME TypeOK, NEW r \in Runners, Ordered(r), Step(r) PROVE Ordered(r)'
<1>1. CASE Create(r) \/ ElementFails(r) \/ Loop(r)
    <2>1. UNCHANGED Moved(r)
        BY <1>1 DEF Create, CreateFails, PipelineCreateFails, Initialize, SetStatePlaying,
                    ElementFails, Loop, LoopRuns, AcquireContext, PopMessage,
                    gst_bus_message_callback, EndsSignal, LoopReturns, pipeline, Moved
    <2>. QED
        BY <2>1, UnmovedOrdered
<1>2. CASE Feed(r) \/ Produce(r)
    BY <1>2, EnterOrdered DEF Feed, Produce
<1>3. CASE SourceEnds(r)
    BY <1>3, AppendEosOrdered DEF SourceEnds, TypeOK
<1>4. CASE NewSample(r) \/ LoseSample(r)
    BY <1>4, TailOrdered DEF NewSample, LoseSample, Streams, TypeOK
<1>5. CASE SinkEos(r) \/ SetStateNull(r)
    BY <1>5, EmptyOrdered DEF SinkEos, SetStateNull, TypeOK
<1>6. CASE Sink(r)
    BY <1>6, DeliverOrdered DEF Sink, CallbackReturns, CallbackFails, TypeOK
<1>7. CASE Finalize(r)
    <2>1. CASE signal[r] = "completed"
        BY <1>7, <2>1, UnmovedOrdered DEF Finalize, Moved
    <2>2. CASE signal[r] # "completed"
        BY <1>7, <2>2, AppendEosOrdered DEF Finalize, TypeOK
    <2>. QED
        BY <2>1, <2>2
<1>8. CASE FinalizeUncreated(r) \/ Drained(r) \/ DrainTimesOut(r) \/ QuitLoop(r) \/ JoinLoop(r)
    <2>1. UNCHANGED Moved(r)
        BY <1>8 DEF FinalizeUncreated, Drained, DrainTimesOut, QuitLoop, JoinLoop, pipeline, Moved
    <2>. QED
        BY <2>1, UnmovedOrdered
<1>. QED
    BY <1>1, <1>2, <1>3, <1>4, <1>5, <1>6, <1>7, <1>8 DEF Step, Source, Runs, Pipeline, Destroy

LEMMA OrderedStep == TypeOK /\ AllOrdered /\ [Next]_vars => AllOrdered'
<1> SUFFICES ASSUME TypeOK, AllOrdered, [Next]_vars, NEW s \in Runners PROVE Ordered(s)'
    BY DEF AllOrdered
<1>1. CASE UNCHANGED vars
    BY <1>1, UnmovedOrdered DEF vars, pipeline, Moved, AllOrdered
<1>2. CASE Next
    <2>1. PICK r \in Runners : Step(r)
        BY <1>2 DEF Next, Step
    <2>. QED
        BY <2>1, StepOrdered, OthersUnmoved, UnmovedOrdered DEF AllOrdered
<1>. QED
    BY <1>1, <1>2

\* Every pipeline delivers in order, whatever it loses.
THEOREM OrderedAlways == Spec => []AllOrdered
BY TypeCorrect, OrderedInit, OrderedStep, PTL DEF Spec

-----------------------------------------------------------------------------
(* Yielders.                                                                *)

\* What is proved of all runners holds beside and below a yielder.
LEMMA YielderStepIsRunnerStep == [YielderNext]_yielder_vars => [Next]_vars
<1> SUFFICES ASSUME [YielderNext]_yielder_vars PROVE [Next]_vars
    OBVIOUS
<1>1. gstreamer_runner_ \in Runners
    BY YielderAssumption, RunnersAssumption
<1>. QED
    BY <1>1 DEF YielderNext, yielder_vars, Next, Yielder, SignalEOS, DeliverEos, CreateFailsWithEos,
                SignalEOSAgain, YieldImage, YielderFeed, OtherRunner, GiveEos, Sink

LEMMA YielderIsRunner == YielderSpec => Spec
<1>1. YielderInit => Init
    BY DEF YielderInit
<1>. QED
    BY <1>1, YielderStepIsRunnerStep, PTL DEF YielderSpec, Spec

-----------------------------------------------------------------------------
\* The EOS is given when there is no runner, or none any more.
EosLast ==
    /\ eos_given \in Nat
    /\ eos_given > 0 => phase[gstreamer_runner_] \in {"failed", "destroyed"}

LEMMA EosLastInit == YielderInit => EosLast
BY DEF YielderInit, EosLast

\* Nothing leads out of these two phases.
LEMMA GoneStaysGone ==
    ASSUME TypeOK, [Next]_vars, NEW r \in Runners, phase[r] \in {"failed", "destroyed"}
    PROVE  phase'[r] = phase[r]
<1>1. CASE UNCHANGED vars
    BY <1>1 DEF vars
<1>2. CASE Next
    <2>1. PICK s \in Runners : Step(s)
        BY <1>2 DEF Next, Step
    <2>2. CASE Create(s) \/ Finalize(s) \/ Destroy(s)
        BY <2>2 DEF TypeOK, Create, CreateFails, PipelineCreateFails, Initialize, SetStatePlaying,
                    Finalize, Destroy, FinalizeUncreated, Drained, DrainTimesOut, SetStateNull,
                    QuitLoop, JoinLoop, At, GoesTo
    <2>3. CASE Feed(s) \/ Source(s) \/ Sink(s) \/ ElementFails(s) \/ Pipeline(s) \/ Loop(s)
        BY <2>3 DEF Feed, Source, Produce, SourceEnds, Enter, Sink, CallbackReturns, CallbackFails,
                    ElementFails, Pipeline, NewSample, LoseSample, SinkEos, Loop, LoopRuns,
                    AcquireContext, PopMessage, gst_bus_message_callback, EndsSignal, LoopReturns
    <2>. QED
        BY <2>1, <2>2, <2>3 DEF Step, Runs
<1>. QED
    BY <1>1, <1>2

LEMMA EosLastStep == TypeOK /\ EosLast /\ [YielderNext]_yielder_vars => EosLast'
<1> SUFFICES ASSUME TypeOK, EosLast, [YielderNext]_yielder_vars PROVE EosLast'
    OBVIOUS
<1>1. gstreamer_runner_ \in Runners
    BY YielderAssumption, RunnersAssumption
<1>2. CASE UNCHANGED eos_given
    BY <1>1, <1>2, YielderStepIsRunnerStep, GoneStaysGone DEF EosLast
<1>3. CASE eos_given' # eos_given
    <2>1. DeliverEos \/ CreateFailsWithEos \/ SignalEOSAgain
        BY <1>3 DEF YielderNext, yielder_vars, Yielder, SignalEOS, YieldImage
    <2>. QED
        BY <2>1 DEF DeliverEos, CreateFailsWithEos, SignalEOSAgain, GiveEos, EosLast, At, vars
<1>. QED
    BY <1>2, <1>3

-----------------------------------------------------------------------------
(* The promise.                                                             *)

LEMMA PromiseInit == YielderInit => Promise!Init
<1>1. gstreamer_runner_ \in Runners
    BY YielderAssumption, RunnersAssumption
<1>. QED
    BY <1>1 DEF YielderInit, Init, Promise!Init

\* A step that gives the user nothing is a stuttering step.
LEMMA SilentStep ==
    ASSUME UNCHANGED <<entered[gstreamer_runner_], delivered[gstreamer_runner_], eos_given>>
    PROVE  UNCHANGED <<entered[gstreamer_runner_], delivered[gstreamer_runner_], eos_given > 0>>
OBVIOUS

LEMMA PromiseStep ==
    ASSUME TypeOK, Quiet, AllOrdered, EosLast, [YielderNext]_yielder_vars
    PROVE  [Promise!Next]_<<entered[gstreamer_runner_], delivered[gstreamer_runner_], eos_given > 0>>
<1>. DEFINE r == gstreamer_runner_
<1>1. r \in Runners /\ r \in WithAppsrc
    BY YielderAssumption, RunnersAssumption
<1>2. CASE DeliverEos \/ CreateFailsWithEos \/ SignalEOSAgain
    BY <1>2 DEF DeliverEos, CreateFailsWithEos, SignalEOSAgain, GiveEos, vars, EosLast,
                Promise!Next, Promise!SignalEOS
<1>3. CASE Feed(r) /\ UNCHANGED eos_given
    <2>1. ~(eos_given > 0)
        BY <1>3 DEF Feed, At, EosLast
    <2>2. entered'[r] = entered[r] + 1 /\ delivered' = delivered
        BY <1>1, <1>3 DEF Feed, Enter, TypeOK
    <2>. QED
        BY <1>3, <2>1, <2>2 DEF Promise!Next, Promise!Feed
<1>4. CASE CallbackReturns(r) /\ UNCHANGED eos_given
    <2>1. ~(eos_given > 0)
        BY <1>1, <1>4 DEF CallbackReturns, EosLast, Quiet, Resting
    <2>2. delivered'[r] = Append(delivered[r], sink[r]) /\ entered' = entered
        BY <1>1, <1>4 DEF CallbackReturns, TypeOK
    <2>3. /\ sink[r] \in 1 .. entered[r]
          /\ \A k \in 1 .. Len(delivered[r]) : delivered[r][k] < sink[r]
        BY <1>1, <1>4, SampleTypes DEF CallbackReturns, AllOrdered, Ordered, Idle
    <2>. QED
        BY <1>4, <2>1, <2>2, <2>3 DEF Promise!Next, Promise!Yield
<1>5. CASE \E s \in Runners \ {r} : Step(s) /\ UNCHANGED eos_given
    BY <1>1, <1>5, OthersUnmoved DEF Moved
<1>6. CASE /\ Create(r) \/ Source(r) \/ ElementFails(r) \/ Runs(r) \/ Finalize(r)
           /\ UNCHANGED eos_given
    BY <1>1, <1>6 DEF Create, CreateFails, PipelineCreateFails, Initialize, SetStatePlaying, Source,
           Produce, SourceEnds, ElementFails, Runs, Pipeline, NewSample, LoseSample, SinkEos, Loop,
           LoopRuns, AcquireContext, PopMessage, gst_bus_message_callback, EndsSignal, LoopReturns,
           Destroy, FinalizeUncreated, Drained, DrainTimesOut, SetStateNull, QuitLoop, JoinLoop,
           Finalize
<1>7. CASE UNCHANGED yielder_vars
    BY <1>7 DEF yielder_vars, vars
<1>8. CASE YielderNext
    <2>1. CASE Yielder
        BY <2>1, <1>2, <1>4, <1>6 DEF Yielder, SignalEOS, YieldImage
    <2>2. CASE \E s \in Runners :
                  /\ YielderFeed(s) \/ Create(s) \/ Source(s) \/ ElementFails(s) \/ Runs(s)
                  /\ UNCHANGED eos_given
        BY <2>2, <1>3, <1>5, <1>6 DEF YielderFeed, Step
    <2>3. CASE \E s \in Runners \ {r} : OtherRunner(s) /\ UNCHANGED eos_given
        BY <2>3, <1>5 DEF OtherRunner, Step
    <2>. QED
        BY <1>8, <2>1, <2>2, <2>3 DEF YielderNext
<1>. QED
    BY <1>7, <1>8

\* A yielder implements ImageYielder: images in order, and none after the EOS.
THEOREM YielderRefinement == YielderSpec => ImplementsImageYielder
<1>1. YielderSpec => [](TypeOK /\ Quiet /\ AllOrdered)
    BY YielderIsRunner, TypeCorrect, QuietAlways, OrderedAlways, PTL
<1>2. YielderSpec => []EosLast
    BY <1>1, EosLastInit, EosLastStep, PTL DEF YielderSpec
<1>. QED
    BY <1>1, <1>2, PromiseInit, PromiseStep, PTL
    DEF YielderSpec, ImplementsImageYielder, Promise!Spec
=============================================================================
