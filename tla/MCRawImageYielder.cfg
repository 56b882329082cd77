SPECIFICATION FairYielderSpec
CONSTANTS
    Runners <- MCRunners
    WithAppsrc <- MCWithAppsrc
    WithAppsink <- MCWithAppsink
    gstreamer_runner_ <- MCRunner
    LastSample <- MCLastSample
    MaxErrors <- MCMaxErrors
    MaxSignals = 2
INVARIANTS OwnLoopSafe QuietAfterFinalize DrainedUnlessLate
PROPERTIES ImplementsImageYielder CompletionSeen DestructorReturns
CHECK_DEADLOCK FALSE
