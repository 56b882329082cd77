SPECIFICATION YielderSpec
CONSTANTS
    Runners <- MCRunners
    WithAppsrc <- MCWithAppsrc
    WithAppsink <- MCWithAppsink
    gstreamer_runner_ <- MCRunner
    LastSample <- MCLastSample
    MaxErrors <- MCMaxErrors
    MaxSignals = 2
INVARIANT CreateReturnsError
CHECK_DEADLOCK FALSE
