SPECIFICATION FairSpec
CONSTANTS
    max_frames_per_file = 2
    working_buffer_size = 2
    LastFrame = 3
INVARIANTS FramesAccounted FilesFilled VideoSafe OkMeansDone
PROPERTY RunReturns
CHECK_DEADLOCK FALSE
