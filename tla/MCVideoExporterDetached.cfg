SPECIFICATION Spec
CONSTANTS
    max_frames_per_file = 2
    working_buffer_size = 2
    LastFrame = 2
INVARIANT KeepsWorking
CHECK_DEADLOCK FALSE
