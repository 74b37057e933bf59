CONSTANTS
    MaxEvents = 2
    BufferSize = 1
SPECIFICATION Spec
INVARIANT NoSendOnClosedChannel
CHECK_DEADLOCK FALSE
