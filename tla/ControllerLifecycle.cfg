\* Two events for a channel of one, and two reports for another; the process ends.
CONSTANTS
    MaxEvents = 2
    BufferSize = 1
    MaxReports = 2
    ReportBuffer = 1
SPECIFICATION FairLifecycleSpec
INVARIANTS LifecycleTypeOK AtMostOnce NothingLostWhileRunning
INVARIANTS NothingRunsAfterStop
PROPERTIES EventsReachController NoIdleLeader ProcessEnds ReportsJudged
CHECK_DEADLOCK FALSE
