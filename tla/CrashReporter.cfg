\* The noise of a caught exception is reported first, the crash itself repeats it.
CONSTANTS
    Threads = {"t1", "t2"}
    Faults = {"bug", "noise", "wild", "throw"}
    fatal = {"bug", "noise", "wild"}
    av = {"bug", "noise", "wild"}
    eip_in <- MCEip
    caller_in <- MCCaller
    MaxReports = 4
    MaxFaults = 4
SPECIFICATION ReportSpec
INVARIANTS KillerIsReported
CHECK_DEADLOCK FALSE
