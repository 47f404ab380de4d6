SPECIFICATION FairSpec
CONSTANTS
    c1 = c1
    c2 = c2
    c3 = c3
    CPU <- ThreeCPUs
    Threads <- ThreeCPUs
    Active <- First
    Wedged <- Nobody
    IrqOff <- Nobody
    Timeout = 1
    BacktraceWait = 2
    BarkTime = 3
    Prompt = FALSE
    MaxNow = 3
INVARIANTS IInv FnRunsAlone NobodyLeavesEarly HangHasCause
PROPERTIES NoStateSkipped BarrierSpec StopEnds
