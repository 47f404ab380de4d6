SPECIFICATION DumpFairSpec
CONSTANTS
    c1 = c1
    c2 = c2
    c3 = c3
    Nobody = Nobody
    CPU <- ThreeCPUs
    Threads <- ThreeCPUs
    Active <- First
    Wedged <- NoCPU
    IrqOff <- NoCPU
    Timeout = 6
    BacktraceWait = 0
    BarkTime = 14
    Prompt = TRUE
    MaxNow = 15
    Late <- LastTwo
    DumpTime = 1
    Dump1Window = 2
    Dump2Trigger = 2
    Dump2Window = 4
    PanicWindow = 5
INVARIANTS DumpIInv SnapshotsWhole DetectionFinal DumpsComplete PanicBeforeBark
PROPERTIES DetectedPanics StuckPanics
