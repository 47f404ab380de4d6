SPECIFICATION Spec
CONSTANTS
    c1 = c1
    c2 = c2
    c3 = c3
    CPU <- ThreeCPUs
    Threads <- Pair
    Active <- First
    Wedged <- Second
    IrqOff <- Second
    Timeout = 3
    BacktraceWait = 10
    BarkTime = 11
    Prompt = TRUE
    MaxNow = 12
INVARIANTS PanicBeforeBark
