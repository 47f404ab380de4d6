SPECIFICATION TestSpec
CONSTANTS
    CPU <- ThreeCPUs
    Threads <- ThreeCPUs
    Active <- First
    Wedged <- Nobody
    IrqOff <- Nobody
    Timeout = 3
    BacktraceWait = 10
    BarkTime = 11
    Prompt = TRUE
    MaxNow = 12
    Tests <- DelayTests
    Modes <- Both
    Targets <- ThreeCPUs
INVARIANTS DelayAlwaysPanics
