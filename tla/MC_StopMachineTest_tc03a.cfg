SPECIFICATION TestSpec
CONSTANTS
    CPU <- ThreeCPUs
    Threads <- ThreeCPUs
    Active <- First
    Wedged <- Nobody
    IrqOff <- Nobody
    Timeout = 3
    BacktraceWait = 10
    BarkTime = 11
    Prompt = TRUE
    MaxNow = 12
    Tests <- TC03
    Modes <- ModeA
    Targets <- ThreeCPUs
INVARIANTS ContextOutlivesWork
