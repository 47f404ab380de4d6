SPECIFICATION FairSpec
CONSTANTS
    NProbes = 4
    Foreign <- MiddleTwo
    RunStop = 1
    NTraces = 2
    MaxWorks = 2
    MaxLoads = 2
INVARIANTS Dwc3IInv CleanAfterUnload ProbesAllOrNone NoProbeInFreedText
PROPERTIES UnloadsEnd
