SPECIFICATION DeferFairSpec
CONSTANTS
    NProbes = 3
    Defer = 5
    Bursts <- TwoBursts
    MaxLoads = 2
INVARIANTS DeferIInv WarnsOnlyAfterFailure NothingLeft FlagAfterCancel NoStopInBurst
PROPERTIES UnloadEnds
