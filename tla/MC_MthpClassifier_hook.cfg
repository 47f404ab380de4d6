SPECIFICATION MthpSpec
CONSTANTS
    Ids <- TwoIds
    Addrs <- ThreeAddrs
    RegionOf <- TwoRegions
    Elems <- TwoElems
    FILL_WARM = 2
    FILL_HOT = 3
    FILL_VHOT = 4
    VMA_CACHE_TTL = 1
    Worlds <- ThreadsOnly
INVARIANT HookFindsHint
