CONSTANTS
    PAGE = 2
    BASE = 4
    WORD = 64
    KernelStart = 1
    KernelEnd = 5
    PagesPerUnit = 4
    IDENTITY_LIMIT = 32
    MemoryMaps <- MCMaps
    Sizes = {1, 2, 3}
SPECIFICATION Spec
INVARIANTS OneOwner NeverPanics OnePageFound BitmapKept LoopsAgree
