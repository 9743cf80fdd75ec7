CONSTANTS
    BCO_FORK_BLOCK_HEIGHT <- MC_Fork
    BCOInitBlockCount <- MC_InitCount
    BCO_BLOCK_UNIXTIME_MIN <- MC_UnixtimeMin
    INITIAL_BASE_TARGET <- MC_SmallTarget
    MAX_BASE_TARGET <- MC_SmallTarget
    SHORT_REGIME_LEN <- MC_ShortLen
    LONG_WINDOW <- MC_LongWindow
    TIME_MOD <- MC_TimeMod
    WORD_MOD <- MC_WordMod
    GenesisBits <- MC_GenesisBits
    GenesisTime <- MC_GenesisTime
    TimeDeltas <- MC_WrapDeltas
    Hits <- MC_WrapHits
    LookupMayFail = FALSE

SPECIFICATION Spec
CONSTRAINT HeightBound
INVARIANT TimestampsIncreaseFromGenesis
