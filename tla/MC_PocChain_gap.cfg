CONSTANTS
    BCO_FORK_BLOCK_HEIGHT <- MC_Fork
    BCOInitBlockCount <- MC_InitCount
    BCO_BLOCK_UNIXTIME_MIN <- MC_UnixtimeMin
    INITIAL_BASE_TARGET <- MC_MaxTarget
    MAX_BASE_TARGET <- MC_MaxTarget
    SHORT_REGIME_LEN <- MC_ShortLen
    LONG_WINDOW <- MC_LongWindow
    TIME_MOD <- MC_TimeMod
    WORD_MOD <- MC_WordMod
    GenesisBits <- MC_GenesisBits
    GenesisTime <- MC_GenesisTime
    TimeDeltas <- MC_TimeDeltas
    Hits <- MC_Hits
    LookupMayFail = TRUE

SPECIFICATION Spec
CONSTRAINT HeightBound
INVARIANT NoCrashOnLookupGap
