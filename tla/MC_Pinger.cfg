CONSTANTS
    PING_COUNT <- MC_PingCount
    SEQ_MOD <- MC_SeqMod
    REPLY_LIFETIME <- MC_ReplyLifetime
    Duplicates = TRUE

SPECIFICATION FairSpec
INVARIANT TypeOK
PROPERTY Termination
PROPERTY RequestsSpacedUntilDuplicate
