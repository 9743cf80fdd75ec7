CONSTANTS
    WIDTH <- MC_Width
    LIMB_BITS <- MC_LimbBits
    Operands <- MC_Operands

SPECIFICATION Spec
INVARIANT MatchesReference
