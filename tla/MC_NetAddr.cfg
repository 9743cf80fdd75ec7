CONSTANTS
    V4Inputs <- MC_V4Inputs
    V6Inputs <- MC_V6Inputs
    OnionNames <- MC_OnionNames
    Partners <- MC_Partners

SPECIFICATION Spec
INVARIANT ClassifiesByPrefix
INVARIANT TunnelsShareGroup
INVARIANT SpecialIsTor
