CONSTANTS
    Objects <- MC_Objects
    Names <- MC_Names
    Lower <- MC_Lower

SPECIFICATION Spec
INVARIANT TypeOK
