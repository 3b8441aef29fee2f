CONSTANTS
    Base = 4
    FvhSig <- MCFvhSig
    LenOff = 0
    SigOff = 2
    PolicyTag = 1
    ChainTag = 2
    MaxLen = 7

SPECIFICATION Spec

INVARIANT ResolveNeverPanics
