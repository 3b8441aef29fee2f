CONSTANTS
    Base = 4
    FvhSig <- MCFvhSig
    LenOff = 0
    SigOff = 2
    PolicyTag = 1
    ChainTag = 2
    PageSize = 2
    CfvGpa = 2
    CfvSizes = {10}
    Boots <- MCBoots
    f1 = f1
    f2 = f2
    Fmspcs <- MCFmspcs
    JsonDocs <- MCJsonDocs
    SignedBy <- MCSignedBy
    PemRootCa <- MCPemRootCa
    Collateral <- MCCollateral
    NoValue = NoValue

SPECIFICATION Spec

INVARIANT RegionIsGpaImage
