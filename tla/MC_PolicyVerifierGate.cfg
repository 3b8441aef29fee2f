CONSTANTS
    d1 = d1
    d2 = d2
    d3 = d3
    f1 = f1
    f2 = f2
    NoValue = NoValue
    Docs <- MCDocs
    Fmspcs <- MCFmspcs
    JsonDocs <- MCJsonDocs
    SignedBy <- MCSignedBy
    CollateralKeys <- MCCollateralKeys
SPECIFICATION PvFairSpec
PROPERTY PvGateRefinement
