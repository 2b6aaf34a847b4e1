SPECIFICATION Spec
CONSTANTS
    MaxTier = 2
    NativeRates = {3, 4, 5}
    Models <- MCModels
    Owners <- MCOwners
    Layers <- MCLayers
    TopK = 2
    DecodeBlock = 2
    QualifiedBlock = 3
    Qualified <- MCQualified
INVARIANTS
    CallExact
    EachPlaneItsOwn
    ProfiledNeverRefused
