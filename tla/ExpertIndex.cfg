SPECIFICATION Spec
CONSTANTS
    Keys = {k1, k2, k3, k4, k5}
    NoKey = NoKey
    MaxEntries = 3
    BucketCount = 8
    Hashes <- MCHashes
INVARIANTS
    LookupExact
    TableSound
SYMMETRY KeySymmetry
