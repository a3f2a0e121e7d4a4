CONSTANTS
    Keys = {k1, k2}
    Values = {v1}
    NoValue = NoValue
    Unset = Unset
    MapIds = {m1, m2, m3}
    NoMap = NoMap
    Seekers = {s1}
    PrivateSets <- UniformSets
SYMMETRY Interchangeable
SPECIFICATION Spec
INVARIANTS SeekSound
PROPERTY ImplementsDurableKV
