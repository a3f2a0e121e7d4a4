SPECIFICATION FairSpec
CONSTANTS
    m1 = m1
    p1 = p1
    p2 = p2
    p3 = p3
    ka = ka
    kb = kb
    kc = kc
    good = good
    bad = bad
    Wits = {1, 2, 3}
    Scripts = {ka, kb, kc, good, bad}
    Mains = {m1}
    Payloads = {p1, p2, p3}
    Info <- TwoSigners
    Witness <- ThreeWitnesses
    ChanCap = 1
    MaxHeight = 3
    MaxEntries = 2
    None = None
INVARIANTS WaitingArePooled
PROPERTIES MainsSentRight FallbackKept FallbackResolved
