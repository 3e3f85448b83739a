CONSTANTS
    TaskHosts = {h1}
    FallbackHost = fb
    Slots = {s1,s2}
    NoSlot = NoSlot
    Keys = {k1}
    NoKey = NoKey
    Subs = {u1}
    Lookups = {l1}
    BootLookup = l1
    MaxWire = 1
    SlowClose = TRUE
SPECIFICATION Spec
INVARIANTS OnlyMappedReconnect
