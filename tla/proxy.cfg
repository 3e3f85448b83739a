\* A task and the fallback host, two subscribers, two overlapping lookups; a
\* host is re-added only after the old socket is gone (SlowClose = FALSE).
CONSTANTS
    TaskHosts = {h1}
    FallbackHost = fb
    Slots = {s1}
    NoSlot = NoSlot
    Keys = {k1}
    NoKey = NoKey
    Subs = {u1, u2}
    Lookups = {l1, l2}
    BootLookup = l1
    MaxWire = 2
    SlowClose = FALSE
SPECIFICATION FairSpec
INVARIANTS TypeOK ListenersKnowInterest RefCountExact NoOrphan NeverAbandoned ShutdownSeversAll
PROPERTIES ImplementsFanout Recovers StreamsResume ShutdownDrains
