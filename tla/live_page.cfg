\* Two containers that come and go, three tabs for two places.
CONSTANTS
    Containers = {c1, c2}
    Service = v1
    OtherIds = {x1, x2}
    None = None
    MaxTabs = 2
    MaxInbox = 2
SPECIFICATION FairSpec
INVARIANTS TypeOK TabsMakeSense LegendExplained
PROPERTIES ResumeHeals
