\* Two nodes with two files between them, or both on one; pages of two lines; three
\* entries with any of three timestamps.
CONSTANTS
    NodeCount = 2
    Limit = 2
    Names <- MCNames
    Writes <- MCWrites
    Failures = TRUE
    MaxFiles = 2
    MaxTime = 3
    MaxEntries = 3
SPECIFICATION FairSpec
INVARIANTS TypeOK PageIsSound PageIsComplete
PROPERTIES NothingIsSkipped SearchEnds
