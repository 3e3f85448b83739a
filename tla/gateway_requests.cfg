\* One or two hosts behind one breaker, two requests at a time where there is
\* one host, and up to four calls at a time where there are two.
CONSTANTS
    Hosts = {h1, h2}
    AuthHost = h0
    Requests = {r1, r2}
    Wide = {r1}
    Limit = 1
    VolumeThreshold = 3
    Buckets = 2
    MaxFires = 4
    None = None
SPECIFICATION FairSpec
INVARIANTS TypeOK ToldWhatWasCounted
PROPERTIES Recloses
