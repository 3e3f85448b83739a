CONSTANTS
    v1 = v1
    Services = {v1}
    Containers = {c1}
    ServiceOf <- OneService
    Restartable = {}
    Insts = {i1}
    Streams = {t1, t2, t3}
    None = None
    MaxFeed = 2
SPECIFICATION CalmSpec
PROPERTIES AutoRecovers
CHECK_DEADLOCK FALSE
