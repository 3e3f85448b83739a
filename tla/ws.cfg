\* One container that may be started again, followed by id and through its
\* service; fairness and all failures of Docker.
CONSTANTS
    v1 = v1
    Services = {v1}
    Containers = {c1}
    ServiceOf <- OneService
    Restartable = {c1}
    Insts = {i1}
    Streams = {t1, t2, t3}
    None = None
    MaxFeed = 2
SPECIFICATION FairSpec
INVARIANTS TypeOK Reachable ClosedCancelsAll StreamedOrMissed
PROPERTIES NothingLeaks SeenIsFollowed
CHECK_DEADLOCK FALSE
