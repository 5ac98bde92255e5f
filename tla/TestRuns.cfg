SPECIFICATION FairSpec
CONSTANTS
    u1 = u1
    u2 = u2
    p1 = p1
    b1 = b1
    b2 = b2
    Updates = {u1, u2}
    Pushes = {p1}
    Rebuilds = {b1, b2}
    JobName <- MCJobName
    Docker <- MCDocker
    Broken = {}
    maxContainers = 1
    MaxFaults = 1
CHECK_DEADLOCK FALSE
INVARIANTS
    LastVersionStored
    ContainersRemoved
PROPERTIES
    RebuildReturns
