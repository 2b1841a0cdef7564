\* Three publishes, a list of two nodes, three identifiers, which wrap once
\* other packets take some.
CONSTANTS
    m1 = m1
    m2 = m2
    m3 = m3
    Msgs <- MCMsgs
    REPUB_NUM_MAX = 2
    PACKET_ID_MAX = 3
    MaxAllocs = 4
    MaxDrops = 1
    MaxCopies = 2
SYMMETRY Symmetry
SPECIFICATION Spec
INVARIANTS AcceptedIsKept RefusedIsNotSent IdsDistinct
