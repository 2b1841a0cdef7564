\* The promise of QoS 1 and its delivery, for two publishes over a connection
\* that fails twice.
CONSTANTS
    m1 = m1
    m2 = m2
    m3 = m3
    Msgs <- MCTwoMsgs
    REPUB_NUM_MAX = 1
    PACKET_ID_MAX = 3
    MaxAllocs = 3
    MaxDrops = 2
    MaxCopies = 2
SPECIFICATION FairSpec
PROPERTIES KeepsPromise EventuallyAcked
