\* Two yielding threads and a publishing one, a broken connection (and writes
\* that fail late), an interval that is not a power of two times the smallest.
CONSTANTS
    y1 = y1
    y2 = y2
    w1 = w1
    Yielders <- MCYielders
    Writers <- MCWriters
    NoThread = NoThread
    KEEPALIVE_PROBE_MAX = 1
    INTERVAL_MIN = 1
    INTERVAL_MAX = 3
    MaxBreaks = 1
    MaxFailures = 3
SPECIFICATION FairSpec
INVARIANTS ConnectedIsOpen ApplicationKnows ReconnectAnswersDisconnect
PROPERTY DeadIsNoticed Reconnects
