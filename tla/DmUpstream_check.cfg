\* Two posters, the dispatcher and another thread that reads packets; a cache
\* of one request and a queue of one event, so that both are full at times.
CONSTANTS
    p1 = p1
    p2 = p2
    d = d
    t = t
    Posters <- MCPosters
    Receivers <- MCReceivers
    Dispatcher = d
    NoThread = none
    CONFIG_MSGCACHE_QUEUE_MAXLEN = 1
    CONFIG_DISPATCH_QUEUE_MAXLEN = 1
    MaxRequests = 2
    MaxOthers = 1
SPECIFICATION FairSpec
INVARIANTS CacheBounded OneVerdict NodeStays
PROPERTIES Settled KeepsPromise
