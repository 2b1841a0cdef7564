SPECIFICATION Spec
CONSTANTS
    Notifiers = {n1}
    Peers = {p1}
    PeerIds <- MCPeerIds
    SENDLIST_MAXCOUNT = 2
    COAP_MAX_RETRY_COUNT = 1
    COAP_MAX_MESSAGE_ID = 3
    MaxNodes = 3
    MaxRequests = 2
INVARIANTS
    CountIsLength
    FreedOnce
    OneBroadcastEach
PROPERTIES
    MessagesEnd
    CallsReturn
CHECK_DEADLOCK FALSE
