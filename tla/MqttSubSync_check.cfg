\* Two subscribers, a thread that yields and two requests.
SPECIFICATION FairSpec
CONSTANTS
    Subscribers = {s1, s2}
    Yielders = {y}
    NoThread = none
    MaxIds = 2
INVARIANTS SuccessIsGranted NodesAreOwned
PROPERTIES
    CallReturns
CHECK_DEADLOCK FALSE
