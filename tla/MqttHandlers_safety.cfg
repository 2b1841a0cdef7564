SPECIFICATION HandlersSpec
CONSTANTS
    Letters <- MCLetters
    Unprintable = {}
    CONFIG_MQTT_TOPIC_MAXLEN = 3
    Filters <- MCFilters
    Names   <- MCNames
    Callers = {t1, t2}
    Funcs = {f1, f2}
    MaxNodes = 4
    MaxUnsubs = 2
SYMMETRY MCSymmetry
INVARIANTS
    NoIdenticalHandlers
    HeardOnce
    HeardByAll
    WildcardsCancelled
CHECK_DEADLOCK FALSE
