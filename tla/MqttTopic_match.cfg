SPECIFICATION TopicSpec
CONSTANTS
    Letters <- MCLetters
    Unprintable <- MCUnprintable
    CONFIG_MQTT_TOPIC_MAXLEN = 5
    MaxLen = 5
INVARIANTS
    MatchIsByLevels
    ValidFiltersPass
CHECK_DEADLOCK FALSE
