CONSTANTS
    MATCH_REPORT_CNT_MAX = 2
    AWSS_NOTIFY_CNT_MAX <- MCNotifyMax
    MaxTokens = 4
    MaxReports = 4
    MaxConnects = 2
SPECIFICATION Spec
INVARIANT SharedTokenIsReported
CHECK_DEADLOCK FALSE
