CONSTANTS
    Networks <- MCNetworks
    OpenNetworks <- MCOpenNetworks
    Unsaved <- MCUnsaved
    MAX_TIMES = 2
    MaxRestarts = 3
    MaxFailures = 1
    MaxDrops = 1
    MaxFlight = 1
SPECIFICATION FairSpec
INVARIANTS MarkOutlives CredentialsMatch
PROPERTIES RestoreIsAsked ReportedInTheEnd
CHECK_DEADLOCK FALSE
