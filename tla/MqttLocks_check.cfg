SPECIFICATION FairSpec
CONSTANTS
    Threads = {t1, t2}
    NoThread = NoThread
    MaxRounds = 2
INVARIANTS InOrder NothingKept HolderMoves
PROPERTY CallsEnd
