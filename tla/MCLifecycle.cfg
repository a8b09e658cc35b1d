CONSTANTS
    Versions = {"v1", "v2"}
    Values <- MCValues
    Announced <- MCAnnounced
    Arguments <- MCArguments
    Retries = 3
    Delay = 2
    FetchTime = 2
SPECIFICATION FairSpec
INVARIANTS TypeOK ConnectedWhileUsed ServerNotMissed ChecksAgree
PROPERTY EveryStartEnds
