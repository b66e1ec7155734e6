CONSTANTS
    h1 = h1
    h2 = h2
    Junk = Junk
    Unreadable = Unreadable
    Handlers <- MCHandlers
    Deployments <- MCDeployments
SPECIFICATION FairSpec
INVARIANTS
    ProcessTypeOK
    NoRequestLost
    SuccessWhenAsked
    SettingsInForce
PROPERTIES
    StopEnds
    ServesAgain
CHECK_DEADLOCK FALSE
