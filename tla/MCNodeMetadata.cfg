SPECIFICATION FairNodeSpec
CONSTANTS
    ProviderIDs <- MCProviderIDs
    WellFormed <- MCGood
PROPERTY
    EventuallyIdentified
CHECK_DEADLOCK FALSE
