SPECIFICATION FairSpec
CONSTANTS
    MaxTokens = 2
    MaxReadings = 1
    MaxRequests = 3
    None = None
INVARIANTS NothingOutlives
PROPERTIES SettledLoginHolds QuietAtLast SessionEndsAtLast
