CONSTANTS
    MaxPackets = 4
    MaxLinks = 2
SPECIFICATION FairSpec
INVARIANTS IInv OneBeatPerRequest NobodyBegins StateAlternates
PROPERTIES SpinsForEver ReconnectsAfterReset
CHECK_DEADLOCK FALSE
