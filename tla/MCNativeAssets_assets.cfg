SPECIFICATION Spec
CONSTANTS
    Tags <- TwoTags
    Published <- FirstPublished
    MaxBuilt = 2
    MaxFaults = 2
    ReleaseLength <- ReleaseLengths
    LocalLength <- LocalLengths
INVARIANTS ChecksumHolds ReleaseWhole LocalCurrent
PROPERTIES Recovers
