CONSTANTS
    Sides = {bid, ask}
    MinSamples = 2
    MaxChanges = 3
    MaxSpan = 2
    MaxLag = 2
    MaxDepthFaults = 1
    MaxFeedChanges = 3
    MaxFeedFaults = 1
    BatchIds = 2
    NonceSpan = 5
    MaxOps = 2
    MaxTxFaults = 1
    MaxWire = 2
SPECIFICATION LinksSpec
INVARIANTS AlphaOfThisBook QuotedBookIsThere
    ExecutedOnce AnswerIsOwn 
PROPERTIES DepthIsReplica QuietBookSyncs FeedIsReplica  BookComesBack
    NonceHeals SnapshotIsWhole
