CONSTANTS
    Slots = {buy0}
    Cids = {c1, c2}
    Reconcilers = {poller}
    Paced = paced
    None = None
    Decisions = {"keep", "quote"}
    ExposureCap = FALSE
    MaxFaults = 1
    MaxFeed = 1
SPECIFICATION FairSpec
PROPERTIES ClosedOrderLeavesSlot NoOrderLeftBehind
