CONSTANTS
    Slots = {buy0}
    Cids = {c1, c2}
    Reconcilers = {poller}
    Paced = paced
    None = None
    Decisions = {"keep", "quote", "pull"}
    ExposureCap = TRUE
    MaxFaults = 1
    MaxFeed = 1
SPECIFICATION Spec
SYMMETRY Symmetry
INVARIANTS TypeOK OneQuotePerSlot 
