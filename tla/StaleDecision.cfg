CONSTANTS
    Slots = {buy0}
    Cids = {c1}
    Reconcilers = {}
    Paced = paced
    None = None
    Decisions = {"keep", "quote"}
    ExposureCap = FALSE
    MaxFaults = 0
    MaxFeed = 1
SPECIFICATION Spec
PROPERTY PullsFreshestDecision
