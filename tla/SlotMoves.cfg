CONSTANTS
    Slots = {buy0, sell0}
    Cids = {c1, c2}
    Reconcilers = {}
    Paced = paced
    None = None
    Decisions = {"keep", "move"}
    ExposureCap = FALSE
    MaxFaults = 0
    MaxFeed = 2
SPECIFICATION Spec
SYMMETRY Symmetry
INVARIANT ClearHitsItsOrder
PROPERTY NoSilentRebind
