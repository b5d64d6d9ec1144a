CONSTANTS
    Slots = {buy0, sell0}
    Cids = {c1, c2}
    Reconcilers = {cleaner}
    Cleaner = cleaner
    Paced = paced
    None = None
    Decisions = {"keep", "quote"}
    ExposureCap = FALSE
    MaxFaults = 0
    MaxFeed = 1
    Threshold = 2
    ForceAfter = 1
SPECIFICATION PauseSpec
INVARIANT QueuedBindSurvives
