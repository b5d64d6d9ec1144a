CONSTANTS
    Slots = {buy0}
    Cids = {c1}
    Reconcilers = {cleaner}
    Cleaner = cleaner
    Paced = paced
    None = None
    Decisions = {"keep", "quote"}
    ExposureCap = FALSE
    MaxFaults = 1
    MaxFeed = 1
    Threshold = 1
    ForceAfter = 1
SPECIFICATION PauseFairSpec
PROPERTY PauseIsCleanedUp
