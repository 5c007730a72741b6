SPECIFICATION FairSpec
CONSTANTS
 Procs = {p1, p2}
 Symphonies = {s1}
 None = None
 STALE_AFTER = 1
 SESSION_BOUND = 2
 Faults = {"hang", "raise", "unanswered", "crash", "orphan", "flush"}
 MaxFaults = 2
 MaxCount = 3
INVARIANTS OneRunPerDaemon SoldIsAccounted PostMortemAccounted
PROPERTIES SavedBeforeRelease CyclesResume
