SPECIFICATION Spec
CONSTANTS
    Rules = {1, 2}
    Entry = {1}
    Actions = 2
    RearmTicks = 2
    Cooldown = 2
    MaxFires = 1
    MaxFaults = 2
INVARIANTS OncePerEpisode DailyLimit PacingIsHonest

PROPERTIES ExitsFire
