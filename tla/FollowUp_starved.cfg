CONSTANTS
    Notes = {n1, n2}
    Limit = 1
    Ticks = {t1}
    MaxEdits = 2
SPECIFICATION FollowUpFair
PROPERTIES
    NothingStarves
CHECK_DEADLOCK FALSE
