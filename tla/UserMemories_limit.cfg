\* Three memories, a limit of one or two, two requests; two preferences on one topic, one fact.
CONSTANTS
    Memories = {m1, m2, m3}
    Requests = {r1, r2}
    likesA = likesA
    likesB = likesB
    Texts = {likesA, likesB, fact}
    Preferences = {likesA, likesB}
    Related <- MCRelated
    Limits = {1, 2}
    Redacted = redacted
    MaxExpiries = 1
    MaxStarted = 4
SPECIFICATION Spec
SYMMETRY Symmetry
INVARIANTS ActiveWithinLimit DeletedStaysRedacted NothingLostWithinLimit
CHECK_DEADLOCK FALSE
