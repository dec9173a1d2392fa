\* Two turns of up to three events, over connections that fail twice.
SPECIFICATION FairSpec
CONSTANTS
    Turns = {1, 2}
    Conns = {c1, c2}
    MaxLog = 3
    MaxAttempts = 1
    MaxFaults = 2
    None = None
INVARIANTS
    TypeOK
    ShowsTheStream
    FollowersAreFed
    SpinnerHasCause
PROPERTIES
    
    SpinnerEnds
CHECK_DEADLOCK FALSE
