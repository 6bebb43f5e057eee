SPECIFICATION RateSpec
CONSTANTS
    Waiter = {r1, r2, r3, r4, r5, r6}
    Interval = 2
    Burst = 2
    MaxTime = 6
SYMMETRY Symmetry
INVARIANTS
    RateKept
    WaitersServed
CHECK_DEADLOCK FALSE
