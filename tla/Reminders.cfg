CONSTANTS
    Sweeper = {p1, p2}
    Student = {s1, s2}
    Nobody = Nobody
    OptedOut = {s2}
    MaxFaults = 1
    MaxCrashes = 1
SPECIFICATION FairSpec
INVARIANTS OrphansAreMishaps
PROPERTIES PromiseKept EverybodyIsServed
