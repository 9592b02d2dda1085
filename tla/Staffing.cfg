CONSTANTS
    Request = {r1, r2}
    Person = {p1, p2}
    Absent = Absent
    Ttl = 1
    Horizon = 2
    MaxCalls = 7
    MaxLinks = 3
SYMMETRY Interchangeable
SPECIFICATION Spec
INVARIANTS LinksWorkOnce OneLiveLink DecisionStands SomebodyIsLeft
CHECK_DEADLOCK FALSE
