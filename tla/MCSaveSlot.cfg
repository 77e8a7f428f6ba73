CONSTANTS
    Payloads = {b1, b2}
    Processes = {p1, p2}
    MaxTag = 3
    Faults = {"io", "sweep", "crash"}
    Absent = absent
    Torn = torn
    Unreadable = unreadable
    NoName = noname
    NoProcess = noprocess
SYMMETRY Symmetry
SPECIFICATION Spec
INVARIANTS
    HeadIsWhole
PROPERTIES
    GenerationsImmutable
    SlotRefined
