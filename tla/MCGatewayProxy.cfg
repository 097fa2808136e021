CONSTANTS
    Clients = {python, java}
    DbNames = {testdb}
    CollNames = {testcoll, ranges}
    MaxRid = 4
    NoRid = NoRid
SPECIFICATION Spec
INVARIANTS SelfReadExact HeldIsKnown
SYMMETRY MCSymmetry
CHECK_DEADLOCK FALSE
