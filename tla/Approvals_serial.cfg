SPECIFICATION Spec
CONSTANTS
    Agents = {a1, a2}
    Calls = {c1, c2}
    Ids = {i1, i2, i3}
    Gates = {g1, g2}
    Deciders = {d1}
    MaxPending = 1
    None = None
SYMMETRY MCSymmetry
INVARIANTS TypeOK SingleUse PendingBounded PassesAreApproved
PROPERTY VerdictIsFinal
CHECK_DEADLOCK FALSE
