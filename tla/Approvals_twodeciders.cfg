SPECIFICATION Spec
CONSTANTS
    Agents = {a1}
    Calls = {c1}
    Ids = {i1, i2}
    Gates = {g1}
    Deciders = {d1, d2}
    MaxPending = 1
    None = None
SYMMETRY MCSymmetry
INVARIANT SingleUse
CHECK_DEADLOCK FALSE
