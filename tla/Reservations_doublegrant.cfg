SPECIFICATION Spec
CONSTANTS
    Agents = {a1, a2}
    Paths = {p1}
    None = None
    LeaveEarly = TRUE
SYMMETRY MCSymmetry
INVARIANT Exclusive
CHECK_DEADLOCK FALSE
