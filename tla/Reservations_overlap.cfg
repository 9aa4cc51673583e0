SPECIFICATION Spec
CONSTANTS
    Agents = {a1, a2}
    Paths = {p1, p2}
    None = None
    LeaveEarly = FALSE
SYMMETRY MCSymmetry
INVARIANTS TypeOK HolderKnows FleetSeesHolder
CHECK_DEADLOCK FALSE
