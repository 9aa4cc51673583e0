SPECIFICATION LiveSpec
CONSTANTS
    Agents = {a1, a2, a3}
    Tasks = {t1}
    None = None
INVARIANTS TypeOK OpenIsUnowned
PROPERTIES OwnershipSpec CompletionAnnounced
CHECK_DEADLOCK FALSE
