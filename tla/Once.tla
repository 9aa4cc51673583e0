--------------------------------- MODULE Once --------------------------------
(***************************************************************************)
(* What a one-time credential promises: it is issued at most once, used at *)
(* most once, and never used after it was voided.                          *)
(***************************************************************************)
CONSTANT Credentials

VARIABLES
    valid,   \* issued, and neither used nor void
    used

Init == valid = {} /\ used = {}

Issue(c) == /\ c \notin used
            /\ valid' = valid \cup {c}
            /\ UNCHANGED used

Use(c) == /\ c \in valid
          /\ valid' = valid \ {c}
          /\ used' = used \cup {c}

\* Expired, burnt by a wrong use, pushed out of a full table or lost in a crash.
Void == \E V \in SUBSET valid : valid' = valid \ V /\ UNCHANGED used

\* An issue may push others out.
IssueAndVoid(c) == \E V \in SUBSET valid : /\ c \notin used
                                           /\ valid' = (valid \ V) \cup {c}
                                           /\ UNCHANGED used

Next == Void \/ \E c \in Credentials : Issue(c) \/ Use(c) \/ IssueAndVoid(c)

Spec == Init /\ [][Next]_<<valid, used>>
=============================================================================
