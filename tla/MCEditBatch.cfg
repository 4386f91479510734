\* Two batches, one with expected contents, a formatter and an editor on two files.
SPECIFICATION Spec
CONSTANTS
    b1 = b1
    b2 = b2
    t1 = t1
    e1 = e1
    Files = {1, 2}
    Batches = {b1, b2}
    Expecting = {b1}
    Formatters = {t1}
    Editors = {e1}
INVARIANTS TypeOK DoneStays FailedLeavesNothing OutsideEditsSurvive
CHECK_DEADLOCK FALSE
