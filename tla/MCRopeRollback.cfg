\* Expected to fail: a rollback leaves a file that the change stack made.
SPECIFICATION Spec
CONSTANTS
    a = a
    b = b
    Files = {a, b}
    Absent = Absent
    None = None
    MaxHistory = 3
    MaxChanges = 3
    MaxLate = 0
SYMMETRY FileSymmetry
PROPERTY RollbackReverts
CHECK_DEADLOCK FALSE
