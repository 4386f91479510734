\* Two files and three changes with a history of two: any calls in any order.
SPECIFICATION Spec
CONSTANTS
    a = a
    b = b
    Files = {a, b}
    Absent = Absent
    None = None
    MaxHistory = 2
    MaxChanges = 3
    MaxLate = 1
SYMMETRY FileSymmetry
INVARIANTS TypeOK StackEndsHistory UndoRedoInverse
 
CHECK_DEADLOCK FALSE
