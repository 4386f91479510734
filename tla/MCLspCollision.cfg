\* Expected to fail: the server's request has the id of the client's first one.
SPECIFICATION Spec
CONSTANTS
    q1 = q1
    q2 = q2
    Bye = Bye
    Exit = Exit
    Reply = Reply
    None = None
    Requests = {q1, q2}
    AskIds = {1}
    MaxFaults = 0
INVARIANT AskIsNoAnswer
CHECK_DEADLOCK FALSE
