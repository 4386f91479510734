\* Two requests, a shutdown, a request of the server and a fault.
SPECIFICATION FairSpec
CONSTANTS
    q1 = q1
    q2 = q2
    Bye = Bye
    Exit = Exit
    Reply = Reply
    None = None
    Requests = {q1, q2}
    AskIds = {1}
    MaxFaults = 1
INVARIANTS TypeOK ResponseIsOwn PendingIsAwaited
PROPERTY EverySenderEnds
CHECK_DEADLOCK FALSE
