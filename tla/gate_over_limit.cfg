SPECIFICATION Spec
CONSTANTS
    a1 = a1
    a2 = a2
    b1 = b1
    A = A
    B = B
    Tickets <- MCTickets
    Users <- MCUsers
    UserOf <- MCUserOf
    Limit = 1
    Lease = 6
    Stale = 5
    Poll = 1
    PulseGap = 1
    LockWait = 1
    LockTtl = 3
    Slow = {}
    Faults = {"step_fails"}
    MaxFaults = 1
INVARIANTS
    RunningWithinLimit
SYMMETRY Interchangeable
