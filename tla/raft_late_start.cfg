SPECIFICATION FromStart
CONSTANTS
    n1 = n1
    n2 = n2
    n3 = n3
    r1 = r1
    r2 = r2
    r3 = r3
    r4 = r4
    k1 = k1
    Node = {n1, n2, n3}
    Nil = Nil
    Request = {r1}
    Key = {k1}
    Absent = Absent
    Modulus = 8
    CommandOf <- MCCommandOf
    SlowStart = {n1}
    MaxRounds = 3
    MaxLog = 1
    MaxLate = 0
    MaxCalls = 3
    MaxFailures = 1
CONSTRAINT FewCalls
INVARIANTS PendingAtLeader
CHECK_DEADLOCK FALSE
