SPECIFICATION FromLeader
CONSTANTS
    n1 = n1
    n2 = n2
    n3 = n3
    r1 = r1
    r2 = r2
    r3 = r3
    r4 = r4
    k1 = k1
    Node = {n1, n2, n3}
    Nil = Nil
    Request = {}
    Key = {k1}
    Absent = Absent
    Modulus = 8
    CommandOf <- MCCommandOf
    SlowStart = {}
    MaxRounds = 3
    MaxLog = 0
    MaxLate = 0
    MaxCalls = 5
    MaxFailures = 0
CONSTRAINT FewCalls
SYMMETRY NodeSymmetry
INVARIANTS OneAppendInFlight
CHECK_DEADLOCK FALSE
