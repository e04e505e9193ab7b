SPECIFICATION FromLeader
CONSTANTS
    n1 = n1
    n2 = n2
    n3 = n3
    r1 = r1
    r2 = r2
    r3 = r3
    r4 = r4
    k1 = k1
    Node = {n1, n2, n3}
    Nil = Nil
    Request = {r1, r2}
    Key = {k1}
    Absent = Absent
    Modulus = 8
    CommandOf <- MCCommandOf
    SlowStart = {}
    MaxRounds = 4
    MaxLog = 1
    MaxLate = 0
    MaxCalls = 2
    MaxFailures = 0
CONSTRAINT FewCalls
SYMMETRY NodeSymmetry
INVARIANTS LeaderCompleteness StateMachineSafety AnsweredIsDurable
CHECK_DEADLOCK FALSE
