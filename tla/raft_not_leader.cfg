SPECIFICATION FewFailures
CONSTANTS
    n1 = n1
    n2 = n2
    n3 = n3
    r1 = r1
    r2 = r2
    r3 = r3
    r4 = r4
    k1 = k1
    Node = {n1, n2, n3}
    Nil = Nil
    Request = {r1, r2}
    Key = {k1}
    Absent = Absent
    Modulus = 8
    CommandOf <- MCCommandOf
    SlowStart = {}
    MaxRounds = 2
    MaxLog = 2
    MaxLate = 0
    MaxCalls = 4
    MaxFailures = 0
CONSTRAINT FewCalls
SYMMETRY NodeSymmetry
INVARIANTS NotLeaderMeansNotApplied
CHECK_DEADLOCK FALSE
