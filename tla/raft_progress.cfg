SPECIFICATION FairLeader
CONSTANTS
    n1 = n1
    n2 = n2
    n3 = n3
    r1 = r1
    r2 = r2
    r3 = r3
    r4 = r4
    k1 = k1
    Node = {n1, n2, n3}
    Nil = Nil
    Request = {r1, r2, r3, r4}
    Key = {k1}
    Absent = Absent
    Modulus = 8
    CommandOf <- MCCommandOf
    SlowStart = {}
    MaxRounds = 3
    MaxLog = 3
    MaxLate = 1
    MaxCalls = 99
    MaxFailures = 0
PROPERTIES ClientsAreAnswered FollowersCatchUp
CHECK_DEADLOCK FALSE
