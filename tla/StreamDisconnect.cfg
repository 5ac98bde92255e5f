SPECIFICATION FairSpec
CONSTANTS
    u1 = u1
    u2 = u2
    c1 = c1
    c2 = c2
    c3 = c3
    s1 = s1
    s2 = s2
    k1 = k1
    None = None
    Users = {u1, u2}
    Conns = {c1, c2, c3}
    ConnUser <- MCConnUser
    Senders = {s1, s2}
    Closers = {k1}
    Flaky = {c1, c3}
    MaxSends = 2

CHECK_DEADLOCK FALSE
PROPERTIES
    UnconnectedIgnored
