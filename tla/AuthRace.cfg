SPECIFICATION Spec
CONSTANTS
    t1 = t1
    t2 = t2
    p1 = p1
    p2 = p2
    k1 = k1
    k2 = k2
    Threads = {t1, t2}
    Passwords = {p1, p2}
    Tokens = {k1, k2}
    AuthModes = {"paperless", "ldap", "token"}
    TTL = 1
    MaxTime = 2
    None = None
SYMMETRY MCSymmetry
INVARIANT NoneFails
