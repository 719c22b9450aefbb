SPECIFICATION Spec
CONSTANTS
    s1 = s1  s2 = s2  w1 = w1  w2 = w2  t1 = t1  t2 = t2  old = old  new = new
    Servers = {s1, s2}
    Workers = {w1, w2}
    Passwords = {old, new}
    Tokens = {t1, t2}
    Ttl <- MCTtl
    MaxTime = 2
    MaxBack = 1
    MaxStarts = 4
    MaxResets = 1
SYMMETRY Symmetric
CHECK_DEADLOCK FALSE
INVARIANTS SessionsOfCurrentPassword EndedStaysOut HealthyIsCurrent
PROPERTIES RememberedSurvives
