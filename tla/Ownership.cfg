SPECIFICATION Spec
CONSTANTS
    v1 = v1  r1 = r1  c1 = c1  c2 = c2  t1 = t1
    None = None
    Volumes = {v1}
    Rollbacks = {r1}
    Containers = {c1, c2}
    Tags = {t1}
    MaxOps = 4
    MaxFaults = 1
    MaxForeign = 2
CHECK_DEADLOCK FALSE
INVARIANTS MountsAreOwn AcceptedImagesWereFrozen
PROPERTIES CleanReport ForeignUntouched
