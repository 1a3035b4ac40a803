\* Two forms carry the same link at once.
CONSTANTS
    Users = {u1, u2}
    Tokens = {t1, t2}
    Requests = {r1, r2}
    Original = Original
    None = None
    TTL = 1
    MaxTime = 1
SPECIFICATION Spec
INVARIANTS
    SingleUse
