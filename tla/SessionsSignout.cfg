\* A request in progress when a session is destroyed.
CONSTANTS
    Users = {u1, u2}
    Ids = {i1, i2}
    Requests = {r1, r2}
    MaxEpoch = 2
    Nobody = Nobody
    NoId = NoId
    NoRow = NoRow
SPECIFICATION Spec
SYMMETRY Interchangeable
INVARIANTS
    DestroyedStaysGone
