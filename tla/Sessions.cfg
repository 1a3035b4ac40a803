\* Two requests overlap at any time, and each serves one after another: a
\* sign-in beside a page, a sign-out beside a request that holds a copy.
\* One token exists at the start, one is drawn.
CONSTANTS
    Users = {u1, u2}
    Ids = {i1, i2}
    Requests = {r1, r2}
    MaxEpoch = 2
    Nobody = Nobody
    NoId = NoId
    NoRow = NoRow
SPECIFICATION Spec
SYMMETRY Interchangeable
INVARIANTS
    TypeOK
    SignedInTokenFresh
    DestroyedAloneStaysGone
PROPERTIES
    ServedWithCurrentPassword
