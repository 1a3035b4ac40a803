\* One key of each form, two requests at once, a limit that one request stays
\* under and two can pass together.
CONSTANTS
    SigninKeys = {ks}
    ResetKeys = {kr}
    Handlers = {h1, h2}
    Rows = {i1, i2, i3, i4}
    Limit = 2
    Window = 2
    NoKey = NoKey
SPECIFICATION Spec
INVARIANTS
    TypeOK
    NoAttemptForgotten
    AttemptsBounded
PROPERTIES
    RefusalsNotCounted
    LockoutEnds
