\* Two requests for one key arrive while a single attempt is left.
CONSTANTS
    SigninKeys = {ks}
    ResetKeys = {kr}
    Handlers = {h1, h2}
    Rows = {i1, i2, i3, i4}
    Limit = 2
    Window = 2
    NoKey = NoKey
SPECIFICATION Spec
INVARIANTS
    LimitHolds
