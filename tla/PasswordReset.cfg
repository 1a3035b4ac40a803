\* Two accounts share three links' worth of interleavings: one link is enough
\* for a replay, two for "every outstanding token", and two resets overlap.
CONSTANTS
    Users = {u1, u2}
    Tokens = {t1, t2}
    Requests = {r1, r2}
    Original = Original
    None = None
    TTL = 1
    MaxTime = 1
SPECIFICATION Spec
INVARIANTS
    TypeOK
    SuccessRetiresOutstanding
    RetiredLinkNeverRedeems
    PasswordHasSpentLink
PROPERTIES
    EveryConfirmAnswered
    KeepsLedger
