CONSTANTS
    Slots = {r1, r2}
    MaxIds = 2
    MaxFlashes = 2
    Uris = {"/?q"}

SYMMETRY Symmetry
SPECIFICATION Spec
INVARIANTS TypeOK FailuresHeardOnce GateMatchesOrigin FlashShownOnce BouncedReturns
