CONSTANTS
    Trees = {w1, w2, w3}
    Nobody = Nobody
    Leftover = Leftover
    MaxPort = 2

SYMMETRY Symmetry
SPECIFICATION Spec
INVARIANTS TypeOK PortsDistinct ReadyIsolated
