\* Four calls compete for one slot and two connections: two resets can hold
\* every connection while they wait for the slot a third call has.
CONSTANTS
    Callers = {c1, c2, c3, c4}
    Slots = 1
    PoolSize = 2
    Nobody = Nobody
SPECIFICATION Spec
INVARIANTS
    TypeOK
    NothingLeaks
PROPERTIES
    EveryCallCompletes
