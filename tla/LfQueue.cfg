\* Two threads put two nodes three times, two others get them.  Behaviours are followed up
\* to a reuse that the properties exclude: all of them hold trivially after it.
SPECIFICATION FairSpec
CONSTANTS
    Putters = {p1, p2}
    Getters = {g1, g2}
    Nodes = {n1, n2}
    TAIL = TAIL
    NULL = NULL
    MaxPuts = 3
CONSTRAINT
    NotReused
INVARIANTS
    TypeOK
    AtRest
    NullMeansEmpty
PROPERTIES
    IsFifo
    Taken
