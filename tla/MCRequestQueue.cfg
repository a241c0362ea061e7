CONSTANTS
    c1 = c1
    c2 = c2
    c3 = c3
    Index <- MCIndex
    T0 = 2
    T1 = 1
SPECIFICATION FairSpec
INVARIANTS Conserved CancelledOnce ExpireThorough
PROPERTY NoLeakyQueue
