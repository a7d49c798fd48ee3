SPECIFICATION Spec
CONSTANTS
    w1 = w1  w2 = w2  w3 = w3
    l1 = l1  l2 = l2
    i1 = i1  i2 = i2  i3 = i3  i4 = i4
    Writers <- Three
    Legacies <- OneLegacy
    Inodes <- FourInodes
    Nobody = Nobody
    NoMarker = NoMarker
    NoInode = NoInode
    MaxAuthority = 2
    MaxFaults = 1
SYMMETRY Interchangeable
INVARIANTS SingleWriter HolderMarked
PROPERTIES ElectedSucceeds ImplementsLock
