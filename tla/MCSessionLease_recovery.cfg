SPECIFICATION FairSpec
CONSTANTS
    w1 = w1  w2 = w2  w3 = w3
    l1 = l1  l2 = l2
    i1 = i1  i2 = i2  i3 = i3  i4 = i4
    Writers <- Three
    Legacies <- NoLegacy
    Inodes <- ThreeInodes
    Nobody = Nobody
    NoMarker = NoMarker
    NoInode = NoInode
    MaxAuthority = 1
    MaxFaults = 2
PROPERTIES SessionRecovers
