\* Three instances, one of them started with --clear-cache.
CONSTANTS
    Proc = {p1, p2, p3}
    Inode = {i1, i2, i3, i4}
    NoInode = NoInode
    NoProc = NoProc
    Clearing = {p3}
    Graceful = {p1, p2, p3}
SYMMETRY InodeSymmetry
SPECIFICATION Spec
INVARIANTS
    TypeOK
    SoloOwnsCache
PROPERTIES
    RefusedOnlyByLiveHolder
