\* Two openers and a closer, nobody clears the cache.
CONSTANTS
    Proc = {p1, p2, p3}
    Inode = {i1, i2, i3, i4}
    NoInode = NoInode
    NoProc = NoProc
    Clearing = {}
    Graceful = {p1, p2, p3}
SPECIFICATION Spec
INVARIANTS
    MutualExclusion
