------------------------------ MODULE CacheLock ------------------------------
(***************************************************************************)
(* The lock file of the cache directory, <cache-path>/cache.lock, as       *)
(* several crawler processes use it: Setup and Close of cache/setup.go,    *)
(* tryLock and Unlock of cache/lock_file.go, and the exits of main.go.     *)
(*                                                                         *)
(* A step is one system call on the shared directory.  The kernel side is  *)
(* modelled from how the code uses it: a path names an inode or nothing, a *)
(* descriptor keeps its inode after the name is gone, flock(2) belongs to  *)
(* the inode, and the death of a process closes its descriptor and thereby *)
(* releases its flock.                                                     *)
(***************************************************************************)

CONSTANTS
    Proc,       \* crawler instances that share one cache directory
    Inode,      \* inodes the lock file can be created on
    NoInode,    \* no file, or no open descriptor
    NoProc,     \* nobody holds the flock
    Clearing,   \* the instances started with --clear-cache
    Graceful    \* the instances that may leave through cache.Close

ASSUME LockAssumption ==
    /\ NoInode \notin Inode
    /\ NoProc \notin Proc
    /\ Clearing \subseteq Proc
    /\ Graceful \subseteq Proc

VARIABLES
    name,       \* the inode that cache.lock names
    holder,     \* holder[i]: the instance that holds the flock on inode i
    fd,         \* fd[p]: the inode of lock.file in instance p
    pc,         \* where instance p is
    solo        \* history: p got its flock by a CleanStart, and nobody has
                \* cleared the directory since

vars == <<name, holder, fd, pc, solo>>

PC == {"off",        \* not running
       "clear",      \* Setup, before os.RemoveAll
       "open",       \* Setup, before os.OpenFile of the lock file
       "flock",      \* tryLock, between OpenFile and Flock
       "setup",      \* has the flock, in initializeHashMap
       "running",    \* Setup done, the daemon or the pulse is at work
       "unlink",     \* Unlock, between Flock(LOCK_UN) and os.Remove
       "persist"}    \* Close, in persistHashMap

\* The types, and that lock.file is open exactly while tryLock or its result is
\* in use: a refused or closing instance leaks no descriptor.
TypeOK ==
    /\ name \in Inode \cup {NoInode}
    /\ holder \in [Inode -> Proc \cup {NoProc}]
    /\ fd \in [Proc -> Inode \cup {NoInode}]
    /\ pc \in [Proc -> PC]
    /\ solo \in [Proc -> BOOLEAN]
    /\ \A p \in Proc :
          fd[p] # NoInode <=> pc[p] \in {"flock", "setup", "running", "unlink"}

Init ==
    /\ name = NoInode
    /\ holder = [i \in Inode |-> NoProc]
    /\ fd = [p \in Proc |-> NoInode]
    /\ pc = [p \in Proc |-> "off"]
    /\ solo = [p \in Proc |-> FALSE]

\* Bug: a descriptor that is never closed (no file.Close).
FdLeaked(p) == fd

\* The descriptors after p closes lock.file.
FdClosed(p) == [fd EXCEPT ![p] = NoInode]

\* Bug: LOCK_SH instead of LOCK_EX, granted beside another holder.
SharedFree(i) == TRUE

\* Flock(LOCK_EX|LOCK_NB) on inode i succeeds.
Free(i) == holder[i] = NoProc

Holds(p) == \E i \in Inode : holder[i] = p

\* An inode nobody names or has open: what O_CREATE takes for a new file.
Fresh(i) == i # name /\ \A q \in Proc : fd[q] # i

\* p is about to lock the file that has the name, and no other instance has an
\* unlinked lock file open or is anywhere between its own Flock and its exit.
CleanStart(p) ==
    /\ fd[p] = name
    /\ \A q \in Proc \ {p} :
          \/ pc[q] \in {"off", "clear", "open"}
          \/ pc[q] = "flock" /\ fd[q] = name

\* Bug: Unlock without its LOCK_UN, on a descriptor inherited by a child.
ReleasedByNobody(p) == holder

\* The flock table after p's descriptor is closed or unlocked.
ReleasedBy(p) == [i \in Inode |-> IF holder[i] = p THEN NoProc ELSE holder[i]]

-----------------------------------------------------------------------------
(* Setup *)

Launch(p) ==
    /\ pc[p] = "off"
    /\ pc' = [pc EXCEPT ![p] = IF p \in Clearing THEN "clear" ELSE "open"]
    /\ UNCHANGED <<name, holder, fd, solo>>

\* os.RemoveAll takes the lock file with the directory, before any lock is
\* taken; the MkdirAll that follows makes the directory again.
ClearCache(p) ==
    /\ pc[p] = "clear"
    /\ name' = NoInode
    /\ pc' = [pc EXCEPT ![p] = "open"]
    /\ solo' = [q \in Proc |-> FALSE]
    /\ UNCHANGED <<holder, fd>>

\* O_CREATE without O_EXCL: the file is opened if it is there, else created.
OpenLockFile(p) ==
    /\ pc[p] = "open"
    /\ \E i \in Inode :
          /\ IF name = NoInode THEN Fresh(i) ELSE i = name
          /\ name' = i
          /\ fd' = [fd EXCEPT ![p] = i]
    /\ pc' = [pc EXCEPT ![p] = "flock"]
    /\ UNCHANGED <<holder, solo>>

Flock(p) ==
    /\ pc[p] = "flock"
    /\ Free(fd[p])
    /\ holder' = [holder EXCEPT ![fd[p]] = p]
    /\ pc' = [pc EXCEPT ![p] = "setup"]
    /\ solo' = [solo EXCEPT ![p] = CleanStart(p)]
    /\ UNCHANGED <<name, fd>>

\* LOCK_NB: an instance that finds the flock taken closes its descriptor and
\* ends in glog.Fatalf.
FlockRefused(p) ==
    /\ pc[p] = "flock"
    /\ ~Free(fd[p])
    /\ fd' = FdClosed(p)
    /\ pc' = [pc EXCEPT ![p] = "off"]
    /\ UNCHANGED <<name, holder, solo>>

FinishSetup(p) ==
    /\ pc[p] = "setup"
    /\ pc' = [pc EXCEPT ![p] = "running"]
    /\ UNCHANGED <<name, holder, fd, solo>>

-----------------------------------------------------------------------------
(* Close *)

Unlock(p) ==
    /\ pc[p] = "running"
    /\ p \in Graceful
    /\ holder' = ReleasedBy(p)
    /\ pc' = [pc EXCEPT ![p] = "unlink"]
    /\ solo' = [solo EXCEPT ![p] = FALSE]
    /\ UNCHANGED <<name, fd>>

\* file.Close touches p's own descriptor only and goes with the os.Remove,
\* which removes whatever file has the name by now.
RemoveLockFile(p) ==
    /\ pc[p] = "unlink"
    /\ fd' = FdClosed(p)
    /\ name' = NoInode
    /\ pc' = [pc EXCEPT ![p] = "persist"]
    /\ UNCHANGED <<holder, solo>>

\* The end of Close: hashes.json is written, then the process exits.
Persist(p) ==
    /\ pc[p] = "persist"
    /\ pc' = [pc EXCEPT ![p] = "off"]
    /\ UNCHANGED <<name, holder, fd, solo>>

\* Every other end of an instance: os.Exit(2) and glog.Fatalf of main.go, a
\* panic, a kill.  The deferred Close does not run; the kernel closes lock.file.
Die(p) ==
    /\ pc[p] # "off"
    /\ holder' = ReleasedBy(p)
    /\ fd' = FdClosed(p)
    /\ pc' = [pc EXCEPT ![p] = "off"]
    /\ solo' = [solo EXCEPT ![p] = FALSE]
    /\ UNCHANGED name

Next ==
    \E p \in Proc :
        \/ Launch(p)
        \/ ClearCache(p)
        \/ OpenLockFile(p)
        \/ Flock(p)
        \/ FlockRefused(p)
        \/ FinishSetup(p)
        \/ Unlock(p)
        \/ RemoveLockFile(p)
        \/ Persist(p)
        \/ Die(p)

Spec == Init /\ [][Next]_vars

-----------------------------------------------------------------------------
(* Properties *)

\* Instance p reads or writes files of the cache directory.  The goroutine of
\* daemon.Run works on until os.Exit, so p does so through all of Close.
UsesCache(p) == pc[p] \in {"setup", "running", "unlink", "persist"}

\* An instance that gets the lock by a clean start has the cache directory to
\* itself until it starts to close, whoever is launched or is in tryLock
\* meanwhile, unless one of those clears the directory.
SoloOwnsCache ==
    \A p, q \in Proc : p # q /\ solo[p] => ~UsesCache(q)

\* A start is refused only because of a living instance: the lock file that a
\* killed instance leaves behind never keeps a later one out (tryLock relies on
\* flock, not on the existence of the file).
RefusedOnlyByLiveHolder ==
    [][\A p \in Proc : FlockRefused(p) =>
          \E q \in Proc \ {p} : pc[q] \in {"setup", "running"}]_vars

\* README, "Output & cache layout": cache.lock is exclusive.  At most one
\* instance at a time holds the lock that tryLock returned to it.
MutualExclusion ==
    \A p, q \in Proc : Holds(p) /\ Holds(q) => p = q

=============================================================================
