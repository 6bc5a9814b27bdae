-------------------------- MODULE CacheLockProofs ---------------------------
(***************************************************************************)
(* What the lock file of CacheLock guarantees for any number of instances. *)
(*                                                                         *)
(* The argument: a flock is only ever held through the descriptor of an    *)
(* instance between its Flock and its Unlock (HeldByOpener, OpenerHolds);  *)
(* while a solo instance lives, its lock file keeps the name, since those  *)
(* who could take the name away were excluded by the clean start; so       *)
(* whoever opens the lock file meanwhile opens the inode that is locked    *)
(* (SoloKeepsName), and its Flock fails.                                   *)
(***************************************************************************)
EXTENDS CacheLock, TLAPS

Working == {"setup", "running"}

HeldByOpener ==
    \A i \in Inode, p \in Proc :
        holder[i] = p => fd[p] = i /\ pc[p] \in Working

OpenerHolds ==
    \A p \in Proc : pc[p] \in Working => holder[fd[p]] = p

SoloKeepsName ==
    \A p \in Proc : solo[p] => pc[p] \in Working /\ CleanStart(p)

IInv ==
    /\ TypeOK
    /\ HeldByOpener
    /\ OpenerHolds
    /\ SoloKeepsName

\* The lock starts free and no instance is alive: IInv holds before the first
\* Launch.
LEMMA InitIInv == Init => IInv
  <1> SUFFICES ASSUME Init PROVE IInv
    OBVIOUS
  <1>1. TypeOK
    BY DEF Init, TypeOK, PC
  <1>2. HeldByOpener /\ OpenerHolds /\ SoloKeepsName
    BY LockAssumption DEF Init, HeldByOpener, OpenerHolds, SoloKeepsName, Working
  <1> QED
    BY <1>1, <1>2 DEF IInv

\* No system call of Setup, tryLock, Unlock or Close, and no exit, breaks IInv.
LEMMA NextIInv == IInv /\ [Next]_vars => IInv'
  <1> SUFFICES ASSUME IInv, [Next]_vars PROVE IInv'
    OBVIOUS
  <1> USE LockAssumption
  <1>0. TypeOK /\ HeldByOpener /\ OpenerHolds /\ SoloKeepsName
    BY DEF IInv
  <1>1. ASSUME NEW p \in Proc, Launch(p) PROVE IInv'
    BY <1>0, <1>1 DEF Launch, IInv, TypeOK, PC, HeldByOpener, OpenerHolds,
                      SoloKeepsName, CleanStart, Working
  <1>2. ASSUME NEW p \in Proc, ClearCache(p) PROVE IInv'
    BY <1>0, <1>2 DEF ClearCache, IInv, TypeOK, PC, HeldByOpener, OpenerHolds,
                      SoloKeepsName, CleanStart, Working
  <1>3. ASSUME NEW p \in Proc, OpenLockFile(p) PROVE IInv'
    BY <1>0, <1>3 DEF OpenLockFile, Fresh, IInv, TypeOK, PC, HeldByOpener,
                      OpenerHolds, SoloKeepsName, CleanStart, Working
  <1>4. ASSUME NEW p \in Proc, Flock(p) PROVE IInv'
    <2>1. TypeOK'
      <3>1. CleanStart(p) \in BOOLEAN
        BY DEF CleanStart
      <3> QED
        BY <3>1, <1>0, <1>4 DEF Flock, TypeOK, PC
    <2>2. HeldByOpener' /\ OpenerHolds'
      BY <1>0, <1>4 DEF Flock, Free, TypeOK, HeldByOpener, OpenerHolds, Working
    <2>3. \A q \in Proc \ {p} : ~solo[q]
      BY <1>0, <1>4 DEF Flock, Free, TypeOK, OpenerHolds, SoloKeepsName,
                        CleanStart, Working
    <2>4. SoloKeepsName'
      BY <2>3, <1>0, <1>4 DEF Flock, TypeOK, SoloKeepsName, CleanStart, Working
    <2> QED
      BY <2>1, <2>2, <2>4 DEF IInv
  <1>5. ASSUME NEW p \in Proc, FlockRefused(p) PROVE IInv'
    BY <1>0, <1>5 DEF FlockRefused, FdClosed, IInv, TypeOK, PC, HeldByOpener,
                      OpenerHolds, SoloKeepsName, CleanStart, Working
  <1>6. ASSUME NEW p \in Proc, FinishSetup(p) PROVE IInv'
    BY <1>0, <1>6 DEF FinishSetup, IInv, TypeOK, PC, HeldByOpener, OpenerHolds,
                      SoloKeepsName, CleanStart, Working
  <1>7. ASSUME NEW p \in Proc, Unlock(p) PROVE IInv'
    BY <1>0, <1>7 DEF Unlock, ReleasedBy, IInv, TypeOK, PC, HeldByOpener,
                      OpenerHolds, SoloKeepsName, CleanStart, Working
  <1>8. ASSUME NEW p \in Proc, RemoveLockFile(p) PROVE IInv'
    <2>1. \A q \in Proc : ~solo[q]
      BY <1>0, <1>8 DEF RemoveLockFile, SoloKeepsName, CleanStart, Working
    <2> QED
      BY <2>1, <1>0, <1>8 DEF RemoveLockFile, FdClosed, IInv, TypeOK, PC,
                              HeldByOpener, OpenerHolds, SoloKeepsName, Working
  <1>9. ASSUME NEW p \in Proc, Persist(p) PROVE IInv'
    BY <1>0, <1>9 DEF Persist, IInv, TypeOK, PC, HeldByOpener, OpenerHolds,
                      SoloKeepsName, CleanStart, Working
  <1>10. ASSUME NEW p \in Proc, Die(p) PROVE IInv'
    BY <1>0, <1>10 DEF Die, ReleasedBy, FdClosed, IInv, TypeOK, PC, HeldByOpener,
                       OpenerHolds, SoloKeepsName, CleanStart, Working
  <1>11. CASE UNCHANGED vars
    BY <1>0, <1>11 DEF vars, IInv, TypeOK, HeldByOpener, OpenerHolds,
                       SoloKeepsName, CleanStart
  <1> QED
    BY <1>1, <1>2, <1>3, <1>4, <1>5, <1>6, <1>7, <1>8, <1>9, <1>10, <1>11
    DEF Next

\* The inductive invariant holds in every reachable state.
THEOREM Invariance == Spec => []IInv
  BY InitIInv, NextIInv, PTL DEF Spec

\* Types, and no descriptor of the lock file is leaked on any way out of
\* tryLock and Unlock.
THEOREM TypeCorrect == Spec => []TypeOK
  <1>1. IInv => TypeOK
    BY DEF IInv
  <1> QED
    BY <1>1, Invariance, PTL

\* tryLock: an instance whose lock began cleanly has the cache directory to
\* itself, whatever the number of instances and their timing.
THEOREM SoloOwns == Spec => []SoloOwnsCache
  <1>1. IInv => SoloOwnsCache
    BY DEF IInv, SoloKeepsName, SoloOwnsCache, CleanStart, UsesCache
  <1> QED
    BY <1>1, Invariance, PTL

\* tryLock: the lock file of an instance that was killed refuses nobody.
THEOREM RefusedByLiving == Spec => RefusedOnlyByLiveHolder
  <1>1. ASSUME IInv, NEW p \in Proc, FlockRefused(p)
        PROVE  \E q \in Proc \ {p} : pc[q] \in {"setup", "running"}
    <2>1. PICK q \in Proc : holder[fd[p]] = q
      BY <1>1 DEF IInv, TypeOK, FlockRefused, Free
    <2>2. fd[p] \in Inode
      BY <1>1 DEF IInv, TypeOK, FlockRefused
    <2>3. pc[q] \in Working
      BY <1>1, <2>1, <2>2 DEF IInv, HeldByOpener
    <2> QED
      BY <1>1, <2>3 DEF FlockRefused, Working
  <1>2. IInv /\ [Next]_vars =>
          [\A p \in Proc : FlockRefused(p) =>
              \E q \in Proc \ {p} : pc[q] \in {"setup", "running"}]_vars
    BY <1>1
  <1> QED
    BY <1>2, Invariance, PTL DEF Spec, RefusedOnlyByLiveHolder

-----------------------------------------------------------------------------
(* When the lock is exclusive *)

\* No lock file is removed under another instance that has it open.
RemovesOnlyItsOwn ==
    \A p \in Proc : RemoveLockFile(p) \/ ClearCache(p) =>
        \A q \in Proc \ {p} : fd[q] = NoInode

\* All open lock files are the one that has the name.
OneLockFile == \A p \in Proc : fd[p] # NoInode => fd[p] = name

LEMMA OneLockFileNext ==
  IInv /\ OneLockFile /\ [Next]_vars /\ [RemovesOnlyItsOwn]_vars => OneLockFile'
  <1> SUFFICES ASSUME IInv, OneLockFile, [Next]_vars, [RemovesOnlyItsOwn]_vars
               PROVE  OneLockFile'
    OBVIOUS
  <1> USE LockAssumption
  <1>0. TypeOK
    BY DEF IInv
  <1>1. CASE UNCHANGED <<name, fd>>
    BY <1>1 DEF OneLockFile
  <1>2. ASSUME NEW p \in Proc, OpenLockFile(p) PROVE OneLockFile'
    <2>1. PICK i \in Inode :
              /\ IF name = NoInode THEN Fresh(i) ELSE i = name
              /\ name' = i
              /\ fd' = [fd EXCEPT ![p] = i]
      BY <1>2 DEF OpenLockFile
    <2>2. name # NoInode => name' = name
      BY <2>1
    <2>3. \A q \in Proc \ {p} : fd'[q] = fd[q]
      BY <1>0, <2>1 DEF TypeOK
    <2>4. fd'[p] = name'
      BY <1>0, <2>1 DEF TypeOK
    <2> QED
      BY <2>2, <2>3, <2>4 DEF OneLockFile
  <1>3. ASSUME NEW p \in Proc, FlockRefused(p) \/ Die(p) PROVE OneLockFile'
    BY <1>0, <1>3 DEF FlockRefused, Die, FdClosed, TypeOK, OneLockFile
  <1>4. ASSUME NEW p \in Proc, ClearCache(p) \/ RemoveLockFile(p), ~UNCHANGED vars
        PROVE  OneLockFile'
    <2>1. \A q \in Proc \ {p} : fd[q] = NoInode
      BY <1>4 DEF RemovesOnlyItsOwn
    <2>2. fd'[p] = NoInode /\ \A q \in Proc \ {p} : fd'[q] = fd[q]
      BY <1>0, <1>4 DEF ClearCache, RemoveLockFile, FdClosed, TypeOK
    <2> QED
      BY <2>1, <2>2 DEF OneLockFile
  <1>5. ASSUME NEW p \in Proc,
               Launch(p) \/ Flock(p) \/ FinishSetup(p) \/ Unlock(p) \/ Persist(p)
        PROVE  UNCHANGED <<name, fd>>
    BY <1>5 DEF Launch, Flock, FinishSetup, Unlock, Persist
  <1>6. UNCHANGED vars => UNCHANGED <<name, fd>>
    BY DEF vars
  <1> QED
    BY <1>1, <1>2, <1>3, <1>4, <1>5, <1>6 DEF Next

LEMMA OneFileOneHolder == IInv /\ OneLockFile => MutualExclusion
  <1> SUFFICES ASSUME IInv, OneLockFile,
                      NEW p \in Proc, NEW q \in Proc, Holds(p), Holds(q)
               PROVE  p = q
    BY DEF MutualExclusion
  <1>1. PICK i \in Inode, j \in Inode : holder[i] = p /\ holder[j] = q
    BY DEF Holds
  <1>2. fd[p] = i /\ fd[q] = j
    BY <1>1 DEF IInv, HeldByOpener
  <1>3. i = j
    BY <1>2, LockAssumption DEF OneLockFile
  <1> QED
    BY <1>1, <1>3

\* README, "Output & cache layout", as far as it goes: it takes an os.Remove of
\* Unlock, or an os.RemoveAll of --clear-cache, while another instance has the lock
\* file open for two instances to hold the lock.  As long as none does, cache.lock
\* is exclusive, whoever is killed and whenever.
THEOREM ExclusiveUntilRemoved ==
  Spec /\ [][RemovesOnlyItsOwn]_vars => []MutualExclusion
  <1>1. Init => OneLockFile
    BY DEF Init, OneLockFile
  <1> QED
    BY <1>1, OneLockFileNext, OneFileOneHolder, Invariance, PTL DEF Spec

\* Instances that end without cache.Close, and do not clear the cache, come to no
\* os.Remove and share nothing: at any time one of them at most uses the directory.
THEOREM ExclusiveWithoutClose ==
  ASSUME Graceful = {}, Clearing = {}
  PROVE  Spec => []\A p, q \in Proc : UsesCache(p) /\ UsesCache(q) => p = q
  <1> DEFINE
        NeverCloses == \A p \in Proc : pc[p] \notin {"clear", "unlink", "persist"}
        OneUser == \A p, q \in Proc : UsesCache(p) /\ UsesCache(q) => p = q
  <1>1. Init => NeverCloses /\ OneLockFile
    BY DEF Init, OneLockFile
  <1>2. TypeOK /\ NeverCloses /\ [Next]_vars => NeverCloses' /\ [RemovesOnlyItsOwn]_vars
    <2> SUFFICES ASSUME TypeOK, NeverCloses, [Next]_vars
                 PROVE  NeverCloses' /\ [RemovesOnlyItsOwn]_vars
      OBVIOUS
    <2>1. \A p \in Proc : ~ClearCache(p) /\ ~RemoveLockFile(p)
      BY DEF ClearCache, RemoveLockFile
    <2>2. NeverCloses'
      <3>1. \A p \in Proc : ~Unlock(p) /\ ~Persist(p)
        BY DEF Unlock, Persist
      <3>2. ASSUME NEW p \in Proc,
                   \/ Launch(p) \/ OpenLockFile(p) \/ Flock(p)
                   \/ FlockRefused(p) \/ FinishSetup(p) \/ Die(p)
            PROVE  NeverCloses'
        <4>1. \E place \in {"open", "flock", "setup", "running", "off"} :
                  pc' = [pc EXCEPT ![p] = place]
          BY <3>2 DEF Launch, OpenLockFile, Flock, FlockRefused, FinishSetup, Die
        <4> QED
          BY <4>1 DEF TypeOK
      <3> QED
        BY <2>1, <3>1, <3>2 DEF Next, vars
    <2> QED
      BY <2>1, <2>2 DEF RemovesOnlyItsOwn
  <1>3. IInv /\ NeverCloses /\ OneLockFile => OneUser
    <2> SUFFICES ASSUME IInv, NeverCloses, OneLockFile,
                        NEW p \in Proc, NEW q \in Proc, UsesCache(p), UsesCache(q)
                 PROVE  p = q
      OBVIOUS
    <2>1. pc[p] \in Working /\ pc[q] \in Working
      BY DEF UsesCache, Working
    <2>2. fd[p] = name /\ fd[q] = name
      BY <2>1 DEF IInv, TypeOK, OneLockFile, Working
    <2> QED
      BY <2>1, <2>2 DEF IInv, OpenerHolds
  <1>4. IInv => TypeOK
    BY DEF IInv
  <1> HIDE DEF NeverCloses, OneUser
  <1>5. Spec => []OneUser
    BY <1>1, <1>2, <1>3, <1>4, OneLockFileNext, Invariance, PTL DEF Spec
  <1> QED
    BY <1>5 DEF OneUser

=============================================================================
