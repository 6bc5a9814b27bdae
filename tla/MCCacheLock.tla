----------------------------- MODULE MCCacheLock -----------------------------
(***************************************************************************)
(* CacheLock on three instances.  A path names one inode and each of three *)
(* instances keeps at most one other open, so that with four inodes        *)
(* O_CREATE always finds a fresh one.                                      *)
(***************************************************************************)
EXTENDS CacheLock, TLC

\* Inodes are interchangeable: no property names one.
InodeSymmetry == Permutations(Inode)

=============================================================================
