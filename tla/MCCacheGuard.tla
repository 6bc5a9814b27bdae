---------------------------- MODULE MCCacheGuard ----------------------------
(***************************************************************************)
(* CacheGuard on two goroutines and two URLs.                              *)
(***************************************************************************)
EXTENDS CacheGuard, TLC

CONSTANTS u1, u2, p1, p2

\* The only URL.
OwnFile == u1 :> p1

\* Every URL has a file of its own.
OwnFiles == u1 :> p1 @@ u2 :> p2

\* u1 and u2 differ in their query only: ResolveUrlToCachePath drops it.
OneFile == u1 :> p1 @@ u2 :> p1

=============================================================================
