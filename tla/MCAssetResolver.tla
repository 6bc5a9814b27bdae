-------------------------- MODULE MCAssetResolver ---------------------------
(***************************************************************************)
(* AssetResolver on every reference graph over a few assets.               *)
(***************************************************************************)
EXTENDS AssetResolver

CONSTANTS
    Start,  \* assets that a page may link to
    First   \* the one among them that it does link to: which one is no matter

\* Every graph in which no bundle mentions itself (New is as blind to that as to
\* any other known URL).
LooplessGraphs == {g \in [Asset -> SUBSET Asset] : \A a \in Asset : a \notin g[a]}

SomeInitials == {I \in SUBSET Start : First \in I}

AllMissings == SUBSET (Asset \ Start)

=============================================================================
