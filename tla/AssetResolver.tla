--------------------------- MODULE AssetResolver ----------------------------
(***************************************************************************)
(* resolveAllSiteAssets of next/assets.go with what it calls: the initial  *)
(* assets are fetched, every bundle among them is scanned for dynamic      *)
(* imports, which are fetched and scanned in turn, depth first.            *)
(*                                                                         *)
(* fetchAllAssets is one step: its goroutines only add to a map and to a   *)
(* list of errors, and it returns after waitGroup.Wait.                    *)
(***************************************************************************)
EXTENDS Naturals, Sequences, FiniteSets

CONSTANTS
    Asset,      \* asset URLs of the site
    Graphs,     \* the reference graphs to consider: [Asset -> SUBSET Asset]
    Initials,   \* the sets of initial asset URLs to consider
    Missings,   \* the sets of assets answered with 404 to consider
    Flaky,      \* assets answered sometimes with 404, sometimes not
    MayFail     \* fetchAllAssets may report errors

ASSUME ResolverAssumption ==
    /\ IsFiniteSet(Asset)
    /\ Graphs \subseteq [Asset -> SUBSET Asset]
    /\ Initials \subseteq SUBSET Asset
    /\ Missings \subseteq SUBSET Asset
    /\ Flaky \subseteq Asset
    /\ MayFail \in BOOLEAN

VARIABLES
    refs,       \* refs[a]: the dynamic imports that a scan of a finds
    initial,    \* initialAssetUrls
    missing,    \* assets that the site does not have
    pc,         \* where resolveAllSiteAssets is
    roots,      \* initial assets whose loop iteration is still to come
    stack,      \* per active recursiveResolveDynamicAssets: bundles to descend to
    found,      \* dynamicAssetUrls of the present root, as far as collected
    resolved,   \* resolvedDynamicAssetUrls
    all,        \* allAssets
    scanned,    \* history: bundles whose content was searched
    fetches     \* history, fetches[a]: how often a was requested

vars == <<refs, initial, missing, pc, roots, stack, found, resolved, all,
          scanned, fetches>>

site == <<refs, initial, missing>>

TypeOK ==
    /\ refs \in [Asset -> SUBSET Asset]
    /\ initial \subseteq Asset
    /\ missing \subseteq Asset
    /\ pc \in {"initial", "roots", "descend", "collect", "done", "failed"}
    /\ roots \subseteq initial
    /\ stack \in Seq(SUBSET Asset)
    /\ found \subseteq resolved
    /\ resolved \subseteq Asset \ initial
    /\ all \subseteq initial \cup resolved
    /\ scanned \subseteq initial \cup resolved
    /\ fetches \in [Asset -> Nat]
    /\ stack # <<>> => pc \in {"descend", "failed"}

Init ==
    /\ refs \in Graphs
    /\ initial \in Initials
    /\ missing \in Missings
    /\ pc = "initial"
    /\ roots = {}
    /\ stack = <<>>
    /\ found = {}
    /\ resolved = {}
    /\ all = {}
    /\ scanned = {}
    /\ fetches = [a \in Asset |-> 0]

\* What fetchAllAssets may return for the URLs A when it reports no error: a 404
\* leaves an asset out of the map.
Fetched(A) ==
    {M \in SUBSET (A \ missing) : A \ (missing \cup Flaky) \subseteq M}

Requested(A) == [a \in Asset |-> IF a \in A THEN fetches[a] + 1 ELSE fetches[a]]

-----------------------------------------------------------------------------
(* Steps *)

FetchInitialAssets ==
    /\ pc = "initial"
    /\ \E M \in Fetched(initial) : all' = M /\ roots' = M
    /\ fetches' = Requested(initial)
    /\ pc' = "roots"
    /\ UNCHANGED <<site, stack, found, resolved, scanned>>

\* Bug: only the URLs that this root has found so far are left out.
NewFoundByRoot(a) == (refs[a] \ initial) \ found

\* Bug: the initial assets are not left out (existingAssetUrls).
NewOrInitial(a) == refs[a] \ resolved

\* newDynamicAssetUrls of a scan of a.
New(a) == (refs[a] \ initial) \ resolved

\* The head of recursiveResolveDynamicAssets, up to its loop: the new URLs are
\* marked before they are fetched, and the loop visits those that were found.
ScanInto(a, rest) ==
    /\ scanned' = scanned \cup {a}
    /\ resolved' = resolved \cup New(a)
    /\ fetches' = Requested(New(a))
    /\ \E M \in Fetched(New(a)) : stack' = <<M>> \o rest

\* An iteration of the loop over initialAssets, a Go map: in any order.
ScanRoot(a) ==
    /\ pc = "roots"
    /\ a \in roots
    /\ roots' = roots \ {a}
    /\ found' = New(a)
    /\ ScanInto(a, <<>>)
    /\ pc' = "descend"
    /\ UNCHANGED <<site, all>>

\* Bug: the loop does not advance past the bundle that it descended to.
ScanDynamicAgain(a) ==
    /\ pc = "descend"
    /\ stack # <<>>
    /\ a \in Head(stack)
    /\ found' = found \cup New(a)
    /\ ScanInto(a, stack)
    /\ UNCHANGED <<site, pc, roots, all>>

\* An iteration of the loop over newDynamicAssetUrls: the recursive call.
ScanDynamic(a) ==
    /\ pc = "descend"
    /\ stack # <<>>
    /\ a \in Head(stack)
    /\ found' = found \cup New(a)
    /\ ScanInto(a, <<Head(stack) \ {a}>> \o Tail(stack))
    /\ UNCHANGED <<site, pc, roots, all>>

\* A recursive call returns; the outermost one goes on to the second fetch.
ReturnFromScan ==
    /\ pc = "descend"
    /\ stack # <<>>
    /\ Head(stack) = {}
    /\ stack' = Tail(stack)
    /\ pc' = IF Len(stack) = 1 THEN "collect" ELSE pc
    /\ UNCHANGED <<site, roots, found, resolved, all, scanned, fetches>>

\* Bug: what an earlier root contributed is replaced.
CollectLast ==
    /\ pc = "collect"
    /\ \E M \in Fetched(found) : all' = (all \cap initial) \cup M
    /\ fetches' = Requested(found)
    /\ found' = {}
    /\ pc' = "roots"
    /\ UNCHANGED <<site, roots, stack, resolved, scanned>>

\* Bug: every URL found is collected, whether it could be fetched or not.
CollectUnfetched ==
    /\ pc = "collect"
    /\ all' = all \cup found
    /\ fetches' = Requested(found)
    /\ found' = {}
    /\ pc' = "roots"
    /\ UNCHANGED <<site, roots, stack, resolved, scanned>>

\* fetchAllAssets(dynamicAssetUrls) requests everything below this root again,
\* and maps.Copy adds it.
Collect ==
    /\ pc = "collect"
    /\ \E M \in Fetched(found) : all' = all \cup M
    /\ fetches' = Requested(found)
    /\ found' = {}
    /\ pc' = "roots"
    /\ UNCHANGED <<site, roots, stack, resolved, scanned>>

Finish ==
    /\ pc = "roots"
    /\ roots = {}
    /\ pc' = "done"
    /\ UNCHANGED <<site, roots, stack, found, resolved, all, scanned, fetches>>

\* Any error of fetchAllAssets, or of reading a cached bundle, is returned all
\* the way up, with no assets.
Fail ==
    /\ MayFail
    /\ pc \in {"initial", "roots", "descend", "collect"}
    /\ pc' = "failed"
    /\ all' = {}
    /\ UNCHANGED <<site, roots, stack, found, resolved, scanned, fetches>>

Step ==
    \/ FetchInitialAssets
    \/ \E a \in Asset : ScanRoot(a) \/ ScanDynamic(a)
    \/ ReturnFromScan
    \/ Collect
    \/ Finish

Next == Step \/ Fail

\* One goroutine runs through, and every fetch returns.
Spec == Init /\ [][Next]_vars /\ WF_vars(Step)

-----------------------------------------------------------------------------
(* Properties *)

\* C holds the initial assets and everything that its members import, but for Gone.
ClosedWithout(Gone, C) ==
    /\ initial \ Gone \subseteq C
    /\ \A a \in C : refs[a] \ Gone \subseteq C

\* Everything an import chain from the initial assets leads to past no asset of
\* Gone: the least set that is closed under imports.
ReachableWithout(Gone) ==
    {a \in Asset : \A C \in SUBSET Asset : ClosedWithout(Gone, C) => a \in C}

\* README, "Detailed description" (2): every asset is collected, including the
\* chunks that only other chunks import, whatever the order of the loops and
\* however the bundles refer to each other.  Assets that are answered with 404
\* now and then may cost themselves and what only they import, nothing else.
CollectsReachable == pc = "done" => ReachableWithout(missing \cup Flaky) \subseteq all

\* Whatever comes and goes, nothing is collected that no chain of imports of
\* existing assets leads to.
CollectsOnlyReachable == all \subseteq ReachableWithout(missing)

\* resolvedDynamicAssetUrls: an asset is requested once when it is discovered
\* and once more by the root below which it was discovered, never again.
AtMostTwoRequests == \A a \in Asset : fetches[a] <= IF a \in initial THEN 1 ELSE 2

\* What is left to do: up to three steps for each bundle that was not searched (its
\* scan, the return from it, the collection if it is a root), and the present ones.
Remaining ==
    3 * Cardinality(Asset \ scanned) + Len(stack)
        + CASE pc \in {"done", "failed"} -> 0
            [] pc = "roots" -> 1
            [] OTHER -> 2

\* resolvedDynamicAssetUrls, which all roots share: no bundle is searched twice, by
\* one root or by another, so that however the bundles import each other, every
\* step brings the end closer.
ComesCloser == [][Remaining' < Remaining]_vars

\* recursiveResolveDynamicAssets "will continue ... until no new dynamic assets
\* are found": it comes to an end even when bundles import each other.
Terminates == <>(pc \in {"done", "failed"})

=============================================================================
