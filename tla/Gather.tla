------------------------------- MODULE Gather -------------------------------
(***************************************************************************)
(* What fetchAllNextPages, fetchAllAssets and fetchAllSourceMaps promise,  *)
(* without goroutines: every task is answered, what was found is returned, *)
(* what was absent is left out, every failure is reported, and what has    *)
(* been returned does not change any more.                                 *)
(***************************************************************************)
CONSTANTS
    Task,   \* what is to be fetched
    UrlOf   \* UrlOf[t]: the key of what t finds

VARIABLES
    phase,      \* "asked", "gathered" or "stopped"
    answer,     \* answer[t]: how t was answered
    results,    \* keys of what is returned
    errors      \* the tasks whose errors are returned

vars == <<phase, answer, results, errors>>

Init ==
    /\ phase = "asked"
    /\ answer = [t \in Task |-> "none"]
    /\ results = {}
    /\ errors = {}

Answered(how) == {t \in Task : answer'[t] = how}

GatherAll ==
    /\ phase = "asked"
    /\ phase' = "gathered"
    /\ answer' \in [Task -> {"found", "absent", "failed"}]
    /\ results' = {UrlOf[t] : t \in Answered("found")}
    /\ errors' = Answered("failed")

\* Nothing is fetched at all.
Stop ==
    /\ phase = "asked"
    /\ phase' = "stopped"
    /\ UNCHANGED <<answer, results, errors>>

Next == GatherAll \/ Stop

Spec == Init /\ [][Next]_vars

=============================================================================
