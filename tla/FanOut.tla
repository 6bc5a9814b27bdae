------------------------------- MODULE FanOut -------------------------------
(***************************************************************************)
(* fetchAllNextPages of next/pages.go, fetchAllAssets of next/assets.go    *)
(* and fetchAllSourceMaps of sourcemap/fetch.go: one goroutine per task    *)
(* appends what it fetched, or its error, to data shared under a mutex,    *)
(* while the caller starts them and waits for the wait group.              *)
(*                                                                         *)
(* An append, or an insertion into a map, reads and then writes.  How a    *)
(* fetch ends is CacheGuard's business.                                    *)
(***************************************************************************)
EXTENDS Naturals, FiniteSets

CONSTANTS
    Jobs,   \* "pages", "assets", which go alike, and "source maps"
    Task,   \* pages or assets to fetch, or mentions of source maps in assets
    Key,    \* URLs of what is fetched
    UrlOf   \* UrlOf[t]: two mentions may be of one URL

ASSUME FanOutAssumption ==
    /\ Jobs \subseteq {"pages", "assets", "source maps"}
    /\ IsFiniteSet(Task)
    /\ UrlOf \in [Task -> Key]

VARIABLES
    job,        \* which of the three functions this is
    caller,     \* where it is
    unstarted,  \* tasks of its loop without a goroutine so far
    worker,     \* worker[t]: where the goroutine of t is
    answer,     \* answer[t]: how the fetch of t ended
    counter,    \* waitGroup
    mutex,      \* mutex[l]: the lock that guards list l is held
    list,       \* list[l]: the results, as a set of URLs, and errors, of tasks
    copy        \* copy[t]: the list as t read it before its append

fanOutVars == <<job, caller, unstarted, worker, answer, counter, mutex, list, copy>>

List == {"results", "errors"}

\* The list that t appends to, and what.
Target(t) == IF answer[t] = "found" THEN "results" ELSE "errors"
Item(t) == IF answer[t] = "found" THEN UrlOf[t] ELSE t

\* The goroutines that Wait still waits for, and the locks they hold.
FanOutTypeOK ==
    /\ job \in Jobs
    /\ caller \in {"begin", "spawn", "returned", "stopped"}
    /\ unstarted \subseteq Task
    /\ worker \in [Task -> {"none", "fetch", "lock", "append", "leave", "done"}]
    /\ answer \in [Task -> {"none", "found", "absent", "failed"}]
    /\ counter \in Nat
    /\ mutex \in [List -> BOOLEAN]
    /\ list \in [List -> SUBSET (Key \cup Task)]
    /\ copy \in [Task -> SUBSET (Key \cup Task)]

FanOutInit ==
    /\ job \in Jobs
    /\ caller = "begin"
    /\ unstarted = Task
    /\ worker = [t \in Task |-> "none"]
    /\ answer = [t \in Task |-> "none"]
    /\ counter = 0
    /\ mutex = [l \in List |-> FALSE]
    /\ list = [l \in List |-> {}]
    /\ copy = [t \in Task |-> {}]

-----------------------------------------------------------------------------
(* The caller *)

\* The lists are known: waitGroup.Add(len(...)), but for source maps.
Begin ==
    /\ caller = "begin"
    /\ caller' = "spawn"
    /\ counter' = IF job = "source maps" THEN 0 ELSE Cardinality(Task)
    /\ UNCHANGED <<job, unstarted, worker, answer, mutex, list, copy>>

\* resolveSourceMapUrls fails: a URL does not parse, an asset cannot be read.
ResolveFails ==
    /\ caller = "begin"
    /\ job = "source maps"
    /\ caller' = "stopped"
    /\ UNCHANGED <<job, unstarted, worker, answer, counter, mutex, list, copy>>

\* Bug: waitGroup.Add(1) is forgotten.
SpawnUncounted(t) ==
    /\ caller = "spawn"
    /\ t \in unstarted
    /\ unstarted' = unstarted \ {t}
    /\ worker' = [worker EXCEPT ![t] = "fetch"]
    /\ UNCHANGED <<job, caller, answer, counter, mutex, list, copy>>

\* An iteration of the loop, with waitGroup.Add(1) if it is for source maps.
Spawn(t) ==
    /\ caller = "spawn"
    /\ t \in unstarted
    /\ unstarted' = unstarted \ {t}
    /\ counter' = IF job = "source maps" THEN counter + 1 ELSE counter
    /\ worker' = [worker EXCEPT ![t] = "fetch"]
    /\ UNCHANGED <<job, caller, answer, mutex, list, copy>>

\* waitGroup.Wait returns, and with it the function.
Wait ==
    /\ caller = "spawn"
    /\ unstarted = {}
    /\ counter = 0
    /\ caller' = "returned"
    /\ UNCHANGED <<job, unstarted, worker, answer, counter, mutex, list, copy>>

-----------------------------------------------------------------------------
(* The goroutine of task t *)

\* CacheGuardedHttpGet, and for a page its parsing; a 404 is no error.
Fetch(t) ==
    /\ worker[t] = "fetch"
    /\ \E how \in {"found", "absent", "failed"} :
          /\ answer' = [answer EXCEPT ![t] = how]
          /\ worker' = [worker EXCEPT ![t] = IF how = "absent" THEN "leave" ELSE "lock"]
    /\ UNCHANGED <<job, caller, unstarted, counter, mutex, list, copy>>

\* Bug: the mutex is not waited for.
LockAnyway(t) ==
    /\ worker[t] = "lock"
    /\ mutex' = [mutex EXCEPT ![Target(t)] = TRUE]
    /\ copy' = [copy EXCEPT ![t] = list[Target(t)]]
    /\ worker' = [worker EXCEPT ![t] = "append"]
    /\ UNCHANGED <<job, caller, unstarted, answer, counter, list>>

\* Lock, and the reading half of the append.
Lock(t) ==
    /\ worker[t] = "lock"
    /\ ~mutex[Target(t)]
    /\ mutex' = [mutex EXCEPT ![Target(t)] = TRUE]
    /\ copy' = [copy EXCEPT ![t] = list[Target(t)]]
    /\ worker' = [worker EXCEPT ![t] = "append"]
    /\ UNCHANGED <<job, caller, unstarted, answer, counter, list>>

\* Bug: the mutex is not released.
AppendLocked(t) ==
    /\ worker[t] = "append"
    /\ list' = [list EXCEPT ![Target(t)] = copy[t] \cup {Item(t)}]
    /\ copy' = [copy EXCEPT ![t] = {}]
    /\ worker' = [worker EXCEPT ![t] = "leave"]
    /\ UNCHANGED <<job, caller, unstarted, answer, counter, mutex>>

\* The writing half, and the deferred Unlock.
AppendItem(t) ==
    /\ worker[t] = "append"
    /\ list' = [list EXCEPT ![Target(t)] = copy[t] \cup {Item(t)}]
    /\ copy' = [copy EXCEPT ![t] = {}]
    /\ mutex' = [mutex EXCEPT ![Target(t)] = FALSE]
    /\ worker' = [worker EXCEPT ![t] = "leave"]
    /\ UNCHANGED <<job, caller, unstarted, answer, counter>>

\* The deferred waitGroup.Done, which runs last.
Done(t) ==
    /\ worker[t] = "leave"
    /\ counter' = counter - 1
    /\ worker' = [worker EXCEPT ![t] = "done"]
    /\ UNCHANGED <<job, caller, unstarted, answer, mutex, list, copy>>

Call == Begin \/ ResolveFails \/ (\E t \in Task : Spawn(t)) \/ Wait

Goroutine(t) == Fetch(t) \/ Lock(t) \/ AppendItem(t) \/ Done(t)

FanOutNext == Call \/ \E t \in Task : Goroutine(t)

FanOutSpec == FanOutInit /\ [][FanOutNext]_fanOutVars

-----------------------------------------------------------------------------
(* Properties *)

\* The caller, or a goroutine that needs no mutex or whose mutex is free.
SomeoneGoes ==
    \/ caller = "begin"
    \/ caller = "spawn" /\ (unstarted # {} \/ counter = 0)
    \/ \E t \in Task :
          \/ worker[t] \in {"fetch", "append", "leave"}
          \/ worker[t] = "lock" /\ ~mutex[Target(t)]

\* The caller waits for goroutines, goroutines wait for a mutex: never so that
\* nobody can go on, as it would be if a way out of a goroutine kept its mutex or
\* left the wait group short (pages.go:76-81, which is not reachable).
NoCircularWait == caller \in {"begin", "spawn"} => SomeoneGoes

Returned == caller = "returned"

\* Wait returns only when every goroutine has left, no result or error is lost
\* to another goroutine's append, none is invented, and none comes later.
Gathering == INSTANCE Gather WITH
    phase <- CASE Returned -> "gathered"
               [] caller = "stopped" -> "stopped"
               [] OTHER -> "asked",
    answer <- IF Returned THEN answer ELSE [t \in Task |-> "none"],
    results <- IF Returned THEN list["results"] ELSE {},
    errors <- IF Returned THEN list["errors"] ELSE {}

ImplementsGather == Gathering!Spec

=============================================================================
