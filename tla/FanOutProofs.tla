---------------------------- MODULE FanOutProofs ----------------------------
(***************************************************************************)
(* That the fan-out implements Gather, for any number of tasks, never      *)
(* waits in a circle, and comes closer to its end with every step.         *)
(*                                                                         *)
(* While the caller is in its loop, the wait group counts the goroutines   *)
(* that are still to leave, so that Wait returns when there is none.  A    *)
(* goroutine that appends is the only one that holds the mutex of its      *)
(* list, and the list is still as it read it, so that the list holds at    *)
(* any time exactly what those who have left put there.                    *)
(***************************************************************************)
EXTENDS FanOut, FiniteSetTheorems, TLAPS

\* What the wait group counts: for source maps, tasks are added as they start.
Pending ==
    {t \in Task : worker[t] # "done" /\ (t \in unstarted => job # "source maps")}

CountsPending ==
    /\ caller \in {"spawn", "returned"} => counter = Cardinality(Pending)
    /\ caller \in {"begin", "stopped"} => counter = 0 /\ unstarted = Task
    /\ caller = "returned" => \A t \in Task : worker[t] = "done"

AnswersFollowWorkers ==
    \A t \in Task :
        /\ worker[t] = "none" <=> t \in unstarted
        /\ worker[t] \in {"none", "fetch"} <=> answer[t] = "none"
        /\ worker[t] \in {"lock", "append"} => answer[t] # "absent"

AppendsAlone ==
    \A t \in Task : worker[t] = "append" =>
        /\ mutex[Target(t)]
        /\ copy[t] = list[Target(t)]
        /\ \A s \in Task : worker[s] = "append" /\ Target(s) = Target(t) => s = t

\* Tasks that were answered so, and whose goroutine has put that down.
Gone(how) == {t \in Task : worker[t] \in {"leave", "done"} /\ answer[t] = how}

ListsComplete ==
    /\ list["results"] = {UrlOf[t] : t \in Gone("found")}
    /\ list["errors"] = Gone("failed")

FanOutInv ==
    /\ FanOutTypeOK
    /\ CountsPending
    /\ AnswersFollowWorkers
    /\ AppendsAlone
    /\ ListsComplete

LEMMA FanOutInvInit == FanOutInit => FanOutInv
  <1> SUFFICES ASSUME FanOutInit PROVE FanOutInv
    OBVIOUS
  <1> USE DEF FanOutInit
  <1>1. FanOutTypeOK
    BY DEF FanOutTypeOK, List
  <1>2. CountsPending
    BY DEF CountsPending
  <1>3. AnswersFollowWorkers /\ AppendsAlone
    BY DEF AnswersFollowWorkers, AppendsAlone
  <1>4. \A how : Gone(how) = {}
    BY DEF Gone
  <1>5. ListsComplete
    BY <1>4 DEF ListsComplete, List
  <1> QED
    BY <1>1, <1>2, <1>3, <1>5 DEF FanOutInv

\* Who appends and who has left decides what the locks and lists must be.
LEMMA DataKept ==
  ASSUME AppendsAlone, ListsComplete,
         UNCHANGED <<answer, mutex, list, copy>>,
         \A t \in Task : /\ worker'[t] = "append" <=> worker[t] = "append"
                         /\ worker'[t] \in {"leave", "done"} <=> worker[t] \in {"leave", "done"}
  PROVE  AppendsAlone' /\ ListsComplete'
  <1>1. \A t \in Task : Target(t)' = Target(t)
    BY DEF Target
  <1>2. AppendsAlone'
    BY <1>1 DEF AppendsAlone
  <1>3. \A how : Gone(how)' = Gone(how)
    BY DEF Gone
  <1>4. Gone("found")' = Gone("found") /\ Gone("failed")' = Gone("failed")
    BY <1>3
  <1>5. ListsComplete'
    BY <1>4 DEF ListsComplete
  <1> QED
    BY <1>2, <1>5

LEMMA CallerStep ==
  ASSUME FanOutInv, Call
  PROVE  FanOutInv'
  <1>0. FanOutTypeOK /\ CountsPending /\ AnswersFollowWorkers /\ AppendsAlone /\ ListsComplete
    BY DEF FanOutInv
  <1>1. CASE Begin
    <2>0. /\ caller = "begin"
          /\ caller' = "spawn"
          /\ counter' = IF job = "source maps" THEN 0 ELSE Cardinality(Task)
          /\ UNCHANGED <<job, unstarted, worker, answer, mutex, list, copy>>
      BY <1>1 DEF Begin
    <2>1. counter' \in Nat
      BY <2>0, FanOutAssumption, FS_CardinalityType
    <2>2. FanOutTypeOK'
      BY <1>0, <2>0, <2>1 DEF FanOutTypeOK
    <2>3. Pending' = IF job = "source maps" THEN {} ELSE Task
      BY <1>0, <2>0 DEF Pending, CountsPending, AnswersFollowWorkers
    <2>4. CountsPending'
      BY <2>0, <2>3, FS_EmptySet DEF CountsPending
    <2>5. AnswersFollowWorkers'
      BY <1>0, <2>0 DEF AnswersFollowWorkers
    <2>6. AppendsAlone' /\ ListsComplete'
      BY <1>0, <2>0, DataKept
    <2> QED
      BY <2>2, <2>4, <2>5, <2>6 DEF FanOutInv
  <1>2. CASE ResolveFails
    <2>0. /\ caller = "begin"
          /\ caller' = "stopped"
          /\ UNCHANGED <<job, unstarted, worker, answer, counter, mutex, list, copy>>
      BY <1>2 DEF ResolveFails
    <2>1. FanOutTypeOK' /\ CountsPending' /\ AnswersFollowWorkers'
      BY <1>0, <2>0 DEF FanOutTypeOK, CountsPending, AnswersFollowWorkers
    <2>2. AppendsAlone' /\ ListsComplete'
      BY <1>0, <2>0, DataKept
    <2> QED
      BY <2>1, <2>2 DEF FanOutInv
  <1>3. ASSUME NEW t \in Task, Spawn(t) PROVE FanOutInv'
    <2>0. /\ caller = "spawn"
          /\ t \in unstarted
          /\ unstarted' = unstarted \ {t}
          /\ counter' = IF job = "source maps" THEN counter + 1 ELSE counter
          /\ worker' = [worker EXCEPT ![t] = "fetch"]
          /\ UNCHANGED <<job, caller, answer, mutex, list, copy>>
      BY <1>3 DEF Spawn
    <2>1. FanOutTypeOK'
      <3>1. counter \in Nat
        BY <1>0 DEF FanOutTypeOK
      <3>2. counter' \in Nat
        <4>1. counter' = counter \/ counter' = counter + 1
          BY <2>0
        <4> QED
          BY <3>1, <4>1
      <3>3. worker' \in [Task -> {"none", "fetch", "lock", "append", "leave", "done"}]
        BY <1>0, <2>0 DEF FanOutTypeOK
      <3>4. unstarted' \subseteq Task
        BY <1>0, <2>0 DEF FanOutTypeOK
      <3> QED
        BY <1>0, <2>0, <3>2, <3>3, <3>4 DEF FanOutTypeOK
    <2>2. /\ worker[t] = "none"
          /\ worker'[t] = "fetch"
          /\ answer[t] = "none"
          /\ \A s \in Task \ {t} : worker'[s] = worker[s]
      BY <1>0, <2>0 DEF AnswersFollowWorkers, FanOutTypeOK
    <2>3. IsFiniteSet(Pending)
      BY FanOutAssumption, FS_Subset DEF Pending
    <2>4. IF job = "source maps" THEN t \notin Pending /\ Pending' = Pending \cup {t}
                                 ELSE Pending' = Pending
      BY <2>0, <2>2 DEF Pending
    <2>5. CountsPending'
      <3>1. counter = Cardinality(Pending)
        BY <1>0, <2>0 DEF CountsPending
      <3>2. CASE job = "source maps"
        <4>1. Cardinality(Pending \cup {t}) = Cardinality(Pending) + 1
          BY <2>3, <2>4, <3>2, FS_AddElement
        <4>2. counter' = Cardinality(Pending')
          BY <2>0, <2>4, <3>1, <3>2, <4>1
        <4> QED
          BY <2>0, <4>2 DEF CountsPending
      <3>3. CASE job # "source maps"
        BY <2>0, <2>4, <3>1, <3>3 DEF CountsPending
      <3> QED
        BY <3>2, <3>3
    <2>6. AnswersFollowWorkers'
      BY <1>0, <2>0, <2>2 DEF AnswersFollowWorkers
    <2>7. AppendsAlone' /\ ListsComplete'
      <3>1. \A s \in Task :
                /\ worker'[s] = "append" <=> worker[s] = "append"
                /\ worker'[s] \in {"leave", "done"} <=> worker[s] \in {"leave", "done"}
        BY <2>2
      <3> QED
        BY <1>0, <2>0, <3>1, DataKept
    <2> QED
      BY <2>1, <2>5, <2>6, <2>7 DEF FanOutInv
  <1>4. CASE Wait
    <2>0. /\ caller = "spawn"
          /\ unstarted = {}
          /\ counter = 0
          /\ caller' = "returned"
          /\ UNCHANGED <<job, unstarted, worker, answer, counter, mutex, list, copy>>
      BY <1>4 DEF Wait
    <2>1. IsFiniteSet(Pending)
      BY FanOutAssumption, FS_Subset DEF Pending
    <2>2. Pending = {}
      BY <1>0, <2>0, <2>1, FS_EmptySet DEF CountsPending
    <2>3. \A t \in Task : worker[t] = "done"
      BY <2>0, <2>2 DEF Pending
    <2>4. Pending' = Pending
      BY <2>0 DEF Pending
    <2>5. FanOutTypeOK' /\ CountsPending' /\ AnswersFollowWorkers'
      BY <1>0, <2>0, <2>3, <2>4 DEF FanOutTypeOK, CountsPending, AnswersFollowWorkers
    <2>6. AppendsAlone' /\ ListsComplete'
      BY <1>0, <2>0, DataKept
    <2> QED
      BY <2>5, <2>6 DEF FanOutInv
  <1> QED
    BY <1>1, <1>2, <1>3, <1>4 DEF Call

\* What a step of the goroutine of t leaves alone: the caller waits on, unless it
\* is the last goroutine that leaves.
LEMMA StillPending ==
  ASSUME FanOutTypeOK, CountsPending, NEW t \in Task,
         worker[t] # "done", worker'[t] # "done",
         \A s \in Task \ {t} : worker'[s] = worker[s],
         UNCHANGED <<job, caller, unstarted, counter>>
  PROVE  CountsPending'
  <1>1. Pending' = Pending
    BY DEF Pending
  <1> QED
    BY <1>1 DEF CountsPending

LEMMA FetchStep ==
  ASSUME FanOutInv, NEW t \in Task, Fetch(t)
  PROVE  FanOutInv'
  <1>0. FanOutTypeOK /\ CountsPending /\ AnswersFollowWorkers /\ AppendsAlone /\ ListsComplete
    BY DEF FanOutInv
  <1>1. PICK how \in {"found", "absent", "failed"} :
            /\ answer' = [answer EXCEPT ![t] = how]
            /\ worker' = [worker EXCEPT ![t] = IF how = "absent" THEN "leave" ELSE "lock"]
    BY DEF Fetch
  <1>2. worker[t] = "fetch" /\ UNCHANGED <<job, caller, unstarted, counter, mutex, list, copy>>
    BY DEF Fetch
  <1>3. /\ answer'[t] = how
        /\ worker'[t] = IF how = "absent" THEN "leave" ELSE "lock"
        /\ \A s \in Task \ {t} : worker'[s] = worker[s] /\ answer'[s] = answer[s]
    BY <1>0, <1>1 DEF FanOutTypeOK
  <1>4. FanOutTypeOK'
    BY <1>0, <1>1, <1>2 DEF FanOutTypeOK
  <1>5. CountsPending'
    BY <1>0, <1>2, <1>3, StillPending
  <1>6. AnswersFollowWorkers'
    BY <1>0, <1>2, <1>3 DEF AnswersFollowWorkers
  <1>7. AppendsAlone'
    <2>1. \A s \in Task \ {t} : Target(s)' = Target(s)
      BY <1>3 DEF Target
    <2>2. worker'[t] # "append"
      BY <1>3
    <2> QED
      BY <1>0, <1>2, <1>3, <2>1, <2>2 DEF AppendsAlone
  <1>8. ListsComplete'
    <2>1. Gone("found")' = Gone("found") /\ Gone("failed")' = Gone("failed")
      BY <1>2, <1>3 DEF Gone
    <2> QED
      BY <1>0, <1>2, <2>1 DEF ListsComplete
  <1> QED
    BY <1>4, <1>5, <1>6, <1>7, <1>8 DEF FanOutInv

LEMMA LockStep ==
  ASSUME FanOutInv, NEW t \in Task, Lock(t)
  PROVE  FanOutInv'
  <1>0. FanOutTypeOK /\ CountsPending /\ AnswersFollowWorkers /\ AppendsAlone /\ ListsComplete
    BY DEF FanOutInv
  <1>1. /\ worker[t] = "lock"
        /\ ~mutex[Target(t)]
        /\ mutex' = [mutex EXCEPT ![Target(t)] = TRUE]
        /\ copy' = [copy EXCEPT ![t] = list[Target(t)]]
        /\ worker' = [worker EXCEPT ![t] = "append"]
        /\ UNCHANGED <<job, caller, unstarted, answer, counter, list>>
    BY DEF Lock
  <1>2. \A s \in Task : Target(s) \in List /\ Target(s)' = Target(s)
    BY <1>1 DEF Target, List
  <1>3. /\ worker'[t] = "append"
        /\ \A s \in Task \ {t} : worker'[s] = worker[s] /\ copy'[s] = copy[s]
        /\ copy'[t] = list[Target(t)]
    BY <1>0, <1>1 DEF FanOutTypeOK
  <1>4. FanOutTypeOK'
    BY <1>0, <1>1, <1>2 DEF FanOutTypeOK
  <1>5. CountsPending'
    BY <1>0, <1>1, <1>3, StillPending
  <1>6. AnswersFollowWorkers'
    BY <1>0, <1>1, <1>3 DEF AnswersFollowWorkers
  <1>7. AppendsAlone'
    <2>1. \A s \in Task \ {t} : worker[s] = "append" => Target(s) # Target(t)
      BY <1>0, <1>1 DEF AppendsAlone
    <2>2. /\ mutex'[Target(t)]
          /\ \A s \in Task : Target(s) # Target(t) => mutex'[Target(s)] = mutex[Target(s)]
      BY <1>0, <1>1, <1>2 DEF FanOutTypeOK
    <2> QED
      BY <1>0, <1>1, <1>2, <1>3, <2>1, <2>2 DEF AppendsAlone
  <1>8. ListsComplete'
    <2>1. Gone("found")' = Gone("found") /\ Gone("failed")' = Gone("failed")
      BY <1>1, <1>3 DEF Gone
    <2> QED
      BY <1>0, <1>1, <2>1 DEF ListsComplete
  <1> QED
    BY <1>4, <1>5, <1>6, <1>7, <1>8 DEF FanOutInv

LEMMA AppendStep ==
  ASSUME FanOutInv, NEW t \in Task, AppendItem(t)
  PROVE  FanOutInv'
  <1>0. FanOutTypeOK /\ CountsPending /\ AnswersFollowWorkers /\ AppendsAlone /\ ListsComplete
    BY DEF FanOutInv
  <1>1. /\ worker[t] = "append"
        /\ list' = [list EXCEPT ![Target(t)] = copy[t] \cup {Item(t)}]
        /\ copy' = [copy EXCEPT ![t] = {}]
        /\ mutex' = [mutex EXCEPT ![Target(t)] = FALSE]
        /\ worker' = [worker EXCEPT ![t] = "leave"]
        /\ UNCHANGED <<job, caller, unstarted, answer, counter>>
    BY DEF AppendItem
  <1>2. \A s \in Task : Target(s) \in List /\ Target(s)' = Target(s)
    BY <1>1 DEF Target, List
  <1>3. /\ worker'[t] = "leave"
        /\ \A s \in Task \ {t} : worker'[s] = worker[s] /\ copy'[s] = copy[s]
    BY <1>0, <1>1 DEF FanOutTypeOK
  <1>4. Item(t) \in Key \cup Task
    BY FanOutAssumption DEF Item
  \* The list is as t read it.
  <1>5. /\ list'[Target(t)] = list[Target(t)] \cup {Item(t)}
        /\ \A l \in List \ {Target(t)} : list'[l] = list[l] /\ mutex'[l] = mutex[l]
    BY <1>0, <1>1, <1>2 DEF FanOutTypeOK, AppendsAlone
  <1>6. FanOutTypeOK'
    BY <1>0, <1>1, <1>2, <1>4 DEF FanOutTypeOK
  <1>7. CountsPending'
    BY <1>0, <1>1, <1>3, StillPending
  <1>8. AnswersFollowWorkers'
    BY <1>0, <1>1, <1>3 DEF AnswersFollowWorkers
  <1>9. AppendsAlone'
    <2>1. \A s \in Task \ {t} : worker[s] = "append" => Target(s) # Target(t)
      BY <1>0, <1>1 DEF AppendsAlone
    <2> QED
      BY <1>0, <1>1, <1>2, <1>3, <1>5, <2>1 DEF AppendsAlone
  <1>10. ListsComplete'
    <2>1. answer[t] \in {"found", "failed"}
      BY <1>0, <1>1 DEF AnswersFollowWorkers, FanOutTypeOK
    <2>2. CASE answer[t] = "found"
      <3>1. Gone("found")' = Gone("found") \cup {t} /\ Gone("failed")' = Gone("failed")
        BY <1>1, <1>3, <2>2 DEF Gone
      <3>2. Target(t) = "results" /\ Item(t) = UrlOf[t]
        BY <2>2 DEF Target, Item
      <3>3. list'["errors"] = list["errors"] /\ list'["results"] = list["results"] \cup {UrlOf[t]}
        BY <1>5, <3>2 DEF List
      <3> QED
        BY <1>0, <3>1, <3>3 DEF ListsComplete
    <2>3. CASE answer[t] = "failed"
      <3>1. Gone("failed")' = Gone("failed") \cup {t} /\ Gone("found")' = Gone("found")
        BY <1>1, <1>3, <2>3 DEF Gone
      <3>2. Target(t) = "errors" /\ Item(t) = t
        BY <2>3 DEF Target, Item
      <3>3. list'["results"] = list["results"] /\ list'["errors"] = list["errors"] \cup {t}
        BY <1>5, <3>2 DEF List
      <3> QED
        BY <1>0, <3>1, <3>3 DEF ListsComplete
    <2> QED
      BY <2>1, <2>2, <2>3
  <1> QED
    BY <1>6, <1>7, <1>8, <1>9, <1>10 DEF FanOutInv

\* A goroutine that leaves was counted, so that the counter was not 0, and the
\* caller has not returned.
LEMMA DoneStep ==
  ASSUME FanOutInv, NEW t \in Task, Done(t)
  PROVE  FanOutInv'
  <1>0. FanOutTypeOK /\ CountsPending /\ AnswersFollowWorkers /\ AppendsAlone /\ ListsComplete
    BY DEF FanOutInv
  <1>1. /\ worker[t] = "leave"
        /\ counter' = counter - 1
        /\ worker' = [worker EXCEPT ![t] = "done"]
        /\ UNCHANGED <<job, caller, unstarted, answer, mutex, list, copy>>
    BY DEF Done
  <1>2. /\ worker'[t] = "done"
        /\ \A s \in Task \ {t} : worker'[s] = worker[s]
    BY <1>0, <1>1 DEF FanOutTypeOK
  <1>3. t \notin unstarted
    BY <1>0, <1>1 DEF AnswersFollowWorkers
  <1>4. caller = "spawn" /\ counter = Cardinality(Pending)
    BY <1>0, <1>1, <1>3 DEF FanOutTypeOK, CountsPending
  <1>5. t \in Pending /\ Pending' = Pending \ {t}
    BY <1>1, <1>2, <1>3 DEF Pending
  <1>6. IsFiniteSet(Pending)
    BY FanOutAssumption, FS_Subset DEF Pending
  <1>7. Cardinality(Pending \ {t}) = counter - 1 /\ IsFiniteSet(Pending \ {t})
    BY <1>4, <1>5, <1>6, FS_RemoveElement
  <1>8. counter' \in Nat
    BY <1>1, <1>7, FS_CardinalityType
  <1>9. FanOutTypeOK'
    BY <1>0, <1>1, <1>8 DEF FanOutTypeOK
  <1>10. CountsPending'
    BY <1>1, <1>4, <1>5, <1>7 DEF CountsPending
  <1>11. AnswersFollowWorkers'
    BY <1>0, <1>1, <1>2 DEF AnswersFollowWorkers
  <1>12. AppendsAlone' /\ ListsComplete'
    <2>1. \A s \in Task :
              /\ worker'[s] = "append" <=> worker[s] = "append"
              /\ worker'[s] \in {"leave", "done"} <=> worker[s] \in {"leave", "done"}
      BY <1>1, <1>2
    <2> QED
      BY <1>0, <1>1, <2>1, DataKept
  <1> QED
    BY <1>9, <1>10, <1>11, <1>12 DEF FanOutInv

LEMMA FanOutInvNext == FanOutInv /\ [FanOutNext]_fanOutVars => FanOutInv'
  <1> SUFFICES ASSUME FanOutInv, [FanOutNext]_fanOutVars PROVE FanOutInv'
    OBVIOUS
  <1>1. CASE Call
    BY <1>1, CallerStep
  <1>2. ASSUME NEW t \in Task, Goroutine(t) PROVE FanOutInv'
    BY <1>2, FetchStep, LockStep, AppendStep, DoneStep DEF Goroutine
  <1>3. CASE UNCHANGED fanOutVars
    <2>1. UNCHANGED <<job, caller, unstarted, worker, answer, counter, mutex, list, copy>>
      BY <1>3 DEF fanOutVars
    <2>2. FanOutTypeOK' /\ AnswersFollowWorkers'
      BY <2>1 DEF FanOutInv, FanOutTypeOK, AnswersFollowWorkers
    <2>3. CountsPending'
      BY <2>1 DEF FanOutInv, CountsPending, Pending
    <2>4. AppendsAlone' /\ ListsComplete'
      BY <2>1, DataKept DEF FanOutInv
    <2> QED
      BY <2>2, <2>3, <2>4 DEF FanOutInv
  <1> QED
    BY <1>1, <1>2, <1>3 DEF FanOutNext

LEMMA FanOutInvariance == FanOutSpec => []FanOutInv
  BY FanOutInvInit, FanOutInvNext, PTL DEF FanOutSpec

\* Types of the fan-out: waitGroup never falls below zero, which would panic.
THEOREM FanOutTypeCorrect == FanOutSpec => []FanOutTypeOK
  <1>1. FanOutInv => FanOutTypeOK
    BY DEF FanOutInv
  <1> QED
    BY <1>1, FanOutInvariance, PTL

-----------------------------------------------------------------------------
(* The refinement *)

LEMMA InitGathers == FanOutInit => Gathering!Init
  BY DEF FanOutInit, Gathering!Init, Returned

\* When Wait returns, the lists hold what all goroutines found.
LEMMA WaitGathers ==
  ASSUME FanOutInv, FanOutInv', Wait
  PROVE  Gathering!GatherAll
  <1>1. /\ caller = "spawn" /\ caller' = "returned"
        /\ UNCHANGED <<worker, answer, list>>
    BY DEF Wait
  <1>2. \A t \in Task : worker[t] = "done"
    BY <1>1 DEF FanOutInv, CountsPending
  <1>3. answer \in [Task -> {"found", "absent", "failed"}]
    BY <1>2 DEF FanOutInv, FanOutTypeOK, AnswersFollowWorkers
  <1>4. \A how : Gone(how) = {t \in Task : answer[t] = how}
    BY <1>2 DEF Gone
  <1>5. /\ list["results"] = {UrlOf[t] : t \in {s \in Task : answer[s] = "found"}}
        /\ list["errors"] = {t \in Task : answer[t] = "failed"}
    BY <1>4 DEF FanOutInv, ListsComplete
  <1> QED
    BY <1>1, <1>3, <1>5 DEF Gathering!GatherAll, Gathering!Answered, Returned

\* Nothing else shows, and nothing moves any more once Wait has returned.
LEMMA NextGathers ==
  ASSUME FanOutInv, FanOutInv', [FanOutNext]_fanOutVars
  PROVE  [Gathering!Next]_Gathering!vars
  <1>1. CASE Wait
    BY <1>1, WaitGathers DEF Gathering!Next
  <1>2. CASE ResolveFails
    BY <1>2 DEF ResolveFails, Gathering!Stop, Gathering!Next, Returned
  <1>3. CASE Begin \/ \E t \in Task : Spawn(t)
    <2>1. /\ caller \in {"begin", "spawn"}
          /\ caller' = "spawn"
      BY <1>3 DEF Begin, Spawn
    <2> QED
      BY <2>1 DEF Gathering!vars, Returned
  <1>4. ASSUME NEW t \in Task, Goroutine(t) PROVE UNCHANGED Gathering!vars
    <2>1. worker[t] # "done" /\ caller' = caller
      BY <1>4 DEF Goroutine, Fetch, Lock, AppendItem, Done
    <2>2. caller # "returned"
      BY <2>1 DEF FanOutInv, CountsPending
    <2> QED
      BY <2>1, <2>2 DEF Gathering!vars, Returned
  <1>5. CASE UNCHANGED fanOutVars
    BY <1>5 DEF fanOutVars, Gathering!vars, Returned
  <1> QED
    BY <1>1, <1>2, <1>3, <1>4, <1>5 DEF FanOutNext, Call

\* For any number of tasks: Wait returns only when every goroutine has left, and
\* then every result and every error is in its list, and stays there.
THEOREM FanOutImplementsGather == FanOutSpec => ImplementsGather
  BY InitGathers, NextGathers, FanOutInvariance, PTL
     DEF FanOutSpec, ImplementsGather, Gathering!Spec

-----------------------------------------------------------------------------
(* That it does not stop halfway *)

\* Whoever waits for a mutex waits for a goroutine that will release it next.
LocksHeld ==
    \A l \in List : mutex[l] => \E t \in Task : worker[t] = "append" /\ Target(t) = l

LEMMA LocksHeldInit == FanOutInit => LocksHeld
  BY DEF FanOutInit, LocksHeld

LEMMA LocksHeldNext == FanOutInv /\ LocksHeld /\ [FanOutNext]_fanOutVars => LocksHeld'
  <1> SUFFICES ASSUME FanOutInv, LocksHeld, [FanOutNext]_fanOutVars PROVE LocksHeld'
    OBVIOUS
  <1>0. FanOutTypeOK /\ AnswersFollowWorkers
    BY DEF FanOutInv
  \* Nobody enters or leaves an append, and the mutexes stay.
  <1>1. ASSUME UNCHANGED mutex,
               \A t \in Task : worker[t] = "append" =>
                   worker'[t] = "append" /\ answer'[t] = answer[t]
        PROVE  LocksHeld'
    BY <1>1 DEF LocksHeld, Target
  <1>2. CASE Begin \/ ResolveFails \/ Wait \/ UNCHANGED fanOutVars
    BY <1>1, <1>2 DEF Begin, ResolveFails, Wait, fanOutVars
  <1>3. ASSUME NEW s \in Task, Spawn(s) \/ Fetch(s) \/ Done(s) PROVE LocksHeld'
    <2>1. /\ UNCHANGED mutex
          /\ worker[s] # "append"
          /\ \A t \in Task \ {s} : worker'[t] = worker[t] /\ answer'[t] = answer[t]
      BY <1>0, <1>3 DEF Spawn, Fetch, Done, FanOutTypeOK, AnswersFollowWorkers
    <2> QED
      BY <1>1, <2>1
  <1>4. ASSUME NEW s \in Task, Lock(s) PROVE LocksHeld'
    <2>1. /\ mutex' = [mutex EXCEPT ![Target(s)] = TRUE]
          /\ worker[s] = "lock"
          /\ worker' = [worker EXCEPT ![s] = "append"]
          /\ answer' = answer
      BY <1>4 DEF Lock
    <2>2. /\ worker'[s] = "append"
          /\ \A t \in Task \ {s} : worker'[t] = worker[t]
          /\ \A t \in Task : Target(t)' = Target(t)
          /\ \A l \in List \ {Target(s)} : mutex'[l] = mutex[l]
      BY <1>0, <2>1 DEF FanOutTypeOK, Target
    <2>3. ASSUME NEW l \in List, mutex'[l]
          PROVE  \E t \in Task : worker'[t] = "append" /\ Target(t)' = l
      <3>1. CASE l = Target(s)
        BY <2>2, <3>1
      <3>2. CASE l # Target(s)
        <4>1. PICK t \in Task : worker[t] = "append" /\ Target(t) = l
          BY <2>2, <2>3, <3>2 DEF LocksHeld
        <4> QED
          BY <2>1, <2>2, <4>1
      <3> QED
        BY <3>1, <3>2
    <2> QED
      BY <2>3 DEF LocksHeld
  <1>5. ASSUME NEW s \in Task, AppendItem(s) PROVE LocksHeld'
    <2>1. /\ mutex' = [mutex EXCEPT ![Target(s)] = FALSE]
          /\ worker' = [worker EXCEPT ![s] = "leave"]
          /\ answer' = answer
      BY <1>5 DEF AppendItem
    <2>2. /\ \A t \in Task \ {s} : worker'[t] = worker[t]
          /\ \A t \in Task : Target(t)' = Target(t)
          /\ \A l \in List : mutex'[l] => l # Target(s) /\ mutex[l]
      BY <1>0, <2>1 DEF FanOutTypeOK, Target
    <2>3. ASSUME NEW l \in List, mutex'[l]
          PROVE  \E t \in Task : worker'[t] = "append" /\ Target(t)' = l
      <3>1. PICK t \in Task : worker[t] = "append" /\ Target(t) = l
        BY <2>2, <2>3 DEF LocksHeld
      <3>2. t # s
        BY <2>2, <2>3, <3>1
      <3> QED
        BY <2>2, <3>1, <3>2
    <2> QED
      BY <2>3 DEF LocksHeld
  <1> QED
    BY <1>2, <1>3, <1>4, <1>5 DEF FanOutNext, Call, Goroutine

\* If all others wait for a mutex, one of them holds none and the mutex is free.
LEMMA NobodyStuck == FanOutInv /\ LocksHeld => NoCircularWait
  <1> SUFFICES ASSUME FanOutInv, LocksHeld, caller = "spawn", unstarted = {}, counter # 0
               PROVE  \E t \in Task :
                          \/ worker[t] \in {"fetch", "append", "leave"}
                          \/ worker[t] = "lock" /\ ~mutex[Target(t)]
    BY DEF NoCircularWait, SomeoneGoes
  <1>1. Pending # {}
    <2>1. counter = Cardinality(Pending)
      BY DEF FanOutInv, CountsPending
    <2> QED
      BY <2>1, FS_EmptySet
  <1>2. PICK t \in Task : worker[t] # "done"
    BY <1>1 DEF Pending
  <1>3. worker[t] \in {"fetch", "lock", "append", "leave"}
    BY <1>2 DEF FanOutInv, FanOutTypeOK, AnswersFollowWorkers
  <1>4. CASE worker[t] = "lock" /\ mutex[Target(t)]
    <2>1. Target(t) \in List
      BY DEF Target, List
    <2> QED
      BY <1>4, <2>1 DEF LocksHeld
  <1> QED
    BY <1>3, <1>4

\* For any number of tasks: the caller and the goroutines never all wait.
THEOREM FanOutDeadlockFree == FanOutSpec => []NoCircularWait
  BY FanOutInvariance, LocksHeldInit, LocksHeldNext, NobodyStuck, PTL DEF FanOutSpec

\* The places that a goroutine, or the caller, comes to after this one.
After(place) == CASE place = "none" -> {"fetch", "lock", "append", "leave", "done"}
                  [] place = "fetch" -> {"lock", "append", "leave", "done"}
                  [] place = "lock" -> {"append", "leave", "done"}
                  [] place = "append" -> {"leave", "done"}
                  [] place = "leave" -> {"done"}
                  [] place = "begin" -> {"spawn", "returned"}
                  [] place = "spawn" -> {"returned"}
                  [] OTHER -> {}

WorkAhead == {step \in Task \X {"fetch", "lock", "append", "leave", "done"} :
                  step[2] \in After(worker[step[1]])}

\* A step of the caller, or of one goroutine, leaves fewer places ahead.
Advances ==
    \/ /\ UNCHANGED WorkAhead
       /\ After(caller') \subseteq After(caller) /\ After(caller') # After(caller)
    \/ UNCHANGED caller /\ WorkAhead' \subseteq WorkAhead /\ WorkAhead' # WorkAhead

LEMMA WorkerAdvances ==
  ASSUME FanOutTypeOK, NEW s \in Task, NEW place \in After(worker[s]),
         worker' = [worker EXCEPT ![s] = place], UNCHANGED caller
  PROVE  Advances
  <1>1. /\ worker'[s] = place
        /\ \A t \in Task \ {s} : worker'[t] = worker[t]
    BY DEF FanOutTypeOK
  <1>2. worker[s] \in {"none", "fetch", "lock", "append", "leave", "done"}
    BY DEF FanOutTypeOK
  <1>3. /\ After(place) \subseteq After(worker[s])
        /\ place \notin After(place)
        /\ place \in {"fetch", "lock", "append", "leave", "done"}
    BY <1>2 DEF After
  <1>4. WorkAhead' \subseteq WorkAhead
    BY <1>1, <1>3 DEF WorkAhead
  <1>5. <<s, place>> \in WorkAhead /\ <<s, place>> \notin WorkAhead'
    BY <1>1, <1>3 DEF WorkAhead
  <1> QED
    BY <1>4, <1>5 DEF Advances

LEMMA FanOutAdvances == FanOutInv /\ FanOutNext => Advances
  <1> SUFFICES ASSUME FanOutInv, FanOutNext PROVE Advances
    OBVIOUS
  <1>0. FanOutTypeOK
    BY DEF FanOutInv
  <1>1. CASE Begin \/ ResolveFails \/ Wait
    <2>1. WorkAhead' = WorkAhead
      BY <1>1 DEF Begin, ResolveFails, Wait, WorkAhead
    <2>2. After(caller') \subseteq After(caller) /\ After(caller') # After(caller)
      BY <1>1 DEF Begin, ResolveFails, Wait, After
    <2> QED
      BY <2>1, <2>2 DEF Advances
  <1>2. ASSUME NEW s \in Task, Spawn(s) PROVE Advances
    <2>1. worker[s] = "none"
      BY <1>2 DEF Spawn, FanOutInv, AnswersFollowWorkers
    <2>2. "fetch" \in After(worker[s])
      BY <2>1 DEF After
    <2> QED
      BY <1>0, <1>2, <2>2, WorkerAdvances DEF Spawn
  <1>3. ASSUME NEW s \in Task, Goroutine(s) PROVE Advances
    <2>1. PICK place \in {"lock", "append", "leave", "done"} :
              /\ place \in After(worker[s])
              /\ worker' = [worker EXCEPT ![s] = place]
      BY <1>3 DEF Goroutine, Fetch, Lock, AppendItem, Done, After
    <2>2. UNCHANGED caller
      BY <1>3 DEF Goroutine, Fetch, Lock, AppendItem, Done
    <2> QED
      BY <1>0, <2>1, <2>2, WorkerAdvances
  <1> QED
    BY <1>1, <1>2, <1>3 DEF FanOutNext, Call

LEMMA WorkAheadFinite == IsFiniteSet(WorkAhead)
  <1> DEFINE Places == {"fetch", "lock", "append", "leave", "done"}
  <1>1. IsFiniteSet(Places)
    <2>1. IsFiniteSet({"fetch"}) /\ IsFiniteSet({"lock"}) /\ IsFiniteSet({"append"})
          /\ IsFiniteSet({"leave"}) /\ IsFiniteSet({"done"})
      BY FS_Singleton
    <2>2. IsFiniteSet({"fetch"} \cup {"lock"})
      BY <2>1, FS_Union
    <2>3. IsFiniteSet({"append"} \cup {"leave"})
      BY <2>1, FS_Union
    <2>4. IsFiniteSet(({"fetch"} \cup {"lock"}) \cup ({"append"} \cup {"leave"}))
      BY <2>2, <2>3, FS_Union
    <2>5. IsFiniteSet((({"fetch"} \cup {"lock"}) \cup ({"append"} \cup {"leave"})) \cup {"done"})
      BY <2>1, <2>4, FS_Union
    <2>6. Places = (({"fetch"} \cup {"lock"}) \cup ({"append"} \cup {"leave"})) \cup {"done"}
      OBVIOUS
    <2> QED
      BY <2>5, <2>6
  <1>2. IsFiniteSet(Task \X Places)
    BY <1>1, FS_Product, FanOutAssumption
  <1>3. WorkAhead \subseteq Task \X Places
    BY DEF WorkAhead
  <1> QED
    BY <1>2, <1>3, FS_Subset

\* With that, it comes to an end: each step takes the caller or one goroutine to a
\* place further on, never back, and there are finitely many places.
THEOREM FanOutComesCloser ==
  FanOutSpec => [][Advances]_fanOutVars /\ [](IsFiniteSet(WorkAhead))
  <1>1. FanOutInv /\ [FanOutNext]_fanOutVars => [Advances]_fanOutVars
    BY FanOutAdvances
  <1> QED
    BY <1>1, FanOutInvariance, WorkAheadFinite, PTL DEF FanOutSpec

=============================================================================
