------------------------ MODULE SourceMapStageProofs ------------------------
(***************************************************************************)
(* That the composition hides nothing: every step of SourceMapStage is a   *)
(* step of each of its components or leaves it alone, so that whatever the *)
(* components are proved to do alone they do together, in a process that   *)
(* may end at any moment.  The writer is handed only URLs of source maps   *)
(* and only what a fan-out without errors returned, which is what the      *)
(* fan-out's invariant is needed for.                                      *)
(***************************************************************************)
EXTENDS SourceMapStage, FanOutProofs, SourceMapWriterProofs, ShutdownProofs

\* The fan-out in the process is the fan-out.
THEOREM StageRunsFanOut == Spec => FanOutSpec
  <1>1. Init => FanOutInit
    BY DEF Init
  <1>2. [Next]_vars => [FanOutNext]_fanOutVars
    <2> SUFFICES ASSUME [Next]_vars PROVE [FanOutNext]_fanOutVars
      OBVIOUS
    <2>1. CASE FanOutStep(Call) \/ \E t \in Task : FanOutStep(Goroutine(t))
      BY <2>1 DEF FanOutStep, FanOutNext
    <2>2. CASE (\E t \in Task : FetchPanic(t)) \/ Parse \/ ParsePanic \/ Write \/ Main
                 \/ Environment
      BY <2>2 DEF FetchPanic, Parse, ParsePanic, Write, Main, Environment
    <2>3. CASE UNCHANGED vars
      BY <2>3 DEF vars
    <2> QED
      BY <2>1, <2>2, <2>3 DEF Next
  <1> QED
    BY <1>1, <1>2, PTL DEF Spec, FanOutSpec

\* The main goroutine with its signals is that of Shutdown, whatever the others do.
THEOREM StageRunsShutdown == Spec => ShutdownSpec
  <1>1. Init => ShutdownInit
    BY DEF Init
  <1>2. [Next]_vars => [ShutdownNext]_shutdownVars
    <2> SUFFICES ASSUME [Next]_vars PROVE [ShutdownNext]_shutdownVars
      OBVIOUS
    <2>1. CASE \/ FanOutStep(Call)
               \/ \E t \in Task : FanOutStep(Goroutine(t))
               \/ Parse \/ Write
      BY <2>1 DEF FanOutStep, Parse, Write
    <2>2. CASE (\E t \in Task : FetchPanic(t)) \/ ParsePanic
      BY <2>2 DEF FetchPanic, ParsePanic, Working, ShutdownNext
    <2>3. CASE Main \/ Environment
      BY <2>3 DEF Main, Environment, ShutdownNext
    <2>4. CASE UNCHANGED vars
      BY <2>4 DEF vars
    <2> QED
      BY <2>1, <2>2, <2>3, <2>4 DEF Next
  <1> QED
    BY <1>1, <1>2, PTL DEF Spec, ShutdownSpec

LEMMA ResultsAreUrls == FanOutInv => list["results"] \in SUBSET Url
  <1> SUFFICES ASSUME FanOutInv PROVE list["results"] \subseteq Url
    OBVIOUS
  <1>1. list["results"] = {UrlOf[t] : t \in Gone("found")}
    BY DEF FanOutInv, ListsComplete
  <1>2. \A t \in Gone("found") : UrlOf[t] \in Url
    BY FanOutAssumption, StageAssumption DEF Gone
  <1> QED
    BY <1>1, <1>2

\* The writer in the process is the writer: it parses what the fan-out returned.
THEOREM StageRunsWriter == Spec => WriterSpec
  <1>1. Init => WriterInit
    BY DEF Init
  <1>2. FanOutInv /\ [Next]_vars => [WriterNext]_writerVars
    <2> SUFFICES ASSUME FanOutInv, [Next]_vars PROVE [WriterNext]_writerVars
      OBVIOUS
    <2>1. CASE \/ FanOutStep(Call)
               \/ \E t \in Task : FanOutStep(Goroutine(t)) \/ FetchPanic(t)
               \/ Main \/ Environment
      BY <2>1 DEF FanOutStep, FetchPanic, Main, Environment
    <2>2. CASE Parse
      BY <2>2, ResultsAreUrls DEF Parse, WriterNext
    <2>3. CASE ParsePanic
      BY <2>3 DEF ParsePanic, ParsePanics
    <2>4. CASE Write
      BY <2>4 DEF Write, WriterNext
    <2>5. CASE UNCHANGED vars
      BY <2>5 DEF vars
    <2> QED
      BY <2>1, <2>2, <2>3, <2>4, <2>5 DEF Next
  <1> QED
    BY <1>1, <1>2, StageRunsFanOut, FanOutInvariance, PTL DEF Spec, WriterSpec

-----------------------------------------------------------------------------
(* What is handed over *)

\* The writer has sources only of what a fan-out without errors returned.
HandedOver ==
    /\ writer # "parse" => Fetched
    /\ \A u \in Url : sources[u] # {} => writer # "parse" /\ u \in list["results"]

\* Once the fan-out has returned, nothing of it changes.
LEMMA FetchedStays == FanOutInv /\ Fetched /\ [FanOutNext]_fanOutVars => UNCHANGED fanOutVars
  <1> SUFFICES ASSUME FanOutInv, Fetched, FanOutNext PROVE UNCHANGED fanOutVars
    OBVIOUS
  <1>1. caller = "returned" /\ \A t \in Task : worker[t] = "done"
    BY DEF Fetched, FanOutInv, CountsPending
  <1>2. ~Call
    BY <1>1 DEF Call, Begin, ResolveFails, Spawn, Wait
  <1>3. \A t \in Task : ~Goroutine(t)
    BY <1>1 DEF Goroutine, Fetch, Lock, AppendItem, Done
  <1> QED
    BY <1>2, <1>3 DEF FanOutNext

LEMMA HandedOverNext == FanOutInv /\ WriterInv /\ HandedOver /\ [Next]_vars => HandedOver'
  <1> SUFFICES ASSUME FanOutInv, WriterInv, HandedOver, [Next]_vars PROVE HandedOver'
    OBVIOUS
  <1>1. CASE \/ FanOutStep(Call)
             \/ \E t \in Task : FanOutStep(Goroutine(t))
    <2>1. FanOutNext /\ UNCHANGED writerVars
      BY <1>1 DEF FanOutStep, FanOutNext
    <2>2. UNCHANGED <<writer, sources>>
      BY <2>1 DEF writerVars
    <2>3. CASE writer = "parse"
      BY <2>2, <2>3 DEF HandedOver
    <2>4. CASE writer # "parse"
      <3>1. Fetched
        BY <2>4 DEF HandedOver
      <3>2. UNCHANGED <<job, caller, list>>
        BY <2>1, <3>1, FetchedStays DEF fanOutVars
      <3> QED
        BY <2>2, <2>4, <3>1, <3>2 DEF HandedOver, Fetched
    <2> QED
      BY <2>3, <2>4
  \* Of all others, only Parse is a step of the writer that hands something over.
  <1>2. ASSUME UNCHANGED <<job, caller, list, sources>>,
               writer' # "parse" => Fetched,
               writer # "parse" => writer' # "parse"
        PROVE  HandedOver'
    BY <1>2 DEF HandedOver, Fetched
  <1>3. CASE Parse
    <2>1. /\ Fetched
          /\ UNCHANGED <<job, caller, list>>
          /\ ParseAllSourceMaps(list["results"]) \/ ParseFails
      BY <1>3 DEF Parse, fanOutVars
    <2>2. CASE ParseFails
      BY <1>2, <2>1, <2>2 DEF ParseFails
    <2>3. CASE ParseAllSourceMaps(list["results"])
      <3>1. /\ writer' = "next"
            /\ \A u \in Url : sources'[u] # {} => u \in list["results"]
        BY <2>3 DEF ParseAllSourceMaps
      <3> QED
        BY <2>1, <3>1 DEF HandedOver, Fetched
    <2> QED
      BY <2>1, <2>2, <2>3
  <1>4. CASE Write
    <2>1. UNCHANGED <<job, caller, list>> /\ WriteStep
      BY <1>4 DEF Write, fanOutVars
    <2>2. writer # "parse" /\ writer' # "parse" /\ UNCHANGED sources
      BY <2>1 DEF WriteStep, MkdirAll, MkdirAllFails, MkdirAllBreaks, Iteration, OpenFile,
                  OpenFileFails, WriteFile, DiskFails, NextSource, Finish
    <2>3. Fetched
      BY <2>2 DEF HandedOver
    <2> QED
      BY <1>2, <2>1, <2>2, <2>3
  <1>5. CASE (\E t \in Task : FetchPanic(t)) \/ ParsePanic \/ Main \/ Environment
               \/ UNCHANGED vars
    <2>1. UNCHANGED <<job, caller, list, sources, writer>>
      BY <1>5 DEF FetchPanic, ParsePanic, ParsePanics, Main, Environment, vars, fanOutVars,
                  writerVars
    <2> QED
      BY <1>2, <2>1 DEF HandedOver
  <1> QED
    BY <1>1, <1>3, <1>4, <1>5 DEF Next

LEMMA HandedOverGivesAll ==
  FanOutInv /\ WriterInv /\ HoldsOwn /\ HandedOver => AllOrNothing
  <1> SUFFICES ASSUME FanOutInv, WriterInv, HoldsOwn, HandedOver PROVE AllOrNothing
    OBVIOUS
  <1>1. ASSUME tree # left \/ writer \notin {"parse", "failed"}
        PROVE  job = "source maps" /\ \A t \in Task : worker[t] = "done" /\ answer[t] # "failed"
    <2>1. Fetched
      BY <1>1 DEF HandedOver, WriterInv, TreeExplained
    <2>2. \A t \in Task : worker[t] = "done"
      BY <2>1 DEF Fetched, FanOutInv, CountsPending
    <2>3. Gone("failed") = {}
      BY <2>1 DEF Fetched, FanOutInv, ListsComplete
    <2> QED
      BY <2>1, <2>2, <2>3 DEF Fetched, Gone
  <1>2. ASSUME NEW n \in Node, NEW e \in content[n]
        PROVE  \E t \in Task : UrlOf[t] = e[1] /\ answer[t] = "found"
    <2>1. e[1] \in Url /\ sources[e[1]] # {}
      BY <1>2, OutputType DEF HoldsOwn, Recoverable
    <2>2. e[1] \in list["results"]
      BY <2>1 DEF HandedOver
    <2> QED
      BY <2>2 DEF FanOutInv, ListsComplete, Gone
  <1> QED
    BY <1>1, <1>2 DEF AllOrNothing

\* writer.go:140-142, for any number of source maps, whatever fails or panics and
\* however the goroutines take turns: nothing of an incomplete build is written.
THEOREM StageAllOrNothing == Spec => []AllOrNothing
  <1>1. Init => HandedOver
    BY DEF Init, WriterInit, HandedOver
  <1> QED
    BY <1>1, StageRunsFanOut, StageRunsWriter, FanOutInvariance, WriterInvariance,
       HandedOverNext, HandedOverGivesAll, PTL
       DEF Spec

\* All together: whatever is fetched, written and signalled in whatever order, the
\* fan-out gathers and never waits in a circle, nothing of an incomplete build is
\* written, the writer loses no source that it could have saved, and the process
\* does not end by a signal before its cache is closed.
THEOREM StageSafe ==
  Spec => /\ ImplementsGather
          /\ []NoCircularWait
          /\ []AllOrNothing
          /\ []LostOnlyToRivals
          /\ []GracefulStop
  BY StageRunsFanOut, StageRunsWriter, StageRunsShutdown, FanOutImplementsGather,
     FanOutDeadlockFree, StageAllOrNothing, RenamingSaves, StopsGracefully, PTL

=============================================================================
