--------------------------- MODULE SourceMapStage ---------------------------
(***************************************************************************)
(* FetchAndWriteAllSourceMaps of sourcemap/writer.go in the process of a   *)
(* daemon: FanOut fetches the source maps, SourceMapWriter writes their    *)
(* sources, and meanwhile the main goroutine of Shutdown ends the process  *)
(* when a signal comes.  (The fan-outs over pages and assets, which are    *)
(* followed by other stages, run in the same surroundings.)                *)
(***************************************************************************)
EXTENDS FanOut, SourceMapWriter, Shutdown

ASSUME StageAssumption == Key \subseteq Url

vars == <<fanOutVars, writerVars, shutdownVars>>

Init == FanOutInit /\ WriterInit /\ ShutdownInit

\* daemon.Run is on its way, and the process alive.
Working == Alive /\ main # "launch"

FanOutStep(A) == Working /\ A /\ UNCHANGED <<writerVars, shutdownVars>>

\* The errors of fetchAllSourceMaps end FetchAndWriteAllSourceMaps.
Fetched ==
    /\ job = "source maps"
    /\ caller = "returned"
    /\ list["errors"] = {}

Parse ==
    /\ Working
    /\ Fetched
    /\ ParseAllSourceMaps(list["results"]) \/ ParseFails
    /\ UNCHANGED <<fanOutVars, shutdownVars>>

\* section.Map of a section that has no map.
ParsePanic ==
    /\ Working
    /\ Fetched
    /\ ParsePanics(list["results"])
    /\ Panic
    /\ UNCHANGED fanOutVars

\* GetHashFromETag of an ETag that is too short, in the goroutine of t.
FetchPanic(t) ==
    /\ Working
    /\ worker[t] = "fetch"
    /\ Panic
    /\ UNCHANGED <<fanOutVars, writerVars>>

Write == Working /\ WriteStep /\ UNCHANGED <<fanOutVars, shutdownVars>>

Main == MainStep /\ UNCHANGED <<fanOutVars, writerVars>>

\* A signal is sent to the process.
Environment == Alive /\ (Signal \/ Kill) /\ UNCHANGED <<fanOutVars, writerVars>>

Next ==
    \/ FanOutStep(Call)
    \/ \E t \in Task : FanOutStep(Goroutine(t)) \/ FetchPanic(t)
    \/ Parse
    \/ ParsePanic
    \/ Write
    \/ Main
    \/ Environment

\* Go's scheduler gives every goroutine its turn.  A request ends: that a server
\* never answers is left out.  None of the fairness is about a signal.
Fairness ==
    /\ WF_vars(FanOutStep(Call))
    /\ \A t \in Task : WF_vars(FanOutStep(Goroutine(t)))
    /\ WF_vars(Parse)
    /\ WF_vars(Write)
    /\ WF_vars(Main)

Spec == Init /\ [][Next]_vars

LiveSpec == Spec /\ Fairness

-----------------------------------------------------------------------------
(* Properties *)

\* The function of this fan-out, or FetchAndWriteAllSourceMaps, has returned.
StageOver ==
    \/ caller = "stopped"
    \/ caller = "returned" /\ ~Fetched
    \/ writer \in {"done", "failed"}

\* Goroutines, mutexes and the wait group never wait for each other in a circle,
\* and the writer comes to an end whatever it cannot write: the stage ends
\* unless the process does.
StageEnds == <>(StageOver \/ ~Alive)

\* Nothing of an incomplete build: from the moment that the writer touches the output
\* directory every fetch of a source map has ended, none in an error
\* (writer.go:140-142), and what it writes comes from source maps that were found.
AllOrNothing ==
    /\ tree # left \/ writer \notin {"parse", "failed"} =>
          /\ job = "source maps"
          /\ \A t \in Task : worker[t] = "done" /\ answer[t] # "failed"
    /\ \A n \in Node : \A e \in content[n] :
          \E t \in Task : UrlOf[t] = e[1] /\ answer[t] = "found"

=============================================================================
