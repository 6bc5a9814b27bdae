---------------------------- MODULE CrawlProofs -----------------------------
(***************************************************************************)
(* That no build is announced more often than it was deployed, for any set *)
(* of builds and any number of deployments, failures and restarts.         *)
(*                                                                         *)
(* The argument counts the alerts that are still to come.  A build may be  *)
(* announced (again) while a run for it is on its way to the alert, or     *)
(* while the site serves it and .build does not name it, or soon will not  *)
(* (MayAlert).  It can become so only by a deployment or by --clear-cache, *)
(* which both raise what the build is entitled to, and it ceases to be so  *)
(* with the alert.                                                         *)
(*                                                                         *)
(* Further, when the skipping of a build is as the README says, and that a *)
(* daemon draws level with the site.                                       *)
(***************************************************************************)
EXTENDS Crawl, TLAPS

\* Past WriteBuildId, .build names the build of the run; within it, none.
RecordedFollowsStage ==
    /\ pc \in {"manifest", "alert", "assets", "sourcemaps"} => recorded = build
    /\ pc = "record" => recorded = NoBuild

\* The present run will announce b unless it fails.
OnItsWay(b) ==
    /\ build = b
    /\ \/ pc = "compare" /\ recorded # b
       \/ pc \in {"record", "manifest", "alert"}

\* A later run will announce b unless the site or .build changes first.
Awaited(b) ==
    /\ site = b
    /\ \/ recorded # b
       \/ pc = "compare" /\ build \notin {b, recorded}

MayAlert(b) == OnItsWay(b) \/ Awaited(b)

EntitledToAlert ==
    \A b \in Build : MayAlert(b) => alerted[b] < deployed[b] + clears

IInv ==
    /\ TypeOK
    /\ RecordedFollowsStage
    /\ NoRepeatedAlert
    /\ EntitledToAlert

\* The site has its first build, which was deployed once and never announced.
LEMMA InitIInv == Init => IInv
  <1> SUFFICES ASSUME Init PROVE IInv
    OBVIOUS
  <1> USE CrawlAssumption
  <1>1. TypeOK
    <2>1. PICK b \in Build :
              site = b /\ deployed = [c \in Build |-> IF c = b THEN 1 ELSE 0]
      BY DEF Init
    <2>2. site \in Build /\ deployed \in [Build -> 0 .. MaxDeployments]
      BY <2>1
    <2>3. /\ alerted \in [Build -> Nat]
          /\ failures \in 0 .. MaxFailures
          /\ clears \in 0 .. MaxClears
      BY DEF Init
    <2>4. pc \in Stage \ {"fetch"} <=> build # NoBuild
      BY DEF Init, Stage
    <2> QED
      BY <2>2, <2>3, <2>4 DEF Init, TypeOK
  <1>2. RecordedFollowsStage /\ NoRepeatedAlert /\ EntitledToAlert
    BY DEF Init, RecordedFollowsStage, NoRepeatedAlert, EntitledToAlert, MayAlert,
           OnItsWay, Awaited
  <1> QED
    BY <1>1, <1>2 DEF IInv

\* However a run ends, nobody becomes entitled to an alert by it: with an error,
\* with success, by a signal or by a kill.
LEMMA RunEnds ==
  ASSUME IInv, build' = NoBuild, pc' \in {"off", "sleep"},
         recorded' = recorded, site' = site, deployed' = deployed,
         alerted' = alerted, clears' = clears
  PROVE  RecordedFollowsStage' /\ NoRepeatedAlert' /\ EntitledToAlert'
  BY CrawlAssumption
  DEF IInv, TypeOK, RecordedFollowsStage, NoRepeatedAlert, EntitledToAlert,
      MayAlert, OnItsWay, Awaited

\* No step of the site, of main, of daemon.Run or of DoWork breaks IInv.
LEMMA NextIInv == IInv /\ [Next]_vars => IInv'
  <1> SUFFICES ASSUME IInv, [Next]_vars PROVE IInv'
    OBVIOUS
  <1> USE CrawlAssumption
  <1>0. TypeOK /\ RecordedFollowsStage /\ NoRepeatedAlert /\ EntitledToAlert
    BY DEF IInv
  <1>1. ASSUME NEW b \in Build, Deploy(b) PROVE IInv'
    <2>1. TypeOK'
      BY <1>0, <1>1 DEF Deploy, history, TypeOK
    <2>2. RecordedFollowsStage' /\ NoRepeatedAlert'
      BY <1>0, <1>1 DEF Deploy, history, TypeOK, RecordedFollowsStage,
                        NoRepeatedAlert
    <2>3. EntitledToAlert'
      BY <1>0, <1>1 DEF Deploy, history, TypeOK, NoRepeatedAlert, EntitledToAlert,
                        MayAlert, OnItsWay, Awaited
    <2> QED
      BY <2>1, <2>2, <2>3 DEF IInv
  <1>2. CASE Start
    BY <1>0, <1>2 DEF Start, world, history, IInv, TypeOK, Stage,
                      RecordedFollowsStage, NoRepeatedAlert, EntitledToAlert,
                      MayAlert, OnItsWay, Awaited
  <1>3. CASE StartCleared
    <2>1. TypeOK'
      BY <1>0, <1>3 DEF StartCleared, world, TypeOK, Stage
    <2>2. RecordedFollowsStage' /\ NoRepeatedAlert' /\ EntitledToAlert'
      BY <1>0, <1>3 DEF StartCleared, world, TypeOK, RecordedFollowsStage,
                        NoRepeatedAlert, EntitledToAlert, MayAlert, OnItsWay,
                        Awaited
    <2> QED
      BY <2>1, <2>2 DEF IInv
  <1>4. CASE FetchInitialPage
    BY <1>0, <1>4 DEF FetchInitialPage, world, history, IInv, TypeOK, Stage,
                      RecordedFollowsStage, NoRepeatedAlert, EntitledToAlert,
                      MayAlert, OnItsWay, Awaited
  <1>5. CASE TruncateBuildId
    BY <1>0, <1>5 DEF TruncateBuildId, world, history, IInv, TypeOK, Stage,
                      RecordedFollowsStage, NoRepeatedAlert, EntitledToAlert,
                      MayAlert, OnItsWay, Awaited
  <1>6. CASE WriteBuildId
    BY <1>0, <1>6 DEF WriteBuildId, world, history, IInv, TypeOK, Stage,
                      RecordedFollowsStage, NoRepeatedAlert, EntitledToAlert,
                      MayAlert, OnItsWay, Awaited
  <1>7. CASE GetBuildManifest
    BY <1>0, <1>7 DEF GetBuildManifest, world, history, IInv, TypeOK, Stage,
                      RecordedFollowsStage, NoRepeatedAlert, EntitledToAlert,
                      MayAlert, OnItsWay, Awaited
  <1>8. CASE Alert
    <2>1. build \in Build /\ recorded = build /\ pc' = "assets"
      BY <1>0, <1>8 DEF Alert, TypeOK, Stage, RecordedFollowsStage
    <2>2. TypeOK'
      BY <1>0, <1>8, <2>1 DEF Alert, world, TypeOK, Stage
    <2>3. alerted[build] < deployed[build] + clears
      BY <1>0, <1>8, <2>1 DEF Alert, EntitledToAlert, MayAlert, OnItsWay
    <2>4. NoRepeatedAlert'
      BY <1>0, <1>8, <2>1, <2>3 DEF Alert, world, TypeOK, NoRepeatedAlert
    <2>5. RecordedFollowsStage' /\ EntitledToAlert'
      BY <1>0, <1>8, <2>1 DEF Alert, world, TypeOK, RecordedFollowsStage,
                              EntitledToAlert, MayAlert, OnItsWay, Awaited
    <2> QED
      BY <2>2, <2>4, <2>5 DEF IInv
  <1>9. CASE FetchAndResolveAllSiteAssets
    BY <1>0, <1>9 DEF FetchAndResolveAllSiteAssets, world, history, IInv, TypeOK,
                      Stage, RecordedFollowsStage, NoRepeatedAlert,
                      EntitledToAlert, MayAlert, OnItsWay, Awaited
  <1>10. CASE Wake
    BY <1>0, <1>10 DEF Wake, world, history, IInv, TypeOK, Stage,
                       RecordedFollowsStage, NoRepeatedAlert, EntitledToAlert,
                       MayAlert, OnItsWay, Awaited
  <1>11. CASE SameBuild \/ FetchAndWriteAllSourceMaps \/ Fail
    <2>1. TypeOK'
      <3>1. CASE SameBuild \/ Fail
        BY <1>0, <3>1 DEF SameBuild, Fail, WorkEnds, world, history, TypeOK, Stage
      <3>2. CASE FetchAndWriteAllSourceMaps
        <4>1. recorded' = build /\ build \in processed' /\ processed' \subseteq Build
          BY <1>0, <3>2 DEF FetchAndWriteAllSourceMaps, world, RecordedFollowsStage, TypeOK,
                            Stage
        <4> QED
          BY <1>0, <3>2, <4>1 DEF FetchAndWriteAllSourceMaps, WorkEnds, world, TypeOK, Stage
      <3> QED
        BY <1>11, <3>1, <3>2
    <2>2. RecordedFollowsStage' /\ NoRepeatedAlert' /\ EntitledToAlert'
      BY <1>11, RunEnds DEF SameBuild, FetchAndWriteAllSourceMaps, Fail, WorkEnds,
                            world, history
    <2> QED
      BY <2>1, <2>2 DEF IInv
  <1>12. CASE Panic \/ Die \/ Stop
    <2>1. TypeOK'
      BY <1>0, <1>12 DEF Panic, Die, Stop, ProcessEnds, world, history, TypeOK,
                         Stage
    <2>2. RecordedFollowsStage' /\ NoRepeatedAlert' /\ EntitledToAlert'
      BY <1>12, RunEnds DEF Panic, Die, Stop, ProcessEnds, world, history
    <2> QED
      BY <2>1, <2>2 DEF IInv
  <1>13. CASE UNCHANGED vars
    BY <1>0, <1>13 DEF vars, IInv, TypeOK, RecordedFollowsStage, NoRepeatedAlert,
                       EntitledToAlert, MayAlert, OnItsWay, Awaited
  <1> QED
    BY <1>1, <1>2, <1>3, <1>4, <1>5, <1>6, <1>7, <1>8, <1>9, <1>10, <1>11, <1>12,
       <1>13
    DEF Next, Work

\* The inductive invariant holds in every reachable state.
THEOREM Invariance == Spec => []IInv
  BY InitIInv, NextIInv, PTL DEF Spec

\* Types; a pulse never sleeps and ends with 0 only if the build in .build has been
\* processed, and a run has a build from its first page on.
THEOREM TypeCorrect == Spec => []TypeOK
  <1>1. IInv => TypeOK
    BY DEF IInv
  <1> QED
    BY <1>1, Invariance, PTL

\* WriteBuildId before alerting.Alert: no build is announced more often than it
\* was deployed, however often runs fail and processes are killed or replaced,
\* but for once with each --clear-cache.
THEOREM AlertsOncePerDeployment == Spec => []NoRepeatedAlert
  <1>1. IInv => NoRepeatedAlert
    BY DEF IInv
  <1> QED
    BY <1>1, Invariance, PTL

-----------------------------------------------------------------------------
(* When a skipped build is a processed one *)

AfterRecord == {"manifest", "alert", "assets", "sourcemaps"}

\* The run of a build that has been recorded is broken off.
BrokenOff == pc \in AfterRecord /\ (Fail \/ Panic \/ Die \/ Stop)

\* A recorded build is processed, or is being processed.
RecordedIsProcessed ==
    recorded # NoBuild => recorded \in processed \/ pc \in AfterRecord

LEMMA RecordedIsProcessedNext ==
  IInv /\ RecordedIsProcessed /\ [Next]_vars /\ [~BrokenOff]_vars => RecordedIsProcessed'
  <1> SUFFICES ASSUME IInv, RecordedIsProcessed, [Next]_vars, [~BrokenOff]_vars
               PROVE  RecordedIsProcessed'
    OBVIOUS
  <1> USE DEF RecordedIsProcessed, AfterRecord
  <1>1. CASE (\E b \in Build : Deploy(b)) \/ UNCHANGED vars
    BY <1>1 DEF Deploy, history, vars
  <1>2. CASE Start \/ FetchInitialPage \/ SameBuild \/ Wake
    BY <1>2 DEF Start, FetchInitialPage, SameBuild, Wake, history
  <1>3. CASE StartCleared \/ TruncateBuildId
    BY <1>3 DEF StartCleared, TruncateBuildId, history
  <1>4. CASE WriteBuildId \/ GetBuildManifest \/ Alert \/ FetchAndResolveAllSiteAssets
    BY <1>4 DEF WriteBuildId, GetBuildManifest, Alert, FetchAndResolveAllSiteAssets, history
  <1>5. CASE FetchAndWriteAllSourceMaps
    <2>1. recorded = build
      BY <1>5 DEF FetchAndWriteAllSourceMaps, IInv, RecordedFollowsStage
    <2> QED
      BY <1>5, <2>1 DEF FetchAndWriteAllSourceMaps
  \* Whatever else ends a run does so before it records its build.
  <1>6. CASE Fail \/ Panic \/ Die \/ Stop
    <2>1. /\ UNCHANGED <<recorded, processed>>
          /\ pc' # pc
      BY <1>6 DEF Fail, Panic, Die, Stop, WorkEnds, ProcessEnds, history, Stage
    <2>2. ~BrokenOff
      BY <2>1 DEF vars
    <2> QED
      BY <1>6, <2>1, <2>2 DEF BrokenOff
  <1> QED
    BY <1>1, <1>2, <1>3, <1>4, <1>5, <1>6 DEF Next, Work

\* README, "How it works", as far as it goes: a build is skipped without ever having
\* been processed only if its run was broken off after it had recorded the build
\* (initial.go:43, worker.go:50-66).
THEOREM SkipsOnlyBrokenOff ==
  Spec /\ [][~BrokenOff]_vars => SkipOnlyAfterSuccess
  <1>1. Init => RecordedIsProcessed
    BY DEF Init, RecordedIsProcessed
  <1>2. IInv /\ RecordedIsProcessed => (SameBuild => build \in processed)
    BY DEF IInv, TypeOK, RecordedIsProcessed, AfterRecord, SameBuild, Stage
  <1>3. IInv /\ RecordedIsProcessed => [SameBuild => build \in processed]_vars
    BY <1>2
  <1> QED
    BY <1>1, <1>3, RecordedIsProcessedNext, Invariance, PTL DEF Spec, SkipOnlyAfterSuccess

-----------------------------------------------------------------------------
(* That a daemon draws level with the site *)

Level == recorded = site /\ (pc = "compare" => build = site)

\* Without the function: what StepsBehind is at every place.
StepsBehindAt ==
    /\ Level => StepsBehind = 0
    /\ ~Level /\ build = site =>
          \/ pc = "compare" /\ StepsBehind = 2
          \/ pc = "record" /\ StepsBehind = 1
    /\ ~Level /\ build # site =>
          \/ pc = "fetch" /\ StepsBehind = 3
          \/ pc \in {"sleep", "off"} /\ StepsBehind = 4
          \/ pc = "sourcemaps" /\ StepsBehind = 5
          \/ pc = "assets" /\ StepsBehind = 6
          \/ pc = "alert" /\ StepsBehind = 7
          \/ pc = "manifest" /\ StepsBehind = 8
          \/ pc = "record" /\ StepsBehind = 9
          \/ pc = "compare" /\ StepsBehind = 10

LEMMA StepsBehindKnown == IInv => StepsBehindAt
  <1> SUFFICES ASSUME IInv PROVE StepsBehindAt
    OBVIOUS
  <1>1. pc \in {"fetch", "compare", "record", "manifest", "alert", "assets", "sourcemaps",
                "off", "sleep"}
    BY DEF IInv, TypeOK, Stage
  <1>2. Level => StepsBehind = 0
    BY DEF Level, StepsBehind
  <1>3. ASSUME ~Level, build = site
        PROVE  \/ pc = "compare" /\ StepsBehind = 2
               \/ pc = "record" /\ StepsBehind = 1
    <2>1. pc \in {"compare", "record"}
      BY <1>1, <1>3, CrawlAssumption DEF Level, IInv, TypeOK, Stage, RecordedFollowsStage
    <2>2. StepsBehind = [compare |-> 2, record |-> 1][pc]
      BY <1>3 DEF Level, StepsBehind
    <2> QED
      BY <2>1, <2>2
  <1>4. ASSUME ~Level, build # site
        PROVE  \/ pc = "fetch" /\ StepsBehind = 3
               \/ pc \in {"sleep", "off"} /\ StepsBehind = 4
               \/ pc = "sourcemaps" /\ StepsBehind = 5
               \/ pc = "assets" /\ StepsBehind = 6
               \/ pc = "alert" /\ StepsBehind = 7
               \/ pc = "manifest" /\ StepsBehind = 8
               \/ pc = "record" /\ StepsBehind = 9
               \/ pc = "compare" /\ StepsBehind = 10
    <2>1. StepsBehind =
            [fetch |-> 3, sleep |-> 4, off |-> 4, sourcemaps |-> 5, assets |-> 6,
             alert |-> 7, manifest |-> 8, record |-> 9, compare |-> 10][pc]
      BY <1>4 DEF Level, StepsBehind
    <2> QED
      BY <1>1, <2>1
  <1> QED
    BY <1>2, <1>3, <1>4 DEF StepsBehindAt

LEMMA StepsBehindKnownNext == IInv' => StepsBehindAt'
  BY StepsBehindKnown, PTL

LEMMA StaysLevel ==
  ASSUME IInv, IInv', [Next]_vars, Level, UNCHANGED <<site, clears>>
  PROVE  Level'
  <1> USE DEF Level
  \* Whoever leaves .build as it is and begins no comparison.
  <1>0. ASSUME UNCHANGED recorded, pc' # "compare" PROVE Level'
    BY <1>0
  <1>1. CASE \/ Start \/ SameBuild \/ GetBuildManifest \/ Alert
             \/ FetchAndResolveAllSiteAssets \/ FetchAndWriteAllSourceMaps \/ Wake
             \/ Fail \/ Panic \/ Die \/ Stop
    <2>1. UNCHANGED recorded /\ pc' # "compare"
      BY <1>1 DEF Start, SameBuild, GetBuildManifest, Alert, FetchAndResolveAllSiteAssets,
                  FetchAndWriteAllSourceMaps, Wake, Fail, Panic, Die, Stop, WorkEnds,
                  ProcessEnds
    <2> QED
      BY <1>0, <2>1
  <1>6. CASE WriteBuildId
    BY <1>6, CrawlAssumption DEF WriteBuildId, IInv, TypeOK, RecordedFollowsStage
  <1>2. CASE FetchInitialPage
    BY <1>2 DEF FetchInitialPage
  \* The run of an older build, which Level excludes.
  <1>3. CASE TruncateBuildId
    BY <1>3 DEF TruncateBuildId
  <1>4. CASE (\E b \in Build : Deploy(b)) \/ StartCleared
    BY <1>4 DEF Deploy, StartCleared, IInv, TypeOK
  <1>5. CASE UNCHANGED vars
    BY <1>5 DEF vars
  <1> QED
    BY <1>1, <1>2, <1>3, <1>4, <1>5, <1>6 DEF Next, Work

\* Where a step of Work leads that does not make things level.
LEMMA WorkCloser ==
  ASSUME IInv, IInv', Work, ~Level
  PROVE  StepsBehind' < StepsBehind
  <1>1. StepsBehindAt /\ StepsBehindAt'
    BY StepsBehindKnown, StepsBehindKnownNext
  <1>2. site' = site
    BY DEF Work, FetchInitialPage, SameBuild, TruncateBuildId, WriteBuildId, GetBuildManifest,
           Alert, FetchAndResolveAllSiteAssets, FetchAndWriteAllSourceMaps, Wake, world
  <1>3. CASE Level'
    BY <1>1, <1>3 DEF StepsBehindAt
  <1>4. CASE ~Level'
    <2> USE <1>1, <1>2, <1>4 DEF StepsBehindAt, history
    <2>1. CASE FetchInitialPage
      BY <2>1 DEF FetchInitialPage
    <2>2. CASE SameBuild
      <3>1. build # site
        BY <2>2 DEF SameBuild, Level
      <3> QED
        BY <2>2, <3>1 DEF SameBuild, WorkEnds
    <2>3. CASE TruncateBuildId
      BY <2>3 DEF TruncateBuildId
    <2>4. CASE WriteBuildId
      BY <2>4 DEF WriteBuildId, Level
    <2>5. CASE GetBuildManifest \/ Alert \/ FetchAndResolveAllSiteAssets
      BY <2>5 DEF GetBuildManifest, Alert, FetchAndResolveAllSiteAssets
    <2>6. CASE FetchAndWriteAllSourceMaps
      BY <2>6 DEF FetchAndWriteAllSourceMaps, WorkEnds
    <2>7. CASE Wake
      BY <2>7 DEF Wake
    <2> QED
      BY <2>1, <2>2, <2>3, <2>4, <2>5, <2>6, <2>7 DEF Work
  <1> QED
    BY <1>3, <1>4

\* initial.go:37-43 in the loop of daemon.Run, for any number of builds, deployments,
\* failures and kills: a daemon draws level with the site in ten steps at most that
\* are not undone, and stays level until the next deployment or --clear-cache.
THEOREM DaemonDrawsLevel ==
  Spec => /\ DrawsLevel
          /\ [](StepsBehind \in 0 .. 10 /\ (StepsBehind = 0 => recorded = site))
  <1>1. StepsBehindAt =>
          /\ StepsBehind \in 0 .. 10
          /\ StepsBehind = 0 <=> Level
    BY DEF StepsBehindAt
  <1>2. (IInv => StepsBehindAt) /\ (IInv' => StepsBehindAt')
    BY StepsBehindKnown, StepsBehindKnownNext
  <1>3. IInv /\ IInv' /\ [Next]_vars =>
          [/\ Work => StepsBehind' < StepsBehind \/ StepsBehind = 0
           /\ StepsBehind = 0 /\ UNCHANGED <<site, clears>> => StepsBehind' = 0]_vars
    <2> SUFFICES ASSUME IInv, IInv', [Next]_vars
                 PROVE  /\ Work => StepsBehind' < StepsBehind \/ StepsBehind = 0
                        /\ StepsBehind = 0 /\ UNCHANGED <<site, clears>> => StepsBehind' = 0
      OBVIOUS
    <2>1. Work => StepsBehind' < StepsBehind \/ StepsBehind = 0
      BY <1>2, WorkCloser DEF StepsBehindAt
    <2>2. StepsBehind = 0 /\ UNCHANGED <<site, clears>> => StepsBehind' = 0
      <3>1. StepsBehind = 0 <=> Level
        BY <1>1, <1>2
      <3>2. Level' => StepsBehind' = 0
        BY <1>2 DEF StepsBehindAt
      <3> QED
        BY <3>1, <3>2, StaysLevel
    <2> QED
      BY <2>1, <2>2
  <1>4. IInv => StepsBehind \in 0 .. 10 /\ (StepsBehind = 0 => recorded = site)
    BY <1>1, <1>2 DEF Level
  <1> QED
    BY <1>3, <1>4, Invariance, PTL DEF Spec, DrawsLevel

=============================================================================
