------------------------------- MODULE Crawl --------------------------------
(***************************************************************************)
(* One crawler instance over many runs: DoWork of daemon/worker.go, the    *)
(* build-ID gate of next/initial.go and cache/build_id.go in front of it,  *)
(* the loop of daemon/runner.go, and the exit codes of main.go.            *)
(*                                                                         *)
(* The site serves one build at a time and may be deployed at any moment.  *)
(* What a stage fetches is CacheGuard's business; here a stage succeeds,   *)
(* fails with an error, panics, or is cut short with the process.          *)
(***************************************************************************)
EXTENDS Naturals

CONSTANTS
    Build,          \* build IDs that the site may have
    NoBuild,        \* no .build file, or one that holds no build's ID
    MayDie,         \* the process may be killed or stopped
    MaxDeployments, \* bound: deployments of each build
    MaxFailures,    \* bound: stages that fail
    MaxClears       \* bound: starts with --clear-cache

ASSUME CrawlAssumption ==
    /\ NoBuild \notin Build
    /\ MayDie \in BOOLEAN
    /\ MaxDeployments \in Nat \ {0}
    /\ MaxFailures \in Nat
    /\ MaxClears \in Nat

VARIABLES
    site,       \* the build that the site serves
    recorded,   \* the build ID in the .build file
    pc,         \* the stage of DoWork
    pulse,      \* --pulse: one DoWork per process; else daemon.Run
    build,      \* nextData.BuildId of this run
    exit,       \* how the latest process ended
    deployed,   \* history, deployed[b]: how often b was deployed
    alerted,    \* history, alerted[b]: how often an alert for b was sent
    processed,  \* history: builds of which a run came to its end
    failures,   \* history: stages that failed
    clears      \* history: starts with --clear-cache

vars == <<site, recorded, pc, pulse, build, exit, deployed, alerted, processed,
          failures, clears>>

world == <<site, deployed>>
history == <<alerted, processed, failures, clears>>

Stage == {"fetch",      \* the start page, in FetchInitialNextPageData
          "compare",    \* ReadBuildId and the comparison
          "record",     \* WriteBuildId, after its truncation of .build
          "manifest",   \* getBuildManifest
          "alert",      \* alerting.Alert
          "assets",     \* FetchAndResolveAllSiteAssets
          "sourcemaps"} \* FetchAndWriteAllSourceMaps

\* A pulse process ends when its DoWork does, with 0 only if the build in .build has
\* been processed.  (Code 2, which main.go and README keep for a build that has not
\* changed, is also that of every failure.)
TypeOK ==
    /\ site \in Build
    /\ recorded \in Build \cup {NoBuild}
    /\ pc \in Stage \cup {"off", "sleep"}
    /\ pulse \in BOOLEAN
    /\ build \in Build \cup {NoBuild}
    /\ exit \in {"none", "0", "2", "killed"}
    /\ deployed \in [Build -> 0 .. MaxDeployments]
    /\ alerted \in [Build -> Nat]
    /\ processed \subseteq Build
    /\ failures \in 0 .. MaxFailures
    /\ clears \in 0 .. MaxClears
    /\ pc \in Stage \ {"fetch"} <=> build # NoBuild
    /\ pulse => pc # "sleep"
    /\ pulse /\ pc = "off" /\ exit = "0" => recorded \in processed

Init ==
    /\ \E b \in Build :
          /\ site = b
          /\ deployed = [c \in Build |-> IF c = b THEN 1 ELSE 0]
    /\ recorded = NoBuild
    /\ pc = "off"
    /\ pulse = FALSE
    /\ build = NoBuild
    /\ exit = "none"
    /\ alerted = [b \in Build |-> 0]
    /\ processed = {}
    /\ failures = 0
    /\ clears = 0

-----------------------------------------------------------------------------
(* The site, and the process *)

Deploy(b) ==
    /\ b # site
    /\ deployed[b] < MaxDeployments
    /\ site' = b
    /\ deployed' = [deployed EXCEPT ![b] = @ + 1]
    /\ UNCHANGED <<recorded, pc, pulse, build, exit, history>>

\* A start in either mode, whatever the mode of the process before it was.
Start ==
    /\ pc = "off"
    /\ pc' = "fetch"
    /\ pulse' \in BOOLEAN
    /\ UNCHANGED <<world, recorded, build, exit, history>>

\* --clear-cache takes the .build file with the rest of the cache directory.
StartCleared ==
    /\ pc = "off"
    /\ clears < MaxClears
    /\ clears' = clears + 1
    /\ recorded' = NoBuild
    /\ pc' = "fetch"
    /\ pulse' \in BOOLEAN
    /\ UNCHANGED <<world, build, exit, alerted, processed, failures>>

\* Bug: a pulse goes on like a daemon.
WorkLoops(code) ==
    /\ pc' = "sleep"
    /\ exit' = exit
    /\ build' = NoBuild

\* DoWork returns: in pulse mode main ends the process with this code, in
\* daemon mode Run logs what there is and sleeps.
WorkEnds(code) ==
    /\ pc' = IF pulse THEN "off" ELSE "sleep"
    /\ exit' = IF pulse THEN code ELSE exit
    /\ build' = NoBuild

ProcessEnds(code) ==
    /\ pc' = "off"
    /\ exit' = code
    /\ build' = NoBuild

\* A kill in either mode, and the default action of a signal in pulse mode.
Die ==
    /\ MayDie
    /\ pc # "off"
    /\ ProcessEnds("killed")
    /\ UNCHANGED <<world, recorded, pulse, history>>

\* SIGINT, SIGTERM or SIGABRT to a daemon: the deferred function of main ends
\* the process wherever daemon.Run is.
Stop ==
    /\ MayDie
    /\ ~pulse
    /\ pc # "off"
    /\ ProcessEnds("0")
    /\ UNCHANGED <<world, recorded, pulse, history>>

-----------------------------------------------------------------------------
(* DoWork *)

FetchInitialPage ==
    /\ pc = "fetch"
    /\ build' = site
    /\ pc' = "compare"
    /\ UNCHANGED <<world, recorded, pulse, exit, history>>

\* Bug: any recorded build is taken for the present one.
AnyBuild ==
    /\ pc = "compare"
    /\ recorded # NoBuild
    /\ WorkEnds("2")
    /\ UNCHANGED <<world, recorded, pulse, history>>

\* CachedBuildIdIsSameError, with which main exits with code 2.
SameBuild ==
    /\ pc = "compare"
    /\ build = recorded
    /\ WorkEnds("2")
    /\ UNCHANGED <<world, recorded, pulse, history>>

\* WriteBuildId: os.WriteFile truncates .build ...
TruncateBuildId ==
    /\ pc = "compare"
    /\ build # recorded
    /\ recorded' = NoBuild
    /\ pc' = "record"
    /\ UNCHANGED <<world, pulse, build, exit, history>>

\* Bug: the ID is never written.
ForgetBuildId ==
    /\ pc = "record"
    /\ pc' = "manifest"
    /\ UNCHANGED <<world, recorded, pulse, build, exit, history>>

\* ... and writes the ID.
WriteBuildId ==
    /\ pc = "record"
    /\ recorded' = build
    /\ pc' = "manifest"
    /\ UNCHANGED <<world, pulse, build, exit, history>>

GetBuildManifest ==
    /\ pc = "manifest"
    /\ pc' = "alert"
    /\ UNCHANGED <<world, recorded, pulse, build, exit, history>>

\* alerting.Alert has no result: whatever its channels report is logged.
Alert ==
    /\ pc = "alert"
    /\ alerted' = [alerted EXCEPT ![build] = @ + 1]
    /\ pc' = "assets"
    /\ UNCHANGED <<world, recorded, pulse, build, exit, processed, failures, clears>>

FetchAndResolveAllSiteAssets ==
    /\ pc = "assets"
    /\ pc' = "sourcemaps"
    /\ UNCHANGED <<world, recorded, pulse, build, exit, history>>

\* The last stage, after which DoWork returns nil.
FetchAndWriteAllSourceMaps ==
    /\ pc = "sourcemaps"
    /\ processed' = processed \cup {build}
    /\ WorkEnds("0")
    /\ UNCHANGED <<world, recorded, pulse, alerted, failures, clears>>

\* An error of any stage but the alert ends DoWork.  glog.Fatalf, with which
\* main ends a pulse, exits with code 2.
Fail ==
    /\ failures < MaxFailures
    /\ pc \in Stage \ {"alert"}
    /\ failures' = failures + 1
    /\ WorkEnds("2")
    /\ UNCHANGED <<world, recorded, pulse, alerted, processed, clears>>

\* A manifest without sortedPages or a section without its map: the panic is
\* nowhere recovered and ends either process with code 2.
Panic ==
    /\ MayDie
    /\ failures < MaxFailures
    /\ pc \in {"manifest", "sourcemaps"}
    /\ failures' = failures + 1
    /\ ProcessEnds("2")
    /\ UNCHANGED <<world, recorded, pulse, alerted, processed, clears>>

\* daemon.Run, after time.Sleep.
Wake ==
    /\ pc = "sleep"
    /\ pc' = "fetch"
    /\ UNCHANGED <<world, recorded, pulse, build, exit, history>>

Work ==
    \/ FetchInitialPage
    \/ SameBuild
    \/ TruncateBuildId
    \/ WriteBuildId
    \/ GetBuildManifest
    \/ Alert
    \/ FetchAndResolveAllSiteAssets
    \/ FetchAndWriteAllSourceMaps
    \/ Wake

Next ==
    \/ \E b \in Build : Deploy(b)
    \/ Start
    \/ StartCleared
    \/ Work
    \/ Fail
    \/ Panic
    \/ Die
    \/ Stop

Spec == Init /\ [][Next]_vars

\* The goroutine of daemon.Run keeps running: requests end (the HTTP client
\* retries a bounded number of times) and time.Sleep returns.  Nothing is
\* assumed of the site, of the signals or of whoever starts the process.
LiveSpec == Spec /\ WF_vars(Work)

-----------------------------------------------------------------------------
(* Properties *)

\* WriteBuildId before alerting.Alert: no build is announced more often than it
\* was deployed, whatever fails or is killed, unless --clear-cache made the
\* crawler forget it.
NoRepeatedAlert == \A b \in Build : alerted[b] <= deployed[b] + clears

\* daemon.Run: a daemon that was started and is not killed or stopped again sees
\* the last build that is deployed and records it for good, whatever failed or
\* was killed before.
CatchesUp == <>[](recorded = site) \/ []<>(pc = "off")

\* Steps of a daemon until .build names the build that the site serves, for good: in a
\* run of that build, and otherwise what is left of this run and of the next one.
StepsBehind ==
    IF recorded = site /\ (pc = "compare" => build = site) THEN 0
    ELSE IF build = site
         THEN [compare |-> 2, record |-> 1][pc]
         ELSE [fetch |-> 3, sleep |-> 4, off |-> 4, sourcemaps |-> 5, assets |-> 6,
               alert |-> 7, manifest |-> 8, record |-> 9, compare |-> 10][pc]

\* initial.go:37-43 in the loop of daemon.Run: every stage brings .build closer to the
\* build that the site serves.  Once it is there for good, a run that began with an
\* older build cannot take it away, nor can a failure or a kill at any moment, but
\* only a deployment or --clear-cache.
DrawsLevel ==
    [][/\ Work => StepsBehind' < StepsBehind \/ StepsBehind = 0
       /\ StepsBehind = 0 /\ UNCHANGED <<site, clears>> => StepsBehind' = 0]_vars

\* README, "How it works": a run stops early when the build ID has not changed
\* since the last successful run.
SkipOnlyAfterSuccess == [][SameBuild => build \in processed]_vars

=============================================================================
