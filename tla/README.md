# TLA+ specifications of next-pages-router-crawler

The crawler reads the build ID of a Next.js site, and for a new build fetches the
pages, the JS/CSS assets, the chunks that assets import at run time and the source
maps, and writes the recovered sources to a directory. It keeps a cache directory
between runs. These modules specify its own core logic: the cache and its lock,
the build-ID gate with the worker around it, the asset closure, the fan-outs, the
recovery of sources and their output, and the end of the process. They are written from the Go code under `src/src/`; paths below are relative to it.

## The system

| Part | Code | State | Operations | Correct when |
|---|---|---|---|---|
| cache lock | `cache/lock_file.go`, `cache/setup.go` | `cache.lock`, its flock | Setup, tryLock, Unlock, Close | instances never share the directory; a dead one blocks nobody |
| cache guard | `cache/guard.go`, `cache/hash.go`, `cache/path_resolver.go` | `.cache` files, `hashMap`, `hashes.json` | CacheGuardedHttpGet, Get, initializeHashMap, persistHashMap | a guard names a file with a body that the server had for that URL during the call |
| build-ID gate | `next/initial.go`, `cache/build_id.go` | `.build` | ReadBuildId, WriteBuildId, comparison | a build is skipped only if it was dealt with |
| worker and loop | `daemon/`, `main.go` | stage of DoWork, exit code | DoWork, Run, signals, exits | every new build is announced once and processed; exit codes mean what they say |
| page crawl | `next/pages.go`, `next/build_manifest.go`, `next/next_data.go` | as the fan-out's | fetchAllNextPages, getBuildManifest | all pages or an error |
| asset resolver | `next/assets.go` | resolved map, all assets | resolveAllSiteAssets, recursion, fetchAllAssets | exactly the reachable assets; ends on cyclic imports |
| fan-outs | `next/pages.go`, `next/assets.go`, `sourcemap/fetch.go` | results and errors under two mutexes, a wait group | fetchAllNextPages, fetchAllAssets, fetchAllSourceMaps | every answer is in its list when the function returns, none later |
| source maps | `sourcemap/` | output directory | fetch, parse, rename, write | every source is written; no file stands in for a directory |
| shutdown | `main.go`, `daemon/close_signal.go` | `CloseSignal`, the main goroutine | signal.Notify, Close, os.Exit | a signal ends the process, after cache.Close |
| alerting | `alerting/` | clients | Alert | best effort, never fails a run |
| flags | `flags/` | settings | environment over flags | documented precedence |
| HTTP, HTML, URLs | `http/`, `html/`, `url/` | a client | Head, Get, tree searches, prefixes | - |

How they interact. `main` runs the setups (the lock is taken in `cache.Setup`),
then either one DoWork (`--pulse`) or the goroutine `daemon.Run`. DoWork fetches
the start page *through the cache guard*, passes the build-ID gate, alerts, and has
the asset resolver and the source-map stage fetch, each with one goroutine per URL,
all sharing the hash map (under `hashMapLock`) and the cache files (under no lock).
A signal to a daemon runs `cache.Close` in the main goroutine while `daemon.Run`
goes on, then `os.Exit`. The hard parts are therefore: several processes on one
directory; goroutines on one file; a process that ends at any point and a next one
that trusts what it finds; a site that changes between any two requests; and one
stage of several failing after an earlier one has left its mark.

## Modules

| Module | Models | Checked by | Proofs |
|---|---|---|---|
| `CacheLock` | several instances and the lock file, one system call per step | `MCCacheLock` | `CacheLockProofs` |
| `CacheGuard` | goroutines in CacheGuardedHttpGet, the hash map, `hashes.json`, starts and exits | `MCCacheGuard` | `CacheGuardProofs` |
| `Fetch` | what a caller of the cache guard is promised, without a cache | as `ImplementsFetch` of `CacheGuard` | `CacheGuardProofs` |
| `Crawl` | one instance over many runs: gate, stages, loop, exit codes | `MCCrawl` | `CrawlProofs` |
| `AssetResolver` | resolveAllSiteAssets and the depth-first recursion | `MCAssetResolver` | `AssetResolverProofs` |
| `FanOut` | the goroutines of the three fan-outs, with wait group and mutexes | `MCSourceMapStage` | `FanOutProofs` |
| `Gather` | what a fan-out promises, without goroutines | as `ImplementsGather` of `FanOut` | `FanOutProofs` |
| `SourceMapWriter` | parsing source maps and writing their sources into the output tree | `MCSourceMapStage` | `SourceMapWriterProofs` |
| `Shutdown` | the main goroutine of a daemon, its signal channel, the end of the process | `MCSourceMapStage` | `ShutdownProofs` |
| `SourceMapStage` | FetchAndWriteAllSourceMaps in a daemon: the three above together | `MCSourceMapStage` | `SourceMapStageProofs` |

Operators that begin with `Bug:` in their comment are variants of the definition
that follows them with one plausible mistake; nothing uses them but the list of
mutants in `PROJECT.json`, which shows that each property would notice.

### CacheLock

`name` is the inode that `cache.lock` names, `fd[p]` the inode that instance `p` has
open as `lock.file`, `holder[i]` the instance with the flock on inode `i`. The kernel
is external: O_CREATE opens the named inode or a fresh one, flock belongs to the
inode, death closes descriptors. The steps are the calls of `Setup` (`ClearCache`,
`OpenLockFile`, `Flock`/`FlockRefused`, `FinishSetup`) and `Close` (`Unlock` =
LOCK_UN, `RemoveLockFile` = close and os.Remove by name, `Persist`), and `Die` for
every exit that skips the deferred Close.

The lock does **not** exclude in general: Unlock removes whatever file has the name
(`cache_lock_exclusion`), Close writes hashes.json after its LOCK_UN, and
--clear-cache removes a held directory. The last two are steps of the model
(`Persist`, `ClearCache`), and the clean start keeps clear of them. What the lock does
give is `SoloOwnsCache`: an instance that locked the *named* file while nobody was closing,
at work or holding an unlinked lock file (`CleanStart`) owns the directory until it
closes, unless somebody clears it. `CleanStart` looks at the moment of the flock
only; that the ownership lasts, against any number of later starts, is the property.
"While no other instance is alive" would not do: an instance whose lock file was
cleared between its open and its flock, by one that then died, holds an inode
without a name.

### CacheGuard and Fetch

A call is `Call`, `Head`, `Hit` or `Miss`, `Get`, `Truncate`, `Fill`, `Rehash`,
`Update`, `Return`; `GiveUp` and `WriteFails` are its error returns. `os.WriteFile`
is two steps, so that others see the truncated file. The site serves version
`site[u]` of every URL, `Deploy` and `Rollback` change it between any two steps. The
process loads (`StartFromJson`), computes (`StartFromFiles`), skips
(`StartWithoutMap`) or clears the map, saves it in two steps (`Save`, `Saved`;
`Update` waits, since persistHashMap keeps its RLock to the end) and ends in `Exit`,
with every goroutine wherever it is. `hashes.json` that was only truncated is
`jsonState = "partial"`: no start leads on from it but one with --clear-cache.

A content is a URL's version, or `Empty` (truncated), or `Torn` (cut short or mixed);
MD5 is injective on contents and nothing else. Abstracted: an empty body is never
served; a weak or foreign ETag is no ETag (it never equals an MD5 sum); the read of
computeFileHash and the read of CacheGuard.Get are atomic; a HEAD's status is not
looked at (nor does the code).

`Allowed` names what may happen in an instance. `FreshRead` needs three things that
the code does not ensure: different cache files for different URLs (else
`cache_guard_query`), no two calls for one URL at a time ("duplicates": pages and
assets comply, source maps do not; else `cache_guard_shutdown`), and a site that never
serves again what it replaced ("rollback"). The last: an exit without Close leaves
hashes.json behind the files, and a site that goes back makes the old entry match a
newer file. "bare head" (a HEAD without the ETag that other HEADs have) and "no init"
(a start that skips the map) let a call rewrite a file whose saved entry is current;
a failed write or a kill then leaves that entry with a torn file. What remains without
these is called *orderly* in `CacheGuardProofs`.

What an entry of the map says of its file depends on how URLs are requested. Pages
and assets are requested once at a time: `EntriesDescribeFiles`, in runs that end in
Close. Source maps are requested once per mention (`sourcemap/fetch.go:31`), and then
it is false without anything failing: one goroutine hashes the file that another has
just truncated, the other fills it, hashes it and updates the entry, and the first
updates it last, with the hash of an empty file. What is left, `MatchingEntriesDescribe`,
is that such an entry matches no ETag: it costs a download and saves none. That needs a
site that stands still. If it is deployed while two goroutines fetch one URL, the file
may end with one version, or a mix, and the entry with the hash of the other:
"duplicates" with two versions refute `HitIsValidated`. A kill needs no duplicates for
that, only a site that goes back (`cache_guard_rollback`): hashes.json is then as an
earlier run saved it, and matches again a file that the killed run has truncated.

`Fetch` is the abstract specification: a request is answered by one body that the
server had since the request, which does not change while the caller keeps it.
`CacheGuard` implements it with `result[w]` = the file that the guard names.

### Crawl

Each process starts as a pulse or as a daemon (`pulse`), on the cache of the one
before it. `recorded` is `.build` (two steps: truncated, written), `build` is
`nextData.BuildId`, `pc` the stage of DoWork. Stages succeed, `Fail` with an error,
or `Panic`; a pulse ends with its DoWork, a daemon sleeps and goes on. Exit codes:
glog.Fatalf and a Go panic end a process with status 2, as does
CachedBuildIdIsSameError, though `main.go:48` and README.md:111 keep code 2 for a build
that has not changed; code 0 of a pulse does mean that the build in `.build` was
processed (in `TypeOK`). Left out: a page without a build ID (the empty string
equals a missing `.build`), `--build-id-override`.

Fairness (`LiveSpec`): WF of `Work`, the next stage of the one goroutine. The HTTP
client retries a bounded number of times and time.Sleep returns. There is no total
timeout on a request; a server that accepts and never answers is assumed away.
`DrawsLevel` needs no fairness: `StepsBehind` counts the stages until `.build` names the
build that the site serves, and no run of an older build is about to overwrite it.

### AssetResolver

`stack` holds, per active call of recursiveResolveDynamicAssets, the bundles its loop
has still to descend to; `found` is the slice that the call for the present root
returns; `resolved` is the shared map. The reference graph, the initial assets and
the missing ones are chosen in `Init`, so that a run covers all of them. The loops
over Go maps and slices are taken in any order. `fetchAllAssets` is one step: 404 leaves an
asset out, any other error ends everything; that the goroutines amount to that one
step is what `FanOut` shows with `Gather`. `Flaky` assets are found or not on each
request. `ReachableWithout` is the reference definition, the least set closed under
imports.

Fairness: WF of `Step`, the single goroutine that runs through. `ComesCloser` needs
none: every step makes `Remaining` smaller, a number of steps that the assets not yet
searched and the calls on the stack still allow.

### FanOut and Gather

The three functions have one shape: the caller starts a goroutine per task and waits
for the wait group, a goroutine fetches and appends its result to one slice or map or
its error to another, each under a mutex, and leaves. `job` says which function it
is: the wait group of pages and assets is set before the loop, that of source maps
grows with it. An append is two steps, `Lock` (with the reading half: `copy[t]`) and
`AppendItem`, so that without the mutex it would lose what others append. A fetch
finds, finds nothing (a 404: no error) or fails; how is CacheGuard's business.
`unstarted` is what is left of the loop, which may take a Go map's order.

`Gather` is the abstract specification: nothing, and then all answers at once. The
refinement mapping shows the lists only once the function has returned, and
therefore forbids that anything is missing, invented or added later.

`NoCircularWait` says that while the function has not returned the caller, or some
goroutine, can go on (`SomeoneGoes` spells out who; TLC found it to be the enabledness
of `FanOutNext`).

The branch of fetchAllNextPages that fails to build a page's URL (`pages.go:75`)
would keep its mutex and leave the wait group short, but is not reachable:
buildUrlForPage fails only if the URL flag does not parse, and then
`html.FetchHTMLForPage` and `DoWork` (`worker.go:44`) have failed before.

### SourceMapWriter

A source name is a head (what TrimPrefix and the cleaning of path.Join drop), a path,
a sequence, and perhaps an end " [file]" of its own, like the one that a renaming adds;
`Node` is a path with or without that end. Names are taken to be clean past their
heads: the code compares prefixes of the names as they are and writes files as
path.Join cleans them, so that with ".", ".." or "//" further on it may fail to rename,
and two names may have one file; that is not modelled. An *entry* is one source
of one source map. `ParseAllSourceMaps` recovers from each document the sources that
have contents, from the sections if there are any; `Output` is
handleFileToDirectoryNameResolutions with the resolution of the name. A renamed source
may get the name of another (of "a", "a/b" and "a [file]"): the new Go map keeps the one
that its loop takes last (`OnePerName`). The order that
sortByDeepestPathFirst makes is put into a Go map, which forgets it (`writer.go:91`),
so that `Iteration` takes the source maps, and the sources of one, in any order.
`MkdirAll`, `OpenFile` and `WriteFile` are the steps for one entry, each with its
failure: a file on the way (`MkdirAllFails`), a directory in place (`OpenFileFails`), and
for all else `MkdirAllBreaks`, with some of the directories made, and `DiskFails`, before
or after the truncation. All of them are logged and skipped. `tree` starts as an earlier build left it (`left`), or
empty after --clear-output (`SetupOutput`).

`LostOnlyToRivals` is what the renaming is for: a source that is missing at the end
was hit by the disk, or by what the renaming does not look at: another source map,
another spelling of the head ("webpack://a" and "./a" are one file), a name that ends in
" [file]" where the other does not, or an earlier build. That these do lose sources is a limit of the code, not of the property.

### Shutdown

`main` from `go daemon.Run()` on. `pending` is `CloseSignal`, of capacity 1: os/signal
drops a signal that does not fit, and panics when it sends after `close`, since nothing
calls signal.Stop. `Unlock` and `PersistHashMap` are the two calls of cache.Close,
whose insides are CacheLock's and CacheGuard's. `closed` says that Close has returned, not
that hashes.json is written: the error of persistHashMap is dropped (`setup.go:59`), and
the process ends with 0 all the same. Its RLock (`hash.go:185`) is no step that waits: the
goroutines hold `hashMapLock` for one assignment or lookup under a deferred unlock, and
never over a request or a file operation, so that it is free between any two steps of
this model. A signal before signal.Notify kills.

### SourceMapStage

The last stage of DoWork in a daemon: FanOut, then, if no fetch has failed,
SourceMapWriter on what it returned, beside Shutdown. Steps of the stage need a live
process whose daemon.Run has started, and nothing else of the main goroutine: a
signal may fall anywhere. `AllOrNothing` joins the fan-out to the output directory:
the writer touches nothing before every fetch has ended without an error, and writes
only from what was found. (It is the fetches that are all or nothing: once the writer
has begun, a source that cannot be written is skipped, and the process may end in
between.) Two panics end the process past its deferred Close:
`ParsePanic` (a section without a map, `parser.go:27`) and `FetchPanic` (an ETag that
is only `W` or a quote, `hash.go:146`).

Fairness (`LiveSpec`): WF of the caller, of each goroutine, of parsing, of writing and
of the main goroutine, which is what Go's scheduler gives runnable goroutines; as in
Crawl, a request ends. A goroutine waits for a mutex at most once and each holder lets
go for good, so that WF suffices for `Lock`. Nothing is assumed of signals.

## Runs

| Run | Shows | Bounds |
|---|---|---|
| `cache_lock` | TypeOK (no leaked descriptor), SoloOwnsCache, RefusedOnlyByLiveHolder | 3 instances, one clearing; 4 inodes (one more than can be open) |
| `cache_guard` | TypeOK, FreshRead, HitIsValidated, refinement of Fetch, under failures, kills, busy shutdown and deployments | 2 goroutines, 2 URLs (one with ETags), 2 versions |
| `cache_guard_duplicates` | FreshWhenSettled, MatchingEntriesDescribe, HitIsValidated in pulse mode with three requests for one URL at once, failures and kills | 3 goroutines, 1 URL, 1 version |
| `cache_guard_orderly` | EntriesDescribeFiles, HitIsValidated for pages and assets (own files, each URL requested once at a time) with every run closed and nothing failing, though the site goes back | 2 goroutines, 2 URLs, 2 versions |
| `crawl` | TypeOK, NoRepeatedAlert, DrawsLevel, CatchesUp, with pulses and daemons in any order, failures, panics, kills, stops, a clear | 3 builds, each deployed up to twice, 1 failure, any number of kills |
| `assets` | TypeOK, CollectsReachable, CollectsOnlyReachable, AtMostTwoRequests, ComesCloser, Terminates, with errors anywhere | every loopless graph on 4 assets, 1-2 initial, any others missing, one that comes and goes |
| `source_map_stage` | FanOutTypeOK, WriterTypeOK, ShutdownTypeOK, ImplementsGather, NoCircularWait, AllOrNothing, LostOnlyToRivals, GracefulStop, SignalEndsProcess, StageEnds, with signals, panics and failures anywhere | 3 mentions of 2 source maps, 4 documents, up to 2 signals, 1 source hit by the disk; as source maps and as assets (pages go alike) |

Why the bounds are enough. Lock: a wrong exclusion takes a closer or clearer, an
opener before and an opener after. Guard: URLs of their own files meet in the hash
map's save and load only; a stale entry needs one version to be recorded and a later
one to be written (three versions, both URLs with ETags, were checked once: 1.6
million states). Crawl: the third build lets a deployment fall between any two steps
about the first two; a kill does at every stage what a failure does, and more. Assets: four allow a diamond, a cycle below two roots and a
missing link in a chain. Source map stage: three goroutines let two meet at a mutex
while a third leaves, and two of them find one URL; the documents nest a path in
another within a map (renamed, and onto a name that is there already), across heads and
across maps (not), leave a source without content, and meet a file and a directory that were left; two signals are one
that ends the process and one too many.

Runs that end in a violation, each a place where the code and what the repository
says of it part:

| Run | Property | What happens |
|---|---|---|
| `cache_lock_exclusion` | MutualExclusion | Unlock removes by name after LOCK_UN: two holders |
| `cache_guard_query` | FreshRead | URLs that differ in the query share a file |
| `cache_guard_shutdown` | HitIsValidated | shutdown saves a hash, exits while that file is rewritten: an empty file is valid for ever |
| `cache_guard_rollback` | HitIsValidated | a killed run leaves old hashes to a file that it has truncated; a site that goes back makes them match |
| `crawl_skip` | SkipOnlyAfterSuccess | a failed build is never tried again |

`crawl_skip` has two more faces, left without runs: a build whose manifest fails is
recorded and never announced, and one whose assets fail was announced already.

## Proofs

Everything below is for every value of the constants: any number of instances,
goroutines, URLs, versions, builds and failures.

**`CacheLockProofs`**, assuming that the markers `NoInode` and `NoProc` are no inodes
or instances (`LockAssumption`): `TypeCorrect`, `SoloOwns` (`SoloOwnsCache`) and
`RefusedByLiving` (`RefusedOnlyByLiveHolder`). `SoloOwnsCache` is not inductive:
nothing in it says that the lock file of a solo instance keeps its name, on which a
later opener's failure depends. `IInv` adds that a flock is held exactly through the
descriptor of an instance between its Flock and its Unlock (`HeldByOpener`,
`OpenerHolds`) and that the clean start remains (`SoloKeepsName`): whoever has the
file open has the solo instance's inode, and those who could remove the name are
excluded. Only Flock (fails on the held inode) and RemoveLockFile (impossible while
anyone is solo) need an argument.

`MutualExclusion` is false, as `cache_lock_exclusion` shows; two theorems say how far
off it is. `ExclusiveUntilRemoved`: in a behaviour in which no step removes the lock
file while another instance has it open (`RemovesOnlyItsOwn`), it holds, for then all
open lock files are the one that has the name (`OneLockFile`). So the os.Remove of
Unlock, and that of --clear-cache, are all there is to it; opening, refusals and deaths
at any moment add nothing. `ExclusiveWithoutClose`: instances that never come to
cache.Close and do not clear, but end by os.Exit, glog.Fatalf or a kill, do not even use
the cache directory at one time.

**`CacheGuardProofs`**, assuming `GuardAssumption`, `MarkerAssumption` (markers differ
from bodies and hashes): `TypeCorrect`, whatever is allowed to happen. Three sets of
conditions, each the hypothesis of its theorems, give the rest.

*Orderly* (own files, no duplicates, no rollback, no bare head, no skipped map; failed
writes, kills and saving at work are all allowed): `FreshReads` (`FreshRead`),
`HitsAreValidated` (`HitIsValidated`) and `CacheImplementsFetch` (`ImplementsFetch`).
`FreshRead` says nothing of entries, so it cannot be inductive; and "every entry
describes its file" is false here, after any torn write or kill. What is invariant is
weaker: an entry of the map or of hashes.json which is the sum of the version that
the site has *now* describes its file (`UrlInv`); older entries match no ETag any
more, newer ones do not exist. It survives writing because a goroutine writes only
after a miss, and from a miss to the update the entry of its file is out of date
(`WorkerInv`). The gap between HEAD and lookup, in which the site may be deployed, is
covered by `TagOf`: the version that the tag is of is the newest that any entry can
be of. `WorkerStep` reduces a step of one goroutine to its own URL. For the
refinement, `NamedFiles` says that nobody writes a file that a guard names.

*Closed* (own files, no duplicates, nothing fails, every process ends through a Close
that finds nobody at work; rollbacks, bare heads and skipped maps are all allowed).
These are the conditions of pages and assets; source maps are requested in duplicate,
and for them `EntriesDescribe` is false:
`EntriesDescribe` (`EntriesDescribeFiles`) and `ClosedHitsAreValidated`. `ClosedInv`
excuses an entry only while a goroutine is between the truncation of its file and the
update (`BeingWritten`), and hashes.json only while a process is up.

*Steady* (own files, one version, an ETag with every HEAD of a tagged URL, no failed
write, no save at work, no skipped map; duplicates, refused requests and kills are all
allowed): `FreshOnceSettled` (`FreshWhenSettled`), `SharedHitsAreValidated` and
`MatchingEntries` (`MatchingEntriesDescribe`). Several
goroutines write one file, so that it may be empty when it is hashed, hit or named by
a guard. What is invariant: once one of them has written it, or the entry matches the
ETag, it is whole unless another is filling it (`FileInv`); and nobody writes a file
whose *saved* entry matches (`SavedInv`), so that a kill leaves no matching entry for
an empty file. The second is why the map must be saved at rest.

**`CrawlProofs`**, assuming `CrawlAssumption`: `TypeCorrect` and
`AlertsOncePerDeployment` (`NoRepeatedAlert`). That a pulse ends with 0 only when the
build in `.build` is processed takes `RecordedFollowsStage` too. The count alone is not inductive: the
step that alerts needs to know that an alert is still owed. `MayAlert(b)` holds while
a run for `b` is on its way to the alert, or the site serves `b` and `.build` does
not or will soon not name it; the invariant `EntitledToAlert` is that such a build
has been announced less often than it is entitled to. Only a deployment and
--clear-cache make a build so, and both raise the entitlement.

`DaemonDrawsLevel` (`DrawsLevel`): every step of `Work` makes `StepsBehind` smaller until
it is 0, and it stays 0 until the next deployment or --clear-cache, even through failures
and kills. `StepsBehindAt` says what it is at each place, which takes
`RecordedFollowsStage`: a run of the present build is behind only up to WriteBuildId.

`SkipOnlyAfterSuccess` is false (`crawl_skip`). `SkipsOnlyBrokenOff` says when it
holds: in every behaviour in which no run is broken off, by an error, a panic, a signal
or a kill, after it has recorded its build (`BrokenOff`), for then a recorded build is
processed or is being so. Failures before that, and everything else, do no harm.

**`AssetResolverProofs`**, assuming `ResolverAssumption` (of which only the last
result needs that the assets are finitely many, as those of a site are): `TypeCorrect`,
`OnlyReachable` (`CollectsOnlyReachable`), `AllReachable` (`CollectsReachable`) and
`TwoRequests` (`AtMostTwoRequests`). Reachability is a least closed set, not a
recursion: `WithinClosed` says of *every* set closed under imports that it contains
all the resolver knows, so that the least one does; and `NothingForgotten`, that what
is known and dependable is collected, found, or still waits on the stack, so that at
the end what was collected and scanned is itself closed. `RequestsCounted` ties
requests to the shared map. `ExactlyReachable` joins the two for a site on which no
asset comes and goes: what is collected is what is reachable, no more and no less.

`EndComesCloser` (`ComesCloser`): `Remaining` falls with every step, is a natural number
and starts at three times the number of assets and two, so that no behaviour has more
steps than that, however bundles import each other. What makes it fall is that a bundle
is searched at most once in all (`SearchedOnce`: what waits to be searched was not
yet, and waits in one place only), which is what the shared map is for. That a resolver which is
not done can take a step, and does, stays with TLC (`Terminates`).

**`FanOutProofs`**, assuming `FanOutAssumption` (finitely many tasks):
`FanOutTypeCorrect` and `FanOutImplementsGather` (`ImplementsGather`). While the
caller loops, the wait group is the number of tasks that are counted and not done
(`CountsPending`, with the theorems on cardinalities), so that Wait means all are
done. A goroutine that appends is alone on its list, which is still what it read
(`AppendsAlone`), so that the lists are exactly what those who left have put there
(`ListsComplete`).

`FanOutDeadlockFree` (`NoCircularWait`) adds that a mutex which is held is held by a
goroutine in its append (`LocksHeld`), which waits for nothing; a wait group above zero
means that some goroutine has not left, and if it waits for a mutex then for such a
one. `FanOutComesCloser`: every step takes the caller or one goroutine further on, never
back, through finitely many places (`WorkAhead`). Together these are what `StageEnds`
rests on in the fan-out, but for the fairness.

**`SourceMapWriterProofs`**, assuming `WriterAssumption` (paths are sequences,
documents and trees have their shape): `WriterTypeCorrect` (with files only in
directories) and `RenamingSaves` (`LostOnlyToRivals`). Every directory and file of the
tree was left or is wanted by some source (`TreeExplained`), for kinds never change;
so whatever blocks a source is left or belongs to a source, and sources of one map
under one head meet nowhere but in names that differ by " [file]" (`OneFileEach`,
`NoFileIsDirectory`: the renaming). A source that is not kept in the new map has the
file of one that is (`SharersObstructed`).
`PastAccounted` says so of every source the loop is done with, and survives that a
rival overwrites one later. `OneMapIsSaved` is what remains for one source map, one
head, no two names that differ by " [file]", an empty output and no failing disk: all
sources are saved, however they are nested. `WrittenInPlace`, from `HoldsOwn`: a file holds only a source that was
recovered, and that belongs there.

**`ShutdownProofs`**, assuming `ShutdownAssumption`: `ShutdownTypeCorrect` and
`StopsGracefully` (`GracefulStop`): past the receive there has been a signal, and
neither end by a signal comes before cache.Close has returned. `SignalsKept`: a main
goroutine at its receive after a trapped signal finds one in the channel, though all but
one may have been dropped (`ReceivesNext`).

**`SourceMapStageProofs`**, assuming these and `StageAssumption` (what is fetched are
URLs of source maps): the composition's `Spec` implies `FanOutSpec`, `WriterSpec` and
`ShutdownSpec` (`StageRunsFanOut`, `StageRunsWriter`, `StageRunsShutdown`), so that the
theorems above hold of it (`StageSafe`). For the writer the fan-out's invariant is
needed: the results are URLs. `StageAllOrNothing` (`AllOrNothing`) takes the invariants
of both: the writer has sources only of what a fan-out that has returned without errors
has found (`HandedOver`), and of such a fan-out nothing changes any more
(`FetchedStays`).

## What is only model-checked, and what is not modelled

Liveness (`CatchesUp`, `Terminates`, `StageEnds`, `SignalEndsProcess`) is checked by TLC
alone, since it rests on fairness; for each there is a theorem with its safety half
(`DaemonDrawsLevel`, `EndComesCloser`, `FanOutDeadlockFree` with `FanOutComesCloser`,
`SignalsKept`). The runs that end in a violation are TLC's by nature.

Not modelled: flags and environment (evaluated once, before anything runs), the pure
functions on URLs and parsed HTML, the JavaScript of the build manifest (goja), the
retries inside the HTTP client, and the alerting services, whose outcome is only logged.
Of what is modelled, left out are: the text of names, URLs and ETags; a page without a
build ID; source names that are not clean past their heads; and content that changes
between the two requests for one asset (`AssetResolver` fixes the reference graph, so
that only a chunk's coming and going is seen there).
