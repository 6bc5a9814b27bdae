----------------------------- MODULE CacheGuard -----------------------------
(***************************************************************************)
(* CacheGuardedHttpGet of cache/guard.go as several goroutines call it,    *)
(* with the hash map of cache/hash.go, its copy hashes.json, the cached    *)
(* files, and the process that loads and saves them.                       *)
(*                                                                         *)
(* A step is one HTTP exchange, one file operation or one critical section *)
(* of hashMapLock.  os.WriteFile is two steps: it truncates the file and   *)
(* then fills it.  The site serves version site[u] of URL u and may be     *)
(* deployed again between any two steps.                                   *)
(***************************************************************************)
EXTENDS Naturals

CONSTANTS
    Worker,     \* the goroutines that may be inside CacheGuardedHttpGet
    Url,        \* the URLs that are fetched
    Path,       \* the files of the cache directory
    PathOf,     \* ResolveUrlToCachePath: [Url -> Path]
    Tagged,     \* URLs whose responses carry the MD5 of the body as ETag
    MaxVersion, \* bound: versions of a URL that are ever served
    Allowed,    \* what may happen in this instance, see Event
    None,       \* content: no such file
    Empty,      \* content: truncated, nothing written yet
    Torn,       \* content: an incomplete or mixed write
    NoHash,     \* no entry, or no usable ETag
    NoUrl       \* not inside a call

Event == {"give up",        \* a request is refused or fails, a file operation fails
          "failed write",   \* os.WriteFile fails after the truncation
          "crash",          \* the process ends without Close, or within it
          "busy close",     \* Close runs while goroutines work (not in pulse mode)
          "no init",        \* a start with ShouldInitializeHashMap = false
          "rollback",       \* the site serves an earlier version again
          "bare head",      \* a HEAD of a tagged URL is answered without ETag
          "duplicates"}     \* a URL is requested again while a call for it runs

ASSUME GuardAssumption ==
    /\ PathOf \in [Url -> Path]
    /\ Tagged \subseteq Url
    /\ MaxVersion \in Nat \ {0}
    /\ Allowed \subseteq Event
    /\ NoUrl \notin Url

VARIABLES
    site,       \* site[u]: the version the server has of u
    file,       \* file[p]: the content of a cached file
    hashMap,    \* hashMap[p]: the hash recorded for a cached file
    json,       \* the hash map in hashes.json
    jsonState,  \* whether hashes.json is "absent", "partial" or "whole"
    mode,       \* the process: "down", "up", "saving" in persistHashMap, "saved"
    pc,         \* pc[w]: where goroutine w is in CacheGuardedHttpGet
    url,        \* url[w]: its URL
    since,      \* history, since[w]: the version of that URL when the call began
    got         \* got[w]: what its latest step got: an ETag, a body, or a hash

vars == <<site, file, hashMap, json, jsonState, mode, pc, url, since, got>>

disk == <<file, json, jsonState>>
process == <<hashMap, mode>>
calls == <<pc, url, since, got>>

\* A response body.  Empty bodies are left out: Empty is never served.
Body(u, v) == [url |-> u, version |-> v]

Content == [url : Url, version : 1 .. MaxVersion] \cup {None, Empty, Torn}

\* Bug: the content is recorded as it is.
Unhashed(c) == c

\* Nothing about MD5 matters but that different contents have different sums.
Md5(c) == [md5 |-> c]

Hash == [md5 : Content] \cup {NoHash}

\* The markers are told apart from each other, from bodies and from hashes.
ASSUME MarkerAssumption ==
    /\ Empty # None
    /\ Torn # None
    /\ Torn # Empty
    /\ \A u \in Url, v \in 1 .. MaxVersion : Body(u, v) \notin {None, Empty, Torn}
    /\ NoHash \notin [md5 : Content]

PC == {"idle", "head", "lookup", "get", "truncate", "fill", "rehash", "update",
       "done"}

TypeOK ==
    /\ site \in [Url -> 1 .. MaxVersion]
    /\ file \in [Path -> Content]
    /\ hashMap \in [Path -> Hash]
    /\ json \in [Path -> Hash]
    /\ jsonState \in {"absent", "partial", "whole"}
    /\ mode \in {"down", "up", "saving", "saved"}
    /\ pc \in [Worker -> PC]
    /\ url \in [Worker -> Url \cup {NoUrl}]
    /\ since \in [Worker -> 0 .. MaxVersion]
    /\ got \in [Worker -> Content \cup Hash]
    /\ \A w \in Worker :
          /\ pc[w] = "idle" <=> url[w] = NoUrl
          /\ mode = "down" => pc[w] = "idle"

NoEntries == [p \in Path |-> NoHash]

\* An empty cache directory and no process.
Init ==
    /\ site = [u \in Url |-> 1]
    /\ file = [p \in Path |-> None]
    /\ hashMap = NoEntries
    /\ json = NoEntries
    /\ jsonState = "absent"
    /\ mode = "down"
    /\ pc = [w \in Worker |-> "idle"]
    /\ url = [w \in Worker |-> NoUrl]
    /\ since = [w \in Worker |-> 0]
    /\ got = [w \in Worker |-> NoHash]

MyPath(w) == PathOf[url[w]]

-----------------------------------------------------------------------------
(* The server *)

Deploy(u) ==
    /\ site[u] < MaxVersion
    /\ site' = [site EXCEPT ![u] = @ + 1]
    /\ UNCHANGED <<disk, process, calls>>

Rollback(u) ==
    /\ "rollback" \in Allowed
    /\ site[u] > 1
    /\ site' = [site EXCEPT ![u] = @ - 1]
    /\ UNCHANGED <<disk, process, calls>>

\* The ETag of u, cut to the hash as isFileCachedByHash does.  A weak or a
\* foreign tag is none: it never equals an MD5 sum.
ETags(u) ==
    {IF u \in Tagged THEN Md5(Body(u, site[u])) ELSE NoHash}
        \cup (IF "bare head" \in Allowed THEN {NoHash} ELSE {})

-----------------------------------------------------------------------------
(* A call of CacheGuardedHttpGet in goroutine w *)

\* Every error return of the call, and the end of the caller's use of the file.
Leave(w) ==
    /\ pc' = [pc EXCEPT ![w] = "idle"]
    /\ url' = [url EXCEPT ![w] = NoUrl]
    /\ since' = [since EXCEPT ![w] = 0]
    /\ got' = [got EXCEPT ![w] = NoHash]

Advance(w, from, to, value) ==
    /\ pc[w] = from
    /\ pc' = [pc EXCEPT ![w] = to]
    /\ got' = [got EXCEPT ![w] = value]
    /\ UNCHANGED <<url, since>>

\* Every goroutine of fetchAllAssets, fetchAllNextPages and fetchAllSourceMaps
\* makes one call; daemon.Run goes on making them while Close is running.
Call(w, u) ==
    /\ mode = "up" \/ ("busy close" \in Allowed /\ mode # "down")
    /\ pc[w] = "idle"
    /\ "duplicates" \in Allowed \/ \A x \in Worker : url[x] # u
    /\ pc' = [pc EXCEPT ![w] = "head"]
    /\ url' = [url EXCEPT ![w] = u]
    /\ since' = [since EXCEPT ![w] = site[u]]
    /\ UNCHANGED <<site, disk, process, got>>

Head(w) ==
    /\ \E tag \in ETags(url[w]) : Advance(w, "head", "lookup", tag)
    /\ UNCHANGED <<site, disk, process>>

\* Bug: the file's presence in the map is taken for its validity.
IsFilePresent(w) == hashMap[MyPath(w)] # NoHash

\* isFileCachedByHash.  No entry never equals a tag.
IsFileCachedByHash(w) ==
    hashMap[MyPath(w)] # NoHash /\ hashMap[MyPath(w)] = got[w]

Hit(w) ==
    /\ pc[w] = "lookup"
    /\ IsFileCachedByHash(w)
    /\ Advance(w, "lookup", "done", NoHash)
    /\ UNCHANGED <<site, disk, process>>

Miss(w) ==
    /\ pc[w] = "lookup"
    /\ ~IsFileCachedByHash(w)
    /\ Advance(w, "lookup", "get", NoHash)
    /\ UNCHANGED <<site, disk, process>>

\* Bug: the map is updated before the file is written.
GetAndUpdate(w) ==
    /\ pc[w] = "get"
    /\ Advance(w, "get", "truncate", Body(url[w], site[url[w]]))
    /\ hashMap' = [hashMap EXCEPT ![MyPath(w)] = Md5(Body(url[w], site[url[w]]))]
    /\ UNCHANGED <<site, disk, mode>>

\* http.Get, isValidResponse and io.ReadAll.
Get(w) ==
    /\ pc[w] = "get"
    /\ Advance(w, "get", "truncate", Body(url[w], site[url[w]]))
    /\ UNCHANGED <<site, disk, process>>

Truncate(w) ==
    /\ Advance(w, "truncate", "fill", got[w])
    /\ file' = [file EXCEPT ![MyPath(w)] = Empty]
    /\ UNCHANGED <<site, json, jsonState, process>>

\* Writing from the start over what another writer put there since the
\* truncation leaves that writer's tail if it was longer.
Filled(old, new) == IF old \in {Empty, new} THEN {new} ELSE {new, Torn}

Fill(w) ==
    /\ Advance(w, "fill", "rehash", NoHash)
    /\ \E c \in Filled(file[MyPath(w)], got[w]) :
          file' = [file EXCEPT ![MyPath(w)] = c]
    /\ UNCHANGED <<site, json, jsonState, process>>

WriteFails(w) ==
    /\ "failed write" \in Allowed
    /\ pc[w] = "fill"
    /\ file' = [file EXCEPT ![MyPath(w)] = Torn]
    /\ Leave(w)
    /\ UNCHANGED <<site, json, jsonState, process>>

\* computeFileHash reads the file again, without any lock.
Rehash(w) ==
    /\ Advance(w, "rehash", "update", Md5(file[MyPath(w)]))
    /\ UNCHANGED <<site, disk, process>>

\* Bug: an entry that is there is not replaced.
UpdateAbsent(w) ==
    /\ mode # "saving"
    /\ Advance(w, "update", "done", NoHash)
    /\ hashMap' = [hashMap EXCEPT ![MyPath(w)] = IF @ = NoHash THEN got[w] ELSE @]
    /\ UNCHANGED <<site, disk, mode>>

\* hashMapLock.Lock waits for the RLock that persistHashMap keeps to its end.
Update(w) ==
    /\ mode # "saving"
    /\ Advance(w, "update", "done", NoHash)
    /\ hashMap' = [hashMap EXCEPT ![MyPath(w)] = got[w]]
    /\ UNCHANGED <<site, disk, mode>>

GiveUp(w) ==
    /\ "give up" \in Allowed
    /\ pc[w] \in {"head", "get", "truncate", "rehash"}
    /\ Leave(w)
    /\ UNCHANGED <<site, disk, process>>

\* The caller has read the file through CacheGuard.Get, or will not.
Return(w) ==
    /\ pc[w] = "done"
    /\ Leave(w)
    /\ UNCHANGED <<site, disk, process>>

-----------------------------------------------------------------------------
(* The process *)

\* initializeHashMap finds hashes.json.  One that does not parse ends the start
\* in glog.Fatalf: no step.
StartFromJson ==
    /\ mode = "down"
    /\ jsonState = "whole"
    /\ mode' = "up"
    /\ hashMap' = json
    /\ UNCHANGED <<site, disk, calls>>

\* The hash map that a walk over the cache directory computes.
HashesOfFiles ==
    [p \in Path |-> IF file[p] = None THEN NoHash ELSE Md5(file[p])]

\* initializeHashMap without hashes.json: it is written at once.
StartFromFiles ==
    /\ mode = "down"
    /\ jsonState = "absent"
    /\ mode' = "up"
    /\ hashMap' = HashesOfFiles
    /\ json' = HashesOfFiles
    /\ jsonState' = "whole"
    /\ UNCHANGED <<site, file, calls>>

StartWithoutMap ==
    /\ "no init" \in Allowed
    /\ mode = "down"
    /\ mode' = "up"
    /\ hashMap' = NoEntries
    /\ UNCHANGED <<site, disk, calls>>

\* --clear-cache: os.RemoveAll at a start that then finds no hashes.json.
ClearCache ==
    /\ mode = "down"
    /\ mode' = "up"
    /\ file' = [p \in Path |-> None]
    /\ hashMap' = NoEntries
    /\ json' = NoEntries
    /\ jsonState' = "whole"
    /\ UNCHANGED <<site, calls>>

\* Bug: Close does not wait for the goroutines of the run.
SaveAtWork ==
    /\ mode = "up"
    /\ mode' = "saving"
    /\ jsonState' = "partial"
    /\ UNCHANGED <<site, file, json, hashMap, calls>>

\* persistHashMap, called by Close, truncates hashes.json ...
Save ==
    /\ mode = "up"
    /\ "busy close" \in Allowed \/ \A w \in Worker : pc[w] = "idle"
    /\ mode' = "saving"
    /\ jsonState' = "partial"
    /\ UNCHANGED <<site, file, json, hashMap, calls>>

\* ... and writes the map, which its RLock has kept as it was.
Saved ==
    /\ mode = "saving"
    /\ mode' = "saved"
    /\ jsonState' = "whole"
    /\ json' = hashMap
    /\ UNCHANGED <<site, file, hashMap, calls>>

\* os.Exit after Close, with goroutines anywhere; or any other end.
Exit ==
    /\ mode = "saved" \/ ("crash" \in Allowed /\ mode # "down")
    /\ mode' = "down"
    /\ hashMap' = NoEntries
    /\ pc' = [w \in Worker |-> "idle"]
    /\ url' = [w \in Worker |-> NoUrl]
    /\ since' = [w \in Worker |-> 0]
    /\ got' = [w \in Worker |-> NoHash]
    /\ UNCHANGED <<site, disk>>

\* A first start that is killed while it writes hashes.json.
DieInStart ==
    /\ "crash" \in Allowed
    /\ mode = "down"
    /\ jsonState = "absent"
    /\ jsonState' = "partial"
    /\ UNCHANGED <<site, file, json, process, calls>>

Next ==
    \/ \E u \in Url : Deploy(u) \/ Rollback(u)
    \/ \E w \in Worker :
          \/ \E u \in Url : Call(w, u)
          \/ Head(w)
          \/ Hit(w)
          \/ Miss(w)
          \/ Get(w)
          \/ Truncate(w)
          \/ Fill(w)
          \/ WriteFails(w)
          \/ Rehash(w)
          \/ Update(w)
          \/ GiveUp(w)
          \/ Return(w)
    \/ StartFromJson
    \/ StartFromFiles
    \/ StartWithoutMap
    \/ ClearCache
    \/ Save
    \/ Saved
    \/ Exit
    \/ DieInStart

Spec == Init /\ [][Next]_vars

-----------------------------------------------------------------------------
(* Properties *)

\* The file that a guard names holds a version of the guard's own URL that the
\* server had at some time since the call began.
Fresh(w) ==
    \E v \in since[w] .. site[url[w]] : file[MyPath(w)] = Body(url[w], v)

\* CacheGuardedHttpGet followed by CacheGuard.Get: whatever failed, was killed,
\* was saved or was deployed before, the caller reads a fresh file.
FreshRead == \A w \in Worker : pc[w] = "done" => Fresh(w)

BeingWritten(p) ==
    \E w \in Worker : pc[w] \in {"fill", "rehash", "update"} /\ MyPath(w) = p

\* isFileCachedByHash: when the recorded hash equals the ETag, so does the hash
\* of the file that is about to be used instead of a download (unless another
\* goroutine is about to write the file anew).
HitIsValidated ==
    [][\A w \in Worker :
          Hit(w) /\ ~BeingWritten(MyPath(w)) => got[w] = Md5(file[MyPath(w)])]_vars

\* A call as its caller sees it: no answer while it runs, the file that the guard
\* names once it is done.
Result == [w \in Worker |-> IF pc[w] = "done" THEN file[MyPath(w)] ELSE None]

F == INSTANCE Fetch WITH result <- Result

\* CacheGuardedHttpGet with CacheGuard.Get implements a plain fetch: the cache,
\* its file, its hashes and their persistence do not show.
ImplementsFetch == F!Spec

Settled == \A w \in Worker : pc[w] \in {"idle", "done"}

\* fetchAllSourceMaps requests a URL once for every mention of it; after its
\* waitGroup.Wait, with no errors reported, every guard is good to read.
FreshWhenSettled == Settled => FreshRead

\* writeFileAndUpdateHashMap, "Update the hash map with the new hash": while
\* nobody is writing, an entry of the map is the hash of the file it is for.  This
\* is for pages and assets, of which a URL is requested once at a time, with
\* files of their own, runs that end in Close and nothing failing.  "duplicates"
\* refute it: one goroutine hashes the file that another has just truncated, and
\* is the last to update the entry, which stays the hash of an empty file.
EntriesDescribeFiles ==
    Settled /\ mode = "up" =>
        \A p \in Path : hashMap[p] \in {NoHash, Md5(file[p])}

\* What is left of that when a URL is requested several times at once, and
\* processes are killed, while the site stands still: a wrong entry costs a
\* download and never saves one, for an entry that the ETag of a version matches
\* describes its file.
MatchingEntriesDescribe ==
    Settled /\ mode = "up" =>
        \A u \in Tagged, v \in 1 .. MaxVersion :
            hashMap[PathOf[u]] = Md5(Body(u, v)) => file[PathOf[u]] = Body(u, v)

=============================================================================
