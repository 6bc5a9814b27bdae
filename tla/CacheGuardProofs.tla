-------------------------- MODULE CacheGuardProofs --------------------------
(***************************************************************************)
(* What CacheGuard guarantees for any number of goroutines, URLs, files    *)
(* and versions, when anything may fail, be killed or be saved at work,    *)
(* but calls and site are orderly; and, in the last two parts, for         *)
(* processes that always close and for duplicate calls.                    *)
(*                                                                         *)
(* The argument: an entry of the hash map or of hashes.json matters only   *)
(* if an ETag can still equal it, that is, if it is the sum of the version *)
(* that the site has now (the site does not go back).  Such an entry       *)
(* describes its file (UrlInv).  A goroutine rewrites a file only after a  *)
(* miss, that is, while the file's entry is out of date and will stay so   *)
(* (WorkerInv), so whatever a failed write, a kill or an early save leaves *)
(* behind is harmless.                                                     *)
(***************************************************************************)
EXTENDS CacheGuard, TLAPS

\* URLs have files of their own; nobody requests a URL that is being requested;
\* the site never serves again what it replaced, and always with the ETag; the
\* map is always loaded.
Orderly ==
    /\ \A u, x \in Url : PathOf[u] = PathOf[x] => u = x
    /\ \A e \in {"duplicates", "rollback", "bare head", "no init"} : e \notin Allowed

File(u) == file[PathOf[u]]
Entry(u) == hashMap[PathOf[u]]
SavedEntry(u) == json[PathOf[u]]

\* What the cache has of u is not newer than what the site has, and an entry that
\* the present ETag would match describes the file.
UrlInv(u) ==
    /\ \A v \in 1 .. MaxVersion : v > site[u] =>
          /\ File(u) # Body(u, v)
          /\ Entry(u) # Md5(Body(u, v))
          /\ SavedEntry(u) # Md5(Body(u, v))
    /\ u \in Tagged =>
          /\ Entry(u) = Md5(Body(u, site[u])) => File(u) = Body(u, site[u])
          /\ SavedEntry(u) = Md5(Body(u, site[u])) => File(u) = Body(u, site[u])
          /\ SavedEntry(u) = Md5(Body(u, site[u])) /\ mode # "down" =>
                Entry(u) = Md5(Body(u, site[u]))

\* The tag that a HEAD of u brought: the sum of a version v that the site had
\* since the call began, with which no newer entry can compete.
TagOf(w, u, v) ==
    /\ got[w] = Md5(Body(u, v))
    /\ Entry(u) = got[w] => File(u) = Body(u, v)
    /\ \A x \in 1 .. MaxVersion : x > v => Entry(u) # Md5(Body(u, x))

Writing == {"get", "truncate", "fill", "rehash", "update"}

\* The state of goroutine w inside a call for u.
WorkerInv(w, u) ==
    /\ since[w] \in 1 .. site[u]
    /\ pc[w] = "lookup" =>
          IF u \in Tagged THEN \E v \in since[w] .. site[u] : TagOf(w, u, v)
                          ELSE got[w] = NoHash
    /\ pc[w] \in Writing /\ u \in Tagged => Entry(u) # Md5(Body(u, site[u]))
    /\ pc[w] \in {"truncate", "fill"} =>
          \E v \in since[w] .. site[u] : got[w] = Body(u, v)
    /\ pc[w] = "fill" => File(u) = Empty
    /\ pc[w] \in {"rehash", "update", "done"} =>
          \E v \in since[w] .. site[u] : File(u) = Body(u, v)
    /\ pc[w] = "update" => got[w] = Md5(File(u))

\* No two goroutines are in calls for the same URL.
Separate ==
    \A w, x \in Worker : w # x /\ url[w] = url[x] => url[w] = NoUrl

IInv ==
    /\ TypeOK
    /\ Separate
    /\ mode = "down" => hashMap = NoEntries
    /\ \A u \in Url : UrlInv(u)
    /\ \A w \in Worker, u \in Url : url[w] = u => WorkerInv(w, u)

-----------------------------------------------------------------------------
(* Contents and sums *)

\* Bodies are contents, none of the markers, and different for different URLs or
\* versions.
LEMMA Bodies ==
  ASSUME NEW u \in Url, NEW v \in 1 .. MaxVersion
  PROVE  /\ Body(u, v) \in Content \ {None, Empty, Torn}
         /\ \A x \in Url, y \in 1 .. MaxVersion :
               Body(u, v) = Body(x, y) => u = x /\ v = y
  BY MarkerAssumption DEF Body, Content

\* Different contents have different sums.
LEMMA SumsDiffer ==
  ASSUME NEW c, NEW d, Md5(c) = Md5(d)
  PROVE  c = d
  BY DEF Md5

\* The sum of a content is a hash, and never the marker for none.
LEMMA Sums ==
  ASSUME NEW c \in Content
  PROVE  Md5(c) \in Hash \ {NoHash}
  BY MarkerAssumption DEF Md5, Hash

-----------------------------------------------------------------------------
(* A step of one goroutine *)

\* A step of goroutine w that touches no file and no entry but those of its own
\* URL needs to be looked at for that URL and that goroutine only.
LEMMA WorkerStep ==
  ASSUME IInv, Orderly, NEW w \in Worker, NEW u \in Url, url[w] = u,
         TypeOK',
         UNCHANGED <<site, json, mode>>,
         \A x \in Worker \ {w} : /\ pc'[x] = pc[x] /\ url'[x] = url[x]
                                 /\ since'[x] = since[x] /\ got'[x] = got[x],
         url'[w] \in {u, NoUrl},
         \A p \in Path \ {PathOf[u]} : file'[p] = file[p] /\ hashMap'[p] = hashMap[p],
         UrlInv(u)',
         url'[w] = u => WorkerInv(w, u)'
  PROVE  IInv'
  <1> USE GuardAssumption
  <1>1. \A y \in Url \ {u} : PathOf[y] \in Path \ {PathOf[u]}
    BY DEF Orderly
  <1>2. Separate'
    BY DEF IInv, Separate
  <1>3. mode' = "down" => hashMap' = NoEntries'
    BY DEF IInv, TypeOK
  <1>4. ASSUME NEW y \in Url \ {u} PROVE UrlInv(y)'
    <2>1. /\ file'[PathOf[y]] = file[PathOf[y]]
          /\ hashMap'[PathOf[y]] = hashMap[PathOf[y]]
      BY <1>1
    <2>2. UrlInv(y)
      BY DEF IInv
    <2> QED
      BY <2>1, <2>2 DEF UrlInv, File, Entry, SavedEntry
  <1>5. ASSUME NEW x \in Worker \ {w}, NEW y \in Url, url'[x] = y
        PROVE  WorkerInv(x, y)'
    <2>1. url[x] = y /\ y # u
      BY <1>5 DEF IInv, Separate
    <2>2. /\ file'[PathOf[y]] = file[PathOf[y]]
          /\ hashMap'[PathOf[y]] = hashMap[PathOf[y]]
          /\ pc'[x] = pc[x]
          /\ since'[x] = since[x]
          /\ got'[x] = got[x]
          /\ site' = site
      BY <1>1, <2>1
    <2>3. WorkerInv(x, y)
      BY <2>1 DEF IInv
    <2> QED
      BY <2>2, <2>3 DEF WorkerInv, TagOf, File, Entry
  <1>6. \A y \in Url : UrlInv(y)'
    BY <1>4
  <1>7. ASSUME NEW x \in Worker, NEW y \in Url, url'[x] = y
        PROVE  WorkerInv(x, y)'
    <2>1. CASE x = w
      BY <1>7, <2>1
    <2>2. CASE x # w
      BY <1>5, <1>7, <2>2
    <2> QED
      BY <2>1, <2>2
  <1> QED
    BY <1>2, <1>3, <1>6, <1>7 DEF IInv

\* What IInv says of a goroutine that is inside a call.
LEMMA Calling ==
  ASSUME IInv, NEW w \in Worker, pc[w] # "idle"
  PROVE  \E u \in Url : /\ url[w] = u
                        /\ mode # "down"
                        /\ UrlInv(u)
                        /\ WorkerInv(w, u)
                        /\ PathOf[u] \in Path
                        /\ site[u] \in 1 .. MaxVersion
  BY GuardAssumption DEF IInv, TypeOK

\* The types after a step within a call.
LEMMA AdvanceType ==
  ASSUME TypeOK, NEW w \in Worker, NEW from \in PC \ {"idle"},
         NEW to \in PC \ {"idle"}, NEW value \in Content \cup Hash,
         Advance(w, from, to, value),
         UNCHANGED <<site, json, jsonState, mode>>,
         file' \in [Path -> Content],
         hashMap' \in [Path -> Hash]
  PROVE  /\ TypeOK'
         /\ pc[w] = from /\ pc'[w] = to /\ got'[w] = value /\ url' = url
         /\ since' = since
         /\ \A x \in Worker \ {w} : pc'[x] = pc[x] /\ got'[x] = got[x]
  <1>1. /\ pc' = [pc EXCEPT ![w] = to]
        /\ got' = [got EXCEPT ![w] = value]
        /\ pc[w] = from
        /\ UNCHANGED <<url, since>>
    BY DEF Advance
  <1>2. pc' \in [Worker -> PC] /\ got' \in [Worker -> Content \cup Hash]
    BY <1>1 DEF TypeOK
  <1>3. /\ pc'[w] = to
        /\ got'[w] = value
        /\ \A x \in Worker \ {w} : pc'[x] = pc[x] /\ got'[x] = got[x]
    BY <1>1 DEF TypeOK
  <1>4. \A x \in Worker : /\ pc'[x] = "idle" <=> url'[x] = NoUrl
                          /\ mode' = "down" => pc'[x] = "idle"
    BY <1>1, <1>3 DEF TypeOK
  <1> QED
    BY <1>1, <1>2, <1>3, <1>4 DEF TypeOK

\* A goroutine may leave its call wherever it is, if what it did to the file of
\* its URL agrees with UrlInv.
LEMMA LeaveStep ==
  ASSUME IInv, Orderly, NEW w \in Worker, NEW u \in Url, url[w] = u, Leave(w),
         UNCHANGED <<site, json, jsonState, mode, hashMap>>,
         file' \in [Path -> Content],
         \A p \in Path \ {PathOf[u]} : file'[p] = file[p],
         UrlInv(u)'
  PROVE  IInv'
  <1>1. TypeOK'
    <2>1. /\ pc' \in [Worker -> PC]
          /\ url' \in [Worker -> Url \cup {NoUrl}]
          /\ since' \in [Worker -> 0 .. MaxVersion]
          /\ got' \in [Worker -> Content \cup Hash]
      BY GuardAssumption DEF IInv, TypeOK, Leave, PC, Hash
    <2>2. \A x \in Worker : /\ pc'[x] = "idle" <=> url'[x] = NoUrl
                            /\ mode' = "down" => pc'[x] = "idle"
      BY DEF IInv, TypeOK, Leave
    <2> QED
      BY <2>1, <2>2 DEF IInv, TypeOK
  <1>2. url'[w] = NoUrl /\ NoUrl # u
    BY GuardAssumption DEF IInv, TypeOK, Leave
  <1>3. \A x \in Worker \ {w} : /\ pc'[x] = pc[x] /\ url'[x] = url[x]
                                /\ since'[x] = since[x] /\ got'[x] = got[x]
    BY DEF IInv, TypeOK, Leave
  <1> QED
    BY <1>1, <1>2, <1>3, WorkerStep

-----------------------------------------------------------------------------
(* The steps of a call *)

\* CacheGuardedHttpGet is entered for a URL that nobody is requesting.
LEMMA CallStep ==
  ASSUME IInv, Orderly, NEW w \in Worker, NEW u \in Url, Call(w, u)
  PROVE  IInv'
  <1> USE GuardAssumption
  <1>1. /\ mode # "down"
        /\ pc[w] = "idle"
        /\ \A x \in Worker : url[x] # u
        /\ pc' = [pc EXCEPT ![w] = "head"]
        /\ url' = [url EXCEPT ![w] = u]
        /\ since' = [since EXCEPT ![w] = site[u]]
        /\ UNCHANGED <<site, file, json, jsonState, hashMap, mode, got>>
    BY DEF Call, Orderly, disk, process
  <1>2. TypeOK'
    <2>1. /\ pc' \in [Worker -> PC]
          /\ url' \in [Worker -> Url \cup {NoUrl}]
          /\ since' \in [Worker -> 0 .. MaxVersion]
      BY <1>1 DEF IInv, TypeOK, PC
    <2>2. \A x \in Worker : /\ pc'[x] = "idle" <=> url'[x] = NoUrl
                            /\ mode' = "down" => pc'[x] = "idle"
      BY <1>1 DEF IInv, TypeOK
    <2> QED
      BY <1>1, <2>1, <2>2 DEF IInv, TypeOK
  <1>3. Separate'
    BY <1>1 DEF IInv, TypeOK, Separate
  <1>4. mode' = "down" => hashMap' = NoEntries'
    BY <1>1
  <1>5. ASSUME NEW y \in Url PROVE UrlInv(y)'
    BY <1>1 DEF IInv, UrlInv, File, Entry, SavedEntry
  <1>6. ASSUME NEW x \in Worker, NEW y \in Url, url'[x] = y PROVE WorkerInv(x, y)'
    <2>1. CASE x = w
      <3>1. y = u /\ pc'[w] = "head" /\ since'[w] = site'[u] /\ site'[u] \in 1 .. MaxVersion
        BY <1>1, <1>6, <2>1 DEF IInv, TypeOK
      <3> QED
        BY <2>1, <3>1 DEF WorkerInv, Writing
    <2>2. CASE x # w
      <3>1. /\ url[x] = y
            /\ pc'[x] = pc[x] /\ since'[x] = since[x] /\ got'[x] = got[x]
            /\ UNCHANGED <<site, file, hashMap>>
        BY <1>1, <1>6, <2>2 DEF IInv, TypeOK
      <3>2. WorkerInv(x, y)
        BY <3>1 DEF IInv
      <3> QED
        BY <3>1, <3>2 DEF WorkerInv, TagOf, File, Entry
    <2> QED
      BY <2>1, <2>2
  <1> QED
    BY <1>2, <1>3, <1>4, <1>5, <1>6 DEF IInv

\* With a steady server the tag of a HEAD is the sum of the present version.
LEMMA HeadStep ==
  ASSUME IInv, Orderly, NEW w \in Worker, Head(w)
  PROVE  IInv'
  <1>0. TypeOK
    BY DEF IInv
  <1>1. PICK u \in Url : /\ url[w] = u
                         /\ mode # "down"
                         /\ UrlInv(u)
                         /\ WorkerInv(w, u)
                         /\ site[u] \in 1 .. MaxVersion
    BY Calling DEF Head, Advance
  <1> DEFINE tag == IF u \in Tagged THEN Md5(Body(u, site[u])) ELSE NoHash
  <1>2. /\ Advance(w, "head", "lookup", tag)
        /\ UNCHANGED <<site, file, json, jsonState, hashMap, mode>>
    BY <1>1 DEF Head, ETags, Orderly, disk, process
  <1>3. tag \in Content \cup Hash
    BY <1>1, Bodies, Sums DEF Hash
  <1> HIDE DEF tag
  <1>4. /\ TypeOK'
        /\ pc'[w] = "lookup" /\ got'[w] = tag /\ url' = url /\ since' = since
        /\ \A x \in Worker \ {w} : pc'[x] = pc[x] /\ got'[x] = got[x]
    BY <1>0, <1>2, <1>3, AdvanceType DEF TypeOK, PC
  <1>5. UrlInv(u)'
    BY <1>1, <1>2 DEF UrlInv, File, Entry, SavedEntry
  <1>6. WorkerInv(w, u)'
    <2>1. since'[w] \in 1 .. site'[u]
      BY <1>1, <1>2, <1>4 DEF WorkerInv
    <2>2. ASSUME u \in Tagged PROVE TagOf(w, u, site[u])'
      <3>1. got'[w] = Md5(Body(u, site'[u]))
        BY <1>2, <1>4, <2>2 DEF tag
      <3>2. UNCHANGED <<site, file, hashMap>>
        BY <1>2
      <3> QED
        BY <1>1, <2>2, <3>1, <3>2 DEF UrlInv, TagOf, File, Entry
    <2>3. u \notin Tagged => got'[w] = NoHash
      BY <1>4 DEF tag
    <2>4. site'[u] \in since'[w] .. site'[u]
      BY <1>1, <1>2, <2>1
    <2> QED
      BY <1>2, <1>4, <2>1, <2>2, <2>3, <2>4 DEF WorkerInv, Writing
  <1> QED
    BY <1>1, <1>2, <1>4, <1>5, <1>6, WorkerStep

\* A hit: the tag is a sum, so that the file has the body the tag is of.
LEMMA HitIsFresh ==
  ASSUME IInv, NEW w \in Worker, Hit(w), NEW u \in Url, url[w] = u
  PROVE  \E v \in since[w] .. site[u] : File(u) = Body(u, v) /\ got[w] = Md5(File(u))
  <1>1. pc[w] = "lookup" /\ Entry(u) # NoHash /\ Entry(u) = got[w] /\ WorkerInv(w, u)
    BY DEF IInv, Hit, IsFileCachedByHash, MyPath, Entry
  <1>2. PICK v \in since[w] .. site[u] : TagOf(w, u, v)
    BY <1>1 DEF WorkerInv
  <1> QED
    BY <1>1, <1>2 DEF TagOf

\* The body of a fresh guard is a content of the type.
LEMMA HitStep ==
  ASSUME IInv, Orderly, NEW w \in Worker, Hit(w)
  PROVE  IInv'
  <1>0. TypeOK
    BY DEF IInv
  <1>1. PICK u \in Url : /\ url[w] = u
                         /\ mode # "down"
                         /\ UrlInv(u)
                         /\ WorkerInv(w, u)
                         /\ site[u] \in 1 .. MaxVersion
    BY Calling DEF Hit
  <1>2. /\ Advance(w, "lookup", "done", NoHash)
        /\ UNCHANGED <<site, file, json, jsonState, hashMap, mode>>
    BY DEF Hit, disk, process
  <1>3. /\ TypeOK'
        /\ pc'[w] = "done" /\ got'[w] = NoHash /\ url' = url /\ since' = since
        /\ \A x \in Worker \ {w} : pc'[x] = pc[x] /\ got'[x] = got[x]
    <2>1. NoHash \in Content \cup Hash
      BY DEF Hash
    <2> QED
      BY <1>0, <1>2, <2>1, AdvanceType DEF TypeOK, PC
  <1>4. UrlInv(u)'
    BY <1>1, <1>2 DEF UrlInv, File, Entry, SavedEntry
  <1>5. WorkerInv(w, u)'
    <2>1. PICK v \in since[w] .. site[u] : File(u) = Body(u, v)
      BY <1>1, HitIsFresh
    <2> QED
      BY <1>1, <1>2, <1>3, <2>1 DEF WorkerInv, Writing, File
  <1> QED
    BY <1>1, <1>2, <1>3, <1>4, <1>5, WorkerStep

\* A miss: the entry is not the sum of the present version, whichever version the
\* tag was of.
LEMMA MissStep ==
  ASSUME IInv, Orderly, NEW w \in Worker, Miss(w)
  PROVE  IInv'
  <1>0. TypeOK
    BY DEF IInv
  <1>1. PICK u \in Url : /\ url[w] = u
                         /\ mode # "down"
                         /\ UrlInv(u)
                         /\ WorkerInv(w, u)
                         /\ site[u] \in 1 .. MaxVersion
    BY Calling DEF Miss
  <1>2. /\ Advance(w, "lookup", "get", NoHash)
        /\ pc[w] = "lookup"
        /\ Entry(u) # NoHash => Entry(u) # got[w]
        /\ UNCHANGED <<site, file, json, jsonState, hashMap, mode>>
    BY <1>1 DEF Miss, IsFileCachedByHash, MyPath, Entry, disk, process
  <1>3. /\ TypeOK'
        /\ pc'[w] = "get" /\ got'[w] = NoHash /\ url' = url /\ since' = since
        /\ \A x \in Worker \ {w} : pc'[x] = pc[x] /\ got'[x] = got[x]
    <2>1. NoHash \in Content \cup Hash
      BY DEF Hash
    <2> QED
      BY <1>0, <1>2, <2>1, AdvanceType DEF TypeOK, PC
  <1>4. UrlInv(u)'
    BY <1>1, <1>2 DEF UrlInv, File, Entry, SavedEntry
  <1>5. ASSUME u \in Tagged PROVE Entry(u) # Md5(Body(u, site[u]))
    <2>1. PICK v \in since[w] .. site[u] : TagOf(w, u, v)
      BY <1>1, <1>2, <1>5 DEF WorkerInv
    <2>2. CASE v = site[u]
      <3>1. Md5(Body(u, site[u])) # NoHash
        BY <1>1, Bodies, Sums
      <3> QED
        BY <1>2, <2>1, <2>2, <3>1 DEF TagOf
    <2>3. CASE v # site[u]
      <3>1. site[u] > v
        BY <1>1, <2>1, <2>3 DEF WorkerInv
      <3> QED
        BY <1>1, <2>1, <3>1 DEF TagOf
    <2> QED
      BY <2>2, <2>3
  <1>6. WorkerInv(w, u)'
    BY <1>1, <1>2, <1>3, <1>5 DEF WorkerInv, Writing, Entry
  <1> QED
    BY <1>1, <1>2, <1>3, <1>4, <1>6, WorkerStep

\* http.Get brings the version that the site has now.
LEMMA GetStep ==
  ASSUME IInv, Orderly, NEW w \in Worker, Get(w)
  PROVE  IInv'
  <1>0. TypeOK
    BY DEF IInv
  <1>1. PICK u \in Url : /\ url[w] = u
                         /\ mode # "down"
                         /\ UrlInv(u)
                         /\ WorkerInv(w, u)
                         /\ site[u] \in 1 .. MaxVersion
    BY Calling DEF Get
  <1>2. /\ Advance(w, "get", "truncate", Body(u, site[u]))
        /\ pc[w] = "get"
        /\ UNCHANGED <<site, file, json, jsonState, hashMap, mode>>
    BY <1>1 DEF Get, disk, process
  <1>3. /\ TypeOK'
        /\ pc'[w] = "truncate" /\ got'[w] = Body(u, site[u])
        /\ url' = url /\ since' = since
        /\ \A x \in Worker \ {w} : pc'[x] = pc[x] /\ got'[x] = got[x]
    <2>1. Body(u, site[u]) \in Content \cup Hash
      BY <1>1, Bodies
    <2> QED
      BY <1>0, <1>2, <2>1, AdvanceType DEF TypeOK, PC
  <1>4. UrlInv(u)'
    BY <1>1, <1>2 DEF UrlInv, File, Entry, SavedEntry
  <1>5. WorkerInv(w, u)'
    <2>1. site[u] \in since[w] .. site[u] /\ since[w] \in 1 .. site[u]
      BY <1>1 DEF WorkerInv
    <2> QED
      BY <1>1, <1>2, <1>3, <2>1 DEF WorkerInv, Writing, Entry
  <1> QED
    BY <1>1, <1>2, <1>3, <1>4, <1>5, WorkerStep

\* A writer's entries are out of date: whatever it puts into the file agrees with
\* UrlInv, as long as it is nothing newer than the site.
LEMMA StaleFile ==
  ASSUME IInv, NEW w \in Worker, NEW u \in Url, url[w] = u, pc[w] \in Writing,
         UNCHANGED <<site, json, hashMap, mode>>,
         \A v \in 1 .. MaxVersion : v > site[u] => File(u)' # Body(u, v)
  PROVE  UrlInv(u)'
  <1>1. UrlInv(u) /\ WorkerInv(w, u) /\ mode # "down"
    BY DEF IInv, TypeOK, Writing
  <1>2. u \in Tagged => /\ Entry(u) # Md5(Body(u, site[u]))
                        /\ SavedEntry(u) # Md5(Body(u, site[u]))
    BY <1>1 DEF UrlInv, WorkerInv
  <1> QED
    BY <1>1, <1>2 DEF UrlInv, Entry, SavedEntry

\* os.WriteFile empties the file of an entry that is out of date.
LEMMA TruncateStep ==
  ASSUME IInv, Orderly, NEW w \in Worker, Truncate(w)
  PROVE  IInv'
  <1> USE GuardAssumption
  <1>0. TypeOK
    BY DEF IInv
  <1>1. PICK u \in Url : /\ url[w] = u
                         /\ mode # "down"
                         /\ UrlInv(u)
                         /\ WorkerInv(w, u)
                         /\ PathOf[u] \in Path
                         /\ site[u] \in 1 .. MaxVersion
    BY Calling DEF Truncate, Advance
  <1>2. /\ Advance(w, "truncate", "fill", got[w])
        /\ pc[w] = "truncate"
        /\ file' = [file EXCEPT ![PathOf[u]] = Empty]
        /\ UNCHANGED <<site, json, jsonState, hashMap, mode>>
    BY <1>1 DEF Truncate, Advance, MyPath, process
  <1>3. /\ TypeOK'
        /\ pc'[w] = "fill" /\ got'[w] = got[w] /\ url' = url /\ since' = since
        /\ \A x \in Worker \ {w} : pc'[x] = pc[x] /\ got'[x] = got[x]
    <2>1. got[w] \in Content \cup Hash /\ hashMap' \in [Path -> Hash]
      BY <1>0, <1>2 DEF TypeOK
    <2>2. file' \in [Path -> Content]
      BY <1>0, <1>2 DEF TypeOK, Content
    <2> QED
      BY <1>0, <1>2, <2>1, <2>2, AdvanceType DEF PC
  <1>4. /\ file'[PathOf[u]] = Empty
        /\ \A p \in Path \ {PathOf[u]} : file'[p] = file[p]
    BY <1>0, <1>1, <1>2 DEF TypeOK
  <1>5. UrlInv(u)'
    <2>1. \A v \in 1 .. MaxVersion : File(u)' # Body(u, v)
      BY <1>4, Bodies DEF File
    <2> QED
      BY <1>1, <1>2, <2>1, StaleFile DEF Writing
  <1>6. WorkerInv(w, u)'
    BY <1>1, <1>2, <1>3, <1>4 DEF WorkerInv, Writing, Entry, File
  <1> QED
    BY <1>1, <1>2, <1>3, <1>4, <1>5, <1>6, WorkerStep

\* os.WriteFile fills the file that nobody else has touched since.
LEMMA FillStep ==
  ASSUME IInv, Orderly, NEW w \in Worker, Fill(w)
  PROVE  IInv'
  <1> USE GuardAssumption
  <1>0. TypeOK
    BY DEF IInv
  <1>1. PICK u \in Url : /\ url[w] = u
                         /\ mode # "down"
                         /\ UrlInv(u)
                         /\ WorkerInv(w, u)
                         /\ PathOf[u] \in Path
                         /\ site[u] \in 1 .. MaxVersion
    BY Calling DEF Fill, Advance
  <1>2. /\ Advance(w, "fill", "rehash", NoHash)
        /\ pc[w] = "fill"
        /\ UNCHANGED <<site, json, jsonState, hashMap, mode>>
    BY DEF Fill, Advance, process
  <1>3. PICK v \in since[w] .. site[u] : got[w] = Body(u, v)
    BY <1>1, <1>2 DEF WorkerInv
  <1>4. v \in 1 .. MaxVersion /\ since[w] \in 1 .. site[u]
    BY <1>1, <1>3 DEF WorkerInv
  <1>5. file' = [file EXCEPT ![PathOf[u]] = Body(u, v)]
    <2>1. file[PathOf[u]] = Empty
      BY <1>1, <1>2 DEF WorkerInv, File
    <2> QED
      BY <1>1, <1>3, <2>1 DEF Fill, Filled, MyPath
  <1>6. /\ TypeOK'
        /\ pc'[w] = "rehash" /\ got'[w] = NoHash /\ url' = url /\ since' = since
        /\ \A x \in Worker \ {w} : pc'[x] = pc[x] /\ got'[x] = got[x]
    <2>1. NoHash \in Content \cup Hash
      BY DEF Hash
    <2>2. file' \in [Path -> Content] /\ hashMap' \in [Path -> Hash]
      BY <1>0, <1>2, <1>4, <1>5, Bodies DEF TypeOK
    <2> QED
      BY <1>0, <1>2, <2>1, <2>2, AdvanceType DEF PC
  <1>7. /\ file'[PathOf[u]] = Body(u, v)
        /\ \A p \in Path \ {PathOf[u]} : file'[p] = file[p]
    BY <1>0, <1>1, <1>5 DEF TypeOK
  <1>8. UrlInv(u)'
    <2>1. \A x \in 1 .. MaxVersion : x > site[u] => Body(u, x) # Body(u, v)
      BY <1>1, <1>3, <1>4, Bodies
    <2> QED
      BY <1>1, <1>2, <1>7, <2>1, StaleFile DEF Writing, File
  <1>9. WorkerInv(w, u)'
    BY <1>1, <1>2, <1>3, <1>4, <1>6, <1>7 DEF WorkerInv, Writing, Entry, File
  <1> QED
    BY <1>1, <1>2, <1>6, <1>7, <1>8, <1>9, WorkerStep

\* A torn write is harmless: its entry was out of date and stays so.
LEMMA WriteFailsStep ==
  ASSUME IInv, Orderly, NEW w \in Worker, WriteFails(w)
  PROVE  IInv'
  <1> USE GuardAssumption
  <1>0. TypeOK
    BY DEF IInv
  <1>1. PICK u \in Url : url[w] = u /\ PathOf[u] \in Path /\ site[u] \in 1 .. MaxVersion
    BY Calling DEF WriteFails
  <1>2. /\ pc[w] = "fill"
        /\ Leave(w)
        /\ file' = [file EXCEPT ![PathOf[u]] = Torn]
        /\ UNCHANGED <<site, json, jsonState, hashMap, mode>>
    BY <1>1 DEF WriteFails, MyPath, process
  <1>3. /\ file' \in [Path -> Content]
        /\ file'[PathOf[u]] = Torn
        /\ \A p \in Path \ {PathOf[u]} : file'[p] = file[p]
    BY <1>0, <1>1, <1>2 DEF TypeOK, Content
  <1>4. UrlInv(u)'
    <2>1. \A v \in 1 .. MaxVersion : File(u)' # Body(u, v)
      BY <1>3, Bodies DEF File
    <2> QED
      BY <1>1, <1>2, <2>1, StaleFile DEF Writing
  <1> QED
    BY <1>1, <1>2, <1>3, <1>4, LeaveStep

\* computeFileHash reads what this call has written.
LEMMA RehashStep ==
  ASSUME IInv, Orderly, NEW w \in Worker, Rehash(w)
  PROVE  IInv'
  <1>0. TypeOK
    BY DEF IInv
  <1>1. PICK u \in Url : /\ url[w] = u
                         /\ mode # "down"
                         /\ UrlInv(u)
                         /\ WorkerInv(w, u)
                         /\ PathOf[u] \in Path
                         /\ site[u] \in 1 .. MaxVersion
    BY Calling DEF Rehash, Advance
  <1>2. /\ Advance(w, "rehash", "update", Md5(File(u)))
        /\ pc[w] = "rehash"
        /\ UNCHANGED <<site, file, json, jsonState, hashMap, mode>>
    BY <1>1 DEF Rehash, Advance, MyPath, File, disk, process
  <1>3. /\ TypeOK'
        /\ pc'[w] = "update" /\ got'[w] = Md5(File(u)) /\ url' = url
        /\ since' = since
        /\ \A x \in Worker \ {w} : pc'[x] = pc[x] /\ got'[x] = got[x]
    <2>1. Md5(File(u)) \in Content \cup Hash
      BY <1>0, <1>1, Sums DEF TypeOK, File
    <2>2. file' \in [Path -> Content] /\ hashMap' \in [Path -> Hash]
      BY <1>0, <1>2 DEF TypeOK
    <2> QED
      BY <1>0, <1>2, <2>1, <2>2, AdvanceType DEF PC
  <1>4. UrlInv(u)'
    BY <1>1, <1>2 DEF UrlInv, File, Entry, SavedEntry
  <1>5. WorkerInv(w, u)'
    BY <1>1, <1>2, <1>3 DEF WorkerInv, Writing, Entry, File
  <1> QED
    BY <1>1, <1>2, <1>3, <1>4, <1>5, WorkerStep

\* The entry that a call leaves is the sum of the file that it leaves.
LEMMA UpdateStep ==
  ASSUME IInv, Orderly, NEW w \in Worker, Update(w)
  PROVE  IInv'
  <1> USE GuardAssumption
  <1>0. TypeOK
    BY DEF IInv
  <1>1. PICK u \in Url : /\ url[w] = u
                         /\ mode # "down"
                         /\ UrlInv(u)
                         /\ WorkerInv(w, u)
                         /\ PathOf[u] \in Path
                         /\ site[u] \in 1 .. MaxVersion
    BY Calling DEF Update, Advance
  <1>2. /\ Advance(w, "update", "done", NoHash)
        /\ pc[w] = "update"
        /\ got[w] = Md5(File(u))
        /\ hashMap' = [hashMap EXCEPT ![PathOf[u]] = Md5(File(u))]
        /\ UNCHANGED <<site, file, json, jsonState, mode>>
    BY <1>1 DEF Update, Advance, MyPath, WorkerInv, disk
  <1>3. /\ TypeOK'
        /\ pc'[w] = "done" /\ got'[w] = NoHash /\ url' = url /\ since' = since
        /\ \A x \in Worker \ {w} : pc'[x] = pc[x] /\ got'[x] = got[x]
    <2>1. NoHash \in Content \cup Hash
      BY DEF Hash
    <2>2. Md5(File(u)) \in Hash
      BY <1>0, <1>1, Sums DEF TypeOK, File
    <2>3. file' \in [Path -> Content] /\ hashMap' \in [Path -> Hash]
      BY <1>0, <1>2, <2>2 DEF TypeOK
    <2> QED
      BY <1>0, <1>2, <2>1, <2>3, AdvanceType DEF PC
  <1>4. /\ hashMap'[PathOf[u]] = Md5(File(u))
        /\ \A p \in Path \ {PathOf[u]} : hashMap'[p] = hashMap[p]
    BY <1>0, <1>1, <1>2 DEF TypeOK
  <1>5. UrlInv(u)'
    <2>1. \A v \in 1 .. MaxVersion : v > site[u] =>
             /\ File(u) # Body(u, v)
             /\ Md5(File(u)) # Md5(Body(u, v))
             /\ SavedEntry(u) # Md5(Body(u, v))
      BY <1>1, SumsDiffer DEF UrlInv
    <2>2. u \in Tagged => SavedEntry(u) # Md5(Body(u, site[u]))
      BY <1>1, <1>2 DEF UrlInv, WorkerInv, Writing
    <2>3. Md5(File(u)) = Md5(Body(u, site[u])) => File(u) = Body(u, site[u])
      BY SumsDiffer
    <2> QED
      BY <1>2, <1>4, <2>1, <2>2, <2>3 DEF UrlInv, File, Entry, SavedEntry
  <1>6. WorkerInv(w, u)'
    BY <1>1, <1>2, <1>3, <1>4 DEF WorkerInv, Writing, File
  <1> QED
    BY <1>1, <1>2, <1>3, <1>4, <1>5, <1>6, WorkerStep

\* Errors outside os.WriteFile, and the end of the use of a file.
LEMMA EndStep ==
  ASSUME IInv, Orderly, NEW w \in Worker, GiveUp(w) \/ Return(w)
  PROVE  IInv'
  <1>1. PICK u \in Url : url[w] = u /\ UrlInv(u)
    BY Calling DEF GiveUp, Return
  <1>2. Leave(w) /\ UNCHANGED <<site, file, json, jsonState, hashMap, mode>>
    BY DEF GiveUp, Return, disk, process
  <1>3. file' \in [Path -> Content]
    BY <1>2 DEF IInv, TypeOK
  <1>4. UrlInv(u)'
    BY <1>1, <1>2 DEF UrlInv, File, Entry, SavedEntry
  <1> QED
    BY <1>1, <1>2, <1>3, <1>4, LeaveStep

-----------------------------------------------------------------------------
(* The steps of the server and of the process *)

\* A deployment makes the entries of its URL out of date, and none current.
LEMMA DeployStep ==
  ASSUME IInv, NEW u \in Url, Deploy(u)
  PROVE  IInv'
  <1> USE GuardAssumption
  <1>0. TypeOK
    BY DEF IInv
  <1>1. /\ site[u] < MaxVersion
        /\ site' = [site EXCEPT ![u] = @ + 1]
        /\ UNCHANGED <<file, json, jsonState, hashMap, mode, pc, url, since, got>>
    BY DEF Deploy, disk, process, calls
  <1>2. /\ site[u] \in 1 .. MaxVersion
        /\ site'[u] = site[u] + 1
        /\ site'[u] \in 1 .. MaxVersion
        /\ \A y \in Url \ {u} : site'[y] = site[y]
    BY <1>0, <1>1 DEF TypeOK
  <1>3. TypeOK'
    <2>1. site' \in [Url -> 1 .. MaxVersion]
      BY <1>0, <1>1, <1>2 DEF TypeOK
    <2> QED
      BY <1>0, <1>1, <2>1 DEF TypeOK
  <1>4. Separate' /\ (mode' = "down" => hashMap' = NoEntries')
    BY <1>1 DEF IInv, Separate
  <1>5. ASSUME NEW y \in Url PROVE UrlInv(y)'
    <2>1. UrlInv(y)
      BY DEF IInv
    <2>2. CASE y # u
      BY <1>1, <1>2, <2>1, <2>2 DEF UrlInv, File, Entry, SavedEntry
    <2>3. CASE y = u
      BY <1>1, <1>2, <2>1, <2>3 DEF UrlInv, File, Entry, SavedEntry
    <2> QED
      BY <2>2, <2>3
  <1>6. ASSUME NEW w \in Worker, NEW y \in Url, url'[w] = y PROVE WorkerInv(w, y)'
    <2>1. WorkerInv(w, y) /\ UrlInv(y)
      BY <1>1, <1>6 DEF IInv
    <2>2. CASE y # u
      BY <1>1, <1>2, <2>1, <2>2 DEF WorkerInv, TagOf, File, Entry
    <2>3. CASE y = u
      <3>1. since'[w] \in 1 .. site'[u]
        BY <1>1, <1>2, <2>1, <2>3 DEF WorkerInv
      <3>2. since[w] .. site[u] \subseteq since'[w] .. site'[u]
        BY <1>1, <1>2, <2>1, <2>3 DEF WorkerInv
      <3>3. Entry(u)' # Md5(Body(u, site'[u]))
        BY <1>1, <1>2, <2>1, <2>3 DEF UrlInv, Entry
      <3>4. \A v : TagOf(w, u, v) => TagOf(w, u, v)'
        BY <1>1 DEF TagOf, File, Entry
      <3>5. UNCHANGED <<pc, got, file, hashMap>>
        BY <1>1
      <3> QED
        BY <2>1, <2>3, <3>1, <3>2, <3>3, <3>4, <3>5 DEF WorkerInv, File, Entry
    <2> QED
      BY <2>2, <2>3
  <1> QED
    BY <1>3, <1>4, <1>5, <1>6 DEF IInv

\* A process starts with no call running: only what it loads matters.
LEMMA StartStep ==
  ASSUME IInv, mode = "down", mode' \in {"up", "down"},
         UNCHANGED <<site, pc, url, since, got>>,
         file' \in [Path -> Content],
         hashMap' \in [Path -> Hash],
         json' \in [Path -> Hash],
         jsonState' \in {"absent", "partial", "whole"},
         mode' = "down" => hashMap' = hashMap,
         \A u \in Url : UrlInv(u)'
  PROVE  IInv'
  <1> USE GuardAssumption
  <1>1. \A w \in Worker : pc[w] = "idle" /\ url[w] = NoUrl
    BY DEF IInv, TypeOK
  <1>2. TypeOK'
    BY <1>1 DEF IInv, TypeOK
  <1>3. Separate' /\ (mode' = "down" => hashMap' = NoEntries')
    BY <1>1 DEF IInv, Separate, NoEntries
  <1> QED
    BY <1>1, <1>2, <1>3 DEF IInv

\* initializeHashMap, from hashes.json.
LEMMA StartFromJsonStep ==
  ASSUME IInv, StartFromJson
  PROVE  IInv'
  <1>1. \A u \in Url : UrlInv(u)'
    BY DEF IInv, StartFromJson, UrlInv, File, Entry, SavedEntry, disk
  <1> QED
    BY <1>1, StartStep DEF IInv, TypeOK, StartFromJson, disk, calls

\* initializeHashMap, from the files.
LEMMA StartFromFilesStep ==
  ASSUME IInv, StartFromFiles
  PROVE  IInv'
  <1> USE GuardAssumption
  <1>1. HashesOfFiles \in [Path -> Hash]
    BY Sums DEF IInv, TypeOK, HashesOfFiles, Hash
  <1>2. ASSUME NEW u \in Url PROVE UrlInv(u)'
    <2>1. UrlInv(u) /\ site[u] \in 1 .. MaxVersion
      BY DEF IInv, TypeOK
    <2>2. \A v \in 1 .. MaxVersion :
             HashesOfFiles[PathOf[u]] = Md5(Body(u, v)) => File(u) = Body(u, v)
      <3>1. \A v \in 1 .. MaxVersion : Md5(Body(u, v)) # NoHash
        BY Bodies, Sums
      <3>2. HashesOfFiles[PathOf[u]] =
              IF File(u) = None THEN NoHash ELSE Md5(File(u))
        BY DEF HashesOfFiles, File
      <3> QED
        BY <3>1, <3>2, SumsDiffer
    <2>3. /\ hashMap' = HashesOfFiles
          /\ json' = HashesOfFiles
          /\ UNCHANGED <<site, file>>
      BY DEF StartFromFiles
    <2> QED
      BY <2>1, <2>2, <2>3 DEF UrlInv, File, Entry, SavedEntry
  <1> QED
    BY <1>1, <1>2, StartStep DEF IInv, TypeOK, StartFromFiles, calls

\* Setup with --clear-cache.
LEMMA ClearCacheStep ==
  ASSUME IInv, ClearCache
  PROVE  IInv'
  <1> USE GuardAssumption
  <1>1. /\ file' \in [Path -> Content]
        /\ hashMap' \in [Path -> Hash]
        /\ json' \in [Path -> Hash]
    BY DEF ClearCache, NoEntries, Content, Hash
  <1>2. ASSUME NEW u \in Url PROVE UrlInv(u)'
    <2>1. \A v \in 1 .. MaxVersion : /\ Md5(Body(u, v)) # NoHash
                                     /\ Body(u, v) # None
      BY Bodies, Sums
    <2>2. File(u)' = None /\ Entry(u)' = NoHash /\ SavedEntry(u)' = NoHash
      BY DEF ClearCache, NoEntries, File, Entry, SavedEntry
    <2>3. site'[u] \in 1 .. MaxVersion
      BY DEF ClearCache, IInv, TypeOK
    <2> QED
      BY <2>1, <2>2, <2>3 DEF UrlInv
  <1> QED
    BY <1>1, <1>2, StartStep DEF ClearCache, calls

\* A first start that is killed leaves a hashes.json that does not parse.
LEMMA DieInStartStep ==
  ASSUME IInv, DieInStart
  PROVE  IInv'
  <1>1. \A u \in Url : UrlInv(u)'
    BY DEF IInv, DieInStart, process, UrlInv, File, Entry, SavedEntry
  <1> QED
    BY <1>1, StartStep DEF IInv, TypeOK, DieInStart, process, calls

\* persistHashMap, while goroutines are wherever they are.
LEMMA SaveStep ==
  ASSUME IInv, Save \/ Saved
  PROVE  IInv'
  <1>1. /\ mode # "down" /\ mode' # "down"
        /\ mode' \in {"saving", "saved"}
        /\ jsonState' \in {"partial", "whole"}
        /\ json' \in {json, hashMap}
        /\ UNCHANGED <<site, file, hashMap, pc, url, since, got>>
    BY DEF Save, Saved, calls
  <1>2. TypeOK' /\ Separate'
    BY <1>1 DEF IInv, TypeOK, Separate
  <1>3. \A u \in Url : UrlInv(u)'
    BY <1>1 DEF IInv, UrlInv, File, Entry, SavedEntry
  <1>4. \A w \in Worker, u \in Url : url'[w] = u => WorkerInv(w, u)'
    BY <1>1 DEF IInv, WorkerInv, TagOf, File, Entry
  <1> QED
    BY <1>1, <1>2, <1>3, <1>4 DEF IInv

\* os.Exit, or any other end, with files and hashes.json as they are.
LEMMA ExitStep ==
  ASSUME IInv, Exit
  PROVE  IInv'
  <1> USE GuardAssumption
  <1>1. /\ mode' = "down"
        /\ hashMap' = NoEntries
        /\ pc' = [w \in Worker |-> "idle"]
        /\ url' = [w \in Worker |-> NoUrl]
        /\ since' = [w \in Worker |-> 0]
        /\ got' = [w \in Worker |-> NoHash]
        /\ UNCHANGED <<site, file, json, jsonState>>
    BY DEF Exit, disk
  <1>2. TypeOK' /\ Separate'
    <2>1. hashMap' \in [Path -> Hash] /\ got' \in [Worker -> Content \cup Hash]
      BY <1>1 DEF NoEntries, Hash
    <2>2. since' \in [Worker -> 0 .. MaxVersion]
      BY <1>1
    <2> QED
      BY <1>1, <2>1, <2>2 DEF IInv, TypeOK, PC, Separate
  <1>3. hashMap' = NoEntries'
    BY <1>1 DEF NoEntries
  <1>4. ASSUME NEW u \in Url PROVE UrlInv(u)'
    <2>1. \A v \in 1 .. MaxVersion : Md5(Body(u, v)) # NoHash
      BY Bodies, Sums
    <2>2. Entry(u)' = NoHash /\ site'[u] \in 1 .. MaxVersion /\ UrlInv(u)
      BY <1>1 DEF NoEntries, Entry, IInv, TypeOK
    <2> QED
      BY <1>1, <2>1, <2>2 DEF UrlInv, File, SavedEntry
  <1> QED
    BY <1>1, <1>2, <1>3, <1>4 DEF IInv

-----------------------------------------------------------------------------
(* Invariance *)

\* An empty cache directory describes everything it holds.
LEMMA InitIInv == Init => IInv
  <1> SUFFICES ASSUME Init PROVE IInv
    OBVIOUS
  <1> USE GuardAssumption
  <1>1. TypeOK
    <2>1. /\ file \in [Path -> Content]
          /\ hashMap \in [Path -> Hash]
          /\ json \in [Path -> Hash]
          /\ got \in [Worker -> Content \cup Hash]
      BY DEF Init, NoEntries, Content, Hash
    <2> QED
      BY <2>1 DEF Init, TypeOK, PC
  <1>2. Separate /\ hashMap = NoEntries
    BY DEF Init, Separate
  <1>3. ASSUME NEW u \in Url PROVE UrlInv(u)
    <2>1. \A v \in 1 .. MaxVersion : /\ Md5(Body(u, v)) # NoHash
                                     /\ Body(u, v) # None
      BY Bodies, Sums
    <2>2. /\ File(u) = None /\ Entry(u) = NoHash /\ SavedEntry(u) = NoHash
          /\ site[u] \in 1 .. MaxVersion
      BY DEF Init, NoEntries, File, Entry, SavedEntry
    <2> QED
      BY <2>1, <2>2 DEF UrlInv
  <1>4. \A w \in Worker, u \in Url : url[w] # u
    BY DEF Init
  <1> QED
    BY <1>1, <1>2, <1>3, <1>4 DEF IInv

\* No request, file operation, deployment, failure or end of a process breaks
\* IInv, as long as calls and site are orderly.
LEMMA NextIInv ==
  ASSUME Orderly, IInv, [Next]_vars
  PROVE  IInv'
  <1>1. CASE \E u \in Url : Deploy(u) \/ Rollback(u)
    BY <1>1, DeployStep DEF Rollback, Orderly
  <1>2. CASE \E w \in Worker, u \in Url : Call(w, u)
    BY <1>2, CallStep
  <1>3. CASE \E w \in Worker : Head(w) \/ Hit(w) \/ Miss(w)
    BY <1>3, HeadStep, HitStep, MissStep
  <1>4. CASE \E w \in Worker : Get(w) \/ Truncate(w) \/ Fill(w) \/ WriteFails(w)
    BY <1>4, GetStep, TruncateStep, FillStep, WriteFailsStep
  <1>5. CASE \E w \in Worker : Rehash(w) \/ Update(w) \/ GiveUp(w) \/ Return(w)
    BY <1>5, RehashStep, UpdateStep, EndStep
  <1>6. CASE StartFromJson \/ StartFromFiles \/ StartWithoutMap \/ ClearCache
    BY <1>6, StartFromJsonStep, StartFromFilesStep, ClearCacheStep
    DEF StartWithoutMap, Orderly
  <1>7. CASE Save \/ Saved \/ Exit \/ DieInStart
    BY <1>7, SaveStep, ExitStep, DieInStartStep
  <1>8. CASE UNCHANGED vars
    BY <1>8 DEF vars, IInv, TypeOK, Separate, UrlInv, WorkerInv, TagOf, File, Entry,
                SavedEntry
  <1> QED
    BY <1>1, <1>2, <1>3, <1>4, <1>5, <1>6, <1>7, <1>8 DEF Next

\* The inductive invariant holds in every reachable state.
THEOREM Invariance ==
  ASSUME Orderly
  PROVE  Spec => []IInv
  BY InitIInv, NextIInv, PTL DEF Spec

\* CacheGuardedHttpGet followed by CacheGuard.Get: the caller of an orderly crawl
\* reads a body that the server had since the call, whatever failed, was torn,
\* killed, saved at work or deployed before.
THEOREM FreshReads ==
  ASSUME Orderly
  PROVE  Spec => []FreshRead
  <1>1. ASSUME IInv PROVE FreshRead
    <2> SUFFICES ASSUME NEW w \in Worker, pc[w] = "done" PROVE Fresh(w)
      BY DEF FreshRead
    <2>1. PICK u \in Url : url[w] = u /\ WorkerInv(w, u)
      BY <1>1, Calling
    <2> QED
      BY <2>1 DEF WorkerInv, Fresh, MyPath, File
  <1> QED
    BY <1>1, Invariance, PTL

\* isFileCachedByHash: the file of a hit has the very hash of the ETag.
THEOREM HitsAreValidated ==
  ASSUME Orderly
  PROVE  Spec => HitIsValidated
  <1>1. ASSUME IInv, NEW w \in Worker, Hit(w)
        PROVE  got[w] = Md5(file[MyPath(w)])
    <2>1. PICK u \in Url : url[w] = u
      BY <1>1, Calling DEF Hit
    <2> QED
      BY <1>1, <2>1, HitIsFresh DEF File, MyPath
  <1>2. IInv /\ [Next]_vars =>
          [\A w \in Worker : Hit(w) /\ ~BeingWritten(MyPath(w)) =>
              got[w] = Md5(file[MyPath(w)])]_vars
    BY <1>1
  <1> QED
    BY <1>2, Invariance, PTL DEF Spec, HitIsValidated

-----------------------------------------------------------------------------
(* The refinement of Fetch *)

\* No answers before the first call.
LEMMA InitFetch == Init => F!Init
  BY DEF Init, F!Init, Result

\* A file that a guard names is written by nobody.
LEMMA NamedFiles ==
  ASSUME IInv, Orderly, NEW w \in Worker, pc[w] \notin {"idle", "done"},
         \A p \in Path \ {MyPath(w)} : file'[p] = file[p],
         NEW x \in Worker, pc[x] = "done"
  PROVE  file'[MyPath(x)] = file[MyPath(x)]
  <1>1. PICK u \in Url : url[w] = u /\ PathOf[u] \in Path
    BY Calling
  <1>2. PICK y \in Url : url[x] = y /\ PathOf[y] \in Path
    BY Calling
  <1>3. y # u
    BY <1>1, <1>2, GuardAssumption DEF IInv, Separate
  <1> QED
    BY <1>1, <1>2, <1>3 DEF Orderly, MyPath

\* A step within a call that brings no answer does not show.
LEMMA HiddenStep ==
  ASSUME IInv, Orderly, NEW w \in Worker, pc[w] \notin {"idle", "done"},
         NEW to \in PC \ {"idle", "done"},
         pc' = [pc EXCEPT ![w] = to],
         UNCHANGED <<site, url, since>>,
         \A p \in Path \ {MyPath(w)} : file'[p] = file[p]
  PROVE  UNCHANGED F!vars
  <1>1. \A x \in Worker : /\ pc'[x] = "done" <=> pc[x] = "done"
                          /\ pc[x] = "done" => file'[MyPath(x)] = file[MyPath(x)]
    BY NamedFiles DEF IInv, TypeOK
  <1>2. Result' = Result
    BY <1>1 DEF Result, MyPath
  <1> QED
    BY <1>2 DEF F!vars

\* A hit and an update are the answers: with a file that is fresh.
LEMMA AnswerStep ==
  ASSUME IInv, Orderly, IInv', NEW w \in Worker, pc[w] \in {"lookup", "update"},
         pc' = [pc EXCEPT ![w] = "done"],
         UNCHANGED <<site, url, since, file>>
  PROVE  F!Next
  <1>1. PICK u \in Url : url[w] = u
    BY Calling
  <1>2. pc'[w] = "done" /\ url'[w] = u /\ \A x \in Worker \ {w} : pc'[x] = pc[x]
    BY <1>1 DEF IInv, TypeOK
  <1>3. WorkerInv(w, u)'
    BY <1>2 DEF IInv
  <1>4. PICK v \in since[w] .. site[u] : file[PathOf[u]] = Body(u, v)
    BY <1>2, <1>3 DEF WorkerInv, File
  <1>5. Result[w] = None
    BY DEF Result
  <1>6. Result' = [Result EXCEPT ![w] = Body(u, v)]
    BY <1>1, <1>2, <1>4 DEF Result, MyPath
  <1>7. url[w] # NoUrl
    BY <1>1, GuardAssumption
  <1>8. F!Answer(w)
    BY <1>1, <1>4, <1>5, <1>6, <1>7 DEF F!Answer, Body, F!Body
  <1> QED
    BY <1>8 DEF F!Next

\* A call that ends takes its answer with it.
LEMMA LeaveEnds ==
  ASSUME IInv, Orderly, NEW w \in Worker, pc[w] # "idle", Leave(w),
         UNCHANGED site,
         file' = file \/ (pc[w] # "done"
                          /\ \A p \in Path \ {MyPath(w)} : file'[p] = file[p])
  PROVE  F!Next
  <1>1. /\ url' = [x \in Worker |-> IF x \in {w} THEN NoUrl ELSE url[x]]
        /\ since' = [x \in Worker |-> IF x \in {w} THEN 0 ELSE since[x]]
    BY DEF Leave, IInv, TypeOK
  <1>2. /\ pc'[w] = "idle"
        /\ \A x \in Worker \ {w} : pc'[x] = pc[x] /\ url'[x] = url[x]
    BY DEF Leave, IInv, TypeOK
  <1>3. \A x \in Worker \ {w} : pc[x] = "done" => file'[MyPath(x)] = file[MyPath(x)]
    BY NamedFiles
  <1>4. Result' = [x \in Worker |-> IF x \in {w} THEN None ELSE Result[x]]
    BY <1>2, <1>3 DEF Result, MyPath
  <1>5. F!End({w})
    BY <1>1, <1>4 DEF F!End
  <1> QED
    BY <1>5 DEF F!Next

\* A step that ends or starts no call, writes no file and deploys nothing.
LEMMA IdleStep ==
  ASSUME UNCHANGED <<site, url, since, pc>>,
         file' = file \/ \A w \in Worker : pc[w] = "idle"
  PROVE  UNCHANGED F!vars
  BY DEF F!vars, Result, MyPath

\* Every step of the cache is a step of a plain fetch, or does not show.
LEMMA NextFetch ==
  ASSUME Orderly, IInv, IInv', [Next]_vars
  PROVE  [F!Next]_F!vars
  <1>1. ASSUME NEW u \in Url, Deploy(u) PROVE F!Next
    <2>1. Result' = Result
      BY <1>1 DEF Deploy, disk, calls, Result, MyPath
    <2> QED
      BY <1>1, <2>1 DEF Deploy, calls, F!Deploy, F!Next
  <1>2. ASSUME NEW w \in Worker, NEW u \in Url, Call(w, u) PROVE F!Next
    <2>1. /\ url[w] = NoUrl
          /\ \A x \in Worker : pc'[x] = "done" <=> pc[x] = "done"
          /\ \A x \in Worker : pc[x] = "done" => url'[x] = url[x]
      BY <1>2 DEF Call, IInv, TypeOK
    <2>2. Result' = Result
      <3>1. file' = file
        BY <1>2 DEF Call, disk
      <3>2. \A x \in Worker : pc[x] = "done" => PathOf[url'[x]] = PathOf[url[x]]
        BY <2>1
      <3> QED
        BY <2>1, <3>1, <3>2 DEF Result, MyPath
    <2> QED
      BY <1>2, <2>1, <2>2 DEF Call, F!Request, F!Next
  <1>3. ASSUME NEW w \in Worker, Head(w) \/ Miss(w) \/ Get(w) \/ Rehash(w)
        PROVE  UNCHANGED F!vars
    <2>1. PICK to \in PC \ {"idle", "done"} : pc' = [pc EXCEPT ![w] = to]
      BY <1>3 DEF Head, Miss, Get, Rehash, Advance, PC
    <2>2. pc[w] \notin {"idle", "done"} /\ UNCHANGED <<site, url, since, file>>
      BY <1>3 DEF Head, Miss, Get, Rehash, Advance, disk
    <2> QED
      BY <2>1, <2>2, HiddenStep
  <1>4. ASSUME NEW w \in Worker, Truncate(w) \/ Fill(w) PROVE UNCHANGED F!vars
    <2>1. PICK to \in PC \ {"idle", "done"} : pc' = [pc EXCEPT ![w] = to]
      BY <1>4 DEF Truncate, Fill, Advance, PC
    <2>2. /\ pc[w] \notin {"idle", "done"}
          /\ UNCHANGED <<site, url, since>>
          /\ \A p \in Path \ {MyPath(w)} : file'[p] = file[p]
      BY <1>4 DEF Truncate, Fill, Advance, IInv, TypeOK
    <2> QED
      BY <2>1, <2>2, HiddenStep
  <1>5. ASSUME NEW w \in Worker, Hit(w) \/ Update(w) PROVE F!Next
    <2>1. /\ pc[w] \in {"lookup", "update"}
          /\ pc' = [pc EXCEPT ![w] = "done"]
          /\ UNCHANGED <<site, url, since, file>>
      BY <1>5 DEF Hit, Update, Advance, disk
    <2> QED
      BY <2>1, AnswerStep
  <1>6. ASSUME NEW w \in Worker, WriteFails(w) \/ GiveUp(w) \/ Return(w)
        PROVE  F!Next
    <2>1. /\ Leave(w)
          /\ UNCHANGED site
          /\ pc[w] # "idle"
      BY <1>6 DEF WriteFails, GiveUp, Return
    <2>2. \/ file' = file
          \/ pc[w] # "done" /\ \A p \in Path \ {MyPath(w)} : file'[p] = file[p]
      BY <1>6 DEF WriteFails, GiveUp, Return, disk, IInv, TypeOK
    <2> QED
      BY <2>1, <2>2, LeaveEnds
  <1>7. CASE \/ StartFromJson \/ StartFromFiles \/ ClearCache
             \/ Save \/ Saved \/ DieInStart
    <2>1. \/ file' = file
          \/ \A w \in Worker : pc[w] = "idle"
      BY <1>7 DEF StartFromJson, StartFromFiles, ClearCache, Save, Saved, DieInStart,
                  disk, IInv, TypeOK
    <2>2. UNCHANGED <<site, url, since, pc>>
      BY <1>7 DEF StartFromJson, StartFromFiles, ClearCache, Save, Saved, DieInStart,
                  calls
    <2> QED
      BY <2>1, <2>2, IdleStep
  <1>8. CASE Exit
    <2>1. /\ url' = [w \in Worker |-> IF w \in Worker THEN NoUrl ELSE url[w]]
          /\ since' = [w \in Worker |-> IF w \in Worker THEN 0 ELSE since[w]]
          /\ Result' = [w \in Worker |-> IF w \in Worker THEN None ELSE Result[w]]
          /\ UNCHANGED site
      BY <1>8 DEF Exit, Result
    <2>2. F!End(Worker)
      BY <2>1 DEF F!End
    <2> QED
      BY <2>2 DEF F!Next
  <1>9. CASE UNCHANGED vars
    BY <1>9, IdleStep DEF vars
  <1> QED
    BY <1>1, <1>2, <1>3, <1>4, <1>5, <1>6, <1>7, <1>8, <1>9
    DEF Next, Orderly, Rollback, StartWithoutMap

\* CacheGuardedHttpGet with CacheGuard.Get is a plain fetch to an orderly crawl:
\* neither the cache nor what happened to its files and hashes shows.
THEOREM CacheImplementsFetch ==
  ASSUME Orderly
  PROVE  Spec => ImplementsFetch
  BY InitFetch, NextFetch, Invariance, PTL DEF Spec, ImplementsFetch, F!Spec

-----------------------------------------------------------------------------
(* Types, whatever is allowed *)

\* TypeOK, and what a goroutine got is a content or a hash where it is used as one.
TypeInv ==
    /\ TypeOK
    /\ \A w \in Worker :
          /\ pc[w] \in {"truncate", "fill"} => got[w] \in Content
          /\ pc[w] = "update" => got[w] \in Hash

\* The types after a step within a call.
LEMMA AdvanceTyped ==
  ASSUME TypeInv, NEW w \in Worker, NEW from \in PC \ {"idle"},
         NEW to \in PC \ {"idle"}, NEW value \in Content \cup Hash,
         Advance(w, from, to, value),
         UNCHANGED <<site, json, jsonState, mode>>,
         file' \in [Path -> Content],
         hashMap' \in [Path -> Hash],
         to \in {"truncate", "fill"} => value \in Content,
         to = "update" => value \in Hash
  PROVE  TypeInv'
  <1>1. /\ TypeOK'
        /\ pc'[w] = to /\ got'[w] = value
        /\ \A x \in Worker \ {w} : pc'[x] = pc[x] /\ got'[x] = got[x]
    BY AdvanceType DEF TypeInv
  <1> QED
    BY <1>1 DEF TypeInv

\* The types after a step that leaves a call.
LEMMA LeaveTyped ==
  ASSUME TypeInv, NEW w \in Worker, Leave(w),
         UNCHANGED <<site, json, jsonState, mode, hashMap>>,
         file' \in [Path -> Content]
  PROVE  TypeInv'
  <1>1. /\ pc' \in [Worker -> PC]
        /\ url' \in [Worker -> Url \cup {NoUrl}]
        /\ since' \in [Worker -> 0 .. MaxVersion]
        /\ got' \in [Worker -> Content \cup Hash]
    BY GuardAssumption DEF TypeInv, TypeOK, Leave, PC, Hash
  <1>2. /\ pc'[w] = "idle" /\ url'[w] = NoUrl
        /\ \A x \in Worker \ {w} : pc'[x] = pc[x] /\ url'[x] = url[x] /\ got'[x] = got[x]
    BY DEF TypeInv, TypeOK, Leave
  <1>3. \A x \in Worker : /\ pc'[x] = "idle" <=> url'[x] = NoUrl
                          /\ mode' = "down" => pc'[x] = "idle"
    BY <1>2 DEF TypeInv, TypeOK
  <1>4. TypeOK'
    BY <1>1, <1>3 DEF TypeInv, TypeOK
  <1> QED
    BY <1>2, <1>4 DEF TypeInv

\* The file of a goroutine inside a call is a file of the cache.
LEMMA MyFile ==
  ASSUME TypeOK, NEW w \in Worker, pc[w] # "idle"
  PROVE  /\ url[w] \in Url
         /\ MyPath(w) \in Path
         /\ site[url[w]] \in 1 .. MaxVersion
         /\ mode # "down"
  BY GuardAssumption DEF TypeOK, MyPath

\* Every step of a call, of the server and of the process keeps the types.
LEMMA TypeStep ==
  ASSUME TypeInv, [Next]_vars
  PROVE  TypeInv'
  <1> USE GuardAssumption
  <1>0. TypeOK /\ NoHash \in Hash
    BY DEF TypeInv, Hash
  <1>1. ASSUME NEW u \in Url, Deploy(u) \/ Rollback(u) PROVE TypeInv'
    <2>1. site' \in [Url -> 1 .. MaxVersion]
      <3>1. site[u] \in 1 .. MaxVersion
        BY <1>0 DEF TypeOK
      <3>2. CASE Deploy(u)
        <4>1. site[u] + 1 \in 1 .. MaxVersion /\ site' = [site EXCEPT ![u] = site[u] + 1]
          BY <3>1, <3>2 DEF Deploy
        <4> QED
          BY <1>0, <4>1 DEF TypeOK
      <3>3. CASE Rollback(u)
        <4>1. site[u] - 1 \in 1 .. MaxVersion /\ site' = [site EXCEPT ![u] = site[u] - 1]
          BY <3>1, <3>3 DEF Rollback
        <4> QED
          BY <1>0, <4>1 DEF TypeOK
      <3> QED
        BY <1>1, <3>2, <3>3
    <2>2. UNCHANGED <<file, json, jsonState, hashMap, mode, pc, url, since, got>>
      BY <1>1 DEF Deploy, Rollback, disk, process, calls
    <2> QED
      BY <1>0, <2>1, <2>2 DEF TypeInv, TypeOK
  <1>2. ASSUME NEW w \in Worker, NEW u \in Url, Call(w, u) PROVE TypeInv'
    <2>1. /\ mode # "down"
          /\ pc' = [pc EXCEPT ![w] = "head"]
          /\ url' = [url EXCEPT ![w] = u]
          /\ since' = [since EXCEPT ![w] = site[u]]
          /\ UNCHANGED <<site, file, json, jsonState, hashMap, mode, got>>
      BY <1>2 DEF Call, disk, process
    <2>2. /\ pc' \in [Worker -> PC]
          /\ url' \in [Worker -> Url \cup {NoUrl}]
          /\ since' \in [Worker -> 0 .. MaxVersion]
      BY <1>0, <2>1 DEF TypeOK, PC
    <2>3. /\ pc'[w] = "head" /\ url'[w] = u
          /\ \A x \in Worker \ {w} : pc'[x] = pc[x] /\ url'[x] = url[x]
      BY <1>0, <2>1 DEF TypeOK
    <2>4. \A x \in Worker : /\ pc'[x] = "idle" <=> url'[x] = NoUrl
                            /\ mode' = "down" => pc'[x] = "idle"
      BY <1>0, <2>1, <2>3 DEF TypeOK
    <2>5. TypeOK'
      BY <1>0, <2>1, <2>2, <2>4 DEF TypeOK
    <2> QED
      BY <2>1, <2>3, <2>5 DEF TypeInv
  <1>3. ASSUME NEW w \in Worker, Head(w) PROVE TypeInv'
    <2>1. PICK tag \in ETags(url[w]) : Advance(w, "head", "lookup", tag)
      BY <1>3 DEF Head
    <2>2. url[w] \in Url /\ site[url[w]] \in 1 .. MaxVersion
      BY <1>0, <2>1, MyFile DEF Advance
    <2>3. tag \in Content \cup Hash
      <3>1. Md5(Body(url[w], site[url[w]])) \in Hash
        BY <2>2, Bodies, Sums
      <3>2. tag \in {NoHash, Md5(Body(url[w], site[url[w]]))}
        BY <2>1 DEF ETags
      <3> QED
        BY <1>0, <3>1, <3>2
    <2>4. UNCHANGED <<site, file, json, jsonState, hashMap, mode>>
      BY <1>3 DEF Head, disk, process
    <2> QED
      BY <1>0, <2>1, <2>3, <2>4, AdvanceTyped DEF TypeOK, PC
  <1>4. ASSUME NEW w \in Worker, Hit(w) \/ Miss(w) PROVE TypeInv'
    <2>1. /\ Advance(w, "lookup", "done", NoHash) \/ Advance(w, "lookup", "get", NoHash)
          /\ UNCHANGED <<site, file, json, jsonState, hashMap, mode>>
      BY <1>4 DEF Hit, Miss, disk, process
    <2> QED
      BY <1>0, <2>1, AdvanceTyped DEF TypeOK, PC
  <1>5. ASSUME NEW w \in Worker, Get(w) PROVE TypeInv'
    <2>1. /\ Advance(w, "get", "truncate", Body(url[w], site[url[w]]))
          /\ UNCHANGED <<site, file, json, jsonState, hashMap, mode>>
      BY <1>5 DEF Get, disk, process
    <2>2. url[w] \in Url /\ site[url[w]] \in 1 .. MaxVersion
      BY <1>0, <2>1, MyFile DEF Advance
    <2>3. Body(url[w], site[url[w]]) \in Content
      BY <2>2, Bodies
    <2> QED
      BY <1>0, <2>1, <2>3, AdvanceTyped DEF TypeOK, PC
  <1>6. ASSUME NEW w \in Worker, Truncate(w) PROVE TypeInv'
    <2>1. /\ Advance(w, "truncate", "fill", got[w])
          /\ pc[w] = "truncate"
          /\ file' = [file EXCEPT ![MyPath(w)] = Empty]
          /\ UNCHANGED <<site, json, jsonState, hashMap, mode>>
      BY <1>6 DEF Truncate, Advance, process
    <2>2. got[w] \in Content
      BY <2>1 DEF TypeInv
    <2>3. file' \in [Path -> Content]
      BY <1>0, <2>1 DEF TypeOK, Content
    <2> QED
      BY <1>0, <2>1, <2>2, <2>3, AdvanceTyped DEF TypeOK, PC
  <1>7. ASSUME NEW w \in Worker, Fill(w) PROVE TypeInv'
    <2>1. /\ Advance(w, "fill", "rehash", NoHash)
          /\ pc[w] = "fill"
          /\ UNCHANGED <<site, json, jsonState, hashMap, mode>>
      BY <1>7 DEF Fill, Advance, process
    <2>2. got[w] \in Content
      BY <2>1 DEF TypeInv
    <2>3. PICK c \in Filled(file[MyPath(w)], got[w]) : file' = [file EXCEPT ![MyPath(w)] = c]
      BY <1>7 DEF Fill
    <2>4. c \in Content
      BY <2>2, <2>3 DEF Filled, Content
    <2>5. file' \in [Path -> Content]
      BY <1>0, <2>3, <2>4 DEF TypeOK
    <2> QED
      BY <1>0, <2>1, <2>5, AdvanceTyped DEF TypeOK, PC
  <1>8. ASSUME NEW w \in Worker, Rehash(w) PROVE TypeInv'
    <2>1. /\ Advance(w, "rehash", "update", Md5(file[MyPath(w)]))
          /\ UNCHANGED <<site, file, json, jsonState, hashMap, mode>>
      BY <1>8 DEF Rehash, disk, process
    <2>2. MyPath(w) \in Path
      BY <1>0, <2>1, MyFile DEF Advance
    <2>3. Md5(file[MyPath(w)]) \in Hash
      BY <1>0, <2>2, Sums DEF TypeOK
    <2> QED
      BY <1>0, <2>1, <2>3, AdvanceTyped DEF TypeOK, PC
  <1>9. ASSUME NEW w \in Worker, Update(w) PROVE TypeInv'
    <2>1. /\ Advance(w, "update", "done", NoHash)
          /\ pc[w] = "update"
          /\ hashMap' = [hashMap EXCEPT ![MyPath(w)] = got[w]]
          /\ UNCHANGED <<site, file, json, jsonState, mode>>
      BY <1>9 DEF Update, Advance, disk
    <2>2. hashMap' \in [Path -> Hash]
      BY <1>0, <2>1 DEF TypeInv, TypeOK
    <2> QED
      BY <1>0, <2>1, <2>2, AdvanceTyped DEF TypeOK, PC
  <1>10. ASSUME NEW w \in Worker, WriteFails(w) \/ GiveUp(w) \/ Return(w) PROVE TypeInv'
    <2>1. /\ Leave(w)
          /\ UNCHANGED <<site, json, jsonState, hashMap, mode>>
          /\ file' \in {file, [file EXCEPT ![MyPath(w)] = Torn]}
      BY <1>10 DEF WriteFails, GiveUp, Return, disk, process
    <2>2. file' \in [Path -> Content]
      BY <1>0, <2>1 DEF TypeOK, Content
    <2> QED
      BY <2>1, <2>2, LeaveTyped
  <1>11. CASE StartFromJson \/ StartFromFiles \/ StartWithoutMap \/ ClearCache \/ DieInStart
    <2>1. /\ mode = "down" /\ mode' \in {"up", "down"}
          /\ jsonState' \in {"absent", "partial", "whole"}
          /\ UNCHANGED <<site, pc, url, since, got>>
      BY <1>0, <1>11 DEF StartFromJson, StartFromFiles, StartWithoutMap, ClearCache,
                         DieInStart, disk, process, calls, TypeOK
    <2>2. /\ file' \in {file, [p \in Path |-> None]}
          /\ hashMap' \in {hashMap, json, HashesOfFiles, NoEntries}
          /\ json' \in {json, HashesOfFiles, NoEntries}
      BY <1>11 DEF StartFromJson, StartFromFiles, StartWithoutMap, ClearCache,
                   DieInStart, disk, process
    <2>3. HashesOfFiles \in [Path -> Hash] /\ NoEntries \in [Path -> Hash]
      BY <1>0, Sums DEF TypeOK, HashesOfFiles, NoEntries
    <2>4. [p \in Path |-> None] \in [Path -> Content]
      BY DEF Content
    <2>5. /\ file' \in [Path -> Content]
          /\ hashMap' \in [Path -> Hash]
          /\ json' \in [Path -> Hash]
      BY <1>0, <2>2, <2>3, <2>4 DEF TypeOK
    <2>6. \A w \in Worker : pc[w] = "idle" /\ url[w] = NoUrl
      BY <1>0, <2>1 DEF TypeOK
    <2> QED
      BY <1>0, <2>1, <2>5, <2>6 DEF TypeInv, TypeOK
  <1>12. CASE Save \/ Saved
    <2>1. /\ mode # "down" /\ mode' \in {"saving", "saved"}
          /\ jsonState' \in {"partial", "whole"}
          /\ json' \in {json, hashMap}
          /\ UNCHANGED <<site, file, hashMap, pc, url, since, got>>
      BY <1>12 DEF Save, Saved, calls
    <2> QED
      BY <1>0, <2>1 DEF TypeInv, TypeOK
  <1>13. CASE Exit
    <2>1. /\ mode' = "down"
          /\ hashMap' = NoEntries
          /\ pc' = [w \in Worker |-> "idle"]
          /\ url' = [w \in Worker |-> NoUrl]
          /\ since' = [w \in Worker |-> 0]
          /\ got' = [w \in Worker |-> NoHash]
          /\ UNCHANGED <<site, file, json, jsonState>>
      BY <1>13 DEF Exit, disk
    <2>2. hashMap' \in [Path -> Hash] /\ got' \in [Worker -> Content \cup Hash]
      BY <1>0, <2>1 DEF NoEntries
    <2>3. since' \in [Worker -> 0 .. MaxVersion]
      BY <2>1
    <2> QED
      BY <1>0, <2>1, <2>2, <2>3 DEF TypeInv, TypeOK, PC
  <1>14. CASE UNCHANGED vars
    BY <1>14 DEF vars, TypeInv, TypeOK
  <1> QED
    BY <1>1, <1>2, <1>3, <1>4, <1>5, <1>6, <1>7, <1>8, <1>9, <1>10, <1>11, <1>12, <1>13, <1>14
    DEF Next

\* Nothing has been got at the start.
LEMMA InitTyped == Init => TypeInv
  <1> SUFFICES ASSUME Init PROVE TypeInv
    OBVIOUS
  <1>1. /\ file \in [Path -> Content]
        /\ hashMap \in [Path -> Hash]
        /\ json \in [Path -> Hash]
        /\ got \in [Worker -> Content \cup Hash]
    BY DEF Init, NoEntries, Content, Hash
  <1>2. site \in [Url -> 1 .. MaxVersion] /\ since \in [Worker -> 0 .. MaxVersion]
    BY GuardAssumption DEF Init
  <1> QED
    BY <1>1, <1>2 DEF Init, TypeInv, TypeOK, PC

\* Types; a goroutine has a URL exactly within a call, and no call outlives its
\* process, whatever is allowed to happen.
THEOREM TypeCorrect == Spec => []TypeOK
  <1>1. TypeInv => TypeOK
    BY DEF TypeInv
  <1> QED
    BY <1>1, InitTyped, TypeStep, PTL DEF Spec

-----------------------------------------------------------------------------
(* Processes that always close, on a site that may go back *)

\* URLs have files of their own, no URL is requested again while a call for it runs,
\* nothing fails, and every process ends through a Close that finds no call running.
\* That is how pages and assets are fetched, but not source maps, which several
\* files may share and several goroutines then request.
Closed ==
    /\ \A u, x \in Url : PathOf[u] = PathOf[x] => u = x
    /\ \A e \in {"give up", "failed write", "crash", "busy close", "duplicates"} :
          e \notin Allowed

\* Entry h[p] is the hash of file p, if there is one.
Describes(h, p) == h[p] \in {NoHash, Md5(file[p])}

\* Every entry describes its file, except while the file is being written; hashes.json
\* does too, except while a process is up.
ClosedInv ==
    /\ TypeInv
    /\ Separate
    /\ mode # "up" => \A w \in Worker : pc[w] = "idle"
    /\ mode # "down" => \A p \in Path : BeingWritten(p) \/ Describes(hashMap, p)
    /\ mode \in {"down", "saved"} /\ jsonState = "whole" =>
          \A p \in Path : Describes(json, p)
    /\ \A w \in Worker : pc[w] = "update" => got[w] = Md5(file[MyPath(w)])

\* While nobody works, every entry describes its file.
LEMMA AtRest ==
  ASSUME ClosedInv, mode # "down", Settled
  PROVE  \A p \in Path : Describes(hashMap, p)
  BY DEF ClosedInv, BeingWritten, Settled

\* A step of goroutine w inside its call needs to be looked at for the file q of its
\* URL only.
LEMMA ClosedWorkerStep ==
  ASSUME ClosedInv, Closed, TypeInv', NEW w \in Worker, pc[w] # "idle",
         NEW q, q = MyPath(w),
         mode' = mode,
         url'[w] \in {url[w], NoUrl},
         \A x \in Worker \ {w} : /\ pc'[x] = pc[x] /\ url'[x] = url[x]
                                 /\ got'[x] = got[x],
         \A p \in Path \ {q} : file'[p] = file[p] /\ hashMap'[p] = hashMap[p],
         \/ pc'[w] \in {"fill", "rehash", "update"}
         \/ hashMap'[q] \in {NoHash, Md5(file'[q])},
         pc'[w] = "update" => got'[w] = Md5(file'[q])
  PROVE  ClosedInv'
  <1>0. TypeOK
    BY DEF ClosedInv, TypeInv
  <1>1. mode = "up" /\ url[w] \in Url /\ q \in Path
    BY <1>0, MyFile DEF ClosedInv
  <1>2. ASSUME NEW x \in Worker \ {w}, pc[x] # "idle"
        PROVE  MyPath(x) \in Path \ {q} /\ MyPath(x)' = MyPath(x)
    <2>1. url[x] \in Url /\ MyPath(x) \in Path
      BY <1>0, <1>2, MyFile
    <2>2. url[x] # url[w]
      BY <1>1, <2>1, GuardAssumption DEF ClosedInv, Separate
    <2> QED
      BY <1>1, <2>1, <2>2 DEF Closed, MyPath
  <1>3. pc'[w] # "idle" => MyPath(w)' = q
    BY <1>1, GuardAssumption DEF TypeInv, TypeOK, MyPath
  <1>4. Separate'
    BY DEF ClosedInv, Separate
  <1>5. ASSUME NEW p \in Path PROVE (BeingWritten(p) \/ Describes(hashMap, p))'
    <2>1. CASE p = q
      BY <1>3, <2>1 DEF BeingWritten, Describes
    <2>2. CASE p # q
      <3>1. BeingWritten(p) => BeingWritten(p)'
        BY <1>2, <2>2 DEF BeingWritten
      <3>2. Describes(hashMap, p) => Describes(hashMap, p)'
        BY <2>2 DEF Describes
      <3> QED
        BY <1>1, <3>1, <3>2 DEF ClosedInv
    <2> QED
      BY <2>1, <2>2
  <1>6. ASSUME NEW x \in Worker, pc'[x] = "update"
        PROVE  got'[x] = Md5(file'[MyPath(x)'])
    <2>1. CASE x = w
      BY <1>3, <1>6, <2>1
    <2>2. CASE x # w
      <3>1. /\ pc[x] = "update" /\ got'[x] = got[x]
            /\ MyPath(x) \in Path \ {q} /\ MyPath(x)' = MyPath(x)
        BY <1>2, <1>6, <2>2
      <3> QED
        BY <3>1 DEF ClosedInv
    <2> QED
      BY <2>1, <2>2
  <1> QED
    BY <1>1, <1>4, <1>5, <1>6 DEF ClosedInv

\* Outside os.WriteFile and the update of the map, the file of a call is nobody's to
\* write, so that its entry describes it.
LEMMA OwnEntry ==
  ASSUME ClosedInv, Closed, NEW w \in Worker,
         pc[w] \notin {"idle", "fill", "rehash", "update"}
  PROVE  Describes(hashMap, MyPath(w))
  <1>0. TypeOK
    BY DEF ClosedInv, TypeInv
  <1>1. url[w] \in Url /\ MyPath(w) \in Path /\ mode # "down"
    BY <1>0, MyFile
  <1>2. ~BeingWritten(MyPath(w))
    <2> SUFFICES ASSUME NEW x \in Worker, pc[x] \in {"fill", "rehash", "update"},
                        MyPath(x) = MyPath(w)
                 PROVE  FALSE
      BY DEF BeingWritten
    <2>1. url[x] \in Url
      BY <1>0, MyFile
    <2>2. url[x] = url[w]
      BY <1>1, <2>1 DEF Closed, MyPath
    <2> QED
      BY <1>1, <2>2, GuardAssumption DEF ClosedInv, Separate
  <1> QED
    BY <1>1, <1>2 DEF ClosedInv

\* The steps of a call.
LEMMA ClosedCallStep ==
  ASSUME ClosedInv, Closed, TypeInv', NEW w \in Worker,
         \/ Head(w) \/ Hit(w) \/ Miss(w) \/ Get(w) \/ Truncate(w) \/ Fill(w)
         \/ Rehash(w) \/ Update(w) \/ Return(w)
  PROVE  ClosedInv'
  <1> DEFINE q == MyPath(w)
  <1>0. TypeOK
    BY DEF ClosedInv, TypeInv
  <1>1. CASE Head(w) \/ Hit(w) \/ Miss(w) \/ Get(w)
    <2>1. PICK from, to, value :
             /\ Advance(w, from, to, value)
             /\ from \notin {"idle", "fill", "rehash", "update"}
             /\ to # "update"
      BY <1>1 DEF Head, Hit, Miss, Get
    <2>2. UNCHANGED <<site, file, json, jsonState, hashMap, mode, url>>
      BY <1>1, <2>1 DEF Head, Hit, Miss, Get, Advance, disk, process
    <2>3. Describes(hashMap, q) /\ pc[w] # "idle"
      BY <2>1, OwnEntry DEF Advance
    <2>4. /\ pc'[w] = to
          /\ \A x \in Worker \ {w} : pc'[x] = pc[x] /\ got'[x] = got[x]
      BY <1>0, <2>1 DEF Advance, TypeOK
    <2> HIDE DEF q
    <2> QED
      BY <2>1, <2>2, <2>3, <2>4, ClosedWorkerStep DEF Describes, q
  <1>2. CASE Truncate(w) \/ Fill(w)
    <2>1. PICK to, value, c :
             /\ to \in {"fill", "rehash"}
             /\ Advance(w, pc[w], to, value)
             /\ pc[w] \in {"truncate", "fill"}
             /\ file' = [file EXCEPT ![q] = c]
      BY <1>2 DEF Truncate, Fill, Advance
    <2>2. UNCHANGED <<site, json, jsonState, hashMap, mode, url>>
      BY <1>2 DEF Truncate, Fill, Advance, process
    <2>3. /\ pc'[w] = to
          /\ \A x \in Worker \ {w} : pc'[x] = pc[x] /\ got'[x] = got[x]
      BY <1>0, <2>1 DEF Advance, TypeOK
    <2>4. \A p \in Path \ {q} : file'[p] = file[p]
      BY <1>0, <2>1 DEF TypeOK
    <2> HIDE DEF q
    <2> QED
      BY <2>1, <2>2, <2>3, <2>4, ClosedWorkerStep DEF q
  <1>3. CASE Rehash(w)
    <2>1. /\ Advance(w, "rehash", "update", Md5(file[q]))
          /\ UNCHANGED <<site, file, json, jsonState, hashMap, mode, url>>
          /\ pc[w] # "idle"
      BY <1>3 DEF Rehash, Advance, disk, process
    <2>2. /\ pc'[w] = "update" /\ got'[w] = Md5(file[q])
          /\ \A x \in Worker \ {w} : pc'[x] = pc[x] /\ got'[x] = got[x]
      BY <1>0, <2>1 DEF Advance, TypeOK
    <2> HIDE DEF q
    <2> QED
      BY <2>1, <2>2, ClosedWorkerStep DEF q
  <1>4. CASE Update(w)
    <2>1. /\ Advance(w, "update", "done", NoHash)
          /\ pc[w] = "update"
          /\ hashMap' = [hashMap EXCEPT ![q] = got[w]]
          /\ UNCHANGED <<site, file, json, jsonState, mode, url>>
      BY <1>4 DEF Update, Advance, disk
    <2>2. q \in Path /\ got[w] = Md5(file[q])
      BY <1>0, <2>1, MyFile DEF ClosedInv
    <2>3. /\ pc'[w] = "done"
          /\ \A x \in Worker \ {w} : pc'[x] = pc[x] /\ got'[x] = got[x]
      BY <1>0, <2>1 DEF Advance, TypeOK
    <2>4. /\ hashMap'[q] = Md5(file'[q])
          /\ \A p \in Path \ {q} : hashMap'[p] = hashMap[p]
      BY <1>0, <2>1, <2>2 DEF TypeOK
    <2> HIDE DEF q
    <2> QED
      BY <2>1, <2>3, <2>4, ClosedWorkerStep DEF q
  <1>5. CASE Return(w)
    <2>1. /\ pc[w] = "done"
          /\ Leave(w)
          /\ UNCHANGED <<site, file, json, jsonState, hashMap, mode>>
      BY <1>5 DEF Return, disk, process
    <2>2. Describes(hashMap, q)
      BY <2>1, OwnEntry
    <2>3. /\ pc'[w] = "idle" /\ url'[w] = NoUrl
          /\ \A x \in Worker \ {w} : pc'[x] = pc[x] /\ url'[x] = url[x] /\ got'[x] = got[x]
      BY <1>0, <2>1 DEF Leave, TypeOK
    <2> HIDE DEF q
    <2> QED
      BY <2>1, <2>2, <2>3, ClosedWorkerStep DEF Describes, q
  <1> QED
    BY <1>1, <1>2, <1>3, <1>4, <1>5

\* A call begins; the site changes.
LEMMA ClosedQuietStep ==
  ASSUME ClosedInv, Closed, TypeInv',
         \/ \E w \in Worker, u \in Url : Call(w, u)
         \/ \E u \in Url : Deploy(u) \/ Rollback(u)
         \/ UNCHANGED vars
  PROVE  ClosedInv'
  <1>1. CASE \E w \in Worker, u \in Url : Call(w, u)
    <2>1. PICK w \in Worker, u \in Url : Call(w, u)
      BY <1>1
    <2>2. /\ mode = "up" /\ pc[w] = "idle"
          /\ \A x \in Worker : url[x] # u
          /\ UNCHANGED <<file, json, jsonState, hashMap, mode, got>>
      BY <2>1 DEF Call, Closed, disk, process
    <2>3. /\ pc'[w] = "head" /\ url'[w] = u
          /\ \A x \in Worker \ {w} : pc'[x] = pc[x] /\ url'[x] = url[x]
      BY <2>1 DEF Call, ClosedInv, TypeInv, TypeOK
    <2>4. Separate'
      BY <2>2, <2>3 DEF ClosedInv, Separate
    <2>5. \A p : BeingWritten(p) => BeingWritten(p)'
      BY <2>2, <2>3 DEF BeingWritten, MyPath
    <2>6. \A x \in Worker : pc'[x] = "update" => got'[x] = Md5(file'[MyPath(x)'])
      BY <2>2, <2>3 DEF ClosedInv, MyPath
    <2> QED
      BY <2>2, <2>4, <2>5, <2>6 DEF ClosedInv, Describes
  <1>2. CASE UNCHANGED <<file, json, jsonState, hashMap, mode, pc, url, since, got>>
    BY <1>2 DEF ClosedInv, Separate, BeingWritten, Describes, MyPath
  <1> QED
    BY <1>1, <1>2 DEF Deploy, Rollback, disk, process, calls, vars

\* Starts, and the save and the end of a process at rest.
LEMMA ClosedProcessStep ==
  ASSUME ClosedInv, Closed, TypeInv',
         \/ StartFromJson \/ StartFromFiles \/ StartWithoutMap \/ ClearCache
         \/ Save \/ Saved \/ Exit
  PROVE  ClosedInv'
  <1>0. TypeOK
    BY DEF ClosedInv, TypeInv
  <1>1. CASE Exit
    <2>1. /\ mode = "saved" /\ mode' = "down"
          /\ pc' = [w \in Worker |-> "idle"]
          /\ url' = [w \in Worker |-> NoUrl]
          /\ UNCHANGED <<file, json, jsonState>>
      BY <1>1 DEF Exit, Closed, disk
    <2> QED
      BY <2>1 DEF ClosedInv, Separate, Describes
  <1>2. CASE \/ StartFromJson \/ StartFromFiles \/ StartWithoutMap \/ ClearCache
             \/ Save \/ Saved
    <2>1. UNCHANGED <<pc, url, since, got>>
      BY <1>2 DEF StartFromJson, StartFromFiles, StartWithoutMap, ClearCache, Save,
                  Saved, calls
    <2>2. \A w \in Worker : pc[w] = "idle"
      <3>1. mode # "up" \/ Save
        BY <1>2 DEF StartFromJson, StartFromFiles, StartWithoutMap, ClearCache, Saved
      <3> QED
        BY <3>1 DEF ClosedInv, Save, Closed
    <2>3. Separate'
      BY <2>1 DEF ClosedInv, Separate
    <2>4. \A p \in Path : Describes(hashMap, p)'
      <3>1. ASSUME NEW p \in Path, mode # "down" PROVE Describes(hashMap, p)
        BY <2>2, <3>1, AtRest DEF Settled
      <3>2. CASE StartFromJson
        BY <3>2 DEF StartFromJson, disk, ClosedInv, Describes
      <3>3. CASE StartFromFiles
        BY <3>3 DEF StartFromFiles, HashesOfFiles, Describes
      <3>4. CASE StartWithoutMap \/ ClearCache
        BY <3>4 DEF StartWithoutMap, ClearCache, NoEntries, Describes
      <3>5. CASE Save \/ Saved
        BY <3>1, <3>5 DEF Save, Saved, Describes
      <3> QED
        BY <1>2, <3>2, <3>3, <3>4, <3>5
    <2>5. mode' \in {"up", "saving", "saved"} /\ (mode' = "saved" => json' = hashMap')
      BY <1>2 DEF StartFromJson, StartFromFiles, StartWithoutMap, ClearCache, Save, Saved
    <2> QED
      BY <2>1, <2>2, <2>3, <2>4, <2>5 DEF ClosedInv, Describes
  <1> QED
    BY <1>1, <1>2

\* No step breaks ClosedInv, as long as processes are closed.
LEMMA ClosedStep ==
  ASSUME Closed, ClosedInv, [Next]_vars
  PROVE  ClosedInv'
  <1>1. TypeInv'
    BY TypeStep DEF ClosedInv
  <1>2. CASE \E w \in Worker, u \in Url : Call(w, u)
    BY <1>1, <1>2, ClosedQuietStep
  <1>3. CASE (\E u \in Url : Deploy(u) \/ Rollback(u)) \/ UNCHANGED vars
    BY <1>1, <1>3, ClosedQuietStep
  <1>4. CASE \E w \in Worker : \/ Head(w) \/ Hit(w) \/ Miss(w) \/ Get(w) \/ Truncate(w)
                               \/ Fill(w) \/ Rehash(w) \/ Update(w) \/ Return(w)
    BY <1>1, <1>4, ClosedCallStep
  <1>5. CASE \/ StartFromJson \/ StartFromFiles \/ StartWithoutMap \/ ClearCache
             \/ Save \/ Saved \/ Exit
    BY <1>1, <1>5, ClosedProcessStep
  <1>6. ~DieInStart /\ \A w \in Worker : ~GiveUp(w) /\ ~WriteFails(w)
    BY DEF Closed, DieInStart, GiveUp, WriteFails
  <1> QED
    BY <1>2, <1>3, <1>4, <1>5, <1>6 DEF Next

\* No files, no entries.
LEMMA InitClosed == Init => ClosedInv
  BY InitTyped DEF Init, ClosedInv, Separate, NoEntries, Describes

\* The invariant of closed processes holds in every reachable state.
LEMMA ClosedInvariance ==
  ASSUME Closed
  PROVE  Spec => []ClosedInv
  BY InitClosed, ClosedStep, PTL DEF Spec

\* writeFileAndUpdateHashMap: between calls every entry of the map is the hash of the
\* file it is for, from run to run, whatever the site serves when and whether or not a
\* start loads the map, if nothing fails, processes are closed, URLs have files of
\* their own and none is requested again while a call for it runs.  (Of two such calls
\* the one that hashed the other's truncated file may update the entry last.)
THEOREM EntriesDescribe ==
  ASSUME Closed
  PROVE  Spec => []EntriesDescribeFiles
  <1>1. ClosedInv => EntriesDescribeFiles
    BY AtRest DEF EntriesDescribeFiles, Describes
  <1> QED
    BY <1>1, ClosedInvariance, PTL

\* isFileCachedByHash under the same conditions, duplicate requests excluded, also for URLs of which some HEADs
\* bring no ETag: the file of a hit has the hash that the ETag names.
THEOREM ClosedHitsAreValidated ==
  ASSUME Closed
  PROVE  Spec => HitIsValidated
  <1>1. ASSUME ClosedInv, NEW w \in Worker, Hit(w)
        PROVE  got[w] = Md5(file[MyPath(w)])
    <2>1. Describes(hashMap, MyPath(w))
      BY <1>1, OwnEntry DEF Hit
    <2> QED
      BY <1>1, <2>1 DEF Hit, IsFileCachedByHash, Describes
  <1>2. ClosedInv /\ [Next]_vars =>
          [\A w \in Worker : Hit(w) /\ ~BeingWritten(MyPath(w)) =>
              got[w] = Md5(file[MyPath(w)])]_vars
    BY <1>1
  <1> QED
    BY <1>2, ClosedInvariance, PTL DEF Spec, HitIsValidated

-----------------------------------------------------------------------------
(* Duplicate calls, on a site that stands still *)

\* URLs have files of their own and one version, every HEAD of a tagged one brings
\* its ETag; no write fails and no process is saved while goroutines work.  A process
\* may be killed at any time and a URL may be requested any number of times at once.
Steady ==
    /\ \A u, x \in Url : PathOf[u] = PathOf[x] => u = x
    /\ MaxVersion = 1
    /\ \A e \in {"failed write", "busy close", "bare head", "no init"} : e \notin Allowed

TheBody(u) == Body(u, 1)

Filling(u) == \E w \in Worker : url[w] = u /\ pc[w] = "fill"

\* Once a goroutine has written the file of u, or the entry that the ETag matches is
\* there, the file is whole, except while yet another writes it anew.
FileInv(u) ==
    \/ \E w \in Worker : url[w] = u /\ pc[w] \in {"rehash", "update", "done"}
    \/ u \in Tagged /\ Entry(u) = Md5(TheBody(u))
    => File(u) = TheBody(u) \/ Filling(u)

\* If hashes.json has the hash that the ETag matches, nobody writes the file.
SavedInv(u) ==
    u \in Tagged /\ SavedEntry(u) = Md5(TheBody(u)) =>
        /\ File(u) = TheBody(u)
        /\ mode # "down" => Entry(u) = Md5(TheBody(u))
        /\ \A w \in Worker : url[w] = u => pc[w] \notin Writing

\* What a goroutine in a call for u got from the server.
GotInv(w, u) ==
    /\ pc[w] = "lookup" =>
          got[w] = IF u \in Tagged THEN Md5(TheBody(u)) ELSE NoHash
    /\ pc[w] \in {"truncate", "fill"} => got[w] = TheBody(u)
    /\ pc[w] = "fill" => File(u) \in {Empty, TheBody(u)}

SharedInv(u) ==
    /\ FileInv(u)
    /\ SavedInv(u)
    /\ \A w \in Worker : url[w] = u => GotInv(w, u)

SteadyInv ==
    /\ TypeInv
    /\ mode # "up" => \A w \in Worker : pc[w] = "idle"
    /\ \A u \in Url : SharedInv(u)

\* A step of goroutine w inside its call for u needs to be looked at for u only.
LEMMA SteadyWorkerStep ==
  ASSUME SteadyInv, Steady, TypeInv', NEW w \in Worker, NEW u \in Url, url[w] = u,
         UNCHANGED <<json, mode>>,
         url'[w] \in {u, NoUrl},
         \A x \in Worker \ {w} : /\ pc'[x] = pc[x] /\ url'[x] = url[x]
                                 /\ got'[x] = got[x],
         \A p \in Path \ {PathOf[u]} : file'[p] = file[p] /\ hashMap'[p] = hashMap[p],
         SharedInv(u)'
  PROVE  SteadyInv'
  <1>1. mode = "up"
    BY GuardAssumption DEF SteadyInv, TypeInv, TypeOK
  <1>2. ASSUME NEW y \in Url \ {u} PROVE SharedInv(y)'
    <2>1. /\ File(y)' = File(y)
          /\ Entry(y)' = Entry(y)
          /\ SavedEntry(y)' = SavedEntry(y)
      BY GuardAssumption DEF Steady, File, Entry, SavedEntry
    <2>2. \A x \in Worker : url[x] = y \/ url'[x] = y =>
             /\ x # w
             /\ url'[x] = url[x] /\ pc'[x] = pc[x] /\ got'[x] = got[x]
      BY GuardAssumption
    <2>3. FileInv(y) /\ SavedInv(y) /\ \A x \in Worker : url[x] = y => GotInv(x, y)
      BY DEF SteadyInv, SharedInv
    <2>4. Filling(y)' <=> Filling(y)
      BY <2>2 DEF Filling
    <2>5. FileInv(y)'
      BY <2>1, <2>2, <2>3, <2>4 DEF FileInv, TheBody
    <2>6. SavedInv(y)'
      BY <2>1, <2>2, <2>3 DEF SavedInv, TheBody
    <2>7. ASSUME NEW x \in Worker, url'[x] = y PROVE GotInv(x, y)'
      BY <2>1, <2>2, <2>3, <2>7 DEF GotInv, TheBody
    <2> QED
      BY <2>5, <2>6, <2>7 DEF SharedInv
  <1> QED
    BY <1>1, <1>2 DEF SteadyInv

\* There is one version.
LEMMA OneIsAll ==
  ASSUME Steady
  PROVE  1 .. MaxVersion = {1}
  <1>1. MaxVersion = 1
    BY DEF Steady
  <1> QED
    BY <1>1

\* What SteadyInv says of a goroutine that is inside a call.
LEMMA SteadyCalling ==
  ASSUME SteadyInv, Steady, NEW w \in Worker, pc[w] # "idle"
  PROVE  \E u \in Url : /\ url[w] = u
                        /\ mode = "up"
                        /\ FileInv(u) /\ SavedInv(u) /\ GotInv(w, u)
                        /\ PathOf[u] \in Path
                        /\ site[u] = 1
  <1>1. url[w] \in Url /\ MyPath(w) \in Path /\ site[url[w]] = 1
    BY MyFile, OneIsAll DEF SteadyInv, TypeInv
  <1>2. mode = "up" /\ SharedInv(url[w])
    BY <1>1 DEF SteadyInv
  <1> QED
    BY <1>1, <1>2 DEF SharedInv, MyPath

\* Body, markers and sums, for the one version.
LEMMA OneVersion ==
  ASSUME Steady, NEW u \in Url
  PROVE  /\ TheBody(u) \in Content \ {None, Empty, Torn}
         /\ Md5(TheBody(u)) # NoHash
  <1>1. 1 \in 1 .. MaxVersion
    BY OneIsAll
  <1> QED
    BY <1>1, Bodies, Sums DEF TheBody

\* The steps of a call that only read.
LEMMA SteadyReadStep ==
  ASSUME SteadyInv, Steady, TypeInv', NEW w \in Worker,
         Head(w) \/ Hit(w) \/ Miss(w) \/ Get(w) \/ Rehash(w)
  PROVE  SteadyInv'
  <1>0. TypeOK
    BY DEF SteadyInv, TypeInv
  <1>1. PICK u \in Url : /\ url[w] = u
                         /\ mode = "up"
                         /\ FileInv(u) /\ SavedInv(u) /\ GotInv(w, u)
                         /\ site[u] = 1
    BY SteadyCalling DEF Head, Hit, Miss, Get, Rehash, Advance
  <1>2. UNCHANGED <<file, json, hashMap, mode, url>>
    BY DEF Head, Hit, Miss, Get, Rehash, Advance, disk, process
  <1>3. PICK to, value : Advance(w, pc[w], to, value)
    BY DEF Head, Hit, Miss, Get, Rehash, Advance
  <1>4. \A x \in Worker \ {w} : pc'[x] = pc[x] /\ url'[x] = url[x] /\ got'[x] = got[x]
    BY <1>0, <1>2, <1>3 DEF Advance, TypeOK
  <1>5. /\ File(u)' = File(u) /\ Entry(u)' = Entry(u) /\ SavedEntry(u)' = SavedEntry(u)
        /\ TheBody(u)' = TheBody(u)
    BY <1>2 DEF File, Entry, SavedEntry, TheBody
  <1>6. pc[w] # "fill" /\ pc'[w] # "fill"
    BY <1>0 DEF Head, Hit, Miss, Get, Rehash, Advance, TypeOK
  <1>7. Filling(u)' <=> Filling(u)
    BY <1>2, <1>4, <1>6 DEF Filling
  <1>8. SUFFICES /\ pc'[w] \in {"rehash", "update", "done"} =>
                      File(u) = TheBody(u) \/ Filling(u)
                 /\ pc'[w] \in Writing => pc[w] \in Writing
                      \/ ~(u \in Tagged /\ SavedEntry(u) = Md5(TheBody(u)))
                 /\ GotInv(w, u)'
    <2>1. FileInv(u)'
      BY <1>1, <1>2, <1>4, <1>5, <1>7, <1>8 DEF FileInv
    <2>2. SavedInv(u)'
      BY <1>1, <1>2, <1>4, <1>5, <1>8 DEF SavedInv
    <2>3. ASSUME NEW x \in Worker, url'[x] = u PROVE GotInv(x, u)'
      <3>1. CASE x # w
        <4>1. GotInv(x, u)
          BY <1>2, <2>3 DEF SteadyInv, SharedInv
        <4> QED
          BY <1>4, <1>5, <3>1, <4>1 DEF GotInv
      <3> QED
        BY <1>8, <3>1
    <2>4. SharedInv(u)'
      BY <2>1, <2>2, <2>3 DEF SharedInv
    <2> QED
      BY <1>1, <1>2, <1>4, <2>4, SteadyWorkerStep
  <1>9. CASE Head(w)
    <2>1. got'[w] = IF u \in Tagged THEN Md5(TheBody(u)) ELSE NoHash
      BY <1>0, <1>1, <1>9 DEF Head, Advance, ETags, Steady, TheBody, TypeOK
    <2>2. pc'[w] = "lookup"
      BY <1>0, <1>9 DEF Head, Advance, TypeOK
    <2> QED
      BY <1>5, <2>1, <2>2 DEF GotInv, Writing
  <1>10. CASE Hit(w)
    <2>1. pc'[w] = "done" /\ pc[w] = "lookup" /\ Entry(u) # NoHash /\ Entry(u) = got[w]
      BY <1>0, <1>1, <1>10 DEF Hit, Advance, IsFileCachedByHash, MyPath, Entry, TypeOK
    <2>2. u \in Tagged /\ Entry(u) = Md5(TheBody(u))
      BY <1>1, <2>1 DEF GotInv
    <2> QED
      BY <1>1, <2>1, <2>2 DEF FileInv, GotInv, Writing
  <1>11. CASE Miss(w)
    <2>1. pc'[w] = "get" /\ pc[w] = "lookup" /\ (Entry(u) # NoHash => Entry(u) # got[w])
      BY <1>0, <1>1, <1>11 DEF Miss, Advance, IsFileCachedByHash, MyPath, Entry, TypeOK
    <2>2. u \in Tagged => Entry(u) # Md5(TheBody(u))
      BY <1>1, <2>1, OneVersion DEF GotInv
    <2> QED
      BY <1>1, <2>1, <2>2 DEF SavedInv, GotInv, Writing
  <1>12. CASE Get(w)
    <2>1. pc[w] = "get" /\ pc'[w] = "truncate" /\ got'[w] = TheBody(u)
      BY <1>0, <1>1, <1>12 DEF Get, Advance, TheBody, TypeOK
    <2> QED
      BY <1>5, <2>1 DEF GotInv, Writing
  <1>13. CASE Rehash(w)
    <2>1. pc[w] = "rehash" /\ pc'[w] = "update"
      BY <1>0, <1>13 DEF Rehash, Advance, TypeOK
    <2> QED
      BY <1>1, <2>1 DEF FileInv, GotInv, Writing
  <1> QED
    BY <1>9, <1>10, <1>11, <1>12, <1>13

\* The steps of a call that write: the file in two steps, and the map.
LEMMA SteadyWriteStep ==
  ASSUME SteadyInv, Steady, TypeInv', NEW w \in Worker,
         Truncate(w) \/ Fill(w) \/ Update(w)
  PROVE  SteadyInv'
  <1>0. TypeOK
    BY DEF SteadyInv, TypeInv
  <1>1. PICK u \in Url : /\ url[w] = u
                         /\ mode = "up"
                         /\ FileInv(u) /\ SavedInv(u) /\ GotInv(w, u)
                         /\ PathOf[u] \in Path
    BY SteadyCalling DEF Truncate, Fill, Update, Advance
  <1>2. UNCHANGED <<json, mode, url>>
    BY DEF Truncate, Fill, Update, Advance, disk, process
  <1>3. PICK to, value : Advance(w, pc[w], to, value) /\ pc[w] \in Writing
    BY DEF Truncate, Fill, Update, Advance, Writing
  <1>4. \A x \in Worker \ {w} : pc'[x] = pc[x] /\ url'[x] = url[x] /\ got'[x] = got[x]
    BY <1>0, <1>2, <1>3 DEF Advance, TypeOK
  <1>5. SavedEntry(u)' = SavedEntry(u) /\ TheBody(u)' = TheBody(u)
    BY <1>2 DEF SavedEntry, TheBody
  <1>6. ~(u \in Tagged /\ SavedEntry(u) = Md5(TheBody(u)))
    BY <1>1, <1>3 DEF SavedInv
  <1>7. SavedInv(u)'
    BY <1>5, <1>6 DEF SavedInv
  <1>8. \A x \in Worker : url[x] = u => GotInv(x, u)
    BY DEF SteadyInv, SharedInv
  <1>9. SUFFICES /\ FileInv(u)'
                 /\ \A x \in Worker : url[x] = u => GotInv(x, u)'
                 /\ \A p \in Path \ {PathOf[u]} :
                       file'[p] = file[p] /\ hashMap'[p] = hashMap[p]
    BY <1>1, <1>2, <1>4, <1>7, SteadyWorkerStep DEF SharedInv
  <1>10. CASE Truncate(w)
    <2>1. pc[w] = "truncate" /\ pc'[w] = "fill" /\ got'[w] = got[w]
      BY <1>0, <1>10 DEF Truncate, Advance, TypeOK
    <2>2. /\ File(u)' = Empty
          /\ \A p \in Path \ {PathOf[u]} : file'[p] = file[p] /\ hashMap'[p] = hashMap[p]
      BY <1>0, <1>1, <1>10 DEF Truncate, process, File, MyPath, TypeOK
    <2>3. Filling(u)'
      BY <1>1, <1>2, <2>1 DEF Filling
    <2>4. ASSUME NEW x \in Worker, url[x] = u PROVE GotInv(x, u)'
      BY <1>4, <1>5, <1>8, <2>1, <2>2, <2>4 DEF GotInv
    <2> QED
      BY <2>2, <2>3, <2>4 DEF FileInv
  <1>11. CASE Fill(w)
    <2>1. pc[w] = "fill" /\ pc'[w] = "rehash"
      BY <1>0, <1>11 DEF Fill, Advance, TypeOK
    <2>2. Filled(file[MyPath(w)], got[w]) = {TheBody(u)}
      BY <1>1, <2>1 DEF GotInv, Filled, File, MyPath
    <2>3. /\ File(u)' = TheBody(u)
          /\ \A p \in Path \ {PathOf[u]} : file'[p] = file[p] /\ hashMap'[p] = hashMap[p]
      BY <1>0, <1>1, <1>11, <2>2 DEF Fill, process, File, MyPath, TypeOK
    <2>4. ASSUME NEW x \in Worker, url[x] = u PROVE GotInv(x, u)'
      BY <1>4, <1>5, <1>8, <2>1, <2>3, <2>4 DEF GotInv
    <2> QED
      BY <1>5, <2>3, <2>4 DEF FileInv
  <1>12. CASE Update(w)
    <2>1. pc[w] = "update" /\ pc'[w] = "done"
      BY <1>0, <1>12 DEF Update, Advance, TypeOK
    <2>2. /\ File(u)' = File(u)
          /\ \A p \in Path \ {PathOf[u]} : file'[p] = file[p] /\ hashMap'[p] = hashMap[p]
      BY <1>0, <1>1, <1>12 DEF Update, disk, File, MyPath, TypeOK
    <2>3. Filling(u)' <=> Filling(u)
      BY <1>2, <1>4, <2>1 DEF Filling
    <2>4. File(u) = TheBody(u) \/ Filling(u)
      BY <1>1, <2>1 DEF FileInv
    <2>5. ASSUME NEW x \in Worker, url[x] = u PROVE GotInv(x, u)'
      BY <1>4, <1>5, <1>8, <2>1, <2>2, <2>5 DEF GotInv
    <2> QED
      BY <1>5, <2>2, <2>3, <2>4, <2>5 DEF FileInv
  <1> QED
    BY <1>10, <1>11, <1>12

\* A call begins, fails or ends.
LEMMA SteadyEndStep ==
  ASSUME SteadyInv, Steady, TypeInv', NEW w \in Worker,
         (\E u \in Url : Call(w, u)) \/ GiveUp(w) \/ Return(w)
  PROVE  SteadyInv'
  <1>0. TypeOK
    BY DEF SteadyInv, TypeInv
  <1>1. UNCHANGED <<file, json, hashMap, mode>>
    BY DEF Call, GiveUp, Return, disk, process
  <1>2. \A x \in Worker \ {w} : pc'[x] = pc[x] /\ url'[x] = url[x] /\ got'[x] = got[x]
    BY <1>0 DEF Call, GiveUp, Return, Leave, TypeOK
  <1>3. pc[w] # "fill" /\ pc'[w] \in {"idle", "head"}
    BY <1>0 DEF Call, GiveUp, Return, Leave, TypeOK
  <1>4. mode # "up" => pc'[w] = "idle"
    <2>1. CASE \E u \in Url : Call(w, u)
      BY <2>1 DEF Call, Steady
    <2>2. CASE GiveUp(w) \/ Return(w)
      BY <1>0, <2>2 DEF GiveUp, Return, Leave, TypeOK
    <2> QED
      BY <2>1, <2>2
  <1>5. ASSUME NEW u \in Url PROVE SharedInv(u)'
    <2>1. FileInv(u) /\ SavedInv(u) /\ \A x \in Worker : url[x] = u => GotInv(x, u)
      BY DEF SteadyInv, SharedInv
    <2>2. /\ File(u)' = File(u) /\ Entry(u)' = Entry(u) /\ SavedEntry(u)' = SavedEntry(u)
          /\ TheBody(u)' = TheBody(u)
      BY <1>1 DEF File, Entry, SavedEntry, TheBody
    <2>3. Filling(u) => Filling(u)'
      BY <1>2, <1>3 DEF Filling
    <2>4. FileInv(u)'
      BY <1>2, <1>3, <2>1, <2>2, <2>3 DEF FileInv
    <2>5. SavedInv(u)'
      BY <1>1, <1>2, <1>3, <2>1, <2>2 DEF SavedInv, Writing
    <2>6. ASSUME NEW x \in Worker, url'[x] = u PROVE GotInv(x, u)'
      BY <1>2, <1>3, <2>1, <2>2, <2>6 DEF GotInv
    <2> QED
      BY <2>4, <2>5, <2>6 DEF SharedInv
  <1> QED
    BY <1>1, <1>2, <1>4, <1>5 DEF SteadyInv

\* Starts, saves, the end of a process wherever its goroutines are.
LEMMA SteadyProcessStep ==
  ASSUME SteadyInv, Steady, TypeInv',
         \/ StartFromJson \/ StartFromFiles \/ ClearCache
         \/ Save \/ Saved \/ Exit \/ DieInStart
  PROVE  SteadyInv'
  <1>0. TypeOK
    BY DEF SteadyInv, TypeInv
  <1>1. \A w \in Worker : pc'[w] = "idle"
    <2>1. CASE Exit
      BY <2>1 DEF Exit
    <2>2. CASE \/ StartFromJson \/ StartFromFiles \/ ClearCache \/ Saved \/ DieInStart
      <3>1. mode # "up" /\ pc' = pc
        BY <2>2 DEF StartFromJson, StartFromFiles, ClearCache, Saved, DieInStart, calls
      <3> QED
        BY <3>1 DEF SteadyInv
    <2>3. CASE Save
      BY <2>3 DEF Save, Steady, calls
    <2> QED
      BY <2>1, <2>2, <2>3
  <1>2. ASSUME NEW u \in Url PROVE SharedInv(u)'
    <2>1. FileInv(u) /\ SavedInv(u)
      BY DEF SteadyInv, SharedInv
    <2>2. /\ TheBody(u)' = TheBody(u)
          /\ TheBody(u) # None
          /\ Md5(TheBody(u)) # NoHash
          /\ PathOf[u] \in Path
      BY OneVersion, GuardAssumption DEF TheBody
    <2>3. SUFFICES /\ u \in Tagged /\ Entry(u)' = Md5(TheBody(u)) => File(u)' = TheBody(u)
                   /\ u \in Tagged /\ SavedEntry(u)' = Md5(TheBody(u)) =>
                         /\ File(u)' = TheBody(u)
                         /\ mode' # "down" => Entry(u)' = Md5(TheBody(u))
      <3>1. FileInv(u)' /\ SavedInv(u)'
        BY <1>1, <2>2, <2>3 DEF FileInv, SavedInv, Writing
      <3> QED
        BY <1>1, <3>1 DEF SharedInv, GotInv
    <2>4. CASE Exit
      <3>1. /\ Entry(u)' = NoHash
            /\ File(u)' = File(u)
            /\ SavedEntry(u)' = SavedEntry(u)
            /\ mode' = "down"
        BY <2>2, <2>4 DEF Exit, disk, NoEntries, Entry, File, SavedEntry
      <3> QED
        BY <2>1, <2>2, <3>1 DEF SavedInv
    <2>5. CASE StartFromJson
      <3>1. /\ Entry(u)' = SavedEntry(u)
            /\ File(u)' = File(u)
            /\ SavedEntry(u)' = SavedEntry(u)
        BY <2>5 DEF StartFromJson, disk, Entry, File, SavedEntry
      <3> QED
        BY <2>1, <3>1 DEF SavedInv
    <2>6. CASE StartFromFiles
      <3>1. /\ Entry(u)' = IF File(u) = None THEN NoHash ELSE Md5(File(u))
            /\ File(u)' = File(u)
            /\ SavedEntry(u)' = Entry(u)'
        BY <2>2, <2>6 DEF StartFromFiles, HashesOfFiles, Entry, File, SavedEntry
      <3> QED
        BY <2>2, <3>1, SumsDiffer
    <2>7. CASE ClearCache
      <3>1. Entry(u)' = NoHash /\ SavedEntry(u)' = NoHash
        BY <2>2, <2>7 DEF ClearCache, NoEntries, Entry, SavedEntry
      <3> QED
        BY <2>2, <3>1
    <2>8. CASE Save \/ Saved
      <3>1. /\ Entry(u)' = Entry(u)
            /\ File(u)' = File(u)
            /\ SavedEntry(u)' \in {SavedEntry(u), Entry(u)}
            /\ mode # "down"
            /\ pc' = pc
        BY <2>8 DEF Save, Saved, calls, Entry, File, SavedEntry
      <3>2. ~Filling(u)
        BY <1>1, <3>1 DEF Filling
      <3> QED
        BY <2>1, <3>1, <3>2 DEF FileInv, SavedInv
    <2>9. CASE DieInStart
      <3>1. /\ Entry(u)' = Entry(u)
            /\ File(u)' = File(u)
            /\ SavedEntry(u)' = SavedEntry(u)
            /\ mode' = mode
            /\ mode = "down"
            /\ pc' = pc
        BY <2>9 DEF DieInStart, process, calls, Entry, File, SavedEntry
      <3>2. ~Filling(u)
        BY <1>1, <3>1 DEF Filling
      <3> QED
        BY <2>1, <3>1, <3>2 DEF FileInv, SavedInv
    <2> QED
      BY <2>4, <2>5, <2>6, <2>7, <2>8, <2>9
  <1> QED
    BY <1>1, <1>2 DEF SteadyInv

\* No step breaks SteadyInv on a site that stands still.
LEMMA SteadyStep ==
  ASSUME Steady, SteadyInv, [Next]_vars
  PROVE  SteadyInv'
  <1>1. TypeInv'
    BY TypeStep DEF SteadyInv
  <1>2. ASSUME NEW u \in Url PROVE ~Deploy(u) /\ ~Rollback(u)
    <2>1. site[u] = 1 /\ MaxVersion = 1
      BY OneIsAll DEF SteadyInv, TypeInv, TypeOK, Steady
    <2> QED
      BY <2>1 DEF Deploy, Rollback
  <1>3. CASE \E w \in Worker : Head(w) \/ Hit(w) \/ Miss(w) \/ Get(w) \/ Rehash(w)
    BY <1>1, <1>3, SteadyReadStep
  <1>4. CASE \E w \in Worker : Truncate(w) \/ Fill(w) \/ Update(w)
    BY <1>1, <1>4, SteadyWriteStep
  <1>5. CASE \E w \in Worker : (\E u \in Url : Call(w, u)) \/ GiveUp(w) \/ Return(w)
    BY <1>1, <1>5, SteadyEndStep
  <1>6. CASE \/ StartFromJson \/ StartFromFiles \/ ClearCache
             \/ Save \/ Saved \/ Exit \/ DieInStart
    BY <1>1, <1>6, SteadyProcessStep
  <1>7. ~StartWithoutMap /\ \A w \in Worker : ~WriteFails(w)
    BY DEF Steady, StartWithoutMap, WriteFails
  <1>8. CASE UNCHANGED vars
    <2>1. UNCHANGED <<file, hashMap, json, mode, pc, url, got>>
      BY <1>8 DEF vars
    <2>2. \A u \in Url : SharedInv(u)'
      BY <2>1 DEF SteadyInv, SharedInv, FileInv, SavedInv, GotInv, Filling, File, Entry,
                  SavedEntry, TheBody
    <2> QED
      BY <1>1, <2>1, <2>2 DEF SteadyInv
  <1> QED
    BY <1>2, <1>3, <1>4, <1>5, <1>6, <1>7, <1>8 DEF Next

\* No files, no entries, no goroutines.
LEMMA InitSteady ==
  ASSUME Steady, Init
  PROVE  SteadyInv
  <1>1. TypeInv /\ \A w \in Worker : pc[w] = "idle"
    BY InitTyped DEF Init
  <1>2. ASSUME NEW u \in Url PROVE SharedInv(u)
    <2>1. Entry(u) = NoHash /\ SavedEntry(u) = NoHash
      BY GuardAssumption DEF Init, NoEntries, Entry, SavedEntry
    <2> QED
      BY <1>1, <2>1, OneVersion DEF SharedInv, FileInv, SavedInv, GotInv
  <1> QED
    BY <1>1, <1>2 DEF SteadyInv

\* The invariant of duplicate calls holds in every reachable state.
LEMMA SteadyInvariance ==
  ASSUME Steady
  PROVE  Spec => []SteadyInv
  <1>1. Init => SteadyInv
    BY InitSteady
  <1> QED
    BY <1>1, SteadyStep, PTL DEF Spec

\* A file that nobody fills is whole once it is the file of a guard.
LEMMA UnsharedFile ==
  ASSUME SteadyInv, Steady, NEW w \in Worker, NEW u \in Url, url[w] = u,
         ~Filling(u),
         pc[w] = "done" \/ (pc[w] = "lookup" /\ IsFileCachedByHash(w))
  PROVE  /\ File(u) = TheBody(u)
         /\ pc[w] = "lookup" => got[w] = Md5(TheBody(u))
  <1>1. FileInv(u) /\ GotInv(w, u)
    BY DEF SteadyInv, SharedInv
  <1> QED
    BY <1>1 DEF FileInv, GotInv, IsFileCachedByHash, MyPath, Entry

\* fetchAllSourceMaps on a site that stands still: however many goroutines fetch one
\* URL, once they have left every guard is good to read, whatever was killed before.
THEOREM FreshOnceSettled ==
  ASSUME Steady
  PROVE  Spec => []FreshWhenSettled
  <1>1. ASSUME SteadyInv PROVE FreshWhenSettled
    <2> SUFFICES ASSUME Settled, NEW w \in Worker, pc[w] = "done" PROVE Fresh(w)
      BY DEF FreshWhenSettled, FreshRead
    <2>1. PICK u \in Url : url[w] = u /\ site[u] = 1
      BY <1>1, SteadyCalling
    <2>2. ~Filling(u)
      BY DEF Filling, Settled
    <2>3. File(u) = Body(u, 1)
      BY <1>1, <2>1, <2>2, UnsharedFile DEF TheBody
    <2>4. 1 \in since[w] .. site[u]
      <3>1. since[w] \in 0 .. MaxVersion /\ MaxVersion = 1
        BY <1>1 DEF SteadyInv, TypeInv, TypeOK, Steady
      <3> QED
        BY <2>1, <3>1
    <2> QED
      BY <2>1, <2>3, <2>4 DEF Fresh, MyPath, File
  <1> QED
    BY <1>1, SteadyInvariance, PTL

\* isFileCachedByHash among duplicate calls: the file of a hit has the hash that the
\* ETag names, unless another call is writing it anew.
THEOREM SharedHitsAreValidated ==
  ASSUME Steady
  PROVE  Spec => HitIsValidated
  <1>1. ASSUME SteadyInv, NEW w \in Worker, Hit(w), ~BeingWritten(MyPath(w))
        PROVE  got[w] = Md5(file[MyPath(w)])
    <2>1. PICK u \in Url : url[w] = u
      BY <1>1, SteadyCalling DEF Hit
    <2>2. ~Filling(u)
      BY <1>1, <2>1 DEF BeingWritten, Filling, MyPath
    <2> QED
      BY <1>1, <2>1, <2>2, UnsharedFile DEF Hit, File, MyPath
  <1>2. SteadyInv /\ [Next]_vars =>
          [\A w \in Worker : Hit(w) /\ ~BeingWritten(MyPath(w)) =>
              got[w] = Md5(file[MyPath(w)])]_vars
    BY <1>1
  <1> QED
    BY <1>2, SteadyInvariance, PTL DEF Spec, HitIsValidated

\* writeFileAndUpdateHashMap among duplicate calls, on a site that stands still: an
\* entry may be the hash of a truncated file, but one that the ETag matches is that of
\* the whole file, between calls and from run to run, whatever was killed before.
THEOREM MatchingEntries ==
  ASSUME Steady
  PROVE  Spec => []MatchingEntriesDescribe
  <1>1. ASSUME SteadyInv PROVE MatchingEntriesDescribe
    <2> SUFFICES ASSUME Settled, NEW u \in Tagged, NEW v \in 1 .. MaxVersion,
                        hashMap[PathOf[u]] = Md5(Body(u, v))
                 PROVE  file[PathOf[u]] = Body(u, v)
      BY DEF MatchingEntriesDescribe
    <2>1. u \in Url /\ v = 1
      <3>1. Tagged \subseteq Url /\ MaxVersion = 1
        BY GuardAssumption DEF Steady
      <3> QED
        BY <3>1
    <2>2. FileInv(u) /\ ~Filling(u)
      BY <1>1, <2>1 DEF SteadyInv, SharedInv, Filling, Settled
    <2> QED
      BY <2>1, <2>2 DEF FileInv, File, Entry, TheBody
  <1> QED
    BY <1>1, SteadyInvariance, PTL

=============================================================================
