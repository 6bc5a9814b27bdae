------------------------------- MODULE Fetch --------------------------------
(***************************************************************************)
(* What a caller of cache.CacheGuardedHttpGet and CacheGuard.Get is        *)
(* promised, with no cache in sight: a request is answered with one body,  *)
(* which the server had for that very URL at some time since the request,  *)
(* and which stays the same for as long as the caller keeps the answer; or *)
(* the request comes to nothing.                                           *)
(***************************************************************************)
EXTENDS Naturals

CONSTANTS
    Worker,     \* the goroutines that make requests
    Url,        \* the URLs requested
    MaxVersion, \* bound: versions of a URL that are ever served
    NoUrl,      \* no request
    None        \* no answer yet

VARIABLES
    site,       \* site[u]: the version the server has of u
    url,        \* url[w]: what goroutine w requested
    since,      \* since[w]: the version of it at that time
    result      \* result[w]: the answer

vars == <<site, url, since, result>>

Body(u, v) == [url |-> u, version |-> v]

Init ==
    /\ site = [u \in Url |-> 1]
    /\ url = [w \in Worker |-> NoUrl]
    /\ since = [w \in Worker |-> 0]
    /\ result = [w \in Worker |-> None]

Deploy(u) ==
    /\ site[u] < MaxVersion
    /\ site' = [site EXCEPT ![u] = @ + 1]
    /\ UNCHANGED <<url, since, result>>

Request(w, u) ==
    /\ url[w] = NoUrl
    /\ url' = [url EXCEPT ![w] = u]
    /\ since' = [since EXCEPT ![w] = site[u]]
    /\ UNCHANGED <<site, result>>

Answer(w) ==
    /\ url[w] # NoUrl
    /\ result[w] = None
    /\ \E v \in since[w] .. site[url[w]] :
          result' = [result EXCEPT ![w] = Body(url[w], v)]
    /\ UNCHANGED <<site, url, since>>

\* An error, the end of the use of an answer, or the end of the process.
End(W) ==
    /\ url' = [w \in Worker |-> IF w \in W THEN NoUrl ELSE url[w]]
    /\ since' = [w \in Worker |-> IF w \in W THEN 0 ELSE since[w]]
    /\ result' = [w \in Worker |-> IF w \in W THEN None ELSE result[w]]
    /\ UNCHANGED site

Next ==
    \/ \E u \in Url : Deploy(u)
    \/ \E w \in Worker : Answer(w) \/ \E u \in Url : Request(w, u)
    \/ \E W \in SUBSET Worker : End(W)

Spec == Init /\ [][Next]_vars

=============================================================================
