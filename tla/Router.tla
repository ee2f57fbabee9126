------------------------------- MODULE Router -------------------------------
(***************************************************************************)
(* The message router of common/microservice/router.go: Add registers a    *)
(* route while any number of goroutines call Resolve for inbound subjects. *)
(*                                                                         *)
(* Resolve takes and drops two read-write mutexes several times (mu for    *)
(* the routes, cacheMu for the memoised lookups), so it is four steps      *)
(* here, one per critical section.  Add holds mu from its first line to    *)
(* its last and takes cacheMu inside it only to empty the cache, so it is  *)
(* two steps: the insertion, after which `pending` is the new route and mu *)
(* is held, and the invalidation, which releases mu.                       *)
(*                                                                         *)
(* A pattern is a value.  How a wildcard pattern matches a subject, and    *)
(* which of two is the more specific, are constants here; module Pattern   *)
(* defines both and MCRouter takes them from it.                           *)
(***************************************************************************)
EXTENDS Integers, Sequences, FiniteSets

CONSTANTS
    Subjects,       \* the literal subjects that messages carry
    ExactPatterns,  \* the declared patterns without a wildcard
    WildPatterns,   \* the declared patterns with one
    Match,          \* Match[w]: the subjects that wildcard pattern w matches
    Rank,           \* Rank[w]: position of w in the order of specificity
    NoRoute,        \* the nil *Route
    NotCached,      \* a subject that is no key of the cache map
    Resolvers,      \* the goroutines that call Resolve
    MaxCache        \* maxRouteCacheEntries

ASSUME RouterAssumption ==
    /\ ExactPatterns \subseteq Subjects
    /\ ExactPatterns \cap WildPatterns = {}
    /\ Match \in [WildPatterns -> SUBSET Subjects]
    /\ Rank \in [WildPatterns -> Nat]
    /\ \A v, w \in WildPatterns : Rank[v] = Rank[w] => v = w
    /\ NoRoute \notin Subjects \cup WildPatterns
    /\ NotCached \notin Subjects \cup WildPatterns \cup {NoRoute}
    /\ MaxCache \in Nat \ {0}

VARIABLES
    exact,     \* Router.exact: the exact patterns registered
    wild,      \* Router.wild: the wildcard routes, kept sorted
    pending,   \* the route Add has inserted while it still holds mu
    cache,     \* Router.cache
    section,   \* section[p]: the next critical section of resolver p
    asked,     \* asked[p]: the argument of Resolve, NoRoute outside a call
    match,     \* match[p]: the local `match`, then the result
    seen,      \* history: the routes registered when p's call began
    window     \* history: subjects scanned before an Add and stored after it

routerVars == <<exact, wild, pending, cache, section, asked, match, seen, window>>

Routes == ExactPatterns \cup WildPatterns
WildRoutes == {wild[i] : i \in DOMAIN wild}
RegisteredRoutes == exact \cup WildRoutes

Cached == {s \in Subjects : cache[s] # NotCached}

Covers(r, s) == IF r \in ExactPatterns THEN r = s ELSE s \in Match[r]

AtLeastAsSpecific(q, r) ==
    \/ q \in ExactPatterns
    \/ q \in WildPatterns /\ r \in WildPatterns /\ Rank[q] <= Rank[r]

-----------------------------------------------------------------------------
RouterInit ==
    /\ exact = {}
    /\ wild = <<>>
    /\ pending = NoRoute
    /\ cache = [s \in Subjects |-> NotCached]
    /\ section = [p \in Resolvers |-> "idle"]
    /\ asked = [p \in Resolvers |-> NoRoute]
    /\ match = [p \in Resolvers |-> NoRoute]
    /\ seen = [p \in Resolvers |-> {}]
    /\ window = {}

(***************************************************************************)
(* Add.  An insertion ends a scan's validity: the subjects of the          *)
(* resolvers that scanned and have not stored yet are recorded.            *)
(***************************************************************************)
MuFree == pending = NoRoute

Overlapped == {asked[p] : p \in {q \in Resolvers : section[q] = "store"}}

\* The stable sort puts the appended route behind the k more specific ones.
SortedPlace(r, k) ==
    /\ \A i \in 1..k : Rank[wild[i]] < Rank[r]
    /\ \A i \in (k + 1)..Len(wild) : ~(Rank[wild[i]] < Rank[r])

InsertAfter(k, r) ==
    [i \in 1..(Len(wild) + 1) |->
        IF i <= k THEN wild[i] ELSE IF i = k + 1 THEN r ELSE wild[i - 1]]

AddWild(r) ==
    /\ MuFree
    /\ r \notin RegisteredRoutes
    /\ \E k \in 0..Len(wild) : SortedPlace(r, k) /\ wild' = InsertAfter(k, r)
    /\ pending' = r
    /\ window' = window \cup Overlapped
    /\ UNCHANGED <<exact, cache, section, asked, match, seen>>

AddExact(r) ==
    /\ MuFree
    /\ r \notin RegisteredRoutes
    /\ exact' = exact \cup {r}
    /\ pending' = r
    /\ UNCHANGED <<wild, cache, section, asked, match, seen, window>>

\* find returned a route: Add fails and changes nothing.
AddDuplicate(r) ==
    /\ MuFree
    /\ r \in RegisteredRoutes
    /\ UNCHANGED routerVars

KeepCache ==
    /\ ~MuFree
    /\ pending' = NoRoute
    /\ UNCHANGED <<exact, wild, cache, section, asked, match, seen, window>>

\* invalidateCache, then the deferred mu.Unlock.
InvalidateCache ==
    /\ ~MuFree
    /\ cache' = [s \in Subjects |-> NotCached]
    /\ pending' = NoRoute
    /\ UNCHANGED <<exact, wild, section, asked, match, seen, window>>

-----------------------------------------------------------------------------
(***************************************************************************)
(* Resolve, one action per critical section.                               *)
(***************************************************************************)
Finish(p, route) ==
    /\ match' = [match EXCEPT ![p] = route]
    /\ section' = [section EXCEPT ![p] = "done"]

Call(p, s) ==
    /\ section[p] = "idle"
    /\ MuFree
    /\ asked' = [asked EXCEPT ![p] = s]
    /\ seen' = [seen EXCEPT ![p] = RegisteredRoutes]
    /\ UNCHANGED <<exact, wild, pending, cache, window>>

LookupWildFirst(p, s) ==
    /\ Call(p, s)
    /\ \/ wild # <<>> /\ section' = [section EXCEPT ![p] = "cache"] /\ UNCHANGED match
       \/ wild = <<>> /\ Finish(p, IF s \in exact THEN s ELSE NoRoute)

\* The exact map and the length of wild, read under one mu.RLock.
Lookup(p, s) ==
    /\ Call(p, s)
    /\ \/ s \in exact /\ Finish(p, s)
       \/ s \notin exact /\ wild = <<>> /\ Finish(p, NoRoute)
       \/ /\ s \notin exact /\ wild # <<>>
          /\ section' = [section EXCEPT ![p] = "cache"]
          /\ UNCHANGED match

ReadCache(p) ==
    /\ section[p] = "cache"
    /\ \/ asked[p] \in Cached /\ Finish(p, cache[asked[p]])
       \/ /\ asked[p] \notin Cached
          /\ section' = [section EXCEPT ![p] = "scan"]
          /\ UNCHANGED match
    /\ UNCHANGED <<exact, wild, pending, cache, asked, seen, window>>

NotPastLast(s, i) == i = Len(wild) \/ s \in Match[wild[i]]

\* The loop over wild stops at the first route that matches.
FirstHit(s, i) ==
    /\ s \in Match[wild[i]]
    /\ \A j \in 1..(i - 1) : s \notin Match[wild[j]]

Scan(p) ==
    /\ section[p] = "scan"
    /\ MuFree
    /\ \/ \E i \in DOMAIN wild :
             /\ FirstHit(asked[p], i)
             /\ match' = [match EXCEPT ![p] = wild[i]]
       \/ /\ \A i \in DOMAIN wild : asked[p] \notin Match[wild[i]]
          /\ match' = [match EXCEPT ![p] = NoRoute]
    /\ section' = [section EXCEPT ![p] = "store"]
    /\ UNCHANGED <<exact, wild, pending, cache, asked, seen, window>>

KeptAll(s) == cache[s]

\* A full cache is replaced by an empty one before the entry is written.
Kept(s) == IF Cardinality(Cached) >= MaxCache THEN NotCached ELSE cache[s]

Store(p) ==
    /\ section[p] = "store"
    /\ cache' = [s \in Subjects |-> IF s = asked[p] THEN match[p] ELSE Kept(s)]
    /\ section' = [section EXCEPT ![p] = "done"]
    /\ UNCHANGED <<exact, wild, pending, asked, match, seen, window>>

\* The caller takes the result; the locals of the call are gone.
Return(p) ==
    /\ section[p] = "done"
    /\ section' = [section EXCEPT ![p] = "idle"]
    /\ asked' = [asked EXCEPT ![p] = NoRoute]
    /\ match' = [match EXCEPT ![p] = NoRoute]
    /\ seen' = [seen EXCEPT ![p] = {}]
    /\ UNCHANGED <<exact, wild, pending, cache, window>>

RouterNext ==
    \/ \E r \in WildPatterns : AddWild(r)
    \/ \E r \in ExactPatterns : AddExact(r)
    \/ \E r \in Routes : AddDuplicate(r)
    \/ InvalidateCache
    \/ \E p \in Resolvers, s \in Subjects : Lookup(p, s)
    \/ \E p \in Resolvers : ReadCache(p) \/ Scan(p) \/ Store(p) \/ Return(p)

RouterSpec == RouterInit /\ [][RouterNext]_routerVars

-----------------------------------------------------------------------------
(* Every variable holds a value the Go fields and locals can hold. *)
RouterTypeOK ==
    /\ exact \in SUBSET ExactPatterns
    /\ wild \in Seq(WildPatterns)
    /\ pending \in Routes \cup {NoRoute}
    /\ cache \in [Subjects -> WildPatterns \cup {NoRoute, NotCached}]
    /\ section \in [Resolvers -> {"idle", "cache", "scan", "store", "done"}]
    /\ asked \in [Resolvers -> Subjects \cup {NoRoute}]
    /\ match \in [Resolvers -> Routes \cup {NoRoute}]
    /\ seen \in [Resolvers -> SUBSET Routes]
    /\ window \in SUBSET Subjects

(* The lookup cache never outgrows maxRouteCacheEntries, whatever the      *)
(* subjects are and however the stores of the resolvers interleave.        *)
CacheBounded == Cardinality(Cached) <= MaxCache

(* `wild` is strictly sorted after every Add (router.go:97-100): it makes  *)
(* the first hit of Resolve's scan the best one, and excludes duplicates.  *)
WildSorted ==
    \A i, j \in DOMAIN wild : i < j => Rank[wild[i]] < Rank[wild[j]]

(* A Resolve that reports a route reports a registered one that matches    *)
(* the subject asked for, even when it comes from the cache.               *)
ResolvedRouteCoversSubject ==
    \A p \in Resolvers :
        (section[p] = "done" /\ match[p] # NoRoute) =>
            match[p] \in RegisteredRoutes /\ Covers(match[p], asked[p])

(* An exact pattern registered before the call wins over every wildcard,   *)
(* over a stale cache entry too (server.go:177-179).                       *)
ExactWins ==
    \A p \in Resolvers :
        (section[p] = "done" /\ asked[p] \in seen[p] \cap ExactPatterns) =>
            match[p] = asked[p]

\* The result is at least as specific as every match registered at the call.
BestOf(p) ==
    \A r \in seen[p] : Covers(r, asked[p]) =>
        match[p] # NoRoute /\ AtLeastAsSpecific(match[p], r)

(* Resolve returns a best match for every subject whose scan and store no  *)
(* Add ever separated: the cache is coherent outside that window.          *)
BestUnlessOverlapped ==
    \A p \in Resolvers :
        (section[p] = "done" /\ asked[p] \notin window) => BestOf(p)

(* What router.go:45 and :123 promise without a condition: the most        *)
(* specific registered pattern.  An Add between a scan and its store       *)
(* breaks it for every later call (run router_stale_cache).                *)
ResolveReturnsBest ==
    \A p \in Resolvers : section[p] = "done" => BestOf(p)
=============================================================================
