---------------------------- MODULE RouterProofs ----------------------------
(***************************************************************************)
(* Proofs about module Router, for any sets of patterns, subjects and      *)
(* resolvers and any cache size.  RouterInv is the inductive invariant: it *)
(* adds to the checked properties what the cache and the resolvers between *)
(* two critical sections know about the sorted routes.                     *)
(***************************************************************************)
EXTENDS Router, FiniteSetTheorems, SequenceTheorems, TLAPS

\* The wildcard routes of the last finished Add.
Settled == WildRoutes \ {pending}

\* m is a registered wildcard route for s, or nil.
Sound(m, s) == m # NoRoute => m \in WildRoutes /\ s \in Match[m]

\* No route of W for s is more specific than m.
Best(m, s, W) == \A w \in W : s \in Match[w] => m # NoRoute /\ Rank[m] <= Rank[w]

CacheInv ==
    /\ IsFiniteSet(Cached)
    /\ \A s \in Cached : Sound(cache[s], s)
    /\ \A s \in Cached \ window : Best(cache[s], s, Settled)

StoreInv ==
    \A p \in Resolvers : section[p] = "store" =>
        /\ match[p] \in WildPatterns \cup {NoRoute}
        /\ Sound(match[p], asked[p])
        /\ asked[p] \notin window => Best(match[p], asked[p], WildRoutes)

CallInv ==
    \A p \in Resolvers : section[p] # "idle" =>
        /\ asked[p] \in Subjects
        /\ seen[p] \subseteq RegisteredRoutes
        /\ pending \notin seen[p]
        /\ section[p] # "done" => asked[p] \notin seen[p] \cap ExactPatterns

DoneInv == ResolvedRouteCoversSubject /\ ExactWins /\ BestUnlessOverlapped

RouterInv ==
    /\ RouterTypeOK
    /\ CacheBounded
    /\ WildSorted
    /\ CacheInv
    /\ StoreInv
    /\ CallInv
    /\ DoneInv

-----------------------------------------------------------------------------
(* The empty router satisfies the invariant. *)
LEMMA InitInv == RouterInit => RouterInv
<1> SUFFICES ASSUME RouterInit PROVE RouterInv
  OBVIOUS
<1> USE RouterAssumption
<1>1. Cached = {}
  BY DEF RouterInit, Cached
<1>2. IsFiniteSet(Cached) /\ Cardinality(Cached) = 0
  BY <1>1, FS_EmptySet
<1>3. RouterTypeOK
  BY DEF RouterInit, RouterTypeOK, Routes
<1>4. CacheBounded
  BY <1>2 DEF CacheBounded
<1>5. WildSorted /\ CacheInv /\ StoreInv /\ CallInv /\ DoneInv
  BY <1>1, <1>2 DEF RouterInit, WildSorted, CacheInv, StoreInv, CallInv, DoneInv,
     ResolvedRouteCoversSubject, ExactWins, BestUnlessOverlapped
<1> QED
  BY <1>3, <1>4, <1>5 DEF RouterInv

(* Sorting the appended route in keeps the order and adds one route. *)
LEMMA InsertSorted ==
    ASSUME RouterTypeOK, WildSorted,
           NEW r \in WildPatterns, r \notin RegisteredRoutes,
           NEW k \in 0..Len(wild), SortedPlace(r, k), wild' = InsertAfter(k, r)
    PROVE  /\ wild' \in Seq(WildPatterns)
           /\ WildRoutes' = WildRoutes \cup {r}
           /\ WildSorted'
<1> USE RouterAssumption
<1> DEFINE n == Len(wild)
<1>1. n \in Nat /\ DOMAIN wild = 1..n /\ \A i \in 1..n : wild[i] \in WildPatterns
  BY DEF RouterTypeOK
<1>2. /\ DOMAIN wild' = 1..(n + 1)
      /\ \A i \in 1..(n + 1) : wild'[i] \in WildPatterns
  BY <1>1 DEF InsertAfter
<1>3. wild' \in Seq(WildPatterns) /\ Len(wild') = n + 1
  <2>1. wild' = [i \in 1..(n + 1) |-> wild'[i]]
    BY <1>1 DEF InsertAfter
  <2>2. n + 1 \in Nat
    BY <1>1
  <2>3. wild' \in [1..(n + 1) -> WildPatterns]
    BY <2>1, <1>2
  <2>4. wild' \in Seq(WildPatterns)
    BY <2>2, <2>3, SeqDef
  <2> QED
    BY <2>4, <2>2, <1>2
<1>4. WildRoutes' = WildRoutes \cup {r}
  <2>1. ASSUME NEW i \in 1..(n + 1) PROVE wild'[i] \in WildRoutes \cup {r}
    <3>1. wild'[i] = r \/ \E j \in 1..n : wild'[i] = wild[j]
      <4>1. i <= k => i \in 1..n /\ wild'[i] = wild[i]
        BY <1>1 DEF InsertAfter
      <4>2. i = k + 1 => wild'[i] = r
        BY <1>1 DEF InsertAfter
      <4>3. i > k + 1 => i - 1 \in 1..n /\ wild'[i] = wild[i - 1]
        BY <1>1 DEF InsertAfter
      <4> QED BY <1>1, <4>1, <4>2, <4>3
    <3> QED BY <1>1, <3>1 DEF WildRoutes
  <2>2. ASSUME NEW i \in 1..n PROVE wild[i] \in WildRoutes'
    <3>1. CASE i <= k
      <4>1. i \in 1..(n + 1) /\ wild'[i] = wild[i]
        BY <1>1, <3>1 DEF InsertAfter
      <4> QED BY <4>1, <1>2 DEF WildRoutes
    <3>2. CASE ~(i <= k)
      <4>1. i + 1 \in 1..(n + 1) /\ wild'[i + 1] = wild[i]
        BY <1>1, <3>2 DEF InsertAfter
      <4> QED BY <4>1, <1>2 DEF WildRoutes
    <3> QED BY <3>1, <3>2
  <2>3. r \in WildRoutes'
    <3>1. k + 1 \in 1..(n + 1) /\ wild'[k + 1] = r
      BY <1>1 DEF InsertAfter
    <3> QED BY <3>1, <1>2 DEF WildRoutes
  <2>4. WildRoutes \subseteq WildRoutes'
    BY <2>2, <1>1 DEF WildRoutes
  <2>5. WildRoutes' \subseteq WildRoutes \cup {r}
    BY <2>1, <1>2 DEF WildRoutes
  <2> QED BY <2>3, <2>4, <2>5
<1>5. ASSUME NEW i \in 1..n, ~(Rank[wild[i]] < Rank[r])
      PROVE  Rank[r] < Rank[wild[i]]
  BY <1>1, <1>5 DEF RegisteredRoutes, WildRoutes
<1>6. WildSorted'
  <2> SUFFICES ASSUME NEW i \in 1..(n + 1), NEW j \in 1..(n + 1), i < j
               PROVE  Rank[wild'[i]] < Rank[wild'[j]]
    BY <1>2 DEF WildSorted
  <2>1. \A a, b \in 1..n : a < b => Rank[wild[a]] < Rank[wild[b]]
    BY <1>1 DEF WildSorted
  <2>2. \A a \in 1..n : /\ a <= k => Rank[wild[a]] < Rank[r]
                        /\ a > k => Rank[r] < Rank[wild[a]]
    BY <1>1, <1>5 DEF SortedPlace
  <2>3. CASE j <= k
    BY <1>1, <2>1, <2>3 DEF InsertAfter
  <2>4. CASE j = k + 1
    BY <1>1, <2>2, <2>4 DEF InsertAfter
  <2>5. CASE j > k + 1 /\ i <= k
    <3>1. wild'[i] = wild[i] /\ wild'[j] = wild[j - 1] /\ i < j - 1
      BY <1>1, <2>5 DEF InsertAfter
    <3> QED BY <1>1, <2>1, <3>1, <2>5
  <2>6. CASE j > k + 1 /\ i = k + 1
    <3>1. wild'[i] = r /\ wild'[j] = wild[j - 1] /\ j - 1 > k /\ j - 1 \in 1..n
      BY <1>1, <2>6 DEF InsertAfter
    <3> QED BY <1>1, <2>2, <3>1
  <2>7. CASE j > k + 1 /\ i > k + 1
    <3>1. wild'[i] = wild[i - 1] /\ wild'[j] = wild[j - 1] /\ i - 1 < j - 1
      BY <1>1, <2>7 DEF InsertAfter
    <3> QED BY <1>1, <2>1, <3>1, <2>7
  <2> QED BY <2>3, <2>4, <2>5, <2>6, <2>7
<1> QED BY <1>3, <1>4, <1>6

(* The routes are patterns, and the two kinds of pattern are disjoint. *)
LEMMA RouteTypes ==
    ASSUME RouterTypeOK
    PROVE  /\ WildRoutes \subseteq WildPatterns
           /\ exact \subseteq ExactPatterns
           /\ RegisteredRoutes \subseteq Routes
           /\ NoRoute \notin Routes
           /\ DOMAIN wild = 1..Len(wild)
BY RouterAssumption DEF RouterTypeOK, WildRoutes, RegisteredRoutes, Routes

(* Inserting a wildcard route; the subjects scanned already are recorded. *)
LEMMA AddWildInv ==
    ASSUME RouterInv, NEW r \in WildPatterns, AddWild(r)
    PROVE  RouterInv'
<1> USE RouterAssumption DEF RouterInv
<1>0. PICK k \in 0..Len(wild) : SortedPlace(r, k) /\ wild' = InsertAfter(k, r)
  BY DEF AddWild
<1>1. /\ wild' \in Seq(WildPatterns)
      /\ WildRoutes' = WildRoutes \cup {r}
      /\ WildSorted'
  <2>1. r \notin RegisteredRoutes
    BY DEF AddWild
  <2> QED BY <1>0, <2>1, InsertSorted
<1>2. RouterTypeOK'
  <2>1. Overlapped \subseteq Subjects
    BY DEF Overlapped, CallInv
  <2> QED BY <1>1, <2>1 DEF RouterTypeOK, AddWild, Routes
<1>3. Cached' = Cached /\ CacheBounded'
  BY DEF AddWild, Cached, CacheBounded
<1>4. Settled' = Settled
  BY <1>1, RouteTypes DEF AddWild, Settled, MuFree, RegisteredRoutes
<1>5. RegisteredRoutes' = RegisteredRoutes \cup {r}
  BY <1>1 DEF AddWild, RegisteredRoutes
<1>6. CacheInv'
  BY <1>1, <1>3, <1>4 DEF AddWild, CacheInv, Sound, Best
<1>7. StoreInv'
  BY <1>1, <1>4 DEF AddWild, StoreInv, Sound, Best, Overlapped
<1>8. CallInv'
  <2>1. \A p \in Resolvers : seen[p] \subseteq RegisteredRoutes => r \notin seen[p]
    BY DEF AddWild
  <2> QED BY <1>5, <2>1 DEF AddWild, CallInv
<1>9. DoneInv'
  BY <1>5 DEF AddWild, DoneInv, ResolvedRouteCoversSubject, ExactWins,
     BestUnlessOverlapped, BestOf, Covers, AtLeastAsSpecific
<1> QED
  BY <1>1, <1>2, <1>3, <1>6, <1>7, <1>8, <1>9

(* Inserting an exact route leaves the wildcard routes alone. *)
LEMMA AddExactInv ==
    ASSUME RouterInv, NEW r \in ExactPatterns, AddExact(r)
    PROVE  RouterInv'
<1> USE RouterAssumption DEF RouterInv
<1>1. RouterTypeOK'
  BY DEF RouterTypeOK, AddExact, Routes
<1>2. Cached' = Cached /\ CacheBounded' /\ WildRoutes' = WildRoutes /\ WildSorted'
  BY DEF AddExact, Cached, CacheBounded, WildRoutes, WildSorted
<1>3. Settled' = Settled
  BY <1>2, RouteTypes DEF AddExact, Settled, MuFree
<1>4. RegisteredRoutes' = RegisteredRoutes \cup {r}
  BY <1>2 DEF AddExact, RegisteredRoutes
<1>5. CacheInv'
  BY <1>2, <1>3 DEF AddExact, CacheInv, Sound, Best
<1>6. StoreInv'
  BY <1>2, <1>3 DEF AddExact, StoreInv, Sound, Best
<1>7. CallInv'
  <2>1. \A p \in Resolvers : seen[p] \subseteq RegisteredRoutes => r \notin seen[p]
    BY DEF AddExact
  <2> QED BY <1>4, <2>1 DEF AddExact, CallInv
<1>8. DoneInv'
  BY <1>4 DEF AddExact, DoneInv, ResolvedRouteCoversSubject, ExactWins,
     BestUnlessOverlapped, BestOf, Covers, AtLeastAsSpecific
<1> QED
  BY <1>1, <1>2, <1>5, <1>6, <1>7, <1>8

(* Emptying the cache makes the new route a settled one.  A resolver that  *)
(* is about to store a result from before it is in the window.             *)
LEMMA InvalidateCacheInv ==
    ASSUME RouterInv, InvalidateCache
    PROVE  RouterInv'
<1> USE RouterAssumption DEF RouterInv
<1>1. RouterTypeOK'
  BY DEF RouterTypeOK, InvalidateCache
<1>2. Cached' = {}
  BY DEF InvalidateCache, Cached
<1>3. IsFiniteSet(Cached') /\ Cardinality(Cached') = 0
  BY <1>2, FS_EmptySet
<1>4. CacheBounded' /\ CacheInv'
  BY <1>2, <1>3 DEF CacheBounded, CacheInv
<1>5. WildRoutes' = WildRoutes /\ RegisteredRoutes' = RegisteredRoutes /\ WildSorted'
  BY DEF InvalidateCache, WildRoutes, RegisteredRoutes, WildSorted
<1>6. StoreInv'
  BY <1>5 DEF InvalidateCache, StoreInv, Sound, Best
<1>7. CallInv'
  BY <1>5, RouteTypes DEF InvalidateCache, CallInv
<1>8. DoneInv'
  BY <1>5 DEF InvalidateCache, DoneInv, ResolvedRouteCoversSubject, ExactWins,
     BestUnlessOverlapped, BestOf, Covers, AtLeastAsSpecific
<1> QED
  BY <1>1, <1>4, <1>5, <1>6, <1>7, <1>8

\* What a step of Resolve leaves alone.
SameRoutes == UNCHANGED <<exact, wild, pending, window>>

(* Such a step keeps what the invariant says of the routes. *)
LEMMA SameRoutesInv ==
    ASSUME RouterInv, SameRoutes
    PROVE  /\ WildRoutes' = WildRoutes /\ RegisteredRoutes' = RegisteredRoutes
           /\ Settled' = Settled /\ WildSorted'
BY DEF RouterInv, SameRoutes, WildRoutes, RegisteredRoutes, Settled, WildSorted

(* The exact lookup: an exact hit is final, a miss starts a wildcard call. *)
LEMMA LookupInv ==
    ASSUME RouterInv, NEW p \in Resolvers, NEW s \in Subjects, Lookup(p, s)
    PROVE  RouterInv'
<1> USE RouterAssumption DEF RouterInv
<1>1. SameRoutes /\ cache' = cache
  BY DEF Lookup, Call, SameRoutes
<1>2. /\ WildRoutes' = WildRoutes /\ RegisteredRoutes' = RegisteredRoutes
      /\ Settled' = Settled /\ WildSorted'
  BY <1>1, SameRoutesInv
<1>3. RouterTypeOK'
  <2>1. section' \in [Resolvers -> {"idle", "cache", "scan", "store", "done"}]
    BY DEF RouterTypeOK, Lookup, Finish
  <2>2. match' \in [Resolvers -> Routes \cup {NoRoute}]
    BY DEF RouterTypeOK, Lookup, Finish, Routes
  <2>3. asked' \in [Resolvers -> Subjects \cup {NoRoute}]
    BY DEF RouterTypeOK, Lookup, Call
  <2>4. seen' \in [Resolvers -> SUBSET Routes]
    BY RouteTypes DEF RouterTypeOK, Lookup, Call
  <2> QED BY <1>1, <2>1, <2>2, <2>3, <2>4 DEF RouterTypeOK, SameRoutes
<1>4. Cached' = Cached /\ CacheBounded' /\ CacheInv'
  BY <1>1, <1>2 DEF Cached, CacheBounded, CacheInv, SameRoutes, Sound, Best
<1>5. StoreInv'
  BY <1>2 DEF RouterTypeOK, Lookup, Call, Finish, StoreInv, Sound, Best
<1>6. CallInv'
  BY <1>2, RouteTypes DEF RouterTypeOK, Lookup, Call, Finish, CallInv, MuFree, RegisteredRoutes
<1>7. section'[p] = "done" => /\ match'[p] # NoRoute => match'[p] \in exact /\ match'[p] = s
                              /\ s \in seen'[p] \cap ExactPatterns => match'[p] = s
                              /\ match'[p] = NoRoute => wild = <<>> /\ s \notin exact
                              /\ seen'[p] = RegisteredRoutes /\ asked'[p] = s
  BY RouteTypes DEF RouterTypeOK, Lookup, Call, Finish, RegisteredRoutes
<1>8. section'[p] = "done" => BestOf(p)'
  <2> SUFFICES ASSUME section'[p] = "done", NEW r \in RegisteredRoutes, Covers(r, s)
               PROVE  match'[p] # NoRoute /\ AtLeastAsSpecific(match'[p], r)
    BY <1>7 DEF BestOf, Covers, AtLeastAsSpecific
  <2>1. match'[p] # NoRoute
    BY <1>7, RouteTypes DEF RegisteredRoutes, Covers, WildRoutes
  <2> QED BY <2>1, <1>7, RouteTypes DEF AtLeastAsSpecific
<1>9. DoneInv'
  <2>1. \A q \in Resolvers \ {p} : /\ section'[q] = section[q] /\ match'[q] = match[q]
                                  /\ asked'[q] = asked[q] /\ seen'[q] = seen[q]
    BY DEF RouterTypeOK, Lookup, Call, Finish
  <2>2. ResolvedRouteCoversSubject' /\ ExactWins'
    BY <1>2, <1>7, <2>1, RouteTypes
       DEF DoneInv, ResolvedRouteCoversSubject, ExactWins, Covers, RegisteredRoutes
  <2>3. BestUnlessOverlapped'
    BY <1>1, <1>8, <2>1 DEF DoneInv, BestUnlessOverlapped, BestOf, SameRoutes,
       Covers, AtLeastAsSpecific
  <2> QED BY <2>2, <2>3 DEF DoneInv
<1> QED
  BY <1>2, <1>3, <1>4, <1>5, <1>6, <1>9

(* A cached answer is as good as the cache: best outside the window. *)
LEMMA ReadCacheInv ==
    ASSUME RouterInv, NEW p \in Resolvers, ReadCache(p)
    PROVE  RouterInv'
<1> USE RouterAssumption DEF RouterInv
<1>1. SameRoutes /\ UNCHANGED <<cache, asked, seen>>
  BY DEF ReadCache, SameRoutes
<1>2. /\ WildRoutes' = WildRoutes /\ RegisteredRoutes' = RegisteredRoutes
      /\ Settled' = Settled /\ WildSorted'
  BY <1>1, SameRoutesInv
<1>3. RouterTypeOK'
  <2>1. section' \in [Resolvers -> {"idle", "cache", "scan", "store", "done"}]
    BY DEF RouterTypeOK, ReadCache, Finish
  <2>2. match' \in [Resolvers -> Routes \cup {NoRoute}]
    BY DEF RouterTypeOK, ReadCache, Finish, Routes, Cached
  <2> QED BY <1>1, <2>1, <2>2 DEF RouterTypeOK, SameRoutes
<1>4. Cached' = Cached /\ CacheBounded' /\ CacheInv'
  BY <1>1, <1>2 DEF Cached, CacheBounded, CacheInv, SameRoutes, Sound, Best
<1>5. StoreInv'
  BY <1>1, <1>2 DEF RouterTypeOK, ReadCache, Finish, StoreInv, Sound, Best, SameRoutes
<1>6. CallInv'
  BY <1>1, <1>2 DEF RouterTypeOK, ReadCache, Finish, CallInv, SameRoutes
<1>7. section'[p] = "done" => /\ asked[p] \in Cached
                              /\ match'[p] = cache[asked[p]]
                              /\ section[p] = "cache"
  BY DEF RouterTypeOK, ReadCache, Finish
<1>8. section'[p] = "done" /\ asked[p] \notin window => BestOf(p)'
  <2> SUFFICES ASSUME section'[p] = "done", asked[p] \notin window,
                      NEW r \in seen[p], Covers(r, asked[p])
               PROVE  match'[p] # NoRoute /\ AtLeastAsSpecific(match'[p], r)
    BY <1>1 DEF BestOf, Covers, AtLeastAsSpecific
  <2>1. r \in RegisteredRoutes /\ r # pending /\ r \notin ExactPatterns
    BY <1>7 DEF CallInv, Covers
  <2>2. r \in Settled /\ r \in WildPatterns /\ asked[p] \in Match[r]
    BY <2>1, RouteTypes DEF RegisteredRoutes, Settled, Covers
  <2>3. match'[p] # NoRoute /\ Rank[match'[p]] <= Rank[r]
    BY <2>2, <1>7 DEF CacheInv, Best
  <2>4. match'[p] \in WildPatterns
    BY <2>3, <1>7, RouteTypes DEF CacheInv, Sound
  <2> QED BY <2>2, <2>3, <2>4 DEF AtLeastAsSpecific
<1>9. DoneInv'
  <2>1. \A q \in Resolvers \ {p} : section'[q] = section[q] /\ match'[q] = match[q]
    BY DEF RouterTypeOK, ReadCache, Finish
  <2>2. section'[p] = "done" /\ match'[p] # NoRoute =>
            match'[p] \in RegisteredRoutes /\ Covers(match'[p], asked[p])
    BY <1>7, RouteTypes DEF CacheInv, Sound, RegisteredRoutes, Covers
  <2>3. section'[p] = "done" => asked[p] \notin seen[p] \cap ExactPatterns
    BY <1>7 DEF CallInv
  <2>4. ResolvedRouteCoversSubject' /\ ExactWins'
    BY <1>1, <1>2, <2>1, <2>2, <2>3
       DEF DoneInv, ResolvedRouteCoversSubject, ExactWins, Covers
  <2>5. BestUnlessOverlapped'
    BY <1>1, <1>8, <2>1 DEF DoneInv, BestUnlessOverlapped, BestOf, SameRoutes,
       Covers, AtLeastAsSpecific
  <2> QED BY <2>4, <2>5 DEF DoneInv
<1> QED
  BY <1>2, <1>3, <1>4, <1>5, <1>6, <1>9

(* The first hit in a sorted list is the best match of the whole list. *)
LEMMA FirstHitIsBest ==
    ASSUME RouterTypeOK, WildSorted, NEW s, NEW i \in DOMAIN wild, FirstHit(s, i)
    PROVE  Best(wild[i], s, WildRoutes)
<1> USE RouterAssumption
<1> SUFFICES ASSUME NEW j \in DOMAIN wild, s \in Match[wild[j]]
             PROVE  wild[i] # NoRoute /\ Rank[wild[i]] <= Rank[wild[j]]
  BY DEF Best, WildRoutes
<1>1. i \in 1..Len(wild) /\ j \in 1..Len(wild) /\ Len(wild) \in Nat
      /\ wild[i] \in WildPatterns /\ wild[j] \in WildPatterns
  BY DEF RouterTypeOK
<1>2. i <= j
  BY <1>1 DEF FirstHit
<1> QED
  BY <1>1, <1>2 DEF WildSorted

(* A scan finds the best settled match, or none exists. *)
LEMMA ScanInv ==
    ASSUME RouterInv, NEW p \in Resolvers, Scan(p)
    PROVE  RouterInv'
<1> USE RouterAssumption DEF RouterInv
<1>1. SameRoutes /\ UNCHANGED <<cache, asked, seen>>
  BY DEF Scan, SameRoutes
<1>2. /\ WildRoutes' = WildRoutes /\ RegisteredRoutes' = RegisteredRoutes
      /\ Settled' = Settled /\ WildSorted'
  BY <1>1, SameRoutesInv
<1>3. /\ match'[p] \in WildPatterns \cup {NoRoute}
      /\ Sound(match'[p], asked[p])
      /\ Best(match'[p], asked[p], WildRoutes)
  <2>1. CASE \E i \in DOMAIN wild : /\ FirstHit(asked[p], i)
                                   /\ match' = [match EXCEPT ![p] = wild[i]]
    <3>1. PICK i \in DOMAIN wild : /\ FirstHit(asked[p], i)
                                   /\ match' = [match EXCEPT ![p] = wild[i]]
      BY <2>1
    <3>2. match'[p] = wild[i] /\ wild[i] \in WildRoutes
      BY <3>1 DEF RouterTypeOK, WildRoutes
    <3>3. Best(wild[i], asked[p], WildRoutes)
      BY <3>1, FirstHitIsBest
    <3> QED BY <3>1, <3>2, <3>3, RouteTypes DEF Sound, FirstHit
  <2>2. CASE /\ \A i \in DOMAIN wild : asked[p] \notin Match[wild[i]]
             /\ match' = [match EXCEPT ![p] = NoRoute]
    BY <2>2 DEF RouterTypeOK, Sound, Best, WildRoutes
  <2> QED BY <2>1, <2>2 DEF Scan
<1>4. /\ section' = [section EXCEPT ![p] = "store"]
      /\ \A q \in Resolvers \ {p} : section'[q] = section[q] /\ match'[q] = match[q]
      /\ section[p] = "scan" /\ section'[p] = "store"
      /\ match' = [match EXCEPT ![p] = match'[p]]
  BY DEF Scan, RouterTypeOK
<1>5. RouterTypeOK'
  BY <1>1, <1>3, <1>4 DEF RouterTypeOK, SameRoutes, Routes
<1>6. Cached' = Cached /\ CacheBounded' /\ CacheInv'
  BY <1>1, <1>2 DEF Cached, CacheBounded, CacheInv, SameRoutes, Sound, Best
<1>7. StoreInv'
  BY <1>1, <1>2, <1>3, <1>4 DEF StoreInv, Sound, Best, SameRoutes
<1>8. CallInv'
  BY <1>1, <1>2, <1>4 DEF CallInv, SameRoutes
<1>9. DoneInv'
  BY <1>1, <1>2, <1>4 DEF DoneInv, ResolvedRouteCoversSubject, ExactWins,
     BestUnlessOverlapped, BestOf, Covers, AtLeastAsSpecific, SameRoutes
<1> QED
  BY <1>2, <1>5, <1>6, <1>7, <1>8, <1>9

(* A store keeps the cache within its bound and, outside the window, *)
(* coherent: what a resolver stores is what it scanned.              *)
LEMMA StoreStepInv ==
    ASSUME RouterInv, NEW p \in Resolvers, Store(p)
    PROVE  RouterInv'
<1> USE RouterAssumption DEF RouterInv
<1>1. SameRoutes /\ UNCHANGED <<asked, match, seen>>
  BY DEF Store, SameRoutes
<1>2. /\ WildRoutes' = WildRoutes /\ RegisteredRoutes' = RegisteredRoutes
      /\ Settled' = Settled /\ WildSorted'
  BY <1>1, SameRoutesInv
<1>3. /\ section[p] = "store" /\ section'[p] = "done"
      /\ \A q \in Resolvers \ {p} : section'[q] = section[q]
      /\ asked[p] \in Subjects
      /\ match[p] \in WildPatterns \cup {NoRoute}
  BY DEF Store, RouterTypeOK, CallInv, StoreInv
<1>4. RouterTypeOK'
  <2>1. cache' \in [Subjects -> WildPatterns \cup {NoRoute, NotCached}]
    BY <1>3 DEF RouterTypeOK, Store, Kept
  <2> QED BY <1>1, <2>1 DEF RouterTypeOK, SameRoutes, Store
<1>5. /\ IsFiniteSet(Cached') /\ CacheBounded'
      /\ \A s \in Cached' \ {asked[p]} : s \in Cached /\ cache'[s] = cache[s]
      /\ asked[p] \in Cached' /\ cache'[asked[p]] = match[p]
  <2>0. cache'[asked[p]] = match[p] /\ asked[p] \in Cached'
    BY <1>3 DEF Store, Cached
  <2>1. CASE Cardinality(Cached) >= MaxCache
    <3>1. Cached' = {asked[p]}
      BY <1>3, <2>1 DEF Store, Kept, Cached
    <3>2. IsFiniteSet(Cached') /\ Cardinality(Cached') = 1
      BY <3>1, FS_Singleton
    <3> QED BY <2>0, <3>1, <3>2 DEF CacheBounded
  <2>2. CASE ~(Cardinality(Cached) >= MaxCache)
    <3>1. Cached' = Cached \cup {asked[p]}
      BY <1>3, <2>2 DEF Store, Kept, Cached
    <3>2. /\ IsFiniteSet(Cached') /\ Cardinality(Cached') \in Nat
          /\ Cardinality(Cached) \in Nat
          /\ Cardinality(Cached') <= Cardinality(Cached) + 1
      <4>1. IsFiniteSet(Cached) /\ Cardinality(Cached) \in Nat
        BY FS_CardinalityType DEF CacheInv
      <4>2. /\ IsFiniteSet(Cached')
            /\ \/ Cardinality(Cached') = Cardinality(Cached)
               \/ Cardinality(Cached') = Cardinality(Cached) + 1
        BY <3>1, <4>1, FS_AddElement
      <4> QED BY <4>1, <4>2
    <3>3. CacheBounded'
      BY <2>2, <3>2 DEF CacheBounded
    <3>4. \A s \in Cached' \ {asked[p]} : s \in Cached /\ cache'[s] = cache[s]
      BY <2>2, <3>1 DEF Store, Kept, Cached
    <3> QED BY <2>0, <3>2, <3>3, <3>4
  <2> QED BY <2>1, <2>2
<1>6. CacheInv'
  <2>1. \A s \in Cached' : Sound(cache'[s], s)
    BY <1>3, <1>5 DEF CacheInv, StoreInv
  <2>2. \A s \in Cached' \ window : Best(cache'[s], s, Settled)
    BY <1>3, <1>5 DEF CacheInv, StoreInv, Best, Settled
  <2> QED BY <1>1, <1>2, <1>5, <2>1, <2>2 DEF CacheInv, Sound, Best, SameRoutes
<1>7. StoreInv'
  BY <1>1, <1>2, <1>3 DEF StoreInv, Sound, Best, SameRoutes
<1>8. CallInv'
  BY <1>1, <1>2, <1>3 DEF CallInv, SameRoutes
<1>9. DoneInv'
  <2>1. match[p] # NoRoute =>
            match[p] \in RegisteredRoutes /\ Covers(match[p], asked[p])
    BY <1>3, RouteTypes DEF StoreInv, Sound, RegisteredRoutes, Covers
  <2>2. asked[p] \notin seen[p] \cap ExactPatterns
    BY <1>3 DEF CallInv
  <2>3. asked[p] \notin window => BestOf(p)
    <3> SUFFICES ASSUME asked[p] \notin window,
                        NEW r \in seen[p], Covers(r, asked[p])
                 PROVE  match[p] # NoRoute /\ AtLeastAsSpecific(match[p], r)
      BY DEF BestOf
    <3>1. r \in RegisteredRoutes /\ r \notin ExactPatterns
      BY <1>3 DEF CallInv, Covers
    <3>2. r \in WildRoutes /\ r \in WildPatterns /\ asked[p] \in Match[r]
      BY <3>1, RouteTypes DEF RegisteredRoutes, Covers
    <3>3. match[p] # NoRoute /\ Rank[match[p]] <= Rank[r]
      BY <3>2, <1>3 DEF StoreInv, Best
    <3> QED BY <1>3, <3>2, <3>3 DEF AtLeastAsSpecific
  <2>4. ResolvedRouteCoversSubject' /\ ExactWins'
    BY <1>1, <1>2, <1>3, <2>1, <2>2
       DEF DoneInv, ResolvedRouteCoversSubject, ExactWins, Covers
  <2>5. BestUnlessOverlapped'
    BY <1>1, <1>3, <2>3 DEF DoneInv, BestUnlessOverlapped, BestOf, SameRoutes,
       Covers, AtLeastAsSpecific
  <2> QED BY <2>4, <2>5 DEF DoneInv
<1> QED
  BY <1>2, <1>4, <1>5, <1>6, <1>7, <1>8, <1>9

(* A finished call leaves nothing behind. *)
LEMMA ReturnInv ==
    ASSUME RouterInv, NEW p \in Resolvers, Return(p)
    PROVE  RouterInv'
<1> USE RouterAssumption DEF RouterInv
<1>1. SameRoutes /\ cache' = cache
  BY DEF Return, SameRoutes
<1>2. /\ WildRoutes' = WildRoutes /\ RegisteredRoutes' = RegisteredRoutes
      /\ Settled' = Settled /\ WildSorted'
  BY <1>1, SameRoutesInv
<1>3. RouterTypeOK'
  BY <1>1 DEF RouterTypeOK, Return, SameRoutes
<1>4. Cached' = Cached /\ CacheBounded' /\ CacheInv'
  BY <1>1, <1>2 DEF Cached, CacheBounded, CacheInv, SameRoutes, Sound, Best
<1>5. /\ section'[p] = "idle"
      /\ \A q \in Resolvers \ {p} : /\ section'[q] = section[q] /\ match'[q] = match[q]
                                   /\ asked'[q] = asked[q] /\ seen'[q] = seen[q]
  BY DEF RouterTypeOK, Return
<1>6. StoreInv' /\ CallInv'
  BY <1>1, <1>2, <1>5 DEF StoreInv, CallInv, Sound, Best, SameRoutes
<1>7. DoneInv'
  BY <1>1, <1>2, <1>5 DEF DoneInv, ResolvedRouteCoversSubject, ExactWins,
     BestUnlessOverlapped, BestOf, Covers, AtLeastAsSpecific, SameRoutes
<1> QED
  BY <1>2, <1>3, <1>4, <1>6, <1>7

(* A step that changes no variable keeps the invariant. *)
LEMMA StutterInv == ASSUME RouterInv, UNCHANGED routerVars PROVE RouterInv'
BY DEF routerVars, RouterInv, RouterTypeOK, CacheBounded, WildSorted, CacheInv, StoreInv,
   CallInv, DoneInv, ResolvedRouteCoversSubject, ExactWins, BestUnlessOverlapped,
   BestOf, Covers, AtLeastAsSpecific, Cached, Sound, Best, Settled, WildRoutes,
   RegisteredRoutes, Routes

(* RouterInv is an invariant of the router for all its parameters. *)
THEOREM Invariance == RouterSpec => []RouterInv
<1>1. RouterInv /\ [RouterNext]_routerVars => RouterInv'
  <2> SUFFICES ASSUME RouterInv, [RouterNext]_routerVars PROVE RouterInv'
    OBVIOUS
  <2>1. ASSUME NEW r \in WildPatterns, AddWild(r) PROVE RouterInv'
    BY <2>1, AddWildInv
  <2>2. ASSUME NEW r \in ExactPatterns, AddExact(r) PROVE RouterInv'
    BY <2>2, AddExactInv
  <2>3. ASSUME NEW r \in Routes, AddDuplicate(r) PROVE RouterInv'
    BY <2>3, StutterInv DEF AddDuplicate
  <2>4. CASE InvalidateCache
    BY <2>4, InvalidateCacheInv
  <2>5. ASSUME NEW p \in Resolvers, NEW s \in Subjects, Lookup(p, s)
        PROVE  RouterInv'
    BY <2>5, LookupInv
  <2>6. ASSUME NEW p \in Resolvers, ReadCache(p) \/ Scan(p) \/ Store(p) \/ Return(p)
        PROVE  RouterInv'
    BY <2>6, ReadCacheInv, ScanInv, StoreStepInv, ReturnInv
  <2>7. CASE UNCHANGED routerVars
    BY <2>7, StutterInv
  <2> QED BY <2>1, <2>2, <2>3, <2>4, <2>5, <2>6, <2>7 DEF RouterNext
<1> QED
  BY <1>1, InitInv, PTL DEF RouterSpec

(* Every variable of the router keeps its type. *)
THEOREM TypeCorrect == RouterSpec => []RouterTypeOK
BY Invariance, PTL DEF RouterInv

(* The cache never holds more than maxRouteCacheEntries subjects. *)
THEOREM CacheStaysBounded == RouterSpec => []CacheBounded
BY Invariance, PTL DEF RouterInv

(* The wildcard routes stay strictly sorted by specificity, so the order   *)
(* in which they are registered never affects dispatch.                    *)
THEOREM WildStaysSorted == RouterSpec => []WildSorted
BY Invariance, PTL DEF RouterInv

(* A route that Resolve reports is registered and matches the subject. *)
THEOREM ResolveIsSound == RouterSpec => []ResolvedRouteCoversSubject
BY Invariance, PTL DEF RouterInv, DoneInv

(* An exact pattern registered before the call always wins. *)
THEOREM ExactAlwaysWins == RouterSpec => []ExactWins
BY Invariance, PTL DEF RouterInv, DoneInv

(* Resolve returns a best match for every subject whose scan and store no *)
(* Add ever separated.                                                    *)
THEOREM ResolveIsBestOutsideTheWindow == RouterSpec => []BestUnlessOverlapped
BY Invariance, PTL DEF RouterInv, DoneInv
=============================================================================
