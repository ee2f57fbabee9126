----------------------------- MODULE CacheProofs ----------------------------
(***************************************************************************)
(* Proofs about module Cache, for any number of calls and of deadlines.    *)
(*                                                                         *)
(* CacheInv is the inductive invariant.  HoldInv says what makes a lock    *)
(* one caller's: unless a late eviction took another entry, the key a      *)
(* caller owns has the entry that caller wrote, and a caller that is about *)
(* to reclaim an expired entry holds nxMu while nobody owns the key.       *)
(***************************************************************************)
EXTENDS Cache, FiniteSetTheorems, TLAPS

Stages == {"idle", "evict", "rename", "nxwait", "check", "claim", "remain", "store", "done"}

Stored == {e \in Entries : e.val >= Text}

\* What a file Increment has found and is about to write.
FreshCount(c) == temp[c] = [val |-> 1, exp |-> NoExpiry] /\ ~Live(seen[c])
NextCount(c) ==
    /\ seen[c] \in Stored /\ seen[c].val # Text
    /\ temp[c].val = seen[c].val + 1
    /\ temp[c].exp = seen[c].exp \/ Expired(seen[c])

CacheShape ==
    /\ use \in {"lock", "count"} /\ entry \in Stored \cup {None, Corrupt}
    /\ windows \in Nat /\ past \subseteq Nat \ {0}
    /\ pc \in [Callers -> Stages]
    /\ seen \in [Callers -> Stored \cup {None, Corrupt}]
    /\ temp \in [Callers -> Stored \cup {None}]
    /\ overlap \in BOOLEAN /\ evicted \in BOOLEAN
    /\ janitor = "sweep" => driver \in {"file", "nolinks"}

CallInv ==
    \A c \in Callers :
        /\ pc[c] \in {"nxwait", "check", "claim"} =>
             use = "lock" /\ Files /\ temp[c] \in Stored /\ temp[c].val = Text
        /\ pc[c] = "rename" => use = "count" /\ temp[c] \in Stored /\ temp[c].val = Text
        /\ pc[c] = "remain" => use = "count" /\ seen[c] \in Stored /\ seen[c].val # Text
        /\ pc[c] = "store" => use = "count" /\ temp[c] \in Stored /\ (FreshCount(c) \/ NextCount(c))
        /\ pc[c] \in {"check", "claim"} => nxMu = c

HoldInv ==
    /\ use = "count" => holders = {}
    /\ ~evicted => /\ \A h \in holders : entry \in Stored /\ entry.exp = h[2] /\ h[2] \notin past
                   /\ \A h, k \in holders : h = k
                   /\ \A c \in Callers : pc[c] = "claim" => holders = {}

CacheInv == CacheShape /\ CallInv /\ HoldInv

-----------------------------------------------------------------------------
LEMMA StoredIsItem ==
    /\ \A e \in Stored : IsItem(e)
    /\ CacheShape => (IsItem(entry) => entry \in Stored)
  BY CacheAssumption DEF Stored, IsItem, CacheShape

LEMMA CacheInvInit == ASSUME Init PROVE CacheInv
<1>1. entry \in Stored \cup {None, Corrupt}
  BY DEF Init, Stored, Entries, Text
<1>2. CacheShape
  <2>1. janitor # "sweep"
    BY DEF Init
  <2> QED
    BY <1>1, <2>1 DEF Init, CacheShape, Stages
<1>3. CallInv /\ HoldInv
  BY DEF Init, CallInv, HoldInv
<1> QED
  BY <1>2, <1>3 DEF CacheInv

\* The item a Set or a SetNX is about to write.
LEMMA NewItemIsStored ==
    ASSUME NEW item \in Items, CacheShape, NewItem(item)
    PROVE  item \in Stored /\ item.val = Text /\ windows' \in Nat
<1>1. item \in [val : {Text}, exp : 0..MaxWindows]
  BY DEF Items
<1>2. item.val = Text /\ item.exp \in Nat /\ item \in Entries
  BY <1>1, CacheAssumption DEF Text, Entries
<1> QED
  BY <1>2 DEF Stored, Text, NewItem, CacheShape

LEMMA ShapeStep ==
    ASSUME CacheShape, CallInv, Next PROVE CacheShape'
<1> USE DEF CacheShape, Goto, Return, Forget, history, janVars, callVars, Stages, Files
<1>1. ASSUME NEW c \in Callers, Refuse(c) \/ Read(c) \/ FileRead(c) \/ Evict(c) \/ Delete(c)
      PROVE  CacheShape'
  BY <1>1 DEF Refuse, Read, FileRead, Evict, Delete, Replaced
<1>2. ASSUME NEW c \in Callers, Set(c) \/ SetNX(c) PROVE CacheShape'
  BY <1>2, NewItemIsStored DEF Set, SetNX, Replaced
<1>3. ASSUME NEW c \in Callers, Increment(c) PROVE CacheShape'
  <2>1. [val |-> 1, exp |-> NoExpiry] \in Stored
    BY DEF Stored, Entries, NoExpiry, Text
  <2>2. Live(entry) /\ entry.val # Text => entry.val + 1 \in Nat /\ [entry EXCEPT !.val = @ + 1] \in Stored
    BY StoredIsItem DEF Stored, Entries, Text, Live
  <2> QED
    <3>1. CASE Live(entry)
      BY <1>3, <2>2, <3>1 DEF Increment
    <3>2. CASE ~Live(entry)
      BY <1>3, <2>1, <3>2 DEF Increment
    <3> QED
      BY <3>1, <3>2
<1>4. ASSUME NEW c \in Callers, FileWrite(c) PROVE CacheShape'
  BY <1>4, NewItemIsStored DEF FileWrite
<1>5. ASSUME NEW c \in Callers, WriteFails(c) \/ FileRename(c) \/ FileLink(c) \/ FileCheck(c) \/ FileClaim(c)
      PROVE  CacheShape'
  <2>1. CASE WriteFails(c) \/ FileRename(c)
    <3>1. CASE WriteFails(c)
      BY <3>1 DEF WriteFails
    <3>2. CASE FileRename(c)
      BY <3>2 DEF FileRename, Replaced, CallInv
    <3> QED
      BY <2>1, <3>1, <3>2
  <2>2. CASE FileLink(c)
    BY <2>2 DEF FileLink, LinkOrCheck, Replaced, CallInv
  <2>3. CASE FileCheck(c) \/ FileClaim(c)
    BY <2>3 DEF FileCheck, FileClaim, Replaced, CallInv
  <2> QED
    BY <1>5, <2>1, <2>2, <2>3
<1>6. ASSUME NEW c \in Callers, FileEvict(c) PROVE CacheShape'
  BY <1>6 DEF FileEvict
<1>7. ASSUME NEW c \in Callers, FileIncrement(c) PROVE CacheShape'
  <2>1. [val |-> 1, exp |-> NoExpiry] \in Stored
    BY DEF Stored, Entries, NoExpiry, Text
  <2> QED
    BY <1>7, <2>1 DEF FileIncrement
<1>8. ASSUME NEW c \in Callers, FileRemain(c) PROVE CacheShape'
  <2>1. [val |-> seen[c].val + 1, exp |-> IF Expired(seen[c]) THEN NoExpiry ELSE seen[c].exp] \in Stored
    BY <1>8 DEF FileRemain, CallInv, Stored, Entries, Text, NoExpiry
  <2> QED
    BY <1>8, <2>1 DEF FileRemain
<1>9. ASSUME NEW c \in Callers, FileStore(c) PROVE CacheShape'
  <2>1. temp[c] \in Stored /\ temp[c].val \in Nat
    BY <1>9 DEF FileStore, CallInv, FreshCount, NextCount, Stored, Entries, Text
  <2> QED
    BY <1>9, <2>1 DEF FileStore
<1>10. CASE JanitorStep \/ CloseBegins \/ CloseEnds
  BY <1>10 DEF JanitorStep, Sweep, SweepRemove, JanitorStops, CloseBegins, CloseEnds, Replaced
<1>11. CASE \E w \in 1..MaxWindows : Expire(w)
  BY <1>11 DEF Expire
<1> QED
  BY <1>1, <1>2, <1>3, <1>4, <1>5, <1>6, <1>7, <1>8, <1>9, <1>10, <1>11 DEF Next, CallStep

LEMMA CallInvStep ==
    ASSUME CacheShape, CallInv, Next PROVE CallInv'
<1> USE DEF CallInv, Goto, Return, Forget, history, janVars, callVars, Files, FreshCount, NextCount, Live,
       Expired
<1>0. pc \in [Callers -> Stages] /\ seen \in [Callers -> Stored \cup {None, Corrupt}]
      /\ temp \in [Callers -> Stored \cup {None}]
  BY DEF CacheShape
<1>1. ASSUME NEW c \in Callers, Refuse(c) \/ Read(c) \/ FileRead(c) \/ Evict(c) \/ Delete(c) \/ FileEvict(c)
      PROVE  CallInv'
  BY <1>0, <1>1 DEF Refuse, Read, FileRead, Evict, Delete, FileEvict
<1>2. ASSUME NEW c \in Callers, Set(c) \/ SetNX(c) \/ Increment(c) PROVE CallInv'
  <2>1. CASE Set(c) \/ SetNX(c)
    BY <1>0, <2>1 DEF Set, SetNX
  <2>2. CASE Increment(c)
    <3>1. /\ pc' = [pc EXCEPT ![c] = "done"]
          /\ driver' = driver /\ use' = use /\ seen' = seen /\ temp' = temp /\ nxMu' = nxMu /\ past' = past
      BY <2>2 DEF Increment
    <3> QED
      BY <1>0, <3>1
  <2> QED
    BY <1>2, <2>1, <2>2
<1>3. ASSUME NEW c \in Callers, FileWrite(c) PROVE CallInv'
  <2>1. PICK item \in Items : NewItem(item) /\ temp' = [temp EXCEPT ![c] = item]
    BY <1>3 DEF FileWrite
  <2>2. item \in Stored /\ item.val = Text
    BY <2>1, NewItemIsStored
  <2>3. /\ temp'[c] = item /\ pc'[c] = IF use = "lock" THEN "nxwait" ELSE "rename"
        /\ \A q \in Callers \ {c} : pc'[q] = pc[q] /\ temp'[q] = temp[q]
        /\ UNCHANGED <<use, driver, seen, nxMu, past>> /\ driver \in {"file", "nolinks"}
    BY <1>0, <1>3, <2>1 DEF FileWrite
  <2>4. use \in {"lock", "count"}
    BY DEF CacheShape
  <2> QED
    BY <2>2, <2>3, <2>4
<1>4. ASSUME NEW c \in Callers, WriteFails(c) \/ FileRename(c) PROVE CallInv'
  BY <1>0, <1>4 DEF WriteFails, FileRename
<1>5. ASSUME NEW c \in Callers, FileLink(c) PROVE CallInv'
  BY <1>0, <1>5, CacheAssumption DEF FileLink, LinkOrCheck
<1>6. ASSUME NEW c \in Callers, FileCheck(c) PROVE CallInv'
  BY <1>0, <1>6 DEF FileCheck
<1>7. ASSUME NEW c \in Callers, FileClaim(c) PROVE CallInv'
  BY <1>0, <1>7 DEF FileClaim
<1>8. ASSUME NEW c \in Callers, FileIncrement(c) PROVE CallInv'
  <2>1. /\ \A q \in Callers \ {c} : pc'[q] = pc[q] /\ temp'[q] = temp[q] /\ seen'[q] = seen[q]
        /\ UNCHANGED <<use, driver, nxMu, past>> /\ use = "count"
    BY <1>0, <1>8 DEF FileIncrement, Counts
  <2>2. CASE pc'[c] = "done"
    BY <2>1, <2>2
  <2>3. CASE pc'[c] = "remain"
    <3>1. seen'[c] = entry /\ entry \in Stored /\ entry.val # Text
      BY <1>0, <1>8, <2>3, StoredIsItem DEF FileIncrement
    <3> QED
      BY <2>1, <2>3, <3>1
  <2>4. CASE pc'[c] = "store"
    <3>1. seen'[c] = entry /\ ~Live(entry) /\ temp'[c] = [val |-> 1, exp |-> NoExpiry]
      BY <1>0, <1>8, <2>4 DEF FileIncrement
    <3>2. [val |-> 1, exp |-> NoExpiry] \in Stored
      BY DEF Stored, Entries, NoExpiry, Text
    <3> QED
      BY <2>1, <2>4, <3>1, <3>2
  <2> QED
    BY <1>0, <1>8, <2>2, <2>3, <2>4 DEF FileIncrement
<1>9. ASSUME NEW c \in Callers, FileRemain(c) PROVE CallInv'
  <2>1. /\ pc'[c] = "store" /\ UNCHANGED <<use, driver, seen, nxMu, past>> /\ use = "count"
        /\ \A q \in Callers \ {c} : pc'[q] = pc[q] /\ temp'[q] = temp[q]
        /\ temp'[c] = [val |-> seen[c].val + 1, exp |-> IF Expired(seen[c]) THEN NoExpiry ELSE seen[c].exp]
        /\ seen[c] \in Stored /\ seen[c].val # Text
    BY <1>0, <1>9 DEF FileRemain
  <2>2. temp'[c] \in Stored
    BY <1>0, <1>9, ShapeStep, <2>1 DEF Stored, Entries, NoExpiry, Text
  <2> QED
    BY <2>1, <2>2
<1>10. ASSUME NEW c \in Callers, FileStore(c) PROVE CallInv'
  BY <1>0, <1>10 DEF FileStore
<1>11. CASE JanitorStep \/ CloseBegins \/ CloseEnds
  BY <1>11 DEF JanitorStep, Sweep, SweepRemove, JanitorStops, CloseBegins, CloseEnds
<1>12. CASE \E w \in 1..MaxWindows : Expire(w)
  BY <1>12 DEF Expire
<1> QED
  BY <1>1, <1>2, <1>3, <1>4, <1>5, <1>6, <1>7, <1>8, <1>9, <1>10, <1>11, <1>12 DEF Next, CallStep

-----------------------------------------------------------------------------
(* Nobody owns a key without a live entry.                                 *)
LEMMA FreeKey ==
    ASSUME CacheShape, HoldInv, ~evicted, ~Live(entry) PROVE holders = {}
  BY StoredIsItem DEF HoldInv, Live, Expired, IsItem

(* A key is won by a caller that finds it free.                            *)
LEMMA WinnerHolds ==
    ASSUME NEW c, NEW item \in Stored, holders = {}, past' = past, entry' = item,
           holders' = Won(c, item)
    PROVE  /\ \A h \in holders' : entry' \in Stored /\ entry'.exp = h[2] /\ h[2] \notin past'
           /\ \A h, k \in holders' : h = k
<1>1. holders' = {} \/ (holders' = {<<c, item.exp>>} /\ item.exp \notin past)
  BY DEF Won
<1> QED
  BY <1>1

LEMMA HoldStep ==
    ASSUME CacheShape, CallInv, HoldInv, Next PROVE HoldInv'
<1> USE DEF Goto, Return, Forget, history, janVars, callVars
<1>0. pc \in [Callers -> Stages] /\ evicted \in BOOLEAN
  BY DEF CacheShape
<1>1. ASSUME UNCHANGED <<use, entry, past, holders, evicted>>,
             NEW c \in Callers, pc' = [pc EXCEPT ![c] = pc'[c]] \/ pc' = pc, pc'[c] # "claim"
      PROVE  HoldInv'
  BY <1>0, <1>1 DEF HoldInv
<1>2. ASSUME holders' = {} PROVE HoldInv'
  BY <1>2 DEF HoldInv
<1>3. ASSUME use' = use, use = "count", holders' = holders PROVE HoldInv'
  BY <1>2, <1>3 DEF HoldInv
<1>4. ASSUME NEW c \in Callers, Refuse(c) \/ Read(c) \/ FileRead(c) \/ WriteFails(c) \/ FileWrite(c)
      PROVE  HoldInv'
  BY <1>0, <1>1, <1>4 DEF Refuse, Read, FileRead, WriteFails, FileWrite
<1>5. ASSUME NEW c \in Callers, Set(c) \/ Delete(c) \/ FileRename(c) PROVE HoldInv'
  BY <1>2, <1>5 DEF Set, Delete, FileRename, Replaced
<1>6. ASSUME NEW c \in Callers, Increment(c) \/ FileIncrement(c) \/ FileRemain(c) \/ FileStore(c) PROVE HoldInv'
  BY <1>3, <1>6 DEF Increment, FileIncrement, FileRemain, FileStore, Counts, CallInv
<1>7. ASSUME NEW c \in Callers, SetNX(c) PROVE HoldInv'
  <2>1. CASE Live(entry) /\ UNCHANGED <<entry, windows, history>>
    BY <1>0, <1>1, <1>7, <2>1 DEF SetNX
  <2>2. CASE ~Live(entry) /\ \E item \in Items : NewItem(item) /\ entry' = item /\ Replaced(Won(c, item))
    <3>1. PICK item \in Items : NewItem(item) /\ entry' = item /\ Replaced(Won(c, item))
      BY <2>2
    <3>2. /\ item \in Stored /\ past' = past /\ holders' = Won(c, item) /\ evicted' = evicted
          /\ use' = use /\ use = "lock" /\ ~Files /\ pc' = [pc EXCEPT ![c] = "done"]
      BY <1>7, <3>1, NewItemIsStored DEF SetNX, Replaced, Locks
    <3>3. ~evicted => holders = {}
      BY <2>2, FreeKey
    <3>4. \A q \in Callers : pc'[q] # "claim"
      BY <1>0, <3>2 DEF CallInv
    <3> QED
      BY <3>1, <3>2, <3>3, <3>4, WinnerHolds DEF HoldInv
  <2> QED
    BY <1>7, <2>1, <2>2 DEF SetNX
<1>8. ASSUME NEW c \in Callers, FileLink(c) \/ FileClaim(c) PROVE HoldInv'
  <2>1. CASE FileLink(c) /\ UNCHANGED <<entry, seen, temp, history>> /\ pc' = [pc EXCEPT ![c] = "check"]
    BY <1>0, <1>1, <2>1 DEF FileLink
  <2>2. CASE entry' = temp[c] /\ Replaced(Won(c, temp[c])) /\ pc' = [pc EXCEPT ![c] = "done"]
    <3>1. /\ temp[c] \in Stored /\ past' = past /\ holders' = Won(c, temp[c]) /\ evicted' = evicted
          /\ use' = use /\ use = "lock"
      BY <1>8, <2>2 DEF FileLink, FileClaim, CallInv, Replaced
    <3>2. ~evicted => holders = {}
      <4>1. CASE FileClaim(c)
        BY <4>1 DEF FileClaim, HoldInv
      <4>2. CASE FileLink(c)
        <5>1. entry = None
          BY <1>0, <2>2, <4>2 DEF FileLink, LinkOrCheck
        <5> QED
          BY <5>1, FreeKey DEF Live, IsItem
      <4> QED
        BY <1>8, <4>1, <4>2
    <3>3. \A q \in Callers : pc'[q] # "claim"
      <4>1. \A q \in Callers : pc[q] = "claim" => q = c
        BY <1>8, CacheAssumption DEF FileLink, FileClaim, CallInv
      <4> QED
        BY <1>0, <2>2, <4>1
    <3> QED
      BY <2>2, <3>1, <3>2, <3>3, WinnerHolds DEF HoldInv
  <2> QED
    BY <1>8, <2>1, <2>2 DEF FileLink, LinkOrCheck, FileClaim
<1>9. ASSUME NEW c \in Callers, FileCheck(c) PROVE HoldInv'
  <2>1. CASE pc'[c] = "claim"
    <3>1. ~evicted => holders = {}
      BY <1>0, <1>9, <2>1, FreeKey DEF FileCheck
    <3> QED
      BY <1>0, <1>9, <3>1 DEF FileCheck, HoldInv
  <2>2. CASE pc'[c] # "claim"
    BY <1>0, <1>1, <1>9, <2>2 DEF FileCheck
  <2> QED
    BY <2>1, <2>2
<1>10. ASSUME UNCHANGED <<use, past, holders>>, ~evicted' => ~evicted /\ ~Live(entry),
              \A q \in Callers : pc'[q] = "claim" => pc[q] = "claim"
       PROVE  HoldInv'
  <2>1. ~evicted' => holders = {}
    BY <1>10, FreeKey
  <2> QED
    BY <1>10, <2>1 DEF HoldInv
<1>11. ASSUME NEW c \in Callers, Evict(c) PROVE HoldInv'
  <2>1. CASE Live(entry)
    BY <1>0, <1>1, <1>11, <2>1 DEF Evict
  <2>2. CASE ~Live(entry)
    BY <1>0, <1>10, <1>11, <2>2 DEF Evict
  <2> QED
    BY <2>1, <2>2
<1>12. ASSUME NEW c \in Callers, FileEvict(c) PROVE HoldInv'
  BY <1>0, <1>10, <1>12 DEF FileEvict
<1>13. CASE Sweep \/ SweepRemove
  BY <1>0, <1>10, <1>13 DEF Sweep, SweepRemove, Dead
<1>14. CASE JanitorStops \/ CloseBegins
  BY <1>14 DEF JanitorStops, CloseBegins, HoldInv
<1>15. CASE CloseEnds
  BY <1>2, <1>15 DEF CloseEnds, Replaced, HoldInv
<1>16. CASE \E w \in 1..MaxWindows : Expire(w)
  <2>1. PICK w \in 1..MaxWindows : Expire(w)
    BY <1>16
  <2>2. holders' = {h \in holders : h[2] # w} /\ past' = past \cup {w}
        /\ UNCHANGED <<use, entry, evicted, pc>>
    BY <2>1 DEF Expire
  <2> QED
    BY <2>2 DEF HoldInv
<1> QED
  BY <1>4, <1>5, <1>6, <1>7, <1>8, <1>9, <1>11, <1>12, <1>13, <1>14, <1>15, <1>16
     DEF Next, CallStep, JanitorStep

-----------------------------------------------------------------------------
(* The providers keep CacheInv.                                            *)
THEOREM CacheInvariant == Spec => []CacheInv
<1>1. Init => CacheInv
  BY CacheInvInit
<1>2. CacheInv /\ [Next]_vars => CacheInv'
  <2> SUFFICES ASSUME CacheInv, [Next]_vars PROVE CacheInv'
    OBVIOUS
  <2>1. CASE Next
    BY <2>1, ShapeStep, CallInvStep, HoldStep DEF CacheInv
  <2>2. CASE UNCHANGED vars
    BY <2>2 DEF vars, CacheInv, CacheShape, CallInv, HoldInv, Files, FreshCount, NextCount, Live,
         Expired
  <2> QED
    BY <2>1, <2>2
<1> QED
  BY <1>1, <1>2, PTL DEF Spec

(* A key that SetNX won belongs to one caller, on every provider, however  *)
(* many callers reclaim it when it expires.                                *)
THEOREM OneHolderAlways == Spec => []OneHolder
<1>1. CacheInv => OneHolder
  <2> SUFFICES ASSUME CacheInv, ~evicted PROVE Cardinality(holders) <= 1
    BY DEF OneHolder
  <2>1. \A h, k \in holders : h = k
    BY DEF CacheInv, HoldInv
  <2>2. CASE holders = {}
    BY <2>2, FS_EmptySet
  <2>3. ASSUME NEW h \in holders PROVE Cardinality(holders) <= 1
    <3>1. holders = {h}
      BY <2>1
    <3> QED
      <4>1. Cardinality({h}) = 1
        BY FS_Singleton
      <4> QED
        BY <3>1, <4>1
  <2> QED
    BY <2>2, <2>3
<1> QED
  BY <1>1, CacheInvariant, PTL

(* No eviction, sweep or Increment shortens the life of a live entry in    *)
(* memory or Redis, and no Increment moves the deadline of a count.        *)
THEOREM TimeIsKept == Spec => LiveEntriesKeepTheirTime
<1> DEFINE Kept ==
      /\ (Live(entry) /\ entry' = None) => Files \/ CloseEnds \/ \E c \in Callers : Delete(c)
      /\ (Live(entry) /\ IsItem(entry') /\ entry'.val = entry.val + 1 /\ entry.val # Text) =>
           overlap' \/ entry'.exp = entry.exp
<1>1. ASSUME CacheInv, Next PROVE Kept
  <2>0. /\ CacheShape /\ CallInv
        /\ Live(entry) => entry # None /\ entry \in Stored /\ entry.val \in Int /\ entry.val >= Text
    BY <1>1, StoredIsItem DEF CacheInv, Live, IsItem, Stored, Entries
  <2>1. CASE entry' = entry
    BY <2>0, <2>1
  <2>2. CASE ~Live(entry) \/ CloseEnds \/ \E c \in Callers : Delete(c)
    BY <2>2, StoredIsItem DEF CloseEnds, Delete, IsItem
  <2>3. ASSUME NEW c \in Callers, Set(c) \/ SetNX(c) PROVE Kept
    <3>1. CASE entry' = entry \/ ~Live(entry)
      BY <2>1, <2>2, <3>1
    <3>2. CASE \E item \in Items : NewItem(item) /\ entry' = item
      BY <2>0, <3>2, NewItemIsStored, StoredIsItem DEF Text, IsItem
    <3> QED
      BY <2>3, <3>1, <3>2 DEF Set, SetNX
  <2>4. ASSUME NEW c \in Callers, Increment(c) PROVE Kept
    <3>1. CASE ~Live(entry) \/ entry.val = Text
      BY <2>1, <2>2, <2>4, <3>1 DEF Increment
    <3>2. CASE Live(entry) /\ entry.val # Text
      <4>1. entry' = [entry EXCEPT !.val = @ + 1] /\ entry \in Entries
        BY <2>0, <2>4, <3>2 DEF Increment, Stored
      <4>2. entry' \in Entries /\ entry'.exp = entry.exp
        BY <4>1 DEF Entries
      <4> QED
        BY <4>2, CacheAssumption
    <3> QED
      BY <3>1, <3>2
  <2>5. ASSUME NEW c \in Callers, FileRename(c) \/ FileLink(c) \/ FileClaim(c) PROVE Kept
    <3>1. CASE entry' = entry \/ ~Live(entry)
      BY <2>1, <2>2, <3>1
    <3>2. CASE entry' = temp[c] /\ temp[c] \in Stored /\ temp[c].val = Text
      BY <2>0, <3>2, StoredIsItem DEF Text, IsItem
    <3> QED
      BY <2>0, <2>5, <3>1, <3>2 DEF FileRename, FileLink, LinkOrCheck, FileClaim, CallInv, Live, IsItem
  <2>6. ASSUME NEW c \in Callers, FileStore(c) PROVE Kept
    <3>1. /\ entry' = temp[c] /\ overlap' = (overlap \/ entry # seen[c]) /\ temp[c] \in Stored
          /\ FreshCount(c) \/ NextCount(c)
      BY <2>0, <2>6 DEF FileStore, CallInv
    <3>2. entry' # None
      BY <3>1, StoredIsItem DEF IsItem
    <3>3. Live(entry) /\ entry = seen[c] => entry'.exp = entry.exp
      BY <3>1 DEF FreshCount, NextCount, Live
    <3> QED
      BY <3>1, <3>2, <3>3
  <2>7. ASSUME NEW c \in Callers, Evict(c) PROVE Kept
    BY <2>1, <2>2, <2>7 DEF Evict
  <2>8. ASSUME NEW c \in Callers, FileEvict(c) PROVE Kept
    BY <2>0, <2>8 DEF FileEvict, IsItem
  <2>9. CASE JanitorStep
    <3>1. CASE SweepRemove
      BY <2>0, <3>1 DEF SweepRemove, CacheShape, Files, IsItem
    <3>2. CASE Sweep
      BY <2>1, <2>2, <3>2 DEF Sweep, Dead
    <3>3. CASE JanitorStops
      BY <2>1, <3>3 DEF JanitorStops
    <3> QED
      BY <2>9, <3>1, <3>2, <3>3 DEF JanitorStep
  <2>10. ASSUME NEW c \in Callers,
                Refuse(c) \/ Read(c) \/ FileRead(c) \/ WriteFails(c) \/ FileWrite(c) \/ FileCheck(c)
         PROVE  Kept
    BY <2>1, <2>10 DEF Refuse, Read, FileRead, WriteFails, FileWrite, FileCheck
  <2>11. ASSUME NEW c \in Callers, FileIncrement(c) \/ FileRemain(c) PROVE Kept
    BY <2>1, <2>11 DEF FileIncrement, FileRemain
  <2>12. CASE CloseBegins \/ \E w \in 1..MaxWindows : Expire(w)
    BY <2>1, <2>12 DEF CloseBegins, Expire
  <2> HIDE DEF Kept
  <2> QED
    BY <1>1, <2>2, <2>3, <2>4, <2>5, <2>6, <2>7, <2>8, <2>9, <2>10, <2>11, <2>12 DEF Next, CallStep
<1>2. CacheInv /\ [Next]_vars => [Kept]_vars
  BY <1>1
<1> QED
  BY <1>2, CacheInvariant, PTL DEF Spec, LiveEntriesKeepTheirTime
=============================================================================
