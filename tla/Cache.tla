-------------------------------- MODULE Cache -------------------------------
(***************************************************************************)
(* One key of the cache of common/cache: the operations of the Provider    *)
(* interface as the memory, file and Redis providers carry them out, the   *)
(* janitor and Close.                                                      *)
(*                                                                         *)
(* The memory provider works under mu and Redis runs one command per call, *)
(* so their operations are one step, but for the memory Get that drops an  *)
(* expired entry under a second lock.  The file provider has no lock but   *)
(* nxMu: its steps are the system calls, on the one file of the key.       *)
(*                                                                         *)
(* A deadline is a window: a number, in `past` once its time has come.     *)
(***************************************************************************)
EXTENDS Integers, FiniteSets

CONSTANTS
    Callers,     \* the goroutines of the process, one call each
    Drivers,     \* subset of {"memory", "redis", "file", "nolinks"}
    None,        \* no entry
    Corrupt,     \* a file that cannot be decoded
    MaxWindows   \* bound: how many deadlines are handed out

\* What may be stored: a value and a deadline.
Entries == [val : Int, exp : Nat]

ASSUME CacheAssumption ==
    /\ Drivers \subseteq {"memory", "redis", "file", "nolinks"}
    /\ MaxWindows \in Nat \ {0}
    /\ None # Corrupt /\ None \notin Entries /\ Corrupt \notin Entries
    /\ None \notin Callers

VARIABLES
    driver,     \* the provider; "nolinks": files on a mount without hard links
    use,        \* what the key is for: a "lock" or a "count"
    entry,      \* the entry of the key: [val, exp], None or Corrupt
    windows,    \* the deadlines handed out so far
    past,       \* those whose time has come
    pc,         \* pc[c]: where the call of c is
    seen,       \* seen[c]: what c has read
    temp,       \* temp[c]: the item c has written to its scratch file
    nxMu,       \* the holder of nxMu, or None
    janitor,    \* "none", "idle", "sweep" (a file read, to be removed), "gone"
    closer,     \* Close: "idle", "stopping" or "done"
    holders,    \* history: <<c, exp>> for the SetNX that still own the key
    returned,   \* history: what Increment returned since the counter began
    clash,      \* history: an Increment returned a number twice
    overlap,    \* history: a file Increment overwrote what it had not read
    evicted     \* history: a file was removed that is not the one read

vars == <<driver, use, entry, windows, past, pc, seen, temp, nxMu, janitor, closer,
          holders, returned, clash, overlap, evicted>>
history == <<holders, returned, clash, overlap, evicted>>
janVars == <<janitor, closer>>
callVars == <<pc, seen, temp, nxMu>>

Text == -1                              \* a value that is no integer
NoExpiry == 0
Files == driver \in {"file", "nolinks"}
IsItem(e) == e \notin {None, Corrupt}
Expired(e) == e.exp \in past
Live(e) == IsItem(e) /\ ~Expired(e)

Init ==
    /\ driver \in Drivers /\ use \in {"lock", "count"}
    /\ windows = 1 /\ past = {}
    /\ entry \in {None, [val |-> IF use = "count" THEN 0 ELSE Text, exp |-> 1]}
                 \cup (IF Files THEN {Corrupt} ELSE {})
    /\ pc = [c \in Callers |-> "idle"]
    /\ seen = [c \in Callers |-> None] /\ temp = [c \in Callers |-> None]
    /\ nxMu = None
    /\ janitor \in (IF driver = "redis" THEN {"none"} ELSE {"none", "idle"})
    /\ closer = "idle"
    /\ holders = {} /\ returned = {}
    /\ clash = FALSE /\ overlap = FALSE /\ evicted = FALSE

Goto(c, to) == pc' = [pc EXCEPT ![c] = to]
Return(c) == Goto(c, "done")
Forget(c) == seen' = [seen EXCEPT ![c] = None] /\ temp' = [temp EXCEPT ![c] = None]

\* encode and deadline: no expiry, or a deadline of its own.
NewItem(item) ==
    /\ item \in [val : {Text}, exp : {NoExpiry, windows + 1}]
    /\ item.exp <= MaxWindows
    /\ windows' = IF item.exp = NoExpiry THEN windows ELSE item.exp
Items == [val : {Text}, exp : 0..MaxWindows]

\* The entry is replaced or gone: whoever owned the key no longer does.
Replaced(owners) ==
    /\ holders' = owners /\ returned' = {}
    /\ UNCHANGED <<clash, overlap, evicted>>
Won(c, item) == IF item.exp \in past THEN holders ELSE holders \cup {<<c, item.exp>>}

\* A count goes on for as long as its entry lives.
Counted(n) ==
    /\ returned' = IF Live(entry) THEN returned \cup {n} ELSE {n}
    /\ clash' = (clash \/ (Live(entry) /\ n \in returned))

-----------------------------------------------------------------------------
(***************************************************************************)
(* Every provider refuses an empty key and a value it cannot encode before *)
(* it touches anything; a closed Redis client refuses everything.          *)
(***************************************************************************)
Refuse(c) ==
    /\ pc[c] = "idle"
    /\ Return(c)
    /\ UNCHANGED <<driver, use, entry, windows, past, seen, temp, nxMu, janVars, history>>

Ready(c) == pc[c] = "idle" /\ ~(driver = "redis" /\ closer = "done")
Locks(c) == Ready(c) /\ use = "lock"
Counts(c) == Ready(c) /\ use = "count"

(***************************************************************************)
(* The memory and the Redis provider.                                      *)
(***************************************************************************)
Set(c) ==
    /\ Counts(c) /\ ~Files
    /\ \E item \in Items : NewItem(item) /\ entry' = item
    /\ Replaced({}) /\ Return(c)
    /\ UNCHANGED <<driver, use, past, seen, temp, nxMu, janVars>>

SetNX(c) ==
    /\ Locks(c) /\ ~Files
    /\ \/ Live(entry) /\ Return(c) /\ UNCHANGED <<entry, windows, history>>
       \/ /\ ~Live(entry)
          /\ \E item \in Items : NewItem(item) /\ entry' = item /\ Replaced(Won(c, item))
          /\ Return(c)
    /\ UNCHANGED <<driver, use, past, seen, temp, nxMu, janVars>>

\* Get and TTL read; only the memory Get comes back for an expired entry.
Read(c) ==
    /\ Ready(c) /\ ~Files
    /\ \/ Return(c)
       \/ driver = "memory" /\ IsItem(entry) /\ Expired(entry) /\ Goto(c, "evict")
    /\ UNCHANGED <<driver, use, entry, windows, past, seen, temp, nxMu, janVars, history>>

EvictUnchecked(c) ==
    /\ pc[c] = "evict" /\ ~Files
    /\ entry' = None
    /\ Return(c)
    /\ UNCHANGED <<driver, use, windows, past, seen, temp, nxMu, janVars, history>>

\* Checked again under the write lock.
Evict(c) ==
    /\ pc[c] = "evict" /\ ~Files
    /\ entry' = IF Live(entry) THEN entry ELSE None
    /\ Return(c)
    /\ UNCHANGED <<driver, use, windows, past, seen, temp, nxMu, janVars, history>>

Delete(c) ==
    /\ Ready(c)
    /\ entry' = None
    /\ Replaced({}) /\ Return(c)
    /\ UNCHANGED <<driver, use, windows, past, seen, temp, nxMu, janVars>>

Increment(c) ==
    /\ Counts(c) /\ ~Files
    /\ \/ /\ Live(entry) /\ entry.val = Text /\ Return(c)
          /\ UNCHANGED <<entry, history>>
       \/ /\ Live(entry) /\ entry.val # Text
          /\ entry' = [entry EXCEPT !.val = @ + 1]
          /\ Counted(entry.val + 1) /\ Return(c)
          /\ UNCHANGED <<holders, overlap, evicted>>
       \/ /\ ~Live(entry)
          /\ entry' = [val |-> 1, exp |-> NoExpiry]
          /\ Counted(1) /\ Return(c)
          /\ UNCHANGED <<holders, overlap, evicted>>
    /\ UNCHANGED <<driver, use, windows, past, seen, temp, nxMu, janVars>>

-----------------------------------------------------------------------------
(***************************************************************************)
(* The file provider.  Any write of a scratch file may fail, which removes *)
(* it again and returns the error.                                         *)
(***************************************************************************)
FileWrite(c) ==
    /\ Ready(c) /\ Files
    /\ \E item \in Items : NewItem(item) /\ temp' = [temp EXCEPT ![c] = item]
    /\ Goto(c, IF use = "lock" THEN "nxwait" ELSE "rename")
    /\ UNCHANGED <<driver, use, entry, past, seen, nxMu, janVars, history>>

\* A temporary file, a rename or a claim failed.
WriteFails(c) ==
    /\ pc[c] \in {"rename", "nxwait", "store", "claim"}
    /\ Return(c) /\ Forget(c)
    /\ nxMu' = IF pc[c] = "claim" THEN None ELSE nxMu
    /\ UNCHANGED <<driver, use, entry, windows, past, janVars, history>>

\* Set: the rename of writeAtomic.
FileRename(c) ==
    /\ pc[c] = "rename"
    /\ entry' = temp[c]
    /\ Replaced({}) /\ Return(c) /\ Forget(c)
    /\ UNCHANGED <<driver, use, windows, past, nxMu, janVars>>

\* SetNX, under nxMu: link, or look at the entry in the way.
LinkOrCheck(c) ==
    \/ /\ entry = None /\ driver = "file"
       /\ entry' = temp[c]
       /\ Replaced(Won(c, temp[c])) /\ Return(c) /\ Forget(c)
       /\ UNCHANGED nxMu
    \/ /\ entry # None \/ driver = "nolinks"
       /\ nxMu' = c /\ Goto(c, "check")
       /\ UNCHANGED <<entry, seen, temp, history>>

FileLinkUnserialized(c) ==
    /\ pc[c] = "nxwait"
    /\ LinkOrCheck(c)
    /\ UNCHANGED <<driver, use, windows, past, janVars>>

FileLink(c) ==
    /\ pc[c] = "nxwait" /\ nxMu = None
    /\ LinkOrCheck(c)
    /\ UNCHANGED <<driver, use, windows, past, janVars>>

\* The entry is live, or cannot be read.
FileCheck(c) ==
    /\ pc[c] = "check"
    /\ \/ Return(c) /\ Forget(c) /\ nxMu' = None
       \/ ~Live(entry) /\ Goto(c, "claim") /\ UNCHANGED <<seen, temp, nxMu>>
    /\ UNCHANGED <<driver, use, entry, windows, past, janVars, history>>

FileClaim(c) ==
    /\ pc[c] = "claim"
    /\ entry' = temp[c]
    /\ Replaced(Won(c, temp[c])) /\ Return(c) /\ Forget(c)
    /\ nxMu' = None
    /\ UNCHANGED <<driver, use, windows, past, janVars>>

\* Get and TTL: an expired file is removed by Get, in a second system call.
FileRead(c) ==
    /\ Ready(c) /\ Files
    /\ Return(c) \/ (IsItem(entry) /\ Expired(entry) /\ Goto(c, "evict"))
    /\ UNCHANGED <<driver, use, entry, windows, past, seen, temp, nxMu, janVars, history>>

FileEvict(c) ==
    /\ pc[c] = "evict" /\ Files
    /\ entry' = None
    /\ evicted' = (evicted \/ Live(entry))
    /\ Return(c)
    /\ UNCHANGED <<driver, use, windows, past, seen, temp, nxMu, janVars,
                   holders, returned, clash, overlap>>

\* Increment: read, find the remaining time, replace.
FileIncrement(c) ==
    /\ Counts(c) /\ Files
    /\ \/ Live(entry) /\ entry.val = Text /\ Return(c) /\ UNCHANGED <<seen, temp>>
       \/ /\ Live(entry) /\ entry.val # Text /\ Goto(c, "remain")
          /\ seen' = [seen EXCEPT ![c] = entry] /\ UNCHANGED temp
       \/ /\ ~Live(entry) /\ Goto(c, "store")
          /\ seen' = [seen EXCEPT ![c] = entry]
          /\ temp' = [temp EXCEPT ![c] = [val |-> 1, exp |-> NoExpiry]]
    /\ UNCHANGED <<driver, use, entry, windows, past, nxMu, janVars, history>>

FileRemain(c) ==
    /\ pc[c] = "remain"
    /\ temp' = [temp EXCEPT ![c] =
                  [val |-> seen[c].val + 1,
                   exp |-> IF Expired(seen[c]) THEN NoExpiry ELSE seen[c].exp]]
    /\ Goto(c, "store")
    /\ UNCHANGED <<driver, use, entry, windows, past, seen, nxMu, janVars, history>>

FileStore(c) ==
    /\ pc[c] = "store"
    /\ entry' = temp[c]
    /\ Counted(temp[c].val)
    /\ overlap' = (overlap \/ entry # seen[c])
    /\ Return(c) /\ Forget(c)
    /\ UNCHANGED <<driver, use, windows, past, nxMu, janVars, holders, evicted>>

-----------------------------------------------------------------------------
(***************************************************************************)
(* The janitor, Close and the clock.                                       *)
(***************************************************************************)
Dead(e) == e # None /\ ~Live(e)

SweepNothing ==
    /\ janitor = "idle" /\ entry = Corrupt
    /\ janitor' = "sweep"
    /\ UNCHANGED <<driver, use, entry, windows, past, callVars, closer, history>>

\* DeleteExpired: under mu in memory; a read and a removal on files.
Sweep ==
    /\ janitor = "idle" /\ Dead(entry)
    /\ \/ Files /\ janitor' = "sweep" /\ UNCHANGED entry
       \/ ~Files /\ entry' = None /\ UNCHANGED janitor
    /\ UNCHANGED <<driver, use, windows, past, callVars, closer, history>>

SweepRemove ==
    /\ janitor = "sweep"
    /\ entry' = None /\ janitor' = "idle"
    /\ evicted' = (evicted \/ Live(entry))
    /\ UNCHANGED <<driver, use, windows, past, callVars, closer,
                   holders, returned, clash, overlap>>

CloseBegins ==
    /\ closer = "idle" /\ closer' = "stopping"
    /\ UNCHANGED <<driver, use, entry, windows, past, callVars, janitor, history>>

JanitorStops ==
    /\ closer = "stopping" /\ janitor = "idle"
    /\ janitor' = "gone"
    /\ UNCHANGED <<driver, use, entry, windows, past, callVars, closer, history>>

\* janitorWG.Wait is over; the memory provider starts an empty map.
CloseEnds ==
    /\ closer = "stopping" /\ janitor \in {"none", "gone"}
    /\ closer' = "done"
    /\ IF driver = "memory" THEN entry' = None /\ Replaced({})
                            ELSE UNCHANGED <<entry, history>>
    /\ UNCHANGED <<driver, use, windows, past, callVars, janitor>>

Expire(w) ==
    /\ w \in 1..windows /\ w \notin past
    /\ past' = past \cup {w}
    /\ holders' = {h \in holders : h[2] # w}
    /\ UNCHANGED <<driver, use, entry, windows, callVars, janVars,
                   returned, clash, overlap, evicted>>

\* The steps that finish a call that has begun.
CallStep(c) ==
    \/ Evict(c) \/ WriteFails(c) \/ FileRename(c) \/ FileLink(c) \/ FileCheck(c)
    \/ FileClaim(c) \/ FileEvict(c) \/ FileRemain(c) \/ FileStore(c)

JanitorStep == Sweep \/ SweepRemove \/ JanitorStops

Next ==
    \/ \E c \in Callers :
         \/ Refuse(c) \/ Set(c) \/ SetNX(c) \/ Read(c) \/ Delete(c) \/ Increment(c)
         \/ FileWrite(c) \/ FileRead(c) \/ FileIncrement(c) \/ CallStep(c)
    \/ JanitorStep \/ CloseBegins \/ CloseEnds
    \/ \E w \in 1..MaxWindows : Expire(w)

Spec == Init /\ [][Next]_vars

\* Goroutines run and the ticker ticks; nobody has to call, Close or expire.
FairSpec ==
    /\ Spec
    /\ WF_vars(JanitorStep) /\ WF_vars(CloseEnds) /\ WF_vars(JanitorStops)
    /\ \A c \in Callers : WF_vars(CallStep(c))

-----------------------------------------------------------------------------
(* A key that SetNX won belongs to one caller until it expires, is deleted *)
(* or is overwritten: an expired lock is reclaimed by one caller only      *)
(* (memory.go:70-71, file.go:31-32).  Not so after a file Get or the       *)
(* janitor removed an entry that replaced the expired one they had read.   *)
OneHolder == evicted \/ Cardinality(holders) <= 1

(* "Increment atomically adds delta ... it must be atomic with respect to  *)
(* concurrent callers" (Interface.go:43-45): no two calls are told the     *)
(* same number of one count.  The file provider, "safe for concurrent use  *)
(* within a single process" (file.go:23), reads, adds and renames without  *)
(* a lock.                                                                 *)
IncrementsAreAtomic == ~clash

(* A live entry lives as long as it was set for.  A lazy eviction or a     *)
(* sweep never takes it: "another goroutine may have replaced the entry in *)
(* the gap" (memory.go:108-109); the file provider gives no such promise.  *)
(* And an Increment keeps the deadline of the counter, so that a rate      *)
(* window ends under sustained traffic (memory.go:154-155,                 *)
(* file.go:323-325).                                                       *)
LiveEntriesKeepTheirTime ==
    [][/\ (Live(entry) /\ entry' = None) =>
             Files \/ CloseEnds \/ \E c \in Callers : Delete(c)
       /\ (Live(entry) /\ IsItem(entry') /\ entry'.val = entry.val + 1 /\ entry.val # Text) =>
             overlap' \/ entry'.exp = entry.exp]_vars

(* With a janitor no expired entry stays until it happens to be read       *)
(* (memory.go:190-195), and Close finds the janitor gone.                  *)
ExpiredIsReclaimed ==
    /\ (janitor = "idle" /\ Dead(entry)) ~> (~Dead(entry) \/ closer # "idle")
    /\ (closer = "stopping") ~> (closer = "done" /\ janitor \in {"none", "gone"})
=============================================================================
