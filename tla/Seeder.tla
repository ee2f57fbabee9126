------------------------------- MODULE Seeder -------------------------------
(***************************************************************************)
(* The seeders of common/sqldb/seed and common/mongodb/seed: Run executes  *)
(* the seeds that are not recorded and those marked AlwaysRun, RunOnly the *)
(* named ones, in the order of the seeds.  A seed's name is recorded       *)
(* before its body runs: an SQL seeder does both in one transaction, the   *)
(* Mongo seeder in two statements, and a third one takes the record back   *)
(* when the body fails.  Several processes seed the same database, any     *)
(* statement may fail, and a process may crash between two of them.        *)
(***************************************************************************)
EXTENDS Integers, FiniteSets, FiniteSetsExt

CONSTANTS
    Seeders,        \* the processes
    Seeds,          \* the seeds, as numbers in their order
    AlwaysRun,      \* the seeds that run every time
    MaxSeedings     \* bound: how many calls are made

ASSUME SeederAssumption ==
    /\ Seeds \subseteq Nat \ {0} /\ IsFiniteSet(Seeds)
    /\ AlwaysRun \subseteq Seeds /\ MaxSeedings \in Nat

VARIABLES
    store,       \* "sql" or "mongo"; "none" when nothing is seeded
    names,       \* the recorded seeds (committed)
    seeded,      \* seeded[s]: how often Run put the data of s in place
    byName,      \* byName[s]: how often RunOnly did
    at,          \* at[p]: "idle", "read", "next", "claimed" or "failed"
    only,        \* only[p]: the call of p is RunOnly
    todo,        \* todo[p]: the seeds the call has yet to run
    seed,        \* seed[p]: the seed in progress, or 0
    seedings     \* the number of calls made

seedVars == <<store, names, seeded, byName, at, only, todo, seed, seedings>>

SeedInit(stores) ==
    /\ store \in stores /\ names = {}
    /\ seeded = [s \in Seeds |-> 0] /\ byName = [s \in Seeds |-> 0]
    /\ at = [p \in Seeders |-> "idle"] /\ only = [p \in Seeders |-> FALSE]
    /\ todo = [p \in Seeders |-> {}] /\ seed = [p \in Seeders |-> 0]
    /\ seedings = 0

Move(p, to) == at' = [at EXCEPT ![p] = to]

Run(p) ==
    /\ at[p] = "idle" /\ seedings < MaxSeedings
    /\ seedings' = seedings + 1 /\ only' = [only EXCEPT ![p] = FALSE]
    /\ Move(p, "read")
    /\ UNCHANGED <<store, names, seeded, byName, todo, seed>>

RunOnly(p, some) ==
    /\ at[p] = "idle" /\ seedings < MaxSeedings
    /\ seedings' = seedings + 1 /\ only' = [only EXCEPT ![p] = TRUE]
    /\ todo' = [todo EXCEPT ![p] = some] /\ Move(p, "next")
    /\ UNCHANGED <<store, names, seeded, byName, seed>>

AppliedNames(p) ==
    /\ at[p] = "read"
    /\ todo' = [todo EXCEPT ![p] = (Seeds \ names) \cup AlwaysRun]
    /\ Move(p, "next")
    /\ UNCHANGED <<store, names, seeded, byName, only, seed, seedings>>

Returns(p) ==
    /\ at[p] = "next" /\ todo[p] = {}
    /\ Move(p, "idle")
    /\ UNCHANGED <<store, names, seeded, byName, only, todo, seed, seedings>>

-----------------------------------------------------------------------------
(***************************************************************************)
(* runOne.                                                                 *)
(***************************************************************************)
Exclusive(p, s) == ~only[p] /\ s \notin AlwaysRun

\* An open transaction of another process that has written the row of s.
NameBusy(p, s) == store = "sql" /\ \E q \in Seeders \ {p} : at[q] = "claimed" /\ seed[q] = s

Give(p) == /\ Move(p, "idle") /\ todo' = [todo EXCEPT ![p] = {}]
           /\ seed' = [seed EXCEPT ![p] = 0]

RecordLater(p) ==
    /\ at[p] = "next" /\ todo[p] # {}
    /\ LET s == Min(todo[p]) IN
         /\ seed' = [seed EXCEPT ![p] = s] /\ Move(p, "claimed") /\ UNCHANGED <<todo, names>>
    /\ UNCHANGED <<store, seeded, byName, only, seedings>>

\* The insert of an exclusive seed is refused when the name is recorded.  An
\* upsert never is.  Mongo's is in force at once, SQL's with the commit.
Record(p) ==
    /\ at[p] = "next" /\ todo[p] # {}
    /\ LET s == Min(todo[p]) IN
         /\ ~NameBusy(p, s)
         /\ \/ Exclusive(p, s) /\ s \in names /\ Give(p) /\ UNCHANGED names
            \/ /\ Exclusive(p, s) => s \notin names
               /\ seed' = [seed EXCEPT ![p] = s] /\ Move(p, "claimed") /\ UNCHANGED todo
               /\ names' = IF store = "mongo" THEN names \cup {s} ELSE names
    /\ UNCHANGED <<store, seeded, byName, only, seedings>>

\* The body, and the commit of the transaction it ran in.
Body(p) ==
    /\ at[p] = "claimed"
    /\ names' = names \cup (IF store = "sql" THEN {seed[p]} ELSE {})
    /\ \/ ~only[p] /\ seeded' = [seeded EXCEPT ![seed[p]] = @ + 1] /\ UNCHANGED byName
       \/ only[p] /\ byName' = [byName EXCEPT ![seed[p]] = @ + 1] /\ UNCHANGED seeded
    /\ todo' = [todo EXCEPT ![p] = @ \ {seed[p]}] /\ seed' = [seed EXCEPT ![p] = 0]
    /\ Move(p, "next")
    /\ UNCHANGED <<store, only, seedings>>

\* The body or the commit failed: SQL rolls back, Mongo deletes the record of
\* an exclusive seed in a statement of its own.  A Mongo body may have written
\* some of its documents: the counters count the bodies that returned nil.
BodyFails(p) ==
    /\ at[p] = "claimed"
    /\ \/ store = "mongo" /\ Exclusive(p, seed[p]) /\ Move(p, "failed") /\ UNCHANGED <<todo, seed>>
       \/ ~(store = "mongo" /\ Exclusive(p, seed[p])) /\ Give(p)
    /\ UNCHANGED <<store, names, seeded, byName, only, seedings>>

\* The error of the delete is dropped.
Withdraw(p) ==
    /\ at[p] = "failed"
    /\ names' \in {names, names \ {seed[p]}}
    /\ Give(p)
    /\ UNCHANGED <<store, seeded, byName, only, seedings>>

\* A query, an insert or the beginning of a transaction failed.
SeedingFails(p) ==
    /\ at[p] = "read" \/ (at[p] = "next" /\ todo[p] # {})
    /\ Give(p)
    /\ UNCHANGED <<store, names, seeded, byName, only, seedings>>

SeederCrash(p) ==
    /\ at[p] # "idle"
    /\ Give(p)
    /\ UNCHANGED <<store, names, seeded, byName, only, seedings>>

SeedNext ==
    \E p \in Seeders :
        \/ Run(p) \/ AppliedNames(p) \/ Returns(p)
        \/ \E some \in SUBSET Seeds \ {{}} : RunOnly(p, some)
        \/ Record(p) \/ Body(p) \/ BodyFails(p) \/ Withdraw(p)
        \/ SeedingFails(p) \/ SeederCrash(p)

-----------------------------------------------------------------------------
(* "A once-only seed claims its name exclusively so a concurrent process   *)
(* cannot insert the same reference data twice" (mongodb/seed/seed.go:192, *)
(* sqldb/seed/seed.go:208): whatever races, fails, crashes and is run      *)
(* again, Run puts the data of a once-only seed in place at most once.     *)
(* And on SQL, where the record and the data are one transaction, a name   *)
(* is recorded exactly when its data is in place, after any crash; on      *)
(* Mongo a name that is not recorded has no data of Run.                   *)
SeededOnce ==
    \A s \in Seeds :
        /\ s \notin AlwaysRun => seeded[s] <= 1
        /\ store = "sql" => (s \in names <=> seeded[s] + byName[s] > 0)
        /\ (store = "mongo" /\ s \notin AlwaysRun /\ s \notin names) => seeded[s] = 0
=============================================================================
