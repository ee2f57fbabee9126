------------------------------ MODULE Migrator ------------------------------
(***************************************************************************)
(* The SQL migration runner of common/sqldb/migration (migration.go,       *)
(* lock.go): pods that share a database call UpN and DownN, under an       *)
(* advisory lock on a session of their own, with one transaction per       *)
(* migration and a tracking table.  A pod's context may be cancelled, its  *)
(* lock session may be lost, and the pod may crash, between any two steps. *)
(*                                                                         *)
(* The database is external.  A deployment has one dialect and one set of  *)
(* migration texts, both chosen at the start: SQLite gets no advisory      *)
(* lock, and on MySQL the DDL of a migration's body commits the            *)
(* transaction it is in.  MongoMigrator continues this module: the Mongo   *)
(* runner has the same calls and reads its tracking collection the same    *)
(* way, but has no lock and no transactions.                               *)
(***************************************************************************)
EXTENDS Integers, FiniteSets, FiniteSetsExt

CONSTANTS
    Pods,            \* the processes, each with one Migrator
    Known,           \* Known[p]: the versions p has registered
    Checksums,       \* the possible checksum tables: s[p][v], of p's text of v
    Dialects,        \* the databases a deployment may use
    Deployed,        \* the sets of versions that may be applied already
    Irreversible,    \* the versions without a Down function
    Limits,          \* the arguments n of UpN and DownN; 0 means all
    Nobody, NoRow,   \* no holder of the lock; a version that is not recorded
    NoSum,           \* the checksum "" of a migration written in Go
    MaxRuns          \* bound: how many calls are made

Versions == UNION {Known[p] : p \in Pods}

ASSUME MigratorAssumption ==
    /\ IsFiniteSet(Pods) /\ \A p \in Pods : Known[p] \subseteq Nat \ {0} /\ IsFiniteSet(Known[p])
    /\ \A s \in Checksums : \A p \in Pods : \A v \in Versions : s[p][v] # NoRow
    /\ Dialects \subseteq {"postgres", "mysql", "sqlite", "mongo"}
    /\ \A done \in Deployed : \A v \in done : \A u \in Versions : u <= v => u \in done
    /\ Irreversible \subseteq Versions
    /\ Limits \subseteq Nat
    /\ Nobody \notin Pods
    /\ MaxRuns \in Nat

VARIABLES
    dialect,    \* the database of this deployment
    checksum,   \* the checksum table of this deployment
    rows,       \* rows[v]: the recorded checksum of v, or NoRow (committed)
    effect,     \* effect[v]: committed runs of Up(v) minus those of Down(v)
    lock,       \* the pod whose session holds the advisory lock
    leaked,     \* that session went back to its pool with the lock
    ensured,    \* ensured[p]: "new", "ok" or "failed" (ensureOnce, ensureErr)
    pc,         \* pc[p]: "idle", "ensure", "lock", "verify", "read", "next",
                \*        "claimed", "ran", "undone", "unclaim" or "release"
    kind,       \* kind[p]: "up" or "down"
    limit,      \* limit[p]: the argument n
    plan,       \* plan[p]: the versions the run has yet to treat
    cur,        \* cur[p]: the version of the open transaction, or 0
    cancelled,  \* the pods whose context is done
    runs,       \* the number of calls made
    lost        \* history: a lock session was lost in the middle of a run

vars == <<dialect, checksum, rows, effect, lock, leaked, ensured, pc, kind,
          limit, plan, cur, cancelled, runs, lost>>
setup == <<dialect, checksum>>
dbVars == <<rows, effect>>
lockVars == <<lock, leaked, lost>>
callVars == <<kind, limit, cancelled, runs>>

Locking == dialect \notin {"sqlite", "mongo"}
Transactional == dialect # "mysql"

Recorded == {v \in Versions : rows[v] # NoRow}
InRun(p) == pc[p] \notin {"idle", "ensure", "lock"}

Init ==
    /\ dialect \in Dialects /\ checksum \in Checksums
    /\ \E done \in Deployed, by \in Pods :
         /\ rows = [v \in Versions |-> IF v \in done THEN checksum[by][v] ELSE NoRow]
         /\ effect = [v \in Versions |-> IF v \in done THEN 1 ELSE 0]
    /\ lock = Nobody /\ leaked = FALSE
    /\ ensured = [p \in Pods |-> "new"]
    /\ pc = [p \in Pods |-> "idle"]
    /\ kind = [p \in Pods |-> "up"]
    /\ limit = [p \in Pods |-> 0]
    /\ plan = [p \in Pods |-> {}]
    /\ cur = [p \in Pods |-> 0]
    /\ cancelled = {}
    /\ runs = 0
    /\ lost = FALSE

Go(p, to) == pc' = [pc EXCEPT ![p] = to]

-----------------------------------------------------------------------------
(***************************************************************************)
(* UpN and DownN up to the lock.                                           *)
(***************************************************************************)
\* DownN returns at once for n <= 0.
Call(p, k, n) ==
    /\ pc[p] = "idle" /\ runs < MaxRuns
    /\ k = "down" => n > 0
    /\ runs' = runs + 1
    /\ kind' = [kind EXCEPT ![p] = k] /\ limit' = [limit EXCEPT ![p] = n]
    /\ Go(p, "ensure")
    /\ UNCHANGED <<setup, dbVars, lockVars, ensured, plan, cur, cancelled>>

\* The DDL runs once per Migrator, and its error is kept.
Ensure(p) ==
    /\ pc[p] = "ensure"
    /\ \/ ensured[p] # "new" /\ UNCHANGED ensured
       \/ ensured[p] = "new" /\ p \notin cancelled /\ ensured' = [ensured EXCEPT ![p] = "ok"]
       \/ ensured[p] = "new" /\ ensured' = [ensured EXCEPT ![p] = "failed"]
    /\ \/ ensured'[p] = "ok" /\ Go(p, "lock") /\ UNCHANGED cancelled
       \/ ensured'[p] = "failed" /\ Go(p, "idle") /\ cancelled' = cancelled \ {p}
    /\ UNCHANGED <<setup, dbVars, lockVars, kind, limit, plan, cur, runs>>

\* DownN does not verify the checksums.
AfterLock(p) == IF kind[p] = "up" THEN "verify" ELSE "read"

\* A session is granted a lock it already holds.
AcquireLock(p) ==
    /\ pc[p] = "lock"
    /\ \/ ~Locking /\ UNCHANGED lock
       \/ Locking /\ p \notin cancelled /\ (lock = Nobody \/ (lock = p /\ leaked)) /\ lock' = p
    /\ Go(p, AfterLock(p))
    /\ UNCHANGED <<setup, dbVars, leaked, lost, ensured, callVars, plan, cur>>

AcquireOnlyFailsCancelled(p) ==
    /\ pc[p] = "lock" /\ Locking /\ p \in cancelled
    /\ Go(p, "idle")
    /\ cancelled' = cancelled \ {p}
    /\ UNCHANGED <<setup, dbVars, lockVars, ensured, kind, limit, runs, plan, cur>>

\* The wait timed out, or the database or the context refused it.
AcquireFails(p) ==
    /\ pc[p] = "lock" /\ Locking
    /\ Go(p, "idle")
    /\ cancelled' = cancelled \ {p}
    /\ UNCHANGED <<setup, dbVars, lockVars, ensured, kind, limit, runs, plan, cur>>

-----------------------------------------------------------------------------
(***************************************************************************)
(* The run.  A statement on a done context fails, and so does its          *)
(* transaction.                                                            *)
(***************************************************************************)
\* A version without a checksum, here or in the table, is not compared.
Agrees(p) ==
    \A v \in Recorded \cap Known[p] :
       rows[v] = checksum[p][v] \/ NoSum \in {rows[v], checksum[p][v]}

VerifySkipped(p) ==
    /\ pc[p] = "verify" /\ p \notin cancelled
    /\ Go(p, "read")
    /\ UNCHANGED <<setup, dbVars, lockVars, ensured, callVars, plan, cur>>

Verify(p) ==
    /\ pc[p] = "verify" /\ p \notin cancelled
    /\ Go(p, IF Agrees(p) THEN "read" ELSE "release")
    /\ UNCHANGED <<setup, dbVars, lockVars, ensured, callVars, plan, cur>>

Pending(p) == Known[p] \ Recorded

\* pending[:n]
FirstFew(p, S) ==
    {v \in S : limit[p] = 0 \/ Cardinality({u \in S : u < v}) < limit[p]}

\* The last n rows, whoever recorded them.
LastFew(p, S) == {v \in S : Cardinality({u \in S : u > v}) < limit[p]}

Read(p) ==
    /\ pc[p] = "read" /\ p \notin cancelled
    /\ plan' = [plan EXCEPT ![p] = IF kind[p] = "up" THEN FirstFew(p, Pending(p))
                                                    ELSE LastFew(p, Recorded)]
    /\ Go(p, "next")
    /\ UNCHANGED <<setup, dbVars, lockVars, ensured, callVars, cur>>

\* A transaction of another pod that has written the row of v and is open.
RowBusy(p, v) ==
    \E q \in Pods \ {p} : pc[q] \in {"claimed", "ran", "undone"} /\ cur[q] = v

\* applyOne inserts the row first: it waits for another open insert of the
\* row, and a row that exists is a duplicate key.
Claim(p) ==
    /\ pc[p] = "next" /\ kind[p] = "up" /\ plan[p] # {} /\ p \notin cancelled
    /\ LET v == Min(plan[p]) IN
         /\ ~RowBusy(p, v)
         /\ \/ rows[v] = NoRow /\ cur' = [cur EXCEPT ![p] = v] /\ Go(p, "claimed")
            \/ rows[v] # NoRow /\ Go(p, "release") /\ UNCHANGED cur
    /\ UNCHANGED <<setup, dbVars, lockVars, ensured, callVars, plan>>

Changed(v, by) == effect' = [effect EXCEPT ![v] = @ + by]
Row(v, sum) == rows' = [rows EXCEPT ![v] = sum]

UpBodyUnrecorded(p) ==
    /\ pc[p] = "claimed" /\ p \notin cancelled
    /\ \/ Transactional /\ UNCHANGED dbVars
       \/ ~Transactional /\ Changed(cur[p], 1) /\ UNCHANGED rows
    /\ Go(p, "ran")
    /\ UNCHANGED <<setup, lockVars, ensured, callVars, plan, cur>>

\* On MySQL the first DDL statement commits the row with it.
UpBody(p) ==
    /\ pc[p] = "claimed" /\ p \notin cancelled
    /\ \/ Transactional /\ UNCHANGED dbVars
       \/ ~Transactional /\ Changed(cur[p], 1) /\ Row(cur[p], checksum[p][cur[p]])
    /\ Go(p, "ran")
    /\ UNCHANGED <<setup, lockVars, ensured, callVars, plan, cur>>

EndTransaction(p) ==
    /\ plan' = [plan EXCEPT ![p] = @ \ {cur[p]}]
    /\ cur' = [cur EXCEPT ![p] = 0]
    /\ Go(p, "next")

Commit(p) ==
    /\ pc[p] = "ran" /\ p \notin cancelled
    /\ \/ Transactional /\ Changed(cur[p], 1) /\ Row(cur[p], checksum[p][cur[p]])
       \/ ~Transactional /\ UNCHANGED dbVars
    /\ EndTransaction(p)
    /\ UNCHANGED <<setup, lockVars, ensured, callVars>>

Oldest(S) == Min(S)
Newest(S) == Max(S)

\* rollbackOne runs the body, then deletes the row.  The run fails on a
\* version that the pod does not know or that has no Down.
DownBody(p) ==
    /\ pc[p] = "next" /\ kind[p] = "down" /\ plan[p] # {} /\ p \notin cancelled
    /\ LET v == Newest(plan[p]) IN
         \/ /\ v \in Known[p] \ Irreversible
            /\ cur' = [cur EXCEPT ![p] = v] /\ Go(p, "undone")
            /\ IF Transactional THEN UNCHANGED effect ELSE Changed(v, -1)
         \/ v \notin Known[p] \ Irreversible /\ Go(p, "release") /\ UNCHANGED <<cur, effect>>
    /\ UNCHANGED <<setup, rows, lockVars, ensured, callVars, plan>>

Forget(p) ==
    /\ pc[p] = "undone" /\ p \notin cancelled
    /\ Row(cur[p], NoRow)
    /\ IF Transactional THEN Changed(cur[p], -1) ELSE UNCHANGED effect
    /\ EndTransaction(p)
    /\ UNCHANGED <<setup, lockVars, ensured, callVars>>

\* A query, a statement or a body failed: what the open transaction did and
\* the database has not committed is undone.
Fail(p) ==
    /\ pc[p] \in {"verify", "read", "next", "claimed", "ran", "undone"}
    /\ plan' = [plan EXCEPT ![p] = {}] /\ cur' = [cur EXCEPT ![p] = 0]
    /\ Go(p, "release")
    /\ UNCHANGED <<setup, dbVars, lockVars, ensured, callVars>>

RunEnds(p) ==
    /\ pc[p] = "next" /\ plan[p] = {}
    /\ Go(p, "release")
    /\ UNCHANGED <<setup, dbVars, lockVars, ensured, callVars, plan, cur>>

\* The unlock uses the context of the run.  On a done context the driver
\* refuses it, and the session goes back to the pool, with its lock unless
\* the driver also discards the connection.
Release(p) ==
    /\ pc[p] = "release"
    /\ Go(p, "idle")
    /\ plan' = [plan EXCEPT ![p] = {}]
    /\ cancelled' = cancelled \ {p}
    /\ \/ lock # p /\ UNCHANGED <<lock, leaked>>
       \/ lock = p /\ leaked /\ UNCHANGED <<lock, leaked>>
       \/ lock = p /\ ~leaked /\ lock' = Nobody /\ UNCHANGED leaked
       \/ lock = p /\ p \in cancelled /\ leaked' = TRUE /\ UNCHANGED lock
    /\ UNCHANGED <<setup, dbVars, lost, ensured, kind, limit, runs, cur>>

-----------------------------------------------------------------------------
(***************************************************************************)
(* The environment.                                                        *)
(***************************************************************************)
Cancel(p) ==
    /\ pc[p] # "idle" /\ p \notin cancelled
    /\ cancelled' = cancelled \cup {p}
    /\ UNCHANGED <<setup, dbVars, lockVars, ensured, kind, limit, runs, pc, plan, cur>>

\* The database drops the session that holds the lock.
SessionDies(p) ==
    /\ lock = p
    /\ lock' = Nobody /\ leaked' = FALSE
    /\ lost' = (lost \/ (InRun(p) /\ pc[p] # "release"))
    /\ UNCHANGED <<setup, dbVars, ensured, callVars, pc, plan, cur>>

Crash(p) ==
    /\ pc[p] # "idle" \/ lock = p
    /\ Go(p, "idle")
    /\ plan' = [plan EXCEPT ![p] = {}] /\ cur' = [cur EXCEPT ![p] = 0]
    /\ ensured' = [ensured EXCEPT ![p] = "new"]
    /\ cancelled' = cancelled \ {p}
    /\ \/ lock = p /\ lock' = Nobody /\ leaked' = FALSE
       \/ lock # p /\ UNCHANGED <<lock, leaked>>
    /\ UNCHANGED <<setup, dbVars, lost, kind, limit, runs>>

Calls(p) == \E k \in {"up", "down"}, n \in Limits : Call(p, k, n)

\* What both runners do the same way.
CommonStep(p) ==
    Ensure(p) \/ AcquireLock(p) \/ AcquireFails(p) \/ Read(p) \/ RunEnds(p) \/ Release(p)

SqlStep(p) ==
    \/ Verify(p) \/ Claim(p) \/ UpBody(p) \/ Commit(p)
    \/ DownBody(p) \/ Forget(p) \/ Fail(p)

Environment(p) == Cancel(p) \/ SessionDies(p) \/ Crash(p)

Next == \E p \in Pods : Calls(p) \/ CommonStep(p) \/ SqlStep(p) \/ Environment(p)

Spec == Init /\ [][Next]_vars

-----------------------------------------------------------------------------
(* Every variable holds a value of its type, and a run never plans more    *)
(* than the n versions it was asked for.                                   *)
TypeOK ==
    /\ \A v \in Versions : rows[v] = NoRow \/ \E p \in Pods : rows[v] = checksum[p][v]
    /\ effect \in [Versions -> Int]
    /\ lock \in Pods \cup {Nobody} /\ leaked \in BOOLEAN /\ lost \in BOOLEAN
    /\ ensured \in [Pods -> {"new", "ok", "failed"}]
    /\ pc \in [Pods -> {"idle", "ensure", "lock", "verify", "read", "next",
                        "claimed", "ran", "undone", "unclaim", "release"}]
    /\ kind \in [Pods -> {"up", "down"}] /\ limit \in [Pods -> Limits]
    /\ plan \in [Pods -> SUBSET Versions]
    /\ \A p \in Pods : limit[p] = 0 \/ Cardinality(plan[p]) <= limit[p]
    /\ cur \in [Pods -> Versions \cup {0}]
    /\ cancelled \in SUBSET Pods
    /\ runs \in 0..MaxRuns

\* The lock is in force: the dialect has one, and no session of it was lost.
Locked == Locking /\ ~lost

(* Migrations are "applied in ascending order" (migration.go:3): no gap    *)
(* ever opens below a recorded version, with pods of two releases that go  *)
(* up and down, as long as no lock session is lost in the middle of a run. *)
RecordedIsPrefix ==
    Locked => \A v \in Recorded : \A u \in Versions : u < v => u \in Recorded

(* The tracking table says what the database contains, whatever crashes,   *)
(* fails or is cancelled: a version is recorded iff its body is in effect  *)
(* once.  Where DDL commits by itself, the row is claimed before the body  *)
(* and deleted after it (migration.go:452-455, 487-496), so that nothing   *)
(* is in effect that the table does not show.  And "the loser blocks on    *)
(* the row lock and then fails with a duplicate key instead of re-running  *)
(* the migration" (migration.go:454-455): without the lock too, no body is *)
(* ever in effect twice.                                                   *)
TableMatchesSchema ==
    /\ \A v \in Versions : effect[v] <= 1
    /\ Locked => \A v \in Versions :
        IF Transactional THEN effect[v] = IF v \in Recorded THEN 1 ELSE 0
                         ELSE effect[v] > 0 => v \in Recorded

(* "Refusing to run on a changed history is the point of the checksum"     *)
(* (migration.go:335-336): a pod whose text differs from a recorded        *)
(* version commits no further one, as long as the lock is in force.        *)
NeverBuildsOnChangedHistory ==
    [][\A p \in Pods : (pc[p] = "ran" /\ pc'[p] = "next" /\ Locked) => Agrees(p)]_vars

(* Every call of UpN and DownN returns, although a lock may be held by a   *)
(* session that nobody will release.                                       *)
RunsEnd == \A p \in Pods : pc[p] # "idle" ~> pc[p] = "idle"

(* What lock.go:18 says of the lock: it is "held for the duration of a     *)
(* migration run".  A run whose context was cancelled unlocks with that    *)
(* context, and its session keeps the lock in the pool.                    *)
LockHeldOnlyDuringRun == lock # Nobody => InRun(lock)
=============================================================================
