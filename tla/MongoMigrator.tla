--------------------------- MODULE MongoMigrator ----------------------------
(***************************************************************************)
(* The MongoDB migration runner (common/mongodb/migration): UpN and DownN  *)
(* without a lock and without transactions.  Each version is claimed by    *)
(* inserting its document, under a unique index, before its body runs; the *)
(* document is completed after it, and deleted when the body fails.        *)
(*                                                                         *)
(* A body that fails is counted as without effect: what it did in part is  *)
(* beyond what the runner can see.                                         *)
(***************************************************************************)
EXTENDS Migrator

VARIABLES
    unfinished,   \* the versions whose document is not completed
    snatched      \* history: a run deleted the document of another run's claim

mongoVars == <<unfinished, snatched>>
migrationVars == <<vars, mongoVars>>

MongoInit == Init /\ unfinished = {} /\ snatched = FALSE

\* The runs that execute the Up of v now.
Running(v) == {p \in Pods : pc[p] = "claimed" /\ cur[p] = v}

DeleteDocument(p, v) ==
    /\ Row(v, NoRow) /\ unfinished' = unfinished \ {v}
    /\ snatched' = (snatched \/ Running(v) \ {p} # {})

\* Verify looks at claims too.
MongoVerify(p) == Verify(p) /\ UNCHANGED mongoVars

MongoClaimUpserts(p) ==
    /\ pc[p] = "next" /\ kind[p] = "up" /\ plan[p] # {} /\ p \notin cancelled
    /\ Row(Min(plan[p]), checksum[p][Min(plan[p])])
    /\ unfinished' = unfinished \cup {Min(plan[p])}
    /\ cur' = [cur EXCEPT ![p] = Min(plan[p])]
    /\ Go(p, "claimed")
    /\ UNCHANGED <<setup, effect, snatched, lockVars, ensured, callVars, plan>>

\* A document that exists, completed or not, is a duplicate key.
MongoClaim(p) ==
    /\ pc[p] = "next" /\ kind[p] = "up" /\ plan[p] # {} /\ p \notin cancelled
    /\ LET v == Min(plan[p]) IN
         \/ /\ rows[v] = NoRow
            /\ Row(v, checksum[p][v]) /\ unfinished' = unfinished \cup {v}
            /\ cur' = [cur EXCEPT ![p] = v] /\ Go(p, "claimed")
         \/ rows[v] # NoRow /\ Go(p, "release") /\ UNCHANGED <<rows, unfinished, cur>>
    /\ UNCHANGED <<setup, effect, snatched, lockVars, ensured, callVars, plan>>

MongoUp(p) ==
    /\ pc[p] = "claimed"
    /\ \/ p \notin cancelled /\ Changed(cur[p], 1) /\ Go(p, "ran")
       \/ UNCHANGED effect /\ Go(p, "unclaim")
    /\ UNCHANGED <<setup, rows, mongoVars, lockVars, ensured, callVars, plan, cur>>

\* DeleteOne by version, whoever inserted the document; it may fail.
MongoUnclaim(p) ==
    /\ pc[p] = "unclaim"
    /\ \/ p \notin cancelled /\ DeleteDocument(p, cur[p])
       \/ UNCHANGED <<rows, mongoVars>>
    /\ plan' = [plan EXCEPT ![p] = {}] /\ cur' = [cur EXCEPT ![p] = 0]
    /\ Go(p, "release")
    /\ UNCHANGED <<setup, effect, lockVars, ensured, callVars>>

\* UpdateOne: an update that matches nothing is no error.
MongoComplete(p) ==
    /\ pc[p] = "ran" /\ p \notin cancelled
    /\ unfinished' = unfinished \ {cur[p]}
    /\ EndTransaction(p)
    /\ UNCHANGED <<setup, dbVars, snatched, lockVars, ensured, callVars>>

\* DownN takes every document of its reading for an applied migration.
MongoDown(p) ==
    /\ pc[p] = "next" /\ kind[p] = "down" /\ plan[p] # {} /\ p \notin cancelled
    /\ LET v == Newest(plan[p]) IN
         \/ /\ v \in Known[p] \ Irreversible
            /\ cur' = [cur EXCEPT ![p] = v] /\ Changed(v, -1) /\ Go(p, "undone")
         \/ v \notin Known[p] \ Irreversible /\ Go(p, "release") /\ UNCHANGED <<cur, effect>>
    /\ UNCHANGED <<setup, rows, mongoVars, lockVars, ensured, callVars, plan>>

MongoForget(p) ==
    /\ pc[p] = "undone" /\ p \notin cancelled
    /\ DeleteDocument(p, cur[p])
    /\ EndTransaction(p)
    /\ UNCHANGED <<setup, effect, lockVars, ensured, callVars>>

\* Any other statement, or a Down body, failed.
MongoFails(p) == pc[p] # "claimed" /\ Fail(p) /\ UNCHANGED mongoVars

MongoStep(p) ==
    \/ MongoVerify(p) \/ MongoClaim(p) \/ MongoUp(p) \/ MongoUnclaim(p) \/ MongoComplete(p)
    \/ MongoDown(p) \/ MongoForget(p) \/ MongoFails(p)

\* A step of a run, on the database of the deployment.
RunStep(p) ==
    \/ CommonStep(p) /\ UNCHANGED mongoVars
    \/ dialect # "mongo" /\ SqlStep(p) /\ UNCHANGED mongoVars
    \/ dialect = "mongo" /\ MongoStep(p)

MigrationsNext ==
    \E p \in Pods : \/ (Calls(p) \/ Environment(p)) /\ UNCHANGED mongoVars
                    \/ RunStep(p)

-----------------------------------------------------------------------------
(* "The unique index on version is the mutual exclusion: two pods rolling  *)
(* out together both compute the same pending set, and the loser's insert  *)
(* fails with a duplicate key instead of applying the migration a second   *)
(* time" (migration.go:241-244).  On every database, no version's Up is    *)
(* run by two pods at a time, through crashes, failures, retries and       *)
(* rollbacks, unless a rollback or a failed run has deleted the document   *)
(* of a claim that was still running, which Mongo's runner does not        *)
(* prevent.                                                                *)
OneRunnerPerVersion == ~snatched => \A v \in Versions : Cardinality(Running(v)) <= 1
=============================================================================
