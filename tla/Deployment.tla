----------------------------- MODULE Deployment -----------------------------
(***************************************************************************)
(* What a deployment does to its database: it migrates an SQL or a Mongo   *)
(* database, or it seeds one.  The two keep separate tables and share      *)
(* nothing, so a behaviour is one or the other.                            *)
(***************************************************************************)
EXTENDS MongoMigrator, Seeder

allVars == <<migrationVars, seedVars>>

AllInit ==
    \/ MongoInit /\ SeedInit({"none"})
    \/ /\ SeedInit({"sql", "mongo"}) /\ MongoInit
       /\ dialect = "sqlite" /\ Recorded = {} /\ \A p, q \in Pods : checksum[p] = checksum[q]

Migrates(p) == store = "none" /\ RunStep(p) /\ UNCHANGED seedVars

AllNext ==
    \/ store = "none" /\ MigrationsNext /\ UNCHANGED seedVars
    \/ store # "none" /\ SeedNext /\ UNCHANGED migrationVars

\* A pod's goroutine runs, statements return and the lock timer fires.
DeploymentSpec ==
    AllInit /\ [][AllNext]_allVars /\ \A p \in Pods : WF_allVars(Migrates(p))
=============================================================================
