-------------------------- MODULE DeploymentProofs --------------------------
(***************************************************************************)
(* Proofs about module Deployment, for any number of pods, versions, seeds *)
(* and calls.                                                              *)
(*                                                                         *)
(* SeedInv is the inductive invariant of the seeders: a process that has   *)
(* claimed a once-only seed is the only one, and what it has claimed is    *)
(* not seeded yet.                                                         *)
(*                                                                         *)
(* MigrationInv is the one of the migration runners.  Its core is EffectInv, *)
(* which holds on every database, with or without a lock: what is in     *)
(* effect of a version, and what open runs may still add to it, never      *)
(* exceeds one.  The other parts say what the advisory lock is for: one    *)
(* pod is at work, and its plan still fits the table it was read from.     *)
(***************************************************************************)
EXTENDS Deployment, FiniteSetTheorems, TLAPS

SeedShape ==
    /\ names \in SUBSET Seeds
    /\ seeded \in [Seeds -> Nat] /\ byName \in [Seeds -> Nat]
    /\ at \in [Seeders -> {"idle", "read", "next", "claimed", "failed"}]
    /\ only = [p \in Seeders |-> only[p]]
    /\ todo \in [Seeders -> SUBSET Seeds] /\ seed \in [Seeders -> Seeds \cup {0}]

\* p is between the record of seed s and its end.
Seeding(p, s) == at[p] \in {"claimed", "failed"} /\ seed[p] = s

SeedClaims ==
    /\ \A p \in Seeders : at[p] \in {"claimed", "failed"} => seed[p] \in Seeds
    /\ \A p \in Seeders : at[p] = "failed" => store = "mongo" /\ Exclusive(p, seed[p])
    /\ store = "sql" => \A p, q \in Seeders : \A s \in Seeds :
         Seeding(p, s) /\ Seeding(q, s) => p = q
    /\ store = "mongo" => \A p, q \in Seeders : \A s \in Seeds :
         Seeding(p, s) /\ Seeding(q, s) /\ Exclusive(p, s) /\ Exclusive(q, s) => p = q
    /\ \A p \in Seeders : \A s \in Seeds : Seeding(p, s) /\ Exclusive(p, s) =>
         seeded[s] = 0 /\ (s \in names <=> store = "mongo")

SeedInv == store \in {"sql", "mongo", "none"} /\ SeedShape /\ SeedClaims /\ SeededOnce

-----------------------------------------------------------------------------
(* The library's Min and Max are choices: a finite set of numbers that is  *)
(* not empty has what they choose.  The argument takes a smallest subset   *)
(* without a largest (or a smallest) element and removes one of its own.   *)
LEMMA FiniteHasBounds ==
    ASSUME NEW S \in SUBSET Nat, IsFiniteSet(S), S # {}
    PROVE  (\E x \in S : \A y \in S : y <= x) /\ (\E x \in S : \A y \in S : x <= y)
<1> DEFINE Bounded(U) == (\E x \in U : \A y \in U : y <= x) /\ (\E x \in U : \A y \in U : x <= y)
           Bad == {U \in SUBSET S : U # {} /\ ~Bounded(U)}
<1>1. Bad \subseteq FiniteSubsetsOf(S)
  BY FS_Subset DEF FiniteSubsetsOf
<1>2. Bad = {}
  <2> SUFFICES ASSUME Bad # {} PROVE FALSE
    OBVIOUS
  <2>1. PICK U \in Bad : \A V \in Bad : ~(<<V, U>> \in StrictSubsetOrdering(S))
    <3> HIDE DEF Bad
    <3> QED
      BY <1>1, FS_StrictSubsetOrderingWellFounded, WFMin
  <2>2. PICK x \in U : TRUE
    OBVIOUS
  <2>3. x \in Nat /\ U \ {x} \in SUBSET S /\ U \ {x} # U
    OBVIOUS
  <2>4. U \ {x} \notin Bad
    BY <2>1, <2>3 DEF StrictSubsetOrdering
  <2>5. CASE U = {x}
    BY <2>3, <2>5
  <2>6. CASE U # {x}
    <3>1. Bounded(U \ {x})
      BY <2>3, <2>4, <2>6
    <3>2. PICK a \in U \ {x} : \A y \in U \ {x} : y <= a
      BY <3>1
    <3>3. PICK b \in U \ {x} : \A y \in U \ {x} : b <= y
      BY <3>1
    <3>4. \E z \in U : \A y \in U : y <= z
      <4>1. CASE x <= a
        BY <3>2, <4>1
      <4>2. CASE ~(x <= a)
        BY <3>2, <4>2, <2>3
      <4> QED
        BY <4>1, <4>2
    <3>5. \E z \in U : \A y \in U : z <= y
      <4>1. CASE b <= x
        BY <3>3, <4>1
      <4>2. CASE ~(b <= x)
        BY <3>3, <4>2, <2>3
      <4> QED
        BY <4>1, <4>2
    <3> QED
      BY <3>4, <3>5
  <2> QED
    BY <2>5, <2>6
<1> QED
  BY <1>2

LEMMA MinMax ==
    ASSUME NEW S \in SUBSET Nat, IsFiniteSet(S), S # {}
    PROVE  /\ Min(S) \in S /\ \A y \in S : Min(S) <= y
           /\ Max(S) \in S /\ \A y \in S : y <= Max(S)
  BY FiniteHasBounds DEF Min, Max

-----------------------------------------------------------------------------
LEMMA SeedInvInit ==
    ASSUME SeedInit({"none"}) \/ SeedInit({"sql", "mongo"}) PROVE SeedInv
  BY SeederAssumption DEF SeedInit, SeedInv, SeedShape, SeedClaims, Seeding, Exclusive, SeededOnce

(* The steps that record nothing and put nothing in place. *)
LEMMA SeedQuietKeeps ==
    ASSUME SeedInv, NEW p \in Seeders,
           UNCHANGED <<store, seeded, byName, names>>,
           at' = [at EXCEPT ![p] = at'[p]], at'[p] \in {"idle", "read", "next"},
           only' = [only EXCEPT ![p] = only'[p]],
           todo' \in [Seeders -> SUBSET Seeds],
           seed' = [seed EXCEPT ![p] = 0] \/ seed' = seed
    PROVE  SeedInv'
<1> USE SeederAssumption DEF SeedInv
<1>1. SeedShape'
  BY DEF SeedShape
<1>2. /\ \A q \in Seeders \ {p} : at'[q] = at[q] /\ seed'[q] = seed[q] /\ only'[q] = only[q]
      /\ at'[p] \notin {"claimed", "failed"}
  BY DEF SeedShape
<1>3. SeedClaims'
  BY <1>2 DEF SeedClaims, Seeding, Exclusive
<1>4. SeededOnce'
  BY DEF SeededOnce
<1> QED
  BY <1>1, <1>3, <1>4

(* A seed is claimed: a once-only one only when its name is not recorded,  *)
(* and on SQL only when no transaction on its name is open.                *)
LEMMA RecordKeeps ==
    ASSUME SeedInv, store \in {"sql", "mongo"}, NEW p \in Seeders, Record(p) PROVE SeedInv'
<1> USE SeederAssumption DEF SeedInv
<1> DEFINE s == Min(todo[p])
<1>1. s \in Seeds /\ at[p] = "next" /\ UNCHANGED <<store, seeded, byName, only>>
  BY MinMax, FS_Subset DEF SeedShape, Record
<1> HIDE DEF s
<1>2. CASE Exclusive(p, s) /\ s \in names /\ Give(p) /\ UNCHANGED names
  BY <1>1, <1>2, SeedQuietKeeps DEF Give, Move, SeedShape
<1>3. CASE /\ Exclusive(p, s) => s \notin names
           /\ ~NameBusy(p, s)
           /\ seed' = [seed EXCEPT ![p] = s] /\ Move(p, "claimed") /\ UNCHANGED todo
           /\ names' = IF store = "mongo" THEN names \cup {s} ELSE names
  <2>1. SeedShape'
    BY <1>1, <1>3 DEF SeedShape, Move
  <2>2. /\ \A q \in Seeders \ {p} : at'[q] = at[q] /\ seed'[q] = seed[q]
        /\ at'[p] = "claimed" /\ seed'[p] = s
    BY <1>3 DEF SeedShape, Move
  <2>3. \A q \in Seeders, r \in Seeds : Exclusive(q, r)' <=> Exclusive(q, r)
    BY <1>1 DEF Exclusive
  <2>4. \A q \in Seeders \ {p} : \A r \in Seeds : Seeding(q, r)' <=> Seeding(q, r)
    BY <2>2 DEF Seeding
  <2>5. \A r \in Seeds : Seeding(p, r)' <=> r = s
    BY <2>2 DEF Seeding
  <2>6. Exclusive(p, s) => seeded[s] = 0 /\ \A q \in Seeders : ~(Seeding(q, s) /\ Exclusive(q, s) /\ store = "mongo")
    <3> SUFFICES ASSUME Exclusive(p, s)
                 PROVE  seeded[s] = 0 /\ \A q \in Seeders : ~(Seeding(q, s) /\ Exclusive(q, s) /\ store = "mongo")
      OBVIOUS
    <3>1. s \notin names /\ s \notin AlwaysRun
      BY <1>3 DEF Exclusive
    <3>2. seeded[s] \in Nat /\ byName[s] \in Nat
      BY <1>1 DEF SeedShape
    <3>3. seeded[s] = 0
      BY <1>1, <3>1, <3>2 DEF SeededOnce
    <3>4. ASSUME NEW q \in Seeders, Seeding(q, s), Exclusive(q, s), store = "mongo" PROVE FALSE
      BY <1>1, <3>1, <3>4 DEF SeedClaims
    <3> QED
      BY <3>3, <3>4
  <2>7. store = "sql" => \A q \in Seeders \ {p} : ~Seeding(q, s)
    BY <1>3 DEF NameBusy, Seeding, SeedClaims
  <2>8. SeedClaims'
    <3>1. \A q \in Seeders : at'[q] \in {"claimed", "failed"} => seed'[q] \in Seeds
      BY <1>1, <2>2 DEF SeedClaims
    <3>2. \A q \in Seeders : at'[q] = "failed" => store = "mongo" /\ Exclusive(q, seed'[q])
      BY <1>1, <2>2 DEF SeedClaims
    <3>3. store = "sql" => \A q1, q2 \in Seeders : \A r \in Seeds :
            Seeding(q1, r)' /\ Seeding(q2, r)' => q1 = q2
      BY <2>4, <2>5, <2>7 DEF SeedClaims
    <3>4. store = "mongo" => \A q1, q2 \in Seeders : \A r \in Seeds :
            Seeding(q1, r)' /\ Seeding(q2, r)' /\ Exclusive(q1, r) /\ Exclusive(q2, r) => q1 = q2
      BY <2>4, <2>5, <2>6 DEF SeedClaims
    <3>5. \A q \in Seeders : \A r \in Seeds : Seeding(q, r)' /\ Exclusive(q, r) =>
            seeded[r] = 0 /\ (r \in names' <=> store = "mongo")
      BY <1>3, <2>4, <2>5, <2>6 DEF SeedClaims
    <3> QED
      BY <1>1, <2>3, <3>1, <3>2, <3>3, <3>4, <3>5 DEF SeedClaims, Exclusive
  <2>9. SeededOnce'
    BY <1>1, <1>3 DEF SeededOnce
  <2> QED
    BY <1>1, <2>1, <2>8, <2>9
<1> QED
  BY <1>2, <1>3 DEF Record, s

(* The body of a claimed seed. *)
LEMMA BodyKeeps ==
    ASSUME SeedInv, store \in {"sql", "mongo"}, NEW p \in Seeders, Body(p) PROVE SeedInv'
<1> USE SeederAssumption DEF SeedInv
<1> DEFINE s == seed[p]
<1>1. /\ s \in Seeds /\ Seeding(p, s) /\ UNCHANGED <<store, only>>
      /\ names' = names \cup (IF store = "sql" THEN {s} ELSE {})
      /\ todo' = [todo EXCEPT ![p] = @ \ {s}] /\ seed' = [seed EXCEPT ![p] = 0]
      /\ at' = [at EXCEPT ![p] = "next"]
  BY DEF Body, SeedClaims, Seeding, Move
<1>2. \/ ~only[p] /\ seeded' = [seeded EXCEPT ![s] = @ + 1] /\ byName' = byName
      \/ only[p] /\ byName' = [byName EXCEPT ![s] = @ + 1] /\ seeded' = seeded
  BY DEF Body
<1> HIDE DEF s
<1>3. SeedShape'
  BY <1>1, <1>2 DEF SeedShape
<1>4. /\ \A q \in Seeders \ {p} : at'[q] = at[q] /\ seed'[q] = seed[q]
      /\ at'[p] = "next"
  BY <1>1 DEF SeedShape
<1>5. \A r \in Seeds \ {s} : seeded'[r] = seeded[r] /\ byName'[r] = byName[r] /\ (r \in names' <=> r \in names)
  BY <1>1, <1>2 DEF SeedShape
<1>6. /\ seeded'[s] + byName'[s] > 0
      /\ s \notin AlwaysRun => seeded'[s] <= 1 /\ (only[p] => seeded'[s] = seeded[s])
  BY <1>1, <1>2 DEF SeedShape, SeedClaims, Exclusive, SeededOnce
<1>7. SeededOnce'
  <2>1. store = "mongo" /\ s \notin AlwaysRun /\ s \notin names => seeded'[s] = 0
    BY <1>1, <1>6 DEF SeededOnce, SeedClaims, Exclusive
  <2> QED
    BY <2>1, <1>1, <1>5, <1>6 DEF SeededOnce
<1>8. SeedClaims'
  <2>1. \A q \in Seeders, r \in Seeds : Exclusive(q, r)' <=> Exclusive(q, r)
    BY <1>1 DEF Exclusive
  <2>2. \A q \in Seeders, r \in Seeds : Seeding(q, r)' => q # p /\ Seeding(q, r)
    BY <1>4 DEF Seeding
  <2>3. \A q \in Seeders \ {p} : Seeding(q, s) /\ Exclusive(q, s) => store = "mongo" /\ only[p]
    BY <1>1 DEF SeedClaims, Exclusive
  <2>4. \A q \in Seeders \ {p}, r \in Seeds : Seeding(q, r) /\ Exclusive(q, r) =>
          seeded'[r] = 0 /\ (r \in names' <=> store = "mongo")
    BY <1>1, <1>5, <1>6, <2>3 DEF SeedClaims, Exclusive
  <2>5. \A q \in Seeders : at'[q] \in {"claimed", "failed"} => q # p
    BY <1>4
  <2> QED
    BY <1>1, <1>4, <2>1, <2>2, <2>4, <2>5 DEF SeedClaims, Exclusive
<1> QED
  BY <1>1, <1>3, <1>7, <1>8

(* Mongo: the record of a seed whose body failed is taken back, or stays. *)
LEMMA WithdrawKeeps ==
    ASSUME SeedInv, store \in {"sql", "mongo"}, NEW p \in Seeders,
           Withdraw(p) \/ (BodyFails(p) /\ Move(p, "failed")) PROVE SeedInv'
<1> USE SeederAssumption DEF SeedInv
<1> DEFINE s == seed[p]
<1>1. CASE Withdraw(p)
  <2>1. /\ UNCHANGED <<store, seeded, byName, only>> /\ store = "mongo" /\ s \in Seeds
        /\ Seeding(p, s) /\ Exclusive(p, s) /\ s \notin AlwaysRun
        /\ names' = names \/ names' = names \ {s}
        /\ at' = [at EXCEPT ![p] = "idle"] /\ todo' = [todo EXCEPT ![p] = {}]
        /\ seed' = [seed EXCEPT ![p] = 0]
    BY <1>1 DEF Withdraw, Give, Move, SeedClaims, Seeding, Exclusive
  <2>2. seeded[s] = 0 /\ \A q \in Seeders \ {p} : ~(Seeding(q, s) /\ Exclusive(q, s))
    BY <2>1 DEF SeedClaims
  <2> HIDE DEF s
  <2>3. SeedShape'
    BY <2>1 DEF SeedShape
  <2>4. \A q \in Seeders \ {p} : at'[q] = at[q] /\ seed'[q] = seed[q]
    BY <2>1 DEF SeedShape
  <2>5. at'[p] = "idle"
    BY <2>1 DEF SeedShape
  <2>6. \A q \in Seeders, r \in Seeds : Seeding(q, r)' => q # p /\ Seeding(q, r)
    BY <2>4, <2>5 DEF Seeding
  <2>7. \A q \in Seeders, r \in Seeds : Exclusive(q, r)' <=> Exclusive(q, r)
    BY <2>1 DEF Exclusive
  <2>8. SeedClaims'
    <3>1. \A q \in Seeders : at'[q] \in {"claimed", "failed"} =>
            seed'[q] \in Seeds /\ (at'[q] = "failed" => store = "mongo" /\ Exclusive(q, seed'[q]))
      BY <2>4, <2>5, <2>1 DEF SeedClaims
    <3>2. \A q \in Seeders, r \in Seeds : Seeding(q, r)' /\ Exclusive(q, r) =>
            seeded[r] = 0 /\ (r \in names' <=> store = "mongo")
      BY <2>1, <2>2, <2>6 DEF SeedClaims
    <3>3. \A q1, q2 \in Seeders : \A r \in Seeds :
            Seeding(q1, r)' /\ Seeding(q2, r)' /\ Exclusive(q1, r)' /\ Exclusive(q2, r)' => q1 = q2
      BY <2>1, <2>6, <2>7 DEF SeedClaims
    <3>5. store' = "mongo" /\ seeded' = seeded
      BY <2>1
    <3> QED
      BY <3>1, <3>2, <3>3, <3>5, <2>1, <2>7 DEF SeedClaims, Exclusive
  <2>9. SeededOnce'
    BY <2>1, <2>2 DEF SeededOnce
  <2> QED
    BY <2>1, <2>3, <2>8, <2>9
<1>2. CASE BodyFails(p) /\ Move(p, "failed")
  <2>1. /\ UNCHANGED <<store, names, seeded, byName, only>>
        /\ at[p] = "claimed" /\ at' = [at EXCEPT ![p] = "failed"]
    BY <1>2 DEF BodyFails, Move
  <2>2. store = "mongo" /\ Exclusive(p, s) /\ UNCHANGED <<todo, seed>>
    BY <1>2 DEF BodyFails, Move, Give, SeedShape
  <2>3. SeedShape'
    BY <2>1, <2>2 DEF SeedShape
  <2>4. \A q \in Seeders, r \in Seeds : (Seeding(q, r)' <=> Seeding(q, r)) /\ (Exclusive(q, r)' <=> Exclusive(q, r))
    BY <2>1, <2>2 DEF Seeding, Exclusive, SeedShape
  <2>5. \A q \in Seeders : q # p => at'[q] = at[q]
    BY <2>1 DEF SeedShape
  <2>6. SeedClaims'
    <3>1. \A q \in Seeders : at'[q] \in {"claimed", "failed"} =>
            seed[q] \in Seeds /\ (at'[q] = "failed" => store = "mongo" /\ Exclusive(q, seed[q])')
      BY <2>1, <2>2, <2>5 DEF SeedClaims, Exclusive
    <3> QED
      BY <3>1, <2>1, <2>2, <2>4 DEF SeedClaims
  <2>7. SeededOnce'
    BY <2>1 DEF SeededOnce
  <2> QED
    BY <2>1, <2>3, <2>6, <2>7
<1> QED
  BY <1>1, <1>2

LEMMA SeedInvStep ==
    ASSUME SeedInv, store # "none", SeedNext PROVE SeedInv'
<1>1. store \in {"sql", "mongo"}
  BY DEF SeedInv
<1>2. PICK p \in Seeders :
        \/ Run(p) \/ AppliedNames(p) \/ Returns(p)
        \/ \E some \in SUBSET Seeds \ {{}} : RunOnly(p, some)
        \/ Record(p) \/ Body(p) \/ BodyFails(p) \/ Withdraw(p)
        \/ SeedingFails(p) \/ SeederCrash(p)
  BY DEF SeedNext
<1>3. at \in [Seeders -> {"idle", "read", "next", "claimed", "failed"}] /\ only = [q \in Seeders |-> only[q]]
      /\ todo \in [Seeders -> SUBSET Seeds]
  BY DEF SeedInv, SeedShape
<1>4. CASE Run(p)
  BY <1>3, <1>4, SeedQuietKeeps DEF Run, Move
<1>5. CASE AppliedNames(p)
  BY <1>3, <1>5, SeedQuietKeeps, SeederAssumption DEF AppliedNames, Move
<1>6. CASE Returns(p)
  BY <1>3, <1>6, SeedQuietKeeps DEF Returns, Move
<1>7. CASE \E some \in SUBSET Seeds \ {{}} : RunOnly(p, some)
  <2>1. PICK some \in SUBSET Seeds \ {{}} : RunOnly(p, some)
    BY <1>7
  <2>2. /\ UNCHANGED <<store, names, seeded, byName, seed>>
        /\ at' = [at EXCEPT ![p] = "next"] /\ todo' = [todo EXCEPT ![p] = some]
        /\ only' = [only EXCEPT ![p] = TRUE]
    BY <2>1 DEF RunOnly, Move
  <2>3. at'[p] = "next" /\ todo' \in [Seeders -> SUBSET Seeds] /\ only' = [only EXCEPT ![p] = only'[p]]
    BY <1>3, <2>2
  <2> QED
    BY <2>2, <2>3, SeedQuietKeeps
<1>8. CASE BodyFails(p) /\ ~Move(p, "failed")
  <2>1. /\ UNCHANGED <<store, names, seeded, byName, only>>
        /\ at' = [at EXCEPT ![p] = "idle"] /\ todo' = [todo EXCEPT ![p] = {}]
        /\ seed' = [seed EXCEPT ![p] = 0]
    BY <1>8 DEF BodyFails, Give, Move
  <2>2. at'[p] = "idle" /\ todo' \in [Seeders -> SUBSET Seeds] /\ only' = [only EXCEPT ![p] = only'[p]]
    BY <1>3, <2>1
  <2> QED
    BY <2>1, <2>2, SeedQuietKeeps
<1>9. CASE SeedingFails(p) \/ SeederCrash(p)
  BY <1>3, <1>9, SeedQuietKeeps DEF SeedingFails, SeederCrash, Give, Move
<1> QED
  BY <1>1, <1>2, <1>4, <1>5, <1>6, <1>7, <1>8, <1>9, RecordKeeps, BodyKeeps, WithdrawKeeps

-----------------------------------------------------------------------------
(* The data of a once-only seed is put in place at most once, whatever     *)
(* races, fails, crashes and is run again, because runOne records a name   *)
(* before its body.  What a migrating deployment does leaves seeds alone.  *)
THEOREM SeedsRunOnce == DeploymentSpec => []SeededOnce
<1>1. AllInit => SeedInv
  BY SeedInvInit DEF AllInit
<1>2. SeedInv /\ [AllNext]_allVars => SeedInv'
  <2> SUFFICES ASSUME SeedInv, [AllNext]_allVars PROVE SeedInv'
    OBVIOUS
  <2>1. CASE UNCHANGED seedVars
    BY <2>1 DEF seedVars, SeedInv, SeedShape, SeedClaims, Seeding, Exclusive, SeededOnce
  <2>2. CASE store # "none" /\ SeedNext
    BY <2>2, SeedInvStep
  <2> QED
    BY <2>1, <2>2 DEF AllNext, allVars
<1>3. SeedInv => SeededOnce
  BY DEF SeedInv
<1> QED
  BY <1>1, <1>2, <1>3, PTL DEF DeploymentSpec

-----------------------------------------------------------------------------
Work == {"claimed", "ran", "undone", "unclaim"}
Busy(p) == pc[p] \notin {"idle", "ensure", "lock", "release"}

MigrationShape ==
    /\ dialect \in {"postgres", "mysql", "sqlite", "mongo"}
    /\ \A p \in Pods, v \in Versions : checksum[p][v] # NoRow
    /\ rows = [v \in Versions |-> rows[v]] /\ effect \in [Versions -> Int]
    /\ pc \in [Pods -> {"idle", "ensure", "lock", "verify", "read", "next",
                        "claimed", "ran", "undone", "unclaim", "release"}]
    /\ kind \in [Pods -> {"up", "down"}] /\ limit \in [Pods -> Nat]
    /\ plan \in [Pods -> SUBSET Versions] /\ cur \in [Pods -> Versions \cup {0}]
    /\ lost \in BOOLEAN

CurInv ==
    \A p \in Pods :
        /\ pc[p] \in Work => cur[p] \in plan[p]
        /\ pc[p] \in {"verify", "claimed", "ran", "unclaim"} => kind[p] = "up"
        /\ pc[p] = "undone" => kind[p] = "down"
        /\ pc[p] = "unclaim" => dialect = "mongo"

\* A run holds the lock from its verification to its last statement.
MutexInv == Locked => \A p \in Pods : Busy(p) => lock = p

\* The versions below a planned one are recorded or planned, and the plan is
\* treated from its lowest.
UpPlan(p) ==
    /\ \A v \in plan[p] : \A u \in Versions : u < v => u \in Recorded \cup plan[p]
    /\ pc[p] \in Work => \A u \in plan[p] : cur[p] <= u
    /\ pc[p] = "ran" /\ ~Transactional => cur[p] \in Recorded

\* The plan is the top of the table, and is treated from its highest.
DownPlan(p) ==
    /\ plan[p] \subseteq Recorded
    /\ \A v \in plan[p] : \A u \in Recorded : v < u => u \in plan[p]
    /\ pc[p] \in Work => \A u \in plan[p] : u <= cur[p]

DownInv == Locked => \A p \in Pods : pc[p] \in {"next"} \cup Work /\ kind[p] = "down" => DownPlan(p)
UpInv == Locked => \A p \in Pods : pc[p] \in {"next"} \cup Work /\ kind[p] = "up" => UpPlan(p)

AgreeInv ==
    Locked => \A p \in Pods :
        pc[p] \in {"read", "next", "claimed", "ran"} /\ kind[p] = "up" => Agrees(p)

\* The open runs whose outcome may still raise what is in effect of v, or
\* that have lowered it and may leave the record in place.
Stage(p) == \/ pc[p] = "claimed"
            \/ pc[p] = "ran" /\ dialect \notin {"mongo", "mysql"}
            \/ pc[p] \in {"undone", "unclaim"} /\ dialect \in {"mongo", "mysql"}
Open(v) == {p \in Pods : cur[p] = v /\ Stage(p)}

\* A recorded version may be in effect, and so may one whose row is written
\* in an open transaction.
Room(v) == \/ v \in Recorded
           \/ dialect # "mongo" /\ \E p \in Open(v) : pc[p] \in {"claimed", "ran"}

EffectInv == \A v \in Versions : effect[v] + Cardinality(Open(v)) <= IF Room(v) THEN 1 ELSE 0

\* Under the lock, a body and its record are one where they commit together.
ExactInv ==
    Locked /\ Transactional => \A v \in Versions : effect[v] = IF v \in Recorded THEN 1 ELSE 0

RunnerInv ==
    /\ snatched \in BOOLEAN
    /\ ~snatched => \A p, q \in Pods : pc[p] = "claimed" /\ pc[q] = "claimed" /\ cur[p] = cur[q] =>
         p = q /\ (dialect = "mongo" => cur[p] \in Recorded)

\* Every pod has the migrations that precede those it has.
Releases == \A p \in Pods : \A v \in Known[p] : \A u \in Versions : u < v => u \in Known[p]

Step(p) == ((Calls(p) \/ Environment(p)) /\ UNCHANGED mongoVars) \/ RunStep(p)

LEMMA VersionsFinite == Versions \in SUBSET (Nat \ {0}) /\ IsFiniteSet(Versions)
<1> DEFINE f == [p \in Pods |-> Known[p]]
           T == {Known[p] : p \in Pods}
<1>1. f \in Surjection(Pods, T)
  BY DEF Surjection
<1>2. IsFiniteSet(T)
  BY <1>1, FS_Surjection, MigratorAssumption
<1>3. \A S \in T : IsFiniteSet(S)
  BY MigratorAssumption
<1>4. IsFiniteSet(UNION T)
  BY <1>2, <1>3, FS_UNION
<1> QED
  BY <1>4, MigratorAssumption DEF Versions

\* The version a run treats next is one of its plan.
LEMMA NextVersion ==
    ASSUME MigrationShape, NEW p \in Pods, plan[p] # {}
    PROVE  /\ Min(plan[p]) \in plan[p] /\ \A u \in plan[p] : Min(plan[p]) <= u
           /\ Newest(plan[p]) \in plan[p] /\ \A u \in plan[p] : u <= Newest(plan[p])
           /\ plan[p] \subseteq Versions
<1>1. plan[p] \in SUBSET Versions
  BY DEF MigrationShape
<1>2. plan[p] \in SUBSET Nat /\ IsFiniteSet(plan[p])
  BY <1>1, VersionsFinite, FS_Subset
<1> QED
  BY <1>1, <1>2, MinMax DEF Newest

-----------------------------------------------------------------------------
(* A step is one pod's: it changes the state of no other, and keeps the    *)
(* types.                                                                  *)
LEMMA StepShape ==
    ASSUME MigrationShape, CurInv, NEW p \in Pods, Step(p)
    PROVE  /\ MigrationShape' /\ UNCHANGED setup
           /\ \A q \in Pods \ {p} : /\ pc'[q] = pc[q] /\ kind'[q] = kind[q]
                                    /\ plan'[q] = plan[q] /\ cur'[q] = cur[q]
<1> USE DEF setup, dbVars, lockVars, callVars, Go, MigrationShape
<1>1. CASE Calls(p)
  BY <1>1, MigratorAssumption DEF Calls, Call
<1>2. CASE Ensure(p) \/ AcquireLock(p) \/ AcquireFails(p)
  BY <1>2 DEF Ensure, AcquireLock, AcquireFails, AfterLock
<1>3. CASE Read(p)
  <2>1. FirstFew(p, Pending(p)) \subseteq Versions /\ LastFew(p, Recorded) \subseteq Versions
    BY DEF FirstFew, LastFew, Pending, Recorded, Versions
  <2> QED
    BY <1>3, <2>1 DEF Read
<1>4. CASE RunEnds(p) \/ Release(p) \/ Verify(p) \/ Fail(p)
  BY <1>4 DEF RunEnds, Release, Verify, Fail
<1>5. CASE Cancel(p) \/ Crash(p)
  BY <1>5 DEF Cancel, Crash
<1>6. CASE SessionDies(p)
  BY <1>6 DEF SessionDies
<1>7. CASE Claim(p) \/ MongoClaim(p)
  <2>1. CASE Claim(p)
    BY <2>1, NextVersion DEF Claim
  <2>2. CASE MongoClaim(p)
    BY <2>2, NextVersion DEF MongoClaim, Row
  <2> QED
    BY <1>7, <2>1, <2>2
<1>8. CASE DownBody(p) \/ MongoDown(p)
  BY <1>8, NextVersion DEF DownBody, MongoDown, Changed
<1>9. pc[p] \in Work => cur[p] \in Versions
  BY DEF CurInv
<1>10. CASE UpBody(p) \/ MongoUp(p)
  BY <1>9, <1>10 DEF UpBody, MongoUp, Changed, Row, Work
<1>11. CASE Commit(p) \/ Forget(p)
  BY <1>9, <1>11 DEF Commit, Forget, Changed, Row, Work, EndTransaction
<1>12. CASE MongoComplete(p) \/ MongoForget(p) \/ MongoUnclaim(p)
  <2>1. CASE MongoComplete(p)
    BY <1>9, <2>1 DEF MongoComplete, Row, Work, EndTransaction
  <2>2. CASE MongoForget(p)
    BY <1>9, <2>2 DEF MongoForget, DeleteDocument, Row, Work, EndTransaction
  <2>3. CASE MongoUnclaim(p)
    BY <1>9, <2>3 DEF MongoUnclaim, DeleteDocument, Row, Work, EndTransaction
  <2> QED
    BY <1>12, <2>1, <2>2, <2>3
<1> QED
  BY <1>1, <1>2, <1>3, <1>4, <1>5, <1>6, <1>7, <1>8, <1>10, <1>11, <1>12
     DEF Step, RunStep, CommonStep, SqlStep, MongoStep, Environment, MongoVerify, MongoFails

LEMMA CurStep ==
    ASSUME MigrationShape, CurInv, NEW p \in Pods, Step(p) PROVE CurInv'
<1> USE DEF setup, dbVars, lockVars, callVars, Go, MigrationShape, CurInv, Work
<1>1. CASE Calls(p)
  BY <1>1 DEF Calls, Call
<1>2. CASE Ensure(p) \/ AcquireLock(p) \/ AcquireFails(p) \/ Read(p)
  BY <1>2 DEF Ensure, AcquireLock, AcquireFails, AfterLock, Read
<1>3. CASE RunEnds(p) \/ Release(p) \/ Verify(p) \/ Fail(p) \/ Environment(p)
  BY <1>3 DEF RunEnds, Release, Verify, Fail, Environment, Cancel, SessionDies, Crash
<1>4. CASE Claim(p) \/ MongoClaim(p) \/ DownBody(p) \/ MongoDown(p)
  BY <1>4, NextVersion DEF Claim, MongoClaim, DownBody, MongoDown
<1>5. CASE UpBody(p) \/ Commit(p) \/ Forget(p)
  BY <1>5 DEF UpBody, Commit, Forget, EndTransaction
<1>6. CASE dialect = "mongo" /\ (MongoUp(p) \/ MongoComplete(p) \/ MongoForget(p) \/ MongoUnclaim(p))
  BY <1>6 DEF MongoUp, MongoComplete, MongoForget, MongoUnclaim, EndTransaction
<1> QED
  BY <1>1, <1>2, <1>3, <1>4, <1>5, <1>6
     DEF Step, RunStep, CommonStep, SqlStep, MongoStep, MongoVerify, MongoFails

LEMMA MutexStep ==
    ASSUME MigrationShape, CurInv, MutexInv, NEW p \in Pods, Step(p) PROVE MutexInv'
<1> USE DEF setup, dbVars, lockVars, callVars, Go, MigrationShape
<1>1. /\ \A q \in Pods \ {p} : pc'[q] = pc[q]
      /\ dialect' = dialect /\ lost \in BOOLEAN /\ lost' \in BOOLEAN
  BY StepShape
<1>2. CASE lock' = lock /\ lost' = lost /\ (Busy(p)' => Busy(p))
  BY <1>1, <1>2 DEF MutexInv, Locked, Locking, Busy
<1>3. CASE AcquireLock(p)
  BY <1>1, <1>3, MigratorAssumption DEF AcquireLock, AfterLock, MutexInv, Locked, Locking, Busy
<1>4. CASE Release(p)
  BY <1>1, <1>4 DEF Release, MutexInv, Locked, Locking, Busy
<1>5. CASE SessionDies(p)
  BY <1>1, <1>5, MigratorAssumption DEF SessionDies, MutexInv, Locked, Locking, Busy, InRun
<1>6. CASE Crash(p)
  BY <1>1, <1>6, MigratorAssumption DEF Crash, MutexInv, Locked, Locking, Busy
<1>7. CASE Calls(p)
  BY <1>2, <1>7 DEF Calls, Call, Busy
<1>8. CASE Ensure(p) \/ AcquireFails(p)
  BY <1>2, <1>8 DEF Ensure, AcquireFails, Busy
<1>9. CASE Read(p) \/ RunEnds(p) \/ Verify(p) \/ Fail(p) \/ Cancel(p)
  BY <1>2, <1>9 DEF Read, RunEnds, Verify, Fail, Cancel, Busy
<1>10. CASE SqlStep(p) /\ ~Verify(p) /\ ~Fail(p)
  BY <1>2, <1>10 DEF SqlStep, Claim, UpBody, Commit, DownBody, Forget, EndTransaction, Busy
<1>11. CASE MongoStep(p) /\ ~Verify(p) /\ ~Fail(p)
  BY <1>2, <1>11 DEF MongoStep, MongoVerify, MongoFails, MongoClaim, MongoUp, MongoUnclaim,
       MongoComplete, MongoDown, MongoForget, EndTransaction, Busy
<1> QED
  BY <1>3, <1>4, <1>5, <1>6, <1>7, <1>8, <1>9, <1>10, <1>11
     DEF Step, RunStep, CommonStep, Environment

-----------------------------------------------------------------------------
(* The lock, once lost, stays lost, and a pod that is not at work leaves   *)
(* the tables alone.                                                       *)
LEMMA LockedBefore ==
    ASSUME MigrationShape, NEW p \in Pods, Step(p), Locked'
    PROVE  Locked /\ dialect \in {"postgres", "mysql"} /\ (Busy(p) => ~SessionDies(p))
<1>1. dialect' = dialect /\ (lost => lost') /\ (Busy(p) /\ SessionDies(p) => lost')
  <2> USE DEF setup, lockVars, MigrationShape
  <2>1. CASE SessionDies(p)
    BY <2>1 DEF SessionDies, Busy, InRun
  <2>2. CASE ~SessionDies(p) /\ lost' = lost /\ dialect' = dialect
    BY <2>2
  <2>3. CASE Calls(p) \/ CommonStep(p)
    BY <2>1, <2>2, <2>3 DEF Calls, Call, CommonStep, Ensure, AcquireLock, AcquireFails, Read, RunEnds, Release
  <2>4. CASE SqlStep(p) \/ Cancel(p) \/ Crash(p)
    BY <2>1, <2>2, <2>4 DEF SqlStep, Verify, Claim, UpBody, Commit, DownBody, Forget, Fail, Cancel, Crash
  <2>5. CASE MongoStep(p)
    BY <2>1, <2>2, <2>5 DEF MongoStep, MongoVerify, Verify, MongoClaim, MongoUp, MongoUnclaim,
         MongoComplete, MongoDown, MongoForget, MongoFails, Fail
  <2> QED
    BY <2>1, <2>3, <2>4, <2>5 DEF Step, RunStep, Environment
<1> QED
  BY <1>1 DEF Locked, Locking, MigrationShape

\* The steps that change a table or a document.
Writes(p) ==
    \/ dialect # "mongo" /\ (UpBody(p) \/ Commit(p) \/ DownBody(p) \/ Forget(p))
    \/ /\ dialect = "mongo"
       /\ MongoClaim(p) \/ MongoUp(p) \/ MongoUnclaim(p) \/ MongoDown(p) \/ MongoForget(p)

LEMMA OnlyWritersWrite ==
    ASSUME NEW p \in Pods, Step(p), ~Writes(p)
    PROVE  UNCHANGED <<rows, effect, snatched>> /\ Recorded' = Recorded
<1>1. UNCHANGED <<rows, effect, snatched>>
  <2> USE DEF dbVars, mongoVars
  <2>1. CASE Calls(p) /\ UNCHANGED mongoVars
    BY <2>1 DEF Calls, Call
  <2>2. CASE (CommonStep(p) \/ Environment(p)) /\ UNCHANGED mongoVars
    BY <2>2 DEF CommonStep, Ensure, AcquireLock, AcquireFails, Read, RunEnds, Release,
         Environment, Cancel, SessionDies, Crash
  <2>3. CASE \/ dialect # "mongo" /\ SqlStep(p) /\ UNCHANGED mongoVars
             \/ dialect = "mongo" /\ MongoStep(p)
    BY <2>3 DEF SqlStep, MongoStep, Writes, Verify, Claim, Fail, MongoVerify, MongoComplete, MongoFails
  <2> QED
    BY <2>1, <2>2, <2>3 DEF Step, RunStep
<1> QED
  BY <1>1 DEF Recorded

LEMMA WritersAreBusy ==
    ASSUME NEW p \in Pods, Writes(p) PROVE Busy(p)
  BY DEF Writes, Busy, UpBody, Commit, DownBody, Forget, MongoClaim, MongoUp, MongoUnclaim, MongoDown,
     MongoForget

-----------------------------------------------------------------------------
(* The first n of a set are closed below, the last n above.                *)
LEMMA FewAreClosed ==
    ASSUME MigrationShape, NEW p \in Pods, NEW S \in SUBSET Versions
    PROVE  /\ \A v \in FirstFew(p, S) : \A u \in S : u < v => u \in FirstFew(p, S)
           /\ \A v \in LastFew(p, S) : \A u \in S : v < u => u \in LastFew(p, S)
<1> DEFINE Below(v) == {w \in S : w < v}
           Above(v) == {w \in S : w > v}
<1>1. S \in SUBSET Nat /\ IsFiniteSet(S) /\ limit[p] \in Nat
  BY VersionsFinite, FS_Subset DEF MigrationShape
<1>2. \A v \in S : /\ IsFiniteSet(Below(v)) /\ Cardinality(Below(v)) \in Nat
                   /\ IsFiniteSet(Above(v)) /\ Cardinality(Above(v)) \in Nat
  BY <1>1, FS_Subset, FS_CardinalityType
<1>3. ASSUME NEW v \in S, NEW u \in S, u < v
      PROVE  Cardinality(Below(u)) <= Cardinality(Below(v)) /\ Cardinality(Above(v)) <= Cardinality(Above(u))
  <2>1. \A w \in S : w \in Nat /\ (w < u => w < v) /\ (w > v => w > u)
    BY <1>1, <1>3
  <2>2. Below(u) \in SUBSET Below(v) /\ Above(v) \in SUBSET Above(u)
    BY <2>1
  <2> QED
    BY <1>2, <2>2, FS_Subset
<1> HIDE DEF Below, Above
<1>4. \A v \in S : /\ v \in FirstFew(p, S) <=> limit[p] = 0 \/ Cardinality(Below(v)) < limit[p]
                   /\ v \in LastFew(p, S) <=> Cardinality(Above(v)) < limit[p]
  BY DEF FirstFew, LastFew, Below, Above
<1>5. FirstFew(p, S) \subseteq S /\ LastFew(p, S) \subseteq S
  BY DEF FirstFew, LastFew
<1>6. ASSUME NEW v \in FirstFew(p, S), NEW u \in S, u < v PROVE u \in FirstFew(p, S)
  <2>1. v \in S /\ Cardinality(Below(u)) \in Nat /\ Cardinality(Below(v)) \in Nat
    BY <1>2, <1>5
  <2>2. Cardinality(Below(u)) <= Cardinality(Below(v))
    BY <1>3, <1>6, <2>1
  <2>3. limit[p] = 0 \/ Cardinality(Below(v)) < limit[p]
    BY <1>4, <2>1
  <2> QED
    BY <1>1, <1>4, <2>1, <2>2, <2>3
<1>7. ASSUME NEW v \in LastFew(p, S), NEW u \in S, v < u PROVE u \in LastFew(p, S)
  <2>1. v \in S /\ Cardinality(Above(u)) \in Nat /\ Cardinality(Above(v)) \in Nat
    BY <1>2, <1>5
  <2>2. Cardinality(Above(u)) <= Cardinality(Above(v))
    BY <1>3, <1>7, <2>1
  <2> QED
    BY <1>1, <1>4, <2>1, <2>2
<1> QED
  BY <1>6, <1>7

-----------------------------------------------------------------------------
(* Under the lock, what one pod plans no other pod changes.                *)
LEMMA AloneAtWork ==
    ASSUME MigrationShape, CurInv, MutexInv, NEW p \in Pods, Step(p), Locked', NEW q \in Pods \ {p}, Busy(q)'
    PROVE  /\ Busy(q) /\ UNCHANGED <<rows, effect, checksum>> /\ Recorded' = Recorded
           /\ pc'[q] = pc[q] /\ kind'[q] = kind[q] /\ plan'[q] = plan[q] /\ cur'[q] = cur[q]
<1>1. /\ Busy(q) /\ checksum' = checksum
      /\ pc'[q] = pc[q] /\ kind'[q] = kind[q] /\ plan'[q] = plan[q] /\ cur'[q] = cur[q]
  BY StepShape DEF Busy, setup
<1>2. ~Busy(p)
  BY <1>1, LockedBefore DEF MutexInv
<1> QED
  BY <1>1, <1>2, WritersAreBusy, OnlyWritersWrite

\* The steps of a pod that leave it in the middle of its plan.
LEMMA MidPlan ==
    ASSUME MigrationShape, NEW p \in Pods, Step(p), Locked', pc'[p] \in {"next"} \cup Work
    PROVE  \/ Read(p) \/ Claim(p) \/ UpBody(p) \/ Commit(p) \/ DownBody(p) \/ Forget(p)
           \/ UNCHANGED <<rows, effect, kind, pc, plan, cur>>
<1> USE DEF MigrationShape, Work, Go, dbVars, callVars
<1>1. dialect # "mongo"
  BY LockedBefore
<1>2. CASE Calls(p) \/ Ensure(p) \/ AcquireLock(p) \/ AcquireFails(p)
  BY <1>2 DEF Calls, Call, Ensure, AcquireLock, AcquireFails, AfterLock
<1>3. CASE RunEnds(p) \/ Release(p) \/ Verify(p) \/ Fail(p) \/ Environment(p)
  BY <1>3 DEF RunEnds, Release, Verify, Fail, Environment, Cancel, SessionDies, Crash
<1> QED
  BY <1>1, <1>2, <1>3 DEF Step, RunStep, CommonStep, SqlStep

LEMMA DownStep ==
    ASSUME MigrationShape, CurInv, MutexInv, DownInv, NEW p \in Pods, Step(p) PROVE DownInv'
<1> SUFFICES ASSUME Locked', NEW q \in Pods, pc'[q] \in {"next"} \cup Work, kind'[q] = "down"
             PROVE  DownPlan(q)'
  BY DEF DownInv
<1>1. Locked
  BY LockedBefore
<1>2. CASE q # p
  <2>1. Busy(q)'
    BY DEF Busy, Work
  <2>2. DownPlan(q)
    BY <1>1, <1>2, <2>1, AloneAtWork DEF DownInv
  <2> QED
    BY <1>2, <2>1, <2>2, AloneAtWork DEF DownPlan
<1>3. CASE q = p
  <2> USE <1>3 DEF Go, callVars
  <2>0. /\ pc \in [Pods -> {"idle", "ensure", "lock", "verify", "read", "next",
                            "claimed", "ran", "undone", "unclaim", "release"}]
        /\ plan \in [Pods -> SUBSET Versions] /\ cur \in [Pods -> Versions \cup {0}]
    BY DEF MigrationShape
  <2>1. CASE Read(p)
    <3>1. Recorded \in SUBSET Versions
      BY DEF Recorded
    <3>2. /\ kind'[p] = kind[p] /\ Recorded' = Recorded /\ pc'[p] = "next"
          /\ plan'[p] = LastFew(p, Recorded)
      BY <2>0, <2>1 DEF Read, dbVars, Recorded
    <3> QED
      BY <3>1, <3>2, FewAreClosed DEF DownPlan, Work, LastFew
  <2>2. CASE Claim(p) \/ UpBody(p) \/ Commit(p)
    BY <2>2 DEF Claim, UpBody, Commit, CurInv
  <2>3. CASE DownBody(p)
    <3>1. /\ kind[p] = "down" /\ pc[p] = "next" /\ plan[p] # {} /\ plan' = plan /\ rows' = rows
          /\ cur'[p] = Newest(plan[p])
      BY <2>0, <2>3 DEF DownBody, Work
    <3>2. DownPlan(p) /\ Recorded' = Recorded
      BY <1>1, <3>1 DEF DownInv, Recorded
    <3> QED
      BY <3>1, <3>2, NextVersion DEF DownPlan
  <2>4. CASE Forget(p)
    <3>1. /\ kind[p] = "down" /\ pc[p] = "undone" /\ cur[p] \in plan[p]
          /\ plan'[p] = plan[p] \ {cur[p]} /\ pc'[p] = "next" /\ rows' = [rows EXCEPT ![cur[p]] = NoRow]
      BY <2>0, <2>4 DEF Forget, EndTransaction, Row, CurInv, Work
    <3>2. DownPlan(p) /\ Recorded' = Recorded \ {cur[p]}
      <4>1. DownPlan(p)
        BY <1>1, <3>1 DEF DownInv, Work
      <4> QED
        BY <4>1, <3>1 DEF Recorded, MigrationShape
    <3> QED
      BY <3>1, <3>2 DEF DownPlan, Work
  <2>5. CASE UNCHANGED <<rows, effect, kind, pc, plan, cur>>
    BY <1>1, <2>5 DEF DownInv, DownPlan, Recorded
  <2> QED
    BY <2>1, <2>2, <2>3, <2>4, <2>5, MidPlan
<1> QED
  BY <1>2, <1>3

LEMMA UpStep ==
    ASSUME Releases, MigrationShape, CurInv, MutexInv, UpInv, NEW p \in Pods, Step(p) PROVE UpInv'
<1> SUFFICES ASSUME Locked', NEW q \in Pods, pc'[q] \in {"next"} \cup Work, kind'[q] = "up"
             PROVE  UpPlan(q)'
  BY DEF UpInv
<1>1. Locked
  BY LockedBefore
<1>2. CASE q # p
  <2>1. Busy(q)'
    BY DEF Busy, Work
  <2>2. UpPlan(q)
    BY <1>1, <1>2, <2>1, AloneAtWork DEF UpInv
  <2> QED
    BY <1>2, <2>1, <2>2, AloneAtWork, StepShape DEF UpPlan, Transactional, setup
<1>3. CASE q = p
  <2> USE <1>3 DEF Go, callVars
  <2>0. /\ pc \in [Pods -> {"idle", "ensure", "lock", "verify", "read", "next",
                            "claimed", "ran", "undone", "unclaim", "release"}]
        /\ plan \in [Pods -> SUBSET Versions] /\ cur \in [Pods -> Versions \cup {0}]
        /\ kind \in [Pods -> {"up", "down"}]
    BY DEF MigrationShape
  <2>1. CASE Read(p)
    <3>1. Pending(p) \in SUBSET Versions /\ Pending(p) = Known[p] \ Recorded
      BY DEF Pending, Versions
    <3>2. /\ kind'[p] = kind[p] /\ Recorded' = Recorded /\ pc'[p] = "next"
          /\ plan'[p] = FirstFew(p, Pending(p))
      BY <2>0, <2>1 DEF Read, dbVars, Recorded
    <3>3. FirstFew(p, Pending(p)) \subseteq Pending(p)
      BY DEF FirstFew
    <3>4. ASSUME NEW v \in plan'[p], NEW u \in Versions, u < v PROVE u \in Recorded \cup plan'[p]
      <4>1. v \in Pending(p) /\ v \in Known[p]
        BY <3>1, <3>2, <3>3
      <4>2. u \in Recorded \/ u \in Pending(p)
        BY <3>1, <3>4, <4>1 DEF Releases
      <4> QED
        BY <3>1, <3>2, <3>4, <4>2, FewAreClosed
    <3> QED
      BY <3>2, <3>4 DEF UpPlan, Work
  <2>2. CASE DownBody(p) \/ Forget(p)
    BY <2>2 DEF DownBody, Forget, CurInv
  <2>3. CASE Claim(p)
    <3>1. /\ kind[p] = "up" /\ pc[p] = "next" /\ plan[p] # {} /\ plan' = plan /\ rows' = rows
          /\ cur'[p] = Min(plan[p])
      BY <2>0, <2>3 DEF Claim, Work, dbVars
    <3>2. UpPlan(p) /\ Recorded' = Recorded
      BY <1>1, <3>1 DEF UpInv, Recorded
    <3> QED
      BY <2>0, <2>3, <3>1, <3>2, NextVersion DEF UpPlan, Claim
  <2>4. CASE UpBody(p) \/ Commit(p)
    <3>1. /\ kind[p] = "up" /\ pc[p] \in {"claimed", "ran"} /\ cur[p] \in plan[p] /\ cur[p] \in Versions
          /\ checksum[p][cur[p]] # NoRow
      BY <2>0, <2>4 DEF UpBody, Commit, CurInv, Work, MigrationShape
    <3>2. UpPlan(p)
      BY <1>1, <3>1 DEF UpInv, Work
    <3>3. CASE UpBody(p)
      <4>1. /\ plan' = plan /\ cur' = cur /\ Recorded \subseteq Recorded' /\ dialect' = dialect
            /\ ~Transactional => cur[p] \in Recorded'
        BY <3>1, <3>3 DEF UpBody, dbVars, setup, Row, Recorded, MigrationShape
      <4> QED
        BY <3>1, <3>2, <4>1 DEF UpPlan, Work, Transactional
    <3>4. CASE Commit(p)
      <4>1. /\ plan'[p] = plan[p] \ {cur[p]} /\ pc'[p] = "next"
            /\ Recorded \subseteq Recorded' /\ cur[p] \in Recorded'
        BY <2>0, <3>1, <3>2, <3>4 DEF UpPlan, Commit, EndTransaction, dbVars, Row, Recorded, MigrationShape
      <4> QED
        BY <3>1, <3>2, <4>1 DEF UpPlan, Work
    <3> QED
      BY <2>4, <3>3, <3>4
  <2>5. CASE UNCHANGED <<rows, effect, kind, pc, plan, cur>>
    BY <1>1, <2>5, StepShape DEF UpInv, UpPlan, Recorded, Transactional, setup
  <2> QED
    BY <2>1, <2>2, <2>3, <2>4, <2>5, MidPlan
<1> QED
  BY <1>2, <1>3

\* A migration records a version above a table without gaps, a rollback
\* takes its top away.
LEMMA PrefixStep ==
    ASSUME MigrationShape, CurInv, UpInv, DownInv, RecordedIsPrefix, NEW p \in Pods, Step(p)
    PROVE  RecordedIsPrefix'
<1> SUFFICES ASSUME Locked', NEW v \in Recorded', NEW u \in Versions, u < v PROVE u \in Recorded'
  BY DEF RecordedIsPrefix
<1>1. Locked /\ dialect # "mongo"
  BY LockedBefore
<1>2. \A w \in Recorded : \A x \in Versions : x < w => x \in Recorded
  BY <1>1 DEF RecordedIsPrefix
<1>3. Recorded \subseteq Versions /\ Recorded' \subseteq Versions /\ Versions \subseteq Nat
  BY VersionsFinite DEF Recorded
<1>4. CASE Recorded' = Recorded
  BY <1>2, <1>4
<1>5. CASE UpBody(p) \/ Commit(p)
  <2>1. /\ kind[p] = "up" /\ pc[p] \in {"claimed", "ran"} /\ cur[p] \in plan[p] /\ cur[p] \in Versions
        /\ checksum[p][cur[p]] # NoRow
    BY <1>5 DEF UpBody, Commit, CurInv, Work, MigrationShape
  <2>2. UpPlan(p)
    BY <1>1, <2>1 DEF UpInv, Work
  <2>3. Recorded' = Recorded \/ Recorded' = Recorded \cup {cur[p]}
    BY <1>5, <2>1 DEF UpBody, Commit, dbVars, Row, Recorded, MigrationShape
  <2>4. ASSUME NEW x \in Versions, x < cur[p] PROVE x \in Recorded
    <3>1. x \in Recorded \cup plan[p] /\ (x \in plan[p] => cur[p] <= x)
      BY <2>1, <2>2, <2>4 DEF UpPlan, Work
    <3>2. x \in Nat /\ cur[p] \in Nat
      BY <1>3, <2>1
    <3> QED
      BY <2>4, <3>1, <3>2
  <2> QED
    BY <1>2, <2>1, <2>3, <2>4
<1>6. CASE Forget(p)
  <2>1. kind[p] = "down" /\ pc[p] = "undone" /\ cur[p] \in plan[p] /\ cur[p] \in Versions
    BY <1>6 DEF Forget, CurInv, Work, MigrationShape
  <2>2. DownPlan(p)
    BY <1>1, <2>1 DEF DownInv, Work
  <2>3. Recorded' = Recorded \ {cur[p]}
    BY <1>6, <2>1 DEF Forget, Row, Recorded, MigrationShape
  <2>4. u # cur[p]
    <3> SUFFICES ASSUME u = cur[p] PROVE FALSE
      OBVIOUS
    <3>1. v \in plan[p] /\ v <= cur[p]
      BY <2>1, <2>2, <2>3 DEF DownPlan, Work
    <3>2. u \in Nat /\ v \in Nat
      BY <1>3
    <3> QED
      BY <3>1, <3>2
  <2> QED
    BY <1>2, <2>3, <2>4
<1>7. CASE DownBody(p)
  BY <1>4, <1>7 DEF DownBody, Recorded
<1> QED
  BY <1>1, <1>4, <1>5, <1>6, <1>7, OnlyWritersWrite DEF Writes

LEMMA AgreeStep ==
    ASSUME MigrationShape, CurInv, MutexInv, AgreeInv, NEW p \in Pods, Step(p) PROVE AgreeInv'
<1> SUFFICES ASSUME Locked', NEW q \in Pods, kind'[q] = "up",
                    pc'[q] \in {"read", "next", "claimed", "ran"}
             PROVE  Agrees(q)'
  BY DEF AgreeInv
<1>1. Locked /\ dialect # "mongo" /\ checksum' = checksum
  BY LockedBefore, StepShape DEF setup
<1>2. CASE q # p
  <2>1. Busy(q)'
    BY DEF Busy
  <2>2. Agrees(q)
    BY <1>1, <1>2, <2>1, AloneAtWork DEF AgreeInv
  <2> QED
    BY <1>2, <2>1, <2>2, AloneAtWork DEF Agrees
<1>3. CASE q = p
  <2> USE <1>3 DEF Go, callVars
  <2>1. CASE ~Writes(p)
    <3>1. rows' = rows /\ Recorded' = Recorded
      BY <2>1, OnlyWritersWrite
    <3>2. Agrees(p)
      <4> USE DEF MigrationShape
      <4>1. CASE Calls(p) \/ Ensure(p) \/ AcquireLock(p) \/ AcquireFails(p)
        BY <4>1 DEF Calls, Call, Ensure, AcquireLock, AcquireFails, AfterLock
      <4>2. CASE Read(p) \/ RunEnds(p) \/ Release(p) \/ Verify(p) \/ Fail(p) \/ Environment(p) \/ Claim(p)
        BY <1>1, <4>2 DEF Read, RunEnds, Release, Verify, Fail, Environment, Cancel, SessionDies, Crash, Claim,
             AgreeInv
      <4> QED
        BY <1>1, <2>1, <4>1, <4>2 DEF Step, RunStep, CommonStep, SqlStep, Writes
    <3> QED
      BY <1>1, <3>1, <3>2 DEF Agrees
  <2>2. CASE UpBody(p) \/ Commit(p)
    <3>1. /\ kind[p] = "up" /\ pc[p] \in {"claimed", "ran"} /\ cur[p] \in Versions
          /\ rows' = rows \/ rows' = [rows EXCEPT ![cur[p]] = checksum[p][cur[p]]]
      BY <2>2 DEF UpBody, Commit, CurInv, Work, MigrationShape, Row, dbVars
    <3>2. Agrees(p)
      BY <1>1, <3>1 DEF AgreeInv
    <3> QED
      BY <1>1, <3>1, <3>2 DEF Agrees, Recorded, MigrationShape
  <2>3. CASE DownBody(p) \/ Forget(p)
    BY <2>3 DEF DownBody, Forget, CurInv
  <2> QED
    BY <1>1, <2>1, <2>2, <2>3 DEF Writes
<1> QED
  BY <1>2, <1>3

-----------------------------------------------------------------------------
LEMMA OneMoves ==
    ASSUME NEW S, NEW T, NEW x, IsFiniteSet(S), IsFiniteSet(T), S \ {x} = T \ {x}
    PROVE  /\ Cardinality(S) \in Nat /\ Cardinality(T) \in Nat
           /\ Cardinality(T) = Cardinality(S) + (IF x \in T THEN 1 ELSE 0) - (IF x \in S THEN 1 ELSE 0)
<1>1. Cardinality(S) \in Nat /\ Cardinality(T) \in Nat
  BY FS_CardinalityType
<1>2. Cardinality(S \ {x}) = IF x \in S THEN Cardinality(S) - 1 ELSE Cardinality(S)
  BY FS_RemoveElement
<1>3. Cardinality(T \ {x}) = IF x \in T THEN Cardinality(T) - 1 ELSE Cardinality(T)
  BY FS_RemoveElement
<1> QED
  BY <1>1, <1>2, <1>3

(* What p contributes to the open runs of v: a step changes no other part. *)
LEMMA OpenMoves ==
    ASSUME MigrationShape, CurInv, NEW p \in Pods, Step(p), NEW v \in Versions
    PROVE  /\ Cardinality(Open(v)) \in Nat /\ Cardinality(Open(v)') \in Nat
           /\ Cardinality(Open(v)') = Cardinality(Open(v)) + (IF p \in Open(v)' THEN 1 ELSE 0)
                                                           - (IF p \in Open(v) THEN 1 ELSE 0)
<1>1. Open(v) \ {p} = Open(v)' \ {p}
  BY StepShape DEF Open, Stage, setup
<1>2. IsFiniteSet(Open(v)) /\ IsFiniteSet(Open(v)')
  BY FS_Subset, MigratorAssumption DEF Open
<1> QED
  BY <1>1, <1>2, OneMoves

One(b) == IF b THEN 1 ELSE 0

\* p's own part of the room for v.
Holds(p, v) == cur[p] = v /\ Stage(p)
HasRoom(p, v) == v \in Recorded \/ (dialect # "mongo" /\ Holds(p, v) /\ pc[p] \in {"claimed", "ran"})

\* What is in effect of v never outgrows its room when p's part does not.
LEMMA EffectFits ==
    ASSUME MigrationShape, CurInv, EffectInv, NEW p \in Pods, Step(p), NEW v \in Versions,
           \/ effect'[v] + One(Holds(p, v)') <= effect[v] + One(Holds(p, v)) /\ (HasRoom(p, v) => HasRoom(p, v)')
           \/ effect'[v] + One(Holds(p, v)') < effect[v] + One(Holds(p, v))
           \/ /\ effect'[v] + One(Holds(p, v)') <= effect[v] + One(Holds(p, v)) + 1
              /\ ~Room(v) /\ HasRoom(p, v)'
    PROVE  effect'[v] + Cardinality(Open(v)') <= IF Room(v)' THEN 1 ELSE 0
<1> DEFINE Others == dialect # "mongo" /\ \E q \in Pods \ {p} : Holds(q, v) /\ pc[q] \in {"claimed", "ran"}
<1>1. Room(v) <=> HasRoom(p, v) \/ Others
  BY DEF Room, HasRoom, Holds, Open
<1>2. \A q \in Pods \ {p} : pc'[q] = pc[q] /\ cur'[q] = cur[q] /\ dialect' = dialect
  BY StepShape DEF setup
<1>3. \A q \in Pods \ {p} : Holds(q, v)' <=> Holds(q, v)
  BY <1>2 DEF Holds, Stage
<1>4. HasRoom(p, v)' \/ Others => Room(v)'
  BY <1>2, <1>3, StepShape DEF Room, HasRoom, Holds, Open, setup
<1>5. (p \in Open(v) <=> Holds(p, v)) /\ (p \in Open(v)' <=> Holds(p, v)')
  BY DEF Open, Holds
<1>6. /\ Cardinality(Open(v)) \in Nat /\ Cardinality(Open(v)') \in Nat
      /\ Cardinality(Open(v)') = Cardinality(Open(v)) + One(Holds(p, v)') - One(Holds(p, v))
  BY <1>5, OpenMoves DEF One
<1>7. effect[v] \in Int /\ effect'[v] \in Int
  BY StepShape DEF MigrationShape
<1>8. One(Holds(p, v)) \in 0..1 /\ One(Holds(p, v)') \in 0..1
  BY DEF One
<1>9. effect[v] + Cardinality(Open(v)) <= IF Room(v) THEN 1 ELSE 0
  BY DEF EffectInv
<1> HIDE DEF Others
<1> QED
  BY <1>1, <1>4, <1>6, <1>7, <1>8, <1>9

LEMMA EffectStep ==
    ASSUME MigrationShape, CurInv, EffectInv, NEW p \in Pods, Step(p) PROVE EffectInv'
<1> SUFFICES ASSUME NEW v \in Versions
             PROVE  effect'[v] + Cardinality(Open(v)') <= IF Room(v)' THEN 1 ELSE 0
  BY DEF EffectInv
<1>0. /\ MigrationShape' /\ dialect' = dialect
      /\ effect[v] \in Int /\ effect'[v] \in Int
      /\ v \in Nat \ {0}
  BY StepShape, VersionsFinite DEF setup, MigrationShape
<1>1. CASE /\ effect'[v] = effect[v] /\ (v \in Recorded' <=> v \in Recorded)
           /\ Holds(p, v)' => Holds(p, v) /\ pc'[p] = pc[p]
  <2>1. CASE Holds(p, v)'
    BY <1>0, <1>1, <2>1, EffectFits DEF One, HasRoom
  <2>2. CASE ~Holds(p, v)' /\ Holds(p, v)
    BY <1>0, <1>1, <2>2, EffectFits DEF One
  <2>3. CASE ~Holds(p, v)' /\ ~Holds(p, v)
    BY <1>0, <1>1, <2>3, EffectFits DEF One, HasRoom
  <2> QED
    BY <2>1, <2>2, <2>3
<1> USE DEF Go, dbVars, callVars, setup
<1>2. CASE ~Writes(p) /\ ~(Claim(p) /\ dialect # "mongo")
  <2>1. effect' = effect /\ Recorded' = Recorded
    BY <1>2, OnlyWritersWrite
  <2>2. Holds(p, v)' => Holds(p, v) /\ pc'[p] = pc[p]
    <3> USE DEF Holds, Stage, MigrationShape
    <3>1. CASE Calls(p) \/ CommonStep(p)
      BY <1>0, <3>1 DEF Calls, Call, CommonStep, Ensure, AcquireLock, AcquireFails, AfterLock, Read, RunEnds, Release
    <3>2. CASE Verify(p) \/ Fail(p) \/ Environment(p) \/ MongoComplete(p)
      BY <1>0, <3>2 DEF Verify, Fail, Environment, Cancel, SessionDies, Crash, MongoComplete, EndTransaction
    <3> QED
      BY <1>2, <3>1, <3>2 DEF Step, RunStep, SqlStep, MongoStep, MongoVerify, MongoFails, Writes
  <2> QED
    BY <1>1, <2>1, <2>2
<1>3. CASE Claim(p) /\ dialect # "mongo"
  <2>1. pc[p] = "next" /\ Min(plan[p]) \in Versions /\ effect' = effect /\ rows' = rows
    BY <1>3, NextVersion DEF Claim
  <2>2. ~Holds(p, v) /\ (v \in Recorded' <=> v \in Recorded)
    BY <2>1 DEF Holds, Stage, Recorded
  <2>3. CASE Holds(p, v)'
    <3>1. v = Min(plan[p]) /\ rows[v] = NoRow /\ ~RowBusy(p, v) /\ pc'[p] = "claimed"
      BY <1>3, <2>1, <2>3 DEF Claim, Holds, Stage, MigrationShape
    <3>2. ~Room(v)
      BY <2>1, <3>1 DEF Room, Recorded, RowBusy, Open
    <3>3. HasRoom(p, v)'
      BY <1>0, <1>3, <2>3, <3>1 DEF HasRoom
    <3> QED
      BY <1>0, <2>1, <2>2, <2>3, <3>2, <3>3, EffectFits DEF One
  <2> QED
    BY <1>1, <2>1, <2>2, <2>3
<1>4. CASE (UpBody(p) \/ Commit(p)) /\ dialect # "mongo"
  <2>1. /\ cur[p] \in Versions /\ checksum[p][cur[p]] # NoRow /\ pc[p] \in {"claimed", "ran"}
        /\ effect \in [Versions -> Int] /\ rows = [w \in Versions |-> rows[w]]
        /\ pc \in [Pods -> {"idle", "ensure", "lock", "verify", "read", "next",
                            "claimed", "ran", "undone", "unclaim", "release"}]
    BY <1>4 DEF UpBody, Commit, CurInv, Work, MigrationShape
  <2>2. CASE UpBody(p) /\ Transactional
    <3>1. Holds(p, v)' = Holds(p, v) /\ pc'[p] = "ran" /\ pc[p] = "claimed" /\ rows' = rows /\ effect' = effect
      BY <1>0, <1>4, <2>1, <2>2 DEF UpBody, Holds, Stage, Transactional
    <3> QED
      BY <1>0, <3>1, EffectFits DEF One, HasRoom, Recorded
  <2>3. CASE UpBody(p) /\ ~Transactional
    BY <1>0, <1>4, <2>1, <2>3, EffectFits DEF UpBody, Transactional, Holds, Stage, One, HasRoom, Changed, Row, Recorded
  <2>4. CASE Commit(p) /\ Transactional
    BY <1>0, <1>4, <2>1, <2>4, EffectFits
       DEF Commit, EndTransaction, Transactional, Holds, Stage, One, HasRoom, Changed, Row, Recorded
  <2>5. CASE Commit(p) /\ ~Transactional
    BY <1>0, <1>1, <1>4, <2>1, <2>5 DEF Commit, EndTransaction, Transactional, Holds, Stage, Recorded
  <2> QED
    BY <1>4, <2>2, <2>3, <2>4, <2>5
<1>5. CASE DownBody(p) /\ dialect # "mongo"
  <2>1. /\ pc[p] = "next" /\ Newest(plan[p]) \in Versions /\ rows' = rows
        /\ effect \in [Versions -> Int] /\ pc'[p] \in {"release", "undone"}
        /\ pc'[p] = "release" => effect' = effect
        /\ pc'[p] = "undone" => /\ cur'[p] = Newest(plan[p])
                                /\ Transactional => effect' = effect
                                /\ ~Transactional => effect' = [effect EXCEPT ![cur'[p]] = @ - 1]
    BY <1>5, NextVersion DEF DownBody, MigrationShape, Changed
  <2>2. ~Holds(p, v) /\ (v \in Recorded' <=> v \in Recorded)
    BY <2>1 DEF Holds, Stage, Recorded
  <2>3. CASE Holds(p, v)'
    <3>1. ~Transactional /\ v = cur'[p] /\ effect'[v] = effect[v] - 1
      BY <1>0, <1>5, <2>1, <2>3 DEF Holds, Stage, Transactional
    <3> QED
      BY <1>0, <2>2, <2>3, <3>1, EffectFits DEF One, HasRoom
  <2>4. CASE ~Holds(p, v)'
    <3>1. effect'[v] = effect[v]
      BY <1>0, <1>5, <2>1, <2>4 DEF Holds, Stage, Transactional
    <3> QED
      BY <1>1, <2>2, <2>4, <3>1
  <2> QED
    BY <2>3, <2>4
<1>6. CASE Forget(p) /\ dialect # "mongo"
  <2>1. /\ cur[p] \in Versions /\ pc[p] = "undone" /\ pc'[p] = "next"
        /\ effect \in [Versions -> Int]
        /\ rows' = [rows EXCEPT ![cur[p]] = NoRow] /\ rows = [w \in Versions |-> rows[w]]
        /\ effect' = IF Transactional THEN [effect EXCEPT ![cur[p]] = @ - 1] ELSE effect
    BY <1>6 DEF Forget, EndTransaction, CurInv, Work, MigrationShape, Changed, Row
  <2>2. ~Holds(p, v)'
    BY <2>1 DEF Holds, Stage
  <2>3. CASE v = cur[p]
    <3>1. effect'[v] + One(Holds(p, v)') < effect[v] + One(Holds(p, v))
      BY <1>0, <1>6, <2>1, <2>2, <2>3 DEF One, Holds, Stage, Transactional, MigrationShape
    <3> QED
      BY <3>1, EffectFits
  <2>4. CASE v # cur[p]
    BY <1>1, <2>1, <2>2, <2>4 DEF Recorded
  <2> QED
    BY <2>3, <2>4
<1>7. CASE dialect = "mongo" /\ MongoClaim(p)
  <2>1. /\ pc[p] = "next" /\ Min(plan[p]) \in Versions /\ effect' = effect
        /\ rows = [w \in Versions |-> rows[w]] /\ pc'[p] \in {"claimed", "release"}
        /\ pc'[p] = "release" => rows' = rows
        /\ pc'[p] = "claimed" => /\ cur'[p] = Min(plan[p]) /\ rows[Min(plan[p])] = NoRow
                                 /\ rows' = [rows EXCEPT ![Min(plan[p])] = checksum[p][Min(plan[p])]]
                                 /\ checksum[p][Min(plan[p])] # NoRow
    BY <1>7, NextVersion DEF MongoClaim, MigrationShape, Row
  <2>2. ~Holds(p, v)
    BY <2>1 DEF Holds, Stage
  <2>3. CASE Holds(p, v)'
    <3>1. v = Min(plan[p]) /\ pc'[p] = "claimed"
      BY <2>1, <2>3 DEF Holds, Stage
    <3>2. ~Room(v) /\ HasRoom(p, v)'
      BY <1>7, <2>1, <3>1 DEF Room, HasRoom, Recorded
    <3> QED
      BY <1>0, <2>1, <2>2, <2>3, <3>2, EffectFits DEF One
  <2>4. CASE ~Holds(p, v)'
    <3>1. v \in Recorded' <=> v \in Recorded
      BY <1>0, <2>1, <2>4 DEF Recorded, Holds, Stage
    <3> QED
      BY <1>1, <2>1, <2>4, <3>1
  <2> QED
    BY <2>3, <2>4
<1>8. CASE dialect = "mongo" /\ MongoUp(p)
  <2>1. /\ pc[p] = "claimed" /\ cur[p] \in Versions /\ rows' = rows /\ cur' = cur
        /\ effect \in [Versions -> Int]
        /\ \/ pc'[p] = "unclaim" /\ effect' = effect
           \/ pc'[p] = "ran" /\ effect' = [effect EXCEPT ![cur[p]] = @ + 1]
    BY <1>8 DEF MongoUp, CurInv, Work, MigrationShape, Changed
  <2>2. effect'[v] + One(Holds(p, v)') <= effect[v] + One(Holds(p, v))
    BY <1>0, <1>8, <2>1 DEF Holds, Stage, One
  <2> QED
    BY <1>0, <1>8, <2>1, <2>2, EffectFits DEF HasRoom, Recorded
<1>9. CASE dialect = "mongo" /\ (MongoUnclaim(p) \/ MongoForget(p))
  <2>1. /\ cur[p] \in Versions /\ pc[p] \in {"unclaim", "undone"} /\ pc'[p] \in {"release", "next"}
        /\ effect' = effect /\ rows = [w \in Versions |-> rows[w]]
        /\ rows' = rows \/ rows' = [rows EXCEPT ![cur[p]] = NoRow]
    BY <1>9 DEF MongoUnclaim, MongoForget, DeleteDocument, EndTransaction, CurInv, Work, MigrationShape, Row
  <2>2. ~Holds(p, v)'
    BY <2>1 DEF Holds, Stage
  <2>3. CASE v = cur[p]
    <3>1. Holds(p, v)
      BY <1>9, <2>1, <2>3 DEF Holds, Stage
    <3> QED
      BY <1>0, <2>1, <2>2, <3>1, EffectFits DEF One
  <2>4. CASE v # cur[p]
    BY <1>1, <2>1, <2>2, <2>4 DEF Recorded
  <2> QED
    BY <2>3, <2>4
<1>10. CASE dialect = "mongo" /\ MongoDown(p)
  <2>1. /\ pc[p] = "next" /\ Newest(plan[p]) \in Versions /\ rows' = rows
        /\ effect \in [Versions -> Int]
        /\ \/ pc'[p] = "release" /\ effect' = effect
           \/ /\ pc'[p] = "undone" /\ cur'[p] = Newest(plan[p])
              /\ effect' = [effect EXCEPT ![Newest(plan[p])] = @ - 1]
    BY <1>10, NextVersion DEF MongoDown, MigrationShape, Changed
  <2>2. effect'[v] + One(Holds(p, v)') <= effect[v] + One(Holds(p, v))
    BY <1>0, <1>10, <2>1 DEF Holds, Stage, One
  <2> QED
    BY <1>0, <1>10, <2>1, <2>2, EffectFits DEF HasRoom, Recorded
<1> QED
  BY <1>2, <1>3, <1>4, <1>5, <1>6, <1>7, <1>8, <1>9, <1>10 DEF Writes

\* A transaction that commits a version finds nothing of it in effect, and
\* one that takes it back finds it in effect.
LEMMA ExactStep ==
    ASSUME MigrationShape, CurInv, DownInv, EffectInv, ExactInv, NEW p \in Pods, Step(p) PROVE ExactInv'
<1> SUFFICES ASSUME Locked', Transactional', NEW v \in Versions
             PROVE  effect'[v] = IF v \in Recorded' THEN 1 ELSE 0
  BY DEF ExactInv
<1>1. Locked /\ Transactional /\ dialect = "postgres"
  BY LockedBefore, StepShape DEF Transactional, setup
<1>2. effect[v] = IF v \in Recorded THEN 1 ELSE 0
  BY <1>1 DEF ExactInv
<1>3. CASE effect' = effect /\ Recorded' = Recorded
  BY <1>2, <1>3
<1>4. CASE Commit(p)
  <2>1. /\ cur[p] \in Versions /\ checksum[p][cur[p]] # NoRow /\ pc[p] = "ran"
        /\ rows' = [rows EXCEPT ![cur[p]] = checksum[p][cur[p]]]
        /\ effect' = [effect EXCEPT ![cur[p]] = @ + 1]
        /\ effect \in [Versions -> Int] /\ rows = [w \in Versions |-> rows[w]]
    <3>1. pc[p] = "ran"
      BY <1>4 DEF Commit
    <3>2. cur[p] \in Versions /\ checksum[p][cur[p]] # NoRow
      BY <3>1 DEF CurInv, Work, MigrationShape
    <3> QED
      BY <1>1, <1>4, <3>1, <3>2 DEF Commit, MigrationShape, Changed, Row
  <2>2. CASE v # cur[p]
    BY <1>2, <2>1, <2>2 DEF Recorded
  <2>3. CASE v = cur[p]
    <3>1. p \in Open(v) /\ IsFiniteSet(Open(v))
      BY <1>1, <2>1, <2>3, FS_Subset, MigratorAssumption DEF Open, Stage
    <3>2. Cardinality(Open(v)) \in Nat /\ Cardinality(Open(v)) # 0
      BY <3>1, FS_CardinalityType, FS_EmptySet
    <3>3. effect[v] + Cardinality(Open(v)) <= IF Room(v) THEN 1 ELSE 0
      BY DEF EffectInv
    <3>4. effect[v] = 0
      BY <1>2, <3>2, <3>3
    <3> QED
      BY <2>1, <2>3, <3>4 DEF Recorded
  <2> QED
    BY <2>2, <2>3
<1>5. CASE Forget(p)
  <2>1. /\ cur[p] \in Versions /\ cur[p] \in plan[p] /\ pc[p] = "undone" /\ kind[p] = "down"
        /\ rows' = [rows EXCEPT ![cur[p]] = NoRow]
        /\ effect' = [effect EXCEPT ![cur[p]] = @ - 1]
        /\ effect \in [Versions -> Int] /\ rows = [w \in Versions |-> rows[w]]
    BY <1>1, <1>5 DEF Forget, CurInv, Work, MigrationShape, Changed, Row
  <2>2. cur[p] \in Recorded
    BY <1>1, <2>1 DEF DownInv, DownPlan, Work
  <2> QED
    BY <1>2, <2>1, <2>2 DEF Recorded
<1>6. CASE UpBody(p) \/ DownBody(p)
  BY <1>1, <1>3, <1>6 DEF UpBody, DownBody, dbVars, Recorded
<1> QED
  BY <1>1, <1>3, <1>4, <1>5, <1>6, OnlyWritersWrite DEF Writes

-----------------------------------------------------------------------------
(* A version is claimed by one run: an SQL run waits for the transaction   *)
(* that has written its row, a Mongo run finds the document.               *)
LEMMA RunnerStep ==
    ASSUME MigrationShape, CurInv, RunnerInv, NEW p \in Pods, Step(p) PROVE RunnerInv'
<1> USE DEF Go
<1>0. /\ \A q \in Pods \ {p} : pc'[q] = pc[q] /\ cur'[q] = cur[q]
      /\ dialect' = dialect /\ Recorded \subseteq Versions
      /\ pc \in [Pods -> {"idle", "ensure", "lock", "verify", "read", "next",
                          "claimed", "ran", "undone", "unclaim", "release"}]
      /\ cur \in [Pods -> Versions \cup {0}] /\ rows = [w \in Versions |-> rows[w]]
      /\ snatched \in BOOLEAN
  BY StepShape DEF setup, MigrationShape, RunnerInv, Recorded
<1>1. CASE /\ snatched' = snatched /\ Recorded \subseteq Recorded'
           /\ pc'[p] = "claimed" => pc[p] = "claimed" /\ cur'[p] = cur[p]
  BY <1>0, <1>1 DEF RunnerInv
<1>2. CASE /\ dialect = "mongo" /\ pc'[p] # "claimed" /\ pc[p] # "claimed" /\ DeleteDocument(p, cur[p])
  <2>1. snatched' \in BOOLEAN
    BY <1>2 DEF DeleteDocument
  <2>2. ASSUME ~snatched', NEW q \in Pods, pc'[q] = "claimed" PROVE q # p /\ cur[q] # cur[p] /\ ~snatched
    BY <1>0, <1>2, <2>2 DEF DeleteDocument, Running
  <2>3. \A v \in Recorded : v # cur[p] => v \in Recorded'
    BY <1>0, <1>2 DEF DeleteDocument, Row, Recorded
  <2> QED
    BY <1>0, <2>1, <2>2, <2>3 DEF RunnerInv
<1>3. CASE dialect # "mongo" /\ Claim(p)
  <2>1. snatched' = snatched /\ UNCHANGED rows
    BY <1>3 DEF Step, RunStep, Claim, dbVars, mongoVars
  <2>2. pc'[p] = "claimed" => \A q \in Pods \ {p} : ~(pc[q] = "claimed" /\ cur[q] = cur'[p])
    BY <1>0, <1>3 DEF Claim, RowBusy
  <2> QED
    BY <1>0, <1>3, <2>1, <2>2 DEF RunnerInv
<1>4. CASE dialect = "mongo" /\ MongoClaim(p)
  <2>1. /\ snatched' = snatched /\ pc'[p] \in {"claimed", "release"} /\ Min(plan[p]) \in Versions
        /\ pc'[p] = "release" => rows' = rows
        /\ pc'[p] = "claimed" => /\ cur'[p] = Min(plan[p]) /\ rows[Min(plan[p])] = NoRow
                                 /\ rows' = [rows EXCEPT ![Min(plan[p])] = checksum[p][Min(plan[p])]]
                                 /\ checksum[p][Min(plan[p])] # NoRow
    BY <1>0, <1>4, NextVersion DEF MongoClaim, MigrationShape, Row
  <2>2. CASE pc'[p] = "release"
    BY <1>1, <2>1, <2>2 DEF Recorded
  <2>3. CASE pc'[p] = "claimed"
    <3>1. Recorded' = Recorded \cup {cur'[p]} /\ cur'[p] \notin Recorded
      BY <1>0, <2>1, <2>3 DEF Recorded
    <3>2. ~snatched => \A q \in Pods \ {p} : pc[q] = "claimed" => cur[q] # cur'[p]
      BY <1>4, <3>1 DEF RunnerInv
    <3> QED
      BY <1>0, <2>1, <2>3, <3>1, <3>2 DEF RunnerInv
  <2> QED
    BY <2>1, <2>2, <2>3
<1>5. CASE dialect # "mongo"
  <2>1. CASE ~Claim(p)
    <3>1. pc'[p] = "claimed" => pc[p] = "claimed" /\ cur'[p] = cur[p]
      <4>1. CASE Calls(p) \/ CommonStep(p)
        BY <1>0, <4>1 DEF Calls, Call, CommonStep, Ensure, AcquireLock, AcquireFails, AfterLock, Read, RunEnds, Release
      <4>2. CASE SqlStep(p)
        BY <1>0, <2>1, <4>2 DEF SqlStep, Verify, UpBody, Commit, DownBody, Forget, Fail, EndTransaction
      <4>3. CASE Environment(p)
        BY <1>0, <4>3 DEF Environment, Cancel, SessionDies, Crash
      <4> QED
        BY <1>5, <4>1, <4>2, <4>3 DEF Step, RunStep
    <3>2. snatched' = snatched
      BY <1>5 DEF Step, RunStep, mongoVars
    <3> QED
      BY <1>0, <1>5, <3>1, <3>2 DEF RunnerInv
  <2> QED
    BY <1>3, <1>5, <2>1
<1>6. CASE dialect = "mongo" /\ ~MongoClaim(p)
  <2>1. pc'[p] = "claimed" => pc[p] = "claimed" /\ cur'[p] = cur[p]
    <3>1. CASE Calls(p) \/ CommonStep(p)
      BY <1>0, <3>1 DEF Calls, Call, CommonStep, Ensure, AcquireLock, AcquireFails, AfterLock, Read, RunEnds, Release
    <3>2. CASE MongoStep(p)
      BY <1>0, <1>6, <3>2 DEF MongoStep, MongoVerify, Verify, MongoUp, MongoUnclaim, MongoComplete, MongoDown,
           MongoForget, MongoFails, Fail, EndTransaction
    <3>3. CASE Environment(p)
      BY <1>0, <3>3 DEF Environment, Cancel, SessionDies, Crash
    <3> QED
      BY <1>6, <3>1, <3>2, <3>3 DEF Step, RunStep
  <2>2. CASE ~Writes(p)
    BY <1>1, <2>1, <2>2, OnlyWritersWrite
  <2>3. CASE MongoUp(p) \/ MongoDown(p)
    BY <1>1, <2>1, <2>3 DEF MongoUp, MongoDown, mongoVars, Recorded
  <2>4. CASE MongoUnclaim(p) \/ MongoForget(p)
    BY <1>0, <1>1, <1>2, <1>6, <2>1, <2>4 DEF MongoUnclaim, MongoForget, mongoVars, EndTransaction, Recorded
  <2> QED
    BY <1>6, <2>2, <2>3, <2>4 DEF Writes
<1> QED
  BY <1>4, <1>5, <1>6

-----------------------------------------------------------------------------
MigrationInv ==
    /\ MigrationShape /\ CurInv /\ MutexInv /\ DownInv /\ AgreeInv /\ EffectInv /\ ExactInv /\ RunnerInv

LEMMA MigrationInvInit == ASSUME MongoInit PROVE MigrationInv /\ UpInv /\ RecordedIsPrefix
<1> PICK done \in Deployed, by \in Pods :
      /\ rows = [v \in Versions |-> IF v \in done THEN checksum[by][v] ELSE NoRow]
      /\ effect = [v \in Versions |-> IF v \in done THEN 1 ELSE 0]
  BY DEF MongoInit, Init
<1>1. /\ dialect \in {"postgres", "mysql", "sqlite", "mongo"}
      /\ \A p \in Pods, v \in Versions : checksum[p][v] # NoRow
      /\ lost = FALSE /\ snatched = FALSE
      /\ pc = [p \in Pods |-> "idle"] /\ kind = [p \in Pods |-> "up"] /\ limit = [p \in Pods |-> 0]
      /\ plan = [p \in Pods |-> {}] /\ cur = [p \in Pods |-> 0]
  BY MigratorAssumption DEF MongoInit, Init
<1>2. MigrationShape
  <2>1. rows = [v \in Versions |-> rows[v]] /\ effect \in [Versions -> Int]
    OBVIOUS
  <2>2. /\ pc \in [Pods -> {"idle", "ensure", "lock", "verify", "read", "next",
                            "claimed", "ran", "undone", "unclaim", "release"}]
        /\ kind \in [Pods -> {"up", "down"}] /\ limit \in [Pods -> Nat]
        /\ plan \in [Pods -> SUBSET Versions] /\ cur \in [Pods -> Versions \cup {0}]
    BY <1>1
  <2> QED
    BY <1>1, <2>1, <2>2 DEF MigrationShape
<1>3. Recorded = Versions \cap done
  BY <1>1 DEF Recorded
<1>4. CurInv /\ MutexInv /\ DownInv /\ UpInv /\ AgreeInv /\ RunnerInv
  BY <1>1 DEF CurInv, MutexInv, DownInv, UpInv, AgreeInv, RunnerInv, Busy, Work
<1>5. \A v \in Versions : Open(v) = {}
  BY <1>1 DEF Open, Stage
<1>6. EffectInv /\ ExactInv
  BY <1>3, <1>5, FS_EmptySet DEF EffectInv, ExactInv, Room
<1>7. RecordedIsPrefix
  BY <1>3, VersionsFinite, MigratorAssumption DEF RecordedIsPrefix
<1> QED
  BY <1>2, <1>4, <1>6, <1>7 DEF MigrationInv

\* What a seeding deployment does leaves the migrations alone.
LEMMA QuietDeployment ==
    ASSUME UNCHANGED migrationVars
    PROVE  (MigrationInv => MigrationInv') /\ (UpInv /\ RecordedIsPrefix => (UpInv /\ RecordedIsPrefix)')
  BY DEF migrationVars, vars, mongoVars, MigrationInv, MigrationShape, CurInv, MutexInv, DownInv, DownPlan,
     UpInv, UpPlan, AgreeInv, Agrees, EffectInv, ExactInv, RunnerInv, RecordedIsPrefix, Locked, Locking,
     Transactional, Recorded, Busy, Open, Stage, Room

LEMMA MigrationInvStep == MigrationInv /\ [AllNext]_allVars => MigrationInv'
<1> SUFFICES ASSUME MigrationInv, [AllNext]_allVars PROVE MigrationInv'
  OBVIOUS
<1>1. CASE UNCHANGED migrationVars
  BY <1>1, QuietDeployment
<1>2. CASE MigrationsNext
  <2>1. PICK p \in Pods : Step(p)
    BY <1>2 DEF MigrationsNext, Step
  <2> QED
    BY <2>1, StepShape, CurStep, MutexStep, DownStep, AgreeStep, EffectStep, ExactStep, RunnerStep
       DEF MigrationInv
<1> QED
  BY <1>1, <1>2 DEF AllNext, allVars

(* The runners of UpN and DownN keep MigrationInv on every database.       *)
THEOREM MigrationInvariant == DeploymentSpec => []MigrationInv
<1>1. AllInit => MigrationInv
  BY MigrationInvInit DEF AllInit
<1> QED
  BY <1>1, MigrationInvStep, PTL DEF DeploymentSpec

(* Whatever crashes, fails or races, nothing of a version is in effect     *)
(* twice, and under the lock the table says what is in effect.             *)
THEOREM TableIsTrue == DeploymentSpec => []TableMatchesSchema
<1>1. MigrationInv => TableMatchesSchema
  <2> SUFFICES ASSUME MigrationInv PROVE TableMatchesSchema
    OBVIOUS
  <2>1. ASSUME NEW v \in Versions PROVE effect[v] <= 1 /\ (effect[v] > 0 => v \in Recorded)
    <3>1. IsFiniteSet(Open(v)) /\ Cardinality(Open(v)) \in Nat /\ effect[v] \in Int
      BY FS_Subset, FS_CardinalityType, MigratorAssumption DEF Open, MigrationInv, MigrationShape
    <3>2. effect[v] + Cardinality(Open(v)) <= IF Room(v) THEN 1 ELSE 0
      BY DEF MigrationInv, EffectInv
    <3>3. Room(v) => v \in Recorded \/ Cardinality(Open(v)) # 0
      BY <3>1, FS_EmptySet DEF Room
    <3> QED
      BY <3>1, <3>2, <3>3
  <2> QED
    BY <2>1 DEF MigrationInv, ExactInv, TableMatchesSchema
<1> QED
  BY <1>1, MigrationInvariant, PTL

(* A pod whose text differs from the recorded history commits nothing.     *)
THEOREM HistoryIsRespected == DeploymentSpec => NeverBuildsOnChangedHistory
<1>1. MigrationInv => [\A p \in Pods : (pc[p] = "ran" /\ pc'[p] = "next" /\ Locked) => Agrees(p)]_vars
  BY DEF MigrationInv, AgreeInv, CurInv
<1> QED
  BY <1>1, MigrationInvariant, PTL DEF NeverBuildsOnChangedHistory

(* No version's Up is run by two pods at a time.                           *)
THEOREM OneRunner == DeploymentSpec => []OneRunnerPerVersion
<1>1. MigrationInv => OneRunnerPerVersion
  <2> SUFFICES ASSUME MigrationInv, ~snatched, NEW v \in Versions PROVE Cardinality(Running(v)) <= 1
    BY DEF OneRunnerPerVersion
  <2>1. \A p, q \in Running(v) : p = q
    BY DEF MigrationInv, RunnerInv, Running
  <2>2. CASE Running(v) = {}
    BY <2>2, FS_EmptySet
  <2>3. ASSUME NEW p \in Running(v) PROVE Cardinality(Running(v)) <= 1
    <3>1. Running(v) = {p}
      BY <2>1
    <3> QED
      BY <3>1, FS_Singleton
  <2> QED
    BY <2>2, <2>3
<1> QED
  BY <1>1, MigrationInvariant, PTL

(* Pods whose releases contain one another, whatever they do, never leave  *)
(* a gap below a recorded version while the lock is in force.  The         *)
(* hypothesis is what a pod's files are: without it a pod that lacks a     *)
(* version steps over it.                                                  *)
THEOREM NoGaps == Releases => (DeploymentSpec => []RecordedIsPrefix)
<1> SUFFICES ASSUME Releases PROVE DeploymentSpec => []RecordedIsPrefix
  OBVIOUS
<1> DEFINE Inv == MigrationInv /\ UpInv /\ RecordedIsPrefix
<1>1. AllInit => Inv
  BY MigrationInvInit DEF AllInit
<1>2. Inv /\ [AllNext]_allVars => Inv'
  <2> SUFFICES ASSUME Inv, [AllNext]_allVars PROVE UpInv' /\ RecordedIsPrefix'
    BY MigrationInvStep
  <2>1. CASE UNCHANGED migrationVars
    BY <2>1, QuietDeployment
  <2>2. CASE MigrationsNext
    <3>1. PICK p \in Pods : Step(p)
      BY <2>2 DEF MigrationsNext, Step
    <3> QED
      BY <3>1, UpStep, PrefixStep DEF MigrationInv
  <2> QED
    BY <2>1, <2>2 DEF AllNext, allVars
<1> QED
  BY <1>1, <1>2, PTL DEF DeploymentSpec
=============================================================================
