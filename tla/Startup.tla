------------------------------ MODULE Startup ------------------------------
(***************************************************************************)
(* The start of API and worker processes of one or more releases on one    *)
(* PostgreSQL database: Open applies the migrations of the process's own   *)
(* directory under a session advisory lock (postgres/migrate.go), an API   *)
(* process then stores the seed runs (engine/service.go) and serves, which *)
(* draws run numbers from run_number_seq.  Processes crash and are         *)
(* restarted by the platform; the advisory lock of a dead process stays    *)
(* until PostgreSQL notices that its session is gone.                      *)
(*                                                                         *)
(* schema_migrations is keyed by file name; here a migration is its place  *)
(* in name order.  The two agree when releases only ever append names, as  *)
(* the numbered files of the repository do: a file that is renamed, or a   *)
(* new one that sorts before an old one, is outside this model.            *)
(***************************************************************************)
EXTENDS Integers, FiniteSets, Sequences

CONSTANTS
    Process,     \* API and worker processes
    Api,         \* the API processes; a worker stores no seeds
    Checksum,    \* checksums of migration files
    Files,       \* each process's .up.sql files in name order, as their checksums;
                 \*   one place stands for one name in every release (append-only names)
    FloorAt,     \* the place of 000003_run_sequence_floor
    Seeds,       \* the number of seed runs, whose ids are run_000001 ...
    FloorLiteral,\* the number 000003_run_sequence_floor.up.sql spells out: 3
    MaxNumber,   \* bound: run numbers drawn
    MaxFaults,   \* bound: crashes, failed statements and lost answers
    None

Migration == UNION {DOMAIN Files[p] : p \in Process}

ASSUME StartupConstants ==
    /\ Api \subseteq Process
    /\ Files \in [Process -> Seq(Checksum)]
    /\ FloorAt \in Migration
    /\ Seeds \in Nat /\ FloorLiteral \in Nat /\ Seeds <= FloorLiteral
    /\ MaxNumber \in Nat /\ MaxFaults \in Nat
    /\ None \notin Process \cup Checksum \cup {"dead"} /\ "dead" \notin Process

VARIABLES
    \* the database
    recorded,    \* schema_migrations: the checksum of each applied migration
    executed,    \* the bodies whose effects the schema has, in order
    lock,        \* the session that holds migrationLockID: a process, "dead", or None
    runs,        \* numbers of the stored runs
    sequence,    \* the last number run_number_seq handed out
    \* the processes
    pc,
    at,          \* the file or the seed the process has come to
    drawn,       \* the number of the run a request of the process is creating
    faults

vars == <<recorded, executed, lock, runs, sequence, pc, at, drawn, faults>>

Migrating == {"scan", "applying"}

TypeOK ==
    /\ recorded \in [Migration -> Checksum \cup {None}]
    /\ executed \in Seq(Checksum)
    /\ lock \in Process \cup {"dead", None}
    /\ runs \subseteq 1..(MaxNumber + FloorLiteral)
    /\ sequence \in 0..(MaxNumber + FloorLiteral)
    /\ pc \in [Process -> Migrating \cup {"down", "waiting", "seeding", "storing", "up"}]
    /\ at \in [Process -> Nat \ {0}]
    /\ drawn \in [Process -> 0..MaxNumber]
    /\ faults \in 0..MaxFaults
    /\ \A p \in Process : lock = p <=> pc[p] \in Migrating
    /\ \A p \in Process : drawn[p] # 0 => p \in Api /\ pc[p] = "up"

Init ==
    /\ recorded = [i \in Migration |-> None]
    /\ executed = <<>>
    /\ lock = None
    /\ runs = {} /\ sequence = 0
    /\ pc = [p \in Process |-> "down"]
    /\ at = [p \in Process |-> 1]
    /\ drawn = [p \in Process |-> 0]
    /\ faults = 0

Fault == faults < MaxFaults /\ faults' = faults + 1

GoTo(p, step, position) ==
    /\ pc' = [pc EXCEPT ![p] = step]
    /\ at' = [at EXCEPT ![p] = position]

-----------------------------------------------------------------------------
(* migrate.                                                                 *)

\* The platform starts the process; Open connects and asks for the lock.
Start(p) ==
    /\ pc[p] = "down"
    /\ GoTo(p, "waiting", 1)
    /\ UNCHANGED <<recorded, executed, lock, runs, sequence, drawn, faults>>

Lock(p) ==
    /\ pc[p] = "waiting"
    /\ lock = None
    /\ lock' = p
    /\ GoTo(p, "scan", 1)
    /\ UNCHANGED <<recorded, executed, runs, sequence, drawn, faults>>

Remaining(p) == at[p] \in DOMAIN Files[p]

\* The name is recorded, and with the checksum the file has.
Skip(p) ==
    /\ pc[p] = "scan" /\ Remaining(p)
    /\ recorded[at[p]] = Files[p][at[p]]
    /\ GoTo(p, "scan", at[p] + 1)
    /\ UNCHANGED <<recorded, executed, lock, runs, sequence, drawn, faults>>

\* The name is recorded with another checksum.
Changed(p, i) == recorded[i] \notin {None, Files[p][i]}

ExitHoldingLock(p) ==
    /\ GoTo(p, "down", 1)
    /\ UNCHANGED lock

\* An error of migrate: the deferred unlock runs, and the process ends.
Exit(p) ==
    /\ GoTo(p, "down", 1)
    /\ lock' = IF lock = p THEN None ELSE lock

\* "checksum changed after application".
RefuseChanged(p) ==
    /\ pc[p] = "scan" /\ Remaining(p)
    /\ Changed(p, at[p])
    /\ Exit(p)
    /\ UNCHANGED <<recorded, executed, runs, sequence, drawn, faults>>

Highest(S) == CHOOSE n \in S \cup {0} : \A o \in S : o <= n

FloorWithoutLiteral == Highest(runs)

(* GREATEST(3, max(run number)).  The literal is written in the SQL and the *)
(* seeds in the Go: that it covers them is an assumption on the constants.  *)
Floor == Highest(runs \cup {FloorLiteral})

(* The body, stripped of its BEGIN and COMMIT, runs in a transaction of     *)
(* migrate's own.  setval is not undone by a rollback.                      *)
Execute(p) ==
    /\ pc[p] = "scan" /\ Remaining(p)
    /\ recorded[at[p]] = None
    /\ sequence' = IF at[p] = FloorAt THEN Floor ELSE sequence
    /\ GoTo(p, "applying", at[p])
    /\ UNCHANGED <<recorded, executed, lock, runs, drawn, faults>>

\* The record is inserted and the transaction commits: body and record together.
Committed(p) ==
    /\ recorded' = [recorded EXCEPT ![at[p]] = Files[p][at[p]]]
    /\ executed' = Append(executed, Files[p][at[p]])

CommitMigration(p) ==
    /\ pc[p] = "applying"
    /\ Committed(p)
    /\ GoTo(p, "scan", at[p] + 1)
    /\ UNCHANGED <<lock, runs, sequence, drawn, faults>>

RecordFailsAlone(p) ==
    /\ pc[p] = "applying"
    /\ Fault
    /\ executed' = Append(executed, Files[p][at[p]])
    /\ Exit(p)
    /\ UNCHANGED <<recorded, runs, sequence, drawn>>

\* A statement fails and the transaction is rolled back, or the answer of COMMIT is lost.
MigrationFails(p) ==
    /\ pc[p] = "applying"
    /\ Fault
    /\ Committed(p) \/ UNCHANGED <<recorded, executed>>
    /\ Exit(p)
    /\ UNCHANGED <<runs, sequence, drawn>>

\* A failed unlock is ignored; the broken connection takes the lock with it in time.
Unlock(p) ==
    /\ pc[p] = "scan" /\ ~Remaining(p)
    /\ \/ lock' = None /\ UNCHANGED faults
       \/ lock' = "dead" /\ Fault
    /\ GoTo(p, IF p \in Api THEN "seeding" ELSE "up", 1)
    /\ UNCHANGED <<recorded, executed, runs, sequence, drawn>>

-----------------------------------------------------------------------------
(* ensureSeedRuns of an API process.                                        *)

CheckSeedByStoring(p) ==
    /\ pc[p] = "seeding" /\ at[p] <= Seeds
    /\ GoTo(p, "storing", at[p])
    /\ UNCHANGED <<recorded, executed, lock, runs, sequence, drawn, faults>>

\* A seed that is stored is left alone.
CheckSeed(p) ==
    /\ pc[p] = "seeding" /\ at[p] <= Seeds
    /\ IF at[p] \in runs THEN GoTo(p, "seeding", at[p] + 1) ELSE GoTo(p, "storing", at[p])
    /\ UNCHANGED <<recorded, executed, lock, runs, sequence, drawn, faults>>

\* CreateRun stores the seed, or replays the one another process has stored.
StoreSeed(p) ==
    /\ pc[p] = "storing"
    /\ runs' = runs \cup {at[p]}
    /\ GoTo(p, "seeding", at[p] + 1)
    /\ UNCHANGED <<recorded, executed, lock, sequence, drawn, faults>>

(* The seed was stored while CreateRun waited for the idempotency key: its  *)
(* snapshot does not show it, the insert fails, and so does the start.      *)
SeedCollides(p) ==
    /\ pc[p] = "storing"
    /\ at[p] \in runs
    /\ Exit(p)
    /\ UNCHANGED <<recorded, executed, runs, sequence, drawn, faults>>

\* A statement fails; the seed may have been stored.
SeedFails(p) ==
    /\ pc[p] = "storing"
    /\ Fault
    /\ runs' = runs \cup {at[p]} \/ UNCHANGED runs
    /\ Exit(p)
    /\ UNCHANGED <<recorded, executed, sequence, drawn>>

Listen(p) ==
    /\ pc[p] = "seeding" /\ at[p] > Seeds
    /\ GoTo(p, "up", 1)
    /\ UNCHANGED <<recorded, executed, lock, runs, sequence, drawn, faults>>

-----------------------------------------------------------------------------
(* Serving.                                                                 *)

\* NextRunID, for a request of an API process.
Draw(p) ==
    /\ p \in Api /\ pc[p] = "up" /\ drawn[p] = 0
    /\ sequence < MaxNumber
    /\ sequence' = sequence + 1
    /\ drawn' = [drawn EXCEPT ![p] = sequence + 1]
    /\ UNCHANGED <<recorded, executed, lock, runs, pc, at, faults>>

\* The run is stored; a number that is taken violates the primary key and fails the request.
StoreRun(p) ==
    /\ drawn[p] # 0
    /\ runs' = runs \cup {drawn[p]}
    /\ drawn' = [drawn EXCEPT ![p] = 0]
    /\ UNCHANGED <<recorded, executed, lock, sequence, pc, at, faults>>

-----------------------------------------------------------------------------
(* Failure.                                                                 *)

(* The process dies; a COMMIT it had sent may still take effect, and its    *)
(* session keeps the lock for a while.                                      *)
Crash(p) ==
    /\ pc[p] # "down"
    /\ Fault
    /\ \/ UNCHANGED <<recorded, executed>>
       \/ pc[p] = "applying" /\ Committed(p)
    /\ GoTo(p, "down", 1)
    /\ lock' = IF lock = p THEN "dead" ELSE lock
    /\ drawn' = [drawn EXCEPT ![p] = 0]
    /\ UNCHANGED <<runs, sequence>>

\* PostgreSQL ends the session of a dead process.
SessionEnds ==
    /\ lock = "dead"
    /\ lock' = None
    /\ UNCHANGED <<recorded, executed, runs, sequence, pc, at, drawn, faults>>

-----------------------------------------------------------------------------
Migrate(p) ==
    \/ Skip(p) \/ RefuseChanged(p) \/ Execute(p) \/ CommitMigration(p) \/ MigrationFails(p)
    \/ Unlock(p)

EnsureSeedRuns(p) ==
    CheckSeed(p) \/ StoreSeed(p) \/ SeedCollides(p) \/ SeedFails(p) \/ Listen(p)

Next ==
    \/ \E p \in Process : Start(p) \/ Lock(p) \/ Migrate(p) \/ EnsureSeedRuns(p)
    \/ \E p \in Process : Draw(p) \/ StoreRun(p) \/ Crash(p)
    \/ SessionEnds

Spec == Init /\ [][Next]_vars

(* The platform restarts processes (render.yaml), statements end, dead      *)
(* sessions are noticed, and PostgreSQL serves the waiters of a lock in     *)
(* turn, which is the one strong fairness.                                  *)
Fairness ==
    /\ \A p \in Process :
         /\ WF_vars(Start(p)) /\ SF_vars(Lock(p))
         /\ WF_vars(Migrate(p)) /\ WF_vars(EnsureSeedRuns(p))
    /\ WF_vars(SessionEnds)

FairSpec == Spec /\ Fairness
-----------------------------------------------------------------------------
(* Properties.                                                              *)

(* ENGINE.md: a process does not listen until every migration is verified   *)
(* or applied.  Whoever applied them, and wherever that process died, a     *)
(* process that serves has exactly its own files behind its schema, each    *)
(* executed once and in order, and an API process the seed runs.            *)
ServesOwnSchema ==
    \A p \in Process : pc[p] = "up" =>
        /\ Len(Files[p]) <= Len(executed)
        /\ Files[p] = SubSeq(executed, 1, Len(Files[p]))
        /\ p \in Api => 1..Seeds \subseteq runs

(* Once the floor migration is recorded no request draws a seed's number,   *)
(* although the floor is set before the seeds are stored, set again after a *)
(* rollback, and set while an older release serves.                         *)
FloorProtectsSeeds ==
    [][recorded[FloorAt] # None =>
          \A p \in Process : drawn'[p] \in {0, drawn[p]} \cup {n \in Nat : n > Seeds}]_vars

(* Every process comes up and stays up, through crashes, orphaned locks and *)
(* lost seed races, unless the database holds another text of one of its    *)
(* migrations.                                                              *)
EventuallyUp ==
    \A p \in Process :
        <>[](pc[p] = "up" \/ \E i \in DOMAIN Files[p] : Changed(p, i))
=============================================================================
