--------------------------- MODULE StartupProofs ---------------------------
(* Proofs that concurrent, crashing starts (module Startup) leave every     *)
(* serving process with its own schema and the seeds' numbers undrawn, for  *)
(* any processes, releases, seeds and number of faults.                     *)
EXTENDS Startup, SequenceTheorems, WellFoundedInduction, TLAPS

-----------------------------------------------------------------------------
(* The inductive invariant.                                                 *)

\* schema_migrations records exactly the bodies the schema has, in order.
RecordedExecuted ==
    \A i \in Migration :
        IF i \in 1..Len(executed) THEN recorded[i] = executed[i] ELSE recorded[i] = None

\* The first n files of a process are the ones that were applied.
Agrees(p, n) ==
    n <= Len(executed) /\ \A i \in 1..n : executed[i] = Files[p][i]

(* What the holder of the lock has scanned is applied as it is in its       *)
(* files, and the file it applies is the next one.                          *)
ScanTrue ==
    \A p \in Process :
        /\ pc[p] \in Migrating =>
             at[p] \in 1..(Len(Files[p]) + 1) /\ Agrees(p, at[p] - 1)
        /\ pc[p] = "applying" => at[p] <= Len(Files[p]) /\ Len(executed) = at[p] - 1

\* A process that is past its migrations has all of them behind it.
Verified ==
    \A p \in Process :
        pc[p] \in {"seeding", "storing", "up"} => Agrees(p, Len(Files[p]))

\* The seeds a process has gone past are stored.
SeedsStored ==
    \A p \in Process :
        /\ pc[p] \in {"seeding", "storing"} => 1..(at[p] - 1) \subseteq runs
        /\ pc[p] = "storing" => at[p] <= Seeds
        /\ pc[p] = "up" /\ p \in Api => 1..Seeds \subseteq runs

\* setval takes effect before the floor's record commits and is not undone.
FloorSet ==
    recorded[FloorAt] # None \/ (\E p \in Process : pc[p] = "applying" /\ at[p] = FloorAt) =>
        sequence >= Seeds

IInv == TypeOK /\ RecordedExecuted /\ ScanTrue /\ Verified /\ SeedsStored /\ FloorSet

-----------------------------------------------------------------------------
(* Operators.                                                               *)

(* The sequence numbers of a bounded set have a highest one, so that the    *)
(* floor is at least the literal of its migration.                          *)
LEMMA HighestBounds ==
  ASSUME NEW N \in Nat, NEW S \in SUBSET (0..N)
  PROVE  Highest(S) \in S \cup {0} /\ \A o \in S : o <= Highest(S)
<1> DEFINE T == {N - n : n \in S \cup {0}}
<1>1. T \subseteq Nat /\ T # {}
  OBVIOUS
<1> DEFINE R == {ss \in Nat \X Nat : ss[1] < ss[2]}
<1>2. IsWellFoundedOn(R, Nat)
  BY NatLessThanWellFounded, Zenon DEF OpToRel
<1>3. PICK x \in T : \A y \in T : ~(<<y, x>> \in R)
  <2> HIDE DEF R, T
  <2> QED
    BY <1>1, <1>2, WFMin
<1>4. \A y \in T : x <= y
  <2>1. \A y \in Nat : y < x => <<y, x>> \in R
    BY <1>1
  <2> HIDE DEF R, T
  <2>2. \A y \in T : ~(y < x)
    BY <1>1, <1>3, <2>1, Zenon
  <2>3. x \in Nat /\ \A y \in T : y \in Nat
    BY <1>1
  <2> QED
    BY <2>2, <2>3
<1>5. PICK n \in S \cup {0} : x = N - n
  OBVIOUS
<1>6. \A o \in S : o <= n
  <2> TAKE o \in S
  <2>1. N - o \in T /\ x <= N - o
    BY <1>4
  <2> HIDE DEF R, T
  <2> QED
    BY <1>5, <2>1
<1> QED
  BY <1>6 DEF Highest

(* A migration is a place in some process's files.                          *)
LEMMA FilePlace ==
  ASSUME NEW p \in Process
  PROVE  /\ Files[p] \in Seq(Checksum) /\ Len(Files[p]) \in Nat
         /\ DOMAIN Files[p] = 1..Len(Files[p])
         /\ \A i \in 1..Len(Files[p]) :
              i \in Migration /\ Files[p][i] \in Checksum /\ Files[p][i] # None
  BY StartupConstants, LenProperties, ElementOfSeq DEF Migration

-----------------------------------------------------------------------------
(* The initial state satisfies the inductive invariant.                     *)
LEMMA InitIInv == Init => IInv
<1> SUFFICES ASSUME Init PROVE IInv
  OBVIOUS
<1> USE StartupConstants DEF Init
<1>1. TypeOK
  BY EmptySeq DEF TypeOK, Migrating
<1>2. RecordedExecuted
  BY EmptySeq DEF RecordedExecuted
<1>3. ScanTrue /\ Verified /\ SeedsStored /\ FloorSet
  BY DEF ScanTrue, Verified, SeedsStored, FloorSet, Migrating
<1> QED
  BY <1>1, <1>2, <1>3 DEF IInv

(* A commit of a migration, by whoever and with or without its answer,      *)
(* appends the holder's next file to the schema and to the record.          *)
LEMMA CommittedExtends ==
  ASSUME IInv, NEW p \in Process, pc[p] = "applying", Committed(p)
  PROVE  /\ recorded' \in [Migration -> Checksum \cup {None}] /\ executed' \in Seq(Checksum)
         /\ RecordedExecuted'
         /\ Len(executed') = at[p] /\ executed'[at[p]] = Files[p][at[p]]
         /\ Len(executed') = Len(executed) + 1
         /\ \A i \in 1..Len(executed) : executed'[i] = executed[i]
         /\ recorded'[FloorAt] # None => sequence >= Seeds
<1> DEFINE i == at[p]
<1>1. /\ i \in 1..Len(Files[p]) /\ Len(executed) = i - 1 /\ executed \in Seq(Checksum)
      /\ recorded \in [Migration -> Checksum \cup {None}]
  BY FilePlace DEF IInv, ScanTrue, TypeOK, Migrating
<1>2. i \in Migration /\ Files[p][i] \in Checksum
  BY <1>1, FilePlace
<1>3. executed' = Append(executed, Files[p][i]) /\ recorded' = [recorded EXCEPT ![i] = Files[p][i]]
  BY DEF Committed
<1>4. /\ executed' \in Seq(Checksum) /\ Len(executed') = Len(executed) + 1
      /\ \A j \in 1..Len(executed) : executed'[j] = executed[j]
      /\ executed'[Len(executed) + 1] = Files[p][i]
  BY <1>1, <1>2, <1>3, AppendProperties
<1>5. Len(executed) \in Nat
  BY <1>1, LenProperties
<1>6. recorded[FloorAt] # None \/ i = FloorAt => sequence >= Seeds
  BY DEF IInv, FloorSet
<1>7. recorded'[FloorAt] # None => recorded[FloorAt] # None \/ i = FloorAt
  BY <1>1, <1>3, StartupConstants
<1>8. \A j \in Migration :
        IF j \in 1..Len(executed) THEN recorded[j] = executed[j] ELSE recorded[j] = None
  BY DEF IInv, RecordedExecuted
<1>9. \A j \in Migration :
        IF j \in 1..Len(executed') THEN recorded'[j] = executed'[j] ELSE recorded'[j] = None
  BY <1>1, <1>3, <1>4, <1>5, <1>8
<1> QED
  BY <1>1, <1>2, <1>3, <1>4, <1>5, <1>6, <1>7, <1>9 DEF RecordedExecuted

(* The steps keep the types, the lock with the process that migrates, and a *)
(* drawn number with a serving API process.                                 *)
LEMMA TypeStep == IInv /\ [Next]_vars => TypeOK'
<1> SUFFICES ASSUME IInv, TypeOK, [Next]_vars PROVE TypeOK'
  BY DEF IInv
<1> USE StartupConstants DEF TypeOK, Migrating, GoTo, Fault, Exit
<1>1. ASSUME NEW p \in Process, Start(p) PROVE TypeOK'
  BY <1>1 DEF Start
<1>2. ASSUME NEW p \in Process, Lock(p) PROVE TypeOK'
  BY <1>2 DEF Lock
<1>3. ASSUME NEW p \in Process, Migrate(p) PROVE TypeOK'
  <2>1. CASE Skip(p)
    BY <2>1 DEF Skip
  <2>2. CASE RefuseChanged(p)
    BY <2>2 DEF RefuseChanged
  <2>3. CASE Execute(p)
    <3>1. Floor \in 0..(MaxNumber + FloorLiteral)
      <4>1. MaxNumber + FloorLiteral \in Nat /\ runs \cup {FloorLiteral} \in SUBSET (0..(MaxNumber + FloorLiteral))
        OBVIOUS
      <4>2. Floor \in runs \cup {FloorLiteral} \cup {0}
        BY <4>1, HighestBounds DEF Floor
      <4> QED
        BY <4>1, <4>2
    <3> QED
      BY <2>3, <3>1 DEF Execute
  <2>4. CASE CommitMigration(p)
    <3>1. recorded' \in [Migration -> Checksum \cup {None}] /\ executed' \in Seq(Checksum)
      BY <2>4, CommittedExtends DEF CommitMigration
    <3> QED
      BY <2>4, <3>1 DEF CommitMigration
  <2>5. CASE MigrationFails(p)
    <3>1. recorded' \in [Migration -> Checksum \cup {None}] /\ executed' \in Seq(Checksum)
      BY <2>5, CommittedExtends DEF MigrationFails
    <3> QED
      BY <2>5, <3>1 DEF MigrationFails
  <2>6. CASE Unlock(p)
    BY <2>6 DEF Unlock
  <2> QED
    BY <1>3, <2>1, <2>2, <2>3, <2>4, <2>5, <2>6 DEF Migrate
<1>4. ASSUME NEW p \in Process, EnsureSeedRuns(p) PROVE TypeOK'
  <2>1. CASE CheckSeed(p)
    <3>1. CASE at[p] \in runs
      <4>1. at[p] + 1 \in Nat \ {0}
        OBVIOUS
      <4>2. /\ pc[p] = "seeding" /\ pc' = [pc EXCEPT ![p] = "seeding"]
            /\ at' = [at EXCEPT ![p] = at[p] + 1]
            /\ UNCHANGED <<recorded, executed, lock, runs, sequence, drawn, faults>>
        BY <2>1, <3>1 DEF CheckSeed
      <4>3. at' \in [Process -> Nat \ {0}] /\ pc' = pc
        BY <4>1, <4>2
      <4> QED
        BY <4>2, <4>3
    <3>2. CASE at[p] \notin runs
      BY <2>1, <3>2 DEF CheckSeed
    <3> QED
      BY <3>1, <3>2
  <2>2. CASE Listen(p)
    BY <2>2 DEF Listen
  <2>3. pc[p] = "storing" => at[p] \in 1..(MaxNumber + FloorLiteral)
    BY DEF IInv, SeedsStored
  <2>4. CASE StoreSeed(p)
    <3>1. runs' \subseteq 1..(MaxNumber + FloorLiteral)
      BY <2>3, <2>4 DEF StoreSeed
    <3> QED
      BY <2>4, <3>1 DEF StoreSeed
  <2>5. CASE SeedCollides(p)
    BY <2>5 DEF SeedCollides
  <2>6. CASE SeedFails(p)
    <3>1. runs' \subseteq 1..(MaxNumber + FloorLiteral)
      BY <2>3, <2>6 DEF SeedFails
    <3> QED
      BY <2>6, <3>1 DEF SeedFails
  <2> QED
    BY <1>4, <2>1, <2>2, <2>4, <2>5, <2>6 DEF EnsureSeedRuns
<1>5. ASSUME NEW p \in Process, Draw(p) \/ StoreRun(p) PROVE TypeOK'
  <2>1. CASE Draw(p)
    BY <2>1 DEF Draw
  <2>2. CASE StoreRun(p)
    <3>1. drawn[p] \in 1..(MaxNumber + FloorLiteral)
      BY <2>2 DEF StoreRun
    <3>2. runs' \subseteq 1..(MaxNumber + FloorLiteral)
      BY <2>2, <3>1 DEF StoreRun
    <3>3. drawn' \in [Process -> 0..MaxNumber] /\ \A q \in Process : drawn'[q] # 0 => drawn[q] # 0
      BY <2>2 DEF StoreRun
    <3> QED
      BY <2>2, <3>2, <3>3 DEF StoreRun
  <2> QED
    BY <1>5, <2>1, <2>2
<1>6. ASSUME NEW p \in Process, Crash(p) PROVE TypeOK'
  <2>1. recorded' \in [Migration -> Checksum \cup {None}] /\ executed' \in Seq(Checksum)
    BY <1>6, CommittedExtends DEF Crash
  <2> QED
    BY <1>6, <2>1 DEF Crash
<1>7. CASE SessionEnds
  BY <1>7 DEF SessionEnds
<1>8. CASE UNCHANGED vars
  BY <1>8 DEF vars
<1> QED
  BY <1>1, <1>2, <1>3, <1>4, <1>5, <1>6, <1>7, <1>8 DEF Next

(* What is applied stays applied: the schema is only ever extended.         *)
LEMMA AgreementStays ==
  ASSUME IInv, [Next]_vars
  PROVE  /\ RecordedExecuted'
         /\ \A p \in Process, n \in Nat : Agrees(p, n) => Agrees(p, n)'
         /\ recorded' # recorded \/ executed' # executed =>
              \E p \in Process : /\ pc[p] = "applying" /\ Committed(p)
                                 /\ CommitMigration(p) \/ MigrationFails(p) \/ Crash(p)
<1>1. Len(executed) \in Nat
  BY LenProperties DEF IInv, TypeOK
<1>2. CASE UNCHANGED <<recorded, executed>>
  BY <1>2 DEF IInv, RecordedExecuted, Agrees
<1>3. ASSUME NEW p \in Process, pc[p] = "applying", Committed(p)
      PROVE  RecordedExecuted' /\ \A q \in Process, n \in Nat : Agrees(q, n) => Agrees(q, n)'
  <2>1. /\ RecordedExecuted' /\ Len(executed') = Len(executed) + 1
        /\ \A i \in 1..Len(executed) : executed'[i] = executed[i]
    BY <1>3, CommittedExtends
  <2> QED
    BY <1>1, <2>1 DEF Agrees
<1>4. UNCHANGED <<recorded, executed>>
        \/ \E p \in Process : /\ pc[p] = "applying" /\ Committed(p)
                              /\ CommitMigration(p) \/ MigrationFails(p) \/ Crash(p)
  BY DEF Next, vars, Start, Lock, Migrate, Skip, RefuseChanged, Execute, CommitMigration,
         MigrationFails, Unlock, EnsureSeedRuns, CheckSeed, StoreSeed, SeedCollides,
         SeedFails, Listen, Draw, StoreRun, Crash, SessionEnds
<1> QED
  BY <1>2, <1>3, <1>4

(* A scan goes on at a file that is applied as it is, and a file is applied *)
(* only after all those before it: no other process migrates meanwhile.     *)
LEMMA ScanStep == IInv /\ [Next]_vars => ScanTrue' /\ Verified'
<1> SUFFICES ASSUME IInv, [Next]_vars, NEW q \in Process
             PROVE  /\ pc'[q] \in Migrating =>
                         at'[q] \in 1..(Len(Files[q]) + 1) /\ Agrees(q, at[q] - 1)'
                    /\ pc'[q] = "applying" =>
                         at'[q] <= Len(Files[q]) /\ Len(executed') = at'[q] - 1
                    /\ pc'[q] \in {"seeding", "storing", "up"} => Agrees(q, Len(Files[q]))'
  BY DEF ScanTrue, Verified
<1> USE DEF Migrating, GoTo, Fault
<1>1. /\ Len(executed) \in Nat /\ Len(Files[q]) \in Nat /\ at \in [Process -> Nat \ {0}]
      /\ pc \in [Process -> {"scan", "applying", "down", "waiting", "seeding", "storing", "up"}]
      /\ \A p \in Process : lock = p <=> pc[p] \in Migrating
      /\ at[q] \in Nat /\ at[q] - 1 \in Nat
  BY LenProperties, FilePlace DEF IInv, TypeOK
<1>2. \A n \in Nat : Agrees(q, n) => Agrees(q, n)'
  BY AgreementStays
<1>3. /\ pc[q] \in Migrating =>
           at[q] \in 1..(Len(Files[q]) + 1) /\ Agrees(q, at[q] - 1)
      /\ pc[q] = "applying" => at[q] <= Len(Files[q]) /\ Len(executed) = at[q] - 1
      /\ pc[q] \in {"seeding", "storing", "up"} => Agrees(q, Len(Files[q]))
  BY DEF IInv, ScanTrue, Verified
<1>4. CASE pc'[q] = pc[q] /\ at'[q] = at[q] /\ executed' = executed
  BY <1>1, <1>2, <1>3, <1>4
<1>5. CASE pc'[q] = pc[q] /\ at'[q] = at[q] /\ executed' # executed
  <2>1. PICK p \in Process : /\ pc[p] = "applying" /\ Committed(p)
                             /\ CommitMigration(p) \/ MigrationFails(p) \/ Crash(p)
    BY <1>5, AgreementStays
  <2>2. p # q
    BY <1>1, <1>5, <2>1 DEF IInv, TypeOK, CommitMigration, MigrationFails, Crash, Exit
  <2>3. pc[q] \notin Migrating
    BY <1>1, <2>1, <2>2
  <2> QED
    BY <1>1, <1>2, <1>3, <1>5, <2>3
<1>6. CASE pc'[q] # pc[q] \/ at'[q] # at[q]
  <2>1. CASE pc'[q] \in {"down", "waiting"}
    BY <2>1
  <2>2. CASE Lock(q)
    BY <1>1, <2>2 DEF Lock, Agrees
  <2>3. CASE Skip(q)
    <3>1. at[q] \in 1..Len(Files[q]) /\ at[q] \in Migration /\ Files[q][at[q]] # None
      BY <2>3, FilePlace DEF Skip, Remaining
    <3>2. at[q] \in 1..Len(executed) /\ executed[at[q]] = Files[q][at[q]]
      BY <2>3, <3>1 DEF Skip, IInv, RecordedExecuted
    <3>3. Agrees(q, at[q])
      BY <1>1, <1>3, <2>3, <3>1, <3>2 DEF Skip, Agrees
    <3> QED
      BY <1>1, <1>2, <2>3, <3>1, <3>3 DEF Skip
  <2>4. CASE Execute(q)
    <3>1. at[q] \in 1..Len(Files[q]) /\ at[q] \in Migration
      BY <2>4, FilePlace DEF Execute, Remaining
    <3>2. at[q] \notin 1..Len(executed)
      <4>1. at[q] \in 1..Len(executed) => executed[at[q]] \in Checksum
        BY ElementOfSeq DEF IInv, TypeOK
      <4> QED
        BY <2>4, <3>1, <4>1, StartupConstants DEF Execute, IInv, RecordedExecuted
    <3>3. Len(executed) = at[q] - 1
      BY <1>1, <1>3, <2>4, <3>2 DEF Execute, Agrees
    <3> QED
      BY <1>1, <1>2, <1>3, <2>4, <3>1, <3>3 DEF Execute
  <2>5. CASE CommitMigration(q)
    <3>1. /\ Len(executed') = at[q] /\ executed'[at[q]] = Files[q][at[q]]
          /\ at'[q] = at[q] + 1 /\ pc'[q] = "scan"
      BY <1>1, <2>5, CommittedExtends DEF CommitMigration
    <3>2. at[q] \in 1..Len(Files[q])
      BY <1>1, <1>2, <1>3, <2>5 DEF CommitMigration
    <3>3. \A i \in 1..(at[q] - 1) : executed'[i] = Files[q][i]
      BY <1>1, <1>2, <1>3, <2>5 DEF CommitMigration, Agrees
    <3>4. \A i \in 1..at[q] : executed'[i] = Files[q][i]
      BY <1>1, <3>1, <3>3
    <3>5. (at[q] + 1) - 1 = at[q]
      BY <1>1
    <3> QED
      BY <1>1, <3>1, <3>2, <3>4, <3>5 DEF Agrees
  <2>6. CASE Unlock(q)
    <3>1. at[q] = Len(Files[q]) + 1 /\ Agrees(q, Len(Files[q]))
      BY <1>1, <1>3, <2>6, FilePlace DEF Unlock, Remaining
    <3> QED
      BY <1>1, <1>2, <2>6, <3>1 DEF Unlock
  <2>7. CASE CheckSeed(q) \/ StoreSeed(q) \/ Listen(q)
    <3>1. pc[q] \in {"seeding", "storing"} /\ pc'[q] \in {"seeding", "storing", "up"}
      BY <1>1, <2>7 DEF CheckSeed, StoreSeed, Listen
    <3> QED
      BY <1>1, <1>2, <1>3, <3>1
  <2>8. PICK p \in Process :
          \/ Start(p) \/ Lock(p) \/ Migrate(p) \/ EnsureSeedRuns(p) \/ Crash(p)
    BY <1>6 DEF Next, vars, Draw, StoreRun, SessionEnds
  <2>9. p = q
    BY <1>1, <1>6, <2>8
    DEF Start, Lock, Migrate, Skip, RefuseChanged, Execute, CommitMigration, MigrationFails,
        Unlock, EnsureSeedRuns, CheckSeed, StoreSeed, SeedCollides, SeedFails, Listen, Crash,
        Exit
  <2>10. ASSUME \/ Start(q) \/ RefuseChanged(q) \/ MigrationFails(q)
                \/ SeedCollides(q) \/ SeedFails(q) \/ Crash(q)
         PROVE  pc'[q] \in {"down", "waiting"}
    BY <1>1, <2>10 DEF Start, RefuseChanged, MigrationFails, SeedCollides, SeedFails, Crash, Exit
  <2>11. \/ pc'[q] \in {"down", "waiting"} \/ Lock(q) \/ Skip(q) \/ Execute(q)
         \/ CommitMigration(q) \/ Unlock(q) \/ CheckSeed(q) \/ StoreSeed(q) \/ Listen(q)
    <3>1. Start(q) \/ Lock(q) \/ Migrate(q) \/ EnsureSeedRuns(q) \/ Crash(q)
      BY <2>8, <2>9, Zenon
    <3> QED
      BY <2>10, <3>1, Zenon DEF Migrate, EnsureSeedRuns
  <2> QED
    BY <2>1, <2>2, <2>3, <2>4, <2>5, <2>6, <2>7, <2>11
<1> QED
  BY <1>4, <1>5, <1>6

(* Runs are never removed, a process goes past a seed that it found or has  *)
(* stored, and serves when it is past the last one.                         *)
LEMMA SeedsStep == IInv /\ [Next]_vars => SeedsStored'
<1> SUFFICES ASSUME IInv, [Next]_vars, NEW q \in Process
             PROVE  /\ pc'[q] \in {"seeding", "storing"} => 1..(at'[q] - 1) \subseteq runs'
                    /\ pc'[q] = "storing" => at'[q] <= Seeds
                    /\ pc'[q] = "up" /\ q \in Api => 1..Seeds \subseteq runs'
  BY DEF SeedsStored
<1> USE DEF GoTo, Fault, Exit
<1>1. /\ pc \in [Process -> {"scan", "applying", "down", "waiting", "seeding", "storing", "up"}]
      /\ at \in [Process -> Nat \ {0}] /\ at[q] \in Nat /\ Seeds \in Nat
  BY StartupConstants DEF IInv, TypeOK, Migrating
<1>2. runs \subseteq runs'
  BY DEF Next, vars, Start, Lock, Migrate, Skip, RefuseChanged, Execute, CommitMigration,
         MigrationFails, Unlock, EnsureSeedRuns, CheckSeed, StoreSeed, SeedCollides,
         SeedFails, Listen, Draw, StoreRun, Crash, SessionEnds
<1>3. /\ pc[q] \in {"seeding", "storing"} => 1..(at[q] - 1) \subseteq runs
      /\ pc[q] = "storing" => at[q] <= Seeds
      /\ pc[q] = "up" /\ q \in Api => 1..Seeds \subseteq runs
  BY DEF IInv, SeedsStored
<1>4. CASE pc'[q] = pc[q] /\ at'[q] = at[q]
  BY <1>1, <1>2, <1>3, <1>4
<1>5. CASE Unlock(q)
  BY <1>1, <1>5 DEF Unlock
<1>6. CASE CheckSeed(q)
  <2>1. CASE at[q] \in runs
    <3>1. pc'[q] = "seeding" /\ at'[q] = at[q] + 1 /\ pc[q] = "seeding" /\ runs' = runs
      BY <1>1, <1>6, <2>1 DEF CheckSeed
    <3> QED
      BY <1>1, <1>3, <2>1, <3>1
  <2>2. CASE at[q] \notin runs
    <3>1. pc'[q] = "storing" /\ at'[q] = at[q] /\ pc[q] = "seeding" /\ at[q] <= Seeds
      BY <1>1, <1>6, <2>2 DEF CheckSeed
    <3> QED
      BY <1>1, <1>2, <1>3, <3>1
  <2> QED
    BY <2>1, <2>2
<1>7. CASE StoreSeed(q)
  <2>1. pc'[q] = "seeding" /\ at'[q] = at[q] + 1 /\ pc[q] = "storing" /\ at[q] \in runs'
    BY <1>1, <1>7 DEF StoreSeed
  <2> QED
    BY <1>1, <1>2, <1>3, <2>1
<1>8. CASE Listen(q)
  BY <1>1, <1>3, <1>8 DEF Listen
<1>9. CASE pc'[q] \in {"down", "waiting", "scan", "applying"}
  BY <1>9
<1>10. \/ pc'[q] = pc[q] /\ at'[q] = at[q]
       \/ pc'[q] \in {"down", "waiting", "scan", "applying"}
       \/ Unlock(q) \/ CheckSeed(q) \/ StoreSeed(q) \/ Listen(q)
  <2>1. CASE pc' = pc /\ at' = at
    BY <2>1
  <2>2. ASSUME NEW p \in Process,
               \/ Start(p) \/ Lock(p) \/ Skip(p) \/ RefuseChanged(p) \/ Execute(p)
               \/ CommitMigration(p) \/ MigrationFails(p) \/ SeedCollides(p)
               \/ SeedFails(p) \/ Crash(p)
        PROVE  (pc'[q] = pc[q] /\ at'[q] = at[q]) \/ pc'[q] \in {"down", "waiting", "scan", "applying"}
    BY <1>1, <2>2 DEF Start, Lock, Skip, RefuseChanged, Execute, CommitMigration,
                      MigrationFails, SeedCollides, SeedFails, Crash
  <2>3. ASSUME NEW p \in Process, Unlock(p) \/ CheckSeed(p) \/ StoreSeed(p) \/ Listen(p)
        PROVE  p = q \/ (pc'[q] = pc[q] /\ at'[q] = at[q])
    BY <1>1, <2>3 DEF Unlock, CheckSeed, StoreSeed, Listen
  <2> QED
    BY <2>1, <2>2, <2>3 DEF Next, vars, Migrate, EnsureSeedRuns, Draw, StoreRun, SessionEnds
<1> QED
  BY <1>4, <1>5, <1>6, <1>7, <1>8, <1>9, <1>10

(* Once setval has run for a floor that is recorded or about to be, the     *)
(* sequence stays at or above the seeds: another setval computes the floor  *)
(* anew and draws only add.                                                 *)
LEMMA FloorStep == IInv /\ [Next]_vars => FloorSet'
<1> SUFFICES ASSUME IInv, [Next]_vars,
                    recorded'[FloorAt] # None
                      \/ (\E p \in Process : pc'[p] = "applying" /\ at'[p] = FloorAt)
             PROVE  sequence' >= Seeds
  BY DEF FloorSet
<1> USE DEF GoTo, Fault, Exit
<1>1. /\ pc \in [Process -> {"scan", "applying", "down", "waiting", "seeding", "storing", "up"}]
      /\ at \in [Process -> Nat \ {0}] /\ Seeds \in Nat /\ sequence \in Nat
  BY StartupConstants DEF IInv, TypeOK, Migrating
<1>2. Floor >= Seeds
  <2>1. /\ MaxNumber + FloorLiteral \in Nat
        /\ runs \cup {FloorLiteral} \in SUBSET (0..(MaxNumber + FloorLiteral))
    BY StartupConstants DEF IInv, TypeOK
  <2>2. \A o \in runs \cup {FloorLiteral} : o <= Floor
    BY <2>1, HighestBounds DEF Floor
  <2>3. Floor \in runs \cup {FloorLiteral} \cup {0}
    BY <2>1, HighestBounds DEF Floor
  <2>4. Seeds \in Nat /\ FloorLiteral \in Nat /\ Seeds <= FloorLiteral /\ FloorLiteral <= Floor
    BY <2>2, StartupConstants
  <2>5. Floor \in Nat
    BY <2>1, <2>3
  <2> HIDE DEF Floor
  <2> QED
    BY ONLY <2>4, <2>5
<1>3. ASSUME NEW p \in Process, Execute(p) PROVE sequence' >= Seeds
  <2>1. CASE at[p] = FloorAt
    BY <1>2, <1>3, <2>1 DEF Execute
  <2>2. CASE at[p] # FloorAt
    BY <1>1, <1>3, <2>2 DEF Execute, IInv, FloorSet
  <2> QED
    BY <2>1, <2>2
<1>4. ASSUME ~\E p \in Process : Execute(p)
      PROVE  /\ sequence' >= sequence
             /\ \A q \in Process : pc'[q] = "applying" => pc[q] = "applying" /\ at'[q] = at[q]
  <2>1. CASE sequence' = sequence /\ pc' = pc /\ at' = at
    BY <1>1, <2>1
  <2>2. ASSUME NEW p \in Process, Draw(p)
        PROVE  sequence' >= sequence /\ pc' = pc /\ at' = at
    BY <1>1, <2>2 DEF Draw
  <2>3. ASSUME NEW p \in Process, NEW step \in {"scan", "down", "waiting", "seeding", "storing", "up"},
               NEW position, GoTo(p, step, position), sequence' = sequence
        PROVE  /\ sequence' >= sequence
               /\ \A q \in Process : pc'[q] = "applying" => pc[q] = "applying" /\ at'[q] = at[q]
    BY <1>1, <2>3
  <2>4. ASSUME NEW p \in Process, Start(p) \/ Lock(p) \/ Migrate(p) \/ EnsureSeedRuns(p) \/ Crash(p)
        PROVE  /\ sequence' = sequence
               /\ \E step \in {"scan", "down", "waiting", "seeding", "storing", "up"}, position \in Nat :
                    GoTo(p, step, position)
    <3> HIDE DEF GoTo
    <3>1. at[p] \in Nat /\ at[p] + 1 \in Nat
      BY <1>1
    <3>2. CASE Start(p) \/ Lock(p) \/ Crash(p) \/ Skip(p) \/ RefuseChanged(p)
      BY <3>1, <3>2 DEF Start, Lock, Crash, Skip, RefuseChanged
    <3>3. CASE CommitMigration(p) \/ MigrationFails(p) \/ Unlock(p)
      BY <3>1, <3>3 DEF CommitMigration, MigrationFails, Unlock
    <3>4. CASE EnsureSeedRuns(p)
      BY <3>1, <3>4 DEF EnsureSeedRuns, CheckSeed, StoreSeed, SeedCollides, SeedFails, Listen
    <3> QED
      BY <1>4, <2>4, <3>2, <3>3, <3>4 DEF Migrate
  <2>5. ASSUME NEW p \in Process, Start(p) \/ Lock(p) \/ Migrate(p) \/ EnsureSeedRuns(p) \/ Crash(p)
        PROVE  /\ sequence' >= sequence
               /\ \A q \in Process : pc'[q] = "applying" => pc[q] = "applying" /\ at'[q] = at[q]
    <3> HIDE DEF GoTo
    <3> QED
      BY <2>3, <2>4, <2>5
  <2>6. CASE SessionEnds \/ (\E p \in Process : StoreRun(p)) \/ UNCHANGED vars
    BY <2>1, <2>6 DEF SessionEnds, StoreRun, vars
  <2> QED
    BY <2>2, <2>5, <2>6 DEF Next
<1>5. recorded'[FloorAt] # None => sequence >= Seeds
  <2>1. CASE recorded' = recorded
    BY <2>1 DEF IInv, FloorSet
  <2>2. CASE recorded' # recorded
    BY <2>2, AgreementStays, CommittedExtends
  <2> QED
    BY <2>1, <2>2
<1>6. CASE ~\E p \in Process : Execute(p)
  <2>1. sequence >= Seeds
    BY <1>4, <1>5, <1>6 DEF IInv, FloorSet
  <2>2. sequence' >= sequence /\ sequence' \in Nat
    BY <1>4, <1>6, TypeStep DEF TypeOK
  <2> QED
    BY <1>1, <2>1, <2>2
<1> QED
  BY <1>3, <1>6

-----------------------------------------------------------------------------
(* Every step of the migrations, the seeding and the serving, crashes       *)
(* included, preserves the inductive invariant.                             *)
THEOREM Inductive == Spec => []IInv
<1>1. IInv /\ [Next]_vars => IInv'
  BY TypeStep, AgreementStays, ScanStep, SeedsStep, FloorStep DEF IInv
<1> QED
  BY InitIInv, <1>1, PTL DEF Spec

(* The lock belongs to the process that migrates and to no other, and a     *)
(* number is being used by a serving API process only, in every state.      *)
THEOREM TypeCorrect == Spec => []TypeOK
  BY Inductive, PTL DEF IInv

(* Whatever releases start together and wherever they die, a process that   *)
(* serves has exactly its own files behind its schema, in order, and an API *)
(* process the seed runs.                                                   *)
THEOREM OwnSchema == Spec => []ServesOwnSchema
<1>1. IInv => ServesOwnSchema
  <2> SUFFICES ASSUME IInv, NEW p \in Process, pc[p] = "up"
               PROVE  /\ Len(Files[p]) <= Len(executed)
                      /\ Files[p] = SubSeq(executed, 1, Len(Files[p]))
                      /\ p \in Api => 1..Seeds \subseteq runs
    BY DEF ServesOwnSchema
  <2> DEFINE n == Len(Files[p])
             s == SubSeq(executed, 1, n)
  <2>1. n \in Nat /\ Files[p] \in Seq(Checksum) /\ executed \in Seq(Checksum) /\ Len(executed) \in Nat
    BY FilePlace, LenProperties DEF IInv, TypeOK
  <2>2. n <= Len(executed) /\ \A i \in 1..n : executed[i] = Files[p][i]
    BY DEF IInv, Verified, Agrees
  <2>3. \A i \in 1..n : i \in 1..Len(executed)
    BY <2>1, <2>2
  <2>4. s \in Seq(Checksum) /\ Len(s) = n /\ \A i \in 1..n : s[i] = executed[i]
    <3>1. s = [i \in 1..n |-> executed[i]]
      BY <2>1, <2>2
    <3>2. \A i \in 1..n : executed[i] \in Checksum
      BY <2>1, <2>3, ElementOfSeq
    <3> HIDE DEF s
    <3> QED
      BY <2>1, <3>1, <3>2, SeqDef
  <2>5. Files[p] = s
    <3> HIDE DEF s
    <3> QED
      BY <2>1, <2>2, <2>4, SeqEqual
  <2> QED
    BY <2>2, <2>5 DEF IInv, SeedsStored
<1> QED
  BY Inductive, <1>1, PTL

(* Once the floor migration is recorded no request of any process, an older *)
(* release's included, draws the number of a seed.                          *)
THEOREM FloorProtects == Spec => FloorProtectsSeeds
<1> DEFINE A == recorded[FloorAt] # None =>
                  \A p \in Process : drawn'[p] \in {0, drawn[p]} \cup {n \in Nat : n > Seeds}
<1>1. IInv /\ [Next]_vars => [A]_vars
  <2> SUFFICES ASSUME IInv, Next, recorded[FloorAt] # None, NEW q \in Process
               PROVE  drawn'[q] \in {0, drawn[q]} \cup {n \in Nat : n > Seeds}
    OBVIOUS
  <2>1. sequence >= Seeds /\ sequence \in Nat /\ Seeds \in Nat /\ drawn \in [Process -> 0..MaxNumber]
    BY StartupConstants DEF IInv, FloorSet, TypeOK
  <2>2. ASSUME NEW p \in Process, Draw(p) \/ StoreRun(p) \/ Crash(p)
        PROVE  drawn'[q] \in {0, drawn[q], sequence + 1}
    BY <2>1, <2>2 DEF Draw, StoreRun, Crash
  <2>3. drawn' = drawn \/ \E p \in Process : Draw(p) \/ StoreRun(p) \/ Crash(p)
    BY DEF Next, Start, Lock, Migrate, Skip, RefuseChanged, Execute, CommitMigration,
           MigrationFails, Unlock, EnsureSeedRuns, CheckSeed, StoreSeed, SeedCollides,
           SeedFails, Listen, SessionEnds
  <2> QED
    BY <2>1, <2>2, <2>3
<1> QED
  BY Inductive, <1>1, PTL DEF Spec, FloorProtectsSeeds
=============================================================================
