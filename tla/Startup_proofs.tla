-------------------------- MODULE Startup_proofs ---------------------------
(***************************************************************************)
(* What holds of any number of instances, migrations, images and pools,    *)
(* whatever crashes and whatever is signalled when.                        *)
(***************************************************************************)
EXTENDS Startup, TLAPS

Types ==
  /\ recorded \in [Versions -> Files \cup {NoFile}]
  /\ ran \in Seq(Versions)
  /\ lock \in Instances \cup {NoInstance}
  /\ pc \in [Instances -> Starting \cup {"off", "lost", "select", "draining", "shutdown"}]
  /\ conns \in [Instances -> 0 .. 2]
  /\ applied \in [Instances -> [Versions -> Files \cup {NoFile}]]
  /\ at \in [Instances -> 1 .. Last + 1]
  /\ listener \in [Instances -> {"none", "starting", "ready", "serving", "closed"}]
  /\ ready \in [Instances -> BOOLEAN]
  /\ signalled \in [Instances -> BOOLEAN]
  /\ image \in [Instances -> Images]
  /\ pool \in [Instances -> Pools]

\* What an instance holds at a point of main: connections, and the lock.
Held(i) ==
  /\ pc[i] \in {"off", "open", "acquire", "migrated", "select", "draining", "shutdown"} =>
       conns[i] = 0
  /\ pc[i] \in {"lock", "load", "files"} => conns[i] = 1
  /\ pc[i] \in {"tx", "lost"} => conns[i] = 2
  /\ conns[i] <= pool[i]
  /\ lock = i <=> pc[i] \in {"load", "files", "tx", "lost"}

\* What the loop has done and has yet to do.
Migrating(i) ==
  /\ pc[i] \in {"off", "open", "acquire", "lock", "load"} => at[i] = 1
  /\ pc[i] \in {"files", "tx"} =>
       \A v \in Versions : IF v >= at[i] THEN recorded[v] = applied[i][v]
                          ELSE image[i][v] \in {NoFile, recorded[v]}
  /\ pc[i] = "tx" =>
       at[i] \in Versions /\ image[i][at[i]] # NoFile /\ applied[i][at[i]] = NoFile
  /\ pc[i] \in {"migrated", "select", "draining", "shutdown"} =>
       \A v \in Versions : image[i][v] \in {NoFile, recorded[v]}

\* Where main is when the goroutine of Run runs.
Serving(i) ==
  (ready[i] \/ listener[i] # "none") => pc[i] \in {"select", "draining", "shutdown"}

\* schema_migrations records what has been run.
Recorded ==
  \A v \in Versions : recorded[v] # NoFile <=> \E n \in DOMAIN ran : ran[n] = v

IInv ==
  /\ Types
  /\ \A i \in Instances : Held(i) /\ Migrating(i) /\ Serving(i)
  /\ Recorded
  /\ RunOnce

\* A step of one instance; Fail, Return and Crash are ways to Exit.
Step(j) ==
  \/ Start(j) \/ Open(j) \/ Acquire(j) \/ AdvisoryLock(j) \/ LoadApplied(j)
  \/ Skip(j) \/ BeginTx(j) \/ Commit(j) \/ CommitLost(j) \/ Unlock(j)
  \/ Run(j) \/ SetReady(j) \/ Listen(j) \/ Signal(j) \/ Drain(j) \/ Shutdown(j)
  \/ Exit(j)

\* What a step of j leaves to the others: only who holds the lock writes to
\* schema_migrations, and what is there stays.
Apart(j) ==
  /\ \A i \in Instances \ {j} :
       /\ pc'[i] = pc[i] /\ conns'[i] = conns[i] /\ applied'[i] = applied[i]
       /\ at'[i] = at[i] /\ listener'[i] = listener[i] /\ ready'[i] = ready[i]
       /\ signalled'[i] = signalled[i]
       /\ lock' = i <=> lock = i
  /\ UNCHANGED config
  /\ lock # j => UNCHANGED recorded
  /\ \A v \in Versions : recorded[v] # NoFile => recorded'[v] = recorded[v]

-----------------------------------------------------------------------------
LEMMA ImageType ==
  ASSUME Types, NEW i \in Instances
  PROVE  /\ image[i] \in [Versions -> Files \cup {NoFile}]
         /\ pool[i] \in Nat \ {0}
BY StartupAssumption DEF Types, Versions

LEMMA InitInv == Init => IInv
<1> SUFFICES ASSUME Init PROVE IInv
  OBVIOUS
<1>1. Types
  BY StartupAssumption DEF Init, Types, NoFiles, Versions, Starting
<1>2. \A i \in Instances : Held(i)
  BY <1>1, ImageType, StartupAssumption DEF Init, Held
<1>3. \A i \in Instances : Migrating(i) /\ Serving(i)
  BY DEF Init, Migrating, Serving
<1>4. Recorded /\ RunOnce
  BY DEF Init, Recorded, RunOnce, NoFiles
<1> QED  BY <1>1, <1>2, <1>3, <1>4 DEF IInv

LEMMA TypesStep ==
  ASSUME IInv, NEW j \in Instances, Step(j)
  PROVE  Types'
<1> USE StartupAssumption DEF Types, Versions, db, loop, server, config, Starting, Goto
<1>t. Types /\ image[j] \in [Versions -> Files \cup {NoFile}]
  BY ImageType DEF IInv
<1>c. /\ pc[j] = "acquire" => conns[j] = 0
      /\ pc[j] = "files" => conns[j] = 1
      /\ pc[j] = "tx" => conns[j] = 2
  BY DEF IInv, Held
<1>r. pc[j] = "tx" => /\ at[j] \in Versions
                      /\ [recorded EXCEPT ![at[j]] = image[j][at[j]]]
                           \in [Versions -> Files \cup {NoFile}]
                      /\ Append(ran, at[j]) \in Seq(Versions)
  BY <1>t DEF IInv, Migrating
<1>1. CASE Start(j)
  BY <1>1, <1>t, <1>c DEF Start
<1>2. CASE Open(j)
  BY <1>2, <1>t, <1>c DEF Open
<1>3. CASE Acquire(j)
  BY <1>3, <1>t, <1>c DEF Acquire
<1>4. CASE AdvisoryLock(j)
  BY <1>4, <1>t, <1>c DEF AdvisoryLock
<1>5. CASE LoadApplied(j)
  BY <1>5, <1>t, <1>c DEF LoadApplied
<1>6. CASE Skip(j)
  BY <1>6, <1>t, <1>c DEF Skip
<1>7. CASE BeginTx(j)
  BY <1>7, <1>t, <1>c DEF BeginTx
<1>8. CASE Commit(j)
  <2>1. recorded' \in [Versions -> Files \cup {NoFile}] /\ ran' \in Seq(Versions)
    BY <1>8, <1>r DEF Commit
  <2> QED  BY <1>8, <1>t, <1>c, <1>r, <2>1 DEF Commit
<1>9. CASE CommitLost(j)
  <2>1. recorded' \in [Versions -> Files \cup {NoFile}] /\ ran' \in Seq(Versions)
    BY <1>9, <1>r DEF CommitLost
  <2> QED  BY <1>9, <1>t, <1>c, <1>r, <2>1 DEF CommitLost
<1>10. CASE Unlock(j)
  BY <1>10, <1>t, <1>c DEF Unlock
<1>11. CASE Run(j)
  BY <1>11, <1>t, <1>c DEF Run
<1>12. CASE SetReady(j)
  BY <1>12, <1>t, <1>c DEF SetReady
<1>13. CASE Listen(j)
  BY <1>13, <1>t, <1>c DEF Listen
<1>14. CASE Signal(j)
  BY <1>14, <1>t, <1>c DEF Signal
<1>15. CASE Drain(j)
  BY <1>15, <1>t, <1>c DEF Drain
<1>16. CASE Shutdown(j)
  BY <1>16, <1>t, <1>c DEF Shutdown
<1>17. CASE Exit(j)
  BY <1>17, <1>t, <1>c DEF Exit, NoFiles
<1> QED  BY <1>1, <1>2, <1>3, <1>4, <1>5, <1>6, <1>7, <1>8, <1>9, <1>10, <1>11, <1>12, <1>13, <1>14, <1>15, <1>16, <1>17 DEF Step

(***************************************************************************)
(* The instances are apart but for the lock and schema_migrations.         *)
(***************************************************************************)
LEMMA ApartStep ==
  ASSUME IInv, NEW j \in Instances, Step(j)
  PROVE  Apart(j)
<1> USE StartupAssumption DEF IInv, Types, Held, Apart, db, loop, server, config, Goto
<1>1. CASE Start(j)
  BY <1>1 DEF Start
<1>2. CASE Open(j)
  BY <1>2 DEF Open
<1>3. CASE Acquire(j)
  BY <1>3 DEF Acquire
<1>4. CASE AdvisoryLock(j)
  BY <1>4 DEF AdvisoryLock
<1>5. CASE LoadApplied(j)
  BY <1>5 DEF LoadApplied
<1>6. CASE Skip(j)
  BY <1>6 DEF Skip
<1>7. CASE BeginTx(j)
  BY <1>7 DEF BeginTx
<1>8. CASE Commit(j)
  BY <1>8 DEF Commit
<1>9. CASE CommitLost(j)
  BY <1>9 DEF CommitLost
<1>10. CASE Unlock(j)
  BY <1>10 DEF Unlock
<1>11. CASE Run(j)
  BY <1>11 DEF Run
<1>12. CASE SetReady(j)
  BY <1>12 DEF SetReady
<1>13. CASE Listen(j)
  BY <1>13 DEF Listen
<1>14. CASE Signal(j)
  BY <1>14 DEF Signal
<1>15. CASE Drain(j)
  BY <1>15 DEF Drain
<1>16. CASE Shutdown(j)
  BY <1>16 DEF Shutdown
<1>17. CASE Exit(j)
  BY <1>17 DEF Exit
<1> QED  BY <1>1, <1>2, <1>3, <1>4, <1>5, <1>6, <1>7, <1>8, <1>9, <1>10, <1>11, <1>12, <1>13, <1>14, <1>15, <1>16, <1>17 DEF Step

LEMMA HeldStep ==
  ASSUME IInv, NEW j \in Instances, Step(j)
  PROVE  Held(j)'
<1> USE StartupAssumption, ImageType DEF IInv, Types, Held, db, loop, server, config,
        Starting, Goto
<1>1. CASE Start(j)
  BY <1>1 DEF Start
<1>2. CASE Open(j)
  BY <1>2 DEF Open
<1>3. CASE Acquire(j)
  BY <1>3 DEF Acquire
<1>4. CASE AdvisoryLock(j)
  <2>1. /\ pc[j] = "lock" /\ lock' = j /\ pc' = [pc EXCEPT ![j] = "load"]
        /\ UNCHANGED <<conns, pool>>
    BY <1>4 DEF AdvisoryLock
  <2>2. pc'[j] = "load" /\ conns'[j] = 1
    BY <2>1
  <2> QED  BY <2>1, <2>2
<1>5. CASE LoadApplied(j)
  BY <1>5 DEF LoadApplied
<1>6. CASE Skip(j)
  <2>1. UNCHANGED <<pc, conns, pool, lock>>
    BY <1>6 DEF Skip
  <2> QED  BY <2>1
<1>7. CASE BeginTx(j)
  <2>1. /\ pc[j] = "files" /\ pc' = [pc EXCEPT ![j] = "tx"]
        /\ conns[j] < pool[j] /\ conns' = [conns EXCEPT ![j] = @ + 1]
        /\ UNCHANGED <<pool, lock>>
    BY <1>7 DEF BeginTx
  <2>2. pc'[j] = "tx" /\ conns[j] = 1 /\ conns'[j] = 2
    BY <2>1
  <2>3. 2 <= pool[j]
    BY <2>1, <2>2
  <2> QED  BY <2>1, <2>2, <2>3
<1>8. CASE Commit(j)
  BY <1>8 DEF Commit
<1>9. CASE CommitLost(j)
  BY <1>9 DEF CommitLost
<1>10. CASE Unlock(j)
  BY <1>10 DEF Unlock
<1>11. CASE Run(j)
  BY <1>11 DEF Run
<1>12. CASE SetReady(j)
  BY <1>12 DEF SetReady
<1>13. CASE Listen(j)
  BY <1>13 DEF Listen
<1>14. CASE Signal(j)
  BY <1>14 DEF Signal
<1>15. CASE Drain(j)
  BY <1>15 DEF Drain
<1>16. CASE Shutdown(j)
  BY <1>16 DEF Shutdown
<1>17. CASE Exit(j)
  BY <1>17 DEF Exit
<1> QED  BY <1>1, <1>2, <1>3, <1>4, <1>5, <1>6, <1>7, <1>8, <1>9, <1>10, <1>11, <1>12, <1>13, <1>14, <1>15, <1>16, <1>17 DEF Step

LEMMA MigratingStep ==
  ASSUME IInv, NEW j \in Instances, Step(j)
  PROVE  Migrating(j)'
<1> USE StartupAssumption, ImageType DEF IInv, Types, Migrating, Versions,
        db, loop, server, config, Goto
<1>1. CASE Start(j)
  BY <1>1 DEF Start
<1>2. CASE Open(j)
  BY <1>2 DEF Open
<1>3. CASE Acquire(j)
  BY <1>3 DEF Acquire
<1>4. CASE AdvisoryLock(j)
  BY <1>4 DEF AdvisoryLock
<1>5. CASE LoadApplied(j)
  BY <1>5 DEF LoadApplied
<1>6. CASE Skip(j)
  BY <1>6 DEF Skip
<1>7. CASE BeginTx(j)
  BY <1>7 DEF BeginTx
<1>8. CASE Commit(j)
  BY <1>8 DEF Commit
<1>9. CASE CommitLost(j)
  BY <1>9 DEF CommitLost
<1>10. CASE Unlock(j)
  BY <1>10 DEF Unlock
<1>11. CASE Run(j)
  BY <1>11 DEF Run
<1>12. CASE SetReady(j)
  BY <1>12 DEF SetReady
<1>13. CASE Listen(j)
  BY <1>13 DEF Listen
<1>14. CASE Signal(j)
  BY <1>14 DEF Signal
<1>15. CASE Drain(j)
  BY <1>15 DEF Drain
<1>16. CASE Shutdown(j)
  BY <1>16 DEF Shutdown
<1>17. CASE Exit(j)
  BY <1>17 DEF Exit
<1> QED  BY <1>1, <1>2, <1>3, <1>4, <1>5, <1>6, <1>7, <1>8, <1>9, <1>10, <1>11, <1>12, <1>13, <1>14, <1>15, <1>16, <1>17 DEF Step

LEMMA ServingStep ==
  ASSUME IInv, NEW j \in Instances, Step(j)
  PROVE  Serving(j)'
<1> USE DEF IInv, Types, Serving, db, loop, server, config, Goto
<1>1. CASE Start(j)
  BY <1>1 DEF Start
<1>2. CASE Open(j)
  BY <1>2 DEF Open
<1>3. CASE Acquire(j)
  BY <1>3 DEF Acquire
<1>4. CASE AdvisoryLock(j)
  BY <1>4 DEF AdvisoryLock
<1>5. CASE LoadApplied(j)
  BY <1>5 DEF LoadApplied
<1>6. CASE Skip(j)
  BY <1>6 DEF Skip
<1>7. CASE BeginTx(j)
  BY <1>7 DEF BeginTx
<1>8. CASE Commit(j)
  BY <1>8 DEF Commit
<1>9. CASE CommitLost(j)
  BY <1>9 DEF CommitLost
<1>10. CASE Unlock(j)
  BY <1>10 DEF Unlock
<1>11. CASE Run(j)
  BY <1>11 DEF Run
<1>12. CASE SetReady(j)
  BY <1>12 DEF SetReady
<1>13. CASE Listen(j)
  BY <1>13 DEF Listen
<1>14. CASE Signal(j)
  BY <1>14 DEF Signal
<1>15. CASE Drain(j)
  BY <1>15 DEF Drain
<1>16. CASE Shutdown(j)
  BY <1>16 DEF Shutdown
<1>17. CASE Exit(j)
  BY <1>17 DEF Exit
<1> QED  BY <1>1, <1>2, <1>3, <1>4, <1>5, <1>6, <1>7, <1>8, <1>9, <1>10, <1>11, <1>12, <1>13, <1>14, <1>15, <1>16, <1>17 DEF Step

-----------------------------------------------------------------------------
(***************************************************************************)
(* A commit adds a version that has not been run to what is recorded; if   *)
(* the image has no gaps, it is the next one.                              *)
(***************************************************************************)
LEMMA RecordStep ==
  ASSUME IInv, NEW j \in Instances, Commit(j) \/ CommitLost(j)
  PROVE  Recorded' /\ RunOnce'
<1> DEFINE v == at[j]
<1>1. /\ v \in Versions
      /\ recorded[v] = NoFile
      /\ image[j][v] # NoFile
      /\ recorded' = [recorded EXCEPT ![v] = image[j][v]]
      /\ ran' = Append(ran, v)
      /\ UNCHANGED image
  BY DEF Commit, CommitLost, IInv, Migrating, config
<1>2. /\ recorded \in [Versions -> Files \cup {NoFile}]
      /\ ran \in Seq(Versions)
      /\ \A w \in Versions : w < v => image[j][w] \in {NoFile, recorded[w]}
  <2>1. \A w \in Versions : w < v => ~ (w >= v)
    BY <1>1 DEF Versions
  <2> QED  BY <2>1 DEF Commit, CommitLost, IInv, Types, Migrating
<1>3. /\ DOMAIN ran = 1 .. Len(ran) /\ DOMAIN ran' = 1 .. Len(ran) + 1
      /\ Len(ran) \in Nat
      /\ ran'[Len(ran) + 1] = v
      /\ \A n \in DOMAIN ran : ran'[n] = ran[n]
  BY <1>1, <1>2
<1>4. \A n \in DOMAIN ran : ran[n] # v
  BY <1>1 DEF IInv, Recorded
<1>5. Recorded'
  <2>1. \A w \in Versions : recorded'[w] # NoFile <=> recorded[w] # NoFile \/ w = v
    BY <1>1, <1>2
  <2>2. ASSUME NEW w \in Versions
        PROVE  (\E n \in DOMAIN ran' : ran'[n] = w) <=> (\E n \in DOMAIN ran : ran[n] = w) \/ w = v
    BY <1>3
  <2> QED  BY <2>1, <2>2 DEF IInv, Recorded
<1>6. \A m, n \in DOMAIN ran' : m < n => ran'[m] # ran'[n]
  BY <1>3, <1>4 DEF IInv, RunOnce
<1>7. ASSUME NoGaps' PROVE \A n \in DOMAIN ran' : ran'[n] = n
  <2>1. NoGaps
    BY <1>1, <1>7 DEF NoGaps
  <2>2. \A n \in DOMAIN ran : ran[n] = n
    BY <2>1 DEF IInv, RunOnce
  <2>3. ASSUME NEW w \in Versions, w < v PROVE w \in DOMAIN ran
    <3>1. image[j][w] # NoFile
      BY <1>1, <2>1, <2>3 DEF NoGaps
    <3>2. recorded[w] # NoFile
      BY <1>2, <2>3, <3>1
    <3> QED  BY <2>2, <3>2 DEF IInv, Recorded
  <2>4. v \notin DOMAIN ran
    BY <1>4, <2>2
  <2>5. v = Len(ran) + 1
    <3>1. v \in Nat /\ 1 <= v /\ v <= Last /\ Last \in Nat
      BY <1>1, StartupAssumption DEF Versions
    <3>2. v > Len(ran)
      BY <1>3, <2>4, <3>1
    <3>3. v > 1 => v - 1 \in 1 .. Len(ran)
      BY <1>3, <2>3, <3>1 DEF Versions
    <3> QED  BY <1>3, <3>1, <3>2, <3>3
  <2> QED  BY <1>3, <2>2, <2>5
<1> QED  BY <1>5, <1>6, <1>7 DEF RunOnce

LEMMA InstanceStep ==
  ASSUME IInv, NEW j \in Instances, Step(j)
  PROVE  IInv'
<1>1. Types'
  BY TypesStep
<1>2. Apart(j)
  BY ApartStep
<1>3. ASSUME NEW i \in Instances PROVE Held(i)' /\ Migrating(i)' /\ Serving(i)'
  <2>1. CASE i = j
    BY <2>1, HeldStep, MigratingStep, ServingStep
  <2>2. CASE i # j
    <3>1. Held(i)'
      BY <1>2, <2>2 DEF IInv, Held, Apart, config
    <3>2. Serving(i)'
      BY <1>2, <2>2 DEF IInv, Serving, Apart
    <3>3. Migrating(i)'
      <4>1. CASE lock = j
        <5>1. pc[i] \notin {"files", "tx"}
          BY <2>2, <4>1 DEF IInv, Held
        <5> QED  BY <1>2, <2>2, <5>1 DEF IInv, Migrating, Apart, config
      <4>2. CASE lock # j
        BY <1>2, <2>2, <4>2 DEF IInv, Migrating, Apart, config
      <4> QED  BY <4>1, <4>2
    <3> QED  BY <3>1, <3>2, <3>3
  <2> QED  BY <2>1, <2>2
<1>4. Recorded' /\ RunOnce'
  <2>1. CASE Commit(j) \/ CommitLost(j)
    BY <2>1, RecordStep
  <2>2. CASE ~ (Commit(j) \/ CommitLost(j))
    <3>1. UNCHANGED <<recorded, ran, image>>
      BY <2>2 DEF Step, Start, Open, Acquire, AdvisoryLock, LoadApplied, Skip, BeginTx,
         Unlock, Run, SetReady, Listen, Signal, Drain, Shutdown, Exit, db, config
    <3> QED  BY <3>1 DEF IInv, Recorded, RunOnce, NoGaps
  <2> QED  BY <2>1, <2>2
<1> QED  BY <1>1, <1>3, <1>4 DEF IInv

LEMMA StepInv == IInv /\ [Next]_vars => IInv'
<1> SUFFICES ASSUME IInv, [Next]_vars PROVE IInv'
  OBVIOUS
<1>1. CASE Next
  <2>1. PICK j \in Instances : Step(j)
    BY <1>1 DEF Next, Step, Fail, Return, Crash
  <2> QED  BY <2>1, InstanceStep
<1>2. CASE UNCHANGED vars
  BY <1>2 DEF vars, db, loop, server, config, IInv, Types, Held, Migrating, Serving,
     Recorded, RunOnce, NoGaps
<1> QED  BY <1>1, <1>2

THEOREM Invariance == Spec => []IInv
BY InitInv, StepInv, PTL DEF Spec

-----------------------------------------------------------------------------
(***************************************************************************)
(* Type correctness, and no instance keeps a connection.                   *)
(***************************************************************************)
THEOREM TypeCorrect == Spec => []TypeOK
<1>1. IInv => TypeOK
  BY DEF IInv, Types, Held, TypeOK
<1> QED  BY <1>1, Invariance, PTL

(***************************************************************************)
(* Every migration is run once, and in order.                              *)
(***************************************************************************)
THEOREM Once == Spec => []RunOnce
BY Invariance, PTL DEF IInv

(***************************************************************************)
(* The advisory lock keeps what an instance has read true.                 *)
(***************************************************************************)
THEOREM Serialised == Spec => []SerialisedByLock
<1>1. IInv => SerialisedByLock
  BY DEF IInv, Migrating, SerialisedByLock
<1> QED  BY <1>1, Invariance, PTL

(***************************************************************************)
(* No instance is ready before the database is.                            *)
(***************************************************************************)
THEOREM Readiness == Spec => []ReadyIsMigrated
<1>1. IInv => ReadyIsMigrated
  BY DEF IInv, Migrating, Serving, ReadyIsMigrated
<1> QED  BY <1>1, Invariance, PTL

-----------------------------------------------------------------------------
(* What StartReturns comes down to, without fairness: nobody waits for     *)
(* ever, and nobody goes on for ever.                                      *)

\* One of the steps that FairSpec takes for i, a mismatch included, can be
\* taken.
CanGoOn(i) ==
  \/ pc[i] \in {"open", "load", "migrated", "lost"}
  \/ pc[i] \in {"acquire", "files"} /\ conns[i] < pool[i]
  \/ pc[i] = "lock" /\ lock = NoInstance
  \/ /\ pc[i] = "files"
     /\ at[i] \in Versions => image[i][at[i]] = NoFile \/ applied[i][at[i]] # NoFile
  \/ pc[i] = "tx" /\ recorded[at[i]] = NoFile

\* Who keeps i from going on: the instance that holds the lock it waits for,
\* or itself.
Blocker(i) == IF pc[i] = "lock" /\ lock # NoInstance THEN lock ELSE i

NeverStuck ==
  \A i \in Instances :
    (pc[i] \in Starting /\ pool[Blocker(i)] >= 2) => CanGoOn(Blocker(i))

(***************************************************************************)
(* The instance that keeps another from starting, or itself, can go on,    *)
(* if its own pool has two connections: no instances wait for each other,  *)
(* for the lock or for connections, however many there are.                *)
(***************************************************************************)
THEOREM NoDeadlock == Spec => []NeverStuck
<1>1. ASSUME IInv, NEW i \in Instances, pc[i] \in Starting \cup {"lost"},
             pc[i] = "lock" => lock = NoInstance, pool[i] >= 2
      PROVE  CanGoOn(i)
  <2>1. Types /\ Held(i) /\ Migrating(i)
    BY <1>1 DEF IInv
  <2>2. pool[i] \in Nat /\ conns[i] \in 0 .. 2
    BY <2>1, ImageType DEF Types
  <2>3. CASE pc[i] \in {"open", "load", "migrated", "lost"}
    BY <2>3 DEF CanGoOn
  <2>4. CASE pc[i] \in {"acquire", "files"}
    BY <1>1, <2>1, <2>2, <2>4 DEF CanGoOn, Held
  <2>5. CASE pc[i] = "lock"
    BY <1>1, <2>5 DEF CanGoOn
  <2>6. CASE pc[i] = "tx"
    <3>1. at[i] \in Versions /\ at[i] >= at[i]
      BY <2>1, <2>6 DEF Migrating, Versions
    <3>2. recorded[at[i]] = applied[i][at[i]] /\ applied[i][at[i]] = NoFile
      BY <2>1, <2>6, <3>1 DEF Migrating
    <3> QED  BY <2>6, <3>2 DEF CanGoOn
  <2> QED  BY <1>1, <2>3, <2>4, <2>5, <2>6 DEF Starting
<1>2. IInv => NeverStuck
  <2> SUFFICES ASSUME IInv, NEW i \in Instances, pc[i] \in Starting,
                      pool[Blocker(i)] >= 2
               PROVE  CanGoOn(Blocker(i))
    BY DEF NeverStuck
  <2>1. CASE pc[i] = "lock" /\ lock # NoInstance
    <3>1. lock \in Instances /\ Blocker(i) = lock
      BY <2>1 DEF IInv, Types, Blocker
    <3>2. pc[lock] \in {"load", "files", "tx", "lost"}
      BY <3>1 DEF IInv, Held
    <3> QED  BY <1>1, <3>1, <3>2 DEF Starting
  <2>2. CASE ~ (pc[i] = "lock" /\ lock # NoInstance)
    <3>1. Blocker(i) = i
      BY <2>2 DEF Blocker
    <3> QED  BY <1>1, <2>2, <3>1
  <2> QED  BY <2>1, <2>2
<1> QED  BY <1>2, Invariance, PTL

\* The steps that are left to an instance until it has migrated, at most.
Left(label, file) ==
  CASE label = "open"    -> 2 * Last + 5
    [] label = "acquire" -> 2 * Last + 4
    [] label = "lock"    -> 2 * Last + 3
    [] label = "load"    -> 2 * Last + 2
    [] label = "files"   -> 2 * (Last + 1 - file) + 1
    [] label = "tx"      -> 2 * (Last + 1 - file)
    [] OTHER             -> 0

Remaining(i) == Left(pc[i], at[i])

\* A step of main that is neither its end nor its start.
GoesOn(i) ==
  \/ Open(i) \/ Acquire(i) \/ AdvisoryLock(i) \/ LoadApplied(i)
  \/ Skip(i) \/ BeginTx(i) \/ Commit(i) \/ CommitLost(i) \/ Unlock(i)

Shortens ==
  \A i \in Instances :
    /\ GoesOn(i) => Remaining(i)' < Remaining(i)
    /\ ~ Start(i) => Remaining(i)' <= Remaining(i)

LEMMA LeftType ==
  ASSUME NEW label, NEW file \in 1 .. Last + 1
  PROVE  Left(label, file) \in Nat
<1> DEFINE rest == Last + 1 - file
<1>1. rest \in Nat /\ Last \in Nat
  BY StartupAssumption
<1>2. CASE label \in {"files", "tx"}
  <2>1. Left(label, file) \in {2 * rest + 1, 2 * rest}
    BY <1>2 DEF Left
  <2> HIDE DEF rest
  <2> QED  BY <1>1, <2>1
<1>3. CASE label \notin {"files", "tx"}
  <2>1. Left(label, file) \in {2 * Last + 5, 2 * Last + 4, 2 * Last + 3, 2 * Last + 2, 0}
    BY <1>3 DEF Left
  <2> QED  BY <1>1, <2>1
<1> QED  BY <1>2, <1>3

LEMMA RemainingStep ==
  ASSUME IInv, NEW i \in Instances
  PROVE  /\ Remaining(i) \in Nat
         /\ GoesOn(i) => Remaining(i)' < Remaining(i)
         /\ Step(i) /\ ~ Start(i) => Remaining(i)' <= Remaining(i)
<1> USE StartupAssumption
<1>1. /\ pc \in [Instances -> Starting \cup {"off", "lost", "select", "draining", "shutdown"}]
      /\ at \in [Instances -> 1 .. Last + 1]
      /\ pc[i] \in {"open", "acquire", "lock", "load"} => at[i] = 1
      /\ pc[i] = "tx" => at[i] \in 1 .. Last
      /\ pc[i] = "off" => conns[i] = 0
  BY DEF IInv, Types, Migrating, Held, Versions
<1>2. Remaining(i) \in Nat
  BY <1>1, LeftType DEF Remaining
<1>3. ASSUME GoesOn(i) PROVE Remaining(i)' < Remaining(i)
  <2> USE <1>1 DEF Remaining, Left, Goto, loop
  <2>1. CASE Open(i)
    BY <2>1 DEF Open
  <2>2. CASE Acquire(i)
    BY <2>2 DEF Acquire
  <2>3. CASE AdvisoryLock(i)
    BY <2>3 DEF AdvisoryLock
  <2>4. CASE LoadApplied(i)
    BY <2>4 DEF LoadApplied
  <2>5. CASE Skip(i)
    BY <2>5 DEF Skip, Versions
  <2>6. CASE BeginTx(i)
    BY <2>6 DEF BeginTx, Versions
  <2>7. CASE Commit(i)
    BY <2>7 DEF Commit
  <2>8. CASE CommitLost(i)
    BY <2>8 DEF CommitLost
  <2>9. CASE Unlock(i)
    BY <2>9 DEF Unlock
  <2> QED
    BY <1>3, <2>1, <2>2, <2>3, <2>4, <2>5, <2>6, <2>7, <2>8, <2>9 DEF GoesOn
<1>4. ASSUME Step(i), ~ Start(i) PROVE Remaining(i)' <= Remaining(i)
  <2>1. CASE GoesOn(i)
    <3>1. Remaining(i)' \in Nat
      <4>1. at'[i] \in 1 .. Last + 1
        BY <1>4, InstanceStep DEF IInv, Types
      <4> QED  BY <4>1, LeftType DEF Remaining
    <3> QED  BY <1>2, <1>3, <2>1, <3>1
  <2>2. CASE Run(i)
    BY <1>1, <2>2 DEF Run, Goto, loop, Remaining, Left
  <2>3. CASE SetReady(i) \/ Listen(i) \/ Signal(i)
    BY <1>2, <2>3 DEF SetReady, Listen, Signal, loop, Remaining
  <2>4. CASE Drain(i) \/ Shutdown(i)
    BY <1>1, <2>4 DEF Drain, Shutdown, Goto, loop, Remaining, Left
  <2>5. CASE Exit(i)
    <3>1. Remaining(i)' = 0
      BY <1>1, <2>5 DEF Exit, Goto, Remaining, Left
    <3> QED  BY <1>2, <3>1
  <2> QED  BY <1>4, <2>1, <2>2, <2>3, <2>4, <2>5 DEF Step, GoesOn
<1> QED  BY <1>2, <1>3, <1>4

(***************************************************************************)
(* An instance that starts has migrated, or ended, after 2 * Last + 5      *)
(* steps of its own at the latest, for no step of any instance ever makes  *)
(* what is left longer.  Together with NoDeadlock this is why StartReturns *)
(* only needs that who can go on does.                                     *)
(***************************************************************************)
THEOREM BoundedStart == Spec => [][Shortens]_vars
<1>1. ASSUME IInv, NEW j \in Instances, Step(j) PROVE Shortens
  <2> SUFFICES ASSUME NEW i \in Instances
               PROVE  /\ GoesOn(i) => Remaining(i)' < Remaining(i)
                      /\ ~ Start(i) => Remaining(i)' <= Remaining(i)
    BY DEF Shortens
  <2>1. CASE i = j
    BY <1>1, <2>1, RemainingStep
  <2>2. CASE i # j
    <3>1. pc'[i] = pc[i] /\ at'[i] = at[i]
      BY <1>1, <2>2, ApartStep DEF Apart
    <3>2. Remaining(i)' = Remaining(i)
      BY <3>1 DEF Remaining
    <3> QED  BY <1>1, <3>2, RemainingStep
  <2> QED  BY <2>1, <2>2
<1>2. ASSUME IInv, Next PROVE Shortens
  <2>1. PICK j \in Instances : Step(j)
    BY <1>2 DEF Next, Step, Fail, Return, Crash
  <2> QED  BY <1>1, <1>2, <2>1
<1> QED  BY <1>2, Invariance, PTL DEF Spec
=============================================================================
