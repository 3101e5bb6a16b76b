------------------------ MODULE ArtifactCache_proofs -------------------------
(***************************************************************************)
(* What the artifact store of ArtifactCache guarantees for any number of   *)
(* processes, batches and entries: mutual exclusion, publication that      *)
(* never replaces anything, the bound on its artifacts, and references     *)
(* that stay good until assembly.                                          *)
(***************************************************************************)
EXTENDS ArtifactCache, WellFoundedInduction, FiniteSetTheorems, TLAPS

(* The types of the control state.  The bytes of a usage are a sum. *)
ControlOK ==
    /\ store \in [Ids -> Entries]
    /\ lease \in Processes \cup {NoLease}
    /\ pc \in [Processes -> Labels]
    /\ at \in [Processes -> Nat \ {0}]
    /\ DOMAIN artifacts = Processes
    /\ \A p \in Processes :
          artifacts[p] \in [DOMAIN Batch[p] -> {"none", "store", "staging"}]
    /\ staging \in [Processes -> SUBSET Ids]
    /\ DOMAIN usage = Processes
    /\ damage \in Nat
    /\ faults \in Nat

(* The steps that work on one entry of the batch. *)
Entering == {"inspect", "awaitRepair", "repair", "unlink", "evict", "admit", "link", "reopen"}

Loading == {"lookup", "inspect", "awaitRepair", "repair", "unlink", "capture"}

Publishing == {"publish", "evict", "admit", "link", "reopen"}

(* What a process has made of its batch so far. *)
Progress(p) ==
    /\ pc[p] \in Entering => at[p] <= Len(Batch[p])
    /\ pc[p] \in Loading => \A i \in DOMAIN Batch[p] : artifacts[p][i] # "staging"
    /\ pc[p] \in Publishing \cup {"awaitPublish", "assemble"} =>
          \A i \in DOMAIN Batch[p] :
              artifacts[p][i] # "store" => Batch[p][i] \in staging[p]
    /\ pc[p] \in Publishing =>
          \A i \in DOMAIN Batch[p] : i < at[p] => artifacts[p][i] # "none"
    /\ pc[p] \in {"evict", "admit", "link", "reopen"} => artifacts[p][at[p]] = "none"
    /\ pc[p] = "assemble" => \A i \in DOMAIN Batch[p] : artifacts[p][i] # "none"

(* What the holder of the lease knows of the entry it works on. *)
Entry(p) ==
    /\ pc[p] \in {"unlink", "evict"} =>
          store[Id(p)].kind # "missing" /\ (faults = 0 => ~Sound(Id(p)))
    /\ pc[p] \in {"admit", "link"} => store[Id(p)].kind = "missing"
    /\ pc[p] = "reopen" =>
          store[Id(p)].kind # "missing" /\ (damage = 0 => Sound(Id(p)))

(* References into the store stay good while neither the disk nor an       *)
(* inspection fails.                                                       *)
References(p) ==
    damage = 0 /\ faults = 0 =>
        \A i \in DOMAIN Batch[p] : artifacts[p][i] = "store" => Sound(Batch[p][i])

IInv ==
    /\ ControlOK
    /\ LeaseExcludes
    /\ \A p \in Processes : Progress(p) /\ Entry(p) /\ References(p)

-----------------------------------------------------------------------------
(* Resolving a unit writes at most one position of one process. *)
LEMMA ResolveSets ==
    ASSUME ControlOK, NEW p \in Processes,
           NEW where \in {"none", "store", "staging"}, Resolve(p, where)
    PROVE  /\ DOMAIN artifacts' = Processes
           /\ \A q \in Processes :
                 artifacts'[q] \in [DOMAIN Batch[q] -> {"none", "store", "staging"}]
           /\ \A q \in Processes \ {p} : artifacts'[q] = artifacts[q]
           /\ \A i \in DOMAIN Batch[p] :
                 artifacts'[p][i] = IF i = at[p] THEN where ELSE artifacts[p][i]
BY DEF ControlOK, Resolve

(* What a process writes to the store is an entry. *)
LEMMA WrittenEntries ==
    Missing \in Entries /\ \A id \in Ids : Valid(id) \in Entries
BY CacheAssumption DEF Missing, Valid, Entries

(* The control state is typed in every initial state. *)
LEMMA ControlInit == Init => ControlOK
BY WrittenEntries, CacheAssumption DEF Init, ControlOK, Labels, Entries, Missing, Directory, Valid

(* Every step keeps the types of the control state. *)
LEMMA ControlStep ==
    ASSUME ControlOK, [Next]_vars
    PROVE  ControlOK'
<1> USE DEF ControlOK, Labels, Goto, NextUnit
<1>1. CASE UNCHANGED vars
      BY <1>1 DEF vars, Entries
<1>2. CASE Finished
      BY <1>1, <1>2 DEF Finished
<1>3. ASSUME NEW id \in Ids, Damage(id)
      PROVE  ControlOK'
      BY <1>3 DEF Damage, Entries
<1>4. ASSUME NEW p \in Processes, LookUp(p)
      PROVE  ControlOK'
      BY <1>4 DEF LookUp
<1>5. ASSUME NEW p \in Processes, Inspect(p)
      PROVE  ControlOK'
      BY <1>5, ResolveSets DEF Inspect, Accepted, Rejected
<1>6. ASSUME NEW p \in Processes, Repair(p)
      PROVE  ControlOK'
      BY <1>6, ResolveSets DEF Repair, Accepted, Rejected
<1>7. ASSUME NEW p \in Processes, Unlink(p)
      PROVE  ControlOK'
  <2>1. store' \in [Ids -> Entries]
        BY <1>7, WrittenEntries DEF Unlink
  <2>2. at' \in [Processes -> Nat \ {0}] /\ pc' \in [Processes -> Labels]
        BY <1>7 DEF Unlink
  <2> QED
        BY <1>7, <2>1, <2>2 DEF Unlink
<1>8. ASSUME NEW p \in Processes, Capture(p)
      PROVE  ControlOK'
  <2>1. Misses(p) \in SUBSET Ids
        BY CacheAssumption DEF Misses
  <2> QED
        BY <1>8, <2>1 DEF Capture
<1>9. ASSUME NEW p \in Processes, Publish(p)
      PROVE  ControlOK'
      BY <1>9, ResolveSets DEF Publish, PublishMiss, Accepted, Rejected
<1>10. ASSUME NEW p \in Processes, Evict(p)
       PROVE  ControlOK'
      BY <1>10, WrittenEntries DEF Evict
<1>11. ASSUME NEW p \in Processes, Admit(p)
       PROVE  ControlOK'
      BY <1>11, ResolveSets DEF Admit
<1>12. ASSUME NEW p \in Processes, Link(p)
       PROVE  ControlOK'
  <2>1. CASE store[Id(p)].kind = "missing"
    <3>1. store' \in [Ids -> Entries]
          BY <1>12, <2>1, WrittenEntries DEF Link
    <3> QED
          BY <1>12, <2>1, <3>1 DEF Link
  <2>2. CASE store[Id(p)].kind # "missing"
        BY <1>12, <2>2 DEF Link, Fail
  <2> QED
        BY <2>1, <2>2
<1>13. ASSUME NEW p \in Processes, Reopen(p)
       PROVE  ControlOK'
      BY <1>13, ResolveSets DEF Reopen
<1>14. ASSUME NEW p \in Processes, Assemble(p)
       PROVE  ControlOK'
      BY <1>14 DEF Assemble, Fail
<1>15. ASSUME NEW p \in Processes, AcquireForRepair(p)
       PROVE  ControlOK'
      BY <1>15 DEF AcquireForRepair
<1>16. ASSUME NEW p \in Processes, AcquireForPublish(p)
       PROVE  ControlOK'
      BY <1>16 DEF AcquireForPublish
<1>17. ASSUME NEW p \in Processes, StepFails(p)
       PROVE  ControlOK'
      BY <1>17 DEF StepFails, Fail
<1>18. ASSUME NEW p \in Processes, Kill(p)
       PROVE  ControlOK'
      BY <1>18 DEF Kill
<1> QED
      BY <1>1, <1>2, <1>3, <1>4, <1>5, <1>6, <1>7, <1>8, <1>9, <1>10, <1>11, <1>12,
         <1>13, <1>14, <1>15, <1>16, <1>17, <1>18 DEF Next, Work, Acquire

(* The lease moves with the steps that need it. *)
LEMMA LeaseStep ==
    ASSUME ControlOK, LeaseExcludes, [Next]_vars
    PROVE  LeaseExcludes'
<1> USE CacheAssumption DEF ControlOK, LeaseExcludes, Holding, Goto
<1>1. CASE UNCHANGED vars
      BY <1>1 DEF vars
<1>2. CASE Finished
      BY <1>1, <1>2 DEF Finished
<1>3. ASSUME NEW id \in Ids, Damage(id)
      PROVE  LeaseExcludes'
      BY <1>3 DEF Damage
<1>4. ASSUME NEW p \in Processes, LookUp(p)
      PROVE  LeaseExcludes'
      BY <1>4 DEF LookUp
<1>5. ASSUME NEW p \in Processes, Inspect(p)
      PROVE  LeaseExcludes'
      BY <1>5 DEF Inspect
<1>6. ASSUME NEW p \in Processes, Repair(p)
      PROVE  LeaseExcludes'
      BY <1>6 DEF Repair
<1>7. ASSUME NEW p \in Processes, Unlink(p)
      PROVE  LeaseExcludes'
      BY <1>7 DEF Unlink
<1>8. ASSUME NEW p \in Processes, Capture(p)
      PROVE  LeaseExcludes'
      BY <1>8 DEF Capture
<1>9. ASSUME NEW p \in Processes, Publish(p)
      PROVE  LeaseExcludes'
      BY <1>9 DEF Publish, PublishMiss
<1>10. ASSUME NEW p \in Processes, Evict(p)
       PROVE  LeaseExcludes'
      BY <1>10 DEF Evict
<1>11. ASSUME NEW p \in Processes, Admit(p)
       PROVE  LeaseExcludes'
      BY <1>11 DEF Admit
<1>12. ASSUME NEW p \in Processes, Link(p)
       PROVE  LeaseExcludes'
      BY <1>12 DEF Link, Fail
<1>13. ASSUME NEW p \in Processes, Reopen(p)
       PROVE  LeaseExcludes'
      BY <1>13 DEF Reopen
<1>14. ASSUME NEW p \in Processes, Assemble(p)
       PROVE  LeaseExcludes'
      BY <1>14 DEF Assemble, Fail
<1>15. ASSUME NEW p \in Processes, AcquireForRepair(p)
       PROVE  LeaseExcludes'
      BY <1>15 DEF AcquireForRepair
<1>16. ASSUME NEW p \in Processes, AcquireForPublish(p)
       PROVE  LeaseExcludes'
      BY <1>16 DEF AcquireForPublish
<1>17. ASSUME NEW p \in Processes, StepFails(p)
       PROVE  LeaseExcludes'
      BY <1>17 DEF StepFails, Fail
<1>18. ASSUME NEW p \in Processes, Kill(p)
       PROVE  LeaseExcludes'
      BY <1>18 DEF Kill
<1> QED
      BY <1>1, <1>2, <1>3, <1>4, <1>5, <1>6, <1>7, <1>8, <1>9, <1>10, <1>11, <1>12,
         <1>13, <1>14, <1>15, <1>16, <1>17, <1>18 DEF Next, Work, Acquire

(* A batch is a sequence of identities. *)
LEMMA Batches ==
    \A p \in Processes :
        /\ Len(Batch[p]) \in Nat
        /\ DOMAIN Batch[p] = 1..Len(Batch[p])
        /\ \A i \in DOMAIN Batch[p] : Batch[p][i] \in Ids
BY CacheAssumption

(* Each process carries on with its own batch. *)
LEMMA ProgressStep ==
    ASSUME ControlOK, \A p \in Processes : Progress(p), [Next]_vars,
           NEW q \in Processes
    PROVE  Progress(q)'
<1> USE Batches DEF ControlOK, Progress, Entering, Loading, Publishing, Goto, NextUnit
<1>1. CASE UNCHANGED vars
      BY <1>1 DEF vars
<1>2. CASE Finished
      BY <1>1, <1>2 DEF Finished
<1>3. ASSUME NEW id \in Ids, Damage(id)
      PROVE  Progress(q)'
      BY <1>3 DEF Damage
<1>4. ASSUME NEW p \in Processes, LookUp(p)
      PROVE  Progress(q)'
      BY <1>4 DEF LookUp, AtUnit
<1>5. ASSUME NEW p \in Processes, Inspect(p)
      PROVE  Progress(q)'
  <2>1. CASE Resolve(p, "store") /\ NextUnit(p) /\ Goto(p, "lookup")
    <3>1. \A i \in DOMAIN Batch[q] : artifacts'[q][i] \in {artifacts[q][i], "store"}
          BY <2>1, ResolveSets
    <3> QED
          BY <1>5, <2>1, <3>1, ResolveSets DEF Inspect
  <2>2. CASE Goto(p, "awaitRepair") /\ UNCHANGED <<at, artifacts>>
        BY <1>5, <2>2 DEF Inspect
  <2> QED
        BY <1>5, <2>1, <2>2 DEF Inspect
<1>6. ASSUME NEW p \in Processes, Repair(p)
      PROVE  Progress(q)'
  <2>1. CASE Resolve(p, "store") /\ NextUnit(p) /\ Goto(p, "lookup")
    <3>1. \A i \in DOMAIN Batch[q] : artifacts'[q][i] \in {artifacts[q][i], "store"}
          BY <2>1, ResolveSets
    <3> QED
          BY <1>6, <2>1, <3>1, ResolveSets DEF Repair
  <2>2. CASE UNCHANGED artifacts
        BY <1>6, <2>2 DEF Repair
  <2> QED
        BY <1>6, <2>1, <2>2 DEF Repair
<1>7. ASSUME NEW p \in Processes, Unlink(p)
      PROVE  Progress(q)'
      BY <1>7 DEF Unlink
<1>8. ASSUME NEW p \in Processes, Capture(p)
      PROVE  Progress(q)'
      BY <1>8 DEF Capture, Misses
<1>9. ASSUME NEW p \in Processes, Publish(p)
      PROVE  Progress(q)'
  <2>1. pc[p] = "publish" /\ UNCHANGED staging
        BY <1>9 DEF Publish
  <2>2. CASE Resolve(p, "store") /\ NextUnit(p) /\ UNCHANGED pc
        BY <2>1, <2>2, ResolveSets
  <2>3. CASE ~AtUnit(p) /\ Goto(p, "assemble") /\ UNCHANGED <<at, artifacts>>
        BY <2>1, <2>3 DEF AtUnit
  <2>4. CASE artifacts[p][at[p]] # "none" /\ NextUnit(p) /\ UNCHANGED <<pc, artifacts>>
        BY <2>1, <2>4
  <2>5. CASE /\ AtUnit(p) /\ artifacts[p][at[p]] = "none"
             /\ Goto(p, "admit") \/ Goto(p, "evict")
             /\ UNCHANGED <<at, artifacts>>
        BY <2>1, <2>5 DEF AtUnit
  <2> QED
        BY <1>9, <2>2, <2>3, <2>4, <2>5 DEF Publish, PublishMiss
<1>10. ASSUME NEW p \in Processes, Evict(p)
       PROVE  Progress(q)'
      BY <1>10 DEF Evict
<1>11. ASSUME NEW p \in Processes, Admit(p)
       PROVE  Progress(q)'
  <2>1. CASE Resolve(p, "staging") /\ NextUnit(p) /\ Goto(p, "publish")
        BY <1>11, <2>1, ResolveSets DEF Admit
  <2>2. CASE Goto(p, "link") /\ UNCHANGED <<at, artifacts>>
        BY <1>11, <2>2 DEF Admit
  <2> QED
        BY <1>11, <2>1, <2>2 DEF Admit
<1>12. ASSUME NEW p \in Processes, Link(p)
       PROVE  Progress(q)'
      BY <1>12 DEF Link, Fail
<1>13. ASSUME NEW p \in Processes, Reopen(p)
       PROVE  Progress(q)'
      BY <1>13, ResolveSets DEF Reopen
<1>14. ASSUME NEW p \in Processes, Assemble(p)
       PROVE  Progress(q)'
      BY <1>14 DEF Assemble, Fail
<1>15. ASSUME NEW p \in Processes, AcquireForRepair(p)
       PROVE  Progress(q)'
      BY <1>15 DEF AcquireForRepair
<1>16. ASSUME NEW p \in Processes, AcquireForPublish(p)
       PROVE  Progress(q)'
      BY <1>16 DEF AcquireForPublish
<1>17. ASSUME NEW p \in Processes, StepFails(p)
       PROVE  Progress(q)'
      BY <1>17 DEF StepFails, Fail
<1>18. ASSUME NEW p \in Processes, Kill(p)
       PROVE  Progress(q)'
      BY <1>18 DEF Kill
<1> QED
      BY <1>1, <1>2, <1>3, <1>4, <1>5, <1>6, <1>7, <1>8, <1>9, <1>10, <1>11, <1>12,
         <1>13, <1>14, <1>15, <1>16, <1>17, <1>18 DEF Next, Work, Acquire

(* While every inspection succeeds, no process touches a valid entry. *)
LEMMA ValidIsKept ==
    ASSUME ControlOK, \A p \in Processes : Entry(p), [Next]_vars,
           NEW id \in Ids, Sound(id), faults = 0
    PROVE  store'[id] = store[id] \/ damage' # damage
<1> USE DEF ControlOK, Entry, Sound
<1>1. CASE UNCHANGED store
      BY <1>1
<1>2. ASSUME NEW p \in Processes, Unlink(p) \/ Evict(p) \/ Link(p)
      PROVE  store'[id] = store[id]
      BY <1>2 DEF Unlink, Evict, Link
<1>3. ASSUME NEW d \in Ids, Damage(d)
      PROVE  damage' # damage
      BY <1>3 DEF Damage
<1> QED
      BY <1>1, <1>2, <1>3
         DEF Next, vars, Finished, Work, Acquire, LookUp, Inspect, Repair, Capture, Publish,
             Admit, Reopen, Assemble, AcquireForRepair, AcquireForPublish, StepFails, Kill

(* Faults and damage are only ever counted up. *)
LEMMA CountsGrow ==
    ASSUME ControlOK, [Next]_vars
    PROVE  /\ damage' = 0 => damage = 0
           /\ faults' = 0 => faults = 0
           /\ damage' # damage => damage' # 0
<1> USE DEF ControlOK
<1>1. ASSUME NEW id \in Ids
      PROVE  Accepted(id) \/ Rejected(id) => faults' \in {faults, faults + 1}
      BY DEF Accepted, Rejected
<1>2. UNCHANGED faults \/ faults' = faults + 1
      BY <1>1 DEF Next, vars, Finished, Work, Acquire, LookUp, Inspect, Repair, Unlink,
             Capture, Publish, PublishMiss, Evict, Admit, Link, Reopen, Assemble,
             AcquireForRepair, AcquireForPublish, StepFails, Kill, Damage, Accepted, Rejected
<1>3. UNCHANGED damage \/ damage' = damage + 1
      BY DEF Next, vars, Finished, Work, Acquire, LookUp, Inspect, Repair, Unlink,
             Capture, Publish, Evict, Admit, Link, Reopen, Assemble,
             AcquireForRepair, AcquireForPublish, StepFails, Kill, Damage
<1> QED
      BY <1>2, <1>3

(* A holder of the lease is alone with its entry. *)
LEMMA EntryStep ==
    ASSUME ControlOK, LeaseExcludes, \A p \in Processes : Progress(p) /\ Entry(p), [Next]_vars,
           NEW q \in Processes
    PROVE  Entry(q)'
<1> DEFINE AtEntry == {"unlink", "evict", "admit", "link", "reopen"}
<1>1. /\ damage' = 0 => damage = 0
      /\ faults' = 0 => faults = 0
      BY CountsGrow
<1>2. Entry(q) /\ (pc[q] \in Holding <=> lease = q)
      BY DEF LeaseExcludes
<1>3. pc[q] \in AtEntry => Id(q) \in Ids
      BY Batches DEF ControlOK, Progress, Entering, Id
<1>4. CASE pc'[q] \notin AtEntry
      BY <1>4 DEF Entry
<1>5. CASE UNCHANGED store /\ pc'[q] = pc[q] /\ at'[q] = at[q]
      BY <1>1, <1>2, <1>5 DEF Entry, Id, Sound
<1>6. ASSUME NEW id \in Ids, Damage(id)
      PROVE  Entry(q)'
      BY <1>1, <1>2, <1>3, <1>6 DEF Damage, ControlOK, Entry, Id, Sound
<1>7. ASSUME NEW p \in Processes \ {q}, Unlink(p) \/ Evict(p) \/ Link(p)
      PROVE  Entry(q)'
  <2>1. lease = p
        BY <1>7 DEF LeaseExcludes, Holding, Unlink, Evict, Link
  <2>2. pc[q] \notin AtEntry /\ pc'[q] = pc[q]
        BY <1>2, <1>7, <2>1 DEF Holding, Unlink, Evict, Link, Goto, ControlOK, Fail
  <2> QED
        BY <1>4, <2>2
<1>8. ASSUME Repair(q) \/ Publish(q)
      PROVE  Entry(q)'
  <2>1. UNCHANGED <<store, damage>>
        BY <1>8 DEF Repair, Publish
  <2>2. CASE UNCHANGED at /\ Rejected(Id(q)) /\ store[Id(q)].kind # "missing"
             /\ (Goto(q, "unlink") \/ Goto(q, "evict"))
        BY <1>1, <2>1, <2>2 DEF Rejected, Goto, ControlOK, Entry, Sound, Id
  <2>3. CASE UNCHANGED at /\ store[Id(q)].kind = "missing" /\ Goto(q, "admit")
        BY <2>1, <2>3 DEF Goto, ControlOK, Entry, Id
  <2>4. CASE pc'[q] \in {"lookup", "publish", "assemble"}
        BY <1>4, <2>4
  <2> QED
        BY <1>8, <2>2, <2>3, <2>4 DEF Repair, Publish, PublishMiss, Goto, ControlOK
<1>9. ASSUME Evict(q) \/ Admit(q)
      PROVE  Entry(q)'
  <2>1. CASE Evict(q)
        BY <1>3, <2>1 DEF Evict, Goto, ControlOK, Entry, Id, Missing
  <2>2. CASE Admit(q)
        BY <1>2, <2>2 DEF Admit, Goto, ControlOK, Entry, Id, Sound
  <2> QED
        BY <1>9, <2>1, <2>2
<1>10. ASSUME Link(q)
       PROVE  Entry(q)'
       BY <1>2, <1>3, <1>10 DEF Link, Goto, ControlOK, Entry, Id, Sound, Valid
<1>11. ASSUME \/ LookUp(q) \/ Inspect(q) \/ Unlink(q) \/ Capture(q) \/ Reopen(q)
              \/ Assemble(q) \/ Acquire(q) \/ StepFails(q) \/ Kill(q)
       PROVE  Entry(q)'
  <2>1. pc'[q] \notin AtEntry
        BY <1>11 DEF LookUp, Inspect, Unlink, Capture, Reopen, Assemble, Acquire, StepFails,
             Kill, AcquireForRepair, AcquireForPublish, Goto, Fail, ControlOK
  <2> QED
        BY <1>4, <2>1
<1>12. ASSUME NEW p \in Processes \ {q},
              Work(p) \/ Acquire(p) \/ StepFails(p) \/ Kill(p)
       PROVE  pc'[q] = pc[q] /\ at'[q] = at[q]
       BY <1>12 DEF Work, LookUp, Inspect, Repair, Unlink, Capture, Publish, PublishMiss,
             Evict, Admit, Link, Reopen, Assemble, Acquire, AcquireForRepair,
             AcquireForPublish, StepFails, Kill, Goto, NextUnit, Fail, ControlOK
<1>13. ASSUME NEW p \in Processes \ {q},
              Work(p) \/ Acquire(p) \/ StepFails(p) \/ Kill(p)
       PROVE  Entry(q)'
  <2>1. UNCHANGED store \/ Unlink(p) \/ Evict(p) \/ Link(p)
        BY <1>13 DEF Work, LookUp, Inspect, Repair, Capture, Publish, Admit, Reopen,
             Assemble, Acquire, AcquireForRepair, AcquireForPublish, StepFails, Kill
  <2> QED
        BY <1>5, <1>7, <1>12, <1>13, <2>1
<1>14. CASE UNCHANGED vars \/ Finished
       BY <1>5, <1>14 DEF Finished, vars
<1> QED
       BY <1>6, <1>8, <1>9, <1>10, <1>11, <1>13, <1>14 DEF Next, Work

(* An artifact counts as found in the store only once it was verified or   *)
(* published there.                                                        *)
LEMMA ReferencesStep ==
    ASSUME ControlOK, \A p \in Processes : Progress(p) /\ Entry(p) /\ References(p),
           [Next]_vars, NEW q \in Processes
    PROVE  References(q)'
<1> SUFFICES ASSUME damage' = 0, faults' = 0, NEW i \in DOMAIN Batch[q],
                    artifacts'[q][i] = "store"
             PROVE  Sound(Batch[q][i])'
    BY DEF References
<1>1. damage = 0 /\ faults = 0
      BY CountsGrow
<1>2. Batch[q][i] \in Ids
      BY Batches
<1>3. Sound(Batch[q][i]) => Sound(Batch[q][i])'
      BY <1>1, <1>2, ValidIsKept DEF Sound
<1>4. CASE artifacts[q][i] = "store"
      BY <1>1, <1>3, <1>4 DEF References
<1>5. CASE artifacts[q][i] # "store" /\ Resolve(q, "store") /\ Sound(Id(q))
      BY <1>3, <1>5, ResolveSets DEF Id
<1>6. ASSUME Reopen(q)
      PROVE  Sound(Id(q))
      BY <1>1, <1>6 DEF Reopen, Entry
<1>7. ASSUME NEW p \in Processes, Resolve(p, "staging") \/ (Resolve(p, "store") /\ p # q)
      PROVE  artifacts[q][i] = "store"
      BY <1>7, ResolveSets
<1> QED
      BY <1>4, <1>5, <1>6, <1>7
         DEF Next, vars, Finished, Work, Acquire, LookUp, Inspect, Repair, Unlink, Capture,
             Publish, PublishMiss, Evict, Admit, Link, Reopen, Assemble, AcquireForRepair,
             AcquireForPublish, StepFails, Kill, Damage, Accepted

(* Nothing is held, resolved or referred to at the start. *)
LEMMA IInvInit == Init => IInv
<1> SUFFICES ASSUME Init PROVE IInv
    OBVIOUS
<1>1. LeaseExcludes
      BY CacheAssumption DEF Init, LeaseExcludes, Holding
<1>2. \A p \in Processes : Progress(p) /\ Entry(p) /\ References(p)
      BY Batches DEF Init, Progress, Entry, References, Entering, Loading, Publishing
<1> QED
      BY ControlInit, <1>1, <1>2 DEF IInv

(* The invariant of control, lease, progress, entries and references. *)
THEOREM IInvHolds == Spec => []IInv
<1>1. ASSUME IInv, [Next]_vars
      PROVE  IInv'
      BY <1>1, ControlStep, LeaseStep, ProgressStep, EntryStep, ReferencesStep DEF IInv
<1> QED
      BY IInvInit, <1>1, PTL DEF Spec

-----------------------------------------------------------------------------
(* Repair and publication run under the file lock, and whoever holds it is *)
(* at one of their steps: CacheLease is taken and dropped with them.       *)
THEOREM LeaseExcludesHolds == Spec => []LeaseExcludes
<1>1. IInv => LeaseExcludes
      BY DEF IInv
<1> QED
      BY <1>1, IInvHolds, PTL

(* hard_link never finds its path taken, so that publication never fails   *)
(* because of another process.                                             *)
THEOREM LinkNeverCollidesHolds == Spec => []LinkNeverCollides
<1>1. IInv => LinkNeverCollides
      BY DEF IInv, Entry, LinkNeverCollides
<1> QED
      BY <1>1, IInvHolds, PTL

(* Every artifact that ArtifactCache::capture hands to assembly is there   *)
(* when assembly opens it, while neither the disk nor an inspection fails. *)
THEOREM AssemblyFindsEverythingHolds == Spec => []AssemblyFindsEverything
<1>1. ASSUME IInv, NEW p \in Processes, pc[p] = "assemble", NEW i \in DOMAIN Batch[p]
      PROVE  artifacts[p][i] # "none" /\ (damage + faults = 0 => Readable(p, i))
  <2>1. artifacts[p][i] \in {"store", "staging"} /\ artifacts[p][i] # "none"
        BY <1>1 DEF IInv, ControlOK, Progress
  <2>2. artifacts[p][i] = "staging" => Batch[p][i] \in staging[p]
        BY <1>1 DEF IInv, Progress
  <2>3. damage + faults = 0 => damage = 0 /\ faults = 0
        BY <1>1 DEF IInv, ControlOK
  <2>4. damage = 0 /\ faults = 0 /\ artifacts[p][i] = "store" => Sound(Batch[p][i])
        BY <1>1 DEF IInv, References
  <2> QED
        BY <2>1, <2>2, <2>3, <2>4 DEF Readable
<1>2. IInv => AssemblyFindsEverything
      BY <1>1 DEF AssemblyFindsEverything
<1> QED
      BY <1>2, IInvHolds, PTL

(* Until an inspection fails on a sound entry, no process removes or        *)
(* replaces a valid one.                                                    *)
THEOREM ValidEntriesAreKeptHolds == Spec => ValidEntriesAreKept
<1>1. IInv /\ [Next]_vars =>
          [\A id \in Ids : store[id].kind = "valid" /\ faults' = 0 =>
              store'[id] = store[id] \/ damage' # damage]_vars
  <2> SUFFICES ASSUME IInv, [Next]_vars, faults' = 0,
                      NEW id \in Ids, store[id].kind = "valid"
               PROVE  store'[id] = store[id] \/ damage' # damage
        OBVIOUS
  <2>1. faults = 0
        BY CountsGrow DEF IInv
  <2> QED
        BY <2>1, ValidIsKept DEF IInv, Sound
<1> QED
      BY <1>1, IInvHolds, PTL DEF Spec, ValidEntriesAreKept

-----------------------------------------------------------------------------
(* Files of a store are finitely many, since identities are. *)
LEMMA FilesAreFinite ==
    ASSUME NEW s
    PROVE  IsFiniteSet(Files(s)) /\ Cardinality(Files(s)) \in Nat
BY CacheAssumption, FS_Subset, FS_CardinalityType DEF Files

(* remove_corrupt takes one file, or a foreign directory that is none. *)
LEMMA FilesWithout ==
    ASSUME NEW s \in [Ids -> Entries], NEW id \in Ids, s[id].kind # "missing"
    PROVE  Cardinality(Files([s EXCEPT ![id] = Missing])) =
               IF s[id].kind = "directory" THEN Cardinality(Files(s))
               ELSE Cardinality(Files(s)) - 1
<1>1. Files([s EXCEPT ![id] = Missing]) = Files(s) \ {id}
      BY DEF Files, Missing
<1>2. CASE s[id].kind = "directory"
  <2>1. Files(s) \ {id} = Files(s)
        BY <1>2 DEF Files
  <2> QED
        BY <1>1, <1>2, <2>1
<1>3. CASE s[id].kind # "directory"
  <2>1. id \in Files(s)
        BY <1>3 DEF Files, Entries
  <2> QED
        BY <1>1, <1>3, <2>1, FilesAreFinite, FS_RemoveElement
<1> QED
      BY <1>2, <1>3

(* A link adds one file where there was nothing. *)
LEMMA FilesWith ==
    ASSUME NEW s \in [Ids -> Entries], NEW id \in Ids, s[id].kind = "missing"
    PROVE  Cardinality(Files([s EXCEPT ![id] = Valid(id)])) = Cardinality(Files(s)) + 1
<1>1. Files([s EXCEPT ![id] = Valid(id)]) = Files(s) \cup {id}
      BY DEF Files, Valid
<1>2. id \notin Files(s)
      BY DEF Files
<1> QED
      BY <1>1, <1>2, FilesAreFinite, FS_AddElement

(* What a publisher has counted is what the store holds. *)
Counted(p) ==
    /\ pc[p] \in {"publish", "evict", "admit", "link"} =>
          usage[p].artifacts = Cardinality(Files(store))
    /\ pc[p] = "reopen" => usage[p].artifacts + 1 = Cardinality(Files(store))
    /\ pc[p] = "link" => usage[p].artifacts < MaxArtifacts

(* The count scanned once stays exact, because only the holder of the lease *)
(* adds or removes files, and bounds the store because it is asked for it. *)
CInv == ArtifactsWithinBound /\ \A p \in Processes : Counted(p)

(* Only the lease holder counts, and only a lease holder changes files. *)
LEMMA CountStep ==
    ASSUME IInv, CInv, [Next]_vars
    PROVE  CInv'
<1> USE DEF Goto
<1>1. ControlOK /\ LeaseExcludes /\ \A p \in Processes : Progress(p) /\ Entry(p) /\ Counted(p)
      BY DEF IInv, CInv
<1>2. /\ Cardinality(Files(store)) <= MaxArtifacts /\ MaxArtifacts \in Nat
      /\ Cardinality(Files(store)) \in Nat /\ Cardinality(Files(store')) \in Nat
      BY CacheAssumption, FilesAreFinite DEF CInv, ArtifactsWithinBound
<1>3. \A p \in Processes : pc[p] \in Holding => pc[p] = "publish" \/ Id(p) \in Ids
      BY <1>1, Batches DEF ControlOK, Progress, Entering, Holding, Id
<1>4. ASSUME NEW p \in Processes, pc[p] \in Holding, NEW q \in Processes \ {p}
      PROVE  pc[q] \notin Holding
      BY <1>1, <1>4 DEF LeaseExcludes
<1>5. ASSUME NEW q \in Processes, NEW p \in Processes \ {q},
             Work(p) \/ Acquire(p) \/ StepFails(p) \/ Kill(p)
      PROVE  pc'[q] = pc[q] /\ usage'[q] = usage[q]
      BY <1>1, <1>5 DEF Work, LookUp, Inspect, Repair, Unlink, Capture, Publish, PublishMiss,
             Evict, Admit, Link, Reopen, Assemble, Acquire, AcquireForRepair,
             AcquireForPublish, StepFails, Kill, Fail, ControlOK
<1>6. ASSUME NEW p \in Processes, Unlink(p)
      PROVE  CInv'
  <2>1. pc'[p] = "lookup" /\ store' = [store EXCEPT ![Id(p)] = Missing]
        BY <1>1, <1>6 DEF Unlink, ControlOK
  <2>2. Cardinality(Files(store')) =
            IF store[Id(p)].kind = "directory" THEN Cardinality(Files(store))
            ELSE Cardinality(Files(store)) - 1
        BY <1>1, <1>3, <1>6, <2>1, FilesWithout, ZenonT(30) DEF Unlink, Entry, ControlOK, Holding
  <2>3. \A q \in Processes \ {p} : pc'[q] \notin Holding
        BY <1>4, <1>5, <1>6 DEF Unlink, Work, Holding
  <2> QED
        BY <1>2, <2>1, <2>2, <2>3 DEF CInv, ArtifactsWithinBound, Counted, Holding
<1>7. ASSUME NEW p \in Processes, Evict(p)
      PROVE  CInv'
  <2>1. pc'[p] = "admit" /\ store' = [store EXCEPT ![Id(p)] = Missing]
        BY <1>1, <1>7 DEF Evict, ControlOK
  <2>2. usage'[p].artifacts = IF store[Id(p)].kind = "directory" THEN usage[p].artifacts
                              ELSE SaturatingSub(usage[p].artifacts, 1)
        BY <1>1, <1>7 DEF Evict, ControlOK
  <2>3. Cardinality(Files(store')) =
            IF store[Id(p)].kind = "directory" THEN Cardinality(Files(store))
            ELSE Cardinality(Files(store)) - 1
        BY <1>1, <1>3, <1>7, <2>1, FilesWithout, ZenonT(30) DEF Evict, Entry, ControlOK, Holding
  <2>4. usage[p].artifacts = Cardinality(Files(store))
        BY <1>1, <1>7 DEF Counted, Evict
  <2>5. usage'[p].artifacts = Cardinality(Files(store'))
        BY <1>2, <2>2, <2>3, <2>4 DEF SaturatingSub
  <2>6. \A q \in Processes \ {p} : pc'[q] \notin Holding
        BY <1>4, <1>5, <1>7 DEF Evict, Work, Holding
  <2>7. Counted(p)' /\ \A q \in Processes \ {p} : Counted(q)'
        BY <2>1, <2>5, <2>6 DEF Counted, Holding
  <2>8. Cardinality(Files(store')) <= MaxArtifacts
        BY <1>2, <2>3
  <2> QED
        BY <2>7, <2>8 DEF CInv, ArtifactsWithinBound
<1>8. ASSUME NEW p \in Processes, Link(p)
      PROVE  CInv'
  <2>1. pc'[p] = "reopen" /\ store' = [store EXCEPT ![Id(p)] = Valid(Id(p))]
        BY <1>1, <1>8 DEF Link, ControlOK, Entry
  <2>2. Cardinality(Files(store')) = Cardinality(Files(store)) + 1
        BY <1>1, <1>3, <1>8, <2>1, FilesWith DEF Link, Entry, ControlOK, Holding
  <2>3. usage'[p].artifacts = Cardinality(Files(store)) /\ usage[p].artifacts < MaxArtifacts
        BY <1>1, <1>8 DEF Counted, Link
  <2>4. \A q \in Processes \ {p} : pc'[q] \notin Holding
        BY <1>4, <1>5, <1>8 DEF Link, Work, Holding
  <2>5. Counted(p)' /\ \A q \in Processes \ {p} : Counted(q)'
        BY <2>1, <2>2, <2>3, <2>4 DEF Counted, Holding
  <2>6. Cardinality(Files(store')) <= MaxArtifacts
        BY <1>1, <1>2, <1>8, <2>2, <2>3 DEF Counted, Link
  <2> QED
        BY <2>5, <2>6 DEF CInv, ArtifactsWithinBound
<1>9. ASSUME Files(store') = Files(store), \A q \in Processes : Counted(q)'
      PROVE  CInv'
      BY <1>2, <1>9 DEF CInv, ArtifactsWithinBound
<1>10. ASSUME NEW id \in Ids, Damage(id)
       PROVE  CInv'
  <2>1. Files(store') = Files(store)
        BY <1>1, <1>10 DEF Damage, Files, ControlOK
  <2> QED
        BY <1>1, <1>9, <1>10, <2>1 DEF Damage, Counted
<1>11. ASSUME NEW p \in Processes, Work(p) \/ Acquire(p) \/ StepFails(p) \/ Kill(p),
              UNCHANGED store
       PROVE  CInv'
  <2>1. \A q \in Processes \ {p} : Counted(q)'
        BY <1>1, <1>5, <1>11 DEF Counted
  <2>2. ASSUME AcquireForPublish(p)
        PROVE  Counted(p)'
        BY <1>1, <2>2 DEF AcquireForPublish, CacheUsage, Counted, ControlOK
  <2>3. ASSUME Publish(p)
        PROVE  Counted(p)'
        BY <1>1, <2>3 DEF Publish, PublishMiss, Counted, ControlOK
  <2>4. ASSUME Admit(p)
        PROVE  Counted(p)'
        BY <1>1, <2>4 DEF Admit, Admits, Counted, ControlOK
  <2>5. ASSUME Reopen(p)
        PROVE  Counted(p)'
        BY <1>1, <2>5 DEF Reopen, Counted, ControlOK
  <2>6. ASSUME pc'[p] \notin {"publish", "evict", "admit", "link", "reopen"}
        PROVE  Counted(p)'
        BY <2>6 DEF Counted
  <2>7. ASSUME \/ LookUp(p) \/ Inspect(p) \/ Repair(p) \/ Capture(p) \/ Assemble(p)
               \/ AcquireForRepair(p) \/ StepFails(p) \/ Kill(p)
        PROVE  Counted(p)'
        BY <1>1, <2>6, <2>7 DEF LookUp, Inspect, Repair, Capture, Assemble, AcquireForRepair,
           StepFails, Kill, Fail, ControlOK
  <2>8. CASE Unlink(p) \/ Evict(p) \/ Link(p)
        BY <1>6, <1>7, <1>8, <2>8
  <2> QED
        BY <1>9, <1>11, <2>1, <2>2, <2>3, <2>4, <2>5, <2>7, <2>8 DEF Work, Acquire
<1>12. CASE UNCHANGED vars \/ Finished
       BY <1>1, <1>9, <1>12 DEF vars, Finished, Counted
<1>13. ASSUME NEW p \in Processes, Work(p) \/ Acquire(p) \/ StepFails(p) \/ Kill(p)
       PROVE  UNCHANGED store \/ Unlink(p) \/ Evict(p) \/ Link(p)
       BY <1>13 DEF Work, LookUp, Inspect, Repair, Capture, Publish, Admit, Reopen,
          Assemble, Acquire, AcquireForRepair, AcquireForPublish, StepFails, Kill
<1> QED
      BY <1>6, <1>7, <1>8, <1>10, <1>11, <1>12, <1>13 DEF Next

(* The store never holds more than MAX_CACHE_ARTIFACTS artifacts, however  *)
(* publications interleave and whenever a process is killed.               *)
THEOREM ArtifactsWithinBoundHolds == Spec => []ArtifactsWithinBound
<1>1. Init => CInv
      BY DEF Init, CInv, ArtifactsWithinBound, Counted, CacheUsage
<1>2. IInv /\ CInv /\ [Next]_vars => CInv'
      BY CountStep
<1>3. CInv => ArtifactsWithinBound
      BY DEF CInv
<1> QED
      BY <1>1, <1>2, <1>3, IInvHolds, PTL DEF Spec

-----------------------------------------------------------------------------
(* A set of subsets of a finite set has a smallest one.                    *)
LEMMA Minimal ==
    ASSUME NEW A, IsFiniteSet(A), NEW B \in SUBSET SUBSET A, B # {}
    PROVE  \E S \in B : \A T \in B : T \subseteq S => T = S
<1>1. B \subseteq FiniteSubsetsOf(A) /\ IsWellFoundedOn(StrictSubsetOrdering(A), FiniteSubsetsOf(A))
  BY FS_Subset, FS_StrictSubsetOrderingWellFounded DEF FiniteSubsetsOf
<1>2. PICK S \in B : \A T \in B : ~(<<T, S>> \in StrictSubsetOrdering(A))
  BY <1>1, WFMin
<1>3. ASSUME NEW T \in B, T \subseteq S, T # S PROVE FALSE
  BY <1>2, <1>3 DEF StrictSubsetOrdering
<1> QED
  BY <1>3

(* The element that is added first.                                        *)
First(s) == CHOOSE x \in s : TRUE

(* The recursion by which bytes are added up.                              *)
Sums(w, S, f) ==
    f = [s \in SUBSET S |-> IF s = {} THEN 0 ELSE w[First(s)].bytes + f[s \ {First(s)}]]

(* The bytes of some entries of a store.                                   *)
BytesOf(w, S) == MapThenSumSet(LAMBDA x : w[x].bytes, S)

(* What the sum of the community modules is, when the recursion that       *)
(* defines it has a solution.                                              *)
LEMMA SumIs ==
    ASSUME NEW w, NEW S, \E f : Sums(w, S, f)
    PROVE  \E f : Sums(w, S, f) /\ BytesOf(w, S) = f[S]
BY DEF BytesOf, Sums, First, MapThenSumSet, MapThenFoldSet

(* One step of the recursion.                                              *)
LEMMA SumsAt ==
    ASSUME NEW w, NEW S, NEW f, Sums(w, S, f), NEW s \in SUBSET S
    PROVE  f[s] = IF s = {} THEN 0 ELSE w[First(s)].bytes + f[s \ {First(s)}]
<1> DEFINE e(t) == IF t = {} THEN 0 ELSE w[First(t)].bytes + f[t \ {First(t)}]
<1>1. f = [t \in SUBSET S |-> e(t)]
  BY DEF Sums
<1> HIDE DEF e
<1>2. f[s] = e(s)
  BY <1>1
<1> QED
  BY <1>2 DEF e

(* The element a recursion takes out.                                      *)
LEMMA FirstIn ==
    ASSUME NEW s, s # {}
    PROVE  First(s) \in s /\ s \ {First(s)} \subseteq s /\ s \ {First(s)} # s
BY DEF First

(* The sum over a part does not depend on what it is a part of. *)
LEMMA SumsAgree ==
    ASSUME NEW w, NEW S, IsFiniteSet(S), NEW T \in SUBSET S,
           NEW f, Sums(w, S, f), NEW g, Sums(w, T, g)
    PROVE  \A t \in SUBSET T : f[t] = g[t]
<1> DEFINE Wrong == {t \in SUBSET T : f[t] # g[t]}
<1>1. SUFFICES ASSUME Wrong # {} PROVE FALSE
  OBVIOUS
<1>2. IsFiniteSet(T) /\ Wrong \in SUBSET SUBSET T
  BY FS_Subset
<1>3. PICK t \in Wrong : \A r \in Wrong : r \subseteq t => r = t
  <2> HIDE DEF Wrong
  <2> QED
    BY ONLY <1>1, <1>2, Minimal
<1>4. t \in SUBSET T /\ t \in SUBSET S /\ f[t] # g[t]
  OBVIOUS
<1>5. /\ f[t] = IF t = {} THEN 0 ELSE w[First(t)].bytes + f[t \ {First(t)}]
      /\ g[t] = IF t = {} THEN 0 ELSE w[First(t)].bytes + g[t \ {First(t)}]
  BY <1>4, SumsAt
<1>6. CASE t # {}
  <2>1. t \ {First(t)} \in SUBSET T /\ t \ {First(t)} \subseteq t /\ t \ {First(t)} # t
    BY <1>4, <1>6, FirstIn
  <2>2. f[t \ {First(t)}] = g[t \ {First(t)}]
    BY <1>3, <2>1
  <2> QED
    BY ONLY <1>4, <1>5, <1>6, <2>2
<1> QED
  BY <1>4, <1>5, <1>6

(* The recursion has a solution for every finite set: by a smallest set    *)
(* without one.                                                            *)
LEMMA SumsExist ==
    ASSUME NEW w, NEW A, IsFiniteSet(A)
    PROVE  \A S \in SUBSET A : \E f : Sums(w, S, f)
<1> DEFINE Wrong == {S \in SUBSET A : ~ \E f : Sums(w, S, f)}
<1>1. SUFFICES ASSUME Wrong # {} PROVE FALSE
  OBVIOUS
<1>2. PICK S \in Wrong : \A T \in Wrong : T \subseteq S => T = S
  <2>1. Wrong \in SUBSET SUBSET A /\ IsFiniteSet(A)
    OBVIOUS
  <2> HIDE DEF Wrong
  <2> QED
    BY ONLY <1>1, <2>1, Minimal
<1>3. S \in SUBSET A /\ ~ \E f : Sums(w, S, f)
  OBVIOUS
<1>4. ASSUME NEW T \in SUBSET S, T # S
      PROVE  \E f : Sums(w, T, f) /\ BytesOf(w, T) = f[T]
  <2>1. \E f : Sums(w, T, f)
    BY <1>2, <1>3, <1>4
  <2> QED
    BY <2>1, SumIs
<1>5. ASSUME NEW T \in SUBSET S, T # S
      PROVE  BytesOf(w, T) = IF T = {} THEN 0 ELSE w[First(T)].bytes + BytesOf(w, T \ {First(T)})
  <2>1. PICK f : Sums(w, T, f) /\ BytesOf(w, T) = f[T]
    BY <1>4, <1>5
  <2>2. BytesOf(w, T) = IF T = {} THEN 0 ELSE w[First(T)].bytes + f[T \ {First(T)}]
    BY <2>1, SumsAt
  <2>3. CASE T # {}
    <3>1. T \ {First(T)} \in SUBSET T /\ T \ {First(T)} \in SUBSET S /\ T \ {First(T)} # S
      BY <1>5, <2>3, FirstIn
    <3>2. PICK g : Sums(w, T \ {First(T)}, g) /\ BytesOf(w, T \ {First(T)}) = g[T \ {First(T)}]
      BY <1>4, <3>1
    <3>3. IsFiniteSet(T)
      BY <1>3, FS_Subset
    <3>4. f[T \ {First(T)}] = g[T \ {First(T)}]
      BY <2>1, <3>1, <3>2, <3>3, SumsAgree
    <3> QED
      BY ONLY <2>2, <2>3, <3>2, <3>4
  <2> QED
    BY <2>2, <2>3
<1> DEFINE value(T) == IF T # S THEN BytesOf(w, T)
                    ELSE IF S = {} THEN 0 ELSE w[First(S)].bytes + BytesOf(w, S \ {First(S)})
           f == [T \in SUBSET S |-> value(T)]
<1>6. ASSUME NEW T \in SUBSET S
      PROVE  f[T] = IF T = {} THEN 0 ELSE w[First(T)].bytes + f[T \ {First(T)}]
  <2>1. CASE T = {}
    <3>1. value(T) = 0
      BY <1>5, <2>1
    <3> QED
      BY <2>1, <3>1
  <2>2. CASE T # {}
    <3>1. T \ {First(T)} \in SUBSET S /\ T \ {First(T)} # S
      BY <2>2, FirstIn
    <3>2. f[T \ {First(T)}] = BytesOf(w, T \ {First(T)})
      BY <3>1
    <3>3. value(T) = w[First(T)].bytes + BytesOf(w, T \ {First(T)})
      BY <1>5, <2>2
    <3> QED
      BY <2>2, <3>2, <3>3
  <2> QED
    BY <2>1, <2>2
<1>7. f = [T \in SUBSET S |-> f[T]]
  OBVIOUS
<1> HIDE DEF f
<1>8. Sums(w, S, f)
  BY <1>6, <1>7 DEF Sums
<1> QED
  BY <1>3, <1>8

(* A sum is the first summand and the sum of the others. *)
LEMMA SumOf ==
    ASSUME NEW w, NEW S, IsFiniteSet(S)
    PROVE  BytesOf(w, S) = IF S = {} THEN 0 ELSE w[First(S)].bytes + BytesOf(w, S \ {First(S)})
<1>1. PICK f : Sums(w, S, f) /\ BytesOf(w, S) = f[S]
  <2>1. \E f : Sums(w, S, f)
    BY SumsExist
  <2> QED
    BY <2>1, SumIs
<1>2. BytesOf(w, S) = IF S = {} THEN 0 ELSE w[First(S)].bytes + f[S \ {First(S)}]
  BY <1>1, SumsAt
<1>3. CASE S # {}
  <2> DEFINE T == S \ {First(S)}
  <2>1. T \in SUBSET S
    OBVIOUS
  <2>2. \E g : Sums(w, T, g)
    BY <2>1, SumsExist
  <2>3. PICK g : Sums(w, T, g) /\ BytesOf(w, T) = g[T]
    BY <2>2, SumIs
  <2>4. f[T] = g[T]
    BY <1>1, <2>1, <2>3, SumsAgree
  <2> QED
    BY ONLY <1>2, <1>3, <2>3, <2>4
<1> QED
  BY <1>2, <1>3

(* A sum of byte counts is one.                                            *)
LEMMA SumType ==
    ASSUME NEW A, IsFiniteSet(A), NEW w, \A x \in A : w[x].bytes \in Nat
    PROVE  BytesOf(w, A) \in Nat
<1> DEFINE Wrong == {S \in SUBSET A : BytesOf(w, S) \notin Nat}
<1>1. SUFFICES ASSUME Wrong # {} PROVE FALSE
  OBVIOUS
<1>2. PICK S \in Wrong : \A T \in Wrong : T \subseteq S => T = S
  <2>1. Wrong \in SUBSET SUBSET A /\ IsFiniteSet(A)
    OBVIOUS
  <2> HIDE DEF Wrong
  <2> QED
    BY ONLY <1>1, <2>1, Minimal
<1>3. S \in SUBSET A /\ BytesOf(w, S) \notin Nat /\ IsFiniteSet(S)
  BY FS_Subset
<1>4. BytesOf(w, S) = IF S = {} THEN 0 ELSE w[First(S)].bytes + BytesOf(w, S \ {First(S)})
  BY <1>3, SumOf
<1>5. CASE S # {}
  <2>1. First(S) \in A /\ S \ {First(S)} \in SUBSET A /\ S \ {First(S)} \subseteq S /\ S \ {First(S)} # S
    BY <1>3, <1>5, FirstIn
  <2>2. BytesOf(w, S \ {First(S)}) \in Nat
    BY <1>2, <2>1
  <2>3. w[First(S)].bytes \in Nat
    BY <2>1
  <2> QED
    BY ONLY <1>3, <1>4, <1>5, <2>2, <2>3
<1> QED
  BY <1>3, <1>4, <1>5

(* Any element may be taken out first. *)
LEMMA SumWithout ==
    ASSUME NEW A, IsFiniteSet(A), NEW w, \A x \in A : w[x].bytes \in Nat
    PROVE  \A S \in SUBSET A : \A x \in S : BytesOf(w, S) = w[x].bytes + BytesOf(w, S \ {x})
<1> DEFINE Wrong == {S \in SUBSET A : \E x \in S : BytesOf(w, S) # w[x].bytes + BytesOf(w, S \ {x})}
<1>1. SUFFICES ASSUME Wrong # {} PROVE FALSE
  OBVIOUS
<1>2. PICK S \in Wrong : \A T \in Wrong : T \subseteq S => T = S
  <2>1. Wrong \in SUBSET SUBSET A /\ IsFiniteSet(A)
    OBVIOUS
  <2> HIDE DEF Wrong
  <2> QED
    BY ONLY <1>1, <2>1, Minimal
<1>3. S \in SUBSET A /\ IsFiniteSet(S)
  BY FS_Subset
<1>4. PICK x \in S : BytesOf(w, S) # w[x].bytes + BytesOf(w, S \ {x})
  OBVIOUS
<1> DEFINE y == First(S)
<1>5. y \in S /\ BytesOf(w, S) = w[y].bytes + BytesOf(w, S \ {y})
  BY <1>3, <1>4, SumOf, FirstIn
<1>6. x # y
  BY <1>4, <1>5
<1> HIDE DEF y
<1>7. /\ S \ {y} \in SUBSET A /\ S \ {y} \subseteq S /\ S \ {y} # S /\ x \in S \ {y}
      /\ S \ {x} \in SUBSET A /\ S \ {x} \subseteq S /\ S \ {x} # S /\ y \in S \ {x}
  BY <1>3, <1>4, <1>5, <1>6
<1>8. ASSUME NEW T \in SUBSET A, T \subseteq S, T # S, NEW z \in T
      PROVE  BytesOf(w, T) = w[z].bytes + BytesOf(w, T \ {z})
  BY <1>2, <1>8
<1>9. BytesOf(w, S \ {y}) = w[x].bytes + BytesOf(w, (S \ {y}) \ {x})
  BY ONLY <1>7, <1>8
<1>10. BytesOf(w, S \ {x}) = w[y].bytes + BytesOf(w, (S \ {x}) \ {y})
  BY ONLY <1>7, <1>8
<1>11. (S \ {y}) \ {x} = (S \ {x}) \ {y}
  OBVIOUS
<1>12. w[x].bytes \in Nat /\ w[y].bytes \in Nat
  BY <1>3, <1>4, <1>5
<1>13. BytesOf(w, (S \ {x}) \ {y}) \in Nat
  <2> DEFINE T == (S \ {x}) \ {y}
  <2>1. T \in SUBSET A /\ IsFiniteSet(T)
    BY <1>3, FS_Subset
  <2> HIDE DEF T
  <2>2. BytesOf(w, T) \in Nat
    BY <2>1, SumType
  <2> QED
    BY <2>2 DEF T
<1> DEFINE rest == (S \ {x}) \ {y}
           withoutX == BytesOf(w, S \ {x})
           withoutY == BytesOf(w, S \ {y})
           a == w[x].bytes
           b == w[y].bytes
           sum == BytesOf(w, rest)
<1>14. /\ BytesOf(w, S) # a + withoutX /\ BytesOf(w, S) = b + withoutY
       /\ withoutX = b + sum /\ a \in Nat /\ b \in Nat /\ sum \in Nat
  BY ONLY <1>4, <1>5, <1>10, <1>12, <1>13
<1>15. withoutY = a + sum
  <2>1. (S \ {y}) \ {x} = rest
    BY ONLY <1>11
  <2> HIDE DEF rest
  <2> QED
    BY ONLY <1>9, <2>1
<1> HIDE DEF withoutX, withoutY, a, b, sum
<1> QED
  BY ONLY <1>14, <1>15

(* Smaller entries, smaller sum.                                           *)
LEMMA SumMonotone ==
    ASSUME NEW A, IsFiniteSet(A), NEW v, NEW w,
           \A x \in A : v[x].bytes \in Nat /\ w[x].bytes \in Nat /\ v[x].bytes <= w[x].bytes
    PROVE  BytesOf(v, A) <= BytesOf(w, A)
<1> DEFINE Wrong == {S \in SUBSET A : ~(BytesOf(v, S) <= BytesOf(w, S))}
<1>1. SUFFICES ASSUME Wrong # {} PROVE FALSE
  OBVIOUS
<1>2. PICK S \in Wrong : \A T \in Wrong : T \subseteq S => T = S
  <2>1. Wrong \in SUBSET SUBSET A /\ IsFiniteSet(A)
    OBVIOUS
  <2> HIDE DEF Wrong
  <2> QED
    BY ONLY <1>1, <2>1, Minimal
<1>3. S \in SUBSET A /\ ~(BytesOf(v, S) <= BytesOf(w, S)) /\ IsFiniteSet(S)
  BY FS_Subset
<1>4. /\ BytesOf(v, S) = IF S = {} THEN 0 ELSE v[First(S)].bytes + BytesOf(v, S \ {First(S)})
      /\ BytesOf(w, S) = IF S = {} THEN 0 ELSE w[First(S)].bytes + BytesOf(w, S \ {First(S)})
  BY <1>3, SumOf
<1>5. CASE S # {}
  <2> DEFINE T == S \ {First(S)}
             x == First(S)
  <2>1. x \in A /\ T \in SUBSET A /\ T \subseteq S /\ T # S /\ IsFiniteSet(T)
    BY <1>3, <1>5, FirstIn, FS_Subset
  <2>2. BytesOf(v, T) <= BytesOf(w, T)
    BY <1>2, <2>1
  <2>3. BytesOf(v, T) \in Nat /\ BytesOf(w, T) \in Nat
    BY <2>1, SumType
  <2>4. v[x].bytes \in Nat /\ w[x].bytes \in Nat /\ v[x].bytes <= w[x].bytes
    BY <2>1
  <2>5. BytesOf(v, S) = v[x].bytes + BytesOf(v, T) /\ BytesOf(w, S) = w[x].bytes + BytesOf(w, T)
    BY <1>4, <1>5
  <2> HIDE DEF x, T
  <2> QED
    BY ONLY <1>3, <2>2, <2>3, <2>4, <2>5
<1> QED
  BY <1>3, <1>4, <1>5

(* The bytes of a store are those of its files.                            *)
LEMMA BytesAre ==
    ASSUME NEW s
    PROVE  Bytes(s) = BytesOf(s, Files(s))
BY DEF Bytes, BytesOf

LEMMA BytesType ==
    ASSUME NEW s \in [Ids -> Entries]
    PROVE  Bytes(s) \in Nat /\ \A id \in Files(s) : s[id].bytes \in Nat
<1>1. \A id \in Files(s) : s[id].bytes \in Nat
      BY DEF Files, Entries
<1> QED
      BY <1>1, BytesAre, FilesAreFinite, SumType

(* Stores with the same entries have the same bytes of them.               *)
LEMMA SameBytes ==
    ASSUME NEW s, NEW t, NEW F, IsFiniteSet(F),
           \A id \in F : s[id].bytes \in Nat /\ t[id].bytes = s[id].bytes
    PROVE  BytesOf(t, F) = BytesOf(s, F)
<1>1. BytesOf(t, F) <= BytesOf(s, F) /\ BytesOf(s, F) <= BytesOf(t, F)
      BY SumMonotone
<1>2. BytesOf(t, F) \in Nat /\ BytesOf(s, F) \in Nat
      BY SumType
<1> QED
      BY ONLY <1>1, <1>2

(* What a removal gives back.                                              *)
LEMMA BytesWithout ==
    ASSUME NEW s \in [Ids -> Entries], NEW id \in Ids, s[id].kind # "missing"
    PROVE  Bytes([s EXCEPT ![id] = Missing]) =
               IF s[id].kind = "directory" THEN Bytes(s) ELSE Bytes(s) - s[id].bytes
<1> DEFINE t == [s EXCEPT ![id] = Missing]
           F == Files(s)
<1>1. Files(t) = F \ {id}
      BY DEF Files, Missing
<1>2. \A x \in F \ {id} : t[x].bytes = s[x].bytes /\ s[x].bytes \in Nat
      BY BytesType DEF Files
<1>3. IsFiniteSet(F) /\ IsFiniteSet(F \ {id})
      BY FilesAreFinite, FS_Subset
<1>4. \A x \in F : s[x].bytes \in Nat
      BY BytesType
<1>5. s[id].kind # "directory" => id \in F
      BY DEF Files, Entries
<1>6. s[id].kind = "directory" => id \notin F
      BY DEF Files
<1>7. BytesOf(s, F) \in Nat /\ BytesOf(s, F \ {id}) \in Nat
      BY <1>3, <1>4, SumType
<1> HIDE DEF t, F
<1>8. BytesOf(t, F \ {id}) = BytesOf(s, F \ {id})
      BY <1>2, <1>3, SameBytes
<1>9. Bytes(t) = BytesOf(s, F \ {id}) /\ Bytes(s) = BytesOf(s, F)
      BY <1>1, <1>8, BytesAre DEF F
<1>10. CASE s[id].kind = "directory"
  <2>1. F \ {id} = F
        BY <1>6, <1>10
  <2> QED
        BY <1>9, <1>10, <2>1 DEF t
<1>11. CASE s[id].kind # "directory"
  <2>1. BytesOf(s, F) = s[id].bytes + BytesOf(s, F \ {id}) /\ s[id].bytes \in Nat
        BY <1>3, <1>4, <1>5, <1>11, SumWithout
  <2> QED
        BY <1>7, <1>9, <1>11, <2>1 DEF t
<1> QED
      BY <1>10, <1>11

(* What a link adds.                                                       *)
LEMMA BytesWith ==
    ASSUME NEW s \in [Ids -> Entries], NEW id \in Ids, s[id].kind = "missing"
    PROVE  Bytes([s EXCEPT ![id] = Valid(id)]) = Bytes(s) + Size[id]
<1> DEFINE t == [s EXCEPT ![id] = Valid(id)]
           F == Files(s)
<1>1. Files(t) = F \cup {id} /\ id \notin F
      BY DEF Files, Valid
<1>2. \A x \in F : t[x].bytes = s[x].bytes /\ s[x].bytes \in Nat
      BY BytesType DEF Files
<1>3. IsFiniteSet(F) /\ IsFiniteSet(F \cup {id}) /\ (F \cup {id}) \ {id} = F
      BY <1>1, FilesAreFinite, FS_AddElement
<1>4. t[id].bytes = Size[id] /\ Size[id] \in Nat
      BY CacheAssumption DEF Valid
<1> HIDE DEF t, F
<1>5. BytesOf(t, F) = BytesOf(s, F) /\ BytesOf(s, F) \in Nat
      BY <1>2, <1>3, SameBytes, SumType
<1>6. \A x \in F \cup {id} : t[x].bytes \in Nat
      BY <1>2, <1>4
<1>7. BytesOf(t, F \cup {id}) = t[id].bytes + BytesOf(t, F)
  <2> DEFINE G == F \cup {id}
             R == G \ {id}
  <2>1. IsFiniteSet(G) /\ id \in G /\ R = F /\ \A x \in G : t[x].bytes \in Nat
        BY <1>3, <1>6
  <2> HIDE DEF R, G
  <2>2. BytesOf(t, G) = t[id].bytes + BytesOf(t, G \ {id})
        BY ONLY <2>1, SumWithout
  <2>3. BytesOf(t, G) = t[id].bytes + BytesOf(t, R)
        BY ONLY <2>2 DEF R
  <2> QED
        BY ONLY <2>1, <2>3 DEF G
<1>8. Bytes(t) = BytesOf(t, F \cup {id}) /\ Bytes(s) = BytesOf(s, F)
      BY <1>1, BytesAre DEF F
<1>9. Bytes(t) = Bytes(s) + Size[id]
      BY ONLY <1>4, <1>5, <1>7, <1>8
<1> QED
      BY <1>9 DEF t

(* A file is no larger than the store.                                     *)
LEMMA FileWithinBytes ==
    ASSUME NEW s \in [Ids -> Entries], NEW id \in Files(s)
    PROVE  s[id].bytes \in Nat /\ s[id].bytes <= Bytes(s)
<1>1. \A x \in Files(s) : s[x].bytes \in Nat
      BY BytesType
<1>2. IsFiniteSet(Files(s)) /\ IsFiniteSet(Files(s) \ {id})
      BY FilesAreFinite, FS_Subset
<1>3. BytesOf(s, Files(s)) = s[id].bytes + BytesOf(s, Files(s) \ {id})
      BY <1>1, <1>2, SumWithout
<1>4. BytesOf(s, Files(s) \ {id}) \in Nat
      BY <1>1, <1>2, SumType
<1> QED
      BY <1>1, <1>3, <1>4, BytesAre

(* A damaged entry may shrink, never grow.                                 *)
LEMMA DamageShrinks ==
    ASSUME NEW s \in [Ids -> Entries], NEW id \in Files(s), NEW bytes \in Nat,
           bytes <= s[id].bytes
    PROVE  Bytes([s EXCEPT ![id] = [kind |-> "corrupt", bytes |-> bytes]]) <= Bytes(s)
<1> DEFINE t == [s EXCEPT ![id] = [kind |-> "corrupt", bytes |-> bytes]]
<1>1. id \in Ids /\ Files(t) = Files(s)
      BY DEF Files
<1>2. \A x \in Files(s) : s[x].bytes \in Nat /\ t[x].bytes \in Nat /\ t[x].bytes <= s[x].bytes
      BY <1>1, BytesType DEF Files
<1>3. IsFiniteSet(Files(s))
      BY FilesAreFinite
<1> HIDE DEF t
<1>4. BytesOf(t, Files(s)) <= BytesOf(s, Files(s))
      BY <1>2, <1>3, SumMonotone
<1>5. Bytes(t) <= Bytes(s)
      BY <1>1, <1>4, BytesAre
<1> QED
      BY <1>5 DEF t

-----------------------------------------------------------------------------
(* What a publisher has weighed is no less than what the store holds.      *)
Weighed(p) ==
    /\ pc[p] \in {"publish", "evict", "admit", "link"} => Bytes(store) <= usage[p].bytes
    /\ pc[p] = "link" => usage[p].bytes + Size[Id(p)] <= MaxBytes
    /\ pc[p] = "reopen" => Bytes(store) <= usage[p].bytes + Size[Id(p)]

(* The bytes scanned once may exceed the store's, since entries shrink     *)
(* behind the publisher's back, but never fall short of them.              *)
BInv ==
    /\ usage \in [Processes -> UsageType]
    /\ \A id \in Ids : store[id].kind = "valid" => store[id] = Valid(id)
    /\ Bytes(store) <= MaxBytes
    /\ \A p \in Processes : Weighed(p)

(* Usages are counts, also after saturating subtraction.                   *)
LEMMA UsageStep ==
    ASSUME IInv, BInv, [Next]_vars
    PROVE  usage' \in [Processes -> UsageType]
<1>1. ControlOK /\ usage \in [Processes -> UsageType]
      BY DEF IInv, BInv
<1>2. Size \in [Ids -> Nat]
      BY CacheAssumption
<1>3. ASSUME NEW p \in Processes, AcquireForPublish(p)
      PROVE  usage' \in [Processes -> UsageType]
  <2>1. CacheUsage(store) \in UsageType
        BY <1>1, FilesAreFinite, BytesType DEF CacheUsage, UsageType, ControlOK
  <2> QED
        BY <1>1, <1>3, <2>1 DEF AcquireForPublish
<1>4. ASSUME NEW p \in Processes, pc[p] \in {"evict", "reopen"}
      PROVE  Id(p) \in Ids
      BY <1>1, <1>4, Batches DEF IInv, Progress, Entering, Id, ControlOK
<1>5. ASSUME NEW p \in Processes, Evict(p)
      PROVE  usage' \in [Processes -> UsageType]
  <2> DEFINE u == IF store[Id(p)].kind = "directory" THEN usage[p]
                  ELSE [artifacts |-> SaturatingSub(usage[p].artifacts, 1),
                        bytes     |-> SaturatingSub(usage[p].bytes, store[Id(p)].bytes)]
  <2>1. store[Id(p)].bytes \in Nat
        BY <1>1, <1>4, <1>5 DEF ControlOK, Entries, Evict
  <2>2. usage[p].artifacts \in Nat /\ usage[p].bytes \in Nat /\ usage[p] \in UsageType
        BY <1>1 DEF UsageType
  <2>3. u \in UsageType
        BY <2>1, <2>2 DEF UsageType, SaturatingSub
  <2>4. usage' = [usage EXCEPT ![p] = u]
        BY <1>5 DEF Evict
  <2> HIDE DEF u
  <2> QED
        BY <1>1, <2>3, <2>4
<1>6. ASSUME NEW p \in Processes, Reopen(p)
      PROVE  usage' \in [Processes -> UsageType]
  <2>1. Size[Id(p)] \in Nat
        BY <1>2, <1>4, <1>6 DEF Reopen
  <2> QED
        BY <1>1, <1>6, <2>1 DEF Reopen, UsageType
<1>7. \/ usage' = usage
      \/ \E p \in Processes : AcquireForPublish(p) \/ Evict(p) \/ Reopen(p)
      BY DEF Next, Work, Acquire, LookUp, Inspect, Repair, Unlink, Capture, Publish, Admit, Link,
         Assemble, AcquireForRepair, StepFails, Kill, Damage, Finished, vars
<1> QED
      BY <1>1, <1>3, <1>5, <1>6, <1>7

(* The store keeps within its bytes.                                       *)
LEMMA BytesStep ==
    ASSUME IInv, BInv, [Next]_vars
    PROVE  BInv'
<1> USE DEF Goto
<1>1. ControlOK /\ LeaseExcludes /\ \A p \in Processes : Progress(p) /\ Entry(p) /\ Weighed(p)
      BY DEF IInv, BInv
<1>2. /\ Bytes(store) <= MaxBytes /\ MaxBytes \in Nat /\ Bytes(store) \in Nat
      /\ store \in [Ids -> Entries] /\ Size \in [Ids -> Nat \ {0}]
      /\ usage \in [Processes -> UsageType] /\ usage' \in [Processes -> UsageType]
      /\ \A id \in Ids : store[id].kind = "valid" => store[id] = Valid(id)
      BY CacheAssumption, BytesType, UsageStep DEF BInv, IInv, ControlOK
<1>3. \A p \in Processes : pc[p] \in Holding => pc[p] = "publish" \/ Id(p) \in Ids
      BY <1>1, Batches DEF ControlOK, Progress, Entering, Holding, Id
<1>4. ASSUME NEW p \in Processes, pc[p] \in Holding, NEW q \in Processes \ {p}
      PROVE  pc[q] \notin Holding
      BY <1>1, <1>4 DEF LeaseExcludes
<1>5. ASSUME NEW q \in Processes, NEW p \in Processes \ {q},
             Work(p) \/ Acquire(p) \/ StepFails(p) \/ Kill(p)
      PROVE  pc'[q] = pc[q] /\ usage'[q] = usage[q] /\ at'[q] = at[q]
      BY <1>1, <1>5 DEF Work, LookUp, Inspect, Repair, Unlink, Capture, Publish, PublishMiss,
             Evict, Admit, Link, Reopen, Assemble, Acquire, AcquireForRepair,
             AcquireForPublish, StepFails, Kill, Fail, ControlOK, NextUnit
<1>55. \A p \in Processes : usage[p].bytes \in Nat /\ usage'[p].bytes \in Nat
      BY <1>2 DEF UsageType
<1>6. ASSUME NEW p \in Processes, Unlink(p)
      PROVE  BInv'
  <2>1. pc'[p] = "lookup" /\ store' = [store EXCEPT ![Id(p)] = Missing] /\ Id(p) \in Ids
        BY <1>1, <1>3, <1>6 DEF Unlink, ControlOK, Holding
  <2>2. Bytes(store') <= Bytes(store) /\ Bytes(store') \in Nat
    <3>1. store[Id(p)].kind # "missing" /\ store[Id(p)].bytes \in Nat
          BY <1>1, <1>2, <1>6, <2>1 DEF Unlink, Entry, Entries
    <3>2. Bytes(store') = IF store[Id(p)].kind = "directory" THEN Bytes(store)
                          ELSE Bytes(store) - store[Id(p)].bytes
          BY <1>2, <2>1, <3>1, BytesWithout
    <3>3. Bytes(store') \in Nat
          BY <1>2, <2>1, WrittenEntries, BytesType
    <3> QED
          BY <1>2, <3>1, <3>2, <3>3
  <2>3. \A q \in Processes \ {p} : pc'[q] \notin Holding
        BY <1>4, <1>5, <1>6 DEF Unlink, Work, Holding
  <2>4. \A id \in Ids : store'[id].kind = "valid" => store'[id] = Valid(id)
        BY <1>2, <2>1 DEF Missing
  <2>5. \A q \in Processes : Weighed(q)'
        BY <2>1, <2>3 DEF Weighed, Holding
  <2>6. Bytes(store') <= MaxBytes
        BY ONLY <1>2, <2>2
  <2> QED
        BY ONLY <1>2, <2>4, <2>5, <2>6 DEF BInv
<1>7. ASSUME NEW p \in Processes, Evict(p)
      PROVE  BInv'
  <2>1. /\ pc[p] = "evict" /\ pc'[p] = "admit"
        /\ store' = [store EXCEPT ![Id(p)] = Missing] /\ Id(p) \in Ids
        BY <1>1, <1>3, <1>7 DEF Evict, ControlOK, Holding
  <2>2. usage'[p].bytes = IF store[Id(p)].kind = "directory" THEN usage[p].bytes
                          ELSE SaturatingSub(usage[p].bytes, store[Id(p)].bytes)
        BY <1>1, <1>7 DEF Evict, ControlOK
  <2>3. store[Id(p)].kind # "missing" /\ store[Id(p)].bytes \in Nat
        BY <1>1, <1>2, <2>1 DEF Entry, Entries
  <2>4. Bytes(store') = IF store[Id(p)].kind = "directory" THEN Bytes(store)
                        ELSE Bytes(store) - store[Id(p)].bytes
        BY <1>2, <2>1, <2>3, BytesWithout
  <2>5. Bytes(store) <= usage[p].bytes
        BY <1>1, <2>1 DEF Weighed
  <2>6. usage[p].bytes \in Nat
        BY <1>55
  <2>7. store[Id(p)].kind # "directory" => store[Id(p)].bytes <= Bytes(store)
    <3>1. store[Id(p)].kind # "directory" => Id(p) \in Files(store)
          BY <1>2, <2>1, <2>3 DEF Files, Entries
    <3> QED
          BY <1>2, <3>1, FileWithinBytes
  <2>8. Bytes(store') <= usage'[p].bytes /\ Bytes(store') <= MaxBytes
        BY ONLY <1>2, <2>2, <2>3, <2>4, <2>5, <2>6, <2>7 DEF SaturatingSub
  <2>9. \A q \in Processes \ {p} : pc'[q] \notin Holding
        BY <1>4, <1>5, <1>7 DEF Evict, Work, Holding
  <2>10. \A id \in Ids : store'[id].kind = "valid" => store'[id] = Valid(id)
        BY <1>2, <2>1 DEF Missing
  <2>11. Weighed(p)' /\ \A q \in Processes \ {p} : Weighed(q)'
        BY ONLY <2>1, <2>8, <2>9 DEF Weighed, Holding
  <2> QED
        BY ONLY <1>2, <2>8, <2>10, <2>11 DEF BInv
<1>8. ASSUME NEW p \in Processes, Link(p), store' # store
      PROVE  BInv'
  <2>1. /\ pc[p] = "link" /\ pc'[p] = "reopen" /\ usage' = usage /\ at' = at /\ Id(p) \in Ids
        /\ store' = [store EXCEPT ![Id(p)] = Valid(Id(p))] /\ store[Id(p)].kind = "missing"
        BY <1>1, <1>3, <1>8 DEF Link, ControlOK, Holding
  <2>2. Bytes(store') = Bytes(store) + Size[Id(p)] /\ Size[Id(p)] \in Nat
        BY <1>2, <2>1, BytesWith
  <2>3. Bytes(store) <= usage[p].bytes /\ usage[p].bytes + Size[Id(p)] <= MaxBytes
        BY <1>1, <2>1 DEF Weighed
  <2>4. usage[p].bytes \in Nat /\ usage'[p] = usage[p] /\ Id(p)' = Id(p)
        BY <1>55, <2>1 DEF Id
  <2>5. Bytes(store') <= usage'[p].bytes + Size[Id(p)'] /\ Bytes(store') <= MaxBytes
        BY ONLY <1>2, <2>2, <2>3, <2>4
  <2>6. \A q \in Processes \ {p} : pc'[q] \notin Holding
        BY <1>4, <1>5, <1>8 DEF Link, Work, Holding
  <2>7. \A id \in Ids : store'[id].kind = "valid" => store'[id] = Valid(id)
        BY <1>2, <2>1
  <2>8. Weighed(p)' /\ \A q \in Processes \ {p} : Weighed(q)'
        BY ONLY <2>1, <2>5, <2>6 DEF Weighed, Holding
  <2> QED
        BY ONLY <1>2, <2>5, <2>7, <2>8 DEF BInv
<1>10. ASSUME NEW id \in Ids, Damage(id)
       PROVE  BInv'
  <2>1. /\ store[id].kind = "valid" /\ store[id] = Valid(id)
        /\ pc' = pc /\ usage' = usage /\ at' = at
        BY <1>2, <1>10 DEF Damage
  <2>2. PICK bytes \in {1, store[id].bytes} :
            store' = [store EXCEPT ![id] = [kind |-> "corrupt", bytes |-> bytes]]
        BY <1>10 DEF Damage
  <2>3. bytes \in Nat /\ bytes <= store[id].bytes /\ id \in Files(store)
        BY <1>2, <2>1 DEF Valid, Files
  <2>4. Bytes(store') <= Bytes(store)
        BY <1>2, <2>2, <2>3, DamageShrinks
  <2>5. Bytes(store') \in Nat
    <3>1. [kind |-> "corrupt", bytes |-> bytes] \in Entries
          BY <2>3 DEF Entries
    <3>2. store' \in [Ids -> Entries]
          BY ONLY <1>2, <2>2, <3>1
    <3> QED
          BY <3>2, BytesType
  <2>6. ASSUME NEW q \in Processes
        PROVE  Weighed(q)'
    <3>1. Weighed(q) /\ Id(q)' = Id(q) /\ usage[q].bytes \in Nat
          BY <1>1, <1>55, <2>1 DEF Id
    <3>2. pc[q] = "reopen" => Size[Id(q)] \in Nat
          BY <1>2, <1>3 DEF Holding
    <3> QED
          BY ONLY <1>2, <2>1, <2>4, <2>5, <3>1, <3>2 DEF Weighed
  <2>7. Bytes(store') <= MaxBytes
        BY ONLY <1>2, <2>4, <2>5
  <2>8. \A x \in Ids : store'[x].kind = "valid" => store'[x] = Valid(x)
        BY ONLY <1>2, <2>2
  <2> QED
        BY ONLY <1>2, <2>6, <2>7, <2>8 DEF BInv
<1>11. ASSUME NEW p \in Processes, Work(p) \/ Acquire(p) \/ StepFails(p) \/ Kill(p),
              store' = store
       PROVE  BInv'
  <2>0. Id(p) = Batch[p][at[p]]
        BY DEF Id
  <2>1. \A q \in Processes \ {p} : Weighed(q)'
    <3>1. \A q \in Processes \ {p} : pc'[q] = pc[q] /\ usage'[q] = usage[q] /\ Id(q)' = Id(q)
          BY <1>5, <1>11 DEF Id
    <3> QED
          BY ONLY <1>1, <1>11, <3>1 DEF Weighed
  <2>2. ASSUME AcquireForPublish(p)
        PROVE  Weighed(p)'
    <3>1. pc'[p] = "publish" /\ usage'[p].bytes = Bytes(store)
          BY <1>1, <2>2 DEF AcquireForPublish, CacheUsage, ControlOK
    <3> QED
          BY ONLY <1>2, <1>11, <3>1 DEF Weighed
  <2>3. ASSUME Publish(p)
        PROVE  Weighed(p)'
    <3>1. pc[p] = "publish" /\ pc'[p] \in {"publish", "admit", "evict", "assemble"} /\ usage' = usage
          BY <1>1, <2>3 DEF Publish, PublishMiss, ControlOK
    <3> QED
          BY ONLY <1>1, <1>11, <3>1 DEF Weighed
  <2>4. ASSUME Admit(p)
        PROVE  Weighed(p)'
    <3>1. /\ pc[p] = "admit" /\ pc'[p] \in {"link", "publish"} /\ usage' = usage
          /\ pc'[p] = "link" => at' = at /\ Admits(usage[p], Size[Id(p)])
          BY <1>1, <2>4 DEF Admit, ControlOK
    <3>2. pc'[p] = "link" => usage'[p].bytes + Size[Id(p)'] <= MaxBytes
      <4>1. Size[Id(p)] \in Nat \ {0} /\ usage[p].bytes \in Nat
            BY <1>2, <1>3, <1>55, <3>1 DEF Holding
      <4>2. pc'[p] = "link" => Id(p)' = Id(p) /\ usage'[p] = usage[p]
            BY <3>1 DEF Id
      <4> QED
            BY ONLY <1>2, <3>1, <4>1, <4>2 DEF Admits, SaturatingSub
    <3> QED
          BY ONLY <1>1, <1>11, <3>1, <3>2 DEF Weighed
  <2>5. ASSUME Reopen(p)
        PROVE  Weighed(p)'
    <3>1. /\ pc[p] = "reopen" /\ pc'[p] = "publish"
          /\ usage'[p].bytes = usage[p].bytes + Size[Id(p)]
          BY <1>1, <2>5 DEF Reopen, ControlOK
    <3> QED
          BY ONLY <1>1, <1>11, <3>1 DEF Weighed
  <2>6. ASSUME pc'[p] \notin {"publish", "evict", "admit", "link", "reopen"}
        PROVE  Weighed(p)'
        BY ONLY <2>6 DEF Weighed
  <2>7. ASSUME \/ LookUp(p) \/ Inspect(p) \/ Repair(p) \/ Capture(p) \/ Assemble(p)
               \/ AcquireForRepair(p) \/ StepFails(p) \/ Kill(p) \/ Unlink(p)
        PROVE  Weighed(p)'
    <3>1. pc'[p] \notin {"publish", "evict", "admit", "link", "reopen"}
          BY <1>1, <2>7 DEF LookUp, Inspect, Repair, Capture, Assemble, AcquireForRepair,
             StepFails, Kill, Fail, ControlOK, Unlink
    <3> QED
          BY <2>6, <3>1
  <2>8. CASE Evict(p)
        BY <1>7, <2>8
  <2>9. ASSUME Link(p)
        PROVE  Weighed(p)'
    <3>1. pc'[p] = "failed"
      <4>1. store[Id(p)].kind = "missing" => store'[Id(p)].kind = "valid"
            BY <1>2, <1>3, <2>9 DEF Link, Holding, Valid
      <4> QED
            BY <1>1, <1>11, <2>9, <4>1 DEF Link, Fail, ControlOK
    <3> QED
          BY <2>6, <3>1
  <2>10. Evict(p) \/ Weighed(p)'
        BY <1>11, <2>2, <2>3, <2>4, <2>5, <2>7, <2>9 DEF Work, Acquire
  <2>11. ASSUME Weighed(p)'
         PROVE  BInv'
        BY ONLY <1>2, <1>11, <2>1, <2>11 DEF BInv
  <2> QED
        BY ONLY <2>8, <2>10, <2>11
<1>12. CASE UNCHANGED vars \/ Finished
  <2>1. UNCHANGED vars
        BY <1>12 DEF Finished
  <2> QED
        BY <1>1, <1>2, <2>1 DEF vars, BInv, Weighed, Id
<1>13. ASSUME NEW p \in Processes, Work(p) \/ Acquire(p) \/ StepFails(p) \/ Kill(p)
       PROVE  store' = store \/ Unlink(p) \/ Evict(p) \/ Link(p)
       BY <1>13 DEF Work, LookUp, Inspect, Repair, Capture, Publish, Admit, Reopen,
          Assemble, Acquire, AcquireForRepair, AcquireForPublish, StepFails, Kill
<1> QED
      BY <1>6, <1>7, <1>8, <1>10, <1>11, <1>12, <1>13 DEF Next

(* The store exceeds neither bound, for any processes, batches and sizes,  *)
(* whatever is killed, damaged or misread meanwhile.                       *)
THEOREM StoreWithinBoundsHolds == Spec => []StoreWithinBounds
<1>1. Init => BInv
      BY DEF Init, BInv, Weighed, CacheUsage, UsageType
<1>2. IInv /\ BInv /\ [Next]_vars => BInv'
      BY BytesStep
<1>3. BInv => Bytes(store) <= MaxBytes
      BY DEF BInv
<1> QED
      BY <1>1, <1>2, <1>3, IInvHolds, ArtifactsWithinBoundHolds, PTL DEF Spec, StoreWithinBounds

(* Every variable keeps its type, the carried usage included.              *)
THEOREM TypesHold == Spec => []TypeOK
<1>1. Init => BInv
      BY DEF Init, BInv, Weighed, CacheUsage, UsageType
<1>2. IInv /\ BInv /\ [Next]_vars => BInv'
      BY BytesStep
<1>3. IInv /\ BInv => TypeOK
      BY DEF IInv, BInv, ControlOK, TypeOK
<1> QED
      BY <1>1, <1>2, <1>3, IInvHolds, PTL DEF Spec
=============================================================================
