---------------------------- MODULE ArtifactCache ----------------------------
(***************************************************************************)
(* The local frame-artifact store of crates/cli/src/artifact_cache.rs,     *)
(* shared by every onmark process of one machine.  Valid entries are read  *)
(* without a lock; one file lock, the lease, serialises corruption repair, *)
(* publication and capacity accounting.  A process may be killed at any    *)
(* step (the lock dies with it, its staging directory does not), and the   *)
(* disk may damage an entry at any moment.                                 *)
(***************************************************************************)
EXTENDS Integers, Sequences, FiniteSets, FiniteSetsExt

CONSTANTS
    Processes,
    Ids,            \* FrameArtifactId values
    Size,           \* [Ids -> bytes of the artifact with this identity]
    Batch,          \* [Processes -> sequence of the identities it renders]
    MaxArtifacts,   \* MAX_CACHE_ARTIFACTS
    MaxBytes,       \* MAX_CACHE_BYTES
    MaxDamage,      \* bound: entries the disk damages
    MaxFaults,      \* bound: inspections that fail on a sound entry
    NoLease

ASSUME CacheAssumption ==
    /\ IsFiniteSet(Ids)
    /\ Size \in [Ids -> Nat \ {0}]
    /\ Batch \in [Processes -> Seq(Ids)]
    /\ MaxArtifacts \in Nat
    /\ MaxBytes \in Nat
    /\ MaxDamage \in Nat
    /\ MaxFaults \in Nat
    /\ NoLease \notin Processes

VARIABLES
    store,      \* [Ids -> what the store's path for this identity holds]
    lease,      \* the process that holds the file lock, or NoLease
    pc,         \* [Processes -> the step it is at]
    at,         \* [Processes -> position in its batch]
    artifacts,  \* [Processes -> [position -> where its artifact was found]]
    staging,    \* [Processes -> identities captured in its staging directory]
    usage,      \* [Processes -> its CacheUsage while it publishes]
    damage,     \* entries the disk has damaged so far
    faults      \* inspections that have failed on a sound entry

vars == <<store, lease, pc, at, artifacts, staging, usage, damage, faults>>

Missing   == [kind |-> "missing", bytes |-> 0]
Directory == [kind |-> "directory", bytes |-> 0]
Valid(id) == [kind |-> "valid", bytes |-> Size[id]]

Entries == [kind : {"missing", "valid", "corrupt", "directory"}, bytes : Nat]

Labels ==
    {"lookup", "inspect", "awaitRepair", "repair", "unlink", "capture",
     "awaitPublish", "publish", "evict", "admit", "link", "reopen",
     "assemble", "done", "failed", "killed"}

Ended == {"done", "failed", "killed"}

(* Files that count against the capacity, as cache_usage scans them. *)
Files(s) == {id \in Ids : s[id].kind \in {"valid", "corrupt"}}
Bytes(s) == MapThenSumSet(LAMBDA id : s[id].bytes, Files(s))

CacheUsage(s) == [artifacts |-> Cardinality(Files(s)), bytes |-> Bytes(s)]

SaturatingSub(a, b) == IF a > b THEN a - b ELSE 0

(* Mutant: one artifact too many. *)
AdmitsOneMore(u, bytes) ==
    /\ u.artifacts <= MaxArtifacts
    /\ bytes <= SaturatingSub(MaxBytes, u.bytes)

(* CacheUsage::admits *)
Admits(u, bytes) ==
    /\ u.artifacts < MaxArtifacts
    /\ bytes <= SaturatingSub(MaxBytes, u.bytes)

Id(p) == Batch[p][at[p]]

(* inspect_cache_entry opens and verifies the whole artifact.  Whatever    *)
(* keeps it from doing so makes the entry corrupt to the caller, an I/O    *)
(* error on a sound one included.                                          *)
Sound(id) == store[id].kind = "valid"

Accepted(id) == Sound(id) /\ UNCHANGED faults

Rejected(id) ==
    IF Sound(id) THEN faults < MaxFaults /\ faults' = faults + 1 ELSE UNCHANGED faults

Goto(p, label) == pc' = [pc EXCEPT ![p] = label]

NextUnit(p) == at' = [at EXCEPT ![p] = @ + 1]

Resolve(p, where) == artifacts' = [artifacts EXCEPT ![p][at[p]] = where]

AtUnit(p) == at[p] <= Len(Batch[p])

-----------------------------------------------------------------------------
(* The store may hold entries of earlier runs, within its bounds, damaged  *)
(* ones and foreign directories among them.                                *)
Init ==
    /\ store \in [Ids -> {Missing, Directory}
                           \cup {Valid(id) : id \in Ids}
                           \cup {[kind |-> "corrupt", bytes |-> 1]}]
    /\ \A id \in Ids : store[id].kind = "valid" => store[id] = Valid(id)
    /\ CacheUsage(store).artifacts <= MaxArtifacts
    /\ CacheUsage(store).bytes <= MaxBytes
    /\ lease = NoLease
    /\ pc = [p \in Processes |-> "lookup"]
    /\ at = [p \in Processes |-> 1]
    /\ artifacts = [p \in Processes |-> [i \in DOMAIN Batch[p] |-> "none"]]
    /\ staging = [p \in Processes |-> {}]
    /\ usage = [p \in Processes |-> [artifacts |-> 0, bytes |-> 0]]
    /\ damage = 0
    /\ faults = 0

(* load_cache_entry, first half: the unlocked metadata of the entry.       *)
LookUp(p) ==
    /\ pc[p] = "lookup"
    /\ IF ~AtUnit(p)
       THEN Goto(p, "capture") /\ UNCHANGED at
       ELSE CASE store[Id(p)].kind = "missing"   -> NextUnit(p) /\ UNCHANGED pc
              [] store[Id(p)].kind = "directory" -> Goto(p, "awaitRepair") /\ UNCHANGED at
              [] OTHER                           -> Goto(p, "inspect") /\ UNCHANGED at
    /\ UNCHANGED <<store, lease, artifacts, staging, usage, damage, faults>>

(* Second half: open and verify without the lease.  An entry repaired away *)
(* since its metadata was read looks corrupt.                              *)
Inspect(p) ==
    /\ pc[p] = "inspect"
    /\ \/ Accepted(Id(p)) /\ Resolve(p, "store") /\ NextUnit(p) /\ Goto(p, "lookup")
       \/ Rejected(Id(p)) /\ Goto(p, "awaitRepair") /\ UNCHANGED <<at, artifacts>>
    /\ UNCHANGED <<store, lease, staging, usage, damage>>

AcquireForRepair(p) ==
    /\ pc[p] = "awaitRepair"
    /\ lease = NoLease
    /\ lease' = p
    /\ Goto(p, "repair")
    /\ UNCHANGED <<store, at, artifacts, staging, usage, damage, faults>>

(* Mutant: the entry is not inspected again under the lease. *)
RepairBlindly(p) ==
    /\ pc[p] = "repair"
    /\ IF store[Id(p)].kind = "missing"
       THEN lease' = NoLease /\ NextUnit(p) /\ Goto(p, "lookup")
       ELSE Goto(p, "unlink") /\ UNCHANGED <<lease, at>>
    /\ UNCHANGED <<store, artifacts, staging, usage, damage, faults>>

(* repair_cache_entry inspects again under the lease: another process may  *)
(* have repaired or republished the entry meanwhile.                       *)
Repair(p) ==
    /\ pc[p] = "repair"
    /\ \/ /\ \/ store[Id(p)].kind = "missing" /\ UNCHANGED <<artifacts, faults>>
             \/ Accepted(Id(p)) /\ Resolve(p, "store")
          /\ lease' = NoLease
          /\ NextUnit(p)
          /\ Goto(p, "lookup")
       \/ /\ store[Id(p)].kind # "missing" /\ Rejected(Id(p))
          /\ Goto(p, "unlink")
          /\ UNCHANGED <<lease, at, artifacts>>
    /\ UNCHANGED <<store, staging, usage, damage>>

(* Mutant: a failing process keeps its lease. *)
FailHoldingLease(p) ==
    /\ Goto(p, "failed")
    /\ staging' = [staging EXCEPT ![p] = {}]
    /\ UNCHANGED lease

(* A failing process drops its lease and its staging directory. *)
Fail(p) ==
    /\ Goto(p, "failed")
    /\ lease' = IF lease = p THEN NoLease ELSE lease
    /\ staging' = [staging EXCEPT ![p] = {}]

(* remove_corrupt *)
Unlink(p) ==
    /\ pc[p] = "unlink"
    /\ store' = [store EXCEPT ![Id(p)] = Missing]
    /\ lease' = NoLease
    /\ NextUnit(p)
    /\ Goto(p, "lookup")
    /\ UNCHANGED <<artifacts, staging, usage, damage, faults>>

(* Chromium captures every miss into the private staging directory. *)
Misses(p) == {Batch[p][i] : i \in {j \in DOMAIN Batch[p] : artifacts[p][j] = "none"}}

Capture(p) ==
    /\ pc[p] = "capture"
    /\ staging' = [staging EXCEPT ![p] = Misses(p)]
    /\ Goto(p, "awaitPublish")
    /\ UNCHANGED <<store, lease, at, artifacts, usage, damage, faults>>

(* The lease is taken and the directory scanned once per publication.      *)
AcquireForPublish(p) ==
    /\ pc[p] = "awaitPublish"
    /\ lease = NoLease
    /\ lease' = p
    /\ usage' = [usage EXCEPT ![p] = CacheUsage(store)]
    /\ at' = [at EXCEPT ![p] = 1]
    /\ Goto(p, "publish")
    /\ UNCHANGED <<store, artifacts, staging, damage, faults>>

(* One miss after another: an entry published meanwhile by another process *)
(* is used as it is, a corrupt one is evicted first.                       *)
PublishMiss(p) ==
    \/ Accepted(Id(p)) /\ Resolve(p, "store") /\ NextUnit(p) /\ UNCHANGED pc
    \/ /\ \/ store[Id(p)].kind = "missing" /\ Goto(p, "admit") /\ UNCHANGED faults
          \/ store[Id(p)].kind # "missing" /\ Rejected(Id(p)) /\ Goto(p, "evict")
       /\ UNCHANGED <<at, artifacts>>

Publish(p) ==
    /\ pc[p] = "publish"
    /\ IF ~AtUnit(p)
       THEN /\ lease' = NoLease
            /\ Goto(p, "assemble")
            /\ UNCHANGED <<at, artifacts, faults>>
       ELSE /\ UNCHANGED lease
            /\ IF artifacts[p][at[p]] # "none"
               THEN NextUnit(p) /\ UNCHANGED <<pc, artifacts, faults>>
               ELSE PublishMiss(p)
    /\ UNCHANGED <<store, staging, usage, damage>>

(* The bytes given back are those of the file as it is removed. *)
Evict(p) ==
    /\ pc[p] = "evict"
    /\ usage' = [usage EXCEPT ![p] =
          IF store[Id(p)].kind = "directory" THEN @
          ELSE [artifacts |-> SaturatingSub(@.artifacts, 1),
                bytes     |-> SaturatingSub(@.bytes, store[Id(p)].bytes)]]
    /\ store' = [store EXCEPT ![Id(p)] = Missing]
    /\ Goto(p, "admit")
    /\ UNCHANGED <<lease, at, artifacts, staging, damage, faults>>

(* Mutant: a miss that does not fit is dropped. *)
AdmitDropsMiss(p) ==
    /\ pc[p] = "admit"
    /\ IF Admits(usage[p], Size[Id(p)])
       THEN Goto(p, "link") /\ UNCHANGED at
       ELSE NextUnit(p) /\ Goto(p, "publish")
    /\ UNCHANGED <<store, lease, artifacts, staging, usage, damage, faults>>

(* A full store leaves the miss in the staging directory. *)
Admit(p) ==
    /\ pc[p] = "admit"
    /\ IF Admits(usage[p], Size[Id(p)])
       THEN Goto(p, "link") /\ UNCHANGED <<at, artifacts>>
       ELSE Resolve(p, "staging") /\ NextUnit(p) /\ Goto(p, "publish")
    /\ UNCHANGED <<store, lease, staging, usage, damage, faults>>

(* hard_link refuses an existing path. *)
Link(p) ==
    /\ pc[p] = "link"
    /\ IF store[Id(p)].kind = "missing"
       THEN /\ store' = [store EXCEPT ![Id(p)] = Valid(Id(p))]
            /\ Goto(p, "reopen")
            /\ UNCHANGED <<lease, staging>>
       ELSE Fail(p) /\ UNCHANGED store
    /\ UNCHANGED <<at, artifacts, usage, damage, faults>>

(* FrameArtifact::open checks the published entry's header and size, which *)
(* damage to its payload does not show.                                    *)
Reopen(p) ==
    /\ pc[p] = "reopen"
    /\ store[Id(p)].kind \in {"valid", "corrupt"}
    /\ usage' = [usage EXCEPT ![p] = [artifacts |-> @.artifacts + 1,
                                     bytes     |-> @.bytes + Size[Id(p)]]]
    /\ Resolve(p, "store")
    /\ NextUnit(p)
    /\ Goto(p, "publish")
    /\ UNCHANGED <<store, lease, staging, damage, faults>>

(* Assembly opens every artifact by path and verifies it while streaming.  *)
Readable(p, i) ==
    \/ artifacts[p][i] = "staging" /\ Batch[p][i] \in staging[p]
    \/ artifacts[p][i] = "store" /\ Sound(Batch[p][i])

Assemble(p) ==
    /\ pc[p] = "assemble"
    /\ IF \A i \in DOMAIN Batch[p] : Readable(p, i)
       THEN /\ Goto(p, "done")
            /\ staging' = [staging EXCEPT ![p] = {}]
            /\ UNCHANGED lease
       ELSE Fail(p)
    /\ UNCHANGED <<store, at, artifacts, usage, damage, faults>>

(* Any step may fail: the file system, the browser, a foreign directory    *)
(* that is not empty, an entry damaged before it is read.                  *)
StepFails(p) ==
    /\ pc[p] \notin Ended
    /\ Fail(p)
    /\ UNCHANGED <<store, at, artifacts, usage, damage, faults>>

(* The process is killed: the kernel releases its file lock, but nobody    *)
(* removes its staging directory.                                          *)
Kill(p) ==
    /\ pc[p] \notin Ended
    /\ Goto(p, "killed")
    /\ lease' = IF lease = p THEN NoLease ELSE lease
    /\ UNCHANGED <<store, at, artifacts, staging, usage, damage, faults>>

(* The disk damages an entry, which may also shrink it. *)
Damage(id) ==
    /\ damage < MaxDamage
    /\ store[id].kind = "valid"
    /\ \E bytes \in {1, store[id].bytes} :
          store' = [store EXCEPT ![id] = [kind |-> "corrupt", bytes |-> bytes]]
    /\ damage' = damage + 1
    /\ UNCHANGED <<lease, pc, at, artifacts, staging, usage, faults>>

Acquire(p) == AcquireForRepair(p) \/ AcquireForPublish(p)

Work(p) ==
    \/ LookUp(p)
    \/ Inspect(p)
    \/ Repair(p)
    \/ Unlink(p)
    \/ Capture(p)
    \/ Publish(p)
    \/ Evict(p)
    \/ Admit(p)
    \/ Link(p)
    \/ Reopen(p)
    \/ Assemble(p)

Finished ==
    /\ \A p \in Processes : pc[p] \in Ended
    /\ UNCHANGED vars

Next ==
    \/ \E p \in Processes : Work(p) \/ Acquire(p) \/ StepFails(p) \/ Kill(p)
    \/ \E id \in Ids : Damage(id)
    \/ Finished

(* Local steps never wait for another process, and the kernel grants the   *)
(* file lock to a waiter once nobody else takes it.                        *)
Fairness == \A p \in Processes : WF_vars(Work(p)) /\ WF_vars(Acquire(p))

Spec == Init /\ [][Next]_vars /\ Fairness
-----------------------------------------------------------------------------
(* Properties *)

UsageType == [artifacts : Nat, bytes : Nat]

(* Every variable keeps its type. *)
TypeOK ==
    /\ store \in [Ids -> Entries]
    /\ lease \in Processes \cup {NoLease}
    /\ pc \in [Processes -> Labels]
    /\ at \in [Processes -> Nat \ {0}]
    /\ \A p \in Processes :
          artifacts[p] \in [DOMAIN Batch[p] -> {"none", "store", "staging"}]
    /\ staging \in [Processes -> SUBSET Ids]
    /\ usage \in [Processes -> UsageType]
    /\ damage \in Nat
    /\ faults \in Nat

ArtifactsWithinBound == Cardinality(Files(store)) <= MaxArtifacts

(* The store never exceeds its artifact and byte bounds, however the       *)
(* publications of several processes interleave and whenever one is killed *)
(* or an entry shrinks after it was counted.                               *)
StoreWithinBounds ==
    /\ ArtifactsWithinBound
    /\ Bytes(store) <= MaxBytes

(* The steps at which a process holds the lease. *)
Holding == {"repair", "unlink", "publish", "evict", "admit", "link", "reopen"}

(* The lease excludes: a process is inside repair or publication exactly   *)
(* while it holds the file lock.                                           *)
LeaseExcludes == \A p \in Processes : pc[p] \in Holding <=> lease = p

(* A publisher never meets an entry where it is about to link: what it saw *)
(* missing under the lease is still missing.                               *)
LinkNeverCollides ==
    \A p \in Processes : pc[p] = "link" => store[Id(p)].kind = "missing"

(* No process removes or replaces a valid entry, which another one may be  *)
(* reading without the lease, until an inspection has failed on a sound    *)
(* entry; only the disk can damage it.                                     *)
ValidEntriesAreKept ==
    [][\A id \in Ids : store[id].kind = "valid" /\ faults' = 0 =>
          store'[id] = store[id] \/ damage' # damage]_vars

(* Capture resolves every unit of the batch, and an artifact it hands to   *)
(* assembly is still there when assembly opens it, unless an entry was     *)
(* damaged or could not be read: neither repair nor publication by another *)
(* process pulls it away.                                                  *)
AssemblyFindsEverything ==
    \A p \in Processes : pc[p] = "assemble" =>
        \A i \in DOMAIN Batch[p] :
            /\ artifacts[p][i] # "none"
            /\ damage + faults = 0 => Readable(p, i)

(* Every process comes to an end: nobody waits forever for the lease, also *)
(* when its holder is killed.                                              *)
EveryProcessEnds == \A p \in Processes : <>(pc[p] \in Ended)

=============================================================================
