--------------------------- MODULE BrowserInstall ---------------------------
(***************************************************************************)
(* The launcher's browser installation, packages/launcher/src/browser.ts:  *)
(* any number of processes install one pinned browser into one cache under *)
(* a lock directory that holds an owner-specific marker file.  A waiter    *)
(* takes over a lock whose marker has not been touched for a minute.       *)
(*                                                                         *)
(* Every file-system call of the protocol is a step of its own.  A process *)
(* may be killed at any step, or stall for longer than the lock stays      *)
(* fresh and carry on later without noticing.                              *)
(***************************************************************************)
EXTENDS Integers, FiniteSets

CONSTANTS
    Processes,
    Free,       \* no lock directory
    Empty,      \* a lock directory without a marker
    Posix,      \* whether rename replaces an empty directory
    MaxPolls,   \* bound: waits within waitMilliseconds
    MaxStalls,  \* bound: live owners that stop refreshing their marker
    MaxKills    \* bound: processes killed

ASSUME InstallAssumption ==
    /\ Free # Empty
    /\ Posix \in BOOLEAN
    /\ Free \notin Processes /\ Empty \notin Processes
    /\ MaxPolls \in Nat /\ MaxStalls \in Nat /\ MaxKills \in Nat

VARIABLES
    lock,       \* Free, Empty, or the owner whose marker it holds
    stale,      \* its modification time is older than staleMilliseconds
    browser,    \* the installation directory in the cache
    staging,    \* [Processes -> its staging directory]
    pc,         \* [Processes -> the step it is at]
    polls,      \* [Processes -> waits it has made]
    result,     \* [Processes -> outcome of the installation action]
    reclaimed,  \* owners whose lock was taken from them while they ran
    stalls

vars == <<lock, stale, browser, staging, pc, polls, result, reclaimed, stalls>>

Ended == {"done", "failed", "killed"}

(* Steps of the action that withInstallLock runs under the lease. *)
Leased ==
    {"check", "verify", "sweep", "remove", "removing", "stage", "download",
     "verifyAgain", "publish", "confirm", "cleanup"}

Labels == Leased \cup Ended \cup {"try", "contended", "observe", "reclaim", "wait", "release", "rmdir"}

(* "broken" has no executable; "partial" has one but lacks other files. *)
Trees == {"missing", "broken", "partial", "whole"}

IsExecutable(tree) == tree \in {"partial", "whole"}

Goto(p, label) == pc' = [pc EXCEPT ![p] = label]

(* The action ends with a path or an error; a staging directory is removed *)
(* and the lock released either way.                                       *)
Conclude(p, outcome, label) ==
    /\ result' = [result EXCEPT ![p] = outcome]
    /\ Goto(p, label)

HoldsMarker(p) == lock = p

Killed == {p \in Processes : pc[p] = "killed"}

-----------------------------------------------------------------------------
(* An earlier process may have left its lock or a broken installation. *)
Init ==
    /\ lock \in {Free, Empty}
    /\ stale = (lock = Empty)
    /\ browser \in {"missing", "broken", "whole"}
    /\ staging = [p \in Processes |-> "missing"]
    /\ pc = [p \in Processes |-> "try"]
    /\ polls = [p \in Processes |-> 0]
    /\ result = [p \in Processes |-> "none"]
    /\ reclaimed = {}
    /\ stalls = 0

(* Mutant: the candidate replaces a populated lock directory. *)
TryAcquireByForce(p) ==
    /\ pc[p] = "try"
    /\ lock' = p
    /\ stale' = FALSE
    /\ Goto(p, "check")
    /\ UNCHANGED <<browser, staging, polls, result, reclaimed, stalls>>

(* tryAcquireInstallLock renames a private directory that already holds    *)
(* the marker.  POSIX lets it replace an empty directory and names any     *)
(* other obstacle; Windows refuses with an error that explains nothing.    *)
TryAcquire(p) ==
    /\ pc[p] = "try"
    /\ IF lock = Free \/ (Posix /\ lock = Empty)
       THEN /\ lock' = p
            /\ stale' = FALSE
            /\ Goto(p, "check")
       ELSE /\ Goto(p, IF Posix THEN "observe" ELSE "contended")
            /\ UNCHANGED <<lock, stale>>
    /\ UNCHANGED <<browser, staging, polls, result, reclaimed, stalls>>

(* installLockExists: a lock that is gone by now cannot explain the error. *)
Contend(p) ==
    /\ pc[p] = "contended"
    /\ Goto(p, IF lock = Free THEN "failed" ELSE "observe")
    /\ UNCHANGED <<lock, stale, browser, staging, polls, result, reclaimed, stalls>>

(* reclaimAbandonedLock, first half: the lock's modification time. *)
ObserveLock(p) ==
    /\ pc[p] = "observe"
    /\ Goto(p, IF lock # Free /\ stale THEN "reclaim" ELSE "wait")
    /\ UNCHANGED <<lock, stale, browser, staging, polls, result, reclaimed, stalls>>

(* Second half: the directory at the lock's path by now is renamed away.   *)
Reclaim(p) ==
    /\ pc[p] = "reclaim"
    /\ lock' = Free
    /\ stale' = FALSE
    /\ reclaimed' = IF lock \in Processes \ Killed THEN reclaimed \cup {lock} ELSE reclaimed
    /\ Goto(p, "wait")
    /\ UNCHANGED <<browser, staging, polls, result, stalls>>

(* Mutant: the wait has no deadline. *)
PollForever(p) ==
    /\ pc[p] = "wait"
    /\ Goto(p, "try")
    /\ UNCHANGED <<lock, stale, browser, staging, polls, result, reclaimed, stalls>>

(* The wait ends with another attempt, or past the deadline with an error. *)
Poll(p) ==
    /\ pc[p] = "wait"
    /\ \/ /\ polls[p] < MaxPolls
          /\ polls' = [polls EXCEPT ![p] = @ + 1]
          /\ Goto(p, "try")
       \/ Goto(p, "failed") /\ UNCHANGED polls
    /\ UNCHANGED <<lock, stale, browser, staging, result, reclaimed, stalls>>

(* refreshInstallLease, from the heartbeat timer. *)
Refresh(p) ==
    /\ pc[p] \in Leased
    /\ HoldsMarker(p) /\ stale
    /\ stale' = FALSE
    /\ UNCHANGED <<lock, browser, staging, pc, polls, result, reclaimed, stalls>>

-----------------------------------------------------------------------------
(* ensureBrowser under the lease *)

(* Mutant: an installed browser is installed again. *)
CheckNothing(p) ==
    /\ pc[p] = "check"
    /\ Goto(p, "verify")
    /\ UNCHANGED <<lock, stale, browser, staging, polls, result, reclaimed, stalls>>

Check(p) ==
    /\ pc[p] = "check"
    /\ IF IsExecutable(browser)
       THEN Conclude(p, "path", "release")
       ELSE Goto(p, "verify") /\ UNCHANGED result
    /\ UNCHANGED <<lock, stale, browser, staging, polls, reclaimed, stalls>>

(* verifyInstallLease touches the marker by its own name. *)
Verify(p, at, next) ==
    /\ pc[p] = at
    /\ IF HoldsMarker(p)
       THEN /\ stale' = FALSE
            /\ Goto(p, next)
            /\ UNCHANGED result
       ELSE /\ Conclude(p, "error", IF at = "verify" THEN "release" ELSE "cleanup")
            /\ UNCHANGED stale
    /\ UNCHANGED <<lock, browser, staging, polls, reclaimed, stalls>>

(* removeAbandonedStaging does not ask whose directory it removes. *)
Sweep(p) ==
    /\ pc[p] = "sweep"
    /\ staging' = [q \in Processes |-> "missing"]
    /\ Goto(p, "remove")
    /\ UNCHANGED <<lock, stale, browser, polls, result, reclaimed, stalls>>

(* removeIncompleteInstall: `access`, then a removal that takes its time.  *)
BeginRemove(p) ==
    /\ pc[p] = "remove"
    /\ IF browser = "missing"
       THEN Goto(p, "stage") /\ UNCHANGED browser
       ELSE /\ Goto(p, "removing")
            /\ browser' \in IF IsExecutable(browser) THEN {"broken", "partial"} ELSE {"broken"}
    /\ UNCHANGED <<lock, stale, staging, polls, result, reclaimed, stalls>>

(* What was published meanwhile may or may not be swept along. *)
EndRemove(p) ==
    /\ pc[p] = "removing"
    /\ browser' \in IF browser = "whole" THEN {"missing", "whole"} ELSE {"missing"}
    /\ Goto(p, "stage")
    /\ UNCHANGED <<lock, stale, staging, polls, result, reclaimed, stalls>>

Stage(p) ==
    /\ pc[p] = "stage"
    /\ staging' = [staging EXCEPT ![p] = "broken"]
    /\ Goto(p, "download")
    /\ UNCHANGED <<lock, stale, browser, polls, result, reclaimed, stalls>>

(* The installer verifies the archive's digest and unpacks it.  Unpacking  *)
(* into a directory swept away meanwhile recreates part of the tree.       *)
Download(p) ==
    /\ pc[p] = "download"
    /\ staging' = [staging EXCEPT ![p] = IF @ = "missing" THEN "partial" ELSE "whole"]
    /\ Goto(p, "verifyAgain")
    /\ UNCHANGED <<lock, stale, browser, polls, result, reclaimed, stalls>>

(* The rename neither replaces a populated directory nor finds a swept one.*)
Publish(p) ==
    /\ pc[p] = "publish"
    /\ IF staging[p] # "missing" /\ browser = "missing"
       THEN /\ browser' = staging[p]
            /\ staging' = [staging EXCEPT ![p] = "missing"]
            /\ Goto(p, "confirm")
            /\ UNCHANGED result
       ELSE /\ Conclude(p, "error", "cleanup")
            /\ UNCHANGED <<browser, staging>>
    /\ UNCHANGED <<lock, stale, polls, reclaimed, stalls>>

Confirm(p) ==
    /\ pc[p] = "confirm"
    /\ Conclude(p, IF IsExecutable(browser) THEN "path" ELSE "error", "cleanup")
    /\ UNCHANGED <<lock, stale, browser, staging, polls, reclaimed, stalls>>

(* A file-system call, the download or the digest check fails. *)
StepFails(p) ==
    /\ pc[p] \in Leased \ {"cleanup"}
    /\ Conclude(p, "error",
                IF pc[p] \in {"download", "verifyAgain", "publish", "confirm"}
                THEN "cleanup" ELSE "release")
    /\ UNCHANGED <<lock, stale, browser, staging, polls, reclaimed, stalls>>

Cleanup(p) ==
    /\ pc[p] = "cleanup"
    /\ staging' = [staging EXCEPT ![p] = "missing"]
    /\ Goto(p, "release")
    /\ UNCHANGED <<lock, stale, browser, polls, result, reclaimed, stalls>>

(* releaseInstallLock removes its own marker, then a directory that has    *)
(* no other one; removing the marker touches the directory.                *)
Release(p) ==
    /\ pc[p] = "release"
    /\ IF HoldsMarker(p)
       THEN lock' = Empty /\ stale' = FALSE
       ELSE UNCHANGED <<lock, stale>>
    /\ Goto(p, "rmdir")
    /\ UNCHANGED <<browser, staging, polls, result, reclaimed, stalls>>

(* Mutant: the lock directory is removed with whatever it holds. *)
RemoveAnyLock(p) ==
    /\ pc[p] = "rmdir"
    /\ lock' = Free
    /\ stale' = FALSE
    /\ Goto(p, IF result[p] = "path" THEN "done" ELSE "failed")
    /\ UNCHANGED <<browser, staging, polls, result, reclaimed, stalls>>

RemoveLock(p) ==
    /\ pc[p] = "rmdir"
    /\ IF lock = Empty
       THEN lock' = Free /\ stale' = FALSE
       ELSE UNCHANGED <<lock, stale>>
    /\ Goto(p, IF result[p] = "path" THEN "done" ELSE "failed")
    /\ UNCHANGED <<browser, staging, polls, result, reclaimed, stalls>>

-----------------------------------------------------------------------------
(* The environment *)

Kill(p) ==
    /\ Cardinality(Killed) < MaxKills
    /\ pc[p] \notin Ended
    /\ Goto(p, "killed")
    /\ UNCHANGED <<lock, stale, browser, staging, polls, result, reclaimed, stalls>>

Attended ==
    \/ lock \in Processes \ Killed
    \/ lock = Empty /\ \E p \in Processes : pc[p] = "rmdir"

(* A minute passes without a heartbeat: the owner is gone, or stalled. *)
GoStale ==
    /\ lock # Free /\ ~stale
    /\ stale' = TRUE
    /\ IF Attended
       THEN stalls < MaxStalls /\ stalls' = stalls + 1
       ELSE UNCHANGED stalls
    /\ UNCHANGED <<lock, browser, staging, pc, polls, result, reclaimed>>

Work(p) ==
    \/ TryAcquire(p)
    \/ Contend(p)
    \/ ObserveLock(p)
    \/ Reclaim(p)
    \/ Poll(p)
    \/ Check(p)
    \/ Verify(p, "verify", "sweep")
    \/ Sweep(p)
    \/ BeginRemove(p)
    \/ EndRemove(p)
    \/ Stage(p)
    \/ Download(p)
    \/ Verify(p, "verifyAgain", "publish")
    \/ Publish(p)
    \/ Confirm(p)
    \/ Cleanup(p)
    \/ Release(p)
    \/ RemoveLock(p)

Finished == (\A p \in Processes : pc[p] \in Ended) /\ UNCHANGED vars

Next ==
    \/ \E p \in Processes : Work(p) \/ StepFails(p) \/ Refresh(p) \/ Kill(p)
    \/ GoStale
    \/ Finished

(* No step waits for another process: the wait for the lock has a deadline.*)
Spec == Init /\ [][Next]_vars /\ \A p \in Processes : WF_vars(Work(p))
-----------------------------------------------------------------------------
(* Properties *)

(* Every variable keeps its type. *)
TypeOK ==
    /\ lock \in Processes \cup {Free, Empty}
    /\ stale \in BOOLEAN
    /\ browser \in Trees
    /\ staging \in [Processes -> Trees]
    /\ pc \in [Processes -> Labels]
    /\ polls \in [Processes -> 0..MaxPolls]
    /\ result \in [Processes -> {"none", "path", "error"}]
    /\ reclaimed \subseteq Processes
    /\ stalls \in 0..MaxStalls

(* A lock that holds a marker is taken away only by the owner of the       *)
(* marker, or by a waiter that found a lock stale: an owner that resumes   *)
(* after it was reclaimed neither removes its successor's lock nor touches *)
(* its heartbeat.                                                          *)
SuccessorIsSafe ==
    [][\A p \in Processes : lock = p =>
          /\ lock' # p =>
                \/ pc[p] = "release" /\ pc'[p] = "rmdir"
                \/ \E q \in Processes : pc[q] = "reclaim" /\ pc'[q] = "wait"
          /\ lock' = p /\ stale /\ ~stale' => pc[p] \in Leased]_vars

(* As long as no running owner has lost its lock to a waiter, the lease    *)
(* excludes: whoever runs the installation holds the marker.               *)
LeaseExcludes ==
    reclaimed = {} => \A p \in Processes : pc[p] \in Leased => HoldsMarker(p)

(* As long as no running owner has lost its lock, a path that a process    *)
(* was given leads to a whole browser for ever after, also while other     *)
(* installers check, fail, are killed, and sweep up.                       *)
ReturnedBrowserStays ==
    reclaimed = {} =>
        /\ browser # "partial"
        /\ \A p \in Processes : result[p] = "path" => browser = "whole"

(* As long as no running owner has lost its lock, nobody's staging         *)
(* directory is swept away under it, and what killed installers left is    *)
(* gone before the next download starts.                                   *)
StagingIsPrivate ==
    reclaimed = {} =>
        \A p \in Processes :
            /\ pc[p] \in {"verifyAgain", "publish"} => staging[p] = "whole"
            /\ pc[p] \in {"stage", "download", "publish"} =>
                  \A q \in Processes \ {p} : staging[q] = "missing"

(* Every process ends: the wait for a lock that is never released and the  *)
(* installation itself both come to an end.                                *)
EveryInstallerEnds == \A p \in Processes : <>(pc[p] \in Ended)

=============================================================================
