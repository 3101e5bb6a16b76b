--------------------------- MODULE Packages_proofs ---------------------------
(***************************************************************************)
(* Theorems about the programs under packages/.  They share no variable.   *)
(*                                                                         *)
(* The browser installation of BrowserInstall, for any number of           *)
(* processes, on POSIX and on Windows, however often they wait, stall or   *)
(* are killed.                                                             *)
(*                                                                         *)
(* The page of a region, of RegionPage, for any document of any author:    *)
(* compiler, bundler and page read it on their own, and what they agree    *)
(* about is the order of the document.  The projection of the compiler and *)
(* the index of the page are both shown to be increasing sequences of the  *)
(* same elements, and there is only one of those.                          *)
(***************************************************************************)
EXTENDS BrowserInstall, RegionPage, FiniteSetTheorems, WellFoundedInduction, NaturalsInduction, TLAPS

(* The steps from which the cache has been found without a usable browser. *)
Unusable == {"verify", "sweep", "remove"}

Prepared == {"stage", "download", "verifyAgain", "publish"}

(* What a process at its step knows of the cache, as long as nobody has    *)
(* lost the lock while it ran: the cache it found is the cache it left.    *)
Knows(p) ==
    /\ pc[p] \in Leased => lock = p
    /\ pc[p] \in Unusable => browser \in {"missing", "broken"}
    /\ pc[p] = "removing" => browser = "broken"
    /\ pc[p] \in Prepared => browser = "missing"
    /\ pc[p] = "confirm" => browser = "whole"
    /\ pc[p] = "download" => staging[p] = "broken"
    /\ pc[p] \in {"verifyAgain", "publish"} => staging[p] = "whole"
    /\ pc[p] \in {"remove", "removing"} \cup Prepared =>
          \A q \in Processes \ {p} : staging[q] = "missing"
    /\ result[p] = "path" =>
          browser = "whole" /\ pc[p] \in {"cleanup", "release", "rmdir", "done", "killed"}

(* The inductive invariant: a lease excludes only together with what its   *)
(* holder knows, since a returned path outlives the lease.                 *)
IInv ==
    /\ TypeOK
    /\ reclaimed = {} => browser # "partial" /\ \A p \in Processes : Knows(p)

-----------------------------------------------------------------------------
(* The cache an earlier process left is a state the types describe. *)
LEMMA TypeInit == Init => TypeOK
BY InstallAssumption DEF Init, TypeOK, Trees, Labels, Leased, Ended

(* No call of the protocol leaves the types. *)
LEMMA TypeStep ==
    ASSUME TypeOK, [Next]_vars
    PROVE  TypeOK'
<1> USE InstallAssumption DEF TypeOK, Trees, Labels, Leased, Ended
<1>1. CASE UNCHANGED vars
      BY <1>1 DEF vars
<1>2. CASE GoStale
      BY <1>2 DEF GoStale
<1>3. CASE Finished
      BY <1>3 DEF Finished, vars
<1>4. ASSUME NEW p \in Processes, Work(p)
      PROVE  TypeOK'
  <2> USE DEF Goto, Conclude
  <2>1. CASE TryAcquire(p)
        BY <2>1 DEF TryAcquire
  <2>2. CASE Contend(p)
        BY <2>2 DEF Contend
  <2>3. CASE ObserveLock(p)
        BY <2>3 DEF ObserveLock
  <2>4. CASE Reclaim(p)
        BY <2>4 DEF Reclaim, Killed
  <2>5. CASE Poll(p)
        BY <2>5 DEF Poll
  <2>6. CASE Check(p)
        BY <2>6 DEF Check
  <2>7. CASE Verify(p, "verify", "sweep")
        BY <2>7 DEF Verify
  <2>8. CASE Sweep(p)
        BY <2>8 DEF Sweep
  <2>9. CASE BeginRemove(p)
        BY <2>9 DEF BeginRemove
  <2>10. CASE EndRemove(p)
        BY <2>10 DEF EndRemove
  <2>11. CASE Stage(p)
        BY <2>11 DEF Stage
  <2>12. CASE Download(p)
        BY <2>12 DEF Download
  <2>13. CASE Verify(p, "verifyAgain", "publish")
        BY <2>13 DEF Verify
  <2>14. CASE Publish(p)
        BY <2>14 DEF Publish
  <2>15. CASE Confirm(p)
        BY <2>15 DEF Confirm
  <2>16. CASE Cleanup(p)
        BY <2>16 DEF Cleanup
  <2>17. CASE Release(p)
        BY <2>17 DEF Release
  <2>18. CASE RemoveLock(p)
        BY <2>18 DEF RemoveLock
  <2> QED
        BY <1>4, <2>1, <2>2, <2>3, <2>4, <2>5, <2>6, <2>7, <2>8, <2>9, <2>10,
           <2>11, <2>12, <2>13, <2>14, <2>15, <2>16, <2>17, <2>18 DEF Work
<1>5. ASSUME NEW p \in Processes, StepFails(p)
      PROVE  TypeOK'
      BY <1>5 DEF StepFails, Conclude, Goto
<1>6. ASSUME NEW p \in Processes, Refresh(p)
      PROVE  TypeOK'
      BY <1>6 DEF Refresh
<1>7. ASSUME NEW p \in Processes, Kill(p)
      PROVE  TypeOK'
      BY <1>7 DEF Kill, Goto
<1> QED
      BY <1>1, <1>2, <1>3, <1>4, <1>5, <1>6, <1>7 DEF Next

(* Every variable keeps its type in every run of the protocol. *)
THEOREM TypeCorrect == Spec => []TypeOK
<1>1. Init => TypeOK
      BY TypeInit
<1>2. TypeOK /\ [Next]_vars => TypeOK'
      BY TypeStep
<1> QED
      BY <1>1, <1>2, PTL DEF Spec
-----------------------------------------------------------------------------
(* At the start nobody holds the lease and nobody was given a path. *)
LEMMA KnowsInit == Init => IInv
<1> SUFFICES ASSUME Init PROVE IInv
    OBVIOUS
<1>1. TypeOK
      BY TypeInit
<1>2. browser # "partial" /\ \A p \in Processes : Knows(p)
      BY DEF Init, Knows, Leased, Unusable, Prepared
<1> QED
      BY <1>1, <1>2 DEF IInv

(* Nobody forgets that a running owner has lost its lock. *)
LEMMA ReclaimedGrows ==
    ASSUME [Next]_vars
    PROVE  reclaimed \subseteq reclaimed'
BY DEF Next, vars, Finished, GoStale, Work, StepFails, Refresh, Kill, TryAcquire,
       Contend, ObserveLock, Reclaim, Poll, Check, Verify, Sweep, BeginRemove,
       EndRemove, Stage, Download, Publish, Confirm, Cleanup, Release, RemoveLock

(* Every call of one process preserves what every other one knows. *)
LEMMA KnowsStep ==
    ASSUME IInv, [Next]_vars
    PROVE  IInv'
<1>1. TypeOK /\ TypeOK'
      BY TypeStep DEF IInv
<1> SUFFICES ASSUME reclaimed' = {}
             PROVE  browser' # "partial" /\ \A q \in Processes : Knows(q)'
    BY <1>1 DEF IInv
<1>2. reclaimed = {}
      BY ReclaimedGrows
<1>3. browser # "partial" /\ \A q \in Processes : Knows(q)
      BY <1>2 DEF IInv
<1> USE <1>1, <1>2, <1>3, InstallAssumption
        DEF TypeOK, Knows, Trees, Labels, Leased, Ended, Unusable, Prepared
<1>4. CASE UNCHANGED vars
      BY <1>4 DEF vars
<1>5. CASE GoStale
      BY <1>5 DEF GoStale
<1>6. CASE Finished
      BY <1>6 DEF Finished, vars
<1>7. ASSUME NEW p \in Processes, Work(p)
      PROVE  browser' # "partial" /\ \A q \in Processes : Knows(q)'
  <2> USE DEF Goto, Conclude
  <2>1. CASE TryAcquire(p)
        BY <2>1 DEF TryAcquire
  <2>2. CASE Contend(p)
        BY <2>2 DEF Contend
  <2>3. CASE ObserveLock(p)
        BY <2>3 DEF ObserveLock
  <2>4. CASE Reclaim(p)
        BY <2>4 DEF Reclaim, Killed
  <2>5. CASE Poll(p)
        BY <2>5 DEF Poll
  <2>6. CASE Check(p)
        BY <2>6 DEF Check, IsExecutable
  <2>7. CASE Verify(p, "verify", "sweep")
        BY <2>7 DEF Verify, HoldsMarker
  <2>8. CASE Sweep(p)
        BY <2>8 DEF Sweep
  <2>9. CASE BeginRemove(p)
        BY <2>9 DEF BeginRemove, IsExecutable
  <2>10. CASE EndRemove(p)
        BY <2>10 DEF EndRemove
  <2>11. CASE Stage(p)
        BY <2>11 DEF Stage
  <2>12. CASE Download(p)
        BY <2>12 DEF Download
  <2>13. CASE Verify(p, "verifyAgain", "publish")
        BY <2>13 DEF Verify, HoldsMarker
  <2>14. CASE Publish(p)
        BY <2>14 DEF Publish
  <2>15. CASE Confirm(p)
        BY <2>15 DEF Confirm, IsExecutable
  <2>16. CASE Cleanup(p)
        BY <2>16 DEF Cleanup
  <2>17. CASE Release(p)
        BY <2>17 DEF Release, HoldsMarker
  <2>18. CASE RemoveLock(p)
        BY <2>18 DEF RemoveLock
  <2> QED
        BY <1>7, <2>1, <2>2, <2>3, <2>4, <2>5, <2>6, <2>7, <2>8, <2>9, <2>10,
           <2>11, <2>12, <2>13, <2>14, <2>15, <2>16, <2>17, <2>18 DEF Work
<1>8. ASSUME NEW p \in Processes, StepFails(p)
      PROVE  browser' # "partial" /\ \A q \in Processes : Knows(q)'
      BY <1>8 DEF StepFails, Conclude, Goto
<1>9. ASSUME NEW p \in Processes, Refresh(p)
      PROVE  browser' # "partial" /\ \A q \in Processes : Knows(q)'
      BY <1>9 DEF Refresh
<1>10. ASSUME NEW p \in Processes, Kill(p)
       PROVE  browser' # "partial" /\ \A q \in Processes : Knows(q)'
      BY <1>10 DEF Kill, Goto
<1> QED
      BY <1>4, <1>5, <1>6, <1>7, <1>8, <1>9, <1>10 DEF Next

(* What each process knows of the cache is so in every state. *)
THEOREM IInvHolds == Spec => []IInv
<1>1. Init => IInv
      BY KnowsInit
<1>2. IInv /\ [Next]_vars => IInv'
      BY KnowsStep
<1> QED
      BY <1>1, <1>2, PTL DEF Spec

-----------------------------------------------------------------------------
(* The lease excludes while nobody who runs has lost it: withInstallLock   *)
(* runs the installation of at most one process at a time.                 *)
THEOREM LeaseExcludesHolds == Spec => []LeaseExcludes
<1>1. IInv => LeaseExcludes
      BY DEF IInv, Knows, LeaseExcludes, HoldsMarker
<1> QED
      BY <1>1, IInvHolds, PTL

(* A path that ensureBrowser returned stays the path of a whole browser    *)
(* while nobody who runs has lost the lock.                                *)
THEOREM ReturnedBrowserStaysHolds == Spec => []ReturnedBrowserStays
<1>1. IInv => ReturnedBrowserStays
      BY DEF IInv, Knows, ReturnedBrowserStays
<1> QED
      BY <1>1, IInvHolds, PTL

(* What installBrowser verified is what it publishes: removeAbandonedStaging*)
(* of another process never sweeps it while nobody has lost the lock.      *)
THEOREM StagingIsPrivateHolds == Spec => []StagingIsPrivate
<1>1. IInv => StagingIsPrivate
      BY DEF IInv, Knows, StagingIsPrivate, Prepared
<1> QED
      BY <1>1, IInvHolds, PTL

(* An owner that carries on after its lock was reclaimed leaves the lock   *)
(* of its successor alone: releaseInstallLock and refreshInstallLease name *)
(* the marker of their own process.                                        *)
THEOREM SuccessorIsSafeHolds == Spec => SuccessorIsSafe
<1> DEFINE Safe(p) ==
        lock = p =>
          /\ lock' # p =>
                \/ pc[p] = "release" /\ pc'[p] = "rmdir"
                \/ \E q \in Processes : pc[q] = "reclaim" /\ pc'[q] = "wait"
          /\ lock' = p /\ stale /\ ~stale' => pc[p] \in Leased
<1>1. ASSUME TypeOK, [Next]_vars, NEW p \in Processes
      PROVE  Safe(p)
  <2> USE <1>1, InstallAssumption DEF TypeOK, Leased, Goto, Conclude
  <2>1. CASE UNCHANGED vars \/ Finished
        BY <2>1 DEF vars, Finished
  <2>2. CASE GoStale
        BY <2>2 DEF GoStale
  <2>3. ASSUME NEW q \in Processes, Work(q)
        PROVE  Safe(p)
    <3>1. CASE TryAcquire(q) \/ Contend(q) \/ ObserveLock(q)
          BY <3>1 DEF TryAcquire, Contend, ObserveLock
    <3>2. CASE Reclaim(q)
          BY <3>2 DEF Reclaim
    <3>3. CASE Verify(q, "verify", "sweep") \/ Verify(q, "verifyAgain", "publish")
          BY <3>3 DEF Verify, HoldsMarker
    <3>4. CASE Release(q)
          BY <3>4 DEF Release, HoldsMarker
    <3>5. CASE RemoveLock(q)
          BY <3>5 DEF RemoveLock
    <3>6. CASE UNCHANGED <<lock, stale>>
          BY <3>6
    <3> QED
          BY <2>3, <3>1, <3>2, <3>3, <3>4, <3>5, <3>6
             DEF Work, Poll, Check, Sweep, BeginRemove, EndRemove, Stage, Download,
                 Publish, Confirm, Cleanup
  <2>4. ASSUME NEW q \in Processes, StepFails(q) \/ Refresh(q) \/ Kill(q)
        PROVE  Safe(p)
        BY <2>4 DEF StepFails, Refresh, Kill, HoldsMarker
  <2> QED
        BY <2>1, <2>2, <2>3, <2>4 DEF Next
<1>2. TypeOK /\ [Next]_vars => [\A p \in Processes : Safe(p)]_vars
      BY <1>1
<1> QED
      BY <1>2, TypeCorrect, PTL DEF Spec, SuccessorIsSafe

-----------------------------------------------------------------------------
(* The tree of a document, from its first tag to its end.                *)

(* The document is a tree in document order, at every point of its       *)
(* parse.                                                                *)
TreeInv ==
    /\ nodes \in Seq(Range(nodes))
    /\ IsTree(nodes, open)
    /\ \A i \in DOMAIN nodes : Kind(i) \in DOMAIN Offered /\ (Kind(i) = "text" => nodes[i].field = "none")

(* What is appended to a sequence stands behind all else. *)
LEMMA AppendedNode ==
    ASSUME NEW s, s \in Seq(Range(s)), NEW x
    PROVE  /\ Append(s, x) \in Seq(Range(Append(s, x)))
           /\ Len(Append(s, x)) = Len(s) + 1
           /\ DOMAIN Append(s, x) = 1 .. Len(s) + 1 /\ DOMAIN s = 1 .. Len(s) /\ Len(s) \in Nat
           /\ \A i \in 1 .. Len(s) : Append(s, x)[i] = s[i]
           /\ Append(s, x)[Len(s) + 1] = x
<1> DEFINE t == Append(s, x)
<1>1. s \in Seq(Range(s) \cup {x})
  OBVIOUS
<1>2. t \in Seq(Range(s) \cup {x}) /\ Len(t) = Len(s) + 1 /\ DOMAIN t = 1 .. Len(s) + 1
      /\ \A i \in 1 .. Len(s) : t[i] = s[i]
  BY <1>1
<1>3. t[Len(s) + 1] = x /\ Len(s) \in Nat /\ DOMAIN s = 1 .. Len(s)
  BY <1>1
<1> HIDE DEF t
<1>4. t \in Seq(Range(t))
  <2>1. \A i \in 1 .. Len(t) : t[i] \in Range(t)
    BY <1>2, <1>3 DEF Range
  <2>2. t = [i \in 1 .. Len(t) |-> t[i]] /\ Len(t) \in Nat
    BY <1>2, <1>3
  <2> QED
    BY <2>1, <2>2
<1> QED
  BY <1>2, <1>3, <1>4 DEF t

(* A tag that is written where the document is open keeps the tree,      *)
(* whether it opens an element or not.                                   *)
LEMMA OpenedNode ==
    ASSUME TreeInv, NEW x, x.within = open, x.kind \in DOMAIN Offered,
           x.kind = "text" => x.field = "none",
           nodes' = Append(nodes, x),
           \/ open' = open
           \/ open' = Append(open, Len(nodes) + 1)
    PROVE  TreeInv'
<1> DEFINE n == Len(nodes)
<1>1. /\ nodes' \in Seq(Range(nodes')) /\ Len(nodes') = n + 1
      /\ DOMAIN nodes' = 1 .. n + 1 /\ DOMAIN nodes = 1 .. n /\ n \in Nat
      /\ \A i \in 1 .. n : nodes'[i] = nodes[i]
      /\ nodes'[n + 1] = x
  BY AppendedNode DEF TreeInv
<1> HIDE DEF n
<1>2. /\ open \in Seq(1 .. n)
      /\ open # <<>> => open = Append(nodes[Last(open)].within, Last(open))
      /\ \A a \in Range(open) : a \in 1 .. n /\ \A j \in a + 1 .. n : a \in Range(nodes[j].within)
  <2>1. open \in Seq(1 .. n)
    BY DEF TreeInv, IsTree, Leads, n
  <2>0. \A T : \A s \in Seq(T) : \A i \in DOMAIN s : s[i] \in T
    OBVIOUS
  <2>2. \A i \in DOMAIN open : open[i] \in 1 .. n
    BY <2>0, <2>1, Zenon
  <2>3. \A a \in Range(open) : a \in 1 .. n
    BY <2>2, Zenon DEF Range
  <2> QED
    BY <2>1, <2>3 DEF TreeInv, IsTree, Leads, n
<1>3. open # <<>> => Last(open) \in 1 .. n
  <2>1. \A T : \A s \in Seq(T) : s # <<>> => s[Len(s)] \in T
    OBVIOUS
  <2> QED
    BY <1>2, <2>1 DEF Last
<1>4. ASSUME NEW i \in 1 .. n
      PROVE  /\ nodes'[i].within \in Seq(1 .. i - 1)
             /\ nodes'[i].within # <<>> =>
                  nodes'[i].within = Append(nodes'[Last(nodes'[i].within)].within, Last(nodes'[i].within))
             /\ \A a \in Range(nodes'[i].within) : \A j \in a + 1 .. i : a \in Range(nodes'[j].within)
  <2> DEFINE w == nodes[i].within
  <2>1. w \in Seq(1 .. i - 1) /\ (w # <<>> => w = Append(nodes[Last(w)].within, Last(w)))
        /\ \A a \in Range(w) : \A j \in a + 1 .. i : a \in Range(nodes[j].within)
    BY <1>1 DEF TreeInv, IsTree, Leads
  <2>2. nodes'[i] = nodes[i]
    BY <1>1
  <2> HIDE DEF w
  <2>3. w # <<>> => Last(w) \in 1 .. n /\ nodes'[Last(w)] = nodes[Last(w)]
    BY <1>1, <2>1 DEF Last
  <2>4. \A a \in Range(w) : a \in 1 .. i - 1
    BY <2>1 DEF Range
  <2>5. \A a \in Range(w) : \A j \in a + 1 .. i : nodes'[j] = nodes[j]
    BY <1>1, <2>4
  <2>6. nodes'[i].within = w
    BY <2>2 DEF w
  <2> QED
    BY <2>1, <2>3, <2>5, <2>6
<1>5. /\ x.within \in Seq(1 .. n)
      /\ x.within # <<>> => x.within = Append(nodes'[Last(x.within)].within, Last(x.within))
      /\ \A a \in Range(x.within) : a \in 1 .. n /\ \A j \in a + 1 .. n + 1 : a \in Range(nodes'[j].within)
  <2>1. \A a \in Range(open) : \A j \in a + 1 .. n : nodes'[j] = nodes[j]
    BY <1>1, <1>2
  <2>2. \A a \in Range(open) : \A j \in a + 1 .. n + 1 : j = n + 1 \/ j \in a + 1 .. n
    BY <1>1, <1>2
  <2>3. open # <<>> => nodes'[Last(open)] = nodes[Last(open)]
    BY <1>1, <1>3
  <2> QED
    BY <1>1, <1>2, <2>1, <2>2, <2>3
<1>6. \A i \in DOMAIN nodes' :
         /\ Leads(nodes', nodes'[i].within, i - 1)
         /\ \A a \in Range(nodes'[i].within) : \A j \in a + 1 .. i : a \in Range(nodes'[j].within)
  <2> SUFFICES ASSUME NEW i \in 1 .. n + 1
               PROVE  /\ Leads(nodes', nodes'[i].within, i - 1)
                      /\ \A a \in Range(nodes'[i].within) :
                            \A j \in a + 1 .. i : a \in Range(nodes'[j].within)
    BY <1>1
  <2>1. CASE i \in 1 .. n
    BY <1>4, <2>1 DEF Leads
  <2>2. CASE i = n + 1
    <3>1. i - 1 = n
      BY <1>1, <2>2
    <3> QED
      BY <1>1, <1>5, <2>2, <3>1 DEF Leads
  <2>3. i \in 1 .. n \/ i = n + 1
    BY <1>1
  <2> QED
    BY <2>1, <2>2, <2>3
<1>7. /\ Leads(nodes', open', n + 1)
      /\ \A a \in Range(open') : \A j \in a + 1 .. n + 1 : a \in Range(nodes'[j].within)
  <2>1. CASE open' = open
    <3>1. open \in Seq(1 .. n + 1)
      BY <1>1, <1>2
    <3> QED
      BY <1>5, <2>1, <3>1 DEF Leads
  <2>2. CASE open' = Append(open, n + 1)
    <3>1. open' \in Seq(1 .. n + 1) /\ Last(open') = n + 1
      BY <1>1, <1>2, <2>2 DEF Last
    <3>2. Leads(nodes', open', n + 1)
      BY <1>1, <2>2, <3>1 DEF Leads
    <3>3. \A a \in Range(open') : a \in Range(open) \/ a = n + 1
      BY <1>1, <1>2, <2>2 DEF Range
    <3>4. \A j \in (n + 1) + 1 .. n + 1 : FALSE
      BY <1>1
    <3> QED
      BY <1>5, <3>2, <3>3, <3>4
  <2> QED
    BY <2>1, <2>2 DEF n
<1>8. \A i \in DOMAIN nodes' : nodes'[i].kind \in DOMAIN Offered /\ (nodes'[i].kind = "text" => nodes'[i].field = "none")
  <2>1. \A i \in 1 .. n : nodes'[i].kind \in DOMAIN Offered /\ (nodes'[i].kind = "text" => nodes'[i].field = "none")
    BY <1>1 DEF TreeInv, Kind
  <2> QED
    BY <1>1, <2>1
<1> QED
  BY <1>1, <1>6, <1>7, <1>8 DEF TreeInv, IsTree, Kind

(* A closing tag keeps the tree.                                         *)
LEMMA ClosedNode ==
    ASSUME TreeInv, open # <<>>, open' = Front(open), nodes' = nodes
    PROVE  TreeInv'
<1> DEFINE n == Len(nodes)
           p == Last(open)
           w == nodes[p].within
<1>1. n \in Nat /\ DOMAIN nodes = 1 .. n
  BY DEF TreeInv
<1>2. open \in Seq(1 .. n) /\ open = Append(w, p)
      /\ \A a \in Range(open) : \A j \in a + 1 .. n : a \in Range(nodes[j].within)
  BY DEF TreeInv, IsTree, Leads
<1>3. p \in 1 .. n
  BY <1>2 DEF Last
<1>4. w \in Seq(1 .. p - 1) /\ (w # <<>> => w = Append(nodes[Last(w)].within, Last(w)))
  BY <1>1, <1>3 DEF TreeInv, IsTree, Leads
<1> HIDE DEF n, p, w
<1>5. open' = w
  <2>1. w \in Seq(1 .. n) /\ Front(Append(w, p)) = SubSeq(Append(w, p), 1, Len(w)) /\ Len(w) \in Nat
    BY <1>1, <1>3, <1>4 DEF Front
  <2>2. SubSeq(Append(w, p), 1, Len(w)) = w
    BY <1>3, <2>1
  <2> QED
    BY <1>2, <2>1, <2>2
<1>6. w \in Seq(1 .. n)
  BY <1>1, <1>3, <1>4
<1>7. \A a \in Range(w) : a \in Range(open)
  BY <1>2, <1>3, <1>6 DEF Range
<1>8. Leads(nodes, w, n)
  BY <1>4, <1>6 DEF Leads
<1> QED
  BY <1>2, <1>5, <1>7, <1>8 DEF TreeInv, IsTree, Kind, n

(* So does the end of the document.                                      *)
LEMMA EmptiedStack ==
    ASSUME TreeInv, open' = <<>> \/ open' = open, nodes' = nodes
    PROVE  TreeInv'
<1>1. Leads(nodes, <<>>, Len(nodes)) /\ Range(<<>>) = {}
  BY DEF Leads, Range
<1> QED
  BY <1>1 DEF TreeInv, IsTree, Kind

(* Every beginning is a tree.                                            *)
LEMMA TreeInitial == PageInit => TreeInv
BY PreamblesAssumption DEF PageInit, WritingInit, TreeInv, Kind, IsTag

(* No step of the parser, and none after it, leaves the tree. *)
LEMMA TreeStep ==
    ASSUME TreeInv, [PageNext]_documentVars
    PROVE  TreeInv'
<1>1. Context \in DOMAIN Offered
  <2>1. CASE open = <<>>
    BY <2>1, OfferedAssumption DEF Context
  <2>2. CASE open # <<>>
    <3>1. Last(open) \in DOMAIN nodes
      BY <2>2 DEF TreeInv, IsTree, Leads, Last
    <3> QED
      BY <2>2, <3>1 DEF TreeInv, Context
  <2> QED
    BY <2>1, <2>2
<1>2. ASSUME NEW tag \in Offered[Context]
      PROVE  LET x == Placed(tag)
             IN x.within = open /\ x.kind \in DOMAIN Offered /\ (x.kind = "text" => x.field = "none")
  BY <1>1, OfferedAssumption DEF IsTag, Placed
<1>3. CASE UNCHANGED documentVars
  BY <1>3, EmptiedStack DEF documentVars, screenplayVars
<1>4. CASE Compile
  BY <1>4, EmptiedStack DEF Compile
<1>5. ASSUME NEW selection, NEW browserVideos, LoadRegion(selection, browserVideos)
      PROVE  TreeInv'
  BY <1>5, EmptiedStack DEF LoadRegion
<1>6. CASE Write
  <2>1. ASSUME NEW tag \in Offered[Context], ReachLimit(tag) PROVE TreeInv'
    BY <2>1, EmptiedStack DEF ReachLimit
  <2>2. ASSUME NEW tag \in Offered[Context], Text(tag) PROVE TreeInv'
    BY <1>2, <2>2, OpenedNode DEF Text
  <2>3. ASSUME NEW tag \in Offered[Context], NEW selfClosing, StartTag(tag, selfClosing) PROVE TreeInv'
    BY <1>2, <2>3, OpenedNode DEF StartTag
  <2>4. ASSUME NEW kind, EndTag(kind) PROVE TreeInv'
    BY <2>4, ClosedNode, EmptiedStack DEF EndTag
  <2>5. CASE EndOfFile
    BY <2>5, EmptiedStack DEF EndOfFile
  <2> QED
    BY <1>6, <2>1, <2>2, <2>3, <2>4, <2>5 DEF Write
<1> QED
  BY <1>3, <1>4, <1>5, <1>6 DEF PageNext

-----------------------------------------------------------------------------
(* Sequences in document order, and what the operators on sequences      *)
(* make of them.                                                         *)

(* Induction, for a set of positions.                                      *)
LEMMA Positions ==
    ASSUME NEW n \in Nat, NEW P, n > 0 => 1 \in P,
           \A i \in 1 .. n - 1 : i \in P => i + 1 \in P
    PROVE  1 .. n \subseteq P
<1> DEFINE Wrong == (1 .. n) \ P
<1>1. SUFFICES ASSUME Wrong # {} PROVE FALSE
  OBVIOUS
<1>2. Wrong \subseteq Nat
  OBVIOUS
<1>3. PICK k \in Wrong : \A j \in Wrong : ~(<<j, k>> \in OpToRel(<, Nat))
  BY <1>1, <1>2, WFMin, NatLessThanWellFounded, Zenon
<1>4. k \in 1 .. n /\ k \notin P
  OBVIOUS
<1>5. \A j \in Nat : j < k => j \notin Wrong
  BY <1>2, <1>3, <1>4, Zenon DEF OpToRel
<1>6. k # 1 /\ k - 1 \in 1 .. n - 1
  BY <1>4
<1>7. k - 1 \in P
  BY <1>5, <1>6
<1> QED
  BY <1>4, <1>6, <1>7

(* The beginnings of a flattened sequence of sequences.                    *)
Beginnings(ss, f, n) == f = [i \in 1 .. n |-> IF i = 1 THEN ss[i] ELSE f[i - 1] \o ss[i]]

(* They exist, however many there are.                                   *)
LEMMA BeginningsExist ==
    ASSUME NEW ss, NEW n \in Nat \ {0}
    PROVE  \E f : Beginnings(ss, f, n)
<1> DEFINE P == {m \in Nat : \E f : Beginnings(ss, f, m)}
<1>1. Beginnings(ss, [i \in 1 .. 1 |-> ss[i]], 1)
  BY DEF Beginnings
<1>2. ASSUME NEW m \in 1 .. n - 1, NEW f, Beginnings(ss, f, m)
      PROVE  \E g : Beginnings(ss, g, m + 1)
  <2> DEFINE g == [i \in 1 .. m + 1 |-> IF i = m + 1 THEN f[m] \o ss[m + 1] ELSE f[i]]
             e(h, i) == IF i = 1 THEN ss[i] ELSE h[i - 1] \o ss[i]
  <2>1. \A i \in 1 .. m : f[i] = e(f, i)
    <3>1. f = [i \in 1 .. m |-> e(f, i)]
      BY <1>2 DEF Beginnings
    <3> HIDE DEF e
    <3> QED
      BY <3>1
  <2>2. \A i \in 1 .. m + 1 : g[i] = e(g, i)
    <3> SUFFICES ASSUME NEW i \in 1 .. m + 1 PROVE g[i] = e(g, i)
      OBVIOUS
    <3>1. CASE i = m + 1
      <4>1. i - 1 = m /\ m \in 1 .. m + 1 /\ m # m + 1 /\ i # 1
        BY <3>1
      <4>2. g[m] = f[m] /\ g[i] = f[m] \o ss[m + 1]
        BY <3>1, <4>1
      <4> QED
        BY <3>1, <4>1, <4>2
    <3>2. CASE i = 1 /\ i # m + 1
      BY <2>1, <3>2
    <3>3. CASE i # 1 /\ i # m + 1
      <4>1. i - 1 \in 1 .. m /\ i - 1 # m + 1 /\ i \in 1 .. m
        BY <3>3
      <4>2. g[i] = f[i] /\ g[i - 1] = f[i - 1]
        BY <4>1
      <4> QED
        BY <2>1, <3>3, <4>1, <4>2
    <3> QED
      BY <3>1, <3>2, <3>3
  <2>3. g = [i \in 1 .. m + 1 |-> e(g, i)]
    <3>1. g = [i \in 1 .. m + 1 |-> g[i]]
      OBVIOUS
    <3> HIDE DEF g, e
    <3> QED
      BY <2>2, <3>1
  <2> QED
    BY <2>3 DEF Beginnings
<1>3. 1 \in P /\ \A m \in 1 .. n - 1 : m \in P => m + 1 \in P
  BY <1>1, <1>2
<1> HIDE DEF P
<1>4. n \in P
  BY <1>3, Positions
<1> QED
  BY <1>4 DEF P

(* What FlattenSeq of the community modules computes.                      *)
LEMMA Flattens ==
    ASSUME NEW ss, Len(ss) \in Nat \ {0}
    PROVE  \E f : /\ f[1] = ss[1]
                  /\ \A i \in 2 .. Len(ss) : f[i] = f[i - 1] \o ss[i]
                  /\ FlattenSeq(ss) = f[Len(ss)]
<1>1. \E f : Beginnings(ss, f, Len(ss))
  BY BeginningsExist
<1> DEFINE f == CHOOSE f : Beginnings(ss, f, Len(ss))
           e(h, i) == IF i = 1 THEN ss[i] ELSE h[i - 1] \o ss[i]
<1>2. Beginnings(ss, f, Len(ss))
  BY <1>1
<1>3. FlattenSeq(ss) = f[Len(ss)]
  BY DEF FlattenSeq, Beginnings
<1> HIDE DEF f
<1>4. f = [i \in 1 .. Len(ss) |-> e(f, i)]
  BY <1>2 DEF Beginnings
<1> HIDE DEF e
<1>5. \A i \in 1 .. Len(ss) : f[i] = e(f, i)
  BY <1>4
<1>6. f[1] = ss[1]
  <2>1. 1 \in 1 .. Len(ss)
    OBVIOUS
  <2> QED
    BY <1>5, <2>1 DEF e
<1>7. ASSUME NEW i \in 2 .. Len(ss) PROVE f[i] = f[i - 1] \o ss[i]
  <2>1. i \in 1 .. Len(ss) /\ i # 1
    OBVIOUS
  <2> QED
    BY <1>5, <2>1 DEF e
<1> QED
  BY <1>3, <1>6, <1>7

(* A sequence of nodes in document order.                                *)
Increasing(s) == s \in Seq(Nat) /\ \A i, j \in DOMAIN s : i < j => s[i] < s[j]

(* What it is to be increasing, in one place for the provers.            *)
LEMMA Monotone ==
    ASSUME NEW s, Increasing(s)
    PROVE  /\ Len(s) \in Nat /\ DOMAIN s = 1 .. Len(s)
           /\ \A i \in 1 .. Len(s) : s[i] \in Nat /\ s[i] \in Range(s)
           /\ \A i, j \in 1 .. Len(s) : (i < j <=> s[i] < s[j]) /\ (i <= j <=> s[i] <= s[j])
           /\ \A x \in Range(s) : x \in Nat /\ \E i \in 1 .. Len(s) : s[i] = x
<1>1. /\ Len(s) \in Nat /\ DOMAIN s = 1 .. Len(s) /\ \A i \in 1 .. Len(s) : s[i] \in Nat
      /\ \A i, j \in 1 .. Len(s) : i < j => s[i] < s[j]
  BY DEF Increasing
<1>2. ASSUME NEW i \in 1 .. Len(s), NEW j \in 1 .. Len(s)
      PROVE  (i < j <=> s[i] < s[j]) /\ (i <= j <=> s[i] <= s[j])
  <2>1. i < j \/ i = j \/ j < i
    BY <1>1
  <2>2. s[i] \in Nat /\ s[j] \in Nat /\ (i < j => s[i] < s[j]) /\ (j < i => s[j] < s[i])
    BY <1>1
  <2> QED
    BY <1>1, <2>1, <2>2
<1> QED
  BY <1>1, <1>2 DEF Range

(* Of two increasing sequences with the same members one begins with     *)
(* the other.                                                            *)
LEMMA SameUpTo ==
    ASSUME NEW s, NEW t, Increasing(s), Increasing(t), Range(s) = Range(t)
    PROVE  Len(s) <= Len(t) /\ \A i \in 1 .. Len(s) : s[i] = t[i]
<1> DEFINE P == {i \in Nat : i <= Len(t) /\ s[i] = t[i]}
<1>1. /\ Len(s) \in Nat /\ \A i \in 1 .. Len(s) : s[i] \in Nat /\ s[i] \in Range(s)
      /\ \A i, j \in 1 .. Len(s) : (i < j <=> s[i] < s[j]) /\ (i <= j <=> s[i] <= s[j])
      /\ \A x \in Range(s) : \E i \in 1 .. Len(s) : s[i] = x
  BY Monotone
<1>2. /\ Len(t) \in Nat /\ \A i \in 1 .. Len(t) : t[i] \in Nat /\ t[i] \in Range(s)
      /\ \A i, j \in 1 .. Len(t) : (i < j <=> t[i] < t[j]) /\ (i <= j <=> t[i] <= t[j])
      /\ \A x \in Range(s) : \E i \in 1 .. Len(t) : t[i] = x
  BY Monotone
<1>3. ASSUME Len(s) > 0 PROVE 1 \in P
  <2>1. 1 \in 1 .. Len(s)
    BY <1>1, <1>3
  <2>2. PICK j \in 1 .. Len(t) : t[j] = s[1]
    BY <1>1, <1>2, <2>1
  <2>3. 1 \in 1 .. Len(t) /\ 1 <= j
    BY <1>2
  <2>4. PICK i \in 1 .. Len(s) : s[i] = t[1]
    BY <1>1, <1>2, <2>3
  <2>5. s[1] <= s[i] /\ t[1] <= t[j]
    BY <1>1, <1>2, <2>1, <2>3
  <2>6. s[1] \in Nat /\ t[1] \in Nat
    BY <1>1, <1>2, <2>1, <2>3
  <2>7. s[1] = t[1]
    BY <2>2, <2>4, <2>5, <2>6
  <2> QED
    BY <2>3, <2>7
<1>4. ASSUME NEW k \in 1 .. Len(s) - 1, k \in P PROVE k + 1 \in P
  <2>0. k \in 1 .. Len(s) /\ k + 1 \in 1 .. Len(s) /\ k \in 1 .. Len(t) /\ s[k] = t[k] /\ k < k + 1
    BY <1>1, <1>2, <1>4
  <2>1. PICK j \in 1 .. Len(t) : t[j] = s[k + 1]
    BY <1>1, <1>2, <2>0
  <2>2. t[k] < t[j]
    BY <1>1, <2>0, <2>1
  <2>3. k < j
    BY <1>2, <2>0, <2>2
  <2>4. k + 1 \in 1 .. Len(t) /\ k + 1 <= j
    BY <1>2, <2>3
  <2>5. PICK i \in 1 .. Len(s) : s[i] = t[k + 1]
    BY <1>1, <1>2, <2>4
  <2>6. s[k] < s[i]
    BY <1>2, <2>0, <2>4, <2>5
  <2>7. k < i
    BY <1>1, <2>0, <2>6
  <2>8. k + 1 <= i
    BY <2>7
  <2>9. s[k + 1] <= s[i] /\ t[k + 1] <= t[j]
    BY <1>1, <1>2, <2>0, <2>4, <2>8
  <2>10. s[k + 1] \in Nat /\ t[k + 1] \in Nat
    BY <1>1, <1>2, <2>0, <2>4
  <2>11. s[k + 1] = t[k + 1]
    BY <2>1, <2>5, <2>9, <2>10
  <2> QED
    BY <2>4, <2>11
<1>5. 1 .. Len(s) \subseteq P
  <2>1. (Len(s) > 0 => 1 \in P) /\ \A i \in 1 .. Len(s) - 1 : i \in P => i + 1 \in P
    BY <1>3, <1>4
  <2> HIDE DEF P
  <2> QED
    BY <1>1, <2>1, Positions
<1>6. Len(s) <= Len(t)
  <2>1. CASE Len(s) = 0
    BY <1>2, <2>1
  <2>2. CASE Len(s) > 0
    <3>1. Len(s) \in P
      BY <1>1, <1>5, <2>2
    <3> QED
      BY <3>1
  <2> QED
    BY <1>1, <2>1, <2>2
<1> QED
  BY <1>5, <1>6

(* An increasing sequence is known by its members.                          *)
LEMMA SameSequence ==
    ASSUME NEW s, NEW t, Increasing(s), Increasing(t), Range(s) = Range(t)
    PROVE  s = t
<1>1. Len(s) <= Len(t) /\ \A i \in 1 .. Len(s) : s[i] = t[i]
  BY SameUpTo
<1>2. Len(t) <= Len(s)
  BY SameUpTo
<1>3. Len(s) \in Nat /\ Len(t) \in Nat /\ s \in Seq(Nat) /\ t \in Seq(Nat)
  BY DEF Increasing
<1>4. Len(s) = Len(t)
  BY <1>1, <1>2, <1>3
<1>5. s = [i \in 1 .. Len(s) |-> s[i]] /\ t = [i \in 1 .. Len(t) |-> t[i]]
  BY <1>3
<1> QED
  BY <1>1, <1>4, <1>5

(* The next member of a sequence, behind all that come before it.          *)
LEMMA NextMember ==
    ASSUME NEW s, NEW t, Increasing(s), Increasing(t), NEW e \in Range(t),
           Range(s) = {x \in Range(t) : x < e}
    PROVE  Len(s) + 1 \in DOMAIN t /\ t[Len(s) + 1] = e
<1>1. /\ Len(t) \in Nat /\ DOMAIN t = 1 .. Len(t)
      /\ \A i \in 1 .. Len(t) : t[i] \in Nat /\ t[i] \in Range(t)
      /\ \A i, j \in 1 .. Len(t) : (i < j <=> t[i] < t[j]) /\ (i <= j <=> t[i] <= t[j])
      /\ \A x \in Range(t) : x \in Nat /\ \E i \in 1 .. Len(t) : t[i] = x
  BY Monotone
<1>2. PICK p \in 1 .. Len(t) : t[p] = e
  BY <1>1
<1> DEFINE u == [i \in 1 .. p - 1 |-> t[i]]
<1>3. u \in Seq(Nat) /\ Len(u) = p - 1 /\ DOMAIN u = 1 .. p - 1 /\ \A i \in 1 .. p - 1 : u[i] = t[i] /\ i \in 1 .. Len(t)
  <2>1. \A i \in 1 .. p - 1 : i \in 1 .. Len(t)
    BY <1>1
  <2>2. p - 1 \in Nat /\ u \in [1 .. p - 1 -> Nat]
    BY <1>1, <2>1
  <2> QED
    BY <2>1, <2>2
<1> HIDE DEF u
<1>4. Increasing(u)
  BY <1>1, <1>3 DEF Increasing
<1>5. Range(u) = {x \in Range(t) : x < e}
  <2>1. ASSUME NEW x \in Range(u) PROVE x \in Range(t) /\ x < e
    <3>1. PICK i \in 1 .. p - 1 : x = t[i]
      BY <1>3, <2>1 DEF Range
    <3>2. i \in 1 .. Len(t) /\ i < p
      BY <1>1, <1>3
    <3> QED
      BY <1>1, <1>2, <3>1, <3>2
  <2>2. ASSUME NEW x \in Range(t), x < e PROVE x \in Range(u)
    <3>1. PICK i \in 1 .. Len(t) : t[i] = x
      BY <1>1
    <3>2. i < p
      BY <1>1, <1>2, <2>2, <3>1
    <3>3. i \in 1 .. p - 1
      BY <3>2
    <3>4. x = u[i] /\ i \in DOMAIN u
      BY <1>3, <3>1, <3>3
    <3> QED
      BY <3>4 DEF Range
  <2> QED
    BY <2>1, <2>2
<1>6. s = u
  BY <1>4, <1>5, SameSequence
<1> QED
  BY <1>1, <1>2, <1>3, <1>6

(* One sequence after the other.                                            *)
LEMMA Joined ==
    ASSUME NEW s, NEW t, Increasing(s), Increasing(t), \A x \in Range(s), y \in Range(t) : x < y
    PROVE  Increasing(s \o t) /\ Range(s \o t) = Range(s) \cup Range(t)
<1>1. /\ Len(s) \in Nat /\ Len(t) \in Nat /\ s \in Seq(Nat) /\ t \in Seq(Nat)
      /\ \A i, j \in 1 .. Len(s) : i < j => s[i] < s[j]
      /\ \A i, j \in 1 .. Len(t) : i < j => t[i] < t[j]
  BY DEF Increasing
<1> DEFINE u == s \o t
<1>2. /\ u \in Seq(Nat) /\ Len(u) = Len(s) + Len(t) /\ DOMAIN u = 1 .. Len(s) + Len(t)
      /\ \A i \in 1 .. Len(s) : u[i] = s[i]
      /\ \A i \in Len(s) + 1 .. Len(s) + Len(t) : u[i] = t[i - Len(s)] /\ i - Len(s) \in 1 .. Len(t)
  BY <1>1
<1> HIDE DEF u
<1>3. (\A i \in 1 .. Len(s) : s[i] \in Range(s)) /\ (\A i \in 1 .. Len(t) : t[i] \in Range(t))
  BY <1>1 DEF Range
<1>4. ASSUME NEW i \in DOMAIN u, NEW j \in DOMAIN u, i < j PROVE u[i] < u[j]
  <2>1. i \in 1 .. Len(s) \/ i \in Len(s) + 1 .. Len(s) + Len(t)
    BY <1>1, <1>2
  <2>2. j \in 1 .. Len(s) \/ j \in Len(s) + 1 .. Len(s) + Len(t)
    BY <1>1, <1>2
  <2>3. CASE j \in 1 .. Len(s)
    <3>1. i \in 1 .. Len(s)
      BY <1>1, <1>4, <2>1, <2>3
    <3> QED
      BY <1>1, <1>2, <1>4, <2>3, <3>1
  <2>4. CASE i \in 1 .. Len(s) /\ j \in Len(s) + 1 .. Len(s) + Len(t)
    BY <1>2, <1>3, <2>4
  <2>5. CASE i \in Len(s) + 1 .. Len(s) + Len(t) /\ j \in Len(s) + 1 .. Len(s) + Len(t)
    <3>1. i - Len(s) < j - Len(s)
      BY <1>1, <1>4, <2>5
    <3>2. u[i] = t[i - Len(s)] /\ u[j] = t[j - Len(s)] /\ i - Len(s) \in 1 .. Len(t) /\ j - Len(s) \in 1 .. Len(t)
      BY <1>2, <2>5
    <3>3. \A a, b \in DOMAIN t : a < b => t[a] < t[b]
      BY DEF Increasing
    <3>5. DOMAIN t = 1 .. Len(t)
      BY <1>1
    <3>4. t[i - Len(s)] < t[j - Len(s)]
      BY <3>1, <3>2, <3>3, <3>5
    <3> QED
      BY <3>2, <3>4
  <2> QED
    BY <2>1, <2>2, <2>3, <2>4, <2>5
<1>5. Range(u) = Range(s) \cup Range(t)
  <2>1. ASSUME NEW i \in DOMAIN u PROVE u[i] \in Range(s) \cup Range(t)
    <3>1. i \in 1 .. Len(s) \/ i \in Len(s) + 1 .. Len(s) + Len(t)
      BY <1>1, <1>2
    <3> QED
      BY <1>2, <1>3, <3>1
  <2>2. ASSUME NEW i \in 1 .. Len(s) PROVE i \in DOMAIN u /\ u[i] = s[i]
    BY <1>1, <1>2
  <2>3. ASSUME NEW i \in 1 .. Len(t) PROVE i + Len(s) \in DOMAIN u /\ u[i + Len(s)] = t[i]
    <3>1. i + Len(s) \in Len(s) + 1 .. Len(s) + Len(t) /\ (i + Len(s)) - Len(s) = i
      BY <1>1
    <3>2. i + Len(s) \in 1 .. Len(s) + Len(t)
      BY <1>1
    <3>3. u[i + Len(s)] = t[(i + Len(s)) - Len(s)]
      BY <1>2, <3>1
    <3> QED
      BY <1>2, <3>1, <3>2, <3>3
  <2>4. DOMAIN s = 1 .. Len(s) /\ DOMAIN t = 1 .. Len(t)
    BY <1>1
  <2> QED
    BY <2>1, <2>2, <2>3, <2>4 DEF Range
<1> QED
  BY <1>2, <1>4, <1>5 DEF Increasing, u

(* One node is in order.                                                 *)
LEMMA Single ==
    ASSUME NEW x \in Nat
    PROVE  Increasing(<<x>>) /\ Range(<<x>>) = {x}
BY DEF Increasing, Range

(* So is none.                                                           *)
LEMMA NoMember == Increasing(<<>>) /\ Range(<<>>) = {}
BY DEF Increasing, Range

(* What FlattenSeq makes of increasing parts, each behind the one before.   *)
LEMMA Flattened ==
    ASSUME NEW ss, Len(ss) \in Nat, Len(ss) = 0 => ss = <<>>,
           \A i \in 1 .. Len(ss) : Increasing(ss[i]),
           \A i, j \in 1 .. Len(ss) : i < j => \A x \in Range(ss[i]), y \in Range(ss[j]) : x < y
    PROVE  /\ Increasing(FlattenSeq(ss))
           /\ Range(FlattenSeq(ss)) = UNION {Range(ss[i]) : i \in 1 .. Len(ss)}
<1>1. CASE Len(ss) = 0
  <2>1. FlattenSeq(ss) = <<>> /\ 1 .. Len(ss) = {}
    BY <1>1 DEF FlattenSeq
  <2> QED
    BY <2>1, NoMember
<1>2. CASE Len(ss) # 0
  <2>0. Len(ss) \in Nat \ {0}
    BY <1>2
  <2>1. PICK f : /\ f[1] = ss[1]
                 /\ \A i \in 2 .. Len(ss) : f[i] = f[i - 1] \o ss[i]
                 /\ FlattenSeq(ss) = f[Len(ss)]
    BY <2>0, Flattens
  <2> DEFINE P == {n \in Nat : Increasing(f[n]) /\ Range(f[n]) = UNION {Range(ss[i]) : i \in 1 .. n}}
  <2>2. 1 \in P
    <3>1. 1 \in 1 .. Len(ss) /\ 1 .. 1 = {1}
      BY <2>0
    <3> QED
      BY <2>1, <3>1
  <2>3. ASSUME NEW n \in 1 .. Len(ss) - 1, n \in P PROVE n + 1 \in P
    <3>1. n + 1 \in 2 .. Len(ss) /\ (n + 1) - 1 = n /\ n + 1 \in 1 .. Len(ss)
          /\ \A i \in 1 .. n : i \in 1 .. Len(ss) /\ i < n + 1
      BY <2>0
    <3>2. f[n + 1] = f[n] \o ss[n + 1]
      BY <2>1, <3>1
    <3>3. \A x \in Range(f[n]), y \in Range(ss[n + 1]) : x < y
      <4> SUFFICES ASSUME NEW x \in Range(f[n]), NEW y \in Range(ss[n + 1]) PROVE x < y
        OBVIOUS
      <4>1. PICK i \in 1 .. n : x \in Range(ss[i])
        BY <2>3
      <4> QED
        BY <3>1, <4>1
    <3>4. Increasing(f[n + 1]) /\ Range(f[n + 1]) = Range(f[n]) \cup Range(ss[n + 1])
      <4>1. Increasing(f[n]) /\ Increasing(ss[n + 1])
        BY <2>3, <3>1
      <4> QED
        BY <3>2, <3>3, <4>1, Joined
    <3>5. 1 .. n + 1 = (1 .. n) \cup {n + 1}
      BY <3>1
    <3>6. UNION {Range(ss[i]) : i \in 1 .. n + 1} = (UNION {Range(ss[i]) : i \in 1 .. n}) \cup Range(ss[n + 1])
      BY <3>5
    <3>7. n + 1 \in Nat
      OBVIOUS
    <3> QED
      BY <2>3, <3>4, <3>6, <3>7
  <2>4. \A n \in 1 .. Len(ss) - 1 : n \in P => n + 1 \in P
    BY <2>3
  <2>5. Len(ss) \in P
    <3> HIDE DEF P
    <3>1. 1 .. Len(ss) \subseteq P
      BY <2>0, <2>2, <2>4, Positions
    <3> QED
      BY <2>0, <3>1
  <2> QED
    BY <2>1, <2>5
<1> QED
  BY <1>1, <1>2

(* InOrder counts: the members of a set of numbers, each behind the smaller. *)
LEMMA Ranked ==
    ASSUME NEW n \in Nat, NEW S \in SUBSET (1 .. n)
    PROVE  /\ Cardinality(S) \in Nat
           /\ \A x \in S : Cardinality({y \in S : y < x}) \in 0 .. Cardinality(S) - 1
           /\ \A x, z \in S : x < z => Cardinality({y \in S : y < x}) < Cardinality({y \in S : y < z})
           /\ \A k \in 0 .. Cardinality(S) - 1 : \E x \in S : Cardinality({y \in S : y < x}) = k
<1> DEFINE B(x) == {y \in S : y < x}
           r(x) == Cardinality(B(x))
<1>0. IsFiniteSet(S) /\ Cardinality(S) \in Nat
  <2>1. IsFiniteSet(1 .. n)
    BY FS_Interval
  <2> QED
    BY <2>1, FS_Subset, FS_CardinalityType
<1> S \subseteq Nat
  OBVIOUS
<1>1. \A x : B(x) \subseteq S /\ IsFiniteSet(B(x)) /\ r(x) \in Nat
  BY <1>0, FS_Subset, FS_CardinalityType
<1>2. ASSUME NEW x \in S PROVE r(x) \in 0 .. Cardinality(S) - 1
  <2>1. B(x) \in SUBSET S /\ x \notin B(x)
    OBVIOUS
  <2>2. r(x) <= Cardinality(S) /\ (r(x) = Cardinality(S) => B(x) = S)
    <3> HIDE DEF B
    <3> QED
      BY <1>0, <2>1, FS_Subset
  <2>3. r(x) # Cardinality(S) /\ r(x) \in Nat
    BY <1>1, <2>1, <2>2
  <2> HIDE DEF r
  <2> QED
    BY <1>0, <2>2, <2>3
<1>3. ASSUME NEW x \in S, NEW z \in S, x < z PROVE r(x) < r(z)
  <2>0. x \in Nat /\ z \in Nat /\ \A y \in S : y < x => y < z
    BY <1>3
  <2>4. x \in B(z) /\ x \notin B(x)
    BY <1>3, <2>0
  <2>5. B(x) \subseteq B(z)
    BY <2>0
  <2>1. B(x) \in SUBSET B(z) /\ x \in B(z) /\ x \notin B(x)
    BY <2>4, <2>5
  <2>2. r(x) <= r(z) /\ (r(x) = r(z) => B(x) = B(z))
    <3> HIDE DEF B
    <3> QED
      BY <1>1, <2>1, FS_Subset
  <2>3. r(x) # r(z) /\ r(x) \in Nat /\ r(z) \in Nat
    BY <1>1, <2>1, <2>2
  <2> HIDE DEF r
  <2> QED
    BY <2>2, <2>3
<1> DEFINE T == 0 .. Cardinality(S) - 1
           f == [x \in S |-> r(x)]
<1>4. IsFiniteSet(T) /\ Cardinality(T) = Cardinality(S)
  <2>1. IsFiniteSet(T) /\ Cardinality(T) = IF 0 > Cardinality(S) - 1 THEN 0 ELSE Cardinality(S) - 1 - 0 + 1
    BY <1>0, FS_Interval
  <2> QED
    BY <1>0, <2>1
<1>5. f \in Injection(S, T)
  <2>1. f \in [S -> T]
    BY <1>2
  <2>2. ASSUME NEW x \in S, NEW z \in S, f[x] = f[z] PROVE x = z
    <3>1. r(x) = r(z) /\ r(x) \in Nat
      BY <2>2, <1>1
    <3>2. ~(x < z) /\ ~(z < x)
      <4> HIDE DEF r
      <4> QED
        BY <1>3, <3>1
    <3> QED
      BY <3>2
  <2> QED
    BY <2>1, <2>2 DEF Injection, IsInjective
<1>6. f \in Surjection(S, T)
  BY <1>0, <1>4, <1>5, FS_Injection
<1>7. ASSUME NEW k \in T PROVE \E x \in S : r(x) = k
  BY <1>6 DEF Surjection
<1> QED
  BY <1>0, <1>2, <1>3, <1>7

(* InOrder lists a set of nodes in document order.                       *)
LEMMA Ordered ==
    ASSUME NEW n \in Nat, NEW S \in SUBSET (1 .. n)
    PROVE  Increasing(InOrder(S)) /\ Range(InOrder(S)) = S
<1> DEFINE r(x) == Cardinality({y \in S : y < x})
           c == Cardinality(S)
           o == InOrder(S)
<1>1. /\ c \in Nat /\ \A x \in S : r(x) \in 0 .. c - 1
      /\ \A x, z \in S : x < z => r(x) < r(z)
      /\ \A k \in 0 .. c - 1 : \E x \in S : r(x) = k
  BY Ranked
<1>2. o = [k \in 1 .. c |-> CHOOSE x \in S : r(x) = k - 1]
  BY DEF InOrder
<1> HIDE DEF r, c, o
<1> S \subseteq Nat
  OBVIOUS
<1>3. ASSUME NEW k \in 1 .. c PROVE o[k] \in S /\ r(o[k]) = k - 1
  <2>1. k - 1 \in 0 .. c - 1
    BY <1>1
  <2>2. \E x \in S : r(x) = k - 1
    BY <1>1, <2>1
  <2> QED
    BY <1>2, <2>2
<1>4. o \in [1 .. c -> S]
  BY <1>2, <1>3
<1>5. o \in Seq(Nat) /\ DOMAIN o = 1 .. c
  <2>1. o \in [1 .. c -> Nat] /\ c \in Nat
    BY <1>1, <1>4
  <2> QED
    BY <2>1
<1>6. ASSUME NEW i \in 1 .. c, NEW j \in 1 .. c, i < j PROVE o[i] < o[j]
  <2>1. o[i] \in S /\ o[j] \in S /\ r(o[i]) = i - 1 /\ r(o[j]) = j - 1
    BY <1>3
  <2>2. o[i] \in Nat /\ o[j] \in Nat
    BY <2>1
  <2>3. o[i] # o[j]
    BY <1>6, <2>1
  <2>4. ~(o[j] < o[i])
    <3> SUFFICES ASSUME o[j] < o[i] PROVE FALSE
      OBVIOUS
    <3>1. r(o[j]) < r(o[i])
      BY <1>1, <2>1
    <3> QED
      BY <1>6, <2>1, <3>1
  <2> QED
    BY <2>2, <2>3, <2>4
<1>7. ASSUME NEW x \in S PROVE x \in Range(o)
  <2>1. r(x) + 1 \in 1 .. c /\ (r(x) + 1) - 1 = r(x) /\ r(x) \in Nat
    BY <1>1
  <2> DEFINE z == o[r(x) + 1]
  <2>2. z \in S /\ r(z) = r(x)
    BY <1>3, <2>1
  <2> HIDE DEF z
  <2>3. ~(x < z) /\ ~(z < x)
    BY <1>1, <2>1, <2>2
  <2>4. z = x
    BY <2>2, <2>3
  <2> QED
    BY <1>5, <2>1, <2>4 DEF Range, z
<1>8. Range(o) = S
  BY <1>3, <1>5, <1>7 DEF Range
<1> QED
  BY <1>5, <1>6, <1>8 DEF Increasing, o

(* A filter keeps the order of what it keeps.                               *)
LEMMA Filtered ==
    ASSUME NEW s, Increasing(s), NEW P \in SUBSET DOMAIN s
    PROVE  Increasing(Kept(s, P)) /\ Range(Kept(s, P)) = {s[i] : i \in P}
<1> DEFINE o == InOrder(P)
           k == Kept(s, P)
<1>1. /\ Len(s) \in Nat /\ DOMAIN s = 1 .. Len(s) /\ \A i \in 1 .. Len(s) : s[i] \in Nat
      /\ \A i, j \in 1 .. Len(s) : i < j => s[i] < s[j]
  BY DEF Increasing
<1>2. Increasing(o) /\ Range(o) = P
  BY <1>1, Ordered
<1>3. k = [n \in DOMAIN o |-> s[o[n]]]
  BY DEF Kept
<1> HIDE DEF o, k
<1>4. /\ Len(o) \in Nat /\ DOMAIN o = 1 .. Len(o) /\ \A n \in DOMAIN o : o[n] \in P
      /\ \A m, n \in DOMAIN o : m < n => o[m] < o[n]
  <2>1. \A n \in DOMAIN o : o[n] \in P
    BY <1>2 DEF Range
  <2> QED
    BY <1>2, <2>1 DEF Increasing
<1>5. k \in Seq(Nat) /\ DOMAIN k = DOMAIN o /\ \A n \in DOMAIN o : k[n] = s[o[n]] /\ o[n] \in 1 .. Len(s)
  <2>1. \A n \in DOMAIN o : o[n] \in 1 .. Len(s) /\ s[o[n]] \in Nat
    BY <1>1, <1>4
  <2>2. k \in [1 .. Len(o) -> Nat]
    BY <1>3, <1>4, <2>1
  <2> QED
    BY <1>3, <1>4, <2>1, <2>2
<1>6. Increasing(k)
  BY <1>1, <1>4, <1>5 DEF Increasing
<1>7. Range(k) = {s[i] : i \in P}
  <2>1. Range(k) = {s[o[n]] : n \in DOMAIN o}
    BY <1>5 DEF Range
  <2>2. P = {o[n] : n \in DOMAIN o}
    BY <1>2 DEF Range
  <2> QED
    BY <2>1, <2>2
<1> QED
  BY <1>6, <1>7 DEF k

-----------------------------------------------------------------------------
(* What the compiler accepts.                                            *)

(* The tree by its paths: the path of a node is its parent's and the     *)
(* node, and what an element contains follows it without a gap.          *)
LEMMA TreeFacts ==
    ASSUME TreeInv
    PROVE  /\ Len(nodes) \in Nat /\ DOMAIN nodes = 1 .. Len(nodes)
           /\ \A i \in DOMAIN nodes :
                /\ i \in Nat /\ Parent(i) \in 0 .. i - 1 /\ i \in Path(i) /\ Path(i) \subseteq 1 .. i
                /\ Parent(i) = 0 => Path(i) = {i}
                /\ Parent(i) # 0 => Parent(i) \in DOMAIN nodes /\ Path(i) = Path(Parent(i)) \cup {i}
                /\ \A a \in Path(i) : \A j \in a .. i : a \in Path(j)
                /\ Range(nodes[i].within) = Path(i) \ {i}
<1>1. Len(nodes) \in Nat /\ DOMAIN nodes = 1 .. Len(nodes)
  BY DEF TreeInv
<1>2. SUFFICES ASSUME NEW i \in 1 .. Len(nodes)
      PROVE     /\ i \in Nat /\ Parent(i) \in 0 .. i - 1 /\ i \in Path(i) /\ Path(i) \subseteq 1 .. i
                /\ Parent(i) = 0 => Path(i) = {i}
                /\ Parent(i) # 0 => Parent(i) \in DOMAIN nodes /\ Path(i) = Path(Parent(i)) \cup {i}
                /\ \A a \in Path(i) : \A j \in a .. i : a \in Path(j)
                /\ Range(nodes[i].within) = Path(i) \ {i}
  BY <1>1
<1> DEFINE w == nodes[i].within
<1>3. /\ w \in Seq(1 .. i - 1) /\ (w # <<>> => w = Append(nodes[Last(w)].within, Last(w)))
      /\ \A a \in Range(w) : \A j \in a + 1 .. i : a \in Range(nodes[j].within)
  BY <1>1 DEF TreeInv, IsTree, Leads
<1>4. Parent(i) = IF w = <<>> THEN 0 ELSE Last(w)
  BY DEF Parent
<1>5. Path(i) = Range(w) \cup {i}
  BY DEF Path
<1>6. i \in Nat
  BY <1>1
<1> HIDE DEF w
<1>7. \A T : \A s \in Seq(T) : (\A k \in DOMAIN s : s[k] \in T) /\ (s # <<>> => s[Len(s)] \in T)
  OBVIOUS
<1>8. Range(w) \subseteq 1 .. i - 1 /\ (w # <<>> => Last(w) \in 1 .. i - 1)
  BY <1>3, <1>7, Zenon DEF Range, Last
<1>9. Parent(i) \in 0 .. i - 1 /\ i \in Path(i) /\ Path(i) \subseteq 1 .. i
      /\ Range(w) = Path(i) \ {i} /\ (Parent(i) = 0 => Path(i) = {i})
  <2>1. w = <<>> => Range(w) = {}
    BY DEF Range
  <2>2. i \notin Range(w)
    BY <1>6, <1>8
  <2>3. Parent(i) = 0 => w = <<>>
    BY <1>4, <1>8
  <2>4. Range(w) \subseteq 1 .. i
    BY <1>6, <1>8
  <2> QED
    BY <1>4, <1>5, <1>6, <1>8, <2>1, <2>2, <2>3, <2>4
<1>10. Parent(i) # 0 => Parent(i) \in DOMAIN nodes /\ Path(i) = Path(Parent(i)) \cup {i}
  <2> SUFFICES ASSUME Parent(i) # 0
               PROVE  Parent(i) \in DOMAIN nodes /\ Path(i) = Path(Parent(i)) \cup {i}
    OBVIOUS
  <2> DEFINE p == Last(w)
             v == nodes[p].within
  <2>1. Parent(i) = p /\ w # <<>> /\ p \in 1 .. i - 1
    BY <1>4, <1>8
  <2>2. p \in 1 .. Len(nodes)
    BY <1>1, <2>1
  <2>3. v \in Seq(1 .. p - 1)
    BY <1>1, <2>2 DEF TreeInv, IsTree, Leads
  <2>4. w = Append(v, p)
    BY <1>3, <2>1
  <2> HIDE DEF p, v
  <2>5. Range(w) = Range(v) \cup {p}
    <3>1. v \in Seq(1 .. i)
      BY <1>6, <2>1, <2>3
    <3>2. /\ DOMAIN w = 1 .. Len(v) + 1 /\ DOMAIN v = 1 .. Len(v) /\ Len(v) \in Nat
          /\ \A k \in 1 .. Len(v) : w[k] = v[k]
          /\ w[Len(v) + 1] = p
      BY <2>4, <3>1
    <3>3. DOMAIN w = (DOMAIN v) \cup {Len(v) + 1}
      BY <3>2
    <3>4. Range(w) = {w[k] : k \in DOMAIN v} \cup {w[Len(v) + 1]}
      BY <3>3 DEF Range
    <3>5. {w[k] : k \in DOMAIN v} = {v[k] : k \in DOMAIN v}
      BY <3>2
    <3> QED
      BY <3>2, <3>4, <3>5 DEF Range
  <2>6. Path(p) = Range(v) \cup {p}
    BY DEF Path, v
  <2> QED
    BY <1>1, <1>5, <2>1, <2>2, <2>5, <2>6
<1>11. ASSUME NEW a \in Path(i), NEW j \in a .. i PROVE a \in Path(j)
  <2>1. CASE a = i
    <3>1. j = i
      BY <1>6, <2>1
    <3> QED
      BY <1>9, <2>1, <3>1
  <2>2. CASE a # i /\ j = a
    BY <2>2 DEF Path
  <2>3. CASE a # i /\ j # a
    <3>1. a \in Range(w) /\ a \in Nat
      BY <1>5, <1>8, <2>3
    <3>2. j \in a + 1 .. i
      BY <1>6, <2>3, <3>1
    <3> QED
      BY <1>3, <3>1, <3>2 DEF Path
  <2> QED
    BY <2>1, <2>2, <2>3
<1> QED
  BY <1>6, <1>9, <1>10, <1>11 DEF w

(* What an element holds stands before all that follows it outside.        *)
LEMMA Before ==
    ASSUME TreeInv, NEW u \in DOMAIN nodes, NEW x \in Path(u), NEW y \in DOMAIN nodes,
           x < y, x \notin Path(y)
    PROVE  u < y
<1>1. u \in Nat /\ y \in Nat /\ x \in Nat /\ x <= u
  <2>1. u \in Nat /\ y \in Nat /\ Path(u) \subseteq 1 .. u
    BY TreeFacts
  <2> QED
    BY <2>1
<1>2. CASE y <= u
  <2>1. y \in x .. u
    BY <1>1, <1>2
  <2> QED
    BY <2>1, TreeFacts
<1> QED
  BY <1>1, <1>2

(* What the binder accepts of a film's structure: its scenes, what       *)
(* stands in them, shots and transitions.                                *)
IsScene(s) == s \in DOMAIN nodes /\ Kind(s) = "om-scene" /\ Parent(s) = Film
(* A child of a scene.                                                   *)
IsPart(n) == n \in DOMAIN nodes /\ IsScene(Parent(n))
(* A shot.                                                               *)
IsShot(n) == IsPart(n) /\ Kind(n) = "om-shot"
(* A transition.                                                         *)
IsCut(t) == IsPart(t) /\ Kind(t) = "om-transition"

(* What the proofs use of a document without binding errors: one film,   *)
(* at the level of the document, transitions between shots, and no       *)
(* binding where it is forbidden.                                        *)
Accepted ==
    /\ FilmRoots = {Film} /\ Film \in DOMAIN nodes /\ Kind(Film) = "om-film"
    /\ \A a \in Path(Film) \ {Film} : Kind(a) \in Shell
    /\ \A t : IsCut(t) => BetweenShots(t)
    /\ \A b \in Bindings : ~Forbidden(b)

(* No code, no fault.                                                    *)
LEMMA ReportsNothing ==
    ASSUME NEW fault, NEW code, Report(fault, code) = {}
    PROVE  ~fault
BY DEF Report

(* The binder comes to every scene of the film.                          *)
LEMMA BoundScenes ==
    ASSUME TreeInv, Film \in DOMAIN nodes, Kind(Film) = "om-film", NEW s, IsScene(s)
    PROVE  s \in Bound
<1>1. s \in DOMAIN nodes /\ Parent(s) = Film /\ Kind(s) = "om-scene" /\ Film # 0
  BY TreeFacts DEF IsScene
<1>2. Path(s) = Path(Film) \cup {s} /\ Film \in Path(Film) /\ Path(Film) \subseteq 1 .. Film /\ Film \in Nat
  BY <1>1, TreeFacts
<1>3. \A n \in Path(s) : n > Film => n = s
  BY <1>2
<1>4. Known(Film) /\ "om-scene" \in Legal["om-film"] /\ ~IsRepeated(s)
  BY <1>1 DEF Known, Legal, IsRepeated
<1> QED
  BY <1>1, <1>2, <1>3, <1>4 DEF Bound, IsBound

(* A document without binding errors is accepted.                        *)
LEMMA BindingAccepts ==
    ASSUME TreeInv, BindFaults = {}
    PROVE  Accepted
<1>1. Cardinality(FilmRoots) = 1
  BY DEF BindFaults
<1>2. FilmRoots \subseteq DOMAIN nodes /\ IsFiniteSet(FilmRoots)
  <2>1. IsFiniteSet(DOMAIN nodes)
    BY TreeFacts, FS_Interval
  <2>2. FilmRoots \subseteq DOMAIN nodes
    BY DEF FilmRoots
  <2> QED
    BY <2>1, <2>2, FS_Subset
<1>3. FilmRoots = {Film}
  <2>1. FilmRoots # {}
    BY <1>1, FS_EmptySet
  <2>2. Film \in FilmRoots
    BY <2>1 DEF Film
  <2>3. {Film} \in SUBSET FilmRoots /\ Cardinality({Film}) = 1
    BY <2>2, FS_Singleton
  <2> QED
    BY <1>1, <1>2, <2>3, FS_Subset
<1>4. Film \in DOMAIN nodes /\ Kind(Film) = "om-film" /\ AtDocumentLevel(Film)
  BY <1>3 DEF FilmRoots
<1>5. \A a \in Path(Film) \ {Film} : Kind(a) \in Shell
  BY <1>4, TreeFacts DEF AtDocumentLevel
<1>6. /\ UNION {BoundaryFaults(i) : i \in {n \in Bound : Kind(n) = "om-scene"}} = {}
      /\ Report(\E i \in Bindings : Forbidden(i), "ForbiddenBinding") = {}
  BY <1>1 DEF BindFaults
<1>7. \A b \in Bindings : ~Forbidden(b)
  BY <1>6, ReportsNothing
<1>8. ASSUME NEW t, IsCut(t) PROVE BetweenShots(t)
  <2> DEFINE s == Parent(t)
  <2>1. IsScene(s) /\ t \in DOMAIN nodes /\ Kind(t) = "om-transition"
    BY <1>8 DEF IsCut, IsPart
  <2>2. s \in Bound /\ Kind(s) = "om-scene"
    BY <1>4, <2>1, BoundScenes DEF IsScene
  <2>3. BoundaryFaults(s) = {}
    BY <1>6, <2>2
  <2>4. ~ \E x \in Structure(s) : Kind(x) = "om-transition" /\ ~BetweenShots(x)
    BY <2>3, ReportsNothing DEF BoundaryFaults
  <2>5. t \in Structure(s)
    BY <2>1 DEF Structure
  <2> QED
    BY <2>1, <2>4, <2>5
<1> QED
  BY <1>3, <1>4, <1>5, <1>7, <1>8 DEF Accepted

(* The levels of an accepted film.                                          *)
LEMMA Levels ==
    ASSUME TreeInv, Accepted
    PROVE  /\ Film \in Nat \ {0} /\ Film \in Path(Film) /\ Path(Film) \subseteq 1 .. Film
           /\ \A s : IsScene(s) => s \in Nat /\ Film < s /\ Path(s) = Path(Film) \cup {s}
           /\ \A n : IsPart(n) => /\ n \in Nat /\ Parent(n) \in Nat /\ Film < Parent(n) /\ Parent(n) < n
                                  /\ Path(n) = Path(Film) \cup {Parent(n), n}
           /\ \A c \in DOMAIN nodes : IsShot(Parent(c)) =>
                  c \in Nat /\ Parent(c) \in Nat /\ Parent(c) < c /\ Path(c) = Path(Parent(c)) \cup {c}
<1>1. Film \in Nat \ {0} /\ Film \in Path(Film) /\ Path(Film) \subseteq 1 .. Film
  BY TreeFacts DEF Accepted
<1>2. ASSUME NEW s, IsScene(s) PROVE s \in Nat /\ Film < s /\ Path(s) = Path(Film) \cup {s}
  <2>1. s \in DOMAIN nodes /\ Parent(s) = Film /\ Film # 0
    BY <1>1, <1>2 DEF IsScene
  <2> QED
    BY <2>1, <1>1, TreeFacts
<1>3. ASSUME NEW n, IsPart(n)
      PROVE  /\ n \in Nat /\ Parent(n) \in Nat /\ Film < Parent(n) /\ Parent(n) < n
             /\ Path(n) = Path(Film) \cup {Parent(n), n}
  <2>1. n \in DOMAIN nodes /\ IsScene(Parent(n))
    BY <1>3 DEF IsPart
  <2>2. Parent(n) \in Nat /\ Film < Parent(n) /\ Path(Parent(n)) = Path(Film) \cup {Parent(n)}
    BY <1>2, <2>1
  <2>3. n \in Nat /\ Parent(n) \in 0 .. n - 1 /\ Path(n) = Path(Parent(n)) \cup {n}
    BY <1>1, <2>1, <2>2, TreeFacts
  <2> QED
    BY <2>2, <2>3
<1>4. ASSUME NEW c \in DOMAIN nodes, IsShot(Parent(c))
      PROVE  c \in Nat /\ Parent(c) \in Nat /\ Parent(c) < c /\ Path(c) = Path(Parent(c)) \cup {c}
  <2>1. Parent(c) \in Nat /\ Parent(c) # 0
    BY <1>1, <1>3, <1>4 DEF IsShot
  <2>2. c \in Nat /\ Parent(c) \in 0 .. c - 1 /\ Path(c) = Path(Parent(c)) \cup {c}
    BY <2>1, TreeFacts
  <2> QED
    BY <2>1, <2>2
<1> QED
  BY <1>1, <1>2, <1>3, <1>4

(* Scenes and parts hold nothing of their own kind.                         *)
LEMMA Apart ==
    ASSUME TreeInv, Accepted
    PROVE  /\ \A s, x : IsScene(s) /\ IsScene(x) /\ s # x => s \notin Path(x)
           /\ \A s, n : IsScene(s) /\ (IsShot(n) \/ IsCut(n)) /\ s \in Path(n) => s = Parent(n)
           /\ \A h, n : IsShot(h) /\ (IsScene(n) \/ IsShot(n) \/ IsCut(n)) /\ h # n => h \notin Path(n)
           /\ \A h, c : IsShot(h) /\ c \in DOMAIN nodes /\ IsShot(Parent(c)) /\ h # c /\ h \in Path(c) => h = Parent(c)
<1>1. /\ Film \in Nat \ {0} /\ Film \in Path(Film) /\ Path(Film) \subseteq 1 .. Film
      /\ \A s : IsScene(s) => s \in Nat /\ Film < s /\ Path(s) = Path(Film) \cup {s}
      /\ \A n : IsPart(n) => /\ n \in Nat /\ Parent(n) \in Nat /\ Film < Parent(n) /\ Parent(n) < n
                             /\ Path(n) = Path(Film) \cup {Parent(n), n}
      /\ \A c \in DOMAIN nodes : IsShot(Parent(c)) =>
             c \in Nat /\ Parent(c) \in Nat /\ Parent(c) < c /\ Path(c) = Path(Parent(c)) \cup {c}
  BY Levels
<1>2. \A x \in Nat : Film < x => x \notin Path(Film)
  BY <1>1
<1>3. \A s, x : IsScene(s) /\ IsScene(x) /\ s # x => s \notin Path(x)
  BY <1>1, <1>2
<1>4. ASSUME NEW s, NEW n, IsScene(s), IsShot(n) \/ IsCut(n), s \in Path(n) PROVE s = Parent(n)
  <2>1. IsPart(n) /\ s # n
    BY <1>4 DEF IsShot, IsCut, IsScene
  <2> QED
    BY <1>1, <1>2, <1>4, <2>1
<1>5. ASSUME NEW h, NEW n, IsShot(h), IsScene(n) \/ IsShot(n) \/ IsCut(n), h # n PROVE h \notin Path(n)
  <2>1. h \in Nat /\ Film < h
    BY <1>1, <1>5 DEF IsShot
  <2>2. CASE IsScene(n)
    BY <1>1, <1>2, <1>5, <2>1, <2>2
  <2>3. CASE IsShot(n) \/ IsCut(n)
    <3>1. IsPart(n) /\ IsScene(Parent(n))
      BY <2>3 DEF IsShot, IsCut, IsPart
    <3>2. h # Parent(n)
      BY <1>5, <3>1 DEF IsScene, IsShot
    <3> QED
      BY <1>1, <1>2, <1>5, <2>1, <3>1, <3>2
  <2> QED
    BY <1>5, <2>2, <2>3
<1>6. ASSUME NEW h,
             NEW c \in DOMAIN nodes, IsShot(h), IsShot(Parent(c)), h # c, h \in Path(c) PROVE h = Parent(c)
  <2>1. h \in Path(Parent(c))
    BY <1>1, <1>6
  <2> QED
    BY <1>5, <1>6, <2>1
<1> QED
  BY <1>3, <1>4, <1>5, <1>6

(* The shots of the document, in its order.                                 *)
ShotNodes ==
    LET scenes == ChildrenOfKind(Film, {"om-scene"})
    IN FlattenSeq([s \in DOMAIN scenes |-> ChildrenOfKind(scenes[s], {"om-shot"})])

(* The children of an element, in document order.                        *)
LEMMA Children ==
    ASSUME TreeInv, NEW i, NEW kinds
    PROVE  /\ Increasing(ChildrenOfKind(i, kinds))
           /\ Range(ChildrenOfKind(i, kinds)) = {n \in DOMAIN nodes : Parent(n) = i /\ Kind(n) \in kinds}
<1>1. {n \in DOMAIN nodes : Parent(n) = i /\ Kind(n) \in kinds} \in SUBSET (1 .. Len(nodes)) /\ Len(nodes) \in Nat
  BY TreeFacts
<1> QED
  BY <1>1, Ordered DEF ChildrenOfKind

(* The film that is resolved has the shots of the document, in its       *)
(* order.                                                                *)
LEMMA ShotsInOrder ==
    ASSUME TreeInv, Accepted
    PROVE  /\ Increasing(ShotNodes) /\ Range(ShotNodes) = {n \in DOMAIN nodes : IsShot(n)}
           /\ TheFilm.shots = [k \in DOMAIN ShotNodes |-> ResolvedShot(ShotNodes[k])]
           /\ Increasing(TheFilm.scenes) /\ Range(TheFilm.scenes) = {n \in DOMAIN nodes : IsScene(n)}
           /\ TheFilm.node = Film
<1> DEFINE scenes == ChildrenOfKind(Film, {"om-scene"})
           ss == [s \in DOMAIN scenes |-> ChildrenOfKind(scenes[s], {"om-shot"})]
<1>1. Increasing(scenes) /\ Range(scenes) = {n \in DOMAIN nodes : IsScene(n)}
  BY Children DEF IsScene
<1>2. /\ Len(scenes) \in Nat /\ DOMAIN scenes = 1 .. Len(scenes)
      /\ \A i \in 1 .. Len(scenes) : scenes[i] \in Nat /\ IsScene(scenes[i])
      /\ \A i, j \in 1 .. Len(scenes) : i < j => scenes[i] < scenes[j]
      /\ \A s : IsScene(s) => \E i \in 1 .. Len(scenes) : scenes[i] = s
  <2>1. \A s : IsScene(s) => s \in Range(scenes)
    BY <1>1 DEF IsScene
  <2> HIDE DEF scenes
  <2>2. \A i \in 1 .. Len(scenes) : scenes[i] \in Range(scenes)
    BY <1>1, Monotone
  <2> QED
    BY <1>1, <2>1, <2>2, Monotone
<1>3. ShotNodes = FlattenSeq(ss)
  BY DEF ShotNodes
<1>4. TheFilm.shots = [k \in DOMAIN ShotNodes |-> ResolvedShot(ShotNodes[k])] /\ TheFilm.scenes = scenes /\ TheFilm.node = Film
  BY DEF TheFilm, ShotNodes
<1> HIDE DEF scenes
<1>5. Len(ss) = Len(scenes) /\ \A i \in 1 .. Len(scenes) : ss[i] = ChildrenOfKind(scenes[i], {"om-shot"})
  BY <1>2
<1>6. Len(ss) = 0 => ss = <<>>
  BY <1>2, <1>5
<1> HIDE DEF ss
<1>7. \A i \in 1 .. Len(scenes) : Increasing(ss[i])
                               /\ Range(ss[i]) = {n \in DOMAIN nodes : Parent(n) = scenes[i] /\ Kind(n) = "om-shot"}
  <2>1. \A s : /\ Increasing(ChildrenOfKind(s, {"om-shot"}))
               /\ Range(ChildrenOfKind(s, {"om-shot"})) = {n \in DOMAIN nodes : Parent(n) = s /\ Kind(n) = "om-shot"}
    BY Children
  <2> QED
    BY <1>5, <2>1
<1>8. ASSUME NEW i \in 1 .. Len(scenes), NEW j \in 1 .. Len(scenes), i < j,
             NEW x \in Range(ss[i]), NEW y \in Range(ss[j])
      PROVE  x < y
  <2>1. x \in DOMAIN nodes /\ y \in DOMAIN nodes /\ Parent(x) = scenes[i] /\ Parent(y) = scenes[j]
        /\ IsShot(x) /\ IsShot(y)
    BY <1>2, <1>7 DEF IsShot, IsPart
  <2>2. scenes[i] \in Path(x) /\ scenes[i] < scenes[j] /\ scenes[j] < y /\ scenes[i] \in Nat /\ scenes[j] \in Nat /\ y \in Nat
    BY <1>2, <1>8, <2>1, Levels DEF IsShot
  <2>3. scenes[i] \notin Path(y)
    BY <1>2, <2>1, <2>2, Apart
  <2>4. scenes[i] < y
    BY <2>2
  <2> QED
    BY <2>1, <2>2, <2>3, <2>4, Before
<1>9. Increasing(ShotNodes) /\ Range(ShotNodes) = UNION {Range(ss[i]) : i \in 1 .. Len(scenes)}
  BY <1>2, <1>3, <1>5, <1>6, <1>7, <1>8, Flattened
<1>10. UNION {Range(ss[i]) : i \in 1 .. Len(scenes)} = {n \in DOMAIN nodes : IsShot(n)}
  <2>1. ASSUME NEW n \in DOMAIN nodes, IsShot(n) PROVE \E i \in 1 .. Len(scenes) : n \in Range(ss[i])
    <3>1. PICK i \in 1 .. Len(scenes) : scenes[i] = Parent(n)
      BY <1>2, <2>1 DEF IsShot, IsPart
    <3> QED
      BY <1>7, <2>1, <3>1 DEF IsShot
  <2>2. ASSUME NEW i \in 1 .. Len(scenes), NEW n \in Range(ss[i]) PROVE n \in DOMAIN nodes /\ IsShot(n)
    BY <1>2, <1>7 DEF IsShot, IsPart
  <2> QED
    BY <2>1, <2>2
<1> QED
  BY <1>1, <1>4, <1>9, <1>10

-----------------------------------------------------------------------------
(* The shots of the film and the transitions between them.               *)

(* The shots by their index.                                             *)
LEMMA ShotPlaces ==
    ASSUME TreeInv, Accepted
    PROVE  /\ Len(ShotNodes) \in Nat /\ DOMAIN ShotNodes = 1 .. Len(ShotNodes)
           /\ \A k \in 1 .. Len(ShotNodes) : IsShot(ShotNodes[k]) /\ ShotNodes[k] \in DOMAIN nodes /\ ShotNodes[k] \in Nat
           /\ \A i, j \in 1 .. Len(ShotNodes) : (i < j <=> ShotNodes[i] < ShotNodes[j])
                                             /\ (i <= j <=> ShotNodes[i] <= ShotNodes[j])
           /\ \A n : IsShot(n) => \E k \in 1 .. Len(ShotNodes) : ShotNodes[k] = n
<1>1. Increasing(ShotNodes) /\ Range(ShotNodes) = {n \in DOMAIN nodes : IsShot(n)}
  BY ShotsInOrder
<1>2. \A n : IsShot(n) => n \in Range(ShotNodes)
  BY <1>1 DEF IsShot, IsPart
<1>3. /\ Len(ShotNodes) \in Nat /\ DOMAIN ShotNodes = 1 .. Len(ShotNodes)
      /\ \A i \in 1 .. Len(ShotNodes) : ShotNodes[i] \in Nat /\ ShotNodes[i] \in Range(ShotNodes)
      /\ \A i, j \in 1 .. Len(ShotNodes) : (i < j <=> ShotNodes[i] < ShotNodes[j])
                                        /\ (i <= j <=> ShotNodes[i] <= ShotNodes[j])
      /\ \A x \in Range(ShotNodes) : \E i \in 1 .. Len(ShotNodes) : ShotNodes[i] = x
  BY <1>1, Monotone
<1> QED
  BY <1>1, <1>2, <1>3

(* The transitions before a shot.                                        *)
CutsAt(k) == {t \in DOMAIN nodes : Kind(t) = "om-transition" /\ Adjacent(t, ShotNodes[k])}

(* A transition stands between two shots that follow each other in the film. *)
LEMMA CutLies ==
    ASSUME TreeInv, Accepted, NEW k \in DOMAIN ShotNodes, NEW t \in CutsAt(k)
    PROVE  /\ IsCut(t) /\ k - 1 \in DOMAIN ShotNodes
           /\ ShotNodes[k - 1] < t /\ t < ShotNodes[k] /\ t \in Nat
           /\ Parent(ShotNodes[k - 1]) = Parent(t) /\ Parent(ShotNodes[k]) = Parent(t)
<1> DEFINE N == ShotNodes
           s == Parent(t)
<1>1. /\ Len(N) \in Nat /\ DOMAIN N = 1 .. Len(N)
      /\ \A i \in 1 .. Len(N) : IsShot(N[i]) /\ N[i] \in DOMAIN nodes /\ N[i] \in Nat
      /\ \A i, j \in 1 .. Len(N) : (i < j <=> N[i] < N[j]) /\ (i <= j <=> N[i] <= N[j])
      /\ \A n : IsShot(n) => \E i \in 1 .. Len(N) : N[i] = n
  BY ShotPlaces
<1> HIDE DEF N
<1>2. t \in DOMAIN nodes /\ Kind(t) = "om-transition" /\ Adjacent(t, N[k])
  BY DEF CutsAt, N
<1>3. /\ Parent(N[k]) = s /\ t < N[k]
      /\ \A m \in Structure(s) : ~(t < m /\ m < N[k])
  BY <1>2 DEF Adjacent, Structure
<1>4. k \in 1 .. Len(N) /\ IsShot(N[k])
  BY <1>1 DEF N
<1>5. IsCut(t) /\ IsScene(s)
  BY <1>2, <1>3, <1>4 DEF IsShot, IsCut, IsPart
<1>6. PICK h \in DOMAIN nodes : Kind(h) = "om-shot" /\ Adjacent(h, t)
  BY <1>5 DEF Accepted, BetweenShots
<1>7. /\ Parent(h) = s /\ h < t /\ h \in Structure(s)
      /\ \A m \in Structure(s) : ~(h < m /\ m < t)
  BY <1>6 DEF Adjacent, Structure
<1>8. IsShot(h)
  BY <1>5, <1>6, <1>7 DEF IsShot, IsPart
<1>9. PICK a \in 1 .. Len(N) : N[a] = h
  BY <1>1, <1>8
<1>10. h \in Nat /\ t \in Nat /\ N[k] \in Nat /\ s \in Nat /\ s < h /\ s < t
  BY <1>1, <1>4, <1>5, <1>7, <1>8, Levels DEF IsShot, IsCut
<1>11. a < k
  <2>1. N[a] < N[k]
    BY <1>3, <1>7, <1>9, <1>10
  <2> QED
    BY <1>1, <1>4, <2>1
<1>12. a = k - 1
  <2> SUFFICES ASSUME a # k - 1 PROVE FALSE
    OBVIOUS
  <2>1. a + 1 \in 1 .. Len(N) /\ a < a + 1 /\ a + 1 < k
    BY <1>1, <1>4, <1>11
  <2> DEFINE m == N[a + 1]
  <2>2. h < m /\ m < N[k] /\ IsShot(m) /\ m \in DOMAIN nodes /\ m \in Nat
    BY <1>1, <1>4, <1>9, <2>1
  <2> HIDE DEF m
  <2>3. m \in s .. N[k]
    BY <1>10, <2>2
  <2>4. s \in Path(N[k])
    BY <1>3, <1>4, Levels DEF IsShot
  <2>5. s \in Path(m)
    BY <1>1, <1>4, <2>3, <2>4, TreeFacts
  <2>6. Parent(m) = s
    BY <1>5, <2>2, <2>5, Apart
  <2>7. m \in Structure(s)
    BY <2>2, <2>6 DEF Structure, IsShot
  <2>8. m # t
    BY <1>2, <2>2 DEF IsShot
  <2> QED
    BY <1>3, <1>7, <1>10, <2>2, <2>7, <2>8
<1> QED
  BY <1>1, <1>3, <1>5, <1>7, <1>9, <1>10, <1>12 DEF N

(* Every transition stands before a shot.                                *)
LEMMA CutIsAt ==
    ASSUME TreeInv, Accepted, NEW t, IsCut(t)
    PROVE  \E k \in DOMAIN ShotNodes : t \in CutsAt(k)
<1>1. PICK h \in DOMAIN nodes : Kind(h) = "om-shot" /\ Adjacent(t, h)
  BY DEF Accepted, BetweenShots
<1>2. IsShot(h) /\ t \in DOMAIN nodes /\ Kind(t) = "om-transition"
  BY <1>1 DEF Adjacent, Structure, IsShot, IsCut, IsPart
<1>3. PICK k \in 1 .. Len(ShotNodes) : ShotNodes[k] = h
  BY <1>2, ShotPlaces
<1> QED
  BY <1>1, <1>2, <1>3, ShotPlaces DEF CutsAt

(* No shot has two of them.                                              *)
LEMMA OneCut ==
    ASSUME TreeInv, Accepted, NEW k \in DOMAIN ShotNodes, NEW t \in CutsAt(k)
    PROVE  CutsAt(k) = {t}
<1> SUFFICES ASSUME NEW u \in CutsAt(k), u # t PROVE FALSE
  OBVIOUS
<1>1. /\ t \in Nat /\ u \in Nat /\ t < ShotNodes[k] /\ u < ShotNodes[k]
      /\ Parent(t) = Parent(u)
  BY CutLies
<1>2. /\ t \in Structure(Parent(t)) /\ \A m \in Structure(Parent(t)) : ~(t < m /\ m < ShotNodes[k])
      /\ u \in Structure(Parent(u)) /\ \A m \in Structure(Parent(u)) : ~(u < m /\ m < ShotNodes[k])
  BY DEF CutsAt, Adjacent
<1> QED
  BY <1>1, <1>2

(* The bundler sees a transition between the same two shots.                *)
LEMMA NeighborsAgree ==
    ASSUME TreeInv, Accepted, FilmIsFound, NEW k \in DOMAIN ShotNodes, NEW t \in CutsAt(k)
    PROVE  HtmlNeighbors(t) = {k - 1, k}
<1> DEFINE N == ShotNodes
           siblings == {j \in DOMAIN N : Parent(N[j]) = Parent(t)}
<1>1. HtmlShots = N
  BY DEF HtmlShots, ShotNodes, FilmIsFound
<1>2. /\ k - 1 \in DOMAIN N /\ N[k - 1] < t /\ t < N[k] /\ t \in Nat
      /\ Parent(N[k - 1]) = Parent(t) /\ Parent(N[k]) = Parent(t)
  BY CutLies
<1>3. /\ Len(N) \in Nat /\ DOMAIN N = 1 .. Len(N)
      /\ \A i \in 1 .. Len(N) : N[i] \in Nat
      /\ \A i, j \in 1 .. Len(N) : (i < j <=> N[i] < N[j]) /\ (i <= j <=> N[i] <= N[j])
  BY ShotPlaces
<1>4. k \in DOMAIN N
  OBVIOUS
<1> HIDE DEF N
<1>5. HtmlNeighbors(t) =
        {i \in siblings : \/ N[i] < t /\ \A j \in siblings : j > i => N[j] > t
                          \/ N[i] > t /\ \A j \in siblings : j < i => N[j] < t}
  BY <1>1 DEF HtmlNeighbors
<1>6. k - 1 \in siblings /\ k \in siblings
  BY <1>2, <1>4
<1>7. \A j \in siblings : j \in Nat /\ j \in 1 .. Len(N) /\ N[j] \in Nat
  BY <1>3
<1> HIDE DEF siblings
<1>8. \A j \in siblings : (j > k - 1 => N[j] > t) /\ (j < k => N[j] < t)
  <2> SUFFICES ASSUME NEW j \in siblings PROVE (j > k - 1 => N[j] > t) /\ (j < k => N[j] < t)
    OBVIOUS
  <2>1. j \in 1 .. Len(N) /\ k \in 1 .. Len(N) /\ k - 1 \in 1 .. Len(N)
    BY <1>2, <1>3, <1>4, <1>7
  <2>2. j > k - 1 => N[k] <= N[j]
    <3>1. j > k - 1 => k <= j
      BY <2>1
    <3> QED
      BY <1>3, <2>1, <3>1
  <2>3. j < k => N[j] <= N[k - 1]
    <3>1. j < k => j <= k - 1
      BY <2>1
    <3> QED
      BY <1>3, <2>1, <3>1
  <2>4. N[j] \in Nat /\ N[k] \in Nat /\ N[k - 1] \in Nat
    BY <1>3, <2>1
  <2> QED
    BY <1>2, <2>2, <2>3, <2>4
<1>9. ASSUME NEW i \in siblings,
             \/ N[i] < t /\ \A j \in siblings : j > i => N[j] > t
             \/ N[i] > t /\ \A j \in siblings : j < i => N[j] < t
      PROVE  i = k - 1 \/ i = k
  <2>1. i \in Nat /\ k \in Nat /\ N[i] \in Nat /\ N[k] \in Nat /\ N[k - 1] \in Nat
    BY <1>2, <1>3, <1>4, <1>7
  <2>2. CASE N[i] < t /\ \A j \in siblings : j > i => N[j] > t
    <3>1. ~(k - 1 > i)
      BY <1>2, <1>6, <2>1, <2>2
    <3>2. ~(i > k - 1)
      BY <1>2, <1>8, <2>1, <2>2
    <3> QED
      BY <2>1, <3>1, <3>2
  <2>3. CASE N[i] > t /\ \A j \in siblings : j < i => N[j] < t
    <3>1. ~(k < i)
      BY <1>2, <1>6, <2>1, <2>3
    <3>2. ~(i < k)
      BY <1>2, <1>8, <2>1, <2>3
    <3> QED
      BY <2>1, <3>1, <3>2
  <2> QED
    BY <1>9, <2>2, <2>3
<1>10. N[k - 1] < t /\ N[k] > t
  <2>1. N[k] \in Nat
    BY <1>3, <1>4
  <2> QED
    BY <1>2, <2>1
<1> QED
  BY <1>5, <1>6, <1>8, <1>9, <1>10

-----------------------------------------------------------------------------
(* The compiler's projection of a region.                                *)

(* A set of no or one element as a sequence.                               *)
LEMMA SingleSequence ==
    ASSUME NEW x
    PROVE  SetToSeq({x}) = <<x>>
<1>1. Cardinality({x}) = 1
  BY FS_Singleton
<1>2. \A f \in [1 .. 1 -> {x}] : f = <<x>>
  <2> SUFFICES ASSUME NEW f \in [1 .. 1 -> {x}] PROVE f = <<x>>
    OBVIOUS
  <2>1. f = [i \in 1 .. 1 |-> f[i]] /\ \A i \in 1 .. 1 : f[i] = x
    OBVIOUS
  <2> QED
    BY <2>1
<1>3. <<x>> \in [1 .. 1 -> {x}] /\ IsInjective(<<x>>)
  BY DEF IsInjective
<1> QED
  BY <1>1, <1>2, <1>3 DEF SetToSeq

(* The empty set as a sequence.                                          *)
LEMMA EmptySequence == SetToSeq({}) = <<>>
<1>1. Cardinality({}) = 0
  BY FS_EmptySet
<1>2. \A f \in [1 .. 0 -> {}] : f = <<>>
  OBVIOUS
<1>3. <<>> \in [1 .. 0 -> {}] /\ IsInjective(<<>>)
  BY DEF IsInjective
<1> QED
  BY <1>1, <1>2, <1>3 DEF SetToSeq

(* The kinds of the nodes in a shot.                                     *)
Content == {"video", "om-title", "om-cta"}

(* The selected shots of a region.                                       *)
KeptShots(S) == {ShotNodes[k] : k \in S}
(* Their scenes.                                                         *)
KeptScenes(S) == {Parent(ShotNodes[k]) : k \in S}
(* The transitions between two selected shots.                           *)
KeptCuts(S) == UNION {CutsAt(k) : k \in {j \in S : j - 1 \in S}}
(* What of some kinds stands in the selected shots.                      *)
Inside(S, kinds) == {c \in DOMAIN nodes : Parent(c) \in KeptShots(S) /\ Kind(c) \in kinds}
(* The structure of a region, without the film.                          *)
Structural(S) == KeptScenes(S) \cup KeptShots(S) \cup KeptCuts(S)
(* All of a region that has a node.                                      *)
Elements(S, kinds) == {Film} \cup Structural(S) \cup Inside(S, kinds)

(* What one shot adds to a region: the transition before it, itself,     *)
(* its content.                                                          *)
PartOf(k, S) ==
    {t \in CutsAt(k) : k - 1 \in S} \cup {ShotNodes[k]}
    \cup {c \in DOMAIN nodes : Parent(c) = ShotNodes[k] /\ Kind(c) \in Content}

(* Everything that a shot adds lies in its scene.                        *)
LEMMA Members ==
    ASSUME TreeInv, Accepted, NEW S \in SUBSET DOMAIN ShotNodes, NEW k \in DOMAIN ShotNodes,
           NEW x \in PartOf(k, S)
    PROVE  /\ x \in DOMAIN nodes /\ x \in Nat
           /\ Parent(ShotNodes[k]) \in Path(x) /\ Parent(ShotNodes[k]) < x
           /\ Film \in Path(x) /\ Film < x
           /\ x < ShotNodes[k] \/ ShotNodes[k] \in Path(x)
<1> DEFINE n == ShotNodes[k]
           s == Parent(n)
<1>1. IsShot(n) /\ n \in DOMAIN nodes /\ n \in Nat /\ IsScene(s)
  BY ShotPlaces DEF IsShot, IsPart
<1>2. /\ s \in Nat /\ Film < s /\ s < n /\ s \in Path(n) /\ Film \in Path(n) /\ n \in Path(n) /\ Film \in Nat
      /\ \A c \in DOMAIN nodes : Parent(c) = n => n < c /\ c \in Nat /\ Path(c) = Path(n) \cup {c}
  BY <1>1, Levels DEF IsShot
<1>3. CASE x \in CutsAt(k)
  <2>1. IsCut(x) /\ Parent(x) = s /\ x < n
    BY <1>3, CutLies
  <2>2. x \in DOMAIN nodes /\ x \in Nat /\ s < x /\ s \in Path(x) /\ Film \in Path(x)
    BY <2>1, Levels DEF IsCut, IsPart
  <2> QED
    BY <1>2, <2>1, <2>2
<1>4. CASE x = n
  BY <1>1, <1>2, <1>4
<1>5. CASE x \in DOMAIN nodes /\ Parent(x) = n
  <2>1. n < x /\ x \in Nat /\ Path(x) = Path(n) \cup {x}
    BY <1>2, <1>5
  <2> QED
    BY <1>1, <1>2, <1>5, <2>1
<1> QED
  BY <1>3, <1>4, <1>5 DEF PartOf

(* What a later shot adds lies behind all that an earlier one does.      *)
LEMMA PartsFollow ==
    ASSUME TreeInv, Accepted, NEW S \in SUBSET DOMAIN ShotNodes, NEW k \in DOMAIN ShotNodes,
           NEW l \in DOMAIN ShotNodes,
           k < l, NEW x \in PartOf(k, S), NEW y \in PartOf(l, S)
    PROVE  x < y
<1> DEFINE n == ShotNodes[k]
           m == ShotNodes[l]
<1>1. /\ IsShot(n) /\ IsShot(m) /\ n \in Nat /\ m \in Nat /\ n < m /\ n \in DOMAIN nodes /\ m \in DOMAIN nodes
      /\ k \in Nat /\ l \in Nat /\ (l - 1 \in DOMAIN ShotNodes => n <= ShotNodes[l - 1] /\ ShotNodes[l - 1] \in Nat)
  <2>1. k \in 1 .. Len(ShotNodes) /\ l \in 1 .. Len(ShotNodes) /\ k <= l - 1
    BY ShotPlaces
  <2> QED
    BY <2>1, ShotPlaces
<1>2. x \in DOMAIN nodes /\ x \in Nat /\ (x < n \/ n \in Path(x)) /\ y \in DOMAIN nodes /\ y \in Nat
  BY Members
<1>3. n < y /\ n \notin Path(y)
  <2>1. CASE y \in CutsAt(l)
    <3>1. IsCut(y) /\ l - 1 \in DOMAIN ShotNodes /\ ShotNodes[l - 1] < y
      BY <2>1, CutLies
    <3>2. n # y
      BY <1>1, <3>1 DEF IsCut, IsShot
    <3> QED
      BY <1>1, <1>2, <3>1, <3>2, Apart
  <2>2. CASE y = m
    <3>1. n # m
      BY <1>1
    <3> QED
      BY <1>1, <2>2, <3>1, Apart
  <2>3. CASE y \in DOMAIN nodes /\ Parent(y) = m
    <3>1. m < y
      BY <1>1, <2>3, Levels
    <3>2. n # y /\ n # m /\ n < y
      BY <1>1, <1>2, <3>1
    <3> QED
      BY <1>1, <2>3, <3>2, Apart
  <2> QED
    BY <2>1, <2>2, <2>3 DEF PartOf
<1>4. CASE x < n
  BY <1>1, <1>2, <1>3, <1>4
<1>5. CASE n \in Path(x)
  BY <1>2, <1>3, <1>5, Before
<1> QED
  BY <1>2, <1>4, <1>5

(* One shot of the compiler's projection.                                   *)
LEMMA ProjectedShot ==
    ASSUME TreeInv, Accepted, CompiledFilm = TheFilm,
           NEW S \in SUBSET DOMAIN ShotNodes, NEW k \in S
    PROVE  Increasing(ProjectShot(k, S)) /\ Range(ProjectShot(k, S)) = PartOf(k, S)
<1> DEFINE n == ShotNodes[k]
           shots == TheFilm.shots
           content == ChildrenOfKind(n, {"video", "om-vo", "om-title", "om-cta"})
           P == {i \in DOMAIN content : Kind(content[i]) # "om-vo"}
           joined == k - 1 \in S /\ shots[k - 1].scene = shots[k].scene
           cut == IF joined THEN SetToSeq(shots[k].cut) ELSE <<>>
<1>0. k \in DOMAIN ShotNodes /\ IsShot(n) /\ n \in Nat /\ n \in DOMAIN nodes
  BY ShotPlaces
<1>1. /\ \A i \in DOMAIN ShotNodes : shots[i].scene = Parent(ShotNodes[i])
      /\ shots[k].node = n /\ shots[k].cut = CutsAt(k) /\ shots[k].content = content
  <2>1. shots = [i \in DOMAIN ShotNodes |-> ResolvedShot(ShotNodes[i])]
    BY ShotsInOrder
  <2> QED
    BY <1>0, <2>1 DEF ResolvedShot, CutsAt
<1>2. ProjectShot(k, S) = (cut \o <<n>>) \o Kept(content, P)
  BY <1>1 DEF ProjectShot
<1>3. Increasing(Kept(content, P)) /\ Range(Kept(content, P)) = {c \in DOMAIN nodes : Parent(c) = n /\ Kind(c) \in Content}
  <2>1. /\ Increasing(content)
        /\ Range(content) = {c \in DOMAIN nodes : Parent(c) = n /\ Kind(c) \in {"video", "om-vo", "om-title", "om-cta"}}
    BY Children
  <2> HIDE DEF content
  <2>2. Increasing(Kept(content, P)) /\ Range(Kept(content, P)) = {content[i] : i \in P}
    BY <2>1, Filtered
  <2>3. {content[i] : i \in P} = {c \in Range(content) : Kind(c) # "om-vo"}
    BY DEF Range
  <2> QED
    BY <2>1, <2>2, <2>3 DEF Content
<1>4. Increasing(cut) /\ Range(cut) = {t \in CutsAt(k) : k - 1 \in S}
  <2>1. CASE CutsAt(k) = {}
    <3>1. cut = <<>>
      BY <1>1, <2>1, EmptySequence
    <3> QED
      BY <2>1, <3>1, NoMember
  <2>2. ASSUME NEW t \in CutsAt(k) PROVE Increasing(cut) /\ Range(cut) = {u \in CutsAt(k) : k - 1 \in S}
    <3>1. CutsAt(k) = {t}
      BY <1>0, OneCut
    <3>2. t \in Nat /\ k - 1 \in DOMAIN ShotNodes /\ Parent(ShotNodes[k - 1]) = Parent(n)
      BY <1>0, CutLies
    <3>3. joined <=> k - 1 \in S
      BY <1>0, <1>1, <3>2
    <3>4. cut = IF k - 1 \in S THEN <<t>> ELSE <<>>
      BY <1>1, <3>1, <3>3, SingleSequence
    <3> HIDE DEF cut
    <3> QED
      BY <3>1, <3>2, <3>4, NoMember, Single
  <2> QED
    BY <2>1, <2>2
<1> HIDE DEF content, cut, P
<1>5. Increasing(cut \o <<n>>) /\ Range(cut \o <<n>>) = Range(cut) \cup {n}
  <2>1. Increasing(<<n>>) /\ Range(<<n>>) = {n}
    BY <1>0, Single
  <2>2. \A x \in Range(cut), y \in Range(<<n>>) : x < y
    BY <1>0, <1>4, <2>1, CutLies
  <2> QED
    BY <1>4, <2>1, <2>2, Joined
<1>6. \A x \in Range(cut \o <<n>>), y \in Range(Kept(content, P)) : x < y
  <2> SUFFICES ASSUME NEW x \in Range(cut) \cup {n}, NEW y \in DOMAIN nodes, Parent(y) = n PROVE x < y
    BY <1>3, <1>5
  <2>1. n < y /\ y \in Nat
    BY <1>0, Levels
  <2>2. CASE x = n
    BY <2>1, <2>2
  <2>3. CASE x \in Range(cut)
    <3>1. x < n /\ x \in Nat
      BY <1>0, <1>4, <2>3, CutLies
    <3> QED
      BY <1>0, <2>1, <3>1
  <2> QED
    BY <2>2, <2>3
<1>7. /\ Increasing((cut \o <<n>>) \o Kept(content, P))
      /\ Range((cut \o <<n>>) \o Kept(content, P)) = Range(cut \o <<n>>) \cup Range(Kept(content, P))
  BY <1>3, <1>5, <1>6, Joined
<1> QED
  BY <1>2, <1>3, <1>4, <1>5, <1>7 DEF PartOf

(* A scene with all that its selected shots add.                         *)
SceneOf(s, S) == {s} \cup UNION {PartOf(k, S) : k \in {j \in S : Parent(ShotNodes[j]) = s}}

(* A scene of the compiler's projection, and the shots it keeps of it.      *)
LEMMA ProjectedScene ==
    ASSUME TreeInv, Accepted, CompiledFilm = TheFilm,
           NEW S \in SUBSET DOMAIN ShotNodes, NEW s, IsScene(s)
    PROVE  /\ Increasing(ProjectScene(s, S))
           /\ Range(ProjectScene(s, S)) = IF s \in KeptScenes(S) THEN SceneOf(s, S) ELSE {}
<1> DEFINE shots == TheFilm.shots
           P == {k \in S : Parent(ShotNodes[k]) = s}
           selected == InOrder(P)
           ss == [n \in DOMAIN selected |-> ProjectShot(selected[n], S)]
<1>1. Len(ShotNodes) \in Nat /\ DOMAIN ShotNodes = 1 .. Len(ShotNodes)
  BY ShotPlaces
<1>2. P = {k \in DOMAIN shots : shots[k].scene = s /\ k \in S}
  <2>1. shots = [i \in DOMAIN ShotNodes |-> ResolvedShot(ShotNodes[i])]
    BY ShotsInOrder
  <2>2. DOMAIN shots = DOMAIN ShotNodes /\ \A k \in DOMAIN ShotNodes : shots[k].scene = Parent(ShotNodes[k])
    BY <2>1 DEF ResolvedShot
  <2> QED
    BY <2>2
<1>3. ProjectScene(s, S) = IF selected = <<>> THEN <<>> ELSE <<s>> \o FlattenSeq(ss)
  <2> HIDE DEF P
  <2> QED
    BY <1>2 DEF ProjectScene
<1>4. Increasing(selected) /\ Range(selected) = P
  BY <1>1, Ordered
<1> HIDE DEF selected
<1>5. /\ Len(selected) \in Nat /\ DOMAIN selected = 1 .. Len(selected)
      /\ \A i \in 1 .. Len(selected) : selected[i] \in P
      /\ \A i, j \in 1 .. Len(selected) : i < j => selected[i] < selected[j]
      /\ \A k \in P : \E i \in 1 .. Len(selected) : selected[i] = k
  BY <1>4, Monotone
<1>6. CASE P = {}
  <2>1. selected = <<>>
    BY <1>5, <1>6, <1>4 DEF Increasing
  <2>2. s \notin KeptScenes(S)
    BY <1>6 DEF KeptScenes
  <2> QED
    BY <1>3, <2>1, <2>2, NoMember
<1>7. CASE P # {}
  <2>1. selected # <<>> /\ s \in KeptScenes(S)
    BY <1>5, <1>7 DEF KeptScenes
  <2>2. Len(ss) = Len(selected) /\ Len(ss) # 0 /\ \A i \in 1 .. Len(selected) : ss[i] = ProjectShot(selected[i], S)
    BY <1>5, <1>7
  <2> HIDE DEF ss
  <2>3. \A i \in 1 .. Len(selected) : Increasing(ss[i]) /\ Range(ss[i]) = PartOf(selected[i], S)
    <3>1. \A k \in S : Increasing(ProjectShot(k, S)) /\ Range(ProjectShot(k, S)) = PartOf(k, S)
      BY ProjectedShot
    <3> QED
      BY <1>5, <2>2, <3>1
  <2>4. \A i, j \in 1 .. Len(selected) : i < j => \A x \in Range(ss[i]), y \in Range(ss[j]) : x < y
    <3> SUFFICES ASSUME NEW i \in 1 .. Len(selected), NEW j \in 1 .. Len(selected), i < j,
                        NEW x \in PartOf(selected[i], S), NEW y \in PartOf(selected[j], S)
                 PROVE  x < y
      BY <2>3
    <3>1. selected[i] \in DOMAIN ShotNodes /\ selected[j] \in DOMAIN ShotNodes /\ selected[i] < selected[j]
      BY <1>5
    <3> QED
      BY <3>1, PartsFollow
  <2>5. Increasing(FlattenSeq(ss)) /\ Range(FlattenSeq(ss)) = UNION {Range(ss[i]) : i \in 1 .. Len(selected)}
    BY <1>5, <2>2, <2>3, <2>4, Flattened
  <2>6. UNION {Range(ss[i]) : i \in 1 .. Len(selected)} = UNION {PartOf(k, S) : k \in P}
    <3>1. {Range(ss[i]) : i \in 1 .. Len(selected)} = {PartOf(k, S) : k \in P}
      BY <1>5, <2>3
    <3> QED
      BY <3>1
  <2>7. s \in Nat
    BY Levels
  <2>8. ASSUME NEW x \in Range(FlattenSeq(ss)) PROVE s < x
    <3>1. PICK k \in P : x \in PartOf(k, S)
      BY <2>5, <2>6
    <3> QED
      BY <3>1, Members
  <2>9. Increasing(<<s>>) /\ Range(<<s>>) = {s}
    BY <2>7, Single
  <2>10. Increasing(<<s>> \o FlattenSeq(ss)) /\ Range(<<s>> \o FlattenSeq(ss)) = {s} \cup Range(FlattenSeq(ss))
    BY <2>5, <2>8, <2>9, Joined
  <2> QED
    BY <1>3, <2>1, <2>5, <2>6, <2>10 DEF SceneOf
<1> QED
  BY <1>6, <1>7

(* All of that lies in the scene.                                        *)
LEMMA InTheScene ==
    ASSUME TreeInv, Accepted, NEW S \in SUBSET DOMAIN ShotNodes, NEW s, IsScene(s),
           NEW x \in SceneOf(s, S)
    PROVE  x \in DOMAIN nodes /\ x \in Nat /\ s \in Path(x) /\ s <= x /\ Film < x
<1>1. s \in DOMAIN nodes /\ s \in Nat /\ Film < s /\ s \in Path(s)
  BY Levels DEF IsScene
<1>2. CASE x = s
  BY <1>1, <1>2
<1>3. ASSUME NEW k \in S, Parent(ShotNodes[k]) = s, x \in PartOf(k, S)
      PROVE  x \in DOMAIN nodes /\ x \in Nat /\ s \in Path(x) /\ s < x /\ Film < x
  BY <1>3, Members
<1> QED
  BY <1>1, <1>2, <1>3 DEF SceneOf

(* The compiler numbers what the region keeps, in document order.           *)
LEMMA ProjectedNodes ==
    ASSUME TreeInv, Accepted, CompiledFilm = TheFilm, NEW S \in SUBSET DOMAIN ShotNodes
    PROVE  Increasing(ProjectNodes(S)) /\ Range(ProjectNodes(S)) = Elements(S, Content)
<1> DEFINE scenes == TheFilm.scenes
           ss == [s \in DOMAIN scenes |-> ProjectScene(scenes[s], S)]
<1>1. Increasing(scenes) /\ Range(scenes) = {n \in DOMAIN nodes : IsScene(n)} /\ TheFilm.node = Film
  BY ShotsInOrder
<1>2. ProjectNodes(S) = <<Film>> \o FlattenSeq(ss)
  BY <1>1 DEF ProjectNodes
<1> HIDE DEF scenes
<1>3. /\ Len(scenes) \in Nat /\ DOMAIN scenes = 1 .. Len(scenes)
      /\ \A i \in 1 .. Len(scenes) : IsScene(scenes[i])
      /\ \A i, j \in 1 .. Len(scenes) : i < j => scenes[i] < scenes[j]
      /\ \A s : IsScene(s) => \E i \in 1 .. Len(scenes) : scenes[i] = s
  <2>1. \A s : IsScene(s) => s \in Range(scenes)
    BY <1>1 DEF IsScene
  <2>2. \A i \in 1 .. Len(scenes) : scenes[i] \in Range(scenes)
    BY <1>1, Monotone
  <2> QED
    BY <1>1, <2>1, <2>2, Monotone
<1>4. Len(ss) = Len(scenes) /\ \A i \in 1 .. Len(scenes) : ss[i] = ProjectScene(scenes[i], S)
  BY <1>3
<1>5. Len(ss) = 0 => ss = <<>>
  BY <1>3, <1>4
<1> HIDE DEF ss
<1>6. \A i \in 1 .. Len(scenes) :
         /\ Increasing(ss[i])
         /\ Range(ss[i]) = IF scenes[i] \in KeptScenes(S) THEN SceneOf(scenes[i], S) ELSE {}
  <2>1. \A s : IsScene(s) =>
           /\ Increasing(ProjectScene(s, S))
           /\ Range(ProjectScene(s, S)) = IF s \in KeptScenes(S) THEN SceneOf(s, S) ELSE {}
    BY ProjectedScene
  <2> QED
    BY <1>3, <1>4, <2>1
<1>7. ASSUME NEW i \in 1 .. Len(scenes), NEW j \in 1 .. Len(scenes), i < j, NEW x \in Range(ss[i]),
             NEW y \in Range(ss[j])
      PROVE  x < y
  <2>1. x \in SceneOf(scenes[i], S) /\ y \in SceneOf(scenes[j], S)
    BY <1>6
  <2>2. IsScene(scenes[i]) /\ IsScene(scenes[j]) /\ scenes[i] < scenes[j] /\ scenes[i] \in Nat /\ scenes[j] \in Nat
        /\ scenes[i] \in DOMAIN nodes /\ scenes[j] \in DOMAIN nodes
    BY <1>3, <1>7, Levels DEF IsScene
  <2>3. x \in DOMAIN nodes /\ x \in Nat /\ scenes[i] \in Path(x)
        /\ y \in DOMAIN nodes /\ y \in Nat /\ scenes[j] \in Path(y) /\ scenes[j] <= y
    BY <2>1, <2>2, InTheScene
  <2>4. scenes[i] \notin Path(scenes[j])
    BY <2>2, Apart
  <2>5. x < scenes[j]
    BY <2>2, <2>3, <2>4, Before
  <2> QED
    BY <2>2, <2>3, <2>5
<1>8. Increasing(FlattenSeq(ss)) /\ Range(FlattenSeq(ss)) = UNION {Range(ss[i]) : i \in 1 .. Len(scenes)}
  BY <1>3, <1>4, <1>5, <1>6, <1>7, Flattened
<1>9. UNION {Range(ss[i]) : i \in 1 .. Len(scenes)} = Structural(S) \cup Inside(S, Content)
  <2>1. ASSUME NEW i \in 1 .. Len(scenes), NEW x \in Range(ss[i])
        PROVE  x \in Structural(S) \cup Inside(S, Content)
    <3>1. scenes[i] \in KeptScenes(S) /\ x \in SceneOf(scenes[i], S)
      BY <1>6, <2>1
    <3>2. CASE x = scenes[i]
      BY <3>1, <3>2 DEF Structural
    <3>3. ASSUME NEW k \in S, x \in PartOf(k, S) PROVE x \in Structural(S) \cup Inside(S, Content)
      BY <3>3 DEF PartOf, Structural, Inside, KeptShots, KeptCuts
    <3> QED
      BY <3>1, <3>2, <3>3 DEF SceneOf
  <2>2. ASSUME NEW k \in S, NEW x \in PartOf(k, S) \cup {Parent(ShotNodes[k])}
        PROVE  \E i \in 1 .. Len(scenes) : x \in Range(ss[i])
    <3>1. IsScene(Parent(ShotNodes[k]))
      BY ShotPlaces DEF IsShot, IsPart
    <3>2. PICK i \in 1 .. Len(scenes) : scenes[i] = Parent(ShotNodes[k])
      BY <1>3, <3>1
    <3>3. scenes[i] \in KeptScenes(S) /\ x \in SceneOf(scenes[i], S)
      BY <3>2 DEF KeptScenes, SceneOf
    <3> QED
      BY <1>6, <3>3
  <2>3. \A x \in Structural(S) \cup Inside(S, Content) : \E k \in S : x \in PartOf(k, S) \cup {Parent(ShotNodes[k])}
    BY DEF PartOf, Structural, Inside, KeptShots, KeptCuts, KeptScenes
  <2> QED
    BY <2>1, <2>2, <2>3
<1>10. Film \in Nat
  BY Levels
<1>11. \A y \in Range(FlattenSeq(ss)) : Film < y
  <2> SUFFICES ASSUME NEW i \in 1 .. Len(scenes), NEW y \in Range(ss[i]) PROVE Film < y
    BY <1>8
  <2>1. y \in SceneOf(scenes[i], S) /\ IsScene(scenes[i])
    BY <1>3, <1>6
  <2> QED
    BY <2>1, InTheScene
<1>12. Increasing(<<Film>>) /\ Range(<<Film>>) = {Film}
  BY <1>10, Single
<1>13. Increasing(<<Film>> \o FlattenSeq(ss)) /\ Range(<<Film>> \o FlattenSeq(ss)) = {Film} \cup Range(FlattenSeq(ss))
  BY <1>8, <1>11, <1>12, Joined
<1> QED
  BY <1>2, <1>8, <1>9, <1>13 DEF Elements

-----------------------------------------------------------------------------
(* The bundler's projection: what is left of the document.               *)

(* The structure of a region is structure of the film, and complete      *)
(* upwards.                                                              *)
LEMMA StructureIsKnown ==
    ASSUME TreeInv, Accepted, NEW S \in SUBSET DOMAIN ShotNodes
    PROVE  /\ \A n \in KeptScenes(S) : IsScene(n)
           /\ \A n \in KeptShots(S) : IsShot(n) /\ Parent(n) \in KeptScenes(S)
           /\ \A n \in KeptCuts(S) : IsCut(n) /\ Parent(n) \in KeptScenes(S)
           /\ Structural(S) \subseteq DOMAIN nodes
<1>1. \A k \in S : IsShot(ShotNodes[k]) /\ ShotNodes[k] \in DOMAIN nodes
  BY ShotPlaces
<1>2. \A n \in KeptShots(S) : IsShot(n) /\ Parent(n) \in KeptScenes(S) /\ n \in DOMAIN nodes
  BY <1>1 DEF KeptShots, KeptScenes
<1>3. \A n \in KeptScenes(S) : IsScene(n) /\ n \in DOMAIN nodes
  BY <1>1 DEF KeptScenes, IsShot, IsPart, IsScene
<1>4. ASSUME NEW n \in KeptCuts(S) PROVE IsCut(n) /\ Parent(n) \in KeptScenes(S) /\ n \in DOMAIN nodes
  <2>1. PICK k \in S : n \in CutsAt(k)
    BY DEF KeptCuts
  <2>2. IsCut(n) /\ Parent(ShotNodes[k]) = Parent(n)
    BY <2>1, CutLies
  <2> QED
    BY <2>2 DEF IsCut, IsPart, KeptScenes
<1> QED
  BY <1>2, <1>3, <1>4 DEF Structural

(* The foreground keeps the order.                                       *)
LEMMA WithoutVideos ==
    ASSUME NEW s, Increasing(s)
    PROVE  Increasing(Foreground(s)) /\ Range(Foreground(s)) = {x \in Range(s) : Kind(x) # "video"}
<1> DEFINE P == {n \in DOMAIN s : Kind(s[n]) # "video"}
<1>1. Increasing(Kept(s, P)) /\ Range(Kept(s, P)) = {s[i] : i \in P}
  BY Filtered
<1>2. {s[i] : i \in P} = {x \in Range(s) : Kind(x) # "video"}
  BY DEF Range
<1> QED
  BY <1>1, <1>2 DEF Foreground

(* The nodes that a page is told of: all of them, or the foreground.     *)
Told(S, browserVideos) == IF browserVideos THEN ProjectNodes(S) ELSE Foreground(ProjectNodes(S))
(* The kinds of content it is told of.                                   *)
ToldKinds(browserVideos) == IF browserVideos THEN Content ELSE Content \ {"video"}

(* The plan holds the region's elements in document order.               *)
LEMMA ToldElements ==
    ASSUME TreeInv, Accepted, CompiledFilm = TheFilm, NEW S \in SUBSET DOMAIN ShotNodes,
           NEW b \in BOOLEAN
    PROVE  Increasing(Told(S, b)) /\ Range(Told(S, b)) = Elements(S, ToldKinds(b))
<1>1. Increasing(ProjectNodes(S)) /\ Range(ProjectNodes(S)) = Elements(S, Content)
  BY ProjectedNodes
<1>2. CASE b
  BY <1>1, <1>2 DEF Told, ToldKinds
<1>3. CASE ~b
  <2>1. Increasing(Told(S, b)) /\ Range(Told(S, b)) = {x \in Elements(S, Content) : Kind(x) # "video"}
    BY <1>1, <1>3, WithoutVideos DEF Told
  <2>2. Kind(Film) = "om-film"
    BY DEF Accepted
  <2>3. \A x \in Structural(S) : Kind(x) # "video"
    BY StructureIsKnown DEF Structural, IsScene, IsShot, IsCut
  <2>4. {x \in Inside(S, Content) : Kind(x) # "video"} = Inside(S, ToldKinds(b))
    BY <1>3 DEF Inside, Content, ToldKinds
  <2> QED
    BY <2>1, <2>2, <2>3, <2>4 DEF Elements
<1> QED
  BY <1>2, <1>3

(* The bundler, once it has found the film, sees the compiler's shots    *)
(* and transitions and refuses none.                                     *)
LEMMA BundlerAgrees ==
    ASSUME TreeInv, Accepted, FilmIsFound
    PROVE  /\ HtmlShots = ShotNodes
           /\ HtmlTransitions = {t \in DOMAIN nodes : IsCut(t)}
           /\ ~BundlerRefuses
<1>1. HtmlShots = ShotNodes
  BY DEF FilmIsFound, HtmlShots, ShotNodes
<1>2. HtmlTransitions = {t \in DOMAIN nodes : IsCut(t)}
  <2>1. \A t \in DOMAIN nodes : Parent(t) # 0 => Parent(t) \in DOMAIN nodes
    BY TreeFacts
  <2>2. 0 \notin DOMAIN nodes
    BY TreeFacts
  <2> QED
    BY <2>1, <2>2 DEF FilmIsFound, HtmlTransitions, IsCut, IsPart, IsScene
<1>3. ASSUME NEW t \in HtmlTransitions PROVE Cardinality(HtmlNeighbors(t)) = 2
  <2>1. IsCut(t)
    BY <1>2
  <2>2. PICK k \in DOMAIN ShotNodes : t \in CutsAt(k)
    BY <2>1, CutIsAt
  <2>3. HtmlNeighbors(t) = {k - 1, k}
    BY <2>2, NeighborsAgree
  <2>4. k \in Nat /\ k - 1 # k
    BY ShotPlaces
  <2>5. IsFiniteSet({k - 1}) /\ Cardinality({k - 1}) = 1
    BY FS_Singleton
  <2>6. Cardinality({k - 1} \cup {k}) = 2
    <3>1. k \notin {k - 1}
      BY <2>4
    <3>2. Cardinality({k - 1} \cup {k}) = Cardinality({k - 1}) + 1
      BY <2>5, <3>1, FS_AddElement
    <3> QED
      BY <2>5, <3>2
  <2>7. {k - 1, k} = {k - 1} \cup {k}
    OBVIOUS
  <2> QED
    BY <2>3, <2>6, <2>7
<1> QED
  BY <1>1, <1>2, <1>3 DEF BundlerRefuses

(* The bundler removes the structure that the region does not hold, and  *)
(* nothing else.                                                         *)
LEMMA WhatIsRemoved ==
    ASSUME TreeInv, Accepted, FilmIsFound, NEW S \in SUBSET DOMAIN ShotNodes
    PROVE  \A n : n \in Removed(S) <=>
             \/ IsScene(n) /\ n \notin KeptScenes(S)
             \/ IsShot(n) /\ n \notin KeptShots(S)
             \/ IsCut(n) /\ n \notin KeptCuts(S)
<1>1. HtmlShots = ShotNodes /\ HtmlTransitions = {t \in DOMAIN nodes : IsCut(t)}
  BY BundlerAgrees
<1>2. {HtmlShots[k] : k \in S \cap DOMAIN HtmlShots} = KeptShots(S)
  BY <1>1 DEF KeptShots
<1>3. \A s : (~ \E h \in KeptShots(S) : Parent(h) = s) <=> s \notin KeptScenes(S)
  BY DEF KeptShots, KeptScenes
<1>4. Range(ShotNodes) = {n \in DOMAIN nodes : IsShot(n)}
  BY ShotsInOrder
<1>5. ASSUME NEW t, IsCut(t) PROVE HtmlNeighbors(t) \subseteq S <=> t \in KeptCuts(S)
  <2>1. PICK k \in DOMAIN ShotNodes : t \in CutsAt(k)
    BY <1>5, CutIsAt
  <2>2. ASSUME HtmlNeighbors(t) \subseteq S PROVE t \in KeptCuts(S)
    <3>1. k \in S /\ k - 1 \in S
      BY <2>1, <2>2, NeighborsAgree
    <3> QED
      BY <2>1, <3>1 DEF KeptCuts
  <2>3. ASSUME t \in KeptCuts(S) PROVE HtmlNeighbors(t) \subseteq S
    <3>1. PICK j \in S : j - 1 \in S /\ t \in CutsAt(j)
      BY <2>3 DEF KeptCuts
    <3> QED
      BY <3>1, NeighborsAgree
  <2> QED
    BY <2>2, <2>3
<1>6. Removed(S) = {s \in DOMAIN nodes : Kind(s) = "om-scene" /\ Parent(s) = HtmlFilm
                        /\ ~ \E h \in KeptShots(S) : Parent(h) = s}
                   \cup (Range(ShotNodes) \ KeptShots(S))
                   \cup {t \in HtmlTransitions : ~(HtmlNeighbors(t) \subseteq S)}
  BY <1>1, <1>2 DEF Removed
<1>7. \A n : IsScene(n) <=> n \in DOMAIN nodes /\ Kind(n) = "om-scene" /\ Parent(n) = HtmlFilm
  BY DEF IsScene, FilmIsFound
<1>8. \A n : (IsShot(n) => n \in DOMAIN nodes) /\ (IsCut(n) => n \in DOMAIN nodes)
  BY DEF IsShot, IsCut, IsPart
<1>9. \A n : n \in Range(ShotNodes) \ KeptShots(S) <=> IsShot(n) /\ n \notin KeptShots(S)
  BY <1>4, <1>8
<1>10. \A n : n \in {t \in HtmlTransitions : ~(HtmlNeighbors(t) \subseteq S)} <=> IsCut(n) /\ n \notin KeptCuts(S)
  BY <1>1, <1>5, <1>8
<1>11. \A n : n \in {s \in DOMAIN nodes : Kind(s) = "om-scene" /\ Parent(s) = HtmlFilm
                        /\ ~ \E h \in KeptShots(S) : Parent(h) = s} <=> IsScene(n) /\ n \notin KeptScenes(S)
  BY <1>3, <1>7
<1> QED
  BY <1>6, <1>9, <1>10, <1>11

(* The document of a region keeps the film and exactly the region's      *)
(* structure and content.                                                *)
LEMMA WhatIsLeft ==
    ASSUME TreeInv, Accepted, FilmIsFound, NEW S \in SUBSET DOMAIN ShotNodes
    PROVE  /\ RegionDocument(S) \subseteq DOMAIN nodes
           /\ Film \in RegionDocument(S)
           /\ PageFilms(RegionDocument(S)) = {Film}
           /\ \A n : IsScene(n) => (n \in RegionDocument(S) <=> n \in KeptScenes(S))
           /\ \A n : IsShot(n) => (n \in RegionDocument(S) <=> n \in KeptShots(S))
           /\ \A n : IsCut(n) => (n \in RegionDocument(S) <=> n \in KeptCuts(S))
           /\ \A c \in DOMAIN nodes : IsShot(Parent(c)) /\ Kind(c) \in Content =>
                (c \in RegionDocument(S) <=> Parent(c) \in KeptShots(S))
<1> DEFINE Stays(n) == Kind(n) \notin CompilerOnly /\ n \notin Removed(S)
<1>1. \A i : i \in RegionDocument(S) <=> i \in DOMAIN nodes /\ Kind(i) # "text" /\ \A n \in Path(i) : Stays(n)
  BY DEF RegionDocument, IsElement
<1>2. \A n \in Path(Film) : Stays(n) /\ Kind(n) # "text"
  BY WhatIsRemoved DEF Accepted, Shell, CompilerOnly, IsScene, IsShot, IsCut
<1>3. \A n : IsScene(n) => (Stays(n) <=> n \in KeptScenes(S)) /\ Kind(n) # "text"
  BY WhatIsRemoved DEF IsScene, IsShot, IsCut, CompilerOnly
<1>4. \A n : IsShot(n) => (Stays(n) <=> n \in KeptShots(S)) /\ Kind(n) # "text"
  BY WhatIsRemoved DEF IsScene, IsShot, IsCut, CompilerOnly
<1>5. \A n : IsCut(n) => (Stays(n) <=> n \in KeptCuts(S)) /\ Kind(n) # "text"
  BY WhatIsRemoved DEF IsScene, IsShot, IsCut, CompilerOnly
<1>6. \A n \in DOMAIN nodes : Kind(n) \in Content => Stays(n) /\ Kind(n) # "text"
  BY WhatIsRemoved DEF IsScene, IsShot, IsCut, CompilerOnly, Content
<1> HIDE DEF Stays
<1>7. Film \in RegionDocument(S) /\ Film \in DOMAIN nodes
  BY <1>1, <1>2, Levels DEF Accepted
<1>8. PageFilms(RegionDocument(S)) = {Film}
  <2>1. \A i : i \in FilmRoots <=> i \in DOMAIN nodes /\ AtDocumentLevel(i) /\ Kind(i) = "om-film"
    BY DEF FilmRoots
  <2>2. \A i : i \in PageFilms(RegionDocument(S)) <=> i \in RegionDocument(S) /\ Kind(i) = "om-film" /\ AtDocumentLevel(i)
    BY DEF PageFilms
  <2> QED
    BY <1>1, <1>7, <2>1, <2>2 DEF Accepted
<1>9. \A s : IsScene(s) => s \in DOMAIN nodes /\ Path(s) = Path(Film) \cup {s}
  BY Levels DEF IsScene
<1>10. \A n : IsPart(n) => n \in DOMAIN nodes /\ Path(n) = Path(Film) \cup {Parent(n), n}
  BY Levels DEF IsPart
<1>11. \A c \in DOMAIN nodes : IsShot(Parent(c)) => Path(c) = Path(Parent(c)) \cup {c}
  BY Levels
<1>12. \A n : IsScene(n) => (n \in RegionDocument(S) <=> n \in KeptScenes(S))
  BY <1>1, <1>2, <1>3, <1>9
<1>13. \A n : IsShot(n) => (n \in RegionDocument(S) <=> n \in KeptShots(S))
  <2> SUFFICES ASSUME NEW n, IsShot(n) PROVE n \in RegionDocument(S) <=> n \in KeptShots(S)
    OBVIOUS
  <2>1. IsPart(n) /\ IsScene(Parent(n))
    BY DEF IsShot, IsPart
  <2>2. n \in RegionDocument(S) <=> Stays(Parent(n)) /\ Stays(n)
    BY <1>1, <1>2, <1>4, <1>10, <2>1
  <2>3. n \in KeptShots(S) => Parent(n) \in KeptScenes(S)
    BY StructureIsKnown
  <2> QED
    BY <1>3, <1>4, <2>1, <2>2, <2>3
<1>14. \A n : IsCut(n) => (n \in RegionDocument(S) <=> n \in KeptCuts(S))
  <2> SUFFICES ASSUME NEW n, IsCut(n) PROVE n \in RegionDocument(S) <=> n \in KeptCuts(S)
    OBVIOUS
  <2>1. IsPart(n) /\ IsScene(Parent(n))
    BY DEF IsCut, IsPart
  <2>2. n \in RegionDocument(S) <=> Stays(Parent(n)) /\ Stays(n)
    BY <1>1, <1>2, <1>5, <1>10, <2>1
  <2>3. n \in KeptCuts(S) => Parent(n) \in KeptScenes(S)
    BY StructureIsKnown
  <2> QED
    BY <1>3, <1>5, <2>1, <2>2, <2>3
<1>15. \A c \in DOMAIN nodes : IsShot(Parent(c)) /\ Kind(c) \in Content =>
                (c \in RegionDocument(S) <=> Parent(c) \in KeptShots(S))
  <2> SUFFICES ASSUME NEW c \in DOMAIN nodes, IsShot(Parent(c)), Kind(c) \in Content
               PROVE  c \in RegionDocument(S) <=> Parent(c) \in KeptShots(S)
    OBVIOUS
  <2>1. Path(c) = Path(Parent(c)) \cup {c} /\ Parent(c) \in DOMAIN nodes
    BY <1>11 DEF IsShot, IsPart
  <2>2. c \in RegionDocument(S) <=> Parent(c) \in RegionDocument(S)
    BY <1>1, <1>4, <1>6, <2>1
  <2> QED
    BY <1>13, <2>2
<1>16. RegionDocument(S) \subseteq DOMAIN nodes
  BY <1>1
<1> QED
  BY <1>7, <1>8, <1>12, <1>13, <1>14, <1>15, <1>16

-----------------------------------------------------------------------------
(* The page: how it counts what is left.                                 *)

(* The page finds the children of an element in document order.          *)
LEMMA PageOrder ==
    ASSUME TreeInv, NEW D \in SUBSET DOMAIN nodes, NEW i, NEW kinds
    PROVE  /\ Increasing(PageChildren(D, i, kinds))
           /\ Range(PageChildren(D, i, kinds)) = {n \in D : Parent(n) = i /\ Kind(n) \in kinds}
<1>1. {n \in D : Parent(n) = i /\ Kind(n) \in kinds} \in SUBSET (1 .. Len(nodes)) /\ Len(nodes) \in Nat
  BY TreeFacts
<1> QED
  BY <1>1, Ordered DEF PageChildren

(* A scene on the page with its shots and transitions.                   *)
PartsOnPage(D, s) == <<s>> \o PageChildren(D, s, {"om-shot", "om-transition"})

(* They are the region's, in document order.                             *)
LEMMA SceneOnPage ==
    ASSUME TreeInv, Accepted, FilmIsFound, NEW S \in SUBSET DOMAIN ShotNodes, NEW s \in KeptScenes(S)
    PROVE  /\ Increasing(PartsOnPage(RegionDocument(S), s))
           /\ Range(PartsOnPage(RegionDocument(S), s)) =
                {s} \cup {n \in KeptShots(S) \cup KeptCuts(S) : Parent(n) = s}
<1> DEFINE D == RegionDocument(S)
           parts == PageChildren(D, s, {"om-shot", "om-transition"})
<1>1. D \in SUBSET DOMAIN nodes
  BY WhatIsLeft
<1>2. Increasing(parts) /\ Range(parts) = {n \in D : Parent(n) = s /\ Kind(n) \in {"om-shot", "om-transition"}}
  BY <1>1, PageOrder
<1>3. IsScene(s) /\ s \in Nat
  BY StructureIsKnown, Levels
<1>4. \A n \in DOMAIN nodes : Parent(n) = s => (IsShot(n) <=> Kind(n) = "om-shot") /\ (IsCut(n) <=> Kind(n) = "om-transition")
  BY <1>3 DEF IsShot, IsCut, IsPart
<1>5. \A n \in KeptShots(S) \cup KeptCuts(S) : n \in DOMAIN nodes
  BY StructureIsKnown DEF Structural
<1>6. Range(parts) = {n \in KeptShots(S) \cup KeptCuts(S) : Parent(n) = s}
  <2>1. ASSUME NEW n \in DOMAIN nodes, Parent(n) = s
        PROVE  n \in D /\ Kind(n) \in {"om-shot", "om-transition"} <=> n \in KeptShots(S) \cup KeptCuts(S)
    <3>1. CASE Kind(n) = "om-shot"
      <4>1. IsShot(n) /\ ~IsCut(n)
        BY <1>4, <2>1, <3>1
      <4>2. n \in D <=> n \in KeptShots(S)
        BY <4>1, WhatIsLeft
      <4>3. n \notin KeptCuts(S)
        BY <4>1, StructureIsKnown
      <4> QED
        BY <3>1, <4>2, <4>3
    <3>2. CASE Kind(n) = "om-transition"
      <4>1. IsCut(n) /\ ~IsShot(n)
        BY <1>4, <2>1, <3>2
      <4>2. n \in D <=> n \in KeptCuts(S)
        BY <4>1, WhatIsLeft
      <4>3. n \notin KeptShots(S)
        BY <4>1, StructureIsKnown
      <4> QED
        BY <3>2, <4>2, <4>3
    <3>3. CASE Kind(n) \notin {"om-shot", "om-transition"}
      <4>1. ~IsCut(n) /\ ~IsShot(n)
        BY <1>4, <2>1, <3>3
      <4>2. n \notin KeptShots(S) /\ n \notin KeptCuts(S)
        BY <4>1, StructureIsKnown
      <4> QED
        BY <3>3, <4>2
    <3> QED
      BY <3>1, <3>2, <3>3
  <2> QED
    BY <1>1, <1>2, <1>5, <2>1
<1>7. \A n \in Range(parts) : s < n
  <2>1. \A n \in KeptShots(S) \cup KeptCuts(S) : IsPart(n)
    BY StructureIsKnown DEF IsShot, IsCut
  <2> QED
    BY <1>6, <2>1, Levels
<1>8. Increasing(<<s>>) /\ Range(<<s>>) = {s}
  BY <1>3, Single
<1>9. Increasing(<<s>> \o parts) /\ Range(<<s>> \o parts) = {s} \cup Range(parts)
  BY <1>2, <1>7, <1>8, Joined
<1> QED
  BY <1>6, <1>9 DEF PartsOnPage

(* The page walks the region's structure, all of it, in document order.  *)
LEMMA StructureOnPage ==
    ASSUME TreeInv, Accepted, FilmIsFound, NEW S \in SUBSET DOMAIN ShotNodes
    PROVE  /\ Increasing(PageStructure(RegionDocument(S), Film))
           /\ Range(PageStructure(RegionDocument(S), Film)) = Structural(S)
<1> DEFINE D == RegionDocument(S)
           scenes == PageChildren(D, Film, {"om-scene"})
           ss == [s \in DOMAIN scenes |-> PartsOnPage(D, scenes[s])]
<1>1. D \in SUBSET DOMAIN nodes
  BY WhatIsLeft
<1>2. Increasing(scenes) /\ Range(scenes) = {n \in D : Parent(n) = Film /\ Kind(n) = "om-scene"}
  BY <1>1, PageOrder
<1>3. Range(scenes) = KeptScenes(S)
  <2>1. \A n \in DOMAIN nodes : Parent(n) = Film /\ Kind(n) = "om-scene" <=> IsScene(n)
    BY DEF IsScene
  <2>2. \A n \in KeptScenes(S) : IsScene(n) /\ n \in DOMAIN nodes
    BY StructureIsKnown DEF IsScene
  <2>3. \A n : IsScene(n) => (n \in D <=> n \in KeptScenes(S))
    BY WhatIsLeft
  <2> QED
    BY <1>1, <1>2, <2>1, <2>2, <2>3
<1>4. PageStructure(D, Film) = FlattenSeq(ss)
  BY DEF PageStructure, PartsOnPage
<1> HIDE DEF scenes
<1>5. /\ Len(scenes) \in Nat /\ DOMAIN scenes = 1 .. Len(scenes)
      /\ \A i \in 1 .. Len(scenes) : scenes[i] \in KeptScenes(S)
      /\ \A i, j \in 1 .. Len(scenes) : i < j => scenes[i] < scenes[j]
      /\ \A s \in KeptScenes(S) : \E i \in 1 .. Len(scenes) : scenes[i] = s
  BY <1>2, <1>3, Monotone
<1>6. Len(ss) = Len(scenes) /\ \A i \in 1 .. Len(scenes) : ss[i] = PartsOnPage(D, scenes[i])
  BY <1>5
<1>7. Len(ss) = 0 => ss = <<>>
  BY <1>5, <1>6
<1> HIDE DEF ss
<1>8. \A i \in 1 .. Len(scenes) :
         /\ Increasing(ss[i])
         /\ Range(ss[i]) = {scenes[i]} \cup {n \in KeptShots(S) \cup KeptCuts(S) : Parent(n) = scenes[i]}
  <2>1. \A s \in KeptScenes(S) :
          /\ Increasing(PartsOnPage(D, s))
          /\ Range(PartsOnPage(D, s)) = {s} \cup {n \in KeptShots(S) \cup KeptCuts(S) : Parent(n) = s}
    BY SceneOnPage
  <2> QED
    BY <1>5, <1>6, <2>1
<1>9. ASSUME NEW i \in 1 .. Len(scenes), NEW j \in 1 .. Len(scenes), i < j, NEW x \in Range(ss[i]),
             NEW y \in Range(ss[j])
      PROVE  x < y
  <2>1. IsScene(scenes[i]) /\ IsScene(scenes[j]) /\ scenes[i] < scenes[j] /\ scenes[i] \in Nat /\ scenes[j] \in Nat
        /\ scenes[i] \in DOMAIN nodes /\ scenes[j] \in DOMAIN nodes
    BY <1>5, <1>9, StructureIsKnown, Levels DEF IsScene
  <2>2. \A n \in KeptShots(S) \cup KeptCuts(S) : IsPart(n) /\ n \in DOMAIN nodes
    BY StructureIsKnown DEF IsShot, IsCut, IsPart
  <2>3. x \in DOMAIN nodes /\ x \in Nat /\ scenes[i] \in Path(x)
    BY <1>8, <2>1, <2>2, Levels
  <2>4. y \in Nat /\ scenes[j] <= y
    BY <1>8, <2>1, <2>2, Levels
  <2>5. scenes[i] \notin Path(scenes[j])
    BY <2>1, Apart
  <2>6. x < scenes[j]
    BY <2>1, <2>3, <2>5, Before
  <2> QED
    BY <2>1, <2>3, <2>4, <2>6
<1>10. Increasing(FlattenSeq(ss)) /\ Range(FlattenSeq(ss)) = UNION {Range(ss[i]) : i \in 1 .. Len(scenes)}
  BY <1>5, <1>6, <1>7, <1>8, <1>9, Flattened
<1>11. UNION {Range(ss[i]) : i \in 1 .. Len(scenes)} = Structural(S)
  <2>1. \A n \in KeptShots(S) \cup KeptCuts(S) : Parent(n) \in KeptScenes(S)
    BY StructureIsKnown
  <2>2. ASSUME NEW n \in Structural(S) PROVE \E i \in 1 .. Len(scenes) : n \in Range(ss[i])
    BY <1>5, <1>8, <2>1 DEF Structural
  <2>3. ASSUME NEW i \in 1 .. Len(scenes), NEW n \in Range(ss[i]) PROVE n \in Structural(S)
    BY <1>5, <1>8 DEF Structural
  <2> QED
    BY <2>2, <2>3
<1> QED
  BY <1>4, <1>10, <1>11

(* Only the film stands before all of the structure.                     *)
LEMMA AfterTheFilm ==
    ASSUME TreeInv, Accepted, NEW S \in SUBSET DOMAIN ShotNodes, NEW kinds \in SUBSET Content
    PROVE  \A x \in Elements(S, kinds) : x = Film <=> \A y \in Structural(S) : x < y
<1>1. \A y \in Structural(S) : Film < y /\ y \in Nat
  BY StructureIsKnown, Levels DEF Structural, IsShot, IsCut
<1>2. \A x \in Inside(S, kinds) : Parent(x) \in Structural(S) /\ Parent(x) < x /\ x \in Nat /\ Parent(x) \in Nat
  BY StructureIsKnown, Levels DEF Inside, Structural
<1> QED
  BY <1>1, <1>2 DEF Elements

(* What is told of and stands before all that follows an element of the  *)
(* structure stands not behind the element, or in it.                    *)
LEMMA AfterAPart ==
    ASSUME TreeInv, Accepted, NEW S \in SUBSET DOMAIN ShotNodes, NEW kinds \in SUBSET Content,
           NEW e \in Structural(S), NEW x \in Elements(S, kinds)
    PROVE  (\A y \in Structural(S) : e < y => x < y) <=> (x <= e \/ (x \in Inside(S, kinds) /\ Parent(x) = e))
<1>1. \A y \in Structural(S) : /\ Film < y /\ y \in Nat /\ y \in DOMAIN nodes
                               /\ IsScene(y) \/ IsShot(y) \/ IsCut(y)
  BY StructureIsKnown, Levels DEF Structural, IsShot, IsCut
<1>2. \A c \in Inside(S, kinds) : /\ Parent(c) \in Structural(S) /\ IsShot(Parent(c)) /\ c \in DOMAIN nodes
                                  /\ Parent(c) < c /\ c \in Nat /\ Parent(c) \in Nat /\ Parent(c) \in Path(c)
  <2>1. ASSUME NEW c \in Inside(S, kinds) PROVE Parent(c) \in Structural(S) /\ IsShot(Parent(c)) /\ c \in DOMAIN nodes
    BY <2>1, StructureIsKnown DEF Inside, Structural
  <2>2. \A h : IsShot(h) => h \in DOMAIN nodes /\ h \in Path(h)
    BY TreeFacts DEF IsShot, IsPart
  <2> QED
    BY <2>1, <2>2, Levels
<1>3. e \in Nat /\ e \in DOMAIN nodes /\ Film < e
  BY <1>1
<1>4. x \in Nat
  BY <1>1, <1>2, Levels DEF Elements
<1>5. CASE x = Film \/ x \in Structural(S)
  <2>1. x <= e \/ e < x
    BY <1>3, <1>4
  <2>2. x \notin Inside(S, kinds) \/ Parent(x) # e \/ e < x
    BY <1>2
  <2>3. ASSUME x \in Inside(S, kinds), Parent(x) = e PROVE FALSE
    <3>1. Path(x) = Path(e) \cup {x} /\ x \in DOMAIN nodes /\ IsShot(e) /\ e # x
      BY <1>2, <1>3, <1>4, <2>3, Levels
    <3>2. x # Film
      BY <1>2, <1>3, <2>3, <1>4
    <3>3. IsScene(x) \/ IsShot(x) \/ IsCut(x)
      BY <1>1, <1>5, <3>2
    <3> QED
      BY <3>1, <3>3, Apart, <1>2, <2>3
  <2>4. ASSUME e < x PROVE x \in Structural(S) /\ ~(x < x)
    BY <1>3, <1>4, <1>5, <2>4
  <2>5. ASSUME x <= e PROVE \A y \in Structural(S) : e < y => x < y
    BY <1>1, <1>3, <1>4, <2>5
  <2> QED
    BY <2>1, <2>3, <2>4, <2>5
<1>6. CASE x \in Inside(S, kinds)
  <2> DEFINE h == Parent(x)
  <2>1. h \in Structural(S) /\ IsShot(h) /\ x \in DOMAIN nodes /\ h < x /\ h \in Nat /\ h \in Path(x) /\ h \in DOMAIN nodes
    BY <1>1, <1>2, <1>6
  <2> HIDE DEF h
  <2>2. CASE e < h
    BY <1>3, <1>4, <2>1, <2>2 DEF h
  <2>3. CASE e = h
    <3>1. ASSUME NEW y \in Structural(S), e < y PROVE x < y
      <4>1. y \in DOMAIN nodes /\ (IsScene(y) \/ IsShot(y) \/ IsCut(y)) /\ y # h
        BY <1>1, <1>3, <2>3, <3>1
      <4>2. h \notin Path(y)
        BY <2>1, <4>1, Apart
      <4> QED
        BY <2>1, <2>3, <3>1, <4>1, <4>2, Before
    <3> QED
      BY <1>6, <2>3, <3>1 DEF h
  <2>4. CASE h < e
    <3>1. (IsScene(e) \/ IsShot(e) \/ IsCut(e)) /\ e # h
      BY <1>1, <1>3, <2>1, <2>4
    <3>2. h \notin Path(e)
      BY <2>1, <3>1, Apart
    <3>3. x < e
      BY <1>3, <2>1, <2>4, <3>2, Before
    <3> QED
      BY <1>1, <1>3, <1>4, <3>3
  <2> QED
    BY <1>3, <2>1, <2>2, <2>3, <2>4
<1> QED
  BY <1>5, <1>6 DEF Elements

(* The next node keeps the order.                                        *)
LEMMA Appended ==
    ASSUME NEW s, Increasing(s), NEW e \in Nat, \A x \in Range(s) : x < e
    PROVE  Increasing(Append(s, e)) /\ Range(Append(s, e)) = Range(s) \cup {e}
<1>1. Increasing(<<e>>) /\ Range(<<e>>) = {e}
  BY Single
<1>2. Append(s, e) = s \o <<e>>
  BY DEF Increasing
<1> QED
  BY <1>1, <1>2, Joined

(* The index that the page builds, up to an element of the structure.    *)
Indexing(index, document, plan_, structure, m) ==
    index = [n \in 0 .. m |->
               IF n = 0 THEN <<Film>> ELSE Admit(document, plan_, index[n - 1], structure[n])]

(* It exists, however long the structure is.                             *)
LEMMA IndexExists ==
    ASSUME NEW document, NEW plan_, NEW structure, NEW m \in Nat
    PROVE  \E index : Indexing(index, document, plan_, structure, m)
<1> DEFINE P == {n \in Nat : \E f : Indexing(f, document, plan_, structure, n - 1)}
           e(f, n) == IF n = 0 THEN <<Film>> ELSE Admit(document, plan_, f[n - 1], structure[n])
<1>1. 1 \in P
  <2> DEFINE f == [n \in 0 .. 0 |-> <<Film>>]
  <2>1. f = [n \in 0 .. 0 |-> e(f, n)]
    OBVIOUS
  <2>2. 1 \in Nat /\ 1 - 1 = 0
    OBVIOUS
  <2>3. Indexing(f, document, plan_, structure, 0)
    BY <2>1 DEF Indexing
  <2> QED
    BY <2>2, <2>3
<1>2. ASSUME NEW k \in 1 .. m, k \in P PROVE k + 1 \in P
  <2>1. PICK f : Indexing(f, document, plan_, structure, k - 1)
    BY <1>2
  <2> DEFINE g == [n \in 0 .. k |-> IF n = k THEN Admit(document, plan_, f[k - 1], structure[k]) ELSE f[n]]
  <2>2. \A n \in 0 .. k - 1 : f[n] = e(f, n)
    <3>1. f = [n \in 0 .. k - 1 |-> e(f, n)]
      BY <2>1 DEF Indexing
    <3> HIDE DEF e
    <3> QED
      BY <3>1
  <2>3. \A n \in 0 .. k : g[n] = e(g, n)
    <3> SUFFICES ASSUME NEW n \in 0 .. k PROVE g[n] = e(g, n)
      OBVIOUS
    <3>1. CASE n = k
      <4>1. n - 1 = k - 1 /\ k - 1 \in 0 .. k /\ k - 1 # k /\ n # 0
        BY <3>1
      <4>2. g[k - 1] = f[k - 1] /\ g[n] = Admit(document, plan_, f[k - 1], structure[k])
        BY <3>1, <4>1
      <4> QED
        BY <3>1, <4>1, <4>2
    <3>2. CASE n = 0 /\ n # k
      BY <2>2, <3>2
    <3>3. CASE n # 0 /\ n # k
      <4>1. n - 1 \in 0 .. k - 1 /\ n - 1 # k /\ n \in 0 .. k - 1 /\ n - 1 \in 0 .. k
        BY <3>3
      <4>2. g[n] = f[n] /\ g[n - 1] = f[n - 1]
        BY <4>1
      <4> QED
        BY <2>2, <3>3, <4>1, <4>2
    <3> QED
      BY <3>1, <3>2, <3>3
  <2>4. g = [n \in 0 .. k |-> e(g, n)]
    <3>1. g = [n \in 0 .. k |-> g[n]]
      OBVIOUS
    <3> HIDE DEF g, e
    <3> QED
      BY <2>3, <3>1
  <2>5. k + 1 - 1 = k /\ k + 1 \in Nat
    OBVIOUS
  <2> HIDE DEF g
  <2>6. Indexing(g, document, plan_, structure, k + 1 - 1)
    BY <2>4, <2>5 DEF Indexing
  <2> QED
    BY <2>5, <2>6
<1>3. 1 .. m + 1 \subseteq P
  <2>1. m + 1 \in Nat /\ m + 1 - 1 = m
    OBVIOUS
  <2> HIDE DEF P
  <2> QED
    BY <1>1, <1>2, <2>1, Positions
<1>4. m + 1 \in P /\ m + 1 - 1 = m
  BY <1>3
<1> QED
  BY <1>4

(* The plan of a region.                                                 *)
ThePlan(S, b) == PlanOf(Told(S, b), S)

\* What of an element's is on the page, that has a node.
(* What of a shot's content has a node in the plan.                      *)
Owned(S, b, e) == {c \in Inside(S, ToldKinds(b)) : Parent(c) = e}

(* The selector of the page finds in a shot just that content: the       *)
(* plan's list of shots with videos tells it whether to count them.      *)
LEMMA SelectedContent ==
    ASSUME TreeInv, Accepted, FilmIsFound, CompiledFilm = TheFilm, NEW S \in SUBSET DOMAIN ShotNodes,
           NEW b \in BOOLEAN,
           NEW e \in KeptShots(S), NEW n \in DOMAIN Told(S, b), Told(S, b)[n] = e
    PROVE  LET children == PageChildren(RegionDocument(S), e, ContentSelector(ThePlan(S, b), n)) IN
           Increasing(children) /\ Range(children) = Owned(S, b, e)
<1> DEFINE D == RegionDocument(S)
           selector == ContentSelector(ThePlan(S, b), n)
<1>1. D \in SUBSET DOMAIN nodes
  BY WhatIsLeft
<1>2. Increasing(PageChildren(D, e, selector))
      /\ Range(PageChildren(D, e, selector)) = {c \in D : Parent(c) = e /\ Kind(c) \in selector}
  BY <1>1, PageOrder
<1>3. IsShot(e)
  BY StructureIsKnown
<1>4. \A c \in DOMAIN nodes : Parent(c) = e /\ Kind(c) \in Content => c \in D
  BY <1>3, WhatIsLeft
<1>5. n \in ThePlan(S, b).videoShots <=> \E v \in Elements(S, ToldKinds(b)) : Kind(v) = "video" /\ Parent(v) = e
  BY ToldElements DEF ThePlan, PlanOf
<1>6. selector \subseteq Content
  BY DEF ContentSelector, Content
<1>7. ASSUME NEW c \in DOMAIN nodes, Parent(c) = e
      PROVE  Kind(c) \in selector <=> Kind(c) \in ToldKinds(b)
  <2>1. CASE Kind(c) \in {"om-title", "om-cta"}
    BY <2>1 DEF ContentSelector, ToldKinds, Content
  <2>2. CASE Kind(c) = "video"
    <3>1. ASSUME b PROVE c \in Elements(S, ToldKinds(b))
      BY <1>7, <2>2, <3>1 DEF Elements, Inside, ToldKinds, Content
    <3>2. ASSUME ~b, NEW v \in Elements(S, ToldKinds(b)), Kind(v) = "video" PROVE FALSE
      <4>1. v # Film
        BY <3>2 DEF Accepted
      <4>2. v \notin Structural(S)
        BY <3>2, StructureIsKnown DEF Structural, IsScene, IsShot, IsCut
      <4> QED
        BY <3>2, <4>1, <4>2 DEF Elements, Inside, ToldKinds
    <3>3. Kind(c) \in selector <=> n \in ThePlan(S, b).videoShots
      BY <2>2 DEF ContentSelector
    <3>4. Kind(c) \in ToldKinds(b) <=> b
      BY <2>2 DEF ToldKinds, Content
    <3> QED
      BY <1>5, <1>7, <2>2, <3>1, <3>2, <3>3, <3>4
  <2>3. CASE Kind(c) \notin Content
    BY <1>6, <2>3 DEF ToldKinds
  <2> QED
    BY <2>1, <2>2, <2>3 DEF Content
<1>8. {c \in D : Parent(c) = e /\ Kind(c) \in selector} = Owned(S, b, e)
  <2>1. ToldKinds(b) \subseteq Content
    BY DEF ToldKinds
  <2>2. \A c : c \in Owned(S, b, e) <=> c \in DOMAIN nodes /\ Parent(c) = e /\ Kind(c) \in ToldKinds(b)
    BY DEF Owned, Inside
  <2> QED
    BY <1>1, <1>4, <1>7, <2>1, <2>2
<1> QED
  BY <1>2, <1>8

(* If the page has counted all the elements of the plan before an        *)
(* element of the structure, the next place is that element's, and       *)
(* after it the page has counted all before the next one.                *)
LEMMA AdmitsTheNext ==
    ASSUME TreeInv, Accepted, FilmIsFound, CompiledFilm = TheFilm, NEW S \in SUBSET DOMAIN ShotNodes,
           NEW b \in BOOLEAN,
           NEW e \in Structural(S), NEW s, Increasing(s),
           Range(s) = {x \in Elements(S, ToldKinds(b)) : x < e}
    PROVE  LET t == Admit(RegionDocument(S), ThePlan(S, b), s, e) IN
           /\ Increasing(t)
           /\ Range(t) = {x \in Elements(S, ToldKinds(b)) : \A y \in Structural(S) : e < y => x < y}
<1> DEFINE T == Elements(S, ToldKinds(b))
           D == RegionDocument(S)
<1>1. Increasing(Told(S, b)) /\ Range(Told(S, b)) = T
  BY ToldElements
<1>2. e \in T /\ e \in Nat
  BY <1>1, Monotone DEF Elements
<1>3. Len(s) + 1 \in DOMAIN Told(S, b) /\ Told(S, b)[Len(s) + 1] = e
  BY <1>1, <1>2, NextMember
<1>4. Increasing(Append(s, e)) /\ Range(Append(s, e)) = Range(s) \cup {e}
  BY <1>2, Appended
<1>5. ToldKinds(b) \in SUBSET Content
  BY DEF ToldKinds
<1>6. \A x \in T : (\A y \in Structural(S) : e < y => x < y) <=> (x <= e \/ (x \in Inside(S, ToldKinds(b)) /\ Parent(x) = e))
  BY <1>5, AfterAPart
<1>7. \A x \in T : x \in Nat
  BY <1>1, Monotone
<1>8. Range(Append(s, e)) = {x \in T : x <= e}
  <2>1. Range(s) = {x \in T : x < e}
    OBVIOUS
  <2> HIDE DEF T
  <2>2. \A x \in T : x <= e <=> (x < e \/ x = e)
    BY <1>2, <1>7
  <2>3. e \in T
    BY <1>2
  <2>4. \A x : x \in Range(s) \cup {e} <=> x \in {y \in T : y <= e}
    BY <2>1, <2>2, <2>3
  <2> QED
    BY <1>4, <2>4
<1>9. {x \in T : \A y \in Structural(S) : e < y => x < y} = {x \in T : x <= e} \cup Owned(S, b, e)
  BY <1>6 DEF Owned, Elements
<1> HIDE DEF T
<1>10. CASE Kind(e) = "om-shot"
  <2>1. e \in KeptShots(S)
    BY <1>10, StructureIsKnown DEF Structural, IsScene, IsCut
  <2> DEFINE children == PageChildren(D, e, ContentSelector(ThePlan(S, b), Len(s) + 1))
  <2>2. Increasing(children) /\ Range(children) = Owned(S, b, e)
    BY <1>3, <2>1, SelectedContent
  <2>3. Admit(D, ThePlan(S, b), s, e) = Append(s, e) \o children
    BY <1>10 DEF Admit
  <2> HIDE DEF children
  <2>4. \A x \in Range(Append(s, e)), y \in Owned(S, b, e) : x < y
    <3>1. \A y \in Owned(S, b, e) : y \in Nat /\ e < y
      BY <2>1, StructureIsKnown, Levels DEF Owned, Inside
    <3>2. \A x \in Range(Append(s, e)) : x \in Nat /\ x <= e
      BY <1>7, <1>8
    <3> QED
      BY <1>2, <3>1, <3>2
  <2>5. Increasing(Append(s, e) \o children) /\ Range(Append(s, e) \o children) = Range(Append(s, e)) \cup Range(children)
    BY <1>4, <2>2, <2>4, Joined
  <2> QED
    BY <1>8, <1>9, <2>2, <2>3, <2>5 DEF T
<1>11. CASE Kind(e) # "om-shot"
  <2>1. Owned(S, b, e) = {}
    BY <1>11, StructureIsKnown DEF Owned, Inside, IsShot
  <2>2. Admit(D, ThePlan(S, b), s, e) = Append(s, e)
    BY <1>11 DEF Admit
  <2> QED
    BY <1>4, <1>8, <1>9, <2>1, <2>2 DEF T
<1> QED
  BY <1>10, <1>11

(* So the page counts what the compiler has numbered.                    *)
LEMMA PageCountsAlike ==
    ASSUME TreeInv, Accepted, FilmIsFound, CompiledFilm = TheFilm, NEW S \in SUBSET DOMAIN ShotNodes,
           NEW b \in BOOLEAN
    PROVE  AuthoredNodes(RegionDocument(S), ThePlan(S, b)) = Told(S, b)
<1> DEFINE T == Elements(S, ToldKinds(b))
           D == RegionDocument(S)
           st == PageStructure(D, Film)
           L == Len(st)
           index == CHOOSE f : Indexing(f, D, ThePlan(S, b), st, L)
           e(f, n) == IF n = 0 THEN <<Film>> ELSE Admit(D, ThePlan(S, b), f[n - 1], st[n])
<1>1. Increasing(st) /\ Range(st) = Structural(S)
  BY StructureOnPage
<1>2. PageFilms(D) = {Film}
  BY WhatIsLeft
<1>3. AuthoredNodes(D, ThePlan(S, b)) = index[L]
  BY <1>2 DEF AuthoredNodes, Indexing
<1> HIDE DEF st
<1>4. /\ L \in Nat /\ DOMAIN st = 1 .. L
      /\ \A i \in 1 .. L : st[i] \in Structural(S) /\ st[i] \in Nat
      /\ \A i, j \in 1 .. L : i < j <=> st[i] < st[j]
      /\ \A x \in Structural(S) : \E i \in 1 .. L : st[i] = x
  BY <1>1, Monotone
<1>5. Indexing(index, D, ThePlan(S, b), st, L)
  BY <1>4, IndexExists
<1> HIDE DEF index
<1>6. \A n \in 0 .. L : index[n] = e(index, n)
  <2>1. index = [n \in 0 .. L |-> e(index, n)]
    BY <1>5 DEF Indexing
  <2> HIDE DEF e, L
  <2> QED
    BY <2>1
<1>7. ToldKinds(b) \in SUBSET Content
  BY DEF ToldKinds
<1> DEFINE Counted(n) == /\ Increasing(index[n])
                         /\ Range(index[n]) = {x \in T : \A m \in n + 1 .. L : x < st[m]}
<1>8. Increasing(Told(S, b)) /\ Range(Told(S, b)) = T /\ \A x \in T : x \in Nat
  BY ToldElements, Monotone
<1>9. \A n \in 0 .. L : Counted(n)
  <2> DEFINE P == {k \in Nat : Counted(k - 1)}
  <2>1. 1 \in P
    <3>1. index[0] = <<Film>> /\ Film \in Nat
      BY <1>4, <1>6, Levels
    <3>2. Increasing(<<Film>>) /\ Range(<<Film>>) = {Film}
      BY <3>1, Single
    <3>3. \A x \in T : x = Film <=> \A y \in Structural(S) : x < y
      BY <1>7, AfterTheFilm
    <3>4. \A x \in T : x = Film <=> \A m \in 1 .. L : x < st[m]
      BY <1>4, <3>3
    <3>5. Film \in T
      BY DEF Elements
    <3>6. {x \in T : \A m \in 1 .. L : x < st[m]} = {Film}
      BY <3>4, <3>5
    <3>7. Counted(0)
      BY <3>1, <3>2, <3>6
    <3>8. 1 \in Nat /\ 1 - 1 = 0
      OBVIOUS
    <3> QED
      BY <3>7, <3>8
  <2>2. ASSUME NEW k \in 1 .. L, k \in P PROVE k + 1 \in P
    <3>1. Counted(k - 1)
      BY <2>2
    <3> DEFINE s == index[k - 1]
    <3>2. k - 1 + 1 = k /\ k \in Nat /\ k \in 0 .. L /\ k # 0 /\ k + 1 - 1 = k
      BY <1>4
    <3>3. index[k] = Admit(D, ThePlan(S, b), s, st[k])
      BY <1>6, <3>2
    <3>4. Increasing(s) /\ Range(s) = {x \in T : \A m \in k .. L : x < st[m]}
      BY <3>1, <3>2
    <3>5. {x \in T : \A m \in k .. L : x < st[m]} = {x \in T : x < st[k]}
      <4>1. \A m \in k .. L : m \in 1 .. L /\ (m = k \/ st[k] < st[m]) /\ st[m] \in Nat /\ st[k] \in Nat
        BY <1>4
      <4>2. k \in k .. L
        BY <1>4
      <4> QED
        BY <1>8, <4>1, <4>2
    <3>6. /\ Increasing(index[k])
          /\ Range(index[k]) = {x \in T : \A y \in Structural(S) : st[k] < y => x < y}
      BY <1>4, <3>3, <3>4, <3>5, AdmitsTheNext
    <3>7. \A x \in T : (\A y \in Structural(S) : st[k] < y => x < y) <=> (\A m \in k + 1 .. L : x < st[m])
      <4>1. \A m \in 1 .. L : st[k] < st[m] <=> m \in k + 1 .. L
        BY <1>4
      <4>2. \A m \in k + 1 .. L : m \in 1 .. L
        BY <1>4
      <4> QED
        BY <1>4, <4>1, <4>2
    <3>8. Counted(k)
      <4>1. {x \in T : \A y \in Structural(S) : st[k] < y => x < y} = {x \in T : \A m \in k + 1 .. L : x < st[m]}
        BY <3>7
      <4> QED
        BY <3>6, <4>1
    <3> HIDE DEF Counted
    <3> QED
      BY <3>2, <3>8
  <2> HIDE DEF Counted
  <2>3. 1 .. L + 1 \subseteq P
    <3>1. L \in Nat /\ L + 1 \in Nat /\ L + 1 - 1 = L
      BY <1>4
    <3> HIDE DEF P, L
    <3> QED
      BY <2>1, <2>2, <3>1, Positions
  <2>4. ASSUME NEW n \in 0 .. L PROVE Counted(n)
    <3>1. n + 1 \in 1 .. L + 1 /\ n + 1 - 1 = n
      BY <1>4
    <3>2. n + 1 \in P
      BY <2>3, <3>1
    <3>3. Counted(n + 1 - 1)
      BY <3>2
    <3> QED
      BY <3>1, <3>3
  <2> QED
    BY <2>4
<1>10. Counted(L)
  BY <1>4, <1>9
<1>11. {x \in T : \A m \in L + 1 .. L : x < st[m]} = T
  BY <1>4
<1>12. Increasing(index[L]) /\ Range(index[L]) = T
  BY <1>10, <1>11
<1> QED
  BY <1>3, <1>8, <1>12, SameSequence

-----------------------------------------------------------------------------
(* Loading a region.                                                     *)

(* A region is one shot of the film or two, never none.                  *)
LEMMA RegionsAreOfShots ==
    ASSUME TreeInv, Accepted, CompiledFilm = TheFilm, NEW S \in Regions
    PROVE  S \in SUBSET DOMAIN ShotNodes /\ S # {}
<1> DEFINE shots == TheFilm.shots
<1>1. shots = [k \in DOMAIN ShotNodes |-> ResolvedShot(ShotNodes[k])]
  BY ShotsInOrder
<1> HIDE DEF shots
<1>2. DOMAIN shots = DOMAIN ShotNodes /\ \A k \in DOMAIN ShotNodes : shots[k].cut = CutsAt(k)
  BY <1>1 DEF ResolvedShot, CutsAt
<1>3. Regions = {{k} : k \in DOMAIN shots} \cup {{k - 1, k} : k \in {n \in DOMAIN shots : shots[n].cut # {}}}
  BY DEF Regions, shots
<1>4. CASE \E k \in DOMAIN ShotNodes : S = {k}
  BY <1>4
<1>5. CASE \E k \in DOMAIN ShotNodes : CutsAt(k) # {} /\ S = {k - 1, k}
  <2>1. PICK k \in DOMAIN ShotNodes : CutsAt(k) # {} /\ S = {k - 1, k}
    BY <1>5
  <2>2. k - 1 \in DOMAIN ShotNodes
    BY <2>1, CutLies
  <2> QED
    BY <2>1, <2>2
<1> QED
  BY <1>2, <1>3, <1>4, <1>5

(* A sequence is as long as itself.                                      *)
LEMMA WholePlan ==
    ASSUME NEW s, Increasing(s)
    PROVE  SubSeq(s, 1, Len(s)) = s
<1>1. s \in Seq(Nat)
  BY DEF Increasing
<1> QED
  BY <1>1

(* A page loads whatever region the bundler and the compiler give it,    *)
(* but for its bindings, and binds every node to the element it was      *)
(* compiled from.                                                        *)
LEMMA PlanIsBound ==
    ASSUME TreeInv, Accepted, FilmIsFound, CompiledFilm = TheFilm, NEW S \in SUBSET DOMAIN ShotNodes,
           NEW b \in BOOLEAN
    PROVE  LET told == ThePlan(S, b)
               document == RegionDocument(S) IN
           /\ ~BundlerRefuses /\ S \subseteq DOMAIN HtmlShots
           /\ LoadFailure(document, told) =
                IF told.fields # {nodes[i].field : i \in Applied(document, told)} THEN "MissingBinding" ELSE "none"
           /\ SubSeq(AuthoredNodes(document, told), 1, Len(told.nodes)) = told.elements
<1> DEFINE told == ThePlan(S, b)
           document == RegionDocument(S)
           seq == Told(S, b)
<1>1. AuthoredNodes(document, told) = seq
  BY PageCountsAlike
<1>2. Increasing(seq)
  BY ToldElements
<1>3. told.elements = seq /\ told.nodes = [n \in DOMAIN seq |-> [kind |-> Kind(seq[n]), id |-> nodes[seq[n]].id]]
  BY DEF ThePlan, PlanOf
<1> HIDE DEF seq, told
<1>4. Len(seq) \in Nat /\ DOMAIN seq = 1 .. Len(seq)
  BY <1>2, Monotone
<1>5. Len(told.nodes) = Len(seq)
  BY <1>3, <1>4
<1>6. ~Mismatched(told, seq)
  <2>1. DOMAIN told.nodes = DOMAIN seq
    BY <1>3
  <2>2. \A n \in DOMAIN seq : told.nodes[n].kind = Kind(seq[n]) /\ told.nodes[n].id = nodes[seq[n]].id
    BY <1>3
  <2> QED
    BY <2>1, <2>2 DEF Mismatched
<1>7. Cardinality(PageFilms(document)) = 1
  <2>1. PageFilms(document) = {Film}
    BY WhatIsLeft
  <2> QED
    BY <2>1, FS_Singleton
<1>8. SubSeq(AuthoredNodes(document, told), 1, Len(told.nodes)) = told.elements
  BY <1>1, <1>2, <1>3, <1>5, WholePlan
<1>9. ~BundlerRefuses /\ S \subseteq DOMAIN HtmlShots
  BY BundlerAgrees
<1>10. LoadFailure(document, told) =
         IF told.fields # {nodes[i].field : i \in Applied(document, told)} THEN "MissingBinding" ELSE "none"
  BY <1>1, <1>6, <1>7 DEF LoadFailure
<1> QED
  BY <1>8, <1>9, <1>10 DEF told

(* The elements that own a part of the document.                         *)
Owners == {"om-film", "om-scene", "om-shot", "om-transition"}

(* The path of an element on a path is a part of that path.              *)
LEMMA PathsNest ==
    ASSUME TreeInv, NEW i \in DOMAIN nodes, NEW a \in Path(i)
    PROVE  Path(a) \subseteq Path(i)
<1>1. i \in Nat /\ Path(i) \subseteq 1 .. i /\ a \in DOMAIN nodes /\ a \in Nat /\ a <= i
  <2>1. Len(nodes) \in Nat /\ DOMAIN nodes = 1 .. Len(nodes) /\ Path(i) \subseteq 1 .. i
    BY TreeFacts
  <2> QED
    BY <2>1
<1> DEFINE P == {m \in Nat : \A n \in DOMAIN nodes : n < m => \A c \in Path(n) : Path(c) \subseteq Path(n)}
<1>2. 1 \in P
  BY TreeFacts
<1>3. ASSUME NEW m \in 1 .. i, m \in P PROVE m + 1 \in P
  <2>1. ASSUME NEW n \in DOMAIN nodes, n < m + 1, NEW c \in Path(n) PROVE Path(c) \subseteq Path(n)
    <3>1. n \in Nat /\ Parent(n) \in 0 .. n - 1
      BY TreeFacts
    <3>2. CASE c = n
      BY <3>2
    <3>3. CASE c # n
      <4>1. Parent(n) # 0
        BY <2>1, <3>3, TreeFacts
      <4>2. Parent(n) \in DOMAIN nodes /\ Path(n) = Path(Parent(n)) \cup {n} /\ Parent(n) < m
        BY <2>1, <3>1, <4>1, TreeFacts
      <4>3. Path(c) \subseteq Path(Parent(n))
        BY <1>3, <2>1, <3>3, <4>2
      <4> QED
        BY <4>2, <4>3
    <3> QED
      BY <3>2, <3>3
  <2> QED
    BY <1>3, <2>1
<1>4. i + 1 \in P
  <2>1. i + 1 \in Nat /\ i + 1 - 1 = i
    BY <1>1
  <2> HIDE DEF P
  <2>2. 1 .. i + 1 \subseteq P
    BY <1>1, <1>2, <1>3, <2>1, Positions
  <2> QED
    BY <1>1, <2>2
<1> QED
  BY <1>1, <1>4

(* An owner that the binder comes to is the film or of its structure.    *)
LEMMA BoundOwners ==
    ASSUME TreeInv, Accepted, NEW s \in Bound, Kind(s) \in Owners
    PROVE  s = Film \/ IsScene(s) \/ IsShot(s) \/ IsCut(s)
<1>1. /\ s \in DOMAIN nodes /\ Film \in Path(s)
      /\ \A n \in Path(s) : n > Film => Known(Parent(n)) /\ Kind(n) \in Legal[Kind(Parent(n))]
  BY DEF Bound, IsBound
<1>2. \A n : Known(n) =>
        /\ "om-film" \notin Legal[Kind(n)]
        /\ "om-scene" \in Legal[Kind(n)] => Kind(n) = "om-film"
        /\ Kind(n) # "om-film" => "om-scene" \notin Legal[Kind(n)]
        /\ "om-shot" \in Legal[Kind(n)] \/ "om-transition" \in Legal[Kind(n)] => Kind(n) = "om-scene"
  BY DEF Known, Legal
<1>3. \A n \in Path(s) : n \in DOMAIN nodes /\ n \in Nat
  <2>1. Len(nodes) \in Nat /\ DOMAIN nodes = 1 .. Len(nodes) /\ Path(s) \subseteq 1 .. s
    BY <1>1, TreeFacts
  <2> QED
    BY <1>1, <2>1
<1>4. ASSUME NEW n \in Path(s), n > Film
      PROVE  Parent(n) \in Path(s) /\ Film <= Parent(n)
  <2>1. n \in DOMAIN nodes /\ n \in Nat /\ Film \in Nat \ {0} /\ s \in Nat /\ n <= s
    BY <1>1, <1>3, TreeFacts, Levels
  <2>2. Film \in Path(n)
    <3>1. \A a \in Path(s) : \A j \in a .. s : a \in Path(j)
      BY <1>1, TreeFacts
    <3>2. n \in Film .. s
      BY <1>4, <2>1
    <3> QED
      BY <1>1, <3>1, <3>2
  <2>3. Parent(n) # 0
    BY <1>4, <2>1, <2>2, TreeFacts
  <2>4. Path(n) = Path(Parent(n)) \cup {n} /\ Parent(n) \in DOMAIN nodes
    BY <2>1, <2>3, TreeFacts
  <2>5. Film \in Path(Parent(n)) /\ Parent(n) \in Path(n)
    BY <1>4, <2>1, <2>2, <2>4, TreeFacts
  <2>6. Film <= Parent(n)
    BY <2>4, <2>5, TreeFacts
  <2>7. Parent(n) \in Path(s)
    <3>1. Path(n) \subseteq Path(s)
      BY <1>1, <1>4, PathsNest
    <3> QED
      BY <2>5, <3>1
  <2> QED
    BY <2>6, <2>7
<1>5. ASSUME NEW n \in Path(s), Kind(n) = "om-film", Film <= n PROVE n = Film
  BY <1>1, <1>2, <1>3, <1>5, Levels
<1>6. ASSUME NEW n \in Path(s), Kind(n) = "om-scene", Film <= n PROVE IsScene(n)
  <2>1. n # Film /\ n > Film
    BY <1>3, <1>6, Levels DEF Accepted
  <2>2. Parent(n) \in Path(s) /\ Film <= Parent(n) /\ Kind(Parent(n)) = "om-film"
    BY <1>1, <1>2, <1>4, <1>6, <2>1
  <2> QED
    BY <1>3, <1>5, <1>6, <2>2 DEF IsScene
<1>7. ASSUME Kind(s) \in {"om-shot", "om-transition"} PROVE IsShot(s) \/ IsCut(s)
  <2>1. s \in Path(s) /\ s > Film
    BY <1>1, <1>7, TreeFacts, Levels DEF Accepted
  <2>2. Parent(s) \in Path(s) /\ Film <= Parent(s) /\ Kind(Parent(s)) = "om-scene"
    BY <1>1, <1>2, <1>4, <1>7, <2>1
  <2> QED
    BY <1>1, <1>6, <1>7, <2>2 DEF IsShot, IsCut, IsPart
<1>8. s \in Path(s) /\ Film <= s
  BY <1>1, TreeFacts
<1> QED
  BY <1>5, <1>6, <1>7, <1>8 DEF Owners

(* A scope affects a region if it is the film or one of the region's     *)
(* structure.                                                            *)
LEMMA AffectsTheKept ==
    ASSUME TreeInv, Accepted, CompiledFilm = TheFilm, NEW S \in SUBSET DOMAIN ShotNodes, S # {}, NEW s
    PROVE  Affects(s, S) <=> s \in {Film} \cup Structural(S)
<1> DEFINE shots == TheFilm.shots
<1>1. shots = [k \in DOMAIN ShotNodes |-> ResolvedShot(ShotNodes[k])] /\ TheFilm.node = Film
  BY ShotsInOrder
<1> HIDE DEF shots
<1>2. \A k \in DOMAIN ShotNodes : shots[k].cut = CutsAt(k) /\ shots[k].scene = Parent(ShotNodes[k]) /\ shots[k].node = ShotNodes[k]
  BY <1>1 DEF ResolvedShot, CutsAt
<1>3. Affects(s, S) <=>
        \E k \in S : \/ s \in {Film, Parent(ShotNodes[k]), ShotNodes[k]}
                     \/ s \in CutsAt(k) /\ k - 1 \in S
  <2>1. Affects(s, S) <=> \E k \in S : \/ s \in {TheFilm.node, shots[k].scene, shots[k].node}
                                       \/ s \in shots[k].cut /\ k - 1 \in S
    BY DEF Affects, shots
  <2> QED
    BY <1>1, <1>2, <2>1
<1> QED
  BY <1>3 DEF Structural, KeptScenes, KeptShots, KeptCuts

(* Every binding has a scope: the innermost owner around it.             *)
LEMMA ScopeIsInnermost ==
    ASSUME TreeInv, Accepted, NEW i \in DOMAIN nodes, Film \in Path(i)
    PROVE  /\ Scope(i) \in Path(i) /\ Film <= Scope(i) /\ Kind(Scope(i)) \in Owners
           /\ \A n \in Path(i) : n >= Film /\ Kind(n) \in Owners => n <= Scope(i)
<1> DEFINE owners == {n \in Path(i) : n >= Film /\ Kind(n) \in Owners}
           s == InOrder(owners)
<1>1. i \in Nat /\ Path(i) \subseteq 1 .. i
  BY TreeFacts
<1>2. Film \in owners
  BY <1>1, Levels DEF Accepted, Owners
<1>3. Increasing(s) /\ Range(s) = owners
  BY <1>1, Ordered
<1>4. Scope(i) = CHOOSE n \in owners : \A m \in owners : m <= n
  BY DEF Scope, Owners
<1> HIDE DEF owners, s
<1>5. /\ Len(s) \in Nat /\ \A x \in owners : \E k \in 1 .. Len(s) : s[k] = x
      /\ \A k, l \in 1 .. Len(s) : k <= l <=> s[k] <= s[l]
      /\ \A k \in 1 .. Len(s) : s[k] \in owners
  BY <1>3, Monotone
<1>6. Len(s) \in 1 .. Len(s)
  BY <1>2, <1>5
<1>7. s[Len(s)] \in owners /\ \A m \in owners : m <= s[Len(s)]
  BY <1>5, <1>6
<1>8. Scope(i) \in owners /\ \A m \in owners : m <= Scope(i)
  BY <1>4, <1>7
<1> QED
  BY <1>1, <1>8, Levels DEF owners

(* The document of a region keeps the same owners.                       *)
LEMMA OwnersOfTheKept ==
    ASSUME TreeInv, Accepted, FilmIsFound, NEW S \in SUBSET DOMAIN ShotNodes,
           NEW s \in Bound, Kind(s) \in Owners
    PROVE  s \in RegionDocument(S) <=> s \in {Film} \cup Structural(S)
<1>1. s = Film \/ IsScene(s) \/ IsShot(s) \/ IsCut(s)
  BY BoundOwners
<1>2. Kind(Film) = "om-film"
  BY DEF Accepted
<1>3. /\ \A n \in KeptScenes(S) : IsScene(n)
      /\ \A n \in KeptShots(S) : IsShot(n)
      /\ \A n \in KeptCuts(S) : IsCut(n)
  BY StructureIsKnown
<1>4. CASE s = Film
  BY <1>4, WhatIsLeft
<1>5. CASE IsScene(s)
  <2>1. s \in RegionDocument(S) <=> s \in KeptScenes(S)
    BY <1>5, WhatIsLeft
  <2>2. Kind(s) = "om-scene"
    BY <1>5 DEF IsScene
  <2>3. s # Film /\ s \notin KeptShots(S) /\ s \notin KeptCuts(S)
    BY <1>2, <1>3, <2>2 DEF IsShot, IsCut
  <2> QED
    BY <2>1, <2>3 DEF Structural
<1>6. CASE IsShot(s)
  <2>1. s \in RegionDocument(S) <=> s \in KeptShots(S)
    BY <1>6, WhatIsLeft
  <2>2. Kind(s) = "om-shot"
    BY <1>6 DEF IsShot
  <2>3. s # Film /\ s \notin KeptScenes(S) /\ s \notin KeptCuts(S)
    BY <1>2, <1>3, <2>2 DEF IsScene, IsCut
  <2> QED
    BY <2>1, <2>3 DEF Structural
<1>7. CASE IsCut(s)
  <2>1. s \in RegionDocument(S) <=> s \in KeptCuts(S)
    BY <1>7, WhatIsLeft
  <2>2. Kind(s) = "om-transition"
    BY <1>7 DEF IsCut
  <2>3. s # Film /\ s \notin KeptScenes(S) /\ s \notin KeptShots(S)
    BY <1>2, <1>3, <2>2 DEF IsScene, IsShot
  <2> QED
    BY <2>1, <2>3 DEF Structural
<1> QED
  BY <1>1, <1>4, <1>5, <1>6, <1>7

(* A binding whose scope affects the region is on its page, unless it    *)
(* stands in captions.                                                   *)
LEMMA AffectedIsOnPage ==
    ASSUME TreeInv, Accepted, FilmIsFound, CompiledFilm = TheFilm,
           NEW S \in SUBSET DOMAIN ShotNodes, S # {},
           NEW i \in Bindings, Scope(i) \in Bound, Affects(Scope(i), S), ~InCaptions(i)
    PROVE  i \in RegionDocument(S)
<1>1. i \in DOMAIN nodes /\ Film \in Path(i) /\ nodes[i].field # "none" /\ ~Forbidden(i)
  BY DEF Bindings, HasBinding, Accepted
<1>2. /\ Scope(i) \in Path(i) /\ Film <= Scope(i) /\ Kind(Scope(i)) \in Owners
      /\ \A n \in Path(i) : n >= Film /\ Kind(n) \in Owners => n <= Scope(i)
  BY <1>1, ScopeIsInnermost
<1>3. Scope(i) \in RegionDocument(S)
  BY <1>2, AffectsTheKept, OwnersOfTheKept
<1>4. IsElement(i)
  BY <1>1 DEF TreeInv, IsElement
<1>5. Len(nodes) \in Nat /\ DOMAIN nodes = 1 .. Len(nodes) /\ i \in Nat /\ Path(i) \subseteq 1 .. i
  BY <1>1, TreeFacts
<1>6. ASSUME NEW n \in Path(i) PROVE Kind(n) \notin CompilerOnly /\ n \notin Removed(S)
  <2>1. n \in DOMAIN nodes /\ n \in Nat /\ Film \in Nat \ {0} /\ n <= i
    BY <1>1, <1>5, Levels
  <2>2. CASE n < Film
    <3>1. Film \in 1 .. i
      BY <1>1, <1>5
    <3>2. n \in Path(Film) /\ n # Film
      BY <1>1, <2>1, <2>2, <3>1, TreeFacts
    <3>3. Kind(n) \in Shell
      BY <3>2 DEF Accepted
    <3> QED
      BY <3>3, WhatIsRemoved DEF Shell, CompilerOnly, IsScene, IsShot, IsCut
  <2>3. CASE n >= Film
    <3>1. Kind(n) \notin ForbidsBindings /\ Kind(n) # "om-captions"
      BY <1>1, <2>3 DEF Forbidden, InCaptions
    <3>2. Kind(n) \notin CompilerOnly
      BY <3>1 DEF ForbidsBindings, CompilerOnly
    <3>3. ASSUME n \in Removed(S) PROVE FALSE
      <4>1. Kind(n) \in Owners
        BY <3>3, WhatIsRemoved DEF Owners, IsScene, IsShot, IsCut
      <4>2. n <= Scope(i) /\ Scope(i) \in Nat /\ Scope(i) <= i
        BY <1>2, <1>5, <2>3, <4>1
      <4>3. n \in Path(Scope(i))
        BY <1>1, <2>1, <4>2, TreeFacts
      <4> QED
        BY <1>3, <3>3, <4>3 DEF RegionDocument
    <3> QED
      BY <3>2, <3>3
  <2> QED
    BY <2>1, <2>2, <2>3
<1> QED
  BY <1>1, <1>4, <1>6 DEF RegionDocument

(* A binding that is on the page has a scope that affects the region,    *)
(* if its owner is of the film.                                          *)
LEMMA OnPageIsAffected ==
    ASSUME TreeInv, Accepted, FilmIsFound, CompiledFilm = TheFilm,
           NEW S \in SUBSET DOMAIN ShotNodes, S # {},
           NEW i \in Bindings, Scope(i) \in Bound, i \in RegionDocument(S)
    PROVE  Affects(Scope(i), S)
<1>1. i \in DOMAIN nodes /\ Film \in Path(i)
  BY DEF Bindings
<1>2. Scope(i) \in Path(i) /\ Kind(Scope(i)) \in Owners
  BY <1>1, ScopeIsInnermost
<1>3. Path(Scope(i)) \subseteq Path(i)
  BY <1>1, <1>2, PathsNest
<1>4. Scope(i) \in RegionDocument(S)
  <2>1. IsElement(Scope(i)) /\ Scope(i) \in DOMAIN nodes
    BY <1>2 DEF IsElement, Owners, Bound
  <2> QED
    BY <1>3, <2>1 DEF RegionDocument
<1> QED
  BY <1>2, <1>4, AffectsTheKept, OwnersOfTheKept

(* The fields that a page is told of are those with a binding in such a  *)
(* scope.                                                                *)
LEMMA FieldsOfTheRegion ==
    ASSUME NEW S
    PROVE  \A f : f \in RegionFields(S) <=>
             \E i \in Bindings : nodes[i].field = f /\ Scope(i) \in Bound /\ Affects(Scope(i), S)
<1>1. ASSUME NEW f \in RegionFields(S)
      PROVE  \E i \in Bindings : nodes[i].field = f /\ Scope(i) \in Bound /\ Affects(Scope(i), S)
  <2>1. PICK n \in Bindings : nodes[n].field = f /\ \E s \in ScopesOf(nodes[n].field) : Affects(s, S)
    BY <1>1 DEF RegionFields
  <2>2. PICK s \in ScopesOf(f) : Affects(s, S)
    BY <2>1
  <2> QED
    BY <2>2 DEF ScopesOf
<1>2. ASSUME NEW i \in Bindings, Scope(i) \in Bound, Affects(Scope(i), S)
      PROVE  nodes[i].field \in RegionFields(S)
  <2>1. Scope(i) \in ScopesOf(nodes[i].field)
    BY <1>2 DEF ScopesOf
  <2> QED
    BY <1>2, <2>1 DEF RegionFields
<1> QED
  BY <1>1, <1>2

(* A field without an element on the page is one that is bound in        *)
(* captions.                                                             *)
LEMMA MissingIsInCaptions ==
    ASSUME TreeInv, Accepted, FilmIsFound, CompiledFilm = TheFilm,
           NEW S \in SUBSET DOMAIN ShotNodes, S # {},
           NEW told, told.fields = RegionFields(S),
           told.fields # {nodes[i].field : i \in Applied(RegionDocument(S), told)}
    PROVE  \E i \in Bindings : InCaptions(i)
<1>1. {nodes[i].field : i \in Applied(RegionDocument(S), told)} \subseteq told.fields
  BY DEF Applied
<1>2. PICK f \in RegionFields(S) : f \notin {nodes[i].field : i \in Applied(RegionDocument(S), told)}
  BY <1>1
<1>3. PICK i \in Bindings : nodes[i].field = f /\ Scope(i) \in Bound /\ Affects(Scope(i), S)
  BY FieldsOfTheRegion
<1>4. i \notin RegionDocument(S)
  BY <1>2, <1>3 DEF Applied
<1> QED
  BY <1>3, <1>4, AffectedIsOnPage

(* A page applies the fields of all bindings it holds.                   *)
LEMMA KeptAreApplied ==
    ASSUME TreeInv, Accepted, FilmIsFound, CompiledFilm = TheFilm,
           NEW S \in SUBSET DOMAIN ShotNodes, S # {},
           NEW told, told.fields = RegionFields(S)
    PROVE  {i \in Bindings \cap RegionDocument(S) : ~OwnerIsPresentation(i)} \subseteq Applied(RegionDocument(S), told)
<1> SUFFICES ASSUME NEW i \in Bindings, i \in RegionDocument(S), Scope(i) \in Bound
             PROVE  i \in Applied(RegionDocument(S), told)
  BY DEF OwnerIsPresentation
<1>1. Affects(Scope(i), S)
  BY OnPageIsAffected
<1>2. nodes[i].field \in RegionFields(S)
  BY <1>1, FieldsOfTheRegion
<1> QED
  BY <1>2 DEF Applied

-----------------------------------------------------------------------------
(* The inductive invariant and the theorems.                             *)

(* A film that was compiled is the film of the document.                 *)
CompiledInv ==
    phase \in {"compiled", "loaded"} => film = {TheFilm} /\ BindFaults = {}

(* The inductive invariant. The properties say nothing before a page is  *)
(* loaded: what they need is that the document is a tree and that the    *)
(* film was compiled from it without a binding error.                    *)
PageInv ==
    /\ PageTypeOK /\ TreeInv /\ CompiledInv
    /\ PlanAndPageAgree /\ BindingsReachThePage

(* What is read from the document changes only with it.                  *)
LEMMA SameTree ==
    ASSUME nodes' = nodes
    PROVE  /\ TheFilm' = TheFilm /\ BindFaults' = BindFaults /\ FilmIsFound' = FilmIsFound
           /\ Bindings' = Bindings /\ Bound' = Bound
           /\ \A i : InCaptions(i)' = InCaptions(i) /\ Scope(i)' = Scope(i)
<1>1. Film' = Film /\ FilmIsFound' = FilmIsFound
  BY DEF Film, FilmRoots, AtDocumentLevel, Kind, FilmIsFound, HtmlFilm, Path
<1>2. Bindings' = Bindings
  BY <1>1 DEF Bindings, Path, HasBinding
<1>3. Bound' = Bound
  BY <1>1 DEF Bound, IsBound, Path, Known, Parent, Kind, IsRepeated, Legal
<1>4. \A i : InCaptions(i)' = InCaptions(i)
  BY DEF InCaptions, Path, Kind
<1>5. \A i : Scope(i)' = Scope(i)
  BY <1>1 DEF Scope, Path, Kind
<1>6. TheFilm' = TheFilm
  BY <1>1 DEF TheFilm, ChildrenOfKind, ResolvedShot, Adjacent, Structure, Parent, Kind, InOrder
<1>7. BindFaults' = BindFaults
  BY <1>1, <1>2, <1>3 DEF BindFaults, LevelFaults, ChildFaults, BoundaryFaults, IdFaults, Bound, IsBound,
     Forbidden, Identified, Structure, BetweenShots, Adjacent, Examined, IsElement, AtDocumentLevel, FilmRoots,
     Known, Unknown, Parent, Path, Kind, IsRepeated, Report
<1> QED
  BY <1>1, <1>2, <1>3, <1>4, <1>5, <1>6, <1>7

(* The types of the document.                                            *)
TreeTyped ==
    /\ \A i \in DOMAIN nodes : Range(nodes[i].within) \subseteq 1 .. i - 1
    /\ Range(open) \subseteq DOMAIN nodes

(* A tree has them.                                                      *)
LEMMA TreeTypes == TreeInv => TreeTyped
<1> SUFFICES ASSUME TreeInv PROVE TreeTyped
  OBVIOUS
<1>1. /\ Len(nodes) \in Nat /\ DOMAIN nodes = 1 .. Len(nodes)
      /\ \A i \in DOMAIN nodes : i \in Nat /\ Path(i) \subseteq 1 .. i /\ Range(nodes[i].within) = Path(i) \ {i}
  BY TreeFacts
<1>2. open \in Seq(1 .. Len(nodes))
  BY DEF TreeInv, IsTree, Leads
<1>3. Range(open) \subseteq 1 .. Len(nodes)
  BY <1>2 DEF Range
<1>4. ASSUME NEW i \in DOMAIN nodes PROVE Range(nodes[i].within) \subseteq 1 .. i - 1
  BY <1>1
<1> QED
  BY <1>1, <1>3, <1>4 DEF TreeTyped

(* No author has written anything yet.                                   *)
LEMMA PageStarts == PageInit => PageInv
<1> SUFFICES ASSUME PageInit PROVE PageInv
  OBVIOUS
<1>1. TreeInv
  BY TreeInitial
<1>2. phase = "writing" /\ film = {} /\ diagnostics = {} /\ page = {} /\ shown = {} /\ failure = "none"
  BY DEF PageInit, WritingInit
<1>3. PageTypeOK
  BY <1>1, <1>2, TreeTypes DEF PageTypeOK, TreeTyped
<1> QED
  BY <1>1, <1>2, <1>3 DEF PageInv, CompiledInv, PlanAndPageAgree, BindingsReachThePage

(* Before a page is loaded only types and film have to be kept.          *)
LEMMA NotLoaded ==
    ASSUME PageInv, [PageNext]_documentVars,
           phase' \in {"writing", "parsed", "rejected", "compiled"}, UNCHANGED pageVars,
           DOMAIN nodes \subseteq DOMAIN nodes',
           (film' # {}) = (phase' = "compiled"),
           diagnostics' # {} => phase' \in {"writing", "parsed", "rejected"},
           CompiledInv'
    PROVE  PageInv'
<1>1. TreeInv'
  BY TreeStep DEF PageInv
<1>2. TreeTyped'
  BY <1>1, TreeTypes, PTL
<1>3. page' \subseteq DOMAIN nodes' /\ shown' \subseteq page'
      /\ failure' \in {"none", "Bundler", "FilmCount", "NodeIdentity", "MissingBinding"}
  BY DEF PageInv, PageTypeOK, pageVars
<1>4. PageTypeOK'
  BY <1>2, <1>3 DEF PageTypeOK, TreeTyped
<1> QED
  BY <1>1, <1>4 DEF PageInv, PlanAndPageAgree, BindingsReachThePage

(* Writing a document.                                                   *)
LEMMA WriteKeeps ==
    ASSUME PageInv, Write, UNCHANGED pageVars
    PROVE  PageInv'
<1>1. [PageNext]_documentVars
  BY DEF PageNext
<1>2. /\ phase' \in {"writing", "parsed"} /\ phase = "writing" /\ film' = film
      /\ nodes' = nodes \/ \E x : nodes' = Append(nodes, x)
  <2>1. ASSUME NEW tag, ReachLimit(tag) \/ Text(tag) \/ StartTag(tag, TRUE) \/ StartTag(tag, FALSE)
        PROVE  /\ phase' \in {"writing", "parsed"} /\ phase = "writing" /\ film' = film
               /\ nodes' = nodes \/ \E x : nodes' = Append(nodes, x)
    BY <2>1 DEF ReachLimit, Text, StartTag, MayWrite
  <2>2. ASSUME NEW kind, EndTag(kind) PROVE phase' = "writing" /\ phase = "writing" /\ film' = film /\ nodes' = nodes
    BY <2>2 DEF EndTag
  <2>3. ASSUME EndOfFile PROVE phase' = "parsed" /\ phase = "writing" /\ film' = film /\ nodes' = nodes
    BY <2>3 DEF EndOfFile
  <2> QED
    BY <2>1, <2>2, <2>3 DEF Write
<1>3. DOMAIN nodes \subseteq DOMAIN nodes'
  <2>1. nodes \in Seq(Range(nodes))
    BY DEF PageInv, TreeInv
  <2>2. ASSUME NEW x PROVE DOMAIN nodes \subseteq DOMAIN Append(nodes, x)
    BY <2>1, AppendedNode
  <2> QED
    BY <1>2, <2>2
<1>4. film = {}
  BY <1>2 DEF PageInv, PageTypeOK
<1>5. CompiledInv'
  BY <1>2 DEF CompiledInv
<1> QED
  BY <1>1, <1>2, <1>3, <1>4, <1>5, NotLoaded

(* Compiling it.                                                         *)
LEMMA CompileKeeps ==
    ASSUME PageInv, Compile, UNCHANGED pageVars
    PROVE  PageInv'
<1>1. [PageNext]_documentVars
  BY DEF PageNext
<1>2. /\ phase' \in {"compiled", "rejected"} /\ nodes' = nodes
      /\ phase' = "compiled" <=> diagnostics' = {}
      /\ film' = IF phase' = "compiled" THEN {TheFilm} ELSE {}
      /\ diagnostics' = Faults
  BY DEF Compile
<1>3. ASSUME phase' = "compiled" PROVE BindFaults = {}
  BY <1>2, <1>3 DEF Faults
<1>4. TheFilm' = TheFilm /\ BindFaults' = BindFaults
  BY <1>2, SameTree
<1>5. CompiledInv'
  BY <1>2, <1>3, <1>4 DEF CompiledInv
<1>6. (film' # {}) = (phase' = "compiled")
  BY <1>2
<1> QED
  BY <1>1, <1>2, <1>5, <1>6, NotLoaded

(* Loading one region of it, with the videos or without.                 *)
LEMMA LoadKeeps ==
    ASSUME PageInv, NEW S \in Regions, NEW b \in BOOLEAN, LoadRegion(S, b)
    PROVE  PageInv'
<1> DEFINE told == ThePlan(S, b)
           document == RegionDocument(S)
<1>1. [PageNext]_documentVars
  BY DEF PageNext, LoadRegion
<1>2. TreeInv' /\ TreeInv
  BY <1>1, TreeStep DEF PageInv
<1>3. /\ phase = "compiled" /\ phase' = "loaded" /\ nodes' = nodes /\ film' = film
      /\ diagnostics' = diagnostics /\ plan' = {told} /\ page' = document
      /\ failure' = IF BundlerRefuses \/ ~(S \subseteq DOMAIN HtmlShots)
                    THEN "Bundler" ELSE LoadFailure(document, told)
      /\ bound' = IF failure' \in {"none", "MissingBinding"}
                  THEN SubSeq(AuthoredNodes(document, told), 1, Len(told.nodes)) ELSE <<>>
      /\ shown' = IF failure' = "none" THEN Applied(document, told) ELSE {}
  BY DEF LoadRegion, ThePlan, Told
<1>4. film = {TheFilm} /\ BindFaults = {} /\ CompiledFilm = TheFilm
  BY <1>3 DEF PageInv, CompiledInv, CompiledFilm
<1>5. Accepted
  BY <1>2, <1>4, BindingAccepts
<1>6. S \in SUBSET DOMAIN ShotNodes /\ S # {}
  BY <1>2, <1>4, <1>5, RegionsAreOfShots
<1>7. told.fields = RegionFields(S)
  BY DEF ThePlan, PlanOf
<1> HIDE DEF told
<1>8. /\ TheFilm' = TheFilm /\ BindFaults' = BindFaults /\ FilmIsFound' = FilmIsFound
      /\ Bindings' = Bindings /\ Bound' = Bound
      /\ \A i : InCaptions(i)' = InCaptions(i) /\ Scope(i)' = Scope(i)
  BY <1>3, SameTree
<1>9. CompiledInv'
  BY <1>3, <1>4, <1>8 DEF CompiledInv
<1>10. PageTypeOK'
  <2>1. TreeTyped'
    BY <1>2, TreeTypes, PTL
  <2>2. document \subseteq DOMAIN nodes /\ Applied(document, told) \subseteq document
    BY DEF RegionDocument, Applied
  <2>3. failure' \in {"none", "Bundler", "FilmCount", "NodeIdentity", "MissingBinding"}
    BY <1>3 DEF LoadFailure
  <2>4. film' # {} /\ diagnostics' = {}
    BY <1>3, <1>4 DEF PageInv, PageTypeOK
  <2> QED
    BY <1>3, <2>1, <2>2, <2>3, <2>4 DEF PageTypeOK, TreeTyped
<1>11. ASSUME FilmIsFound
       PROVE  /\ failure' = IF told.fields # {nodes[i].field : i \in Applied(document, told)}
                            THEN "MissingBinding" ELSE "none"
              /\ bound' = told.elements
  <2>1. /\ ~BundlerRefuses /\ S \subseteq DOMAIN HtmlShots
        /\ LoadFailure(document, told) =
             IF told.fields # {nodes[i].field : i \in Applied(document, told)} THEN "MissingBinding" ELSE "none"
        /\ SubSeq(AuthoredNodes(document, told), 1, Len(told.nodes)) = told.elements
    BY <1>2, <1>4, <1>5, <1>6, <1>11, PlanIsBound DEF told
  <2> QED
    BY <1>3, <2>1
<1>12. PlanAndPageAgree'
  BY <1>3, <1>8, <1>11 DEF PlanAndPageAgree
<1>13. BindingsReachThePage'
  <2> SUFFICES ASSUME FilmIsFound
               PROVE  /\ failure' = "MissingBinding" => \E i \in Bindings : InCaptions(i)
                      /\ failure' = "none" =>
                           {i \in Bindings \cap document : ~(Scope(i) \notin Bound)} \subseteq shown'
    BY <1>3, <1>8 DEF BindingsReachThePage, OwnerIsPresentation
  <2>1. ASSUME failure' = "MissingBinding" PROVE \E i \in Bindings : InCaptions(i)
    <3>1. told.fields # {nodes[i].field : i \in Applied(document, told)}
      BY <1>11, <2>1
    <3> QED
      BY <1>2, <1>4, <1>5, <1>6, <1>7, <3>1, MissingIsInCaptions
  <2>2. ASSUME failure' = "none"
        PROVE  {i \in Bindings \cap document : ~(Scope(i) \notin Bound)} \subseteq shown'
    <3>1. {i \in Bindings \cap document : ~OwnerIsPresentation(i)} \subseteq Applied(document, told)
      BY <1>2, <1>4, <1>5, <1>6, <1>7, KeptAreApplied
    <3> QED
      BY <1>3, <2>2, <3>1 DEF OwnerIsPresentation
  <2> QED
    BY <2>1, <2>2
<1> QED
  BY <1>2, <1>9, <1>10, <1>12, <1>13 DEF PageInv

(* No step leaves the invariant.                                         *)
LEMMA PageKeeps == PageInv /\ [PageNext]_documentVars => PageInv'
<1> SUFFICES ASSUME PageInv, [PageNext]_documentVars PROVE PageInv'
  OBVIOUS
<1>1. CASE Write /\ UNCHANGED pageVars
  BY <1>1, WriteKeeps
<1>2. CASE Compile /\ UNCHANGED pageVars
  BY <1>2, CompileKeeps
<1>3. ASSUME NEW S \in Regions, NEW b \in BOOLEAN, LoadRegion(S, b) PROVE PageInv'
  BY <1>3, LoadKeeps
<1>4. CASE UNCHANGED documentVars
  <2>1. phase' = phase /\ nodes' = nodes /\ open' = open /\ diagnostics' = diagnostics /\ film' = film
        /\ region' = region /\ plan' = plan /\ page' = page /\ bound' = bound /\ shown' = shown /\ failure' = failure
    BY <1>4 DEF documentVars, screenplayVars, pageVars
  <2>2. /\ TheFilm' = TheFilm /\ BindFaults' = BindFaults /\ FilmIsFound' = FilmIsFound
        /\ Bindings' = Bindings /\ Bound' = Bound
        /\ \A i : InCaptions(i)' = InCaptions(i) /\ Scope(i)' = Scope(i)
    BY <2>1, SameTree
  <2>3. TreeInv'
    BY TreeStep DEF PageInv
  <2>4. PageTypeOK'
    BY <2>1 DEF PageInv, PageTypeOK
  <2>5. CompiledInv'
    BY <2>1, <2>2 DEF PageInv, CompiledInv
  <2>6. PlanAndPageAgree'
    BY <2>1, <2>2 DEF PageInv, PlanAndPageAgree
  <2>7. BindingsReachThePage'
    BY <2>1, <2>2 DEF PageInv, BindingsReachThePage, OwnerIsPresentation
  <2> QED
    BY <2>3, <2>4, <2>5, <2>6, <2>7 DEF PageInv
<1> QED
  BY <1>1, <1>2, <1>3, <1>4 DEF PageNext

(* Every variable of document, compiler and page keeps its type, for     *)
(* any document of any author (Parser, TreeBuilder,                      *)
(* collectAuthoredNodes).                                                *)
THEOREM PageIsTyped == PageSpec => []PageTypeOK
<1>1. PageInv => PageTypeOK
  BY DEF PageInv
<1> QED
  BY <1>1, PageStarts, PageKeeps, PTL DEF PageSpec

(* PlanAndPageAgree for every document that an author can write and the  *)
(* compiler accepts, whatever its length, and every region of it, with   *)
(* its videos or without: the page binds each node of the plan to the    *)
(* element the node was compiled from (ProjectionBuilder,                *)
(* projectRegionDocument, collectAuthoredNodes).                         *)
THEOREM PlanIsThePages == PageSpec => []PlanAndPageAgree
<1>1. PageInv => PlanAndPageAgree
  BY DEF PageInv
<1> QED
  BY <1>1, PageStarts, PageKeeps, PTL DEF PageSpec

(* BindingsReachThePage for every such document and region: a field      *)
(* that the page is told of and has no element for is bound in           *)
(* captions, and otherwise every element of the page that is bound in    *)
(* the film shows its value (VariantScopeIndex,                          *)
(* TimelineVariantScope::affects, applyVariantFields).                   *)
THEOREM NoBindingIsLost == PageSpec => []BindingsReachThePage
<1>1. PageInv => BindingsReachThePage
  BY DEF PageInv
<1> QED
  BY <1>1, PageStarts, PageKeeps, PTL DEF PageSpec
=============================================================================
