------------------------ MODULE LambdaCapture_proofs ------------------------
(***************************************************************************)
(* What captures on Lambda guarantee for any number of invocations of one  *)
(* identity, however often responses are lost, workers are killed and the  *)
(* object is overwritten.                                                  *)
(***************************************************************************)
EXTENDS LambdaCapture, FiniteSetTheorems, TLAPS

Before == {"lookup", "admit", "repair", "capture"}
Publishing == {"start", "write", "complete", "abort", "compare"}

\* What S3 holds was started by some invocation, and has a number.
UploadsType == IsFiniteSet(uploads) /\ uploads \subseteq [by : Invocations, nth : Nat \ {0}]

\* Where an invocation is says what it has captured and which upload it owns.
Walks(i) ==
  /\ pc[i] \in Before => captured[i] = {}
  /\ pc[i] \in Publishing => \E p \in Pixels : captured[i] = {p}
  /\ pc[i] \in Before \cup {"start", "compare"} => upload[i] = 0
  /\ pc[i] = "admit" => seen[i] # {}
  /\ pc[i] = "abort" => after[i] \in {"failed", "compare", "retry"}

\* An invocation repairs only what it found invalid; unless the fault was its
\* own, that was garbage.
Repairs(i) == pc[i] = "repair" /\ faults = 0 => seen[i] = {Garbage}

\* A sound object stands where it was found, until somebody overwrites it.
Finds(i) ==
  pc[i] = "admit" /\ seen[i] \subseteq Pixels /\ damage = 0 /\ faults = 0 => object = seen[i]

(* The inductive invariant.  A repair deletes what still stands there, so    *)
(* that an answer holds only because nobody repairs what is sound, and what  *)
(* was admitted stood there from the lookup on.                              *)
IInv ==
  /\ TypeOK /\ UploadsType
  /\ \A i \in Invocations : Walks(i) /\ Repairs(i) /\ Finds(i)
  /\ AnswersHold /\ OwnedUploadsAreReleased

-----------------------------------------------------------------------------
\* S3 has a number left for another upload.
LEMMA NewUploadIsNew ==
  ASSUME NEW i \in Invocations, IsFiniteSet(uploads)
  PROVE  /\ NewUpload(i) \in Nat \ {0}
         /\ [by |-> i, nth |-> NewUpload(i)] \notin uploads
<1> DEFINE S == 1..(Cardinality(uploads) + 1)
           f == [n \in S |-> [by |-> i, nth |-> n]]
<1>1. Cardinality(uploads) \in Nat
      BY FS_CardinalityType
<1>2. IsFiniteSet(S) /\ Cardinality(S) = Cardinality(uploads) + 1
      BY <1>1, FS_Interval
<1>3. ASSUME \A n \in S : [by |-> i, nth |-> n] \in uploads
      PROVE  FALSE
  <2>1. f \in [S -> uploads]
        BY <1>3
  <2>2. PICK x \in S, y \in S : x # y /\ f[x] = f[y]
    <3>1. Cardinality(uploads) < Cardinality(S)
          BY <1>1, <1>2
    <3> HIDE DEF S, f
    <3> QED
        BY <1>2, <2>1, <3>1, FS_PigeonHole
  <2>3. f[x].nth = x /\ f[y].nth = y
        OBVIOUS
  <2> QED
        BY <2>2, <2>3
<1>4. \E n \in S : [by |-> i, nth |-> n] \notin uploads
      BY <1>3
<1>5. NewUpload(i) \in S /\ [by |-> i, nth |-> NewUpload(i)] \notin uploads
      BY <1>4 DEF NewUpload
<1> QED
      BY <1>1, <1>5

\* The initial states satisfy the invariant.
LEMMA Initially == Init => IInv
<1> SUFFICES ASSUME Init PROVE IInv
    OBVIOUS
<1>1. TypeOK
      BY LambdaAssumption DEF Init, TypeOK, Steps, Sequels, Ended
<1>2. UploadsType
      BY FS_EmptySet DEF Init, UploadsType
<1> QED
    BY <1>1, <1>2 DEF Init, IInv, Walks, Repairs, Finds, AnswersHold, OwnedUploadsAreReleased,
                      Before, Publishing

\* No step leaves the types.
LEMMA TypeStep ==
  ASSUME TypeOK, UploadsType, \A i \in Invocations : Walks(i), [Next]_vars
  PROVE  TypeOK'
<1> USE LambdaAssumption DEF TypeOK, Steps, Sequels, Ended, worker, Counters
<1>1. CASE UNCHANGED vars
      BY <1>1 DEF vars
<1>2. CASE Damage
      BY <1>2 DEF Damage
<1>3. ASSUME NEW i \in Invocations, Handle(i) \/ Kill(i)
      PROVE  TypeOK'
  <2> USE DEF Goto, Return, Again, AbortThen
  <2>1. CASE Fail(i) \/ Kill(i)
        BY <2>1 DEF Fail, Kill
  <2>2. CASE Lookup(i)
        BY <2>2 DEF Lookup
  <2>3. CASE Admit(i)
        BY <2>3 DEF Admit
  <2>4. CASE Repair(i)
        BY <2>4 DEF Repair
  <2>5. CASE Capture(i)
        BY <2>5 DEF Capture
  <2>6. CASE Start(i)
    <3>1. NewUpload(i) \in Nat
          BY NewUploadIsNew DEF UploadsType
    <3> QED
        BY <2>6, <3>1 DEF Start
  <2>7. CASE Write(i)
        BY <2>7 DEF Write
  <2>8. CASE Complete(i)
    <3>1. captured[i] \in {{o} : o \in Pixels \cup {Garbage}}
          BY <2>8 DEF Complete, Walks, Publishing
    <3> QED
        BY <2>8, <3>1 DEF Complete
  <2>9. CASE Abort(i)
        BY <2>9 DEF Abort, Walks
  <2>10. CASE AbortFails(i)
        BY <2>10 DEF AbortFails
  <2>11. CASE Compare(i)
        BY <2>11 DEF Compare
  <2> QED
      BY <1>3, <2>1, <2>2, <2>3, <2>4, <2>5, <2>6, <2>7, <2>8, <2>9, <2>10, <2>11 DEF Handle
<1> QED
    BY <1>1, <1>2, <1>3 DEF Next

\* An invocation's step is its own: it changes nothing that another one knows,
\* and no upload of another one.
LEMMA OthersStay ==
  ASSUME TypeOK, NEW i \in Invocations, Handle(i) \/ Kill(i), NEW j \in Invocations, i # j
  PROVE  /\ pc'[j] = pc[j] /\ seen'[j] = seen[j] /\ captured'[j] = captured[j]
         /\ upload'[j] = upload[j] /\ after'[j] = after[j] /\ answer'[j] = answer[j]
         /\ Mine(j)' \in uploads' <=> Mine(j) \in uploads
<1> USE DEF TypeOK, worker, Counters, Goto, Return, Again, AbortThen, Mine
<1>1. CASE Fail(i) \/ Kill(i)
      BY <1>1 DEF Fail, Kill
<1>2. CASE Lookup(i)
      BY <1>2 DEF Lookup
<1>3. CASE Admit(i)
      BY <1>3 DEF Admit
<1>4. CASE Repair(i)
      BY <1>4 DEF Repair
<1>5. CASE Capture(i)
      BY <1>5 DEF Capture
<1>6. CASE Start(i)
      BY <1>6 DEF Start
<1>7. CASE Write(i)
      BY <1>7 DEF Write
<1>8. CASE Complete(i)
      BY <1>8 DEF Complete
<1>9. CASE Abort(i)
      BY <1>9 DEF Abort
<1>10. CASE AbortFails(i)
      BY <1>10 DEF AbortFails
<1>11. CASE Compare(i)
      BY <1>11 DEF Compare
<1> QED
    BY <1>1, <1>2, <1>3, <1>4, <1>5, <1>6, <1>7, <1>8, <1>9, <1>10, <1>11 DEF Handle

\* The numbers of uploads stay numbers.
LEMMA UploadsStep ==
  ASSUME TypeOK, UploadsType, [Next]_vars
  PROVE  UploadsType'
<1>1. CASE UNCHANGED uploads
      BY <1>1 DEF UploadsType
<1>2. ASSUME NEW i \in Invocations, Start(i)
      PROVE  UploadsType'
  <2>1. NewUpload(i) \in Nat \ {0}
        BY NewUploadIsNew DEF UploadsType
  <2>2. uploads' = uploads \cup {[by |-> i, nth |-> NewUpload(i)]}
        BY <1>2 DEF Start
  <2>3. IsFiniteSet(uploads')
        BY <2>2, FS_AddElement DEF UploadsType
  <2> QED
      BY <2>1, <2>2, <2>3 DEF UploadsType
<1>3. ASSUME NEW i \in Invocations, uploads' = uploads \ {Mine(i)}
      PROVE  UploadsType'
      BY <1>3, FS_RemoveElement DEF UploadsType
<1>4. ASSUME NEW i \in Invocations, Handle(i)
      PROVE  UNCHANGED uploads \/ Start(i) \/ uploads' = uploads \ {Mine(i)}
      BY <1>4 DEF Handle, Fail, Lookup, Admit, Repair, Capture, Write, Complete, Abort,
                  AbortFails, Compare
<1> QED
    BY <1>1, <1>2, <1>3, <1>4 DEF Next, Kill, Damage, vars

\* What an invocation knows fits the step it comes to.
LEMMA WalksStep ==
  ASSUME TypeOK, \A i \in Invocations : Walks(i), [Next]_vars
  PROVE  \A i \in Invocations : Walks(i)'
<1> SUFFICES ASSUME NEW j \in Invocations
             PROVE  Walks(j)'
    OBVIOUS
<1>1. CASE UNCHANGED <<pc, worker>>
      BY <1>1 DEF Walks, worker
<1>2. ASSUME NEW i \in Invocations, Handle(i) \/ Kill(i), i # j
      PROVE  Walks(j)'
      BY <1>2, OthersStay DEF Walks
<1>3. ASSUME NEW i \in Invocations, Handle(i) \/ Kill(i), i = j
      PROVE  Walks(j)'
  <2> USE <1>3 DEF TypeOK, worker, Counters, Goto, Return, Again, AbortThen, Walks, Before,
               Publishing, Ended
  <2>1. CASE Fail(i) \/ Kill(i)
        BY <2>1 DEF Fail, Kill
  <2>2. CASE Lookup(i)
        BY <2>2 DEF Lookup
  <2>3. CASE Admit(i)
        BY <2>3 DEF Admit
  <2>4. CASE Repair(i)
        BY <2>4 DEF Repair
  <2>5. CASE Capture(i)
        BY <2>5 DEF Capture
  <2>6. CASE Start(i)
        BY <2>6 DEF Start
  <2>7. CASE Write(i)
        BY <2>7 DEF Write
  <2>8. CASE Complete(i)
        BY <2>8 DEF Complete
  <2>9. CASE Abort(i)
        BY <2>9 DEF Abort
  <2>10. CASE AbortFails(i)
        BY <2>10 DEF AbortFails
  <2>11. CASE Compare(i)
        BY <2>11 DEF Compare
  <2> QED
      BY <1>3, <2>1, <2>2, <2>3, <2>4, <2>5, <2>6, <2>7, <2>8, <2>9, <2>10, <2>11 DEF Handle
<1> QED
    BY <1>1, <1>2, <1>3 DEF Next, Damage, vars, worker

\* Faults and overwritten objects are only ever counted.
LEMMA CountersGrow ==
  ASSUME TypeOK, [Next]_vars
  PROVE  damage \in Nat /\ faults \in Nat /\ damage' >= damage /\ faults' >= faults
<1> USE DEF TypeOK
<1>1. ASSUME NEW i \in Invocations, Handle(i) \/ Kill(i)
      PROVE  damage' = damage /\ (faults' = faults \/ faults' = faults + 1)
      BY <1>1 DEF Handle, Fail, Lookup, Admit, Repair, Capture, Start, Write, Complete, Abort,
                  AbortFails, Compare, Kill, Counters, worker
<1>2. CASE Damage
      BY <1>2 DEF Damage
<1> QED
    BY <1>1, <1>2 DEF Next, vars

\* An invocation that has come to a repair without a fault has seen garbage.
LEMMA RepairsStep ==
  ASSUME TypeOK, \A i \in Invocations : Repairs(i), [Next]_vars
  PROVE  \A i \in Invocations : Repairs(i)'
<1> SUFFICES ASSUME NEW j \in Invocations
             PROVE  Repairs(j)'
    OBVIOUS
<1>0. faults' = 0 => faults = 0
      BY CountersGrow
<1>1. CASE UNCHANGED <<pc, worker>>
      BY <1>0, <1>1 DEF Repairs, worker
<1>2. ASSUME NEW i \in Invocations, Handle(i) \/ Kill(i), i # j
      PROVE  Repairs(j)'
      BY <1>0, <1>2, OthersStay DEF Repairs
<1>3. ASSUME NEW i \in Invocations, Handle(i) \/ Kill(i), i = j
      PROVE  Repairs(j)'
  <2> USE <1>0, <1>3 DEF TypeOK, worker, Counters, Goto, Return, Again, AbortThen, Repairs, Sequels
  <2>1. CASE Fail(i) \/ Kill(i)
        BY <2>1 DEF Fail, Kill
  <2>2. CASE Lookup(i)
        BY <2>2 DEF Lookup
  <2>3. CASE Admit(i)
        BY <2>3 DEF Admit
  <2>4. CASE Repair(i)
        BY <2>4 DEF Repair
  <2>5. CASE Capture(i)
        BY <2>5 DEF Capture
  <2>6. CASE Start(i)
        BY <2>6 DEF Start
  <2>7. CASE Write(i)
        BY <2>7 DEF Write
  <2>8. CASE Complete(i)
        BY <2>8 DEF Complete
  <2>9. CASE Abort(i)
        BY <2>9 DEF Abort
  <2>10. CASE AbortFails(i)
        BY <2>10 DEF AbortFails
  <2>11. CASE Compare(i)
        BY <2>11 DEF Compare
  <2> QED
      BY <1>3, <2>1, <2>2, <2>3, <2>4, <2>5, <2>6, <2>7, <2>8, <2>9, <2>10, <2>11 DEF Handle
<1> QED
    BY <1>1, <1>2, <1>3 DEF Next, Damage, vars, worker

\* A sound object is neither repaired nor replaced.
LEMMA SoundStep ==
  ASSUME TypeOK, \A i \in Invocations : Repairs(i), [Next]_vars,
         object # {}, object \subseteq Pixels, faults = 0, damage' = damage
  PROVE  object' = object
<1> USE LambdaAssumption DEF TypeOK
<1>1. ASSUME NEW i \in Invocations, Repair(i)
      PROVE  object' = object
      BY <1>1 DEF Repair, Repairs
<1>2. ASSUME NEW i \in Invocations, Complete(i)
      PROVE  object' = object
      BY <1>2 DEF Complete
<1>3. ASSUME NEW i \in Invocations, Handle(i) \/ Kill(i)
      PROVE  UNCHANGED object \/ Repair(i) \/ Complete(i)
      BY <1>3 DEF Handle, Fail, Lookup, Admit, Capture, Start, Write, Abort, AbortFails,
                  Compare, Kill
<1>4. CASE Damage
      BY <1>4 DEF Damage
<1> QED
    BY <1>1, <1>2, <1>3, <1>4 DEF Next, vars

\* What an invocation has found sound still stands there when it is verified.
LEMMA FindsStep ==
  ASSUME TypeOK, \A i \in Invocations : Walks(i) /\ Repairs(i) /\ Finds(i), [Next]_vars
  PROVE  \A i \in Invocations : Finds(i)'
<1> SUFFICES ASSUME NEW j \in Invocations, pc'[j] = "admit", seen'[j] \subseteq Pixels,
                    damage' = 0, faults' = 0
             PROVE  object' = seen'[j]
    BY DEF Finds
<1>1. damage = 0 /\ faults = 0
      BY CountersGrow
<1>2. CASE pc[j] = "admit" /\ seen'[j] = seen[j]
      BY <1>1, <1>2, SoundStep DEF Finds, Walks
<1>3. ASSUME NEW i \in Invocations, Handle(i) \/ Kill(i), i # j
      PROVE  pc[j] = "admit" /\ seen'[j] = seen[j]
      BY <1>3, OthersStay
<1>4. ASSUME Handle(j) \/ Kill(j)
      PROVE  object' = seen'[j]
  <2>1. CASE Lookup(j)
        BY <2>1 DEF Lookup, TypeOK
  <2>2. ASSUME Admit(j) \/ Repair(j) \/ Capture(j) \/ Fail(j) \/ Kill(j)
        PROVE  pc'[j] # "admit"
        BY <2>2 DEF Admit, Repair, Capture, Fail, Kill, TypeOK, Goto, Return, Again
  <2>3. ASSUME Start(j) \/ Write(j) \/ Complete(j) \/ Abort(j) \/ AbortFails(j) \/ Compare(j)
        PROVE  pc'[j] # "admit"
        BY <2>3 DEF Start, Write, Complete, Abort, AbortFails, Compare, TypeOK, Goto, Return,
                    Again, AbortThen, Sequels
  <2> QED
      BY <1>4, <2>1, <2>2, <2>3 DEF Handle
<1>5. CASE UNCHANGED <<pc, seen>>
      BY <1>2, <1>5
<1> QED
    BY <1>2, <1>3, <1>4, <1>5 DEF Next, Damage, vars, worker

\* Of an invocation, what AnswersHold and OwnedUploadsAreReleased say of all.
Answered(i) ==
  pc[i] = "returned" =>
    /\ answer[i] # {} /\ captured[i] \subseteq answer[i]
    /\ damage = 0 /\ faults = 0 => object = answer[i]

Released(i) ==
  pc[i] \in {"returned", "failed"} /\ after[i] # "unreleased" => Mine(i) \notin uploads

\* An answer stands where it was verified.
LEMMA AnswersStep ==
  ASSUME TypeOK, \A i \in Invocations : Walks(i) /\ Repairs(i) /\ Finds(i) /\ Answered(i),
         [Next]_vars
  PROVE  \A i \in Invocations : Answered(i)'
<1> SUFFICES ASSUME NEW j \in Invocations, pc'[j] = "returned"
             PROVE  Answered(j)'
    BY DEF Answered
<1>1. CASE /\ pc[j] = "returned"
           /\ answer'[j] = answer[j] /\ captured'[j] = captured[j]
  <2>1. answer'[j] # {} /\ captured'[j] \subseteq answer'[j]
        BY <1>1 DEF Answered
  <2>2. ASSUME damage' = 0, faults' = 0
        PROVE  object' = answer'[j]
    <3>1. damage = 0 /\ faults = 0
          BY <2>2, CountersGrow
    <3>2. object = answer[j] /\ object # {} /\ object \subseteq Pixels
          BY <1>1, <3>1 DEF Answered, TypeOK
    <3> QED
        BY <1>1, <2>2, <3>1, <3>2, SoundStep
  <2> QED
      BY <2>1, <2>2 DEF Answered
<1>2. ASSUME NEW i \in Invocations, Handle(i) \/ Kill(i), i # j
      PROVE  pc[j] = "returned" /\ answer'[j] = answer[j] /\ captured'[j] = captured[j]
      BY <1>2, OthersStay
<1>3. ASSUME Handle(j) \/ Kill(j)
      PROVE  Answered(j)'
  <2> USE DEF TypeOK, Goto, Return, Again, AbortThen
  <2>1. CASE Admit(j)
    <3>1. /\ seen[j] # {} /\ seen[j] \subseteq Pixels /\ captured[j] = {}
          /\ answer'[j] = seen[j] /\ captured'[j] = captured[j]
          /\ UNCHANGED <<object, damage>> /\ faults' = faults
          BY <2>1 DEF Admit, Walks, Before
    <3>2. damage = 0 /\ faults = 0 => object = seen[j]
          BY <2>1, <3>1 DEF Admit, Finds
    <3> QED
        BY <3>1, <3>2 DEF Answered
  <2>2. CASE Complete(j)
        BY <2>2 DEF Complete, Walks, Publishing, Answered
  <2>3. CASE Compare(j)
        BY <2>3 DEF Compare, Walks, Publishing, Answered
  <2>4. ASSUME Lookup(j) \/ Repair(j) \/ Capture(j) \/ Fail(j) \/ Kill(j) \/ Start(j)
        PROVE  FALSE
        BY <2>4 DEF Lookup, Repair, Capture, Fail, Kill, Start, Ended
  <2>5. ASSUME Write(j) \/ Abort(j) \/ AbortFails(j)
        PROVE  FALSE
        BY <2>5 DEF Write, Abort, AbortFails, Sequels
  <2> QED
      BY <1>3, <2>1, <2>2, <2>3, <2>4, <2>5 DEF Handle
<1>4. CASE UNCHANGED <<pc, worker>>
      BY <1>1, <1>4 DEF worker
<1> QED
    BY <1>1, <1>2, <1>3, <1>4 DEF Next, Damage, vars, worker

\* An upload that an invocation owned is gone when the invocation is.
LEMMA ReleasedStep ==
  ASSUME TypeOK, UploadsType, \A i \in Invocations : Walks(i) /\ Released(i), [Next]_vars
  PROVE  \A i \in Invocations : Released(i)'
<1> SUFFICES ASSUME NEW j \in Invocations
             PROVE  Released(j)'
    OBVIOUS
<1>1. CASE UNCHANGED <<pc, worker, uploads>>
      BY <1>1 DEF Released, Mine, worker
<1>2. ASSUME NEW i \in Invocations, Handle(i) \/ Kill(i), i # j
      PROVE  Released(j)'
      BY <1>2, OthersStay DEF Released
<1>3. ASSUME Handle(j) \/ Kill(j)
      PROVE  Released(j)'
  <2>0. upload[j] = 0 => Mine(j) \notin uploads
        BY DEF UploadsType, Mine
  <2> USE DEF TypeOK, worker, Counters, Goto, Return, Again, AbortThen, Released, Mine
  <2>1. CASE Fail(j)
        BY <2>0, <2>1 DEF Fail, Walks, Before
  <2>2. CASE Kill(j)
        BY <2>2 DEF Kill
  <2>3. CASE Lookup(j) \/ Capture(j) \/ Write(j)
        BY <2>3 DEF Lookup, Capture, Write
  <2>4. CASE Admit(j)
        BY <2>0, <2>4 DEF Admit, Walks, Before
  <2>5. CASE Repair(j)
        BY <2>0, <2>5 DEF Repair, Walks, Before
  <2>6. CASE Start(j)
    <3>1. CASE pc'[j] \in {"write", "start"}
          BY <3>1
    <3>2. CASE pc'[j] = "failed" /\ upload' = upload
      <4>1. upload[j] = 0
            BY <2>6 DEF Start, Walks
      <4>2. uploads' \subseteq [by : Invocations, nth : Nat \ {0}]
            BY UploadsStep DEF UploadsType
      <4> QED
          BY <3>2, <4>1, <4>2
    <3> QED
        BY <2>6, <3>1, <3>2 DEF Start
  <2>7. CASE Complete(j)
        BY <2>7 DEF Complete
  <2>8. CASE Abort(j)
    <3>1. Mine(j)' \notin uploads'
          BY <2>8 DEF Abort, UploadsType
    <3> QED
        BY <3>1
  <2>9. CASE AbortFails(j)
        BY <2>9 DEF AbortFails
  <2>10. CASE Compare(j)
        BY <2>0, <2>10 DEF Compare, Walks
  <2> QED
      BY <1>3, <2>1, <2>2, <2>3, <2>4, <2>5, <2>6, <2>7, <2>8, <2>9, <2>10 DEF Handle
<1> QED
    BY <1>1, <1>2, <1>3 DEF Next, Damage, vars, worker

-----------------------------------------------------------------------------
\* Every behavior keeps the invariant.
LEMMA Invariant == Spec => []IInv
<1>1. ASSUME IInv, [Next]_vars
      PROVE  IInv'
  <2> USE <1>1
  <2>1. \A i \in Invocations : Answered(i) /\ Released(i)
        BY DEF IInv, AnswersHold, OwnedUploadsAreReleased, Answered, Released
  <2>2. TypeOK' /\ UploadsType'
        BY TypeStep, UploadsStep DEF IInv
  <2>3. \A i \in Invocations : Walks(i)' /\ Repairs(i)' /\ Finds(i)'
        BY WalksStep, RepairsStep, FindsStep DEF IInv
  <2>4. \A i \in Invocations : Answered(i)' /\ Released(i)'
        BY <2>1, AnswersStep, ReleasedStep DEF IInv
  <2> QED
      BY <2>2, <2>3, <2>4 DEF IInv, AnswersHold, OwnedUploadsAreReleased, Answered, Released
<1> QED
    BY <1>1, Initially, PTL DEF Spec

(* Every variable keeps its type, for any number of invocations, attempts    *)
(* and faults.                                                               *)
THEOREM TypeCorrect == Spec => []TypeOK
<1>1. IInv => TypeOK
      BY DEF IInv
<1> QED
    BY <1>1, Invariant, PTL

(* What an invocation returned is at its location, and is what it captured,  *)
(* however invocations race, repair and lose responses (publish, reuse).     *)
THEOREM AnswersHoldAlways == Spec => []AnswersHold
<1>1. IInv => AnswersHold
      BY DEF IInv
<1> QED
    BY <1>1, Invariant, PTL

(* However an invocation ends, the upload it owned last is gone, unless the  *)
(* abort of it has failed (MultipartUpload).                                 *)
THEOREM OwnedUploadsAreReleasedAlways == Spec => []OwnedUploadsAreReleased
<1>1. IInv => OwnedUploadsAreReleased
      BY DEF IInv
<1> QED
    BY <1>1, Invariant, PTL

(* No step of a worker removes or replaces a sound object before a fault     *)
(* makes it take one for invalid (repair_invalid, complete).                 *)
THEOREM SoundObjectsStayAlways == Spec => SoundObjectsStay
<1>1. ASSUME IInv, [Next]_vars
      PROVE  [object # {} /\ object \subseteq Pixels /\ faults = 0 /\ damage' = damage
                => object' = object]_vars
      BY <1>1, SoundStep DEF IInv
<1> QED
    BY <1>1, Invariant, PTL DEF Spec, SoundObjectsStay
=============================================================================
