---------------------------- MODULE LambdaCapture ----------------------------
(***************************************************************************)
(* One capture per invocation, published to S3 under the identity of its   *)
(* frame artifact (deploy/aws-lambda/src: handler.rs, artifact.rs,         *)
(* deadline.rs).  Invocations of one identity run in environments of their *)
(* own and share nothing but the object at that key.  Different identities *)
(* have different keys, so that one key is all there is to look at.        *)
(*                                                                         *)
(* S3 is external: single requests are atomic, the response to one may be  *)
(* lost, upon which the SDK sends it again or gives up, and an ETag names  *)
(* the bytes of an object.  A deadline that expires is a request that      *)
(* fails, whether or not S3 has served it.                                 *)
(***************************************************************************)
EXTENDS Integers, FiniteSets

CONSTANTS
  Invocations,
  Pixels,              \* what a capture of the unit can look like
  MaxLookups,          \* MAX_ARTIFACT_LOOKUP_ATTEMPTS
  MaxPublications,     \* MAX_PUBLICATION_ATTEMPTS
  MaxLost,             \* bound: responses of S3 that are lost
  MaxDamage,           \* bound: times the object is overwritten with garbage
  MaxFaults,           \* bound: sound artifacts a worker cannot open or verify
  MaxKills             \* bound: invocations that are killed

Garbage == "garbage"

ASSUME LambdaAssumption ==
  /\ Garbage \notin Pixels
  /\ MaxLookups \in Nat \ {0} /\ MaxPublications \in Nat \ {0}
  /\ {MaxLost, MaxDamage, MaxFaults, MaxKills} \subseteq Nat

VARIABLES
  object,     \* what is stored at the key, if anything
  uploads,    \* the multipart uploads S3 holds, each [by, nth]
  pc,         \* what an invocation does next
  tries,      \* the attempts it has made of its current loop
  seen,       \* the object it downloaded, if any
  captured,   \* what it captured, if anything
  upload,     \* the number of the upload it owns, 0 for none
  after,      \* what follows on the abort of its upload
  answer,     \* what it has verified at the location it returned
  lost, damage, faults, kills

vars == <<object, uploads, pc, tries, seen, captured, upload, after, answer,
          lost, damage, faults, kills>>
worker == <<tries, seen, captured, upload, after, answer>>

Ended == {"returned", "failed", "killed"}

\* The steps of CaptureHandler::handle, and where an abort goes on from.
Steps == {"lookup", "admit", "repair", "capture", "start", "write", "complete", "abort", "compare"}
Sequels == {"failed", "compare", "retry", "unreleased"}

Init ==
  /\ object \in {{}, {Garbage}} \cup {{p} : p \in Pixels}
  /\ uploads = {}
  /\ pc = [i \in Invocations |-> "lookup"]
  /\ tries = [i \in Invocations |-> 0]
  /\ seen = [i \in Invocations |-> {}]
  /\ captured = [i \in Invocations |-> {}]
  /\ upload = [i \in Invocations |-> 0]
  /\ after = [i \in Invocations |-> "failed"]
  /\ answer = [i \in Invocations |-> {}]
  /\ lost = 0 /\ damage = 0 /\ faults = 0 /\ kills = 0

Goto(i, step) == pc' = [pc EXCEPT ![i] = step]

Return(i, pixels) ==
  /\ Goto(i, "returned")
  /\ answer' = [answer EXCEPT ![i] = pixels]

Counters == <<lost, damage, faults, kills>>

-----------------------------------------------------------------------------
(* S3Storage::lookup_artifact, after the request was read.                  *)

\* Any phase may fail, or run into the deadline, before it has an effect.
Fail(i) ==
  /\ pc[i] \in {"lookup", "admit", "repair", "capture", "start", "compare"}
  /\ Goto(i, "failed")
  /\ UNCHANGED <<object, uploads, worker, Counters>>

\* download_optional_file
Lookup(i) ==
  /\ pc[i] = "lookup"
  /\ seen' = [seen EXCEPT ![i] = object]
  /\ Goto(i, IF object = {} THEN "capture" ELSE "admit")
  /\ UNCHANGED <<object, uploads, tries, captured, upload, after, answer, Counters>>

\* open_verified_artifact: whatever cannot be opened and verified is invalid.
Admit(i) ==
  /\ pc[i] = "admit"
  /\ \/ seen[i] \subseteq Pixels /\ Return(i, seen[i]) /\ UNCHANGED faults
     \/ /\ seen[i] = {Garbage} /\ Goto(i, "repair") /\ UNCHANGED <<answer, faults>>
     \/ /\ seen[i] \subseteq Pixels /\ faults < MaxFaults
        /\ faults' = faults + 1
        /\ Goto(i, "repair") /\ UNCHANGED answer
  /\ UNCHANGED <<object, uploads, tries, seen, captured, upload, after, lost, damage, kills>>

\* Another round of a loop that gives up after limit attempts.
Again(i, step, limit) ==
  /\ tries' = [tries EXCEPT ![i] = @ + 1]
  /\ Goto(i, IF tries[i] + 1 < limit THEN step ELSE "failed")

(* Mutant: the invalid object is deleted whatever stands there by now.       *)
RepairUnbound(i) ==
  /\ pc[i] = "repair"
  /\ object' = {}
  /\ Goto(i, "capture")
  /\ UNCHANGED <<uploads, worker, Counters>>

\* repair_invalid: delete_object with if_match
Repair(i) ==
  /\ pc[i] = "repair"
  /\ \/ /\ object \in {seen[i], {}}
        /\ object' = {}
        /\ Goto(i, "capture") /\ UNCHANGED <<tries, lost>>
     \/ /\ object = seen[i] /\ lost < MaxLost
        /\ object' = {} /\ lost' = lost + 1
        /\ \E step \in {"repair", "failed"} : Goto(i, step)
        /\ UNCHANGED tries
     \/ /\ object \notin {seen[i], {}}
        /\ Again(i, "lookup", MaxLookups)
        /\ UNCHANGED <<object, lost>>
  /\ UNCHANGED <<uploads, seen, captured, upload, after, answer, damage, faults, kills>>

-----------------------------------------------------------------------------
(* Capture and publication.                                                 *)

\* Inputs, unit, browser, capture and verification: the worker's own.
Capture(i) ==
  /\ pc[i] = "capture"
  /\ \E p \in Pixels : captured' = [captured EXCEPT ![i] = {p}]
  /\ tries' = [tries EXCEPT ![i] = 0]
  /\ Goto(i, "start")
  /\ UNCHANGED <<object, uploads, seen, upload, after, answer, Counters>>

\* A number no upload of the invocation's has.
NewUpload(i) ==
  CHOOSE n \in 1..(Cardinality(uploads) + 1) : [by |-> i, nth |-> n] \notin uploads

\* MultipartUpload::start: S3 has an upload, the worker only with the response.
Start(i) ==
  /\ pc[i] = "start"
  /\ LET n == NewUpload(i)
     IN  /\ uploads' = uploads \cup {[by |-> i, nth |-> n]}
         /\ \/ /\ upload' = [upload EXCEPT ![i] = n]
               /\ Goto(i, "write") /\ UNCHANGED lost
            \/ /\ lost < MaxLost /\ lost' = lost + 1
               /\ \E step \in {"start", "failed"} : Goto(i, step)
               /\ UNCHANGED upload
  /\ UNCHANGED <<object, tries, seen, captured, after, answer, damage, faults, kills>>

AbortThen(i, sequel) ==
  /\ after' = [after EXCEPT ![i] = sequel]
  /\ Goto(i, "abort")

\* MultipartUpload::write, all parts
Write(i) ==
  /\ pc[i] = "write"
  /\ \/ Goto(i, "complete") /\ UNCHANGED after
     \/ AbortThen(i, "failed")
  /\ UNCHANGED <<object, uploads, tries, seen, captured, upload, answer, Counters>>

Mine(i) == [by |-> i, nth |-> upload[i]]

(* Mutant: the loser of a completion compares without aborting its upload.    *)
CompleteWithoutAbort(i) ==
  /\ pc[i] = "complete"
  /\ \/ /\ object = {} /\ Mine(i) \in uploads
        /\ object' = captured[i] /\ uploads' = uploads \ {Mine(i)}
        /\ Return(i, captured[i])
     \/ /\ object # {}
        /\ Goto(i, "compare") /\ UNCHANGED <<object, uploads, answer>>
  /\ UNCHANGED <<tries, seen, captured, upload, after, Counters>>

\* MultipartUpload::complete with if_none_match.  A repeated request finds the
\* upload gone: S3 reports the object that is there, or the missing upload.
Complete(i) ==
  /\ pc[i] = "complete"
  /\ \/ /\ object = {} /\ Mine(i) \in uploads
        /\ object' = captured[i] /\ uploads' = uploads \ {Mine(i)}
        /\ \/ Return(i, captured[i]) /\ UNCHANGED <<after, lost>>
           \/ /\ lost < MaxLost /\ lost' = lost + 1
              /\ Goto(i, "complete") /\ UNCHANGED <<after, answer>>
           \/ /\ lost < MaxLost /\ lost' = lost + 1
              /\ AbortThen(i, "failed") /\ UNCHANGED answer
     \/ /\ object # {}
        /\ AbortThen(i, "compare") /\ UNCHANGED <<object, uploads, answer, lost>>
     \/ /\ \E sequel \in {"retry", "failed"} : AbortThen(i, sequel)
        /\ UNCHANGED <<object, uploads, answer, lost>>
  /\ UNCHANGED <<tries, seen, captured, upload, damage, faults, kills>>

(* Mutant: conflicting publications are not counted.                         *)
AbortUncounted(i) ==
  /\ pc[i] = "abort"
  /\ upload' = [upload EXCEPT ![i] = 0]
  /\ uploads' = uploads \ {Mine(i)}
  /\ Goto(i, IF after[i] = "retry" THEN "start" ELSE after[i])
  /\ UNCHANGED <<object, tries, seen, captured, after, answer, Counters>>

\* MultipartUpload::abort, outside of the deadline
Abort(i) ==
  /\ pc[i] = "abort"
  /\ upload' = [upload EXCEPT ![i] = 0]
  /\ uploads' = uploads \ {Mine(i)}
  /\ IF after[i] = "retry" THEN Again(i, "start", MaxPublications)
     ELSE Goto(i, after[i]) /\ UNCHANGED tries
  /\ UNCHANGED <<object, seen, captured, after, answer, Counters>>

\* An abort that fails, at least where the upload is gone already.
AbortFails(i) ==
  /\ pc[i] = "abort"
  /\ Goto(i, "failed")
  /\ \/ Mine(i) \notin uploads /\ UNCHANGED <<after, lost>>
     \/ /\ Mine(i) \in uploads /\ lost < MaxLost
        /\ lost' = lost + 1
        /\ after' = [after EXCEPT ![i] = "unreleased"]
  /\ UNCHANGED <<object, uploads, tries, seen, captured, upload, answer, damage, faults, kills>>

(* Mutant: any sound object at the key is taken for the capture.             *)
CompareIdentity(i) ==
  /\ pc[i] = "compare"
  /\ \/ object # {} /\ object \subseteq Pixels /\ Return(i, object)
     \/ Goto(i, "failed") /\ UNCHANGED answer
  /\ UNCHANGED <<object, uploads, tries, seen, captured, upload, after, Counters>>

\* reuse_existing: verify_existing, then verify_raw_rgba_equivalence
Compare(i) ==
  /\ pc[i] = "compare"
  /\ \/ object = captured[i] /\ Return(i, object)
     \/ object # captured[i] /\ Goto(i, "failed") /\ UNCHANGED answer
  /\ UNCHANGED <<object, uploads, tries, seen, captured, upload, after, Counters>>

-----------------------------------------------------------------------------
(* What is not the worker's doing.                                          *)

Kill(i) ==
  /\ pc[i] \notin Ended /\ kills < MaxKills
  /\ kills' = kills + 1
  /\ Goto(i, "killed")
  /\ UNCHANGED <<object, uploads, worker, lost, damage, faults>>

\* The object is overwritten, as the conformance test does.
Damage ==
  /\ damage < MaxDamage /\ object # {}
  /\ damage' = damage + 1
  /\ object' = {Garbage}
  /\ UNCHANGED <<uploads, pc, worker, lost, faults, kills>>

Handle(i) ==
  \/ Fail(i) \/ Lookup(i) \/ Admit(i) \/ Repair(i) \/ Capture(i) \/ Start(i)
  \/ Write(i) \/ Complete(i) \/ Abort(i) \/ AbortFails(i) \/ Compare(i)

Next ==
  \/ \E i \in Invocations : Handle(i) \/ Kill(i)
  \/ Damage

\* Requests and bodies of S3 are bounded by the transport limits, the other
\* phases by the invocation's deadline.
Spec == Init /\ [][Next]_vars /\ \A i \in Invocations : WF_vars(Handle(i))

-----------------------------------------------------------------------------
(* Properties.                                                              *)

TypeOK ==
  /\ object \in {{}} \cup {{o} : o \in Pixels \cup {Garbage}}
  /\ pc \in [Invocations -> Steps \cup Ended]
  /\ tries \in [Invocations -> Nat] /\ upload \in [Invocations -> Nat]
  /\ seen \in [Invocations -> SUBSET (Pixels \cup {Garbage})]
  /\ captured \in [Invocations -> SUBSET Pixels]
  /\ answer \in [Invocations -> SUBSET Pixels]
  /\ after \in [Invocations -> Sequels]
  /\ {lost, damage, faults, kills} \subseteq Nat

\* A location that was returned holds what the invocation verified there, and
\* what it captured if it captured, as long as nobody overwrites the object and
\* every worker can open and verify what it has downloaded: losers of the
\* conditional completion compare with the winner, no matter who repairs what
\* meanwhile and which of S3's responses are lost.
AnswersHold ==
  \A i \in Invocations :
    pc[i] = "returned" =>
      /\ answer[i] # {} /\ captured[i] \subseteq answer[i]
      /\ damage = 0 /\ faults = 0 => object = answer[i]

\* No step of a worker that can open and verify what it downloads removes or
\* replaces a sound object: a repair is bound to the ETag of what was found
\* invalid, and a completion finds the key free.
SoundObjectsStay ==
  [][object # {} /\ object \subseteq Pixels /\ faults = 0 /\ damage' = damage
       => object' = object]_vars

\* However an invocation ends, other than being killed, S3 no longer holds the
\* upload it owned last, unless the very abort of it has failed.
OwnedUploadsAreReleased ==
  \A i \in Invocations :
    pc[i] \in {"returned", "failed"} /\ after[i] # "unreleased" => Mine(i) \notin uploads

\* Every invocation returns, fails or is killed: repairs and publications that
\* conflict are not tried for ever.
EveryInvocationEnds == \A i \in Invocations : <>(pc[i] \in Ended)
=============================================================================
