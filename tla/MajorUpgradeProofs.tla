-------------------------- MODULE MajorUpgradeProofs --------------------------
(***************************************************************************)
(* Proofs about MajorUpgrade, for every catalogue.  The rehearsal goes on  *)
(* while records are edited, so its invariants are those of Rehearsal.     *)
(***************************************************************************)
EXTENDS MajorUpgrade, RehearsalProofs

\* As long as nobody has edited the rehearsal, every copy of it and every Job is of
\* one image.
OneImage ==
  edits = 0 =>
    /\ view.image = obj.image /\ snap.image = obj.image /\ st.image = obj.image
    /\ \A p \in Running : image[p] = obj.image

LEMMA InitImage == UpgradeInit => RehearsalInv /\ OneImage
<1>1. UpgradeInit => Init
  BY DEF UpgradeInit
<1>2. Init => OneImage
  BY DEF Init, OneImage
<1>3. QED
  BY <1>1, <1>2, InitInv

\* A return leaves the pass with what the cache holds.
LEMMA ImageAfterReturn ==
  ASSUME OneImage, NEW r, Return(r), edits' = edits, obj'.image = obj.image,
         view' = view, image' = image
  PROVE  OneImage'
BY DEF OneImage, Return, EndPass

\* A pass that goes on has not changed the image it will write.
LEMMA ImageAfterFinish ==
  ASSUME TypeOK, OneImage, NEW p, NEW r, Finish(p, r), UNCHANGED <<stored, jobs, edits>>
  PROVE  OneImage'
<1>1. st'.image = st.image
  BY DEF TypeOK, Objects, Finish, GoTo
<1>2. QED
  BY <1>1 DEF OneImage, Finish, GoTo, stored, jobs

LEMMA NextImage == TypeOK /\ OneImage /\ [Next]_vars => OneImage'
<1> SUFFICES ASSUME TypeOK, OneImage, [Next]_vars PROVE OneImage'
  OBVIOUS
<1> USE DEF stored, jobs
<1>1. CASE Read
  BY <1>1 DEF Read, BeginPass, OneImage
<1>2. CASE AlreadyOver \/ ApplyJobFails \/ WriteStatusFails
  BY <1>2, ImageAfterReturn DEF AlreadyOver, ApplyJobFails, WriteStatusFails
<1>3. CASE Start \/ TimeOut
  BY <1>3, ImageAfterFinish DEF Start, TimeOut
<1>4. CASE ApplyJob
  BY <1>4 DEF ApplyJob, GoTo, OneImage, TypeOK
<1>5. CASE LookAtJob
  BY <1>5, ImageAfterReturn, ImageAfterFinish DEF LookAtJob
<1>6. CASE WriteStatus
  <2>1. [obj EXCEPT !.phase = st.phase].image = obj.image
    BY DEF TypeOK, Objects
  <2>2. Return(res) \/ Return("requeue")
    BY <1>6 DEF WriteStatus
  <2>3. obj'.image = obj.image /\ UNCHANGED <<view, image, edits>>
    BY <1>6, <2>1 DEF WriteStatus, Store
  <2>4. QED
    BY <2>2, <2>3, ImageAfterReturn
<1>7. CASE DeliverObject
  BY <1>7 DEF DeliverObject, Deliver, pass, OneImage
<1>8. ASSUME NEW p \in Running, DeliverJob(p) \/ EndJob(p) PROVE OneImage'
  BY <1>8 DEF DeliverJob, EndJob, pass, runtime, OneImage
<1>9. CASE TimePasses \/ Resync \/ UNCHANGED vars
  BY <1>9 DEF TimePasses, Resync, vars, runtime, pass, OneImage
<1>10. CASE Crash
  BY <1>10 DEF Crash, Restart, OneImage
<1>11. CASE Edit
  <2>1. edits' # 0
    BY <1>11, RehearsalAssumption DEF Edit, TypeOK, RehearsalAssumption
  <2>2. QED
    BY <2>1 DEF OneImage
<1>12. QED
  BY <1>1, <1>2, <1>3, <1>4, <1>5, <1>6, <1>7, <1>8, <1>9, <1>10, <1>11, Zenon
     DEF Next, Worker, Others

LEMMA UpgradeSteps ==
  RehearsalInv /\ OneImage /\ [UpgradeNext]_<<vars, catalogue>> => (RehearsalInv /\ OneImage)'
<1>1. [UpgradeNext]_<<vars, catalogue>> => [Next]_vars
  BY DEF UpgradeNext, UpdateTenant
<1>2. RehearsalInv => TypeOK
  BY DEF RehearsalInv
<1>3. QED
  BY <1>1, <1>2, NextInv, NextImage

\* The default image crosses majors only in an edit that cites the evidence.
LEMMA CrossingCites ==
  ASSUME [UpgradeNext]_<<vars, catalogue>>, Crosses
  PROVE  EvidenceFor(default')
BY DEF UpgradeNext, UpdateTenant, Crosses, AcrossMajors, catalogue

\* "A rehearsal that actually succeeded": whatever the order of edits and passes, when
\* the default crosses majors the three Jobs have succeeded.
THEOREM CrossingsAreEarned == UpgradeSpec => CrossingIsEarned
<1>1. RehearsalInv /\ [UpgradeNext]_<<vars, catalogue>>
        => [Crosses => \A p \in Running : job[p] = "succeeded"]_<<vars, catalogue>>
  BY CrossingCites DEF EvidenceFor, RehearsalInv, CopiesAreBehind, Earned, Before, Running
<1>2. QED
  BY InitImage, UpgradeSteps, <1>1, PTL DEF UpgradeSpec, CrossingIsEarned

\* "Against exactly that image": the Jobs ran the image that becomes the default, if the
\* rehearsal was never edited.
THEOREM CrossingsAreOfTheImage == UpgradeSpec => CrossingIsOfTheImage
<1>1. OneImage /\ [UpgradeNext]_<<vars, catalogue>>
        => [Crosses /\ edits = 0 => \A p \in Running : image[p] = default']_<<vars, catalogue>>
  BY CrossingCites DEF EvidenceFor, OneImage
<1>2. QED
  BY InitImage, UpgradeSteps, <1>1, PTL DEF UpgradeSpec, CrossingIsOfTheImage

===============================================================================
