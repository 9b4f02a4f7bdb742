------------------------------ MODULE ImageStudy ------------------------------
(***************************************************************************)
(* From source to a report on the image: the OdooBuild controller builds   *)
(* an image in a Job, an entry of a customer's catalogue names the build   *)
(* or an image, and the OdooTenant controller runs a Job in that image to  *)
(* say what is in it (internal/controller/odoobuild_controller.go,         *)
(* imagestudy.go, ResolveWith of api/v1alpha1/odootenant_types.go).        *)
(*                                                                         *)
(* Jobs and Pods are read from caches that follow one another at their own *)
(* pace, and pods are looked up by the name of their Job, which the Job of *)
(* another image has had before.  A build is woken by its Job, never by    *)
(* its pods; a customer comes round every minute.                          *)
(***************************************************************************)
EXTENDS Sequences, Naturals

CONSTANTS
  Named,        \* the images an entry may name
  Digests,      \* the images that one run of the build after another pushes
  MaxEdits,     \* bound: edits of the entry, of the customer's version
  MaxFailures   \* bound: Jobs that fail, status writes that fail

VARIABLES
  entry,       \* what the entry points at: an image, or "build"
  wrong,       \* the repositories are on another series than the customer
  build,       \* the status of the OdooBuild
  bjob,        \* its Job: how many were made, and how this one is
  bwake,       \* an event of the build or its Job is on its way
  study,       \* the answer in the customer's status: the image it is stored under,
               \* and the image whose pod it was read from, if from any (a history)
  job,         \* the study's Job
  seen,        \* the study's Job as the cache shows it
  pods,        \* the pods that bear the study Job's name
  edits, failures

buildVars == <<build, bjob, bwake>>
studyVars == <<study, job, seen, pods>>
vars == <<entry, wrong, buildVars, studyVars, edits, failures>>

NoImage == "none"
NoJob == [of |-> NoImage, state |-> "gone"]

Init ==
  /\ entry \in Named \cup {"build"}
  /\ wrong = FALSE
  /\ build = [phase |-> "none", image |-> NoImage]
  /\ bjob = [made |-> 0, state |-> "gone", seen |-> FALSE]
  /\ bwake = TRUE
  /\ study = [image |-> NoImage, at |-> FALSE, failed |-> FALSE, of |-> NoImage]
  /\ job = NoJob /\ seen = NoJob /\ pods = {}
  /\ edits = 0 /\ failures = 0

Fail == failures < MaxFailures /\ failures' = failures + 1
Edited == edits < MaxEdits /\ edits' = edits + 1

------------------------------------------------------------------------------
(* The build.                                                              *)

\* The digest, once a pod of this Job shows one; else what was there before.
ReadBack == IF bjob.seen THEN Digests[bjob.made] ELSE build.image

PhaseOf(image) ==
  CASE bjob.state = "succeeded" -> IF image = NoImage THEN "Failed" ELSE "Succeeded"
    [] bjob.state = "failed" -> "Failed"
    [] OTHER -> "Building"

BuildPass ==
  /\ bwake /\ bwake' = FALSE
  /\ CASE wrong -> build' = [build EXCEPT !.phase = "Failed"] /\ UNCHANGED bjob
       [] ~wrong /\ bjob.state = "gone" ->
            /\ build' = [build EXCEPT !.phase = "Cloning"]
            /\ bjob' = [made |-> bjob.made + 1, state |-> "running", seen |-> FALSE]
       [] OTHER -> build' = [phase |-> PhaseOf(ReadBack), image |-> ReadBack] /\ UNCHANGED bjob
  /\ UNCHANGED <<entry, wrong, studyVars, edits, failures>>

\* The image has been pushed by then.
BuildJobSucceeds ==
  /\ bjob.state = "running"
  /\ bjob' = [bjob EXCEPT !.state = "succeeded"] /\ bwake' = TRUE
  /\ UNCHANGED <<entry, wrong, build, studyVars, edits, failures>>

BuildJobFails ==
  /\ bjob.state = "running" /\ Fail
  /\ bjob' = [bjob EXCEPT !.state = "failed"] /\ bwake' = TRUE
  /\ UNCHANGED <<entry, wrong, build, studyVars, edits>>

\* The pod's cache shows the digest; it may do so before the Job's shows its end, or after.
BuildPodSeen ==
  /\ bjob.state \in {"running", "succeeded"} /\ ~bjob.seen
  /\ bjob' = [bjob EXCEPT !.seen = TRUE]
  /\ UNCHANGED <<entry, wrong, build, bwake, studyVars, edits, failures>>

\* Somebody removes the Job to build again.
RemoveBuildJob ==
  /\ bjob.state \in {"succeeded", "failed"} /\ bjob.made < Len(Digests)
  /\ bjob' = [bjob EXCEPT !.state = "gone", !.seen = FALSE] /\ bwake' = TRUE
  /\ UNCHANGED <<entry, wrong, build, studyVars, edits, failures>>

------------------------------------------------------------------------------
(* The study.                                                              *)

\* ResolveWith: the image of the last build that had one, whatever its phase.
Resolved == IF entry = "build" THEN build.image ELSE entry

Answered == study.image = Resolved /\ study.at

\* What was read from a pod of image i, or from none, is stored under the image the entry
\* means.  The status write of a pass may fail; what it did to the Job stays done.
Answer(failed, i) ==
  \/ study' = [image |-> Resolved, at |-> TRUE, failed |-> failed, of |-> i] /\ UNCHANGED failures
  \/ Fail /\ UNCHANGED study

Pending ==
  /\ Resolved = NoImage
  /\ study' = [study EXCEPT !.image = NoImage, !.at = FALSE]
  /\ UNCHANGED <<entry, wrong, buildVars, job, seen, pods, edits, failures>>

\* Create is refused when the Job is there and the cache does not show it yet.
StartStudy ==
  /\ Resolved # NoImage /\ ~Answered
  /\ seen.state = "gone" /\ job.state = "gone"
  /\ job' = [of |-> Resolved, state |-> "running"]
  /\ UNCHANGED <<entry, wrong, buildVars, study, seen, pods, edits, failures>>

\* A slip: the Job of another image is left to end.
MismatchedWhenEnded == seen.state = "ended" /\ seen.of # Resolved /\ study.image = NoImage

\* The Job the cache shows is about another image.
Mismatched == seen.state # "gone" /\ seen.of # Resolved

\* Delete goes by name, and takes the Job that has the name by now; its pods go later,
\* by the Background propagation, and bear the name until then.
DropStudy ==
  /\ Resolved # NoImage /\ ~Answered /\ Mismatched
  /\ job' = NoJob
  /\ UNCHANGED <<entry, wrong, buildVars, study, seen, pods, edits, failures>>

Matching == Resolved # NoImage /\ ~Answered /\ seen.of = Resolved

\* A pod of that name cannot pull its image: that is the answer, and it is final.
CannotPull ==
  /\ Matching /\ seen.state = "running"
  /\ \E p \in pods : p.state = "pulling" /\ Answer(TRUE, p.of)
  /\ UNCHANGED <<entry, wrong, buildVars, job, seen, pods, edits>>

\* The first pod of that name with a message; or none, when the cache of pods is behind.
ReadStudy ==
  /\ Matching /\ seen.state = "ended"
  /\ \/ \E p \in pods : p.state = "ended" /\ Answer(FALSE, p.of)
     \/ Answer(TRUE, NoImage)
  /\ UNCHANGED <<entry, wrong, buildVars, job, seen, pods, edits>>

\* The pod of the Job: it is made, may be unable to pull, and ends with a report.
StudyPod ==
  /\ job.state = "running"
  /\ \/ \E s \in {"pulling", "ended"} : pods' = pods \cup {[of |-> job.of, state |-> s]}
     \/ pods' = (pods \ {[of |-> job.of, state |-> "pulling"]}) \cup {[of |-> job.of, state |-> "ended"]}
  /\ job' = IF [of |-> job.of, state |-> "ended"] \in pods' THEN [job EXCEPT !.state = "ended"] ELSE job
  /\ UNCHANGED <<entry, wrong, buildVars, study, seen, edits, failures>>

\* The pods of a Job that is no more are collected.
Collect ==
  /\ \E p \in pods : p.of # job.of /\ pods' = pods \ {p}
  /\ UNCHANGED <<entry, wrong, buildVars, study, job, seen, edits, failures>>

DeliverJob ==
  /\ seen # job /\ seen' = job
  /\ UNCHANGED <<entry, wrong, buildVars, study, job, pods, edits, failures>>

------------------------------------------------------------------------------

Repoint ==
  /\ Edited
  /\ entry' \in (Named \cup {"build"}) \ {entry}
  /\ UNCHANGED <<wrong, buildVars, studyVars, failures>>

\* The customer moves to another version; nothing wakes the build for it.
ChangeVersion ==
  /\ Edited
  /\ wrong' = ~wrong
  /\ UNCHANGED <<entry, buildVars, studyVars, failures>>

Tenant == Pending \/ StartStudy \/ DropStudy \/ CannotPull \/ ReadStudy

Next ==
  \/ BuildPass \/ BuildJobSucceeds \/ BuildJobFails \/ BuildPodSeen \/ RemoveBuildJob
  \/ Tenant \/ StudyPod \/ Collect \/ DeliverJob
  \/ Repoint \/ ChangeVersion

\* Events arrive, the customer comes round, a study's pod ends or cannot pull.
Fairness ==
  /\ WF_vars(BuildPass) /\ WF_vars(Tenant) /\ WF_vars(DeliverJob)
  /\ WF_vars(StudyPod) /\ WF_vars(Collect)

Spec == Init /\ [][Next]_vars /\ Fairness

------------------------------------------------------------------------------
(* What must hold.                                                         *)

\* The entry and the build have been left as they were from the start.
NeverRepointed == edits = 0 /\ bjob.made <= 1

\* The answer was read from a pod of the image the entry means, or from none.
OfItsOwnPod == study.of \in {Resolved, NoImage}

\* "Repointing an entry produces a new study": once the entry and the build are left alone,
\* an entry that means an image comes to have an answer stored under that image, and keeps
\* it, whichever Job the entry had before, whatever the caches still showed and whichever
\* status write failed.  That the answer is of that image's own pod holds of an entry never
\* repointed and never rebuilt, and not of others: pods are looked up by their Job's name.
EntryIsStudied ==
  <>[](Resolved # NoImage => Answered /\ (NeverRepointed => OfItsOwnPod))

==============================================================================
