------------------------------- MODULE Rehearsal -------------------------------
(***************************************************************************)
(* The OdooRehearsal controller: one migration against one copy of the     *)
(* data (internal/controller/odoorehearsal_controller.go).  Restoring,     *)
(* Migrating and Asserting each run one Job; advancing writes the status,  *)
(* and the next pass creates the next Job.  The result is the evidence     *)
(* MajorUpgrade is about.                                                  *)
(*                                                                         *)
(* The object wakes the controller by its generation, its Jobs by every    *)
(* event.  No pass asks to be called again after a time.                   *)
(***************************************************************************)
EXTENDS ControllerRuntime

CONSTANTS
  Images,       \* the images a rehearsal can be of
  MaxEdits,     \* bound: changes of spec.image
  MaxFailures   \* bound: calls that fail: tokens, applies, status writes

ASSUME RehearsalAssumption ==
  /\ Images # {}
  /\ MaxEdits \in Nat
  /\ MaxFailures \in Nat

VARIABLES
  job,      \* job[p]: the Job of phase p, as the API server has it
  jobView,  \* the same as the cache shows it
  image,    \* image[p]: what that Job runs
  overdue,  \* hardTimeout has passed since startedAt
  edits,    \* edits so far
  failures  \* failed calls so far

jobs == <<job, jobView, image>>
vars == <<runtime, jobs, overdue, edits, failures>>

\* The phases that run a Job, in their order.
Running == {"Restoring", "Migrating", "Asserting"}

Prior(p) ==
  CASE p = "Migrating" -> {"Restoring"}
    [] p = "Asserting" -> {"Restoring", "Migrating"}
    [] OTHER           -> {}

Phases == {"Pending", "Succeeded", "Failed"} \cup Running

\* startedAt is set and the phase leaves Pending in one write.
Objects == [phase: Phases, image: Images]

\* A migration "overran" when it succeeded, but not within budget.maxUpgradeDuration.
JobStates == {"none", "running", "succeeded", "overran", "failed"}

Init ==
  /\ \E i \in Images : obj = [phase |-> "Pending", image |-> i] /\ image = [p \in Running |-> i]
  /\ view = obj
  /\ snap = obj
  /\ st = obj
  /\ current = TRUE
  /\ waking = FALSE
  /\ queued = TRUE
  /\ timer = FALSE
  /\ pc = "idle"
  /\ fresh = FALSE
  /\ res = "none"
  /\ job = [p \in Running |-> "none"]
  /\ jobView = job
  /\ overdue = FALSE
  /\ edits = 0
  /\ failures = 0

------------------------------------------------------------------------------
(* A pass.                                                                 *)

Terminal(p) == p \in {"Succeeded", "Failed"}

\* Between passes the locals hold what the cache held.
Return(r) == EndPass(r, view)

\* The pass goes on to write phase p and to return r.
Finish(p, r) == GoTo("finish", [st EXCEPT !.phase = p], r) /\ UNCHANGED fresh

Read == BeginPass /\ UNCHANGED <<jobs, overdue, edits, failures>>

\* "Terminal: a rehearsal is never re-run."
AlreadyOver ==
  /\ pc = "pass"
  /\ Terminal(snap.phase)
  /\ Return("none")
  /\ UNCHANGED <<stored, jobs, overdue, edits, failures>>

Start ==
  /\ pc = "pass"
  /\ snap.phase = "Pending"
  /\ Finish("Restoring", "requeue")
  /\ UNCHANGED <<stored, jobs, overdue, edits, failures>>

\* The total-time guard.  It stops no Job.
TimeOut ==
  /\ pc = "pass"
  /\ snap.phase \in Running
  /\ overdue
  /\ Finish("Failed", "none")
  /\ UNCHANGED <<stored, jobs, overdue, edits, failures>>

\* ensureJob: the phase's Job is created, or is there already as it would be applied.
ApplyJob ==
  /\ pc = "pass"
  /\ snap.phase \in Running
  /\ ~overdue
  /\ \/ /\ job[snap.phase] = "none"
        /\ job' = [job EXCEPT ![snap.phase] = "running"]
        /\ image' = [image EXCEPT ![snap.phase] = snap.image]
     \/ /\ job[snap.phase] # "none" /\ image[snap.phase] = snap.image
        /\ UNCHANGED <<job, image>>
  /\ GoTo("look", st, res)
  /\ UNCHANGED <<fresh, stored, jobView, overdue, edits, failures>>

\* A token is not minted or an apply fails; a Job cannot be applied with another
\* image, its pod template being immutable.
ApplyJobFails ==
  /\ pc = "pass"
  /\ snap.phase \in Running
  /\ ~overdue
  /\ \/ failures < MaxFailures /\ failures' = failures + 1
     \/ /\ job[snap.phase] # "none" /\ image[snap.phase] # snap.image
        /\ UNCHANGED failures
  /\ Return("requeue")
  /\ UNCHANGED <<stored, jobs, overdue, edits>>

\* A slip: the budget is a fact in a condition and decides nothing.
AdvanceOverBudget(p, result) ==
  CASE p = "Restoring" -> "Migrating"
    [] p = "Migrating" -> "Asserting"
    [] OTHER           -> "Succeeded"

\* A slip: a migration within the window is enough.
AdvanceAssertsNothing(p, result) ==
  CASE p = "Restoring"                           -> "Migrating"
    [] p = "Migrating" /\ result = "overran"     -> "Failed"
    [] OTHER                                     -> "Succeeded"

\* A slip: the first phase moves on to one the API does not know.
AdvanceUndeclared(p, result) ==
  CASE p = "Restoring"                           -> "Restored"
    [] p = "Migrating" /\ result = "succeeded"   -> "Asserting"
    [] p = "Migrating" /\ result = "overran"     -> "Failed"
    [] OTHER                                     -> "Succeeded"

\* advance: the phase that follows p, whose Job came to result.
Advance(p, result) ==
  CASE p = "Restoring"                           -> "Migrating"
    [] p = "Migrating" /\ result = "succeeded"   -> "Asserting"
    [] p = "Migrating" /\ result = "overran"     -> "Failed"
    [] OTHER                                     -> "Succeeded"

\* A slip: the pass that advances waits for an event that does not come.
ResultAfterWaits(q) == "none"

\* "Requeue whenever the phase moved": the next Job is created on the following pass.
ResultAfter(q) == IF Terminal(q) THEN "none" ELSE "requeue"

\* The Job is read from the cache, which may not have it yet.
LookAtJob ==
  /\ pc = "look"
  /\ LET p == snap.phase
         v == jobView[p]
     IN
     \/ /\ v = "none"
        /\ Return("requeue")
     \/ /\ v = "running"
        /\ Finish(p, "none")
     \/ /\ v = "failed"
        /\ Finish("Failed", "none")
     \/ /\ v \in {"succeeded", "overran"}
        /\ LET q == Advance(p, v) IN Finish(q, ResultAfter(q))
  /\ UNCHANGED <<stored, jobs, overdue, edits, failures>>

\* A slip: the status is patched over whatever is there.
WriteStatusOverAnything ==
  /\ pc = "finish"
  /\ Store([obj EXCEPT !.phase = st.phase], FALSE)
  /\ pc' = "idle"
  /\ queued' = (queued \/ res = "requeue")
  /\ snap' = view
  /\ st' = view
  /\ res' = "none"
  /\ UNCHANGED <<timer, jobs, overdue, edits, failures>>

\* finish: the status is written when it changed; a conflict is an error.
WriteStatus ==
  /\ pc = "finish"
  /\ \/ /\ st = snap
        /\ Return(res)
        /\ UNCHANGED stored
     \/ /\ st # snap /\ fresh
        /\ Store([obj EXCEPT !.phase = st.phase], FALSE)
        /\ Return(res)
     \/ /\ st # snap /\ ~fresh
        /\ Return("requeue")
        /\ UNCHANGED stored
  /\ UNCHANGED <<jobs, overdue, edits, failures>>

\* Or it fails, which is an error, too.
WriteStatusFails ==
  /\ pc = "finish"
  /\ st # snap
  /\ failures < MaxFailures
  /\ failures' = failures + 1
  /\ Return("requeue")
  /\ UNCHANGED <<stored, jobs, overdue, edits>>

Worker ==
  \/ Read \/ AlreadyOver \/ Start \/ TimeOut \/ ApplyJob \/ ApplyJobFails
  \/ LookAtJob \/ WriteStatus \/ WriteStatusFails

------------------------------------------------------------------------------
(* The cluster, and everybody else.                                        *)

DeliverObject == Deliver /\ UNCHANGED <<jobs, overdue, edits, failures>>

\* A Job's event reaches the cache and wakes the controller.
DeliverJob(p) ==
  /\ jobView[p] # job[p]
  /\ jobView' = [jobView EXCEPT ![p] = job[p]]
  /\ queued' = TRUE
  /\ UNCHANGED <<stored, timer, pass, job, image, overdue, edits, failures>>

\* A Job ends.  Only the migration is measured.
EndJob(p) ==
  /\ job[p] = "running"
  /\ \/ job' = [job EXCEPT ![p] = "succeeded"]
     \/ job' = [job EXCEPT ![p] = "failed"]
     \/ p = "Migrating" /\ job' = [job EXCEPT ![p] = "overran"]
  /\ UNCHANGED <<runtime, jobView, image, overdue, edits, failures>>

\* hardTimeout passes after startedAt.
TimePasses ==
  /\ obj.phase # "Pending"
  /\ ~overdue
  /\ overdue' = TRUE
  /\ UNCHANGED <<runtime, jobs, edits, failures>>

\* The informers' resync repeats what they know of the Jobs, after ten hours.  It comes
\* too late for the default hardTimeout of six, so nothing here counts on it.
Resync ==
  /\ queued' = TRUE
  /\ UNCHANGED <<stored, timer, pass, jobs, overdue, edits, failures>>

Crash ==
  /\ Restart(obj)
  /\ jobView' = job
  /\ UNCHANGED <<job, image, overdue, edits, failures>>

\* Somebody names another image.  Nothing in the API forbids it.
Edit ==
  /\ edits < MaxEdits
  /\ edits' = edits + 1
  /\ \E i \in Images \ {obj.image} : Store([obj EXCEPT !.image = i], TRUE)
  /\ UNCHANGED <<queue, pc, snap, st, res, jobs, overdue, failures>>

Others ==
  \/ DeliverObject \/ TimePasses \/ Resync \/ Edit
  \/ \E p \in Running : DeliverJob(p) \/ EndJob(p)

Next == Worker \/ Others \/ Crash

Spec == Init /\ [][Next]_vars

\* The worker runs, the caches catch up and time passes.
HangFairness ==
  /\ WF_vars(Worker) /\ WF_vars(DeliverObject) /\ WF_vars(TimePasses)
  /\ \A p \in Running : WF_vars(DeliverJob(p))

HangSpec == Spec /\ HangFairness

\* A Job ends, too.
Fairness == HangFairness /\ \A p \in Running : WF_vars(EndJob(p))

FairSpec == Spec /\ Fairness

------------------------------------------------------------------------------
(* What must hold.                                                         *)

TypeOK ==
  /\ obj \in Objects /\ view \in Objects /\ snap \in Objects /\ st \in Objects
  /\ current \in BOOLEAN /\ waking \in BOOLEAN /\ fresh \in BOOLEAN
  /\ queued \in BOOLEAN /\ timer \in BOOLEAN
  /\ pc \in {"idle", "pass", "look", "finish"}
  /\ res \in Results
  /\ job \in [Running -> JobStates] /\ jobView \in [Running -> JobStates]
  /\ image \in [Running -> Images]
  /\ overdue \in BOOLEAN
  /\ edits \in 0..MaxEdits /\ failures \in 0..MaxFailures

\* No Job runs on a database the phases before it have not prepared: a migration is
\* timed on restored data, and asserted about only when it fits the window.
JobsInOrder ==
  \A p \in Running : job[p] # "none" => \A q \in Prior(p) : job[q] = "succeeded"

\* A rehearsal that reads Succeeded has been through all three Jobs, within budget.
SuccessIsEarned ==
  obj.phase = "Succeeded" => \A p \in Running : job[p] = "succeeded"

\* "It is the historical record of one migration": the result never changes, and no
\* Job is created once there is one.
ResultIsKept ==
  [][Terminal(obj.phase) =>
       /\ obj'.phase = obj.phase
       /\ \A p \in Running : job[p] = "none" => job'[p] = "none"]_vars

\* From some moment on the manager stays up.
StaysUp == <>[][Worker \/ Others]_vars

\* "Without this requeue the rehearsal stalls forever one phase short": when Jobs end,
\* so do rehearsals, even one whose image was changed under a Job, if only at hardTimeout.
RehearsalEnds == StaysUp => <>Terminal(obj.phase)

\* "HardTimeout kills the rehearsal": one that hangs is Failed when its time is up.
HangingIsFailed == StaysUp => (overdue ~> Terminal(obj.phase))

==============================================================================
