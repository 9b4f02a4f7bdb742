----------------------------- MODULE Environment -----------------------------
(***************************************************************************)
(* The OdooEnvironment controller: one environment from its creation to    *)
(* the deletion of its object (internal/controller/                        *)
(* odooenvironment_controller.go).  A pass runs the first phase of the     *)
(* pipeline that is not done, as a Job it waits for; when every phase is   *)
(* done it applies the Deployment, asks the handover guardrail and applies *)
(* the Ingress.  What finalisation does is EnvironmentFinalizer's matter:  *)
(* this module ends when the object is gone.                               *)
(*                                                                         *)
(* Other actors: the cluster (Jobs, Deployments), people (deletion, edits, *)
(* removing old Jobs), the customer catalogue, the clock, the restores     *)
(* that pause the environment through its status and replace what is in    *)
(* its database, and a manager that can die at any moment.                 *)
(*                                                                         *)
(* Of a restore only what it does to the environment is here: the steps of *)
(* its own controller are folded into its pause, the replacement by its    *)
(* Job, which comes while it has the pause, and the end of the pause.      *)
(* OdooRestore has them one by one.                                        *)
(***************************************************************************)
EXTENDS ControllerRuntime, FiniteSets

CONSTANTS
  DataType,         \* spec.data.type
  HasEngine,        \* spec.migration.engine is set
  Ephemeral,        \* spec.lifecycle.type is Ephemeral
  HasHost,          \* spec.exposure.host is set
  Restores,         \* OdooRestores that may pause the environment
  None,             \* nobody
  RoundTripBumps,   \* writing the finalizer also fills in spec fields the
                    \* manifest left out, which bumps metadata.generation
  ExpiryMayFail,    \* the API server may fail the calls of checkExpiry
  JobsMayFail,      \* a phase Job may fail
  MaxEdits          \* bound: edits of the manifest or the catalogue by people

ASSUME EnvironmentAssumption ==
  /\ DataType \in {"Snapshot", "Empty", "Demo", "Live"}
  /\ HasEngine \in BOOLEAN
  /\ Ephemeral \in BOOLEAN
  /\ HasHost \in BOOLEAN
  /\ RoundTripBumps \in BOOLEAN
  /\ ExpiryMayFail \in BOOLEAN
  /\ JobsMayFail \in BOOLEAN
  /\ MaxEdits \in Nat
  /\ None \notin Restores

VARIABLES
  job,        \* job[s]: the Job of phase s, as the API server has it
  jobView,    \* job[s] as the cache shows it
  db,         \* what the contents of the database have been through: phases, and
              \* "copy" when a restore has put them there
  torn,       \* the phases whose Job was running when a restore replaced the contents
  replicas,   \* spec.replicas of the Deployments: "none" before they exist
  pods,       \* serving pods are running
  ingress,    \* the Ingress exists
  allowed,    \* what CheckHandover answers, as the catalogue stands
  expired,    \* the TTL has run out
  edits       \* edits made so far

children == <<job, jobView, db, torn, replicas, pods, ingress>>
world    == <<allowed, expired, edits>>
vars     == <<runtime, children, world>>

------------------------------------------------------------------------------
(* The pipeline.                                                           *)

\* What fills the database: nothing does when it already exists.
Provision ==
  CASE DataType = "Snapshot" -> {"restore"}
    [] DataType = "Live"     -> {}
    [] OTHER                 -> {"init"}

\* Only data that came from somewhere else can need migrating.
Migration == IF HasEngine /\ DataType \in {"Snapshot", "Live"} THEN {"migrate"} ELSE {}

Steps == Provision \cup Migration \cup {"harden"}

\* The phases that come before s in the pipeline.
Prior(s) ==
  CASE s = "harden"  -> Provision \cup Migration
    [] s = "migrate" -> Provision
    [] OTHER         -> {}

\* A slip: the name of the condition where the name of the phase belongs.
PhaseOfUndeclared(s) ==
  CASE s = "restore" -> "Restoring"
    [] s = "harden"  -> "Hardened"
    [] OTHER         -> "Provisioning"

\* The phase the status shows while s runs.
PhaseOf(s) ==
  CASE s = "restore" -> "Restoring"
    [] s = "harden"  -> "Hardening"
    [] OTHER         -> "Provisioning"

Phases == {"Pending", "Provisioning", "Restoring", "Hardening", "Ready", "Expired", "Failed"}

JobStates == {"none", "running", "succeeded", "failed"}

\* The object, as far as the controller looks at it.  done is the set of phase
\* conditions that are True; ready and terminated are readyAt and terminatedAt.
Objects ==
  [exists: BOOLEAN, finalizer: BOOLEAN, deleting: BOOLEAN,
   done: SUBSET Steps, phase: Phases, pausedBy: Restores \cup {None},
   handover: {"unknown", "allowed", "refused"},
   ready: BOOLEAN, terminated: BOOLEAN]

Created ==
  [exists |-> TRUE, finalizer |-> FALSE, deleting |-> FALSE,
   done |-> {}, phase |-> "Pending", pausedBy |-> None,
   handover |-> "unknown", ready |-> FALSE, terminated |-> FALSE]

Init ==
  /\ obj = Created
  /\ view = Created
  /\ snap = Created
  /\ st = Created
  /\ current = TRUE
  /\ waking = FALSE
  /\ queued = TRUE
  /\ timer = FALSE
  /\ pc = "idle"
  /\ fresh = FALSE
  /\ res = "none"
  /\ job = [s \in Steps |-> "none"]
  /\ jobView = [s \in Steps |-> "none"]
  /\ db = {}
  /\ torn = {}
  /\ replicas = "none"
  /\ pods = FALSE
  /\ ingress = FALSE
  /\ allowed \in BOOLEAN
  /\ expired = FALSE
  /\ edits = 0

------------------------------------------------------------------------------
(* A pass of the reconcile loop.                                           *)

\* The pass returns r; between passes its locals hold a blank object.
Return(r) == EndPass(r, Created)

Read == BeginPass /\ UNCHANGED <<children, world>>

\* The object is gone from the cache: nothing to do.
Gone ==
  /\ pc = "pass"
  /\ ~snap.exists
  /\ Return("none")
  /\ UNCHANGED <<stored, children, world>>

\* A deletion is handed to finalize, which asks to be called again or removes
\* the finalizer: then the object is gone.  See EnvironmentFinalizer.
Finalize ==
  /\ pc = "pass"
  /\ snap.exists /\ snap.deleting
  /\ \/ /\ Return("after")
        /\ UNCHANGED stored
     \/ /\ fresh
        /\ Store([obj EXCEPT !.exists = FALSE, !.finalizer = FALSE], TRUE)
        /\ Return("none")
     \/ /\ ~fresh
        /\ Return("requeue")
        /\ UNCHANGED stored
  /\ UNCHANGED <<children, world>>

\* The first pass only adds the finalizer, and returns a plain Result{}.
AddFinalizer ==
  /\ pc = "pass"
  /\ snap.exists /\ ~snap.deleting /\ ~snap.finalizer
  /\ \/ /\ fresh
        /\ Store([obj EXCEPT !.finalizer = TRUE], RoundTripBumps)
        /\ Return("none")
     \/ /\ ~fresh
        /\ Return("requeue")
        /\ UNCHANGED stored
  /\ UNCHANGED <<children, world>>

Live == snap.exists /\ ~snap.deleting /\ snap.finalizer

\* checkExpiry: the TTL has run out.  The status is written before the delete.
Expire ==
  /\ pc = "pass"
  /\ Live /\ Ephemeral /\ expired
  /\ GoTo("expire", [snap EXCEPT !.phase = "Expired", !.terminated = TRUE], "none")
  /\ UNCHANGED <<stored, fresh, children, world>>

\* A slip: the outcome of the commit is not looked at.
RecordExpiryDeletesAnyway ==
  /\ pc = "expire"
  /\ \/ /\ st # snap /\ fresh
        /\ Store(st, FALSE)
        /\ GoTo("delete", st, "none")
     \/ /\ GoTo("delete", st, "none")
        /\ UNCHANGED <<stored, fresh>>
  /\ UNCHANGED <<children, world>>

\* checkExpiry: commit, then delete.  When the commit is refused the pass returns
\* a plain Result{}, and the caller's own commit finds nothing left to write.
RecordExpiry ==
  /\ pc = "expire"
  /\ \/ /\ st = snap
        /\ GoTo("delete", st, "none")
        /\ UNCHANGED <<stored, fresh>>
     \/ /\ fresh
        /\ Store(st, FALSE)
        /\ GoTo("delete", st, "none")
     \/ /\ ~fresh \/ ExpiryMayFail
        /\ Return("none")
        /\ UNCHANGED stored
  /\ UNCHANGED <<children, world>>

\* checkExpiry: the error of the Delete is dropped.
DeleteExpired ==
  /\ pc = "delete"
  /\ \/ /\ obj.exists /\ ~obj.deleting
        /\ Store([obj EXCEPT !.deleting = TRUE], TRUE)
     \/ /\ ~obj.exists \/ obj.deleting \/ ExpiryMayFail
        /\ UNCHANGED stored
  /\ Return("none")
  /\ UNCHANGED <<children, world>>

Expiring == Live /\ Ephemeral /\ expired

\* A slip: a Job that ended is taken for one that succeeded.
AfterPhaseFailedIsDone(s, j) ==
  CASE j \in {"succeeded", "failed"} -> [snap EXCEPT !.done = @ \cup {s}, !.phase = PhaseOf(s)]
    [] OTHER                        -> [snap EXCEPT !.phase = PhaseOf(s)]

\* What a phase whose Job the cache shows in state j leaves in the status, and
\* what the pass returns for it.
AfterPhase(s, j) ==
  CASE j = "succeeded" -> [snap EXCEPT !.done = @ \cup {s}, !.phase = PhaseOf(s)]
    [] j = "failed"    -> [snap EXCEPT !.phase = "Failed"]
    [] OTHER           -> [snap EXCEPT !.phase = PhaseOf(s)]

\* A slip: after a phase completes the pass waits for the next event.
ResultAfterPhaseWaits(j) == "none"

\* A pass that completes a phase asks for another at once, since no event is due;
\* any other waits for the Job.
ResultAfterPhase(j) == IF j = "succeeded" THEN "requeue" ELSE "none"

\* A slip: phases start without waiting for the ones before them.
IsNextPhaseUnordered(s) == s \notin snap.done

\* A slip: a completed phase is looked at like any other.
IsNextPhaseAgain(s) == Prior(s) \subseteq snap.done

\* The phase the pipeline is at: the first whose condition is not True.
IsNextPhase(s) == s \notin snap.done /\ Prior(s) \subseteq snap.done

\* runPhase: the Job is applied, which creates it or changes nothing, and then
\* read from the cache, which does not have it yet when it was just created.
RunPhase(s) ==
  /\ pc = "pass"
  /\ Live /\ ~Expiring
  /\ IsNextPhase(s)
  /\ job' = IF job[s] = "none" THEN [job EXCEPT ![s] = "running"] ELSE job
  /\ \/ /\ jobView[s] = "none"
        /\ Return("requeue")
     \/ /\ jobView[s] # "none"
        /\ GoTo("commit", AfterPhase(s, jobView[s]), ResultAfterPhase(jobView[s]))
        /\ UNCHANGED fresh
  /\ UNCHANGED <<stored, jobView, db, torn, replicas, pods, ingress, world>>

\* A slip: the workload is applied once there is data to serve.
HardenedTooEarly == snap.done # {} /\ Steps \ {"harden"} \subseteq snap.done

\* The pipeline has nothing left to run.
Hardened == Steps \subseteq snap.done

\* ensureWorkload, ensureService.  The web, cron and queue-job Deployments are
\* applied with the same number of replicas; Hibernated is never the phase.
ApplyWorkload ==
  /\ pc = "pass"
  /\ Live /\ ~Expiring
  /\ Hardened
  /\ replicas' = IF snap.pausedBy = None THEN "one" ELSE "zero"
  /\ GoTo("expose", st, res)
  /\ UNCHANGED <<stored, fresh, job, jobView, db, torn, pods, ingress, world>>

\* CheckHandover refuses: the status says so, and nothing is applied.
RefuseExposure ==
  /\ pc = "expose"
  /\ ~allowed
  /\ GoTo("commit", [snap EXCEPT !.handover = "refused", !.phase = "Failed"], "none")
  /\ UNCHANGED <<stored, fresh, children, world>>

\* A slip: a Ready environment does not ask to be looked at again.
RequeueForLifecycleNever == "none"

\* requeueForLifecycle: only an Ephemeral environment asks to be looked at again.
RequeueForLifecycle == IF Ephemeral THEN "after" ELSE "none"

\* CheckHandover permits: the Ingress, when a host is declared, and Ready.
Expose ==
  /\ pc = "expose"
  /\ allowed
  /\ ingress' = (ingress \/ HasHost)
  /\ GoTo("commit",
          [snap EXCEPT !.handover = "allowed", !.phase = "Ready", !.ready = TRUE],
          RequeueForLifecycle)
  /\ UNCHANGED <<stored, fresh, job, jobView, db, torn, replicas, pods, world>>

\* The status half of s over the rest of o.
WithStatus(o, s) == [s EXCEPT !.exists = o.exists, !.finalizer = o.finalizer, !.deleting = o.deleting]

\* A slip: the status is patched whatever the version it was read from.
CommitOverAnything ==
  /\ pc = "commit"
  /\ \/ /\ st = snap
        /\ Return(res)
        /\ UNCHANGED stored
     \/ /\ obj.exists
        /\ Store(WithStatus(obj, st), FALSE)
        /\ Return(res)
  /\ UNCHANGED <<children, world>>

\* commit: the status is written if it changed, and only over the version read.
\* A change may also be in what this module leaves out of it: messages, the
\* observed generation, the revisions of the addons.
Commit ==
  /\ pc = "commit"
  /\ \/ /\ st = snap
        /\ Return(res)
        /\ UNCHANGED stored
     \/ /\ fresh
        /\ Store(st, FALSE)
        /\ Return(res)
     \/ /\ ~fresh
        /\ Return("requeue")
        /\ UNCHANGED stored
  /\ UNCHANGED <<children, world>>

\* A call to the API server fails, and the error ends the pass wherever it is.
CallFails ==
  /\ pc \in {"pass", "expose", "commit"}
  /\ Return("requeue")
  /\ UNCHANGED <<stored, children, world>>

Worker ==
  \/ Read \/ Gone \/ Finalize \/ AddFinalizer
  \/ Expire \/ RecordExpiry \/ DeleteExpired
  \/ \E s \in Steps : RunPhase(s)
  \/ ApplyWorkload \/ RefuseExposure \/ Expose \/ Commit

------------------------------------------------------------------------------
(* The cluster.                                                            *)

DeliverObject == Deliver /\ UNCHANGED <<children, world>>

\* A Job event reaches the cache and wakes the controller: Owns has no predicate.
DeliverJob(s) ==
  /\ jobView[s] # job[s]
  /\ jobView' = [jobView EXCEPT ![s] = job[s]]
  /\ queued' = TRUE
  /\ UNCHANGED <<stored, timer, pass, job, db, torn, replicas, pods, ingress, world>>

\* A phase Job ends.  The phase that provisions starts from an empty database,
\* so whether it succeeds or fails the contents have been through nothing else.
EndJob(s) ==
  /\ job[s] = "running"
  /\ \/ /\ job' = [job EXCEPT ![s] = "succeeded"]
        /\ db' = IF s \in Provision THEN {s} ELSE db \cup {s}
     \/ /\ JobsMayFail
        /\ job' = [job EXCEPT ![s] = "failed"]
        /\ db' = IF s \in Provision THEN {} ELSE db
  /\ torn' = torn \ {s}
  /\ UNCHANGED <<runtime, jobView, replicas, pods, ingress, world>>

\* A phase Job ends under which a restore replaced the contents: it may as well have
\* done all of its work before, and then nothing of it is left.
EndTornJob(s) ==
  /\ job[s] = "running" /\ s \in torn
  /\ \/ job' = [job EXCEPT ![s] = "succeeded"]
     \/ JobsMayFail /\ job' = [job EXCEPT ![s] = "failed"]
  /\ torn' = torn \ {s}
  /\ UNCHANGED <<runtime, jobView, db, replicas, pods, ingress, world>>

\* The Deployments reach the replicas asked for; their status wakes the controller.
Rollout ==
  /\ replicas # "none"
  /\ pods # (replicas = "one")
  /\ pods' = (replicas = "one")
  /\ queued' = TRUE
  /\ UNCHANGED <<stored, timer, pass, job, jobView, db, torn, replicas, ingress, world>>

TimerExpires == TimerFires /\ UNCHANGED <<children, world>>

\* The manager starts again with a full cache.
Crash ==
  /\ Restart(Created)
  /\ jobView' = job
  /\ UNCHANGED <<job, db, torn, replicas, pods, ingress, world>>

------------------------------------------------------------------------------
(* Everybody else.                                                         *)

\* Somebody edits the manifest, without changing what this module looks at.
Edit ==
  /\ obj.exists
  /\ edits < MaxEdits
  /\ edits' = edits + 1
  /\ Store(obj, TRUE)
  /\ UNCHANGED <<queue, pc, snap, st, res, children, allowed, expired>>

\* Somebody deletes the environment.
Delete ==
  /\ obj.exists /\ ~obj.deleting
  /\ Store(IF obj.finalizer THEN [obj EXCEPT !.deleting = TRUE]
                            ELSE [obj EXCEPT !.exists = FALSE], TRUE)
  /\ UNCHANGED <<queue, pc, snap, st, res, children, world>>

\* An old Job is removed: a failed one to have it tried again, or a finished one
\* by housekeeping, which is slower than the cache.
RemoveJob(s) ==
  /\ \/ job[s] = "failed"
     \/ job[s] = "succeeded" /\ s \in view.done /\ (pc = "idle" \/ s \in snap.done)
  /\ job' = [job EXCEPT ![s] = "none"]
  /\ UNCHANGED <<runtime, jobView, db, torn, replicas, pods, ingress, world>>

\* A restore pauses the environment: a write to its status, which
\* GenerationChangedPredicate keeps from waking the controller.
Pause(r) ==
  /\ obj.exists
  /\ obj.pausedBy = None
  /\ Store([obj EXCEPT !.pausedBy = r], FALSE)
  /\ UNCHANGED <<queue, pc, snap, st, res, children, world>>

\* The Job of the restore that has the environment paused: click-odoo-restoredb --force
\* puts a copy in the place of whatever the database holds, or half of one when it fails.
\* Nothing asks what phase the environment is in, or runs a phase over the copy.
Replace(r) ==
  /\ obj.exists
  /\ obj.pausedBy = r
  /\ db' = {"copy"}
  /\ torn' = {s \in Steps : job[s] = "running"}
  /\ UNCHANGED <<runtime, job, jobView, replicas, pods, ingress, world>>

\* The restore is over, whether it succeeded, failed, or replaced nothing.
Resume(r) ==
  /\ obj.exists
  /\ obj.pausedBy = r
  /\ Store([obj EXCEPT !.pausedBy = None], FALSE)
  /\ UNCHANGED <<queue, pc, snap, st, res, children, world>>

\* An event that has nothing to do with the environment wakes the controller: the
\* customer's record changes (environmentsOfTenant), or the informers' periodic
\* resync repeats the Jobs and Deployments they know, every ten hours by default.
UnrelatedEvent ==
  /\ queued' = TRUE
  /\ UNCHANGED <<stored, timer, pass, children, world>>

\* Somebody fills in or changes the catalogue: nothing watches OdooDatabase.
CatalogueChanges ==
  /\ edits < MaxEdits
  /\ edits' = edits + 1
  /\ allowed' = ~allowed
  /\ UNCHANGED <<runtime, children, expired>>

\* The TTL runs out.
TTLRunsOut ==
  /\ Ephemeral /\ ~expired
  /\ expired' = TRUE
  /\ UNCHANGED <<runtime, children, allowed, edits>>

Others ==
  \/ DeliverObject \/ Rollout \/ TimerExpires
  \/ Edit \/ Delete \/ UnrelatedEvent \/ CatalogueChanges \/ TTLRunsOut
  \/ \E s \in Steps : DeliverJob(s) \/ EndJob(s) \/ EndTornJob(s) \/ RemoveJob(s)
  \/ \E r \in Restores : Pause(r) \/ Replace(r) \/ Resume(r)

Next == Worker \/ Others \/ CallFails \/ Crash

Spec == Init /\ [][Next]_vars

\* The manager's worker runs, caches catch up, Jobs end, Deployments roll out and
\* timers fire.  Nobody is obliged to edit, delete, pause, or touch a customer,
\* and what only the next resync, hours later, would put right does not count.
Fairness ==
  /\ WF_vars(Worker)
  /\ WF_vars(DeliverObject) /\ WF_vars(Rollout) /\ WF_vars(TimerExpires)
  /\ \A s \in Steps : WF_vars(DeliverJob(s)) /\ WF_vars(EndJob(s) \/ EndTornJob(s))

FairSpec == Spec /\ Fairness

\* The same, when the TTL is waited for.
TTLSpec == FairSpec /\ WF_vars(TTLRunsOut)

------------------------------------------------------------------------------
(* What must hold.                                                         *)

\* Every variable stays in its type, and the status only says what the API lets
\* it say: a phase outside the enum of EnvPhase would be refused.
TypeOK ==
  /\ obj \in Objects /\ view \in Objects /\ snap \in Objects /\ st \in Objects
  /\ current \in BOOLEAN /\ waking \in BOOLEAN /\ fresh \in BOOLEAN
  /\ queued \in BOOLEAN /\ timer \in BOOLEAN
  /\ allowed \in BOOLEAN /\ expired \in BOOLEAN
  /\ pods \in BOOLEAN /\ ingress \in BOOLEAN
  /\ pc \in {"idle", "pass", "expire", "delete", "expose", "commit"}
  /\ res \in Results
  /\ job \in [Steps -> JobStates]
  /\ jobView \in [Steps -> JobStates]
  /\ db \subseteq Steps \cup {"copy"}
  /\ torn \subseteq Steps
  /\ replicas \in {"none", "zero", "one"}
  /\ edits \in 0..MaxEdits

\* The environment has been given a workload or an address.
Opened == replicas # "none" \/ ingress

\* Whether the harden phase has been over the contents of the database, they are a copy
\* just as a restore left it, or neither.
Contents == IF "harden" \in db THEN "hardened" ELSE IF db = {"copy"} THEN "copy" ELSE "raw"

\* "Until it finishes, the environment is NOT exposed": whatever the pipeline made of the
\* data, nothing serves it before the harden phase has been over it.  The exception is
\* what a restore brought and no phase has touched: that is opened, or goes on being
\* served, as it is, and this is all that the pipeline promises of it.
ServedOnlyHardened == Opened => Contents # "raw"

\* A phase Job only ever runs on the result of the phases before it, with no other phase
\* Job writing the same database.  Only a restore, which asks nothing of the pipeline, may
\* have put something else in the place of that result.
PhaseRunsOnItsInput ==
  \A s \in Steps : job[s] = "running" =>
    /\ Prior(s) \subseteq db \/ "copy" \in db
    /\ \A t \in Steps \ {s} : job[t] # "running"

\* "Re-running a restore against an environment somebody is using would destroy
\* it": once a workload exists no phase Job starts, whatever housekeeping does
\* to the old Jobs and however late the cache is.  An OdooRestore is not a phase.
NoPhaseOnceOpened ==
  [][Opened => \A s \in Steps : job[s] = "none" => job'[s] = "none"]_vars

\* No step of the worker changes who has the environment paused: a commit made
\* from an old copy of the status is refused rather than losing a restore's pause.
PauseSurvivesPasses == [][pc' # pc => obj'.pausedBy = obj.pausedBy]_vars

\* What the status has recorded it keeps: phases done, readyAt, terminatedAt.
NothingForgotten ==
  [][/\ obj.done \subseteq obj'.done
     /\ obj.ready => obj'.ready
     /\ obj.terminated => obj'.terminated]_vars

\* "Recorded BEFORE the delete": an environment the TTL deletes has terminatedAt
\* stored by then, or the time it ran would never be accounted for.
ExpiryIsRecorded ==
  [][pc = "delete" /\ obj'.deleting /\ ~obj.deleting => obj.terminated]_vars

\* The environment is on its way out, or has run out of time.
Leaving == obj.deleting \/ ~obj.exists \/ expired

\* From some moment on the manager does not die, and no call of it fails, any more.
StaysUp == <>[][Worker \/ Others]_vars

\* With Jobs that succeed and a manager that stays up, an environment nobody
\* deletes gets its workload: no pass ends waiting for an event that is not coming.
EventuallyServed == StaysUp => <>(replicas # "none" \/ Leaving)

\* An environment that is serving when its TTL runs out is deleted.
ReadyExpires ==
  StaysUp => ((expired /\ obj.phase = "Ready") ~> (obj.deleting \/ ~obj.exists))

\* Nothing is under way: no pass, no queued key, no event on its way, no Job.
AtRest ==
  /\ pc = "idle" /\ ~queued /\ current
  /\ \A s \in Steps : jobView[s] = job[s] /\ job[s] # "running"

\* "TTL destroys the environment that long after it was created": also one that
\* came to rest, before then, because a phase failed.
ExpiredIsDestroyed ==
  StaysUp => ((~expired /\ obj.phase = "Failed" /\ AtRest)
                ~> (obj.deleting \/ ~obj.exists))

\* The promise of ServingGate, kept by the pipeline.
Gate == INSTANCE ServingGate WITH contents <- Contents, open <- Opened

KeepsTheGate == Gate!Spec

==============================================================================
