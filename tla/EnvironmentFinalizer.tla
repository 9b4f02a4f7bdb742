------------------------- MODULE EnvironmentFinalizer -------------------------
(***************************************************************************)
(* How an OdooEnvironment goes: finalize and releaseEnv of                 *)
(* internal/controller/odooenvironment_controller.go, for the successive   *)
(* environments that bear one name.  The database and the Job that drops   *)
(* it are named after the environment, belong to nobody, and outlive it.   *)
(*                                                                         *)
(* What the environment does until its deletion is Environment's matter:   *)
(* here it gets a database and pods that are connected to it, in one step. *)
(***************************************************************************)
EXTENDS ControllerRuntime

CONSTANTS
  MaxLives,      \* bound: environments created under the name
  MaxFailures,   \* bound: calls the API server fails for the finalizer
  MaxTouches,    \* bound: writes of others to the object
  DropMayFail    \* dropdb may fail although nobody is connected

FinalizerAssumption ==
  /\ MaxLives \in Nat \ {0}
  /\ MaxFailures \in Nat
  /\ MaxTouches \in Nat
  /\ DropMayFail \in BOOLEAN

VARIABLES
  drop,       \* the Job <name>-dropdb: "none", "running" or "finished"
  dropView,   \* the same as the cache shows it
  dropper,    \* the environment whose pod runs dropdb for that Job, or 0
  orphans,    \* the environments whose pods run dropdb for a Job since deleted
  stray,      \* the Job is of no deletion any more: applied again after its environment
              \* was released, or left by a pass that could not apply it (a history)
  db,         \* the environment whose data the database env_<name> holds, or 0
  connected,  \* the environment whose Odoo is connected to it, or 0
  late,       \* dropDeadline has passed since the deletion
  failures,   \* calls failed so far
  touches     \* writes of others so far

cluster == <<drop, dropView, dropper, orphans, stray, db, connected, late>>
counts  == <<failures, touches>>
vars    == <<runtime, cluster, counts>>

Lives == 1..MaxLives

\* The object: life tells the environments of one name apart, as their uid does;
\* live says that spec.data.type is Live.
Objects == [exists: BOOLEAN, deleting: BOOLEAN, life: Lives, live: BOOLEAN]

Blank == [exists |-> FALSE, deleting |-> FALSE, life |-> 1, live |-> FALSE]

Born(n, l) == [exists |-> TRUE, deleting |-> FALSE, life |-> n, live |-> l]

Init ==
  /\ \E l \in BOOLEAN : obj = Born(1, l)
  /\ view = obj
  /\ snap = Blank
  /\ st = Blank
  /\ current = TRUE
  /\ waking = FALSE
  /\ queued = TRUE
  /\ timer = FALSE
  /\ pc = "idle"
  /\ fresh = FALSE
  /\ res = "none"
  /\ drop = "none"
  /\ dropView = "none"
  /\ dropper = 0
  /\ orphans = {}
  /\ stray = FALSE
  /\ db = 0
  /\ connected = 0
  /\ late = FALSE
  /\ failures = 0
  /\ touches = 0

------------------------------------------------------------------------------
(* A pass.                                                                 *)

Return(r) == EndPass(r, Blank)

\* The pass goes on to step p.
Then(p) == GoTo(p, st, res) /\ UNCHANGED fresh

\* The API server fails a call.
Fails == failures < MaxFailures /\ failures' = failures + 1 /\ UNCHANGED touches

Read == BeginPass /\ UNCHANGED <<cluster, counts>>

\* Nothing is being deleted: the rest of Reconcile, see Environment.
NotDeleting ==
  /\ pc = "pass"
  /\ ~snap.exists \/ ~snap.deleting
  /\ Return("none")
  /\ UNCHANGED <<stored, cluster, counts>>

\* "An environment with live data is NOT touched."
FinalizeLive ==
  /\ pc = "pass"
  /\ snap.exists /\ snap.deleting /\ snap.live
  /\ Then("update")
  /\ UNCHANGED <<stored, cluster, counts>>

\* The Job is applied on every pass: created, or left as it is.  It has no owner.
ApplyDrop ==
  /\ pc = "pass"
  /\ snap.exists /\ snap.deleting /\ ~snap.live
  /\ \/ /\ drop = "none"
        /\ drop' = "running"
        /\ dropper' = snap.life
        /\ stray' = ~(obj.exists /\ obj.life = snap.life)
     \/ /\ drop # "none"
        /\ UNCHANGED <<drop, dropper, stray>>
  /\ Then("get")
  /\ UNCHANGED <<stored, dropView, orphans, db, connected, late, counts>>

\* The apply fails: the object is released as it is, so that it does not become
\* undeletable.
ApplyDropFails ==
  /\ pc = "pass"
  /\ snap.exists /\ snap.deleting /\ ~snap.live
  /\ Fails
  /\ stray' = (stray \/ drop # "none")
  /\ Then("update")
  /\ UNCHANGED <<stored, drop, dropView, dropper, orphans, db, connected, late>>

\* A slip: there is no deadline.
GetDropWaitsForEver ==
  /\ pc = "get"
  /\ \/ /\ dropView = "finished"
        /\ Then("clean")
     \/ /\ dropView # "finished"
        /\ Return("after")
  /\ UNCHANGED <<stored, cluster, counts>>

\* A slip: a Job that counts a failed attempt is taken for a finished one.
GetDropUnfinished ==
  /\ pc = "get"
  /\ \/ /\ dropView # "none"
        /\ Then("clean")
     \/ /\ dropView = "none"
        /\ Return("after")
  /\ UNCHANGED <<stored, cluster, counts>>

\* The Job is read from the cache: finished, or given up on, or waited for.
GetDrop ==
  /\ pc = "get"
  /\ \/ /\ dropView = "finished" \/ (dropView = "running" /\ late)
        /\ Then("clean")
     \/ /\ dropView = "none" \/ (dropView = "running" /\ ~late)
        /\ Return("after")
  /\ UNCHANGED <<stored, cluster, counts>>

\* A slip: a Job that no pod is running for is counted as leaving one behind.
CleanDropCounts ==
  /\ pc = "clean"
  /\ drop' = "none"
  /\ dropper' = 0
  /\ orphans' = orphans \cup {dropper}
  /\ stray' = FALSE
  /\ Then("update")
  /\ UNCHANGED <<stored, dropView, db, connected, late, counts>>

\* A slip: the Job is left to the garbage collector, which does not know it.
CleanDropLeavesIt ==
  /\ pc = "clean"
  /\ Then("update")
  /\ UNCHANGED <<stored, cluster, counts>>

\* releaseEnv deletes the Job.  The propagation is Background: its pod goes later.
CleanDrop ==
  /\ pc = "clean"
  /\ \/ /\ drop' = "none"
        /\ dropper' = 0
        /\ orphans' = orphans \cup ({dropper} \ {0})
        /\ stray' = FALSE
        /\ Then("update")
        /\ UNCHANGED counts
     \/ /\ Fails
        /\ Return("requeue")
        /\ UNCHANGED <<drop, dropper, orphans, stray>>
  /\ UNCHANGED <<stored, dropView, db, connected, late>>

\* releaseEnv removes the finalizer, and with it the object.
Release ==
  /\ pc = "update"
  /\ \/ /\ fresh
        /\ Store([obj EXCEPT !.exists = FALSE], TRUE)
        /\ Return("none")
     \/ /\ ~fresh
        /\ Return("requeue")
        /\ UNCHANGED stored
  /\ UNCHANGED <<cluster, counts>>

\* The update fails.
ReleaseFails ==
  /\ pc = "update"
  /\ Fails
  /\ Return("requeue")
  /\ UNCHANGED <<stored, cluster>>

Worker ==
  \/ Read \/ NotDeleting \/ FinalizeLive \/ ApplyDrop \/ ApplyDropFails
  \/ GetDrop \/ CleanDrop \/ Release \/ ReleaseFails

------------------------------------------------------------------------------
(* The cluster.                                                            *)

DeliverObject == Deliver /\ UNCHANGED <<cluster, counts>>

\* The Job's events reach the cache.  They wake nobody: the Job has no owner.
DeliverDrop ==
  /\ dropView # drop
  /\ dropView' = drop
  /\ UNCHANGED <<runtime, drop, dropper, orphans, stray, db, connected, late, counts>>

\* One of the pods ends: the Job's own, and the Job with it, or one left behind.
PodEnds ==
  \/ /\ drop = "running"
     /\ drop' = "finished"
     /\ dropper' = 0
     /\ UNCHANGED orphans
  \/ /\ \E n \in orphans : orphans' = orphans \ {n}
     /\ UNCHANGED <<drop, dropper>>

\* dropdb drops whatever the database holds, unless somebody is connected to it.
DropRuns ==
  /\ PodEnds
  /\ connected = 0
  /\ db' = 0
  /\ UNCHANGED <<runtime, dropView, stray, connected, late, counts>>

\* PostgreSQL refuses to drop a database that is being accessed by other users, and
\* after its retries the Job fails.
DropIsRefused ==
  /\ PodEnds
  /\ connected # 0 \/ DropMayFail
  /\ UNCHANGED <<runtime, dropView, stray, db, connected, late, counts>>

\* The pod of a deleted Job is killed.
PodIsKilled ==
  /\ \E n \in orphans : orphans' = orphans \ {n}
  /\ UNCHANGED <<runtime, drop, dropView, dropper, stray, db, connected, late, counts>>

\* The phases fill the database: see Environment.
Provision ==
  /\ obj.exists /\ ~obj.deleting
  /\ connected = 0
  /\ db' = obj.life
  /\ UNCHANGED <<runtime, drop, dropView, dropper, orphans, stray, connected, late, counts>>

\* The workload is started, and holds connections to the database.
Connect ==
  /\ obj.exists
  /\ connected = 0
  /\ db = obj.life
  /\ connected' = obj.life
  /\ UNCHANGED <<runtime, drop, dropView, dropper, orphans, stray, db, late, counts>>

\* The Deployments belong to the object, so they are collected once it is gone.
CollectGarbage ==
  /\ connected # 0
  /\ ~(obj.exists /\ obj.life = connected)
  /\ connected' = 0
  /\ queued' = TRUE
  /\ UNCHANGED <<stored, timer, pass, drop, dropView, dropper, orphans, stray, db, late, counts>>

TimerExpires == TimerFires /\ UNCHANGED <<cluster, counts>>

\* Ten minutes pass after the deletion.
DeadlinePasses ==
  /\ obj.exists /\ obj.deleting
  /\ late' = TRUE
  /\ UNCHANGED <<runtime, drop, dropView, dropper, orphans, stray, db, connected, counts>>

Crash ==
  /\ Restart(Blank)
  /\ dropView' = drop
  /\ UNCHANGED <<drop, dropper, orphans, stray, db, connected, late, counts>>

------------------------------------------------------------------------------
(* Everybody else.                                                         *)

\* Somebody deletes the environment.
Delete ==
  /\ obj.exists /\ ~obj.deleting
  /\ Store([obj EXCEPT !.deleting = TRUE], TRUE)
  /\ UNCHANGED <<queue, pc, snap, st, res, cluster, counts>>

\* Somebody creates an environment of the same name, once its deletion shows.
Recreate ==
  /\ ~obj.exists
  /\ obj.life < MaxLives
  /\ current /\ dropView = drop
  /\ \E l \in BOOLEAN : Store(Born(obj.life + 1, l), TRUE)
  /\ late' = FALSE
  /\ UNCHANGED <<queue, pc, snap, st, res, counts,
                 drop, dropView, dropper, orphans, stray, db, connected>>

\* Somebody else writes the object, a restore its status for instance.
Touch ==
  /\ obj.exists
  /\ touches < MaxTouches
  /\ touches' = touches + 1
  /\ Store(obj, FALSE)
  /\ UNCHANGED <<queue, pc, snap, st, res, cluster, failures>>

\* An owned Deployment or the customer's record changes.
UnrelatedEvent ==
  /\ queued' = TRUE
  /\ UNCHANGED <<stored, timer, pass, cluster, counts>>

Others ==
  \/ DeliverObject \/ DeliverDrop \/ DropRuns \/ DropIsRefused \/ PodIsKilled
  \/ Provision \/ Connect \/ CollectGarbage \/ TimerExpires \/ DeadlinePasses
  \/ Delete \/ Recreate \/ UnrelatedEvent

Next == Worker \/ Others \/ Touch \/ Crash

Spec == Init /\ [][Next]_vars

\* The worker runs, caches catch up and time passes.  That a drop ever ends is not
\* assumed: it is what the deadline is for.
Fairness ==
  /\ WF_vars(Worker)
  /\ WF_vars(DeliverObject) /\ WF_vars(DeliverDrop)
  /\ WF_vars(TimerExpires) /\ WF_vars(DeadlinePasses)

FairSpec == Spec /\ Fairness

------------------------------------------------------------------------------
(* What must hold.                                                         *)

TypeOK ==
  /\ obj \in Objects /\ view \in Objects /\ snap \in Objects /\ st \in Objects
  /\ current \in BOOLEAN /\ waking \in BOOLEAN /\ fresh \in BOOLEAN
  /\ queued \in BOOLEAN /\ timer \in BOOLEAN
  /\ pc \in {"idle", "pass", "get", "clean", "update"}
  /\ res \in Results
  /\ drop \in {"none", "running", "finished"}
  /\ dropView \in {"none", "running", "finished"}
  /\ dropper \in 0..MaxLives /\ orphans \subseteq Lives
  /\ stray \in BOOLEAN /\ late \in BOOLEAN
  /\ db \in 0..MaxLives /\ connected \in 0..MaxLives
  /\ failures \in 0..MaxFailures /\ touches \in 0..MaxTouches

\* The step that makes a deleted environment disappear.
Released == obj.exists /\ ~obj'.exists

\* "Deletion now waits for the drop to reach a terminal state": no dropdb is running behind
\* the back of a released environment, unless the deadline has passed, a call failed or
\* somebody else wrote the object meanwhile.  A second environment of the name may take
\* the Job a late pass of the first created again for its own.
ReleasedAfterTheDrop ==
  Released /\ obj.life = 1 /\ ~late /\ failures = 0 /\ touches = 0 =>
    dropper # obj.life /\ obj.life \notin orphans

DropIsWaitedFor == [][ReleasedAfterTheDrop]_vars

\* "The thing that outlived the object cannot go on to destroy its replacement": dropdb
\* does not empty the database of an environment nobody is deleting, the next of the name.
\* Two things that outlive the object still can: a Job that a pass with an old copy applied
\* again, or that one could not apply and left, and the pod of a Job deleted while it ran,
\* until the Background propagation reaches it.
ReplacementIsSpared ==
  db # 0 /\ db' = 0 /\ obj.exists /\ ~obj.deleting /\ db = obj.life =>
    stray \/ orphans # {}

SparesTheReplacement == [][ReplacementIsSpared]_vars

\* From some moment on the manager stays up and nobody else writes the object.
Settles == <>[][Worker \/ Others]_vars

\* A wedged drop does not leave an object nobody can delete.
DeletionCompletes == Settles => (obj.deleting ~> ~obj.exists)

\* "The finalizer exists only to drop the database": an environment that was released
\* before the deadline has no database any more.
DatabaseGoes == [][Released /\ ~obj.live /\ ~late => db # obj.life]_vars

==============================================================================
