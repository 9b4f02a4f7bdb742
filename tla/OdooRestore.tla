------------------------------ MODULE OdooRestore ------------------------------
(***************************************************************************)
(* The OdooRestore controller: backups put back into one environment       *)
(* (internal/controller/odoorestore_controller.go).  A restore has the     *)
(* environment stopped by writing its own name into the environment's      *)
(* status.pausedBy, replaces the database with a Job, and clears pausedBy. *)
(*                                                                         *)
(* One worker takes the restores in turn.  It reads the restore, the       *)
(* environment and the Job from three caches that are late independently;  *)
(* each write is refused when it was made from an old version.  Every      *)
(* event about a restore wakes it, its own status writes included: this    *)
(* controller has no predicate.                                            *)
(***************************************************************************)
EXTENDS Naturals, FiniteSets

CONSTANTS
  Restores,      \* the OdooRestores into the environment
  None,          \* nobody
  JobsMayFail,   \* a restore Job may fail
  JobsMayGo,     \* old Jobs are removed by somebody
  MaxMishaps     \* bound: changes to what the backups have, and calls that fail

ASSUME RestoreAssumption ==
  /\ None \notin Restores
  /\ JobsMayFail \in BOOLEAN
  /\ JobsMayGo \in BOOLEAN
  /\ MaxMishaps \in Nat

VARIABLES
  status,      \* status[r]: what the API server has of restore r
  statusView,  \* statusView[r]: what the cache has
  current,     \* the restores the cache has as they are
  queued,      \* the restores in the work queue
  timers,      \* the restores with a RequeueAfter pending
  pc,          \* "idle", or the step the pass in progress is at
  cur,         \* the restore it is about
  read,        \* the status it read
  st,          \* the status it means to write
  fresh,       \* nobody has written the restore since
  job,         \* job[r]: the Job restore-r, as the API server has it
  jobView,     \* job[r] as the cache has it
  created,     \* created[r]: how often that Job was created, from 2 on not counted
  paused,      \* the environment's status.pausedBy
  pausedView,  \* the same as the cache has it
  envCurrent,  \* the cache has the environment as it is
  odoo,        \* the environment's Odoo is running
  copyThere,   \* the backup and the copy to restore are there
  safetyThere, \* there is a volume for the copy taken first
  mishaps      \* of those so far

objects == <<status, statusView, current>>
queue   == <<queued, timers>>
pass    == <<pc, cur, read, st, fresh>>
jobs    == <<job, jobView, created>>
env     == <<paused, pausedView, envCurrent, odoo>>
backups == <<copyThere, safetyThere, mishaps>>
vars    == <<objects, queue, pass, jobs, env, backups>>

\* The reasons of the Restored condition.  Only Failed stops a restore for good.
Reasons == {"none", "NoSuchCopy", "CannotStop", "NoSafetyDestination", "CannotStart",
            "Failed", "Restored"}

\* started is startedAt; the phase is New, Restoring, Succeeded or Failed.
Statuses ==
  [phase: {"New", "Restoring", "Succeeded", "Failed"}, reason: Reasons, started: BOOLEAN]

New == [phase |-> "New", reason |-> "none", started |-> FALSE]

JobStates == {"none", "running", "succeeded", "failed"}

Init ==
  /\ status = [r \in Restores |-> New]
  /\ statusView = status
  /\ current = Restores
  /\ queued = Restores
  /\ timers = {}
  /\ pc = "idle"
  /\ cur = None
  /\ read = New
  /\ st = New
  /\ fresh = FALSE
  /\ job = [r \in Restores |-> "none"]
  /\ jobView = job
  /\ created = [r \in Restores |-> 0]
  /\ paused = None
  /\ pausedView = None
  /\ envCurrent = TRUE
  /\ odoo = TRUE
  /\ copyThere \in BOOLEAN
  /\ safetyThere \in BOOLEAN
  /\ mishaps = 0

------------------------------------------------------------------------------
(* A pass.                                                                 *)

\* Between passes the locals hold nothing.
Forget ==
  /\ pc' = "idle"
  /\ cur' = None
  /\ read' = New
  /\ st' = New
  /\ fresh' = FALSE

\* The pass goes on to step p with s as the status to write.
GoTo(p, s) ==
  /\ pc' = p
  /\ st' = s
  /\ UNCHANGED <<queue, cur, read, fresh>>

\* A slip: the reason goes where the phase belongs.
FailInWords(s, reason) == [s EXCEPT !.phase = reason]

\* failRestore: the phase, and the reason in the condition.
Fail(s, reason) == [s EXCEPT !.phase = "Failed", !.reason = reason]

\* A slip: every failure is the end.
TerminalByPhase(s) == s.phase \in {"Succeeded", "Failed"}

\* "Terminal, and it stays terminal."
Terminal(s) == s.reason \in {"Restored", "Failed"}

\* A pass reads the restore, and is over when that is; it looks up the targets and
\* the copy (that one is missing is taken for the same), and the first pass to find
\* them starts.
Begin(r) ==
  /\ pc = "idle"
  /\ r \in queued
  /\ queued' = queued \ {r}
  /\ LET s == statusView[r] IN
     \/ /\ Terminal(s)
        /\ UNCHANGED pass
     \/ /\ ~Terminal(s)
        /\ cur' = r
        /\ read' = s
        /\ fresh' = (r \in current)
        /\ \/ /\ copyThere
              /\ pc' = "pause"
              /\ st' = IF s.started THEN s
                       ELSE [s EXCEPT !.started = TRUE, !.phase = "Restoring"]
           \/ /\ ~copyThere
              /\ pc' = "fail"
              /\ st' = Fail(s, "NoSuchCopy")
  /\ UNCHANGED <<objects, timers, jobs, env, backups>>

\* A slip: whose pause it is is not looked at.
SetPausedOverAnything(want) ==
  /\ paused' = want
  /\ envCurrent' = FALSE
  /\ UNCHANGED <<pausedView, odoo>>

\* setHibernated: the status of the environment is written from the cached copy,
\* unless that copy already says so.
SetPaused(want) ==
  /\ pausedView \in {None, cur}
  /\ \/ /\ pausedView = want
        /\ UNCHANGED env
     \/ /\ pausedView # want
        /\ envCurrent
        /\ paused' = want
        /\ envCurrent' = FALSE
        /\ UNCHANGED <<pausedView, odoo>>

\* setHibernated returns an error: somebody else's pause, or a conflict.
PauseRefused(want) ==
  /\ pausedView # want
  /\ pausedView \notin {None, cur} \/ ~envCurrent
  /\ UNCHANGED env

\* The environment is stopped, and after that a place for the safety copy looked up.
PauseEnvironment ==
  /\ pc = "pause"
  /\ \/ SetPaused(cur) /\ safetyThere /\ GoTo("job", st)
     \/ SetPaused(cur) /\ ~safetyThere /\ GoTo("fail", Fail(st, "NoSafetyDestination"))
     \/ PauseRefused(cur) /\ GoTo("fail", Fail(st, "CannotStop"))
  /\ UNCHANGED <<objects, jobs, backups>>

\* ensureRestoreJob: the Job is read from the cache and created when it is not
\* there; that it exists after all is no error.
EnsureRestoreJob ==
  /\ pc = "job"
  /\ \/ /\ jobView[cur] = "none"
        /\ \/ /\ job[cur] = "none"
              /\ job' = [job EXCEPT ![cur] = "running"]
              /\ created' = [created EXCEPT ![cur] = IF @ < 2 THEN @ + 1 ELSE @]
           \/ /\ job[cur] # "none"
              /\ UNCHANGED <<job, created>>
        /\ GoTo("wait", st)
     \/ /\ jobView[cur] = "running"
        /\ GoTo("wait", st)
        /\ UNCHANGED <<job, created>>
     \/ /\ jobView[cur] = "succeeded"
        /\ GoTo("resume", st)
        /\ UNCHANGED <<job, created>>
     \/ /\ jobView[cur] = "failed"
        /\ GoTo("giveUp", st)
        /\ UNCHANGED <<job, created>>
  /\ UNCHANGED <<objects, jobView, env, backups>>

\* The Job succeeded: the environment is started and the restore is over.
Resume ==
  /\ pc = "resume"
  /\ \/ /\ SetPaused(None)
        /\ GoTo("done", [st EXCEPT !.phase = "Succeeded", !.reason = "Restored"])
     \/ /\ PauseRefused(None)
        /\ GoTo("fail", Fail(st, "CannotStart"))
  /\ UNCHANGED <<objects, jobs, backups>>

\* The Job failed: the environment is started, if that works, and the restore is over.
GiveUp ==
  /\ pc = "giveUp"
  /\ SetPaused(None) \/ PauseRefused(None)
  /\ GoTo("fail", Fail(st, "Failed"))
  /\ UNCHANGED <<objects, jobs, backups>>

\* A pass that waits asks to be called again in fifteen seconds.
CallAgain == timers' = IF pc = "wait" THEN timers \cup {cur} ELSE timers

\* The status is stored.
StoreStatus ==
  /\ fresh
  /\ status' = [status EXCEPT ![cur] = st]
  /\ current' = current \ {cur}
  /\ CallAgain
  /\ UNCHANGED <<statusView, queued>>

\* The write is refused, and the error puts the restore back in the queue.
StoreRefused ==
  /\ ~fresh
  /\ queued' = queued \cup {cur}
  /\ UNCHANGED <<objects, timers>>

\* A slip: the write is a patch that ignores what was read.
CommitRestoreOverAnything ==
  /\ pc \in {"wait", "done", "fail"}
  /\ status' = [status EXCEPT ![cur] = st]
  /\ current' = current \ {cur}
  /\ CallAgain
  /\ Forget
  /\ UNCHANGED <<statusView, queued, jobs, env, backups>>

\* commitRestore: a pass that waits writes nothing new.  A failure has a new finishedAt
\* every time, but one of the same second as the last is no change to the API server.
CommitRestore ==
  /\ pc \in {"wait", "done", "fail"}
  /\ LET same == st = read IN
     \/ ~(same /\ pc = "wait") /\ (StoreStatus \/ StoreRefused)
     \/ same /\ (pc = "wait" \/ fresh) /\ CallAgain /\ UNCHANGED <<objects, queued>>
  /\ Forget
  /\ UNCHANGED <<jobs, env, backups>>

\* A call to the API server fails.  Most failures are recorded as the reason of the
\* restore's own; that of the last write is an error, which puts it back in the queue.
CallFails ==
  /\ mishaps < MaxMishaps
  /\ mishaps' = mishaps + 1
  /\ \/ /\ pc = "pause"
        /\ \/ GoTo("fail", Fail(st, "CannotStop")) /\ UNCHANGED env
           \/ SetPaused(cur) /\ GoTo("fail", Fail(st, "NoSafetyDestination"))
        /\ UNCHANGED objects
     \/ /\ pc \in {"job", "resume"}
        /\ GoTo("fail", Fail(st, "CannotStart"))
        /\ UNCHANGED <<objects, env>>
     \/ /\ pc = "giveUp"
        /\ GoTo("fail", Fail(st, "Failed"))
        /\ UNCHANGED <<objects, env>>
     \/ /\ pc \in {"wait", "done", "fail"}
        /\ queued' = queued \cup {cur}
        /\ Forget
        /\ UNCHANGED <<objects, timers, env>>
  /\ UNCHANGED <<jobs, copyThere, safetyThere>>

Worker ==
  \/ \E r \in Restores : Begin(r)
  \/ PauseEnvironment \/ EnsureRestoreJob \/ Resume \/ GiveUp \/ CommitRestore

------------------------------------------------------------------------------
(* The cluster, and everybody else.                                        *)

\* A restore's event reaches the cache and wakes the controller.
DeliverRestore(r) ==
  /\ r \notin current
  /\ statusView' = [statusView EXCEPT ![r] = status[r]]
  /\ current' = current \cup {r}
  /\ queued' = queued \cup {r}
  /\ UNCHANGED <<status, timers, pass, jobs, env, backups>>

\* A Job's event reaches the cache and wakes its restore.
DeliverJob(r) ==
  /\ jobView[r] # job[r]
  /\ jobView' = [jobView EXCEPT ![r] = job[r]]
  /\ queued' = queued \cup {r}
  /\ UNCHANGED <<objects, timers, pass, job, created, env, backups>>

\* The environment's event reaches the cache.  It wakes no restore.
DeliverEnvironment ==
  /\ ~envCurrent
  /\ pausedView' = paused
  /\ envCurrent' = TRUE
  /\ UNCHANGED <<objects, queue, pass, jobs, paused, odoo, backups>>

\* A restore Job ends.  It takes longer than the cache is late.
EndJob(r) ==
  /\ job[r] = "running"
  /\ pausedView = paused
  /\ \/ job' = [job EXCEPT ![r] = "succeeded"]
     \/ JobsMayFail /\ job' = [job EXCEPT ![r] = "failed"]
  /\ UNCHANGED <<objects, queue, pass, jobView, created, env, backups>>

TimerFires(r) ==
  /\ r \in timers
  /\ timers' = timers \ {r}
  /\ queued' = queued \cup {r}
  /\ UNCHANGED <<objects, pass, jobs, env, backups>>

\* The informers' resync repeats every restore they know.
Resync(r) ==
  /\ queued' = queued \cup {r}
  /\ UNCHANGED <<objects, timers, pass, jobs, env, backups>>

\* The manager dies and another one starts.
Crash ==
  /\ statusView' = status
  /\ current' = Restores
  /\ queued' = Restores
  /\ timers' = {}
  /\ jobView' = job
  /\ pausedView' = paused
  /\ envCurrent' = TRUE
  /\ Forget
  /\ UNCHANGED <<status, job, created, paused, odoo, backups>>

\* The environment controller makes a pass (Environment!ApplyWorkload) and its
\* Deployment rolls out.  A status write does not wake it, so it may be long.
EnvironmentFollows ==
  /\ odoo # (pausedView = None)
  /\ odoo' = (pausedView = None)
  /\ UNCHANGED <<objects, queue, pass, jobs, paused, pausedView, envCurrent, backups>>

\* The environment controller writes its status, pausedBy as it is
\* (Environment!PauseSurvivesPasses).
EnvironmentWrites ==
  /\ envCurrent' = FALSE
  /\ UNCHANGED <<objects, queue, pass, jobs, paused, pausedView, odoo, backups>>

\* A finished Job is removed by somebody.
RemoveJob(r) ==
  /\ JobsMayGo
  /\ job[r] \in {"succeeded", "failed"}
  /\ job' = [job EXCEPT ![r] = "none"]
  /\ UNCHANGED <<objects, queue, pass, jobView, created, env, backups>>

\* A copy appears in the backup's status or is pruned; a backup comes or goes.
BackupsChange ==
  /\ mishaps < MaxMishaps
  /\ mishaps' = mishaps + 1
  /\ \/ copyThere' = ~copyThere /\ UNCHANGED safetyThere
     \/ safetyThere' = ~safetyThere /\ UNCHANGED copyThere
  /\ UNCHANGED <<objects, queue, pass, jobs, env>>

\* What goes on by itself.
Cluster ==
  \/ DeliverEnvironment \/ EnvironmentFollows
  \/ \E r \in Restores :
       DeliverRestore(r) \/ DeliverJob(r) \/ EndJob(r) \/ TimerFires(r) \/ Resync(r)

Next ==
  \/ Worker \/ Cluster
  \/ CallFails \/ Crash \/ EnvironmentWrites \/ BackupsChange
  \/ \E r \in Restores : RemoveJob(r)

Spec == Init /\ [][Next]_vars

\* The worker runs, caches catch up, timers fire, Jobs end, and the resync comes round.
Fairness ==
  /\ WF_vars(Worker) /\ WF_vars(DeliverEnvironment)
  /\ \A r \in Restores :
       /\ WF_vars(DeliverRestore(r)) /\ WF_vars(DeliverJob(r))
       /\ WF_vars(TimerFires(r)) /\ WF_vars(EndJob(r)) /\ WF_vars(Resync(r))

FairSpec == Spec /\ Fairness

------------------------------------------------------------------------------
(* What must hold.                                                         *)

TypeOK ==
  /\ status \in [Restores -> Statuses]
  /\ statusView \in [Restores -> Statuses]
  /\ current \subseteq Restores /\ queued \subseteq Restores /\ timers \subseteq Restores
  /\ pc \in {"idle", "pause", "job", "resume", "giveUp", "wait", "done", "fail"}
  /\ cur \in Restores \cup {None}
  /\ read \in Statuses /\ st \in Statuses
  /\ fresh \in BOOLEAN
  /\ job \in [Restores -> JobStates] /\ jobView \in [Restores -> JobStates]
  /\ created \in [Restores -> 0..2]
  /\ paused \in Restores \cup {None} /\ pausedView \in Restores \cup {None}
  /\ envCurrent \in BOOLEAN /\ odoo \in BOOLEAN
  /\ copyThere \in BOOLEAN /\ safetyThere \in BOOLEAN
  /\ mishaps \in 0..MaxMishaps

\* "Two restores into one environment is a thing to refuse rather than to
\* interleave": a Job replaces the database only while its own restore has the
\* environment stopped, so no two ever do.
ReplacedOnlyWhilePaused == \A r \in Restores : job[r] = "running" => paused = r

\* "Never over a pause somebody ELSE set": a pause ends by the restore that set it.
OnlyTheOwnerResumes == [][paused # None /\ paused' # paused => cur = paused /\ paused' = None]_vars

\* "Terminal, and it stays terminal."
TerminalIsFinal ==
  [][\A r \in Restores : Terminal(status[r]) => status'[r] = status[r]]_vars

\* The caches have what a pass about restore r reads.
UpToDate(r) == r \in current /\ envCurrent /\ jobView[r] = job[r]

\* From some moment on the manager stays up, its calls go through, nobody else writes
\* anything, and the caches have caught up when a pass begins.
Settles ==
  <>[][/\ Worker \/ Cluster
       /\ cur = None /\ cur' # None => UpToDate(cur')]_vars

\* A restore whose Job has ended is over in the end, whatever was refused on the way,
\* unless what it needs has gone meanwhile.  It takes the resync: a second failure
\* within a second writes nothing, and then nothing else wakes the restore.
JobEndIsSeen ==
  Settles => \A r \in Restores :
    (job[r] \in {"succeeded", "failed"}) ~>
      (status[r].reason \in {"Restored", "Failed"} \/ ~copyThere \/ ~safetyThere \/ paused \notin {r, None})

\* "It runs at most once", whatever becomes of its Job: "a restore that reran because its
\* Job was garbage collected would replace a database somebody had since been working in".
RunsAtMostOnce == \A r \in Restores : created[r] < 2

\* "It also SCALES THE ENVIRONMENT DOWN first": the database is not replaced under a
\* running Odoo.
NotUnderARunningOdoo == \A r \in Restores : job[r] = "running" => ~odoo

==============================================================================
