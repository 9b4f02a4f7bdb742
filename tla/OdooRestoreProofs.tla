--------------------------- MODULE OdooRestoreProofs ---------------------------
(***************************************************************************)
(* Proofs about OdooRestore, for every set of restores, however calls fail *)
(* and backups change.  That a Job runs only under its own pause is not    *)
(* inductive: a pass takes the pause from a cache in which it may have     *)
(* ended since.  What saves it is that a pause ends only after its Job     *)
(* has, so that an old pause in the cache belongs to a restore whose Job   *)
(* is there and finished, and is not created again, as long as nobody      *)
(* removes it.                                                             *)
(***************************************************************************)
EXTENDS OdooRestore, TLAPS

Ended(r) == job[r] \in {"succeeded", "failed"}

\* A pass is about a restore.
TypeInv == TypeOK /\ (pc # "idle" => cur \in Restores)

\* The cache has what is stored when it has the latest version; the restore a pass is
\* about was not over when it was read, and what was read is stored if it is fresh.
ReadsAreBehind ==
  /\ envCurrent => pausedView = paused
  /\ \A r \in current : statusView[r] = status[r]
  /\ pc # "idle" => ~Terminal(read) /\ (fresh => read = status[cur])

\* A Job in the cache exists, and has ended when it has ended there.
JobsAreBehind ==
  \A r \in Restores :
    /\ jobView[r] # "none" => job[r] # "none"
    /\ jobView[r] \in {"succeeded", "failed"} => Ended(r)

\* A pause that the cache still shows, or that a pass went by, is in force unless the
\* Job it was for has ended; and it is given up only after that.
PausesEndWithJobs ==
  /\ \A r \in Restores : pausedView = r /\ paused # r => Ended(r)
  /\ pc = "job" => paused = cur \/ Ended(cur)
  /\ pc \in {"resume", "giveUp"} => Ended(cur)

PauseInv == JobsAreBehind /\ PausesEndWithJobs /\ ReplacedOnlyWhilePaused

------------------------------------------------------------------------------
(* Types.                                                                  *)

LEMMA StatusUpdates ==
  ASSUME NEW s \in Statuses
  PROVE  /\ [s EXCEPT !.started = TRUE, !.phase = "Restoring"] \in Statuses
         /\ [s EXCEPT !.phase = "Succeeded", !.reason = "Restored"] \in Statuses
         /\ \A x \in Reasons : Fail(s, x) \in Statuses
BY DEF Statuses, Reasons, Fail

LEMMA NewType == New \in Statuses
BY DEF New, Statuses, Reasons

LEMMA InitType == Init => TypeInv
<1> SUFFICES ASSUME Init PROVE TypeInv
  OBVIOUS
<1>1. status \in [Restores -> Statuses] /\ statusView \in [Restores -> Statuses]
  BY NewType, Zenon DEF Init
<1>2. job \in [Restores -> JobStates] /\ jobView \in [Restores -> JobStates]
  BY DEF Init, JobStates
<1>3. created \in [Restores -> 0..2] /\ mishaps \in 0..MaxMishaps
  BY RestoreAssumption DEF Init, RestoreAssumption
<1>4. QED
  BY <1>1, <1>2, <1>3, NewType DEF Init, TypeOK, TypeInv

LEMMA NextType == TypeInv /\ [Next]_vars => TypeInv'
<1> SUFFICES ASSUME TypeInv, [Next]_vars PROVE TypeInv'
  OBVIOUS
<1> USE DEF TypeInv, objects, queue, pass, jobs, env, backups
<1>0. \A r \in Restores : statusView[r] \in Statuses /\ status[r] \in Statuses
  BY DEF TypeOK
<1>1. ASSUME NEW r \in Restores, Begin(r) PROVE TypeInv'
  <2>1. "NoSuchCopy" \in Reasons
    BY DEF Reasons
  <2>2. CASE UNCHANGED pass
    BY <1>1, <2>2 DEF Begin, TypeOK
  <2>3. CASE cur' = r /\ read' = statusView[r]
             /\ st' \in {statusView[r], [statusView[r] EXCEPT !.started = TRUE, !.phase = "Restoring"],
                        Fail(statusView[r], "NoSuchCopy")}
    <3>1. read' \in Statuses /\ st' \in Statuses
      BY <1>0, <2>1, <2>3, StatusUpdates
    <3>2. (fresh' = fresh \/ fresh' = (r \in current)) /\ pc' \in {pc, "pause", "fail"}
      BY <1>1, Zenon DEF Begin
    <3>3. queued' \subseteq Restores /\ UNCHANGED <<objects, timers, jobs, env, backups>>
      BY <1>1, Zenon DEF Begin, TypeOK
    <3>4. fresh' \in BOOLEAN
      <4>1. CASE fresh' = fresh
        BY <4>1, Zenon DEF TypeOK
      <4>2. CASE fresh' = (r \in current)
        BY <4>2, SMT
      <4>3. QED
        BY <3>2, <4>1, <4>2, Zenon
    <3>5. cur' \in Restores /\ pc' \in {"idle", "pause", "job", "resume", "giveUp", "wait", "done", "fail"}
      BY <2>3, <3>2 DEF TypeOK
    <3>6. QED
      BY <3>1, <3>3, <3>4, <3>5, Zenon DEF TypeOK
  <2>4. QED
    BY <1>1, <2>2, <2>3, Zenon DEF Begin
<1>2. CASE PauseEnvironment
  <2>1. "CannotStop" \in Reasons /\ "NoSafetyDestination" \in Reasons
    BY DEF Reasons
  <2>2. st' \in Statuses /\ pc' \in {"job", "fail"} /\ UNCHANGED <<queue, cur, read, fresh>>
    BY <1>2, <2>1, StatusUpdates DEF PauseEnvironment, GoTo, TypeOK
  <2>3. paused' \in {paused, cur} /\ pausedView' = pausedView /\ odoo' = odoo /\ envCurrent' \in BOOLEAN
    BY <1>2 DEF PauseEnvironment, SetPaused, PauseRefused, TypeOK
  <2>4. QED
    BY <1>2, <2>2, <2>3 DEF PauseEnvironment, TypeOK
<1>3. CASE EnsureRestoreJob
  <2>1. job' \in [Restores -> JobStates]
    BY <1>3 DEF EnsureRestoreJob, TypeOK, JobStates
  <2>2. created' \in [Restores -> 0..2]
    BY <1>3 DEF EnsureRestoreJob, TypeOK
  <2>3. QED
    BY <1>3, <2>1, <2>2 DEF EnsureRestoreJob, GoTo, TypeOK
<1>4. CASE Resume
  <2>1. "CannotStart" \in Reasons
    BY DEF Reasons
  <2>2. st' \in Statuses /\ pc' \in {"done", "fail"} /\ UNCHANGED <<queue, cur, read, fresh>>
    BY <1>4, <2>1, StatusUpdates DEF Resume, GoTo, TypeOK
  <2>3. paused' \in {paused, None} /\ pausedView' = pausedView /\ odoo' = odoo /\ envCurrent' \in BOOLEAN
    BY <1>4 DEF Resume, SetPaused, PauseRefused, TypeOK
  <2>4. QED
    BY <1>4, <2>2, <2>3 DEF Resume, TypeOK
<1>5. CASE GiveUp
  <2>1. "Failed" \in Reasons
    BY DEF Reasons
  <2>2. st' \in Statuses /\ pc' = "fail" /\ UNCHANGED <<queue, cur, read, fresh>>
    BY <1>5, <2>1, StatusUpdates DEF GiveUp, GoTo, TypeOK
  <2>3. paused' \in {paused, None} /\ pausedView' = pausedView /\ odoo' = odoo /\ envCurrent' \in BOOLEAN
    BY <1>5 DEF GiveUp, SetPaused, PauseRefused, TypeOK
  <2>4. QED
    BY <1>5, <2>2, <2>3 DEF GiveUp, TypeOK
<1>6. CASE CommitRestore
  <2>1. status' \in [Restores -> Statuses]
    BY <1>6 DEF CommitRestore, StoreStatus, StoreRefused, TypeOK
  <2>2. current' \subseteq Restores /\ queued' \subseteq Restores /\ timers' \subseteq Restores
    BY <1>6 DEF CommitRestore, StoreStatus, StoreRefused, CallAgain, TypeOK
  <2>3. statusView' = statusView
    BY <1>6 DEF CommitRestore, StoreStatus, StoreRefused
  <2>4. QED
    BY <1>6, <2>1, <2>2, <2>3, NewType DEF CommitRestore, Forget, TypeOK
<1>7. CASE CallFails
  <2>1. /\ "CannotStop" \in Reasons /\ "NoSafetyDestination" \in Reasons
        /\ "CannotStart" \in Reasons /\ "Failed" \in Reasons
    BY DEF Reasons
  <2>2. mishaps' \in 0..MaxMishaps
    BY <1>7, RestoreAssumption DEF CallFails, TypeOK, RestoreAssumption
  <2>3. paused' \in {paused, cur} /\ pausedView' = pausedView /\ odoo' = odoo /\ envCurrent' \in BOOLEAN
    BY <1>7 DEF CallFails, SetPaused, TypeOK
  <2>4. CASE pc' = "fail" /\ UNCHANGED <<queue, cur, read, fresh>>
    <3>1. st' \in Statuses
      BY <1>7, <2>1, <2>4, StatusUpdates DEF CallFails, GoTo, Forget, TypeOK
    <3>2. QED
      BY <1>7, <2>2, <2>3, <2>4, <3>1 DEF CallFails, TypeOK
  <2>5. CASE pc \in {"wait", "done", "fail"} /\ queued' = queued \cup {cur} /\ Forget
              /\ UNCHANGED <<objects, timers, env>>
    BY <1>7, <2>2, <2>5, NewType DEF CallFails, Forget, TypeOK
  <2>6. QED
    BY <1>7, <2>4, <2>5 DEF CallFails, GoTo
<1>8. ASSUME NEW r \in Restores, DeliverRestore(r) PROVE TypeInv'
  BY <1>0, <1>8 DEF DeliverRestore, TypeOK
<1>9. ASSUME NEW r \in Restores, DeliverJob(r) PROVE TypeInv'
  BY <1>9 DEF DeliverJob, TypeOK
<1>10. ASSUME NEW r \in Restores, EndJob(r) PROVE TypeInv'
  <2>1. job' \in [Restores -> JobStates]
    BY <1>10 DEF EndJob, TypeOK, JobStates
  <2>2. QED
    BY <1>10, <2>1 DEF EndJob, TypeOK
<1>11. ASSUME NEW r \in Restores, RemoveJob(r) PROVE TypeInv'
  <2>1. job' \in [Restores -> JobStates]
    BY <1>11 DEF RemoveJob, TypeOK, JobStates
  <2>2. QED
    BY <1>11, <2>1 DEF RemoveJob, TypeOK
<1>12. ASSUME NEW r \in Restores, TimerFires(r) \/ Resync(r) PROVE TypeInv'
  BY <1>12 DEF TimerFires, Resync, TypeOK
<1>13. CASE DeliverEnvironment \/ EnvironmentFollows \/ EnvironmentWrites
  BY <1>13 DEF DeliverEnvironment, EnvironmentFollows, EnvironmentWrites, TypeOK
<1>14. CASE Crash
  BY <1>14, NewType DEF Crash, Forget, TypeOK
<1>15. CASE BackupsChange
  <2>1. mishaps' \in 0..MaxMishaps
    BY <1>15, RestoreAssumption DEF BackupsChange, TypeOK, RestoreAssumption
  <2>2. QED
    BY <1>15, <2>1 DEF BackupsChange, TypeOK
<1>16. CASE UNCHANGED vars
  BY <1>16 DEF vars, TypeOK
<1>17. QED
  BY <1>1, <1>2, <1>3, <1>4, <1>5, <1>6, <1>7, <1>8, <1>9, <1>10, <1>11, <1>12, <1>13,
     <1>14, <1>15, <1>16, Zenon DEF Next, Worker, Cluster
------------------------------------------------------------------------------
(* What is read is at most behind.                                         *)

LEMMA InitReads == Init => ReadsAreBehind
BY DEF Init, ReadsAreBehind

LEMMA NextReads == TypeInv /\ ReadsAreBehind /\ [Next]_vars => ReadsAreBehind'
<1> SUFFICES ASSUME TypeInv, ReadsAreBehind, [Next]_vars PROVE ReadsAreBehind'
  OBVIOUS
<1> USE DEF TypeInv, TypeOK, ReadsAreBehind, objects, queue, pass, jobs, env, backups, GoTo, Forget
<1>1. ASSUME NEW r \in Restores, Begin(r) PROVE ReadsAreBehind'
  <2>1. UNCHANGED <<objects, env>>
    BY <1>1 DEF Begin
  <2>2. CASE UNCHANGED pass
    BY <2>1, <2>2
  <2>3. CASE cur' = r /\ read' = statusView[r] /\ fresh' = (r \in current) /\ ~Terminal(statusView[r])
    BY <2>1, <2>3
  <2>4. QED
    BY <1>1, <2>2, <2>3, Zenon DEF Begin
<1>2. CASE PauseEnvironment
  BY <1>2 DEF PauseEnvironment, SetPaused, PauseRefused
<1>3. CASE EnsureRestoreJob
  BY <1>3 DEF EnsureRestoreJob
<1>4. CASE Resume \/ GiveUp
  BY <1>4 DEF Resume, GiveUp, SetPaused, PauseRefused
<1>5. CASE CommitRestore
  BY <1>5 DEF CommitRestore, StoreStatus, StoreRefused
<1>6. CASE CallFails
  BY <1>6 DEF CallFails, SetPaused
<1>7. ASSUME NEW r \in Restores, DeliverRestore(r) PROVE ReadsAreBehind'
  BY <1>7 DEF DeliverRestore
<1>8. ASSUME NEW r \in Restores, DeliverJob(r) \/ EndJob(r) \/ RemoveJob(r) PROVE ReadsAreBehind'
  BY <1>8 DEF DeliverJob, EndJob, RemoveJob
<1>9. ASSUME NEW r \in Restores, TimerFires(r) \/ Resync(r) PROVE ReadsAreBehind'
  BY <1>9 DEF TimerFires, Resync
<1>10. CASE DeliverEnvironment \/ EnvironmentFollows \/ EnvironmentWrites
  BY <1>10 DEF DeliverEnvironment, EnvironmentFollows, EnvironmentWrites
<1>11. CASE Crash
  BY <1>11 DEF Crash
<1>12. CASE BackupsChange
  BY <1>12 DEF BackupsChange
<1>13. CASE UNCHANGED vars
  BY <1>13 DEF vars
<1>14. QED
  BY <1>1, <1>2, <1>3, <1>4, <1>5, <1>6, <1>7, <1>8, <1>9, <1>10, <1>11, <1>12, <1>13, Zenon
     DEF Next, Worker, Cluster

LEMMA ReadsStayBehind == Spec => [](TypeInv /\ ReadsAreBehind)
<1>1. Init => TypeInv /\ ReadsAreBehind
  BY InitType, InitReads
<1>2. TypeInv /\ ReadsAreBehind /\ [Next]_vars => (TypeInv /\ ReadsAreBehind)'
  BY NextType, NextReads
<1>3. QED
  BY <1>1, <1>2, PTL DEF Spec

------------------------------------------------------------------------------
(* What follows whatever becomes of the Jobs.                              *)

\* Every variable stays in its type, and a status in what the API declares.
THEOREM TypeCorrect == Spec => []TypeOK
<1>1. TypeInv => TypeOK
  BY DEF TypeInv
<1>2. QED
  BY ReadsStayBehind, <1>1, PTL

\* Only the worker writes the pause.
LEMMA WhoPauses ==
  ASSUME [Next]_vars, paused' # paused
  PROVE  \E want \in {cur, None} : SetPaused(want)
<1> USE DEF env
<1>1. CASE Worker \/ CallFails
  <2>1. CASE PauseEnvironment \/ CallFails
    BY <2>1 DEF PauseEnvironment, CallFails, PauseRefused
  <2>2. CASE Resume \/ GiveUp
    BY <2>2 DEF Resume, GiveUp, PauseRefused
  <2>3. CASE EnsureRestoreJob \/ CommitRestore \/ \E r \in Restores : Begin(r)
    BY <2>3 DEF EnsureRestoreJob, CommitRestore, Begin
  <2>4. QED
    BY <1>1, <2>1, <2>2, <2>3 DEF Worker
<1>2. CASE Cluster
  BY <1>2 DEF Cluster, DeliverEnvironment, EnvironmentFollows, DeliverRestore, DeliverJob, EndJob,
    TimerFires, Resync
<1>3. CASE Crash \/ EnvironmentWrites \/ BackupsChange \/ \E r \in Restores : RemoveJob(r)
  BY <1>3 DEF Crash, EnvironmentWrites, BackupsChange, RemoveJob
<1>4. CASE UNCHANGED vars
  BY <1>4 DEF vars
<1>5. QED
  BY <1>1, <1>2, <1>3, <1>4 DEF Next

\* A pause is ended only by the restore that set it, and nobody takes it over: the code
\* reads whose it is from a cache, and the version does the rest.
THEOREM PauseIsTheOwners == Spec => OnlyTheOwnerResumes
<1>1. ASSUME ReadsAreBehind, [Next]_vars, paused # None, paused' # paused
      PROVE  cur = paused /\ paused' = None
  <2>1. PICK want \in {cur, None} : SetPaused(want)
    BY <1>1, WhoPauses
  <2>2. QED
    BY <1>1, <2>1 DEF SetPaused, ReadsAreBehind, env
<1>2. ReadsAreBehind /\ [Next]_vars =>
        [paused # None /\ paused' # paused => cur = paused /\ paused' = None]_vars
  BY <1>1
<1>3. QED
  BY ReadsStayBehind, <1>2, PTL DEF Spec, OnlyTheOwnerResumes

\* The record of a restore that is over does not change: a pass that read it earlier
\* has its write refused.
THEOREM RecordIsFinal == Spec => TerminalIsFinal
<1>1. ASSUME TypeInv, ReadsAreBehind, [Next]_vars, NEW r \in Restores, Terminal(status[r])
      PROVE  status'[r] = status[r]
  <2> USE DEF objects
  <2>1. CASE CommitRestore
    BY <1>1, <2>1 DEF CommitRestore, StoreStatus, StoreRefused, ReadsAreBehind, TypeInv, TypeOK
  <2>2. CASE UNCHANGED status
    BY <2>2
  <2>3. CASE Worker \/ CallFails
    BY <2>1, <2>2, <2>3
       DEF Worker, Begin, PauseEnvironment, EnsureRestoreJob, Resume, GiveUp, CallFails
  <2>4. CASE Cluster
    BY <2>2, <2>4
       DEF Cluster, DeliverEnvironment, EnvironmentFollows, DeliverRestore, DeliverJob, EndJob,
           TimerFires, Resync
  <2>5. CASE Crash \/ EnvironmentWrites \/ BackupsChange \/ \E q \in Restores : RemoveJob(q)
    BY <2>2, <2>5 DEF Crash, EnvironmentWrites, BackupsChange, RemoveJob
  <2>6. QED
    BY <1>1, <2>2, <2>3, <2>4, <2>5 DEF Next, vars
<1>2. TypeInv /\ ReadsAreBehind /\ [Next]_vars =>
        [\A r \in Restores : Terminal(status[r]) => status'[r] = status[r]]_vars
  BY <1>1
<1>3. QED
  BY ReadsStayBehind, <1>2, PTL DEF Spec, TerminalIsFinal

------------------------------------------------------------------------------
(* What follows while nobody removes Jobs.                                 *)

LEMMA InitPause == Init => PauseInv
BY DEF Init, PauseInv, JobsAreBehind, PausesEndWithJobs, ReplacedOnlyWhilePaused

\* Taking the pause: nobody else has it.
LEMMA Taking ==
  ASSUME TypeInv, ReadsAreBehind, PauseInv, cur \in Restores, SetPaused(cur)
  PROVE  /\ paused' = cur \/ Ended(cur)
         /\ \A r \in Restores : job[r] = "running" => paused' = r
         /\ \A r \in Restores : pausedView' = r /\ paused' # r => Ended(r)
<1> USE RestoreAssumption DEF RestoreAssumption, TypeInv, TypeOK, ReadsAreBehind, PauseInv,
    PausesEndWithJobs, ReplacedOnlyWhilePaused, SetPaused, env
<1>1. CASE pausedView = cur /\ UNCHANGED env
  BY <1>1
<1>2. CASE pausedView = None /\ envCurrent /\ paused' = cur /\ pausedView' = pausedView
  BY <1>2
<1>3. QED
  BY <1>1, <1>2

\* Ending it: the Job it was for has ended.
LEMMA Ending ==
  ASSUME TypeInv, ReadsAreBehind, PauseInv, cur \in Restores, Ended(cur), SetPaused(None)
  PROVE  /\ \A r \in Restores : job[r] = "running" => paused' = r
         /\ \A r \in Restores : pausedView' = r /\ paused' # r => Ended(r)
<1> USE RestoreAssumption DEF RestoreAssumption, TypeInv, TypeOK, ReadsAreBehind, PauseInv,
    PausesEndWithJobs, ReplacedOnlyWhilePaused, SetPaused, Ended, env
<1>1. CASE pausedView = None /\ UNCHANGED env
  BY <1>1
<1>2. CASE pausedView = cur /\ envCurrent /\ paused' = None /\ pausedView' = pausedView
  BY <1>2
<1>3. QED
  BY <1>1, <1>2

LEMMA NextPause ==
  ASSUME ~JobsMayGo, TypeInv, ReadsAreBehind, PauseInv, [Next]_vars
  PROVE  PauseInv'
<1> USE DEF TypeInv, TypeOK, objects, queue, pass, jobs, env, backups, GoTo, Forget,
    PauseInv, JobsAreBehind, PausesEndWithJobs, ReplacedOnlyWhilePaused, Ended
<1>1. ASSUME NEW r \in Restores, Begin(r) PROVE PauseInv'
  <2>1. UNCHANGED <<jobs, env>> /\ (UNCHANGED pass \/ pc' \in {"pause", "fail"})
    BY <1>1, Zenon DEF Begin
  <2>2. QED
    BY <2>1
<1>2. CASE PauseEnvironment
  <2>1. cur \in Restores /\ cur' = cur /\ UNCHANGED jobs /\ pc' \in {"job", "fail"}
    BY <1>2 DEF PauseEnvironment
  <2>2. CASE SetPaused(cur)
    BY <2>1, <2>2, Taking
  <2>3. CASE UNCHANGED env /\ pc' = "fail"
    BY <2>1, <2>3
  <2>4. QED
    BY <1>2, <2>2, <2>3 DEF PauseEnvironment, PauseRefused
<1>3. CASE EnsureRestoreJob
  BY <1>3 DEF EnsureRestoreJob
<1>4. CASE Resume \/ GiveUp
  <2>1. cur \in Restores /\ cur' = cur /\ UNCHANGED jobs /\ pc' \in {"done", "fail"} /\ Ended(cur)
    BY <1>4 DEF Resume, GiveUp
  <2>2. CASE SetPaused(None)
    BY <2>1, <2>2, Ending
  <2>3. CASE UNCHANGED env
    BY <2>1, <2>3
  <2>4. QED
    BY <1>4, <2>2, <2>3 DEF Resume, GiveUp, PauseRefused
<1>5. CASE CommitRestore
  BY <1>5 DEF CommitRestore
<1>6. CASE CallFails
  <2>1. UNCHANGED jobs /\ pc' \in {"idle", "fail"}
    BY <1>6 DEF CallFails
  <2>2. CASE cur \in Restores /\ SetPaused(cur)
    BY <2>1, <2>2, Taking
  <2>3. CASE UNCHANGED env
    BY <2>1, <2>3
  <2>4. QED
    BY <1>6, <2>2, <2>3 DEF CallFails
<1>7. ASSUME NEW r \in Restores, DeliverRestore(r) \/ TimerFires(r) \/ Resync(r) PROVE PauseInv'
  BY <1>7 DEF DeliverRestore, TimerFires, Resync
<1>8. ASSUME NEW r \in Restores, DeliverJob(r) PROVE PauseInv'
  BY <1>8 DEF DeliverJob
<1>9. ASSUME NEW r \in Restores, EndJob(r) PROVE PauseInv'
  <2>1. \A q \in Restores : job'[q] = job[q] \/ (job[q] = "running" /\ Ended(q)')
    BY <1>9 DEF EndJob
  <2>2. UNCHANGED <<pass, jobView, env>>
    BY <1>9 DEF EndJob
  <2>3. QED
    BY <2>1, <2>2
<1>10. CASE DeliverEnvironment \/ EnvironmentFollows \/ EnvironmentWrites
  BY <1>10 DEF DeliverEnvironment, EnvironmentFollows, EnvironmentWrites
<1>11. CASE Crash
  BY <1>11 DEF Crash
<1>12. CASE BackupsChange
  BY <1>12 DEF BackupsChange
<1>13. CASE UNCHANGED vars
  BY <1>13 DEF vars
<1>14. QED
  BY <1>1, <1>2, <1>3, <1>4, <1>5, <1>6, <1>7, <1>8, <1>9, <1>10, <1>11, <1>12, <1>13, Zenon
     DEF Next, Worker, Cluster, RemoveJob

\* "Two restores into one environment is a thing to refuse rather than to interleave":
\* a Job replaces the database only under its own restore's pause, if Jobs are not
\* removed.  When they are, a pass that sees an old pause can create one again.
THEOREM OneRestoreAtATime ==
  ASSUME ~JobsMayGo
  PROVE  Spec => []ReplacedOnlyWhilePaused
<1>1. Init => TypeInv /\ ReadsAreBehind /\ PauseInv
  BY InitType, InitReads, InitPause
<1>2. TypeInv /\ ReadsAreBehind /\ PauseInv /\ [Next]_vars
        => (TypeInv /\ ReadsAreBehind /\ PauseInv)'
  BY NextType, NextReads, NextPause
<1>3. PauseInv => ReplacedOnlyWhilePaused
  BY DEF PauseInv
<1>4. QED
  BY <1>1, <1>2, <1>3, PTL DEF Spec

==============================================================================
