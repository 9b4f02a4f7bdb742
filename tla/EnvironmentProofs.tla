-------------------------- MODULE EnvironmentProofs --------------------------
(***************************************************************************)
(* Proofs about Environment, for every kind of data, every set of restores *)
(* and every bound.  ServedOnlyHardened and PhaseRunsOnItsInput are not    *)
(* inductive: that a Job or a workload may exist follows from conditions   *)
(* in a status that was read from a cache some time ago, written over a    *)
(* version that may have been replaced, or computed from a Job the cache   *)
(* shows in a state it is no longer in.  IInv says how all those copies    *)
(* relate to what is stored.                                               *)
(***************************************************************************)
EXTENDS Environment, TLAPS

\* How the copies of the object relate: the cache and the pass are at most
\* behind, and the status to be written extends the one that was read.
CopiesAreBehind ==
  /\ view.done \subseteq obj.done
  /\ snap.done \subseteq obj.done
  /\ snap.done \subseteq st.done
  /\ current => view = obj
  /\ pc # "idle" /\ fresh => snap = obj
  /\ pc = "idle" => st.done = {}

\* Every copy has the phases done in the order of the pipeline.
DoneInOrder ==
  \A s \in Steps :
    /\ s \in obj.done  => Prior(s) \subseteq obj.done
    /\ s \in view.done => Prior(s) \subseteq view.done
    /\ s \in snap.done => Prior(s) \subseteq snap.done
    /\ s \in st.done   => Prior(s) \subseteq st.done

\* What a Job, or the absence of one, says about the status.
JobsMatchStatus ==
  \A s \in Steps :
    /\ job[s] # "none" => Prior(s) \subseteq obj.done
    /\ job[s] \in {"running", "failed"} => s \notin obj.done /\ s \notin st.done
    /\ job[s] = "none" /\ s \in obj.done => s \in view.done /\ (pc # "idle" => s \in snap.done)
    /\ jobView[s] = "succeeded" =>
         job[s] = "succeeded" \/ (job[s] = "none" /\ s \in obj.done)
    /\ s \in st.done => s \in obj.done \/ job[s] = "succeeded"

\* What is recorded as done, or about to be, has been done to the database, unless a
\* restore has replaced it since: then the phases that followed found a copy.
DoneIsReal ==
  /\ \A s \in Steps : s \in obj.done \/ job[s] = "succeeded" => s \in db \/ "copy" \in db
  /\ "harden" \in obj.done \/ job["harden"] = "succeeded" => "harden" \in db \/ db = {"copy"}

\* A Job the contents were replaced under still runs, and nothing has been over the copy.
TornIsCopied == \A s \in torn : job[s] = "running" /\ db = {"copy"}

\* Nothing is opened before the status records the whole pipeline.
OpenedLast == Opened \/ pc = "expose" => Steps \subseteq obj.done

IInv ==
  /\ TypeOK
  /\ CopiesAreBehind
  /\ DoneInOrder
  /\ JobsMatchStatus
  /\ DoneIsReal
  /\ TornIsCopied
  /\ OpenedLast

------------------------------------------------------------------------------
(* The pipeline.                                                           *)

\* The pipeline is a total order: of two phases one comes before the other, and
\* the one that provisions comes before all the others, and harden after them.
LEMMA Pipeline ==
  /\ "harden" \in Steps \ Provision /\ "copy" \notin Steps
  /\ Steps \ {"harden"} \subseteq Prior("harden")
  /\ Provision \subseteq Steps
  /\ \A s \in Steps : Prior(s) \subseteq Steps /\ s \notin Prior(s)
  /\ \A s, t \in Steps : s = t \/ s \in Prior(t) \/ t \in Prior(s)
  /\ \A s \in Provision : \A t \in Steps \ {s} : s \in Prior(t)
<1>1. CASE DataType = "Snapshot"
  BY <1>1 DEF Steps, Provision, Migration, Prior
<1>2. CASE DataType = "Live"
  BY <1>2 DEF Steps, Provision, Migration, Prior
<1>3. CASE DataType \in {"Empty", "Demo"}
  BY <1>3 DEF Steps, Provision, Migration, Prior
<1>4. QED
  BY <1>1, <1>2, <1>3, EnvironmentAssumption DEF EnvironmentAssumption

\* Each phase is shown as one the API knows.
LEMMA PhaseOfPhases == \A s \in Steps : PhaseOf(s) \in Phases
BY EnvironmentAssumption DEF PhaseOf, Phases

------------------------------------------------------------------------------
(* Types.                                                                  *)

LEMMA CreatedType == Created \in Objects
BY DEF Created, Objects, Phases

\* What the actions make of an object is an object.
LEMMA ObjectUpdates ==
  ASSUME NEW o \in Objects
  PROVE  /\ [o EXCEPT !.exists = FALSE, !.finalizer = FALSE] \in Objects
         /\ [o EXCEPT !.exists = FALSE] \in Objects
         /\ [o EXCEPT !.finalizer = TRUE] \in Objects
         /\ [o EXCEPT !.deleting = TRUE] \in Objects
         /\ [o EXCEPT !.phase = "Expired", !.terminated = TRUE] \in Objects
         /\ [o EXCEPT !.handover = "refused", !.phase = "Failed"] \in Objects
         /\ [o EXCEPT !.handover = "allowed", !.phase = "Ready", !.ready = TRUE] \in Objects
         /\ \A r \in Restores \cup {None} : [o EXCEPT !.pausedBy = r] \in Objects
BY DEF Objects, Phases

LEMMA InitType == Init => TypeOK
<1> SUFFICES ASSUME Init PROVE TypeOK
  OBVIOUS
<1>1. edits \in 0..MaxEdits
  BY EnvironmentAssumption DEF Init, EnvironmentAssumption
<1>2. job \in [Steps -> JobStates] /\ jobView \in [Steps -> JobStates]
  BY DEF Init, JobStates
<1>3. QED
  BY <1>1, <1>2, CreatedType, Zenon DEF Init, TypeOK, Results

\* A helper of ControllerRuntime moves values between typed variables.
LEMMA TypeAfterReturn ==
  ASSUME TypeOK, NEW r \in Results, Return(r)
  PROVE  /\ queued' \in BOOLEAN /\ timer' \in BOOLEAN /\ fresh' \in BOOLEAN
         /\ pc' = "idle" /\ res' \in Results
         /\ snap' \in Objects /\ st' \in Objects
BY CreatedType, Zenon DEF TypeOK, Return, EndPass, Results

LEMMA TypeAfterStore ==
  ASSUME TypeOK, NEW o \in Objects, NEW wakes \in BOOLEAN, Store(o, wakes)
  PROVE  /\ obj' \in Objects /\ view' \in Objects
         /\ current' \in BOOLEAN /\ waking' \in BOOLEAN /\ fresh' \in BOOLEAN
BY Zenon DEF TypeOK, Store

\* Every step keeps every variable in its type.
LEMMA NextType == TypeOK /\ [Next]_vars => TypeOK'
<1> SUFFICES ASSUME TypeOK, [Next]_vars PROVE TypeOK'
  OBVIOUS
<1> USE DEF stored, queue, pass, children, world
<1>1. CASE Read
  BY <1>1, Zenon DEF Read, BeginPass, TypeOK, Results
<1>2. CASE Gone
  BY <1>2, TypeAfterReturn, Zenon DEF Gone, TypeOK, Results
<1>3. CASE Finalize
  BY <1>3, TypeAfterReturn, TypeAfterStore, ObjectUpdates, Zenon DEF Finalize, TypeOK, Results
<1>4. CASE AddFinalizer
  BY <1>4, TypeAfterReturn, TypeAfterStore, ObjectUpdates, EnvironmentAssumption, Zenon
     DEF AddFinalizer, TypeOK, Results, EnvironmentAssumption
<1>5. CASE Expire
  BY <1>5, ObjectUpdates, Zenon DEF Expire, GoTo, TypeOK, Results
<1>6. CASE RecordExpiry
  BY <1>6, TypeAfterReturn, TypeAfterStore, Zenon DEF RecordExpiry, GoTo, TypeOK, Results
<1>7. CASE DeleteExpired
  BY <1>7, TypeAfterReturn, TypeAfterStore, ObjectUpdates, Zenon DEF DeleteExpired, TypeOK, Results
<1>8. ASSUME NEW s \in Steps, RunPhase(s) PROVE TypeOK'
  <2>1. job' \in [Steps -> JobStates]
    BY <1>8 DEF RunPhase, TypeOK, JobStates
  <2>2. AfterPhase(s, jobView[s]) \in Objects
    BY PhaseOfPhases DEF AfterPhase, TypeOK, Objects, Phases
  <2>3. ResultAfterPhase(jobView[s]) \in Results
    BY Zenon DEF ResultAfterPhase, Results
  <2>4. UNCHANGED <<stored, jobView, db, torn, replicas, pods, ingress, world>>
    BY <1>8, Zenon DEF RunPhase
  <2>5. CASE Return("requeue")
    <3>1. "requeue" \in Results
      BY DEF Results
    <3>2. QED
      BY <2>1, <2>4, <2>5, <3>1, TypeAfterReturn, Zenon DEF TypeOK
  <2>6. CASE /\ GoTo("commit", AfterPhase(s, jobView[s]), ResultAfterPhase(jobView[s]))
             /\ UNCHANGED fresh
    BY <2>1, <2>2, <2>3, <2>4, <2>6, Zenon DEF GoTo, TypeOK
  <2>7. QED
    BY <1>8, <2>5, <2>6, Zenon DEF RunPhase
<1>9. CASE ApplyWorkload
  BY <1>9, Zenon DEF ApplyWorkload, GoTo, TypeOK
<1>10. CASE RefuseExposure
  BY <1>10, ObjectUpdates, Zenon DEF RefuseExposure, GoTo, TypeOK, Results
<1>11. CASE Expose
  BY <1>11, ObjectUpdates, EnvironmentAssumption, Zenon
     DEF Expose, GoTo, TypeOK, Results, RequeueForLifecycle, EnvironmentAssumption
<1>12. CASE Commit
  BY <1>12, TypeAfterReturn, TypeAfterStore, Zenon DEF Commit, TypeOK, Results
<1>13. CASE DeliverObject
  BY <1>13, Zenon DEF DeliverObject, Deliver, TypeOK
<1>14. ASSUME NEW s \in Steps, DeliverJob(s) \/ EndJob(s) \/ EndTornJob(s) \/ RemoveJob(s)
       PROVE  TypeOK'
  <2>1. /\ job' \in [Steps -> JobStates] /\ jobView' \in [Steps -> JobStates]
        /\ db' \subseteq Steps \cup {"copy"} /\ torn' \subseteq Steps
    BY <1>14 DEF DeliverJob, EndJob, EndTornJob, RemoveJob, TypeOK, JobStates
  <2>2. QED
    <3>1. CASE DeliverJob(s)
      BY <3>1, <2>1, Zenon DEF DeliverJob, TypeOK
    <3>2. CASE EndJob(s)
      BY <3>2, <2>1 DEF EndJob, TypeOK, runtime
    <3>3. CASE RemoveJob(s)
      BY <3>3, <2>1 DEF RemoveJob, TypeOK, runtime
    <3>4. CASE EndTornJob(s)
      BY <3>4, <2>1 DEF EndTornJob, TypeOK, runtime
    <3>5. QED
      BY <1>14, <3>1, <3>2, <3>3, <3>4
<1>15. CASE Rollout
  BY <1>15, Zenon DEF Rollout, TypeOK
<1>16. CASE TimerExpires
  BY <1>16, Zenon DEF TimerExpires, TimerFires, TypeOK
<1>17. CASE Crash
  BY <1>17, CreatedType, Zenon DEF Crash, Restart, TypeOK, Results
<1>18. CASE Edit
  <2>1. edits' \in 0..MaxEdits
    BY <1>18, EnvironmentAssumption DEF Edit, TypeOK, EnvironmentAssumption
  <2>2. QED
    BY <1>18, <2>1, TypeAfterStore, Zenon DEF Edit, TypeOK
<1>19. CASE Delete
  BY <1>19, TypeAfterStore, ObjectUpdates, Zenon DEF Delete, TypeOK
<1>20. CASE UnrelatedEvent
  BY <1>20, Zenon DEF UnrelatedEvent, TypeOK
<1>21. CASE CatalogueChanges
  <2>1. edits' \in 0..MaxEdits
    BY <1>21, EnvironmentAssumption DEF CatalogueChanges, TypeOK, EnvironmentAssumption
  <2>2. QED
    BY <1>21, <2>1, Zenon DEF CatalogueChanges, TypeOK, runtime
<1>22. CASE TTLRunsOut
  BY <1>22, Zenon DEF TTLRunsOut, TypeOK, runtime
<1>23. ASSUME NEW r \in Restores, Pause(r) \/ Replace(r) \/ Resume(r) PROVE TypeOK'
  <2>1. CASE Pause(r)
    BY <2>1, TypeAfterStore, ObjectUpdates, Zenon DEF Pause, TypeOK
  <2>2. CASE Resume(r)
    BY <2>2, TypeAfterStore, ObjectUpdates, Zenon DEF Resume, TypeOK
  <2>3. CASE Replace(r)
    BY <2>3 DEF Replace, TypeOK, runtime
  <2>4. QED
    BY <1>23, <2>1, <2>2, <2>3
<1>24. CASE CallFails
  BY <1>24, TypeAfterReturn, Zenon DEF CallFails, TypeOK, Results
<1>25. CASE UNCHANGED vars
  BY <1>25 DEF vars, runtime, TypeOK
<1>26. QED
  BY <1>1, <1>2, <1>3, <1>4, <1>5, <1>6, <1>7, <1>8, <1>9, <1>10, <1>11, <1>12, <1>13,
     <1>14, <1>15, <1>16, <1>17, <1>18, <1>19, <1>20, <1>21, <1>22, <1>23, <1>24, <1>25, Zenon
     DEF Next, Worker, Others

------------------------------------------------------------------------------
(* The invariant.                                                          *)

\* The updates that do not touch the phases done.
LEMMA KeepDone ==
  ASSUME NEW o \in Objects
  PROVE  /\ [o EXCEPT !.exists = FALSE, !.finalizer = FALSE].done = o.done
         /\ [o EXCEPT !.exists = FALSE].done = o.done
         /\ [o EXCEPT !.finalizer = TRUE].done = o.done
         /\ [o EXCEPT !.deleting = TRUE].done = o.done
         /\ [o EXCEPT !.phase = "Expired", !.terminated = TRUE].done = o.done
         /\ [o EXCEPT !.handover = "refused", !.phase = "Failed"].done = o.done
         /\ [o EXCEPT !.handover = "allowed", !.phase = "Ready", !.ready = TRUE].done = o.done
         /\ \A r \in Restores \cup {None} : [o EXCEPT !.pausedBy = r].done = o.done
BY DEF Objects

\* What a phase leaves in the status to be written.
LEMMA AfterPhaseDone ==
  ASSUME snap \in Objects, NEW s \in Steps, NEW j
  PROVE  AfterPhase(s, j).done = IF j = "succeeded" THEN snap.done \cup {s} ELSE snap.done
BY DEF AfterPhase, Objects

LEMMA CreatedDone == Created.done = {}
BY DEF Created

LEMMA InitInv == Init => IInv
<1> SUFFICES ASSUME Init PROVE IInv
  OBVIOUS
<1>1. TypeOK
  BY InitType
<1>2. CopiesAreBehind /\ DoneInOrder /\ OpenedLast
  BY CreatedDone DEF Init, CopiesAreBehind, DoneInOrder, OpenedLast, Opened
<1>3. JobsMatchStatus /\ DoneIsReal /\ TornIsCopied
  BY CreatedDone, Pipeline DEF Init, JobsMatchStatus, DoneIsReal, TornIsCopied
<1>4. QED
  BY <1>1, <1>2, <1>3 DEF IInv

\* What a step that writes the object without recording a phase does to it.
SameDone == obj'.done = obj.done /\ view' = view /\ ~current'

LEMMA WritesKeepDone ==
  ASSUME TypeOK
  PROVE  /\ Finalize \/ AddFinalizer \/ DeleteExpired => SameDone \/ UNCHANGED stored
         /\ Edit \/ Delete => SameDone
         /\ \A r \in Restores : Pause(r) \/ Resume(r) => SameDone
<1> USE KeepDone DEF Store, SameDone
<1>0. obj \in Objects
  BY DEF TypeOK
<1>1. Finalize => SameDone \/ UNCHANGED stored
  BY <1>0 DEF Finalize
<1>2. AddFinalizer => SameDone \/ UNCHANGED stored
  BY <1>0 DEF AddFinalizer
<1>3. DeleteExpired => SameDone \/ UNCHANGED stored
  BY <1>0 DEF DeleteExpired
<1>4. Edit => SameDone
  BY <1>0 DEF Edit
<1>5. Delete => SameDone
  BY <1>0 DEF Delete
<1>6. ASSUME NEW r \in Restores, Pause(r) \/ Resume(r) PROVE SameDone
  <2>1. CASE Pause(r)
    BY <1>0, <2>1 DEF Pause
  <2>2. CASE Resume(r)
    BY <1>0, <2>2 DEF Resume
  <2>3. QED
    BY <1>6, <2>1, <2>2
<1>7. QED
  BY <1>1, <1>2, <1>3, <1>4, <1>5, <1>6, Zenon

\* Every step keeps the copies in their relation to what is stored.
LEMMA NextInv == IInv /\ [Next]_vars =>
  (/\ CopiesAreBehind /\ DoneInOrder /\ JobsMatchStatus
   /\ DoneIsReal /\ TornIsCopied /\ OpenedLast)'
<1> DEFINE Inv == /\ CopiesAreBehind /\ DoneInOrder /\ JobsMatchStatus
                  /\ DoneIsReal /\ TornIsCopied /\ OpenedLast
<1> SUFFICES ASSUME TypeOK, Inv, [Next]_vars PROVE Inv'
  BY DEF IInv
<1> USE DEF stored, queue, pass, children, world, Return, EndPass, Store, GoTo, Opened,
    CopiesAreBehind, DoneInOrder, JobsMatchStatus, DoneIsReal, TornIsCopied, OpenedLast
<1>0. obj \in Objects /\ snap \in Objects /\ st \in Objects /\ view \in Objects
  BY DEF TypeOK
<1>1. CASE Read
  BY <1>1 DEF Read, BeginPass
<1>2. CASE Gone \/ CallFails
  BY <1>2, CreatedDone DEF Gone, CallFails
<1>3. CASE Finalize
  <2>1. SameDone \/ UNCHANGED stored
    BY <1>3, WritesKeepDone
  <2>2. Return("none") \/ Return("after") \/ Return("requeue")
    BY <1>3 DEF Finalize
  <2>3. QED
    BY <1>3, <2>1, <2>2, CreatedDone DEF Finalize, SameDone
<1>4. CASE AddFinalizer
  <2>1. SameDone \/ UNCHANGED stored
    BY <1>4, WritesKeepDone
  <2>2. Return("none") \/ Return("requeue")
    BY <1>4 DEF AddFinalizer
  <2>3. QED
    BY <1>4, <2>1, <2>2, CreatedDone DEF AddFinalizer, SameDone
<1>5. CASE Expire
  BY <1>5, <1>0, KeepDone DEF Expire
<1>6. CASE RecordExpiry
  BY <1>6, CreatedDone, Pipeline DEF RecordExpiry
<1>7. CASE DeleteExpired
  <2>1. SameDone \/ UNCHANGED stored
    BY <1>7, WritesKeepDone
  <2>2. QED
    BY <1>7, <2>1, CreatedDone DEF DeleteExpired, SameDone
<1>8. ASSUME NEW s \in Steps, RunPhase(s) PROVE Inv'
  <2>1. s \notin snap.done /\ Prior(s) \subseteq snap.done
    BY <1>8 DEF RunPhase, IsNextPhase
  <2>2. pc = "pass" /\ UNCHANGED <<stored, jobView, db, torn, replicas, ingress>>
    BY <1>8 DEF RunPhase
  <2>3. job[s] = "none" => s \notin obj.done
    BY <2>1, <2>2
  <2>4. \A t \in Steps : job'[t] = IF t = s /\ job[s] = "none" THEN "running" ELSE job[t]
    BY <1>8 DEF RunPhase, TypeOK
  <2>5. snap'.done \subseteq snap.done /\ pc' \in {"idle", "commit"}
        /\ (pc' = "commit" => snap' = snap /\ fresh' = fresh)
        /\ (pc' = "idle" => st'.done = {} /\ snap'.done = {})
    BY <1>8, CreatedDone DEF RunPhase
  <2>6. pc' = "commit" =>
          st'.done = IF jobView[s] = "succeeded" THEN snap.done \cup {s} ELSE snap.done
    BY <1>8, <1>0, AfterPhaseDone DEF RunPhase
  <2>7. CopiesAreBehind'
    BY <2>2, <2>5, <2>6
  <2>8. DoneInOrder'
    BY <2>1, <2>2, <2>5, <2>6
  <2>9. JobsMatchStatus'
    BY <2>1, <2>2, <2>3, <2>4, <2>5, <2>6
  <2>10. \A t \in Steps : (job'[t] = "succeeded" => job[t] = "succeeded")
                         /\ (job[t] = "running" => job'[t] = "running")
    BY <2>4
  <2>11. DoneIsReal' /\ TornIsCopied' /\ OpenedLast'
    BY <2>2, <2>5, <2>10, Pipeline DEF TypeOK
  <2>12. QED
    BY <2>7, <2>8, <2>9, <2>11
<1>9. CASE ApplyWorkload
  BY <1>9 DEF ApplyWorkload, Hardened
<1>10. CASE RefuseExposure
  BY <1>10, <1>0, KeepDone DEF RefuseExposure
<1>11. CASE Expose
  BY <1>11, <1>0, KeepDone DEF Expose
<1>12. CASE Commit
  BY <1>12, CreatedDone, Pipeline DEF Commit
<1>13. CASE DeliverObject
  BY <1>13 DEF DeliverObject, Deliver
<1>14. ASSUME NEW s \in Steps, DeliverJob(s) PROVE Inv'
  BY <1>14 DEF DeliverJob, TypeOK
<1>15. ASSUME NEW s \in Steps, EndJob(s) PROVE Inv'
  <2>1. job[s] = "running" /\ s \notin obj.done /\ s \notin st.done
    BY <1>15 DEF EndJob
  <2>2. UNCHANGED <<obj, view, current, pc, snap, fresh, st, jobView, replicas, ingress>>
    BY <1>15 DEF EndJob, runtime
  <2>3. \A t \in Steps \ {s} : job'[t] = job[t]
    BY <1>15 DEF EndJob, TypeOK
  <2>4. job'[s] \in {"succeeded", "failed"} /\ (job'[s] = "succeeded" => s \in db')
    BY <1>15 DEF EndJob, TypeOK
  <2>5. s \notin Provision => db \subseteq db'
    BY <1>15 DEF EndJob
  <2>6. s \in Provision => \A t \in Steps \ {s} : t \notin obj.done /\ job[t] = "none"
    BY <2>1, Pipeline
  <2>7. s # "harden" => "harden" \notin obj.done /\ job["harden"] = "none"
    BY <2>1, Pipeline
  <2>8. DoneIsReal'
    <3>1. \A t \in Steps : t \in obj'.done \/ job'[t] = "succeeded" => t \in db' \/ "copy" \in db'
      BY <2>1, <2>2, <2>3, <2>4, <2>5, <2>6
    <3>2. CASE s = "harden"
      BY <2>1, <2>2, <2>4, <3>1, <3>2
    <3>3. CASE s # "harden"
      BY <2>2, <2>3, <2>7, <3>1, <3>3, Pipeline
    <3>4. QED
      BY <3>2, <3>3
  <2>9. JobsMatchStatus'
    BY <2>1, <2>2, <2>3, <2>4
  <2>10. \A t \in Steps \ {s} : job[t] # "running"
    BY <2>1, Pipeline
  <2>11. TornIsCopied'
    BY <1>15, <2>10 DEF EndJob, TypeOK
  <2>12. CopiesAreBehind' /\ DoneInOrder' /\ OpenedLast'
    BY <2>2
  <2>13. QED
    BY <2>8, <2>9, <2>11, <2>12
<1>16. ASSUME NEW s \in Steps, RemoveJob(s) PROVE Inv'
  <2>1. UNCHANGED <<obj, view, current, pc, snap, fresh, st, jobView, db, torn, replicas, ingress>>
    BY <1>16 DEF RemoveJob, runtime
  <2>2. \A t \in Steps : job'[t] = IF t = s THEN "none" ELSE job[t]
    BY <1>16 DEF RemoveJob, TypeOK
  <2>3. \/ job[s] = "failed"
        \/ job[s] = "succeeded" /\ s \in view.done /\ (pc = "idle" \/ s \in snap.done)
    BY <1>16 DEF RemoveJob
  <2>4. JobsMatchStatus'
    BY <2>1, <2>2, <2>3
  <2>5. CopiesAreBehind' /\ DoneInOrder' /\ DoneIsReal' /\ TornIsCopied' /\ OpenedLast'
    BY <2>1, <2>2, <2>3, Pipeline DEF TypeOK
  <2>6. QED
    BY <2>4, <2>5
<1>17. CASE Rollout \/ TimerExpires \/ UnrelatedEvent
  BY <1>17 DEF Rollout, TimerExpires, TimerFires, UnrelatedEvent
<1>18. CASE Crash
  BY <1>18, CreatedDone DEF Crash, Restart
<1>19. CASE Edit \/ Delete
  <2>1. SameDone
    BY <1>19, WritesKeepDone
  <2>2. QED
    BY <1>19, <2>1 DEF Edit, Delete, SameDone
<1>20. CASE CatalogueChanges \/ TTLRunsOut
  BY <1>20 DEF CatalogueChanges, TTLRunsOut, runtime
<1>21. ASSUME NEW r \in Restores, Pause(r) \/ Resume(r) PROVE Inv'
  <2>1. SameDone
    BY <1>21, WritesKeepDone
  <2>2. QED
    BY <1>21, <2>1 DEF Pause, Resume, SameDone
<1>22. CASE UNCHANGED vars
  BY <1>22 DEF vars, runtime
<1>23. ASSUME NEW s \in Steps, EndTornJob(s) PROVE Inv'
  <2>1. /\ job[s] = "running" /\ s \notin obj.done /\ s \notin st.done
        /\ db = {"copy"} /\ torn' \subseteq torn /\ s \notin torn'
    BY <1>23 DEF EndTornJob
  <2>2. UNCHANGED <<obj, view, current, pc, snap, fresh, st, jobView, db, replicas, ingress>>
    BY <1>23 DEF EndTornJob, runtime
  <2>3. \A t \in Steps : job'[t] = job[t] \/ (t = s /\ job'[t] \in {"succeeded", "failed"})
    BY <1>23 DEF EndTornJob, TypeOK
  <2>4. JobsMatchStatus' /\ DoneIsReal'
    BY <2>1, <2>2, <2>3
  <2>5. TornIsCopied'
    BY <2>1, <2>2, <2>3 DEF TypeOK
  <2>6. CopiesAreBehind' /\ DoneInOrder' /\ OpenedLast'
    BY <2>2
  <2>7. QED
    BY <2>4, <2>5, <2>6
<1>24. ASSUME NEW r \in Restores, Replace(r) PROVE Inv'
  <2>1. /\ UNCHANGED <<obj, view, current, pc, snap, fresh, st, job, jobView, replicas, ingress>>
        /\ db' = {"copy"}
    BY <1>24 DEF Replace, runtime
  <2>2. TornIsCopied'
    BY <1>24, <2>1 DEF Replace
  <2>3. QED
    BY <2>1, <2>2
<1>25. QED
  BY <1>1, <1>2, <1>3, <1>4, <1>5, <1>6, <1>7, <1>8, <1>9, <1>10, <1>11, <1>12, <1>13,
     <1>14, <1>15, <1>16, <1>17, <1>18, <1>19, <1>20, <1>21, <1>22, <1>23, <1>24, Zenon
     DEF Next, Worker, Others

LEMMA Invariance == Spec => []IInv
<1>1. IInv /\ [Next]_vars => IInv'
  BY NextType, NextInv DEF IInv
<1>2. QED
  BY InitInv, <1>1, PTL DEF Spec

------------------------------------------------------------------------------
(* What follows.                                                           *)

\* The status never holds anything the API would refuse, and every variable
\* stays in its type.
THEOREM TypeCorrect == Spec => []TypeOK
<1>1. IInv => TypeOK
  BY DEF IInv
<1>2. QED
  BY Invariance, <1>1, PTL

\* Nothing serves what the pipeline has filled in and not hardened, however late the
\* cache is, whoever writes the status in between, wherever it crashes, and whatever
\* moment a restore chooses: what is not hardened then is the copy it brought.
THEOREM OnlyHardenedIsServed == Spec => []ServedOnlyHardened
<1>1. IInv => ServedOnlyHardened
  BY Pipeline DEF IInv, OpenedLast, DoneIsReal, ServedOnlyHardened, Contents
<1>2. QED
  BY Invariance, <1>1, PTL

\* Every phase Job runs alone, on the result of the phases before it, or on the copy that
\* a restore has put in its place.
THEOREM PhasesRunInOrder == Spec => []PhaseRunsOnItsInput
<1>1. ASSUME IInv, NEW s \in Steps, job[s] = "running"
      PROVE  /\ Prior(s) \subseteq db \/ "copy" \in db
             /\ \A t \in Steps \ {s} : job[t] # "running"
  <2>1. Prior(s) \subseteq obj.done /\ s \notin obj.done
    BY <1>1 DEF IInv, JobsMatchStatus
  <2>2. Prior(s) \subseteq db \/ "copy" \in db
    BY <1>1, <2>1, Pipeline DEF IInv, DoneIsReal
  <2>3. ASSUME NEW t \in Steps \ {s}, job[t] = "running" PROVE FALSE
    <3>1. Prior(t) \subseteq obj.done /\ t \notin obj.done
      BY <1>1, <2>3 DEF IInv, JobsMatchStatus
    <3>2. QED
      BY <2>1, <3>1, Pipeline
  <2>4. QED
    BY <2>2, <2>3
<1>2. IInv => PhaseRunsOnItsInput
  BY <1>1 DEF PhaseRunsOnItsInput
<1>3. QED
  BY Invariance, <1>2, PTL

\* Only a pass creates a Job, and only for a phase that is not recorded as done.
LEMMA JobsAreNew ==
  ASSUME IInv, [Next]_vars, NEW s \in Steps, job[s] = "none", job'[s] # "none"
  PROVE  s \notin obj.done
<1>1. CASE RunPhase(s)
  BY <1>1 DEF IInv, JobsMatchStatus, RunPhase, IsNextPhase
<1>2. ASSUME NEW t \in Steps \ {s}, RunPhase(t) \/ EndJob(t) \/ EndTornJob(t) \/ RemoveJob(t)
      PROVE  FALSE
  BY <1>2 DEF RunPhase, EndJob, EndTornJob, RemoveJob, IInv, TypeOK
<1>3. CASE EndJob(s) \/ EndTornJob(s) \/ RemoveJob(s)
  BY <1>3 DEF EndJob, EndTornJob, RemoveJob
<1>4. CASE UNCHANGED job
  BY <1>4
<1>5. CASE Worker
  BY <1>1, <1>2, <1>4, <1>5
     DEF Worker, Read, Gone, Finalize, AddFinalizer, Expire, RecordExpiry, DeleteExpired,
         ApplyWorkload, RefuseExposure, Expose, Commit, children
<1>6. CASE Others \/ CallFails \/ Crash
  BY <1>2, <1>3, <1>4, <1>6
     DEF Others, DeliverObject, DeliverJob, Rollout, TimerExpires, CallFails, Crash, Edit, Delete,
         UnrelatedEvent, CatalogueChanges, TTLRunsOut, Pause, Replace, Resume, children
<1>7. CASE UNCHANGED vars
  BY <1>4, <1>7 DEF vars, children
<1>8. QED
  BY <1>5, <1>6, <1>7 DEF Next

\* Once a workload exists no phase runs again: neither a late cache, nor a refused
\* write, nor the removal of old Jobs brings a restore back over data in use.
THEOREM NoPhaseRunsAgain == Spec => NoPhaseOnceOpened
<1>1. IInv /\ [Next]_vars =>
        [Opened => \A s \in Steps : job[s] = "none" => job'[s] = "none"]_vars
  BY JobsAreNew DEF IInv, OpenedLast
<1>2. QED
  BY Invariance, <1>1, PTL DEF Spec, NoPhaseOnceOpened

\* The controller implements the abstract promise, whatever a restore does at whatever
\* moment of the pipeline.
THEOREM ImplementsGate == Spec => KeepsTheGate
<1>1. Init => Gate!Init
  BY DEF Init, Gate!Init, Opened, Contents
<1>2. ASSUME IInv, [Next]_vars PROVE [Gate!Next]_(Gate!gate)
  <2> USE DEF Gate!gate, Gate!Next, Gate!Fill, Gate!Harden, Gate!Replace, Gate!Open, Opened
  <2>1. Steps \subseteq obj.done => Contents # "raw"
    BY <1>2, Pipeline DEF IInv, DoneIsReal, Contents
  <2>2. ASSUME NEW s \in Steps, EndJob(s) PROVE [Gate!Next]_(Gate!gate)
    <3>1. ~Opened /\ UNCHANGED <<replicas, ingress>>
      BY <1>2, <2>2 DEF EndJob, IInv, JobsMatchStatus, OpenedLast
    <3>2. db' # {"copy"} \/ db' = db
      BY <2>2, Pipeline DEF EndJob
    <3>3. Contents' \in {"raw", "hardened"} \/ Contents' = Contents
      BY <3>2 DEF Contents
    <3>4. QED
      BY <3>1, <3>3
  <2>3. ASSUME NEW r \in Restores, Replace(r) PROVE [Gate!Next]_(Gate!gate)
    BY <2>3 DEF Replace, Contents
  <2>4. CASE ApplyWorkload
    BY <1>2, <2>1, <2>4 DEF ApplyWorkload, Hardened, IInv, CopiesAreBehind, Contents
  <2>5. CASE Expose
    BY <1>2, <2>1, <2>5 DEF Expose, IInv, OpenedLast, Contents
  <2>6. CASE UNCHANGED <<db, replicas, ingress>>
    BY <2>6 DEF Contents
  <2>7. CASE Worker
    BY <2>4, <2>5, <2>6, <2>7
       DEF Worker, Read, Gone, Finalize, AddFinalizer, Expire, RecordExpiry, DeleteExpired,
           RunPhase, RefuseExposure, Commit, children
  <2>8. CASE Others \/ CallFails \/ Crash
    BY <2>2, <2>3, <2>6, <2>8
       DEF Others, DeliverObject, DeliverJob, EndTornJob, RemoveJob, Rollout, TimerExpires, CallFails,
           Crash, Edit, Delete, UnrelatedEvent, CatalogueChanges, TTLRunsOut, Pause, Resume, children
  <2>9. CASE UNCHANGED vars
    BY <2>6, <2>9 DEF vars, children
  <2>10. QED
    BY <1>2, <2>7, <2>8, <2>9 DEF Next
<1>3. QED
  BY <1>1, <1>2, Invariance, PTL DEF Spec, KeepsTheGate, Gate!Spec
------------------------------------------------------------------------------
(* What the status records.                                                *)

\* A copy of the status has no more of the record than what is stored, and what a pass
\* means to write has no less than what it read; the deletion comes after the record.
RecordsGrow ==
  /\ view.terminated => obj.terminated
  /\ snap.terminated => obj.terminated
  /\ snap.ready => st.ready
  /\ snap.terminated => st.terminated
  /\ st.pausedBy = snap.pausedBy
  /\ pc = "expire" => st.terminated
  /\ pc = "delete" => obj.terminated

\* The record in o, which may take the place of p, has all that was in p.
Extends(o, p) ==
  /\ p.done \subseteq o.done
  /\ p.ready => o.ready
  /\ p.terminated => o.terminated

\* The updates that a step makes keep the record, and but one of them who pauses.
LEMMA UpdatesExtend ==
  ASSUME NEW o \in Objects
  PROVE  /\ \A u \in {[o EXCEPT !.exists = FALSE, !.finalizer = FALSE],
                      [o EXCEPT !.exists = FALSE],
                      [o EXCEPT !.finalizer = TRUE],
                      [o EXCEPT !.deleting = TRUE],
                      [o EXCEPT !.phase = "Expired", !.terminated = TRUE],
                      [o EXCEPT !.handover = "refused", !.phase = "Failed"],
                      [o EXCEPT !.handover = "allowed", !.phase = "Ready", !.ready = TRUE]} :
              Extends(u, o) /\ u.pausedBy = o.pausedBy
         /\ \A r \in Restores \cup {None} : Extends([o EXCEPT !.pausedBy = r], o)
         /\ [o EXCEPT !.phase = "Expired", !.terminated = TRUE].terminated
BY DEF Objects, Extends

LEMMA AfterPhaseExtends ==
  ASSUME snap \in Objects, NEW s \in Steps, NEW j
  PROVE  Extends(AfterPhase(s, j), snap) /\ AfterPhase(s, j).pausedBy = snap.pausedBy
BY DEF AfterPhase, Objects, Extends

\* What a step may do to the object: the record in it only grows, only a restore changes
\* who pauses it, and a deletion by a pass comes from the pass that recorded the expiry.
LEMMA StepsOfTheObject ==
  ASSUME IInv, RecordsGrow, [Next]_vars
  PROVE  /\ Extends(obj', obj)
         /\ pc' # pc => obj'.pausedBy = obj.pausedBy
<1> USE UpdatesExtend DEF Store, IInv, TypeOK, stored, pass
<1>0. obj \in Objects /\ snap \in Objects /\ Extends(obj, obj)
  BY DEF Extends
<1>1. CASE UNCHANGED obj
  BY <1>0, <1>1
<1>2. CASE Finalize
  BY <1>0, <1>1, <1>2 DEF Finalize
<1>3. CASE AddFinalizer
  BY <1>0, <1>1, <1>3 DEF AddFinalizer
<1>4. CASE RecordExpiry \/ Commit
  <2>1. CASE fresh /\ obj' = st
    <3>1. pc # "idle"
      BY <1>4 DEF RecordExpiry, Commit
    <3>2. snap = obj
      BY <2>1, <3>1 DEF CopiesAreBehind
    <3>3. QED
      BY <2>1, <3>2 DEF Extends, CopiesAreBehind, RecordsGrow
  <2>2. QED
    BY <1>1, <1>4, <2>1 DEF RecordExpiry, Commit
<1>5. CASE DeleteExpired
  BY <1>0, <1>1, <1>5 DEF DeleteExpired
<1>6. CASE Edit
  BY <1>0, <1>6 DEF Edit
<1>7. CASE Delete
  BY <1>0, <1>7 DEF Delete
<1>8. ASSUME NEW r \in Restores, Pause(r)
      PROVE  Extends(obj', obj) /\ pc' = pc
  BY <1>0, <1>8 DEF Pause
<1>9. ASSUME NEW r \in Restores, Resume(r)
      PROVE  Extends(obj', obj) /\ pc' = pc
  BY <1>0, <1>9 DEF Resume
<1>10. CASE Worker
  BY <1>1, <1>2, <1>3, <1>4, <1>5, <1>10
     DEF Worker, Read, BeginPass, Gone, Expire, RunPhase, ApplyWorkload, RefuseExposure, Expose
<1>11. CASE Others
  BY <1>1, <1>6, <1>7, <1>8, <1>9, <1>11
     DEF Others, DeliverObject, Deliver, DeliverJob, EndJob, EndTornJob, RemoveJob, Rollout,
         TimerExpires, TimerFires, Replace, UnrelatedEvent, CatalogueChanges, TTLRunsOut, runtime
<1>12. CASE CallFails \/ Crash \/ UNCHANGED vars
  BY <1>1, <1>12 DEF CallFails, Crash, Restart, vars, runtime
<1>13. QED
  BY <1>10, <1>11, <1>12 DEF Next

\* The copies stay behind, and what is to be written stays ahead of what was read.
LEMMA NextRecords == IInv /\ RecordsGrow /\ [Next]_vars => RecordsGrow'
<1> SUFFICES ASSUME IInv, RecordsGrow, [Next]_vars PROVE RecordsGrow'
  OBVIOUS
<1> USE DEF stored, queue, pass, children, world, Return, EndPass, Store, GoTo
<1>0. /\ obj \in Objects /\ snap \in Objects /\ st \in Objects
      /\ Extends(obj', obj)
      /\ Created.terminated = FALSE /\ Created.ready = FALSE
  BY StepsOfTheObject DEF IInv, TypeOK, Created
<1>1. ASSUME pc' = "idle", snap' = Created, st' = Created, view' = view \/ view' = obj'
      PROVE  RecordsGrow'
  BY <1>0, <1>1 DEF RecordsGrow, Extends
<1>2. ASSUME UNCHANGED <<pc, snap, st>>, view' = view \/ view' = obj'
      PROVE  RecordsGrow'
  BY <1>0, <1>2 DEF RecordsGrow, Extends
<1>3. CASE Read
  BY <1>3 DEF Read, BeginPass, RecordsGrow
<1>4. CASE Expire
  BY <1>0, <1>4, UpdatesExtend DEF Expire, RecordsGrow, Extends
<1>5. CASE RecordExpiry
  BY <1>0, <1>1, <1>5 DEF RecordExpiry, RecordsGrow
<1>6. ASSUME NEW s \in Steps, RunPhase(s) PROVE RecordsGrow'
  BY <1>0, <1>1, <1>6, AfterPhaseExtends DEF RunPhase, RecordsGrow, Extends
<1>7. CASE ApplyWorkload
  BY <1>7 DEF ApplyWorkload, RecordsGrow
<1>8. CASE RefuseExposure \/ Expose
  <2>1. Extends(st', snap) /\ st'.pausedBy = snap.pausedBy
    BY <1>0, <1>8, UpdatesExtend DEF RefuseExposure, Expose
  <2>2. pc' = "commit" /\ UNCHANGED <<obj, view, snap>>
    BY <1>8 DEF RefuseExposure, Expose
  <2>3. QED
    BY <2>1, <2>2 DEF RecordsGrow, Extends
<1>9. CASE Worker
  BY <1>1, <1>3, <1>4, <1>5, <1>6, <1>7, <1>8, <1>9
     DEF Worker, Gone, Finalize, AddFinalizer, DeleteExpired, Commit
<1>10. CASE Others
  BY <1>2, <1>10
     DEF Others, DeliverObject, Deliver, DeliverJob, EndJob, EndTornJob, RemoveJob, Rollout,
         TimerExpires, TimerFires, Edit, Delete, Pause, Replace, Resume, UnrelatedEvent,
         CatalogueChanges, TTLRunsOut, runtime
<1>11. CASE CallFails \/ Crash
  BY <1>1, <1>11 DEF CallFails, Crash, Restart
<1>12. CASE UNCHANGED vars
  BY <1>2, <1>12 DEF vars, runtime
<1>13. QED
  BY <1>9, <1>10, <1>11, <1>12 DEF Next

LEMMA RecordsInvariance == Spec => [](IInv /\ RecordsGrow)
<1>1. Init => RecordsGrow
  BY DEF Init, Created, RecordsGrow
<1>2. QED
  BY <1>1, Invariance, NextRecords, PTL DEF Spec

\* A pass never undoes a pause that a restore wrote while it ran, whatever copy of the
\* status the pass works from.
THEOREM PausesSurvive == Spec => PauseSurvivesPasses
<1>1. IInv /\ RecordsGrow /\ [Next]_vars => [pc' # pc => obj'.pausedBy = obj.pausedBy]_vars
  BY StepsOfTheObject
<1>2. QED
  BY <1>1, RecordsInvariance, PTL DEF Spec, PauseSurvivesPasses

\* A phase done, readyAt and terminatedAt stay in the status once they are in it.
THEOREM NothingIsForgotten == Spec => NothingForgotten
<1>1. IInv /\ RecordsGrow /\ [Next]_vars =>
        [/\ obj.done \subseteq obj'.done
         /\ obj.ready => obj'.ready
         /\ obj.terminated => obj'.terminated]_vars
  BY StepsOfTheObject DEF Extends
<1>2. QED
  BY <1>1, RecordsInvariance, PTL DEF Spec, NothingForgotten

\* The TTL deletes nothing whose end is not in the status: not after a commit that was
\* refused, nor after one that had nothing to write.
THEOREM ExpiriesAreRecorded == Spec => ExpiryIsRecorded
<1>1. IInv /\ RecordsGrow /\ [Next]_vars =>
        [pc = "delete" /\ obj'.deleting /\ ~obj.deleting => obj.terminated]_vars
  BY DEF RecordsGrow
<1>2. QED
  BY <1>1, RecordsInvariance, PTL DEF Spec, ExpiryIsRecorded

==============================================================================
