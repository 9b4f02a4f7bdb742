---------------------------- MODULE RehearsalProofs ----------------------------
(***************************************************************************)
(* Proofs about Rehearsal, for every set of images and every bound.  A     *)
(* pass acts on the phase it read, which may be an old one, and on a Job   *)
(* as the cache shows it.  What makes the result evidence all the same is  *)
(* that every copy of the phase, however old, is one whose Jobs before it  *)
(* have succeeded, and none is ahead of the stored one.                    *)
(***************************************************************************)
EXTENDS Rehearsal, TLAPS

\* The Jobs a rehearsal in phase p has behind it.
Before(p) ==
  CASE p \in Running     -> Prior(p)
    [] p = "Succeeded"   -> Running
    [] OTHER             -> {}

Earned(p) == \A q \in Before(p) : job[q] = "succeeded"

\* A pass that goes by phase p does not run a Job the stored phase has not come to.
NotAhead(p) ==
  /\ obj.phase = "Pending" => p = "Pending"
  /\ obj.phase \in Running /\ p \in Running => p \in Prior(obj.phase) \cup {obj.phase}
  /\ obj.phase = "Failed" /\ ~overdue /\ p \in Running => job[p] # "none"

\* The copies of the object.
CopiesAreBehind ==
  /\ current => view = obj
  /\ pc # "idle" /\ fresh => snap = obj
  /\ pc \in {"pass", "look"} => st = snap
  /\ Earned(obj.phase) /\ Earned(view.phase) /\ Earned(snap.phase) /\ Earned(st.phase)
  /\ NotAhead(view.phase) /\ NotAhead(snap.phase)

\* What a pass is about to write follows from what it read.
Follows(p, q) ==
  \/ p = "Pending" /\ q = "Restoring"
  \/ p = "Restoring" /\ q \in {"Restoring", "Migrating"}
  \/ p = "Migrating" /\ q \in {"Migrating", "Asserting"}
  \/ p = "Asserting" /\ q \in {"Asserting", "Succeeded"}
  \/ p \in Running /\ q = "Failed" /\ (overdue \/ job[p] # "none")

StepsFollow ==
  /\ pc = "look" => snap.phase \in Running
  /\ pc = "finish" => Follows(snap.phase, st.phase)

\* A Job the cache shows as ended has ended like that; only the migration is timed.
JobsAreBehind ==
  \A p \in Running :
    /\ jobView[p] \in {"succeeded", "overran", "failed"} => job[p] = jobView[p]
    /\ job[p] = "overran" => p = "Migrating"

RehearsalInv == TypeOK /\ CopiesAreBehind /\ StepsFollow /\ JobsAreBehind /\ JobsInOrder

------------------------------------------------------------------------------
(* Types.                                                                  *)

LEMMA ObjectUpdates ==
  ASSUME NEW o \in Objects
  PROVE  /\ \A p \in Phases : [o EXCEPT !.phase = p] \in Objects
         /\ \A i \in Images : [o EXCEPT !.image = i] \in Objects
         /\ o.phase \in Phases /\ o.image \in Images
BY DEF Objects

LEMMA PhasesOf ==
  /\ Running \subseteq Phases
  /\ {"Pending", "Succeeded", "Failed"} \subseteq Phases
  /\ \A p, v : Advance(p, v) \in Phases
BY DEF Running, Phases, Advance

LEMMA InitType == Init => TypeOK
<1> SUFFICES ASSUME Init PROVE TypeOK
  OBVIOUS
<1>1. PICK i \in Images : obj = [phase |-> "Pending", image |-> i] /\ image = [p \in Running |-> i]
  BY DEF Init
<1>2. obj \in Objects /\ image \in [Running -> Images]
  BY <1>1, PhasesOf DEF Objects
<1>3. job \in [Running -> JobStates] /\ jobView \in [Running -> JobStates]
  BY DEF Init, JobStates
<1>4. edits \in 0..MaxEdits /\ failures \in 0..MaxFailures
  BY RehearsalAssumption DEF Init, RehearsalAssumption
<1>5. QED
  BY <1>2, <1>3, <1>4, Zenon DEF Init, TypeOK, Results

LEMMA TypeAfterReturn ==
  ASSUME TypeOK, NEW r \in Results, Return(r)
  PROVE  /\ queued' \in BOOLEAN /\ timer' \in BOOLEAN /\ fresh' \in BOOLEAN
         /\ pc' = "idle" /\ res' \in Results
         /\ snap' \in Objects /\ st' \in Objects
BY Zenon DEF TypeOK, Return, EndPass, Results

LEMMA TypeAfterFinish ==
  ASSUME TypeOK, NEW p \in Phases, NEW r \in Results, Finish(p, r)
  PROVE  /\ pc' = "finish" /\ st' \in Objects /\ res' \in Results
         /\ UNCHANGED <<queued, timer, snap, fresh>>
BY ObjectUpdates DEF TypeOK, Finish, GoTo, queue

LEMMA TypeAfterStore ==
  ASSUME TypeOK, NEW o \in Objects, NEW wakes \in BOOLEAN, Store(o, wakes)
  PROVE  /\ obj' \in Objects /\ view' \in Objects
         /\ current' \in BOOLEAN /\ waking' \in BOOLEAN /\ fresh' \in BOOLEAN
BY Zenon DEF TypeOK, Store

LEMMA NextType == TypeOK /\ [Next]_vars => TypeOK'
<1> SUFFICES ASSUME TypeOK, [Next]_vars PROVE TypeOK'
  OBVIOUS
<1> USE DEF stored, queue, pass, jobs
<1>0. /\ "none" \in Results /\ "requeue" \in Results
      /\ \A q : ResultAfter(q) \in Results
  BY DEF Results, ResultAfter
<1>1. CASE Read
  BY <1>1, <1>0, Zenon DEF Read, BeginPass, TypeOK
<1>2. CASE AlreadyOver
  BY <1>2, <1>0, TypeAfterReturn, Zenon DEF AlreadyOver, TypeOK
<1>3. CASE Start \/ TimeOut
  <2>1. \E p \in Phases, r \in Results : Finish(p, r)
    BY <1>3, <1>0, PhasesOf, Zenon DEF Start, TimeOut, Running
  <2>2. QED
    BY <1>3, <2>1, TypeAfterFinish, Zenon DEF Start, TimeOut, TypeOK
<1>4. CASE ApplyJob
  <2>1. job' \in [Running -> JobStates] /\ image' \in [Running -> Images]
    BY <1>4, ObjectUpdates DEF ApplyJob, TypeOK, JobStates
  <2>2. QED
    BY <1>4, <2>1, Zenon DEF ApplyJob, GoTo, TypeOK
<1>5. CASE ApplyJobFails \/ WriteStatusFails
  <2>1. failures' \in 0..MaxFailures
    BY <1>5, RehearsalAssumption DEF ApplyJobFails, WriteStatusFails, TypeOK, RehearsalAssumption
  <2>2. Return("requeue") /\ UNCHANGED <<stored, jobs, overdue, edits>>
    BY <1>5 DEF ApplyJobFails, WriteStatusFails
  <2>3. QED
    BY <2>1, <2>2, <1>0, TypeAfterReturn, Zenon DEF TypeOK
<1>6. CASE LookAtJob
  <2>1. UNCHANGED <<stored, jobs, overdue, edits, failures>>
    BY <1>6 DEF LookAtJob
  <2>2. CASE Return("requeue")
    BY <2>1, <2>2, <1>0, TypeAfterReturn, Zenon DEF TypeOK
  <2>3. CASE \E p \in Phases, r \in Results : Finish(p, r)
    BY <2>1, <2>3, TypeAfterFinish, Zenon DEF TypeOK
  <2>4. snap.phase \in Phases
    BY ObjectUpdates DEF TypeOK
  <2>5. QED
    BY <1>6, <1>0, <2>2, <2>3, <2>4, PhasesOf, Zenon DEF LookAtJob
<1>7. CASE WriteStatus
  <2>1. [obj EXCEPT !.phase = st.phase] \in Objects
    BY ObjectUpdates DEF TypeOK
  <2>2. QED
    BY <1>7, <2>1, <1>0, TypeAfterReturn, TypeAfterStore, Zenon DEF WriteStatus, TypeOK
<1>8. CASE DeliverObject
  BY <1>8, Zenon DEF DeliverObject, Deliver, TypeOK
<1>9. ASSUME NEW p \in Running, DeliverJob(p) PROVE TypeOK'
  <2>1. jobView' \in [Running -> JobStates]
    BY <1>9 DEF DeliverJob, TypeOK
  <2>2. QED
    BY <1>9, <2>1, Zenon DEF DeliverJob, TypeOK
<1>10. ASSUME NEW p \in Running, EndJob(p) PROVE TypeOK'
  <2>1. job' \in [Running -> JobStates]
    BY <1>10 DEF EndJob, TypeOK, JobStates
  <2>2. QED
    BY <1>10, <2>1, Zenon DEF EndJob, TypeOK, runtime
<1>11. CASE TimePasses
  BY <1>11, Zenon DEF TimePasses, TypeOK, runtime
<1>12. CASE Resync
  BY <1>12, Zenon DEF Resync, TypeOK
<1>13. CASE Crash
  BY <1>13, <1>0, Zenon DEF Crash, Restart, TypeOK
<1>14. CASE Edit
  <2>1. edits' \in 0..MaxEdits
    BY <1>14, RehearsalAssumption DEF Edit, TypeOK, RehearsalAssumption
  <2>2. \A i \in Images : [obj EXCEPT !.image = i] \in Objects
    BY ObjectUpdates DEF TypeOK
  <2>3. QED
    BY <1>14, <2>1, <2>2, TypeAfterStore, Zenon DEF Edit, TypeOK
<1>15. CASE UNCHANGED vars
  BY <1>15, Zenon DEF vars, runtime, TypeOK
<1>16. QED
  BY <1>1, <1>2, <1>3, <1>4, <1>5, <1>6, <1>7, <1>8, <1>9, <1>10, <1>11, <1>12, <1>13,
     <1>14, <1>15, Zenon DEF Next, Worker, Others

------------------------------------------------------------------------------
(* What a rehearsal has behind it.                                         *)

LEMMA InitInv == Init => RehearsalInv
<1> SUFFICES ASSUME Init PROVE RehearsalInv
  OBVIOUS
<1>1. obj.phase = "Pending" /\ view = obj /\ snap = obj /\ st = obj
  BY DEF Init
<1>2. \A p \in Running : job[p] = "none" /\ jobView[p] = "none"
  BY DEF Init
<1>3. CopiesAreBehind
  BY <1>1 DEF Init, CopiesAreBehind, Earned, Before, NotAhead, Running
<1>4. StepsFollow /\ JobsAreBehind /\ JobsInOrder
  BY <1>2 DEF Init, StepsFollow, JobsAreBehind, JobsInOrder
<1>5. QED
  BY InitType, <1>3, <1>4 DEF RehearsalInv

\* What Jobs have behind them they keep, whatever they do next.
LEMMA JobsGoOn ==
  ASSUME \A p \in Running : /\ job[p] # "none" => job'[p] # "none"
                            /\ job[p] = "succeeded" => job'[p] = "succeeded",
         overdue => overdue',
         obj'.phase = obj.phase
  PROVE  \A p : (Earned(p) => Earned(p)') /\ (NotAhead(p) => NotAhead(p)')
BY DEF Earned, NotAhead, Before, Prior, Running

\* The pass is over and holds what the cache holds.
LEMMA ReturnInv ==
  ASSUME RehearsalInv, NEW r \in Results, Return(r), UNCHANGED <<stored, jobs, overdue>>
  PROVE  CopiesAreBehind' /\ StepsFollow'
BY DEF RehearsalInv, CopiesAreBehind, StepsFollow, Return, EndPass, stored, jobs, Earned, NotAhead

\* The pass has made up its mind.
LEMMA FinishInv ==
  ASSUME RehearsalInv, pc \in {"pass", "look"}, NEW q \in Phases, NEW r \in Results,
         Finish(q, r), Follows(snap.phase, q), Earned(q), UNCHANGED <<stored, jobs, overdue>>
  PROVE  CopiesAreBehind' /\ StepsFollow'
<1>1. st'.phase = q /\ pc' = "finish" /\ snap' = snap /\ fresh' = fresh
  BY DEF Finish, GoTo, RehearsalInv, TypeOK, Objects
<1>2. QED
  BY <1>1 DEF RehearsalInv, CopiesAreBehind, StepsFollow, stored, jobs, Earned, NotAhead, Follows

\* A write goes through only when the pass is not stale, so the stored phase follows
\* from the stored phase.
LEMMA WriteInv ==
  ASSUME RehearsalInv, pc = "finish", fresh, Store([obj EXCEPT !.phase = st.phase], FALSE),
         Return(res), UNCHANGED <<jobs, overdue>>
  PROVE  CopiesAreBehind' /\ StepsFollow'
<1>1. Follows(obj.phase, st.phase) /\ obj'.phase = st.phase
  BY DEF RehearsalInv, CopiesAreBehind, StepsFollow, Store, TypeOK, Objects
<1>2. current' = FALSE /\ view' = view /\ snap' = view /\ st' = view /\ pc' = "idle"
  BY DEF Store, Return, EndPass
<1>3. Earned(view.phase) /\ Earned(st.phase) /\ Earned(obj.phase) /\ NotAhead(view.phase)
  BY DEF RehearsalInv, CopiesAreBehind
<1>4. \A p : Earned(p) => Earned(p)'
  BY DEF jobs, Earned
<1>5. NotAhead(view.phase)'
  BY <1>1, <1>2, <1>3
     DEF NotAhead, Follows, Earned, Before, Prior, Running, jobs
<1>6. QED
  BY <1>1, <1>2, <1>3, <1>4, <1>5 DEF CopiesAreBehind, StepsFollow, Earned, NotAhead, jobs

\* A Job that is created has its phase's Jobs behind it.
LEMMA ApplyInv ==
  ASSUME RehearsalInv, ApplyJob
  PROVE  (CopiesAreBehind /\ StepsFollow /\ JobsAreBehind /\ JobsInOrder)'
<1>1. \A p \in Running : \/ job'[p] = job[p]
                         \/ p = snap.phase /\ job[p] = "none" /\ job'[p] = "running"
  BY DEF ApplyJob, RehearsalInv, TypeOK
<1>2. /\ pc = "pass" /\ pc' = "look" /\ snap.phase \in Running /\ snap' = snap /\ st' = st
      /\ UNCHANGED <<obj, view, current, fresh, jobView, overdue>>
  BY DEF ApplyJob, GoTo, stored
<1>3. \A p : (Earned(p) => Earned(p)') /\ (NotAhead(p) => NotAhead(p)')
  BY <1>1, <1>2, JobsGoOn
<1>4. CopiesAreBehind' /\ StepsFollow'
  BY <1>2, <1>3 DEF RehearsalInv, CopiesAreBehind, StepsFollow, Earned, NotAhead
<1>5. JobsAreBehind'
  BY <1>1, <1>2 DEF RehearsalInv, JobsAreBehind
<1>6. JobsInOrder'
  <2>1. \A q \in Prior(snap.phase) : job[q] = "succeeded"
    <3>1. Before(snap.phase) = Prior(snap.phase)
      BY <1>2 DEF Before, Running
    <3>2. QED
      BY <3>1 DEF RehearsalInv, CopiesAreBehind, Earned
  <2>2. \A p \in Running : Prior(p) \subseteq Running
    BY DEF Prior, Running
  <2>3. \A q \in Running : job[q] = "succeeded" => job'[q] = "succeeded"
    BY <1>1
  <2>4. QED
    BY <1>1, <1>2, <2>1, <2>2, <2>3 DEF RehearsalInv, JobsInOrder
<1>7. QED
  BY <1>4, <1>5, <1>6

\* What the pass decides when it looks at the Job follows from how the Job ended.
LEMMA LookInv ==
  ASSUME RehearsalInv, LookAtJob
  PROVE  CopiesAreBehind' /\ StepsFollow'
<1> DEFINE p == snap.phase
<1>1. /\ pc = "look" /\ p \in Running /\ Earned(p)
      /\ UNCHANGED <<stored, jobs, overdue>>
  BY DEF LookAtJob, RehearsalInv, StepsFollow, CopiesAreBehind
<1>2. jobView[p] \in {"succeeded", "overran", "failed"} => job[p] = jobView[p]
  BY <1>1 DEF RehearsalInv, JobsAreBehind
<1>3. job[p] = "overran" => p = "Migrating"
  BY <1>1 DEF RehearsalInv, JobsAreBehind
<1>4. "none" \in Results /\ "requeue" \in Results /\ \A q : ResultAfter(q) \in Results
  BY DEF Results, ResultAfter
<1>5. CASE jobView[p] = "none"
  BY <1>1, <1>4, <1>5, ReturnInv DEF LookAtJob
<1>6. CASE jobView[p] = "running" /\ Finish(p, "none")
  <2>1. p \in Phases /\ Follows(p, p)
    BY <1>1 DEF Phases, Running, Follows
  <2>2. QED
    BY <1>1, <1>4, <1>6, <2>1, FinishInv
<1>7. CASE jobView[p] = "failed" /\ Finish("Failed", "none")
  <2>1. "Failed" \in Phases /\ Earned("Failed") /\ Follows(p, "Failed")
    BY <1>1, <1>2, <1>7 DEF Phases, Earned, Before, Running, Follows
  <2>2. QED
    BY <1>1, <1>4, <1>7, <2>1, FinishInv
<1>8. ASSUME NEW v \in {"succeeded", "overran"}, jobView[p] = v,
             Finish(Advance(p, v), ResultAfter(Advance(p, v)))
      PROVE  CopiesAreBehind' /\ StepsFollow'
  <2>1. job[p] = v
    BY <1>2, <1>8
  <2>2. Advance(p, v) \in Phases
    BY PhasesOf
  <2>3. Earned(Advance(p, v)) /\ Follows(p, Advance(p, v))
    BY <1>1, <1>3, <2>1 DEF Advance, Earned, Before, Prior, Running, Follows
  <2>4. QED
    BY <1>1, <1>4, <1>8, <2>2, <2>3, FinishInv
<1>9. QED
  BY <1>5, <1>6, <1>7, <1>8 DEF LookAtJob

LEMMA NextInv == RehearsalInv /\ [Next]_vars => RehearsalInv'
<1> SUFFICES ASSUME RehearsalInv, [Next]_vars
             PROVE  (CopiesAreBehind /\ StepsFollow /\ JobsAreBehind /\ JobsInOrder)'
  BY NextType DEF RehearsalInv
<1> USE DEF jobs
<1>0. ASSUME UNCHANGED <<job, jobView>> PROVE (JobsAreBehind /\ JobsInOrder)'
  BY <1>0 DEF RehearsalInv, JobsAreBehind, JobsInOrder
<1>r. "none" \in Results /\ "requeue" \in Results
  BY DEF Results
<1>1. CASE Read
  <2>1. /\ UNCHANGED <<obj, view, current, job, jobView, overdue>>
        /\ pc' = "pass" /\ snap' = view /\ st' = view /\ fresh' = current
    BY <1>1 DEF Read, BeginPass, stored
  <2>2. QED
    BY <1>0, <2>1 DEF RehearsalInv, CopiesAreBehind, StepsFollow, Earned, NotAhead
<1>2. CASE AlreadyOver \/ ApplyJobFails \/ WriteStatusFails
  <2>1. (\E r \in Results : Return(r)) /\ UNCHANGED <<stored, jobs, overdue>>
    BY <1>2, <1>r DEF AlreadyOver, ApplyJobFails, WriteStatusFails
  <2>2. QED
    BY <1>0, <2>1, ReturnInv
<1>3. CASE Start
  <2>1. /\ pc = "pass" /\ Finish("Restoring", "requeue") /\ UNCHANGED <<stored, jobs, overdue>>
        /\ snap.phase = "Pending"
    BY <1>3 DEF Start
  <2>2. "Restoring" \in Phases /\ Follows(snap.phase, "Restoring") /\ Earned("Restoring")
    BY <2>1 DEF Phases, Running, Follows, Earned, Before, Prior
  <2>3. QED
    BY <1>0, <1>r, <2>1, <2>2, FinishInv
<1>4. CASE TimeOut
  <2>1. /\ pc = "pass" /\ Finish("Failed", "none") /\ UNCHANGED <<stored, jobs, overdue>>
        /\ snap.phase \in Running /\ overdue
    BY <1>4 DEF TimeOut
  <2>2. "Failed" \in Phases /\ Follows(snap.phase, "Failed") /\ Earned("Failed")
    BY <2>1 DEF Phases, Running, Follows, Earned, Before
  <2>3. QED
    BY <1>0, <1>r, <2>1, <2>2, FinishInv
<1>5. CASE ApplyJob
  BY <1>5, ApplyInv
<1>6. CASE LookAtJob
  BY <1>0, <1>6, LookInv DEF LookAtJob
<1>7. CASE WriteStatus
  <2>1. pc = "finish" /\ UNCHANGED <<jobs, overdue>> /\ res \in Results
    BY <1>7 DEF WriteStatus, RehearsalInv, TypeOK
  <2>2. CASE fresh /\ Store([obj EXCEPT !.phase = st.phase], FALSE) /\ Return(res)
    BY <1>0, <2>1, <2>2, WriteInv
  <2>3. CASE (\E r \in Results : Return(r)) /\ UNCHANGED stored
    BY <1>0, <2>1, <2>3, ReturnInv
  <2>4. QED
    BY <1>7, <1>r, <2>1, <2>2, <2>3 DEF WriteStatus
<1>8. CASE DeliverObject
  <2>1. /\ UNCHANGED <<obj, pc, snap, st, fresh, job, jobView, overdue>>
        /\ view' = obj
    BY <1>8 DEF DeliverObject, Deliver, pass
  <2>2. NotAhead(obj.phase)
    BY DEF NotAhead, Running
  <2>3. QED
    BY <1>0, <2>1, <2>2 DEF RehearsalInv, CopiesAreBehind, StepsFollow, Earned, NotAhead, Follows
<1>9. ASSUME NEW p \in Running, DeliverJob(p) PROVE (CopiesAreBehind /\ StepsFollow)'
  BY <1>9 DEF DeliverJob, RehearsalInv, CopiesAreBehind, StepsFollow, Earned, NotAhead, Follows,
     stored, pass
<1>10. ASSUME NEW p \in Running, DeliverJob(p) PROVE (JobsAreBehind /\ JobsInOrder)'
  BY <1>10 DEF DeliverJob, RehearsalInv, JobsAreBehind, JobsInOrder, TypeOK
<1>11. ASSUME NEW p \in Running, EndJob(p) PROVE (CopiesAreBehind /\ StepsFollow)'
  <2>1. \A q \in Running : job'[q] = job[q] \/ (job[q] = "running" /\ job'[q] # "none")
    BY <1>11 DEF EndJob, RehearsalInv, TypeOK
  <2>2. UNCHANGED <<obj, view, current, pc, snap, st, fresh, overdue>>
    BY <1>11 DEF EndJob, runtime
  <2>3. \A q : (Earned(q) => Earned(q)') /\ (NotAhead(q) => NotAhead(q)')
    BY <2>1, <2>2, JobsGoOn
  <2>4. QED
    BY <2>1, <2>2, <2>3 DEF RehearsalInv, CopiesAreBehind, StepsFollow, Follows, Earned, NotAhead
<1>12. ASSUME NEW p \in Running, EndJob(p) PROVE (JobsAreBehind /\ JobsInOrder)'
  BY <1>12 DEF EndJob, RehearsalInv, JobsAreBehind, JobsInOrder, TypeOK, Prior, Running
<1>13. CASE TimePasses
  <2>1. UNCHANGED <<obj, view, current, pc, snap, st, fresh, job, jobView>> /\ overdue'
    BY <1>13 DEF TimePasses, runtime
  <2>2. \A q : (Earned(q) => Earned(q)') /\ (NotAhead(q) => NotAhead(q)')
    BY <2>1, JobsGoOn
  <2>3. QED
    BY <1>0, <2>1, <2>2
       DEF RehearsalInv, CopiesAreBehind, StepsFollow, Follows, Earned, NotAhead
<1>14. CASE Resync \/ UNCHANGED vars
  BY <1>0, <1>14 DEF Resync, vars, runtime, stored, pass, RehearsalInv, CopiesAreBehind, StepsFollow,
     Follows, Earned, NotAhead
<1>15. CASE Crash
  <2>1. /\ UNCHANGED <<obj, job, overdue>> /\ jobView' = job
        /\ view' = obj /\ snap' = obj /\ st' = obj /\ pc' = "idle"
    BY <1>15 DEF Crash, Restart
  <2>2. NotAhead(obj.phase)
    BY DEF NotAhead, Running
  <2>3. CopiesAreBehind' /\ StepsFollow'
    BY <2>1, <2>2 DEF RehearsalInv, CopiesAreBehind, StepsFollow, Earned, NotAhead
  <2>4. JobsAreBehind' /\ JobsInOrder'
    BY <2>1 DEF RehearsalInv, JobsAreBehind, JobsInOrder
  <2>5. QED
    BY <2>3, <2>4
<1>16. CASE Edit
  <2>1. /\ UNCHANGED <<view, pc, snap, st, job, jobView, overdue>>
        /\ obj'.phase = obj.phase /\ current' = FALSE /\ fresh' = FALSE
    BY <1>16 DEF Edit, Store, RehearsalInv, TypeOK, Objects
  <2>2. QED
    BY <1>0, <2>1 DEF RehearsalInv, CopiesAreBehind, StepsFollow, Follows, Earned, NotAhead
<1>17. QED
  BY <1>1, <1>2, <1>3, <1>4, <1>5, <1>6, <1>7, <1>8, <1>9, <1>10, <1>11, <1>12, <1>13,
     <1>14, <1>15, <1>16, Zenon DEF Next, Worker, Others

LEMMA AlwaysInv == Spec => []RehearsalInv
BY InitInv, NextInv, PTL DEF Spec

------------------------------------------------------------------------------
(* What makes the result evidence.                                         *)

\* Every variable stays in its type, and a phase in what the API declares.
THEOREM TypeCorrect == Spec => []TypeOK
<1>1. RehearsalInv => TypeOK
  BY DEF RehearsalInv
<1>2. QED
  BY AlwaysInv, <1>1, PTL

\* A Job runs only on a database that the phases before it have prepared, whichever
\* phase the pass that creates it has read.
THEOREM JobsRunInOrder == Spec => []JobsInOrder
<1>1. RehearsalInv => JobsInOrder
  BY DEF RehearsalInv
<1>2. QED
  BY AlwaysInv, <1>1, PTL

\* A rehearsal reads Succeeded only when its Jobs did, the migration within the budget.
THEOREM SuccessMeansSuccess == Spec => []SuccessIsEarned
<1>1. RehearsalInv => SuccessIsEarned
  BY DEF RehearsalInv, CopiesAreBehind, Earned, Before, Running, SuccessIsEarned
<1>2. QED
  BY AlwaysInv, <1>1, PTL

\* A result is never changed, and a pass that has read an older phase creates no Job
\* after it.
THEOREM ResultIsFinal == Spec => ResultIsKept
<1>1. ASSUME RehearsalInv, [Next]_vars, Terminal(obj.phase)
      PROVE  obj'.phase = obj.phase
  <2> USE DEF stored, queue, pass, jobs
  <2>1. CASE UNCHANGED obj
    BY <2>1
  <2>2. CASE WriteStatus
    <3>1. fresh => FALSE
      BY <1>1, <2>2 DEF WriteStatus, RehearsalInv, CopiesAreBehind, StepsFollow, Follows, Terminal,
         Running
    <3>2. QED
      BY <2>2, <3>1 DEF WriteStatus
  <2>3. CASE Edit
    BY <1>1, <2>3 DEF Edit, Store, RehearsalInv, TypeOK, Objects
  <2>4. QED
    BY <1>1, <2>1, <2>2, <2>3, Zenon
       DEF Next, Worker, Others, Read, BeginPass, AlreadyOver, Start, TimeOut, ApplyJob,
           ApplyJobFails, LookAtJob, WriteStatusFails, DeliverObject, Deliver, DeliverJob, EndJob,
           TimePasses, Resync, Crash, Restart, vars, runtime
<1>2. ASSUME RehearsalInv, [Next]_vars, Terminal(obj.phase), NEW p \in Running, job[p] = "none"
      PROVE  job'[p] = "none"
  <2> USE DEF stored, queue, pass, jobs
  <2>1. CASE UNCHANGED job
    BY <1>2, <2>1
  <2>2. CASE ApplyJob
    <3>1. NotAhead(snap.phase) /\ Earned(obj.phase)
      BY <1>2 DEF RehearsalInv, CopiesAreBehind
    <3>2. job[snap.phase] # "none"
      BY <1>2, <2>2, <3>1 DEF ApplyJob, NotAhead, Earned, Before, Terminal, Running
    <3>3. QED
      BY <1>2, <2>2, <3>2 DEF ApplyJob
  <2>3. ASSUME NEW q \in Running, EndJob(q) PROVE job'[p] = "none"
    BY <1>2, <2>3 DEF EndJob, RehearsalInv, TypeOK
  <2>4. QED
    BY <1>2, <2>1, <2>2, <2>3, Zenon
       DEF Next, Worker, Others, Read, AlreadyOver, Start, TimeOut, ApplyJobFails, LookAtJob,
           WriteStatus, WriteStatusFails, DeliverObject, DeliverJob, TimePasses, Resync, Edit, Crash,
           vars
<1>3. RehearsalInv /\ [Next]_vars =>
        [Terminal(obj.phase) => /\ obj'.phase = obj.phase
                                /\ \A p \in Running : job[p] = "none" => job'[p] = "none"]_vars
  BY <1>1, <1>2
<1>4. QED
  BY AlwaysInv, <1>3, PTL DEF Spec, ResultIsKept

==============================================================================
