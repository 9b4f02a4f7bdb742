--------------------------- MODULE FinalizerProofs ---------------------------
(***************************************************************************)
(* Proofs about the finalizer's component of Operator, for every number of *)
(* environments of one name and of failed calls.                           *)
(***************************************************************************)
EXTENDS Operator, TLAPS

------------------------------------------------------------------------------
(* EnvironmentFinalizer: how an environment goes.                          *)

\* The steps at which a pass deletes.
Deleting == {"get", "clean", "update"}

\* A pass that is fresh works on the object as it is, and a current cache shows it.
SeenAsIs ==
  /\ F_current => F_view = F_obj
  /\ F_pc # "idle" /\ F_fresh => F_snap = F_obj
  /\ F_pc \in Deleting => F_snap.exists /\ F_snap.deleting
  /\ F_pc = "get" \/ F_pc = "clean" => ~F_snap.live

\* A copy of the object: of the one there is, or of an earlier one of the name.
IsCopy(c) ==
  /\ c.life <= F_obj.life
  /\ c.life = F_obj.life => c.live = F_obj.live /\ (c.deleting => F_obj.deleting)

CopiesAreOld == IsCopy(F_view) /\ (F_pc # "idle" => IsCopy(F_snap))

\* A Job that is not stray is of the deletion in progress, and a pass that may still
\* release the object has deleted it.
JobIsOfADeletion ==
  F_drop # "none" /\ ~F_stray =>
    /\ F_obj.exists /\ F_obj.deleting /\ ~F_obj.live
    /\ ~(F_pc = "update" /\ F_fresh)

\* The first environment of the name, undisturbed: no call failed, nobody else wrote it,
\* and the deadline has not passed.
FirstLife == F_obj.exists /\ F_obj.life = 1 /\ F_failures = 0 /\ F_touches = 0 /\ ~F_late

\* Of the object: it changes by its deletion only, so an old copy differs in that alone.
FirstCopies ==
  /\ F_view = F_obj \/ (F_obj.deleting /\ F_view = [F_obj EXCEPT !.deleting = FALSE])
  /\ F_pc # "idle" => F_snap = F_obj \/ (F_obj.deleting /\ F_snap = [F_obj EXCEPT !.deleting = FALSE])
  /\ F_view.deleting => F_current
  /\ F_pc # "idle" /\ F_snap.deleting => F_fresh

\* Of the Job: it is there from the first pass that deletes to the one that releases, and
\* the pass that deletes it has seen it finished.
FirstJob ==
  /\ ~F_obj.deleting \/ F_obj.live => F_drop = "none" /\ F_dropView = "none"
  /\ F_drop # "running" => F_dropper = 0
  /\ F_orphans = {}
  /\ F_dropView = "finished" => F_drop = "finished" \/ F_pc = "update"
  /\ F_pc = "clean" => F_drop = "finished"
  /\ F_pc = "update" => F_drop = "none"

FirstLifeInv == FirstLife => FirstCopies /\ FirstJob

FinalInv == Final!TypeOK /\ SeenAsIs /\ CopiesAreOld /\ JobIsOfADeletion /\ FirstLifeInv

------------------------------------------------------------------------------

LEMMA Bounds ==
  /\ F_MaxLives \in Nat \ {0} /\ F_MaxFailures \in Nat /\ F_MaxTouches \in Nat
  /\ 0 \in 0..F_MaxLives
  /\ Final!Lives \subseteq 0..F_MaxLives
  /\ Final!Lives \subseteq Nat \ {0}
BY FinalAssumption DEF Final!FinalizerAssumption, Final!Lives

LEMMA InitFinal == Final!Init => FinalInv
<1> SUFFICES ASSUME Final!Init PROVE FinalInv
  OBVIOUS
<1>0. Final!Blank \in Final!Objects /\ \A l \in BOOLEAN : Final!Born(1, l) \in Final!Objects
  BY Bounds DEF Final!Blank, Final!Born, Final!Objects, Final!Lives
<1>1. Final!TypeOK
  <2>1. F_obj \in Final!Objects /\ F_view \in Final!Objects /\ F_snap \in Final!Objects /\ F_st \in Final!Objects
    BY <1>0 DEF Final!Init
  <2>2. F_failures \in 0..F_MaxFailures /\ F_touches \in 0..F_MaxTouches
    BY Bounds DEF Final!Init
  <2>3. QED
    BY <2>1, <2>2, Bounds DEF Final!Init, Final!TypeOK, Final!Results
<1>2. F_obj = F_view /\ F_obj.exists /\ ~F_obj.deleting
  BY DEF Final!Init, Final!Born
<1>3. SeenAsIs /\ CopiesAreOld /\ JobIsOfADeletion
  <2>1. F_obj.life = 1
    BY DEF Final!Init, Final!Born
  <2>2. QED
    BY <1>2, <2>1 DEF Final!Init, SeenAsIs, CopiesAreOld, IsCopy, JobIsOfADeletion, Deleting
<1>4. FirstLifeInv
  BY <1>2 DEF Final!Init, FirstLifeInv, FirstCopies, FirstJob
<1>5. QED
  BY <1>1, <1>3, <1>4 DEF FinalInv

\* What the object becomes is an object again.
LEMMA ObjectsStay ==
  ASSUME NEW o \in Final!Objects
  PROVE  /\ [o EXCEPT !.exists = FALSE] \in Final!Objects
         /\ [o EXCEPT !.deleting = TRUE] \in Final!Objects
         /\ o.life < F_MaxLives => \A l \in BOOLEAN : Final!Born(o.life + 1, l) \in Final!Objects
         /\ o.life \in Final!Lives /\ o.life \in Nat \ {0} /\ Final!Blank \in Final!Objects
<1>1. [o EXCEPT !.exists = FALSE] \in Final!Objects /\ [o EXCEPT !.deleting = TRUE] \in Final!Objects
  BY DEF Final!Objects
<1>2. o.life \in Final!Lives /\ o.life \in Nat \ {0}
  BY Bounds DEF Final!Objects
<1>3. o.life < F_MaxLives => o.life + 1 \in Final!Lives
  BY <1>2, Bounds DEF Final!Lives
<1>4. Final!Blank \in Final!Objects
  BY Bounds DEF Final!Objects, Final!Blank, Final!Lives
<1>5. QED
  BY <1>1, <1>2, <1>3, <1>4 DEF Final!Objects, Final!Born

LEMMA NextTypes == Final!TypeOK /\ [Final!Next]_(Final!vars) => Final!TypeOK'
<1> SUFFICES ASSUME Final!TypeOK, [Final!Next]_(Final!vars) PROVE Final!TypeOK'
  OBVIOUS
<1> USE ObjectsStay, Bounds DEF Final!TypeOK, Final!Results
<1>1. CASE Final!Read
  BY <1>1 DEF Final!Read, Final!BeginPass, Final!cluster, Final!counts, Final!stored
<1>2. CASE Final!NotDeleting
  BY <1>2 DEF Final!NotDeleting, Final!Return, Final!EndPass, Final!stored, Final!cluster,
     Final!counts
<1>3. CASE Final!FinalizeLive
  BY <1>3 DEF Final!FinalizeLive, Final!Then, Final!GoTo, Final!stored, Final!queue,
     Final!cluster, Final!counts
<1>4. CASE Final!ApplyDrop
  <2>1. F_snap.life \in 0..F_MaxLives
    OBVIOUS
  <2>2. QED
    BY <1>4, <2>1 DEF Final!ApplyDrop, Final!Then, Final!GoTo, Final!stored, Final!queue,
       Final!counts
<1>5. CASE Final!ApplyDropFails
  BY <1>5 DEF Final!ApplyDropFails, Final!Fails, Final!Then, Final!GoTo, Final!stored,
     Final!queue, Final!cluster
<1>6. CASE Final!GetDrop
  BY <1>6 DEF Final!GetDrop, Final!Then, Final!Return, Final!GoTo, Final!EndPass,
     Final!stored, Final!queue, Final!cluster, Final!counts
<1>7. CASE Final!CleanDrop
  <2>1. {F_dropper} \ {0} \subseteq Final!Lives
    BY DEF Final!Lives
  <2>2. F_failures' \in 0..F_MaxFailures /\ F_touches' \in 0..F_MaxTouches
    BY <1>7 DEF Final!CleanDrop, Final!Fails, Final!counts
  <2>3. QED
    BY <1>7, <2>1, <2>2 DEF Final!CleanDrop, Final!Then, Final!Return, Final!GoTo,
       Final!EndPass, Final!stored, Final!queue, Final!counts
<1>8. CASE Final!Release
  BY <1>8 DEF Final!Release, Final!Store, Final!Return, Final!EndPass, Final!stored,
     Final!cluster, Final!counts
<1>9. CASE Final!ReleaseFails
  <2>1. F_failures' \in 0..F_MaxFailures /\ F_touches' \in 0..F_MaxTouches
    BY <1>9 DEF Final!ReleaseFails, Final!Fails
  <2>2. QED
    BY <1>9, <2>1 DEF Final!ReleaseFails, Final!Return, Final!EndPass, Final!stored,
       Final!cluster
<1>10. CASE Final!DeliverObject
  BY <1>10 DEF Final!DeliverObject, Final!Deliver, Final!pass, Final!cluster, Final!counts
<1>11. CASE Final!DeliverDrop
  BY <1>11 DEF Final!DeliverDrop, Final!runtime, Final!counts
<1>12. CASE Final!DropRuns \/ Final!DropIsRefused \/ Final!PodIsKilled
  BY <1>12 DEF Final!DropRuns, Final!DropIsRefused, Final!PodIsKilled, Final!PodEnds,
     Final!runtime, Final!counts
<1>13. CASE Final!Provision \/ Final!Connect
  <2>1. F_obj.life \in 0..F_MaxLives
    OBVIOUS
  <2>2. QED
    BY <1>13, <2>1 DEF Final!Provision, Final!Connect, Final!runtime, Final!counts
<1>14. CASE Final!CollectGarbage
  BY <1>14 DEF Final!CollectGarbage, Final!stored, Final!pass, Final!counts
<1>15. CASE Final!TimerExpires
  BY <1>15 DEF Final!TimerExpires, Final!TimerFires, Final!stored, Final!pass,
     Final!cluster, Final!counts
<1>16. CASE Final!DeadlinePasses
  BY <1>16 DEF Final!DeadlinePasses, Final!runtime, Final!counts
<1>17. CASE Final!Crash
  BY <1>17 DEF Final!Crash, Final!Restart, Final!counts
<1>18. CASE Final!Delete
  BY <1>18 DEF Final!Delete, Final!Store, Final!queue, Final!cluster, Final!counts
<1>19. CASE Final!Recreate
  BY <1>19 DEF Final!Recreate, Final!Store, Final!queue, Final!counts
<1>20. CASE Final!Touch
  <2>1. F_failures' \in 0..F_MaxFailures /\ F_touches' \in 0..F_MaxTouches
    BY <1>20 DEF Final!Touch
  <2>2. QED
    BY <1>20, <2>1 DEF Final!Touch, Final!Store, Final!queue, Final!cluster
<1>21. CASE Final!UnrelatedEvent
  BY <1>21 DEF Final!UnrelatedEvent, Final!stored, Final!pass, Final!cluster, Final!counts
<1>22. CASE UNCHANGED Final!vars
  BY <1>22 DEF Final!vars, Final!runtime, Final!cluster, Final!counts
<1>23. QED
  BY <1>1, <1>2, <1>3, <1>4, <1>5, <1>6, <1>7, <1>8, <1>9, <1>10, <1>11, <1>12, <1>13,
     <1>14, <1>15, <1>16, <1>17, <1>18, <1>19, <1>20, <1>21, <1>22
     DEF Final!Next, Final!Worker, Final!Others
LEMMA NextSeen == Final!TypeOK /\ SeenAsIs /\ [Final!Next]_(Final!vars) => SeenAsIs'
<1> SUFFICES ASSUME Final!TypeOK, SeenAsIs, [Final!Next]_(Final!vars) PROVE SeenAsIs'
  OBVIOUS
<1> USE DEF SeenAsIs, Deleting
<1>1. CASE Final!Read
  BY <1>1 DEF Final!Read, Final!BeginPass, Final!stored
<1>2. CASE Final!NotDeleting
  BY <1>2 DEF Final!NotDeleting, Final!Return, Final!EndPass, Final!stored
<1>3. CASE Final!FinalizeLive
  BY <1>3 DEF Final!FinalizeLive, Final!Then, Final!GoTo, Final!stored
<1>4. CASE Final!ApplyDrop
  BY <1>4 DEF Final!ApplyDrop, Final!Then, Final!GoTo, Final!stored
<1>5. CASE Final!ApplyDropFails
  BY <1>5 DEF Final!ApplyDropFails, Final!Then, Final!GoTo, Final!stored
<1>6. CASE Final!GetDrop
  BY <1>6 DEF Final!GetDrop, Final!Then, Final!Return, Final!GoTo, Final!EndPass,
     Final!stored
<1>7. CASE Final!CleanDrop
  BY <1>7 DEF Final!CleanDrop, Final!Then, Final!Return, Final!GoTo, Final!EndPass,
     Final!stored
<1>8. CASE Final!Release
  BY <1>8 DEF Final!Release, Final!Store, Final!Return, Final!EndPass, Final!stored
<1>9. CASE Final!ReleaseFails
  BY <1>9 DEF Final!ReleaseFails, Final!Return, Final!EndPass, Final!stored
<1>10. CASE Final!DeliverObject
  BY <1>10 DEF Final!DeliverObject, Final!Deliver, Final!pass
<1>11. CASE \/ Final!DeliverDrop \/ Final!DropRuns \/ Final!DropIsRefused \/ Final!PodIsKilled \/ Final!Provision \/ Final!Connect
             \/ Final!CollectGarbage \/ Final!TimerExpires \/ Final!DeadlinePasses \/ Final!UnrelatedEvent
             \/ UNCHANGED Final!vars
  <2>1. UNCHANGED <<Final!stored, Final!pass>>
    BY <1>11 DEF Final!DeliverDrop, Final!DropRuns, Final!DropIsRefused, Final!PodIsKilled,
       Final!Provision, Final!Connect,
                 Final!CollectGarbage, Final!TimerExpires, Final!TimerFires, Final!DeadlinePasses, Final!UnrelatedEvent,
                 Final!vars, Final!runtime, Final!stored, Final!pass
  <2>2. QED
    BY <2>1 DEF Final!stored, Final!pass
<1>12. CASE Final!Crash
  BY <1>12 DEF Final!Crash, Final!Restart
<1>13. CASE Final!Delete \/ Final!Recreate \/ Final!Touch
  BY <1>13 DEF Final!Delete, Final!Recreate, Final!Touch, Final!Store
<1>14. QED
  BY <1>1, <1>2, <1>3, <1>4, <1>5, <1>6, <1>7, <1>8, <1>9, <1>10, <1>11, <1>12, <1>13
     DEF Final!Next, Final!Worker, Final!Others

\* Failures are only ever counted up.
LEMMA FailuresStay == Final!TypeOK /\ [Final!Next]_(Final!vars) /\ F_failures' = 0 => F_failures = 0
<1> SUFFICES ASSUME Final!TypeOK, [Final!Next]_(Final!vars), F_failures' # F_failures PROVE F_failures' # 0
  OBVIOUS
<1>1. Final!Fails
  BY DEF Final!Next, Final!Worker, Final!Others, Final!Read, Final!NotDeleting,
     Final!FinalizeLive, Final!ApplyDrop, Final!ApplyDropFails,
         Final!GetDrop, Final!CleanDrop, Final!Release, Final!ReleaseFails, Final!DeliverObject, Final!DeliverDrop, Final!DropRuns,
         Final!DropIsRefused, Final!PodIsKilled, Final!Provision, Final!Connect, Final!CollectGarbage, Final!TimerExpires,
         Final!DeadlinePasses, Final!Crash, Final!Delete, Final!Recreate, Final!Touch, Final!UnrelatedEvent, Final!vars, Final!counts
<1>2. QED
  BY <1>1, Bounds DEF Final!Fails, Final!TypeOK

\* Copies stay copies: the object changes by its deletion, its release and its successor.
LEMMA NextOld == Final!TypeOK /\ CopiesAreOld /\ [Final!Next]_(Final!vars) => CopiesAreOld'
<1> SUFFICES ASSUME Final!TypeOK, CopiesAreOld, [Final!Next]_(Final!vars) PROVE CopiesAreOld'
  OBVIOUS
<1>1. \/ F_obj' = F_obj
      \/ F_obj' = [F_obj EXCEPT !.exists = FALSE]
      \/ F_obj' = [F_obj EXCEPT !.deleting = TRUE]
      \/ \E l \in BOOLEAN : F_obj' = Final!Born(F_obj.life + 1, l)
  BY DEF Final!Next, Final!Worker, Final!Others, Final!Read, Final!BeginPass,
     Final!NotDeleting, Final!FinalizeLive, Final!ApplyDrop,
         Final!ApplyDropFails, Final!GetDrop, Final!CleanDrop, Final!Release, Final!ReleaseFails, Final!DeliverObject, Final!Deliver,
         Final!DeliverDrop, Final!DropRuns, Final!DropIsRefused, Final!PodIsKilled, Final!Provision, Final!Connect,
         Final!CollectGarbage, Final!TimerExpires, Final!TimerFires, Final!DeadlinePasses, Final!Crash, Final!Restart, Final!Delete,
         Final!Recreate, Final!Touch, Final!Store, Final!UnrelatedEvent, Final!vars, Final!runtime, Final!stored
<1>2. ASSUME NEW c \in Final!Objects, IsCopy(c)
      PROVE  IsCopy(c)'
  <2>1. c.life \in Nat /\ F_obj.life \in Nat
    BY ObjectsStay DEF Final!TypeOK
  <2>2. CASE \E l \in BOOLEAN : F_obj' = Final!Born(F_obj.life + 1, l)
    <3>1. F_obj'.life = F_obj.life + 1
      BY <2>2 DEF Final!Born
    <3>2. QED
      BY <1>2, <2>1, <3>1 DEF IsCopy
  <2>3. CASE ~\E l \in BOOLEAN : F_obj' = Final!Born(F_obj.life + 1, l)
    <3>1. F_obj'.life = F_obj.life /\ F_obj'.live = F_obj.live /\ (F_obj.deleting => F_obj'.deleting)
      BY <1>1, <2>3 DEF Final!TypeOK, Final!Objects
    <3>2. QED
      BY <1>2, <3>1 DEF IsCopy
  <2>4. QED
    BY <2>2, <2>3
<1>3. \/ F_view' = F_view
      \/ F_view' = F_obj /\ F_obj' = F_obj
  BY DEF Final!Next, Final!Worker, Final!Others, Final!Read, Final!BeginPass,
     Final!NotDeleting, Final!FinalizeLive, Final!ApplyDrop,
         Final!ApplyDropFails, Final!GetDrop, Final!CleanDrop, Final!Release, Final!ReleaseFails, Final!DeliverObject, Final!Deliver,
         Final!DeliverDrop, Final!DropRuns, Final!DropIsRefused, Final!PodIsKilled, Final!Provision, Final!Connect,
         Final!CollectGarbage, Final!TimerExpires, Final!TimerFires, Final!DeadlinePasses, Final!Crash, Final!Restart, Final!Delete,
         Final!Recreate, Final!Touch, Final!Store, Final!UnrelatedEvent, Final!vars, Final!runtime, Final!stored
<1>4. \/ F_pc' = "idle"
      \/ F_pc # "idle" /\ F_snap' = F_snap
      \/ F_snap' = F_view
  BY DEF Final!Next, Final!Worker, Final!Others, Final!Read, Final!BeginPass,
     Final!NotDeleting, Final!FinalizeLive, Final!ApplyDrop,
         Final!ApplyDropFails, Final!GetDrop, Final!CleanDrop, Final!Release, Final!ReleaseFails, Final!Return, Final!EndPass, Final!Then,
         Final!GoTo, Final!DeliverObject, Final!Deliver, Final!DeliverDrop, Final!DropRuns, Final!DropIsRefused, Final!PodIsKilled,
         Final!Provision, Final!Connect, Final!CollectGarbage, Final!TimerExpires, Final!TimerFires, Final!DeadlinePasses, Final!Crash,
         Final!Restart, Final!Delete, Final!Recreate, Final!Touch, Final!Store, Final!UnrelatedEvent, Final!vars, Final!runtime, Final!pass
<1>5. IsCopy(F_view)'
  <2>1. CASE F_view' = F_view
    BY <1>2, <2>1 DEF CopiesAreOld, Final!TypeOK, IsCopy
  <2>2. CASE F_view' = F_obj /\ F_obj' = F_obj
    <3>1. F_obj.life \in Nat
      BY ObjectsStay DEF Final!TypeOK
    <3>2. QED
      BY <2>2, <3>1 DEF IsCopy
  <2>3. QED
    BY <1>3, <2>1, <2>2
<1>6. F_pc' # "idle" => IsCopy(F_snap)'
  <2>1. CASE F_pc # "idle" /\ F_snap' = F_snap
    BY <1>2, <2>1 DEF CopiesAreOld, Final!TypeOK, IsCopy
  <2>2. CASE F_snap' = F_view
    BY <1>2, <2>2 DEF CopiesAreOld, Final!TypeOK, IsCopy
  <2>3. QED
    BY <1>4, <2>1, <2>2
<1>7. QED
  BY <1>5, <1>6 DEF CopiesAreOld

LEMMA NextOfADeletion ==
  Final!TypeOK /\ SeenAsIs /\ CopiesAreOld /\ JobIsOfADeletion /\ [Final!Next]_(Final!vars) => JobIsOfADeletion'
<1> SUFFICES ASSUME Final!TypeOK, SeenAsIs, CopiesAreOld, JobIsOfADeletion, [Final!Next]_(Final!vars),
                    F_drop' # "none", ~F_stray'
             PROVE  /\ F_obj'.exists /\ F_obj'.deleting /\ ~F_obj'.live
                    /\ ~(F_pc' = "update" /\ F_fresh')
  BY DEF JobIsOfADeletion
<1> USE DEF JobIsOfADeletion
<1>1. CASE Final!Read \/ Final!NotDeleting \/ Final!GetDrop
  BY <1>1 DEF Final!Read, Final!BeginPass, Final!NotDeleting, Final!GetDrop, Final!Return,
     Final!EndPass, Final!Then, Final!GoTo, Final!stored,
              Final!cluster
<1>2. CASE Final!FinalizeLive
  <2>1. UNCHANGED <<F_obj, F_drop, F_stray>> /\ F_fresh' = F_fresh /\ F_snap.live /\ F_pc = "pass"
    BY <1>2 DEF Final!FinalizeLive, Final!Then, Final!stored, Final!cluster
  <2>2. F_fresh => F_obj.live
    BY <2>1 DEF SeenAsIs
  <2>3. QED
    BY <2>1, <2>2
<1>3. CASE Final!ApplyDrop
  <2>1. UNCHANGED F_obj /\ F_pc' = "get"
    BY <1>3 DEF Final!ApplyDrop, Final!Then, Final!GoTo, Final!stored
  <2>2. CASE F_drop # "none"
    BY <1>3, <2>1, <2>2 DEF Final!ApplyDrop
  <2>3. CASE F_drop = "none"
    <3>1. F_obj.exists /\ F_obj.life = F_snap.life
      BY <1>3, <2>3 DEF Final!ApplyDrop
    <3>2. IsCopy(F_snap) /\ F_snap.deleting /\ ~F_snap.live
      BY <1>3 DEF Final!ApplyDrop, CopiesAreOld
    <3>3. QED
      BY <2>1, <3>1, <3>2 DEF IsCopy
  <2>4. QED
    BY <2>2, <2>3
<1>4. CASE Final!ApplyDropFails
  BY <1>4 DEF Final!ApplyDropFails
<1>5. CASE Final!CleanDrop
  <2>1. UNCHANGED <<F_obj, F_drop, F_stray>> /\ F_pc' = "idle"
    BY <1>5 DEF Final!CleanDrop, Final!Return, Final!EndPass, Final!stored
  <2>2. QED
    BY <2>1
<1>6. CASE Final!Release
  BY <1>6 DEF Final!Release, Final!Return, Final!EndPass, Final!cluster, Final!stored
<1>7. CASE Final!ReleaseFails \/ Final!Crash
  BY <1>7 DEF Final!ReleaseFails, Final!Crash, Final!Restart, Final!Return, Final!EndPass,
     Final!stored, Final!cluster
<1>8. CASE Final!DropRuns \/ Final!DropIsRefused \/ Final!PodIsKilled
  <2>1. UNCHANGED <<F_obj, F_pc, F_fresh, F_stray>> /\ F_drop # "none"
    BY <1>8 DEF Final!DropRuns, Final!DropIsRefused, Final!PodIsKilled, Final!PodEnds,
       Final!runtime
  <2>2. QED
    BY <2>1
<1>9. CASE Final!Recreate
  <2>1. ~F_obj.exists /\ UNCHANGED <<F_drop, F_stray>>
    BY <1>9 DEF Final!Recreate
  <2>2. QED
    BY <2>1
<1>10. CASE Final!Delete \/ Final!Touch
  <2>1. UNCHANGED <<F_drop, F_stray>> /\ F_fresh' = FALSE
    BY <1>10 DEF Final!Delete, Final!Touch, Final!Store, Final!cluster
  <2>2. F_obj' = F_obj \/ F_obj' = [F_obj EXCEPT !.deleting = TRUE]
    BY <1>10 DEF Final!Delete, Final!Touch, Final!Store
  <2>3. QED
    BY <2>1, <2>2 DEF Final!TypeOK, Final!Objects
<1>11. CASE \/ Final!DeliverObject \/ Final!DeliverDrop \/ Final!Provision \/ Final!Connect \/ Final!CollectGarbage
            \/ Final!TimerExpires \/ Final!DeadlinePasses \/ Final!UnrelatedEvent \/ UNCHANGED Final!vars
  <2>1. UNCHANGED <<F_obj, F_pc, F_fresh, F_drop, F_stray>>
    BY <1>11 DEF Final!DeliverObject, Final!Deliver, Final!DeliverDrop, Final!Provision,
       Final!Connect, Final!CollectGarbage,
                 Final!TimerExpires, Final!TimerFires, Final!DeadlinePasses, Final!UnrelatedEvent, Final!vars, Final!runtime,
                 Final!cluster, Final!stored, Final!pass
  <2>2. QED
    BY <2>1
<1>12. QED
  BY <1>1, <1>2, <1>3, <1>4, <1>5, <1>6, <1>7, <1>8, <1>9, <1>10, <1>11
     DEF Final!Next, Final!Worker, Final!Others

------------------------------------------------------------------------------
\* The first life, undisturbed, has been undisturbed all along.
LEMMA FirstLifeWas ==
  ASSUME Final!TypeOK, [Final!Next]_(Final!vars), FirstLife'
  PROVE  FirstLife /\ F_obj'.live = F_obj.live /\ (F_obj' = F_obj \/ Final!Delete)
<1>1. F_failures = 0
  BY FailuresStay DEF FirstLife
<1>2. ~Final!Fails /\ ~Final!Touch
  <2>1. F_failures' # F_failures + 1 /\ F_touches' # F_touches + 1
    BY <1>1, Bounds DEF FirstLife, Final!TypeOK
  <2>2. QED
    BY <2>1 DEF Final!Fails, Final!Touch
<1>3. ~Final!Recreate
  <2>1. ASSUME Final!Recreate PROVE F_obj'.life = F_obj.life + 1
    BY <2>1 DEF Final!Recreate, Final!Store, Final!Born
  <2>2. F_obj.life \in Nat \ {0}
    BY ObjectsStay DEF Final!TypeOK
  <2>3. QED
    BY <2>1, <2>2 DEF FirstLife
<1>4. F_touches = 0
  BY <1>2 DEF FirstLife, Final!Next, Final!Worker, Final!Others, Final!Read,
     Final!NotDeleting, Final!FinalizeLive, Final!ApplyDrop,
              Final!ApplyDropFails, Final!GetDrop, Final!CleanDrop, Final!Release, Final!ReleaseFails, Final!DeliverObject,
              Final!DeliverDrop, Final!DropRuns, Final!DropIsRefused, Final!PodIsKilled, Final!Provision, Final!Connect,
              Final!CollectGarbage, Final!TimerExpires, Final!DeadlinePasses, Final!Crash, Final!Delete, Final!Recreate,
              Final!UnrelatedEvent, Final!vars, Final!counts
<1>5. ~F_late
  BY <1>2, <1>3 DEF FirstLife, Final!Next, Final!Worker, Final!Others, Final!Read,
     Final!NotDeleting, Final!FinalizeLive, Final!ApplyDrop,
              Final!ApplyDropFails, Final!GetDrop, Final!CleanDrop, Final!Release, Final!ReleaseFails, Final!DeliverObject,
              Final!DeliverDrop, Final!DropRuns, Final!DropIsRefused, Final!PodIsKilled, Final!Provision, Final!Connect,
              Final!CollectGarbage, Final!TimerExpires, Final!DeadlinePasses, Final!Crash, Final!Delete,
              Final!UnrelatedEvent, Final!vars, Final!cluster
<1>6. F_obj' = F_obj \/ Final!Delete
  <2>1. ASSUME Final!Release PROVE F_obj' = F_obj
    BY <2>1 DEF Final!Release, Final!Store, Final!stored, FirstLife, Final!TypeOK,
       Final!Objects
  <2>2. QED
    BY <1>2, <1>3, <2>1 DEF Final!Next, Final!Worker, Final!Others, Final!Read,
       Final!BeginPass, Final!NotDeleting, Final!FinalizeLive,
              Final!ApplyDrop, Final!ApplyDropFails, Final!GetDrop, Final!CleanDrop, Final!ReleaseFails, Final!DeliverObject,
              Final!Deliver, Final!DeliverDrop, Final!DropRuns, Final!DropIsRefused, Final!PodIsKilled, Final!Provision, Final!Connect,
              Final!CollectGarbage, Final!TimerExpires, Final!TimerFires, Final!DeadlinePasses, Final!Crash, Final!Restart,
              Final!UnrelatedEvent, Final!vars, Final!runtime, Final!stored
<1>7. CASE F_obj' = F_obj
  BY <1>1, <1>4, <1>5, <1>7 DEF FirstLife
<1>8. CASE Final!Delete
  <2>1. F_obj' = [F_obj EXCEPT !.deleting = TRUE]
    BY <1>8 DEF Final!Delete, Final!Store
  <2>2. F_obj'.exists = F_obj.exists /\ F_obj'.life = F_obj.life /\ F_obj'.live = F_obj.live
    BY <2>1 DEF Final!TypeOK, Final!Objects
  <2>3. QED
    BY <1>1, <1>4, <1>5, <1>8, <2>2 DEF FirstLife
<1>9. QED
  BY <1>6, <1>7, <1>8

\* No copy of the first object is older than its deletion.
LEMMA NextCopies ==
  ASSUME Final!TypeOK, SeenAsIs, FirstLife, FirstCopies, [Final!Next]_(Final!vars), FirstLife'
  PROVE  FirstCopies'
<1>0. F_obj' = F_obj \/ Final!Delete
  BY FirstLifeWas
<1> USE DEF FirstCopies
<1>1. CASE Final!Delete
  <2>1. F_obj' = [F_obj EXCEPT !.deleting = TRUE] /\ F_obj.deleting = FALSE
    BY <1>1 DEF Final!Delete, Final!Store, Final!TypeOK, Final!Objects
  <2>2. F_obj'.deleting /\ F_obj = [F_obj' EXCEPT !.deleting = FALSE]
    BY <2>1 DEF Final!TypeOK, Final!Objects
  <2>3. F_view = F_obj /\ (F_pc # "idle" => F_snap = F_obj)
    BY <2>1
  <2>4. UNCHANGED <<F_view, F_snap, F_pc>>
    BY <1>1 DEF Final!Delete, Final!Store
  <2>5. QED
    BY <2>1, <2>2, <2>3, <2>4
<1>2. CASE F_obj' = F_obj
  <2>1. CASE Final!Read
    BY <1>2, <2>1 DEF Final!Read, Final!BeginPass, Final!stored
  <2>2. CASE \/ Final!NotDeleting \/ Final!FinalizeLive \/ Final!ApplyDrop \/ Final!ApplyDropFails \/ Final!GetDrop
             \/ Final!CleanDrop \/ Final!ReleaseFails
    <3>1. UNCHANGED Final!stored
      BY <2>2 DEF Final!NotDeleting, Final!FinalizeLive, Final!ApplyDrop,
         Final!ApplyDropFails, Final!GetDrop, Final!CleanDrop,
                  Final!ReleaseFails
    <3>2. F_pc' = "idle" \/ (F_pc # "idle" /\ UNCHANGED <<F_snap, F_fresh>>)
      BY <2>2 DEF Final!NotDeleting, Final!FinalizeLive, Final!ApplyDrop,
         Final!ApplyDropFails, Final!GetDrop, Final!CleanDrop,
                  Final!ReleaseFails, Final!Return, Final!EndPass, Final!Then, Final!GoTo
    <3>3. QED
      BY <3>1, <3>2 DEF Final!stored
  <2>3. CASE Final!Release
    <3>1. F_snap.deleting /\ F_fresh /\ F_obj.exists
      BY <2>3 DEF Final!Release, SeenAsIs, Deleting, FirstLife
    <3>2. F_obj'.exists = FALSE
      BY <2>3, <3>1 DEF Final!Release, Final!Store, Final!TypeOK, Final!Objects
    <3>3. QED
      BY <1>2, <3>1, <3>2
  <2>4. CASE Final!DeliverObject
    BY <2>4 DEF Final!DeliverObject, Final!Deliver, Final!pass
  <2>5. CASE Final!Crash
    BY <2>5 DEF Final!Crash, Final!Restart
  <2>6. CASE \/ Final!DeliverDrop \/ Final!DropRuns \/ Final!DropIsRefused \/ Final!PodIsKilled \/ Final!Provision
             \/ Final!Connect \/ Final!CollectGarbage \/ Final!TimerExpires \/ Final!DeadlinePasses
             \/ Final!UnrelatedEvent \/ UNCHANGED Final!vars
    <3>1. UNCHANGED <<Final!stored, Final!pass>>
      BY <2>6 DEF Final!DeliverDrop, Final!DropRuns, Final!DropIsRefused, Final!PodIsKilled,
         Final!Provision, Final!Connect,
                  Final!CollectGarbage, Final!TimerExpires, Final!TimerFires, Final!DeadlinePasses, Final!UnrelatedEvent,
                  Final!vars, Final!runtime, Final!stored, Final!pass
    <3>2. QED
      BY <3>1 DEF Final!stored, Final!pass
  <2>7. ~Final!Touch /\ ~Final!Recreate /\ (Final!Delete => F_obj' # F_obj)
    <3>1. ~Final!Touch
      BY Bounds DEF Final!Touch, FirstLife, Final!TypeOK
    <3>2. ~Final!Recreate
      BY DEF Final!Recreate, FirstLife
    <3>3. Final!Delete => F_obj' # F_obj
      BY DEF Final!Delete, Final!Store, Final!TypeOK, Final!Objects
    <3>4. QED
      BY <3>1, <3>2, <3>3
  <2>8. QED
    BY <1>2, <2>1, <2>2, <2>3, <2>4, <2>5, <2>6, <2>7 DEF Final!Next, Final!Worker,
       Final!Others
<1>3. QED
  BY <1>0, <1>1, <1>2

\* The Job of the first object is there, and its pod runs, until a pass has seen it finished.
LEMMA NextJob ==
  ASSUME Final!TypeOK, SeenAsIs, FirstLife, FirstCopies, FirstJob, [Final!Next]_(Final!vars), FirstLife'
  PROVE  FirstJob'
<1>0. (F_obj' = F_obj \/ Final!Delete) /\ F_obj'.live = F_obj.live
  BY FirstLifeWas
<1>1. F_obj'.deleting \/ ~F_obj.deleting
  BY <1>0 DEF Final!Delete
<1> USE DEF FirstJob
<1>2. CASE Final!Read \/ Final!NotDeleting \/ Final!FinalizeLive
  <2>1. UNCHANGED <<F_obj, F_drop, F_dropView, F_dropper, F_orphans>>
    BY <1>2 DEF Final!Read, Final!BeginPass, Final!NotDeleting, Final!FinalizeLive,
       Final!stored, Final!cluster
  <2>2. F_pc' = "update" => F_obj.live
    <3>1. CASE Final!FinalizeLive
      BY <3>1 DEF Final!FinalizeLive, FirstCopies, Final!TypeOK, Final!Objects
    <3>2. QED
      BY <1>2, <3>1 DEF Final!Read, Final!BeginPass, Final!NotDeleting, Final!Return,
         Final!EndPass
  <2>3. F_pc # "update" /\ F_pc' # "clean"
    BY <1>2 DEF Final!Read, Final!BeginPass, Final!NotDeleting, Final!FinalizeLive,
       Final!Return, Final!EndPass, Final!Then, Final!GoTo
  <2>4. QED
    BY <2>1, <2>2, <2>3
<1>3. CASE Final!ApplyDrop
  <2>1. F_obj.deleting /\ ~F_obj.live /\ F_obj' = F_obj
    BY <1>3 DEF Final!ApplyDrop, FirstCopies, Final!TypeOK, Final!Objects, Final!stored
  <2>2. F_pc = "pass" /\ F_pc' = "get" /\ UNCHANGED <<F_dropView, F_orphans>>
    BY <1>3 DEF Final!ApplyDrop, Final!Then, Final!GoTo
  <2>3. (F_drop = "none" /\ F_drop' = "running") \/ (F_drop # "none" /\ UNCHANGED <<F_drop, F_dropper>>)
    BY <1>3 DEF Final!ApplyDrop
  <2>4. QED
    BY <2>1, <2>2, <2>3
<1>4. CASE Final!GetDrop
  <2>1. UNCHANGED <<F_obj, F_drop, F_dropView, F_dropper, F_orphans>>
    BY <1>4 DEF Final!GetDrop, Final!stored, Final!cluster
  <2>2. F_pc = "get" /\ (F_pc' = "idle" \/ (F_pc' = "clean" /\ F_dropView = "finished"))
    BY <1>4 DEF Final!GetDrop, Final!Then, Final!GoTo, Final!Return, Final!EndPass,
       FirstLife
  <2>3. QED
    BY <2>1, <2>2
<1>5. CASE Final!CleanDrop
  <2>1. ~Final!Fails
    BY Bounds DEF FirstLife, Final!Fails, Final!TypeOK
  <2>2. F_drop' = "none" /\ F_dropper' = 0 /\ F_orphans' = {} /\ F_pc' = "update"
    BY <1>5, <2>1 DEF Final!CleanDrop, Final!Then, Final!GoTo
  <2>3. QED
    BY <1>5, <2>2 DEF Final!CleanDrop, Final!stored
<1>6. CASE Final!Release
  <2>1. F_snap.deleting /\ F_fresh /\ F_obj.exists
    BY <1>6 DEF Final!Release, SeenAsIs, Deleting, FirstLife, FirstCopies
  <2>2. F_obj'.exists = FALSE
    BY <1>6, <2>1 DEF Final!Release, Final!Store, Final!TypeOK, Final!Objects
  <2>3. QED
    BY <2>2 DEF FirstLife
<1>7. CASE Final!ApplyDropFails \/ Final!ReleaseFails \/ Final!Touch
  BY <1>7, Bounds DEF Final!ApplyDropFails, Final!ReleaseFails, Final!Fails, Final!Touch,
     FirstLife, Final!TypeOK
<1>8. CASE Final!DeliverDrop
  BY <1>8 DEF Final!DeliverDrop, Final!runtime
<1>9. CASE Final!DropRuns \/ Final!DropIsRefused \/ Final!PodIsKilled
  <2>1. UNCHANGED <<F_obj, F_pc, F_dropView>> /\ (Final!PodIsKilled => UNCHANGED <<F_drop, F_dropper>>)
    BY <1>9 DEF Final!DropRuns, Final!DropIsRefused, Final!PodIsKilled, Final!runtime
  <2>2. \/ F_drop = "running" /\ F_drop' = "finished" /\ F_dropper' = 0 /\ F_orphans' = F_orphans
        \/ \E n \in F_orphans : F_orphans' = F_orphans \ {n}
    BY <1>9 DEF Final!DropRuns, Final!DropIsRefused, Final!PodIsKilled, Final!PodEnds
  <2>3. QED
    BY <2>1, <2>2
<1>10. CASE Final!Crash
  BY <1>10 DEF Final!Crash, Final!Restart
<1>11. CASE Final!Delete
  BY <1>0, <1>1, <1>11 DEF Final!Delete, Final!cluster
<1>12. CASE \/ Final!DeliverObject \/ Final!Provision \/ Final!Connect \/ Final!CollectGarbage \/ Final!TimerExpires
            \/ Final!DeadlinePasses \/ Final!UnrelatedEvent \/ UNCHANGED Final!vars
  <2>1. UNCHANGED <<F_obj, F_pc, F_drop, F_dropView, F_dropper, F_orphans>>
    BY <1>12 DEF Final!DeliverObject, Final!Deliver, Final!Provision, Final!Connect,
       Final!CollectGarbage, Final!TimerExpires,
                 Final!TimerFires, Final!DeadlinePasses, Final!UnrelatedEvent, Final!vars, Final!runtime, Final!cluster, Final!stored,
                 Final!pass
  <2>2. QED
    BY <2>1
<1>13. ~Final!Recreate
  BY DEF Final!Recreate, FirstLife
<1>14. QED
  BY <1>2, <1>3, <1>4, <1>5, <1>6, <1>7, <1>8, <1>9, <1>10, <1>11, <1>12, <1>13
     DEF Final!Next, Final!Worker, Final!Others

LEMMA NextFinal == FinalInv /\ [Final!Next]_(Final!vars) => FinalInv'
<1> SUFFICES ASSUME FinalInv, [Final!Next]_(Final!vars) PROVE FinalInv'
  OBVIOUS
<1>1. Final!TypeOK' /\ SeenAsIs' /\ CopiesAreOld' /\ JobIsOfADeletion'
  BY NextTypes, NextSeen, NextOld, NextOfADeletion DEF FinalInv
<1>2. FirstLife' => FirstLife
  BY FirstLifeWas DEF FinalInv
<1>3. FirstLife' => FirstCopies' /\ FirstJob'
  BY <1>2, NextCopies, NextJob DEF FinalInv, FirstLifeInv
<1>4. QED
  BY <1>1, <1>3 DEF FinalInv, FirstLifeInv

\* Only Release makes an object disappear.
LEMMA OnlyRelease == Final!TypeOK /\ [Final!Next]_(Final!vars) /\ Final!Released => Final!Release
<1> SUFFICES ASSUME Final!TypeOK, [Final!Next]_(Final!vars), Final!Released PROVE Final!Release
  OBVIOUS
<1>1. ~Final!Delete /\ ~Final!Touch /\ ~Final!Recreate
  BY DEF Final!Released, Final!Delete, Final!Touch, Final!Recreate, Final!Store,
     Final!TypeOK, Final!Objects
<1>2. ~UNCHANGED F_obj
  BY DEF Final!Released
<1>3. QED
  BY <1>1, <1>2 DEF Final!Next, Final!Worker, Final!Others, Final!Read, Final!BeginPass,
     Final!NotDeleting, Final!FinalizeLive,
         Final!ApplyDrop, Final!ApplyDropFails, Final!GetDrop, Final!CleanDrop, Final!ReleaseFails, Final!DeliverObject, Final!Deliver,
         Final!DeliverDrop, Final!DropRuns, Final!DropIsRefused, Final!PodIsKilled, Final!Provision, Final!Connect,
         Final!CollectGarbage, Final!TimerExpires, Final!TimerFires, Final!DeadlinePasses, Final!Crash, Final!Restart,
         Final!UnrelatedEvent, Final!vars, Final!runtime, Final!stored

\* dropdb runs for a Job, which is stray or of a deletion, or in a pod left behind.
LEMMA NextSpared == FinalInv /\ [Final!Next]_(Final!vars) => Final!ReplacementIsSpared
<1> SUFFICES ASSUME FinalInv, [Final!Next]_(Final!vars), F_db # 0, F_db' = 0, F_obj.exists, ~F_obj.deleting,
                    F_db = F_obj.life
             PROVE  F_stray \/ F_orphans # {}
  BY DEF Final!ReplacementIsSpared
<1>1. Final!DropRuns
  <2>1. ~Final!Provision
    BY ObjectsStay DEF Final!Provision, FinalInv, Final!TypeOK
  <2>2. QED
    BY <2>1 DEF Final!Next, Final!Worker, Final!Others, Final!Read, Final!BeginPass,
       Final!NotDeleting, Final!FinalizeLive, Final!ApplyDrop,
         Final!ApplyDropFails, Final!GetDrop, Final!CleanDrop, Final!Release, Final!ReleaseFails, Final!DeliverObject, Final!Deliver,
         Final!DeliverDrop, Final!DropIsRefused, Final!PodIsKilled, Final!Connect, Final!CollectGarbage, Final!TimerExpires,
         Final!DeadlinePasses, Final!Crash, Final!Delete, Final!Recreate, Final!Touch, Final!UnrelatedEvent, Final!vars, Final!cluster
<1>2. CASE F_drop = "running"
  BY <1>2 DEF FinalInv, JobIsOfADeletion
<1>3. CASE F_drop # "running"
  BY <1>1, <1>3 DEF Final!DropRuns, Final!PodEnds
<1>4. QED
  BY <1>2, <1>3

\* In the first life the Job that is gone had finished, and nobody runs another.
LEMMA NextReleasedAfterTheDrop == FinalInv /\ [Final!Next]_(Final!vars) => Final!ReleasedAfterTheDrop
<1> SUFFICES ASSUME FinalInv, [Final!Next]_(Final!vars), Final!Released, F_obj.life = 1, ~F_late, F_failures = 0,
                    F_touches = 0
             PROVE  F_dropper # F_obj.life /\ F_obj.life \notin F_orphans
  BY DEF Final!ReleasedAfterTheDrop
<1>1. F_pc = "update"
  BY OnlyRelease DEF FinalInv, Final!Release
<1>2. FirstJob
  BY DEF FinalInv, FirstLifeInv, FirstLife, Final!Released
<1>3. QED
  BY <1>1, <1>2 DEF FirstJob

\* EnvironmentFinalizer is one of the components that take turns.
LEMMA FinalRefined == Spec => Final!Init /\ [][Final!Next]_(Final!vars)
<1>1. [Next]_vars => [Final!Next]_(Final!vars)
  BY DEF Next, vars, AccountMoves, AdmissionMoves, QuotaMoves, StampMoves, CopiesMoves,
         LinkMoves, SnapMoves, PagesMoves, FormsMoves, FinalMoves, ReleaseMoves, ButA,
         ButD, ButQ, ButT, ButB, ButL, ButS, ButW, ButG, ButR, F, Final!vars,
         Final!cluster, Final!counts, Final!runtime
<1>2. Init => Final!Init
  BY DEF Init
<1>3. QED
  BY <1>1, <1>2, PTL DEF Spec

LEMMA FinalHolds == Spec => []FinalInv /\ [][Final!Next]_(Final!vars)
<1>1. Final!Spec => []FinalInv
  BY InitFinal, NextFinal, PTL DEF Final!Spec
<1>2. QED
  BY <1>1, FinalRefined, PTL DEF Final!Spec

\* The drop is over before its environment is gone, for every number of environments of the
\* name, with a dropdb that may fail or not.
THEOREM TheDropIsWaitedFor == Spec => DropIsWaitedFor
<1>1. FinalInv /\ [Final!Next]_(Final!vars) => Final!ReleasedAfterTheDrop
  BY NextReleasedAfterTheDrop
<1>2. QED
  BY <1>1, FinalHolds, PTL DEF DropIsWaitedFor

\* Of any number of environments of one name, none loses its database to the drop of an
\* earlier one, as long as no Job is stray and no pod of a deleted Job is left.
THEOREM TheReplacementIsSpared == Spec => SparesTheReplacement
<1>1. FinalInv /\ [Final!Next]_(Final!vars) => Final!ReplacementIsSpared
  BY NextSpared
<1>2. QED
  BY <1>1, FinalHolds, PTL DEF SparesTheReplacement

==============================================================================
