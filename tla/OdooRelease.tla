------------------------------ MODULE OdooRelease ------------------------------
(***************************************************************************)
(* The OdooRelease controller: one image, rolled out to many customers a   *)
(* batch at a time (internal/controller/odoorelease_controller.go).  A     *)
(* pass lists the customers from the cache, moves as many as the batch has *)
(* room for, one Update each, and only then saves when it last moved one.  *)
(*                                                                         *)
(* SetupWithManager names no predicate: the controller's own status write  *)
(* wakes it.  It watches neither builds nor rehearsals nor customers.      *)
(*                                                                         *)
(* Time is counted in soaks: SoakPasses is a soak in which nothing moves,  *)
(* and a pass takes no time.  Customers are taken in one fixed order.      *)
(***************************************************************************)
EXTENDS ControllerRuntime, FiniteSets

CONSTANTS
  Customers,    \* the customers the selector matches
  Size,         \* spec.batch.size
  MaxFailures   \* bound: calls that fail, and crashes

SizeIsNumber == Size \in Nat

VARIABLES
  on,         \* the customers whose record names this version
  onView,     \* the same as the cache shows it
  stale,      \* the customers whose cached record is not the stored one
  rehearsed,  \* the customers with a succeeded rehearsal of the image
  built,      \* the OdooBuild has produced the image
  todo,       \* the customers this pass has not looked at
  listed,     \* those of the list this pass read that are on the version
  written,    \* those somebody has written since the version in the list
  room,       \* how many this pass may still move
  rows,       \* what this pass has found of each customer
  moved,      \* history: the customers moved since a soak passed
  lost,       \* history: the passes since then that moved some and recorded nothing
  failures     \* failed calls so far

customers == <<on, onView, stale>>
evidence  == <<rehearsed, built>>
loop      == <<todo, listed, written, room, rows>>
history   == <<moved, lost>>
vars == <<runtime, customers, evidence, loop, history, failures>>

\* "moved" is the row that reads onRelease and has movedAt set.
Rows == {"none", "onRelease", "moved", "notRehearsed", "waitingForBatch", "blocked"}
Phases == {"Pending", "Soaking", "Blocked", "Complete"}

\* named: spec.image, not spec.fromBuild.  needs: spec.requireRehearsal.
\* last: status.lastMovedAt, as an age. The counts
\* of customers follow from the rest.
Objects ==
  [named: BOOLEAN, needs: BOOLEAN, phase: Phases,
   last: {"never", "recent", "soaked"}]

NoRows == [c \in Customers |-> "none"]

Init ==
  /\ \E named, needs \in BOOLEAN :
       obj = [named |-> named, needs |-> needs, phase |-> "Pending",
              last |-> "never"]
  /\ view = obj /\ snap = obj /\ st = obj
  /\ current = TRUE /\ waking = FALSE /\ queued = TRUE /\ timer = FALSE
  /\ pc = "idle" /\ fresh = FALSE /\ res = "none"
  /\ on = {} /\ onView = {} /\ stale = {}
  /\ rehearsed = {} /\ built = FALSE
  /\ todo = {} /\ listed = {} /\ written = {} /\ room = 0 /\ rows = NoRows
  /\ moved = {} /\ lost = 0 /\ failures = 0

------------------------------------------------------------------------------
(* A pass.                                                                 *)

NoLoop == todo' = {} /\ listed' = {} /\ written' = {} /\ room' = 0 /\ rows' = NoRows

Return(r) == EndPass(r, view) /\ NoLoop

Moved == \E c \in Customers : rows[c] = "moved"

\* What a pass that ends without its record loses.
Lose == lost' = lost + (IF Moved THEN 1 ELSE 0)

Read == BeginPass /\ UNCHANGED <<customers, evidence, loop, history, failures>>

\* resolveImage finds none: Blocked, and nothing asks for another pass.
NoImage ==
  /\ pc = "pass"
  /\ ~snap.named /\ ~built
  /\ GoTo("finish", [st EXCEPT !.phase = "Blocked"], "none")
  /\ UNCHANGED <<fresh, stored, customers, evidence, loop, history, failures>>

\* A slip: a batch does not wait for the one before it.
BatchRoomNoSoak(s) == Size

\* batchRoom: none while a batch soaks.
BatchRoom(s) == IF s.last = "recent" THEN 0 ELSE Size

\* The customers are read from the cache.
List ==
  /\ pc = "pass"
  /\ snap.named \/ built
  /\ todo' = Customers /\ listed' = onView /\ written' = stale
  /\ room' = BatchRoom(snap)
  /\ UNCHANGED rows
  /\ GoTo("rows", st, "after")
  /\ UNCHANGED <<fresh, stored, customers, evidence, history, failures>>

IsNext(c) == pc = "rows" /\ todo # {} /\ c = CHOOSE d \in todo : TRUE

Row(c, row) ==
  /\ todo' = todo \ {c}
  /\ rows' = [rows EXCEPT ![c] = row]
  /\ UNCHANGED <<runtime, listed, evidence>>

\* rehearsed: by this customer's own data, unless the release does without.
Rehearsed(c) == ~snap.needs \/ c \in rehearsed

\* A customer that is left where it is.
Pass(c) ==
  /\ IsNext(c)
  /\ \/ /\ c \in listed
        /\ Row(c, "onRelease")
     \/ /\ c \notin listed /\ ~Rehearsed(c)
        /\ Row(c, "notRehearsed")
     \/ /\ c \notin listed /\ Rehearsed(c) /\ room = 0
        /\ Row(c, "waitingForBatch")
  /\ UNCHANGED <<customers, written, room, history, failures>>

\* move: the record is written with the version that was listed.
Move(c) ==
  /\ IsNext(c)
  /\ c \notin listed /\ Rehearsed(c) /\ room > 0
  /\ c \notin written
  /\ on' = on \cup {c}
  /\ stale' = stale \cup {c}
  /\ written' = written \cup {c}
  /\ room' = room - 1
  /\ moved' = moved \cup {c}
  /\ Row(c, "moved")
  /\ UNCHANGED <<onView, lost, failures>>

\* The Update conflicts with this controller's own earlier one, which the cache did not
\* show, or with somebody else's, or fails, or TenantGuard refuses it: the row says so.
MoveFails(c) ==
  /\ IsNext(c)
  /\ c \notin listed /\ Rehearsed(c) /\ room > 0
  /\ \/ c \in written /\ UNCHANGED failures
     \/ c \notin written /\ failures < MaxFailures /\ failures' = failures + 1
  /\ Row(c, "blocked")
  /\ UNCHANGED <<customers, written, room, history>>

OnRelease == {c \in Customers : rows[c] \in {"onRelease", "moved"}}
Stuck == {c \in Customers : rows[c] \in {"notRehearsed", "blocked"}}

PhaseFound ==
  CASE OnRelease = Customers                    -> "Complete"
    [] OnRelease \cup Stuck = Customers   -> "Blocked"
    [] OTHER                                          -> "Soaking"

\* A slip: a rollout waits for somebody to touch it.
WakeNever(phase) == "none"

\* "A deadline, so the next batch happens without anything else touching the object."
Wake(phase) == IF phase = "Complete" THEN "none" ELSE "after"

Conclude ==
  /\ pc = "rows" /\ todo = {}
  /\ LET s == [st EXCEPT !.phase = PhaseFound, !.last = IF Moved THEN "recent" ELSE @]
     IN GoTo("finish", s, Wake(s.phase))
  /\ UNCHANGED <<fresh, stored, customers, evidence, loop, history, failures>>

\* save: the status is written when it changed.
Save ==
  /\ pc = "finish"
  /\ \/ /\ st = snap
        /\ UNCHANGED <<stored, lost>>
        /\ Return(res)
     \/ /\ st # snap /\ fresh
        /\ Store(st, TRUE)
        /\ UNCHANGED lost
        /\ Return(res)
     \/ /\ st # snap /\ ~fresh
        /\ UNCHANGED stored
        /\ Lose
        /\ Return("requeue")
  /\ UNCHANGED <<customers, evidence, moved, failures>>

\* Or it fails, or conflicts with somebody's edit of the release.
SaveFails ==
  /\ pc = "finish" /\ st # snap
  /\ failures < MaxFailures /\ failures' = failures + 1
  /\ Lose
  /\ Return("requeue")
  /\ UNCHANGED <<stored, customers, evidence, moved>>

Worker ==
  \/ Read \/ NoImage \/ List \/ Conclude \/ Save \/ SaveFails
  \/ \E c \in Customers : Pass(c) \/ Move(c) \/ MoveFails(c)

------------------------------------------------------------------------------
(* The cluster, and everybody else.                                        *)

DeliverObject == Deliver /\ UNCHANGED <<customers, evidence, loop, history, failures>>

\* Customers are not watched by this controller.
DeliverCustomer(c) ==
  /\ c \in stale
  /\ stale' = stale \ {c}
  /\ onView' = IF c \in on THEN onView \cup {c} ELSE onView
  /\ UNCHANGED <<runtime, on, evidence, loop, history, failures>>

Rehearse(c) ==
  /\ c \notin rehearsed
  /\ rehearsed' = rehearsed \cup {c}
  /\ UNCHANGED <<runtime, customers, built, loop, history, failures>>

BuildEnds ==
  /\ ~built /\ ~obj.named
  /\ built' = TRUE
  /\ UNCHANGED <<runtime, customers, rehearsed, loop, history, failures>>

RequeueLater == TimerFires /\ UNCHANGED <<customers, evidence, loop, history, failures>>

Aged(s) == [s EXCEPT !.last = IF @ = "recent" THEN "soaked" ELSE @]

SoakPasses ==
  /\ pc = "idle" /\ current
  /\ moved # {}
  /\ obj' = Aged(obj) /\ view' = Aged(view) /\ snap' = Aged(snap) /\ st' = Aged(st)
  /\ moved' = {} /\ lost' = 0
  /\ UNCHANGED <<current, waking, queue, pc, fresh, res, customers, evidence, loop, failures>>

Crash ==
  /\ failures < MaxFailures /\ failures' = failures + 1
  /\ Restart(obj)
  /\ onView' = on /\ stale' = {}
  /\ NoLoop
  /\ Lose
  /\ UNCHANGED <<on, evidence, moved>>

Others ==
  \/ DeliverObject \/ RequeueLater \/ SoakPasses \/ BuildEnds
  \/ \E c \in Customers : DeliverCustomer(c) \/ Rehearse(c)

Next == Worker \/ Others \/ Crash

\* Time passes: SoakPasses is strongly fair because this model lets it happen only
\* between two passes.
Fairness ==
  /\ WF_vars(Worker) /\ WF_vars(DeliverObject) /\ WF_vars(RequeueLater)
  /\ SF_vars(SoakPasses)
  /\ \A c \in Customers : WF_vars(DeliverCustomer(c)) /\ WF_vars(Rehearse(c))

Spec == Init /\ [][Next]_vars /\ Fairness

------------------------------------------------------------------------------
(* What must hold.                                                         *)

\* A batch and its soak bound what is exposed to a bad release: within a soak no more
\* customers move than the batch has, except for one batch more for every pass that
\* moved some and could not save that it did.
BatchesSoak == pc = "idle" => Cardinality(moved) <= Size * (1 + lost)

\* "The next batch happens without anything else touching the object": once its
\* customers are rehearsed, the rollout of a named image completes.
RolloutEnds == obj.named => <>(obj.phase = "Complete")

==============================================================================
