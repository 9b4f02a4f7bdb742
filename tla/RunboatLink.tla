------------------------------ MODULE RunboatLink ------------------------------
(***************************************************************************)
(* The RunboatLink controller: a mirror of another system's builds, and a  *)
(* few actions on them, each asked for by an id that is to be carried out  *)
(* once (internal/controller/runboatlink_controller.go, runboat.go).       *)
(*                                                                         *)
(* Every action of a pass is carried out before the pass saves which ids   *)
(* it has carried out.  SetupWithManager names no predicate, so the        *)
(* controller's own status write, which moves lastPoll each time, wakes it.*)
(***************************************************************************)
EXTENDS ControllerRuntime, Sequences, FiniteSetsExt, SequencesExt

CONSTANTS
  Ids,          \* the ids of requests
  Keep,         \* maxExecuted: how many ids the status remembers
  MaxAsked,     \* how many requests the spec may hold
  MaxRuns,      \* bound: how often one action is carried out
  MaxEdits,     \* bound: edits of the spec
  MaxFailures   \* bound: calls that fail, and crashes

LimitsAreNumbers == Keep \in Nat \ {0} /\ MaxRuns \in Nat

VARIABLES
  remote,    \* Runboat has the build
  todo,      \* the requests this pass has not looked at
  acted,     \* the ids this pass carried out
  ran,       \* history: ran[i]: how often Runboat carried out i
  excused,   \* history: excused[i]: records of i that were not saved, or dropped
  edits, failures

loop    == <<todo, acted>>
history == <<ran, excused>>
bounds  == <<edits, failures>>
vars == <<runtime, remote, loop, history, bounds>>

\* asked: the ids of spec.actionRequests.  done: those of status.executedActions.
\* mirrored: the build is in status.builds.  lastPoll is a time: what matters of it
\* is that it is another one each time.
Objects ==
  [asked: SUBSET Ids, allowed: BOOLEAN, done: Seq(Ids), mirrored: BOOLEAN,
   reachable: BOOLEAN, lastPoll: {"never", "tick", "tock"}]

Init ==
  /\ obj = [asked |-> {}, allowed |-> TRUE, done |-> <<>>, mirrored |-> FALSE,
            reachable |-> FALSE, lastPoll |-> "never"]
  /\ view = obj /\ snap = obj /\ st = obj
  /\ current = TRUE /\ waking = FALSE /\ queued = TRUE /\ timer = FALSE
  /\ pc = "idle" /\ fresh = FALSE /\ res = "none"
  /\ remote = TRUE /\ todo = {} /\ acted = {}
  /\ ran = [i \in Ids |-> 0] /\ excused = [i \in Ids |-> 0]
  /\ edits = 0 /\ failures = 0

Fail == failures < MaxFailures /\ failures' = failures + 1

------------------------------------------------------------------------------
(* A pass.                                                                 *)

Return(r) == EndPass(r, view) /\ todo' = {} /\ acted' = {}

Read == BeginPass /\ UNCHANGED <<remote, loop, history, bounds>>

\* mirrorBuilds: the one build, filtered and capped, or not there.
Poll ==
  /\ pc = "pass"
  /\ GoTo("act", [st EXCEPT !.mirrored = remote, !.reachable = TRUE,
                            !.lastPoll = IF @ = "tick" THEN "tock" ELSE "tick"], "after")
  /\ todo' = snap.asked
  /\ UNCHANGED <<fresh, stored, remote, acted, history, bounds>>

\* The Secret cannot be read, or the poll fails: the mirror stays, and nothing is done.
PollFails ==
  /\ pc = "pass"
  /\ Fail
  /\ GoTo("finish", [st EXCEPT !.reachable = FALSE], "after")
  /\ UNCHANGED <<fresh, stored, remote, loop, history, edits>>

AlreadyDone(i) == i \in ToSet(st.done)

\* A slip: only what succeeded is remembered.
RecordedIfOk(done, i, ok) == IF ok THEN Append(done, i) ELSE done

\* appendExecuted: the newest Keep of them.
Recorded(done, i, ok) ==
  LET all == Append(done, i)
  IN SubSeq(all, IF Len(all) > Keep THEN Len(all) - Keep + 1 ELSE 1, Len(all))

IsNext(i) == pc = "act" /\ todo # {} /\ i = CHOOSE j \in todo : TRUE

Skip(i) ==
  /\ IsNext(i) /\ AlreadyDone(i)
  /\ todo' = todo \ {i}
  /\ UNCHANGED <<runtime, remote, acted, history, bounds>>

\* One more repeat of each of them is excused; MaxRuns need no more than that.
Excuse(ids) ==
  excused' = [j \in Ids |-> IF j \in ids /\ excused[j] < MaxRuns - 1
                              THEN excused[j] + 1 ELSE excused[j]]

Record(i, ok) ==
  LET done == Recorded(st.done, i, ok)
  IN /\ st' = [st EXCEPT !.done = done]
     /\ todo' = todo \ {i}
     /\ Excuse(ToSet(st.done) \ ToSet(done))
     /\ UNCHANGED <<stored, queue, pc, snap, fresh, res, remote, edits>>

\* The action is not allowed any more, or its build is not in the mirror.
Refuse(i) ==
  /\ IsNext(i) /\ ~AlreadyDone(i)
  /\ (~snap.allowed \/ ~st.mirrored)
  /\ Record(i, FALSE)
  /\ UNCHANGED <<acted, ran, failures>>

\* Runboat answers; or it does not, having carried the action out or not.
Act(i) ==
  /\ IsNext(i) /\ ~AlreadyDone(i)
  /\ snap.allowed /\ st.mirrored
  /\ ran[i] < MaxRuns
  /\ \/ ran' = [ran EXCEPT ![i] = @ + 1] /\ Record(i, TRUE) /\ UNCHANGED failures
     \/ ran' = [ran EXCEPT ![i] = @ + 1] /\ Record(i, FALSE) /\ Fail
     \/ UNCHANGED ran /\ Record(i, FALSE) /\ Fail
  /\ acted' = acted \cup {i}

ActsDone ==
  /\ pc = "act" /\ todo = {}
  /\ GoTo("finish", st, res)
  /\ UNCHANGED <<fresh, stored, remote, loop, history, bounds>>

\* What a pass that cannot save has carried out is carried out again.
Lose == Excuse(acted)

Finish ==
  /\ pc = "finish"
  /\ \/ st # snap /\ fresh /\ Store(st, TRUE) /\ Return("after") /\ UNCHANGED excused
     \/ st # snap /\ ~fresh /\ UNCHANGED stored /\ Return("requeue") /\ Lose
     \/ st = snap /\ UNCHANGED stored /\ Return("after") /\ UNCHANGED excused
  /\ UNCHANGED <<remote, ran, bounds>>

FinishFails ==
  /\ pc = "finish" /\ st # snap
  /\ Fail /\ Lose
  /\ Return("requeue")
  /\ UNCHANGED <<stored, remote, ran, edits>>

Worker ==
  \/ Read \/ Poll \/ PollFails \/ ActsDone \/ Finish \/ FinishFails
  \/ \E i \in Ids : Skip(i) \/ Refuse(i) \/ Act(i)

------------------------------------------------------------------------------
(* The cluster, Runboat and people.                                        *)

DeliverObject == Deliver /\ UNCHANGED <<remote, loop, history, bounds>>

\* pollInterval passes, or the minute PollEvery puts under it.
RequeueLater ==
  /\ TimerFires
  /\ UNCHANGED <<remote, loop, history, bounds>>

BuildComesOrGoes ==
  /\ Fail
  /\ remote' = ~remote
  /\ UNCHANGED <<runtime, loop, history, edits>>

Edit(o) ==
  /\ edits < MaxEdits /\ edits' = edits + 1
  /\ Store(o, TRUE)
  /\ UNCHANGED <<queue, pc, snap, st, res, remote, loop, history, failures>>

\* An id is asked for once; it may be left in the list, or taken out.
Ask(i) ==
  /\ i \notin obj.asked /\ ran[i] = 0 /\ Cardinality(obj.asked) < MaxAsked
  /\ Edit([obj EXCEPT !.asked = @ \cup {i}])

Withdraw(i) == i \in obj.asked /\ Edit([obj EXCEPT !.asked = @ \ {i}])

Disallow == Edit([obj EXCEPT !.allowed = ~@])

Crash ==
  /\ Fail /\ Lose
  /\ Restart(obj) /\ todo' = {} /\ acted' = {}
  /\ UNCHANGED <<remote, ran, edits>>

Others ==
  \/ DeliverObject \/ RequeueLater \/ BuildComesOrGoes \/ Disallow
  \/ \E i \in Ids : Ask(i) \/ Withdraw(i)

Next == Worker \/ Others \/ Crash

Spec == Init /\ [][Next]_vars

------------------------------------------------------------------------------
(* What must hold.                                                         *)

\* "The controller records each id it has executed and never executes the same one
\* twice" (a Reset destroys a database).  Between passes an action has been carried out
\* once more only for every record of it that was not saved, or that newer records
\* pushed out while its request stood.
RepeatsAreExcused == pc = "idle" => \A i \in Ids : ran[i] <= 1 + excused[i]

==============================================================================
