------------------------------- MODULE ReviewSet -------------------------------
(***************************************************************************)
(* The ReviewSet controller: an OdooEnvironment for every pull request and *)
(* branch that a repository has open, up to a cap, and none for the others *)
(* (internal/controller/reviewset_controller.go, forge.go).                *)
(*                                                                         *)
(* A ref is a number: the order in which the pass sorts them, and, higher  *)
(* being newer, the order in which the forge pages them.  The name of an   *)
(* environment is the name of its ref (envNameFor is injective: a pull     *)
(* request by its number, a branch by its hash).                           *)
(***************************************************************************)
EXTENDS ControllerRuntime, FiniteSets

CONSTANTS
  Refs,         \* the refs the repository may have open
  Page,         \* per_page: how many of the open ones an answer lists, the newest
  Caps,         \* the values of spec.maxEnvironments
  MaxChanges,   \* bound: refs opened and closed, edits, environments reaped
  MaxFailures   \* bound: calls that fail, and crashes

VARIABLES
  open,      \* the refs that are open
  marked,    \* the refs spec.watch asks for: they carry its labels, or match its branches
  envs,      \* envs[r]: "none", "live", or "going": deleted, its finalizer running
  seen,      \* envs as the cache shows them
  wanted,    \* the refs this pass keeps environments for
  changes, failures

forge == <<open, marked>>
cluster == <<forge, envs, seen>>
vars == <<runtime, cluster, wanted, changes, failures>>

\* lastPolled is a time: what matters of it is that it is another one each time.
Objects ==
  [paused: BOOLEAN, cap: Caps, tracked: SUBSET Refs, skipped: 0..Cardinality(Refs),
   watching: {"unknown", "yes", "paused", "failed"}, lastPolled: {"never", "tick", "tock"}]

Init ==
  /\ \E c \in Caps : obj = [paused |-> FALSE, cap |-> c, tracked |-> {}, skipped |-> 0,
                            watching |-> "unknown", lastPolled |-> "never"]
  /\ view = obj /\ snap = obj /\ st = obj
  /\ current = TRUE /\ waking = FALSE /\ queued = TRUE /\ timer = FALSE
  /\ pc = "idle" /\ fresh = FALSE /\ res = "none"
  /\ open \in SUBSET Refs /\ marked \in SUBSET Refs
  /\ envs = [r \in Refs |-> "none"] /\ seen = envs
  /\ wanted = {}
  /\ changes = 0 /\ failures = 0

Fail == failures < MaxFailures /\ failures' = failures + 1
Change == changes < MaxChanges /\ changes' = changes + 1

Newer(S, r) == {x \in S : x > r}
Older(S, r) == {x \in S : x < r}

------------------------------------------------------------------------------
(* A pass.                                                                 *)

Return(r) == EndPass(r, view) /\ wanted' = {}

Read == BeginPass /\ UNCHANGED <<cluster, wanted, changes, failures>>

Paused ==
  /\ pc = "pass" /\ snap.paused
  /\ GoTo("commit", [st EXCEPT !.watching = "paused"], "after")
  /\ UNCHANGED <<fresh, stored, cluster, wanted, changes, failures>>

\* listRefs asks for one page of what is open, and only then are those picked out that the
\* set watches: one that is marked and beyond the page is not found.
Answer == {r \in open \cap marked : Cardinality(Newer(open, r)) < Page}

\* Those over the cap are counted as skipped.
Poll ==
  /\ pc = "pass" /\ ~snap.paused
  /\ wanted' = {r \in Answer : Cardinality(Older(Answer, r)) < snap.cap}
  /\ GoTo("remove", [st EXCEPT !.lastPolled = IF @ = "tick" THEN "tock" ELSE "tick",
                               !.skipped = Cardinality(Answer \ wanted')], res)
  /\ UNCHANGED <<fresh, stored, cluster, changes, failures>>

FailSet == GoTo("commit", [st EXCEPT !.watching = "failed"], "after")

\* The token cannot be read, or the forge does not answer: nothing is removed.
PollFails ==
  /\ pc = "pass" /\ ~snap.paused
  /\ Fail /\ FailSet
  /\ UNCHANGED <<fresh, stored, cluster, wanted, changes>>

\* What Delete does to those of rs: the finalizer of an environment runs first.
Removing(rs) == [r \in Refs |-> IF r \in rs /\ envs[r] # "none" THEN "going" ELSE envs[r]]

\* A slip: those the status tracks.
ListedTracked == snap.tracked

\* Those that carry the label of the set, as the cache shows them.
Listed == {r \in Refs : seen[r] # "none"}

Remove ==
  /\ pc = "remove"
  /\ envs' = Removing(Listed \ wanted)
  /\ GoTo("create", st, res)
  /\ UNCHANGED <<fresh, stored, forge, seen, wanted, changes, failures>>

\* One that is there is left alone, be it going; so is one the cache did not show.
Creating(rs) ==
  [r \in Refs |-> IF r \in rs /\ seen[r] = "none" /\ envs[r] = "none" THEN "live" ELSE envs[r]]

Create ==
  /\ pc = "create"
  /\ envs' = Creating(wanted)
  /\ GoTo("commit", [st EXCEPT !.tracked = wanted, !.watching = "yes"], "after")
  /\ UNCHANGED <<fresh, stored, forge, seen, wanted, changes, failures>>

\* One of them cannot be created; those before it, in any order, have been.
CreateFails ==
  /\ pc = "create" /\ wanted # {}
  /\ Fail
  /\ \E r \in wanted : \E rs \in SUBSET (wanted \ {r}) : envs' = Creating(rs)
  /\ GoTo("commit", [snap EXCEPT !.watching = "failed", !.lastPolled = st.lastPolled], "after")
  /\ UNCHANGED <<fresh, stored, forge, seen, wanted, changes>>

\* The list, a delete or the write of the status fails, and nothing is written down.
CallFails ==
  /\ pc \in {"remove", "commit"}
  /\ Fail
  /\ Return("requeue")
  /\ UNCHANGED <<stored, cluster, changes>>

Commit ==
  /\ pc = "commit"
  /\ \/ st # snap /\ fresh /\ Store(st, TRUE) /\ Return(res)
     \/ st # snap /\ ~fresh /\ UNCHANGED stored /\ Return("requeue")
     \/ st = snap /\ UNCHANGED stored /\ Return(res)
  /\ UNCHANGED <<cluster, changes, failures>>

Worker ==
  Read \/ Paused \/ Poll \/ Remove \/ Create \/ Commit

------------------------------------------------------------------------------
(* The cluster, the forge and people.                                      *)

DeliverObject == Deliver /\ UNCHANGED <<cluster, wanted, changes, failures>>

\* Owns: every event of an environment of the set wakes it.
DeliverEnvironments ==
  /\ seen # envs
  /\ seen' = envs
  /\ queued' = TRUE
  /\ UNCHANGED <<stored, timer, pass, forge, envs, wanted, changes, failures>>

Finalized(r) ==
  /\ envs[r] = "going"
  /\ envs' = [envs EXCEPT ![r] = "none"]
  /\ UNCHANGED <<runtime, forge, seen, wanted, changes, failures>>

RequeueLater ==
  /\ TimerFires
  /\ UNCHANGED <<cluster, wanted, changes, failures>>

OpenOrClose(r) ==
  /\ Change
  /\ open' = IF r \in open THEN open \ {r} ELSE open \cup {r}
  /\ UNCHANGED <<runtime, marked, envs, seen, wanted, failures>>

\* Somebody puts a watched label on a ref, or takes it off.
Label(r) ==
  /\ Change
  /\ marked' = IF r \in marked THEN marked \ {r} ELSE marked \cup {r}
  /\ UNCHANGED <<runtime, open, envs, seen, wanted, failures>>

\* An environment's time to live ends, or somebody deletes it.
Reap(r) ==
  /\ envs[r] = "live" /\ Change
  /\ envs' = [envs EXCEPT ![r] = "going"]
  /\ UNCHANGED <<runtime, forge, seen, wanted, failures>>

Edit ==
  /\ Change
  /\ \E p \in BOOLEAN, c \in Caps : Store([obj EXCEPT !.paused = p, !.cap = c], TRUE)
  /\ UNCHANGED <<queue, pc, snap, st, res, cluster, wanted, failures>>

Crash ==
  /\ Fail
  /\ Restart(obj) /\ wanted' = {} /\ seen' = envs
  /\ UNCHANGED <<forge, envs, changes>>

Others ==
  \/ DeliverObject \/ DeliverEnvironments \/ RequeueLater \/ Edit
  \/ \E r \in Refs : Finalized(r) \/ OpenOrClose(r) \/ Label(r) \/ Reap(r)

Next == Worker \/ Others \/ PollFails \/ CreateFails \/ CallFails \/ Crash

\* Watches deliver, timers fire, finalizers end, and a pass goes on to its end.
Fairness ==
  /\ WF_vars(Worker)
  /\ WF_vars(DeliverObject) /\ WF_vars(DeliverEnvironments) /\ WF_vars(RequeueLater)
  /\ \A r \in Refs : WF_vars(Finalized(r))

Spec == Init /\ [][Next]_vars /\ Fairness

------------------------------------------------------------------------------
(* What must hold.                                                         *)

\* The first watched refs of the page, up to the cap, have environments, and no other has.
Mirrored ==
  \A r \in Refs :
    envs[r] = "live" <=> r \in Answer /\ Cardinality(Older(Answer, r)) < obj.cap

\* A closed pull request loses its environment and an open one on the page gets it, through failures,
\* crashes, a cap that moves and environments that are reaped: once the repository and the
\* set are left alone, the environments become what the repository asks for, and stay so.
EnvironmentsFollowRefs == <>[](obj.paused \/ Mirrored)

==============================================================================
