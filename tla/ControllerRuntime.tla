-------------------------- MODULE ControllerRuntime --------------------------
(***************************************************************************)
(* One object and one reconcile loop over it, the way controller-runtime   *)
(* runs them for every controller of internal/controller.  The library is  *)
(* not part of the repository: this module models what its code relies on. *)
(*                                                                         *)
(*   - Get and List of mgr.GetClient() answer from an informer cache, not  *)
(*     from the API server, so a pass may read an old version (cmd/main.go *)
(*     hands that client to every reconciler and disables no cache).       *)
(*   - A write carries the resourceVersion that was read; when somebody    *)
(*     has written in between it is refused with a conflict.               *)
(*   - The work queue holds a key at most once, and one worker takes it:   *)
(*     two passes over one object never overlap.                           *)
(*   - A pass that returns an error, or Requeue, puts the key back;        *)
(*     RequeueAfter puts it back later; a plain Result{} does nothing.     *)
(*   - An update event wakes the controller only if it passes the          *)
(*     predicates of SetupWithManager.                                     *)
(*                                                                         *)
(* resourceVersions are not counted.  What the code can tell apart is      *)
(* whether the version it holds is still the stored one, and that is one   *)
(* bit for the cache (current) and one for the pass (fresh).               *)
(***************************************************************************)
EXTENDS Naturals

VARIABLES
  obj,      \* the object as the API server stores it
  view,     \* the object as the informer cache shows it
  current,  \* view is the stored version
  waking,   \* the cache is behind by an event the predicates let through
  queued,   \* the key is in the work queue
  timer,    \* a RequeueAfter is pending
  pc,       \* "idle", or the step the pass in progress is at
  snap,     \* the object as this pass read it
  fresh,    \* nobody has written the object since the version in snap
  st,       \* the status this pass means to write
  res       \* what this pass means to return: "none", "requeue" or "after"

runtime == <<obj, view, current, waking, queued, timer, pc, snap, fresh, st, res>>
stored  == <<obj, view, current, waking>>
queue   == <<queued, timer>>
pass    == <<pc, snap, fresh, st, res>>

Results == {"none", "requeue", "after"}

------------------------------------------------------------------------------
(* Writes to the stored object.                                            *)

\* Somebody stores o; the event wakes the controller iff the predicates let it
\* through.  A pass that read an earlier version is no longer fresh.
Store(o, wakes) ==
  /\ obj' = o
  /\ current' = FALSE
  /\ waking' = (waking \/ wakes)
  /\ fresh' = FALSE
  /\ UNCHANGED view

\* The watch brings the cache up to date and, if an event passed, queues the key.
Deliver ==
  /\ ~current
  /\ view' = obj
  /\ current' = TRUE
  /\ queued' = (queued \/ waking)
  /\ waking' = FALSE
  /\ UNCHANGED <<obj, timer, pass>>

------------------------------------------------------------------------------
(* The worker.                                                             *)

\* The worker takes the key and the pass reads the object from the cache.
BeginPass ==
  /\ pc = "idle"
  /\ queued
  /\ queued' = FALSE
  /\ pc' = "pass"
  /\ snap' = view
  /\ fresh' = current
  /\ st' = view
  /\ res' = "none"
  /\ UNCHANGED <<stored, timer>>

\* The pass returns r.  Its locals are read by no later step before BeginPass
\* sets them again; blank is what they hold in between.
EndPass(r, blank) ==
  /\ pc' = "idle"
  /\ queued' = (queued \/ r = "requeue")
  /\ timer' = (timer \/ r = "after")
  /\ snap' = blank
  /\ st' = blank
  /\ res' = "none"
  /\ fresh' = FALSE

\* The pass goes on to step p, meaning to write s and to return r.
GoTo(p, s, r) ==
  /\ pc' = p
  /\ st' = s
  /\ res' = r
  /\ UNCHANGED <<queue, snap>>

\* A deadline given to RequeueAfter passes.  It is a minute or more in every
\* controller here, and the cache is behind by milliseconds: current.
TimerFires ==
  /\ timer
  /\ current
  /\ timer' = FALSE
  /\ queued' = TRUE
  /\ UNCHANGED <<stored, pass>>

\* The manager dies and another one starts: the pass in progress and the timers
\* are lost, the cache is filled again and every object is queued.
Restart(blank) ==
  /\ pc' = "idle"
  /\ view' = obj
  /\ current' = TRUE
  /\ waking' = FALSE
  /\ queued' = TRUE
  /\ timer' = FALSE
  /\ snap' = blank
  /\ st' = blank
  /\ res' = "none"
  /\ fresh' = FALSE
  /\ UNCHANGED obj

==============================================================================
