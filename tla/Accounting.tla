------------------------------ MODULE Accounting ------------------------------
(***************************************************************************)
(* The OdooTenant controller: the meter an invoice would be built from     *)
(* (internal/controller/odootenant_controller.go).  A pass adds what the   *)
(* customer's environments consumed since the watermark and moves the      *)
(* watermark, in one status write.                                         *)
(*                                                                         *)
(* Two roundings matter.  Each environment's share is an integer division  *)
(* and its remainder is dropped, for the watermark moves all the same; and *)
(* a time is stored to the second, while the pass reads a finer clock.  A  *)
(* second is Units ticks of that clock here.                               *)
(*                                                                         *)
(* The controller watches its own status writes and every environment and  *)
(* database of the namespace, so a pass may come at any time.  The caches  *)
(* of the environments are behind by less than a tick.                     *)
(***************************************************************************)
EXTENDS ControllerRuntime, FiniteSetsExt

CONSTANTS
  Envs,         \* the environments of the customer
  Sizes,        \* the size classes they may have
  Units,        \* ticks of the clock in a second
  PerUnit,      \* what is one milli-hour, as weight times ticks
  Quota,        \* maxEphemeralEnvironments
  MaxTime,      \* bound: the clock
  MaxFailures   \* bound: status writes that fail

UnitsAreNumbers ==
  /\ IsFiniteSet(Envs)
  /\ Units \in Nat \ {0} /\ PerUnit \in Nat \ {0}
  /\ MaxTime \in Nat

\* "No time yet": the pointer is nil.
None == MaxTime + 1

VARIABLES
  env,       \* env[e]: the environment, or none there yet, or none any more
  now,       \* the clock
  started,   \* history: the first watermark
  billed,    \* history: the clock when the last counted pass read it
  counted,   \* history: the passes that moved the watermark
  failures

history == <<started, billed, counted>>
vars == <<runtime, env, now, history, failures>>

Times == 0..None
EnvStates == [there: BOOLEAN, size: Sizes, ready: Times, ended: Times]

\* mark: status.lastAccountedAt.  total: status.environmentMilliHours.
\* open: status.ephemeralEnvironments.  within: the WithinQuota condition.
Objects == [mark: Times, total: Nat, open: 0..Cardinality(Envs), within: BOOLEAN]

Init ==
  /\ obj = [mark |-> None, total |-> 0, open |-> 0, within |-> TRUE]
  /\ view = obj /\ snap = obj /\ st = obj
  /\ current = TRUE /\ waking = FALSE /\ queued = TRUE /\ timer = FALSE
  /\ pc = "idle" /\ fresh = FALSE /\ res = "none"
  /\ env \in [Envs -> {[there |-> FALSE, size |-> s, ready |-> None, ended |-> None] : s \in Sizes}]
  /\ now = 0 /\ started = None /\ billed = None /\ counted = 0 /\ failures = 0

------------------------------------------------------------------------------
(* The arithmetic.                                                         *)

\* sizeWeightMilli, in units of 500: small 0.5, medium 1, large 3.
Weight(size) == CASE size = "small" -> 1 [] size = "large" -> 6 [] OTHER -> 2

\* A slip: from ReadyAt, the watermark forgotten.
SpanSinceReady(e, since, to) ==
  IF env[e].ready = None THEN 0 ELSE Max({0, Min({to, env[e].ended}) - env[e].ready})

\* What e consumed of the interval from since to to, in ticks.
Span(e, since, to) ==
  IF env[e].ready = None THEN 0
  ELSE Max({0, Min({to, env[e].ended}) - Max({since, env[e].ready})})

There == {e \in Envs : env[e].there}

\* accrueMilliHours: nothing before there is a watermark; each share rounded down.
Accrued(since, to) ==
  IF since = None THEN 0
  ELSE MapThenSumSet(LAMBDA e : (Weight(env[e].size) * Span(e, since, to)) \div PerUnit, There)

\* countOpenEphemeral: those with a TTL, as all are here, that have not terminated.
Open == Cardinality({e \in There : env[e].ended = None})

\* A time as the API server keeps it.
ToSecond(t) == t - (t % Units)

------------------------------------------------------------------------------
(* A pass.                                                                 *)

Return(r) == EndPass(r, view)

Read == BeginPass /\ UNCHANGED <<env, now, history, failures>>

\* The counts, the consumption and the watermark, from one reading of the clock.
Account ==
  /\ pc = "pass"
  /\ GoTo("finish",
          [mark |-> now, total |-> st.total + Accrued(st.mark, now),
           open |-> Open, within |-> Open < Quota],
          "after")
  /\ UNCHANGED <<fresh, stored, env, now, history, failures>>

\* What the API server stores of the status.
Recorded(s) == [s EXCEPT !.mark = ToSecond(s.mark)]

\* The status is written: nothing happens when it is the stored one, and a conflict is
\* an error.
Save ==
  /\ pc = "finish"
  /\ \/ /\ fresh /\ Recorded(st) # obj
        /\ Store(Recorded(st), TRUE)
        /\ Return("after")
        /\ started' = IF started = None THEN Recorded(st).mark ELSE started
        /\ billed' = st.mark
        /\ counted' = counted + 1
     \/ /\ fresh /\ Recorded(st) = obj
        /\ Return("after")
        /\ UNCHANGED <<stored, history>>
     \/ /\ ~fresh
        /\ Return("requeue")
        /\ UNCHANGED <<stored, history>>
  /\ UNCHANGED <<env, now, failures>>

SaveFails ==
  /\ pc = "finish"
  /\ failures < MaxFailures /\ failures' = failures + 1
  /\ Return("requeue")
  /\ UNCHANGED <<stored, env, now, history>>

Worker == Read \/ Account \/ Save \/ SaveFails

------------------------------------------------------------------------------
(* The clock, the environments and the queue.                              *)

DeliverObject == Deliver /\ UNCHANGED <<env, now, history, failures>>

RequeueLater == TimerFires /\ UNCHANGED <<env, now, history, failures>>

Tick ==
  /\ now < MaxTime
  /\ now' = now + 1
  /\ UNCHANGED <<runtime, env, history, failures>>

\* tenantsInNamespace: an environment's event wakes its namespace's customers.
Becomes(e, s) ==
  /\ env' = [env EXCEPT ![e] = s]
  /\ queued' = TRUE
  /\ UNCHANGED <<stored, timer, pass, now, history, failures>>

Create(e) ==
  /\ ~env[e].there /\ env[e].ready = None
  /\ Becomes(e, [env[e] EXCEPT !.there = TRUE])

\* Its times are stored to the second, too.
Ready(e) ==
  /\ env[e].there /\ env[e].ready = None
  /\ Becomes(e, [env[e] EXCEPT !.ready = ToSecond(now)])

Terminate(e) ==
  /\ env[e].there /\ env[e].ready # None /\ env[e].ended = None
  /\ Becomes(e, [env[e] EXCEPT !.ended = ToSecond(now)])

Remove(e) ==
  /\ env[e].there /\ env[e].ended # None
  /\ Becomes(e, [env[e] EXCEPT !.there = FALSE])

Crash ==
  /\ failures < MaxFailures /\ failures' = failures + 1
  /\ Restart(obj)
  /\ UNCHANGED <<env, now, history>>

Others ==
  \/ DeliverObject \/ RequeueLater \/ Tick
  \/ \E e \in Envs : Create(e) \/ Ready(e) \/ Terminate(e) \/ Remove(e)

Next == Worker \/ Others \/ Crash

Spec == Init /\ [][Next]_vars

------------------------------------------------------------------------------
(* What must hold.                                                         *)

\* A pass within the second of the last one accrues nothing, and so writes nothing
\* that would wake the controller again.
SecondIsFree == \A s \in Sizes : Weight(s) * (Units - 1) < PerUnit

Consumed(es, to) ==
  IF started = None THEN 0
  ELSE MapThenSumSet(LAMBDA e : Weight(env[e].size) * Span(e, started, to), es)

\* "It must be monotonic and durable": an interval is billed once, whatever fails or
\* restarts in between, give or take the second a stored watermark is rounded by, and
\* what is lost of the environments still there is less than a milli-hour of each
\* for each pass.
BilledOnce ==
  /\ PerUnit * obj.total =<
       Consumed(Envs, billed)
         + counted * (Units - 1) * MapThenSumSet(LAMBDA e : Weight(env[e].size), Envs)
  /\ obj.mark # None =>
       PerUnit * (obj.total + counted * Cardinality(Envs)) >= Consumed(There, obj.mark)

==============================================================================
