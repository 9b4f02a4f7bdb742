-------------------------------- MODULE Backup --------------------------------
(***************************************************************************)
(* The OdooBackup controller and its retention policy                      *)
(* (internal/controller/odoobackup_controller.go, api/v1alpha1/retention). *)
(* A run, which a CronJob starts, removes the copies it was told to, takes *)
(* a new one and reports what is then on the volume.  The controller reads *)
(* the newest report it can, decides which copies are superseded and puts  *)
(* them into the template of the next run.  So what a run removes was      *)
(* decided from an earlier report, under an earlier policy.                *)
(*                                                                         *)
(* A copy is the time it was taken.  A pass is woken by a timer of a       *)
(* minute and by Jobs, and may come at any time.                           *)
(***************************************************************************)
EXTENDS Naturals, Sequences, FiniteSetsExt

CONSTANTS
  Periods,    \* Periods[r]: the length of the period of rule r: a day, a week
  Policies,   \* the retention policies people choose: Policies[r] is how many
  ByHand,     \* a file somebody put on the volume, whose name is no time
  History,    \* the pods of past runs that are still there
  Fits,       \* how many names a report can hold
  MaxTime,    \* bound: the clock
  MaxFailures,\* bound: runs and calls that fail
  MaxEdits    \* bound: edits of the policy

RetentionAssumption ==
  /\ Periods \in [DOMAIN Periods -> Nat \ {0}]
  /\ Policies \subseteq [DOMAIN Periods -> Nat]
  /\ ByHand \notin 0..MaxTime
  /\ History \in Nat \ {0} /\ MaxTime \in Nat

VARIABLES
  clock,     \* when the next copy is taken
  volume,    \* what is on the volume
  run,       \* the run in progress
  pods,      \* the reports of the runs, the newest first
  pods_,     \* the same as the cache shows it
  policy,    \* spec.retention
  policy_,   \* the same as the cache shows it
  status,    \* copies and pending
  template,  \* what the CronJob's next run removes
  pass,      \* the pass in progress
  ever,      \* history: every copy that was taken
  least,     \* history: the least any policy wanted, rule by rule
  failures, edits

cluster == <<clock, volume, run, pods>>
caches  == <<pods_, policy_>>
history == <<ever, least>>
bounds  == <<failures, edits>>
vars == <<cluster, caches, policy, status, template, pass, history, bounds>>

Rules == DOMAIN Periods
Copies == 0..(MaxTime - 1)
NoPass == [at |-> "idle", copies |-> {}, pending |-> {}, fresh |-> FALSE]
NoRun == [at |-> "idle", remove |-> {}]

\* A report: nothing while a pod runs, when it is killed and when it says too much; the end
\* of its log when it fails, which reads as an empty listing; or the listing.
Report(kind, files) == [kind |-> kind, files |-> files]

Init ==
  /\ clock = 0 /\ volume \in {{}, {ByHand}} /\ run = NoRun
  /\ pods = <<>> /\ pods_ = <<>>
  /\ policy \in Policies /\ policy_ = policy
  /\ status = [copies |-> {}, pending |-> {}]
  /\ template = {} /\ pass = NoPass
  /\ ever = {} /\ least = policy
  /\ failures = 0 /\ edits = 0

------------------------------------------------------------------------------
(* Retention.                                                              *)

\* dayKey, weekKey, monthKey.
Key(r, c) == c \div Periods[r]

\* A slip: so many copies, not so many periods.
NewestPerPeriodCopies(copies, r, n) ==
  {c \in copies : Cardinality({d \in copies : d > c}) < n}

\* markNewestPerPeriod: the newest copy of each of the newest periods that have one.
NewestPerPeriod(copies, r, n) ==
  {c \in copies :
    /\ \A d \in copies : d > c => Key(r, d) # Key(r, c)
    /\ Cardinality({Key(r, d) : d \in {d \in copies : d > c}}) < n}

\* Retain: what any rule wants is kept.  "A policy that keeps nothing keeps everything."
Retain(copies, wanted) ==
  IF \A r \in Rules : wanted[r] = 0 THEN copies
  ELSE UNION {NewestPerPeriod(copies, r, wanted[r]) : r \in Rules}

\* splitUndatable.
Dated(files) == files \ {ByHand}

------------------------------------------------------------------------------
(* A pass.                                                                 *)

\* lastListing: the newest report with anything in it.
Silent(i) == pods_[i].kind = "nothing"
IsLast(i) == ~Silent(i) /\ \A j \in 1..(i - 1) : Silent(j)

Decided(keep, drop) ==
  /\ pass' = [at |-> "commit", copies |-> keep, pending |-> drop, fresh |-> policy_ = policy]
  /\ template' = drop

\* The decision, and the CronJob applied with it before the status says it.  Without any
\* report the status stays as it is.
Decide ==
  /\ pass.at = "idle"
  /\ \/ /\ \A i \in DOMAIN pods_ : Silent(i)
        /\ Decided(status.copies, status.pending)
     \/ \E i \in DOMAIN pods_ :
          /\ IsLast(i)
          /\ LET listing == Dated(pods_[i].files)
                 keep == Retain(listing, policy_)
             IN Decided(keep, listing \ keep)
  /\ UNCHANGED <<cluster, caches, policy, status, history, bounds>>

\* commitBackup: a conflict with somebody's edit is an error.
Commit ==
  /\ pass.at = "commit"
  /\ status' = IF pass.fresh THEN [copies |-> pass.copies, pending |-> pass.pending] ELSE status
  /\ pass' = NoPass
  /\ UNCHANGED <<cluster, caches, policy, template, history, bounds>>

\* The manager dies, or the apply or the write fails.
PassFails ==
  /\ pass.at = "commit"
  /\ failures < MaxFailures /\ failures' = failures + 1
  /\ pass' = NoPass
  /\ UNCHANGED <<cluster, caches, policy, status, template, history, edits>>

------------------------------------------------------------------------------
(* A run: backupScript.                                                    *)

Operator == <<caches, policy, status, template, pass>>

Reported(report) == pods' = SubSeq(<<report>> \o Tail(pods), 1, Min({History, Len(pods)}))

\* ForbidConcurrent: one run at a time.
Start ==
  /\ run.at = "idle" /\ clock < MaxTime
  /\ run' = [at |-> "prune", remove |-> template]
  /\ pods' = SubSeq(<<Report("nothing", {})>> \o pods, 1, Min({History, Len(pods) + 1}))
  /\ UNCHANGED <<clock, volume, Operator, history, bounds>>

Prune ==
  /\ run.at = "prune"
  /\ volume' = volume \ run.remove
  /\ run' = [run EXCEPT !.at = "copy"]
  /\ UNCHANGED <<clock, pods, Operator, history, bounds>>

Copy ==
  /\ run.at = "copy"
  /\ volume' = volume \cup {clock} /\ ever' = ever \cup {clock}
  /\ clock' = clock + 1
  /\ run' = [run EXCEPT !.at = "list"]
  /\ UNCHANGED <<pods, Operator, least, bounds>>

\* A termination message is cut at its limit, and what is left does not parse.
List ==
  /\ run.at = "list"
  /\ Reported(IF Cardinality(volume) <= Fits THEN Report("listing", volume) ELSE Report("nothing", {}))
  /\ run' = NoRun
  /\ UNCHANGED <<clock, volume, Operator, history, bounds>>

\* A step fails and the log is the report, or the pod is killed and there is none.
RunFails ==
  /\ run.at # "idle"
  /\ failures < MaxFailures /\ failures' = failures + 1
  /\ \/ Reported(Report("log", {}))
     \/ UNCHANGED pods
  /\ run' = NoRun
  /\ clock' = IF run.at = "list" THEN clock ELSE clock + 1
  /\ UNCHANGED <<volume, Operator, history, edits>>

------------------------------------------------------------------------------
(* The caches, and people.                                                 *)

DeliverPods ==
  /\ pods_ # pods /\ pods_' = pods
  /\ UNCHANGED <<cluster, policy, policy_, status, template, pass, history, bounds>>

DeliverPolicy ==
  /\ policy_ # policy /\ policy_' = policy
  /\ UNCHANGED <<cluster, pods_, policy, status, template, pass, history, bounds>>

Edit(p) ==
  /\ p # policy
  /\ edits < MaxEdits /\ edits' = edits + 1
  /\ policy' = p
  /\ pass' = [pass EXCEPT !.fresh = FALSE]
  /\ least' = [r \in Rules |-> Min({least[r], p[r]})]
  /\ UNCHANGED <<cluster, caches, status, template, ever, failures>>

Next ==
  \/ Decide \/ Commit \/ PassFails
  \/ Start \/ Prune \/ Copy \/ List \/ RunFails
  \/ DeliverPods \/ DeliverPolicy
  \/ \E p \in Policies : Edit(p)

Spec == Init /\ [][Next]_vars

------------------------------------------------------------------------------
(* What must hold.                                                         *)

PeriodsOf(copies, r) == {Key(r, c) : c \in copies}

\* "Nothing is removed because time passed; things are removed because NEWER copies took
\* their place": every rule has as many periods on the volume as it wants, or as ever
\* had a copy, whatever was decided from which report under which policy.
RetentionKeeps ==
  \A r \in Rules :
       LET had == Cardinality(PeriodsOf(ever, r))
       IN Cardinality(PeriodsOf(Dated(volume), r)) >= Min({least[r], had})

==============================================================================
