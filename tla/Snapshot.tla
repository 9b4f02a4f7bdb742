-------------------------------- MODULE Snapshot --------------------------------
(***************************************************************************)
(* The OdooSnapshot controller and the pod it makes: copy production into  *)
(* a work database, neutralize it, mask it, dump it, leave the dump where  *)
(* others take it from (internal/controller/odoosnapshot_controller.go,    *)
(* snapshot_pod.go, anonymize.go).                                         *)
(*                                                                         *)
(* Which script a step runs is fixed when its pod is made; which columns   *)
(* it masks is read from a ConfigMap that every pass writes again.  The    *)
(* work database is named after the snapshot and nothing else.             *)
(*                                                                         *)
(* A pass may come at any moment, so what wakes the controller is left out.*)
(* It has one writer, and reads its object at once.                        *)
(***************************************************************************)
EXTENDS Naturals, FiniteSets

CONSTANTS
  Schemas,     \* the columns, each <<table, column>>, that the source may have
  RuleSets,    \* the columns that the rules of a spec may name
  Engines,     \* the values of spec.mask.engine
  Runs,        \* bound: the pods that may be made, numbers from 1
  MaxEdits     \* bound: edits of the spec

EnginesAreKnown == Engines \subseteq {"Greenmask", "SQL", "Custom"}

VARIABLES
  schema,      \* the columns the source database has
  spec,        \* the object's spec
  conf,        \* the ConfigMap
  cron,        \* the engine in the CronJob's template, or "none"
  job,         \* the pod of the one-off Job, or 0
  st,          \* the object's status
  run,         \* run[r]: a pod
  work,        \* the work database
  dumps,       \* what has been left at the destination
  edits

vars == <<schema, spec, conf, cron, job, st, run, work, dumps, edits>>

\* A pod.  engine: whose scripts it runs; rules, mounted: the ConfigMap it sees, and whose
\* it is; live, clear: of its dump; skipped: its report.  History: asked, the rules the
\* ConfigMap has held ever since it was made; alone, no other ran beside it.
Blank ==
  [step |-> "none", engine |-> "none", rules |-> {}, mounted |-> "none", live |-> FALSE,
   clear |-> {}, skipped |-> {}, asked |-> {}, alone |-> TRUE]
NoConf == [engine |-> "none", rules |-> {}]

Init ==
  /\ schema \in Schemas
  /\ spec \in [engine: Engines, rules: RuleSets, scheduled: BOOLEAN]
  /\ conf = NoConf /\ cron = "none" /\ job = 0
  /\ st = [phase |-> "none", notMasked |-> {}, declared |-> 0]
  /\ run = [r \in Runs |-> Blank]
  /\ work = [there |-> FALSE, live |-> FALSE, clear |-> {}]
  /\ dumps = {} /\ edits = 0

Going(r) == run[r].step \notin {"none", "succeeded", "failed"}

------------------------------------------------------------------------------
(* The controller.                                                         *)

\* ensureConfig: RulesToApply, in the form the engine wants.  Custom gets none.
Config == [engine |-> spec.engine, rules |-> IF spec.engine = "Custom" THEN {} ELSE spec.rules]

\* A pod that is running may go on to use the new rules.
Reask(runs) == [r \in Runs |-> [runs[r] EXCEPT !.asked = @ \cap Config.rules]]

\* One that starts while another goes is not alone, nor is the other.
Started(r, engine, c) ==
  [q \in Runs |->
     IF q = r THEN [Blank EXCEPT !.step = "copy", !.engine = engine, !.asked = c.rules,
                                 !.rules = c.rules, !.mounted = c.engine,
                                 !.alone = \A p \in Runs : ~Going(p)]
     ELSE [run[q] EXCEPT !.alone = @ /\ ~Going(q)]]

Free(r) == run[r].step = "none"

Mounted == conf' = Config /\ run' = Reask(run)

\* The CronJob is never removed, nor is the Job.
EnsureCronJob ==
  /\ spec.scheduled
  /\ cron' = spec.engine
  /\ st' = [st EXCEPT !.phase = "Pending", !.declared = Cardinality(spec.rules)]
  /\ Mounted
  /\ UNCHANGED <<schema, spec, job, work, dumps, edits>>

CreateJob(r) ==
  /\ ~spec.scheduled /\ job = 0 /\ Free(r)
  /\ job' = r
  /\ conf' = Config /\ run' = Reask(Started(r, spec.engine, Config))
  /\ st' = [st EXCEPT !.phase = "Copying", !.declared = Cardinality(spec.rules)]
  /\ UNCHANGED <<schema, spec, cron, work, dumps, edits>>

PhaseOf(r) ==
  CASE run[r].step = "succeeded" -> "Succeeded"
    [] run[r].step = "failed" -> "Failed"
    [] OTHER -> "Copying"

\* applyMaskReport: only greenmask leaves one, and the cache may not show it yet.
ReadJob ==
  /\ ~spec.scheduled /\ job # 0
  /\ \E read \in BOOLEAN :
       /\ read => run[job].step = "succeeded" /\ run[job].engine = "Greenmask"
       /\ st' = [st EXCEPT !.phase = PhaseOf(job), !.declared = Cardinality(spec.rules),
                           !.notMasked = IF read THEN run[job].skipped ELSE @]
  /\ Mounted
  /\ UNCHANGED <<schema, spec, cron, job, work, dumps, edits>>

------------------------------------------------------------------------------
(* A pod, one container after the other.  One that fails ends it: no retry.*)

To(r, step) == run' = [run EXCEPT ![r].step = step]

Fail(r) ==
  /\ Going(r)
  /\ To(r, "failed")
  /\ UNCHANGED <<schema, spec, conf, cron, job, st, work, dumps, edits>>

\* The kubelet brings the mounted ConfigMap up to date.
Sync(r) ==
  /\ Going(r)
  /\ run' = [run EXCEPT ![r].rules = conf.rules, ![r].mounted = conf.engine]
  /\ UNCHANGED <<schema, spec, conf, cron, job, st, work, dumps, edits>>

\* dropdb, createdb, pg_restore: everything, as it is in production.
Copy(r) ==
  /\ run[r].step = "copy"
  /\ To(r, "neutralize")
  /\ work' = [there |-> TRUE, live |-> TRUE, clear |-> schema]
  /\ UNCHANGED <<schema, spec, conf, cron, job, st, dumps, edits>>

Neutralize(r) ==
  /\ run[r].step = "neutralize" /\ work.there
  /\ To(r, "anonymize")
  /\ work' = [work EXCEPT !.live = FALSE]
  /\ UNCHANGED <<schema, spec, conf, cron, job, st, dumps, edits>>

\* mask.sh is one transaction, and a rule on a column that is not there aborts it.
\* Greenmask masks later; the custom image is given an echo to run.
Anonymize(r) ==
  /\ run[r].step = "anonymize" /\ work.there
  /\ run[r].engine = "SQL" => run[r].mounted = "SQL" /\ run[r].rules \subseteq schema
  /\ To(r, "dump")
  /\ work' = IF run[r].engine = "SQL" THEN [work EXCEPT !.clear = @ \ run[r].rules] ELSE work
  /\ UNCHANGED <<schema, spec, conf, cron, job, st, dumps, edits>>

\* A slip: a table one of whose columns is missing loses all of its rules.
PrunedTables(rules) == {c \in rules : \A d \in rules : d[1] = c[1] => d \in schema}

\* greenmaskPrune: the rules on what this database has.
Pruned(rules) == rules \cap schema

\* A greenmask that has rules and is left with none refuses.
Dump(r) ==
  LET masks == run[r].engine = "Greenmask"
      kept == Pruned(run[r].rules)
  IN /\ run[r].step = "dump" /\ work.there
     /\ masks => run[r].mounted = "Greenmask" /\ (run[r].rules = {} \/ kept # {})
     /\ run' = [run EXCEPT ![r].step = "upload", ![r].live = work.live,
                           ![r].clear = IF masks THEN work.clear \ kept ELSE work.clear,
                           ![r].skipped = IF masks THEN run[r].rules \ kept ELSE {}]
     /\ UNCHANGED <<schema, spec, conf, cron, job, st, work, dumps, edits>>

\* And the work database is dropped.
Upload(r) ==
  /\ run[r].step = "upload"
  /\ To(r, "succeeded")
  /\ LET d == run[r]
     IN dumps' = dumps \cup {[engine |-> d.engine, live |-> d.live, clear |-> d.clear,
                              asked |-> d.asked, alone |-> d.alone]}
  /\ work' = [there |-> FALSE, live |-> FALSE, clear |-> {}]
  /\ UNCHANGED <<schema, spec, conf, cron, job, st, edits>>

------------------------------------------------------------------------------
(* The CronJob, which forbids two of its own, and people.                  *)

CronFires(r) ==
  /\ cron # "none" /\ Free(r)
  /\ \A q \in Runs \ {job} : ~Going(q)
  /\ run' = Started(r, cron, conf)
  /\ UNCHANGED <<schema, spec, conf, cron, job, st, work, dumps, edits>>

Edit ==
  /\ edits < MaxEdits /\ edits' = edits + 1
  /\ spec' \in [engine: Engines, rules: RuleSets, scheduled: BOOLEAN]
  /\ UNCHANGED <<schema, conf, cron, job, st, run, work, dumps>>

Pod(r) == Fail(r) \/ Sync(r) \/ Copy(r) \/ Neutralize(r) \/ Anonymize(r) \/ Dump(r) \/ Upload(r)

Next ==
  \/ EnsureCronJob \/ ReadJob \/ Edit
  \/ \E r \in Runs : CreateJob(r) \/ CronFires(r) \/ Pod(r)

Spec == Init /\ [][Next]_vars

------------------------------------------------------------------------------
(* What must hold.                                                         *)

Anonymous(d) == ~d.live /\ d.clear \cap d.asked = {}

\* What a pod leaves for others to take is neutralized, and no column is in clear that the
\* ConfigMap asked to mask for as long as the pod ran: the rules may be edited, the engine
\* changed, columns be missing from the source and steps fail.  Two cases are left out: a
\* pod beside another on the same work database, which may dump the other's, and the engine
\* Custom, whose pod masks nothing.
LeftAnonymous == \A d \in dumps : d.alone /\ d.engine # "Custom" => Anonymous(d)

==============================================================================
