# doblura in TLA+

doblura is a Kubernetes operator for Odoo, written with controller-runtime.
Its own logic is not in any one computation but in what its reconcilers do
when the copies they read are late, their writes are refused, Jobs come and
go, and the manager dies between two steps. That is what these modules model:
the reconcilers as processes over shared objects, and what they promise
about environments, restores, rehearsals and upgrades. Line numbers refer to
`src/`; `PROJECT.json` maps every definition to the lines it stands for.

## The system

| Part | State it keeps | Operations | What is hard | What makes it correct |
|---|---|---|---|---|
| OdooEnvironment controller (`odooenvironment_controller.go`) | conditions of the phases, `phase`, `pausedBy`, `readyAt`, `terminatedAt`; one Job per phase; Deployments; Ingress | a pass: finalizer, expiry, next phase, workload, handover check, Ingress, commit | late caches, refused commits, no event after a phase, TTL only a timer | nothing the pipeline made served unhardened; phases in order, once; a pause survives; the TTL deletes |
| its finalizer (same file, 844-950) | the Job `<name>-dropdb`, which nobody owns; the database outside the cluster | apply, read, give up, delete the Job, release | the name is used again; Odoo still connected; the deadline | deletion waits, completes and spares the next of the name |
| OdooRestore (`odoorestore_controller.go`) | `Restored` condition, `startedAt`; the environment's `pausedBy`; one Job | check the copy, pause, run the Job, resume, record | two restores, three caches, failures that are recorded and retried | own pause while replacing; final; at most once |
| OdooRehearsal (`odoorehearsal_controller.go`) | phase, `startedAt`, three Jobs | start, time out, apply the Job, advance, record | no timer, stalls, an image edited under a Job | order, budget, final result, an end |
| TenantGuard (`webhook/tenant.go`) | none; reads the record and the rehearsal | admit or refuse an edit of a customer | evidence and edit race | a default image crosses majors only on evidence |
| Quota and creator webhooks (`webhook/quota.go`) | none | fill in and refuse one environment; count and admit | count, then create; who fills in a field last | limits hold but for a race; no mistake is assembled |
| RestoreStamp webhook (`webhook/restorer.go`) | a field of the restore | stamp whether to copy first | decided at creation, carried out later | what a production held is copied |
| Certificates (`webhook/certs.go`, `cabundle.go`) | a Secret, two webhook configurations | create or reuse; lead; stamp | replicas race; the leader's CA | every replica trusted |
| OdooRelease | `lastMovedAt`, phase, rows; the customers' records | move a batch, soak, save | moves before the save; no event | batch and soak bound exposure; it completes |
| OdooTenant | milli-hours, watermark | count, accrue | two roundings, repeated passes | an interval is billed once |
| OdooBackup, retention | copies, prune list, CronJob | report, keep, drop, schedule | a list acted on later | what the policies keep is kept |
| OdooDatabase, OdooInstance | `placedOn`, counts, probe | place, count, observe | counts from a cache; who wakes whom | room is taken; `maxDatabases` |
| RunboatLink | ids carried out, mirror | poll, act, record | acting before recording | an action once, but for lost records |
| ReviewSet | tracked refs, environments | poll, delete, create | the cap, late lists, failures | environments follow the refs |
| OdooBuild, image study | outcome of a Job; a report per catalogue entry | build, resolve, study, collect | names reused by another image | the entry that means an image is studied |
| OdooSnapshot | phase of a Job, a CronJob, a ConfigMap of rules | copy, neutralize, mask, dump | rules edited under a pod, columns missing | a dump is anonymous |
| console (`internal/console`) | a cookie per choice, the clusters read at its start, a cache of accounts | ask every cluster, merge; read, apply a form, update | a goroutine per cluster, several people, a restart | a silent cluster is named; no edit is overwritten |
| edge, pods, scripts, metrics, commands, charts | none of their own | rendering, calls | — | — |

How they meet: a restore stops an environment by writing `status.pausedBy`
into its object; the environment controller keeps the field and scales to zero;
and the restore's Job puts a copy in the place of the environment's database.
A phase Job, a restore Job and `dropdb` write one database. A rehearsal's phase
is what the tenant webhook and the releases read. Releases edit customers,
customers' changes wake environments. All of them meet in the API server, by
versions, and in the caches of one manager.

## Modules

| Module | Models | Lines of the code |
|---|---|---|
| `ControllerRuntime` | one object and one reconcile loop over it: cache, versions, queue, timer, restart | external library, as the code uses it |
| `Environment` | the environment controller, the cluster, people, restores | `odooenvironment_controller.go` 68-343, 453-687, 773-836, 952-1017 |
| `ServingGate` | the abstract promise: fill and harden until opened, open only what is hardened or what a restore, which may come at any time, has brought | — |
| `EnvironmentProofs` | the proofs about `Environment` | — |
| `EnvironmentFinalizer` | the end of an environment, and the next of its name | `odooenvironment_controller.go` 838-950, `envpod.go` |
| `OdooRestore` | restores into one environment | `odoorestore_controller.go` |
| `OdooRestoreProofs` | the proofs about `OdooRestore` | — |
| `Rehearsal` | one rehearsal | `odoorehearsal_controller.go` |
| `RehearsalProofs` | the proofs about `Rehearsal` | — |
| `MajorUpgrade` | the catalogue default and its guard; EXTENDS `Rehearsal` | `webhook/tenant.go` 54-147 |
| `MajorUpgradeProofs` | the proofs about `MajorUpgrade`, on top of those about `Rehearsal` | — |
| `OdooRelease` | a rollout, customer by customer | `odoorelease_controller.go` |
| `Accounting` | the meter of a customer | `odootenant_controller.go` |
| `EnvironmentAdmission` | what becomes of one object: schema, purpose, customer, rules | `webhook/quota.go`, CEL rules of `odooenvironment_types.go` |
| `EnvironmentQuota` | both counts, among several creates | `webhook/quota.go`, `webhook/tenant.go` 150-180 |
| `RestoreStamp` | the safety copy, from admission to the Job | `webhook/restorer.go`, `odoorestore_controller.go` |
| `Backup` | runs, reports, `Retain` and the prune list | `odoobackup_controller.go`, `retention.go` |
| `Placement` | instances counted and probed, databases placed | `odoodatabase_controller.go`, `odooinstance_controller.go`, `instance_probe.go`, `placement.go` |
| `RunboatLink` | the mirror and the actions | `runboatlink_controller.go`, `runboat.go` |
| `ReviewSet` | refs and their environments | `reviewset_controller.go`, `forge.go` |
| `Snapshot` | the controller, and the steps of its pod | `odoosnapshot_controller.go`, `snapshot_pod.go`, `anonymize.go` |
| `ImageStudy` | build, catalogue entry, study | `odoobuild_controller.go`, `imagestudy.go` |
| `Certificates` | replicas, the Secret, the configurations | `certs.go`, `cabundle.go` |
| `Everywhere` | the console's pages about every cluster | `fanout.go`, `clusters.go`, the merges of `objects.go`, `views.go`, `dashboard.go` |
| `TenantForms` | what people change of a customer from the console | `images.go`, `repos.go`, `webhook/tenant.go` |
| `Operator` | what eleven components must never do, for every value of their constants | — |
| `RequestProofs` | the proofs about `EnvironmentAdmission`, `EnvironmentQuota`, `RestoreStamp`, `TenantForms` and `Everywhere` | — |
| `FinalizerProofs` | the proofs about `EnvironmentFinalizer` | — |
| `WorkProofs` | the proofs about `Snapshot`, `RunboatLink`, `OdooRelease` and `Backup` | — |
| `AccountingProofs` | the proofs about `Accounting`, and of sums over finite sets | — |
| `MCOperator` | `Operator` over small instances | — |
| `MCProgress` | seven components, for liveness | — |
| other `MC...` | instances for TLC | — |

**State.** `obj` is what the API server has, `view` the cache, `snap` what the
pass in progress read, `st` the status it means to write. Versions are not
counted: `current` says that the cache has the stored version, `fresh` that
nobody has written since the pass read. A write from a stale version is
refused, and the error queues the key again, unless the code drops it.

**Steps.** A pass is cut where another actor can matter: at each read from a
cache, each write, each return. The name of an action is that of the function
or of the branch. `pc` is the step the pass is at. The status a pass writes
is computed in one operator (`AfterPhase`, `Advance`, `Fail`), what it asks
of the queue in another (`ResultAfterPhase`, `ResultAfter`,
`RequeueForLifecycle`), because the two go wrong separately.

**Wake-ups.** `Store(o, wakes)` says whether the event passes
`GenerationChangedPredicate`: status writes do not, specs and deletions do.
Job and Deployment events always wake (`Owns` without a predicate), except
`dropdb`'s, which nobody owns. The restore controller has no predicate. An
unrelated event (another object of the customer, a resync) may come at any time
(`UnrelatedEvent`, `Resync`), and liveness does not count on it, except where
said below.

**Abstractions.** A Job is none, running, or ended in one of the ways the code
tells apart. A database is the set of phases its contents have been through, with
`copy` among them when a restore has put them there, or the life it belongs to. A variable whose
comment says "(a history)" is written by the steps and read by properties only. Time is a flag that a deadline has passed. An API call that
fails and makes the pass return an error is an action (`CallFails`,
`ReleaseFails`, `ApplyJobFails`, `WriteStatusFails`), and so is one whose error
the code drops (`ExpiryMayFail`). Scripts, sizes, URLs and wording are left out.
A definition whose comment begins "A slip:" is not part of the model: it is a
bug of the kind the property beside it is there to catch.

## Runs

| Run | Question | Instance | States |
|---|---|---|---|
| `EnvironmentSafety` | is what the pipeline made served hardened only, do phases run in order and stay put, do pause and record survive | Snapshot, no engine (restore, harden), one restore, one edit, Jobs and Deletes may fail, TTL | 5.6 M |
| `EnvironmentTTL` | does any environment expire | Demo data, Jobs may fail | violated |
| `FinalizerDatabase` | is the database gone | one life, drops that work | violated |
| `RestoreSafety` | do two restores keep apart | two restores (symmetric), late caches, restarts | 1.7 M |
| `RestoreProgress` | is a result final, is the end of a Job noticed | one restore, Jobs removed, one mishap (the copies change, or a call fails) | 0.7 M |
| `RestoreTwice` | does a restore run once | one restore, Jobs removed | violated |
| `RestoreUnderOdoo` | is Odoo stopped first | one restore | violated |
| `RehearsalHangs` | does `hardTimeout` end a rehearsal that hangs | one rehearsal | violated |
| `Upgrade` | order, budget, finality, end of a rehearsal; evidence for an upgrade | three images of two majors, one edit, one failed call, two changes of the record | 0.7 M |
| `Operator` | what eleven components must never do | below | 2.1 M |
| `Progress` | what seven components must eventually do | below | 0.3 M |
| `PlacementCeiling` | is `maxDatabases` a ceiling | one instance with one place, two databases, nothing fails | violated |

`Operator` and `MCProgress` hold several components that share no state. A variable
`which`, chosen in the initial state, says whose behaviour this is: only
that component moves, and its properties are asked of the behaviours that are its own. So
the state space is the sum of the components' and not their product, and each
component is checked as if it were alone, from every one of its initial states; the
others stay in one of theirs, which `MCInit` of `MCOperator`, and `Init` of `MCProgress`, fix
where they have several. Deadlock is not
checked in these two runs, because components that rest (a request that has been
answered, an environment that is gone, a list of edits used up) are meant to.

| Component | Run | Instance |
|---|---|---|
| `Accounting` | `Operator` | one environment of two sizes, five ticks, two ticks a second, a milli-hour of seven units, one failure |
| `EnvironmentAdmission` | `Operator` | every purpose with every lifecycle, data, filestore and replicas; with every exposure; with every image; seven customers, the record of each read or not |
| `EnvironmentQuota` | `Operator` | two names, a person and the operator, two customers (quotas 0 and 1, a limit of 1 per person), one edit, marks |
| `RestoreStamp` | `Operator` | two backups, two edits |
| `Backup` | `Operator` | a day of two ticks and a week of four, three policies, five ticks, reports of three names, one edit, one failure |
| `RunboatLink` | `Operator` | two ids, one record kept, two requests, two edits, one failure |
| `Snapshot` | `Operator` | three columns in two tables, three sources, two sets of rules, two engines, two pods, one edit |
| `Everywhere` | `Operator` | the local cluster and two remote ones, three kinds of page, restarts |
| `TenantForms` | `Operator` | two people, three entries of two majors, one rehearsed, four writes |
| `EnvironmentFinalizer` | `Operator` | two lives, one failed call, one foreign write |
| `OdooRelease` | `Operator` | three customers, batches of one, one failure or crash |
| `OdooRelease` | `Progress` | two customers, batches of one, one failure or crash |
| `Placement` | `Progress` | one instance with one place and a reserve, two databases, one failure |
| `ReviewSet` | `Progress` | three refs of which two are watched, a page of two, caps of one and two, one change (of a ref, a label, the cap or an environment), one failure |
| `ImageStudy` | `Progress` | one named image and two digests, one edit, one failure |
| `Certificates` | `Progress` | two replicas, one configuration, two attempts, three faults |
| `Environment` | `Progress` | Snapshot without engine, Jobs that succeed, TTL |
| `EnvironmentFinalizer` | `Progress` | one life, one failed call |

### Why the bounds are enough

Edits and failures are bounded by one: each lets one version go stale or
one pass be given up at any moment, and passes, conflicts, late caches,
restarts and removed Jobs are not bounded at all. One worker means a second
concurrent pass does not exist. Two restores are enough for one to hold the
pause of the other, and the third would wait as the second does; two lives
are enough for a Job of the first to meet the second. Two phases let a late
copy be behind by one and by all; the order of three, with the engine's
migrate phase between them, is in the proofs, which hold for every kind of data.
Symmetry is only used in a run without liveness.

In `Operator` and `Progress` each bound is the least at which the hazard happens: a
batch of one of two or three customers leaves somebody to move too early; one place for two
databases makes one wait for the other; a page of two of three refs hides one that is watched, or not, and caps
of one and two for two that are watched make the order, the removal and the edit of the cap matter; one record kept of two ids lets one push the other out; five ticks hold a pass
before, at and after the start and end of an environment on either side of a
second; three copies in a report let days and weeks overlap and a later policy want
what an earlier one dropped; two replicas are what it takes to race, three faults let
one of them die, the Secret go and the configuration be reset. Two clusters
besides the local one let one answer for another while a third is silent; four writes
let somebody promote, remove, add and status be written between the read and the update of
another. `Snapshot` has the CronJob's pod beside that of a Job, and its property leaves
such a pair out (see below).

### Fairness

The worker, the caches, the timers and the Deployments are weakly fair: the
manager runs, the watch delivers, and each is always attended to if it has
something to do. Jobs end (weakly fair) where the question is whether the
controller notices; in `RehearsalHangs` they need not, and in the finalizer
a drop need not. People are never obliged to do anything. Liveness is
asked of behaviours in which the manager eventually stops dying and, where
failing calls are not bounded, they eventually stop failing (`StaysUp`,
`Settles`): one that dies or fails in every pass does nothing. The resync, ten hours by
default, is counted on in one place: `JobEndIsSeen` needs it, because a
second failed pass within one second writes an identical status and nothing
else wakes the restore. A timer is a minute or more, the cache milliseconds:
a timer fires with the cache up to date. A restore Job takes longer than the
cache is late (`EndJob` of `OdooRestore`), as does a person who cleans up a
finished Job (`RemoveJob` of `Environment`).

In the other modules: the worker, the caches and the timers again. `OdooRelease`
counts on customers being rehearsed and on time passing (`SoakPasses`, strongly fair because
the model stops the clock during a pass); neither is asked of the controller.
`Placement` counts on an instance coming round by its own `RequeueAfter` and on probes
ending, and asks nothing of what wakes a database but the instance's events.
`ReviewSet` counts on finalizers ending, `ImageStudy` on pods being scheduled and
garbage collected, `Certificates` on replicas being started again and one of them
leading. Edits, failures and crashes are bounded and never fair: the liveness
properties speak of what comes after the last of them.

## What the runs show

**Environments.** Nothing that the pipeline has filled in or worked on is served before the
harden phase has been over it (`ServedOnlyHardened`). A restore is outside that promise: it
replaces the contents of an environment that is open, or whose pipeline is not done, and what it
brought is then served as it is, for no harden phase follows one that is already recorded. The model
has the replacement (`Replace`), at any time the restore has its pause, under a running phase too
(`EndTornJob`), and `ServedOnlyHardened` excepts the untouched copy and nothing else. A phase runs alone, on the results of those
before it or on such a copy (`PhaseRunsOnItsInput`), and no phase starts once there is a
workload, whatever happens to the old Jobs (`NoPhaseOnceOpened`): the
condition, not the Job, is what the code goes by, and a commit from an old copy
is refused (`NothingForgotten`). The same refusal is what keeps
a restore's pause (`PauseSurvivesPasses`). The controller implements
`ServingGate` (`KeepsTheGate`). With Jobs that succeed the pipeline comes to its
workload without an event nobody sends (`EventuallyServed`), and a serving
environment is deleted at its TTL (`ReadyExpires`), with `terminatedAt` stored
before (`ExpiryIsRecorded`).

**Finalizer.** A released environment has no `dropdb` of its own running, before
the deadline and when its calls go through (`DropIsWaitedFor`); no drop empties the
database of the next of the name (`SparesTheReplacement`) but in two ways that the code leaves
open; and it goes, though the drop never ends (`DeletionCompletes`). The two ways: a pass with an old
copy applies the Job again after the release, or one that cannot apply it leaves the one that is there
(`stray`); and the pod of a Job deleted at the deadline lives until the garbage collector comes
(`orphans`). Both are needed: TLC refutes the property without either. `DropIsWaitedFor` is stated
for the first environment of a name, undisturbed: the second may take a stray Job that has finished
for its own, and goes without a drop.

**Restores.** A Job runs only while its own restore has the pause
(`ReplacedOnlyWhilePaused`), so two never run at once; a pause ends only by
its owner (`OnlyTheOwnerResumes`); a record that is over does not change
(`TerminalIsFinal`); and the end of a Job is noticed (`JobEndIsSeen`).

**Rehearsals and upgrades.** Jobs run in order (`JobsInOrder`), Succeeded means
all three succeeded within the budget (`SuccessIsEarned`), a result is final
(`ResultIsKept`) and there is one in the end when Jobs end
(`RehearsalEnds`). A default image crosses majors only after such a
rehearsal (`CrossingIsEarned`), whose Jobs ran that image, if it was not
edited (`CrossingIsOfTheImage`).

**Admission.** Whichever of schema, purpose, customer and rules fills in a field,
no production is created that is not live and for good, no open public environment and,
when the webhook could read the customer's record, no card data outside a production and no
staging or production whose files are lost (`NoMistakeIsCreated`). The last has an exception, which
the code lets through and the model has: a customer's default storage that names no filestore
(`Empty`) is laid over the one the purpose filled in. A record that could not be read has its rules
skipped (`found`). A JSON patch that replaces a member that is not there is
taken to add it, as the API server's library does for an object. The two limits
are passed only by creates that were between their count and their
storage, by edits, and by the operator's own environments (`WithinLimits`).

**What is restored.** Before a production is replaced what it held is on a volume, and
so is what any environment held whose author was promised a copy, though the
backups have been edited since (`ReplacedIsCopied`): the controller looks again and
fails rather than going without.

**Releases.** Within a soak no more customers move than a batch, except for
one batch for every pass that moved some and could not save it (`BatchesSoak`); the
exception is what the order of the writes costs. The rollout of a named image
ends when its customers are rehearsed (`RolloutEnds`).

**The meter.** An interval is billed once, whatever fails, to within a second per
pass and a milli-hour per environment and pass (`BilledOnce`).

**Backups.** Every rule has as many periods on the volume as the least that any policy so
far wanted, or as ever had a copy (`RetentionKeeps`), though a run removes what was decided
from an earlier report under an earlier policy.

**The console.** On a page about every cluster, what stands under a cluster's name came from
that cluster, and one that did not answer, or may not be read, is named
(`EveryClusterIsSaid`). What a person stores of a customer is their form over the record as it
stood, though others and the tenant controller write it too, and only a promotion moves the
default mark off an entry that stays (`EditsAreInTurn`).

**Placement.** A database without a place gets one while some instance keeps having one
(`RoomIsTaken`), for an instance's events wake it; that the place may be given
twice is the finding below.

**Runboat.** An id is carried out again only for a record that was not saved, or that
newer ones pushed out (`RepeatsAreExcused`).

**Review sets.** Once left alone, the environments are those of the first watched refs up to the
cap, whatever the cap is by then (`EnvironmentsFollowRefs`), "first" being of the one page the forge
gives: the watched ones are picked out of the page, so one beyond it is not found though the page
holds none.

**Images.** An entry that means an image comes to have an answer stored under that image and
keeps it (`EntryIsStudied`). That the answer was read from a pod of that image is claimed of an entry
and a build left alone from the start: pods are found by their Job's name, and the one of the
image the entry meant before may still be there. **Snapshots.** What a pod publishes is neutralized and masked as
the rules asked throughout its run (`LeftAnonymous`). **Certificates.** Replicas that settled
on the present Secret come to be trusted (`EveryReplicaTrusted`).

### Where the code and its text disagree

Each has a run that TLC refutes.

- *TTL* (`EnvironmentTTL`): an environment whose phase failed before its TTL is
  not deleted at its TTL. The failing pass returns a plain `Result{}`.
- *Database* (`FinalizerDatabase`): Odoo is connected until the object is gone, and
  `dropdb` is refused until then; a failed drop releases the object all the same.
- *At most once* (`RestoreTwice`): the condition that makes a restore final is
  written when its Job is seen to have ended, not before it is created.
- *Stopped first* (`RestoreUnderOdoo`): the pause is written and the Job created in
  one pass, which waits for nothing.
- *hardTimeout* (`RehearsalHangs`): a hanging Job causes no pass.
- *Ceiling* (`PlacementCeiling`): `maxDatabases` is called a hard ceiling; two databases
  placed between two passes of the instance controller both take the last place.

Others were seen while modelling and have no run. The models contain them, and the
properties are worded so as not to promise the contrary:

- a conflict while expiring ends the pass with a plain `Result{}`, though the
  comment says requeue (807-811), and the error of the Delete is dropped (813);
- a handover that is refused later leaves the Ingress that is there (169-173);
- past the deadline, the pod of the deleted `dropdb` Job may drop the
  database of a successor (940);
- a restore refused for want of a safety destination says nothing has been changed
  but has paused the environment (`odoorestore_controller.go` 104-114);
- a failed restore may not be able to resume, says it has, and is final (150-153);
- a late pass may pause the environment again after its restore succeeded (104);
- the image of a rehearsal may be edited after the fact (`tenant.go` 138), and a default
  that is taken away and added again crosses majors without evidence (79-101);
- a release says it resolves its image once and resolves it at every pass
  (`odoorelease_controller.go` 65-69); the model has one image;
- the error of listing environments is dropped for the overview and the customers of a
  cluster (`console/dashboard.go` 181, `console/views.go` 240): it counts as one with none,
  which `fanout.go` 17-21 calls reporting an outage as calm; `EveryClusterIsSaid` is about the
  list of each page;
- a form does not carry the cluster of the page it is on: it goes to the one in the cookie,
  which another tab, or a restart over other clusters, may have changed since
  (`console/auth.go` 158, `clusters.go` 80-94), against `kube.go` 176-178;
- the settings of an environment are read when the form is posted, not when it is shown, so
  an older form overwrites what was stored in between without the conflict that
  `console/settings.go` 28-30 promises; the forms of `TenantForms` say one thing each;
- two customers may both become the default of a namespace (`tenant.go` 164);
- a restore is accepted into an environment in any phase and replaces the contents of one that is
  served, or under a running phase, with no harden phase after it (`odoorestore_controller.go`
  244-394), against `odooenvironment_types.go` 932-936: "until it finishes, the environment is NOT
  exposed. Serving an Odoo with the freshly restored dump, even for one second, means serving the
  known password to the internet";
- a pass with an old copy applies the `dropdb` Job again after the release
  (`odooenvironment_controller.go` 889), and one whose apply fails leaves an earlier Job (889-892), against
  859-862: "so the thing that outlived the object cannot go on to destroy its replacement";
- a customer's default storage without a filestore replaces the one of the purpose (`quota.go` 386-388),
  and the rules look at a filestore only where there is one: a staging or production with no filestore
  is created, though `odooenvironment_types.go` 448 says that it "cannot keep its filestore in an emptyDir",
  which is what no filestore means (1381-1384); in the same way a Persistent environment without a
  purpose needs no storage at all (470-472);
- `purposeOps` replaces the whole of `spec.data` (`quota.go` 694-697), so that a `data.snapshot` given
  without a type is dropped and the request refused for want of it, against 666: "Only where they are
  empty, and never over something the person wrote";
- any error in reading the customer record skips its rules (`quota.go` 229-236); the comment there
  leaves a missing record to the validating half, which lets it pass (556-566);
- the answer of a study is read from pods by the name of their Job, of which the one of the image
  before is deleted in the background (`imagestudy.go` 181, 312-348): the final answer about an image may be
  the report of another, or that another could not be pulled, against 136-139 ("does not leave a stale one looking
  current") and `odootenant_types.go` 539-540;
- a build whose Job ends before its digest is in the cache is failed for good, and
  the image is there (`odoobuild_controller.go` 193);
- a snapshot whose schedule is removed keeps its CronJob, which runs on the
  work database of the one-off Job (`odoosnapshot_controller.go` 184), and with the engine Custom
  the masking is that of the image alone.

## Proofs

`EnvironmentProofs` proves of `Environment`, for every kind of data, any set of
restores and every bound, from `EnvironmentAssumption` alone:

| Theorem | Property |
|---|---|
| `TypeCorrect` | `Spec => []TypeOK` |
| `OnlyHardenedIsServed` | `Spec => []ServedOnlyHardened` |
| `PhasesRunInOrder` | `Spec => []PhaseRunsOnItsInput` |
| `NoPhaseRunsAgain` | `Spec => NoPhaseOnceOpened` |
| `ImplementsGate` | `Spec => KeepsTheGate` |
| `PausesSurvive` | `Spec => PauseSurvivesPasses` |
| `NothingIsForgotten` | `Spec => NothingForgotten` |
| `ExpiriesAreRecorded` | `Spec => ExpiryIsRecorded` |

None of the safety properties is inductive. That a workload may exist follows
from conditions in a status that was read some time ago, which were set
because a cache showed a Job as succeeded that may be gone by now. The
inductive invariant `IInv` therefore relates the copies to what is stored:

- `CopiesAreBehind`: what the cache and the pass hold done is done in the stored
  object, the status to be written extends what was read, and a fresh copy is
  equal to the stored one;
- `DoneInOrder`: every copy has the phases done in the order of the pipeline;
- `JobsMatchStatus`: a Job exists only when the phases before it are done; one
  that is running or failed is of a phase not done; one that is missing though
  its phase is done is of a phase the cache and the pass know to be done; a
  Job that a cache shows as succeeded has succeeded;
- `DoneIsReal`: what is done, or succeeded, has been done to the database, unless what is in it
  is a restore's copy;
- `TornIsCopied`: a phase under which a restore replaced the contents is working on that copy;
- `OpenedLast`: a workload or an Ingress exists, or is about to, only when every
  phase is done in the stored object.

The third conjunct of `JobsMatchStatus` is where `RemoveJob`'s guard matters:
remove a finished Job before its end is known and the phase runs again.
The action property and the refinement follow from `IInv` step by step; a step
that fills the database is one of a Job that runs, and then nothing is open, or one of a restore,
which is the gate's `Replace` whether it is open or not.
That nothing is forgotten rests on `CopiesAreBehind`: a status is written only over the
one it was computed from, which it extends.

`OdooRestoreProofs` proves of `OdooRestore`, for any number of restores, from
`RestoreAssumption`:

| Theorem | Property |
|---|---|
| `TypeCorrect` | `Spec => []TypeOK` |
| `PauseIsTheOwners` | `Spec => OnlyTheOwnerResumes` |
| `RecordIsFinal` | `Spec => TerminalIsFinal` |
| `OneRestoreAtATime` | `ASSUME ~JobsMayGo PROVE Spec => []ReplacedOnlyWhilePaused` |

The first three need only that a copy of an object that is said to be current
equals the stored one (`ReadsAreBehind`): whatever was decided from an old
copy, the write that would do harm is refused. The last is about the two
objects together. `JobsAreBehind` says what the caches may say of a Job,
`PausesEndWithJobs` that a restore whose pause is over, though the cache of the
environment still shows it or the pass is about to end it, has a Job that has
ended, and so cannot start one. The theorem assumes that
nobody removes Jobs, and it has to: when the Job is removed while the cache still
shows the environment as paused by its restore, the next pass takes
the pause for granted and creates the Job again, unpaused.

`RehearsalProofs` proves of `Rehearsal`, for any images and bounds, from
`RehearsalAssumption`:

| Theorem | Property |
|---|---|
| `TypeCorrect` | `Spec => []TypeOK` |
| `JobsRunInOrder` | `Spec => []JobsInOrder` |
| `SuccessMeansSuccess` | `Spec => []SuccessIsEarned` |
| `ResultIsFinal` | `Spec => ResultIsKept` |

A pass goes by the phase it read, which may be an old one. `RehearsalInv` says of
every copy of the phase, stored, cached, read or about to be written, that the Jobs
before it have succeeded (`Earned`); that none is ahead of the stored one
(`NotAhead`), which after a failure means that the Job a late pass would
create is there already; that what is about to be written follows from what was read
(`StepsFollow`); and that a Job the cache shows as ended ended like that
(`JobsAreBehind`). `JobsInOrder` is not inductive without the first, `ResultIsKept` not
without the second and third.

`MajorUpgradeProofs` adds the customer's record: `CrossingsAreEarned`
(`UpgradeSpec => CrossingIsEarned`) from `RehearsalInv`, and `CrossingsAreOfTheImage`
(`UpgradeSpec => CrossingIsOfTheImage`) from `OneImage`: while the rehearsal has not
been edited, every copy of it and every Job is of one image. Both hold for any
catalogue and any assignment of majors to images, from the two modules' assumptions.

The other components share `Operator`, in which each has its own constants and variables and a
behaviour is one of one of them. A lemma for each (`CopiesRefined`, `LinkRefined`, ...) says that a
behaviour of `Operator` is one of the component; its properties are proved of the component and
carried over. The components' assumptions are `Operator`'s ASSUMEs. None of these properties is
inductive either:

| Module | Theorem | Property | What the inductive invariant adds |
|---|---|---|---|
| `RequestProofs` | `NoMistakeIsAdmitted` | `NoMistakeIsCreated` | `CreatedIsAdmitted`: what was created is the request as the schema and the webhook left it, past every rule |
| | `LimitsHold` | `WithinLimits` | `RoomIsLeft`: whoever was counted, and not overtaken by somebody else's creation, still fits within what it was counted against |
| | `NothingIsReplacedUncopied` | `ReplacedIsCopied` | `StampIsPromise`: the stamp is what was asked for or, when nothing was, what the environment then was; and nothing is replaced, when a copy was promised, before there is one |
| | `NoClusterIsDropped` | `EveryClusterIsSaid` | `AnswersAreOwn`: an answer under a cluster's name is that cluster's own, and when the page stops waiting all that it asked have one |
| | `NoEditIsOverwritten` | `EditsAreInTurn` | `ObjectIsTheFormApplied`: unless somebody wrote the record since a handler read it, what it means to store is its form applied to the record as it stands |
| `FinalizerProofs` | `TheDropIsWaitedFor` | `DropIsWaitedFor` | `FirstLifeInv`: in the first life, undisturbed, an old copy of the object lacks at most its deletion, a Job that a cache shows as finished is one that finished, and a pass about to release has found it so |
| | `TheReplacementIsSpared` | `SparesTheReplacement` | `SeenAsIs`, `CopiesAreOld`, `JobIsOfADeletion`: a pass that may still write works on the object as it is, any other copy is of it or of an earlier one of the name, and a Job that is not stray is of the deletion in progress, gone before the pass that may release |
| `WorkProofs` | `DumpsAreAnonymous` | `LeftAnonymous` | `AloneGoesAlone`, `AskedIsSeen`, `CleanSoFar`: beside a pod that runs alone none goes; what the ConfigMap has asked for since is what a pod sees; and what a pod alone has done so far is so of the work database and of its dump |
| | `RepeatsHaveExcuses` | `RepeatsAreExcused` | `PassSoFar`, `EachIsRecorded`: every action is in the record, in the one to be written, or was lost and counted |
| | `BatchesAreSoaked` | `BatchesSoak` | `KnowsTheSoak`, `WithinTheBatch`: who has moved and the room that is left make one batch, and one more for each pass that was lost |
| | `RetentionHolds` | `RetentionKeeps` | `NothingVitalGoes`, `NewestAreMany`: below |
| `AccountingProofs` | `MeterIsRight` | `BilledOnce` | `MarksAgree`, `PassKnows`, `NotOver`, `NotUnder`: below |

`RetentionHolds` shows what is behind "things are removed because newer copies took their
place". Call the copies vital that a rule would keep of *all* copies ever taken, wanting the
least any policy wanted. What is decided from an old report is decided of fewer copies and under
some policy so far, and of fewer copies no less is wanted (`WantedOfFewer`): so nothing
vital is ever to go, in the template, in a run, in a pass or in the status. A new copy
makes nothing vital but itself, for it is the newest, and an edit only lowers the least. The
vital copies are of as many periods as are wanted, by induction over the copies taken
(`NewestAreMany`). The runs check five copies and two rules; the proof has any number.

`MeterIsRight` is about a sum over the environments, and `BilledOnce` alone is no invariant of a step:
an environment that terminates ends at the second before the tick it ended at, so what it had
consumed shrinks after it was billed; one that goes takes its share with it. The invariant
counts each environment's consumption with that second added (`Owed`), which only grows, against
what is billed (`NotOver`), and the consumption of those still there, up to a whole second (`Used`),
which no environment's event makes more, against what was not lost (`NotUnder`); both say the same
of what a pass is about to write, one pass further. `PassKnows` ties that to the stored record: a
pass that may still write read the record as it is. What a pass adds (`AccrualIsRight`) follows for
each environment from how three intervals overlap, and is summed. The sums are folds, in other words
recursive functions: `SumsExist` and `SumTakes` show by well-founded induction over the parts of a
finite set (`PartByPart`) that there is one such function and that it may take the elements in any
order, and `SumsCompare` that what holds of the summands holds of the sums. `NotOver` counts a second
for every pass but the first; the one that `BilledOnce` allows besides is that of the ends. The theorem
assumes that the environments are finitely many and that a second and a milli-hour are at least one tick
(`MeterAssumption`); the run has one environment of two sizes and five ticks.

Only model-checked: all liveness, which is what `RestoreProgress`, `Upgrade` and `Progress` check of
it: temporal proofs under fairness, and ENABLED, are out of the prover's reach. Every
other property of a passing run has its theorem.

## Not modelled

Of the console: sign-in, sessions, the scope to one customer and the pages about one object; what
it writes besides customer records is what the models let people write. The edge (WAF, ingress
annotations, database proxy), the templates of pods and most scripts, the addon checkout,
metrics, command lines, charts and generated code have no state of their own.

Inside what is modelled: which servers a database fits (tier and version), the
handover of an environment (its check is a flag that may change), what the copy of a published dump
leaves of an earlier one in its directory, X.509, SQL, sizes and wording. The webhooks are modelled for creates; of updates only `TenantGuard`'s. There is
one namespace; the database name does not contain it (`envpod.go` 87), so environments of one
name in two namespaces would share a database: that is outside the models.

## Plan

1. *Done*: every reconciler and webhook has a module, and so have the console's fan-out and forms;
   every safety property that a run checks has a proof.
2. Compose `OdooRestore` with `Environment`, so that the pause and the commits of
   the environment controller are one model, and show that `Pause`, `Replace` and `Resume`
   are what `OdooRestore` does; a second image in `OdooRelease`; a second
   browser tab in `Everywhere`, with the forms of its pages.
