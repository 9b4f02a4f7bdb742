------------------------------ MODULE Operator -------------------------------
(***************************************************************************)
(* What the components of the operator must never do.  A behaviour is one  *)
(* of one component: which says of which, and the others rest.  Each has   *)
(* the constants and variables of its own module, under a letter of its    *)
(* own; nothing they share is left out, since they share only the API      *)
(* server's objects that their modules have in them.                       *)
(***************************************************************************)
EXTENDS Naturals

CONSTANTS
  A_Envs, A_Sizes, A_Units, A_PerUnit, A_Quota, A_MaxTime, A_MaxFailures,
  D_Asked, D_Records,
  Q_Names, Q_People, Q_Exempt, Q_Tenants, Q_Limit, Q_Quota, Q_NoTenant, Q_MaxEdits,
  T_Backups, T_MaxEdits,
  B_Periods, B_Policies, B_ByHand, B_History, B_Fits, B_MaxTime, B_MaxFailures,
  B_MaxEdits,
  L_Ids, L_Keep, L_MaxAsked, L_MaxRuns, L_MaxEdits, L_MaxFailures,
  S_Schemas, S_RuleSets, S_Engines, S_Runs, S_MaxEdits,
  W_Local, W_Remote,
  G_People, G_Images, G_MajorOf, G_Rehearsed, G_None, G_MaxWrites,
  F_MaxLives, F_MaxFailures, F_MaxTouches, F_DropMayFail,
  R_Customers, R_Size, R_MaxFailures

VARIABLES
  which,  \* the component this behaviour is about
  A_obj, A_view, A_current, A_waking, A_queued, A_timer, A_pc, A_snap, A_fresh,
  A_st, A_res, A_env, A_now, A_started, A_billed, A_counted, A_failures,
  D_request, D_tenant, D_found, D_env, D_answer,
  Q_env, Q_mark, Q_seen, Q_edits,
  T_env, T_holding, T_restore, T_wrote, T_was, T_edits,
  B_clock, B_volume, B_run, B_pods, B_pods_, B_policy, B_policy_, B_status,
  B_template, B_pass, B_ever, B_least, B_failures, B_edits,
  L_obj, L_view, L_current, L_waking, L_queued, L_timer, L_pc, L_snap, L_fresh,
  L_st, L_res, L_remote, L_todo, L_acted, L_ran, L_excused, L_edits, L_failures,
  S_schema, S_spec, S_conf, S_cron, S_job, S_st, S_run, S_work, S_dumps, S_edits,
  W_known, W_cookie, W_page, W_over, W_who, W_answer,
  G_record, G_writes, G_form, G_object, G_latest,
  F_obj, F_view, F_current, F_waking, F_queued, F_timer, F_pc, F_snap, F_fresh,
  F_st, F_res, F_drop, F_dropView, F_dropper, F_orphans, F_stray, F_db, F_connected,
  F_late, F_failures, F_touches,
  R_obj, R_view, R_current, R_waking, R_queued, R_timer, R_pc, R_snap, R_fresh,
  R_st, R_res, R_on, R_onView, R_stale, R_rehearsed, R_built, R_todo, R_listed,
  R_written, R_room, R_rows, R_moved, R_lost, R_failures

Account == INSTANCE Accounting WITH
  Envs <- A_Envs, Sizes <- A_Sizes, Units <- A_Units, PerUnit <- A_PerUnit,
  Quota <- A_Quota, MaxTime <- A_MaxTime, MaxFailures <- A_MaxFailures,
  obj <- A_obj, view <- A_view, current <- A_current, waking <- A_waking,
  queued <- A_queued, timer <- A_timer, pc <- A_pc, snap <- A_snap,
  fresh <- A_fresh, st <- A_st, res <- A_res, env <- A_env, now <- A_now,
  started <- A_started, billed <- A_billed, counted <- A_counted,
  failures <- A_failures

Admission == INSTANCE EnvironmentAdmission WITH
  Asked <- D_Asked, Records <- D_Records, request <- D_request, tenant <- D_tenant,
  found <- D_found, env <- D_env, answer <- D_answer

Quota == INSTANCE EnvironmentQuota WITH
  Names <- Q_Names, People <- Q_People, Exempt <- Q_Exempt, Tenants <- Q_Tenants,
  Limit <- Q_Limit, Quota <- Q_Quota, NoTenant <- Q_NoTenant,
  MaxEdits <- Q_MaxEdits, env <- Q_env, mark <- Q_mark, seen <- Q_seen,
  edits <- Q_edits

Stamp == INSTANCE RestoreStamp WITH
  Backups <- T_Backups, MaxEdits <- T_MaxEdits, env <- T_env, holding <- T_holding,
  restore <- T_restore, wrote <- T_wrote, was <- T_was, edits <- T_edits

Copies == INSTANCE Backup WITH
  Periods <- B_Periods, Policies <- B_Policies, ByHand <- B_ByHand,
  History <- B_History, Fits <- B_Fits, MaxTime <- B_MaxTime,
  MaxFailures <- B_MaxFailures, MaxEdits <- B_MaxEdits, clock <- B_clock,
  volume <- B_volume, run <- B_run, pods <- B_pods, pods_ <- B_pods_,
  policy <- B_policy, policy_ <- B_policy_, status <- B_status,
  template <- B_template, pass <- B_pass, ever <- B_ever, least <- B_least,
  failures <- B_failures, edits <- B_edits

Link == INSTANCE RunboatLink WITH
  Ids <- L_Ids, Keep <- L_Keep, MaxAsked <- L_MaxAsked, MaxRuns <- L_MaxRuns,
  MaxEdits <- L_MaxEdits, MaxFailures <- L_MaxFailures, obj <- L_obj,
  view <- L_view, current <- L_current, waking <- L_waking, queued <- L_queued,
  timer <- L_timer, pc <- L_pc, snap <- L_snap, fresh <- L_fresh, st <- L_st,
  res <- L_res, remote <- L_remote, todo <- L_todo, acted <- L_acted, ran <- L_ran,
  excused <- L_excused, edits <- L_edits, failures <- L_failures

Snap == INSTANCE Snapshot WITH
  Schemas <- S_Schemas, RuleSets <- S_RuleSets, Engines <- S_Engines,
  Runs <- S_Runs, MaxEdits <- S_MaxEdits, schema <- S_schema, spec <- S_spec,
  conf <- S_conf, cron <- S_cron, job <- S_job, st <- S_st, run <- S_run,
  work <- S_work, dumps <- S_dumps, edits <- S_edits

Pages == INSTANCE Everywhere WITH
  Local <- W_Local, Remote <- W_Remote, known <- W_known, cookie <- W_cookie,
  page <- W_page, over <- W_over, who <- W_who, answer <- W_answer

Forms == INSTANCE TenantForms WITH
  People <- G_People, Images <- G_Images, MajorOf <- G_MajorOf,
  Rehearsed <- G_Rehearsed, None <- G_None, MaxWrites <- G_MaxWrites,
  record <- G_record, writes <- G_writes, form <- G_form, object <- G_object,
  latest <- G_latest

Final == INSTANCE EnvironmentFinalizer WITH
  MaxLives <- F_MaxLives, MaxFailures <- F_MaxFailures, MaxTouches <- F_MaxTouches,
  DropMayFail <- F_DropMayFail, obj <- F_obj, view <- F_view, current <- F_current,
  waking <- F_waking, queued <- F_queued, timer <- F_timer, pc <- F_pc,
  snap <- F_snap, fresh <- F_fresh, st <- F_st, res <- F_res, drop <- F_drop,
  dropView <- F_dropView, dropper <- F_dropper, orphans <- F_orphans,
  stray <- F_stray, db <- F_db, connected <- F_connected, late <- F_late,
  failures <- F_failures, touches <- F_touches

Release == INSTANCE OdooRelease WITH
  Customers <- R_Customers, Size <- R_Size, MaxFailures <- R_MaxFailures,
  obj <- R_obj, view <- R_view, current <- R_current, waking <- R_waking,
  queued <- R_queued, timer <- R_timer, pc <- R_pc, snap <- R_snap,
  fresh <- R_fresh, st <- R_st, res <- R_res, on <- R_on, onView <- R_onView,
  stale <- R_stale, rehearsed <- R_rehearsed, built <- R_built, todo <- R_todo,
  listed <- R_listed, written <- R_written, room <- R_room, rows <- R_rows,
  moved <- R_moved, lost <- R_lost, failures <- R_failures

A ==
  <<A_obj, A_view, A_current, A_waking, A_queued, A_timer, A_pc, A_snap, A_fresh,
    A_st, A_res, A_env, A_now, A_started, A_billed, A_counted, A_failures>>
D ==
  <<D_request, D_tenant, D_found, D_env, D_answer>>
Q ==
  <<Q_env, Q_mark, Q_seen, Q_edits>>
T ==
  <<T_env, T_holding, T_restore, T_wrote, T_was, T_edits>>
B ==
  <<B_clock, B_volume, B_run, B_pods, B_pods_, B_policy, B_policy_, B_status,
    B_template, B_pass, B_ever, B_least, B_failures, B_edits>>
L ==
  <<L_obj, L_view, L_current, L_waking, L_queued, L_timer, L_pc, L_snap, L_fresh,
    L_st, L_res, L_remote, L_todo, L_acted, L_ran, L_excused, L_edits, L_failures>>
S ==
  <<S_schema, S_spec, S_conf, S_cron, S_job, S_st, S_run, S_work, S_dumps, S_edits>>
W ==
  <<W_known, W_cookie, W_page, W_over, W_who, W_answer>>
G ==
  <<G_record, G_writes, G_form, G_object, G_latest>>
F ==
  <<F_obj, F_view, F_current, F_waking, F_queued, F_timer, F_pc, F_snap, F_fresh,
    F_st, F_res, F_drop, F_dropView, F_dropper, F_orphans, F_stray, F_db,
    F_connected, F_late, F_failures, F_touches>>
R ==
  <<R_obj, R_view, R_current, R_waking, R_queued, R_timer, R_pc, R_snap, R_fresh,
    R_st, R_res, R_on, R_onView, R_stale, R_rehearsed, R_built, R_todo, R_listed,
    R_written, R_room, R_rows, R_moved, R_lost, R_failures>>

vars == <<which, A, D, Q, T, B, L, S, W, G, F, R>>

Components ==
  {"Accounting", "EnvironmentAdmission", "EnvironmentQuota", "RestoreStamp",
   "Backup", "RunboatLink", "Snapshot", "Everywhere", "TenantForms",
   "EnvironmentFinalizer", "OdooRelease"}

Init ==
  /\ which \in Components
  /\ Account!Init
  /\ Admission!Init
  /\ Quota!Init
  /\ Stamp!Init
  /\ Copies!Init
  /\ Link!Init
  /\ Snap!Init
  /\ Pages!Init
  /\ Forms!Init
  /\ Final!Init
  /\ Release!Init

ButA == <<which, D, Q, T, B, L, S, W, G, F, R>>
ButD == <<which, A, Q, T, B, L, S, W, G, F, R>>
ButQ == <<which, A, D, T, B, L, S, W, G, F, R>>
ButT == <<which, A, D, Q, B, L, S, W, G, F, R>>
ButB == <<which, A, D, Q, T, L, S, W, G, F, R>>
ButL == <<which, A, D, Q, T, B, S, W, G, F, R>>
ButS == <<which, A, D, Q, T, B, L, W, G, F, R>>
ButW == <<which, A, D, Q, T, B, L, S, G, F, R>>
ButG == <<which, A, D, Q, T, B, L, S, W, F, R>>
ButF == <<which, A, D, Q, T, B, L, S, W, G, R>>
ButR == <<which, A, D, Q, T, B, L, S, W, G, F>>

AccountMoves == which = "Accounting" /\ Account!Next /\ UNCHANGED ButA
AdmissionMoves == which = "EnvironmentAdmission" /\ Admission!Next /\ UNCHANGED ButD
QuotaMoves == which = "EnvironmentQuota" /\ Quota!Next /\ UNCHANGED ButQ
StampMoves == which = "RestoreStamp" /\ Stamp!Next /\ UNCHANGED ButT
CopiesMoves == which = "Backup" /\ Copies!Next /\ UNCHANGED ButB
LinkMoves == which = "RunboatLink" /\ Link!Next /\ UNCHANGED ButL
SnapMoves == which = "Snapshot" /\ Snap!Next /\ UNCHANGED ButS
PagesMoves == which = "Everywhere" /\ Pages!Next /\ UNCHANGED ButW
FormsMoves == which = "TenantForms" /\ Forms!Next /\ UNCHANGED ButG
FinalMoves == which = "EnvironmentFinalizer" /\ Final!Next /\ UNCHANGED ButF
ReleaseMoves == which = "OdooRelease" /\ Release!Next /\ UNCHANGED ButR

Next ==
  \/ AccountMoves \/ AdmissionMoves \/ QuotaMoves \/ StampMoves \/ CopiesMoves 
  \/ LinkMoves \/ SnapMoves \/ PagesMoves \/ FormsMoves \/ FinalMoves \/ ReleaseMoves

Spec == Init /\ [][Next]_vars

ASSUME AccountAssumption == Account!SecondIsFree
ASSUME MeterAssumption == Account!UnitsAreNumbers
ASSUME FinalAssumption == Final!FinalizerAssumption
ASSUME AskedAssumption == Admission!AskedAreRequests
ASSUME QuotaAssumption == Quota!LimitsAreNumbers
ASSUME NamesAssumption == Pages!NamesAreApart
ASSUME EntriesAssumption == Forms!EntriesAreImages
ASSUME CopiesAssumption == Copies!RetentionAssumption
ASSUME EnginesAssumption == Snap!EnginesAreKnown
ASSUME LinkAssumption == Link!LimitsAreNumbers
ASSUME ReleaseAssumption == Release!SizeIsNumber

------------------------------------------------------------------------------
(* What must hold: the properties of the modules, under their names.       *)

\* Accounting: "it must be monotonic and durable": an interval is billed once.
BilledOnce == which = "Accounting" => Account!BilledOnce

\* EnvironmentAdmission: what is "not a preference but a mistake" is not created.
NoMistakeIsCreated == which = "EnvironmentAdmission" => Admission!NoMistakeIsCreated

\* EnvironmentQuota: what was created one after another stays within the allowances.
WithinLimits == which = "EnvironmentQuota" => Quota!WithinLimits

\* RestoreStamp: what a production held is on a volume before a restore replaces it.
ReplacedIsCopied == which = "RestoreStamp" => Stamp!ReplacedIsCopied

\* Backup: what every policy so far wanted of a rule is on the volume, or all there was.
RetentionKeeps == which = "Backup" => Copies!RetentionKeeps

\* RunboatLink: "never executes the same one twice", but for what could not be saved.
RepeatsAreExcused == which = "RunboatLink" => Link!RepeatsAreExcused

\* Snapshot: what leaves the cluster is anonymous in every column that a rule names.
LeftAnonymous == which = "Snapshot" => Snap!LeftAnonymous

\* Everywhere: "a cluster that could not be asked is SAID, never dropped".
EveryClusterIsSaid == which = "Everywhere" => Pages!EveryClusterIsSaid

\* OdooRelease: a batch and its soak bound what is exposed to a bad release, except for
\* one batch more for every pass that moved some and could not save that it did.
BatchesSoak == which = "OdooRelease" => Release!BatchesSoak

\* TenantForms: "two people editing ... produce a conflict the API server reports".
EditsAreInTurn == [][which = "TenantForms" => Forms!InTurn]_vars

\* EnvironmentFinalizer: "deletion now waits for the drop to reach a terminal state".
DropIsWaitedFor ==
  [][which = "EnvironmentFinalizer" => Final!ReleasedAfterTheDrop]_vars

\* EnvironmentFinalizer: "so the thing that outlived the object cannot go on to destroy
\* its replacement", but for what two kinds of late step can still do.
SparesTheReplacement ==
  [][which = "EnvironmentFinalizer" => Final!ReplacementIsSpared]_vars

==============================================================================
