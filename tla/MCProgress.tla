----------------------------- MODULE MCProgress ------------------------------
(***************************************************************************)
(* What the components of the operator must eventually do, each under the  *)
(* fairness of its own module.  A behaviour is one of one component: which *)
(* says of which, and the others rest.  The state space is the sum of      *)
(* theirs, not the product.                                                *)
(***************************************************************************)
EXTENDS Naturals

CONSTANTS None, Absent

VARIABLES
  which,  \* the component this behaviour is about
  R_obj, R_view, R_current, R_waking, R_queued, R_timer, R_pc, R_snap, R_fresh,
  R_st, R_res, R_on, R_onView, R_stale, R_rehearsed, R_built, R_todo, R_listed,
  R_written, R_room, R_rows, R_moved, R_lost, R_failures,
  P_inst, P_inst_, P_oldInst, P_pod, P_db, P_db_, P_oldDb, P_queue, P_failures,
  V_obj, V_view, V_current, V_waking, V_queued, V_timer, V_pc, V_snap, V_fresh,
  V_st, V_res, V_open, V_marked, V_envs, V_seen, V_wanted, V_changes, V_failures,
  S_entry, S_wrong, S_build, S_bjob, S_bwake, S_study, S_job, S_seen, S_pods,
  S_edits, S_failures,
  K_secret, K_usable, K_at, K_attempt, K_seen, K_bundle, K_leader, K_config, K_view,
  K_behind, K_pending, K_agreed, K_faults,
  E_obj, E_view, E_current, E_waking, E_queued, E_timer, E_pc, E_snap, E_fresh,
  E_st, E_res, E_job, E_jobView, E_db, E_torn, E_replicas, E_pods, E_ingress,
  E_allowed, E_expired, E_edits,
  F_obj, F_view, F_current, F_waking, F_queued, F_timer, F_pc, F_snap, F_fresh,
  F_st, F_res, F_drop, F_dropView, F_dropper, F_orphans, F_stray, F_db, F_connected,
  F_late, F_failures, F_touches

Release == INSTANCE OdooRelease WITH
  Customers <- {"c1", "c2"}, Size <- 1, MaxFailures <- 1, obj <- R_obj,
  view <- R_view, current <- R_current, waking <- R_waking, queued <- R_queued,
  timer <- R_timer, pc <- R_pc, snap <- R_snap, fresh <- R_fresh, st <- R_st,
  res <- R_res, on <- R_on, onView <- R_onView, stale <- R_stale,
  rehearsed <- R_rehearsed, built <- R_built, todo <- R_todo, listed <- R_listed,
  written <- R_written, room <- R_room, rows <- R_rows, moved <- R_moved,
  lost <- R_lost, failures <- R_failures

Placing == INSTANCE Placement WITH
  Instances <- {1}, Databases <- {"d1", "d2"}, MaxDatabases <- 1, Reserves <- TRUE,
  MaxFailures <- 1, inst <- P_inst, inst_ <- P_inst_, oldInst <- P_oldInst,
  pod <- P_pod, db <- P_db, db_ <- P_db_, oldDb <- P_oldDb, queue <- P_queue,
  failures <- P_failures

Review == INSTANCE ReviewSet WITH
  Refs <- {1, 2, 3}, Page <- 2, Caps <- {1, 2}, MaxChanges <- 1, MaxFailures <- 1,
  obj <- V_obj, view <- V_view, current <- V_current, waking <- V_waking,
  queued <- V_queued, timer <- V_timer, pc <- V_pc, snap <- V_snap,
  fresh <- V_fresh, st <- V_st, res <- V_res, open <- V_open, marked <- V_marked,
  envs <- V_envs, seen <- V_seen, wanted <- V_wanted, changes <- V_changes,
  failures <- V_failures

Study == INSTANCE ImageStudy WITH
  Named <- {"i1"}, Digests <- <<"d1", "d2">>, MaxEdits <- 1, MaxFailures <- 1,
  entry <- S_entry, wrong <- S_wrong, build <- S_build, bjob <- S_bjob,
  bwake <- S_bwake, study <- S_study, job <- S_job, seen <- S_seen, pods <- S_pods,
  edits <- S_edits, failures <- S_failures

Certs == INSTANCE Certificates WITH
  Replicas <- {"r1", "r2"}, Configs <- {"mutating"}, CAs <- 1..8, MaxAttempts <- 2,
  MaxFaults <- 3, secret <- K_secret, usable <- K_usable, at <- K_at,
  attempt <- K_attempt, seen <- K_seen, bundle <- K_bundle, leader <- K_leader,
  config <- K_config, view <- K_view, behind <- K_behind, pending <- K_pending,
  agreed <- K_agreed, faults <- K_faults

Env == INSTANCE Environment WITH
  DataType <- "Snapshot", HasEngine <- FALSE, Ephemeral <- TRUE, HasHost <- TRUE,
  Restores <- {}, RoundTripBumps <- TRUE, ExpiryMayFail <- FALSE,
  JobsMayFail <- FALSE, MaxEdits <- 0, obj <- E_obj, view <- E_view,
  current <- E_current, waking <- E_waking, queued <- E_queued, timer <- E_timer,
  pc <- E_pc, snap <- E_snap, fresh <- E_fresh, st <- E_st, res <- E_res,
  job <- E_job, jobView <- E_jobView, db <- E_db, torn <- E_torn,
  replicas <- E_replicas, pods <- E_pods, ingress <- E_ingress,
  allowed <- E_allowed, expired <- E_expired, edits <- E_edits

Final == INSTANCE EnvironmentFinalizer WITH
  MaxLives <- 1, MaxFailures <- 1, MaxTouches <- 0, DropMayFail <- TRUE,
  obj <- F_obj, view <- F_view, current <- F_current, waking <- F_waking,
  queued <- F_queued, timer <- F_timer, pc <- F_pc, snap <- F_snap,
  fresh <- F_fresh, st <- F_st, res <- F_res, drop <- F_drop,
  dropView <- F_dropView, dropper <- F_dropper, orphans <- F_orphans,
  stray <- F_stray, db <- F_db, connected <- F_connected, late <- F_late,
  failures <- F_failures, touches <- F_touches

R ==
  <<R_obj, R_view, R_current, R_waking, R_queued, R_timer, R_pc, R_snap, R_fresh,
    R_st, R_res, R_on, R_onView, R_stale, R_rehearsed, R_built, R_todo, R_listed,
    R_written, R_room, R_rows, R_moved, R_lost, R_failures>>
P ==
  <<P_inst, P_inst_, P_oldInst, P_pod, P_db, P_db_, P_oldDb, P_queue, P_failures>>
V ==
  <<V_obj, V_view, V_current, V_waking, V_queued, V_timer, V_pc, V_snap, V_fresh,
    V_st, V_res, V_open, V_marked, V_envs, V_seen, V_wanted, V_changes, V_failures>>
S ==
  <<S_entry, S_wrong, S_build, S_bjob, S_bwake, S_study, S_job, S_seen, S_pods,
    S_edits, S_failures>>
K ==
  <<K_secret, K_usable, K_at, K_attempt, K_seen, K_bundle, K_leader, K_config,
    K_view, K_behind, K_pending, K_agreed, K_faults>>
E ==
  <<E_obj, E_view, E_current, E_waking, E_queued, E_timer, E_pc, E_snap, E_fresh,
    E_st, E_res, E_job, E_jobView, E_db, E_torn, E_replicas, E_pods, E_ingress,
    E_allowed, E_expired, E_edits>>
F ==
  <<F_obj, F_view, F_current, F_waking, F_queued, F_timer, F_pc, F_snap, F_fresh,
    F_st, F_res, F_drop, F_dropView, F_dropper, F_orphans, F_stray, F_db,
    F_connected, F_late, F_failures, F_touches>>

vars == <<which, R, P, V, S, K, E, F>>

\* The components that do not move are in one of their initial states.
Init ==
  /\ which \in {"OdooRelease", "Placement", "ReviewSet", "ImageStudy", "Certificates",
     "Environment", "EnvironmentFinalizer"}
  /\ Release!Init
  /\ which # "OdooRelease" => R_obj.named /\ R_obj.needs
  /\ Placing!Init
  /\ \A d \in {"d1", "d2"} : P_db[d].ref = None
  /\ Review!Init
  /\ V_open = {1, 2, 3} /\ V_marked = {1, 3}
  /\ which # "ReviewSet" => V_obj.cap = 1
  /\ Study!Init
  /\ which # "ImageStudy" => S_entry = "build"
  /\ Certs!Init
  /\ Env!Init
  /\ which # "Environment" => ~E_allowed
  /\ Final!Init
  /\ which # "EnvironmentFinalizer" => ~F_obj.live

ButR == <<which, P, V, S, K, E, F>>
ButP == <<which, R, V, S, K, E, F>>
ButV == <<which, R, P, S, K, E, F>>
ButS == <<which, R, P, V, K, E, F>>
ButK == <<which, R, P, V, S, E, F>>
ButE == <<which, R, P, V, S, K, F>>
ButF == <<which, R, P, V, S, K, E>>

ReleaseMoves == which = "OdooRelease" /\ Release!Next /\ UNCHANGED ButR
PlacingMoves == which = "Placement" /\ Placing!Next /\ UNCHANGED ButP
ReviewMoves == which = "ReviewSet" /\ Review!Next /\ UNCHANGED ButV
StudyMoves == which = "ImageStudy" /\ Study!Next /\ UNCHANGED ButS
CertsMoves == which = "Certificates" /\ Certs!Next /\ UNCHANGED ButK
EnvMoves == which = "Environment" /\ Env!Next /\ UNCHANGED ButE
FinalMoves == which = "EnvironmentFinalizer" /\ Final!Next /\ UNCHANGED ButF

Next ==
  \/ ReleaseMoves \/ PlacingMoves \/ ReviewMoves \/ StudyMoves \/ CertsMoves 
  \/ EnvMoves \/ FinalMoves

\* The Fairness of each module, of the steps it makes when it is the one that moves.
ReleaseFair ==
  LET On == which = "OdooRelease" IN
  /\ WF_R(On /\ Release!Worker) /\ WF_R(On /\ Release!DeliverObject)
  /\ WF_R(On /\ Release!RequeueLater) /\ SF_R(On /\ Release!SoakPasses)
  /\ \A c \in {"c1", "c2"} :
       WF_R(On /\ Release!DeliverCustomer(c)) /\ WF_R(On /\ Release!Rehearse(c))

PlacingFair ==
  LET On == which = "Placement" IN
  /\ WF_P(On /\ (Placing!Observe(1) \/ Placing!StartProbe(1) \/ Placing!EndProbe(1)))
  /\ WF_P(On /\ Placing!DeliverInstance(1)) /\ WF_P(On /\ Placing!Probe(1))
  /\ \A d \in {"d1", "d2"} :
       WF_P(On /\ Placing!Place(d)) /\ WF_P(On /\ Placing!DeliverDatabase(d))

ReviewFair ==
  LET On == which = "ReviewSet" IN
  /\ WF_V(On /\ Review!Worker) /\ WF_V(On /\ Review!DeliverObject)
  /\ WF_V(On /\ Review!DeliverEnvironments) /\ WF_V(On /\ Review!RequeueLater)
  /\ \A r \in 1..3 : WF_V(On /\ Review!Finalized(r))

StudyFair ==
  LET On == which = "ImageStudy" IN
  /\ WF_S(On /\ Study!BuildPass) /\ WF_S(On /\ Study!Tenant)
  /\ WF_S(On /\ Study!DeliverJob) /\ WF_S(On /\ Study!StudyPod) /\ WF_S(On /\ Study!Collect)

CertsFair ==
  LET On == which = "Certificates" IN
  /\ \A r \in {"r1", "r2"} :
       /\ WF_K(On /\ (Certs!Start(r) \/ Certs!Get(r) \/ Certs!Put(r)))
       /\ WF_K(On /\ Certs!Lead(r))
  /\ WF_K(On /\ Certs!Stamp("mutating")) /\ WF_K(On /\ Certs!Deliver("mutating"))

EnvFair ==
  LET On == which = "Environment" IN
  /\ WF_E(On /\ Env!Worker) /\ WF_E(On /\ Env!DeliverObject)
  /\ WF_E(On /\ Env!Rollout) /\ WF_E(On /\ Env!TimerExpires)
  /\ \A s \in {"restore", "harden"} :
       /\ WF_E(On /\ Env!DeliverJob(s))
       /\ WF_E(On /\ (Env!EndJob(s) \/ Env!EndTornJob(s)))

FinalFair ==
  LET On == which = "EnvironmentFinalizer" IN
  /\ WF_F(On /\ Final!Worker) /\ WF_F(On /\ Final!DeliverObject)
  /\ WF_F(On /\ Final!DeliverDrop) /\ WF_F(On /\ Final!TimerExpires)
  /\ WF_F(On /\ Final!DeadlinePasses)

Spec ==
  /\ Init /\ [][Next]_vars
  /\ ReleaseFair /\ PlacingFair /\ ReviewFair /\ StudyFair /\ CertsFair
  /\ EnvFair /\ FinalFair

------------------------------------------------------------------------------
(* What must hold: the properties of the modules, under their names.       *)

\* OdooRelease: "the next batch happens without anything else touching the object".
RolloutEnds == which = "OdooRelease" => Release!RolloutEnds

\* Placement: "an instance appearing is the event that unblocks a database nothing
\* could host".
RoomIsTaken == which = "Placement" => Placing!RoomIsTaken

\* ReviewSet: a closed pull request loses its environment and an open one on the
\* page gets it.
EnvironmentsFollowRefs == which = "ReviewSet" => Review!EnvironmentsFollowRefs

\* ImageStudy: "repointing an entry produces a new study", stored under its image.
EntryIsStudied == which = "ImageStudy" => Study!EntryIsStudied

\* Certificates: every replica that settled on the present Secret comes to be trusted.
EveryReplicaTrusted == which = "Certificates" => Certs!EveryReplicaTrusted

\* Environment: an environment whose manager stays up comes to be served.
EventuallyServed == which = "Environment" => Env!EventuallyServed

\* Environment: a Ready environment whose TTL has run out is deleted.
ReadyExpires == which = "Environment" => Env!ReadyExpires

\* EnvironmentFinalizer: a wedged drop does not leave an object nobody can delete.
DeletionCompletes == which = "EnvironmentFinalizer" => Final!DeletionCompletes

==============================================================================
