------------------------------- MODULE Placement -------------------------------
(***************************************************************************)
(* Which server a database goes to.  The OdooInstance controller counts    *)
(* what is placed on an instance and probes its disk (odooinstance_        *)
(* controller.go, instance_probe.go); the OdooDatabase controller places   *)
(* from what those statuses say (odoodatabase_controller.go, placement.go).*)
(* Both read caches.  An instance event wakes the databases without a      *)
(* place; nothing wakes an instance whose databases change, it counts them *)
(* again at its next pass.  Every one of its passes asks for another.      *)
(*                                                                         *)
(* A pass of either is one step: nobody else writes these statuses, and    *)
(* what it read may be old already.                                        *)
(***************************************************************************)
EXTENDS Naturals, FiniteSets

CONSTANTS
  Instances,     \* names: numbers, for placement takes the smallest of equals
  Databases,
  MaxDatabases,  \* capacity.maxDatabases
  Reserves,      \* capacity.reservedGi is set
  None,          \* no instance
  MaxFailures    \* bound: probes and writes that fail, crashes, cordons

VARIABLES
  inst,      \* inst[i]: the OdooInstance
  inst_,     \* the same as the cache shows it
  oldInst,   \* the instances whose cached version is not the stored one
  pod,       \* pod[i]: its probe Pod
  db,        \* db[d]: the OdooDatabase
  db_,       \* the same as the cache shows it
  oldDb,     \* the databases whose cached version is not the stored one
  queue,     \* the databases in the work queue
  failures

instances == <<inst, inst_, oldInst, pod>>
databases == <<db, db_, oldDb, queue>>
vars == <<instances, databases, failures>>

\* recent: lastProbe is younger than observeInterval.  free: diskFreeGi, as one place more
\* would leave it.
InstanceStates ==
  [cordoned: BOOLEAN, reachable: BOOLEAN, recent: BOOLEAN,
   available: 0..MaxDatabases, free: {"unknown", "short", "ample"}]
Pods == {"none", "running", "ample", "short", "undisclosed", "failed"}

\* ref: spec.instanceRef.  on: status.placedOn.
DatabaseStates == [there: BOOLEAN, ref: Instances \cup {None}, on: Instances \cup {None}]

Init ==
  /\ inst = [i \in Instances |->
       [cordoned |-> FALSE, reachable |-> FALSE, recent |-> FALSE, available |-> 0, free |-> "unknown"]]
  /\ inst_ = inst /\ oldInst = {} /\ pod = [i \in Instances |-> "none"]
  /\ db \in [Databases -> {[there |-> FALSE, ref |-> r, on |-> None] : r \in Instances \cup {None}}]
  /\ db_ = db /\ oldDb = {} /\ queue = {}
  /\ failures = 0

Fail == failures < MaxFailures /\ failures' = failures + 1

------------------------------------------------------------------------------
(* The OdooInstance controller.                                            *)

\* countPlaced: of the cached databases, those that name i and those placed on it.
Counted(i) == Cardinality({d \in Databases : db_[d].there /\ i \in {db_[d].ref, db_[d].on}})

CountedStatus(i) ==
  [inst_[i] EXCEPT !.available = IF Counted(i) < MaxDatabases THEN MaxDatabases - Counted(i) ELSE 0]

\* finish: the status is written when it changed; with an old version it is a conflict,
\* and the pass comes again.
Finish(i, status) ==
  IF status = inst_[i] \/ i \in oldInst THEN UNCHANGED <<inst, oldInst>>
  ELSE inst' = [inst EXCEPT ![i] = status] /\ oldInst' = oldInst \cup {i}

\* Young observations stand.
Observe(i) ==
  /\ inst_[i].recent
  /\ Finish(i, CountedStatus(i))
  /\ UNCHANGED <<inst_, pod, databases, failures>>

StartProbe(i) ==
  /\ ~inst_[i].recent /\ pod[i] = "none"
  /\ pod' = [pod EXCEPT ![i] = "running"]
  /\ Finish(i, CountedStatus(i))
  /\ UNCHANGED <<inst_, databases, failures>>

\* What the probe found, parseProbeResult and applyProbe: a server that does not tell its
\* free space keeps the last figure.  One that is not reached keeps everything, its age too.
Probed(i) ==
  IF pod[i] = "failed" THEN [CountedStatus(i) EXCEPT !.reachable = FALSE]
  ELSE [CountedStatus(i) EXCEPT !.reachable = TRUE, !.recent = TRUE,
          !.free = IF pod[i] = "undisclosed" THEN @ ELSE pod[i]]

\* The Pod goes whether or not its result was written.
EndProbe(i) ==
  /\ ~inst_[i].recent /\ pod[i] \notin {"none", "running"}
  /\ pod' = [pod EXCEPT ![i] = "none"]
  /\ Finish(i, Probed(i))
  /\ UNCHANGED <<inst_, databases, failures>>

\* A Pod that does not finish in two minutes is given up.
GiveUp(i) ==
  /\ ~inst_[i].recent /\ pod[i] = "running"
  /\ Fail
  /\ pod' = [pod EXCEPT ![i] = "none"]
  /\ Finish(i, [CountedStatus(i) EXCEPT !.reachable = FALSE])
  /\ UNCHANGED <<inst_, databases>>

------------------------------------------------------------------------------
(* The OdooDatabase controller.                                            *)

\* headroomFor: with a reserve, an unknown disk is refused.
Headroom(i) == ~Reserves \/ inst_[i].free = "ample"

\* placementReject.
Accepts(i) ==
  /\ ~inst_[i].cordoned /\ inst_[i].reachable
  /\ inst_[i].available > 0
  /\ Headroom(i)

\* Place: the emptiest, the first by name among equals.
Best(candidates) ==
  CHOOSE i \in candidates : \A j \in candidates :
    \/ inst_[i].available > inst_[j].available
    \/ inst_[i].available = inst_[j].available /\ i <= j

Candidates == {i \in Instances : Accepts(i)}

\* spec.instanceRef is not looked at.  A conflict puts the database back.
Place(d) ==
  /\ d \in queue
  /\ LET places == db_[d].there /\ db_[d].on = None /\ Candidates # {}
     IN \/ /\ ~places \/ ~db[d].there
           /\ queue' = queue \ {d}
           /\ UNCHANGED <<db, oldDb>>
        \/ /\ places /\ db[d].there /\ d \notin oldDb
           /\ queue' = queue \ {d}
           /\ db' = [db EXCEPT ![d].on = Best(Candidates)]
           /\ oldDb' = oldDb \cup {d}
        \/ /\ places /\ db[d].there /\ d \in oldDb
           /\ UNCHANGED <<db, oldDb, queue>>
  /\ UNCHANGED <<instances, db_, failures>>

\* A slip: no watch on instances.
UnplacedNobody == {}

\* unplacedDatabases: those to wake.
Unplaced == {d \in Databases : db_[d].there /\ db_[d].on = None}

------------------------------------------------------------------------------
(* The caches, the servers and people.                                     *)

DeliverInstance(i) ==
  /\ i \in oldInst
  /\ inst_' = [inst_ EXCEPT ![i] = inst[i]]
  /\ oldInst' = oldInst \ {i}
  /\ queue' = queue \cup Unplaced
  /\ UNCHANGED <<inst, pod, db, db_, oldDb, failures>>

\* Its own status is no event for a database: the generation is the same.
DeliverDatabase(d) ==
  /\ d \in oldDb
  /\ db_' = [db_ EXCEPT ![d] = db[d]]
  /\ oldDb' = oldDb \ {d}
  /\ queue' = IF db[d].there /\ ~db_[d].there THEN queue \cup {d} ELSE queue
  /\ UNCHANGED <<instances, db, failures>>

Probe(i) ==
  /\ pod[i] = "running"
  /\ \E result \in {"ample", "short", "undisclosed", "failed"} :
       /\ IF result = "ample" THEN UNCHANGED failures ELSE Fail
       /\ pod' = [pod EXCEPT ![i] = result]
  /\ UNCHANGED <<inst, inst_, oldInst, databases>>

\* observeInterval passes; the cache is behind by less.
Age(i) ==
  /\ inst[i].recent /\ i \notin oldInst
  /\ inst' = [inst EXCEPT ![i].recent = FALSE]
  /\ inst_' = [inst_ EXCEPT ![i].recent = FALSE]
  /\ UNCHANGED <<oldInst, pod, databases, failures>>

Cordon(i) ==
  /\ Fail
  /\ inst' = [inst EXCEPT ![i].cordoned = ~@]
  /\ oldInst' = oldInst \cup {i}
  /\ UNCHANGED <<inst_, pod, databases>>

Write(d, state) ==
  /\ db' = [db EXCEPT ![d] = state]
  /\ oldDb' = oldDb \cup {d}
  /\ UNCHANGED <<instances, db_, queue, failures>>

Create(d) == ~db[d].there /\ db[d].on = None /\ d \notin oldDb /\ Write(d, [db[d] EXCEPT !.there = TRUE])
Delete(d) == db[d].there /\ db[d].on # None /\ Write(d, [db[d] EXCEPT !.there = FALSE])

Crash ==
  /\ Fail
  /\ inst_' = inst /\ oldInst' = {} /\ db_' = db /\ oldDb' = {}
  /\ queue' = {d \in Databases : db[d].there}
  /\ UNCHANGED <<inst, pod, db>>

Controllers ==
  \/ \E i \in Instances : Observe(i) \/ StartProbe(i) \/ EndProbe(i) \/ GiveUp(i)
  \/ \E d \in Databases : Place(d)

Others ==
  \/ \E i \in Instances : DeliverInstance(i) \/ Probe(i) \/ Age(i) \/ Cordon(i)
  \/ \E d \in Databases : DeliverDatabase(d) \/ Create(d) \/ Delete(d)

Next == Controllers \/ Others \/ Crash

\* Both controllers run, every instance asks for its next pass, and events arrive.
Fairness ==
  /\ \A i \in Instances :
       /\ WF_vars(Observe(i) \/ StartProbe(i) \/ EndProbe(i))
       /\ WF_vars(DeliverInstance(i)) /\ WF_vars(Probe(i))
  /\ \A d \in Databases : WF_vars(Place(d)) /\ WF_vars(DeliverDatabase(d))

Spec == Init /\ [][Next]_vars /\ Fairness

------------------------------------------------------------------------------
(* What must hold.                                                         *)

\* The stored status of i has a place.
HasPlace(i) ==
  /\ ~inst[i].cordoned /\ inst[i].reachable /\ inst[i].available > 0
  /\ ~Reserves \/ inst[i].free = "ample"

\* "An instance appearing is the event that unblocks a database nothing could host":
\* while some instance keeps having a place, no database stays without one.
RoomIsTaken ==
  \A d \in Databases :
    (\E i \in Instances : <>[]HasPlace(i)) => []<>(~db[d].there \/ db[d].on # None)

\* "MaxDatabases is the hard ceiling on databases placed by Doblura."
HardCeiling ==
  \A i \in Instances : Cardinality({d \in Databases : db[d].there /\ db[d].on = i}) <= MaxDatabases

==============================================================================
