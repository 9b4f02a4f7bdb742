----------------------------- MODULE MCOperator ------------------------------
(***************************************************************************)
(* Operator, over small instances of its components.  Those that do not    *)
(* move start in one of their initial states, so that the state space is   *)
(* the sum of theirs, not the product.                                     *)
(***************************************************************************)
EXTENDS Operator

CONSTANTS NoTenant, ByHand

Unset == "unset"
Purposes == {Unset, "Review", "QA", "Staging", "Production"}

\* A request that names its purpose and nothing else, and what people vary in it: the
\* data and its files, the exposure, and the image.
Plain ==
  [purpose |-> "Review", lifecycle |-> Unset, data |-> Unset, snapshot |-> TRUE,
   acceptsRisk |-> FALSE, filestore |-> Unset, size |-> Unset, replicas |-> 1,
   cron |-> FALSE, public |-> FALSE, host |-> FALSE, anonymous |-> FALSE,
   noIndex |-> TRUE, randomize |-> Unset, denyEgress |-> TRUE, mail |-> "none",
   imageRef |-> Unset, image |-> Unset, addons |-> Unset]

OfData ==
  {[Plain EXCEPT !.purpose = p, !.lifecycle = l, !.data = d, !.snapshot = s,
                 !.filestore = f, !.replicas = n] :
     p \in Purposes, l \in {Unset, "Ephemeral", "Persistent"},
     d \in {Unset, "Demo", "Snapshot", "Live"}, s \in BOOLEAN,
     f \in {Unset, "Ephemeral", "Volume", "Shared"}, n \in {1, 2}}

OfExposure ==
  {[Plain EXCEPT !.purpose = p, !.data = d, !.public = q, !.host = h,
                 !.noIndex = n, !.randomize = r, !.mail = m] :
     p \in Purposes, d \in {Unset, "Demo", "Live"}, q, h, n \in BOOLEAN,
     r \in {"on", "off", Unset}, m \in {"none", "plain", "acknowledged"}}

OfImage ==
  {[Plain EXCEPT !.imageRef = i, !.image = j, !.addons = a] :
     i \in {Unset, "entry", "unknown"}, j \in {Unset, "named"}, a \in {Unset, "ours", "other"}}

Requests == OfData \cup OfExposure \cup OfImage

Customer ==
  [there |-> TRUE, cards |-> FALSE, people |-> TRUE, domain |-> TRUE, catalogue |-> "image",
   studied |-> TRUE, filestore |-> Unset, size |-> Unset, image |-> Unset, addons |-> Unset]

Customers ==
  {Customer, [Customer EXCEPT !.there = FALSE], [Customer EXCEPT !.cards = TRUE],
   [Customer EXCEPT !.filestore = "Shared", !.people = FALSE],
   [Customer EXCEPT !.filestore = "empty", !.addons = "empty"],
   [Customer EXCEPT !.catalogue = "none", !.addons = "ours", !.domain = FALSE],
   [Customer EXCEPT !.catalogue = "unbuilt"]}

\* The last copy of a day and of two weeks, those of two days, and nothing at all.
Policies == {[day |-> 1, week |-> 2], [day |-> 2, week |-> 0], [day |-> 0, week |-> 0]}

\* Three columns in two tables; a rule may name a column that is not there.
Columns == {<<"p", "name">>, <<"p", "mail">>, <<"c", "note">>}
Schemas == {Columns, Columns \ {<<"p", "mail">>}, {<<"p", "mail">>}}
RuleSets == {Columns, {<<"p", "name">>}}

Periods    == [day |-> 2, week |-> 4]
Allowances == [t |-> 0, u |-> 1]
Majors     == [a |-> 18, b |-> 18, c |-> 19]

\* Init, with one initial state for each component that does not move.
MCInit ==
  /\ which \in Components
  /\ Account!Init
  /\ which # "Accounting" => A_env["e1"].size = "medium"
  /\ Admission!Init
  /\ which # "EnvironmentAdmission" => D_request = Plain /\ D_tenant = Customer
  /\ Quota!Init
  /\ Stamp!Init
  /\ which # "RestoreStamp" => T_env.there /\ T_holding = {} /\ T_restore.asked = "no" /\ ~T_env.production /\ ~T_env.persistent
  /\ Copies!Init
  /\ which # "Backup" => B_volume = {} /\ B_policy = [day |-> 0, week |-> 0]
  /\ Link!Init
  /\ Snap!Init
  /\ which # "Snapshot" => S_schema = Columns /\ S_spec.rules = Columns /\ S_spec.engine = "SQL" /\ ~S_spec.scheduled
  /\ Pages!Init
  /\ which # "Everywhere" => W_known = {}
  /\ Forms!Init
  /\ Final!Init
  /\ which # "EnvironmentFinalizer" => ~F_obj.live
  /\ Release!Init
  /\ which # "OdooRelease" => R_obj.named /\ R_obj.needs

MCSpec == MCInit /\ [][Next]_vars

==============================================================================
