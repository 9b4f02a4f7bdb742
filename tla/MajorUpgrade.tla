----------------------------- MODULE MajorUpgrade -----------------------------
(***************************************************************************)
(* Which image a customer's environments run by default, and the webhook   *)
(* that guards it: TenantGuard.Handle of internal/webhook/tenant.go over   *)
(* the rehearsal of Rehearsal.  The webhook reads the rehearsal from the   *)
(* API server, not from a cache, while its controller goes on.             *)
(*                                                                         *)
(* The catalogue is its default entry: an image, or None when several are  *)
(* listed and none is marked.  An entry goes by its image, and the one     *)
(* rehearsal there is is the one that spec.majorUpgrade cites.             *)
(***************************************************************************)
EXTENDS Rehearsal

CONSTANTS
  None,       \* no default entry
  Majors,     \* the major versions of Odoo
  MajorOf,    \* the major version of each image
  MaxChanges  \* bound: changes of the catalogue

ASSUME MajorUpgradeAssumption ==
  /\ None \notin Images
  /\ MajorOf \in [Images -> Majors]
  /\ MaxChanges \in Nat

VARIABLES
  default,  \* the image of the default catalogue entry
  changes   \* changes of the catalogue so far

catalogue == <<default, changes>>

\* A new record may be created with any catalogue.
UpgradeInit ==
  /\ Init
  /\ default \in Images \cup {None}
  /\ changes = 0

\* Crossing from image i to image n needs evidence.
AcrossMajors(i, n) == i # None /\ n # None /\ MajorOf[i] # MajorOf[n]

\* A slip: the phase of the rehearsal is not looked at, only that it is there.
EvidenceOfAnyOutcome(n) == obj.image = n

\* A slip: the image the rehearsal is of is not compared.
EvidenceOfAnyImage(n) == obj.phase = "Succeeded"

\* What the webhook asks of the rehearsal cited for image n.
EvidenceFor(n) == obj.phase = "Succeeded" /\ obj.image = n

\* The record is edited and the webhook admits the edit.  The authorisation it asks for,
\* spec.majorUpgrade, is part of the edit, which may name the image that is promoted.
UpdateTenant ==
  /\ changes < MaxChanges
  /\ changes' = changes + 1
  /\ \E n \in Images \cup {None} :
       /\ AcrossMajors(default, n) => EvidenceFor(n)
       /\ default' = n
  /\ UNCHANGED vars

UpgradeNext ==
  \/ Next /\ UNCHANGED catalogue
  \/ UpdateTenant

UpgradeSpec == UpgradeInit /\ [][UpgradeNext]_<<vars, catalogue>> /\ Fairness

------------------------------------------------------------------------------
(* What must hold.                                                         *)

\* The step that replaces the default image by one of another major version.
Crosses == AcrossMajors(default, default')

\* "A rehearsal that actually succeeded": when the default crosses majors, the data has
\* been restored, migrated within the window and asserted about.
CrossingIsEarned ==
  [][Crosses => \A p \in Running : job[p] = "succeeded"]_<<vars, catalogue>>

\* "Against exactly that image": the Jobs of the rehearsal ran the image promoted, unless
\* the rehearsal was edited, which nothing in the API forbids.
CrossingIsOfTheImage ==
  [][Crosses /\ edits = 0 => \A p \in Running : image[p] = default']_<<vars, catalogue>>

==============================================================================
