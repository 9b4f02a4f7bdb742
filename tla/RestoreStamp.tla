----------------------------- MODULE RestoreStamp -----------------------------
(***************************************************************************)
(* Whether a restore takes a copy of what it is about to replace: decided  *)
(* by the RestoreStamp webhook when the OdooRestore is created             *)
(* (internal/webhook/restorer.go), written into a spec that cannot be      *)
(* edited, and carried out later by the controller, which looks for the    *)
(* place of the copy again (odoorestore_controller.go, safetyDestination). *)
(* In between the environment and its backups change as people edit them.  *)
(***************************************************************************)
EXTENDS Naturals

CONSTANTS
  Backups,   \* names of OdooBackups of the environment, the smaller first
  MaxEdits   \* bound: edits of the environment and of its backups

VARIABLES
  env,       \* the environment the restore names
  holding,   \* the backups of it that have a volume
  restore,   \* the restore
  wrote,     \* the volumes a copy was written to
  was,       \* history: what the environment was when the restore was admitted
  edits

vars == <<env, holding, restore, wrote, was, edits>>

None == "none"
Environments == [there: BOOLEAN, production: BOOLEAN, persistent: BOOLEAN]

\* asked: spec.safetyCopy as it was sent.  stamped: as the webhook left it.
Phases == {"sent", "denied", "admitted", "copied", "replaced", "failed"}
Restores == [phase: Phases, asked: {None, "yes", "no"}, stamped: BOOLEAN]

\* CEL: a Production is Persistent.
Init ==
  /\ env \in {e \in Environments : e.production => e.persistent}
  /\ holding \in SUBSET Backups
  /\ restore \in [phase: {"sent"}, asked: {None, "yes", "no"}, stamped: {FALSE}]
  /\ wrote = {} /\ was = env /\ edits = 0

------------------------------------------------------------------------------
(* The webhook.                                                            *)

\* Whether a copy is taken: as was asked, else of what is kept.
Wanted == IF restore.asked = None THEN env.production \/ env.persistent ELSE restore.asked = "yes"

\* A slip: what was asked for stands, for a production too.
DeniedNoPlace == ~env.there \/ (Wanted /\ holding = {})

\* A production is never replaced without one, and a copy needs a place.
Denied ==
  \/ ~env.there
  \/ env.production /\ restore.asked = "no"
  \/ Wanted /\ holding = {}

Admit ==
  /\ restore.phase = "sent"
  /\ was' = env
  /\ \/ Denied /\ restore' = [restore EXCEPT !.phase = "denied"]
     \/ ~Denied /\ restore' = [restore EXCEPT !.phase = "admitted", !.stamped = Wanted]
  /\ UNCHANGED <<env, holding, wrote, edits>>

------------------------------------------------------------------------------
(* The controller and the Job.                                             *)

Keep == UNCHANGED <<env, holding, was, edits>>

\* safetyDestination: the smallest name among those there are now.
Destination == CHOOSE b \in holding : \A c \in holding : b <= c

Copy ==
  /\ restore.phase = "admitted" /\ restore.stamped
  /\ holding # {}
  /\ wrote' = wrote \cup {Destination}
  /\ restore' = [restore EXCEPT !.phase = "copied"]
  /\ Keep

\* Refused rather than restored without: "the person who asked was told there would be
\* one".  Or the copy fails, and with it the Job.
NoCopy ==
  /\ restore.phase = "admitted" /\ restore.stamped
  /\ restore' = [restore EXCEPT !.phase = "failed"]
  /\ UNCHANGED wrote /\ Keep

Replace ==
  /\ \/ restore.phase = "copied"
     \/ restore.phase = "admitted" /\ ~restore.stamped
  /\ restore' = [restore EXCEPT !.phase = "replaced"]
  /\ UNCHANGED wrote /\ Keep

------------------------------------------------------------------------------
(* People.                                                                 *)

Edit(e, bs) ==
  /\ edits < MaxEdits /\ edits' = edits + 1
  /\ env' = e /\ holding' = bs
  /\ UNCHANGED <<restore, wrote, was>>

Next ==
  \/ Admit \/ Copy \/ NoCopy \/ Replace
  \/ \E e \in {f \in Environments : f.production => f.persistent} : Edit(e, holding)
  \/ \E bs \in SUBSET Backups : Edit(env, bs)

Spec == Init /\ [][Next]_vars

------------------------------------------------------------------------------
(* What must hold.                                                         *)

\* What a production held is on a volume before it is replaced, and so is what any
\* environment held for whose restore a copy was promised, whatever happened to the
\* backups since; and a copy nobody asked for is taken of all that is kept.
ReplacedIsCopied ==
  /\ restore.phase = "replaced"
  /\ \/ was.production \/ restore.asked = "yes"
     \/ was.persistent /\ restore.asked = None
  => wrote # {}

==============================================================================
