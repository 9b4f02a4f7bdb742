------------------------------ MODULE TenantForms ------------------------------
(***************************************************************************)
(* What people change of a customer record from the console: the catalogue *)
(* of images and the modules a customer loads (internal/console/images.go, *)
(* repos.go).  A handler reads the OdooTenant as the person, applies the   *)
(* form to what it read and updates it; the API server refuses an update   *)
(* of a version that is no longer the last, and the TenantGuard webhook    *)
(* (internal/webhook/tenant.go) one that crosses a major unrehearsed.      *)
(***************************************************************************)
EXTENDS Naturals, FiniteSets

CONSTANTS
  People,      \* those with a form in front of them
  Images,      \* the entries the catalogue may have
  MajorOf,     \* the major version of each
  Rehearsed,   \* those that a rehearsal has succeeded on
  None,        \* no entry
  MaxWrites    \* bound: writes of the record

\* Every entry has a major version, and a rehearsal is of an entry.
EntriesAreImages == None \notin Images /\ Rehearsed \subseteq Images /\ DOMAIN MajorOf = Images

VARIABLES
  record,  \* the OdooTenant: its entries, the one marked default, majorUpgrade, modules
  writes,  \* writes of it so far
  form,    \* form[p]: what p has submitted, NoForm when nothing is being handled
  object,  \* object[p]: the record as the handler means to store it
  latest   \* latest[p]: nobody has written the record since the handler read it

vars == <<record, writes, form, object, latest>>

NoForm == [do |-> "none", image |-> None, rehearsal |-> FALSE]

\* What a form may ask; a promotion may name a rehearsal, a module is one repository.
Forms ==
  [do : {"add", "remove"}, image : Images, rehearsal : {FALSE}]
    \cup [do : {"promote"}, image : Images, rehearsal : BOOLEAN]
    \cup [do : {"addRepo", "removeRepo"}, image : {None}, rehearsal : {FALSE}]

Empty == [entries |-> {}, marked |-> None, upgradeTo |-> None, repo |-> FALSE]

Init ==
  /\ record = Empty
  /\ writes = 0
  /\ form = [p \in People |-> NoForm]
  /\ object = [p \in People |-> Empty]
  /\ latest = [p \in People |-> FALSE]

------------------------------------------------------------------------------
(* The handlers: what each makes of the record r it read.                  *)

\* The first entry is the default.  One of a name that is there replaces it and keeps its
\* mark: "adding an entry is not how somebody promotes one".
handleAddImage(r, i) ==
  [r EXCEPT !.entries = @ \cup {i}, !.marked = IF r.entries = {} THEN i ELSE @]

handleRemoveImage(r, i) ==
  [r EXCEPT !.entries = @ \ {i}, !.marked = IF @ = i THEN None ELSE @]

\* The authorisation is that of this promotion, or none.
handlePromoteImage(r, i, rehearsal) ==
  [r EXCEPT !.marked = i, !.upgradeTo = IF rehearsal THEN i ELSE None]

Applied(f, r) ==
  CASE f.do = "add"        -> handleAddImage(r, f.image)
    [] f.do = "remove"     -> handleRemoveImage(r, f.image)
    [] f.do = "promote"    -> handlePromoteImage(r, f.image, f.rehearsal)
    [] f.do = "addRepo"    -> [r EXCEPT !.repo = TRUE]
    [] f.do = "removeRepo" -> [r EXCEPT !.repo = FALSE]

\* A handler that finds nothing to promote says so and writes nothing.
Refused(f, r) == f.do = "promote" /\ f.image \notin r.entries

\* The entry new environments use: the one marked, or the only one.
DefaultImage(r) ==
  IF r.marked # None \/ Cardinality(r.entries) # 1 THEN r.marked
  ELSE CHOOSE i \in r.entries : TRUE

\* The webhook, over the record as it is and the one that is sent.
Admitted(r) ==
  LET prev == DefaultImage(record)
      next == DefaultImage(r)
      Crosses == prev # None /\ next # None /\ MajorOf[prev] # MajorOf[next]
  IN Crosses => r.upgradeTo = next /\ next \in Rehearsed

\* The handler reads the record and applies the form.
Submit(p, f) ==
  /\ form[p] = NoForm /\ writes < MaxWrites
  /\ ~Refused(f, record)
  /\ form' = [form EXCEPT ![p] = f]
  /\ object' = [object EXCEPT ![p] = Applied(f, record)]
  /\ latest' = [latest EXCEPT ![p] = TRUE]
  /\ UNCHANGED <<record, writes>>

Answered(p) ==
  /\ form' = [form EXCEPT ![p] = NoForm]
  /\ object' = [object EXCEPT ![p] = Empty]

\* A slip: what is sent has no resourceVersion, so that any version will do.
AnyVersion(p) == TRUE

\* An Update is of the version that was read.
CurrentVersion(p) == latest[p]

\* One that changes nothing makes no new version; an entry sent again may differ in what
\* is left out here.
Update(p) ==
  /\ form[p] # NoForm /\ writes < MaxWrites
  /\ CurrentVersion(p) /\ Admitted(object[p])
  /\ record' = object[p]
  /\ writes' = writes + 1
  /\ \/ latest' = [q \in People |-> FALSE]
     \/ object[p] = record /\ latest' = [latest EXCEPT ![p] = FALSE]
  /\ Answered(p)

\* A conflict, the webhook's refusal, or one of the person's permissions: said, not tried
\* again.
Fail(p) ==
  /\ form[p] # NoForm
  /\ Answered(p)
  /\ latest' = [latest EXCEPT ![p] = FALSE]
  /\ UNCHANGED <<record, writes>>

\* The tenant controller writes its status: another version of the same spec.
WriteStatus ==
  /\ writes < MaxWrites
  /\ writes' = writes + 1
  /\ latest' = [p \in People |-> FALSE]
  /\ UNCHANGED <<record, form, object>>

Next ==
  \/ \E p \in People :
       \/ \E f \in Forms : Submit(p, f)
       \/ Update(p)
       \/ Fail(p)
  \/ WriteStatus

Spec == Init /\ [][Next]_vars

------------------------------------------------------------------------------
(* What must hold.                                                         *)

\* "Two people editing produce a conflict the API server reports, instead of one silently
\* overwriting the other": every change of the record is one form applied to the record
\* as it stood, so a handler that read it earlier takes back nobody's promotion, entry or
\* module.  And only a promotion moves the mark off an entry that stays.
InTurn ==
  record' # record =>
    \E p \in People :
      /\ form[p] # NoForm
      /\ record' = Applied(form[p], record)
      /\ (record'.marked # record.marked /\ record.marked \in record'.entries)
           => form[p].do = "promote"

EditsAreInTurn == [][InTurn]_vars

==============================================================================
