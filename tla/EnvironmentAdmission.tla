------------------------- MODULE EnvironmentAdmission -------------------------
(***************************************************************************)
(* The creation of one OdooEnvironment: what the API server fills in from  *)
(* the schema, what the EnvironmentCreator webhook makes of the purpose    *)
(* and of the customer's record (internal/webhook/quota.go), and what the  *)
(* CEL rules of the type then refuse (api/v1alpha1/odooenvironment_types). *)
(* The order matters and is the API server's: defaults, webhook, rules.    *)
(*                                                                         *)
(* The webhook answers with a patch built from the object it was sent.     *)
(* Operations on one field are all applied: the last of them stands.       *)
(***************************************************************************)
EXTENDS Naturals

CONSTANTS
  Asked,    \* the requests: records of Requests
  Records   \* the customer's records: records of Customers

VARIABLES
  request,  \* what somebody asked for
  tenant,   \* the record of the customer it is for
  found,    \* that record as the webhook could get it
  env,      \* the environment that was created
  answer    \* "asked", "created" or "refused"

vars == <<request, tenant, found, env, answer>>

Unset == "unset"
Empty == "empty"  \* an object that is there, with nothing in it
Purposes == {"Review", "QA", "Staging", "Production"}
Lifecycles == {"Ephemeral", "Hibernating", "Persistent"}
DataTypes == {"Demo", "Snapshot", "Live"}

\* "Shared" is a claim that is ReadWriteMany.
Filestores == {"Ephemeral", "Volume", "Shared", "Database"}
Sizes == {"small", "medium", "large"}

\* Addons are told apart by the Odoo series of their branches.
Series == {"ours", "other"}

Requests ==
  [purpose: Purposes \cup {Unset}, lifecycle: Lifecycles \cup {Unset},
   data: DataTypes \cup {Unset}, snapshot: BOOLEAN, acceptsRisk: BOOLEAN,
   filestore: Filestores \cup {Unset}, size: Sizes \cup {Unset},
   replicas: {1, 2}, cron: BOOLEAN,
   public: BOOLEAN, host: BOOLEAN, anonymous: BOOLEAN, noIndex: BOOLEAN,
   randomize: {"on", "off", Unset}, denyEgress: BOOLEAN,
   mail: {"none", "plain", "acknowledged"},
   imageRef: {Unset, "entry", "unknown"}, image: {Unset, "named"},
   addons: Series \cup {Unset}]

\* catalogue: what the entry chosen resolves to.  studied: the study of that image found
\* addons paths.  The rest is environmentDefaults, whose storage and addons may be Empty.
Customers ==
  [there: BOOLEAN, cards: BOOLEAN, people: BOOLEAN, domain: BOOLEAN,
   catalogue: {"none", "image", "unbuilt"}, studied: BOOLEAN,
   filestore: Filestores \cup {Unset, Empty}, size: Sizes \cup {Unset},
   image: {Unset, "legacy"}, addons: Series \cup {Unset, Empty}]

AskedAreRequests == Asked \subseteq Requests /\ Records \subseteq Customers

Init ==
  /\ request \in Asked
  /\ tenant \in Records
  /\ found = tenant
  /\ env = request
  /\ answer = "asked"

------------------------------------------------------------------------------
(* The schema.                                                             *)

\* lifecycle, exposure and security default to {}, and their members to values:
\* this is done before any webhook sees the object.
Defaulted(r) == [r EXCEPT !.lifecycle = IF @ = Unset THEN "Ephemeral" ELSE @]

------------------------------------------------------------------------------
(* The EnvironmentCreator webhook, on the object e it was sent.            *)

\* DefaultsFor.
Preset(purpose) ==
  CASE purpose = "Review"     -> [lifecycle |-> "Ephemeral",  data |-> "Demo",     filestore |-> "Ephemeral", size |-> "small"]
    [] purpose = "QA"         -> [lifecycle |-> "Ephemeral",  data |-> "Snapshot", filestore |-> "Database",  size |-> "medium"]
    [] purpose = "Staging"    -> [lifecycle |-> "Persistent", data |-> "Snapshot", filestore |-> "Database",  size |-> "medium"]
    [] purpose = "Production" -> [lifecycle |-> "Persistent", data |-> "Live",     filestore |-> "Volume",    size |-> "large"]

Fill(value, default) == IF value = Unset THEN default ELSE value

\* purposeOps.  Where the type of the data is missing the whole of data is replaced, the
\* snapshot and the acknowledgement that somebody wrote there included.
ExpandPurpose(e) ==
  IF e.purpose = Unset THEN e
  ELSE LET want == Preset(e.purpose)
       IN [e EXCEPT !.lifecycle = Fill(@, want.lifecycle), !.data = Fill(@, want.data),
                    !.snapshot = @ /\ e.data # Unset, !.acceptsRisk = @ /\ e.data # Unset,
                    !.filestore = Fill(@, want.filestore), !.size = Fill(@, want.size)]

\* A slip: the rules look at what the customer's other environments may hold, not cards.
DataRulesNoCards(e, t) == t.people => e.noIndex

\* dataRules: on the object as it was sent, before the purpose is expanded.
DataRules(e, t) ==
  /\ t.cards /\ e.purpose # "Production" => e.data # "Live" /\ e.mail = "none"
  /\ t.people => e.noIndex

\* hostFor: an address is generated but for Production, which is refused without one.
HostRule(e) == e.host \/ e.purpose # "Production" \/ ~e.public
HostFor(e, t) == e.host \/ (e.purpose # "Production" /\ t.domain)

\* The entry of the catalogue that is chosen: by name, or the default when nothing is named.
Chosen(e) == e.imageRef # Unset \/ e.image = Unset

ImageRules(e, t) ==
  /\ ~(e.imageRef # Unset /\ e.image # Unset)
  /\ e.imageRef # Unset => e.imageRef = "entry" /\ t.catalogue # "none"
  /\ Chosen(e) => t.catalogue # "unbuilt"
  /\ Chosen(e) /\ t.catalogue = "image" => e.addons # "other"

\* The image, and the addons paths its study found.
ChooseImage(e, t) ==
  IF Chosen(e) /\ t.catalogue = "image"
  THEN [e EXCEPT !.image = "named", !.addons = IF @ = Unset /\ t.studied THEN "ours" ELSE @]
  ELSE [e EXCEPT !.image = Fill(@, t.image)]

\* environmentDefaults: tested against e, the object as it was sent, and so laid over
\* what the purpose and the study have put into a field that was empty in it.  Storage and
\* addons are laid over whole: an Empty one takes away what was put there.
CustomerDefaults(e, t, patched) ==
  LET over(sent, now, default) ==
        IF sent # Unset \/ default = Unset THEN now
        ELSE IF default = Empty THEN Unset ELSE default
  IN [patched EXCEPT !.filestore = over(e.filestore, @, t.filestore),
                     !.size      = over(e.size, @, t.size),
                     !.addons    = over(e.addons, @, t.addons)]

\* With no customer record there is nothing to choose from and no purpose is expanded; a
\* record that could not be read is as good as none.
Mutated(e, t) ==
  IF ~t.there THEN e
  ELSE CustomerDefaults(e, t, [ChooseImage(ExpandPurpose(e), t) EXCEPT !.host = HostFor(e, t)])

Refuses(e, t) ==
  \/ e.imageRef # Unset /\ e.image # Unset
  \/ t.there /\ ~(DataRules(e, t) /\ HostRule(e) /\ ImageRules(e, t))

------------------------------------------------------------------------------
(* The rules of the type.  has() is what stands before "# Unset".          *)

Exposed(e) ==
  e.public =>
    /\ e.host /\ ~e.anonymous
    /\ e.randomize # "off" /\ e.denyEgress
    /\ e.data = "Snapshot" => e.acceptsRisk

MailRules(e) ==
  /\ e.mail # "none" => e.purpose = "Production" \/ e.mail = "acknowledged"
  /\ e.mail # "none" => e.data # "Demo"

\* A slip: a production that runs demo data is somebody's mistake to make.
ProductionRulesLax(e) == e.purpose = "Production" => e.lifecycle = "Persistent"

ProductionRules(e) ==
  e.purpose = "Production" => e.data = "Live" /\ e.lifecycle = "Persistent" /\ e.randomize # "on"

\* Several copies of Odoo need a filestore they can all reach.
Reachable(e) == e.filestore \in {"Database", "Shared"}

FilestoreRules(e) ==
  /\ e.filestore = "Ephemeral" => e.purpose \notin {"Staging", "Production"} /\ e.lifecycle = "Ephemeral"
  /\ e.replicas > 1 => Reachable(e)
  /\ e.cron => Reachable(e)

\* data.type and image are required, and Snapshot needs the snapshot.
Complete(e) ==
  /\ e.data # Unset /\ e.image # Unset
  /\ e.data = "Snapshot" => e.snapshot

Valid(e) ==
  /\ Complete(e) /\ Exposed(e) /\ MailRules(e)
  /\ ProductionRules(e) /\ FilestoreRules(e)

Admit ==
  /\ answer = "asked"
  /\ \E read \in BOOLEAN : found' = [tenant EXCEPT !.there = @ /\ read]
  /\ LET e == Defaulted(request)
         patched == Mutated(e, found')
     IN \/ /\ ~Refuses(e, found') /\ Valid(patched)
           /\ answer' = "created"
           /\ env' = patched
        \/ /\ Refuses(e, found') \/ ~Valid(patched)
           /\ answer' = "refused"
           /\ UNCHANGED env
  /\ UNCHANGED <<request, tenant>>

Next == Admit

Spec == Init /\ [][Next]_vars

------------------------------------------------------------------------------
(* What must hold.                                                         *)

\* FilestoreIsEphemeral: no storage at all is an emptyDir, too.
FilesAreLost(e) == e.filestore \in {Unset, "Ephemeral"}

\* The combinations "that are not a preference but a mistake" are not created, whichever
\* of the schema, the purpose, the customer's record and the rules filled a field in: no
\* production that is not live or not for good, no public environment that is open and,
\* of a customer whose record the webhook could read, no card data outside production and
\* no files lost under a purpose that keeps its data.  The last but for the customer whose
\* default storage is there and Empty: it is laid over what the purpose filled in, and
\* the rules of the type look at a filestore only where there is one.
NoMistakeIsCreated ==
  answer = "created" =>
    /\ env.purpose = "Production" => env.data = "Live" /\ env.lifecycle = "Persistent"
    /\ env.public => env.host /\ env.randomize # "off"
    /\ found.there /\ found.cards /\ env.data = "Live" => env.purpose = "Production"
    /\ found.there /\ found.filestore # Empty /\ env.purpose \in {"Staging", "Production"}
         => ~FilesAreLost(env)

==============================================================================
