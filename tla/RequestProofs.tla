---------------------------- MODULE RequestProofs ----------------------------
(***************************************************************************)
(* Proofs about the components of Operator that answer people: the         *)
(* admission webhooks and the console.  For every request and customer     *)
(* record of their types, every number of people, names, customers and     *)
(* clusters, and every set of backups, images and rehearsals.              *)
(***************************************************************************)
EXTENDS Operator, TLAPS, FiniteSetTheorems

------------------------------------------------------------------------------
(* EnvironmentAdmission: what may be created.                              *)

\* What was created is the request as the schema and the webhook left it, past every rule.
CreatedIsAdmitted ==
  /\ D_request \in Admission!Requests
  /\ D_tenant \in Admission!Customers
  /\ D_found \in Admission!Customers
  /\ D_answer = "created" =>
       /\ D_env = Admission!Mutated(Admission!Defaulted(D_request), D_found)
       /\ ~Admission!Refuses(Admission!Defaulted(D_request), D_found)
       /\ Admission!Valid(D_env)

LEMMA AdmissionInvariance == Admission!Spec => []CreatedIsAdmitted
<1>1. Admission!Init => CreatedIsAdmitted
  BY AskedAssumption DEF Admission!Init, CreatedIsAdmitted, Admission!AskedAreRequests
<1>2. CreatedIsAdmitted /\ [Admission!Next]_(Admission!vars) => CreatedIsAdmitted'
  <2> SUFFICES ASSUME CreatedIsAdmitted, [Admission!Next]_(Admission!vars) PROVE CreatedIsAdmitted'
    OBVIOUS
  <2>1. CASE Admission!Admit
    <3>1. D_tenant' = D_tenant /\ D_request' = D_request
      BY <2>1 DEF Admission!Admit
    <3>2. D_found' \in Admission!Customers
      <4>1. PICK read \in BOOLEAN : D_found' = [D_tenant EXCEPT !.there = @ /\ read]
        BY <2>1 DEF Admission!Admit
      <4>2. (D_tenant.there /\ read) \in BOOLEAN
        BY DEF CreatedIsAdmitted, Admission!Customers
      <4>3. QED
        BY <4>1, <4>2 DEF CreatedIsAdmitted, Admission!Customers
    <3>3. D_answer' = "created" =>
            /\ D_env' = Admission!Mutated(Admission!Defaulted(D_request), D_found')
            /\ ~Admission!Refuses(Admission!Defaulted(D_request), D_found') /\ Admission!Valid(D_env')
      BY <2>1 DEF Admission!Admit
    <3>4. QED
      BY <3>1, <3>2, <3>3 DEF CreatedIsAdmitted
  <2>2. CASE UNCHANGED Admission!vars
    BY <2>2 DEF CreatedIsAdmitted, Admission!vars
  <2>3. QED
    BY <2>1, <2>2 DEF Admission!Next
<1>3. QED
  BY <1>1, <1>2, PTL DEF Admission!Spec

LEMMA DefaultedIsARequest ==
  ASSUME NEW r \in Admission!Requests
  PROVE  Admission!Defaulted(r) \in Admission!Requests
BY DEF Admission!Defaulted, Admission!Requests, Admission!Lifecycles

\* The defaults a customer may set leave the purpose and the data as the webhook made them,
\* and fill in a filestore or leave the one there is, unless the storage is Empty.
LEMMA MutatedFields ==
  ASSUME NEW e \in Admission!Requests, NEW t \in Admission!Customers, t.there
  PROVE  LET x == Admission!ExpandPurpose(e)
             m == Admission!Mutated(e, t)
         IN /\ m.purpose = e.purpose
            /\ m.data = x.data
            /\ t.filestore # Admission!Empty =>
                 m.filestore = IF e.filestore = Admission!Unset /\ t.filestore # Admission!Unset
                               THEN t.filestore ELSE x.filestore
<1> DEFINE x == Admission!ExpandPurpose(e)
           c == Admission!ChooseImage(x, t)
           h == [c EXCEPT !.host = Admission!HostFor(e, t)]
<1>0. e.purpose # Admission!Unset => Admission!Preset(e.purpose).filestore \in Admission!Filestores
  BY DEF Admission!Preset, Admission!Requests, Admission!Purposes, Admission!Filestores
<1>1. /\ DOMAIN x = DOMAIN e /\ x.purpose = e.purpose
  BY DEF Admission!ExpandPurpose, Admission!Requests
<1>2. /\ DOMAIN c = DOMAIN x /\ c.purpose = x.purpose
      /\ c.data = x.data /\ c.filestore = x.filestore
  BY <1>1 DEF Admission!ChooseImage, Admission!Requests
<1>3. /\ DOMAIN h = DOMAIN c /\ h.purpose = c.purpose
      /\ h.data = c.data /\ h.filestore = c.filestore
  BY <1>1, <1>2 DEF Admission!Requests
<1>4. Admission!Mutated(e, t) = Admission!CustomerDefaults(e, t, [Admission!ChooseImage(Admission!ExpandPurpose(e), t) EXCEPT !.host = Admission!HostFor(e, t)])
  BY DEF Admission!Mutated
<1>5. QED
  BY <1>1, <1>2, <1>3, <1>4 DEF Admission!CustomerDefaults, Admission!Requests

\* What the purpose fills in, where it was empty: no other purpose makes data live, and
\* those that keep their data keep their files.
LEMMA ExpandedFields ==
  ASSUME NEW e \in Admission!Requests
  PROVE  LET x == Admission!ExpandPurpose(e)
         IN /\ x.data = "Live" /\ e.data # "Live" => e.purpose = "Production"
            /\ e.purpose \in {"Staging", "Production"} => x.filestore # Admission!Unset
BY DEF Admission!ExpandPurpose, Admission!Preset, Admission!Fill, Admission!Requests,
   Admission!Purposes, Admission!DataTypes, Admission!Filestores, Admission!Unset

LEMMA AdmittedIsNoMistake == CreatedIsAdmitted => Admission!NoMistakeIsCreated
<1> SUFFICES ASSUME CreatedIsAdmitted, D_answer = "created"
             PROVE  /\ D_env.purpose = "Production" => D_env.data = "Live" /\ D_env.lifecycle = "Persistent"
                    /\ D_env.public => D_env.host /\ D_env.randomize # "off"
                    /\ D_found.there /\ D_found.cards /\ D_env.data = "Live" => D_env.purpose = "Production"
                    /\ D_found.there /\ D_found.filestore # Admission!Empty
                         => (D_env.purpose \in {"Staging", "Production"} => ~Admission!FilesAreLost(D_env))
  BY DEF Admission!NoMistakeIsCreated
<1> DEFINE e == Admission!Defaulted(D_request)
<1>1. e \in Admission!Requests /\ D_found \in Admission!Customers
  BY DefaultedIsARequest DEF CreatedIsAdmitted
<1>2. D_env = Admission!Mutated(e, D_found) /\ ~Admission!Refuses(e, D_found) /\ Admission!Valid(D_env)
  BY DEF CreatedIsAdmitted
<1> HIDE DEF e
<1>3. D_env.purpose = "Production" => D_env.data = "Live" /\ D_env.lifecycle = "Persistent"
  BY <1>2 DEF Admission!Valid, Admission!ProductionRules
<1>4. D_env.public => D_env.host /\ D_env.randomize # "off"
  BY <1>2 DEF Admission!Valid, Admission!Exposed
<1>5. ASSUME D_found.there, D_found.cards, D_env.data = "Live"
      PROVE  D_env.purpose = "Production"
  <2>1. e.purpose # "Production" => e.data # "Live"
    BY <1>2, <1>5 DEF Admission!Refuses, Admission!DataRules
  <2>2. D_env.purpose = e.purpose /\ D_env.data = Admission!ExpandPurpose(e).data
    BY <1>1, <1>2, <1>5, MutatedFields
  <2>3. QED
    BY <1>1, <1>5, <2>1, <2>2, ExpandedFields
<1>6. ASSUME D_found.there, D_found.filestore # Admission!Empty, D_env.purpose \in {"Staging", "Production"}
      PROVE  ~Admission!FilesAreLost(D_env)
  <2>1. D_env.filestore # "Ephemeral"
    BY <1>2, <1>6 DEF Admission!Valid, Admission!FilestoreRules
  <2>2. D_env.filestore # Admission!Unset
    <3>1. /\ D_env.purpose = e.purpose
          /\ D_env.filestore = IF e.filestore = Admission!Unset /\ D_found.filestore # Admission!Unset
                               THEN D_found.filestore ELSE Admission!ExpandPurpose(e).filestore
      BY <1>1, <1>2, <1>6, MutatedFields
    <3>2. Admission!ExpandPurpose(e).filestore # Admission!Unset
      BY <1>1, <1>6, <3>1, ExpandedFields
    <3>3. QED
      BY <3>1, <3>2
  <2>3. QED
    BY <2>1, <2>2 DEF Admission!FilesAreLost
<1>7. D_found.there /\ D_found.cards /\ D_env.data = "Live" => D_env.purpose = "Production"
  BY <1>5
<1>8. D_found.there /\ D_found.filestore # Admission!Empty
        => (D_env.purpose \in {"Staging", "Production"} => ~Admission!FilesAreLost(D_env))
  BY <1>6
<1>9. QED
  BY <1>3, <1>4, <1>7, <1>8

\* EnvironmentAdmission is one of the components that take turns.
LEMMA AdmissionRefined == Spec => Admission!Spec
<1>1. [Next]_vars => [Admission!Next]_(Admission!vars)
  BY DEF Next, vars, AccountMoves, AdmissionMoves, QuotaMoves, StampMoves, CopiesMoves,
         LinkMoves, SnapMoves, PagesMoves, FormsMoves, FinalMoves, ReleaseMoves, ButA,
         ButQ, ButT, ButB, ButL, ButS, ButW, ButG, ButF, ButR, D, Admission!vars
<1>2. Init => Admission!Init
  BY DEF Init
<1>3. QED
  BY <1>1, <1>2, PTL DEF Spec, Admission!Spec

\* No request of the type is made into one of the mistakes, whatever customer record of
\* the type the webhook finds or fails to read, in whatever order the schema, the purpose
\* and the record fill its fields: an Empty default storage is the exception stated there.
THEOREM NoMistakeIsAdmitted == Spec => []NoMistakeIsCreated
<1>1. CreatedIsAdmitted => NoMistakeIsCreated
  BY AdmittedIsNoMistake DEF NoMistakeIsCreated
<1>2. QED
  BY <1>1, AdmissionInvariance, AdmissionRefined, PTL

------------------------------------------------------------------------------
(* EnvironmentQuota: how many may be created.                              *)

\* What is open and was counted, of a person and of a customer.
FairBy(p)  == {n \in Quota!OpenBy(p) : Q_env[n].how = "counted"}
FairFor(t) == {n \in Quota!OpenFor(t) : Q_env[n].how = "counted"}

\* Past the list about its creator, or past both, and not overtaken since.
Admissible(n) ==
  Q_env[n].at \in {"counted", "checked"} /\ Q_env[n].how = "counted" /\ Q_env[n].ephemeral

\* Whoever was counted and not overtaken still fits within what it was counted against.
RoomIsLeft ==
  /\ Q_env \in [Q_Names -> Quota!Environments]
  /\ \A n \in Q_Names : Q_env[n].at # "free" /\ Q_env[n].how = "counted" => Q_env[n].by \notin Q_Exempt
  /\ Q_seen \subseteq Q_Tenants
  /\ \A n \in Q_Names, p \in Q_People :
       Admissible(n) /\ Q_env[n].by = p => Cardinality(FairBy(p)) < Q_Limit
  /\ \A n \in Q_Names, t \in Q_Tenants :
       Admissible(n) /\ Q_env[n].at = "checked" /\ Q_env[n].for = t
         => Cardinality(FairFor(t)) < Q_Quota[t]
  /\ \A p \in Q_People : Cardinality(FairBy(p)) <= Q_Limit
  /\ \A t \in Q_Tenants : Cardinality(FairFor(t)) <= Q_Quota[t]

\* The component's sets are counted as this module's are.
LEMMA SameCounts ==
  /\ \A X : Quota!IsFiniteSet(X) <=> IsFiniteSet(X)
  /\ \A X : Quota!Cardinality(X) = Cardinality(X)
<1>1. \A X : Quota!IsFiniteSet(X) <=> IsFiniteSet(X)
  BY DEF Quota!IsFiniteSet, IsFiniteSet
<1>2. \A X : Quota!Cardinality(X) = Cardinality(X)
  BY DEF Quota!Cardinality, Cardinality
<1>3. QED
  BY <1>1, <1>2

\* One more environment makes one more at most.
LEMMA CountGrowsByOne ==
  ASSUME NEW X, NEW Y, NEW n, IsFiniteSet(X), Y \subseteq X \cup {n}
  PROVE  /\ Cardinality(X) \in Nat /\ Cardinality(Y) \in Nat
         /\ Cardinality(Y) <= Cardinality(X) + 1
         /\ Y \subseteq X => Cardinality(Y) <= Cardinality(X)
<1>1. IsFiniteSet(X \cup {n}) /\ Cardinality(X \cup {n}) <= Cardinality(X) + 1
  <2>1. Cardinality(X) \in Nat
    BY FS_CardinalityType
  <2>2. QED
    BY <2>1, FS_AddElement
<1>2. IsFiniteSet(Y) /\ Cardinality(Y) <= Cardinality(X \cup {n})
  BY <1>1, FS_Subset
<1>3. Y \subseteq X => Cardinality(Y) <= Cardinality(X)
  BY FS_Subset
<1>4. Cardinality(X) \in Nat /\ Cardinality(Y) \in Nat /\ Cardinality(X \cup {n}) \in Nat
  BY <1>1, <1>2, FS_CardinalityType
<1>5. QED
  BY <1>1, <1>2, <1>3, <1>4

LEMMA OpenIsFinite ==
  /\ \A p : IsFiniteSet(Quota!OpenBy(p)) /\ IsFiniteSet(FairBy(p)) /\ FairBy(p) \subseteq Quota!OpenBy(p)
  /\ \A t : IsFiniteSet(Quota!OpenFor(t)) /\ IsFiniteSet(FairFor(t)) /\ FairFor(t) \subseteq Quota!OpenFor(t)
<1>1. \A p : Quota!OpenBy(p) \subseteq Q_Names /\ FairBy(p) \subseteq Quota!OpenBy(p)
  BY DEF FairBy, Quota!OpenBy, Quota!Open
<1>2. \A t : Quota!OpenFor(t) \subseteq Q_Names /\ FairFor(t) \subseteq Quota!OpenFor(t)
  BY DEF FairFor, Quota!OpenFor, Quota!Open
<1>3. IsFiniteSet(Q_Names)
  BY QuotaAssumption, SameCounts DEF Quota!LimitsAreNumbers
<1>4. QED
  BY <1>1, <1>2, <1>3, FS_Subset

\* What fits on top of all that is open fits on top of what was counted.
LEMMA RoomUnderFull ==
  /\ \A p : ~Quota!Full(Quota!OpenBy(p), Q_Limit) => Cardinality(FairBy(p)) < Q_Limit
  /\ \A t \in Q_Tenants : ~Quota!Full(Quota!OpenFor(t), Q_Quota[t]) => Cardinality(FairFor(t)) < Q_Quota[t]
<1>1. ASSUME NEW p, ~Quota!Full(Quota!OpenBy(p), Q_Limit)
      PROVE  Cardinality(FairBy(p)) < Q_Limit
  <2>1. Cardinality(FairBy(p)) <= Cardinality(Quota!OpenBy(p))
    BY OpenIsFinite, CountGrowsByOne
  <2>2. Cardinality(FairBy(p)) \in Nat /\ Cardinality(Quota!OpenBy(p)) \in Nat
    BY OpenIsFinite, FS_CardinalityType
  <2>3. QED
    BY <1>1, <2>1, <2>2, QuotaAssumption, SameCounts DEF Quota!Full, Quota!LimitsAreNumbers
<1>2. ASSUME NEW t \in Q_Tenants, ~Quota!Full(Quota!OpenFor(t), Q_Quota[t])
      PROVE  Cardinality(FairFor(t)) < Q_Quota[t]
  <2>1. Cardinality(FairFor(t)) <= Cardinality(Quota!OpenFor(t))
    BY OpenIsFinite, CountGrowsByOne
  <2>2. Cardinality(FairFor(t)) \in Nat /\ Cardinality(Quota!OpenFor(t)) \in Nat
    BY OpenIsFinite, FS_CardinalityType
  <2>3. QED
    BY <1>2, <2>1, <2>2, QuotaAssumption, SameCounts DEF Quota!Full, Quota!LimitsAreNumbers
<1>3. QED
  BY <1>1, <1>2

LEMMA InitQuota == Quota!Init => RoomIsLeft
<1> SUFFICES ASSUME Quota!Init PROVE RoomIsLeft
  OBVIOUS
<1>1. Quota!Free \in Quota!Environments /\ Quota!Free.at = "free"
  BY QuotaAssumption DEF Quota!Free, Quota!Environments, Quota!Stages,
     Quota!LimitsAreNumbers
<1>2. Q_env \in [Q_Names -> Quota!Environments] /\ \A n \in Q_Names : Q_env[n].at = "free"
  BY <1>1 DEF Quota!Init
<1>3. /\ \A p : FairBy(p) = {}
      /\ \A t : FairFor(t) = {}
  BY <1>2 DEF FairBy, FairFor, Quota!OpenBy, Quota!OpenFor, Quota!Open
<1>4. Cardinality({}) = 0
  BY FS_EmptySet
<1>5. QED
  BY <1>2, <1>3, <1>4, QuotaAssumption DEF Quota!Init, RoomIsLeft, Admissible,
     Quota!LimitsAreNumbers

\* A step that opens nothing, and lets past a list only what fits.
LEMMA NothingOpens ==
  ASSUME RoomIsLeft, NEW n \in Q_Names, NEW e \in Quota!Environments,
         Q_env' = [Q_env EXCEPT ![n] = e], Q_seen' = Q_seen,
         e.at = "open" /\ e.ephemeral =>
           /\ Q_env[n].at = "open" /\ Q_env[n].ephemeral
           /\ e.by = Q_env[n].by /\ e.for = Q_env[n].for /\ e.how = Q_env[n].how,
         e.at # "free" /\ e.how = "counted" => e.by \notin Q_Exempt,
         e.at \in {"counted", "checked"} /\ e.how = "counted" /\ e.ephemeral
           => Cardinality(FairBy(e.by)) < Q_Limit,
         e.at = "checked" /\ e.how = "counted" /\ e.ephemeral
           => \A t \in Q_Tenants : e.for = t => Cardinality(FairFor(t)) < Q_Quota[t]
  PROVE  RoomIsLeft'
<1>1. /\ Q_env' \in [Q_Names -> Quota!Environments]
      /\ \A m \in Q_Names : Q_env'[m] = IF m = n THEN e ELSE Q_env[m]
  BY DEF RoomIsLeft
<1>2. /\ \A p : FairBy(p)' \subseteq FairBy(p)
      /\ \A t : FairFor(t)' \subseteq FairFor(t)
  BY <1>1 DEF FairBy, FairFor, Quota!OpenBy, Quota!OpenFor, Quota!Open
<1>3. \A p : /\ Cardinality(FairBy(p)') \in Nat /\ Cardinality(FairBy(p)) \in Nat
             /\ Cardinality(FairBy(p)') <= Cardinality(FairBy(p))
  BY <1>2, OpenIsFinite, CountGrowsByOne
<1>4. \A t : /\ Cardinality(FairFor(t)') \in Nat /\ Cardinality(FairFor(t)) \in Nat
             /\ Cardinality(FairFor(t)') <= Cardinality(FairFor(t))
  BY <1>2, OpenIsFinite, CountGrowsByOne
<1>5. ASSUME NEW m \in Q_Names, Admissible(m)'
      PROVE  /\ \A p \in Q_People : Q_env'[m].by = p => Cardinality(FairBy(p)') < Q_Limit
             /\ \A t \in Q_Tenants : Q_env'[m].at = "checked" /\ Q_env'[m].for = t
                  => Cardinality(FairFor(t)') < Q_Quota[t]
  <2>1. /\ \A p \in Q_People : Q_env'[m].by = p => Cardinality(FairBy(p)) < Q_Limit
        /\ \A t \in Q_Tenants : Q_env'[m].at = "checked" /\ Q_env'[m].for = t
             => Cardinality(FairFor(t)) < Q_Quota[t]
    BY <1>1, <1>5 DEF RoomIsLeft, Admissible
  <2>2. QED
    BY <1>3, <1>4, <2>1, QuotaAssumption DEF Quota!LimitsAreNumbers
<1>6. \A p \in Q_People : Cardinality(FairBy(p)') <= Q_Limit
  BY <1>3, QuotaAssumption DEF RoomIsLeft, Quota!LimitsAreNumbers
<1>7. \A t \in Q_Tenants : Cardinality(FairFor(t)') <= Q_Quota[t]
  BY <1>4, QuotaAssumption DEF RoomIsLeft, Quota!LimitsAreNumbers
<1>8. \A m \in Q_Names : Q_env'[m].at # "free" /\ Q_env'[m].how = "counted" => Q_env'[m].by \notin Q_Exempt
  BY <1>1 DEF RoomIsLeft
<1>9. QED
  <2>1. Q_seen' \subseteq Q_Tenants
    BY DEF RoomIsLeft
  <2>2. QED
    BY <1>1, <1>5, <1>6, <1>7, <1>8, <2>1 DEF RoomIsLeft

\* When one opens, those that had counted without it are marked as overtaken, so that it
\* takes nobody's room.
LEMMA OneOpens ==
  ASSUME RoomIsLeft, NEW n \in Q_Names, NEW e \in Quota!Environments, Quota!Opens(n, e), Q_seen' = Q_seen,
         e.at = "open", e.by = Q_env[n].by, e.for = Q_env[n].for,
         e.how = "counted" => Admissible(n) /\ Q_env[n].at = "checked" /\ e.by \notin Q_Exempt
  PROVE  RoomIsLeft'
<1>1. \A m \in Q_Names :
        /\ m = n => Q_env'[m] = e
        /\ m \in Quota!Overtaken(n) => Q_env'[m] = [Q_env[m] EXCEPT !.how = "raced"]
        /\ m # n /\ m \notin Quota!Overtaken(n) => Q_env'[m] = Q_env[m]
  BY DEF Quota!Opens, Quota!Overtaken
<1>2. \A m \in Q_Names : Q_env[m] \in Quota!Environments
  BY DEF RoomIsLeft
<1>3. \A m \in Q_Names : [Q_env[m] EXCEPT !.how = "raced"] \in Quota!Environments
                         /\ [Q_env[m] EXCEPT !.how = "raced"].how = "raced"
  BY <1>2 DEF Quota!Environments
<1>4. \A m \in Q_Names : Q_env'[m] \in Quota!Environments /\ (m # n /\ Q_env'[m].how = "counted" =>
                         m \notin Quota!Overtaken(n) /\ Q_env'[m] = Q_env[m])
  BY <1>1, <1>2, <1>3
<1>5. Q_env' \in [Q_Names -> Quota!Environments]
  BY <1>4 DEF Quota!Opens
<1>6. \A p : /\ FairBy(p)' \subseteq FairBy(p) \cup {n}
             /\ p # e.by \/ e.how # "counted" => FairBy(p)' \subseteq FairBy(p)
  BY <1>1, <1>4 DEF FairBy, Quota!OpenBy, Quota!Open
<1>7. \A t : /\ FairFor(t)' \subseteq FairFor(t) \cup {n}
             /\ t # e.for \/ e.how # "counted" => FairFor(t)' \subseteq FairFor(t)
  BY <1>1, <1>4 DEF FairFor, Quota!OpenFor, Quota!Open
<1>8. \A p : /\ Cardinality(FairBy(p)') \in Nat /\ Cardinality(FairBy(p)) \in Nat
             /\ Cardinality(FairBy(p)') <= Cardinality(FairBy(p)) + 1
             /\ p # e.by \/ e.how # "counted" => Cardinality(FairBy(p)') <= Cardinality(FairBy(p))
  BY <1>6, OpenIsFinite, CountGrowsByOne
<1>9. \A t : /\ Cardinality(FairFor(t)') \in Nat /\ Cardinality(FairFor(t)) \in Nat
             /\ Cardinality(FairFor(t)') <= Cardinality(FairFor(t)) + 1
             /\ t # e.for \/ e.how # "counted" => Cardinality(FairFor(t)') <= Cardinality(FairFor(t))
  BY <1>7, OpenIsFinite, CountGrowsByOne
<1>10. ASSUME NEW m \in Q_Names, Admissible(m)'
       PROVE  /\ \A p \in Q_People : Q_env'[m].by = p => Cardinality(FairBy(p)') < Q_Limit
              /\ \A t \in Q_Tenants : Q_env'[m].at = "checked" /\ Q_env'[m].for = t
                   => Cardinality(FairFor(t)') < Q_Quota[t]
  <2>1. /\ m # n /\ Q_env'[m].how = "counted"
        /\ Q_env'[m].at \in {"counted", "checked"} /\ Q_env'[m].ephemeral
    BY <1>1, <1>10 DEF Admissible
  <2>2. Q_env'[m] = Q_env[m] /\ m \notin Quota!Overtaken(n) /\ Admissible(m)
    BY <1>4, <2>1 DEF Admissible
  <2>3. Q_env[m].by # e.by /\ (Q_env[m].at = "checked" => Q_env[m].for # e.for)
    BY <2>1, <2>2 DEF Quota!Overtaken
  <2>4. /\ \A p \in Q_People : Q_env[m].by = p => Cardinality(FairBy(p)) < Q_Limit
        /\ \A t \in Q_Tenants : Q_env[m].at = "checked" /\ Q_env[m].for = t
             => Cardinality(FairFor(t)) < Q_Quota[t]
    BY <2>2 DEF RoomIsLeft
  <2>5. QED
    BY <1>8, <1>9, <2>2, <2>3, <2>4, QuotaAssumption DEF Quota!LimitsAreNumbers
<1>11. ASSUME NEW p \in Q_People PROVE Cardinality(FairBy(p)') <= Q_Limit
  <2>1. CASE p = e.by /\ e.how = "counted"
    <3>1. Cardinality(FairBy(p)) < Q_Limit
      BY <2>1 DEF RoomIsLeft
    <3>2. QED
      BY <1>8, <3>1, QuotaAssumption DEF Quota!LimitsAreNumbers
  <2>2. CASE p # e.by \/ e.how # "counted"
    BY <1>8, <2>2, QuotaAssumption DEF RoomIsLeft, Quota!LimitsAreNumbers
  <2>3. QED
    BY <2>1, <2>2
<1>12. ASSUME NEW t \in Q_Tenants PROVE Cardinality(FairFor(t)') <= Q_Quota[t]
  <2>1. CASE t = e.for /\ e.how = "counted"
    <3>1. Cardinality(FairFor(t)) < Q_Quota[t]
      BY <2>1 DEF RoomIsLeft
    <3>2. QED
      BY <1>9, <3>1, QuotaAssumption DEF Quota!LimitsAreNumbers
  <2>2. CASE t # e.for \/ e.how # "counted"
    BY <1>9, <2>2, QuotaAssumption DEF RoomIsLeft, Quota!LimitsAreNumbers
  <2>3. QED
    BY <2>1, <2>2
<1>13. \A m \in Q_Names : Q_env'[m].at # "free" /\ Q_env'[m].how = "counted" => Q_env'[m].by \notin Q_Exempt
  BY <1>1, <1>4 DEF RoomIsLeft
<1>14. QED
  <2>1. Q_seen' \subseteq Q_Tenants
    BY DEF RoomIsLeft
  <2>2. QED
    BY <1>5, <1>10, <1>11, <1>12, <1>13, <2>1 DEF RoomIsLeft

LEMMA NextQuota == RoomIsLeft /\ [Quota!Next]_(Quota!vars) => RoomIsLeft'
<1> SUFFICES ASSUME RoomIsLeft, [Quota!Next]_(Quota!vars) PROVE RoomIsLeft'
  OBVIOUS
<1>1. ASSUME NEW n \in Q_Names PROVE Q_env[n] \in Quota!Environments
  BY DEF RoomIsLeft
<1>3. ASSUME NEW n \in Q_Names, Quota!Refuse(n) \/ Quota!Remove(n)
      PROVE  RoomIsLeft'
  <2>1. Q_env' = [Q_env EXCEPT ![n] = Quota!Free]
    BY <1>3 DEF Quota!Refuse, Quota!Remove
  <2>2. Quota!Free \in Quota!Environments /\ Quota!Free.at = "free"
    BY QuotaAssumption DEF Quota!Free, Quota!Environments, Quota!Stages,
       Quota!LimitsAreNumbers
  <2>3. QED
    BY <1>3, <2>1, <2>2, NothingOpens DEF Quota!Refuse, Quota!Remove, Quota!customers
<1>4. ASSUME NEW n \in Q_Names, NEW p \in Q_People, NEW t \in Q_Tenants \cup {Q_NoTenant}, Quota!Ask(n, p, t)
      PROVE  RoomIsLeft'
  <2>1. PICK customer \in Quota!Resolve(t), ephemeral \in BOOLEAN :
          Q_env' = [Q_env EXCEPT ![n] =
                    [at |-> "asked", by |-> p, for |-> customer, ephemeral |-> ephemeral,
                     how |-> IF p \in Q_Exempt THEN "exempt" ELSE "counted"]]
    BY <1>4 DEF Quota!Ask
  <2> DEFINE e == [at |-> "asked", by |-> p, for |-> customer, ephemeral |-> ephemeral,
                   how |-> IF p \in Q_Exempt THEN "exempt" ELSE "counted"]
  <2>2. customer \in Q_Tenants \cup {Q_NoTenant}
    BY DEF Quota!Resolve, RoomIsLeft
  <2>3. e \in Quota!Environments /\ e.at = "asked" /\ (e.how = "counted" => e.by \notin Q_Exempt)
    BY <2>2 DEF Quota!Environments, Quota!Stages
  <2>4. QED
    BY <1>4, <2>1, <2>3, NothingOpens DEF Quota!Ask, Quota!customers
<1>5. ASSUME NEW n \in Q_Names, NEW s \in Quota!Stages \ {"open"}, Quota!Advance(n, s),
             s # "free" /\ Q_env[n].how = "counted" => Q_env[n].by \notin Q_Exempt,
             s \in {"counted", "checked"} /\ Q_env[n].how = "counted" /\ Q_env[n].ephemeral
               => Cardinality(FairBy(Q_env[n].by)) < Q_Limit,
             s = "checked" /\ Q_env[n].how = "counted" /\ Q_env[n].ephemeral
               => \A t \in Q_Tenants : Q_env[n].for = t => Cardinality(FairFor(t)) < Q_Quota[t]
      PROVE  RoomIsLeft'
  <2> DEFINE e == [Q_env[n] EXCEPT !.at = s]
  <2>1. /\ e \in Quota!Environments
        /\ e.at = s
        /\ e.by = Q_env[n].by
        /\ e.for = Q_env[n].for
        /\ e.how = Q_env[n].how /\ e.ephemeral = Q_env[n].ephemeral
        /\ Q_env' = [Q_env EXCEPT ![n] = e] /\ Q_seen' = Q_seen
    BY <1>1, <1>5 DEF Quota!Environments, Quota!Advance, RoomIsLeft, Quota!customers
  <2> HIDE DEF e
  <2>2. QED
    BY <1>5, <2>1, NothingOpens
<1>7. ASSUME NEW n \in Q_Names, Quota!CheckPerCreator(n)
      PROVE  RoomIsLeft'
  <2>1. Q_env[n].at = "asked" /\ (Q_env[n].how = "counted" => Q_env[n].by \notin Q_Exempt)
    BY <1>7 DEF Quota!CheckPerCreator, RoomIsLeft
  <2>2. CASE ~Quota!Counts(n) /\ Quota!Advance(n, "checked")
    BY <1>5, <2>1, <2>2 DEF Quota!Counts, Quota!Stages
  <2>3. CASE Quota!Counts(n) /\ ~Quota!Full(Quota!OpenBy(Q_env[n].by), Q_Limit) /\ Quota!Advance(n, "counted")
    BY <1>5, <2>1, <2>3, RoomUnderFull DEF Quota!Stages
  <2>4. QED
    BY <1>3, <1>7, <2>2, <2>3 DEF Quota!CheckPerCreator
<1>8. ASSUME NEW n \in Q_Names, Quota!CheckPerTenant(n)
      PROVE  RoomIsLeft'
  <2>1. /\ Q_env[n].at = "counted" /\ (Q_env[n].how = "counted" => Q_env[n].by \notin Q_Exempt)
        /\ Q_env[n].how = "counted" /\ Q_env[n].ephemeral => Cardinality(FairBy(Q_env[n].by)) < Q_Limit
    BY <1>1, <1>8 DEF Quota!CheckPerTenant, RoomIsLeft, Admissible, Quota!Environments
  <2>2. CASE Q_env[n].for = Q_NoTenant /\ Quota!Advance(n, "checked")
    BY <1>5, <2>1, <2>2, QuotaAssumption DEF Quota!Stages, Quota!LimitsAreNumbers
  <2>3. CASE Q_env[n].for # Q_NoTenant /\ ~Quota!Full(Quota!OpenFor(Q_env[n].for), Q_Quota[Q_env[n].for])
             /\ Quota!Advance(n, "checked")
    BY <1>5, <2>1, <2>3, RoomUnderFull DEF Quota!Stages
  <2>4. QED
    BY <1>3, <1>8, <2>2, <2>3 DEF Quota!CheckPerTenant
<1>9. ASSUME NEW n \in Q_Names, Quota!ListFails(n)
      PROVE  RoomIsLeft'
  BY <1>3, <1>9 DEF Quota!ListFails
<1>10. ASSUME NEW n \in Q_Names, Quota!Create(n)
       PROVE  RoomIsLeft'
  <2> DEFINE e == [Q_env[n] EXCEPT !.at = "open"]
  <2>1. /\ e \in Quota!Environments
        /\ e.at = "open"
        /\ e.by = Q_env[n].by
        /\ e.for = Q_env[n].for
        /\ e.how = Q_env[n].how /\ e.ephemeral = Q_env[n].ephemeral
    BY <1>1 DEF Quota!Environments, Quota!Stages
  <2>2. Q_env[n].at = "checked" /\ (Q_env[n].how = "counted" => Q_env[n].by \notin Q_Exempt) /\ Q_seen' = Q_seen
    BY <1>10 DEF Quota!Create, RoomIsLeft, Quota!customers
  <2>3. CASE Q_env[n].ephemeral
    <3>1. Quota!Opens(n, e)
      BY <1>10, <2>3 DEF Quota!Create
    <3> HIDE DEF e
    <3>2. QED
      BY <2>1, <2>2, <2>3, <3>1, OneOpens DEF Admissible
  <2>4. CASE ~Q_env[n].ephemeral
    <3>1. Q_env' = [Q_env EXCEPT ![n] = e]
      BY <1>10, <2>4 DEF Quota!Create, RoomIsLeft
    <3> HIDE DEF e
    <3>2. QED
      BY <2>1, <2>2, <2>4, <3>1, NothingOpens
  <2>5. QED
    BY <1>1, <2>3, <2>4 DEF Quota!Environments
<1>11. ASSUME NEW n \in Q_Names, Quota!Close(n)
       PROVE  RoomIsLeft'
  BY <1>5, <1>11 DEF Quota!Close, Quota!Stages, RoomIsLeft
<1>12. ASSUME NEW n \in Q_Names, Quota!Edit(n)
       PROVE  RoomIsLeft'
  <2> DEFINE e == [Q_env[n] EXCEPT !.ephemeral = TRUE, !.how = "edited"]
  <2>1. Q_env[n].at = "open" /\ Quota!Opens(n, e) /\ Q_seen' = Q_seen
    BY <1>12 DEF Quota!Edit, Quota!customers
  <2>2. /\ e \in Quota!Environments
        /\ e.at = "open"
        /\ e.by = Q_env[n].by
        /\ e.for = Q_env[n].for
        /\ e.how = "edited"
    BY <1>1, <2>1 DEF Quota!Environments
  <2> HIDE DEF e
  <2>3. QED
    BY <2>1, <2>2, OneOpens
<1>13. ASSUME UNCHANGED Q_env, Q_seen' \subseteq Q_Tenants
       PROVE  RoomIsLeft'
  BY <1>13 DEF RoomIsLeft, Admissible, FairBy, FairFor, Quota!OpenBy, Quota!OpenFor,
     Quota!Open
<1>14. CASE Quota!DeliverMarks
  BY <1>13, <1>14 DEF Quota!DeliverMarks, Quota!Default
<1>15. ASSUME NEW t \in Q_Tenants, Quota!Mark(t) \/ Quota!Marked(t) \/ Quota!Unmark(t)
       PROVE  RoomIsLeft'
  BY <1>13, <1>15 DEF Quota!Mark, Quota!Marked, Quota!Unmark, RoomIsLeft
<1>16. CASE UNCHANGED Quota!vars
  BY <1>13, <1>16 DEF Quota!vars, Quota!customers, RoomIsLeft
<1>17. QED
  BY <1>3, <1>4, <1>7, <1>8, <1>9, <1>10, <1>11, <1>12, <1>14, <1>15, <1>16 DEF Quota!Next

LEMMA RoomIsWithinLimits == RoomIsLeft => Quota!WithinLimits
BY SameCounts DEF RoomIsLeft, Quota!WithinLimits, FairBy, FairFor

\* EnvironmentQuota is one of the components that take turns.
LEMMA QuotaRefined == Spec => Quota!Spec
<1>1. [Next]_vars => [Quota!Next]_(Quota!vars)
  BY DEF Next, vars, AccountMoves, AdmissionMoves, QuotaMoves, StampMoves, CopiesMoves,
         LinkMoves, SnapMoves, PagesMoves, FormsMoves, FinalMoves, ReleaseMoves, ButA,
         ButD, ButT, ButB, ButL, ButS, ButW, ButG, ButF, ButR, Q, Quota!vars,
         Quota!customers
<1>2. Init => Quota!Init
  BY DEF Init
<1>3. QED
  BY <1>1, <1>2, PTL DEF Spec, Quota!Spec

\* Whatever people create at once, what was counted and not overtaken is within the limits,
\* for any number of people, customers, names and defaults.
THEOREM LimitsHold == Spec => []WithinLimits
<1>1. Quota!Spec => []RoomIsLeft
  BY InitQuota, NextQuota, PTL DEF Quota!Spec
<1>2. RoomIsLeft => WithinLimits
  BY RoomIsWithinLimits DEF WithinLimits
<1>3. QED
  BY <1>1, <1>2, QuotaRefined, PTL

------------------------------------------------------------------------------
(* RestoreStamp: the copy taken before a restore.                          *)

\* What the webhook promised it wrote down, of the environment as it was then; and nothing
\* is replaced, when a copy was promised, before there is one.
StampIsPromise ==
  /\ T_restore \in Stamp!Restores /\ T_env \in Stamp!Environments
  /\ T_restore.phase \in {"admitted", "copied", "replaced"} =>
       /\ T_was.production => T_restore.asked # "no"
       /\ T_restore.stamped =
            IF T_restore.asked = Stamp!None THEN T_was.production \/ T_was.persistent ELSE T_restore.asked = "yes"
  /\ T_restore.phase = "copied" => T_wrote # {}
  /\ T_restore.phase = "replaced" /\ T_restore.stamped => T_wrote # {}

LEMMA InitStamp == Stamp!Init => StampIsPromise
BY DEF Stamp!Init, StampIsPromise, Stamp!Restores, Stamp!Phases, Stamp!Environments

LEMMA NextStamp == StampIsPromise /\ [Stamp!Next]_(Stamp!vars) => StampIsPromise'
<1> SUFFICES ASSUME StampIsPromise, [Stamp!Next]_(Stamp!vars)
             PROVE  StampIsPromise'
  OBVIOUS
<1> USE DEF StampIsPromise, Stamp!Restores, Stamp!Phases
<1>1. CASE Stamp!Admit
  <2>1. CASE Stamp!Denied
    BY <1>1, <2>1 DEF Stamp!Admit
  <2>2. CASE ~Stamp!Denied
    BY <1>1, <2>2 DEF Stamp!Admit, Stamp!Denied, Stamp!Wanted, Stamp!Environments
  <2>3. QED
    BY <2>1, <2>2
<1>2. CASE Stamp!Copy
  BY <1>2 DEF Stamp!Copy, Stamp!Keep
<1>3. CASE Stamp!NoCopy
  BY <1>3 DEF Stamp!NoCopy, Stamp!Keep
<1>4. CASE Stamp!Replace
  BY <1>4 DEF Stamp!Replace, Stamp!Keep
<1>5. ASSUME NEW e \in Stamp!Environments, NEW bs, Stamp!Edit(e, bs)
      PROVE  StampIsPromise'
  BY <1>5 DEF Stamp!Edit
<1>6. CASE UNCHANGED Stamp!vars
  BY <1>6 DEF Stamp!vars
<1>7. QED
  BY <1>1, <1>2, <1>3, <1>4, <1>5, <1>6 DEF Stamp!Next

LEMMA PromiseIsKept == StampIsPromise => Stamp!ReplacedIsCopied
BY DEF StampIsPromise, Stamp!ReplacedIsCopied, Stamp!Restores, Stamp!None

\* RestoreStamp is one of the components that take turns.
LEMMA StampRefined == Spec => Stamp!Spec
<1>1. [Next]_vars => [Stamp!Next]_(Stamp!vars)
  BY DEF Next, vars, AccountMoves, AdmissionMoves, QuotaMoves, StampMoves, CopiesMoves,
         LinkMoves, SnapMoves, PagesMoves, FormsMoves, FinalMoves, ReleaseMoves, ButA,
         ButD, ButQ, ButB, ButL, ButS, ButW, ButG, ButF, ButR, T, Stamp!vars
<1>2. Init => Stamp!Init
  BY DEF Init
<1>3. QED
  BY <1>1, <1>2, PTL DEF Spec, Stamp!Spec

\* A restore that replaces what a production held, or for which a copy was promised, does so
\* after the copy, whatever became of the environment and of its backups since.
THEOREM NothingIsReplacedUncopied == Spec => []ReplacedIsCopied
<1>1. Stamp!Spec => []StampIsPromise
  BY InitStamp, NextStamp, PTL DEF Stamp!Spec
<1>2. StampIsPromise => ReplacedIsCopied
  BY PromiseIsKept DEF ReplacedIsCopied
<1>3. QED
  BY <1>1, <1>2, StampRefined, PTL

------------------------------------------------------------------------------
(* TenantForms: edits from the console by any number of people.            *)

TenantRecords ==
  [entries : SUBSET G_Images, marked : G_Images \cup {G_None},
   upgradeTo : G_Images \cup {G_None}, repo : BOOLEAN]

FormsTypeOK ==
  /\ G_record \in TenantRecords
  /\ G_form \in [G_People -> Forms!Forms \cup {Forms!NoForm}]
  /\ G_object \in [G_People -> TenantRecords]
  /\ G_latest \in [G_People -> BOOLEAN]

\* What is about to be stored, if it still can be, is the form applied to the record as
\* it stands.
ObjectIsTheFormApplied ==
  \A p \in G_People :
    G_latest[p] => G_form[p] # Forms!NoForm /\ G_object[p] = Forms!Applied(G_form[p], G_record)

FormsInv == FormsTypeOK /\ ObjectIsTheFormApplied

\* The handlers make a record of a record.
LEMMA AppliedIsARecord ==
  ASSUME NEW f \in Forms!Forms, NEW r \in TenantRecords
  PROVE  Forms!Applied(f, r) \in TenantRecords
<1>1. CASE f.do = "add"
  BY <1>1 DEF Forms!Applied, Forms!handleAddImage, Forms!Forms, TenantRecords
<1>2. CASE f.do = "remove"
  BY <1>2 DEF Forms!Applied, Forms!handleRemoveImage, Forms!Forms, TenantRecords
<1>3. CASE f.do = "promote"
  BY <1>3 DEF Forms!Applied, Forms!handlePromoteImage, Forms!Forms, TenantRecords
<1>4. CASE f.do = "addRepo"
  BY <1>4 DEF Forms!Applied, Forms!Forms, TenantRecords
<1>5. CASE f.do = "removeRepo"
  BY <1>5 DEF Forms!Applied, Forms!Forms, TenantRecords
<1>6. QED
  BY <1>1, <1>2, <1>3, <1>4, <1>5 DEF Forms!Forms

\* No form but a promotion moves the mark off an entry that stays.
LEMMA OnlyPromotionMovesTheMark ==
  ASSUME NEW f \in Forms!Forms, NEW r \in TenantRecords, f.do # "promote",
         r.marked # Forms!Applied(f, r).marked
  PROVE  r.marked \notin Forms!Applied(f, r).entries
<1>1. CASE f.do = "add"
  BY <1>1 DEF Forms!Applied, Forms!handleAddImage, Forms!Forms, TenantRecords
<1>2. CASE f.do = "remove"
  BY <1>2 DEF Forms!Applied, Forms!handleRemoveImage, Forms!Forms, TenantRecords
<1>3. CASE f.do = "addRepo"
  BY <1>3 DEF Forms!Applied, Forms!Forms, TenantRecords
<1>4. CASE f.do = "removeRepo"
  BY <1>4 DEF Forms!Applied, Forms!Forms, TenantRecords
<1>5. QED
  BY <1>1, <1>2, <1>3, <1>4 DEF Forms!Forms

LEMMA InitForms == Forms!Init => FormsInv
BY DEF Forms!Init, FormsInv, FormsTypeOK, TenantRecords, ObjectIsTheFormApplied, Forms!Empty

LEMMA NextForms == FormsInv /\ [Forms!Next]_(Forms!vars) => FormsInv'
<1> SUFFICES ASSUME FormsInv, [Forms!Next]_(Forms!vars)
             PROVE  FormsInv'
  OBVIOUS
<1> USE DEF FormsInv, FormsTypeOK, ObjectIsTheFormApplied
<1>1. ASSUME NEW p \in G_People, NEW f \in Forms!Forms, Forms!Submit(p, f)
      PROVE  FormsInv'
  <2>1. Forms!Applied(f, G_record) \in TenantRecords
    BY AppliedIsARecord
  <2>2. f # Forms!NoForm
    <3>1. f.do # "none"
      BY DEF Forms!Forms
    <3>2. Forms!NoForm.do = "none"
      BY DEF Forms!NoForm
    <3>3. QED
      BY <3>1, <3>2
  <2>3. FormsTypeOK'
    BY <1>1, <2>1 DEF Forms!Submit
  <2>4. ASSUME NEW q \in G_People, G_latest'[q]
        PROVE  G_form'[q] # Forms!NoForm /\ G_object'[q] = Forms!Applied(G_form'[q], G_record')
    <3>1. CASE q = p
      BY <1>1, <2>2, <3>1 DEF Forms!Submit
    <3>2. CASE q # p
      <4>1. G_form'[q] = G_form[q] /\ G_object'[q] = G_object[q] /\ G_latest[q] /\ G_record' = G_record
        BY <1>1, <2>4, <3>2 DEF Forms!Submit
      <4>2. QED
        BY <4>1
    <3>3. QED
      BY <3>1, <3>2
  <2>5. QED
    BY <2>3, <2>4
<1>2. ASSUME NEW p \in G_People, Forms!Update(p)
      PROVE  FormsInv'
  <2>1. Forms!Empty \in TenantRecords
    BY DEF Forms!Empty, TenantRecords
  <2>2. FormsTypeOK'
    BY <1>2, <2>1 DEF Forms!Update, Forms!Answered
  <2>3. ASSUME NEW q \in G_People, G_latest'[q]
        PROVE  q # p /\ G_latest[q] /\ G_record' = G_record
    BY <1>2, <2>3 DEF Forms!Update
  <2>4. ObjectIsTheFormApplied'
    BY <1>2, <2>3 DEF Forms!Update, Forms!Answered
  <2>5. QED
    BY <2>2, <2>4
<1>3. ASSUME NEW p \in G_People, Forms!Fail(p)
      PROVE  FormsInv'
  <2>1. Forms!Empty \in TenantRecords
    BY DEF Forms!Empty, TenantRecords
  <2>2. QED
    BY <1>3, <2>1 DEF Forms!Fail, Forms!Answered
<1>4. CASE Forms!WriteStatus
  BY <1>4 DEF Forms!WriteStatus
<1>5. CASE UNCHANGED Forms!vars
  BY <1>5 DEF Forms!vars
<1>6. QED
  BY <1>1, <1>2, <1>3, <1>4, <1>5 DEF Forms!Next

\* A step that changes the record is one person's Update.
LEMMA NextInTurn == FormsInv /\ [Forms!Next]_(Forms!vars) => Forms!InTurn
<1> SUFFICES ASSUME FormsInv, [Forms!Next]_(Forms!vars), G_record' # G_record
             PROVE  \E p \in G_People :
                      /\ G_form[p] # Forms!NoForm
                      /\ G_record' = Forms!Applied(G_form[p], G_record)
                      /\ (G_record'.marked # G_record.marked
                            /\ G_record.marked \in G_record'.entries)
                           => G_form[p].do = "promote"
  BY DEF Forms!InTurn
<1>1. PICK p \in G_People : Forms!Update(p)
  BY DEF Forms!Next, Forms!Submit, Forms!Fail, Forms!WriteStatus, Forms!vars
<1>2. /\ G_form[p] \in Forms!Forms /\ G_form[p] # Forms!NoForm /\ G_record \in TenantRecords
      /\ G_record' = Forms!Applied(G_form[p], G_record)
  BY <1>1 DEF Forms!Update, Forms!CurrentVersion, FormsInv, FormsTypeOK,
     ObjectIsTheFormApplied
<1>3. G_record'.marked # G_record.marked /\ G_record.marked \in G_record'.entries
        => G_form[p].do = "promote"
  BY <1>2, OnlyPromotionMovesTheMark
<1>4. QED
  BY <1>2, <1>3

\* TenantForms is one of the components that take turns.
LEMMA FormsRefined == Spec => Forms!Spec
<1>1. [Next]_vars => [Forms!Next]_(Forms!vars)
  BY DEF Next, vars, AccountMoves, AdmissionMoves, QuotaMoves, StampMoves, CopiesMoves,
         LinkMoves, SnapMoves, PagesMoves, FormsMoves, FinalMoves, ReleaseMoves, ButA,
         ButD, ButQ, ButT, ButB, ButL, ButS, ButW, ButF, ButR, G, Forms!vars
<1>2. Init => Forms!Init
  BY DEF Init
<1>3. QED
  BY <1>1, <1>2, PTL DEF Spec, Forms!Spec

\* Nobody's edit is taken back by a form that was read before it, whatever the number of
\* people, the images and the rehearsals.
THEOREM NoEditIsOverwritten == Spec => EditsAreInTurn
<1>1. Forms!Spec => []FormsInv
  BY InitForms, NextForms, PTL DEF Forms!Spec
<1>2. FormsInv /\ [Forms!Next]_(Forms!vars) => (which = "TenantForms" => Forms!InTurn)
  BY NextInTurn
<1>3. QED
  BY <1>1, <1>2, FormsRefined, PTL DEF Spec, Forms!Spec, EditsAreInTurn

------------------------------------------------------------------------------
(* Everywhere: the pages about every cluster at once.                      *)

\* A goroutine asks as its own cluster or not at all, and what it was answered is its own
\* cluster's; a page that is over has an answer of every cluster it is about.
AnswersAreOwn ==
  /\ W_known \subseteq W_Remote
  /\ W_who \in [Pages!Clusters -> {"none"} \cup Pages!Clusters]
  /\ DOMAIN W_answer = Pages!Clusters
  /\ \A c \in Pages!Clusters :
       /\ W_who[c] \in {"none", c}
       /\ W_answer[c] # Pages!NoAnswer => W_answer[c].by = c /\ W_answer[c].list \in Pages!Outcomes
  /\ W_over => \A c \in Pages!clusterNames : W_answer[c] # Pages!NoAnswer

LEMMA InitPages == Pages!Init => AnswersAreOwn
BY DEF Pages!Init, AnswersAreOwn

LEMMA NextPages == AnswersAreOwn /\ [Pages!Next]_(Pages!vars) => AnswersAreOwn'
<1> SUFFICES ASSUME AnswersAreOwn, [Pages!Next]_(Pages!vars)
             PROVE  AnswersAreOwn'
  OBVIOUS
<1> USE DEF AnswersAreOwn, Pages!clusterNames
<1>1. ASSUME NEW to \in Pages!Clusters \cup {Pages!allClusters}, Pages!handleCluster(to)
      PROVE  AnswersAreOwn'
  BY <1>1 DEF Pages!handleCluster
<1>2. ASSUME NEW kind \in Pages!Pages, Pages!Request(kind)
      PROVE  AnswersAreOwn'
  BY <1>2 DEF Pages!Request
<1>3. CASE Pages!Restart
  BY <1>3 DEF Pages!Restart, Pages!Blank
<1>4. ASSUME NEW c \in Pages!Clusters, Pages!Start(c)
      PROVE  AnswersAreOwn'
  BY <1>4 DEF Pages!Start, Pages!Copy
<1>5. ASSUME NEW c \in Pages!Clusters, Pages!Ask(c)
      PROVE  AnswersAreOwn'
  <2>1. W_who[c] = c /\ UNCHANGED <<W_known, W_over, W_who>>
    BY <1>5 DEF Pages!Ask
  <2>2. PICK l \in Pages!Outcomes, e \in {"rows", "failed"} :
          W_answer' = [W_answer EXCEPT ![c] = [by |-> c, list |-> l, environments |-> e]]
    BY <1>5, <2>1 DEF Pages!Ask
  <2>3. [by |-> c, list |-> l, environments |-> e] # Pages!NoAnswer
    <3>1. c # "none"
      BY NamesAssumption DEF Pages!NamesAreApart, Pages!Clusters
    <3>2. Pages!NoAnswer.by = "none"
      BY DEF Pages!NoAnswer
    <3>3. QED
      BY <3>1, <3>2
  <2>4. QED
    BY <2>1, <2>2, <2>3
<1>6. CASE Pages!Merge
  BY <1>6 DEF Pages!Merge
<1>7. CASE UNCHANGED Pages!vars
  BY <1>7 DEF Pages!vars
<1>8. QED
  BY <1>1, <1>2, <1>3, <1>4, <1>5, <1>6, <1>7 DEF Pages!Next

LEMMA AnswersSayAll == AnswersAreOwn => Pages!EveryClusterIsSaid
BY DEF AnswersAreOwn, Pages!EveryClusterIsSaid, Pages!Told, Pages!Shown, Pages!clusterNames,
   Pages!Clusters, Pages!Err, Pages!Denied, Pages!Outcomes

\* Everywhere is one of the components that take turns.
LEMMA PagesRefined == Spec => Pages!Spec
<1>1. [Next]_vars => [Pages!Next]_(Pages!vars)
  BY DEF Next, vars, AccountMoves, AdmissionMoves, QuotaMoves, StampMoves, CopiesMoves,
         LinkMoves, SnapMoves, PagesMoves, FormsMoves, FinalMoves, ReleaseMoves, ButA,
         ButD, ButQ, ButT, ButB, ButL, ButS, ButG, ButF, ButR, W, Pages!vars
<1>2. Init => Pages!Init
  BY DEF Init
<1>3. QED
  BY <1>1, <1>2, PTL DEF Spec, Pages!Spec

\* Every cluster is on the page under its own name, or named as missing, whichever answered
\* first, was forbidden or could not be reached, and however often the console restarted.
THEOREM NoClusterIsDropped == Spec => []EveryClusterIsSaid
<1>1. Pages!Spec => []AnswersAreOwn
  BY InitPages, NextPages, PTL DEF Pages!Spec
<1>2. AnswersAreOwn => EveryClusterIsSaid
  BY AnswersSayAll DEF EveryClusterIsSaid
<1>3. QED
  BY <1>1, <1>2, PagesRefined, PTL

==============================================================================
