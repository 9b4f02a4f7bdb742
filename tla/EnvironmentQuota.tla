--------------------------- MODULE EnvironmentQuota ---------------------------
(***************************************************************************)
(* How many throwaway environments a person and a customer may hold: the   *)
(* EnvironmentQuota webhook (internal/webhook/quota.go) among the creates  *)
(* of several people at once.                                              *)
(*                                                                         *)
(* The webhook reads the API server, not a cache; but it counts what is    *)
(* stored, and its own answer is stored only after it has given it.  It    *)
(* lists twice, once for the person and once for the customer, and is      *)
(* called for creates alone.  A request that names no customer has been    *)
(* given the namespace's default one by the EnvironmentCreator webhook,    *)
(* from a cache, and TenantGuard (tenant.go) lets a record become the      *)
(* default after a list like these.                                        *)
(***************************************************************************)
EXTENDS Naturals, FiniteSets

CONSTANTS
  Names,      \* names environments are created under
  People,     \* those who create them
  Exempt,     \* the people who are the operator's own identities
  Tenants,    \* the customers' records in the namespace
  Limit,      \* webhook.maxEnvironmentsPerCreator
  Quota,      \* Quota[t]: maxEphemeralEnvironments of t
  NoTenant,   \* a request for no customer
  MaxEdits    \* bound: edits of environments that exist

\* There is somebody to create; the limits are numbers: a flag that is not positive stands
\* for its default, and the CRD wants a quota of zero or more.
LimitsAreNumbers ==
  /\ IsFiniteSet(Names) /\ People # {} /\ NoTenant \notin Tenants
  /\ Limit \in Nat /\ Quota \in [Tenants -> Nat]

VARIABLES
  env,        \* env[n]: the request or the environment of that name
  mark,       \* mark[t]: whether t is the default customer
  seen,       \* the default customers as the creator's cache shows them
  edits

customers == <<mark, seen>>
vars == <<env, customers, edits>>

\* "asked": defaulted by the creator.  "counted", "checked": past the one list, and both.
\* "closed": past its TTL, or being deleted.  how: history: how it came to be open.
Stages == {"free", "asked", "counted", "checked", "open", "closed"}
Environments ==
  [at: Stages, by: People, for: Tenants \cup {NoTenant}, ephemeral: BOOLEAN,
   how: {"counted", "raced", "edited", "exempt"}]

Free == [at |-> "free", by |-> CHOOSE p \in People : TRUE, for |-> NoTenant,
         ephemeral |-> TRUE, how |-> "counted"]

Init ==
  /\ env = [n \in Names |-> Free]
  /\ mark = [t \in Tenants |-> "no"] /\ seen = {}
  /\ edits = 0

------------------------------------------------------------------------------
(* What a list finds.                                                      *)

\* open: throwaway, neither on its way out nor past its TTL.
Open == {n \in Names : env[n].at = "open" /\ env[n].ephemeral}
OpenBy(p) == {n \in Open : env[n].by = p}
OpenFor(t) == {n \in Open : env[n].for = t}

Default == {t \in Tenants : mark[t] = "yes"}

------------------------------------------------------------------------------
(* A create.                                                               *)

\* defaultTenant: two defaults are refused, none is no customer.
Resolve(t) ==
  IF t # NoTenant \/ seen = {} THEN {t}
  ELSE IF Cardinality(seen) = 1 THEN seen ELSE {}

Ask(n, p, t) ==
  /\ env[n].at = "free"
  /\ \E customer \in Resolve(t), ephemeral \in BOOLEAN :
       env' = [env EXCEPT ![n] =
                 [at |-> "asked", by |-> p, for |-> customer, ephemeral |-> ephemeral,
                  how |-> IF p \in Exempt THEN "exempt" ELSE "counted"]]
  /\ UNCHANGED <<customers, edits>>

Refuse(n) == env' = [env EXCEPT ![n] = Free] /\ UNCHANGED <<customers, edits>>
Advance(n, stage) == env' = [env EXCEPT ![n].at = stage] /\ UNCHANGED <<customers, edits>>

\* The operator's identities, and what is not thrown away, are not counted.
Counts(n) == env[n].by \notin Exempt /\ env[n].ephemeral

\* A slip: refused when the limit is passed, not when it is reached.
FullPast(held, limit) == Cardinality(held) > limit

\* The one that is asked for comes on top.  A quota of zero refuses all.
Full(held, limit) == Cardinality(held) >= limit

\* checkPerCreator, over every namespace.
CheckPerCreator(n) ==
  /\ env[n].at = "asked"
  /\ \/ ~Counts(n) /\ Advance(n, "checked")
     \/ Counts(n) /\ ~Full(OpenBy(env[n].by), Limit) /\ Advance(n, "counted")
     \/ Counts(n) /\ Full(OpenBy(env[n].by), Limit) /\ Refuse(n)

\* checkPerTenant: everybody's environments of that customer.
CheckPerTenant(n) ==
  /\ env[n].at = "counted"
  /\ LET held == OpenFor(env[n].for)
     IN \/ env[n].for = NoTenant /\ Advance(n, "checked")
        \/ env[n].for # NoTenant /\ ~Full(held, Quota[env[n].for]) /\ Advance(n, "checked")
        \/ env[n].for # NoTenant /\ Full(held, Quota[env[n].for]) /\ Refuse(n)

\* A list that fails refuses: "the count could not be done".
ListFails(n) == env[n].at \in {"asked", "counted"} /\ Counts(n) /\ Refuse(n)

\* Those that have counted, and did not count n.
Overtaken(n) ==
  {m \in Names \ {n} :
    /\ env[m].how = "counted" /\ env[m].ephemeral
    /\ \/ env[m].at \in {"counted", "checked"} /\ env[m].by = env[n].by
       \/ env[m].at = "checked" /\ env[m].for = env[n].for}

Opens(n, e) ==
  env' = [m \in Names |-> IF m = n THEN e
                          ELSE IF m \in Overtaken(n) THEN [env[m] EXCEPT !.how = "raced"]
                          ELSE env[m]]

\* The API server stores it.
Create(n) ==
  /\ env[n].at = "checked"
  /\ IF env[n].ephemeral THEN Opens(n, [env[n] EXCEPT !.at = "open"])
     ELSE env' = [env EXCEPT ![n].at = "open"]
  /\ UNCHANGED <<customers, edits>>

------------------------------------------------------------------------------
(* What happens to environments and records.                               *)

Close(n) == env[n].at = "open" /\ Advance(n, "closed")

Remove(n) ==
  /\ env[n].at = "closed"
  /\ env' = [env EXCEPT ![n] = Free]
  /\ UNCHANGED <<customers, edits>>

\* An update is not seen by the webhook: lifecycle.type may become Ephemeral.
Edit(n) ==
  /\ env[n].at = "open" /\ ~env[n].ephemeral
  /\ edits < MaxEdits /\ edits' = edits + 1
  /\ Opens(n, [env[n] EXCEPT !.ephemeral = TRUE, !.how = "edited"])
  /\ UNCHANGED customers

\* otherDefault: refused when another is, by the list; stored later.
Mark(t) ==
  /\ mark[t] = "no" /\ Default \subseteq {t}
  /\ mark' = [mark EXCEPT ![t] = "checked"]
  /\ UNCHANGED <<env, seen, edits>>

Marked(t) ==
  /\ mark[t] = "checked"
  /\ mark' = [mark EXCEPT ![t] = "yes"]
  /\ UNCHANGED <<env, seen, edits>>

Unmark(t) ==
  /\ mark[t] = "yes"
  /\ mark' = [mark EXCEPT ![t] = "no"]
  /\ UNCHANGED <<env, seen, edits>>

DeliverMarks ==
  /\ seen # Default
  /\ seen' = Default
  /\ UNCHANGED <<env, mark, edits>>

Next ==
  \/ DeliverMarks
  \/ \E n \in Names, p \in People, t \in Tenants \cup {NoTenant} : Ask(n, p, t)
  \/ \E n \in Names :
       \/ CheckPerCreator(n) \/ CheckPerTenant(n) \/ ListFails(n) \/ Create(n)
       \/ Close(n) \/ Remove(n) \/ Edit(n)
  \/ \E t \in Tenants : Mark(t) \/ Marked(t) \/ Unmark(t)

Spec == Init /\ [][Next]_vars

------------------------------------------------------------------------------
(* What must hold.                                                         *)

\* The limits of a person and of a customer are exceeded by nothing but the creates that
\* were between their count and their storage when another was stored, the edits and the
\* environments of the operator itself.
WithinLimits ==
  LET Fair(es) == {n \in es : env[n].how = "counted"}
  IN /\ \A p \in People : Cardinality(Fair(OpenBy(p))) <= Limit
     /\ \A t \in Tenants : Cardinality(Fair(OpenFor(t))) <= Quota[t]

==============================================================================
