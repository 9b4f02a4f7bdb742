----------------------------- MODULE Certificates -----------------------------
(***************************************************************************)
(* The serving certificate of the webhooks and the CA that the API server  *)
(* trusts (internal/webhook/certs.go, cabundle.go; cmd/main.go).           *)
(*                                                                         *)
(* Before its manager exists every replica settles on a certificate        *)
(* through one Secret; once it leads, it stamps the CA it settled on into  *)
(* the two webhook configurations, and corrects whoever removes it.  A     *)
(* certificate and its CA are one key, named by the CA.                    *)
(***************************************************************************)
EXTENDS Naturals

CONSTANTS
  Replicas,     \* the replicas of the manager
  Configs,      \* the webhook configurations: mutating and validating
  CAs,          \* keys that can be issued; more than are ever held at once
  None, Absent,
  MaxAttempts,  \* attempts of EnsureServingCert
  MaxFaults     \* bound: calls that fail, deaths, and what people do

VARIABLES
  secret,   \* the Secret: the key in it, or None
  usable,   \* the key is not close to its end, and is for this Service
  at,       \* where each replica is: "down", "asking", "issuing" or "serving"
  attempt,  \* attempts it has begun
  seen,     \* the Secret as it read it
  bundle,   \* the key it serves and, leading, publishes
  leader,   \* the replica that holds the lease, or None
  config,   \* config[k]: Absent, or the CA in its caBundle (None: empty)
  view,     \* config[k] as the cache of the leader shows it
  behind,   \* an event of k has not reached the cache
  pending,  \* k is in the work queue
  agreed,   \* history: it settled after the Secret was last deleted or outlived
  faults

replica == <<at, attempt, seen, bundle, agreed>>
cluster == <<config, view, behind, pending>>
vars == <<secret, usable, replica, leader, cluster, faults>>

Init ==
  /\ secret = None /\ usable = TRUE
  /\ at = [r \in Replicas |-> "down"] /\ attempt = [r \in Replicas |-> 0]
  /\ seen = [r \in Replicas |-> None] /\ bundle = [r \in Replicas |-> None]
  /\ agreed = [r \in Replicas |-> FALSE]
  /\ leader = None
  /\ config = [k \in Configs |-> Absent] /\ view = config
  /\ behind = [k \in Configs |-> FALSE] /\ pending = behind
  /\ faults = 0

Fault == faults < MaxFaults /\ faults' = faults + 1

------------------------------------------------------------------------------
(* EnsureServingCert.                                                      *)

\* issue: a key nobody has seen.
Fresh == CHOOSE c \in CAs : /\ c # secret
                            /\ \A r \in Replicas : c # bundle[r] /\ c # seen[r]
                            /\ \A k \in Configs : c # config[k] /\ c # view[k]

Start(r) ==
  /\ at[r] = "down"
  /\ at' = [at EXCEPT ![r] = "asking"]
  /\ attempt' = [attempt EXCEPT ![r] = 1]
  /\ UNCHANGED <<secret, usable, seen, bundle, leader, cluster, agreed, faults>>

Serve(r, c) ==
  /\ at' = [at EXCEPT ![r] = "serving"]
  /\ attempt' = [attempt EXCEPT ![r] = 0]
  /\ bundle' = [bundle EXCEPT ![r] = c]
  /\ agreed' = [agreed EXCEPT ![r] = TRUE]

\* The process ends: after three attempts, or an error, or a death.
Down(r) ==
  /\ at' = [at EXCEPT ![r] = "down"]
  /\ attempt' = [attempt EXCEPT ![r] = 0]
  /\ seen' = [seen EXCEPT ![r] = None]
  /\ bundle' = [bundle EXCEPT ![r] = None]
  /\ agreed' = [agreed EXCEPT ![r] = FALSE]
  /\ leader' = IF leader = r THEN None ELSE leader

Retry(r) ==
  \/ /\ attempt[r] < MaxAttempts
     /\ at' = [at EXCEPT ![r] = "asking"]
     /\ attempt' = [attempt EXCEPT ![r] = @ + 1]
     /\ seen' = [seen EXCEPT ![r] = None]
     /\ UNCHANGED <<bundle, agreed, leader>>
  \/ attempt[r] = MaxAttempts /\ Down(r)

\* adopt what is there, or issue another.
Get(r) ==
  /\ at[r] = "asking"
  /\ \/ /\ secret # None /\ usable
        /\ Serve(r, secret)
        /\ UNCHANGED seen
     \/ /\ secret = None \/ ~usable
        /\ at' = [at EXCEPT ![r] = "issuing"]
        /\ seen' = [seen EXCEPT ![r] = secret]
        /\ UNCHANGED <<attempt, bundle, agreed>>
  /\ UNCHANGED <<secret, usable, leader, cluster, faults>>

\* A slip: somebody else got there first, and the key just issued is served.
LostOwn(r) ==
  /\ seen[r] # secret
  /\ Serve(r, Fresh)
  /\ seen' = [seen EXCEPT ![r] = None]
  /\ UNCHANGED <<secret, usable, leader>>

\* AlreadyExists, or a conflict: read what the winner wrote.  To replace a Secret that
\* is gone is another error.
Lost(r) ==
  /\ seen[r] # secret
  /\ IF secret = None THEN Down(r) ELSE Retry(r)
  /\ UNCHANGED <<secret, usable>>

Won(r) ==
  /\ seen[r] = secret
  /\ secret' = Fresh /\ usable' = TRUE
  /\ Serve(r, Fresh)
  /\ seen' = [seen EXCEPT ![r] = None]
  /\ UNCHANGED leader

\* Create, or Update, of the Secret.
Put(r) ==
  /\ at[r] = "issuing"
  /\ Won(r) \/ Lost(r)
  /\ UNCHANGED <<cluster, faults>>

\* An error of the API server, the thirty seconds of main.go, or a death.
Die(r) ==
  /\ at[r] # "down"
  /\ Fault
  /\ Down(r)
  /\ UNCHANGED <<secret, usable, cluster>>

------------------------------------------------------------------------------
(* CABundleReconciler.                                                     *)

\* The lease is free; the cache of the new leader is filled, and every
\* configuration in it is queued.
Lead(r) ==
  /\ leader = None /\ at[r] = "serving"
  /\ leader' = r
  /\ view' = config
  /\ behind' = [k \in Configs |-> FALSE]
  /\ pending' = [k \in Configs |-> config[k] # Absent]
  /\ UNCHANGED <<secret, usable, replica, config, faults>>

\* Its own patch is an event too, and wakes it once more.
Stamp(k) ==
  /\ leader # None /\ pending[k]
  /\ \/ /\ view[k] \in {Absent, bundle[leader]}
        /\ pending' = [pending EXCEPT ![k] = FALSE]
        /\ UNCHANGED <<config, behind>>
     \/ /\ view[k] \notin {Absent, bundle[leader]} /\ config[k] # Absent
        /\ config' = [config EXCEPT ![k] = bundle[leader]]
        /\ behind' = [behind EXCEPT ![k] = TRUE]
        /\ pending' = [pending EXCEPT ![k] = FALSE]
  /\ UNCHANGED <<secret, usable, replica, leader, view, faults>>

\* The watch brings the cache up to date; the predicate lets both names through.
Deliver(k) ==
  /\ leader # None /\ behind[k]
  /\ view' = [view EXCEPT ![k] = config[k]]
  /\ behind' = [behind EXCEPT ![k] = FALSE]
  /\ pending' = [pending EXCEPT ![k] = TRUE]
  /\ UNCHANGED <<secret, usable, replica, leader, config, faults>>

------------------------------------------------------------------------------
(* People.                                                                 *)

\* "delete the Secret and restart the manager"; or the key comes near its end, or the
\* Service is renamed.
Rotate ==
  /\ Fault
  /\ secret # None
  /\ \/ secret' = None /\ usable' = TRUE
     \/ usable /\ usable' = FALSE /\ UNCHANGED secret
  /\ agreed' = [r \in Replicas |-> FALSE]
  /\ UNCHANGED <<at, attempt, seen, bundle, leader, cluster>>

\* Helm applies the configuration, with no caBundle in it.
Helm(k) ==
  /\ \/ config[k] = Absent /\ UNCHANGED faults
     \/ config[k] # Absent /\ Fault
  /\ config' = [config EXCEPT ![k] = None]
  /\ behind' = [behind EXCEPT ![k] = TRUE]
  /\ UNCHANGED <<secret, usable, replica, leader, view, pending>>

Next ==
  \/ \E r \in Replicas : Start(r) \/ Get(r) \/ Put(r) \/ Die(r) \/ Lead(r)
  \/ \E k \in Configs : Stamp(k) \/ Deliver(k) \/ Helm(k)
  \/ Rotate

\* The kubelet restarts what has exited, and the lease of a dead leader runs out.
Fairness ==
  /\ \A r \in Replicas : WF_vars(Start(r) \/ Get(r) \/ Put(r)) /\ WF_vars(Lead(r))
  /\ \A k \in Configs : WF_vars(Stamp(k)) /\ WF_vars(Deliver(k))

Spec == Init /\ [][Next]_vars /\ Fairness

------------------------------------------------------------------------------
(* What must hold.                                                         *)

Trusted(r) == \A k \in Configs : config[k] \in {Absent, bundle[r]}

\* "The Service load-balances, the caBundle holds one CA, and every request routed to
\* the other replica fails the handshake": of all the replicas that start together,
\* die, and lead in turn, those that settled on the present Secret come to be
\* trusted, as long as the one that stamps the configurations is among them.
EveryReplicaTrusted ==
  <>[](leader # None /\ agreed[leader]
         => \A r \in Replicas : at[r] = "serving" /\ agreed[r] => Trusted(r))

==============================================================================
