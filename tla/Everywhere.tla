------------------------------ MODULE Everywhere ------------------------------
(***************************************************************************)
(* The console's pages about every cluster at once (internal/console:      *)
(* fanout.go, clusters.go, and the merges of objects.go, views.go and      *)
(* dashboard.go).  A goroutine per cluster asks the same question with an  *)
(* Identity that says where; the page joins what they answered and names   *)
(* the clusters that did not.                                              *)
(*                                                                         *)
(* The choice of a cluster is a cookie, which outlives the console: a      *)
(* restart reads the clusters' Secret again and may find others.  Two      *)
(* pages share nothing but the cookie, so there is one page at a time.     *)
(***************************************************************************)
EXTENDS Naturals

CONSTANTS
  Local,  \* the cluster the console runs in
  Remote  \* those that the Secret may name

\* No cluster goes by the name of another, of the picker's "everywhere", or by none.
NamesAreApart == Local \notin Remote /\ {"*", "none"} \cap ({Local} \cup Remote) = {}

VARIABLES
  known,   \* the remote clusters the console has, read once at its start
  cookie,  \* the cluster the browser has chosen, "*" for everywhere
  page,    \* "none", or what the page is about: objects, customers, the overview
  over,    \* all have answered, the page is on the screen
  who,     \* who[c]: the cluster in the Identity that the goroutine of c goes by
  answer   \* answer[c]: what it was answered, and by which cluster

vars == <<known, cookie, page, over, who, answer>>

allClusters == "*"
Clusters    == {Local} \cup Remote
Pages       == {"objects", "customers", "overview"}

\* A List is answered, forbidden to the person, or fails: the cluster cannot be reached.
Outcomes == {"rows", "forbidden", "failed"}

NoAnswer == [by |-> "none", list |-> "none", environments |-> "none"]

Init ==
  /\ known \in SUBSET Remote
  /\ cookie = Local
  /\ page = "none" /\ over = FALSE
  /\ who = [c \in Clusters |-> "none"]
  /\ answer = [c \in Clusters |-> NoAnswer]

Federated == known # {}

clusterNames == {Local} \cup known

\* The cookie against what there is: one of a cluster that is gone means the local one.
clusterOf ==
  IF cookie \in clusterNames \/ (cookie = allClusters /\ Federated) THEN cookie ELSE Local

------------------------------------------------------------------------------
(* The browser, and the console's start.                                   *)

Blank ==
  /\ page' = "none" /\ over' = FALSE
  /\ who' = [c \in Clusters |-> "none"]
  /\ answer' = [c \in Clusters |-> NoAnswer]

\* The picker, or the link of a row: a name that is not known chooses the local cluster.
handleCluster(to) ==
  /\ cookie' = IF to \in clusterNames \/ (to = allClusters /\ Federated) THEN to ELSE Local
  /\ UNCHANGED <<known, page, over, who, answer>>

\* A page is asked for, by somebody who has chosen everywhere.
Request(kind) ==
  /\ page = "none" \/ over
  /\ clusterOf = allClusters
  /\ page' = kind /\ over' = FALSE
  /\ who' = [c \in Clusters |-> "none"]
  /\ answer' = [c \in Clusters |-> NoAnswer]
  /\ UNCHANGED <<known, cookie>>

\* The console starts again, over a Secret that may have changed; what was under way ends.
\* One that cannot be read, or a kubeconfig that cannot be used, keeps it from starting.
Restart ==
  /\ known' \in SUBSET Remote
  /\ Blank
  /\ UNCHANGED cookie

------------------------------------------------------------------------------
(* The goroutine of cluster c.                                             *)

\* A slip: the goroutines write the name into one Identity that they share.
CopyShared(c) == who' = [d \in Clusters |-> c]

\* "A copy per goroutine": who := id, who.Cluster = name.
Copy(c) == who' = [who EXCEPT ![c] = c]

Start(c) ==
  /\ page # "none" /\ c \in clusterNames /\ who[c] = "none"
  /\ Copy(c)
  /\ UNCHANGED <<known, cookie, page, over, answer>>

\* The question, put to the API server of the cluster in the Identity: the list the page
\* is about and, for customers and the overview, that of the environments.
Ask(c) ==
  /\ who[c] # "none" /\ answer[c] = NoAnswer
  /\ \E l \in Outcomes, e \in {"rows", "failed"} :
       answer' = [answer EXCEPT ![c] = [by |-> who[c], list |-> l, environments |-> e]]
  /\ UNCHANGED <<known, cookie, page, over, who>>

\* wg.Wait() returns: everybody has answered.
Merge ==
  /\ page # "none" /\ ~over
  /\ \A c \in clusterNames : answer[c] # NoAnswer
  /\ over' = TRUE
  /\ UNCHANGED <<known, cookie, page, who, answer>>

------------------------------------------------------------------------------
(* What is on the page.                                                    *)

\* An object list answers that it is forbidden with a view that says so, and no error.
Denied(c) == page = "objects" /\ answer[c].list = "forbidden"

Err(c) == answer[c].list # "rows" /\ ~Denied(c)

\* A slip: a cluster whose lists are forbidden is passed over without a word.
ToldErrorsOnly == {c \in clusterNames : Err(c)}

\* The clusters named as not represented.
Told == {c \in clusterNames : Err(c) \/ Denied(c)}

\* The clusters with rows, and whose rows they are.
Shown == [c \in {d \in clusterNames : ~Err(d) /\ ~Denied(d)} |-> answer[c].by]

Next ==
  \/ \E to \in Clusters \cup {allClusters} : handleCluster(to)
  \/ \E kind \in Pages : Request(kind)
  \/ Restart
  \/ \E c \in Clusters : Start(c) \/ Ask(c)
  \/ Merge

Spec == Init /\ [][Next]_vars

------------------------------------------------------------------------------
(* What must hold.                                                         *)

\* "A cluster that could not be asked is SAID, never dropped", and what stands under the
\* name of a cluster, with a link that leads there, came from that cluster: never "every
\* cluster answering about whichever name was written last".  It speaks of the list the
\* page is about.  Of the environments on the overview it would not hold: the error of
\* that list is dropped (dashboardIn), and the cluster counts as one that has none.
EveryClusterIsSaid ==
  over =>
    \A c \in clusterNames :
      \/ c \in Told /\ c \notin DOMAIN Shown
      \/ c \notin Told /\ c \in DOMAIN Shown /\ Shown[c] = c

==============================================================================
