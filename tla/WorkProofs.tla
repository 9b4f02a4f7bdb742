----------------------------- MODULE WorkProofs ------------------------------
(***************************************************************************)
(* Proofs about the components of Operator that carry work out on what     *)
(* others depend on: dumps, other people's builds, customers' images,      *)
(* copies.  For every schema and set of rules, every number of pods, of    *)
(* requests and of customers, every size of a batch, and every retention   *)
(* policy.                                                                 *)
(***************************************************************************)
EXTENDS Operator, TLAPS, Sequences, FunctionTheorems, FiniteSetTheorems

------------------------------------------------------------------------------
(* Snapshot: a pod at a time.                                              *)

Cols == (UNION S_RuleSets) \cup (UNION S_Schemas)

\* A pod, and whatever else its steps read.
Pods ==
  [step: {"none", "copy", "neutralize", "anonymize", "dump", "upload", "succeeded", "failed"},
   engine: S_Engines \cup {"none"}, rules: SUBSET Cols, mounted: S_Engines \cup {"none"},
   live: BOOLEAN, clear: SUBSET Cols, skipped: SUBSET Cols, asked: SUBSET Cols,
   alone: BOOLEAN]

SnapTypes ==
  /\ S_schema \subseteq Cols
  /\ S_spec \in [engine: S_Engines, rules: S_RuleSets, scheduled: BOOLEAN]
  /\ S_conf \in [engine: S_Engines \cup {"none"}, rules: SUBSET Cols]
  /\ S_cron \in S_Engines \cup {"none"}
  /\ S_run \in [S_Runs -> Pods]
  /\ S_work \in [there: BOOLEAN, live: BOOLEAN, clear: SUBSET Cols]
  /\ S_work.clear \subseteq S_schema
  /\ \A r \in S_Runs : Snap!Going(r) => S_run[r].engine \in S_Engines

\* Beside a pod that ran alone none goes.
AloneGoesAlone ==
  \A r, q \in S_Runs : r # q /\ Snap!Going(r) /\ S_run[r].alone => ~Snap!Going(q)

\* What the ConfigMap has asked for ever since is in what it holds and in what a pod sees.
AskedIsSeen ==
  \A r \in S_Runs : Snap!Going(r) => /\ S_run[r].asked \subseteq S_conf.rules
                                     /\ S_run[r].asked \subseteq S_run[r].rules

\* What a pod that ran alone has done, to the work database and to its dump.
DoneSoFar(pod, w) ==
  /\ pod.step \in {"anonymize", "dump"} => ~w.live
  /\ pod.step = "dump" /\ pod.engine = "SQL" => w.clear \cap pod.asked = {}
  /\ pod.step = "upload" =>
       ~pod.live /\ (pod.engine # "Custom" => pod.clear \cap pod.asked = {})

CleanSoFar == \A r \in S_Runs : Snap!Going(r) /\ S_run[r].alone => DoneSoFar(S_run[r], S_work)

SnapInv == SnapTypes /\ AloneGoesAlone /\ AskedIsSeen /\ CleanSoFar /\ Snap!LeftAnonymous

------------------------------------------------------------------------------

LEMMA InitSnap == Snap!Init => SnapInv
<1> SUFFICES ASSUME Snap!Init PROVE SnapInv
  OBVIOUS
<1>1. Snap!Blank \in Pods /\ \A r \in S_Runs : S_run[r] = Snap!Blank /\ ~Snap!Going(r)
  BY DEF Snap!Init, Snap!Blank, Pods, Snap!Going
<1>2. SnapTypes
  <2>1. S_schema \subseteq Cols
    <3>1. S_schema \in S_Schemas
      BY DEF Snap!Init
    <3>2. QED
      BY <3>1 DEF Cols
  <2>2. S_conf \in [engine: S_Engines \cup {"none"}, rules: SUBSET Cols]
    BY DEF Snap!Init, Snap!NoConf
  <2>3. S_work \in [there: BOOLEAN, live: BOOLEAN, clear: SUBSET Cols] /\ S_work.clear \subseteq S_schema
    BY DEF Snap!Init
  <2>4. QED
    BY <1>1, <2>1, <2>2, <2>3 DEF Snap!Init, SnapTypes
<1>3. QED
  BY <1>1, <1>2 DEF Snap!Init, SnapInv, AloneGoesAlone, AskedIsSeen, CleanSoFar,
     Snap!LeftAnonymous

LEMMA ConfigType ==
  ASSUME SnapTypes
  PROVE  Snap!Config \in [engine: S_Engines \cup {"none"}, rules: SUBSET Cols]
BY DEF SnapTypes, Snap!Config, Cols

\* A pass that writes the ConfigMap again asks no more of the pods than it did before.
LEMMA ReaskKeeps ==
  ASSUME SnapTypes, NEW runs \in [S_Runs -> Pods]
  PROVE  /\ Snap!Reask(runs) \in [S_Runs -> Pods]
         /\ \A r \in S_Runs :
              /\ Snap!Reask(runs)[r].step = runs[r].step /\ Snap!Reask(runs)[r].engine = runs[r].engine
              /\ Snap!Reask(runs)[r].rules = runs[r].rules /\ Snap!Reask(runs)[r].live = runs[r].live
              /\ Snap!Reask(runs)[r].clear = runs[r].clear /\ Snap!Reask(runs)[r].alone = runs[r].alone
              /\ Snap!Reask(runs)[r].asked = runs[r].asked \cap Snap!Config.rules
<1>1. ASSUME NEW r \in S_Runs
      PROVE  /\ Snap!Reask(runs)[r] = [runs[r] EXCEPT !.asked = @ \cap Snap!Config.rules]
             /\ Snap!Reask(runs)[r] \in Pods
             /\ Snap!Reask(runs)[r].step = runs[r].step /\ Snap!Reask(runs)[r].engine = runs[r].engine
             /\ Snap!Reask(runs)[r].rules = runs[r].rules /\ Snap!Reask(runs)[r].live = runs[r].live
             /\ Snap!Reask(runs)[r].clear = runs[r].clear /\ Snap!Reask(runs)[r].alone = runs[r].alone
             /\ Snap!Reask(runs)[r].asked = runs[r].asked \cap Snap!Config.rules
  BY DEF Snap!Reask, Pods
<1>2. QED
  BY <1>1 DEF Snap!Reask

\* A pod that starts, and one that was there.
FreshPod(pod, engine, c) ==
  /\ pod.step = "copy" /\ pod.engine = engine /\ pod.asked = c.rules /\ pod.rules = c.rules
  /\ pod.alone = (\A q \in S_Runs : ~Snap!Going(q))

SamePod(pod, q) ==
  /\ pod.step = S_run[q].step /\ pod.engine = S_run[q].engine
  /\ pod.rules = S_run[q].rules /\ pod.asked = S_run[q].asked
  /\ pod.alone = (S_run[q].alone /\ ~Snap!Going(q))

\* A pod that starts: it sees what it is asked, and it or the others are not alone.
LEMMA StartedIs ==
  ASSUME SnapTypes, NEW r \in S_Runs, ~Snap!Going(r), NEW engine \in S_Engines,
         NEW c \in [engine: S_Engines \cup {"none"}, rules: SUBSET Cols]
  PROVE  /\ Snap!Started(r, engine, c) \in [S_Runs -> Pods]
         /\ FreshPod(Snap!Started(r, engine, c)[r], engine, c)
         /\ \A q \in S_Runs \ {r} : SamePod(Snap!Started(r, engine, c)[q], q)
<1>1. Snap!Started(r, engine, c)[r] =
        [Snap!Blank EXCEPT !.step = "copy", !.engine = engine, !.asked = c.rules,
                           !.rules = c.rules, !.mounted = c.engine,
                           !.alone = \A p \in S_Runs : ~Snap!Going(p)]
  BY DEF Snap!Started
<1>2. Snap!Started(r, engine, c)[r] \in Pods
  BY <1>1 DEF Snap!Blank, Pods
<1>3. ASSUME NEW q \in S_Runs \ {r}
      PROVE  /\ Snap!Started(r, engine, c)[q] = [S_run[q] EXCEPT !.alone = @ /\ ~Snap!Going(q)]
             /\ Snap!Started(r, engine, c)[q] \in Pods
  <2>1. Snap!Started(r, engine, c)[q] = [S_run[q] EXCEPT !.alone = @ /\ ~Snap!Going(q)]
    BY <1>3 DEF Snap!Started
  <2>2. (S_run[q].alone /\ ~Snap!Going(q)) \in BOOLEAN /\ S_run[q] \in Pods
    BY DEF SnapTypes, Pods
  <2>3. QED
    BY <2>1, <2>2 DEF Pods
<1>4. Snap!Started(r, engine, c) \in [S_Runs -> Pods]
  BY <1>2, <1>3 DEF Snap!Started
<1>5. QED
  BY <1>1, <1>3, <1>4 DEF FreshPod, SamePod, Snap!Blank, SnapTypes, Pods

\* A pass: the ConfigMap, and nothing of the work database.
LEMMA PassKeeps ==
  ASSUME SnapInv, NEW runs \in [S_Runs -> Pods],
         S_conf' = Snap!Config, S_run' = Snap!Reask(runs), UNCHANGED <<S_schema, S_spec, S_work, S_dumps>>,
         S_cron' \in S_Engines \cup {"none"},
         \A r \in S_Runs : runs[r].step \notin {"none", "succeeded", "failed"} =>
           /\ runs[r].engine \in S_Engines
           /\ runs[r].asked \cap Snap!Config.rules \subseteq runs[r].rules
           /\ runs[r].alone =>
                /\ DoneSoFar(runs[r], S_work)
                /\ \A q \in S_Runs \ {r} : runs[q].step \in {"none", "succeeded", "failed"}
  PROVE  SnapInv'
<1>1. SnapTypes'
  BY ReaskKeeps, ConfigType DEF SnapInv, SnapTypes, Snap!Going
<1>2. AloneGoesAlone' /\ AskedIsSeen'
  BY ReaskKeeps, ConfigType DEF SnapInv, SnapTypes, Snap!Going, AloneGoesAlone, AskedIsSeen
<1>3. CleanSoFar'
  BY ReaskKeeps DEF SnapInv, Snap!Going, CleanSoFar, DoneSoFar
<1>4. QED
  BY <1>1, <1>2, <1>3 DEF SnapInv, Snap!LeftAnonymous

\* The passes, of which one starts a pod.
LEMMA NextPass ==
  ASSUME SnapInv, Snap!EnsureCronJob \/ Snap!ReadJob \/ \E r \in S_Runs : Snap!CreateJob(r)
  PROVE  SnapInv'
<1> USE DEF SnapInv
<1>0. S_run \in [S_Runs -> Pods] /\ Snap!Config \in [engine: S_Engines \cup {"none"}, rules: SUBSET Cols]
  BY ConfigType DEF SnapTypes
<1>1. CASE Snap!EnsureCronJob \/ Snap!ReadJob
  <2>1. /\ S_conf' = Snap!Config /\ S_run' = Snap!Reask(S_run) /\ UNCHANGED <<S_schema, S_spec, S_work, S_dumps>>
        /\ S_cron' \in S_Engines \cup {"none"}
    BY <1>1 DEF Snap!EnsureCronJob, Snap!ReadJob, Snap!Mounted, SnapTypes
  <2>2. ASSUME NEW r \in S_Runs, S_run[r].step \notin {"none", "succeeded", "failed"}
        PROVE  /\ S_run[r].engine \in S_Engines
               /\ S_run[r].asked \cap Snap!Config.rules \subseteq S_run[r].rules
               /\ S_run[r].alone =>
                    /\ DoneSoFar(S_run[r], S_work)
                    /\ \A q \in S_Runs \ {r} : S_run[q].step \in {"none", "succeeded", "failed"}
    BY <2>2 DEF Snap!Going, SnapTypes, AskedIsSeen, AloneGoesAlone, CleanSoFar
  <2>3. QED
    BY <1>0, <2>1, <2>2, PassKeeps
<1>2. ASSUME NEW r \in S_Runs, Snap!CreateJob(r)
      PROVE  SnapInv'
  <2> DEFINE runs == Snap!Started(r, S_spec.engine, Snap!Config)
  <2>1. ~Snap!Going(r) /\ S_spec.engine \in S_Engines
    BY <1>2 DEF Snap!CreateJob, Snap!Free, Snap!Going, SnapTypes
  <2>2. /\ S_conf' = Snap!Config /\ S_run' = Snap!Reask(runs) /\ UNCHANGED <<S_schema, S_spec, S_work, S_dumps>>
        /\ S_cron' \in S_Engines \cup {"none"}
    BY <1>2 DEF Snap!CreateJob, SnapTypes
  <2>0. runs \in [S_Runs -> Pods] /\ FreshPod(runs[r], S_spec.engine, Snap!Config)
        /\ \A q \in S_Runs \ {r} : SamePod(runs[q], q)
    BY <1>0, <2>1, StartedIs
  <2>3. runs \in [S_Runs -> Pods]
    BY <2>0
  <2>4. /\ runs[r].step = "copy" /\ runs[r].engine \in S_Engines
        /\ runs[r].asked \subseteq runs[r].rules
        /\ runs[r].alone = (\A q \in S_Runs : ~Snap!Going(q))
    BY <2>0, <2>1 DEF FreshPod, SamePod
  <2>5. ASSUME NEW q \in S_Runs \ {r}
        PROVE  /\ runs[q].step = S_run[q].step /\ runs[q].engine = S_run[q].engine
               /\ runs[q].asked = S_run[q].asked /\ runs[q].rules = S_run[q].rules
               /\ runs[q].alone = (S_run[q].alone /\ ~Snap!Going(q))
    BY <2>0, <2>1 DEF FreshPod, SamePod
  <2>6. ASSUME NEW q \in S_Runs, runs[q].step \notin {"none", "succeeded", "failed"}
        PROVE  /\ runs[q].engine \in S_Engines
               /\ runs[q].asked \cap Snap!Config.rules \subseteq runs[q].rules
               /\ runs[q].alone =>
                    /\ DoneSoFar(runs[q], S_work)
                    /\ \A p \in S_Runs \ {q} : runs[p].step \in {"none", "succeeded", "failed"}
    <3>1. CASE q = r
      <4>1. runs[q].alone => \A p \in S_Runs \ {q} : runs[p].step \in {"none", "succeeded", "failed"}
        BY <2>4, <2>5, <3>1 DEF Snap!Going
      <4>2. DoneSoFar(runs[q], S_work)
        BY <2>4, <3>1 DEF DoneSoFar
      <4>3. QED
        BY <2>4, <3>1, <4>1, <4>2
    <3>2. CASE q # r
      <4>1. Snap!Going(q) /\ ~runs[q].alone
        BY <2>5, <2>6, <3>2 DEF Snap!Going
      <4>2. QED
        BY <2>5, <3>2, <4>1 DEF SnapTypes, AskedIsSeen
    <3>3. QED
      BY <3>1, <3>2
  <2> HIDE DEF runs
  <2>7. QED
    BY <2>2, <2>3, <2>6, PassKeeps
<1>3. QED
  BY <1>1, <1>2

LEMMA NextCron ==
  ASSUME SnapInv, NEW r \in S_Runs, Snap!CronFires(r)
  PROVE  SnapInv'
<1>1. /\ ~Snap!Going(r) /\ S_cron \in S_Engines
      /\ S_conf \in [engine: S_Engines \cup {"none"}, rules: SUBSET Cols]
  BY DEF Snap!CronFires, Snap!Free, Snap!Going, SnapInv, SnapTypes
<1>2. S_run' = Snap!Started(r, S_cron, S_conf) /\ UNCHANGED <<S_schema, S_spec, S_conf, S_cron, S_work, S_dumps>>
  BY DEF Snap!CronFires
<1>3. S_run' \in [S_Runs -> Pods] /\ FreshPod(S_run'[r], S_cron, S_conf)
      /\ \A q \in S_Runs \ {r} : SamePod(S_run'[q], q)
  BY <1>1, <1>2, StartedIs DEF SnapInv
<1>4. /\ S_run'[r].step = "copy" /\ S_run'[r].engine \in S_Engines
      /\ S_run'[r].asked = S_conf.rules /\ S_run'[r].rules = S_conf.rules
      /\ S_run'[r].alone = (\A q \in S_Runs : ~Snap!Going(q))
  BY <1>1, <1>3 DEF FreshPod, SamePod
<1>5. ASSUME NEW q \in S_Runs \ {r}
      PROVE  /\ S_run'[q].step = S_run[q].step /\ S_run'[q].engine = S_run[q].engine
             /\ S_run'[q].asked = S_run[q].asked /\ S_run'[q].rules = S_run[q].rules
             /\ S_run'[q].alone = (S_run[q].alone /\ ~Snap!Going(q))
  BY <1>1, <1>3 DEF FreshPod, SamePod
<1>6. SnapTypes'
  BY <1>2, <1>3, <1>4, <1>5 DEF SnapInv, SnapTypes, Snap!Going
<1>7. AloneGoesAlone'
  BY <1>4, <1>5 DEF AloneGoesAlone, Snap!Going
<1>8. AskedIsSeen'
  BY <1>2, <1>4, <1>5 DEF SnapInv, AskedIsSeen, Snap!Going
<1>9. CleanSoFar'
  BY <1>4, <1>5 DEF CleanSoFar, Snap!Going, DoneSoFar
<1>10. QED
  BY <1>2, <1>6, <1>7, <1>8, <1>9 DEF SnapInv, Snap!LeftAnonymous

\* One pod moves: of the others nothing changes, and what it did is as it should be.
LEMMA PodMoves ==
  ASSUME SnapInv, NEW r \in S_Runs, Snap!Going(r), NEW pod \in Pods,
         S_run' = [S_run EXCEPT ![r] = pod], UNCHANGED <<S_schema, S_spec, S_conf, S_cron>>,
         S_work' \in [there: BOOLEAN, live: BOOLEAN, clear: SUBSET Cols],
         S_work'.clear \subseteq S_schema,
         pod.engine = S_run[r].engine, pod.asked = S_run[r].asked, pod.alone = S_run[r].alone,
         S_run[r].asked \subseteq pod.rules,
         S_run[r].alone => DoneSoFar(pod, S_work'),
         Snap!LeftAnonymous'
  PROVE  SnapInv'
<1>1. S_run' \in [S_Runs -> Pods] /\ S_run'[r] = pod /\ \A q \in S_Runs \ {r} : S_run'[q] = S_run[q]
  BY DEF SnapInv, SnapTypes
<1>2. \A q \in S_Runs : Snap!Going(q)' => Snap!Going(q)
  BY <1>1 DEF Snap!Going
<1>3. SnapTypes'
  BY <1>1, <1>2 DEF SnapInv, SnapTypes
<1>4. AloneGoesAlone'
  BY <1>1, <1>2 DEF SnapInv, AloneGoesAlone
<1>5. AskedIsSeen'
  BY <1>1, <1>2 DEF SnapInv, AskedIsSeen
<1>6. CleanSoFar'
  <2>1. SUFFICES ASSUME NEW q \in S_Runs, Snap!Going(q)', S_run'[q].alone
                 PROVE  DoneSoFar(S_run'[q], S_work')
    BY DEF CleanSoFar
  <2>2. q = r
    BY <1>1, <1>2, <2>1 DEF SnapInv, AloneGoesAlone
  <2>3. QED
    BY <1>1, <2>1, <2>2
<1>7. QED
  BY <1>3, <1>4, <1>5, <1>6 DEF SnapInv

\* The steps of a pod.
LEMMA NextPod ==
  ASSUME SnapInv, NEW r \in S_Runs, Snap!Pod(r)
  PROVE  SnapInv'
<1>0. /\ Snap!Going(r) /\ S_run[r] \in Pods /\ S_run[r].engine \in S_Engines
      /\ S_work \in [there: BOOLEAN, live: BOOLEAN, clear: SUBSET Cols]
      /\ S_work.clear \subseteq S_schema /\ S_schema \subseteq Cols
      /\ S_run[r].asked \subseteq S_run[r].rules /\ S_run[r].asked \subseteq S_conf.rules
      /\ S_conf \in [engine: S_Engines \cup {"none"}, rules: SUBSET Cols]
      /\ S_run \in [S_Runs -> Pods]
  <2>1. Snap!Going(r)
    BY DEF Snap!Pod, Snap!Fail, Snap!Sync, Snap!Copy, Snap!Neutralize, Snap!Anonymize,
       Snap!Dump, Snap!Upload, Snap!Going
  <2>2. QED
    BY <2>1 DEF SnapInv, SnapTypes, AskedIsSeen
<1>d. S_run[r].alone => DoneSoFar(S_run[r], S_work)
  BY <1>0 DEF SnapInv, CleanSoFar
<1>l. UNCHANGED S_dumps => Snap!LeftAnonymous'
  BY DEF SnapInv, Snap!LeftAnonymous
<1>1. CASE Snap!Fail(r)
  <2> DEFINE pod == [S_run[r] EXCEPT !.step = "failed"]
  <2>1. S_run' = [S_run EXCEPT ![r] = pod] /\ UNCHANGED <<S_schema, S_spec, S_conf, S_cron, S_work, S_dumps>>
    BY <1>0, <1>1 DEF Snap!Fail, Snap!To
  <2>2. /\ pod \in Pods /\ pod.engine = S_run[r].engine /\ pod.asked = S_run[r].asked
        /\ pod.alone = S_run[r].alone /\ pod.rules = S_run[r].rules /\ pod.step = "failed"
    BY <1>0 DEF Pods
  <2> HIDE DEF pod
  <2>3. DoneSoFar(pod, S_work')
    BY <2>2 DEF DoneSoFar
  <2>4. QED
    BY <1>0, <1>l, <2>1, <2>2, <2>3, PodMoves
<1>2. CASE Snap!Sync(r)
  <2> DEFINE pod == [S_run[r] EXCEPT !.rules = S_conf.rules, !.mounted = S_conf.engine]
  <2>1. S_run' = [S_run EXCEPT ![r] = pod] /\ UNCHANGED <<S_schema, S_spec, S_conf, S_cron, S_work, S_dumps>>
    BY <1>0, <1>2 DEF Snap!Sync
  <2>2. /\ pod \in Pods /\ pod.engine = S_run[r].engine /\ pod.asked = S_run[r].asked
        /\ pod.alone = S_run[r].alone /\ pod.rules = S_conf.rules
        /\ pod.step = S_run[r].step
        /\ pod.live = S_run[r].live
        /\ pod.clear = S_run[r].clear
    BY <1>0 DEF Pods
  <2> HIDE DEF pod
  <2>3. S_run[r].alone => DoneSoFar(pod, S_work')
    BY <1>d, <2>1, <2>2 DEF DoneSoFar
  <2>4. QED
    BY <1>0, <1>l, <2>1, <2>2, <2>3, PodMoves
<1>3. CASE Snap!Copy(r)
  <2> DEFINE pod == [S_run[r] EXCEPT !.step = "neutralize"]
  <2>1. /\ S_run' = [S_run EXCEPT ![r] = pod]
        /\ UNCHANGED <<S_schema, S_spec, S_conf, S_cron, S_dumps>>
        /\ S_work' = [there |-> TRUE, live |-> TRUE, clear |-> S_schema]
    BY <1>0, <1>3 DEF Snap!Copy, Snap!To
  <2>2. /\ pod \in Pods /\ pod.engine = S_run[r].engine /\ pod.asked = S_run[r].asked
        /\ pod.alone = S_run[r].alone
        /\ pod.rules = S_run[r].rules
        /\ pod.step = "neutralize"
    BY <1>0 DEF Pods
  <2>3. S_work' \in [there: BOOLEAN, live: BOOLEAN, clear: SUBSET Cols] /\ S_work'.clear = S_schema
    BY <1>0, <2>1
  <2> HIDE DEF pod
  <2>4. DoneSoFar(pod, S_work')
    BY <2>2 DEF DoneSoFar
  <2>5. QED
    BY <1>0, <1>l, <2>1, <2>2, <2>3, <2>4, PodMoves
<1>4. CASE Snap!Neutralize(r)
  <2> DEFINE pod == [S_run[r] EXCEPT !.step = "anonymize"]
  <2>1. /\ S_run' = [S_run EXCEPT ![r] = pod]
        /\ UNCHANGED <<S_schema, S_spec, S_conf, S_cron, S_dumps>>
        /\ S_work' = [S_work EXCEPT !.live = FALSE]
    BY <1>0, <1>4 DEF Snap!Neutralize, Snap!To
  <2>2. /\ pod \in Pods /\ pod.engine = S_run[r].engine /\ pod.asked = S_run[r].asked
        /\ pod.alone = S_run[r].alone
        /\ pod.rules = S_run[r].rules
        /\ pod.step = "anonymize"
    BY <1>0 DEF Pods
  <2>3. /\ S_work' \in [there: BOOLEAN, live: BOOLEAN, clear: SUBSET Cols]
        /\ S_work'.clear = S_work.clear /\ ~S_work'.live
    BY <1>0, <2>1
  <2> HIDE DEF pod
  <2>4. DoneSoFar(pod, S_work')
    BY <2>2, <2>3 DEF DoneSoFar
  <2>5. QED
    BY <1>0, <1>l, <2>1, <2>2, <2>3, <2>4, PodMoves
<1>5. CASE Snap!Anonymize(r)
  <2> DEFINE pod == [S_run[r] EXCEPT !.step = "dump"]
             masked == [S_work EXCEPT !.clear = @ \ S_run[r].rules]
  <2>1. /\ S_run' = [S_run EXCEPT ![r] = pod]
        /\ UNCHANGED <<S_schema, S_spec, S_conf, S_cron, S_dumps>>
        /\ S_work' = IF S_run[r].engine = "SQL" THEN masked ELSE S_work
        /\ S_run[r].step = "anonymize"
    BY <1>0, <1>5 DEF Snap!Anonymize, Snap!To
  <2>2. /\ pod \in Pods /\ pod.engine = S_run[r].engine /\ pod.asked = S_run[r].asked
        /\ pod.alone = S_run[r].alone /\ pod.rules = S_run[r].rules /\ pod.step = "dump"
    BY <1>0 DEF Pods
  <2>3. /\ masked \in [there: BOOLEAN, live: BOOLEAN, clear: SUBSET Cols]
        /\ masked.clear = S_work.clear \ S_run[r].rules /\ masked.live = S_work.live
    BY <1>0
  <2> HIDE DEF pod, masked
  <2>4. S_run[r].alone => DoneSoFar(pod, S_work')
    BY <1>0, <1>d, <2>1, <2>2, <2>3 DEF DoneSoFar
  <2>5. S_work' \in [there: BOOLEAN, live: BOOLEAN, clear: SUBSET Cols] /\ S_work'.clear \subseteq S_schema
    BY <1>0, <2>1, <2>3
  <2>6. QED
    BY <1>0, <1>l, <2>1, <2>2, <2>4, <2>5, PodMoves
<1>6. CASE Snap!Dump(r)
  <2> DEFINE kept == Snap!Pruned(S_run[r].rules)
             clear == IF S_run[r].engine = "Greenmask" THEN S_work.clear \ kept ELSE S_work.clear
             skipped == IF S_run[r].engine = "Greenmask" THEN S_run[r].rules \ kept ELSE {}
             pod == [S_run[r] EXCEPT !.step = "upload", !.live = S_work.live, !.clear = clear,
                                     !.skipped = skipped]
  <2>1. /\ S_run' = [S_run EXCEPT ![r] = pod]
        /\ UNCHANGED <<S_schema, S_spec, S_conf, S_cron, S_work, S_dumps>>
        /\ S_run[r].step = "dump"
    BY <1>0, <1>6 DEF Snap!Dump
  <2>2. clear \in SUBSET Cols /\ skipped \in SUBSET Cols
    BY <1>0 DEF Pods, Snap!Pruned
  <2>3. S_run[r].engine # "Custom" /\ (S_run[r].engine = "SQL" => S_work.clear \cap S_run[r].asked = {})
          => clear \cap S_run[r].asked = {}
    BY <1>0, EnginesAssumption DEF Snap!Pruned, Snap!EnginesAreKnown
  <2> HIDE DEF clear, skipped
  <2>4. /\ pod \in Pods /\ pod.engine = S_run[r].engine /\ pod.asked = S_run[r].asked
        /\ pod.alone = S_run[r].alone /\ pod.rules = S_run[r].rules /\ pod.step = "upload"
        /\ pod.live = S_work.live /\ pod.clear = clear
    BY <1>0, <2>2 DEF Pods
  <2> HIDE DEF pod
  <2>5. S_run[r].alone => DoneSoFar(pod, S_work')
    BY <1>d, <2>1, <2>3, <2>4 DEF DoneSoFar
  <2>6. QED
    BY <1>0, <1>l, <2>1, <2>4, <2>5, PodMoves
<1>7. CASE Snap!Upload(r)
  <2> DEFINE pod == [S_run[r] EXCEPT !.step = "succeeded"]
             d == [engine |-> S_run[r].engine, live |-> S_run[r].live, clear |-> S_run[r].clear,
                   asked |-> S_run[r].asked, alone |-> S_run[r].alone]
  <2>1. /\ S_run' = [S_run EXCEPT ![r] = pod]
        /\ UNCHANGED <<S_schema, S_spec, S_conf, S_cron>>
        /\ S_work' = [there |-> FALSE, live |-> FALSE, clear |-> {}]
        /\ S_dumps' = S_dumps \cup {d} /\ S_run[r].step = "upload"
    BY <1>0, <1>7 DEF Snap!Upload, Snap!To
  <2>2. /\ pod \in Pods /\ pod.engine = S_run[r].engine /\ pod.asked = S_run[r].asked
        /\ pod.alone = S_run[r].alone
        /\ pod.rules = S_run[r].rules
        /\ pod.step = "succeeded"
    BY <1>0 DEF Pods
  <2>3. S_work' \in [there: BOOLEAN, live: BOOLEAN, clear: SUBSET Cols] /\ S_work'.clear = {}
    BY <2>1
  <2>4. d.alone /\ d.engine # "Custom" => Snap!Anonymous(d)
    BY <1>d, <2>1 DEF DoneSoFar, Snap!Anonymous
  <2> HIDE DEF pod, d
  <2>5. Snap!LeftAnonymous'
    BY <2>1, <2>4 DEF SnapInv, Snap!LeftAnonymous
  <2>6. DoneSoFar(pod, S_work')
    BY <2>2 DEF DoneSoFar
  <2>7. QED
    BY <1>0, <2>1, <2>2, <2>3, <2>5, <2>6, PodMoves
<1>8. QED
  BY <1>1, <1>2, <1>3, <1>4, <1>5, <1>6, <1>7 DEF Snap!Pod

LEMMA NextSnap == SnapInv /\ [Snap!Next]_(Snap!vars) => SnapInv'
<1> SUFFICES ASSUME SnapInv, [Snap!Next]_(Snap!vars) PROVE SnapInv'
  OBVIOUS
<1>1. CASE Snap!Edit
  BY <1>1 DEF Snap!Edit, SnapInv, SnapTypes, AloneGoesAlone, AskedIsSeen, CleanSoFar,
     Snap!LeftAnonymous,
              Snap!Going
<1>2. CASE UNCHANGED Snap!vars
  BY <1>2 DEF Snap!vars, SnapInv, SnapTypes, AloneGoesAlone, AskedIsSeen, CleanSoFar,
     Snap!LeftAnonymous,
              Snap!Going
<1>3. QED
  BY <1>1, <1>2, NextPass, NextCron, NextPod DEF Snap!Next

\* Snapshot is one of the components that take turns.
LEMMA SnapRefined == Spec => Snap!Spec
<1>1. [Next]_vars => [Snap!Next]_(Snap!vars)
  BY DEF Next, vars, AccountMoves, AdmissionMoves, QuotaMoves, StampMoves, CopiesMoves,
         LinkMoves, SnapMoves, PagesMoves, FormsMoves, FinalMoves, ReleaseMoves, ButA,
         ButD, ButQ, ButT, ButB, ButL, ButW, ButG, ButF, ButR, S, Snap!vars
<1>2. Init => Snap!Init
  BY DEF Init
<1>3. QED
  BY <1>1, <1>2, PTL DEF Spec, Snap!Spec

\* What leaves the cluster is anonymous, for every set of columns, of rules and of pods, and
\* every engine the API admits.
THEOREM DumpsAreAnonymous == Spec => []LeftAnonymous
<1>1. Snap!Spec => []SnapInv
  BY InitSnap, NextSnap, PTL DEF Snap!Spec
<1>2. SnapInv => LeftAnonymous
  BY DEF SnapInv, LeftAnonymous
<1>3. QED
  BY <1>1, <1>2, SnapRefined, PTL

------------------------------------------------------------------------------
(* RunboatLink: an id at a time.                                           *)

\* One for what is so, nothing for what is not.
One(b) == IF b THEN 1 ELSE 0

LinkTypes ==
  /\ L_obj \in Link!Objects
  /\ L_view \in Link!Objects
  /\ L_snap \in Link!Objects
  /\ L_st \in Link!Objects
  /\ L_pc \in {"idle", "pass", "act", "finish"}
  /\ L_todo \subseteq L_Ids /\ L_acted \subseteq L_Ids
  /\ L_ran \in [L_Ids -> Nat] /\ L_excused \in [L_Ids -> Nat]

\* What a pass has done so far.
PassSoFar ==
  /\ L_current => L_view = L_obj
  /\ L_pc # "idle" /\ L_fresh => L_snap = L_obj
  /\ L_pc \in {"idle", "pass"} => L_acted = {} /\ L_todo = {}
  /\ L_pc = "pass" => L_st = L_snap
  /\ L_pc = "act" \/ (L_pc = "finish" /\ L_acted # {}) => L_st.lastPoll # L_snap.lastPoll
  /\ L_acted \cap L_todo = {}

\* Repeats of i that are excused are still counted, not capped.
Counted(i) == L_excused[i] < L_MaxRuns - 1

\* Each time an action was carried out there is a record of it, in the object or with the
\* pass that is to write it, or there is an excuse; and a pass that will be able to
\* write has the record of all.
EachIsRecorded ==
  \A i \in L_Ids :
    /\ L_ran[i] <= L_MaxRuns
    /\ Counted(i) => L_ran[i] <= L_excused[i] + One(i \in Link!ToSet(L_obj.done)) + One(i \in L_acted)
    /\ Counted(i) /\ L_pc # "idle" /\ L_fresh => L_ran[i] <= L_excused[i] + One(i \in Link!ToSet(L_st.done))

LinkInv == LinkTypes /\ PassSoFar /\ EachIsRecorded

\* Runboat has the build or has not.
LinkSafe == LinkInv /\ L_remote \in BOOLEAN

------------------------------------------------------------------------------

LEMMA InitLink == Link!Init => LinkSafe
<1> SUFFICES ASSUME Link!Init PROVE LinkInv
  BY DEF Link!Init, LinkSafe
<1>1. <<>> \in Seq(L_Ids) /\ L_obj \in Link!Objects
  BY DEF Link!Init, Link!Objects
<1>2. LinkTypes /\ PassSoFar
  BY <1>1 DEF Link!Init, LinkTypes, PassSoFar
<1>3. EachIsRecorded
  BY LinkAssumption DEF Link!Init, EachIsRecorded, One, Link!LimitsAreNumbers
<1>4. QED
  BY <1>2, <1>3 DEF LinkInv

\* A record is in the list once it is made, and nothing else comes in.
LEMMA RecordedIs ==
  ASSUME NEW done \in Seq(L_Ids), NEW i \in L_Ids, NEW ok
  PROVE  /\ Link!Recorded(done, i, ok) \in Seq(L_Ids)
         /\ i \in Link!ToSet(Link!Recorded(done, i, ok))
         /\ Link!ToSet(Link!Recorded(done, i, ok)) \subseteq Link!ToSet(done) \cup {i}
<1> DEFINE all == Append(done, i)
           from == IF Len(all) > L_Keep THEN Len(all) - L_Keep + 1 ELSE 1
<1>1. /\ all \in Seq(L_Ids) /\ Len(all) = Len(done) + 1 /\ Len(done) \in Nat
      /\ all[Len(all)] = i /\ \A k \in 1..Len(done) : all[k] = done[k]
  OBVIOUS
<1>2. from \in 1..Len(all)
  BY <1>1, LinkAssumption DEF Link!LimitsAreNumbers
<1> HIDE DEF all, from
<1>3. /\ SubSeq(all, from, Len(all)) \in Seq(L_Ids)
      /\ Len(SubSeq(all, from, Len(all))) = Len(all) - from + 1
      /\ \A k \in 1..(Len(all) - from + 1) : SubSeq(all, from, Len(all))[k] = all[from + k - 1]
  BY <1>1, <1>2
<1>4. Link!Recorded(done, i, ok) = SubSeq(all, from, Len(all))
  BY DEF Link!Recorded, all, from
<1>5. i \in Link!ToSet(SubSeq(all, from, Len(all)))
  <2>1. Len(all) - from + 1 \in 1..(Len(all) - from + 1) /\ from + (Len(all) - from + 1) - 1 = Len(all)
    BY <1>1, <1>2
  <2>2. SubSeq(all, from, Len(all))[Len(all) - from + 1] = i
    BY <1>1, <1>3, <2>1
  <2>3. DOMAIN SubSeq(all, from, Len(all)) = 1..(Len(all) - from + 1)
    BY <1>3
  <2>4. QED
    BY <2>1, <2>2, <2>3 DEF Link!ToSet
<1>6. Link!ToSet(SubSeq(all, from, Len(all))) \subseteq Link!ToSet(done) \cup {i}
  <2>1. SUFFICES ASSUME NEW k \in 1..(Len(all) - from + 1)
                 PROVE  SubSeq(all, from, Len(all))[k] \in Link!ToSet(done) \cup {i}
    <3>1. DOMAIN SubSeq(all, from, Len(all)) = 1..(Len(all) - from + 1)
      BY <1>3
    <3>2. QED
      BY <2>1, <3>1 DEF Link!ToSet
  <2>2. from + k - 1 \in 1..Len(all) /\ SubSeq(all, from, Len(all))[k] = all[from + k - 1]
    BY <1>1, <1>2, <1>3
  <2>3. CASE from + k - 1 = Len(all)
    BY <1>1, <2>2, <2>3
  <2>4. CASE from + k - 1 \in 1..Len(done)
    <3>1. DOMAIN done = 1..Len(done)
      OBVIOUS
    <3>2. QED
      BY <1>1, <2>2, <2>4, <3>1 DEF Link!ToSet
  <2>5. from + k - 1 = Len(all) \/ from + k - 1 \in 1..Len(done)
    BY <1>1, <1>2, <2>2
  <2>6. QED
    BY <2>3, <2>4, <2>5
<1>7. QED
  BY <1>3, <1>4, <1>5, <1>6

\* An excuse more for each of ids, unless there are enough.
LEMMA ExcuseIs ==
  ASSUME LinkTypes, NEW ids, Link!Excuse(ids)
  PROVE  /\ L_excused' \in [L_Ids -> Nat]
         /\ \A j \in L_Ids :
              /\ L_excused'[j] >= L_excused[j]
              /\ Counted(j)' => Counted(j)
              /\ Counted(j)' /\ j \in ids => L_excused'[j] = L_excused[j] + 1
<1>1. L_MaxRuns \in Nat
  BY LinkAssumption DEF Link!LimitsAreNumbers
<1>2. ASSUME NEW j \in L_Ids
      PROVE  /\ L_excused'[j] \in Nat /\ L_excused'[j] >= L_excused[j]
             /\ Counted(j)' => Counted(j)
             /\ Counted(j)' /\ j \in ids => L_excused'[j] = L_excused[j] + 1
  <2>1. L_excused[j] \in Nat /\ L_excused'[j] = IF j \in ids /\ L_excused[j] < L_MaxRuns - 1
                                                   THEN L_excused[j] + 1 ELSE L_excused[j]
    BY DEF Link!Excuse, LinkTypes
  <2>2. QED
    BY <1>1, <2>1 DEF Counted
<1>3. QED
  BY <1>2 DEF Link!Excuse

\* A step that carries nothing out, whose pass keeps its records or is none.
LEMMA NothingCarriedOut ==
  ASSUME LinkTypes, EachIsRecorded, UNCHANGED <<L_ran, L_excused, L_acted>>, L_obj'.done = L_obj.done,
         L_pc' # "idle" /\ L_fresh' =>
           \/ L_pc # "idle" /\ L_fresh /\ L_st'.done = L_st.done
           \/ L_acted = {} /\ L_st'.done = L_obj.done
  PROVE  EachIsRecorded'
<1>1. ASSUME NEW i \in L_Ids
      PROVE  /\ L_ran'[i] <= L_MaxRuns
             /\ Counted(i)' => L_ran'[i] <= L_excused'[i] + One(i \in Link!ToSet(L_obj'.done)) + One(i \in L_acted')
             /\ Counted(i)' /\ L_pc' # "idle" /\ L_fresh'
                  => L_ran'[i] <= L_excused'[i] + One(i \in Link!ToSet(L_st'.done))
  <2>1. Counted(i)' = Counted(i)
    BY DEF Counted
  <2>2. ASSUME L_acted = {} PROVE One(i \in L_acted) = 0
    BY <2>2 DEF One
  <2>3. L_ran[i] \in Nat /\ L_excused[i] \in Nat /\ One(i \in Link!ToSet(L_obj.done)) \in {0, 1}
    BY DEF LinkTypes, One
  <2>4. QED
    BY <2>1, <2>2, <2>3 DEF EachIsRecorded
<1>2. QED
  BY <1>1 DEF EachIsRecorded

\* A pass that cannot write what it carried out, or dies before, is an excuse.
LEMMA LostIsExcused ==
  ASSUME LinkTypes, EachIsRecorded, Link!Lose, L_acted' = {}, UNCHANGED L_ran, L_obj'.done = L_obj.done,
         L_pc' = "idle"
  PROVE  EachIsRecorded' /\ L_excused' \in [L_Ids -> Nat]
<1>0. /\ L_excused' \in [L_Ids -> Nat]
      /\ \A j \in L_Ids :
           /\ L_excused'[j] >= L_excused[j]
           /\ Counted(j)' => Counted(j)
           /\ Counted(j)' /\ j \in L_acted => L_excused'[j] = L_excused[j] + 1
  BY ExcuseIs DEF Link!Lose
<1>1. ASSUME NEW i \in L_Ids, Counted(i)'
      PROVE  L_ran'[i] <= L_excused'[i] + One(i \in Link!ToSet(L_obj'.done)) + One(i \in L_acted')
  <2>1. L_ran[i] <= L_excused[i] + One(i \in Link!ToSet(L_obj.done)) + One(i \in L_acted)
    BY <1>0, <1>1 DEF EachIsRecorded
  <2>2. /\ L_ran[i] \in Nat /\ L_excused[i] \in Nat /\ L_excused'[i] \in Nat
        /\ One(i \in Link!ToSet(L_obj.done)) \in {0, 1} /\ One(i \in L_acted') = 0
    BY <1>0 DEF LinkTypes, One
  <2>3. L_excused'[i] >= L_excused[i] + One(i \in L_acted)
    BY <1>0, <1>1, <2>2 DEF One
  <2>4. One(i \in L_acted) \in {0, 1}
    BY DEF One
  <2>5. QED
    BY <2>1, <2>2, <2>3, <2>4
<1>2. QED
  BY <1>0, <1>1 DEF EachIsRecorded

\* A request is dealt with: whatever its record pushes out is excused.
LEMMA RecordKeeps ==
  ASSUME LinkInv, NEW i \in L_Ids, Link!IsNext(i), ~Link!AlreadyDone(i), NEW ok, Link!Record(i, ok),
         \/ UNCHANGED <<L_ran, L_acted>>
         \/ /\ L_acted' = L_acted \cup {i} /\ L_ran[i] < L_MaxRuns
            /\ UNCHANGED L_ran \/ L_ran' = [L_ran EXCEPT ![i] = @ + 1]
  PROVE  LinkInv'
<1> DEFINE done == Link!Recorded(L_st.done, i, ok)
<1>0. /\ LinkTypes /\ PassSoFar /\ EachIsRecorded /\ L_pc = "act" /\ i \in L_todo
      /\ i \notin Link!ToSet(L_st.done) /\ L_MaxRuns \in Nat
  BY LinkAssumption DEF LinkInv, Link!IsNext, Link!AlreadyDone, Link!LimitsAreNumbers
<1>1. /\ L_st' = [L_st EXCEPT !.done = done] /\ L_todo' = L_todo \ {i} /\ Link!Excuse(Link!ToSet(L_st.done) \ Link!ToSet(done))
      /\ UNCHANGED <<L_obj, L_view, L_current, L_pc, L_snap, L_fresh>>
  BY DEF Link!Record, Link!stored
<1>2. /\ done \in Seq(L_Ids) /\ i \in Link!ToSet(done)
  BY <1>0, RecordedIs DEF LinkTypes, Link!Objects
<1>3. /\ L_st' \in Link!Objects /\ L_st'.done = done /\ L_st'.lastPoll = L_st.lastPoll
  BY <1>0, <1>1, <1>2 DEF LinkTypes, Link!Objects
<1> HIDE DEF done
<1>4. /\ L_excused' \in [L_Ids -> Nat]
      /\ \A j \in L_Ids :
           /\ L_excused'[j] >= L_excused[j]
           /\ Counted(j)' => Counted(j)
           /\ Counted(j)' /\ j \in Link!ToSet(L_st.done) \ Link!ToSet(done)
                => L_excused'[j] = L_excused[j] + 1
  BY <1>0, <1>1, ExcuseIs
<1>5. L_ran' \in [L_Ids -> Nat] /\ L_acted' \subseteq L_Ids
  BY <1>0 DEF LinkTypes
<1>6. LinkTypes'
  BY <1>0, <1>1, <1>3, <1>4, <1>5 DEF LinkTypes
<1>7. PassSoFar'
  BY <1>0, <1>1, <1>3 DEF PassSoFar
<1>8. ASSUME NEW j \in L_Ids
      PROVE  /\ L_ran'[j] <= L_MaxRuns
             /\ Counted(j)' => L_ran'[j] <= L_excused'[j] + One(j \in Link!ToSet(L_obj'.done)) + One(j \in L_acted')
             /\ Counted(j)' /\ L_fresh' => L_ran'[j] <= L_excused'[j] + One(j \in Link!ToSet(L_st'.done))
  <2>1. /\ L_ran[j] \in Nat
        /\ L_ran'[j] \in Nat
        /\ L_excused[j] \in Nat
        /\ L_excused'[j] \in Nat
        /\ L_excused'[j] >= L_excused[j] /\ One(j \in Link!ToSet(L_obj.done)) \in {0, 1}
        /\ L_obj' = L_obj /\ L_st'.done = done
    BY <1>0, <1>1, <1>3, <1>4, <1>5 DEF LinkTypes, One
  <2>2. CASE L_ran'[j] = L_ran[j]
    <3>1. One(j \in L_acted') >= One(j \in L_acted) /\ One(j \in L_acted) \in {0, 1} /\ One(j \in L_acted') \in {0, 1}
      BY DEF One
    <3>2. Counted(j)' => L_excused'[j] + One(j \in Link!ToSet(done)) >= L_excused[j] + One(j \in Link!ToSet(L_st.done))
      <4>1. CASE j \in Link!ToSet(L_st.done) \ Link!ToSet(done)
        BY <1>4, <2>1, <4>1 DEF One
      <4>2. CASE ~(j \in Link!ToSet(L_st.done) \ Link!ToSet(done))
        BY <2>1, <4>2 DEF One
      <4>3. QED
        BY <4>1, <4>2
    <3>3. One(j \in Link!ToSet(done)) \in {0, 1} /\ One(j \in Link!ToSet(L_st.done)) \in {0, 1}
      BY DEF One
    <3>4. /\ L_ran[j] <= L_MaxRuns
          /\ Counted(j)' => L_ran[j] <= L_excused[j] + One(j \in Link!ToSet(L_obj.done)) + One(j \in L_acted)
          /\ Counted(j)' /\ L_fresh' => L_ran[j] <= L_excused[j] + One(j \in Link!ToSet(L_st.done))
      BY <1>0, <1>1, <1>4 DEF EachIsRecorded
    <3>5. QED
      BY <2>1, <2>2, <3>1, <3>2, <3>3, <3>4
  <2>3. CASE L_ran'[j] # L_ran[j]
    <3>1. j = i /\ L_ran'[j] = L_ran[j] + 1 /\ j \in L_acted' /\ L_ran[j] < L_MaxRuns
      BY <1>0, <2>3 DEF LinkTypes
    <3>2. /\ One(j \in L_acted) = 0 /\ One(j \in L_acted') = 1
          /\ One(j \in Link!ToSet(L_st.done)) = 0 /\ One(j \in Link!ToSet(done)) = 1
      BY <1>0, <1>2, <3>1 DEF One, PassSoFar
    <3>3. /\ Counted(j)' => L_ran[j] <= L_excused[j] + One(j \in Link!ToSet(L_obj.done)) + One(j \in L_acted)
          /\ Counted(j)' /\ L_fresh' => L_ran[j] <= L_excused[j] + One(j \in Link!ToSet(L_st.done))
      BY <1>0, <1>1, <1>4 DEF EachIsRecorded
    <3>4. QED
      BY <1>0, <2>1, <3>1, <3>2, <3>3
  <2>4. QED
    BY <2>2, <2>3
<1>9. QED
  BY <1>6, <1>7, <1>8 DEF LinkInv, EachIsRecorded

------------------------------------------------------------------------------

\* What leaves the pass and its records alone.
LEMMA NextSkip ==
  ASSUME LinkInv, NEW i \in L_Ids, Link!Skip(i)
  PROVE  LinkInv'
<1>1. /\ UNCHANGED <<L_obj, L_view, L_current, L_pc, L_snap, L_fresh, L_st, L_ran, L_excused, L_acted>>
      /\ L_todo' = L_todo \ {i} /\ L_pc = "act"
  BY DEF Link!Skip, Link!IsNext, Link!runtime, Link!history
<1>2. QED
  BY <1>1 DEF LinkInv, LinkTypes, PassSoFar, EachIsRecorded, Counted

LEMMA NextRequest ==
  ASSUME LinkInv, NEW i \in L_Ids, Link!Skip(i) \/ Link!Refuse(i) \/ Link!Act(i)
  PROVE  LinkInv'
<1>1. CASE Link!Refuse(i)
  BY <1>1, RecordKeeps DEF Link!Refuse
<1>2. CASE Link!Act(i)
  <2>1. /\ Link!IsNext(i) /\ ~Link!AlreadyDone(i) /\ L_acted' = L_acted \cup {i} /\ L_ran[i] < L_MaxRuns
    BY <1>2 DEF Link!Act
  <2>2. \/ Link!Record(i, TRUE) /\ (UNCHANGED L_ran \/ L_ran' = [L_ran EXCEPT ![i] = @ + 1])
        \/ Link!Record(i, FALSE) /\ (UNCHANGED L_ran \/ L_ran' = [L_ran EXCEPT ![i] = @ + 1])
    BY <1>2 DEF Link!Act
  <2>3. QED
    BY <2>1, <2>2, RecordKeeps
<1>3. QED
  BY <1>1, <1>2, NextSkip

LEMMA NextBegin ==
  ASSUME LinkInv, L_remote \in BOOLEAN, Link!Read \/ Link!Poll \/ Link!PollFails \/ Link!ActsDone
  PROVE  LinkInv'
<1> USE DEF LinkInv
<1>1. CASE Link!Read
  <2>1. /\ L_pc = "idle"
        /\ L_pc' = "pass"
        /\ L_snap' = L_view
        /\ L_st' = L_view
        /\ L_fresh' = L_current
        /\ UNCHANGED <<L_obj, L_view, L_current, L_todo, L_acted, L_ran, L_excused>>
    BY <1>1 DEF Link!Read, Link!BeginPass, Link!stored, Link!loop, Link!history
  <2>2. LinkTypes' /\ PassSoFar'
    BY <2>1 DEF LinkTypes, PassSoFar
  <2>3. EachIsRecorded'
    BY <2>1, NothingCarriedOut DEF PassSoFar
  <2>4. QED
    BY <2>2, <2>3
<1>2. CASE Link!Poll
  <2>1. /\ L_pc = "pass" /\ L_pc' = "act" /\ L_todo' = L_snap.asked
        /\ UNCHANGED <<L_obj, L_view, L_current, L_snap, L_fresh, L_acted, L_ran, L_excused>>
    BY <1>2 DEF Link!Poll, Link!GoTo, Link!stored, Link!history
  <2>2. L_st' = [L_st EXCEPT !.mirrored = L_remote, !.reachable = TRUE,
                             !.lastPoll = IF @ = "tick" THEN "tock" ELSE "tick"]
    BY <1>2 DEF Link!Poll, Link!GoTo
  <2>3. L_st' \in Link!Objects /\ L_st'.done = L_st.done /\ L_st'.lastPoll # L_st.lastPoll
    BY <2>2 DEF LinkTypes, Link!Objects
  <2>4. LinkTypes'
    BY <2>1, <2>3 DEF LinkTypes, Link!Objects
  <2>5. PassSoFar'
    BY <2>1, <2>3 DEF PassSoFar
  <2>6. EachIsRecorded'
    BY <2>1, <2>3, NothingCarriedOut
  <2>7. QED
    BY <2>4, <2>5, <2>6
<1>3. CASE Link!PollFails
  <2>1. /\ L_pc = "pass" /\ L_pc' = "finish" /\ L_st' = [L_st EXCEPT !.reachable = FALSE]
        /\ UNCHANGED <<L_obj, L_view, L_current, L_snap, L_fresh, L_todo, L_acted, L_ran, L_excused>>
    BY <1>3 DEF Link!PollFails, Link!GoTo, Link!stored, Link!loop, Link!history
  <2>2. L_st' \in Link!Objects /\ L_st'.done = L_st.done
    BY <2>1 DEF LinkTypes, Link!Objects
  <2>3. LinkTypes' /\ PassSoFar'
    BY <2>1, <2>2 DEF LinkTypes, PassSoFar
  <2>4. EachIsRecorded'
    BY <2>1, <2>2, NothingCarriedOut
  <2>5. QED
    BY <2>3, <2>4
<1>4. CASE Link!ActsDone
  <2>1. /\ L_pc = "act" /\ L_pc' = "finish" /\ L_todo = {}
        /\ UNCHANGED <<L_obj, L_view, L_current, L_snap, L_fresh, L_st, L_todo, L_acted, L_ran, L_excused>>
    BY <1>4 DEF Link!ActsDone, Link!GoTo, Link!stored, Link!loop, Link!history
  <2>2. LinkTypes' /\ PassSoFar'
    BY <2>1 DEF LinkTypes, PassSoFar
  <2>3. EachIsRecorded'
    BY <2>1, NothingCarriedOut
  <2>4. QED
    BY <2>2, <2>3
<1>5. QED
  BY <1>1, <1>2, <1>3, <1>4

\* The end of a pass: its records are written, or are excused, or there are none.
LEMMA NextEnd ==
  ASSUME LinkInv, Link!Finish \/ Link!FinishFails \/ Link!Crash
  PROVE  LinkInv'
<1> USE DEF LinkInv
<1>1. L_pc' = "idle" /\ L_todo' = {} /\ L_acted' = {} /\ UNCHANGED L_ran
  BY DEF Link!Finish, Link!FinishFails, Link!Crash, Link!Return, Link!EndPass, Link!Restart
<1>2. CASE Link!Finish /\ L_fresh /\ L_st # L_snap /\ UNCHANGED L_excused
  <2>1. L_obj' = L_st /\ L_current' = FALSE /\ UNCHANGED L_view /\ L_snap' \in Link!Objects /\ L_st' \in Link!Objects
    BY <1>2 DEF Link!Finish, Link!Store, Link!Return, Link!EndPass, LinkTypes
  <2>2. LinkTypes' /\ PassSoFar'
    BY <1>1, <1>2, <2>1 DEF LinkTypes, PassSoFar
  <2>3. ASSUME NEW i \in L_Ids
        PROVE  /\ L_ran'[i] <= L_MaxRuns
               /\ Counted(i)' => L_ran'[i] <= L_excused'[i] + One(i \in Link!ToSet(L_obj'.done)) + One(i \in L_acted')
    <3>1. Counted(i)' = Counted(i) /\ L_pc = "finish"
      BY <1>2 DEF Counted, Link!Finish
    <3>2. One(i \in L_acted') = 0 /\ One(i \in Link!ToSet(L_st.done)) \in {0, 1} /\ L_excused[i] \in Nat
      BY <1>1 DEF One, LinkTypes
    <3>3. QED
      BY <1>1, <1>2, <2>1, <3>1, <3>2 DEF EachIsRecorded
  <2>4. QED
    BY <1>1, <2>2, <2>3 DEF EachIsRecorded
<1>3. CASE Link!Finish /\ L_st = L_snap
  <2>1. L_acted = {} /\ UNCHANGED <<L_obj, L_view, L_current, L_excused>> /\ L_snap' = L_view /\ L_st' = L_view
    BY <1>3 DEF Link!Finish, Link!Return, Link!EndPass, Link!stored, PassSoFar
  <2>2. LinkTypes' /\ PassSoFar'
    BY <1>1, <2>1 DEF LinkTypes, PassSoFar
  <2>3. EachIsRecorded'
    BY <1>1, <2>1, NothingCarriedOut
  <2>4. QED
    BY <2>2, <2>3
<1>4. CASE Link!Lose /\ ((Link!Finish /\ UNCHANGED Link!stored) \/ Link!FinishFails \/ Link!Crash)
  <2>1. /\ UNCHANGED L_obj /\ L_snap' \in Link!Objects /\ L_st' \in Link!Objects
        /\ L_view' \in Link!Objects /\ (L_current' => L_view' = L_obj')
    <3>1. CASE (Link!Finish /\ UNCHANGED Link!stored) \/ Link!FinishFails
      <4>1. UNCHANGED Link!stored /\ L_snap' = L_view /\ L_st' = L_view
        BY <3>1 DEF Link!Finish, Link!FinishFails, Link!Return, Link!EndPass
      <4>2. QED
        BY <4>1 DEF Link!stored, LinkTypes, PassSoFar
    <3>2. CASE Link!Crash
      BY <3>2 DEF Link!Crash, Link!Restart, LinkTypes
    <3>3. QED
      BY <1>4, <3>1, <3>2
  <2>2. EachIsRecorded' /\ L_excused' \in [L_Ids -> Nat]
    BY <1>1, <1>4, <2>1, LostIsExcused
  <2>3. LinkTypes' /\ PassSoFar'
    BY <1>1, <2>1, <2>2 DEF LinkTypes, PassSoFar
  <2>4. QED
    BY <2>2, <2>3
<1>5. QED
  BY <1>2, <1>3, <1>4 DEF Link!Finish, Link!FinishFails, Link!Crash

LEMMA NextOthers ==
  ASSUME LinkInv, Link!Others
  PROVE  LinkInv'
<1> USE DEF LinkInv
<1>0. \/ \E o : Link!Edit(o) /\ o \in Link!Objects /\ o.done = L_obj.done
      \/ Link!DeliverObject \/ Link!RequeueLater \/ Link!BuildComesOrGoes
  <2>1. /\ \A i \in L_Ids : /\ [L_obj EXCEPT !.asked = @ \cup {i}] \in Link!Objects
                         /\ [L_obj EXCEPT !.asked = @ \cup {i}].done = L_obj.done
                         /\ [L_obj EXCEPT !.asked = @ \ {i}] \in Link!Objects
                         /\ [L_obj EXCEPT !.asked = @ \ {i}].done = L_obj.done
        /\ [L_obj EXCEPT !.allowed = ~@] \in Link!Objects
        /\ [L_obj EXCEPT !.allowed = ~@].done = L_obj.done
    BY DEF LinkTypes, Link!Objects
  <2>2. QED
    BY <2>1 DEF Link!Others, Link!Ask, Link!Withdraw, Link!Disallow
<1>1. ASSUME NEW o \in Link!Objects, Link!Edit(o), o.done = L_obj.done
      PROVE  LinkInv'
  <2>1. /\ L_obj' = o /\ ~L_current' /\ ~L_fresh'
        /\ UNCHANGED <<L_view, L_pc, L_snap, L_st, L_todo, L_acted, L_ran, L_excused>>
    BY <1>1 DEF Link!Edit, Link!Store, Link!loop, Link!history
  <2>2. LinkTypes' /\ PassSoFar'
    BY <2>1 DEF LinkTypes, PassSoFar
  <2>3. EachIsRecorded'
    BY <1>1, <2>1, NothingCarriedOut
  <2>4. QED
    BY <2>2, <2>3
<1>2. CASE Link!DeliverObject \/ Link!RequeueLater \/ Link!BuildComesOrGoes
  <2>1. /\ UNCHANGED <<L_obj, L_pc, L_snap, L_st, L_fresh, L_todo, L_acted, L_ran, L_excused>>
        /\ L_view' \in Link!Objects /\ (L_current' => L_view' = L_obj')
    BY <1>2 DEF Link!DeliverObject, Link!Deliver, Link!RequeueLater, Link!TimerFires,
       Link!BuildComesOrGoes, Link!runtime,
                Link!stored, Link!pass, Link!loop, Link!history, LinkTypes, PassSoFar
  <2>2. LinkTypes' /\ PassSoFar'
    BY <2>1 DEF LinkTypes, PassSoFar
  <2>3. EachIsRecorded'
    BY <2>1, NothingCarriedOut
  <2>4. QED
    BY <2>2, <2>3
<1>3. QED
  BY <1>0, <1>1, <1>2

LEMMA NextLink == LinkSafe /\ [Link!Next]_(Link!vars) => LinkSafe'
<1> SUFFICES ASSUME LinkInv, L_remote \in BOOLEAN, [Link!Next]_(Link!vars) PROVE LinkInv' /\ L_remote' \in BOOLEAN
  BY DEF LinkSafe
<1>0. L_remote' \in BOOLEAN
  <2>1. UNCHANGED L_remote \/ Link!BuildComesOrGoes
    BY DEF Link!Next, Link!Worker, Link!Others, Link!Read, Link!Poll, Link!PollFails,
       Link!Skip, Link!Refuse, Link!Act, Link!Record, Link!ActsDone,
           Link!Finish, Link!FinishFails, Link!DeliverObject, Link!RequeueLater, Link!Ask, Link!Withdraw, Link!Disallow, Link!Edit,
           Link!Crash, Link!vars
  <2>2. QED
    BY <2>1 DEF Link!BuildComesOrGoes
<1>1. CASE UNCHANGED Link!vars
  BY <1>1 DEF Link!vars, Link!runtime, Link!loop, Link!history, LinkInv, LinkTypes,
     PassSoFar, EachIsRecorded,
              Counted
<1>2. QED
  BY <1>0, <1>1, NextBegin, NextRequest, NextEnd, NextOthers DEF Link!Next, Link!Worker

LEMMA BetweenPasses == LinkSafe => Link!RepeatsAreExcused
<1> SUFFICES ASSUME LinkInv, L_pc = "idle", NEW i \in L_Ids PROVE L_ran[i] <= 1 + L_excused[i]
  BY DEF Link!RepeatsAreExcused, LinkSafe
<1>1. L_acted = {} /\ L_ran[i] \in Nat /\ L_excused[i] \in Nat /\ L_MaxRuns \in Nat
  BY LinkAssumption DEF LinkInv, PassSoFar, LinkTypes, Link!LimitsAreNumbers
<1>2. CASE Counted(i)
  <2>1. L_ran[i] <= L_excused[i] + One(i \in Link!ToSet(L_obj.done)) + One(i \in L_acted)
    BY <1>2 DEF LinkInv, EachIsRecorded
  <2>2. One(i \in Link!ToSet(L_obj.done)) \in {0, 1} /\ One(i \in L_acted) = 0
    BY <1>1 DEF One
  <2>3. QED
    BY <1>1, <2>1, <2>2
<1>3. CASE ~Counted(i)
  <2>1. L_ran[i] <= L_MaxRuns
    BY DEF LinkInv, EachIsRecorded
  <2>2. QED
    BY <1>1, <1>3, <2>1 DEF Counted
<1>4. QED
  BY <1>2, <1>3

\* RunboatLink is one of the components that take turns.
LEMMA LinkRefined == Spec => Link!Spec
<1>1. [Next]_vars => [Link!Next]_(Link!vars)
  BY DEF Next, vars, AccountMoves, AdmissionMoves, QuotaMoves, StampMoves, CopiesMoves,
         LinkMoves, SnapMoves, PagesMoves, FormsMoves, FinalMoves, ReleaseMoves, ButA,
         ButD, ButQ, ButT, ButB, ButS, ButW, ButG, ButF, ButR, L, Link!vars,
         Link!bounds, Link!history, Link!loop, Link!runtime
<1>2. Init => Link!Init
  BY DEF Init
<1>3. QED
  BY <1>1, <1>2, PTL DEF Spec, Link!Spec

\* Between passes an action has been carried out once, and once more for each record of it
\* that was lost, for any number of requests and of records kept.
THEOREM RepeatsHaveExcuses == Spec => []RepeatsAreExcused
<1>1. Link!Spec => []LinkSafe
  BY InitLink, NextLink, PTL DEF Link!Spec
<1>2. LinkSafe => RepeatsAreExcused
  BY BetweenPasses DEF RepeatsAreExcused
<1>3. QED
  BY <1>1, <1>2, LinkRefined, PTL

------------------------------------------------------------------------------
(* OdooRelease: a batch at a time.                                         *)

\* Of so many batches.
Batches(n) == R_Size * n

ReleaseTypes ==
  /\ R_obj \in Release!Objects
  /\ R_view \in Release!Objects
  /\ R_snap \in Release!Objects
  /\ R_st \in Release!Objects
  /\ R_pc \in {"idle", "pass", "rows", "finish"}
  /\ R_room \in Nat /\ R_lost \in Nat
  /\ R_rows \in [R_Customers -> Release!Rows]
  /\ IsFiniteSet(R_moved)
  /\ R_todo \subseteq R_Customers /\ \A c \in R_todo : R_rows[c] = "none"

\* What a pass knows of the last batch, and what it has done.
KnowsTheSoak ==
  /\ R_current => R_view = R_obj
  /\ R_pc # "idle" /\ R_fresh => R_snap = R_obj
  /\ R_pc \in {"pass", "rows"} => R_st = R_snap
  /\ R_pc = "finish" => R_st.last = IF Release!Moved THEN "recent" ELSE R_snap.last
  /\ R_pc \in {"idle", "pass"} => R_rows = Release!NoRows /\ R_room = 0
  /\ R_pc = "rows" /\ R_snap.last = "recent" => R_room = 0
  /\ Release!Moved => R_snap.last # "recent"

\* What has moved since the last soak: no more than has been accounted for, and while a pass
\* moves customers, its batch.  Unless the record says so, nothing was accounted for.
WithinTheBatch ==
  /\ ~Release!Moved =>
       /\ R_room <= R_Size
       /\ Cardinality(R_moved) <= Batches(R_lost + 1)
       /\ R_obj.last # "recent" => Cardinality(R_moved) <= Batches(R_lost)
  /\ Release!Moved =>
       /\ Cardinality(R_moved) + R_room <= Batches(R_lost + 2)
       /\ R_obj.last # "recent" => Cardinality(R_moved) + R_room <= Batches(R_lost + 1)

ReleaseInv == ReleaseTypes /\ KnowsTheSoak /\ WithinTheBatch

------------------------------------------------------------------------------

LEMMA BatchesAdd ==
  \A n \in Nat :
    /\ Batches(n) \in Nat /\ Batches(n + 1) = Batches(n) + R_Size
    /\ Batches(n + 2) = Batches(n + 1) + R_Size
    /\ R_Size \in Nat
<1> SUFFICES ASSUME NEW n \in Nat
             PROVE  /\ Batches(n) \in Nat /\ Batches(n + 1) = Batches(n) + R_Size
                    /\ Batches(n + 2) = Batches(n + 1) + R_Size
                    /\ R_Size \in Nat
  OBVIOUS
<1>1. R_Size \in Nat
  BY ReleaseAssumption DEF Release!SizeIsNumber
<1>2. QED
  BY <1>1 DEF Batches

LEMMA NobodyMoved ==
  /\ Release!NoRows \in [R_Customers -> Release!Rows]
  /\ R_rows = Release!NoRows => ~Release!Moved
  /\ R_rows' = Release!NoRows => ~Release!Moved'
BY DEF Release!NoRows, Release!Rows, Release!Moved

LEMMA InitRelease == Release!Init => ReleaseInv
<1> SUFFICES ASSUME Release!Init PROVE ReleaseInv
  OBVIOUS
<1>1. R_obj \in Release!Objects /\ R_view = R_obj /\ R_snap = R_obj /\ R_st = R_obj
  BY DEF Release!Init, Release!Objects, Release!Phases
<1>2. ~Release!Moved /\ R_rows \in [R_Customers -> Release!Rows]
  BY NobodyMoved DEF Release!Init
<1>3. IsFiniteSet(R_moved) /\ Cardinality(R_moved) = 0
  BY FS_EmptySet DEF Release!Init
<1>4. ReleaseTypes
  BY <1>1, <1>2, <1>3 DEF Release!Init, ReleaseTypes
<1>5. KnowsTheSoak
  BY <1>1, <1>2 DEF Release!Init, KnowsTheSoak
<1>6. WithinTheBatch
  <2>1. R_room = 0 /\ R_lost = 0
    BY DEF Release!Init
  <2>2. Batches(R_lost) \in Nat /\ Batches(R_lost + 1) \in Nat /\ R_Size \in Nat
    BY <2>1, BatchesAdd
  <2>3. QED
    BY <1>2, <1>3, <2>1, <2>2 DEF WithinTheBatch
<1>7. QED
  BY <1>4, <1>5, <1>6 DEF ReleaseInv

\* A pass starts, and looks at customers that stay where they are.
LEMMA NextLook ==
  ASSUME ReleaseInv,
         \/ Release!Read \/ Release!NoImage \/ Release!List \/ Release!Conclude
         \/ \E c \in R_Customers : Release!Pass(c) \/ Release!MoveFails(c)
  PROVE  ReleaseInv'
<1> USE DEF ReleaseInv
<1>0. R_Size \in Nat
  BY ReleaseAssumption DEF Release!SizeIsNumber
<1>1. CASE Release!Read
  <2>1. /\ R_pc = "idle"
        /\ R_pc' = "pass"
        /\ R_snap' = R_view
        /\ R_st' = R_view
        /\ R_fresh' = R_current
        /\ UNCHANGED <<R_obj, R_view, R_current, R_todo, R_rows, R_room, R_moved, R_lost>>
    BY <1>1 DEF Release!Read, Release!BeginPass, Release!stored, Release!loop,
       Release!history
  <2>2. ~Release!Moved /\ ~Release!Moved'
    BY <2>1, NobodyMoved DEF KnowsTheSoak
  <2>3. QED
    BY <2>1, <2>2 DEF ReleaseTypes, KnowsTheSoak, WithinTheBatch
<1>2. CASE Release!NoImage
  <2>1. /\ R_pc = "pass" /\ R_pc' = "finish" /\ R_st' = [R_st EXCEPT !.phase = "Blocked"]
        /\ UNCHANGED <<R_obj, R_view, R_current, R_snap, R_fresh, R_todo, R_rows, R_room, R_moved, R_lost>>
    BY <1>2 DEF Release!NoImage, Release!GoTo, Release!stored, Release!loop, Release!history
  <2>2. ~Release!Moved /\ ~Release!Moved'
    BY <2>1, NobodyMoved DEF KnowsTheSoak
  <2>3. R_st' \in Release!Objects /\ R_st'.last = R_st.last
    BY <2>1 DEF ReleaseTypes, Release!Objects, Release!Phases
  <2>4. QED
    BY <2>1, <2>2, <2>3 DEF ReleaseTypes, KnowsTheSoak, WithinTheBatch
<1>3. CASE Release!List
  <2>1. /\ R_pc = "pass" /\ R_pc' = "rows" /\ R_room' = IF R_snap.last = "recent" THEN 0 ELSE R_Size
        /\ UNCHANGED <<R_obj, R_view, R_current, R_snap, R_fresh, R_st, R_rows, R_moved, R_lost>>
    BY <1>3 DEF Release!List, Release!BatchRoom, Release!GoTo, Release!stored,
       Release!history
  <2>2. ~Release!Moved /\ ~Release!Moved'
    BY <2>1, NobodyMoved DEF KnowsTheSoak
  <2>3. R_room' \in Nat /\ R_room' <= R_Size
    BY <1>0, <2>1
  <2>4. ReleaseTypes' /\ KnowsTheSoak'
    <3>1. R_todo' = R_Customers /\ R_rows' = Release!NoRows
      BY <1>3, <2>1 DEF Release!List, KnowsTheSoak
    <3>2. QED
      BY <2>1, <2>2, <2>3, <3>1 DEF ReleaseTypes, KnowsTheSoak, Release!NoRows
  <2>5. WithinTheBatch'
    BY <2>1, <2>2, <2>3 DEF WithinTheBatch
  <2>6. QED
    BY <2>4, <2>5
<1>4. CASE Release!Conclude
  <2>1. /\ R_pc = "rows" /\ R_pc' = "finish"
        /\ R_st' = [R_st EXCEPT !.phase = Release!PhaseFound, !.last = IF Release!Moved THEN "recent" ELSE @]
        /\ UNCHANGED <<R_obj, R_view, R_current, R_snap, R_fresh, R_todo, R_rows, R_room, R_moved, R_lost>>
    BY <1>4 DEF Release!Conclude, Release!GoTo, Release!stored, Release!loop,
       Release!history
  <2>2. Release!PhaseFound \in Release!Phases
    BY DEF Release!PhaseFound, Release!Phases
  <2>3. R_st' \in Release!Objects /\ R_st'.last = IF Release!Moved THEN "recent" ELSE R_st.last
    BY <2>1, <2>2 DEF ReleaseTypes, Release!Objects
  <2>4. Release!Moved' = Release!Moved
    BY <2>1 DEF Release!Moved
  <2>5. ReleaseTypes' /\ KnowsTheSoak'
    BY <2>1, <2>3, <2>4 DEF ReleaseTypes, KnowsTheSoak
  <2>6. WithinTheBatch'
    BY <2>1, <2>4 DEF WithinTheBatch
  <2>7. QED
    BY <2>5, <2>6
<1>5. ASSUME NEW c \in R_Customers, Release!Pass(c) \/ Release!MoveFails(c)
      PROVE  ReleaseInv'
  <2>1. /\ R_pc = "rows" /\ c \in R_todo /\ R_todo' = R_todo \ {c}
        /\ UNCHANGED <<R_obj, R_view, R_current, R_pc, R_snap, R_fresh, R_st, R_room, R_moved, R_lost>>
        /\ \E row \in Release!Rows \ {"moved"} : R_rows' = [R_rows EXCEPT ![c] = row]
    BY <1>5 DEF Release!Pass, Release!MoveFails, Release!IsNext, Release!Row,
       Release!runtime, Release!history, Release!Rows
  <2>2. R_rows' \in [R_Customers -> Release!Rows] /\ \A d \in R_todo' : R_rows'[d] = R_rows[d]
    BY <2>1 DEF ReleaseTypes
  <2>3. Release!Moved' = Release!Moved
    BY <2>1 DEF Release!Moved, ReleaseTypes
  <2>4. ReleaseTypes' /\ KnowsTheSoak'
    BY <2>1, <2>2, <2>3 DEF ReleaseTypes, KnowsTheSoak
  <2>5. WithinTheBatch'
    BY <2>1, <2>3 DEF WithinTheBatch
  <2>6. QED
    BY <2>4, <2>5
<1>6. QED
  BY <1>1, <1>2, <1>3, <1>4, <1>5

\* One customer more moves, and there is room for one less.
LEMMA NextMove ==
  ASSUME ReleaseInv, NEW c \in R_Customers, Release!Move(c)
  PROVE  ReleaseInv'
<1> USE DEF ReleaseInv
<1>1. /\ R_pc = "rows"
      /\ c \in R_todo
      /\ R_todo' = R_todo \ {c}
      /\ R_room > 0
      /\ R_room' = R_room - 1
      /\ R_rows' = [R_rows EXCEPT ![c] = "moved"] /\ R_moved' = R_moved \cup {c}
      /\ UNCHANGED <<R_obj, R_view, R_current, R_pc, R_snap, R_fresh, R_st, R_lost>>
  BY DEF Release!Move, Release!IsNext, Release!Row, Release!runtime
<1>2. R_rows' \in [R_Customers -> Release!Rows] /\ Release!Moved' /\ \A d \in R_todo' : R_rows'[d] = R_rows[d]
  BY <1>1 DEF ReleaseTypes, Release!Moved, Release!Rows
<1>3. IsFiniteSet(R_moved') /\ Cardinality(R_moved') <= Cardinality(R_moved) + 1
      /\ Cardinality(R_moved) \in Nat /\ Cardinality(R_moved') \in Nat
  <2>1. IsFiniteSet(R_moved) /\ Cardinality(R_moved) \in Nat
    BY FS_CardinalityType DEF ReleaseTypes
  <2>2. /\ IsFiniteSet(R_moved \cup {c})
        /\ Cardinality(R_moved \cup {c}) = Cardinality(R_moved) \/ Cardinality(R_moved \cup {c}) = Cardinality(R_moved) + 1
    BY <2>1, FS_AddElement
  <2>3. QED
    BY <1>1, <2>1, <2>2
<1>4. ReleaseTypes'
  BY <1>1, <1>2, <1>3 DEF ReleaseTypes
<1>5. KnowsTheSoak'
  BY <1>1, <1>2 DEF KnowsTheSoak, ReleaseTypes
<1>6. WithinTheBatch'
  <2>1. /\ R_room \in Nat /\ Batches(R_lost) \in Nat /\ Batches(R_lost + 1) = Batches(R_lost) + R_Size
        /\ Batches(R_lost + 2) = Batches(R_lost + 1) + R_Size /\ R_Size \in Nat
    BY BatchesAdd DEF ReleaseTypes
  <2>2. /\ Cardinality(R_moved) + R_room <= Batches(R_lost + 2)
        /\ R_obj.last # "recent" => Cardinality(R_moved) + R_room <= Batches(R_lost + 1)
    BY <1>3, <2>1 DEF WithinTheBatch
  <2>3. QED
    BY <1>1, <1>2, <1>3, <2>1, <2>2 DEF WithinTheBatch
<1>7. QED
  BY <1>4, <1>5, <1>6

\* A pass ends: it says that it moved somebody, or that is counted as lost.
LEMMA NextEnds ==
  ASSUME ReleaseInv, Release!Save \/ Release!SaveFails \/ Release!Crash
  PROVE  ReleaseInv'
<1> USE DEF ReleaseInv
<1>0. /\ R_room \in Nat /\ Batches(R_lost) \in Nat /\ Batches(R_lost + 1) = Batches(R_lost) + R_Size
      /\ Batches(R_lost + 2) = Batches(R_lost + 1) + R_Size /\ R_Size \in Nat
      /\ Cardinality(R_moved) \in Nat /\ R_lost \in Nat
  BY BatchesAdd, FS_CardinalityType DEF ReleaseTypes
<1>1. /\ R_pc' = "idle"
      /\ R_todo' = {}
      /\ R_room' = 0
      /\ R_rows' = Release!NoRows
      /\ UNCHANGED R_moved
  BY DEF Release!Save, Release!SaveFails, Release!Crash, Release!Return, Release!EndPass,
     Release!NoLoop, Release!Restart
<1>2. ~Release!Moved'
  BY <1>1, NobodyMoved
<1>3. CASE Release!Save /\ R_st = R_snap /\ UNCHANGED <<Release!stored, R_lost>>
  <2>1. UNCHANGED <<R_obj, R_view, R_current, R_lost>> /\ R_snap' = R_view /\ R_st' = R_view
    BY <1>3 DEF Release!Save, Release!Return, Release!EndPass, Release!stored
  <2>2. ~Release!Moved
    BY <1>3 DEF Release!Save, KnowsTheSoak
  <2>3. ReleaseTypes' /\ KnowsTheSoak'
    BY <1>1, <1>2, <2>1, NobodyMoved DEF ReleaseTypes, KnowsTheSoak
  <2>4. WithinTheBatch'
    BY <1>0, <1>1, <1>2, <2>1, <2>2 DEF WithinTheBatch
  <2>5. QED
    BY <2>3, <2>4
<1>4. CASE Release!Save /\ R_fresh /\ UNCHANGED R_lost /\ Release!Store(R_st, TRUE)
  <2>1. R_obj' = R_st /\ R_current' = FALSE /\ UNCHANGED <<R_view, R_lost>> /\ R_snap' = R_view /\ R_st' = R_view
    BY <1>4 DEF Release!Save, Release!Store, Release!Return, Release!EndPass
  <2>2. R_obj = R_snap /\ R_st.last = (IF Release!Moved THEN "recent" ELSE R_snap.last)
    BY <1>4 DEF Release!Save, KnowsTheSoak
  <2>3. ReleaseTypes' /\ KnowsTheSoak'
    BY <1>1, <1>2, <2>1, NobodyMoved DEF ReleaseTypes, KnowsTheSoak
  <2>4. CASE Release!Moved
    <3>1. R_obj'.last = "recent" /\ R_obj.last # "recent"
      BY <2>1, <2>2, <2>4 DEF KnowsTheSoak
    <3>2. Cardinality(R_moved) + R_room <= Batches(R_lost + 1)
      BY <2>4, <3>1 DEF WithinTheBatch
    <3>3. R_room' <= R_Size /\ Cardinality(R_moved') <= Batches(R_lost' + 1)
      BY <1>0, <1>1, <2>1, <3>2
    <3>4. QED
      BY <1>2, <2>3, <3>1, <3>3 DEF WithinTheBatch
  <2>5. CASE ~Release!Moved
    <3>1. R_obj'.last = R_obj.last
      BY <2>1, <2>2, <2>5
    <3>2. QED
      BY <1>0, <1>1, <1>2, <2>3, <2>1, <2>5, <3>1 DEF WithinTheBatch
  <2>6. QED
    BY <2>4, <2>5
<1>5. CASE Release!Lose /\ ((Release!Save /\ UNCHANGED Release!stored) \/ Release!SaveFails \/ Release!Crash)
  <2>1. /\ UNCHANGED R_obj /\ R_snap' \in Release!Objects /\ R_st' \in Release!Objects
        /\ R_view' \in Release!Objects /\ (R_current' => R_view' = R_obj')
    <3>1. CASE (Release!Save /\ UNCHANGED Release!stored) \/ Release!SaveFails
      <4>1. UNCHANGED Release!stored /\ R_snap' = R_view /\ R_st' = R_view
        BY <3>1 DEF Release!Save, Release!SaveFails, Release!Return, Release!EndPass
      <4>2. QED
        BY <4>1 DEF Release!stored, ReleaseTypes, KnowsTheSoak
    <3>2. CASE Release!Crash
      BY <3>2 DEF Release!Crash, Release!Restart, ReleaseTypes
    <3>3. QED
      BY <1>5, <3>1, <3>2
  <2>2. R_lost' = R_lost + (IF Release!Moved THEN 1 ELSE 0)
    BY <1>5 DEF Release!Lose
  <2>3. ReleaseTypes' /\ KnowsTheSoak'
    BY <1>0, <1>1, <1>2, <2>1, <2>2, NobodyMoved DEF ReleaseTypes, KnowsTheSoak
  <2>4. CASE Release!Moved
    <3>1. R_lost' = R_lost + 1 /\ R_lost' + 1 = R_lost + 2
      BY <1>0, <2>2, <2>4
    <3>2. /\ Cardinality(R_moved) + R_room <= Batches(R_lost + 2)
          /\ R_obj.last # "recent" => Cardinality(R_moved) + R_room <= Batches(R_lost + 1)
      BY <2>4 DEF WithinTheBatch
    <3>3. /\ R_room' <= R_Size /\ Cardinality(R_moved') <= Batches(R_lost' + 1)
          /\ R_obj'.last # "recent" => Cardinality(R_moved') <= Batches(R_lost')
      BY <1>0, <1>1, <2>1, <3>1, <3>2
    <3>4. QED
      BY <1>2, <2>3, <3>3 DEF WithinTheBatch
  <2>5. CASE ~Release!Moved
    <3>1. R_lost' = R_lost
      BY <1>0, <2>2, <2>5
    <3>2. QED
      BY <1>0, <1>1, <1>2, <2>3, <2>1, <2>5, <3>1 DEF WithinTheBatch
  <2>6. QED
    BY <2>4, <2>5
<1>6. QED
  BY <1>3, <1>4, <1>5 DEF Release!Save, Release!SaveFails, Release!Crash

\* The cluster and time: once a soak has passed the count begins again.
LEMMA NextElse ==
  ASSUME ReleaseInv, Release!Others
  PROVE  ReleaseInv'
<1> USE DEF ReleaseInv
<1>1. CASE Release!SoakPasses
  <2>1. /\ R_pc = "idle" /\ R_current /\ R_moved' = {} /\ R_lost' = 0
        /\ R_obj' = Release!Aged(R_obj) /\ R_view' = Release!Aged(R_view) /\ R_snap' = Release!Aged(R_snap) /\ R_st' = Release!Aged(R_st)
        /\ UNCHANGED <<R_pc, R_todo, R_rows, R_room>>
    BY <1>1 DEF Release!SoakPasses, Release!loop
  <2>2. \A o \in Release!Objects : Release!Aged(o) \in Release!Objects
    BY DEF Release!Aged, Release!Objects
  <2>3. ~Release!Moved /\ ~Release!Moved' /\ R_room = 0
    BY <2>1, NobodyMoved DEF KnowsTheSoak
  <2>4. IsFiniteSet(R_moved') /\ Cardinality(R_moved') = 0
    BY <2>1, FS_EmptySet
  <2>5. ReleaseTypes' /\ KnowsTheSoak'
    BY <2>1, <2>2, <2>3, <2>4 DEF ReleaseTypes, KnowsTheSoak
  <2>6. WithinTheBatch'
    <3>1. Batches(R_lost') \in Nat /\ Batches(R_lost' + 1) \in Nat /\ R_Size \in Nat
      BY <2>1, BatchesAdd
    <3>2. QED
      BY <2>1, <2>3, <2>4, <3>1 DEF WithinTheBatch
  <2>7. QED
    BY <2>5, <2>6
<1>2. CASE \/ Release!DeliverObject \/ Release!RequeueLater \/ Release!BuildEnds
           \/ \E c \in R_Customers : Release!DeliverCustomer(c) \/ Release!Rehearse(c)
  <2>1. /\ UNCHANGED <<R_obj, R_pc, R_snap, R_st, R_fresh, R_todo, R_rows, R_room, R_moved, R_lost>>
        /\ R_view' \in Release!Objects /\ (R_current' => R_view' = R_obj')
    BY <1>2 DEF Release!DeliverObject, Release!Deliver, Release!RequeueLater,
       Release!TimerFires, Release!BuildEnds, Release!DeliverCustomer,
                Release!Rehearse, Release!runtime, Release!stored, Release!pass, Release!loop, Release!history, ReleaseTypes, KnowsTheSoak
  <2>2. Release!Moved' = Release!Moved
    BY <2>1 DEF Release!Moved
  <2>3. QED
    BY <2>1, <2>2 DEF ReleaseTypes, KnowsTheSoak, WithinTheBatch
<1>3. QED
  BY <1>1, <1>2 DEF Release!Others

LEMMA NextRelease == ReleaseInv /\ [Release!Next]_(Release!vars) => ReleaseInv'
<1> SUFFICES ASSUME ReleaseInv, [Release!Next]_(Release!vars) PROVE ReleaseInv'
  OBVIOUS
<1>1. CASE UNCHANGED Release!vars
  <2>1. UNCHANGED <<R_obj, R_view, R_current, R_pc, R_snap, R_st, R_fresh, R_todo, R_rows, R_room, R_moved, R_lost>>
    BY <1>1 DEF Release!vars, Release!runtime, Release!loop, Release!history
  <2>2. Release!Moved' = Release!Moved
    BY <2>1 DEF Release!Moved
  <2>3. QED
    BY <2>1, <2>2 DEF ReleaseInv, ReleaseTypes, KnowsTheSoak, WithinTheBatch
<1>2. QED
  BY <1>1, NextLook, NextMove, NextEnds, NextElse DEF Release!Next, Release!Worker

\* OdooRelease is one of the components that take turns.
LEMMA ReleaseRefined == Spec => Release!Init /\ [][Release!Next]_(Release!vars)
<1>1. [Next]_vars => [Release!Next]_(Release!vars)
  BY DEF Next, vars, AccountMoves, AdmissionMoves, QuotaMoves, StampMoves, CopiesMoves,
         LinkMoves, SnapMoves, PagesMoves, FormsMoves, FinalMoves, ReleaseMoves, ButA,
         ButD, ButQ, ButT, ButB, ButL, ButS, ButW, ButG, ButF, R, Release!vars,
         Release!customers, Release!evidence, Release!history, Release!loop,
         Release!runtime
<1>2. Init => Release!Init
  BY DEF Init
<1>3. QED
  BY <1>1, <1>2, PTL DEF Spec

\* The two modules count alike.
LEMMA CountsAlike == \A X : Release!Cardinality(X) = Cardinality(X)
BY DEF Release!Cardinality, Cardinality

LEMMA SoakBetweenPasses == ReleaseInv => Release!BatchesSoak
<1> SUFFICES ASSUME ReleaseInv, R_pc = "idle"
             PROVE  Cardinality(R_moved) <= R_Size * (1 + R_lost)
  BY CountsAlike DEF Release!BatchesSoak
<1>1. ~Release!Moved /\ R_lost \in Nat
  BY NobodyMoved DEF ReleaseInv, ReleaseTypes, KnowsTheSoak
<1>2. Cardinality(R_moved) <= Batches(R_lost + 1)
  BY <1>1 DEF ReleaseInv, WithinTheBatch
<1>3. QED
  BY <1>1, <1>2 DEF Batches

\* Within a soak no more customers move than the batch has, and a batch more for each pass
\* that could not say so, for any number of customers and any size.
THEOREM BatchesAreSoaked == Spec => []BatchesSoak
<1>1. Spec => []ReleaseInv
  BY InitRelease, NextRelease, ReleaseRefined, PTL
<1>2. ReleaseInv => BatchesSoak
  BY SoakBetweenPasses DEF BatchesSoak
<1>3. QED
  BY <1>1, <1>2, PTL

------------------------------------------------------------------------------
(* Backup: what a run removes.                                             *)

\* A report says what was on the volume.
ReportsOf(copies) == [kind: {"nothing", "log", "listing"}, files: SUBSET (copies \cup {B_ByHand})]

Times == SUBSET (0..B_MaxTime)

BackupTypes ==
  /\ B_clock \in 0..B_MaxTime
  /\ B_run \in [at: {"idle", "prune", "copy", "list"}, remove: Times]
  /\ B_run.at \in {"prune", "copy"} => B_clock < B_MaxTime
  /\ B_pass \in [at: {"idle", "commit"}, copies: Times, pending: Times, fresh: BOOLEAN]
  /\ B_status \in [copies: Times, pending: Times] /\ B_template \in Times
  /\ B_ever \in Times /\ IsFiniteSet(B_ever) /\ \A c \in B_ever : c < B_clock
  /\ B_volume \subseteq B_ever \cup {B_ByHand}
  /\ B_pods \in Seq(ReportsOf(B_ever)) /\ B_pods_ \in Seq(ReportsOf(B_ever))
  /\ B_run.at # "idle" => B_pods # <<>>

\* What any policy so far wanted, the cached one included, is no less than the least.
PoliciesWant ==
  /\ B_policy \in [Copies!Rules -> Nat]
  /\ B_policy_ \in [Copies!Rules -> Nat]
  /\ B_least \in [Copies!Rules -> Nat]
  /\ \A r \in Copies!Rules : B_least[r] <= B_policy[r] /\ B_least[r] <= B_policy_[r]

\* The newest copy of each of the newest periods: what every policy so far has wanted.
Vital(r) == Copies!NewestPerPeriod(B_ever, r, B_least[r])

\* What was decided to go: none of it is vital, nor was it when that was decided.
Superseded(gone) == gone \subseteq B_ever /\ \A r \in Copies!Rules : Vital(r) \cap gone = {}

NothingVitalGoes ==
  /\ \A r \in Copies!Rules : Vital(r) \subseteq B_volume
  /\ Superseded(B_template) /\ Superseded(B_run.remove)
  /\ Superseded(B_status.pending) /\ Superseded(B_pass.pending)

\* The newest n periods are n, as long as there are so many.
NewestAreMany ==
  \A r \in Copies!Rules, n \in Nat :
    n <= Cardinality(Copies!PeriodsOf(B_ever, r)) =>
      n <= Cardinality(Copies!PeriodsOf(Copies!NewestPerPeriod(B_ever, r, n), r))

BackupInv == BackupTypes /\ PoliciesWant /\ NothingVitalGoes /\ NewestAreMany

------------------------------------------------------------------------------

\* The module counts as the theorems about finite sets do.
LEMMA CopiesCount == \A X : Copies!Cardinality(X) = Cardinality(X)
BY DEF Copies!Cardinality, Cardinality

LEMMA LeastOfTwo ==
  ASSUME NEW a \in Nat, NEW b \in Nat
  PROVE  Copies!Min({a, b}) = IF a <= b THEN a ELSE b
BY DEF Copies!Min

LEMMA QuotientsGrow ==
  ASSUME NEW p \in Nat \ {0}, NEW a \in Nat, NEW b \in Nat, a <= b
  PROVE  /\ a \div p \in Nat /\ b \div p \in Nat
         /\ a \div p <= b \div p
<1>1. a \div p \in Nat /\ b \div p \in Nat
  OBVIOUS
<1>2. a \div p <= b \div p
  OBVIOUS
<1>3. QED
  BY <1>1, <1>2

\* A later copy is not of an earlier period.
LEMMA PeriodsGrow ==
  ASSUME NEW r \in Copies!Rules, NEW c \in Nat, NEW d \in Nat, c <= d
  PROVE  Copies!Key(r, c) \in Nat /\ Copies!Key(r, d) \in Nat /\ Copies!Key(r, c) <= Copies!Key(r, d)
BY CopiesAssumption, QuotientsGrow DEF Copies!Key, Copies!Rules, Copies!RetentionAssumption

LEMMA PeriodsAreFinite ==
  ASSUME NEW r, NEW copies, IsFiniteSet(copies)
  PROVE  IsFiniteSet(Copies!PeriodsOf(copies, r))
<1> DEFINE key == [c \in copies |-> Copies!Key(r, c)]
<1>1. key \in Surjection(copies, Copies!PeriodsOf(copies, r))
  BY DEF Surjection, Copies!PeriodsOf
<1>2. QED
  BY <1>1, FS_Surjection

\* The periods of the copies after c.
After(copies, r, c) == Copies!PeriodsOf({d \in copies : d > c}, r)

LEMMA NewestIs ==
  ASSUME NEW copies, NEW r, NEW n
  PROVE  Copies!NewestPerPeriod(copies, r, n) =
           {c \in copies : /\ \A d \in copies : d > c => Copies!Key(r, d) # Copies!Key(r, c)
                           /\ Cardinality(After(copies, r, c)) < n}
BY CopiesCount DEF Copies!NewestPerPeriod, After, Copies!PeriodsOf

\* What is wanted of many copies is wanted of fewer, and by whoever wants more.
LEMMA WantedOfFewer ==
  ASSUME NEW r \in Copies!Rules, NEW copies, IsFiniteSet(copies), NEW some \in SUBSET copies,
         NEW n \in Nat, NEW m \in Nat, n <= m
  PROVE  Copies!NewestPerPeriod(copies, r, n) \cap some \subseteq Copies!NewestPerPeriod(some, r, m)
<1> SUFFICES ASSUME NEW c \in some, c \in Copies!NewestPerPeriod(copies, r, n)
             PROVE  c \in Copies!NewestPerPeriod(some, r, m)
  OBVIOUS
<1>1. After(some, r, c) \subseteq After(copies, r, c)
  BY DEF After, Copies!PeriodsOf
<1>2. IsFiniteSet(After(copies, r, c))
  <2>1. IsFiniteSet({d \in copies : d > c})
    BY FS_Subset
  <2>2. QED
    BY <2>1, PeriodsAreFinite DEF After
<1>3. /\ Cardinality(After(some, r, c)) <= Cardinality(After(copies, r, c))
      /\ Cardinality(After(some, r, c)) \in Nat /\ Cardinality(After(copies, r, c)) \in Nat
  BY <1>1, <1>2, FS_Subset, FS_CardinalityType
<1>4. /\ \A d \in copies : d > c => Copies!Key(r, d) # Copies!Key(r, c)
      /\ Cardinality(After(copies, r, c)) < n
  BY NewestIs
<1>5. Cardinality(After(some, r, c)) < m
  BY <1>3, <1>4
<1>6. QED
  BY <1>4, <1>5, NewestIs


\* A copy k is taken, later than all: it is wanted.
LEMMA TheNewestIsWanted ==
  ASSUME NEW r \in Copies!Rules, NEW copies \in SUBSET Nat, NEW k \in Nat, \A c \in copies : c < k,
         NEW n \in Nat \ {0}
  PROVE  k \in Copies!NewestPerPeriod(copies \cup {k}, r, n)
<1> DEFINE more == copies \cup {k}
<1>1. \A d \in more : ~(d > k)
  OBVIOUS
<1>2. After(more, r, k) = {}
  BY <1>1 DEF After, Copies!PeriodsOf
<1>3. Cardinality(After(more, r, k)) = 0
  BY <1>2, FS_EmptySet
<1>4. Cardinality(After(more, r, k)) < n
  BY <1>3
<1>5. QED
  BY <1>1, <1>4, NewestIs

\* Its period is after all the others.
LEMMA ItsPeriodIsAfter ==
  ASSUME NEW r, NEW copies \in SUBSET Nat, NEW k \in Nat, \A c \in copies : c < k,
         NEW c \in copies
  PROVE  After(copies \cup {k}, r, c) = After(copies, r, c) \cup {Copies!Key(r, k)}
<1>1. {d \in copies \cup {k} : d > c} = {d \in copies : d > c} \cup {k}
  OBVIOUS
<1>2. QED
  BY <1>1 DEF After, Copies!PeriodsOf

LEMMA ItsPeriodIsOne ==
  ASSUME NEW r, NEW copies, NEW k
  PROVE  Copies!PeriodsOf(copies \cup {k}, r) = Copies!PeriodsOf(copies, r) \cup {Copies!Key(r, k)}
BY DEF Copies!PeriodsOf

LEMMA AtMostOneMore ==
  ASSUME NEW X, IsFiniteSet(X), NEW x
  PROVE  /\ Cardinality(X) \in Nat /\ Cardinality(X \cup {x}) \in Nat
         /\ Cardinality(X \cup {x}) <= Cardinality(X) + 1
<1>1. Cardinality(X) \in Nat
  BY FS_CardinalityType
<1>2. Cardinality(X \cup {x}) = IF x \in X THEN Cardinality(X) ELSE Cardinality(X) + 1
  BY FS_AddElement
<1>3. QED
  BY <1>1, <1>2

\* It is of a period that had a copy: no period is wanted less.
LEMMA OneMoreOfAPeriod ==
  ASSUME NEW r \in Copies!Rules, NEW copies \in SUBSET Nat, NEW k \in Nat, \A c \in copies : c < k,
         NEW n \in Nat \ {0}, Copies!Key(r, k) \in Copies!PeriodsOf(copies, r)
  PROVE  Copies!PeriodsOf(Copies!NewestPerPeriod(copies, r, n), r)
           \subseteq Copies!PeriodsOf(Copies!NewestPerPeriod(copies \cup {k}, r, n), r)
<1> DEFINE more == copies \cup {k}
<1> SUFFICES ASSUME NEW c \in Copies!NewestPerPeriod(copies, r, n)
             PROVE  Copies!Key(r, c) \in Copies!PeriodsOf(Copies!NewestPerPeriod(more, r, n), r)
  BY DEF Copies!PeriodsOf
<1>1. /\ c \in copies
      /\ \A d \in copies : d > c => Copies!Key(r, d) # Copies!Key(r, c)
      /\ Cardinality(After(copies, r, c)) < n
  BY NewestIs
<1>2. CASE Copies!Key(r, c) = Copies!Key(r, k)
  BY <1>1, <1>2, TheNewestIsWanted DEF Copies!PeriodsOf
<1>3. CASE Copies!Key(r, c) # Copies!Key(r, k)
  <2>1. PICK d \in copies : Copies!Key(r, d) = Copies!Key(r, k)
    BY DEF Copies!PeriodsOf
  <2>2. Copies!Key(r, c) <= Copies!Key(r, k) /\ Copies!Key(r, c) \in Nat /\ Copies!Key(r, k) \in Nat
    BY <1>1, PeriodsGrow
  <2>3. d <= c => Copies!Key(r, d) <= Copies!Key(r, c)
    BY <1>1, PeriodsGrow
  <2>4. ~(Copies!Key(r, k) <= Copies!Key(r, c))
    BY <2>2, <1>3
  <2>5. d > c
    BY <1>1, <2>1, <2>3, <2>4
  <2>6. Copies!Key(r, k) \in After(copies, r, c)
    BY <2>1, <2>5 DEF After, Copies!PeriodsOf
  <2>7. After(more, r, c) = After(copies, r, c)
    <3>1. After(more, r, c) = After(copies, r, c) \cup {Copies!Key(r, k)}
      BY <1>1, ItsPeriodIsAfter
    <3>2. QED
      BY <2>6, <3>1
  <2>8. \A e \in more : e > c => Copies!Key(r, e) # Copies!Key(r, c)
    BY <1>1, <1>3
  <2>9. c \in Copies!NewestPerPeriod(more, r, n)
    BY <1>1, <2>7, <2>8, NewestIs
  <2>10. QED
    BY <2>9 DEF Copies!PeriodsOf
<1>4. QED
  BY <1>2, <1>3

\* It is the first of its period: what one period fewer wanted is still wanted.
LEMMA OneMorePeriod ==
  ASSUME NEW r \in Copies!Rules, NEW copies \in SUBSET Nat, IsFiniteSet(copies),
         NEW k \in Nat, \A c \in copies : c < k,
         NEW n \in Nat \ {0}, Copies!Key(r, k) \notin Copies!PeriodsOf(copies, r)
  PROVE  Copies!PeriodsOf(Copies!NewestPerPeriod(copies, r, n - 1), r) \cup {Copies!Key(r, k)}
           \subseteq Copies!PeriodsOf(Copies!NewestPerPeriod(copies \cup {k}, r, n), r)
<1> DEFINE more == copies \cup {k}
<1>1. ASSUME NEW c \in Copies!NewestPerPeriod(copies, r, n - 1)
      PROVE  c \in Copies!NewestPerPeriod(more, r, n)
  <2>1. /\ c \in copies
        /\ \A d \in copies : d > c => Copies!Key(r, d) # Copies!Key(r, c)
        /\ Cardinality(After(copies, r, c)) < n - 1
    BY NewestIs
  <2>2. After(more, r, c) = After(copies, r, c) \cup {Copies!Key(r, k)}
    BY <2>1, ItsPeriodIsAfter
  <2>3. IsFiniteSet(After(copies, r, c))
    <3>1. IsFiniteSet({d \in copies : d > c})
      BY FS_Subset
    <3>2. QED
      BY <3>1, PeriodsAreFinite DEF After
  <2>4. /\ Cardinality(After(more, r, c)) <= Cardinality(After(copies, r, c)) + 1
        /\ Cardinality(After(more, r, c)) \in Nat /\ Cardinality(After(copies, r, c)) \in Nat
    BY <2>2, <2>3, AtMostOneMore
  <2>5. Cardinality(After(more, r, c)) < n
    BY <2>1, <2>4
  <2>6. Copies!Key(r, c) # Copies!Key(r, k)
    BY <2>1 DEF Copies!PeriodsOf
  <2>7. \A d \in more : d > c => Copies!Key(r, d) # Copies!Key(r, c)
    BY <2>1, <2>6
  <2>8. QED
    BY <2>1, <2>5, <2>7, NewestIs
<1>2. k \in Copies!NewestPerPeriod(more, r, n)
  BY TheNewestIsWanted
<1>3. QED
  BY <1>1, <1>2 DEF Copies!PeriodsOf

LEMMA WantedAreCopies ==
  ASSUME NEW copies, NEW r, NEW n
  PROVE  Copies!NewestPerPeriod(copies, r, n) \subseteq copies
BY NewestIs

\* The newest n periods of one copy more are n, if those of the copies were.
LEMMA StillAreMany ==
  ASSUME NEW r \in Copies!Rules, NEW copies \in SUBSET Nat, IsFiniteSet(copies),
         NEW k \in Nat, \A c \in copies : c < k,
         \A n \in Nat : n <= Cardinality(Copies!PeriodsOf(copies, r)) =>
           n <= Cardinality(Copies!PeriodsOf(Copies!NewestPerPeriod(copies, r, n), r)),
         NEW n \in Nat, n <= Cardinality(Copies!PeriodsOf(copies \cup {k}, r))
  PROVE  n <= Cardinality(Copies!PeriodsOf(Copies!NewestPerPeriod(copies \cup {k}, r, n), r))
<1> DEFINE more == copies \cup {k}
           wanted == Copies!PeriodsOf(Copies!NewestPerPeriod(more, r, n), r)
           before(m) == Copies!PeriodsOf(Copies!NewestPerPeriod(copies, r, m), r)
<1>1. IsFiniteSet(more)
  BY FS_AddElement
<1>2. IsFiniteSet(wanted) /\ Cardinality(wanted) \in Nat
  BY <1>1, WantedAreCopies, FS_Subset, PeriodsAreFinite, FS_CardinalityType
<1>3. \A m : IsFiniteSet(before(m)) /\ Cardinality(before(m)) \in Nat
  BY WantedAreCopies, FS_Subset, PeriodsAreFinite, FS_CardinalityType
<1>4. IsFiniteSet(Copies!PeriodsOf(copies, r)) /\ Cardinality(Copies!PeriodsOf(copies, r)) \in Nat
  BY PeriodsAreFinite, FS_CardinalityType
<1>5. CASE n = 0
  BY <1>2, <1>5
<1>6. CASE n # 0 /\ Copies!Key(r, k) \in Copies!PeriodsOf(copies, r)
  <2>1. n \in Nat \ {0}
    BY <1>6
  <2>2. Copies!PeriodsOf(more, r) = Copies!PeriodsOf(copies, r)
    BY <1>6, ItsPeriodIsOne
  <2>3. n <= Cardinality(before(n))
    BY <2>2
  <2>4. before(n) \subseteq wanted
    BY <1>6, <2>1, OneMoreOfAPeriod
  <2>5. Cardinality(before(n)) <= Cardinality(wanted)
    BY <1>2, <2>4, FS_Subset
  <2>6. QED
    BY <1>2, <1>3, <2>3, <2>5
<1>7. CASE n # 0 /\ Copies!Key(r, k) \notin Copies!PeriodsOf(copies, r)
  <2>1. n \in Nat \ {0} /\ n - 1 \in Nat
    BY <1>7
  <2>2. Copies!PeriodsOf(more, r) = Copies!PeriodsOf(copies, r) \cup {Copies!Key(r, k)}
    BY ItsPeriodIsOne
  <2>3. Cardinality(Copies!PeriodsOf(more, r)) = Cardinality(Copies!PeriodsOf(copies, r)) + 1
    BY <1>4, <1>7, <2>2, FS_AddElement
  <2>4. n - 1 <= Cardinality(Copies!PeriodsOf(copies, r))
    BY <1>4, <2>3
  <2>5. n - 1 <= Cardinality(before(n - 1))
    BY <2>1, <2>4
  <2>6. before(n - 1) \cup {Copies!Key(r, k)} \subseteq wanted
    BY <1>7, <2>1, OneMorePeriod
  <2>7. Copies!Key(r, k) \notin before(n - 1)
    BY <1>7, WantedAreCopies DEF Copies!PeriodsOf
  <2>8. Cardinality(before(n - 1) \cup {Copies!Key(r, k)}) = Cardinality(before(n - 1)) + 1
    BY <1>3, <2>7, FS_AddElement
  <2>9. Cardinality(before(n - 1) \cup {Copies!Key(r, k)}) <= Cardinality(wanted)
    BY <1>2, <2>6, FS_Subset
  <2>10. QED
    BY <1>2, <1>3, <2>5, <2>8, <2>9
<1>8. QED
  BY <1>5, <1>6, <1>7


------------------------------------------------------------------------------

\* The reports that are kept, with a new one first.
LEMMA ReportsAreKept ==
  ASSUME NEW Reports, NEW s \in Seq(Reports), NEW x \in Reports, NEW n \in Nat \ {0}
  PROVE  /\ SubSeq(<<x>> \o s, 1, Copies!Min({n, Len(s) + 1})) \in Seq(Reports) \ {<<>>}
         /\ s # <<>> => SubSeq(<<x>> \o Tail(s), 1, Copies!Min({n, Len(s)})) \in Seq(Reports) \ {<<>>}
<1>1. ASSUME NEW t \in Seq(Reports), NEW m \in 1..Len(t)
      PROVE  SubSeq(t, 1, m) \in Seq(Reports) \ {<<>>}
  <2>1. SubSeq(t, 1, m) \in Seq(Reports) /\ Len(SubSeq(t, 1, m)) = m
    OBVIOUS
  <2>2. QED
    BY <2>1
<1>2. Copies!Min({n, Len(s) + 1}) \in 1..Len(<<x>> \o s)
  <2>1. Len(<<x>> \o s) = Len(s) + 1 /\ Len(s) \in Nat
    OBVIOUS
  <2>2. Copies!Min({n, Len(s) + 1}) = IF n <= Len(s) + 1 THEN n ELSE Len(s) + 1
    BY <2>1, LeastOfTwo
  <2>3. QED
    BY <2>1, <2>2
<1>3. s # <<>> => Copies!Min({n, Len(s)}) \in 1..Len(<<x>> \o Tail(s))
  <2>1. HAVE s # <<>>
  <2>2. Len(s) \in Nat \ {0} /\ Len(Tail(s)) = Len(s) - 1 /\ Tail(s) \in Seq(Reports)
    BY <2>1
  <2>3. Len(<<x>> \o Tail(s)) = Len(s)
    BY <2>2
  <2>4. Copies!Min({n, Len(s)}) = IF n <= Len(s) THEN n ELSE Len(s)
    BY <2>2, LeastOfTwo
  <2>5. QED
    BY <2>2, <2>3, <2>4
<1>4. <<x>> \o s \in Seq(Reports) /\ (s # <<>> => <<x>> \o Tail(s) \in Seq(Reports))
  OBVIOUS
<1>5. QED
  BY <1>1, <1>2, <1>3, <1>4

LEMMA InitBackup == Copies!Init => BackupInv
<1> SUFFICES ASSUME Copies!Init PROVE BackupInv
  OBVIOUS
<1>1. /\ B_policy \in [Copies!Rules -> Nat] /\ B_policy_ = B_policy /\ B_least = B_policy
      /\ B_MaxTime \in Nat
  BY CopiesAssumption DEF Copies!Init, Copies!Rules, Copies!RetentionAssumption
<1>2. B_ever = {} /\ IsFiniteSet(B_ever) /\ B_volume \subseteq {B_ByHand}
  BY FS_EmptySet DEF Copies!Init
<1>3. BackupTypes
  BY <1>1, <1>2 DEF Copies!Init, BackupTypes, Copies!NoRun, Copies!NoPass, Times
<1>4. PoliciesWant
  BY <1>1 DEF PoliciesWant
<1>5. \A r, n : Copies!NewestPerPeriod(B_ever, r, n) = {} /\ Copies!PeriodsOf({}, r) = {}
  BY <1>2, WantedAreCopies DEF Copies!PeriodsOf
<1>6. NothingVitalGoes
  BY <1>2, <1>5 DEF Copies!Init, NothingVitalGoes, Superseded, Vital, Copies!NoRun,
     Copies!NoPass
<1>7. NewestAreMany
  BY <1>2, <1>5 DEF NewestAreMany
<1>8. QED
  BY <1>3, <1>4, <1>6, <1>7 DEF BackupInv

\* What a pass decides from any report, under the policy the cache shows, is superseded:
\* the report lists copies, and of fewer copies more is wanted.
LEMMA DecidedIsSuperseded ==
  ASSUME BackupInv, NEW listing \in SUBSET B_ever
  PROVE  Superseded(listing \ Copies!Retain(listing, B_policy_))
<1>1. /\ IsFiniteSet(B_ever)
      /\ \A r \in Copies!Rules : B_least[r] \in Nat /\ B_policy_[r] \in Nat /\ B_least[r] <= B_policy_[r]
  BY DEF BackupInv, BackupTypes, PoliciesWant
<1>2. \A r \in Copies!Rules : Vital(r) \cap listing \subseteq Copies!NewestPerPeriod(listing, r, B_policy_[r])
  BY <1>1, WantedOfFewer DEF Vital
<1>3. \A r \in Copies!Rules : Vital(r) \cap listing \subseteq Copies!Retain(listing, B_policy_)
  BY <1>2 DEF Copies!Retain
<1>4. QED
  BY <1>3 DEF Superseded

LEMMA NextDecision ==
  ASSUME BackupInv, Copies!Decide \/ Copies!Commit \/ Copies!PassFails
  PROVE  BackupInv'
<1>1. UNCHANGED <<B_clock, B_volume, B_run, B_pods, B_pods_, B_policy, B_policy_, B_ever, B_least>>
  BY DEF Copies!Decide, Copies!Commit, Copies!PassFails, Copies!cluster, Copies!caches,
     Copies!history
<1>2. PoliciesWant' /\ NewestAreMany'
  BY <1>1 DEF BackupInv, PoliciesWant, NewestAreMany
<1>3. \A gone : Superseded(gone)' = Superseded(gone)
  BY <1>1 DEF Superseded, Vital
<1>4. /\ B_template' \in Times /\ Superseded(B_template')
      /\ B_pass' \in [at: {"idle", "commit"}, copies: Times, pending: Times, fresh: BOOLEAN]
      /\ Superseded(B_pass'.pending)
      /\ B_status' \in [copies: Times, pending: Times] /\ Superseded(B_status'.pending)
  <2>1. /\ Superseded({}) /\ Copies!NoPass.pending = {}
        /\ Copies!NoPass \in [at: {"idle", "commit"}, copies: Times, pending: Times, fresh: BOOLEAN]
    BY DEF Superseded, Copies!NoPass, Times
  <2>2. CASE Copies!Commit \/ Copies!PassFails
    <3>1. B_pass' = Copies!NoPass /\ B_template' = B_template
      BY <2>2 DEF Copies!Commit, Copies!PassFails
    <3>2. B_status' = B_status \/ B_status' = [copies |-> B_pass.copies, pending |-> B_pass.pending]
      BY <2>2 DEF Copies!Commit, Copies!PassFails
    <3>3. B_status' \in [copies: Times, pending: Times] /\ Superseded(B_status'.pending)
      BY <3>2 DEF BackupInv, BackupTypes, NothingVitalGoes
    <3>4. Superseded(B_template) /\ B_template \in Times
      BY DEF BackupInv, BackupTypes, NothingVitalGoes
    <3>5. QED
      BY <2>1, <3>1, <3>3, <3>4
  <2>3. CASE Copies!Decide
    <3>1. PICK keep \in Times, drop \in Times : Superseded(drop) /\ Copies!Decided(keep, drop)
      <4>1. CASE Copies!Decided(B_status.copies, B_status.pending)
        <5>1. B_status.copies \in Times /\ B_status.pending \in Times /\ Superseded(B_status.pending)
          BY DEF BackupInv, BackupTypes, NothingVitalGoes
        <5>2. QED
          BY <4>1, <5>1
      <4>2. ASSUME NEW i \in DOMAIN B_pods_,
                   LET listing == Copies!Dated(B_pods_[i].files)
                       keep == Copies!Retain(listing, B_policy_)
                   IN Copies!Decided(keep, listing \ keep)
            PROVE  \E keep \in Times, drop \in Times : Superseded(drop) /\ Copies!Decided(keep, drop)
        <5> DEFINE listing == Copies!Dated(B_pods_[i].files)
                   kept == Copies!Retain(listing, B_policy_)
        <5>1. B_pods_[i] \in ReportsOf(B_ever) /\ B_ever \in Times
          BY DEF BackupInv, BackupTypes
        <5>2. listing \subseteq B_ever /\ listing \in Times
          BY <5>1 DEF Copies!Dated, ReportsOf, Times
        <5>3. kept \subseteq listing
          BY WantedAreCopies DEF Copies!Retain
        <5>4. Superseded(listing \ kept)
          BY <5>2, DecidedIsSuperseded
        <5>5. kept \in Times /\ listing \ kept \in Times
          BY <5>2, <5>3 DEF Times
        <5>6. Copies!Decided(kept, listing \ kept)
          BY <4>2
        <5>7. QED
          BY <5>4, <5>5, <5>6
      <4>3. QED
        BY <2>3, <4>1, <4>2 DEF Copies!Decide
    <3>2. B_status' = B_status /\ B_template' = drop
      BY <2>3, <3>1 DEF Copies!Decide, Copies!Decided
    <3>3. /\ B_pass' = [at |-> "commit", copies |-> keep, pending |-> drop,
                      fresh |-> B_policy_ = B_policy]
      BY <3>1 DEF Copies!Decided
    <3>4. /\ B_pass' \in [at: {"idle", "commit"}, copies: Times, pending: Times, fresh: BOOLEAN]
          /\ B_pass'.pending = drop
      BY <3>3
    <3>5. B_status \in [copies: Times, pending: Times] /\ Superseded(B_status.pending)
      BY DEF BackupInv, BackupTypes, NothingVitalGoes
    <3>6. QED
      BY <3>1, <3>2, <3>4, <3>5
  <2>4. QED
    BY <2>2, <2>3
<1>5. BackupTypes'
  BY <1>1, <1>4 DEF BackupInv, BackupTypes, Times
<1>6. NothingVitalGoes'
  BY <1>1, <1>3, <1>4 DEF BackupInv, NothingVitalGoes, Vital
<1>7. QED
  BY <1>2, <1>5, <1>6 DEF BackupInv

LEMMA NextRun ==
  ASSUME BackupInv, Copies!Start \/ Copies!Prune \/ Copies!List \/ Copies!RunFails
  PROVE  BackupInv'
<1>1. UNCHANGED <<B_pods_, B_policy, B_policy_, B_status, B_template, B_pass, B_ever, B_least>>
  BY DEF Copies!Start, Copies!Prune, Copies!List, Copies!RunFails, Copies!Operator,
     Copies!caches, Copies!history
<1>2. PoliciesWant' /\ NewestAreMany'
  BY <1>1 DEF BackupInv, PoliciesWant, NewestAreMany
<1>3. \A gone : Superseded(gone)' = Superseded(gone)
  BY <1>1 DEF Superseded, Vital
<1>4. /\ B_run' \in [at: {"idle", "prune", "copy", "list"}, remove: Times]
      /\ Superseded(B_run'.remove)
  BY DEF BackupInv, BackupTypes, NothingVitalGoes, Copies!Start, Copies!Prune, Copies!List,
     Copies!RunFails, Copies!NoRun,
         Superseded, Times
<1>5. /\ B_volume' \subseteq B_ever \cup {B_ByHand}
      /\ \A r \in Copies!Rules : Vital(r) \subseteq B_volume'
  BY DEF BackupInv, BackupTypes, NothingVitalGoes, Copies!Start, Copies!Prune, Copies!List,
     Copies!RunFails, Superseded
<1>6. /\ B_clock' \in 0..B_MaxTime /\ B_clock <= B_clock'
      /\ B_run'.at \in {"prune", "copy"} => B_clock' < B_MaxTime
  BY CopiesAssumption
  DEF BackupInv, BackupTypes, Copies!Start, Copies!Prune, Copies!List, Copies!RunFails, Copies!NoRun, Copies!RetentionAssumption
<1>7. B_pods' \in Seq(ReportsOf(B_ever)) /\ (B_run'.at # "idle" => B_pods' # <<>>)
  <2>1. B_History \in Nat \ {0} /\ B_pods \in Seq(ReportsOf(B_ever))
    BY CopiesAssumption DEF BackupInv, BackupTypes, Copies!RetentionAssumption
  <2>2. \A files \in SUBSET (B_ever \cup {B_ByHand}) :
          /\ Copies!Report("nothing", files) \in ReportsOf(B_ever)
          /\ Copies!Report("log", files) \in ReportsOf(B_ever)
          /\ Copies!Report("listing", files) \in ReportsOf(B_ever)
    BY DEF Copies!Report, ReportsOf
  <2>3. CASE Copies!Start
    <3>1. B_pods' = SubSeq(<<Copies!Report("nothing", {})>> \o B_pods, 1, Copies!Min({B_History, Len(B_pods) + 1}))
      BY <2>3 DEF Copies!Start
    <3>2. QED
      BY <2>1, <2>2, <3>1, ReportsAreKept
  <2>4. ASSUME NEW report \in ReportsOf(B_ever), Copies!Reported(report), B_run.at # "idle", B_run' = Copies!NoRun
        PROVE  B_pods' \in Seq(ReportsOf(B_ever)) \ {<<>>}
    <3>1. B_pods # <<>>
      BY <2>4 DEF BackupInv, BackupTypes
    <3>2. QED
      BY <2>1, <2>4, <3>1, ReportsAreKept DEF Copies!Reported, Copies!NoRun
  <2>5. CASE Copies!Prune
    BY <2>5 DEF Copies!Prune, BackupInv, BackupTypes
  <2>6. CASE Copies!List
    <3>1. B_volume \in SUBSET (B_ever \cup {B_ByHand})
      BY DEF BackupInv, BackupTypes
    <3>2. PICK report \in ReportsOf(B_ever) : Copies!Reported(report)
      BY <2>2, <2>6, <3>1 DEF Copies!List
    <3>3. QED
      BY <2>4, <2>6, <3>2 DEF Copies!List, Copies!NoRun
  <2>7. CASE Copies!RunFails
    BY <2>1, <2>2, <2>4, <2>7 DEF Copies!RunFails, Copies!NoRun
  <2>8. QED
    BY <2>3, <2>5, <2>6, <2>7
<1>8. BackupTypes'
  BY <1>1, <1>4, <1>5, <1>6, <1>7 DEF BackupInv, BackupTypes, Times
<1>9. NothingVitalGoes'
  BY <1>1, <1>3, <1>4, <1>5 DEF BackupInv, NothingVitalGoes, Vital
<1>10. QED
  BY <1>2, <1>8, <1>9 DEF BackupInv

\* Another copy: nothing becomes vital by it but itself.
LEMMA NextCopy ==
  ASSUME BackupInv, Copies!Copy
  PROVE  BackupInv'
<1>1. /\ UNCHANGED <<B_pods, B_pods_, B_policy, B_policy_, B_status, B_template, B_pass, B_least>>
      /\ B_run.at = "copy" /\ B_run' = [B_run EXCEPT !.at = "list"]
      /\ B_volume' = B_volume \cup {B_clock}
      /\ B_ever' = B_ever \cup {B_clock}
      /\ B_clock' = B_clock + 1
  BY DEF Copies!Copy, Copies!Operator, Copies!caches
<1>2. /\ B_ever \in SUBSET Nat /\ IsFiniteSet(B_ever) /\ B_clock \in Nat /\ \A c \in B_ever : c < B_clock
      /\ B_clock < B_MaxTime /\ B_MaxTime \in Nat
  BY <1>1, CopiesAssumption DEF BackupInv, BackupTypes, Copies!RetentionAssumption, Times
<1>3. ReportsOf(B_ever) \subseteq ReportsOf(B_ever')
  BY <1>1 DEF ReportsOf
<1>4. BackupTypes'
  <2>1. /\ B_ever' \in Times /\ IsFiniteSet(B_ever') /\ \A c \in B_ever' : c < B_clock'
        /\ B_clock' \in 0..B_MaxTime /\ B_volume' \subseteq B_ever' \cup {B_ByHand}
    <3>1. IsFiniteSet(B_ever')
      BY <1>1, <1>2, FS_AddElement
    <3>2. QED
      BY <1>1, <1>2, <3>1 DEF BackupInv, BackupTypes, Times
  <2>2. /\ B_pods' \in Seq(ReportsOf(B_ever')) /\ B_pods_' \in Seq(ReportsOf(B_ever'))
        /\ B_pods' # <<>>
    <3>1. ASSUME NEW some, NEW more, some \subseteq more, NEW s \in Seq(some)
          PROVE  s \in Seq(more)
      BY <3>1
    <3>2. /\ B_pods \in Seq(ReportsOf(B_ever)) /\ B_pods_ \in Seq(ReportsOf(B_ever))
          /\ B_pods # <<>>
      BY <1>1 DEF BackupInv, BackupTypes
    <3>3. QED
      BY <1>1, <1>3, <3>1, <3>2
  <2>3. QED
    BY <1>1, <2>1, <2>2 DEF BackupInv, BackupTypes, Times
<1>5. PoliciesWant'
  BY <1>1 DEF BackupInv, PoliciesWant
<1>6. \A r \in Copies!Rules : Vital(r)' \subseteq Vital(r) \cup {B_clock}
  <2>1. TAKE r \in Copies!Rules
  <2>2. B_least[r] \in Nat /\ B_least[r] <= B_least[r] /\ IsFiniteSet(B_ever \cup {B_clock})
    BY <1>2, FS_AddElement DEF BackupInv, PoliciesWant
  <2>3. Copies!NewestPerPeriod(B_ever \cup {B_clock}, r, B_least[r]) \cap B_ever
          \subseteq Copies!NewestPerPeriod(B_ever, r, B_least[r])
    BY <2>2, WantedOfFewer
  <2>4. Vital(r)' = Copies!NewestPerPeriod(B_ever \cup {B_clock}, r, B_least[r])
    BY <1>1 DEF Vital
  <2>5. Vital(r)' \subseteq B_ever'
    BY <1>1, <2>4, WantedAreCopies
  <2>6. QED
    BY <1>1, <2>3, <2>4, <2>5 DEF Vital
<1>7. \A gone : Superseded(gone) => Superseded(gone)'
  BY <1>1, <1>2, <1>6 DEF Superseded
<1>8. NothingVitalGoes'
  BY <1>1, <1>6, <1>7 DEF BackupInv, BackupTypes, NothingVitalGoes
<1>9. NewestAreMany'
  <2>1. SUFFICES ASSUME NEW r \in Copies!Rules, NEW n \in Nat,
                        n <= Cardinality(Copies!PeriodsOf(B_ever \cup {B_clock}, r))
                 PROVE  n <= Cardinality(Copies!PeriodsOf(Copies!NewestPerPeriod(B_ever \cup {B_clock}, r, n), r))
    BY <1>1 DEF NewestAreMany
  <2>2. QED
    BY <1>2, <2>1, StillAreMany DEF BackupInv, NewestAreMany
<1>10. QED
  BY <1>4, <1>5, <1>8, <1>9 DEF BackupInv

\* Other policies: less is vital when less is wanted.
LEMMA NextPolicy ==
  ASSUME BackupInv,
         \/ Copies!DeliverPods \/ Copies!DeliverPolicy
         \/ \E p \in B_Policies : Copies!Edit(p)
  PROVE  BackupInv'
<1>1. UNCHANGED <<B_clock, B_volume, B_run, B_pods, B_status, B_template, B_ever>>
  BY DEF Copies!DeliverPods, Copies!DeliverPolicy, Copies!Edit, Copies!cluster,
     Copies!history
<1>2. NewestAreMany'
  BY <1>1 DEF BackupInv, NewestAreMany
<1>3. B_pods_' \in Seq(ReportsOf(B_ever))
  BY DEF Copies!DeliverPods, Copies!DeliverPolicy, Copies!Edit, Copies!caches, BackupInv,
     BackupTypes
<1>4. /\ B_pass' \in [at: {"idle", "commit"}, copies: Times, pending: Times, fresh: BOOLEAN]
      /\ B_pass'.pending = B_pass.pending
  BY DEF Copies!DeliverPods, Copies!DeliverPolicy, Copies!Edit, BackupInv, BackupTypes
<1>5. PoliciesWant' /\ \A r \in Copies!Rules : B_least'[r] \in Nat /\ B_least'[r] <= B_least[r]
  <2>1. CASE Copies!DeliverPods \/ Copies!DeliverPolicy
    BY <2>1 DEF Copies!DeliverPods, Copies!DeliverPolicy, Copies!history, BackupInv,
       PoliciesWant
  <2>2. CASE \E p \in B_Policies : Copies!Edit(p)
    <3>0. PICK p \in B_Policies : Copies!Edit(p)
      BY <2>2
    <3>1. /\ p \in [Copies!Rules -> Nat] /\ B_policy' = p /\ B_policy_' = B_policy_
          /\ B_least' = [r \in Copies!Rules |-> Copies!Min({B_least[r], p[r]})]
      BY <3>0, CopiesAssumption DEF Copies!Edit, Copies!caches, Copies!Rules,
         Copies!RetentionAssumption
    <3>2. \A r \in Copies!Rules : /\ B_least[r] \in Nat /\ p[r] \in Nat /\ B_policy_[r] \in Nat
                                  /\ B_least[r] <= B_policy_[r]
      BY <3>1 DEF BackupInv, PoliciesWant
    <3>3. \A r \in Copies!Rules : B_least'[r] = IF B_least[r] <= p[r] THEN B_least[r] ELSE p[r]
      BY <3>1, <3>2, LeastOfTwo
    <3>4. \A r \in Copies!Rules : /\ B_least'[r] \in Nat /\ B_least'[r] <= B_least[r]
                                  /\ B_least'[r] <= p[r] /\ B_least'[r] <= B_policy_[r]
      BY <3>2, <3>3
    <3>5. B_least' \in [Copies!Rules -> Nat]
      BY <3>1, <3>4
    <3>6. QED
      BY <3>1, <3>4, <3>5 DEF BackupInv, PoliciesWant
  <2>3. QED
    BY <2>1, <2>2
<1>6. \A r \in Copies!Rules : Vital(r)' \subseteq Vital(r)
  <2>1. TAKE r \in Copies!Rules
  <2>2. /\ B_least[r] \in Nat /\ B_least'[r] \in Nat /\ B_least'[r] <= B_least[r]
        /\ IsFiniteSet(B_ever)
    BY <1>5 DEF BackupInv, BackupTypes, PoliciesWant
  <2>3. Copies!NewestPerPeriod(B_ever, r, B_least'[r]) \cap B_ever \subseteq Copies!NewestPerPeriod(B_ever, r, B_least[r])
    BY <2>2, WantedOfFewer
  <2>4. Vital(r)' = Copies!NewestPerPeriod(B_ever, r, B_least'[r])
    BY <1>1 DEF Vital
  <2>5. Vital(r)' \subseteq B_ever
    BY <2>4, WantedAreCopies
  <2>6. QED
    BY <2>3, <2>4, <2>5 DEF Vital
<1>7. \A gone : Superseded(gone) => Superseded(gone)'
  BY <1>1, <1>6 DEF Superseded
<1>8. BackupTypes'
  BY <1>1, <1>3, <1>4 DEF BackupInv, BackupTypes, Times
<1>9. NothingVitalGoes'
  BY <1>1, <1>4, <1>6, <1>7 DEF BackupInv, NothingVitalGoes
<1>10. QED
  BY <1>2, <1>5, <1>8, <1>9 DEF BackupInv

LEMMA NextBackup == BackupInv /\ [Copies!Next]_(Copies!vars) => BackupInv'
<1> SUFFICES ASSUME BackupInv, [Copies!Next]_(Copies!vars) PROVE BackupInv'
  OBVIOUS
<1>1. CASE UNCHANGED Copies!vars
  BY <1>1 DEF Copies!vars, Copies!cluster, Copies!caches, Copies!history, BackupInv,
     BackupTypes, PoliciesWant,
              NothingVitalGoes, NewestAreMany, Superseded, Vital, Times, ReportsOf
<1>2. QED
  BY <1>1, NextDecision, NextRun, NextCopy, NextPolicy DEF Copies!Next

\* The vital copies are on the volume, and of as many periods as there should be.
LEMMA VitalAreEnough == BackupInv => Copies!RetentionKeeps
<1> SUFFICES ASSUME BackupInv, NEW r \in Copies!Rules
             PROVE  Cardinality(Copies!PeriodsOf(Copies!Dated(B_volume), r))
                      >= Copies!Min({B_least[r], Cardinality(Copies!PeriodsOf(B_ever, r))})
  BY CopiesCount DEF Copies!RetentionKeeps
<1> DEFINE had == Cardinality(Copies!PeriodsOf(B_ever, r))
           n == Copies!Min({B_least[r], had})
<1>1. IsFiniteSet(B_ever) /\ B_least[r] \in Nat
  BY DEF BackupInv, BackupTypes, PoliciesWant
<1>2. had \in Nat
  BY <1>1, PeriodsAreFinite, FS_CardinalityType
<1>3. n = IF B_least[r] <= had THEN B_least[r] ELSE had
  BY <1>1, <1>2, LeastOfTwo
<1>4. n \in Nat /\ n <= B_least[r] /\ n <= had
  BY <1>1, <1>2, <1>3
<1>5. n <= Cardinality(Copies!PeriodsOf(Copies!NewestPerPeriod(B_ever, r, n), r))
  BY <1>4 DEF BackupInv, NewestAreMany
<1>6. Copies!NewestPerPeriod(B_ever, r, n) \subseteq Vital(r)
  <2>1. Copies!NewestPerPeriod(B_ever, r, n) \cap B_ever \subseteq Copies!NewestPerPeriod(B_ever, r, B_least[r])
    BY <1>1, <1>4, WantedOfFewer
  <2>2. QED
    BY <2>1, WantedAreCopies DEF Vital
<1>7. Vital(r) \subseteq Copies!Dated(B_volume) /\ Copies!Dated(B_volume) \subseteq B_ever
  <2>1. Vital(r) \subseteq B_ever /\ B_ByHand \notin B_ever
    BY WantedAreCopies, CopiesAssumption
    DEF Vital, BackupInv, BackupTypes, Copies!RetentionAssumption, Times
  <2>2. QED
    BY <2>1 DEF BackupInv, BackupTypes, NothingVitalGoes, Copies!Dated
<1>8. Copies!PeriodsOf(Copies!NewestPerPeriod(B_ever, r, n), r) \subseteq Copies!PeriodsOf(Copies!Dated(B_volume), r)
  BY <1>6, <1>7 DEF Copies!PeriodsOf
<1>9. IsFiniteSet(Copies!PeriodsOf(Copies!Dated(B_volume), r))
  BY <1>1, <1>7, FS_Subset, PeriodsAreFinite
<1>10. Cardinality(Copies!PeriodsOf(Copies!NewestPerPeriod(B_ever, r, n), r))
         <= Cardinality(Copies!PeriodsOf(Copies!Dated(B_volume), r))
  BY <1>8, <1>9, FS_Subset
<1>11. /\ Cardinality(Copies!PeriodsOf(Copies!NewestPerPeriod(B_ever, r, n), r)) \in Nat
       /\ Cardinality(Copies!PeriodsOf(Copies!Dated(B_volume), r)) \in Nat
  BY <1>8, <1>9, FS_Subset, FS_CardinalityType
<1>12. QED
  BY <1>4, <1>5, <1>10, <1>11

\* Backup is one of the components that take turns.
LEMMA CopiesRefined == Spec => Copies!Spec
<1>1. [Next]_vars => [Copies!Next]_(Copies!vars)
  BY DEF Next, vars, AccountMoves, AdmissionMoves, QuotaMoves, StampMoves, CopiesMoves,
         LinkMoves, SnapMoves, PagesMoves, FormsMoves, FinalMoves, ReleaseMoves, ButA,
         ButD, ButQ, ButT, ButL, ButS, ButW, ButG, ButF, ButR, B, Copies!vars,
         Copies!bounds, Copies!caches, Copies!cluster, Copies!history
<1>2. Init => Copies!Init
  BY DEF Init
<1>3. QED
  BY <1>1, <1>2, PTL DEF Spec, Copies!Spec


\* Whatever was decided, from whichever report and under whichever policy, the volume has a
\* copy of as many periods as every policy so far wanted, or of all that had one: for any
\* rules and periods, any policies, and any number of copies, failures and edits.
THEOREM RetentionHolds == Spec => []RetentionKeeps
<1>1. Copies!Spec => []BackupInv
  BY InitBackup, NextBackup, PTL DEF Copies!Spec
<1>2. BackupInv => RetentionKeeps
  BY VitalAreEnough DEF RetentionKeeps
<1>3. QED
  BY <1>1, <1>2, CopiesRefined, PTL

==============================================================================
