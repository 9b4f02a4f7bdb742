-------------------------- MODULE AccountingProofs ---------------------------
(***************************************************************************)
(* Proofs about the meter's component of Operator, for every number of     *)
(* environments and of passes, every size of a second and of a             *)
(* milli-hour.                                                             *)
(*                                                                         *)
(* What is billed is a sum over the environments, which the module takes   *)
(* as a fold.  The first part proves of sums what the rest needs, by       *)
(* well-founded induction over the parts of a finite set; the second of    *)
(* the meter's arithmetic what a pass adds; the third the invariant.       *)
(***************************************************************************)
EXTENDS Operator, TLAPS, FiniteSetTheorems, WellFoundedInduction

------------------------------------------------------------------------------
(* Accounting: the meter.                                                  *)

(* Sums over finite sets.                                                 *)

First(s) == CHOOSE x \in s : TRUE
But(s) == s \ {First(s)}

\* g sums f over every part of X, as the fold does.
SumsUp(g, f, X) ==
  g = [s \in SUBSET X |-> IF s = {} THEN 0 ELSE f[First(s)] + g[But(s)]]

Sums(f, X) == CHOOSE g : SumsUp(g, f, X)
Sum(f, X) == Sums(f, X)[X]

\* What holds of a set if it holds of its smaller parts holds of every part of a finite set.
LEMMA PartByPart ==
  ASSUME NEW E, IsFiniteSet(E), NEW Good,
         \A X \in SUBSET E : (\A s \in SUBSET X : s # X => s \in Good) => X \in Good
  PROVE  SUBSET E \subseteq Good
<1> DEFINE Bad == (SUBSET E) \ Good
<1> SUFFICES ASSUME Bad # {} PROVE FALSE
  OBVIOUS
<1>1. IsWellFoundedOn(StrictSubsetOrdering(E), SUBSET E)
  <2>1. FiniteSubsetsOf(E) = SUBSET E
    BY FS_FiniteSubsetsOfFinite
  <2>2. IsWellFoundedOn(StrictSubsetOrdering(E), FiniteSubsetsOf(E))
    BY FS_StrictSubsetOrderingWellFounded
  <2>3. QED
    BY <2>1, <2>2
<1>2. \E X \in Bad : \A s \in Bad : <<s, X>> \notin StrictSubsetOrdering(E)
  <2> HIDE DEF Bad
  <2>1. Bad \subseteq SUBSET E
    BY DEF Bad
  <2>2. QED
    BY <1>1, <2>1, WFMin
<1>3. PICK X \in SUBSET E :
        /\ X \notin Good
        /\ \A s \in SUBSET E : s \notin Good => <<s, X>> \notin StrictSubsetOrdering(E)
  BY <1>2
<1>4. \A s \in SUBSET X : s # X => s \in Good
  <2>1. SUFFICES ASSUME NEW s \in SUBSET X, s # X PROVE s \in Good
    OBVIOUS
  <2>2. <<s, X>> \in StrictSubsetOrdering(E)
    BY <2>1 DEF StrictSubsetOrdering
  <2>3. QED
    BY <1>3, <2>2
<1>5. QED
  BY <1>3, <1>4

\* What is left without the first element is smaller.
LEMMA Lesser ==
  ASSUME NEW s, s # {}
  PROVE  First(s) \in s /\ But(s) \subseteq s /\ But(s) # s
BY DEF First, But

\* There is one such sum of each part.
LEMMA SumsAgree ==
  ASSUME NEW f, NEW Y, NEW Z, IsFiniteSet(Y), NEW g, NEW h, SumsUp(g, f, Y), SumsUp(h, f, Z)
  PROVE  \A s \in SUBSET (Y \cap Z) : g[s] = h[s]
<1> DEFINE C == Y \cap Z
           Good == {s \in SUBSET C : g[s] = h[s]}
<1>1. IsFiniteSet(C) /\ C \subseteq Y /\ C \subseteq Z
  BY FS_Subset
<1>2. ASSUME NEW X \in SUBSET C, \A s \in SUBSET X : s # X => s \in Good
      PROVE  X \in Good
  <2>1. /\ g[X] = IF X = {} THEN 0 ELSE f[First(X)] + g[But(X)]
        /\ h[X] = IF X = {} THEN 0 ELSE f[First(X)] + h[But(X)]
    BY DEF SumsUp
  <2>2. X # {} => g[But(X)] = h[But(X)]
    BY <1>2, Lesser
  <2>3. QED
    BY <2>1, <2>2
<1>3. SUBSET C \subseteq Good
  <2> HIDE DEF Good, C
  <2>1. QED
    BY <1>1, <1>2, PartByPart
<1>4. QED
  BY <1>3

\* Every part of a finite set has its sum.
LEMMA SumsExist ==
  ASSUME NEW f, NEW E, IsFiniteSet(E)
  PROVE  \A X \in SUBSET E : SumsUp(Sums(f, X), f, X)
<1> DEFINE Good == {X \in SUBSET E : SumsUp(Sums(f, X), f, X)}
<1>1. ASSUME NEW X \in SUBSET E, \A s \in SUBSET X : s # X => s \in Good
      PROVE  X \in Good
  <2> DEFINE g == [s \in SUBSET X |-> IF s = {} THEN 0 ELSE f[First(s)] + Sum(f, But(s))]
  <2>1. ASSUME NEW s \in SUBSET X, s # {}
        PROVE  g[But(s)] = Sum(f, But(s))
    <3> DEFINE t == But(s)
    <3>1. t \in SUBSET X /\ t # X /\ IsFiniteSet(t)
      <4>1. t \in SUBSET X /\ t # X
        BY <2>1, Lesser
      <4>2. QED
        BY <4>1, FS_Subset
    <3>2. SumsUp(Sums(f, t), f, t)
      BY <1>1, <3>1
    <3>3. Sum(f, t) = IF t = {} THEN 0 ELSE f[First(t)] + Sums(f, t)[But(t)]
      BY <3>2 DEF SumsUp, Sum
    <3>4. ASSUME t # {}
          PROVE  Sums(f, t)[But(t)] = Sum(f, But(t))
      <4>1. But(t) \subseteq t /\ But(t) # X
        BY <3>1, <3>4, Lesser
      <4>2. SumsUp(Sums(f, But(t)), f, But(t))
        BY <1>1, <3>1, <4>1
      <4>3. But(t) \in SUBSET (t \cap But(t))
        BY <4>1
      <4>4. QED
        BY <3>1, <3>2, <4>2, <4>3, SumsAgree DEF Sum
    <3>5. g[t] = IF t = {} THEN 0 ELSE f[First(t)] + Sum(f, But(t))
      BY <3>1
    <3>6. QED
      BY <3>3, <3>4, <3>5
  <2>2. SumsUp(g, f, X)
    BY <2>1 DEF SumsUp
  <2>3. SumsUp(Sums(f, X), f, X)
    BY <2>2 DEF Sums
  <2>4. QED
    BY <2>3
<1>2. SUBSET E \subseteq Good
  <2> HIDE DEF Good
  <2>1. QED
    BY <1>1, PartByPart
<1>3. QED
  BY <1>2

\* A sum is that of an element and of the others.
LEMMA SumIs ==
  ASSUME NEW f, NEW X, IsFiniteSet(X)
  PROVE  Sum(f, X) = IF X = {} THEN 0 ELSE f[First(X)] + Sum(f, But(X))
<1>1. SumsUp(Sums(f, X), f, X)
  BY SumsExist
<1>2. Sum(f, X) = IF X = {} THEN 0 ELSE f[First(X)] + Sums(f, X)[But(X)]
  BY <1>1 DEF SumsUp, Sum
<1>3. ASSUME X # {}
      PROVE  Sums(f, X)[But(X)] = Sum(f, But(X))
  <2>1. But(X) \subseteq X
    BY <1>3, Lesser
  <2>2. SumsUp(Sums(f, But(X)), f, But(X))
    BY <2>1, SumsExist
  <2>3. But(X) \in SUBSET (X \cap But(X))
    BY <2>1
  <2>4. QED
    BY <1>1, <2>2, <2>3, SumsAgree DEF Sum
<1>4. QED
  BY <1>2, <1>3

\* A sum of numbers is a number.
LEMMA SumIsNumber ==
  ASSUME NEW f, NEW E, IsFiniteSet(E), \A e \in E : f[e] \in Int
  PROVE  \A X \in SUBSET E : Sum(f, X) \in Int
<1> DEFINE Good == {X \in SUBSET E : Sum(f, X) \in Int}
<1>1. ASSUME NEW X \in SUBSET E, \A s \in SUBSET X : s # X => s \in Good
      PROVE  X \in Good
  <2>1. Sum(f, X) = IF X = {} THEN 0 ELSE f[First(X)] + Sum(f, But(X))
    BY SumIs, FS_Subset
  <2>2. X # {} => f[First(X)] \in Int /\ Sum(f, But(X)) \in Int
    BY <1>1, Lesser
  <2>3. QED
    BY <2>1, <2>2
<1>2. SUBSET E \subseteq Good
  <2> HIDE DEF Good
  <2>1. QED
    BY <1>1, PartByPart
<1>3. QED
  BY <1>2

\* Whichever element is taken first.
LEMMA SumTakes ==
  ASSUME NEW f, NEW E, IsFiniteSet(E), \A e \in E : f[e] \in Int
  PROVE  \A X \in SUBSET E : \A y \in X : Sum(f, X) = f[y] + Sum(f, X \ {y})
<1> DEFINE Good == {X \in SUBSET E : \A y \in X : Sum(f, X) = f[y] + Sum(f, X \ {y})}
<1>1. ASSUME NEW X \in SUBSET E, \A s \in SUBSET X : s # X => s \in Good
      PROVE  X \in Good
  <2> SUFFICES ASSUME NEW y \in X PROVE Sum(f, X) = f[y] + Sum(f, X \ {y})
    OBVIOUS
  <2> DEFINE x == First(X)
  <2>1. x \in X /\ But(X) = X \ {x} /\ IsFiniteSet(X)
    BY Lesser, FS_Subset DEF But
  <2>2. Sum(f, X) = f[x] + Sum(f, X \ {x})
    BY <2>1, SumIs
  <2>3. CASE x = y
    BY <2>2, <2>3
  <2>4. CASE x # y
    <3>1. X \ {x} \in Good /\ X \ {y} \in Good
      BY <1>1, <2>1
    <3>2. y \in X \ {x} /\ x \in X \ {y} /\ (X \ {x}) \ {y} = (X \ {y}) \ {x}
      BY <2>1, <2>4
    <3>3. Sum(f, X \ {x}) = f[y] + Sum(f, (X \ {x}) \ {y})
      BY <3>1, <3>2
    <3>4. Sum(f, X \ {y}) = f[x] + Sum(f, (X \ {x}) \ {y})
      BY <3>1, <3>2
    <3>5. f[x] \in Int /\ f[y] \in Int /\ Sum(f, (X \ {x}) \ {y}) \in Int
      <4>1. (X \ {x}) \ {y} \in SUBSET E
        OBVIOUS
      <4>2. QED
        BY <2>1, <4>1, SumIsNumber
    <3>6. QED
      BY <2>2, <3>3, <3>4, <3>5
  <2>5. QED
    BY <2>3, <2>4
<1>2. SUBSET E \subseteq Good
  <2> HIDE DEF Good
  <2>1. QED
    BY <1>1, PartByPart
<1>3. QED
  BY <1>2

\* A part is summed with nothing for the others.
Within(f, P, E) == [e \in E |-> IF e \in P THEN f[e] ELSE 0]

\* The sum of a part is that of the whole, with nothing for the rest.
LEMMA SumWithin ==
  ASSUME NEW f, NEW E, IsFiniteSet(E), \A e \in E : f[e] \in Int, NEW P \in SUBSET E
  PROVE  Sum(f, P) = Sum(Within(f, P, E), E)
<1> DEFINE w == Within(f, P, E)
           Good == {X \in SUBSET E : Sum(w, X) = Sum(f, X \cap P)}
<1>1. ASSUME NEW X \in SUBSET E, \A s \in SUBSET X : s # X => s \in Good
      PROVE  X \in Good
  <2> DEFINE x == First(X)
  <2>1. IsFiniteSet(X) /\ IsFiniteSet(X \cap P) /\ X \cap P \in SUBSET E
    <3>1. X \cap P \in SUBSET E
      OBVIOUS
    <3>2. QED
      BY <3>1, FS_Subset
  <2>2. CASE X = {}
    <3>1. Sum(w, X) = 0
      BY <2>1, <2>2, SumIs
    <3>2. X \cap P = {}
      BY <2>2
    <3>3. Sum(f, X \cap P) = 0
      BY <2>1, <3>2, SumIs
    <3>4. QED
      BY <3>1, <3>3
  <2>3. CASE X # {}
    <3>1. x \in X /\ But(X) = X \ {x} /\ But(X) \in Good
      BY <1>1, <2>3, Lesser DEF But
    <3>2. Sum(w, X) = w[x] + Sum(f, (X \ {x}) \cap P)
      <4>1. Sum(w, But(X)) = Sum(f, But(X) \cap P)
        BY <3>1
      <4>2. Sum(w, X) = w[x] + Sum(w, But(X))
        BY <2>1, <2>3, SumIs
      <4>3. QED
        BY <3>1, <4>1, <4>2
    <3>3. CASE x \in P
      <4>1. w[x] = f[x] /\ x \in X \cap P /\ (X \ {x}) \cap P = (X \cap P) \ {x}
        BY <3>1, <3>3 DEF Within
      <4>2. Sum(f, X \cap P) = f[x] + Sum(f, (X \cap P) \ {x})
        BY <2>1, <4>1, SumTakes
      <4>3. QED
        BY <3>2, <4>1, <4>2
    <3>4. CASE x \notin P
      <4>1. w[x] = 0 /\ (X \ {x}) \cap P = X \cap P
        BY <3>1, <3>4 DEF Within
      <4>2. Sum(f, X \cap P) \in Int
        BY <2>1, SumIsNumber
      <4>3. Sum(w, X) = 0 + Sum(f, X \cap P)
        BY <3>2, <4>1
      <4>4. QED
        BY <4>2, <4>3
    <3>5. QED
      BY <3>3, <3>4
  <2>4. QED
    BY <2>2, <2>3
<1>2. SUBSET E \subseteq Good
  <2> HIDE DEF Good
  <2>1. QED
    BY <1>1, PartByPart
<1>3. E \in SUBSET E /\ E \cap P = P
  OBVIOUS
<1>4. E \in Good
  BY <1>2, <1>3
<1>5. QED
  BY <1>3, <1>4

\* What holds of the summands, two on a side, holds of their sums.
LEMMA SumsCompare ==
  ASSUME NEW E, IsFiniteSet(E), NEW a, NEW b, NEW c, NEW d,
         \A e \in E : /\ a[e] \in Int /\ b[e] \in Int /\ c[e] \in Int /\ d[e] \in Int
                      /\ a[e] + b[e] <= c[e] + d[e]
  PROVE  Sum(a, E) + Sum(b, E) <= Sum(c, E) + Sum(d, E)
<1> DEFINE Good == {X \in SUBSET E : Sum(a, X) + Sum(b, X) <= Sum(c, X) + Sum(d, X)}
<1>1. ASSUME NEW X \in SUBSET E, \A s \in SUBSET X : s # X => s \in Good
      PROVE  X \in Good
  <2>1. IsFiniteSet(X)
    BY FS_Subset
  <2>2. /\ Sum(a, X) = IF X = {} THEN 0 ELSE a[First(X)] + Sum(a, But(X))
        /\ Sum(b, X) = IF X = {} THEN 0 ELSE b[First(X)] + Sum(b, But(X))
        /\ Sum(c, X) = IF X = {} THEN 0 ELSE c[First(X)] + Sum(c, But(X))
        /\ Sum(d, X) = IF X = {} THEN 0 ELSE d[First(X)] + Sum(d, But(X))
    BY <2>1, SumIs
  <2>3. CASE X = {}
    BY <2>2, <2>3
  <2>4. CASE X # {}
    <3>1. First(X) \in E /\ But(X) \in SUBSET E /\ But(X) \in Good
      BY <1>1, <2>4, Lesser
    <3>2. /\ Sum(a, But(X)) \in Int /\ Sum(b, But(X)) \in Int
          /\ Sum(c, But(X)) \in Int /\ Sum(d, But(X)) \in Int
      BY <3>1, SumIsNumber
    <3>3. Sum(a, But(X)) + Sum(b, But(X)) <= Sum(c, But(X)) + Sum(d, But(X))
      BY <3>1
    <3>4. LET x == First(X)
          IN  /\ a[x] \in Int /\ b[x] \in Int /\ c[x] \in Int /\ d[x] \in Int
              /\ a[x] + b[x] <= c[x] + d[x]
      BY <3>1
    <3>5. QED
      BY <2>2, <2>4, <3>2, <3>3, <3>4
  <2>5. QED
    BY <2>3, <2>4
<1>2. SUBSET E \subseteq Good
  <2> HIDE DEF Good
  <2>1. QED
    BY <1>1, PartByPart
<1>3. QED
  BY <1>2

\* A common factor.
LEMMA SumScales ==
  ASSUME NEW E, IsFiniteSet(E), NEW f, NEW g, NEW k \in Int,
         \A e \in E : f[e] \in Int /\ g[e] = k * f[e]
  PROVE  Sum(g, E) = k * Sum(f, E)
<1> DEFINE Good == {X \in SUBSET E : Sum(g, X) = k * Sum(f, X)}
<1>1. ASSUME NEW X \in SUBSET E, \A s \in SUBSET X : s # X => s \in Good
      PROVE  X \in Good
  <2>1. IsFiniteSet(X)
    BY FS_Subset
  <2>2. /\ Sum(f, X) = IF X = {} THEN 0 ELSE f[First(X)] + Sum(f, But(X))
        /\ Sum(g, X) = IF X = {} THEN 0 ELSE g[First(X)] + Sum(g, But(X))
    BY <2>1, SumIs
  <2>3. CASE X = {}
    BY <2>2, <2>3
  <2>4. CASE X # {}
    <3>1. First(X) \in E /\ But(X) \in SUBSET E /\ But(X) \in Good
      BY <1>1, <2>4, Lesser
    <3>2. f[First(X)] \in Int /\ Sum(f, But(X)) \in Int
      BY <3>1, SumIsNumber
    <3>3. \A m, n \in Int : k * (m + n) = k * m + k * n
      OBVIOUS
    <3>4. Sum(g, X) = k * f[First(X)] + k * Sum(f, But(X))
      BY <2>2, <2>4, <3>1
    <3>5. QED
      BY <2>2, <2>4, <3>2, <3>3, <3>4
  <2>5. QED
    BY <2>3, <2>4
<1>2. SUBSET E \subseteq Good
  <2> HIDE DEF Good
  <2>1. QED
    BY <1>1, PartByPart
<1>3. QED
  BY <1>2

\* A sum of ones is how many there are.
LEMMA SumOfOnes ==
  ASSUME NEW E, IsFiniteSet(E), NEW f, \A e \in E : f[e] = 1
  PROVE  Sum(f, E) = Cardinality(E)
<1> DEFINE Good == {X \in SUBSET E : Sum(f, X) = Cardinality(X)}
<1>1. ASSUME NEW X \in SUBSET E, \A s \in SUBSET X : s # X => s \in Good
      PROVE  X \in Good
  <2>1. IsFiniteSet(X)
    BY FS_Subset
  <2>2. Sum(f, X) = IF X = {} THEN 0 ELSE f[First(X)] + Sum(f, But(X))
    BY <2>1, SumIs
  <2>3. CASE X = {}
    BY <2>2, <2>3, FS_EmptySet
  <2>4. CASE X # {}
    <3>1. First(X) \in X /\ But(X) \in SUBSET E /\ But(X) \in Good
      BY <1>1, <2>4, Lesser
    <3>2. /\ Cardinality(But(X)) = Cardinality(X) - 1
          /\ Cardinality(X) \in Nat
      BY <2>1, <3>1, FS_RemoveElement, FS_CardinalityType DEF But
    <3>3. QED
      BY <2>2, <2>4, <3>1, <3>2
  <2>5. QED
    BY <2>3, <2>4
<1>2. SUBSET E \subseteq Good
  <2> HIDE DEF Good
  <2>1. QED
    BY <1>1, PartByPart
<1>3. QED
  BY <1>2

------------------------------------------------------------------------------

Late(e) == IF A_env[e].ended = Account!None THEN 0 ELSE A_Units - 1
Weights == [e \in A_Envs |-> Account!Weight(A_env[e].size)]

\* What a second's rounding is worth, of all environments.
Slack == (A_Units - 1) * Sum(Weights, A_Envs)

\* What each has consumed since the first watermark: of all, to the tick and with the second
\* its end was rounded by; and of those still there.
Owed(to) ==
  [e \in A_Envs |->
     Account!Weight(A_env[e].size) * (Account!Span(e, A_started, to) + Late(e))]
Used(to) ==
  [e \in A_Envs |->
     IF e \in Account!There THEN Account!Weight(A_env[e].size) * Account!Span(e, A_started, to) ELSE 0]

Records == [mark: Account!Times, total: Int, open: Nat, within: BOOLEAN]

AccountTypes ==
  /\ A_env \in [A_Envs -> Account!EnvStates] /\ A_now \in 0..A_MaxTime
  /\ \A e \in A_Envs : /\ A_env[e].ready # Account!None => A_env[e].ready <= A_now
                       /\ A_env[e].ended # Account!None =>
                            A_env[e].ready # Account!None /\ A_env[e].ended <= A_now
  /\ A_obj \in Records /\ A_view \in Records /\ A_snap \in Records /\ A_st \in Records
  /\ A_counted \in Nat

\* The watermark and what is remembered of the passes that moved it.
MarksAgree ==
  /\ A_started = Account!None =>
       A_obj.mark = Account!None /\ A_obj.total = 0 /\ A_counted = 0
  /\ A_started # Account!None =>
       /\ A_started \in 0..A_MaxTime
       /\ A_billed \in 0..A_now
       /\ A_obj.mark = Account!ToSecond(A_billed)
       /\ A_started <= A_obj.mark

\* What a pass that can still write knows.
PassKnows ==
  /\ A_current => A_view = A_obj
  /\ A_pc # "idle" /\ A_fresh => A_snap = A_obj
  /\ A_pc = "pass" => A_st = A_snap
  /\ A_pc = "finish" /\ A_fresh =>
       /\ A_st.mark \in 0..A_now
       /\ A_started = Account!None => A_st.total = 0
       /\ A_started # Account!None => A_billed <= A_st.mark

\* No more is billed than was consumed, and a second more for each pass but the first; of
\* what a pass is about to write, for each before it.
NotOver ==
  A_started # Account!None =>
    /\ A_PerUnit * A_obj.total + Slack <= Sum(Owed(A_billed), A_Envs) + A_counted * Slack
    /\ A_pc = "finish" /\ A_fresh =>
         A_PerUnit * A_st.total <= Sum(Owed(A_st.mark), A_Envs) + A_counted * Slack

\* No less, but for what each pass dropped, as it dropped it from each environment.
NotUnder ==
  A_started # Account!None =>
    /\ Sum(Used(A_obj.mark), A_Envs)
         <= A_PerUnit * (A_obj.total + A_counted * Cardinality(A_Envs))
    /\ A_pc = "finish" /\ A_fresh =>
         Sum(Used(Account!ToSecond(A_st.mark)), A_Envs)
           <= A_PerUnit * (A_st.total + (A_counted + 1) * Cardinality(A_Envs))

AccountInv == AccountTypes /\ MarksAgree /\ PassKnows /\ NotOver /\ NotUnder

------------------------------------------------------------------------------
(* Arithmetic.                                                             *)

\* The constants are numbers, and the environments finitely many.
LEMMA MeterNumbers ==
  /\ IsFiniteSet(A_Envs) /\ Cardinality(A_Envs) \in Nat
  /\ A_Units \in Nat \ {0} /\ A_PerUnit \in Nat \ {0} /\ A_Units - 1 \in Nat
  /\ A_MaxTime \in Nat /\ Account!None = A_MaxTime + 1
<1>1. /\ IsFiniteSet(A_Envs)
      /\ A_Units \in Nat \ {0}
      /\ A_PerUnit \in Nat \ {0}
      /\ A_MaxTime \in Nat
  BY MeterAssumption DEF Account!UnitsAreNumbers, Account!IsFiniteSet, IsFiniteSet
<1>2. Cardinality(A_Envs) \in Nat
  BY <1>1, FS_CardinalityType
<1>3. QED
  BY <1>1, <1>2 DEF Account!None

\* A product of a sum; SMT does not find it under other terms.
LEMMA Distributes == \A k, a, b \in Int : k * (a + b) = k * a + k * b /\ k * a \in Int
OBVIOUS

\* Each size has one of three weights.
LEMMA WeightIs == \A size : Account!Weight(size) \in {1, 2, 6}
BY DEF Account!Weight

\* The multiple of d below a, and the rest.
LEMMA Division ==
  ASSUME NEW a \in Nat, NEW d \in Nat \ {0}
  PROVE  /\ a \div d \in Nat /\ d * (a \div d) <= a /\ a <= d * (a \div d) + d
         /\ a % d \in 0..(d - 1) /\ a - (a % d) = d * (a \div d)
<1>1. a \div d \in Nat /\ a % d \in 0..(d - 1)
  OBVIOUS
<1>2. a = d * (a \div d) + (a % d)
  OBVIOUS
<1>3. d * (a \div d) \in Nat
  BY <1>1
<1>4. QED
  BY <1>1, <1>2, <1>3

\* A time and the second it is stored as.
LEMMA SecondIs ==
  ASSUME NEW t \in Nat
  PROVE  /\ Account!ToSecond(t) \in Nat
         /\ Account!ToSecond(t) <= t
         /\ t <= Account!ToSecond(t) + (A_Units - 1)
<1>1. /\ t % A_Units \in 0..(A_Units - 1)
      /\ t - (t % A_Units) = A_Units * (t \div A_Units)
      /\ t \div A_Units \in Nat
  BY MeterNumbers, Division
<1>2. A_Units * (t \div A_Units) \in Nat
  BY <1>1, MeterNumbers
<1>3. QED
  BY <1>1, <1>2, MeterNumbers DEF Account!ToSecond

\* A later time is stored as no earlier a second.
LEMMA SecondsGrow ==
  ASSUME NEW t \in Nat, NEW u \in Nat, t <= u
  PROVE  Account!ToSecond(t) <= Account!ToSecond(u)
<1>1. /\ t - (t % A_Units) = A_Units * (t \div A_Units)
      /\ u - (u % A_Units) = A_Units * (u \div A_Units)
  BY MeterNumbers, Division
<1>2. t \div A_Units \in Nat /\ u \div A_Units \in Nat /\ t \div A_Units <= u \div A_Units
  BY MeterNumbers
<1>3. \A k, a, b \in Nat : a <= b => k * a <= k * b
  OBVIOUS
<1>4. A_Units * (t \div A_Units) <= A_Units * (u \div A_Units)
  BY <1>2, <1>3, MeterNumbers
<1>5. QED
  BY <1>1, <1>4 DEF Account!ToSecond

\* What the interval from s to t shares with that from r to d.
Shared(r, d, s, t) ==
  LET from == IF s >= r THEN s ELSE r
      till == IF t <= d THEN t ELSE d
  IN  IF till >= from THEN till - from ELSE 0

\* The code's minima and maxima say the same.
LEMMA SharedIs ==
  ASSUME NEW r \in Nat, NEW d \in Nat, NEW s \in Nat, NEW t \in Nat
  PROVE  Account!Max({0, Account!Min({t, d}) - Account!Max({s, r})}) = Shared(r, d, s, t)
<1>1. Account!Min({t, d}) = IF t <= d THEN t ELSE d
  BY DEF Account!Min
<1>2. Account!Max({s, r}) = IF s >= r THEN s ELSE r
  BY DEF Account!Max
<1>3. \A x \in Int : Account!Max({0, x}) = IF x >= 0 THEN x ELSE 0
  BY DEF Account!Max
<1>4. Account!Min({t, d}) - Account!Max({s, r}) \in Int
  BY <1>1, <1>2
<1>5. Account!Max({0, Account!Min({t, d}) - Account!Max({s, r})})
        = LET x == Account!Min({t, d}) - Account!Max({s, r}) IN IF x >= 0 THEN x ELSE 0
  BY <1>3, <1>4
<1>6. QED
  BY <1>1, <1>2, <1>5 DEF Shared

\* So do its spans.
LEMMA SpanIs ==
  ASSUME AccountTypes, NEW e \in A_Envs, NEW s \in 0..A_MaxTime, NEW t \in 0..A_MaxTime
  PROVE  /\ A_env[e].ready \in Nat /\ A_env[e].ended \in Nat
         /\ Account!Span(e, s, t) =
              IF A_env[e].ready
                = Account!None THEN 0 ELSE Shared(A_env[e].ready, A_env[e].ended, s, t)
         /\ Account!Span(e, s, t) \in Nat
<1>1. A_env[e].ready \in Nat /\ A_env[e].ended \in Nat
  BY MeterNumbers DEF AccountTypes, Account!EnvStates, Account!Times
<1>2. Account!Span(e, s, t) =
        IF A_env[e].ready
          = Account!None THEN 0 ELSE Shared(A_env[e].ready, A_env[e].ended, s, t)
  BY <1>1, SharedIs, MeterNumbers DEF Account!Span
<1>3. Shared(A_env[e].ready, A_env[e].ended, s, t) \in Nat
  BY <1>1, MeterNumbers DEF Shared
<1>4. QED
  BY <1>1, <1>2, <1>3

\* Two intervals that overlap by k or less.
LEMMA SharedJoin ==
  ASSUME NEW r \in Nat, NEW d \in Nat, NEW s \in Nat, NEW m \in Nat, NEW b \in Nat,
         NEW n \in Nat, NEW k \in Nat, s <= m, m <= b, b <= n, b <= m + k
  PROVE  Shared(r, d, s, b) + Shared(r, d, m, n) <= Shared(r, d, s, n) + k
BY DEF Shared

\* Two that leave no gap.
LEMMA SharedParts ==
  ASSUME NEW r \in Nat, NEW d \in Nat, NEW s \in Nat, NEW m \in Nat, NEW n \in Nat,
         NEW t \in Nat, s <= m, m <= n, t <= n
  PROVE  Shared(r, d, s, t) <= Shared(r, d, s, m) + Shared(r, d, m, n)
BY DEF Shared

\* One that ends within k of the end.
LEMMA SharedEnds ==
  ASSUME NEW r \in Nat, NEW d \in Nat, NEW c \in Nat, NEW s \in Nat, NEW t \in Nat,
         NEW k \in Nat
  PROVE  /\ t <= d + k /\ t <= c => Shared(r, c, s, t) <= Shared(r, d, s, t) + k
         /\ t <= d /\ t <= c => Shared(r, d, s, t) = Shared(r, c, s, t)
         /\ t <= r => Shared(r, d, s, t) = 0
BY DEF Shared

\* The more of an environment, the more of its weight.
LEMMA Weighted ==
  ASSUME NEW w \in {1, 2, 6}, NEW a \in Nat, NEW b \in Nat, a <= b
  PROVE  w * a <= w * b /\ w * a \in Nat
OBVIOUS

------------------------------------------------------------------------------
(* The module's sums.                                                      *)

Taken(s, t) == [e \in A_Envs |-> Account!Weight(A_env[e].size) * Account!Span(e, s, t)]
Shares(s, t) ==
  [e \in A_Envs |->
     (Account!Weight(A_env[e].size) * Account!Span(e, s, t)) \div A_PerUnit]

\* The sum of what was consumed is the fold over the environments.
LEMMA ConsumedIs ==
  ASSUME A_started # Account!None, NEW X \in SUBSET A_Envs, NEW t
  PROVE  Account!Consumed(X, t) = Sum(Taken(A_started, t), X)
<1> DEFINE Folds(i) ==
             i = [s \in SUBSET X |->
                    IF s = {} THEN 0
                    ELSE Account!Weight(A_env[First(s)].size) * Account!Span(First(s), A_started, t)
                         + i[But(s)]]
<1>1. Account!Consumed(X, t) = (CHOOSE i : Folds(i))[X]
  BY DEF Account!Consumed, Account!MapThenSumSet, Account!MapThenFoldSet, First, But
<1>2. \A g : SumsUp(g, Taken(A_started, t), X) <=> Folds(g)
  BY Lesser DEF SumsUp, Taken
<1>3. QED
  BY <1>1, <1>2 DEF Sums, Sum

\* So is the sum of the shares.
LEMMA AccruedIs ==
  ASSUME NEW s, s # Account!None, NEW t
  PROVE  Account!Accrued(s, t) = Sum(Shares(s, t), Account!There)
<1> DEFINE Folds(i) ==
             i = [x \in SUBSET Account!There |->
                    IF x = {} THEN 0
                    ELSE ((Account!Weight(A_env[First(x)].size) * Account!Span(First(x), s, t))
                            \div A_PerUnit)
                         + i[But(x)]]
<1>1. Account!Accrued(s, t) = (CHOOSE i : Folds(i))[Account!There]
  BY DEF Account!Accrued, Account!MapThenSumSet, Account!MapThenFoldSet, First, But
<1>2. \A g : SumsUp(g, Shares(s, t), Account!There) <=> Folds(g)
  BY Lesser DEF SumsUp, Shares, Account!There
<1>3. QED
  BY <1>1, <1>2 DEF Sums, Sum

\* And that of the weights.
LEMMA WeightsAre ==
  Account!MapThenSumSet(LAMBDA e : Account!Weight(A_env[e].size), A_Envs)
    = Sum(Weights, A_Envs)
<1> DEFINE Folds(i) ==
             i = [s \in SUBSET A_Envs |->
                    IF s = {} THEN 0
                    ELSE Account!Weight(A_env[First(s)].size) + i[But(s)]]
<1>1. Account!MapThenSumSet(LAMBDA e : Account!Weight(A_env[e].size), A_Envs)
        = (CHOOSE i : Folds(i))[A_Envs]
  BY DEF Account!MapThenSumSet, Account!MapThenFoldSet, First, But
<1>2. \A g : SumsUp(g, Weights, A_Envs) <=> Folds(g)
  BY Lesser DEF SumsUp, Weights
<1>3. QED
  BY <1>1, <1>2 DEF Sums, Sum

\* Nothing, of each.
Nothing == [e \in A_Envs |-> 0]

\* A sum of nothing is nothing.
LEMMA SumOfNothing == Sum(Nothing, A_Envs) = 0
<1>1. \A e \in A_Envs : Nothing[e] \in Int /\ Nothing[e] = 0 * Nothing[e]
  BY DEF Nothing
<1>2. Sum(Nothing, A_Envs) = 0 * Sum(Nothing, A_Envs)
  <2>1. 0 \in Int /\ IsFiniteSet(A_Envs)
    BY MeterNumbers
  <2> HIDE DEF Nothing
  <2>2. QED
    BY <1>1, <2>1, SumScales
<1>3. Sum(Nothing, A_Envs) \in Int
  BY <1>1, MeterNumbers, SumIsNumber
<1>4. QED
  BY <1>2, <1>3

\* One function below another, and below two.
LEMMA SumsGrow ==
  ASSUME NEW f, NEW g, \A e \in A_Envs : f[e] \in Int /\ g[e] \in Int /\ f[e] <= g[e]
  PROVE  /\ Sum(f, A_Envs) \in Int
         /\ Sum(g, A_Envs) \in Int
         /\ Sum(f, A_Envs) <= Sum(g, A_Envs)
<1>1. \A e \in A_Envs : /\ f[e] \in Int /\ Nothing[e] \in Int /\ g[e] \in Int
                        /\ f[e] + Nothing[e] <= g[e] + Nothing[e]
  <2> SUFFICES ASSUME NEW e \in A_Envs
               PROVE  /\ f[e] \in Int /\ Nothing[e] \in Int /\ g[e] \in Int
                      /\ f[e] + Nothing[e] <= g[e] + Nothing[e]
    OBVIOUS
  <2>1. Nothing[e] = 0
    BY DEF Nothing
  <2>2. f[e] \in Int /\ g[e] \in Int /\ f[e] <= g[e]
    OBVIOUS
  <2>3. QED
    BY <2>1, <2>2
<1>2. Sum(f, A_Envs) + Sum(Nothing, A_Envs) <= Sum(g, A_Envs) + Sum(Nothing, A_Envs)
  BY <1>1, MeterNumbers, SumsCompare
<1>3. Sum(f, A_Envs) \in Int /\ Sum(g, A_Envs) \in Int
  BY MeterNumbers, SumIsNumber
<1>4. QED
  BY <1>2, <1>3, SumOfNothing

\* The weights, and what a second of all is worth, are numbers.
LEMMA SumsAreNumbers ==
  ASSUME AccountTypes
  PROVE  /\ \A e \in A_Envs : Weights[e] \in {1, 2, 6}
         /\ Sum(Weights, A_Envs) \in Int /\ Slack \in Int
<1>1. \A e \in A_Envs : Weights[e] \in {1, 2, 6}
  BY WeightIs DEF Weights
<1>2. Sum(Weights, A_Envs) \in Int
  BY <1>1, MeterNumbers, SumIsNumber
<1>3. QED
  BY <1>1, <1>2, MeterNumbers, Distributes DEF Slack

\* What an environment consumed, and its share rounded down.
LEMMA SpansAreNumbers ==
  ASSUME AccountTypes, NEW s \in 0..A_MaxTime, NEW t \in 0..A_MaxTime
  PROVE  \A e \in A_Envs :
           /\ Account!Span(e, s, t) \in Nat /\ Late(e) \in Nat
           /\ Taken(s, t)[e] \in Nat /\ Taken(s, t)[e] = Weights[e] * Account!Span(e, s, t)
           /\ Shares(s, t)[e] \in Nat
           /\ A_PerUnit * Shares(s, t)[e] \in Nat
           /\ A_PerUnit * Shares(s, t)[e] <= Taken(s, t)[e]
           /\ Taken(s, t)[e] <= A_PerUnit * Shares(s, t)[e] + A_PerUnit
<1> SUFFICES ASSUME NEW e \in A_Envs
             PROVE  /\ Account!Span(e, s, t) \in Nat /\ Late(e) \in Nat
                    /\ Taken(s, t)[e] \in Nat
                    /\ Taken(s, t)[e] = Weights[e] * Account!Span(e, s, t)
                    /\ Shares(s, t)[e] \in Nat
                    /\ A_PerUnit * Shares(s, t)[e] \in Nat
                    /\ A_PerUnit * Shares(s, t)[e] <= Taken(s, t)[e]
                    /\ Taken(s, t)[e] <= A_PerUnit * Shares(s, t)[e] + A_PerUnit
  OBVIOUS
<1>1. Account!Span(e, s, t) \in Nat /\ Late(e) \in Nat
  BY SpanIs, MeterNumbers DEF Late
<1>2. Taken(s, t)[e] = Weights[e] * Account!Span(e, s, t) /\ Weights[e] \in {1, 2, 6}
  BY WeightIs DEF Taken, Weights
<1>3. Taken(s, t)[e] \in Nat
  BY <1>1, <1>2
<1>4. Shares(s, t)[e] = Taken(s, t)[e] \div A_PerUnit
  BY DEF Shares, Taken
<1>5. /\ Shares(s, t)[e] \in Nat
      /\ A_PerUnit * Shares(s, t)[e] <= Taken(s, t)[e]
      /\ Taken(s, t)[e] <= A_PerUnit * Shares(s, t)[e] + A_PerUnit
  BY <1>3, <1>4, MeterNumbers, Division
<1>6. A_PerUnit * Shares(s, t)[e] \in Nat
  BY <1>5, MeterNumbers
<1>7. QED
  BY <1>1, <1>2, <1>3, <1>5, <1>6

\* What a pass adds: no more than what was consumed since the last one and the second its
\* watermark was rounded by; no less but for the rounding of each share.
LEMMA AccrualIsRight ==
  ASSUME AccountTypes, MarksAgree, A_started # Account!None
  PROVE  /\ Account!Accrued(A_obj.mark, A_now) \in Int
         /\ Sum(Owed(A_billed), A_Envs) \in Int /\ Sum(Owed(A_now), A_Envs) \in Int
         /\ Sum(Used(A_obj.mark), A_Envs) \in Int
         /\ Sum(Used(Account!ToSecond(A_now)), A_Envs) \in Int
         /\ Sum(Owed(A_billed), A_Envs) + A_PerUnit * Account!Accrued(A_obj.mark, A_now)
              <= Sum(Owed(A_now), A_Envs) + Slack
         /\ Sum(Used(Account!ToSecond(A_now)), A_Envs)
              <= Sum(Used(A_obj.mark), A_Envs)
                 + (A_PerUnit * Account!Accrued(A_obj.mark, A_now)
                      + A_PerUnit * Cardinality(A_Envs))
<1> DEFINE m == A_obj.mark
           share == Within(Shares(m, A_now), Account!There, A_Envs)
           billing == [e \in A_Envs |-> A_PerUnit * share[e]]
           second == [e \in A_Envs |-> (A_Units - 1) * Weights[e]]
           one == [e \in A_Envs |-> 1]
           unit == [e \in A_Envs |-> A_PerUnit * one[e]]
           dropped == [e \in A_Envs |-> billing[e] + unit[e]]
<1>1. /\ A_now \in 0..A_MaxTime
      /\ A_billed \in 0..A_MaxTime
      /\ A_started \in 0..A_MaxTime
      /\ m \in 0..A_MaxTime
      /\ Account!ToSecond(A_now) \in 0..A_MaxTime /\ Account!ToSecond(A_now) <= A_now
      /\ A_started <= m
      /\ m <= A_billed
      /\ A_billed <= A_now
      /\ A_billed <= m + (A_Units - 1)
      /\ m # Account!None
  BY SecondIs, MeterNumbers DEF AccountTypes, MarksAgree
<1>2. /\ A_Units - 1 \in Nat
      /\ A_PerUnit \in Nat
      /\ A_PerUnit \in Int
      /\ A_Units - 1 \in Int
      /\ IsFiniteSet(A_Envs) /\ Cardinality(A_Envs) \in Nat
  BY MeterNumbers
<1>3. Account!There \in SUBSET A_Envs
  BY DEF Account!There
<1>4. \A e \in A_Envs : /\ Shares(m, A_now)[e] \in Int
                        /\ share[e] \in Int /\ billing[e] \in Int /\ second[e] \in Int
                        /\ one[e] \in Int /\ unit[e] \in Int /\ dropped[e] \in Int
                        /\ one[e] = 1 /\ billing[e] = A_PerUnit * share[e]
                        /\ second[e] = (A_Units - 1) * Weights[e]
                        /\ unit[e] = A_PerUnit * one[e]
                        /\ dropped[e] = billing[e] + unit[e]
                        /\ share[e]
                             = (IF e \in Account!There THEN Shares(m, A_now)[e] ELSE 0)
                        /\ Weights[e] \in Int
  <2> SUFFICES ASSUME NEW e \in A_Envs
               PROVE  /\ Shares(m, A_now)[e] \in Int
                      /\ share[e] \in Int /\ billing[e] \in Int /\ second[e] \in Int
                      /\ one[e] \in Int /\ unit[e] \in Int /\ dropped[e] \in Int
                      /\ one[e] = 1 /\ billing[e] = A_PerUnit * share[e]
                      /\ second[e] = (A_Units - 1) * Weights[e]
                      /\ unit[e] = A_PerUnit * one[e]
                      /\ dropped[e] = billing[e] + unit[e]
                      /\ share[e] = (IF e \in Account!There THEN Shares(m, A_now)[e] ELSE 0)
                      /\ Weights[e] \in Int
    OBVIOUS
  <2>1. Shares(m, A_now)[e] \in Int
    BY <1>1, SpansAreNumbers
  <2>2. share[e] = (IF e \in Account!There THEN Shares(m, A_now)[e] ELSE 0)
    BY DEF Within
  <2>3. share[e] \in Int
    BY <2>1, <2>2
  <2>4. billing[e] = A_PerUnit * share[e] /\ billing[e] \in Int
    BY <1>2, <2>3, Distributes
  <2>5. Weights[e] \in Int
    BY SumsAreNumbers
  <2>6. second[e] = (A_Units - 1) * Weights[e] /\ second[e] \in Int
    BY <1>2, <2>5, Distributes
  <2>7. one[e] = 1 /\ unit[e] = A_PerUnit * one[e] /\ unit[e] \in Int
    BY <1>2, Distributes
  <2>8. dropped[e] = billing[e] + unit[e]
    OBVIOUS
  <2>9. QED
    BY <2>1, <2>2, <2>3, <2>4, <2>5, <2>6, <2>7, <2>8
<1> HIDE DEF share, billing, second, one, unit, dropped
<1>5. Account!Accrued(m, A_now) = Sum(share, A_Envs) /\ Account!Accrued(m, A_now) \in Int
  <2>1. Account!Accrued(m, A_now) = Sum(Shares(m, A_now), Account!There)
    BY <1>1, AccruedIs
  <2>2. Sum(Shares(m, A_now), Account!There) = Sum(share, A_Envs)
    BY <1>2, <1>3, <1>4, SumWithin DEF share
  <2>3. Sum(share, A_Envs) \in Int
    BY <1>2, <1>4, SumIsNumber
  <2>4. QED
    BY <2>1, <2>2, <2>3
<1>6. A_PerUnit * Account!Accrued(m, A_now) = Sum(billing, A_Envs)
  BY <1>2, <1>4, <1>5, SumScales
<1>7. Slack = Sum(second, A_Envs)
  BY <1>2, <1>4, SumScales DEF Slack
<1>8. A_PerUnit * Cardinality(A_Envs) = Sum(unit, A_Envs)
  <2>1. Sum(one, A_Envs) = Cardinality(A_Envs)
    BY <1>2, <1>4, SumOfOnes
  <2>2. Sum(unit, A_Envs) = A_PerUnit * Sum(one, A_Envs)
    BY <1>2, <1>4, SumScales
  <2>3. QED
    BY <2>1, <2>2
<1>9. ASSUME NEW e \in A_Envs
      PROVE  /\ Owed(A_billed)[e] \in Int /\ Owed(A_now)[e] \in Int
             /\ Owed(A_billed)[e] + billing[e] <= Owed(A_now)[e] + second[e]
  <2> DEFINE w == Weights[e]
             k == A_Units - 1
             sb == Account!Span(e, A_started, A_billed)
             sn == Account!Span(e, A_started, A_now)
             mn == Account!Span(e, m, A_now)
             late == Late(e)
  <2>1. /\ sb \in Nat
        /\ sn \in Nat
        /\ mn \in Nat
        /\ late \in Nat
        /\ k \in Nat
        /\ w \in {1, 2, 6}
    BY <1>1, <1>2, SpansAreNumbers, SumsAreNumbers
  <2>2. sb + mn <= sn + k
    <3> DEFINE r == A_env[e].ready
               d == A_env[e].ended
    <3>1. /\ r \in Nat /\ d \in Nat
          /\ sb = IF r = Account!None THEN 0 ELSE Shared(r, d, A_started, A_billed)
          /\ sn = IF r = Account!None THEN 0 ELSE Shared(r, d, A_started, A_now)
          /\ mn = IF r = Account!None THEN 0 ELSE Shared(r, d, m, A_now)
      BY <1>1, SpanIs
    <3>2. /\ A_started \in Nat /\ m \in Nat /\ A_billed \in Nat /\ A_now \in Nat
      BY <1>1, <1>2
    <3> HIDE DEF r, d, sb, sn, mn, m
    <3>3. Shared(r, d, A_started, A_billed) + Shared(r, d, m, A_now)
            <= Shared(r, d, A_started, A_now) + k
      BY <1>1, <2>1, <3>1, <3>2, SharedJoin
    <3>4. QED
      BY <2>1, <3>1, <3>3
  <2>3. Owed(A_billed)[e] = w * (sb + late) /\ Owed(A_now)[e] = w * (sn + late)
    BY DEF Owed, Weights
  <2>4. billing[e] <= w * mn
    <3>1. /\ A_PerUnit * Shares(m, A_now)[e] <= w * mn
          /\ w * mn \in Nat
      BY <1>1, SpansAreNumbers
    <3>2. billing[e] = A_PerUnit * (IF e \in Account!There THEN Shares(m, A_now)[e] ELSE 0)
      BY <1>4
    <3>3. A_PerUnit * 0 = 0
      BY <1>2
    <3>4. QED
      BY <3>1, <3>2, <3>3
  <2>5. second[e] = k * w /\ billing[e] \in Int
    BY <1>4
  <2> HIDE DEF w, k, sb, sn, mn, late
  <2>6. QED
    BY <2>1, <2>2, <2>3, <2>4, <2>5
<1>10. /\ Sum(Owed(A_billed), A_Envs) \in Int /\ Sum(Owed(A_now), A_Envs) \in Int
       /\ Sum(Owed(A_billed), A_Envs) + Sum(billing, A_Envs)
            <= Sum(Owed(A_now), A_Envs) + Sum(second, A_Envs)
  BY <1>2, <1>4, <1>9, SumsCompare, SumIsNumber
<1>11. ASSUME NEW e \in A_Envs
       PROVE  /\ Used(Account!ToSecond(A_now))[e] \in Int /\ Used(m)[e] \in Int
              /\ Used(Account!ToSecond(A_now))[e] + Nothing[e] <= Used(m)[e] + dropped[e]
              /\ Nothing[e] \in Int
  <2>1. Nothing[e] = 0 /\ unit[e] = A_PerUnit /\ dropped[e] = billing[e] + A_PerUnit
    BY <1>2, <1>4 DEF Nothing
  <2>2. CASE e \notin Account!There
    <3>1. Used(Account!ToSecond(A_now))[e] = 0 /\ Used(m)[e] = 0 /\ billing[e] = 0
      BY <1>2, <1>4, <2>2 DEF Used
    <3>2. QED
      BY <1>2, <2>1, <3>1
  <2>3. CASE e \in Account!There
    <3> DEFINE w == Weights[e]
               x == Account!Span(e, A_started, Account!ToSecond(A_now))
               y == Account!Span(e, A_started, m)
               z == Account!Span(e, m, A_now)
    <3>1. x \in Nat /\ y \in Nat /\ z \in Nat /\ w \in {1, 2, 6}
      BY <1>1, SpansAreNumbers, SumsAreNumbers
    <3>2. x <= y + z
      <4> DEFINE r == A_env[e].ready
                 d == A_env[e].ended
                 n == Account!ToSecond(A_now)
      <4>1. /\ r \in Nat /\ d \in Nat
            /\ x = IF r = Account!None THEN 0 ELSE Shared(r, d, A_started, n)
            /\ y = IF r = Account!None THEN 0 ELSE Shared(r, d, A_started, m)
            /\ z = IF r = Account!None THEN 0 ELSE Shared(r, d, m, A_now)
        BY <1>1, SpanIs
      <4>2. /\ A_started \in Nat /\ m \in Nat /\ n \in Nat /\ A_now \in Nat
            /\ A_started <= m /\ m <= A_now /\ n <= A_now
        BY <1>1, <1>2
      <4> HIDE DEF r, d, x, y, z, m, n
      <4>3. Shared(r, d, A_started, n)
              <= Shared(r, d, A_started, m) + Shared(r, d, m, A_now)
        BY <4>1, <4>2, SharedParts
      <4>4. QED
        BY <4>1, <4>3
    <3>3. Used(Account!ToSecond(A_now))[e] = w * x /\ Used(m)[e] = w * y
      BY <2>3 DEF Used, Weights
    <3>4. w * z <= billing[e] + A_PerUnit /\ billing[e] \in Int
      BY <1>1, <1>4, <2>3, SpansAreNumbers
    <3> HIDE DEF w, x, y, z
    <3>5. QED
      BY <1>2, <2>1, <3>1, <3>2, <3>3, <3>4
  <2>4. QED
    BY <2>2, <2>3
<1>12. /\ Sum(Used(Account!ToSecond(A_now)), A_Envs) \in Int /\ Sum(Used(m), A_Envs) \in Int
       /\ Sum(dropped, A_Envs) \in Int
       /\ Sum(Used(Account!ToSecond(A_now)), A_Envs) + Sum(Nothing, A_Envs)
            <= Sum(Used(m), A_Envs) + Sum(dropped, A_Envs)
  BY <1>2, <1>4, <1>11, SumsCompare, SumIsNumber
<1>13. /\ Sum(billing, A_Envs) \in Int /\ Sum(unit, A_Envs) \in Int
       /\ Sum(dropped, A_Envs) + Sum(Nothing, A_Envs)
            <= Sum(billing, A_Envs) + Sum(unit, A_Envs)
  <2>1. \A e \in A_Envs : /\ dropped[e] \in Int /\ Nothing[e] \in Int
                          /\ billing[e] \in Int /\ unit[e] \in Int
                          /\ dropped[e] + Nothing[e] <= billing[e] + unit[e]
    <3> SUFFICES ASSUME NEW e \in A_Envs
                 PROVE  /\ dropped[e] \in Int /\ Nothing[e] \in Int
                        /\ billing[e] \in Int /\ unit[e] \in Int
                        /\ dropped[e] + Nothing[e] <= billing[e] + unit[e]
      OBVIOUS
    <3>1. Nothing[e] = 0
      BY DEF Nothing
    <3>2. /\ dropped[e] \in Int /\ billing[e] \in Int /\ unit[e] \in Int
          /\ dropped[e] = billing[e] + unit[e]
      BY <1>4
    <3>3. QED
      BY <3>1, <3>2
  <2>2. QED
    BY <1>2, <2>1, SumsCompare, SumIsNumber
<1>14. Sum(Used(Account!ToSecond(A_now)), A_Envs)
         <= Sum(Used(m), A_Envs) + (Sum(billing, A_Envs) + Sum(unit, A_Envs))
  BY <1>12, <1>13, SumOfNothing
<1>15. QED
  BY <1>5, <1>6, <1>7, <1>8, <1>10, <1>12, <1>14

------------------------------------------------------------------------------
(* What each environment consumed, from its record alone.                  *)

SpanOf(x, s, t) ==
  IF x.ready = Account!None THEN 0
  ELSE Account!Max({0, Account!Min({t, x.ended}) - Account!Max({s, x.ready})})

OwedOf(x, s, t) ==
  Account!Weight(x.size)
    * (SpanOf(x, s, t) + IF x.ended = Account!None THEN 0 ELSE A_Units - 1)
UsedOf(x, s, t) == IF x.there THEN Account!Weight(x.size) * SpanOf(x, s, t) ELSE 0

OwedIn(en, s, t) == [e \in A_Envs |-> OwedOf(en[e], s, t)]
UsedIn(en, s, t) == [e \in A_Envs |-> UsedOf(en[e], s, t)]

\* What is owed follows from the records.
LEMMA OwedIs ==
  ASSUME NEW t
  PROVE  Owed(t) = OwedIn(A_env, A_started, t) /\ Used(t) = UsedIn(A_env, A_started, t)
BY DEF Owed, Used, OwedIn, UsedIn, OwedOf, UsedOf, SpanOf, Account!Span, Late, Account!There

\* So it does after a step.
LEMMA OwedNext ==
  /\ Sum(Owed(A_billed), A_Envs)' = Sum(OwedIn(A_env', A_started', A_billed'), A_Envs)
  /\ Sum(Owed(A_st.mark), A_Envs)' = Sum(OwedIn(A_env', A_started', A_st'.mark), A_Envs)
  /\ Sum(Used(A_obj.mark), A_Envs)' = Sum(UsedIn(A_env', A_started', A_obj'.mark), A_Envs)
  /\ Sum(Used(Account!ToSecond(A_st.mark)), A_Envs)'
       = Sum(UsedIn(A_env', A_started', Account!ToSecond(A_st'.mark)), A_Envs)
BY DEF Owed, Used, OwedIn, UsedIn, OwedOf, UsedOf, SpanOf, Account!Span, Late, Account!There

\* What is owed of one record is a number.
LEMMA OwedIsNumber ==
  ASSUME NEW x \in Account!EnvStates, NEW s \in 0..A_MaxTime, NEW t \in 0..A_MaxTime
  PROVE  /\ x.ready \in Nat /\ x.ended \in Nat
         /\ SpanOf(x, s, t) = IF x.ready = Account!None THEN 0
                              ELSE Shared(x.ready, x.ended, s, t)
         /\ SpanOf(x, s, t) \in Nat
         /\ OwedOf(x, s, t) \in Nat /\ UsedOf(x, s, t) \in Nat
<1>1. x.ready \in Nat /\ x.ended \in Nat /\ s \in Nat /\ t \in Nat
  BY MeterNumbers DEF Account!EnvStates, Account!Times
<1>2. SpanOf(x, s, t) = IF x.ready = Account!None THEN 0 ELSE Shared(x.ready, x.ended, s, t)
  BY <1>1, SharedIs DEF SpanOf
<1>3. SpanOf(x, s, t) \in Nat
  BY <1>1, <1>2 DEF Shared
<1>4. /\ (IF x.ended = Account!None THEN 0 ELSE A_Units - 1) \in Nat
      /\ Account!Weight(x.size) \in {1, 2, 6}
  BY MeterNumbers, WeightIs
<1>5. OwedOf(x, s, t) \in Nat
  <2>1. SpanOf(x, s, t) + (IF x.ended = Account!None THEN 0 ELSE A_Units - 1) \in Nat
    BY <1>3, <1>4
  <2>2. QED
    BY <1>4, <2>1 DEF OwedOf
<1>6. UsedOf(x, s, t) \in Nat
  BY <1>3, <1>4 DEF UsedOf
<1>7. QED
  BY <1>1, <1>2, <1>3, <1>5, <1>6

------------------------------------------------------------------------------
(* The steps.                                                              *)

\* While the environments and the marks stay as they are, so does what was consumed.
LEMMA NothingConsumed ==
  ASSUME UNCHANGED <<A_env, A_started>>
  PROVE  /\ Slack' = Slack
         /\ UNCHANGED A_billed => Sum(Owed(A_billed), A_Envs)' = Sum(Owed(A_billed), A_Envs)
         /\ UNCHANGED A_st => Sum(Owed(A_st.mark), A_Envs)' = Sum(Owed(A_st.mark), A_Envs)
         /\ UNCHANGED A_obj =>
              Sum(Used(A_obj.mark), A_Envs)' = Sum(Used(A_obj.mark), A_Envs)
         /\ UNCHANGED A_st =>
              Sum(Used(Account!ToSecond(A_st.mark)), A_Envs)'
                = Sum(Used(Account!ToSecond(A_st.mark)), A_Envs)
<1>1. Slack' = Slack
  BY DEF Slack, Weights
<1>2. QED
  BY <1>1, OwedIs, OwedNext

\* A step that writes nothing and moves nothing but the clock.
LEMMA Quiet ==
  ASSUME AccountInv, UNCHANGED <<A_obj, A_env, Account!history>>, A_now <= A_now',
         A_now' \in 0..A_MaxTime,
         A_view' \in Records, A_snap' \in Records, A_st' \in Records, PassKnows',
         A_pc' = "finish" /\ A_fresh' => A_pc = "finish" /\ A_fresh /\ A_st' = A_st
  PROVE  AccountInv'
<1>1. AccountTypes'
  BY DEF AccountInv, AccountTypes, Account!history, Account!EnvStates, Account!Times
<1>2. MarksAgree'
  BY DEF AccountInv, AccountTypes, MarksAgree, Account!history
<1>3. NotOver'
  <2>1. SUFFICES ASSUME A_started' # Account!None PROVE NotOver'
    BY DEF NotOver
  <2>2. /\ A_started # Account!None
        /\ A_PerUnit * A_obj.total + Slack
             <= Sum(Owed(A_billed), A_Envs) + A_counted * Slack
        /\ A_pc = "finish" /\ A_fresh =>
             A_PerUnit * A_st.total <= Sum(Owed(A_st.mark), A_Envs) + A_counted * Slack
    BY <2>1 DEF AccountInv, NotOver, Account!history
  <2>3. /\ Slack' = Slack /\ Sum(Owed(A_billed), A_Envs)' = Sum(Owed(A_billed), A_Envs)
        /\ UNCHANGED A_st => Sum(Owed(A_st.mark), A_Envs)' = Sum(Owed(A_st.mark), A_Envs)
    BY NothingConsumed DEF Account!history
  <2>4. A_PerUnit * A_obj'.total + Slack'
          <= Sum(Owed(A_billed), A_Envs)' + A_counted' * Slack'
    BY <2>2, <2>3 DEF Account!history
  <2>5. ASSUME A_pc' = "finish", A_fresh'
        PROVE  A_PerUnit * A_st'.total
                 <= Sum(Owed(A_st.mark), A_Envs)' + A_counted' * Slack'
    BY <2>2, <2>3, <2>5 DEF Account!history
  <2>6. QED
    BY <2>4, <2>5 DEF NotOver
<1>4. NotUnder'
  <2>1. SUFFICES ASSUME A_started' # Account!None PROVE NotUnder'
    BY DEF NotUnder
  <2>2. /\ Sum(Used(A_obj.mark), A_Envs)
             <= A_PerUnit * (A_obj.total + A_counted * Cardinality(A_Envs))
        /\ A_pc = "finish" /\ A_fresh =>
             Sum(Used(Account!ToSecond(A_st.mark)), A_Envs)
               <= A_PerUnit * (A_st.total + (A_counted + 1) * Cardinality(A_Envs))
    BY <2>1 DEF AccountInv, NotUnder, Account!history
  <2>3. /\ Sum(Used(A_obj.mark), A_Envs)' = Sum(Used(A_obj.mark), A_Envs)
        /\ UNCHANGED A_st =>
             Sum(Used(Account!ToSecond(A_st.mark)), A_Envs)'
               = Sum(Used(Account!ToSecond(A_st.mark)), A_Envs)
    BY NothingConsumed DEF Account!history
  <2>4. Sum(Used(A_obj.mark), A_Envs)'
          <= A_PerUnit * (A_obj'.total + A_counted' * Cardinality(A_Envs))
    BY <2>2, <2>3 DEF Account!history
  <2>5. ASSUME A_pc' = "finish", A_fresh'
        PROVE  Sum(Used(Account!ToSecond(A_st.mark)), A_Envs)'
                 <= A_PerUnit * (A_st'.total + (A_counted' + 1) * Cardinality(A_Envs))
    BY <2>2, <2>3, <2>5 DEF Account!history
  <2>6. QED
    BY <2>4, <2>5 DEF NotUnder
<1>5. QED
  BY <1>1, <1>2, <1>3, <1>4 DEF AccountInv

\* What a pass adds is a number, whatever watermark it read.
LEMMA AccruedIsNumber ==
  ASSUME AccountTypes, NEW s \in Account!Times
  PROVE  Account!Accrued(s, A_now) \in Int
<1>1. CASE s = Account!None
  <2>1. Account!Accrued(s, A_now) = 0
    BY <1>1 DEF Account!Accrued
  <2>2. QED
    BY <2>1
<1>2. CASE s # Account!None
  <2>1. s \in 0..A_MaxTime /\ A_now \in 0..A_MaxTime
    BY <1>2, MeterNumbers DEF Account!Times, AccountTypes
  <2>2. IsFiniteSet(Account!There) /\ \A e \in Account!There : Shares(s, A_now)[e] \in Int
    <3>1. Account!There \in SUBSET A_Envs
      BY DEF Account!There
    <3>2. IsFiniteSet(Account!There)
      BY <3>1, MeterNumbers, FS_Subset
    <3>3. ASSUME NEW e \in Account!There PROVE Shares(s, A_now)[e] \in Int
      <4>1. e \in A_Envs
        BY <3>1
      <4>2. Shares(s, A_now)[e] \in Nat
        BY <2>1, <4>1, SpansAreNumbers
      <4>3. QED
        BY <4>2
    <3>4. QED
      BY <3>2, <3>3
  <2>3. Account!There \in SUBSET Account!There
    OBVIOUS
  <2>4. Sum(Shares(s, A_now), Account!There) \in Int
    BY <2>2, <2>3, SumIsNumber
  <2>5. QED
    BY <1>2, <2>4, AccruedIs
<1>3. QED
  BY <1>1, <1>2

\* A pass that accrues.
LEMMA NextAccount ==
  ASSUME AccountInv, Account!Account
  PROVE  AccountInv'
<1> DEFINE more == Account!Accrued(A_st.mark, A_now)
<1>1. /\ A_pc = "pass" /\ A_pc' = "finish"
      /\ UNCHANGED <<A_obj, A_view, A_current, A_snap, A_fresh>>
      /\ UNCHANGED <<A_env, A_now, A_started, A_billed, A_counted>>
      /\ A_st' = [mark |-> A_now, total |-> A_st.total + more, open |-> Account!Open,
                within |-> Account!Open < A_Quota]
  BY DEF Account!Account, Account!GoTo, Account!stored, Account!history
<1>2. more \in Int
  BY AccruedIsNumber DEF AccountInv, AccountTypes, Records
<1>3. Account!Open \in Nat
  <2>1. {e \in Account!There : A_env[e].ended = Account!None} \in SUBSET A_Envs
    BY DEF Account!There
  <2>2. Cardinality({e \in Account!There : A_env[e].ended = Account!None}) \in Nat
    BY <2>1, MeterNumbers, FS_Subset, FS_CardinalityType
  <2>3. QED
    BY <2>2 DEF Account!Open, Account!Cardinality, Cardinality
<1> HIDE DEF more
<1>4. A_st' \in Records /\ A_st'.mark = A_now /\ A_st'.total = A_st.total + more
  <2>1. A_now \in Account!Times /\ A_st.total \in Int
    BY MeterNumbers DEF AccountInv, AccountTypes, Records, Account!Times
  <2>2. QED
    BY <1>1, <1>2, <1>3, <2>1 DEF Records
<1>5. AccountTypes'
  BY <1>1, <1>4 DEF AccountInv, AccountTypes
<1>6. MarksAgree'
  BY <1>1 DEF AccountInv, MarksAgree
<1>7. A_fresh => A_st = A_obj
  BY <1>1 DEF AccountInv, PassKnows
<1>8. PassKnows'
  <2>1. A_now \in Int /\ 0 <= A_now /\ (A_started # Account!None => A_billed <= A_now)
    BY MeterNumbers DEF AccountInv, AccountTypes, MarksAgree
  <2>2. A_fresh /\ A_started = Account!None => A_st'.total = 0
    <3>1. SUFFICES ASSUME A_fresh, A_started = Account!None PROVE A_st'.total = 0
      OBVIOUS
    <3>2. A_st.mark = Account!None /\ A_st.total = 0
      BY <1>7, <3>1 DEF AccountInv, MarksAgree
    <3>3. more = 0
      BY <3>2 DEF more, Account!Accrued
    <3>4. QED
      BY <1>4, <3>2, <3>3
  <2>3. QED
    BY <1>1, <1>4, <2>1, <2>2 DEF AccountInv, PassKnows
<1>9. ASSUME A_started # Account!None, A_fresh
      PROVE  /\ Sum(Owed(A_billed), A_Envs) \in Int /\ Sum(Owed(A_now), A_Envs) \in Int
             /\ Sum(Used(A_obj.mark), A_Envs) \in Int
             /\ Sum(Used(Account!ToSecond(A_now)), A_Envs) \in Int
             /\ Sum(Owed(A_billed), A_Envs) + A_PerUnit * more
                  <= Sum(Owed(A_now), A_Envs) + Slack
             /\ Sum(Used(Account!ToSecond(A_now)), A_Envs)
                  <= Sum(Used(A_obj.mark), A_Envs)
                     + (A_PerUnit * more + A_PerUnit * Cardinality(A_Envs))
  BY <1>7, <1>9, AccrualIsRight DEF AccountInv, more
<1>10. /\ A_obj.total \in Int
       /\ A_counted \in Nat
       /\ Slack \in Int
       /\ Cardinality(A_Envs) \in Nat
       /\ A_PerUnit \in Nat
  BY MeterNumbers, SumsAreNumbers DEF AccountInv, AccountTypes, Records
<1>11. /\ Slack' = Slack
       /\ Sum(Owed(A_billed), A_Envs)' = Sum(Owed(A_billed), A_Envs)
       /\ Sum(Owed(A_st.mark), A_Envs)' = Sum(Owed(A_now), A_Envs)
       /\ Sum(Used(A_obj.mark), A_Envs)' = Sum(Used(A_obj.mark), A_Envs)
       /\ Sum(Used(Account!ToSecond(A_st.mark)), A_Envs)'
            = Sum(Used(Account!ToSecond(A_now)), A_Envs)
  BY <1>1, <1>4, NothingConsumed, OwedIs, OwedNext
<1>12. NotOver'
  <2>1. SUFFICES ASSUME A_started' # Account!None PROVE NotOver'
    BY DEF NotOver
  <2>2. /\ A_started # Account!None
        /\ A_PerUnit * A_obj.total + Slack <= Sum(Owed(A_billed), A_Envs) + A_counted * Slack
    BY <1>1, <2>1 DEF AccountInv, NotOver
  <2>3. A_fresh =>
          A_PerUnit * (A_obj.total + more) <= Sum(Owed(A_now), A_Envs) + A_counted * Slack
    <3>1. SUFFICES ASSUME A_fresh
                   PROVE  A_PerUnit * (A_obj.total + more)
                            <= Sum(Owed(A_now), A_Envs) + A_counted * Slack
      OBVIOUS
    <3>2. /\ A_PerUnit * (A_obj.total + more) = A_PerUnit * A_obj.total + A_PerUnit * more
          /\ A_PerUnit * A_obj.total \in Int
          /\ A_PerUnit * more \in Int
          /\ A_counted * Slack \in Int
      BY <1>2, <1>10, Distributes
    <3>3. QED
      BY <1>9, <1>10, <2>2, <3>1, <3>2
  <2>4. A_fresh => A_st'.total = A_obj.total + more
    BY <1>4, <1>7
  <2>5. QED
    BY <1>1, <1>11, <2>2, <2>3, <2>4 DEF NotOver
<1>13. NotUnder'
  <2>1. SUFFICES ASSUME A_started' # Account!None PROVE NotUnder'
    BY DEF NotUnder
  <2> DEFINE n == Cardinality(A_Envs)
  <2>2. /\ A_started # Account!None
        /\ Sum(Used(A_obj.mark), A_Envs) <= A_PerUnit * (A_obj.total + A_counted * n)
    BY <1>1, <2>1 DEF AccountInv, NotUnder
  <2> HIDE DEF n
  <2>3. A_fresh => Sum(Used(Account!ToSecond(A_now)), A_Envs)
                   <= A_PerUnit * ((A_obj.total + more) + (A_counted + 1) * n)
    <3>1. SUFFICES ASSUME A_fresh
                   PROVE  Sum(Used(Account!ToSecond(A_now)), A_Envs)
                            <= A_PerUnit * ((A_obj.total + more) + (A_counted + 1) * n)
      OBVIOUS
    <3>2. n \in Nat /\ (A_counted + 1) * n = A_counted * n + n /\ A_counted * n \in Int
      BY <1>10 DEF n
    <3>3. (A_obj.total + more) + (A_counted + 1) * n
            = (A_obj.total + A_counted * n) + (more + n)
      BY <1>2, <1>10, <3>2
    <3>4. A_PerUnit * ((A_obj.total + A_counted * n) + (more + n))
            = A_PerUnit * (A_obj.total + A_counted * n) + A_PerUnit * (more + n)
      <4>1. (A_obj.total + A_counted * n) \in Int /\ (more + n) \in Int /\ A_PerUnit \in Int
        BY <1>2, <1>10, <3>2
      <4>2. QED
        BY <4>1, Distributes
    <3>5. A_PerUnit * (more + n) = A_PerUnit * more + A_PerUnit * n
      <4>1. more \in Int /\ n \in Int /\ A_PerUnit \in Int
        BY <1>2, <1>10, <3>2
      <4>2. QED
        BY <4>1, Distributes
    <3>6. /\ A_PerUnit * (A_obj.total + A_counted * n) \in Int
          /\ A_PerUnit * more \in Int /\ A_PerUnit * n \in Int
      <4>1. /\ (A_obj.total + A_counted * n) \in Int
            /\ more \in Int
            /\ n \in Int
            /\ A_PerUnit \in Int
        BY <1>2, <1>10, <3>2
      <4>2. QED
        BY <4>1, Distributes
    <3>7. /\ Sum(Used(A_obj.mark), A_Envs) \in Int
          /\ Sum(Used(Account!ToSecond(A_now)), A_Envs) \in Int
          /\ Sum(Used(Account!ToSecond(A_now)), A_Envs)
               <= Sum(Used(A_obj.mark), A_Envs) + (A_PerUnit * more + A_PerUnit * n)
      BY <1>9, <2>2, <3>1 DEF n
    <3>8. QED
      BY <2>2, <3>3, <3>4, <3>5, <3>6, <3>7
  <2>4. A_fresh => A_st'.total = A_obj.total + more
    BY <1>4, <1>7
  <2>5. QED
    BY <1>1, <1>11, <2>2, <2>3, <2>4 DEF NotUnder, n
<1>14. QED
  BY <1>5, <1>6, <1>8, <1>12, <1>13 DEF AccountInv

\* The status is written: what was pending is what is stored.
LEMMA NextSaved ==
  ASSUME AccountInv, Account!Save, A_fresh, Account!Recorded(A_st) # A_obj
  PROVE  AccountInv'
<1>1. /\ A_obj' = [A_st EXCEPT !.mark = Account!ToSecond(A_st.mark)] /\ A_current' = FALSE
      /\ UNCHANGED <<A_view, A_env, A_now>>
      /\ A_pc = "finish"
      /\ A_pc' = "idle"
      /\ A_snap' = A_view
      /\ A_st' = A_view
      /\ ~A_fresh'
      /\ A_started'
           = (IF A_started = Account!None THEN Account!ToSecond(A_st.mark) ELSE A_started)
      /\ A_billed' = A_st.mark /\ A_counted' = A_counted + 1
  BY DEF Account!Save, Account!Store, Account!Return, Account!EndPass, Account!Recorded
<1>2. /\ A_st.mark \in 0..A_now /\ A_now \in 0..A_MaxTime
      /\ A_started = Account!None => A_st.total = 0 /\ A_counted = 0
      /\ A_started # Account!None => A_billed \in Nat /\ A_billed <= A_st.mark
  BY <1>1 DEF AccountInv, PassKnows, AccountTypes, MarksAgree
<1> DEFINE mark == Account!ToSecond(A_st.mark)
<1>3. /\ mark \in 0..A_MaxTime
      /\ mark <= A_st.mark
      /\ mark \in Account!Times
      /\ mark # Account!None
  <2>1. A_st.mark \in Nat /\ A_st.mark <= A_MaxTime
    BY <1>2, MeterNumbers
  <2>2. mark \in Nat /\ mark <= A_st.mark
    BY <2>1, SecondIs
  <2>3. QED
    BY <2>1, <2>2, MeterNumbers DEF Account!Times
<1> HIDE DEF mark
<1>4. A_obj' \in Records /\ A_obj'.mark = mark /\ A_obj'.total = A_st.total
  <2>1. A_st \in Records
    BY DEF AccountInv, AccountTypes
  <2>2. A_obj' = [A_st EXCEPT !.mark = mark]
    BY <1>1 DEF mark
  <2>3. QED
    BY <1>3, <2>1, <2>2 DEF Records
<1>5. AccountTypes'
  BY <1>1, <1>4 DEF AccountInv, AccountTypes
<1>6. /\ A_started' \in 0..A_MaxTime
      /\ A_started' # Account!None
      /\ A_started' <= mark
      /\ A_billed' \in 0..A_now'
  <2>1. CASE A_started = Account!None
    BY <1>1, <1>2, <1>3, <2>1, MeterNumbers DEF mark
  <2>2. CASE A_started # Account!None
    <3>1. /\ A_started' = A_started
          /\ A_started \in 0..A_MaxTime
          /\ A_started <= Account!ToSecond(A_billed)
      BY <1>1, <2>2 DEF AccountInv, MarksAgree
    <3>2. Account!ToSecond(A_billed) <= mark
      <4>1. A_st.mark \in Nat
        BY <1>2
      <4>2. QED
        BY <1>2, <2>2, <4>1, SecondsGrow DEF mark
    <3>3. Account!ToSecond(A_billed) \in Nat
      BY <1>2, <2>2, SecondIs
    <3>4. QED
      BY <1>1, <1>2, <1>3, <2>2, <3>1, <3>2, <3>3
  <2>3. QED
    BY <2>1, <2>2
<1>7. MarksAgree'
  BY <1>1, <1>4, <1>6 DEF MarksAgree, mark
<1>8. PassKnows'
  BY <1>1 DEF PassKnows
<1>9. /\ Slack' = Slack
      /\ Sum(Owed(A_billed), A_Envs)' = Sum(OwedIn(A_env, A_started', A_st.mark), A_Envs)
      /\ Sum(Used(A_obj.mark), A_Envs)' = Sum(UsedIn(A_env, A_started', mark), A_Envs)
  BY <1>1, <1>4, OwedNext DEF Slack, Weights
<1>10. /\ A_counted \in Nat /\ Slack \in Int /\ Cardinality(A_Envs) \in Nat
       /\ A_PerUnit \in Nat /\ A_st.total \in Int
  BY MeterNumbers, SumsAreNumbers DEF AccountInv, AccountTypes, Records
<1>11. ASSUME NEW e \in A_Envs
       PROVE  A_env[e] \in Account!EnvStates
  BY DEF AccountInv, AccountTypes
<1>12. A_PerUnit * A_st.total + Slack
         <= Sum(OwedIn(A_env, A_started', A_st.mark), A_Envs) + (A_counted + 1) * Slack
  <2>1. A_counted * Slack \in Int /\ A_PerUnit * A_st.total \in Int
        /\ (A_counted + 1) * Slack = A_counted * Slack + Slack
    BY <1>10
  <2>2. A_st.mark \in 0..A_MaxTime
    BY <1>2, MeterNumbers
  <2>3. /\ Sum(OwedIn(A_env, A_started', A_st.mark), A_Envs) \in Int
        /\ 0 <= Sum(OwedIn(A_env, A_started', A_st.mark), A_Envs)
    <3> DEFINE f == OwedIn(A_env, A_started', A_st.mark)
    <3>1. \A e \in A_Envs : f[e] = OwedOf(A_env[e], A_started', A_st.mark)
      BY DEF OwedIn
    <3>2. \A e \in A_Envs : f[e] \in Nat
      BY <1>6, <1>11, <2>2, <3>1, OwedIsNumber
    <3>3. \A e \in A_Envs : Nothing[e] = 0
      BY DEF Nothing
    <3> HIDE DEF f
    <3>4. ASSUME NEW e \in A_Envs
          PROVE  Nothing[e] \in Int /\ f[e] \in Int /\ Nothing[e] <= f[e]
      <4>1. f[e] \in Nat /\ Nothing[e] = 0
        BY <3>2, <3>3
      <4>2. QED
        BY <4>1
    <3>5. Sum(f, A_Envs) \in Int /\ Sum(Nothing, A_Envs) <= Sum(f, A_Envs)
      BY <3>4, SumsGrow
    <3>6. QED
      BY <3>5, SumOfNothing DEF f
  <2>4. CASE A_started = Account!None
    <3>1. A_PerUnit * 0 = 0 /\ 0 * Slack = 0
      BY <1>10
    <3>2. QED
      BY <1>2, <1>10, <2>1, <2>3, <2>4, <3>1
  <2>5. CASE A_started # Account!None
    <3>1. A_PerUnit * A_st.total <= Sum(Owed(A_st.mark), A_Envs) + A_counted * Slack
      BY <1>1, <2>5 DEF AccountInv, NotOver
    <3>2. Owed(A_st.mark) = OwedIn(A_env, A_started', A_st.mark)
      BY <1>1, <2>5, OwedIs
    <3>3. QED
      BY <1>10, <2>1, <2>3, <3>1, <3>2
  <2>6. QED
    BY <2>4, <2>5
<1>13. Sum(UsedIn(A_env, A_started', mark), A_Envs)
         <= A_PerUnit * (A_st.total + (A_counted + 1) * Cardinality(A_Envs))
  <2>1. CASE A_started = Account!None
    <3> DEFINE f == UsedIn(A_env, A_started', mark)
               n == Cardinality(A_Envs)
    <3>1. A_started' = mark
      BY <1>1, <2>1 DEF mark
    <3>2. ASSUME NEW e \in A_Envs PROVE f[e] = 0
      <4>1. SpanOf(A_env[e], mark, mark) = 0
        <5>1. /\ A_env[e].ready \in Nat /\ A_env[e].ended \in Nat
              /\ SpanOf(A_env[e], mark, mark) =
                   IF A_env[e].ready = Account!None THEN 0
                   ELSE Shared(A_env[e].ready, A_env[e].ended, mark, mark)
          BY <1>3, <1>11, OwedIsNumber
        <5>2. Shared(A_env[e].ready, A_env[e].ended, mark, mark) = 0
          <6>1. \A r, d, s \in Nat : Shared(r, d, s, s) = 0
            BY DEF Shared
          <6>2. mark \in Nat
            BY <1>3
          <6>3. QED
            BY <5>1, <6>1, <6>2
        <5>3. QED
          BY <5>1, <5>2
      <4>2. Account!Weight(A_env[e].size) * 0 = 0
        BY WeightIs
      <4>3. QED
        BY <3>1, <4>1, <4>2 DEF UsedIn, UsedOf
    <3>3. \A e \in A_Envs : Nothing[e] = 0
      BY DEF Nothing
    <3> HIDE DEF f
    <3>4. ASSUME NEW e \in A_Envs
          PROVE  f[e] \in Int /\ Nothing[e] \in Int /\ f[e] <= Nothing[e]
      <4>1. f[e] = 0 /\ Nothing[e] = 0
        BY <3>2, <3>3
      <4>2. QED
        BY <4>1
    <3>5. Sum(f, A_Envs) <= 0
      BY <3>4, SumsGrow, SumOfNothing
    <3>6. /\ Sum(f, A_Envs) \in Int
          /\ A_PerUnit * (A_st.total + (A_counted + 1) * n) \in Nat
      <4>1. A_st.total = 0 /\ A_counted = 0 /\ n \in Nat
        BY <1>2, <1>10, <2>1
      <4>2. Sum(f, A_Envs) \in Int
        BY <3>4, SumsGrow
      <4> HIDE DEF n
      <4>3. A_st.total + (A_counted + 1) * n = n
        BY <4>1
      <4>4. A_PerUnit * n \in Nat
        BY <1>10, <4>1
      <4>5. QED
        BY <4>2, <4>3, <4>4
    <3> HIDE DEF n
    <3>7. Sum(f, A_Envs) <= A_PerUnit * (A_st.total + (A_counted + 1) * n)
      BY <3>5, <3>6
    <3>8. QED
      BY <3>7 DEF f, n
  <2>2. CASE A_started # Account!None
    <3>1. Sum(Used(mark), A_Envs)
            <= A_PerUnit * (A_st.total + (A_counted + 1) * Cardinality(A_Envs))
      BY <1>1, <2>2 DEF AccountInv, NotUnder, mark
    <3>2. Used(mark) = UsedIn(A_env, A_started', mark)
      BY <1>1, <2>2, OwedIs
    <3>3. QED
      BY <3>1, <3>2
  <2>3. QED
    BY <2>1, <2>2
<1>14. NotOver' /\ NotUnder'
  BY <1>1, <1>4, <1>9, <1>12, <1>13 DEF NotOver, NotUnder
<1>15. QED
  BY <1>5, <1>7, <1>8, <1>14 DEF AccountInv

\* An environment's record changes, and no less has been consumed than before to any time
\* that has been, and no more of those still there to the second of it.
LEMMA EnvMoves ==
  ASSUME AccountInv, NEW e \in A_Envs, NEW y \in Account!EnvStates,
         A_env' = [A_env EXCEPT ![e] = y],
         UNCHANGED <<Account!stored, Account!pass, A_now, Account!history>>,
         y.size = A_env[e].size,
         y.ready # Account!None => y.ready <= A_now,
         y.ended # Account!None => y.ready # Account!None /\ y.ended <= A_now,
         A_started # Account!None => \A t \in 0..A_now :
           /\ OwedOf(A_env[e], A_started, t) <= OwedOf(y, A_started, t)
           /\ UsedOf(y, A_started, Account!ToSecond(t))
                <= UsedOf(A_env[e], A_started, Account!ToSecond(t))
  PROVE  AccountInv'
<1>1. /\ UNCHANGED <<A_obj, A_view, A_current, A_pc, A_snap, A_fresh, A_st>>
      /\ UNCHANGED <<A_now, A_started, A_billed, A_counted>>
      /\ A_env \in [A_Envs -> Account!EnvStates] /\ A_now \in 0..A_MaxTime
  BY DEF Account!stored, Account!pass, Account!history, AccountInv, AccountTypes
<1>2. \A x \in A_Envs : A_env'[x] = IF x = e THEN y ELSE A_env[x]
  BY <1>1
<1>3. AccountTypes'
  <2>1. A_env' \in [A_Envs -> Account!EnvStates]
    BY <1>1
  <2>2. \A x \in A_Envs : /\ A_env'[x].ready # Account!None => A_env'[x].ready <= A_now
                          /\ A_env'[x].ended # Account!None =>
                               A_env'[x].ready # Account!None /\ A_env'[x].ended <= A_now
    BY <1>2 DEF AccountInv, AccountTypes
  <2>3. QED
    BY <1>1, <2>1, <2>2 DEF AccountInv, AccountTypes
<1>4. MarksAgree' /\ PassKnows'
  BY <1>1 DEF AccountInv, MarksAgree, PassKnows
<1>5. Slack' = Slack
  <2>1. \A x \in A_Envs : Account!Weight(A_env'[x].size) = Account!Weight(A_env[x].size)
    BY <1>2
  <2>2. Weights' = Weights
    BY <2>1 DEF Weights
  <2>3. QED
    BY <2>2 DEF Slack
<1>6. ASSUME A_started # Account!None, NEW t \in 0..A_now
      PROVE  /\ Sum(OwedIn(A_env, A_started, t), A_Envs) \in Int
             /\ Sum(OwedIn(A_env', A_started, t), A_Envs) \in Int
             /\ Sum(OwedIn(A_env, A_started, t), A_Envs)
                  <= Sum(OwedIn(A_env', A_started, t), A_Envs)
             /\ Sum(UsedIn(A_env, A_started, Account!ToSecond(t)), A_Envs) \in Int
             /\ Sum(UsedIn(A_env', A_started, Account!ToSecond(t)), A_Envs) \in Int
             /\ Sum(UsedIn(A_env', A_started, Account!ToSecond(t)), A_Envs)
                  <= Sum(UsedIn(A_env, A_started, Account!ToSecond(t)), A_Envs)
  <2> DEFINE o == OwedIn(A_env, A_started, t)
             p == OwedIn(A_env', A_started, t)
             u == UsedIn(A_env, A_started, Account!ToSecond(t))
             v == UsedIn(A_env', A_started, Account!ToSecond(t))
  <2>1. /\ A_started \in 0..A_MaxTime
        /\ t \in 0..A_MaxTime
        /\ Account!ToSecond(t) \in 0..A_MaxTime
    <3>1. t \in Nat /\ t <= A_MaxTime /\ A_started \in 0..A_MaxTime
      BY <1>1, <1>6, MeterNumbers DEF AccountInv, MarksAgree
    <3>2. Account!ToSecond(t) \in Nat /\ Account!ToSecond(t) <= t
      BY <3>1, SecondIs
    <3>3. QED
      BY <3>1, <3>2, MeterNumbers
  <2>2. ASSUME NEW x \in A_Envs
        PROVE  o[x] \in Int /\ p[x] \in Int /\ u[x] \in Int /\ v[x] \in Int
               /\ o[x] <= p[x] /\ v[x] <= u[x]
    <3>1. /\ o[x] = OwedOf(A_env[x], A_started, t) /\ p[x] = OwedOf(A_env'[x], A_started, t)
          /\ u[x] = UsedOf(A_env[x], A_started, Account!ToSecond(t))
          /\ v[x] = UsedOf(A_env'[x], A_started, Account!ToSecond(t))
      BY DEF OwedIn, UsedIn
    <3>2. A_env[x] \in Account!EnvStates /\ A_env'[x] \in Account!EnvStates
      BY <1>1, <1>2
    <3>3. o[x] \in Nat /\ p[x] \in Nat /\ u[x] \in Nat /\ v[x] \in Nat
      BY <2>1, <3>1, <3>2, OwedIsNumber
    <3>4. CASE x = e
      BY <1>2, <1>6, <3>1, <3>3, <3>4
    <3>5. CASE x # e
      <4>1. A_env'[x] = A_env[x]
        BY <1>2, <3>5
      <4>2. p[x] = o[x] /\ v[x] = u[x]
        BY <3>1, <4>1
      <4>3. QED
        BY <3>3, <4>2
    <3>6. QED
      BY <3>4, <3>5
  <2> HIDE DEF o, p, u, v
  <2>3. Sum(o, A_Envs) \in Int /\ Sum(p, A_Envs) \in Int /\ Sum(o, A_Envs) <= Sum(p, A_Envs)
    BY <2>2, SumsGrow
  <2>4. Sum(v, A_Envs) \in Int /\ Sum(u, A_Envs) \in Int /\ Sum(v, A_Envs) <= Sum(u, A_Envs)
    BY <2>2, SumsGrow
  <2>5. QED
    BY <2>3, <2>4 DEF o, p, u, v
<1>7. /\ A_counted \in Nat
      /\ Slack \in Int
      /\ Cardinality(A_Envs) \in Nat
      /\ A_PerUnit \in Nat
      /\ A_obj.total \in Int /\ A_st.total \in Int
  BY MeterNumbers, SumsAreNumbers DEF AccountInv, AccountTypes, Records
<1>8. /\ A_counted * Slack \in Int
      /\ A_PerUnit * A_obj.total \in Int
      /\ A_PerUnit * A_st.total \in Int
      /\ A_PerUnit * (A_obj.total + A_counted * Cardinality(A_Envs)) \in Int
      /\ A_PerUnit * (A_st.total + (A_counted + 1) * Cardinality(A_Envs)) \in Int
  <2>1. /\ A_counted * Cardinality(A_Envs) \in Int
        /\ (A_counted + 1) * Cardinality(A_Envs) \in Int
    BY <1>7
  <2>2. /\ A_obj.total + A_counted * Cardinality(A_Envs) \in Int
        /\ A_st.total + (A_counted + 1) * Cardinality(A_Envs) \in Int
    BY <1>7, <2>1
  <2>3. QED
    BY <1>7, <2>2, Distributes
<1>9. /\ A_started # Account!None =>
            /\ A_billed \in 0..A_now /\ A_obj.mark = Account!ToSecond(A_billed)
            /\ A_pc = "finish" /\ A_fresh => A_st.mark \in 0..A_now
  BY DEF AccountInv, MarksAgree, PassKnows
<1>10. /\ Sum(Owed(A_billed), A_Envs)' = Sum(OwedIn(A_env', A_started, A_billed), A_Envs)
       /\ Sum(Owed(A_st.mark), A_Envs)' = Sum(OwedIn(A_env', A_started, A_st.mark), A_Envs)
       /\ Sum(Used(A_obj.mark), A_Envs)'
            = Sum(UsedIn(A_env', A_started, A_obj.mark), A_Envs)
       /\ Sum(Used(Account!ToSecond(A_st.mark)), A_Envs)'
            = Sum(UsedIn(A_env', A_started, Account!ToSecond(A_st.mark)), A_Envs)
  BY <1>1, OwedNext
<1>11. NotOver'
  <2>1. SUFFICES ASSUME A_started' # Account!None PROVE NotOver'
    BY DEF NotOver
  <2>2. A_PerUnit * A_obj.total + Slack <= Sum(Owed(A_billed), A_Envs)' + A_counted * Slack
    <3>1. A_PerUnit * A_obj.total + Slack
            <= Sum(OwedIn(A_env, A_started, A_billed), A_Envs) + A_counted * Slack
      BY <1>1, <2>1, OwedIs DEF AccountInv, NotOver
    <3>2. /\ Sum(OwedIn(A_env, A_started, A_billed), A_Envs) \in Int
          /\ Sum(OwedIn(A_env', A_started, A_billed), A_Envs) \in Int
          /\ Sum(OwedIn(A_env, A_started, A_billed), A_Envs)
               <= Sum(OwedIn(A_env', A_started, A_billed), A_Envs)
      BY <1>1, <1>6, <1>9, <2>1
    <3>3. A_PerUnit * A_obj.total + Slack
            <= Sum(OwedIn(A_env', A_started, A_billed), A_Envs) + A_counted * Slack
      BY <1>7, <1>8, <3>1, <3>2
    <3>4. QED
      BY <1>10, <3>3
  <2>3. ASSUME A_pc = "finish", A_fresh
        PROVE  A_PerUnit * A_st.total <= Sum(Owed(A_st.mark), A_Envs)' + A_counted * Slack
    <3>1. A_PerUnit * A_st.total
            <= Sum(OwedIn(A_env, A_started, A_st.mark), A_Envs) + A_counted * Slack
      BY <1>1, <2>1, <2>3, OwedIs DEF AccountInv, NotOver
    <3>2. /\ Sum(OwedIn(A_env, A_started, A_st.mark), A_Envs) \in Int
          /\ Sum(OwedIn(A_env', A_started, A_st.mark), A_Envs) \in Int
          /\ Sum(OwedIn(A_env, A_started, A_st.mark), A_Envs)
               <= Sum(OwedIn(A_env', A_started, A_st.mark), A_Envs)
      BY <1>1, <1>6, <1>9, <2>1, <2>3
    <3>3. A_PerUnit * A_st.total
            <= Sum(OwedIn(A_env', A_started, A_st.mark), A_Envs) + A_counted * Slack
      BY <1>8, <3>1, <3>2
    <3>4. QED
      BY <1>10, <3>3
  <2>4. QED
    BY <1>1, <1>5, <2>2, <2>3 DEF NotOver
<1>12. NotUnder'
  <2>1. SUFFICES ASSUME A_started' # Account!None PROVE NotUnder'
    BY DEF NotUnder
  <2>2. Sum(Used(A_obj.mark), A_Envs)'
          <= A_PerUnit * (A_obj.total + A_counted * Cardinality(A_Envs))
    <3>1. Sum(UsedIn(A_env, A_started, Account!ToSecond(A_billed)), A_Envs)
            <= A_PerUnit * (A_obj.total + A_counted * Cardinality(A_Envs))
      BY <1>1, <1>9, <2>1, OwedIs DEF AccountInv, NotUnder
    <3>2. /\ Sum(UsedIn(A_env, A_started, Account!ToSecond(A_billed)), A_Envs) \in Int
          /\ Sum(UsedIn(A_env', A_started, Account!ToSecond(A_billed)), A_Envs) \in Int
          /\ Sum(UsedIn(A_env', A_started, Account!ToSecond(A_billed)), A_Envs)
               <= Sum(UsedIn(A_env, A_started, Account!ToSecond(A_billed)), A_Envs)
      BY <1>1, <1>6, <1>9, <2>1
    <3>3. Sum(UsedIn(A_env', A_started, Account!ToSecond(A_billed)), A_Envs)
            <= A_PerUnit * (A_obj.total + A_counted * Cardinality(A_Envs))
      BY <1>8, <3>1, <3>2
    <3>4. A_obj.mark = Account!ToSecond(A_billed)
      BY <1>1, <1>9, <2>1
    <3>5. QED
      BY <1>10, <3>3, <3>4
  <2>3. ASSUME A_pc = "finish", A_fresh
        PROVE  Sum(Used(Account!ToSecond(A_st.mark)), A_Envs)'
                 <= A_PerUnit * (A_st.total + (A_counted + 1) * Cardinality(A_Envs))
    <3>1. Sum(UsedIn(A_env, A_started, Account!ToSecond(A_st.mark)), A_Envs)
            <= A_PerUnit * (A_st.total + (A_counted + 1) * Cardinality(A_Envs))
      BY <1>1, <2>1, <2>3, OwedIs DEF AccountInv, NotUnder
    <3>2. /\ Sum(UsedIn(A_env, A_started, Account!ToSecond(A_st.mark)), A_Envs) \in Int
          /\ Sum(UsedIn(A_env', A_started, Account!ToSecond(A_st.mark)), A_Envs) \in Int
          /\ Sum(UsedIn(A_env', A_started, Account!ToSecond(A_st.mark)), A_Envs)
               <= Sum(UsedIn(A_env, A_started, Account!ToSecond(A_st.mark)), A_Envs)
      BY <1>1, <1>6, <1>9, <2>1, <2>3
    <3>3. Sum(UsedIn(A_env', A_started, Account!ToSecond(A_st.mark)), A_Envs)
            <= A_PerUnit * (A_st.total + (A_counted + 1) * Cardinality(A_Envs))
      BY <1>8, <3>1, <3>2
    <3>4. QED
      BY <1>10, <3>3
  <2>4. QED
    BY <1>1, <2>2, <2>3 DEF NotUnder
<1>13. QED
  BY <1>3, <1>4, <1>11, <1>12 DEF AccountInv

\* An environment comes, becomes ready, terminates or goes.
LEMMA NextEnvs ==
  ASSUME AccountInv, NEW e \in A_Envs,
         Account!Create(e) \/ Account!Ready(e) \/ Account!Terminate(e) \/ Account!Remove(e)
  PROVE  AccountInv'
<1> DEFINE x == A_env[e]
           second == Account!ToSecond(A_now)
<1>1. /\ x \in Account!EnvStates /\ A_now \in 0..A_MaxTime
      /\ x.ready # Account!None => x.ready <= A_now
      /\ x.ended # Account!None => x.ready # Account!None /\ x.ended <= A_now
  BY DEF AccountInv, AccountTypes
<1>2. /\ second \in 0..A_MaxTime /\ second <= A_now /\ A_now <= second + (A_Units - 1)
      /\ second \in Account!Times /\ second # Account!None
  <2>1. A_now \in Nat /\ A_now <= A_MaxTime
    BY <1>1, MeterNumbers
  <2>2. second \in Nat /\ second <= A_now /\ A_now <= second + (A_Units - 1)
    BY <2>1, SecondIs
  <2>3. QED
    BY <2>1, <2>2, MeterNumbers DEF Account!Times
<1>3. ASSUME A_started # Account!None, NEW t \in 0..A_now
      PROVE  /\ A_started \in 0..A_MaxTime
             /\ t \in 0..A_MaxTime
             /\ Account!ToSecond(t) \in 0..A_MaxTime
             /\ Account!ToSecond(t) <= second
  <2>1. /\ t \in Nat
        /\ A_now \in Nat
        /\ t <= A_now
        /\ A_now <= A_MaxTime
        /\ A_started \in 0..A_MaxTime
    BY <1>1, <1>3, MeterNumbers DEF AccountInv, MarksAgree
  <2>2. Account!ToSecond(t) \in Nat /\ Account!ToSecond(t) <= second
    BY <2>1, SecondIs, SecondsGrow
  <2>3. QED
    BY <1>2, <2>1, <2>2, MeterNumbers
<1> HIDE DEF x, second
<1>4. ASSUME NEW y \in Account!EnvStates, Account!Becomes(e, y), y.size = x.size,
             y.ready # Account!None => y.ready <= A_now,
             y.ended # Account!None => y.ready # Account!None /\ y.ended <= A_now,
             A_started # Account!None => \A t \in 0..A_now :
               /\ OwedOf(x, A_started, t) <= OwedOf(y, A_started, t)
               /\ UsedOf(y, A_started, Account!ToSecond(t))
                    <= UsedOf(x, A_started, Account!ToSecond(t))
      PROVE  AccountInv'
  <2>1. /\ A_env' = [A_env EXCEPT ![e] = y]
        /\ UNCHANGED <<Account!stored, Account!pass, A_now, Account!history>>
    BY <1>4 DEF Account!Becomes
  <2>2. QED
    BY <1>4, <2>1, EnvMoves DEF x
<1>5. CASE Account!Create(e)
  <2> DEFINE y == [x EXCEPT !.there = TRUE]
  <2>1. Account!Becomes(e, y) /\ x.ready = Account!None
    BY <1>5 DEF Account!Create, x
  <2>2. /\ y \in Account!EnvStates
        /\ y.size = x.size
        /\ y.ready = x.ready
        /\ y.ended = x.ended
        /\ y.there = TRUE
    BY <1>1 DEF Account!EnvStates
  <2> HIDE DEF y
  <2>3. ASSUME A_started # Account!None, NEW t \in 0..A_now
        PROVE  /\ OwedOf(x, A_started, t) <= OwedOf(y, A_started, t)
               /\ UsedOf(y, A_started, Account!ToSecond(t))
                    <= UsedOf(x, A_started, Account!ToSecond(t))
    <3>1. /\ OwedOf(x, A_started, t) = OwedOf(y, A_started, t)
          /\ OwedOf(x, A_started, t) \in Nat
      BY <1>1, <1>3, <2>2, <2>3, OwedIsNumber DEF OwedOf, SpanOf
    <3>2. \A w \in {1, 2, 6} : w * 0 = 0
      OBVIOUS
    <3>3. /\ UsedOf(y, A_started, Account!ToSecond(t)) = 0
          /\ UsedOf(x, A_started, Account!ToSecond(t)) = 0
      BY <2>1, <2>2, <3>2, WeightIs DEF UsedOf, SpanOf
    <3>4. QED
      BY <3>1, <3>3
  <2>4. QED
    BY <1>1, <1>4, <2>1, <2>2, <2>3
<1>6. CASE Account!Ready(e)
  <2> DEFINE y == [x EXCEPT !.ready = second]
  <2>1. Account!Becomes(e, y) /\ x.ready = Account!None /\ x.ended = Account!None
    BY <1>1, <1>6 DEF Account!Ready, x, second
  <2>2. /\ y \in Account!EnvStates
        /\ y.size = x.size
        /\ y.ready = second
        /\ y.ended = x.ended
        /\ y.there = x.there
    BY <1>1, <1>2 DEF Account!EnvStates
  <2> HIDE DEF y
  <2>3. ASSUME A_started # Account!None, NEW t \in 0..A_now
        PROVE  /\ OwedOf(x, A_started, t) <= OwedOf(y, A_started, t)
               /\ UsedOf(y, A_started, Account!ToSecond(t))
                    <= UsedOf(x, A_started, Account!ToSecond(t))
    <3> DEFINE u == Account!ToSecond(t)
    <3>1. \A w \in {1, 2, 6} : w * 0 = 0 /\ w * (0 + 0) = 0
      OBVIOUS
    <3>2. OwedOf(x, A_started, t) = 0 /\ UsedOf(x, A_started, u) = 0
      BY <2>1, <3>1, WeightIs DEF OwedOf, UsedOf, SpanOf
    <3>3. OwedOf(y, A_started, t) \in Nat
      BY <1>3, <2>2, <2>3, OwedIsNumber
    <3>4. SpanOf(y, A_started, u) = 0
      <4>1. /\ y.ready \in Nat /\ y.ended \in Nat
            /\ SpanOf(y, A_started, u) = IF y.ready = Account!None THEN 0
                                         ELSE Shared(y.ready, y.ended, A_started, u)
        BY <1>3, <2>2, <2>3, OwedIsNumber
      <4>2. A_started \in Nat /\ u \in Nat /\ 0 \in Nat /\ u <= y.ready
        BY <1>3, <2>2, <2>3
      <4> HIDE DEF u
      <4>3. Shared(y.ready, y.ended, A_started, u) = 0
        BY <4>1, <4>2, SharedEnds
      <4>4. QED
        BY <4>1, <4>3
    <3>5. UsedOf(y, A_started, u) = 0
      BY <3>1, <3>4, WeightIs DEF UsedOf
    <3>6. QED
      BY <3>2, <3>3, <3>5
  <2>4. QED
    BY <1>2, <1>4, <2>1, <2>2, <2>3
<1>7. CASE Account!Terminate(e)
  <2> DEFINE y == [x EXCEPT !.ended = second]
  <2>1. Account!Becomes(e, y) /\ x.ready # Account!None /\ x.ended = Account!None
    BY <1>7 DEF Account!Terminate, x, second
  <2>2. /\ y \in Account!EnvStates
        /\ y.size = x.size
        /\ y.ready = x.ready
        /\ y.ended = second
        /\ y.there = x.there
    BY <1>1, <1>2 DEF Account!EnvStates
  <2> HIDE DEF y
  <2>3. ASSUME A_started # Account!None, NEW t \in 0..A_now
        PROVE  /\ OwedOf(x, A_started, t) <= OwedOf(y, A_started, t)
               /\ UsedOf(y, A_started, Account!ToSecond(t))
                    <= UsedOf(x, A_started, Account!ToSecond(t))
    <3> DEFINE u == Account!ToSecond(t)
               r == x.ready
               c == x.ended
               d == y.ended
               k == A_Units - 1
               w == Account!Weight(x.size)
    <3>1. /\ r \in Nat /\ c \in Nat /\ d \in Nat /\ k \in Nat /\ w \in {1, 2, 6}
          /\ A_started \in Nat /\ t \in Nat /\ u \in Nat
          /\ t <= d + k /\ t <= c /\ u <= d /\ u <= c
      <4>1. r \in Nat /\ c \in Nat /\ d \in Nat
        BY <1>1, <1>3, <2>2, <2>3, OwedIsNumber
      <4>2. k \in Nat /\ w \in {1, 2, 6} /\ d = second /\ c = A_MaxTime + 1
        BY <2>1, <2>2, MeterNumbers, WeightIs
      <4>3. /\ A_started \in Nat
            /\ t \in 0..A_MaxTime
            /\ u \in 0..A_MaxTime
            /\ u <= second
            /\ t <= A_now
        BY <1>3, <2>3
      <4>4. A_MaxTime \in Nat /\ second \in Nat /\ A_now \in Nat /\ A_now <= second + k
        BY <1>1, <1>2, MeterNumbers
      <4> HIDE DEF u, k
      <4>5. t <= c /\ u <= c
        BY <4>2, <4>3, <4>4
      <4>6. t <= d + k /\ u <= d
        BY <4>2, <4>3, <4>4
      <4>7. QED
        BY <4>1, <4>2, <4>3, <4>5, <4>6
    <3>2. /\ SpanOf(x, A_started, t) = Shared(r, c, A_started, t)
          /\ SpanOf(y, A_started, t) = Shared(r, d, A_started, t)
          /\ SpanOf(x, A_started, u) = Shared(r, c, A_started, u)
          /\ SpanOf(y, A_started, u) = Shared(r, d, A_started, u)
          /\ SpanOf(x, A_started, t) \in Nat /\ SpanOf(y, A_started, t) \in Nat
          /\ UsedOf(x, A_started, u) \in Nat
      BY <1>1, <1>3, <2>1, <2>2, <2>3, OwedIsNumber
    <3>3. /\ OwedOf(x, A_started, t) = w * (SpanOf(x, A_started, t) + 0)
          /\ OwedOf(y, A_started, t) = w * (SpanOf(y, A_started, t) + k)
      BY <1>2, <2>1, <2>2 DEF OwedOf
    <3>4. UsedOf(y, A_started, u) = IF x.there THEN w * SpanOf(y, A_started, u) ELSE 0
      BY <2>2 DEF UsedOf
    <3>5. UsedOf(x, A_started, u) = IF x.there THEN w * SpanOf(x, A_started, u) ELSE 0
      BY DEF UsedOf
    <3> HIDE DEF u, r, c, d, k, w
    <3>6. Shared(r, c, A_started, t) <= Shared(r, d, A_started, t) + k
      BY <3>1, SharedEnds
    <3>7. Shared(r, d, A_started, u) = Shared(r, c, A_started, u)
      BY <3>1, SharedEnds
    <3>8. OwedOf(x, A_started, t) <= OwedOf(y, A_started, t)
      <4>1. /\ SpanOf(x, A_started, t) + 0 \in Nat /\ SpanOf(y, A_started, t) + k \in Nat
            /\ SpanOf(x, A_started, t) + 0 <= SpanOf(y, A_started, t) + k
        BY <3>1, <3>2, <3>6
      <4>2. QED
        BY <3>1, <3>3, <4>1, Weighted
    <3>9. UsedOf(y, A_started, u) <= UsedOf(x, A_started, u)
      BY <3>2, <3>4, <3>5, <3>7
    <3>10. QED
      BY <3>8, <3>9 DEF u
  <2>4. QED
    BY <1>1, <1>2, <1>4, <2>1, <2>2, <2>3
<1>8. CASE Account!Remove(e)
  <2> DEFINE y == [x EXCEPT !.there = FALSE]
  <2>1. Account!Becomes(e, y)
    BY <1>8 DEF Account!Remove, x
  <2>2. /\ y \in Account!EnvStates
        /\ y.size = x.size
        /\ y.ready = x.ready
        /\ y.ended = x.ended
        /\ y.there = FALSE
    BY <1>1 DEF Account!EnvStates
  <2> HIDE DEF y
  <2>3. ASSUME A_started # Account!None, NEW t \in 0..A_now
        PROVE  /\ OwedOf(x, A_started, t) <= OwedOf(y, A_started, t)
               /\ UsedOf(y, A_started, Account!ToSecond(t))
                    <= UsedOf(x, A_started, Account!ToSecond(t))
    <3>1. /\ OwedOf(x, A_started, t) = OwedOf(y, A_started, t)
          /\ OwedOf(x, A_started, t) \in Nat
      BY <1>1, <1>3, <2>2, <2>3, OwedIsNumber DEF OwedOf, SpanOf
    <3>2. UsedOf(y, A_started, Account!ToSecond(t)) = 0
      BY <2>2 DEF UsedOf
    <3>3. UsedOf(x, A_started, Account!ToSecond(t)) \in Nat
      BY <1>1, <1>3, <2>3, OwedIsNumber
    <3>4. QED
      BY <3>1, <3>2, <3>3
  <2>4. QED
    BY <1>1, <1>4, <2>1, <2>2, <2>3
<1>9. QED
  BY <1>5, <1>6, <1>7, <1>8

\* The invariant holds at first.
LEMMA InitAccount == Account!Init => AccountInv
<1> SUFFICES ASSUME Account!Init PROVE AccountInv
  OBVIOUS
<1>1. /\ A_obj = [mark |-> Account!None, total |-> 0, open |-> 0, within |-> TRUE]
      /\ A_view = A_obj /\ A_snap = A_obj /\ A_st = A_obj /\ A_pc = "idle"
      /\ A_now = 0 /\ A_started = Account!None /\ A_counted = 0
  BY DEF Account!Init
<1>2. /\ A_env \in [A_Envs -> Account!EnvStates]
      /\ \A e \in A_Envs : A_env[e].ready = Account!None /\ A_env[e].ended = Account!None
  <2>1. \A s \in A_Sizes :
          [there |-> FALSE, size |-> s, ready |-> Account!None, ended |-> Account!None]
            \in Account!EnvStates
    BY MeterNumbers DEF Account!EnvStates, Account!Times
  <2>2. QED
    BY <2>1 DEF Account!Init
<1>3. A_obj \in Records
  BY <1>1, MeterNumbers DEF Records, Account!Times
<1>4. AccountTypes
  BY <1>1, <1>2, <1>3, MeterNumbers DEF AccountTypes
<1>5. MarksAgree /\ PassKnows /\ NotOver /\ NotUnder
  BY <1>1 DEF MarksAgree, PassKnows, NotOver, NotUnder
<1>6. QED
  BY <1>4, <1>5 DEF AccountInv

\* Every step keeps the invariant.
LEMMA NextMeter == AccountInv /\ [Account!Next]_(Account!vars) => AccountInv'
<1> SUFFICES ASSUME AccountInv, [Account!Next]_(Account!vars) PROVE AccountInv'
  OBVIOUS
<1>1. /\ A_obj \in Records /\ A_view \in Records /\ A_snap \in Records /\ A_st \in Records
      /\ A_now \in 0..A_MaxTime /\ PassKnows
  BY DEF AccountInv, AccountTypes
<1>2. A_now <= A_now
  BY <1>1, MeterNumbers
<1>3. CASE UNCHANGED Account!vars \/ Account!Read \/ Account!DeliverObject \/ Account!RequeueLater
  <2>1. UNCHANGED <<A_obj, A_env, A_now, Account!history>>
    BY <1>3 DEF Account!vars, Account!runtime, Account!Read, Account!BeginPass,
       Account!DeliverObject, Account!Deliver, Account!RequeueLater, Account!TimerFires,
                Account!stored
  <2>2. A_view' \in Records /\ A_snap' \in Records /\ A_st' \in Records
    BY <1>1, <1>3 DEF Account!vars, Account!runtime, Account!Read, Account!BeginPass,
       Account!DeliverObject, Account!Deliver, Account!RequeueLater,
                      Account!TimerFires, Account!stored, Account!pass
  <2>3. A_pc' = "finish" /\ A_fresh' => A_pc = "finish" /\ A_fresh /\ A_st' = A_st
    BY <1>3 DEF Account!vars, Account!runtime, Account!Read, Account!BeginPass,
       Account!DeliverObject, Account!Deliver, Account!RequeueLater, Account!TimerFires,
                Account!stored, Account!pass
  <2>4. PassKnows'
    <3>1. CASE UNCHANGED Account!vars
      BY <1>1, <3>1 DEF Account!vars, Account!runtime, Account!history, PassKnows
    <3>2. CASE Account!Read
      BY <1>1, <3>2 DEF Account!Read, Account!BeginPass, Account!stored, Account!history,
         PassKnows
    <3>3. CASE Account!DeliverObject
      BY <1>1, <3>3 DEF Account!DeliverObject, Account!Deliver, Account!pass,
         Account!history, PassKnows
    <3>4. CASE Account!RequeueLater
      BY <1>1, <3>4 DEF Account!RequeueLater, Account!TimerFires, Account!stored,
         Account!pass, Account!history, PassKnows
    <3>5. QED
      BY <1>3, <3>1, <3>2, <3>3, <3>4
  <2>5. A_now <= A_now' /\ A_now' \in 0..A_MaxTime
    BY <1>1, <1>2, <2>1
  <2>6. QED
    BY <2>1, <2>2, <2>3, <2>4, <2>5, Quiet
<1>4. CASE Account!Tick
  <2>1. /\ UNCHANGED <<Account!runtime, A_env, Account!history>>
        /\ A_now < A_MaxTime
        /\ A_now' = A_now + 1
    BY <1>4 DEF Account!Tick
  <2>2. A_now <= A_now' /\ A_now' \in 0..A_MaxTime
    BY <1>1, <2>1, MeterNumbers
  <2>3. PassKnows'
    <3>1. A_pc = "finish" /\ A_fresh => A_st.mark \in 0..A_now'
      <4>1. SUFFICES ASSUME A_st.mark \in 0..A_now PROVE A_st.mark \in 0..A_now'
        BY <1>1 DEF PassKnows
      <4>2. QED
        BY <1>1, <2>1, <4>1, MeterNumbers
    <3>2. QED
      BY <1>1, <2>1, <3>1 DEF PassKnows, Account!runtime, Account!history
  <2>4. QED
    BY <1>1, <2>1, <2>2, <2>3, Quiet DEF Account!runtime
<1>5. CASE (Account!Save /\ UNCHANGED Account!stored) \/ Account!SaveFails \/ Account!Crash
  <2>1. /\ UNCHANGED <<A_obj, A_env, A_now, Account!history>> /\ A_pc' = "idle"
        /\ A_view' \in {A_obj, A_view} /\ (A_current' => A_view' = A_obj')
        /\ A_snap' \in {A_obj, A_view} /\ A_st' \in {A_obj, A_view}
    <3>1. CASE Account!Save /\ UNCHANGED Account!stored
      <4>1. ~(A_fresh /\ Account!Recorded(A_st) # A_obj)
        <5>1. SUFFICES ASSUME A_fresh, Account!Recorded(A_st) # A_obj PROVE FALSE
          OBVIOUS
        <5>2. A_obj' = Account!Recorded(A_st)
          BY <3>1, <5>1 DEF Account!Save, Account!Store
        <5>3. QED
          BY <3>1, <5>1, <5>2 DEF Account!stored
      <4>2. QED
        BY <1>1, <3>1, <4>1 DEF Account!Save, Account!Return, Account!EndPass,
           Account!stored, PassKnows
    <3>2. CASE Account!SaveFails
      BY <1>1, <3>2 DEF Account!SaveFails, Account!Return, Account!EndPass, Account!stored,
         PassKnows
    <3>3. CASE Account!Crash
      BY <3>3 DEF Account!Crash, Account!Restart
    <3>4. QED
      BY <1>5, <3>1, <3>2, <3>3
  <2>2. A_view' \in Records /\ A_snap' \in Records /\ A_st' \in Records
    BY <1>1, <2>1
  <2>3. PassKnows'
    BY <2>1 DEF PassKnows
  <2>4. A_now <= A_now' /\ A_now' \in 0..A_MaxTime
    BY <1>1, <1>2, <2>1
  <2>5. QED
    BY <2>1, <2>2, <2>3, <2>4, Quiet
<1>6. CASE Account!Save /\ ~UNCHANGED Account!stored
  <2>1. A_fresh /\ Account!Recorded(A_st) # A_obj
    BY <1>6 DEF Account!Save
  <2>2. QED
    BY <1>6, <2>1, NextSaved
<1>7. QED
  BY <1>3, <1>4, <1>5, <1>6, NextAccount, NextEnvs DEF Account!Next, Account!Worker,
     Account!Others

\* The invariant, which speaks of each environment's share to the tick, bounds the bill.
LEMMA Billed == AccountInv => Account!BilledOnce
<1> SUFFICES ASSUME AccountInv PROVE Account!BilledOnce
  OBVIOUS
<1>1. /\ A_counted \in Nat
      /\ Slack \in Int
      /\ Cardinality(A_Envs) \in Nat
      /\ A_PerUnit \in Nat
      /\ Sum(Weights, A_Envs) \in Int /\ A_Units - 1 \in Nat /\ A_obj.total \in Int
      /\ IsFiniteSet(A_Envs)
  BY MeterNumbers, SumsAreNumbers DEF AccountInv, AccountTypes, Records
<1>2. /\ Account!Cardinality(A_Envs) = Cardinality(A_Envs)
      /\ Account!MapThenSumSet(LAMBDA e : Account!Weight(A_env[e].size), A_Envs)
           = Sum(Weights, A_Envs)
  BY WeightsAre DEF Account!Cardinality, Cardinality
<1>3. A_counted * (A_Units - 1) * Sum(Weights, A_Envs) = A_counted * Slack
  <2>1. \A a, b, c \in Int : a * b * c = a * (b * c)
    OBVIOUS
  <2>2. QED
    BY <1>1, <2>1 DEF Slack
<1>4. A_PerUnit * A_obj.total <= Account!Consumed(A_Envs, A_billed) + A_counted * Slack
  <2>1. CASE A_started = Account!None
    <3>1. A_obj.total = 0 /\ A_counted = 0 /\ Account!Consumed(A_Envs, A_billed) = 0
      BY <2>1 DEF AccountInv, MarksAgree, Account!Consumed
    <3>2. A_PerUnit * 0 = 0 /\ 0 * Slack = 0
      BY <1>1
    <3>3. QED
      BY <3>1, <3>2
  <2>2. CASE A_started # Account!None
    <3> DEFINE taken == Taken(A_started, A_billed)
               second == [e \in A_Envs |-> (A_Units - 1) * Weights[e]]
    <3>1. A_started \in 0..A_MaxTime /\ A_billed \in 0..A_MaxTime
      BY <2>2, MeterNumbers DEF AccountInv, AccountTypes, MarksAgree
    <3>2. ASSUME NEW e \in A_Envs
          PROVE  /\ Owed(A_billed)[e] \in Int /\ Nothing[e] \in Int
                 /\ taken[e] \in Int /\ second[e] \in Int
                 /\ second[e] = (A_Units - 1) * Weights[e] /\ Weights[e] \in Int
                 /\ Owed(A_billed)[e] + Nothing[e] <= taken[e] + second[e]
      <4> DEFINE w == Weights[e]
                 k == A_Units - 1
                 s == Account!Span(e, A_started, A_billed)
      <4>1. s \in Nat /\ taken[e] = w * s /\ Late(e) \in Nat /\ w \in {1, 2, 6} /\ k \in Nat
        BY <1>1, <3>1, SpansAreNumbers, SumsAreNumbers DEF AccountInv
      <4>2. Owed(A_billed)[e] = w * (s + Late(e)) /\ second[e] = k * w /\ Nothing[e] = 0
        BY DEF Owed, Weights, Nothing
      <4>3. Late(e) <= k
        BY <1>1 DEF Late
      <4> HIDE DEF w, k, s, taken, second
      <4>4. QED
        <5>1. Owed(A_billed)[e] + Nothing[e] <= taken[e] + second[e]
          BY <4>1, <4>2, <4>3
        <5>2. /\ Owed(A_billed)[e] \in Int /\ Nothing[e] \in Int
              /\ taken[e] \in Int /\ second[e] \in Int /\ w \in Int
          BY <4>1, <4>2
        <5>3. QED
          BY <4>2, <5>1, <5>2 DEF w, k
    <3> HIDE DEF taken, second
    <3>3. /\ Sum(Owed(A_billed), A_Envs) \in Int /\ Sum(taken, A_Envs) \in Int
          /\ Sum(second, A_Envs) \in Int
          /\ Sum(Owed(A_billed), A_Envs) + Sum(Nothing, A_Envs)
               <= Sum(taken, A_Envs) + Sum(second, A_Envs)
      BY <1>1, <3>2, SumsCompare, SumIsNumber
    <3>4. Sum(second, A_Envs) = Slack
      <4>1. A_Units - 1 \in Int
        BY <1>1
      <4>2. QED
        BY <1>1, <3>2, <4>1, SumScales DEF Slack
    <3>5. Account!Consumed(A_Envs, A_billed) = Sum(taken, A_Envs)
      BY <2>2, ConsumedIs DEF taken
    <3>6. A_PerUnit * A_obj.total + Slack <= Sum(Owed(A_billed), A_Envs) + A_counted * Slack
      BY <2>2 DEF AccountInv, NotOver
    <3>7. A_PerUnit * A_obj.total \in Int /\ A_counted * Slack \in Int
      BY <1>1, Distributes
    <3>8. QED
      BY <1>1, <3>3, <3>4, <3>5, <3>6, <3>7, SumOfNothing
  <2>3. QED
    BY <2>1, <2>2
<1>5. ASSUME A_obj.mark # Account!None
      PROVE  Account!Consumed(Account!There, A_obj.mark)
               <= A_PerUnit * (A_obj.total + A_counted * Cardinality(A_Envs))
  <2>1. A_started # Account!None
    BY <1>5 DEF AccountInv, MarksAgree
  <2> DEFINE taken == Taken(A_started, A_obj.mark)
  <2>2. A_started \in 0..A_MaxTime /\ A_obj.mark \in 0..A_MaxTime
    <3>1. A_obj.mark \in Account!Times /\ A_started \in 0..A_MaxTime
      BY <2>1 DEF AccountInv, AccountTypes, Records, MarksAgree
    <3>2. QED
      BY <1>5, <3>1, MeterNumbers DEF Account!Times
  <2>3. Account!There \in SUBSET A_Envs
    BY DEF Account!There
  <2>4. ASSUME NEW e \in A_Envs
        PROVE  taken[e] \in Int
    <3>1. taken[e] \in Nat
      BY <2>2, SpansAreNumbers DEF AccountInv
    <3>2. QED
      BY <3>1
  <2>5. Within(taken, Account!There, A_Envs) = Used(A_obj.mark)
    BY DEF Within, Used, Taken
  <2>6. Account!Consumed(Account!There, A_obj.mark) = Sum(taken, Account!There)
    BY <2>1, <2>3, ConsumedIs
  <2> HIDE DEF taken
  <2>7. Sum(taken, Account!There) = Sum(Used(A_obj.mark), A_Envs)
    BY <1>1, <2>3, <2>4, <2>5, SumWithin
  <2>8. QED
    BY <2>1, <2>6, <2>7 DEF AccountInv, NotUnder
<1>6. A_obj.mark # Account!None =>
        A_PerUnit * (A_obj.total + A_counted * Cardinality(A_Envs))
          >= Account!Consumed(Account!There, A_obj.mark)
  <2>1. SUFFICES ASSUME A_obj.mark # Account!None
                 PROVE  A_PerUnit * (A_obj.total + A_counted * Cardinality(A_Envs))
                          >= Account!Consumed(Account!There, A_obj.mark)
    OBVIOUS
  <2>2. QED
    BY <1>5, <2>1
<1>7. QED
  BY <1>2, <1>3, <1>4, <1>6 DEF Account!BilledOnce

\* Accounting is one of the components that take turns.
LEMMA AccountRefined == Spec => Account!Spec
<1>1. [Next]_vars => [Account!Next]_(Account!vars)
  BY DEF Next, vars, AccountMoves, AdmissionMoves, QuotaMoves, StampMoves, CopiesMoves,
         LinkMoves, SnapMoves, PagesMoves, FormsMoves, FinalMoves, ReleaseMoves, ButD,
         ButQ, ButT, ButB, ButL, ButS, ButW, ButG, ButF, ButR, A, Account!vars,
         Account!history, Account!runtime
<1>2. Init => Account!Init
  BY DEF Init
<1>3. QED
  BY <1>1, <1>2, PTL DEF Spec, Account!Spec

\* An interval is billed once, whatever fails or restarts in between: for any number of
\* environments, any length of a second and of a milli-hour, and however many passes come.
THEOREM MeterIsRight == Spec => []BilledOnce
<1>1. Account!Spec => []AccountInv
  BY InitAccount, NextMeter, PTL DEF Account!Spec
<1>2. AccountInv => BilledOnce
  BY Billed DEF BilledOnce
<1>3. QED
  BY <1>1, <1>2, AccountRefined, PTL

==============================================================================
