--------------------------- MODULE RoutingProofs ----------------------------
(* Theorems about Routing, for any configuration, any tree and any uris.    *)
(* What NormalizePath, weakly_canonical and FindLocation fold over their    *)
(* sequences is unfolded into its runs: what there is after each step.      *)
EXTENDS Routing, FiniteSetTheorems, SequenceTheorems, TLAPS

-----------------------------------------------------------------------------
(* Runs of a fold.                                                         *)

\* A set of numbers has a least one.
LEMMA First ==
    ASSUME NEW n \in Nat, NEW S \in SUBSET (1 .. n), S # {}
    PROVE  \E k \in S : \A i \in S : k <= i
  <1> DEFINE D == {i \in 1 .. n : \A j \in 1 .. i : j \notin S}
             c == Cardinality(D)
  <1>1. D \in SUBSET (1 .. n) /\ \A i \in D : \A j \in 1 .. i : j \in D
    OBVIOUS
  <1>2. IsFiniteSet(1 .. n) /\ Cardinality(1 .. n) = n
    BY FS_Interval
  <1>3. IsFiniteSet(D) /\ c \in Nat /\ c <= n
    BY <1>1, <1>2, FS_Subset, FS_CardinalityType
  <1>4. IsFiniteSet(1 .. c) /\ Cardinality(1 .. c) = c
    BY <1>3, FS_Interval
  <1>5. ASSUME NEW i \in D PROVE i \in 1 .. c
    <2>1. i \in Nat /\ 1 <= i /\ 1 .. i \subseteq D
      BY <1>1
    <2>2. Cardinality(1 .. i) = i
      BY <2>1, FS_Interval
    <2>3. Cardinality(1 .. i) <= c
      BY <1>3, <2>1, FS_Subset
    <2> QED BY <1>3, <2>1, <2>2, <2>3
  <1>6. D = 1 .. c
    <2>1. D \subseteq 1 .. c
      BY <1>5
    <2> QED BY <1>3, <1>4, <2>1, FS_Subset
  <1>7. \A i \in 1 .. c : i \notin S
    BY <1>6
  <1>8. PICK m \in S : TRUE
    OBVIOUS
  <1>9. c + 1 \in 1 .. n
    BY <1>3, <1>7, <1>8
  <1>10. c + 1 \notin D
    BY <1>3, <1>6
  <1>11. c + 1 \in S
    BY <1>3, <1>7, <1>9, <1>10
  <1>12. \A i \in S : c + 1 <= i
    BY <1>3, <1>7
  <1> QED BY <1>11, <1>12

\* ... and a greatest one.
LEMMA Final ==
    ASSUME NEW n \in Nat, NEW S \in SUBSET (1 .. n), S # {}
    PROVE  \E k \in S : \A i \in S : i <= k
  <1> DEFINE R == {n + 1 - i : i \in S}
  <1>1. R \in SUBSET (1 .. n) /\ R # {}
    <2>1. \A i \in S : n + 1 - i \in 1 .. n
      OBVIOUS
    <2> QED BY <2>1
  <1>2. PICK k \in R : \A i \in R : k <= i
    BY <1>1, First
  <1>3. PICK j \in S : k = n + 1 - j
    OBVIOUS
  <1>4. \A i \in S : i <= j
    <2> SUFFICES ASSUME NEW i \in S PROVE i <= j
      OBVIOUS
    <2>1. n + 1 - i \in R
      OBVIOUS
    <2>2. k <= n + 1 - i /\ i \in 1 .. n /\ j \in 1 .. n
      BY <1>2, <2>1
    <2> QED BY <1>3, <2>2
  <1> QED BY <1>4

\* What holds at first and after each step holds at last.
LEMMA UpTo ==
    ASSUME NEW n \in Nat, NEW S, 0 \in S, \A k \in 1 .. n : k - 1 \in S => k \in S
    PROVE  \A k \in 0 .. n : k \in S
  <1> DEFINE W == {k \in 1 .. n : k \notin S}
  <1> SUFFICES ASSUME W # {} PROVE FALSE
    OBVIOUS
  <1>1. PICK k \in W : \A i \in W : k <= i
    BY First
  <1>2. k \in 1 .. n /\ k \notin S /\ (k - 1 = 0 \/ k - 1 \in 1 .. n)
    OBVIOUS
  <1>3. k - 1 \in S
    BY <1>1, <1>2
  <1> QED BY <1>2, <1>3

LEMMA MaxIn ==
    ASSUME NEW n \in Nat, NEW S \in SUBSET (1 .. n), S # {}
    PROVE  Max(S) \in S /\ \A i \in S : i <= Max(S)
  <1>1. PICK k \in S : \A i \in S : i <= k
    BY Final
  <1>2. k \in S /\ \A i \in S : k >= i
    BY <1>1
  <1>3. Max(S) \in S /\ \A i \in S : Max(S) >= i
    BY <1>2 DEF Max
  <1> QED BY <1>3

LEMMA MaxIs ==
    ASSUME NEW n \in Nat, NEW S \in SUBSET (1 .. n), NEW k \in S, \A i \in S : i <= k
    PROVE  Max(S) = k
  <1>1. Max(S) \in S /\ \A i \in S : i <= Max(S)
    BY MaxIn
  <1>2. Max(S) \in 1 .. n /\ k \in 1 .. n /\ k <= Max(S) /\ Max(S) <= k
    BY <1>1
  <1> QED BY <1>2

LEMMA MaxUpTo ==
    ASSUME NEW k \in Nat \ {0}
    PROVE  Max(1 .. k) = k /\ (1 .. k) \ {k} = 1 .. k - 1 /\ 1 .. k # {}
  <1>1. k \in 1 .. k /\ \A y \in 1 .. k : y <= k
    OBVIOUS
  <1>2. Max(1 .. k) = k
    BY <1>1, MaxIs
  <1>3. (1 .. k) \ {k} = 1 .. k - 1
    OBVIOUS
  <1> QED BY <1>1, <1>2, <1>3

\* g is what a fold of F from base over positions computes for each set of them.
Unfolds(base, F, D, g) ==
    \A s \in SUBSET D : /\ s = {} => g[s] = base
                        /\ s # {} => g[s] = F[<<g[s \ {Max(s)}], Max(s)>>]

\* One position more.
LEMMA UnfoldsOn ==
    ASSUME NEW V, NEW base \in V, NEW n \in Nat, NEW F \in [V \X (1 .. n) -> V],
           NEW k \in 1 .. n, NEW g \in [SUBSET (1 .. k - 1) -> V],
           Unfolds(base, F, 1 .. k - 1, g)
    PROVE  \E e \in [SUBSET (1 .. k) -> V] : Unfolds(base, F, 1 .. k, e)
  <1> DEFINE on(s) == F[<<g[s \ {k}], k>>]
             e == [s \in SUBSET (1 .. k) |-> IF k \in s THEN on(s) ELSE g[s]]
  <1>1. ASSUME NEW s \in SUBSET (1 .. k), k \in s
        PROVE  /\ s \ {k} \in SUBSET (1 .. k - 1) /\ Max(s) = k
               /\ g[s \ {k}] \in V /\ on(s) \in V
    <2>1. k \in Nat /\ \A i \in s : i \in 1 .. k /\ i <= k
      OBVIOUS
    <2>2. Max(s) = k
      BY <1>1, <2>1, MaxIs
    <2>3. \A i \in s \ {k} : i \in 1 .. k - 1
      BY <2>1
    <2>4. s \ {k} \in SUBSET (1 .. k - 1)
      BY <2>3
    <2>5. g[s \ {k}] \in V
      BY <2>4
    <2>6. on(s) \in V
      BY <2>5
    <2> QED BY <2>2, <2>4, <2>5, <2>6
  <1>2. ASSUME NEW s \in SUBSET (1 .. k), k \notin s
        PROVE  s \in SUBSET (1 .. k - 1) /\ g[s] \in V
    <2>1. \A i \in s : i \in 1 .. k - 1
      BY <1>2
    <2>2. s \in SUBSET (1 .. k - 1)
      BY <2>1
    <2> QED BY <2>2
  <1> HIDE DEF on
  <1>3. e \in [SUBSET (1 .. k) -> V]
    BY <1>1, <1>2
  <1>4. \A s \in SUBSET (1 .. k) : /\ k \in s => e[s] = on(s)
                                   /\ k \notin s => e[s] = g[s]
    OBVIOUS
  <1> HIDE DEF e
  <1>5. ASSUME NEW s \in SUBSET (1 .. k)
        PROVE  /\ s = {} => e[s] = base
               /\ s # {} => e[s] = F[<<e[s \ {Max(s)}], Max(s)>>]
    <2>1. CASE k \in s
      <3>1. s \ {k} \in SUBSET (1 .. k) /\ k \notin s \ {k}
        OBVIOUS
      <3>2. e[s \ {k}] = g[s \ {k}]
        BY <1>4, <3>1
      <3>3. e[s] = F[<<g[s \ {k}], k>>]
        BY <1>4, <2>1 DEF on
      <3>4. Max(s) = k
        BY <1>1, <2>1
      <3> QED BY <2>1, <3>2, <3>3, <3>4
    <2>2. CASE k \notin s /\ s = {}
      <3>1. s \in SUBSET (1 .. k - 1) /\ e[s] = g[s]
        BY <1>2, <1>4, <2>2
      <3> QED BY <2>2, <3>1 DEF Unfolds
    <2>3. CASE k \notin s /\ s # {}
      <3>1. s \in SUBSET (1 .. k - 1) /\ e[s] = g[s] /\ k - 1 \in Nat
        BY <1>2, <1>4, <2>3
      <3>2. Max(s) \in s
        BY <2>3, <3>1, MaxIn
      <3>3. s \ {Max(s)} \in SUBSET (1 .. k) /\ k \notin s \ {Max(s)}
        BY <2>3
      <3>4. e[s \ {Max(s)}] = g[s \ {Max(s)}]
        BY <1>4, <3>3
      <3>5. g[s] = F[<<g[s \ {Max(s)}], Max(s)>>]
        BY <2>3, <3>1 DEF Unfolds
      <3> QED BY <2>3, <3>1, <3>4, <3>5
    <2> QED BY <2>1, <2>2, <2>3
  <1>6. Unfolds(base, F, 1 .. k, e)
    BY <1>5 DEF Unfolds
  <1> QED BY <1>3, <1>6

\* A fold is defined: there is what its recursion asks for.
LEMMA FoldExists ==
    ASSUME NEW V, NEW base \in V, NEW n \in Nat, NEW F \in [V \X (1 .. n) -> V]
    PROVE  \E g \in [SUBSET (1 .. n) -> V] : Unfolds(base, F, 1 .. n, g)
  <1> DEFINE Good(k) == \E g \in [SUBSET (1 .. k) -> V] : Unfolds(base, F, 1 .. k, g)
             S == {k \in 0 .. n : Good(k)}
  <1>1. Good(0)
    <2> DEFINE g == [s \in SUBSET (1 .. 0) |-> base]
    <2>1. \A s \in SUBSET (1 .. 0) : s = {}
      OBVIOUS
    <2>2. g \in [SUBSET (1 .. 0) -> V] /\ \A s \in SUBSET (1 .. 0) : g[s] = base
      OBVIOUS
    <2> HIDE DEF g
    <2>3. Unfolds(base, F, 1 .. 0, g)
      BY <2>1, <2>2 DEF Unfolds
    <2> QED BY <2>2, <2>3
  <1>2. \A k \in 1 .. n : Good(k - 1) => Good(k)
    BY UnfoldsOn
  <1> HIDE DEF Good
  <1>3. 0 \in S /\ \A k \in 1 .. n : k - 1 \in S => k \in S
    BY <1>1, <1>2
  <1> HIDE DEF S
  <1>4. n \in S
    <2>1. \A k \in 0 .. n : k \in S
      BY <1>3, UpTo
    <2> QED BY <2>1
  <1> QED BY <1>4 DEF S, Good

\* h is what there is after each of n steps.
Runs(base, F, n, h) == h[0] = base /\ \A k \in 1 .. n : h[k] = F[<<h[k - 1], k>>]

\* it computes what a fold of F does, as far as it stays in V.
Computes(V, base, F, n, it) ==
    \A s \in SUBSET (1 .. n) :
        /\ s = {} => it[s] = base
        /\ s # {} => (it[s \ {Max(s)}] \in V => it[s] = F[<<it[s \ {Max(s)}], Max(s)>>])

\* ... step by step.
RunsTo(V, base, F, n, it) ==
    \E h \in [0 .. n -> V] : Runs(base, F, n, h) /\ it[1 .. n] = h[n]

LEMMA RunOf ==
    ASSUME NEW V, NEW base \in V, NEW n \in Nat, NEW F \in [V \X (1 .. n) -> V], NEW it,
           Computes(V, base, F, n, it)
    PROVE  RunsTo(V, base, F, n, it)
  <1> DEFINE at(k) == it[1 .. k]
             S == {k \in 0 .. n : at(k) \in V}
             h == [k \in 0 .. n |-> at(k)]
  <1>1. at(0) = base
    <2>1. 1 .. 0 = {}
      OBVIOUS
    <2> QED BY <2>1 DEF Computes
  <1>2. ASSUME NEW k \in 1 .. n, at(k - 1) \in V PROVE at(k) = F[<<at(k - 1), k>>]
    <2>1. 1 .. k \in SUBSET (1 .. n) /\ k \in Nat \ {0}
      OBVIOUS
    <2>2. Max(1 .. k) = k /\ (1 .. k) \ {k} = 1 .. k - 1 /\ 1 .. k # {}
      BY <2>1, MaxUpTo
    <2> QED BY <1>2, <2>1, <2>2 DEF Computes
  <1> HIDE DEF at
  <1>3. \A k \in 1 .. n : at(k - 1) \in V => at(k) \in V
    BY <1>2
  <1>4. 0 \in S /\ \A k \in 1 .. n : k - 1 \in S => k \in S
    BY <1>1, <1>3
  <1>5. \A k \in 0 .. n : k \in S
    <2> HIDE DEF S
    <2> QED BY <1>4, UpTo
  <1>6. h \in [0 .. n -> V]
    BY <1>5
  <1>7. \A k \in 1 .. n : h[k] = F[<<h[k - 1], k>>]
    <2> SUFFICES ASSUME NEW k \in 1 .. n PROVE h[k] = F[<<h[k - 1], k>>]
      OBVIOUS
    <2>1. k - 1 \in 0 .. n /\ k \in 0 .. n
      OBVIOUS
    <2> QED BY <1>2, <1>5, <2>1
  <1>8. h[0] = base /\ h[n] = at(n)
    BY <1>1
  <1> HIDE DEF h
  <1> QED BY <1>6, <1>7, <1>8 DEF Runs, RunsTo, at

-----------------------------------------------------------------------------
(* The runs of the three folds.                                            *)

NormStep(parts, s) ==
    CASE s \in {"", "."} -> parts
      [] s = ".."        -> IF parts = <<>> THEN parts ELSE Front(parts)
      [] OTHER           -> Append(parts, s)

NormIter(u, it) ==
    it = [s \in SUBSET DOMAIN u |->
            IF s = {} THEN <<>> ELSE NormStep(it[s \ {Max(s)}], u[Max(s)])]

LEMMA NormUnfold ==
    ASSUME NEW u
    PROVE  NormalizePath(u) = (CHOOSE it : NormIter(u, it))[DOMAIN u]
  BY DEF NormalizePath, FoldLeft, MapThenFoldSet, NormIter, NormStep

\* A sequence without its last element.
LEMMA FrontIs ==
    ASSUME NEW S, NEW s \in Seq(S), s # <<>>
    PROVE  /\ Front(s) \in Seq(S) /\ Len(Front(s)) = Len(s) - 1 /\ Last(s) \in S
           /\ \A i \in 1 .. Len(s) - 1 : Front(s)[i] = s[i]
           /\ Len(s) \in Nat \ {0}
  <1>1. Len(s) \in Nat \ {0}
    BY EmptySeq
  <1>2. \A i \in 1 .. Len(s) - 1 : s[i] \in S
    BY <1>1, ElementOfSeq
  <1>3. /\ SubSeq(s, 1, Len(s) - 1) \in Seq(S) /\ Len(SubSeq(s, 1, Len(s) - 1)) = Len(s) - 1
        /\ \A i \in 1 .. Len(s) - 1 : SubSeq(s, 1, Len(s) - 1)[i] = s[i]
    <2> DEFINE m == Len(s) - 1
    <2>1. m \in Nat /\ 1 \in Int /\ m \in Int /\ \A i \in 1 .. m : s[i] \in S
      BY <1>1, <1>2
    <2> HIDE DEF m
    <2>2. /\ SubSeq(s, 1, m) \in Seq(S) /\ Len(SubSeq(s, 1, m)) = m
          /\ \A i \in 1 .. m : SubSeq(s, 1, m)[i] = s[i]
      BY <2>1, SubSeqProperties
    <2> QED BY <2>2 DEF m
  <1> QED BY <1>1, <1>3, ElementOfSeq DEF Front, Last

LEMMA AppendIs ==
    ASSUME NEW S, NEW s \in Seq(S), NEW x \in S
    PROVE  /\ Append(s, x) \in Seq(S) /\ Append(s, x) # <<>> /\ Len(Append(s, x)) = Len(s) + 1
           /\ \A i \in 1 .. Len(s) : Append(s, x)[i] = s[i]
           /\ Last(Append(s, x)) = x /\ Front(Append(s, x)) = s
  <1>1. /\ Append(s, x) \in Seq(S) /\ Append(s, x) # <<>> /\ Len(Append(s, x)) = Len(s) + 1
        /\ Append(s, x)[Len(s) + 1] = x /\ \A i \in 1 .. Len(s) : Append(s, x)[i] = s[i]
    BY AppendProperties
  <1>2. Last(Append(s, x)) = x
    BY <1>1 DEF Last
  <1>3. Len(s) \in Nat
    OBVIOUS
  <1> DEFINE a == Append(s, x)
  <1> HIDE DEF a
  <1>4. a \in Seq(S) /\ a # <<>> /\ Len(a) = Len(s) + 1 /\ \A i \in 1 .. Len(s) : a[i] = s[i]
    BY <1>1 DEF a
  <1>5. Front(a) \in Seq(S) /\ Len(Front(a)) = Len(s) /\ \A i \in 1 .. Len(s) : Front(a)[i] = s[i]
    BY <1>3, <1>4, FrontIs
  <1>6. Front(a) = s
    BY <1>5, SeqEqual
  <1> QED BY <1>1, <1>2, <1>6 DEF a

LEMMA NormStepType ==
    ASSUME NEW parts \in Seq(Segment), NEW s \in Segment
    PROVE  NormStep(parts, s) \in Seq(Segment)
  <1>1. parts # <<>> => Front(parts) \in Seq(Segment)
    BY FrontIs
  <1>2. Append(parts, s) \in Seq(Segment)
    BY AppendIs
  <1> QED BY <1>1, <1>2 DEF NormStep

NormRun(u, h) ==
    /\ h \in [0 .. Len(u) -> Seq(Segment)] /\ h[0] = <<>> /\ NormalizePath(u) = h[Len(u)]
    /\ \A k \in 1 .. Len(u) : h[k] = NormStep(h[k - 1], u[k])

LEMMA NormRuns ==
    ASSUME NEW u \in Seq(Segment)
    PROVE  \E h : NormRun(u, h)
  <1> DEFINE V == Seq(Segment)
             n == Len(u)
             F == [x \in V \X (1 .. n) |-> NormStep(x[1], u[x[2]])]
             it == CHOOSE g : NormIter(u, g)
  <1>1. n \in Nat /\ <<>> \in V /\ DOMAIN u = 1 .. n /\ \A k \in 1 .. n : u[k] \in Segment
    OBVIOUS
  <1>2. \A p \in V, k \in 1 .. n : NormStep(p, u[k]) \in V
    BY <1>1, NormStepType
  <1> HIDE DEF V, n
  <1>3. F \in [V \X (1 .. n) -> V] /\ \A p \in V, k \in 1 .. n : F[<<p, k>>] = NormStep(p, u[k])
    BY <1>2
  <1> HIDE DEF F
  <1>4. PICK g \in [SUBSET (1 .. n) -> V] : Unfolds(<<>>, F, 1 .. n, g)
    BY <1>1, <1>3, FoldExists
  <1>5. NormIter(u, g)
    <2>1. ASSUME NEW s \in SUBSET (1 .. n)
          PROVE  g[s] = IF s = {} THEN <<>> ELSE NormStep(g[s \ {Max(s)}], u[Max(s)])
      <3>1. CASE s = {}
        BY <1>4, <3>1 DEF Unfolds
      <3>2. CASE s # {}
        <4>1. Max(s) \in 1 .. n /\ s \ {Max(s)} \in SUBSET (1 .. n)
          BY <1>1, <3>2, MaxIn
        <4>2. g[s \ {Max(s)}] \in V
          BY <4>1
        <4>3. g[s] = F[<<g[s \ {Max(s)}], Max(s)>>]
          BY <1>4, <3>2 DEF Unfolds
        <4> QED BY <1>3, <3>2, <4>1, <4>2, <4>3
      <3> QED BY <3>1, <3>2
    <2> QED BY <1>1, <2>1 DEF NormIter
  <1>6. NormIter(u, it)
    BY <1>5
  <1>7. NormalizePath(u) = it[1 .. n]
    BY <1>1, NormUnfold
  <1> HIDE DEF it
  <1>8. \A s \in SUBSET (1 .. n) :
           /\ s = {} => it[s] = <<>>
           /\ s # {} => it[s] = NormStep(it[s \ {Max(s)}], u[Max(s)])
    BY <1>1, <1>6 DEF NormIter
  <1>9. \A s \in SUBSET (1 .. n) :
           /\ s = {} => it[s] = <<>>
           /\ s # {} => (it[s \ {Max(s)}] \in V => it[s] = F[<<it[s \ {Max(s)}], Max(s)>>])
    BY <1>1, <1>3, <1>8, MaxIn
  <1>10. PICK h \in [0 .. n -> V] : Runs(<<>>, F, n, h) /\ it[1 .. n] = h[n]
    <2>1. Computes(V, <<>>, F, n, it)
      BY <1>9 DEF Computes
    <2>2. n \in Nat /\ <<>> \in V
      BY <1>1
    <2>3. F \in [V \X (1 .. n) -> V]
      BY <1>3
    <2>4. RunsTo(V, <<>>, F, n, it)
      BY <2>1, <2>2, <2>3, RunOf
    <2> QED BY <2>4 DEF RunsTo
  <1>11. ASSUME NEW k \in 1 .. n PROVE h[k] = NormStep(h[k - 1], u[k])
    <2>1. h[k - 1] \in V
      BY <1>1
    <2> QED BY <1>3, <1>10, <2>1 DEF Runs
  <1>12. h[0] = <<>>
    BY <1>10 DEF Runs
  <1> QED BY <1>7, <1>10, <1>11, <1>12 DEF NormRun, V, n

LEMMA NormalType ==
    ASSUME NEW u \in Seq(Segment)
    PROVE  NormalizePath(u) \in Seq(Segment)
  <1>1. PICK h : NormRun(u, h)
    BY NormRuns
  <1> QED BY <1>1 DEF NormRun

CanonStep(t, done, n) ==
    IF Append(done, n) \in DOMAIN t.links /\ t.links[Append(done, n)] \in t.files \cup t.dirs
      THEN t.links[Append(done, n)] ELSE Append(done, n)

CanonIter(t, u, it) ==
    it = [s \in SUBSET DOMAIN u |->
            IF s = {} THEN <<>> ELSE CanonStep(t, it[s \ {Max(s)}], u[Max(s)])]

LEMMA CanonUnfold ==
    ASSUME NEW t, NEW u
    PROVE  Canonical(t, u) = (CHOOSE it : CanonIter(t, u, it))[DOMAIN u]
  BY DEF Canonical, FoldLeft, MapThenFoldSet, CanonIter, CanonStep

LEMMA CanonStepType ==
    ASSUME NEW t, WellFormed(t), NEW done \in Seq(Segment), NEW n \in Segment
    PROVE  CanonStep(t, done, n) \in Seq(Segment)
  <1>1. Append(done, n) \in Seq(Segment)
    BY AppendIs
  <1>2. t.files \cup t.dirs \subseteq Seq(Segment)
    <2>1. t.files \cup t.dirs \subseteq Seq(Name) /\ Name \subseteq Segment
      BY DEF WellFormed, Entries, Segment
    <2> QED BY <2>1, SeqMonotonic
  <1> QED BY <1>1, <1>2 DEF CanonStep

CanonRun(t, u, h) ==
    /\ h \in [0 .. Len(u) -> Seq(Segment)] /\ h[0] = <<>> /\ Canonical(t, u) = h[Len(u)]
    /\ \A k \in 1 .. Len(u) : h[k] = CanonStep(t, h[k - 1], u[k])

LEMMA CanonRuns ==
    ASSUME NEW t, WellFormed(t), NEW u \in Seq(Segment)
    PROVE  \E h : CanonRun(t, u, h)
  <1> DEFINE V == Seq(Segment)
             n == Len(u)
             F == [x \in V \X (1 .. n) |-> CanonStep(t, x[1], u[x[2]])]
             it == CHOOSE g : CanonIter(t, u, g)
  <1>1. n \in Nat /\ <<>> \in V /\ DOMAIN u = 1 .. n /\ \A k \in 1 .. n : u[k] \in Segment
    OBVIOUS
  <1>2. \A p \in V, k \in 1 .. n : CanonStep(t, p, u[k]) \in V
    BY <1>1, CanonStepType
  <1> HIDE DEF V, n
  <1>3. F \in [V \X (1 .. n) -> V] /\ \A p \in V, k \in 1 .. n : F[<<p, k>>] = CanonStep(t, p, u[k])
    BY <1>2
  <1> HIDE DEF F
  <1>4. PICK g \in [SUBSET (1 .. n) -> V] : Unfolds(<<>>, F, 1 .. n, g)
    BY <1>1, <1>3, FoldExists
  <1>5. CanonIter(t, u, g)
    <2>1. ASSUME NEW s \in SUBSET (1 .. n)
          PROVE  g[s] = IF s = {} THEN <<>> ELSE CanonStep(t, g[s \ {Max(s)}], u[Max(s)])
      <3>1. CASE s = {}
        BY <1>4, <3>1 DEF Unfolds
      <3>2. CASE s # {}
        <4>1. Max(s) \in 1 .. n /\ s \ {Max(s)} \in SUBSET (1 .. n)
          BY <1>1, <3>2, MaxIn
        <4>2. g[s \ {Max(s)}] \in V
          BY <4>1
        <4>3. g[s] = F[<<g[s \ {Max(s)}], Max(s)>>]
          BY <1>4, <3>2 DEF Unfolds
        <4> QED BY <1>3, <3>2, <4>1, <4>2, <4>3
      <3> QED BY <3>1, <3>2
    <2> QED BY <1>1, <2>1 DEF CanonIter
  <1>6. CanonIter(t, u, it)
    BY <1>5
  <1>7. Canonical(t, u) = it[1 .. n]
    BY <1>1, CanonUnfold
  <1> HIDE DEF it
  <1>8. \A s \in SUBSET (1 .. n) :
           /\ s = {} => it[s] = <<>>
           /\ s # {} => it[s] = CanonStep(t, it[s \ {Max(s)}], u[Max(s)])
    BY <1>1, <1>6 DEF CanonIter
  <1>9. \A s \in SUBSET (1 .. n) :
           /\ s = {} => it[s] = <<>>
           /\ s # {} => (it[s \ {Max(s)}] \in V => it[s] = F[<<it[s \ {Max(s)}], Max(s)>>])
    BY <1>1, <1>3, <1>8, MaxIn
  <1>10. PICK h \in [0 .. n -> V] : Runs(<<>>, F, n, h) /\ it[1 .. n] = h[n]
    <2>1. Computes(V, <<>>, F, n, it)
      BY <1>9 DEF Computes
    <2>2. n \in Nat /\ <<>> \in V
      BY <1>1
    <2>3. F \in [V \X (1 .. n) -> V]
      BY <1>3
    <2>4. RunsTo(V, <<>>, F, n, it)
      BY <2>1, <2>2, <2>3, RunOf
    <2> QED BY <2>4 DEF RunsTo
  <1>11. ASSUME NEW k \in 1 .. n PROVE h[k] = CanonStep(t, h[k - 1], u[k])
    <2>1. h[k - 1] \in V
      BY <1>1
    <2> QED BY <1>3, <1>10, <2>1 DEF Runs
  <1>12. h[0] = <<>>
    BY <1>10 DEF Runs
  <1> QED BY <1>7, <1>10, <1>11, <1>12 DEF CanonRun, V, n

LEMMA CanonicalType ==
    ASSUME NEW t, WellFormed(t), NEW u \in Seq(Segment)
    PROVE  Canonical(t, u) \in Seq(Segment)
  <1>1. PICK h : CanonRun(t, u, h)
    BY CanonRuns
  <1> QED BY <1>1 DEF CanonRun

Count(s) == Len(Servers[s].locations)
PathOf(s, i) == Servers[s].locations[i].path
Each(s) == [i \in 1 .. Count(s) |-> i]

FindStep(s, uri, best, i) ==
    IF /\ Begins(uri, PathOf(s, i))
       /\ best = 0 \/ Length(PathOf(s, i)) > Length(PathOf(s, best))
      THEN i ELSE best

FindIter(s, uri, it) ==
    it = [r \in SUBSET DOMAIN Each(s) |->
            IF r = {} THEN 0 ELSE FindStep(s, uri, it[r \ {Max(r)}], Each(s)[Max(r)])]

LEMMA FindUnfold ==
    ASSUME NEW s, NEW uri
    PROVE  FindLocation(s, uri) = (CHOOSE it : FindIter(s, uri, it))[DOMAIN Each(s)]
  BY DEF FindLocation, FoldLeft, MapThenFoldSet, FindIter, FindStep, Each, PathOf, Count

\* What the configuration is made of.
LEMMA Configured ==
    /\ Len(Servers) \in Nat
    /\ \A s \in 1 .. Len(Servers) : /\ Servers[s] \in ServerConfig /\ Count(s) \in Nat
          /\ \A i \in 1 .. Count(s) : /\ Servers[s].locations[i] \in LocationConfig
                                       /\ PathOf(s, i) \in Seq(Segment) /\ PathOf(s, i) # <<>>
  <1>1. Servers \in Seq(ServerConfig)
    BY RoutingAssumption
  <1>2. \A s \in 1 .. Len(Servers) : Servers[s] \in ServerConfig
    BY <1>1, ElementOfSeq
  <1>3. \A c \in ServerConfig : c.locations \in Seq(LocationConfig)
    BY DEF ServerConfig
  <1>4. \A l \in Seq(LocationConfig) : Len(l) \in Nat /\ \A i \in 1 .. Len(l) : l[i] \in LocationConfig
    BY ElementOfSeq
  <1>5. \A l \in LocationConfig : l.path \in Seq(Segment) /\ l.path # <<>>
    BY DEF LocationConfig
  <1>6. Len(Servers) \in Nat
    BY <1>1
  <1> QED BY <1>2, <1>3, <1>4, <1>5, <1>6 DEF Count, PathOf

FindRun(s, uri, h) ==
    /\ h \in [0 .. Count(s) -> 0 .. Count(s)] /\ h[0] = 0 /\ FindLocation(s, uri) = h[Count(s)]
    /\ \A k \in 1 .. Count(s) : h[k] = FindStep(s, uri, h[k - 1], k)

LEMMA FindRuns ==
    ASSUME NEW s \in 1 .. Len(Servers), NEW uri
    PROVE  \E h : FindRun(s, uri, h)
  <1> DEFINE V == 0 .. Count(s)
             n == Count(s)
             F == [x \in V \X (1 .. n) |-> FindStep(s, uri, x[1], x[2])]
             it == CHOOSE g : FindIter(s, uri, g)
  <1>1. n \in Nat /\ 0 \in V /\ DOMAIN Each(s) = 1 .. n /\ \A k \in 1 .. n : Each(s)[k] = k /\ k \in V
    BY Configured DEF Each
  <1>2. \A p \in V, k \in 1 .. n : FindStep(s, uri, p, k) \in V
    BY <1>1 DEF FindStep
  <1> HIDE DEF V, n
  <1>3. F \in [V \X (1 .. n) -> V] /\ \A p \in V, k \in 1 .. n : F[<<p, k>>] = FindStep(s, uri, p, k)
    BY <1>2
  <1> HIDE DEF F
  <1>4. PICK g \in [SUBSET (1 .. n) -> V] : Unfolds(0, F, 1 .. n, g)
    BY <1>1, <1>3, FoldExists
  <1>5. \A r \in SUBSET (1 .. n) : r # {} => Each(s)[Max(r)] = Max(r)
    BY <1>1, MaxIn
  <1>6. FindIter(s, uri, g)
    <2>1. ASSUME NEW r \in SUBSET (1 .. n)
          PROVE  g[r] = IF r = {} THEN 0 ELSE FindStep(s, uri, g[r \ {Max(r)}], Max(r))
      <3>1. CASE r = {}
        BY <1>4, <3>1 DEF Unfolds
      <3>2. CASE r # {}
        <4>1. Max(r) \in 1 .. n /\ r \ {Max(r)} \in SUBSET (1 .. n)
          BY <1>1, <3>2, MaxIn
        <4>2. g[r \ {Max(r)}] \in V
          BY <4>1
        <4>3. g[r] = F[<<g[r \ {Max(r)}], Max(r)>>]
          BY <1>4, <3>2 DEF Unfolds
        <4> QED BY <1>3, <3>2, <4>1, <4>2, <4>3
      <3> QED BY <3>1, <3>2
    <2> QED BY <1>1, <1>5, <2>1 DEF FindIter
  <1>7. FindIter(s, uri, it)
    BY <1>6
  <1>8. FindLocation(s, uri) = it[1 .. n]
    BY <1>1, FindUnfold
  <1> HIDE DEF it
  <1>9. \A r \in SUBSET (1 .. n) :
           /\ r = {} => it[r] = 0
           /\ r # {} => it[r] = FindStep(s, uri, it[r \ {Max(r)}], Max(r))
    BY <1>1, <1>5, <1>7 DEF FindIter
  <1>10. \A r \in SUBSET (1 .. n) :
           /\ r = {} => it[r] = 0
           /\ r # {} => (it[r \ {Max(r)}] \in V => it[r] = F[<<it[r \ {Max(r)}], Max(r)>>])
    BY <1>1, <1>3, <1>9, MaxIn
  <1>11. PICK h \in [0 .. n -> V] : Runs(0, F, n, h) /\ it[1 .. n] = h[n]
    <2>1. Computes(V, 0, F, n, it)
      BY <1>10 DEF Computes
    <2>2. n \in Nat /\ 0 \in V
      BY <1>1
    <2>3. F \in [V \X (1 .. n) -> V]
      BY <1>3
    <2>4. RunsTo(V, 0, F, n, it)
      BY <2>1, <2>2, <2>3, RunOf
    <2> QED BY <2>4 DEF RunsTo
  <1>12. ASSUME NEW k \in 1 .. n PROVE h[k] = FindStep(s, uri, h[k - 1], k)
    <2>1. h[k - 1] \in V
      BY <1>1
    <2> QED BY <1>3, <1>11, <2>1 DEF Runs
  <1>13. h[0] = 0
    BY <1>11 DEF Runs
  <1> QED BY <1>8, <1>11, <1>12, <1>13 DEF FindRun, V, n

LEMMA FoundType ==
    ASSUME NEW s \in 1 .. Len(Servers), NEW uri
    PROVE  FindLocation(s, uri) \in 0 .. Count(s)
  <1>1. PICK h : FindRun(s, uri, h)
    BY FindRuns
  <1> QED BY <1>1, Configured DEF FindRun

-----------------------------------------------------------------------------
(* The virtual host and the location.                                      *)

LEMMA LeastIn ==
    ASSUME NEW n \in Nat, NEW S \in SUBSET (1 .. n), S # {}
    PROVE  Least(S) \in S /\ \A j \in S : Least(S) <= j
  <1>1. \E k \in S : \A i \in S : k <= i
    BY First
  <1> QED BY <1>1 DEF Least

Takes(s, host) == host # NoHost /\ Servers[s].names \cap {host, "_"} # {}

\* The server found listens there, and none that has a better claim is passed over.
LEMMA FoundServer ==
    ASSUME NEW e \in Endpoints, NEW host
    PROVE  /\ FindServer(e, host) \in 1 .. Len(Servers)
           /\ e \in Servers[FindServer(e, host)].listen
           /\ \A s \in 1 .. Len(Servers) : e \in Servers[s].listen =>
                 /\ Takes(s, host) => Takes(FindServer(e, host), host) /\ FindServer(e, host) <= s
                 /\ ~Takes(s, host) => Takes(FindServer(e, host), host) \/ FindServer(e, host) <= s
  <1> DEFINE listening == {s \in 1 .. Len(Servers) : e \in Servers[s].listen}
             named == {s \in listening : Takes(s, host)}
  <1>1. Len(Servers) \in Nat /\ listening # {}
    BY RoutingAssumption, Configured
  <1>2. named # {} => Least(named) \in named /\ \A j \in named : Least(named) <= j
    <2>1. named \in SUBSET (1 .. Len(Servers))
      OBVIOUS
    <2> HIDE DEF named
    <2> QED BY <1>1, <2>1, LeastIn
  <1>3. Least(listening) \in listening /\ \A j \in listening : Least(listening) <= j
    <2>1. listening \in SUBSET (1 .. Len(Servers))
      OBVIOUS
    <2> HIDE DEF listening
    <2> QED BY <1>1, <2>1, LeastIn
  <1>4. FindServer(e, host) = IF named # {} THEN Least(named) ELSE Least(listening)
    BY DEF FindServer, Takes
  <1>5. CASE named # {}
    <2>1. FindServer(e, host) = Least(named)
      BY <1>4, <1>5
    <2>2. FindServer(e, host) \in named /\ \A j \in named : FindServer(e, host) <= j
      BY <1>2, <1>5, <2>1
    <2> QED BY <2>2
  <1>6. CASE named = {}
    <2>1. FindServer(e, host) = Least(listening)
      BY <1>4, <1>6
    <2>2. FindServer(e, host) \in listening /\ \A j \in listening : FindServer(e, host) <= j
      BY <1>3, <2>1
    <2>3. \A s \in listening : ~Takes(s, host)
      BY <1>6
    <2> QED BY <2>2, <2>3
  <1> QED BY <1>5, <1>6

\* What Length and Stem are of a path.
LEMMA Stems ==
    ASSUME NEW p \in Seq(Segment), p # <<>>
    PROVE  /\ Stem(p) \in Seq(Segment) /\ Len(p) \in Nat \ {0} /\ Length(p) \in Int
           /\ Last(p) = "" => Stem(p) = Front(p) /\ Len(Stem(p)) = Len(p) - 1
                              /\ Length(p) = 2 * Len(Stem(p)) + 1
           /\ Last(p) # "" => Stem(p) = p /\ Length(p) = 2 * Len(Stem(p))
  <1>1. Front(p) \in Seq(Segment) /\ Len(Front(p)) = Len(p) - 1 /\ Len(p) \in Nat \ {0}
    BY FrontIs
  <1>2. CASE Last(p) = ""
    <2>1. Stem(p) = Front(p) /\ Length(p) = 2 * Len(p) - 1
      BY <1>2 DEF Stem, Length
    <2>2. Stem(p) \in Seq(Segment) /\ Len(Stem(p)) = Len(p) - 1
      BY <1>1, <2>1
    <2>3. Length(p) = 2 * Len(Stem(p)) + 1 /\ Length(p) \in Int
      BY <1>1, <2>1, <2>2
    <2> QED BY <1>1, <1>2, <2>1, <2>2, <2>3
  <1>3. CASE Last(p) # ""
    <2>1. Stem(p) = p /\ Length(p) = 2 * Len(p) - 0
      BY <1>3 DEF Stem, Length
    <2>2. Length(p) = 2 * Len(Stem(p)) /\ Length(p) \in Int
      BY <1>1, <2>1
    <2> QED BY <1>1, <1>3, <2>1, <2>2
  <1> QED BY <1>2, <1>3

\* Of the locations whose path a uri begins with, one of the longest is found.
LEMMA FoundLocation ==
    ASSUME NEW s \in 1 .. Len(Servers), NEW uri
    PROVE  /\ FindLocation(s, uri) # 0 => Begins(uri, PathOf(s, FindLocation(s, uri)))
           /\ \A i \in 1 .. Count(s) : Begins(uri, PathOf(s, i)) =>
                 /\ FindLocation(s, uri) # 0
                 /\ Length(PathOf(s, i)) <= Length(PathOf(s, FindLocation(s, uri)))
  <1>1. PICK h : FindRun(s, uri, h)
    BY FindRuns
  <1> DEFINE n == Count(s)
             Best(k, b) == /\ b # 0 => Begins(uri, PathOf(s, b))
                           /\ \A i \in 1 .. k : Begins(uri, PathOf(s, i)) =>
                                b # 0 /\ Length(PathOf(s, i)) <= Length(PathOf(s, b))
             S == {k \in 0 .. n : Best(k, h[k])}
  <1>2. n \in Nat /\ \A i \in 1 .. n : Length(PathOf(s, i)) \in Int
    BY Configured, Stems
  <1>3. /\ h \in [0 .. n -> 0 .. n] /\ h[0] = 0 /\ FindLocation(s, uri) = h[n]
        /\ \A k \in 1 .. n : h[k] = FindStep(s, uri, h[k - 1], k)
    BY <1>1 DEF FindRun
  <1> HIDE DEF n
  <1>4. Best(0, h[0])
    BY <1>3
  <1>5. ASSUME NEW k \in 1 .. n, Best(k - 1, h[k - 1]) PROVE Best(k, h[k])
    <2>1. h[k] = FindStep(s, uri, h[k - 1], k) /\ h[k - 1] \in 0 .. n /\ k \in Nat /\ k # 0
      <3>1. k - 1 \in 0 .. n /\ k \in Nat /\ k # 0
        BY <1>2
      <3> QED BY <1>3, <3>1
    <2>2. \A i \in 1 .. k : i \in 1 .. k - 1 \/ i = k
      BY <2>1
    <2>3. CASE /\ Begins(uri, PathOf(s, k))
               /\ h[k - 1] = 0 \/ Length(PathOf(s, k)) > Length(PathOf(s, h[k - 1]))
      <3>1. h[k] = k
        BY <2>1, <2>3 DEF FindStep
      <3>2. ASSUME NEW i \in 1 .. k - 1, Begins(uri, PathOf(s, i))
            PROVE  Length(PathOf(s, i)) <= Length(PathOf(s, k))
        <4>1. h[k - 1] # 0 /\ Length(PathOf(s, i)) <= Length(PathOf(s, h[k - 1]))
          BY <1>5, <3>2
        <4>2. /\ Length(PathOf(s, i)) \in Int /\ Length(PathOf(s, k)) \in Int
              /\ Length(PathOf(s, h[k - 1])) \in Int
          BY <1>2, <2>1, <4>1
        <4> QED BY <2>3, <4>1, <4>2
      <3>3. Length(PathOf(s, k)) <= Length(PathOf(s, k))
        BY <1>2
      <3> QED BY <2>1, <2>2, <2>3, <3>1, <3>2, <3>3
    <2>4. CASE ~(/\ Begins(uri, PathOf(s, k))
                 /\ h[k - 1] = 0 \/ Length(PathOf(s, k)) > Length(PathOf(s, h[k - 1])))
      <3>1. h[k] = h[k - 1]
        BY <2>1, <2>4 DEF FindStep
      <3>2. Begins(uri, PathOf(s, k)) =>
              h[k - 1] # 0 /\ Length(PathOf(s, k)) <= Length(PathOf(s, h[k - 1]))
        <4> SUFFICES ASSUME Begins(uri, PathOf(s, k))
                     PROVE  h[k - 1] # 0 /\ Length(PathOf(s, k)) <= Length(PathOf(s, h[k - 1]))
          OBVIOUS
        <4>1. h[k - 1] # 0 /\ ~(Length(PathOf(s, k)) > Length(PathOf(s, h[k - 1])))
          BY <2>4
        <4>2. Length(PathOf(s, k)) \in Int /\ Length(PathOf(s, h[k - 1])) \in Int
          BY <1>2, <2>1, <4>1
        <4> QED BY <4>1, <4>2
      <3> QED BY <1>5, <2>2, <3>1, <3>2
    <2> QED BY <2>3, <2>4
  <1> HIDE DEF Best
  <1>6. 0 \in S /\ \A k \in 1 .. n : k - 1 \in S => k \in S
    BY <1>2, <1>4, <1>5
  <1>7. n \in S
    <2> HIDE DEF S
    <2>1. \A k \in 0 .. n : k \in S
      BY <1>2, <1>6, UpTo
    <2> QED BY <1>2, <2>1
  <1> QED BY <1>3, <1>7 DEF Best, n

-----------------------------------------------------------------------------
(* Paths without links.                                                    *)

\* What a path begins with, one name longer.
LEMMA OneLonger ==
    ASSUME NEW S, NEW p \in Seq(S), NEW k \in 1 .. Len(p)
    PROVE  /\ SubSeq(p, 1, k) = Append(SubSeq(p, 1, k - 1), p[k])
           /\ SubSeq(p, 1, k) \in Seq(S) /\ Len(SubSeq(p, 1, k)) = k /\ p[k] \in S
           /\ SubSeq(p, 1, k - 1) \in Seq(S) /\ Len(SubSeq(p, 1, k - 1)) = k - 1
  <1>1. Len(p) \in Nat /\ \A i \in 1 .. Len(p) : p[i] \in S
    BY ElementOfSeq
  <1>2. ASSUME NEW m \in 0 .. Len(p)
        PROVE  /\ SubSeq(p, 1, m) \in Seq(S) /\ Len(SubSeq(p, 1, m)) = m
               /\ \A i \in 1 .. m : SubSeq(p, 1, m)[i] = p[i]
    <2>1. m \in Int /\ 1 \in Int /\ \A i \in 1 .. m : p[i] \in S
      BY <1>1
    <2>2. /\ SubSeq(p, 1, m) \in Seq(S) /\ Len(SubSeq(p, 1, m)) = IF 1 <= m THEN m - 1 + 1 ELSE 0
          /\ \A i \in 1 .. m - 1 + 1 : SubSeq(p, 1, m)[i] = p[1 + i - 1]
      BY <2>1, SubSeqProperties
    <2> QED BY <1>1, <2>2
  <1> DEFINE a == SubSeq(p, 1, k)
             b == SubSeq(p, 1, k - 1)
  <1>3. k \in 0 .. Len(p) /\ k - 1 \in 0 .. Len(p) /\ p[k] \in S /\ k \in Nat
    BY <1>1
  <1>4. a \in Seq(S) /\ Len(a) = k /\ \A i \in 1 .. k : a[i] = p[i]
    BY <1>2, <1>3
  <1>5. b \in Seq(S) /\ Len(b) = k - 1 /\ \A i \in 1 .. k - 1 : b[i] = p[i]
    BY <1>2, <1>3
  <1> HIDE DEF a, b
  <1>6. /\ Append(b, p[k]) \in Seq(S) /\ Len(Append(b, p[k])) = k
        /\ Append(b, p[k])[k] = p[k] /\ \A i \in 1 .. k - 1 : Append(b, p[k])[i] = p[i]
    <2>1. /\ Append(b, p[k]) \in Seq(S) /\ Len(Append(b, p[k])) = Len(b) + 1
          /\ Append(b, p[k])[Len(b) + 1] = p[k]
          /\ \A i \in 1 .. Len(b) : Append(b, p[k])[i] = b[i]
      BY <1>3, <1>5, AppendProperties
    <2> QED BY <1>3, <1>5, <2>1
  <1>7. a = Append(b, p[k])
    <2>1. \A i \in 1 .. k : a[i] = Append(b, p[k])[i]
      <3>1. \A i \in 1 .. k : i = k \/ i \in 1 .. k - 1
        BY <1>3
      <3> QED BY <1>4, <1>6, <3>1
    <2> QED BY <1>4, <1>6, <2>1, SeqEqual
  <1> QED BY <1>3, <1>4, <1>5, <1>7 DEF a, b

\* A path on which no link stands leads to itself.
LEMMA Straight ==
    ASSUME NEW t, WellFormed(t), NEW p \in Seq(Segment),
           \A k \in 1 .. Len(p) : SubSeq(p, 1, k) \notin DOMAIN t.links
    PROVE  Canonical(t, p) = p
  <1>1. PICK h : CanonRun(t, p, h)
    BY CanonRuns
  <1> DEFINE S == {k \in 0 .. Len(p) : h[k] = SubSeq(p, 1, k)}
  <1>2. Len(p) \in Nat /\ SubSeq(p, 1, 0) = <<>> /\ SubSeq(p, 1, Len(p)) = p
    BY SubSeqEmpty, SubSeqFull
  <1>3. h[0] = <<>> /\ Canonical(t, p) = h[Len(p)]
        /\ \A k \in 1 .. Len(p) : h[k] = CanonStep(t, h[k - 1], p[k])
    BY <1>1 DEF CanonRun
  <1>4. ASSUME NEW k \in 1 .. Len(p), h[k - 1] = SubSeq(p, 1, k - 1)
        PROVE  h[k] = SubSeq(p, 1, k)
    <2>1. Append(h[k - 1], p[k]) = SubSeq(p, 1, k)
      BY <1>4, OneLonger
    <2> QED BY <1>3, <2>1 DEF CanonStep
  <1>5. 0 \in S /\ \A k \in 1 .. Len(p) : k - 1 \in S => k \in S
    <2>1. 0 \in S
      <3>1. 0 \in 0 .. Len(p)
        BY <1>2
      <3>2. h[0] = SubSeq(p, 1, 0)
        BY Zenon, <1>2, <1>3
      <3> QED BY <3>1, <3>2
    <2>2. ASSUME NEW k \in 1 .. Len(p), k - 1 \in S PROVE k \in S
      <3>1. h[k - 1] = SubSeq(p, 1, k - 1) /\ k \in 0 .. Len(p)
        BY <1>2, <2>2
      <3> QED BY <1>4, <3>1
    <2> QED BY <2>1, <2>2
  <1>6. Len(p) \in S
    <2> HIDE DEF S
    <2>1. \A k \in 0 .. Len(p) : k \in S
      BY <1>2, <1>5, UpTo
    <2> QED BY <1>2, <2>1
  <1> QED BY <1>2, <1>3, <1>6

\* What leads to a directory are directories.
LEMMA DirsAbove ==
    ASSUME NEW t, WellFormed(t), NEW p \in t.dirs
    PROVE  /\ p \in Seq(Name) /\ p \in Seq(Segment)
           /\ \A k \in 0 .. Len(p) : SubSeq(p, 1, k) \in t.dirs
  <1>1. p \in Seq(Name) /\ Len(p) \in Nat /\ SubSeq(p, 1, Len(p)) = p
    BY SubSeqFull DEF WellFormed, Entries
  <1> DEFINE n == Len(p)
             S == {k \in 0 .. n : SubSeq(p, 1, n - k) \in t.dirs}
  <1>2. 0 \in S
    <2>1. n - 0 = n /\ 0 \in 0 .. n
      BY <1>1
    <2> QED BY <1>1, <2>1
  <1>3. ASSUME NEW k \in 1 .. n, k - 1 \in S PROVE k \in S
    <2> DEFINE m == n - k + 1
               a == SubSeq(p, 1, m)
               b == SubSeq(p, 1, m - 1)
    <2>1. m \in 1 .. n /\ m - 1 = n - k /\ n - (k - 1) = m /\ k \in 0 .. n
      BY <1>1
    <2>2. a \in t.dirs
      BY <1>3, <2>1
    <2>3. a = Append(b, p[m]) /\ Len(a) = m /\ b \in Seq(Name) /\ p[m] \in Name
      BY <1>1, <2>1, OneLonger
    <2> HIDE DEF a, b, m
    <2>4. a # <<>> /\ Front(a) = b
      BY <2>3, AppendIs
    <2>5. Front(a) \in t.dirs
      BY <2>2, <2>4 DEF WellFormed, Entries
    <2> QED BY <2>1, <2>4, <2>5 DEF b, m
  <1>4. \A k \in 0 .. n : k \in S
    <2> HIDE DEF S
    <2> QED BY <1>1, <1>2, <1>3, UpTo
  <1>5. ASSUME NEW k \in 0 .. n PROVE SubSeq(p, 1, k) \in t.dirs
    <2>1. n - k \in 0 .. n /\ n - (n - k) = k
      BY <1>1
    <2> QED BY <1>4, <2>1
  <1>6. p \in Seq(Segment)
    BY <1>1, SeqMonotonic DEF Segment
  <1> QED BY <1>1, <1>5, <1>6

\* A directory of the first tree is reached without links in any tree that has
\* no more of them.
LEMMA RootIsItself ==
    ASSUME NEW t, WellFormed(t), DOMAIN t.links \subseteq DOMAIN Tree.links, NEW p \in Tree.dirs
    PROVE  Canonical(t, p) = p /\ Canonical(Tree, p) = p /\ p \in Seq(Name) /\ p \in Seq(Segment)
  <1>1. WellFormed(Tree)
    BY RoutingAssumption
  <1>2. p \in Seq(Name) /\ p \in Seq(Segment) /\ \A k \in 0 .. Len(p) : SubSeq(p, 1, k) \in Tree.dirs
    BY <1>1, DirsAbove
  <1>3. \A k \in 1 .. Len(p) : SubSeq(p, 1, k) \notin DOMAIN Tree.links
    <2>1. \A k \in 1 .. Len(p) : k \in 0 .. Len(p)
      BY <1>2
    <2> QED BY <1>1, <1>2, <2>1 DEF WellFormed
  <1> QED BY <1>1, <1>2, <1>3, Straight

-----------------------------------------------------------------------------
(* What Router::route can answer.                                          *)

RouteTypes == {"ERR", "RED", "CGI", "FILES", "UPLOAD", "DIRECTORY_LISTING"}

\* What the configuration gives for a location, or for none.
Sane(loc) == /\ loc.path \in Seq(Segment) /\ loc.path # <<>> /\ loc.root \in Tree.dirs
             /\ loc.index \in Seq(Name) /\ loc.upload_path \subseteq Tree.dirs

LEMMA Singleton ==
    ASSUME NEW S, NEW x \in S
    PROVE  <<x>> \in Seq(S) /\ <<x>> # <<>>
  <1>1. <<x>> \in Seq(S) /\ Len(<<x>>) = 1
    OBVIOUS
  <1> QED BY <1>1, EmptySeq

LEMMA LocationIs ==
    ASSUME NEW s \in 1 .. Len(Servers), NEW l \in 0 .. Count(s)
    PROVE  Sane(LocationAt(s, l))
  <1>1. CASE l = 0
    <2>1. Servers[s].root \in Tree.dirs /\ Servers[s].index \in Seq(Name)
      BY Configured DEF ServerConfig
    <2>2. <<"">> \in Seq(Segment) /\ <<"">> # <<>>
      <3>1. "" \in Segment
        BY DEF Segment
      <3> QED BY Zenon, <3>1, Singleton
    <2> QED BY <1>1, <2>1, <2>2 DEF LocationAt, NoLocation, Sane
  <1>2. CASE l # 0
    <2>1. l \in 1 .. Count(s)
      BY <1>2, Configured
    <2>2. Servers[s].locations[l] \in LocationConfig
      BY <2>1, Configured
    <2> QED BY <1>2, <2>2 DEF LocationAt, LocationConfig, Sane
  <1> QED BY <1>1, <1>2

\* Joining and cutting.
LEMMA Pieces ==
    ASSUME NEW S, NEW u \in Seq(S), NEW k \in 0 .. Len(u)
    PROVE  /\ SubSeq(u, 1, k) \in Seq(S) /\ Len(SubSeq(u, 1, k)) = k
           /\ SubSeq(u, k + 1, Len(u)) \in Seq(S) /\ Len(SubSeq(u, k + 1, Len(u))) = Len(u) - k
           /\ SubSeq(u, 1, k) \o SubSeq(u, k + 1, Len(u)) = u
  <1>1. Len(u) \in Nat /\ \A i \in 1 .. Len(u) : u[i] \in S
    BY ElementOfSeq
  <1>2. SubSeq(u, 1, k) \o SubSeq(u, k + 1, Len(u)) = SubSeq(u, 1, Len(u))
    <2>1. 1 \in 1 .. Len(u) + 1 /\ k \in 1 - 1 .. Len(u) /\ Len(u) \in k .. Len(u)
      BY <1>1
    <2> QED BY <2>1, ConcatAdjacentSubSeq
  <1>3. SubSeq(u, 1, k) \in Seq(S) /\ Len(SubSeq(u, 1, k)) = k
    <2>1. 1 \in Int /\ k \in Int /\ \A i \in 1 .. k : u[i] \in S
      BY <1>1
    <2>2. SubSeq(u, 1, k) \in Seq(S) /\ Len(SubSeq(u, 1, k)) = IF 1 <= k THEN k - 1 + 1 ELSE 0
      BY <2>1, SubSeqProperties
    <2> QED BY <1>1, <2>2
  <1>4. SubSeq(u, k + 1, Len(u)) \in Seq(S) /\ Len(SubSeq(u, k + 1, Len(u))) = Len(u) - k
    <2> DEFINE m == k + 1
    <2>1. m \in Int /\ Len(u) \in Int /\ \A i \in m .. Len(u) : u[i] \in S
      BY <1>1
    <2>2. m = k + 1
      OBVIOUS
    <2> HIDE DEF m
    <2>3. /\ SubSeq(u, m, Len(u)) \in Seq(S)
          /\ Len(SubSeq(u, m, Len(u))) = IF m <= Len(u) THEN Len(u) - m + 1 ELSE 0
      BY <2>1, SubSeqProperties
    <2> QED BY <1>1, <2>2, <2>3
  <1>5. SubSeq(u, 1, Len(u)) = u
    BY SubSeqFull
  <1> QED BY <1>2, <1>3, <1>4, <1>5

\* A file a uri stands for: the root, then what the uri has after x.
MapsTo(loc, uri, f) ==
    \E x \in Seq(Segment), rel \in Seq(Segment) :
        uri = x \o rel /\ f = NormalizePath(loc.root \o rel)

LEMMA Mapped ==
    ASSUME NEW t, NEW loc, Sane(loc), NEW uri \in Seq(Segment), NEW f \in MapURI(t, loc, uri)
    PROVE  /\ f \in Seq(Segment) /\ IsWithinFSRoot(t, f, loc.root) /\ loc.root \in Seq(Segment)
           /\ MapsTo(loc, uri, f)
  <1> DEFINE n == Len(Stem(loc.path))
             rest == SubSeq(uri, n + 1, Len(uri))
  <1>1. loc.root \in Seq(Segment)
    BY RoutingAssumption, DirsAbove DEF Sane
  <1>2. \E x \in Seq(Segment), rel \in Seq(Segment) :
           uri = x \o rel /\ f = NormalizePath(loc.root \o rel)
    <2>1. CASE Begins(uri, loc.path)
      <3>1. Stem(loc.path) \in Seq(Segment) /\ n <= Len(uri)
        BY <2>1, Stems DEF Begins, IsPrefix, Sane
      <3>2. n \in 0 .. Len(uri)
        BY <3>1
      <3> HIDE DEF n
      <3>3. /\ SubSeq(uri, 1, n) \in Seq(Segment) /\ rest \in Seq(Segment)
            /\ SubSeq(uri, 1, n) \o rest = uri
        BY <3>2, Pieces
      <3>4. f = NormalizePath(loc.root \o rest)
        BY <2>1 DEF MapURI, n
      <3> HIDE DEF rest
      <3> QED BY <3>3, <3>4
    <2>2. CASE ~Begins(uri, loc.path)
      <3>1. f = NormalizePath(loc.root \o uri)
        BY <2>2 DEF MapURI
      <3>2. uri = <<>> \o uri /\ <<>> \in Seq(Segment)
        BY ConcatEmptySeq
      <3> QED BY <3>1, <3>2
    <2> QED BY <2>1, <2>2
  <1>3. f \in Seq(Segment)
    <2>1. PICK rel \in Seq(Segment) : f = NormalizePath(loc.root \o rel)
      BY <1>2
    <2>2. loc.root \o rel \in Seq(Segment)
      BY <1>1, ConcatProperties
    <2> QED BY <2>1, <2>2, NormalType
  <1>4. IsWithinFSRoot(t, f, loc.root)
    BY DEF MapURI
  <1> QED BY <1>1, <1>2, <1>3, <1>4 DEF MapsTo

\* A script is run, or nothing is.
Runnable(r, f, sn, pi) ==
    /\ r.type \in {"ERR", "CGI"}
    /\ r.type = "CGI" => r.file = f /\ r.script_name = sn /\ r.path_info = pi

LEMMA Finalized ==
    ASSUME NEW loc, NEW f, NEW sn, NEW pi
    PROVE  Runnable(FinalizeCgiRoute(loc, f, sn, pi), f, sn, pi)
  BY DEF Runnable, FinalizeCgiRoute, Error, A

\* The ways to an answer from a file: it is what the uri stands for, ...
AsFile(t, loc, uri, r) ==
    \E f \in MapURI(t, loc, uri) :
        /\ IsFile(t, f) /\ r.file = f
        /\ \/ r.type = "FILES"
           \/ r.type = "CGI" /\ IsCGI(loc, f) /\ r.script_name = NormalizePath(uri)
              /\ r.path_info = <<>>

\* ... or the index of the directory the uri stands for, ...
AsIndex(t, loc, uri, r) ==
    \E f \in MapURI(t, loc, uri), i \in 1 .. Len(loc.index) :
        /\ r.file = Append(f, loc.index[i])
        /\ \/ r.type = "FILES"
           \/ r.type = "CGI" /\ r.script_name = Append(NormalizePath(uri), Last(r.file))
              /\ r.path_info = <<>>

\* ... or the directory is listed, ...
AsList(t, loc, uri, r) ==
    \E f \in MapURI(t, loc, uri) : r.type = "DIRECTORY_LISTING" /\ r.file = f

\* ... or it is a script the uri goes on after.
AsRest(t, loc, u, r) ==
    \E k \in Named(t, loc, u) : \E f \in MapURI(t, loc, SubSeq(u, 1, k)) :
        /\ \A j \in Named(t, loc, u) : j <= k
        /\ IsFile(t, f) /\ IsCGI(loc, f) /\ r.type = "CGI" /\ r.file = f
        /\ r.script_name = SubSeq(u, 1, k) /\ r.path_info = SubSeq(u, k + 1, Len(u))

Served(t, loc, uri, r) ==
    \/ AsFile(t, loc, uri, r) \/ AsIndex(t, loc, uri, r) \/ AsList(t, loc, uri, r)
    \/ AsRest(t, loc, NormalizePath(uri), r)

LEMMA RestRouted ==
    ASSUME NEW t, NEW loc, NEW u \in Seq(Segment), NEW r, r = ResolveCgiPathInfo(t, loc, u)
    PROVE  r.type = "ERR" \/ AsRest(t, loc, u, r)
  <1> DEFINE N == Named(t, loc, u)
             k == CHOOSE k \in N : \A j \in N : j <= k
             f == CHOOSE f \in MapURI(t, loc, SubSeq(u, 1, k)) : TRUE
  <1>1. r = IF N = {} THEN Error(404)
            ELSE FinalizeCgiRoute(loc, f, SubSeq(u, 1, k), SubSeq(u, k + 1, Len(u)))
    BY Zenon DEF ResolveCgiPathInfo
  <1>2. CASE N = {}
    BY <1>1, <1>2 DEF Error, A
  <1>3. CASE N # {}
    <2>1. N \in SUBSET (1 .. Len(u)) /\ Len(u) \in Nat
      BY DEF Named
    <2>2. \E m \in N : \A j \in N : j <= m
      <3> HIDE DEF N
      <3> QED BY <1>3, <2>1, Final
    <2>3. k \in N /\ \A j \in N : j <= k
      <3> HIDE DEF N
      <3> QED BY <2>2
    <2> HIDE DEF k
    <2>4. \E g \in MapURI(t, loc, SubSeq(u, 1, k)) : IsFile(t, g) /\ IsCGI(loc, g)
      BY <2>3 DEF Named
    <2>5. f \in MapURI(t, loc, SubSeq(u, 1, k))
      BY <2>4
    <2>6. \A g \in MapURI(t, loc, SubSeq(u, 1, k)) : g = f
      <3> HIDE DEF f
      <3> QED BY <2>5 DEF MapURI
    <2>7. IsFile(t, f) /\ IsCGI(loc, f)
      <3> HIDE DEF f
      <3> QED BY <2>4, <2>6
    <2> HIDE DEF f
    <2>8. r = FinalizeCgiRoute(loc, f, SubSeq(u, 1, k), SubSeq(u, k + 1, Len(u)))
      BY <1>1, <1>3
    <2>9. /\ r.type \in {"ERR", "CGI"}
          /\ r.type = "CGI" => /\ r.file = f /\ r.script_name = SubSeq(u, 1, k)
                               /\ r.path_info = SubSeq(u, k + 1, Len(u))
      <3>1. Runnable(r, f, SubSeq(u, 1, k), SubSeq(u, k + 1, Len(u)))
        BY <2>8, Finalized
      <3> QED BY <3>1 DEF Runnable
    <2>10. ASSUME r.type = "CGI" PROVE AsRest(t, loc, u, r)
      BY <2>3, <2>5, <2>7, <2>9, <2>10 DEF AsRest
    <2> QED BY <2>9, <2>10
  <1> QED BY <1>2, <1>3

LEMMA DirRouted ==
    ASSUME NEW t, NEW loc, Sane(loc), NEW method, NEW uri \in Seq(Segment),
           NEW f \in MapURI(t, loc, uri), NEW r, r = RouteDir(t, loc, method, uri, f)
    PROVE  r.type = "ERR" \/ AsIndex(t, loc, uri, r) \/ AsList(t, loc, uri, r)
  <1> DEFINE index == MapIndexPath(t, f, loc)
             x == CHOOSE x \in index : TRUE
  <1>1. CASE index # {}
    <2>1. PICK i \in 1 .. Len(loc.index) : x = Append(f, loc.index[i])
      <3> DEFINE there == {i \in 1 .. Len(loc.index) : IsFile(t, Append(f, loc.index[i]))}
      <3>1. there # {} /\ index = {Append(f, loc.index[Least(there)])}
        BY <1>1 DEF MapIndexPath
      <3>2. there \in SUBSET (1 .. Len(loc.index)) /\ Len(loc.index) \in Nat
        BY DEF Sane
      <3> HIDE DEF there
      <3>3. Least(there) \in 1 .. Len(loc.index)
        BY <3>1, <3>2, LeastIn
      <3>4. x = Append(f, loc.index[Least(there)])
        <4> HIDE DEF index
        <4> QED BY <3>1
      <3> QED BY <3>3, <3>4
    <2>2. r = IF IsCGI(loc, x)
                THEN FinalizeCgiRoute(loc, x, Append(NormalizePath(uri), Last(x)), <<>>)
                ELSE A("FILES", 200, x)
      BY Zenon, <1>1 DEF RouteDir
    <2> HIDE DEF x
    <2>3. CASE IsCGI(loc, x)
      <3>1. /\ r.type \in {"ERR", "CGI"}
            /\ r.type = "CGI" => /\ r.file = x /\ r.path_info = <<>>
                                 /\ r.script_name = Append(NormalizePath(uri), Last(x))
        <4>1. Runnable(r, x, Append(NormalizePath(uri), Last(x)), <<>>)
          BY <2>2, <2>3, Finalized
        <4> QED BY <4>1 DEF Runnable
      <3> QED BY <2>1, <3>1 DEF AsIndex
    <2>4. CASE ~IsCGI(loc, x)
      <3>1. r.type = "FILES" /\ r.file = x
        BY <2>2, <2>4 DEF A
      <3> QED BY <2>1, <3>1 DEF AsIndex
    <2> QED BY <2>3, <2>4
  <1>2. CASE index = {}
    <2>1. r.type = "ERR" \/ (r.type = "DIRECTORY_LISTING" /\ r.file = f)
      <3> HIDE DEF x
      <3> QED BY <1>2 DEF RouteDir, Error, A
    <2> QED BY <2>1 DEF AsList
  <1> QED BY <1>1, <1>2

LEMMA FileRouted ==
    ASSUME NEW t, WellFormed(t), NEW loc, Sane(loc), NEW method, NEW uri \in Seq(Segment),
           NEW f \in MapURI(t, loc, uri), NEW r, r = RouteFile(t, loc, method, uri, f)
    PROVE  r.type = "ERR" \/ Served(t, loc, uri, r)
  <1>1. ~(IsFile(t, f) /\ IsDir(t, f))
    BY DEF WellFormed, IsFile, IsDir
  <1>2. CASE IsFile(t, f) /\ IsCGI(loc, f)
    <2>1. r = FinalizeCgiRoute(loc, f, NormalizePath(uri), <<>>)
      BY <1>1, <1>2 DEF RouteFile
    <2>2. Runnable(r, f, NormalizePath(uri), <<>>)
      BY <2>1, Finalized
    <2> QED BY <1>2, <2>2 DEF Runnable, AsFile, Served
  <1>3. CASE IsFile(t, f) /\ ~IsCGI(loc, f)
    <2>1. r = A("FILES", 200, f)
      BY <1>1, <1>3 DEF RouteFile
    <2>2. r.type = "FILES" /\ r.file = f
      BY <2>1 DEF A
    <2> QED BY <1>3, <2>2 DEF AsFile, Served
  <1>4. CASE IsDir(t, f)
    <2>1. r = RouteDir(t, loc, method, uri, f)
      BY <1>1, <1>4 DEF RouteFile
    <2> QED BY <2>1, DirRouted DEF Served
  <1>5. CASE ~IsFile(t, f) /\ ~IsDir(t, f)
    <2>1. r = ResolveCgiPathInfo(t, loc, NormalizePath(uri))
      BY <1>5 DEF RouteFile
    <2>2. NormalizePath(uri) \in Seq(Segment)
      BY NormalType
    <2> HIDE DEF ResolveCgiPathInfo
    <2> QED BY <2>1, <2>2, RestRouted DEF Served
  <1> QED BY <1>2, <1>3, <1>4, <1>5

\* What answers a request: an error, a redirection, an upload, or a file.
LEMMA Routed ==
    ASSUME NEW t, WellFormed(t), NEW loc, Sane(loc), NEW method, NEW uri \in Seq(Segment),
           NEW r, r = Route(t, loc, method, uri)
    PROVE  /\ r.type \in RouteTypes
           /\ r.type \in {"FILES", "CGI", "DIRECTORY_LISTING"} => Served(t, loc, uri, r)
           /\ r.type = "UPLOAD" => /\ loc.returns = {} /\ method \in loc.allow_methods
                                   /\ loc.upload_path # {}
  <1>1. CASE loc.returns # {}
    <2>1. r.type = "RED"
      BY <1>1 DEF Route, A
    <2> QED BY <2>1 DEF RouteTypes
  <1>2. CASE loc.returns = {} /\ method \notin loc.allow_methods
    <2>1. r.type = "ERR"
      BY <1>2 DEF Route, Error, A
    <2> QED BY <2>1 DEF RouteTypes
  <1>3. CASE /\ loc.returns = {} /\ method \in loc.allow_methods
             /\ method # "GET" /\ loc.upload_path # {}
    <2>1. r.type = "UPLOAD"
      BY <1>3 DEF Route, A
    <2> QED BY <1>3, <2>1 DEF RouteTypes
  <1>4. CASE /\ loc.returns = {} /\ method \in loc.allow_methods
             /\ method = "GET" \/ loc.upload_path = {}
    <2> DEFINE f == CHOOSE f \in MapURI(t, loc, uri) : TRUE
    <2>1. r = IF MapURI(t, loc, uri) = {} THEN Error(403)
              ELSE RouteFile(t, loc, method, uri, f)
      BY <1>4 DEF Route
    <2>2. MapURI(t, loc, uri) # {} => f \in MapURI(t, loc, uri)
      OBVIOUS
    <2> HIDE DEF f
    <2>3. r.type = "ERR" \/ Served(t, loc, uri, r)
      <3>1. CASE MapURI(t, loc, uri) = {}
        BY <2>1, <3>1 DEF Error, A
      <3>2. CASE MapURI(t, loc, uri) # {}
        BY <2>1, <2>2, <3>2, FileRouted
      <3> QED BY <3>1, <3>2
    <2>4. Served(t, loc, uri, r) => r.type \in {"FILES", "CGI", "DIRECTORY_LISTING"}
      BY DEF Served, AsFile, AsIndex, AsList, AsRest
    <2> QED BY <2>3, <2>4 DEF RouteTypes
  <1> QED BY <1>1, <1>2, <1>3, <1>4

-----------------------------------------------------------------------------
(* The inductive invariant.                                                *)

\* Directories and links only go; what has a generated name was uploaded.
TreeInv(t, up) ==
    /\ WellFormed(t) /\ up \subseteq Generated
    /\ t.dirs \subseteq Tree.dirs /\ DOMAIN t.links \subseteq DOMAIN Tree.links
    /\ \A p \in Entries(t) \ {<<>>} : Last(p) \in Generated => Last(p) \in up
    /\ \A p \in t.files : p \in Tree.files \/ (p # <<>> /\ Last(p) \in Generated)

\* The last answer is what its request gets; the tree is as it was then, unless
\* the request was for uploads.
Explained ==
    Asked =>
       /\ last.endpoint \in Endpoints /\ last.uri \in Uris
       /\ last.server = FindServer(last.endpoint, last.host)
       /\ last.location = FindLocation(last.server, last.uri)
       /\ last.route.type \in RouteTypes
       /\ last.route.type # "UPLOAD" => last.route = Route(tree, Loc, last.method, last.uri)

IInv == TreeInv(tree, uploads) /\ Explained

LEMMA TreeInvInit == TreeInv(Tree, {})
  BY RoutingAssumption, GeneratedAssumption DEF TreeInv

\* A file with a new name in a directory.
With(t, q) == [t EXCEPT !.files = @ \cup {q}]

Grows(t, up, dir, q, t2) ==
    /\ TreeInv(t2, up) /\ q \notin Entries(t) /\ Front(q) = dir
    /\ Entries(t2) = Entries(t) \cup {q}

LEMMA Grown ==
    ASSUME NEW t, NEW up, TreeInv(t, up), NEW dir \in t.dirs, NEW name \in Generated \ up,
           NEW q, q = Append(dir, name), NEW t2, t2 = With(t, q)
    PROVE  Grows(t, up \cup {name}, dir, q, t2)
  <1>1. WellFormed(t) /\ dir \in Seq(Name) /\ name \in Name
    BY GeneratedAssumption, DirsAbove DEF TreeInv
  <1>2. q \in Seq(Name) /\ q # <<>> /\ Last(q) = name /\ Front(q) = dir
    BY <1>1, AppendIs
  <1>3. t = [files |-> t.files, dirs |-> t.dirs, links |-> t.links]
    BY <1>1 DEF WellFormed
  <1>4. t2.files = t.files \cup {q} /\ t2.dirs = t.dirs /\ t2.links = t.links
        /\ t2 = [files |-> t2.files, dirs |-> t2.dirs, links |-> t2.links]
    <2> DEFINE fs == t.files \cup {q}
    <2>1. t2 = [t EXCEPT !.files = fs]
      BY Zenon DEF With
    <2> HIDE DEF fs
    <2>2. t2 = [files |-> fs, dirs |-> t.dirs, links |-> t.links]
      BY <1>3, <2>1
    <2>3. t2.files = fs /\ t2.dirs = t.dirs /\ t2.links = t.links
      BY <2>2
    <2> QED BY <2>2, <2>3 DEF fs
  <1>5. Entries(t2) = Entries(t) \cup {q}
    BY <1>4 DEF Entries
  <1>6. q \notin Entries(t)
    BY <1>2 DEF TreeInv
  <1>7. WellFormed(t2)
    <2>1. t.links = [x \in DOMAIN t.links |-> t.links[x]]
      BY <1>1 DEF WellFormed
    <2>2. t2 = [files |-> t2.files, dirs |-> t2.dirs,
                links |-> [x \in DOMAIN t2.links |-> t2.links[x]]]
      <3>1. t2.links = [x \in DOMAIN t2.links |-> t2.links[x]]
        <4>1. t2.links = t.links
          BY <1>4
        <4> QED BY <2>1, <4>1
      <3>2. t2 = [files |-> t2.files, dirs |-> t2.dirs, links |-> t2.links]
        BY <1>4
      <3> QED BY Zenon, <3>1, <3>2
    <2>3. Entries(t2) \subseteq Seq(Name)
      BY <1>1, <1>2, <1>5 DEF WellFormed
    <2>4. t2.files \cap t2.dirs = {} /\ (t2.files \cup t2.dirs) \cap DOMAIN t2.links = {}
      <3>1. q \notin t.dirs /\ q \notin DOMAIN t.links
        BY <1>6 DEF Entries
      <3>2. t.files \cap t.dirs = {} /\ (t.files \cup t.dirs) \cap DOMAIN t.links = {}
        BY <1>1 DEF WellFormed
      <3>3. t2.files = t.files \cup {q} /\ t2.dirs = t.dirs /\ DOMAIN t2.links = DOMAIN t.links
        BY <1>4
      <3> QED BY ZenonT(40), <3>1, <3>2, <3>3
    <2>5. \A x \in Entries(t2) \ {<<>>} : Front(x) \in t2.dirs
      BY <1>1, <1>2, <1>4, <1>5 DEF WellFormed
    <2> QED BY <2>2, <2>3, <2>4, <2>5 DEF WellFormed
  <1>8. up \cup {name} \subseteq Generated
    BY DEF TreeInv
  <1>9. \A x \in Entries(t2) \ {<<>>} : Last(x) \in Generated => Last(x) \in up \cup {name}
    BY <1>2, <1>5 DEF TreeInv
  <1>10. \A x \in t2.files : x \in Tree.files \/ (x # <<>> /\ Last(x) \in Generated)
    BY <1>2, <1>4 DEF TreeInv
  <1>11. TreeInv(t2, up \cup {name})
    BY <1>4, <1>7, <1>8, <1>9, <1>10 DEF TreeInv
  <1> QED BY <1>2, <1>5, <1>6, <1>11 DEF Grows

LEMMA FrontIsPrefix ==
    ASSUME NEW S, NEW q \in Seq(S), q # <<>>
    PROVE  IsPrefix(Front(q), q) /\ Front(q) # q
  <1>1. Front(q) \in Seq(S) /\ Len(Front(q)) = Len(q) - 1 /\ Len(q) \in Nat \ {0}
    BY FrontIs
  <1>2. SubSeq(Front(q), 1, Len(Front(q))) = Front(q)
    BY <1>1, SubSeqFull
  <1>3. Front(q) = SubSeq(q, 1, Len(q) - 1)
    BY DEF Front
  <1> QED BY <1>1, <1>2, <1>3 DEF IsPrefix

\* Something removed: nothing is left without its directory.
LEMMA Shrunk ==
    ASSUME NEW t, NEW up, TreeInv(t, up), NEW p, Removable(t, p), NEW t2, t2 = Without(t, p)
    PROVE  TreeInv(t2, up) /\ p \in Entries(t) /\ Entries(t2) = Entries(t) \ {p}
  <1>1. WellFormed(t)
    BY DEF TreeInv
  <1>2. /\ t2.files = t.files \ {p} /\ t2.dirs = t.dirs \ {p}
        /\ t2.links = [q \in DOMAIN t.links \ {p} |-> t.links[q]]
        /\ t2 = [files |-> t2.files, dirs |-> t2.dirs, links |-> t2.links]
    BY DEF Without
  <1>3. DOMAIN t2.links = DOMAIN t.links \ {p}
    BY <1>2
  <1>4. Entries(t2) = Entries(t) \ {p} /\ p \in Entries(t)
    BY <1>2, <1>3 DEF Entries, Removable
  <1>5. \A q \in Entries(t2) \ {<<>>} : Front(q) \in t2.dirs
    <2> SUFFICES ASSUME NEW q \in Entries(t2) \ {<<>>} PROVE Front(q) \in t2.dirs
      OBVIOUS
    <2>1. q \in Entries(t) /\ q # p /\ q # <<>> /\ q \in Seq(Name) /\ Front(q) \in t.dirs
      BY <1>1, <1>4 DEF WellFormed
    <2>2. Front(q) # p
      <3>1. CASE p \in DOMAIN t.links \cup t.files
        BY <1>1, <2>1, <3>1 DEF WellFormed
      <3>2. CASE \A x \in Entries(t) : x # p => ~IsPrefix(p, x)
        BY <2>1, <3>2, FrontIsPrefix
      <3> QED BY <3>1, <3>2 DEF Removable, Entries
    <2> QED BY <1>2, <2>1, <2>2
  <1>6. t2.links = [q \in DOMAIN t2.links |-> t2.links[q]]
    BY <1>2, <1>3
  <1>7. WellFormed(t2)
    <2>1. t2 = [files |-> t2.files, dirs |-> t2.dirs,
                links |-> [x \in DOMAIN t2.links |-> t2.links[x]]]
      BY Zenon, <1>2, <1>6
    <2>2. Entries(t2) \subseteq Seq(Name)
      BY <1>1, <1>4 DEF WellFormed
    <2>3. t2.files \cap t2.dirs = {} /\ (t2.files \cup t2.dirs) \cap DOMAIN t2.links = {}
      BY <1>1, <1>2, <1>3 DEF WellFormed
    <2> QED BY <1>5, <2>1, <2>2, <2>3 DEF WellFormed
  <1>8. \A q \in Entries(t2) \ {<<>>} : Last(q) \in Generated => Last(q) \in up
    BY <1>4 DEF TreeInv
  <1> QED BY <1>2, <1>3, <1>4, <1>7, <1>8 DEF TreeInv

\* What an upload does to the tree, if anything.
LEMMA Uploads ==
    ASSUME TreeInv(tree, uploads), NEW loc, Sane(loc), Upload(loc)
    PROVE  /\ TreeInv(tree', uploads')
           /\ tree' # tree => \E dir \in loc.upload_path : \E q :
                 /\ Front(q) = dir /\ Canonical(tree, dir) = dir
                 /\ q \notin Entries(tree) /\ Entries(tree') = Entries(tree) \cup {q}
  <1>1. PICK dir \in loc.upload_path, name \in Generated \ uploads :
           /\ uploads' = uploads \cup {name}
           /\ tree' = IF IsDir(tree, dir)
                        THEN [tree EXCEPT !.files = @ \cup {Placed(tree, dir, name)}]
                        ELSE tree
    BY DEF Upload
  <1>2. dir \in Tree.dirs /\ WellFormed(tree) /\ DOMAIN tree.links \subseteq DOMAIN Tree.links
    BY DEF Sane, TreeInv
  <1>3. Canonical(tree, dir) = dir
    BY <1>2, RootIsItself
  <1>4. CASE IsDir(tree, dir)
    <2> DEFINE q == Append(dir, name)
    <2>1. dir \in tree.dirs
      BY <1>3, <1>4 DEF IsDir
    <2>2. Placed(tree, dir, name) = q
      BY <1>3 DEF Placed
    <2>3. tree' = With(tree, q)
      BY Zenon, <1>1, <1>4, <2>2 DEF With
    <2> HIDE DEF q
    <2>4. q = Append(dir, name)
      BY DEF q
    <2>5. Grows(tree, uploads \cup {name}, dir, q, tree')
      BY <2>1, <2>3, <2>4, Grown
    <2> QED BY <1>1, <1>3, <2>5 DEF Grows
  <1>5. CASE ~IsDir(tree, dir)
    <2>1. tree' = tree
      BY Zenon, <1>1, <1>5
    <2>2. TreeInv(tree, uploads \cup {name})
      BY DEF TreeInv
    <2> QED BY Zenon, <1>1, <2>1, <2>2
  <1> QED BY <1>4, <1>5

\* What a DELETE does to the tree, if anything.
LEMMA Deletes ==
    ASSUME TreeInv(tree, uploads), NEW loc, Sane(loc), loc.upload_path # {},
           NEW uri \in Seq(Segment), uri # <<>>, NEW status, Delete(loc, uri, status)
    PROVE  /\ TreeInv(tree', uploads)
           /\ tree' # tree => status = 204 /\ \E dir \in loc.upload_path : \E q :
                 /\ Front(q) = dir /\ Canonical(tree, dir) = dir
                 /\ q \in Entries(tree) /\ Entries(tree') = Entries(tree) \ {q}
  <1> DEFINE dir == CHOOSE d \in loc.upload_path : TRUE
             name == Last(uri)
             p == Placed(tree, dir, name)
             known == p \in tree.files \cup tree.dirs \cup DOMAIN tree.links
  <1>1. dir \in loc.upload_path
    OBVIOUS
  <1>2. name \in Segment
    BY FrontIs
  <1>3. /\ status = CASE name = "" -> 404
                      [] name \in {".", ".."} -> 400
                      [] OTHER -> CASE ~IsWithinFSRoot(tree, Append(dir, name), dir) -> 403
                                    [] Removable(tree, p) -> 204
                                    [] OTHER -> IF known THEN 403 ELSE 404
        /\ tree' = IF status = 204 THEN Without(tree, p) ELSE tree
    BY Zenon DEF Delete
  <1> HIDE DEF dir
  <1>4. dir \in Tree.dirs /\ WellFormed(tree) /\ DOMAIN tree.links \subseteq DOMAIN Tree.links
    BY <1>1 DEF Sane, TreeInv
  <1>5. Canonical(tree, dir) = dir /\ dir \in Seq(Name)
    BY <1>4, RootIsItself
  <1>6. p = Append(dir, name)
    BY <1>5 DEF Placed
  <1> HIDE DEF p, name
  <1>7. CASE status = 204
    <2>1. name \notin {"", ".", ".."} /\ Removable(tree, p)
      <3> DEFINE inner == CASE ~IsWithinFSRoot(tree, Append(dir, name), dir) -> 403
                            [] Removable(tree, p) -> 204
                            [] OTHER -> IF known THEN 403 ELSE 404
      <3>1. status = CASE name = "" -> 404 [] name \in {".", ".."} -> 400 [] OTHER -> inner
        BY <1>3
      <3> HIDE DEF inner, known
      <3>2. name # ""
        <4>1. name = "" => status = 404
          BY <3>1
        <4>2. status # 404
          BY <1>7
        <4> QED BY Zenon, <4>1, <4>2
      <3>3. name \notin {".", ".."}
        <4>1. name \in {".", ".."} => status = 400
          BY <3>1
        <4> QED BY <1>7, <4>1
      <3>4. status = inner
        BY <3>1, <3>2, <3>3
      <3>5. Removable(tree, p)
        <4>1. inner = 204 => Removable(tree, p)
          BY DEF inner
        <4> QED BY <1>7, <3>4, <4>1
      <3> QED BY <3>2, <3>3, <3>5
    <2>2. name \in Name
      BY <1>2, <2>1 DEF Segment
    <2>3. Front(p) = dir
      BY <1>5, <1>6, <2>2, AppendIs
    <2>4. tree' = Without(tree, p)
      BY <1>3, <1>7
    <2>5. TreeInv(tree', uploads) /\ p \in Entries(tree) /\ Entries(tree') = Entries(tree) \ {p}
      BY <2>1, <2>4, Shrunk
    <2> QED BY <1>1, <1>5, <1>7, <2>3, <2>5
  <1>8. CASE status # 204
    <2>1. tree' = tree
      BY <1>3, <1>8
    <2> QED BY <2>1
  <1> QED BY <1>7, <1>8

\* What a request is answered with, and by whom.
Asks(e, host, method, uri, s, l, route, status) ==
    /\ s = FindServer(e, host) /\ s \in 1 .. Len(Servers) /\ l = FindLocation(s, uri)
    /\ l \in 0 .. Count(s) /\ Sane(LocationAt(s, l)) /\ uri \in Seq(Segment) /\ uri # <<>>
    /\ route = Route(tree, LocationAt(s, l), method, uri)
    /\ Dispatch(LocationAt(s, l), method, uri, route, status)
    /\ last'.server = s /\ last'.host = host /\ last'.endpoint = e /\ last'.location = l
    /\ last'.method = method /\ last'.uri = uri /\ last'.route = route /\ last'.status = status

LEMMA Requested ==
    ASSUME NEW e \in Endpoints, NEW host, NEW method, NEW uri \in Uris,
           Request(e, host, method, uri)
    PROVE  \E s, l, route, status : Asks(e, host, method, uri, s, l, route, status)
  <1> DEFINE s == FindServer(e, host)
             l == FindLocation(s, uri)
             loc == LocationAt(s, l)
             route == Route(tree, loc, method, uri)
  <1>1. s \in 1 .. Len(Servers)
    BY FoundServer
  <1>2. l \in 0 .. Count(s)
    <2> HIDE DEF s
    <2> QED BY <1>1, FoundType
  <1>3. Sane(loc)
    <2> HIDE DEF s, l
    <2> QED BY <1>1, <1>2, LocationIs
  <1>4. uri \in Seq(Segment) /\ uri # <<>>
    BY RoutingAssumption
  <1>5. PICK status \in Statuses : /\ Dispatch(loc, method, uri, route, status)
                                   /\ Answer(s, e, host, l, method, uri, route, status)
    BY Zenon DEF Request
  <1>6. s = FindServer(e, host) /\ l = FindLocation(s, uri) /\ route = Route(tree, loc, method, uri)
    OBVIOUS
  <1> HIDE DEF s, l, route
  <1>7. /\ last'.server = s /\ last'.host = host /\ last'.endpoint = e /\ last'.location = l
        /\ last'.method = method /\ last'.uri = uri /\ last'.route = route /\ last'.status = status
    BY <1>5 DEF Answer
  <1>8. Asks(e, host, method, uri, s, l, route, status)
    BY <1>1, <1>2, <1>3, <1>4, <1>5, <1>6, <1>7 DEF Asks
  <1> QED BY <1>8

\* What a request does to the tree.
LEMMA Handled ==
    ASSUME IInv, NEW e, NEW host, NEW method, NEW uri, NEW s, NEW l, NEW route, NEW status,
           Asks(e, host, method, uri, s, l, route, status)
    PROVE  /\ TreeInv(tree', uploads') /\ route.type \in RouteTypes
           /\ route.type # "UPLOAD" => tree' = tree
           /\ tree' # tree =>
                /\ method \in LocationAt(s, l).allow_methods /\ LocationAt(s, l).returns = {}
                /\ \E dir \in LocationAt(s, l).upload_path : \E q :
                     /\ Front(q) = Canonical(tree, dir)
                     /\ \/ /\ status = 201 /\ method = "POST" /\ q \notin Entries(tree)
                           /\ Entries(tree') = Entries(tree) \cup {q}
                        \/ /\ status = 204 /\ method = "DELETE" /\ q \in Entries(tree)
                           /\ Entries(tree') = Entries(tree) \ {q}
  <1> DEFINE loc == LocationAt(s, l)
  <1>1. /\ Sane(loc) /\ uri \in Seq(Segment) /\ uri # <<>> /\ route = Route(tree, loc, method, uri)
        /\ Dispatch(loc, method, uri, route, status)
    BY DEF Asks
  <1>2. TreeInv(tree, uploads) /\ WellFormed(tree)
    BY DEF IInv, TreeInv
  <1> HIDE DEF loc
  <1>3. /\ route.type \in RouteTypes
        /\ route.type = "UPLOAD" => /\ loc.returns = {} /\ method \in loc.allow_methods
                                    /\ loc.upload_path # {}
    BY <1>1, <1>2, Routed
  <1>4. CASE route.type = "UPLOAD" /\ method = "POST"
    <2>1. Upload(loc) /\ status = IF tree' = tree THEN 500 ELSE 201
      BY <1>1, <1>4 DEF Dispatch
    <2>2. /\ TreeInv(tree', uploads')
          /\ tree' # tree => \E dir \in loc.upload_path : \E q :
                 /\ Front(q) = dir /\ Canonical(tree, dir) = dir
                 /\ q \notin Entries(tree) /\ Entries(tree') = Entries(tree) \cup {q}
      BY <1>1, <1>2, <2>1, Uploads
    <2>3. tree' # tree => status = 201
      BY <2>1
    <2> QED BY <1>3, <1>4, <2>2, <2>3 DEF loc
  <1>5. CASE route.type = "UPLOAD" /\ method = "DELETE"
    <2>1. Delete(loc, uri, status) /\ UNCHANGED uploads
      BY <1>1, <1>5 DEF Dispatch
    <2>2. /\ TreeInv(tree', uploads)
          /\ tree' # tree => status = 204 /\ \E dir \in loc.upload_path : \E q :
                 /\ Front(q) = dir /\ Canonical(tree, dir) = dir
                 /\ q \in Entries(tree) /\ Entries(tree') = Entries(tree) \ {q}
      BY <1>1, <1>2, <1>3, <1>5, <2>1, Deletes
    <2> QED BY <1>3, <1>5, <2>1, <2>2 DEF loc
  <1>6. CASE route.type # "UPLOAD"
    <2>1. UNCHANGED <<tree, uploads>>
      BY <1>1, <1>6 DEF Dispatch
    <2> QED BY <1>2, <1>3, <1>6, <2>1
  <1>7. \/ route.type = "UPLOAD" /\ method = "POST"
        \/ route.type = "UPLOAD" /\ method = "DELETE"
        \/ route.type # "UPLOAD"
    BY <1>1 DEF Dispatch
  <1> QED BY <1>4, <1>5, <1>6, <1>7

LEMMA Initially == Init => IInv
  BY TreeInvInit DEF Init, IInv, Explained, Asked

LEMMA StepKeeps == IInv /\ [Next]_vars => IInv'
  <1> SUFFICES ASSUME IInv, [Next]_vars PROVE IInv'
    OBVIOUS
  <1>1. CASE UNCHANGED vars
    BY <1>1 DEF vars, IInv, TreeInv, Explained, Asked, Loc
  <1>2. CASE Sent
    <2>1. tree' = tree /\ uploads' = uploads /\ last' = Nothing
      BY <1>2 DEF Sent
    <2>2. ~Asked'
      BY <2>1 DEF Asked, Nothing
    <2> QED BY <2>1, <2>2 DEF IInv, Explained
  <1>3. ASSUME NEW e \in Endpoints, NEW host \in Hosts \cup {NoHost}, NEW method \in Methods,
               NEW uri \in Uris, Request(e, host, method, uri)
        PROVE  IInv'
    <2>1. PICK s, l, route, status : Asks(e, host, method, uri, s, l, route, status)
      BY <1>3, Requested
    <2>2. /\ TreeInv(tree', uploads') /\ route.type \in RouteTypes
          /\ route.type # "UPLOAD" => tree' = tree
      BY <2>1, Handled
    <2>3. /\ last'.server = s /\ last'.host = host /\ last'.endpoint = e /\ last'.location = l
          /\ last'.method = method /\ last'.uri = uri /\ last'.route = route
          /\ s = FindServer(e, host) /\ l = FindLocation(s, uri)
          /\ route = Route(tree, LocationAt(s, l), method, uri)
      BY <2>1 DEF Asks
    <2>4. Loc' = LocationAt(s, l)
      BY <2>3 DEF Loc
    <2>5. route.type # "UPLOAD" => last'.route = Route(tree', Loc', last'.method, last'.uri)
      BY <2>2, <2>3, <2>4
    <2>6. Explained'
      BY <2>2, <2>3, <2>5 DEF Explained
    <2> QED BY <2>2, <2>6 DEF IInv
  <1> QED BY <1>1, <1>2, <1>3 DEF Next

\* The last answer is what its request gets of the tree, and the tree is a tree.
THEOREM InvariantHolds == Spec => []IInv
  BY Initially, StepKeeps, PTL DEF Spec

\* What is known of the last request.
LEMMA Known ==
    ASSUME IInv, Asked
    PROVE  /\ last.server \in 1 .. Len(Servers) /\ last.location \in 0 .. Count(last.server)
           /\ Sane(Loc) /\ last.uri \in Seq(Segment) /\ last.uri # <<>>
  <1>1. /\ last.endpoint \in Endpoints /\ last.uri \in Uris
        /\ last.server = FindServer(last.endpoint, last.host)
        /\ last.location = FindLocation(last.server, last.uri)
    BY DEF IInv, Explained
  <1>2. last.server \in 1 .. Len(Servers)
    BY <1>1, FoundServer
  <1>3. last.location \in 0 .. Count(last.server)
    BY <1>1, <1>2, FoundType
  <1>4. Sane(Loc)
    BY <1>2, <1>3, LocationIs DEF Loc
  <1>5. last.uri \in Seq(Segment) /\ last.uri # <<>>
    BY <1>1, RoutingAssumption
  <1> QED BY <1>2, <1>3, <1>4, <1>5

-----------------------------------------------------------------------------
(* The right server and the right location.                                *)

LEMMA TypeCorrect == IInv => TypeOK
  <1> SUFFICES ASSUME IInv PROVE TypeOK
    OBVIOUS
  <1>1. WellFormed(tree) /\ uploads \subseteq Generated
    BY DEF IInv, TreeInv
  <1>2. CASE Asked
    <2>1. /\ last.server \in 1 .. Len(Servers) /\ last.location \in 0 .. Count(last.server)
          /\ last.route.type \in RouteTypes
      BY <1>2, Known DEF IInv, Explained
    <2>2. last.server \in 0 .. Len(Servers)
      BY <2>1, Configured
    <2> QED BY <1>1, <2>1, <2>2 DEF TypeOK, Count, RouteTypes
  <1>3. CASE ~Asked
    <2>1. last.server = 0 /\ last.route.type = "ERR"
      <3>1. Nothing.server = 0 /\ Nothing.route = Error(0)
        BY Zenon DEF Nothing
      <3>2. Error(0).type = "ERR"
        BY DEF Error, A
      <3> QED BY <1>3, <3>1, <3>2 DEF Asked
    <2>2. 0 \in 0 .. Len(Servers)
      BY Configured
    <2> QED BY <1>1, <1>3, <2>1, <2>2 DEF TypeOK
  <1> QED BY <1>2, <1>3

LEMMA HostIsRight == IInv => RightHost
  <1> SUFFICES ASSUME IInv, Asked
               PROVE  /\ last.endpoint \in Servers[last.server].listen
                      /\ \A s \in 1 .. Len(Servers) : last.endpoint \in Servers[s].listen =>
                            IF Takes(s, last.host)
                              THEN Takes(last.server, last.host) /\ last.server <= s
                              ELSE Takes(last.server, last.host) \/ last.server <= s
    BY Zenon DEF RightHost, Takes
  <1>1. last.endpoint \in Endpoints /\ last.server = FindServer(last.endpoint, last.host)
    BY DEF IInv, Explained
  <1> QED BY <1>1, FoundServer

\* What a uri begins with.
LEMMA Beginning ==
    ASSUME NEW uri \in Seq(Segment), NEW n \in 0 .. Len(uri)
    PROVE  IsPrefix(SubSeq(uri, 1, n), uri)
  <1>1. SubSeq(uri, 1, n) \in Seq(Segment) /\ Len(SubSeq(uri, 1, n)) = n
    BY Pieces
  <1>2. SubSeq(SubSeq(uri, 1, n), 1, n) = SubSeq(uri, 1, n)
    BY <1>1, SubSeqFull
  <1> QED BY <1>1, <1>2 DEF IsPrefix

\* A path a uri is, or goes on from, is one it begins with.
LEMMA BeginsSame ==
    ASSUME NEW uri \in Seq(Segment), NEW n \in 0 .. Len(uri),
           NEW path \in Seq(Segment), path # <<>>, path = SubSeq(uri, 1, n)
    PROVE  Begins(uri, path)
  <1>1. Len(uri) \in Nat /\ n \in Nat
    OBVIOUS
  <1>2. Len(path) = n
    BY Pieces
  <1>3. n # 0 /\ n \in 1 .. Len(uri) /\ n - 1 \in 0 .. Len(uri)
    BY <1>1, <1>2, EmptySeq
  <1>4. Front(path) = SubSeq(uri, 1, n - 1)
    <2> DEFINE b == SubSeq(uri, 1, n - 1)
               x == uri[n]
    <2>1. path = Append(b, x) /\ b \in Seq(Segment) /\ x \in Segment
      BY <1>3, OneLonger
    <2> HIDE DEF b, x
    <2>2. Front(Append(b, x)) = b
      BY <2>1, AppendIs
    <2> QED BY <2>1, <2>2 DEF b
  <1>5. IsPrefix(path, uri) /\ IsPrefix(Front(path), uri)
    BY <1>3, <1>4, Beginning
  <1>6. Len(uri) >= Len(path)
    BY <1>1, <1>2
  <1>7. Stem(path) = Front(path) \/ Stem(path) = path
    BY DEF Stem
  <1> QED BY <1>5, <1>6, <1>7 DEF Begins

NoText == ""

LEMMA BeginsSlash ==
    ASSUME NEW uri \in Seq(Segment), NEW n \in 0 .. Len(uri), n < Len(uri),
           NEW path, path = Append(SubSeq(uri, 1, n), NoText)
    PROVE  Begins(uri, path)
  <1> DEFINE b == SubSeq(uri, 1, n)
  <1>1. b \in Seq(Segment) /\ Len(b) = n /\ NoText \in Segment
    BY Pieces DEF Segment, NoText
  <1> HIDE DEF b
  <1>2. Front(path) = b /\ Last(path) = NoText /\ Len(path) = n + 1
    <2>1. path = Append(b, NoText)
      BY DEF b
    <2> QED BY ZenonT(40), <1>1, <2>1, AppendIs
  <1>3. Stem(path) = b
    BY Zenon, <1>2 DEF Stem, NoText
  <1>4. IsPrefix(b, uri)
    BY Beginning DEF b
  <1>5. Len(uri) >= Len(path)
    BY <1>2
  <1> QED BY <1>3, <1>4, <1>5 DEF Begins

\* Its length tells how long a path's stem is, and whether a slash follows.
LEMMA Measures ==
    ASSUME NEW p \in Seq(Segment), p # <<>>
    PROVE  /\ Len(Stem(p)) \in Nat
           /\ \/ Length(p) = 2 * Len(Stem(p)) /\ Len(p) = Len(Stem(p))
              \/ Length(p) = 2 * Len(Stem(p)) + 1 /\ Len(p) = Len(Stem(p)) + 1
  <1>1. /\ Stem(p) \in Seq(Segment) /\ Len(p) \in Nat
        /\ \/ Stem(p) = p /\ Length(p) = 2 * Len(Stem(p))
           \/ Len(Stem(p)) = Len(p) - 1 /\ Length(p) = 2 * Len(Stem(p)) + 1
    <2>1. Len(p) \in Nat
      OBVIOUS
    <2> QED BY Zenon, <2>1, Stems
  <1> QED BY <1>1

LEMMA LocationIsLongest == IInv => LongestLocation
  <1> SUFFICES ASSUME IInv, Asked,
                      NEW i \in 1 .. Count(last.server), NEW n \in 0 .. Len(last.uri),
                      NEW path, path = PathOf(last.server, i),
                      \/ path = SubSeq(last.uri, 1, n)
                      \/ n < Len(last.uri) /\ path = Append(SubSeq(last.uri, 1, n), NoText)
               PROVE  /\ last.location # 0
                      /\ Len(Stem(path)) <= Len(Stem(Loc.path))
                      /\ Stem(path) = Stem(Loc.path) => Len(path) <= Len(Loc.path)
    BY Zenon DEF LongestLocation, Count, PathOf, NoText
  <1> DEFINE s == last.server
             l == last.location
  <1>1. /\ s \in 1 .. Len(Servers) /\ l \in 0 .. Count(s) /\ last.uri \in Seq(Segment)
        /\ l = FindLocation(s, last.uri)
    BY Known DEF IInv, Explained
  <1>2. path \in Seq(Segment) /\ path # <<>>
    BY <1>1, Configured
  <1>3. Begins(last.uri, path)
    BY <1>1, <1>2, BeginsSame, BeginsSlash
  <1>4. l # 0 /\ Length(path) <= Length(PathOf(s, l))
    BY <1>1, <1>3, FoundLocation
  <1>5. l \in 1 .. Count(s) /\ Loc.path = PathOf(s, l)
    <2>1. l \in 1 .. Count(s)
      BY <1>1, <1>4, Configured
    <2>2. Loc = LocationAt(s, l) /\ LocationAt(s, l) = Servers[s].locations[l]
      BY <1>4 DEF Loc, LocationAt
    <2> QED BY Zenon, <2>1, <2>2 DEF PathOf
  <1> DEFINE best == PathOf(s, l)
  <1>6. best \in Seq(Segment) /\ best # <<>>
    BY <1>1, <1>5, Configured
  <1> HIDE DEF best, s, l
  <1>7. /\ Len(Stem(path)) \in Nat
        /\ \/ Length(path) = 2 * Len(Stem(path)) /\ Len(path) = Len(Stem(path))
           \/ Length(path) = 2 * Len(Stem(path)) + 1 /\ Len(path) = Len(Stem(path)) + 1
    BY Measures, <1>2
  <1>8. /\ Len(Stem(best)) \in Nat
        /\ \/ Length(best) = 2 * Len(Stem(best)) /\ Len(best) = Len(Stem(best))
           \/ Length(best) = 2 * Len(Stem(best)) + 1 /\ Len(best) = Len(Stem(best)) + 1
    BY Measures, <1>6
  <1>9. Length(path) <= Length(best) /\ Loc.path = best
    BY <1>4, <1>5 DEF best
  <1>10. Len(Stem(path)) <= Len(Stem(best))
    BY <1>7, <1>8, <1>9
  <1>11. Len(Stem(path)) = Len(Stem(best)) => Len(path) <= Len(best)
    BY <1>7, <1>8, <1>9
  <1> QED BY <1>4, <1>9, <1>10, <1>11 DEF l

\* Whoever shares the address, and in whatever order servers and locations
\* stand, a request is answered by the server and the location it belongs to
\* (findServer, findLocation).
THEOREM FindsRightLocation == Spec => []RightLocation
  <1>1. IInv => RightLocation
    BY TypeCorrect, HostIsRight, LocationIsLongest DEF RightLocation
  <1> QED BY InvariantHolds, <1>1, PTL

-----------------------------------------------------------------------------
(* What is served, and what the tree loses and gains.                      *)

\* What a file is served from is in the location's root.
LEMMA ServedFromRoot ==
    ASSUME NEW t, WellFormed(t), NEW loc, Sane(loc), NEW uri \in Seq(Segment),
           NEW r, Served(t, loc, uri, r)
    PROVE  \/ IsWithinFSRoot(t, r.file, loc.root)
           \/ \E i \in 1 .. Len(loc.index) :
                 /\ Last(r.file) = loc.index[i]
                 /\ IsWithinFSRoot(t, Front(r.file), loc.root)
  <1>1. CASE AsFile(t, loc, uri, r)
    BY <1>1, Mapped DEF AsFile
  <1>2. CASE AsIndex(t, loc, uri, r)
    <2>1. PICK f \in MapURI(t, loc, uri), i \in 1 .. Len(loc.index) :
             r.file = Append(f, loc.index[i])
      BY <1>2 DEF AsIndex
    <2>2. f \in Seq(Segment) /\ IsWithinFSRoot(t, f, loc.root)
      BY Mapped
    <2>3. loc.index[i] \in Segment
      <3>1. loc.index[i] \in Name
        BY ElementOfSeq DEF Sane
      <3> QED BY <3>1 DEF Segment
    <2> DEFINE x == loc.index[i]
    <2> HIDE DEF x
    <2>4. Last(Append(f, x)) = x /\ Front(Append(f, x)) = f
      BY <2>2, <2>3, AppendIs DEF x
    <2> QED BY <2>1, <2>2, <2>4 DEF x
  <1>3. CASE AsList(t, loc, uri, r)
    BY <1>3, Mapped DEF AsList
  <1>4. CASE AsRest(t, loc, NormalizePath(uri), r)
    <2> DEFINE u == NormalizePath(uri)
    <2>1. u \in Seq(Segment) /\ Len(u) \in Nat
      BY NormalType
    <2> HIDE DEF u
    <2>2. PICK k \in Named(t, loc, u) :
             \E f \in MapURI(t, loc, SubSeq(u, 1, k)) : r.file = f
      BY <1>4 DEF AsRest, u
    <2>3. k \in 0 .. Len(u)
      BY <2>1 DEF Named
    <2>4. SubSeq(u, 1, k) \in Seq(Segment)
      BY <2>1, <2>3, Pieces
    <2> QED BY <2>2, <2>4, Mapped
  <1> QED BY <1>1, <1>2, <1>3, <1>4 DEF Served

LEMMA RootOnly == IInv => ServesOnlyFromRoot
  <1> SUFFICES ASSUME IInv, last.route.type \in {"FILES", "CGI", "DIRECTORY_LISTING"}
               PROVE  \/ IsPrefix(Canonical(Tree, Loc.root), Canonical(tree, last.route.file))
                      \/ /\ \E i \in 1 .. Len(Loc.index) : Last(last.route.file) = Loc.index[i]
                         /\ IsPrefix(Canonical(Tree, Loc.root),
                                     Canonical(tree, Front(last.route.file)))
    BY Zenon DEF ServesOnlyFromRoot, Answered
  <1>1. Asked
    <2>1. Nothing.route = Error(0)
      BY Zenon DEF Nothing
    <2>2. Error(0).type = "ERR"
      BY DEF Error, A
    <2> QED BY <2>1, <2>2 DEF Asked
  <1>2. Sane(Loc) /\ last.uri \in Seq(Segment)
    BY <1>1, Known
  <1>3. last.route = Route(tree, Loc, last.method, last.uri)
    BY <1>1 DEF IInv, Explained
  <1>4. WellFormed(tree) /\ DOMAIN tree.links \subseteq DOMAIN Tree.links
    BY DEF IInv, TreeInv
  <1>5. Served(tree, Loc, last.uri, last.route)
    BY <1>2, <1>3, <1>4, Routed
  <1>6. Canonical(tree, Loc.root) = Canonical(Tree, Loc.root)
    BY <1>2, <1>4, RootIsItself DEF Sane
  <1>7. \/ IsWithinFSRoot(tree, last.route.file, Loc.root)
        \/ \E i \in 1 .. Len(Loc.index) :
              /\ Last(last.route.file) = Loc.index[i]
              /\ IsWithinFSRoot(tree, Front(last.route.file), Loc.root)
    BY <1>2, <1>4, <1>5, ServedFromRoot
  <1> QED BY <1>6, <1>7 DEF IsWithinFSRoot

\* Whatever the uri, the links and what was removed before, only what is in the
\* location's root is served, or the index of a directory that is (mapURI,
\* mapIndexPath).
THEOREM StaysInRoot == Spec => []ServesOnlyFromRoot
  BY InvariantHolds, RootOnly, PTL

LEMMA StepChanges == IInv /\ [Next]_vars =>
    [LET had == tree.files \cup tree.dirs \cup DOMAIN tree.links
         has == tree'.files \cup tree'.dirs \cup DOMAIN tree'.links
     IN  tree' # tree =>
           /\ last'.method \in Loc'.allow_methods /\ Loc'.returns = {}
           /\ \E p \in (had \ has) \cup (has \ had), dir \in Loc'.upload_path :
                /\ Front(p) = Canonical(tree, dir)
                /\ IF last'.status = 201 THEN has = had \cup {p} ELSE had = has \cup {p}
                /\ last'.status = 201 => last'.method = "POST"
                /\ last'.status # 201 => last'.status = 204 /\ last'.method = "DELETE"]_vars
  <1> DEFINE had == Entries(tree)
             has == Entries(tree')
  <1> SUFFICES ASSUME IInv, [Next]_vars, tree' # tree
               PROVE  /\ last'.method \in Loc'.allow_methods /\ Loc'.returns = {}
                      /\ \E p \in (had \ has) \cup (has \ had), dir \in Loc'.upload_path :
                           /\ Front(p) = Canonical(tree, dir)
                           /\ IF last'.status = 201 THEN has = had \cup {p}
                              ELSE had = has \cup {p}
                           /\ last'.status = 201 => last'.method = "POST"
                           /\ last'.status # 201 => last'.status = 204 /\ last'.method = "DELETE"
    BY Zenon DEF Entries
  <1>1. PICK e \in Endpoints, host \in Hosts \cup {NoHost}, method \in Methods, uri \in Uris :
           Request(e, host, method, uri)
    BY DEF Next, Sent, vars
  <1>2. PICK s, l, route, status : Asks(e, host, method, uri, s, l, route, status)
    BY <1>1, Requested
  <1> DEFINE loc == LocationAt(s, l)
  <1>3. Loc' = loc /\ last'.method = method /\ last'.status = status
    BY <1>2 DEF Asks, Loc
  <1>4. /\ method \in loc.allow_methods /\ loc.returns = {}
        /\ \E dir \in loc.upload_path : \E q :
             /\ Front(q) = Canonical(tree, dir)
             /\ \/ /\ status = 201 /\ method = "POST" /\ q \notin had /\ has = had \cup {q}
                \/ /\ status = 204 /\ method = "DELETE" /\ q \in had /\ has = had \ {q}
    BY <1>2, Handled
  <1> HIDE DEF had, has, loc
  <1>5. PICK dir \in loc.upload_path : \E q :
             /\ Front(q) = Canonical(tree, dir)
             /\ \/ /\ status = 201 /\ method = "POST" /\ q \notin had /\ has = had \cup {q}
                \/ /\ status = 204 /\ method = "DELETE" /\ q \in had /\ has = had \ {q}
    BY <1>4
  <1>6. PICK q :
             /\ Front(q) = Canonical(tree, dir)
             /\ \/ /\ status = 201 /\ method = "POST" /\ q \notin had /\ has = had \cup {q}
                \/ /\ status = 204 /\ method = "DELETE" /\ q \in had /\ has = had \ {q}
    BY <1>5
  <1>7. q \in (had \ has) \cup (has \ had)
    BY <1>6
  <1>8. /\ IF status = 201 THEN has = had \cup {q} ELSE had = has \cup {q}
        /\ status = 201 => method = "POST"
        /\ status # 201 => status = 204 /\ method = "DELETE"
    BY <1>6
  <1> QED BY <1>3, <1>4, <1>6, <1>7, <1>8

\* The tree changes only by one entry of an upload directory of the location
\* asked, as the method and the answer say (startUpload, deleteFile).
THEOREM OnlyUploadsChange == Spec => ChangesOnlyUploads
  BY InvariantHolds, StepChanges, PTL DEF Spec, ChangesOnlyUploads

-----------------------------------------------------------------------------
(* What is left of a path.                                                 *)

\* The three kinds of segments, and what each does.
Blank(s) == s \in {"", "."}
Up(s) == s = ".."

LEMMA Kinds ==
    ASSUME NEW s \in Segment
    PROVE  /\ Blank(s) => \A p : NormStep(p, s) = p
           /\ Up(s) => ~Blank(s) /\ \A p : /\ p = <<>> => NormStep(p, s) = p
                                           /\ p # <<>> => NormStep(p, s) = Front(p)
           /\ ~Blank(s) /\ ~Up(s) => s \in Name /\ \A p : NormStep(p, s) = Append(p, s)
           /\ s \in Name => ~Blank(s) /\ ~Up(s)
  <1>1. Blank(s) => \A p : NormStep(p, s) = p
    BY Zenon DEF Blank, NormStep
  <1>2. Up(s) => ~Blank(s)
    BY Zenon DEF Blank, Up
  <1>3. Up(s) => \A p : NormStep(p, s) = IF p = <<>> THEN p ELSE Front(p)
    BY Zenon, <1>2 DEF Blank, Up, NormStep
  <1>4. ~Blank(s) /\ ~Up(s) => \A p : NormStep(p, s) = Append(p, s)
    BY Zenon DEF Blank, Up, NormStep
  <1>5. ~Blank(s) /\ ~Up(s) => s \in Name
    BY Zenon DEF Blank, Up, Segment
  <1>6. s \in Name => ~Blank(s) /\ ~Up(s)
    BY Zenon DEF Blank, Up, Name
  <1> QED BY Zenon, <1>1, <1>2, <1>3, <1>4, <1>5, <1>6

LEMMA NameStep ==
    ASSUME NEW s \in Name, NEW p
    PROVE  NormStep(p, s) = Append(p, s)
  <1>1. s \in Segment
    BY DEF Segment
  <1> QED BY Zenon, <1>1, Kinds

LEMMA NamesAreSegments ==
    ASSUME NEW r \in Seq(Name)
    PROVE  r \in Seq(Segment)
  <1>1. Name \subseteq Segment
    BY DEF Segment
  <1> QED BY <1>1, SeqMonotonic

\* The rest of a run, from what there is after some of it.
RunFrom(p, c, h) ==
    /\ h \in [0 .. Len(c) -> Seq(Segment)] /\ h[0] = p
    /\ \A k \in 1 .. Len(c) : h[k] = NormStep(h[k - 1], c[k])

\* Names stay as they are.
LEMMA RunOfNames ==
    ASSUME NEW r \in Seq(Name), NEW c \in Seq(Segment), NEW h, NormRun(r \o c, h)
    PROVE  h[Len(r)] = r
  <1> DEFINE u == r \o c
             n == Len(r)
             S == {k \in 0 .. n : h[k] = SubSeq(r, 1, k)}
  <1>1. r \in Seq(Segment) /\ n \in Nat /\ Len(c) \in Nat
    BY NamesAreSegments
  <1>2. Len(u) = n + Len(c) /\ \A k \in 1 .. n : u[k] = r[k]
    <2>1. Len(r \o c) = Len(r) + Len(c) /\ \A i \in 1 .. Len(r) + Len(c) :
             (r \o c)[i] = IF i <= Len(r) THEN r[i] ELSE c[i - Len(r)]
      BY <1>1, ConcatProperties
    <2> QED BY <1>1, <2>1
  <1>3. h[0] = <<>> /\ \A k \in 1 .. Len(u) : h[k] = NormStep(h[k - 1], u[k])
    BY DEF NormRun
  <1> HIDE DEF u, n
  <1>4. \A k \in 1 .. n : h[k] = NormStep(h[k - 1], r[k]) /\ r[k] \in Name /\ r[k] \in Segment
    <2>1. \A k \in 1 .. n : k \in 1 .. Len(u)
      BY <1>1, <1>2
    <2>2. \A k \in 1 .. n : r[k] \in Name
      BY ElementOfSeq DEF n
    <2> QED BY <1>2, <1>3, <2>1, <2>2 DEF Segment
  <1>5. ASSUME NEW k \in 1 .. n, h[k - 1] = SubSeq(r, 1, k - 1) PROVE h[k] = SubSeq(r, 1, k)
    <2>1. h[k] = Append(h[k - 1], r[k])
      BY Zenon, <1>4, NameStep
    <2> QED BY <1>5, <2>1, OneLonger DEF n
  <1>6. 0 \in S
    <2>1. 0 \in 0 .. n /\ SubSeq(r, 1, 0) = <<>>
      BY <1>1, SubSeqEmpty
    <2>2. h[0] = SubSeq(r, 1, 0)
      BY Zenon, <1>3, <2>1
    <2> QED BY <2>1, <2>2
  <1>7. ASSUME NEW k \in 1 .. n, k - 1 \in S PROVE k \in S
    <2>1. h[k - 1] = SubSeq(r, 1, k - 1) /\ k \in 0 .. n
      BY <1>1, <1>7
    <2> QED BY <1>5, <2>1
  <1>8. n \in S
    <2> HIDE DEF S
    <2>1. \A k \in 0 .. n : k \in S
      BY <1>1, <1>6, <1>7, UpTo
    <2> QED BY <1>1, <2>1
  <1>9. SubSeq(r, 1, n) = r
    BY SubSeqFull DEF n
  <1> QED BY <1>8, <1>9 DEF n

LEMMA NormalOfNames ==
    ASSUME NEW r \in Seq(Name)
    PROVE  NormalizePath(r) = r
  <1>1. r \in Seq(Segment) /\ <<>> \in Seq(Segment) /\ r \o <<>> = r
    BY NamesAreSegments, ConcatEmptySeq, EmptySeq
  <1>2. PICK h : NormRun(r \o <<>>, h)
    BY <1>1, NormRuns
  <1>3. h[Len(r)] = r
    BY <1>1, <1>2, RunOfNames
  <1>4. NormalizePath(r \o <<>>) = h[Len(r \o <<>>)]
    BY <1>2 DEF NormRun
  <1> QED BY <1>1, <1>3, <1>4

\* A run of a sequence is a run of what follows its beginning.
LEMMA RunSplits ==
    ASSUME NEW x \in Seq(Segment), NEW c \in Seq(Segment), NEW h, NormRun(x \o c, h)
    PROVE  \E g : /\ RunFrom(h[Len(x)], c, g) /\ h[Len(x)] \in Seq(Segment)
                  /\ NormalizePath(x \o c) = g[Len(c)]
  <1> DEFINE u == x \o c
             n == Len(x)
             m == Len(c)
             g == [k \in 0 .. m |-> h[n + k]]
  <1>1. n \in Nat /\ m \in Nat
    OBVIOUS
  <1>2. Len(u) = n + m /\ \A k \in 1 .. m : u[n + k] = c[k]
    <2>1. Len(x \o c) = Len(x) + Len(c) /\ \A i \in 1 .. Len(x) + Len(c) :
             (x \o c)[i] = IF i <= Len(x) THEN x[i] ELSE c[i - Len(x)]
      BY ConcatProperties
    <2>2. ASSUME NEW k \in 1 .. m PROVE u[n + k] = c[k]
      <3>1. n + k \in 1 .. n + m /\ ~(n + k <= n) /\ (n + k) - n = k
        BY <1>1
      <3> QED BY <2>1, <3>1
    <2> QED BY <2>1, <2>2
  <1>3. /\ h \in [0 .. Len(u) -> Seq(Segment)] /\ NormalizePath(u) = h[Len(u)]
        /\ \A k \in 1 .. Len(u) : h[k] = NormStep(h[k - 1], u[k])
    BY DEF NormRun
  <1> HIDE DEF u, n, m
  <1>4. g \in [0 .. m -> Seq(Segment)]
    <2>1. \A k \in 0 .. m : n + k \in 0 .. Len(u)
      BY <1>1, <1>2
    <2> QED BY <1>3, <2>1
  <1>5. ASSUME NEW k \in 1 .. m PROVE g[k] = NormStep(g[k - 1], c[k])
    <2>1. /\ n + k \in 1 .. Len(u) /\ (n + k) - 1 = n + (k - 1)
          /\ k \in 0 .. m /\ k - 1 \in 0 .. m
      BY <1>1, <1>2
    <2>2. h[n + k] = NormStep(h[n + (k - 1)], u[n + k])
      BY <1>3, <2>1
    <2>3. g[k] = h[n + k] /\ g[k - 1] = h[n + (k - 1)]
      BY <2>1
    <2> QED BY <1>2, <2>2, <2>3
  <1>6. g[0] = h[n] /\ g[m] = h[n + m] /\ n \in 0 .. Len(u)
    BY <1>1, <1>2
  <1> HIDE DEF g
  <1>7. h[n] \in Seq(Segment)
    BY <1>3, <1>6
  <1>8. RunFrom(h[n], c, g)
    BY <1>4, <1>5, <1>6 DEF RunFrom, m
  <1>9. NormalizePath(u) = g[m]
    BY <1>2, <1>3, <1>6
  <1> QED BY <1>7, <1>8, <1>9 DEF u, n, m

\* What is left are names.
LEMMA NormalIsNames ==
    ASSUME NEW u \in Seq(Segment)
    PROVE  NormalizePath(u) \in Seq(Name)
  <1>1. PICK h : NormRun(u, h)
    BY NormRuns
  <1> DEFINE S == {k \in 0 .. Len(u) : h[k] \in Seq(Name)}
  <1>2. Len(u) \in Nat /\ \A k \in 1 .. Len(u) : u[k] \in Segment
    BY ElementOfSeq
  <1>3. h[0] = <<>> /\ NormalizePath(u) = h[Len(u)]
        /\ \A k \in 1 .. Len(u) : h[k] = NormStep(h[k - 1], u[k])
    BY <1>1 DEF NormRun
  <1>4. ASSUME NEW p \in Seq(Name), NEW s \in Segment PROVE NormStep(p, s) \in Seq(Name)
    <2>1. CASE Blank(s)
      <3>1. NormStep(p, s) = p
        BY Zenon, <2>1, Kinds
      <3> QED BY <3>1
    <2>2. CASE Up(s)
      <3>1. (p = <<>> => NormStep(p, s) = p) /\ (p # <<>> => NormStep(p, s) = Front(p))
        BY Zenon, <2>2, Kinds
      <3> QED BY <3>1, FrontIs
    <2>3. CASE ~Blank(s) /\ ~Up(s)
      <3>1. NormStep(p, s) = Append(p, s) /\ s \in Name
        BY Zenon, <2>3, Kinds
      <3> QED BY <3>1, AppendIs
    <2> QED BY <2>1, <2>2, <2>3
  <1>5. 0 \in S
    <2>1. 0 \in 0 .. Len(u) /\ <<>> \in Seq(Name)
      BY <1>2, EmptySeq
    <2> QED BY <1>3, <2>1
  <1>6. ASSUME NEW k \in 1 .. Len(u), k - 1 \in S PROVE k \in S
    <2>1. h[k - 1] \in Seq(Name) /\ k \in 0 .. Len(u) /\ u[k] \in Segment
      BY <1>2, <1>6
    <2> QED BY <1>3, <1>4, <2>1
  <1>7. Len(u) \in S
    <2> HIDE DEF S
    <2>1. \A k \in 0 .. Len(u) : k \in S
      BY <1>2, <1>5, <1>6, UpTo
    <2> QED BY <1>2, <2>1
  <1> QED BY <1>3, <1>7

\* Two paths that went the same way: what each has left of where it began, and
\* what both have added since.
SameWay(p, a, b) ==
    \E w \in Seq(Segment), k \in 0 .. Len(p), q \in Seq(Segment) :
        a = SubSeq(p, 1, k) \o w /\ b = q \o w

\* The last of two sequences joined.
LEMMA JoinedLast ==
    ASSUME NEW S, NEW p \in Seq(S), NEW w \in Seq(S), w # <<>>
    PROVE  /\ p \o w # <<>> /\ Last(p \o w) = Last(w) /\ Front(p \o w) = p \o Front(w)
           /\ Front(w) \in Seq(S)
  <1>1. /\ p \o w \in Seq(S) /\ Len(p \o w) = Len(p) + Len(w)
        /\ \A i \in 1 .. Len(p) + Len(w) :
             (p \o w)[i] = IF i <= Len(p) THEN p[i] ELSE w[i - Len(p)]
    BY ConcatProperties
  <1>2. /\ Front(w) \in Seq(S) /\ Len(Front(w)) = Len(w) - 1 /\ Len(w) \in Nat \ {0}
        /\ \A i \in 1 .. Len(w) - 1 : Front(w)[i] = w[i]
    BY FrontIs
  <1> DEFINE v == Front(w)
             n == Len(p)
             m == Len(w)
             a == p \o w
  <1>3. /\ p \o v \in Seq(S) /\ Len(p \o v) = Len(p) + Len(v)
        /\ \A i \in 1 .. Len(p) + Len(v) :
             (p \o v)[i] = IF i <= Len(p) THEN p[i] ELSE v[i - Len(p)]
    BY <1>2, ConcatProperties
  <1>4. n \in Nat /\ m \in Nat \ {0} /\ Len(v) = m - 1 /\ \A i \in 1 .. m - 1 : v[i] = w[i]
    BY <1>2
  <1>5. a \in Seq(S) /\ Len(a) = n + m
        /\ \A i \in 1 .. n + m : a[i] = IF i <= n THEN p[i] ELSE w[i - n]
    BY <1>1
  <1>6. p \o v \in Seq(S) /\ Len(p \o v) = n + (m - 1)
        /\ \A i \in 1 .. n + (m - 1) : (p \o v)[i] = IF i <= n THEN p[i] ELSE v[i - n]
    BY <1>3, <1>4
  <1> HIDE DEF a, v, n, m
  <1>7. a # <<>>
    BY <1>4, <1>5, EmptySeq
  <1>8. Last(a) = Last(w)
    <2>1. a[n + m] = w[m]
      <3>1. n + m \in 1 .. n + m /\ ~(n + m <= n) /\ (n + m) - n = m
        BY <1>4
      <3> QED BY <1>5, <3>1
    <2> QED BY <1>5, <2>1 DEF Last, m
  <1>9. Front(a) \in Seq(S) /\ Len(Front(a)) = n + (m - 1)
        /\ \A i \in 1 .. n + (m - 1) : Front(a)[i] = a[i]
    <2>1. Front(a) \in Seq(S) /\ Len(Front(a)) = Len(a) - 1
          /\ \A i \in 1 .. Len(a) - 1 : Front(a)[i] = a[i]
      BY <1>5, <1>7, FrontIs
    <2> QED BY <1>4, <1>5, <2>1
  <1>10. \A i \in 1 .. n + (m - 1) : Front(a)[i] = (p \o v)[i]
    <2> SUFFICES ASSUME NEW i \in 1 .. n + (m - 1) PROVE Front(a)[i] = (p \o v)[i]
      OBVIOUS
    <2>1. i \in 1 .. n + m /\ (~(i <= n) => i - n \in 1 .. m - 1)
      BY <1>4
    <2> QED BY <1>4, <1>5, <1>6, <1>9, <2>1
  <1>11. Front(a) = p \o v
    BY <1>6, <1>9, <1>10, SeqEqual
  <1>12. Front(w) \in Seq(S)
    BY <1>2
  <1> QED BY <1>7, <1>8, <1>11, <1>12 DEF a, v

LEMMA AppendJoined ==
    ASSUME NEW r \in Seq(Segment), NEW w \in Seq(Segment), NEW s \in Segment
    PROVE  Append(r \o w, s) = r \o Append(w, s)
  <1> DEFINE o == <<s>>
  <1>1. o \in Seq(Segment)
    BY Singleton
  <1>2. r \o w \in Seq(Segment)
    BY ConcatProperties
  <1>3. Append(r \o w, s) = (r \o w) \o o /\ Append(w, s) = w \o o
    BY <1>2, AppendIsConcat
  <1> HIDE DEF o
  <1>4. (r \o w) \o o = r \o (w \o o)
    BY <1>1, ConcatAssociative
  <1> QED BY Zenon, <1>3, <1>4

\* One segment more keeps them on the same way.
LEMMA SameStep ==
    ASSUME NEW p \in Seq(Segment), NEW a \in Seq(Segment), NEW b \in Seq(Segment),
           SameWay(p, a, b), NEW s \in Segment
    PROVE  SameWay(p, NormStep(a, s), NormStep(b, s))
  <1>1. PICK w \in Seq(Segment), k \in 0 .. Len(p), q \in Seq(Segment) :
           a = SubSeq(p, 1, k) \o w /\ b = q \o w
    BY DEF SameWay
  <1> DEFINE r == SubSeq(p, 1, k)
  <1>2. r \in Seq(Segment) /\ Len(r) = k /\ Len(p) \in Nat
    BY Pieces
  <1>3. CASE Blank(s)
    <2>1. NormStep(a, s) = a /\ NormStep(b, s) = b
      BY Zenon, <1>3, Kinds
    <2> QED BY <2>1
  <1>4. CASE Up(s) /\ w # <<>>
    <2>1. /\ a # <<>> /\ Front(a) = r \o Front(w) /\ b # <<>> /\ Front(b) = q \o Front(w)
          /\ Front(w) \in Seq(Segment)
      <3> HIDE DEF r
      <3>1. r \o w # <<>> /\ Front(r \o w) = r \o Front(w) /\ Front(w) \in Seq(Segment)
        BY <1>2, <1>4, JoinedLast
      <3>2. q \o w # <<>> /\ Front(q \o w) = q \o Front(w)
        BY <1>4, JoinedLast
      <3> QED BY Zenon, <1>1, <3>1, <3>2 DEF r
    <2>2. NormStep(a, s) = Front(a) /\ NormStep(b, s) = Front(b)
      BY Zenon, <1>4, <2>1, Kinds
    <2> QED BY <2>1, <2>2 DEF SameWay
  <1>5. CASE Up(s) /\ w = <<>>
    <2>1. a = r /\ b = q
      <3> HIDE DEF r
      <3>1. r \o <<>> = r /\ q \o <<>> = q
        BY <1>2, ConcatEmptySeq
      <3> QED BY Zenon, <1>1, <1>5, <3>1 DEF r
    <2>2. \E j \in 0 .. Len(p) : NormStep(a, s) = SubSeq(p, 1, j)
      <3>1. CASE a = <<>>
        <4>1. NormStep(a, s) = a
          BY Zenon, <1>5, <3>1, Kinds
        <4> QED BY <2>1, <4>1
      <3>2. CASE a # <<>>
        <4>1. NormStep(a, s) = Front(a)
          BY Zenon, <1>5, <3>2, Kinds
        <4>2. k # 0
          BY <1>2, <2>1, <3>2, EmptySeq
        <4>3. k \in 1 .. Len(p) /\ k - 1 \in 0 .. Len(p)
          BY <1>2, <4>2
        <4> DEFINE y == SubSeq(p, 1, k - 1)
                   z == p[k]
        <4>4. r = Append(y, z) /\ y \in Seq(Segment) /\ z \in Segment
          BY <4>3, OneLonger
        <4> HIDE DEF y, z, r
        <4>5. Front(Append(y, z)) = y
          BY <4>4, AppendIs
        <4>6. Front(a) = y
          BY Zenon, <2>1, <4>4, <4>5
        <4> QED BY <4>1, <4>3, <4>6 DEF y
      <3> QED BY <3>1, <3>2
    <2>3. NormStep(b, s) \in Seq(Segment)
      BY NormStepType
    <2>4. PICK j \in 0 .. Len(p) : NormStep(a, s) = SubSeq(p, 1, j)
      BY <2>2
    <2>5. SubSeq(p, 1, j) \o <<>> = SubSeq(p, 1, j) /\ NormStep(b, s) \o <<>> = NormStep(b, s)
      <3>1. SubSeq(p, 1, j) \in Seq(Segment)
        BY Pieces
      <3> QED BY <2>3, <3>1, ConcatEmptySeq
    <2>6. <<>> \in Seq(Segment)
      BY EmptySeq
    <2>7. NormStep(a, s) = SubSeq(p, 1, j) \o <<>> /\ NormStep(b, s) = NormStep(b, s) \o <<>>
      BY Zenon, <2>4, <2>5
    <2> QED BY Zenon, <2>3, <2>6, <2>7 DEF SameWay
  <1>6. CASE ~Blank(s) /\ ~Up(s)
    <2>1. NormStep(a, s) = Append(a, s) /\ NormStep(b, s) = Append(b, s)
      BY Zenon, <1>6, Kinds
    <2>2. Append(w, s) \in Seq(Segment)
      BY AppendIs
    <2> HIDE DEF r
    <2>3. Append(r \o w, s) = r \o Append(w, s) /\ Append(q \o w, s) = q \o Append(w, s)
      BY ZenonT(40), <1>2, AppendJoined
    <2>4. NormStep(a, s) = r \o Append(w, s) /\ NormStep(b, s) = q \o Append(w, s)
      BY Zenon, <1>1, <2>1, <2>3 DEF r
    <2> QED BY Zenon, <2>2, <2>4 DEF SameWay, r
  <1> QED BY <1>3, <1>4, <1>5, <1>6

LEMMA SameRuns ==
    ASSUME NEW p \in Seq(Segment), NEW q \in Seq(Segment), NEW c \in Seq(Segment),
           NEW g, RunFrom(p, c, g), NEW h, RunFrom(q, c, h)
    PROVE  SameWay(p, g[Len(c)], h[Len(c)])
  <1> DEFINE n == Len(c)
             S == {k \in 0 .. n : SameWay(p, g[k], h[k])}
  <1>1. n \in Nat /\ \A k \in 1 .. n : c[k] \in Segment
    BY ElementOfSeq
  <1>2. /\ g \in [0 .. n -> Seq(Segment)] /\ g[0] = p /\ h \in [0 .. n -> Seq(Segment)] /\ h[0] = q
        /\ \A k \in 1 .. n : g[k] = NormStep(g[k - 1], c[k]) /\ h[k] = NormStep(h[k - 1], c[k])
    BY DEF RunFrom
  <1> HIDE DEF n
  <1>3. 0 \in S
    <2>1. p = SubSeq(p, 1, Len(p)) \o <<>> /\ q = q \o <<>>
      BY SubSeqFull, ConcatEmptySeq
    <2>2. <<>> \in Seq(Segment) /\ Len(p) \in 0 .. Len(p) /\ 0 \in 0 .. n
      BY <1>1, EmptySeq
    <2>3. SameWay(p, p, q)
      BY Zenon, <2>1, <2>2 DEF SameWay
    <2> QED BY <1>2, <2>2, <2>3
  <1>4. ASSUME NEW k \in 1 .. n, k - 1 \in S PROVE k \in S
    <2>1. k \in 0 .. n /\ k - 1 \in 0 .. n /\ SameWay(p, g[k - 1], h[k - 1]) /\ c[k] \in Segment
      BY <1>1, <1>4
    <2>2. g[k - 1] \in Seq(Segment) /\ h[k - 1] \in Seq(Segment)
      BY <1>2, <2>1
    <2> QED BY <1>2, <2>1, <2>2, SameStep
  <1>5. n \in S
    <2> HIDE DEF S
    <2>1. \A k \in 0 .. n : k \in S
      BY <1>1, <1>3, <1>4, UpTo
    <2> QED BY <1>1, <2>1
  <1> QED BY <1>5 DEF n

\* A path from a root of names, and the uri it comes from.
LEMMA Together ==
    ASSUME NEW r \in Seq(Name), NEW x \in Seq(Segment), NEW rel \in Seq(Segment)
    PROVE  SameWay(r, NormalizePath(r \o rel), NormalizePath(x \o rel))
  <1>1. r \in Seq(Segment) /\ r \o rel \in Seq(Segment) /\ x \o rel \in Seq(Segment)
    BY NamesAreSegments, ConcatProperties
  <1>2. PICK h : NormRun(r \o rel, h)
    BY <1>1, NormRuns
  <1>3. PICK i : NormRun(x \o rel, i)
    BY <1>1, NormRuns
  <1>4. h[Len(r)] = r
    BY <1>2, RunOfNames
  <1>5. PICK g : RunFrom(r, rel, g) /\ NormalizePath(r \o rel) = g[Len(rel)]
    BY <1>1, <1>2, <1>4, RunSplits
  <1>6. PICK j : /\ RunFrom(i[Len(x)], rel, j) /\ i[Len(x)] \in Seq(Segment)
                 /\ NormalizePath(x \o rel) = j[Len(rel)]
    BY <1>3, RunSplits
  <1> DEFINE q == i[Len(x)]
  <1> HIDE DEF q
  <1>7. q \in Seq(Segment) /\ RunFrom(q, rel, j)
    BY <1>6 DEF q
  <1>8. SameWay(r, g[Len(rel)], j[Len(rel)])
    BY <1>1, <1>5, <1>7, SameRuns
  <1> QED BY <1>5, <1>6, <1>8

\* A file that a uri stands for has the last name that is left of the uri.
LEMMA LastIsTheFile ==
    ASSUME NEW t, NEW up, TreeInv(t, up), NEW loc, Sane(loc), NEW uri \in Seq(Segment),
           NEW f \in MapURI(t, loc, uri), IsFile(t, f)
    PROVE  NormalizePath(uri) # <<>> /\ Last(NormalizePath(uri)) = Last(f)
  <1>1. WellFormed(t) /\ DOMAIN t.links \subseteq DOMAIN Tree.links
    BY DEF TreeInv
  <1>2. loc.root \in Tree.dirs /\ loc.root \in Seq(Name)
    BY <1>1, RootIsItself DEF Sane
  <1>3. PICK x \in Seq(Segment), rel \in Seq(Segment) :
           uri = x \o rel /\ f = NormalizePath(loc.root \o rel)
    <2>1. MapsTo(loc, uri, f)
      BY Mapped
    <2> QED BY <2>1 DEF MapsTo
  <1> DEFINE r == loc.root
             u == NormalizePath(uri)
  <1>4. SameWay(r, f, u)
    BY <1>2, <1>3, Together
  <1> HIDE DEF r, u
  <1>5. PICK w \in Seq(Segment), k \in 0 .. Len(r), q \in Seq(Segment) :
           f = SubSeq(r, 1, k) \o w /\ u = q \o w
    BY <1>4 DEF SameWay
  <1>6. WellFormed(Tree) /\ r \in Tree.dirs /\ r \in Seq(Segment)
    BY <1>2, RoutingAssumption, NamesAreSegments DEF r
  <1>7. SubSeq(r, 1, k) \in Tree.dirs /\ SubSeq(r, 1, k) \in Seq(Segment)
    BY <1>6, DirsAbove, Pieces
  <1> DEFINE d == SubSeq(r, 1, k)
  <1> HIDE DEF d
  <1>8. d \in Tree.dirs /\ d \in Seq(Segment) /\ f = d \o w
    BY <1>5, <1>7 DEF d
  <1>9. w # <<>>
    <2> SUFFICES ASSUME w = <<>> PROVE FALSE
      OBVIOUS
    <2>1. d \o <<>> = d
      BY <1>8, ConcatEmptySeq
    <2>2. f = d
      BY <1>8, <2>1
    <2>3. Canonical(t, d) = d
      BY <1>1, <1>8, RootIsItself
    <2>4. d \in t.files
      BY <2>2, <2>3 DEF IsFile
    <2>5. d \in Tree.files \/ (d # <<>> /\ Last(d) \in Generated)
      BY <2>4 DEF TreeInv
    <2>6. d \notin Tree.files
      BY <1>6, <1>8 DEF WellFormed
    <2>7. d \in Entries(Tree)
      BY <1>8 DEF Entries
    <2> QED BY <2>5, <2>6, <2>7, GeneratedAssumption
  <1>10. d \o w # <<>> /\ Last(d \o w) = Last(w) /\ q \o w # <<>> /\ Last(q \o w) = Last(w)
    BY <1>8, <1>9, JoinedLast
  <1>11. u # <<>> /\ Last(u) = Last(f)
    BY <1>5, <1>8, <1>10
  <1> QED BY <1>11 DEF u

\* SCRIPT_NAME and PATH_INFO of an answer are right for a uri.
Splits(t, loc, uri, r) ==
    LET whole == r.script_name \o r.path_info
    IN  /\ whole = NormalizePath(uri) \/ Front(whole) = NormalizePath(uri)
        /\ Last(r.script_name) = Last(r.file)
        /\ \A k \in Named(t, loc, whole) : k <= Len(r.script_name)

LEMMA ScriptSplits ==
    ASSUME NEW t, NEW up, TreeInv(t, up), NEW loc, Sane(loc), NEW uri \in Seq(Segment),
           NEW r, Served(t, loc, uri, r), r.type = "CGI"
    PROVE  Splits(t, loc, uri, r)
  <1> DEFINE u == NormalizePath(uri)
  <1>1. u \in Seq(Name) /\ u \in Seq(Segment) /\ Len(u) \in Nat
    BY NormalIsNames, NamesAreSegments
  <1>2. \A c : Named(t, loc, c) \subseteq 1 .. Len(c)
    BY DEF Named
  <1>3. CASE AsFile(t, loc, uri, r)
    <2>1. PICK f \in MapURI(t, loc, uri) :
             IsFile(t, f) /\ r.file = f /\ r.script_name = u /\ r.path_info = <<>>
      BY <1>3 DEF AsFile
    <2>2. Last(u) = Last(f)
      BY <2>1, LastIsTheFile
    <2> HIDE DEF u
    <2>3. u \o <<>> = u
      BY <1>1, ConcatEmptySeq
    <2>4. \A k \in Named(t, loc, u) : k <= Len(u)
      BY <1>1, <1>2
    <2>5. r.script_name \o r.path_info = u /\ r.script_name = u
      BY Zenon, <2>1, <2>3
    <2> QED BY Zenon, <2>1, <2>2, <2>4, <2>5 DEF Splits, u
  <1>4. CASE AsIndex(t, loc, uri, r)
    <2>1. PICK f \in MapURI(t, loc, uri), i \in 1 .. Len(loc.index) :
             /\ r.file = Append(f, loc.index[i])
             /\ r.script_name = Append(u, Last(r.file)) /\ r.path_info = <<>>
      BY <1>4 DEF AsIndex
    <2>2. f \in Seq(Segment)
      BY Mapped
    <2> DEFINE x == loc.index[i]
               v == Append(u, x)
    <2>3. x \in Segment
      <3>1. x \in Name
        BY ElementOfSeq DEF Sane
      <3> QED BY <3>1 DEF Segment
    <2> HIDE DEF x, u
    <2>4. Last(r.file) = x
      BY <2>1, <2>2, <2>3, AppendIs DEF x
    <2>5. v \in Seq(Segment) /\ Front(v) = u /\ Last(v) = x
      BY <1>1, <2>3, AppendIs
    <2>6. r.script_name = v
      BY <2>1, <2>4
    <2> HIDE DEF v
    <2>7. v \o <<>> = v /\ Len(v) \in Nat
      BY <2>5, ConcatEmptySeq
    <2>8. \A k \in Named(t, loc, v) : k <= Len(v)
      BY <1>2, <2>7
    <2>9. r.script_name \o r.path_info = v
      BY Zenon, <2>1, <2>6, <2>7
    <2> QED BY Zenon, <2>4, <2>5, <2>6, <2>8, <2>9 DEF Splits, u
  <1>5. CASE AsRest(t, loc, u, r)
    <2> HIDE DEF u
    <2>1. PICK k \in Named(t, loc, u) : \E f \in MapURI(t, loc, SubSeq(u, 1, k)) :
             /\ \A j \in Named(t, loc, u) : j <= k
             /\ IsFile(t, f) /\ r.file = f
             /\ r.script_name = SubSeq(u, 1, k) /\ r.path_info = SubSeq(u, k + 1, Len(u))
      BY <1>5 DEF AsRest
    <2> DEFINE sn == SubSeq(u, 1, k)
               pi == SubSeq(u, k + 1, Len(u))
    <2>2. PICK f \in MapURI(t, loc, sn) :
             /\ \A j \in Named(t, loc, u) : j <= k
             /\ IsFile(t, f) /\ r.file = f /\ r.script_name = sn /\ r.path_info = pi
      BY <2>1
    <2>3. k \in 0 .. Len(u)
      BY <1>1, <1>2
    <2>4. sn \in Seq(Name) /\ Len(sn) = k /\ sn \o pi = u
      BY <1>1, <2>3, Pieces
    <2> HIDE DEF sn, pi
    <2>5. NormalizePath(sn) = sn /\ sn \in Seq(Segment)
      BY <2>4, NormalOfNames, NamesAreSegments
    <2>6. Last(NormalizePath(sn)) = Last(f)
      BY <2>2, <2>5, LastIsTheFile
    <2>7. r.script_name \o r.path_info = u /\ r.script_name = sn /\ r.file = f
      BY Zenon, <2>2, <2>4
    <2>8. Last(sn) = Last(f) /\ \A j \in Named(t, loc, u) : j <= Len(sn)
      BY <2>2, <2>4, <2>5, <2>6
    <2> QED BY Zenon, <2>7, <2>8 DEF Splits, u
  <1>6. ~AsList(t, loc, uri, r)
    BY DEF AsList
  <1> QED BY <1>3, <1>4, <1>5, <1>6 DEF Served

LEMMA RestIsPathInfo == IInv => PathInfoIsTheRest
  <1> SUFFICES ASSUME IInv, last.route.type = "CGI"
               PROVE  Splits(tree, Loc, last.uri, last.route)
    BY Zenon DEF PathInfoIsTheRest, Answered, Splits
  <1>1. Asked
    <2>1. Nothing.route = Error(0)
      BY Zenon DEF Nothing
    <2>2. Error(0).type = "ERR"
      BY DEF Error, A
    <2> QED BY <2>1, <2>2 DEF Asked
  <1>2. Sane(Loc) /\ last.uri \in Seq(Segment)
    BY <1>1, Known
  <1>3. last.route = Route(tree, Loc, last.method, last.uri)
    BY <1>1 DEF IInv, Explained
  <1>4. TreeInv(tree, uploads) /\ WellFormed(tree)
    BY DEF IInv, TreeInv
  <1>5. Served(tree, Loc, last.uri, last.route)
    BY <1>2, <1>3, <1>4, Routed
  <1> QED BY <1>2, <1>4, <1>5, ScriptSplits

\* What a script is told of the uri is the uri, cut after the longest part of it
\* that names a script, and the script is the one run, whatever was uploaded or
\* removed before (resolveCgiPathInfo).
THEOREM RestGoesToTheScript == Spec => []PathInfoIsTheRest
  BY InvariantHolds, RestIsPathInfo, PTL

-----------------------------------------------------------------------------
(* What was uploaded.                                                      *)

\* No two locations of a server differ by no more than a slash at the end.
Apart ==
    \A s \in 1 .. Len(Servers) : \A i, j \in 1 .. Count(s) :
        Stem(PathOf(s, i)) = Stem(PathOf(s, j)) => i = j

\* Of what begins with a path and one name more, the path is all that begins it
\* and has not that name.
LEMMA BeginsBefore ==
    ASSUME NEW a \in Seq(Segment), NEW b \in Seq(Segment), NEW x \in Segment,
           \A k \in 1 .. Len(b) : b[k] # x, IsPrefix(b, Append(a, x)), Len(a) <= Len(b)
    PROVE  b = a
  <1> DEFINE u == Append(a, x)
  <1>1. /\ Len(a) \in Nat /\ Len(b) \in Nat /\ u \in Seq(Segment) /\ Len(u) = Len(a) + 1
        /\ \A i \in 1 .. Len(a) : u[i] = a[i]
    BY AppendIs
  <1>2. u[Len(a) + 1] = x
    BY AppendProperties
  <1> HIDE DEF u
  <1>3. Len(b) <= Len(u) /\ SubSeq(b, 1, Len(b)) = SubSeq(u, 1, Len(b))
    BY DEF IsPrefix, u
  <1>4. b = SubSeq(u, 1, Len(b))
    BY <1>3, SubSeqFull
  <1>5. \A i \in 1 .. Len(b) : SubSeq(u, 1, Len(b))[i] = u[i]
    <2>1. 1 \in Int /\ Len(b) \in Int /\ \A i \in 1 .. Len(b) : u[i] \in Segment
      BY <1>1, <1>3, ElementOfSeq
    <2>2. \A i \in 1 .. Len(b) - 1 + 1 : SubSeq(u, 1, Len(b))[i] = u[1 + i - 1]
      BY <2>1, SubSeqProperties
    <2> QED BY <1>1, <2>2
  <1>6. \A i \in 1 .. Len(b) : b[i] = u[i]
    BY <1>4, <1>5
  <1>7. Len(b) # Len(a) + 1
    BY <1>1, <1>2, <1>6
  <1>8. Len(b) = Len(a) /\ \A i \in 1 .. Len(b) : b[i] = a[i]
    BY <1>1, <1>3, <1>6, <1>7
  <1> QED BY <1>8, SeqEqual

\* What is cut from the beginning, and what comes after an end.
LEMMA Cut ==
    ASSUME NEW S, NEW u \in Seq(S), NEW k \in 0 .. Len(u)
    PROVE  \A i \in 1 .. k : SubSeq(u, 1, k)[i] = u[i]
  <1>1. Len(u) \in Nat /\ 1 \in Int /\ k \in Int /\ \A i \in 1 .. k : u[i] \in S
    BY ElementOfSeq
  <1>2. \A i \in 1 .. k - 1 + 1 : SubSeq(u, 1, k)[i] = u[1 + i - 1]
    BY <1>1, SubSeqProperties
  <1> QED BY <1>1, <1>2

LEMMA AfterAppend ==
    ASSUME NEW a \in Seq(Segment), NEW x \in Segment
    PROVE  SubSeq(Append(a, x), Len(a) + 1, Len(Append(a, x))) = <<x>>
  <1> DEFINE u == Append(a, x)
             n == Len(a) + 1
  <1>1. n \in Nat \ {0} /\ u \in Seq(Segment) /\ Len(u) = n /\ u[n] = x
    BY AppendProperties
  <1> HIDE DEF u, n
  <1>2. SubSeq(u, n, n) \in Seq(Segment) /\ Len(SubSeq(u, n, n)) = 1 /\ SubSeq(u, n, n)[1] = u[n]
    <2>1. n \in Int /\ \A i \in n .. n : u[i] \in Segment
      BY <1>1
    <2>2. /\ SubSeq(u, n, n) \in Seq(Segment)
          /\ Len(SubSeq(u, n, n)) = IF n <= n THEN n - n + 1 ELSE 0
          /\ \A i \in 1 .. n - n + 1 : SubSeq(u, n, n)[i] = u[n + i - 1]
      BY <2>1, SubSeqProperties
    <2> QED BY <1>1, <2>2
  <1>3. <<x>> \in Seq(Segment) /\ Len(<<x>>) = 1 /\ <<x>>[1] = x
    BY Singleton
  <1>4. SubSeq(u, n, n) = <<x>>
    <2> DEFINE b == SubSeq(u, n, n)
               o == <<x>>
    <2>1. b \in Seq(Segment) /\ o \in Seq(Segment) /\ Len(b) = Len(o)
          /\ \A i \in 1 .. Len(b) : b[i] = o[i]
      BY <1>1, <1>2, <1>3
    <2> HIDE DEF b, o
    <2>2. b = o
      BY <2>1, SeqEqual
    <2> QED BY <2>2 DEF b, o
  <1> QED BY <1>1, <1>4 DEF u, n

\* A path begins what stands directly under it.
LEMMA BeginsUnder ==
    ASSUME NEW p \in Seq(Segment), p # <<>>, NEW x \in Segment
    PROVE  Begins(Append(Stem(p), x), p)
  <1> DEFINE a == Stem(p)
             u == Append(a, x)
  <1>1. a \in Seq(Segment) /\ Len(p) \in Nat /\ Len(a) \in Nat /\ (a = p \/ Len(p) = Len(a) + 1)
    <2>1. a \in Seq(Segment) /\ Len(p) \in Nat /\ (a = p \/ Len(a) = Len(p) - 1)
      BY Zenon, Stems
    <2> QED BY <2>1
  <1> HIDE DEF a
  <1>2. u \in Seq(Segment) /\ Len(u) = Len(a) + 1 /\ Front(u) = a /\ u # <<>>
    BY <1>1, AppendIs
  <1> HIDE DEF u
  <1>3. IsPrefix(a, u)
    BY <1>2, FrontIsPrefix
  <1>4. p = a \/ Len(u) >= Len(p)
    BY <1>1, <1>2
  <1> QED BY <1>3, <1>4 DEF Begins, a, u

\* What was uploaded is served by the location it was uploaded to.
LEMMA ItsLocation ==
    ASSUME Apart, NEW s \in 1 .. Len(Servers), NEW i \in 1 .. Count(s), NEW x \in Generated
    PROVE  FindLocation(s, Append(Stem(PathOf(s, i)), x)) = i
  <1> DEFINE p == PathOf(s, i)
             uri == Append(Stem(p), x)
             l == FindLocation(s, uri)
             b == PathOf(s, l)
  <1>1. p \in Seq(Segment) /\ p # <<>> /\ x \in Segment
    BY Configured, GeneratedAssumption DEF Segment
  <1>2. Begins(uri, p)
    <2> HIDE DEF p
    <2> QED BY <1>1, BeginsUnder
  <1>3. l \in 0 .. Count(s)
    <2> HIDE DEF uri
    <2> QED BY FoundType
  <1>4. l # 0 /\ Length(p) <= Length(b) /\ Begins(uri, b)
    <2> HIDE DEF uri
    <2> QED BY <1>2, FoundLocation
  <1>5. l \in 1 .. Count(s)
    <2> HIDE DEF l
    <2> QED BY <1>3, <1>4, Configured
  <1> HIDE DEF l
  <1>6. b \in Seq(Segment) /\ b # <<>>
    BY <1>5, Configured
  <1>7. \A k \in 1 .. Len(b) : b[k] # x
    BY <1>5, GeneratedAssumption DEF Count, PathOf
  <1> HIDE DEF p, b
  <1>8. /\ Len(Stem(p)) \in Nat /\ Len(Stem(b)) \in Nat
        /\ Length(p) \in {2 * Len(Stem(p)), 2 * Len(Stem(p)) + 1}
        /\ Length(b) \in {2 * Len(Stem(b)), 2 * Len(Stem(b)) + 1}
    BY <1>1, <1>6, Measures
  <1>9. Len(Stem(p)) <= Len(Stem(b))
    <2> DEFINE m == Len(Stem(p))
               n == Len(Stem(b))
    <2>1. m \in Nat /\ n \in Nat /\ Length(p) \in {2 * m, 2 * m + 1} /\ Length(b) \in {2 * n, 2 * n + 1}
          /\ Length(p) <= Length(b)
      BY <1>4, <1>8
    <2> HIDE DEF m, n
    <2>2. m <= n
      BY <2>1
    <2> QED BY <2>2 DEF m, n
  <1>10. /\ Stem(p) \in Seq(Segment) /\ Stem(b) \in Seq(Segment)
         /\ \A k \in 1 .. Len(Stem(b)) : Stem(b)[k] # x
    <2>1. Stem(p) \in Seq(Segment) /\ Stem(b) \in Seq(Segment)
      BY <1>1, <1>6, Stems
    <2>2. Stem(b) = b \/ Stem(b) = Front(b)
      BY DEF Stem
    <2>3. \A k \in 1 .. Len(Front(b)) : Front(b)[k] # x
      <3>1. /\ Len(Front(b)) = Len(b) - 1 /\ Len(b) \in Nat
            /\ \A k \in 1 .. Len(b) - 1 : Front(b)[k] = b[k]
        BY <1>6, FrontIs
      <3> QED BY <1>7, <3>1
    <2> QED BY <1>7, <2>1, <2>2, <2>3
  <1>11. IsPrefix(Stem(b), uri)
    BY <1>4 DEF Begins
  <1>12. Stem(b) = Stem(p)
    BY <1>1, <1>9, <1>10, <1>11, BeginsBefore
  <1> QED BY <1>5, <1>12 DEF Apart, p, b, l

\* It stands where no link leads elsewhere.
LEMMA UploadIsStraight ==
    ASSUME NEW t, NEW up, TreeInv(t, up), NEW root \in Tree.dirs, NEW x \in Generated
    PROVE  /\ root \in Seq(Name) /\ Canonical(Tree, root) = root
           /\ Append(root, x) \in Seq(Name) /\ Canonical(t, Append(root, x)) = Append(root, x)
           /\ IsWithinFSRoot(t, Append(root, x), root)
  <1> DEFINE f == Append(root, x)
  <1>1. WellFormed(t) /\ DOMAIN t.links \subseteq DOMAIN Tree.links /\ WellFormed(Tree)
    BY RoutingAssumption DEF TreeInv
  <1>2. /\ Canonical(t, root) = root /\ Canonical(Tree, root) = root /\ root \in Seq(Name)
        /\ x \in Name
    BY <1>1, RootIsItself, GeneratedAssumption
  <1>3. /\ f \in Seq(Name) /\ f # <<>> /\ Len(f) = Len(root) + 1 /\ Len(root) \in Nat
        /\ Last(f) = x /\ Front(f) = root
    BY <1>2, AppendIs
  <1>4. f \in Seq(Segment)
    BY <1>3, NamesAreSegments
  <1> HIDE DEF f
  <1>5. f \notin DOMAIN Tree.links
    BY <1>3, GeneratedAssumption DEF Entries
  <1>6. ASSUME NEW k \in 1 .. Len(f) PROVE SubSeq(f, 1, k) \notin DOMAIN t.links
    <2>1. CASE k = Len(f)
      <3>1. SubSeq(f, 1, k) = f
        BY <1>3, <2>1, SubSeqFull
      <3> QED BY <1>1, <1>5, <3>1
    <2>2. CASE k # Len(f)
      <3>1. k \in 0 .. Len(root) /\ k \in 1 .. Len(root)
        BY <1>3, <2>2
      <3>2. SubSeq(f, 1, k) = SubSeq(root, 1, k)
        <4>1. \A i \in 1 .. k : f[i] = root[i]
          BY <1>2, <1>3, <3>1, AppendIs DEF f
        <4>2. /\ SubSeq(f, 1, k) \in Seq(Name) /\ Len(SubSeq(f, 1, k)) = k
              /\ SubSeq(root, 1, k) \in Seq(Name) /\ Len(SubSeq(root, 1, k)) = k
          BY <1>2, <1>3, <3>1, OneLonger
        <4>3. \A i \in 1 .. k : SubSeq(f, 1, k)[i] = f[i] /\ SubSeq(root, 1, k)[i] = root[i]
          BY <1>2, <1>3, <3>1, Cut
        <4> QED BY <4>1, <4>2, <4>3, SeqEqual
      <3>3. SubSeq(root, 1, k) \in Tree.dirs
        BY <1>1, <3>1, DirsAbove
      <3> QED BY <1>1, <3>2, <3>3 DEF WellFormed
    <2> QED BY <2>1, <2>2
  <1>7. Canonical(t, f) = f
    BY <1>1, <1>4, <1>6, Straight
  <1>8. IsPrefix(root, f)
    BY <1>3, FrontIsPrefix
  <1>9. IsWithinFSRoot(t, f, root)
    BY <1>2, <1>7, <1>8 DEF IsWithinFSRoot
  <1> QED BY <1>2, <1>3, <1>7, <1>9 DEF f

\* What a location with nothing but files makes of the uri.
LEMMA Fetched ==
    ASSUME NEW t, NEW up, TreeInv(t, up), NEW loc, Sane(loc), NEW x \in Generated,
           loc.cgi = "none", "GET" \in loc.allow_methods, loc.returns = {},
           Placed(Tree, loc.root, x) \in t.files
    PROVE  Route(t, loc, "GET", Append(Stem(loc.path), x)) = A("FILES", 200, Append(loc.root, x))
  <1> DEFINE p == loc.path
             root == loc.root
             f == Append(root, x)
             a == Stem(p)
             uri == Append(a, x)
  <1>1. /\ root \in Tree.dirs /\ p \in Seq(Segment) /\ p # <<>> /\ x \in Name /\ x \in Segment
    BY GeneratedAssumption DEF Sane, Segment
  <1>2. /\ root \in Seq(Name) /\ Canonical(Tree, root) = root
        /\ f \in Seq(Name) /\ Canonical(t, f) = f /\ IsWithinFSRoot(t, f, root)
    BY <1>1, UploadIsStraight
  <1>3. IsFile(t, f)
    <2>1. f \in t.files
      BY <1>2 DEF Placed
    <2> QED BY <1>2, <2>1 DEF IsFile
  <1>4. Begins(uri, p)
    <2> HIDE DEF p
    <2> QED BY <1>1, BeginsUnder
  <1>5. SubSeq(uri, Len(a) + 1, Len(uri)) = <<x>>
    <2>1. a \in Seq(Segment)
      <3> HIDE DEF p
      <3> QED BY <1>1, Stems
    <2> HIDE DEF a
    <2> QED BY <1>1, <2>1, AfterAppend
  <1>6. NormalizePath(root \o <<x>>) = f
    <2>1. root \o <<x>> = f
      BY <1>1, <1>2, AppendIsConcat
    <2> QED BY <1>2, <2>1, NormalOfNames
  <1> DEFINE M == MapURI(t, loc, uri)
  <1>7. M = {f}
    <2>1. M = {g \in {NormalizePath(root \o SubSeq(uri, Len(a) + 1, Len(uri)))} :
                 IsWithinFSRoot(t, g, root)}
      BY Zenon, <1>4 DEF MapURI
    <2> HIDE DEF M, f, root
    <2>2. M = {g \in {f} : IsWithinFSRoot(t, g, root)}
      BY Zenon, <1>5, <1>6, <2>1
    <2> QED BY <1>2, <2>2
  <1> HIDE DEF uri, f, root, p
  <1>8. Route(t, loc, "GET", uri) = IF M = {} THEN Error(403)
                                    ELSE RouteFile(t, loc, "GET", uri, CHOOSE g \in M : TRUE)
    BY DEF Route
  <1>9. (CHOOSE g \in M : TRUE) = f /\ M # {}
    <2> HIDE DEF M
    <2> QED BY <1>7
  <1> HIDE DEF M
  <1>10. Route(t, loc, "GET", uri) = RouteFile(t, loc, "GET", uri, f)
    BY <1>8, <1>9
  <1>11. RouteFile(t, loc, "GET", uri, f) = A("FILES", 200, f)
    <2>1. ~IsCGI(loc, f)
      BY DEF IsCGI
    <2>2. ~IsDir(t, f)
      BY <1>3 DEF IsFile, IsDir, TreeInv, WellFormed
    <2> QED BY <1>3, <2>1, <2>2 DEF RouteFile
  <1> QED BY <1>10, <1>11 DEF uri, f, root, a, p

\* The property, for one location of a server.
FetchedFrom(s, loc) ==
    /\ loc.upload_path = {loc.root} /\ loc.cgi = "none"
    /\ "GET" \in loc.allow_methods /\ loc.returns = {}
    =>
      \A name \in uploads : Placed(Tree, loc.root, name) \in tree.files =>
        LET uri == Append(Stem(loc.path), name)
            r == Route(tree, LocationAt(s, FindLocation(s, uri)), "GET", uri)
        IN  r.type = "FILES" /\ r.file = Append(loc.root, name)

LEMMA FilesAnswer ==
    ASSUME NEW f
    PROVE  A("FILES", 200, f).type = "FILES" /\ A("FILES", 200, f).file = f
  BY DEF A

LEMMA UploadsAreThere == Apart /\ IInv => UploadsCanBeFetched
  <1> SUFFICES ASSUME Apart, IInv PROVE UploadsCanBeFetched
    OBVIOUS
  <1>1. TreeInv(tree, uploads)
    BY DEF IInv
  <1> SUFFICES ASSUME NEW s \in 1 .. Len(Servers), NEW i \in 1 .. Len(Servers[s].locations)
               PROVE  FetchedFrom(s, Servers[s].locations[i])
    BY Zenon DEF UploadsCanBeFetched, FetchedFrom
  <1> SUFFICES ASSUME Servers[s].locations[i].upload_path = {Servers[s].locations[i].root},
                      Servers[s].locations[i].cgi = "none",
                      "GET" \in Servers[s].locations[i].allow_methods,
                      Servers[s].locations[i].returns = {},
                      NEW x \in uploads,
                      Placed(Tree, Servers[s].locations[i].root, x) \in tree.files,
                      NEW uri, uri = Append(Stem(Servers[s].locations[i].path), x),
                      NEW r, r = Route(tree, LocationAt(s, FindLocation(s, uri)), "GET", uri)
               PROVE  r.type = "FILES" /\ r.file = Append(Servers[s].locations[i].root, x)
    BY Zenon DEF FetchedFrom
  <1> DEFINE loc == Servers[s].locations[i]
  <1>2. x \in Generated
    BY <1>1 DEF TreeInv
  <1>3. FindLocation(s, uri) = i
    BY <1>2, ItsLocation DEF Count, PathOf
  <1>4. LocationAt(s, i) = loc
    <2>1. i # 0
      BY Configured DEF Count
    <2> QED BY <2>1 DEF LocationAt
  <1>5. Sane(loc)
    <2>1. i \in 0 .. Count(s)
      BY Configured DEF Count
    <2> HIDE DEF loc
    <2> QED BY <1>4, <2>1, LocationIs
  <1>6. r = Route(tree, loc, "GET", Append(Stem(loc.path), x))
    BY <1>3, <1>4
  <1> HIDE DEF loc
  <1>7. r = A("FILES", 200, Append(loc.root, x))
    <2>1. /\ loc.upload_path = {loc.root} /\ loc.cgi = "none"
          /\ "GET" \in loc.allow_methods /\ loc.returns = {}
          /\ x \in uploads /\ Placed(Tree, loc.root, x) \in tree.files
      BY Zenon DEF loc
    <2>2. Route(tree, loc, "GET", Append(Stem(loc.path), x)) = A("FILES", 200, Append(loc.root, x))
      <3> HIDE <1>6
      <3> QED BY <1>1, <1>2, <1>5, <2>1, Fetched
    <2> QED BY <1>6, <2>2
  <1>8. r.type = "FILES" /\ r.file = Append(loc.root, x)
    <2> DEFINE f == Append(loc.root, x)
    <2> HIDE DEF f
    <2>1. A("FILES", 200, f).type = "FILES" /\ A("FILES", 200, f).file = f
      BY FilesAnswer
    <2>2. r = A("FILES", 200, f)
      BY <1>7 DEF f
    <2> QED BY <2>1, <2>2 DEF f
  <1> QED BY <1>8 DEF loc

\* Where the locations of each server differ by more than a slash at the end,
\* what was uploaded where it is served can be fetched until it is deleted,
\* whatever links there are and whatever else came and went (openUploadFile,
\* findLocation, mapURI).
THEOREM UploadsAreServed == ASSUME Apart PROVE Spec => []UploadsCanBeFetched
  <1>1. IInv => UploadsCanBeFetched
    BY UploadsAreThere
  <1> QED BY InvariantHolds, <1>1, PTL

-----------------------------------------------------------------------------
(* What stands of a path.  Of two sets of places, N and U, one holds where  *)
(* names are and the other where ".." is.                                  *)

Tally(X, i, j) == Cardinality({k \in i .. j : k \in X})

\* How many more names than ".." there are from i to j.
Excess(N, U, i, j) == Tally(N, i, j) - Tally(U, i, j)

On(N, U, i, j) == \A k \in i .. j : Excess(N, U, i, k) > 0

LEMMA TallyNext ==
    ASSUME NEW X, NEW i \in Nat, NEW j \in Nat, i <= j
    PROVE  /\ Tally(X, i, j) \in Nat /\ Tally(X, i, j - 1) \in Nat
           /\ j \in X => Tally(X, i, j) = Tally(X, i, j - 1) + 1
           /\ j \notin X => Tally(X, i, j) = Tally(X, i, j - 1)
  <1> DEFINE l == j - 1
             R == {k \in i .. l : k \in X}
             S == {k \in i .. j : k \in X}
  <1>1. l \in Int /\ j \in Int /\ i \in Int
    OBVIOUS
  <1>2. IsFiniteSet(i .. l) /\ IsFiniteSet(i .. j)
    <2> HIDE DEF l
    <2> QED BY <1>1, FS_Interval
  <1>3. IsFiniteSet(R) /\ IsFiniteSet(S)
    <2> HIDE DEF l
    <2> QED BY <1>2, FS_Subset
  <1>4. Cardinality(R) \in Nat /\ Cardinality(S) \in Nat
    <2> HIDE DEF R, S
    <2> QED BY <1>3, FS_CardinalityType
  <1>5. ASSUME j \in X PROVE Cardinality(S) = Cardinality(R) + 1
    <2>1. S = R \cup {j} /\ j \notin R
      BY <1>5
    <2> HIDE DEF R, S
    <2> QED BY <1>3, <2>1, FS_AddElement
  <1>6. ASSUME j \notin X PROVE S = R
    BY <1>6
  <1> QED BY <1>4, <1>5, <1>6 DEF Tally

LEMMA TallyNone ==
    ASSUME NEW X, NEW i \in Nat
    PROVE  Tally(X, i, i - 1) = 0
  <1>1. {k \in i .. (i - 1) : k \in X} = {}
    OBVIOUS
  <1> QED BY <1>1, FS_EmptySet DEF Tally

LEMMA ExcessNext ==
    ASSUME NEW N, NEW U, N \cap U = {}, NEW i \in Nat, NEW j \in Nat, i <= j
    PROVE  /\ Excess(N, U, i, j) \in Int /\ Excess(N, U, i, j - 1) \in Int
           /\ j \in N => Excess(N, U, i, j) = Excess(N, U, i, j - 1) + 1
           /\ j \in U => Excess(N, U, i, j) = Excess(N, U, i, j - 1) - 1
           /\ j \notin N \cup U => Excess(N, U, i, j) = Excess(N, U, i, j - 1)
           /\ Excess(N, U, i, i - 1) = 0
  <1>1. /\ Tally(N, i, j) \in Nat /\ Tally(N, i, j - 1) \in Nat
        /\ j \in N => Tally(N, i, j) = Tally(N, i, j - 1) + 1
        /\ j \notin N => Tally(N, i, j) = Tally(N, i, j - 1)
    BY TallyNext
  <1>2. /\ Tally(U, i, j) \in Nat /\ Tally(U, i, j - 1) \in Nat
        /\ j \in U => Tally(U, i, j) = Tally(U, i, j - 1) + 1
        /\ j \notin U => Tally(U, i, j) = Tally(U, i, j - 1)
    BY TallyNext
  <1>3. Tally(N, i, i - 1) = 0 /\ Tally(U, i, i - 1) = 0
    BY TallyNone
  <1> QED BY <1>1, <1>2, <1>3 DEF Excess

LEMMA OnNext ==
    ASSUME NEW N, NEW U, NEW i \in Nat, NEW j \in Nat, i <= j
    PROVE  On(N, U, i, j) <=> On(N, U, i, j - 1) /\ Excess(N, U, i, j) > 0
  <1>1. \A k : k \in i .. j <=> k \in i .. (j - 1) \/ k = j
    OBVIOUS
  <1> QED BY <1>1 DEF On

\* Where the names that are left come from: the places that stand.
Stack(u, N, U, k, h, g) ==
    /\ g \in Seq(Nat) /\ Len(g) = Len(h)
    /\ \A m \in 1 .. Len(g) : g[m] \in 1 .. k /\ g[m] \in N /\ h[m] = u[g[m]]
    /\ \A m \in 1 .. Len(g) : Excess(N, U, g[m], k) = Len(g) - m + 1 /\ On(N, U, g[m], k)
    /\ \A l, m \in 1 .. Len(g) : l < m => g[l] < g[m]
    /\ \A i \in 1 .. k : i \in N /\ On(N, U, i, k) => \E m \in 1 .. Len(g) : g[m] = i

LEMMA StackBlank ==
    ASSUME NEW u, NEW N, NEW U, N \cap U = {}, NEW k \in Nat \ {0}, k \notin N \cup U,
           NEW h, NEW g, Stack(u, N, U, k - 1, h, g)
    PROVE  Stack(u, N, U, k, h, g)
  <1>1. ASSUME NEW i \in 1 .. k - 1
        PROVE  /\ Excess(N, U, i, k) = Excess(N, U, i, k - 1)
               /\ On(N, U, i, k) <=> On(N, U, i, k - 1)
    <2>1. i \in Nat /\ k \in Nat /\ i <= k /\ k - 1 \in i .. (k - 1)
      OBVIOUS
    <2>2. Excess(N, U, i, k) = Excess(N, U, i, k - 1)
      BY <2>1, ExcessNext
    <2> QED BY <2>1, <2>2, OnNext DEF On
  <1>2. \A i \in 1 .. k : i \in N => i \in 1 .. k - 1
    OBVIOUS
  <1>3. \A i \in 1 .. k - 1 : i \in 1 .. k
    OBVIOUS
  <1> QED BY <1>1, <1>2, <1>3 DEF Stack

LEMMA StackName ==
    ASSUME NEW u, NEW N, NEW U, N \cap U = {}, NEW k \in Nat \ {0}, k \in N,
           NEW h \in Seq(Segment), u[k] \in Segment, NEW g, Stack(u, N, U, k - 1, h, g)
    PROVE  Stack(u, N, U, k, Append(h, u[k]), Append(g, k))
  <1> DEFINE f == Append(g, k)
             n == Len(g)
             b == Append(h, u[k])
  <1>1. /\ g \in Seq(Nat) /\ n = Len(h) /\ n \in Nat
        /\ \A m \in 1 .. n : g[m] \in 1 .. k - 1 /\ g[m] \in N /\ h[m] = u[g[m]]
        /\ \A m \in 1 .. n : Excess(N, U, g[m], k - 1) = n - m + 1 /\ On(N, U, g[m], k - 1)
        /\ \A l, m \in 1 .. n : l < m => g[l] < g[m]
        /\ \A i \in 1 .. k - 1 : i \in N /\ On(N, U, i, k - 1) => \E m \in 1 .. n : g[m] = i
    BY DEF Stack
  <1>2. f \in Seq(Nat) /\ Len(f) = n + 1 /\ f[n + 1] = k /\ \A m \in 1 .. n : f[m] = g[m]
    BY <1>1, AppendProperties
  <1>3. Len(b) = n + 1 /\ b[n + 1] = u[k] /\ \A m \in 1 .. n : b[m] = h[m]
    BY <1>1, AppendProperties
  <1>4. ASSUME NEW i \in 1 .. k - 1
        PROVE  /\ Excess(N, U, i, k) = Excess(N, U, i, k - 1) + 1 /\ Excess(N, U, i, k - 1) \in Int
               /\ On(N, U, i, k) <=> On(N, U, i, k - 1)
    <2>1. i \in Nat /\ k \in Nat /\ i <= k /\ k - 1 \in i .. (k - 1)
      OBVIOUS
    <2>2. Excess(N, U, i, k) = Excess(N, U, i, k - 1) + 1 /\ Excess(N, U, i, k - 1) \in Int
      BY <2>1, ExcessNext
    <2> QED BY <2>1, <2>2, OnNext DEF On
  <1>5. Excess(N, U, k, k) = 1 /\ On(N, U, k, k)
    <2>1. Excess(N, U, k, k) = Excess(N, U, k, k - 1) + 1 /\ Excess(N, U, k, k - 1) = 0
      BY ExcessNext
    <2>2. \A j \in k .. k : j = k
      OBVIOUS
    <2> QED BY <2>1, <2>2 DEF On
  <1> HIDE DEF f, n, b
  <1>6. ASSUME NEW m \in 1 .. n + 1
        PROVE  /\ f[m] \in 1 .. k /\ f[m] \in N /\ b[m] = u[f[m]]
               /\ Excess(N, U, f[m], k) = (n + 1) - m + 1 /\ On(N, U, f[m], k)
    <2>1. CASE m = n + 1
      <3>1. f[m] = k /\ b[m] = u[k] /\ (n + 1) - m + 1 = 1
        BY <1>1, <1>2, <1>3, <2>1
      <3> QED BY <1>5, <3>1
    <2>2. CASE m # n + 1
      <3>1. m \in 1 .. n
        BY <1>1, <2>2
      <3>2. f[m] = g[m] /\ b[m] = h[m] /\ g[m] \in 1 .. k - 1 /\ g[m] \in N /\ h[m] = u[g[m]]
        BY <1>1, <1>2, <1>3, <3>1
      <3>3. Excess(N, U, g[m], k - 1) = n - m + 1 /\ On(N, U, g[m], k - 1)
        BY <1>1, <3>1
      <3>4. Excess(N, U, g[m], k) = n - m + 1 + 1 /\ On(N, U, g[m], k)
        BY <1>4, <3>2, <3>3
      <3>5. g[m] \in 1 .. k /\ n - m + 1 + 1 = (n + 1) - m + 1
        BY <1>1, <3>1, <3>2
      <3> QED BY <3>2, <3>4, <3>5
    <2> QED BY <2>1, <2>2
  <1>7. ASSUME NEW l \in 1 .. n + 1, NEW m \in 1 .. n + 1, l < m PROVE f[l] < f[m]
    <2>1. l \in 1 .. n
      BY <1>1, <1>7
    <2>2. CASE m = n + 1
      BY <1>1, <1>2, <2>1, <2>2
    <2>3. CASE m \in 1 .. n
      BY <1>1, <1>2, <1>7, <2>1, <2>3
    <2> QED BY <1>1, <2>2, <2>3
  <1>8. ASSUME NEW i \in 1 .. k, i \in N, On(N, U, i, k)
        PROVE  \E m \in 1 .. n + 1 : f[m] = i
    <2>1. CASE i = k
      BY <1>1, <1>2, <2>1
    <2>2. CASE i # k
      <3>1. i \in 1 .. k - 1
        BY <2>2
      <3>2. PICK m \in 1 .. n : g[m] = i
        BY <1>1, <1>4, <1>8, <3>1
      <3> QED BY <1>1, <1>2, <3>2
    <2> QED BY <2>1, <2>2
  <1>9. Stack(u, N, U, k, b, f)
    BY <1>2, <1>3, <1>6, <1>7, <1>8 DEF Stack
  <1> QED BY <1>9 DEF b, f

LEMMA StackUp ==
    ASSUME NEW u, NEW N, NEW U, N \cap U = {}, NEW k \in Nat \ {0}, k \in U,
           NEW h \in Seq(Segment), h # <<>>, NEW g, Stack(u, N, U, k - 1, h, g)
    PROVE  Stack(u, N, U, k, Front(h), Front(g))
  <1> DEFINE f == Front(g)
             n == Len(g)
             b == Front(h)
  <1>1. /\ g \in Seq(Nat) /\ n = Len(h)
        /\ \A m \in 1 .. n : g[m] \in 1 .. k - 1 /\ g[m] \in N /\ h[m] = u[g[m]]
        /\ \A m \in 1 .. n : Excess(N, U, g[m], k - 1) = n - m + 1 /\ On(N, U, g[m], k - 1)
        /\ \A l, m \in 1 .. n : l < m => g[l] < g[m]
        /\ \A i \in 1 .. k - 1 : i \in N /\ On(N, U, i, k - 1) => \E m \in 1 .. n : g[m] = i
    BY DEF Stack
  <1>2. Len(b) = n - 1 /\ n \in Nat \ {0} /\ \A m \in 1 .. n - 1 : b[m] = h[m]
    <2>1. /\ Len(Front(h)) = Len(h) - 1 /\ Len(h) \in Nat \ {0}
          /\ \A m \in 1 .. Len(h) - 1 : Front(h)[m] = h[m]
      BY FrontIs
    <2> QED BY <1>1, <2>1
  <1>3. f \in Seq(Nat) /\ Len(f) = n - 1 /\ \A m \in 1 .. n - 1 : f[m] = g[m]
    <2>1. g # <<>>
      BY <1>2, EmptySeq
    <2> QED BY <1>1, <2>1, FrontIs
  <1>4. ASSUME NEW i \in 1 .. k - 1
        PROVE  /\ Excess(N, U, i, k) = Excess(N, U, i, k - 1) - 1 /\ Excess(N, U, i, k - 1) \in Int
               /\ On(N, U, i, k) <=> On(N, U, i, k - 1) /\ Excess(N, U, i, k - 1) > 1
    <2>1. i \in Nat /\ k \in Nat /\ i <= k /\ k - 1 \in i .. (k - 1)
      OBVIOUS
    <2>2. Excess(N, U, i, k) = Excess(N, U, i, k - 1) - 1 /\ Excess(N, U, i, k - 1) \in Int
      BY <2>1, ExcessNext
    <2> QED BY <2>1, <2>2, OnNext DEF On
  <1> HIDE DEF f, n, b
  <1>5. ASSUME NEW m \in 1 .. n - 1
        PROVE  /\ f[m] \in 1 .. k /\ f[m] \in N /\ b[m] = u[f[m]]
               /\ Excess(N, U, f[m], k) = (n - 1) - m + 1 /\ On(N, U, f[m], k)
    <2>1. m \in 1 .. n /\ n \in Nat
      BY <1>2
    <2>2. f[m] = g[m] /\ b[m] = h[m] /\ g[m] \in 1 .. k - 1 /\ g[m] \in N /\ h[m] = u[g[m]]
      BY <1>1, <1>2, <1>3, <2>1
    <2>3. Excess(N, U, g[m], k - 1) = n - m + 1 /\ On(N, U, g[m], k - 1)
      BY <1>1, <2>1
    <2>4. n - m + 1 > 1 /\ n - m + 1 - 1 = (n - 1) - m + 1
      BY <2>1
    <2>5. Excess(N, U, g[m], k) = (n - 1) - m + 1 /\ On(N, U, g[m], k)
      <3>1. /\ Excess(N, U, g[m], k) = Excess(N, U, g[m], k - 1) - 1
            /\ On(N, U, g[m], k) <=> On(N, U, g[m], k - 1) /\ Excess(N, U, g[m], k - 1) > 1
        BY <1>4, <2>2
      <3>2. Excess(N, U, g[m], k) = n - m + 1 - 1 /\ Excess(N, U, g[m], k - 1) > 1
        <4> DEFINE d == Excess(N, U, g[m], k - 1)
                   e == Excess(N, U, g[m], k)
        <4>1. d = n - m + 1 /\ e = d - 1
          BY <2>3, <3>1
        <4> HIDE DEF d, e
        <4>2. e = n - m + 1 - 1 /\ d > 1
          BY <2>1, <2>4, <4>1
        <4> QED BY <4>2 DEF d, e
      <3> QED BY <2>3, <2>4, <3>1, <3>2
    <2>6. g[m] \in 1 .. k
      BY <2>2
    <2> QED BY <2>2, <2>5, <2>6
  <1>6. ASSUME NEW l \in 1 .. n - 1, NEW m \in 1 .. n - 1, l < m PROVE f[l] < f[m]
    <2>1. l \in 1 .. n /\ m \in 1 .. n
      BY <1>2
    <2> QED BY <1>1, <1>3, <1>6, <2>1
  <1>7. ASSUME NEW i \in 1 .. k, i \in N, On(N, U, i, k)
        PROVE  \E m \in 1 .. n - 1 : f[m] = i
    <2>1. i # k /\ i \in 1 .. k - 1
      BY <1>7
    <2>2. On(N, U, i, k - 1) /\ Excess(N, U, i, k - 1) > 1
      BY <1>4, <1>7, <2>1
    <2>3. PICK m \in 1 .. n : g[m] = i
      BY <1>1, <1>7, <2>1, <2>2
    <2>4. Excess(N, U, i, k - 1) = n - m + 1
      BY <1>1, <2>3
    <2>5. m \in 1 .. n - 1
      BY <1>2, <2>2, <2>4
    <2> QED BY <1>3, <2>3, <2>5
  <1>8. Stack(u, N, U, k, b, f)
    BY <1>2, <1>3, <1>5, <1>6, <1>7 DEF Stack
  <1> QED BY <1>8 DEF b, f

LEMMA StackUpNone ==
    ASSUME NEW u, NEW N, NEW U, N \cap U = {}, NEW k \in Nat \ {0}, k \in U,
           NEW g, Stack(u, N, U, k - 1, <<>>, g)
    PROVE  Stack(u, N, U, k, <<>>, g)
  <1>1. /\ g \in Seq(Nat) /\ Len(g) = Len(<<>>)
        /\ \A i \in 1 .. k - 1 : i \in N /\ On(N, U, i, k - 1) => \E m \in 1 .. Len(g) : g[m] = i
    BY DEF Stack
  <1>2. Len(<<>>) = 0 /\ 1 .. Len(g) = {}
    BY <1>1, EmptySeq
  <1>3. ASSUME NEW i \in 1 .. k, i \in N, On(N, U, i, k) PROVE FALSE
    <2>1. i # k /\ i \in 1 .. k - 1 /\ i \in Nat /\ k \in Nat /\ i <= k
      BY <1>3
    <2>2. On(N, U, i, k - 1)
      BY <1>3, <2>1, OnNext
    <2> QED BY <1>1, <1>2, <1>3, <2>1, <2>2
  <1> QED BY <1>1, <1>2, <1>3 DEF Stack

\* What is left of a path is what stands.
LEMMA StackOf ==
    ASSUME NEW u \in Seq(Segment), NEW N, N = {k \in 1 .. Len(u) : ~Blank(u[k]) /\ ~Up(u[k])},
           NEW U, U = {k \in 1 .. Len(u) : Up(u[k])}
    PROVE  \E g : Stack(u, N, U, Len(u), NormalizePath(u), g)
  <1>1. PICK h : NormRun(u, h)
    BY NormRuns
  <1> DEFINE n == Len(u)
             S == {k \in 0 .. n : \E g : Stack(u, N, U, k, h[k], g)}
  <1>2. n \in Nat /\ \A k \in 1 .. n : u[k] \in Segment
    BY ElementOfSeq
  <1>3. /\ h \in [0 .. n -> Seq(Segment)] /\ h[0] = <<>> /\ NormalizePath(u) = h[n]
        /\ \A k \in 1 .. n : h[k] = NormStep(h[k - 1], u[k])
    BY <1>1 DEF NormRun
  <1>4. N \cap U = {}
    OBVIOUS
  <1>5. \A k \in 1 .. n : (k \in N <=> ~Blank(u[k]) /\ ~Up(u[k])) /\ (k \in U <=> Up(u[k]))
    OBVIOUS
  <1> HIDE DEF n
  <1>6. 0 \in S
    <2>1. Stack(u, N, U, 0, <<>>, <<>>)
      <3>1. <<>> \in Seq(Nat) /\ Len(<<>>) = 0 /\ 1 .. 0 = {}
        BY EmptySeq
      <3> QED BY <3>1 DEF Stack
    <2>2. Stack(u, N, U, 0, h[0], <<>>) /\ 0 \in 0 .. n
      BY <1>2, <1>3, <2>1
    <2> QED BY <2>2
  <1>7. ASSUME NEW k \in 1 .. n, k - 1 \in S PROVE k \in S
    <2>1. k \in 0 .. n /\ k - 1 \in 0 .. n /\ k \in Nat \ {0} /\ u[k] \in Segment
      BY <1>2
    <2>2. PICK g : Stack(u, N, U, k - 1, h[k - 1], g)
      BY <1>7
    <2> DEFINE a == h[k - 1]
    <2>3. a \in Seq(Segment) /\ h[k] = NormStep(a, u[k]) /\ Stack(u, N, U, k - 1, a, g)
      BY <1>3, <2>1, <2>2
    <2> HIDE DEF a
    <2>4. CASE Blank(u[k])
      <3>1. h[k] = a /\ ~Up(u[k])
        BY Zenon, <2>1, <2>3, <2>4, Kinds
      <3>2. k \notin N \cup U
        BY <1>5, <2>4, <3>1
      <3>3. Stack(u, N, U, k, a, g)
        BY <1>4, <2>1, <2>3, <3>2, StackBlank
      <3> QED BY <2>1, <3>1, <3>3
    <2>5. CASE Up(u[k])
      <3>1. k \in U
        BY <1>5, <2>5
      <3>2. CASE a = <<>>
        <4>1. h[k] = a
          BY Zenon, <2>1, <2>3, <2>5, <3>2, Kinds
        <4>2. Stack(u, N, U, k, a, g)
          BY <1>4, <2>1, <2>3, <3>1, <3>2, StackUpNone
        <4> QED BY <2>1, <4>1, <4>2
      <3>3. CASE a # <<>>
        <4>1. h[k] = Front(a)
          BY Zenon, <2>1, <2>3, <2>5, <3>3, Kinds
        <4>2. Stack(u, N, U, k, Front(a), Front(g))
          BY <1>4, <2>1, <2>3, <3>1, <3>3, StackUp
        <4> QED BY <2>1, <4>1, <4>2
      <3> QED BY <3>2, <3>3
    <2>6. CASE ~Blank(u[k]) /\ ~Up(u[k])
      <3>1. h[k] = Append(a, u[k])
        BY Zenon, <2>1, <2>3, <2>6, Kinds
      <3>2. k \in N
        BY <1>5, <2>6
      <3>3. Stack(u, N, U, k, Append(a, u[k]), Append(g, k))
        BY <1>4, <2>1, <2>3, <3>2, StackName
      <3> QED BY <2>1, <3>1, <3>3
    <2> QED BY <2>4, <2>5, <2>6
  <1>8. n \in S
    <2> HIDE DEF S
    <2>1. \A k \in 0 .. n : k \in S
      BY <1>2, <1>6, <1>7, UpTo
    <2> QED BY <1>2, <2>1
  <1> QED BY <1>3, <1>8 DEF n

\* What is marked up to a place.
LEMMA MarkedUpTo ==
    ASSUME NEW g \in Seq(Nat), \A l, m \in 1 .. Len(g) : l < m => g[l] < g[m],
           NEW T, \A l \in 1 .. Len(g) : g[l] \in T, \A x \in T : \E l \in 1 .. Len(g) : g[l] = x,
           NEW i \in Nat, NEW m \in 0 .. Len(g),
           \A l \in 1 .. Len(g) : g[l] \in 1 .. i <=> l <= m
    PROVE  Tally(T, 1, i) = m
  <1> DEFINE R == {k \in 1 .. i : k \in T}
             f == [l \in 1 .. m |-> g[l]]
  <1>1. Len(g) \in Nat /\ m \in Nat /\ \A l \in 1 .. m : l \in 1 .. Len(g) /\ l <= m
    OBVIOUS
  <1>2. f \in [1 .. m -> R]
    BY <1>1
  <1>3. \A l \in 1 .. m : f[l] = g[l]
    OBVIOUS
  <1>4. \A x \in R : \E l \in 1 .. m : f[l] = x
    <2> SUFFICES ASSUME NEW x \in R PROVE \E l \in 1 .. m : f[l] = x
      OBVIOUS
    <2>1. PICK l \in 1 .. Len(g) : g[l] = x
      OBVIOUS
    <2>2. l <= m /\ l \in 1 .. m
      <3>1. x \in 1 .. i
        OBVIOUS
      <3>2. l <= m
        BY <2>1, <3>1
      <3> QED BY <1>1, <3>2
    <2> QED BY <1>3, <2>1, <2>2
  <1>5. \A a, b \in 1 .. m : f[a] = f[b] => a = b
    <2> SUFFICES ASSUME NEW a \in 1 .. m, NEW b \in 1 .. m, f[a] = f[b] PROVE a = b
      OBVIOUS
    <2>1. a \in 1 .. Len(g) /\ b \in 1 .. Len(g) /\ g[a] = g[b] /\ g[a] \in Nat
      BY <1>1, <1>3, ElementOfSeq
    <2>2. ~(a < b) /\ ~(b < a)
      BY <2>1
    <2> QED BY <2>2
  <1> HIDE DEF f, R
  <1>6. f \in Bijection(1 .. m, R)
    BY <1>2, <1>4, <1>5 DEF Bijection, Injection, Surjection, IsInjective
  <1>7. ExistsBijection(1 .. m, R)
    BY <1>6 DEF ExistsBijection
  <1>8. IsFiniteSet(1 .. m) /\ Cardinality(1 .. m) = m
    BY <1>1, FS_Interval
  <1>9. Cardinality(R) = m
    BY <1>7, <1>8, FS_Bijection
  <1> QED BY <1>9 DEF R, Tally

\* The property, of any uri.
Names(u, i, j) == Cardinality({k \in i .. j : u[k] \notin {"", ".", ".."}})
Ups(u, i, j) == Cardinality({k \in i .. j : u[k] = ".."})
Stands(u, i) == /\ u[i] \notin {"", ".", ".."}
                /\ \A j \in i .. Len(u) : Ups(u, i, j) < Names(u, i, j)
Kept(u, i) == Cardinality({k \in 1 .. i : Stands(u, k)})
Keeps(u) == /\ Len(NormalizePath(u)) = Kept(u, Len(u))
            /\ \A i \in 1 .. Len(u) : Stands(u, i) => NormalizePath(u)[Kept(u, i)] = u[i]

LEMMA Counted ==
    ASSUME NEW u \in Seq(Segment), NEW N, N = {k \in 1 .. Len(u) : ~Blank(u[k]) /\ ~Up(u[k])},
           NEW U, U = {k \in 1 .. Len(u) : Up(u[k])}, NEW i \in 1 .. Len(u)
    PROVE  Stands(u, i) <=> i \in N /\ On(N, U, i, Len(u))
  <1> DEFINE n == Len(u)
             IsName(s) == ~Blank(s) /\ ~Up(s)
  <1>1. \A s : (s \notin {"", ".", ".."} <=> IsName(s)) /\ (s = ".." <=> Up(s))
    BY Zenon DEF Blank, Up
  <1>2. Stands(u, i) <=> /\ IsName(u[i])
                         /\ \A j \in i .. n : Cardinality({k \in i .. j : Up(u[k])})
                                              < Cardinality({k \in i .. j : IsName(u[k])})
    BY Zenon, <1>1 DEF Stands, Ups, Names
  <1> HIDE DEF IsName
  <1>3. \A k \in 1 .. n : (k \in N <=> IsName(u[k])) /\ (k \in U <=> Up(u[k]))
    BY DEF IsName
  <1> HIDE DEF n
  <1>4. n \in Nat /\ i \in 1 .. n
    BY DEF n
  <1>5. ASSUME NEW j \in i .. n
        PROVE  /\ {k \in i .. j : Up(u[k])} = {k \in i .. j : k \in U}
               /\ {k \in i .. j : IsName(u[k])} = {k \in i .. j : k \in N}
               /\ Tally(U, i, j) < Tally(N, i, j) <=> Excess(N, U, i, j) > 0
    <2>1. \A k \in i .. j : k \in 1 .. n
      BY <1>4
    <2>2. i \in Nat /\ j \in Nat /\ i <= j
      BY <1>4
    <2>3. Tally(U, i, j) \in Nat /\ Tally(N, i, j) \in Nat
      BY <2>2, TallyNext
    <2> QED BY <1>3, <2>1, <2>3 DEF Excess
  <1>6. Stands(u, i) <=> IsName(u[i]) /\ \A j \in i .. n : Tally(U, i, j) < Tally(N, i, j)
    BY Zenon, <1>2, <1>5 DEF Tally
  <1> QED BY <1>3, <1>4, <1>5, <1>6 DEF On, n

LEMMA KeepsWhatStands ==
    ASSUME NEW u \in Seq(Segment)
    PROVE  Keeps(u)
  <1> DEFINE n == Len(u)
             N == {k \in 1 .. n : ~Blank(u[k]) /\ ~Up(u[k])}
             U == {k \in 1 .. n : Up(u[k])}
             h == NormalizePath(u)
             T == {k \in 1 .. n : k \in N /\ On(N, U, k, n)}
  <1>1. PICK g : Stack(u, N, U, n, h, g)
    BY StackOf
  <1>2. \A i \in 1 .. n : Stands(u, i) <=> i \in T
    <2>1. \A i \in 1 .. n : Stands(u, i) <=> i \in N /\ On(N, U, i, n)
      BY Counted
    <2> HIDE DEF N, U
    <2> QED BY <2>1
  <1>3. n \in Nat
    OBVIOUS
  <1>4. /\ g \in Seq(Nat) /\ Len(g) = Len(h)
        /\ \A m \in 1 .. Len(g) : g[m] \in 1 .. n /\ g[m] \in T /\ h[m] = u[g[m]]
        /\ \A l, m \in 1 .. Len(g) : l < m => g[l] < g[m]
        /\ \A i \in T : \E m \in 1 .. Len(g) : g[m] = i
    <2> HIDE DEF n, N, U, h
    <2> QED BY <1>1 DEF Stack
  <1> HIDE DEF n, T, h
  <1>5. ASSUME NEW i \in 0 .. n PROVE Kept(u, i) = Tally(T, 1, i)
    <2>1. \A k \in 1 .. i : k \in 1 .. n
      BY <1>3
    <2>2. {k \in 1 .. i : Stands(u, k)} = {k \in 1 .. i : k \in T}
      BY <1>2, <2>1
    <2> QED BY Zenon, <2>2 DEF Kept, Tally
  <1>6. Kept(u, n) = Len(h)
    <2>1. \A l \in 1 .. Len(g) : g[l] \in 1 .. n <=> l <= Len(g)
      BY <1>4
    <2>2. Len(g) \in 0 .. Len(g) /\ n \in 0 .. n
      BY <1>3, <1>4
    <2>3. Tally(T, 1, n) = Len(g)
      BY ZenonT(40), <1>3, <1>4, <2>1, <2>2, MarkedUpTo
    <2> QED BY <1>4, <1>5, <2>2, <2>3
  <1>7. ASSUME NEW i \in 1 .. n, Stands(u, i) PROVE h[Kept(u, i)] = u[i]
    <2>1. i \in T /\ i \in 0 .. n /\ i \in Nat
      BY <1>2, <1>3, <1>7
    <2>2. PICK m \in 1 .. Len(g) : g[m] = i
      BY <1>4, <2>1
    <2>3. \A l \in 1 .. Len(g) : g[l] \in 1 .. i <=> l <= m
      <3> SUFFICES ASSUME NEW l \in 1 .. Len(g) PROVE g[l] \in 1 .. i <=> l <= m
        OBVIOUS
      <3>1. g[l] \in 1 .. n /\ (l < m => g[l] < g[m]) /\ (m < l => g[m] < g[l]) /\ l \in Nat /\ m \in Nat
        BY <1>4
      <3> QED BY <1>3, <2>2, <3>1
    <2>4. m \in 0 .. Len(g)
      BY <1>4
    <2>5. Tally(T, 1, i) = m
      BY <1>4, <2>1, <2>3, <2>4, MarkedUpTo
    <2> QED BY <1>4, <1>5, <2>1, <2>2, <2>5
  <1> QED BY <1>6, <1>7 DEF Keeps, n, h

LEMMA NormalIsRight == IInv => NormalKeepsWhatStands
  <1> SUFFICES ASSUME IInv PROVE NormalKeepsWhatStands
    OBVIOUS
  <1>1. NormalKeepsWhatStands <=> Keeps(last.uri)
    BY Zenon DEF NormalKeepsWhatStands, Keeps, Kept, Stands, Names, Ups
  <1>2. last.uri \in Seq(Segment)
    <2>1. CASE Asked
      BY <2>1, Known
    <2>2. CASE ~Asked
      <3>1. last = Nothing
        BY <2>2 DEF Asked
      <3>2. Nothing.uri = <<NoText>>
        BY Zenon DEF Nothing, NoText
      <3>3. NoText \in Segment
        BY Zenon DEF NoText, Segment
      <3>4. <<NoText>> \in Seq(Segment)
        BY <3>3, Singleton
      <3> QED BY <3>1, <3>2, <3>4
    <2> QED BY <2>1, <2>2
  <1> QED BY <1>1, <1>2, KeepsWhatStands

\* Of a uri of any length and any mixture of names, "." and "..", exactly what
\* no later ".." takes back is left, in its order (normalizePath).
THEOREM KeepsNames == Spec => []NormalKeepsWhatStands
  BY InvariantHolds, NormalIsRight, PTL

=============================================================================
