------------------------- MODULE BotDetectionProofs -------------------------
(***************************************************************************)
(* Proofs about BotDetection for every configuration, cap, set of gaps and *)
(* number of requests.  The loops that keep and add up are recursive       *)
(* functions, which are unfolded turn by turn (UpTo); of the sums only     *)
(* their bounds are needed, never their value.                             *)
(***************************************************************************)
EXTENDS BotDetection, FiniteSetTheorems, SequenceTheorems, TLAPS

Ordered(r) == \A i, j \in 1 .. Len(r) : i <= j => r[i].at <= r[j].at

\* Requests come in the order of the clock.
Chronicle ==
    /\ sent \in Seq(Sample) /\ now \in Nat
    /\ Ordered(sent)
    /\ \A i \in 1 .. Len(sent) : sent[i].at <= now

\* s is what is left of all requests r at time t once the first k are gone:
\* each of those for a reason, none of the others without one.
Cut(s, r, t, k) ==
    /\ s = SubSeq(r, k + 1, Len(r)) /\ Len(r) - k <= MaxSamples
    /\ \A i \in 1 .. k : t - r[i].at > Retention \/ Len(r) - i >= MaxSamples
    /\ \A i \in k + 1 .. Len(r) : t - r[i].at <= Retention

Analysis == [score: Scores, rpm: Nat]

IInv ==
    /\ Chronicle /\ analysis \in Analysis
    /\ \E k \in 0 .. Len(sent) : Cut(samples, sent, now, k)
    /\ sent = <<>> => analysis.score = "CLEAN"
    /\ sent # <<>> => sent[Len(sent)].at = now /\ analysis = AnalyzeRequest(samples, now)

-----------------------------------------------------------------------------
(* The operators.                                                          *)

\* The times, in units of the clock.
LEMMA TimesAre ==
    /\ {Minute, Lookback, Retention, UltraFast} \subseteq Nat
    /\ 0 < Minute /\ Minute <= Lookback /\ Lookback <= Retention
  <1>1. Resolution \in Nat /\ Resolution > 0
    BY BotAssumption
  <1> QED BY <1>1 DEF Minute, Lookback, Retention, UltraFast

\* Counting a set of positions that has no gap finds its end.
LEMMA Prefix ==
    ASSUME NEW n \in Nat, NEW D \in SUBSET (1 .. n), \A i \in D : \A j \in 1 .. i : j \in D
    PROVE  LET c == Cardinality(D) IN c \in 0 .. n /\ D = 1 .. c
  <1> DEFINE c == Cardinality(D)
  <1>1. IsFiniteSet(1 .. n) /\ Cardinality(1 .. n) = n
    BY FS_Interval
  <1>2. IsFiniteSet(D) /\ c \in Nat /\ c <= n
    BY ZenonT(40), <1>1, FS_Subset, FS_CardinalityType
  <1>3. IsFiniteSet(1 .. c) /\ Cardinality(1 .. c) = c
    BY <1>2, FS_Interval
  <1>4. ASSUME NEW i \in D PROVE i <= c
    <2>1. i \in Nat /\ 1 .. i \subseteq D
      OBVIOUS
    <2>2. Cardinality(1 .. i) = i
      BY <2>1, FS_Interval
    <2> QED BY <1>2, <2>1, <2>2, FS_Subset
  <1>5. D \subseteq 1 .. c
    BY <1>4
  <1>6. D = 1 .. c
    BY <1>3, <1>5, FS_Subset
  <1> QED BY <1>2, <1>6

LEMMA NewestIs ==
    ASSUME NEW s \in Seq(Sample), NEW n \in Nat
    PROVE  LET d == IF Len(s) <= n THEN 0 ELSE Len(s) - n
           IN  d \in 0 .. Len(s) /\ Newest(s, n) = SubSeq(s, d + 1, Len(s))
  <1>1. Len(s) \in Nat /\ s = SubSeq(s, 0 + 1, Len(s))
    BY SubSeqFull
  <1> DEFINE d == IF Len(s) <= n THEN 0 ELSE Len(s) - n
  <1>2. d \in 0 .. Len(s)
    BY <1>1
  <1>3. CASE Len(s) <= n
    <2>1. d = 0 /\ Newest(s, n) = s
      BY <1>3 DEF Newest
    <2> QED BY <1>1, <1>2, <2>1
  <1>4. CASE ~(Len(s) <= n)
    <2>1. d = Len(s) - n /\ Newest(s, n) = SubSeq(s, Len(s) - n + 1, Len(s))
      BY <1>4 DEF Newest
    <2> QED BY <1>2, <2>1
  <1> QED BY <1>3, <1>4

LEMMA Suffix ==
    ASSUME NEW s \in Seq(Sample), NEW k \in 0 .. Len(s)
    PROVE  LET u == SubSeq(s, k + 1, Len(s))
           IN  /\ u \in Seq(Sample) /\ Len(u) = Len(s) - k
               /\ \A i \in 1 .. Len(s) - k : u[i] = s[k + i]
  <1> DEFINE u == SubSeq(s, k + 1, Len(s))
  <1>1. Len(s) \in Nat /\ k \in Nat /\ k <= Len(s)
    OBVIOUS
  <1>2. k + 1 \in 1 .. Len(s) + 1 /\ Len(s) \in k + 1 - 1 .. Len(s)
    BY <1>1
  <1>3. /\ u \in Seq(Sample) /\ Len(u) = Len(s) - k
        /\ \A i \in 1 .. Len(s) - k : u[i] = s[(k + 1) + i - 1]
    BY <1>1, <1>2, SubSeqProperties
  <1> HIDE DEF u
  <1>4. \A i \in 1 .. Len(s) - k : (k + 1) + i - 1 = k + i
    BY <1>1
  <1> QED BY <1>3, <1>4 DEF u

LEMMA SuffixOfSuffix ==
    ASSUME NEW s \in Seq(Sample), NEW k \in 0 .. Len(s), NEW m \in 0 .. Len(s) - k
    PROVE  LET u == SubSeq(s, k + 1, Len(s))
           IN  SubSeq(u, m + 1, Len(u)) = SubSeq(s, k + m + 1, Len(s))
  <1> DEFINE u == SubSeq(s, k + 1, Len(s))
             v == SubSeq(u, m + 1, Len(u))
             w == SubSeq(s, k + m + 1, Len(s))
  <1>1. /\ u \in Seq(Sample) /\ Len(u) = Len(s) - k
        /\ \A i \in 1 .. Len(s) - k : u[i] = s[k + i]
    BY Suffix
  <1>2. k + m \in 0 .. Len(s) /\ m \in 0 .. Len(u) /\ Len(s) \in Nat
    BY <1>1
  <1> HIDE DEF u
  <1>3. /\ v \in Seq(Sample) /\ Len(v) = Len(u) - m
        /\ \A i \in 1 .. Len(u) - m : v[i] = u[m + i]
    BY <1>1, <1>2, Suffix
  <1>4. /\ w \in Seq(Sample) /\ Len(w) = Len(s) - (k + m)
        /\ \A i \in 1 .. Len(s) - (k + m) : w[i] = s[(k + m) + i]
    BY <1>2, Suffix
  <1> HIDE DEF v, w
  <1>5. Len(v) = Len(w) /\ \A i \in 1 .. Len(w) : v[i] = w[i]
    BY <1>1, <1>2, <1>3, <1>4
  <1>6. v = w
    BY <1>3, <1>4, <1>5, SeqEqual
  <1> QED BY <1>6 DEF u, v, w

\* A request more, and the history is still cut where it should be.
LEMMA TrimCuts ==
    ASSUME NEW r \in Seq(Sample), NEW x \in Sample, NEW c \in Nat, NEW t \in Nat, c <= t,
           Ordered(Append(r, x)), NEW h, NEW k \in 0 .. Len(r), Cut(h, r, c, k)
    PROVE  \E m \in 0 .. Len(Append(r, x)) : Cut(Trim(Append(h, x), t), Append(r, x), t, m)
  <1> DEFINE q == Append(r, x)
             n == Len(r)
  <1>13. q \in Seq(Sample) /\ q = Append(r, x) /\ n \in Nat /\ n = Len(r) /\ k \in 0 .. n
    OBVIOUS
  <1>14. Ordered(q)
    OBVIOUS
  <1> HIDE DEF q, n
  <1> DEFINE s == Append(h, x)
             old == {i \in DOMAIN s : \A j \in 1 .. i : t - s[j].at > Retention}
             o == Cardinality(old)
             u == SubSeq(s, o + 1, Len(s))
             d == IF Len(u) <= MaxSamples THEN 0 ELSE Len(u) - MaxSamples
             m == k + o + d
  <1>1. /\ r \in Seq(Sample) /\ q \in Seq(Sample) /\ n \in Nat /\ Len(q) = n + 1
        /\ k \in Nat /\ k <= n /\ MaxSamples \in Nat /\ MaxSamples > 0
        /\ q[n + 1] = x /\ \A i \in 1 .. n : q[i] = r[i]
    BY <1>13, BotAssumption
  <1>12. /\ \A i \in 1 .. n : r[i].at \in Nat
        /\ \A i \in 1 .. n + 1 : q[i].at \in Nat
    <2>1. (\A i \in 1 .. n : r[i] \in Sample) /\ (\A i \in 1 .. n + 1 : q[i] \in Sample)
      BY <1>1
    <2>2. \A y \in Sample : y.at \in Nat
      BY DEF Sample
    <2> QED BY <2>1, <2>2
  <1>2. /\ h \in Seq(Sample) /\ Len(h) = n - k
        /\ \A i \in 1 .. n - k : h[i] = r[k + i]
    BY <1>1, <1>13, Suffix DEF Cut
  <1>3. /\ s \in Seq(Sample) /\ Len(s) = n + 1 - k
        /\ \A i \in 1 .. n + 1 - k : s[i] = q[k + i]
    <2>1. /\ s \in Seq(Sample) /\ Len(s) = Len(h) + 1 /\ s[Len(h) + 1] = x
          /\ \A i \in 1 .. Len(h) : s[i] = h[i]
      BY SMTT(30), <1>2
    <2> HIDE DEF s
    <2>2. \A i \in 1 .. n + 1 - k : s[i] = q[k + i]
      <3> SUFFICES ASSUME NEW i \in 1 .. n + 1 - k PROVE s[i] = q[k + i]
        OBVIOUS
      <3>1. CASE i = n - k + 1
        <4>1. k + i = n + 1
          BY <1>1, <3>1
        <4> QED BY <1>1, <1>2, <2>1, <3>1, <4>1
      <3>2. CASE i \in 1 .. n - k
        <4>1. k + i \in 1 .. n
          BY <1>1, <3>2
        <4> QED BY <1>1, <1>2, <2>1, <3>2, <4>1
      <3> QED BY <1>1, <3>1, <3>2
    <2> QED BY <1>1, <1>2, <2>1, <2>2
  <1>4. s = SubSeq(q, k + 1, Len(q))
    <2>1. k \in 0 .. Len(q)
      BY <1>1
    <2> DEFINE w == SubSeq(q, k + 1, Len(q))
    <2>2. /\ w \in Seq(Sample) /\ Len(w) = Len(q) - k
          /\ \A i \in 1 .. Len(q) - k : w[i] = q[k + i]
      BY <1>1, <2>1, Suffix
    <2> HIDE DEF w, s
    <2>3. Len(s) = Len(w) /\ \A i \in 1 .. Len(s) : s[i] = w[i]
      <3>1. Len(q) - k = n + 1 - k
        BY <1>1
      <3> QED BY <1>3, <2>2, <3>1
    <2>4. s = w
      BY <1>3, <2>2, <2>3, SeqEqual
    <2> QED BY <2>4 DEF w
  <1>5. o \in 0 .. n + 1 - k /\ old = 1 .. o
    <2>1. n + 1 - k \in Nat /\ DOMAIN s = 1 .. n + 1 - k
      BY <1>1, <1>3
    <2> HIDE DEF s
    <2>2. old \in SUBSET (1 .. n + 1 - k) /\ \A i \in old : \A j \in 1 .. i : j \in old
      BY <2>1
    <2> HIDE DEF old
    <2> QED BY <2>1, <2>2, Prefix
  <1>6. /\ u \in Seq(Sample) /\ Len(u) = n + 1 - k - o
        /\ u = SubSeq(q, k + o + 1, Len(q))
    <2>1. k \in 0 .. Len(q) /\ o \in 0 .. Len(q) - k /\ o \in 0 .. Len(s)
      <3> HIDE DEF o, s
      <3> QED BY <1>1, <1>3, <1>5
    <2>2. u = SubSeq(q, k + o + 1, Len(q))
      <3> HIDE DEF o
      <3> QED BY <1>1, <1>4, <2>1, SuffixOfSuffix
    <2>3. u \in Seq(Sample) /\ Len(u) = Len(s) - o
      <3> HIDE DEF o, s
      <3> QED BY <1>3, <2>1, Suffix
    <2> HIDE DEF u, s, o
    <2> QED BY <1>1, <1>3, <1>5, <2>2, <2>3
  <1>7. /\ d \in 0 .. Len(u) /\ Trim(s, t) = SubSeq(u, d + 1, Len(u))
        /\ Len(u) - d <= MaxSamples /\ (d = 0 \/ Len(u) - d = MaxSamples)
    <2>1. Trim(s, t) = Newest(u, MaxSamples)
      BY DEF Trim
    <2> HIDE DEF u
    <2>2. d \in 0 .. Len(u) /\ Newest(u, MaxSamples) = SubSeq(u, d + 1, Len(u))
      BY <1>1, <1>6, NewestIs
    <2>3. Len(u) - d <= MaxSamples /\ (d = 0 \/ Len(u) - d = MaxSamples)
      <3>1. Len(u) \in Nat
        <4> HIDE DEF u, o
        <4> QED BY <1>1, <1>5, <1>6
      <3> QED BY <1>1, <3>1
    <2> QED BY <2>1, <2>2, <2>3
  <1>8. /\ m \in 0 .. Len(q) /\ Len(q) - m <= MaxSamples
        /\ Trim(s, t) = SubSeq(q, m + 1, Len(q))
    <2> HIDE DEF u, o, s
    <2> HIDE DEF d
    <2>1. k + o \in 0 .. Len(q) /\ d \in 0 .. Len(q) - (k + o)
      BY <1>1, <1>5, <1>6, <1>7
    <2>2. SubSeq(u, d + 1, Len(u)) = SubSeq(q, m + 1, Len(q))
      <3> QED BY <1>1, <1>6, <2>1, SuffixOfSuffix
    <2>3. Len(q) - m <= MaxSamples
      BY <1>1, <1>5, <1>6, <1>7
    <2>4. m \in 0 .. Len(q)
      BY <1>1, <1>5, <1>6, <1>7
    <2> HIDE DEF m
    <2> QED BY <1>7, <2>2, <2>3, <2>4
  <1>9. \A i \in 1 .. m : t - q[i].at > Retention \/ Len(q) - i >= MaxSamples
    <2> SUFFICES ASSUME NEW i \in 1 .. m
                 PROVE  t - q[i].at > Retention \/ Len(q) - i >= MaxSamples
      OBVIOUS
    <2> HIDE DEF u, o, s, d
    <2>1. CASE i \in 1 .. k
      <3>1. i \in 1 .. n /\ q[i] = r[i] /\ r[i].at \in Nat /\ c \in Nat /\ t \in Nat
        BY <1>1, <1>12, <2>1
      <3>2. c - r[i].at > Retention \/ n - i >= MaxSamples
        BY <1>13, <2>1 DEF Cut
      <3> DEFINE a == r[i].at
      <3>3. a \in Nat /\ c \in Nat /\ t \in Nat /\ c <= t /\ (c - a > Retention \/ n - i >= MaxSamples)
        BY <3>1, <3>2
      <3>4. q[i].at = a /\ Len(q) = n + 1 /\ i \in Nat
        BY <1>1, <3>1
      <3> HIDE DEF a
      <3>5. t - a > Retention \/ (n + 1) - i >= MaxSamples
        BY <1>1, <3>3, <3>4, TimesAre
      <3> QED BY <3>4, <3>5
    <2>2. CASE i \in k + 1 .. k + o
      <3>1. i - k \in 1 .. o
        BY <1>1, <1>5, <2>2
      <3>2. i - k \in old
        BY <1>5, <3>1
      <3>3. t - s[i - k].at > Retention
        BY <1>1, <3>1, <3>2
      <3>4. s[i - k] = q[i]
        <4>1. i - k \in 1 .. n + 1 - k /\ k + (i - k) = i
          BY <1>1, <1>5, <3>1
        <4> QED BY <1>3, <4>1
      <3> QED BY <3>3, <3>4
    <2>3. CASE i > k + o
      BY <1>1, <1>5, <1>6, <1>7, <2>3
    <2>4. i \in 1 .. k \/ i \in k + 1 .. k + o \/ i > k + o
      BY <1>1, <1>5, <1>6, <1>7
    <2> QED BY <2>1, <2>2, <2>3, <2>4
  <1>10. \A i \in m + 1 .. Len(q) : t - q[i].at <= Retention
    <2> SUFFICES ASSUME NEW i \in m + 1 .. Len(q)
                 PROVE  t - q[i].at <= Retention
      OBVIOUS
    <2> HIDE DEF u, o, s, d
    <2>1. /\ i - k \in 1 .. n + 1 - k /\ i - k \notin 1 .. o /\ i \in Nat /\ i - k \in Nat
          /\ o \in Nat /\ o < n + 1 - k
      BY <1>1, <1>5, <1>6, <1>7
    <2>2. i - k \notin old
      BY <1>5, <2>1
    <2>3. DOMAIN s = 1 .. n + 1 - k
      BY <1>1, <1>3
    <2>4. PICK j \in 1 .. i - k : ~(t - s[j].at > Retention)
      BY <2>1, <2>2, <2>3
    <2>5. /\ j \in 1 .. n + 1 - k /\ k + j \in 1 .. n + 1 /\ i \in 1 .. n + 1 /\ k + j <= i
      BY <1>1, <2>1
    <2>6. s[j] = q[k + j]
      BY <1>3, <2>5
    <2>7. q[k + j].at <= q[i].at
      BY <1>1, <1>14, <2>5 DEF Ordered
    <2>8. q[k + j].at \in Nat /\ q[i].at \in Nat /\ t \in Nat
      BY <1>1, <1>12, <2>5
    <2> HIDE DEF m
    <2>9. ~(t - q[k + j].at > Retention)
      BY <2>4, <2>6
    <2> DEFINE a == q[k + j].at
               b == q[i].at
    <2>10. a <= b /\ a \in Nat /\ b \in Nat /\ ~(t - a > Retention)
      BY <2>7, <2>8, <2>9
    <2> HIDE DEF a, b
    <2>11. t - b <= Retention
      BY <2>8, <2>10, TimesAre
    <2> QED BY <2>11 DEF b
  <1> HIDE DEF m, s
  <1>11. Cut(Trim(s, t), q, t, m)
    BY <1>8, <1>9, <1>10 DEF Cut
  <1> QED BY <1>8, <1>11 DEF s, q

LEMMA AnalysisIs ==
    ASSUME NEW s \in Seq(Sample), NEW t \in Nat
    PROVE  /\ AnalyzeRequest(s, t) \in Analysis
           /\ AnalyzeRequest(s, t).rpm = InLastMinute(s, t)
           /\ InLastMinute(s, t) > Config.max_requests_per_minute
                => AnalyzeRequest(s, t).score = "BLOCKED"
  <1>1. InLastMinute(s, t) \in Nat
    <2> DEFINE C == {i \in DOMAIN s : /\ s[i].kind # "ASSET"
                                      /\ s[i].at <= t /\ t - s[i].at <= Minute}
    <2>1. IsFiniteSet(1 .. Len(s))
      BY FS_Interval
    <2>2. C \subseteq 1 .. Len(s)
      OBVIOUS
    <2>3. Cardinality(C) \in Nat
      <3> HIDE DEF C
      <3> QED BY <2>1, <2>2, FS_Subset, FS_CardinalityType
    <2> QED BY <2>3 DEF InLastMinute
  <1> DEFINE points == Points(s, t)
             rpm == InLastMinute(s, t)
             score == IF rpm > Config.max_requests_per_minute \/ points >= 50 THEN "BLOCKED"
                      ELSE IF points >= 25 THEN "SUSPICIOUS" ELSE "CLEAN"
  <1>2. AnalyzeRequest(s, t) = [rpm |-> rpm, score |-> score]
    BY DEF AnalyzeRequest
  <1> HIDE DEF points, rpm
  <1>3. score \in Scores /\ (rpm > Config.max_requests_per_minute => score = "BLOCKED")
    BY DEF Scores
  <1> HIDE DEF score
  <1> QED BY <1>1, <1>2, <1>3 DEF Analysis, rpm

-----------------------------------------------------------------------------
(* Loops.                                                                  *)

\* What holds at first and after each turn holds at last.
LEMMA UpTo ==
    ASSUME NEW n \in Nat, NEW S, 0 \in S, \A k \in 1 .. n : k - 1 \in S => k \in S
    PROVE  \A k \in 0 .. n : k \in S
  <1> DEFINE D == {k \in 1 .. n : \A j \in 1 .. k : j \in S}
             c == Cardinality(D)
  <1>1. D \in SUBSET (1 .. n) /\ \A i \in D : \A j \in 1 .. i : j \in D
    OBVIOUS
  <1>2. c \in 0 .. n /\ D = 1 .. c
    <2> HIDE DEF D
    <2> QED BY <1>1, Prefix
  <1>3. \A j \in 0 .. c : j \in S
    <2> HIDE DEF c
    <2>1. \A j \in 1 .. c : j \in S
      BY <1>2
    <2> QED BY <1>2, <2>1
  <1>4. c = n
    <2> HIDE DEF c
    <2> SUFFICES ASSUME c + 1 \in 1 .. n PROVE FALSE
      BY <1>2
    <2>1. c + 1 \in S
      <3>1. (c + 1) - 1 = c
        BY <1>2
      <3> QED BY <1>2, <1>3, <3>1
    <2>2. \A j \in 1 .. c + 1 : j \in S
      BY <1>2, <1>3, <2>1
    <2>3. c + 1 \in D
      BY <2>2
    <2> QED BY <1>2, <2>3
  <1> QED BY <1>3, <1>4

\* A loop of n turns has a value in V after each of them: F gives the next one.
Loops(V, base, F, n) ==
    \E h \in [0 .. n -> V] : h[0] = base /\ \A k \in 1 .. n : h[k] = F[<<h[k - 1], k>>]

LEMMA LoopExists ==
    ASSUME NEW V, NEW base \in V, NEW n \in Nat, NEW F \in [V \X (1 .. n) -> V]
    PROVE  Loops(V, base, F, n)
  <1> DEFINE Good(m) == Loops(V, base, F, m)
             S == {m \in 0 .. n : Good(m)}
  <1>1. Good(0)
    <2> DEFINE h == [k \in 0 .. 0 |-> base]
    <2>1. h \in [0 .. 0 -> V] /\ h[0] = base /\ 1 .. 0 = {}
      OBVIOUS
    <2> QED BY <2>1 DEF Loops
  <1>2. ASSUME NEW m \in 1 .. n, Good(m - 1) PROVE Good(m)
    <2>1. PICK h \in [0 .. m - 1 -> V] :
             h[0] = base /\ \A k \in 1 .. m - 1 : h[k] = F[<<h[k - 1], k>>]
      BY <1>2 DEF Loops
    <2> DEFINE e == [k \in 0 .. m |-> IF k = m THEN F[<<h[m - 1], m>>] ELSE h[k]]
    <2>2. m \in Nat /\ m - 1 \in 0 .. m - 1 /\ h[m - 1] \in V /\ F[<<h[m - 1], m>>] \in V
      OBVIOUS
    <2>3. \A k \in 0 .. m - 1 : e[k] = h[k] /\ k \in 0 .. m
      BY <2>2
    <2>4. e[m] = F[<<h[m - 1], m>>] /\ e \in [0 .. m -> V]
      BY <2>2
    <2> HIDE DEF e
    <2>5. ASSUME NEW k \in 1 .. m PROVE e[k] = F[<<e[k - 1], k>>]
      <3>1. k - 1 \in 0 .. m - 1 /\ e[k - 1] = h[k - 1]
        BY <2>2, <2>3
      <3>2. CASE k = m
        BY <2>4, <3>1, <3>2
      <3>3. CASE k # m
        <4>1. k \in 1 .. m - 1 /\ k \in 0 .. m - 1
          BY <2>2, <3>3
        <4> QED BY <2>1, <2>3, <3>1, <4>1
      <3> QED BY <3>2, <3>3
    <2>6. e[0] = base
      <3>1. 0 \in 0 .. m - 1
        BY <2>2
      <3> QED BY <2>1, <2>3, <3>1
    <2> QED BY <2>4, <2>5, <2>6 DEF Loops
  <1> HIDE DEF Good
  <1>3. 0 \in S /\ \A k \in 1 .. n : k - 1 \in S => k \in S
    BY <1>1, <1>2
  <1>4. n \in S
    <2> HIDE DEF S
    <2>1. \A k \in 0 .. n : k \in S
      BY <1>3, UpTo
    <2> QED BY <2>1
  <1> QED BY <1>4 DEF Good

Adds(v, n, u) == u = [i \in 0 .. n |-> IF i = 0 THEN 0 ELSE u[i - 1] + v[i]]

\* total is what adding up the n elements of v comes to.
SumsTo(v, n, total) ==
    \E h \in [0 .. n -> Int] :
        h[0] = 0 /\ (\A k \in 1 .. n : h[k] = h[k - 1] + v[k]) /\ total = h[n]

LEMMA TotalIs ==
    ASSUME NEW v \in Seq(Int)
    PROVE  SumsTo(v, Len(v), Total(v))
  <1> DEFINE n == Len(v)
             F == [a \in Int \X (1 .. n) |-> a[1] + v[a[2]]]
             u == CHOOSE h : Adds(v, n, h)
  <1>1. n \in Nat /\ \A k \in 1 .. n : v[k] \in Int
    OBVIOUS
  <1>2. Total(v) = u[n]
    BY DEF Total, Adds
  <1> HIDE DEF n
  <1>3. F \in [Int \X (1 .. n) -> Int] /\ \A x \in Int, k \in 1 .. n : F[<<x, k>>] = x + v[k]
    BY <1>1
  <1> HIDE DEF F
  <1>4. PICK h \in [0 .. n -> Int] : h[0] = 0 /\ \A k \in 1 .. n : h[k] = F[<<h[k - 1], k>>]
    <2>1. 0 \in Int
      OBVIOUS
    <2>2. Loops(Int, 0, F, n)
      BY Zenon, <1>1, <1>3, <2>1, LoopExists
    <2> QED BY <2>2 DEF Loops
  <1>5. \A k \in 1 .. n : k - 1 \in 0 .. n /\ k \in 0 .. n /\ k # 0
    BY <1>1
  <1>6. Adds(v, n, h)
    <2>1. \A k \in 0 .. n : k = 0 \/ k \in 1 .. n
      BY <1>1
    <2>2. \A k \in 0 .. n : h[k] = IF k = 0 THEN 0 ELSE h[k - 1] + v[k]
      BY <1>3, <1>4, <1>5, <2>1
    <2> DEFINE g == [i \in 0 .. n |-> IF i = 0 THEN 0 ELSE h[i - 1] + v[i]]
    <2>3. \A k \in 0 .. n : h[k] = g[k]
      BY <2>2
    <2>4. h = g
      BY <1>4, <2>3
    <2> QED BY <2>4 DEF Adds
  <1>7. Adds(v, n, u)
    BY <1>6
  <1> HIDE DEF u
  <1>8. u[0] = 0 /\ \A k \in 1 .. n : u[k] = u[k - 1] + v[k]
    <2> DEFINE g == [i \in 0 .. n |-> IF i = 0 THEN 0 ELSE u[i - 1] + v[i]]
    <2>1. u = g
      BY <1>7 DEF Adds
    <2>2. g[0] = 0 /\ \A k \in 1 .. n : g[k] = u[k - 1] + v[k]
      BY <1>1, <1>5
    <2> HIDE DEF g
    <2> QED BY <2>1, <2>2
  <1> DEFINE S == {k \in 0 .. n : u[k] \in Int}
  <1>9. \A k \in 0 .. n : u[k] \in Int
    <2>1. 0 \in S
      BY <1>1, <1>8
    <2>2. ASSUME NEW k \in 1 .. n, k - 1 \in S PROVE k \in S
      <3>1. u[k - 1] \in Int /\ v[k] \in Int
        BY <1>1, <2>2
      <3>2. u[k] \in Int
        BY <1>8, <3>1
      <3> QED BY <1>5, <3>2
    <2>3. \A k \in 0 .. n : k \in S
      <3> HIDE DEF S
      <3> QED BY <1>1, <2>1, <2>2, UpTo
    <2> QED BY <2>3
  <1>10. u \in [0 .. n -> Int]
    <2> DEFINE g == [i \in 0 .. n |-> IF i = 0 THEN 0 ELSE u[i - 1] + v[i]]
    <2>1. u = g
      BY <1>7 DEF Adds
    <2>2. DOMAIN u = 0 .. n /\ u = [i \in 0 .. n |-> u[i]]
      BY <2>1
    <2> QED BY <1>9, <2>2
  <1> QED BY <1>2, <1>8, <1>10 DEF SumsTo, n

LEMMA SeqMono ==
    ASSUME NEW A, NEW B, A \subseteq B
    PROVE  Seq(A) \subseteq Seq(B)
  BY SeqDef

\* A sum of natural numbers is one, and no less than the last of them.
LEMMA TotalBounds ==
    ASSUME NEW v \in Seq(Nat)
    PROVE  Total(v) \in Nat /\ (v # <<>> => v[Len(v)] <= Total(v))
  <1> DEFINE n == Len(v)
  <1>1. v \in Seq(Int) /\ n \in Nat /\ (v # <<>> => n > 0) /\ \A k \in 1 .. n : v[k] \in Nat
    BY SeqMono
  <1>2. PICK h \in [0 .. n -> Int] :
          h[0] = 0 /\ (\A k \in 1 .. n : h[k] = h[k - 1] + v[k]) /\ Total(v) = h[n]
    BY <1>1, TotalIs DEF SumsTo
  <1> HIDE DEF n
  <1> DEFINE S == {k \in 0 .. n : h[k] >= 0}
  <1>3. 0 \in S
    BY <1>1, <1>2
  <1>4. ASSUME NEW k \in 1 .. n, k - 1 \in S PROVE k \in S
    <2>1. h[k] = h[k - 1] + v[k] /\ v[k] \in Nat /\ h[k - 1] \in Int /\ k \in 0 .. n /\ h[k - 1] >= 0
      BY <1>1, <1>2, <1>4
    <2> QED BY <2>1
  <1>5. \A k \in 0 .. n : h[k] >= 0 /\ h[k] \in Int
    <2>1. \A k \in 0 .. n : k \in S
      <3> HIDE DEF S
      <3> QED BY <1>1, <1>3, <1>4, UpTo
    <2> QED BY <2>1
  <1>6. ASSUME v # <<>> PROVE v[n] <= h[n]
    <2>1. n \in 1 .. n /\ n - 1 \in 0 .. n
      BY <1>1, <1>6
    <2>2. h[n] = h[n - 1] + v[n] /\ h[n - 1] >= 0 /\ h[n - 1] \in Int /\ v[n] \in Nat
      BY <1>1, <1>2, <1>5, <2>1
    <2> QED BY <2>2
  <1>7. h[n] \in Nat
    BY <1>1, <1>5
  <1> QED BY <1>2, <1>6, <1>7 DEF n

\* Those of the first k elements of s that are in T.
Among(s, T, k) == {s[i] : i \in 1 .. k} \cap T

\* What is kept of s, before its last element and with it.
KeptAs(s, T) ==
    /\ Kept(s, T) \in Seq(Among(s, T, Len(s))) /\ Len(Kept(s, T)) \in 0 .. Len(s)
    /\ s # <<>> => \E w \in Seq(Among(s, T, Len(s) - 1)) :
                      Kept(s, T) = IF s[Len(s)] \in T THEN Append(w, s[Len(s)]) ELSE w

Keeps(s, T, n, u) ==
    u = [i \in 0 .. n |-> IF i = 0 THEN <<>>
                          ELSE IF s[i] \in T THEN Append(u[i - 1], s[i]) ELSE u[i - 1]]

LEMMA KeptIs ==
    ASSUME NEW V, NEW s \in Seq(V), NEW T
    PROVE  KeptAs(s, T)
  <1> DEFINE n == Len(s)
             E(k) == Among(s, T, k)
             On(w, k) == IF s[k] \in T THEN Append(w, s[k]) ELSE w
             F == [a \in Seq(E(n)) \X (1 .. n) |-> On(a[1], a[2])]
             u == CHOOSE h : Keeps(s, T, n, h)
  <1>1. n \in Nat /\ (s # <<>> => n > 0)
    OBVIOUS
  <1>2. Kept(s, T) = u[n]
    BY DEF Kept, Keeps
  <1> HIDE DEF n
  <1>3. ASSUME NEW j \in 1 .. n, NEW k \in j .. n, NEW w \in Seq(E(k)), NEW m \in Nat, Len(w) <= m
        PROVE  On(w, j) \in Seq(E(k)) /\ Len(On(w, j)) \in 0 .. m + 1
    <2>1. CASE s[j] \in T
      <3>1. s[j] \in E(k)
        BY <2>1 DEF Among
      <3> HIDE DEF E
      <3>2. Append(w, s[j]) \in Seq(E(k)) /\ Len(Append(w, s[j])) = Len(w) + 1 /\ Len(w) \in Nat
        BY <3>1, AppendProperties
      <3> QED BY <1>3, <2>1, <3>2
    <2>2. CASE s[j] \notin T
      <3>1. Len(w) \in Nat
        OBVIOUS
      <3> QED BY <1>3, <2>2, <3>1
    <2> QED BY <2>1, <2>2
  <1>4. \A k \in 1 .. n : E(k - 1) \subseteq E(k)
    BY <1>1 DEF Among
  <1> HIDE DEF E
  <1>5. F \in [Seq(E(n)) \X (1 .. n) -> Seq(E(n))]
        /\ \A w \in Seq(E(n)), k \in 1 .. n : F[<<w, k>>] = On(w, k)
    <2>1. \A w \in Seq(E(n)), k \in 1 .. n : On(w, k) \in Seq(E(n))
      <3> SUFFICES ASSUME NEW w \in Seq(E(n)), NEW k \in 1 .. n PROVE On(w, k) \in Seq(E(n))
        OBVIOUS
      <3>1. n \in k .. n /\ Len(w) \in Nat /\ Len(w) <= Len(w)
        BY <1>1
      <3> HIDE DEF On
      <3> QED BY <1>3, <3>1
    <2> HIDE DEF On
    <2> QED BY <2>1
  <1> HIDE DEF F
  <1>6. PICK h \in [0 .. n -> Seq(E(n))] : h[0] = <<>> /\ \A k \in 1 .. n : h[k] = F[<<h[k - 1], k>>]
    <2>1. <<>> \in Seq(E(n))
      OBVIOUS
    <2>2. Loops(Seq(E(n)), <<>>, F, n)
      BY <1>1, <1>5, <2>1, LoopExists
    <2> QED BY <2>2 DEF Loops
  <1>7. \A k \in 1 .. n : k - 1 \in 0 .. n /\ k \in 0 .. n /\ k # 0
    BY <1>1
  <1>8. \A k \in 0 .. n : k = 0 \/ k \in 1 .. n
    BY <1>1
  <1>9. Keeps(s, T, n, h)
    <2> DEFINE g == [i \in 0 .. n |-> IF i = 0 THEN <<>> ELSE On(h[i - 1], i)]
    <2>1. \A k \in 0 .. n : h[k] = g[k]
      <3> SUFFICES ASSUME NEW k \in 0 .. n PROVE h[k] = g[k]
        OBVIOUS
      <3> HIDE DEF On
      <3>1. CASE k = 0
        BY <1>6, <3>1
      <3>2. CASE k \in 1 .. n
        <4>1. h[k - 1] \in Seq(E(n)) /\ k # 0
          BY <1>7, <3>2
        <4>2. h[k] = On(h[k - 1], k)
          BY <1>5, <1>6, <3>2, <4>1
        <4> QED BY <4>1, <4>2
      <3> QED BY <1>8, <3>1, <3>2
    <2>2. h = g
      <3> HIDE DEF On
      <3> QED BY <1>6, <2>1
    <2> QED BY Zenon, <2>2 DEF Keeps
  <1>10. Keeps(s, T, n, u)
    BY <1>9
  <1> HIDE DEF u
  <1> DEFINE g == [i \in 0 .. n |-> IF i = 0 THEN <<>> ELSE On(u[i - 1], i)]
  <1>11. u = g
    BY Zenon, <1>10 DEF Keeps
  <1>12. u[0] = <<>> /\ \A k \in 1 .. n : u[k] = On(u[k - 1], k)
    <2> HIDE DEF On
    <2>1. g[0] = <<>> /\ \A k \in 1 .. n : g[k] = On(u[k - 1], k)
      BY <1>1, <1>7
    <2> HIDE DEF g
    <2> QED BY <1>11, <2>1
  <1> DEFINE S == {k \in 0 .. n : u[k] \in Seq(E(k)) /\ Len(u[k]) \in 0 .. k}
  <1>13. 0 \in S
    <2>1. u[0] \in Seq(E(0)) /\ Len(u[0]) = 0
      BY <1>12
    <2> QED BY <1>1, <2>1
  <1>14. ASSUME NEW k \in 1 .. n, k - 1 \in S PROVE k \in S
    <2>1. u[k - 1] \in Seq(E(k - 1)) /\ Len(u[k - 1]) \in 0 .. k - 1
      BY <1>14
    <2>2. u[k - 1] \in Seq(E(k))
      BY <1>4, <2>1, SeqMono
    <2>3. k \in k .. n /\ k - 1 \in Nat /\ Len(u[k - 1]) <= k - 1
      BY <2>1
    <2>4. On(u[k - 1], k) \in Seq(E(k)) /\ Len(On(u[k - 1], k)) \in 0 .. (k - 1) + 1
      <3> HIDE DEF On
      <3> QED BY <1>3, <2>2, <2>3
    <2> HIDE DEF On
    <2>5. u[k] \in Seq(E(k)) /\ Len(u[k]) \in 0 .. k
      <3>1. (k - 1) + 1 = k
        OBVIOUS
      <3> QED BY <1>12, <2>4, <3>1
    <2> QED BY <1>7, <2>5
  <1>15. \A k \in 0 .. n : u[k] \in Seq(E(k)) /\ Len(u[k]) \in 0 .. k
    <2>1. \A k \in 0 .. n : k \in S
      <3> HIDE DEF S
      <3> QED BY <1>1, <1>13, <1>14, UpTo
    <2> QED BY <2>1
  <1>16. u[n] \in Seq(E(n)) /\ Len(u[n]) \in 0 .. n
    BY <1>1, <1>15
  <1>17. ASSUME s # <<>>
         PROVE  \E w \in Seq(E(n - 1)) : u[n] = IF s[n] \in T THEN Append(w, s[n]) ELSE w
    <2>1. n \in 1 .. n /\ n - 1 \in 0 .. n
      BY <1>1, <1>17
    <2>2. u[n - 1] \in Seq(E(n - 1)) /\ u[n] = On(u[n - 1], n)
      <3> HIDE DEF On
      <3> QED BY <1>12, <1>15, <2>1
    <2> QED BY <2>2
  <1> QED BY <1>2, <1>16, <1>17 DEF KeptAs, E, n

-----------------------------------------------------------------------------
(* The rhythm.                                                             *)

Gap == Nat \ {0}
Recent(p) == Newest(p, Config.sample_size)
Between(s) == IF Len(s) < 2 THEN <<>>
              ELSE [i \in 1 .. Len(s) - 1 |-> s[i + 1].at - s[i].at]
Squares(d) == [i \in 1 .. Len(d) |->
                  Total([j \in 1 .. i - 1 |-> (d[i] - d[j]) * (d[i] - d[j])])]
Runs(d) == {n \in 1 .. Len(d) : \E i \in 0 .. Len(d) - n :
                \A k \in i + 1 .. i + n : d[k] < UltraFast}

LEMMA TimingIs ==
    ASSUME NEW p
    PROVE  LET d == Kept(Between(Recent(p)), Gap)
           IN  Timing(p) = [n |-> Len(d), sum |-> Total(d), spread |-> Total(Squares(d)),
                            run |-> Max({0} \cup Runs(d))]
  BY DEF Timing, Gap, Recent, Between, Squares, Runs

\* The samples that are looked at are the last of all.
LEMMA RecentIs ==
    ASSUME NEW p \in Seq(Sample)
    PROVE  /\ Recent(p) \in Seq(Sample) /\ Len(Recent(p)) \in Nat
           /\ Len(Recent(p)) <= Config.sample_size /\ Len(Recent(p)) <= Len(p)
           /\ \A i \in 1 .. Len(Recent(p)) :
                /\ Len(p) - Len(Recent(p)) + i \in 1 .. Len(p)
                /\ Recent(p)[i] = p[Len(p) - Len(Recent(p)) + i]
  <1> DEFINE l == Len(p)
             z == Config.sample_size
             c == IF l <= z THEN 0 ELSE l - z
             s == Recent(p)
  <1>1. z \in Nat /\ l \in Nat
    BY BotAssumption
  <1>2. c \in 0 .. l /\ s = SubSeq(p, c + 1, l)
    BY <1>1, NewestIs DEF Recent
  <1>3. s \in Seq(Sample) /\ Len(s) = l - c /\ \A i \in 1 .. l - c : s[i] = p[c + i]
    <2> HIDE DEF c, s
    <2> QED BY <1>2, Suffix
  <1>4. l - c <= z
    BY <1>1
  <1> HIDE DEF s, c, z, l
  <1>5. \A i \in 1 .. l - c : l - (l - c) + i = c + i /\ c + i \in 1 .. l
    BY <1>1, <1>2
  <1>6. Len(s) \in Nat /\ Len(s) <= z /\ Len(s) <= l
    BY <1>1, <1>2, <1>3, <1>4
  <1>7. \A i \in 1 .. Len(s) : l - Len(s) + i \in 1 .. l /\ s[i] = p[l - Len(s) + i]
    BY <1>3, <1>5
  <1> QED BY <1>3, <1>6, <1>7 DEF s, z, l

LEMMA BetweenIs ==
    ASSUME NEW s \in Seq(Sample), Len(s) >= 2
    PROVE  /\ Between(s) \in Seq(Int) /\ Len(Between(s)) = Len(s) - 1
           /\ \A i \in 1 .. Len(s) - 1 : Between(s)[i] = s[i + 1].at - s[i].at
  <1> DEFINE g == [i \in 1 .. Len(s) - 1 |-> s[i + 1].at - s[i].at]
  <1>1. \A i \in 1 .. Len(s) - 1 : s[i + 1].at - s[i].at \in Int
    <2> SUFFICES ASSUME NEW i \in 1 .. Len(s) - 1 PROVE s[i + 1].at - s[i].at \in Int
      OBVIOUS
    <2>1. i \in 1 .. Len(s) /\ i + 1 \in 1 .. Len(s)
      OBVIOUS
    <2>2. s[i] \in Sample /\ s[i + 1] \in Sample
      BY <2>1
    <2> QED BY <2>2 DEF Sample
  <1>2. Len(s) - 1 \in Nat
    OBVIOUS
  <1>3. g \in Seq(Int) /\ Len(g) = Len(s) - 1
    BY <1>1, <1>2, SeqDef
  <1>4. \A i \in 1 .. Len(s) - 1 : g[i] = s[i + 1].at - s[i].at
    OBVIOUS
  <1> HIDE DEF g
  <1>5. Between(s) = g
    BY DEF Between, g
  <1> QED BY <1>3, <1>4, <1>5

\* After a long silence nothing looks mechanical, if few samples are looked at.
LEMMA SilenceIsHuman ==
    ASSUME NEW p \in Seq(Sample), Config.sample_size <= 241,
           Len(p) >= 2 => p[Len(p)].at - p[Len(p) - 1].at > Lookback
    PROVE  ~Mechanical(Timing(p))
  <1> DEFINE s == Recent(p)
             m == Len(s) - 1
             g == Between(s)
             d == Kept(g, Gap)
  <1>1. Timing(p).n = Len(d) /\ Timing(p).sum = Total(d)
    <2> HIDE DEF d
    <2> QED BY TimingIs DEF d, g, s
  <1>2. /\ s \in Seq(Sample) /\ Len(s) \in Nat /\ Len(s) <= 241 /\ Len(s) <= Len(p) /\ Len(p) \in Nat
        /\ \A i \in 1 .. Len(s) : s[i] = p[Len(p) - Len(s) + i]
    <2>1. Config.sample_size \in Nat
      BY BotAssumption
    <2> HIDE DEF s
    <2> QED BY <2>1, RecentIs DEF s
  <1> HIDE DEF s
  <1>3. CASE Len(s) < 2
    <2>1. g = <<>>
      BY <1>3 DEF Between
    <2>2. Len(d) = 0
      <3> HIDE DEF g
      <3>2. g \in Seq(Int)
        BY <2>1
      <3>1. KeptAs(g, Gap)
        BY <3>2, KeptIs
      <3>3. Len(g) = 0
        BY <2>1
      <3> HIDE DEF d
      <3> QED BY <3>1, <3>3 DEF KeptAs, d
    <2> HIDE DEF d
    <2> QED BY <1>1, <2>2 DEF Mechanical, AvgAtLeast
  <1>4. CASE Len(s) >= 2
    <2>13. m \in 1 .. 240
      <3> DEFINE l == Len(s)
      <3>1. l \in Nat /\ l <= 241 /\ l >= 2
        BY <1>2, <1>4
      <3> HIDE DEF l
      <3>2. l - 1 \in 1 .. 240
        BY <3>1
      <3> QED BY <3>2 DEF l
    <2>14. g \in Seq(Int) /\ Len(g) = m /\ \A i \in 1 .. m : g[i] = s[i + 1].at - s[i].at
      <3> HIDE DEF g
      <3> QED BY <1>2, <1>4, BetweenIs DEF g
    <2> HIDE DEF g
    <2>1. g \in Seq(Int) /\ Len(g) = m /\ m \in 1 .. 240 /\ g # <<>> /\ g[m] = s[m + 1].at - s[m].at
      <3> HIDE DEF m
      <3> QED BY <2>13, <2>14
    <2>2. s[m + 1] = p[Len(p)] /\ s[m] = p[Len(p) - 1]
      <3>1. m + 1 \in 1 .. Len(s) /\ m \in 1 .. Len(s)
            /\ Len(p) - Len(s) + (m + 1) = Len(p) /\ Len(p) - Len(s) + m = Len(p) - 1
        BY <1>2, <1>4
      <3> HIDE DEF m
      <3> QED BY <1>2, <3>1
    <2>3. g[m] > Lookback /\ g[m] \in Int
      <3> HIDE DEF m
      <3> QED BY <1>2, <1>4, <2>1, <2>2
    <2>4. Resolution \in Nat /\ Resolution > 0
      BY BotAssumption
    <2>5. g[m] \in Gap /\ g[m] > 12000 * Resolution
      BY <2>3, <2>4 DEF Gap, Lookback
    <2> HIDE DEF m
    <2>6. KeptAs(g, Gap)
      BY <2>1, KeptIs
    <2>7. PICK w \in Seq(Among(g, Gap, m - 1)) : d = Append(w, g[m])
      BY <2>1, <2>5, <2>6 DEF KeptAs
    <2>8. d \in Seq(Among(g, Gap, m)) /\ Len(d) \in 0 .. m
      BY <2>1, <2>6 DEF KeptAs
    <2> HIDE DEF d
    <2>9. d \in Seq(Nat)
      <3>1. Among(g, Gap, m) \subseteq Nat
        BY DEF Among, Gap
      <3> QED BY <2>8, <3>1, SeqMono
    <2>10. d # <<>> /\ d[Len(d)] = g[m]
      <3>1. Append(w, g[m]) # <<>> /\ Len(Append(w, g[m])) = Len(w) + 1 /\ Append(w, g[m])[Len(w) + 1] = g[m]
        <4>1. w \in Seq(Gap)
          <5>1. Among(g, Gap, m - 1) \subseteq Gap
            BY DEF Among
          <5> QED BY <5>1, SeqMono
        <4> QED BY <2>5, <4>1, AppendProperties
      <3> QED BY <2>7, <3>1
    <2>11. Total(d) \in Nat /\ g[m] <= Total(d)
      BY <2>9, <2>10, TotalBounds
    <2>12. ~(Total(d) <= 50 * Resolution * Len(d))
      <3> DEFINE x == Resolution * Len(d)
      <3>1. Len(d) \in Nat /\ Len(d) <= 240
        <4> DEFINE l == Len(d)
        <4>1. l \in 0 .. m /\ m \in 1 .. 240
          BY <2>1, <2>8
        <4> HIDE DEF l
        <4>2. l \in Nat /\ l <= 240
          BY <4>1
        <4> QED BY <4>2 DEF l
      <3>2. x \in Nat /\ x <= 240 * Resolution
        BY <2>4, <3>1, SMT
      <3>3. 50 * Resolution * Len(d) = 50 * x
        BY <2>4, <3>1, SMT
      <3> HIDE DEF x
      <3> QED BY <2>4, <2>5, <2>11, <3>2, <3>3 DEF Gap
    <2> QED BY <1>1, <2>12 DEF Mechanical, AvgAtMost
  <1> QED BY <1>2, <1>3, <1>4

\* Who leaves a while between pages is never ultra-fast.
LEMMA NoBurst ==
    ASSUME NEW p \in Seq(Sample), Config.burst_consecutive_count >= 1,
           \A i, j \in 1 .. Len(p) : p[j].at - p[i].at \notin 1 .. UltraFast - 1
    PROVE  ~Burst(Timing(p))
  <1> DEFINE s == Recent(p)
             g == Between(s)
             d == Kept(g, Gap)
  <1>1. Timing(p).run = Max({0} \cup Runs(d))
    <2> HIDE DEF d
    <2> QED BY TimingIs DEF d, g, s
  <1>2. /\ s \in Seq(Sample) /\ Len(s) \in Nat
        /\ \A i \in 1 .. Len(s) : \E k \in 1 .. Len(p) : s[i] = p[k]
    <2> HIDE DEF s
    <2> QED BY RecentIs DEF s
  <1>3. \A i, j \in 1 .. Len(s) : s[j].at - s[i].at \notin 1 .. UltraFast - 1
    <2> HIDE DEF s
    <2> QED BY <1>2
  <1> HIDE DEF s
  <1>4. UltraFast \in Nat
    BY BotAssumption DEF UltraFast
  <1>5. g \in Seq(Int) /\ \A i \in 1 .. Len(g) : g[i] \notin 1 .. UltraFast - 1
    <2>1. CASE Len(s) < 2
      <3>1. g = <<>>
        BY <2>1 DEF Between
      <3> HIDE DEF g
      <3> QED BY <3>1
    <2>2. CASE Len(s) >= 2
      <3>1. g \in Seq(Int) /\ Len(g) = Len(s) - 1 /\ \A i \in 1 .. Len(s) - 1 : g[i] = s[i + 1].at - s[i].at
        BY <1>2, <2>2, BetweenIs
      <3> HIDE DEF g
      <3>2. \A i \in 1 .. Len(s) - 1 : i \in 1 .. Len(s) /\ i + 1 \in 1 .. Len(s)
        BY <1>2, <2>2
      <3> QED BY <1>3, <3>1, <3>2
    <2> QED BY <1>2, <2>1, <2>2
  <1> HIDE DEF g
  <1>6. d \in Seq(Among(g, Gap, Len(g)))
    <2>1. KeptAs(g, Gap)
      BY <1>5, KeptIs
    <2> QED BY <2>1 DEF KeptAs
  <1> HIDE DEF d
  <1>7. Runs(d) = {}
    <2> SUFFICES ASSUME NEW n \in 1 .. Len(d), NEW i \in 0 .. Len(d) - n,
                        \A k \in i + 1 .. i + n : d[k] < UltraFast
                 PROVE  FALSE
      BY DEF Runs
    <2>1. i + 1 \in i + 1 .. i + n /\ i + 1 \in 1 .. Len(d)
      <3>1. Len(d) \in Nat
        BY <1>6
      <3> QED BY <3>1
    <2>2. d[i + 1] < UltraFast /\ d[i + 1] \in Among(g, Gap, Len(g))
      BY <1>6, <2>1
    <2>3. d[i + 1] \in Gap /\ d[i + 1] \notin 1 .. UltraFast - 1
      BY <1>5, <2>2 DEF Among
    <2> QED BY <1>4, <2>2, <2>3 DEF Gap
  <1>8. Timing(p).run = 0
    <2>1. \E m \in {0} : \A y \in {0} : m >= y
      OBVIOUS
    <2>2. Max({0}) = 0
      BY <2>1 DEF Max
    <2> QED BY <1>1, <1>7, <2>2
  <1>9. Config.burst_consecutive_count \in Nat
    BY BotAssumption
  <1> QED BY <1>8, <1>9 DEF Burst

-----------------------------------------------------------------------------
(* The score.                                                              *)

Page == [at: Nat, kind: Kinds \ {"ASSET"}]

\* The pages are samples, and a sample that is one comes last of them.
LEMMA PrimariesAre ==
    ASSUME NEW s \in Seq(Sample)
    PROVE  LET p == Primaries(s)
               n == Len(s)
           IN  /\ p \in Seq(Sample)
               /\ \A j \in 1 .. Len(p) : p[j] \in {s[i] : i \in 1 .. n} \cap Page
               /\ n > 0 /\ s[n].kind # "ASSET" =>
                    /\ p # <<>> /\ p[Len(p)] = s[n]
                    /\ Len(p) >= 2 => p[Len(p) - 1] \in {s[i] : i \in 1 .. n - 1}
  <1> DEFINE p == Primaries(s)
             n == Len(s)
  <1>1. p = Kept(s, Page) /\ KeptAs(s, Page)
    BY KeptIs DEF Primaries, Page
  <1>2. Page \subseteq Sample
    BY DEF Page, Sample
  <1>3. p \in Seq(Among(s, Page, n))
    <2> HIDE DEF p
    <2> QED BY <1>1 DEF KeptAs
  <1>4. Among(s, Page, n) \subseteq Sample
    BY <1>2 DEF Among
  <1>5. p \in Seq(Sample)
    <2> HIDE DEF p
    <2> QED BY <1>3, <1>4, SeqMono
  <1>6. \A j \in 1 .. Len(p) : p[j] \in {s[i] : i \in 1 .. n} \cap Page
    <2> HIDE DEF p
    <2>1. \A j \in 1 .. Len(p) : p[j] \in Among(s, Page, n)
      BY <1>3
    <2> QED BY <2>1 DEF Among
  <1>7. ASSUME n > 0, s[n].kind # "ASSET"
        PROVE  /\ p # <<>> /\ p[Len(p)] = s[n]
               /\ Len(p) >= 2 => p[Len(p) - 1] \in {s[i] : i \in 1 .. n - 1}
    <2>1. s[n] \in Page
      <3>1. n \in 1 .. Len(s)
        BY <1>7
      <3>2. s[n] \in Sample
        BY <3>1
      <3> HIDE DEF n
      <3> QED BY <1>7, <3>2 DEF Sample, Page
    <2>2. s # <<>>
      BY <1>7
    <2> HIDE DEF p
    <2>3. PICK w \in Seq(Among(s, Page, n - 1)) : p = Append(w, s[n])
      BY <1>1, <2>1, <2>2 DEF KeptAs
    <2>4. w \in Seq(Page)
      <3>1. Among(s, Page, n - 1) \subseteq Page
        BY DEF Among
      <3> HIDE DEF n
      <3> QED BY <2>3, <3>1, SeqMono
    <2> HIDE DEF n
    <2> DEFINE l == Len(w)
    <2>5. /\ l \in Nat /\ Append(w, s[n]) # <<>> /\ Len(Append(w, s[n])) = l + 1
          /\ Append(w, s[n])[l + 1] = s[n]
          /\ \A i \in 1 .. l : Append(w, s[n])[i] = w[i]
      BY <2>1, <2>4, AppendProperties
    <2>6. \A i \in 1 .. l : w[i] \in Among(s, Page, n - 1)
      BY <2>3
    <2> HIDE DEF l
    <2>7. ASSUME Len(p) >= 2 PROVE p[Len(p) - 1] \in {s[i] : i \in 1 .. n - 1}
      <3>1. Len(p) = l + 1 /\ Len(p) - 1 = l /\ l \in 1 .. l
        BY <2>3, <2>5, <2>7
      <3>2. p[l] \in Among(s, Page, n - 1)
        BY <2>3, <2>5, <2>6, <3>1
      <3> QED BY <3>1, <3>2 DEF Among
    <2> QED BY <2>3, <2>5, <2>7
  <1> QED BY <1>5, <1>6, <1>7

LEMMA InLastMinuteIs ==
    ASSUME NEW s \in Seq(Sample), NEW t
    PROVE  LET C == {i \in 1 .. Len(s) : /\ s[i].kind # "ASSET"
                                         /\ s[i].at <= t /\ t - s[i].at <= Minute}
           IN  InLastMinute(s, t) = Cardinality(C) /\ IsFiniteSet(C) /\ Cardinality(C) \in Nat
  <1> DEFINE C == {i \in 1 .. Len(s) : /\ s[i].kind # "ASSET"
                                       /\ s[i].at <= t /\ t - s[i].at <= Minute}
  <1>1. DOMAIN s = 1 .. Len(s) /\ Len(s) \in Nat
    OBVIOUS
  <1>2. InLastMinute(s, t) = Cardinality(C)
    BY <1>1 DEF InLastMinute
  <1>3. IsFiniteSet(1 .. Len(s)) /\ C \subseteq 1 .. Len(s)
    BY <1>1, FS_Interval
  <1> HIDE DEF C
  <1>4. IsFiniteSet(C) /\ Cardinality(C) \in Nat
    BY <1>3, FS_Subset, FS_CardinalityType
  <1> QED BY <1>2, <1>4 DEF C

\* At most three quarters of the limit, no document without its assets, and
\* not at once as regular as a machine and ultra-fast.
Polite(s, t) ==
    /\ 4 * InLastMinute(s, t) <= 3 * Config.max_requests_per_minute
    /\ \A i \in Mature(s, t) : Followed(s, i)
    /\ ~(Mechanical(Timing(Primaries(s))) /\ Burst(Timing(Primaries(s))))

\* Such a request is let through.
LEMMA PolitePasses ==
    ASSUME NEW s \in Seq(Sample), NEW t \in Nat, Polite(s, t)
    PROVE  AnalyzeRequest(s, t).score # "BLOCKED"
  <1> DEFINE rpm == InLastMinute(s, t)
             limit == Config.max_requests_per_minute
             timing == Timing(Primaries(s))
             mature == Mature(s, t)
             missing == {i \in mature : ~Followed(s, i)}
             Share(p) == mature # {} /\ 100 * Cardinality(missing) >= p * Cardinality(mature)
             If(p, n) == IF p THEN n ELSE 0
             fast == 4 * rpm > 3 * limit
             mechanical == Mechanical(timing)
             burst == Burst(timing)
             steady == /\ AvgAbove(timing, 10) /\ AvgAtMost(timing, 30)
                       /\ DeviationBelow(timing, 2) /\ ~Mechanical(timing)
             bare == /\ Cardinality(mature) >= Config.min_document_samples
                     /\ Share(80)
             only == /\ Cardinality(mature) >= Config.min_document_samples
                     /\ Cardinality(mature) >= Config.document_only_min_samples
                     /\ Share(95)
             varied == AvgAbove(timing, 100) /\ DeviationAbove(timing, 2)
             points == If(fast, 30) + If(mechanical, 30) + If(burst, 20) + If(steady, 15)
                         + If(bare, 15) + If(only, 50)
  <1>1. Points(s, t) = IF varied THEN Max({0, points - 10}) ELSE points
    BY Zenon DEF Points
  <1>2. ~fast /\ ~(rpm > limit)
    <2>1. rpm \in Nat /\ limit \in Nat /\ 4 * rpm <= 3 * limit
      BY BotAssumption, InLastMinuteIs DEF Polite
    <2> HIDE DEF rpm, limit
    <2> QED BY <2>1
  <1>3. ~(mechanical /\ burst)
    BY Zenon DEF Polite
  <1>4. ~Share(80) /\ ~Share(95)
    <2> SUFFICES ASSUME mature # {} PROVE ~Share(80) /\ ~Share(95)
      OBVIOUS
    <2>1. missing = {}
      BY DEF Polite
    <2>2. Cardinality(missing) = 0
      BY <2>1, FS_EmptySet
    <2>3. Cardinality(mature) \in Nat /\ Cardinality(mature) # 0
      <3>1. DOMAIN s = 1 .. Len(s) /\ Len(s) \in Nat
        OBVIOUS
      <3>2. IsFiniteSet(1 .. Len(s))
        BY <3>1, FS_Interval
      <3>3. mature \subseteq 1 .. Len(s)
        BY <3>1 DEF Mature
      <3> HIDE DEF mature
      <3>4. IsFiniteSet(mature)
        BY <3>2, <3>3, FS_Subset
      <3> QED BY <3>4, FS_CardinalityType, FS_EmptySet
    <2> HIDE DEF mature, missing
    <2> QED BY <2>2, <2>3
  <1>5. ~bare /\ ~only
    <2> HIDE DEF mature, Share
    <2> QED BY Zenon, <1>4
  <1>6. If(fast, 30) = 0 /\ If(bare, 15) = 0 /\ If(only, 50) = 0
    <2> HIDE DEF fast, bare, only
    <2> QED BY <1>2, <1>5
  <1>7. /\ If(mechanical, 30) \in {0, 30} /\ If(burst, 20) \in {0, 20} /\ If(steady, 15) \in {0, 15}
        /\ If(mechanical, 30) = 30 => If(burst, 20) = 0 /\ If(steady, 15) = 0
    <2>1. steady => ~mechanical
      BY Zenon
    <2> HIDE DEF mechanical, burst, steady
    <2> QED BY <1>3, <2>1
  <1> HIDE DEF If
  <1>8. points \in Nat /\ points < 50
    <2> HIDE DEF fast, mechanical, burst, steady, bare, only
    <2> QED BY <1>6, <1>7
  <1>9. Points(s, t) \in Int /\ ~(Points(s, t) >= 50)
    <2> HIDE DEF points, varied
    <2>1. Max({0, points - 10}) \in Int /\ Max({0, points - 10}) < 50
      <3> DEFINE x == points - 10
      <3>1. x \in Int /\ x < 50
        BY <1>8
      <3> HIDE DEF x
      <3>2. \E m \in {0, x} : \A y \in {0, x} : m >= y
        BY <3>1
      <3>3. Max({0, x}) \in {0, x}
        BY <3>2 DEF Max
      <3>4. Max({0, x}) \in Int /\ Max({0, x}) < 50
        BY <3>1, <3>3
      <3> QED BY <3>4 DEF x
    <2> QED BY <1>1, <1>8, <2>1
  <1> DEFINE blocked == rpm > limit \/ Points(s, t) >= 50
             score == IF blocked THEN "BLOCKED"
                      ELSE IF Points(s, t) >= 25 THEN "SUSPICIOUS" ELSE "CLEAN"
  <1>10. AnalyzeRequest(s, t) = [rpm |-> rpm, score |-> score]
    BY DEF AnalyzeRequest
  <1>11. score # "BLOCKED"
    <2>1. ~blocked
      BY <1>2, <1>9
    <2> HIDE DEF blocked
    <2> QED BY <2>1
  <1> HIDE DEF score, rpm
  <1> QED BY <1>10, <1>11

-----------------------------------------------------------------------------
(* The invariant.                                                          *)

LEMMA InitHolds == Init => IInv
  <1> SUFFICES ASSUME Init PROVE IInv
    OBVIOUS
  <1>1. /\ samples = <<>> /\ sent = <<>> /\ now = 0 /\ analysis \in Analysis
        /\ analysis.score = "CLEAN"
    BY DEF Init, Analysis, Scores
  <1>2. sent \in Seq(Sample) /\ Len(sent) = 0 /\ 1 .. Len(sent) = {}
    BY <1>1
  <1>3. Chronicle
    BY <1>1, <1>2 DEF Chronicle, Ordered
  <1>4. Cut(samples, sent, now, 0)
    <2>1. SubSeq(sent, 0 + 1, Len(sent)) = <<>>
      BY <1>2, SubSeqEmpty
    <2>2. 1 .. 0 = {} /\ 0 + 1 .. Len(sent) = {} /\ Len(sent) - 0 <= MaxSamples
      BY <1>2, BotAssumption
    <2> QED BY <1>1, <2>1, <2>2 DEF Cut
  <1> QED BY <1>1, <1>2, <1>3, <1>4 DEF IInv

LEMMA RequestStep == IInv /\ AnalyzeAndTrackRequest => IInv'
  <1> SUFFICES ASSUME IInv, AnalyzeAndTrackRequest PROVE IInv'
    OBVIOUS
  <1>1. PICK gap \in Gaps, kind \in Kinds :
          LET t == now + gap
              s == Trim(Append(samples, [at |-> t, kind |-> kind]), t)
          IN  /\ now' = t /\ samples' = s
              /\ analysis' = AnalyzeRequest(s, t)
              /\ sent' = Append(sent, [at |-> t, kind |-> kind])
    BY DEF AnalyzeAndTrackRequest
  <1> DEFINE x == [at |-> now + gap, kind |-> kind]
  <1>2. /\ now \in Nat /\ now' = now + gap /\ now' \in Nat /\ now <= now'
        /\ x \in Sample /\ x.at = now' /\ sent' = Append(sent, x)
        /\ samples' = Trim(Append(samples, x), now')
        /\ analysis' = AnalyzeRequest(samples', now')
    BY <1>1, BotAssumption DEF IInv, Chronicle, Sample
  <1> HIDE DEF x
  <1> DEFINE n == Len(sent)
  <1>3. /\ sent \in Seq(Sample) /\ n \in Nat /\ sent' \in Seq(Sample) /\ Len(sent') = n + 1
        /\ sent'[n + 1] = x /\ \A i \in 1 .. n : sent'[i] = sent[i]
    BY <1>2 DEF IInv, Chronicle
  <1>4. \A i \in 1 .. n : sent[i].at \in Nat
    <2>1. \A i \in 1 .. n : sent[i] \in Sample
      BY <1>3
    <2> QED BY <2>1 DEF Sample
  <1>5. /\ \A i, j \in 1 .. n : i <= j => sent[i].at <= sent[j].at
        /\ \A i \in 1 .. n : sent[i].at <= now
    BY DEF IInv, Chronicle, Ordered
  <1>6. PICK k \in 0 .. n : Cut(samples, sent, now, k)
    BY DEF IInv
  <1> HIDE DEF n
  <1>7. \A i \in 1 .. n + 1 : i \in 1 .. n \/ i = n + 1
    BY <1>3
  <1>8. \A i \in 1 .. n + 1 : sent'[i].at <= now'
    BY <1>2, <1>3, <1>4, <1>5, <1>7
  <1>9. \A i, j \in 1 .. n + 1 : i <= j => sent'[i].at <= sent'[j].at
    <2> SUFFICES ASSUME NEW i \in 1 .. n + 1, NEW j \in 1 .. n + 1, i <= j
                 PROVE  sent'[i].at <= sent'[j].at
      OBVIOUS
    <2>1. CASE j = n + 1
      BY <1>2, <1>3, <1>8, <2>1
    <2>2. CASE j \in 1 .. n
      <3>1. i \in 1 .. n
        BY <1>3, <2>2
      <3> QED BY <1>3, <1>5, <2>2, <3>1
    <2> QED BY <1>7, <2>1, <2>2
  <1>10. Chronicle'
    BY <1>2, <1>3, <1>8, <1>9 DEF Chronicle, Ordered
  <1>11. \E m \in 0 .. Len(sent') : Cut(samples', sent', now', m)
    <2> DEFINE t == now'
    <2>1. /\ t \in Nat /\ now \in Nat /\ now <= t /\ x \in Sample /\ sent' = Append(sent, x)
          /\ samples' = Trim(Append(samples, x), t) /\ sent \in Seq(Sample)
      BY <1>2, <1>3
    <2>2. Ordered(Append(sent, x))
      BY <1>3, <1>9, <2>1 DEF Ordered
    <2>3. Cut(samples, sent, now, k) /\ k \in 0 .. Len(sent)
      BY <1>6 DEF n
    <2> HIDE DEF t
    <2>4. \E m \in 0 .. Len(Append(sent, x)) :
            Cut(Trim(Append(samples, x), t), Append(sent, x), t, m)
      BY <2>1, <2>2, <2>3, TrimCuts
    <2> QED BY <2>1, <2>4 DEF t
  <1>12. samples' \in Seq(Sample)
    <2>1. PICK m \in 0 .. Len(sent') : samples' = SubSeq(sent', m + 1, Len(sent'))
      BY <1>11 DEF Cut
    <2> QED BY <1>3, <2>1, Suffix
  <1>13. analysis' \in Analysis
    BY <1>2, <1>12, AnalysisIs
  <1>14. sent' # <<>> /\ sent'[Len(sent')].at = now'
    BY <1>2, <1>3
  <1> QED BY <1>2, <1>10, <1>11, <1>13, <1>14 DEF IInv

\* What holds after any number of requests: the history is cut out of all
\* requests where it should be, and the last answer is about it.
THEOREM InvariantHolds == Spec => []IInv
  <1>1. IInv /\ UNCHANGED vars => IInv'
    BY DEF IInv, Chronicle, Ordered, Cut, vars
  <1> QED BY <1>1, InitHolds, RequestStep, PTL DEF Spec

-----------------------------------------------------------------------------
(* What follows from it.                                                   *)

LEMMA Typed == IInv => TypeOK
  <1> SUFFICES ASSUME IInv PROVE TypeOK
    OBVIOUS
  <1>1. PICK k \in 0 .. Len(sent) : Cut(samples, sent, now, k)
    BY DEF IInv
  <1>2. sent \in Seq(Sample) /\ samples = SubSeq(sent, k + 1, Len(sent))
    BY <1>1 DEF Cut, IInv, Chronicle
  <1>3. samples \in Seq(Sample) /\ Len(samples) = Len(sent) - k
    BY <1>2, Suffix
  <1> QED BY <1>1, <1>3 DEF TypeOK, IInv, Analysis, Cut

\* The history and the last answer keep their types, and the history its cap
\* (trimRequestHistory).
THEOREM TypeCorrect == Spec => []TypeOK
  BY Typed, InvariantHolds, PTL

\* Trimming request by request leaves what trimming once would: the newest of
\* all requests that are young enough, up to the cap (trimRequestHistory).
THEOREM KeepsTheWindow == Spec => []HistoryIsWindow
  <1>1. ASSUME IInv PROVE HistoryIsWindow
    <2> DEFINE n == Len(sent)
               young == {i \in DOMAIN sent : now - sent[i].at <= Retention}
               c == Cardinality(young)
               least == Min({c, MaxSamples})
    <2>1. PICK k \in 0 .. n : Cut(samples, sent, now, k)
      BY <1>1 DEF IInv
    <2>2. /\ sent \in Seq(Sample) /\ n \in Nat /\ now \in Nat /\ DOMAIN sent = 1 .. n
          /\ MaxSamples \in Nat /\ k \in Nat /\ k <= n
      BY <1>1, BotAssumption DEF IInv, Chronicle
    <2>3. \A i, j \in 1 .. n : i <= j => sent[i].at <= sent[j].at
      BY <1>1 DEF IInv, Chronicle, Ordered
    <2>4. \A i \in 1 .. n : sent[i].at \in Nat
      <3>1. \A i \in 1 .. n : sent[i] \in Sample
        BY <2>2
      <3> QED BY <3>1 DEF Sample
    <2>5. /\ samples = SubSeq(sent, k + 1, n) /\ n - k <= MaxSamples
          /\ \A i \in 1 .. k : now - sent[i].at > Retention \/ n - i >= MaxSamples
          /\ \A i \in k + 1 .. n : now - sent[i].at <= Retention
      BY <2>1 DEF Cut
    <2> HIDE DEF n
    <2>6. k + 1 .. n \subseteq young /\ young \subseteq 1 .. n
      BY <2>2, <2>5
    <2>7. /\ IsFiniteSet(k + 1 .. n) /\ Cardinality(k + 1 .. n) = n - k
          /\ IsFiniteSet(1 .. n) /\ Cardinality(1 .. n) = n
      <3>1. k + 1 \in Int /\ n \in Int /\ 1 \in Int
        BY <2>2
      <3>2. /\ IsFiniteSet(k + 1 .. n) /\ IsFiniteSet(1 .. n)
            /\ Cardinality(k + 1 .. n) = IF k + 1 > n THEN 0 ELSE n - (k + 1) + 1
            /\ Cardinality(1 .. n) = IF 1 > n THEN 0 ELSE n - 1 + 1
        BY <3>1, FS_Interval
      <3> QED BY <2>2, <3>2
    <2>8. IsFiniteSet(young) /\ c \in Nat /\ n - k <= c /\ c <= n
      <3> HIDE DEF young
      <3> QED BY <2>6, <2>7, FS_Subset, FS_CardinalityType
    <2>9. n - k < MaxSamples => c = n - k
      <3> SUFFICES ASSUME n - k < MaxSamples, NEW i \in young PROVE i \in k + 1 .. n
        BY <2>6, <2>7
      <3>1. i \in 1 .. n /\ now - sent[i].at <= Retention
        BY <2>2
      <3>2. CASE i \in 1 .. k
        <4>1. /\ k \in 1 .. n /\ k \in 1 .. k /\ sent[i].at <= sent[k].at
              /\ sent[i].at \in Nat /\ sent[k].at \in Nat
          BY <2>2, <2>3, <2>4, <3>1, <3>2
        <4>2. ~(n - k >= MaxSamples)
          BY <2>2
        <4>3. now - sent[k].at > Retention
          BY <2>5, <4>1, <4>2
        <4> QED BY <2>2, <3>1, <4>1, <4>3, TimesAre
      <3> QED BY <2>2, <3>1, <3>2
    <2> HIDE DEF c, young
    <2>10. least = n - k
      <3>1. n - k \in {c, MaxSamples} /\ \A y \in {c, MaxSamples} : n - k <= y
        BY <2>2, <2>5, <2>8, <2>9
      <3>2. \A y \in {c, MaxSamples} : y \in Nat
        BY <2>2, <2>8
      <3> QED BY <2>2, <3>1, <3>2 DEF Min
    <2> HIDE DEF least
    <2>11. Newest(sent, least) = samples
      <3>1. n - k \in Nat /\ (IF n <= n - k THEN 0 ELSE n - (n - k)) = k
        BY <2>2
      <3>2. Newest(sent, n - k) =
              SubSeq(sent, (IF n <= n - k THEN 0 ELSE n - (n - k)) + 1, n)
        BY <2>2, <3>1, NewestIs DEF n
      <3> QED BY <2>5, <2>10, <3>1, <3>2
    <2> QED BY <1>1, <2>11, Typed DEF HistoryIsWindow, least, c, young
  <1> QED BY <1>1, InvariantHolds, PTL

\* Who asks for more pages in a minute than the limit is blocked, if the
\* requests of that minute fit into the history (countRequestsInLastMinute).
THEOREM LimitsTheRate == Spec => []RateIsLimited
  <1>1. ASSUME IInv PROVE RateIsLimited
    <2> SUFFICES ASSUME Cardinality(LastMinute) <= MaxSamples,
                        Cardinality(PagesInMinute) > Config.max_requests_per_minute
                 PROVE  analysis.score = "BLOCKED"
      BY DEF RateIsLimited
    <2> DEFINE n == Len(sent)
    <2>1. PICK k \in 0 .. n : Cut(samples, sent, now, k)
      BY <1>1 DEF IInv
    <2>2. /\ sent \in Seq(Sample) /\ n \in Nat /\ now \in Nat /\ DOMAIN sent = 1 .. n
          /\ MaxSamples \in Nat /\ k \in Nat /\ k <= n
      BY <1>1, BotAssumption DEF IInv, Chronicle
    <2>3. /\ \A i, j \in 1 .. n : i <= j => sent[i].at <= sent[j].at
          /\ \A i \in 1 .. n : sent[i].at <= now
      BY <1>1 DEF IInv, Chronicle, Ordered
    <2>4. \A i \in 1 .. n : sent[i].at \in Nat
      <3>1. \A i \in 1 .. n : sent[i] \in Sample
        BY <2>2
      <3> QED BY <3>1 DEF Sample
    <2>5. /\ samples \in Seq(Sample) /\ Len(samples) = n - k
          /\ \A i \in 1 .. n - k : samples[i] = sent[k + i]
      BY <2>1, <2>2, Suffix DEF Cut
    <2>6. \A i \in 1 .. k : now - sent[i].at > Retention \/ n - i >= MaxSamples
      BY <2>1 DEF Cut
    <2> HIDE DEF n
    <2>7. LastMinute \subseteq 1 .. n /\ PagesInMinute \subseteq LastMinute
      BY <2>2 DEF LastMinute, PagesInMinute
    <2>8. IsFiniteSet(1 .. n) /\ IsFiniteSet(LastMinute)
      <3>1. IsFiniteSet(1 .. n)
        BY <2>2, FS_Interval
      <3> QED BY <2>7, <3>1, FS_Subset
    <2>9. ASSUME NEW i \in LastMinute PROVE i \in k + 1 .. n
      <3>1. i \in 1 .. n /\ now - sent[i].at <= Minute /\ sent[i].at \in Nat
        BY <2>2, <2>4 DEF LastMinute
      <3>2. CASE i \in 1 .. k
        <4>1. n - i >= MaxSamples
          BY <2>2, <2>6, <3>1, <3>2, TimesAre
        <4>2. i .. n \subseteq LastMinute
          <5> SUFFICES ASSUME NEW j \in i .. n PROVE now - sent[j].at <= Minute /\ j \in 1 .. n
            BY <2>2 DEF LastMinute
          <5>1. j \in 1 .. n /\ i <= j
            BY <2>2, <3>1
          <5>2. sent[i].at <= sent[j].at /\ sent[j].at \in Nat
            BY <2>3, <2>4, <3>1, <5>1
          <5> DEFINE a == sent[i].at
                     b == sent[j].at
          <5>3. a <= b /\ a \in Nat /\ b \in Nat /\ now - a <= Minute
            BY <3>1, <5>2
          <5> HIDE DEF a, b
          <5>4. now - b <= Minute
            BY <2>2, <5>3, TimesAre
          <5> QED BY <5>1, <5>4 DEF b
        <4>3. Cardinality(i .. n) = n - i + 1 /\ Cardinality(i .. n) <= Cardinality(LastMinute)
          <5>1. i \in Int /\ n \in Int /\ i <= n
            BY <2>2, <3>1
          <5>2. Cardinality(i .. n) = n - i + 1
            BY <5>1, FS_Interval
          <5> QED BY <2>8, <4>2, <5>2, FS_Subset
        <4>4. Cardinality(LastMinute) \in Nat
          BY <2>8, FS_CardinalityType
        <4> QED BY <2>2, <3>1, <4>1, <4>3, <4>4
      <3> QED BY <2>2, <3>1, <3>2
    <2> DEFINE counted == {i \in DOMAIN samples : /\ samples[i].kind # "ASSET"
                                                  /\ samples[i].at <= now
                                                  /\ now - samples[i].at <= Minute}
               f == [i \in PagesInMinute |-> i - k]
    <2>10. ASSUME NEW i \in PagesInMinute PROVE i - k \in counted
      <3>1. i \in k + 1 .. n /\ i \in 1 .. n /\ sent[i].kind # "ASSET" /\ now - sent[i].at <= Minute
        BY <2>7, <2>9 DEF PagesInMinute, LastMinute
      <3>2. i - k \in 1 .. n - k /\ k + (i - k) = i
        BY <2>2, <3>1
      <3>3. samples[i - k] = sent[i] /\ i - k \in DOMAIN samples
        BY <2>2, <2>5, <3>2
      <3>4. sent[i].at <= now
        BY <2>3, <3>1
      <3> QED BY <3>1, <3>3, <3>4
    <2>11. IsFiniteSet(counted)
      <3>1. counted \subseteq 1 .. Len(samples) /\ Len(samples) \in Nat
        BY <2>5
      <3>2. IsFiniteSet(1 .. Len(samples))
        BY <3>1, FS_Interval
      <3> HIDE DEF counted
      <3> QED BY <3>1, <3>2, FS_Subset
    <2>12. f \in Injection(PagesInMinute, counted)
      <3>1. \A i \in PagesInMinute : i \in Int
        BY <2>7
      <3> HIDE DEF counted
      <3>2. f \in [PagesInMinute -> counted]
        BY <2>10
      <3>3. \A i, j \in PagesInMinute : f[i] = f[j] => i = j
        BY <2>2, <3>1
      <3> QED BY <3>2, <3>3 DEF Injection, IsInjective
    <2>13. Cardinality(PagesInMinute) <= Cardinality(counted)
      <3> HIDE DEF counted, f
      <3> QED BY <2>11, <2>12, FS_Injection
    <2>14. Cardinality(counted) = InLastMinute(samples, now)
      BY DEF InLastMinute
    <2>15. /\ Cardinality(PagesInMinute) \in Nat /\ Cardinality(counted) \in Nat
           /\ Config.max_requests_per_minute \in Nat
      <3> HIDE DEF counted
      <3>1. IsFiniteSet(PagesInMinute)
        BY <2>7, <2>8, FS_Subset
      <3> QED BY <2>11, <3>1, FS_CardinalityType, BotAssumption
    <2> HIDE DEF counted
    <2>16. InLastMinute(samples, now) > Config.max_requests_per_minute
      BY <2>13, <2>14, <2>15
    <2>17. sent # <<>>
      <3>1. CASE sent = <<>>
        <4>1. n = 0
          BY <3>1 DEF n
        <4>2. PagesInMinute = {}
          BY <2>2, <2>7, <4>1
        <4> QED BY <2>15, <4>2, FS_EmptySet
      <3> QED BY <3>1
    <2> QED BY <1>1, <2>2, <2>5, <2>16, <2>17, AnalysisIs DEF IInv
  <1> QED BY <1>1, InvariantHolds, PTL

LEMMA OnlyOne ==
    ASSUME NEW n \in Nat, NEW D \in SUBSET {n}
    PROVE  Cardinality(D) \in {0, 1}
  <1>1. D = {} \/ D = {n}
    OBVIOUS
  <1>2. Cardinality({}) = 0 /\ Cardinality({n}) = 1
    BY FS_EmptySet, FS_Singleton
  <1> QED BY <1>1, <1>2

\* A page alone in the last two minutes passes.
LEMMA AfterSilence ==
    ASSUME Config.max_requests_per_minute >= 2, Config.sample_size <= 241,
           NEW s \in Seq(Sample), NEW t \in Nat, Len(s) > 0,
           s[Len(s)].at = t, s[Len(s)].kind # "ASSET",
           \A i \in 1 .. Len(s) - 1 : t - s[i].at > Lookback
    PROVE  AnalyzeRequest(s, t).score # "BLOCKED"
  <1> DEFINE n == Len(s)
             p == Primaries(s)
  <1>1. n \in Nat /\ n > 0 /\ n \in 1 .. n /\ DOMAIN s = 1 .. n
    OBVIOUS
  <1>2. \A i \in 1 .. n : i = n \/ i \in 1 .. n - 1
    <2>1. n \in Nat
      BY <1>1
    <2> HIDE DEF n
    <2> QED BY <2>1
  <1>3. \A i \in 1 .. n : s[i].at \in Nat
    <2>1. \A i \in 1 .. n : s[i] \in Sample
      OBVIOUS
    <2> QED BY <2>1 DEF Sample
  <1>4. \A i \in 1 .. n - 1 : t - s[i].at > Lookback /\ t - s[i].at > Minute /\ t - s[i].at \in Int
    <2> SUFFICES ASSUME NEW i \in 1 .. n - 1
                 PROVE  t - s[i].at > Lookback /\ t - s[i].at > Minute /\ t - s[i].at \in Int
      OBVIOUS
    <2>1. i \in 1 .. n
      BY <1>1
    <2> DEFINE a == s[i].at
    <2>2. a \in Nat /\ t - a > Lookback
      BY <1>3, <2>1
    <2> HIDE DEF a
    <2>3. t - a > Lookback /\ t - a > Minute /\ t - a \in Int
      BY <2>2, TimesAre
    <2> QED BY <2>3 DEF a
  <1>5. 4 * InLastMinute(s, t) <= 3 * Config.max_requests_per_minute
    <2> DEFINE C == {i \in 1 .. n : s[i].kind # "ASSET" /\ s[i].at <= t /\ t - s[i].at <= Minute}
    <2>1. InLastMinute(s, t) = Cardinality(C)
      BY InLastMinuteIs
    <2>2. C \in SUBSET {n}
      <3> SUFFICES ASSUME NEW i \in 1 .. n - 1, t - s[i].at <= Minute PROVE FALSE
        BY <1>2
      <3>1. t - s[i].at > Minute /\ t - s[i].at \in Int /\ Minute \in Nat
        BY <1>4, TimesAre
      <3> DEFINE a == t - s[i].at
      <3>2. a \in Int /\ a > Minute /\ a <= Minute /\ Minute \in Nat
        BY <3>1
      <3> HIDE DEF a
      <3> QED BY <3>2
    <2> HIDE DEF C
    <2>3. Cardinality(C) \in {0, 1}
      BY <1>1, <2>2, OnlyOne
    <2>4. Config.max_requests_per_minute \in Nat
      BY BotAssumption
    <2> QED BY <2>1, <2>3, <2>4
  <1>6. Mature(s, t) = {}
    <2> SUFFICES ASSUME NEW i \in 1 .. n, s[i].at >= t - Lookback, t - s[i].at > Window
                 PROVE  FALSE
      BY <1>1 DEF Mature
    <2> DEFINE a == s[i].at
    <2>1. a \in Nat /\ a >= t - Lookback /\ t - a > Window
      BY <1>3
    <2>2. Window \in Nat /\ Lookback \in Nat
      <3>1. Resolution \in Nat
        BY BotAssumption
      <3>2. Window \in Nat
        BY <3>1 DEF Window
      <3> QED BY <3>2, TimesAre
    <2>3. CASE i = n
      <3>1. a = t
        BY <2>3
      <3> HIDE DEF a
      <3> QED BY <2>1, <2>2, <3>1
    <2>4. CASE i \in 1 .. n - 1
      <3>1. t - a > Lookback
        BY <1>4, <2>4
      <3> HIDE DEF a
      <3> QED BY <2>1, <2>2, <3>1
    <2> QED BY <1>2, <2>3, <2>4
  <1>7. ~Mechanical(Timing(p))
    <2>1. /\ p \in Seq(Sample) /\ p # <<>> /\ p[Len(p)] = s[n]
          /\ Len(p) >= 2 => p[Len(p) - 1] \in {s[i] : i \in 1 .. n - 1}
      <3> HIDE DEF p
      <3> QED BY <1>1, PrimariesAre DEF p
    <2> HIDE DEF p
    <2>2. ASSUME Len(p) >= 2 PROVE p[Len(p)].at - p[Len(p) - 1].at > Lookback
      <3>1. PICK i \in 1 .. n - 1 : p[Len(p) - 1] = s[i]
        BY <2>1, <2>2
      <3>2. t - s[i].at > Lookback
        BY <1>4
      <3> QED BY <2>1, <3>1, <3>2
    <2> QED BY <2>1, <2>2, SilenceIsHuman
  <1>8. Polite(s, t)
    BY <1>5, <1>6, <1>7 DEF Polite
  <1> QED BY <1>8, PolitePasses

\* Where a cut history stands among all requests.
Stands(k) ==
    /\ Cut(samples, sent, now, k) /\ k \in Nat /\ k < Len(sent)
    /\ samples \in Seq(Sample) /\ Len(samples) = Len(sent) - k
    /\ \A i \in 1 .. Len(samples) : samples[i] = sent[k + i] /\ k + i \in 1 .. Len(sent)
    /\ \A i, j \in 1 .. Len(sent) : i <= j => sent[i].at <= sent[j].at
    /\ \A i \in 1 .. Len(sent) : sent[i] \in Sample /\ sent[i].at \in Nat /\ sent[i].at <= now
    /\ now \in Nat /\ sent[Len(sent)].at = now
    /\ analysis = AnalyzeRequest(samples, now)

\* The last request is always in the history.
LEMMA LastIsKept ==
    ASSUME IInv, sent # <<>>
    PROVE  \E k \in 0 .. Len(sent) : Stands(k)
  <1> DEFINE n == Len(sent)
  <1>1. PICK k \in 0 .. n : Cut(samples, sent, now, k)
    BY DEF IInv
  <1>2. /\ sent \in Seq(Sample) /\ n \in Nat /\ n > 0 /\ now \in Nat /\ sent[n].at = now
        /\ analysis = AnalyzeRequest(samples, now)
        /\ \A i \in 1 .. n : sent[i].at <= now
        /\ \A i, j \in 1 .. n : i <= j => sent[i].at <= sent[j].at
    BY DEF IInv, Chronicle, Ordered
  <1>3. \A i \in 1 .. n : sent[i] \in Sample /\ sent[i].at \in Nat
    <2>1. \A i \in 1 .. n : sent[i] \in Sample
      BY <1>2
    <2> QED BY <2>1 DEF Sample
  <1>4. k # n
    <2> SUFFICES ASSUME k = n PROVE FALSE
      OBVIOUS
    <2>1. n \in 1 .. k
      BY <1>2
    <2>2. now - sent[n].at > Retention \/ n - n >= MaxSamples
      BY <1>1, <2>1 DEF Cut
    <2> HIDE DEF n
    <2> QED BY <1>2, <2>2, TimesAre, BotAssumption
  <1>5. /\ samples \in Seq(Sample) /\ Len(samples) = n - k
        /\ \A i \in 1 .. n - k : samples[i] = sent[k + i]
    BY <1>1, <1>2, Suffix DEF Cut
  <1>6. Stands(k)
    <2>1. k \in Nat /\ k < n /\ \A i \in 1 .. n - k : k + i \in 1 .. n
      <3> HIDE DEF n
      <3> QED BY <1>2, <1>4
    <2> QED BY <1>1, <1>2, <1>3, <1>5, <2>1 DEF Stands
  <1> QED BY <1>6

\* Who waits as long as Retry-After says is let through: with a limit of two
\* requests at least and no more than 241 samples looked at (the program has 60
\* and 10), the first page after block_duration_seconds of silence is not
\* blocked, whatever came before (analyzeRequest).  It rests on the look-back of
\* two minutes, which AfterSilence is about, being the shorter of the two.
THEOREM SilenceEnds ==
    ASSUME Config.max_requests_per_minute >= 2, Config.sample_size <= 241
    PROVE  Spec => []SilenceLifts
  <1>1. ASSUME IInv PROVE SilenceLifts
    <2> DEFINE n == Len(sent)
    <2> SUFFICES ASSUME n - 1 > 0, now - sent[n - 1].at > BlockDuration,
                        sent[(n - 1) + 1].kind # "ASSET"
                 PROVE  analysis.score # "BLOCKED"
      BY DEF SilenceLifts
    <2>1. sent \in Seq(Sample) /\ n \in Nat
      BY <1>1 DEF IInv, Chronicle
    <2>2. sent # <<>>
      BY <2>1
    <2>3. PICK k \in 0 .. n : Stands(k)
      BY <1>1, <2>2, LastIsKept
    <2>4. /\ k \in Nat /\ k < n /\ samples \in Seq(Sample) /\ Len(samples) = n - k
          /\ \A i \in 1 .. Len(samples) : samples[i] = sent[k + i] /\ k + i \in 1 .. n
          /\ \A i, j \in 1 .. n : i <= j => sent[i].at <= sent[j].at
          /\ \A i \in 1 .. n : sent[i].at \in Nat
          /\ now \in Nat /\ sent[n].at = now /\ analysis = AnalyzeRequest(samples, now)
      BY <2>3 DEF Stands
    <2>5. sent[n].kind # "ASSET"
      <3>1. (n - 1) + 1 = n
        BY <2>1
      <3> QED BY <3>1
    <2> HIDE DEF n
    <2> DEFINE l == Len(samples)
    <2>6. l \in Nat /\ l > 0 /\ l \in 1 .. l /\ k + l = n /\ n - 1 \in 1 .. n
      <3>1. l = n - k /\ k \in Nat /\ k < n /\ n \in Nat /\ n - 1 > 0
        BY <2>1, <2>4
      <3> HIDE DEF l
      <3> QED BY <3>1
    <2>7. samples[l].at = now /\ samples[l].kind # "ASSET"
      <3>1. samples[l] = sent[n]
        BY <2>4, <2>6
      <3> QED BY <2>4, <2>5, <3>1
    <2>10. /\ BlockDuration \in Nat /\ Lookback <= BlockDuration
           /\ now - sent[n - 1].at > BlockDuration
      BY BotAssumption DEF BlockDuration, Lookback
    <2>8. ASSUME NEW i \in 1 .. l - 1 PROVE now - samples[i].at > Lookback
      <3>1. i \in 1 .. l /\ k + i \in 1 .. n /\ k + i <= n - 1
        BY <2>1, <2>4, <2>6
      <3> DEFINE a == sent[k + i].at
                 b == sent[n - 1].at
      <3>2. /\ a \in Nat /\ b \in Nat /\ a <= b /\ now \in Nat /\ Lookback \in Nat
            /\ now - b > BlockDuration
        BY <2>4, <2>6, <2>10, <3>1, TimesAre
      <3> HIDE DEF a, b
      <3>3. now - a > Lookback
        BY <2>10, <3>2
      <3>4. samples[i] = sent[k + i]
        BY <2>4, <3>1
      <3> QED BY <3>3, <3>4 DEF a
    <2> HIDE DEF l
    <2>9. AnalyzeRequest(samples, now).score # "BLOCKED"
      BY <2>4, <2>6, <2>7, <2>8, AfterSilence DEF l
    <2> QED BY <2>4, <2>9
  <1> QED BY <1>1, InvariantHolds, PTL

\* A browser is let through: who follows every page by an asset within the
\* window, leaves a tenth of a second between pages not asked for at once and
\* stays below three quarters of the limit is not blocked, if it takes one
\* ultra-fast pair at least to make a burst (analyzeAssetFollowup).
THEOREM LetsBrowsersThrough ==
    ASSUME Config.burst_consecutive_count >= 1
    PROVE  Spec => []BrowsersPass
  <1>1. ASSUME IInv PROVE BrowsersPass
    <2> DEFINE n == Len(sent)
               pages == {i \in DOMAIN sent : sent[i].kind # "ASSET"}
               left == {i \in pages : sent[i].kind = "DOCUMENT" /\ now - sent[i].at > Window}
    <2> SUFFICES
          ASSUME \A i \in left : \E j \in DOMAIN sent :
                   j > i /\ sent[j].kind = "ASSET" /\ sent[j].at - sent[i].at <= Window,
                 \A i, j \in pages : sent[j].at - sent[i].at \notin 1 .. UltraFast - 1,
                 4 * Cardinality(PagesInMinute) <= 3 * Config.max_requests_per_minute
          PROVE  analysis.score # "BLOCKED"
      BY DEF BrowsersPass
    <2>1. sent \in Seq(Sample) /\ n \in Nat /\ DOMAIN sent = 1 .. n
      BY <1>1 DEF IInv, Chronicle
    <2>2. CASE sent = <<>>
      BY <1>1, <2>2 DEF IInv
    <2>3. CASE sent # <<>>
      <3>1. PICK k \in 0 .. n : Stands(k)
        BY <1>1, <2>3, LastIsKept
      <3>2. /\ k \in Nat /\ k < n /\ samples \in Seq(Sample) /\ Len(samples) = n - k
            /\ \A i \in 1 .. Len(samples) : samples[i] = sent[k + i] /\ k + i \in 1 .. n
            /\ now \in Nat /\ analysis = AnalyzeRequest(samples, now)
        BY <3>1 DEF Stands
      <3> HIDE DEF n
      <3> DEFINE l == Len(samples)
                 p == Primaries(samples)
                 C == {i \in 1 .. l : /\ samples[i].kind # "ASSET"
                                      /\ samples[i].at <= now /\ now - samples[i].at <= Minute}
      <3>3. l \in Nat /\ l = n - k /\ DOMAIN samples = 1 .. l
        BY <2>1, <3>2
      <3>4. Cardinality(C) <= Cardinality(PagesInMinute) /\ Cardinality(PagesInMinute) \in Nat
        <4> DEFINE f == [i \in C |-> k + i]
        <4>1. PagesInMinute \subseteq 1 .. n /\ IsFiniteSet(1 .. n)
          <5>1. PagesInMinute \subseteq 1 .. n
            BY <2>1 DEF PagesInMinute, LastMinute
          <5>2. 1 \in Int /\ n \in Int
            BY <2>1
          <5>3. IsFiniteSet(1 .. n)
            BY <5>2, FS_Interval
          <5> QED BY <5>1, <5>3
        <4>2. IsFiniteSet(PagesInMinute)
          BY <4>1, FS_Subset
        <4>3. ASSUME NEW i \in C PROVE k + i \in PagesInMinute
          <5>1. i \in 1 .. l /\ samples[i].kind # "ASSET" /\ now - samples[i].at <= Minute
            OBVIOUS
          <5>2. samples[i] = sent[k + i] /\ k + i \in 1 .. n
            BY <3>2, <5>1
          <5> QED BY <2>1, <5>1, <5>2 DEF PagesInMinute, LastMinute
        <4>4. \A i \in C : i \in Int
          BY <3>3
        <4> HIDE DEF C
        <4>5. f \in [C -> PagesInMinute]
          BY <4>3
        <4>6. \A i, j \in C : f[i] = f[j] => i = j
          BY <3>2, <4>4
        <4>7. f \in Injection(C, PagesInMinute)
          BY <4>5, <4>6 DEF Injection, IsInjective
        <4> HIDE DEF f
        <4> QED BY <4>2, <4>7, FS_Injection, FS_CardinalityType
      <3>5. 4 * InLastMinute(samples, now) <= 3 * Config.max_requests_per_minute
        <4>1. InLastMinute(samples, now) = Cardinality(C) /\ Cardinality(C) \in Nat
          BY <3>2, InLastMinuteIs
        <4> HIDE DEF C
        <4>2. Config.max_requests_per_minute \in Nat
          BY BotAssumption
        <4> QED BY <3>4, <4>1, <4>2
      <3>6. ASSUME NEW i \in Mature(samples, now) PROVE Followed(samples, i)
        <4>1. i \in 1 .. l /\ samples[i].kind = "DOCUMENT" /\ now - samples[i].at > Window
          BY <3>3 DEF Mature
        <4>2. samples[i] = sent[k + i] /\ k + i \in 1 .. n
          BY <3>2, <4>1
        <4>3. k + i \in left
          BY <2>1, <4>1, <4>2
        <4>4. PICK j \in 1 .. n : /\ j > k + i /\ sent[j].kind = "ASSET"
                                  /\ sent[j].at - sent[k + i].at <= Window
          BY <2>1, <4>3
        <4>5. j - k \in i + 1 .. l /\ j - k \in 1 .. l /\ k + (j - k) = j
          <5> HIDE DEF l
          <5> QED BY <2>1, <3>2, <3>3, <4>1, <4>4
        <4>6. samples[j - k] = sent[j]
          BY <3>2, <4>5
        <4> QED BY <4>2, <4>4, <4>5, <4>6 DEF Followed
      <3>7. ~Burst(Timing(p))
        <4>1. p \in Seq(Sample) /\ \A j \in 1 .. Len(p) : p[j] \in {samples[i] : i \in 1 .. l} \cap Page
          <5> HIDE DEF p
          <5> QED BY <3>2, PrimariesAre DEF p
        <4> HIDE DEF p
        <4>2. \A j \in 1 .. Len(p) : \E q \in pages : p[j] = sent[q]
          <5> SUFFICES ASSUME NEW j \in 1 .. Len(p) PROVE \E q \in pages : p[j] = sent[q]
            OBVIOUS
          <5>1. PICK i \in 1 .. l : p[j] = samples[i]
            BY <4>1
          <5>2. p[j].kind # "ASSET"
            BY <4>1 DEF Page
          <5>3. samples[i] = sent[k + i] /\ k + i \in 1 .. n
            BY <3>2, <5>1
          <5> QED BY <2>1, <5>1, <5>2, <5>3
        <4> HIDE DEF pages
        <4>3. \A i, j \in 1 .. Len(p) : p[j].at - p[i].at \notin 1 .. UltraFast - 1
          <5> SUFFICES ASSUME NEW i \in 1 .. Len(p), NEW j \in 1 .. Len(p)
                       PROVE  p[j].at - p[i].at \notin 1 .. UltraFast - 1
            OBVIOUS
          <5>1. PICK q \in pages : p[i] = sent[q]
            BY <4>2
          <5>2. PICK r \in pages : p[j] = sent[r]
            BY <4>2
          <5> QED BY <5>1, <5>2
        <4> QED BY <4>1, <4>3, NoBurst
      <3>8. Polite(samples, now)
        BY <3>5, <3>6, <3>7 DEF Polite
      <3> QED BY <3>2, <3>8, PolitePasses
    <2> QED BY <2>2, <2>3
  <1> QED BY <1>1, InvariantHolds, PTL

=============================================================================
