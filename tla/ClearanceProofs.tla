-------------------------- MODULE ClearanceProofs ---------------------------
(* Proofs about Clearance, for every set of fingerprints and of tokens, and *)
(* every size of the store and lifetime of a token.                        *)
EXTENDS Clearance, TLAPS, FiniteSetTheorems

\* The tokens that were ever given.
Given == {t \in Tokens : grant[t] # NoEntry}

\* Those given or used since t was.
Since(t) == {u \in Tokens \ {t} : grant[u] # NoEntry /\ grant[u].last_seen >= grant[t].last_seen}

\* What is in the store is what was granted last.
StoreIsGranted == \A t \in Tokens : token_store[t] # NoEntry => grant[t] = token_store[t]

\* Nothing was granted in the future.
GrantedByNow == \A t \in Tokens : grant[t].last_seen <= now

\* A token still in its time is gone from the store only if enough came after.
GoneForOthers ==
    \A t \in Tokens : grant[t] # NoEntry /\ token_store[t] = NoEntry
                        /\ now - grant[t].last_seen <= TTL
                      => Cardinality(Since(t)) >= MaxEntries

IInv == TypeOK /\ IsFiniteSet(Given) /\ StoreIsGranted /\ GrantedByNow /\ GoneForOthers
          /\ StoreBounded

-----------------------------------------------------------------------------
(* The store under cleanup and eviction.                                   *)

LEMMA KeepShape ==
    ASSUME NEW s \in [Tokens -> Entry], NEW K \in SUBSET Held(s)
    PROVE  /\ Keep(s, K) \in [Tokens -> Entry]
           /\ Held(Keep(s, K)) = K
           /\ \A t \in K : Keep(s, K)[t] = s[t]
           /\ \A t \in Tokens \ K : Keep(s, K)[t] = NoEntry
<1>1. NoEntry \in Entry BY DEF NoEntry, Entry
<1>2. K \subseteq Tokens BY DEF Held
<1>3. QED BY <1>1, <1>2 DEF Keep, Held

LEMMA CleanupShape ==
    ASSUME NEW s \in [Tokens -> Entry]
    PROVE  /\ CleanupExpired(s) \in [Tokens -> Entry]
           /\ Held(CleanupExpired(s)) = {t \in Held(s) : now - s[t].last_seen <= TTL}
           /\ \A t \in Held(CleanupExpired(s)) : CleanupExpired(s)[t] = s[t]
<1> DEFINE K == {t \in Held(s) : now - s[t].last_seen <= TTL}
<1>1. K \in SUBSET Held(s) OBVIOUS
<1>2. CleanupExpired(s) = Keep(s, K) BY DEF CleanupExpired
<1> HIDE DEF K
<1>3. /\ Keep(s, K) \in [Tokens -> Entry]
      /\ Held(Keep(s, K)) = K
      /\ \A t \in K : Keep(s, K)[t] = s[t]
  BY <1>1, KeepShape
<1>4. QED BY <1>2, <1>3 DEF K

\* What hasValidBypass leaves, whether or not there is a cookie.
LEMMA LookedShape ==
    ASSUME TypeOK, NEW t \in Tokens \cup {NoToken}
    PROVE  /\ Looked(t) \in [Tokens -> Entry]
           /\ Held(Looked(t)) \subseteq Held(token_store)
           /\ \A u \in Held(Looked(t)) : Looked(t)[u] = token_store[u]
           /\ \A u \in Held(token_store) \ Held(Looked(t)) :
                ~(now - token_store[u].last_seen <= TTL)
<1>1. token_store \in [Tokens -> Entry] BY DEF TypeOK
<1>2. CASE t = NoToken BY <1>1, <1>2 DEF Looked
<1>3. CASE t # NoToken
  <2>1. Looked(t) = CleanupExpired(token_store) BY <1>3 DEF Looked
  <2>2. QED BY <1>1, <2>1, CleanupShape
<1>4. QED BY <1>2, <1>3

\* The tokens evictOldestIfNeeded keeps: all of them, or one fewer than fit.
LEMMA EvictShape ==
    ASSUME NEW s0 \in [Tokens -> Entry], IsFiniteSet(Held(s0)),
           NEW s \in EvictOldestIfNeeded(s0)
    PROVE  /\ s \in [Tokens -> Entry]
           /\ Held(s) \subseteq Held(s0) /\ IsFiniteSet(Held(s))
           /\ \A t \in Held(s) : s[t] = s0[t]
           /\ MaxEntries = 0 => Cardinality(Held(s)) = 0
           /\ MaxEntries > 0 => Cardinality(Held(s)) <= MaxEntries - 1
           /\ \A u \in Held(s0) \ Held(s) :
                /\ MaxEntries > 0 => Cardinality(Held(s)) = MaxEntries - 1
                /\ \A t \in Held(s) : s0[t].last_seen >= s0[u].last_seen
<1>1. PICK K \in SUBSET Held(s0) :
        /\ s = Keep(s0, K)
        /\ Cardinality(K) = IF MaxEntries = 0 THEN 0
                            ELSE IF Cardinality(Held(s0)) < MaxEntries
                                   THEN Cardinality(Held(s0)) ELSE MaxEntries - 1
        /\ \A t \in K, u \in Held(s0) \ K : s0[t].last_seen >= s0[u].last_seen
  BY DEF EvictOldestIfNeeded
<1>2. /\ s \in [Tokens -> Entry] /\ Held(s) = K /\ \A t \in K : s[t] = s0[t]
  BY <1>1, KeepShape
<1>3. /\ IsFiniteSet(K) /\ Cardinality(K) <= Cardinality(Held(s0))
      /\ Cardinality(Held(s0)) = Cardinality(K) => Held(s0) = K
  BY FS_Subset
<1>4. Cardinality(Held(s0)) \in Nat /\ MaxEntries \in Nat
  BY FS_CardinalityType, ClearanceAssumption
<1>5. Held(s0) \ K # {} /\ MaxEntries > 0 => Cardinality(K) = MaxEntries - 1
  BY <1>1, <1>3, <1>4
<1>6. QED BY <1>1, <1>2, <1>3, <1>4, <1>5

-----------------------------------------------------------------------------
(* Type correctness.                                                       *)

LEMMA InitType == Init => TypeOK
<1> SUFFICES ASSUME Init PROVE TypeOK OBVIOUS
<1>1. NoEntry \in Entry BY DEF NoEntry, Entry
<1>2. QED BY <1>1 DEF Init, TypeOK, Results

\* The entry made or refreshed.
LEMMA Stamp ==
    ASSUME TypeOK, NEW f \in Fingerprints
    PROVE  /\ [fingerprint |-> f, last_seen |-> now] \in Entry
           /\ [fingerprint |-> f, last_seen |-> now] # NoEntry
BY ClearanceAssumption DEF TypeOK, Entry, NoEntry

LEMMA BypassShape ==
    ASSUME TypeOK, NEW f \in Fingerprints, NEW t \in Tokens \cup {NoToken}, Bypass(f, t)
    PROVE  /\ t \in Tokens /\ t \in Held(Looked(t)) /\ Looked(t)[t].fingerprint = f
           /\ now - token_store[t].last_seen <= TTL
           /\ token_store' = [Looked(t) EXCEPT ![t] = [fingerprint |-> f, last_seen |-> now]]
           /\ grant' = [grant EXCEPT ![t] = [fingerprint |-> f, last_seen |-> now]]
<1>1. t \in Tokens /\ t \in Held(Looked(t)) /\ Looked(t)[t].fingerprint = f
  BY DEF Bypass, HasValidBypass, Held
<1>2. Looked(t) \in [Tokens -> Entry] BY LookedShape
<1>3. Looked(t)[t] \in [fingerprint: Fingerprints \cup {NoFingerprint}, last_seen: Nat]
  BY <1>1, <1>2 DEF Entry
<1>4. [Looked(t)[t] EXCEPT !.last_seen = now] = [fingerprint |-> f, last_seen |-> now]
  BY <1>1, <1>3
<1>5. token_store' = [Looked(t) EXCEPT ![t] = [fingerprint |-> f, last_seen |-> now]]
  BY <1>4 DEF Bypass
<1>6. Looked(t) = CleanupExpired(token_store) /\ token_store \in [Tokens -> Entry]
  BY DEF Bypass, HasValidBypass, Looked, TypeOK
<1>7. now - token_store[t].last_seen <= TTL BY <1>1, <1>6, CleanupShape
<1>8. QED BY <1>1, <1>5, <1>7 DEF Bypass

\* A step of CreateBypass, with the store it leaves room in.
CreatesIn(f, s, new) ==
    /\ token_store' = [s EXCEPT ![new] = [fingerprint |-> f, last_seen |-> now]]
    /\ grant' = [grant EXCEPT ![new] = [fingerprint |-> f, last_seen |-> now]]
    /\ Outcome(f, new, "granted")
    /\ UNCHANGED now

\* What createBypass makes of the store: the entries of s and the new one;
\* of those it dropped, each was out of its time or older than all it kept.
LEMMA CreateShape ==
    ASSUME TypeOK, StoreIsGranted, IsFiniteSet(Given),
           NEW f \in Fingerprints, NEW t \in Tokens \cup {NoToken}, CreateBypass(f, t)
    PROVE  \E s \in [Tokens -> Entry], new \in Tokens :
             /\ CreatesIn(f, s, new) /\ new \notin Held(s)
             /\ Held(s) \subseteq Held(token_store) /\ IsFiniteSet(Held(s))
             /\ \A u \in Held(s) : s[u] = token_store[u]
             /\ MaxEntries = 0 => Cardinality(Held(s)) = 0
             /\ MaxEntries > 0 => Cardinality(Held(s)) <= MaxEntries - 1
             /\ \A u \in Held(token_store) \ Held(s) :
                  \/ ~(now - token_store[u].last_seen <= TTL)
                  \/ /\ MaxEntries > 0 => Cardinality(Held(s)) = MaxEntries - 1
                     /\ \A v \in Held(s) : token_store[v].last_seen >= token_store[u].last_seen
<1> DEFINE s0 == CleanupExpired(Looked(t))
<1>1. PICK s \in EvictOldestIfNeeded(s0) : \E new \in Tokens \ Held(s) :
        /\ token_store' = [s EXCEPT ![new] = [fingerprint |-> f, last_seen |-> now]]
        /\ grant' = [grant EXCEPT ![new] = [fingerprint |-> f, last_seen |-> now]]
        /\ Outcome(f, new, "granted")
  BY DEF CreateBypass
<1>2. PICK new \in Tokens \ Held(s) : CreatesIn(f, s, new)
  BY <1>1 DEF CreatesIn, CreateBypass
<1>3. /\ Looked(t) \in [Tokens -> Entry]
      /\ Held(Looked(t)) \subseteq Held(token_store)
      /\ \A u \in Held(Looked(t)) : Looked(t)[u] = token_store[u]
      /\ \A u \in Held(token_store) \ Held(Looked(t)) :
           ~(now - token_store[u].last_seen <= TTL)
  BY LookedShape
<1>4. /\ s0 \in [Tokens -> Entry]
      /\ Held(s0) = {u \in Held(Looked(t)) : now - Looked(t)[u].last_seen <= TTL}
      /\ \A u \in Held(s0) : s0[u] = Looked(t)[u]
  BY <1>3, CleanupShape
<1> HIDE DEF s0
<1>5. Held(token_store) \subseteq Given BY DEF Held, Given, StoreIsGranted
<1>6. IsFiniteSet(Held(s0))
  <2>1. Held(s0) \in SUBSET Given BY <1>3, <1>4, <1>5
  <2>2. QED BY <2>1, FS_Subset
<1>7. /\ s \in [Tokens -> Entry]
      /\ Held(s) \subseteq Held(s0) /\ IsFiniteSet(Held(s))
      /\ \A u \in Held(s) : s[u] = s0[u]
      /\ MaxEntries = 0 => Cardinality(Held(s)) = 0
      /\ MaxEntries > 0 => Cardinality(Held(s)) <= MaxEntries - 1
      /\ \A u \in Held(s0) \ Held(s) :
           /\ MaxEntries > 0 => Cardinality(Held(s)) = MaxEntries - 1
           /\ \A v \in Held(s) : s0[v].last_seen >= s0[u].last_seen
  BY <1>4, <1>6, EvictShape
<1>8. Held(s) \subseteq Held(token_store) /\ \A u \in Held(s) : s[u] = token_store[u]
  BY <1>3, <1>4, <1>7
<1>9. ASSUME NEW u \in Held(token_store) \ Held(s)
      PROVE  \/ ~(now - token_store[u].last_seen <= TTL)
             \/ /\ MaxEntries > 0 => Cardinality(Held(s)) = MaxEntries - 1
                /\ \A v \in Held(s) : token_store[v].last_seen >= token_store[u].last_seen
  <2>1. CASE u \notin Held(Looked(t)) BY <1>3, <1>9, <2>1
  <2>2. CASE u \in Held(Looked(t)) /\ u \notin Held(s0) BY <1>3, <1>4, <2>2
  <2>3. CASE u \in Held(s0)
    <3>1. s0[u] = token_store[u] BY <1>3, <1>4, <2>3
    <3>2. \A v \in Held(s) : s0[v] = token_store[v] BY <1>3, <1>4, <1>7
    <3>3. QED BY <1>7, <1>9, <2>3, <3>1, <3>2
  <2>4. QED BY <2>1, <2>2, <2>3
<1>10. QED BY <1>1, <1>2, <1>7, <1>8, <1>9

LEMMA NextType ==
    ASSUME TypeOK, StoreIsGranted, IsFiniteSet(Given), [Next]_vars
    PROVE  TypeOK'
<1>1. CASE UNCHANGED vars BY <1>1 DEF vars, TypeOK
<1>2. CASE Tick BY <1>2, ClearanceAssumption DEF Tick, TypeOK
<1>3. ASSUME NEW f \in Fingerprints, NEW t \in Tokens \cup {NoToken}, Bypass(f, t)
      PROVE  TypeOK'
  <2>1. /\ Looked(t) \in [Tokens -> Entry] BY LookedShape
  <2>2. t \in Tokens BY <1>3, BypassShape
  <2>3. token_store' = [Looked(t) EXCEPT ![t] = [fingerprint |-> f, last_seen |-> now]]
    BY <1>3, BypassShape
  <2>4. grant' = [grant EXCEPT ![t] = [fingerprint |-> f, last_seen |-> now]]
    BY <1>3, BypassShape
  <2>5. token_store' \in [Tokens -> Entry] /\ grant' \in [Tokens -> Entry]
    BY <2>1, <2>3, <2>4, Stamp DEF TypeOK
  <2>6. QED BY <1>3, <2>5 DEF Bypass, Outcome, TypeOK, Results
<1>4. ASSUME NEW f \in Fingerprints, NEW t \in Tokens \cup {NoToken}, Analyzed(f, t)
      PROVE  TypeOK'
  <2>1. Looked(t) \in [Tokens -> Entry] BY LookedShape
  <2>2. QED BY <1>4, <2>1 DEF Analyzed, Outcome, TypeOK, Results
<1>5. ASSUME NEW f \in Fingerprints, NEW t \in Tokens \cup {NoToken}, CreateBypass(f, t)
      PROVE  TypeOK'
  <2>1. PICK s \in [Tokens -> Entry], new \in Tokens : CreatesIn(f, s, new)
    BY <1>5, CreateShape
  <2>2. token_store' \in [Tokens -> Entry] /\ grant' \in [Tokens -> Entry]
    BY <2>1, Stamp DEF CreatesIn, TypeOK
  <2>3. QED BY <2>1, <2>2 DEF CreatesIn, Outcome, TypeOK, Results
<1>6. QED BY <1>1, <1>2, <1>3, <1>4, <1>5 DEF Next

-----------------------------------------------------------------------------
(* How a step changes the store and the grants: one entry is written, the  *)
(* rest of the store only loses entries.                                   *)

\* A step writes the entry e at x, and x is in the store from then on.
Writes(x, e) ==
    /\ grant' = [grant EXCEPT ![x] = e]
    /\ token_store'[x] = e
    /\ \A u \in Tokens \ {x} : token_store'[u] # NoEntry => token_store'[u] = token_store[u]

LEMMA BypassWrites ==
    ASSUME TypeOK, NEW f \in Fingerprints, NEW t \in Tokens \cup {NoToken}, Bypass(f, t)
    PROVE  /\ t \in Tokens /\ Writes(t, [fingerprint |-> f, last_seen |-> now])
           /\ \A u \in Tokens : token_store[u] # NoEntry /\ token_store'[u] = NoEntry
                => ~(now - token_store[u].last_seen <= TTL)
           /\ Held(token_store') \subseteq Held(token_store)
<1>1. /\ t \in Tokens /\ t \in Held(Looked(t))
      /\ token_store' = [Looked(t) EXCEPT ![t] = [fingerprint |-> f, last_seen |-> now]]
      /\ grant' = [grant EXCEPT ![t] = [fingerprint |-> f, last_seen |-> now]]
  BY BypassShape
<1>2. /\ Looked(t) \in [Tokens -> Entry]
      /\ Held(Looked(t)) \subseteq Held(token_store)
      /\ \A u \in Held(Looked(t)) : Looked(t)[u] = token_store[u]
      /\ \A u \in Held(token_store) \ Held(Looked(t)) :
           ~(now - token_store[u].last_seen <= TTL)
  BY LookedShape
<1>3. /\ token_store'[t] = [fingerprint |-> f, last_seen |-> now]
      /\ \A u \in Tokens \ {t} : token_store'[u] = Looked(t)[u]
  BY <1>1, <1>2
<1>4. \A u \in Tokens : u \in Held(Looked(t)) <=> Looked(t)[u] # NoEntry BY DEF Held
<1>5. \A u \in Tokens : u \in Held(token_store) <=> token_store[u] # NoEntry BY DEF Held
<1>6. Writes(t, [fingerprint |-> f, last_seen |-> now]) BY <1>1, <1>2, <1>3, <1>4 DEF Writes
<1>7. \A u \in Tokens : token_store[u] # NoEntry /\ token_store'[u] = NoEntry
        => ~(now - token_store[u].last_seen <= TTL)
  BY <1>1, <1>2, <1>3, <1>4, <1>5, Stamp
<1>8. Held(token_store') \subseteq Held(token_store)
  <2>1. \A u \in Tokens : token_store'[u] # NoEntry => u \in Held(token_store)
    BY <1>1, <1>2, <1>3, <1>4
  <2>2. QED BY <2>1 DEF Held
<1>9. QED BY <1>1, <1>6, <1>7, <1>8

LEMMA AnalyzedForgets ==
    ASSUME TypeOK, NEW f \in Fingerprints, NEW t \in Tokens \cup {NoToken}, Analyzed(f, t)
    PROVE  /\ UNCHANGED <<grant, now>>
           /\ \A u \in Tokens : token_store'[u] # NoEntry => token_store'[u] = token_store[u]
           /\ \A u \in Tokens : token_store[u] # NoEntry /\ token_store'[u] = NoEntry
                => ~(now - token_store[u].last_seen <= TTL)
           /\ Held(token_store') \subseteq Held(token_store)
<1>1. token_store' = Looked(t) BY DEF Analyzed
<1>2. QED BY <1>1, LookedShape DEF Analyzed, Held

LEMMA CreateWrites ==
    ASSUME TypeOK, StoreIsGranted, IsFiniteSet(Given),
           NEW f \in Fingerprints, NEW t \in Tokens \cup {NoToken}, CreateBypass(f, t)
    PROVE  \E new \in Tokens, K \in SUBSET Held(token_store) :
             /\ Writes(new, [fingerprint |-> f, last_seen |-> now]) /\ now' = now
             /\ new \notin K /\ Held(token_store') = K \cup {new} /\ IsFiniteSet(K)
             /\ MaxEntries = 0 => Cardinality(K) = 0
             /\ MaxEntries > 0 => Cardinality(K) <= MaxEntries - 1
             /\ \A u \in Tokens \ {new} : token_store[u] # NoEntry /\ token_store'[u] = NoEntry =>
                  \/ ~(now - token_store[u].last_seen <= TTL)
                  \/ /\ MaxEntries > 0 => Cardinality(K) = MaxEntries - 1
                     /\ \A v \in K : token_store[v].last_seen >= token_store[u].last_seen
<1>1. PICK s \in [Tokens -> Entry], new \in Tokens :
             /\ CreatesIn(f, s, new) /\ new \notin Held(s)
             /\ Held(s) \subseteq Held(token_store) /\ IsFiniteSet(Held(s))
             /\ \A u \in Held(s) : s[u] = token_store[u]
             /\ MaxEntries = 0 => Cardinality(Held(s)) = 0
             /\ MaxEntries > 0 => Cardinality(Held(s)) <= MaxEntries - 1
             /\ \A u \in Held(token_store) \ Held(s) :
                  \/ ~(now - token_store[u].last_seen <= TTL)
                  \/ /\ MaxEntries > 0 => Cardinality(Held(s)) = MaxEntries - 1
                     /\ \A v \in Held(s) : token_store[v].last_seen >= token_store[u].last_seen
  BY CreateShape
<1>2. /\ grant' = [grant EXCEPT ![new] = [fingerprint |-> f, last_seen |-> now]]
      /\ token_store'[new] = [fingerprint |-> f, last_seen |-> now]
      /\ \A u \in Tokens \ {new} : token_store'[u] = s[u]
      /\ token_store' \in [Tokens -> Entry] /\ now' = now
  BY <1>1, Stamp DEF CreatesIn
<1>3. \A u \in Tokens : u \in Held(s) <=> s[u] # NoEntry BY DEF Held
<1>4. \A u \in Tokens : u \in Held(token_store) <=> token_store[u] # NoEntry BY DEF Held
<1>5. Writes(new, [fingerprint |-> f, last_seen |-> now]) BY <1>1, <1>2, <1>3 DEF Writes
<1>6. Held(token_store') = Held(s) \cup {new}
  <2>1. \A u \in Tokens : token_store'[u] # NoEntry <=> u \in Held(s) \cup {new}
    BY <1>2, <1>3, Stamp
  <2>2. Held(s) \subseteq Tokens BY DEF Held
  <2>3. QED BY <2>1, <2>2 DEF Held
<1>7. \A u \in Tokens \ {new} : token_store[u] # NoEntry /\ token_store'[u] = NoEntry
        => u \in Held(token_store) \ Held(s)
  BY <1>2, <1>3, <1>4
<1> Held(s) \in SUBSET Held(token_store) BY <1>1
<1> WITNESS new \in Tokens
<1> WITNESS Held(s) \in SUBSET Held(token_store)
<1>8. QED BY <1>1, <1>2, <1>5, <1>6, <1>7

-----------------------------------------------------------------------------
(* The parts of the invariant.                                             *)

LEMMA InitOthers == Init => IInv
<1> SUFFICES ASSUME Init PROVE IInv OBVIOUS
<1>1. Given = {} /\ Held(token_store) = {} BY DEF Init, Given, Held
<1>2. IsFiniteSet(Given) /\ Cardinality(Held(token_store)) = 0 BY <1>1, FS_EmptySet
<1>3. StoreBounded BY <1>2, ClearanceAssumption DEF StoreBounded
<1>4. StoreIsGranted /\ GoneForOthers BY DEF Init, StoreIsGranted, GoneForOthers
<1>5. GrantedByNow BY DEF Init, GrantedByNow, NoEntry
<1>6. QED BY <1>2, <1>3, <1>4, <1>5, InitType DEF IInv

\* A grant to x makes it given, moves it up among those since any other, and
\* takes none away.
LEMMA WriteCounts ==
    ASSUME IInv, NEW x \in Tokens, NEW f \in Fingerprints,
           Writes(x, [fingerprint |-> f, last_seen |-> now]), now' = now
    PROVE  /\ Given' = Given \cup {x} /\ IsFiniteSet(Given')
           /\ StoreIsGranted' /\ GrantedByNow'
           /\ \A u \in Tokens \ {x} : grant'[u] = grant[u] /\ Since(u) \subseteq Since(u)'
           /\ \A u \in Tokens : Since(u)' \subseteq Given'
<1> DEFINE e == [fingerprint |-> f, last_seen |-> now]
<1>1. e \in Entry /\ e # NoEntry /\ e.last_seen = now BY Stamp DEF IInv
<1> HIDE DEF e
<1>2. grant \in [Tokens -> Entry] /\ now \in Nat BY DEF IInv, TypeOK
<1>3. /\ grant'[x] = e /\ \A u \in Tokens \ {x} : grant'[u] = grant[u]
  BY <1>2 DEF Writes, e
<1>4. Given' = Given \cup {x} BY <1>1, <1>3 DEF Given
<1>5. IsFiniteSet(Given') BY <1>4, FS_AddElement DEF IInv
<1>6. StoreIsGranted' BY <1>3 DEF IInv, StoreIsGranted, Writes, e
<1>7. \A u \in Tokens : grant[u].last_seen \in Nat /\ grant[u].last_seen <= now
  BY <1>2 DEF IInv, GrantedByNow, Entry
<1>8. GrantedByNow' BY <1>1, <1>2, <1>3, <1>7 DEF GrantedByNow
<1>9. ASSUME NEW u \in Tokens \ {x} PROVE Since(u) \subseteq Since(u)'
  BY <1>1, <1>2, <1>3, <1>7 DEF Since
<1>10. \A u \in Tokens : Since(u)' \subseteq Given' BY DEF Since, Given
<1>11. QED BY <1>3, <1>4, <1>5, <1>6, <1>8, <1>9, <1>10

LEMMA NextInv == IInv /\ [Next]_vars => IInv'
<1> SUFFICES ASSUME IInv, [Next]_vars PROVE IInv' OBVIOUS
<1> USE DEF IInv
<1>1. TypeOK' BY NextType
<1>2. CASE UNCHANGED vars
  BY <1>1, <1>2 DEF vars, Given, Since, StoreIsGranted, GrantedByNow, GoneForOthers,
                    StoreBounded, Held
<1>3. CASE Tick
  <2>1. UNCHANGED <<token_store, grant>> /\ now' = now + 1 BY <1>3 DEF Tick
  <2>2. now \in Nat /\ TTL \in Nat /\ \A t \in Tokens : grant[t].last_seen \in Nat
    BY ClearanceAssumption DEF TypeOK, Entry
  <2>3. Given' = Given /\ Held(token_store') = Held(token_store)
        /\ \A t \in Tokens : Since(t)' = Since(t)
    BY <2>1 DEF Given, Held, Since
  <2>4. StoreIsGranted' /\ StoreBounded' BY <2>1, <2>3 DEF StoreIsGranted, StoreBounded
  <2>5. GrantedByNow' BY <2>1, <2>2 DEF GrantedByNow
  <2>6. GoneForOthers' BY <2>1, <2>2, <2>3 DEF GoneForOthers
  <2>7. QED BY <1>1, <2>3, <2>4, <2>5, <2>6
<1>4. ASSUME NEW f \in Fingerprints, NEW t \in Tokens \cup {NoToken}, Bypass(f, t)
      PROVE  IInv'
  <2>1. /\ t \in Tokens /\ Writes(t, [fingerprint |-> f, last_seen |-> now])
        /\ \A u \in Tokens : token_store[u] # NoEntry /\ token_store'[u] = NoEntry
             => ~(now - token_store[u].last_seen <= TTL)
        /\ Held(token_store') \subseteq Held(token_store)
    BY <1>4, BypassWrites
  <2>2. now' = now BY <1>4 DEF Bypass
  <2>3. /\ Given' = Given \cup {t} /\ IsFiniteSet(Given')
        /\ StoreIsGranted' /\ GrantedByNow'
        /\ \A u \in Tokens \ {t} : grant'[u] = grant[u] /\ Since(u) \subseteq Since(u)'
        /\ \A u \in Tokens : Since(u)' \subseteq Given'
    BY <2>1, <2>2, WriteCounts
  <2>4. ASSUME NEW u \in Tokens, grant'[u] # NoEntry, token_store'[u] = NoEntry,
               now' - grant'[u].last_seen <= TTL
        PROVE  Cardinality(Since(u)') >= MaxEntries
    <3>1. u # t BY <2>1, <2>4, Stamp DEF Writes
    <3>2. grant[u] = grant'[u] BY <2>3, <3>1
    <3>3. token_store[u] = NoEntry BY <2>1, <2>2, <2>4, <3>2 DEF StoreIsGranted
    <3>4. Cardinality(Since(u)) >= MaxEntries BY <2>2, <2>4, <3>2, <3>3 DEF GoneForOthers
    <3>5. QED
      <4>1. Since(u) \subseteq Since(u)' /\ Since(u)' \subseteq Given' BY <2>3, <3>1
      <4>2. IsFiniteSet(Since(u)') BY <2>3, <4>1, FS_Subset
      <4>3. Cardinality(Since(u)) <= Cardinality(Since(u)') /\ IsFiniteSet(Since(u))
        BY <4>1, <4>2, FS_Subset
      <4>4. Cardinality(Since(u)) \in Nat /\ Cardinality(Since(u)') \in Nat
        BY <4>2, <4>3, FS_CardinalityType
      <4>5. QED BY <3>4, <4>3, <4>4, ClearanceAssumption
  <2>5. GoneForOthers' BY <2>4 DEF GoneForOthers
  <2>6. StoreBounded'
    <3>1. Held(token_store) \subseteq Given BY DEF Held, Given, StoreIsGranted
    <3>2. IsFiniteSet(Held(token_store)) BY <3>1, FS_Subset
    <3>3. /\ Cardinality(Held(token_store')) <= Cardinality(Held(token_store))
          /\ IsFiniteSet(Held(token_store'))
      BY <2>1, <3>2, FS_Subset
    <3>4. Cardinality(Held(token_store)) \in Nat /\ Cardinality(Held(token_store')) \in Nat
      BY <3>2, <3>3, FS_CardinalityType
    <3>5. QED BY <3>3, <3>4, ClearanceAssumption DEF StoreBounded
  <2>7. QED BY <1>1, <2>3, <2>5, <2>6
<1>5. ASSUME NEW f \in Fingerprints, NEW t \in Tokens \cup {NoToken}, Analyzed(f, t)
      PROVE  IInv'
  <2>1. /\ UNCHANGED <<grant, now>>
        /\ \A u \in Tokens : token_store'[u] # NoEntry => token_store'[u] = token_store[u]
        /\ \A u \in Tokens : token_store[u] # NoEntry /\ token_store'[u] = NoEntry
             => ~(now - token_store[u].last_seen <= TTL)
        /\ Held(token_store') \subseteq Held(token_store)
    BY <1>5, AnalyzedForgets
  <2>2. Given' = Given /\ GrantedByNow' /\ \A u \in Tokens : Since(u)' = Since(u)
    BY <2>1 DEF Given, GrantedByNow, Since
  <2>3. StoreIsGranted' BY <2>1 DEF StoreIsGranted
  <2>4. GoneForOthers' BY <2>1, <2>2 DEF GoneForOthers, StoreIsGranted
  <2>5. StoreBounded'
    <3>1. Held(token_store) \subseteq Given BY DEF Held, Given, StoreIsGranted
    <3>2. IsFiniteSet(Held(token_store)) BY <3>1, FS_Subset
    <3>3. /\ Cardinality(Held(token_store')) <= Cardinality(Held(token_store))
          /\ IsFiniteSet(Held(token_store'))
      BY <2>1, <3>2, FS_Subset
    <3>4. Cardinality(Held(token_store)) \in Nat /\ Cardinality(Held(token_store')) \in Nat
      BY <3>2, <3>3, FS_CardinalityType
    <3>5. QED BY <3>3, <3>4, ClearanceAssumption DEF StoreBounded
  <2>6. QED BY <1>1, <2>2, <2>3, <2>4, <2>5
<1>6. ASSUME NEW f \in Fingerprints, NEW t \in Tokens \cup {NoToken}, CreateBypass(f, t)
      PROVE  IInv'
  <2>1. PICK new \in Tokens, K \in SUBSET Held(token_store) :
             /\ Writes(new, [fingerprint |-> f, last_seen |-> now]) /\ now' = now
             /\ new \notin K /\ Held(token_store') = K \cup {new} /\ IsFiniteSet(K)
             /\ MaxEntries = 0 => Cardinality(K) = 0
             /\ MaxEntries > 0 => Cardinality(K) <= MaxEntries - 1
             /\ \A u \in Tokens \ {new} : token_store[u] # NoEntry /\ token_store'[u] = NoEntry =>
                  \/ ~(now - token_store[u].last_seen <= TTL)
                  \/ /\ MaxEntries > 0 => Cardinality(K) = MaxEntries - 1
                     /\ \A v \in K : token_store[v].last_seen >= token_store[u].last_seen
    BY <1>6, CreateWrites
  <2>2. /\ Given' = Given \cup {new} /\ IsFiniteSet(Given')
        /\ StoreIsGranted' /\ GrantedByNow'
        /\ \A u \in Tokens \ {new} : grant'[u] = grant[u] /\ Since(u) \subseteq Since(u)'
        /\ \A u \in Tokens : Since(u)' \subseteq Given'
    BY <2>1, WriteCounts
  <2>3. Cardinality(K \cup {new}) = Cardinality(K) + 1 /\ IsFiniteSet(K \cup {new})
    BY <2>1, FS_AddElement
  <2>4. Cardinality(K) \in Nat /\ MaxEntries \in Nat
    BY <2>1, FS_CardinalityType, ClearanceAssumption
  <2>5. StoreBounded' BY <2>1, <2>3, <2>4 DEF StoreBounded
  <2>6. ASSUME NEW u \in Tokens, grant'[u] # NoEntry, token_store'[u] = NoEntry,
               now' - grant'[u].last_seen <= TTL
        PROVE  Cardinality(Since(u)') >= MaxEntries
    <3>1. u # new BY <2>1, <2>6, Stamp DEF Writes
    <3>2. grant[u] = grant'[u] /\ now' = now BY <2>1, <2>2, <3>1
    <3>3. IsFiniteSet(Since(u)') BY <2>2, FS_Subset
    <3>4. Cardinality(Since(u)') \in Nat BY <3>3, FS_CardinalityType
    <3>5. CASE token_store[u] = NoEntry
      <4>1. Cardinality(Since(u)) >= MaxEntries BY <2>6, <3>2, <3>5 DEF GoneForOthers
      <4>2. Cardinality(Since(u)) <= Cardinality(Since(u)') /\ IsFiniteSet(Since(u))
        BY <2>2, <3>1, <3>3, FS_Subset
      <4>3. Cardinality(Since(u)) \in Nat BY <4>2, FS_CardinalityType
      <4>4. QED BY <2>4, <3>4, <4>1, <4>2, <4>3
    <3>6. CASE token_store[u] # NoEntry /\ MaxEntries > 0
      <4>1. grant[u] = token_store[u] BY <3>6 DEF StoreIsGranted
      <4>2. /\ Cardinality(K) = MaxEntries - 1
            /\ \A v \in K : token_store[v].last_seen >= token_store[u].last_seen
        BY <2>1, <2>6, <3>1, <3>2, <3>6, <4>1
      <4>3. \A v \in K : v \in Tokens /\ token_store[v] # NoEntry /\ grant[v] = token_store[v]
        BY DEF Held, StoreIsGranted
      <4>4. u \notin K /\ u # new /\ \A v \in K : v # new
        <5>1. u \notin Held(token_store') BY <2>6 DEF Held
        <5>2. QED BY <2>1, <3>1, <5>1
      <4>5. \A v \in K : grant'[v] = grant[v] BY <2>2, <4>3, <4>4
      <4>6. K \subseteq Since(u)' BY <3>2, <4>1, <4>2, <4>3, <4>4, <4>5 DEF Since
      <4>7. new \in Since(u)'
        <5>1. grant'[new] = [fingerprint |-> f, last_seen |-> now] BY <2>1 DEF TypeOK, Writes
        <5>2. grant'[new] # NoEntry /\ grant'[new].last_seen = now BY <5>1, Stamp
        <5>3. grant'[u].last_seen <= now /\ grant'[u].last_seen \in Nat /\ now \in Nat
          BY <3>2 DEF GrantedByNow, TypeOK, Entry
        <5>4. QED BY <3>1, <5>2, <5>3 DEF Since
      <4>8. K \cup {new} \subseteq Since(u)' BY <4>6, <4>7
      <4>9. Cardinality(K \cup {new}) <= Cardinality(Since(u)') BY <3>3, <4>8, FS_Subset
      <4>10. QED BY <2>3, <2>4, <3>4, <4>2, <4>9
    <3>7. CASE MaxEntries = 0 BY <3>4, <3>7
    <3>8. QED BY <2>4, <3>5, <3>6, <3>7
  <2>7. GoneForOthers' BY <2>6 DEF GoneForOthers
  <2>8. QED BY <1>1, <2>2, <2>5, <2>7
<1>7. QED BY <1>2, <1>3, <1>4, <1>5, <1>6 DEF Next

LEMMA Invariance == Spec => []IInv
BY InitOthers, NextInv, PTL DEF Spec

-----------------------------------------------------------------------------
\* The store and the history hold tokens with their fingerprints and times,
\* whatever requests come (captchaBypass.cpp).
THEOREM TypeCorrect == Spec => []TypeOK
<1>1. IInv => TypeOK BY DEF IInv
<1>2. QED BY <1>1, Invariance, PTL

\* The store never outgrows max_entries (createBypass).
THEOREM Bounded == Spec => []StoreBounded
<1>1. IInv => StoreBounded BY DEF IInv
<1>2. QED BY <1>1, Invariance, PTL

\* A token counts only for the fingerprint it was last given to, and in its
\* time (hasValidBypass).
THEOREM FreshOwn == Spec => HonoursOnlyFreshOwn
<1> DEFINE A == last'.result = "cleared" /\ now' = now =>
                  /\ grant[last'.token].fingerprint = last'.fingerprint
                  /\ now - grant[last'.token].last_seen <= TTL
<1>1. IInv /\ [Next]_vars => [A]_vars
  <2> SUFFICES ASSUME IInv, Next PROVE A BY DEF A
  <2> USE DEF IInv
  <2>1. CASE Tick
    <3>1. now' # now BY <2>1 DEF Tick, TypeOK
    <3>2. QED BY <3>1
  <2>2. ASSUME NEW f \in Fingerprints, NEW t \in Tokens \cup {NoToken}, Bypass(f, t) PROVE A
    <3>1. /\ t \in Tokens /\ t \in Held(Looked(t)) /\ Looked(t)[t].fingerprint = f
          /\ now - token_store[t].last_seen <= TTL
      BY <2>2, BypassShape
    <3>2. Looked(t)[t] = token_store[t] /\ t \in Held(token_store) BY <3>1, LookedShape
    <3>3. grant[t] = token_store[t] BY <3>2 DEF StoreIsGranted, Held
    <3>4. last'.token = t /\ last'.fingerprint = f BY <2>2 DEF Bypass, Outcome
    <3>5. QED BY <3>1, <3>2, <3>3, <3>4
  <2>3. ASSUME NEW f \in Fingerprints, NEW t \in Tokens \cup {NoToken},
               Analyzed(f, t) \/ CreateBypass(f, t)
        PROVE  A
    BY <2>3 DEF Analyzed, CreateBypass, Outcome
  <2>4. QED BY <2>1, <2>2, <2>3 DEF Next
<1>2. QED BY <1>1, Invariance, PTL DEF Spec, HonoursOnlyFreshOwn

\* Who has solved the captcha is asked again in the token's time only if as
\* many others as the store holds came after (evictOldestIfNeeded).
THEOREM NotChallengedAgain == Spec => ClearedIsNotChallenged
<1> DEFINE A == last'.result = "challenged" /\ now' = now /\ last'.token # NoToken
                  /\ grant[last'.token].fingerprint = last'.fingerprint
                  /\ now - grant[last'.token].last_seen <= TTL
                => Cardinality({t \in Tokens \ {last'.token} :
                       /\ grant[t] # NoEntry
                       /\ grant[t].last_seen >= grant[last'.token].last_seen}) >= MaxEntries
<1>1. IInv /\ [Next]_vars => [A]_vars
  <2> SUFFICES ASSUME IInv, Next PROVE A BY DEF A
  <2> USE DEF IInv
  <2>1. CASE Tick
    <3>1. now' # now BY <2>1 DEF Tick, TypeOK
    <3>2. QED BY <3>1
  <2>2. ASSUME NEW f \in Fingerprints, NEW t \in Tokens \cup {NoToken}, Analyzed(f, t),
               t # NoToken, grant[t].fingerprint = f, now - grant[t].last_seen <= TTL
        PROVE  Cardinality(Since(t)) >= MaxEntries
    <3>1. t \in Tokens BY <2>2
    <3>2. grant[t] # NoEntry BY <2>2, ClearanceAssumption DEF NoEntry
    <3>3. token_store[t] = NoEntry
      <4> SUFFICES ASSUME token_store[t] # NoEntry PROVE FALSE OBVIOUS
      <4>1. token_store[t] = grant[t] BY <3>1 DEF StoreIsGranted
      <4>2. t \in Held(token_store) BY <3>1 DEF Held
      <4>3. t \in Held(Looked(t)) BY <2>2, <4>1, <4>2, LookedShape
      <4>4. Looked(t)[t].fingerprint = f BY <2>2, <4>1, <4>3, LookedShape
      <4>5. QED BY <2>2, <4>3, <4>4 DEF Analyzed, HasValidBypass
    <3>4. QED BY <2>2, <3>1, <3>2, <3>3 DEF GoneForOthers
  <2>3. ASSUME NEW f \in Fingerprints, NEW t \in Tokens \cup {NoToken}, Analyzed(f, t) PROVE A
    <3>1. last'.token = t /\ last'.fingerprint = f BY <2>3 DEF Analyzed, Outcome
    <3>2. QED BY <2>2, <2>3, <3>1 DEF Since
  <2>4. ASSUME NEW f \in Fingerprints, NEW t \in Tokens \cup {NoToken},
               Bypass(f, t) \/ CreateBypass(f, t)
        PROVE  A
    BY <2>4 DEF Bypass, CreateBypass, Outcome
  <2>5. QED BY <2>1, <2>3, <2>4 DEF Next
<1>2. QED BY <1>1, Invariance, PTL DEF Spec, ClearedIsNotChallenged
=============================================================================
