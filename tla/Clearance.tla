----------------------------- MODULE Clearance ------------------------------
(***************************************************************************)
(* The captcha bypass of CatSurf (tools/src/captchaBypass and the bot gate *)
(* of Server::process_request): who is taken for a bot and solves the      *)
(* captcha gets a token in a cookie; requests that bring it, from the same *)
(* fingerprint, are not analysed for as long as the token is in use.  The  *)
(* store is bounded; tokens are drawn at random, and a token no longer in  *)
(* the store may be drawn again.  What bot detection says of a request it  *)
(* is asked about is left open here.                                       *)
(***************************************************************************)
EXTENDS Integers, FiniteSets

CONSTANTS
    Fingerprints, NoFingerprint,
    Tokens, NoToken,
    MaxEntries,      \* max_entries
    TTL,             \* ttl_seconds
    MaxTime          \* bound: the clock

ASSUME ClearanceAssumption ==
    /\ NoToken \notin Tokens /\ NoFingerprint \notin Fingerprints
    /\ MaxEntries \in Nat /\ TTL \in Nat /\ MaxTime \in Nat

VARIABLES
    token_store,
    now,
    last,      \* the last request and what became of it
    grant      \* history: whose each token is, and when it last counted

vars == <<token_store, now, last, grant>>

Entry == [fingerprint: Fingerprints \cup {NoFingerprint}, last_seen: Nat]
NoEntry == [fingerprint |-> NoFingerprint, last_seen |-> 0]

Held(s) == {t \in Tokens : s[t] # NoEntry}

Results == {"served", "cleared", "challenged", "granted", "none"}

Init ==
    /\ token_store = [t \in Tokens |-> NoEntry] /\ grant = token_store /\ now = 0
    /\ last = [fingerprint |-> NoFingerprint, token |-> NoToken, result |-> "none"]

-----------------------------------------------------------------------------
Keep(s, K) == [t \in Tokens |-> IF t \in K THEN s[t] ELSE NoEntry]

\* Variant: an entry counts until the second after its last.
CleanupLate(s) == Keep(s, {t \in Held(s) : now - s[t].last_seen <= TTL + 1})

CleanupExpired(s) == Keep(s, {t \in Held(s) : now - s[t].last_seen <= TTL})

\* Variants: one entry too many is kept; the newest go first.
EvictTooFew(s) ==
    {Keep(s, K) : K \in {K \in SUBSET Held(s) :
        /\ Cardinality(K) = IF Cardinality(Held(s)) <= MaxEntries THEN Cardinality(Held(s))
                            ELSE MaxEntries
        /\ \A t \in K, u \in Held(s) \ K : s[t].last_seen >= s[u].last_seen}}

EvictNewest(s) ==
    {Keep(s, K) : K \in {K \in SUBSET Held(s) :
        /\ Cardinality(K) = IF MaxEntries = 0 THEN 0
                            ELSE IF Cardinality(Held(s)) < MaxEntries
                                   THEN Cardinality(Held(s)) ELSE MaxEntries - 1
        /\ \A t \in K, u \in Held(s) \ K : s[t].last_seen <= s[u].last_seen}}

\* Room for one more, at the cost of the entries seen least recently; which of
\* several seen in the same second goes is up to the hash table.
EvictOldestIfNeeded(s) ==
    {Keep(s, K) : K \in {K \in SUBSET Held(s) :
        /\ Cardinality(K) = IF MaxEntries = 0 THEN 0
                            ELSE IF Cardinality(Held(s)) < MaxEntries
                                   THEN Cardinality(Held(s)) ELSE MaxEntries - 1
        /\ \A t \in K, u \in Held(s) \ K : s[t].last_seen >= s[u].last_seen}}

HasValidBypass(s, t, f) == t # NoToken /\ t \in Held(s) /\ s[t].fingerprint = f

Outcome(f, t, result) == last' = [fingerprint |-> f, token |-> t, result |-> result]

\* The store once hasValidBypass has looked at the cookie.
Looked(t) == IF t = NoToken THEN token_store ELSE CleanupExpired(token_store)

-----------------------------------------------------------------------------
\* A valid token: the entry is refreshed.
Bypass(f, t) ==
    /\ HasValidBypass(Looked(t), t, f)
    /\ token_store' = [Looked(t) EXCEPT ![t].last_seen = now]
    /\ grant' = [grant EXCEPT ![t] = [fingerprint |-> f, last_seen |-> now]]
    /\ Outcome(f, t, "cleared") /\ UNCHANGED now

\* No valid token: let through, or challenged and the captcha not solved.
Analyzed(f, t) ==
    /\ ~HasValidBypass(Looked(t), t, f)
    /\ token_store' = Looked(t)
    /\ \/ Outcome(f, t, "served")
       \/ Outcome(f, t, "challenged")
    /\ UNCHANGED <<grant, now>>

\* Challenged, and the request is the solved captcha.
CreateBypass(f, t) ==
    /\ ~HasValidBypass(Looked(t), t, f)
    /\ \E s \in EvictOldestIfNeeded(CleanupExpired(Looked(t))) :
         \E new \in Tokens \ Held(s) :
           /\ token_store' = [s EXCEPT ![new] = [fingerprint |-> f, last_seen |-> now]]
           /\ grant' = [grant EXCEPT ![new] = [fingerprint |-> f, last_seen |-> now]]
           /\ Outcome(f, new, "granted")
    /\ UNCHANGED now

Tick == now < MaxTime /\ now' = now + 1 /\ UNCHANGED <<token_store, last, grant>>

Next == \/ Tick
        \/ \E f \in Fingerprints, t \in Tokens \cup {NoToken} :
             Bypass(f, t) \/ Analyzed(f, t) \/ CreateBypass(f, t)

Spec == Init /\ [][Next]_vars

-----------------------------------------------------------------------------
(* Properties.                                                             *)

\* The store keeps its types: no entry is dated before the clock began
\* (hasValidBypass, createBypass).
TypeOK ==
    /\ token_store \in [Tokens -> Entry] /\ grant \in [Tokens -> Entry] /\ now \in Nat
    /\ last \in [fingerprint: Fingerprints \cup {NoFingerprint},
                 token: Tokens \cup {NoToken}, result: Results]

\* However many browsers solve the captcha, the store holds no more than
\* max_entries, or the one just made (createBypass).
StoreBounded == Cardinality(Held(token_store)) <= IF MaxEntries = 0 THEN 1 ELSE MaxEntries

\* Nobody gets past with a token that was not given to the same fingerprint,
\* or not used for longer than its time, whatever the store has forgotten or
\* drawn anew meanwhile (hasValidBypass, cleanupExpired).
HonoursOnlyFreshOwn ==
    [][last'.result = "cleared" /\ now' = now =>
         /\ grant[last'.token].fingerprint = last'.fingerprint
         /\ now - grant[last'.token].last_seen <= TTL]_vars

\* Who has solved the captcha is not asked again while the token is in use,
\* unless as many others have been let past since as the store has room for
\* (evictOldestIfNeeded).
ClearedIsNotChallenged ==
    [][last'.result = "challenged" /\ now' = now /\ last'.token # NoToken
         /\ grant[last'.token].fingerprint = last'.fingerprint
         /\ now - grant[last'.token].last_seen <= TTL
       => Cardinality({t \in Tokens \ {last'.token} :
              /\ grant[t] # NoEntry
              /\ grant[t].last_seen >= grant[last'.token].last_seen}) >= MaxEntries]_vars
=============================================================================
