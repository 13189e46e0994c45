---------------------------- MODULE BotDetection ----------------------------
(***************************************************************************)
(* CatSurf's bot detection (tools/src/botDetection/botDetection.cpp) for   *)
(* one fingerprint: every request is added to a trimmed history and scored *)
(* by its rate, by the rhythm of its requests and by whether pages are     *)
(* followed by the assets a browser would fetch.  The mean and deviation,  *)
(* computed in floating point, are compared as exact fractions.  The clock *)
(* does not step back.                                                     *)
(***************************************************************************)
EXTENDS Integers, Sequences, SequencesExt, FiniteSets, FiniteSetsExt

CONSTANTS
    Config,        \* BotDetectionConfig
    Resolution,    \* units of time in 10 ms: 10 make it the code's clock
    MaxSamples,    \* MAX_SAMPLES_PER_FINGERPRINT
    Gaps,          \* the times that may pass between two requests
    MaxRequests    \* bound: requests

Minute == 6000 * Resolution      \* SIXTY_SECONDS_MS
Retention == 60000 * Resolution  \* RETENTION_MS
Lookback == 12000 * Resolution   \* ASSET_FOLLOWUP_LOOKBACK_MS
BlockDuration == 30000 * Resolution  \* block_duration_seconds, sent as Retry-After
Window == 250 * Resolution       \* asset_followup_window_ms
UltraFast == 10 * Resolution     \* ultra_fast_threshold_ms

ASSUME BotAssumption ==
    /\ {Resolution, MaxSamples, MaxRequests} \subseteq Nat \ {0} /\ Gaps \subseteq Nat
    /\ Config \in [{"max_requests_per_minute", "sample_size", "burst_consecutive_count",
                    "min_document_samples", "document_only_min_samples"} -> Nat]

VARIABLES
    samples,    \* request_history[fingerprint]
    now,
    analysis,   \* what analyzeAndTrackRequest returned last
    sent        \* history: every request there has been

vars == <<samples, now, analysis, sent>>

Kinds == {"DOCUMENT", "ASSET", "OTHER"}
Scores == {"CLEAN", "SUSPICIOUS", "BLOCKED"}
Sample == [at: Nat, kind: Kinds]

Init == /\ samples = <<>> /\ sent = <<>> /\ now = 0
        /\ analysis = [score |-> "CLEAN", rpm |-> 0]

-----------------------------------------------------------------------------
Newest(s, n) == IF Len(s) <= n THEN s ELSE SubSeq(s, Len(s) - n + 1, Len(s))

\* Variant: samples are kept for a minute only.
TrimShort(s, t) == Newest(SelectSeq(s, LAMBDA x : t - x.at < Minute), MaxSamples)

\* trimRequestHistory: what is too old, then what is too much, from the front.
Trim(s, t) ==
    LET keep_from == Cardinality({i \in DOMAIN s : \A j \in 1 .. i : t - s[j].at > Retention})
    IN  Newest(SubSeq(s, keep_from + 1, Len(s)), MaxSamples)

\* What of s is in T, in order: a loop that pushes back what it keeps.  This is
\* SelectSeq, in a form that proofs can unfold.
Kept(s, T) ==
    LET kept[i \in 0 .. Len(s)] ==
          IF i = 0 THEN <<>>
          ELSE IF s[i] \in T THEN Append(kept[i - 1], s[i]) ELSE kept[i - 1]
    IN  kept[Len(s)]

\* A loop that adds up.
Total(v) ==
    LET upto[i \in 0 .. Len(v)] == IF i = 0 THEN 0 ELSE upto[i - 1] + v[i]
    IN  upto[Len(v)]

Primaries(s) == Kept(s, [at: Nat, kind: Kinds \ {"ASSET"}])

\* countRequestsInLastMinute, of collectPrimaryRequestTimes.
InLastMinute(s, t) ==
    Cardinality({i \in DOMAIN s : /\ s[i].kind # "ASSET"
                                  /\ s[i].at <= t /\ t - s[i].at <= Minute})

\* analyzeRequestTiming, as the number and sum of the intervals, n * n times
\* their variance (the squares of the differences of every two, added up) and
\* the longest run of ultra-fast ones.
Timing(primaries) ==
    LET s == Newest(primaries, Config.sample_size)
        gaps == IF Len(s) < 2 THEN <<>>
                ELSE [i \in 1 .. Len(s) - 1 |-> s[i + 1].at - s[i].at]
        d == Kept(gaps, Nat \ {0})
        square(i, j) == (d[i] - d[j]) * (d[i] - d[j])
        runs == {n \in 1 .. Len(d) : \E i \in 0 .. Len(d) - n :
                     \A k \in i + 1 .. i + n : d[k] < UltraFast}
    IN  [n |-> Len(d), sum |-> Total(d),
         spread |-> Total([i \in 1 .. Len(d) |-> Total([j \in 1 .. i - 1 |-> square(i, j)])]),
         run |-> Max({0} \cup runs)]

\* The average compared with a number of times 10 ms.
AvgAtLeast(t, v) == t.n > 0 /\ t.sum >= v * Resolution * t.n
AvgAtMost(t, v) == t.sum <= v * Resolution * t.n
AvgAbove(t, v) == ~AvgAtMost(t, v)

\* The standard deviation is less, or more, than the k-th part of the average
\* (a number is greater than a fraction if it is greater than its whole part).
DeviationBelow(t, k) == k * k * t.spread < t.sum * t.sum
DeviationAbove(t, k) == t.spread > (t.sum * t.sum) \div (k * k)

\* As regular as a machine; and ultra-fast several times in a row.
Mechanical(t) == AvgAtLeast(t, 10) /\ AvgAtMost(t, 50) /\ DeviationBelow(t, 10)
Burst(t) == t.run >= Config.burst_consecutive_count

\* Variant: documents count for as long as they are kept.
MatureForever(s, t) ==
    {i \in DOMAIN s : s[i].kind = "DOCUMENT" /\ t - s[i].at > Window}

\* analyzeAssetFollowup: documents old enough to have been followed, and
\* those that were not followed by an asset within the window.
Mature(s, t) ==
    {i \in DOMAIN s : /\ s[i].kind = "DOCUMENT" /\ s[i].at >= t - Lookback
                      /\ t - s[i].at > Window}

\* Variant: an asset of the same millisecond does not count.
FollowedLater(s, i) ==
    \E j \in i + 1 .. Len(s) : /\ s[j].kind = "ASSET"
                               /\ s[j].at - s[i].at \in 1 .. Window

Followed(s, i) ==
    \E j \in i + 1 .. Len(s) : s[j].kind = "ASSET" /\ s[j].at - s[i].at <= Window

\* analyzeRequest: points for what looks like a machine; a rate above the
\* limit blocks by itself.
Points(s, t) ==
    LET rpm == InLastMinute(s, t)
        timing == Timing(Primaries(s))
        mature == Mature(s, t)
        missing == {i \in mature : ~Followed(s, i)}
        \* Of no document at all there is no share: 0 / 0 is not a number.
        Share(p) == mature # {} /\ 100 * Cardinality(missing) >= p * Cardinality(mature)
        If(p, n) == IF p THEN n ELSE 0
        points == If(4 * rpm > 3 * Config.max_requests_per_minute, 30)
                  + If(Mechanical(timing), 30)
                  + If(Burst(timing), 20)
                  + If(/\ AvgAbove(timing, 10) /\ AvgAtMost(timing, 30)
                       /\ DeviationBelow(timing, 2) /\ ~Mechanical(timing), 15)
                  + If(/\ Cardinality(mature) >= Config.min_document_samples
                       /\ Share(80), 15)
                  + If(/\ Cardinality(mature) >= Config.min_document_samples
                       /\ Cardinality(mature) >= Config.document_only_min_samples
                       /\ Share(95), 50)
    IN  IF AvgAbove(timing, 100) /\ DeviationAbove(timing, 2) THEN Max({0, points - 10})
        ELSE points

\* Variant: the request is not among those that are counted.
AnalyzeRequestBefore(s, t) ==
    LET rpm == InLastMinute(Front(s), t)
        points == Points(s, t)
    IN  [rpm |-> rpm,
         score |-> IF rpm > Config.max_requests_per_minute \/ points >= 50 THEN "BLOCKED"
                   ELSE IF points >= 25 THEN "SUSPICIOUS" ELSE "CLEAN"]

AnalyzeRequest(s, t) ==
    LET rpm == InLastMinute(s, t)
        points == Points(s, t)
    IN  [rpm |-> rpm,
         score |-> IF rpm > Config.max_requests_per_minute \/ points >= 50 THEN "BLOCKED"
                   ELSE IF points >= 25 THEN "SUSPICIOUS" ELSE "CLEAN"]

AnalyzeAndTrackRequest ==
    /\ Len(sent) < MaxRequests
    /\ \E gap \in Gaps, kind \in Kinds :
         LET t == now + gap
             s == Trim(Append(samples, [at |-> t, kind |-> kind]), t)
         IN  /\ now' = t /\ samples' = s
             /\ analysis' = AnalyzeRequest(s, t)
             /\ sent' = Append(sent, [at |-> t, kind |-> kind])

Spec == Init /\ [][AnalyzeAndTrackRequest]_vars

-----------------------------------------------------------------------------
(* Properties.                                                             *)

\* Types; and the history of a fingerprint never exceeds its cap
\* (trimRequestHistory).
TypeOK ==
    /\ samples \in Seq(Sample) /\ Len(samples) <= MaxSamples
    /\ analysis \in [score: Scores, rpm: Nat]

\* However the history was trimmed on the way, it is the newest part of all
\* requests: as many as there were in the retention time, up to the cap
\* (trimRequestHistory).
HistoryIsWindow ==
    LET young == {i \in DOMAIN sent : now - sent[i].at <= Retention}
    IN  /\ TypeOK
        /\ samples = Newest(sent, Min({Cardinality(young), MaxSamples}))

\* The requests of the last minute, and those for pages among them.
LastMinute == {i \in DOMAIN sent : now - sent[i].at <= Minute}
PagesInMinute == {i \in LastMinute : sent[i].kind # "ASSET"}

\* Who asks for more pages in a minute than the limit is blocked, whatever
\* the rhythm, as long as the minute's requests fit into the history.
RateIsLimited ==
    Cardinality(LastMinute) <= MaxSamples
        /\ Cardinality(PagesInMinute) > Config.max_requests_per_minute
      => analysis.score = "BLOCKED"

\* A blocked client that does what Retry-After tells it is let through: the first
\* page after block_duration_seconds of silence is not blocked, whatever was sent
\* before and however it was judged (analyzeRequest).  No block is remembered, so
\* it may end sooner; and an asset, which leaves the rhythm as it was, may still
\* be refused after it.
SilenceLifts ==
    \A n \in {Len(sent) - 1} :
        /\ n > 0 /\ now - sent[n].at > BlockDuration
        /\ sent[n + 1].kind # "ASSET"
        => analysis.score # "BLOCKED"

\* A browser is let through: who fetches an asset after every page, within
\* the window, leaves a tenth of a second between pages that are not asked for
\* at once, and stays below three quarters of the limit, is not blocked
\* (analyzeAssetFollowup).
BrowsersPass ==
    LET pages == {i \in DOMAIN sent : sent[i].kind # "ASSET"}
        left == {i \in pages : sent[i].kind = "DOCUMENT" /\ now - sent[i].at > Window}
    IN  /\ \A i \in left : \E j \in DOMAIN sent :
              j > i /\ sent[j].kind = "ASSET" /\ sent[j].at - sent[i].at <= Window
        /\ \A i, j \in pages : sent[j].at - sent[i].at \notin 1 .. UltraFast - 1
        /\ 4 * Cardinality(PagesInMinute) <= 3 * Config.max_requests_per_minute
        => analysis.score # "BLOCKED"
=============================================================================
