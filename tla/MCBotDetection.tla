--------------------------- MODULE MCBotDetection ---------------------------
(* Small instances of BotDetection for TLC: the counts of the default      *)
(* configuration scaled down, its times and scores as they are.            *)
EXTENDS BotDetection

MCConfig == [max_requests_per_minute |-> 3, sample_size |-> 4, burst_consecutive_count |-> 1,
             min_document_samples |-> 2, document_only_min_samples |-> 2]

\* At once, ultra-fast, almost ultra-fast (two of these and one of those are as
\* regular as a machine, and a burst), after the asset window and just within
\* the minute, after the look-back, after the retention time.
MCGaps == {0, 9, 11, 6000, 30001, 60001}
=============================================================================
