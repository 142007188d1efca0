------------------------------ MODULE Telemetry ------------------------------
(***************************************************************************)
(* Metrics recorded by workers while a scraper renders the registry.  A    *)
(* chunk is recorded metric by metric, each under its own lock; a histogram*)
(* is collected with its lock taken once for the buckets, once for the sum *)
(* and once for the count.                                                 *)
(***************************************************************************)
EXTENDS Integers, FiniteSets, FiniteSetsExt

CONSTANTS
    Recorders,    \* workers that record chunks
    Bounds,       \* finite bucket bounds, positive
    Durations,    \* durations of chunks; 0 is one the clock did not see
    ChunkBytes,   \* bytes of a chunk
    MaxChunks     \* bound: chunks recorded

ASSUME TelemetryAssumption ==
    /\ IsFiniteSet(Recorders)
    /\ IsFiniteSet(Bounds) /\ Bounds \subseteq Nat \ {0} /\ Bounds # {}
    /\ IsFiniteSet(Durations) /\ Durations \subseteq Nat
    /\ ChunkBytes \in Nat \ {0} /\ MaxChunks \in Nat

VARIABLES
    bytesTotal,     \* chunkguard_bytes_downloaded_total
    rawCounts,      \* counts of the duration histogram's series, per bucket
    series,         \* [sum, count] of it
    toObserve,      \* duration a worker still has to observe, 0 if none
    observations,   \* duration -> chunks observed with it (history)
    scrapePc,       \* "idle", "counter", "buckets", "sum", "count" or "rendered"
    scraped,        \* what the scrape rendered so far
    atStart,        \* the observations when it began (history)
    previous        \* the scrape before

telemetryVars == <<bytesTotal, rawCounts, series, toObserve, observations,
                   scrapePc, scraped, atStart, previous>>

Infinity == 1 + Max(Bounds \cup Durations)
Buckets == Bounds \cup {Infinity}
Nothing == [bytes |-> 0, buckets |-> [b \in Buckets |-> 0], sum |-> 0, count |-> 0]

\* bisect_right: a value on a bound goes one bucket up.
BucketAbove(value) == Min({b \in Buckets : value < b})

\* bisect_left: the first bucket whose bound is not below the value.
BucketOf(value) == Min({b \in Buckets : value =< b})

\* Observations at or below a bound.
AtOrBelow(obs, bound) == FoldSet(LAMBDA d, n : n + obs[d], 0, {d \in Durations : d =< bound})

\* Counts of the buckets up to each.
Cumulative(raw) ==
    [b \in Buckets |-> FoldSet(LAMBDA c, n : n + raw[c], 0, {c \in Buckets : c =< b})]

TelemetryInit ==
    /\ bytesTotal = 0
    /\ rawCounts = [b \in Buckets |-> 0]
    /\ series = [sum |-> 0, count |-> 0]
    /\ toObserve = [r \in Recorders |-> 0]
    /\ observations = [d \in Durations |-> 0]
    /\ scrapePc = "idle"
    /\ scraped = Nothing /\ previous = Nothing
    /\ atStart = observations

\* Counter.inc: read and written under the counter's lock.
Inc(amount) == amount >= 0 /\ bytesTotal' = bytesTotal + amount

\* record_chunk: the bytes, and then the duration unless it is zero.
RecordBytes(r) ==
    /\ toObserve[r] = 0
    /\ bytesTotal < MaxChunks * ChunkBytes
    /\ Inc(ChunkBytes)
    /\ \E d \in Durations : toObserve' = [toObserve EXCEPT ![r] = d]
    /\ UNCHANGED <<rawCounts, series, observations, scrapePc, scraped, atStart, previous>>

\* Histogram.observe: bucket, sum and count under one lock.
Observe(r) ==
    /\ toObserve[r] # 0
    /\ LET d == toObserve[r] IN
           /\ rawCounts' = [rawCounts EXCEPT ![BucketOf(d)] = @ + 1]
           /\ series' = [sum |-> series.sum + d, count |-> series.count + 1]
           /\ observations' = [observations EXCEPT ![d] = @ + 1]
    /\ toObserve' = [toObserve EXCEPT ![r] = 0]
    /\ UNCHANGED <<bytesTotal, scrapePc, scraped, atStart, previous>>

\* MetricsRegistry.render, metric by metric.
BeginScrape ==
    /\ scrapePc = "idle"
    /\ scrapePc' = "counter"
    /\ atStart' = observations
    /\ UNCHANGED <<bytesTotal, rawCounts, series, toObserve, observations, scraped, previous>>

CollectCounter ==
    /\ scrapePc = "counter"
    /\ scrapePc' = "buckets"
    /\ scraped' = [Nothing EXCEPT !.bytes = bytesTotal]
    /\ UNCHANGED <<bytesTotal, rawCounts, series, toObserve, observations, atStart, previous>>

CollectBuckets ==
    /\ scrapePc = "buckets"
    /\ scrapePc' = "sum"
    /\ scraped' = [scraped EXCEPT !.buckets = Cumulative(rawCounts)]
    /\ UNCHANGED <<bytesTotal, rawCounts, series, toObserve, observations, atStart, previous>>

CollectSum ==
    /\ scrapePc = "sum"
    /\ scrapePc' = "count"
    /\ scraped' = [scraped EXCEPT !.sum = series.sum]
    /\ UNCHANGED <<bytesTotal, rawCounts, series, toObserve, observations, atStart, previous>>

CollectCount ==
    /\ scrapePc = "count"
    /\ scrapePc' = "rendered"
    /\ scraped' = [scraped EXCEPT !.count = series.count]
    /\ UNCHANGED <<bytesTotal, rawCounts, series, toObserve, observations, atStart, previous>>

\* The payload is sent, and the scraper comes back later.
Served ==
    /\ scrapePc = "rendered"
    /\ scrapePc' = "idle"
    /\ previous' = scraped /\ scraped' = Nothing
    /\ UNCHANGED <<bytesTotal, rawCounts, series, toObserve, observations, atStart>>

Scrape == BeginScrape \/ CollectCounter \/ CollectBuckets \/ CollectSum \/ CollectCount \/ Served

TelemetryNext == Scrape \/ \E r \in Recorders : RecordBytes(r) \/ Observe(r)

TelemetrySpec == TelemetryInit /\ [][TelemetryNext]_telemetryVars

-----------------------------------------------------------------------------
(* Properties *)

(***************************************************************************)
(* A rendered histogram says what was observed: every bucket holds the     *)
(* observations at or below its bound at some moment of the scrape, a value*)
(* on the bound included; the sum and the count, read later, are of no     *)
(* fewer observations than the +Inf bucket and no more than there are now; *)
(* and nothing a scraper reads as a counter ever falls between scrapes.    *)
(***************************************************************************)
ScrapeIsConsistent ==
    scrapePc = "rendered" =>
        /\ \A b \in Buckets :
               scraped.buckets[b] \in AtOrBelow(atStart, b)..AtOrBelow(observations, b)
        /\ scraped.buckets[Infinity] =< scraped.count /\ scraped.count =< series.count
        /\ scraped.sum =< series.sum
        /\ scraped.bytes >= previous.bytes /\ scraped.sum >= previous.sum
        /\ scraped.buckets[Infinity] >= previous.count
=============================================================================
