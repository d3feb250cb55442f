-------------------------- MODULE TrafficCounters --------------------------
(***************************************************************************)
(* Traffic totals of awg-gateway.  Every 30 seconds a sample reads the     *)
(* byte counters of the tunnel and of the link that has the default route, *)
(* adds what came since the last sample to totals and to the buckets of    *)
(* the minute, the hour and the day, and drops what is too old.  A counter *)
(* starts again at 0 when its link does, and a link that cannot be read    *)
(* counts as one with the counter 0.  A sample compares the counter with   *)
(* the one before, whichever link that came from.  Bytes received stand    *)
(* for both directions, which the code treats alike.                       *)
(***************************************************************************)
EXTENDS Integers, FiniteSets, Functions

CONSTANTS
    Link, Tunnel,  \* the links of the kernel, one of them awg0
    Span,          \* length of a bucket, by granularity, in ticks of a sample
    Keep,          \* retention, by granularity
    KeepRaw,       \* retention of the samples themselves
    MaxClock,      \* bound on the time
    MaxCarried,    \* bound on the bytes that the links carry
    MaxLinkEvents  \* bound on the restarts and failed reads of links, and on the moves of
                   \* the default route

Granularity == {"minute", "hour", "day"}

\* The columns of a row: local_rx_bytes and vpn_rx_bytes
Column == {"local", "vpn"}

ASSUME TrafficAssumption ==
    /\ Tunnel \in Link /\ "none" \notin Link /\ IsFiniteSet(Link)
    /\ Span \in [Granularity -> Nat \ {0}] /\ Keep \in [Granularity -> Nat] /\ KeepRaw \in Nat
    /\ Span["hour"] % Span["minute"] = 0 /\ Span["day"] % Span["hour"] = 0
    /\ MaxClock \in Nat /\ MaxCarried \in Nat /\ MaxLinkEvents \in Nat

VARIABLES
    clock,
    counter,    \* the counter of each link in the kernel
    uplink,     \* the link of the default route, or "none"
    usage,      \* the state row: time, counters as read, totals; or NoUsage
    samples,    \* totals by the time of the sample
    buckets,    \* bytes by granularity and start of the bucket
    carried,    \* history: what each link carried
    lastLink,   \* history: the link that the last sample read for a column, or "none"
    readLinks,  \* history: the links that samples read for a column
    returned,   \* history: columns for which a sample read a link again after another link,
                \* or after a read that failed
    linkEvents

historyVars == <<lastLink, readLinks, returned>>
trafficVars == <<clock, counter, uplink, usage, samples, buckets, carried, historyVars, linkEvents>>

NoUsage == [at |-> -1]

---------------------------------------------------------------------------
(* Helpers *)

\* Mutant of SumDeltas: what was counted is counted again
SumDeltasWhole(current, previous) == current

\* _sum_deltas
SumDeltas(current, previous) == IF current < previous THEN current ELSE current - previous

\* Mutant of BucketStart: the hour keeps its minutes
BucketStartOfMinute(granularity, time) ==
    time - (time % Span[IF granularity = "hour" THEN "minute" ELSE granularity])

\* _bucket_start
BucketStart(granularity, time) == time - (time % Span[granularity])

\* _upsert_bucket
Upserted(bs, start, delta) ==
    [b \in DOMAIN bs \cup {start} |->
        [c \in Column |-> (IF b \in DOMAIN bs THEN bs[b][c] ELSE 0) + (IF b = start THEN delta[c] ELSE 0)]]

\* _prune_traffic_metrics, for one table
Kept(rs, keep) == [r \in {r \in DOMAIN rs : r >= clock - keep} |-> rs[r]]

\* read_interface_counter_snapshot, where the commands for some columns fail: a failed
\* command, a missing default route or a missing link leaves 0.
SourceLink(bad) ==
    [c \in Column |-> IF c \in bad THEN "none" ELSE IF c = "vpn" THEN Tunnel ELSE uplink]

Reading(bad) ==
    [c \in Column |-> IF SourceLink(bad)[c] = "none" THEN 0 ELSE counter[SourceLink(bad)[c]]]

---------------------------------------------------------------------------
(* Actions *)

Tick ==
    /\ clock < MaxClock /\ clock' = clock + 1
    /\ UNCHANGED <<counter, uplink, usage, samples, buckets, carried, historyVars, linkEvents>>

Carry(i) ==
    /\ SumFunctionOnSet(carried, Link) < MaxCarried
    /\ carried' = [carried EXCEPT ![i] = @ + 1] /\ counter' = [counter EXCEPT ![i] = @ + 1]
    /\ UNCHANGED <<clock, uplink, usage, samples, buckets, historyVars, linkEvents>>

\* The link is made anew, as every start of the tunnel does.
Renew(i) ==
    /\ linkEvents > 0 /\ linkEvents' = linkEvents - 1
    /\ counter[i] > 0 /\ counter' = [counter EXCEPT ![i] = 0]
    /\ UNCHANGED <<clock, uplink, usage, samples, buckets, carried, historyVars>>

\* The default route goes to another link, or away.
Reroute ==
    /\ linkEvents > 0 /\ linkEvents' = linkEvents - 1
    /\ uplink' \in ((Link \ {Tunnel}) \cup {"none"}) \ {uplink}
    /\ UNCHANGED <<clock, counter, usage, samples, buckets, carried, historyVars>>

\* collect_traffic_metrics, in one transaction
Sample(bad) ==
    /\ clock \notin DOMAIN samples
    /\ LET now    == Reading(bad)
           delta  == [c \in Column |-> IF usage = NoUsage THEN 0 ELSE SumDeltas(now[c], usage.raw[c])]
           totals == [c \in Column |-> IF usage = NoUsage THEN now[c] ELSE usage.total[c] + delta[c]]
       IN /\ usage' = [at |-> clock, raw |-> now, total |-> totals]
          /\ samples' = Kept([t \in DOMAIN samples \cup {clock} |->
                                 IF t = clock THEN totals ELSE samples[t]], KeepRaw)
          /\ buckets' = [g \in Granularity |->
                            Kept(IF usage = NoUsage THEN buckets[g]
                                 ELSE Upserted(buckets[g], BucketStart(g, clock), delta), Keep[g])]
    /\ lastLink' = SourceLink(bad)
    /\ readLinks' = [c \in Column |-> readLinks[c] \cup ({SourceLink(bad)[c]} \ {"none"})]
    /\ returned' = returned \cup
          {c \in Column : SourceLink(bad)[c] \in readLinks[c] /\ SourceLink(bad)[c] # lastLink[c]}
    /\ UNCHANGED <<clock, counter, uplink, carried>>

Collect == Sample({}) /\ UNCHANGED linkEvents

CollectBlind ==
    /\ linkEvents > 0 /\ linkEvents' = linkEvents - 1
    /\ \E c \in Column : Sample({c})

---------------------------------------------------------------------------
(* Specification *)

TrafficInit ==
    /\ clock = 0
    /\ counter = [i \in Link |-> 0]
    /\ uplink \in Link \ {Tunnel}
    /\ usage = NoUsage
    /\ samples = [t \in {} |-> 0]
    /\ buckets = [g \in Granularity |-> [b \in {} |-> 0]]
    /\ carried = [i \in Link |-> 0]
    /\ lastLink = [c \in Column |-> "none"]
    /\ readLinks = [c \in Column |-> {}]
    /\ returned = {}
    /\ linkEvents = MaxLinkEvents

TrafficNext ==
    \/ Tick \/ Collect \/ CollectBlind \/ Reroute
    \/ \E i \in Link : Carry(i) \/ Renew(i)

TrafficSpec == TrafficInit /\ [][TrafficNext]_trafficVars

---------------------------------------------------------------------------
(* Properties *)

\* Types of the variables; no total and no bucket is negative.
TrafficTypeOK ==
    /\ clock \in 0..MaxClock
    /\ \A i \in Link : counter[i] \in 0..carried[i]
    /\ \A t \in DOMAIN samples : samples[t] \in [Column -> Nat]
    /\ \A g \in Granularity : \A b \in DOMAIN buckets[g] :
          b % Span[g] = 0 /\ buckets[g][b] \in [Column -> Nat]

Within(fine, coarse, start) ==
    {b \in DOMAIN buckets[fine] : b \in start..(start + Span[coarse] - 1)}

\* A report by hours and one by minutes never contradict each other: as long as no part of
\* an hour is old enough to be dropped, its bucket is the sum of those of its minutes, and
\* so are a day and its hours, over missed samples and restarts of links.
BucketsAgree ==
    \A pair \in {<<"minute", "hour">>, <<"hour", "day">>} :
        \A start \in DOMAIN buckets[pair[2]] :
            start >= usage.at - Keep[pair[1]] =>
                \A c \in Column : buckets[pair[2]][start][c] =
                    SumFunctionOnSet([b \in DOMAIN buckets[pair[1]] |-> buckets[pair[1]][b][c]],
                                     Within(pair[1], pair[2], start))

\* Totals never run backwards, and none is more than the links that it was read from
\* carried, whenever links are made anew between samples, cannot be read, or hand the
\* default route on.  Excepted are columns that came back to a link after another one, or
\* after a failed read: the state row keeps one counter without its link, and bytes of
\* the first visit are counted again.
TotalsHonest ==
    /\ \A t, u \in DOMAIN samples : t <= u => \A c \in Column : samples[t][c] <= samples[u][c]
    /\ usage # NoUsage => \A c \in Column \ returned :
          usage.total[c] <= SumFunctionOnSet(carried, readLinks[c])
=============================================================================
