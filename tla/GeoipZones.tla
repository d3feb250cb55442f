---------------------------- MODULE GeoipZones ----------------------------
(***************************************************************************)
(* The local zone of awg-jump and the exceptions from it.  Sources name    *)
(* lists of prefixes, which an update fetches one after the other, writes  *)
(* to a cache and swaps into the set geoip_local.  Exclusions go into the  *)
(* set geoip_excluded while a node for the zone is usable.                 *)
(***************************************************************************)
EXTENDS Integers, FiniteSets

CONSTANTS
    SourceId,          \* ids of sources, 1..n
    Country,           \* country codes
    Url,               \* addresses of lists; a list is known by its address
    FirstSource,       \* the source in the database at the start
    Excluded,          \* addresses of exclusions
    GeoSlot,           \* requests and updates in flight
    MaxGeoRequests,    \* bound on the requests in a behaviour
    MaxGeoFaults       \* bound on the faults in a behaviour

ASSUME GeoipAssumption ==
    /\ SourceId \subseteq Nat \ {0} /\ 1 \in SourceId
    /\ FirstSource \in [code: Country, url: Url, on: BOOLEAN]
    /\ MaxGeoRequests \in Nat /\ MaxGeoFaults \in Nat
    /\ "none" \notin GeoSlot /\ "none" \notin Url

GeoSource == [code: Country, url: Url, on: BOOLEAN]
NoSource == [code |-> "no row"]
Absent == {"no set"}
Exclusion == {"none", "off", "on"}

VARIABLES
    sources,      \* committed rows of geoip_sources
    cache,        \* the list in the file of a country
    zone,         \* geoip_local: the lists that are merged in it
    fresh,        \* geoip_local_new
    updating,     \* _update_running
    exclusions,   \* committed rows of geoip_exclusions
    changed,      \* those rows as the writer sees them
    holder,       \* the request that holds the write lock, or "none"
    excluded,     \* geoip_excluded
    marked,       \* iptables marks for a node of the zone
    tunnelled,    \* the table of the zone leads into awg2
    geoNode,      \* the node for the zone
    tasks,        \* requests and updates in flight
    missed,       \* history: a change of the sources has not reached an update
    late,         \* history: an exclusion or a mark was overtaken, or routing failed half-way
    geoRequests, geoFaults

zoneVars == <<sources, cache, zone, fresh, updating, missed>>
exclusionVars == <<exclusions, changed, holder, excluded, marked, tunnelled, geoNode, late>>
geoipVars == <<zoneVars, exclusionVars, tasks, geoRequests, geoFaults>>

NoTask == [phase |-> "idle"]
Listed(table) == {i \in SourceId : table[i] # NoSource}
On(table) == {i \in Listed(table) : table[i].on}

---------------------------------------------------------------------------
(* Requests on sources *)

Begin(s, task) ==
    /\ tasks[s] = NoTask /\ geoRequests > 0 /\ geoRequests' = geoRequests - 1
    /\ tasks' = [tasks EXCEPT ![s] = task]
    /\ UNCHANGED <<zoneVars, exclusionVars, geoFaults>>

SourceTask(kind, id, seen, row) ==
    [phase |-> "commit", kind |-> kind, id |-> id, seen |-> seen, row |-> row]

\* 409 if the country has a source; a default URL is tried before.
CreateSource(s) == \E c \in Country, u \in Url :
    /\ \A i \in Listed(sources) : sources[i].code # c
    /\ Begin(s, SourceTask("create", 0, NoSource, [code |-> c, url |-> u, on |-> TRUE]))

UpdateSource(s) == \E i \in Listed(sources), u \in Url, on \in BOOLEAN :
    Begin(s, SourceTask("update", i, sources[i], [sources[i] EXCEPT !.url = u, !.on = on]))

\* 422 for the only source
DeleteSource(s) == \E i \in Listed(sources) :
    /\ Cardinality(Listed(sources)) > 1
    /\ Begin(s, SourceTask("delete", i, sources[i], NoSource))

\* POST /update, or the scheduler
TriggerUpdate(s) == Begin(s, [phase |-> "start", kind |-> "trigger"])

Storable(t) ==
    /\ t.kind = "create" => Listed(sources) # SourceId
    /\ t.kind = "update" => sources[t.id] # NoSource

Stored(t) ==
    CASE t.kind = "create" ->
            LET id == CHOOSE i \in SourceId : sources[i] = NoSource /\ \A j \in SourceId : j < i => sources[j] # NoSource
            IN [sources EXCEPT ![id] = t.row]
      [] t.kind = "update" ->
            [sources EXCEPT ![t.id] =
                [f \in DOMAIN @ |-> IF t.row[f] = t.seen[f] THEN @[f] ELSE t.row[f]]]
      [] t.kind = "delete" -> [sources EXCEPT ![t.id] = NoSource]

\* The request is committed before its background task starts; one that changes neither
\* the URL nor the switch has none.
CommitSource(s) ==
    /\ tasks[s].phase = "commit" /\ Storable(tasks[s])
    /\ sources' = Stored(tasks[s])
    /\ tasks' = [r \in GeoSlot |->
            IF r = s THEN IF tasks[s].row = tasks[s].seen THEN NoTask ELSE [phase |-> "start", kind |-> "change"]
            ELSE IF tasks[r].phase \in {"fetch", "fill", "swap", "note"} THEN [tasks[r] EXCEPT !.clean = FALSE]
            ELSE tasks[r]]
    /\ UNCHANGED <<cache, zone, fresh, updating, missed, exclusionVars, geoRequests, geoFaults>>

RefuseSource(s) ==
    /\ tasks[s].phase = "commit" /\ ~Storable(tasks[s])
    /\ tasks' = [tasks EXCEPT ![s] = NoTask]
    /\ UNCHANGED <<zoneVars, exclusionVars, geoRequests, geoFaults>>

---------------------------------------------------------------------------
(* The update *)

\* Mutant of NoUpdate: updates overlap
NoUpdateAlways == TRUE

NoUpdate == ~updating

StartUpdate(s) ==
    /\ tasks[s].phase = "start" /\ NoUpdate
    /\ updating' = TRUE
    /\ tasks' = [tasks EXCEPT ![s] =
            [phase |-> "fetch", left |-> {<<i, sources[i]>> : i \in On(sources)}, got |-> {}, clean |-> TRUE]]
    /\ UNCHANGED <<sources, cache, zone, fresh, missed, exclusionVars, geoRequests, geoFaults>>

\* "Update already in progress, skipping", or 409
SkipUpdate(s) ==
    /\ tasks[s].phase = "start" /\ ~NoUpdate
    /\ missed' = (missed \/ tasks[s].kind = "change")
    /\ tasks' = [tasks EXCEPT ![s] = NoTask]
    /\ UNCHANGED <<sources, cache, zone, fresh, updating, exclusionVars, geoRequests, geoFaults>>

\* The sources in the order of their ids; each list goes into the cache at once.
FetchList(s) ==
    /\ tasks[s].phase = "fetch"
    /\ \E p \in tasks[s].left :
          /\ \A q \in tasks[s].left : p[1] <= q[1]
          /\ cache' = [cache EXCEPT ![p[2].code] = p[2].url]
          /\ tasks' = [tasks EXCEPT ![s].left = @ \ {p}, ![s].got = @ \cup {p[2].url}]
    /\ UNCHANGED <<sources, zone, fresh, updating, missed, exclusionVars, geoRequests, geoFaults>>

\* create_or_update removes an old temporary set, makes a new one, ...
MakeSet(s) ==
    /\ tasks[s].phase = "fetch" /\ tasks[s].left = {}
    /\ fresh' = {} /\ tasks' = [tasks EXCEPT ![s].phase = "fill"]
    /\ UNCHANGED <<sources, cache, zone, updating, missed, exclusionVars, geoRequests, geoFaults>>

\* ... fills it, ...
FillSet(s) ==
    /\ tasks[s].phase = "fill" /\ fresh # Absent
    /\ fresh' = fresh \cup tasks[s].got /\ tasks' = [tasks EXCEPT ![s].phase = "swap"]
    /\ UNCHANGED <<sources, cache, zone, updating, missed, exclusionVars, geoRequests, geoFaults>>

\* ... and swaps the two.
SwapSet(s) ==
    /\ tasks[s].phase = "swap" /\ fresh # Absent
    /\ zone' = fresh /\ fresh' = Absent
    /\ tasks' = [tasks EXCEPT ![s].phase = "note"]
    /\ UNCHANGED <<sources, cache, updating, missed, exclusionVars, geoRequests, geoFaults>>

\* The number of prefixes is committed to the rows.
NoteCounts(s) ==
    /\ tasks[s].phase = "note"
    /\ missed' = (missed /\ ~tasks[s].clean)
    /\ updating' = FALSE /\ tasks' = [tasks EXCEPT ![s] = NoTask]
    /\ UNCHANGED <<sources, cache, zone, fresh, exclusionVars, geoRequests, geoFaults>>

\* A list that cannot be had after three attempts, or ipset: logged, and nothing is tried
\* again.
UpdateFails(s) ==
    /\ tasks[s].phase \in {"fetch", "fill", "swap"}
    /\ geoFaults > 0 /\ geoFaults' = geoFaults - 1
    /\ fresh' = IF tasks[s].phase = "swap" THEN Absent ELSE fresh
    /\ missed' = TRUE /\ updating' = FALSE
    /\ tasks' = [tasks EXCEPT ![s] = NoTask]
    /\ UNCHANGED <<sources, cache, zone, exclusionVars, geoRequests>>

---------------------------------------------------------------------------
(* Exclusions and the node of the zone *)

Usable == geoNode = "up"

\* Mutant of Prefixes: also those that are switched off
PrefixesOfAll(rows) == {a \in Excluded : rows[a] # "none"}

\* get_enabled_exclusion_prefixes
Prefixes(rows) == {a \in Excluded : rows[a] = "on"}

\* POST, PUT and DELETE /exclusions: a row appears, is switched, renamed, or goes.  A PUT
\* with the old values writes nothing, but synchronises.
ChangeExclusion(s) == \E a, b \in Excluded, value \in Exclusion :
    /\ exclusions[a] # "none" \/ (a = b /\ value # "none")
    /\ a # b => exclusions[b] = "none" /\ value # "none"
    /\ Begin(s, IF a = b /\ exclusions[a] = value THEN [phase |-> "read", whole |-> FALSE]
                ELSE [phase |-> "flush", seen |-> exclusions,
                      rows |-> [exclusions EXCEPT ![a] = IF a = b THEN value ELSE "none", ![b] = value]])

\* POST /routing/apply, restarts of the routing, changes of nodes
ApplyRouting(s) == Begin(s, [phase |-> "read", whole |-> TRUE])

\* The row is still there, or still not.
Flushable(t) == \A a \in Excluded :
    t.rows[a] # t.seen[a] => (exclusions[a] = "none" <=> t.seen[a] = "none")

FlushExclusion(s) ==
    /\ tasks[s].phase = "flush" /\ holder = "none" /\ Flushable(tasks[s])
    /\ holder' = s
    /\ changed' = [a \in Excluded |->
            IF tasks[s].rows[a] = tasks[s].seen[a] THEN exclusions[a] ELSE tasks[s].rows[a]]
    /\ tasks' = [tasks EXCEPT ![s] = [phase |-> "sync"]]
    /\ UNCHANGED <<zoneVars, exclusions, excluded, marked, tunnelled, geoNode, late, geoRequests, geoFaults>>

RefuseExclusion(s) ==
    /\ tasks[s].phase = "flush" /\ ~(holder = "none" /\ Flushable(tasks[s]))
    /\ tasks' = [tasks EXCEPT ![s] = NoTask]
    /\ UNCHANGED <<zoneVars, exclusionVars, geoRequests, geoFaults>>

\* What others have read of the exclusions is old now.
Overtaken == [r \in GeoSlot |-> IF tasks[r].phase = "install" THEN [tasks[r] EXCEPT !.clean = FALSE] ELSE tasks[r]]

SyncExclusion(s) ==
    /\ tasks[s].phase = "sync"
    /\ IF Usable THEN excluded' = Prefixes(changed) /\ late' = ~marked
                 ELSE excluded' = excluded /\ late' = TRUE
    /\ tasks' = [Overtaken EXCEPT ![s] = [phase |-> "settle"]]
    /\ UNCHANGED <<zoneVars, exclusions, changed, holder, marked, tunnelled, geoNode, geoRequests, geoFaults>>

\* ipset fails: the old set stays, and the request is rolled back.
SyncExclusionFails(s) ==
    /\ tasks[s].phase = "sync" /\ Usable /\ geoFaults > 0 /\ geoFaults' = geoFaults - 1
    /\ holder' = "none" /\ changed' = exclusions
    /\ tasks' = [tasks EXCEPT ![s] = NoTask]
    /\ UNCHANGED <<zoneVars, exclusions, excluded, marked, tunnelled, geoNode, late, geoRequests>>

CommitExclusion(s) ==
    /\ tasks[s].phase = "settle"
    /\ exclusions' = changed /\ holder' = "none"
    /\ tasks' = [Overtaken EXCEPT ![s] = NoTask]
    /\ UNCHANGED <<zoneVars, changed, excluded, marked, tunnelled, geoNode, late, geoRequests, geoFaults>>

ReadExclusions(s) ==
    /\ tasks[s].phase = "read"
    /\ tasks' = [tasks EXCEPT ![s] =
            [phase |-> "install", whole |-> @.whole, usable |-> Usable, list |-> Prefixes(exclusions),
             clean |-> holder = "none"]]
    /\ UNCHANGED <<zoneVars, exclusionVars, geoRequests, geoFaults>>

\* What the kernel holds for the zone
Net == [set |-> excluded, marks |-> marked, table |-> tunnelled]

Leaves(net) == excluded' = net.set /\ marked' = net.marks /\ tunnelled' = net.table

\* setup_policy_routing points the table to awg2, or away from it; setup_iptables fills the
\* set, removes all marks and makes the new ones.
Routed(net, usable, list) ==
    [set |-> IF usable THEN list ELSE net.set, marks |-> usable, table |-> usable]

\* A command fails: nothing is undone, and nobody tries again.
RoutingFailures(net, usable, list) ==
    {net, [net EXCEPT !.table = usable],
     [Routed(net, usable, list) EXCEPT !.marks = net.marks],
     [Routed(net, usable, list) EXCEPT !.marks = FALSE],
     Routed(net, usable, list)}

RoutingFails(net, usable, list) ==
    late' = TRUE /\ \E left \in RoutingFailures(net, usable, list) : Leaves(left)

\* All of the routing, or the set alone
InstallExclusions(s) ==
    LET t == tasks[s] IN
    /\ t.phase = "install"
    /\ Leaves(IF t.whole THEN Routed(Net, t.usable, t.list)
              ELSE [Net EXCEPT !.set = IF t.usable THEN t.list ELSE @])
    /\ late' = IF t.usable THEN ~t.clean \/ ~(t.whole \/ marked) ELSE late
    /\ tasks' = [tasks EXCEPT ![s] = NoTask]
    /\ UNCHANGED <<zoneVars, exclusions, changed, holder, geoNode, geoRequests, geoFaults>>

\* The set alone is swapped at once, or stays.
InstallFails(s) ==
    LET t == tasks[s] IN
    /\ t.phase = "install" /\ geoFaults > 0 /\ geoFaults' = geoFaults - 1
    /\ IF t.whole THEN RoutingFails(Net, t.usable, t.list)
                  ELSE UNCHANGED <<excluded, marked, tunnelled, late>>
    /\ tasks' = [tasks EXCEPT ![s] = NoTask]
    /\ UNCHANGED <<zoneVars, exclusions, changed, holder, geoNode, geoRequests>>

NodeRequest ==
    /\ geoRequests > 0 /\ geoRequests' = geoRequests - 1
    /\ UNCHANGED <<zoneVars, exclusions, changed, holder>>

\* set_geoip_node on: under the write lock, with all of the routing
SelectGeoip ==
    /\ NodeRequest /\ holder = "none" /\ geoNode = "none" /\ geoNode' = "up"
    /\ Leaves(Routed(Net, TRUE, Prefixes(exclusions))) /\ late' = FALSE
    /\ tasks' = Overtaken /\ UNCHANGED geoFaults

\* The rows are rolled back, and the table may lead into awg2 already.
SelectFails ==
    /\ NodeRequest /\ holder = "none" /\ geoNode = "none"
    /\ geoFaults > 0 /\ geoFaults' = geoFaults - 1
    /\ RoutingFails(Net, TRUE, Prefixes(exclusions))
    /\ UNCHANGED <<geoNode, tasks>>

\* awg2 goes, and with it the routes into it.
ClearGeoip ==
    /\ NodeRequest /\ holder = "none" /\ geoNode # "none" /\ geoNode' = "none"
    /\ Leaves(Routed(Net, FALSE, {}))
    /\ UNCHANGED <<late, tasks, geoFaults>>

ClearFails ==
    /\ NodeRequest /\ holder = "none" /\ geoNode # "none"
    /\ geoFaults > 0 /\ geoFaults' = geoFaults - 1
    /\ RoutingFails([Net EXCEPT !.table = FALSE], FALSE, {})
    /\ UNCHANGED <<geoNode, tasks>>

\* A redeploy makes the node unusable and changes no rule; at its end the task points the
\* table to awg2 again, and no more.
RedeployGeoip ==
    /\ NodeRequest /\ geoNode = "up" /\ geoNode' = "deploying"
    /\ UNCHANGED <<excluded, marked, tunnelled, late, tasks, geoFaults>>

GeoipRedeployed ==
    /\ geoNode = "deploying" /\ geoNode' = "up" /\ tunnelled' = TRUE
    /\ late' = (late \/ ~marked)
    /\ UNCHANGED <<zoneVars, exclusions, changed, holder, excluded, marked, tasks, geoRequests, geoFaults>>

\* _init_geoip_and_routing: the lists of the enabled sources from the cache
Restored == {cache[sources[i].code] : i \in On(sources)} \ {"none"}

\* With the container goes what the kernel holds, and with uvicorn alone it stays.  Both
\* parts of the start log their failures, and the program runs on.
ZoneRestored ==
    /\ zone' = Restored /\ fresh' = Absent
    /\ missed' = (missed \/ \E s \in GeoSlot : tasks[s].phase \in {"start", "fetch", "fill", "swap", "note"})

ZoneNotRestored ==
    zone' \in {zone, {}} /\ fresh' \in {fresh, Absent} /\ missed' = TRUE

RoutingRestored(net) ==
    \/ late' = FALSE /\ Leaves(Routed(net, Usable, Prefixes(exclusions)))
    \/ RoutingFails(net, Usable, Prefixes(exclusions))

GeoipRestart ==
    /\ geoFaults > 0 /\ geoFaults' = geoFaults - 1
    /\ ZoneRestored \/ ZoneNotRestored
    /\ \E net \in {Net, [set |-> {}, marks |-> FALSE, table |-> FALSE]} : RoutingRestored(net)
    /\ tasks' = [s \in GeoSlot |-> NoTask] /\ updating' = FALSE
    /\ holder' = "none" /\ changed' = exclusions
    /\ UNCHANGED <<sources, cache, exclusions, geoNode, geoRequests>>

---------------------------------------------------------------------------
(* Specification *)

GeoipInit ==
    /\ sources = [i \in SourceId |-> IF i = 1 THEN FirstSource ELSE NoSource]
    /\ cache = [c \in Country |-> IF c = FirstSource.code THEN FirstSource.url ELSE "none"]
    /\ zone = IF FirstSource.on THEN {FirstSource.url} ELSE {}
    /\ fresh = Absent /\ updating = FALSE
    /\ exclusions = [a \in Excluded |-> "none"] /\ changed = exclusions /\ holder = "none"
    /\ excluded = {} /\ marked = FALSE /\ tunnelled = FALSE /\ geoNode = "none"
    /\ tasks = [s \in GeoSlot |-> NoTask]
    /\ missed = FALSE /\ late = FALSE
    /\ geoRequests = MaxGeoRequests /\ geoFaults = MaxGeoFaults

GeoipNext ==
    \/ \E s \in GeoSlot :
          \/ CreateSource(s) \/ UpdateSource(s) \/ DeleteSource(s) \/ TriggerUpdate(s)
          \/ CommitSource(s) \/ RefuseSource(s)
          \/ StartUpdate(s) \/ SkipUpdate(s) \/ FetchList(s)
          \/ MakeSet(s) \/ FillSet(s) \/ SwapSet(s) \/ NoteCounts(s) \/ UpdateFails(s)
          \/ ChangeExclusion(s) \/ ApplyRouting(s)
          \/ FlushExclusion(s) \/ RefuseExclusion(s)
          \/ SyncExclusion(s) \/ SyncExclusionFails(s) \/ CommitExclusion(s)
          \/ ReadExclusions(s) \/ InstallExclusions(s) \/ InstallFails(s)
    \/ SelectGeoip \/ SelectFails \/ ClearGeoip \/ ClearFails
    \/ RedeployGeoip \/ GeoipRedeployed \/ GeoipRestart

GeoipSpec == GeoipInit /\ [][GeoipNext]_geoipVars

---------------------------------------------------------------------------
(* Properties *)

\* Types of the variables
GeoipTypeOK ==
    /\ sources \in [SourceId -> GeoSource \cup {NoSource}]
    /\ cache \in [Country -> Url \cup {"none"}]
    /\ zone \subseteq Url /\ (fresh = Absent \/ fresh \subseteq Url)
    /\ exclusions \in [Excluded -> Exclusion] /\ changed \in [Excluded -> Exclusion]
    /\ holder \in GeoSlot \cup {"none"} /\ geoNode \in {"none", "up", "deploying"}
    /\ {updating, marked, tunnelled, missed, late} \subseteq BOOLEAN
    /\ excluded \subseteq Excluded

OneSourcePerCountry ==
    \A i, j \in Listed(sources) : i # j => sources[i].code # sources[j].code

\* When no update runs or waits, the local zone holds the lists of all enabled sources
\* and no other, also after a restart, when it comes from the cache.  Excepted is what the
\* code loses: a change whose update was skipped because another one ran, or failed, until
\* the next update that succeeds; and two sources of one country, which share a file of
\* the cache, as two requests can make them at the same time.
LocalZoneFollows ==
    OneSourcePerCountry /\ ~missed
        /\ (\A s \in GeoSlot : tasks[s].phase \notin {"start", "fetch", "fill", "swap", "note"})
        => zone = {sources[i].url : i \in On(sources)}

\* Whenever the zone leads into the tunnel of the node and no change is under way, exactly
\* the enabled exclusions are kept out of it, for which the set and the marks are needed
\* both.  Excepted is what the code loses: changes and routing applied while the node is
\* being redeployed, routing with a list that a change has overtaken, and routing of which
\* a command has failed, so that the table may lead into the tunnel with an old set or
\* without marks, until all of it is applied again.
ExclusionsRespected ==
    tunnelled /\ holder = "none" /\ ~late => marked /\ excluded = {a \in Excluded : exclusions[a] = "on"}
=============================================================================
