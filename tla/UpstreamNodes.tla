--------------------------- MODULE UpstreamNodes ---------------------------
(***************************************************************************)
(* The control plane that awg-jump keeps over its upstream nodes: the rows *)
(* of upstream_nodes, the kernel state they are projected on (interfaces   *)
(* awg1 and awg2 and the routes through them), and the processes that work *)
(* on both inside one asyncio loop:                                        *)
(*   - the _node_health_check job with its failover                        *)
(*   - the _awg_health_check job                                           *)
(*   - HTTP handlers (activate, reset, geoip, update, delete, check, ...)  *)
(*   - background deploy and redeploy tasks                                *)
(*   - a crash followed by the startup sequence.                           *)
(* A handler is cut where it awaits with a value read before the await     *)
(* still in use: Begin reads, Finish writes the database, reconfigures the *)
(* kernel and commits.  ORM writes touch only the columns that the handler *)
(* changed, and apply_interface runs without awaits in kernel mode.        *)
(***************************************************************************)
EXTENDS Integers, FiniteSets

CONSTANTS
    N,            \* node ids are 1..N; all rows share one priority
    Threshold,    \* settings.node_failover_threshold
    Req,          \* slots for HTTP handlers that run at the same time
    Task,         \* slots for background deploy tasks that run at the same time
    Kinds,        \* kinds of request the operator issues
    Faults,       \* kinds of fault the environment produces
    Modes,        \* provisioning modes of created nodes
    MaxRequests,  \* bound on requests in a behaviour (node creation is free)
    MaxFaults     \* bound on faults in a behaviour

RequestKinds == {"activate", "reset", "geoip_on", "geoip_off", "update",
                 "delete", "check", "deploy", "redeploy", "failover"}
FaultKinds == {"apply", "task", "link", "restart"}

ASSUME ConstantsAssumption ==
    /\ N \in Nat \ {0} /\ Threshold \in Nat \ {0}
    /\ MaxRequests \in Nat /\ MaxFaults \in Nat
    /\ Kinds \subseteq RequestKinds /\ Faults \subseteq FaultKinds
    /\ Modes \subseteq {"managed", "manual"}

VARIABLES
    row,       \* committed rows of upstream_nodes
    rotate,    \* routing_settings.failover_enabled
    incident,  \* a connection incident without ended_at exists
    awg1Key,   \* private key in the row of interface awg1
    net,       \* kernel: links, primary routes, host routes, geoip marks
    fails,     \* _health_fail_counts
    health,    \* the running _node_health_check
    req,       \* the HTTP handlers in progress
    task,      \* the deploy and redeploy tasks in progress
    remote,    \* what the far end of each node runs with
    reach,     \* nodes whose host answers at present
    grace,     \* nodes whose last deploy is younger than 300 seconds
    lastKey,   \* number of keypairs made so far
    since,     \* history: dead observations since the last attempt on a node
    requests, faults   \* what is left of the bounds

db     == <<row, rotate, incident, awg1Key>>
world  == <<remote, reach, grace, lastKey>>
procs  == <<health, req, task>>
bounds == <<requests, faults>>
vars == <<db, net, fails, procs, world, since, bounds>>

---------------------------------------------------------------------------
(* Values *)

Node   == 1..N
None   == 0
Iface  == {"awg1", "awg2"}

\* A key is an integer: positive if generated here, negative if it came in the
\* configuration file of a manual node, 0 for none (for awg1: its original key).
Key == Int

Status == {"pending", "deploying", "online", "degraded", "offline", "error"}
Listed == {"online", "degraded", "offline"}
Usable == {"online", "degraded"}

Row == [exists: BOOLEAN, manual: BOOLEAN, status: Status, active: BOOLEAN,
        geoip: BOOLEAN, key: Key, deployed: BOOLEAN]
NoRow == [exists |-> FALSE, manual |-> FALSE, status |-> "pending",
          active |-> FALSE, geoip |-> FALSE, key |-> 0, deployed |-> FALSE]

\* kept is history: whatever brought the link up for its node went through and
\* was committed (apply_interface did not raise, no request rolled back after it).
Link == [state: {"absent", "half", "up"}, node: Node \cup {None}, key: Key, local: Key,
         kept: BOOLEAN]
NoLink(s) == [state |-> s, node |-> None, key |-> 0, local |-> 0, kept |-> FALSE]

\* The key of a node's interface and the client key that it accepts
FarEnd == [key: Key, peer: Key]
NoFarEnd == [key |-> 0, peer |-> 0]
Imported(k) == [key |-> k, peer |-> k]

Net == [link: [Iface -> Link], primary: [Iface -> BOOLEAN],
        host: [Iface -> Node \cup {None}], mark: BOOLEAN]
DownNet == [link    |-> [i \in Iface |-> NoLink("absent")],
            primary |-> [i \in Iface |-> FALSE],
            host    |-> [i \in Iface |-> None],
            mark    |-> FALSE]

Health == [pc: {"idle", "pick", "probe", "observe", "decide", "switch", "apply"},
           todo: SUBSET (Node \X BOOLEAN), rotate: BOOLEAN,
           node: Node \cup {None}, was: BOOLEAN,
           act: BOOLEAN, geo: BOOLEAN, key: Key,
           alive: BOOLEAN, est: BOOLEAN,
           target: Node \cup {None}, tkey: Key, tact: BOOLEAN]
NoHealth == [pc |-> "idle", todo |-> {}, rotate |-> FALSE, node |-> None,
             was |-> FALSE, act |-> FALSE, geo |-> FALSE, key |-> 0,
             alive |-> FALSE, est |-> FALSE,
             target |-> None, tkey |-> 0, tact |-> FALSE]

Handler == [kind: RequestKinds \cup {"none"}, node: Node \cup {None}, st: Status,
            key: Key, act: BOOLEAN, geo: BOOLEAN, others: SUBSET Node]
NoHandler == [kind |-> "none", node |-> None, st |-> "pending", key |-> 0,
              act |-> FALSE, geo |-> FALSE, others |-> {}]

Job == [pc: {"idle", "queued", "ssh", "remote", "up", "save", "apply", "routes"},
        kind: {"deploy", "redeploy"}, node: Node \cup {None}, key: Key, peer: Key,
        first: BOOLEAN, act: BOOLEAN, geo: BOOLEAN, drop: BOOLEAN]
NoJob == [pc |-> "idle", kind |-> "deploy", node |-> None, key |-> 0, peer |-> 0,
          first |-> FALSE, act |-> FALSE, geo |-> FALSE, drop |-> FALSE]

---------------------------------------------------------------------------
(* Kernel operations.  Deleting a link takes its routes with it; a default *)
(* or host route is accepted only on a link that is up.                    *)

Deleted(nt, i, s) == [nt EXCEPT !.link[i] = NoLink(s), !.primary[i] = FALSE,
                                !.host[i] = None]

\* apply_node_to_interface: a manual node brings its private key, a managed one
\* is reached with the key in the row of awg1 (which awg2 copies).
LocalKey(k) == IF k < 0 THEN k ELSE awg1Key

\* apply_interface: delete the link, recreate it, setconf with one peer, up
Applied(nt, i, n, k) ==
    [Deleted(nt, i, "absent") EXCEPT
        !.link[i] = [state |-> "up", node |-> n, key |-> k, local |-> LocalKey(k),
                     kept |-> TRUE]]

\* What apply_interface leaves when it raises: no link, one without configuration,
\* or one that setconf has already given the node, down or (mtu) even up
Interrupted(nt, i, n, k) ==
    {Deleted(nt, i, s) : s \in {"absent", "half"}} \cup
    {[Applied(nt, i, n, k) EXCEPT !.link[i].state = s, !.link[i].kept = FALSE] :
        s \in {"half", "up"}}

\* The request that brought link i up ends in a rollback
Abandoned(nt, i) == [nt EXCEPT !.link[i].kept = FALSE]

\* update_vpn_route for awg1, update_geoip_route for awg2
WithPrimary(nt, i, on) ==
    [nt EXCEPT !.primary[i] = on /\ nt.link[i].state = "up"]

\* update_upstream_host_route
WithHost(nt, i, n) ==
    [nt EXCEPT !.host[i] = IF nt.link[i].state = "up" THEN n ELSE None]

Routed(nt, i, n) == WithHost(WithPrimary(nt, i, TRUE), i, n)
Unrouted(nt, i)  == WithHost(WithPrimary(nt, i, FALSE), i, None)

\* awg set <iface> peer <key> remove, on both interfaces
PeerRemoved(nt, n, k) ==
    [nt EXCEPT !.link = [i \in Iface |->
        IF nt.link[i].node = n /\ nt.link[i].key = k
        THEN [nt.link[i] EXCEPT !.node = None, !.key = 0]
        ELSE nt.link[i]]]

\* _apply_current_routing and the routing half of startup, for the active
\* node a and the GeoIP node g that the queries returned (None for no row)
PolicyRouted(nt, a, g) ==
    LET vpn == IF a = None THEN Unrouted(nt, "awg1") ELSE Routed(nt, "awg1", a)
        geo == IF g = None THEN Unrouted(vpn, "awg2") ELSE Routed(vpn, "awg2", g)
    IN [geo EXCEPT !.mark = (g # None)]

\* _apply_current_routing raises: at the first ip rule, at the rule of the excluded
\* table (both primary routes are in), or at ipset and iptables (the routes are
\* complete, the marks old, removed or new).  Route commands themselves only warn.
PolicyFaults(nt, a, g) ==
    {nt}
    \cup (IF g = None THEN {}
          ELSE {WithPrimary(WithPrimary(nt, "awg2", TRUE), "awg1", TRUE)})
    \cup {[PolicyRouted(nt, a, g) EXCEPT !.mark = m] : m \in {nt.mark, FALSE, g # None}}

Pick(S) == IF S = {} THEN {None} ELSE S

ActiveOnline(rw) == {n \in Node : rw[n].active /\ rw[n].status = "online"}
GeoipUsable(rw)  == {n \in Node : rw[n].geoip /\ rw[n].status \in Usable}

\* load_interface: the node an upstream interface is brought up for
Loadable(rw, i) ==
    {n \in Node : /\ IF i = "awg1" THEN rw[n].active ELSE rw[n].geoip
                  /\ rw[n].status \in Usable
                  /\ rw[n].key # 0}

Fault(kind) == kind \in Faults /\ faults > 0 /\ faults' = faults - 1

\* apply_interface raises for node n with key k
ApplyFault(nt, i, n, k, nt2) == Fault("apply") /\ nt2 \in Interrupted(nt, i, n, k)

\* _apply_current_routing raises after the rows rw were flushed
PolicyFault(rw, nt, nt2) ==
    /\ Fault("apply")
    /\ \E a \in Pick(ActiveOnline(rw)), g \in Pick(GeoipUsable(rw)) :
         nt2 \in PolicyFaults(nt, a, g)

---------------------------------------------------------------------------
(* check_health: reading the row, then probing and writing the status *)

\* The tunnel through interface i carries traffic of node n with key k.
Established(i, n, k) ==
    /\ net.link[i].state = "up" /\ net.link[i].node = n /\ net.link[i].key = k
    /\ n \in reach /\ remote[n] = [key |-> k, peer |-> net.link[i].local]

\* Mutant of DumpIface: the tunnel of a GeoIP node is not looked at
DumpActive(act, geo, k) == IF act /\ k # 0 THEN "awg1" ELSE "udp"

\* The interface whose dump is read for a node, if any
DumpIface(act, geo, k) ==
    IF act /\ k # 0 THEN "awg1" ELSE IF geo /\ k # 0 THEN "awg2" ELSE "udp"

ProbeEst(n, act, geo, k) ==
    LET i == DumpIface(act, geo, k) IN i # "udp" /\ Established(i, n, k)

\* Mutant of ProbeAlive: an answering host counts for a selected node too
ProbeAliveByHost(n, act, geo, k) == n \in reach

ProbeAlive(n, act, geo, k) ==
    IF DumpIface(act, geo, k) = "udp" THEN n \in reach
    ELSE ProbeEst(n, act, geo, k) \/ n \in grace

ProbedStatus(n, act, geo, k) ==
    LET alive == ProbeAlive(n, act, geo, k)
        old   == row[n].status
    IN CASE DumpIface(act, geo, k) = "udp" -> IF alive THEN "online" ELSE "offline"
         [] DumpIface(act, geo, k) # "udp" /\ alive ->
               IF old \in {"degraded", "offline"} THEN "online" ELSE old
         [] OTHER -> "degraded"

\* _get_node raises when the row is gone: the probe then writes nothing
StatusWritten(n, act, geo, k) ==
    IF row[n].exists
    THEN [row EXCEPT ![n].status = ProbedStatus(n, act, geo, k)] ELSE row

---------------------------------------------------------------------------
(* _node_health_check and failover *)

Continue(todo) == IF todo = {} THEN NoHealth
                  ELSE [NoHealth EXCEPT !.pc = "pick", !.todo = todo,
                                        !.rotate = health.rotate]

HealthStart ==
    LET list == {n \in Node : row[n].exists /\ row[n].status \in Listed /\ row[n].key # 0}
    IN /\ health.pc = "idle" /\ list # {}
       /\ health' = [NoHealth EXCEPT !.pc = "pick", !.rotate = rotate,
                                     !.todo = {<<n, row[n].active>> : n \in list}]
       /\ UNCHANGED <<db, net, fails, req, task, world, since, bounds>>

HealthRead(n, was) ==
    /\ health.pc = "pick" /\ <<n, was>> \in health.todo
    /\ health' = [health EXCEPT
                    !.pc = IF row[n].exists THEN "probe" ELSE "observe",
                    !.todo = @ \ {<<n, was>>}, !.node = n, !.was = was,
                    !.act = row[n].active, !.geo = row[n].geoip, !.key = row[n].key]
    /\ UNCHANGED <<db, net, fails, req, task, world, since, bounds>>

HealthProbe ==
    LET n == health.node IN
    /\ health.pc = "probe"
    /\ row' = StatusWritten(n, health.act, health.geo, health.key)
    /\ health' = [health EXCEPT
         !.pc = "observe",
         !.alive = row[n].exists /\ ProbeAlive(n, health.act, health.geo, health.key),
         !.est   = row[n].exists /\ ProbeEst(n, health.act, health.geo, health.key)]
    /\ UNCHANGED <<rotate, incident, awg1Key, net, fails, req, task, world, since, bounds>>

Candidates == {n \in Node : /\ row[n].key # 0 /\ ~row[n].geoip
                            /\ row[n].status \in Listed}
Least(S) == {m \in S : \A x \in S : m <= x}

\* Mutant of NextInCircle: the last candidate does not wrap around
NextUpwards(n, S) ==
    LET after == {m \in S : m > n} IN IF after # {} THEN Least(after) ELSE {n}

\* The next candidate after n in the circular (priority, id) order, as a singleton
NextInCircle(n, S) ==
    LET after == {m \in S : m > n}
    IN Least(IF n \in S /\ after # {} THEN after ELSE S)

FailoverTarget(n) ==
    IF health.rotate /\ Candidates # {} THEN NextInCircle(n, Candidates) ELSE {n}

Dead == health.was /\ ~health.alive

\* Mutant of Selected: the selection as it was when the round began
SelectedAsRead == health.was

Selected == row[health.node].exists /\ row[health.node].active

\* Mutant of Outage: closing needs a counted failure
OutageByCount == IF Dead /\ Selected THEN TRUE
                 ELSE IF health.est /\ fails[health.node] > 0 THEN FALSE ELSE incident

\* observe_connection: live without a handshake, or deselected, changes nothing
Outage == IF health.was /\ Selected /\ (~health.alive \/ health.est)
          THEN ~health.alive ELSE incident

\* Mutants of FailCount: no reset by a live check; a live check takes one off
FailCountKept  == fails[health.node] + IF Dead THEN 1 ELSE 0
FailCountLeaky == fails[health.node] + IF Dead THEN 1 ELSE -1

FailCount == IF Dead THEN fails[health.node] + 1 ELSE 0

\* observe_connection, the failure counter and the threshold
HealthObserve ==
    LET n == health.node IN
    /\ health.pc = "observe"
    /\ incident' = Outage
    /\ fails' = [fails EXCEPT ![n] = FailCount]
    /\ since' = [since EXCEPT ![n] = IF health.alive THEN 0
                                     ELSE IF Dead /\ @ < Threshold THEN @ + 1 ELSE @]
    /\ health' = IF Dead /\ FailCount >= Threshold
                 THEN [health EXCEPT !.pc = "decide"] ELSE Continue(health.todo)
    /\ UNCHANGED <<row, rotate, awg1Key, net, req, task, world, bounds>>

\* The count is final; the selection is read again, and the candidates with it.
HealthDecide ==
    /\ health.pc = "decide"
    /\ IF Selected
       THEN \E t \in FailoverTarget(health.node) :
              health' = [health EXCEPT !.pc = "switch", !.target = t,
                                       !.tkey = row[t].key, !.tact = row[t].active]
       ELSE health' = Continue(health.todo)
    /\ UNCHANGED <<db, net, fails, req, task, world, since, bounds>>

\* First commit of failover.  An UPDATE of a deleted row raises and nothing is
\* kept; a target read as active already is not written as active again.
HealthSwitch ==
    LET n == health.node
        t == health.target
        ok == row[n].exists /\ row[t].exists
        moved == [row EXCEPT ![n].active = IF t = n THEN @ ELSE FALSE]
    IN /\ health.pc = "switch"
       /\ row' = IF ok
                 THEN [moved EXCEPT ![t].status = "degraded",
                                    ![t].active = (t # n /\ ~health.tact) \/ @]
                 ELSE row
       /\ health' = IF ok THEN [health EXCEPT !.pc = "apply"] ELSE Continue(health.todo)
       /\ UNCHANGED <<rotate, incident, awg1Key, net, fails, req, task, world, since, bounds>>

\* apply_node, update_vpn_route and update_upstream_host_route for the target
FailedOver == Routed(Applied(net, "awg1", health.target, health.tkey), "awg1", health.target)

\* Applying the target to awg1; the counters are reset whether it works or not.
HealthApply ==
    LET n == health.node
        t == health.target
        done ==
            /\ fails' = [m \in Node |-> IF m \in {n, t} THEN 0 ELSE fails[m]]
            /\ since' = [since EXCEPT ![t] = 0]
            /\ health' = Continue(health.todo)
            /\ UNCHANGED <<row, rotate, incident, req, task, world, requests>>
    IN /\ health.pc = "apply"
       /\ \/ /\ health.tkey # 0
             /\ net' = FailedOver
             /\ awg1Key' = LocalKey(health.tkey)
             /\ done /\ UNCHANGED faults
          \/ /\ health.tkey = 0
             /\ done /\ UNCHANGED <<awg1Key, net, faults>>
          \/ /\ health.tkey # 0
             /\ ApplyFault(net, "awg1", t, health.tkey, net')
             /\ done /\ UNCHANGED awg1Key

HealthStep ==
    \/ HealthStart
    \/ \E n \in Node, was \in BOOLEAN : HealthRead(n, was)
    \/ HealthProbe \/ HealthObserve \/ HealthDecide \/ HealthSwitch \/ HealthApply

\* _awg_health_check: a missing link is loaded again; its routes are not.
AwgCheck(i) ==
    /\ net.link[i].state = "absent"
    /\ \E n \in Loadable(row, i) :
         \/ net' = Applied(net, i, n, row[n].key) /\ UNCHANGED faults
         \/ ApplyFault(net, i, n, row[n].key, net')
    /\ UNCHANGED <<db, fails, procs, world, since, requests>>

---------------------------------------------------------------------------
(* HTTP handlers: Begin reads the row and takes the early returns *)

Begin(r, kind, n, others) ==
    /\ req[r].kind = "none" /\ kind \in Kinds /\ requests > 0 /\ row[n].exists
    /\ req' = [req EXCEPT ![r] = [kind |-> kind, node |-> n, st |-> row[n].status,
                                  key |-> row[n].key, act |-> row[n].active,
                                  geo |-> row[n].geoip, others |-> others]]
    /\ requests' = requests - 1
    /\ UNCHANGED <<db, net, fails, health, task, world, since, faults>>

BeginActivate(r, n) ==
    /\ row[n].status # "pending" /\ ~row[n].geoip /\ ~row[n].active
    /\ Begin(r, "activate", n, {m \in Node : row[m].active})

BeginReset(r, n) == row[n].key # 0 /\ Begin(r, "reset", n, {})

\* Mutant of BeginGeoipOn: the previous GeoIP node is not cleared
BeginGeoipOnAdding(r, n) ==
    /\ ~row[n].active /\ row[n].status \in Usable /\ row[n].key # 0
    /\ Begin(r, "geoip_on", n, {})

BeginGeoipOn(r, n) ==
    /\ ~row[n].active /\ row[n].status \in Usable /\ row[n].key # 0
    /\ \E g \in Pick({m \in Node : row[m].geoip}) :
         Begin(r, "geoip_on", n, {g} \ {n, None})

BeginGeoipOff(r, n) == row[n].geoip /\ Begin(r, "geoip_off", n, {})

BeginOther(r, n) == \E k \in {"update", "delete", "check"} : Begin(r, k, n, {})

BeginRequest(r, n) ==
    \/ BeginActivate(r, n) \/ BeginReset(r, n) \/ BeginOther(r, n)
    \/ BeginGeoipOn(r, n)  \/ BeginGeoipOff(r, n)

\* The end of handler r, and what no handler touches
Ends(r, kind) == req[r].kind = kind /\ req' = [req EXCEPT ![r] = NoHandler]
HandlerFrame == UNCHANGED <<rotate, incident, health, task, reach, grace, since, requests>>

\* A flush that updates a row deleted meanwhile raises: everything rolls back.
Refused(r) ==
    /\ \E m \in req[r].others \cup {req[r].node} : ~row[m].exists
    /\ UNCHANGED <<row, awg1Key, net, fails, remote, lastKey, faults>>

Flushable(r) == \A m \in req[r].others \cup {req[r].node} : row[m].exists

FinishActivate(r) ==
    LET n == req[r].node
        k == req[r].key
        others == req[r].others
        row1 == [m \in Node |-> IF m = n THEN [row[m] EXCEPT !.active = TRUE]
                                ELSE IF m \in others
                                THEN [row[m] EXCEPT !.active = FALSE] ELSE row[m]]
    IN /\ Ends(r, "activate") /\ HandlerFrame
       /\ \/ Refused(r)
          \/ /\ Flushable(r)
             /\ row' = row1
             /\ net' = IF k = 0 THEN net
                       ELSE Routed(Applied(net, "awg1", n, k), "awg1", n)
             /\ awg1Key' = IF k = 0 THEN awg1Key ELSE LocalKey(k)
             /\ UNCHANGED <<fails, remote, lastKey, faults>>
          \/ /\ Flushable(r) /\ k # 0
             /\ ApplyFault(net, "awg1", n, k, net')
             /\ UNCHANGED <<row, awg1Key, fails, remote, lastKey>>

\* reset_node applies the interface before it flushes the row.  The status is
\* written only if it differs from the one read.
FinishReset(r) ==
    LET n == req[r].node
        i == IF req[r].geo THEN "awg2" ELSE "awg1"
        net1 == Applied(net, i, n, req[r].key)
        row1 == IF req[r].st = "online" THEN row ELSE [row EXCEPT ![n].status = "online"]
        net2 == IF req[r].act THEN Routed(net1, "awg1", n) ELSE net1
    IN /\ Ends(r, "reset") /\ HandlerFrame
       /\ \/ /\ ~row[n].exists
             /\ net' = Abandoned(net1, i) /\ UNCHANGED <<row, awg1Key, fails, faults>>
          \/ /\ row[n].exists
             /\ row' = row1
             /\ awg1Key' = IF req[r].geo THEN awg1Key ELSE LocalKey(req[r].key)
             /\ fails' = [fails EXCEPT ![n] = 0]
             /\ \/ req[r].geo /\ \E a \in Pick(ActiveOnline(row1)), g \in Pick(GeoipUsable(row1)) :
                                     net' = PolicyRouted(net2, a, g)
                \/ ~req[r].geo /\ net' = net2
             /\ UNCHANGED faults
          \/ /\ ApplyFault(net, i, n, req[r].key, net')
             /\ UNCHANGED <<row, awg1Key, fails>>
          \/ /\ row[n].exists /\ req[r].geo
             /\ PolicyFault(row1, Abandoned(net2, "awg2"), net')
             /\ fails' = [fails EXCEPT ![n] = 0]
             /\ UNCHANGED <<row, awg1Key>>
       /\ UNCHANGED <<remote, lastKey>>

FinishGeoipOn(r) ==
    LET n == req[r].node
        net1 == Applied(net, "awg2", n, req[r].key)
        row1 == [m \in Node |-> IF m = n THEN [row[m] EXCEPT !.geoip = TRUE]
                                ELSE IF m \in req[r].others
                                THEN [row[m] EXCEPT !.geoip = FALSE] ELSE row[m]]
    IN /\ Ends(r, "geoip_on") /\ HandlerFrame
       /\ \/ Refused(r)
          \/ /\ Flushable(r)
             /\ row' = row1
             /\ \E a \in Pick(ActiveOnline(row1)), g \in Pick(GeoipUsable(row1)) :
                    net' = PolicyRouted(net1, a, g)
             /\ UNCHANGED <<awg1Key, fails, remote, lastKey, faults>>
          \/ /\ Flushable(r)
             /\ \/ ApplyFault(net, "awg2", n, req[r].key, net')
                \/ PolicyFault(row1, Abandoned(net1, "awg2"), net')
             /\ UNCHANGED <<row, awg1Key, fails, remote, lastKey>>

FinishGeoipOff(r) ==
    LET n == req[r].node
        row1 == [row EXCEPT ![n].geoip = FALSE]
    IN /\ Ends(r, "geoip_off") /\ HandlerFrame
       /\ \/ Refused(r)
          \/ /\ Flushable(r)
             /\ row' = row1
             /\ \E a \in Pick(ActiveOnline(row1)), g \in Pick(GeoipUsable(row1)) :
                    net' = PolicyRouted(Deleted(net, "awg2", "absent"), a, g)
             /\ UNCHANGED <<awg1Key, fails, remote, lastKey, faults>>
          \/ /\ Flushable(r)
             /\ PolicyFault(row1, Deleted(net, "awg2", "absent"), net')
             /\ UNCHANGED <<row, awg1Key, fails, remote, lastKey>>

\* update_node; a manual node may get a new configuration file, hence a new key.
\* The far end of such a node has changed, even if the request then rolls back.
FinishUpdate(r) ==
    LET n == req[r].node
        awg1(k) == IF req[r].act THEN Applied(net, "awg1", n, k) ELSE net
        awg2(k) == Applied(awg1(k), "awg2", n, k)
    IN /\ Ends(r, "update") /\ HandlerFrame
       /\ \/ Refused(r)
          \/ \E rekey \in BOOLEAN :
               LET k == IF rekey THEN -(lastKey + 1) ELSE req[r].key
                   row1 == IF rekey THEN [row EXCEPT ![n].key = k] ELSE row
               IN /\ Flushable(r) /\ (rekey => row[n].manual)
                  /\ lastKey' = IF rekey THEN lastKey + 1 ELSE lastKey
                  /\ remote' = IF rekey THEN [remote EXCEPT ![n] = Imported(k)] ELSE remote
                  /\ UNCHANGED fails
                  /\ \/ /\ row' = row1
                        /\ awg1Key' = IF req[r].act /\ k # 0 THEN LocalKey(k) ELSE awg1Key
                        /\ \/ ~(req[r].geo /\ k # 0) /\ net' = IF k = 0 THEN net ELSE awg1(k)
                           \/ /\ req[r].geo /\ k # 0
                              /\ \E a \in Pick(ActiveOnline(row1)), g \in Pick(GeoipUsable(row1)) :
                                   net' = PolicyRouted(awg2(k), a, g)
                        /\ UNCHANGED faults
                     \/ /\ k # 0
                        /\ \/ req[r].act /\ ApplyFault(net, "awg1", n, k, net')
                           \/ req[r].geo /\ ApplyFault(awg1(k), "awg2", n, k, net')
                           \/ req[r].geo /\ PolicyFault(row1, Abandoned(awg2(k), "awg2"), net')
                        /\ UNCHANGED <<row, awg1Key>>

\* delete_node.  With SSH credentials deployer.remove runs first: it stops the
\* container and clears the routes by what the row says at that moment.
FinishDelete(r) ==
    LET n == req[r].node
        freed(nt, act, geo) ==
            LET one == IF act THEN Unrouted(nt, "awg1") ELSE nt
            IN IF geo THEN Unrouted(one, "awg2") ELSE one
        kernel(nt) ==
            LET one == IF req[r].act THEN Unrouted(nt, "awg1") ELSE nt
            IN IF req[r].geo THEN Deleted(one, "awg2", "absent") ELSE one
        bare == IF req[r].key = 0 THEN net ELSE PeerRemoved(net, n, req[r].key)
    IN /\ Ends(r, "delete") /\ HandlerFrame
       /\ row' = [row EXCEPT ![n] = NoRow]
       /\ \/ net' = kernel(bare) /\ UNCHANGED <<fails, remote>>
          \/ /\ ~row[n].manual
             /\ net' = kernel(IF row[n].exists THEN freed(bare, row[n].active, row[n].geoip)
                              ELSE bare)
             /\ fails' = IF row[n].exists THEN [fails EXCEPT ![n] = 0] ELSE fails
             /\ remote' \in {remote, [remote EXCEPT ![n] = NoFarEnd]}
       /\ UNCHANGED <<awg1Key, lastKey, faults>>

FinishCheck(r) ==
    /\ Ends(r, "check") /\ HandlerFrame
    /\ row' = StatusWritten(req[r].node, req[r].act, req[r].geo, req[r].key)
    /\ UNCHANGED <<awg1Key, net, fails, remote, lastKey, faults>>

FinishRequest(r) ==
    \/ FinishActivate(r) \/ FinishReset(r)  \/ FinishGeoipOn(r) \/ FinishGeoipOff(r)
    \/ FinishUpdate(r)   \/ FinishDelete(r) \/ FinishCheck(r)

\* create_node: a managed row has no key yet, a manual one brings its own.
\* SQLite gives the new row the largest id plus one.
CreateNode(n, mode) ==
    /\ \A m \in Node : m >= n => ~row[m].exists
    /\ n > 1 => row[n - 1].exists
    /\ row' = [row EXCEPT ![n] =
                 [NoRow EXCEPT !.exists = TRUE, !.manual = (mode = "manual"),
                    !.status = IF mode = "manual" THEN "online" ELSE "pending",
                    !.key = IF mode = "manual" THEN -(lastKey + 1) ELSE 0]]
    /\ lastKey' = IF mode = "manual" THEN lastKey + 1 ELSE lastKey
    /\ remote' = IF mode = "manual" THEN [remote EXCEPT ![n] = Imported(-(lastKey + 1))] ELSE remote
    /\ UNCHANGED <<rotate, incident, awg1Key, net, fails, procs, reach, grace, since, bounds>>

\* PUT /failover
ToggleFailover ==
    /\ "failover" \in Kinds /\ requests > 0
    /\ rotate' = ~rotate /\ requests' = requests - 1
    /\ UNCHANGED <<row, incident, awg1Key, net, fails, procs, world, since, faults>>

---------------------------------------------------------------------------
(* deploy_node and redeploy_node only queue a background task: the status  *)
(* "deploying" that their 409 guard looks at is written by the task itself *)

QueueJob(t, n, kind, drop) ==
    /\ kind \in Kinds /\ requests > 0 /\ task[t].pc = "idle"
    /\ row[n].exists /\ row[n].status # "deploying" /\ ~row[n].manual
    /\ kind = "redeploy" => row[n].key # 0 /\ ~drop
    /\ task' = [task EXCEPT ![t] = [NoJob EXCEPT !.pc = "queued", !.kind = kind,
                                                 !.node = n, !.drop = drop]]
    /\ requests' = requests - 1
    /\ UNCHANGED <<db, net, fails, health, req, world, since, faults>>

JobFrame == UNCHANGED <<rotate, incident, awg1Key, fails, health, req, reach, since, requests>>

\* First transaction of deploy(), with the keypair remembered if there is one
DeployStart(t) ==
    LET n == task[t].node IN
    /\ task[t].pc = "queued" /\ task[t].kind = "deploy"
    /\ \/ /\ row[n].exists
          /\ row' = [row EXCEPT ![n].status = "deploying"]
          /\ task' = [task EXCEPT ![t].pc = "ssh", ![t].key = row[n].key,
                                    ![t].peer = awg1Key]
       \/ /\ ~row[n].exists
          /\ task' = [task EXCEPT ![t] = NoJob] /\ UNCHANGED row
    /\ JobFrame /\ UNCHANGED <<net, remote, grace, lastKey, faults>>

\* Mutant of DeploymentKey: every deploy makes a new keypair
FreshKey(t) == lastKey + 1

DeploymentKey(t) == IF task[t].key = 0 THEN lastKey + 1 ELSE task[t].key

\* Steps 1-6: the host is prepared, a keypair made if none was remembered, saved
DeployKey(t) ==
    LET n == task[t].node
        k == DeploymentKey(t)
    IN /\ task[t].pc = "ssh" /\ row[n].exists
       /\ row' = [row EXCEPT ![n].key = k]
       /\ lastKey' = IF k > lastKey THEN k ELSE lastKey
       /\ task' = [task EXCEPT ![t].pc = "remote", ![t].key = k]
       /\ JobFrame /\ UNCHANGED <<net, remote, grace, faults>>

\* Redeploy uses the private key it finds
RedeployStart(t) ==
    LET n == task[t].node IN
    /\ task[t].pc = "queued" /\ task[t].kind = "redeploy"
    /\ task' = [task EXCEPT ![t] = IF row[n].exists /\ row[n].key # 0
                                   THEN [@ EXCEPT !.pc = "remote", !.key = row[n].key,
                                                  !.peer = awg1Key]
                                   ELSE NoJob]
    /\ JobFrame /\ UNCHANGED <<row, net, remote, grace, lastKey, faults>>

Installed(t) == [key |-> task[t].key, peer |-> task[t].peer]

\* Steps 7-11: sources, .env with the key, image; the old container is removed
RemoteStop(t) ==
    /\ task[t].pc = "remote"
    /\ remote' = [remote EXCEPT ![task[t].node] = NoFarEnd]
    /\ task' = [task EXCEPT ![t].pc = "up"]
    /\ JobFrame /\ UNCHANGED <<row, net, grace, lastKey, faults>>

\* Step 12: docker-compose up
RemoteInstall(t) ==
    /\ task[t].pc = "up"
    /\ remote' = [remote EXCEPT ![task[t].node] = Installed(t)]
    /\ task' = [task EXCEPT ![t].pc = "save"]
    /\ JobFrame /\ UNCHANGED <<row, net, grace, lastKey, faults>>

\* Step 13: the node is online, and active if no other node is online
DeploySave(t) ==
    LET n     == task[t].node
        first == \A m \in Node \ {n} : row[m].status # "online"
    IN /\ task[t].pc = "save" /\ task[t].kind = "deploy" /\ row[n].exists
       /\ row' = [row EXCEPT ![n].status = "online", ![n].deployed = TRUE,
                             ![n].active = first \/ @]
       /\ task' = [task EXCEPT ![t].pc = "apply", ![t].first = first]
       /\ grace' = grace \cup {n}
       /\ JobFrame /\ UNCHANGED <<net, remote, lastKey, faults>>

RedeploySave(t) ==
    LET n == task[t].node IN
    /\ task[t].pc = "save" /\ task[t].kind = "redeploy" /\ row[n].exists
    /\ row' = [row EXCEPT ![n].status = "online", ![n].deployed = TRUE]
    /\ task' = [task EXCEPT ![t] =
                  IF row[n].active \/ row[n].geoip
                  THEN [@ EXCEPT !.pc = "apply", !.act = row[n].active, !.geo = row[n].geoip]
                  ELSE NoJob]
    /\ grace' = grace \cup {n}
    /\ JobFrame /\ UNCHANGED <<net, remote, lastKey, faults>>

\* Steps 14 and 15: awg1 is reconfigured for every deployed node, its routes
\* only for a first one; redeploy reconfigures the interface of an active or
\* GeoIP node and the routes through it.
JobIface(t) == IF task[t].kind = "redeploy" /\ task[t].geo THEN "awg2" ELSE "awg1"

JobApply(t) ==
    LET n == task[t].node
        i == JobIface(t)
    IN /\ task[t].pc = "apply" /\ row[n].exists /\ row[n].key # 0
       /\ net' = Applied(net, i, n, row[n].key)
       /\ task' = [task EXCEPT ![t] = IF task[t].kind = "deploy" /\ ~task[t].first
                                      THEN NoJob ELSE [@ EXCEPT !.pc = "routes"]]
       /\ JobFrame /\ UNCHANGED <<row, remote, grace, lastKey, faults>>

\* The routes come after a commit, when the link may be gone or another node's
JobRoutes(t) ==
    /\ task[t].pc = "routes"
    /\ net' = Routed(net, JobIface(t), task[t].node)
    /\ task' = [task EXCEPT ![t] = NoJob]
    /\ JobFrame /\ UNCHANGED <<row, remote, grace, lastKey, faults>>

\* Mutants of CleanedUp: a deployed node is dropped too; "deploying" is left
CleanedUpWholly(t) ==
    IF task[t].kind = "deploy" /\ task[t].drop THEN [row EXCEPT ![task[t].node] = NoRow]
    ELSE row
CleanedUpNever(t) ==
    LET n == task[t].node IN
    IF task[t].kind = "deploy" /\ task[t].drop /\ row[n].exists /\ ~row[n].deployed
    THEN [row EXCEPT ![n] = NoRow] ELSE row

\* The except branch of deploy(): drop a node that was never deployed if asked
\* to, else leave "deploying"; redeploy() only closes its log.
CleanedUp(t) ==
    LET n == task[t].node IN
    IF task[t].kind = "redeploy" \/ ~row[n].exists THEN row
    ELSE IF task[t].drop /\ ~row[n].deployed THEN [row EXCEPT ![n] = NoRow]
    ELSE IF row[n].status = "deploying" THEN [row EXCEPT ![n].status = "error"]
    ELSE row

\* SSH, docker or the database fails a task, or its row is gone
JobFails(t) ==
    LET n == task[t].node IN
    /\ task[t].pc \in {"ssh", "remote", "up", "save", "apply", "routes"}
    /\ \/ task[t].pc # "apply" /\ Fault("task") /\ UNCHANGED net
       \/ /\ task[t].pc = "apply" /\ row[n].exists /\ row[n].key # 0
          /\ ApplyFault(net, JobIface(t), n, row[n].key, net')
       \/ task[t].pc # "routes" /\ ~row[n].exists /\ UNCHANGED <<net, faults>>
       \/ task[t].pc = "apply" /\ row[n].key = 0 /\ UNCHANGED <<net, faults>>
    /\ remote' \in {remote} \cup IF task[t].pc = "up"
                                 THEN {[remote EXCEPT ![n] = Installed(t)]} ELSE {}
    /\ row' = CleanedUp(t)
    /\ task' = [task EXCEPT ![t] = NoJob]
    /\ JobFrame /\ UNCHANGED <<grace, lastKey>>

JobStep(t) ==
    \/ DeployStart(t) \/ DeployKey(t) \/ RedeployStart(t)
    \/ RemoteStop(t) \/ RemoteInstall(t) \/ DeploySave(t) \/ RedeploySave(t)
    \/ JobApply(t) \/ JobRoutes(t) \/ JobFails(t)

---------------------------------------------------------------------------
(* Crash, startup, and the world outside *)

\* load_interface for node n (None: no row was found, the link stays as it is);
\* startup logs what it raises and goes on
Loaded(nt, i, n) ==
    IF n = None THEN {nt}
    ELSE {Applied(nt, i, n, row[n].key)} \cup
         (IF "apply" \in Faults THEN Interrupted(nt, i, n, row[n].key) ELSE {})

\* The routing half of startup, which swallows its errors too
Rerouted(nt, a, g) ==
    {PolicyRouted(nt, a, g)} \cup (IF "apply" \in Faults THEN PolicyFaults(nt, a, g) ELSE {})

\* Everything in memory is lost and no row is repaired.  The kernel state goes
\* with the container, or stays when supervisord restarts a crashed uvicorn.
\* Startup loads the interfaces of online or degraded nodes, then routes by the
\* online active one.
Restart ==
    /\ Fault("restart")
    /\ \E a \in Pick(Loadable(row, "awg1")), g \in Pick(Loadable(row, "awg2")),
          ra \in Pick(ActiveOnline(row)), rg \in Pick(GeoipUsable(row)),
          base \in {DownNet, net} :
         \E one \in Loaded(base, "awg1", a) : \E two \in Loaded(one, "awg2", g) :
             net' \in Rerouted(two, ra, rg)
    /\ fails' = [n \in Node |-> 0]
    /\ health' = NoHealth
    /\ req' = [r \in Req |-> NoHandler]
    /\ task' = [t \in Task |-> NoJob]
    /\ UNCHANGED <<db, world, since, requests>>

GraceEnds(n) ==
    /\ n \in grace /\ grace' = grace \ {n}
    /\ UNCHANGED <<db, net, fails, procs, remote, reach, lastKey, since, bounds>>

LinkChange(n) ==
    /\ Fault("link")
    /\ reach' = IF n \in reach THEN reach \ {n} ELSE reach \cup {n}
    /\ UNCHANGED <<db, net, fails, procs, remote, grace, lastKey, since, requests>>

---------------------------------------------------------------------------
Init ==
    /\ row = [n \in Node |-> NoRow] /\ rotate = TRUE /\ incident = FALSE /\ awg1Key = 0
    /\ net = DownNet
    /\ fails = [n \in Node |-> 0] /\ since = [n \in Node |-> 0]
    /\ health = NoHealth
    /\ req = [r \in Req |-> NoHandler] /\ task = [t \in Task |-> NoJob]
    /\ remote = [n \in Node |-> NoFarEnd] /\ reach = Node /\ grace = {} /\ lastKey = 0
    /\ requests = MaxRequests /\ faults = MaxFaults

Operator ==
    \/ \E r \in Req, n \in Node : BeginRequest(r, n)
    \/ \E n \in Node, mode \in Modes : CreateNode(n, mode)
    \/ ToggleFailover
    \/ \E t \in Task, n \in Node, kind \in {"deploy", "redeploy"}, drop \in BOOLEAN :
          QueueJob(t, n, kind, drop)

Outside == Restart \/ \E n \in Node : GraceEnds(n) \/ LinkChange(n)

Next ==
    \/ HealthStep
    \/ \E i \in Iface : AwgCheck(i)
    \/ \E r \in Req : FinishRequest(r)
    \/ \E t \in Task : JobStep(t)
    \/ Operator
    \/ Outside

Spec == Init /\ [][Next]_vars

\* The scheduler fires its jobs for ever, started handlers and tasks run on,
\* and the grace period of a deploy ends.  Nothing obliges the operator.
Fairness ==
    /\ WF_vars(HealthStep)
    /\ \A i \in Iface : WF_vars(AwgCheck(i))
    /\ \A r \in Req : WF_vars(FinishRequest(r))
    /\ \A t \in Task : WF_vars(JobStep(t))
    /\ \A n \in Node : WF_vars(GraceEnds(n))

FairSpec == Spec /\ Fairness

---------------------------------------------------------------------------
(* Properties *)

\* Every variable stays in its type.
TypeOK ==
    /\ row \in [Node -> Row] /\ rotate \in BOOLEAN /\ incident \in BOOLEAN
    /\ awg1Key \in Key
    /\ net \in Net
    /\ fails \in [Node -> Nat] /\ since \in [Node -> Nat]
    /\ health \in Health
    /\ req \in [Req -> Handler] /\ task \in [Task -> Job]
    /\ remote \in [Node -> FarEnd] /\ reach \in SUBSET Node /\ grace \in SUBSET Node
    /\ lastKey \in Nat /\ requests \in Nat /\ faults \in Nat

\* failover() leaves a node only after Threshold checks in a row found that
\* node dead while it was selected, counted from the last attempt on it: every
\* attempt, failed ones included, gets time for a handshake, whatever
\* requests, tasks and restarts come between the checks.
AttemptsSpaced ==
    health.pc \in {"switch", "apply"} => since[health.node] >= Threshold

\* All processes together keep NodeSelection: beside the operator's selections and
\* removals a node loses its place only in an attempt, after its dead checks, and
\* to the target of the attempt, and outages are those of selected nodes, although
\* the health check decides by a count and a selection of different moments and
\* handlers work on rows that they read before it.
Selection == INSTANCE NodeSelection WITH
    selected <- {n \in Node : row[n].exists /\ row[n].active},
    strikes  <- since,
    outage   <- incident,
    attempt  <- IF health.pc \in {"switch", "apply"}
                THEN [stage |-> health.pc, from |-> health.node, to |-> health.target,
                      both |-> health.tact]
                ELSE [stage |-> "none", from |-> None, to |-> None, both |-> FALSE]
KeepsSelection == Selection!Spec

\* A row that a deploy completed once is removed by DELETE only, never by the
\* delete_on_failure branch of another deploy of the same node.
DeployedNodeKept ==
    [][\A n \in Node : row[n].exists /\ row[n].deployed /\ ~row'[n].exists =>
         \E r \in Req : req[r].kind = "delete" /\ req[r].node = n
                        /\ req'[r].kind = "none"]_vars

\* With one deploy at a time, whatever runs at the far end of a deployed node
\* that no task works on runs with the key in its row, wherever earlier deploys
\* and redeploys of it failed.  (A failed one may leave nothing running there:
\* BrokenTunnelShows says how that shows.)
KeyAgrees ==
    \A n \in Node :
        row[n].deployed /\ (\A t \in Task : task[t].node # n) /\ remote[n] # NoFarEnd
            => remote[n].key = row[n].key

\* Unless the process dies, no deploy leaves its node "deploying" for ever.
DeployEnds ==
    \A n \in Node : row[n].status = "deploying" ~> row[n].status # "deploying"

Connected(n) == row[n].active /\ Established("awg1", n, row[n].key)

\* The node that awg2 carries, if what brought it up was completed and committed
CommittedNode(nt) == IF nt.link["awg2"].kept THEN nt.link["awg2"].node ELSE None

\* With one handler at a time and no task running, at most one node is the
\* GeoIP node, and awg2 carries another one only if the load of the interface or
\* the request that set it up failed half-way, whatever else fails or restarts.
GeoipTunnelOwned ==
    /\ \A m, n \in Node : row[m].geoip /\ row[n].geoip => m = n
    /\ \A n \in Node : CommittedNode(net) = n => row[n].geoip

\* Node n is selected or the GeoIP node, it is checked, and its interface carries
\* no traffic of it: no link, another node's peer, other keys, nothing running at
\* the far end, or a host that does not answer
Broken(n) ==
    /\ row[n].status \in Listed /\ row[n].key # 0 /\ (row[n].active \/ row[n].geoip)
    /\ ~Established(IF row[n].active THEN "awg1" ELSE "awg2", n, row[n].key)

\* A tunnel that stays broken does not stay shown as online: whatever failed
\* half-way, rolled back or crashed before, its node ends up degraded and stays so.
BrokenTunnelShows ==
    \A n \in Node : <>[]Broken(n) => <>[](row[n].status = "degraded")

\* Something is selected, checked, and some candidate could carry traffic
Recoverable ==
    /\ rotate
    /\ \E n \in Node : row[n].active /\ row[n].key # 0 /\ row[n].status \in Listed
    /\ \E c \in Candidates : c \in reach /\ remote[c].key = row[c].key

\* With failover on, circular retries bring traffic back to a selected node,
\* after any activations, resets, failed attempts, restarts and link changes.
Reconnects == <>[]Recoverable => []<>(\E n \in Node : Connected(n))

\* Once a selected node stays connected its outage is closed for good.
OutageEnds ==
    <>[](\E n \in Node : Connected(n) /\ row[n].status \in Listed) => <>[]~incident

\* docs/README_EN.md:552: only one regular upstream node is active at a time.
\* Two selected nodes do not stay selected for ever.
SingleActiveAgain == []<>(\A m, n \in Node : row[m].active /\ row[n].active => m = n)

\* docs/README_EN.md:419: traffic that is not local goes to awg1, given that
\* the selected node stays online with a working tunnel.
RestGoesThroughAwg1 ==
    <>[](\E n \in Node : Connected(n) /\ row[n].status = "online")
      => []<>net.primary["awg1"]

=============================================================================
