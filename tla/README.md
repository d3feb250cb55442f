# Verification of awg-jump

TLA+ models of the control planes of this repository, TLC configurations that check them on
small instances, and theorems that TLAPS proves for every value of the constants.

| Module | What it is |
|---|---|
| `UpstreamNodes` | nodes, failover and deployment of awg-jump |
| `NodeSelection` | abstract: how nodes of awg-jump gain and lose the traffic, kept by `UpstreamNodes` |
| `EntryNodes` | entry nodes, sessions and failover of awg-gateway |
| `EntryOrder` | abstract: the line of entry nodes that `EntryNodes` keeps |
| `GatewayRouting` | routing plan, kill switch and sets of awg-gateway, command by command |
| `GatewayDns`, `DeviceTracking`, `TrafficCounters`, `GatewayBackups` | further services of awg-gateway |
| `DnsZones`, `ServerPeers`, `GeoipZones` | further services of awg-jump |
| `Services` | the seven services side by side, each step that of one of them |
| `MCUpstreamNodes`, `MCEntryNodes`, `MCGatewayRouting`, `MCServices` | instances for TLC, with the `.cfg` files |
| `UpstreamNodesProofs` | theorems about `UpstreamNodes` and its refinement of `NodeSelection` |
| `EntryNodesProofs`, `EntryOrderProofs` | theorems about `EntryNodes` and its refinement of `EntryOrder` |
| `GatewayRoutingOutlines`, `GatewayRoutingProofs` | theorems about `GatewayRouting`: the invariant, and what follows for packets |
| `GatewayServicesProofs` | theorems about `GatewayDns`, `TrafficCounters`, `DeviceTracking` and `GatewayBackups` |
| `JumpServicesProofs` | theorems about `ServerPeers`, `GeoipZones` and `DnsZones` |
| `ServicesProofs` | the theorems of both carried over to `Services` |

`PROJECT.json` lists the components, runs, mutants, hazards, findings and theorems, and maps every
definition to the lines that it models.

    tlc -workers 2 -config nodes_handlers.cfg MCUpstreamNodes     # any run
    tlapm UpstreamNodesProofs.tla                                 # any proof module

## 1. The system

The repository holds three programs that talk over HTTP and a VPN.

* **awg-jump** (`src/backend`) runs on a jump host. Clients connect to its interface `awg0`; it
  sends their traffic into one of several *upstream nodes* through `awg1`, optionally the traffic
  of some countries through a second node and `awg2`, and the rest locally. It deploys nodes by
  SSH, watches them and fails over. FastAPI, SQLite, APScheduler, one asyncio loop.
* **awg-gateway** (`src/gateway/backend/app`) runs in a home network. It has one tunnel to one
  *entry node* of an ordered list, policy routing with a kill switch, its own DNS, device
  inventory and traffic counters. FastAPI, two SQLite databases, eight background loops, one
  asyncio loop.
* **Home Assistant integration** (`src/home-assistant-awg-gateway`) polls awg-gateway and
  offers its switches and devices as entities.

The web front ends, the container of a node and the installation scripts carry no protocol state.

### 1.1 Inventory of awg-jump

| Component | State | Operations | What is hard |
|---|---|---|---|
| Node selection (`scheduler.py`, `node_deployer.py` 860-1034, `node_connections.py`) | rows of `upstream_nodes` (status, is_active, is_geoip, key), failure counters in memory, outage incidents | health probe, counter, circular failover, incidents | probes run without a transaction, so handlers, tasks and deletions come between the reading and the verdict |
| Node router (`routers/nodes.py`) | the same rows, links and routes | create, update, activate, reset, GeoIP on/off, delete, check, failover switch | rows read before awaits; kernel changed before the commit |
| Deployment (`node_deployer.py`) | deploy log, row, key, container on the host | deploy in 15 steps, redeploy, remove | each step may fail; a crash in the middle; two tasks on one node |
| Upstream interfaces (`awg.py`, `upstream_nodes.py`) | links `awg1`, `awg2`, their keys | apply, load, stop, periodic repair | deleting a link drops its routes; a failed apply leaves half a link |
| Policy routing (`routing.py`) | table 200, host routes, marks | setup, update per node | called from many places, in two orders |
| GeoIP and ipsets (`geoip_fetcher.py`, `ipset_manager.py`, `routers/geoip.py`) | sources, prefix files, kernel sets | fetch, build `<name>_new`, swap | two updates of one set at a time |
| Peers and server interfaces (`routers/peers.py`, `interfaces.py`) | peers, addresses of the pool | create, update, toggle, sync | allocation at the end of the pool, row against kernel |
| DNS (`routers/dns.py`, `dns_manager.py`) | zones, domains, manual addresses, running resolver | edit, generate, restart | generated file against rows |
| Backup (`routers/backup.py`) | archive, database file | export, import | replacing the file under open connections |
| Administration (auth, settings, system) | users, tokens | one request, one row | little |

Correctness: failover waits for a threshold of dead checks and then reaches a node that works;
the kernel carries what the rows say; a node that was deployed once is not lost and keeps its key;
statistics open and close an outage by what was really seen; no task leaves a node locked in
`deploying`; a set of prefixes is replaced whole; no two peers share an address.

### 1.2 Inventory of awg-gateway

| Component | State | Operations | What is hard |
|---|---|---|---|
| Entry nodes and failover (`failover.py`, `runtime.py`, `routers/nodes.py`, `main.py`) | `entry_nodes` with positions, `gateway_settings`, runtime state in memory, link, routing plan | import, activate, start, stop, move, delete, switch, automatic failover, restore at startup | probes in threads, sessions with stale columns, failed starts, rollback of rows but not of the kernel |
| Database sessions (`database.py`) | write lock, SQLite's writer, identity map | flush, commit, rollback, retried cycles | a non-reentrant lock around a blocking writer |
| Maintenance (`maintenance.py`, `factory_reset.py`) | reset lock, ready event | factory reset | sessions that passed the door before it closed |
| Routing and kill switch (`routing.py`, `nftables_manager.py`, `ipset_manager.py`) | iptables or nftables rules, tables, sets | plan, passthrough, kill switch, set refresh | order of rules, switch of firewall backend |
| DNS (`dns_runtime.py`, `routers/dns.py`) | rules, dnsmasq process | edit, restart | bulk insertion takes the write lock twice |
| Devices (`device_tracking.py`, `routers/devices.py`, `access.py`) | devices, addresses, conntrack counters | collect, merge, mark | counters with resets, merging of records |
| Traffic (`traffic_metrics.py`, `traffic_sources.py`) | last counters, buckets | sample, aggregate, prune | interface counters restart from zero |
| Backup (`backup.py`, `main.py` 163-201) | archives, `backup_records` | scheduled, manual, prune, restore | a record flushed but not committed; files replaced under open connections |
| Node bootstrap (`first_node_bootstrap.py`) | log, remote host | one SSH session | partial failure |
| Backend restart and status report (`backend_restart.py`, `status_reporting.py`) | date of last request, last report | due test, SIGTERM | restart loop after a failed commit |

Correctness: the tunnel and the plan belong to the active node; failover respects the grace
period and ends on a node that works; every node has its own place in the order; no writer is
blocked for ever; traffic that must not leave is held by the kill switch; counters lose no byte and
invent none.

### 1.3 Home Assistant integration

`coordinator.py` keeps the last status and devices, merges counters with the maximum of the
previous ones, and keeps the previous devices when a poll fails; `switch.py` sends a command and
asks for a refresh. Hard: an answer to a poll that was sent before a command.

### 1.4 How the components interact

Everything inside one program shares one event loop, so code between two awaits is atomic and
interleaving happens only at awaits: database calls, threads (probes, `to_thread`), SSH. Shared
state is of three kinds with different failure behaviour: *rows*, which roll back; *memory*
(failure counters, `failover_state`, tunnel status), which a restart loses and no rollback
restores; and the *kernel*, which survives a crash of the process and no rollback restores.
Most hazards in `PROJECT.json` come from one operation that changes two of the three.

## 2. UpstreamNodes: the nodes of awg-jump

### State and actions

| Variable | Code |
|---|---|
| `row` | committed rows of `upstream_nodes`; `key` stands for the key pair of the node: positive if generated by deploy, negative if imported; `deployed` is `last_deploy` set |
| `rotate`, `incident` | `routing_settings.failover_enabled`; an open connection incident |
| `awg1Key` | private key in the row of interface `awg1` |
| `net` | kernel: link per interface, default route of table 200, host routes, GeoIP mark; `kept` of a link is history: whatever brought it up went through and was committed |
| `fails` | `_health_fail_counts` |
| `health`, `req`, `task` | the health check, HTTP handlers and deploy tasks in progress, with the values that they hold across awaits |
| `remote`, `reach`, `grace` | what each node really runs with, whether its host answers, whether its deploy is younger than 300 s |
| `since` | history variable of `AttemptsSpaced` and of the refinement only |

The health check is cut at its awaits: `HealthStart` lists the nodes, `HealthRead` reads a row,
`HealthProbe` probes and writes the status, `HealthObserve` does incidents, counter and threshold,
`HealthDecide` reads the selection again and chooses the target, `HealthSwitch` is the first commit of `failover()`, `HealthApply` the
reconfiguration. The nodes of one round come in any order, a superset of the
order that the query gives. A handler is `Begin*` (reads and early returns) and
`Finish*` (flush, kernel, commit or rollback). A deploy task is one action per group of steps that
commit together; `RemoteStop` removes the old container before `RemoteInstall` brings the new one up;
`JobFails` may end the task at each, also between these two, and runs the `except` branch (`CleanedUp`).
`Restart` is a crash in any state followed by the startup of `lifespan`, of the container or of uvicorn
alone, which supervisord restarts over the kernel as it was left. A crash within a handler is a
handler that fails there, followed by `Restart`.

Rows roll back and the kernel does not, so each handler has the failing branches of the code:
`apply_interface` raises at any of its commands and leaves no link, a link without a peer, or one that
already has the new node's (`Interrupted`); it succeeds and what comes after it raises, so that the request
is rolled back under a link that is up (`Abandoned`); `_apply_current_routing` raises between its commands
(`PolicyFaults`). The startup meets the first and the last of these too, logs them and goes on.

### NodeSelection: what failover promises

`UpstreamNodes` decides by values of many moments: the node was selected when the round began, its
probe is some seconds old, the count was taken before the selection was read again, the target was
chosen before the commit, and handlers do the same with rows of their own. `NodeSelection` says what
must come out of that. `UpstreamNodes` implements it by

| `NodeSelection` | `UpstreamNodes` |
|---|---|
| `selected` | the nodes that exist and are active in the committed rows |
| `strikes` | `since`, the dead checks since a node answered or was tried |
| `outage` | `incident` |
| `attempt` | stage, node, target and what was read of the target, while `health.pc` is `"switch"` or `"apply"` |

as the property `KeepsSelection` of `nodes_handlers`. An attempt starts from a node that is selected
*at the decision* and has all its strikes (`GiveUp`); only an attempt or the operator takes a place
away, and the target gets it in the same step (`HandOver`); an attempt that ends, with or without
success, gives its target a fresh start (`Tried`), and one that a crash or a deletion cuts off changes
nothing (`Abandon`). Only nodes that are selected at that moment open and close the outage (`Miss`, `Answer`).

Two promises are *not* in it, because the code does not keep them. `HandOver` may leave nobody selected:
with two nodes selected (two activations that overlapped), the target is read as active and not
written, an activation deselects it before the commit, and the node that is left then loses its place
to nobody. And an attempt may lie outside of any recorded outage: a node that is deselected while it is checked
and selected again between the observation and the decision has its failure counted but not recorded.
Both need handlers inside one round of the check; TLC finds either one with two nodes.

### Runs

| Run | Question | Instance | Result |
|---|---|---|---|
| `nodes_handlers` | do the invariants survive every handler against the health check? | 2 nodes, threshold 2, 1 handler at a time, 3 requests, 1 fault of link, apply or restart | pass |
| `nodes_keys` | does a deployed node run with the key of its row? | 2 nodes, deploys and redeploys one at a time, 2 faults | pass |
| `nodes_tasks` | two tasks and DELETE on one node: what is lost, and does it show? | 1 node, 2 tasks, 2 faults | pass |
| `nodes_reconnect` | does failover bring traffic back, and does a broken tunnel show? | 2 imported nodes, 2 requests, 2 faults, fair | pass |
| `nodes_mixed` | the same with imported and managed nodes | 2 nodes, 1 task | violation |
| `nodes_settle` | is one node selected in the end? | 3 nodes, 1 task | violation |
| `nodes_routes` | does traffic keep its route to `awg1`? | 1 node | violation |

* `AttemptsSpaced`: failover leaves a node only after `Threshold` dead checks of it since the last
  attempt. Two nodes and threshold 2 let a counter be advanced for one node, reset by a handler or
  a restart, and used again.
* `KeepsSelection`: the refinement of `NodeSelection`. It was also checked with deploys, deletions and
  restarts beside each other, in an instance like that of `nodes_keys`.
* `GeoipTunnelOwned`: there is one GeoIP node, and `awg2` carries another node only if the load or the
  request that set it up failed half-way (`kept`), whatever rolls back or restarts afterwards.
* `KeyAgrees`: what runs at the host, if anything does, has the key of the row wherever deploys failed.
  Checked without DELETE, because SQLite gives the id of a deleted last row away again.
* `BrokenTunnelShows`: what the two leave open. A half-made link, a link of another node, a host on which
  a failed deploy left nothing running: the selected or the GeoIP node whose tunnel stays broken ends up
  `degraded` and stays so. It is checked after failures of handlers, startup and links in
  `nodes_reconnect`, and after failures of tasks in `nodes_tasks`.
* `DeployedNodeKept`, `DeployEnds`: a failed deploy does not delete a node that worked, and
  takes its node out of `deploying`. `DeployEnds` is checked without crashes: with one it does not
  hold, since no startup code repairs the status (a hazard with a note).
* `Reconnects`: if from some time on failover is on, a selected node is checked, and some
  candidate could carry traffic, a selected node is connected again and again. `OutageEnds`: then
  the incident is closed for good.

The three violations are disagreements between documentation and code; each finding in
`PROJECT.json` quotes the sentence. *nodes_mixed*: applying an imported node overwrites the key
of `awg1` that managed nodes were deployed with. *nodes_settle*: `deploy()` sets `is_active`
beside a selected node that is not online. *nodes_routes*: updating the active node recreates
`awg1`, and nothing sets its default route again.

### Fairness

`WF(HealthStep)` and `WF(AwgCheck)`: the scheduler fires both jobs for ever (`scheduler.py`
204-261) and each probe has a timeout. `WF(FinishRequest)` and `WF(JobStep)`: handlers and tasks
run on, every SSH command has a timeout. `WF(GraceEnds)`: 300 seconds pass. Nothing obliges the
operator, and no fault has to happen. The temporal runs assume no strong fairness.

## 3. EntryNodes: the nodes of awg-gateway

### State and actions

| Variable | Code |
|---|---|
| `row`, `cfg` | committed `entry_nodes` (exists, position, is_active) and `gateway_settings` (active node, `gateway_enabled`, `failover_enabled`) |
| `txn` | the open write transaction: who has it, and the values flushed into it |
| `kernel` | the node of the tunnel link, the default route through it, the node of the routing plan |
| `status`, `since` | runtime state in memory: tunnel status, `failover_state.unhealthy_since` as an age |
| `work` | per worker (the loop or startup, and each handler): where it is, the node it works on, and the columns that its session loaded |
| `alive` | nodes whose server passes traffic |
| `good` | history variable of `GraceRespected` only |

One set of actions (`TakeOrder`, `Choose`, `StartTunnel`, `ProbeTunnel`, `Assign`, `ApplyPlan`,
`End`) serves the loop, the startup and the handlers, as `failover_to_next_available`,
`start_tunnel_with_retries` and `assign_active_node` do in the code; the operators `AfterWon`,
`AfterLost` and `AfterFailed` hold what differs.

Sessions are modelled with SQLAlchemy's identity map, because it decides the outcome: a row
loaded once keeps the columns read then (`Load`, `Held`), a query gives the present *order* but
not the present columns (`Listed`), and a flush writes only the columns that differ from what was
loaded (`Merged`). While one transaction is open another flush ends in "database is locked":
the waiting flush holds `main_write_lock`, which the owner needs for its commit.

The loop commits only what is left to flush (`main.py` 79); `Assign` ends with a flush, so `End` of
the loop is a rollback. `entry_active` shows the consequence.

`Target` says who answers a probe. The probe target of a node may be its own server, an address
that any tunnel reaches (`shared`) or a host outside (`public`). Only with `own` does a failing
tunnel always show.

### EntryOrder: what the order of nodes promises

`EntryNodes` writes positions from columns that sessions loaded long before, merges flushes and
rolls some of them back. `EntryOrder` says what must come out of that: the nodes stand in one
*line*, and a commit appends a node, takes one out, brings one to the front or exchanges two
neighbours. `EntryNodes` implements it by

| `EntryOrder` | `EntryNodes` |
|---|---|
| `nodes` | the nodes that exist in the committed rows |
| `ahead` | the pairs of nodes of which the first has the smaller position (`Before`) |
| `selected` | `cfg.sel`, `gateway_settings.active_node_id` |

as the property `KeepsLine` of `entry_failover`. The mapping looks at committed rows only, so a
flush, its rollback and everything in memory are stutters; a commit is one step of the line, however
many rows it writes. Two actions are weaker than a reader of the code expects, because sessions
write only what differs from what they loaded: `Remove` may clear a selection that another handler
has just made, and `Activate` may leave an old selection in place. `Remove` never leaves a deleted
node selected, however: the foreign key clears it.

### Runs

| Run | Question | Instance | Result |
|---|---|---|---|
| `entry_failover` | order, grace period and recovery with everything at once | 2 nodes, 2 overlapping handlers of all nine kinds, 2 requests, 2 attempts per start, 1 fault of link, start or restart, fair | pass |
| `entry_active` | is the plan that of the active node when everything is quiet? | 2 nodes, 1 link change | violation |

* `OrderDistinct`: two nodes never have one position, although sessions write positions from
  stale columns.
* `KeepsLine`: every commit changes the order by one step of `EntryOrder`.
* `GraceRespected`: the loop leaves a node only if for a whole grace period nobody selected it
  and no evaluation found it healthy, although probes run in threads and handlers reset the shared
  failover state meanwhile. Grace 1 separates "just failed" from "failed for the whole period".
* `FailoverConnects`: if the active node is down for good and another one is up, the tunnel and
  the plan are on a node that is up, again and again. "Again and again" and not "for good" is what
  the code gives: after the rollback the active node is still the failed one, and a later
  evaluation may start over.

Deadlock is checked in both runs: the loop never stops. `OrderDistinct` and `KeepsLine` were also
checked with three nodes and no faults, where an exchange of neighbours has a bystander; the theorems
of section 7 cover any number.

### Fairness

`WF(LoopStep)`: the loop runs every ten seconds (`main.py` 365-385), and an exception ends only its
round. `WF(FinishRequest)`: handlers run on, commands have timeouts. `WF(Tick)`: time passes.

## 4. GatewayRouting: routing plan and kill switch of awg-gateway

### State and actions

| Variable | Code |
|---|---|
| `saved` | the committed settings, policy and device that decide about packets |
| `flushed` | the session that has flushed a node and not committed it |
| `tunnel` | status in memory, whether the link exists, the server it leads to |
| `kernel` | `ip rule`s, the default route of table 200, the chains of both firewall backends, the contents of both families of sets |
| `work` | per handler: the commands it has still to run, and the rows as its session loaded them |
| `turn` | the handler that has the event loop |
| `done` | history: what the last sequence of commands brought about (`plan`, `pass`, `base`; `busy`, `broken`, `stale`, `outdated`) |
| `exempt` | history: the server that the last complete plan keeps out of the tunnel |

A request (`Begin`, `Ask`) commits its change and turns into a sequence of commands, built by the operators
that carry the names of the functions of `routing.py`, `ipset_manager.py` and
`nftables_manager.py`: teardown, sets, chains, policy routing, forward rules. `Step` runs the
first command. Commands run in synchronous code, so a handler keeps its turn until it awaits, but
packets pass between any two of them; `CommandFails` ends a sequence at any command, as `run_command`
raises. dnsmasq fills the set of names at any time (`Learn`), and a status page takes an interface that is
there for a running tunnel (`StatusRead`). A start that fails (in `TunnelStart`), a dnsmasq that does not
come up, `LinkLost`, `Restart` and `Shutdown` are the other faults. Chains and sets survive a restart of the process, because the
container shares the network of the host.

What a node change commits is kept apart from what it runs. `StartNode` starts the tunnel of the
committed node. `ActivateNode` flushes a node, runs tunnel and plan for it and commits at the end
(`CommitNode`), and other writers of the settings get "database is locked" meanwhile; without a link it only selects (`SelectNode`).
`Failover` runs them for a node that is never committed, because the loop rolls its session back
(`main.py` 79). `NextCandidate` goes on to another node after a failed start.

`Verdict` follows a packet, given by where it comes from (a client, the device with a forced
route, the gateway itself) and where it goes to (a country, the manual list, a learned name, the
service for the external address, a server, the rest), through marks, rules and the FORWARD
chain to the tunnel, the physical interface or a drop. `Wanted` says from the rows alone where it
should go. The iptables of the image is the one over nf_tables, so `AWG_GW_FORWARD` is one
chain for both backends; the marking chains are not shared.

### Runs

| Run | Question | Instance | Result |
|---|---|---|---|
| `gateway_policy` | where do packets go, in every state between two commands? | 2 nodes, 2 handlers of all 12 kinds, 3 policies (both backends, both directions, every source), 2 requests, 1 fault of 6 kinds | pass |
| `gateway_killswitch` | is the kill switch enforced whenever it is on and a plan is safe? | the nftables policies with kill switch | violation |

* `PlanFollowed`: when a plan is complete, every packet goes where the saved rows say, whatever
  was there before. Only the server that is kept out of the tunnel is that of the plan (`PlanRows`),
  which after a failover or during an activation is another than that of the rows.
* `KillSwitchHolds`: with the kill switch on, no forwarded packet that belongs into the tunnel
  leaves directly after a complete plan, also without link or route.
* `PassthroughOpen`: after a passthrough nothing of the LAN is dropped or tunnelled.
* `OneStack`: the marking rules of the two backends are never there together, in any state.
* `SetsNeverDip`: with ipsets, a refresh never takes away an address that stays listed.

*gateway_killswitch* is a finding: `update_settings` tears the firewall down and an apply that then
fails leaves neither marks nor drops, while `docs/README_EN.md` of the gateway promises enforcement.

A state in which the operator has no request left and no handler is under way may stop, hence
`CHECK_DEADLOCK FALSE`. The specification has no fairness: all properties are about safety.

The exceptions are explicit in `done`: `broken` after a failed command, `stale` after rows that were
committed once the plan was there and not applied, `outdated` after a plan of rows that another handler
had replaced meanwhile. A node that differs is no exception: a plan of a failover, of an activation
that is not committed yet, or over a tunnel that leads elsewhere is `plan` like any other.

There is no property that the packets of the tunnel itself stay out of the tunnel, because the code does
not keep it: the rows of a failover are rolled back, so the next policy save makes a plan that exempts
the old server while the tunnel leads to the new one, and a handler that loaded its rows before an
activation does the same.

## 5. The services

Seven modules share no state with each other. `Services` puts them side by side: a step is one of one
service, and the others stand still. Each keeps its own variables, actions, bounds and type invariant;
`ServicesTypeOK` is their conjunction. TLC cannot check the product. As no service reads what another one
writes, the run `services` checks their sum instead (`MCSpec`): the first state names a service, and the
behaviour is one of that service. That each service behaves in `Services` as it does alone is a theorem
(`EachService`, section 7).

Handlers of these services lose updates in ways that the code accepts (or does not notice), so a
property names its exceptions by a history variable, which a step sets exactly where the
accident happens and a later clean run of the same operation clears. Everything outside the named
accident is checked.

| Module | State | Actions | What is atomic |
|---|---|---|---|
| `DeviceTracking` | rows, flow states, overrides in the kernel, the identity map of the cycle | `BeginCycle`, `ConntrackCandidate`, `NeighbourCandidate`, `FinishCycle`, `LoseCycle`; `Reload` and `Plan`, which apply a plan, skip it or fail; `PutDevice`, which only commits | a source at a time; queries see committed rows, objects those of the session |
| `DnsZones` | zones, rules, manual addresses, what dnsmasq was started with, proxies (ours or orphaned), the object that each handler's session holds | each endpoint, the bulk insertion too, as check, commit and refresh of its object; reload as three reads, start of proxies, restart; restart of the container or of uvicorn alone | what lies between two awaits |
| `TrafficCounters` | state row, samples, buckets, counters of links, the link of the default route | `Collect`, `CollectBlind` (a counter cannot be read), traffic, a link made anew, a default route that moves (`Reroute`) | a sample |
| `ServerPeers` | rows, the writer's rows, peers of the interface | create, update, toggle, delete as read, flush, synchronise, commit; apply, stop, health job and startup, where an apply that fails may leave a link without peers or with those it was made for (`HalfMade`) | as listed |
| `GeoipZones` | sources, cache, `geoip_local` and `_new`, exclusions, marks, node | endpoints, update as fetch, fill, swap; routing set up and torn down, each of whose commands may fail (`RoutingFails`), at startup too | a source fetched, a set swapped |
| `GatewayBackups` | archives with the records in their copy, records of each generation of `gateway.db`, the pool, `_reset_lock` | backup, cycle, deletion, restore and reset as read, write, flush, prune, commit; a restart | what lies between two awaits |
| `GatewayDns` | version of rows, dnsmasq and its handle and pid file, proxies, `main_write_lock` | requests as commit, stop, read, render, start | as listed |

| Property | What it says | Exception |
|---|---|---|
| `BytesKept` | bytes recorded as counted are in some total, through merges, moves, lost cycles (loss only: a total may be more) | none |
| `OverridesCurrent` | routes of single devices are those of the rows | a plan that is still to come, or was skipped or failed (`due`); a change by the operator during a cycle, until the next plan after it |
| `ResolverFollowsRows` | dnsmasq answers as the rows say when no handler is under way | the last reload failed, or a change overtook it after its refresh (without one, its first read) |
| `ZonesConsistent` | rules have zones, a protocol has one zone | a commit between check and commit |
| `BucketsAgree` | hours are sums of minutes, days of hours | expired buckets |
| `TotalsHonest` | totals grow, and none is more than its links carried | a column that came back to a link after another one or after a failed read |
| `KernelFollowsPeers` | the interface knows exactly the enabled peers | a synchronisation or an apply that failed, half-made links included, or was overtaken |
| `AddressesDistinct` | no two allocated addresses are equal | a commit between allocation and flush; an exhausted pool |
| `LocalZoneFollows` | the set holds the lists of the enabled sources | skipped or failed update; two sources of one country |
| `ExclusionsRespected` | exclusions are kept out of the tunnel of the zone | changes during a redeployment, routing that was overtaken or of which a command failed |
| `SessionsShareDatabase` | connections of the pool are to the file at `db_path` | after a restore until the restart; a reset that found sessions in flight |
| `RecordsHaveArchives` | a record has its archive | a request that failed after it had unlinked; the record of a restore; two records of one archive; an archive unlinked while another session was about to record it, or through a replaced database; a restored database whose archives are gone |
| `PruneKeepsEnough` | pruning leaves as many archives as are to be kept | the same |
| `ResolverCurrent` | dnsmasq and proxies serve the committed rows, and the backend knows the process | overlapping restarts |

Each exception is a hazard of its own that its hazard entry names. That an exception is needed
was seen in TLC: without it the run shows the counterexample.

There is no property that the names of an encrypted zone have a running proxy. A reload starts the
proxies and then stops dnsmasq, and `stop()` ends with it the proxies that were just started
(`dns_manager.py` 335, 371-372); after a restart of uvicorn alone the ports belong to orphans that nobody
finds. `DnsZones` models both, because they decide which reloads fail, and a hazard without a
property says so.

`CHECK_DEADLOCK FALSE`: requests, cycles and time are bounded, and the bulk insertion of
`GatewayDns` really stops (section 8).

## 6. Bounds and why they are enough

`MaxRequests` and its relatives bound what the operator issues and `MaxFaults` what the environment
does, per behaviour; creation and import of nodes cost nothing. Loops and checks are not bounded. Two
nodes are enough for every pair of *old node* and *new node*. `nodes_settle` needs three: with two,
a failover away from one of two selected nodes goes to the other one and so ends the double
selection; a third node gives it another place to go. Two handlers with two requests give every
overlap of two handlers with the loop; with 2 or 3 requests a handler meets the state that another
one left. One or two faults reach each error branch once and once after a repair. Ages and
counters saturate at `Grace`, and `fails` is bounded because failover resets it. The theorems of the
next section have none of these bounds.

In `gateway_policy` two requests give each ordered pair of plans, so every plan is applied over
every other one's leftovers, with a fault before, between or after. Three policies have each value of
each column, and as requests replace some columns and keep the others, each of them meets both backends;
handlers are symmetric. In `services`: two addresses and two MAC addresses
give a takeover, an exchange and a merge, three rows let a merged device come back; three
cycles are needed for a merge, its loss and its repetition. Two DNS requests overlap in every order, with
one fault: a proxy or a dnsmasq that does not start, a crash of dnsmasq, or a restart of either kind.
Spans of 1, 2 and 4 ticks nest like minute, hour and day, and the times 0 to 4 pass the retention of samples
and minutes. Two links for the default route are enough for it to leave one and to come back, and two
events of links are two moves, or a move and a link that is made anew or cannot be read. Two addresses for two peers and three requests exhaust the pool. Two sources of two
countries and three requests make an update that a change overtakes. Four calls of `GatewayDns`
give two overlapping restarts and a clean one after them. Three requests with one archive that is to
be kept give a backup that prunes while another request deletes, and a request after both. The
requests of all services are symmetric. The pool of `GatewayBackups` has as many connections as there are requests
in flight, which is `db_pool_size`, so that none waits for one.

Each property has a mutant in `PROJECT.json`: a small change of one mapped definition that the
same run then refutes.

## 7. What is proved

Every theorem is about every value of the constants. What is assumed of them is stated by the named
assumptions of the modules: a positive number of nodes, threshold, span or retries, natural bounds,
sets of kinds, finite sets of connections and of ids of devices, and that `"none"` names no handler. `DatabasesAssumption` of `DnsZones` is about
what the backend may find at its start: a database whose unique names are distinct, whose built-in zones
are plain (`_ensure_zone_settings`), whose rules have zones and whose protocols have one zone each.
There is no assumption about the number of handlers, tasks, workers, requests or faults, except in
two theorems about `UpstreamNodes` that say so in their hypotheses.

`UpstreamNodesProofs`:

* `TypeCorrect`: `Spec => []TypeOK`. `TypeOK` alone is not inductive: `HealthObserve` indexes rows
  by `health.node`, which may be `None` by its type. `TypeInv` adds `Assigned`: a worker that is
  not idle has a node.
* `SpacingCorrect`: `Spec => []AttemptsSpaced`. The invariant `SpacingInv` adds `CounterCovered`,
  that the failure counter never runs ahead of the dead checks counted by `since`, unless those
  have reached the threshold, and `DecisionSpaced`, that the dead checks are still there when the decision
  is taken, whatever reset the counter meanwhile. Steps that touch neither are dealt with by one frame lemma.
* `SelectionImplemented`: `Spec => KeepsSelection`, the refinement. It needs `SpacingInv` and
  `SelectionInv`: a node that is active exists, so that a target read as active is a selected node, and an
  attempt that stays on its node has read that node as active. `SelectionGoal` is what each
  of the twenty-odd actions is shown to do; most keep `MarksSame`, and the rest are `Select`, `Remove` or a
  step of the attempt.
* `OneTarget`: whatever the rows are, `FailoverTarget` is exactly one node, so that `HealthDecide` never stops.
* `CircleComplete`: a set of candidates that contains the successor of each of its members contains
  all of them, whatever ids deletions left: going round passes over nobody. (That failover does go
  round, and arrives, is `Reconnects`, which stays with TLC.)
* `DeployedKept`: `DeployedNodeKept` as an action property, over all disjuncts that write rows.
* `KeysCorrect`: `OneTask` and `NoDelete` give `Spec => []KeyAgrees`. The hypotheses are the scope of
  the run `nodes_keys` and are needed: two deploys of one node overwrite each other's key, and DELETE
  gives the id of a row to the next one, whose host still runs with an old key. The invariant `KeyInv`
  says more than the property, which excepts nodes with a task: what runs at a deployed node, if anything,
  runs with its key at every moment, because a deploy never replaces a key that the row has, and the task
  works with the key of the row, which is what runs on the host when it saves. A task that fails after it
  removed the old container leaves nothing there; that this shows is `BrokenTunnelShows`.
* `TunnelCorrect`: `OneHandler` and `NoTask` give `Spec => []GeoipTunnelOwned`, the scope of the run
  `nodes_handlers`. The invariant adds that a node with the mark exists, and that what the one handler
  has read of its node, and of the other nodes with a mark, is still so. Every outcome of a failing
  `apply_interface` or `_apply_current_routing` is a case: none of them leaves a link `kept` for a node
  that the rows do not name.

`EntryNodesProofs`:

* `EntryTypeCorrect`: `Spec => []TypeOK`. The invariant adds `Placed`: a worker that probes,
  judges or moves has a node. The lemmas about `Index`, `Listed`, `Merged`, `Reordered`,
  `Assigned` and `Moved` say that the order algorithms give rows; positions are natural numbers
  because `Moved` stays when the new place is below zero.
* `GraceCorrect`: `Spec => GraceRespected`. The invariant `SinceInv` says that the age in the
  failover state never exceeds the time since the node was last selected or seen healthy, for every
  node at once, because the state does not say which node it is about.
* `OrderCorrect`: `Spec => []OrderDistinct`.
* `LineImplemented`: `Spec => KeepsLine`, the refinement.
* `ActiveExists`: the active node of the settings exists. It is `ActiveCorrect` read through the
  refinement, and not proved a second time.

The last three rest on one inductive invariant, `LineInv`. Distinct positions are not inductive: deletion
closes the gap and assignment counts the nodes in front, which gives distinct positions only if
positions are *dense*, that is, each equals the number of nodes ahead. But a flush merges columns of
different age. `LineInv` therefore says of an open transaction that it either left the order alone
or brings exactly one node to the front of the *committed* order, and of each worker, that what it
has loaded is harmless: a worker that has flushed an order is past every point where it
would load one (`Fit`). That works because the writer is alone from its flush to its end, and every
flush of an order reads the order in the same step. `Index` is shown injective on dense rows by
the cardinality theorems of finite sets.

`EntryOrderProofs`, about the abstract specification:

* `LineCorrect`: `ahead` is a strict total order of `nodes` in every behaviour of `EntryOrder`. The
  hard step is `Overtake` (`OvertakeStep`): an exchange keeps transitivity only because the two are
  neighbours.
* `ActiveCorrect`: the selected node is in the line.

`GatewayRoutingOutlines` and `GatewayRoutingProofs`:

* `RoutingCorrect`: the inductive invariant. What a handler has left to do is a program, so the argument
  is a proof outline in the manner of Hoare. A *fact* (`Fact`, `Holds`) says that the chains of a stack
  are gone, that the marks are those of the handler's rows, how far the forward chain is built, that a set
  has its contents. Each command has facts that it `Needs`, `Loses` and `Gains`; `Outlined` says that
  a sequence can be annotated with facts, and one lemma for each function of `routing.py` gives its
  outline. A fact is known only while the handler has the event loop. `Planned`, `Passed` and `Exempted`
  say what the facts at the end of a sequence leave behind for the time after it.
* `TypesCorrect`, `OneStackCorrect`: read off it. A stack is marked only when the other one is known to be
  gone.
* `SetsKept`: `SetsNeverDip` as an action property. The outlines know that only nftables has sets
  flushed that are filled afterwards; with ipsets a fill puts the contents of the rows in place in one step,
  and every other command leaves the sets in use alone (`OtherCommands`).
* `PlanCorrect`, `KillSwitchCorrect`, `PassthroughCorrect`: from the chains that a complete
  plan leaves to the fate of a packet. The mark is computed rule by rule: which rules of a chain a
  packet hits, which of them end its way and which set a mark, once for the pairs of rules of iptables
  and once for the final rules of nftables; then the route, then the filter.

`JumpServicesProofs`:

* `PeersTypeCorrect`, `KernelFollowsCommitted`, `AddressesStayDistinct`: rows of peers, the running
  interface and the addresses. `KernelInv` says of a handler without accident that what it has read is
  committed, of a writer that the interface has the rows that it is going to commit, and of `apply`, of the
  router or of the health job, that no writer has passed it. A half-made link is an accident until the next
  synchronisation or apply without one.
* `GeoipTypeCorrect`, `ZoneCorrect`: at most one update is under way (`OneUpdate`), and its fetched files,
  new set and swapped set agree with the sources of *now* as far as it has come (`Agrees`), or else a
  change is marked as missed or waits to start (`SomeWaiting`).
* `ExclusionsCorrect`: the writer of exclusions is alone from its flush (`WriterHolds`); the lists that
  handlers hold are those of the rows unless one was overtaken (`CleanLists`); the set and the marks follow
  (`SetFollows`) unless one of the commands between the route and the last mark has failed.
* `DnsTypeCorrect`, `ConsistentZones`, `ResolverFollows`: a reload reads zones, rules and
  manual addresses in three queries, in a session that holds the object of its handler with the columns of
  its refresh. `ReadsFollow` says that what was read, and that object, are equal to the database as long as
  nothing was committed after the refresh, or after the first query if there was none; `ReloadFollows` that
  the last reload was of what is committed when none is under way. `ChecksHold` says that what a handler found when it
  checked holds until somebody commits. That the configuration answers as the rows say
  (`AnswersOfRows`) rests on distinct names, which insertions and stale updates keep.

`GatewayServicesProofs`:

* `ResolverTypeCorrect`, `ResolverCorrect`: a restart that nothing overlapped is the only one
  (`Undisturbed`), so from its stop on the port is free; a dnsmasq that runs has its pid in the file
  (`Filed`), so an orphan of earlier overlaps is found and stopped.
* `TrafficTypeCorrect`, `TotalsCorrect`: a total, and what the next sample would add to it if it read the
  same link as the last, are covered by what the links read so far carried (`NotAhead`). The total alone is
  not inductive. A sample that reads a link for the first time adds at most what that link carried, which is
  why going *back* is the exception and moving on is not.
* `BucketsCorrect`: `HoursRemain` says that the bucket of an hour is there, or too old to be there, as
  long as one of its minutes is, so that an hour that is new has no minutes yet. `BucketAdds` is the
  arithmetic of one sample. The sums rest on the lemmas of the section "Sums": `SumFunctionOnSet`
  is a fold, and what a fold over a finite set gives is shown without an induction principle, by a least
  set that fails (`LeastSubset`, from the strict subsets of a finite set being well-founded):
  any element can be taken out (`SumSplits`), what is 0 does not count (`SumOfPart`), and larger
  elements make a larger sum (`SumsOrdered`).
* `BackupsTypeCorrect`, `SessionsCorrect`: a reset holds the door from its capture to its end
  (`DoorHeld`), and one that found nobody is alone, with an empty pool once it has disposed of the old one,
  until it opens the door (`ResetAlone`).
* `RecordsCorrect`: the invariant `ArchivesInv` holds while requests are under way. A committed record has
  its archive or a session that is about to delete the record (`RowsStored`); what a session has flushed has
  its archives and names no committed one while it prunes (`AddsInv`); and how far a session has come says
  what it can have flushed and unlinked (`FormInv`). The step that matters is the commit: nobody else has
  flushed to that file, as SQLite has one writer.
* `PruningCorrect`: of the rows that a pruning takes away one has no newer row that is taken away too
  (`NewestDropped`, by the strict subsets of a finite set being well-founded). At least
  `Retention` rows are newer than that one, none of them is taken away, each has an archive of its own,
  and by `ArchivesInv` that archive is there. `FiniteInv` says that there are finitely many of everything.
* `DevicesTypeCorrect`, `OverridesCorrect`: no two committed rows have one address (`AddressesApart`),
  which a cycle keeps because a row that it moves to an address takes the place of the one that is there,
  and because two new rows at one address have one key, which the UNIQUE constraint refuses.
  `CyclePlaced` says where the cycle has put its rows so far, `CycleRouted` that the rows as it is going
  to leave them have the routes of the committed ones, as long as it has not asked for a plan. A plan that is
  skipped or fails leaves `due`, and only one that is applied ends it. Each
  candidate is shown to do one of two things, `MadeNew` or `MadeSeen`, and the rest of the proof is about
  these.
* `BytesCorrect`: the rows that a cycle is going to leave hold at least what it has read of the flow
  states so far (`BytesInv`). A candidate adds its delta to them, at least (`ResolveAdds`): a merge moves
  the bytes of the row that disappears, and a row that comes back brings its own again, which is why totals
  may be more than was counted and never less. Rows and flow states are committed together.

`ServicesProofs`, about `Services`:

* `EachService`: a behaviour of `Services` is a behaviour of each of the seven, because a step of one
  leaves the variables of the others alone (`StepOfEach`).
* `ServicesTypeCorrect`: `[]ServicesTypeOK`.
* `JumpServicesTogether` and `GatewayServicesTogether`: the safety properties of section 5, all at
  once, in every behaviour of the seven services beside each other.

Proving changed the models in several places. `HealthObserve` used to contain the decision, although the
code commits the incident in between; in that form every attempt fell into a recorded outage, which is not so
(section 2), and the refinement of `NodeSelection` was too easy. A source that is switched off was in the zone at the start
of `GeoipZones`, though `_init_geoip_and_routing` loads enabled ones only. Names like `"none"` had to be
kept apart from ids of handlers and keys.
`DeviceTracking` let two queries for one MAC address return different rows, although the rows were the same,
and then `OverridesCurrent` fails; SQLite scans the same index for both, so the row is now a function
of the rows that match. Its exception, which used to last for ever, now ends with the next plan.
The exceptions of `RecordsHaveArchives` were both too narrow and too wide. With one more request than the run has,
a file is removed between the flush of the cycle that wrote it and its commit, and its record stays
behind: unlinking an archive that another session has flushed a record of is now an exception. The
exceptions for stragglers of a reset and for the time after a restore turned out not to be needed, and a
restored database whose archives are there ends the earlier ones.

Only model-checked, with the reason:

* Liveness (`Reconnects`, `OutageEnds`, `DeployEnds`, `BrokenTunnelShows`, `FailoverConnects`): beyond the prover here.
* The five properties of the violation runs, which do not hold.

## 8. What is abstracted or left out

* Keys, names, endpoints and addresses are numbers or model values; generated configuration is the
  part of it that a property reads. Rows of the DNS of awg-gateway are a version.
* All rows of `upstream_nodes` have one priority, so the circular order is the order of ids.
* The selects and the flush of `assign_active_node` are one step, a little coarser than the code.
* A tunnel is started in one step, which the code does without awaits.
* Both programs run one event loop; preemption inside synchronous code does not exist.
* Shared peers of nodes, statistics, latency history, switch logs and log streams are left out.
* Shell commands succeed, or fail as a fault; what they print is not modelled. Commands of which
  `GatewayRouting` ignores the result, as the code does (`Ignored`), always succeed there.
* `apply_interface` of `UpstreamNodes` is one step, also in userspace mode, where the code awaits inside
  it; what it leaves when it fails is modelled, what another handler does in the middle of it is not.
* A restart of the backend of awg-gateway finds every command of the DNS startup successful
  (`DnsBackendRestart` of `GatewayDns`), and no pid file that names a process of somebody else.
* The archives of `GatewayBackups` have distinct names; the code names them by the second, so that two
  of one second are one file.
* Zones of `DnsZones` are identified by their key; ids of rows are as SQLite gives them.
* `BytesKept` is about loss. A byte may be counted twice, see below.
* `EntryNodes` and `GatewayRouting` look at the tunnel of awg-gateway from two sides and are not
  composed: the product of the worker states of both is beyond TLC. What `EntryNodes` decides,
  `GatewayRouting` takes as `Failover`, `ActivateNode` or `SelectNode` of any other node.

What the code does beyond a named exception, met while modelling, and where to look:

* *Routing*: `update_settings` and policy changes while the tunnel is down only synchronise sets, so
  chains stay as they were. In iptables mode that synchronisation deletes the shared FORWARD chain
  and so the kill switch, while marks stay. A plan that is aborted between `ip route` and chains
  leaves old marks with a new route. A handler that loaded its rows early applies an outdated plan.
  After a failover, whose rows are rolled back, the next plan of any handler keeps the old server out of
  the tunnel and not the one that the tunnel leads to.
  The refresh of nftables sets is not atomic and loses learned names. `README_EN.md:351` speaks of
  a fallback to 0.0.0.0/0 for the external address service; `external_ip.py:108-117` has none.
* *Devices*: a new source with two fresh connections in one cycle, or an address taken over from an
  absent device, makes the cycle violate a uniqueness constraint and repeat for ever. Hosts that
  exchange addresses lose a row; a second merge in a cycle counts twice. A plan after a change of
  devices that is skipped (`device_tracking.py:492-499`) or fails (500-505) is not tried again.
* *Traffic*: a failed reading stores a counter of 0, and the next sample adds all of it
  (`traffic_metrics.py:73-76,132-139`). The counter of the default route is stored without its
  interface (116, 231-240), so bytes count again when the route comes back to an interface.
* *DNS of awg-jump*: `DNSManager.reload` starts proxies and then stops them with dnsmasq
  (`dns_manager.py:335,349-374`); a proxy that cannot start fails every later reload; two
  concurrent creations give two zones of one protocol. Two reloads at once: the one that ends last
  may write the object that its handler refreshed long before.
* *Nodes of awg-jump*: a request that is rolled back after the link was made leaves `awg1` or `awg2` to
  a node that the rows do not name; the repair job only looks whether the link is there. A redeploy that
  fails after `docker rm` (`node_deployer.py:801`) leaves a deployed node without a container.
* *Peers*: an apply that fails after `ip link add` leaves a link that the health job takes for running
  (`scheduler.py:37-67`). With an exhausted pool the new peer gets the allowed addresses of a client,
  0.0.0.0/0 (`awg.py:262-266`); two concurrent creations can get one address.
* *GeoIP*: an update asked for during an update is dropped (`geoip.py:43-46`) and a failed one
  is not repeated; exclusions changed during a redeployment are not installed
  (`geoip.py:192-201`, `node_deployer.py:839-842`). A routing that fails between the route and the
  marks (`routing.py:287-316,394-424`) leaves the zone in the tunnel without its exclusions.
* *DNS of awg-gateway*: `POST /api/dns/domains/bulk` takes `main_write_lock` and then calls a flush
  that takes it again (`routers/dns.py:479`, `database.py:83-89`): it never answers, and no other
  writer of the process does. A failed restart rolls the domains of a new zone back and leaves
  the zone; overlapping restarts leave an orphaned dnsmasq; nothing watches the process.
* *Backups of awg-gateway*: a scheduled archive has a record only if the same cycle pruned another
  (`main.py:79,188`); until then it is written again every minute, and archives of earlier days are
  never pruned. `GET /export` and `GET /list` flush records and never commit them. Deleting the record of a
  restore deletes the archive of that name. After a restore, open connections stay with the replaced
  file and new ones open the restored one. A scheduled restart of the backend is requested even if the
  commit of its date failed, and so again after the restart (`main.py:205-224`).

Not modelled, with the reason:

* *Backup and restore of awg-jump*. One handler that replaces a database file and asks for a restart.
* *The write-ahead log*. A restore leaves the log of the replaced database beside the restored one.
  What a connection then reads is decided inside SQLite, which is not in the repository.
* *First node bootstrap*: one SSH session with nobody else; its result is `Import` of `EntryNodes`.
* *Administration*: one request that writes one row.
* *Home Assistant integration*: the order of its polls and refreshes is Home Assistant's.
* *Node container, scripts, web front ends*: no protocol state.

## 9. Plan

1. An abstract specification of routing, a function from rows to verdicts that a plan installs at
   once, with `GatewayRouting` shown to implement it between complete plans.
2. `WriteLock`: the pool of `GatewayBackups` together with the lock of `EntryNodes`, so that waiting
   for a connection and waiting for the lock meet.
3. A composition of `EntryNodes` with the part of `GatewayRouting` that depends on the tunnel,
   small enough to be checked.
