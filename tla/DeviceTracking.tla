--------------------------- MODULE DeviceTracking ---------------------------
(***************************************************************************)
(* The device inventory of awg-gateway.  Every 30 seconds a cycle reads    *)
(* the neighbours and the connections of the kernel, finds or creates the  *)
(* row of each source, merges two rows that turn out to be one device, and *)
(* adds up bytes.  Its session does not flush before a query, so a query   *)
(* sees the committed rows while the objects that it returns are those of  *)
(* the identity map.  The operator sets marks and route overrides in       *)
(* sessions of his own meanwhile, and only a plan that is applied carries  *)
(* them to the kernel.                                                     *)
(***************************************************************************)
EXTENDS Integers, FiniteSets, Functions

CONSTANTS
    DevIp, DevMac,   \* addresses of the network of the clients
    DevId,           \* ids of rows, 1..n
    Flow,            \* connections: pairs of a source and a number
    MaxBytes,        \* bound on the counter of a connection
    Sights,          \* what a cycle may find: neighbours, who is there, counters
    MaxCycles,       \* bound on the cycles in a behaviour
    MaxPuts          \* bound on the changes by the operator

ASSUME DevicesAssumption ==
    /\ "none" \notin DevIp \cup DevMac
    /\ DevId \subseteq Nat \ {0} /\ IsFiniteSet(DevId) /\ IsFiniteSet(Flow)
    /\ Flow \subseteq DevIp \X Nat
    /\ \A s \in Sights : /\ s.neigh \in [DevIp -> DevMac \cup {"none"}]
                         /\ s.here \subseteq {i \in DevIp : s.neigh[i] # "none"}
                         /\ s.seen \in [Flow -> -1..MaxBytes]
    /\ MaxBytes \in Nat /\ MaxCycles \in Nat /\ MaxPuts \in Nat

RouteTarget == {"none", "local", "vpn"}

\* The columns of tracked_devices that matter here; key is identity_key.
Device == [mac: DevMac \cup {"none"}, ip: DevIp, key: ({"mac"} \X DevMac) \cup ({"ip"} \X DevIp),
           forced: RouteTarget, total: Nat]
NoDevice == [mac |-> "no row"]

VARIABLES
    devices,    \* the committed rows of tracked_devices
    flows,      \* last_bytes of the committed flow states, -1 for none
    overrides,  \* routes of single devices in the kernel: pairs of ip and target
    cycle,      \* the cycle under way
    due,        \* history: a change asked for a plan, or a plan failed, and none was
                \* applied since
    overlap,    \* history: the operator changed a row while a cycle was under way, and
                \* no plan was applied after that cycle
    cycles, puts

devicesVars == <<devices, flows, overrides, cycle, due, overlap, cycles, puts>>

Known == {d \in DevId : devices[d] # NoDevice}

---------------------------------------------------------------------------
(* Rows *)

ByMac(mac) == IF mac = "none" THEN {} ELSE {d \in Known : devices[d].mac = mac}
ByIp(ip)   == {d \in Known : devices[d].ip = ip \/ devices[d].key = <<"ip", ip>>}

\* scalar() returns one of the rows that match, or None (0); for the same rows SQLite gives
\* the same one.
OneOf(found) == IF found = {} THEN 0 ELSE CHOOSE d \in found : TRUE

\* The object of a row: as the session has it, else as it is committed
Object(d) == IF cycle.mem[d] # NoDevice THEN cycle.mem[d] ELSE devices[d]

\* Mutant of MergedRow: the bytes of the source go with it
MergedRowDropsBytes(target, source) ==
    [target EXCEPT !.forced = IF @ = "none" THEN source.forced ELSE @]

\* _merge_devices
MergedRow(target, source) ==
    [target EXCEPT !.total = @ + source.total,
                   !.forced = IF @ = "none" THEN source.forced ELSE @]

\* _resolve_device, for a row that is there
SeenAt(row, ip, mac) ==
    [row EXCEPT !.ip = ip,
                !.mac = IF mac = "none" THEN @ ELSE mac,
                !.key = IF mac # "none" /\ @[1] = "ip" THEN <<"mac", mac>> ELSE @]

\* Mutant of NewRow: the key is made of a MAC that is not known
NewRowByMac(ip, mac) ==
    [mac |-> mac, ip |-> ip, key |-> <<"mac", mac>>, forced |-> "none", total |-> 0]

NewRow(ip, mac) ==
    [mac |-> mac, ip |-> ip, key |-> IF mac = "none" THEN <<"ip", ip>> ELSE <<"mac", mac>>,
     forced |-> "none", total |-> 0]

\* _flow_observation_is_active for a connection with byte counters
Fresh(last, now) == IF last = -1 THEN now > 0 ELSE now # last

\* _flow_delta
Delta(last, now) == IF last = -1 \/ now < last THEN now ELSE now - last

\* _load_device_route_overrides
Overridden(rows) == {<<rows[d].ip, rows[d].forced>> :
                        d \in {d \in DevId : rows[d] # NoDevice /\ rows[d].forced # "none"}}

---------------------------------------------------------------------------
(* A cycle *)

NoRows == [d \in DevId |-> NoDevice]
NoCycle == [phase |-> "idle", neigh |-> [i \in DevIp |-> "none"], here |-> {},
            seen |-> [f \in Flow |-> -1], todo |-> {}, mem |-> NoRows, base |-> NoRows,
            dead |-> {}, dirty |-> FALSE]

\* The neighbour table, the neighbours that the table or a ping confirms, and the
\* connections of selected sources with their counters.  Connections come before
\* neighbours that have none.
BeginCycle ==
    /\ cycle.phase = "idle" /\ cycles > 0 /\ cycles' = cycles - 1
    /\ \E s \in Sights :
          cycle' = [NoCycle EXCEPT !.phase = "candidates", !.neigh = s.neigh, !.here = s.here,
                                   !.seen = s.seen,
                                   !.todo = {f \in Flow : s.seen[f] >= 0 /\ Fresh(flows[f], s.seen[f])}]
    /\ UNCHANGED <<devices, flows, overrides, due, overlap, puts>>

\* Mutant of Dirties: a device has moved when its MAC is another one
DirtiesByMac(old, before, after) == after.forced # "none" /\ before.mac # after.mac

\* The override has to move: the device as it is resolved has one, and its address
\* was not this one.
Dirties(old, before, after) == after.forced # "none" /\ old # after.ip

\* _resolve_device and the rest of the loop over the candidates, for one of them
Resolve(ip, bytes, rest, phase) ==
    LET mac  == cycle.neigh[ip]
        byMac == OneOf(ByMac(mac))
        byIp == OneOf(ByIp(ip))
        both == byMac # 0 /\ byIp # 0 /\ byMac # byIp
        d    == IF byMac # 0 THEN byMac ELSE byIp
        new  == CHOOSE e \in DevId : devices[e] = NoDevice /\ cycle.mem[e] = NoDevice
        id   == IF d = 0 THEN new ELSE d
        row  == IF d = 0 THEN NewRow(ip, mac)
                ELSE SeenAt(IF both THEN MergedRow(Object(byMac), Object(byIp)) ELSE Object(d),
                            ip, mac)
        got  == [row EXCEPT !.total = @ + bytes]
        old  == IF d = 0 THEN "none" ELSE Object(d).ip
        read == {e \in {byMac, byIp} \cap DevId : cycle.mem[e] = NoDevice}
        mem  == [e \in DevId |-> IF e = id THEN got ELSE IF e \in read THEN devices[e]
                                 ELSE cycle.mem[e]]
    IN /\ d = 0 => \E e \in DevId : devices[e] = NoDevice /\ cycle.mem[e] = NoDevice
       /\ cycle' = [cycle EXCEPT
             !.phase = phase, !.todo = rest, !.mem = mem,
             !.base = [e \in DevId |-> IF e \in read THEN devices[e] ELSE @[e]],
             !.dead = (IF both THEN @ \cup {byIp} ELSE @) \ {id},
             !.dirty = @ \/ Dirties(old, IF d = 0 THEN got ELSE Object(d), got)]
       /\ UNCHANGED <<devices, flows, overrides, due, overlap, cycles, puts>>

ConntrackCandidate ==
    /\ cycle.phase = "candidates"
    /\ \E f \in cycle.todo :
          Resolve(f[1], Delta(flows[f], cycle.seen[f]), cycle.todo \ {f}, "candidates")

\* Sources with fresh traffic, and the neighbours that are left
Sources == {f[1] : f \in {g \in Flow : cycle.seen[g] >= 0 /\ Fresh(flows[g], cycle.seen[g])}}

NeighbourLoop ==
    /\ cycle.phase = "candidates" /\ cycle.todo = {}
    /\ cycle' = [cycle EXCEPT !.phase = "neighbours", !.todo = cycle.here \ Sources]
    /\ UNCHANGED <<devices, flows, overrides, due, overlap, cycles, puts>>

NeighbourCandidate ==
    /\ cycle.phase = "neighbours"
    /\ \E ip \in cycle.todo : Resolve(ip, 0, cycle.todo \ {ip}, "neighbours")

\* A flush writes the columns that differ from those that were read.
WrittenRow(d) ==
    LET new == cycle.mem[d]
    IN IF cycle.base[d] # NoDevice /\ devices[d] # NoDevice /\ new.forced = cycle.base[d].forced
       THEN [new EXCEPT !.forced = devices[d].forced] ELSE new

Flushed == [d \in DevId |-> IF cycle.mem[d] # NoDevice THEN WrittenRow(d) ELSE devices[d]]

\* The last loop: a row without a MAC takes that of the neighbour table, also of an
\* entry that nothing confirms.
Judged(rows) ==
    [d \in DevId |->
        IF rows[d] = NoDevice \/ d \in cycle.dead THEN NoDevice
        ELSE LET mac == cycle.neigh[rows[d].ip]
             IN IF rows[d].mac = "none" /\ mac # "none"
                THEN [rows[d] EXCEPT !.mac = mac, !.key = <<"mac", mac>>] ELSE rows[d]]

\* identity_key is unique; rows are deleted after the others are written.
Unique(rows) == \A d, e \in DevId :
    d # e /\ rows[d] # NoDevice /\ rows[e] # NoDevice => rows[d].key # rows[e].key

Counted == [f \in Flow |-> IF cycle.seen[f] >= 0 THEN cycle.seen[f] ELSE flows[f]]

FinishCycle ==
    /\ cycle.phase = "neighbours" /\ cycle.todo = {}
    /\ \E old \in SUBSET {f \in Flow : cycle.seen[f] < 0} :
          LET rows == Judged(Flushed)
          IN /\ Unique(Flushed) /\ Unique(rows)
             /\ devices' = rows
             /\ flows' = [f \in Flow |-> IF f \in old THEN -1 ELSE Counted[f]]
    /\ cycle' = IF cycle.dirty THEN [NoCycle EXCEPT !.phase = "reload"] ELSE NoCycle
    /\ due' = (due \/ cycle.dirty)
    /\ UNCHANGED <<overrides, overlap, cycles, puts>>

\* The UNIQUE constraint refuses a key, or the process ends: nothing is committed.
LoseCycle ==
    /\ cycle.phase \in {"candidates", "neighbours"}
    /\ cycle' = NoCycle
    /\ UNCHANGED <<devices, flows, overrides, due, overlap, cycles, puts>>

---------------------------------------------------------------------------
(* Plans.  Only one that is applied brings the overrides in line: the plan of *)
(* a policy that is not safe is left, and after an error of a command, or the *)
(* local passthrough of a gateway that is switched off, some routes are gone. *)
(* Nothing tries again.                                                       *)

PlanApplied ==
    /\ overrides' = Overridden(devices)
    /\ due' = FALSE
    /\ overlap' = (overlap /\ cycle.phase \in {"candidates", "neighbours"})

PlanBroken ==
    /\ overrides' \in (SUBSET overrides) \cup (SUBSET Overridden(devices))
    /\ due' = TRUE
    /\ overlap' = overlap

\* _reload_device_route_runtime, also when it is left out because the process ends
Reload ==
    /\ cycle.phase = "reload"
    /\ PlanApplied \/ PlanBroken \/ UNCHANGED <<overrides, due, overlap>>
    /\ cycle' = NoCycle
    /\ UNCHANGED <<devices, flows, cycles, puts>>

\* The plan of update_device, of another handler or of a startup
Plan ==
    /\ PlanApplied \/ PlanBroken
    /\ UNCHANGED <<devices, flows, cycle, cycles, puts>>

\* update_device commits the row; its plan comes after two reads of the other database.
PutDevice ==
    /\ puts > 0 /\ puts' = puts - 1
    /\ \E d \in Known : \E forced \in RouteTarget : devices' = [devices EXCEPT ![d].forced = forced]
    /\ due' = TRUE
    /\ overlap' = (overlap \/ cycle.phase \in {"candidates", "neighbours"})
    /\ UNCHANGED <<flows, overrides, cycle, cycles>>

---------------------------------------------------------------------------
(* Specification *)

DevicesInit ==
    /\ devices = NoRows
    /\ flows = [f \in Flow |-> -1]
    /\ overrides = {}
    /\ cycle = NoCycle
    /\ due = FALSE /\ overlap = FALSE
    /\ cycles = MaxCycles /\ puts = MaxPuts

DevicesNext == \/ BeginCycle \/ ConntrackCandidate \/ NeighbourLoop \/ NeighbourCandidate
               \/ FinishCycle \/ LoseCycle \/ Reload \/ Plan \/ PutDevice

DevicesSpec == DevicesInit /\ [][DevicesNext]_devicesVars

---------------------------------------------------------------------------
(* Properties *)

\* Types of the variables
DevicesTypeOK ==
    /\ \A d \in DevId : devices[d] = NoDevice \/ devices[d] \in Device
    /\ flows \in [Flow -> -1..MaxBytes]
    /\ overrides \subseteq DevIp \X (RouteTarget \ {"none"})
    /\ cycle.phase \in {"idle", "candidates", "neighbours", "reload"}
    /\ cycle.dead \subseteq DevId

\* Whatever rows are merged, resurrected or created and whichever cycles are lost,
\* every byte that a flow state says was counted is in the total of some device, so
\* that no later cycle can count it again or lose it.
BytesKept ==
    SumFunctionOnSet([d \in Known |-> devices[d].total], Known)
        >= SumFunctionOnSet(flows, {f \in Flow : flows[f] >= 0})

\* Unless a plan is due, the routes of single devices in the kernel are those of the
\* rows, each forced device at its current address: a cycle that moves devices, merges
\* rows and passes a route on, or that is lost, leaves no old route without asking for a
\* plan.  A change by the operator in the middle of a cycle is excepted, until a plan
\* after that cycle: the cycle still has the old route of the row and does not see that
\* its new address needs a plan.
OverridesCurrent == ~due /\ ~overlap => overrides = Overridden(devices)
=============================================================================
