------------------------------ MODULE DnsZones ------------------------------
(***************************************************************************)
(* Split DNS of awg-jump: zones with their servers, rules that send a name *)
(* to a zone, and manual addresses, in three tables; one dnsmasq with a    *)
(* generated configuration; and one local proxy for each encrypted         *)
(* protocol.  Handlers are coroutines: each checks, commits, refreshes the *)
(* object it changed, and then reloads the resolver from three queries of  *)
(* its session, and others run at every await.                             *)
(***************************************************************************)
EXTENDS Integers, FiniteSets

CONSTANTS
    DnsName,         \* names that rules and manual addresses are about
    ZoneKey,         \* keys of zones that the operator adds
    DnsId,           \* ids of rows, 1..n
    Proxy,           \* encrypted protocols, each with one local proxy
    Server,          \* servers of a plain zone, or the endpoint of an encrypted one
    DnsSlot,         \* handlers in flight
    Databases,       \* what may be committed when the backend starts
    MaxDnsRequests,  \* bound on the requests in a behaviour
    MaxDnsFaults     \* bound on the faults in a behaviour

ASSUME DnsAssumption ==
    /\ ZoneKey \cap {"local", "vpn", "none"} = {}
    /\ DnsId \subseteq Nat \ {0}
    /\ Proxy \subseteq {"dot", "doh"}
    /\ MaxDnsRequests \in Nat /\ MaxDnsFaults \in Nat

Key == {"local", "vpn"} \cup ZoneKey
Zone == [proto: {"plain"} \cup Proxy, server: Server]
NoZone == [proto |-> "none"]

\* Rows of dns_domains and of dns_manual_addresses; a manual address has no zone.
DnsTable == {"rules", "manual"}
DnsRow(t) == [name: DnsName, zone: IF t = "rules" THEN Key ELSE {"none"}, on: BOOLEAN]
NoDnsRow == [name |-> "no row"]

\* The unique names of a table, the built-in zones of _ensure_zone_settings, and what the
\* checks of the handlers keep
ASSUME DatabasesAssumption == \A d \in Databases :
    /\ d.zones \in [Key -> Zone \cup {NoZone}]
    /\ \A z \in {"local", "vpn"} : d.zones[z] # NoZone => d.zones[z].proto = "plain"
    /\ \A y, z \in Key : d.zones[y] # NoZone /\ d.zones[y].proto \in Proxy
                            /\ d.zones[z] # NoZone /\ d.zones[z].proto = d.zones[y].proto => y = z
    /\ d.rows = [t \in DnsTable |-> d.rows[t]]
    /\ \A t \in DnsTable :
          /\ d.rows[t] \in [DnsId -> DnsRow(t) \cup {NoDnsRow}]
          /\ \A i, j \in DnsId : d.rows[t][i] # NoDnsRow /\ d.rows[t][j] # NoDnsRow
                                  /\ d.rows[t][i].name = d.rows[t][j].name => i = j
    /\ \A i \in DnsId : d.rows["rules"][i] # NoDnsRow => d.zones[d.rows["rules"][i].zone] # NoZone

VARIABLES
    zones,     \* committed zones
    rows,      \* committed rows of the two tables
    resolver,  \* what the running dnsmasq was started with, or Stopped
    proxies,   \* "off", "ours", or "orphan": left by an earlier process of the backend
    slots,     \* handlers in flight
    disturbed, \* history: the last reload failed, or a change overtook it after its first read
    raced,     \* history: a change was committed between the checks and the commit of another
    dnsRequests, dnsFaults

dnsVars == <<zones, rows, resolver, proxies, slots, disturbed, raced, dnsRequests, dnsFaults>>

Stopped == [zones |-> "none"]
NoOwn == [at |-> <<"none", "none">>]
Rules  == rows["rules"]
Live(t) == {i \in DnsId : rows[t][i] # NoDnsRow}
Zones  == {z \in Key : zones[z] # NoZone}

---------------------------------------------------------------------------
(* The resolver *)

\* dnsmasq_target and _zone_targets: where the configuration sends a zone
Target(z, zone) == IF zone.proto = "plain" THEN <<"plain", z, zone.server>> ELSE <<"proxy", zone.proto>>

\* Mutant of Written: rules that are switched off are written, too
WrittenAll(zs, rs, ms) ==
    [zones  |-> zs,
     server |-> {<<rs[i].name, Target(rs[i].zone, zs[rs[i].zone])>> :
                     i \in {i \in DnsId : /\ rs[i] # NoDnsRow /\ rs[i].zone # "vpn"
                                          /\ zs[rs[i].zone] # NoZone}},
     address |-> {ms[i].name : i \in {i \in DnsId : ms[i] # NoDnsRow /\ ms[i].on}}]

\* _write_config: a default, server lines for names, address lines for names
Written(zs, rs, ms) ==
    [zones  |-> zs,
     server |-> {<<rs[i].name, Target(rs[i].zone, zs[rs[i].zone])>> :
                     i \in {i \in DnsId : /\ rs[i] # NoDnsRow /\ rs[i].on /\ rs[i].zone # "vpn"
                                          /\ zs[rs[i].zone] # NoZone}},
     address |-> {ms[i].name : i \in {i \in DnsId : ms[i] # NoDnsRow /\ ms[i].on}}]

\* How dnsmasq answers a name: an address line, else the server lines of the name, else
\* the default
Answers(conf, name) ==
    IF name \in conf.address THEN {<<"address", name>>}
    ELSE LET lines == {l \in conf.server : l[1] = name}
         IN IF lines = {} THEN {Target("vpn", conf.zones["vpn"])} ELSE {l[2] : l \in lines}

ProxyWanted(p, zs) == \E z \in Key : zs[z] # NoZone /\ zs[z].proto = p

\* sync: each proxy is started again for the first zone of its protocol, or stopped.  The
\* port of an orphan stays taken: the proxy that is started beside it ends.
Synced(zs, before) ==
    [p \in Proxy |-> IF before[p] = "orphan" THEN "orphan" ELSE IF ProxyWanted(p, zs) THEN "ours" ELSE "off"]

\* A proxy that ends within 0.2 s ends sync; the one of DoT comes first.
SyncEnds(zs, before, p) ==
    [q \in Proxy |-> IF before[q] = "orphan" THEN "orphan" ELSE IF q = p THEN "off"
                     ELSE IF p = "dot" THEN before[q] ELSE Synced(zs, before)[q]]

\* stop ends the proxies that the backend knows with dnsmasq; start starts dnsmasq alone.
StoppedWith(dnsmasq, before) ==
    [p \in Proxy |-> IF dnsmasq # Stopped /\ before[p] = "ours" THEN "off" ELSE before[p]]

---------------------------------------------------------------------------
(* Requests *)

NoSlot == [phase |-> "idle"]
Slot(kind, change) == [phase |-> "commit", kind |-> kind, change |-> change, clean |-> TRUE,
                       own |-> NoOwn, zones |-> <<>>, rules |-> <<>>]

\* Mutant of SlotFree: an update does not look for the other zone of its protocol
SlotFreeUnchecked(z, proto) == zones[z] # NoZone \/ ~ \E y \in ZoneKey : zones[y].proto = proto

\* _ensure_protocol_slot_available
SlotFree(z, proto) == proto \in Proxy => ~ \E y \in ZoneKey \ {z} : zones[y].proto = proto

\* _normalize_zone_key and the suffixes give a key that is free.
AddZone == \E z \in ZoneKey, zone \in Zone, names \in SUBSET DnsName :
    /\ zones[z] = NoZone /\ SlotFree(z, zone.proto)
    /\ slots' \in {[slots EXCEPT ![s] = Slot("addZone", [zone |-> z, new |-> zone, names |-> names])] :
                      s \in {s \in DnsSlot : slots[s] = NoSlot}}

SetZone == \E z \in Zones, zone \in Zone :
    /\ z \in {"local", "vpn"} => zone.proto = "plain"
    /\ SlotFree(z, zone.proto)
    /\ slots' \in {[slots EXCEPT ![s] = Slot("setZone", [zone |-> z, old |-> zones[z], new |-> zone])] :
                      s \in {s \in DnsSlot : slots[s] = NoSlot}}

\* The rules that delete_zone loads to delete them
Dropped(z) == {i \in Live("rules") : Rules[i].zone = z}

DropZone == \E z \in Zones \cap ZoneKey :
    slots' \in {[slots EXCEPT ![s] = Slot("dropZone", [zone |-> z, ids |-> Dropped(z)])] :
                   s \in {s \in DnsSlot : slots[s] = NoSlot}}

Named(t, name) == {i \in Live(t) : rows[t][i].name = name}

\* create_domain, create_domains_bulk and create_manual_address
AddRows == \E t \in DnsTable, names \in SUBSET DnsName \ {{}}, z \in Zones \cup {"none"}, on \in BOOLEAN,
              kind \in {"add", "bulk"} :
    /\ t = "manual" <=> z = "none"
    /\ IF kind = "bulk" THEN t = "rules" ELSE Cardinality(names) = 1
    /\ \A n \in names : Named(t, n) = {}
    /\ slots' \in {[slots EXCEPT ![s] = Slot(kind, [table |-> t, names |-> names, zone |-> z, on |-> on])] :
                      s \in {s \in DnsSlot : slots[s] = NoSlot}}

\* toggle_domain and toggle_manual_address
ToggleRow == \E t \in DnsTable : \E i \in Live(t) :
    slots' \in {[slots EXCEPT ![s] = Slot("set", [table |-> t, id |-> i, old |-> rows[t][i],
                                                 new |-> [rows[t][i] EXCEPT !.on = ~@]])] :
                   s \in {s \in DnsSlot : slots[s] = NoSlot}}

\* update_domain and update_manual_address
SetRow == \E t \in DnsTable : \E i \in Live(t) : \E new \in DnsRow(t) :
    /\ Named(t, new.name) \subseteq {i}
    /\ new.zone \in Zones \cup {"none"} \/ new.zone = rows[t][i].zone
    /\ slots' \in {[slots EXCEPT ![s] = Slot("set", [table |-> t, id |-> i, old |-> rows[t][i], new |-> new])] :
                      s \in {s \in DnsSlot : slots[s] = NoSlot}}

DropRow == \E t \in DnsTable : \E i \in Live(t) :
    slots' \in {[slots EXCEPT ![s] = Slot("drop", [table |-> t, id |-> i])] :
                   s \in {s \in DnsSlot : slots[s] = NoSlot}}

\* POST /reload
ReloadRequest ==
    slots' \in {[slots EXCEPT ![s] = [Slot("reload", NoOwn) EXCEPT !.phase = "zones"]] :
                   s \in {s \in DnsSlot : slots[s] = NoSlot}}

DnsRequest ==
    /\ dnsRequests > 0 /\ dnsRequests' = dnsRequests - 1
    /\ \/ AddZone \/ SetZone \/ DropZone
       \/ AddRows \/ ToggleRow \/ SetRow \/ DropRow
       \/ ReloadRequest
    /\ UNCHANGED <<zones, rows, resolver, proxies, disturbed, raced, dnsFaults>>

---------------------------------------------------------------------------
(* Commit *)

\* New rows take the ids after the highest one.
Inserted(table, names, zone, on) ==
    {[i \in DnsId |-> IF table[i] # NoDnsRow \/ ~ \E n \in names : place[n] = i THEN table[i]
                      ELSE [name |-> CHOOSE n \in names : place[n] = i, zone |-> zone, on |-> on]] :
        place \in {f \in [names -> DnsId] :
            LET top == {i \in DnsId : table[i] # NoDnsRow}
                old == IF top = {} THEN 0 ELSE CHOOSE i \in top : \A j \in top : j <= i
            IN {f[n] : n \in names} = (old + 1)..(old + Cardinality(names))}}

\* An UPDATE writes the columns that the handler changed.
Updated(now, old, new) == [c \in DOMAIN now |-> IF new[c] = old[c] THEN now[c] ELSE new[c]]

Taken(table, names) == \E i \in DnsId : table[i] # NoDnsRow /\ table[i].name \in names

\* What a unique constraint or a missing row refuses at the commit
Possible(kind, c) ==
    CASE kind = "addZone"  -> zones[c.zone] = NoZone /\ ~Taken(Rules, c.names)
      [] kind = "setZone"  -> zones[c.zone] # NoZone
      [] kind \in {"add", "bulk"} -> ~Taken(rows[c.table], c.names)
      [] kind = "set"      -> /\ rows[c.table][c.id] # NoDnsRow
                              /\ \A i \in Live(c.table) \ {c.id} :
                                    rows[c.table][i].name # Updated(rows[c.table][c.id], c.old, c.new).name
      [] OTHER             -> TRUE

Effect(kind, c) ==
    \/ /\ kind = "addZone"
       /\ zones' = [zones EXCEPT ![c.zone] = c.new]
       /\ \E rs \in Inserted(Rules, c.names, c.zone, TRUE) : rows' = [rows EXCEPT !["rules"] = rs]
    \/ /\ kind = "setZone"
       /\ zones' = [zones EXCEPT ![c.zone] = Updated(@, c.old, c.new)]
       /\ UNCHANGED rows
    \/ /\ kind = "dropZone"
       /\ zones' = [zones EXCEPT ![c.zone] = NoZone]
       /\ rows' = [rows EXCEPT !["rules"] = [i \in DnsId |-> IF i \in c.ids THEN NoDnsRow ELSE @[i]]]
    \/ /\ kind \in {"add", "bulk"}
       /\ \E rs \in Inserted(rows[c.table], c.names, c.zone, c.on) : rows' = [rows EXCEPT ![c.table] = rs]
       /\ UNCHANGED zones
    \/ /\ kind = "set"
       /\ rows' = [rows EXCEPT ![c.table][c.id] = Updated(@, c.old, c.new)]
       /\ UNCHANGED zones
    \/ /\ kind = "drop"
       /\ rows' = [rows EXCEPT ![c.table][c.id] = NoDnsRow]
       /\ UNCHANGED zones

Last(table) == {i \in DnsId : table[i] # NoDnsRow /\ \A j \in DnsId : table[j] # NoDnsRow => j <= i}

\* The object that a handler holds while it reloads: its zone or its row, of several rows
\* the last.  What it has deleted, and what it has only looked at, it does not hold.
Held(kind, c, zs, rs) ==
    CASE kind \in {"addZone", "setZone"} -> {[at |-> <<"zones", c.zone>>, row |-> zs[c.zone]]}
      [] kind = "set" -> {[at |-> <<c.table, c.id>>, row |-> rs[c.table][c.id]]}
      [] kind \in {"add", "bulk"} ->
             {[at |-> <<c.table, i>>, row |-> rs[c.table][i]] : i \in Last(rs[c.table])}
      [] OTHER -> {NoOwn}

Refreshed(kind) == kind \in {"addZone", "setZone", "add", "set"}

Commit(s) ==
    /\ slots[s].phase = "commit" /\ Possible(slots[s].kind, slots[s].change)
    /\ Effect(slots[s].kind, slots[s].change)
    /\ \E own \in Held(slots[s].kind, slots[s].change, zones', rows') :
          slots' = [r \in DnsSlot |->
                    IF r = s THEN [slots[s] EXCEPT !.phase = IF Refreshed(slots[s].kind) THEN "refresh" ELSE "zones",
                                                   !.clean = TRUE, !.own = own]
                    ELSE IF slots[r] = NoSlot THEN NoSlot ELSE [slots[r] EXCEPT !.clean = FALSE]]
    /\ raced' = (raced \/ ~slots[s].clean)
    /\ UNCHANGED <<resolver, proxies, disturbed, dnsRequests, dnsFaults>>

\* The handler ends with an error and reloads nothing.
Refuse(s) ==
    /\ slots[s].phase = "commit" /\ ~Possible(slots[s].kind, slots[s].change)
    /\ slots' = [slots EXCEPT ![s] = NoSlot]
    /\ UNCHANGED <<zones, rows, resolver, proxies, disturbed, raced, dnsRequests, dnsFaults>>

---------------------------------------------------------------------------
(* reload *)

StoredRow(at) == IF at[1] = "zones" THEN zones[at[2]] ELSE rows[at[1]][at[2]]
Exists(stored) == stored \notin {NoZone, NoDnsRow}

\* session.refresh of the object that was changed
Refresh(s) ==
    /\ slots[s].phase = "refresh" /\ Exists(StoredRow(slots[s].own.at))
    /\ slots' = [slots EXCEPT ![s].phase = "zones", ![s].clean = TRUE,
                              ![s].own = [at |-> @.at, row |-> StoredRow(@.at)]]
    /\ UNCHANGED <<zones, rows, resolver, proxies, disturbed, raced, dnsRequests, dnsFaults>>

\* Another handler has deleted the object: this one ends with an error and reloads nothing.
RefreshFails(s) ==
    /\ slots[s].phase = "refresh" /\ ~Exists(StoredRow(slots[s].own.at))
    /\ slots' = [slots EXCEPT ![s] = NoSlot]
    /\ UNCHANGED <<zones, rows, resolver, proxies, disturbed, raced, dnsRequests, dnsFaults>>

\* What a query of table t returns: an object that the session holds keeps its columns.
Seen(own, t, stored) ==
    [k \in DOMAIN stored |-> IF own.at = <<t, k>> /\ Exists(stored[k]) THEN own.row ELSE stored[k]]

ZonesRead(s) == Seen(slots[s].own, "zones", zones)

\* From here on, or from the refresh on, nothing should change until the reload is done.
ReadZones(s) ==
    /\ slots[s].phase = "zones"
    /\ proxies' = Synced(ZonesRead(s), proxies)
    /\ slots' = [slots EXCEPT ![s].phase = "rules", ![s].zones = ZonesRead(s),
                              ![s].clean = slots[s].clean \/ slots[s].own = NoOwn]
    /\ UNCHANGED <<zones, rows, resolver, disturbed, raced, dnsRequests, dnsFaults>>

ProxyFails(s) ==
    /\ slots[s].phase = "zones"
    /\ \E p \in Proxy :
          /\ ProxyWanted(p, ZonesRead(s))
          /\ IF proxies[p] = "orphan" THEN UNCHANGED dnsFaults ELSE dnsFaults > 0 /\ dnsFaults' = dnsFaults - 1
          /\ proxies' = SyncEnds(ZonesRead(s), proxies, p)
    /\ slots' = [slots EXCEPT ![s] = NoSlot] /\ disturbed' = TRUE
    /\ UNCHANGED <<zones, rows, resolver, raced, dnsRequests>>

ReadRules(s) ==
    /\ slots[s].phase = "rules"
    /\ slots' = [slots EXCEPT ![s].phase = "write", ![s].rules = Seen(slots[s].own, "rules", Rules)]
    /\ UNCHANGED <<zones, rows, resolver, proxies, disturbed, raced, dnsRequests, dnsFaults>>

WriteConfig(s) ==
    /\ slots[s].phase = "write"
    /\ proxies' = StoppedWith(resolver, proxies)
    /\ resolver' = Written(slots[s].zones, slots[s].rules, Seen(slots[s].own, "manual", rows["manual"]))
    /\ slots' = [slots EXCEPT ![s] = NoSlot] /\ disturbed' = ~slots[s].clean
    /\ UNCHANGED <<zones, rows, raced, dnsRequests, dnsFaults>>

\* The configuration test or dnsmasq itself fails.
StartFails(s) ==
    /\ slots[s].phase = "write" /\ dnsFaults > 0 /\ dnsFaults' = dnsFaults - 1
    /\ proxies' = StoppedWith(resolver, proxies)
    /\ resolver' = Stopped
    /\ slots' = [slots EXCEPT ![s] = NoSlot] /\ disturbed' = TRUE
    /\ UNCHANGED <<zones, rows, raced, dnsRequests>>

\* dnsmasq ends by itself; nothing starts it but the next reload.
ResolverCrash ==
    /\ resolver # Stopped /\ dnsFaults > 0 /\ dnsFaults' = dnsFaults - 1
    /\ resolver' = Stopped
    /\ UNCHANGED <<zones, rows, proxies, slots, disturbed, raced, dnsRequests>>

\* The reload of the start, before any request; an error of it is logged and no more.
StartReloads(found, known) ==
    \/ /\ proxies' = StoppedWith(found, Synced(zones, known))
       /\ \/ resolver' = Written(zones, Rules, rows["manual"]) /\ disturbed' = FALSE
          \/ resolver' = Stopped /\ disturbed' = TRUE
    \/ /\ \E p \in Proxy : ProxyWanted(p, zones) /\ proxies' = SyncEnds(zones, known, p)
       /\ resolver' = found /\ disturbed' = TRUE

\* The container is started again, or supervisord starts the backend alone: dnsmasq runs
\* on and is found by its pid file, and nobody finds the proxies that run on.
DnsRestart ==
    /\ dnsFaults > 0 /\ dnsFaults' = dnsFaults - 1
    /\ slots' = [s \in DnsSlot |-> NoSlot]
    /\ \/ StartReloads(Stopped, [p \in Proxy |-> "off"])
       \/ StartReloads(resolver, [p \in Proxy |-> IF proxies[p] = "off" THEN "off" ELSE "orphan"])
    /\ UNCHANGED <<zones, rows, raced, dnsRequests>>

---------------------------------------------------------------------------
(* Specification *)

DnsInit ==
    /\ \E d \in Databases : zones = d.zones /\ rows = d.rows
    /\ resolver = Written(zones, Rules, rows["manual"])
    /\ proxies = Synced(zones, [p \in Proxy |-> "off"])
    /\ slots = [s \in DnsSlot |-> NoSlot]
    /\ disturbed = FALSE /\ raced = FALSE
    /\ dnsRequests = MaxDnsRequests /\ dnsFaults = MaxDnsFaults

DnsNext ==
    \/ DnsRequest
    \/ \E s \in DnsSlot : \/ Commit(s) \/ Refuse(s) \/ Refresh(s) \/ RefreshFails(s)
                          \/ ReadZones(s) \/ ProxyFails(s) \/ ReadRules(s)
                          \/ WriteConfig(s) \/ StartFails(s)
    \/ ResolverCrash \/ DnsRestart

DnsSpec == DnsInit /\ [][DnsNext]_dnsVars

---------------------------------------------------------------------------
(* Properties *)

\* Types of the variables
DnsTypeOK ==
    /\ zones \in [Key -> Zone \cup {NoZone}]
    /\ \A t \in DnsTable : rows[t] \in [DnsId -> DnsRow(t) \cup {NoDnsRow}]
    /\ proxies \in [Proxy -> {"off", "ours", "orphan"}]
    /\ \A s \in DnsSlot : slots[s] = NoSlot \/ slots[s].phase \in {"commit", "refresh", "zones", "rules", "write"}

Quiet == (\A s \in DnsSlot : slots[s] = NoSlot) /\ ~disturbed /\ resolver # Stopped

\* What the rows say of a name: its manual address, else the zone of its rule as long as
\* that zone exists, else the zone vpn
Policy(name) ==
    IF \E i \in Named("manual", name) : rows["manual"][i].on THEN {<<"address", name>>}
    ELSE LET own == {i \in Named("rules", name) : Rules[i].on /\ zones[Rules[i].zone] # NoZone}
         IN {Target(z, zones[z]) : z \in IF own = {} THEN {"vpn"} ELSE {Rules[i].zone : i \in own}}

\* Whatever handlers overlapped, whatever of them failed, whenever dnsmasq ended and the
\* container or the backend alone was started again: once all handlers are done, the running
\* resolver answers every name as the committed rows say, although each reload sees the
\* object that its handler holds as it was refreshed.  Excepted is the time from a reload
\* that failed, or that a change overtook between its refresh (without one, its first read)
\* and its end, to the next reload without such an accident.
ResolverFollowsRows == Quiet => \A n \in DnsName : Answers(resolver, n) = Policy(n)

\* As long as no change was committed between the checks and the commit of another, no
\* sequence of requests leaves a rule without its zone or two zones on one proxy.
ZonesConsistent ==
    ~raced => /\ \A i \in Live("rules") : Rules[i].zone \in Zones
              /\ \A y, z \in Zones : zones[y].proto = zones[z].proto /\ zones[y].proto \in Proxy => y = z
=============================================================================
