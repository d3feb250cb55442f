--------------------------- MODULE GatewayRouting ---------------------------
(***************************************************************************)
(* Policy routing and kill switch of awg-gateway.  The settings that the   *)
(* operator saves reach the kernel as sequences of ip, iptables, nft and   *)
(* ipset commands: a routing plan, a local passthrough, or only the sets   *)
(* and an empty base.  The handlers share one asyncio loop; a sequence     *)
(* runs to its end or to the first command that fails, but packets see     *)
(* every state in between, and between two awaits of a handler another     *)
(* handler runs.  The model says where each packet goes in every state.    *)
(*                                                                         *)
(* The container shares the network of the host: chains and sets survive   *)
(* the process.  Its iptables is the nf_tables one of Debian, so the chain *)
(* AWG_GW_FORWARD of iptables is the one nft sees in table ip filter.      *)
(***************************************************************************)
EXTENDS Integers, Sequences, FiniteSets

CONSTANTS
    Node,        \* entry nodes
    Slot,        \* handlers that can be under way at the same time
    Policies,    \* the settings and policies that the operator saves
    Kinds,       \* kinds of request
    Faults,      \* kinds of fault
    MaxRequests, \* bound on requests in a behaviour
    MaxFaults    \* bound on faults in a behaviour

SetName == {"geoip", "manual", "base", "fqdn"}
\* Where a packet goes: the server of a node, an address that a country or the
\* manual list covers, one that dnsmasq resolved for a name of the policy or for
\* the external IP service, or any other.
To   == Node \cup {"country", "listed", "domain", "service", "rest"}
\* Where it comes from: a client, the device with a forced route, the host.
From == {"client", "device", "host"}
Lan  == {"client", "device"}

\* The columns of gateway_settings and routing_policy that matter here; sources
\* are the static ones that are enabled, domains says that FQDN prefixes are, and
\* forced is the target of the one tracked device.
Policy == [on: BOOLEAN, node: Node, nft: BOOLEAN, kill: BOOLEAN, inverse: BOOLEAN,
           sources: SUBSET {"geoip", "manual"}, domains: BOOLEAN,
           forced: {"none", "local", "vpn"}, host: BOOLEAN]

RequestKinds == {"settings", "policy", "sources", "refresh", "apply", "kill", "on", "off",
                 "start", "stop", "device", "failover"}
FaultKinds   == {"link", "start", "dnsmasq", "command", "restart", "shutdown"}

ASSUME ConstantsAssumption ==
    /\ Policies \subseteq Policy
    /\ Kinds \subseteq RequestKinds /\ Faults \subseteq FaultKinds
    /\ MaxRequests \in Nat /\ MaxFaults \in Nat
    /\ Node \cap (SetName \cup {"country", "listed", "domain", "service", "rest", "any"}) = {}
    /\ "nobody" \notin Slot /\ "boot" \notin Slot

VARIABLES
    saved,    \* the committed rows
    flushed,  \* the session with an uncommitted node, and that node
    tunnel,   \* status in memory, interface, node it leads to
    kernel,   \* rules and tables of ip, chains, sets
    work,     \* what each handler has left to do, with the rows it loaded
    turn,     \* the handler that has the event loop
    done,     \* history: what the last sequence of commands brought about
    exempt,   \* history: the node of the last complete plan
    requests, faults   \* what is left of the bounds

vars == <<saved, flushed, tunnel, kernel, work, turn, done, exempt, requests, faults>>

Worker == Slot \cup {"boot"}

---------------------------------------------------------------------------
(* Chains: a marking rule is <<from, to, action>>, a forward rule is       *)
(* <<exit, mark, verdict>>.                                                *)

Chain  == {"pre", "out", "nftpre", "nftout", "forward"}
NoSets == [s \in SetName |-> {}]
Bare   == [rules |-> FALSE, vpn |-> FALSE, chain |-> [c \in Chain |-> <<>>],
           set |-> [ipt |-> NoSets, nft |-> NoSets]]

Stack(pol) == IF pol.nft THEN "nft" ELSE "ipt"

Prerouting(pol)  == IF pol.nft THEN "nftpre" ELSE "pre"
OutputChain(pol) == IF pol.nft THEN "nftout" ELSE "out"

\* effective_fqdn_prefixes: validate_service_pair never lets the service be empty
Fqdn(pol) == {"service"} \cup (IF pol.domains THEN {"domain"} ELSE {})

\* _static_match_sets, _all_match_sets in their order
MatchSets(pol) ==
    (IF "geoip" \in pol.sources THEN <<"geoip">> ELSE <<>>)
    \o (IF "manual" \in pol.sources THEN <<"manual">> ELSE <<>>)
    \o (IF pol.sources = {} /\ Fqdn(pol) = {} THEN <<"base">> ELSE <<>>)
    \o (IF Fqdn(pol) # {} THEN <<"fqdn">> ELSE <<>>)

\* Mutant of Content: the name of the source instead of its prefixes
ContentNames(s, pol) ==
    IF s \in pol.sources THEN {s} ELSE IF s = "base" /\ pol.sources = {} THEN To ELSE {}

\* What sync_prefix_ipset puts into a set; dnsmasq fills fqdn.
Content(s, pol) ==
    CASE s = "base" -> IF pol.sources = {} /\ Fqdn(pol) = {} THEN To ELSE {}
      [] s = "fqdn" -> {}
      [] OTHER      -> IF s \notin pol.sources THEN {}
                       ELSE IF s = "geoip" THEN {"country"} ELSE {"listed"}

Matched(pol) == IF pol.inverse THEN "local" ELSE "vpn"
Other(pol)   == IF pol.inverse THEN "vpn" ELSE "local"

Flat(seqs) == [i \in 1..(2 * Len(seqs)) |-> seqs[(i + 1) \div 2][2 - (i % 2)]]

\* One pair of iptables rules: MARK, which goes on, and RETURN
Pairs(from, names, mark) ==
    Flat([i \in 1..Len(names) |->
            << <<from, names[i], mark>>, <<from, names[i], "return">> >>])

\* Mutant of MarkRules: the rules of the device come after those of its network
MarkRulesDeviceLast(pol) ==
    << <<"any", pol.node, "return">> >>
    \o Pairs("lan", MatchSets(pol), Matched(pol))
    \o << <<"lan", "any", Other(pol)>> >>
    \o (IF pol.forced = "none" THEN <<>>
        ELSE << <<"device", "any", pol.forced>>, <<"device", "any", "return">> >>)

\* _build_marking_rules: what it appends to AWG_GW_PREROUTING
MarkRules(pol) ==
    << <<"any", pol.node, "return">> >>
    \o (IF pol.forced = "none" THEN <<>>
        ELSE << <<"device", "any", pol.forced>>, <<"device", "any", "return">> >>)
    \o Pairs("lan", MatchSets(pol), Matched(pol))
    \o << <<"lan", "any", Other(pol)>> >>

\* ... and to AWG_GW_OUTPUT
OutputRules(pol) ==
    << <<"any", pol.node, "return">> >>
    \o (IF ~pol.host THEN <<>>
        ELSE Pairs("host", MatchSets(pol), Matched(pol)) \o << <<"host", "any", Other(pol)>> >>)

\* _build_marking_rules_nft: mark and return are one rule there
Final(mark) == IF mark = "vpn" THEN "vpn_return" ELSE "local_return"

MarkRulesNft(pol) ==
    << <<"any", pol.node, "return">> >>
    \o (IF pol.forced = "none" THEN <<>> ELSE << <<"device", "any", Final(pol.forced)>> >>)
    \o [i \in 1..Len(MatchSets(pol)) |-> <<"lan", MatchSets(pol)[i], Final(Matched(pol))>>]
    \o << <<"lan", "any", Other(pol)>> >>

OutputRulesNft(pol) ==
    << <<"any", pol.node, "return">> >>
    \o (IF ~pol.host THEN <<>>
        ELSE [i \in 1..Len(MatchSets(pol)) |-> <<"host", MatchSets(pol)[i], Final(Matched(pol))>>]
             \o << <<"host", "any", Other(pol)>> >>)

\* _build_forward_rules and _build_filter_forward_rules_nft, without the replies
ForwardRules == << <<"phys", "local", "accept">>, <<"tunnel", "vpn", "accept">> >>

\* Mutant of KillRules: the interface of the tunnel instead of the physical one
KillRulesTunnel(pol) == IF pol.kill THEN << <<"tunnel", "vpn", "drop">> >> ELSE <<>>

\* _build_kill_switch_forward_rules and its nft form
KillRules(pol) == IF pol.kill THEN << <<"phys", "vpn", "drop">> >> ELSE <<>>

\* _build_local_passthrough_rules, _output_rules and their nft forms
PassForward == << <<"phys", "any", "accept">> >>
PassOutput(pol) == IF pol.host THEN << <<"host", "any", "local">> >> ELSE <<>>

---------------------------------------------------------------------------
(* Where a packet goes *)

Applies(rule, p) ==
    /\ rule[1] \in {"any", p[1]} \cup (IF p[1] \in Lan THEN {"lan"} ELSE {})
    /\ rule[2] = "any" \/ rule[2] = p[2]

Resolved(rules, sets) ==
    \* a rule on a set stands for one rule for each member
    [i \in 1..Len(rules) |-> IF rules[i][2] \in SetName THEN sets[rules[i][2]]
                             ELSE {rules[i][2]}]

\* The mark that a chain leaves on a packet: that of the last rule that applies,
\* up to the first that returns.
MarkBy(rules, sets, p, before) ==
    LET dst  == Resolved(rules, sets)
        hits == {i \in 1..Len(rules) :
                    \E d \in dst[i] : Applies(<<rules[i][1], d, rules[i][3]>>, p)}
        ends == {i \in hits : rules[i][3] \in {"return", "vpn_return", "local_return"}}
        sets_ == {i \in hits : rules[i][3] # "return" /\ \A j \in ends : i <= j}
    IN IF sets_ = {} THEN before
       ELSE LET i == CHOOSE i \in sets_ : \A j \in sets_ : j <= i
            IN IF rules[i][3] \in {"vpn", "vpn_return"} THEN "vpn" ELSE "local"

Mark(k, p) ==
    LET chain == IF p[1] = "host" THEN <<"out", "nftout">> ELSE <<"pre", "nftpre">>
    IN MarkBy(k.chain[chain[2]], k.set.nft, p,
              MarkBy(k.chain[chain[1]], k.set.ipt, p, "none"))

\* fwmark rule, then the table; without a route there the main table decides
Exit(k, p) == IF Mark(k, p) = "vpn" /\ k.rules /\ k.vpn THEN "tunnel" ELSE "phys"

\* The filter sees what is forwarded, not what the host sends itself.
Dropped(k, p) ==
    LET rules == k.chain["forward"]
        hits  == {i \in 1..Len(rules) : /\ rules[i][1] = Exit(k, p)
                                        /\ rules[i][2] \in {"any", Mark(k, p)}}
    IN /\ p[1] \in Lan /\ hits # {}
       /\ rules[CHOOSE i \in hits : \A j \in hits : i <= j][3] = "drop"

Verdict(p) == IF Dropped(kernel, p) THEN "drop" ELSE Exit(kernel, p)

---------------------------------------------------------------------------
(* The sequences of commands: each command is a pair of a name and an      *)
(* argument.                                                               *)

\* Mutant of SetSteps: an ipset is flushed and filled too
SetStepsInPlace(names, pol) ==
    Flat([i \in 1..Len(names) |-> << <<"flush", names[i]>>, <<"fill", names[i]>> >>])

\* sync_prefix_ipset: an ipset is swapped for one that is ready, an nft set is
\* flushed and filled again.
SetSteps(names, pol) ==
    IF pol.nft THEN Flat([i \in 1..Len(names) |-> << <<"flush", names[i]>>, <<"fill", names[i]>> >>])
    ELSE [i \in 1..Len(names) |-> <<"fill", names[i]>>]

SyncSets(pol, flush) ==
    SetSteps(<<"geoip", "manual", "base">>, pol)
    \o (IF flush \/ Fqdn(pol) = {} THEN << <<"flush", "fqdn">> >> ELSE <<>>)

\* Mutant of ApplyNft: the chains of iptables stay
ApplyNftOneSided(pol) ==
    << <<"down", "nft">> >> \o SyncSets(pol, FALSE)
    \o << <<"mark", "nft">>, <<"forward", "plan">>, <<"forward", "kill">> >>

\* apply_routing_plan
ApplyNft(pol) ==
    << <<"down", "ipt">>, <<"down", "nft">> >> \o SyncSets(pol, FALSE)
    \o << <<"mark", "nft">>, <<"forward", "plan">>, <<"forward", "kill">> >>

ApplyIptables(pol) ==
    << <<"down", "nft">> >> \o SyncSets(pol, FALSE)
    \o << <<"chains", "all">>, <<"mark", "ipt">>, <<"forward", "plan">>, <<"forward", "kill">> >>

Apply(pol) ==
    << <<"need", "safe">>, <<"ip", "rules">>, <<"ip", "routes">> >>
    \o (IF pol.nft THEN ApplyNft(pol) ELSE ApplyIptables(pol))
    \o << <<"end", "plan">> >>

\* Mutant of Pass: the rules of the policy routing stay
PassKeepsRules(pol) ==
    (IF pol.nft THEN << <<"down", "ipt">>, <<"down", "nft">> >>
     ELSE << <<"down", "nft">>, <<"chains", "pass">> >>)
    \o << <<"out", "pass">>, <<"forward", "pass">>, <<"end", "pass">> >>

\* apply_local_passthrough
Pass(pol) ==
    << <<"ip", "clear">> >>
    \o (IF pol.nft THEN << <<"down", "ipt">>, <<"down", "nft">> >>
        ELSE << <<"down", "nft">>, <<"chains", "pass">> >>)
    \o << <<"out", "pass">>, <<"forward", "pass">>, <<"end", "pass">> >>

\* sync_firewall_backend
Sync(pol) ==
    IF ~pol.on THEN Pass(pol)
    ELSE (IF pol.nft THEN << <<"down", "ipt">>, <<"down", "nft">> >> ELSE << <<"down", "nft">> >>)
         \o SyncSets(pol, FALSE) \o << <<"end", "base">> >>

PassOrApply(pol) == IF pol.on THEN << <<"if", "safe">> >> \o Apply(pol) ELSE Pass(pol)

---------------------------------------------------------------------------
(* The handlers: what is left to do after the rows are committed           *)

\* update_settings: a failed restart of dnsmasq is an error 500 here
SettingsSteps(pol) ==
    << <<"await", "rows">> >> \o Sync(pol) \o << <<"await", "dns">>, <<"dnsmasq", "raise">> >>
    \o (IF pol.on THEN << <<"if", "safe">> >> \o Apply(pol) ELSE <<>>)

\* _reload_runtime with restart_dns
PolicySteps(pol) ==
    SyncSets(pol, TRUE) \o << <<"await", "dns">>, <<"dnsmasq", "raise">> >> \o PassOrApply(pol)

\* _reload_runtime without it
SourceSteps(pol) == SyncSets(pol, FALSE) \o PassOrApply(pol)

\* api_control_kill_switch
KillSteps(pol) == Sync(pol) \o PassOrApply(pol)

\* update_gateway_enabled, api_control_tunnel
OnSteps(pol)  == << <<"await", "rows">> >> \o Sync(pol)
                 \o << <<"tunnel", "start">>, <<"if", "safe">> >> \o Apply(pol)
OffSteps(pol) == << <<"await", "rows">>, <<"tunnel", "stop">> >> \o Pass(pol)

\* start_active_tunnel, activate_node, failover_to_next_available: the probes are
\* awaited
StartSteps(pol) ==
    << <<"tunnel", "start">>, <<"await", "probe">>, <<"if", "running">>, <<"read", "policy">> >>
    \o Apply(pol)

\* stop_active_tunnel
StopSteps(pol) == << <<"tunnel", "stop">> >> \o (IF pol.on THEN <<>> ELSE Pass(pol))

\* lifespan up to the loops, with _restore_runtime_state
BootSteps(pol) ==
    Sync(pol) \o << <<"dnsmasq", "log">> >>
    \o (IF pol.on THEN << <<"tunnel", "start">>, <<"if", "running">> >> \o Apply(pol)
        ELSE OffSteps(pol))

\* lifespan after the loops have ended
ShutdownSteps(pol) == OffSteps(pol)

---------------------------------------------------------------------------
(* What a command does to the kernel *)

EmptyChains(k, names) == [k EXCEPT !.chain = [c \in Chain |-> IF c \in names THEN <<>> ELSE @[c]]]

\* _teardown_iptables_stack, _teardown_nftables_stack with flush_all.  Both name
\* the same forward chain; an ipset is left behind, an nft set goes with its table.
Down(k, stack) ==
    IF stack = "ipt" THEN EmptyChains(k, {"pre", "out", "forward"})
    ELSE [EmptyChains(k, {"nftpre", "nftout", "forward"}) EXCEPT !.set.nft = NoSets]

Marks(k, stack, pol) ==
    IF stack = "nft" THEN [k EXCEPT !.chain["nftpre"] = MarkRulesNft(pol),
                                    !.chain["nftout"] = OutputRulesNft(pol)]
    ELSE [k EXCEPT !.chain["pre"] = MarkRules(pol), !.chain["out"] = OutputRules(pol)]

Forward(k, what, pol) ==
    [k EXCEPT !.chain["forward"] = @ \o (CASE what = "plan" -> ForwardRules
                                           [] what = "kill" -> KillRules(pol)
                                           [] what = "pass" -> PassForward)]

\* _ensure_ip_rules, _ensure_table_routes, clear_policy_routing
IpSteps(k, what) ==
    CASE what = "rules"  -> [k EXCEPT !.rules = TRUE]
      [] what = "routes" -> [k EXCEPT !.vpn = TRUE]
      [] what = "clear"  -> [k EXCEPT !.rules = FALSE, !.vpn = FALSE]

\* _ensure_chain flushes; a passthrough takes only these chains of iptables.
Chains(k, what) ==
    EmptyChains(k, IF what = "all" THEN {"pre", "out", "forward"} ELSE {"out", "forward"})

Commanded(k, op, pol) ==
    CASE op[1] = "ip"      -> IpSteps(k, op[2])
      [] op[1] = "down"    -> Down(k, op[2])
      [] op[1] = "chains"  -> Chains(k, op[2])
      [] op[1] = "mark"    -> Marks(k, op[2], pol)
      [] op[1] = "forward" -> Forward(k, op[2], pol)
      [] op[1] = "out"     -> [k EXCEPT !.chain[OutputChain(pol)] = PassOutput(pol)]
      [] op[1] = "flush"   -> [k EXCEPT !.set[Stack(pol)][op[2]] = {}]
      [] op[1] = "fill"    -> [k EXCEPT !.set[Stack(pol)][op[2]] = Content(op[2], pol)]

Commands == {"ip", "down", "chains", "mark", "forward", "out", "flush", "fill"}
\* The others of these end the sequence with an exception when they fail.
Ignored  == {<<"ip", "clear">>, <<"down", "ipt">>, <<"down", "nft">>}

Safe == tunnel.status = "running" /\ tunnel.link   \* a node is always selected here

---------------------------------------------------------------------------
(* Steps of a handler *)

Idle(r)  == work[r].todo = <<>>
Quiet    == turn = "nobody"
Head1(r) == Head(work[r].todo)

\* The rows that a worker without work has loaded do not matter.
AnyRow == CHOOSE pol \in Policies : TRUE

Worked(r, todo, row) ==
    work' = [work EXCEPT ![r] = [todo |-> todo, pol |-> IF todo = <<>> THEN AnyRow ELSE row]]

\* The rest of the steps; the loop is free at an await and at the end.
GoOn(r, todo, row) ==
    /\ Worked(r, todo, row)
    /\ turn' = IF todo = <<>> \/ Head1(r)[1] = "await" THEN "nobody" ELSE r

Next1(r) == GoOn(r, Tail(work[r].todo), work[r].pol)
Abort(r) == GoOn(r, <<>>, work[r].pol)

HasTurn(r) == ~Idle(r) /\ turn \in {r, "nobody"}

\* The overrides of devices are read when the marks are built.
Row(r) == [work[r].pol EXCEPT !.forced = saved.forced]

\* Rows that differ from the committed ones at most in the node
Alike(row) == [row EXCEPT !.node = saved.node] = saved

Command(r) ==
    /\ HasTurn(r) /\ Head1(r)[1] \in Commands
    /\ Head1(r) = <<"ip", "routes">> => tunnel.link
    /\ kernel' = Commanded(kernel, Head1(r), Row(r))
    /\ done' = IF Head1(r)[1] \in {"flush", "fill"} THEN done ELSE "busy"
    /\ Next1(r)
    /\ UNCHANGED <<saved, flushed, tunnel, exempt, requests, faults>>

\* _run_logged raises.  The startup catches that only from its plan on; before,
\* the process ends and is started again.
CommandFails(r) ==
    /\ HasTurn(r) /\ Head1(r)[1] \in Commands /\ Head1(r) \notin Ignored
    /\ \/ Head1(r) = <<"ip", "routes">> /\ ~tunnel.link /\ UNCHANGED faults
       \/ "command" \in Faults /\ faults > 0 /\ faults' = faults - 1
    /\ done' = "broken"
    /\ IF r = "boot" /\ \E i \in DOMAIN work[r].todo : work[r].todo[i][1] = "dnsmasq"
       THEN GoOn(r, BootSteps(saved), saved) ELSE Abort(r)
    /\ UNCHANGED <<saved, flushed, tunnel, kernel, exempt, requests>>

\* Checks that let the handler end, or that raise (need)
Check(r) ==
    /\ HasTurn(r) /\ Head1(r)[1] \in {"if", "need"}
    /\ IF (IF Head1(r)[2] = "safe" THEN Safe ELSE tunnel.status = "running")
       THEN Next1(r) ELSE Abort(r)
    /\ UNCHANGED <<saved, flushed, tunnel, kernel, done, exempt, requests, faults>>

\* The sequence is complete; a plan may be one of rows that have changed since.
End(r) ==
    /\ HasTurn(r) /\ Head1(r)[1] = "end"
    /\ done' = IF Head1(r)[2] = "plan" /\ ~Alike(Row(r)) THEN "outdated" ELSE Head1(r)[2]
    /\ exempt' = IF Head1(r)[2] = "plan" THEN work[r].pol.node ELSE exempt
    /\ Next1(r)
    /\ UNCHANGED <<saved, flushed, tunnel, kernel, requests, faults>>

Await(r) ==
    /\ HasTurn(r) /\ Head1(r)[1] = "await"
    /\ Next1(r)
    /\ UNCHANGED <<saved, flushed, tunnel, kernel, done, exempt, requests, faults>>

\* The session of start_active_tunnel reads the policy after the probes, and has
\* the settings from before.  A failover assigns the node before that; at startup
\* its session is committed, the loop rolls it back in the end.
ReadPolicy(r) ==
    /\ HasTurn(r) /\ Head1(r)[1] = "read"
    /\ GoOn(r, Apply([saved EXCEPT !.nft = work[r].pol.nft, !.host = work[r].pol.host,
                                   !.node = work[r].pol.node, !.on = work[r].pol.on]),
            [saved EXCEPT !.nft = work[r].pol.nft, !.host = work[r].pol.host,
                          !.node = work[r].pol.node, !.on = work[r].pol.on])
    /\ flushed' = IF r = "boot" THEN [by |-> r, node |-> work[r].pol.node] ELSE flushed
    /\ UNCHANGED <<saved, tunnel, kernel, done, exempt, requests, faults>>

\* restart_dnsmasq
RestartDnsmasq(r) ==
    /\ HasTurn(r) /\ Head1(r)[1] = "dnsmasq"
    /\ \/ Next1(r) /\ UNCHANGED faults
       \/ /\ "dnsmasq" \in Faults /\ faults > 0 /\ faults' = faults - 1
          /\ IF Head1(r)[2] = "raise" THEN Abort(r) ELSE Next1(r)
    /\ UNCHANGED <<saved, flushed, tunnel, kernel, done, exempt, requests>>

\* start_tunnel deletes the interface and with it its route, then makes a new one.
\* A start that fails leaves none, one whose probes fail is no running tunnel.
TunnelStart(r) ==
    /\ HasTurn(r) /\ Head1(r) = <<"tunnel", "start">>
    /\ \/ tunnel' = [status |-> "running", link |-> TRUE, node |-> work[r].pol.node] /\ UNCHANGED faults
       \/ /\ "start" \in Faults /\ faults > 0 /\ faults' = faults - 1
          /\ \E up \in BOOLEAN : tunnel' = [status |-> "error", link |-> up, node |-> work[r].pol.node]
    /\ kernel' = [kernel EXCEPT !.vpn = FALSE]
    /\ Next1(r)
    /\ UNCHANGED <<saved, flushed, done, exempt, requests>>

TunnelStop(r) ==
    /\ HasTurn(r) /\ Head1(r) = <<"tunnel", "stop">>
    /\ tunnel' = [tunnel EXCEPT !.status = "stopped", !.link = FALSE]
    /\ kernel' = [kernel EXCEPT !.vpn = FALSE]
    /\ Next1(r)
    /\ UNCHANGED <<saved, flushed, done, exempt, requests, faults>>

\* A start has failed: failover_to_next_available goes on to the next node, at
\* startup once the selected one has failed.
NextCandidate(r) ==
    /\ HasTurn(r) /\ Head1(r) = <<"if", "running">> /\ tunnel.status # "running"
    /\ r = "boot" \/ (work[r].pol.node # saved.node /\ flushed.by # r)
    /\ \E n \in Node \ {saved.node, work[r].pol.node} :
          LET row == [work[r].pol EXCEPT !.node = n] IN GoOn(r, StartSteps(row), row)
    /\ UNCHANGED <<saved, flushed, tunnel, kernel, done, exempt, requests, faults>>

Step(r) == \/ Command(r) \/ CommandFails(r) \/ Check(r) \/ End(r) \/ Await(r)
           \/ ReadPolicy(r) \/ RestartDnsmasq(r) \/ TunnelStart(r) \/ TunnelStop(r)
           \/ NextCandidate(r)

---------------------------------------------------------------------------
(* Requests *)

NoFlush == [by |-> "nobody", node |-> CHOOSE n \in Node : TRUE]

\* A handler begins with the rows that it has and takes the loop.
Begin(r, kind, row, steps) ==
    /\ kind \in Kinds /\ requests > 0 /\ requests' = requests - 1
    /\ Quiet /\ Idle(r) /\ Idle("boot") /\ flushed.by \notin {r, "boot"}
    /\ Worked(r, steps, row)
    /\ turn' = IF steps = <<>> THEN "nobody" ELSE r
    /\ UNCHANGED <<tunnel, kernel, exempt, faults>>

\* The handler commits its rows first.  While another session has flushed, a commit
\* waits until SQLite gives up, and the request ends without an effect; the devices
\* are in a database of their own.
Ask(r, kind, new, steps) ==
    /\ Begin(r, kind, new, steps)
    /\ [new EXCEPT !.forced = saved.forced] # saved => flushed = NoFlush
    /\ saved' = new
    /\ done' = IF done = "plan" /\ ~Alike(new) THEN "stale" ELSE done
    /\ UNCHANGED flushed

SaveSettings(r) ==
    \E pol \in Policies :
        LET new == [saved EXCEPT !.nft = pol.nft, !.host = pol.host]
        IN Ask(r, "settings", new, SettingsSteps(new))

SavePolicy(r) ==
    \E pol \in Policies :
        LET new == [saved EXCEPT !.kill = pol.kill, !.inverse = pol.inverse,
                                 !.sources = pol.sources, !.domains = pol.domains]
        IN Ask(r, "policy", new, PolicySteps(new))

\* add_country, delete_country, the manual prefixes
SaveSources(r) ==
    \E pol \in Policies :
        LET new == [saved EXCEPT !.sources = pol.sources]
        IN Ask(r, "sources", new, SourceSteps(new))

\* refresh_geoip, apply_plan: nothing that matters here is committed
RefreshGeoip(r) == Ask(r, "refresh", saved, SyncSets(saved, FALSE))
ApplyPlan(r)    == Ask(r, "apply", saved, << <<"if", "safe">> >> \o Apply(saved))

SetKill(r) ==
    LET new == [saved EXCEPT !.kill = ~@] IN Ask(r, "kill", new, KillSteps(new))

SetOn(r) ==
    LET new == [saved EXCEPT !.on = TRUE] IN Ask(r, "on", new, OnSteps(new))

SetOff(r) ==
    LET new == [saved EXCEPT !.on = FALSE] IN Ask(r, "off", new, OffSteps(new))

\* start_active_tunnel
StartNode(r) == saved.on /\ Ask(r, "start", saved, StartSteps(saved))

\* activate_node while the interface is there: the node is flushed, and committed
\* when the handler ends, however the tunnel and the plan went.
ActivateNode(r) ==
    /\ saved.on /\ tunnel.link /\ flushed = NoFlush
    /\ \E n \in Node \ {saved.node} :
          /\ LET row == [saved EXCEPT !.node = n] IN Begin(r, "start", row, StartSteps(row))
          /\ flushed' = [by |-> r, node |-> n]
    /\ UNCHANGED <<saved, done>>

\* ... and without it, or while the gateway is off
SelectNode(r) ==
    /\ ~(saved.on /\ tunnel.link)
    /\ \E n \in Node \ {saved.node} : Ask(r, "start", [saved EXCEPT !.node = n], <<>>)

\* _failover_loop: the assignment is only flushed, and rolled back with the session
Failover(r) ==
    /\ saved.on
    /\ \E n \in Node \ {saved.node} :
          LET row == [saved EXCEPT !.node = n] IN Begin(r, "failover", row, StartSteps(row))
    /\ UNCHANGED <<saved, flushed, done>>

\* get_db, or _restore_runtime_state: the node is committed at the end.
CommitNode(r) ==
    /\ flushed.by = r /\ Idle(r) /\ Quiet
    /\ saved' = [saved EXCEPT !.node = flushed.node]
    /\ flushed' = NoFlush
    /\ UNCHANGED <<tunnel, kernel, work, turn, done, exempt, requests, faults>>

StopNode(r) == Ask(r, "stop", saved, StopSteps(saved))

ForceDevice(r) ==
    \E f \in {"none", "local", "vpn"} :
        LET new == [saved EXCEPT !.forced = f] IN Ask(r, "device", new, PassOrApply(new))

Request(r) == \/ SaveSettings(r) \/ SavePolicy(r) \/ SaveSources(r)
              \/ RefreshGeoip(r) \/ ApplyPlan(r) \/ SetKill(r) \/ SetOn(r) \/ SetOff(r)
              \/ StartNode(r) \/ ActivateNode(r) \/ SelectNode(r) \/ StopNode(r)
              \/ Failover(r) \/ ForceDevice(r)

---------------------------------------------------------------------------
(* The environment *)

Fault(kind) == kind \in Faults /\ faults > 0 /\ faults' = faults - 1

\* The userspace daemon dies; the status in memory does not know.
LinkLost ==
    /\ Fault("link") /\ tunnel.link
    /\ tunnel' = [tunnel EXCEPT !.link = FALSE]
    /\ kernel' = [kernel EXCEPT !.vpn = FALSE]
    /\ UNCHANGED <<saved, flushed, work, turn, done, exempt, requests>>

\* resolve_live_tunnel_status, from the failover loop and the status page: an
\* interface that is there counts as a running tunnel, whatever its probes said.
StatusRead ==
    /\ Idle("boot") /\ tunnel.link /\ tunnel.status # "running"
    /\ tunnel' = [tunnel EXCEPT !.status = "running"]
    /\ UNCHANGED <<saved, flushed, kernel, work, turn, done, exempt, requests, faults>>

\* dnsmasq answers a client and puts the address into the set of its rules.
Learn ==
    /\ ~saved.nft \/ Quiet   \* there is an nft set only between sequences
    /\ done # "none"
    /\ \E a \in Fqdn(saved) :
          /\ a \notin kernel.set[Stack(saved)]["fqdn"]
          /\ kernel' = [kernel EXCEPT !.set[Stack(saved)]["fqdn"] = @ \cup {a}]
    /\ UNCHANGED <<saved, flushed, tunnel, work, turn, done, exempt, requests, faults>>

\* The process ends at any point, or after its shutdown; the container is started
\* again.  What is in the kernel stays, the tunnel of the userspace daemon does not.
Booting(steps) == [w \in Worker |-> IF w = "boot" THEN [todo |-> steps, pol |-> saved]
                                    ELSE [todo |-> <<>>, pol |-> AnyRow]]

Restart ==
    /\ Fault("restart")
    /\ work' = Booting(BootSteps(saved))
    /\ turn' = "nobody"
    /\ \E up \in {FALSE, tunnel.link} :
          /\ tunnel' = [tunnel EXCEPT !.status = "stopped", !.link = up]
          /\ kernel' = [kernel EXCEPT !.vpn = @ /\ up]
    /\ done' = IF Quiet THEN done ELSE "broken"
    /\ flushed' = NoFlush
    /\ UNCHANGED <<saved, exempt, requests>>

Shutdown ==
    /\ Fault("shutdown") /\ Quiet /\ flushed = NoFlush /\ \A r \in Worker : Idle(r)
    /\ work' = Booting(ShutdownSteps(saved) \o BootSteps(saved))
    /\ UNCHANGED <<saved, flushed, tunnel, kernel, turn, done, exempt, requests>>

---------------------------------------------------------------------------
(* Specification *)

Init ==
    /\ saved \in Policies
    /\ tunnel = [status |-> "stopped", link |-> FALSE, node |-> saved.node]
    /\ kernel = Bare
    /\ work = Booting(BootSteps(saved))
    /\ turn = "nobody"
    /\ done = "none"
    /\ flushed = NoFlush /\ exempt = saved.node
    /\ requests = MaxRequests /\ faults = MaxFaults

Next == \/ \E r \in Worker : Step(r) \/ CommitNode(r)
        \/ \E r \in Slot : Request(r)
        \/ LinkLost \/ StatusRead \/ Learn \/ Restart \/ Shutdown

Spec == Init /\ [][Next]_vars

---------------------------------------------------------------------------
(* Properties *)

\* Types of the variables
TypeOK ==
    /\ saved \in Policy
    /\ tunnel \in [status: {"running", "stopped", "error"}, link: BOOLEAN, node: Node]
    /\ kernel.rules \in BOOLEAN /\ kernel.vpn \in BOOLEAN
    /\ DOMAIN kernel.chain = Chain
    /\ kernel.set \in [{"ipt", "nft"} -> [SetName -> SUBSET To]]
    /\ \A w \in Worker : work[w].pol \in Policy
    /\ turn \in Worker \cup {"nobody"}
    /\ done \in {"none", "busy", "broken", "stale", "outdated", "base", "pass", "plan"}
    /\ flushed \in [by: Worker \cup {"nobody"}, node: Node] /\ exempt \in Node
    /\ requests \in 0..MaxRequests /\ faults \in 0..MaxFaults
    /\ kernel.vpn => tunnel.link

\* What the rows ask for a packet; of a name only the learned addresses count.
Listed(p, pol) ==
    \E i \in DOMAIN MatchSets(pol) :
        p[2] \in IF MatchSets(pol)[i] = "fqdn" THEN kernel.set[Stack(pol)]["fqdn"]
                 ELSE Content(MatchSets(pol)[i], pol)

Wanted(p, pol) ==
    IF p[2] = pol.node \/ (p[1] = "host" /\ ~pol.host) THEN "exempt"
    ELSE IF p[1] = "device" /\ pol.forced # "none" THEN pol.forced
    ELSE IF Listed(p, pol) THEN Matched(pol) ELSE Other(pol)

\* The committed rows with the node that the last complete plan was made for: a plan
\* of activate_node comes before the commit, one of a failover is never committed.
PlanRows == [saved EXCEPT !.node = exempt]

\* A complete plan routes every packet as the rows say, with the server of its own
\* node exempt: what they send directly goes out of the physical interface, what
\* they send through the tunnel goes there while the route exists, and a forced
\* device overrides the sets, whatever handlers, restarts of the tunnel, commits and
\* rollbacks of the node and answers of dnsmasq came since.
PlanFollowed ==
    done = "plan" /\ Quiet =>
        \A p \in From \X To :
            /\ Wanted(p, PlanRows) \in {"local", "exempt"} => Verdict(p) = "phys"
            /\ Wanted(p, PlanRows) = "vpn" /\ kernel.vpn => Verdict(p) = "tunnel"

\* With the kill switch on, a complete plan never lets a forwarded packet that the
\* rows send through the tunnel leave directly, even when the interface is gone,
\* the tunnel is stopped or started again, its probes are under way, or a failover
\* has moved it to a node that the rows do not name.
KillSwitchHolds ==
    done = "plan" /\ Quiet /\ saved.kill =>
        \A p \in Lan \X To : Wanted(p, PlanRows) = "vpn" => Verdict(p) # "phys"

\* After a local passthrough no client is dropped or sent into the tunnel, though
\* in iptables the marks of the last plan are still in their chain.
PassthroughOpen == done = "pass" => \A p \in Lan \X To : Verdict(p) = "phys"

\* Marking rules of the two firewall backends are never there together.
OneStack == kernel.chain["pre"] = <<>> \/ kernel.chain["nftpre"] = <<>>

\* With ipsets a handler that has the current rows never takes an address out that
\* they list, not even for a moment, and a learned one goes only by a flush for
\* dnsmasq, in a refresh of the sets as in a new plan or a change of the backend.
SetsNeverDip ==
    [][~saved.nft /\ ~saved'.nft /\ (\A r \in Worker : work'[r] # work[r] => Alike(Row(r))) =>
        /\ \A s \in {"geoip", "manual"} :
              kernel.set.ipt[s] \cap Content(s, saved) \subseteq kernel'.set.ipt[s]
        /\ (\E r \in Worker : ~Idle(r) /\ Head1(r) = <<"flush", "fqdn">>)
           \/ kernel.set.ipt["fqdn"] \subseteq kernel'.set.ipt["fqdn"]]_vars

\* docs/README_EN.md:366 of the gateway: "When the gateway is enabled and the plan
\* is safe to apply, it is enforced together with the routing rules."
KillSwitchWhenSafe ==
    saved.on /\ saved.kill /\ Safe /\ (\A r \in Worker : Idle(r)) =>
        \E i \in DOMAIN kernel.chain["forward"] : kernel.chain["forward"][i][3] = "drop"
=============================================================================
