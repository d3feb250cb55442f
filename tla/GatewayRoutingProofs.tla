------------------------ MODULE GatewayRoutingProofs ------------------------
(***************************************************************************)
(* Every step of GatewayRouting keeps RoutingInv; from it follow where the *)
(* packets go: the marks of a chain are computed rule by rule, and with    *)
(* them the exit and the filter.                                           *)
(***************************************************************************)
EXTENDS GatewayRoutingOutlines, WellFoundedInduction

\* A step that leaves the handlers alone and keeps the facts
LEMMA KnownKept ==
    ASSUME Outlines, work' = work, turn' = turn, saved' = saved, done' = done,
           \A w \in Worker, f \in Fact : Holds(f, kernel, work[w].pol, saved, done)
                                            => Holds(f, kernel', work[w].pol, saved, done)
    PROVE  Outlines'
<1> SUFFICES ASSUME NEW w \in Worker
             PROVE  Outlined(NextKnown(w), work'[w].todo, {}, work'[w].pol)
  BY OutlinesLater
<1>1. Known(w) \subseteq NextKnown(w)
  BY DEF Known, NextKnown
<1>2. Outlined(Known(w), work[w].todo, {}, work[w].pol)
  BY DEF Outlines
<1> QED BY <1>1, <1>2, Weakened

LEMMA LinkKeeps == ASSUME RoutingInv, LinkLost PROVE RoutingInv'
<1>1. /\ TypeOK /\ Shaped /\ KernelShape(kernel) /\ Outlines /\ Planned /\ Passed
      /\ OneStack /\ Policies # {}
  BY DEF RoutingInv, Shaped
<1>2. /\ kernel' = [kernel EXCEPT !.vpn = FALSE] /\ tunnel' = [tunnel EXCEPT !.link = FALSE]
      /\ saved' = saved /\ work' = work /\ turn' = turn /\ done' = done
      /\ requests' = requests /\ faults > 0 /\ faults' = faults - 1
      /\ flushed' = flushed /\ exempt' = exempt
  BY DEF LinkLost, Fault
<1>3. /\ KernelShape(kernel') /\ kernel'.rules = kernel.rules /\ kernel'.chain = kernel.chain
      /\ kernel'.set = kernel.set /\ ~kernel'.vpn
  BY <1>1, <1>2 DEF KernelShape
<1>4. Outlines'
  <2>1. ASSUME NEW w \in Worker, NEW f \in Fact, Holds(f, kernel, work[w].pol, saved, done)
        PROVE  Holds(f, kernel', work[w].pol, saved, done)
    BY <1>3, <2>1 DEF Holds, Marked, Fact, Static
  <2> QED BY <1>1, <1>2, <2>1, KnownKept
<1>5. TypeOK' /\ Shaped'
  <2>1. tunnel' \in [status: {"running", "stopped", "error"}, link: BOOLEAN, node: Node]
    BY <1>1, <1>2 DEF TypeOK
  <2>2. faults' \in 0..MaxFaults
    BY <1>1, <1>2, FaultsLater
  <2> QED BY <1>1, <1>2, <1>3, <2>1, <2>2, TypeLater, FlushLater DEF TypeOK, Shaped
<1>6. Planned'
  <2>1. PlanRows' = PlanRows
    BY <1>2 DEF PlanRows
  <2> HIDE DEF PlanRows
  <2> QED BY <1>1, <1>2, <1>3, <2>1 DEF Planned, Complete, Marked
<1>7. Passed' /\ OneStack'
  BY <1>1, <1>2, <1>3 DEF Passed, OneStack
<1> QED BY <1>1, <1>4, <1>5, <1>6, <1>7 DEF RoutingInv

LEMMA LearnKeeps == ASSUME RoutingInv, Learn PROVE RoutingInv'
<1> DEFINE st == Stack(saved)
<1>1. /\ TypeOK /\ Shaped /\ KernelShape(kernel) /\ Outlines /\ Planned /\ Passed
      /\ OneStack /\ Policies # {} /\ saved \in Policy
  BY DEF RoutingInv, Shaped, TypeOK
<1>2. /\ saved' = saved /\ work' = work /\ turn' = turn /\ done' = done /\ tunnel' = tunnel
      /\ requests' = requests /\ faults' = faults /\ flushed' = flushed /\ exempt' = exempt
  BY DEF Learn
<1>3. PICK a \in Fqdn(saved) : kernel' = [kernel EXCEPT !.set[st]["fqdn"] = @ \cup {a}]
  BY DEF Learn
<1>4. a \in To /\ st \in {"ipt", "nft"}
  BY DEF Fqdn, To, Stack
<1> HIDE DEF st
<1> DEFINE co   == kernel.set[st]["fqdn"] \cup {a}
           sets == [kernel.set EXCEPT ![st]["fqdn"] = co]
<1>5. kernel' = [rules |-> kernel.rules, vpn |-> kernel.vpn, chain |-> kernel.chain, set |-> sets]
  BY <1>1, <1>3 DEF KernelShape
<1>6. co \in SUBSET To
  BY <1>1, <1>4 DEF KernelShape, SetName
<1> HIDE DEF co
<1>7. /\ sets \in [{"ipt", "nft"} -> [SetName -> SUBSET To]]
      /\ \A v \in {"ipt", "nft"}, t \in Static : sets[v][t] = kernel.set[v][t]
  BY <1>1, <1>4, <1>6 DEF KernelShape, SetName, Static
<1> HIDE DEF sets
<1>8. /\ KernelShape(kernel') /\ kernel'.rules = kernel.rules /\ kernel'.chain = kernel.chain
      /\ kernel'.vpn = kernel.vpn
      /\ \A v \in {"ipt", "nft"}, t \in Static : kernel'.set[v][t] = kernel.set[v][t]
  BY <1>1, <1>5, <1>7 DEF KernelShape
<1>9. Outlines'
  <2>1. ASSUME NEW w \in Worker, NEW f \in Fact, Holds(f, kernel, work[w].pol, saved, done)
        PROVE  Holds(f, kernel', work[w].pol, saved, done)
    <3>1. CASE f \in Static
      <4>0. Stack(work[w].pol) \in {"ipt", "nft"}
        BY DEF Stack
      <4>1. kernel'.set[Stack(work[w].pol)][f] = kernel.set[Stack(work[w].pol)][f]
        BY <1>8, <3>1, <4>0
      <4> QED BY <2>1, <3>1, <4>1 DEF Holds, Static
    <3>2. CASE f \notin Static
      BY <1>8, <2>1, <3>2 DEF Holds, Marked, Fact, Static
    <3> QED BY <3>1, <3>2
  <2> QED BY <1>1, <1>2, <2>1, KnownKept
<1>10. TypeOK' /\ Shaped'
  BY <1>1, <1>2, <1>8, TypeLater, FlushLater DEF TypeOK, Shaped
<1>11. Planned'
  <2>1. Stack(PlanRows) \in {"ipt", "nft"}
    BY DEF Stack
  <2>2. \A t \in Static : kernel'.set[Stack(PlanRows)][t] = kernel.set[Stack(PlanRows)][t]
    BY <1>8, <2>1
  <2>3. PlanRows' = PlanRows
    BY <1>2 DEF PlanRows
  <2> HIDE DEF PlanRows
  <2> QED BY <1>1, <1>2, <1>8, <2>2, <2>3 DEF Planned, Complete, Marked
<1>12. Passed' /\ OneStack'
  BY <1>1, <1>2, <1>8 DEF Passed, OneStack
<1> QED BY <1>1, <1>9, <1>10, <1>11, <1>12 DEF RoutingInv

\* After a start of the process there is the work of the startup alone.
LEMMA BootingKeeps ==
    ASSUME Policies # {}, saved \in Policy, NEW steps, Outlined({}, steps, {}, saved)
    PROVE  LET b == Booting(steps) IN
           /\ b \in [Worker -> [todo: Seq(Op), pol: Policy]]
           /\ \A w \in Worker : Outlined({}, b[w].todo, {}, b[w].pol)
<1> DEFINE b == Booting(steps)
<1>1. steps \in Seq(Op)
  BY DEF Outlined
<1>2. b["boot"] = [todo |-> steps, pol |-> saved]
  BY DEF Booting, Worker
<1>3. \A w \in Worker \ {"boot"} : b[w] = [todo |-> <<>>, pol |-> AnyRow]
  BY DEF Booting
<1>4. b \in [Worker -> [todo: Seq(Op), pol: Policy]]
  <2>1. /\ [todo |-> steps, pol |-> saved] \in [todo: Seq(Op), pol: Policy]
        /\ [todo |-> <<>>, pol |-> AnyRow] \in [todo: Seq(Op), pol: Policy]
    BY <1>1, AnyRowType
  <2> QED BY <2>1 DEF Booting
<1> HIDE DEF b
<1>5. ASSUME NEW w \in Worker PROVE Outlined({}, b[w].todo, {}, b[w].pol)
  <2>1. CASE w = "boot"
    BY <2>1, <1>2
  <2>2. CASE w # "boot"
    <3>1. b[w].todo = <<>>
      BY <2>2, <1>3
    <3> QED BY <3>1, Nothing
  <2> QED BY <2>1, <2>2
<1> QED BY <1>4, <1>5 DEF b

LEMMA RestartKeeps == ASSUME RoutingInv, Restart PROVE RoutingInv'
<1>1. /\ TypeOK /\ KernelShape(kernel) /\ Planned /\ Passed /\ OneStack
      /\ Policies # {} /\ saved \in Policy
  BY DEF RoutingInv, Shaped, TypeOK
<1>2. /\ saved' = saved /\ work' = Booting(BootSteps(saved)) /\ turn' = "nobody"
      /\ done' = IF turn = "nobody" THEN done ELSE "broken"
      /\ requests' = requests /\ faults > 0 /\ faults' = faults - 1
      /\ flushed' = NoFlush /\ exempt' = exempt
  BY DEF Restart, Fault, Quiet
<1>3. PICK up \in {FALSE, tunnel.link} :
          /\ tunnel' = [tunnel EXCEPT !.status = "stopped", !.link = up]
          /\ kernel' = [kernel EXCEPT !.vpn = @ /\ up]
  BY DEF Restart
<1>4. /\ KernelShape(kernel') /\ kernel'.rules = kernel.rules /\ kernel'.chain = kernel.chain
      /\ kernel'.set = kernel.set /\ kernel'.vpn = (kernel.vpn /\ up)
  BY <1>1, <1>3 DEF KernelShape, TypeOK
<1>5. /\ tunnel' \in [status: {"running", "stopped", "error"}, link: BOOLEAN, node: Node]
      /\ tunnel'.link = up /\ tunnel'.node = tunnel.node
  BY <1>1, <1>3 DEF TypeOK
<1>6. /\ work' \in [Worker -> [todo: Seq(Op), pol: Policy]]
      /\ \A w \in Worker : Outlined({}, work'[w].todo, {}, work'[w].pol)
  BY <1>1, <1>2, BootOutline, BootingKeeps
<1>7. Outlines'
  <2>1. \A w \in Worker : Outlined(NextKnown(w), work'[w].todo, {}, work'[w].pol)
    BY <1>6, Weakened
  <2> QED BY <2>1, OutlinesLater
<1>8. done' \in {"none", "busy", "broken", "stale", "outdated", "base", "pass", "plan"}
  BY <1>1, <1>2 DEF TypeOK
<1>9. TypeOK' /\ Shaped'
  BY <1>1, <1>2, <1>4, <1>5, <1>6, <1>8, FaultsLater, TypeLater, NoFlushType DEF TypeOK
<1>10. Planned' /\ Passed' /\ OneStack'
  <2>1. CASE turn = "nobody"
    <3>1. turn \notin Worker
      BY <2>1, ConstantsAssumption DEF Worker
    <3> QED BY <1>1, <1>2, <1>4, <2>1, <3>1, Carried
  <2>2. CASE turn # "nobody"
    BY <1>1, <1>2, <1>4, <2>2 DEF Planned, Passed, OneStack
  <2> QED BY <2>1, <2>2
<1> QED BY <1>1, <1>7, <1>9, <1>10 DEF RoutingInv

LEMMA ShutdownKeeps == ASSUME RoutingInv, Shutdown PROVE RoutingInv'
<1>1. /\ TypeOK /\ KernelShape(kernel) /\ Planned /\ Passed /\ OneStack
      /\ Policies # {} /\ saved \in Policy
  BY DEF RoutingInv, Shaped, TypeOK
<1>2. /\ saved' = saved /\ work' = Booting(ShutdownSteps(saved) \o BootSteps(saved))
      /\ turn = "nobody" /\ turn' = turn /\ done' = done /\ tunnel' = tunnel /\ kernel' = kernel
      /\ requests' = requests /\ faults > 0 /\ faults' = faults - 1
      /\ flushed' = flushed /\ exempt' = exempt
  BY DEF Shutdown, Fault, Quiet
<1>3. /\ work' \in [Worker -> [todo: Seq(Op), pol: Policy]]
      /\ \A w \in Worker : Outlined({}, work'[w].todo, {}, work'[w].pol)
  BY <1>1, <1>2, ShutdownOutline, BootingKeeps
<1>4. Outlines'
  <2>1. \A w \in Worker : Outlined(NextKnown(w), work'[w].todo, {}, work'[w].pol)
    BY <1>3, Weakened
  <2> QED BY <2>1, OutlinesLater
<1>5. TypeOK' /\ Shaped'
  BY <1>1, <1>2, <1>3, FaultsLater, TypeLater, FlushLater DEF TypeOK
<1>6. Planned' /\ Passed' /\ OneStack'
  <2>1. turn \notin Worker
    BY <1>2, ConstantsAssumption DEF Worker
  <2> QED BY <1>1, <1>2, <2>1, Carried
<1> QED BY <1>1, <1>4, <1>5, <1>6 DEF RoutingInv

\* The status of a tunnel that is there is read again.
LEMMA StatusKeeps == ASSUME RoutingInv, StatusRead PROVE RoutingInv'
<1>1. /\ TypeOK /\ Shaped /\ KernelShape(kernel) /\ Outlines /\ Planned /\ Passed
      /\ OneStack /\ Policies # {} /\ saved \in Policy
  BY DEF RoutingInv, Shaped, TypeOK
<1>2. /\ kernel' = kernel /\ tunnel' = [tunnel EXCEPT !.status = "running"]
      /\ saved' = saved /\ work' = work /\ turn' = turn /\ done' = done
      /\ requests' = requests /\ faults' = faults /\ flushed' = flushed /\ exempt' = exempt
  BY DEF StatusRead
<1>3. Outlines'
  BY <1>1, <1>2, KnownKept
<1>4. tunnel' \in [status: {"running", "stopped", "error"}, link: BOOLEAN, node: Node]
      /\ tunnel'.link = tunnel.link
  BY <1>1, <1>2 DEF TypeOK
<1>5. TypeOK' /\ Shaped'
  BY <1>1, <1>2, <1>4, TypeLater, FlushLater DEF TypeOK, Shaped
<1>6. PlanRows' = PlanRows
  BY <1>2 DEF PlanRows
<1> HIDE DEF PlanRows
<1>7. Planned' /\ Passed' /\ OneStack'
  BY <1>1, <1>2, <1>6 DEF Planned, Passed, OneStack
<1> QED BY <1>1, <1>3, <1>5, <1>7 DEF RoutingInv

\* The flushed node is committed; no handler has the loop then.
LEMMA CommitKeeps == ASSUME RoutingInv, NEW r \in Worker, CommitNode(r) PROVE RoutingInv'
<1>1. /\ TypeOK /\ Shaped /\ KernelShape(kernel) /\ Outlines /\ Planned /\ Passed
      /\ OneStack /\ Policies # {} /\ saved \in Policy
  BY DEF RoutingInv, Shaped, TypeOK
<1>2. /\ kernel' = kernel /\ tunnel' = tunnel /\ turn = "nobody"
      /\ saved' = [saved EXCEPT !.node = flushed.node] /\ flushed' = NoFlush
      /\ work' = work /\ turn' = turn /\ done' = done
      /\ requests' = requests /\ faults' = faults /\ exempt' = exempt
  BY DEF CommitNode, Quiet
<1>3. saved' \in Policy
  BY <1>1, <1>2 DEF TypeOK, Policy
<1>4. Outlines'
  <2>1. ASSUME NEW w \in Worker
        PROVE  Outlined(NextKnown(w), work'[w].todo, {}, work'[w].pol)
    <3>1. Known(w) = {} /\ {} \subseteq NextKnown(w)
      BY <1>2, QuietKnows
    <3>2. Outlined({}, work[w].todo, {}, work[w].pol)
      BY <1>1, <3>1 DEF Outlines
    <3> QED BY <1>2, <3>1, <3>2, Weakened
  <2> QED BY <2>1, OutlinesLater
<1>5. TypeOK' /\ Shaped'
  BY <1>1, <1>2, <1>3, TypeLater, NoFlushType DEF TypeOK, Shaped
<1>6. PlanRows' = PlanRows
  BY <1>1, <1>2 DEF PlanRows, Policy
<1> HIDE DEF PlanRows
<1>7. Planned' /\ Passed' /\ OneStack'
  BY <1>1, <1>2, <1>6 DEF Planned, Passed, OneStack
<1> QED BY <1>1, <1>4, <1>5, <1>7 DEF RoutingInv

LEMMA InitRouting == Init => RoutingInv
<1> SUFFICES ASSUME Init PROVE RoutingInv
  OBVIOUS
<1>1. /\ saved \in Policies /\ Policies # {} /\ saved \in Policy
      /\ tunnel = [status |-> "stopped", link |-> FALSE, node |-> saved.node]
      /\ kernel = Bare /\ work = Booting(BootSteps(saved)) /\ turn = "nobody" /\ done = "none"
      /\ requests = MaxRequests /\ faults = MaxFaults /\ flushed = NoFlush /\ exempt = saved.node
  BY ConstantsAssumption DEF Init
<1>2. KernelShape(kernel) /\ ~kernel.vpn /\ kernel.chain["pre"] = <<>>
  <2>1. NoSets \in [SetName -> SUBSET To]
    BY DEF NoSets
  <2>2. [ipt |-> NoSets, nft |-> NoSets] \in [{"ipt", "nft"} -> [SetName -> SUBSET To]]
    BY <2>1
  <2> QED BY <1>1, <2>2 DEF KernelShape, Bare, Chain
<1>3. /\ work \in [Worker -> [todo: Seq(Op), pol: Policy]]
      /\ \A w \in Worker : Outlined({}, work[w].todo, {}, work[w].pol)
  BY <1>1, BootOutline, BootingKeeps
<1>4. Outlines
  BY <1>1, <1>3, QuietKnows DEF Outlines
<1>5. tunnel \in [status: {"running", "stopped", "error"}, link: BOOLEAN, node: Node]
  BY <1>1 DEF Policy
<1>6. TypeOK
  <2>1. /\ kernel.rules \in BOOLEAN /\ kernel.vpn \in BOOLEAN
        /\ DOMAIN kernel.chain = Chain
        /\ kernel.set \in [{"ipt", "nft"} -> [SetName -> SUBSET To]]
    BY <1>2 DEF KernelShape
  <2>2. requests \in 0..MaxRequests /\ faults \in 0..MaxFaults
    BY <1>1, ConstantsAssumption
  <2>3. exempt \in Node
    BY <1>1 DEF Policy
  <2>4. flushed \in [by: Worker \cup {"nobody"}, node: Node]
    BY <1>1, <2>3 DEF NoFlush
  <2> QED BY <1>1, <1>2, <1>3, <1>5, <2>1, <2>2, <2>3, <2>4 DEF TypeOK
<1>7. Planned /\ Passed /\ OneStack
  BY <1>1, <1>2 DEF Planned, Passed, OneStack
<1> QED BY <1>1, <1>2, <1>3, <1>4, <1>6, <1>7 DEF RoutingInv, Shaped

LEMMA StutterKeeps == ASSUME RoutingInv, UNCHANGED vars PROVE RoutingInv'
<1>1. /\ saved' = saved /\ tunnel' = tunnel /\ kernel' = kernel /\ work' = work /\ turn' = turn
      /\ done' = done /\ requests' = requests /\ faults' = faults /\ flushed' = flushed
      /\ exempt' = exempt
  BY DEF vars
<1>2. TypeOK' /\ Shaped'
  BY <1>1 DEF RoutingInv, TypeOK, Shaped
<1>3. Outlines'
  BY <1>1, KnownKept DEF RoutingInv
<1>4. Planned' /\ Passed' /\ OneStack'
  BY <1>1 DEF RoutingInv, Planned, Passed, OneStack, PlanRows
<1> QED BY <1>2, <1>3, <1>4 DEF RoutingInv

\* Every step keeps the invariant.
LEMMA StepKeeps == RoutingInv /\ [Next]_vars => RoutingInv'
<1> SUFFICES ASSUME RoutingInv, [Next]_vars PROVE RoutingInv'
  OBVIOUS
<1>1. ASSUME NEW r \in Worker, Step(r) PROVE RoutingInv'
  BY <1>1, CommandKeeps, FailsKeeps, CheckKeeps, EndKeeps, AwaitKeeps, ReadKeeps, DnsmasqKeeps,
     TunnelKeeps, CandidateKeeps DEF Step
<1>2. ASSUME NEW r \in Slot, Request(r) PROVE RoutingInv'
  BY <1>2, RequestKeeps
<1> QED BY <1>1, <1>2, CommitKeeps, LinkKeeps, StatusKeeps, LearnKeeps, RestartKeeps,
           ShutdownKeeps, StutterKeeps DEF Next

\* RoutingInv is an inductive invariant of the specification.
THEOREM RoutingCorrect == Spec => []RoutingInv
<1> QED BY InitRouting, StepKeeps, PTL DEF Spec

\* The variables have their types.
THEOREM TypesCorrect == Spec => []TypeOK
<1>1. RoutingInv => TypeOK
  BY DEF RoutingInv
<1> QED BY <1>1, RoutingCorrect, PTL

\* Marking rules of the two firewall backends are never there together, in no
\* order of requests, failed commands and restarts.
THEOREM OneStackCorrect == Spec => []OneStack
<1>1. RoutingInv => OneStack
  BY DEF RoutingInv
<1> QED BY <1>1, RoutingCorrect, PTL

---------------------------------------------------------------------------
(* The sets of addresses between two moments                                *)

\* Only a flush or a fill of an ipset changes one.
LEMMA OtherCommands ==
    ASSUME NEW op \in Op, op[1] \in Commands \ {"flush", "fill"}, NEW k, KernelShape(k),
           NEW row, NEW e, e = Commanded(k, op, row)
    PROVE  e.set["ipt"] = k.set["ipt"]
<1>1. CASE op[1] = "ip"
  <2>1. op \in {<<"ip", "rules">>, <<"ip", "routes">>, <<"ip", "clear">>}
    BY <1>1 DEF Op
  <2>2. CASE op = <<"ip", "rules">>
    BY <2>2 DEF Commanded, IpSteps, KernelShape
  <2>3. CASE op = <<"ip", "routes">>
    BY <2>3 DEF Commanded, IpSteps, KernelShape
  <2>4. CASE op = <<"ip", "clear">>
    BY <2>4 DEF Commanded, IpSteps, KernelShape
  <2> QED BY <2>1, <2>2, <2>3, <2>4
<1>2. CASE op = <<"down", "ipt">>
  <2>1. e = EmptyChains(k, {"pre", "out", "forward"})
    BY <1>2 DEF Commanded, Down
  <2> QED BY <2>1, EmptiedChains
<1>3. CASE op = <<"down", "nft">>
  <2> DEFINE c == EmptyChains(k, {"nftpre", "nftout", "forward"})
  <2>1. e = [c EXCEPT !.set.nft = NoSets]
    BY <1>3 DEF Commanded, Down
  <2>2. KernelShape(c) /\ c.set = k.set
    BY EmptiedChains
  <2> HIDE DEF c
  <2>3. e.set["ipt"] = c.set["ipt"]
    BY <2>1, <2>2 DEF KernelShape
  <2> QED BY <2>2, <2>3
<1>4. CASE op[1] = "chains"
  <2>1. PICK names : e = EmptyChains(k, names)
    BY <1>4 DEF Commanded, Chains
  <2> QED BY <2>1, EmptiedChains
<1>5. CASE op[1] = "mark"
  <2>1. PICK a \in Chain, b \in Chain : \E x, y : e = [k EXCEPT !.chain[a] = x, !.chain[b] = y]
    <3>1. CASE op[2] = "nft"
      <4>1. e = [k EXCEPT !.chain["nftpre"] = MarkRulesNft(row), !.chain["nftout"] = OutputRulesNft(row)]
        BY <1>5, <3>1 DEF Commanded, Marks
      <4> QED BY <4>1 DEF Chain
    <3>2. CASE op[2] # "nft"
      <4>1. e = [k EXCEPT !.chain["pre"] = MarkRules(row), !.chain["out"] = OutputRules(row)]
        BY <1>5, <3>2 DEF Commanded, Marks
      <4> QED BY <4>1 DEF Chain
    <3> QED BY <3>1, <3>2
  <2>2. PICK x, y : e = [k EXCEPT !.chain[a] = x, !.chain[b] = y]
    BY <2>1
  <2> DEFINE c == [k EXCEPT !.chain[a] = x]
  <2>3. KernelShape(c) /\ c.set = k.set
    BY ChangedChain
  <2>4. e = [c EXCEPT !.chain[b] = y]
    BY <2>2
  <2> HIDE DEF c
  <2>5. e.set = c.set
    BY <2>3, <2>4, ChangedChain
  <2> QED BY <2>3, <2>5
<1>6. CASE op[1] \in {"forward", "out"}
  <2>1. PICK c \in Chain : \E rules : e = [k EXCEPT !.chain[c] = rules]
    <3>1. CASE op[1] = "forward"
      <4>1. \E rules : e = [k EXCEPT !.chain["forward"] = rules]
        BY <3>1 DEF Commanded, Forward
      <4> QED BY <4>1 DEF Chain
    <3>2. CASE op[1] = "out"
      <4>1. e = [k EXCEPT !.chain[OutputChain(row)] = PassOutput(row)]
        BY <3>2 DEF Commanded
      <4>2. OutputChain(row) \in Chain
        BY DEF Chain, OutputChain
      <4> QED BY <4>1, <4>2
    <3> QED BY <1>6, <3>1, <3>2
  <2>2. PICK rules : e = [k EXCEPT !.chain[c] = rules]
    BY <2>1
  <2> QED BY <2>2, ChangedChain
<1>7. op[1] = "down" => op \in {<<"down", "ipt">>, <<"down", "nft">>}
  BY DEF Op
<1> QED BY <1>1, <1>2, <1>3, <1>4, <1>5, <1>6, <1>7 DEF Commands

\* With ipsets no handler takes a listed address out, even for a moment.
THEOREM SetsKept == Spec => SetsNeverDip
<1> DEFINE Kept(k, e) ==
      /\ \A s \in {"geoip", "manual"} : k[s] \cap Content(s, saved) \subseteq e[s]
      /\ (\E r \in Worker : ~Idle(r) /\ Head1(r) = <<"flush", "fqdn">>)
         \/ k["fqdn"] \subseteq e["fqdn"]
<1>1. ASSUME RoutingInv, [Next]_vars, ~saved.nft,
             \A r \in Worker : work'[r] # work[r] => Alike(Row(r))
      PROVE  Kept(kernel.set["ipt"], kernel'.set["ipt"])
  <2>1. CASE kernel'.set["ipt"] = kernel.set["ipt"]
    BY <2>1
  <2>2. CASE Learn
    <3>1. KernelShape(kernel) /\ Stack(saved) = "ipt"
      BY <1>1 DEF RoutingInv, Shaped, Stack
    <3>2. PICK a \in Fqdn(saved) : kernel' = [kernel EXCEPT !.set["ipt"]["fqdn"] = @ \cup {a}]
      BY <2>2, <3>1 DEF Learn
    <3>3. kernel'.set["ipt"] = [kernel.set["ipt"] EXCEPT !["fqdn"] = @ \cup {a}]
      BY <3>1, <3>2 DEF KernelShape
    <3>4. kernel.set["ipt"] \in [SetName -> SUBSET To]
      BY <3>1 DEF KernelShape
    <3> QED BY <3>3, <3>4 DEF SetName
  <2>3. ASSUME NEW r \in Worker, Command(r) PROVE Kept(kernel.set["ipt"], kernel'.set["ipt"])
    <3> DEFINE op == Head1(r)
    <3>1. /\ HasTurn(r) /\ op[1] \in Commands /\ kernel' = Commanded(kernel, op, Row(r)) /\ Next1(r)
      BY <2>3 DEF Command
    <3>2. /\ op \in Op /\ work[r].pol \in Policy
          /\ op[1] = "flush" /\ op[2] # "fqdn" => work[r].pol.nft
      BY <1>1, <3>1, HeadNeeds DEF RoutingInv
    <3>3. KernelShape(kernel) /\ work \in [Worker -> [todo: Seq(Op), pol: Policy]] /\ saved \in Policy
      BY <1>1 DEF RoutingInv, Shaped, TypeOK
    <3>4. /\ ~work[r].pol.nft /\ Row(r) \in Policy /\ Stack(Row(r)) = "ipt"
          /\ \A s : Content(s, Row(r)) = Content(s, saved)
      <4>1. work'[r].todo = Tail(work[r].todo)
        BY <3>1, <3>3 DEF Next1, GoOn, Worked
      <4>2. work[r].todo \in Seq(Op) /\ work[r].todo # <<>>
        BY <3>1, <3>3 DEF HasTurn, Idle
      <4>3. Tail(work[r].todo) # work[r].todo
        <5>1. Len(Tail(work[r].todo)) # Len(work[r].todo)
          BY <4>2
        <5> QED BY <5>1
      <4>4. [Row(r) EXCEPT !.node = saved.node] = saved
        BY <1>1, <4>1, <4>3 DEF Alike
      <4>5. Row(r) \in Policy /\ Row(r).nft = work[r].pol.nft
        BY <3>2, <3>3 DEF Row, Policy
      <4>6. /\ Row(r).nft = saved.nft /\ Row(r).sources = saved.sources
            /\ Row(r).domains = saved.domains
        BY <3>3, <4>4, <4>5 DEF Policy
      <4> QED BY <1>1, <4>5, <4>6 DEF Stack, Content, Fqdn
    <3> DEFINE row == Row(r)
    <3>5. /\ Stack(row) = "ipt" /\ kernel.set["ipt"] \in [SetName -> SUBSET To] /\ row \in Policy
          /\ \A s : Content(s, row) = Content(s, saved)
      BY <3>3, <3>4 DEF KernelShape
    <3>6. kernel' = Commanded(kernel, op, row)
      BY <3>1
    <3>7. ~Idle(r)
      BY <3>1 DEF HasTurn
    <3> HIDE DEF op, row
    <3>8. CASE op[1] \notin {"flush", "fill"}
      <4>1. \A e : e = Commanded(kernel, op, row) => e.set["ipt"] = kernel.set["ipt"]
        BY <3>1, <3>2, <3>3, <3>5, <3>8, OtherCommands
      <4> QED BY <3>6, <4>1, <2>1
    <3>9. CASE op[1] = "flush"
      <4>1. op = <<"flush", "fqdn">>
        BY <3>2, <3>4, <3>9 DEF Op
      <4>2. \A e : e = Commanded(kernel, op, row) =>
               \A t \in SetName \ {"fqdn"} : e.set["ipt"][t] = kernel.set["ipt"][t]
        <5>1. /\ "fqdn" \in SetName
              /\ op \in {<<"flush", "fqdn">>, <<"fill", "fqdn">>}
          BY <4>1 DEF SetName
        <5> QED BY <3>3, <3>5, <5>1, SetEffect
      <4>3. \A t \in {"geoip", "manual"} : kernel'.set["ipt"][t] = kernel.set["ipt"][t]
        BY <3>6, <4>2 DEF SetName
      <4> QED BY <3>7, <4>1, <4>3 DEF op
    <3>10. CASE op[1] = "fill"
      <4>1. PICK s \in Static : op = <<"fill", s>>
        BY <3>2, <3>10 DEF Op
      <4>2. \A e : e = Commanded(kernel, op, row) =>
               /\ e.set["ipt"][s] = Content(s, row)
               /\ \A t \in SetName \ {s} : e.set["ipt"][t] = kernel.set["ipt"][t]
        <5>1. s \in SetName /\ op \in {<<"flush", s>>, <<"fill", s>>}
          BY <4>1 DEF Static, SetName
        <5>2. ASSUME NEW e, e = Commanded(kernel, op, row)
              PROVE  /\ e.set[Stack(row)][s] = Content(s, row)
                     /\ \A t \in SetName \ {s} : e.set[Stack(row)][t] = kernel.set[Stack(row)][t]
          <6>1. /\ op = <<"fill", s>> => e.set[Stack(row)][s] = Content(s, row)
                /\ \A t \in SetName \ {s} : e.set[Stack(row)][t] = kernel.set[Stack(row)][t]
            BY <3>5, <3>3, <5>1, <5>2, SetEffect
          <6> QED BY <4>1, <6>1
        <5> QED BY <3>5, <5>2
      <4>3. /\ kernel'.set["ipt"][s] = Content(s, row)
            /\ \A t \in SetName \ {s} : kernel'.set["ipt"][t] = kernel.set["ipt"][t]
        BY <3>6, <4>2
      <4>4. kernel'.set["ipt"]["fqdn"] = kernel.set["ipt"]["fqdn"]
        BY <4>3 DEF Static, SetName
      <4>5. ASSUME NEW t \in {"geoip", "manual"}
            PROVE  kernel.set["ipt"][t] \cap Content(t, saved) \subseteq kernel'.set["ipt"][t]
        BY <4>3, <3>5 DEF SetName
      <4> QED BY <4>4, <4>5
    <3> QED BY <3>8, <3>9, <3>10
  <2>4. ASSUME kernel' = kernel \/ kernel' = [kernel EXCEPT !.vpn = FALSE]
                 \/ \E up \in BOOLEAN : kernel' = [kernel EXCEPT !.vpn = @ /\ up]
        PROVE  kernel'.set["ipt"] = kernel.set["ipt"]
    BY <1>1, <2>4 DEF RoutingInv, Shaped, KernelShape
  <2>5. ASSUME NEW r \in Worker, Step(r) PROVE Kept(kernel.set["ipt"], kernel'.set["ipt"])
    <3>1. CASE Command(r)
      BY <3>1, <2>3
    <3>2. CASE ~Command(r)
      <4>1. kernel' = kernel \/ kernel' = [kernel EXCEPT !.vpn = FALSE]
        BY <2>5, <3>2 DEF Step, CommandFails, Check, End, Await, ReadPolicy, RestartDnsmasq,
           TunnelStart, TunnelStop, NextCandidate
      <4> QED BY <4>1, <2>1, <2>4
    <3> QED BY <3>1, <3>2
  <2>6. ASSUME NEW r \in Slot, Request(r) PROVE kernel' = kernel
    BY <2>6 DEF Request, Ask, Begin, ActivateNode, SelectNode, Failover, SaveSettings, SavePolicy, SaveSources, RefreshGeoip, ApplyPlan,
       SetKill, SetOn, SetOff, StartNode, StopNode, ForceDevice
  <2>7. CASE LinkLost
    BY <2>7, <2>1, <2>4 DEF LinkLost
  <2>8. CASE Restart
    BY <2>8, <2>1, <2>4 DEF Restart
  <2>9. CASE Shutdown
    BY <2>9, <2>1, <2>4 DEF Shutdown
  <2>10. CASE UNCHANGED vars
    BY <2>10, <2>1, <2>4 DEF vars
  <2>11. CASE \E r \in Slot : Request(r)
    BY <2>11, <2>6, <2>1, <2>4
  <2>12. CASE StatusRead \/ \E r \in Worker : CommitNode(r)
    BY <2>12, <2>1 DEF StatusRead, CommitNode
  <2> QED BY <1>1, <2>2, <2>5, <2>7, <2>8, <2>9, <2>10, <2>11, <2>12 DEF Next
<1>2. RoutingInv /\ [Next]_vars =>
        (~saved.nft /\ ~saved'.nft /\ (\A r \in Worker : work'[r] # work[r] => Alike(Row(r)))
           => Kept(kernel.set["ipt"], kernel'.set["ipt"]))
  BY <1>1
<1>3. RoutingInv /\ [Next]_vars =>
        [~saved.nft /\ ~saved'.nft /\ (\A r \in Worker : work'[r] # work[r] => Alike(Row(r)))
           => Kept(kernel.set.ipt, kernel'.set.ipt)]_vars
  BY <1>2
<1> QED BY <1>3, RoutingCorrect, PTL DEF Spec, SetsNeverDip

---------------------------------------------------------------------------
(* The mark that a chain leaves: what its first rule does, then the others  *)

Sees(from, p) == from \in {"any", p[1]} \cup (IF p[1] \in Lan THEN {"lan"} ELSE {})

Hit(rule, sets, p) ==
    \E d \in (IF rule[2] \in SetName THEN sets[rule[2]] ELSE {rule[2]}) :
        Applies(<<rule[1], d, rule[3]>>, p)

MarkOf(rule) == IF rule[3] \in {"vpn", "vpn_return"} THEN "vpn" ELSE "local"

Hits(rules, sets, p) == {i \in 1..Len(rules) : Hit(rules[i], sets, p)}
Ends(rules, sets, p) ==
    {i \in Hits(rules, sets, p) : rules[i][3] \in {"return", "vpn_return", "local_return"}}
Setters(rules, sets, p) ==
    {i \in Hits(rules, sets, p) : /\ rules[i][3] # "return"
                                  /\ \A j \in Ends(rules, sets, p) : i <= j}

\* Of the rules that set a mark the last one counts.
LEMMA MarkIs ==
    ASSUME NEW rules, Len(rules) \in Nat, NEW sets, NEW p, NEW before
    PROVE  /\ Setters(rules, sets, p) = {} => MarkBy(rules, sets, p, before) = before
           /\ \A i \in Setters(rules, sets, p) :
                 (\A j \in Setters(rules, sets, p) : j <= i)
                    => MarkBy(rules, sets, p, before) = MarkOf(rules[i])
<1> DEFINE dst  == Resolved(rules, sets)
           hits == {i \in 1..Len(rules) :
                      \E d \in dst[i] : Applies(<<rules[i][1], d, rules[i][3]>>, p)}
           ends == {i \in hits : rules[i][3] \in {"return", "vpn_return", "local_return"}}
           set  == {i \in hits : rules[i][3] # "return" /\ \A j \in ends : i <= j}
           last == CHOOSE i \in set : \A j \in set : j <= i
<1>1. MarkBy(rules, sets, p, before) = IF set = {} THEN before ELSE MarkOf(rules[last])
  BY DEF MarkBy, MarkOf
<1>2. hits = Hits(rules, sets, p)
  <2>1. \A i \in 1..Len(rules) : dst[i] = IF rules[i][2] \in SetName THEN sets[rules[i][2]]
                                          ELSE {rules[i][2]}
    BY DEF Resolved
  <2> HIDE DEF dst
  <2>2. \A i \in 1..Len(rules) :
            (\E d \in dst[i] : Applies(<<rules[i][1], d, rules[i][3]>>, p)) <=> Hit(rules[i], sets, p)
    BY <2>1 DEF Hit
  <2> QED BY <2>2 DEF Hits
<1> HIDE DEF hits, dst
<1>3. set = Setters(rules, sets, p)
  BY <1>2 DEF Setters, Ends
<1> HIDE DEF set
<1>4. ASSUME NEW i \in set, \A j \in set : j <= i, set \subseteq 1..Len(rules)
      PROVE  last = i
  <2>1. last \in set /\ \A j \in set : j <= last
    BY <1>4
  <2> HIDE DEF last
  <2>2. i <= last /\ last <= i
    BY <1>4, <2>1
  <2>3. i \in 1..Len(rules) /\ last \in 1..Len(rules)
    BY <1>4, <2>1
  <2> QED BY <2>2, <2>3
<1>5. set \subseteq 1..Len(rules)
  BY <1>3 DEF Setters, Hits
<1> HIDE DEF last
<1> QED BY <1>1, <1>3, <1>4, <1>5

LEMMA Greatest ==
    ASSUME NEW n \in Nat, NEW S \in SUBSET (1..n), S # {}
    PROVE  \E i \in S : \A j \in S : j <= i
<1> DEFINE Less == {ss \in Nat \X Nat : ss[1] < ss[2]}
           T == {n - i : i \in S}
<1>1. IsWellFoundedOn(Less, Nat)
  BY NatLessThanWellFounded DEF OpToRel
<1>2. T \subseteq Nat /\ T # {}
  <2>1. \A i \in S : n - i \in Nat
    OBVIOUS
  <2> QED BY <2>1
<1>3. \E a \in T : \A b \in T : <<b, a>> \notin Less
  <2> HIDE DEF Less, T
  <2> QED BY <1>1, <1>2, WFMin
<1>4. PICK a \in T : \A b \in T : <<b, a>> \notin Less
  BY <1>3
<1>5. \A b \in T : ~(b < a)
  BY <1>2, <1>4
<1>6. PICK i \in S : a = n - i
  OBVIOUS
<1>7. ASSUME NEW j \in S PROVE j <= i
  <2>1. n - j \in T
    OBVIOUS
  <2>2. ~(n - j < n - i)
    BY <2>1, <1>5, <1>6
  <2> QED BY <2>2
<1> QED BY <1>7

LEMMA NoMark == ASSUME NEW sets, NEW p, NEW before PROVE MarkBy(<<>>, sets, p, before) = before
<1>1. Setters(<<>>, sets, p) = {} /\ Len(<<>>) \in Nat
  BY DEF Setters, Hits
<1> QED BY <1>1, MarkIs

\* A rule that returns first leaves the mark as it was.
LEMMA Returns ==
    ASSUME NEW rules, Len(rules) \in Nat \ {0}, NEW sets, NEW p, NEW before,
           Hit(rules[1], sets, p), rules[1][3] = "return"
    PROVE  MarkBy(rules, sets, p, before) = before
<1>1. 1 \in Ends(rules, sets, p)
  <2>1. 1 \in 1..Len(rules)
    OBVIOUS
  <2>2. 1 \in Hits(rules, sets, p)
    BY <2>1 DEF Hits
  <2> QED BY <2>2 DEF Ends
<1>2. ASSUME NEW i \in Setters(rules, sets, p) PROVE FALSE
  <2>1. i \in 1..Len(rules) /\ i <= 1 /\ rules[i][3] # "return"
    BY <1>1 DEF Setters, Hits
  <2>2. i = 1
    BY <2>1
  <2> QED BY <2>1, <2>2
<1>3. Setters(rules, sets, p) = {}
  BY <1>2
<1> QED BY <1>3, MarkIs

LEMMA MarkCons ==
    ASSUME NEW a \in Rule, NEW rest \in Seq(Rule), NEW sets, NEW p, NEW before
    PROVE  /\ ~Hit(a, sets, p) =>
                 MarkBy(<<a>> \o rest, sets, p, before) = MarkBy(rest, sets, p, before)
           /\ Hit(a, sets, p) /\ a[3] = "return" => MarkBy(<<a>> \o rest, sets, p, before) = before
           /\ Hit(a, sets, p) /\ a[3] \in {"vpn_return", "local_return"} =>
                 MarkBy(<<a>> \o rest, sets, p, before) = MarkOf(a)
           /\ Hit(a, sets, p) /\ a[3] \notin {"return", "vpn_return", "local_return"} =>
                 MarkBy(<<a>> \o rest, sets, p, before) = MarkBy(rest, sets, p, MarkOf(a))
<1> DEFINE rules == <<a>> \o rest
           n == Len(rest)
           S == Setters(rules, sets, p)
           R == Setters(rest, sets, p)
<1>1. /\ n \in Nat /\ Len(rules) = 1 + n /\ rules[1] = a
      /\ \A i \in 1..n : rules[1 + i] = rest[i]
  BY Prefixed
<1> HIDE DEF rules
<1> SUFFICES /\ ~Hit(a, sets, p) =>
                   MarkBy(rules, sets, p, before) = MarkBy(rest, sets, p, before)
             /\ Hit(a, sets, p) /\ a[3] = "return" => MarkBy(rules, sets, p, before) = before
             /\ Hit(a, sets, p) /\ a[3] \in {"vpn_return", "local_return"} =>
                   MarkBy(rules, sets, p, before) = MarkOf(a)
             /\ Hit(a, sets, p) /\ a[3] \notin {"return", "vpn_return", "local_return"} =>
                   MarkBy(rules, sets, p, before) = MarkBy(rest, sets, p, MarkOf(a))
  BY DEF rules
<1>0. Len(rules) \in Nat /\ Len(rest) \in Nat
  BY <1>1
<1>2. \A i \in 1..(1 + n) : i = 1 \/ (i - 1 \in 1..n /\ i = 1 + (i - 1))
  BY <1>1
<1>3. /\ \A i \in 1..n : 1 + i \in Hits(rules, sets, p) <=> i \in Hits(rest, sets, p)
      /\ 1 \in Hits(rules, sets, p) <=> Hit(a, sets, p)
  <2>1. \A i \in 1..n : 1 + i \in 1..(1 + n)
    BY <1>1
  <2>2. 1 \in 1..(1 + n)
    BY <1>1
  <2> QED BY <1>1, <2>1, <2>2 DEF Hits
<1>4. /\ \A i \in 1..n : 1 + i \in Ends(rules, sets, p) <=> i \in Ends(rest, sets, p)
      /\ 1 \in Ends(rules, sets, p)
            <=> Hit(a, sets, p) /\ a[3] \in {"return", "vpn_return", "local_return"}
  BY <1>1, <1>3 DEF Ends
<1>5. /\ S \subseteq 1..(1 + n) /\ Ends(rules, sets, p) \subseteq 1..(1 + n)
      /\ R \subseteq 1..n /\ Ends(rest, sets, p) \subseteq 1..n
  BY <1>1 DEF Setters, Ends, Hits
<1>6. ASSUME 1 \notin Ends(rules, sets, p), NEW i \in 1..n
      PROVE  1 + i \in S <=> i \in R
  <2>1. (\A j \in Ends(rules, sets, p) : 1 + i <= j) <=> (\A j \in Ends(rest, sets, p) : i <= j)
    <3>1. ASSUME \A j \in Ends(rules, sets, p) : 1 + i <= j, NEW j \in Ends(rest, sets, p)
          PROVE  i <= j
      <4>1. j \in 1..n /\ 1 + j \in Ends(rules, sets, p)
        BY <1>4, <1>5
      <4>2. 1 + i <= 1 + j
        BY <3>1, <4>1
      <4> QED BY <4>1, <4>2
    <3>2. ASSUME \A j \in Ends(rest, sets, p) : i <= j, NEW j \in Ends(rules, sets, p)
          PROVE  1 + i <= j
      <4> DEFINE l == j - 1
      <4>1. l \in 1..n /\ j = 1 + l
        BY <1>2, <1>5, <1>6
      <4> HIDE DEF l
      <4>2. l \in Ends(rest, sets, p)
        BY <1>4, <4>1
      <4>3. i <= l
        BY <3>2, <4>2
      <4> QED BY <4>1, <4>3
    <3> QED BY <3>1, <3>2
  <2> QED BY <1>1, <1>3, <2>1 DEF Setters
<1>7. R = {} \/ \E m \in R : \A j \in R : j <= m
  BY <1>1, <1>5, Greatest
<1>8. CASE ~Hit(a, sets, p)
  <2>1. 1 \notin S /\ 1 \notin Ends(rules, sets, p)
    BY <1>3, <1>4, <1>8 DEF Setters
  <2>2. CASE R = {}
    <3>1. ASSUME NEW i \in S PROVE FALSE
      <4>1. i - 1 \in 1..n /\ i = 1 + (i - 1)
        BY <1>2, <1>5, <2>1
      <4> QED BY <1>6, <2>1, <2>2, <4>1
    <3>2. S = {}
      BY <3>1
    <3>3. MarkBy(rules, sets, p, before) = before /\ MarkBy(rest, sets, p, before) = before
      BY <1>0, <2>2, <3>2, MarkIs
    <3> QED BY <1>8, <3>3
  <2>3. CASE R # {}
    <3>1. PICK m \in R : \A j \in R : j <= m
      BY <1>7, <2>3
    <3>2. m \in 1..n /\ 1 + m \in S /\ rules[1 + m] = rest[m]
      BY <1>1, <1>5, <1>6, <2>1
    <3>3. ASSUME NEW j \in S PROVE j <= 1 + m
      <4> DEFINE l == j - 1
      <4>1. l \in 1..n /\ j = 1 + l
        BY <1>2, <1>5, <2>1
      <4> HIDE DEF l
      <4>2. l \in R
        BY <1>6, <2>1, <4>1
      <4>3. l <= m
        BY <3>1, <4>2
      <4> QED BY <3>2, <4>1, <4>3
    <3>4. MarkBy(rules, sets, p, before) = MarkOf(rest[m])
      BY <1>0, <3>2, <3>3, MarkIs
    <3>5. MarkBy(rest, sets, p, before) = MarkOf(rest[m])
      BY <1>0, <3>1, MarkIs
    <3> QED BY <1>8, <3>4, <3>5
  <2> QED BY <2>2, <2>3
<1>9. CASE Hit(a, sets, p) /\ a[3] = "return"
  <2>1. Len(rules) \in Nat \ {0} /\ Hit(rules[1], sets, p) /\ rules[1][3] = "return"
    BY <1>1, <1>9
  <2>2. MarkBy(rules, sets, p, before) = before
    BY <2>1, Returns
  <2> QED BY <1>9, <2>2
<1>10. CASE Hit(a, sets, p) /\ a[3] \in {"vpn_return", "local_return"}
  <2>1. 1 \in Ends(rules, sets, p) /\ 1 \in Hits(rules, sets, p)
    BY <1>3, <1>4, <1>10
  <2>2. \A j \in Ends(rules, sets, p) : 1 <= j
    BY <1>5
  <2>3. 1 \in S
    BY <1>1, <1>10, <2>1, <2>2 DEF Setters
  <2>4. \A j \in S : j <= 1
    BY <2>1 DEF Setters
  <2>5. MarkBy(rules, sets, p, before) = MarkOf(a)
    <3>1. MarkBy(rules, sets, p, before) = MarkOf(rules[1])
      BY <1>0, <2>3, <2>4, MarkIs
    <3> QED BY <1>1, <3>1
  <2>6. a[3] # "return"
    BY <1>10
  <2> QED BY <1>10, <2>5, <2>6
<1>11. CASE Hit(a, sets, p) /\ a[3] \notin {"return", "vpn_return", "local_return"}
  <2>1. 1 \notin Ends(rules, sets, p) /\ 1 \in Hits(rules, sets, p)
    BY <1>3, <1>4, <1>11
  <2>2. \A j \in Ends(rules, sets, p) : 1 <= j
    BY <1>5
  <2>3. 1 \in S
    BY <1>1, <1>11, <2>1, <2>2 DEF Setters
  <2>4. CASE R = {}
    <3>1. ASSUME NEW j \in S PROVE j <= 1
      <4>1. CASE j = 1
        BY <4>1
      <4>2. CASE j # 1
        <5> DEFINE l == j - 1
        <5>1. l \in 1..n /\ j = 1 + l
          BY <1>2, <1>5, <4>2
        <5> HIDE DEF l
        <5>2. l \in R
          BY <1>6, <2>1, <5>1
        <5> QED BY <2>4, <5>2
      <4> QED BY <4>1, <4>2
    <3>2. MarkBy(rules, sets, p, before) = MarkOf(a)
      <4>1. MarkBy(rules, sets, p, before) = MarkOf(rules[1])
        BY <1>0, <2>3, <3>1, MarkIs
      <4> QED BY <1>1, <4>1
    <3>3. MarkBy(rest, sets, p, MarkOf(a)) = MarkOf(a)
      BY <1>0, <2>4, MarkIs
    <3> QED BY <1>11, <3>2, <3>3
  <2>5. CASE R # {}
    <3>1. PICK m \in R : \A j \in R : j <= m
      BY <1>7, <2>5
    <3>2. m \in 1..n /\ 1 + m \in S /\ rules[1 + m] = rest[m]
      BY <1>1, <1>5, <1>6, <2>1
    <3>3. ASSUME NEW j \in S PROVE j <= 1 + m
      <4>1. CASE j = 1
        BY <3>2, <4>1
      <4>2. CASE j # 1
        <5> DEFINE l == j - 1
        <5>1. l \in 1..n /\ j = 1 + l
          BY <1>2, <1>5, <4>2
        <5> HIDE DEF l
        <5>2. l \in R
          BY <1>6, <2>1, <5>1
        <5>3. l <= m
          BY <3>1, <5>2
        <5> QED BY <3>2, <5>1, <5>3
      <4> QED BY <4>1, <4>2
    <3>4. MarkBy(rules, sets, p, before) = MarkOf(rest[m])
      BY <1>0, <3>2, <3>3, MarkIs
    <3>5. MarkBy(rest, sets, p, MarkOf(a)) = MarkOf(rest[m])
      BY <1>0, <3>1, MarkIs
    <3> QED BY <1>11, <3>4, <3>5
  <2> QED BY <2>4, <2>5
<1> QED BY <1>8, <1>9, <1>10, <1>11

---------------------------------------------------------------------------
(* What the marking chains of a plan make of a packet                       *)

Packet == From \X To

Named(names, sets, p) == \E i \in 1..Len(names) : p[2] \in sets[names[i]]

\* A rule on a set, on every destination, on the server of a node
LEMMA HitRules ==
    ASSUME NEW sets \in [SetName -> SUBSET To], NEW p \in Packet, NEW from, NEW action
    PROVE  /\ \A s \in SetName : Hit(<<from, s, action>>, sets, p)
                                    <=> Sees(from, p) /\ p[2] \in sets[s]
           /\ Hit(<<from, "any", action>>, sets, p) <=> Sees(from, p)
           /\ \A n \in Node : Hit(<<"any", n, action>>, sets, p) <=> p[2] = n
<1>1. p[2] \in To /\ "any" \notin To
  BY ConstantsAssumption DEF Packet, To
<1>2. ASSUME NEW s \in SetName
      PROVE  Hit(<<from, s, action>>, sets, p) <=> Sees(from, p) /\ p[2] \in sets[s]
  <2>1. Hit(<<from, s, action>>, sets, p) <=> \E d \in sets[s] : Applies(<<from, d, action>>, p)
    BY DEF Hit
  <2>2. \A d \in sets[s] : d # "any"
    BY <1>1
  <2>3. \A d \in sets[s] : Applies(<<from, d, action>>, p) <=> Sees(from, p) /\ d = p[2]
    BY <2>2 DEF Applies, Sees
  <2> QED BY <2>1, <2>3
<1>3. Hit(<<from, "any", action>>, sets, p) <=> Sees(from, p)
  <2>1. "any" \notin SetName
    BY DEF SetName
  <2>2. Hit(<<from, "any", action>>, sets, p) <=> Applies(<<from, "any", action>>, p)
    BY <2>1 DEF Hit
  <2> QED BY <2>2 DEF Applies, Sees
<1>4. ASSUME NEW n \in Node
      PROVE  Hit(<<"any", n, action>>, sets, p) <=> p[2] = n
  <2>1. n \notin SetName /\ n # "any"
    BY ConstantsAssumption
  <2>2. Hit(<<"any", n, action>>, sets, p) <=> Applies(<<"any", n, action>>, p)
    BY <2>1 DEF Hit
  <2> QED BY <2>1, <2>2 DEF Applies
<1> QED BY <1>2, <1>3, <1>4

LEMMA NamedCons ==
    ASSUME NEW s \in SetName, NEW names \in Seq(SetName), NEW sets, NEW p
    PROVE  Named(<<s>> \o names, sets, p) <=> p[2] \in sets[s] \/ Named(names, sets, p)
<1> DEFINE q == <<s>> \o names
           n == Len(names)
<1>1. /\ n \in Nat /\ Len(q) = 1 + n /\ q[1] = s /\ \A i \in 1..n : q[1 + i] = names[i]
  BY Prefixed
<1> HIDE DEF q, n
<1>2. \A i \in 1..(1 + n) : i = 1 \/ (i - 1 \in 1..n /\ i = 1 + (i - 1))
  BY <1>1
<1>3. ASSUME Named(q, sets, p) PROVE p[2] \in sets[s] \/ Named(names, sets, p)
  <2>1. PICK i \in 1..(1 + n) : p[2] \in sets[q[i]]
    BY <1>1, <1>3 DEF Named
  <2>2. CASE i = 1
    BY <1>1, <2>1, <2>2
  <2>3. CASE i # 1
    <3> DEFINE j == i - 1
    <3>1. j \in 1..n /\ i = 1 + j
      BY <1>2, <2>3
    <3> HIDE DEF j
    <3>2. p[2] \in sets[names[j]]
      BY <1>1, <2>1, <3>1
    <3> QED BY <3>1, <3>2 DEF Named, n
  <2> QED BY <2>2, <2>3
<1>4. ASSUME p[2] \in sets[s] PROVE Named(q, sets, p)
  <2>1. 1 \in 1..Len(q)
    BY <1>1
  <2> QED BY <1>1, <1>4, <2>1 DEF Named
<1>5. ASSUME Named(names, sets, p) PROVE Named(q, sets, p)
  <2>1. PICK i \in 1..n : p[2] \in sets[names[i]]
    BY <1>5 DEF Named, n
  <2>2. 1 + i \in 1..Len(q) /\ q[1 + i] = names[i]
    BY <1>1
  <2> QED BY <2>1, <2>2 DEF Named
<1> QED BY <1>3, <1>4, <1>5 DEF q

\* The rules of a source come before those of the others.
LEMMA PairsAt ==
    ASSUME NEW from, NEW names \in Seq(SetName), NEW mark, NEW i \in 1..(2 * Len(names))
    PROVE  /\ (i + 1) \div 2 \in 1..Len(names)
           /\ Pairs(from, names, mark)[i] =
                 IF i % 2 = 1 THEN <<from, names[(i + 1) \div 2], mark>>
                 ELSE <<from, names[(i + 1) \div 2], "return">>
<1> DEFINE seqs == [k \in 1..Len(names) |->
                       << <<from, names[k], mark>>, <<from, names[k], "return">> >>]
           j == (i + 1) \div 2
<1>1. Len(names) \in Nat /\ Len(seqs) = Len(names)
  OBVIOUS
<1>2. j \in 1..Len(names) /\ (i % 2 = 1 \/ i % 2 = 0)
  BY <1>1
<1>3. Pairs(from, names, mark)[i] = seqs[j][2 - (i % 2)]
  BY <1>1 DEF Pairs, Flat
<1> HIDE DEF j
<1>4. seqs[j] = << <<from, names[j], mark>>, <<from, names[j], "return">> >>
  BY <1>2
<1> HIDE DEF seqs
<1>5. CASE i % 2 = 1
  BY <1>3, <1>4, <1>5, <1>2 DEF j
<1>6. CASE i % 2 = 0
  BY <1>3, <1>4, <1>6, <1>2 DEF j
<1> QED BY <1>2, <1>5, <1>6

LEMMA PairsCons ==
    ASSUME NEW from \in {"any", "device", "lan", "host"}, NEW s \in SetName,
           NEW names \in Seq(SetName), NEW mark \in {"vpn", "local"}
    PROVE  Pairs(from, <<s>> \o names, mark) =
               << <<from, s, mark>> >> \o (<< <<from, s, "return">> >> \o Pairs(from, names, mark))
<1> DEFINE a == <<from, s, mark>>
           b == <<from, s, "return">>
           q == <<s>> \o names
           rest == Pairs(from, names, mark)
           l == Pairs(from, q, mark)
           tail == <<b>> \o rest
           r == <<a>> \o tail
           n == Len(names)
<1>1. a \in Rule /\ b \in Rule
  BY DEF Rule
<1>2. /\ n \in Nat /\ q \in Seq(SetName) /\ Len(q) = 1 + n /\ q[1] = s
      /\ \A i \in 1..n : q[1 + i] = names[i]
  BY Prefixed
<1>3. rest \in Seq(Rule) /\ Len(rest) = 2 * n
  BY PairsType
<1>4. l \in Seq(Rule) /\ Len(l) = 2 * (1 + n)
  BY <1>2, PairsType
<1>5. /\ \A i \in 1..(2 * n) : rest[i] = IF i % 2 = 1 THEN <<from, names[(i + 1) \div 2], mark>>
                                         ELSE <<from, names[(i + 1) \div 2], "return">>
      /\ \A i \in 1..(2 * n) : (i + 1) \div 2 \in 1..n
  BY PairsAt
<1>6. \A i \in 1..(2 * (1 + n)) : l[i] = IF i % 2 = 1 THEN <<from, q[(i + 1) \div 2], mark>>
                                         ELSE <<from, q[(i + 1) \div 2], "return">>
  <2> HIDE DEF q
  <2> TAKE i \in 1..(2 * (1 + n))
  <2>1. i \in 1..(2 * Len(q))
    BY <1>2
  <2> QED BY <1>2, <2>1, PairsAt
<1> HIDE DEF q, rest, l, n
<1>7. /\ tail \in Seq(Rule) /\ Len(tail) = 1 + 2 * n /\ tail[1] = b
      /\ \A i \in 1..(2 * n) : tail[1 + i] = rest[i]
  BY <1>1, <1>3, Prefixed
<1> HIDE DEF tail
<1>8. /\ r \in Seq(Rule) /\ Len(r) = 2 + 2 * n /\ r[1] = a
      /\ \A i \in 1..(1 + 2 * n) : r[1 + i] = tail[i]
  <2>1. /\ r \in Seq(Rule) /\ Len(r) = 1 + Len(tail) /\ r[1] = a
        /\ \A i \in 1..Len(tail) : r[1 + i] = tail[i]
    BY <1>1, <1>7, Prefixed
  <2> HIDE DEF r, a
  <2>2. 1 + Len(tail) = 2 + 2 * n
    BY <1>7, <1>2
  <2>3. \A i \in 1..(1 + 2 * n) : i \in 1..Len(tail)
    BY <1>7
  <2> QED BY <2>1, <2>2, <2>3
<1> HIDE DEF r
<1>9. ASSUME NEW i \in 1..Len(l) PROVE l[i] = r[i]
  <2>1. CASE i = 1
    <3>1. 1 \in 1..(2 * (1 + n)) /\ 1 % 2 = 1 /\ (1 + 1) \div 2 = 1
      BY <1>2
    <3>2. l[1] = <<from, q[1], mark>>
      BY <1>6, <3>1
    <3> QED BY <2>1, <3>2, <1>2, <1>8
  <2>2. CASE i = 2
    <3>1. 2 \in 1..(2 * (1 + n)) /\ 2 % 2 # 1 /\ (2 + 1) \div 2 = 1
      BY <1>2
    <3>2. l[2] = <<from, q[1], "return">>
      BY <1>6, <3>1
    <3>3. 1 \in 1..(1 + 2 * n) /\ 2 = 1 + 1
      BY <1>2
    <3>4. r[2] = tail[1]
      BY <1>8, <3>3
    <3> QED BY <2>2, <3>2, <3>4, <1>2, <1>7
  <2>3. CASE i > 2
    <3> DEFINE j == i - 2
               h == (j + 1) \div 2
    <3>1. /\ j \in 1..(2 * n) /\ i = 1 + (1 + j) /\ 1 + j \in 1..(1 + 2 * n)
          /\ (i + 1) \div 2 = 1 + h /\ i % 2 = j % 2 /\ i \in 1..(2 * (1 + n))
      BY <2>3, <1>2, <1>4
    <3>2. h \in 1..n
      BY <3>1, <1>5
    <3>3. rest[j] = IF j % 2 = 1 THEN <<from, names[h], mark>> ELSE <<from, names[h], "return">>
      BY <3>1, <1>5
    <3> HIDE DEF j, h
    <3>4. r[i] = rest[j]
      BY <3>1, <1>7, <1>8
    <3>5. l[i] = IF i % 2 = 1 THEN <<from, q[1 + h], mark>> ELSE <<from, q[1 + h], "return">>
      BY <3>1, <1>6
    <3> QED BY <3>1, <3>2, <3>3, <3>4, <3>5, <1>2
  <2>4. i = 1 \/ i = 2 \/ i > 2
    BY <1>2, <1>4
  <2> QED BY <2>1, <2>2, <2>3, <2>4
<1>10. Len(l) = Len(r)
  BY <1>2, <1>4, <1>8
<1>11. l = r
  BY <1>4, <1>8, <1>9, <1>10, SeqEqual
<1> QED BY <1>11 DEF l, r, q, tail, rest

\* The rules of nft on sets
Rows(from, names, mark) == [i \in 1..Len(names) |-> <<from, names[i], Final(mark)>>]

LEMMA RowCons ==
    ASSUME NEW from \in {"any", "device", "lan", "host"}, NEW s \in SetName,
           NEW names \in Seq(SetName), NEW action \in {"vpn_return", "local_return"}
    PROVE  /\ [i \in 1..Len(<<s>> \o names) |-> <<from, (<<s>> \o names)[i], action>>]
              = << <<from, s, action>> >> \o [i \in 1..Len(names) |-> <<from, names[i], action>>]
           /\ [i \in 1..Len(names) |-> <<from, names[i], action>>] \in Seq(Rule)
<1> DEFINE q == <<s>> \o names
           n == Len(names)
           a == <<from, s, action>>
           l == [i \in 1..Len(q) |-> <<from, q[i], action>>]
           rest == [i \in 1..n |-> <<from, names[i], action>>]
           r == <<a>> \o rest
<1>1. /\ n \in Nat /\ Len(q) = 1 + n /\ q[1] = s /\ \A i \in 1..n : q[1 + i] = names[i]
      /\ q \in Seq(SetName)
  BY Prefixed
<1>2. a \in Rule
  BY DEF Rule
<1>3. rest \in Seq(Rule) /\ Len(rest) = n /\ \A i \in 1..n : rest[i] = <<from, names[i], action>>
  <2>1. ASSUME NEW i \in 1..n PROVE <<from, names[i], action>> \in Rule
    <3>1. names[i] \in SetName
      OBVIOUS
    <3> QED BY <3>1 DEF Rule
  <2> QED BY <2>1
<1>4. l \in Seq(Rule) /\ Len(l) = 1 + n /\ \A i \in 1..(1 + n) : l[i] = <<from, q[i], action>>
  <2> HIDE DEF q
  <2>1. ASSUME NEW i \in 1..Len(q) PROVE <<from, q[i], action>> \in Rule
    <3>1. q[i] \in SetName
      BY <1>1
    <3> QED BY <3>1 DEF Rule
  <2>2. l \in Seq(Rule) /\ Len(l) = Len(q)
    BY <1>1, <2>1
  <2> QED BY <1>1, <2>2
<1> HIDE DEF q, n, l, rest
<1>5. /\ r \in Seq(Rule) /\ Len(r) = 1 + n /\ r[1] = a /\ \A i \in 1..n : r[1 + i] = rest[i]
  BY <1>2, <1>3, Prefixed
<1> HIDE DEF r
<1>6. ASSUME NEW i \in 1..Len(l) PROVE l[i] = r[i]
  <2>1. CASE i = 1
    <3>1. 1 \in 1..(1 + n)
      BY <1>1
    <3> QED BY <2>1, <3>1, <1>1, <1>4, <1>5 DEF a
  <2>2. CASE i # 1
    <3> DEFINE j == i - 1
    <3>1. j \in 1..n /\ i = 1 + j /\ i \in 1..(1 + n)
      BY <2>2, <1>1, <1>4
    <3> HIDE DEF j
    <3> QED BY <3>1, <1>1, <1>3, <1>4, <1>5
  <2> QED BY <2>1, <2>2
<1>7. l = r
  BY <1>4, <1>5, <1>6, SeqEqual
<1>8. rest \in Seq(Rule)
  BY <1>3
<1> QED BY <1>7, <1>8 DEF l, r, rest, q, n, a

LEMMA NoPairs ==
    ASSUME NEW from \in {"any", "device", "lan", "host"}, NEW mark \in {"vpn", "local"}
    PROVE  Pairs(from, <<>>, mark) = <<>> /\ Rows(from, <<>>, mark) = <<>>
<1> DEFINE none == <<>>
<1>1. none \in Seq(SetName) /\ Len(none) = 0
  OBVIOUS
<1>2. Rows(from, none, mark) = <<>>
  BY DEF Rows
<1> HIDE DEF none
<1>3. Len(Pairs(from, none, mark)) = 0 /\ Pairs(from, none, mark) \in Seq(Rule)
  <2>1. Pairs(from, none, mark) \in Seq(Rule) /\ Len(Pairs(from, none, mark)) = 2 * Len(none)
    BY <1>1, PairsType, Zenon
  <2> QED BY <1>1, <2>1
<1>4. Pairs(from, none, mark) = <<>>
  BY <1>3
<1> QED BY <1>2, <1>4 DEF none

LEMMA Associative ==
    ASSUME NEW S, NEW p \in Seq(S), NEW q \in Seq(S), NEW r \in Seq(S)
    PROVE  (p \o q) \o r = p \o (q \o r)
OBVIOUS

\* The three kinds of rule at the head of a chain
LEMMA HeadRule ==
    ASSUME NEW a \in Rule, NEW rest \in Seq(Rule), NEW sets, NEW p, NEW before
    PROVE  /\ a[3] = "return" =>
                 MarkBy(<<a>> \o rest, sets, p, before)
                   = IF Hit(a, sets, p) THEN before ELSE MarkBy(rest, sets, p, before)
           /\ a[3] \in {"vpn_return", "local_return"} =>
                 MarkBy(<<a>> \o rest, sets, p, before)
                   = IF Hit(a, sets, p) THEN MarkOf(a) ELSE MarkBy(rest, sets, p, before)
           /\ a[3] \in {"vpn", "local"} =>
                 MarkBy(<<a>> \o rest, sets, p, before)
                   = MarkBy(rest, sets, p, IF Hit(a, sets, p) THEN MarkOf(a) ELSE before)
<1>1. /\ ~Hit(a, sets, p) =>
            MarkBy(<<a>> \o rest, sets, p, before) = MarkBy(rest, sets, p, before)
      /\ Hit(a, sets, p) /\ a[3] = "return" => MarkBy(<<a>> \o rest, sets, p, before) = before
      /\ Hit(a, sets, p) /\ a[3] \in {"vpn_return", "local_return"} =>
            MarkBy(<<a>> \o rest, sets, p, before) = MarkOf(a)
      /\ Hit(a, sets, p) /\ a[3] \notin {"return", "vpn_return", "local_return"} =>
            MarkBy(<<a>> \o rest, sets, p, before) = MarkBy(rest, sets, p, MarkOf(a))
  BY MarkCons
<1>2. CASE Hit(a, sets, p)
  BY <1>1, <1>2
<1>3. CASE ~Hit(a, sets, p)
  BY <1>1, <1>3
<1> QED BY <1>2, <1>3

\* One source in front of the others: pairs of iptables, single rules of nft
LEMMA SourceFirst ==
    ASSUME NEW from \in {"any", "device", "lan", "host"}, NEW s \in SetName,
           NEW names \in Seq(SetName), NEW mark \in {"vpn", "local"}, NEW rest \in Seq(Rule),
           NEW sets \in [SetName -> SUBSET To], NEW p \in Packet, NEW before
    PROVE  /\ MarkBy(Pairs(from, <<s>> \o names, mark) \o rest, sets, p, before)
                = IF Sees(from, p) /\ p[2] \in sets[s] THEN mark
                  ELSE MarkBy(Pairs(from, names, mark) \o rest, sets, p, before)
           /\ MarkBy(Rows(from, <<s>> \o names, mark) \o rest, sets, p, before)
                = IF Sees(from, p) /\ p[2] \in sets[s] THEN mark
                  ELSE MarkBy(Rows(from, names, mark) \o rest, sets, p, before)
<1> DEFINE a == <<from, s, mark>>
           b == <<from, s, "return">>
           c == <<from, s, Final(mark)>>
           pairs == Pairs(from, names, mark)
           row == Rows(from, names, mark)
           hit == Sees(from, p) /\ p[2] \in sets[s]
<1>0. Final(mark) \in {"vpn_return", "local_return"}
  BY DEF Final
<1>1. a \in Rule /\ b \in Rule /\ c \in Rule
  BY <1>0 DEF Rule
<1>2. pairs \in Seq(Rule) /\ row \in Seq(Rule)
  BY ZenonT(40), <1>0, PairsType, RowCons DEF Rows
<1>3. /\ Hit(a, sets, p) <=> hit
      /\ Hit(b, sets, p) <=> hit
      /\ Hit(c, sets, p) <=> hit
  BY HitRules
<1>4. MarkOf(a) = mark /\ MarkOf(c) = mark
  BY DEF MarkOf, Final
<1>5. Pairs(from, <<s>> \o names, mark) = <<a>> \o (<<b>> \o pairs)
  BY PairsCons
<1>6. Rows(from, <<s>> \o names, mark) = <<c>> \o row
  BY ZenonT(40), <1>0, RowCons DEF Rows
<1>7. /\ a[3] \notin {"return", "vpn_return", "local_return"} /\ b[3] = "return"
      /\ c[3] \in {"vpn_return", "local_return"} /\ c[3] # "return"
  BY <1>0
<1> HIDE DEF a, b, c, pairs, row, hit
<1>8. <<a>> \in Seq(Rule) /\ <<b>> \in Seq(Rule) /\ <<c>> \in Seq(Rule)
  BY <1>1, Single
<1>9. pairs \o rest \in Seq(Rule) /\ row \o rest \in Seq(Rule) /\ <<b>> \o pairs \in Seq(Rule)
      /\ <<b>> \o (pairs \o rest) \in Seq(Rule)
  BY <1>2, <1>8, Concat
<1>10. (<<a>> \o (<<b>> \o pairs)) \o rest = <<a>> \o (<<b>> \o (pairs \o rest))
  <2>1. (<<a>> \o (<<b>> \o pairs)) \o rest = <<a>> \o ((<<b>> \o pairs) \o rest)
    BY <1>8, <1>9, Associative
  <2>2. (<<b>> \o pairs) \o rest = <<b>> \o (pairs \o rest)
    BY <1>2, <1>8, Associative
  <2> QED BY <2>1, <2>2
<1>11. (<<c>> \o row) \o rest = <<c>> \o (row \o rest)
  BY <1>2, <1>8, Associative
<1>12. MarkBy(<<a>> \o (<<b>> \o (pairs \o rest)), sets, p, before)
         = IF hit THEN mark ELSE MarkBy(pairs \o rest, sets, p, before)
  <2> DEFINE more == pairs \o rest
             last == <<b>> \o more
  <2>1. more \in Seq(Rule) /\ last \in Seq(Rule)
    BY <1>9
  <2> HIDE DEF more
  <2>2. ASSUME NEW was
        PROVE  MarkBy(last, sets, p, was) = IF hit THEN was ELSE MarkBy(more, sets, p, was)
    BY <1>1, <1>3, <1>7, <2>1, HeadRule
  <2> HIDE DEF last
  <2>3. a[3] \in {"vpn", "local"}
    BY DEF a
  <2>4. MarkBy(<<a>> \o last, sets, p, before)
          = MarkBy(last, sets, p, IF hit THEN mark ELSE before)
    BY <1>1, <1>3, <1>4, <2>1, <2>3, HeadRule
  <2>5. MarkBy(<<a>> \o last, sets, p, before) = IF hit THEN mark ELSE MarkBy(more, sets, p, before)
    BY <2>2, <2>4
  <2> QED BY <2>5 DEF last, more
<1>13. MarkBy(<<c>> \o (row \o rest), sets, p, before)
         = IF hit THEN mark ELSE MarkBy(row \o rest, sets, p, before)
  <2> DEFINE more == row \o rest
  <2>1. more \in Seq(Rule)
    BY <1>9
  <2> HIDE DEF more
  <2>2. MarkBy(<<c>> \o more, sets, p, before)
          = IF hit THEN mark ELSE MarkBy(more, sets, p, before)
    BY <1>1, <1>3, <1>4, <1>7, <2>1, HeadRule
  <2> QED BY <2>2 DEF more
<1>14. /\ MarkBy((<<a>> \o (<<b>> \o pairs)) \o rest, sets, p, before)
            = IF hit THEN mark ELSE MarkBy(pairs \o rest, sets, p, before)
       /\ MarkBy((<<c>> \o row) \o rest, sets, p, before)
            = IF hit THEN mark ELSE MarkBy(row \o rest, sets, p, before)
  BY <1>10, <1>11, <1>12, <1>13
<1> QED BY <1>5, <1>6, <1>14 DEF pairs, row, hit

\* The sources of the rows: geoip, manual and fqdn, in this order
LEMMA MatchShape ==
    ASSUME NEW pol
    PROVE  LET q1 == <<"fqdn">> \o <<>>
               q2 == IF "manual" \in pol.sources THEN <<"manual">> \o q1 ELSE q1
           IN MatchSets(pol) = IF "geoip" \in pol.sources THEN <<"geoip">> \o q2 ELSE q2
<1> DEFINE g == IF "geoip" \in pol.sources THEN <<"geoip">> ELSE <<>>
           m == IF "manual" \in pol.sources THEN <<"manual">> ELSE <<>>
           f == <<"fqdn">>
<1>1. g \in Seq(SetName) /\ m \in Seq(SetName) /\ f \in Seq(SetName)
  <2>1. <<>> \in Seq(SetName)
    OBVIOUS
  <2>2. /\ <<"geoip">> \in Seq(SetName) /\ <<"manual">> \in Seq(SetName) /\ <<"fqdn">> \in Seq(SetName)
    BY Single DEF SetName
  <2> QED BY <2>1, <2>2
<1>2. MatchSets(pol) = ((g \o m) \o <<>>) \o f
  BY DEF MatchSets, Fqdn
<1>3. /\ f \o <<>> = f /\ \A q \in Seq(SetName) : <<>> \o q = q /\ q \o <<>> = q
  BY <1>1
<1> HIDE DEF f
<1>4. g \o m \in Seq(SetName) /\ m \o f \in Seq(SetName)
  BY <1>1, Concat
<1>5. MatchSets(pol) = g \o (m \o f)
  <2> HIDE DEF g, m
  <2>1. MatchSets(pol) = (g \o m) \o f
    BY <1>2, <1>3, <1>4
  <2>2. (g \o m) \o f = g \o (m \o f)
    BY <1>1, Associative
  <2> QED BY <2>1, <2>2
<1>6. m \o f = IF "manual" \in pol.sources THEN <<"manual">> \o f ELSE f
  BY <1>1, <1>3
<1> DEFINE w == m \o f
<1>7. g \o w = IF "geoip" \in pol.sources THEN <<"geoip">> \o w ELSE w
  BY <1>3, <1>4
<1>8. MatchSets(pol) = IF "geoip" \in pol.sources THEN <<"geoip">> \o w ELSE w
  BY <1>5, <1>7
<1>9. w = IF "manual" \in pol.sources THEN <<"manual">> \o (f \o <<>>) ELSE f \o <<>>
  BY <1>3, <1>6
<1> QED BY <1>8, <1>9 DEF f

\* All the rules of the sources, and what follows them
LEMMA SourcesMark ==
    ASSUME NEW from \in {"any", "device", "lan", "host"}, NEW pol,
           NEW mark \in {"vpn", "local"}, NEW rest \in Seq(Rule),
           NEW sets \in [SetName -> SUBSET To], NEW p \in Packet, NEW before
    PROVE  LET n == MatchSets(pol)
               then == IF Sees(from, p) /\ Named(n, sets, p) THEN mark
                       ELSE MarkBy(rest, sets, p, before)
           IN /\ MarkBy(Pairs(from, n, mark) \o rest, sets, p, before) = then
              /\ MarkBy(Rows(from, n, mark) \o rest, sets, p, before) = then
<1> DEFINE Then(q) == IF Sees(from, p) /\ Named(q, sets, p) THEN mark
                      ELSE MarkBy(rest, sets, p, before)
           Good(q) == /\ q \in Seq(SetName)
                      /\ MarkBy(Pairs(from, q, mark) \o rest, sets, p, before) = Then(q)
                      /\ MarkBy(Rows(from, q, mark) \o rest, sets, p, before) = Then(q)
<1>1. Good(<<>>)
  <2>1. Pairs(from, <<>>, mark) = <<>> /\ Rows(from, <<>>, mark) = <<>>
    BY NoPairs
  <2>3. <<>> \o rest = rest /\ <<>> \in Seq(SetName)
    OBVIOUS
  <2>4. ~Named(<<>>, sets, p)
    BY DEF Named
  <2> QED BY <2>1, <2>3, <2>4
<1>2. ASSUME NEW q, Good(q), NEW s \in SetName PROVE Good(<<s>> \o q)
  <2>1. q \in Seq(SetName)
    BY <1>2
  <2>2. <<s>> \o q \in Seq(SetName)
    BY <2>1, Prefixed
  <2>0. /\ MarkBy(Pairs(from, <<s>> \o q, mark) \o rest, sets, p, before)
            = IF Sees(from, p) /\ p[2] \in sets[s] THEN mark
              ELSE MarkBy(Pairs(from, q, mark) \o rest, sets, p, before)
        /\ MarkBy(Rows(from, <<s>> \o q, mark) \o rest, sets, p, before)
            = IF Sees(from, p) /\ p[2] \in sets[s] THEN mark
              ELSE MarkBy(Rows(from, q, mark) \o rest, sets, p, before)
    BY <2>1, SourceFirst
  <2>3. MarkBy(Pairs(from, <<s>> \o q, mark) \o rest, sets, p, before)
          = IF Sees(from, p) /\ p[2] \in sets[s] THEN mark ELSE Then(q)
    BY <2>0, <1>2
  <2>4. MarkBy(Rows(from, <<s>> \o q, mark) \o rest, sets, p, before)
          = IF Sees(from, p) /\ p[2] \in sets[s] THEN mark ELSE Then(q)
    BY <2>0, <1>2
  <2>5. Then(<<s>> \o q) = IF Sees(from, p) /\ p[2] \in sets[s] THEN mark ELSE Then(q)
    BY <2>1, NamedCons
  <2> HIDE DEF Then
  <2> QED BY <2>2, <2>3, <2>4, <2>5
<1> HIDE DEF Good
<1>3. Good(MatchSets(pol))
  <2> DEFINE q1 == <<"fqdn">> \o <<>>
             q2 == IF "manual" \in pol.sources THEN <<"manual">> \o q1 ELSE q1
  <2>1. "fqdn" \in SetName /\ "manual" \in SetName /\ "geoip" \in SetName
    BY DEF SetName
  <2>2. Good(q1)
    BY <1>1, <1>2, <2>1
  <2> HIDE DEF q1
  <2>3. Good(q2)
    BY <1>2, <2>1, <2>2
  <2>4. MatchSets(pol) = IF "geoip" \in pol.sources THEN <<"geoip">> \o q2 ELSE q2
    BY MatchShape DEF q1
  <2> HIDE DEF q2
  <2> QED BY <1>2, <2>1, <2>3, <2>4
<1> QED BY <1>3 DEF Good

LEMMA TwoRules ==
    ASSUME NEW S, NEW x \in S, NEW y \in S, NEW r \in Seq(S)
    PROVE  <<x, y>> \o r = <<x>> \o (<<y>> \o r) /\ <<x, y>> \in Seq(S)
<1> DEFINE a == <<x>>
           b == <<y>>
           c == <<x, y>>
           ab == <<x>> \o b
<1>1. a \in Seq(S) /\ b \in Seq(S) /\ Len(b) = 1 /\ b[1] = y
  BY Single
<1>2. c \in Seq(S) /\ Len(c) = 2 /\ c[1] = x /\ c[2] = y
  OBVIOUS
<1> HIDE DEF b, c
<1>3. /\ ab \in Seq(S) /\ Len(ab) = 1 + Len(b) /\ ab[1] = x
      /\ \A i \in 1..Len(b) : ab[1 + i] = b[i]
  BY <1>1, Prefixed
<1>4. ab = a \o b
  OBVIOUS
<1> HIDE DEF a, ab
<1>5. c = ab
  <2>1. Len(c) = Len(ab) /\ 1 \in 1..Len(b) /\ 1 + 1 = 2
    BY <1>1, <1>2, <1>3
  <2>2. ab[2] = y
    BY <2>1, <1>1, <1>3
  <2>3. \A i \in 1..Len(c) : c[i] = ab[i]
    <3>1. \A i \in 1..Len(c) : i = 1 \/ i = 2
      BY <1>2
    <3> QED BY <3>1, <2>2, <1>2, <1>3
  <2> QED BY <2>1, <2>3, <1>2, <1>3, SeqEqual
<1>6. (a \o b) \o r = a \o (b \o r)
  BY <1>1, Associative
<1> QED BY <1>2, <1>4, <1>5, <1>6 DEF a, b, c

LEMMA Joins ==
    /\ \A q1, q2 \in Seq(Rule) : q1 \o q2 \in Seq(Rule)
    /\ \A q1, q2, q3 \in Seq(Rule) : (q1 \o q2) \o q3 = q1 \o (q2 \o q3)
OBVIOUS

\* The last rule of a chain applies to all that its network sends.
LEMMA LastRule ==
    ASSUME NEW from \in {"any", "device", "lan", "host"}, NEW mark \in {"vpn", "local"},
           NEW sets \in [SetName -> SUBSET To], NEW p \in Packet, NEW before
    PROVE  /\ << <<from, "any", mark>> >> \in Seq(Rule)
           /\ MarkBy(<< <<from, "any", mark>> >>, sets, p, before)
                 = IF Sees(from, p) THEN mark ELSE before
<1> DEFINE a == <<from, "any", mark>>
<1>1. a \in Rule /\ a[3] \in {"vpn", "local"} /\ MarkOf(a) = mark
  BY DEF Rule, MarkOf
<1>2. Hit(a, sets, p) <=> Sees(from, p)
  BY HitRules
<1> HIDE DEF a
<1> DEFINE none == <<>>
<1>3. <<a>> \in Seq(Rule) /\ <<a>> \o none = <<a>> /\ none \in Seq(Rule)
  BY <1>1, Single
<1>6. \A was : MarkBy(none, sets, p, was) = was
  BY NoMark
<1> HIDE DEF none
<1>4. MarkBy(<<a>> \o none, sets, p, before)
        = MarkBy(none, sets, p, IF Hit(a, sets, p) THEN MarkOf(a) ELSE before)
  BY <1>1, <1>3, HeadRule
<1>5. MarkBy(<<a>>, sets, p, before) = IF Sees(from, p) THEN mark ELSE before
  BY <1>1, <1>2, <1>3, <1>4, <1>6
<1> QED BY <1>3, <1>5 DEF a

LEMMA RowsType ==
    ASSUME NEW from \in {"any", "device", "lan", "host"}, NEW names \in Seq(SetName), NEW mark
    PROVE  Rows(from, names, mark) \in Seq(Rule)
<1>1. Final(mark) \in {"vpn_return", "local_return"} /\ "fqdn" \in SetName
  BY DEF Final, SetName
<1> DEFINE act == Final(mark)
<1> HIDE DEF act
<1>2. [i \in 1..Len(names) |-> <<from, names[i], act>>] \in Seq(Rule)
  BY ZenonT(40), <1>1, RowCons DEF act
<1> QED BY <1>2 DEF Rows, act

\* A chain that leaves the same mark, whatever the packet had before
Leads(chain, sets, p, mark) ==
    chain \in Seq(Rule) /\ \A was : MarkBy(chain, sets, p, was) = mark

\* The rules on the sources and the last one: every packet gets a mark.
LEMMA PairsLead ==
    ASSUME NEW from \in {"any", "device", "lan", "host"}, NEW pol \in Policy,
           NEW sets \in [SetName -> SUBSET To], NEW p \in Packet, Sees(from, p)
    PROVE  Leads(Pairs(from, MatchSets(pol), Matched(pol)) \o << <<from, "any", Other(pol)>> >>,
                 sets, p, IF Named(MatchSets(pol), sets, p) THEN Matched(pol) ELSE Other(pol))
<1> DEFINE n == MatchSets(pol)
           m == Matched(pol)
           o == Other(pol)
           last == << <<from, "any", o>> >>
<1>1. n \in Seq(SetName) /\ m \in {"vpn", "local"} /\ o \in {"vpn", "local"}
  BY MatchSetsType, MarksType
<1>2. last \in Seq(Rule) /\ \A was : MarkBy(last, sets, p, was) = o
  <2> DEFINE z == << <<from, "any", o>> >>
  <2> HIDE DEF o
  <2>1. z \in Seq(Rule) /\ \A was : MarkBy(z, sets, p, was) = IF Sees(from, p) THEN o ELSE was
    <3>1. o \in {"vpn", "local"}
      BY <1>1
    <3> QED BY SMTT(30), <3>1, LastRule
  <2> QED BY <2>1 DEF o
<1>3. ASSUME NEW was
      PROVE  MarkBy(Pairs(from, n, m) \o last, sets, p, was)
               = IF Named(n, sets, p) THEN m ELSE MarkBy(last, sets, p, was)
  <2> HIDE DEF last, m
  <2> QED BY <1>1, <1>2, SourcesMark
<1> HIDE DEF n, m, o, last
<1>4. Pairs(from, n, m) \in Seq(Rule)
  BY <1>1, PairsType
<1>5. Pairs(from, n, m) \o last \in Seq(Rule)
  BY <1>2, <1>4, Concat
<1> QED BY <1>2, <1>3, <1>5 DEF n, m, o, last, Leads

LEMMA RowsLead ==
    ASSUME NEW from \in {"any", "device", "lan", "host"}, NEW pol \in Policy,
           NEW sets \in [SetName -> SUBSET To], NEW p \in Packet, Sees(from, p)
    PROVE  Leads(Rows(from, MatchSets(pol), Matched(pol)) \o << <<from, "any", Other(pol)>> >>,
                 sets, p, IF Named(MatchSets(pol), sets, p) THEN Matched(pol) ELSE Other(pol))
<1> DEFINE n == MatchSets(pol)
           m == Matched(pol)
           o == Other(pol)
           last == << <<from, "any", o>> >>
<1>1. n \in Seq(SetName) /\ m \in {"vpn", "local"} /\ o \in {"vpn", "local"}
  BY MatchSetsType, MarksType
<1>2. last \in Seq(Rule) /\ \A was : MarkBy(last, sets, p, was) = o
  <2> DEFINE z == << <<from, "any", o>> >>
  <2> HIDE DEF o
  <2>1. z \in Seq(Rule) /\ \A was : MarkBy(z, sets, p, was) = IF Sees(from, p) THEN o ELSE was
    <3>1. o \in {"vpn", "local"}
      BY <1>1
    <3> QED BY SMTT(30), <3>1, LastRule
  <2> QED BY <2>1 DEF o
<1>3. ASSUME NEW was
      PROVE  MarkBy(Rows(from, n, m) \o last, sets, p, was)
               = IF Named(n, sets, p) THEN m ELSE MarkBy(last, sets, p, was)
  <2> HIDE DEF last, m
  <2> QED BY <1>1, <1>2, SourcesMark
<1> HIDE DEF n, m, o, last
<1>4. Rows(from, n, m) \in Seq(Rule)
  BY <1>1, RowsType
<1>5. Rows(from, n, m) \o last \in Seq(Rule)
  BY <1>2, <1>4, Concat
<1> QED BY <1>2, <1>3, <1>5 DEF n, m, o, last, Leads

\* What the chains of a plan make of a forwarded packet
LEMMA PreMark ==
    ASSUME NEW pol \in Policy, NEW sets \in [SetName -> SUBSET To], NEW p \in Packet,
           p[1] \in Lan, NEW before
    PROVE  LET then == IF p[2] = pol.node THEN before
                       ELSE IF p[1] = "device" /\ pol.forced # "none" THEN pol.forced
                       ELSE IF Named(MatchSets(pol), sets, p) THEN Matched(pol) ELSE Other(pol)
           IN /\ MarkBy(MarkRules(pol), sets, p, before) = then
              /\ MarkBy(MarkRulesNft(pol), sets, p, before) = then
<1> DEFINE e == <<"any", pol.node, "return">>
           d == <<"device", "any", pol.forced>>
           r == <<"device", "any", "return">>
           f == <<"device", "any", Final(pol.forced)>>
           n == MatchSets(pol)
           last == << <<"lan", "any", Other(pol)>> >>
           a == Pairs("lan", n, Matched(pol)) \o last
           b == Rows("lan", n, Matched(pol)) \o last
           named == IF Named(n, sets, p) THEN Matched(pol) ELSE Other(pol)
           device == IF p[1] = "device" /\ pol.forced # "none" THEN pol.forced ELSE named
           da == IF pol.forced = "none" THEN a ELSE <<d>> \o (<<r>> \o a)
           db == IF pol.forced = "none" THEN b ELSE <<f>> \o b
<1>0. /\ n \in Seq(SetName) /\ Matched(pol) \in {"vpn", "local"} /\ last \in Seq(Rule)
      /\ Rows("lan", n, Matched(pol)) \in Seq(Rule)
  <2>1. n \in Seq(SetName) /\ Matched(pol) \in {"vpn", "local"} /\ Other(pol) \in {"vpn", "local"}
    BY MatchSetsType, MarksType
  <2>2. last \in Seq(Rule)
    BY <2>1, LastRule
  <2>3. Rows("lan", n, Matched(pol)) \in Seq(Rule)
    <3> HIDE DEF n
    <3> QED BY <2>1, RowsType
  <2> QED BY <2>1, <2>2, <2>3
<1>1. Sees("lan", p) /\ (Sees("device", p) <=> p[1] = "device")
  BY DEF Sees, Lan
<1>2. /\ a \in Seq(Rule) /\ b \in Seq(Rule)
      /\ \A was : MarkBy(a, sets, p, was) = named
      /\ \A was : MarkBy(b, sets, p, was) = named
  <2>1. Leads(a, sets, p, named)
    BY <1>1, PairsLead
  <2>2. Leads(b, sets, p, named)
    BY <1>1, RowsLead
  <2> QED BY <2>1, <2>2 DEF Leads
<1>3. /\ e \in Rule /\ r \in Rule /\ pol.forced \in {"none", "local", "vpn"} /\ pol.node \in Node
      /\ pol.forced # "none" => d \in Rule /\ f \in Rule
  BY DEF Rule, Policy, Final
<1>4. /\ Hit(e, sets, p) <=> p[2] = pol.node
      /\ Hit(d, sets, p) <=> p[1] = "device"
      /\ Hit(r, sets, p) <=> p[1] = "device"
      /\ Hit(f, sets, p) <=> p[1] = "device"
  BY <1>1, <1>3, HitRules
<1>5. /\ e[3] = "return" /\ r[3] = "return"
      /\ pol.forced # "none" =>
            /\ d[3] \in {"vpn", "local"} /\ f[3] \in {"vpn_return", "local_return"}
            /\ MarkOf(d) = pol.forced /\ MarkOf(f) = pol.forced
  BY <1>3 DEF MarkOf, Final
<1>6. MarkRules(pol) = <<e>> \o da
  <2> DEFINE first == <<e>>
             dev == IF pol.forced = "none" THEN <<>> ELSE <<d, r>>
             pairs == Pairs("lan", n, Matched(pol))
  <2>1. MarkRules(pol) = ((first \o dev) \o pairs) \o last
    BY DEF MarkRules
  <2>2. pairs \in Seq(Rule) /\ last \in Seq(Rule)
    BY <1>0, PairsType
  <2>3. dev \in Seq(Rule) /\ dev \o a = da
    <3> HIDE DEF a, d, r
    <3>1. CASE pol.forced = "none"
      BY <3>1, <1>2
    <3>2. CASE pol.forced # "none"
      <4>1. <<d, r>> \o a = <<d>> \o (<<r>> \o a) /\ <<d, r>> \in Seq(Rule)
        BY <3>2, <1>2, <1>3, TwoRules
      <4> QED BY <4>1, <3>2
    <3> QED BY <3>1, <3>2
  <2>4. first \in Seq(Rule)
    BY <1>3, Single
  <2> HIDE DEF dev, pairs, last, da, first
  <2>5. ((first \o dev) \o pairs) \o last = first \o (dev \o (pairs \o last))
    <3>1. first \in Seq(Rule) /\ dev \in Seq(Rule) /\ pairs \in Seq(Rule) /\ last \in Seq(Rule)
      BY <2>2, <2>3, <2>4
    <3>2. first \o dev \in Seq(Rule) /\ pairs \o last \in Seq(Rule)
      BY <3>1, Joins
    <3>3. ((first \o dev) \o pairs) \o last = (first \o dev) \o (pairs \o last)
      BY <3>1, <3>2, Joins
    <3>4. (first \o dev) \o (pairs \o last) = first \o (dev \o (pairs \o last))
      BY SMTT(30), <3>1, <3>2, Joins
    <3> QED BY <3>3, <3>4
  <2>6. a = pairs \o last
    BY DEF pairs
  <2> QED BY <2>1, <2>3, <2>5, <2>6 DEF first
<1>7. MarkRulesNft(pol) = <<e>> \o db
  <2> DEFINE first == <<e>>
             dev == IF pol.forced = "none" THEN <<>> ELSE <<f>>
             rows == Rows("lan", n, Matched(pol))
  <2>1. MarkRulesNft(pol) = ((first \o dev) \o rows) \o last
    BY DEF MarkRulesNft, Rows
  <2>2. rows \in Seq(Rule) /\ last \in Seq(Rule)
    BY <1>0
  <2>3. dev \in Seq(Rule) /\ dev \o b = db
    <3> HIDE DEF b, f
    <3>1. CASE pol.forced = "none"
      BY <3>1, <1>2
    <3>2. CASE pol.forced # "none"
      BY <3>2, <1>2, <1>3, Single
    <3> QED BY <3>1, <3>2
  <2>4. first \in Seq(Rule)
    BY <1>3, Single
  <2> HIDE DEF dev, rows, last, db, first
  <2>5. ((first \o dev) \o rows) \o last = first \o (dev \o (rows \o last))
    <3>1. first \in Seq(Rule) /\ dev \in Seq(Rule) /\ rows \in Seq(Rule) /\ last \in Seq(Rule)
      BY <2>2, <2>3, <2>4
    <3>2. first \o dev \in Seq(Rule) /\ rows \o last \in Seq(Rule)
      BY <3>1, Joins
    <3>3. ((first \o dev) \o rows) \o last = (first \o dev) \o (rows \o last)
      BY <3>1, <3>2, Joins
    <3>4. (first \o dev) \o (rows \o last) = first \o (dev \o (rows \o last))
      BY SMTT(30), <3>1, <3>2, Joins
    <3> QED BY <3>3, <3>4
  <2>6. b = rows \o last
    BY DEF rows
  <2> QED BY <2>1, <2>3, <2>5, <2>6 DEF first
<1> HIDE DEF e, d, r, f, a, b, named, last, n
<1>8. /\ da \in Seq(Rule) /\ db \in Seq(Rule)
      /\ MarkBy(da, sets, p, before) = device /\ MarkBy(db, sets, p, before) = device
  <2>1. CASE pol.forced = "none"
    BY <1>2, <2>1
  <2>2. CASE pol.forced # "none"
    <3> DEFINE more == <<r>> \o a
    <3>1. more \in Seq(Rule) /\ <<d>> \o more \in Seq(Rule) /\ <<f>> \o b \in Seq(Rule)
      BY <1>2, <1>3, <2>2, Single, Concat
    <3>2. ASSUME NEW was
          PROVE  MarkBy(more, sets, p, was) = IF p[1] = "device" THEN was ELSE named
      BY <1>2, <1>3, <1>4, <1>5, HeadRule
    <3> HIDE DEF more
    <3>3. MarkBy(<<d>> \o more, sets, p, before)
            = MarkBy(more, sets, p, IF Hit(d, sets, p) THEN MarkOf(d) ELSE before)
      BY <1>3, <1>5, <2>2, <3>1, HeadRule
    <3>4. MarkBy(<<d>> \o more, sets, p, before) = device
      BY <1>4, <1>5, <2>2, <3>2, <3>3
    <3>5. MarkBy(<<f>> \o b, sets, p, before)
            = IF Hit(f, sets, p) THEN MarkOf(f) ELSE MarkBy(b, sets, p, before)
      BY <1>2, <1>3, <1>5, <2>2, HeadRule
    <3>6. MarkBy(<<f>> \o b, sets, p, before) = device
      BY <1>2, <1>4, <1>5, <2>2, <3>5
    <3> QED BY <2>2, <3>1, <3>4, <3>6 DEF more
  <2> QED BY <2>1, <2>2
<1> HIDE DEF da, db, device
<1>9. /\ MarkBy(<<e>> \o da, sets, p, before) = IF p[2] = pol.node THEN before ELSE device
      /\ MarkBy(<<e>> \o db, sets, p, before) = IF p[2] = pol.node THEN before ELSE device
  BY <1>3, <1>4, <1>5, <1>8, HeadRule
<1> QED BY <1>6, <1>7, <1>9 DEF device, named, n

\* ... and of one that the host sends itself
LEMMA OutMark ==
    ASSUME NEW pol \in Policy, NEW sets \in [SetName -> SUBSET To], NEW p \in Packet,
           p[1] = "host", NEW before
    PROVE  LET then == IF p[2] = pol.node \/ ~pol.host THEN before
                       ELSE IF Named(MatchSets(pol), sets, p) THEN Matched(pol) ELSE Other(pol)
           IN /\ MarkBy(OutputRules(pol), sets, p, before) = then
              /\ MarkBy(OutputRulesNft(pol), sets, p, before) = then
<1> DEFINE e == <<"any", pol.node, "return">>
           n == MatchSets(pol)
           last == << <<"host", "any", Other(pol)>> >>
           pairs == Pairs("host", n, Matched(pol)) \o last
           rows == Rows("host", n, Matched(pol)) \o last
           a == IF ~pol.host THEN <<>> ELSE pairs
           b == IF ~pol.host THEN <<>> ELSE rows
           named == IF Named(n, sets, p) THEN Matched(pol) ELSE Other(pol)
<1>1. Sees("host", p)
  BY DEF Sees
<1>7. /\ pairs \in Seq(Rule) /\ rows \in Seq(Rule)
      /\ \A was : MarkBy(pairs, sets, p, was) = named
      /\ \A was : MarkBy(rows, sets, p, was) = named
  <2>1. Leads(pairs, sets, p, named)
    BY <1>1, PairsLead
  <2>2. Leads(rows, sets, p, named)
    BY <1>1, RowsLead
  <2> QED BY <2>1, <2>2 DEF Leads
<1>2. /\ a \in Seq(Rule) /\ b \in Seq(Rule)
      /\ MarkBy(a, sets, p, before) = IF ~pol.host THEN before ELSE named
      /\ MarkBy(b, sets, p, before) = IF ~pol.host THEN before ELSE named
  <2>1. CASE pol.host
    <3>2. a = pairs /\ b = rows
      BY <2>1
    <3> HIDE DEF a, b, pairs, rows, named
    <3> QED BY <2>1, <1>7, <3>2
  <2>2. CASE ~pol.host
    <3>1. a = <<>> /\ b = <<>> /\ <<>> \in Seq(Rule)
      BY <2>2
    <3> HIDE DEF a, b, named
    <3> QED BY <2>2, <3>1, NoMark
  <2> QED BY <2>1, <2>2
<1>3. e \in Rule /\ e[3] = "return" /\ pol.node \in Node
  BY DEF Rule, Policy
<1>4. Hit(e, sets, p) <=> p[2] = pol.node
  BY ZenonT(40), <1>3, HitRules
<1>5. OutputRules(pol) = <<e>> \o a /\ OutputRulesNft(pol) = <<e>> \o b
  BY DEF OutputRules, OutputRulesNft, Rows
<1> HIDE DEF e, a, b, named
<1>6. /\ MarkBy(<<e>> \o a, sets, p, before)
           = IF p[2] = pol.node THEN before ELSE MarkBy(a, sets, p, before)
      /\ MarkBy(<<e>> \o b, sets, p, before)
           = IF p[2] = pol.node THEN before ELSE MarkBy(b, sets, p, before)
  BY <1>2, <1>3, <1>4, HeadRule
<1> QED BY <1>2, <1>5, <1>6 DEF named

---------------------------------------------------------------------------
(* Where a complete plan sends a packet                                     *)

LEMMA PlanSets ==
    ASSUME RoutingInv, done = "plan", Quiet
    PROVE  /\ kernel.set[Stack(PlanRows)] \in [SetName -> SUBSET To]
           /\ \A p : Named(MatchSets(PlanRows), kernel.set[Stack(PlanRows)], p) <=> Listed(p, PlanRows)
<1> DEFINE sets == kernel.set[Stack(PlanRows)]
           names == MatchSets(PlanRows)
<1>1. sets \in [SetName -> SUBSET To]
  <2>1. kernel.set \in [{"ipt", "nft"} -> [SetName -> SUBSET To]] /\ Stack(PlanRows) \in {"ipt", "nft"}
    BY DEF RoutingInv, TypeOK, Stack
  <2> QED BY <2>1
<1>2. \A s \in Static : sets[s] = Content(s, PlanRows)
  <2>1. turn \notin Worker
    BY ConstantsAssumption DEF Quiet, Worker
  <2> QED BY <2>1 DEF RoutingInv, Planned
<1>3. names \in Seq(SetName) /\ DOMAIN names = 1..Len(names)
  BY MatchSetsType
<1> HIDE DEF names, sets
<1>4. ASSUME NEW p, NEW i \in 1..Len(names)
      PROVE  p[2] \in sets[names[i]]
               <=> p[2] \in IF names[i] = "fqdn" THEN sets["fqdn"] ELSE Content(names[i], PlanRows)
  <2>1. names[i] \in SetName
    BY <1>3
  <2>2. names[i] = "fqdn" \/ names[i] \in Static
    BY <2>1 DEF SetName, Static
  <2> QED BY <2>2, <1>2
<1>5. ASSUME NEW p PROVE Named(names, sets, p) <=> Listed(p, PlanRows)
  BY <1>3, <1>4 DEF Named, Listed, names, sets
<1> QED BY <1>1, <1>5 DEF names, sets

LEMMA MarkPlanned ==
    ASSUME RoutingInv, done = "plan", Quiet, NEW p \in Packet
    PROVE  /\ Wanted(p, PlanRows) \in {"exempt", "local", "vpn"}
           /\ Mark(kernel, p) = IF Wanted(p, PlanRows) = "exempt" THEN "none" ELSE Wanted(p, PlanRows)
<1> DEFINE sets == kernel.set[Stack(PlanRows)]
           named == IF Named(MatchSets(PlanRows), sets, p) THEN Matched(PlanRows) ELSE Other(PlanRows)
           pre == IF p[2] = PlanRows.node THEN "none"
                  ELSE IF p[1] = "device" /\ PlanRows.forced # "none" THEN PlanRows.forced ELSE named
           out == IF p[2] = PlanRows.node \/ ~PlanRows.host THEN "none" ELSE named
<1>1. PlanRows \in Policy /\ Complete(kernel, PlanRows)
  <2>1. PlanRows \in Policy
    BY DEF RoutingInv, TypeOK, PlanRows, Policy
  <2> QED BY <2>1 DEF RoutingInv, Planned
<1>2. sets \in [SetName -> SUBSET To] /\ (Named(MatchSets(PlanRows), sets, p) <=> Listed(p, PlanRows))
  BY PlanSets
<1>3. p[1] \in {"client", "device", "host"}
  BY DEF Packet, From
<1>4. named \in {"local", "vpn"} /\ PlanRows.forced \in {"none", "local", "vpn"}
  BY <1>1, MarksType DEF Policy
<1>5. ASSUME p[1] \in Lan
      PROVE  /\ MarkBy(MarkRules(PlanRows), sets, p, "none") = pre
             /\ MarkBy(MarkRulesNft(PlanRows), sets, p, "none") = pre
  <2> HIDE DEF sets
  <2> QED BY <1>1, <1>2, <1>5, PreMark
<1>6. ASSUME p[1] = "host"
      PROVE  /\ MarkBy(OutputRules(PlanRows), sets, p, "none") = out
             /\ MarkBy(OutputRulesNft(PlanRows), sets, p, "none") = out
  <2> HIDE DEF sets
  <2> QED BY <1>1, <1>2, <1>6, OutMark
<1>7. Wanted(p, PlanRows) = IF p[1] = "host"
                         THEN IF p[2] = PlanRows.node \/ ~PlanRows.host THEN "exempt" ELSE named
                         ELSE IF p[2] = PlanRows.node THEN "exempt"
                         ELSE IF p[1] = "device" /\ PlanRows.forced # "none" THEN PlanRows.forced ELSE named
  <2> HIDE DEF sets
  <2> QED BY <1>2 DEF Wanted
<1>8. Mark(kernel, p) = IF p[1] = "host" THEN out ELSE pre
  <2> HIDE DEF out, pre
  <2>1. ASSUME p[1] = "host" PROVE Mark(kernel, p) = out
    <3>1. Mark(kernel, p) = MarkBy(kernel.chain["nftout"], kernel.set.nft, p,
                                   MarkBy(kernel.chain["out"], kernel.set.ipt, p, "none"))
      BY <2>1 DEF Mark
    <3>2. CASE PlanRows.nft
      <4>1. kernel.chain["out"] = <<>> /\ kernel.chain["nftout"] = OutputRulesNft(PlanRows)
        BY <1>1, <3>2 DEF Complete, Marked
      <4>2. sets = kernel.set.nft
        BY <3>2 DEF Stack
      <4> QED BY <3>1, <4>1, <4>2, <1>6, <2>1, NoMark
    <3>3. CASE ~PlanRows.nft
      <4>1. kernel.chain["nftout"] = <<>> /\ kernel.chain["out"] = OutputRules(PlanRows)
        BY <1>1, <3>3 DEF Complete, Marked
      <4>2. sets = kernel.set.ipt
        BY <3>3 DEF Stack
      <4> QED BY <3>1, <4>1, <4>2, <1>6, <2>1, NoMark
    <3> QED BY <3>2, <3>3
  <2>2. ASSUME p[1] # "host" PROVE Mark(kernel, p) = pre
    <3>0. p[1] \in Lan
      BY <1>3, <2>2 DEF Lan
    <3>1. Mark(kernel, p) = MarkBy(kernel.chain["nftpre"], kernel.set.nft, p,
                                   MarkBy(kernel.chain["pre"], kernel.set.ipt, p, "none"))
      BY <2>2 DEF Mark
    <3>2. CASE PlanRows.nft
      <4>1. kernel.chain["pre"] = <<>> /\ kernel.chain["nftpre"] = MarkRulesNft(PlanRows)
        BY <1>1, <3>2 DEF Complete, Marked
      <4>2. sets = kernel.set.nft
        BY <3>2 DEF Stack
      <4> QED BY <3>0, <3>1, <4>1, <4>2, <1>5, NoMark
    <3>3. CASE ~PlanRows.nft
      <4>1. kernel.chain["nftpre"] = <<>> /\ kernel.chain["pre"] = MarkRules(PlanRows)
        BY <1>1, <3>3 DEF Complete, Marked
      <4>2. sets = kernel.set.ipt
        BY <3>3 DEF Stack
      <4> QED BY <3>0, <3>1, <4>1, <4>2, <1>5, NoMark
    <3> QED BY <3>2, <3>3
  <2> QED BY <2>1, <2>2
<1> HIDE DEF named
<1> QED BY <1>3, <1>4, <1>7, <1>8

\* The filter of a plan: at most one of its rules concerns a packet.
LEMMA FilterPlan ==
    ASSUME NEW k, NEW pol, k.chain["forward"] = ForwardRules \o KillRules(pol), NEW p
    PROVE  /\ Exit(k, p) = "phys" /\ Mark(k, p) \in {"local", "none"} => ~Dropped(k, p)
           /\ Exit(k, p) = "tunnel" => ~Dropped(k, p)
           /\ Exit(k, p) = "phys" /\ Mark(k, p) = "vpn" /\ pol.kill /\ p[1] \in Lan => Dropped(k, p)
<1> DEFINE rules == k.chain["forward"]
           hits == {i \in 1..Len(rules) : /\ rules[i][1] = Exit(k, p)
                                          /\ rules[i][2] \in {"any", Mark(k, p)}}
           first == CHOOSE i \in hits : \A j \in hits : i <= j
<1>1. Dropped(k, p) <=> p[1] \in Lan /\ hits # {} /\ rules[first][3] = "drop"
  BY DEF Dropped
<1>2. /\ Len(rules) = (IF pol.kill THEN 3 ELSE 2)
      /\ rules[1] = <<"phys", "local", "accept">> /\ rules[2] = <<"tunnel", "vpn", "accept">>
      /\ pol.kill => rules[3] = <<"phys", "vpn", "drop">>
  <2> DEFINE a == <<"phys", "local", "accept">>
             b == <<"tunnel", "vpn", "accept">>
             c == <<"phys", "vpn", "drop">>
             r == IF pol.kill THEN <<c>> ELSE <<>>
             S == {a, b, c}
  <2>1. rules = <<a, b>> \o r
    BY DEF ForwardRules, KillRules
  <2>2. a \in S /\ b \in S /\ c \in S
    OBVIOUS
  <2> HIDE DEF a, b, c, rules, S
  <2>3. r \in Seq(S) /\ Len(r) = (IF pol.kill THEN 1 ELSE 0) /\ (pol.kill => r[1] = c)
    BY <2>2
  <2> DEFINE br == <<b>> \o r
  <2> HIDE DEF r
  <2>4. br \in Seq(S) /\ Len(br) = 1 + Len(r) /\ br[1] = b /\ \A i \in 1..Len(r) : br[1 + i] = r[i]
    BY <2>2, <2>3, Prefixed
  <2>5. rules = <<a>> \o br
    <3>1. r \in Seq(S)
      BY <2>3
    <3>2. <<a, b>> \o r = <<a>> \o (<<b>> \o r) /\ <<a, b>> \in Seq(S)
      BY <2>2, <3>1, TwoRules
    <3> QED BY <2>1, <3>2 DEF br
  <2> HIDE DEF br
  <2>6. Len(rules) = 1 + Len(br) /\ rules[1] = a /\ \A i \in 1..Len(br) : rules[1 + i] = br[i]
    BY <2>2, <2>4, <2>5, Prefixed
  <2>7. Len(rules) = (IF pol.kill THEN 3 ELSE 2) /\ Len(br) = (IF pol.kill THEN 2 ELSE 1)
    BY <2>3, <2>4, <2>6
  <2>8. rules[2] = b
    <3>1. 1 \in 1..Len(br) /\ 1 + 1 = 2
      BY <2>7
    <3> QED BY <3>1, <2>4, <2>6
  <2>9. ASSUME pol.kill PROVE rules[3] = c
    <3>1. 1 \in 1..Len(r) /\ 2 \in 1..Len(br) /\ 1 + 1 = 2 /\ 1 + 2 = 3
      BY <2>3, <2>7, <2>9
    <3> QED BY <3>1, <2>3, <2>4, <2>6, <2>9
  <2> QED BY <2>6, <2>7, <2>8, <2>9 DEF a, b, c
<1> HIDE DEF rules
<1>0. /\ rules[1][3] = "accept" /\ rules[2][3] = "accept"
      /\ pol.kill => rules[3][3] = "drop"
  BY <1>2
<1>3. /\ hits \subseteq {1, 2, 3}
      /\ 1 \in hits <=> Exit(k, p) = "phys" /\ Mark(k, p) = "local"
      /\ 2 \in hits <=> Exit(k, p) = "tunnel" /\ Mark(k, p) = "vpn"
      /\ 3 \in hits <=> pol.kill /\ Exit(k, p) = "phys" /\ Mark(k, p) = "vpn"
  <2>1. 1 \in 1..Len(rules) /\ 2 \in 1..Len(rules) /\ (3 \in 1..Len(rules) <=> pol.kill)
    BY <1>2
  <2>2. 1..Len(rules) \subseteq {1, 2, 3}
    BY <1>2
  <2>3. Mark(k, p) # "any"
    <3>1. \A rs, ss, q, w : w # "any" => MarkBy(rs, ss, q, w) # "any"
      BY DEF MarkBy
    <3> QED BY <3>1 DEF Mark
  <2> QED BY <1>2, <2>1, <2>2
<1>4. \A h : hits = {h} => first = h
  <2> SUFFICES ASSUME NEW h, hits = {h} PROVE first = h
    OBVIOUS
  <2>1. h \in {1, 2, 3}
    BY <1>3
  <2>2. \A i \in hits : \A j \in hits : i <= j
    BY <2>1
  <2> QED BY <2>2
<1> HIDE DEF hits, first
<1>5. ASSUME Exit(k, p) = "phys", Mark(k, p) \in {"local", "none"} PROVE ~Dropped(k, p)
  <2>1. hits = {} \/ hits = {1}
    BY <1>3, <1>5
  <2>2. hits = {1} => first = 1
    BY <1>4
  <2> QED BY <2>1, <2>2, <1>0, <1>1
<1>6. ASSUME Exit(k, p) = "tunnel" PROVE ~Dropped(k, p)
  <2>1. hits = {} \/ hits = {2}
    BY <1>3, <1>6
  <2>2. hits = {2} => first = 2
    BY <1>4
  <2> QED BY <2>1, <2>2, <1>0, <1>1
<1>7. ASSUME Exit(k, p) = "phys", Mark(k, p) = "vpn", pol.kill, p[1] \in Lan PROVE Dropped(k, p)
  <2>1. hits = {3}
    BY <1>3, <1>7
  <2>2. first = 3
    BY <2>1, <1>4
  <2> QED BY <2>1, <2>2, <1>0, <1>1, <1>7
<1> QED BY <1>5, <1>6, <1>7

LEMMA FilterPass ==
    ASSUME NEW k, k.chain["forward"] = PassForward, NEW p, Exit(k, p) = "phys"
    PROVE  ~Dropped(k, p)
<1> DEFINE rules == k.chain["forward"]
           hits == {i \in 1..Len(rules) : /\ rules[i][1] = Exit(k, p)
                                          /\ rules[i][2] \in {"any", Mark(k, p)}}
           first == CHOOSE i \in hits : \A j \in hits : i <= j
<1>1. Dropped(k, p) <=> p[1] \in Lan /\ hits # {} /\ rules[first][3] = "drop"
  BY DEF Dropped
<1>2. Len(rules) = 1 /\ rules[1][1] = "phys" /\ rules[1][2] = "any" /\ rules[1][3] = "accept"
  BY DEF PassForward
<1> HIDE DEF rules
<1>3. hits = {1}
  BY <1>2
<1>4. first = 1
  BY <1>3
<1> QED BY <1>1, <1>2, <1>4

---------------------------------------------------------------------------
(* The properties *)

\* A complete plan routes every packet as the rows ask, with the server of its own node
\* exempt: see PlanFollowed.
THEOREM PlanCorrect == Spec => []PlanFollowed
<1>1. RoutingInv => PlanFollowed
  <2> SUFFICES ASSUME RoutingInv, done = "plan", Quiet, NEW p \in Packet
               PROVE  /\ Wanted(p, PlanRows) \in {"local", "exempt"} => Verdict(p) = "phys"
                      /\ Wanted(p, PlanRows) = "vpn" /\ kernel.vpn => Verdict(p) = "tunnel"
    BY DEF PlanFollowed, Packet
  <2>1. kernel.rules /\ kernel.chain["forward"] = ForwardRules \o KillRules(PlanRows)
    BY DEF RoutingInv, Planned, Complete
  <2>2. /\ Wanted(p, PlanRows) \in {"local", "exempt"} => Mark(kernel, p) \in {"local", "none"}
        /\ Wanted(p, PlanRows) = "vpn" => Mark(kernel, p) = "vpn"
    BY MarkPlanned
  <2>3. ASSUME Wanted(p, PlanRows) \in {"local", "exempt"} PROVE Verdict(p) = "phys"
    <3>1. Exit(kernel, p) = "phys"
      BY <2>2, <2>3 DEF Exit
    <3> QED BY <3>1, <2>1, <2>2, <2>3, FilterPlan DEF Verdict
  <2>4. ASSUME Wanted(p, PlanRows) = "vpn", kernel.vpn PROVE Verdict(p) = "tunnel"
    <3>1. Exit(kernel, p) = "tunnel"
      BY <2>1, <2>2, <2>4 DEF Exit
    <3> QED BY <3>1, <2>1, FilterPlan DEF Verdict
  <2> QED BY <2>3, <2>4
<1> QED BY <1>1, RoutingCorrect, PTL

\* The kill switch of a complete plan holds back what is not to leave directly.
THEOREM KillSwitchCorrect == Spec => []KillSwitchHolds
<1>1. RoutingInv => KillSwitchHolds
  <2> SUFFICES ASSUME RoutingInv, done = "plan", Quiet, saved.kill, NEW p \in Lan \X To,
                      Wanted(p, PlanRows) = "vpn"
               PROVE  Verdict(p) # "phys"
    BY DEF KillSwitchHolds
  <2>1. kernel.chain["forward"] = ForwardRules \o KillRules(PlanRows)
    BY DEF RoutingInv, Planned, Complete
  <2>0. PlanRows.kill
    BY DEF RoutingInv, TypeOK, Policy, PlanRows
  <2>2. p \in Packet /\ p[1] \in Lan
    BY DEF Packet, From, Lan
  <2>3. Mark(kernel, p) = "vpn"
    BY <2>2, MarkPlanned
  <2>4. CASE Exit(kernel, p) = "tunnel"
    BY <2>1, <2>4, FilterPlan DEF Verdict
  <2>5. CASE Exit(kernel, p) # "tunnel"
    <3>1. Exit(kernel, p) = "phys"
      BY <2>5 DEF Exit
    <3>2. Dropped(kernel, p)
      BY <3>1, <2>0, <2>1, <2>2, <2>3, FilterPlan
    <3> QED BY <3>2 DEF Verdict
  <2> QED BY <2>4, <2>5
<1> QED BY <1>1, RoutingCorrect, PTL

\* After a passthrough every packet of a client leaves directly.
THEOREM PassthroughCorrect == Spec => []PassthroughOpen
<1>1. RoutingInv => PassthroughOpen
  <2> SUFFICES ASSUME RoutingInv, done = "pass", NEW p \in Lan \X To PROVE Verdict(p) = "phys"
    BY DEF PassthroughOpen
  <2>1. ~kernel.rules /\ kernel.chain["forward"] = PassForward
    BY DEF RoutingInv, Passed
  <2>2. Exit(kernel, p) = "phys"
    BY <2>1 DEF Exit
  <2> QED BY <2>1, <2>2, FilterPass DEF Verdict
<1> QED BY <1>1, RoutingCorrect, PTL
=============================================================================
