----------------------------- MODULE EntryNodes -----------------------------
(***************************************************************************)
(* The entry nodes of awg-gateway: the rows of entry_nodes with their      *)
(* order, the active node in gateway_settings, the tunnel interface and    *)
(* the routing plan in the kernel, and the workers that change them in one *)
(* asyncio loop: the failover loop, the HTTP handlers of the node and      *)
(* settings routers, and the startup that restores the tunnel.             *)
(*                                                                         *)
(* A session reads rows first and writes the columns that it changed with  *)
(* a flush.  SQLite admits one open write transaction: a flush meanwhile   *)
(* ends in "database is locked", since it keeps main_write_lock while it   *)
(* waits and the holder needs that lock to commit.  A session closed       *)
(* without a commit is rolled back; the kernel and the memory are not.     *)
(***************************************************************************)
EXTENDS Integers, FiniteSets

CONSTANTS
    N,            \* node ids are 1..N
    Req,          \* slots for HTTP handlers that run at the same time
    Grace,        \* FAILOVER_DISCONNECT_GRACE in ticks of the clock
    Retries,      \* STARTUP_CONNECT_RETRIES
    Target,       \* who answers the probes of a node: its own server, the server
                  \* of any tunnel (same subnet), or a host outside ("public")
    Kinds,        \* kinds of request the operator issues
    Faults,       \* kinds of fault the environment produces
    MaxRequests,  \* bound on requests in a behaviour
    MaxFaults     \* bound on faults in a behaviour

RequestKinds == {"activate", "start", "stop", "delete", "up", "down", "enable",
                 "disable", "auto"}
FaultKinds == {"link", "start", "restart"}

ASSUME ConstantsAssumption ==
    /\ N \in Nat \ {0} /\ Grace \in Nat /\ Retries \in Nat \ {0}
    /\ MaxRequests \in Nat /\ MaxFaults \in Nat
    /\ Target \in {"own", "shared", "public"}
    /\ Kinds \subseteq RequestKinds /\ Faults \subseteq FaultKinds
    /\ "loop" \notin Req /\ "nobody" \notin Req

VARIABLES
    row,      \* committed rows of entry_nodes
    cfg,      \* committed gateway_settings: active node, gateway and failover on
    txn,      \* the open write transaction, if any
    kernel,   \* tunnel interface, default route through it, routing plan
    status,   \* tunnel runtime state in memory
    since,    \* failover_state.unhealthy_since as an age in ticks, or NoTime
    work,     \* what each worker is doing
    alive,    \* nodes whose server passes traffic at present
    good,     \* history: ticks since a node was selected or seen healthy
    requests, faults   \* what is left of the bounds

bounds == <<requests, faults>>
vars   == <<row, cfg, txn, kernel, status, since, work, alive, good, bounds>>

---------------------------------------------------------------------------
(* Values *)

Node   == 1..N
None   == 0
NoTime == -1
Worker == Req \cup {"loop"}

Row   == [exists: BOOLEAN, pos: Nat, active: BOOLEAN]
NoRow == [exists |-> FALSE, pos |-> 0, active |-> FALSE]
Rows  == [Node -> Row]

Config == [sel: Node \cup {None}, on: BOOLEAN, auto: BOOLEAN]

Txn   == [by: Worker \cup {"nobody"}, row: Rows, sel: Node \cup {None}]
NoTxn == [by |-> "nobody", row |-> [n \in Node |-> NoRow], sel |-> None]

\* plan: the node that the marking rules exempt, None for local passthrough
Kernel == [link: Node \cup {None}, route: BOOLEAN, plan: Node \cup {None}]

Work == [kind: {"idle", "loop", "boot", "over", "activate", "start", "delete",
                "up", "down", "enable", "disable"},
         pc: {"idle", "look", "probe", "judge", "order", "choose", "start",
              "try", "assign", "plan", "end", "write"},
         node: Node \cup {None}, sel: Node \cup {None}, row: Rows,
         todo: SUBSET Node, try: 0..Retries, ok: BOOLEAN]
Idle == [kind |-> "idle", pc |-> "idle", node |-> None, sel |-> None,
         row |-> [n \in Node |-> NoRow], todo |-> {}, try |-> 0, ok |-> FALSE]

---------------------------------------------------------------------------
(* The order of nodes *)

Existing(rw) == {n \in Node : rw[n].exists}

\* list_nodes_in_order: by position, then by id
Before(rw, m, n) == rw[m].pos < rw[n].pos \/ (rw[m].pos = rw[n].pos /\ m < n)
First(S, rw)     == {m \in S : \A x \in S \ {m} : Before(rw, m, x)}
Index(rw, n)     == Cardinality({m \in Existing(rw) : Before(rw, m, n)})

Last(rw) == {m \in Existing(rw) : \A x \in Existing(rw) \ {m} : Before(rw, x, m)}

\* normalize_node_order: what the session has in memory afterwards.  The query
\* gives the order; a node that the session loaded before keeps the columns read
\* then, and old are the columns as the session knows them.
Listed(now, old) ==
    [n \in Node |-> IF ~now[n].exists THEN NoRow
                    ELSE [exists |-> TRUE, pos |-> Index(now, n), active |-> old[n].active]]

\* A flush updates the columns in which new differs from old.
Merged(now, old, new) ==
    [n \in Node |-> IF ~now[n].exists THEN NoRow
        ELSE [now[n] EXCEPT !.pos    = IF new[n].pos = old[n].pos THEN @ ELSE new[n].pos,
                            !.active = IF new[n].active = old[n].active THEN @
                                       ELSE new[n].active]]

\* Mutant of Reordered: normalising is not flushed on its own
ReorderedOnce(now, old, new) == Merged(now, old, new)

\* Normalising is flushed before the new values are set.
Reordered(now, old, new) ==
    LET l == Listed(now, old) IN Merged(Merged(now, old, l), l, new)

\* assign_active_node: the node goes first and the others follow in their order
Assigned(rw, n) ==
    [m \in Node |->
        IF ~rw[m].exists THEN NoRow
        ELSE [exists |-> TRUE, active |-> m = n,
              pos |-> IF m = n THEN 0
                      ELSE Index(rw, m) + IF Before(rw, m, n) THEN 1 ELSE 0]]

\* Mutant of Moved: no lower bound on the new place
MovedUnbounded(l, n, step) ==
    LET to == l[n].pos + step
    IN [m \in Node |-> IF m = n THEN [l[m] EXCEPT !.pos = to]
                       ELSE IF l[m].exists /\ l[m].pos = to
                       THEN [l[m] EXCEPT !.pos = l[n].pos] ELSE l[m]]

\* move_node_by_direction in a listed order: one place up or down, but not above
\* an active first node
Moved(l, n, step) ==
    LET to == l[n].pos + step
        stays == \/ to < 0 \/ to >= Cardinality(Existing(l))
                 \/ /\ to = 0 /\ ~l[n].active
                    /\ \E m \in Existing(l) : l[m].pos = 0 /\ l[m].active
    IN IF stays THEN l
       ELSE [m \in Node |-> IF m = n THEN [l[m] EXCEPT !.pos = to]
                            ELSE IF l[m].exists /\ l[m].pos = to
                            THEN [l[m] EXCEPT !.pos = l[n].pos] ELSE l[m]]

---------------------------------------------------------------------------
(* Tunnel and kernel *)

\* Deleting the interface takes the default route of the VPN table with it.
Down == [kernel EXCEPT !.link = None, !.route = FALSE]
UpFor(n) == [kernel EXCEPT !.link = n, !.route = FALSE]
Passthrough == [link |-> None, route |-> FALSE, plan |-> None]

\* apply_routing_plan raises unless the tunnel runs and has its interface
Planned(n) ==
    IF status = "running" /\ kernel.link # None
    THEN [kernel EXCEPT !.plan = n, !.route = TRUE] ELSE kernel

\* resolve_live_tunnel_status: the status in memory afterwards
Resolved == IF kernel.link # None THEN "running" ELSE status

\* probe_node_latency_details: a ping of the node's target through the interface
\* and, if that fails, by whatever route there is
Answers(n) ==
    \/ Target = "public"
    \/ kernel.link \in alive /\ (kernel.link = n \/ Target = "shared")

Fault(kind) == kind \in Faults /\ faults > 0 /\ faults' = faults - 1
Up == work["loop"].kind \notin {"boot", "over"}
Set(w, r) == work' = [work EXCEPT ![w] = r]
Dropped(w) == IF txn.by = w THEN NoTxn ELSE txn

\* Rows that a session loads, and every row as the session of w knows it
Load(S) == [m \in Node |-> IF m \in S THEN row[m] ELSE NoRow]
Held(w, now) == [m \in Node |-> IF work[w].row[m].exists THEN work[w].row[m] ELSE now[m]]

---------------------------------------------------------------------------
(* _failover_loop: evaluate_failover_health *)

\* The settings are read, and the live status is resolved in a thread.
LoopStart ==
    /\ work["loop"].pc = "idle"
    /\ status' = Resolved
    /\ Set("loop", [Idle EXCEPT !.kind = "loop", !.pc = "look", !.sel = cfg.sel,
                                !.node = IF cfg.auto /\ cfg.on THEN cfg.sel ELSE None])
    /\ UNCHANGED <<row, cfg, txn, kernel, since, alive, good, bounds>>

\* mark_failover_healthy when failover does not apply, else a probe of a tunnel
\* that runs; a tunnel that does not run is unhealthy without a probe.
LoopLook ==
    LET n == work["loop"].node
        watched == n # None /\ row[n].exists
    IN /\ work["loop"].pc = "look"
       /\ since' = IF watched THEN since ELSE NoTime
       /\ Set("loop", IF ~watched THEN Idle
                      ELSE [work["loop"] EXCEPT
                               !.pc = IF status = "running" THEN "probe" ELSE "judge",
                               !.row = Load({n})])
       /\ UNCHANGED <<row, cfg, txn, kernel, status, alive, good, bounds>>

LoopProbe ==
    /\ work["loop"].pc = "probe"
    /\ Set("loop", [work["loop"] EXCEPT !.pc = "judge", !.ok = Answers(work["loop"].node)])
    /\ UNCHANGED <<row, cfg, txn, kernel, status, since, alive, good, bounds>>

\* failover_state.unhealthy_since after an evaluation
Unhealthy(ok) == IF ok THEN NoTime ELSE IF since = NoTime THEN 0 ELSE since

\* The verdict on what was probed, with the failover state of this moment
LoopJudge ==
    LET w == work["loop"] IN
    /\ w.pc = "judge"
    /\ since' = Unhealthy(w.ok)
    /\ good' = IF w.ok THEN [good EXCEPT ![w.node] = 0] ELSE good
    /\ Set("loop", IF w.ok \/ since = NoTime \/ since < Grace THEN Idle
                   ELSE [w EXCEPT !.pc = "order"])
    /\ UNCHANGED <<row, cfg, txn, kernel, status, alive, bounds>>

---------------------------------------------------------------------------
(* failover_to_next_available and start_tunnel_with_retries, for the loop, *)
(* for the startup, and, with one node, for handlers.  No await separates  *)
(* a failed attempt from the next start: the cuts there only add           *)
(* behaviours.                                                             *)

\* Mutant of Candidates: only the nodes after the failed one are tried
LaterCandidates(rw, n) == {m \in Existing(rw) : Before(rw, n, m)}

Candidates(rw, n) == Existing(rw) \ {n}

\* The flush of normalize_node_order fails if another transaction is open.
TakeOrder(w) ==
    LET n   == work[w].node
        old == Held(w, row)
        l   == Listed(row, old)
        dense == \A m \in Existing(row) : l[m].pos = old[m].pos
    IN /\ work[w].pc = "order"
       /\ IF dense \/ txn.by = "nobody"
          THEN /\ txn' = IF dense THEN txn
                         ELSE [by |-> w, row |-> Merged(row, old, l), sel |-> cfg.sel]
               /\ Set(w, [work[w] EXCEPT !.pc = "choose", !.row = l,
                                         !.todo = Candidates(row, n)])
          ELSE Set(w, Idle) /\ UNCHANGED txn
       /\ UNCHANGED <<row, cfg, kernel, status, since, alive, good, bounds>>

Choose(w) ==
    /\ work[w].pc = "choose"
    /\ IF work[w].todo = {} THEN Set(w, [work[w] EXCEPT !.pc = "end"])
       ELSE \E c \in First(work[w].todo, work[w].row) :
              Set(w, [work[w] EXCEPT !.pc = "start", !.node = c, !.try = 1,
                                     !.todo = @ \ {c}])
    /\ UNCHANGED <<row, cfg, txn, kernel, status, since, alive, good, bounds>>

Searches(w) == work[w].kind \in {"loop", "over"}

\* The step after the last attempt: a candidate that fails makes room for the
\* next, a handler plans whenever the interface came up, and the startup turns
\* to failover when it did not.
AfterWon(w)  == [work[w] EXCEPT !.pc = IF Searches(w) THEN "assign" ELSE "plan"]
AfterLost(w) == [work[w] EXCEPT !.pc = IF Searches(w) THEN "choose" ELSE "plan"]
AfterFailed(w) ==
    IF Searches(w) THEN [work[w] EXCEPT !.pc = "choose"]
    ELSE IF work[w].kind = "boot" /\ cfg.auto
    THEN [work[w] EXCEPT !.kind = "over", !.pc = "order"]
    ELSE [work[w] EXCEPT !.pc = "end"]

\* start_tunnel, which does not await; a fault fails this attempt or all to come
StartTunnel(w) ==
    /\ work[w].pc = "start"
    /\ \/ /\ kernel' = UpFor(work[w].node) /\ status' = "running"
          /\ Set(w, [work[w] EXCEPT !.pc = "try"])
          /\ UNCHANGED faults
       \/ /\ Fault("start")
          /\ kernel' = Down /\ status' = "error"
          /\ \/ Set(w, AfterFailed(w))
             \/ work[w].try < Retries /\ Set(w, [work[w] EXCEPT !.try = @ + 1])
    /\ UNCHANGED <<row, cfg, txn, since, alive, good, requests>>

\* The probe through the new tunnel, in a thread
ProbeTunnel(w) ==
    LET won == Answers(work[w].node) IN
    /\ work[w].pc = "try"
    /\ status' = IF won THEN status ELSE "error"
    /\ Set(w, IF won THEN AfterWon(w)
              ELSE IF work[w].try < Retries
              THEN [work[w] EXCEPT !.pc = "start", !.try = @ + 1]
              ELSE AfterLost(w))
    /\ UNCHANGED <<row, cfg, txn, kernel, since, alive, good, bounds>>

\* Mutant of AssignedSince: the failover state is left alone
AssignedSinceKept == since

AssignedSince == NoTime

\* assign_active_node: the memory is reset before the flush, which fails if
\* another transaction is open or the node is gone.
Assign(w) ==
    LET n   == work[w].node
        now == IF txn.by = w THEN txn.row ELSE row
        old == Held(w, now)
        free == txn.by \in {w, "nobody"} /\ row[n].exists
    IN /\ work[w].pc = "assign"
       /\ since' = AssignedSince
       /\ good' = [good EXCEPT ![n] = 0]
       /\ IF free
          THEN /\ txn' = [by |-> w, row |-> Reordered(now, old, Assigned(now, n)),
                          sel |-> IF work[w].sel = n THEN cfg.sel ELSE n]
               /\ Set(w, [work[w] EXCEPT !.try = 1, !.pc =
                            IF Searches(w) THEN "plan"
                            ELSE IF work[w].ok THEN "start" ELSE "end"])
          ELSE txn' = Dropped(w) /\ Set(w, Idle)
       /\ UNCHANGED <<row, cfg, kernel, status, alive, bounds>>

ApplyPlan(w) ==
    /\ work[w].pc = "plan"
    /\ kernel' = Planned(work[w].node)
    /\ Set(w, [work[w] EXCEPT !.pc = "end"])
    /\ UNCHANGED <<row, cfg, txn, status, since, alive, good, bounds>>

\* get_db and _restore_runtime_state commit.  _run_db_cycle_with_retry commits
\* only what the last flush left behind, and assign_active_node leaves nothing:
\* the session of the loop is rolled back.
End(w) ==
    LET commits == txn.by = w /\ work[w].kind # "loop" IN
    /\ work[w].pc = "end"
    /\ row' = IF commits THEN txn.row ELSE row
    /\ cfg' = IF commits THEN [cfg EXCEPT !.sel = txn.sel] ELSE cfg
    /\ txn' = Dropped(w)
    /\ Set(w, Idle)
    /\ UNCHANGED <<kernel, status, since, alive, good, bounds>>

Continue(w) ==
    \/ TakeOrder(w) \/ Choose(w) \/ StartTunnel(w) \/ ProbeTunnel(w)
    \/ Assign(w) \/ ApplyPlan(w) \/ End(w)

LoopStep == LoopStart \/ LoopLook \/ LoopProbe \/ LoopJudge \/ Continue("loop")

---------------------------------------------------------------------------
(* HTTP handlers *)

Request(r, kind) ==
    /\ kind \in Kinds /\ Up /\ work[r].kind = "idle"
    /\ requests > 0 /\ requests' = requests - 1

Begun(kind, pc, n) == [Idle EXCEPT !.kind = kind, !.pc = pc, !.node = n,
                                   !.sel = cfg.sel, !.row = Load({n, cfg.sel})]

\* The tunnel is started below only if it was running
BeginActivate(r, n) ==
    /\ Request(r, "activate") /\ row[n].exists
    /\ status' = IF kernel.link # None THEN "running"
                 ELSE IF status = "running" THEN "stopped" ELSE status
    /\ Set(r, [Begun("activate", "assign", n) EXCEPT !.ok = cfg.on /\ kernel.link # None])
    /\ UNCHANGED <<row, cfg, txn, kernel, since, alive, good, faults>>

\* runtime/start
BeginStart(r) ==
    /\ Request(r, "start") /\ cfg.on /\ cfg.sel # None
    /\ Set(r, [Begun("start", "start", cfg.sel) EXCEPT !.try = 1])
    /\ UNCHANGED <<row, cfg, txn, kernel, status, since, alive, good, faults>>

\* runtime/stop
Stop(r) ==
    /\ Request(r, "stop")
    /\ kernel' = IF cfg.on THEN Down ELSE Passthrough
    /\ status' = "stopped"
    /\ UNCHANGED <<row, cfg, txn, since, work, alive, good, faults>>

\* delete_node stops the tunnel of the active node before it writes
BeginDelete(r, n) ==
    LET active == cfg.sel = n IN
    /\ Request(r, "delete") /\ row[n].exists
    /\ since' = IF active THEN NoTime ELSE since
    /\ kernel' = IF active /\ cfg.on THEN Down ELSE kernel
    /\ status' = IF active /\ cfg.on THEN "stopped" ELSE status
    /\ Set(r, Begun("delete", "write", n))
    /\ UNCHANGED <<row, cfg, txn, alive, good, faults>>

BeginMove(r, n, kind) ==
    /\ Request(r, kind) /\ kind \in {"up", "down"} /\ row[n].exists
    /\ Set(r, Begun(kind, "write", n))
    /\ UNCHANGED <<row, cfg, txn, kernel, status, since, alive, good, faults>>

\* Writing is refused while another transaction is open.
Write(r, kinds) ==
    /\ work[r].pc = "write" /\ work[r].kind \in kinds
    /\ Set(r, Idle)
    /\ UNCHANGED <<txn, kernel, status, since, alive, good, bounds>>

\* Mutant of Deselected: without the foreign key of gateway_settings, only the
\* choice that the handler read counts
DeselectedAsRead(n, read) == IF n = read THEN None ELSE cfg.sel

\* The foreign key of gateway_settings clears the active node as well
Deselected(n, read) == IF n \in {read, cfg.sel} THEN None ELSE cfg.sel

FinishDelete(r) ==
    LET n == work[r].node IN
    /\ Write(r, {"delete"})
    /\ IF txn.by = "nobody"
       THEN /\ row' = LET rest == [row EXCEPT ![n] = NoRow] IN Listed(rest, rest)
            /\ cfg' = [cfg EXCEPT !.sel = Deselected(n, work[r].sel)]
       ELSE UNCHANGED <<row, cfg>>

\* The session of move_node has loaded the node, not the active one.
FinishMove(r) ==
    LET n   == work[r].node
        old == [row EXCEPT ![n] = work[r].row[n]]
        new == Moved(Listed(row, old), n, IF work[r].kind = "up" THEN -1 ELSE 1)
    IN /\ Write(r, {"up", "down"})
       /\ row' = IF txn.by = "nobody" /\ row[n].exists THEN Reordered(row, old, new) ELSE row
       /\ UNCHANGED cfg

\* update_gateway_enabled commits first, then changes the kernel
BeginSwitch(r, kind) ==
    /\ Request(r, kind) /\ kind \in {"enable", "disable"}
    /\ IF txn.by = "nobody" \/ cfg.on = (kind = "enable")
       THEN /\ cfg' = [cfg EXCEPT !.on = (kind = "enable")]
            /\ Set(r, Begun(kind, "write", cfg.sel))
       ELSE UNCHANGED <<cfg, work>>
    /\ UNCHANGED <<row, txn, kernel, status, since, alive, good, faults>>

FinishEnable(r) ==
    LET n == work[r].node IN
    /\ work[r].pc = "write" /\ work[r].kind = "enable"
    /\ Set(r, Idle)
    /\ IF n = None \/ ~row[n].exists THEN UNCHANGED <<kernel, status, faults>>
       ELSE \/ /\ kernel' = [link |-> n, route |-> TRUE, plan |-> n]
               /\ status' = "running" /\ UNCHANGED faults
            \/ Fault("start") /\ kernel' = Down /\ status' = "error"
    /\ UNCHANGED <<row, cfg, txn, since, alive, good, requests>>

FinishDisable(r) ==
    /\ work[r].pc = "write" /\ work[r].kind = "disable"
    /\ kernel' = Passthrough /\ status' = "stopped"
    /\ Set(r, Idle)
    /\ UNCHANGED <<row, cfg, txn, since, alive, good, bounds>>

FinishRequest(r) ==
    \/ Continue(r)
    \/ FinishDelete(r) \/ FinishMove(r) \/ FinishEnable(r) \/ FinishDisable(r)

\* update_failover_settings resets the memory before its flush
SetFailover(r) ==
    /\ Request(r, "auto")
    /\ since' = IF cfg.auto THEN NoTime ELSE since
    /\ cfg' = IF txn.by = "nobody" THEN [cfg EXCEPT !.auto = ~@] ELSE cfg
    /\ UNCHANGED <<row, txn, kernel, status, work, alive, good, faults>>

\* import_node, which costs no request: SQLite gives the id after the highest one
Import(n) ==
    /\ Up /\ txn.by = "nobody"
    /\ \A m \in Existing(row) : m < n
    /\ n > 1 => row[n - 1].exists
    /\ \E p \in IF n = 1 THEN {0} ELSE {row[m].pos + 1 : m \in Last(row)} :
         row' = [row EXCEPT ![n] = [exists |-> TRUE, pos |-> p, active |-> FALSE]]
    /\ UNCHANGED <<cfg, txn, kernel, status, since, work, alive, good, bounds>>

---------------------------------------------------------------------------
(* Startup and the world outside *)

\* What is left of the kernel state: all of it after a crash, the plan if the
\* userspace daemon died with the process, nothing after a clean shutdown.
Leftover == {kernel, Down, Passthrough}

\* Startup passes traffic locally if the gateway is off, and otherwise restores
\* the tunnel of the active node before the loops and the server start.
Restart ==
    /\ Fault("restart")
    /\ kernel' \in IF cfg.on THEN Leftover ELSE {Passthrough}
    /\ status' = "stopped" /\ since' = NoTime /\ txn' = NoTxn
    /\ work' = [w \in Worker |->
         IF w = "loop" /\ cfg.on /\ cfg.sel # None
         THEN [Idle EXCEPT !.kind = "boot", !.pc = "start", !.node = cfg.sel,
                           !.sel = cfg.sel, !.row = Load({cfg.sel}), !.try = 1]
         ELSE Idle]
    /\ UNCHANGED <<row, cfg, alive, good, requests>>

\* Any other reader of the live status: the external IP loop, /api/system
Observe ==
    /\ Up /\ status' = Resolved
    /\ UNCHANGED <<row, cfg, txn, kernel, since, work, alive, good, bounds>>

LinkChange(n) ==
    /\ Fault("link")
    /\ alive' = IF n \in alive THEN alive \ {n} ELSE alive \cup {n}
    /\ UNCHANGED <<row, cfg, txn, kernel, status, since, work, good, requests>>

Older(t) == IF t = NoTime \/ t >= Grace THEN t ELSE t + 1

\* Time passes; ages stop at Grace.
Tick ==
    /\ since' = Older(since)
    /\ good' = [n \in Node |-> Older(good[n])]
    /\ UNCHANGED <<row, cfg, txn, kernel, status, work, alive, bounds>>

---------------------------------------------------------------------------
Init ==
    /\ row = [n \in Node |-> NoRow]
    /\ cfg \in {[sel |-> None, on |-> TRUE, auto |-> b] : b \in BOOLEAN}
    /\ txn = NoTxn /\ kernel = Passthrough /\ status = "stopped" /\ since = NoTime
    /\ work = [w \in Worker |-> Idle]
    /\ alive = Node /\ good = [n \in Node |-> 0]
    /\ requests = MaxRequests /\ faults = MaxFaults

Operator ==
    \/ \E r \in Req, n \in Node :
         \/ BeginActivate(r, n) \/ BeginDelete(r, n)
         \/ \E kind \in {"up", "down"} : BeginMove(r, n, kind)
    \/ \E r \in Req :
         \/ BeginStart(r) \/ Stop(r) \/ SetFailover(r)
         \/ \E kind \in {"enable", "disable"} : BeginSwitch(r, kind)
    \/ \E n \in Node : Import(n)

Outside == Restart \/ Observe \/ Tick \/ \E n \in Node : LinkChange(n)

Next == LoopStep \/ (\E r \in Req : FinishRequest(r)) \/ Operator \/ Outside

Spec == Init /\ [][Next]_vars

\* The loop runs every ten seconds for ever, handlers run on, time passes.
Fairness == /\ WF_vars(LoopStep)
            /\ \A r \in Req : WF_vars(FinishRequest(r))
            /\ WF_vars(Tick)

FairSpec == Spec /\ Fairness

---------------------------------------------------------------------------
(* Properties *)

Age == {NoTime} \cup 0..Grace

\* Every variable stays in its type.
TypeOK ==
    /\ row \in Rows /\ cfg \in Config /\ txn \in Txn /\ kernel \in Kernel
    /\ status \in {"stopped", "running", "error"}
    /\ since \in Age /\ work \in [Worker -> Work]
    /\ alive \in SUBSET Node /\ good \in [Node -> 0..Grace]
    /\ requests \in Nat /\ faults \in Nat

\* Each node has its own place in the order that failover follows, although
\* sessions write positions from columns that they loaded before other sessions
\* committed theirs.
OrderDistinct == \A m, n \in Existing(row) : row[m].pos = row[n].pos => m = n

\* The commits of all sessions together keep the line of EntryOrder: each appends,
\* removes, brings to the front or exchanges two neighbours, and the active node
\* stays one of the line, although a session computes positions from columns that
\* others have changed since and its transaction ends long after it has read.
Line == INSTANCE EntryOrder WITH
            nodes    <- Existing(row),
            ahead    <- {p \in Existing(row) \X Existing(row) : Before(row, p[1], p[2])},
            selected <- cfg.sel
KeepsLine == Line!Spec

\* gateway/docs/README_EN.md:411: failover has a grace period.  The loop leaves
\* a node only if, for the whole period, nobody selected that node and no
\* evaluation found it healthy, whatever handlers did to the shared failover
\* state between the probe and the verdict.
GraceRespected ==
    [][work["loop"].pc = "judge" /\ work'["loop"].pc = "order"
         => good[work["loop"].node] = Grace]_vars

Quiet == \A w \in Worker : work[w].pc = "idle"

\* gateway/docs/README_EN.md:399-403: the active node is the one stored in
\* gateway_settings, and the routing plan is built for it.
PlanIsOfActive == Quiet /\ kernel.route /\ cfg.sel # None => kernel.plan = cfg.sel

\* The active node is down for good and another one is up for good
Replaceable ==
    /\ cfg.on /\ cfg.auto /\ cfg.sel # None /\ cfg.sel \notin alive
    /\ \E n \in alive : row[n].exists

\* gateway/docs/README_EN.md:412: failover starts the next available node.
\* Again and again a node that is up carries the traffic by its own plan.
FailoverConnects ==
    <>[]Replaceable => []<>(/\ kernel.link \in alive /\ kernel.route
                            /\ kernel.plan = kernel.link)

=============================================================================
