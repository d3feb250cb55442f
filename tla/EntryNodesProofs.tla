-------------------------- MODULE EntryNodesProofs --------------------------
(* Theorems about EntryNodes and their proofs, for any number of nodes,    *)
(* handlers, retries, requests and faults, and for any grace period: first *)
(* types and the grace period, then that the commits of all sessions keep  *)
(* one line of nodes.                                                      *)
EXTENDS EntryNodes, FiniteSetTheorems, TLAPS

---------------------------------------------------------------------------
(* Operators that the actions are built from *)

\* The place of a node in the order is a natural number.
LEMMA IndexType ==
    ASSUME NEW rw, NEW n
    PROVE  Index(rw, n) \in Nat /\ Cardinality(Existing(rw)) \in Nat
<1> DEFINE S == {m \in Existing(rw) : Before(rw, m, n)}
<1>1. IsFiniteSet(Node)
  BY FS_Interval, ConstantsAssumption DEF Node
<1>2. S \in SUBSET Node /\ Existing(rw) \in SUBSET Node
  BY DEF Existing
<1>3. Cardinality(S) \in Nat /\ Cardinality(Existing(rw)) \in Nat
  <2> HIDE DEF S
  <2> QED  BY <1>1, <1>2, FS_Subset, FS_CardinalityType
<1> QED
  BY <1>3 DEF Index

\* The null values are values of their types.
LEMMA NullValues ==
    NoRow \in Row /\ NoTxn \in Txn /\ Idle \in Work /\ Passthrough \in Kernel
<1>1. NoRow \in Row
  BY DEF NoRow, Row
<1>2. [n \in Node |-> NoRow] \in Rows
  BY <1>1 DEF Rows
<1>3. NoTxn \in Txn
  BY <1>2 DEF NoTxn, Txn, None
<1>4. Idle \in Work
  BY <1>2, ConstantsAssumption DEF Idle, Work, None
<1>5. Passthrough \in Kernel
  BY DEF Passthrough, Kernel, None
<1> QED
  BY <1>1, <1>3, <1>4, <1>5

\* Listing, merging, selecting and moving nodes keeps the rows in their type.
LEMMA RowsType ==
    ASSUME NEW now \in Rows, NEW old \in Rows, NEW new \in Rows
    PROVE  /\ Listed(now, old) \in Rows
           /\ Merged(now, old, new) \in Rows
<1>1. Listed(now, old) \in Rows
  BY IndexType, NullValues DEF Listed, Rows, Row
<1>2. Merged(now, old, new) \in Rows
  <2>1. \A n \in Node : [now[n] EXCEPT
            !.pos    = IF new[n].pos = old[n].pos THEN @ ELSE new[n].pos,
            !.active = IF new[n].active = old[n].active THEN @ ELSE new[n].active] \in Row
    BY DEF Rows, Row
  <2> QED
    BY <2>1, NullValues DEF Merged, Rows
<1> QED
  BY <1>1, <1>2

LEMMA ReorderedType ==
    ASSUME NEW now \in Rows, NEW old \in Rows, NEW new \in Rows
    PROVE  Reordered(now, old, new) \in Rows
<1> DEFINE l == Listed(now, old)
<1>1. l \in Rows /\ Merged(now, old, l) \in Rows
  <2>1. l \in Rows
    BY RowsType
  <2> HIDE DEF l
  <2> QED  BY <2>1, RowsType
<1>2. Merged(Merged(now, old, l), l, new) \in Rows
  <2> HIDE DEF l
  <2> QED  BY <1>1, RowsType
<1> QED
  BY <1>2 DEF Reordered

LEMMA AssignedType ==
    ASSUME NEW rw, NEW n
    PROVE  Assigned(rw, n) \in Rows
<1>1. ASSUME NEW m \in Node
      PROVE  [exists |-> TRUE, active |-> m = n,
              pos |-> IF m = n THEN 0
                      ELSE Index(rw, m) + IF Before(rw, m, n) THEN 1 ELSE 0] \in Row
  BY IndexType DEF Row
<1> QED
  BY <1>1, NullValues DEF Assigned, Rows

LEMMA MovedType ==
    ASSUME NEW l \in Rows, NEW n \in Node, NEW step \in {-1, 1}
    PROVE  Moved(l, n, step) \in Rows
<1> DEFINE to == l[n].pos + step
           swap == [m \in Node |-> IF m = n THEN [l[m] EXCEPT !.pos = to]
                            ELSE IF l[m].exists /\ l[m].pos = to
                            THEN [l[m] EXCEPT !.pos = l[n].pos] ELSE l[m]]
<1>1. Moved(l, n, step) = l \/ (~(to < 0) /\ Moved(l, n, step) = swap)
  BY DEF Moved
<1>2. ASSUME ~(to < 0) PROVE swap \in Rows
  <2>1. l[n].pos \in Nat
    BY DEF Rows, Row
  <2>2. to \in Nat
    BY <1>2, <2>1
  <2> HIDE DEF to
  <2>3. \A x \in Row, p \in Nat : [x EXCEPT !.pos = p] \in Row
    BY DEF Row
  <2> QED
    BY <2>1, <2>2, <2>3 DEF Rows
<1> QED
  BY <1>1, <1>2

\* What a session holds is rows.
LEMMA HeldType ==
    ASSUME TypeOK, NEW S, NEW w \in Worker, NEW now \in Rows
    PROVE  Load(S) \in Rows /\ Held(w, now) \in Rows
BY NullValues DEF Load, Held, TypeOK, Rows, Work

\* What a worker does stays in its type when a field gets a value of its type.
LEMMA WorkUpdate ==
    ASSUME NEW x \in Work
    PROVE  /\ \A v \in {"idle", "look", "probe", "judge", "order", "choose", "start",
                        "try", "assign", "plan", "end", "write"} :
                [x EXCEPT !.pc = v] \in Work
           /\ \A v \in {"loop", "boot", "over", "activate", "start", "delete", "up", "down",
                        "enable", "disable"} :
                [x EXCEPT !.kind = v] \in Work
           /\ \A v \in Node \cup {None} : [x EXCEPT !.node = v] \in Work
           /\ \A v \in Node \cup {None} : [x EXCEPT !.sel = v] \in Work
           /\ \A v \in Rows : [x EXCEPT !.row = v] \in Work
           /\ \A v \in SUBSET Node : [x EXCEPT !.todo = v] \in Work
           /\ \A v \in 0..Retries : [x EXCEPT !.try = v] \in Work
           /\ \A v \in BOOLEAN : [x EXCEPT !.ok = v] \in Work
BY DEF Work

\* A worker that takes a step leaves the others alone.
LEMMA SetType ==
    ASSUME TypeOK, NEW w \in Worker, NEW r \in Work, Set(w, r)
    PROVE  work' \in [Worker -> Work]
BY DEF TypeOK, Set

LEMMA DroppedType ==
    ASSUME TypeOK, NEW w
    PROVE  Dropped(w) \in Txn
BY NullValues DEF Dropped, TypeOK

\* Kernel operations keep the kernel state in its type.
LEMMA KernelType ==
    ASSUME TypeOK, NEW n \in Node \cup {None}
    PROVE  Down \in Kernel /\ UpFor(n) \in Kernel /\ Planned(n) \in Kernel
BY DEF TypeOK, Down, UpFor, Planned, Kernel, None

---------------------------------------------------------------------------
(* Type correctness *)

\* A worker that probes, judges or moves a node has one.
Placed ==
    \A w \in Worker :
        \/ work[w].pc \in {"probe", "judge"}
        \/ work[w].pc = "write" /\ work[w].kind \in {"up", "down"}
        => work[w].node \in Node

TypeInv == TypeOK /\ Placed

LEMMA LoopType ==
    ASSUME TypeOK, LoopStart \/ LoopLook \/ LoopProbe \/ LoopJudge
    PROVE  TypeOK'
<1> DEFINE w == work["loop"]
<1>1. w \in Work /\ "loop" \in Worker /\ NoTime \in Age
  BY DEF TypeOK, Worker, Age
<1>2. CASE LoopStart
  <2> DEFINE n == IF cfg.auto /\ cfg.on THEN cfg.sel ELSE None
             a == [Idle EXCEPT !.kind = "loop", !.pc = "look"]
             b == [a EXCEPT !.sel = cfg.sel]
             r == [b EXCEPT !.node = n]
  <2>1. n \in Node \cup {None} /\ cfg.sel \in Node \cup {None}
    BY DEF TypeOK, Config
  <2>2. r \in Work
    <3>1. [Idle EXCEPT !.kind = "loop"] \in Work
      BY NullValues, WorkUpdate
    <3>2. a \in Work
      BY <3>1, WorkUpdate
    <3>3. b \in Work
      <4> HIDE DEF a
      <4> QED  BY <2>1, <3>2, WorkUpdate
    <3> HIDE DEF n, b
    <3> QED  BY <2>1, <3>3, WorkUpdate
  <2>3. Set("loop", r)
    BY <1>2 DEF LoopStart
  <2>4. work' \in [Worker -> Work]
    <3> HIDE DEF r
    <3> QED  BY <1>1, <2>2, <2>3, SetType
  <2> QED
    BY <1>2, <2>4 DEF TypeOK, LoopStart, Resolved, bounds
<1>3. CASE LoopLook
  <2>1. \E r \in Work : Set("loop", r)
    <3>1. Idle \in Work
      BY NullValues
    <3>2. \A v \in {"probe", "judge"}, rw \in Rows :
            [w EXCEPT !.pc = v, !.row = rw] \in Work
      <4>1. \A v \in {"probe", "judge"} : [w EXCEPT !.pc = v] \in Work
        BY <1>1, WorkUpdate
      <4> QED
        BY <4>1, WorkUpdate
    <3>3. Load({w.node}) \in Rows /\ (IF status = "running" THEN "probe" ELSE "judge")
                                       \in {"probe", "judge"}
      <4>1. row \in Rows
        BY DEF TypeOK
      <4> QED
        BY <1>1, <4>1, HeldType
    <3> QED
      BY <1>3, <3>1, <3>2, <3>3 DEF LoopLook
  <2>2. work' \in [Worker -> Work]
    BY <1>1, <2>1, SetType
  <2>3. since' \in Age
    BY <1>1, <1>3 DEF LoopLook, TypeOK
  <2> QED
    BY <1>3, <2>2, <2>3 DEF TypeOK, LoopLook, bounds
<1>4. CASE LoopProbe
  <2>1. \A a \in BOOLEAN : [w EXCEPT !.pc = "judge", !.ok = a] \in Work
    <3>1. [w EXCEPT !.pc = "judge"] \in Work
      BY <1>1, WorkUpdate
    <3> QED
      BY <3>1, WorkUpdate
  <2>2. Answers(w.node) \in BOOLEAN
    BY DEF Answers
  <2>3. \E r \in Work : Set("loop", r)
    BY <1>4, <2>1, <2>2 DEF LoopProbe
  <2>4. work' \in [Worker -> Work]
    BY <1>1, <2>3, SetType
  <2> QED
    BY <1>4, <2>4 DEF TypeOK, LoopProbe, bounds
<1>5. CASE LoopJudge
  <2>1. \E r \in Work : Set("loop", r)
    <3>1. Idle \in Work /\ [w EXCEPT !.pc = "order"] \in Work
      BY <1>1, NullValues, WorkUpdate
    <3> QED
      BY <1>5, <3>1 DEF LoopJudge
  <2>2. work' \in [Worker -> Work]
    BY <1>1, <2>1, SetType
  <2>3. since' \in Age /\ good' \in [Node -> 0..Grace]
    <3>1. 0 \in 0..Grace
      BY ConstantsAssumption
    <3>2. since' \in Age
      BY <1>5, <3>1 DEF LoopJudge, Unhealthy, TypeOK, Age
    <3>3. good' \in [Node -> 0..Grace]
      BY <1>5, <3>1 DEF LoopJudge, TypeOK
    <3> QED
      BY <3>2, <3>3
  <2> QED
    BY <1>5, <2>2, <2>3 DEF TypeOK, LoopJudge, bounds
<1> QED
  BY <1>2, <1>3, <1>4, <1>5

\* The steps of a search or of an activation, for any worker
LEMMA ContinueType ==
    ASSUME TypeOK, NEW w \in Worker, Continue(w)
    PROVE  TypeOK'
<1> DEFINE x == work[w]
           n == x.node
<1>1. /\ x \in Work /\ n \in Node \cup {None} /\ x.sel \in Node \cup {None}
      /\ x.row \in Rows /\ x.try \in 0..Retries /\ x.todo \in SUBSET Node
      /\ row \in Rows /\ cfg \in Config /\ cfg.sel \in Node \cup {None} /\ Dropped(w) \in Txn
  BY DroppedType DEF TypeOK, Work, Config
<1>2. \A v \in {"choose", "start", "try", "assign", "plan", "end"} :
        [x EXCEPT !.pc = v] \in Work
  BY <1>1, WorkUpdate
<1>3. ASSUME \E r \in Work : Set(w, r) PROVE work' \in [Worker -> Work]
  BY <1>3, SetType
<1>4. Idle \in Work
  BY NullValues
<1>5. CASE TakeOrder(w)
  <2> DEFINE old == Held(w, row)
             l == Listed(row, old)
             a == [x EXCEPT !.pc = "choose"]
             b == [a EXCEPT !.row = l]
             d == [b EXCEPT !.todo = Candidates(row, n)]
  <2>1. old \in Rows
    BY <1>1, HeldType
  <2>2. l \in Rows /\ Candidates(row, n) \in SUBSET Node
    <3> HIDE DEF old
    <3> QED  BY <1>1, <2>1, RowsType DEF Candidates, Existing
  <2>3. Merged(row, old, l) \in Rows
    <3> HIDE DEF old, l
    <3> QED  BY <1>1, <2>1, <2>2, RowsType
  <2>4. d \in Work
    <3>1. b \in Work
      <4> HIDE DEF l
      <4> QED  BY <1>2, <2>2, WorkUpdate
    <3> HIDE DEF b
    <3> QED  BY <2>2, <3>1, WorkUpdate
  <2>5. Set(w, d) \/ Set(w, Idle)
    BY <1>5 DEF TakeOrder
  <2>6. work' \in [Worker -> Work]
    <3> HIDE DEF d
    <3> QED  BY <1>3, <1>4, <2>4, <2>5
  <2>7. txn' \in Txn
    <3>1. [by |-> w, row |-> Merged(row, old, l), sel |-> cfg.sel] \in Txn
      <4> HIDE DEF old, l
      <4> QED  BY <1>1, <2>3 DEF Txn
    <3>2. txn' = txn \/ txn' = [by |-> w, row |-> Merged(row, old, l), sel |-> cfg.sel]
      BY <1>5 DEF TakeOrder
    <3> HIDE DEF old, l
    <3> QED  BY <3>1, <3>2 DEF TypeOK
  <2> QED
    BY <1>5, <2>6, <2>7 DEF TypeOK, TakeOrder, bounds
<1>6. CASE Choose(w)
  <2>1. ASSUME NEW c \in First(x.todo, x.row)
        PROVE  [x EXCEPT !.pc = "start", !.node = c, !.try = 1, !.todo = @ \ {c}] \in Work
    <3>1. c \in Node /\ 1 \in 0..Retries /\ x.todo \ {c} \in SUBSET Node
      BY <1>1, ConstantsAssumption DEF First
    <3> DEFINE p == [x EXCEPT !.pc = "start", !.node = c]
               q == [p EXCEPT !.try = 1]
               y == [q EXCEPT !.todo = x.todo \ {c}]
    <3>2. p \in Work
      BY <1>2, <3>1, WorkUpdate
    <3>3. q \in Work
      <4> HIDE DEF p
      <4> QED  BY <3>1, <3>2, WorkUpdate
    <3>4. y \in Work
      <4> HIDE DEF q
      <4> QED  BY <3>1, <3>3, WorkUpdate
    <3>5. [x EXCEPT !.pc = "start", !.node = c, !.try = 1, !.todo = @ \ {c}] = y
      OBVIOUS
    <3> QED
      BY <3>4, <3>5
  <2>2. work' \in [Worker -> Work]
    BY <1>2, <1>3, <1>6, <2>1 DEF Choose
  <2> QED
    BY <1>6, <2>2 DEF TypeOK, Choose, bounds
<1>7. AfterFailed(w) \in Work /\ AfterWon(w) \in Work /\ AfterLost(w) \in Work
  <2>1. [x EXCEPT !.kind = "over", !.pc = "order"] \in Work
    <3>1. [x EXCEPT !.kind = "over"] \in Work
      BY <1>1, WorkUpdate
    <3> QED
      BY <3>1, WorkUpdate
  <2> QED
    BY <1>2, <2>1 DEF AfterFailed, AfterWon, AfterLost
<1>8. x.try < Retries => [x EXCEPT !.try = @ + 1] \in Work
  <2>1. x.try < Retries => x.try + 1 \in 0..Retries
    BY <1>1, ConstantsAssumption
  <2> QED
    BY <1>1, <2>1, WorkUpdate
<1>9. CASE StartTunnel(w)
  <2>1. work' \in [Worker -> Work]
    BY <1>2, <1>3, <1>7, <1>8, <1>9 DEF StartTunnel
  <2>2. kernel' \in Kernel
    BY <1>1, <1>9, KernelType DEF StartTunnel
  <2>3. faults' \in Nat /\ status' \in {"stopped", "running", "error"}
    BY <1>9 DEF StartTunnel, Fault, TypeOK
  <2> QED
    BY <1>9, <2>1, <2>2, <2>3 DEF TypeOK, StartTunnel
<1>10. CASE ProbeTunnel(w)
  <2>1. x.try < Retries => [x EXCEPT !.pc = "start", !.try = @ + 1] \in Work
    <3>1. x.try < Retries => x.try + 1 \in 0..Retries
      BY <1>1, ConstantsAssumption
    <3>2. \A t \in 0..Retries : [x EXCEPT !.pc = "start", !.try = t] \in Work
      BY <1>2, WorkUpdate
    <3> QED
      BY <3>1, <3>2
  <2>2. work' \in [Worker -> Work]
    BY <1>3, <1>7, <1>10, <2>1 DEF ProbeTunnel
  <2> QED
    BY <1>10, <2>2 DEF TypeOK, ProbeTunnel, bounds
<1>11. CASE Assign(w)
  <2> DEFINE now == IF txn.by = w THEN txn.row ELSE row
             old == Held(w, now)
             new == Assigned(now, n)
             next == IF Searches(w) THEN "plan" ELSE IF x.ok THEN "start" ELSE "end"
             r == [x EXCEPT !.try = 1, !.pc = next]
             t == [by |-> w, row |-> Reordered(now, old, new),
                   sel |-> IF x.sel = n THEN cfg.sel ELSE n]
  <2>1. r \in Work
    <3>0. 1 \in 0..Retries
      BY ConstantsAssumption
    <3>1. [x EXCEPT !.try = 1] \in Work
      BY <1>1, <3>0, WorkUpdate
    <3>2. next \in {"plan", "start", "end"}
      OBVIOUS
    <3> HIDE DEF next
    <3> QED  BY <3>1, <3>2, WorkUpdate
  <2>2. t \in Txn
    <3>1. now \in Rows
      BY <1>1 DEF TypeOK, Txn
    <3>2. old \in Rows
      <4> HIDE DEF now
      <4> QED  BY <3>1, HeldType
    <3>3. new \in Rows
      BY AssignedType
    <3>4. Reordered(now, old, new) \in Rows
      <4> HIDE DEF now, old, new
      <4> QED  BY <3>1, <3>2, <3>3, ReorderedType
    <3> HIDE DEF now, old, new
    <3> QED  BY <1>1, <3>4 DEF Txn
  <2>3. (txn' = t /\ Set(w, r)) \/ (txn' = Dropped(w) /\ Set(w, Idle))
    BY <1>11 DEF Assign
  <2>4. work' \in [Worker -> Work] /\ txn' \in Txn
    <3> HIDE DEF r, t
    <3> QED  BY <1>1, <1>3, <1>4, <2>1, <2>2, <2>3
  <2>5. since' \in Age /\ good' \in [Node -> 0..Grace]
    <3>1. 0 \in 0..Grace
      BY ConstantsAssumption
    <3>2. since' = NoTime /\ good' = [good EXCEPT ![n] = 0]
      BY <1>11 DEF Assign, AssignedSince
    <3> QED
      BY <3>1, <3>2 DEF Age, TypeOK
  <2> QED
    BY <1>11, <2>4, <2>5 DEF TypeOK, Assign, bounds
<1>12. CASE ApplyPlan(w)
  <2>1. work' \in [Worker -> Work] /\ kernel' \in Kernel
    BY <1>1, <1>2, <1>3, <1>12, KernelType DEF ApplyPlan
  <2> QED
    BY <1>12, <2>1 DEF TypeOK, ApplyPlan, bounds
<1>13. CASE End(w)
  <2>1. row' \in Rows /\ cfg' \in Config
    BY <1>13 DEF End, TypeOK, Txn, Config
  <2>2. work' \in [Worker -> Work] /\ txn' \in Txn
    BY <1>1, <1>3, <1>4, <1>13 DEF End
  <2> QED
    BY <1>13, <2>1, <2>2 DEF TypeOK, End, bounds
<1> QED
  BY <1>5, <1>6, <1>9, <1>10, <1>11, <1>12, <1>13 DEF Continue

\* A handler that begins remembers the request, the active node and the rows.
LEMMA BegunType ==
    ASSUME TypeOK, NEW kind \in {"activate", "start", "delete", "up", "down",
                                 "enable", "disable"},
           NEW pc \in {"assign", "start", "write"}, NEW n \in Node \cup {None}
    PROVE  Begun(kind, pc, n) \in Work
<1> DEFINE a == [Idle EXCEPT !.kind = kind]
           b == [a EXCEPT !.pc = pc]
           c == [b EXCEPT !.node = n]
           d == [c EXCEPT !.sel = cfg.sel]
           e == [d EXCEPT !.row = Load({n, cfg.sel})]
<1>1. a \in Work
  BY NullValues, WorkUpdate
<1>2. b \in Work
  <2> HIDE DEF a
  <2> QED  BY <1>1, WorkUpdate
<1>3. c \in Work
  <2> HIDE DEF b
  <2> QED  BY <1>2, WorkUpdate
<1>4. cfg.sel \in Node \cup {None} /\ Load({n, cfg.sel}) \in Rows
  <2>1. row \in Rows /\ "loop" \in Worker
    BY DEF TypeOK, Worker
  <2> QED
    BY <2>1, HeldType DEF TypeOK, Config
<1>5. d \in Work
  <2> HIDE DEF c
  <2> QED  BY <1>3, <1>4, WorkUpdate
<1>6. e \in Work
  <2> HIDE DEF d
  <2> QED  BY <1>4, <1>5, WorkUpdate
<1>7. Begun(kind, pc, n) = e
  BY DEF Begun
<1> QED
  BY <1>6, <1>7

LEMMA FinishType ==
    ASSUME TypeOK, Placed, NEW r \in Req, FinishRequest(r)
    PROVE  TypeOK'
<1>1. /\ r \in Worker /\ work[r] \in Work /\ work[r].node \in Node \cup {None}
      /\ work[r].row \in Rows /\ row \in Rows /\ cfg \in Config
  BY DEF TypeOK, Worker, Work
<1>2. Set(r, Idle) => work' \in [Worker -> Work]
  BY <1>1, NullValues, SetType
<1>3. CASE Continue(r)
  BY <1>1, <1>3, ContinueType
<1>4. CASE FinishDelete(r)
  <2> DEFINE n == work[r].node
             rest == [row EXCEPT ![n] = NoRow]
  <2>1. row' = row \/ row' = Listed(rest, rest)
    BY <1>4 DEF FinishDelete
  <2>2. rest \in Rows
    BY <1>1, NullValues DEF Rows
  <2>3. row' \in Rows
    <3> HIDE DEF rest
    <3> QED  BY <1>1, <2>1, <2>2, RowsType
  <2>4. cfg' \in Config
    BY <1>1, <1>4 DEF FinishDelete, Deselected, None, Config
  <2> QED
    BY <1>2, <1>4, <2>3, <2>4 DEF FinishDelete, Write, TypeOK, bounds
<1>5. CASE FinishMove(r)
  <2> DEFINE n == work[r].node
             old == [row EXCEPT ![n] = work[r].row[n]]
             new == Moved(Listed(row, old), n, IF work[r].kind = "up" THEN -1 ELSE 1)
  <2>1. n \in Node
    BY <1>1, <1>5 DEF FinishMove, Write, Placed
  <2>2. old \in Rows
    BY <1>1, <2>1 DEF Rows
  <2>3. new \in Rows
    <3>1. Listed(row, old) \in Rows
      <4> HIDE DEF old
      <4> QED  BY <1>1, <2>2, RowsType
    <3> HIDE DEF old
    <3> QED  BY <2>1, <3>1, MovedType
  <2>4. row' \in Rows
    <3>1. row' = row \/ row' = Reordered(row, old, new)
      BY <1>5 DEF FinishMove
    <3> HIDE DEF old, new
    <3> QED  BY <1>1, <2>2, <2>3, <3>1, ReorderedType
  <2> QED
    BY <1>2, <1>5, <2>4 DEF FinishMove, Write, TypeOK, bounds
<1>6. CASE FinishEnable(r)
  <2> DEFINE n == work[r].node
  <2>1. CASE n = None \/ ~row[n].exists
    BY <1>2, <1>6, <2>1 DEF FinishEnable, TypeOK
  <2>2. CASE ~(n = None \/ ~row[n].exists)
    <3>1. [link |-> n, route |-> TRUE, plan |-> n] \in Kernel /\ Down \in Kernel
      BY <1>1, KernelType DEF Kernel
    <3>2. kernel' \in Kernel
      BY <1>6, <2>2, <3>1 DEF FinishEnable
    <3>3. faults' \in Nat /\ status' \in {"stopped", "running", "error"}
      BY <1>6, <2>2 DEF FinishEnable, Fault, TypeOK
    <3> QED
      BY <1>2, <1>6, <2>2, <3>2, <3>3 DEF FinishEnable, TypeOK
  <2> QED
    BY <2>1, <2>2
<1>7. CASE FinishDisable(r)
  BY <1>2, <1>7, NullValues DEF FinishDisable, TypeOK, bounds
<1> QED
  BY <1>3, <1>4, <1>5, <1>6, <1>7 DEF FinishRequest

LEMMA OperatorType ==
    ASSUME TypeOK, Operator
    PROVE  TypeOK'
<1>1. ASSUME NEW r \in Req, NEW kind, Request(r, kind)
      PROVE  requests' \in Nat /\ r \in Worker
  BY <1>1 DEF Request, TypeOK, Worker
<1>2. ASSUME NEW r \in Req, NEW n \in Node \cup {None}, NEW kind, NEW pc,
             kind \in {"activate", "start", "delete", "up", "down", "enable", "disable"},
             pc \in {"assign", "start", "write"},
             Set(r, Begun(kind, pc, n))
      PROVE  work' \in [Worker -> Work]
  <2>1. r \in Worker /\ Begun(kind, pc, n) \in Work
    BY <1>2, BegunType DEF Worker
  <2> QED
    BY <1>2, <2>1, SetType
<1>3. row \in Rows /\ cfg \in Config /\ kernel \in Kernel /\ Down \in Kernel
      /\ Passthrough \in Kernel /\ cfg.sel \in Node \cup {None}
  BY KernelType, NullValues DEF TypeOK, Config, None
<1>4. ASSUME NEW r \in Req, NEW n \in Node, BeginActivate(r, n)
      PROVE  TypeOK'
  <2> DEFINE b == Begun("activate", "assign", n)
             a == cfg.on /\ kernel.link # None
  <2>1. b \in Work
    BY BegunType
  <2>2. a \in BOOLEAN
    BY <1>3 DEF Config
  <2>3. [b EXCEPT !.ok = a] \in Work
    <3> HIDE DEF a, b
    <3> QED  BY <2>1, <2>2, WorkUpdate
  <2>4. r \in Worker /\ requests' \in Nat /\ Set(r, [b EXCEPT !.ok = a])
    BY <1>1, <1>4 DEF BeginActivate
  <2>5. work' \in [Worker -> Work]
    <3> HIDE DEF a, b
    <3> QED  BY <2>3, <2>4, SetType
  <2> QED
    BY <1>4, <2>4, <2>5 DEF BeginActivate, TypeOK
<1>5. ASSUME NEW r \in Req, NEW n \in Node, BeginDelete(r, n)
      PROVE  TypeOK'
  <2>1. work' \in [Worker -> Work] /\ requests' \in Nat
    BY <1>1, <1>2, <1>5 DEF BeginDelete
  <2>2. kernel' \in Kernel /\ since' \in Age
    BY <1>3, <1>5 DEF BeginDelete, TypeOK, Age
  <2> QED
    BY <1>5, <2>1, <2>2 DEF BeginDelete, TypeOK
<1>6. ASSUME NEW r \in Req, NEW n \in Node, NEW kind \in {"up", "down"},
             BeginMove(r, n, kind)
      PROVE  TypeOK'
  <2>1. work' \in [Worker -> Work] /\ requests' \in Nat
    BY <1>1, <1>2, <1>6 DEF BeginMove
  <2> QED
    BY <1>6, <2>1 DEF BeginMove, TypeOK
<1>7. ASSUME NEW r \in Req, BeginStart(r)
      PROVE  TypeOK'
  <2> DEFINE b == Begun("start", "start", cfg.sel)
  <2>1. b \in Work /\ 1 \in 0..Retries
    BY <1>3, BegunType, ConstantsAssumption
  <2>2. [b EXCEPT !.try = 1] \in Work
    <3> HIDE DEF b
    <3> QED  BY <2>1, WorkUpdate
  <2>3. r \in Worker /\ requests' \in Nat /\ Set(r, [b EXCEPT !.try = 1])
    BY <1>1, <1>7 DEF BeginStart
  <2>4. work' \in [Worker -> Work]
    <3> HIDE DEF b
    <3> QED  BY <2>2, <2>3, SetType
  <2> QED
    BY <1>7, <2>3, <2>4 DEF BeginStart, TypeOK
<1>8. ASSUME NEW r \in Req, Stop(r)
      PROVE  TypeOK'
  BY <1>1, <1>3, <1>8 DEF Stop, TypeOK
<1>9. ASSUME NEW r \in Req, SetFailover(r)
      PROVE  TypeOK'
  <2>1. cfg' \in Config
    BY <1>3, <1>9 DEF SetFailover, Config
  <2>2. requests' \in Nat /\ since' \in Age
    BY <1>1, <1>9 DEF SetFailover, TypeOK, Age
  <2> QED
    BY <1>9, <2>1, <2>2 DEF SetFailover, TypeOK
<1>10. ASSUME NEW r \in Req, NEW kind \in {"enable", "disable"}, BeginSwitch(r, kind)
       PROVE  TypeOK'
  <2>1. work' \in [Worker -> Work]
    <3>1. UNCHANGED work \/ Set(r, Begun(kind, "write", cfg.sel))
      BY <1>10 DEF BeginSwitch
    <3>2. CASE UNCHANGED work
      BY <3>2 DEF TypeOK
    <3>3. CASE Set(r, Begun(kind, "write", cfg.sel))
      BY <1>2, <1>3, <3>3
    <3> QED
      BY <3>1, <3>2, <3>3
  <2>2. cfg' \in Config
    BY <1>3, <1>10 DEF BeginSwitch, Config
  <2> QED
    BY <1>1, <1>10, <2>1, <2>2 DEF BeginSwitch, TypeOK
<1>11. ASSUME NEW n \in Node, Import(n)
       PROVE  TypeOK'
  <2>1. \A m \in Last(row) : row[m].pos + 1 \in Nat
    BY <1>3 DEF Last, Existing, Rows, Row
  <2>2. PICK p \in Nat : row' = [row EXCEPT ![n] = [exists |-> TRUE, pos |-> p, active |-> FALSE]]
    BY <1>11, <2>1 DEF Import
  <2>3. row' \in Rows
    BY <1>3, <2>2 DEF Rows, Row
  <2> QED
    BY <1>11, <2>3 DEF Import, TypeOK, bounds
<1> QED
  BY <1>4, <1>5, <1>6, <1>7, <1>8, <1>9, <1>10, <1>11 DEF Operator

LEMMA OutsideType ==
    ASSUME TypeOK, Outside
    PROVE  TypeOK'
<1>1. cfg \in Config /\ cfg.sel \in Node \cup {None} /\ None \in Node \cup {None}
  BY DEF TypeOK, Config
<1>2. CASE Restart
  <2> DEFINE a == [Idle EXCEPT !.kind = "boot", !.pc = "start"]
             b == [a EXCEPT !.node = cfg.sel]
             d == [b EXCEPT !.sel = cfg.sel]
             e == [d EXCEPT !.row = Load({cfg.sel})]
             c == [e EXCEPT !.try = 1]
  <2>1. a \in Work
    <3>1. [Idle EXCEPT !.kind = "boot"] \in Work
      BY NullValues, WorkUpdate
    <3> QED
      BY <3>1, WorkUpdate
  <2>2. b \in Work
    <3> HIDE DEF a
    <3> QED  BY <1>1, <2>1, WorkUpdate
  <2>3. c \in Work
    <3>1. 1 \in 0..Retries
      BY ConstantsAssumption
    <3>2. Load({cfg.sel}) \in Rows
      <4>1. row \in Rows /\ "loop" \in Worker
        BY DEF TypeOK, Worker
      <4> QED
        BY <4>1, HeldType
    <3>3. d \in Work
      <4> HIDE DEF b
      <4> QED  BY <1>1, <2>2, WorkUpdate
    <3>4. e \in Work
      <4> HIDE DEF d
      <4> QED  BY <3>2, <3>3, WorkUpdate
    <3> HIDE DEF e
    <3> QED  BY <3>1, <3>4, WorkUpdate
  <2>4. work' = [w \in Worker |-> IF w = "loop" /\ cfg.on /\ cfg.sel # None
                                  THEN c ELSE Idle]
    BY <1>2 DEF Restart
  <2>5. work' \in [Worker -> Work]
    <3> HIDE DEF c
    <3> QED  BY <2>3, <2>4, NullValues
  <2>6. kernel' \in Kernel
    BY <1>1, <1>2, KernelType, NullValues DEF Restart, Leftover, TypeOK
  <2> QED
    BY <1>2, <2>5, <2>6, NullValues DEF Restart, Fault, TypeOK, Age
<1>3. CASE Observe
  BY <1>3 DEF Observe, Resolved, TypeOK, bounds
<1>4. CASE Tick
  <2>1. \A t \in Age : Older(t) \in Age
    BY ConstantsAssumption DEF Older, Age, NoTime
  <2>2. \A t \in 0..Grace : Older(t) \in 0..Grace
    BY ConstantsAssumption DEF Older, NoTime
  <2> QED
    BY <1>4, <2>1, <2>2 DEF Tick, TypeOK, bounds
<1>5. ASSUME NEW n \in Node, LinkChange(n)
      PROVE  TypeOK'
  <2>1. alive' \in SUBSET Node /\ faults' \in Nat
    BY <1>5 DEF LinkChange, Fault, TypeOK
  <2> QED
    BY <1>5, <2>1 DEF LinkChange, TypeOK
<1> QED
  BY <1>2, <1>3, <1>4, <1>5 DEF Outside

LEMMA PlacedStep ==
    ASSUME TypeOK, Placed, [Next]_vars
    PROVE  Placed'
<1> DEFINE HasNode(x) == \/ x.pc \in {"probe", "judge"}
                         \/ x.pc = "write" /\ x.kind \in {"up", "down"}
                         => x.node \in Node
<1>1. /\ \A w \in Worker : HasNode(work[w]) /\ work[w] \in Work
      /\ HasNode(Idle) /\ "loop" \in Worker
  BY DEF TypeOK, Placed, Idle, Worker
<1>2. ASSUME NEW w \in Worker, NEW x, HasNode(x), Set(w, x)
      PROVE  Placed'
  BY <1>1, <1>2 DEF Set, Placed, TypeOK
<1>3. CASE LoopStart \/ LoopLook \/ LoopProbe \/ LoopJudge
  <2>1. CASE LoopStart
    <3> DEFINE x == [Idle EXCEPT !.kind = "loop", !.pc = "look", !.sel = cfg.sel,
                          !.node = IF cfg.auto /\ cfg.on THEN cfg.sel ELSE None]
    <3>1. HasNode(x)
      BY DEF Idle
    <3>2. Set("loop", x)
      BY <2>1 DEF LoopStart
    <3> QED
      BY <1>1, <1>2, <3>1, <3>2
  <2>2. CASE LoopLook
    <3> DEFINE x == [work["loop"] EXCEPT
                       !.pc = IF status = "running" THEN "probe" ELSE "judge",
                       !.row = Load({work["loop"].node})]
    <3>1. Set("loop", Idle) \/ (work["loop"].node # None /\ Set("loop", x))
      BY <2>2 DEF LoopLook
    <3>2. work["loop"].node # None => HasNode(x)
      BY <1>1 DEF Work
    <3> QED
      BY <1>1, <1>2, <3>1, <3>2
  <2>3. CASE LoopProbe
    <3> DEFINE x == [work["loop"] EXCEPT !.pc = "judge", !.ok = Answers(work["loop"].node)]
    <3>1. Set("loop", x) /\ work["loop"].pc = "probe"
      BY <2>3 DEF LoopProbe
    <3>2. HasNode(x)
      BY <1>1, <3>1 DEF Work
    <3> QED
      BY <1>1, <1>2, <3>1, <3>2
  <2>4. CASE LoopJudge
    <3> DEFINE x == [work["loop"] EXCEPT !.pc = "order"]
    <3>1. Set("loop", Idle) \/ Set("loop", x)
      BY <2>4 DEF LoopJudge
    <3>2. HasNode(x)
      BY <1>1 DEF Work
    <3> QED
      BY <1>1, <1>2, <3>1, <3>2
  <2> QED
    BY <1>3, <2>1, <2>2, <2>3, <2>4
<1>4. ASSUME NEW w \in Worker, Continue(w)
      PROVE  Placed'
  <2> DEFINE Other == {"start", "try", "order", "choose", "assign", "plan", "end"}
  <2>0. work[w] \in Work /\ work \in [Worker -> Work]
    BY <1>1 DEF TypeOK
  <2>1. ASSUME NEW x, Set(w, x)
        PROVE  work'[w] = x
    BY <2>0, <2>1 DEF Set
  <2>2. \A v \in Other : [work[w] EXCEPT !.pc = v].pc = v
    BY <2>0 DEF Work
  <2>3. work'[w] = Idle \/ work'[w].pc \in Other
    <3>1. CASE TakeOrder(w)
      BY <2>0, <2>1, <3>1 DEF TakeOrder, Work
    <3>2. CASE Choose(w)
      BY <2>0, <2>1, <3>2 DEF Choose, Work
    <3>3. AfterFailed(w).pc \in Other /\ AfterWon(w).pc \in Other /\ AfterLost(w).pc \in Other
      BY <2>0 DEF AfterFailed, AfterWon, AfterLost, Work
    <3>4. CASE StartTunnel(w)
      <4>1. work[w].pc = "start" => [work[w] EXCEPT !.try = @ + 1].pc = "start"
        BY <2>0 DEF Work
      <4> QED
        BY ZenonT(40), <2>1, <2>2, <3>3, <3>4, <4>1 DEF StartTunnel
    <3>5. CASE ProbeTunnel(w)
      <4>1. [work[w] EXCEPT !.pc = "start", !.try = @ + 1].pc = "start"
        BY <2>0 DEF Work
      <4> QED
        BY <2>1, <3>3, <3>5, <4>1 DEF ProbeTunnel
    <3>6. CASE Assign(w)
      BY <2>0, <2>1, <3>6 DEF Assign, Work
    <3>7. CASE ApplyPlan(w)
      BY <2>1, <2>2, <3>7 DEF ApplyPlan
    <3>8. CASE End(w)
      BY <2>1, <3>8 DEF End
    <3> QED
      BY <1>4, <3>1, <3>2, <3>4, <3>5, <3>6, <3>7, <3>8 DEF Continue
  <2>4. HasNode(work'[w])
    BY <1>1, <2>3
  <2>5. \A v \in Worker \ {w} : work'[v] = work[v]
    <3>1. \E x : Set(w, x)
      BY <1>4 DEF Continue, TakeOrder, Choose, StartTunnel, ProbeTunnel, Assign, ApplyPlan, End
    <3> QED
      BY <2>0, <3>1 DEF Set
  <2> QED
    BY <1>1, <2>4, <2>5 DEF Placed
<1>5. ASSUME NEW r \in Req, FinishRequest(r)
      PROVE  Placed'
  <2>1. r \in Worker
    BY DEF Worker
  <2>2. CASE Continue(r)
    BY <1>4, <2>1, <2>2
  <2>3. Continue(r) \/ Set(r, Idle)
    BY <1>5 DEF FinishRequest, FinishDelete, FinishMove, FinishEnable, FinishDisable, Write
  <2> QED
    BY <1>1, <1>2, <2>1, <2>2, <2>3
<1>6. CASE Operator
  <2>1. ASSUME NEW r \in Req, NEW kind, NEW pc, NEW n, Set(r, Begun(kind, pc, n)),
               n \in Node \/ kind \notin {"up", "down"}, pc \notin {"probe", "judge"}
        PROVE  Placed'
    <3>1. HasNode(Begun(kind, pc, n)) /\ r \in Worker
      BY <2>1 DEF Begun, Idle, Worker
    <3> QED
      BY <1>2, <2>1, <3>1
  <2>2. ASSUME NEW r \in Req, NEW n \in Node, BeginActivate(r, n)
        PROVE  Placed'
    <3> DEFINE x == [Begun("activate", "assign", n) EXCEPT !.ok = cfg.on /\ kernel.link # None]
    <3>1. HasNode(x) /\ r \in Worker
      BY DEF Begun, Idle, Worker
    <3>2. Set(r, x)
      BY <2>2 DEF BeginActivate
    <3> QED
      BY <1>2, <3>1, <3>2
  <2>3. ASSUME NEW r \in Req, BeginStart(r)
        PROVE  Placed'
    <3> DEFINE x == [Begun("start", "start", cfg.sel) EXCEPT !.try = 1]
    <3>1. HasNode(x) /\ r \in Worker
      BY DEF Begun, Idle, Worker
    <3>2. Set(r, x)
      BY <2>3 DEF BeginStart
    <3> QED
      BY <1>2, <3>1, <3>2
  <2>4. CASE UNCHANGED work
    BY <2>4 DEF Placed
  <2> QED
    BY <1>6, <2>1, <2>2, <2>3, <2>4
    DEF Operator, BeginDelete, BeginMove, Stop, SetFailover, BeginSwitch, Import
<1>7. CASE Outside
  <2>1. CASE Restart
    BY <2>1 DEF Restart, Placed, Idle
  <2> QED
    BY <1>7, <2>1 DEF Outside, Observe, Tick, LinkChange, Placed
<1>8. CASE UNCHANGED vars
  BY <1>8 DEF vars, Placed
<1> QED
  BY <1>1, <1>3, <1>4, <1>5, <1>6, <1>7, <1>8 DEF Next, LoopStep

LEMMA TypeInit == Init => TypeInv
<1> SUFFICES ASSUME Init PROVE TypeInv
  OBVIOUS
<1>1. row \in Rows /\ txn \in Txn /\ kernel \in Kernel /\ work \in [Worker -> Work]
  BY NullValues DEF Init, Rows
<1>2. cfg \in Config
  <2>1. PICK b \in BOOLEAN : cfg = [sel |-> None, on |-> TRUE, auto |-> b]
    BY DEF Init
  <2> QED
    BY <2>1 DEF Config
<1>3. good \in [Node -> 0..Grace] /\ since \in Age /\ requests \in Nat /\ faults \in Nat
  BY ConstantsAssumption DEF Init, Age
<1>4. Placed
  BY DEF Init, Placed, Idle
<1> QED
  BY <1>1, <1>2, <1>3, <1>4 DEF Init, TypeInv, TypeOK

LEMMA TypeStep == TypeInv /\ [Next]_vars => TypeInv'
<1> SUFFICES ASSUME TypeInv, [Next]_vars PROVE TypeInv'
  OBVIOUS
<1>1. TypeOK /\ Placed /\ "loop" \in Worker
  BY DEF TypeInv, Worker
<1>2. TypeOK'
  <2>1. CASE LoopStep
    BY <1>1, <2>1, LoopType, ContinueType DEF LoopStep
  <2>2. CASE \E r \in Req : FinishRequest(r)
    BY <1>1, <2>2, FinishType
  <2>3. CASE Operator
    BY <1>1, <2>3, OperatorType
  <2>4. CASE Outside
    BY <1>1, <2>4, OutsideType
  <2>5. CASE UNCHANGED vars
    BY <1>1, <2>5 DEF TypeOK, vars, bounds
  <2> QED
    BY <2>1, <2>2, <2>3, <2>4, <2>5 DEF Next
<1> QED
  BY <1>1, <1>2, PlacedStep DEF TypeInv

\* Types hold in every reachable state, for every number of nodes and handlers:
\* the orders that moves, deletions and selections make are natural numbers.
THEOREM EntryTypeCorrect == Spec => []TypeOK
<1>1. TypeInv => TypeOK
  BY DEF TypeInv
<1> QED
  BY <1>1, TypeInit, TypeStep, PTL DEF Spec

---------------------------------------------------------------------------
(* The grace period *)

\* Whatever the failover state holds, no node was selected or seen healthy
\* since: the age in the failover state is at most the age of each of them.
SinceInv == \A n \in Node : since <= good[n]

LEMMA SinceStep ==
    ASSUME TypeInv, SinceInv, [Next]_vars
    PROVE  SinceInv'
<1>1. /\ since \in Age /\ good \in [Node -> 0..Grace] /\ Grace \in Nat
      /\ \A n \in Node : since <= good[n]
  BY ConstantsAssumption DEF TypeInv, TypeOK, SinceInv
<1>2. ASSUME since' = NoTime, good' \in [Node -> 0..Grace]
      PROVE  SinceInv'
  BY <1>1, <1>2 DEF SinceInv, NoTime
<1>3. ASSUME UNCHANGED good, since' = NoTime \/ UNCHANGED since
      PROVE  SinceInv'
  BY <1>1, <1>3 DEF SinceInv, NoTime
<1>4. TypeInv'
  BY TypeStep
<1>5. good' \in [Node -> 0..Grace]
  BY <1>4 DEF TypeInv, TypeOK
<1>6. CASE LoopJudge
  <2>1. CASE work["loop"].ok
    BY <1>2, <1>5, <1>6, <2>1 DEF LoopJudge, Unhealthy
  <2>2. CASE ~work["loop"].ok
    <3>1. UNCHANGED good /\ (since' = 0 \/ since' = since)
      BY <1>6, <2>2 DEF LoopJudge, Unhealthy
    <3> QED
      BY <1>1, <3>1 DEF SinceInv
  <2> QED
    BY <2>1, <2>2
<1>7. ASSUME NEW w \in Worker, Continue(w)
      PROVE  SinceInv'
  <2>1. CASE Assign(w)
    BY <1>2, <1>5, <2>1 DEF Assign, AssignedSince
  <2> QED
    BY <1>3, <1>7, <2>1 DEF Continue, TakeOrder, Choose, StartTunnel, ProbeTunnel,
       ApplyPlan, End
<1>8. CASE Tick
  <2>1. \A n \in Node : Older(since) <= Older(good[n])
    BY <1>1 DEF Older, Age, NoTime
  <2> QED
    BY <1>8, <2>1 DEF Tick, SinceInv
<1>9. CASE LoopStep
  <2>1. "loop" \in Worker
    BY DEF Worker
  <2> QED
    BY <1>3, <1>6, <1>7, <1>9, <2>1 DEF LoopStep, LoopStart, LoopLook, LoopProbe
<1>10. ASSUME NEW r \in Req, FinishRequest(r)
       PROVE  SinceInv'
  <2>1. r \in Worker
    BY DEF Worker
  <2> QED
    BY <1>3, <1>7, <1>10, <2>1
    DEF FinishRequest, FinishDelete, FinishMove, Write, FinishEnable, FinishDisable
<1>11. CASE Operator
  BY <1>3, <1>11 DEF Operator, BeginActivate, BeginStart, Stop, BeginDelete, BeginMove,
     BeginSwitch, SetFailover, Import
<1>12. CASE Outside
  BY <1>3, <1>8, <1>12 DEF Outside, Restart, Observe, LinkChange
<1>13. CASE UNCHANGED vars
  BY <1>3, <1>13 DEF vars
<1> QED
  BY <1>9, <1>10, <1>11, <1>12, <1>13 DEF Next

\* A search for another node begins in a verdict of the loop only.
LEMMA GraceStep ==
    ASSUME TypeInv, SinceInv, [Next]_vars,
           work["loop"].pc = "judge", work'["loop"].pc = "order"
    PROVE  good[work["loop"].node] = Grace
<1>1. /\ "loop" \in Worker /\ "loop" \notin Req
      /\ work \in [Worker -> Work] /\ work["loop"] \in Work
  BY ConstantsAssumption DEF TypeInv, TypeOK, Worker
<1>2. CASE LoopJudge
  <2>1. work["loop"].node \in Node
    BY <1>1 DEF TypeInv, Placed
  <2>2. since >= Grace
    <3>1. CASE Set("loop", Idle)
      BY <1>1, <3>1 DEF Set, Idle
    <3>2. CASE ~(work["loop"].ok \/ since = NoTime \/ since < Grace)
      BY <3>2, ConstantsAssumption DEF TypeInv, TypeOK, Age
    <3> QED
      BY <1>2, <3>1, <3>2 DEF LoopJudge
  <2>3. since <= good[work["loop"].node] /\ good[work["loop"].node] \in 0..Grace
    BY <2>1 DEF SinceInv, TypeInv, TypeOK
  <2> QED
    BY <2>2, <2>3, ConstantsAssumption DEF TypeInv, TypeOK, Age, NoTime
<1>3. CASE LoopStep /\ ~LoopJudge
  BY <1>3 DEF LoopStep, LoopStart, LoopLook, LoopProbe, Continue, TakeOrder, Choose,
     StartTunnel, ProbeTunnel, Assign, ApplyPlan, End
<1>4. ASSUME NEW x, NEW r \in Req, Set(r, x)
      PROVE  FALSE
  BY <1>1, <1>4 DEF Set
<1>5. CASE \E r \in Req : FinishRequest(r)
  BY ZenonT(40), <1>4, <1>5 DEF FinishRequest, Continue, TakeOrder, Choose, StartTunnel, ProbeTunnel,
     Assign, ApplyPlan, End, FinishDelete, FinishMove, Write, FinishEnable, FinishDisable
<1>6. CASE UNCHANGED work
  BY <1>6
<1>7. CASE Operator
  BY <1>4, <1>6, <1>7 DEF Operator, BeginActivate, BeginStart, Stop, BeginDelete, BeginMove,
     BeginSwitch, SetFailover, Import
<1>8. CASE Outside
  <2>1. CASE Restart
    <3>1. work'["loop"].pc \in {"start", "idle"}
      BY <1>1, <2>1 DEF Restart, Idle
    <3> QED
      BY <3>1
  <2> QED
    BY <1>6, <1>8, <2>1 DEF Outside, Observe, Tick, LinkChange
<1>9. CASE UNCHANGED vars
  BY <1>6, <1>9 DEF vars
<1> QED
  BY <1>2, <1>3, <1>5, <1>7, <1>8, <1>9 DEF Next

\* The loop leaves a node only after a whole grace period in which nobody
\* selected it and no evaluation found it healthy, for every grace period and
\* whatever handlers do to the shared failover state in the meantime.
THEOREM GraceCorrect == Spec => GraceRespected
<1> DEFINE Inv == TypeInv /\ SinceInv
           Kept == work["loop"].pc = "judge" /\ work'["loop"].pc = "order"
                     => good[work["loop"].node] = Grace
<1>1. Init => Inv
  <2>1. Init => SinceInv
    BY DEF Init, SinceInv, NoTime
  <2> QED
    BY <2>1, TypeInit
<1>2. Inv /\ [Next]_vars => Inv'
  BY SinceStep, TypeStep
<1>3. Inv /\ [Next]_vars => [Kept]_vars
  BY GraceStep
<1> QED
  BY <1>1, <1>2, <1>3, PTL DEF Spec, GraceRespected

---------------------------------------------------------------------------
(* Positions.  The nodes before a node have the lower indices, and a dense *)
(* order has the positions 0, 1, 2, ...                                    *)

Ahead(rw, n) == {m \in Existing(rw) : Before(rw, m, n)}
Dense(rw)    == \A n \in Existing(rw) : rw[n].pos = Index(rw, n)
Size(rw)     == Cardinality(Existing(rw))

\* Two versions of the rows with the same nodes at the same positions
Same(a, b) == \A n \in Node : /\ a[n].exists = b[n].exists
                              /\ a[n].exists => a[n].pos = b[n].pos

\* Two versions of the rows with the same nodes in the same order
Alike(a, b) ==
    /\ Existing(b) = Existing(a)
    /\ \A m, n \in Existing(a) : Before(b, m, n) <=> Before(a, m, n)

LEMMA BeforeOrder ==
    ASSUME NEW rw \in Rows, NEW m \in Node, NEW n \in Node
    PROVE  /\ ~Before(rw, m, m)
           /\ ~(Before(rw, m, n) /\ Before(rw, n, m))
           /\ m = n \/ Before(rw, m, n) \/ Before(rw, n, m)
           /\ \A x \in Node : Before(rw, m, n) /\ Before(rw, n, x) => Before(rw, m, x)
<1>1. \A x \in Node : rw[x].pos \in Nat
  BY DEF Rows, Row
<1>2. Node \subseteq Int
  BY DEF Node
<1>3. /\ ~Before(rw, m, m)
      /\ ~(Before(rw, m, n) /\ Before(rw, n, m))
      /\ m = n \/ Before(rw, m, n) \/ Before(rw, n, m)
  BY <1>1, <1>2 DEF Before
<1>4. ASSUME NEW x \in Node, Before(rw, m, n), Before(rw, n, x)
      PROVE  Before(rw, m, x)
  <2>1. /\ rw[m].pos \in Nat /\ rw[n].pos \in Nat /\ rw[x].pos \in Nat
        /\ m \in Int /\ n \in Int /\ x \in Int
    BY <1>1, <1>2
  <2> QED
    BY <1>4, <2>1 DEF Before
<1> QED
  BY <1>3, <1>4

\* The nodes ahead of a node are finitely many.
LEMMA AheadFinite ==
    ASSUME NEW rw, NEW n
    PROVE  /\ IsFiniteSet(Ahead(rw, n)) /\ IsFiniteSet(Existing(rw))
           /\ Index(rw, n) = Cardinality(Ahead(rw, n))
           /\ Index(rw, n) \in Nat /\ Size(rw) \in Nat
<1>1. IsFiniteSet(Node)
  BY FS_Interval, ConstantsAssumption DEF Node
<1>2. Ahead(rw, n) \in SUBSET Node /\ Existing(rw) \in SUBSET Node
  BY DEF Ahead, Existing
<1>3. IsFiniteSet(Ahead(rw, n)) /\ IsFiniteSet(Existing(rw))
  BY <1>1, <1>2, FS_Subset
<1> QED
  BY <1>3, FS_CardinalityType DEF Ahead, Index, Size

\* Of two nodes the first has the lower index, and indices are below the size.
LEMMA IndexOrder ==
    ASSUME NEW rw \in Rows, NEW m \in Existing(rw), NEW n \in Existing(rw)
    PROVE  /\ Before(rw, m, n) <=> Index(rw, m) < Index(rw, n)
           /\ Index(rw, m) = Index(rw, n) => m = n
           /\ Index(rw, n) < Size(rw)
<1>1. \A x \in Existing(rw) : x \in Node
  BY DEF Existing
<1>2. ASSUME NEW x \in Existing(rw), NEW S \in SUBSET Node, IsFiniteSet(S),
             Ahead(rw, x) \cup {x} \in SUBSET S
      PROVE  Index(rw, x) < Cardinality(S)
  <2>1. x \notin Ahead(rw, x)
    BY <1>1, BeforeOrder DEF Ahead
  <2>2. Cardinality(Ahead(rw, x) \cup {x}) = Index(rw, x) + 1
    <3>1. IsFiniteSet(Ahead(rw, x)) /\ Index(rw, x) = Cardinality(Ahead(rw, x))
      BY AheadFinite
    <3> QED
      BY <2>1, <3>1, FS_AddElement
  <2>3. Cardinality(Ahead(rw, x) \cup {x}) <= Cardinality(S)
    BY <1>2, FS_Subset
  <2>4. Index(rw, x) \in Nat /\ Cardinality(S) \in Nat
    <3>1. Cardinality(S) \in Nat
      BY <1>2, FS_CardinalityType
    <3> QED
      BY <3>1, AheadFinite
  <2> QED
    BY <2>2, <2>3, <2>4
<1>3. ASSUME NEW x \in Existing(rw), NEW y \in Existing(rw), Before(rw, x, y)
      PROVE  Index(rw, x) < Index(rw, y)
  <2>1. Ahead(rw, x) \cup {x} \in SUBSET Ahead(rw, y)
    BY <1>1, <1>3, BeforeOrder DEF Ahead
  <2>2. Ahead(rw, y) \in SUBSET Node
    BY <1>1 DEF Ahead
  <2> QED
    BY <1>2, <2>1, <2>2, AheadFinite
<1>4. Index(rw, n) < Size(rw)
  <2>1. Ahead(rw, n) \cup {n} \in SUBSET Existing(rw) /\ Existing(rw) \in SUBSET Node
    BY <1>1 DEF Ahead
  <2> QED
    BY <1>2, <2>1, AheadFinite DEF Size
<1>5. Index(rw, m) \in Nat /\ Index(rw, n) \in Nat
  BY AheadFinite
<1>6. m = n \/ Before(rw, m, n) \/ Before(rw, n, m)
  BY <1>1, BeforeOrder
<1>7. ~Before(rw, m, m)
  BY <1>1, BeforeOrder
<1> QED
  BY <1>3, <1>4, <1>5, <1>6, <1>7

\* Indices depend on the order alone.
LEMMA AlikeIndex ==
    ASSUME NEW a, NEW b, Alike(a, b), NEW n \in Existing(a)
    PROVE  Index(b, n) = Index(a, n)
<1>1. Ahead(b, n) = Ahead(a, n)
  BY DEF Alike, Ahead
<1> QED
  BY <1>1, AheadFinite

\* Every position of a dense order is taken.
LEMMA DensePlaces ==
    ASSUME NEW rw \in Rows, Dense(rw), NEW i \in 0..(Size(rw) - 1)
    PROVE  \E m \in Existing(rw) : rw[m].pos = i
<1> DEFINE S == Existing(rw)
           T == 0..(Size(rw) - 1)
           f == [m \in S |-> Index(rw, m)]
<1>1. Size(rw) \in Nat
  BY AheadFinite
<1>2. f \in [S -> T]
  <2>1. \A m \in S : Index(rw, m) \in Nat /\ Index(rw, m) < Size(rw)
    BY AheadFinite, IndexOrder
  <2> QED
    BY <1>1, <2>1
<1>3. f \in Injection(S, T)
  BY <1>2, IndexOrder DEF Injection, IsInjective
<1>4. IsFiniteSet(T) /\ Cardinality(T) = Size(rw)
  BY <1>1, FS_Interval
<1>5. f \in Surjection(S, T)
  <2>1. Cardinality(S) = Cardinality(T)
    BY <1>4 DEF Size
  <2> HIDE DEF f, S, T
  <2> QED  BY <1>3, <1>4, <2>1, FS_Injection
<1>6. \E m \in S : f[m] = i
  BY <1>5 DEF Surjection
<1> QED
  BY <1>6 DEF Dense

---------------------------------------------------------------------------
(* What the operators on the order do to a dense order                     *)

\* Listing puts every node at its index and keeps the order.
LEMMA ListedOrder ==
    ASSUME NEW now \in Rows, NEW old \in Rows
    PROVE  Alike(now, Listed(now, old)) /\ Dense(Listed(now, old))
<1> DEFINE l == Listed(now, old)
<1>1. Existing(l) = Existing(now)
  BY DEF Existing, Listed, NoRow
<1>2. \A n \in Existing(now) : l[n].pos = Index(now, n) /\ n \in Node
  BY DEF Existing, Listed
<1>3. ASSUME NEW m \in Existing(now), NEW n \in Existing(now)
      PROVE  Before(l, m, n) <=> Before(now, m, n)
  <2>1. Index(now, m) \in Nat /\ Index(now, n) \in Nat
    BY AheadFinite
  <2>2. Before(l, m, n) <=> Index(now, m) < Index(now, n) \/ (m = n /\ m < n)
    BY <1>2, IndexOrder DEF Before
  <2>3. ~(m < m)
    BY <1>2 DEF Node
  <2> HIDE DEF l
  <2> QED  BY <2>2, <2>3, IndexOrder
<1>4. Alike(now, l)
  BY <1>1, <1>3 DEF Alike
<1>5. Dense(l)
  <2> HIDE DEF l
  <2> QED  BY <1>1, <1>2, <1>4, AlikeIndex DEF Dense
<1> QED
  BY <1>4, <1>5

\* The same positions give the same order.
LEMMA SameAlike ==
    ASSUME NEW a, NEW b, Same(a, b)
    PROVE  Alike(a, b) /\ (Dense(a) => Dense(b))
<1>1. Existing(b) = Existing(a) /\ \A n \in Existing(a) : a[n].pos = b[n].pos
  BY DEF Same, Existing
<1>2. Alike(a, b)
  BY <1>1 DEF Alike, Before
<1> QED
  BY <1>1, <1>2, AlikeIndex DEF Dense

\* Normalising a dense order writes the positions that are there.
LEMMA NormalizedSame ==
    ASSUME NEW now \in Rows, NEW old \in Rows, Dense(now)
    PROVE  Same(now, Merged(now, old, Listed(now, old)))
<1>1. \A n \in Existing(now) : Listed(now, old)[n].pos = now[n].pos
  BY DEF Listed, Dense, Existing
<1>2. \A n \in Node : Merged(now, old, Listed(now, old))[n].exists = now[n].exists
  BY DEF Merged, NoRow, Rows, Row
<1>3. \A n \in Existing(now) : Merged(now, old, Listed(now, old))[n].pos = now[n].pos
  <2> DEFINE l == Listed(now, old)
  <2> HIDE DEF l
  <2>1. \A n \in Existing(now) : l[n].pos = now[n].pos
    BY <1>1 DEF l
  <2>2. \A n \in Existing(now) : Merged(now, old, l)[n].pos = now[n].pos
    BY <2>1 DEF Merged, Existing, Rows, Row
  <2> QED
    BY <2>2 DEF l
<1> QED
  BY <1>2, <1>3 DEF Same, Existing

\* Whatever columns a session had loaded, a new order of a dense one is written
\* as it was computed.
LEMMA ReorderedPlaces ==
    ASSUME NEW now \in Rows, NEW old \in Rows, NEW new \in Rows, Dense(now),
           Existing(new) = Existing(now)
    PROVE  Same(new, Reordered(now, old, new))
<1> DEFINE l == Listed(now, old)
           k == Merged(now, old, l)
<1>1. Same(now, k) /\ k \in Rows /\ l \in Rows
  BY NormalizedSame, RowsType
<1>2. \A n \in Existing(now) : l[n].pos = now[n].pos
  BY DEF Listed, Dense, Existing
<1>3. Reordered(now, old, new) = Merged(k, l, new)
  BY DEF Reordered
<1> HIDE DEF k, l
<1>4. \A n \in Existing(now) : k[n].pos = l[n].pos /\ k[n].exists
  BY <1>1, <1>2 DEF Same, Existing
<1>5. \A n \in Node : Merged(k, l, new)[n].exists = k[n].exists
  BY <1>1 DEF Merged, NoRow, Rows, Row
<1>6. \A n \in Node : k[n].exists = new[n].exists
  BY <1>1 DEF Same, Existing, Rows, Row
<1>7. \A n \in Existing(now) : Merged(k, l, new)[n].pos = new[n].pos
  BY <1>1, <1>4 DEF Merged, Existing, Rows, Row
<1> QED
  BY <1>3, <1>5, <1>6, <1>7 DEF Same, Existing

\* b has the nodes of a in the same order, except that n has gone to the front.
AtFront(a, b, n) ==
    /\ Existing(b) = Existing(a) /\ n \in Existing(a)
    /\ \A x, y \in Existing(a) : Before(b, x, y) <=> y # n /\ (x = n \/ Before(a, x, y))

\* Assigning puts the node first and keeps the order of the others.
LEMMA AssignedOrder ==
    ASSUME NEW rw \in Rows, NEW n \in Existing(rw)
    PROVE  AtFront(rw, Assigned(rw, n), n) /\ Dense(Assigned(rw, n))
<1> DEFINE b == Assigned(rw, n)
<1>1. Existing(b) = Existing(rw)
  BY DEF Existing, Assigned, NoRow
<1>2. \A m \in Existing(rw) : m \in Node
  BY DEF Existing
<1>3. \A m \in Existing(rw) :
        b[m].pos = IF m = n THEN 0 ELSE Index(rw, m) + IF Before(rw, m, n) THEN 1 ELSE 0
  BY DEF Existing, Assigned
<1>4. \A m \in Existing(rw) : Index(rw, m) \in Nat
  BY AheadFinite
<1> HIDE DEF b
<1>5. ASSUME NEW x \in Existing(rw), NEW y \in Existing(rw)
      PROVE  Before(b, x, y) <=> y # n /\ (x = n \/ Before(rw, x, y))
  <2>1. /\ Before(rw, x, y) <=> Index(rw, x) < Index(rw, y)
        /\ Before(rw, x, n) <=> Index(rw, x) < Index(rw, n)
        /\ Before(rw, y, n) <=> Index(rw, y) < Index(rw, n)
        /\ Index(rw, x) = Index(rw, y) => x = y
        /\ Index(rw, x) = Index(rw, n) => x = n
        /\ Index(rw, y) = Index(rw, n) => y = n
    BY IndexOrder
  <2>2. Index(rw, x) \in Nat /\ Index(rw, y) \in Nat /\ Index(rw, n) \in Nat
    BY <1>4
  <2>3. ~(x < x)
    BY <1>2 DEF Node
  <2>4. b[x].pos \in Nat /\ b[y].pos \in Nat
    BY <1>3, <2>2
  <2>5. CASE x = n \/ y = n
    BY <1>3, <2>1, <2>2, <2>3, <2>4, <2>5 DEF Before
  <2>6. CASE x # n /\ y # n
    <3>1. b[x].pos < b[y].pos <=> Index(rw, x) < Index(rw, y)
      BY <1>3, <2>1, <2>2, <2>6
    <3>2. b[x].pos = b[y].pos => x = y
      BY <1>3, <2>1, <2>2, <2>6
    <3> QED
      BY <2>1, <2>2, <2>3, <2>4, <2>6, <3>1, <3>2 DEF Before
  <2> QED
    BY <2>5, <2>6
<1>6. AtFront(rw, b, n)
  BY <1>1, <1>5 DEF AtFront
<1>7. ASSUME NEW m \in Existing(rw)
      PROVE  b[m].pos = Index(b, m)
  <2>1. CASE m = n
    <3>1. Ahead(b, m) = {}
      BY <1>1, <1>5, <2>1 DEF Ahead
    <3> QED
      BY <1>3, <2>1, <3>1, AheadFinite, FS_EmptySet
  <2>2. CASE m # n /\ Before(rw, m, n)
    <3>1. Ahead(b, m) = Ahead(rw, m) \cup {n} /\ n \notin Ahead(rw, m)
      BY <1>1, <1>2, <1>5, <2>2, BeforeOrder DEF Ahead
    <3>2. IsFiniteSet(Ahead(rw, m)) /\ Index(rw, m) = Cardinality(Ahead(rw, m))
      BY AheadFinite
    <3>3. Cardinality(Ahead(b, m)) = Index(rw, m) + 1
      BY <3>1, <3>2, FS_AddElement
    <3> QED
      BY <1>3, <2>2, <3>3, AheadFinite
  <2>3. CASE m # n /\ ~Before(rw, m, n)
    <3>1. Before(rw, n, m)
      BY <1>2, <2>3, BeforeOrder
    <3>2. Ahead(b, m) = Ahead(rw, m)
      BY <1>1, <1>5, <2>3, <3>1 DEF Ahead
    <3>3. Index(b, m) = Index(rw, m)
      BY <3>2, AheadFinite
    <3> QED
      BY <1>3, <1>4, <2>3, <3>3
  <2> QED
    BY <2>1, <2>2, <2>3
<1> QED
  BY <1>1, <1>6, <1>7 DEF b, Dense

\* b has the nodes of a in the same order, except that the neighbours p and q,
\* p ahead of q in a, have changed places.
Exchanged(a, b, p, q) ==
    /\ Existing(b) = Existing(a) /\ p \in Existing(a) /\ q \in Existing(a) /\ Before(a, p, q)
    /\ \A x \in Existing(a) : ~(Before(a, p, x) /\ Before(a, x, q))
    /\ \A x, y \in Existing(a) :
          Before(b, x, y) <=> (Before(a, x, y) /\ ~(x = p /\ y = q)) \/ (x = q /\ y = p)

\* Positions that follow each other belong to neighbours, who change places by
\* changing positions.
LEMMA ExchangedOrder ==
    ASSUME NEW a \in Rows, Dense(a), NEW b, Existing(b) = Existing(a),
           NEW p \in Existing(a), NEW q \in Existing(a), a[q].pos = a[p].pos + 1,
           b[p].pos = a[q].pos, b[q].pos = a[p].pos,
           \A x \in Existing(a) \ {p, q} : b[x].pos = a[x].pos
    PROVE  Exchanged(a, b, p, q) /\ Dense(b)
<1>1. \A x \in Existing(a) : x \in Node /\ x \in Int /\ a[x].pos = Index(a, x) /\ a[x].pos \in Nat
  <2>1. ASSUME NEW x \in Existing(a) PROVE a[x].pos = Index(a, x) /\ Index(a, x) \in Nat
    BY AheadFinite DEF Dense
  <2> QED
    BY <2>1 DEF Existing, Node
<1>2. ASSUME NEW x \in Existing(a), NEW y \in Existing(a)
      PROVE  /\ Before(a, x, y) <=> a[x].pos < a[y].pos
             /\ a[x].pos = a[y].pos => x = y
  BY <1>1, IndexOrder
<1>3. ASSUME NEW x \in Existing(a), NEW y \in Existing(a)
      PROVE  Before(b, x, y) <=> (Before(a, x, y) /\ ~(x = p /\ y = q)) \/ (x = q /\ y = p)
  <2>1. /\ a[p].pos \in Nat /\ a[q].pos \in Nat /\ a[x].pos \in Nat /\ a[y].pos \in Nat
        /\ a[x].pos = a[y].pos => x = y
        /\ a[x].pos = a[p].pos => x = p
        /\ a[y].pos = a[p].pos => y = p
        /\ a[x].pos = a[q].pos => x = q
        /\ a[y].pos = a[q].pos => y = q
        /\ ~(x < x) /\ p # q
    <3>1. p # q
      BY <1>1
    <3> QED
      BY <1>1, <1>2, <3>1
  <2>2. /\ b[x].pos = IF x = p THEN a[q].pos ELSE IF x = q THEN a[p].pos ELSE a[x].pos
        /\ b[y].pos = IF y = p THEN a[q].pos ELSE IF y = q THEN a[p].pos ELSE a[y].pos
    OBVIOUS
  <2>3. b[x].pos = b[y].pos => x = y
    BY <2>1, <2>2
  <2>4. b[x].pos < b[y].pos <=>
            (a[x].pos < a[y].pos /\ ~(x = p /\ y = q)) \/ (x = q /\ y = p)
    BY <2>1, <2>2
  <2> QED
    BY <1>2, <2>1, <2>3, <2>4 DEF Before
<1>4. Before(a, p, q) /\ \A x \in Existing(a) : ~(Before(a, p, x) /\ Before(a, x, q))
  <2>1. a[p].pos \in Nat /\ a[q].pos \in Nat
    BY <1>1
  <2>2. ASSUME NEW x \in Existing(a) PROVE ~(Before(a, p, x) /\ Before(a, x, q))
    <3>1. a[x].pos \in Nat
      BY <1>1
    <3> QED
      BY <1>2, <2>1, <3>1
  <2> QED
    BY <1>2, <2>1, <2>2
<1>5. ASSUME NEW x \in Existing(a)
      PROVE  b[x].pos = Index(b, x)
  <2>1. IsFiniteSet(Ahead(a, x)) /\ a[x].pos = Cardinality(Ahead(a, x)) /\ a[x].pos \in Nat
    BY <1>1, AheadFinite
  <2>2. Index(b, x) = Cardinality(Ahead(b, x))
    BY AheadFinite
  <2>3. CASE x = p
    <3>1. Ahead(b, x) = Ahead(a, x) \cup {q} /\ q \notin Ahead(a, x)
      <4>1. ~Before(a, q, p) /\ ~Before(a, p, p) /\ p # q
        BY <1>1, <1>4, BeforeOrder
      <4> QED
        BY <1>3, <2>3, <4>1 DEF Ahead
    <3>2. Cardinality(Ahead(b, x)) = a[x].pos + 1
      BY <2>1, <3>1, FS_AddElement
    <3> QED
      BY <2>2, <2>3, <3>2
  <2>4. CASE x = q
    <3>1. Ahead(b, x) = Ahead(a, x) \ {p} /\ p \in Ahead(a, x)
      <4>1. ~Before(a, q, q) /\ p # q
        BY <1>1, <1>4, BeforeOrder
      <4> QED
        BY <1>3, <1>4, <2>4, <4>1 DEF Ahead
    <3>2. Cardinality(Ahead(b, x)) = a[x].pos - 1
      BY <2>1, <3>1, FS_RemoveElement
    <3> QED
      BY <1>1, <2>2, <2>4, <3>2
  <2>5. CASE x # p /\ x # q
    <3>1. Ahead(b, x) = Ahead(a, x)
      BY <1>3, <2>5 DEF Ahead
    <3> QED
      BY <2>1, <2>2, <2>5, <3>1
  <2> QED
    BY <2>3, <2>4, <2>5
<1> QED
  BY <1>3, <1>4, <1>5 DEF Exchanged, Dense

\* Moving a node exchanges it with a neighbour or changes nothing.
LEMMA MovedOrder ==
    ASSUME NEW l \in Rows, Dense(l), NEW n \in Existing(l), NEW step \in {-1, 1}
    PROVE  /\ Dense(Moved(l, n, step))
           /\ Existing(Moved(l, n, step)) = Existing(l)
           /\ \/ Moved(l, n, step) = l
              \/ \E p, q \in Existing(l) : Exchanged(l, Moved(l, n, step), p, q)
<1> DEFINE to == l[n].pos + step
           b == [m \in Node |-> IF m = n THEN [l[m] EXCEPT !.pos = to]
                            ELSE IF l[m].exists /\ l[m].pos = to
                            THEN [l[m] EXCEPT !.pos = l[n].pos] ELSE l[m]]
<1>1. Moved(l, n, step) = l \/ (to >= 0 /\ to < Size(l) /\ Moved(l, n, step) = b)
  <2>1. to \in Int /\ Size(l) \in Nat
    <3>1. Size(l) \in Nat
      BY AheadFinite
    <3> QED
      BY <3>1 DEF Rows, Row, Existing
  <2> QED
    BY <2>1 DEF Moved, Size
<1>2. ASSUME to >= 0, to < Size(l)
      PROVE  /\ Dense(b) /\ Existing(b) = Existing(l)
             /\ \E p, q \in Existing(l) : Exchanged(l, b, p, q)
  <2>1. PICK m \in Existing(l) : l[m].pos = to
    <3>1. to \in 0..(Size(l) - 1)
      <4>1. Size(l) \in Nat
        BY AheadFinite
      <4>2. l[n].pos \in Int
        BY DEF Rows, Row, Existing
      <4> QED
        BY <1>2, <4>1, <4>2
    <3> QED
      BY <3>1, DensePlaces
  <2>2. \A x \in Existing(l) : /\ x \in Node /\ l[x].exists
                               /\ l[x].pos \in Nat /\ l[x] \in Row
                               /\ l[x].pos = to => x = m
    <3>1. \A x, y \in Existing(l) : l[x].pos = l[y].pos => x = y
      BY IndexOrder DEF Dense
    <3> QED
      BY <2>1, <3>1 DEF Existing, Rows, Row
  <2>3. Existing(b) = Existing(l)
    BY DEF Existing, Rows, Row
  <2>4. m # n /\ to = l[n].pos + step
    BY <2>1, <2>2
  <2>5. /\ b[n].pos = to /\ b[m].pos = l[n].pos
        /\ \A x \in Existing(l) \ {n, m} : b[x].pos = l[x].pos
    BY <2>1, <2>2, <2>4 DEF Row
  <2> HIDE DEF b, to
  <2>6. CASE step = 1
    <3>1. Exchanged(l, b, n, m) /\ Dense(b)
      BY <2>1, <2>2, <2>3, <2>4, <2>5, <2>6, ExchangedOrder
    <3> QED
      BY <2>3, <3>1
  <2>7. CASE step = -1
    <3>1. l[n].pos = l[m].pos + 1
      BY <2>1, <2>2, <2>4, <2>7
    <3>2. Exchanged(l, b, m, n) /\ Dense(b)
      BY <2>1, <2>2, <2>3, <2>5, <3>1, ExchangedOrder
    <3> QED
      BY <2>3, <3>2
  <2> QED
    BY <2>6, <2>7
<1> QED
  BY <1>1, <1>2

\* Deleting a node closes the gap.
LEMMA DeletedOrder ==
    ASSUME NEW rw \in Rows, NEW n \in Node
    PROVE  LET rest == [rw EXCEPT ![n] = NoRow]
               b == Listed(rest, rest)
           IN  /\ Dense(b) /\ Existing(b) = Existing(rw) \ {n}
               /\ \A x, y \in Existing(b) : Before(b, x, y) <=> Before(rw, x, y)
<1> DEFINE rest == [rw EXCEPT ![n] = NoRow]
           b == Listed(rest, rest)
<1>1. rest \in Rows
  BY NullValues DEF Rows
<1>2. Existing(rest) = Existing(rw) \ {n} /\ \A x \in Existing(rest) : rest[x] = rw[x]
  BY DEF Existing, Rows, NoRow
<1>3. \A x, y \in Existing(rest) : Before(rest, x, y) <=> Before(rw, x, y)
  BY <1>2 DEF Before
<1>4. Alike(rest, b) /\ Dense(b)
  <2> HIDE DEF rest
  <2> QED  BY <1>1, ListedOrder
<1> HIDE DEF rest, b
<1> QED
  BY <1>2, <1>3, <1>4 DEF Alike, b, rest

\* A new node goes behind the last one.
LEMMA ImportedOrder ==
    ASSUME NEW rw \in Rows, Dense(rw), NEW n \in Node, \A m \in Existing(rw) : m < n,
           NEW p \in Nat, NEW act \in BOOLEAN,
           \/ Existing(rw) = {} /\ p = 0
           \/ \E m \in Last(rw) : p = rw[m].pos + 1
    PROVE  LET b == [rw EXCEPT ![n] = [exists |-> TRUE, pos |-> p, active |-> act]]
           IN  /\ Dense(b) /\ n \notin Existing(rw) /\ Existing(b) = Existing(rw) \cup {n}
               /\ \A x, y \in Existing(b) :
                     Before(b, x, y) <=> y # x /\ x # n /\ (y = n \/ Before(rw, x, y))
<1> DEFINE b == [rw EXCEPT ![n] = [exists |-> TRUE, pos |-> p, active |-> act]]
<1>1. n \notin Existing(rw)
  BY DEF Node
<1>2. Existing(b) = Existing(rw) \cup {n}
  BY DEF Existing, Rows, Row
<1>3. b[n].pos = p /\ \A x \in Existing(rw) : b[x].pos = rw[x].pos
  BY <1>1 DEF Existing, Rows, Row
<1> HIDE DEF b
<1>4. \A x \in Existing(rw) : /\ x \in Node /\ rw[x].pos \in Nat
                              /\ rw[x].pos = Index(rw, x)
  BY DEF Existing, Rows, Row, Dense
<1>5. p = Size(rw)
  <2>1. CASE Existing(rw) = {} /\ p = 0
    BY <2>1, FS_EmptySet DEF Size
  <2>2. ASSUME NEW m \in Last(rw), p = rw[m].pos + 1
        PROVE  p = Size(rw)
    <3>1. m \in Existing(rw) /\ \A x \in Existing(rw) \ {m} : Before(rw, x, m)
      BY DEF Last
    <3>2. Ahead(rw, m) = Existing(rw) \ {m}
      BY <1>4, <3>1, BeforeOrder DEF Ahead
    <3>3. IsFiniteSet(Existing(rw)) /\ Index(rw, m) = Cardinality(Ahead(rw, m)) /\ Size(rw) \in Nat
      BY AheadFinite
    <3>4. Cardinality(Existing(rw) \ {m}) = Size(rw) - 1
      BY <3>1, <3>3, FS_RemoveElement DEF Size
    <3> QED
      BY <1>4, <2>2, <3>1, <3>2, <3>3, <3>4
  <2> QED
    BY <2>1, <2>2
<1>6. \A x \in Existing(rw) : rw[x].pos < p
  BY <1>4, <1>5, IndexOrder
<1>7. ASSUME NEW x \in Existing(b), NEW y \in Existing(b)
      PROVE  Before(b, x, y) <=> y # x /\ x # n /\ (y = n \/ Before(rw, x, y))
  <2>1. \A z \in Existing(b) : z \in Node /\ ~(z < z)
    BY <1>2, <1>4 DEF Node
  <2>2. CASE x = n \/ y = n
    BY <1>2, <1>3, <1>4, <1>6, <2>1, <2>2 DEF Before
  <2>3. CASE x # n /\ y # n
    BY <1>2, <1>3, <2>1, <2>3, <1>4, BeforeOrder DEF Before
  <2> QED
    BY <2>2, <2>3
<1>8. ASSUME NEW x \in Existing(b)
      PROVE  b[x].pos = Index(b, x)
  <2>1. CASE x = n
    <3>1. Ahead(b, x) = Existing(rw)
      BY <1>1, <1>2, <1>7, <2>1 DEF Ahead
    <3> QED
      BY <1>3, <1>5, <2>1, <3>1, AheadFinite DEF Size
  <2>2. CASE x # n
    <3>1. Ahead(b, x) = Ahead(rw, x)
      BY <1>1, <1>2, <1>4, <1>7, <2>2, BeforeOrder DEF Ahead
    <3> QED
      BY <1>2, <1>3, <1>4, <2>2, <3>1, AheadFinite
  <2> QED
    BY <2>1, <2>2
<1>9. Dense(b)
  BY <1>8 DEF Dense
<1> QED
  BY <1>1, <1>2, <1>7, <1>9 DEF b

---------------------------------------------------------------------------
(* Versions of the rows as states of EntryOrder                            *)

Pairs(rw) == {p \in Existing(rw) \X Existing(rw) : Before(rw, p[1], p[2])}

LEMMA PairsOf ==
    ASSUME NEW rw, NEW x, NEW y
    PROVE  <<x, y>> \in Pairs(rw) <=> x \in Existing(rw) /\ y \in Existing(rw) /\ Before(rw, x, y)
BY DEF Pairs

\* Sets of pairs with the same pairs are the same.
LEMMA PairsEqual ==
    ASSUME NEW S, NEW T, NEW E, NEW D, S \subseteq E \X E, T \subseteq D \X D,
           \A x, y : <<x, y>> \in S <=> <<x, y>> \in T
    PROVE  S = T
OBVIOUS

LEMMA AlikePairs ==
    ASSUME NEW a, NEW b, Alike(a, b)
    PROVE  Pairs(b) = Pairs(a)
BY DEF Alike, Pairs

LEMMA FrontPairs ==
    ASSUME NEW a, NEW b, NEW n, AtFront(a, b, n)
    PROVE  LET R == Existing(a) \ {n}
           IN  Pairs(b) = (Pairs(a) \cap (R \X R)) \cup ({n} \X R)
<1> DEFINE R == Existing(a) \ {n}
           T == (Pairs(a) \cap (R \X R)) \cup ({n} \X R)
<1>1. Existing(b) = Existing(a) /\ n \in Existing(a)
  BY DEF AtFront
<1>2. \A x, y : <<x, y>> \in T <=> (<<x, y>> \in Pairs(a) /\ x \in R /\ y \in R)
                                   \/ (x = n /\ y \in R)
  OBVIOUS
<1>3. \A x, y : <<x, y>> \in Pairs(b) <=> <<x, y>> \in T
  BY ZenonT(40), <1>1, <1>2, PairsOf DEF AtFront
<1>4. Pairs(b) \subseteq Existing(a) \X Existing(a) /\ T \subseteq Existing(a) \X Existing(a)
  BY <1>1 DEF Pairs
<1> QED
  BY <1>3, <1>4, PairsEqual

LEMMA ExchangedPairs ==
    ASSUME NEW a, NEW b, NEW p, NEW q, Exchanged(a, b, p, q)
    PROVE  /\ Pairs(b) = (Pairs(a) \ {<<p, q>>}) \cup {<<q, p>>}
           /\ <<p, q>> \in Pairs(a)
           /\ \A x \in Existing(a) : ~(<<p, x>> \in Pairs(a) /\ <<x, q>> \in Pairs(a))
<1> DEFINE T == (Pairs(a) \ {<<p, q>>}) \cup {<<q, p>>}
<1>1. Existing(b) = Existing(a) /\ p \in Existing(a) /\ q \in Existing(a)
  BY DEF Exchanged
<1>2. \A x, y : <<x, y>> \in T <=> (<<x, y>> \in Pairs(a) /\ ~(x = p /\ y = q))
                                   \/ (x = q /\ y = p)
  OBVIOUS
<1>3. \A x, y : <<x, y>> \in Pairs(b) <=> <<x, y>> \in T
  BY <1>1, <1>2, PairsOf DEF Exchanged
<1>4. Pairs(b) \subseteq Existing(a) \X Existing(a) /\ T \subseteq Existing(a) \X Existing(a)
  BY <1>1 DEF Pairs
<1>5. Pairs(b) = T
  <2> HIDE DEF T
  <2> QED  BY <1>3, <1>4, PairsEqual
<1> QED
  BY <1>5, PairsOf DEF Exchanged

---------------------------------------------------------------------------
(* The invariant.  The order is dense.  An open transaction has left it    *)
(* alone, or brings one node to the front and will do nothing else.        *)

LateR(x) == \/ x.pc \in {"plan", "end"}
            \/ x.kind = "activate" /\ x.pc \in {"start", "try"}

Front(n) == AtFront(row, txn.row, n) /\ Dense(txn.row) /\ txn.sel \in {n, cfg.sel}

Pending ==
    txn.by # "nobody" =>
        \/ Same(row, txn.row) /\ txn.sel = cfg.sel
        \/ LateR(work[txn.by]) /\ \E n \in Existing(row) : Front(n)

\* What a worker may be doing
Fit(x) == /\ x.kind = "idle" => x.pc = "idle"
          /\ x.kind = "delete" /\ x.pc = "write" => x.node \in Node
          /\ x.pc = "assign" => x.kind \in {"loop", "over", "activate"}
          /\ x.pc \in {"start", "try", "assign"} => x.node \in Node

LineInv == Dense(row) /\ Pending /\ \A w \in Worker : Fit(work[w])

\* A step that keeps the invariant and is a step of EntryOrder or none
LineKept == LineInv' /\ [Line!Next]_(Line!order)

LEMMA LineState ==
    Line!order = <<Existing(row), Pairs(row), cfg.sel>>
BY DEF Line!order, Pairs

\* A step that leaves rows and the active node alone, and the transaction too
\* or ends it without a commit
LEMMA SetKept ==
    ASSUME TypeInv, LineInv, NEW w \in Worker, NEW x, Set(w, x), Fit(x),
           row' = row, cfg'.sel = cfg.sel,
           txn' = NoTxn \/ (txn' = txn /\ (txn.by = w /\ LateR(work[w]) => LateR(x)))
    PROVE  LineKept
<1>1. /\ work \in [Worker -> Work] /\ txn.by \in Worker \cup {"nobody"}
  BY DEF TypeInv, TypeOK, Txn
<1>2. work'[w] = x /\ \A v \in Worker \ {w} : work'[v] = work[v]
  BY <1>1 DEF Set
<1>3. \A v \in Worker : Fit(work'[v])
  BY <1>2 DEF LineInv
<1>4. Pending'
  <2>1. CASE txn' = NoTxn
    BY <2>1 DEF Pending, NoTxn
  <2>2. CASE txn' = txn /\ (txn.by = w /\ LateR(work[w]) => LateR(x))
    <3>1. \A v \in Worker : v = txn.by /\ LateR(work[v]) => LateR(work'[v])
      BY <1>2, <2>2
    <3> QED
      BY <1>1, <2>2, <3>1 DEF LineInv, Pending, Front
  <2> QED
    BY <2>1, <2>2
<1>5. UNCHANGED Line!order
  BY DEF Line!order
<1> QED
  BY <1>3, <1>4, <1>5 DEF LineInv, LineKept

\* A step that leaves the workers alone as well
LEMMA WorkKept ==
    ASSUME LineInv, UNCHANGED <<row, txn, work>>, cfg'.sel = cfg.sel
    PROVE  LineKept
<1>1. UNCHANGED Line!order
  BY DEF Line!order
<1>2. Pending'
  BY DEF LineInv, Pending, Front
<1> QED
  BY <1>1, <1>2 DEF LineInv, LineKept

---------------------------------------------------------------------------
(* Steps that write rows                                                   *)

\* Normalising writes what is there.
LEMMA TakeOrderLine ==
    ASSUME TypeInv, LineInv, NEW w \in Worker, TakeOrder(w)
    PROVE  LineKept
<1> DEFINE old == Held(w, row)
           l == Listed(row, old)
           x == [work[w] EXCEPT !.pc = "choose", !.row = l,
                                !.todo = Candidates(row, work[w].node)]
           t == [by |-> w, row |-> Merged(row, old, l), sel |-> cfg.sel]
<1>1. /\ work \in [Worker -> Work] /\ row \in Rows /\ old \in Rows
      /\ work[w].pc = "order" /\ Fit(work[w]) /\ w # "nobody"
  BY HeldType, ConstantsAssumption DEF TypeInv, TypeOK, TakeOrder, LineInv, Worker
<1>2. Fit(Idle) /\ Fit(x) /\ ~LateR(work[w])
  BY <1>1 DEF Fit, Idle, LateR, Work
<1>3. row' = row /\ cfg' = cfg
  BY DEF TakeOrder
<1>4. CASE Set(w, Idle) /\ txn' = txn
  BY <1>2, <1>3, <1>4, SetKept
<1>5. CASE Set(w, x) /\ txn' = txn
  BY <1>2, <1>3, <1>5, SetKept
<1>6. CASE Set(w, x) /\ txn' = t
  <2>1. Same(row, t.row)
    BY <1>1, NormalizedSame DEF LineInv
  <2>2. \A v \in Worker : Fit(work'[v])
    BY <1>1, <1>2, <1>6 DEF Set, LineInv
  <2>3. Pending'
    BY <1>3, <1>6, <2>1 DEF Pending
  <2>4. UNCHANGED Line!order
    BY <1>3 DEF Line!order
  <2> QED
    BY <1>3, <2>2, <2>3, <2>4 DEF LineInv, LineKept
<1>7. (Set(w, Idle) /\ txn' = txn) \/ (Set(w, x) /\ (txn' = txn \/ txn' = t))
  BY DEF TakeOrder
<1> QED
  BY <1>4, <1>5, <1>6, <1>7

\* A transaction that has left the order alone brings the node to the front.
LEMMA AssignLine ==
    ASSUME TypeInv, LineInv, NEW w \in Worker, Assign(w)
    PROVE  LineKept
<1> DEFINE n   == work[w].node
           now == IF txn.by = w THEN txn.row ELSE row
           old == Held(w, now)
           b   == Assigned(now, n)
           r   == Reordered(now, old, b)
           x   == [work[w] EXCEPT !.try = 1, !.pc =
                            IF Searches(w) THEN "plan"
                            ELSE IF work[w].ok THEN "start" ELSE "end"]
           t   == [by |-> w, row |-> r, sel |-> IF work[w].sel = n THEN cfg.sel ELSE n]
           free == txn.by \in {w, "nobody"} /\ row[n].exists
<1>1. /\ work \in [Worker -> Work] /\ row \in Rows /\ txn \in Txn /\ txn.row \in Rows
      /\ work[w].pc = "assign" /\ Fit(work[w]) /\ w # "nobody" /\ work[w] \in Work
  BY ConstantsAssumption DEF TypeInv, TypeOK, Assign, LineInv, Worker, Txn
<1>2. ~LateR(work[w]) /\ row' = row /\ cfg' = cfg /\ Fit(Idle)
  BY <1>1 DEF LateR, Assign, Fit, Idle
<1>3. CASE ~free
  <2>1. Set(w, Idle) /\ txn' = Dropped(w)
    BY <1>3 DEF Assign
  <2> QED
    BY <1>2, <2>1, SetKept DEF Dropped
<1>4. CASE free
  <2>1. Set(w, x) /\ txn' = t
    BY <1>4 DEF Assign
  <2>2. Fit(x) /\ LateR(x)
    BY <1>1 DEF Fit, LateR, Searches, Work
  <2>3. now \in Rows /\ Alike(row, now) /\ Dense(now)
    <3>1. CASE txn.by = w
      BY <1>1, <1>2, <3>1, SameAlike DEF LineInv, Pending
    <3>2. CASE txn.by # w
      BY <1>1, <3>2 DEF LineInv, Alike
    <3> QED
      BY <3>1, <3>2
  <2>4. n \in Existing(row)
    <3>1. n \in Node
      BY <1>1 DEF Fit
    <3> QED
      BY <1>4, <3>1 DEF Existing
  <2> HIDE DEF now, n
  <2>5. AtFront(now, b, n) /\ Dense(b) /\ b \in Rows
    BY <2>3, <2>4, AssignedOrder, AssignedType DEF Alike
  <2>6. old \in Rows
    BY <2>3, HeldType DEF TypeInv
  <2> HIDE DEF b, old
  <2>7. r \in Rows /\ Same(b, r)
    BY <2>3, <2>5, <2>6, ReorderedPlaces, ReorderedType DEF AtFront
  <2>8. Alike(b, r) /\ Dense(r)
    BY <2>5, <2>7, SameAlike
  <2> HIDE DEF r
  <2>9. AtFront(row, r, n)
    BY <2>3, <2>4, <2>5, <2>8 DEF AtFront, Alike
  <2>10. work'[w] = x /\ \A v \in Worker : Fit(work'[v])
    BY <1>1, <2>1, <2>2 DEF Set, LineInv
  <2>11. t.by = w /\ t.row = r /\ t.sel \in {n, cfg.sel}
    BY DEF n
  <2>12. Pending'
    <3>1. LateR(work'[txn'.by])
      BY <2>1, <2>2, <2>10, <2>11
    <3>2. AtFront(row', txn'.row, n) /\ Dense(txn'.row) /\ txn'.sel \in {n, cfg'.sel}
      <4>1. txn'.row = r /\ txn'.sel = t.sel
        BY <2>1
      <4> QED
        BY <1>2, <2>8, <2>9, <2>11, <4>1
    <3>3. n \in Existing(row')
      BY <1>2, <2>4
    <3> QED
      BY <3>1, <3>2, <3>3 DEF Pending, Front
  <2>13. UNCHANGED Line!order
    BY <1>2 DEF Line!order
  <2> QED
    BY <1>2, <2>10, <2>12, <2>13 DEF LineInv, LineKept
<1> QED
  BY <1>3, <1>4

\* A commit brings one node to the front, or changes nothing of the line.
LEMMA EndLine ==
    ASSUME TypeInv, LineInv, NEW w \in Worker, End(w)
    PROVE  LineKept
<1>1. /\ work \in [Worker -> Work] /\ txn \in Txn /\ w # "nobody"
      /\ Set(w, Idle) /\ Fit(Idle) /\ txn' = Dropped(w)
  BY ConstantsAssumption DEF TypeInv, TypeOK, End, Fit, Idle, Worker
<1>2. CASE ~(txn.by = w /\ work[w].kind # "loop")
  <2>1. row' = row /\ cfg' = cfg
    BY <1>2 DEF End
  <2> QED
    BY <1>1, <2>1, SetKept DEF Dropped
<1>3. CASE txn.by = w /\ work[w].kind # "loop"
  <2>1. row' = txn.row /\ cfg'.sel = txn.sel /\ txn' = NoTxn
    BY <1>1, <1>3 DEF End, Dropped, TypeInv, TypeOK, Config
  <2>2. Pending' /\ \A v \in Worker : Fit(work'[v])
    BY <1>1, <2>1 DEF Pending, NoTxn, Set, LineInv
  <2>3. CASE Same(row, txn.row) /\ txn.sel = cfg.sel
    <3>1. Alike(row, txn.row) /\ Dense(txn.row)
      BY <2>3, SameAlike DEF LineInv
    <3>2. Existing(txn.row) = Existing(row) /\ Pairs(txn.row) = Pairs(row)
      BY <3>1, AlikePairs DEF Alike
    <3>3. UNCHANGED Line!order
      BY <2>1, <2>3, <3>2 DEF Line!order, Pairs
    <3> QED
      BY <2>1, <2>2, <3>1, <3>3 DEF LineInv, LineKept
  <2>4. ASSUME NEW n \in Existing(row), Front(n)
        PROVE  LineKept
    <3>1. /\ Existing(txn.row) = Existing(row)
          /\ LET R == Existing(row) \ {n}
             IN  Pairs(txn.row) = (Pairs(row) \cap (R \X R)) \cup ({n} \X R)
      BY <2>4, FrontPairs DEF Front, AtFront
    <3>2. n \in Node
      BY DEF Existing
    <3>3. Line!Activate(n)
      BY <2>1, <2>4, <3>1 DEF Line!Activate, Line!Of, Line!Rest, Pairs, Front
    <3> QED
      BY <2>1, <2>2, <2>4, <3>2, <3>3 DEF LineInv, LineKept, Line!Next, Front
  <2> QED
    BY <1>1, <1>3, <2>3, <2>4 DEF LineInv, Pending
<1> QED
  BY <1>2, <1>3

LEMMA DeleteLine ==
    ASSUME TypeInv, LineInv, NEW r \in Req, FinishDelete(r)
    PROVE  LineKept
<1> DEFINE n == work[r].node
           rest == [row EXCEPT ![n] = NoRow]
           b == Listed(rest, rest)
<1>1. /\ work \in [Worker -> Work] /\ row \in Rows /\ cfg \in Config /\ r \in Worker
      /\ work[r].pc = "write" /\ work[r].kind = "delete" /\ Set(r, Idle) /\ txn' = txn
  BY DEF TypeInv, TypeOK, FinishDelete, Write, Worker
<1>2. ~LateR(work[r]) /\ Fit(Idle) /\ n \in Node
  BY <1>1 DEF LateR, Fit, Idle, LineInv
<1>3. CASE txn.by # "nobody"
  BY <1>1, <1>2, <1>3, SetKept DEF FinishDelete
<1>4. CASE txn.by = "nobody"
  <2>1. row' = b /\ cfg' = [cfg EXCEPT !.sel = Deselected(n, work[r].sel)]
    BY <1>4 DEF FinishDelete
  <2>2. /\ Dense(b) /\ Existing(b) = Existing(row) \ {n}
        /\ \A x, y \in Existing(b) : Before(b, x, y) <=> Before(row, x, y)
    BY <1>1, <1>2, DeletedOrder
  <2>3. cfg'.sel \in {None, cfg.sel} \ {n}
    <3>1. cfg'.sel = Deselected(n, work[r].sel)
      BY <1>1, <2>1 DEF Config
    <3> QED
      BY <1>2, <3>1 DEF Deselected, None, Node
  <2> HIDE DEF b, n
  <2>4. Pairs(b) = Pairs(row) \cap ((Existing(row) \ {n}) \X (Existing(row) \ {n}))
    <3> DEFINE T == Pairs(row) \cap ((Existing(row) \ {n}) \X (Existing(row) \ {n}))
    <3>1. \A x, y : <<x, y>> \in T <=>
              <<x, y>> \in Pairs(row) /\ x \in Existing(b) /\ y \in Existing(b)
      BY <2>2
    <3>2. \A x, y : <<x, y>> \in Pairs(b) <=> <<x, y>> \in T
      BY <2>2, <3>1, PairsOf
    <3>3. Pairs(b) \subseteq Existing(b) \X Existing(b)
          /\ T \subseteq Existing(row) \X Existing(row)
      BY DEF Pairs
    <3> QED
      BY <3>2, <3>3, PairsEqual
  <2>5. Line!Remove(n)
    BY <2>1, <2>2, <2>3, <2>4 DEF Line!Remove, Line!Of, Line!Rest, Pairs, Line!None, None
  <2>6. Pending' /\ \A v \in Worker : Fit(work'[v])
    BY <1>1, <1>2, <1>4 DEF Pending, Set, LineInv
  <2> QED
    BY <1>2, <2>1, <2>2, <2>5, <2>6 DEF LineInv, LineKept, Line!Next
<1> QED
  BY <1>3, <1>4

LEMMA MoveLine ==
    ASSUME TypeInv, LineInv, NEW r \in Req, FinishMove(r)
    PROVE  LineKept
<1> DEFINE n    == work[r].node
           old  == [row EXCEPT ![n] = work[r].row[n]]
           step == IF work[r].kind = "up" THEN -1 ELSE 1
           l    == Listed(row, old)
           m    == Moved(l, n, step)
           b    == Reordered(row, old, m)
<1>1. /\ work \in [Worker -> Work] /\ row \in Rows /\ r \in Worker /\ work[r] \in Work
      /\ work[r].pc = "write" /\ work[r].kind \in {"up", "down"} /\ Set(r, Idle)
      /\ txn' = txn /\ cfg' = cfg
  BY DEF TypeInv, TypeOK, FinishMove, Write, Worker
<1>2. ~LateR(work[r]) /\ Fit(Idle) /\ n \in Node
  BY <1>1 DEF LateR, Fit, Idle, TypeInv, Placed
<1>3. CASE ~(txn.by = "nobody" /\ row[n].exists)
  BY <1>1, <1>2, <1>3, SetKept DEF FinishMove
<1>4. CASE txn.by = "nobody" /\ row[n].exists
  <2>1. row' = b
    BY <1>4 DEF FinishMove
  <2>2. old \in Rows /\ n \in Existing(row) /\ step \in {-1, 1}
    BY <1>1, <1>2, <1>4 DEF Rows, Work, Existing
  <2> HIDE DEF n, old, step
  <2>3. Alike(row, l) /\ Dense(l) /\ l \in Rows
    BY <1>1, <2>2, ListedOrder, RowsType
  <2> HIDE DEF l
  <2>4. n \in Existing(l) /\ n \in Node
    BY <1>2, <2>2, <2>3 DEF Alike, n
  <2>5. m \in Rows
    BY <2>2, <2>3, <2>4, MovedType
  <2>6. /\ Dense(m) /\ Existing(m) = Existing(l)
        /\ m = l \/ \E p, q \in Existing(l) : Exchanged(l, m, p, q)
    BY <2>2, <2>3, <2>4, MovedOrder
  <2> HIDE DEF m
  <2>7. Same(m, b)
    <3>1. Existing(m) = Existing(row) /\ Dense(row)
      BY <2>3, <2>6 DEF Alike, LineInv
    <3> QED
      BY <1>1, <2>2, <2>5, <3>1, ReorderedPlaces
  <2> HIDE DEF b
  <2>8. Alike(m, b) /\ Dense(b)
    BY <2>6, <2>7, SameAlike
  <2>9. Pending' /\ \A v \in Worker : Fit(work'[v])
    BY <1>1, <1>2, <1>4 DEF Pending, Set, LineInv
  <2>10. CASE m = l
    <3>1. Alike(row, b)
      BY <2>3, <2>8, <2>10 DEF Alike
    <3>2. Existing(b) = Existing(row) /\ Pairs(b) = Pairs(row)
      BY <3>1, AlikePairs DEF Alike
    <3>3. UNCHANGED Line!order
      BY <1>1, <2>1, <3>2 DEF Line!order, Pairs
    <3> QED
      BY <2>1, <2>8, <2>9, <3>3 DEF LineInv, LineKept
  <2>11. ASSUME NEW p \in Existing(l), NEW q \in Existing(l), Exchanged(l, m, p, q)
         PROVE  LineKept
    <3>1. Exchanged(row, b, p, q)
      BY <2>3, <2>8, <2>11 DEF Alike, Exchanged
    <3>2. /\ Pairs(b) = (Pairs(row) \ {<<p, q>>}) \cup {<<q, p>>}
          /\ <<p, q>> \in Pairs(row)
          /\ \A x \in Existing(row) : ~(<<p, x>> \in Pairs(row) /\ <<x, q>> \in Pairs(row))
          /\ Existing(b) = Existing(row)
      BY <3>1, ExchangedPairs DEF Exchanged
    <3>3. p \in Node /\ q \in Node
      BY <2>11 DEF Existing
    <3>4. Line!Overtake(q, p)
      BY <1>1, <2>1, <3>2 DEF Line!Overtake, Pairs
    <3> QED
      BY <2>1, <2>8, <2>9, <3>3, <3>4 DEF LineInv, LineKept, Line!Next
  <2> QED
    BY <2>6, <2>10, <2>11
<1> QED
  BY <1>3, <1>4

LEMMA ImportLine ==
    ASSUME TypeInv, LineInv, NEW n \in Node, Import(n)
    PROVE  LineKept
<1>1. row \in Rows /\ Dense(row) /\ \A m \in Existing(row) : m < n
  BY DEF TypeInv, TypeOK, LineInv, Import, Existing
<1>2. PICK p \in IF n = 1 THEN {0} ELSE {row[m].pos + 1 : m \in Last(row)} :
         row' = [row EXCEPT ![n] = [exists |-> TRUE, pos |-> p, active |-> FALSE]]
  BY DEF Import
<1> DEFINE b == [row EXCEPT ![n] = [exists |-> TRUE, pos |-> p, active |-> FALSE]]
<1>3. p \in Nat /\ ((Existing(row) = {} /\ p = 0) \/ \E m \in Last(row) : p = row[m].pos + 1)
  <2>1. CASE n = 1
    <3>1. \A m \in Existing(row) : m \in Node /\ m < 1
      BY <1>1, <2>1 DEF Existing
    <3> QED
      BY <1>2, <2>1, <3>1 DEF Node
  <2>2. CASE n # 1
    <3>1. PICK m \in Last(row) : p = row[m].pos + 1
      BY <1>2, <2>2
    <3>2. row[m].pos \in Nat
      BY <1>1, <3>1 DEF Last, Existing, Rows, Row
    <3> QED
      BY <3>1, <3>2
  <2> QED
    BY <2>1, <2>2
<1>4. /\ Dense(b) /\ n \notin Existing(row) /\ Existing(b) = Existing(row) \cup {n}
      /\ \A x, y \in Existing(b) :
            Before(b, x, y) <=> y # x /\ x # n /\ (y = n \/ Before(row, x, y))
  <2>1. FALSE \in BOOLEAN
    OBVIOUS
  <2> QED
    BY <1>1, <1>3, <2>1, ImportedOrder
<1>5. /\ row' = b /\ txn.by = "nobody" /\ txn' = txn /\ work' = work /\ cfg' = cfg
  BY <1>2 DEF Import
<1> HIDE DEF b
<1>6. Pairs(b) = Pairs(row) \cup (Existing(row) \X {n})
  <2> DEFINE T == Pairs(row) \cup (Existing(row) \X {n})
  <2>1. \A x, y : <<x, y>> \in T <=> <<x, y>> \in Pairs(row) \/ (x \in Existing(row) /\ y = n)
    OBVIOUS
  <2>2. \A x \in Existing(row) : ~Before(row, x, x)
    BY <1>1, BeforeOrder DEF Existing
  <2>3. \A x, y : <<x, y>> \in Pairs(b) <=> <<x, y>> \in T
    BY <1>4, <2>1, <2>2, PairsOf
  <2>4. Pairs(b) \subseteq Existing(b) \X Existing(b) /\ T \subseteq Existing(b) \X Existing(b)
    BY <1>4 DEF Pairs
  <2> QED
    BY <2>3, <2>4, PairsEqual
<1>7. Line!Append(n)
  BY <1>4, <1>5, <1>6 DEF Line!Append, Pairs
<1>8. Pending' /\ \A v \in Worker : Fit(work'[v])
  BY <1>5 DEF Pending, LineInv
<1> QED
  BY <1>4, <1>5, <1>7, <1>8 DEF LineInv, LineKept, Line!Next

---------------------------------------------------------------------------
(* Every step                                                              *)

LEMMA LoopLine ==
    ASSUME TypeInv, LineInv, LoopStart \/ LoopLook \/ LoopProbe \/ LoopJudge
    PROVE  LineKept
<1> DEFINE w == work["loop"]
<1>1. /\ "loop" \in Worker /\ work \in [Worker -> Work] /\ w \in Work /\ Fit(w)
  BY DEF TypeInv, TypeOK, LineInv, Worker
<1>2. /\ w.pc \in {"idle", "look", "probe", "judge"}
      /\ row' = row /\ cfg' = cfg /\ txn' = txn
  BY DEF LoopStart, LoopLook, LoopProbe, LoopJudge
<1>3. ~LateR(w)
  BY <1>2 DEF LateR
<1>4. \E x : Set("loop", x) /\ Fit(x)
  <2>1. Fit(Idle)
    BY DEF Fit, Idle
  <2>2. CASE LoopStart
    <3> DEFINE x == [Idle EXCEPT !.kind = "loop", !.pc = "look", !.sel = cfg.sel,
                          !.node = IF cfg.auto /\ cfg.on THEN cfg.sel ELSE None]
    <3>1. Fit(x) /\ Set("loop", x)
      BY <2>2 DEF Fit, Idle, LoopStart
    <3> QED
      BY <3>1
  <2>3. CASE LoopLook
    <3> DEFINE x == [w EXCEPT !.pc = IF status = "running" THEN "probe" ELSE "judge",
                              !.row = Load({w.node})]
    <3>1. Fit(x) /\ (Set("loop", Idle) \/ Set("loop", x))
      BY <1>1, <2>3 DEF Fit, Work, LoopLook
    <3> QED
      BY <2>1, <3>1
  <2>4. CASE LoopProbe
    <3> DEFINE x == [w EXCEPT !.pc = "judge", !.ok = Answers(w.node)]
    <3>1. Fit(x) /\ Set("loop", x)
      BY <1>1, <2>4 DEF Fit, Work, LoopProbe
    <3> QED
      BY <3>1
  <2>5. CASE LoopJudge
    <3> DEFINE x == [w EXCEPT !.pc = "order"]
    <3>1. Fit(x) /\ (Set("loop", Idle) \/ Set("loop", x))
      BY <1>1, <2>5 DEF Fit, Work, LoopJudge
    <3> QED
      BY <2>1, <3>1
  <2> QED
    BY <2>2, <2>3, <2>4, <2>5
<1> QED
  BY <1>1, <1>2, <1>3, <1>4, SetKept

\* A worker between these steps writes no row, and does not leave the end of a
\* selection behind.
LEMMA ContinueLine ==
    ASSUME TypeInv, LineInv, NEW w \in Worker, Continue(w)
    PROVE  LineKept
<1>1. /\ work \in [Worker -> Work] /\ work[w] \in Work /\ Fit(work[w])
  BY DEF TypeInv, TypeOK, LineInv
<1>2. Fit(Idle)
  BY DEF Fit, Idle
<1>3. ASSUME NEW x, Set(w, x), Fit(x), LateR(work[w]) => LateR(x),
             row' = row, cfg' = cfg, txn' = txn
      PROVE  LineKept
  BY <1>3, SetKept
<1>4. CASE Choose(w)
  <2> DEFINE x(c) == [work[w] EXCEPT !.pc = "start", !.node = c, !.try = 1, !.todo = @ \ {c}]
             y == [work[w] EXCEPT !.pc = "end"]
  <2>1. work[w].pc = "choose" /\ row' = row /\ cfg' = cfg /\ txn' = txn
    BY <1>4 DEF Choose
  <2>2. ~LateR(work[w])
    BY <2>1 DEF LateR
  <2>3. CASE Set(w, y)
    <3>1. Fit(y)
      BY <1>1, <2>1 DEF Fit, Work
    <3> QED
      BY <1>3, <2>1, <2>2, <2>3, <3>1
  <2>4. ASSUME NEW c \in First(work[w].todo, work[w].row), Set(w, x(c))
        PROVE  LineKept
    <3>1. c \in Node
      BY <1>1 DEF First, Work
    <3>2. Fit(x(c))
      BY <1>1, <2>1, <3>1 DEF Fit, Work
    <3> QED
      BY <1>3, <2>1, <2>2, <2>4, <3>2
  <2> QED
    BY <1>4, <2>3, <2>4 DEF Choose
<1>5. ASSUME work[w].pc \in {"start", "try"},
             NEW x \in {AfterFailed(w), AfterWon(w), AfterLost(w)}
      PROVE  Fit(x) /\ (LateR(work[w]) => LateR(x))
  BY ZenonT(40), <1>1, <1>5 DEF Fit, LateR, AfterFailed, AfterWon, AfterLost, Searches, Work
<1>6. CASE StartTunnel(w)
  <2>1. work[w].pc = "start" /\ row' = row /\ cfg' = cfg /\ txn' = txn
    BY <1>6 DEF StartTunnel
  <2>2. \A x \in {[work[w] EXCEPT !.pc = "try"], [work[w] EXCEPT !.try = @ + 1]} :
           Fit(x) /\ (LateR(work[w]) => LateR(x))
    BY <1>1, <2>1 DEF Fit, LateR, Work
  <2>3. \/ Set(w, [work[w] EXCEPT !.pc = "try"]) \/ Set(w, AfterFailed(w))
        \/ Set(w, [work[w] EXCEPT !.try = @ + 1])
    BY <1>6 DEF StartTunnel
  <2> QED
    BY <1>3, <1>5, <2>1, <2>2, <2>3
<1>7. CASE ProbeTunnel(w)
  <2> DEFINE x == [work[w] EXCEPT !.pc = "start", !.try = @ + 1]
  <2>1. work[w].pc = "try" /\ row' = row /\ cfg' = cfg /\ txn' = txn
    BY <1>7 DEF ProbeTunnel
  <2>2. Fit(x) /\ (LateR(work[w]) => LateR(x))
    BY <1>1, <2>1 DEF Fit, LateR, Work
  <2>3. Set(w, x) \/ Set(w, AfterWon(w)) \/ Set(w, AfterLost(w))
    BY <1>7 DEF ProbeTunnel
  <2> QED
    BY <1>3, <1>5, <2>1, <2>2, <2>3
<1>8. CASE ApplyPlan(w)
  <2> DEFINE x == [work[w] EXCEPT !.pc = "end"]
  <2>1. /\ work[w].pc = "plan" /\ row' = row /\ cfg' = cfg /\ txn' = txn /\ Set(w, x)
    BY <1>8 DEF ApplyPlan
  <2>2. Fit(x) /\ LateR(x)
    BY <1>1, <2>1 DEF Fit, LateR, Work
  <2> QED
    BY <1>3, <2>1, <2>2
<1> QED
  BY <1>4, <1>6, <1>7, <1>8, TakeOrderLine, AssignLine, EndLine DEF Continue

LEMMA OperatorLine ==
    ASSUME TypeInv, LineInv, Operator
    PROVE  LineKept
<1>1. ASSUME NEW r \in Req, work[r].kind = "idle", NEW x, Set(r, x), Fit(x),
             row' = row, cfg'.sel = cfg.sel, txn' = txn
      PROVE  LineKept
  <2>1. r \in Worker /\ ~LateR(work[r])
    BY <1>1 DEF LineInv, Fit, LateR, Worker
  <2> QED
    BY <1>1, <2>1, SetKept
<1>2. cfg \in Config
  BY DEF TypeInv, TypeOK
<1>3. ASSUME NEW r \in Req, NEW n \in Node, BeginActivate(r, n)
      PROVE  LineKept
  <2> DEFINE x == [Begun("activate", "assign", n) EXCEPT !.ok = cfg.on /\ kernel.link # None]
  <2>1. Fit(x)
    BY DEF Fit, Begun, Idle
  <2>2. /\ work[r].kind = "idle" /\ Set(r, x)
        /\ row' = row /\ cfg' = cfg /\ txn' = txn
    BY <1>3 DEF BeginActivate, Request
  <2> QED
    BY <1>1, <2>1, <2>2
<1>4. ASSUME NEW r \in Req, NEW n \in Node, BeginDelete(r, n)
      PROVE  LineKept
  <2>1. Fit(Begun("delete", "write", n))
    BY DEF Fit, Begun, Idle
  <2> QED
    BY <1>1, <1>4, <2>1 DEF BeginDelete, Request
<1>5. ASSUME NEW r \in Req, NEW n \in Node, NEW kind \in {"up", "down"}, BeginMove(r, n, kind)
      PROVE  LineKept
  <2>1. Fit(Begun(kind, "write", n))
    BY DEF Fit, Begun, Idle
  <2> QED
    BY <1>1, <1>5, <2>1 DEF BeginMove, Request
<1>6. ASSUME NEW r \in Req, BeginStart(r)
      PROVE  LineKept
  <2> DEFINE x == [Begun("start", "start", cfg.sel) EXCEPT !.try = 1]
  <2>1. cfg.sel \in Node
    BY <1>2, <1>6 DEF BeginStart, Config
  <2>2. Fit(x)
    BY <2>1 DEF Fit, Begun, Idle
  <2>3. /\ work[r].kind = "idle" /\ Set(r, x)
        /\ row' = row /\ cfg' = cfg /\ txn' = txn
    BY <1>6 DEF BeginStart, Request
  <2> QED
    BY <1>1, <2>2, <2>3
<1>7. ASSUME NEW r \in Req, NEW kind \in {"enable", "disable"}, BeginSwitch(r, kind)
      PROVE  LineKept
  <2>1. Fit(Begun(kind, "write", cfg.sel))
    BY DEF Fit, Begun, Idle
  <2>2. cfg'.sel = cfg.sel /\ row' = row /\ txn' = txn /\ work[r].kind = "idle"
    BY <1>2, <1>7 DEF BeginSwitch, Config, Request
  <2>3. Set(r, Begun(kind, "write", cfg.sel)) \/ work' = work
    BY <1>7 DEF BeginSwitch
  <2> QED
    BY <1>1, <2>1, <2>2, <2>3, WorkKept
<1>8. ASSUME NEW r \in Req, Stop(r) \/ SetFailover(r)
      PROVE  LineKept
  <2>1. cfg'.sel = cfg.sel /\ UNCHANGED <<row, txn, work>>
    BY <1>2, <1>8 DEF Stop, SetFailover, Config
  <2> QED
    BY <2>1, WorkKept
<1> QED
  BY <1>3, <1>4, <1>5, <1>6, <1>7, <1>8, ImportLine DEF Operator

LEMMA OutsideLine ==
    ASSUME TypeInv, LineInv, Outside
    PROVE  LineKept
<1>1. CASE Restart
  <2>1. row' = row /\ cfg' = cfg /\ txn' = NoTxn
    BY <1>1 DEF Restart
  <2>2. \A w \in Worker : Fit(work'[w])
    <3>1. cfg.sel \in Node \cup {None}
      BY DEF TypeInv, TypeOK, Config
    <3> QED
      BY <1>1, <3>1 DEF Restart, Fit, Idle
  <2>3. Pending'
    BY <2>1 DEF Pending, NoTxn
  <2>4. UNCHANGED Line!order
    BY <2>1 DEF Line!order
  <2> QED
    BY <2>1, <2>2, <2>3, <2>4 DEF LineInv, LineKept
<1>2. CASE Observe \/ Tick \/ \E n \in Node : LinkChange(n)
  <2>1. cfg' = cfg /\ UNCHANGED <<row, txn, work>>
    BY <1>2 DEF Observe, Tick, LinkChange
  <2> QED
    BY <2>1, WorkKept
<1> QED
  BY <1>1, <1>2 DEF Outside

LEMMA LineStep == TypeInv /\ LineInv /\ [Next]_vars => LineKept
<1> SUFFICES ASSUME TypeInv, LineInv, [Next]_vars PROVE LineKept
  OBVIOUS
<1>1. CASE LoopStep
  <2>1. "loop" \in Worker
    BY DEF Worker
  <2> QED
    BY <1>1, <2>1, LoopLine, ContinueLine DEF LoopStep
<1>2. ASSUME NEW r \in Req, FinishRequest(r)
      PROVE  LineKept
  <2>1. r \in Worker
    BY DEF Worker
  <2>2. CASE FinishEnable(r) \/ FinishDisable(r)
    <3>1. /\ Set(r, Idle) /\ row' = row /\ cfg' = cfg /\ txn' = txn
          /\ work[r].pc = "write"
      BY <2>2 DEF FinishEnable, FinishDisable
    <3>2. Fit(Idle) /\ ~LateR(work[r])
      BY <3>1 DEF Fit, Idle, LateR
    <3> QED
      BY <2>1, <3>1, <3>2, SetKept
  <2> QED
    BY <1>2, <2>1, <2>2, ContinueLine, DeleteLine, MoveLine DEF FinishRequest
<1>3. CASE UNCHANGED vars
  BY <1>3, WorkKept DEF vars
<1> QED
  BY <1>1, <1>2, <1>3, OperatorLine, OutsideLine DEF Next

LEMMA LineStart == Init => LineInv /\ Line!Init
<1> SUFFICES ASSUME Init PROVE LineInv /\ Line!Init
  OBVIOUS
<1>1. Existing(row) = {} /\ cfg.sel = None
  BY DEF Init, Existing, NoRow
<1>2. LineInv
  BY <1>1 DEF Init, LineInv, Dense, Pending, NoTxn, Fit, Idle
<1>3. Line!Init
  BY <1>1 DEF Line!Init, Line!None, None
<1> QED
  BY <1>2, <1>3

---------------------------------------------------------------------------
(* Theorems                                                                *)

\* Two nodes never have one place in the order that failover follows, for any
\* number of nodes and of sessions that write from columns read before others
\* committed.
THEOREM OrderCorrect == Spec => []OrderDistinct
<1>1. TypeInv /\ LineInv => OrderDistinct
  <2> SUFFICES ASSUME TypeInv, LineInv, NEW m \in Existing(row), NEW n \in Existing(row),
                      row[m].pos = row[n].pos
               PROVE  m = n
    BY DEF OrderDistinct
  <2>1. row \in Rows
    BY DEF TypeInv, TypeOK
  <2> QED
    BY <2>1, IndexOrder DEF LineInv, Dense
<1>2. TypeInv /\ LineInv /\ [Next]_vars => TypeInv' /\ LineInv'
  BY TypeStep, LineStep DEF LineKept
<1> QED
  BY <1>1, <1>2, TypeInit, LineStart, PTL DEF Spec

\* The commits of all sessions implement EntryOrder: each appends, removes, brings
\* to the front or exchanges two neighbours, or leaves the line as it is.
THEOREM LineImplemented == Spec => KeepsLine
<1>1. TypeInv /\ LineInv /\ [Next]_vars => TypeInv' /\ LineInv' /\ [Line!Next]_(Line!order)
  BY TypeStep, LineStep DEF LineKept
<1> QED
  BY <1>1, TypeInit, LineStart, PTL DEF Spec, KeepsLine, Line!Spec

\* Facts about EntryOrder hold of the nodes in the database.
Facts == INSTANCE EntryOrderProofs WITH
            nodes    <- Existing(row),
            ahead    <- {p \in Existing(row) \X Existing(row) : Before(row, p[1], p[2])},
            selected <- cfg.sel

\* The active node of gateway_settings is always a node that exists, whoever
\* deletes and activates at one time.
THEOREM ActiveExists == Spec => [](cfg.sel \in Existing(row) \cup {None})
<1>1. Facts!Spec => []Facts!ActiveInLine
  BY Facts!ActiveCorrect
<1>2. KeepsLine => Facts!Spec
  BY PTL DEF KeepsLine, Line!Spec, Facts!Spec, Line!Init, Facts!Init, Line!Next, Facts!Next,
     Line!order, Facts!order, Line!None, Facts!None, Line!Append, Facts!Append,
     Line!Remove, Facts!Remove, Line!Activate, Facts!Activate, Line!Overtake, Facts!Overtake,
     Line!Rest, Facts!Rest, Line!Of, Facts!Of
<1>3. Facts!ActiveInLine => cfg.sel \in Existing(row) \cup {None}
  BY DEF Facts!ActiveInLine, Facts!None, None
<1> QED
  BY <1>1, <1>2, <1>3, LineImplemented, PTL
=============================================================================
