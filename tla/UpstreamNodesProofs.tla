------------------------- MODULE UpstreamNodesProofs -------------------------
(* Theorems about UpstreamNodes and their proofs, for any number of nodes, *)
(* handlers, tasks, requests and faults, and for any threshold.            *)
EXTENDS UpstreamNodes, WellFoundedInduction, TLAPS

---------------------------------------------------------------------------
(* Operators that the actions are built from *)

\* Whatever failover() selects is a node.
LEMMA TargetIsNode ==
    ASSUME NEW n \in Node
    PROVE  FailoverTarget(n) \subseteq Node
BY DEF FailoverTarget, NextInCircle, Least, Candidates

\* Candidates have a first one, and a last one.
LEMMA FirstAndLast ==
    ASSUME NEW S \in SUBSET Node, S # {}
    PROVE  /\ \E m \in S : Least(S) = {m} /\ \A x \in S : m <= x
           /\ \E m \in S : \A x \in S : x <= m
<1> DEFINE D == {N - x : x \in S}
<1>1. N \in Nat /\ (\A x \in S : x \in Nat /\ N - x \in Nat) /\ S \subseteq Nat
  <2>1. \A x \in Node : x \in Nat /\ N - x \in Nat
    BY ConstantsAssumption DEF Node
  <2> QED
    BY <2>1, ConstantsAssumption
<1>d. D \subseteq Nat /\ D # {}
  BY <1>1
<1>2. IsWellFoundedOn(OpToRel(<, Nat), Nat)
  BY NatLessThanWellFounded
<1>3. ASSUME NEW X \in SUBSET Nat, X # {}
      PROVE  \E m \in X : \A x \in X : m <= x
  <2>1. PICK m \in X : \A y \in X : ~(<<y, m>> \in OpToRel(<, Nat))
    BY <1>2, <1>3, WFMin
  <2>2. \A y \in X : ~(y < m)
    BY <2>1 DEF OpToRel
  <2> QED
    BY <2>2
<1>4. PICK m \in S : \A x \in S : m <= x
  BY <1>1, <1>3
<1>5. Least(S) = {m}
  <2>1. m \in Least(S)
    BY <1>4 DEF Least
  <2>2. \A x \in Least(S) : x \in Nat /\ m \in Nat /\ x <= m /\ m <= x
    BY <1>1, <1>4 DEF Least
  <2>3. \A x \in Least(S) : x = m
    BY <2>2
  <2> QED
    BY <2>1, <2>3
<1>6. PICK d \in D : \A x \in D : d <= x
  BY <1>d, <1>3
<1>7. PICK g \in S : d = N - g
  BY <1>6
<1>8. \A x \in S : x <= g
  <2>1. \A x \in S : N - g <= N - x
    BY <1>6, <1>7
  <2> QED
    BY <1>1, <2>1
<1> QED
  BY <1>4, <1>5, <1>8

\* failover() always finds exactly one target, the failing node itself if there is
\* no other candidate: a decision never stops for want of one.
THEOREM OneTarget ==
    \A n \in Node : \E t \in Node : FailoverTarget(n) = {t}
<1> SUFFICES ASSUME NEW n \in Node
             PROVE  \E t \in Node : FailoverTarget(n) = {t}
  OBVIOUS
<1>1. Candidates \subseteq Node
  BY DEF Candidates
<1> DEFINE after == {m \in Candidates : m > n}
<1>2. CASE health.rotate /\ Candidates # {}
  <2>1. FailoverTarget(n) = Least(IF n \in Candidates /\ after # {} THEN after ELSE Candidates)
    BY <1>2 DEF FailoverTarget, NextInCircle
  <2>2. \A S \in SUBSET Node : S # {} => \E t \in Node : Least(S) = {t}
    BY FirstAndLast
  <2>3. after \in SUBSET Node
    BY <1>1
  <2> HIDE DEF after
  <2> QED
    BY <1>1, <1>2, <2>1, <2>2, <2>3
<1>3. CASE ~(health.rotate /\ Candidates # {})
  BY <1>3 DEF FailoverTarget
<1> QED
  BY <1>2, <1>3

\* The circular order passes over no candidate: going from one to the next, and
\* from the last to the first, reaches all of them, whatever ids deletions left.
THEOREM CircleComplete ==
    ASSUME NEW S \in SUBSET Node, NEW T \in SUBSET S, T # {},
           \A n \in T : NextInCircle(n, S) \subseteq T
    PROVE  T = S
<1>1. S \subseteq Nat /\ T \in SUBSET Node /\ S # {}
  <2>1. Node \subseteq Nat
    BY DEF Node
  <2> QED
    BY <2>1
<1>2. PICK low \in S : Least(S) = {low} /\ \A x \in S : low <= x
  BY <1>1, FirstAndLast
<1>3. low \in T
  <2>1. PICK top \in T : \A x \in T : x <= top
    BY <1>1, FirstAndLast
  <2> DEFINE after == {m \in S : m > top}
  <2>2. NextInCircle(top, S) \subseteq T /\ top \in S
    BY <2>1
  <2>3. CASE after = {}
    BY <1>2, <2>2, <2>3 DEF NextInCircle
  <2>4. CASE after # {}
    <3>1. PICK m \in after : Least(after) = {m}
      BY <2>4, FirstAndLast
    <3>2. m \in T
      BY <2>2, <2>4, <3>1 DEF NextInCircle
    <3> QED
      BY <1>1, <2>1, <3>1, <3>2
  <2> QED
    BY <2>3, <2>4
<1>4. ASSUME NEW x \in S \ T
      PROVE  FALSE
  <2>1. PICK m \in S \ T : \A y \in S \ T : m <= y
    <3>1. S \ T \in SUBSET Node /\ S \ T # {}
      BY <1>4
    <3> QED
      BY <3>1, FirstAndLast
  <2> DEFINE before == {y \in S : y < m}
  <2>2. low \in before
    BY <1>1, <1>2, <1>3, <2>1
  <2>3. PICK p \in before : \A y \in before : y <= p
    BY <2>2, FirstAndLast
  <2>4. p \in T
    BY <1>1, <2>1, <2>3
  <2> DEFINE after == {y \in S : y > p}
  <2>5. m \in after /\ \A y \in after : m <= y
    BY <1>1, <2>1, <2>3
  <2>6. m \in NextInCircle(p, S)
    BY <2>4, <2>5 DEF NextInCircle, Least
  <2> QED
    BY <2>1, <2>4, <2>6
<1> QED
  BY <1>4

\* The null values are values of their types.
LEMMA NullValues ==
    /\ NoRow \in Row /\ DownNet \in Net /\ NoHealth \in Health
    /\ NoHandler \in Handler /\ NoJob \in Job /\ NoFarEnd \in FarEnd
<1>1. NoRow \in Row /\ NoFarEnd \in FarEnd
  BY DEF NoRow, Row, Status, Key, NoFarEnd, FarEnd
<1>2. DownNet \in Net
  BY DEF DownNet, Net, Iface, NoLink, Link, None, Key
<1>3. NoHealth \in Health
  BY DEF NoHealth, Health, None, Key
<1>4. NoHandler \in Handler /\ NoJob \in Job
  BY DEF NoHandler, NoJob, Handler, Job, RequestKinds, Status, None, Key
<1> QED
  BY <1>1, <1>2, <1>3, <1>4

\* A record stays in its type when a field gets a value of the field's type.
LEMMA RowUpdate ==
    ASSUME NEW x \in Row
    PROVE  /\ \A v \in Status : [x EXCEPT !.status = v] \in Row
           /\ \A v \in BOOLEAN : [x EXCEPT !.active = v] \in Row
           /\ \A v \in BOOLEAN : [x EXCEPT !.geoip = v] \in Row
           /\ \A v \in BOOLEAN : [x EXCEPT !.deployed = v] \in Row
           /\ \A v \in BOOLEAN : [x EXCEPT !.exists = v] \in Row
           /\ \A v \in BOOLEAN : [x EXCEPT !.manual = v] \in Row
           /\ \A v \in Key : [x EXCEPT !.key = v] \in Row
BY DEF Row

\* The health check goes on with the rest of its list.
LEMMA ContinueType ==
    ASSUME health \in Health
    PROVE  /\ Continue(health.todo) \in Health
           /\ Continue(health.todo).pc \in {"idle", "pick"}
<1> DEFINE more == [NoHealth EXCEPT !.pc = "pick", !.todo = health.todo,
                                    !.rotate = health.rotate]
<1>1. health.todo \in SUBSET (Node \X BOOLEAN) /\ health.rotate \in BOOLEAN
  BY DEF Health
<1>2. [NoHealth EXCEPT !.pc = "pick"] \in Health
  BY NullValues DEF Health
<1>3. \A h \in Health : [h EXCEPT !.todo = health.todo] \in Health
  BY <1>1 DEF Health
<1>4. \A h \in Health : [h EXCEPT !.rotate = health.rotate] \in Health
  BY <1>1 DEF Health
<1>5. more \in Health
  BY <1>2, <1>3, <1>4
<1>6. more.pc = "pick" /\ NoHealth.pc = "idle"
  BY DEF NoHealth
<1> HIDE DEF more
<1>7. Continue(health.todo) \in {NoHealth, more}
  BY DEF Continue, more
<1> QED
  BY <1>5, <1>6, <1>7, NullValues

\* Kernel operations keep the kernel state in its type.
LEMMA DeletedType ==
    ASSUME NEW nt \in Net, NEW i \in Iface, NEW s \in {"absent", "half", "up"}
    PROVE  Deleted(nt, i, s) \in Net
<1> DEFINE l == [nt.link EXCEPT ![i] = NoLink(s)]
           p == [nt.primary EXCEPT ![i] = FALSE]
           h == [nt.host EXCEPT ![i] = None]
<1>1. l \in [Iface -> Link] /\ p \in [Iface -> BOOLEAN] /\ h \in [Iface -> Node \cup {None}]
  BY DEF Net, NoLink, Link, None, Key
<1>2. Deleted(nt, i, s) = [nt EXCEPT !.link = l, !.primary = p, !.host = h]
  BY DEF Deleted
<1> HIDE DEF l, p, h
<1> QED
  BY <1>1, <1>2 DEF Net

LEMMA AppliedType ==
    ASSUME NEW nt \in Net, NEW i \in Iface, NEW n \in Node \cup {None},
           NEW k \in Key, awg1Key \in Key
    PROVE  LocalKey(k) \in Key /\ Applied(nt, i, n, k) \in Net
<1>1. LocalKey(k) \in Key
  BY DEF LocalKey, Key
<1>2. Deleted(nt, i, "absent") \in Net
  BY DeletedType
<1> QED
  BY <1>1, <1>2 DEF Applied, Net, Link

LEMMA RoutedType ==
    ASSUME NEW nt \in Net, NEW i \in Iface, NEW n \in Node
    PROVE  Routed(nt, i, n) \in Net /\ Unrouted(nt, i) \in Net
BY DEF Routed, Unrouted, WithHost, WithPrimary, Net, None

LEMMA PeerRemovedType ==
    ASSUME NEW nt \in Net, NEW n \in Node, NEW k \in Key
    PROVE  PeerRemoved(nt, n, k) \in Net
<1>1. ASSUME NEW l \in Link
      PROVE  [l EXCEPT !.node = None, !.key = 0] \in Link
  <2>1. \A x \in Link : [x EXCEPT !.node = None] \in Link
    BY DEF Link
  <2>2. \A x \in Link : [x EXCEPT !.key = 0] \in Link
    BY DEF Link, Key
  <2> QED
    BY <2>1, <2>2
<1> DEFINE ls == [i \in Iface |->
                    IF nt.link[i].node = n /\ nt.link[i].key = k
                    THEN [nt.link[i] EXCEPT !.node = None, !.key = 0]
                    ELSE nt.link[i]]
<1>2. ls \in [Iface -> Link]
  BY <1>1 DEF Net
<1>3. PeerRemoved(nt, n, k) = [nt EXCEPT !.link = ls]
  BY DEF PeerRemoved
<1> HIDE DEF ls
<1> QED
  BY <1>2, <1>3 DEF Net

LEMMA PolicyRoutedType ==
    ASSUME NEW nt \in Net, NEW a \in Node \cup {None}, NEW g \in Node \cup {None}
    PROVE  PolicyRouted(nt, a, g) \in Net
<1> DEFINE vpn == IF a = None THEN Unrouted(nt, "awg1") ELSE Routed(nt, "awg1", a)
           geo == IF g = None THEN Unrouted(vpn, "awg2") ELSE Routed(vpn, "awg2", g)
<1>0. 1 \in Node
  BY ConstantsAssumption DEF Node
<1>1. vpn \in Net
  BY <1>0, RoutedType DEF Iface
<1>2. geo \in Net
  <2> HIDE DEF vpn
  <2> QED  BY <1>0, <1>1, RoutedType DEF Iface
<1>3. PolicyRouted(nt, a, g) = [geo EXCEPT !.mark = (g # None)]
  BY DEF PolicyRouted
<1> HIDE DEF geo
<1> QED
  BY <1>2, <1>3 DEF Net

\* A query that found no row, or one of the rows it looks for.
LEMMA PickType ==
    ASSUME NEW S \in SUBSET Node
    PROVE  Pick(S) \subseteq Node \cup {None}
BY DEF Pick

\* Only apply_interface decides what a link was brought up for.
LEMMA LinkUpdate ==
    ASSUME NEW nt \in Net, NEW i \in Iface
    PROVE  /\ \A s \in {"absent", "half", "up"} : [nt EXCEPT !.link[i].state = s] \in Net
           /\ Abandoned(nt, i) \in Net
<1> DEFINE l == nt.link[i]
<1>1. l \in Link
  BY DEF Net
<1>2. \A s \in {"absent", "half", "up"} : [l EXCEPT !.state = s] \in Link
  BY <1>1 DEF Link
<1>3. [l EXCEPT !.kept = FALSE] \in Link
  BY <1>1 DEF Link
<1>4. \A x \in Link : [nt EXCEPT !.link[i] = x] \in Net
  BY DEF Net
<1>5. /\ \A s : [nt EXCEPT !.link[i].state = s] = [nt EXCEPT !.link[i] = [l EXCEPT !.state = s]]
      /\ Abandoned(nt, i) = [nt EXCEPT !.link[i] = [l EXCEPT !.kept = FALSE]]
  BY DEF Abandoned
<1> HIDE DEF l
<1> QED
  BY <1>2, <1>3, <1>4, <1>5

LEMMA InterruptedType ==
    ASSUME NEW nt \in Net, NEW i \in Iface, NEW n \in Node \cup {None},
           NEW k \in Key, awg1Key \in Key
    PROVE  Interrupted(nt, i, n, k) \subseteq Net
<1> DEFINE ap == Applied(nt, i, n, k)
<1>1. ap \in Net /\ \A s \in {"absent", "half"} : Deleted(nt, i, s) \in Net
  BY AppliedType, DeletedType
<1>2. \A s \in {"half", "up"} :
        [ap EXCEPT !.link[i].state = s, !.link[i].kept = FALSE] \in Net
  <2> HIDE DEF ap
  <2> SUFFICES ASSUME NEW s \in {"half", "up"}
               PROVE  [ap EXCEPT !.link[i].state = s, !.link[i].kept = FALSE] \in Net
    OBVIOUS
  <2> DEFINE l == [ap.link[i] EXCEPT !.state = s, !.kept = FALSE]
  <2>0. ap.link[i] \in Link
    BY <1>1 DEF Net
  <2>1. l \in Link
    <3>1. [ap.link[i] EXCEPT !.state = s] \in Link
      BY <2>0 DEF Link
    <3>2. \A x \in Link : [x EXCEPT !.kept = FALSE] \in Link
      BY DEF Link
    <3>3. l = [[ap.link[i] EXCEPT !.state = s] EXCEPT !.kept = FALSE]
      BY <2>0 DEF Link
    <3> HIDE DEF l
    <3> QED
      BY <3>1, <3>2, <3>3
  <2>2. [ap EXCEPT !.link[i].state = s, !.link[i].kept = FALSE] = [ap EXCEPT !.link[i] = l]
    BY <1>1 DEF Net
  <2> HIDE DEF l
  <2> QED
    BY <1>1, <2>1, <2>2 DEF Net
<1> QED
  BY <1>1, <1>2 DEF Interrupted

LEMMA PolicyFaultsType ==
    ASSUME NEW nt \in Net, NEW a \in Node \cup {None}, NEW g \in Node \cup {None}
    PROVE  PolicyFaults(nt, a, g) \subseteq Net
<1>1. \A x \in Net, i \in Iface : WithPrimary(x, i, TRUE) \in Net
  BY DEF WithPrimary, Net
<1>2. WithPrimary(WithPrimary(nt, "awg2", TRUE), "awg1", TRUE) \in Net
  BY <1>1 DEF Iface
<1>m. \A x \in Net, m \in BOOLEAN : [x EXCEPT !.mark = m] \in Net
  BY DEF Net
<1>3. \A m \in BOOLEAN : [PolicyRouted(nt, a, g) EXCEPT !.mark = m] \in Net
  BY <1>m, PolicyRoutedType
<1>4. nt.mark \in BOOLEAN
  BY DEF Net
<1> QED
  BY <1>2, <1>3, <1>4 DEF PolicyFaults

LEMMA ApplyFaultType ==
    ASSUME TypeOK, NEW nt \in Net, NEW i \in Iface, NEW n \in Node, NEW k \in Key,
           NEW nt2, ApplyFault(nt, i, n, k, nt2)
    PROVE  nt2 \in Net /\ faults' \in Nat
BY InterruptedType DEF ApplyFault, Fault, TypeOK

LEMMA PolicyFaultType ==
    ASSUME TypeOK, NEW nt \in Net, NEW rw, NEW nt2, PolicyFault(rw, nt, nt2)
    PROVE  nt2 \in Net /\ faults' \in Nat
<1>1. PICK a \in Pick(ActiveOnline(rw)), g \in Pick(GeoipUsable(rw)) :
        nt2 \in PolicyFaults(nt, a, g)
  BY DEF PolicyFault
<1>2. a \in Node \cup {None} /\ g \in Node \cup {None}
  BY PickType DEF ActiveOnline, GeoipUsable
<1>3. nt2 \in Net
  BY <1>1, <1>2, PolicyFaultsType
<1>4. faults' \in Nat
  BY DEF PolicyFault, Fault, TypeOK
<1> QED
  BY <1>3, <1>4

LEMMA StatusWrittenType ==
    ASSUME TypeOK, NEW n \in Node, NEW act, NEW geo, NEW k
    PROVE  StatusWritten(n, act, geo, k) \in [Node -> Row]
<1>1. row[n].status \in Status
  BY DEF TypeOK, Row
<1>2. ProbedStatus(n, act, geo, k) \in Status
  BY <1>1 DEF ProbedStatus, Status
<1> QED
  BY <1>2 DEF StatusWritten, TypeOK, Row

---------------------------------------------------------------------------
(* Type correctness, one lemma for each group of actions *)

\* Whoever works on a node knows which.
Assigned ==
    /\ health.pc \in {"probe", "observe", "decide", "switch", "apply"} => health.node \in Node
    /\ health.pc \in {"switch", "apply"} => health.target \in Node
    /\ \A r \in Req : req[r].kind # "none" => req[r].node \in Node
    /\ \A t \in Task : task[t].pc # "idle" => task[t].node \in Node

TypeInv == TypeOK /\ Assigned

LEMMA HealthStepType ==
    ASSUME TypeInv, HealthStep
    PROVE  TypeInv'
<1> USE DEF TypeInv, TypeOK, Assigned
<1>1. CASE HealthStart
  <2> DEFINE list == {n \in Node : row[n].exists /\ row[n].status \in Listed /\ row[n].key # 0}
             todo == {<<n, row[n].active>> : n \in list}
  <2>1. todo \in SUBSET (Node \X BOOLEAN)
    BY DEF Row
  <2> HIDE DEF todo
  <2>2. health' = [NoHealth EXCEPT !.pc = "pick", !.rotate = rotate, !.todo = todo]
    BY <1>1 DEF HealthStart, todo
  <2>3. /\ \A h \in Health : [h EXCEPT !.pc = "pick"] \in Health
        /\ \A h \in Health : [h EXCEPT !.rotate = rotate] \in Health
        /\ \A h \in Health : [h EXCEPT !.todo = todo] \in Health
    BY <2>1 DEF Health
  <2>4. health' \in Health
    BY <2>2, <2>3, NullValues
  <2>5. health'.pc = "pick"
    BY <2>2 DEF NoHealth
  <2> QED
    BY <1>1, <2>4, <2>5 DEF HealthStart, db, world, bounds
<1>2. ASSUME NEW n \in Node, NEW was \in BOOLEAN, HealthRead(n, was)
      PROVE  TypeInv'
  <2>1. row[n].active \in BOOLEAN /\ row[n].geoip \in BOOLEAN /\ row[n].key \in Key
    BY DEF Row
  <2>2. health' = [health EXCEPT
                     !.pc = IF row[n].exists THEN "probe" ELSE "observe",
                     !.todo = @ \ {<<n, was>>}, !.node = n, !.was = was,
                     !.act = row[n].active, !.geo = row[n].geoip, !.key = row[n].key]
    BY <1>2 DEF HealthRead
  <2>3. health.todo \ {<<n, was>>} \in SUBSET (Node \X BOOLEAN)
    BY DEF Health
  <2>4. /\ \A h \in Health, v \in {"probe", "observe"} : [h EXCEPT !.pc = v] \in Health
        /\ \A h \in Health, v \in SUBSET (Node \X BOOLEAN) : [h EXCEPT !.todo = v] \in Health
        /\ \A h \in Health, v \in Node : [h EXCEPT !.node = v] \in Health
        /\ \A h \in Health, v \in BOOLEAN : [h EXCEPT !.was = v] \in Health
        /\ \A h \in Health, v \in BOOLEAN : [h EXCEPT !.act = v] \in Health
        /\ \A h \in Health, v \in BOOLEAN : [h EXCEPT !.geo = v] \in Health
        /\ \A h \in Health, v \in Key : [h EXCEPT !.key = v] \in Health
    BY DEF Health
  <2>5. health' \in Health
    BY <2>1, <2>2, <2>3, <2>4
  <2>6. health'.node = n
    BY <2>2 DEF Health
  <2> QED
    BY <1>2, <2>5, <2>6 DEF HealthRead, db, world, bounds
<1>3. CASE HealthProbe
  <2>1. health.node \in Node
    BY <1>3 DEF HealthProbe
  <2>2. row' \in [Node -> Row]
    BY <1>3, <2>1, StatusWrittenType DEF HealthProbe
  <2>3. health' \in Health /\ health'.pc = "observe" /\ health'.node = health.node
    BY ZenonT(40), <1>3 DEF HealthProbe, Health
  <2> QED
    BY <1>3, <2>1, <2>2, <2>3 DEF HealthProbe, world, bounds
<1>4. CASE HealthObserve
  <2>1. health.node \in Node
    BY <1>4 DEF HealthObserve
  <2>2. incident' \in BOOLEAN
    BY <1>4 DEF HealthObserve, Outage, Health
  <2>3. fails' \in [Node -> Nat] /\ since' \in [Node -> Nat]
    <3>1. FailCount \in Nat
      BY <2>1 DEF FailCount
    <3>2. fails' = [fails EXCEPT ![health.node] = FailCount]
      BY <1>4 DEF HealthObserve
    <3>3. since' = [since EXCEPT ![health.node] =
                      IF health.alive THEN 0
                      ELSE IF Dead /\ @ < Threshold THEN @ + 1 ELSE @]
      BY <1>4 DEF HealthObserve
    <3>4. fails' \in [Node -> Nat]
      BY <3>1, <3>2
    <3>5. since' \in [Node -> Nat]
      BY <2>1, <3>3
    <3> QED
      BY <3>4, <3>5
  <2>4. health' \in Health /\ (health'.pc \in {"idle", "pick"} \/ health'.node = health.node)
    <3>1. CASE health' = [health EXCEPT !.pc = "decide"]
      BY <3>1 DEF Health
    <3>2. CASE health' = Continue(health.todo)
      BY <3>2, ContinueType
    <3> QED
      BY <1>4, <3>1, <3>2 DEF HealthObserve
  <2>5. health'.pc \notin {"switch", "apply"}
    BY <1>4, ContinueType DEF HealthObserve, Health
  <2> QED
    BY <1>4, <2>1, <2>2, <2>3, <2>4, <2>5 DEF HealthObserve, world, bounds
<1>d. CASE HealthDecide
  <2>1. health.node \in Node
    BY <1>d DEF HealthDecide
  <2>2. CASE Selected
    <3>1. PICK t \in FailoverTarget(health.node) :
             health' = [health EXCEPT !.pc = "switch", !.target = t,
                                      !.tkey = row[t].key, !.tact = row[t].active]
      BY <1>d, <2>2 DEF HealthDecide
    <3>2. t \in Node
      BY <2>1, <3>1, TargetIsNode
    <3>3. health' \in Health /\ health'.node \in Node /\ health'.target \in Node
      BY <2>1, <3>1, <3>2 DEF Health, Row
    <3> QED
      BY <1>d, <3>3 DEF HealthDecide, db, world, bounds
  <2>3. CASE ~Selected
    <3>1. health' \in Health /\ health'.pc \in {"idle", "pick"}
      BY <1>d, <2>3, ContinueType DEF HealthDecide
    <3> QED
      BY <1>d, <3>1 DEF HealthDecide, db, world, bounds
  <2> QED
    BY <2>2, <2>3
<1>5. CASE HealthSwitch
  <2>1. health.node \in Node /\ health.target \in Node /\ health.tact \in BOOLEAN
    BY <1>5 DEF HealthSwitch, Health
  <2>2. row' \in [Node -> Row]
    <3> DEFINE n == health.node
               t == health.target
               moved == [row EXCEPT ![n].active = IF t = n THEN @ ELSE FALSE]
    <3>0. (IF t = n THEN row[n].active ELSE FALSE) \in BOOLEAN
      BY <2>1 DEF Row
    <3>1. moved \in [Node -> Row]
      BY <2>1, <3>0, RowUpdate
    <3>2. ((t # n /\ ~health.tact) \/ moved[t].active) \in BOOLEAN
      BY <2>1, <3>1 DEF Row
    <3>3. "degraded" \in Status
      BY DEF Status
    <3> HIDE DEF moved
    <3>4. [moved EXCEPT ![t].status = "degraded",
                        ![t].active = (t # n /\ ~health.tact) \/ @] \in [Node -> Row]
      BY <2>1, <3>1, <3>2, <3>3, RowUpdate
    <3> QED
      BY <1>5, <3>4 DEF HealthSwitch, moved
  <2>3. CASE health' = [health EXCEPT !.pc = "apply"]
    BY <1>5, <2>1, <2>2, <2>3 DEF HealthSwitch, world, bounds, Health
  <2>4. CASE health' = Continue(health.todo)
    <3>1. health' \in Health /\ health'.pc \in {"idle", "pick"}
      BY <2>4, ContinueType
    <3> QED
      BY <1>5, <2>2, <3>1 DEF HealthSwitch, world, bounds
  <2> QED
    BY <1>5, <2>3, <2>4 DEF HealthSwitch
<1>6. CASE HealthApply
  <2>1. /\ health.node \in Node /\ health.target \in Node /\ health.tkey \in Key
        /\ "awg1" \in Iface
    BY <1>6 DEF HealthApply, Health, Iface
  <2>2. LocalKey(health.tkey) \in Key /\ FailedOver \in Net
    BY <2>1, AppliedType, RoutedType DEF FailedOver
  <2>3. fails' \in [Node -> Nat] /\ since' \in [Node -> Nat]
    BY <1>6, <2>1 DEF HealthApply
  <2>4. health' \in Health /\ health'.pc \in {"idle", "pick"}
    BY <1>6, ContinueType DEF HealthApply
  <2>5. net' \in Net /\ awg1Key' \in Key /\ faults' \in Nat
    BY <1>6, <2>1, <2>2, ApplyFaultType DEF HealthApply
  <2> QED
    BY <1>6, <2>3, <2>4, <2>5 DEF HealthApply, world
<1> QED
  BY <1>1, <1>2, <1>3, <1>4, <1>5, <1>6, <1>d DEF HealthStep

LEMMA BeginRequestType ==
    ASSUME TypeInv, NEW r \in Req, NEW n \in Node, BeginRequest(r, n)
    PROVE  TypeInv'
<1> USE DEF TypeInv, TypeOK, Assigned
<1>1. PICK kind \in RequestKinds, others \in SUBSET Node : Begin(r, kind, n, others)
  <2>1. CASE BeginActivate(r, n)
    BY <2>1 DEF BeginActivate, RequestKinds
  <2>2. CASE BeginReset(r, n)
    BY <2>2 DEF BeginReset, RequestKinds
  <2>3. CASE BeginOther(r, n)
    BY <2>3 DEF BeginOther, RequestKinds
  <2>4. CASE BeginGeoipOn(r, n)
    <3>1. PICK g \in Pick({m \in Node : row[m].geoip}) :
             Begin(r, "geoip_on", n, {g} \ {n, None})
      BY <2>4 DEF BeginGeoipOn
    <3>2. {g} \ {n, None} \in SUBSET Node
      BY PickType
    <3> QED
      BY <3>1, <3>2 DEF RequestKinds
  <2>5. CASE BeginGeoipOff(r, n)
    BY <2>5 DEF BeginGeoipOff, RequestKinds
  <2> QED
    BY <2>1, <2>2, <2>3, <2>4, <2>5 DEF BeginRequest
<1> DEFINE h == [kind |-> kind, node |-> n, st |-> row[n].status,
                 key |-> row[n].key, act |-> row[n].active,
                 geo |-> row[n].geoip, others |-> others]
<1>2. row[n].status \in Status /\ row[n].key \in Key /\ row[n].active \in BOOLEAN
      /\ row[n].geoip \in BOOLEAN
  BY DEF Row
<1>3. h \in Handler /\ h.node \in Node
  BY <1>2 DEF Handler
<1>4. req' = [req EXCEPT ![r] = h]
  BY <1>1 DEF Begin
<1>5. requests' \in Nat
  BY <1>1 DEF Begin
<1> HIDE DEF h
<1>6. /\ req' \in [Req -> Handler]
      /\ \A q \in Req : req'[q].kind # "none" => req'[q].node \in Node
  BY <1>3, <1>4
<1> QED
  BY <1>1, <1>5, <1>6 DEF Begin, db, world

\* What a handler holds when it ends, and what is left to show then.
LEMMA EndsType ==
    ASSUME TypeInv, NEW r \in Req, NEW kind \in RequestKinds, kind # "none", Ends(r, kind)
    PROVE  /\ req[r].node \in Node /\ req[r].key \in Key /\ req[r].st \in Status
           /\ req[r].act \in BOOLEAN /\ req[r].geo \in BOOLEAN
           /\ req' \in [Req -> Handler]
           /\ \A q \in Req : req'[q].kind # "none" => req'[q].node \in Node
<1> USE DEF TypeInv, TypeOK, Assigned
<1>1. req[r].node \in Node /\ req[r] \in Handler
  BY DEF Ends
<1>2. /\ req' \in [Req -> Handler]
      /\ \A q \in Req : req'[q].kind # "none" => req'[q].node \in Node
  BY NullValues DEF Ends, NoHandler
<1> QED
  BY <1>1, <1>2 DEF Handler

LEMMA HandlerPost ==
    ASSUME TypeInv, HandlerFrame, req' \in [Req -> Handler],
           \A q \in Req : req'[q].kind # "none" => req'[q].node \in Node,
           row' \in [Node -> Row], awg1Key' \in Key, net' \in Net,
           fails' \in [Node -> Nat], remote' \in [Node -> FarEnd],
           lastKey' \in Nat, faults' \in Nat
    PROVE  TypeInv'
BY DEF HandlerFrame, TypeInv, TypeOK, Assigned

\* The rows that the routing queries find are nodes.
LEMMA QueriesType ==
    ASSUME NEW rw
    PROVE  /\ Pick(ActiveOnline(rw)) \subseteq Node \cup {None}
           /\ Pick(GeoipUsable(rw)) \subseteq Node \cup {None}
           /\ \A i \in Iface : Pick(Loadable(rw, i)) \subseteq Node \cup {None}
BY PickType DEF ActiveOnline, GeoipUsable, Loadable

LEMMA FinishRequestType ==
    ASSUME TypeInv, NEW r \in Req, FinishRequest(r)
    PROVE  TypeInv'
<1> DEFINE n == req[r].node
           k == req[r].key
<1>t. /\ row \in [Node -> Row] /\ awg1Key \in Key /\ net \in Net
      /\ fails \in [Node -> Nat] /\ remote \in [Node -> FarEnd]
      /\ lastKey \in Nat /\ faults \in Nat /\ TypeOK
  BY DEF TypeInv, TypeOK
<1>i. "awg1" \in Iface /\ "awg2" \in Iface
  BY DEF Iface
<1>1. CASE FinishActivate(r)
  <2>1. n \in Node /\ k \in Key /\ HandlerFrame
    BY <1>1, EndsType DEF FinishActivate, RequestKinds
  <2>2. \A m \in Node : /\ [row[m] EXCEPT !.active = TRUE] \in Row
                         /\ [row[m] EXCEPT !.active = FALSE] \in Row
    BY <1>t, RowUpdate
  <2>3. row' \in [Node -> Row]
    BY <1>1, <1>t, <2>2 DEF FinishActivate, Refused
  <2>4. LocalKey(k) \in Key /\ Routed(Applied(net, "awg1", n, k), "awg1", n) \in Net
    BY <1>t, <1>i, <2>1, AppliedType, RoutedType
  <2>5. net' \in Net /\ faults' \in Nat
    <3>1. \/ net' \in {net, Routed(Applied(net, "awg1", n, k), "awg1", n)} /\ UNCHANGED faults
          \/ ApplyFault(net, "awg1", n, k, net')
      BY <1>1 DEF FinishActivate, Refused
    <3> QED
      BY <1>t, <1>i, <2>1, <2>4, <3>1, ApplyFaultType
  <2>6. awg1Key' \in Key /\ fails' \in [Node -> Nat] /\ remote' \in [Node -> FarEnd]
        /\ lastKey' \in Nat
    BY <1>1, <1>t, <2>4 DEF FinishActivate, Refused
  <2> QED
    BY <1>1, <2>1, <2>3, <2>5, <2>6, EndsType, HandlerPost DEF FinishActivate, RequestKinds
<1>2. CASE FinishReset(r)
  <2> DEFINE i == IF req[r].geo THEN "awg2" ELSE "awg1"
             net1 == Applied(net, i, n, k)
             row1 == IF req[r].st = "online" THEN row
                     ELSE [row EXCEPT ![n].status = "online"]
             net2 == IF req[r].act THEN Routed(net1, "awg1", n) ELSE net1
  <2>1. n \in Node /\ k \in Key /\ HandlerFrame
    BY <1>2, EndsType DEF FinishReset, RequestKinds
  <2>2. row1 \in [Node -> Row]
    BY <1>t, <2>1, RowUpdate DEF Status
  <2>3. LocalKey(k) \in Key /\ net1 \in Net
    BY <1>t, <1>i, <2>1, AppliedType
  <2>4. net2 \in Net
    <3> HIDE DEF net1
    <3> QED  BY <1>i, <2>1, <2>3, RoutedType
  <2>5. i \in Iface
    BY <1>i
  <2> HIDE DEF i, net1, net2, row1
  <2>6. \A a \in Pick(ActiveOnline(row1)), g \in Pick(GeoipUsable(row1)) :
           PolicyRouted(net2, a, g) \in Net
    BY <2>4, QueriesType, PolicyRoutedType
  <2>7. net' \in Net /\ faults' \in Nat
    <3>1. \/ net' \in {Abandoned(net1, i), net2} /\ UNCHANGED faults
          \/ /\ \E a \in Pick(ActiveOnline(row1)), g \in Pick(GeoipUsable(row1)) :
                  net' = PolicyRouted(net2, a, g)
             /\ UNCHANGED faults
          \/ ApplyFault(net, i, n, k, net')
          \/ PolicyFault(row1, Abandoned(net2, "awg2"), net')
      BY <1>2 DEF FinishReset, i, net1, net2, row1
    <3>2. Abandoned(net1, i) \in Net /\ Abandoned(net2, "awg2") \in Net
      BY <1>i, <2>3, <2>4, <2>5, LinkUpdate
    <3> QED
      BY <1>t, <2>1, <2>4, <2>5, <2>6, <3>1, <3>2, ApplyFaultType, PolicyFaultType
  <2>8. row' \in [Node -> Row]
    BY <1>2, <1>t, <2>2 DEF FinishReset, row1
  <2>9. awg1Key' \in Key /\ fails' \in [Node -> Nat] /\ remote' \in [Node -> FarEnd]
        /\ lastKey' \in Nat
    BY <1>2, <1>t, <2>3 DEF FinishReset
  <2> QED
    BY <1>2, <2>1, <2>7, <2>8, <2>9, EndsType, HandlerPost DEF FinishReset, RequestKinds
<1>3. CASE FinishGeoipOn(r)
  <2> DEFINE net1 == Applied(net, "awg2", n, k)
  <2>1. n \in Node /\ k \in Key /\ HandlerFrame
    BY <1>3, EndsType DEF FinishGeoipOn, RequestKinds
  <2>2. \A m \in Node : /\ [row[m] EXCEPT !.geoip = TRUE] \in Row
                         /\ [row[m] EXCEPT !.geoip = FALSE] \in Row
    BY <1>t, RowUpdate
  <2>3. row' \in [Node -> Row]
    BY <1>3, <1>t, <2>2 DEF FinishGeoipOn, Refused
  <2>4. \A rw : \A a \in Pick(ActiveOnline(rw)), g \in Pick(GeoipUsable(rw)) :
           PolicyRouted(net1, a, g) \in Net
    BY <1>t, <1>i, <2>1, AppliedType, QueriesType, PolicyRoutedType
  <2>5. net' \in Net /\ faults' \in Nat
    <3>1. Abandoned(net1, "awg2") \in Net
      BY <1>t, <1>i, <2>1, AppliedType, LinkUpdate
    <3>2. \/ net' = net /\ UNCHANGED faults
          \/ /\ \E rw : \E a \in Pick(ActiveOnline(rw)), g \in Pick(GeoipUsable(rw)) :
                  net' = PolicyRouted(net1, a, g)
             /\ UNCHANGED faults
          \/ ApplyFault(net, "awg2", n, k, net')
          \/ \E rw : PolicyFault(rw, Abandoned(net1, "awg2"), net')
      BY <1>3 DEF FinishGeoipOn, Refused
    <3> QED
      BY <1>t, <1>i, <2>1, <2>4, <3>1, <3>2, ApplyFaultType, PolicyFaultType
  <2>6. awg1Key' \in Key /\ fails' \in [Node -> Nat] /\ remote' \in [Node -> FarEnd]
        /\ lastKey' \in Nat
    BY <1>3, <1>t DEF FinishGeoipOn, Refused
  <2> QED
    BY <1>3, <2>1, <2>3, <2>5, <2>6, EndsType, HandlerPost DEF FinishGeoipOn, RequestKinds
<1>4. CASE FinishGeoipOff(r)
  <2>1. n \in Node /\ HandlerFrame
    BY <1>4, EndsType DEF FinishGeoipOff, RequestKinds
  <2>2. [row EXCEPT ![n].geoip = FALSE] \in [Node -> Row]
    BY <1>t, <2>1, RowUpdate
  <2>3. Deleted(net, "awg2", "absent") \in Net
    BY <1>t, <1>i, DeletedType
  <2>4. \A rw : \A a \in Pick(ActiveOnline(rw)), g \in Pick(GeoipUsable(rw)) :
           PolicyRouted(Deleted(net, "awg2", "absent"), a, g) \in Net
    BY <2>3, QueriesType, PolicyRoutedType
  <2>5. row' \in [Node -> Row]
    BY <1>4, <1>t, <2>2 DEF FinishGeoipOff, Refused
  <2>7. net' \in Net /\ faults' \in Nat
    <3> DEFINE row1 == [row EXCEPT ![n].geoip = FALSE]
    <3>1. \/ net' = net /\ UNCHANGED faults
          \/ /\ \E a \in Pick(ActiveOnline(row1)), g \in Pick(GeoipUsable(row1)) :
                  net' = PolicyRouted(Deleted(net, "awg2", "absent"), a, g)
             /\ UNCHANGED faults
          \/ PolicyFault(row1, Deleted(net, "awg2", "absent"), net')
      BY <1>4 DEF FinishGeoipOff, Refused
    <3> HIDE DEF row1
    <3> QED
      BY <1>t, <2>3, <2>4, <3>1, PolicyFaultType
  <2>6. awg1Key' \in Key /\ fails' \in [Node -> Nat] /\ remote' \in [Node -> FarEnd]
        /\ lastKey' \in Nat
    BY <1>4, <1>t DEF FinishGeoipOff, Refused
  <2> QED
    BY <1>4, <2>1, <2>5, <2>6, <2>7, EndsType, HandlerPost DEF FinishGeoipOff, RequestKinds
<1>5. CASE FinishUpdate(r)
  <2> DEFINE awg1(x) == IF req[r].act THEN Applied(net, "awg1", n, x) ELSE net
             awg2(x) == Applied(awg1(x), "awg2", n, x)
             left(x, rw) ==
                \/ ApplyFault(net, "awg1", n, x, net')
                \/ ApplyFault(awg1(x), "awg2", n, x, net')
                \/ PolicyFault(rw, Abandoned(awg2(x), "awg2"), net')
             routed(x, rw) ==
                \/ net' \in {net, awg1(x)}
                \/ \E a \in Pick(ActiveOnline(rw)), g \in Pick(GeoipUsable(rw)) :
                     net' = PolicyRouted(awg2(x), a, g)
  <2>1. n \in Node /\ k \in Key /\ HandlerFrame
    BY <1>5, EndsType DEF FinishUpdate, RequestKinds
  <2>2. \A x \in Key : LocalKey(x) \in Key /\ awg1(x) \in Net
    BY <1>t, <1>i, <2>1, AppliedType
  <2>3. \A x \in Key : awg2(x) \in Net
    <3> HIDE DEF awg1
    <3> QED  BY <1>t, <1>i, <2>1, <2>2, AppliedType
  <2>4. -(lastKey + 1) \in Key /\ lastKey + 1 \in Nat
        /\ Imported(-(lastKey + 1)) \in FarEnd
    BY <1>t DEF Key, Imported, FarEnd
  <2>5. \A x \in Key : [row EXCEPT ![n].key = x] \in [Node -> Row]
    BY <1>t, <2>1, RowUpdate
  <2> HIDE DEF awg1, awg2
  <2>6. CASE Refused(r)
    BY <1>5, <1>t, <2>1, <2>6, EndsType, HandlerPost DEF FinishUpdate, Refused, RequestKinds
  <2>7. ASSUME NEW rekey \in BOOLEAN, NEW x, NEW row1,
               x = IF rekey THEN -(lastKey + 1) ELSE req[r].key,
               row1 = IF rekey THEN [row EXCEPT ![n].key = x] ELSE row,
               /\ lastKey' = IF rekey THEN lastKey + 1 ELSE lastKey
               /\ remote' = IF rekey THEN [remote EXCEPT ![n] = Imported(x)] ELSE remote
               /\ UNCHANGED fails
               /\ \/ /\ row' = row1 /\ routed(x, row1)
                     /\ awg1Key' = IF req[r].act /\ x # 0 THEN LocalKey(x) ELSE awg1Key
                     /\ UNCHANGED faults
                  \/ left(x, row1) /\ UNCHANGED <<row, awg1Key>>
        PROVE  TypeInv'
    <3>1. x \in Key
      BY <2>1, <2>4, <2>7
    <3>2. row1 \in [Node -> Row]
      BY <1>t, <2>5, <2>7, <3>1
    <3>3. net' \in Net /\ faults' \in Nat
      <4>0. \A rw : \A a \in Pick(ActiveOnline(rw)), g \in Pick(GeoipUsable(rw)) :
               PolicyRouted(awg2(x), a, g) \in Net
        BY <2>3, <3>1, QueriesType, PolicyRoutedType
      <4>1. routed(x, row1) => net' \in Net
        BY <1>t, <2>2, <3>1, <4>0
      <4>2. left(x, row1) => net' \in Net /\ faults' \in Nat
        BY <1>t, <1>i, <2>1, <2>2, <2>3, <3>1, LinkUpdate, ApplyFaultType, PolicyFaultType
      <4> QED
        BY <1>t, <2>7, <4>1, <4>2
    <3>4. remote' \in [Node -> FarEnd] /\ lastKey' \in Nat
      BY <1>t, <2>1, <2>4, <2>7
    <3>5. awg1Key' \in Key /\ row' \in [Node -> Row] /\ fails' \in [Node -> Nat]
      <4> HIDE DEF left, routed
      <4> QED  BY <1>t, <2>2, <2>7, <3>1, <3>2
    <3> QED
      BY <1>5, <2>1, <3>3, <3>4, <3>5, EndsType, HandlerPost
      DEF FinishUpdate, RequestKinds
  <2>8. ~Refused(r) =>
          \E rekey \in BOOLEAN :
             LET x == IF rekey THEN -(lastKey + 1) ELSE req[r].key
                 row1 == IF rekey THEN [row EXCEPT ![n].key = x] ELSE row
             IN /\ lastKey' = IF rekey THEN lastKey + 1 ELSE lastKey
                /\ remote' = IF rekey THEN [remote EXCEPT ![n] = Imported(x)] ELSE remote
                /\ UNCHANGED fails
                /\ \/ /\ row' = row1 /\ routed(x, row1)
                      /\ awg1Key' = IF req[r].act /\ x # 0 THEN LocalKey(x) ELSE awg1Key
                      /\ UNCHANGED faults
                   \/ left(x, row1) /\ UNCHANGED <<row, awg1Key>>
    BY <1>5 DEF FinishUpdate, awg1, awg2
  <2> HIDE DEF left, routed
  <2> QED
    BY <2>6, <2>7, <2>8
<1>6. CASE FinishDelete(r)
  <2> DEFINE one(nt, act) == IF act THEN Unrouted(nt, "awg1") ELSE nt
             freed(nt, act, geo) == IF geo THEN Unrouted(one(nt, act), "awg2")
                                    ELSE one(nt, act)
             kernel(nt) == IF req[r].geo THEN Deleted(one(nt, req[r].act), "awg2", "absent")
                           ELSE one(nt, req[r].act)
             bare == IF k = 0 THEN net ELSE PeerRemoved(net, n, k)
  <2>1. n \in Node /\ k \in Key /\ HandlerFrame
    BY <1>6, EndsType DEF FinishDelete, RequestKinds
  <2>2. \A nt \in Net : \A act : one(nt, act) \in Net
    BY <1>i, <2>1, RoutedType
  <2>3. bare \in Net
    BY <1>t, <2>1, PeerRemovedType
  <2> HIDE DEF one, bare
  <2>4. \A nt \in Net : \A act, geo : freed(nt, act, geo) \in Net
    BY <1>i, <2>1, <2>2, RoutedType
  <2>5. \A nt \in Net : kernel(nt) \in Net
    BY <1>i, <2>2, DeletedType
  <2> HIDE DEF freed, kernel
  <2>6. net' \in Net
    <3>1. \/ net' = kernel(bare)
          \/ net' = kernel(IF row[n].exists THEN freed(bare, row[n].active, row[n].geoip)
                           ELSE bare)
      BY <1>6 DEF FinishDelete, kernel, bare, freed, one
    <3> QED
      BY <2>3, <2>4, <2>5, <3>1
  <2>7. row' \in [Node -> Row] /\ fails' \in [Node -> Nat]
    BY <1>6, <1>t, <2>1, NullValues DEF FinishDelete
  <2>8. remote' \in [Node -> FarEnd]
    BY <1>6, <1>t, <2>1, NullValues DEF FinishDelete
  <2>9. awg1Key' \in Key /\ lastKey' \in Nat /\ faults' \in Nat
    BY <1>6, <1>t DEF FinishDelete
  <2> QED
    BY <1>6, <2>1, <2>6, <2>7, <2>8, <2>9, EndsType, HandlerPost DEF FinishDelete, RequestKinds
<1>7. CASE FinishCheck(r)
  <2>1. n \in Node /\ HandlerFrame
    BY <1>7, EndsType DEF FinishCheck, RequestKinds
  <2>2. row' \in [Node -> Row]
    BY <1>7, <1>t, <2>1, StatusWrittenType DEF FinishCheck
  <2> QED
    BY <1>7, <1>t, <2>1, <2>2, EndsType, HandlerPost DEF FinishCheck, RequestKinds
<1> QED
  BY <1>1, <1>2, <1>3, <1>4, <1>5, <1>6, <1>7 DEF FinishRequest

LEMMA JobUpdate ==
    ASSUME NEW x \in Job
    PROVE  /\ \A v \in {"queued", "ssh", "remote", "up", "save", "apply", "routes"} :
                 [x EXCEPT !.pc = v] \in Job
           /\ \A v \in {"deploy", "redeploy"} : [x EXCEPT !.kind = v] \in Job
           /\ \A v \in Node : [x EXCEPT !.node = v] \in Job
           /\ \A v \in Key : [x EXCEPT !.key = v] \in Job
           /\ \A v \in Key : [x EXCEPT !.peer = v] \in Job
           /\ \A v \in BOOLEAN : [x EXCEPT !.first = v] \in Job
           /\ \A v \in BOOLEAN : [x EXCEPT !.act = v] \in Job
           /\ \A v \in BOOLEAN : [x EXCEPT !.geo = v] \in Job
           /\ \A v \in BOOLEAN : [x EXCEPT !.drop = v] \in Job
BY DEF Job

\* A task ended, or went on with the same node.
LEMMA JobPost ==
    ASSUME TypeInv, JobFrame, NEW t \in Task, NEW x \in Job,
           task' = [task EXCEPT ![t] = x], x.pc = "idle" \/ x.node \in Node,
           row' \in [Node -> Row], net' \in Net, remote' \in [Node -> FarEnd],
           grace' \in SUBSET Node, lastKey' \in Nat, faults' \in Nat
    PROVE  TypeInv'
<1> USE DEF TypeInv, TypeOK, Assigned
<1>1. /\ task' \in [Task -> Job]
      /\ \A u \in Task : task'[u].pc # "idle" => task'[u].node \in Node
  OBVIOUS
<1> QED
  BY <1>1 DEF JobFrame

LEMMA CleanedUpType ==
    ASSUME TypeInv, NEW t \in Task, task[t].node \in Node
    PROVE  CleanedUp(t) \in [Node -> Row]
<1> DEFINE n == task[t].node
<1>1. row \in [Node -> Row] /\ row[n] \in Row
  BY DEF TypeInv, TypeOK
<1>2. [row[n] EXCEPT !.status = "error"] \in Row
  BY <1>1, RowUpdate DEF Status
<1> QED
  BY <1>1, <1>2, NullValues DEF CleanedUp

LEMMA JobStepType ==
    ASSUME TypeInv, NEW t \in Task, JobStep(t)
    PROVE  TypeInv'
<1> DEFINE n == task[t].node
<1>t. /\ row \in [Node -> Row] /\ awg1Key \in Key /\ net \in Net
      /\ remote \in [Node -> FarEnd] /\ grace \in SUBSET Node
      /\ lastKey \in Nat /\ faults \in Nat /\ TypeOK
      /\ task[t] \in Job /\ (task[t].pc # "idle" => n \in Node)
  BY DEF TypeInv, TypeOK, Assigned
<1>i. JobIface(t) \in Iface
  BY DEF JobIface, Iface
<1>n. NoJob \in Job /\ NoJob.pc = "idle"
  BY NullValues DEF NoJob
<1>1. CASE DeployStart(t)
  <2>1. n \in Node /\ JobFrame
    BY <1>1, <1>t DEF DeployStart
  <2>2. row[n].key \in Key
    BY <1>t, <2>1 DEF Row
  <2>3. row' \in [Node -> Row]
    <3>1. [row EXCEPT ![n].status = "deploying"] \in [Node -> Row]
      BY <1>t, <2>1, RowUpdate DEF Status
    <3> QED
      BY <1>1, <1>t, <3>1 DEF DeployStart
  <2> DEFINE x == [task[t] EXCEPT !.pc = "ssh", !.key = row[n].key, !.peer = awg1Key]
  <2>4. x \in Job
    BY <1>t, <2>2, JobUpdate
  <2>5. x.node = n
    BY <1>t DEF Job
  <2>6. task' = [task EXCEPT ![t] = x] \/ task' = [task EXCEPT ![t] = NoJob]
    BY <1>1 DEF DeployStart
  <2> HIDE DEF x
  <2> QED
    BY <1>1, <1>t, <1>n, <2>1, <2>3, <2>4, <2>5, <2>6, JobPost DEF DeployStart
<1>2. CASE DeployKey(t)
  <2>1. n \in Node /\ JobFrame
    BY <1>2, <1>t DEF DeployKey
  <2>2. DeploymentKey(t) \in Key
    BY <1>t DEF DeploymentKey, Job, Key
  <2>3. row' \in [Node -> Row]
    BY <1>2, <1>t, <2>1, <2>2, RowUpdate DEF DeployKey
  <2>4. lastKey' \in Nat
    BY <1>2, <1>t, <2>2 DEF DeployKey, Key
  <2> DEFINE x == [task[t] EXCEPT !.pc = "remote", !.key = DeploymentKey(t)]
  <2>5. x \in Job
    BY <1>t, <2>2, JobUpdate
  <2>6. x.node = n
    BY <1>t DEF Job
  <2>7. task' = [task EXCEPT ![t] = x]
    BY <1>2 DEF DeployKey
  <2> HIDE DEF x
  <2> QED
    BY <1>2, <1>t, <2>1, <2>3, <2>4, <2>5, <2>6, <2>7, JobPost DEF DeployKey
<1>3. CASE RedeployStart(t)
  <2>1. n \in Node /\ JobFrame
    BY <1>3, <1>t DEF RedeployStart
  <2>2. row[n].key \in Key
    BY <1>t, <2>1 DEF Row
  <2> DEFINE x == [task[t] EXCEPT !.pc = "remote", !.key = row[n].key, !.peer = awg1Key]
  <2>3. x \in Job
    BY <1>t, <2>2, JobUpdate
  <2>4. x.node = n
    BY <1>t DEF Job
  <2>5. task' = [task EXCEPT ![t] = x] \/ task' = [task EXCEPT ![t] = NoJob]
    BY <1>3 DEF RedeployStart
  <2> HIDE DEF x
  <2> QED
    BY <1>3, <1>t, <1>n, <2>1, <2>3, <2>4, <2>5, JobPost DEF RedeployStart
<1>s. CASE RemoteStop(t)
  <2>1. n \in Node /\ JobFrame
    BY <1>s, <1>t DEF RemoteStop
  <2>2. remote' \in [Node -> FarEnd]
    BY <1>s, <1>t, NullValues DEF RemoteStop
  <2> DEFINE x == [task[t] EXCEPT !.pc = "up"]
  <2>3. x \in Job /\ x.node = n
    BY <1>t DEF Job
  <2>4. task' = [task EXCEPT ![t] = x]
    BY <1>s DEF RemoteStop
  <2> HIDE DEF x
  <2> QED
    BY <1>s, <1>t, <2>1, <2>2, <2>3, <2>4, JobPost DEF RemoteStop
<1>4. CASE RemoteInstall(t)
  <2>1. n \in Node /\ JobFrame
    BY <1>4, <1>t DEF RemoteInstall
  <2>2. remote' \in [Node -> FarEnd]
    <3>1. Installed(t) \in FarEnd
      BY <1>t DEF Installed, FarEnd, Job
    <3> QED
      BY <1>4, <1>t, <3>1 DEF RemoteInstall
  <2> DEFINE x == [task[t] EXCEPT !.pc = "save"]
  <2>3. x \in Job /\ x.node = n
    BY <1>t DEF Job
  <2>4. task' = [task EXCEPT ![t] = x]
    BY <1>4 DEF RemoteInstall
  <2> HIDE DEF x
  <2> QED
    BY <1>4, <1>t, <2>1, <2>2, <2>3, <2>4, JobPost DEF RemoteInstall
<1>5. CASE DeploySave(t)
  <2> DEFINE first == \A m \in Node \ {n} : row[m].status # "online"
             x == [task[t] EXCEPT !.pc = "apply", !.first = first]
  <2>1. n \in Node /\ JobFrame
    BY <1>5, <1>t DEF DeploySave
  <2>2. first \in BOOLEAN /\ (first \/ row[n].active) \in BOOLEAN
    BY <1>t, <2>1 DEF Row
  <2> HIDE DEF first
  <2>3. [row EXCEPT ![n].status = "online", ![n].deployed = TRUE,
                    ![n].active = first \/ @] \in [Node -> Row]
    BY <1>t, <2>1, <2>2, RowUpdate DEF Status
  <2>4. row' \in [Node -> Row]
    BY <1>5, <2>3 DEF DeploySave, first
  <2>5. x \in Job
    BY <1>t, <2>2, JobUpdate
  <2>6. x.node = n
    BY <1>t DEF Job
  <2>7. task' = [task EXCEPT ![t] = x]
    BY <1>5 DEF DeploySave, first
  <2>8. grace' \in SUBSET Node /\ UNCHANGED <<net, remote, lastKey, faults>>
    BY <1>5, <1>t, <2>1 DEF DeploySave
  <2> HIDE DEF x
  <2> QED
    BY <1>t, <2>1, <2>4, <2>5, <2>6, <2>7, <2>8, JobPost
<1>6. CASE RedeploySave(t)
  <2> DEFINE x == [task[t] EXCEPT !.pc = "apply", !.act = row[n].active, !.geo = row[n].geoip]
  <2>1. n \in Node /\ JobFrame
    BY <1>6, <1>t DEF RedeploySave
  <2>2. row[n].active \in BOOLEAN /\ row[n].geoip \in BOOLEAN
    BY <1>t, <2>1 DEF Row
  <2>3. [row EXCEPT ![n].status = "online", ![n].deployed = TRUE] \in [Node -> Row]
    BY <1>t, <2>1, RowUpdate DEF Status
  <2>4. x \in Job
    BY <1>t, <2>2, JobUpdate
  <2>5. x.node = n
    BY <1>t DEF Job
  <2>6. task' = [task EXCEPT ![t] = x] \/ task' = [task EXCEPT ![t] = NoJob]
    BY <1>6 DEF RedeploySave
  <2> HIDE DEF x
  <2> QED
    BY <1>6, <1>t, <1>n, <2>1, <2>3, <2>4, <2>5, <2>6, JobPost DEF RedeploySave
<1>7. CASE JobApply(t)
  <2> DEFINE x == [task[t] EXCEPT !.pc = "routes"]
  <2>1. n \in Node /\ JobFrame
    BY <1>7, <1>t DEF JobApply
  <2>2. row[n].key \in Key
    BY <1>t, <2>1 DEF Row
  <2>3. net' \in Net
    BY <1>7, <1>t, <1>i, <2>1, <2>2, AppliedType DEF JobApply
  <2>4. x \in Job /\ x.node = n
    BY <1>t DEF Job
  <2>5. task' = [task EXCEPT ![t] = x] \/ task' = [task EXCEPT ![t] = NoJob]
    BY <1>7 DEF JobApply
  <2> HIDE DEF x
  <2> QED
    BY <1>7, <1>t, <1>n, <2>1, <2>3, <2>4, <2>5, JobPost DEF JobApply
<1>8. CASE JobRoutes(t)
  <2>1. n \in Node /\ JobFrame
    BY <1>8, <1>t DEF JobRoutes
  <2>2. net' \in Net
    BY <1>8, <1>t, <1>i, <2>1, RoutedType DEF JobRoutes
  <2> QED
    BY <1>8, <1>t, <1>n, <2>1, <2>2, JobPost DEF JobRoutes
<1>9. CASE JobFails(t)
  <2>1. n \in Node /\ JobFrame
    BY <1>9, <1>t DEF JobFails
  <2>2. net' \in Net /\ faults' \in Nat
    <3>1. \/ Fault("task") /\ UNCHANGED net
          \/ ApplyFault(net, JobIface(t), n, row[n].key, net')
          \/ UNCHANGED <<net, faults>>
      BY <1>9 DEF JobFails
    <3>2. row[n].key \in Key
      BY <1>t, <2>1 DEF Row
    <3> QED
      BY <1>t, <1>i, <2>1, <3>1, <3>2, ApplyFaultType DEF Fault
  <2>3. remote' \in [Node -> FarEnd]
    <3>1. Installed(t) \in FarEnd
      BY <1>t DEF Installed, FarEnd, Job
    <3> QED
      BY <1>9, <1>t, <2>1, <3>1 DEF JobFails
  <2>4. row' \in [Node -> Row]
    BY <1>9, <2>1, CleanedUpType DEF JobFails
  <2>5. task' = [task EXCEPT ![t] = NoJob] /\ UNCHANGED <<grace, lastKey>>
    BY <1>9 DEF JobFails
  <2> QED
    BY <1>t, <1>n, <2>1, <2>2, <2>3, <2>4, <2>5, JobPost
<1> QED
  BY <1>1, <1>2, <1>3, <1>s, <1>4, <1>5, <1>6, <1>7, <1>8, <1>9 DEF JobStep

LEMMA OperatorType ==
    ASSUME TypeInv, Operator
    PROVE  TypeInv'
<1> USE DEF TypeInv, TypeOK, Assigned
<1>1. ASSUME NEW n \in Node, NEW mode \in Modes, CreateNode(n, mode)
      PROVE  TypeInv'
  <2>1. -(lastKey + 1) \in Key /\ 0 \in Key /\ lastKey + 1 \in Nat
        /\ Imported(-(lastKey + 1)) \in FarEnd
    BY DEF Key, Imported, FarEnd
  <2> DEFINE x == [NoRow EXCEPT !.exists = TRUE, !.manual = (mode = "manual"),
                     !.status = IF mode = "manual" THEN "online" ELSE "pending",
                     !.key = IF mode = "manual" THEN -(lastKey + 1) ELSE 0]
  <2>2. /\ (mode = "manual") \in BOOLEAN
        /\ (IF mode = "manual" THEN "online" ELSE "pending") \in Status
        /\ (IF mode = "manual" THEN -(lastKey + 1) ELSE 0) \in Key
    BY <2>1 DEF Status
  <2>3. x \in Row
    BY <2>2, NullValues, RowUpdate
  <2>4. row' = [row EXCEPT ![n] = x]
    BY <1>1 DEF CreateNode
  <2> HIDE DEF x
  <2>5. row' \in [Node -> Row]
    BY <2>3, <2>4
  <2>6. remote' \in [Node -> FarEnd] /\ lastKey' \in Nat
    BY <1>1, <2>1 DEF CreateNode
  <2> QED
    BY <1>1, <2>5, <2>6 DEF CreateNode, procs, bounds
<1>2. CASE ToggleFailover
  <2>1. requests' \in Nat
    BY <1>2 DEF ToggleFailover
  <2> QED
    BY <1>2, <2>1 DEF ToggleFailover, procs, world
<1>3. ASSUME NEW t \in Task, NEW n \in Node, NEW kind \in {"deploy", "redeploy"},
             NEW drop \in BOOLEAN, QueueJob(t, n, kind, drop)
      PROVE  TypeInv'
  <2> DEFINE x == [NoJob EXCEPT !.pc = "queued", !.kind = kind, !.node = n, !.drop = drop]
  <2>1. x \in Job
    BY NullValues, JobUpdate
  <2>2. x.node = n
    BY DEF NoJob
  <2>3. task' = [task EXCEPT ![t] = x]
    BY <1>3 DEF QueueJob
  <2> HIDE DEF x
  <2>4. /\ task' \in [Task -> Job]
        /\ \A u \in Task : task'[u].pc # "idle" => task'[u].node \in Node
    BY <2>1, <2>2, <2>3
  <2>5. requests' \in Nat
    BY <1>3 DEF QueueJob
  <2> QED
    BY <1>3, <2>4, <2>5 DEF QueueJob, db, world
<1>4. ASSUME NEW r \in Req, NEW n \in Node, BeginRequest(r, n)
      PROVE  TypeInv'
  BY <1>4, BeginRequestType
<1> QED
  BY <1>1, <1>2, <1>3, <1>4 DEF Operator

LEMMA OutsideType ==
    ASSUME TypeInv, Outside
    PROVE  TypeInv'
<1> USE DEF TypeInv, TypeOK, Assigned
<1>1. CASE Restart
  <2>1. \A nt \in Net, i \in Iface : \A n \in Node \cup {None} : Loaded(nt, i, n) \subseteq Net
    <3>1. \A n \in Node : row[n].key \in Key
      BY DEF Row
    <3> QED
      BY <3>1, AppliedType, InterruptedType DEF Loaded
  <2>2. "awg1" \in Iface /\ "awg2" \in Iface /\ DownNet \in Net
    BY NullValues DEF Iface
  <2>3. \A nt \in Net, a, g \in Node \cup {None} : Rerouted(nt, a, g) \subseteq Net
    BY PolicyRoutedType, PolicyFaultsType DEF Rerouted
  <2>4. PICK a \in Pick(Loadable(row, "awg1")), g \in Pick(Loadable(row, "awg2")),
             ra \in Pick(ActiveOnline(row)), rg \in Pick(GeoipUsable(row)),
             base \in {DownNet, net} :
          \E one \in Loaded(base, "awg1", a) : \E two \in Loaded(one, "awg2", g) :
             net' \in Rerouted(two, ra, rg)
    BY <1>1 DEF Restart
  <2>5. /\ a \in Node \cup {None} /\ g \in Node \cup {None}
        /\ ra \in Node \cup {None} /\ rg \in Node \cup {None} /\ base \in Net
    BY <2>2, QueriesType
  <2>6. \A one \in Loaded(base, "awg1", a) : one \in Net /\ Loaded(one, "awg2", g) \subseteq Net
    BY <2>1, <2>2, <2>5
  <2>7. net' \in Net
    BY <2>3, <2>4, <2>5, <2>6
  <2>8. faults' \in Nat
    BY <1>1 DEF Restart, Fault
  <2>9. /\ req' \in [Req -> Handler] /\ task' \in [Task -> Job] /\ health' \in Health
        /\ \A r \in Req : req'[r].kind = "none"
        /\ \A t \in Task : task'[t].pc = "idle"
        /\ health'.pc = "idle"
    BY <1>1, NullValues DEF Restart, NoHealth, NoHandler, NoJob
  <2> QED
    BY <1>1, <2>7, <2>8, <2>9 DEF Restart, db, world
<1>2. ASSUME NEW n \in Node, GraceEnds(n) \/ LinkChange(n)
      PROVE  TypeInv'
  BY <1>2 DEF GraceEnds, LinkChange, Fault, db, world, procs, bounds
<1> QED
  BY <1>1, <1>2 DEF Outside

LEMMA AwgCheckType ==
    ASSUME TypeInv, NEW i \in Iface, AwgCheck(i)
    PROVE  TypeInv'
<1> USE DEF TypeInv, TypeOK, Assigned
<1>1. PICK n \in Node : \/ net' = Applied(net, i, n, row[n].key) /\ UNCHANGED faults
                        \/ ApplyFault(net, i, n, row[n].key, net')
  BY DEF AwgCheck, Loadable
<1>2. row[n].key \in Key
  BY DEF Row
<1>3. net' \in Net /\ faults' \in Nat
  BY <1>1, <1>2, AppliedType, ApplyFaultType
<1> QED
  BY <1>3 DEF AwgCheck, db, procs, world

LEMMA TypeInit == Init => TypeInv
<1> SUFFICES ASSUME Init
             PROVE  TypeInv
  OBVIOUS
<1>1. NoHealth.pc = "idle" /\ NoHandler.kind = "none" /\ NoJob.pc = "idle"
  BY DEF NoHealth, NoHandler, NoJob
<1>2. Assigned
  BY <1>1 DEF Init, Assigned
<1>3. /\ row \in [Node -> Row] /\ net \in Net /\ health \in Health
      /\ req \in [Req -> Handler] /\ task \in [Task -> Job] /\ remote \in [Node -> FarEnd]
  BY NullValues DEF Init
<1>4. /\ fails \in [Node -> Nat] /\ since \in [Node -> Nat] /\ awg1Key \in Key
      /\ lastKey \in Nat /\ requests \in Nat /\ faults \in Nat
  BY ConstantsAssumption DEF Init, Key
<1>5. rotate \in BOOLEAN /\ incident \in BOOLEAN /\ reach \in SUBSET Node /\ grace \in SUBSET Node
  BY DEF Init
<1>6. TypeOK
  BY <1>3, <1>4, <1>5 DEF TypeOK
<1> QED
  BY <1>2, <1>6 DEF TypeInv

LEMMA TypeStep == TypeInv /\ [Next]_vars => TypeInv'
<1> SUFFICES ASSUME TypeInv, [Next]_vars
             PROVE  TypeInv'
  OBVIOUS
<1>1. CASE Next
  BY <1>1, HealthStepType, AwgCheckType, FinishRequestType, JobStepType, OperatorType,
     OutsideType DEF Next
<1>2. CASE UNCHANGED vars
  BY <1>2 DEF vars, db, world, procs, bounds, TypeInv, TypeOK, Assigned
<1> QED
  BY <1>1, <1>2

\* Every variable stays in its type.
THEOREM TypeCorrect == Spec => []TypeOK
<1>1. Spec => []TypeInv
  BY TypeInit, TypeStep, PTL DEF Spec
<1> QED
  BY <1>1, PTL DEF TypeInv

---------------------------------------------------------------------------
(* AttemptsSpaced.  By itself it is not inductive: that the counter of     *)
(* failures has reached the threshold says something about the checks made *)
(* since the last attempt only if the counter never runs ahead of them.    *)

CounterCovered ==
    \A n \in Node : since[n] >= fails[n] \/ since[n] >= Threshold

DecisionSpaced == health.pc = "decide" => since[health.node] >= Threshold

\* From the count that reached the threshold to the end of the attempt
Spaced == DecisionSpaced /\ AttemptsSpaced

SpacingInv == TypeInv /\ CounterCovered /\ Spaced

\* Steps that leave the counters and the health check alone
LEMMA SpacingFrame ==
    ASSUME SpacingInv, UNCHANGED <<since, health>>,
           \A n \in Node : fails'[n] \in {0, fails[n]}
    PROVE  CounterCovered' /\ Spaced'
<1>1. \A n \in Node : since[n] \in Nat /\ fails[n] \in Nat
  BY DEF SpacingInv, TypeInv, TypeOK
<1>2. CounterCovered'
  BY <1>1 DEF SpacingInv, CounterCovered
<1>3. Spaced'
  BY DEF SpacingInv, Spaced, DecisionSpaced, AttemptsSpaced
<1> QED
  BY <1>2, <1>3

LEMMA SpacingHealthStep ==
    ASSUME SpacingInv, HealthStep
    PROVE  CounterCovered' /\ Spaced'
<1> USE DEF SpacingInv, CounterCovered, Spaced, DecisionSpaced, AttemptsSpaced
<1>t. /\ since \in [Node -> Nat] /\ fails \in [Node -> Nat] /\ Threshold \in Nat
      /\ health \in Health /\ TypeInv
      /\ health.pc \in {"observe", "decide", "switch", "apply"} => health.node \in Node
      /\ health.pc \in {"switch", "apply"} => health.target \in Node
  BY ConstantsAssumption DEF TypeInv, TypeOK, Assigned
<1>1. CASE HealthStart
  <2>1. health'.pc = "pick"
    BY <1>1 DEF HealthStart, NoHealth
  <2> QED
    BY <1>1, <2>1 DEF HealthStart
<1>2. ASSUME NEW n \in Node, NEW was \in BOOLEAN, HealthRead(n, was)
      PROVE  CounterCovered' /\ Spaced'
  <2>1. health'.pc \in {"probe", "observe"}
    BY <1>2, <1>t DEF HealthRead, Health
  <2> QED
    BY <1>2, <2>1 DEF HealthRead
<1>3. CASE HealthProbe
  <2>1. health'.pc = "observe"
    BY <1>3, <1>t DEF HealthProbe, Health
  <2> QED
    BY <1>3, <2>1 DEF HealthProbe
<1>4. CASE HealthObserve
  <2> DEFINE n == health.node
  <2>1. n \in Node
    BY <1>4, <1>t DEF HealthObserve
  <2>2. /\ fails' = [fails EXCEPT ![n] = FailCount]
        /\ since' = [since EXCEPT ![n] = IF health.alive THEN 0
                                         ELSE IF Dead /\ @ < Threshold THEN @ + 1 ELSE @]
    BY <1>4 DEF HealthObserve
  <2>3. CASE Dead
    <3>1. ~health.alive
      BY <2>3 DEF Dead
    <3>2. fails'[n] = fails[n] + 1
      BY <1>t, <2>1, <2>2, <2>3 DEF FailCount
    <3>3. since'[n] >= Threshold \/ since'[n] >= fails'[n]
      BY <1>t, <2>1, <2>2, <2>3, <3>1, <3>2
    <3>4. CounterCovered'
      BY <1>t, <2>1, <2>2, <3>3
    <3>5. CASE FailCount >= Threshold
      <4>1. health' = [health EXCEPT !.pc = "decide"]
        BY <1>4, <2>3, <3>5 DEF HealthObserve
      <4>2. health'.node = n /\ health'.pc = "decide"
        BY <1>t, <4>1 DEF Health
      <4>3. fails'[n] >= Threshold /\ since'[n] \in Nat /\ fails'[n] \in Nat
        BY <1>t, <2>1, <2>2, <2>3, <3>1, <3>2, <3>5 DEF FailCount
      <4>4. since'[n] >= Threshold
        BY <1>t, <3>3, <4>3
      <4> QED
        BY <3>4, <4>2, <4>4
    <3>6. CASE ~(FailCount >= Threshold)
      <4>1. health'.pc \in {"idle", "pick"}
        BY <1>4, <1>t, <2>3, <3>6, ContinueType DEF HealthObserve
      <4> QED
        BY <3>4, <4>1
    <3> QED
      BY <3>5, <3>6
  <2>4. CASE ~Dead
    <3>1. fails'[n] = 0 /\ since'[n] \in Nat
      BY <1>t, <2>1, <2>2, <2>4 DEF FailCount
    <3>2. CounterCovered'
      BY <1>t, <2>1, <2>2, <3>1
    <3>3. health'.pc \in {"idle", "pick"}
      BY <1>4, <1>t, <2>4, ContinueType DEF HealthObserve
    <3> QED
      BY <3>2, <3>3
  <2> QED
    BY <2>3, <2>4
<1>5. CASE HealthSwitch
  <2>1. \/ health'.pc \in {"idle", "pick"}
        \/ health'.pc = "apply" /\ health'.node = health.node
    BY <1>5, <1>t, ContinueType DEF HealthSwitch, Health
  <2> QED
    BY <1>5, <2>1 DEF HealthSwitch
<1>d. CASE HealthDecide
  <2>1. UNCHANGED <<since, fails>> /\ health.pc = "decide"
    BY <1>d DEF HealthDecide
  <2>2. health'.node = health.node \/ health'.pc \in {"idle", "pick"}
    BY <1>d, <1>t, ContinueType DEF HealthDecide, Health
  <2>3. health'.pc # "decide"
    BY <1>d, <1>t, ContinueType DEF HealthDecide, Health
  <2> QED
    BY <2>1, <2>2, <2>3
<1>6. CASE HealthApply
  <2>1. /\ fails' = [m \in Node |-> IF m \in {health.node, health.target} THEN 0 ELSE fails[m]]
        /\ since' = [since EXCEPT ![health.target] = 0]
        /\ health' = Continue(health.todo)
        /\ health.target \in Node
    BY <1>6, <1>t DEF HealthApply
  <2>2. CounterCovered'
    BY <1>t, <2>1
  <2>3. health'.pc \in {"idle", "pick"}
    BY <1>t, <2>1, ContinueType
  <2> QED
    BY <2>2, <2>3
<1> QED
  BY <1>1, <1>2, <1>3, <1>4, <1>5, <1>6, <1>d DEF HealthStep

LEMMA SpacingOtherSteps ==
    ASSUME SpacingInv, Next, ~HealthStep
    PROVE  CounterCovered' /\ Spaced'
<1>t. fails \in [Node -> Nat]
  BY DEF SpacingInv, TypeInv, TypeOK
<1>1. ASSUME NEW i \in Iface, AwgCheck(i)
      PROVE  CounterCovered' /\ Spaced'
  BY <1>1, SpacingFrame DEF AwgCheck, procs
<1>2. ASSUME NEW r \in Req, FinishRequest(r)
      PROVE  CounterCovered' /\ Spaced'
  <2>1. UNCHANGED <<since, health>>
    BY <1>2 DEF FinishRequest, FinishActivate, FinishReset, FinishGeoipOn, FinishGeoipOff,
       FinishUpdate, FinishDelete, FinishCheck, HandlerFrame
  <2>2. fails' = fails \/ \E n \in Node : fails' = [fails EXCEPT ![n] = 0]
    <3>1. CASE FinishReset(r)
      <4>1. req[r].node \in Node
        BY <3>1, EndsType DEF FinishReset, RequestKinds, SpacingInv
      <4> QED
        BY <3>1, <4>1 DEF FinishReset
    <3>2. CASE FinishDelete(r)
      <4>1. req[r].node \in Node
        BY <3>2, EndsType DEF FinishDelete, RequestKinds, SpacingInv
      <4> QED
        BY <3>2, <4>1 DEF FinishDelete
    <3>3. CASE \/ FinishActivate(r) \/ FinishGeoipOn(r) \/ FinishGeoipOff(r)
               \/ FinishUpdate(r) \/ FinishCheck(r)
      BY <3>3 DEF FinishActivate, FinishGeoipOn, FinishGeoipOff, FinishUpdate,
         FinishCheck, Refused
    <3> QED
      BY <1>2, <3>1, <3>2, <3>3 DEF FinishRequest
  <2> QED
    BY <1>t, <2>1, <2>2, SpacingFrame
<1>3. ASSUME NEW t \in Task, JobStep(t)
      PROVE  CounterCovered' /\ Spaced'
  <2>1. JobFrame
    BY <1>3 DEF JobStep, DeployStart, DeployKey, RedeployStart, RemoteStop, RemoteInstall, DeploySave,
       RedeploySave, JobApply, JobRoutes, JobFails
  <2> QED
    BY <2>1, SpacingFrame DEF JobFrame
<1>4. CASE Operator
  <2>1. UNCHANGED <<fails, since, health>>
    BY ZenonT(40), <1>4 DEF Operator, BeginRequest, BeginActivate, BeginReset, BeginOther, BeginGeoipOn,
       BeginGeoipOff, Begin, CreateNode, ToggleFailover, QueueJob, procs, world
  <2> QED
    BY <2>1, SpacingFrame
<1>5. CASE Outside
  <2>1. CASE Restart
    <3>1. \A n \in Node : since[n] \in Nat
      BY DEF SpacingInv, TypeInv, TypeOK
    <3>2. since' = since /\ fails' = [n \in Node |-> 0] /\ health'.pc = "idle"
      BY <2>1 DEF Restart, NoHealth
    <3> QED
      BY <3>1, <3>2 DEF CounterCovered, Spaced, DecisionSpaced, AttemptsSpaced
  <2>2. ASSUME NEW n \in Node, GraceEnds(n) \/ LinkChange(n)
        PROVE  CounterCovered' /\ Spaced'
    BY <2>2, SpacingFrame DEF GraceEnds, LinkChange, procs
  <2> QED
    BY <1>5, <2>1, <2>2 DEF Outside
<1> QED
  BY <1>1, <1>2, <1>3, <1>4, <1>5 DEF Next

LEMMA SpacingStart == Init => SpacingInv
<1> SUFFICES ASSUME Init
             PROVE  SpacingInv
  OBVIOUS
<1>1. CounterCovered
  BY DEF Init, CounterCovered
<1>2. Spaced
  BY DEF Init, Spaced, DecisionSpaced, AttemptsSpaced, NoHealth
<1> QED
  BY <1>1, <1>2, TypeInit DEF SpacingInv

LEMMA SpacingStep == SpacingInv /\ [Next]_vars => SpacingInv'
<1> SUFFICES ASSUME SpacingInv, [Next]_vars
             PROVE  SpacingInv'
  OBVIOUS
<1>1. TypeInv'
  BY TypeStep DEF SpacingInv
<1>2. CounterCovered' /\ Spaced'
  <2>1. CASE UNCHANGED vars
    BY <2>1, SpacingFrame DEF vars, procs
  <2> QED
    BY <2>1, SpacingHealthStep, SpacingOtherSteps
<1> QED
  BY <1>1, <1>2 DEF SpacingInv

\* failover() leaves a node only after Threshold dead checks of it in a row,
\* counted from the last attempt on it.
THEOREM SpacingCorrect == Spec => []AttemptsSpaced
<1>1. SpacingInv => AttemptsSpaced
  BY DEF SpacingInv, Spaced
<1> QED
  BY <1>1, SpacingStart, SpacingStep, PTL DEF Spec

---------------------------------------------------------------------------
(* Action properties *)

\* What a step of Next does to the existence of the row of a node that a
\* deploy completed: nothing, unless the step ends a DELETE of that node.
LEMMA RemovalStep ==
    ASSUME TypeInv, Next, NEW n \in Node, row[n].exists, row[n].deployed
    PROVE  \/ row'[n].exists
           \/ \E r \in Req : req[r].kind = "delete" /\ req[r].node = n /\ req'[r].kind = "none"
<1> USE DEF TypeInv, TypeOK, Assigned
<1>w. \A m, act, geo, k : StatusWritten(m, act, geo, k)[n].exists
  BY DEF StatusWritten, Row
<1>1. CASE HealthStep
  <2>1. CASE HealthProbe
    BY <1>w, <2>1 DEF HealthProbe
  <2>2. CASE HealthSwitch
    BY <2>2 DEF HealthSwitch, Row
  <2> QED
    BY <1>1, <2>1, <2>2 DEF HealthStep, HealthStart, HealthRead, HealthObserve, HealthDecide, HealthApply, db
<1>2. ASSUME NEW r \in Req, FinishRequest(r)
      PROVE  \/ row'[n].exists
             \/ req[r].kind = "delete" /\ req[r].node = n /\ req'[r].kind = "none"
  <2>1. CASE FinishDelete(r)
    <3>1. req[r].kind = "delete" /\ req'[r].kind = "none"
      BY <2>1 DEF FinishDelete, Ends, NoHandler
    <3>2. n # req[r].node => row'[n] = row[n]
      BY <2>1 DEF FinishDelete
    <3> QED
      BY <3>1, <3>2
  <2>2. CASE FinishCheck(r)
    BY <1>w, <2>2 DEF FinishCheck
  <2>3. CASE FinishActivate(r)
    BY <2>3 DEF FinishActivate, Refused, Row
  <2>4. CASE FinishReset(r)
    BY <2>4 DEF FinishReset, Row
  <2>5. CASE FinishGeoipOn(r)
    <3>1. row' = row \/ row' = [m \in Node |->
                                  IF m = req[r].node THEN [row[m] EXCEPT !.geoip = TRUE]
                                  ELSE IF m \in req[r].others
                                  THEN [row[m] EXCEPT !.geoip = FALSE] ELSE row[m]]
      BY <2>5 DEF FinishGeoipOn, Refused
    <3>2. row'[n] \in {row[n], [row[n] EXCEPT !.geoip = TRUE], [row[n] EXCEPT !.geoip = FALSE]}
      BY <3>1
    <3>3. row[n] \in Row
      OBVIOUS
    <3>4. /\ [row[n] EXCEPT !.geoip = TRUE].exists = row[n].exists
          /\ [row[n] EXCEPT !.geoip = FALSE].exists = row[n].exists
      BY <3>3 DEF Row
    <3> QED
      BY <3>2, <3>4
  <2>6. CASE FinishGeoipOff(r)
    BY <2>6 DEF FinishGeoipOff, Refused, Row
  <2>7. CASE FinishUpdate(r)
    <3>1. row' = row \/ \E k : row' = [row EXCEPT ![req[r].node].key = k]
      BY <2>7 DEF FinishUpdate, Refused
    <3>2. row'[n] = row[n] \/ \E k : row'[n] = [row[n] EXCEPT !.key = k]
      BY ZenonT(40), <3>1
    <3>3. row[n] \in Row
      OBVIOUS
    <3>4. \A k : [row[n] EXCEPT !.key = k].exists = row[n].exists
      BY <3>3 DEF Row
    <3> QED
      BY <3>2, <3>4
  <2> QED
    BY <1>2, <2>1, <2>2, <2>3, <2>4, <2>5, <2>6, <2>7 DEF FinishRequest
<1>3. ASSUME NEW t \in Task, JobStep(t)
      PROVE  row'[n].exists
  <2>1. CASE DeployStart(t)
    BY <2>1 DEF DeployStart, Row
  <2>2. CASE DeployKey(t)
    BY <2>2 DEF DeployKey, Row
  <2>3. CASE DeploySave(t)
    BY <2>3 DEF DeploySave, Row
  <2>4. CASE RedeploySave(t)
    BY <2>4 DEF RedeploySave, Row
  <2>5. CASE JobFails(t)
    <3>1. row' = CleanedUp(t)
      BY <2>5 DEF JobFails
    <3> QED
      BY <3>1 DEF CleanedUp, Row
  <2> QED
    BY <1>3, <2>1, <2>2, <2>3, <2>4, <2>5 DEF JobStep, RedeployStart, RemoteStop, RemoteInstall,
       JobApply, JobRoutes
<1>4. CASE Operator
  <2>1. ASSUME NEW m \in Node, NEW mode \in Modes, CreateNode(m, mode)
        PROVE  row'[n].exists
    <3>1. n # m
      BY <2>1 DEF CreateNode, Node
    <3> QED
      BY <2>1, <3>1 DEF CreateNode
  <2> QED
    BY ZenonT(40), <1>4, <2>1 DEF Operator, BeginRequest, BeginActivate, BeginReset, BeginOther,
       BeginGeoipOn, BeginGeoipOff, Begin, ToggleFailover, QueueJob, db
<1>5. CASE Outside \/ \E i \in Iface : AwgCheck(i)
  BY <1>5 DEF Outside, Restart, GraceEnds, LinkChange, AwgCheck, db
<1> QED
  BY <1>1, <1>2, <1>3, <1>4, <1>5 DEF Next

\* A row that a deploy completed once is removed by DELETE only, never by the
\* delete_on_failure branch of another deploy of the same node.
THEOREM DeployedKept == Spec => DeployedNodeKept
<1> DEFINE Kept == \A n \in Node : row[n].exists /\ row[n].deployed /\ ~row'[n].exists =>
                     \E r \in Req : req[r].kind = "delete" /\ req[r].node = n
                                    /\ req'[r].kind = "none"
<1>1. TypeInv /\ [Next]_vars => [Kept]_vars
  BY RemovalStep
<1>2. Spec => []TypeInv
  BY TypeInit, TypeStep, PTL DEF Spec
<1> QED
  BY <1>1, <1>2, PTL DEF Spec, DeployedNodeKept

---------------------------------------------------------------------------
(* Keys of deployed nodes *)

\* One deploy at a time, and no node is deleted
OneTask  == \A t, u \in Task : t = u
NoDelete == "delete" \notin Kinds

\* Nothing runs at the far end f, or with the key of row x
Agrees(f, x) == f = NoFarEnd \/ f.key = x.key

\* What runs at a deployed node runs with the key in its row at every moment, as a key
\* that a row has is not replaced by a deploy; and the task works with the key of the
\* row, which it has installed before it saves.
KeyInv ==
    /\ \A r \in Req : req[r].kind # "delete"
    /\ \A n \in Node : row[n].deployed =>
         row[n].exists /\ ~row[n].manual /\ row[n].key # 0 /\ Agrees(remote[n], row[n])
    /\ \A t \in Task : task[t].pc # "idle" =>
         LET n == task[t].node IN
         /\ row[n].exists /\ ~row[n].manual
         /\ task[t].pc # "queued" => task[t].key = row[n].key
         /\ task[t].pc \in {"remote", "up", "save"} => row[n].key # 0
         /\ task[t].pc = "save" => remote[n].key = row[n].key

\* What the keys depend on is as before: no row comes or goes, and only a manual node,
\* which was never deployed, gets another key.
KeysKept ==
    \A n \in Node :
        /\ row'[n].exists = row[n].exists /\ row'[n].manual = row[n].manual
        /\ row'[n].deployed = row[n].deployed
        /\ ~row[n].manual => row'[n].key = row[n].key /\ remote'[n] = remote[n]

\* Writing one column leaves the others.
LEMMA StatusColumn ==
    ASSUME TypeOK, NEW n, NEW v, row' = [row EXCEPT ![n].status = v]
    PROVE  \A m \in Node :
             /\ row'[m].exists = row[m].exists /\ row'[m].manual = row[m].manual
             /\ row'[m].deployed = row[m].deployed /\ row'[m].key = row[m].key
             /\ row'[m].geoip = row[m].geoip
<1> SUFFICES ASSUME NEW m \in Node
             PROVE  /\ row'[m].exists = row[m].exists /\ row'[m].manual = row[m].manual
                    /\ row'[m].deployed = row[m].deployed /\ row'[m].key = row[m].key
                    /\ row'[m].geoip = row[m].geoip
  OBVIOUS
<1>1. row[m] \in Row /\ row'[m] = IF m = n THEN [row[m] EXCEPT !.status = v] ELSE row[m]
  BY DEF TypeOK
<1> QED
  BY <1>1 DEF Row

LEMMA KeyColumn ==
    ASSUME TypeOK, NEW n, NEW v, row' = [row EXCEPT ![n].key = v]
    PROVE  \A m \in Node :
             /\ row'[m].exists = row[m].exists /\ row'[m].manual = row[m].manual
             /\ row'[m].deployed = row[m].deployed /\ (m # n => row'[m].key = row[m].key)
             /\ row'[m].geoip = row[m].geoip
<1> SUFFICES ASSUME NEW m \in Node
             PROVE  /\ row'[m].exists = row[m].exists /\ row'[m].manual = row[m].manual
                    /\ row'[m].deployed = row[m].deployed /\ (m # n => row'[m].key = row[m].key)
                    /\ row'[m].geoip = row[m].geoip
  OBVIOUS
<1>1. row[m] \in Row /\ row'[m] = IF m = n THEN [row[m] EXCEPT !.key = v] ELSE row[m]
  BY DEF TypeOK
<1> QED
  BY <1>1 DEF Row

LEMMA KeysKeptStep ==
    ASSUME TypeInv, KeyInv, KeysKept, task' = task, \A r \in Req : req'[r].kind # "delete"
    PROVE  KeyInv'
BY DEF KeysKept, KeyInv, Agrees, TypeInv, Assigned

\* The only task, and the nodes that were deployed
LEMMA OneTaskKeys ==
    ASSUME OneTask, NEW t \in Task, \A r \in Req : req'[r].kind # "delete",
           \A n \in Node : row'[n].deployed =>
               row'[n].exists /\ ~row'[n].manual /\ row'[n].key # 0 /\ Agrees(remote'[n], row'[n]),
           NEW n, task'[t].pc # "idle" =>
               /\ task'[t].node = n /\ row'[n].exists /\ ~row'[n].manual
               /\ task'[t].pc # "queued" => task'[t].key = row'[n].key
               /\ task'[t].pc \in {"remote", "up", "save"} => row'[n].key # 0
               /\ task'[t].pc = "save" => remote'[n].key = row'[n].key
    PROVE  KeyInv'
<1>1. \A u \in Task : u = t
  BY DEF OneTask
<1> QED
  BY <1>1 DEF KeyInv, Agrees

LEMMA KeysHealthStep ==
    ASSUME TypeInv, KeyInv, HealthStep
    PROVE  KeysKept /\ task' = task /\ req' = req
<1> USE DEF TypeInv, TypeOK, Assigned
<1>1. CASE HealthProbe
  BY <1>1 DEF HealthProbe, StatusWritten, Row, KeysKept, world
<1>2. CASE HealthSwitch
  BY <1>2 DEF HealthSwitch, Row, KeysKept, world
<1>3. CASE HealthStart \/ (\E n \in Node, was \in BOOLEAN : HealthRead(n, was)) \/ HealthObserve
           \/ HealthDecide \/ HealthApply
  BY <1>3 DEF HealthStart, HealthRead, HealthObserve, HealthDecide, HealthApply, db, world, KeysKept
<1> QED
  BY <1>1, <1>2, <1>3 DEF HealthStep

LEMMA KeysFinishRequest ==
    ASSUME TypeInv, KeyInv, NEW r \in Req, FinishRequest(r)
    PROVE  KeysKept /\ task' = task /\ \A q \in Req : req'[q].kind # "delete"
<1> USE DEF TypeInv, TypeOK, Assigned
<1>e. ASSUME NEW kind \in RequestKinds, Ends(r, kind)
      PROVE  \A q \in Req : req'[q].kind # "delete"
  BY <1>e DEF Ends, NoHandler, KeyInv
<1>t. task' = task
  BY DEF FinishRequest, FinishActivate, FinishReset, FinishGeoipOn, FinishGeoipOff,
     FinishUpdate, FinishDelete, FinishCheck, HandlerFrame
<1>1. CASE FinishActivate(r)
  <2>1. row' = row \/ row' = [m \in Node |->
                                IF m = req[r].node THEN [row[m] EXCEPT !.active = TRUE]
                                ELSE IF m \in req[r].others
                                THEN [row[m] EXCEPT !.active = FALSE] ELSE row[m]]
    BY <1>1 DEF FinishActivate, Refused
  <2>2. remote' = remote /\ Ends(r, "activate")
    BY <1>1 DEF FinishActivate, Refused
  <2> QED
    BY <1>e, <1>t, <2>1, <2>2 DEF KeysKept, Row, RequestKinds
<1>2. CASE FinishReset(r)
  <2>1. row' = row \/ row' = [row EXCEPT ![req[r].node].status = "online"]
    BY <1>2 DEF FinishReset
  <2>2. remote' = remote /\ Ends(r, "reset")
    BY <1>2 DEF FinishReset
  <2> QED
    BY <1>e, <1>t, <2>1, <2>2 DEF KeysKept, Row, RequestKinds
<1>3. CASE FinishGeoipOn(r)
  <2>1. row' = row \/ row' = [m \in Node |->
                                IF m = req[r].node THEN [row[m] EXCEPT !.geoip = TRUE]
                                ELSE IF m \in req[r].others
                                THEN [row[m] EXCEPT !.geoip = FALSE] ELSE row[m]]
    BY <1>3 DEF FinishGeoipOn, Refused
  <2>2. remote' = remote /\ Ends(r, "geoip_on")
    BY <1>3 DEF FinishGeoipOn, Refused
  <2> QED
    BY <1>e, <1>t, <2>1, <2>2 DEF KeysKept, Row, RequestKinds
<1>4. CASE FinishGeoipOff(r)
  <2>1. row' = row \/ row' = [row EXCEPT ![req[r].node].geoip = FALSE]
    BY <1>4 DEF FinishGeoipOff, Refused
  <2>2. remote' = remote /\ Ends(r, "geoip_off")
    BY <1>4 DEF FinishGeoipOff, Refused
  <2> QED
    BY <1>e, <1>t, <2>1, <2>2 DEF KeysKept, Row, RequestKinds
<1>5. CASE FinishUpdate(r)
  <2> DEFINE n == req[r].node
  <2>1. PICK k : \/ row' = row /\ remote' = remote
                 \/ /\ row[n].manual
                    /\ row' = row \/ row' = [row EXCEPT ![n].key = k]
                    /\ remote' = [remote EXCEPT ![n] = Imported(k)]
    BY <1>5 DEF FinishUpdate, Refused
  <2>2. Ends(r, "update")
    BY <1>5 DEF FinishUpdate
  <2>3. \A m \in Node : row'[m].exists = row[m].exists /\ row'[m].manual = row[m].manual
                        /\ row'[m].deployed = row[m].deployed
    BY <2>1, StatusColumn, KeyColumn
  <2>4. \A m \in Node : ~row[m].manual => row'[m].key = row[m].key /\ remote'[m] = remote[m]
    BY <2>1
  <2> QED
    BY <1>e, <1>t, <2>2, <2>3, <2>4 DEF KeysKept, RequestKinds
<1>6. CASE FinishCheck(r)
  <2>1. PICK status : row' = row \/ row' = [row EXCEPT ![req[r].node].status = status]
    BY <1>6 DEF FinishCheck, StatusWritten
  <2>2. remote' = remote /\ Ends(r, "check")
    BY <1>6 DEF FinishCheck
  <2>3. \A m \in Node : row'[m].exists = row[m].exists /\ row'[m].manual = row[m].manual
                        /\ row'[m].deployed = row[m].deployed /\ row'[m].key = row[m].key
    <3>1. CASE row' = [row EXCEPT ![req[r].node].status = status]
      BY <3>1, StatusColumn
    <3> QED
      BY <2>1, <3>1
  <2> QED
    BY <1>e, <1>t, <2>2, <2>3 DEF KeysKept, RequestKinds
<1>7. ~FinishDelete(r)
  BY DEF FinishDelete, Ends, KeyInv
<1> QED
  BY <1>1, <1>2, <1>3, <1>4, <1>5, <1>6, <1>7 DEF FinishRequest

\* A task that starts, makes a key, installs, saves, applies or fails works on its own
\* row only, and is the only one.
LEMMA KeysJobStep ==
    ASSUME TypeInv, KeyInv, OneTask, NEW t \in Task, JobStep(t)
    PROVE  KeyInv'
<1> USE DEF TypeInv, TypeOK, Assigned
<1> DEFINE n == task[t].node
<1>n. task[t].pc # "idle" /\ n \in Node /\ row[n] \in Row /\ task[t] \in Job
  BY DEF JobStep, DeployStart, DeployKey, RedeployStart, RemoteStop, RemoteInstall, DeploySave,
     RedeploySave, JobApply, JobRoutes, JobFails
<1>k. row[n].exists /\ ~row[n].manual
  BY <1>n DEF KeyInv
<1>q. \A r \in Req : req'[r].kind # "delete"
  BY DEF KeyInv, JobStep, DeployStart, DeployKey, RedeployStart, RemoteStop, RemoteInstall, DeploySave,
     RedeploySave, JobApply, JobRoutes, JobFails, JobFrame
<1>o. \A u \in Task : u = t
  BY DEF OneTask
<1>1. CASE DeployStart(t)
  <2>1. row' = [row EXCEPT ![n].status = "deploying"] /\ remote' = remote
        /\ task' = [task EXCEPT ![t].pc = "ssh", ![t].key = row[n].key, ![t].peer = awg1Key]
    BY <1>1, <1>k DEF DeployStart
  <2>2. task'[t].pc = "ssh" /\ task'[t].node = n /\ task'[t].key = row[n].key
    BY <1>n, <2>1 DEF Job
  <2>3. \A m \in Node : row'[m].exists = row[m].exists /\ row'[m].manual = row[m].manual
                        /\ row'[m].deployed = row[m].deployed /\ row'[m].key = row[m].key
    BY <2>1, StatusColumn, KeyColumn
  <2> QED
    <3>1. \A m \in Node : row'[m].deployed =>
             row'[m].exists /\ ~row'[m].manual /\ row'[m].key # 0 /\ Agrees(remote'[m], row'[m])
      BY <2>1, <2>3 DEF KeyInv, Agrees
    <3> QED
      BY <1>k, <1>n, <1>q, <2>2, <2>3, <3>1, OneTaskKeys
<1>2. CASE DeployKey(t)
  <2> DEFINE k == DeploymentKey(t)
  <2>1. task[t].pc = "ssh" /\ row' = [row EXCEPT ![n].key = k] /\ remote' = remote
        /\ task' = [task EXCEPT ![t].pc = "remote", ![t].key = k]
    BY <1>2 DEF DeployKey
  <2>2. task[t].key = row[n].key /\ k # 0 /\ (row[n].key # 0 => k = row[n].key)
    BY <1>n, <2>1 DEF KeyInv, DeploymentKey
  <2>3. task'[t].pc = "remote" /\ task'[t].node = n /\ task'[t].key = k
    BY <1>n, <2>1 DEF Job
  <2>4. \A m \in Node : row'[m].exists = row[m].exists /\ row'[m].manual = row[m].manual
                        /\ row'[m].deployed = row[m].deployed
                        /\ row'[m].key = IF m = n THEN k ELSE row[m].key
    BY <2>1 DEF Row
  <2>5. row[n].deployed => row[n].key # 0
    BY <1>n DEF KeyInv
  <2> HIDE DEF k
  <2> QED
    <3>1. \A m \in Node : row'[m].deployed =>
             row'[m].exists /\ ~row'[m].manual /\ row'[m].key # 0 /\ Agrees(remote'[m], row'[m])
      BY <2>1, <2>2, <2>4, <2>5 DEF KeyInv, Agrees
    <3>2. row'[n].exists /\ ~row'[n].manual /\ row'[n].key = k
      BY <1>k, <1>n, <2>4
    <3> QED
      BY <1>q, <2>2, <2>3, <3>1, <3>2, OneTaskKeys
<1>3. CASE RedeployStart(t)
  <2>1. row' = row /\ remote' = remote
    BY <1>3 DEF RedeployStart
  <2>2. \/ task'[t].pc = "idle"
        \/ task'[t].pc = "remote" /\ task'[t].node = n /\ task'[t].key = row[n].key /\ row[n].key # 0
    BY <1>3, <1>n DEF RedeployStart, NoJob, Job
  <2> QED
    BY <1>k, <1>o, <1>n, <1>q, <2>1, <2>2 DEF KeyInv, Agrees
<1>s. CASE RemoteStop(t)
  <2>1. task[t].pc = "remote" /\ row' = row /\ remote' = [remote EXCEPT ![n] = NoFarEnd]
        /\ task' = [task EXCEPT ![t].pc = "up"]
    BY <1>s DEF RemoteStop
  <2>2. task'[t].pc = "up" /\ task'[t].node = n /\ task'[t].key = task[t].key
    BY <1>n, <2>1 DEF Job
  <2>3. \A m \in Node : remote'[m] = IF m = n THEN NoFarEnd ELSE remote[m]
    BY <2>1
  <2>4. task[t].key = row[n].key /\ row[n].key # 0
    BY <1>n, <2>1 DEF KeyInv
  <2> QED
    BY <1>k, <1>o, <1>n, <1>q, <2>1, <2>2, <2>3, <2>4 DEF KeyInv, Agrees
<1>4. CASE RemoteInstall(t)
  <2>1. task[t].pc = "up" /\ row' = row /\ remote' = [remote EXCEPT ![n] = Installed(t)]
        /\ task' = [task EXCEPT ![t].pc = "save"]
    BY <1>4 DEF RemoteInstall
  <2>2. task'[t].pc = "save" /\ task'[t].node = n /\ task'[t].key = task[t].key
    BY <1>n, <2>1 DEF Job
  <2>3. \A m \in Node : remote'[m] = IF m = n THEN Installed(t) ELSE remote[m]
    BY <2>1
  <2>4. task[t].key = row[n].key /\ row[n].key # 0 /\ Installed(t).key = task[t].key
    BY <1>n, <2>1 DEF KeyInv, Installed
  <2> QED
    BY <1>k, <1>o, <1>n, <1>q, <2>1, <2>2, <2>3, <2>4 DEF KeyInv, Agrees
<1>5. CASE DeploySave(t) \/ RedeploySave(t)
  <2>1. /\ task[t].pc = "save" /\ remote' = remote
        /\ \E first : row' = [row EXCEPT ![n] = [@ EXCEPT !.status = "online", !.deployed = TRUE, !.active = first]]
    <3>1. CASE DeploySave(t)
      BY <3>1 DEF DeploySave
    <3>2. CASE RedeploySave(t)
      <4>1. row' = [row EXCEPT ![n] = [@ EXCEPT !.status = "online", !.deployed = TRUE, !.active = row[n].active]]
        BY <1>n, <3>2 DEF RedeploySave, Row
      <4> QED
        BY <3>2, <4>1 DEF RedeploySave
    <3> QED
      BY <1>5, <3>1, <3>2
  <2>2. \/ task'[t].pc = "idle"
        \/ task'[t].pc = "apply" /\ task'[t].node = n /\ task'[t].key = task[t].key
    <3>1. CASE DeploySave(t)
      BY <1>n, <3>1 DEF DeploySave, Job
    <3>2. CASE RedeploySave(t)
      <4>1. CASE row[n].active \/ row[n].geoip
        <5>1. task'[t] = [task[t] EXCEPT !.pc = "apply", !.act = row[n].active, !.geo = row[n].geoip]
          BY <3>2, <4>1 DEF RedeploySave
        <5> QED
          BY <1>n, <5>1 DEF Job
      <4>2. CASE ~(row[n].active \/ row[n].geoip)
        BY <3>2, <4>2 DEF RedeploySave, NoJob
      <4> QED
        BY <4>1, <4>2
    <3> QED
      BY <1>5, <3>1, <3>2
  <2>3. \A m \in Node : row'[m].exists = row[m].exists /\ row'[m].manual = row[m].manual
                        /\ (row'[m].deployed => m = n \/ row[m].deployed) /\ row'[m].key = row[m].key
    <3>1. PICK first : row' = [row EXCEPT ![n] = [@ EXCEPT !.status = "online", !.deployed = TRUE, !.active = first]]
      BY <2>1
    <3>2. row'[n] = [row[n] EXCEPT !.status = "online", !.deployed = TRUE, !.active = first]
      BY <1>n, <3>1
    <3>3. \A m \in Node \ {n} : row'[m] = row[m]
      BY <3>1
    <3>4. row'[n].exists = row[n].exists /\ row'[n].manual = row[n].manual /\ row'[n].key = row[n].key
      BY <1>n, <3>2 DEF Row
    <3> QED
      BY <3>3, <3>4
  <2>4. task[t].key = row[n].key /\ row[n].key # 0 /\ remote[n].key = row[n].key
    BY <1>n, <2>1 DEF KeyInv
  <2> QED
    <3>1. \A m \in Node : row'[m].deployed =>
             row'[m].exists /\ ~row'[m].manual /\ row'[m].key # 0 /\ Agrees(remote'[m], row'[m])
      BY <1>k, <2>1, <2>3, <2>4 DEF KeyInv, Agrees
    <3>2. row'[n].exists /\ ~row'[n].manual /\ row'[n].key = row[n].key
      BY <1>k, <1>n, <2>3
    <3> QED
      BY <1>q, <2>2, <2>4, <3>1, <3>2, OneTaskKeys
<1>6. CASE JobApply(t) \/ JobRoutes(t)
  <2>1. task[t].pc \in {"apply", "routes"} /\ row' = row /\ remote' = remote
    BY <1>6 DEF JobApply, JobRoutes
  <2>2. \/ task'[t].pc = "idle"
        \/ task'[t].pc = "routes" /\ task'[t].node = n /\ task'[t].key = task[t].key
    BY <1>6, <1>n DEF JobApply, JobRoutes, NoJob, Job
  <2> QED
    BY <1>k, <1>o, <1>n, <1>q, <2>1, <2>2 DEF KeyInv, Agrees
<1>7. CASE JobFails(t)
  <2>1. task'[t].pc = "idle"
    BY <1>7, <1>n DEF JobFails, NoJob
  <2>2. \/ remote' = remote
        \/ task[t].pc = "up" /\ remote' = [remote EXCEPT ![n] = Installed(t)]
    BY <1>7 DEF JobFails
  <2>3. \A m \in Node : row[m].deployed => Agrees(remote'[m], row[m])
    <3>1. task[t].pc = "up" => Installed(t).key = row[n].key
      BY <1>n DEF KeyInv, Installed
    <3> QED
      BY <2>2, <3>1 DEF KeyInv, Agrees
  <2>4. \/ row' = row
        \/ ~row[n].deployed /\ row' = [row EXCEPT ![n] = NoRow]
        \/ row' = [row EXCEPT ![n].status = "error"]
    BY <1>7 DEF JobFails, CleanedUp
  <2>5. \A m \in Node : row'[m].deployed =>
          row[m].deployed /\ row'[m].exists = row[m].exists /\ row'[m].manual = row[m].manual
          /\ row'[m].key = row[m].key
    <3>1. CASE row' = [row EXCEPT ![n].status = "error"]
      BY <3>1 DEF Row
    <3>2. CASE row' = [row EXCEPT ![n] = NoRow]
      <4>1. ~row'[n].deployed /\ \A m \in Node \ {n} : row'[m] = row[m]
        BY <1>n, <3>2 DEF NoRow
      <4> QED
        BY <4>1
    <3> QED
      BY <2>4, <3>1, <3>2
  <2> QED
    BY <1>o, <1>q, <2>1, <2>3, <2>5 DEF KeyInv, Agrees
<1> QED
  BY <1>1, <1>2, <1>3, <1>s, <1>4, <1>5, <1>6, <1>7 DEF JobStep

LEMMA KeysOperator ==
    ASSUME TypeInv, KeyInv, NoDelete, Operator
    PROVE  KeyInv'
<1> USE DEF TypeInv, TypeOK, Assigned
<1>1. ASSUME NEW r \in Req, NEW n \in Node, BeginRequest(r, n)
      PROVE  KeyInv'
  <2>1. UNCHANGED <<row, remote, task>>
    BY <1>1 DEF BeginRequest, BeginActivate, BeginReset, BeginOther, BeginGeoipOn,
       BeginGeoipOff, Begin, db, world
  <2>2. \E kind \in Kinds : \E others : Begin(r, kind, n, others)
    BY <1>1 DEF BeginRequest, BeginActivate, BeginReset, BeginOther, BeginGeoipOn,
       BeginGeoipOff, Begin
  <2>3. \A q \in Req : req'[q].kind # "delete"
    BY <2>2 DEF Begin, NoDelete, KeyInv
  <2> QED
    BY <2>1, <2>3 DEF KeyInv, Agrees
<1>2. ASSUME NEW n \in Node, NEW mode \in Modes, CreateNode(n, mode)
      PROVE  KeyInv'
  <2>1. ~row[n].exists
    BY <1>2 DEF CreateNode, Node
  <2>2. \A m \in Node \ {n} : row'[m] = row[m] /\ remote'[m] = remote[m]
    BY <1>2 DEF CreateNode
  <2>3. ~row'[n].deployed
    BY <1>2 DEF CreateNode, NoRow
  <2>4. task' = task /\ req' = req
    BY <1>2 DEF CreateNode, procs
  <2> QED
    BY <2>1, <2>2, <2>3, <2>4 DEF KeyInv, Agrees
<1>3. CASE ToggleFailover
  BY <1>3 DEF ToggleFailover, KeyInv, Agrees, procs, world
<1>4. ASSUME NEW t \in Task, NEW n \in Node, NEW kind \in {"deploy", "redeploy"},
             NEW drop \in BOOLEAN, QueueJob(t, n, kind, drop)
      PROVE  KeyInv'
  <2>1. task'[t].pc = "queued" /\ task'[t].node = n /\ row[n].exists /\ ~row[n].manual
    BY <1>4 DEF QueueJob, NoJob
  <2>2. UNCHANGED <<row, remote, req>> /\ \A u \in Task \ {t} : task'[u] = task[u]
    BY <1>4 DEF QueueJob, db, world
  <2> QED
    BY <2>1, <2>2 DEF KeyInv, Agrees
<1> QED
  BY <1>1, <1>2, <1>3, <1>4 DEF Operator

LEMMA KeysStep ==
    ASSUME TypeInv, KeyInv, OneTask, NoDelete, [Next]_vars
    PROVE  KeyInv'
<1>1. CASE HealthStep
  BY <1>1, KeysHealthStep, KeysKeptStep DEF KeyInv, Agrees
<1>2. ASSUME NEW i \in Iface, AwgCheck(i)
      PROVE  KeyInv'
  BY <1>2 DEF AwgCheck, KeyInv, Agrees, db, procs, world
<1>3. ASSUME NEW r \in Req, FinishRequest(r)
      PROVE  KeyInv'
  BY <1>3, KeysFinishRequest, KeysKeptStep
<1>4. ASSUME NEW t \in Task, JobStep(t)
      PROVE  KeyInv'
  BY <1>4, KeysJobStep
<1>5. CASE Operator
  BY <1>5, KeysOperator
<1>6. CASE Outside
  <2>1. UNCHANGED <<row, remote>>
    BY <1>6 DEF Outside, Restart, GraceEnds, LinkChange, db, world
  <2>2. \/ UNCHANGED <<req, task>>
        \/ req' = [r \in Req |-> NoHandler] /\ task' = [t \in Task |-> NoJob]
    BY <1>6 DEF Outside, Restart, GraceEnds, LinkChange, procs
  <2> QED
    BY <2>1, <2>2 DEF KeyInv, Agrees, NoHandler, NoJob
<1>7. CASE UNCHANGED vars
  BY <1>7 DEF vars, db, procs, world, KeyInv, Agrees
<1> QED
  BY <1>1, <1>2, <1>3, <1>4, <1>5, <1>6, <1>7 DEF Next

\* With one deploy at a time and no DELETE, whatever runs at a deployed node that no task
\* works on runs with the key in its row, for any number of nodes, handlers and faults,
\* restarts and failures in the middle of a deploy included, between the removal of the
\* old container and the start of the new one too.
THEOREM KeysCorrect ==
    ASSUME OneTask, NoDelete
    PROVE  Spec => []KeyAgrees
<1>1. Init => KeyInv
  <2> SUFFICES ASSUME Init PROVE KeyInv
    OBVIOUS
  <2>1. \A n \in Node : ~row[n].deployed
    BY DEF Init, NoRow
  <2>2. (\A r \in Req : req[r].kind # "delete") /\ \A t \in Task : task[t].pc = "idle"
    BY DEF Init, NoHandler, NoJob
  <2> QED
    BY <2>1, <2>2 DEF KeyInv
<1>2. TypeInv /\ KeyInv /\ [Next]_vars => TypeInv' /\ KeyInv'
  BY TypeStep, KeysStep
<1>3. KeyInv => KeyAgrees
  BY DEF KeyInv, Agrees, KeyAgrees
<1> QED
  BY <1>1, <1>2, <1>3, TypeInit, PTL DEF Spec

---------------------------------------------------------------------------
(* The tunnel of the GeoIP node *)

\* One handler at a time, and no deploy
OneHandler == \A r, q \in Req : r = q
NoTask     == Task = {}

\* awg2 belongs to the GeoIP node, and what a handler has read of its node is still so.
Owned == GeoipTunnelOwned /\ \A n \in Node : row[n].geoip => row[n].exists

TunnelInv ==
    /\ Owned
    /\ \A r \in Req : req[r].kind # "none" =>
         /\ row[req[r].node].exists /\ req[r].geo = row[req[r].node].geoip
         /\ req[r].kind = "geoip_on" =>
              \A m \in Node : row[m].geoip => m \in req[r].others \cup {req[r].node}

\* Operations on awg1, and routes, leave the link of awg2; one that raised, or that a
\* request rolled back, carries nothing committed.
LEMMA LinkKept ==
    ASSUME NEW nt \in Net
    PROVE  /\ \A n \in Node : \A k : Applied(nt, "awg1", n, k).link["awg2"] = nt.link["awg2"]
           /\ \A s : Deleted(nt, "awg1", s).link["awg2"] = nt.link["awg2"]
           /\ \A n \in Node : \A k : \A x \in Interrupted(nt, "awg1", n, k) :
                x.link["awg2"] = nt.link["awg2"]
           /\ Abandoned(nt, "awg1").link["awg2"] = nt.link["awg2"]
           /\ \A i \in Iface : \A n : Routed(nt, i, n).link = nt.link /\ Unrouted(nt, i).link = nt.link
           /\ \A a, g : PolicyRouted(nt, a, g).link = nt.link
           /\ \A a, g : \A x \in PolicyFaults(nt, a, g) : x.link = nt.link
           /\ \A n \in Node : \A k : CommittedNode(Applied(nt, "awg2", n, k)) = n
           /\ \A s : CommittedNode(Deleted(nt, "awg2", s)) = None
           /\ \A n \in Node : \A k : \A x \in Interrupted(nt, "awg2", n, k) :
                CommittedNode(x) = None
           /\ CommittedNode(Abandoned(nt, "awg2")) = None
           /\ \A n, k : CommittedNode(PeerRemoved(nt, n, k)) \in {CommittedNode(nt), None}
<1>1. ASSUME NEW x \in Net
      PROVE  \A i, n : Routed(x, i, n).link = x.link /\ Unrouted(x, i).link = x.link
  BY DEF Routed, Unrouted, WithHost, WithPrimary, Net
<1>2. \A s : /\ Deleted(nt, "awg1", s).link["awg2"] = nt.link["awg2"]
             /\ CommittedNode(Deleted(nt, "awg2", s)) = None
  BY DEF Deleted, Net, Iface, NoLink, CommittedNode
<1>3. \A n, k : /\ Applied(nt, "awg1", n, k).link["awg2"] = nt.link["awg2"]
                /\ CommittedNode(Applied(nt, "awg2", n, k)) = n
  BY DEF Applied, Deleted, Net, Iface, CommittedNode
<1>4. ASSUME NEW a, NEW g
      PROVE  PolicyRouted(nt, a, g).link = nt.link
  <2> DEFINE vpn == IF a = None THEN Unrouted(nt, "awg1") ELSE Routed(nt, "awg1", a)
             geo == IF g = None THEN Unrouted(vpn, "awg2") ELSE Routed(vpn, "awg2", g)
  <2> QED
    BY DEF PolicyRouted, Routed, Unrouted, WithHost, WithPrimary, Net
<1>5. ASSUME NEW n, NEW k
      PROVE  CommittedNode(PeerRemoved(nt, n, k)) \in {CommittedNode(nt), None}
  <2>1. nt.link["awg2"] \in Link /\ "awg2" \in Iface
    BY DEF Net, Iface
  <2>2. PeerRemoved(nt, n, k).link["awg2"] \in
          {nt.link["awg2"], [nt.link["awg2"] EXCEPT !.node = None, !.key = 0]}
    BY <2>1 DEF PeerRemoved, Net
  <2> QED
    BY <2>1, <2>2 DEF Link, CommittedNode
<1>6. ASSUME NEW n \in Node, NEW k
      PROVE  /\ \A x \in Interrupted(nt, "awg1", n, k) : x.link["awg2"] = nt.link["awg2"]
             /\ \A x \in Interrupted(nt, "awg2", n, k) : CommittedNode(x) = None
  <2>1. \A s : [Applied(nt, "awg1", n, k) EXCEPT !.link["awg1"].state = s, !.link["awg1"].kept = FALSE]
                   .link["awg2"] = nt.link["awg2"]
    BY DEF Applied, Deleted, Net, Iface
  <2>2. \A s : [Applied(nt, "awg2", n, k) EXCEPT !.link["awg2"].state = s, !.link["awg2"].kept = FALSE]
                   .link["awg2"].kept = FALSE
    BY DEF Applied, Deleted, Net, Iface
  <2> QED
    BY <1>2, <2>1, <2>2 DEF Interrupted, CommittedNode
<1>7. /\ Abandoned(nt, "awg1").link["awg2"] = nt.link["awg2"]
      /\ CommittedNode(Abandoned(nt, "awg2")) = None
  BY DEF Abandoned, Net, Link, Iface, CommittedNode
<1>8. ASSUME NEW a, NEW g
      PROVE  \A x \in PolicyFaults(nt, a, g) : x.link = nt.link
  <2>1. WithPrimary(WithPrimary(nt, "awg2", TRUE), "awg1", TRUE).link = nt.link
    BY DEF WithPrimary, Net
  <2>2. \A m : [PolicyRouted(nt, a, g) EXCEPT !.mark = m].link = nt.link
    BY <1>4 DEF PolicyRouted, Routed, Unrouted, WithHost, WithPrimary, Net
  <2> QED
    BY <2>1, <2>2 DEF PolicyFaults
<1> QED
  BY <1>1, <1>2, <1>3, <1>4, <1>5, <1>6, <1>7, <1>8

\* No row comes, goes or changes its mark
MarksKept == \A n \in Node : row'[n].exists = row[n].exists /\ row'[n].geoip = row[n].geoip

\* awg2 keeps its node, loses it, or gets the GeoIP node.
LinkOwned ==
    \/ CommittedNode(net') \in {CommittedNode(net), None}
    \/ row[CommittedNode(net')].geoip

LEMMA OwnedKept ==
    ASSUME Owned, MarksKept, LinkOwned
    PROVE  Owned'
<1>1. None \notin Node
  BY DEF None, Node
<1> QED
  BY <1>1 DEF Owned, GeoipTunnelOwned, MarksKept, LinkOwned

\* With the only handler gone nothing is left to show of handlers.
LEMMA HandlerGone ==
    ASSUME TypeInv, OneHandler, NEW r \in Req, NEW kind, Ends(r, kind), Owned'
    PROVE  TunnelInv'
<1>1. \A q \in Req : req'[q].kind = "none"
  BY DEF OneHandler, Ends, NoHandler, TypeInv, TypeOK
<1> QED
  BY <1>1 DEF TunnelInv

\* A failed apply leaves awg2 alone, or leaves it with nothing committed.
LEMMA FaultKept ==
    ASSUME NEW nt \in Net, NEW m \in Node, NEW kk
    PROVE  /\ ApplyFault(nt, "awg1", m, kk, net') => CommittedNode(net') = CommittedNode(nt)
           /\ ApplyFault(nt, "awg2", m, kk, net') => CommittedNode(net') = None
<1>1. \A x : x.link["awg2"] = nt.link["awg2"] => CommittedNode(x) = CommittedNode(nt)
  BY DEF CommittedNode
<1>2. /\ \A x \in Interrupted(nt, "awg1", m, kk) : x.link["awg2"] = nt.link["awg2"]
      /\ \A x \in Interrupted(nt, "awg2", m, kk) : CommittedNode(x) = None
  BY LinkKept
<1>3. \A i : ApplyFault(nt, i, m, kk, net') => net' \in Interrupted(nt, i, m, kk)
  BY DEF ApplyFault
<1> QED
  BY <1>1, <1>2, <1>3

LEMMA TunnelFinish ==
    ASSUME TypeInv, TunnelInv, OneHandler, NEW r \in Req, FinishRequest(r)
    PROVE  TunnelInv'
<1> DEFINE n == req[r].node
           k == req[r].key
           oldn == CommittedNode(net)
           newn == CommittedNode(net')
<1>t. /\ net \in Net /\ awg1Key \in Key /\ row \in [Node -> Row] /\ TypeOK /\ lastKey \in Nat
      /\ "awg1" \in Iface /\ "awg2" \in Iface
  BY DEF TypeInv, TypeOK, Iface
<1>n. \A kind \in RequestKinds : Ends(r, kind) =>
        /\ n \in Node /\ k \in Key /\ row[n].exists /\ req[r].geo = row[n].geoip
        /\ kind = "geoip_on" => \A m \in Node : row[m].geoip => m \in req[r].others \cup {n}
  BY EndsType DEF Ends, TunnelInv, RequestKinds, TypeInv, TypeOK, Assigned
<1>a. \A kk \in Key, m \in Node : /\ Applied(net, "awg1", m, kk) \in Net
                                  /\ Applied(net, "awg2", m, kk) \in Net
  BY <1>t, AppliedType
<1>c. \A nt \in Net : net'.link["awg2"] = nt.link["awg2"] => newn = CommittedNode(nt)
  BY DEF CommittedNode
<1>p. \A nt \in Net : \A rw : PolicyFault(rw, nt, net') => newn = CommittedNode(nt)
  BY <1>c, LinkKept DEF PolicyFault
<1>0. Owned
  BY DEF TunnelInv
<1>1. CASE FinishActivate(r)
  <2>1. Ends(r, "activate") /\ n \in Node /\ k \in Key
    BY <1>1, <1>n DEF FinishActivate, RequestKinds
  <2>2. row' = row \/ row' = [m \in Node |->
                                IF m = n THEN [row[m] EXCEPT !.active = TRUE]
                                ELSE IF m \in req[r].others
                                THEN [row[m] EXCEPT !.active = FALSE] ELSE row[m]]
    BY <1>1 DEF FinishActivate, Refused
  <2>3. MarksKept
    BY <1>t, <2>2 DEF MarksKept, Row
  <2>4. Routed(Applied(net, "awg1", n, k), "awg1", n).link["awg2"] = net.link["awg2"]
    BY <1>a, <1>t, <2>1, LinkKept
  <2>5. newn = oldn
    <3>1. \/ net' \in {net, Routed(Applied(net, "awg1", n, k), "awg1", n)}
          \/ ApplyFault(net, "awg1", n, k, net')
      BY <1>1 DEF FinishActivate, Refused
    <3>2. CASE ApplyFault(net, "awg1", n, k, net')
      BY FaultKept, <1>t, <2>1, <3>2
    <3> QED
      BY <1>c, <1>t, <2>4, <3>1, <3>2
  <2> QED
    BY <1>0, <2>1, <2>3, <2>5, OwnedKept, HandlerGone DEF LinkOwned
<1>2. CASE FinishReset(r)
  <2> DEFINE i == IF req[r].geo THEN "awg2" ELSE "awg1"
             net1 == Applied(net, i, n, k)
             row1 == IF req[r].st = "online" THEN row ELSE [row EXCEPT ![n].status = "online"]
             net2 == IF req[r].act THEN Routed(net1, "awg1", n) ELSE net1
  <2>1. Ends(r, "reset") /\ n \in Node /\ k \in Key /\ req[r].geo = row[n].geoip
    BY <1>2, <1>n DEF FinishReset, RequestKinds
  <2>2. MarksKept
    <3>1. row' = row \/ row' = [row EXCEPT ![n].status = "online"]
      BY <1>2 DEF FinishReset
    <3> QED
      BY <1>t, <3>1, StatusColumn DEF MarksKept
  <2>3. net1 \in Net /\ CommittedNode(net1) = IF req[r].geo THEN n ELSE oldn
    BY <1>a, <1>t, <2>1, LinkKept DEF CommittedNode
  <2> HIDE DEF net1
  <2>4. net2 \in Net /\ net2.link = net1.link
    BY <1>t, <2>1, <2>3, LinkKept, RoutedType
  <2> HIDE DEF net2
  <2>5. \/ net' \in {Abandoned(net1, i), net2}
        \/ \E a, g : net' = PolicyRouted(net2, a, g)
        \/ ApplyFault(net, i, n, k, net')
        \/ PolicyFault(row1, Abandoned(net2, "awg2"), net')
    BY <1>2 DEF FinishReset, net1, net2
  <2>6. newn \in {n, oldn, None} /\ (newn = n => newn = oldn \/ row[n].geoip)
    <3>0. None \notin Node
      BY DEF None, Node
    <3>1. CASE net' = net2 \/ \E a, g : net' = PolicyRouted(net2, a, g)
      <4>1. net'.link = net1.link
        BY <2>4, <3>1, LinkKept
      <4>2. newn = CommittedNode(net1)
        BY <2>3, <4>1, <1>c
      <4> QED
        BY <2>1, <2>3, <4>2
    <3>3. CASE net' = Abandoned(net1, i)
      <4>1. newn \in {CommittedNode(net1), None} /\ (req[r].geo => newn = None)
        BY <1>c, <2>3, <3>3, LinkKept
      <4> QED
        BY <2>1, <2>3, <3>0, <4>1
    <3>4. CASE PolicyFault(row1, Abandoned(net2, "awg2"), net')
      <4> HIDE DEF row1
      <4>1. newn = None
        BY <1>p, <1>t, <2>4, <3>4, LinkKept, LinkUpdate
      <4> QED
        BY <2>1, <3>0, <4>1
    <3>2. CASE ApplyFault(net, i, n, k, net')
      <4>1. ASSUME i = "awg2" PROVE newn = None
        BY <1>t, FaultKept, <2>1, <3>2, <4>1
      <4>2. ASSUME i = "awg1" PROVE newn = oldn
        BY <1>t, FaultKept, <2>1, <3>2, <4>2
      <4>3. newn \in {oldn, None}
        BY <4>1, <4>2
      <4> QED
        BY <2>1, <3>0, <4>3
    <3> QED
      BY <2>5, <3>1, <3>2, <3>3, <3>4
  <2> QED
    BY <1>0, <2>1, <2>2, <2>6, OwnedKept, HandlerGone DEF LinkOwned
<1>3. CASE FinishGeoipOn(r)
  <2> DEFINE net1 == Applied(net, "awg2", n, k)
             row1 == [m \in Node |-> IF m = n THEN [row[m] EXCEPT !.geoip = TRUE]
                                     ELSE IF m \in req[r].others
                                     THEN [row[m] EXCEPT !.geoip = FALSE] ELSE row[m]]
  <2>1. /\ Ends(r, "geoip_on") /\ n \in Node /\ k \in Key /\ row[n].exists
        /\ \A m \in Node : row[m].geoip => m \in req[r].others \cup {n}
    BY <1>3, <1>n DEF FinishGeoipOn, RequestKinds
  <2>2. net1 \in Net /\ CommittedNode(net1) = n
    BY <1>a, <1>t, <2>1, LinkKept
  <2> HIDE DEF net1
  <2>3. \/ row' = row /\ net' = net
        \/ row' = row /\ ApplyFault(net, "awg2", n, k, net')
        \/ row' = row /\ \E rw : PolicyFault(rw, Abandoned(net1, "awg2"), net')
        \/ row' = row1 /\ \E a, g : net' = PolicyRouted(net1, a, g)
    BY <1>3 DEF FinishGeoipOn, Refused, net1
  <2>4. CASE row' = row
    <3>0. (\E rw : PolicyFault(rw, Abandoned(net1, "awg2"), net')) => newn = None
      BY <1>p, <1>t, <2>2, LinkKept, LinkUpdate
    <3>f. ApplyFault(net, "awg2", n, k, net') => newn = None
      BY FaultKept, <1>t, <2>1
    <3>1. newn \in {oldn, None} \/ (row' = row1 /\ \E a, g : net' = PolicyRouted(net1, a, g))
      BY <2>3, <3>0, <3>f
    <3>2. row' = row1 => row[n].geoip
      <4>1. row1[n].geoip
        BY <1>t, <2>1 DEF Row
      <4> QED
        BY <2>4, <4>1
    <3>3. newn \in {oldn, None} \/ newn = n
      BY <1>c, <2>2, <3>1, LinkKept
    <3> QED
      BY <1>0, <2>1, <2>4, <3>1, <3>2, <3>3, OwnedKept, HandlerGone DEF LinkOwned, MarksKept
  <2>5. CASE row' = row1 /\ \E a, g : net' = PolicyRouted(net1, a, g)
    <3>1. newn = n
      BY <1>c, <2>2, <2>5, LinkKept
    <3>2. \A m \in Node : /\ row'[m].geoip <=> m = n
                          /\ row'[m].exists = row[m].exists
      <4> SUFFICES ASSUME NEW m \in Node
                   PROVE  (row'[m].geoip <=> m = n) /\ row'[m].exists = row[m].exists
        OBVIOUS
      <4>1. row[m] \in Row
        BY <1>t
      <4>2. row'[m] = IF m = n THEN [row[m] EXCEPT !.geoip = TRUE]
                      ELSE IF m \in req[r].others THEN [row[m] EXCEPT !.geoip = FALSE] ELSE row[m]
        BY <2>5
      <4> QED
        BY <2>1, <4>1, <4>2 DEF Row
    <3>3. Owned'
      BY <2>1, <3>1, <3>2 DEF Owned, GeoipTunnelOwned
    <3> QED
      BY <2>1, <3>3, HandlerGone
  <2> QED
    BY <2>3, <2>4, <2>5
<1>4. CASE FinishGeoipOff(r)
  <2>1. Ends(r, "geoip_off") /\ n \in Node
    BY <1>4, <1>n DEF FinishGeoipOff, RequestKinds
  <2> DEFINE off == Deleted(net, "awg2", "absent")
  <2>2. \/ row' = row /\ net' = net
        \/ row' = row /\ \E rw : PolicyFault(rw, off, net')
        \/ /\ row' = [row EXCEPT ![n].geoip = FALSE]
           /\ \E a, g : net' = PolicyRouted(off, a, g)
    BY <1>4 DEF FinishGeoipOff, Refused
  <2>o. off \in Net /\ CommittedNode(off) = None
    BY <1>t, LinkKept, DeletedType
  <2> HIDE DEF off
  <2>3. CASE row' = row
    <3>2. newn \in {oldn, None}
      BY <1>c, <1>p, <2>2, <2>o, LinkKept
    <3> QED
      BY <1>0, <2>1, <2>3, <3>2, OwnedKept, HandlerGone DEF LinkOwned, MarksKept
  <2>4. CASE /\ row' = [row EXCEPT ![n].geoip = FALSE]
             /\ \E a, g : net' = PolicyRouted(off, a, g)
    <3>1. newn = None
      BY <1>c, <2>4, <2>o, LinkKept
    <3>2. \A m \in Node : (row'[m].geoip => row[m].geoip) /\ row'[m].exists = row[m].exists
      BY <1>t, <2>4 DEF Row
    <3>3. Owned'
      BY <1>0, <3>1, <3>2 DEF Owned, GeoipTunnelOwned, None, Node
    <3> QED
      BY <2>1, <3>3, HandlerGone
  <2> QED
    BY <2>2, <2>3, <2>4
<1>5. CASE FinishUpdate(r)
  <2> DEFINE awg1(kk) == IF req[r].act THEN Applied(net, "awg1", n, kk) ELSE net
             awg2(kk) == Applied(awg1(kk), "awg2", n, kk)
  <2>1. Ends(r, "update") /\ n \in Node /\ k \in Key /\ req[r].geo = row[n].geoip
    BY <1>5, <1>n DEF FinishUpdate, RequestKinds
  <2>2. PICK kk \in Key :
          /\ row' = row \/ row' = [row EXCEPT ![n].key = kk]
          /\ \/ net' \in {net, awg1(kk)}
             \/ req[r].geo /\ \E a, g : net' = PolicyRouted(awg2(kk), a, g)
             \/ ApplyFault(net, "awg1", n, kk, net')
             \/ ApplyFault(awg1(kk), "awg2", n, kk, net')
             \/ \E rw : PolicyFault(rw, Abandoned(awg2(kk), "awg2"), net')
    <3>1. CASE Refused(r)
      BY <3>1, <2>1 DEF Refused
    <3>2. CASE \E rekey \in BOOLEAN :
                 LET q == IF rekey THEN -(lastKey + 1) ELSE req[r].key
                     row1 == IF rekey THEN [row EXCEPT ![n].key = q] ELSE row
                 IN /\ row' \in {row, row1}
                    /\ \/ net' \in {net, awg1(q)}
                       \/ /\ req[r].geo
                          /\ \E a, g : net' = PolicyRouted(awg2(q), a, g)
                       \/ ApplyFault(net, "awg1", n, q, net')
                       \/ ApplyFault(awg1(q), "awg2", n, q, net')
                       \/ PolicyFault(row1, Abandoned(awg2(q), "awg2"), net')
      <4> HIDE DEF awg1, awg2
      <4>1. PICK rekey \in BOOLEAN :
                 LET q == IF rekey THEN -(lastKey + 1) ELSE req[r].key
                     row1 == IF rekey THEN [row EXCEPT ![n].key = q] ELSE row
                 IN /\ row' \in {row, row1}
                    /\ \/ net' \in {net, awg1(q)}
                       \/ /\ req[r].geo
                          /\ \E a, g : net' = PolicyRouted(awg2(q), a, g)
                       \/ ApplyFault(net, "awg1", n, q, net')
                       \/ ApplyFault(awg1(q), "awg2", n, q, net')
                       \/ PolicyFault(row1, Abandoned(awg2(q), "awg2"), net')
        BY <3>2
      <4> DEFINE q == IF rekey THEN -(lastKey + 1) ELSE req[r].key
                 row1 == IF rekey THEN [row EXCEPT ![n].key = q] ELSE row
      <4>2. q \in Key
        BY <1>t, <2>1 DEF Key
      <4>3. row' = row \/ row' = [row EXCEPT ![n].key = q]
        BY <4>1
      <4>4. \/ net' \in {net, awg1(q)}
            \/ req[r].geo /\ \E a, g : net' = PolicyRouted(awg2(q), a, g)
            \/ ApplyFault(net, "awg1", n, q, net')
            \/ ApplyFault(awg1(q), "awg2", n, q, net')
            \/ PolicyFault(row1, Abandoned(awg2(q), "awg2"), net')
        BY <4>1
      <4> HIDE DEF q, row1
      <4> QED
        BY <4>2, <4>3, <4>4
    <3>3. \/ Refused(r)
          \/ \E rekey \in BOOLEAN :
                 LET q == IF rekey THEN -(lastKey + 1) ELSE req[r].key
                     row1 == IF rekey THEN [row EXCEPT ![n].key = q] ELSE row
                 IN /\ row' \in {row, row1}
                    /\ \/ net' \in {net, awg1(q)}
                       \/ /\ req[r].geo
                          /\ \E a, g : net' = PolicyRouted(awg2(q), a, g)
                       \/ ApplyFault(net, "awg1", n, q, net')
                       \/ ApplyFault(awg1(q), "awg2", n, q, net')
                       \/ PolicyFault(row1, Abandoned(awg2(q), "awg2"), net')
      BY <1>5 DEF FinishUpdate, awg1, awg2
    <3> QED
      BY <3>1, <3>2, <3>3
  <2>3. MarksKept
    BY <1>t, <2>2, KeyColumn DEF MarksKept
  <2>4. awg1(kk) \in Net /\ awg1(kk).link["awg2"] = net.link["awg2"]
    BY <1>a, <1>t, <2>1, LinkKept
  <2> HIDE DEF awg1
  <2>5. awg2(kk) \in Net /\ CommittedNode(awg2(kk)) = n
    BY <1>t, <2>1, <2>4, AppliedType, LinkKept
  <2> HIDE DEF awg2
  <2>7. Abandoned(awg2(kk), "awg2") \in Net /\ CommittedNode(Abandoned(awg2(kk), "awg2")) = None
    BY <1>t, <2>5, LinkKept, LinkUpdate
  <2>6. newn \in {oldn, None} \/ (newn = n /\ row[n].geoip)
    <3>1. CASE net' \in {net, awg1(kk)}
      BY <1>c, <1>t, <2>4, <3>1
    <3>2. CASE req[r].geo /\ \E a, g : net' = PolicyRouted(awg2(kk), a, g)
      <4>1. net'.link = awg2(kk).link
        BY <2>5, <3>2, LinkKept
      <4> QED
        BY <1>c, <2>1, <2>5, <3>2, <4>1
    <3>3. CASE ApplyFault(net, "awg1", n, kk, net')
      BY FaultKept, <1>t, <2>1, <3>3
    <3>5. CASE ApplyFault(awg1(kk), "awg2", n, kk, net')
      BY FaultKept, <2>1, <2>4, <3>5
    <3>4. CASE \E rw : PolicyFault(rw, Abandoned(awg2(kk), "awg2"), net')
      BY <1>p, <2>7, <3>4
    <3> QED
      BY <2>2, <3>1, <3>2, <3>3, <3>4, <3>5
  <2> QED
    BY <1>0, <2>1, <2>3, <2>6, OwnedKept, HandlerGone DEF LinkOwned
<1>6. CASE FinishDelete(r)
  <2> DEFINE freed(nt, act, geo) ==
               LET one == IF act THEN Unrouted(nt, "awg1") ELSE nt
               IN IF geo THEN Unrouted(one, "awg2") ELSE one
             kernel(nt) ==
               LET one == IF req[r].act THEN Unrouted(nt, "awg1") ELSE nt
               IN IF req[r].geo THEN Deleted(one, "awg2", "absent") ELSE one
             bare == IF req[r].key = 0 THEN net ELSE PeerRemoved(net, n, req[r].key)
  <2>1. Ends(r, "delete") /\ n \in Node /\ k \in Key /\ req[r].geo = row[n].geoip
    BY <1>6, <1>n DEF FinishDelete, RequestKinds
  <2>2. row' = [row EXCEPT ![n] = NoRow]
        /\ \E act, geo : net' \in {kernel(bare), kernel(freed(bare, act, geo))}
    BY <1>6 DEF FinishDelete
  <2>3. bare \in Net /\ CommittedNode(bare) \in {oldn, None}
    BY <1>t, <2>1, PeerRemovedType, LinkKept
  <2> HIDE DEF bare
  <2>4. \A nt \in Net : \A act, geo : freed(nt, act, geo) \in Net /\ freed(nt, act, geo).link = nt.link
    BY <1>t, <2>1, RoutedType, LinkKept
  <2>5. \A nt \in Net : CommittedNode(kernel(nt)) = IF req[r].geo THEN None ELSE CommittedNode(nt)
    <3> SUFFICES ASSUME NEW nt \in Net
                 PROVE  CommittedNode(kernel(nt)) = IF req[r].geo THEN None ELSE CommittedNode(nt)
      OBVIOUS
    <3> DEFINE one == IF req[r].act THEN Unrouted(nt, "awg1") ELSE nt
    <3>1. one \in Net /\ one.link = nt.link
      BY <1>t, <2>1, RoutedType, LinkKept
    <3> HIDE DEF one
    <3>2. CommittedNode(Deleted(one, "awg2", "absent")) = None
      BY <3>1, LinkKept
    <3>3. kernel(nt) = IF req[r].geo THEN Deleted(one, "awg2", "absent") ELSE one
      BY DEF one
    <3> QED
      BY <3>1, <3>2, <3>3 DEF CommittedNode
  <2>l. \A nt \in Net : \A act, geo : CommittedNode(freed(nt, act, geo)) = CommittedNode(nt)
    BY <2>4 DEF CommittedNode
  <2> HIDE DEF kernel, freed
  <2>6. newn \in {oldn, None} /\ (req[r].geo => newn = None)
    BY <2>2, <2>3, <2>4, <2>5, <2>l
  <2>7. ~row'[n].geoip /\ \A m \in Node \ {n} : row'[m] = row[m]
    BY <1>t, <2>1, <2>2 DEF NoRow
  <2>8. None \notin Node
    BY DEF None, Node
  <2>9. Owned'
    BY <1>0, <2>1, <2>6, <2>7, <2>8 DEF Owned, GeoipTunnelOwned
  <2> QED
    BY <2>1, <2>9, HandlerGone
<1>7. CASE FinishCheck(r)
  <2>1. Ends(r, "check") /\ net' = net
    BY <1>7 DEF FinishCheck
  <2>2. PICK status : row' = row \/ row' = [row EXCEPT ![n].status = status]
    BY <1>7 DEF FinishCheck, StatusWritten
  <2>3. MarksKept
    <3>1. CASE row' = [row EXCEPT ![n].status = status]
      BY <1>t, <3>1, StatusColumn DEF MarksKept
    <3> QED
      BY <2>2, <3>1 DEF MarksKept
  <2> QED
    BY <1>0, <2>1, <2>3, OwnedKept, HandlerGone DEF LinkOwned
<1> QED
  BY <1>1, <1>2, <1>3, <1>4, <1>5, <1>6, <1>7 DEF FinishRequest

LEMMA TunnelHealthStep ==
    ASSUME TypeInv, HealthStep
    PROVE  MarksKept /\ net'.link["awg2"] = net.link["awg2"] /\ req' = req
<1> DEFINE n == health.node
           t == health.target
<1>t. /\ net \in Net /\ awg1Key \in Key /\ row \in [Node -> Row] /\ TypeOK
      /\ "awg1" \in Iface /\ "awg2" \in Iface
  BY DEF TypeInv, TypeOK, Iface
<1>1. CASE HealthProbe
  <2>1. PICK status : row' = row \/ row' = [row EXCEPT ![n].status = status]
    BY <1>1 DEF HealthProbe, StatusWritten
  <2>2. MarksKept
    <3>1. CASE row' = [row EXCEPT ![n].status = status]
      BY <1>t, <3>1, StatusColumn DEF MarksKept
    <3> QED
      BY <2>1, <3>1 DEF MarksKept
  <2> QED
    BY <1>1, <2>2 DEF HealthProbe
<1>2. CASE HealthSwitch
  <2>1. MarksKept
    <3> SUFFICES ASSUME NEW m \in Node
                 PROVE  row'[m].exists = row[m].exists /\ row'[m].geoip = row[m].geoip
      BY DEF MarksKept
    <3>1. row[m] \in Row
      BY <1>t
    <3> QED
      BY <1>2, <1>t, <3>1 DEF HealthSwitch, Row
  <2> QED
    BY <1>2, <2>1 DEF HealthSwitch
<1>3. CASE HealthApply
  <2>1. t \in Node /\ health.tkey \in Key
    BY <1>3 DEF HealthApply, TypeInv, TypeOK, Assigned, Health
  <2>2. FailedOver.link["awg2"] = net.link["awg2"]
    <3>1. Applied(net, "awg1", t, health.tkey) \in Net
      BY <1>t, <2>1, AppliedType
    <3> QED
      BY <1>t, <2>1, <3>1, LinkKept DEF FailedOver
  <2>3. ApplyFault(net, "awg1", t, health.tkey, net') => net'.link["awg2"] = net.link["awg2"]
    BY <1>t, <2>1, LinkKept DEF ApplyFault
  <2>4. net'.link["awg2"] = net.link["awg2"]
    BY <1>3, <2>2, <2>3 DEF HealthApply
  <2> QED
    BY <1>3, <2>4 DEF HealthApply, MarksKept
<1>4. CASE HealthStart \/ (\E m \in Node, was \in BOOLEAN : HealthRead(m, was)) \/ HealthObserve
           \/ HealthDecide
  BY <1>4 DEF HealthStart, HealthRead, HealthObserve, HealthDecide, db, MarksKept
<1> QED
  BY <1>1, <1>2, <1>3, <1>4 DEF HealthStep

\* A missing awg2 is made again for the GeoIP node.
LEMMA TunnelAwgCheck ==
    ASSUME TypeInv, NEW i \in Iface, AwgCheck(i)
    PROVE  MarksKept /\ LinkOwned /\ req' = req
<1>t. /\ net \in Net /\ awg1Key \in Key /\ row \in [Node -> Row] /\ TypeOK
  BY DEF TypeInv, TypeOK
<1>1. UNCHANGED <<row, req>>
  BY DEF AwgCheck, db, procs
<1>2. PICK n \in Loadable(row, i) :
        net' = Applied(net, i, n, row[n].key) \/ ApplyFault(net, i, n, row[n].key, net')
  BY DEF AwgCheck
<1>3. n \in Node /\ row[n].key \in Key /\ (i = "awg2" => row[n].geoip) /\ i \in {"awg1", "awg2"}
  BY <1>2, <1>t DEF Loadable, Row, Iface
<1>c. net'.link["awg2"] = net.link["awg2"] => CommittedNode(net') = CommittedNode(net)
  BY DEF CommittedNode
<1>4. CASE net' = Applied(net, i, n, row[n].key)
  BY <1>t, <1>c, <1>1, <1>3, <1>4, LinkKept DEF MarksKept, LinkOwned
<1>5. CASE ApplyFault(net, i, n, row[n].key, net')
  <2>1. net' \in Interrupted(net, i, n, row[n].key)
    BY <1>5 DEF ApplyFault
  <2>2. CommittedNode(net') \in {CommittedNode(net), None}
    BY <1>t, <1>c, <1>3, <2>1, LinkKept
  <2> QED
    BY <1>1, <2>2 DEF MarksKept, LinkOwned
<1> QED
  BY <1>2, <1>4, <1>5

LEMMA TunnelOperator ==
    ASSUME TypeInv, TunnelInv, OneHandler, NoTask, Operator
    PROVE  TunnelInv'
<1>t. row \in [Node -> Row] /\ req \in [Req -> Handler] /\ TypeOK
  BY DEF TypeInv, TypeOK
<1>1. ASSUME NEW r \in Req, NEW n \in Node, BeginRequest(r, n)
      PROVE  TunnelInv'
  <2>1. \E kind \in Kinds : \E others :
          /\ Begin(r, kind, n, others)
          /\ kind = "geoip_on" =>
               \E g \in Pick({m \in Node : row[m].geoip}) : others = {g} \ {n, None}
    <3>1. CASE BeginGeoipOn(r, n)
      <4>1. PICK g \in Pick({m \in Node : row[m].geoip}) : Begin(r, "geoip_on", n, {g} \ {n, None})
        BY <3>1 DEF BeginGeoipOn
      <4> QED
        BY <4>1 DEF Begin
    <3>2. CASE ~BeginGeoipOn(r, n)
      <4>1. \E kind \in Kinds \ {"geoip_on"} : \E others : Begin(r, kind, n, others)
        BY <1>1, <3>2 DEF BeginRequest, BeginActivate, BeginReset, BeginOther, BeginGeoipOff, Begin
      <4> QED
        BY <4>1
    <3> QED
      BY <3>1, <3>2
  <2>k. PICK kind \in Kinds : \E others :
          /\ Begin(r, kind, n, others)
          /\ kind = "geoip_on" =>
               \E g \in Pick({m \in Node : row[m].geoip}) : others = {g} \ {n, None}
    BY <2>1
  <2>2. PICK others :
          /\ Begin(r, kind, n, others)
          /\ kind = "geoip_on" =>
               \E g \in Pick({m \in Node : row[m].geoip}) : others = {g} \ {n, None}
    BY <2>k
  <2>3. UNCHANGED <<row, net>> /\ row[n].exists
        /\ \A q \in Req : /\ req'[q].node = n /\ req'[q].geo = row[n].geoip
                          /\ req'[q].kind = kind /\ req'[q].others = others
    BY <1>t, <2>2 DEF Begin, OneHandler, db
  <2>4. kind = "geoip_on" => \A m \in Node : row[m].geoip => m \in others \cup {n}
    <3> SUFFICES ASSUME kind = "geoip_on", NEW m \in Node, row[m].geoip
                 PROVE  m \in others \cup {n}
      OBVIOUS
    <3>1. {l \in Node : row[l].geoip} = {m}
      BY DEF TunnelInv, Owned, GeoipTunnelOwned
    <3>2. Pick({l \in Node : row[l].geoip}) = {m} /\ m # None
      BY <3>1 DEF Pick, None, Node
    <3> QED
      BY <2>2, <3>2
  <2> QED
    BY <2>3, <2>4 DEF TunnelInv, Owned, GeoipTunnelOwned
<1>2. ASSUME NEW n \in Node, NEW mode \in Modes, CreateNode(n, mode)
      PROVE  TunnelInv'
  <2>1. ~row[n].exists
    BY <1>2 DEF CreateNode, Node
  <2>2. ~row'[n].geoip /\ \A m \in Node \ {n} : row'[m] = row[m]
    BY <1>2, <1>t DEF CreateNode, NoRow
  <2>3. UNCHANGED <<net, req>>
    BY <1>2 DEF CreateNode, procs
  <2>4. \A r \in Req : req[r].kind # "none" => req[r].node \in Node
    BY DEF TypeInv, Assigned
  <2> QED
    BY <2>1, <2>2, <2>3, <2>4 DEF TunnelInv, Owned, GeoipTunnelOwned
<1>3. CASE ToggleFailover
  BY <1>3 DEF ToggleFailover, TunnelInv, Owned, GeoipTunnelOwned, procs
<1> QED
  BY <1>1, <1>2, <1>3 DEF Operator, NoTask

\* Startup brings awg2 up for the GeoIP node, leaves it as it survived, or fails.
LEMMA TunnelOutside ==
    ASSUME TypeInv, TunnelInv, Outside
    PROVE  TunnelInv'
<1>t. /\ net \in Net /\ awg1Key \in Key /\ row \in [Node -> Row] /\ TypeOK
      /\ "awg1" \in Iface /\ "awg2" \in Iface
  BY DEF TypeInv, TypeOK, Iface
<1>1. CASE Restart
  <2>1. row' = row /\ req' = [r \in Req |-> NoHandler]
    BY <1>1 DEF Restart, db
  <2>2. PICK a \in Pick(Loadable(row, "awg1")), g \in Pick(Loadable(row, "awg2")) :
          \E ra, rg : \E base \in {DownNet, net} :
             \E one \in Loaded(base, "awg1", a) : \E two \in Loaded(one, "awg2", g) :
                net' \in Rerouted(two, ra, rg)
    BY <1>1 DEF Restart
  <2>b. PICK ra, rg : \E base \in {DownNet, net} :
             \E one \in Loaded(base, "awg1", a) : \E two \in Loaded(one, "awg2", g) :
                net' \in Rerouted(two, ra, rg)
    BY <2>2
  <2>d. PICK base \in {DownNet, net} :
             \E one \in Loaded(base, "awg1", a) : \E two \in Loaded(one, "awg2", g) :
                net' \in Rerouted(two, ra, rg)
    BY <2>b
  <2>3. PICK one \in Loaded(base, "awg1", a) :
             \E two \in Loaded(one, "awg2", g) : net' \in Rerouted(two, ra, rg)
    BY <2>d
  <2>4. PICK two \in Loaded(one, "awg2", g) : net' \in Rerouted(two, ra, rg)
    BY <2>3
  <2>5. /\ a \in Node \cup {None} /\ g \in Node \cup {None}
        /\ g # None => row[g].geoip
        /\ a # None => row[a].key \in Key
        /\ g # None => row[g].key \in Key
    BY <1>t, <2>2 DEF Pick, Loadable, Row
  <2>6. base \in Net /\ CommittedNode(base) \in {CommittedNode(net), None}
    <3>1. DownNet \in Net /\ CommittedNode(DownNet) = None
      BY <1>t, NullValues DEF DownNet, NoLink, CommittedNode
    <3> QED
      BY <1>t, <2>3, <3>1
  <2>7. one \in Net /\ CommittedNode(one) = CommittedNode(base)
    <3>1. one \in Net /\ one.link["awg2"] = base.link["awg2"]
      BY <1>t, <2>3, <2>5, <2>6, AppliedType, InterruptedType, LinkKept DEF Loaded
    <3> QED
      BY <3>1 DEF CommittedNode
  <2>9. two \in Net /\ CommittedNode(two) \in {CommittedNode(net), None, g}
    BY <1>t, <2>4, <2>5, <2>6, <2>7, AppliedType, InterruptedType, LinkKept DEF Loaded
  <2>10. CommittedNode(net') = CommittedNode(two)
    <3>1. net'.link = two.link
      BY <2>4, <2>9, LinkKept DEF Rerouted
    <3> QED
      BY <3>1 DEF CommittedNode
  <2>8. Owned'
    <3>1. CommittedNode(net') = None \/ CommittedNode(net') = CommittedNode(net)
             \/ row[CommittedNode(net')].geoip
      BY <2>5, <2>9, <2>10
    <3> QED
      BY <2>1, <3>1 DEF TunnelInv, Owned, GeoipTunnelOwned, None, Node
  <2> QED
    BY <2>1, <2>8 DEF TunnelInv, NoHandler
<1>2. ASSUME NEW n \in Node, GraceEnds(n) \/ LinkChange(n)
      PROVE  TunnelInv'
  BY <1>2 DEF GraceEnds, LinkChange, db, procs, TunnelInv, Owned, GeoipTunnelOwned
<1> QED
  BY <1>1, <1>2 DEF Outside

LEMMA TunnelStep ==
    ASSUME TypeInv, TunnelInv, OneHandler, NoTask, [Next]_vars
    PROVE  TunnelInv'
<1>h. ASSUME MarksKept, LinkOwned, req' = req
      PROVE  TunnelInv'
  <2>1. Owned'
    BY <1>h, OwnedKept DEF TunnelInv
  <2> QED
    BY <1>h, <2>1 DEF TunnelInv, MarksKept, TypeInv, Assigned
<1>1. CASE HealthStep
  BY <1>h, <1>1, TunnelHealthStep DEF LinkOwned, CommittedNode
<1>2. ASSUME NEW i \in Iface, AwgCheck(i)
      PROVE  TunnelInv'
  BY <1>h, <1>2, TunnelAwgCheck
<1>3. ASSUME NEW r \in Req, FinishRequest(r)
      PROVE  TunnelInv'
  BY <1>3, TunnelFinish
<1>4. CASE Operator
  BY <1>4, TunnelOperator
<1>5. CASE Outside
  BY <1>5, TunnelOutside
<1>6. CASE UNCHANGED vars
  BY <1>h, <1>6 DEF vars, db, procs, MarksKept, LinkOwned
<1> QED
  BY <1>1, <1>2, <1>3, <1>4, <1>5, <1>6 DEF Next, NoTask

\* With one handler at a time and no task, at most one node is the GeoIP node, and awg2
\* carries another one only if what set it up failed half-way, for any number of nodes and
\* faults: handlers that apply_interface or the routing makes roll back, crashes that leave
\* the kernel as it was, and startups that fail in part.
THEOREM TunnelCorrect ==
    ASSUME OneHandler, NoTask
    PROVE  Spec => []GeoipTunnelOwned
<1>1. Init => TunnelInv
  <2> SUFFICES ASSUME Init PROVE TunnelInv
    OBVIOUS
  <2>1. (\A n \in Node : ~row[n].geoip) /\ \A r \in Req : req[r].kind = "none"
    BY DEF Init, NoRow, NoHandler
  <2>2. CommittedNode(net) = None /\ None \notin Node
    BY DEF Init, DownNet, NoLink, Iface, None, Node, CommittedNode
  <2> QED
    BY <2>1, <2>2 DEF TunnelInv, Owned, GeoipTunnelOwned
<1>2. TypeInv /\ TunnelInv /\ [Next]_vars => TypeInv' /\ TunnelInv'
  BY TypeStep, TunnelStep
<1>3. TunnelInv => GeoipTunnelOwned
  BY DEF TunnelInv, Owned
<1> QED
  BY <1>1, <1>2, <1>3, TypeInit, PTL DEF Spec

---------------------------------------------------------------------------
(* NodeSelection.  A step of the processes is a step of it or leaves it    *)
(* alone.  Needed for that: what is selected is there, so that a target    *)
(* read as active is selected at the decision; an attempt on the failing   *)
(* node itself read that node as active; and SpacingInv, as the decision   *)
(* is taken by the counter of failures, some steps after it was counted.   *)

SelectedNodes == {n \in Node : row[n].exists /\ row[n].active}

Attempt == IF health.pc \in {"switch", "apply"}
           THEN [stage |-> health.pc, from |-> health.node, to |-> health.target,
                 both |-> health.tact]
           ELSE [stage |-> "none", from |-> None, to |-> None, both |-> FALSE]

SelectionInv ==
    /\ \A n \in Node : row[n].active => row[n].exists
    /\ health.pc = "switch" /\ health.target = health.node => health.tact

\* What each step has to show
SelectionGoal == SelectionInv' /\ [Selection!Next]_(Selection!selection)

\* What the abstract state depends on is as before.
MarksSame ==
    \A n \in Node : row'[n].exists = row[n].exists /\ row'[n].active = row[n].active

LEMMA SelectionFrame ==
    ASSUME SelectionInv, MarksSame, UNCHANGED <<since, incident, health>>
    PROVE  SelectionGoal
<1>1. SelectedNodes' = SelectedNodes
  BY DEF MarksSame, SelectedNodes
<1>2. Attempt' = Attempt
  BY DEF Attempt
<1>3. UNCHANGED Selection!selection
  BY <1>1, <1>2 DEF Selection!selection, SelectedNodes, Attempt
<1>4. SelectionInv'
  BY DEF SelectionInv, MarksSame
<1> QED
  BY <1>3, <1>4 DEF SelectionGoal

\* The operator selects n, or its row is removed.
LEMMA SelectionChosen ==
    ASSUME SelectionInv, UNCHANGED <<since, incident, health>>, NEW n \in Node,
           \A m \in Node : row'[m].active => row'[m].exists,
           \/ n \in SelectedNodes' /\ SelectedNodes' \subseteq SelectedNodes \cup {n}
           \/ SelectedNodes' = SelectedNodes \ {n}
    PROVE  SelectionGoal
<1>1. Attempt' = Attempt
  BY DEF Attempt
<1>2. Selection!Select(n) \/ Selection!Remove(n)
  BY <1>1 DEF Selection!Select, Selection!Remove, SelectedNodes, Attempt
<1>3. SelectionInv'
  BY DEF SelectionInv
<1> QED
  BY <1>2, <1>3 DEF SelectionGoal, Selection!Next

\* Writing a column other than existence and selection
LEMMA OtherColumn ==
    ASSUME TypeOK, NEW n, NEW v,
           \/ row' = row
           \/ row' = [row EXCEPT ![n].status = v]
           \/ row' = [row EXCEPT ![n].key = v]
           \/ row' = [row EXCEPT ![n].geoip = v]
           \/ row' = [row EXCEPT ![n].status = "online", ![n].deployed = TRUE]
    PROVE  MarksSame
<1> SUFFICES ASSUME NEW m \in Node
             PROVE  row'[m].exists = row[m].exists /\ row'[m].active = row[m].active
  BY DEF MarksSame
<1>1. row[m] \in Row
  BY DEF TypeOK
<1>2. \/ row'[m] = row[m]
      \/ row'[m] = [row[m] EXCEPT !.status = v]
      \/ row'[m] = [row[m] EXCEPT !.key = v]
      \/ row'[m] = [row[m] EXCEPT !.geoip = v]
      \/ row'[m] = [row[m] EXCEPT !.status = "online", !.deployed = TRUE]
  BY DEF TypeOK
<1> QED
  BY <1>1, <1>2 DEF Row

LEMMA ProbeColumn ==
    ASSUME TypeOK, NEW n, NEW act, NEW geo, NEW k, row' = StatusWritten(n, act, geo, k)
    PROVE  MarksSame
BY OtherColumn DEF StatusWritten

\* The observation of a round: an answer, a miss, or nothing
LEMMA SelectionObserve ==
    ASSUME TypeInv, SelectionInv, HealthObserve
    PROVE  SelectionGoal
<1> DEFINE n == health.node
<1>t. health \in Health /\ n \in Node /\ incident \in BOOLEAN /\ since \in [Node -> Nat]
  BY DEF TypeInv, TypeOK, Assigned, HealthObserve
<1>1. /\ health.pc = "observe" /\ row' = row /\ incident' = Outage
      /\ since' = [since EXCEPT ![n] = IF health.alive THEN 0
                                       ELSE IF Dead /\ @ < Threshold THEN @ + 1 ELSE @]
  BY DEF HealthObserve
<1>2. SelectedNodes' = SelectedNodes /\ (Selected <=> n \in SelectedNodes)
  BY <1>1, <1>t DEF SelectedNodes, Selected
<1>3. health'.pc \in {"idle", "pick", "decide"}
  BY <1>t, ContinueType DEF HealthObserve, Health
<1>4. Attempt = Selection!NoAttempt /\ Attempt' = Attempt
  BY <1>1, <1>3 DEF Attempt, Selection!NoAttempt, Selection!None, None
<1>5. SelectionInv'
  BY <1>1, <1>3 DEF SelectionInv
<1>6. CASE health.alive
  <2>1. since' = [since EXCEPT ![n] = 0]
    BY <1>1, <1>6
  <2>2. incident' \in {incident} \cup (IF n \in SelectedNodes THEN {FALSE} ELSE {})
    BY <1>1, <1>2, <1>6 DEF Outage
  <2>3. Selection!Answer(n)
    BY <1>2, <1>4, <2>1, <2>2 DEF Selection!Answer, SelectedNodes, Attempt
  <2> QED
    BY <1>t, <1>5, <2>3 DEF SelectionGoal, Selection!Next
<1>7. CASE Dead
  <2>1. since' = [since EXCEPT ![n] = IF @ < Threshold THEN @ + 1 ELSE @]
    BY <1>1, <1>7 DEF Dead
  <2>2. incident' = (incident \/ n \in SelectedNodes)
    BY <1>1, <1>2, <1>t, <1>7 DEF Outage, Dead
  <2>3. Selection!Miss(n)
    BY <1>2, <1>4, <2>1, <2>2 DEF Selection!Miss, Selection!Struck, SelectedNodes, Attempt
  <2> QED
    BY <1>t, <1>5, <2>3 DEF SelectionGoal, Selection!Next
<1>8. CASE ~health.alive /\ ~Dead
  <2>1. since' = since /\ incident' = incident
    BY <1>1, <1>t, <1>8 DEF Outage, Dead
  <2>2. UNCHANGED Selection!selection
    BY <1>2, <1>4, <2>1 DEF Selection!selection, SelectedNodes, Attempt
  <2> QED
    BY <1>5, <2>2 DEF SelectionGoal
<1> QED
  BY <1>6, <1>7, <1>8

\* The decision: by then every counted failure is a strike, and the selection and
\* the target are of this moment.
LEMMA SelectionDecide ==
    ASSUME SpacingInv, SelectionInv, HealthDecide
    PROVE  SelectionGoal
<1> DEFINE n == health.node
<1>t. health \in Health /\ n \in Node /\ row \in [Node -> Row]
  BY DEF SpacingInv, TypeInv, TypeOK, Assigned, HealthDecide
<1>1. health.pc = "decide" /\ row' = row /\ UNCHANGED <<since, incident>>
  BY DEF HealthDecide, db
<1>2. SelectedNodes' = SelectedNodes
  BY <1>1 DEF SelectedNodes
<1>3. Attempt = Selection!NoAttempt
  BY <1>1 DEF Attempt, Selection!NoAttempt, Selection!None, None
<1>4. CASE Selected
  <2>1. PICK t \in FailoverTarget(n) :
           health' = [health EXCEPT !.pc = "switch", !.target = t,
                                    !.tkey = row[t].key, !.tact = row[t].active]
    BY <1>4 DEF HealthDecide
  <2>2. t \in Node
    BY <1>t, <2>1, TargetIsNode
  <2>3. /\ health'.pc = "switch" /\ health'.node = n /\ health'.target = t
        /\ health'.tact = row[t].active
    BY <1>t, <2>1 DEF Health
  <2>4. (row[t].active <=> t \in SelectedNodes) /\ row[t].active \in BOOLEAN
    BY <1>t, <2>2 DEF SelectionInv, SelectedNodes, Row
  <2>5. Attempt' = [stage |-> "switch", from |-> n, to |-> t, both |-> t \in SelectedNodes]
    BY <2>3, <2>4 DEF Attempt
  <2>6. since[n] >= Threshold
    BY <1>1 DEF SpacingInv, Spaced, DecisionSpaced
  <2>7. n \in SelectedNodes
    BY <1>4, <1>t DEF Selected, SelectedNodes
  <2>8. Selection!GiveUp(n, t)
    BY <1>1, <1>2, <1>3, <2>5, <2>6, <2>7 DEF Selection!GiveUp, SelectedNodes, Attempt
  <2>9. SelectionInv'
    BY <1>1, <1>4, <2>3 DEF SelectionInv, Selected
  <2> QED
    BY <1>t, <2>2, <2>8, <2>9 DEF SelectionGoal, Selection!Next
<1>5. CASE ~Selected
  <2>1. health'.pc \in {"idle", "pick"}
    BY <1>5, <1>t, ContinueType DEF HealthDecide
  <2>2. Attempt' = Attempt
    BY <1>1, <2>1 DEF Attempt
  <2>3. UNCHANGED Selection!selection
    BY <1>1, <1>2, <2>2 DEF Selection!selection, SelectedNodes, Attempt
  <2>4. SelectionInv'
    BY <1>1, <2>1 DEF SelectionInv
  <2> QED
    BY <2>3, <2>4 DEF SelectionGoal
<1> QED
  BY <1>4, <1>5

\* The first commit of failover: the selection goes over, or the attempt ends here.
LEMMA SelectionSwitch ==
    ASSUME SpacingInv, SelectionInv, HealthSwitch
    PROVE  SelectionGoal
<1> DEFINE n == health.node
           t == health.target
           act == (t # n /\ ~health.tact) \/ row[t].active
           ok == row[n].exists /\ row[t].exists
<1>t. /\ health \in Health /\ row \in [Node -> Row] /\ n \in Node /\ t \in Node
      /\ health.pc = "switch" /\ health.tact \in BOOLEAN
  BY DEF SpacingInv, TypeInv, TypeOK, Assigned, HealthSwitch, Health
<1>1. Attempt = [stage |-> "switch", from |-> n, to |-> t, both |-> health.tact]
  BY <1>t DEF Attempt
<1>2. CASE ok
  <2>1. /\ health' = [health EXCEPT !.pc = "apply"] /\ UNCHANGED <<since, incident>>
        /\ row' = [[row EXCEPT ![n].active = IF t = n THEN @ ELSE FALSE]
                      EXCEPT ![t].status = "degraded",
                             ![t].active = (t # n /\ ~health.tact) \/ @]
    BY <1>2 DEF HealthSwitch
  <2>2. \A m \in Node : row[m] \in Row
    BY <1>t
  <2>3. ASSUME NEW m \in Node
        PROVE  /\ row'[m].exists = row[m].exists
               /\ row'[m].active = IF m = t THEN act ELSE IF m = n THEN FALSE ELSE row[m].active
    <3>1. CASE m = t /\ t # n
      <4>1. row'[m] = [row[m] EXCEPT !.status = "degraded",
                                     !.active = (t # n /\ ~health.tact) \/ @]
        BY <1>t, <2>1, <3>1
      <4> QED
        BY <2>2, <3>1, <4>1 DEF Row
    <3>2. CASE m = t /\ t = n
      <4>1. row'[m] = [[row[m] EXCEPT !.active = @] EXCEPT !.status = "degraded",
                                     !.active = (t # n /\ ~health.tact) \/ @]
        BY <1>t, <2>1, <3>2
      <4> QED
        BY <2>2, <3>2, <4>1 DEF Row
    <3>3. CASE m = n /\ t # n
      <4>1. row'[m] = [row[m] EXCEPT !.active = FALSE]
        BY <1>t, <2>1, <3>3
      <4> QED
        BY <2>2, <3>3, <4>1 DEF Row
    <3>4. CASE m # n /\ m # t
      <4>1. row'[m] = row[m]
        BY <1>t, <2>1, <3>4
      <4> QED
        BY <3>4, <4>1
    <3> QED
      BY <3>1, <3>2, <3>3, <3>4
  <2>4. SelectedNodes' = (SelectedNodes \ {n})
                         \cup (IF health.tact THEN SelectedNodes \cap {t} ELSE {t})
    BY <1>2, <1>t, <2>3 DEF SelectedNodes, SelectionInv
  <2>5. /\ health'.pc = "apply" /\ health'.node = n /\ health'.target = t
        /\ health'.tact = health.tact
    BY <1>t, <2>1 DEF Health
  <2>6. Attempt' = [Attempt EXCEPT !.stage = "apply"]
    BY <1>1, <2>5 DEF Attempt
  <2>7. Attempt.stage = "switch" /\ Attempt.from = n /\ Attempt.to = t /\ Attempt.both = health.tact
    BY <1>1
  <2>8. Selection!HandOver
    BY <2>1, <2>4, <2>6, <2>7 DEF Selection!HandOver, SelectedNodes, Attempt
  <2>9. SelectionInv'
    BY <1>2, <2>3, <2>5 DEF SelectionInv
  <2> QED
    BY <2>8, <2>9 DEF SelectionGoal, Selection!Next
<1>3. CASE ~ok
  <2>1. row' = row /\ health' = Continue(health.todo) /\ UNCHANGED <<since, incident>>
    BY <1>3 DEF HealthSwitch
  <2>2. health'.pc \in {"idle", "pick"}
    BY <1>t, <2>1, ContinueType
  <2>3. Attempt' = Selection!NoAttempt /\ SelectedNodes' = SelectedNodes
    BY <2>1, <2>2 DEF Attempt, SelectedNodes, Selection!NoAttempt, Selection!None, None
  <2>4. Selection!Abandon
    BY <2>1, <2>3 DEF Selection!Abandon, SelectedNodes, Attempt
  <2>5. SelectionInv'
    BY <2>1, <2>2 DEF SelectionInv
  <2> QED
    BY <2>4, <2>5 DEF SelectionGoal, Selection!Next
<1> QED
  BY <1>2, <1>3

LEMMA SelectionHealthStep ==
    ASSUME SpacingInv, SelectionInv, HealthStep
    PROVE  SelectionGoal
<1>t. health \in Health /\ TypeOK
  BY DEF SpacingInv, TypeInv, TypeOK
<1>1. ASSUME MarksSame, UNCHANGED <<since, incident>>,
             health.pc \notin {"switch", "apply"}, health'.pc \notin {"switch", "apply"}
      PROVE  SelectionGoal
  <2>1. SelectedNodes' = SelectedNodes /\ Attempt' = Attempt
    BY <1>1 DEF MarksSame, SelectedNodes, Attempt
  <2>2. UNCHANGED Selection!selection
    BY <1>1, <2>1 DEF Selection!selection, SelectedNodes, Attempt
  <2>3. SelectionInv'
    BY <1>1 DEF SelectionInv, MarksSame
  <2> QED
    BY <2>2, <2>3 DEF SelectionGoal
<1>2. CASE HealthStart
  BY <1>1, <1>2 DEF HealthStart, NoHealth, MarksSame, db
<1>3. ASSUME NEW n \in Node, NEW was \in BOOLEAN, HealthRead(n, was)
      PROVE  SelectionGoal
  <2>1. health.pc = "pick" /\ health'.pc \in {"probe", "observe"}
    BY <1>3, <1>t DEF HealthRead, Health
  <2> QED
    BY <1>1, <1>3, <2>1 DEF HealthRead, MarksSame, db
<1>4. CASE HealthProbe
  <2>1. health.pc = "probe" /\ health'.pc = "observe"
    BY <1>4, <1>t DEF HealthProbe, Health
  <2>2. MarksSame /\ UNCHANGED <<since, incident>>
    BY <1>4, <1>t, ProbeColumn DEF HealthProbe
  <2> QED
    BY <1>1, <2>1, <2>2
<1>5. CASE HealthApply
  <2> DEFINE t == health.target
  <2>1. /\ health.pc = "apply" /\ row' = row /\ incident' = incident
        /\ since' = [since EXCEPT ![t] = 0] /\ health' = Continue(health.todo)
    BY <1>5 DEF HealthApply
  <2>2. health'.pc \in {"idle", "pick"}
    BY <1>t, <2>1, ContinueType
  <2>3. Attempt.stage = "apply" /\ Attempt.to = t
    BY <2>1 DEF Attempt
  <2>4. Attempt' = Selection!NoAttempt /\ SelectedNodes' = SelectedNodes
    BY <2>1, <2>2 DEF Attempt, SelectedNodes, Selection!NoAttempt, Selection!None, None
  <2>5. Selection!Tried
    BY <2>1, <2>3, <2>4 DEF Selection!Tried, SelectedNodes, Attempt
  <2>6. SelectionInv'
    BY <2>1, <2>2 DEF SelectionInv
  <2> QED
    BY <2>5, <2>6 DEF SelectionGoal, Selection!Next
<1> QED
  BY <1>2, <1>3, <1>4, <1>5, SelectionObserve, SelectionDecide, SelectionSwitch
     DEF HealthStep, SpacingInv

\* Handlers: activation selects, deletion removes, the others leave the selection alone.
LEMMA SelectionFinish ==
    ASSUME TypeInv, SelectionInv, NEW r \in Req, FinishRequest(r)
    PROVE  SelectionGoal
<1> DEFINE n == req[r].node
<1>t. TypeOK /\ row \in [Node -> Row] /\ \A m \in Node : row[m] \in Row
  BY DEF TypeInv, TypeOK
<1>f. UNCHANGED <<since, incident, health>>
  BY DEF FinishRequest, FinishActivate, FinishReset, FinishGeoipOn, FinishGeoipOff,
     FinishUpdate, FinishDelete, FinishCheck, HandlerFrame
<1>1. CASE FinishActivate(r)
  <2>n. n \in Node
    BY <1>1, EndsType DEF FinishActivate, RequestKinds
  <2>1. CASE row' = row
    BY <1>f, <2>1, SelectionFrame DEF MarksSame
  <2>2. CASE row' # row
    <3>1. /\ Flushable(r)
          /\ row' = [m \in Node |-> IF m = n THEN [row[m] EXCEPT !.active = TRUE]
                                    ELSE IF m \in req[r].others
                                    THEN [row[m] EXCEPT !.active = FALSE] ELSE row[m]]
      BY <1>1, <2>2 DEF FinishActivate, Refused
    <3>2. row[n].exists
      BY <3>1 DEF Flushable
    <3>3. /\ row'[n].exists /\ row'[n].active
          /\ \A m \in Node : /\ row'[m].exists = row[m].exists
                             /\ m # n /\ row'[m].active => row[m].active
      BY <1>t, <2>n, <3>1, <3>2 DEF Row
    <3>4. n \in SelectedNodes' /\ SelectedNodes' \subseteq SelectedNodes \cup {n}
      BY <2>n, <3>3 DEF SelectedNodes
    <3>5. \A m \in Node : row'[m].active => row'[m].exists
      BY <3>2, <3>3 DEF SelectionInv
    <3> QED
      BY <1>f, <2>n, <3>4, <3>5, SelectionChosen
  <2> QED
    BY <2>1, <2>2
<1>2. CASE FinishDelete(r)
  <2>n. n \in Node
    BY <1>2, EndsType DEF FinishDelete, RequestKinds
  <2>1. row' = [row EXCEPT ![n] = NoRow]
    BY <1>2 DEF FinishDelete
  <2>2. /\ row'[n] = NoRow /\ ~NoRow.exists /\ ~NoRow.active
        /\ \A m \in Node : m # n => row'[m] = row[m]
    BY <1>t, <2>n, <2>1 DEF NoRow
  <2>3. SelectedNodes' = SelectedNodes \ {n}
    BY <2>n, <2>2 DEF SelectedNodes
  <2>4. \A m \in Node : row'[m].active => row'[m].exists
    BY <2>2 DEF SelectionInv
  <2> QED
    BY <1>f, <2>n, <2>3, <2>4, SelectionChosen
<1>3. CASE FinishCheck(r)
  BY <1>3, <1>f, <1>t, ProbeColumn, SelectionFrame DEF FinishCheck
<1>4. CASE FinishReset(r)
  <2>1. row' = row \/ row' = [row EXCEPT ![n].status = "online"]
    BY <1>4 DEF FinishReset
  <2>2. MarksSame
    BY <1>t, <2>1, OtherColumn
  <2> QED
    BY <1>f, <2>2, SelectionFrame
<1>5. CASE FinishGeoipOn(r)
  <2>1. row' = row \/ row' = [m \in Node |->
                                IF m = n THEN [row[m] EXCEPT !.geoip = TRUE]
                                ELSE IF m \in req[r].others
                                THEN [row[m] EXCEPT !.geoip = FALSE] ELSE row[m]]
    BY <1>5 DEF FinishGeoipOn, Refused
  <2>2. \A m \in Node : row'[m] \in {row[m], [row[m] EXCEPT !.geoip = TRUE],
                                     [row[m] EXCEPT !.geoip = FALSE]}
    BY <2>1
  <2>3. MarksSame
    BY <1>t, <2>2 DEF MarksSame, Row
  <2> QED
    BY <1>f, <2>3, SelectionFrame
<1>6. CASE FinishGeoipOff(r)
  <2>1. row' = row \/ row' = [row EXCEPT ![n].geoip = FALSE]
    BY <1>6 DEF FinishGeoipOff, Refused
  <2>2. MarksSame
    BY <1>t, <2>1, OtherColumn
  <2> QED
    BY <1>f, <2>2, SelectionFrame
<1>7. CASE FinishUpdate(r)
  <2>1. row' = row \/ \E k : row' = [row EXCEPT ![n].key = k]
    BY <1>7 DEF FinishUpdate, Refused
  <2>2. MarksSame
    BY <1>t, <2>1, OtherColumn
  <2> QED
    BY <1>f, <2>2, SelectionFrame
<1> QED
  BY <1>1, <1>2, <1>3, <1>4, <1>5, <1>6, <1>7 DEF FinishRequest

\* Tasks: the save of a first deploy selects, the clean-up of a failed one removes.
LEMMA SelectionJob ==
    ASSUME TypeInv, SelectionInv, NEW t \in Task, JobStep(t)
    PROVE  SelectionGoal
<1> DEFINE n == task[t].node
<1>t. /\ TypeOK /\ row \in [Node -> Row] /\ \A m \in Node : row[m] \in Row
      /\ task[t].pc # "idle" => n \in Node
  BY DEF TypeInv, TypeOK, Assigned
<1>f. UNCHANGED <<since, incident, health>>
  BY DEF JobStep, DeployStart, DeployKey, RedeployStart, RemoteStop, RemoteInstall, DeploySave,
     RedeploySave, JobApply, JobRoutes, JobFails, JobFrame
<1>1. CASE DeployStart(t) \/ DeployKey(t) \/ RedeploySave(t) \/ RedeployStart(t)
           \/ RemoteStop(t) \/ RemoteInstall(t) \/ JobApply(t) \/ JobRoutes(t)
  <2>1. \/ row' = row
        \/ row' = [row EXCEPT ![n].status = "deploying"]
        \/ \E k : row' = [row EXCEPT ![n].key = k]
        \/ row' = [row EXCEPT ![n].status = "online", ![n].deployed = TRUE]
    BY <1>1 DEF DeployStart, DeployKey, RedeploySave, RedeployStart, RemoteStop, RemoteInstall,
       JobApply, JobRoutes
  <2>2. MarksSame
    BY <1>t, <2>1, OtherColumn
  <2> QED
    BY <1>f, <2>2, SelectionFrame
<1>2. CASE DeploySave(t)
  <2> DEFINE first == \A m \in Node \ {n} : row[m].status # "online"
  <2>1. n \in Node /\ row[n].exists
    BY <1>2, <1>t DEF DeploySave
  <2>2. row' = [row EXCEPT ![n].status = "online", ![n].deployed = TRUE, ![n].active = first \/ @]
    BY <1>2 DEF DeploySave
  <2> HIDE DEF first
  <2>3. /\ \A m \in Node : m # n => row'[m] = row[m]
        /\ row'[n] = [row[n] EXCEPT !.status = "online", !.deployed = TRUE, !.active = first \/ @]
    BY <1>t, <2>1, <2>2
  <2>4. row'[n].exists /\ row'[n].active = (first \/ row[n].active)
    BY <1>t, <2>1, <2>3 DEF Row
  <2>5. \A m \in Node : row'[m].active => row'[m].exists
    BY <2>3, <2>4 DEF SelectionInv
  <2>6. CASE row'[n].active
    <3>1. n \in SelectedNodes' /\ SelectedNodes' \subseteq SelectedNodes \cup {n}
      BY <2>1, <2>3, <2>4, <2>6 DEF SelectedNodes
    <3> QED
      BY <1>f, <2>1, <2>5, <3>1, SelectionChosen
  <2>7. CASE ~row'[n].active
    <3>1. SelectedNodes' = SelectedNodes \ {n}
      BY <2>1, <2>3, <2>4, <2>7 DEF SelectedNodes
    <3> QED
      BY <1>f, <2>1, <2>5, <3>1, SelectionChosen
  <2> QED
    BY <2>6, <2>7
<1>3. CASE JobFails(t)
  <2>1. n \in Node /\ row' = CleanedUp(t)
    BY <1>3, <1>t DEF JobFails
  <2>2. CASE row' = [row EXCEPT ![n] = NoRow]
    <3>1. /\ row'[n] = NoRow /\ ~NoRow.exists /\ ~NoRow.active
          /\ \A m \in Node : m # n => row'[m] = row[m]
      BY <1>t, <2>1, <2>2 DEF NoRow
    <3>2. SelectedNodes' = SelectedNodes \ {n}
      BY <2>1, <3>1 DEF SelectedNodes
    <3>3. \A m \in Node : row'[m].active => row'[m].exists
      BY <3>1 DEF SelectionInv
    <3> QED
      BY <1>f, <2>1, <3>2, <3>3, SelectionChosen
  <2>3. CASE row' = row \/ row' = [row EXCEPT ![n].status = "error"]
    <3>1. MarksSame
      BY <1>t, <2>3, OtherColumn
    <3> QED
      BY <1>f, <3>1, SelectionFrame
  <2> QED
    BY <2>1, <2>2, <2>3 DEF CleanedUp
<1> QED
  BY <1>1, <1>2, <1>3 DEF JobStep

LEMMA SelectionOthers ==
    ASSUME TypeInv, SelectionInv, Operator \/ Outside \/ \E i \in Iface : AwgCheck(i)
    PROVE  SelectionGoal
<1>t. TypeOK /\ row \in [Node -> Row]
  BY DEF TypeInv, TypeOK
<1>1. ASSUME NEW n \in Node, NEW mode \in Modes, CreateNode(n, mode)
      PROVE  SelectionGoal
  <2>1. \E rw : row' = [row EXCEPT ![n] = rw] /\ ~rw.active /\ ~row[n].exists
    <3> DEFINE rw == [NoRow EXCEPT !.exists = TRUE, !.manual = (mode = "manual"),
                        !.status = IF mode = "manual" THEN "online" ELSE "pending",
                        !.key = IF mode = "manual" THEN -(lastKey + 1) ELSE 0]
    <3>1. ~rw.active
      BY DEF NoRow
    <3>2. ~row[n].exists
      BY <1>1 DEF CreateNode, Node
    <3> QED
      BY <1>1, <3>1, <3>2 DEF CreateNode
  <2>2. /\ ~row'[n].active /\ ~row[n].exists
        /\ \A m \in Node : m # n => row'[m] = row[m]
    BY <1>t, <2>1
  <2>3. SelectedNodes' = SelectedNodes \ {n}
    BY <2>2 DEF SelectedNodes
  <2>4. \A m \in Node : row'[m].active => row'[m].exists
    BY <2>2 DEF SelectionInv
  <2>5. UNCHANGED <<since, incident, health>>
    BY <1>1 DEF CreateNode, procs
  <2> QED
    BY <2>3, <2>4, <2>5, SelectionChosen
<1>2. CASE Restart
  <2>1. row' = row /\ UNCHANGED <<since, incident>> /\ health'.pc = "idle"
    BY <1>2 DEF Restart, NoHealth, db, world
  <2>2. Attempt' = Selection!NoAttempt /\ SelectedNodes' = SelectedNodes
    BY <2>1 DEF Attempt, SelectedNodes, Selection!NoAttempt, Selection!None, None
  <2>3. Selection!Abandon
    BY <2>1, <2>2 DEF Selection!Abandon, SelectedNodes, Attempt
  <2>4. SelectionInv'
    BY <2>1 DEF SelectionInv
  <2> QED
    BY <2>3, <2>4 DEF SelectionGoal, Selection!Next
<1>3. CASE row' = row /\ UNCHANGED <<since, incident, health>>
  BY <1>3, SelectionFrame DEF MarksSame
<1>4. CASE \/ \E r \in Req, n \in Node : BeginRequest(r, n)
           \/ ToggleFailover
           \/ \E t \in Task, n \in Node, kind \in {"deploy", "redeploy"}, drop \in BOOLEAN :
                 QueueJob(t, n, kind, drop)
  <2>1. row' = row /\ UNCHANGED <<since, incident, health>>
    BY ZenonT(40), <1>4 DEF BeginRequest, BeginActivate, BeginReset, BeginOther, BeginGeoipOn,
       BeginGeoipOff, Begin, ToggleFailover, QueueJob, procs, db
  <2> QED
    BY <1>3, <2>1
<1>5. CASE \/ \E n \in Node : GraceEnds(n) \/ LinkChange(n)
           \/ \E i \in Iface : AwgCheck(i)
  <2>1. row' = row /\ UNCHANGED <<since, incident, health>>
    BY <1>5 DEF GraceEnds, LinkChange, AwgCheck, procs, db
  <2> QED
    BY <1>3, <2>1
<1> QED
  BY <1>1, <1>2, <1>4, <1>5 DEF Operator, Outside

LEMMA SelectionStep ==
    SpacingInv /\ SelectionInv /\ [Next]_vars => SelectionGoal
<1> SUFFICES ASSUME SpacingInv, SelectionInv, [Next]_vars
             PROVE  SelectionGoal
  OBVIOUS
<1>1. TypeInv
  BY DEF SpacingInv
<1>2. CASE UNCHANGED vars
  BY <1>2, SelectionFrame DEF vars, db, procs, MarksSame
<1>3. CASE Next
  BY <1>1, <1>3, SelectionHealthStep, SelectionFinish, SelectionJob, SelectionOthers DEF Next
<1> QED
  BY <1>2, <1>3

LEMMA SelectionStart == Init => SelectionInv /\ Selection!Init
<1> SUFFICES ASSUME Init
             PROVE  SelectionInv /\ Selection!Init
  OBVIOUS
<1>1. \A n \in Node : ~row[n].active
  BY DEF Init, NoRow
<1>2. health.pc = "idle"
  BY DEF Init, NoHealth
<1>3. SelectedNodes = {} /\ Attempt = Selection!NoAttempt
  BY <1>1, <1>2 DEF SelectedNodes, Attempt, Selection!NoAttempt, Selection!None, None
<1> QED
  BY <1>1, <1>2, <1>3 DEF SelectionInv, Selection!Init, SelectedNodes, Attempt, Init

\* A node loses its place to the target of an attempt or to the operator only, every
\* attempt follows the dead checks of a node selected at the decision, and only nodes
\* that are selected open and close outages: for any number of nodes, handlers,
\* tasks, requests and faults.
THEOREM SelectionImplemented == Spec => KeepsSelection
<1>1. SpacingInv /\ SelectionInv /\ [Next]_vars
        => SpacingInv' /\ SelectionInv' /\ [Selection!Next]_(Selection!selection)
  BY SpacingStep, SelectionStep DEF SelectionGoal
<1> QED
  BY <1>1, SpacingStart, SelectionStart, PTL DEF Spec, KeepsSelection, Selection!Spec

=============================================================================
