-------------------------- MODULE EntryOrderProofs --------------------------
(* Theorems about EntryOrder and their proofs, for any set of nodes.       *)
EXTENDS EntryOrder, TLAPS

\* The nodes stand in one line, and the active node is one of them.
InLine ==
    /\ ahead \subseteq nodes \X nodes
    /\ \A m \in nodes : <<m, m>> \notin ahead
    /\ \A m, n \in nodes : m = n \/ <<m, n>> \in ahead \/ <<n, m>> \in ahead
    /\ \A m, n, x \in nodes : <<m, n>> \in ahead /\ <<n, x>> \in ahead => <<m, x>> \in ahead

ActiveInLine == selected \in nodes \cup {None}

\* Two neighbours that change places leave the line in order.
LEMMA OvertakeStep ==
    ASSUME InLine, NEW n, NEW m, Overtake(n, m)
    PROVE  InLine'
<1>1. /\ <<m, n>> \in ahead /\ m \in nodes /\ n \in nodes /\ m # n
      /\ ahead' = (ahead \ {<<m, n>>}) \cup {<<n, m>>}
      /\ nodes' = nodes
  BY DEF Overtake, InLine
<1>2. \A x, y \in nodes :
        <<x, y>> \in ahead' <=> (<<x, y>> \in ahead /\ ~(x = m /\ y = n)) \/ (x = n /\ y = m)
  BY <1>1
<1>3. \A x \in nodes : ~(<<m, x>> \in ahead /\ <<x, n>> \in ahead)
  BY DEF Overtake
<1>4. \A x, y, z \in nodes' :
        <<x, y>> \in ahead' /\ <<y, z>> \in ahead' => <<x, z>> \in ahead'
  <2>1. \A x, y, z \in nodes :
          <<x, y>> \in ahead' /\ <<y, z>> \in ahead' => <<x, z>> \in ahead'
    BY <1>1, <1>2, <1>3 DEF InLine
  <2> QED
    BY <1>1, <2>1
<1>5. ahead' \subseteq nodes' \X nodes'
  BY <1>1 DEF InLine
<1>6. /\ \A x \in nodes' : <<x, x>> \notin ahead'
      /\ \A x, y \in nodes' : x = y \/ <<x, y>> \in ahead' \/ <<y, x>> \in ahead'
  BY <1>1, <1>2 DEF InLine
<1> QED
  BY <1>4, <1>5, <1>6 DEF InLine

LEMMA LineStep ==
    ASSUME InLine, ActiveInLine, [Next]_order
    PROVE  InLine' /\ ActiveInLine'
<1>1. ASSUME NEW n \in Node, Append(n)
      PROVE  InLine' /\ ActiveInLine'
  <2>1. \A x, y : <<x, y>> \in ahead' <=> <<x, y>> \in ahead \/ (x \in nodes /\ y = n)
    BY <1>1 DEF Append
  <2>2. n \notin nodes /\ nodes' = nodes \cup {n} /\ selected' = selected
    BY <1>1 DEF Append
  <2>3. ahead' \subseteq nodes' \X nodes'
    BY <1>1 DEF Append, InLine
  <2>4. \A x, y : <<x, y>> \in ahead => x \in nodes /\ y \in nodes
    BY DEF InLine
  <2>5. /\ \A x \in nodes' : <<x, x>> \notin ahead'
        /\ \A x, y \in nodes' : x = y \/ <<x, y>> \in ahead' \/ <<y, x>> \in ahead'
    BY <2>1, <2>2, <2>4 DEF InLine
  <2>6. \A x, y, z \in nodes' :
          <<x, y>> \in ahead' /\ <<y, z>> \in ahead' => <<x, z>> \in ahead'
    BY <2>1, <2>2, <2>4 DEF InLine
  <2> QED
    BY <2>2, <2>3, <2>5, <2>6 DEF InLine, ActiveInLine
<1>2. ASSUME NEW n \in Node, Remove(n)
      PROVE  InLine' /\ ActiveInLine'
  BY <1>2 DEF Remove, Rest, Of, InLine, ActiveInLine
<1>3. ASSUME NEW n \in Node, Activate(n)
      PROVE  InLine' /\ ActiveInLine'
  <2>1. \A x, y : <<x, y>> \in ahead' <=>
            (<<x, y>> \in ahead /\ x # n /\ y # n) \/ (x = n /\ y \in nodes /\ y # n)
    BY <1>3 DEF Activate, Rest, Of, InLine
  <2>2. n \in nodes /\ nodes' = nodes /\ selected' \in {n, selected}
    BY <1>3 DEF Activate
  <2>3. ahead' \subseteq nodes' \X nodes'
    BY <1>3 DEF Activate, Rest, Of
  <2>4. /\ \A x \in nodes' : <<x, x>> \notin ahead'
        /\ \A x, y \in nodes' : x = y \/ <<x, y>> \in ahead' \/ <<y, x>> \in ahead'
    BY <2>1, <2>2 DEF InLine
  <2>5. \A x, y, z \in nodes' :
          <<x, y>> \in ahead' /\ <<y, z>> \in ahead' => <<x, z>> \in ahead'
    BY <2>1, <2>2 DEF InLine
  <2> QED
    BY <2>2, <2>3, <2>4, <2>5 DEF InLine, ActiveInLine
<1>4. ASSUME NEW n \in Node, NEW m \in Node, Overtake(n, m)
      PROVE  InLine' /\ ActiveInLine'
  BY <1>4, OvertakeStep DEF Overtake, ActiveInLine
<1>5. CASE UNCHANGED order
  BY <1>5 DEF order, InLine, ActiveInLine
<1> QED
  BY <1>1, <1>2, <1>3, <1>4, <1>5 DEF Next

\* However commits follow each other, the nodes stand in one line: of two nodes
\* one is ahead of the other, and never both.
THEOREM LineCorrect == Spec => []InLine
<1>1. Init => InLine /\ ActiveInLine
  BY DEF Init, InLine, ActiveInLine
<1>2. InLine /\ ActiveInLine /\ [Next]_order => InLine' /\ ActiveInLine'
  BY LineStep
<1> QED
  BY <1>1, <1>2, PTL DEF Spec

\* The active node is a node of the line, or there is none.
THEOREM ActiveCorrect == Spec => []ActiveInLine
<1>1. Init => InLine /\ ActiveInLine
  BY DEF Init, InLine, ActiveInLine
<1>2. InLine /\ ActiveInLine /\ [Next]_order => InLine' /\ ActiveInLine'
  BY LineStep
<1> QED
  BY <1>1, <1>2, PTL DEF Spec
=============================================================================
