----------------------------- MODULE EntryOrder -----------------------------
(***************************************************************************)
(* What the database promises about entry nodes, apart from sessions,      *)
(* transactions and stale columns: the nodes stand in one line, and each   *)
(* commit appends a node to the line, takes one out, brings one to the     *)
(* front or exchanges two neighbours, whoever else is at work.  The active *)
(* node is always one of the line.                                         *)
(***************************************************************************)
EXTENDS Integers

CONSTANT Node   \* ids of nodes, none of them 0

VARIABLES
    nodes,     \* the nodes of the line
    ahead,     \* pairs of nodes, the first somewhere ahead of the second
    selected   \* the active node, 0 for none

order == <<nodes, ahead, selected>>
None  == 0

Rest(n) == nodes \ {n}
Of(S)   == ahead \cap (S \X S)

Init == nodes = {} /\ ahead = {} /\ selected = None

\* import_node: append_node_to_order
Append(n) ==
    /\ n \notin nodes
    /\ nodes' = nodes \cup {n}
    /\ ahead' = ahead \cup (nodes \X {n})
    /\ UNCHANGED selected

\* delete_node: remove_node_from_order.  A handler that read n as the active
\* node clears the choice, even if it has changed since or n is gone.
Remove(n) ==
    /\ nodes' = Rest(n)
    /\ ahead' = Of(Rest(n))
    /\ selected' \in {None, selected} \ {n}

\* assign_active_node.  A session that read n as the active node does not write
\* that choice again, although it may have changed since.
Activate(n) ==
    /\ n \in nodes
    /\ ahead' = Of(Rest(n)) \cup ({n} \X Rest(n))
    /\ selected' \in {n, selected}
    /\ UNCHANGED nodes

\* move_node_by_direction: n overtakes its neighbour m
Overtake(n, m) ==
    /\ <<m, n>> \in ahead
    /\ \A x \in nodes : ~(<<m, x>> \in ahead /\ <<x, n>> \in ahead)
    /\ ahead' = (ahead \ {<<m, n>>}) \cup {<<n, m>>}
    /\ UNCHANGED <<nodes, selected>>

Next ==
    \/ \E n \in Node : Append(n) \/ Remove(n) \/ Activate(n)
    \/ \E n, m \in Node : Overtake(n, m)

Spec == Init /\ [][Next]_order

=============================================================================
