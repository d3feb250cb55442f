---------------------------- MODULE NodeSelection ----------------------------
(***************************************************************************)
(* What awg-jump promises about the nodes that carry traffic, apart from   *)
(* rows, sessions, probes and the kernel.  The operator selects and removes *)
(* nodes at any time.  Beside that a node loses its place in one way only: *)
(* it was found dead often enough since the last attempt on it, and another *)
(* one takes its place in the same step.  The statistics show an outage    *)
(* from a dead check of a selected node to an answer of a selected one.    *)
(***************************************************************************)
EXTENDS Integers

CONSTANTS
    Node,       \* ids of nodes, none of them 0
    Threshold   \* dead checks that end in an attempt

VARIABLES
    selected,   \* the selected nodes
    strikes,    \* for each node, dead checks since it answered or was tried
    outage,     \* the statistics show an open outage
    attempt     \* the attempt under way

selection == <<selected, strikes, outage, attempt>>

None      == 0
NoAttempt == [stage |-> "none", from |-> None, to |-> None, both |-> FALSE]

\* One dead check more, up to the threshold
Struck(n) == [strikes EXCEPT ![n] = IF @ < Threshold THEN @ + 1 ELSE @]

Init ==
    /\ selected = {} /\ strikes = [n \in Node |-> 0]
    /\ outage = FALSE /\ attempt = NoAttempt

\* A node answers.  Only one that is selected can close the outage.
Answer(n) ==
    /\ attempt = NoAttempt
    /\ strikes' = [strikes EXCEPT ![n] = 0]
    /\ outage' \in {outage} \cup (IF n \in selected THEN {FALSE} ELSE {})
    /\ UNCHANGED <<selected, attempt>>

\* A node that was selected when the round began is dead; if it still is
\* selected, the outage is open from now on.
Miss(n) ==
    /\ attempt = NoAttempt
    /\ strikes' = Struck(n)
    /\ outage' = (outage \/ n \in selected)
    /\ UNCHANGED <<selected, attempt>>

\* A selected node is dead often enough to try t instead of it, or n itself again.
GiveUp(n, t) ==
    /\ attempt = NoAttempt /\ n \in selected /\ strikes[n] >= Threshold
    /\ attempt' = [stage |-> "switch", from |-> n, to |-> t, both |-> t \in selected]
    /\ UNCHANGED <<selected, strikes, outage>>

\* The selection goes over to the target.  One that was selected too at the
\* decision and is not any more stays so.
HandOver ==
    /\ attempt.stage = "switch"
    /\ selected' = (selected \ {attempt.from})
                   \cup (IF attempt.both THEN selected \cap {attempt.to} ELSE {attempt.to})
    /\ attempt' = [attempt EXCEPT !.stage = "apply"]
    /\ UNCHANGED <<strikes, outage>>

\* The target has been tried, with or without success: it starts afresh.
Tried ==
    /\ attempt.stage = "apply"
    /\ strikes' = [strikes EXCEPT ![attempt.to] = 0]
    /\ attempt' = NoAttempt
    /\ UNCHANGED <<selected, outage>>

\* A crash, or a node of the attempt is gone
Abandon == attempt' = NoAttempt /\ UNCHANGED <<selected, strikes, outage>>

\* A handler or the first deploy selects n, in place of others or beside them.
Select(n) ==
    /\ n \in selected' /\ selected' \subseteq selected \cup {n}
    /\ UNCHANGED <<strikes, outage, attempt>>

\* The row of n is deleted.
Remove(n) ==
    /\ selected' = selected \ {n}
    /\ UNCHANGED <<strikes, outage, attempt>>

Next ==
    \/ \E n \in Node : Answer(n) \/ Miss(n) \/ Select(n) \/ Remove(n)
    \/ \E n, t \in Node : GiveUp(n, t)
    \/ HandOver \/ Tried \/ Abandon

Spec == Init /\ [][Next]_selection

=============================================================================
