---------------------- MODULE GatewayRoutingOutlines ----------------------
(***************************************************************************)
(* Proofs about GatewayRouting.  What a handler has left to do is a        *)
(* program; the argument is a proof outline of it, in the manner of Hoare: *)
(* every command has facts about the kernel that it needs, facts that it   *)
(* brings about and facts that it destroys.  A fact is known only while    *)
(* the handler has the event loop, for at an await another one may change  *)
(* the kernel.                                                             *)
(***************************************************************************)
EXTENDS GatewayRouting, SequenceTheorems, TLAPS

(* What a handler may know: that the chains of a stack are gone, that the   *)
(* ip rules are there or cleared, that the marks are those of its rows, how *)
(* far the forward chain is, that a set has its contents, and that no plan  *)
(* of other rows than its own is complete.                                  *)
Fact == {"ipt_gone", "nft_gone", "rules", "closed", "marks", "empty", "half", "whole",
         "pass", "geoip", "manual", "base", "fresh"}

Static == {"geoip", "manual", "base"}

Op == {<<"await", "rows">>, <<"await", "dns">>, <<"await", "probe">>, <<"dnsmasq", "raise">>,
       <<"dnsmasq", "log">>, <<"tunnel", "start">>, <<"tunnel", "stop">>, <<"if", "safe">>,
       <<"if", "running">>, <<"need", "safe">>, <<"read", "policy">>, <<"ip", "rules">>,
       <<"ip", "routes">>, <<"ip", "clear">>, <<"down", "ipt">>, <<"down", "nft">>,
       <<"chains", "all">>, <<"chains", "pass">>, <<"mark", "ipt">>, <<"mark", "nft">>,
       <<"forward", "plan">>, <<"forward", "kill">>, <<"forward", "pass">>, <<"out", "pass">>,
       <<"end", "plan">>, <<"end", "pass">>, <<"end", "base">>}
      \cup {<<"flush", s>> : s \in SetName} \cup {<<"fill", s>> : s \in Static}

\* The stack that the rows choose, and the other one
Gone(pol)  == IF pol.nft THEN "ipt_gone" ELSE "nft_gone"
Built(pol) == IF pol.nft THEN "nft_gone" ELSE "ipt_gone"

Needs(op, pol) ==
    CASE op = <<"mark", "nft">>     -> {"ipt_gone"}
      [] op = <<"mark", "ipt">>     -> {"nft_gone"}
      [] op = <<"forward", "plan">> -> {"empty"}
      [] op = <<"forward", "pass">> -> {"empty"}
      [] op = <<"forward", "kill">> -> {"half"}
      [] op[1] \in {"flush", "fill"} -> {"fresh"}
      [] op = <<"end", "plan">>     -> {"rules", "marks", "whole", Gone(pol)} \cup Static
      [] op = <<"end", "pass">>     -> {"closed", "pass"}
      [] OTHER -> {}

Filter == {"half", "whole", "pass"}

Loses(op, pol) ==
    CASE op[1] \in {"await", "read"} -> Fact
      [] op = <<"ip", "rules">>  -> {"closed"}
      [] op = <<"ip", "clear">>  -> {"rules"}
      [] op = <<"down", "ipt">>  -> Filter \cup (IF pol.nft THEN {} ELSE {"marks"})
      [] op = <<"down", "nft">>  -> Filter \cup (IF pol.nft THEN {"marks"} \cup Static ELSE {})
      [] op[1] = "chains"        -> Filter \cup (IF pol.nft THEN {} ELSE {"marks"})
      [] op = <<"mark", "ipt">>  -> {"ipt_gone"}
      [] op = <<"mark", "nft">>  -> {"nft_gone"}
      [] op[1] = "forward"       -> Filter \cup {"empty"}
      [] op[1] = "out"           -> {"marks", Built(pol)}
      [] op[1] = "flush"         -> {op[2]}
      [] op[1] = "end"           -> {"fresh"}
      [] OTHER -> {}

Gains(op, pol) ==
    CASE op = <<"ip", "rules">>  -> {"rules", "fresh"}
      [] op = <<"ip", "clear">>  -> {"closed", "fresh"}
      [] op = <<"down", "ipt">>  -> {"ipt_gone", "empty", "fresh"}
      [] op = <<"down", "nft">>  -> {"nft_gone", "empty", "fresh"}
      [] op[1] = "chains"        -> {"empty", "fresh"}
      [] op = <<"mark", Stack(pol)>> -> {"marks", "fresh"}
      [] op = <<"forward", "plan">>  -> {"half", "fresh"}
      [] op = <<"forward", "kill">>  -> {"whole", "fresh"}
      [] op = <<"forward", "pass">>  -> {"pass", "fresh"}
      [] op[1] = "fill"          -> {op[2]} \cap Static
      [] OTHER -> {}

After(known, op, pol) == (known \ Loses(op, pol)) \cup Gains(op, pol)

\* An outline: the facts that are known before each command and at the end.  Only nft
\* has sets flushed that are filled next.
Outlined(pre, q, post, pol) ==
    /\ q \in Seq(Op)
    /\ \E H \in [1..(Len(q) + 1) -> SUBSET Fact] :
          /\ H[1] \subseteq pre /\ post \subseteq H[Len(q) + 1]
          /\ \A i \in 1..Len(q) :
                /\ Needs(q[i], pol) \subseteq H[i] /\ H[i + 1] \subseteq After(H[i], q[i], pol)
                /\ q[i][1] = "flush" /\ q[i][2] # "fqdn" =>
                      pol.nft /\ i < Len(q) /\ q[i + 1] = <<"fill", q[i][2]>>

RowOf(pol, sav) == [pol EXCEPT !.forced = sav.forced]

\* Rows that differ at most in the node
AlikeRows(row, sav) == [row EXCEPT !.node = sav.node] = sav

Marked(k, row) ==
    IF row.nft THEN k.chain["nftpre"] = MarkRulesNft(row) /\ k.chain["nftout"] = OutputRulesNft(row)
    ELSE k.chain["pre"] = MarkRules(row) /\ k.chain["out"] = OutputRules(row)

Holds(f, k, pol, sav, ended) ==
    CASE f = "ipt_gone" -> k.chain["pre"] = <<>> /\ k.chain["out"] = <<>>
      [] f = "nft_gone" -> k.chain["nftpre"] = <<>> /\ k.chain["nftout"] = <<>>
      [] f = "rules"    -> k.rules
      [] f = "closed"   -> ~k.rules
      [] f = "marks"    -> Marked(k, RowOf(pol, sav))
      [] f = "empty"    -> k.chain["forward"] = <<>>
      [] f = "half"     -> k.chain["forward"] = ForwardRules
      [] f = "whole"    -> k.chain["forward"] = ForwardRules \o KillRules(pol)
      [] f = "pass"     -> k.chain["forward"] = PassForward
      [] f \in Static   -> k.set[Stack(pol)][f] = Content(f, pol)
      [] f = "fresh"    -> ended = "plan" => AlikeRows(RowOf(pol, sav), sav)

Known(w) == {f \in Fact : turn = w /\ Holds(f, kernel, work[w].pol, saved, done)}

\* Every handler has an outline from what it knows.
Outlines == \A w \in Worker : Outlined(Known(w), work[w].todo, {}, work[w].pol)

\* What a complete plan, and a plan of rows that have changed since, leave behind
Complete(k, row) ==
    /\ k.rules /\ Marked(k, row)
    /\ k.chain["forward"] = ForwardRules \o KillRules(row)
    /\ IF row.nft THEN k.chain["pre"] = <<>> /\ k.chain["out"] = <<>>
       ELSE k.chain["nftpre"] = <<>> /\ k.chain["nftout"] = <<>>

Planned ==
    done = "plan" =>
        /\ Complete(kernel, PlanRows)
        /\ \A s \in Static :
              \/ kernel.set[Stack(PlanRows)][s] = Content(s, PlanRows)
              \/ turn \in Worker /\ work[turn].todo # <<>> /\ Head(work[turn].todo) = <<"fill", s>>

Passed == done = "pass" => ~kernel.rules /\ kernel.chain["forward"] = PassForward

Flush == [by: Worker \cup {"nobody"}, node: Node]

\* The shape of a kernel, as EXCEPT needs it
KernelShape(k) ==
    /\ k = [rules |-> k.rules, vpn |-> k.vpn, chain |-> k.chain, set |-> k.set]
    /\ k.rules \in BOOLEAN /\ k.vpn \in BOOLEAN
    /\ k.chain = [c \in Chain |-> k.chain[c]]
    /\ k.set \in [{"ipt", "nft"} -> [SetName -> SUBSET To]]

Shaped == KernelShape(kernel) /\ work \in [Worker -> [todo: Seq(Op), pol: Policy]]

RoutingInv ==
    /\ Policies # {} /\ TypeOK /\ Shaped /\ Outlines
    /\ Planned /\ Passed /\ OneStack

---------------------------------------------------------------------------
(* Outlines of single commands and of sequences                             *)

LEMMA AfterFacts ==
    ASSUME NEW known \in SUBSET Fact, NEW op \in Op, NEW pol
    PROVE  After(known, op, pol) \in SUBSET Fact
<1>1. Gains(op, pol) \subseteq Fact
  BY DEF Gains, Fact, Static
<1> QED BY <1>1 DEF After

LEMMA Nothing ==
    ASSUME NEW pre, NEW pol
    PROVE  Outlined(pre, <<>>, {}, pol)
<1> DEFINE H == [i \in 1..1 |-> {}]
<1>1. Len(<<>>) = 0 /\ <<>> \in Seq(Op)
  OBVIOUS
<1>2. H \in [1..(Len(<<>>) + 1) -> SUBSET Fact] /\ H[1] = {} /\ H[Len(<<>>) + 1] = {}
  BY <1>1
<1>3. 1..Len(<<>>) = {}
  BY <1>1
<1> HIDE DEF H
<1> QED BY <1>1, <1>2, <1>3 DEF Outlined

LEMMA OneStep ==
    ASSUME NEW pre \in SUBSET Fact, NEW op \in Op, NEW pol, Needs(op, pol) \subseteq pre,
           op[1] = "flush" => op[2] = "fqdn", NEW post, post \subseteq After(pre, op, pol)
    PROVE  Outlined(pre, <<op>>, post, pol)
<1> DEFINE H == [i \in 1..2 |-> IF i = 1 THEN pre ELSE After(pre, op, pol)]
<1>1. H \in [1..(Len(<<op>>) + 1) -> SUBSET Fact] /\ <<op>> \in Seq(Op)
  BY AfterFacts
<1>2. H[1] = pre /\ H[Len(<<op>>) + 1] = After(pre, op, pol)
  OBVIOUS
<1>3. \A i \in 1..Len(<<op>>) : i = 1 /\ <<op>>[i] = op /\ H[i + 1] = After(pre, op, pol)
  OBVIOUS
<1> HIDE DEF H
<1> QED BY <1>1, <1>2, <1>3 DEF Outlined

\* A flush and the fill that follows it
LEMMA Refill ==
    ASSUME NEW pre \in SUBSET Fact, NEW s \in Static, NEW pol, pol.nft, "fresh" \in pre
    PROVE  Outlined(pre, << <<"flush", s>>, <<"fill", s>> >>, pre \cup {s}, pol)
<1> DEFINE a == <<"flush", s>>
           b == <<"fill", s>>
           q == << a, b >>
           H == [i \in 1..3 |-> IF i = 1 THEN pre ELSE IF i = 2 THEN pre \ {s} ELSE pre \cup {s}]
<1>1. a \in Op /\ b \in Op /\ s # "fresh"
  BY DEF Op, Static, SetName
<1>2. /\ Needs(a, pol) = {"fresh"} /\ Needs(b, pol) = {"fresh"}
      /\ After(pre, a, pol) = pre \ {s} /\ After(pre \ {s}, b, pol) = pre \cup {s}
  BY DEF Needs, Loses, Gains, After
<1>3. H \in [1..(Len(q) + 1) -> SUBSET Fact] /\ q \in Seq(Op) /\ Len(q) = 2
  <2>1. Len(q) = 2 /\ q \in Seq(Op)
    BY <1>1
  <2>2. pre \ {s} \in SUBSET Fact /\ pre \cup {s} \in SUBSET Fact
    BY DEF Fact, Static
  <2>3. H \in [1..3 -> SUBSET Fact]
    BY <2>2
  <2> HIDE DEF H, q
  <2> QED BY <2>1, <2>3
<1>4. H[1] = pre /\ H[2] = pre \ {s} /\ H[3] = pre \cup {s}
  OBVIOUS
<1>5. \A i \in 1..Len(q) : \/ i = 1 /\ q[i] = a /\ q[i + 1] = b
                           \/ i = 2 /\ q[i] = b
  OBVIOUS
<1>6. a[1] = "flush" /\ a[2] = s /\ b[1] # "flush" /\ b = <<"fill", a[2]>>
  OBVIOUS
<1>7. ASSUME NEW i \in 1..Len(q)
      PROVE  /\ Needs(q[i], pol) \subseteq H[i] /\ H[i + 1] \subseteq After(H[i], q[i], pol)
             /\ q[i][1] = "flush" /\ q[i][2] # "fqdn" =>
                   pol.nft /\ i < Len(q) /\ q[i + 1] = <<"fill", q[i][2]>>
  <2> HIDE DEF H, a, b, q
  <2>1. CASE i = 1 /\ q[i] = a /\ q[i + 1] = b
    <3>1. H[i] = pre /\ H[i + 1] = pre \ {s} /\ i < Len(q)
      BY <2>1, <1>3, <1>4
    <3> QED BY <2>1, <3>1, <1>2, <1>6
  <2>2. CASE i = 2 /\ q[i] = b
    <3>1. H[i] = pre \ {s} /\ H[i + 1] = pre \cup {s}
      BY <2>2, <1>4
    <3> QED BY <2>2, <3>1, <1>1, <1>2, <1>6
  <2> QED BY <2>1, <2>2, <1>5
<1> HIDE DEF H, a, b, q
<1>8. Outlined(pre, q, pre \cup {s}, pol)
  BY <1>3, <1>4, <1>7 DEF Outlined
<1> QED BY <1>8 DEF a, b, q

\* Two sequences in a row
LEMMA Chained ==
    ASSUME NEW p, NEW q, NEW pre, NEW mid, NEW post, NEW pol,
           Outlined(pre, p, mid, pol), Outlined(mid, q, post, pol)
    PROVE  Outlined(pre, p \o q, post, pol)
<1>1. PICK G \in [1..(Len(p) + 1) -> SUBSET Fact] :
          /\ G[1] \subseteq pre /\ mid \subseteq G[Len(p) + 1]
          /\ \A i \in 1..Len(p) :
                /\ Needs(p[i], pol) \subseteq G[i] /\ G[i + 1] \subseteq After(G[i], p[i], pol)
                /\ p[i][1] = "flush" /\ p[i][2] # "fqdn" =>
                      pol.nft /\ i < Len(p) /\ p[i + 1] = <<"fill", p[i][2]>>
  BY DEF Outlined
<1>2. PICK K \in [1..(Len(q) + 1) -> SUBSET Fact] :
          /\ K[1] \subseteq mid /\ post \subseteq K[Len(q) + 1]
          /\ \A i \in 1..Len(q) :
                /\ Needs(q[i], pol) \subseteq K[i] /\ K[i + 1] \subseteq After(K[i], q[i], pol)
                /\ q[i][1] = "flush" /\ q[i][2] # "fqdn" =>
                      pol.nft /\ i < Len(q) /\ q[i + 1] = <<"fill", q[i][2]>>
  BY DEF Outlined
<1> DEFINE r == p \o q
           H == [i \in 1..(Len(p) + Len(q) + 1) |->
                   IF i <= Len(p) THEN G[i] ELSE K[i - Len(p)]]
<1>3. p \in Seq(Op) /\ q \in Seq(Op)
  BY DEF Outlined
<1>4. Len(p) \in Nat /\ Len(q) \in Nat /\ Len(r) = Len(p) + Len(q) /\ r \in Seq(Op)
  BY <1>3
<1>5. /\ \A i \in 1..Len(p) : r[i] = p[i]
      /\ \A i \in 1..Len(q) : r[Len(p) + i] = q[i]
  BY <1>3
<1> HIDE DEF r
<1>6. H \in [1..(Len(r) + 1) -> SUBSET Fact]
  <2> SUFFICES ASSUME NEW i \in 1..(Len(p) + Len(q) + 1)
               PROVE  (IF i <= Len(p) THEN G[i] ELSE K[i - Len(p)]) \in SUBSET Fact
    BY <1>4
  <2>1. CASE i <= Len(p)
    <3>1. i \in 1..(Len(p) + 1)
      BY <2>1, <1>4
    <3> QED BY <2>1, <3>1
  <2>2. CASE ~(i <= Len(p))
    <3>1. i - Len(p) \in 1..(Len(q) + 1)
      BY <2>2, <1>4
    <3> QED BY <2>2, <3>1
  <2> QED BY <2>1, <2>2
<1>7. \A i \in 1..Len(p) : H[i] = G[i]
  BY <1>4
<1>8. \A i \in 1..(Len(q) + 1) : H[Len(p) + i] = K[i]
  BY <1>4
<1> HIDE DEF H
<1>9. H[Len(p) + 1] \subseteq G[Len(p) + 1]
  <2>1. 1 \in 1..(Len(q) + 1)
    BY <1>4
  <2> QED BY <2>1, <1>1, <1>2, <1>8
<1>10. \A i \in 1..(Len(p) + 1) : H[i] \subseteq G[i]
  <2> TAKE i \in 1..(Len(p) + 1)
  <2>1. i \in 1..Len(p) \/ i = Len(p) + 1
    BY <1>4
  <2> QED BY <2>1, <1>7, <1>9
<1>11. H[1] \subseteq pre /\ post \subseteq H[Len(r) + 1]
  <2>1. /\ 1 \in 1..(Len(p) + 1)
        /\ Len(q) + 1 \in 1..(Len(q) + 1) /\ Len(r) + 1 = Len(p) + (Len(q) + 1)
    BY <1>4
  <2>2. H[1] \subseteq G[1] /\ H[Len(r) + 1] = K[Len(q) + 1]
    BY <2>1, <1>8, <1>10
  <2> QED BY <2>2, <1>1, <1>2
<1>12. ASSUME NEW i \in 1..Len(r)
       PROVE  /\ Needs(r[i], pol) \subseteq H[i] /\ H[i + 1] \subseteq After(H[i], r[i], pol)
              /\ r[i][1] = "flush" /\ r[i][2] # "fqdn" =>
                    pol.nft /\ i < Len(r) /\ r[i + 1] = <<"fill", r[i][2]>>
  <2>1. CASE i <= Len(p)
    <3>1. i \in 1..Len(p) /\ i + 1 \in 1..(Len(p) + 1)
      BY <2>1, <1>4
    <3>2. r[i] = p[i] /\ H[i] = G[i] /\ H[i + 1] \subseteq G[i + 1]
      BY <3>1, <1>5, <1>7, <1>10
    <3>3. i < Len(p) => i + 1 \in 1..Len(p) /\ i < Len(r)
      BY <2>1, <1>4
    <3>4. i < Len(p) => r[i + 1] = p[i + 1]
      BY <3>3, <1>5
    <3>5. /\ Needs(p[i], pol) \subseteq G[i] /\ G[i + 1] \subseteq After(G[i], p[i], pol)
          /\ p[i][1] = "flush" /\ p[i][2] # "fqdn" =>
                pol.nft /\ i < Len(p) /\ p[i + 1] = <<"fill", p[i][2]>>
      BY <3>1, <1>1
    <3> QED BY <3>2, <3>3, <3>4, <3>5
  <2>2. CASE ~(i <= Len(p))
    <3> DEFINE j == i - Len(p)
    <3>1. j \in 1..Len(q) /\ j \in 1..(Len(q) + 1) /\ j + 1 \in 1..(Len(q) + 1)
      BY <2>2, <1>4
    <3>2. i = Len(p) + j /\ i + 1 = Len(p) + (j + 1)
      BY <2>2, <1>4
    <3> HIDE DEF j
    <3>3. r[i] = q[j] /\ H[i] = K[j] /\ H[i + 1] = K[j + 1]
      BY <3>1, <3>2, <1>5, <1>8
    <3>4. j < Len(q) => j + 1 \in 1..Len(q) /\ i < Len(r)
      BY <3>1, <3>2, <1>4
    <3>5. j < Len(q) => r[i + 1] = q[j + 1]
      BY <3>2, <3>4, <1>5
    <3>6. /\ Needs(q[j], pol) \subseteq K[j] /\ K[j + 1] \subseteq After(K[j], q[j], pol)
          /\ q[j][1] = "flush" /\ q[j][2] # "fqdn" =>
                pol.nft /\ j < Len(q) /\ q[j + 1] = <<"fill", q[j][2]>>
      BY <3>1, <1>2
    <3> QED BY <3>3, <3>4, <3>5, <3>6
  <2> QED BY <2>1, <2>2
<1>13. Outlined(pre, r, post, pol)
  BY <1>4, <1>6, <1>11, <1>12 DEF Outlined
<1> QED BY <1>13 DEF r

\* The head of a sequence, and an outline of its tail
LEMMA Unchained ==
    ASSUME NEW q, q # <<>>, NEW pre, NEW post, NEW pol, Outlined(pre, q, post, pol)
    PROVE  /\ Head(q) \in Op /\ Needs(Head(q), pol) \subseteq pre
           /\ Head(q)[1] = "flush" /\ Head(q)[2] # "fqdn" =>
                pol.nft /\ Tail(q) # <<>> /\ Head(Tail(q)) = <<"fill", Head(q)[2]>>
           /\ Outlined(After(pre, Head(q), pol), Tail(q), post, pol)
<1>1. PICK G \in [1..(Len(q) + 1) -> SUBSET Fact] :
          /\ G[1] \subseteq pre /\ post \subseteq G[Len(q) + 1]
          /\ \A i \in 1..Len(q) :
                /\ Needs(q[i], pol) \subseteq G[i] /\ G[i + 1] \subseteq After(G[i], q[i], pol)
                /\ q[i][1] = "flush" /\ q[i][2] # "fqdn" =>
                      pol.nft /\ i < Len(q) /\ q[i + 1] = <<"fill", q[i][2]>>
  BY DEF Outlined
<1> DEFINE t == Tail(q)
           H == [i \in 1..(Len(t) + 1) |-> G[i + 1]]
<1>0. q \in Seq(Op)
  BY DEF Outlined
<1>2. Len(q) \in Nat /\ Len(q) > 0 /\ t \in Seq(Op) /\ Len(t) = Len(q) - 1
  BY <1>0
<1>3. /\ Head(q) = q[1] /\ Head(q) \in Op
      /\ \A i \in 1..Len(t) : t[i] = q[i + 1]
  BY <1>0
<1>4. 1 \in 1..Len(q) /\ 1 \in 1..(Len(q) + 1) /\ Len(q) + 1 \in 1..(Len(q) + 1)
  BY <1>2
<1>5. Needs(Head(q), pol) \subseteq pre /\ G[2] \subseteq After(pre, Head(q), pol)
  BY <1>1, <1>3, <1>4 DEF After
<1>6. Head(q)[1] = "flush" /\ Head(q)[2] # "fqdn" =>
                pol.nft /\ t # <<>> /\ Head(t) = <<"fill", Head(q)[2]>>
  <2> SUFFICES ASSUME Head(q)[1] = "flush", Head(q)[2] # "fqdn"
               PROVE  pol.nft /\ t # <<>> /\ Head(t) = <<"fill", Head(q)[2]>>
    OBVIOUS
  <2>1. pol.nft /\ 1 < Len(q) /\ q[2] = <<"fill", q[1][2]>>
    BY <1>1, <1>3, <1>4
  <2>2. 1 \in 1..Len(t)
    BY <2>1, <1>2
  <2> HIDE DEF t
  <2>3. t # <<>> /\ Head(t) = t[1]
    BY <2>2, <1>2
  <2>4. t[1] = q[2]
    BY <2>2, <1>3
  <2> QED BY <2>1, <2>3, <2>4, <1>3
<1>7. H \in [1..(Len(t) + 1) -> SUBSET Fact]
  BY <1>2
<1>8. H[1] = G[2] /\ H[Len(t) + 1] = G[Len(q) + 1]
  BY <1>2
<1>9. ASSUME NEW i \in 1..Len(t)
      PROVE  /\ Needs(t[i], pol) \subseteq H[i] /\ H[i + 1] \subseteq After(H[i], t[i], pol)
             /\ t[i][1] = "flush" /\ t[i][2] # "fqdn" =>
                   pol.nft /\ i < Len(t) /\ t[i + 1] = <<"fill", t[i][2]>>
  <2>1. i + 1 \in 1..Len(q) /\ H[i] = G[i + 1] /\ H[i + 1] = G[(i + 1) + 1] /\ t[i] = q[i + 1]
    BY <1>2, <1>3
  <2>2. i + 1 < Len(q) => i < Len(t) /\ i + 1 \in 1..Len(t)
    BY <1>2
  <2>3. i + 1 < Len(q) => t[i + 1] = q[(i + 1) + 1]
    BY <2>2, <1>3
  <2> HIDE DEF H, t
  <2> QED BY <2>1, <2>2, <2>3, <1>1
<1> HIDE DEF H, t
<1>10. Outlined(After(pre, Head(q), pol), t, post, pol)
  BY <1>1, <1>2, <1>5, <1>7, <1>8, <1>9 DEF Outlined
<1> QED BY <1>3, <1>5, <1>6, <1>10 DEF t

\* What is known may be more, and less may be asked of the end.
LEMMA Weakened ==
    ASSUME NEW q, NEW pre, NEW post, NEW pol, Outlined(pre, q, post, pol),
           NEW more, pre \subseteq more, NEW less, less \subseteq post
    PROVE  Outlined(more, q, less, pol)
BY DEF Outlined
---------------------------------------------------------------------------
(* Outlines of the sequences of commands and of the handlers                *)

LEMMA Concat ==
    ASSUME NEW S, NEW p \in Seq(S), NEW q \in Seq(S)
    PROVE  /\ p \o q \in Seq(S) /\ Len(p \o q) = Len(p) + Len(q)
           /\ \A i \in 1..Len(p) : (p \o q)[i] = p[i]
           /\ \A i \in 1..Len(q) : (p \o q)[Len(p) + i] = q[i]
OBVIOUS

\* Commands that need and change no fact
Plain == {<<"dnsmasq", "raise">>, <<"dnsmasq", "log">>, <<"tunnel", "start">>,
          <<"tunnel", "stop">>, <<"if", "safe">>, <<"if", "running">>, <<"need", "safe">>}

\* The commands that the facts name one by one
LEMMA Otherwise ==
    ASSUME NEW op, op[1] \in {"await", "read", "dnsmasq", "tunnel", "if", "need"}
    PROVE  /\ op # <<"mark", "nft">> /\ op # <<"mark", "ipt">> /\ \A s : op # <<"mark", s>>
           /\ op # <<"forward", "plan">> /\ op # <<"forward", "pass">>
           /\ op # <<"forward", "kill">> /\ op # <<"end", "plan">> /\ op # <<"end", "pass">>
           /\ op # <<"ip", "rules">> /\ op # <<"ip", "clear">>
           /\ op # <<"down", "ipt">> /\ op # <<"down", "nft">>
           /\ op[1] \notin {"flush", "fill", "chains", "forward", "out", "end"}
OBVIOUS

LEMMA NeedsNothing ==
    ASSUME NEW op, op[1] \in {"await", "read", "dnsmasq", "tunnel", "if", "need"}, NEW pol
    PROVE  Needs(op, pol) = {} /\ Gains(op, pol) = {}
<1>1. /\ op # <<"mark", "nft">> /\ op # <<"mark", "ipt">> /\ \A s : op # <<"mark", s>>
      /\ op # <<"forward", "plan">> /\ op # <<"forward", "pass">>
      /\ op # <<"forward", "kill">> /\ op # <<"end", "plan">> /\ op # <<"end", "pass">>
      /\ op # <<"ip", "rules">> /\ op # <<"ip", "clear">>
      /\ op # <<"down", "ipt">> /\ op # <<"down", "nft">>
      /\ op[1] \notin {"flush", "fill", "chains", "forward", "out", "end"}
  BY Otherwise
<1> QED BY <1>1 DEF Needs, Gains

LEMMA LosesNothing ==
    ASSUME NEW op, op[1] \in {"dnsmasq", "tunnel", "if", "need"}, NEW pol
    PROVE  Loses(op, pol) = {}
<1>1. /\ op # <<"mark", "nft">> /\ op # <<"mark", "ipt">>
      /\ op # <<"ip", "rules">> /\ op # <<"ip", "clear">>
      /\ op # <<"down", "ipt">> /\ op # <<"down", "nft">>
      /\ op[1] \notin {"flush", "fill", "chains", "forward", "out", "end", "await", "read"}
  BY Otherwise
<1> QED BY <1>1 DEF Loses

LEMMA LosesAll ==
    ASSUME NEW op, op[1] \in {"await", "read"}, NEW pol
    PROVE  Loses(op, pol) = Fact
<1>1. /\ op # <<"mark", "nft">> /\ op # <<"mark", "ipt">>
      /\ op # <<"ip", "rules">> /\ op # <<"ip", "clear">>
      /\ op # <<"down", "ipt">> /\ op # <<"down", "nft">>
      /\ op[1] \notin {"flush", "fill", "chains", "forward", "out", "end"}
  BY Otherwise
<1> QED BY <1>1 DEF Loses

LEMMA PlainStep ==
    ASSUME NEW op \in Plain, NEW pol, NEW pre \in SUBSET Fact
    PROVE  Outlined(pre, <<op>>, pre, pol)
<1>1. op \in Op /\ op[1] # "flush"
  BY DEF Op, Plain
<1>2. op[1] \in {"dnsmasq", "tunnel", "if", "need"}
  BY DEF Plain
<1>3. Needs(op, pol) = {} /\ Loses(op, pol) = {} /\ Gains(op, pol) = {}
  BY <1>2, NeedsNothing, LosesNothing
<1>4. After(pre, op, pol) = pre
  BY <1>3 DEF After
<1> QED BY <1>1, <1>3, <1>4, OneStep

LEMMA AwaitStep ==
    ASSUME NEW op \in {<<"await", "rows">>, <<"await", "dns">>, <<"await", "probe">>,
                       <<"read", "policy">>}, NEW pol, NEW pre \in SUBSET Fact
    PROVE  Outlined(pre, <<op>>, {}, pol)
<1>1. op \in Op /\ op[1] # "flush"
  BY DEF Op
<1>2. op[1] \in {"await", "read"}
  OBVIOUS
<1>3. Needs(op, pol) = {}
  BY <1>2, NeedsNothing
<1> QED BY <1>1, <1>3, OneStep

LEMMA Paired ==
    ASSUME NEW a, NEW b, NEW pre, NEW mid, NEW post, NEW pol,
           Outlined(pre, <<a>>, mid, pol), Outlined(mid, <<b>>, post, pol)
    PROVE  Outlined(pre, <<a, b>>, post, pol)
<1>1. <<a>> \o <<b>> = <<a, b>>
  <2> DEFINE p == <<a>> \o <<b>>
             q == <<a, b>>
  <2>1. p \in Seq({a, b}) /\ q \in Seq({a, b}) /\ Len(p) = 2 /\ Len(q) = 2
    OBVIOUS
  <2>2. \A i \in 1..2 : p[i] = q[i]
    OBVIOUS
  <2> HIDE DEF p, q
  <2>3. p = q
    BY <2>1, <2>2, SeqEqual
  <2> QED BY <2>3 DEF p, q
<1> QED BY <1>1, Chained

LEMMA Tripled ==
    ASSUME NEW a, NEW b, NEW c, NEW pre, NEW m1, NEW m2, NEW post, NEW pol,
           Outlined(pre, <<a>>, m1, pol), Outlined(m1, <<b>>, m2, pol),
           Outlined(m2, <<c>>, post, pol)
    PROVE  Outlined(pre, <<a, b, c>>, post, pol)
<1>1. <<a>> \o <<b, c>> = <<a, b, c>>
  <2> DEFINE p == <<a>> \o <<b, c>>
             q == <<a, b, c>>
  <2>1. p \in Seq({a, b, c}) /\ q \in Seq({a, b, c}) /\ Len(p) = 3 /\ Len(q) = 3
    OBVIOUS
  <2>2. \A i \in 1..3 : p[i] = q[i]
    OBVIOUS
  <2> HIDE DEF p, q
  <2>3. p = q
    BY <2>1, <2>2, SeqEqual
  <2> QED BY <2>3 DEF p, q
<1>2. Outlined(m1, <<b, c>>, post, pol)
  BY Paired
<1> QED BY <1>1, <1>2, Chained

\* The contents of the three static sets, one after another
LEMMA SetStepsOutline ==
    ASSUME NEW pol, NEW pre \in SUBSET Fact, "fresh" \in pre
    PROVE  Outlined(pre, SetSteps(<<"geoip", "manual", "base">>, pol), pre \cup Static, pol)
<1> DEFINE names == <<"geoip", "manual", "base">>
           p1 == pre \cup {"geoip"}
           p2 == p1 \cup {"manual"}
           p3 == p2 \cup {"base"}
<1>1. p1 \in SUBSET Fact /\ p2 \in SUBSET Fact /\ p3 = pre \cup Static
  BY DEF Fact, Static
<1>2. /\ "geoip" \in Static /\ "manual" \in Static /\ "base" \in Static
  BY DEF Static
<1>3. CASE pol.nft
  <2> DEFINE a == << <<"flush", "geoip">>, <<"fill", "geoip">> >>
             b == << <<"flush", "manual">>, <<"fill", "manual">> >>
             c == << <<"flush", "base">>, <<"fill", "base">> >>
  <2>1. Outlined(pre, a, p1, pol)
    BY <1>2, <1>3, Refill
  <2>2. Outlined(p1, b, p2, pol)
    BY <1>1, <1>2, <1>3, Refill
  <2>3. Outlined(p2, c, p3, pol)
    BY <1>1, <1>2, <1>3, Refill
  <2>4. SetSteps(names, pol) = a \o (b \o c)
    <3> DEFINE seqs == [i \in 1..3 |-> << <<"flush", names[i]>>, <<"fill", names[i]>> >>]
               flat == [i \in 1..6 |-> seqs[(i + 1) \div 2][2 - (i % 2)]]
    <3>1. SetSteps(names, pol) = Flat(seqs)
      BY <1>3 DEF SetSteps
    <3>2. Len(seqs) = 3
      OBVIOUS
    <3>3. Flat(seqs) = flat
      BY <3>2 DEF Flat
    <3>4. /\ seqs[1] = a /\ seqs[2] = b /\ seqs[3] = c
      OBVIOUS
    <3> HIDE DEF seqs
    <3>5. /\ flat[1] = seqs[1][1] /\ flat[2] = seqs[1][2]
          /\ flat[3] = seqs[2][1] /\ flat[4] = seqs[2][2]
          /\ flat[5] = seqs[3][1] /\ flat[6] = seqs[3][2]
      OBVIOUS
    <3>6. flat = << a[1], a[2], b[1], b[2], c[1], c[2] >>
      <4> DEFINE tup == << a[1], a[2], b[1], b[2], c[1], c[2] >>
      <4>1. tup = [i \in 1..6 |-> tup[i]]
        OBVIOUS
      <4>2. \A i \in 1..6 : flat[i] = tup[i]
        BY <3>4, <3>5
      <4>3. flat = [i \in 1..6 |-> flat[i]]
        OBVIOUS
      <4> HIDE DEF tup, flat
      <4>4. flat = tup
        BY <4>1, <4>2, <4>3
      <4> QED BY <4>4 DEF tup
    <3>7. a \o (b \o c) = << a[1], a[2], b[1], b[2], c[1], c[2] >>
      <4> DEFINE S == {a[1], a[2], b[1], b[2], c[1], c[2]}
                 q == << a[1], a[2], b[1], b[2], c[1], c[2] >>
      <4>1. a \in Seq(S) /\ b \in Seq(S) /\ c \in Seq(S) /\ q \in Seq(S) /\ Len(q) = 6
        OBVIOUS
      <4>2. Len(a) = 2 /\ Len(b) = 2 /\ Len(c) = 2
        OBVIOUS
      <4>3. /\ q[1] = a[1] /\ q[2] = a[2] /\ q[3] = b[1]
            /\ q[4] = b[2] /\ q[5] = c[1] /\ q[6] = c[2]
        OBVIOUS
      <4> HIDE DEF a, b, c, S, q
      <4> DEFINE r == b \o c
      <4>4. /\ r \in Seq(S) /\ Len(r) = Len(b) + Len(c)
            /\ \A i \in 1..Len(b) : r[i] = b[i]
            /\ \A i \in 1..Len(c) : r[Len(b) + i] = c[i]
        BY <4>1, Concat
      <4> HIDE DEF r
      <4>5a. r \in Seq(S)
        BY <4>4
      <4> DEFINE x == a \o r
      <4>5. /\ x \in Seq(S) /\ Len(x) = Len(a) + Len(r)
            /\ \A i \in 1..Len(a) : x[i] = a[i]
            /\ \A i \in 1..Len(r) : x[Len(a) + i] = r[i]
        BY <4>1, <4>5a, Concat
      <4> HIDE DEF x
      <4>6. r[1] = b[1] /\ r[2] = b[2] /\ r[3] = c[1] /\ r[4] = c[2] /\ Len(r) = 4
        BY <4>2, <4>4
      <4>7. /\ x[1] = a[1] /\ x[2] = a[2] /\ Len(x) = 6
            /\ x[3] = r[1] /\ x[4] = r[2] /\ x[5] = r[3] /\ x[6] = r[4]
        BY <4>2, <4>5, <4>6
      <4>8. \A i \in 1..6 : x[i] = q[i]
        BY <4>3, <4>6, <4>7
      <4>9. x = q
        BY <4>1, <4>5, <4>7, <4>8, SeqEqual
      <4> QED BY <4>9 DEF q, r, x
    <3> QED BY <3>1, <3>3, <3>6, <3>7
  <2> HIDE DEF a, b, c, p1, p2, p3
  <2>5. Outlined(p1, b \o c, p3, pol)
    BY <2>2, <2>3, Chained
  <2>6. Outlined(pre, a \o (b \o c), p3, pol)
    BY <2>1, <2>5, Chained
  <2> QED BY <2>4, <2>6, <1>1
<1>4. CASE ~pol.nft
  <2>1. ASSUME NEW p \in SUBSET Fact, "fresh" \in p, NEW s \in Static
        PROVE  Outlined(p, << <<"fill", s>> >>, p \cup {s}, pol)
    <3> DEFINE op == <<"fill", s>>
    <3>1. op \in Op /\ op[1] # "flush"
      BY DEF Op, Static, SetName
    <3>2. Needs(op, pol) = {"fresh"} /\ After(p, op, pol) = p \cup {s}
      BY DEF Needs, After, Loses, Gains
    <3> HIDE DEF op
    <3>3. Outlined(p, <<op>>, p \cup {s}, pol)
      BY <2>1, <3>1, <3>2, OneStep
    <3> QED BY <3>3 DEF op
  <2>2. SetSteps(names, pol) = << <<"fill", "geoip">>, <<"fill", "manual">>, <<"fill", "base">> >>
    <3> DEFINE tup == << <<"fill", "geoip">>, <<"fill", "manual">>, <<"fill", "base">> >>
    <3>1. SetSteps(names, pol) = [i \in 1..3 |-> <<"fill", names[i]>>]
      BY <1>4 DEF SetSteps
    <3>2. tup = [i \in 1..3 |-> tup[i]]
      OBVIOUS
    <3>3. \A i \in 1..3 : tup[i] = <<"fill", names[i]>>
      OBVIOUS
    <3> QED BY <3>1, <3>2, <3>3
  <2>3. /\ Outlined(pre, << <<"fill", "geoip">> >>, p1, pol)
        /\ Outlined(p1, << <<"fill", "manual">> >>, p2, pol)
        /\ Outlined(p2, << <<"fill", "base">> >>, p3, pol)
    BY <2>1, <1>1, <1>2
  <2> HIDE DEF p1, p2, p3
  <2> QED BY <2>2, <2>3, <1>1, Tripled
<1> QED BY <1>3, <1>4

LEMMA SyncSetsOutline ==
    ASSUME NEW pol, NEW pre \in SUBSET Fact, "fresh" \in pre, NEW flush \in BOOLEAN
    PROVE  Outlined(pre, SyncSets(pol, flush), pre \cup Static, pol)
<1> DEFINE sets == SetSteps(<<"geoip", "manual", "base">>, pol)
           post == pre \cup Static
           op == <<"flush", "fqdn">>
<1>1. Outlined(pre, sets, post, pol)
  BY SetStepsOutline
<1>2. post \in SUBSET Fact /\ "fresh" \in post
  BY DEF Fact, Static
<1>3. op \in Op /\ op[2] = "fqdn" /\ Needs(op, pol) = {"fresh"}
  BY DEF Op, SetName, Needs
<1>4. "fqdn" \notin post /\ After(post, op, pol) = post \ {"fqdn"}
  BY DEF After, Loses, Gains, Fact, Static
<1>5. Fqdn(pol) # {}
  BY DEF Fqdn
<1>6. SyncSets(pol, flush) = sets \o (IF flush THEN << op >> ELSE <<>>)
  BY <1>5 DEF SyncSets
<1>7. sets \o <<>> = sets
  BY <1>1 DEF Outlined
<1> HIDE DEF sets, post, op
<1>8. Outlined(post, << op >>, post, pol)
  BY <1>2, <1>3, <1>4, OneStep
<1>9. Outlined(pre, sets \o << op >>, post, pol)
  BY <1>1, <1>8, Chained
<1> QED BY <1>1, <1>6, <1>7, <1>9 DEF post, op

(* What a command leaves known, as a rule for outlines                      *)
LEMMA Rules ==
    ASSUME NEW pre \in SUBSET Fact, NEW post, NEW pol
    PROVE
    /\ post \subseteq (pre \ {"closed"}) \cup {"rules", "fresh"}
          => Outlined(pre, << <<"ip", "rules">> >>, post, pol)
    /\ post \subseteq pre
          => Outlined(pre, << <<"ip", "routes">> >>, post, pol)
    /\ post \subseteq (pre \ {"rules"}) \cup {"closed", "fresh"}
          => Outlined(pre, << <<"ip", "clear">> >>, post, pol)
    /\ post \subseteq (pre \ (Filter \cup {"marks"})) \cup {"ipt_gone", "empty", "fresh"}
          => Outlined(pre, << <<"down", "ipt">> >>, post, pol)
    /\ post \subseteq (pre \ (Filter \cup {"marks"} \cup Static)) \cup {"nft_gone", "empty", "fresh"}
          => Outlined(pre, << <<"down", "nft">> >>, post, pol)
    /\ post \subseteq (pre \ (Filter \cup {"marks"})) \cup {"empty", "fresh"}
          => Outlined(pre, << <<"chains", "all">> >>, post, pol)
    /\ post \subseteq (pre \ (Filter \cup {"marks"})) \cup {"empty", "fresh"}
          => Outlined(pre, << <<"chains", "pass">> >>, post, pol)
    /\ pol.nft /\ "ipt_gone" \in pre /\ post \subseteq (pre \ {"nft_gone"}) \cup {"marks"}
          => Outlined(pre, << <<"mark", "nft">> >>, post, pol)
    /\ ~pol.nft /\ "nft_gone" \in pre /\ post \subseteq (pre \ {"ipt_gone"}) \cup {"marks"}
          => Outlined(pre, << <<"mark", "ipt">> >>, post, pol)
    /\ "empty" \in pre /\ post \subseteq (pre \ (Filter \cup {"empty"})) \cup {"half"}
          => Outlined(pre, << <<"forward", "plan">> >>, post, pol)
    /\ "half" \in pre /\ post \subseteq (pre \ (Filter \cup {"empty"})) \cup {"whole"}
          => Outlined(pre, << <<"forward", "kill">> >>, post, pol)
    /\ "empty" \in pre /\ post \subseteq (pre \ (Filter \cup {"empty"})) \cup {"pass"}
          => Outlined(pre, << <<"forward", "pass">> >>, post, pol)
    /\ post \subseteq pre \ {"marks", "ipt_gone", "nft_gone"}
          => Outlined(pre, << <<"out", "pass">> >>, post, pol)
    /\ {"rules", "marks", "whole", Gone(pol)} \cup Static \subseteq pre /\ post \subseteq {}
          => Outlined(pre, << <<"end", "plan">> >>, post, pol)
    /\ {"closed", "pass"} \subseteq pre /\ post \subseteq {}
          => Outlined(pre, << <<"end", "pass">> >>, post, pol)
    /\ post \subseteq {}
          => Outlined(pre, << <<"end", "base">> >>, post, pol)
<1>1. ASSUME post \subseteq (pre \ {"closed"}) \cup {"rules", "fresh"}
      PROVE  Outlined(pre, << <<"ip", "rules">> >>, post, pol)
  <2>1. <<"ip", "rules">> \in Op
    BY DEF Op
  <2>2. Needs(<<"ip", "rules">>, pol) \subseteq pre
    BY <1>1 DEF Needs
  <2>3. post \subseteq After(pre, <<"ip", "rules">>, pol)
    BY <1>1 DEF After, Loses, Gains, Filter, Built, Stack
  <2> QED BY <2>1, <2>2, <2>3, OneStep
<1>2. ASSUME post \subseteq pre
      PROVE  Outlined(pre, << <<"ip", "routes">> >>, post, pol)
  <2>1. <<"ip", "routes">> \in Op
    BY DEF Op
  <2>2. Needs(<<"ip", "routes">>, pol) \subseteq pre
    BY <1>2 DEF Needs
  <2>3. post \subseteq After(pre, <<"ip", "routes">>, pol)
    BY <1>2 DEF After, Loses, Gains, Filter, Built, Stack
  <2> QED BY <2>1, <2>2, <2>3, OneStep
<1>3. ASSUME post \subseteq (pre \ {"rules"}) \cup {"closed", "fresh"}
      PROVE  Outlined(pre, << <<"ip", "clear">> >>, post, pol)
  <2>1. <<"ip", "clear">> \in Op
    BY DEF Op
  <2>2. Needs(<<"ip", "clear">>, pol) \subseteq pre
    BY <1>3 DEF Needs
  <2>3. post \subseteq After(pre, <<"ip", "clear">>, pol)
    BY <1>3 DEF After, Loses, Gains, Filter, Built, Stack
  <2> QED BY <2>1, <2>2, <2>3, OneStep
<1>4. ASSUME post \subseteq (pre \ (Filter \cup {"marks"})) \cup {"ipt_gone", "empty", "fresh"}
      PROVE  Outlined(pre, << <<"down", "ipt">> >>, post, pol)
  <2>1. <<"down", "ipt">> \in Op
    BY DEF Op
  <2>2. Needs(<<"down", "ipt">>, pol) \subseteq pre
    BY <1>4 DEF Needs
  <2>3. post \subseteq After(pre, <<"down", "ipt">>, pol)
    BY <1>4 DEF After, Loses, Gains, Filter, Built, Stack
  <2> QED BY <2>1, <2>2, <2>3, OneStep
<1>5. ASSUME post \subseteq (pre \ (Filter \cup {"marks"} \cup Static)) \cup {"nft_gone", "empty", "fresh"}
      PROVE  Outlined(pre, << <<"down", "nft">> >>, post, pol)
  <2>1. <<"down", "nft">> \in Op
    BY DEF Op
  <2>2. Needs(<<"down", "nft">>, pol) \subseteq pre
    BY <1>5 DEF Needs
  <2>3. post \subseteq After(pre, <<"down", "nft">>, pol)
    BY <1>5 DEF After, Loses, Gains, Filter, Built, Stack
  <2> QED BY <2>1, <2>2, <2>3, OneStep
<1>6. ASSUME post \subseteq (pre \ (Filter \cup {"marks"})) \cup {"empty", "fresh"}
      PROVE  Outlined(pre, << <<"chains", "all">> >>, post, pol)
  <2>1. <<"chains", "all">> \in Op
    BY DEF Op
  <2>2. Needs(<<"chains", "all">>, pol) \subseteq pre
    BY <1>6 DEF Needs
  <2>3. post \subseteq After(pre, <<"chains", "all">>, pol)
    BY <1>6 DEF After, Loses, Gains, Filter, Built, Stack
  <2> QED BY <2>1, <2>2, <2>3, OneStep
<1>7. ASSUME post \subseteq (pre \ (Filter \cup {"marks"})) \cup {"empty", "fresh"}
      PROVE  Outlined(pre, << <<"chains", "pass">> >>, post, pol)
  <2>1. <<"chains", "pass">> \in Op
    BY DEF Op
  <2>2. Needs(<<"chains", "pass">>, pol) \subseteq pre
    BY <1>7 DEF Needs
  <2>3. post \subseteq After(pre, <<"chains", "pass">>, pol)
    BY <1>7 DEF After, Loses, Gains, Filter, Built, Stack
  <2> QED BY <2>1, <2>2, <2>3, OneStep
<1>8. ASSUME pol.nft /\ "ipt_gone" \in pre,
             post \subseteq (pre \ {"nft_gone"}) \cup {"marks"}
      PROVE  Outlined(pre, << <<"mark", "nft">> >>, post, pol)
  <2>1. <<"mark", "nft">> \in Op
    BY DEF Op
  <2>2. Needs(<<"mark", "nft">>, pol) \subseteq pre
    BY <1>8 DEF Needs
  <2>3. post \subseteq After(pre, <<"mark", "nft">>, pol)
    BY <1>8 DEF After, Loses, Gains, Filter, Built, Stack
  <2> QED BY <2>1, <2>2, <2>3, OneStep
<1>9. ASSUME ~pol.nft /\ "nft_gone" \in pre,
             post \subseteq (pre \ {"ipt_gone"}) \cup {"marks"}
      PROVE  Outlined(pre, << <<"mark", "ipt">> >>, post, pol)
  <2>1. <<"mark", "ipt">> \in Op
    BY DEF Op
  <2>2. Needs(<<"mark", "ipt">>, pol) \subseteq pre
    BY <1>9 DEF Needs
  <2>3. post \subseteq After(pre, <<"mark", "ipt">>, pol)
    BY <1>9 DEF After, Loses, Gains, Filter, Built, Stack
  <2> QED BY <2>1, <2>2, <2>3, OneStep
<1>10. ASSUME "empty" \in pre,
             post \subseteq (pre \ (Filter \cup {"empty"})) \cup {"half"}
      PROVE  Outlined(pre, << <<"forward", "plan">> >>, post, pol)
  <2>1. <<"forward", "plan">> \in Op
    BY DEF Op
  <2>2. Needs(<<"forward", "plan">>, pol) \subseteq pre
    BY <1>10 DEF Needs
  <2>3. post \subseteq After(pre, <<"forward", "plan">>, pol)
    BY <1>10 DEF After, Loses, Gains, Filter, Built, Stack
  <2> QED BY <2>1, <2>2, <2>3, OneStep
<1>11. ASSUME "half" \in pre,
             post \subseteq (pre \ (Filter \cup {"empty"})) \cup {"whole"}
      PROVE  Outlined(pre, << <<"forward", "kill">> >>, post, pol)
  <2>1. <<"forward", "kill">> \in Op
    BY DEF Op
  <2>2. Needs(<<"forward", "kill">>, pol) \subseteq pre
    BY <1>11 DEF Needs
  <2>3. post \subseteq After(pre, <<"forward", "kill">>, pol)
    BY <1>11 DEF After, Loses, Gains, Filter, Built, Stack
  <2> QED BY <2>1, <2>2, <2>3, OneStep
<1>12. ASSUME "empty" \in pre,
             post \subseteq (pre \ (Filter \cup {"empty"})) \cup {"pass"}
      PROVE  Outlined(pre, << <<"forward", "pass">> >>, post, pol)
  <2>1. <<"forward", "pass">> \in Op
    BY DEF Op
  <2>2. Needs(<<"forward", "pass">>, pol) \subseteq pre
    BY <1>12 DEF Needs
  <2>3. post \subseteq After(pre, <<"forward", "pass">>, pol)
    BY <1>12 DEF After, Loses, Gains, Filter, Built, Stack
  <2> QED BY <2>1, <2>2, <2>3, OneStep
<1>13. ASSUME post \subseteq pre \ {"marks", "ipt_gone", "nft_gone"}
      PROVE  Outlined(pre, << <<"out", "pass">> >>, post, pol)
  <2>1. <<"out", "pass">> \in Op
    BY DEF Op
  <2>2. Needs(<<"out", "pass">>, pol) \subseteq pre
    BY <1>13 DEF Needs
  <2>3. post \subseteq After(pre, <<"out", "pass">>, pol)
    BY <1>13 DEF After, Loses, Gains, Filter, Built, Stack
  <2> QED BY <2>1, <2>2, <2>3, OneStep
<1>14. ASSUME {"rules", "marks", "whole", Gone(pol)} \cup Static \subseteq pre,
             post \subseteq {}
      PROVE  Outlined(pre, << <<"end", "plan">> >>, post, pol)
  <2>1. <<"end", "plan">> \in Op
    BY DEF Op
  <2>2. Needs(<<"end", "plan">>, pol) \subseteq pre
    BY <1>14 DEF Needs
  <2>3. post \subseteq After(pre, <<"end", "plan">>, pol)
    BY <1>14 DEF After, Loses, Gains, Filter, Built, Stack
  <2> QED BY <2>1, <2>2, <2>3, OneStep
<1>15. ASSUME {"closed", "pass"} \subseteq pre,
             post \subseteq {}
      PROVE  Outlined(pre, << <<"end", "pass">> >>, post, pol)
  <2>1. <<"end", "pass">> \in Op
    BY DEF Op
  <2>2. Needs(<<"end", "pass">>, pol) \subseteq pre
    BY <1>15 DEF Needs
  <2>3. post \subseteq After(pre, <<"end", "pass">>, pol)
    BY <1>15 DEF After, Loses, Gains, Filter, Built, Stack
  <2> QED BY <2>1, <2>2, <2>3, OneStep
<1>16. ASSUME post \subseteq {}
      PROVE  Outlined(pre, << <<"end", "base">> >>, post, pol)
  <2>1. <<"end", "base">> \in Op
    BY DEF Op
  <2>2. Needs(<<"end", "base">>, pol) \subseteq pre
    BY <1>16 DEF Needs
  <2>3. post \subseteq After(pre, <<"end", "base">>, pol)
    BY <1>16 DEF After, Loses, Gains, Filter, Built, Stack
  <2> QED BY <2>1, <2>2, <2>3, OneStep
<1> QED BY <1>1, <1>2, <1>3, <1>4, <1>5, <1>6, <1>7, <1>8, <1>9, <1>10, <1>11, <1>12, <1>13, <1>14, <1>15, <1>16

LEMMA Quadrupled ==
    ASSUME NEW a, NEW b, NEW c, NEW d, NEW pre, NEW m1, NEW m2, NEW m3, NEW post, NEW pol,
           Outlined(pre, <<a>>, m1, pol), Outlined(m1, <<b>>, m2, pol),
           Outlined(m2, <<c>>, m3, pol), Outlined(m3, <<d>>, post, pol)
    PROVE  Outlined(pre, <<a, b, c, d>>, post, pol)
<1>1. <<a>> \o <<b, c, d>> = <<a, b, c, d>>
  <2> DEFINE p == <<a>> \o <<b, c, d>>
             q == <<a, b, c, d>>
  <2>1. p \in Seq({a, b, c, d}) /\ q \in Seq({a, b, c, d}) /\ Len(p) = 4 /\ Len(q) = 4
    OBVIOUS
  <2>2. \A i \in 1..4 : p[i] = q[i]
    OBVIOUS
  <2> HIDE DEF p, q
  <2>3. p = q
    BY <2>1, <2>2, SeqEqual
  <2> QED BY <2>3 DEF p, q
<1>2. Outlined(m1, <<b, c, d>>, post, pol)
  BY Tripled
<1> QED BY <1>1, <1>2, Chained

\* A routing plan needs nothing and leaves nothing known.
LEMMA ApplyOutline ==
    ASSUME NEW pol
    PROVE  Outlined({}, Apply(pol), {}, pol)
<1> DEFINE F1 == {"rules", "fresh"}
           F3 == {"rules", "fresh", Gone(pol), "empty"}
           F4 == F3 \cup Static
           F5 == {"rules", "fresh", Gone(pol), "empty", "marks"} \cup Static
           F6 == {"rules", "fresh", Gone(pol), "half", "marks"} \cup Static
           F7 == {"rules", "fresh", Gone(pol), "whole", "marks"} \cup Static
           sync == SyncSets(pol, FALSE)
           plan == IF pol.nft THEN ApplyNft(pol) ELSE ApplyIptables(pol)
<1>1. /\ F1 \in SUBSET Fact /\ F3 \in SUBSET Fact /\ F4 \in SUBSET Fact
      /\ F5 \in SUBSET Fact /\ F6 \in SUBSET Fact /\ F7 \in SUBSET Fact /\ {} \in SUBSET Fact
  BY DEF Fact, Static, Gone
<1>2. Outlined({}, << <<"need", "safe">>, <<"ip", "rules">>, <<"ip", "routes">> >>, F1, pol)
  <2>1. Outlined({}, << <<"need", "safe">> >>, {}, pol)
    BY <1>1, PlainStep DEF Plain
  <2>2. Outlined({}, << <<"ip", "rules">> >>, F1, pol)
    BY <1>1, Rules
  <2>3. Outlined(F1, << <<"ip", "routes">> >>, F1, pol)
    BY <1>1, Rules
  <2> HIDE DEF F1
  <2> QED BY <2>1, <2>2, <2>3, Tripled
<1>3. Outlined(F3, sync, F4, pol)
  BY <1>1, SyncSetsOutline
<1>4. Outlined(F5, << <<"forward", "plan">> >>, F6, pol)
  <2>1. F6 \subseteq (F5 \ (Filter \cup {"empty"})) \cup {"half"}
    BY DEF Filter, Static, Gone
  <2> QED BY <1>1, <2>1, Rules
<1>5. Outlined(F6, << <<"forward", "kill">> >>, F7, pol)
  <2>1. F7 \subseteq (F6 \ (Filter \cup {"empty"})) \cup {"whole"}
    BY DEF Filter, Static, Gone
  <2> QED BY <1>1, <2>1, Rules
<1>6. Outlined(F7, << <<"end", "plan">> >>, {}, pol)
  <2>1. {"rules", "marks", "whole", Gone(pol)} \cup Static \subseteq F7
    OBVIOUS
  <2> QED BY <1>1, <2>1, Rules
<1>7. Outlined(F1, plan, F7, pol)
  <2>1. CASE pol.nft
    <3> DEFINE F2 == {"rules", "fresh", "ipt_gone", "empty"}
    <3>1. Gone(pol) = "ipt_gone" /\ F2 \in SUBSET Fact
      BY <2>1 DEF Gone, Fact
    <3>2. Outlined(F1, << <<"down", "ipt">> >>, F2, pol)
      <4>1. F2 \subseteq (F1 \ (Filter \cup {"marks"})) \cup {"ipt_gone", "empty", "fresh"}
        BY DEF Filter
      <4> QED BY <1>1, <4>1, Rules
    <3>3. Outlined(F2, << <<"down", "nft">> >>, F3, pol)
      <4>1. F3 \subseteq (F2 \ (Filter \cup {"marks"} \cup Static)) \cup {"nft_gone", "empty", "fresh"}
        BY <3>1 DEF Filter, Static
      <4> QED BY <3>1, <4>1, Rules
    <3>4. Outlined(F4, << <<"mark", "nft">> >>, F5, pol)
      <4>1. F5 \subseteq (F4 \ {"nft_gone"}) \cup {"marks"} /\ "ipt_gone" \in F4
        BY <3>1 DEF Static
      <4> QED BY <1>1, <2>1, <4>1, Rules
    <3> DEFINE downs == << <<"down", "ipt">>, <<"down", "nft">> >>
               ends == << <<"mark", "nft">>, <<"forward", "plan">>, <<"forward", "kill">> >>
    <3>5. plan = (downs \o sync) \o ends
      BY <2>1 DEF ApplyNft
    <3> HIDE DEF F1, F2, F3, F4, F5, F6, F7, sync, plan
    <3>6. Outlined(F1, downs, F3, pol)
      BY <3>2, <3>3, Paired
    <3>7. Outlined(F4, ends, F7, pol)
      BY <3>4, <1>4, <1>5, Tripled
    <3> HIDE DEF downs, ends
    <3>8. Outlined(F1, downs \o sync, F4, pol)
      BY <3>6, <1>3, Chained
    <3> QED BY <3>5, <3>7, <3>8, Chained
  <2>2. CASE ~pol.nft
    <3>1. Gone(pol) = "nft_gone"
      BY <2>2 DEF Gone
    <3>2. Outlined(F1, << <<"down", "nft">> >>, F3, pol)
      <4>1. F3 \subseteq (F1 \ (Filter \cup {"marks"} \cup Static)) \cup {"nft_gone", "empty", "fresh"}
        BY <3>1 DEF Filter, Static
      <4> QED BY <1>1, <4>1, Rules
    <3>3. Outlined(F4, << <<"chains", "all">> >>, F4, pol)
      <4>1. F4 \subseteq (F4 \ (Filter \cup {"marks"})) \cup {"empty", "fresh"}
        BY <3>1 DEF Filter, Static
      <4> QED BY <1>1, <4>1, Rules
    <3>4. Outlined(F4, << <<"mark", "ipt">> >>, F5, pol)
      <4>1. F5 \subseteq (F4 \ {"ipt_gone"}) \cup {"marks"} /\ "nft_gone" \in F4
        BY <3>1 DEF Static
      <4> QED BY <1>1, <2>2, <4>1, Rules
    <3> DEFINE down == << <<"down", "nft">> >>
               ends == << <<"chains", "all">>, <<"mark", "ipt">>, <<"forward", "plan">>,
                          <<"forward", "kill">> >>
    <3>5. plan = (down \o sync) \o ends
      BY <2>2 DEF ApplyIptables
    <3> HIDE DEF F1, F3, F4, F5, F6, F7, sync, plan
    <3>6. Outlined(F4, ends, F7, pol)
      BY <3>3, <3>4, <1>4, <1>5, Quadrupled
    <3>7. Outlined(F1, down \o sync, F4, pol)
      BY <3>2, <1>3, Chained
    <3> HIDE DEF down, ends
    <3> QED BY <3>5, <3>6, <3>7, Chained
  <2> QED BY <2>1, <2>2
<1> DEFINE first == << <<"need", "safe">>, <<"ip", "rules">>, <<"ip", "routes">> >>
           last == << <<"end", "plan">> >>
<1>8. Apply(pol) = (first \o plan) \o last
  BY DEF Apply
<1> HIDE DEF F1, F7, first, last, plan
<1>9. Outlined({}, first \o plan, F7, pol)
  BY <1>2, <1>7, Chained DEF first
<1> QED BY <1>6, <1>8, <1>9, Chained DEF last

LEMMA PassOutline ==
    ASSUME NEW pol
    PROVE  Outlined({}, Pass(pol), {}, pol)
<1> DEFINE F1 == {"closed"}
           F2 == {"closed", "empty"}
           F3 == {"closed", "pass"}
           downs == IF pol.nft THEN << <<"down", "ipt">>, <<"down", "nft">> >>
                    ELSE << <<"down", "nft">>, <<"chains", "pass">> >>
           first == << <<"ip", "clear">> >>
           ends == << <<"out", "pass">>, <<"forward", "pass">>, <<"end", "pass">> >>
<1>1. F1 \in SUBSET Fact /\ F2 \in SUBSET Fact /\ F3 \in SUBSET Fact /\ {} \in SUBSET Fact
  BY DEF Fact
<1>2. Outlined({}, first, F1, pol)
  BY <1>1, Rules
<1>3. F2 \subseteq (F1 \ (Filter \cup {"marks"})) \cup {"empty", "fresh"}
  BY DEF Filter
<1>3a. F2 \subseteq (F2 \ (Filter \cup {"marks"})) \cup {"empty", "fresh"}
  BY DEF Filter
<1>4. \A f \in {F1, F2} : Outlined(f, << <<"down", "nft">> >>, F2, pol)
  <2>1. \A f \in {F1, F2} : F2 \subseteq (f \ (Filter \cup {"marks"} \cup Static)) \cup {"nft_gone", "empty", "fresh"}
    BY DEF Filter, Static
  <2> QED BY <1>1, <2>1, Rules
<1>5. Outlined(F1, << <<"down", "ipt">> >>, F2, pol)
  <2>1. F2 \subseteq (F1 \ (Filter \cup {"marks"})) \cup {"ipt_gone", "empty", "fresh"}
    BY DEF Filter
  <2> QED BY <1>1, <2>1, Rules
<1>6. Outlined(F2, << <<"chains", "pass">> >>, F2, pol)
  BY <1>1, <1>3a, Rules
<1>7. Outlined(F1, downs, F2, pol)
  <2>1. CASE pol.nft
    <3> HIDE DEF F1, F2
    <3>1. Outlined(F1, << <<"down", "ipt">>, <<"down", "nft">> >>, F2, pol)
      BY <1>4, <1>5, Paired
    <3> QED BY <2>1, <3>1
  <2>2. CASE ~pol.nft
    <3> HIDE DEF F1, F2
    <3>1. Outlined(F1, << <<"down", "nft">>, <<"chains", "pass">> >>, F2, pol)
      BY <1>4, <1>6, Paired
    <3> QED BY <2>2, <3>1
  <2> QED BY <2>1, <2>2
<1>8. Outlined(F2, ends, {}, pol)
  <2>1. Outlined(F2, << <<"out", "pass">> >>, F2, pol)
    <3>1. F2 \subseteq F2 \ {"marks", "ipt_gone", "nft_gone"}
      OBVIOUS
    <3> QED BY <1>1, <3>1, Rules
  <2>2. Outlined(F2, << <<"forward", "pass">> >>, F3, pol)
    <3>1. F3 \subseteq (F2 \ (Filter \cup {"empty"})) \cup {"pass"}
      BY DEF Filter
    <3> QED BY <1>1, <3>1, Rules
  <2>3. Outlined(F3, << <<"end", "pass">> >>, {}, pol)
    BY <1>1, Rules
  <2> HIDE DEF F2, F3
  <2> QED BY <2>1, <2>2, <2>3, Tripled
<1>9. Pass(pol) = (first \o downs) \o ends
  BY DEF Pass
<1> HIDE DEF F1, F2, first, downs, ends
<1>10. Outlined({}, first \o downs, F2, pol)
  BY <1>2, <1>7, Chained
<1> QED BY <1>8, <1>9, <1>10, Chained

LEMMA SyncOutline ==
    ASSUME NEW pol
    PROVE  Outlined({}, Sync(pol), {}, pol)
<1>1. CASE ~pol.on
  BY <1>1, PassOutline DEF Sync
<1>2. CASE pol.on
  <2> DEFINE F1 == {"empty", "fresh"}
             F2 == F1 \cup Static
             downs == IF pol.nft THEN << <<"down", "ipt">>, <<"down", "nft">> >>
                      ELSE << <<"down", "nft">> >>
             last == << <<"end", "base">> >>
             sync == SyncSets(pol, FALSE)
  <2>1. F1 \in SUBSET Fact /\ F2 \in SUBSET Fact /\ {} \in SUBSET Fact
    BY DEF Fact, Static
  <2>2. \A f \in {{}, F1} : Outlined(f, << <<"down", "nft">> >>, F1, pol)
    <3>1. \A f \in {{}, F1} : F1 \subseteq (f \ (Filter \cup {"marks"} \cup Static)) \cup {"nft_gone", "empty", "fresh"}
      BY DEF Filter, Static
    <3> QED BY <2>1, <3>1, Rules
  <2>3. Outlined({}, << <<"down", "ipt">> >>, F1, pol)
    <3>1. F1 \subseteq ({} \ (Filter \cup {"marks"})) \cup {"ipt_gone", "empty", "fresh"}
      BY DEF Filter
    <3> QED BY <2>1, <3>1, Rules
  <2>4. Outlined(F1, sync, F2, pol)
    BY <2>1, SyncSetsOutline
  <2>5. Outlined(F2, last, {}, pol)
    BY <2>1, Rules
  <2>6. Sync(pol) = (downs \o sync) \o last
    BY <1>2 DEF Sync
  <2>7. Outlined({}, downs, F1, pol)
    <3>1. CASE pol.nft
      <4> HIDE DEF F1
      <4>1. Outlined({}, << <<"down", "ipt">>, <<"down", "nft">> >>, F1, pol)
        BY <2>2, <2>3, Paired
      <4> QED BY <3>1, <4>1
    <3>2. CASE ~pol.nft
      BY <3>2, <2>2
    <3> QED BY <3>1, <3>2
  <2> HIDE DEF F1, F2, downs, sync, last
  <2>8. Outlined({}, downs \o sync, F2, pol)
    BY <2>4, <2>7, Chained
  <2> QED BY <2>5, <2>6, <2>8, Chained
<1> QED BY <1>1, <1>2

\* The handlers: each is made of plans, passthroughs and sets, which need nothing,
\* and of single steps; only those that begin with the sets need fresh rows.
LEMMA PassOrApplyOutline ==
    ASSUME NEW pol
    PROVE  /\ Outlined({}, << <<"if", "safe">> >> \o Apply(pol), {}, pol)
           /\ Outlined({}, PassOrApply(pol), {}, pol)
<1>1. Outlined({}, << <<"if", "safe">> >>, {}, pol)
  BY PlainStep DEF Plain
<1>2. Outlined({}, << <<"if", "safe">> >> \o Apply(pol), {}, pol)
  BY <1>1, ApplyOutline, Chained
<1> QED BY <1>2, PassOutline DEF PassOrApply

LEMMA SettingsOutline == ASSUME NEW pol PROVE Outlined({}, SettingsSteps(pol), {}, pol)
<1> DEFINE first == << <<"await", "rows">> >>
           dns == << <<"await", "dns">>, <<"dnsmasq", "raise">> >>
           last == IF pol.on THEN << <<"if", "safe">> >> \o Apply(pol) ELSE <<>>
<1>1. Outlined({}, first, {}, pol)
  BY AwaitStep
<1>2. Outlined({}, dns, {}, pol)
  <2>1. Outlined({}, << <<"await", "dns">> >>, {}, pol)
    BY AwaitStep
  <2>2. Outlined({}, << <<"dnsmasq", "raise">> >>, {}, pol)
    BY PlainStep DEF Plain
  <2> QED BY <2>1, <2>2, Paired
<1>3. Outlined({}, last, {}, pol)
  BY PassOrApplyOutline, Nothing
<1>4. SettingsSteps(pol) = ((first \o Sync(pol)) \o dns) \o last
  BY DEF SettingsSteps
<1> HIDE DEF first, dns, last
<1>5. Outlined({}, first \o Sync(pol), {}, pol)
  BY <1>1, SyncOutline, Chained
<1>6. Outlined({}, (first \o Sync(pol)) \o dns, {}, pol)
  BY <1>2, <1>5, Chained
<1> QED BY <1>3, <1>4, <1>6, Chained

LEMMA FreshSets ==
    ASSUME NEW pol, NEW flush \in BOOLEAN
    PROVE  Outlined({"fresh"}, SyncSets(pol, flush), {}, pol)
<1>1. {"fresh"} \in SUBSET Fact
  BY DEF Fact
<1>2. Outlined({"fresh"}, SyncSets(pol, flush), {"fresh"} \cup Static, pol)
  BY <1>1, SyncSetsOutline
<1>3. {"fresh"} \subseteq {"fresh"} /\ {} \subseteq {"fresh"} \cup Static
  OBVIOUS
<1> QED BY <1>2, <1>3, Weakened

LEMMA PolicyOutline == ASSUME NEW pol PROVE Outlined({"fresh"}, PolicySteps(pol), {}, pol)
<1> DEFINE dns == << <<"await", "dns">>, <<"dnsmasq", "raise">> >>
           sync == SyncSets(pol, TRUE)
<1>1. Outlined({"fresh"}, sync, {}, pol)
  BY FreshSets
<1>2. Outlined({}, dns, {}, pol)
  <2>1. Outlined({}, << <<"await", "dns">> >>, {}, pol)
    BY AwaitStep
  <2>2. Outlined({}, << <<"dnsmasq", "raise">> >>, {}, pol)
    BY PlainStep DEF Plain
  <2> QED BY <2>1, <2>2, Paired
<1>3. PolicySteps(pol) = (sync \o dns) \o PassOrApply(pol)
  BY DEF PolicySteps
<1> HIDE DEF dns, sync
<1>4. Outlined({"fresh"}, sync \o dns, {}, pol)
  BY <1>1, <1>2, Chained
<1> QED BY <1>3, <1>4, PassOrApplyOutline, Chained

LEMMA SourceOutline == ASSUME NEW pol PROVE Outlined({"fresh"}, SourceSteps(pol), {}, pol)
<1>1. Outlined({"fresh"}, SyncSets(pol, FALSE), {}, pol)
  BY FreshSets
<1> QED BY <1>1, PassOrApplyOutline, Chained DEF SourceSteps

LEMMA KillOutline == ASSUME NEW pol PROVE Outlined({}, KillSteps(pol), {}, pol)
BY SyncOutline, PassOrApplyOutline, Chained DEF KillSteps

LEMMA OnOutline == ASSUME NEW pol PROVE Outlined({}, OnSteps(pol), {}, pol)
<1> DEFINE first == << <<"await", "rows">> >>
           start == << <<"tunnel", "start">>, <<"if", "safe">> >>
<1>1. Outlined({}, first, {}, pol)
  BY AwaitStep
<1>2. Outlined({}, start, {}, pol)
  <2>1. /\ Outlined({}, << <<"tunnel", "start">> >>, {}, pol)
        /\ Outlined({}, << <<"if", "safe">> >>, {}, pol)
    BY PlainStep DEF Plain
  <2> QED BY <2>1, Paired
<1>3. OnSteps(pol) = ((first \o Sync(pol)) \o start) \o Apply(pol)
  BY DEF OnSteps
<1> HIDE DEF first, start
<1>4. Outlined({}, first \o Sync(pol), {}, pol)
  BY <1>1, SyncOutline, Chained
<1>5. Outlined({}, (first \o Sync(pol)) \o start, {}, pol)
  BY <1>2, <1>4, Chained
<1> QED BY <1>3, <1>5, ApplyOutline, Chained

LEMMA OffOutline == ASSUME NEW pol PROVE Outlined({}, OffSteps(pol), {}, pol)
<1>1. Outlined({}, << <<"await", "rows">> >>, {}, pol)
  BY AwaitStep
<1>2. Outlined({}, << <<"tunnel", "stop">> >>, {}, pol)
  BY PlainStep DEF Plain
<1>3. Outlined({}, << <<"await", "rows">>, <<"tunnel", "stop">> >>, {}, pol)
  BY <1>1, <1>2, Paired
<1> QED BY <1>3, PassOutline, Chained DEF OffSteps

LEMMA StartOutline == ASSUME NEW pol PROVE Outlined({}, StartSteps(pol), {}, pol)
<1> DEFINE first == << <<"tunnel", "start">>, <<"await", "probe">>, <<"if", "running">>,
                       <<"read", "policy">> >>
<1>1. /\ Outlined({}, << <<"tunnel", "start">> >>, {}, pol)
      /\ Outlined({}, << <<"if", "running">> >>, {}, pol)
  BY PlainStep DEF Plain
<1>2. /\ Outlined({}, << <<"await", "probe">> >>, {}, pol)
      /\ Outlined({}, << <<"read", "policy">> >>, {}, pol)
  BY AwaitStep
<1>3. Outlined({}, first, {}, pol)
  BY <1>1, <1>2, Quadrupled
<1>4. StartSteps(pol) = first \o Apply(pol)
  BY DEF StartSteps
<1> HIDE DEF first
<1> QED BY <1>3, <1>4, ApplyOutline, Chained

LEMMA StopOutline == ASSUME NEW pol PROVE Outlined({}, StopSteps(pol), {}, pol)
<1> DEFINE first == << <<"tunnel", "stop">> >>
           last == IF pol.on THEN <<>> ELSE Pass(pol)
<1>1. Outlined({}, first, {}, pol)
  BY PlainStep DEF Plain
<1>2. Outlined({}, last, {}, pol)
  BY PassOutline, Nothing
<1>3. StopSteps(pol) = first \o last
  BY DEF StopSteps
<1> HIDE DEF first, last
<1> QED BY <1>1, <1>2, <1>3, Chained

LEMMA BootOutline == ASSUME NEW pol PROVE Outlined({}, BootSteps(pol), {}, pol)
<1> DEFINE dns == << <<"dnsmasq", "log">> >>
           start == << <<"tunnel", "start">>, <<"if", "running">> >>
           last == IF pol.on THEN start \o Apply(pol) ELSE OffSteps(pol)
<1>1. Outlined({}, dns, {}, pol)
  BY PlainStep DEF Plain
<1>2. Outlined({}, start, {}, pol)
  <2>1. /\ Outlined({}, << <<"tunnel", "start">> >>, {}, pol)
        /\ Outlined({}, << <<"if", "running">> >>, {}, pol)
    BY PlainStep DEF Plain
  <2> QED BY <2>1, Paired
<1>3. Outlined({}, last, {}, pol)
  <2> HIDE DEF start
  <2>1. Outlined({}, start \o Apply(pol), {}, pol)
    BY <1>2, ApplyOutline, Chained
  <2> QED BY <2>1, OffOutline
<1>4. BootSteps(pol) = (Sync(pol) \o dns) \o last
  BY DEF BootSteps
<1> HIDE DEF dns, last
<1>5. Outlined({}, Sync(pol) \o dns, {}, pol)
  BY <1>1, SyncOutline, Chained
<1> QED BY <1>3, <1>4, <1>5, Chained

LEMMA ShutdownOutline ==
    ASSUME NEW pol PROVE Outlined({}, ShutdownSteps(pol) \o BootSteps(pol), {}, pol)
BY OffOutline, BootOutline, Chained DEF ShutdownSteps

---------------------------------------------------------------------------
(* What each command does to the facts                                      *)

LEMMA EmptiedChains ==
    ASSUME NEW k, KernelShape(k), NEW names
    PROVE  LET e == EmptyChains(k, names) IN
           /\ KernelShape(e) /\ e.rules = k.rules /\ e.vpn = k.vpn /\ e.set = k.set
           /\ \A c \in Chain : e.chain[c] = IF c \in names THEN <<>> ELSE k.chain[c]
<1> DEFINE e == EmptyChains(k, names)
           ch == [c \in Chain |-> IF c \in names THEN <<>> ELSE k.chain[c]]
<1>1. e = [rules |-> k.rules, vpn |-> k.vpn, chain |-> ch, set |-> k.set]
  BY DEF EmptyChains, KernelShape
<1> QED BY <1>1 DEF KernelShape

LEMMA ChangedChain ==
    ASSUME NEW k, KernelShape(k), NEW c \in Chain, NEW rules, NEW e,
           e = [k EXCEPT !.chain[c] = rules]
    PROVE  /\ KernelShape(e) /\ e.rules = k.rules /\ e.vpn = k.vpn /\ e.set = k.set
           /\ e.chain[c] = rules /\ \A b \in Chain \ {c} : e.chain[b] = k.chain[b]
<1> DEFINE ch == [k.chain EXCEPT ![c] = rules]
<1>1. e = [rules |-> k.rules, vpn |-> k.vpn, chain |-> ch, set |-> k.set]
  BY DEF KernelShape
<1>2. ch = [b \in Chain |-> IF b = c THEN rules ELSE k.chain[b]]
  BY DEF KernelShape
<1> QED BY <1>1, <1>2 DEF KernelShape

LEMMA ContentType == \A s, pol : Content(s, pol) \in SUBSET To
BY DEF Content, To

\* A flush or a fill touches one set of the stack that the rows choose.
LEMMA SetEffect ==
    ASSUME NEW s \in SetName, NEW op, op \in {<<"flush", s>>, <<"fill", s>>},
           NEW k, KernelShape(k), NEW row \in Policy, NEW e, e = Commanded(k, op, row)
    PROVE  /\ KernelShape(e) /\ e.rules = k.rules /\ e.vpn = k.vpn /\ e.chain = k.chain
           /\ op = <<"fill", s>> => e.set[Stack(row)][s] = Content(s, row)
           /\ \A t \in SetName \ {s} : e.set[Stack(row)][t] = k.set[Stack(row)][t]
<1> DEFINE st == Stack(row)
           co == IF op = <<"fill", s>> THEN Content(s, row) ELSE {}
           sets == [k.set EXCEPT ![st][s] = co]
<1>1. st \in {"ipt", "nft"} /\ co \in SUBSET To
  BY ContentType DEF Stack
<1>2. e = [k EXCEPT !.set[st][s] = co]
  <2>1. CASE op = <<"flush", s>>
    <3>1. op[1] = "flush" /\ op[2] = s /\ co = {}
      BY <2>1
    <3>2. Commanded(k, op, row) = [k EXCEPT !.set[Stack(row)][op[2]] = {}]
      BY <3>1 DEF Commanded
    <3> QED BY <3>1, <3>2
  <2>2. CASE op = <<"fill", s>>
    <3>1. op[1] = "fill" /\ op[2] = s /\ co = Content(s, row)
      BY <2>2
    <3>2. Commanded(k, op, row) = [k EXCEPT !.set[Stack(row)][op[2]] = Content(op[2], row)]
      BY <3>1 DEF Commanded
    <3> QED BY <3>1, <3>2
  <2> QED BY <2>1, <2>2
<1> HIDE DEF st, co
<1>3. e = [rules |-> k.rules, vpn |-> k.vpn, chain |-> k.chain, set |-> sets]
  BY <1>2 DEF KernelShape
<1>4. /\ sets \in [{"ipt", "nft"} -> [SetName -> SUBSET To]] /\ sets[st][s] = co
      /\ \A t \in SetName \ {s} : sets[st][t] = k.set[st][t]
  BY <1>1 DEF KernelShape
<1> HIDE DEF sets
<1>5. /\ KernelShape(e) /\ e.rules = k.rules /\ e.vpn = k.vpn /\ e.chain = k.chain /\ e.set = sets
  BY <1>3, <1>4 DEF KernelShape
<1> QED BY <1>4, <1>5 DEF st, co

(* A command keeps the facts that it does not destroy and brings about the  *)
(* ones that it gains, when the facts that it needs are known.              *)
LEMMA Effect ==
    ASSUME NEW op \in Op, op[1] \in Commands, NEW k, KernelShape(k),
           NEW pol \in Policy, NEW sav \in Policy, NEW dn, NEW pre \in SUBSET Fact,
           Needs(op, pol) \subseteq pre, \A f \in pre : Holds(f, k, pol, sav, dn),
           NEW e, e = Commanded(k, op, RowOf(pol, sav)), NEW d,
           d = IF op[1] \in {"flush", "fill"} THEN dn ELSE "busy"
    PROVE  /\ KernelShape(e)
           /\ \A f \in After(pre, op, pol) : Holds(f, e, pol, sav, d)
<1> DEFINE row == RowOf(pol, sav)
<1>1. /\ row.nft = pol.nft /\ row.kill = pol.kill /\ row.sources = pol.sources
      /\ row.domains = pol.domains /\ pol.nft \in BOOLEAN
  BY DEF RowOf, Policy
<1>2. Stack(row) = Stack(pol) /\ \A s : Content(s, row) = Content(s, pol)
  BY <1>1 DEF Stack, Content, Fqdn
<1>3. KillRules(row) = KillRules(pol)
  BY <1>1 DEF KillRules
<1>0. e = Commanded(k, op, row)
  OBVIOUS
<1> HIDE DEF row
<1>4. CASE op = <<"ip", "rules">>
  <2>1. KernelShape(e) /\ e.rules = TRUE /\ e.chain = k.chain /\ e.set = k.set
    BY <1>4 DEF Commanded, IpSteps, KernelShape
  <2>2. d = "busy"
    BY <1>4
  <2>3. After(pre, op, pol) = (pre \ {"closed"}) \cup {"rules", "fresh"}
    BY <1>4, <1>1 DEF After, Loses, Gains
  <2>4. ASSUME NEW f \in After(pre, op, pol) PROVE Holds(f, e, pol, sav, d)
    BY <2>2, <2>3, <2>1 DEF Holds, Marked, Fact, Static
  <2> QED BY <2>1, <2>4
<1>5. CASE op = <<"ip", "routes">>
  <2>1. KernelShape(e) /\ e.rules = k.rules /\ e.chain = k.chain /\ e.set = k.set
    BY <1>5 DEF Commanded, IpSteps, KernelShape
  <2>2. d = "busy"
    BY <1>5
  <2>3. After(pre, op, pol) = (pre \ {}) \cup {}
    BY <1>5, <1>1 DEF After, Loses, Gains
  <2>4. ASSUME NEW f \in After(pre, op, pol) PROVE Holds(f, e, pol, sav, d)
    BY <2>2, <2>3, <2>1 DEF Holds, Marked, Fact, Static
  <2> QED BY <2>1, <2>4
<1>6. CASE op = <<"ip", "clear">>
  <2>1. KernelShape(e) /\ e.rules = FALSE /\ e.chain = k.chain /\ e.set = k.set
    BY <1>6 DEF Commanded, IpSteps, KernelShape
  <2>2. d = "busy"
    BY <1>6
  <2>3. After(pre, op, pol) = (pre \ {"rules"}) \cup {"closed", "fresh"}
    BY <1>6, <1>1 DEF After, Loses, Gains
  <2>4. ASSUME NEW f \in After(pre, op, pol) PROVE Holds(f, e, pol, sav, d)
    BY <2>2, <2>3, <2>1 DEF Holds, Marked, Fact, Static
  <2> QED BY <2>1, <2>4
<1>7. CASE op = <<"down", "ipt">>
  <2>1. e = EmptyChains(k, {"pre", "out", "forward"})
    BY <1>7 DEF Commanded, Down
  <2>2. KernelShape(e) /\ e.rules = k.rules /\ e.set = k.set
    BY <2>1, EmptiedChains
  <2>3. /\ e.chain["pre"] = <<>> /\ e.chain["out"] = <<>> /\ e.chain["forward"] = <<>>
        /\ e.chain["nftpre"] = k.chain["nftpre"] /\ e.chain["nftout"] = k.chain["nftout"]
    BY <2>1, EmptiedChains DEF Chain
  <2>4. d = "busy"
    BY <1>7
  <2>5. After(pre, op, pol) = (pre \ (Filter \cup (IF pol.nft THEN {} ELSE {"marks"}))) \cup {"ipt_gone", "empty", "fresh"}
    BY <1>7, <1>1 DEF After, Loses, Gains
  <2>6. ASSUME NEW f \in After(pre, op, pol) PROVE Holds(f, e, pol, sav, d)
    BY <2>4, <2>5, <2>2, <2>3, <1>1 DEF Holds, Marked, Filter, Fact, Static, row
  <2> QED BY <2>2, <2>3, <2>6
<1>8. CASE op = <<"down", "nft">>
  <2> DEFINE c == EmptyChains(k, {"nftpre", "nftout", "forward"})
  <2>1. e = [c EXCEPT !.set.nft = NoSets]
    BY <1>8 DEF Commanded, Down
  <2>2. KernelShape(c) /\ c.rules = k.rules /\ c.set = k.set
    BY EmptiedChains
  <2>3. /\ c.chain["nftpre"] = <<>> /\ c.chain["nftout"] = <<>> /\ c.chain["forward"] = <<>>
        /\ c.chain["pre"] = k.chain["pre"] /\ c.chain["out"] = k.chain["out"]
    BY EmptiedChains DEF Chain
  <2> HIDE DEF c
  <2> DEFINE st == [c.set EXCEPT !["nft"] = NoSets]
  <2>3a. e = [rules |-> c.rules, vpn |-> c.vpn, chain |-> c.chain, set |-> st]
    BY <2>1, <2>2 DEF KernelShape
  <2>3b. NoSets \in [SetName -> SUBSET To]
    BY DEF NoSets
  <2>3c. st \in [{"ipt", "nft"} -> [SetName -> SUBSET To]] /\ st["ipt"] = k.set["ipt"]
    BY <2>2, <2>3b DEF KernelShape
  <2> HIDE DEF st
  <2>4. /\ KernelShape(e) /\ e.rules = k.rules /\ e.chain = c.chain
        /\ e.set["ipt"] = k.set["ipt"]
    BY <2>2, <2>3a, <2>3c DEF KernelShape
  <2>5. d = "busy"
    BY <1>8
  <2>6. After(pre, op, pol) = (pre \ (Filter \cup (IF pol.nft THEN {"marks"} \cup Static ELSE {}))) \cup {"nft_gone", "empty", "fresh"}
    BY <1>8, <1>1 DEF After, Loses, Gains
  <2>7. ASSUME NEW f \in After(pre, op, pol) PROVE Holds(f, e, pol, sav, d)
    BY <2>5, <2>6, <2>3, <2>4, <1>1 DEF Holds, Marked, Filter, Fact, Static, Stack, row
  <2> QED BY <2>3, <2>4, <2>7
<1>9. CASE op = <<"chains", "all">>
  <2>1. e = EmptyChains(k, {"pre", "out", "forward"})
    BY <1>9 DEF Commanded, Chains
  <2>2. KernelShape(e) /\ e.rules = k.rules /\ e.set = k.set
    BY <2>1, EmptiedChains
  <2>3. /\ e.chain["pre"] \in {<<>>, k.chain["pre"]} /\ e.chain["out"] = <<>> /\ e.chain["forward"] = <<>>
        /\ e.chain["nftpre"] = k.chain["nftpre"] /\ e.chain["nftout"] = k.chain["nftout"]
    BY <2>1, EmptiedChains DEF Chain
  <2>4. d = "busy"
    BY <1>9
  <2>5. After(pre, op, pol) = (pre \ (Filter \cup (IF pol.nft THEN {} ELSE {"marks"}))) \cup {"empty", "fresh"}
    BY <1>9, <1>1 DEF After, Loses, Gains
  <2>6. ASSUME NEW f \in After(pre, op, pol) PROVE Holds(f, e, pol, sav, d)
    BY <2>4, <2>5, <2>2, <2>3, <1>1 DEF Holds, Marked, Filter, Fact, Static, row
  <2> QED BY <2>2, <2>3, <2>6
<1>10. CASE op = <<"chains", "pass">>
  <2>1. e = EmptyChains(k, {"out", "forward"})
    BY <1>10 DEF Commanded, Chains
  <2>2. KernelShape(e) /\ e.rules = k.rules /\ e.set = k.set
    BY <2>1, EmptiedChains
  <2>3. /\ e.chain["pre"] \in {<<>>, k.chain["pre"]} /\ e.chain["out"] = <<>> /\ e.chain["forward"] = <<>>
        /\ e.chain["nftpre"] = k.chain["nftpre"] /\ e.chain["nftout"] = k.chain["nftout"]
    BY <2>1, EmptiedChains DEF Chain
  <2>4. d = "busy"
    BY <1>10
  <2>5. After(pre, op, pol) = (pre \ (Filter \cup (IF pol.nft THEN {} ELSE {"marks"}))) \cup {"empty", "fresh"}
    BY <1>10, <1>1 DEF After, Loses, Gains
  <2>6. ASSUME NEW f \in After(pre, op, pol) PROVE Holds(f, e, pol, sav, d)
    BY <2>4, <2>5, <2>2, <2>3, <1>1 DEF Holds, Marked, Filter, Fact, Static, row
  <2> QED BY <2>2, <2>3, <2>6
<1>11. CASE op = <<"mark", "ipt">>
  <2> DEFINE c == [k EXCEPT !.chain["pre"] = MarkRules(row)]
  <2>1. e = [c EXCEPT !.chain["out"] = OutputRules(row)]
    BY <1>11 DEF Commanded, Marks, KernelShape, Chain, row
  <2>2. /\ KernelShape(c) /\ c.rules = k.rules /\ c.set = k.set /\ c.chain["pre"] = MarkRules(row)
        /\ \A b \in Chain \ {"pre"} : c.chain[b] = k.chain[b]
    BY ChangedChain DEF Chain
  <2> HIDE DEF c
  <2>3. /\ KernelShape(e) /\ e.rules = c.rules /\ e.set = c.set /\ e.chain["out"] = OutputRules(row)
        /\ \A b \in Chain \ {"out"} : e.chain[b] = c.chain[b]
    <3>1. "out" \in Chain
      BY DEF Chain
    <3> QED BY <2>1, <2>2, <3>1, ChangedChain
  <2>3a. /\ e.chain["pre"] = MarkRules(row) /\ e.chain["nftpre"] = k.chain["nftpre"]
         /\ e.chain["nftout"] = k.chain["nftout"]
         /\ e.chain["forward"] = k.chain["forward"]
    BY <2>2, <2>3 DEF Chain
  <2>4. d = "busy"
    BY <1>11
  <2>5. After(pre, op, pol) = (pre \ {"ipt_gone"}) \cup (IF pol.nft THEN {} ELSE {"marks", "fresh"})
    BY <1>11, <1>1 DEF After, Loses, Gains, Stack
  <2>6. ASSUME NEW f \in After(pre, op, pol) PROVE Holds(f, e, pol, sav, d)
    <3>1. e.rules = k.rules /\ e.set = k.set
      BY <2>2, <2>3
    <3>2. CASE f = "marks"
      BY <3>1, <3>2, <2>3, <2>3a, <2>5, <1>1 DEF Holds, Marked, Static, row
    <3>3. CASE f # "marks"
      BY <3>1, <3>3, <2>3a, <2>4, <2>5 DEF Holds, Fact, Static
    <3> QED BY <3>2, <3>3
  <2> QED BY <2>2, <2>3, <2>6
<1>12. CASE op = <<"mark", "nft">>
  <2> DEFINE c == [k EXCEPT !.chain["nftpre"] = MarkRulesNft(row)]
  <2>1. e = [c EXCEPT !.chain["nftout"] = OutputRulesNft(row)]
    BY <1>12 DEF Commanded, Marks, KernelShape, Chain, row
  <2>2. /\ KernelShape(c) /\ c.rules = k.rules /\ c.set = k.set /\ c.chain["nftpre"] = MarkRulesNft(row)
        /\ \A b \in Chain \ {"nftpre"} : c.chain[b] = k.chain[b]
    BY ChangedChain DEF Chain
  <2> HIDE DEF c
  <2>3. /\ KernelShape(e) /\ e.rules = c.rules /\ e.set = c.set /\ e.chain["nftout"] = OutputRulesNft(row)
        /\ \A b \in Chain \ {"nftout"} : e.chain[b] = c.chain[b]
    <3>1. "nftout" \in Chain
      BY DEF Chain
    <3> QED BY SMTT(30), <2>1, <2>2, <3>1, ChangedChain
  <2>3a. /\ e.chain["nftpre"] = MarkRulesNft(row) /\ e.chain["pre"] = k.chain["pre"]
         /\ e.chain["out"] = k.chain["out"]
         /\ e.chain["forward"] = k.chain["forward"]
    BY <2>2, <2>3 DEF Chain
  <2>4. d = "busy"
    BY <1>12
  <2>5. After(pre, op, pol) = (pre \ {"nft_gone"}) \cup (IF pol.nft THEN {"marks", "fresh"} ELSE {})
    BY <1>12, <1>1 DEF After, Loses, Gains, Stack
  <2>6. ASSUME NEW f \in After(pre, op, pol) PROVE Holds(f, e, pol, sav, d)
    BY ZenonT(40), <2>4, <2>5, <2>2, <2>3, <1>1, <2>3a DEF Holds, Marked, Fact, Static, row
  <2> QED BY <2>2, <2>3, <2>6
<1>13. CASE op = <<"forward", "plan">>
  <2>1. k.chain["forward"] = <<>>
    BY <1>13 DEF Needs, Holds, Static
  <2>2. e = [k EXCEPT !.chain["forward"] = @ \o ForwardRules]
    BY <1>13 DEF Commanded, Forward, row
  <2>3. k.chain["forward"] \o ForwardRules = ForwardRules
    BY <2>1, <1>3 DEF ForwardRules, PassForward
  <2>4. e = [k EXCEPT !.chain["forward"] = ForwardRules]
    BY <2>2, <2>3
  <2>5. /\ KernelShape(e) /\ e.rules = k.rules /\ e.set = k.set
        /\ e.chain["forward"] = ForwardRules
        /\ \A b \in Chain \ {"forward"} : e.chain[b] = k.chain[b]
    BY SMTT(30), <2>4, ChangedChain DEF Chain
  <2>6. d = "busy"
    BY <1>13
  <2>7. After(pre, op, pol) = (pre \ (Filter \cup {"empty"})) \cup {"half", "fresh"}
    BY <1>13, <1>1 DEF After, Loses, Gains
  <2>8. ASSUME NEW f \in After(pre, op, pol) PROVE Holds(f, e, pol, sav, d)
    BY ZenonT(40), <2>6, <2>7, <2>5, <1>1 DEF Holds, Marked, Filter, Fact, Static, Chain, row
  <2> QED BY <2>5, <2>8
<1>14. CASE op = <<"forward", "kill">>
  <2>1. k.chain["forward"] = ForwardRules
    BY <1>14 DEF Needs, Holds, Static
  <2>2. e = [k EXCEPT !.chain["forward"] = @ \o KillRules(row)]
    BY <1>14 DEF Commanded, Forward, row
  <2>3. k.chain["forward"] \o KillRules(row) = ForwardRules \o KillRules(pol)
    BY <2>1, <1>3 DEF ForwardRules, PassForward
  <2>4. e = [k EXCEPT !.chain["forward"] = ForwardRules \o KillRules(pol)]
    BY <2>2, <2>3
  <2>5. /\ KernelShape(e) /\ e.rules = k.rules /\ e.set = k.set
        /\ e.chain["forward"] = ForwardRules \o KillRules(pol)
        /\ \A b \in Chain \ {"forward"} : e.chain[b] = k.chain[b]
    <3> DEFINE all == ForwardRules \o KillRules(pol)
    <3>1. e = [k EXCEPT !.chain["forward"] = all]
      BY <2>4
    <3> DEFINE ch == [k.chain EXCEPT !["forward"] = all]
    <3> HIDE DEF all
    <3>2. e = [rules |-> k.rules, vpn |-> k.vpn, chain |-> ch, set |-> k.set]
      BY <3>1 DEF KernelShape
    <3>3. ch = [b \in Chain |-> IF b = "forward" THEN all ELSE k.chain[b]]
      BY DEF KernelShape
    <3> HIDE DEF ch
    <3> QED BY <3>2, <3>3 DEF KernelShape, Chain, all
  <2>6. d = "busy"
    BY <1>14
  <2>7. After(pre, op, pol) = (pre \ (Filter \cup {"empty"})) \cup {"whole", "fresh"}
    BY <1>14, <1>1 DEF After, Loses, Gains
  <2>8. ASSUME NEW f \in After(pre, op, pol) PROVE Holds(f, e, pol, sav, d)
    BY ZenonT(40), <2>6, <2>7, <2>5, <1>1 DEF Holds, Marked, Filter, Fact, Static, Chain, row
  <2> QED BY <2>5, <2>8
<1>15. CASE op = <<"forward", "pass">>
  <2>1. k.chain["forward"] = <<>>
    BY <1>15 DEF Needs, Holds, Static
  <2>2. e = [k EXCEPT !.chain["forward"] = @ \o PassForward]
    BY <1>15 DEF Commanded, Forward, row
  <2>3. k.chain["forward"] \o PassForward = PassForward
    BY <2>1, <1>3 DEF ForwardRules, PassForward
  <2>4. e = [k EXCEPT !.chain["forward"] = PassForward]
    BY <2>2, <2>3
  <2>5. /\ KernelShape(e) /\ e.rules = k.rules /\ e.set = k.set
        /\ e.chain["forward"] = PassForward
        /\ \A b \in Chain \ {"forward"} : e.chain[b] = k.chain[b]
    BY SMTT(30), <2>4, ChangedChain DEF Chain
  <2>6. d = "busy"
    BY <1>15
  <2>7. After(pre, op, pol) = (pre \ (Filter \cup {"empty"})) \cup {"pass", "fresh"}
    BY <1>15, <1>1 DEF After, Loses, Gains
  <2>8. ASSUME NEW f \in After(pre, op, pol) PROVE Holds(f, e, pol, sav, d)
    BY ZenonT(40), <2>6, <2>7, <2>5, <1>1 DEF Holds, Marked, Filter, Fact, Static, Chain, row
  <2> QED BY <2>5, <2>8
<1>16. CASE op = <<"out", "pass">>
  <2>1. e = [k EXCEPT !.chain[OutputChain(row)] = PassOutput(row)]
    BY <1>16 DEF Commanded, row
  <2>2. OutputChain(row) = (IF pol.nft THEN "nftout" ELSE "out") /\ OutputChain(row) \in Chain
    BY <1>1 DEF OutputChain, Chain
  <2>3. /\ KernelShape(e) /\ e.rules = k.rules /\ e.set = k.set
        /\ \A b \in Chain \ {OutputChain(row)} : e.chain[b] = k.chain[b]
    BY <2>1, <2>2, ChangedChain
  <2>3a. /\ e.chain["pre"] = k.chain["pre"] /\ e.chain["nftpre"] = k.chain["nftpre"]
         /\ e.chain["forward"] = k.chain["forward"]
         /\ pol.nft => e.chain["out"] = k.chain["out"]
         /\ ~pol.nft => e.chain["nftout"] = k.chain["nftout"]
    BY <2>2, <2>3 DEF Chain
  <2>4. d = "busy"
    BY <1>16
  <2>5. After(pre, op, pol) = (pre \ {"marks", Built(pol)}) \cup {}
    BY <1>16, <1>1 DEF After, Loses, Gains
  <2>6. ASSUME NEW f \in After(pre, op, pol) PROVE Holds(f, e, pol, sav, d)
    BY ZenonT(40), <2>4, <2>5, <2>2, <2>3, <1>1, <2>3a DEF Holds, Fact, Static, Built
  <2> QED BY <2>2, <2>3, <2>6
<1>17. CASE \E s \in SetName : op = <<"flush", s>>
  <2>1. PICK s \in SetName : op = <<"flush", s>>
    BY <1>17
  <2>2. row \in Policy
    BY DEF row, RowOf, Policy
  <2>3. /\ KernelShape(e) /\ e.rules = k.rules /\ e.chain = k.chain
        /\ op = <<"fill", s>> => e.set[Stack(pol)][s] = Content(s, pol)
        /\ \A t \in SetName \ {s} : e.set[Stack(pol)][t] = k.set[Stack(pol)][t]
    <3>1. op \in {<<"flush", s>>, <<"fill", s>>}
      BY <2>1
    <3>2. /\ KernelShape(e) /\ e.rules = k.rules /\ e.chain = k.chain
          /\ op = <<"fill", s>> => e.set[Stack(row)][s] = Content(s, row)
          /\ \A t \in SetName \ {s} : e.set[Stack(row)][t] = k.set[Stack(row)][t]
      BY <3>1, <2>2, <1>0, SetEffect
    <3> QED BY <3>2, <1>2
  <2>4. d = dn
    BY <2>1
  <2>5. After(pre, op, pol) = pre \ {s}
    BY <2>1 DEF After, Loses, Gains
  <2>6. ASSUME NEW f \in After(pre, op, pol) PROVE Holds(f, e, pol, sav, d)
    <3>1. f \in pre \/ f = s
      BY <2>5
    <3>2. CASE f = s /\ f \in Static
      BY <2>1, <2>3, <2>5, <3>2 DEF Holds, Static
    <3>3. CASE f # s /\ f \in Static
      BY <2>3, <3>1, <3>3 DEF Holds, Static, SetName
    <3>4. CASE f \notin Static
      BY ZenonT(40), <2>3, <2>4, <2>5, <3>4 DEF Holds, Marked, Fact, Static
    <3> QED BY <3>2, <3>3, <3>4
  <2> QED BY <2>3, <2>6
<1>18. CASE \E s \in SetName : op = <<"fill", s>>
  <2>1. PICK s \in SetName : op = <<"fill", s>>
    BY <1>18
  <2>2. row \in Policy
    BY DEF row, RowOf, Policy
  <2>3. /\ KernelShape(e) /\ e.rules = k.rules /\ e.chain = k.chain
        /\ op = <<"fill", s>> => e.set[Stack(pol)][s] = Content(s, pol)
        /\ \A t \in SetName \ {s} : e.set[Stack(pol)][t] = k.set[Stack(pol)][t]
    <3>1. op \in {<<"flush", s>>, <<"fill", s>>}
      BY <2>1
    <3>2. /\ KernelShape(e) /\ e.rules = k.rules /\ e.chain = k.chain
          /\ op = <<"fill", s>> => e.set[Stack(row)][s] = Content(s, row)
          /\ \A t \in SetName \ {s} : e.set[Stack(row)][t] = k.set[Stack(row)][t]
      BY <3>1, <2>2, <1>0, SetEffect
    <3> QED BY <3>2, <1>2
  <2>4. d = dn
    BY <2>1
  <2>5. After(pre, op, pol) = pre \cup ({s} \cap Static)
    BY <2>1 DEF After, Loses, Gains
  <2>6. ASSUME NEW f \in After(pre, op, pol) PROVE Holds(f, e, pol, sav, d)
    <3>1. f \in pre \/ f = s
      BY <2>5
    <3>2. CASE f = s /\ f \in Static
      BY <2>1, <2>3, <2>5, <3>2 DEF Holds, Static
    <3>3. CASE f # s /\ f \in Static
      BY <2>3, <3>1, <3>3 DEF Holds, Static, SetName
    <3>4. CASE f \notin Static
      BY ZenonT(40), <2>3, <2>4, <2>5, <3>4 DEF Holds, Marked, Fact, Static
    <3> QED BY <3>2, <3>3, <3>4
  <2> QED BY <2>3, <2>6
<1> QED BY <1>4, <1>5, <1>6, <1>7, <1>8, <1>9, <1>10, <1>11, <1>12, <1>13, <1>14, <1>15, <1>16, <1>17, <1>18 DEF Op, Commands, Static, SetName

---------------------------------------------------------------------------
(* Steps of a handler                                                       *)

NextKnown(w) == {f \in Fact : turn' = w /\ Holds(f, kernel', work'[w].pol, saved', done')}

LEMMA AnyRowType == Policies # {} => AnyRow \in Policy
BY ConstantsAssumption DEF AnyRow

\* The others know nothing while a handler has the loop; it needs an outline from
\* what it then knows.
LEMMA OutlinesGoOn ==
    ASSUME Policies # {}, Shaped, Outlines, NEW r \in Worker, turn \in {r, "nobody"},
           NEW todo \in Seq(Op), NEW row \in Policy, GoOn(r, todo, row),
           NEW known, known \subseteq {f \in Fact : Holds(f, kernel', row, saved', done')},
           IF Head1(r)[1] = "await" THEN Outlined({}, todo, {}, row)
                                    ELSE Outlined(known, todo, {}, row)
    PROVE  /\ work' \in [Worker -> [todo: Seq(Op), pol: Policy]]
           /\ \A w \in Worker : Outlined(NextKnown(w), work'[w].todo, {}, work'[w].pol)
<1> DEFINE new == [todo |-> todo, pol |-> IF todo = <<>> THEN AnyRow ELSE row]
<1>1. work' = [work EXCEPT ![r] = new] /\ new \in [todo: Seq(Op), pol: Policy]
  BY AnyRowType DEF GoOn, Worked
<1>2. /\ work' \in [Worker -> [todo: Seq(Op), pol: Policy]] /\ work'[r] = new
      /\ \A w \in Worker \ {r} : work'[w] = work[w]
  BY <1>1 DEF Shaped
<1>3. turn' \in {r, "nobody"}
  BY DEF GoOn
<1>4. ASSUME NEW w \in Worker \ {r}
      PROVE  Outlined(NextKnown(w), work'[w].todo, {}, work'[w].pol)
  <2>1. w # "nobody"
    BY ConstantsAssumption DEF Worker
  <2>2. Known(w) = {} /\ {} \subseteq NextKnown(w)
    BY <2>1 DEF Known
  <2>3. Outlined({}, work[w].todo, {}, work[w].pol)
    BY <2>2 DEF Outlines
  <2> QED BY <2>2, <2>3, <1>2, Weakened
<1>5. Outlined(NextKnown(r), new.todo, {}, new.pol)
  <2>1. CASE todo = <<>>
    BY <2>1, Nothing
  <2>2. CASE todo # <<>> /\ Head1(r)[1] = "await"
    <3>1. Outlined({}, todo, {}, row)
      BY <2>2
    <3>2. new.todo = todo /\ new.pol = row
      BY <2>2
    <3> QED BY <3>1, <3>2, Weakened
  <2>3. CASE todo # <<>> /\ Head1(r)[1] # "await"
    <3>1. Outlined(known, todo, {}, row) /\ turn' = r
      BY <2>3 DEF GoOn
    <3>2. new.todo = todo /\ new.pol = row
      BY <2>3
    <3>3. known \subseteq NextKnown(r)
      BY <3>1, <3>2, <1>2 DEF NextKnown
    <3> QED BY <3>1, <3>2, <3>3, Weakened
  <2> QED BY <2>1, <2>2, <2>3
<1> HIDE DEF new
<1> QED BY <1>2, <1>4, <1>5

\* When a handler goes on to its next command, the facts that the command leaves
\* have to hold.
LEMMA OutlinesNext ==
    ASSUME Policies # {}, Shaped, Outlines, NEW r \in Worker, HasTurn(r), Next1(r),
           Head1(r)[1] # "await" =>
              \A f \in After(Known(r), Head1(r), work[r].pol) :
                  Holds(f, kernel', work[r].pol, saved', done')
    PROVE  /\ work' \in [Worker -> [todo: Seq(Op), pol: Policy]]
           /\ \A w \in Worker : Outlined(NextKnown(w), work'[w].todo, {}, work'[w].pol)
<1> DEFINE q == work[r].todo
           pol == work[r].pol
           known == After(Known(r), Head(q), pol)
<1>1. /\ q # <<>> /\ Outlined(Known(r), q, {}, pol) /\ turn \in {r, "nobody"}
      /\ GoOn(r, Tail(q), pol) /\ Head1(r) = Head(q)
  BY DEF HasTurn, Idle, Next1, Outlines, Head1
<1>2. pol \in Policy /\ Known(r) \in SUBSET Fact
  BY DEF Shaped, Known
<1> HIDE DEF q, pol, known
<1>3. Head(q) \in Op /\ Outlined(known, Tail(q), {}, pol)
  BY <1>1, Unchained DEF known
<1>4. Tail(q) \in Seq(Op) /\ known \in SUBSET Fact
  BY <1>2, <1>3, AfterFacts DEF Outlined, known
<1>5. CASE Head1(r)[1] = "await"
  <2>1. known = {}
    <3>1. Head(q)[1] = "await"
      BY <1>1, <1>5
    <3>2. Gains(Head(q), pol) = {} /\ Loses(Head(q), pol) = Fact
      <4>1. Gains(Head(q), pol) = {}
        BY <3>1, NeedsNothing
      <4>2. Loses(Head(q), pol) = Fact
        BY <3>1, LosesAll
      <4> QED BY <4>1, <4>2
    <3> QED BY <1>2, <3>2 DEF known, After
  <2>2. {} \subseteq {f \in Fact : Holds(f, kernel', pol, saved', done')}
    OBVIOUS
  <2> QED BY <1>1, <1>2, <1>3, <1>4, <1>5, <2>1, <2>2, OutlinesGoOn
<1>6. CASE Head1(r)[1] # "await"
  <2>1. known \subseteq {f \in Fact : Holds(f, kernel', pol, saved', done')}
    BY <1>1, <1>4, <1>6 DEF known, q, pol
  <2> QED BY <1>1, <1>2, <1>3, <1>4, <1>6, <2>1, OutlinesGoOn
<1> QED BY <1>5, <1>6

\* What a handler knows holds, and its next command has what it needs.
LEMMA HeadNeeds ==
    ASSUME Shaped, Outlines, NEW r \in Worker, HasTurn(r)
    PROVE  /\ Head1(r) \in Op /\ work[r].pol \in Policy /\ Known(r) \in SUBSET Fact
           /\ Needs(Head1(r), work[r].pol) \subseteq Known(r)
           /\ \A f \in Known(r) : turn = r /\ Holds(f, kernel, work[r].pol, saved, done)
           /\ Head1(r)[1] = "flush" /\ Head1(r)[2] # "fqdn" =>
                /\ work[r].pol.nft
                /\ Tail(work[r].todo) # <<>> /\ Head(Tail(work[r].todo)) = <<"fill", Head1(r)[2]>>
<1>1. work[r].todo # <<>> /\ Outlined(Known(r), work[r].todo, {}, work[r].pol)
  BY DEF HasTurn, Idle, Outlines
<1>2. Known(r) \in SUBSET Fact /\ work[r].pol \in Policy
  BY DEF Known, Shaped
<1>3. \A f \in Known(r) : turn = r /\ Holds(f, kernel, work[r].pol, saved, done)
  BY DEF Known
<1> QED BY <1>1, <1>2, <1>3, Unchained DEF Head1

\* A plan is in force whole unless the handler with the loop is about to fill.
LEMMA Settled ==
    ASSUME Planned, done = "plan", turn \notin Worker \/ Head1(turn)[1] # "fill"
    PROVE  \A s \in Static : kernel.set[Stack(PlanRows)][s] = Content(s, PlanRows)
BY DEF Planned, Head1

LEMMA OutlinesLater ==
    ASSUME \A w \in Worker : Outlined(NextKnown(w), work'[w].todo, {}, work'[w].pol)
    PROVE  Outlines'
BY DEF Outlines, Known, NextKnown

\* A step that leaves the rules, the chains and the contents of the sets alone
LEMMA Carried ==
    ASSUME Planned, Passed, OneStack, turn \notin Worker \/ Head1(turn)[1] # "fill",
           kernel'.rules = kernel.rules, kernel'.chain = kernel.chain,
           \A s \in Static : kernel'.set[Stack(PlanRows)][s] = kernel.set[Stack(PlanRows)][s],
           saved' = saved, exempt' = exempt, done' \notin {"plan", "pass"} \/ done' = done
    PROVE  Planned' /\ Passed' /\ OneStack'
<1>1. Planned'
  <2> SUFFICES ASSUME done' = "plan"
               PROVE  Complete(kernel', PlanRows') /\ \A s \in Static :
                         kernel'.set[Stack(PlanRows')][s] = Content(s, PlanRows')
    BY DEF Planned
  <2>1. done = "plan" /\ Complete(kernel, PlanRows)
    BY DEF Planned
  <2>2. \A s \in Static : kernel.set[Stack(PlanRows)][s] = Content(s, PlanRows)
    BY <2>1, Settled
  <2>3. PlanRows' = PlanRows
    BY DEF PlanRows
  <2> HIDE DEF PlanRows
  <2> QED BY <2>1, <2>2, <2>3 DEF Complete, Marked
<1>2. Passed' /\ OneStack'
  BY DEF Passed, OneStack
<1> QED BY <1>1, <1>2

LEMMA NotFilling ==
    ASSUME NEW r \in Worker, HasTurn(r), Head1(r)[1] # "fill"
    PROVE  turn \notin Worker \/ Head1(turn)[1] # "fill"
BY ConstantsAssumption DEF HasTurn, Worker

LEMMA TypeLater ==
    ASSUME KernelShape(kernel'), kernel'.vpn => tunnel'.link, saved' \in Policy,
           tunnel' \in [status: {"running", "stopped", "error"}, link: BOOLEAN, node: Node],
           work' \in [Worker -> [todo: Seq(Op), pol: Policy]], turn' \in Worker \cup {"nobody"},
           done' \in {"none", "busy", "broken", "stale", "outdated", "base", "pass", "plan"},
           flushed' \in Flush, exempt' \in Node,
           requests' \in 0..MaxRequests, faults' \in 0..MaxFaults
    PROVE  TypeOK' /\ Shaped'
<1>1. Shaped'
  BY DEF Shaped, KernelShape
<1>2. /\ kernel'.rules \in BOOLEAN /\ kernel'.vpn \in BOOLEAN
      /\ DOMAIN kernel'.chain = Chain
      /\ kernel'.set \in [{"ipt", "nft"} -> [SetName -> SUBSET To]]
      /\ \A w \in Worker : work'[w].pol \in Policy
  BY DEF KernelShape
<1> QED BY <1>1, <1>2 DEF TypeOK, Flush

\* A step of a handler that changes no chain, no rule of ip and no set
LEMMA Unmoved ==
    ASSUME RoutingInv, NEW r \in Worker, HasTurn(r), Head1(r)[1] # "fill", turn' \in {r, "nobody"},
           kernel' \in {kernel, [kernel EXCEPT !.vpn = FALSE]}, saved' = saved, requests' = requests,
           exempt' = exempt, flushed' \in Flush, kernel'.vpn => tunnel'.link,
           tunnel' \in [status: {"running", "stopped", "error"}, link: BOOLEAN, node: Node],
           done' \in {done, "busy", "broken", "outdated", "base"}, faults' \in 0..MaxFaults,
           work' \in [Worker -> [todo: Seq(Op), pol: Policy]],
           \A w \in Worker : Outlined(NextKnown(w), work'[w].todo, {}, work'[w].pol)
    PROVE  RoutingInv'
<1>1. /\ KernelShape(kernel) /\ TypeOK /\ Planned /\ Passed /\ OneStack
  BY DEF RoutingInv, Shaped
<1>2. /\ KernelShape(kernel') /\ kernel'.rules = kernel.rules /\ kernel'.chain = kernel.chain
      /\ kernel'.set = kernel.set /\ (kernel'.vpn => kernel.vpn)
  BY <1>1 DEF KernelShape
<1>3. Planned' /\ Passed' /\ OneStack'
  BY <1>1, <1>2, NotFilling, Carried
<1>4. TypeOK' /\ Shaped'
  BY <1>1, <1>2, TypeLater DEF TypeOK
<1>5. Outlines'
  BY OutlinesLater
<1> QED BY <1>3, <1>4, <1>5 DEF RoutingInv

\* The nodes that sessions have flushed are nodes.
LEMMA FlushLater == ASSUME RoutingInv, flushed' = flushed PROVE flushed' \in Flush
BY DEF RoutingInv, TypeOK, Flush

LEMMA NoFlushType == ASSUME TypeOK PROVE NoFlush \in Flush
BY DEF TypeOK, NoFlush, Flush

\* The facts do not depend on the route into the tunnel.
LEMMA SameFacts ==
    ASSUME KernelShape(kernel), kernel' \in {kernel, [kernel EXCEPT !.vpn = FALSE]},
           NEW f, NEW pol, Holds(f, kernel, pol, saved, done),
           saved' = saved, done' = done
    PROVE  Holds(f, kernel', pol, saved', done')
<1>1. kernel'.rules = kernel.rules /\ kernel'.chain = kernel.chain /\ kernel'.set = kernel.set
  BY DEF KernelShape
<1> QED BY <1>1 DEF Holds, Marked

LEMMA PlainNext ==
    ASSUME Policies # {}, Shaped, Outlines, NEW r \in Worker, HasTurn(r), Next1(r),
           Head1(r)[1] \in {"await", "dnsmasq", "tunnel", "if", "need"},
           kernel' \in {kernel, [kernel EXCEPT !.vpn = FALSE]}, saved' = saved, done' = done
    PROVE  /\ work' \in [Worker -> [todo: Seq(Op), pol: Policy]]
           /\ \A w \in Worker : Outlined(NextKnown(w), work'[w].todo, {}, work'[w].pol)
<1>1. ASSUME Head1(r)[1] # "await", NEW f \in After(Known(r), Head1(r), work[r].pol)
      PROVE  Holds(f, kernel', work[r].pol, saved', done')
  <2>1. Loses(Head1(r), work[r].pol) = {} /\ Gains(Head1(r), work[r].pol) = {}
    BY <1>1, NeedsNothing, LosesNothing
  <2>2. f \in Known(r)
    BY <1>1, <2>1 DEF After
  <2> QED BY <2>2, HeadNeeds, SameFacts DEF Shaped
<1>2. Head1(r)[1] # "await" => \A f \in After(Known(r), Head1(r), work[r].pol) :
                                   Holds(f, kernel', work[r].pol, saved', done')
  BY <1>1
<1>3. /\ work' \in [Worker -> [todo: Seq(Op), pol: Policy]]
      /\ \A w \in Worker : Outlined(NextKnown(w), work'[w].todo, {}, work'[w].pol)
  <2> HIDE DEF Shaped, Outlines, Outlined, NextKnown, Holds, After, Op, Policy
  <2> QED BY <1>2, OutlinesNext
<1> QED BY <1>3

LEMMA OutlinesAbort ==
    ASSUME Policies # {}, Shaped, Outlines, NEW r \in Worker, HasTurn(r), Abort(r)
    PROVE  /\ work' \in [Worker -> [todo: Seq(Op), pol: Policy]]
           /\ \A w \in Worker : Outlined(NextKnown(w), work'[w].todo, {}, work'[w].pol)
<1>1. work[r].pol \in Policy /\ GoOn(r, <<>>, work[r].pol) /\ turn \in {r, "nobody"}
  BY DEF Shaped, Abort, HasTurn
<1>2. <<>> \in Seq(Op) /\ Outlined({}, <<>>, {}, work[r].pol)
  BY Nothing
<1>3. {} \subseteq {f \in Fact : Holds(f, kernel', work[r].pol, saved', done')}
  OBVIOUS
<1>4. IF Head1(r)[1] = "await" THEN Outlined({}, <<>>, {}, work[r].pol)
                               ELSE Outlined({}, <<>>, {}, work[r].pol)
  BY <1>2
<1> DEFINE todo == <<>>
           row  == work[r].pol
<1>5. /\ row \in Policy /\ todo \in Seq(Op) /\ GoOn(r, todo, row)
      /\ {} \subseteq {f \in Fact : Holds(f, kernel', row, saved', done')}
      /\ IF Head1(r)[1] = "await" THEN Outlined({}, todo, {}, row)
                                  ELSE Outlined({}, todo, {}, row)
  BY <1>1, <1>2, <1>3, <1>4
<1> HIDE DEF todo, row
<1> QED BY <1>1, <1>5, OutlinesGoOn

LEMMA TurnLater == ASSUME NEW r, NEW todo, NEW row, GoOn(r, todo, row)
                   PROVE  turn' \in {r, "nobody"}
BY DEF GoOn


---------------------------------------------------------------------------
(* The actions keep the invariant                                           *)

LEMMA CheckKeeps == ASSUME RoutingInv, NEW r \in Worker, Check(r) PROVE RoutingInv'
<1>1. /\ HasTurn(r) /\ Head1(r)[1] \in {"if", "need"} /\ (Next1(r) \/ Abort(r))
      /\ saved' = saved /\ tunnel' = tunnel /\ kernel' = kernel /\ done' = done
      /\ flushed' = flushed /\ exempt' = exempt /\ requests' = requests /\ faults' = faults
  BY DEF Check
<1>2. /\ work' \in [Worker -> [todo: Seq(Op), pol: Policy]]
      /\ \A w \in Worker : Outlined(NextKnown(w), work'[w].todo, {}, work'[w].pol)
  BY <1>1, PlainNext, OutlinesAbort DEF RoutingInv
<1>3. turn' \in {r, "nobody"}
  BY <1>1, TurnLater DEF Next1, Abort
<1>4. tunnel' \in [status: {"running", "stopped", "error"}, link: BOOLEAN, node: Node]
      /\ faults' \in 0..MaxFaults
  BY <1>1 DEF RoutingInv, TypeOK
<1> QED BY <1>1, <1>2, <1>3, <1>4, Unmoved, FlushLater DEF RoutingInv, TypeOK

LEMMA AwaitKeeps == ASSUME RoutingInv, NEW r \in Worker, Await(r) PROVE RoutingInv'
<1>1. /\ HasTurn(r) /\ Head1(r)[1] = "await" /\ Next1(r)
      /\ saved' = saved /\ tunnel' = tunnel /\ kernel' = kernel /\ done' = done
      /\ flushed' = flushed /\ exempt' = exempt /\ requests' = requests /\ faults' = faults
  BY DEF Await
<1>2. /\ work' \in [Worker -> [todo: Seq(Op), pol: Policy]]
      /\ \A w \in Worker : Outlined(NextKnown(w), work'[w].todo, {}, work'[w].pol)
  BY <1>1, PlainNext DEF RoutingInv
<1>3. turn' \in {r, "nobody"}
  BY <1>1, TurnLater DEF Next1
<1>4. tunnel' \in [status: {"running", "stopped", "error"}, link: BOOLEAN, node: Node]
      /\ faults' \in 0..MaxFaults
  BY <1>1 DEF RoutingInv, TypeOK
<1> QED BY <1>1, <1>2, <1>3, <1>4, Unmoved, FlushLater DEF RoutingInv, TypeOK

LEMMA FaultsLater == ASSUME TypeOK, faults > 0, faults' = faults - 1 PROVE faults' \in 0..MaxFaults
BY ConstantsAssumption DEF TypeOK

LEMMA DnsmasqKeeps == ASSUME RoutingInv, NEW r \in Worker, RestartDnsmasq(r) PROVE RoutingInv'
<1>1. /\ HasTurn(r) /\ Head1(r)[1] = "dnsmasq" /\ (Next1(r) \/ Abort(r))
      /\ saved' = saved /\ tunnel' = tunnel /\ kernel' = kernel /\ done' = done
      /\ flushed' = flushed /\ exempt' = exempt /\ requests' = requests
  BY DEF RestartDnsmasq
<1>2. /\ work' \in [Worker -> [todo: Seq(Op), pol: Policy]]
      /\ \A w \in Worker : Outlined(NextKnown(w), work'[w].todo, {}, work'[w].pol)
  BY <1>1, PlainNext, OutlinesAbort DEF RoutingInv
<1>3. turn' \in {r, "nobody"}
  BY <1>1, TurnLater DEF Next1, Abort
<1>4. tunnel' \in [status: {"running", "stopped", "error"}, link: BOOLEAN, node: Node]
  BY <1>1 DEF RoutingInv, TypeOK
<1>5. faults' \in 0..MaxFaults
  BY FaultsLater DEF RestartDnsmasq, RoutingInv, TypeOK
<1> QED BY <1>1, <1>2, <1>3, <1>4, <1>5, Unmoved, FlushLater DEF RoutingInv, TypeOK

LEMMA TunnelKeeps ==
    ASSUME RoutingInv, NEW r \in Worker, TunnelStart(r) \/ TunnelStop(r) PROVE RoutingInv'
<1>0. KernelShape(kernel) /\ work[r].pol \in Policy /\ TypeOK
  BY DEF RoutingInv, Shaped
<1>1. /\ HasTurn(r) /\ Head1(r)[1] = "tunnel" /\ Next1(r)
      /\ saved' = saved /\ kernel' = [kernel EXCEPT !.vpn = FALSE] /\ done' = done
      /\ flushed' = flushed /\ exempt' = exempt /\ requests' = requests
  BY DEF TunnelStart, TunnelStop
<1>2. /\ work' \in [Worker -> [todo: Seq(Op), pol: Policy]]
      /\ \A w \in Worker : Outlined(NextKnown(w), work'[w].todo, {}, work'[w].pol)
  BY <1>1, PlainNext DEF RoutingInv
<1>3. turn' \in {r, "nobody"}
  BY <1>1, TurnLater DEF Next1
<1>4. tunnel' \in [status: {"running", "stopped", "error"}, link: BOOLEAN, node: Node]
  <2>1. CASE TunnelStart(r)
    <3>1. work[r].pol.node \in Node
      BY <1>0 DEF Policy
    <3>2. CASE tunnel' = [status |-> "running", link |-> TRUE, node |-> work[r].pol.node]
      BY <3>1, <3>2
    <3>3. CASE \E up \in BOOLEAN :
                  tunnel' = [status |-> "error", link |-> up, node |-> work[r].pol.node]
      <4>1. PICK up \in BOOLEAN :
                tunnel' = [status |-> "error", link |-> up, node |-> work[r].pol.node]
        BY <3>3
      <4> QED BY <3>1, <4>1
    <3> QED BY <2>1, <3>2, <3>3 DEF TunnelStart
  <2>2. CASE TunnelStop(r)
    BY <1>0, <2>2 DEF TunnelStop, TypeOK
  <2> QED BY <2>1, <2>2
<1>5. faults' \in 0..MaxFaults
  BY <1>0, FaultsLater DEF TunnelStart, TunnelStop, TypeOK
<1>6. ~kernel'.vpn
  BY <1>0, <1>1 DEF KernelShape
<1> QED BY <1>1, <1>2, <1>3, <1>4, <1>5, <1>6, Unmoved, FlushLater

LEMMA ReadKeeps == ASSUME RoutingInv, NEW r \in Worker, ReadPolicy(r) PROVE RoutingInv'
<1> DEFINE row == [saved EXCEPT !.nft = work[r].pol.nft, !.host = work[r].pol.host,
                                !.node = work[r].pol.node, !.on = work[r].pol.on]
<1>1. /\ HasTurn(r) /\ Head1(r)[1] = "read" /\ GoOn(r, Apply(row), row)
      /\ saved' = saved /\ tunnel' = tunnel /\ kernel' = kernel /\ done' = done
      /\ requests' = requests /\ faults' = faults /\ exempt' = exempt
      /\ flushed' \in {flushed, [by |-> r, node |-> work[r].pol.node]}
  BY DEF ReadPolicy
<1>2. row \in Policy
  BY DEF RoutingInv, TypeOK, Shaped, Policy
<1> HIDE DEF row
<1>3. Outlined({}, Apply(row), {}, row) /\ Apply(row) \in Seq(Op)
  BY ApplyOutline DEF Outlined
<1>4. {} \subseteq {f \in Fact : Holds(f, kernel', row, saved', done')}
  OBVIOUS
<1>5. /\ work' \in [Worker -> [todo: Seq(Op), pol: Policy]]
      /\ \A w \in Worker : Outlined(NextKnown(w), work'[w].todo, {}, work'[w].pol)
  BY <1>1, <1>2, <1>3, <1>4, OutlinesGoOn DEF RoutingInv, HasTurn
<1>6. turn' \in {r, "nobody"}
  BY <1>1, TurnLater
<1>7. tunnel' \in [status: {"running", "stopped", "error"}, link: BOOLEAN, node: Node]
      /\ faults' \in 0..MaxFaults
  BY <1>1 DEF RoutingInv, TypeOK
<1>8. flushed' \in Flush
  <2>1. work[r].pol.node \in Node
    BY DEF RoutingInv, Shaped, Policy
  <2> QED BY <1>1, <2>1 DEF Flush, RoutingInv, TypeOK
<1> QED BY <1>1, <1>5, <1>6, <1>7, <1>8, Unmoved DEF RoutingInv, TypeOK

\* The next node of a failover: a start of the tunnel from the beginning
LEMMA CandidateKeeps == ASSUME RoutingInv, NEW r \in Worker, NextCandidate(r) PROVE RoutingInv'
<1>1. PICK n \in Node : GoOn(r, StartSteps([work[r].pol EXCEPT !.node = n]),
                             [work[r].pol EXCEPT !.node = n])
  BY DEF NextCandidate
<1> DEFINE row == [work[r].pol EXCEPT !.node = n]
<1>2. /\ HasTurn(r) /\ Head1(r)[1] = "if" /\ GoOn(r, StartSteps(row), row)
      /\ saved' = saved /\ tunnel' = tunnel /\ kernel' = kernel /\ done' = done
      /\ requests' = requests /\ faults' = faults /\ exempt' = exempt /\ flushed' = flushed
  BY <1>1 DEF NextCandidate
<1>3. row \in Policy
  <2>1. work[r].pol \in Policy
    BY DEF RoutingInv, Shaped
  <2> QED BY <2>1 DEF Policy
<1> HIDE DEF row
<1>4. Outlined({}, StartSteps(row), {}, row) /\ StartSteps(row) \in Seq(Op)
  BY StartOutline DEF Outlined
<1>5. {} \subseteq {f \in Fact : Holds(f, kernel', row, saved', done')}
  OBVIOUS
<1>6. /\ work' \in [Worker -> [todo: Seq(Op), pol: Policy]]
      /\ \A w \in Worker : Outlined(NextKnown(w), work'[w].todo, {}, work'[w].pol)
  BY <1>2, <1>3, <1>4, <1>5, OutlinesGoOn DEF RoutingInv, HasTurn
<1>7. turn' \in {r, "nobody"}
  BY <1>2, TurnLater
<1>8. tunnel' \in [status: {"running", "stopped", "error"}, link: BOOLEAN, node: Node]
      /\ faults' \in 0..MaxFaults
  BY <1>2 DEF RoutingInv, TypeOK
<1> QED BY <1>2, <1>6, <1>7, <1>8, Unmoved, FlushLater DEF RoutingInv, TypeOK

LEMMA FailsKeeps == ASSUME RoutingInv, NEW r \in Worker, CommandFails(r) PROVE RoutingInv'
<1>1. /\ HasTurn(r) /\ Head1(r)[1] \in Commands
      /\ saved' = saved /\ tunnel' = tunnel /\ kernel' = kernel /\ done' = "broken"
      /\ requests' = requests /\ (GoOn(r, BootSteps(saved), saved) \/ Abort(r))
      /\ flushed' = flushed /\ exempt' = exempt
  BY DEF CommandFails
<1>2. /\ work' \in [Worker -> [todo: Seq(Op), pol: Policy]]
      /\ \A w \in Worker : Outlined(NextKnown(w), work'[w].todo, {}, work'[w].pol)
  <2>1. CASE GoOn(r, BootSteps(saved), saved)
    <3>1. Outlined({}, BootSteps(saved), {}, saved) /\ BootSteps(saved) \in Seq(Op)
      BY BootOutline DEF Outlined
    <3>2. {} \subseteq {f \in Fact : Holds(f, kernel', saved, saved', done')} /\ saved \in Policy
      BY DEF RoutingInv, TypeOK
    <3> QED BY <1>1, <2>1, <3>1, <3>2, OutlinesGoOn DEF RoutingInv, HasTurn
  <2>2. CASE Abort(r)
    BY <1>1, <2>2, OutlinesAbort DEF RoutingInv
  <2> QED BY <1>1, <2>1, <2>2
<1>3. turn' \in {r, "nobody"}
  BY <1>1, TurnLater DEF Abort
<1>4. tunnel' \in [status: {"running", "stopped", "error"}, link: BOOLEAN, node: Node]
  BY <1>1 DEF RoutingInv, TypeOK
<1>5. faults' \in 0..MaxFaults
  BY FaultsLater DEF CommandFails, RoutingInv, TypeOK
<1>6. OneStack' /\ Planned' /\ Passed'
  BY <1>1 DEF RoutingInv, OneStack, Planned, Passed
<1>7. TypeOK' /\ Shaped'
  BY <1>1, <1>2, <1>3, <1>4, <1>5, TypeLater, FlushLater DEF RoutingInv, Shaped, TypeOK
<1> QED BY <1>2, <1>6, <1>7, OutlinesLater DEF RoutingInv

---------------------------------------------------------------------------
(* The chains of marking rules are sequences of rules that begin with the   *)
(* one that exempts the server of the node.                                 *)

Rule == {"any", "device", "lan", "host"} \X (Node \cup SetName \cup {"any"})
        \X {"vpn", "local", "return", "vpn_return", "local_return"}

LEMMA Single ==
    ASSUME NEW S, NEW x \in S
    PROVE  <<x>> \in Seq(S) /\ Len(<<x>>) = 1 /\ <<x>>[1] = x
OBVIOUS

LEMMA Prefixed ==
    ASSUME NEW S, NEW x \in S, NEW q \in Seq(S)
    PROVE  /\ <<x>> \o q \in Seq(S) /\ Len(<<x>> \o q) = 1 + Len(q) /\ (<<x>> \o q)[1] = x
           /\ \A i \in 1..Len(q) : (<<x>> \o q)[1 + i] = q[i]
<1> DEFINE p == <<x>>
<1>1. p \in Seq(S) /\ Len(p) = 1 /\ p[1] = x
  BY Single
<1> HIDE DEF p
<1>2. /\ p \o q \in Seq(S) /\ Len(p \o q) = Len(p) + Len(q)
      /\ \A i \in 1..Len(p) : (p \o q)[i] = p[i]
      /\ \A i \in 1..Len(q) : (p \o q)[Len(p) + i] = q[i]
  BY <1>1, Concat
<1>3. 1 \in 1..Len(p)
  BY <1>1
<1>4. /\ p \o q \in Seq(S) /\ Len(p \o q) = 1 + Len(q) /\ (p \o q)[1] = x
      /\ \A i \in 1..Len(q) : (p \o q)[1 + i] = q[i]
  BY <1>1, <1>2, <1>3
<1> QED BY <1>4 DEF p

LEMMA MatchSetsType ==
    \A pol : MatchSets(pol) \in Seq(SetName) /\ Len(MatchSets(pol)) \in Nat
<1> SUFFICES ASSUME NEW pol PROVE MatchSets(pol) \in Seq(SetName)
  OBVIOUS
<1> DEFINE a == IF "geoip" \in pol.sources THEN <<"geoip">> ELSE <<>>
           b == IF "manual" \in pol.sources THEN <<"manual">> ELSE <<>>
           c == IF pol.sources = {} /\ Fqdn(pol) = {} THEN <<"base">> ELSE <<>>
           d == IF Fqdn(pol) # {} THEN <<"fqdn">> ELSE <<>>
<1>1. a \in Seq(SetName) /\ b \in Seq(SetName) /\ c \in Seq(SetName) /\ d \in Seq(SetName)
  <2>1. <<>> \in Seq(SetName)
    OBVIOUS
  <2>2. /\ <<"geoip">> \in Seq(SetName) /\ <<"manual">> \in Seq(SetName)
        /\ <<"base">> \in Seq(SetName) /\ <<"fqdn">> \in Seq(SetName)
    BY Single DEF SetName
  <2> QED BY <2>1, <2>2
<1>2. MatchSets(pol) = ((a \o b) \o c) \o d
  BY DEF MatchSets
<1> HIDE DEF a, b, c, d
<1> QED BY <1>1, <1>2, Concat

LEMMA PairsType ==
    ASSUME NEW from \in {"any", "device", "lan", "host"}, NEW names \in Seq(SetName),
           NEW mark \in {"vpn", "local"}
    PROVE  Pairs(from, names, mark) \in Seq(Rule) /\ Len(Pairs(from, names, mark)) = 2 * Len(names)
<1> DEFINE seqs == [i \in 1..Len(names) |->
                       << <<from, names[i], mark>>, <<from, names[i], "return">> >>]
           n == Len(names)
<1>1. n \in Nat /\ Len(seqs) = n
  OBVIOUS
<1>2. \A i \in 1..n : names[i] \in SetName
  OBVIOUS
<1>3. \A i \in 1..n : seqs[i][1] \in Rule /\ seqs[i][2] \in Rule
  BY <1>2 DEF Rule
<1>4. Pairs(from, names, mark) = [i \in 1..(2 * n) |-> seqs[(i + 1) \div 2][2 - (i % 2)]]
  BY <1>1 DEF Pairs, Flat
<1> HIDE DEF seqs, n
<1>5. \A i \in 1..(2 * n) : (i + 1) \div 2 \in 1..n /\ 2 - (i % 2) \in {1, 2}
  BY <1>1
<1>6. \A i \in 1..(2 * n) : seqs[(i + 1) \div 2][2 - (i % 2)] \in Rule
  <2> TAKE i \in 1..(2 * n)
  <2> DEFINE j == (i + 1) \div 2
             l == 2 - (i % 2)
  <2>1. j \in 1..n /\ l \in {1, 2}
    BY <1>5
  <2> HIDE DEF j, l
  <2>2. seqs[j][l] \in Rule
    BY <2>1, <1>3
  <2> QED BY <2>2 DEF j, l
<1>7. 2 * n \in Nat
  BY <1>1
<1> QED BY <1>4, <1>6, <1>7 DEF n

LEMMA MarksType ==
    ASSUME NEW pol \in Policy
    PROVE  Matched(pol) \in {"vpn", "local"} /\ Other(pol) \in {"vpn", "local"}
BY DEF Policy, Matched, Other

LEMMA EndEffect ==
    ASSUME NEW op, op[1] = "end", NEW pol
    PROVE  Loses(op, pol) = {"fresh"} /\ Gains(op, pol) = {}
<1>1. /\ \A s : op # <<"mark", s>> /\ op # <<"forward", s>> /\ op # <<"ip", s>>
               /\ op # <<"down", s>>
      /\ op[1] \notin {"await", "read", "flush", "fill", "chains", "forward", "out"}
  OBVIOUS
<1>2. Loses(op, pol) = {"fresh"}
  BY <1>1 DEF Loses
<1>3. Gains(op, pol) = {}
  BY <1>1 DEF Gains
<1> QED BY <1>2, <1>3

LEMMA EndKeeps == ASSUME RoutingInv, NEW r \in Worker, End(r) PROVE RoutingInv'
<1> DEFINE pol == work[r].pol
<1>0. /\ HasTurn(r) /\ Head1(r)[1] = "end" /\ Next1(r)
      /\ saved' = saved /\ tunnel' = tunnel /\ kernel' = kernel
      /\ requests' = requests /\ faults' = faults
      /\ done' \in {"outdated", Head1(r)[2]}
      /\ done' = "plan" => Head1(r)[2] = "plan" /\ AlikeRows(RowOf(pol, saved), saved)
                           /\ exempt' = pol.node
      /\ exempt' \in {exempt, pol.node} /\ flushed' = flushed
  BY DEF End, Row, RowOf, Alike, AlikeRows
<1>1. /\ Head1(r) \in Op /\ pol \in Policy /\ Known(r) \in SUBSET Fact
      /\ Needs(Head1(r), pol) \subseteq Known(r)
      /\ \A f \in Known(r) : Holds(f, kernel, pol, saved, done)
  BY <1>0, HeadNeeds DEF RoutingInv
<1>2. /\ TypeOK /\ KernelShape(kernel) /\ saved \in Policy /\ Policies # {}
      /\ Shaped /\ Outlines /\ OneStack
  BY DEF RoutingInv, TypeOK, Shaped
<1> HIDE DEF pol
<1>3. Head1(r) \in {<<"end", "plan">>, <<"end", "pass">>, <<"end", "base">>}
  BY <1>0, <1>1 DEF Op
<1>4. ASSUME NEW f \in After(Known(r), Head1(r), pol)
      PROVE  Holds(f, kernel', pol, saved', done')
  <2>1. Loses(Head1(r), pol) = {"fresh"} /\ Gains(Head1(r), pol) = {}
    BY <1>0, EndEffect
  <2>2. f \in Known(r) /\ f # "fresh"
    BY <2>1 DEF After
  <2>3. f \in Fact /\ Holds(f, kernel, pol, saved, done)
    BY <1>1, <2>2
  <2> QED BY <1>0, <2>2, <2>3 DEF Holds, Marked, Fact, Static
<1>5. /\ work' \in [Worker -> [todo: Seq(Op), pol: Policy]]
      /\ \A w \in Worker : Outlined(NextKnown(w), work'[w].todo, {}, work'[w].pol)
  <2>1. Head1(r)[1] # "await" => \A f \in After(Known(r), Head1(r), work[r].pol) :
                                   Holds(f, kernel', work[r].pol, saved', done')
    BY <1>4 DEF pol
  <2> QED BY <1>0, <1>2, <2>1, OutlinesNext
<1>6. turn' \in {r, "nobody"}
  BY <1>0, TurnLater DEF Next1
<1>7. tunnel' \in [status: {"running", "stopped", "error"}, link: BOOLEAN, node: Node]
      /\ faults' \in 0..MaxFaults /\ flushed' \in Flush /\ exempt' \in Node
  BY <1>0, <1>1, <1>2 DEF TypeOK, Flush, Policy
<1>8. CASE done' # "plan"
  <2>1. done' \in {"outdated", "pass", "base"}
    BY <1>0, <1>3, <1>8
  <2>2. OneStack' /\ Planned'
    BY <1>0, <1>2, <2>1 DEF OneStack, Planned
  <2>3. Passed'
    <3>1. CASE done' = "pass"
      <4>1. Head1(r) = <<"end", "pass">>
        BY <1>0, <1>3, <3>1
      <4>2. "closed" \in Known(r) /\ "pass" \in Known(r)
        BY <4>1, <1>1 DEF Needs
      <4>3. ~kernel.rules /\ kernel.chain["forward"] = PassForward
        BY <4>2, <1>1 DEF Holds, Static
      <4> QED BY <4>3, <1>0 DEF Passed
    <3>2. CASE done' # "pass"
      BY <3>2 DEF Passed
    <3> QED BY <3>1, <3>2
  <2>4. TypeOK' /\ Shaped'
    BY <1>0, <1>2, <1>5, <1>6, <1>7, <2>1, TypeLater DEF TypeOK
  <2> QED BY <2>2, <2>3, <2>4, <1>2, <1>5, OutlinesLater DEF RoutingInv
<1>9. CASE done' = "plan"
  <2> DEFINE row == RowOf(pol, saved)
  <2>1. Head1(r) = <<"end", "plan">> /\ AlikeRows(row, saved) /\ exempt' = pol.node
    BY <1>0, <1>3, <1>9
  <2>2. {"rules", "marks", "whole", Gone(pol)} \cup Static \subseteq Known(r)
    BY <2>1, <1>1 DEF Needs
  <2>3. /\ pol.nft = row.nft /\ pol.kill = row.kill /\ pol.sources = row.sources
        /\ pol.domains = row.domains /\ pol.node = row.node /\ row \in Policy
    BY <1>1, <1>2 DEF RowOf, Policy
  <2>4. PlanRows' = row
    <3>1. PlanRows' = [saved EXCEPT !.node = row.node]
      BY <1>0, <2>1, <2>3 DEF PlanRows
    <3>2. saved = [row EXCEPT !.node = saved.node]
      BY <2>1 DEF AlikeRows
    <3>3. [[row EXCEPT !.node = saved.node] EXCEPT !.node = row.node] = row
      BY <2>3 DEF Policy
    <3> QED BY <3>1, <3>2, <3>3
  <2>5. kernel.rules /\ Marked(kernel, row)
    BY <2>2, <1>1 DEF Holds, Static
  <2> HIDE DEF row
  <2>6. kernel.chain["forward"] = ForwardRules \o KillRules(row)
    <3>1. kernel.chain["forward"] = ForwardRules \o KillRules(pol)
      BY <2>2, <1>1 DEF Holds, Static
    <3> QED BY <3>1, <2>3 DEF KillRules
  <2>7. IF row.nft THEN kernel.chain["pre"] = <<>> /\ kernel.chain["out"] = <<>>
        ELSE kernel.chain["nftpre"] = <<>> /\ kernel.chain["nftout"] = <<>>
    BY <2>2, <2>3, <1>1 DEF Holds, Static, Gone
  <2>8. \A s \in Static : kernel.set[Stack(row)][s] = Content(s, row)
    <3> TAKE s \in Static
    <3>1. s \in Known(r)
      BY <2>2
    <3>2. Holds(s, kernel, pol, saved, done)
      BY <3>1, <1>1
    <3>3. kernel.set[Stack(pol)][s] = Content(s, pol)
      BY <3>2 DEF Holds, Static
    <3> QED BY <3>3, <2>3 DEF Content, Stack, Fqdn
  <2>9. Planned'
    <3>1. Complete(kernel', PlanRows')
      BY <2>4, <2>5, <2>6, <2>7, <1>0 DEF Complete, Marked
    <3>2. \A s \in Static : kernel'.set[Stack(PlanRows')][s] = Content(s, PlanRows')
      BY <2>4, <2>8, <1>0
    <3> QED BY <3>1, <3>2 DEF Planned
  <2>10. Passed' /\ OneStack'
    BY <1>0, <1>2, <1>9 DEF Passed, OneStack
  <2>11. TypeOK' /\ Shaped'
    BY <1>0, <1>2, <1>5, <1>6, <1>7, <1>9, TypeLater DEF TypeOK
  <2> QED BY <2>9, <2>10, <2>11, <1>2, <1>5, OutlinesLater DEF RoutingInv
<1> QED BY <1>8, <1>9

---------------------------------------------------------------------------
(* A command of ip, iptables, nft or ipset                                  *)

\* The route into the tunnel and the marking chains
LEMMA SideEffect ==
    ASSUME NEW op \in Op, op[1] \in Commands, NEW k, KernelShape(k), NEW row \in Policy,
           NEW e, e = Commanded(k, op, row)
    PROVE  /\ e.vpn => k.vpn \/ op = <<"ip", "routes">>
           /\ op # <<"mark", "ipt">> => e.chain["pre"] \in {<<>>, k.chain["pre"]}
           /\ op # <<"mark", "nft">> => e.chain["nftpre"] \in {<<>>, k.chain["nftpre"]}
<1>1. CASE op[1] = "ip"
  <2>1. op \in {<<"ip", "rules">>, <<"ip", "routes">>, <<"ip", "clear">>}
    BY <1>1 DEF Op
  <2>2. /\ op # <<"ip", "routes">> => (e.vpn => k.vpn)
        /\ e.chain = k.chain
    <3>1. CASE op = <<"ip", "rules">>
      BY <3>1 DEF Commanded, IpSteps, KernelShape
    <3>2. CASE op = <<"ip", "routes">>
      BY <3>2 DEF Commanded, IpSteps, KernelShape
    <3>3. CASE op = <<"ip", "clear">>
      BY <3>3 DEF Commanded, IpSteps, KernelShape
    <3> QED BY <2>1, <3>1, <3>2, <3>3
  <2> QED BY <2>2
<1>2. CASE op = <<"down", "ipt">>
  <2>1. e = EmptyChains(k, {"pre", "out", "forward"})
    BY <1>2 DEF Commanded, Down
  <2> QED BY <2>1, EmptiedChains DEF Chain
<1>3. CASE op = <<"down", "nft">>
  <2> DEFINE c == EmptyChains(k, {"nftpre", "nftout", "forward"})
  <2>1. e = [c EXCEPT !.set.nft = NoSets]
    BY <1>3 DEF Commanded, Down
  <2>2. /\ KernelShape(c) /\ c.vpn = k.vpn
        /\ c.chain["pre"] = k.chain["pre"] /\ c.chain["nftpre"] = <<>>
    BY EmptiedChains DEF Chain
  <2> HIDE DEF c
  <2>3. e.vpn = c.vpn /\ e.chain = c.chain
    BY <2>1, <2>2 DEF KernelShape
  <2> QED BY <2>2, <2>3
<1>4. CASE op[1] = "chains"
  <2>1. PICK names : e = EmptyChains(k, names)
    BY <1>4 DEF Commanded, Chains
  <2> QED BY <2>1, EmptiedChains DEF Chain
<1>5. CASE op = <<"mark", "nft">>
  <2>1. e = [k EXCEPT !.chain["nftpre"] = MarkRulesNft(row), !.chain["nftout"] = OutputRulesNft(row)]
    BY <1>5 DEF Commanded, Marks
  <2> DEFINE c == [k EXCEPT !.chain["nftpre"] = MarkRulesNft(row)]
  <2>2. KernelShape(c) /\ c.vpn = k.vpn /\ c.chain["pre"] = k.chain["pre"]
    BY ChangedChain DEF Chain
  <2>3. e = [c EXCEPT !.chain["nftout"] = OutputRulesNft(row)]
    BY <2>1
  <2> HIDE DEF c
  <2>4. e.vpn = c.vpn /\ e.chain["pre"] = c.chain["pre"]
    BY <2>2, <2>3, ChangedChain DEF Chain
  <2> QED BY <1>5, <2>2, <2>4
<1>6. CASE op = <<"mark", "ipt">>
  <2>1. e = [k EXCEPT !.chain["pre"] = MarkRules(row), !.chain["out"] = OutputRules(row)]
    BY <1>6 DEF Commanded, Marks
  <2> DEFINE c == [k EXCEPT !.chain["pre"] = MarkRules(row)]
  <2>2. KernelShape(c) /\ c.vpn = k.vpn /\ c.chain["nftpre"] = k.chain["nftpre"]
    BY ChangedChain DEF Chain
  <2>3. e = [c EXCEPT !.chain["out"] = OutputRules(row)]
    BY <2>1
  <2> HIDE DEF c
  <2>4. e.vpn = c.vpn /\ e.chain["nftpre"] = c.chain["nftpre"]
    BY <2>2, <2>3, ChangedChain DEF Chain
  <2> QED BY <1>6, <2>2, <2>4
<1>7. CASE op[1] \in {"forward", "out"}
  <2>c. PICK c \in Chain \ {"pre", "nftpre"} : \E rules : e = [k EXCEPT !.chain[c] = rules]
    <3>1. CASE op[1] = "forward"
      <4>1. "forward" \in Chain \ {"pre", "nftpre"}
        BY DEF Chain
      <4>2. \E rules : e = [k EXCEPT !.chain["forward"] = rules]
        BY <3>1 DEF Commanded, Forward
      <4> QED BY <4>1, <4>2
    <3>2. CASE op[1] = "out"
      <4>1. OutputChain(row) \in Chain \ {"pre", "nftpre"}
        BY DEF Chain, OutputChain
      <4>2. e = [k EXCEPT !.chain[OutputChain(row)] = PassOutput(row)]
        BY <3>2 DEF Commanded
      <4> QED BY <4>1, <4>2
    <3> QED BY <1>7, <3>1, <3>2
  <2>1. PICK rules : e = [k EXCEPT !.chain[c] = rules]
    BY <2>c
  <2>2. /\ e.vpn = k.vpn /\ \A b \in Chain \ {c} : e.chain[b] = k.chain[b]
    BY <2>1, ChangedChain
  <2>3. e.chain["pre"] = k.chain["pre"] /\ e.chain["nftpre"] = k.chain["nftpre"]
    BY <2>1, <2>2 DEF Chain
  <2> QED BY <2>2, <2>3
<1>8. CASE \E s \in SetName : op \in {<<"flush", s>>, <<"fill", s>>}
  BY <1>8, SetEffect
<1> QED BY <1>1, <1>2, <1>3, <1>4, <1>5, <1>6, <1>7, <1>8 DEF Op, Commands, Static, SetName

\* A flush or a fill under a plan is one of the rows that the plan is of.
LEMMA RefillKeeps ==
    ASSUME RoutingInv, NEW r \in Worker, HasTurn(r), Next1(r),
           NEW s \in SetName, Head1(r) \in {<<"flush", s>>, <<"fill", s>>},
           kernel' = Commanded(kernel, Head1(r), RowOf(work[r].pol, saved)),
           saved' = saved, exempt' = exempt, tunnel' = tunnel, done' = done
    PROVE  Planned' /\ Passed' /\ OneStack'
<1> DEFINE row == RowOf(work[r].pol, saved)
<1>1. /\ Planned /\ Passed /\ OneStack /\ KernelShape(kernel)
      /\ saved \in Policy /\ work[r].pol \in Policy
  BY DEF RoutingInv, TypeOK, Shaped
<1>2. /\ Needs(Head1(r), work[r].pol) \subseteq Known(r)
      /\ \A f \in Known(r) : turn = r /\ Holds(f, kernel, work[r].pol, saved, done)
      /\ Head1(r)[1] = "flush" /\ Head1(r)[2] # "fqdn" =>
            Tail(work[r].todo) # <<>> /\ Head(Tail(work[r].todo)) = <<"fill", Head1(r)[2]>>
  BY HeadNeeds DEF RoutingInv
<1>3. row \in Policy
  BY <1>1 DEF RowOf, Policy
<1>4. "fresh" \in Known(r)
  <2>1. /\ \A t : Head1(r) # <<"mark", t>> /\ Head1(r) # <<"forward", t>>
        /\ Head1(r)[1] \in {"flush", "fill"}
    OBVIOUS
  <2>2. "fresh" \in Needs(Head1(r), work[r].pol)
    BY <2>1 DEF Needs
  <2> QED BY <2>2, <1>2
<1>5. turn = r /\ (done = "plan" => AlikeRows(row, saved))
  BY <1>2, <1>4 DEF Holds, Static
<1>0. kernel' = Commanded(kernel, Head1(r), row)
  OBVIOUS
<1> HIDE DEF row
<1>6. /\ kernel'.rules = kernel.rules /\ kernel'.vpn = kernel.vpn /\ kernel'.chain = kernel.chain
      /\ Head1(r) = <<"fill", s>> => kernel'.set[Stack(row)][s] = Content(s, row)
      /\ \A t \in SetName \ {s} : kernel'.set[Stack(row)][t] = kernel.set[Stack(row)][t]
  BY <1>0, <1>1, <1>3, SetEffect
<1>7. Passed' /\ OneStack'
  BY <1>1, <1>6 DEF Passed, OneStack
<1>8. Planned'
  <2> SUFFICES ASSUME done = "plan"
               PROVE  /\ Complete(kernel', PlanRows)
                      /\ \A t \in Static :
                            \/ kernel'.set[Stack(PlanRows)][t] = Content(t, PlanRows)
                            \/ turn' \in Worker /\ work'[turn'].todo # <<>>
                               /\ Head(work'[turn'].todo) = <<"fill", t>>
    <3>1. PlanRows' = PlanRows
      BY DEF PlanRows
    <3> QED BY <3>1 DEF Planned
  <2>1. Stack(row) = Stack(PlanRows) /\ \A t : Content(t, row) = Content(t, PlanRows)
    <3>1. /\ row.nft = PlanRows.nft /\ row.sources = PlanRows.sources
          /\ row.domains = PlanRows.domains
      BY <1>1, <1>3, <1>5 DEF AlikeRows, PlanRows, Policy
    <3> QED BY <3>1 DEF Stack, Content, Fqdn
  <2> HIDE DEF PlanRows
  <2>2. Complete(kernel', PlanRows)
    BY <1>1, <1>6 DEF Planned, Complete, Marked
  <2>3. ASSUME NEW t \in Static
        PROVE  \/ kernel'.set[Stack(PlanRows)][t] = Content(t, PlanRows)
               \/ turn' \in Worker /\ work'[turn'].todo # <<>>
                  /\ Head(work'[turn'].todo) = <<"fill", t>>
    <3>1. CASE t # s
      <4>1. kernel.set[Stack(PlanRows)][t] = Content(t, PlanRows)
        <5>1. Head1(r) # <<"fill", t>>
          BY <3>1
        <5> QED BY <5>1, <1>1, <1>5 DEF Planned, Head1
      <4>2. t \in SetName \ {s}
        BY <3>1 DEF Static, SetName
      <4> QED BY <4>1, <4>2, <1>6, <2>1
    <3>2. CASE t = s /\ Head1(r) = <<"fill", s>>
      BY <3>2, <1>6, <2>1
    <3>3. CASE t = s /\ Head1(r) = <<"flush", s>>
      <4>1. s # "fqdn" /\ Head1(r)[1] = "flush" /\ Head1(r)[2] = s
        BY <3>3 DEF Static
      <4>2. Tail(work[r].todo) # <<>> /\ Head(Tail(work[r].todo)) = <<"fill", t>>
        BY <4>1, <1>2, <3>3
      <4>3. turn' = r /\ work'[r].todo = Tail(work[r].todo)
        BY <4>1, <4>2 DEF Next1, GoOn, Worked, RoutingInv, Shaped
      <4> QED BY <4>2, <4>3
    <3> QED BY <3>1, <3>2, <3>3
  <2> QED BY <2>2, <2>3
<1> QED BY <1>7, <1>8

LEMMA CommandKeeps == ASSUME RoutingInv, NEW r \in Worker, Command(r) PROVE RoutingInv'
<1> DEFINE pol == work[r].pol
           op  == Head1(r)
           d   == IF op[1] \in {"flush", "fill"} THEN done ELSE "busy"
<1>0. /\ HasTurn(r) /\ op[1] \in Commands /\ Next1(r)
      /\ op = <<"ip", "routes">> => tunnel.link
      /\ saved' = saved /\ tunnel' = tunnel /\ kernel' = Commanded(kernel, op, RowOf(pol, saved))
      /\ requests' = requests /\ faults' = faults /\ done' = d
      /\ exempt' = exempt /\ flushed' = flushed
  BY DEF Command, Row, RowOf
<1>1. /\ op \in Op /\ pol \in Policy /\ Known(r) \in SUBSET Fact
      /\ Needs(op, pol) \subseteq Known(r)
      /\ \A f \in Known(r) : Holds(f, kernel, pol, saved, done)
  BY <1>0, HeadNeeds DEF RoutingInv
<1>2. /\ TypeOK /\ KernelShape(kernel) /\ saved \in Policy /\ Policies # {}
      /\ Shaped /\ Outlines /\ OneStack
  BY DEF RoutingInv, TypeOK, Shaped
<1> HIDE DEF pol, op
<1>3. /\ KernelShape(kernel')
      /\ \A f \in After(Known(r), op, pol) : Holds(f, kernel', pol, saved, d)
  <2>1. \A e, c : /\ e = Commanded(kernel, op, RowOf(pol, saved))
                  /\ c = IF op[1] \in {"flush", "fill"} THEN done ELSE "busy"
                  => /\ KernelShape(e)
                     /\ \A f \in After(Known(r), op, pol) : Holds(f, e, pol, saved, c)
    BY <1>0, <1>1, <1>2, Effect
  <2> QED BY <1>0, <2>1
<1> HIDE DEF d
<1>4. /\ work' \in [Worker -> [todo: Seq(Op), pol: Policy]]
      /\ \A w \in Worker : Outlined(NextKnown(w), work'[w].todo, {}, work'[w].pol)
  <2>1. Head1(r)[1] # "await" => \A f \in After(Known(r), Head1(r), work[r].pol) :
                                   Holds(f, kernel', work[r].pol, saved', done')
    BY <1>0, <1>3 DEF pol, op
  <2> QED BY <1>0, <1>2, <2>1, OutlinesNext
<1>5. turn' \in {r, "nobody"}
  BY <1>0, TurnLater DEF Next1
<1>6. RowOf(pol, saved) \in Policy
  BY <1>1, <1>2 DEF RowOf, Policy
<1>7. /\ kernel'.vpn => kernel.vpn \/ op = <<"ip", "routes">>
      /\ op # <<"mark", "ipt">> => kernel'.chain["pre"] \in {<<>>, kernel.chain["pre"]}
      /\ op # <<"mark", "nft">> => kernel'.chain["nftpre"] \in {<<>>, kernel.chain["nftpre"]}
  BY <1>0, <1>1, <1>2, <1>6, SideEffect
<1>8. done' \in {"none", "busy", "broken", "stale", "outdated", "base", "pass", "plan"}
  BY <1>0, <1>2 DEF TypeOK, d
<1>9. TypeOK' /\ Shaped'
  <2>1. kernel'.vpn => tunnel'.link
    BY <1>0, <1>2, <1>7 DEF TypeOK
  <2> QED BY <1>0, <1>2, <1>3, <1>4, <1>5, <1>8, <2>1, TypeLater, FlushLater DEF TypeOK
<1>10. Planned' /\ Passed' /\ OneStack'
  <2>1. CASE op[1] \in {"flush", "fill"}
    <3>1. PICK s \in SetName : op \in {<<"flush", s>>, <<"fill", s>>}
      BY <1>1, <2>1 DEF Op, Static, SetName
    <3>2. done' = done
      BY <1>0, <2>1 DEF d
    <3> QED BY <1>0, <3>1, <3>2, RefillKeeps DEF op, pol
  <2>2. CASE op[1] \notin {"flush", "fill"}
    <3>1. done' = "busy"
      BY <1>0, <2>2 DEF d
    <3>2. OneStack'
      <4>1. CASE op = <<"mark", "nft">>
        <5>1. "ipt_gone" \in Known(r)
          BY <4>1, <1>1 DEF Needs
        <5>2. kernel.chain["pre"] = <<>>
          BY <5>1, <1>1 DEF Holds, Static
        <5> QED BY <4>1, <5>2, <1>7 DEF OneStack
      <4>2. CASE op = <<"mark", "ipt">>
        <5>1. "nft_gone" \in Known(r)
          BY <4>2, <1>1 DEF Needs
        <5>2. kernel.chain["nftpre"] = <<>>
          BY <5>1, <1>1 DEF Holds, Static
        <5> QED BY <4>2, <5>2, <1>7 DEF OneStack
      <4>3. CASE op # <<"mark", "nft">> /\ op # <<"mark", "ipt">>
        BY <4>3, <1>2, <1>7 DEF OneStack
      <4> QED BY <4>1, <4>2, <4>3
    <3> QED BY <3>1, <3>2 DEF Planned, Passed
  <2> QED BY <2>1, <2>2
<1> QED BY <1>2, <1>4, <1>9, <1>10, OutlinesLater DEF RoutingInv

---------------------------------------------------------------------------
(* Requests, and what the environment does                                  *)

\* At an await nobody knows anything.
LEMMA QuietKnows == ASSUME NEW w \in Worker, turn = "nobody" PROVE Known(w) = {}
BY ConstantsAssumption DEF Known, Worker

\* A request comes at an await; its handler begins with the rows that it has.
LEMMA BeginKeeps ==
    ASSUME RoutingInv, NEW r \in Slot, NEW kind, NEW row \in Policy, NEW steps,
           NEW pre \in {{}, {"fresh"}}, Outlined(pre, steps, {}, row), Begin(r, kind, row, steps),
           "fresh" \in pre => AlikeRows(RowOf(row, saved'), saved'), saved' \in Policy,
           flushed' \in Flush, done' \in {done, "stale"}, done' = "plan" => PlanRows' = PlanRows
    PROVE  RoutingInv'
<1> DEFINE job == [todo |-> steps, pol |-> IF steps = <<>> THEN AnyRow ELSE row]
<1>1. /\ turn = "nobody" /\ work' = [work EXCEPT ![r] = job]
      /\ turn' = IF steps = <<>> THEN "nobody" ELSE r
      /\ tunnel' = tunnel /\ kernel' = kernel /\ faults' = faults /\ exempt' = exempt
      /\ requests > 0 /\ requests' = requests - 1
  BY DEF Begin, Worked, Quiet
<1>2. /\ Policies # {} /\ TypeOK /\ KernelShape(kernel) /\ Outlines /\ Planned /\ Passed
      /\ OneStack /\ work \in [Worker -> [todo: Seq(Op), pol: Policy]]
      /\ r \in Worker
  BY DEF RoutingInv, Shaped, Worker
<1>3. steps \in Seq(Op)
  BY DEF Outlined
<1>4. job \in [todo: Seq(Op), pol: Policy]
  BY <1>2, <1>3, AnyRowType
<1>5. /\ work' \in [Worker -> [todo: Seq(Op), pol: Policy]] /\ work'[r] = job
      /\ \A w \in Worker \ {r} : work'[w] = work[w]
  BY <1>1, <1>2, <1>4
<1>6. ASSUME NEW w \in Worker
      PROVE  Outlined(NextKnown(w), work'[w].todo, {}, work'[w].pol)
  <2>1. {} \subseteq NextKnown(w)
    OBVIOUS
  <2>2. CASE w # r
    <3>1. Outlined({}, work[w].todo, {}, work[w].pol)
      BY <1>1, <1>2, QuietKnows DEF Outlines
    <3> QED BY <2>1, <2>2, <3>1, <1>5, Weakened
  <2>3. CASE w = r /\ steps = <<>>
    <3>1. work'[w].todo = <<>>
      BY <2>3, <1>5
    <3> QED BY <3>1, Nothing
  <2>4. CASE w = r /\ steps # <<>>
    <3>1. turn' = w /\ work'[w].todo = steps /\ work'[w].pol = row
      BY <2>4, <1>1, <1>5
    <3>2. pre \subseteq NextKnown(w)
      BY <3>1 DEF NextKnown, Holds, Fact, Static
    <3> QED BY <3>1, <3>2, Weakened
  <2> QED BY <2>2, <2>3, <2>4
<1> HIDE DEF job
<1>7. Planned'
  <2> SUFFICES ASSUME done' = "plan"
               PROVE  Complete(kernel', PlanRows') /\ \A s \in Static :
                         kernel'.set[Stack(PlanRows')][s] = Content(s, PlanRows')
    BY DEF Planned
  <2>1. done = "plan" /\ PlanRows' = PlanRows
    OBVIOUS
  <2> HIDE DEF PlanRows
  <2>2. /\ Complete(kernel, PlanRows)
        /\ \A s \in Static : kernel.set[Stack(PlanRows)][s] = Content(s, PlanRows)
    <3>1. turn \notin Worker
      BY <1>1, ConstantsAssumption DEF Worker
    <3> QED BY <2>1, <3>1, <1>2 DEF Planned
  <2> QED BY <2>1, <2>2, <1>1
<1>8. Passed' /\ OneStack'
  BY <1>1, <1>2 DEF Passed, OneStack
<1>9. TypeOK' /\ Shaped'
  <2>1. requests' \in 0..MaxRequests /\ faults' \in 0..MaxFaults /\ exempt' \in Node
    BY <1>1, <1>2, ConstantsAssumption DEF TypeOK
  <2>2. turn' \in Worker \cup {"nobody"}
    BY <1>1, <1>2
  <2>3. done' \in {"none", "busy", "broken", "stale", "outdated", "base", "pass", "plan"}
    BY <1>1, <1>2 DEF TypeOK
  <2> QED BY <1>1, <1>2, <1>5, <2>1, <2>2, <2>3, TypeLater DEF TypeOK
<1> QED BY <1>2, <1>6, <1>7, <1>8, <1>9, OutlinesLater DEF RoutingInv

\* A handler that commits its rows first
LEMMA AskKeeps ==
    ASSUME RoutingInv, NEW r \in Slot, NEW kind, NEW new \in Policy, NEW steps,
           Outlined({"fresh"}, steps, {}, new), Ask(r, kind, new, steps)
    PROVE  RoutingInv'
<1>1. /\ Begin(r, kind, new, steps) /\ saved' = new /\ flushed' = flushed /\ exempt' = exempt
      /\ done' = IF done = "plan" /\ ~AlikeRows(new, saved) THEN "stale" ELSE done
  BY DEF Ask, Begin, Alike, AlikeRows
<1>2. RowOf(new, new) = new /\ AlikeRows(new, new)
  BY DEF RowOf, AlikeRows, Policy
<1>3. ASSUME done' = "plan" PROVE PlanRows' = PlanRows
  <2>1. [new EXCEPT !.node = saved.node] = saved
    BY <1>1, <1>3 DEF AlikeRows
  <2>2. \A n : [[new EXCEPT !.node = saved.node] EXCEPT !.node = n] = [new EXCEPT !.node = n]
    BY DEF Policy
  <2> QED BY <1>1, <2>1, <2>2 DEF PlanRows
<1>4. done' \in {done, "stale"} /\ saved' \in Policy /\ AlikeRows(RowOf(new, saved'), saved')
  BY <1>1, <1>2
<1>5. flushed' \in Flush
  BY <1>1, FlushLater
<1> HIDE DEF AlikeRows, RowOf, PlanRows
<1> QED BY <1>1, <1>3, <1>4, <1>5, BeginKeeps

\* A handler that has flushed, or assigned, a node that nobody has committed
LEMMA MovedKeeps ==
    ASSUME RoutingInv, NEW r \in Slot, NEW kind, NEW n \in Node,
           Begin(r, kind, [saved EXCEPT !.node = n], StartSteps([saved EXCEPT !.node = n])),
           saved' = saved, done' = done, flushed' \in Flush
    PROVE  RoutingInv'
<1> DEFINE row == [saved EXCEPT !.node = n]
<1>1. row \in Policy /\ saved \in Policy
  BY DEF RoutingInv, TypeOK, Policy
<1>2. Begin(r, kind, row, StartSteps(row)) /\ exempt' = exempt
  BY DEF Begin
<1> HIDE DEF row
<1>3. Outlined({}, StartSteps(row), {}, row)
  BY StartOutline
<1>4. PlanRows' = PlanRows
  BY <1>2 DEF PlanRows
<1>5. "fresh" \notin {}
  OBVIOUS
<1> HIDE DEF PlanRows
<1> QED BY <1>1, <1>2, <1>3, <1>4, <1>5, BeginKeeps

LEMMA RequestKeeps == ASSUME RoutingInv, NEW r \in Slot, Request(r) PROVE RoutingInv'
<1>0. saved \in Policy /\ Policies \subseteq Policy /\ {} \subseteq {"fresh"}
  BY ConstantsAssumption DEF RoutingInv, TypeOK
<1>1. CASE SaveSettings(r)
  <2>1. PICK pol \in Policies :
           Ask(r, "settings", [saved EXCEPT !.nft = pol.nft, !.host = pol.host],
               SettingsSteps([saved EXCEPT !.nft = pol.nft, !.host = pol.host]))
    BY <1>1 DEF SaveSettings
  <2> DEFINE new == [saved EXCEPT !.nft = pol.nft, !.host = pol.host]
  <2>2. new \in Policy
    BY <1>0 DEF Policy
  <2>3. Ask(r, "settings", new, SettingsSteps(new))
    BY <2>1
  <2> HIDE DEF new
  <2>4. Outlined({"fresh"}, SettingsSteps(new), {}, new)
    BY <1>0, SettingsOutline, Weakened
  <2> QED BY <2>2, <2>3, <2>4, AskKeeps
<1>2. CASE SavePolicy(r)
  <2>1. PICK pol \in Policies :
           Ask(r, "policy", [saved EXCEPT !.kill = pol.kill, !.inverse = pol.inverse,
                                 !.sources = pol.sources, !.domains = pol.domains],
               PolicySteps([saved EXCEPT !.kill = pol.kill, !.inverse = pol.inverse,
                                 !.sources = pol.sources, !.domains = pol.domains]))
    BY <1>2 DEF SavePolicy
  <2> DEFINE new == [saved EXCEPT !.kill = pol.kill, !.inverse = pol.inverse,
                                 !.sources = pol.sources, !.domains = pol.domains]
  <2>2. new \in Policy
    BY <1>0 DEF Policy
  <2>3. Ask(r, "policy", new, PolicySteps(new))
    BY <2>1
  <2> HIDE DEF new
  <2> QED BY <2>2, <2>3, PolicyOutline, AskKeeps
<1>3. CASE SaveSources(r)
  <2>1. PICK pol \in Policies : Ask(r, "sources", [saved EXCEPT !.sources = pol.sources],
                                    SourceSteps([saved EXCEPT !.sources = pol.sources]))
    BY <1>3 DEF SaveSources
  <2> DEFINE new == [saved EXCEPT !.sources = pol.sources]
  <2>2. new \in Policy
    BY <1>0 DEF Policy
  <2>3. Ask(r, "sources", new, SourceSteps(new))
    BY <2>1
  <2> HIDE DEF new
  <2> QED BY <2>2, <2>3, SourceOutline, AskKeeps
<1>4. CASE RefreshGeoip(r)
  <2>1. Outlined({"fresh"}, SyncSets(saved, FALSE), {}, saved)
    BY FreshSets
  <2> QED BY <1>0, <1>4, <2>1, AskKeeps DEF RefreshGeoip
<1>5. CASE ApplyPlan(r)
  <2> DEFINE steps == << <<"if", "safe">> >> \o Apply(saved)
  <2>1. Outlined({"fresh"}, << <<"if", "safe">> >>, {}, saved)
    <3>1. Outlined({}, << <<"if", "safe">> >>, {}, saved)
      BY PlainStep DEF Plain
    <3> QED BY <3>1, <1>0, Weakened
  <2>2. Outlined({"fresh"}, steps, {}, saved)
    BY <2>1, ApplyOutline, Chained
  <2>3. Ask(r, "apply", saved, steps)
    BY <1>5 DEF ApplyPlan
  <2> HIDE DEF steps
  <2> QED BY <1>0, <2>2, <2>3, AskKeeps
<1>6. CASE SetKill(r)
  <2> DEFINE new == [saved EXCEPT !.kill = ~@]
  <2>1. new \in Policy /\ Ask(r, "kill", new, KillSteps(new))
    BY <1>0, <1>6 DEF Policy, SetKill
  <2> HIDE DEF new
  <2>2. Outlined({"fresh"}, KillSteps(new), {}, new)
    BY <1>0, KillOutline, Weakened
  <2> QED BY <2>1, <2>2, AskKeeps
<1>7. CASE SetOn(r)
  <2> DEFINE new == [saved EXCEPT !.on = TRUE]
  <2>1. new \in Policy /\ Ask(r, "on", new, OnSteps(new))
    BY <1>0, <1>7 DEF Policy, SetOn
  <2> HIDE DEF new
  <2>2. Outlined({"fresh"}, OnSteps(new), {}, new)
    BY <1>0, OnOutline, Weakened
  <2> QED BY <2>1, <2>2, AskKeeps
<1>8. CASE SetOff(r)
  <2> DEFINE new == [saved EXCEPT !.on = FALSE]
  <2>1. new \in Policy /\ Ask(r, "off", new, OffSteps(new))
    BY <1>0, <1>8 DEF Policy, SetOff
  <2> HIDE DEF new
  <2>2. Outlined({"fresh"}, OffSteps(new), {}, new)
    BY <1>0, OffOutline, Weakened
  <2> QED BY <2>1, <2>2, AskKeeps
<1>9. CASE StartNode(r)
  <2>1. Outlined({"fresh"}, StartSteps(saved), {}, saved)
    BY <1>0, StartOutline, Weakened
  <2> QED BY <1>0, <1>9, <2>1, AskKeeps DEF StartNode
<1>10. CASE StopNode(r)
  <2>1. Outlined({"fresh"}, StopSteps(saved), {}, saved)
    BY <1>0, StopOutline, Weakened
  <2> QED BY <1>0, <1>10, <2>1, AskKeeps DEF StopNode
<1>11. CASE ForceDevice(r)
  <2>1. PICK f \in {"none", "local", "vpn"} : Ask(r, "device", [saved EXCEPT !.forced = f],
                                                  PassOrApply([saved EXCEPT !.forced = f]))
    BY <1>11 DEF ForceDevice
  <2> DEFINE new == [saved EXCEPT !.forced = f]
  <2>2. new \in Policy /\ Ask(r, "device", new, PassOrApply(new))
    BY <1>0, <2>1 DEF Policy
  <2> HIDE DEF new
  <2>3. Outlined({"fresh"}, PassOrApply(new), {}, new)
    BY <1>0, PassOrApplyOutline, Weakened
  <2> QED BY <2>2, <2>3, AskKeeps
<1>12. CASE ActivateNode(r)
  <2>1. PICK n \in Node : /\ Begin(r, "start", [saved EXCEPT !.node = n],
                                   StartSteps([saved EXCEPT !.node = n]))
                          /\ flushed' = [by |-> r, node |-> n]
    BY <1>12 DEF ActivateNode
  <2>2. flushed' \in Flush /\ saved' = saved /\ done' = done
    BY <1>12, <2>1 DEF ActivateNode, Flush, Worker
  <2> QED BY <2>1, <2>2, MovedKeeps
<1>13. CASE SelectNode(r)
  <2>1. PICK n \in Node : Ask(r, "start", [saved EXCEPT !.node = n], <<>>)
    BY <1>13 DEF SelectNode
  <2> DEFINE new == [saved EXCEPT !.node = n]
  <2>2. new \in Policy /\ Ask(r, "start", new, <<>>)
    BY <1>0, <2>1 DEF Policy
  <2> HIDE DEF new
  <2>3. Outlined({"fresh"}, <<>>, {}, new)
    BY Nothing
  <2> QED BY <2>2, <2>3, AskKeeps
<1>14. CASE Failover(r)
  <2>1. PICK n \in Node : Begin(r, "failover", [saved EXCEPT !.node = n],
                                StartSteps([saved EXCEPT !.node = n]))
    BY <1>14 DEF Failover
  <2>2. flushed' \in Flush /\ saved' = saved /\ done' = done
    BY <1>14, FlushLater DEF Failover
  <2> QED BY <2>1, <2>2, MovedKeeps
<1> QED BY <1>1, <1>2, <1>3, <1>4, <1>5, <1>6, <1>7, <1>8, <1>9, <1>10, <1>11, <1>12, <1>13, <1>14
        DEF Request
=============================================================================
