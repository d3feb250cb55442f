-------------------------- MODULE MCGatewayRouting --------------------------
(* Model checking instances of GatewayRouting; the other values of the      *)
(* constants are in the gateway_*.cfg files.                                *)
EXTENDS GatewayRouting, TLC

CONSTANTS n1, n2

Saved(nft, kill, inverse, sources, domains, forced) ==
    [on |-> TRUE, node |-> n1, nft |-> nft, kill |-> kill, inverse |-> inverse,
     sources |-> sources, domains |-> domains, forced |-> forced, host |-> TRUE]

\* Both backends, both directions of the prefixes, every kind of source.
MCPolicies ==
    { Saved(FALSE, TRUE, FALSE, {"geoip", "manual"}, TRUE, "none"),
      Saved(TRUE, TRUE, TRUE, {"manual"}, TRUE, "local"),
      Saved(TRUE, FALSE, FALSE, {}, FALSE, "none") }

\* The nftables backend alone, with the kill switch
MCNftPolicies == { pol \in MCPolicies : pol.nft /\ pol.kill }

\* Handlers are interchangeable.
SlotSymmetry == Permutations(Slot)
=============================================================================
