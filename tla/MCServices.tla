------------------------------ MODULE MCServices ------------------------------
(***************************************************************************)
(* Instance of Services for TLC, a few values for each constant.  Since    *)
(* the services share no state, a behaviour of the run is one of a single  *)
(* service, which its first state names: the run checks their sum and not  *)
(* their product.  Each of its behaviours is one of ServicesSpec.          *)
(***************************************************************************)
EXTENDS Services, TLC

CONSTANTS
    a, e, h, k, l, m, n, p, q, u, v, w, x, y, za, zb, ru, by   \* model values of the instance

---------------------------------------------------------------------------
(* Instance: two clients' addresses and what a cycle may find there *)

MCFlow == {<<x, 1>>, <<y, 1>>, <<x, 2>>}
Table(first, second) == [i \in {x, y} |-> IF i = x THEN first ELSE second]
Bytes(x1, x2, y1) == [f \in MCFlow |-> CASE f = <<x, 1>> -> x1 [] f = <<x, 2>> -> x2 [] OTHER -> y1]
Sight(neigh, here, seen) == [neigh |-> neigh, here |-> here, seen |-> seen]
MCSights ==
    {Sight(t, {}, b) : t \in {Table(m, "none"), Table("none", m), Table(m, n)},
                       b \in {Bytes(2, 1, 2), Bytes(0, 1, 1)}}
    \cup {Sight(Table(m, m), {}, Bytes(2, 1, 2)), Sight(Table("none", m), {y}, Bytes(1, -1, -1)),
          Sight(Table(n, m), {x, y}, Bytes(-1, -1, 2))}

\* An encrypted zone with a rule, beside a manual address that is switched off
Plain(server) == [proto |-> "plain", server |-> server]
MCZones == [z \in {"local", "vpn", za, zb} |->
    CASE z = "local" -> Plain(u) [] z = "vpn" -> Plain(v)
      [] z = za -> [proto |-> "dot", server |-> u] [] OTHER -> NoZone]
MCRows == [rules  |-> <<[name |-> a, zone |-> za, on |-> TRUE], NoDnsRow>>,
           manual |-> <<[name |-> a, zone |-> "none", on |-> FALSE], NoDnsRow>>]
MCDatabases == {[zones |-> MCZones, rows |-> MCRows]}

MCSpan == [g \in Granularity |-> CASE g = "minute" -> 1 [] g = "hour" -> 2 [] OTHER -> 4]
MCKeep == [g \in Granularity |-> CASE g = "minute" -> 3 [] g = "hour" -> 3 [] OTHER -> 8]

MCFirst == [code |-> ru, url |-> u, on |-> TRUE]

---------------------------------------------------------------------------

VARIABLE service

MCInit ==
    /\ service \in {"devices", "dns", "traffic", "peers", "geoip", "gateway dns", "backups"}
    /\ ServicesInit /\ uplink = e

MCNext ==
    /\ UNCHANGED service
    /\ \/ service = "devices" /\ DevicesAlone
       \/ service = "dns" /\ DnsAlone
       \/ service = "traffic" /\ TrafficAlone
       \/ service = "peers" /\ PeersAlone
       \/ service = "geoip" /\ GeoipAlone
       \/ service = "gateway dns" /\ GatewayDnsAlone
       \/ service = "backups" /\ BackupsAlone

MCSpec == MCInit /\ [][MCNext]_<<servicesVars, service>>

\* The requests of a service are interchangeable.
ServicesSymmetry == Permutations({p, q})
================================================================================
