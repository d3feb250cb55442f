---------------------------- MODULE ServicesProofs ----------------------------
(***************************************************************************)
(* All services together keep what each of them keeps alone, for any       *)
(* interleaving of their steps: the composition implements each service,   *)
(* and the theorems about the services carry over.                         *)
(***************************************************************************)
EXTENDS Services, GatewayServicesProofs, JumpServicesProofs

\* A step of the composition is, for each service, a step of that service or one
\* that leaves its variables alone.
LEMMA StepOfEach ==
    [ServicesNext]_servicesVars =>
        /\ [DevicesNext]_devicesVars /\ [DnsNext]_dnsVars /\ [TrafficNext]_trafficVars
        /\ [PeersNext]_peersVars /\ [GeoipNext]_geoipVars
        /\ [GatewayDnsNext]_gatewayDnsVars /\ [BackupsNext]_backupVars
BY DEF ServicesNext, servicesVars, DevicesAlone, DnsAlone, TrafficAlone, PeersAlone,
       GeoipAlone, GatewayDnsAlone, BackupsAlone

\* Each service behaves in the composition as its own specification says, whatever
\* the others do in between.
THEOREM EachService ==
    ServicesSpec => /\ DevicesSpec /\ DnsSpec /\ TrafficSpec /\ PeersSpec
                    /\ GeoipSpec /\ GatewayDnsSpec /\ BackupsSpec
<1>1. ServicesInit => /\ DevicesInit /\ DnsInit /\ TrafficInit /\ PeersInit
                      /\ GeoipInit /\ GatewayDnsInit /\ BackupsInit
  BY DEF ServicesInit
<1> QED
  BY <1>1, StepOfEach, PTL DEF ServicesSpec, DevicesSpec, DnsSpec, TrafficSpec, PeersSpec,
     GeoipSpec, GatewayDnsSpec, BackupsSpec

\* The variables of all services stay in their types.
THEOREM ServicesTypeCorrect == ServicesSpec => []ServicesTypeOK
<1>1. /\ DevicesTypeOK /\ DnsTypeOK /\ TrafficTypeOK
      /\ PeersTypeOK /\ GeoipTypeOK /\ GatewayDnsTypeOK /\ BackupsTypeOK
      => ServicesTypeOK
  BY DEF ServicesTypeOK
<1> QED
  BY <1>1, EachService, DevicesTypeCorrect, DnsTypeCorrect, TrafficTypeCorrect,
     PeersTypeCorrect, GeoipTypeCorrect, ResolverTypeCorrect, BackupsTypeCorrect, PTL

\* What the services of awg-jump promise, they promise beside all the others.
THEOREM JumpServicesTogether ==
    ServicesSpec => /\ []KernelFollowsPeers /\ []AddressesDistinct
                    /\ []LocalZoneFollows /\ []ExclusionsRespected
                    /\ []ZonesConsistent /\ []ResolverFollowsRows
BY EachService, KernelFollowsCommitted, AddressesStayDistinct, ZoneCorrect, ExclusionsCorrect,
   ConsistentZones, ResolverFollows, PTL

\* What the services of awg-gateway promise, they promise beside all the others.
THEOREM GatewayServicesTogether ==
    ServicesSpec => /\ []ResolverCurrent /\ []TotalsHonest /\ []BucketsAgree
                    /\ []SessionsShareDatabase /\ []RecordsHaveArchives /\ PruneKeepsEnough
                    /\ []OverridesCurrent /\ []BytesKept
BY EachService, ResolverCorrect, TotalsCorrect, BucketsCorrect, SessionsCorrect, RecordsCorrect,
   PruningCorrect, OverridesCorrect, BytesCorrect, PTL
================================================================================
