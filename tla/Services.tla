------------------------------- MODULE Services -------------------------------
(***************************************************************************)
(* The services beside the selection of nodes and the routing, together:   *)
(* three of awg-jump and four of awg-gateway.  They share no state, and a  *)
(* step is one of any of them.                                             *)
(***************************************************************************)
EXTENDS DeviceTracking, DnsZones, TrafficCounters, ServerPeers, GeoipZones,
        GatewayDns, GatewayBackups

servicesVars == <<devicesVars, dnsVars, trafficVars, peersVars, geoipVars,
                  gatewayDnsVars, backupVars>>

DevicesAlone ==
    DevicesNext /\ UNCHANGED <<dnsVars, trafficVars, peersVars, geoipVars, gatewayDnsVars, backupVars>>
DnsAlone ==
    DnsNext /\ UNCHANGED <<devicesVars, trafficVars, peersVars, geoipVars, gatewayDnsVars, backupVars>>
TrafficAlone ==
    TrafficNext /\ UNCHANGED <<devicesVars, dnsVars, peersVars, geoipVars, gatewayDnsVars, backupVars>>
PeersAlone ==
    PeersNext /\ UNCHANGED <<devicesVars, dnsVars, trafficVars, geoipVars, gatewayDnsVars, backupVars>>
GeoipAlone ==
    GeoipNext /\ UNCHANGED <<devicesVars, dnsVars, trafficVars, peersVars, gatewayDnsVars, backupVars>>
GatewayDnsAlone ==
    GatewayDnsNext /\ UNCHANGED <<devicesVars, dnsVars, trafficVars, peersVars, geoipVars, backupVars>>
BackupsAlone ==
    BackupsNext /\ UNCHANGED <<devicesVars, dnsVars, trafficVars, peersVars, geoipVars, gatewayDnsVars>>

ServicesInit ==
    /\ DevicesInit /\ DnsInit /\ TrafficInit
    /\ PeersInit /\ GeoipInit /\ GatewayDnsInit /\ BackupsInit

ServicesNext ==
    \/ DevicesAlone \/ DnsAlone \/ TrafficAlone \/ PeersAlone
    \/ GeoipAlone \/ GatewayDnsAlone \/ BackupsAlone

ServicesSpec == ServicesInit /\ [][ServicesNext]_servicesVars

\* Types of the variables of all services
ServicesTypeOK ==
    /\ DevicesTypeOK /\ DnsTypeOK /\ TrafficTypeOK
    /\ PeersTypeOK /\ GeoipTypeOK /\ GatewayDnsTypeOK /\ BackupsTypeOK
================================================================================
