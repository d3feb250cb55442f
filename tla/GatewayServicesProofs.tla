----------------------- MODULE GatewayServicesProofs -----------------------
(***************************************************************************)
(* Proofs about services of awg-gateway that keep files, processes and     *)
(* totals: the resolver follows what the operator was told, totals count   *)
(* each byte once, sessions share one database, records have their         *)
(* archives, and the routes of devices are those of their rows.  Each part *)
(* has the inductive invariant of its service, one lemma for each action   *)
(* or group of actions alike, and its theorems.                            *)
(***************************************************************************)
EXTENDS GatewayDns, TrafficCounters, GatewayBackups, DeviceTracking, TLAPS,
        FiniteSetTheorems

---------------------------------------------------------------------------
(* DNS of awg-gateway *)

CallPhase == {"commit", "locked", "stop", "read", "render", "add"}
LiveCall == [phase : CallPhase, kind : {"change", "zone", "bulk", "reload"}, clean : BOOLEAN]
Call == {NoCall} \cup LiveCall

ResolverTypeInv == GatewayDnsTypeOK /\ calls \in [CallSlot -> Call]

\* A running process has left its file.
Filed == dnsmasq # Off => pidFile

\* A restart that nobody overlapped so far is the only one, has the port for itself, and
\* has the proxies on the committed rows once it has read these.
Undisturbed(s) ==
    Restarting(s) /\ calls[s].clean =>
        /\ \A r \in CallSlot : r # s => ~Restarting(r)
        /\ dnsmasq = Off
        /\ calls[s].phase = "render" => dnsProxies = dnsVersion

ResolverInv == Filed /\ (\A s \in CallSlot : Undisturbed(s)) /\ ResolverCurrent

\* A request is idle or has all its fields.
LEMMA CallKinds ==
    ASSUME NEW c \in Call
    PROVE  /\ c.phase = "idle" <=> c = NoCall
           /\ c # NoCall => c \in LiveCall
<1>1. CASE c = NoCall
  BY <1>1 DEF NoCall
<1>2. CASE c \in LiveCall
  BY <1>2 DEF LiveCall, CallPhase, NoCall
<1> QED BY <1>1, <1>2 DEF Call

\* A request that goes on, and one that is overlapped
LEMMA CallMoved ==
    ASSUME NEW c \in LiveCall, NEW phase \in CallPhase
    PROVE  /\ [c EXCEPT !.phase = phase] \in LiveCall
           /\ [c EXCEPT !.phase = phase].phase = phase
           /\ [c EXCEPT !.phase = phase].clean = c.clean
           /\ [c EXCEPT !.phase = phase].kind = c.kind
           /\ [c EXCEPT !.clean = FALSE] \in LiveCall
           /\ [c EXCEPT !.clean = FALSE].phase = c.phase
           /\ ~[c EXCEPT !.clean = FALSE].clean
           /\ [c EXCEPT !.clean = FALSE].kind = c.kind
BY DEF LiveCall

\* What a step on one request makes of the others
LEMMA StaleCalls ==
    ASSUME calls \in [CallSlot -> Call], NEW s \in CallSlot
    PROVE  /\ Stale(s) \in [CallSlot -> Call]
           /\ Stale(s)[s] = calls[s]
           /\ \A r \in CallSlot : Stale(s)[r].phase = calls[r].phase
           /\ \A r \in CallSlot : r # s /\ calls[r] # NoCall => ~Stale(s)[r].clean
<1> DEFINE S(r) == IF r # s /\ calls[r] # NoCall THEN [calls[r] EXCEPT !.clean = FALSE] ELSE calls[r]
<1>1. ASSUME NEW r \in CallSlot
      PROVE  /\ S(r) \in Call /\ S(r).phase = calls[r].phase
             /\ r # s /\ calls[r] # NoCall => ~S(r).clean
  <2>1. CASE r # s /\ calls[r] # NoCall
    <3>1. calls[r] \in LiveCall
      BY <2>1, CallKinds
    <3>2. S(r) = [calls[r] EXCEPT !.clean = FALSE]
      BY <2>1
    <3> HIDE DEF S
    <3>3. "add" \in CallPhase
      BY DEF CallPhase
    <3> QED BY <3>1, <3>2, <3>3, CallMoved DEF Call
  <2>2. CASE ~(r # s /\ calls[r] # NoCall)
    BY <2>2
  <2> QED BY <2>1, <2>2
<1>2. Stale(s) = [r \in CallSlot |-> S(r)]
  BY DEF Stale
<1>3. S(s) = calls[s]
  OBVIOUS
<1> HIDE DEF S
<1> QED BY <1>1, <1>2, <1>3

\* One request of f takes the value c.
LEMMA CallSet ==
    ASSUME NEW f \in [CallSlot -> Call], NEW s \in CallSlot, NEW c \in Call
    PROVE  /\ [f EXCEPT ![s] = c] \in [CallSlot -> Call]
           /\ [f EXCEPT ![s] = c][s] = c
           /\ \A r \in CallSlot : r # s => [f EXCEPT ![s] = c][r] = f[r]
OBVIOUS

\* What the requests are after a step of one of them: the others stay, or are overlapped.
Others(s) ==
    /\ calls' \in [CallSlot -> Call]
    /\ \A r \in CallSlot : r # s => calls'[r].phase = calls[r].phase

Untouched(s) == Others(s) /\ \A r \in CallSlot : r # s => calls'[r] = calls[r]
Overlapped(s) == Others(s) /\ \A r \in CallSlot : r # s /\ calls[r] # NoCall => ~calls'[r].clean

LEMMA CallStep ==
    ASSUME calls \in [CallSlot -> Call], NEW s \in CallSlot
    PROVE  /\ DnsCall(s) => Untouched(s) /\ calls[s].phase = "idle" /\ calls'[s].phase \in {"stop", "commit"}
           /\ CommitCall(s) => Overlapped(s) /\ calls'[s].phase = "stop"
           /\ BulkFlush(s) => Untouched(s) /\ calls'[s].phase = "locked"
           /\ ZoneConflict(s) => Untouched(s) /\ calls'[s].phase = "idle"
           /\ StopResolver(s) =>
                 /\ calls'[s].phase = "read"
                 /\ IF \E r \in CallSlot : Restarting(r) THEN Overlapped(s) /\ ~calls'[s].clean
                    ELSE Untouched(s)
           /\ SyncProxies(s) => Untouched(s) /\ calls'[s].phase = "render" /\ calls'[s].clean = calls[s].clean
           /\ ProxyStartFails(s) => Untouched(s) /\ calls'[s].phase = "idle"
           /\ StartResolver(s) => Untouched(s) /\ calls'[s].phase \in {"add", "idle"}
           /\ PortTaken(s) => Untouched(s) /\ calls'[s].phase = "idle"
           /\ ResolverStartFails(s) => Untouched(s) /\ calls'[s].phase = "idle"
           /\ AddDomains(s) => Overlapped(s) /\ calls'[s].phase = "idle"
<1>1. NoCall \in Call /\ NoCall.phase = "idle"
  BY DEF Call, NoCall
<1>2. calls[s].phase # "idle" => calls[s] \in LiveCall
  BY CallKinds
<1>3. /\ Stale(s) \in [CallSlot -> Call] /\ Stale(s)[s] = calls[s]
      /\ \A r \in CallSlot : Stale(s)[r].phase = calls[r].phase
      /\ \A r \in CallSlot : r # s /\ calls[r] # NoCall => ~Stale(s)[r].clean
  BY StaleCalls
<1> DEFINE M(p) == [calls[s] EXCEPT !.phase = p]
<1>4. ASSUME calls[s].phase # "idle", NEW p \in CallPhase
      PROVE  M(p) \in LiveCall /\ M(p) \in Call /\ M(p).phase = p /\ M(p).clean = calls[s].clean
             /\ M(p).kind = calls[s].kind
  <2>1. calls[s] \in LiveCall
    BY <1>2, <1>4
  <2> QED BY <1>4, <2>1, CallMoved DEF Call, M
<1> HIDE DEF M
<1> DEFINE T == Stale(s)
<1>5. ASSUME NEW c \in Call, calls' = [T EXCEPT ![s] = c]
      PROVE  Overlapped(s) /\ calls'[s] = c
  BY <1>3, <1>5, CallSet DEF Overlapped, Others
<1>6. ASSUME NEW c \in Call, calls' = [calls EXCEPT ![s] = c]
      PROVE  Untouched(s) /\ calls'[s] = c
  BY <1>6, CallSet DEF Untouched, Others
<1> HIDE DEF T
<1>7. \A p : [calls EXCEPT ![s].phase = p] = [calls EXCEPT ![s] = M(p)]
  BY DEF M
<1>8. \A p : [T EXCEPT ![s].phase = p] = [T EXCEPT ![s] = M(p)]
  BY <1>3 DEF M, T
<1>9. CallPhase = {"commit", "locked", "stop", "read", "render", "add"}
  BY DEF CallPhase
<1>10. DnsCall(s) => Untouched(s) /\ calls[s].phase = "idle" /\ calls'[s].phase \in {"stop", "commit"}
  <2> SUFFICES ASSUME DnsCall(s)
               PROVE  Untouched(s) /\ calls[s].phase = "idle" /\ calls'[s].phase \in {"stop", "commit"}
    OBVIOUS
  <2>1. PICK kind \in {"change", "zone", "bulk", "reload"} :
          /\ calls[s] = NoCall
          /\ calls' = [calls EXCEPT ![s] =
                [phase |-> IF kind = "reload" THEN "stop" ELSE "commit", kind |-> kind, clean |-> TRUE]]
    BY DEF DnsCall
  <2> DEFINE c == [phase |-> IF kind = "reload" THEN "stop" ELSE "commit", kind |-> kind, clean |-> TRUE]
  <2>2. c \in Call /\ c.phase \in {"stop", "commit"}
    BY DEF Call, LiveCall, CallPhase
  <2> HIDE DEF c
  <2>3. calls' = [calls EXCEPT ![s] = c]
    BY <2>1 DEF c
  <2> QED BY <1>1, <1>6, <2>1, <2>2, <2>3
<1>11. CommitCall(s) => Overlapped(s) /\ calls'[s].phase = "stop"
  <2>1. CommitCall(s) => calls' = [T EXCEPT ![s] = M("stop")] /\ calls[s].phase # "idle"
    BY <1>8 DEF CommitCall, T
  <2> QED BY <2>1, <1>4, <1>5, <1>9
<1>12. BulkFlush(s) => Untouched(s) /\ calls'[s].phase = "locked"
  <2>1. BulkFlush(s) => calls' = [calls EXCEPT ![s] = M("locked")] /\ calls[s].phase # "idle"
    BY <1>7 DEF BulkFlush
  <2> QED BY <2>1, <1>4, <1>6, <1>9
<1>13. ASSUME ZoneConflict(s) \/ ProxyStartFails(s) \/ PortTaken(s) \/ ResolverStartFails(s)
       PROVE  Untouched(s) /\ calls'[s].phase = "idle"
  <2>1. calls' = [calls EXCEPT ![s] = NoCall]
    BY <1>13 DEF ZoneConflict, ProxyStartFails, PortTaken, ResolverStartFails
  <2> QED BY <2>1, <1>1, <1>6
<1>14. ASSUME StopResolver(s)
       PROVE  /\ calls'[s].phase = "read"
              /\ IF \E r \in CallSlot : Restarting(r) THEN Overlapped(s) /\ ~calls'[s].clean
                 ELSE Untouched(s)
  <2>0. calls[s].phase # "idle" /\ "read" \in CallPhase
    BY <1>14, <1>9 DEF StopResolver
  <2>1. CASE \E r \in CallSlot : Restarting(r)
    <3> DEFINE c == [M("read") EXCEPT !.clean = FALSE]
    <3>1. M("read") \in LiveCall /\ M("read").phase = "read"
      BY <2>0, <1>4
    <3>2. c \in Call /\ c.phase = "read" /\ ~c.clean
      BY <3>1, <2>0, CallMoved DEF Call
    <3>3. calls' = [T EXCEPT ![s].phase = "read", ![s].clean = FALSE]
      BY <2>1, <1>14 DEF StopResolver, T
    <3>4. [T EXCEPT ![s].phase = "read", ![s].clean = FALSE] = [T EXCEPT ![s] = c]
      BY <1>3 DEF T, M
    <3> HIDE DEF c
    <3>5. calls' = [T EXCEPT ![s] = c]
      BY <3>3, <3>4
    <3>6. Overlapped(s) /\ calls'[s] = c
      BY <3>2, <3>5, <1>5
    <3> QED BY <3>2, <3>6, <2>1
  <2>2. CASE ~\E r \in CallSlot : Restarting(r)
    <3>1. calls' = [calls EXCEPT ![s] = M("read")]
      BY <2>2, <1>14, <1>7 DEF StopResolver
    <3>2. M("read") \in Call /\ M("read").phase = "read"
      BY <2>0, <1>4
    <3>3. Untouched(s) /\ calls'[s] = M("read")
      BY <3>1, <3>2, <1>6
    <3> QED BY <3>2, <3>3, <2>2
  <2> QED BY <2>1, <2>2
<1>15. SyncProxies(s) => Untouched(s) /\ calls'[s].phase = "render" /\ calls'[s].clean = calls[s].clean
  <2>1. SyncProxies(s) => calls' = [calls EXCEPT ![s] = M("render")] /\ calls[s].phase # "idle"
    BY <1>7 DEF SyncProxies
  <2> QED BY <2>1, <1>4, <1>6, <1>9
<1>16. StartResolver(s) => Untouched(s) /\ calls'[s].phase \in {"add", "idle"}
  <2>1. StartResolver(s) => calls' = [calls EXCEPT ![s] = IF calls[s].kind = "zone" THEN M("add") ELSE NoCall]
                            /\ calls[s].phase # "idle"
    BY DEF StartResolver, M
  <2>2. StartResolver(s) => calls' = [calls EXCEPT ![s] = M("add")] \/ calls' = [calls EXCEPT ![s] = NoCall]
    BY <2>1
  <2> QED BY <2>1, <2>2, <1>1, <1>4, <1>6, <1>9
<1>17. AddDomains(s) => Overlapped(s) /\ calls'[s].phase = "idle"
  BY <1>1, <1>5 DEF AddDomains, T
<1> QED BY <1>10, <1>11, <1>12, <1>13, <1>14, <1>15, <1>16, <1>17

\* The steps of one request
CallSteps(s) ==
    \/ DnsCall(s) \/ CommitCall(s) \/ BulkFlush(s) \/ ZoneConflict(s)
    \/ StopResolver(s) \/ SyncProxies(s) \/ ProxyStartFails(s)
    \/ StartResolver(s) \/ PortTaken(s) \/ ResolverStartFails(s) \/ AddDomains(s)

\* A crash of a process overlaps the restarts that are under way.
LEMMA CrashCalls ==
    ASSUME calls \in [CallSlot -> Call], ProcessCrash
    PROVE  /\ calls' \in [CallSlot -> Call]
           /\ \A s \in CallSlot : calls'[s].phase = calls[s].phase
           /\ \A s \in CallSlot : Restarting(s) => ~calls'[s].clean
<1> DEFINE C(s) == IF Restarting(s) THEN [calls[s] EXCEPT !.clean = FALSE] ELSE calls[s]
<1>1. calls' = [s \in CallSlot |-> C(s)]
  BY DEF ProcessCrash
<1>2. ASSUME NEW s \in CallSlot
      PROVE  /\ C(s) \in Call /\ C(s).phase = calls[s].phase
             /\ Restarting(s) => ~C(s).clean
  <2>1. CASE Restarting(s)
    <3>1. calls[s] \in LiveCall /\ "add" \in CallPhase
      BY <2>1, CallKinds DEF Restarting, CallPhase, NoCall
    <3> QED BY <2>1, <3>1, CallMoved DEF Call
  <2>2. CASE ~Restarting(s)
    BY <2>2
  <2> QED BY <2>1, <2>2
<1> HIDE DEF C
<1> QED BY <1>1, <1>2

LEMMA ResolverTypeStep ==
    ASSUME ResolverTypeInv, GatewayDnsNext
    PROVE  ResolverTypeInv'
<1>1. /\ dnsVersion \in Nat /\ {dnsmasq, dnsProxies} \subseteq {Off} \cup (0..dnsVersion)
      /\ {handle, pidFile, stained} \subseteq BOOLEAN
      /\ writeLock \in CallSlot \cup {"none"} /\ "none" \notin CallSlot
      /\ calls \in [CallSlot -> Call]
      /\ \A s \in CallSlot : writeLock = s <=> calls[s].phase = "locked"
  BY GatewayDnsAssumption DEF ResolverTypeInv, GatewayDnsTypeOK
<1>2. /\ dnsVersion' \in Nat /\ {dnsmasq', dnsProxies'} \subseteq {Off} \cup (0..dnsVersion')
      /\ {handle', pidFile', stained'} \subseteq BOOLEAN
  <2>0. ASSUME dnsVersion' \in {dnsVersion, dnsVersion + 1},
               {dnsmasq', dnsProxies'} \subseteq {dnsmasq, dnsProxies, Off, dnsVersion}
        PROVE  dnsVersion' \in Nat /\ {dnsmasq', dnsProxies'} \subseteq {Off} \cup (0..dnsVersion')
    <3>1. dnsVersion \in Nat /\ dnsVersion' \in Nat /\ dnsVersion <= dnsVersion'
      BY <1>1, <2>0
    <3>2. \A n : n \in {Off} \cup (0..dnsVersion) => n \in {Off} \cup (0..dnsVersion')
      BY <3>1
    <3>3. dnsVersion \in {Off} \cup (0..dnsVersion)
      BY <3>1
    <3> HIDE DEF Off
    <3> QED BY <1>1, <2>0, <3>1, <3>2, <3>3
  <2>1. ASSUME NEW s \in CallSlot, CallSteps(s)
        PROVE  /\ dnsVersion' \in Nat /\ {dnsmasq', dnsProxies'} \subseteq {Off} \cup (0..dnsVersion')
               /\ {handle', pidFile'} \subseteq BOOLEAN
    <3>1. dnsVersion' \in {dnsVersion, dnsVersion + 1}
      BY <2>1 DEF CallSteps, DnsCall, CommitCall, BulkFlush, ZoneConflict, StopResolver, SyncProxies,
         ProxyStartFails, StartResolver, PortTaken, ResolverStartFails, AddDomains
    <3>2. dnsmasq' \in {dnsmasq, Off, dnsVersion} /\ dnsProxies' \in {dnsProxies, Off, dnsVersion}
      BY <2>1 DEF CallSteps, DnsCall, CommitCall, BulkFlush, ZoneConflict, StopResolver, SyncProxies,
         ProxyStartFails, StartResolver, PortTaken, ResolverStartFails, AddDomains, AfterStop
    <3>3. handle' \in {handle, TRUE, FALSE} /\ pidFile' \in {pidFile, TRUE, FALSE}
      BY <2>1, Zenon DEF CallSteps, DnsCall, CommitCall, BulkFlush, ZoneConflict, StopResolver, SyncProxies,
         ProxyStartFails, StartResolver, PortTaken, ResolverStartFails, AddDomains
    <3> QED BY <1>1, <2>0, <3>1, <3>2, <3>3
  <2>2. ASSUME NEW s \in CallSlot, CallSteps(s)
        PROVE  stained' \in BOOLEAN
    <3>1. stained' \in {stained, TRUE, ~calls[s].clean}
      BY <1>1, <2>2, Zenon DEF CallSteps, DnsCall, CommitCall, BulkFlush, ZoneConflict, StopResolver, SyncProxies,
         ProxyStartFails, StartResolver, PortTaken, ResolverStartFails, AddDomains
    <3> QED BY <3>1, <1>1
  <2>3. ASSUME ProcessCrash \/ DnsBackendRestart
        PROVE  /\ dnsVersion' \in Nat /\ {dnsmasq', dnsProxies'} \subseteq {Off} \cup (0..dnsVersion')
               /\ {handle', pidFile', stained'} \subseteq BOOLEAN
    <3>1. dnsVersion' = dnsVersion /\ {dnsmasq', dnsProxies'} \subseteq {dnsmasq, dnsProxies, Off, dnsVersion}
      BY <2>3 DEF ProcessCrash, DnsBackendRestart
    <3>2. handle' \in {handle, TRUE} /\ pidFile' \in {pidFile, TRUE} /\ stained' \in {TRUE, FALSE}
      BY <2>3, Zenon DEF ProcessCrash, DnsBackendRestart
    <3> QED BY <1>1, <2>0, <3>1, <3>2
  <2> QED BY <2>1, <2>2, <2>3 DEF GatewayDnsNext, CallSteps
<1>3. ASSUME NEW s \in CallSlot, CallSteps(s)
      PROVE  /\ calls' \in [CallSlot -> Call] /\ writeLock' \in CallSlot \cup {"none"}
             /\ \A r \in CallSlot : writeLock' = r <=> calls'[r].phase = "locked"
  <2>1. Others(s)
    BY <1>1, <1>3, CallStep DEF CallSteps, Untouched, Overlapped
  <2>2. CASE BulkFlush(s)
    BY <1>1, <2>1, <2>2, CallStep DEF BulkFlush, Others
  <2>3. CASE ~BulkFlush(s)
    <3>1. writeLock' = writeLock
      BY <1>3, <2>3 DEF CallSteps, DnsCall, CommitCall, ZoneConflict, StopResolver, SyncProxies,
         ProxyStartFails, StartResolver, PortTaken, ResolverStartFails, AddDomains
    <3>2. calls[s].phase # "locked"
      BY <1>1, <1>3, <2>3, CallStep DEF CallSteps, CommitCall, ZoneConflict, StopResolver, SyncProxies,
         ProxyStartFails, StartResolver, PortTaken, ResolverStartFails, AddDomains
    <3>3. calls'[s].phase # "locked"
      BY <1>1, <1>3, <2>3, CallStep DEF CallSteps
    <3> QED BY <1>1, <2>1, <3>1, <3>2, <3>3 DEF Others
  <2> QED BY <2>2, <2>3
<1>4. CASE ProcessCrash
  <2>1. writeLock' = writeLock
    BY <1>4 DEF ProcessCrash
  <2> QED BY <1>1, <1>2, <1>4, <2>1, CrashCalls DEF ResolverTypeInv, GatewayDnsTypeOK
<1>5. CASE DnsBackendRestart
  <2>1. writeLock' = "none" /\ calls' = [s \in CallSlot |-> NoCall]
    BY <1>5 DEF DnsBackendRestart
  <2> QED BY <1>1, <1>2, <2>1 DEF ResolverTypeInv, GatewayDnsTypeOK, Call, NoCall
<1> QED BY <1>2, <1>3, <1>4, <1>5 DEF GatewayDnsNext, CallSteps, ResolverTypeInv, GatewayDnsTypeOK

LEMMA ResolverTypeInit == GatewayDnsInit => ResolverTypeInv
<1> SUFFICES ASSUME GatewayDnsInit PROVE ResolverTypeInv
  OBVIOUS
<1>1. /\ calls = [s \in CallSlot |-> NoCall] /\ writeLock = "none" /\ "none" \notin CallSlot
      /\ dnsVersion = 0 /\ dnsmasq = 0 /\ dnsProxies = 0
      /\ handle = TRUE /\ pidFile = TRUE /\ stained = FALSE
  BY GatewayDnsAssumption DEF GatewayDnsInit
<1>2. calls \in [CallSlot -> Call] /\ \A s \in CallSlot : writeLock = s <=> calls[s].phase = "locked"
  BY <1>1 DEF NoCall, Call
<1>3. dnsVersion \in Nat /\ {dnsmasq, dnsProxies} \subseteq {Off} \cup (0..dnsVersion)
  BY <1>1
<1> QED BY <1>1, <1>2, <1>3 DEF ResolverTypeInv, GatewayDnsTypeOK

\* The variables of GatewayDns have their types, and a request holds the lock exactly while it
\* waits for it a second time.
THEOREM ResolverTypeCorrect == GatewayDnsSpec => []GatewayDnsTypeOK
<1>1. ResolverTypeInv /\ [GatewayDnsNext]_gatewayDnsVars => ResolverTypeInv'
  <2>1. CASE UNCHANGED gatewayDnsVars
    BY <2>1 DEF gatewayDnsVars, ResolverTypeInv, GatewayDnsTypeOK
  <2> QED BY <2>1, ResolverTypeStep
<1>2. ResolverTypeInv => GatewayDnsTypeOK
  BY DEF ResolverTypeInv
<1> QED BY <1>1, <1>2, ResolverTypeInit, PTL DEF GatewayDnsSpec

Busy(s) == calls[s].phase \in {"stop", "read", "render", "add"}

LEMMA FiledStep ==
    ASSUME Filed, GatewayDnsNext
    PROVE  Filed'
<1>1. ASSUME NEW s \in CallSlot, CallSteps(s)
      PROVE  dnsmasq' = Off \/ pidFile' \/ (dnsmasq' = dnsmasq /\ pidFile' = pidFile)
  BY <1>1 DEF CallSteps, DnsCall, CommitCall, BulkFlush, ZoneConflict, StopResolver, SyncProxies,
     ProxyStartFails, StartResolver, PortTaken, ResolverStartFails, AddDomains, AfterStop, Filed
<1>2. CASE ProcessCrash \/ DnsBackendRestart
  BY <1>2 DEF ProcessCrash, DnsBackendRestart, Filed
<1> QED BY <1>1, <1>2 DEF GatewayDnsNext, CallSteps, Filed

LEMMA UndisturbedStep ==
    ASSUME ResolverTypeInv, ResolverInv, GatewayDnsNext, NEW r \in CallSlot
    PROVE  Undisturbed(r)'
<1>1. /\ calls \in [CallSlot -> Call] /\ Filed /\ \A s \in CallSlot : Undisturbed(s)
  BY DEF ResolverTypeInv, ResolverInv
<1> SUFFICES ASSUME calls'[r].phase \in {"read", "render"}, calls'[r].clean
             PROVE  /\ \A s \in CallSlot : s # r => calls'[s].phase \notin {"read", "render"}
                    /\ dnsmasq' = Off
                    /\ calls'[r].phase = "render" => dnsProxies' = dnsVersion'
  BY DEF Undisturbed, Restarting
<1>2. ASSUME NEW s \in CallSlot, CallSteps(s), s # r
      PROVE  /\ \A q \in CallSlot : q # r => calls'[q].phase \notin {"read", "render"}
             /\ dnsmasq' = Off
             /\ calls'[r].phase = "render" => dnsProxies' = dnsVersion'
  <2>1. calls'[r].phase = calls[r].phase /\ Restarting(r) /\ calls[r] # NoCall
    BY <1>1, <1>2, CallStep, CallKinds DEF CallSteps, Untouched, Overlapped, Others, Restarting
  <2>2. ~CommitCall(s) /\ ~StopResolver(s) /\ ~AddDomains(s)
    BY <1>1, <1>2, <2>1, CallStep DEF Overlapped
  <2>3. Untouched(s) /\ calls'[r] = calls[r]
    BY <1>1, <1>2, <2>2, CallStep DEF CallSteps, Untouched
  <2>4. /\ \A q \in CallSlot : q # r => ~Restarting(q)
        /\ dnsmasq = Off
        /\ calls[r].phase = "render" => dnsProxies = dnsVersion
    BY <1>1, <2>1, <2>3 DEF Undisturbed
  <2>5. ~Restarting(s)
    BY <1>2, <2>4
  <2>6. /\ DnsCall(s) \/ BulkFlush(s) \/ ZoneConflict(s)
        /\ calls'[s].phase \notin {"read", "render"}
    BY <1>1, <1>2, <2>2, <2>5, CallStep DEF CallSteps, Restarting, SyncProxies, ProxyStartFails,
       StartResolver, PortTaken, ResolverStartFails
  <2>7. dnsmasq' = dnsmasq /\ dnsProxies' = dnsProxies /\ dnsVersion' = dnsVersion
    BY <2>6 DEF DnsCall, BulkFlush, ZoneConflict
  <2> QED BY <2>3, <2>4, <2>6, <2>7 DEF Others, Untouched, Restarting
<1>3. ASSUME CallSteps(r)
      PROVE  /\ \A q \in CallSlot : q # r => calls'[q].phase \notin {"read", "render"}
             /\ dnsmasq' = Off
             /\ calls'[r].phase = "render" => dnsProxies' = dnsVersion'
  <2>1. CASE StopResolver(r)
    <3>1. ~\E s \in CallSlot : Restarting(s)
      BY <1>1, <2>1, CallStep
    <3>2. Untouched(r) /\ calls'[r].phase = "read"
      BY <1>1, <2>1, <3>1, CallStep
    <3>3. dnsmasq' = Off
      BY <1>1, <2>1 DEF StopResolver, AfterStop, Filed
    <3> QED BY <3>1, <3>2, <3>3 DEF Untouched, Others, Restarting
  <2>2. CASE SyncProxies(r)
    <3>1. Untouched(r) /\ calls[r].clean /\ Restarting(r)
      BY <1>1, <2>2, CallStep DEF SyncProxies, Restarting
    <3>2. dnsmasq' = dnsmasq /\ dnsProxies' = dnsVersion /\ dnsVersion' = dnsVersion
      BY <2>2 DEF SyncProxies
    <3> QED BY <1>1, <3>1, <3>2 DEF Undisturbed, Untouched, Others, Restarting
  <2>3. StopResolver(r) \/ SyncProxies(r)
    BY <1>1, <1>3, CallStep DEF CallSteps
  <2> QED BY <2>1, <2>2, <2>3
<1>4. CASE ProcessCrash
  BY <1>1, <1>4, CrashCalls DEF Restarting
<1>5. CASE DnsBackendRestart
  BY <1>5 DEF DnsBackendRestart, NoCall
<1> QED BY <1>2, <1>3, <1>4, <1>5 DEF GatewayDnsNext, CallSteps

LEMMA CurrentStep ==
    ASSUME ResolverTypeInv, ResolverInv, GatewayDnsNext
    PROVE  ResolverCurrent'
<1>1. /\ calls \in [CallSlot -> Call] /\ \A s \in CallSlot : Undisturbed(s)
  BY DEF ResolverTypeInv, ResolverInv
<1>2. (\A s \in CallSlot : ~Busy(s)) /\ ~stained => dnsmasq = dnsVersion /\ dnsProxies = dnsVersion /\ handle
  BY DEF ResolverInv, ResolverCurrent, Busy
<1> SUFFICES ASSUME \A s \in CallSlot : calls'[s].phase \notin {"stop", "read", "render", "add"}, ~stained'
             PROVE  dnsmasq' = dnsVersion' /\ dnsProxies' = dnsVersion' /\ handle'
  BY DEF ResolverCurrent
<1>3. ASSUME NEW s \in CallSlot, CallSteps(s)
      PROVE  dnsmasq' = dnsVersion' /\ dnsProxies' = dnsVersion' /\ handle'
  <2>1. Others(s)
    BY <1>1, <1>3, CallStep DEF CallSteps, Untouched, Overlapped
  <2>2. CASE DnsCall(s) \/ BulkFlush(s)
    <3>1. calls[s].phase \in {"idle", "commit"}
      BY <1>1, <2>2, CallStep DEF BulkFlush
    <3>2. \A r \in CallSlot : ~Busy(r)
      BY <2>1, <3>1 DEF Busy, Others
    <3> QED BY <1>2, <2>2, <3>2 DEF DnsCall, BulkFlush
  <2>3. CASE StartResolver(s) \/ PortTaken(s)
    <3>1. calls[s].phase = "render" /\ calls[s].clean
      BY <2>3 DEF StartResolver, PortTaken
    <3>2. dnsmasq = Off /\ dnsProxies = dnsVersion
      BY <1>1, <3>1 DEF Undisturbed, Restarting
    <3> QED BY <2>3, <3>2 DEF StartResolver, PortTaken
  <2>4. DnsCall(s) \/ BulkFlush(s) \/ StartResolver(s) \/ PortTaken(s)
    BY <1>1, <1>3, CallStep DEF CallSteps, CommitCall, ZoneConflict, StopResolver, SyncProxies,
       ProxyStartFails, ResolverStartFails, AddDomains
  <2> QED BY <2>2, <2>3, <2>4
<1>4. CASE DnsBackendRestart
  BY <1>4 DEF DnsBackendRestart
<1>5. ~ProcessCrash
  BY DEF ProcessCrash
<1> QED BY <1>3, <1>4, <1>5 DEF GatewayDnsNext, CallSteps

\* When no restart is under way, dnsmasq and the proxies serve the committed rows and the
\* backend knows the process, for any number of requests, versions and faults, unless the
\* last restart failed or was overlapped: orphaned processes and restarts that overlapped
\* earlier ones included.
THEOREM ResolverCorrect == GatewayDnsSpec => []ResolverCurrent
<1>1. GatewayDnsInit => ResolverTypeInv /\ ResolverInv
  <2> SUFFICES ASSUME GatewayDnsInit PROVE ResolverTypeInv /\ ResolverInv
    OBVIOUS
  <2>1. \A s \in CallSlot : Undisturbed(s)
    BY DEF GatewayDnsInit, Undisturbed, Restarting, NoCall
  <2> QED BY <2>1, ResolverTypeInit DEF GatewayDnsInit, ResolverInv, Filed, ResolverCurrent
<1>2. ResolverTypeInv /\ ResolverInv /\ [GatewayDnsNext]_gatewayDnsVars => ResolverTypeInv' /\ ResolverInv'
  <2> SUFFICES ASSUME ResolverTypeInv, ResolverInv, [GatewayDnsNext]_gatewayDnsVars
               PROVE  ResolverTypeInv' /\ ResolverInv'
    OBVIOUS
  <2>1. CASE UNCHANGED gatewayDnsVars
    BY <2>1 DEF gatewayDnsVars, ResolverTypeInv, GatewayDnsTypeOK, ResolverInv, Filed, Undisturbed,
       Restarting, ResolverCurrent
  <2>2. CASE GatewayDnsNext
    <3>1. Filed' /\ \A s \in CallSlot : Undisturbed(s)'
      BY <2>2, FiledStep, UndisturbedStep DEF ResolverInv
    <3> QED BY <2>2, <3>1, ResolverTypeStep, CurrentStep DEF ResolverInv
  <2> QED BY <2>1, <2>2
<1>3. ResolverInv => ResolverCurrent
  BY DEF ResolverInv
<1> QED BY <1>1, <1>2, <1>3, PTL DEF GatewayDnsSpec

---------------------------------------------------------------------------
(* Sums *)

One(s) == CHOOSE x \in s : TRUE

\* h sums f over every set of sets, in the order in which a fold takes elements out.
Sums(h, f, sets) ==
    \A s \in sets : h[s] = IF s = {} THEN 0 ELSE f[One(s)] + h[s \ {One(s)}]

LEMMA OneMember == ASSUME NEW s, s # {} PROVE One(s) \in s
BY DEF One

\* A property of sets that a proper superset has if all its proper subsets do, holds of
\* every finite set: the failing ones have no least.
LEMMA LeastSubset ==
    ASSUME NEW S, IsFiniteSet(S), NEW T \in SUBSET SUBSET S, T # {}
    PROVE  \E s \in T : \A t \in T : t \subseteq s => t = s
<1>1. FiniteSubsetsOf(S) = SUBSET S
  BY FS_FiniteSubsetsOfFinite
<1> DEFINE R == StrictSubsetOrdering(S)
<1>2. IsWellFoundedOn(R, SUBSET S)
  BY <1>1, FS_StrictSubsetOrderingWellFounded
<1>3. \E s \in T : \A t \in T : <<t, s>> \notin R
  <2> HIDE DEF R
  <2> QED
    BY <1>2, WFMin
<1>4. PICK s \in T : \A t \in T : <<t, s>> \notin R
  BY <1>3
<1>5. \A t \in T : t \subseteq s => t = s
  BY <1>4 DEF StrictSubsetOrdering
<1> QED
  BY <1>5

LEMMA SumsAgree ==
    ASSUME NEW A, IsFiniteSet(A), NEW B, NEW f, NEW h, NEW g,
           Sums(h, f, SUBSET A), Sums(g, f, SUBSET B)
    PROVE  \A s \in (SUBSET A) \cap (SUBSET B) : h[s] = g[s]
<1> DEFINE T == {s \in (SUBSET A) \cap (SUBSET B) : h[s] # g[s]}
<1>1. SUFFICES ASSUME T # {} PROVE FALSE
  OBVIOUS
<1>2. T \in SUBSET SUBSET A
  OBVIOUS
<1>3. \E s \in T : \A t \in T : t \subseteq s => t = s
  <2> HIDE DEF T
  <2> QED
    BY <1>1, <1>2, LeastSubset
<1>4. PICK s \in T : \A t \in T : t \subseteq s => t = s
  BY <1>3
<1>5. s # {}
  BY <1>4 DEF Sums
<1>6. One(s) \in s
  BY <1>5, OneMember
<1>7. s \ {One(s)} \in (SUBSET A) \cap (SUBSET B) /\ s \ {One(s)} \notin T
  BY <1>4, <1>6
<1>8. h[s \ {One(s)}] = g[s \ {One(s)}]
  BY <1>7
<1>9. h[s] = f[One(s)] + h[s \ {One(s)}] /\ g[s] = f[One(s)] + g[s \ {One(s)}]
  BY <1>4, <1>5 DEF Sums
<1> QED
  BY <1>4, <1>8, <1>9

LEMMA SumsExist ==
    ASSUME NEW S, IsFiniteSet(S), NEW f, \A x \in S : f[x] \in Int
    PROVE  \E h \in [SUBSET S -> Int] : Sums(h, f, SUBSET S)
<1> DEFINE Has(A) == \E h \in [SUBSET A -> Int] : Sums(h, f, SUBSET A)
           T == {A \in SUBSET S : ~Has(A)}
<1>1. SUFFICES ASSUME T # {} PROVE FALSE
  OBVIOUS
<1>2. \E A \in T : \A B \in T : B \subseteq A => B = A
  <2>1. T \in SUBSET SUBSET S
    OBVIOUS
  <2> HIDE DEF T
  <2> QED
    BY <1>1, <2>1, LeastSubset
<1>3. PICK A \in T : \A B \in T : B \subseteq A => B = A
  BY <1>2
<1>4. A \in SUBSET S /\ ~Has(A)
  BY <1>3
<1>5. \A B \in SUBSET A : B # A => Has(B)
  BY <1>3
<1> DEFINE sol(B) == CHOOSE h \in [SUBSET B -> Int] : Sums(h, f, SUBSET B)
<1>6. \A B \in SUBSET A : B # A => sol(B) \in [SUBSET B -> Int] /\ Sums(sol(B), f, SUBSET B)
  BY <1>5
<1> DEFINE val(s) == IF s = {} THEN 0 ELSE f[One(s)] + sol(s \ {One(s)})[s \ {One(s)}]
           k == [s \in SUBSET A |-> val(s)]
<1> HIDE DEF T, Has, sol
<1>7. \A s \in SUBSET A : s # {} =>
          /\ One(s) \in s /\ s \ {One(s)} \in SUBSET A /\ s \ {One(s)} # A
          /\ f[One(s)] \in Int /\ sol(s \ {One(s)})[s \ {One(s)}] \in Int
  <2> SUFFICES ASSUME NEW s \in SUBSET A, s # {}
               PROVE  /\ One(s) \in s /\ s \ {One(s)} \in SUBSET A /\ s \ {One(s)} # A
                      /\ f[One(s)] \in Int /\ sol(s \ {One(s)})[s \ {One(s)}] \in Int
    OBVIOUS
  <2>1. One(s) \in s
    BY OneMember
  <2>2. s \ {One(s)} \in SUBSET A /\ s \ {One(s)} # A /\ f[One(s)] \in Int
    BY <1>4, <2>1
  <2>3. sol(s \ {One(s)}) \in [SUBSET (s \ {One(s)}) -> Int]
    BY <1>6, <2>2
  <2> QED
    BY <2>1, <2>2, <2>3
<1>8. k \in [SUBSET A -> Int]
  BY <1>7
\* What is left when an element is taken out has the sum that its own solution gives it.
<1>9. \A s \in SUBSET A : s # A => k[s] = sol(s)[s]
  <2> SUFFICES ASSUME NEW s \in SUBSET A, s # A PROVE val(s) = sol(s)[s]
    OBVIOUS
  <2>1. Sums(sol(s), f, SUBSET s)
    BY <1>6
  <2>2. CASE s = {}
    BY <2>1, <2>2 DEF Sums
  <2>3. CASE s # {}
    <3> DEFINE u == s \ {One(s)}
    <3>1. One(s) \in s /\ u \in SUBSET A /\ u # A
      BY <1>7, <2>3
    <3>2. Sums(sol(u), f, SUBSET u)
      BY <1>6, <3>1
    <3>3. sol(s)[u] = sol(u)[u]
      <4>1. s \in SUBSET S /\ u \in SUBSET S /\ u \in (SUBSET s) \cap (SUBSET u)
        BY <1>4
      <4> DEFINE hs == sol(s)
                 hu == sol(u)
      <4>2. Sums(hs, f, SUBSET s) /\ Sums(hu, f, SUBSET u)
        BY <2>1, <3>2
      <4>3. IsFiniteSet(s)
        BY <4>1, FS_Subset
      <4> HIDE DEF u, hs, hu
      <4>4. \A t \in (SUBSET s) \cap (SUBSET u) : hs[t] = hu[t]
        BY <4>2, <4>3, SumsAgree
      <4> QED
        BY <4>1, <4>4 DEF hs, hu
    <3>4. sol(s)[s] = f[One(s)] + sol(s)[u]
      BY <2>1, <2>3 DEF Sums
    <3> QED
      BY <2>3, <3>3, <3>4
  <2> QED
    BY <2>2, <2>3
<1>10. Sums(k, f, SUBSET A)
  <2> SUFFICES ASSUME NEW s \in SUBSET A
               PROVE  k[s] = IF s = {} THEN 0 ELSE f[One(s)] + k[s \ {One(s)}]
    BY DEF Sums
  <2>1. k[s] = val(s)
    OBVIOUS
  <2>2. CASE s = {}
    BY <2>1, <2>2
  <2>3. CASE s # {}
    <3>1. k[s \ {One(s)}] = sol(s \ {One(s)})[s \ {One(s)}]
      BY <1>7, <1>9, <2>3
    <3> QED
      BY <2>1, <2>3, <3>1
  <2> QED
    BY <2>2, <2>3
<1> HIDE DEF k
<1> QED
  BY <1>4, <1>8, <1>10 DEF Has

\* SumFunctionOnSet, a fold, is such a sum.
LEMMA SumIs ==
    ASSUME NEW S, IsFiniteSet(S), NEW f, NEW h \in [SUBSET S -> Int], Sums(h, f, SUBSET S)
    PROVE  SumFunctionOnSet(f, S) = h[S]
<1> DEFINE good(iter) == iter = [s \in SUBSET S |->
                           IF s = {} THEN 0
                           ELSE f[CHOOSE x \in s : TRUE] + iter[s \ {CHOOSE x \in s : TRUE}]]
           fold == CHOOSE iter : good(iter)
<1>1. SumFunctionOnSet(f, S) = fold[S]
  BY DEF SumFunctionOnSet, FoldFunctionOnSet, MapThenFoldSet
<1>2. good(h)
  BY DEF Sums, One
<1>3. good(fold)
  <2> HIDE DEF good
  <2> QED
    BY <1>2
<1>4. Sums(fold, f, SUBSET S)
  <2> HIDE DEF fold
  <2> QED
    BY <1>3 DEF Sums, One
<1> HIDE DEF fold
<1>5. S \in SUBSET S /\ S \in (SUBSET S) \cap (SUBSET S)
  OBVIOUS
<1>6. fold[S] = h[S]
  BY <1>4, <1>5, SumsAgree
<1> QED
  BY <1>1, <1>6

\* Taking out the element that the fold takes out
LEMMA SumTakesOne ==
    ASSUME NEW S, IsFiniteSet(S), NEW f, \A x \in S : f[x] \in Int
    PROVE  /\ SumFunctionOnSet(f, {}) = 0
           /\ SumFunctionOnSet(f, S) \in Int
           /\ S # {} => SumFunctionOnSet(f, S) = f[One(S)] + SumFunctionOnSet(f, S \ {One(S)})
<1>1. PICK h : h \in [SUBSET S -> Int] /\ Sums(h, f, SUBSET S)
  BY SumsExist
<1>2. \A A \in SUBSET S : SumFunctionOnSet(f, A) = h[A]
  <2> SUFFICES ASSUME NEW A \in SUBSET S PROVE SumFunctionOnSet(f, A) = h[A]
    OBVIOUS
  <2>1. IsFiniteSet(A) /\ \A x \in A : f[x] \in Int
    BY FS_Subset
  <2>2. PICK g : g \in [SUBSET A -> Int] /\ Sums(g, f, SUBSET A)
    BY <2>1, SumsExist
  <2>3. SumFunctionOnSet(f, A) = g[A]
    BY <2>1, <2>2, SumIs
  <2>4. S \in SUBSET S /\ A \in (SUBSET S) \cap (SUBSET A)
    OBVIOUS
  <2>5. \A t \in (SUBSET S) \cap (SUBSET A) : h[t] = g[t]
    <3>1. Sums(h, f, SUBSET S) /\ Sums(g, f, SUBSET A)
      BY <1>1, <2>2
    <3> QED
      BY <3>1, SumsAgree
  <2> QED
    BY <2>3, <2>4, <2>5
<1>3. S # {} => One(S) \in S /\ S \ {One(S)} \in SUBSET S
  BY OneMember
<1>4. h[{}] = 0 /\ h[S] \in Int /\ (S # {} => h[S] = f[One(S)] + h[S \ {One(S)}])
  <2>1. {} \in SUBSET S /\ S \in SUBSET S
    OBVIOUS
  <2> QED
    BY <1>1, <2>1 DEF Sums
<1> QED
  BY <1>2, <1>3, <1>4

\* Any element may be taken out.
LEMMA SumSplits ==
    ASSUME NEW S, IsFiniteSet(S), NEW f, \A x \in S : f[x] \in Int, NEW x \in S
    PROVE  SumFunctionOnSet(f, S) = f[x] + SumFunctionOnSet(f, S \ {x})
<1> DEFINE sum(A) == SumFunctionOnSet(f, A)
           T == {A \in SUBSET S : \E y \in A : sum(A) # f[y] + sum(A \ {y})}
<1>1. SUFFICES ASSUME T # {} PROVE FALSE
  OBVIOUS
<1>2. \E A \in T : \A B \in T : B \subseteq A => B = A
  <2>1. T \in SUBSET SUBSET S
    OBVIOUS
  <2> HIDE DEF T
  <2> QED
    BY <1>1, <2>1, LeastSubset
<1>3. PICK A \in T : \A B \in T : B \subseteq A => B = A
  BY <1>2
<1>4. PICK y \in A : A \in SUBSET S /\ sum(A) # f[y] + sum(A \ {y})
  BY <1>3
<1> DEFINE z == One(A)
           P == A \ {y}
           Q == A \ {z}
           R == (A \ {y}) \ {z}
<1>5. z \in A
  BY <1>4, OneMember
<1>6. \A B \in SUBSET S : /\ \A u \in B : f[u] \in Int
                          /\ sum(B) \in Int /\ (B # {} => sum(B) = f[One(B)] + sum(B \ {One(B)}))
  <2> SUFFICES ASSUME NEW B \in SUBSET S
               PROVE  /\ \A u \in B : f[u] \in Int
                      /\ sum(B) \in Int /\ (B # {} => sum(B) = f[One(B)] + sum(B \ {One(B)}))
    OBVIOUS
  <2>1. IsFiniteSet(B) /\ \A u \in B : f[u] \in Int
    BY FS_Subset
  <2> QED
    BY <2>1, SumTakesOne
<1>7. sum(A) = f[z] + sum(Q)
  BY <1>4, <1>6
<1>8. y # z
  BY <1>4, <1>7
<1>9. P \in SUBSET S /\ Q \in SUBSET S /\ R \in SUBSET S /\ P \notin T /\ Q \notin T
  BY <1>3, <1>4, <1>5
<1>10. y \in Q /\ z \in P /\ R = P \ {z} /\ R = Q \ {y}
  BY <1>4, <1>5, <1>8
<1>11. sum(Q) = f[y] + sum(R) /\ sum(P) = f[z] + sum(R)
  BY <1>9, <1>10
<1>12. f[y] \in Int /\ f[z] \in Int /\ sum(R) \in Int /\ sum(P) \in Int /\ sum(Q) \in Int
  BY <1>4, <1>5, <1>6, <1>9
<1>13. sum(A) = f[y] + sum(P)
  <2> HIDE DEF sum, z, P, Q, R
  <2> QED
    BY <1>7, <1>11, <1>12
<1> QED
  BY <1>4, <1>13

\* Functions that agree have the same sum.
LEMMA SumsEqual ==
    ASSUME NEW S, IsFiniteSet(S), NEW f, NEW g, \A x \in S : f[x] \in Int /\ g[x] = f[x]
    PROVE  SumFunctionOnSet(f, S) = SumFunctionOnSet(g, S)
<1>1. PICK h : h \in [SUBSET S -> Int] /\ Sums(h, f, SUBSET S)
  BY SumsExist
<1>2. Sums(h, g, SUBSET S)
  BY <1>1, OneMember DEF Sums
<1> QED
  BY <1>1, <1>2, SumIs

\* What is 0 does not add to a sum.
LEMMA SumOfPart ==
    ASSUME NEW S, IsFiniteSet(S), NEW P, P \subseteq S, NEW f, \A x \in S : f[x] \in Int,
           \A x \in S \ P : f[x] = 0
    PROVE  SumFunctionOnSet(f, S) = SumFunctionOnSet(f, P)
<1> DEFINE sum(A) == SumFunctionOnSet(f, A)
           T == {A \in SUBSET S : sum(A) # sum(A \cap P)}
<1>1. SUFFICES S \notin T
  <2>1. S \cap P = P
    OBVIOUS
  <2> QED BY <2>1
<1>2. SUFFICES ASSUME T # {} PROVE FALSE
  OBVIOUS
<1>3. \E A \in T : \A B \in T : B \subseteq A => B = A
  <2>1. T \in SUBSET SUBSET S
    OBVIOUS
  <2> HIDE DEF T
  <2> QED BY <1>2, <2>1, LeastSubset
<1>4. PICK A \in T : \A B \in T : B \subseteq A => B = A
  BY <1>3
<1>5. A \in SUBSET S /\ sum(A) # sum(A \cap P)
  BY <1>4
<1>6. A # {}
  <2>1. {} \cap P = {}
    OBVIOUS
  <2> QED BY <1>5, <2>1
<1>7. PICK x : x \in A
  BY <1>6
<1>8. \A B \in SUBSET S : \A y \in B : sum(B) = f[y] + sum(B \ {y}) /\ sum(B \ {y}) \in Int
  <2> SUFFICES ASSUME NEW B \in SUBSET S, NEW y \in B
               PROVE  sum(B) = f[y] + sum(B \ {y}) /\ sum(B \ {y}) \in Int
    OBVIOUS
  <2> DEFINE C == B \ {y}
  <2>1. /\ IsFiniteSet(B) /\ \A u \in B : f[u] \in Int
        /\ IsFiniteSet(C) /\ \A u \in C : f[u] \in Int
    BY FS_Subset
  <2> HIDE DEF C
  <2>2. sum(C) \in Int
    BY <2>1, SumTakesOne
  <2>3. sum(B) = f[y] + sum(B \ {y})
    BY <2>1, SumSplits, ZenonT(30)
  <2> QED BY <2>2, <2>3 DEF C
<1>9. sum(A \ {x}) = sum((A \ {x}) \cap P)
  BY <1>4, <1>5, <1>7
<1>10. sum(A) = f[x] + sum(A \ {x}) /\ sum(A \ {x}) \in Int /\ f[x] \in Int
  BY <1>5, <1>7, <1>8
<1>11. CASE x \in P
  <2>1. A \cap P \in SUBSET S /\ x \in A \cap P /\ (A \cap P) \ {x} = (A \ {x}) \cap P
    BY <1>5, <1>7, <1>11
  <2>2. sum(A \cap P) = f[x] + sum((A \cap P) \ {x})
    BY <1>8, <2>1
  <2> QED BY <1>5, <1>9, <1>10, <2>1, <2>2
<1>12. CASE x \notin P
  <2>1. A \cap P = (A \ {x}) \cap P /\ f[x] = 0
    BY <1>5, <1>7, <1>12
  <2>2. sum(A \cap P) = sum(A \ {x}) /\ sum(A) = 0 + sum(A \ {x})
    BY <1>9, <1>10, <2>1
  <2> HIDE DEF sum
  <2> QED BY <1>5, <1>10, <2>2
<1> QED BY <1>11, <1>12

\* A sum is at most another one that is so for each element.
LEMMA SumsOrdered ==
    ASSUME NEW S, IsFiniteSet(S), NEW f, NEW g, \A x \in S : f[x] \in Int /\ g[x] \in Int /\ f[x] <= g[x]
    PROVE  /\ SumFunctionOnSet(f, S) \in Int /\ SumFunctionOnSet(g, S) \in Int
           /\ SumFunctionOnSet(f, S) <= SumFunctionOnSet(g, S)
<1> DEFINE lower(A) == SumFunctionOnSet(f, A)
           upper(A) == SumFunctionOnSet(g, A)
           T == {A \in SUBSET S : ~(lower(A) <= upper(A))}
<1>1. \A A \in SUBSET S : /\ lower(A) \in Int /\ upper(A) \in Int
                          /\ lower({}) = 0 /\ upper({}) = 0
                          /\ \A y \in A : /\ lower(A) = f[y] + lower(A \ {y})
                                          /\ upper(A) = g[y] + upper(A \ {y})
  <2> SUFFICES ASSUME NEW A \in SUBSET S
               PROVE  /\ lower(A) \in Int /\ upper(A) \in Int
                      /\ lower({}) = 0 /\ upper({}) = 0
                      /\ \A y \in A : /\ lower(A) = f[y] + lower(A \ {y})
                                      /\ upper(A) = g[y] + upper(A \ {y})
    OBVIOUS
  <2>1. IsFiniteSet(A) /\ (\A u \in A : f[u] \in Int) /\ (\A u \in A : g[u] \in Int)
    BY FS_Subset
  <2>2. lower(A) \in Int /\ lower({}) = 0
    BY <2>1, SumTakesOne
  <2>3. upper(A) \in Int /\ upper({}) = 0
    BY <2>1, SumTakesOne
  <2>4. \A y \in A : lower(A) = f[y] + lower(A \ {y})
    BY <2>1, SumSplits, ZenonT(30)
  <2>5. \A y \in A : upper(A) = g[y] + upper(A \ {y})
    BY <2>1, SumSplits, ZenonT(30)
  <2> QED BY <2>2, <2>3, <2>4, <2>5
<1>2. SUFFICES ASSUME T # {} PROVE FALSE
  BY <1>1
<1>3. \E A \in T : \A B \in T : B \subseteq A => B = A
  <2>1. T \in SUBSET SUBSET S
    OBVIOUS
  <2> HIDE DEF T
  <2> QED BY <1>2, <2>1, LeastSubset
<1>4. PICK A \in T : \A B \in T : B \subseteq A => B = A
  BY <1>3
<1>5. A \in SUBSET S /\ ~(lower(A) <= upper(A))
  BY <1>4
<1>6. A # {}
  BY <1>1, <1>5
<1>7. PICK x : x \in A
  BY <1>6
<1>8. lower(A \ {x}) <= upper(A \ {x})
  BY <1>4, <1>5, <1>7
<1>9. A \ {x} \in SUBSET S
  BY <1>5
<1>10. /\ lower(A) = f[x] + lower(A \ {x}) /\ upper(A) = g[x] + upper(A \ {x})
       /\ lower(A \ {x}) \in Int /\ upper(A \ {x}) \in Int
       /\ f[x] \in Int /\ g[x] \in Int /\ f[x] <= g[x]
  BY <1>1, <1>5, <1>7, <1>9
<1> HIDE DEF lower, upper
<1> QED BY <1>5, <1>8, <1>10

\* A sum gains what the sum of two elements gains, and where they are one, that element.
LEMMA SumGains ==
    ASSUME NEW S, IsFiniteSet(S), NEW f, NEW g, \A u \in S : f[u] \in Int /\ g[u] \in Int,
           NEW n \in Int, NEW x \in S, NEW y \in S, \A u \in S : u \notin {x, y} => g[u] = f[u],
           IF x = y THEN g[x] >= f[x] + n ELSE g[x] + g[y] >= f[x] + f[y] + n
    PROVE  SumFunctionOnSet(g, S) >= SumFunctionOnSet(f, S) + n
<1> DEFINE R == S \ {x}
           Q == R \ {y}
<1>1. /\ IsFiniteSet(R) /\ IsFiniteSet(Q)
      /\ (\A u \in S : f[u] \in Int) /\ (\A u \in S : g[u] \in Int)
      /\ (\A u \in R : f[u] \in Int) /\ (\A u \in R : g[u] \in Int)
      /\ \A u \in Q : f[u] \in Int /\ g[u] = f[u]
  BY FS_Subset
<1>2. SumFunctionOnSet(f, S) = f[x] + SumFunctionOnSet(f, R)
  BY <1>1, SumSplits, ZenonT(30)
<1>3. SumFunctionOnSet(g, S) = g[x] + SumFunctionOnSet(g, R)
  BY <1>1, SumSplits, ZenonT(30)
<1> HIDE DEF R
<1>4. SumFunctionOnSet(f, R) \in Int /\ SumFunctionOnSet(g, R) \in Int
  BY <1>1, SumTakesOne
<1>5. CASE x = y
  <2>1. Q = R
    BY <1>5 DEF R
  <2>2. SumFunctionOnSet(f, R) = SumFunctionOnSet(g, R)
    BY <1>1, <2>1, SumsEqual
  <2> QED BY <1>2, <1>3, <1>4, <1>5, <2>2
<1>6. CASE x # y
  <2>1. y \in R
    BY <1>6 DEF R
  <2>2. SumFunctionOnSet(f, R) = f[y] + SumFunctionOnSet(f, Q)
    BY <1>1, <2>1, SumSplits, ZenonT(30)
  <2>3. SumFunctionOnSet(g, R) = g[y] + SumFunctionOnSet(g, Q)
    BY <1>1, <2>1, SumSplits, ZenonT(30)
  <2> HIDE DEF Q
  <2>4. SumFunctionOnSet(f, Q) = SumFunctionOnSet(g, Q) /\ SumFunctionOnSet(f, Q) \in Int
    <3>1. \A u \in Q : f[u] \in Int
      BY <1>1
    <3> QED BY <1>1, <3>1, SumsEqual, SumTakesOne
  <2>5. f[x] \in Int /\ f[y] \in Int /\ g[x] \in Int /\ g[y] \in Int
    OBVIOUS
  <2>6. g[x] + g[y] >= f[x] + f[y] + n
    BY <1>6
  <2> QED BY <1>2, <1>3, <2>2, <2>3, <2>4, <2>5, <2>6
<1> QED BY <1>5, <1>6

---------------------------------------------------------------------------
(* Traffic counters *)

Usage == [at : Nat, raw : [Column -> Nat], total : [Column -> Nat]]

TrafficTypeInv ==
    /\ clock \in 0..MaxClock
    /\ counter \in [Link -> Nat] /\ carried \in [Link -> Nat]
    /\ \A i \in Link : counter[i] <= carried[i]
    /\ uplink \in Link \cup {"none"}
    /\ lastLink \in [Column -> Link \cup {"none"}] /\ readLinks \in [Column -> SUBSET Link]
    /\ usage \in {NoUsage} \cup Usage
    /\ \A t \in DOMAIN samples : t \in 0..clock /\ samples[t] \in [Column -> Nat]
    /\ \A g \in Granularity : \A b \in DOMAIN buckets[g] :
          b % Span[g] = 0 /\ buckets[g][b] \in [Column -> Nat]

\* What the next sample would add, if it read the same link, and what the links carried
Coming(c) == IF lastLink[c] = "none" THEN 0 ELSE SumDeltas(counter[lastLink[c]], usage.raw[c])
Came(c)   == SumFunctionOnSet(carried, readLinks[c])

\* A total and what the next sample would add to it are never more than what came.
NotAhead(c) == usage.total[c] + Coming(c) <= Came(c)

TotalsInv ==
    /\ usage = NoUsage => DOMAIN samples = {} /\ \A c \in Column : readLinks[c] = {}
    /\ \A c \in Column : lastLink[c] \in readLinks[c] \cup {"none"}
    /\ usage # NoUsage =>
          /\ \A t \in DOMAIN samples : \A c \in Column : samples[t][c] <= usage.total[c]
          /\ \A c \in Column \ returned : NotAhead(c)
    /\ \A t, u \in DOMAIN samples : t <= u => \A c \in Column : samples[t][c] <= samples[u][c]

LEMMA DeltaType ==
    ASSUME NEW now \in Nat, NEW before \in Nat
    PROVE  SumDeltas(now, before) \in Nat
BY DEF SumDeltas

LEMMA BucketStartDivides ==
    ASSUME NEW n \in Nat \ {0}, NEW t \in Nat
    PROVE  (t - (t % n)) % n = 0
<1>1. t = n * (t \div n) + (t % n) /\ t \div n \in Nat /\ t % n \in Nat
  OBVIOUS
<1>2. \A q \in Nat : (n * q) % n = 0
  OBVIOUS
<1>3. t - (t % n) = n * (t \div n)
  BY <1>1
<1> QED BY <1>1, <1>2, <1>3

LEMMA KeptRows ==
    ASSUME NEW rs, NEW keep
    PROVE  /\ DOMAIN Kept(rs, keep) \subseteq DOMAIN rs
           /\ \A r \in DOMAIN Kept(rs, keep) : Kept(rs, keep)[r] = rs[r]
BY DEF Kept

LEMMA ReadingType ==
    ASSUME TrafficTypeInv, NEW bad \in SUBSET Column
    PROVE  /\ SourceLink(bad) \in [Column -> Link \cup {"none"}]
           /\ Reading(bad) \in [Column -> Nat]
<1>1. SourceLink(bad) \in [Column -> Link \cup {"none"}]
  BY TrafficAssumption DEF SourceLink, TrafficTypeInv
<1>2. \A c \in Column :
        (IF SourceLink(bad)[c] = "none" THEN 0 ELSE counter[SourceLink(bad)[c]]) \in Nat
  BY <1>1 DEF TrafficTypeInv
<1> QED BY <1>1, <1>2 DEF Reading

\* What a sample writes: the state row, the row of the sample, and in each table of
\* buckets the one that is current
LEMMA SampleWrites ==
    ASSUME TrafficTypeInv, NEW bad \in SUBSET Column, Sample(bad)
    PROVE  /\ usage' \in Usage /\ usage'.raw = Reading(bad)
           /\ \A i \in Column : usage'.total[i] =
                 IF usage = NoUsage THEN Reading(bad)[i]
                 ELSE usage.total[i] + SumDeltas(Reading(bad)[i], usage.raw[i])
           /\ \A t \in DOMAIN samples' :
                 \/ t = clock /\ samples'[t] = usage'.total
                 \/ t \in DOMAIN samples /\ t # clock /\ samples'[t] = samples[t]
           /\ clock \notin DOMAIN samples
           /\ \A g \in Granularity : \A b \in DOMAIN buckets'[g] :
                 b % Span[g] = 0 /\ buckets'[g][b] \in [Column -> Nat]
           /\ clock' = clock /\ counter' = counter /\ carried' = carried
           /\ uplink' = uplink /\ lastLink' = SourceLink(bad)
<1> DEFINE now == Reading(bad)
           delta == [i \in Column |-> IF usage = NoUsage THEN 0 ELSE SumDeltas(now[i], usage.raw[i])]
           totals == [i \in Column |-> IF usage = NoUsage THEN now[i] ELSE usage.total[i] + delta[i]]
           rows == [t \in DOMAIN samples \cup {clock} |-> IF t = clock THEN totals ELSE samples[t]]
           bs(g) == IF usage = NoUsage THEN buckets[g]
                    ELSE Upserted(buckets[g], BucketStart(g, clock), delta)
<1>1. /\ usage' = [at |-> clock, raw |-> now, total |-> totals]
      /\ samples' = Kept(rows, KeepRaw)
      /\ buckets' = [g \in Granularity |-> Kept(bs(g), Keep[g])]
      /\ clock \notin DOMAIN samples
      /\ uplink' = uplink /\ lastLink' = SourceLink(bad)
      /\ clock' = clock /\ counter' = counter /\ carried' = carried
  BY DEF Sample
<1>2. now \in [Column -> Nat] /\ clock \in Nat
  BY ReadingType, TrafficAssumption DEF TrafficTypeInv
<1>3. usage = NoUsage \/ (usage.raw \in [Column -> Nat] /\ usage.total \in [Column -> Nat])
  BY DEF TrafficTypeInv, Usage
<1> HIDE DEF now
<1>4. \A i \in Column : usage # NoUsage => SumDeltas(now[i], usage.raw[i]) \in Nat
  BY <1>2, <1>3, DeltaType
<1>5. delta \in [Column -> Nat]
  BY <1>4
<1>6. totals \in [Column -> Nat]
  BY <1>2, <1>3, <1>5
<1>7. \A i \in Column : totals[i] = IF usage = NoUsage THEN now[i]
                                ELSE usage.total[i] + SumDeltas(now[i], usage.raw[i])
  OBVIOUS
<1>8. \A t \in DOMAIN samples' : /\ t \in DOMAIN samples \cup {clock}
                                /\ samples'[t] = IF t = clock THEN totals ELSE samples[t]
  <2>1. DOMAIN rows = DOMAIN samples \cup {clock}
        /\ \A t \in DOMAIN rows : rows[t] = IF t = clock THEN totals ELSE samples[t]
    OBVIOUS
  <2> HIDE DEF rows
  <2> QED BY <1>1, <2>1, KeptRows
<1> HIDE DEF totals
<1>9. ASSUME NEW g \in Granularity, NEW b \in DOMAIN buckets'[g]
      PROVE  b % Span[g] = 0 /\ buckets'[g][b] \in [Column -> Nat]
  <2>1. b \in DOMAIN bs(g) /\ buckets'[g][b] = bs(g)[b]
    <3>1. buckets'[g] = Kept(bs(g), Keep[g])
      BY <1>1
    <3> HIDE DEF bs
    <3> QED BY <1>9, <3>1, KeptRows
  <2>2. \A c \in DOMAIN buckets[g] : c % Span[g] = 0 /\ buckets[g][c] \in [Column -> Nat]
    BY DEF TrafficTypeInv
  <2>3. CASE usage = NoUsage
    BY <2>1, <2>2, <2>3
  <2>4. CASE usage # NoUsage
    <3> DEFINE start == BucketStart(g, clock)
    <3>1. start % Span[g] = 0
      BY <1>2, TrafficAssumption, BucketStartDivides DEF BucketStart
    <3> HIDE DEF start, delta
    <3>2. bs(g) = Upserted(buckets[g], start, delta)
      BY <2>4 DEF start
    <3>3. /\ DOMAIN Upserted(buckets[g], start, delta) = DOMAIN buckets[g] \cup {start}
          /\ \A c \in DOMAIN buckets[g] \cup {start} :
                Upserted(buckets[g], start, delta)[c] =
                  [i \in Column |-> (IF c \in DOMAIN buckets[g] THEN buckets[g][c][i] ELSE 0)
                                + (IF c = start THEN delta[i] ELSE 0)]
      BY DEF Upserted
    <3>4. b \in DOMAIN buckets[g] \cup {start}
      BY <2>1, <3>2, <3>3
    <3>5. \A i \in Column : (IF b \in DOMAIN buckets[g] THEN buckets[g][b][i] ELSE 0)
                          + (IF b = start THEN delta[i] ELSE 0) \in Nat
      <4>1. \A i \in Column : (IF b \in DOMAIN buckets[g] THEN buckets[g][b][i] ELSE 0) \in Nat
        BY <2>2
      <4>2. \A i \in Column : (IF b = start THEN delta[i] ELSE 0) \in Nat
        BY <1>5
      <4> QED BY <4>1, <4>2
    <3>6. bs(g)[b] \in [Column -> Nat]
      <4> DEFINE f == [i \in Column |-> (IF b \in DOMAIN buckets[g] THEN buckets[g][b][i] ELSE 0)
                                    + (IF b = start THEN delta[i] ELSE 0)]
      <4>1. f \in [Column -> Nat]
        BY <3>5
      <4>2. Upserted(buckets[g], start, delta)[b] = f
        BY <3>3, <3>4
      <4> HIDE DEF f, bs
      <4> QED BY <3>2, <4>1, <4>2
    <3> QED BY <2>1, <2>2, <3>1, <3>4, <3>6
  <2> QED BY <2>3, <2>4
<1> QED BY <1>1, <1>2, <1>6, <1>7, <1>8, <1>9 DEF Usage, now

LEMMA TrafficTypeStep ==
    ASSUME TrafficTypeInv, TrafficNext
    PROVE  TrafficTypeInv'
<1>1. /\ clock \in Nat /\ clock <= MaxClock /\ MaxClock \in Nat
      /\ counter \in [Link -> Nat] /\ carried \in [Link -> Nat]
      /\ \A i \in Link : counter[i] <= carried[i]
  BY TrafficAssumption DEF TrafficTypeInv
<1>2. CASE Tick
  BY <1>1, <1>2 DEF Tick, TrafficTypeInv, historyVars
<1>3. ASSUME NEW i \in Link, Carry(i)
      PROVE  TrafficTypeInv'
  <2>1. /\ carried' = [carried EXCEPT ![i] = carried[i] + 1]
        /\ counter' = [counter EXCEPT ![i] = counter[i] + 1]
        /\ clock' = clock /\ usage' = usage /\ samples' = samples /\ buckets' = buckets
        /\ uplink' = uplink /\ lastLink' = lastLink /\ readLinks' = readLinks
    BY <1>3 DEF Carry, historyVars
  <2>2. counter' \in [Link -> Nat] /\ carried' \in [Link -> Nat]
    BY <1>1, <2>1
  <2>3. \A j \in Link : counter'[j] <= carried'[j]
    BY <1>1, <2>1
  <2> QED BY <2>1, <2>2, <2>3 DEF TrafficTypeInv
<1>4. ASSUME NEW i \in Link, Renew(i)
      PROVE  TrafficTypeInv'
  <2>1. /\ counter' = [counter EXCEPT ![i] = 0] /\ carried' = carried
        /\ clock' = clock /\ usage' = usage /\ samples' = samples /\ buckets' = buckets
        /\ uplink' = uplink /\ lastLink' = lastLink /\ readLinks' = readLinks
    BY <1>4 DEF Renew, historyVars
  <2>2. counter' \in [Link -> Nat]
    BY <1>1, <2>1
  <2>3. \A j \in Link : counter'[j] <= carried'[j]
    BY <1>1, <2>1
  <2> QED BY <2>1, <2>2, <2>3 DEF TrafficTypeInv
<1>5. CASE Reroute
  BY <1>5 DEF Reroute, TrafficTypeInv, historyVars
<1>6. ASSUME NEW bad \in SUBSET Column, Sample(bad)
      PROVE  TrafficTypeInv'
  <2>1. \A t \in DOMAIN samples' : t \in 0..clock' /\ samples'[t] \in [Column -> Nat]
    BY <1>1, <1>6, SampleWrites DEF TrafficTypeInv, Usage
  <2>2. readLinks' \in [Column -> SUBSET Link]
    <3>1. \A c \in Column : readLinks[c] \cup ({SourceLink(bad)[c]} \ {"none"}) \in SUBSET Link
      BY ReadingType DEF TrafficTypeInv
    <3> QED BY <1>6, <3>1 DEF Sample
  <2>3. lastLink' \in [Column -> Link \cup {"none"}]
    BY <1>6, SampleWrites, ReadingType
  <2> QED BY <1>1, <1>6, <2>1, <2>2, <2>3, SampleWrites DEF TrafficTypeInv
<1>7. TrafficNext => \/ \E i \in Link : Carry(i) \/ Renew(i)
                     \/ Tick \/ Reroute \/ \E bad \in SUBSET Column : Sample(bad)
  BY DEF TrafficNext, Collect, CollectBlind
<1> QED BY <1>2, <1>3, <1>4, <1>5, <1>6, <1>7

\* Totals keep their bound when bytes come or a counter starts again.
LEMMA CoveredLater ==
    ASSUME NEW c \in Nat, NEW raw \in Nat
    PROVE  /\ SumDeltas(c + 1, raw) <= SumDeltas(c, raw) + 1
           /\ SumDeltas(0, raw) = 0 /\ SumDeltas(c, c) = 0
           /\ SumDeltas(c, raw) \in Nat
BY DEF SumDeltas

\* What links carried, when one of them carries more, and when a link joins them
LEMMA CameGrows ==
    ASSUME TrafficTypeInv, NEW R \in SUBSET Link, NEW i \in Link,
           NEW more, \A j \in Link : more[j] = IF j = i THEN carried[j] + 1 ELSE carried[j]
    PROVE  /\ SumFunctionOnSet(carried, R) \in Int /\ SumFunctionOnSet(more, R) \in Int
           /\ SumFunctionOnSet(more, R) >= SumFunctionOnSet(carried, R)
           /\ i \in R => SumFunctionOnSet(more, R) >= SumFunctionOnSet(carried, R) + 1
<1>1. IsFiniteSet(R) /\ carried \in [Link -> Nat]
  BY TrafficAssumption, FS_Subset DEF TrafficTypeInv
<1>2. \A j \in R : carried[j] \in Int /\ more[j] \in Int /\ carried[j] <= more[j]
  BY <1>1
<1>3. /\ SumFunctionOnSet(carried, R) \in Int /\ SumFunctionOnSet(more, R) \in Int
      /\ SumFunctionOnSet(carried, R) <= SumFunctionOnSet(more, R)
  BY <1>1, <1>2, SumsOrdered, ZenonT(30)
<1>4. ASSUME i \in R PROVE SumFunctionOnSet(more, R) >= SumFunctionOnSet(carried, R) + 1
  <2>1. more[i] >= carried[i] + 1
    BY <1>1
  <2>2. \A j \in R : j \notin {i, i} => more[j] = carried[j]
    OBVIOUS
  <2>3. \A j \in R : carried[j] \in Int /\ more[j] \in Int
    BY <1>2
  <2>4. 1 \in Int
    OBVIOUS
  <2>5. IF i = i THEN more[i] >= carried[i] + 1 ELSE more[i] + more[i] >= carried[i] + carried[i] + 1
    BY <2>1
  <2> QED BY <1>1, <1>4, <2>2, <2>3, <2>4, <2>5, SumGains, ZenonT(30)
<1>5. SumFunctionOnSet(more, R) >= SumFunctionOnSet(carried, R)
  BY <1>3
<1> QED BY <1>3, <1>4, <1>5

LEMMA CameJoins ==
    ASSUME TrafficTypeInv, NEW R \in SUBSET Link, NEW k \in Link \ R
    PROVE  /\ SumFunctionOnSet(carried, R) \in Int
           /\ SumFunctionOnSet(carried, R \cup {k}) = carried[k] + SumFunctionOnSet(carried, R)
<1>1. IsFiniteSet(R) /\ IsFiniteSet(R \cup {k}) /\ (R \cup {k}) \ {k} = R
  BY TrafficAssumption, FS_Subset
<1>2. \A j \in R \cup {k} : carried[j] \in Int
  BY DEF TrafficTypeInv
<1> DEFINE T == R \cup {k}
<1>3. k \in T /\ T \ {k} = R /\ IsFiniteSet(T) /\ \A j \in T : carried[j] \in Int
  BY <1>1, <1>2
<1> HIDE DEF T
<1>4. SumFunctionOnSet(carried, T) = carried[k] + SumFunctionOnSet(carried, T \ {k})
  BY <1>3, SumSplits, ZenonT(30)
<1>5. SumFunctionOnSet(carried, R) \in Int
  BY <1>1, <1>2, SumTakesOne
<1> QED BY <1>3, <1>4, <1>5 DEF T

\* A column stays covered when its link carries a byte, or starts again.
LEMMA ColumnWaits ==
    ASSUME TrafficTypeInv, TotalsInv, NEW j \in Link, Carry(j) \/ Renew(j),
           usage # NoUsage, NEW c \in Column \ returned
    PROVE  NotAhead(c)'
<1> DEFINE l == lastLink[c]
           raw == usage.raw[c]
           came == Came(c)
<1>1. /\ counter \in [Link -> Nat] /\ carried \in [Link -> Nat] /\ readLinks[c] \in SUBSET Link
      /\ usage.total[c] \in Nat /\ raw \in Nat /\ l \in readLinks[c] \cup {"none"} /\ "none" \notin Link
      /\ usage.total[c] + Coming(c) <= came
      /\ usage' = usage /\ lastLink' = lastLink /\ readLinks' = readLinks
  BY TrafficAssumption DEF TrafficTypeInv, TotalsInv, NotAhead, Usage, Carry, Renew, historyVars
<1>2. \A n, m \in Nat : /\ SumDeltas(n, m) \in Nat /\ SumDeltas(n + 1, m) <= SumDeltas(n, m) + 1
                         /\ SumDeltas(0, m) = 0
  BY DEF SumDeltas
<1>3. Coming(c)' = IF l = "none" THEN 0 ELSE SumDeltas(counter'[l], raw)
  BY <1>1 DEF Coming
<1>4. Coming(c) = IF l = "none" THEN 0 ELSE SumDeltas(counter[l], raw)
  BY DEF Coming
<1>5. Came(c)' = SumFunctionOnSet(carried', readLinks[c])
  BY <1>1 DEF Came
<1>6. came = SumFunctionOnSet(carried, readLinks[c])
  BY DEF Came
<1>a. l # "none" => l \in Link /\ counter[l] \in Nat
  BY <1>1
<1> HIDE DEF l, raw, came
<1>b. Coming(c) \in Nat
  BY <1>1, <1>2, <1>4, <1>a
<1>7. CASE Carry(j)
  <2>1. counter' = [counter EXCEPT ![j] = counter[j] + 1] /\ carried' = [carried EXCEPT ![j] = carried[j] + 1]
    BY <1>7 DEF Carry
  <2>2. /\ came \in Int /\ Came(c)' \in Int /\ Came(c)' >= came
        /\ j \in readLinks[c] => Came(c)' >= came + 1
    <3>1. \A i \in Link : carried'[i] = IF i = j THEN carried[i] + 1 ELSE carried[i]
      BY <1>1, <2>1
    <3> QED BY <1>1, <1>5, <1>6, <3>1, CameGrows
  <2>3. CASE l = j
    <3>1. counter[j] \in Nat /\ counter'[l] = counter[j] + 1 /\ l # "none" /\ j \in readLinks[c]
      BY <1>1, <2>1, <2>3
    <3>2. /\ Coming(c) = SumDeltas(counter[j], raw) /\ Coming(c)' = SumDeltas(counter[j] + 1, raw)
          /\ Coming(c) \in Nat /\ Coming(c)' \in Nat /\ Coming(c)' <= Coming(c) + 1
      BY <1>1, <1>2, <1>3, <1>4, <2>3, <3>1
    <3>3. usage.total[c] + Coming(c)' <= Came(c)'
      BY <1>1, <2>2, <3>1, <3>2
    <3> QED BY <1>1, <3>3 DEF NotAhead
  <2>4. CASE l # j
    <3>1. Coming(c)' = Coming(c)
      BY <1>1, <1>3, <1>4, <1>a, <2>1, <2>4
    <3>2. usage.total[c] + Coming(c)' <= Came(c)'
      BY <1>1, <1>b, <2>2, <3>1
    <3> QED BY <1>1, <3>2 DEF NotAhead
  <2> QED BY <2>3, <2>4
<1>8. CASE Renew(j)
  <2>1. counter' = [counter EXCEPT ![j] = 0] /\ carried' = carried
    BY <1>8 DEF Renew
  <2>2. came \in Int /\ Came(c)' = came
    <3>1. IsFiniteSet(readLinks[c]) /\ \A i \in readLinks[c] : carried[i] \in Int
      BY <1>1, TrafficAssumption, FS_Subset
    <3> QED BY <1>5, <1>6, <2>1, <3>1, SumTakesOne
  <2>3. Coming(c)' <= Coming(c) /\ Coming(c)' \in Nat
    <3>1. CASE l = j
      <4>1. l # "none" /\ counter'[l] = 0
        BY <1>1, <2>1, <3>1
      <4>2. Coming(c)' = 0
        BY <1>1, <1>2, <1>3, <4>1
      <4> QED BY <1>b, <4>2
    <3>2. CASE l # j
      <4>1. Coming(c)' = Coming(c)
        BY <1>1, <1>3, <1>4, <1>a, <2>1, <3>2
      <4> QED BY <1>b, <4>1
    <3> QED BY <3>1, <3>2
  <2>4. usage.total[c] + Coming(c)' <= Came(c)'
    BY <1>1, <1>b, <2>2, <2>3
  <2> QED BY <1>1, <2>4 DEF NotAhead
<1> QED BY <1>7, <1>8

\* A column that does not come back to a link stays covered by a sample.
LEMMA ColumnSampled ==
    ASSUME TrafficTypeInv, TotalsInv, NEW bad \in SUBSET Column, Sample(bad), NEW c \in Column \ returned'
    PROVE  NotAhead(c)'
<1> DEFINE l == lastLink[c]
           k == SourceLink(bad)[c]
           now == Reading(bad)[c]
           came == Came(c)
<1>1. /\ counter \in [Link -> Nat] /\ carried \in [Link -> Nat] /\ readLinks[c] \in SUBSET Link
      /\ \A i \in Link : counter[i] <= carried[i]
      /\ l \in readLinks[c] \cup {"none"} /\ k \in Link \cup {"none"} /\ "none" \notin Link
  BY ReadingType, TrafficAssumption DEF TrafficTypeInv, TotalsInv
<1>2. /\ lastLink'[c] = k /\ readLinks'[c] = readLinks[c] \cup ({k} \ {"none"})
      /\ c \notin returned /\ (k \notin readLinks[c] \/ k = l)
      /\ counter' = counter /\ carried' = carried /\ usage'.raw[c] = now
      /\ usage'.total[c] = IF usage = NoUsage THEN now ELSE usage.total[c] + SumDeltas(now, usage.raw[c])
  BY SampleWrites DEF Sample
<1>3. now = (IF k = "none" THEN 0 ELSE counter[k]) /\ now \in Nat
  BY <1>1 DEF Reading
<1>4. \A n, m \in Nat : /\ SumDeltas(n, m) \in Nat /\ SumDeltas(n, m) <= n
                         /\ SumDeltas(0, m) = 0 /\ SumDeltas(n, n) = 0
  BY DEF SumDeltas
<1>5. Coming(c)' = 0
  BY <1>1, <1>2, <1>3, <1>4 DEF Coming
<1>6. /\ came = SumFunctionOnSet(carried, readLinks[c]) /\ came \in Int
      /\ k \in Link \ readLinks[c] =>
            SumFunctionOnSet(carried, readLinks[c] \cup {k}) = carried[k] + came
  <2>1. IsFiniteSet(readLinks[c]) /\ \A i \in readLinks[c] : carried[i] \in Int
    BY <1>1, TrafficAssumption, FS_Subset
  <2>2. SumFunctionOnSet(carried, readLinks[c]) \in Int
    BY <2>1, SumTakesOne
  <2> QED BY <1>1, <2>2, CameJoins DEF Came
<1>7. Came(c)' = IF k \in Link \ readLinks[c] THEN carried[k] + came ELSE came
  <2>1. Came(c)' = SumFunctionOnSet(carried, readLinks'[c])
    BY <1>2 DEF Came
  <2>2. readLinks'[c] = IF k \in Link \ readLinks[c] THEN readLinks[c] \cup {k} ELSE readLinks[c]
    BY <1>1, <1>2
  <2> QED BY <1>6, <2>1, <2>2
<1>a. l # "none" => counter[l] \in Nat
  BY <1>1
<1> HIDE DEF l, k, now, came
<1>8. CASE usage = NoUsage
  <2>1. readLinks[c] = {} /\ came = 0
    BY <1>6, <1>8, SumTakesOne, FS_EmptySet DEF TotalsInv
  <2>2. usage'.total[c] <= Came(c)' /\ usage'.total[c] \in Nat
    BY <1>1, <1>2, <1>3, <1>7, <1>8, <2>1
  <2> QED BY <1>5, <2>2 DEF NotAhead
<1>9. CASE usage # NoUsage
  <2>1. usage.total[c] \in Nat /\ usage.raw[c] \in Nat
    BY <1>9 DEF TrafficTypeInv, Usage
  <2>2. usage.total[c] + Coming(c) <= came
    BY <1>2, <1>9 DEF TotalsInv, NotAhead, came
  <2>3. Coming(c) = IF l = "none" THEN 0 ELSE SumDeltas(counter[l], usage.raw[c])
    BY DEF Coming, l
  <2>4. Coming(c) \in Nat
    BY <1>4, <1>a, <2>1, <2>3
  <2>5. CASE k = "none"
    <3>0. now = 0 /\ SumDeltas(0, usage.raw[c]) = 0
      BY <1>3, <1>4, <2>1, <2>5
    <3>1. usage'.total[c] = usage.total[c] /\ Came(c)' = came
      BY <1>1, <1>2, <1>7, <1>9, <2>1, <2>5, <3>0
    <3> QED BY <1>5, <1>6, <2>1, <2>2, <2>4, <3>1 DEF NotAhead
  <2>6. CASE k # "none" /\ k = l
    <3>1. usage'.total[c] = usage.total[c] + Coming(c) /\ Came(c)' = came
      BY <1>1, <1>2, <1>3, <1>7, <1>9, <2>3, <2>6
    <3> QED BY <1>5, <1>6, <2>1, <2>2, <2>4, <3>1 DEF NotAhead
  <2>7. CASE k # "none" /\ k # l
    <3>1. /\ Came(c)' = carried[k] + came /\ now <= carried[k] /\ carried[k] \in Nat
          /\ usage'.total[c] = usage.total[c] + SumDeltas(now, usage.raw[c])
      BY <1>1, <1>2, <1>3, <1>7, <1>9, <2>7
    <3>2. SumDeltas(now, usage.raw[c]) \in Nat /\ SumDeltas(now, usage.raw[c]) <= now
      BY <1>3, <1>4, <2>1
    <3> QED BY <1>3, <1>5, <1>6, <2>1, <2>2, <2>4, <3>1, <3>2 DEF NotAhead
  <2> QED BY <2>5, <2>6, <2>7
<1> QED BY <1>8, <1>9

LEMMA TotalsStep ==
    ASSUME TrafficTypeInv, TotalsInv, TrafficNext
    PROVE  TotalsInv'
<1>1. /\ counter \in [Link -> Nat] /\ carried \in [Link -> Nat]
      /\ usage # NoUsage => usage.raw \in [Column -> Nat] /\ usage.total \in [Column -> Nat]
  BY DEF TrafficTypeInv, Usage
<1>2. NoUsage \notin Usage
  BY DEF NoUsage, Usage
<1>3. CASE Tick \/ Reroute
  BY <1>3 DEF Tick, Reroute, TotalsInv, NotAhead, Coming, Came, historyVars
<1>4. ASSUME NEW j \in Link, Carry(j) \/ Renew(j)
      PROVE  TotalsInv'
  <2>1. /\ usage' = usage /\ samples' = samples
        /\ lastLink' = lastLink /\ readLinks' = readLinks /\ returned' = returned
    BY <1>4 DEF Carry, Renew, historyVars
  <2>2. usage # NoUsage => \A c \in Column \ returned : NotAhead(c)'
    BY <1>4, ColumnWaits
  <2> QED BY <2>1, <2>2 DEF TotalsInv
<1>5. ASSUME NEW bad \in SUBSET Column, Sample(bad)
      PROVE  TotalsInv'
  <2>1. usage' \in Usage /\ usage' # NoUsage /\ usage'.total \in [Column -> Nat]
    BY <1>2, <1>5, SampleWrites DEF Usage
  <2>2. \A i \in Column : Reading(bad)[i] \in Nat
    BY ReadingType
  <2>3. ASSUME usage # NoUsage, NEW i \in Column PROVE usage.total[i] <= usage'.total[i]
    <3>1. usage'.total[i] = usage.total[i] + SumDeltas(Reading(bad)[i], usage.raw[i])
      BY <1>5, <2>3, SampleWrites
    <3>2. SumDeltas(Reading(bad)[i], usage.raw[i]) \in Nat /\ usage.total[i] \in Nat
      BY <1>1, <2>2, <2>3, DeltaType
    <3> QED BY <3>1, <3>2
  <2>4. ASSUME NEW t \in DOMAIN samples', NEW i \in Column
        PROVE  samples'[t][i] <= usage'.total[i]
    <3>1. CASE t = clock /\ samples'[t] = usage'.total
      BY <2>1, <3>1
    <3>2. CASE t \in DOMAIN samples /\ samples'[t] = samples[t]
      <4>1. usage # NoUsage /\ samples[t][i] <= usage.total[i]
        BY <3>2 DEF TotalsInv
      <4>2. samples[t][i] \in Nat
        BY <3>2 DEF TrafficTypeInv
      <4> QED BY <1>1, <2>1, <2>3, <3>2, <4>1, <4>2
    <3> QED BY <1>5, <3>1, <3>2, SampleWrites
  <2>5. \A c \in Column \ returned' : NotAhead(c)'
    BY <1>5, ColumnSampled
  <2>6. ASSUME NEW t \in DOMAIN samples', NEW u \in DOMAIN samples', t <= u, NEW i \in Column
        PROVE  samples'[t][i] <= samples'[u][i]
    <3>1. CASE u = clock
      BY <1>5, <2>4, <2>6, <3>1, SampleWrites
    <3>2. CASE u # clock
      <4>1. u \in DOMAIN samples /\ samples'[u] = samples[u]
        BY <1>5, <2>6, <3>2, SampleWrites
      <4>2. t # clock
        <5>1. u \in 0..clock /\ clock \in Nat
          BY <4>1, TrafficAssumption DEF TrafficTypeInv
        <5> QED BY <2>6, <3>2, <5>1
      <4>3. t \in DOMAIN samples /\ samples'[t] = samples[t]
        BY <1>5, <2>6, <4>2, SampleWrites
      <4> QED BY <2>6, <4>1, <4>3 DEF TotalsInv
    <3> QED BY <3>1, <3>2
  <2>7. \A c \in Column : lastLink'[c] \in readLinks'[c] \cup {"none"}
    BY <1>5 DEF Sample
  <2> QED BY <2>1, <2>4, <2>5, <2>6, <2>7 DEF TotalsInv
<1>6. TrafficNext => \/ \E i \in Link : Carry(i) \/ Renew(i)
                     \/ Tick \/ Reroute \/ \E bad \in SUBSET Column : Sample(bad)
  BY DEF TrafficNext, Collect, CollectBlind
<1> QED BY <1>3, <1>4, <1>5, <1>6

LEMMA TrafficStart == TrafficInit => TrafficTypeInv /\ TotalsInv
<1> SUFFICES ASSUME TrafficInit PROVE TrafficTypeInv /\ TotalsInv
  OBVIOUS
<1>1. /\ counter = [i \in Link |-> 0] /\ carried = [i \in Link |-> 0] /\ clock = 0 /\ usage = NoUsage
      /\ DOMAIN samples = {} /\ \A g \in Granularity : DOMAIN buckets[g] = {}
      /\ uplink \in Link /\ lastLink = [c \in Column |-> "none"] /\ readLinks = [c \in Column |-> {}]
  BY DEF TrafficInit
<1> QED BY <1>1, TrafficAssumption DEF TrafficTypeInv, TotalsInv

\* The variables of TrafficCounters have their types; no total and no bucket is negative,
\* and buckets start where their granularity allows, for any retention and any spans.
THEOREM TrafficTypeCorrect == TrafficSpec => []TrafficTypeOK
<1>1. TrafficTypeInv /\ [TrafficNext]_trafficVars => TrafficTypeInv'
  <2>1. CASE UNCHANGED trafficVars
    BY <2>1 DEF trafficVars, historyVars, TrafficTypeInv
  <2> QED BY <2>1, TrafficTypeStep
<1>2. TrafficTypeInv => TrafficTypeOK
  BY DEF TrafficTypeInv, TrafficTypeOK
<1> QED BY <1>1, <1>2, TrafficStart, PTL DEF TrafficSpec

\* The totals of awg-gateway never run backwards, and a column that never came back to a
\* link has no more than the links that it was read from carried, for any number of links,
\* made anew at any time, and any moves of the default route; by the invariant that a total
\* and what the next sample would add are covered.
THEOREM TotalsCorrect == TrafficSpec => []TotalsHonest
<1>1. TrafficTypeInv /\ TotalsInv /\ [TrafficNext]_trafficVars => TrafficTypeInv' /\ TotalsInv'
  <2>1. CASE UNCHANGED trafficVars
    BY <2>1 DEF trafficVars, historyVars, TrafficTypeInv, TotalsInv, NotAhead, Coming, Came
  <2> QED BY <2>1, TrafficTypeStep, TotalsStep
<1>2. TrafficTypeInv /\ TotalsInv => TotalsHonest
  <2> SUFFICES ASSUME TrafficTypeInv, TotalsInv, usage # NoUsage, NEW c \in Column \ returned
               PROVE  usage.total[c] <= SumFunctionOnSet(carried, readLinks[c])
    BY DEF TotalsInv, TotalsHonest
  <2>1. /\ usage.total[c] \in Nat /\ usage.raw[c] \in Nat /\ counter \in [Link -> Nat]
        /\ lastLink[c] \in Link \cup {"none"} /\ usage.total[c] + Coming(c) <= Came(c)
    BY DEF TrafficTypeInv, TotalsInv, Usage, NotAhead
  <2>2. Coming(c) \in Nat
    BY <2>1, DeltaType DEF Coming
  <2>3. Came(c) \in Int
    <3>1. IsFiniteSet(readLinks[c]) /\ \A i \in readLinks[c] : carried[i] \in Int
      BY TrafficAssumption, FS_Subset DEF TrafficTypeInv
    <3> QED BY <3>1, SumTakesOne DEF Came
  <2>4. usage.total[c] <= Came(c)
    BY <2>1, <2>2, <2>3
  <2> QED BY <2>4 DEF Came
<1> QED BY <1>1, <1>2, TrafficStart, PTL DEF TrafficSpec

LEMMA MultiplesApart ==
    ASSUME NEW n \in Nat \ {0}, NEW a \in Nat, NEW b \in Nat, n * a < n * (b + 1)
    PROVE  a <= b
<1>1. SUFFICES ASSUME a > b PROVE FALSE
  OBVIOUS
<1>2. PICK k \in Nat : a = b + 1 + k
  <2>1. a - b - 1 \in Nat /\ a = b + 1 + (a - b - 1)
    BY <1>1
  <2> QED
    BY <2>1
<1>3. n * a = n * (b + 1) + n * k
  BY <1>2
<1>4. n * k \in Nat /\ n * (b + 1) \in Nat
  OBVIOUS
<1> QED
  BY <1>3, <1>4

LEMMA Divided ==
    ASSUME NEW n \in Nat \ {0}, NEW t \in Nat
    PROVE  /\ t \div n \in Nat /\ t % n \in 0..n - 1 /\ t - (t % n) = n * (t \div n)
           /\ t - (t % n) \in Nat /\ t - (t % n) <= t /\ t < t - (t % n) + n
<1>1. t = n * (t \div n) + (t % n) /\ t \div n \in Nat /\ t % n \in 0..n - 1
  OBVIOUS
<1>2. n * (t \div n) \in Nat
  BY <1>1
<1> QED
  BY <1>1, <1>2

LEMMA Multiple ==
    ASSUME NEW n \in Nat \ {0}, NEW c \in Nat, c % n = 0
    PROVE  c = n * (c \div n) /\ c \div n \in Nat
BY Divided

\* A bucket contains the moments that start in it, and no others.
LEMMA StartUnique ==
    ASSUME NEW n \in Nat \ {0}, NEW t \in Nat, NEW c \in Nat, c % n = 0
    PROVE  t \in c..(c + n - 1) <=> c = t - (t % n)
<1>1. t - (t % n) = n * (t \div n) /\ t \div n \in Nat /\ t - (t % n) <= t /\ t < t - (t % n) + n
  BY Divided
<1>2. c = n * (c \div n) /\ c \div n \in Nat
  BY Multiple
<1> DEFINE q == t \div n
           m == c \div n
<1>3. n * (q + 1) = n * q + n /\ n * (m + 1) = n * m + n /\ n * q \in Nat /\ n * m \in Nat
  BY <1>1, <1>2
<1>4. ASSUME t \in c..(c + n - 1) PROVE c = t - (t % n)
  <2>1. n * m < n * (q + 1) /\ n * q < n * (m + 1)
    BY <1>1, <1>2, <1>3, <1>4
  <2>2. m <= q /\ q <= m
    BY <1>1, <1>2, <2>1, MultiplesApart
  <2>3. m = q
    BY <1>1, <1>2, <2>2
  <2> QED
    BY <1>1, <1>2, <2>3
<1>5. ASSUME c = t - (t % n) PROVE t \in c..(c + n - 1)
  BY <1>1, <1>5
<1> QED
  BY <1>4, <1>5

\* The hour of a moment is the hour of its minute.
LEMMA StartsNest ==
    ASSUME NEW n \in Nat \ {0}, NEW w \in Nat \ {0}, w % n = 0, NEW t \in Nat
    PROVE  (t - (t % n)) - ((t - (t % n)) % w) = t - (t % w)
<1> DEFINE b == t - (t % n)
           c == t - (t % w)
           q == t \div n
           k == w \div n
           m == t \div w
<1>1. b = n * q /\ q \in Nat /\ b \in Nat /\ b <= t /\ t < b + n
  BY Divided
<1>2. c = w * m /\ m \in Nat /\ c \in Nat /\ c <= t /\ t < c + w
  BY Divided
<1>3. w = n * k /\ k \in Nat
  BY Multiple
<1>4. c % w = 0
  BY BucketStartDivides
<1> HIDE DEF b, c, q, k, m
<1>5. k * m \in Nat /\ c = n * (k * m)
  BY <1>2, <1>3
<1>6. n * (q + 1) = b + n
  BY <1>1
<1>7. k * m <= q
  BY <1>1, <1>2, <1>5, <1>6, MultiplesApart
<1>8. c <= b
  <2>1. PICK d \in Nat : q = k * m + d
    <3>1. q - k * m \in Nat /\ q = k * m + (q - k * m)
      BY <1>1, <1>5, <1>7
    <3> QED
      BY <3>1
  <2>2. n * q = n * (k * m) + n * d /\ n * d \in Nat
    BY <1>5, <2>1
  <2> QED
    BY <1>1, <1>2, <1>5, <2>2
<1>9. b \in c..(c + w - 1)
  BY <1>1, <1>2, <1>8
<1>10. c = b - (b % w)
  BY <1>1, <1>2, <1>4, <1>9, StartUnique
<1> QED
  BY <1>10 DEF b, c

\* One sample, of d bytes at time t, in the buckets f and c of one link, of n and of w ticks;
\* the last sample was at time "at".
OneSample(n, w, t, at, keepFine, keepCoarse, d, Fine, f, Coarse, c, FineNew, fNew, CoarseNew, cNew) ==
    /\ n \in Nat \ {0} /\ w \in Nat \ {0} /\ w % n = 0
    /\ t \in Nat /\ at \in Nat /\ at <= t /\ keepFine \in Nat /\ keepCoarse \in Nat /\ d \in Nat
    /\ Fine \in SUBSET Nat /\ f \in [Fine -> Nat]
    /\ Coarse \in SUBSET Nat /\ c \in [Coarse -> Nat] /\ \A s \in Coarse : s % w = 0
    /\ \A b \in Fine : b - (b % w) \in Coarse \/ b - (b % w) < at - keepCoarse
    /\ \A s \in Coarse : s >= at - keepFine =>
           c[s] = SumFunctionOnSet(f, {b \in Fine : b \in s..(s + w - 1)})
    /\ FineNew = {b \in Fine \cup {t - (t % n)} : b >= t - keepFine}
    /\ CoarseNew = {b \in Coarse \cup {t - (t % w)} : b >= t - keepCoarse}
    /\ \A b \in FineNew :
           fNew[b] = (IF b \in Fine THEN f[b] ELSE 0) + (IF b = t - (t % n) THEN d ELSE 0)
    /\ \A b \in CoarseNew :
           cNew[b] = (IF b \in Coarse THEN c[b] ELSE 0) + (IF b = t - (t % w) THEN d ELSE 0)

\* A bucket of w ticks stays the sum of those of n ticks, whatever is dropped from either.
LEMMA BucketAdds ==
    ASSUME NEW n, NEW w, NEW t, NEW at, NEW keepFine, NEW keepCoarse, NEW d, NEW Fine, NEW f,
           NEW Coarse, NEW c, NEW FineNew, NEW fNew, NEW CoarseNew, NEW cNew,
           OneSample(n, w, t, at, keepFine, keepCoarse, d, Fine, f, Coarse, c, FineNew, fNew, CoarseNew, cNew),
           NEW s \in CoarseNew, s >= t - keepFine
    PROVE  cNew[s] = SumFunctionOnSet(fNew, {b \in FineNew : b \in s..(s + w - 1)})
<1> USE DEF OneSample
<1> DEFINE m == t - (t % n)
           h == t - (t % w)
           W == {b \in Fine : b \in s..(s + w - 1)}
           V == {b \in FineNew : b \in s..(s + w - 1)}
           R == W \ {m}
<1>1. m \in Nat /\ h \in Nat /\ m <= t /\ h <= t
  BY Divided
<1>2. s \in Nat /\ s % w = 0 /\ s >= t - keepCoarse /\ (s \in Coarse \/ s = h)
  BY <1>1, BucketStartDivides
<1>3. \A b \in Nat : b \in s..(s + w - 1) <=> s = b - (b % w)
  BY <1>2, StartUnique
<1>4. m \in s..(s + w - 1) <=> s = h
  <2>1. m - (m % w) = h
    <3>1. \A a \in Nat \ {0} : \A k \in Nat \ {0} : \A x \in Nat : k % a = 0 => (x - (x % a)) - ((x - (x % a)) % k) = x - (x % k)
      <4> SUFFICES ASSUME NEW a \in Nat \ {0}, NEW k \in Nat \ {0}, NEW x \in Nat, k % a = 0
                   PROVE  (x - (x % a)) - ((x - (x % a)) % k) = x - (x % k)
        OBVIOUS
      <4> QED
        BY StartsNest
    <3>2. n \in Nat \ {0} /\ w \in Nat \ {0} /\ w % n = 0 /\ t \in Nat
      OBVIOUS
    <3> QED
      BY <3>1, <3>2, Zenon
  <2> HIDE DEF m, h
  <2> QED
    BY <1>1, <1>3, <2>1
<1>5. \A b \in V : b \in Nat /\ fNew[b] = (IF b \in Fine THEN f[b] ELSE 0) + (IF b = m THEN d ELSE 0)
  BY <1>1
<1>6. \A b \in s..(s + w - 1) : b \in V <=> b \in W \/ b = m
  BY <1>1, <1>2
<1>7. W \subseteq Fine /\ W \subseteq s..(s + w - 1) /\ V \subseteq s..(s + w - 1)
  OBVIOUS
<1>8. m \in W <=> m \in Fine /\ m \in s..(s + w - 1)
  OBVIOUS
<1>9. IsFiniteSet(s..(s + w - 1))
  BY <1>2, FS_Interval
<1>10. cNew[s] = (IF s \in Coarse THEN c[s] ELSE 0) + (IF s = h THEN d ELSE 0)
  OBVIOUS
<1>11. s \in Coarse => c[s] = SumFunctionOnSet(f, W) /\ c[s] \in Nat
  BY <1>2
<1>12. s \notin Coarse => W = {}
  <2>1. \A b \in Fine : b - (b % w) = s => s \in Coarse
    <3>1. ~(s < at - keepCoarse)
      BY <1>2
    <3> QED
      BY <3>1
  <2>2. \A b \in W : b - (b % w) = s
    BY <1>3
  <2> QED
    BY <2>1, <2>2
<1> HIDE DEF m, h, W, V, R
<1>13. IsFiniteSet(W) /\ IsFiniteSet(V) /\ IsFiniteSet(R)
  BY <1>7, <1>9, FS_Subset DEF R
<1>14. \A b \in W : f[b] \in Int
  BY <1>7
<1>15. \A b \in V : fNew[b] \in Int
  BY <1>5
<1>16. \A b \in R : f[b] \in Int /\ fNew[b] = f[b]
  BY <1>5, <1>6, <1>7 DEF R
<1>17. SumFunctionOnSet(f, R) = SumFunctionOnSet(fNew, R) /\ SumFunctionOnSet(f, R) \in Int
  <2>1. \A b \in R : f[b] \in Int
    BY <1>16
  <2> QED
    BY <1>13, <1>16, <2>1, SumsEqual, SumTakesOne
<1>18. m \in W => SumFunctionOnSet(f, W) = f[m] + SumFunctionOnSet(f, R)
  <2>1. m \in W => SumFunctionOnSet(f, W) = f[m] + SumFunctionOnSet(f, W \ {m})
    BY <1>13, <1>14, SumSplits, ZenonT(60)
  <2> QED
    BY <2>1 DEF R
<1>19. m \in V => SumFunctionOnSet(fNew, V) = fNew[m] + SumFunctionOnSet(fNew, V \ {m})
  BY <1>13, <1>15, SumSplits, ZenonT(60)
<1>20. CASE s # h
  <2>1. V = W /\ R = W
    BY <1>4, <1>6, <1>7, <1>20 DEF R
  <2>2. cNew[s] = SumFunctionOnSet(f, W)
    BY <1>2, <1>10, <1>11, <1>20
  <2>3. cNew[s] = SumFunctionOnSet(fNew, V)
    BY <1>17, <2>1, <2>2
  <2> QED
    BY <2>3 DEF V
<1>21. CASE s = h
  <2>1. m \in V /\ V \ {m} = R
    BY <1>4, <1>6, <1>7, <1>21 DEF R
  <2>2. SumFunctionOnSet(fNew, V) = SumFunctionOnSet(f, W) + d
    <3>1. CASE m \in W
      <4>1. fNew[m] = f[m] + d /\ f[m] \in Nat
        BY <1>5, <1>7, <2>1, <3>1
      <4>2. /\ SumFunctionOnSet(f, W) = f[m] + SumFunctionOnSet(f, R)
            /\ SumFunctionOnSet(fNew, V) = fNew[m] + SumFunctionOnSet(f, R)
        BY <1>17, <1>18, <1>19, <2>1, <3>1
      <4>3. SumFunctionOnSet(f, R) \in Int
        BY <1>17
      <4> HIDE DEF V
      <4> QED
        BY <4>1, <4>2, <4>3
    <3>2. CASE m \notin W
      <4>1. fNew[m] = d /\ R = W
        BY <1>4, <1>5, <1>8, <1>21, <2>1, <3>2 DEF R
      <4> QED
        <5>1. /\ SumFunctionOnSet(f, R) = SumFunctionOnSet(f, W)
              /\ SumFunctionOnSet(fNew, V) = d + SumFunctionOnSet(f, R)
          BY <1>17, <1>19, <2>1, <4>1
        <5>2. SumFunctionOnSet(f, R) \in Int
          BY <1>17
        <5> QED
          BY <5>1, <5>2
    <3> QED
      BY <3>1, <3>2
  <2>3. s \notin Coarse => SumFunctionOnSet(f, W) = 0
    BY <1>12, <1>13, <1>14, SumTakesOne
  <2> QED
    BY <1>10, <1>11, <1>21, <2>2, <2>3 DEF V
<1> QED
  BY <1>20, <1>21

BucketPairs == {<<"minute", "hour">>, <<"hour", "day">>}

\* The bucket of an hour is there as long as one of its minutes is, or is old enough to be
\* dropped.
HoursRemain ==
    \A pair \in BucketPairs : \A b \in DOMAIN buckets[pair[1]] :
        \/ BucketStart(pair[2], b) \in DOMAIN buckets[pair[2]]
        \/ BucketStart(pair[2], b) < usage.at - Keep[pair[2]]

BucketsInv ==
    /\ usage = NoUsage => \A g \in Granularity : DOMAIN buckets[g] = {}
    /\ usage # NoUsage => usage.at <= clock
    /\ \A g \in Granularity : DOMAIN buckets[g] \subseteq Nat
    /\ HoursRemain
    /\ BucketsAgree

\* What a later sample writes to the buckets of a granularity
LEMMA BucketsWritten ==
    ASSUME TrafficTypeInv, NEW bad \in SUBSET Column, Sample(bad), usage # NoUsage
    PROVE  \E delta \in [Column -> Nat] : \A g \in Granularity :
              /\ DOMAIN buckets'[g] =
                    {b \in DOMAIN buckets[g] \cup {BucketStart(g, clock)} : b >= clock - Keep[g]}
              /\ \A b \in DOMAIN buckets'[g] : \A i \in Column :
                    buckets'[g][b][i] = (IF b \in DOMAIN buckets[g] THEN buckets[g][b][i] ELSE 0)
                                        + (IF b = BucketStart(g, clock) THEN delta[i] ELSE 0)
<1> DEFINE now == Reading(bad)
           delta == [i \in Column |-> SumDeltas(now[i], usage.raw[i])]
<1>1. buckets' = [g \in Granularity |-> Kept(Upserted(buckets[g], BucketStart(g, clock), delta), Keep[g])]
  BY DEF Sample
<1>2. now \in [Column -> Nat] /\ usage.raw \in [Column -> Nat]
  BY ReadingType DEF TrafficTypeInv, Usage
<1> HIDE DEF now
<1>3. delta \in [Column -> Nat]
  BY <1>2, DeltaType
<1> HIDE DEF delta
<1>4. ASSUME NEW g \in Granularity
      PROVE  /\ DOMAIN buckets'[g] =
                   {b \in DOMAIN buckets[g] \cup {BucketStart(g, clock)} : b >= clock - Keep[g]}
             /\ \A b \in DOMAIN buckets'[g] : \A i \in Column :
                   buckets'[g][b][i] = (IF b \in DOMAIN buckets[g] THEN buckets[g][b][i] ELSE 0)
                                       + (IF b = BucketStart(g, clock) THEN delta[i] ELSE 0)
  <2> DEFINE start == BucketStart(g, clock)
             ups == Upserted(buckets[g], start, delta)
  <2>1. buckets'[g] = Kept(ups, Keep[g])
    BY <1>1
  <2>2. /\ DOMAIN ups = DOMAIN buckets[g] \cup {start}
        /\ \A b \in DOMAIN ups : \A i \in Column :
              ups[b][i] = (IF b \in DOMAIN buckets[g] THEN buckets[g][b][i] ELSE 0)
                          + (IF b = start THEN delta[i] ELSE 0)
    <3> HIDE DEF start
    <3> QED
      BY DEF Upserted
  <2> HIDE DEF start, ups
  <2>3. /\ DOMAIN Kept(ups, Keep[g]) = {b \in DOMAIN ups : b >= clock - Keep[g]}
        /\ \A b \in DOMAIN Kept(ups, Keep[g]) : Kept(ups, Keep[g])[b] = ups[b]
    BY DEF Kept
  <2>4. \A b \in DOMAIN buckets'[g] : b \in DOMAIN ups /\ buckets'[g][b] = ups[b]
    BY <2>1, <2>3
  <2>5. DOMAIN buckets'[g] = {b \in DOMAIN buckets[g] \cup {start} : b >= clock - Keep[g]}
    BY <2>1, <2>2, <2>3
  <2> QED
    BY <2>2, <2>4, <2>5 DEF start
<1> QED
  BY <1>3, <1>4

LEMMA BucketsSampled ==
    ASSUME TrafficTypeInv, BucketsInv, NEW bad \in SUBSET Column, Sample(bad), usage # NoUsage
    PROVE  BucketsInv'
<1>1. /\ clock \in Nat /\ clock' = clock /\ usage'.at = clock /\ usage' # NoUsage
      /\ usage.at \in Nat /\ usage.at <= clock
  BY TrafficAssumption DEF TrafficTypeInv, BucketsInv, Sample, Usage, NoUsage
<1>2. PICK delta \in [Column -> Nat] : \A g \in Granularity :
          /\ DOMAIN buckets'[g] =
                {b \in DOMAIN buckets[g] \cup {BucketStart(g, clock)} : b >= clock - Keep[g]}
          /\ \A b \in DOMAIN buckets'[g] : \A i \in Column :
                buckets'[g][b][i] = (IF b \in DOMAIN buckets[g] THEN buckets[g][b][i] ELSE 0)
                                    + (IF b = BucketStart(g, clock) THEN delta[i] ELSE 0)
  BY BucketsWritten
<1>3. \A g \in Granularity :
          /\ Span[g] \in Nat \ {0} /\ Keep[g] \in Nat
          /\ BucketStart(g, clock) \in Nat /\ BucketStart(g, clock) % Span[g] = 0
  BY <1>1, TrafficAssumption, Divided, BucketStartDivides DEF BucketStart
<1>4. \A g \in Granularity : DOMAIN buckets'[g] \subseteq Nat
  BY <1>2, <1>3 DEF BucketsInv
<1>5. \A pair \in BucketPairs : /\ pair[1] \in Granularity /\ pair[2] \in Granularity
                                /\ Span[pair[2]] % Span[pair[1]] = 0
  BY TrafficAssumption DEF BucketPairs, Granularity
<1>6. ASSUME NEW pair \in BucketPairs, NEW b \in DOMAIN buckets'[pair[1]]
      PROVE  \/ BucketStart(pair[2], b) \in DOMAIN buckets'[pair[2]]
             \/ BucketStart(pair[2], b) < clock - Keep[pair[2]]
  <2> DEFINE start == BucketStart(pair[2], b)
  <2>1. b \in Nat /\ start \in Nat
    BY <1>3, <1>4, <1>5, <1>6, Divided DEF BucketStart
  <2>2. /\ b \in DOMAIN buckets[pair[1]] \/ b = BucketStart(pair[1], clock)
        /\ DOMAIN buckets'[pair[2]] = {c \in DOMAIN buckets[pair[2]] \cup {BucketStart(pair[2], clock)} :
                                          c >= clock - Keep[pair[2]]}
    BY <1>2, <1>5, <1>6
  <2>3. CASE b \in DOMAIN buckets[pair[1]]
    <3>1. start \in DOMAIN buckets[pair[2]] \/ start < usage.at - Keep[pair[2]]
      BY <1>6, <2>3 DEF BucketsInv, HoursRemain
    <3> HIDE DEF start
    <3>2. start \in DOMAIN buckets'[pair[2]] \/ start < clock - Keep[pair[2]]
      BY <1>1, <1>3, <1>5, <1>6, <2>1, <2>2, <3>1
    <3> QED
      BY <3>2 DEF start
  <2>4. CASE b = BucketStart(pair[1], clock)
    <3> DEFINE n == Span[pair[1]]
               w == Span[pair[2]]
    <3>1. n \in Nat \ {0} /\ w \in Nat \ {0} /\ w % n = 0
      BY <1>3, <1>5, <1>6
    <3>2. b = clock - (clock % n) /\ start = b - (b % w)
      BY <2>4 DEF BucketStart
    <3> HIDE DEF n, w, start
    <3>3. start = clock - (clock % w)
      BY <1>1, <3>1, <3>2, StartsNest
    <3>4. start = BucketStart(pair[2], clock)
      BY <3>3 DEF BucketStart, w
    <3>5. start \in DOMAIN buckets'[pair[2]] \/ start < clock - Keep[pair[2]]
      BY <1>1, <1>3, <1>5, <1>6, <2>1, <2>2, <3>4
    <3> QED
      BY <3>5 DEF start
  <2> QED
    BY <2>2, <2>3, <2>4
<1>7. ASSUME NEW pair \in BucketPairs, NEW s \in DOMAIN buckets'[pair[2]],
             s >= clock - Keep[pair[1]], NEW i \in Column
      PROVE  buckets'[pair[2]][s][i] =
               SumFunctionOnSet([b \in DOMAIN buckets'[pair[1]] |-> buckets'[pair[1]][b][i]],
                                {b \in DOMAIN buckets'[pair[1]] : b \in s..(s + Span[pair[2]] - 1)})
  <2> DEFINE n == Span[pair[1]]
             w == Span[pair[2]]
             keepFine == Keep[pair[1]]
             keepCoarse == Keep[pair[2]]
             d == delta[i]
             Fine == DOMAIN buckets[pair[1]]
             Coarse == DOMAIN buckets[pair[2]]
             FineNew == DOMAIN buckets'[pair[1]]
             CoarseNew == DOMAIN buckets'[pair[2]]
             f == [b \in Fine |-> buckets[pair[1]][b][i]]
             c == [b \in Coarse |-> buckets[pair[2]][b][i]]
             fNew == [b \in FineNew |-> buckets'[pair[1]][b][i]]
             cNew == [b \in CoarseNew |-> buckets'[pair[2]][b][i]]
             at == usage.at
  <2>1. /\ n \in Nat \ {0} /\ w \in Nat \ {0} /\ w % n = 0 /\ keepFine \in Nat /\ keepCoarse \in Nat
        /\ d \in Nat
    BY <1>3, <1>5, <1>7
  <2>2. pair[1] \in Granularity /\ pair[2] \in Granularity
    BY <1>5, <1>7
  <2>3. Fine \in SUBSET Nat /\ Coarse \in SUBSET Nat
    BY <2>2 DEF BucketsInv
  <2>4. f \in [Fine -> Nat] /\ c \in [Coarse -> Nat] /\ \A b \in Coarse : b % w = 0
    BY <1>7, <2>2 DEF TrafficTypeInv
  <2>5. \A b \in Fine : b - (b % w) \in Coarse \/ b - (b % w) < at - keepCoarse
    BY <1>7 DEF BucketsInv, HoursRemain, BucketStart
  <2>6. \A u \in Coarse : u >= at - keepFine =>
            c[u] = SumFunctionOnSet(f, {b \in Fine : b \in u..(u + w - 1)})
    <3>1. \A u \in Coarse : u >= at - keepFine =>
            buckets[pair[2]][u][i] = SumFunctionOnSet(f, {b \in Fine : b \in u..(u + w - 1)})
      BY <1>7 DEF BucketsInv, BucketsAgree, Within, BucketPairs
    <3> QED
      BY <3>1
  <2>7. /\ FineNew = {b \in Fine \cup {clock - (clock % n)} : b >= clock - keepFine}
        /\ CoarseNew = {b \in Coarse \cup {clock - (clock % w)} : b >= clock - keepCoarse}
    BY <1>2, <2>2 DEF BucketStart
  <2>8. \A b \in FineNew : fNew[b] = (IF b \in Fine THEN f[b] ELSE 0)
                                     + (IF b = clock - (clock % n) THEN d ELSE 0)
    <3>1. \A b \in FineNew : buckets'[pair[1]][b][i] =
              (IF b \in DOMAIN buckets[pair[1]] THEN buckets[pair[1]][b][i] ELSE 0)
              + (IF b = BucketStart(pair[1], clock) THEN delta[i] ELSE 0)
      BY <1>2, <1>7, <2>2
    <3> QED
      BY <3>1 DEF BucketStart
  <2>9. \A b \in CoarseNew : cNew[b] = (IF b \in Coarse THEN c[b] ELSE 0)
                                       + (IF b = clock - (clock % w) THEN d ELSE 0)
    <3>1. \A b \in CoarseNew : buckets'[pair[2]][b][i] =
              (IF b \in DOMAIN buckets[pair[2]] THEN buckets[pair[2]][b][i] ELSE 0)
              + (IF b = BucketStart(pair[2], clock) THEN delta[i] ELSE 0)
      BY <1>2, <1>7, <2>2
    <3> QED
      BY <3>1 DEF BucketStart
  <2>10. s \in CoarseNew /\ s >= clock - keepFine /\ at \in Nat /\ at <= clock /\ clock \in Nat
    BY <1>1, <1>7
  <2>11. cNew[s] = buckets'[pair[2]][s][i]
    BY <1>7
  <2> HIDE DEF n, w, keepFine, keepCoarse, d, Fine, Coarse, FineNew, CoarseNew, f, c, fNew, cNew, at
  <2>12. OneSample(n, w, clock, at, keepFine, keepCoarse, d, Fine, f, Coarse, c, FineNew, fNew, CoarseNew, cNew)
    BY <2>1, <2>3, <2>4, <2>5, <2>6, <2>7, <2>8, <2>9, <2>10 DEF OneSample
  <2>13. cNew[s] = SumFunctionOnSet(fNew, {b \in FineNew : b \in s..(s + w - 1)})
    BY <2>10, <2>12, BucketAdds
  <2> QED
    BY <2>11, <2>13 DEF fNew, FineNew, w
<1>8. HoursRemain'
  BY <1>1, <1>6 DEF HoursRemain, BucketStart
<1>9. BucketsAgree'
  BY <1>1, <1>7 DEF BucketsAgree, Within, BucketPairs
<1> QED
  BY <1>1, <1>4, <1>8, <1>9 DEF BucketsInv

LEMMA BucketsStep ==
    ASSUME TrafficTypeInv, BucketsInv, TrafficNext
    PROVE  BucketsInv'
<1>1. CASE UNCHANGED <<usage, buckets>> /\ (clock' = clock \/ Tick)
  <2>1. HoursRemain' /\ BucketsAgree'
    BY <1>1 DEF BucketsInv, HoursRemain, BucketsAgree, Within, BucketStart
  <2>2. usage' # NoUsage => usage'.at <= clock'
    BY <1>1, TrafficAssumption DEF BucketsInv, Tick, TrafficTypeInv, Usage
  <2> QED
    BY <1>1, <2>1, <2>2 DEF BucketsInv
<1>2. ASSUME NEW bad \in SUBSET Column, Sample(bad), usage = NoUsage PROVE BucketsInv'
  <2>1. /\ clock \in Nat /\ clock' = clock /\ usage'.at = clock /\ usage' # NoUsage
    BY <1>2, TrafficAssumption DEF TrafficTypeInv, Sample, NoUsage
  <2>2. \A g \in Granularity : DOMAIN buckets'[g] = {}
    <3>1. \A g \in Granularity : buckets'[g] = Kept(buckets[g], Keep[g])
      BY <1>2 DEF Sample
    <3>2. \A g \in Granularity : DOMAIN buckets[g] = {}
      BY <1>2 DEF BucketsInv
    <3> QED
      BY <3>1, <3>2, KeptRows
  <2>3. "minute" \in Granularity /\ "hour" \in Granularity /\ "day" \in Granularity
    BY DEF Granularity
  <2>4. HoursRemain' /\ BucketsAgree'
    BY <2>2, <2>3 DEF HoursRemain, BucketsAgree, BucketPairs
  <2> QED
    BY <2>1, <2>2, <2>4 DEF BucketsInv
<1>3. ASSUME NEW i \in Link, Carry(i) \/ Renew(i) \/ Reroute PROVE UNCHANGED <<usage, buckets>> /\ clock' = clock
  BY <1>3 DEF Carry, Renew, Reroute
<1>4. Tick => UNCHANGED <<usage, buckets>>
  BY DEF Tick
<1>5. TrafficNext => \/ \E i \in Link : Carry(i) \/ Renew(i) \/ Reroute
                     \/ Tick \/ \E bad \in SUBSET Column : Sample(bad)
  BY TrafficAssumption DEF TrafficNext, Collect, CollectBlind
<1> QED
  BY <1>1, <1>2, <1>3, <1>4, <1>5, BucketsSampled

\* A report by hours and one by minutes never contradict each other, and neither do days and
\* hours, for any spans that divide each other and any retention; by the invariant that the
\* bucket of an hour is there, or too old to be there, for each bucket of its minutes, and by
\* the lemmas on sums.
THEOREM BucketsCorrect == TrafficSpec => []BucketsAgree
<1>1. TrafficInit => TrafficTypeInv /\ BucketsInv
  <2> SUFFICES ASSUME TrafficInit PROVE TrafficTypeInv /\ BucketsInv
    OBVIOUS
  <2>1. usage = NoUsage /\ \A g \in Granularity : DOMAIN buckets[g] = {}
    BY DEF TrafficInit
  <2>2. "minute" \in Granularity /\ "hour" \in Granularity /\ "day" \in Granularity
    BY DEF Granularity
  <2>3. HoursRemain /\ BucketsAgree
    BY <2>1, <2>2 DEF HoursRemain, BucketsAgree, BucketPairs
  <2> QED
    BY <2>1, <2>3, TrafficStart DEF BucketsInv
<1>2. TrafficTypeInv /\ BucketsInv /\ [TrafficNext]_trafficVars => TrafficTypeInv' /\ BucketsInv'
  <2>1. CASE UNCHANGED trafficVars
    <3> SUFFICES ASSUME TrafficTypeInv, BucketsInv PROVE TrafficTypeInv' /\ BucketsInv'
      BY <2>1
    <3>1. TrafficTypeInv'
      BY <2>1 DEF trafficVars, historyVars, TrafficTypeInv
    <3>2. HoursRemain' /\ BucketsAgree'
      BY <2>1 DEF trafficVars, BucketsInv, HoursRemain, BucketsAgree, Within, BucketStart
    <3> QED
      BY <2>1, <3>1, <3>2 DEF trafficVars, BucketsInv
  <2> QED
    BY <2>1, TrafficTypeStep, BucketsStep
<1>3. TrafficTypeInv /\ BucketsInv => BucketsAgree
  BY DEF BucketsInv
<1> QED
  BY <1>1, <1>2, <1>3, PTL DEF TrafficSpec

---------------------------------------------------------------------------
(* Archives and sessions *)

RowSet == [file : Nat, at : Nat, restore : BOOLEAN]
ResetPhase == {"capture", "dispose", "recreate", "answer"}
JobPhase == {"write", "flush", "prune", "sync", "act", "commit", "again", "close", "lock"}
                \cup ResetPhase
JobSet == [phase : JobPhase, kind : BackupKinds, record : RowSet, gen : Nat, pooled : BOOLEAN,
           seen : SUBSET Nat, add : SUBSET RowSet, drop : SUBSET RowSet]

\* A slot is free, or has a job whose connection is one to a file that there was.
SlotTyped(job, gens) == job = NoJob \/ (job \in JobSet /\ job.gen \in gens)

JobsTyped ==
    /\ jobs = [j \in BackupSlot |-> jobs[j]]
    /\ \A j \in BackupSlot : SlotTyped(jobs[j], DOMAIN databases)

FilesTyped ==
    /\ databases \in Seq(SUBSET RowSet)
    /\ current \in DOMAIN databases

PoolTyped == pool \in Seq(Nat) /\ Range(pool) \subseteq DOMAIN databases

ArchivesTyped ==
    /\ archives \in [Present -> [at : Nat, holds : SUBSET RowSet]]
    /\ Present \subseteq Nat /\ stamp \in Nat
    /\ \A f \in Present : archives[f].at < stamp

FlagsTyped ==
    /\ resetLock \in BackupSlot \cup {"none"}
    /\ restored \in BOOLEAN /\ stragglers \in BOOLEAN /\ torn \in BOOLEAN

StoreTyped == JobsTyped /\ FilesTyped /\ PoolTyped /\ ArchivesTyped /\ FlagsTyped

\* The door is closed while, and only while, its holder is between closing and opening it.
DoorHeld == \A j \in BackupSlot : resetLock = j <=> jobs[j].phase \in ResetPhase

\* A reset that found nobody else in flight is alone from there on, with an empty pool.
ResetAlone ==
    \A j \in BackupSlot :
        resetLock = j /\ jobs[j].phase \in {"recreate", "answer"} /\ ~stragglers =>
            InFlight = {j} /\ pool = <<>> /\ ~jobs[j].pooled

SessionsInv == DoorHeld /\ ResetAlone /\ SessionsShareDatabase

BackupsInv == StoreTyped /\ SessionsInv

---------------------------------------------------------------------------
(* The pool *)

LEMMA CheckoutMembers ==
    ASSUME FilesTyped, PoolTyped
    PROVE  /\ Checkout \in Range(pool) \cup {current}
           /\ PoolAfterCheckout \in Seq(Nat) /\ Range(PoolAfterCheckout) \subseteq Range(pool)
           /\ Checkout \in DOMAIN databases /\ Checkout \in Nat
<1>1. pool \in Seq(Nat) /\ Range(pool) = {pool[k] : k \in 1..Len(pool)}
  BY DEF PoolTyped, Range
<1>2. CASE pool = <<>>
  BY <1>1, <1>2 DEF Checkout, PoolAfterCheckout, FilesTyped
<1>3. CASE pool # <<>>
  <2>1. Len(pool) \in Nat /\ Len(pool) > 0 /\ Head(pool) = pool[1]
    BY <1>1, <1>3
  <2>2. Tail(pool) \in Seq(Nat) /\ Len(Tail(pool)) = Len(pool) - 1
        /\ \A k \in 1..Len(pool) - 1 : Tail(pool)[k] = pool[k + 1]
    BY <1>1, <1>3
  <2>3. Range(Tail(pool)) \subseteq Range(pool)
    <3> DEFINE rest == Tail(pool)
    <3>1. rest \in Seq(Nat) /\ Len(rest) = Len(pool) - 1
          /\ \A k \in 1..Len(pool) - 1 : rest[k] = pool[k + 1]
      BY <2>2
    <3> HIDE DEF rest
    <3>2. Range(rest) = {rest[k] : k \in 1..Len(pool) - 1}
      BY <3>1 DEF Range
    <3>3. \A k \in 1..Len(pool) - 1 : rest[k] \in Range(pool)
      <4>1. \A k \in 1..Len(pool) - 1 : k + 1 \in 1..Len(pool)
        BY <2>1
      <4> QED
        BY <1>1, <3>1, <4>1
    <3>4. Range(rest) \subseteq Range(pool)
      BY <3>2, <3>3
    <3> QED
      BY <3>4 DEF rest
  <2> QED
    BY <1>1, <1>3, <2>1, <2>2, <2>3 DEF Checkout, PoolAfterCheckout, PoolTyped, FilesTyped
<1> QED
  BY <1>2, <1>3

LEMMA ReturnMembers ==
    ASSUME PoolTyped, NEW j \in BackupSlot, jobs[j] \in JobSet
    PROVE  /\ PoolAfter(j) \in Seq(Nat)
           /\ Range(PoolAfter(j)) \subseteq
                  Range(pool) \cup (IF jobs[j].pooled THEN {jobs[j].gen} ELSE {})
<1>1. pool \in Seq(Nat) /\ jobs[j].gen \in Nat
  BY DEF PoolTyped, JobSet
<1> DEFINE grown == Append(pool, jobs[j].gen)
<1>2. grown \in Seq(Nat) /\ Len(grown) = Len(pool) + 1 /\ Len(pool) \in Nat
      /\ \A k \in 1..Len(pool) + 1 :
             grown[k] = IF k <= Len(pool) THEN pool[k] ELSE jobs[j].gen
  BY <1>1
<1>3. Range(grown) = {grown[k] : k \in 1..Len(pool) + 1} /\ Range(pool) = {pool[k] : k \in 1..Len(pool)}
  BY <1>1, <1>2 DEF Range
<1>4. Range(grown) \subseteq Range(pool) \cup {jobs[j].gen}
  <2> HIDE DEF grown
  <2> QED
    BY <1>2, <1>3
<1> QED
  BY <1>1, <1>2, <1>4 DEF PoolAfter

---------------------------------------------------------------------------
(* Steps of a session *)

LEMMA OnePlace ==
    ASSUME JobsTyped, NEW j \in BackupSlot, NEW b, jobs' = [jobs EXCEPT ![j] = b]
    PROVE  /\ jobs' = [i \in BackupSlot |-> jobs'[i]]
           /\ jobs'[j] = b /\ \A i \in BackupSlot \ {j} : jobs'[i] = jobs[i]
BY DEF JobsTyped

\* A free slot is in no phase of a request.
LEMMA IdlePhase ==
    /\ NoJob.phase = "idle" /\ "idle" \notin JobPhase
    /\ \A b \in JobSet : b # NoJob /\ b.phase \in JobPhase
BY DEF NoJob, JobPhase, ResetPhase, JobSet

\* A step that keeps the connections, outside a reset.
LEMMA SessionStays ==
    ASSUME StoreTyped, SessionsInv, NEW j \in BackupSlot, NEW b \in JobSet,
           jobs' = [jobs EXCEPT ![j] = b], jobs[j] # NoJob,
           b.gen = jobs[j].gen, b.pooled = jobs[j].pooled,
           jobs[j].phase \notin ResetPhase, b.phase \notin ResetPhase,
           UNCHANGED <<pool, resetLock, stragglers>>,
           restored' \/ (UNCHANGED <<restored, current>>)
    PROVE  SessionsInv'
<1>1. /\ jobs'[j] = b /\ \A i \in BackupSlot \ {j} : jobs'[i] = jobs[i]
  BY OnePlace DEF StoreTyped
<1>2. InFlight' = InFlight
  BY <1>1, IdlePhase DEF InFlight
<1>3. DoorHeld'
  BY <1>1 DEF DoorHeld, SessionsInv
<1>4. ResetAlone'
  BY <1>1, <1>2, <1>3 DEF ResetAlone, SessionsInv, DoorHeld
<1>5. SessionsShareDatabase'
  BY <1>1, <1>2, IdlePhase DEF SessionsShareDatabase, SessionsInv, InFlight
<1> QED
  BY <1>3, <1>4, <1>5 DEF SessionsInv

\* A session gives its connection back.
LEMMA SessionLeaves ==
    ASSUME StoreTyped, SessionsInv, NEW j \in BackupSlot, NEW b,
           b = NoJob \/ (b \in JobSet /\ ~b.pooled),
           jobs' = [jobs EXCEPT ![j] = b], jobs[j] # NoJob, pool' = PoolAfter(j),
           jobs[j].phase \notin ResetPhase, b.phase \notin ResetPhase,
           UNCHANGED <<resetLock, stragglers, restored, current>>
    PROVE  SessionsInv'
<1>1. /\ jobs'[j] = b /\ \A i \in BackupSlot \ {j} : jobs'[i] = jobs[i]
  BY OnePlace DEF StoreTyped
<1>2. j \in InFlight /\ InFlight' \subseteq InFlight
  BY <1>1, IdlePhase DEF InFlight
<1>3. DoorHeld'
  BY <1>1 DEF DoorHeld, SessionsInv
<1>4. ResetAlone'
  BY <1>1, <1>2, <1>3 DEF ResetAlone, SessionsInv, DoorHeld
<1>5. SessionsShareDatabase'
  <2>1. jobs[j] \in JobSet
    BY DEF StoreTyped, JobsTyped, SlotTyped
  <2>2. Range(pool') \subseteq Range(pool) \cup (IF jobs[j].pooled THEN {jobs[j].gen} ELSE {})
    BY <2>1, ReturnMembers DEF StoreTyped
  <2>3. \A i \in BackupSlot : i \in InFlight' /\ jobs'[i].pooled => i \in InFlight /\ jobs[i].pooled
                                                                    /\ jobs'[i].gen = jobs[i].gen
    BY <1>1, <1>2, IdlePhase DEF InFlight
  <2>4. InFlight' \subseteq BackupSlot
    BY DEF InFlight
  <2> QED
    BY <1>2, <2>2, <2>3, <2>4 DEF SessionsShareDatabase, SessionsInv
<1> QED
  BY <1>3, <1>4, <1>5 DEF SessionsInv

\* A session takes a connection, behind the open door or in flight already.
LEMMA SessionTakes ==
    ASSUME StoreTyped, SessionsInv, NEW j \in BackupSlot, NEW b \in JobSet,
           jobs' = [jobs EXCEPT ![j] = b], resetLock = "none" \/ jobs[j] # NoJob,
           pool' = PoolAfterCheckout, b.gen = Checkout,
           jobs[j].phase \notin ResetPhase, b.phase \notin ResetPhase,
           UNCHANGED <<resetLock, stragglers, restored, current>>
    PROVE  SessionsInv'
<1>1. /\ jobs'[j] = b /\ \A i \in BackupSlot \ {j} : jobs'[i] = jobs[i]
  BY OnePlace DEF StoreTyped
<1>2. InFlight' = InFlight \cup {j}
  BY <1>1, IdlePhase DEF InFlight
<1>3. DoorHeld'
  BY <1>1 DEF DoorHeld, SessionsInv
<1>4. ResetAlone'
  <2>1. SUFFICES ASSUME NEW i \in BackupSlot, resetLock' = i, ~stragglers',
                        jobs'[i].phase \in {"recreate", "answer"}
                 PROVE  InFlight' = {i} /\ pool' = <<>> /\ ~jobs'[i].pooled
    BY DEF ResetAlone
  <2>2. i # j
    BY <1>1, <2>1 DEF ResetPhase
  <2>3. InFlight = {i}
    BY <1>1, <2>1, <2>2 DEF SessionsInv, ResetAlone
  <2>4. jobs[j] = NoJob
    BY <2>2, <2>3 DEF InFlight
  <2>5. resetLock # "none"
    BY <2>1, BackupsAssumption
  <2> QED
    BY <2>4, <2>5
<1>5. SessionsShareDatabase'
  <2>1. Checkout \in Range(pool) \cup {current} /\ Range(PoolAfterCheckout) \subseteq Range(pool)
    BY CheckoutMembers DEF StoreTyped
  <2>2. InFlight' \subseteq BackupSlot
    BY DEF InFlight
  <2>3. \A i \in InFlight' : i = j \/ (i \in InFlight /\ jobs'[i] = jobs[i])
    BY <1>1, <1>2, <2>2
  <2> QED
    BY <1>1, <2>1, <2>3 DEF SessionsShareDatabase, SessionsInv
<1> QED
  BY <1>3, <1>4, <1>5 DEF SessionsInv

---------------------------------------------------------------------------
(* The steps *)

\* The types of the pool and of the slots, once the change of a slot is typed.
LEMMA JobsStep ==
    ASSUME JobsTyped, NEW j \in BackupSlot, NEW b, jobs' = [jobs EXCEPT ![j] = b],
           SlotTyped(b, DOMAIN databases'), DOMAIN databases \subseteq DOMAIN databases'
    PROVE  JobsTyped'
<1>1. /\ jobs' = [i \in BackupSlot |-> jobs'[i]]
      /\ jobs'[j] = b /\ \A i \in BackupSlot \ {j} : jobs'[i] = jobs[i]
  BY OnePlace
<1>2. \A i \in BackupSlot : SlotTyped(jobs'[i], DOMAIN databases')
  BY <1>1 DEF JobsTyped, SlotTyped
<1> QED
  BY <1>1, <1>2 DEF JobsTyped

LEMMA PoolReturned ==
    ASSUME StoreTyped, NEW j \in BackupSlot, jobs[j] # NoJob, pool' = PoolAfter(j),
           DOMAIN databases' = DOMAIN databases
    PROVE  PoolTyped'
<1>1. jobs[j] \in JobSet /\ jobs[j].gen \in DOMAIN databases
  BY DEF StoreTyped, JobsTyped, SlotTyped
<1> QED
  BY <1>1, ReturnMembers DEF StoreTyped, PoolTyped

LEMMA PoolTaken ==
    ASSUME StoreTyped, pool' = PoolAfterCheckout, DOMAIN databases' = DOMAIN databases
    PROVE  PoolTyped'
BY CheckoutMembers DEF StoreTyped, PoolTyped

\* A job in flight is a whole record, of a connection to a file that there was.
LEMMA InFlightTyped ==
    ASSUME StoreTyped, NEW j \in BackupSlot, jobs[j].phase \in JobPhase
    PROVE  jobs[j] # NoJob /\ jobs[j] \in JobSet /\ jobs[j].gen \in DOMAIN databases
BY IdlePhase DEF StoreTyped, JobsTyped, SlotTyped

LEMMA RowsTyped ==
    ASSUME StoreTyped, NEW g \in DOMAIN databases
    PROVE  databases[g] \in SUBSET RowSet
BY DEF StoreTyped, FilesTyped

LEMMA BeginStep ==
    ASSUME BackupsInv, NEW j \in BackupSlot, BeginBackup(j) PROVE BackupsInv'
<1> DEFINE named == [file : Present \cup {Daily} \cup UploadName, at : {0}, restore : {FALSE}]
           job(kind, r) ==
               [phase |-> FirstPhase(kind), kind |-> kind, record |-> r,
                gen |-> Checkout, pooled |-> TRUE,
                seen |-> IF kind \in {"remove", "refile"} THEN FilesOf(databases[Checkout]) ELSE {},
                add |-> {}, drop |-> {}]
<1>1. PICK kind \in BackupKinds, r \in databases[Checkout] \cup named :
          /\ jobs[j] = NoJob /\ resetLock = "none"
          /\ pool' = PoolAfterCheckout /\ jobs' = [jobs EXCEPT ![j] = job(kind, r)]
  BY DEF BeginBackup
<1>2. UNCHANGED <<storeVars, doorVars>>
  BY DEF BeginBackup, doorVars
<1>3. StoreTyped /\ SessionsInv
  BY DEF BackupsInv
<1>4. Checkout \in DOMAIN databases /\ Checkout \in Nat
  BY <1>3, CheckoutMembers DEF StoreTyped
<1>5. databases[Checkout] \in SUBSET RowSet
  BY <1>3, <1>4, RowsTyped
<1>6. named \subseteq RowSet
  <2>1. Present \cup {Daily} \cup UploadName \subseteq Nat
    BY <1>3, BackupsAssumption DEF Daily, StoreTyped, ArchivesTyped
  <2>2. \A F, A, R : F \subseteq Nat /\ A \subseteq Nat /\ R \subseteq BOOLEAN =>
            [file : F, at : A, restore : R] \subseteq RowSet
    BY DEF RowSet
  <2>3. {0} \subseteq Nat /\ {FALSE} \subseteq BOOLEAN
    OBVIOUS
  <2> QED
    BY <2>1, <2>2, <2>3
<1>7. FilesOf(databases[Checkout]) \subseteq Nat
  BY <1>5 DEF FilesOf, RowSet
<1>8. FirstPhase(kind) \in JobPhase \ ResetPhase
  BY DEF FirstPhase, JobPhase, ResetPhase, BackupKinds
<1>9. r \in RowSet
  BY <1>5, <1>6
<1>10. job(kind, r) \in JobSet
  BY <1>4, <1>7, <1>8, <1>9 DEF JobSet
<1>11. job(kind, r).gen = Checkout /\ job(kind, r).phase = FirstPhase(kind)
  OBVIOUS
<1> HIDE DEF job
<1>12. StoreTyped'
  <2>1. UNCHANGED <<archives, databases, current, torn, stamp, resetLock, restored, stragglers>>
    BY <1>2 DEF storeVars, doorVars
  <2>2. JobsTyped'
    BY <1>1, <1>3, <1>4, <1>10, <1>11, <2>1, JobsStep DEF SlotTyped, StoreTyped
  <2>3. PoolTyped'
    BY <1>1, <1>3, <2>1, PoolTaken
  <2> QED
    BY <1>3, <2>1, <2>2, <2>3 DEF StoreTyped, FilesTyped, ArchivesTyped, FlagsTyped, Present
<1>13. SessionsInv'
  <2>1. UNCHANGED <<resetLock, stragglers, restored, current>>
    BY <1>2 DEF storeVars, doorVars
  <2>2. jobs[j].phase \notin ResetPhase
    BY <1>1, IdlePhase DEF JobPhase
  <2>3. job(kind, r).phase \notin ResetPhase
    BY <1>8, <1>11
  <2> QED
    BY <1>1, <1>3, <1>10, <1>11, <2>1, <2>2, <2>3, SessionTakes
<1> QED
  BY <1>12, <1>13 DEF BackupsInv

\* A step of a session that writes rows into its own slot, and no archive.
LEMMA OwnStep ==
    ASSUME BackupsInv, NEW j \in BackupSlot, NEW b \in JobSet, jobs' = [jobs EXCEPT ![j] = b],
           jobs[j].phase \in JobPhase \ ResetPhase, b.phase \notin ResetPhase,
           b.gen = jobs[j].gen, b.pooled = jobs[j].pooled,
           UNCHANGED <<databases, current, stamp, pool, resetLock, restored, stragglers>>,
           torn' \in BOOLEAN, ArchivesTyped'
    PROVE  BackupsInv'
<1>1. StoreTyped /\ SessionsInv
  BY DEF BackupsInv
<1>2. jobs[j] # NoJob /\ jobs[j] \in JobSet /\ jobs[j].gen \in DOMAIN databases
  BY <1>1, InFlightTyped
<1>3. JobsTyped'
  BY <1>1, <1>2, JobsStep DEF SlotTyped, StoreTyped
<1>4. StoreTyped'
  BY <1>1, <1>3 DEF StoreTyped, FilesTyped, PoolTyped, FlagsTyped
<1>5. SessionsInv'
  BY <1>1, <1>2, SessionStays
<1> QED
  BY <1>4, <1>5 DEF BackupsInv

LEMMA WriteStep ==
    ASSUME BackupsInv, NEW j \in BackupSlot, WriteArchive(j) PROVE BackupsInv'
<1> DEFINE name == IF jobs[j].kind = "daily" THEN Daily ELSE stamp
           entry == [at |-> stamp, holds |-> databases[current]]
           row == [file |-> name, at |-> stamp, restore |-> FALSE]
           next == IF jobs[j].phase = "write" THEN "flush" ELSE "dispose"
           b == [jobs[j] EXCEPT !.phase = next, !.record = row]
<1>1. StoreTyped /\ SessionsInv /\ jobs[j].phase \in {"write", "capture"}
  BY DEF BackupsInv, WriteArchive
<1>2. jobs[j] # NoJob /\ jobs[j] \in JobSet /\ jobs[j].gen \in DOMAIN databases
  BY <1>1, InFlightTyped DEF JobPhase, ResetPhase
<1>3. /\ archives' = [f \in Present \cup {name} |-> IF f = name THEN entry ELSE archives[f]]
      /\ stamp' = stamp + 1
      /\ UNCHANGED <<databases, current, torn, pool, resetLock, restored, stragglers>>
  BY DEF WriteArchive, poolVars, doorVars
<1>4. jobs' = [jobs EXCEPT ![j] = b]
  BY <1>1 DEF WriteArchive, StoreTyped, JobsTyped
<1>5. name \in Nat /\ entry \in [at : Nat, holds : SUBSET RowSet] /\ entry.at = stamp /\ stamp \in Nat
  BY <1>1, RowsTyped DEF Daily, StoreTyped, ArchivesTyped, FilesTyped
<1>6. row \in RowSet
  BY <1>5 DEF RowSet
<1>7. b \in JobSet /\ b.gen = jobs[j].gen /\ b.pooled = jobs[j].pooled /\ b.phase = next
  BY <1>2, <1>6 DEF JobSet, JobPhase, ResetPhase
<1>8. ArchivesTyped'
  <2> HIDE DEF name, entry
  <2>1. Present' = Present \cup {name}
    BY <1>3 DEF Present
  <2>2. \A f \in Present' : archives'[f] \in [at : Nat, holds : SUBSET RowSet] /\ archives'[f].at < stamp'
    BY <1>1, <1>3, <1>5, <2>1 DEF StoreTyped, ArchivesTyped
  <2>3. archives' = [f \in Present' |-> archives'[f]]
    BY <1>3, <2>1
  <2> QED
    BY <1>1, <1>3, <1>5, <2>1, <2>2, <2>3 DEF StoreTyped, ArchivesTyped
<1> HIDE DEF b, row
<1>9. JobsTyped'
  BY <1>1, <1>2, <1>3, <1>4, <1>7, JobsStep DEF SlotTyped, StoreTyped
<1>10. StoreTyped'
  BY <1>1, <1>3, <1>8, <1>9 DEF StoreTyped, FilesTyped, PoolTyped, FlagsTyped
<1>11. CASE jobs[j].phase = "write"
  <2>1. jobs[j].phase \notin ResetPhase /\ b.phase \notin ResetPhase
    BY <1>7, <1>11 DEF ResetPhase
  <2>2. SessionsInv'
    BY <1>1, <1>2, <1>3, <1>4, <1>7, <2>1, SessionStays
  <2> QED
    BY <1>10, <2>2 DEF BackupsInv
<1>12. CASE jobs[j].phase = "capture"
  <2>1. jobs[j].phase \in ResetPhase /\ b.phase = "dispose" /\ b.phase \in ResetPhase
    BY <1>7, <1>12 DEF ResetPhase
  <2>2. jobs'[j] = b /\ \A i \in BackupSlot \ {j} : jobs'[i] = jobs[i]
    BY <1>1, <1>4, OnePlace DEF StoreTyped
  <2>3. resetLock = j /\ resetLock' = j
    BY <1>1, <1>3, <2>1 DEF SessionsInv, DoorHeld
  <2>4. DoorHeld'
    BY <1>1, <1>3, <2>1, <2>2 DEF SessionsInv, DoorHeld
  <2>5. ResetAlone'
    BY <2>1, <2>2, <2>3 DEF ResetAlone
  <2>6. SessionsShareDatabase'
    BY <2>3, BackupsAssumption DEF SessionsShareDatabase
  <2> QED
    BY <1>10, <2>4, <2>5, <2>6 DEF BackupsInv, SessionsInv
<1> QED
  BY <1>1, <1>11, <1>12

LEMMA RecordStep ==
    ASSUME BackupsInv, NEW j \in BackupSlot, RecordBackup(j) PROVE BackupsInv'
<1> DEFINE next == CASE jobs[j].kind \in {"create", "daily"} -> "prune"
                     [] jobs[j].kind = "export" -> "close"
                     [] OTHER -> "commit"
           more == jobs[j].add \cup {jobs[j].record}
           b == [jobs[j] EXCEPT !.add = more, !.phase = next]
<1>1. StoreTyped /\ jobs[j].phase = "flush"
  BY DEF BackupsInv, RecordBackup
<1>2. jobs[j] \in JobSet /\ jobs[j].phase \in JobPhase \ ResetPhase
  BY <1>1, InFlightTyped DEF JobPhase, ResetPhase
<1>3. UNCHANGED <<archives, databases, current, stamp, pool, resetLock, restored, stragglers>>
  BY DEF RecordBackup, poolVars, doorVars
<1>4. jobs' = [jobs EXCEPT ![j] = b]
  BY <1>1 DEF RecordBackup, StoreTyped, JobsTyped
<1>5. next \in JobPhase \ ResetPhase
  BY DEF JobPhase, ResetPhase
<1>6. more \in SUBSET RowSet
  BY <1>2 DEF JobSet
<1>7. b \in JobSet /\ b.gen = jobs[j].gen /\ b.pooled = jobs[j].pooled /\ b.phase = next
  <2> HIDE DEF next, more
  <2> QED
    BY <1>2, <1>5, <1>6 DEF JobSet
<1>8. torn' \in BOOLEAN
  BY <1>1, Zenon DEF RecordBackup, StoreTyped, FlagsTyped
<1>9. ArchivesTyped'
  BY <1>1, <1>3 DEF StoreTyped, ArchivesTyped, Present
<1> HIDE DEF b, next
<1> QED
  BY <1>2, <1>3, <1>4, <1>5, <1>7, <1>8, <1>9, OwnStep

\* The files that are left have their entries.
LEMMA FewerArchives ==
    ASSUME ArchivesTyped, NEW gone, archives' = Without(gone), UNCHANGED stamp
    PROVE  ArchivesTyped'
<1>1. Present' = Present \ gone /\ \A f \in Present' : archives'[f] = archives[f]
  BY DEF Without, Present
<1>2. archives' = [f \in Present' |-> archives'[f]]
  BY <1>1 DEF Without
<1> QED
  BY <1>1, <1>2 DEF ArchivesTyped

LEMMA PruneStep ==
    ASSUME BackupsInv, NEW j \in BackupSlot, PruneArchives(j) PROVE BackupsInv'
<1> DEFINE drop == Surplus(Visible(j))
           next == CyclePhase(jobs[j].kind, drop)
           b == [jobs[j] EXCEPT !.drop = drop, !.phase = next]
<1>1. StoreTyped /\ jobs[j].phase = "prune"
  BY DEF BackupsInv, PruneArchives
<1>2. /\ jobs[j] \in JobSet /\ jobs[j].gen \in DOMAIN databases
      /\ jobs[j].phase \in JobPhase \ ResetPhase
  BY <1>1, InFlightTyped DEF JobPhase, ResetPhase
<1>3. /\ UNCHANGED <<databases, current, stamp, pool, resetLock, restored, stragglers>>
      /\ archives' = Without(FilesOf(drop))
  BY DEF PruneArchives, poolVars, doorVars
<1>4. jobs' = [jobs EXCEPT ![j] = b]
  BY <1>1 DEF PruneArchives, StoreTyped, JobsTyped
<1>5. next \in JobPhase \ ResetPhase
  BY DEF JobPhase, ResetPhase, CyclePhase
<1>6. drop \in SUBSET RowSet
  <2>1. Visible(j) \in SUBSET RowSet
    BY <1>1, <1>2, RowsTyped DEF Visible, JobSet
  <2> QED
    BY <2>1 DEF Surplus, WithFile
<1>7. b \in JobSet /\ b.gen = jobs[j].gen /\ b.pooled = jobs[j].pooled /\ b.phase = next
  <2> HIDE DEF next, drop
  <2> QED
    BY <1>2, <1>5, <1>6 DEF JobSet
<1>8. torn' \in BOOLEAN
  BY <1>1, Zenon DEF PruneArchives, StoreTyped, FlagsTyped
<1>9. ArchivesTyped'
  BY <1>1, <1>3, FewerArchives DEF StoreTyped
<1> HIDE DEF b, next, drop
<1> QED
  BY <1>2, <1>3, <1>4, <1>5, <1>7, <1>8, <1>9, OwnStep

LEMMA SyncStep ==
    ASSUME BackupsInv, NEW j \in BackupSlot, SyncRecords(j) PROVE BackupsInv'
<1> DEFINE add == {[file |-> f, at |-> archives[f].at, restore |-> FALSE] : f \in Present \ jobs[j].seen}
           b == [jobs[j] EXCEPT !.phase = "act", !.add = add]
<1>1. StoreTyped /\ jobs[j].phase = "sync"
  BY DEF BackupsInv, SyncRecords
<1>2. jobs[j] \in JobSet /\ jobs[j].phase \in JobPhase \ ResetPhase
  BY <1>1, InFlightTyped DEF JobPhase, ResetPhase
<1>3. UNCHANGED <<archives, databases, current, stamp, torn, pool, resetLock, restored, stragglers>>
  BY DEF SyncRecords, storeVars, poolVars, doorVars
<1>4. jobs' = [jobs EXCEPT ![j] = b]
  BY <1>1 DEF SyncRecords, StoreTyped, JobsTyped
<1>5. add \in SUBSET RowSet
  <2>1. \A f \in Present : f \in Nat /\ archives[f].at \in Nat
    BY <1>1 DEF StoreTyped, ArchivesTyped
  <2>2. \A f, t \in Nat : [file |-> f, at |-> t, restore |-> FALSE] \in RowSet
    BY DEF RowSet
  <2> QED
    BY <2>1, <2>2
<1>6. b \in JobSet /\ b.gen = jobs[j].gen /\ b.pooled = jobs[j].pooled /\ b.phase = "act"
  <2> HIDE DEF add
  <2> QED
    BY <1>2, <1>5 DEF JobSet, JobPhase
<1>7. torn' \in BOOLEAN
  BY <1>1, <1>3 DEF StoreTyped, FlagsTyped
<1>8. ArchivesTyped'
  BY <1>1, <1>3 DEF StoreTyped, ArchivesTyped, Present
<1>9. b.phase \notin ResetPhase
  BY <1>6 DEF ResetPhase
<1> HIDE DEF b
<1> QED
  BY <1>2, <1>3, <1>4, <1>6, <1>7, <1>8, <1>9, OwnStep

LEMMA DeleteStep ==
    ASSUME BackupsInv, NEW j \in BackupSlot, DeleteArchive(j) PROVE BackupsInv'
<1> DEFINE drop == IF jobs[j].kind = "delete" THEN {jobs[j].record}
                   ELSE {r \in Visible(j) : r.file = jobs[j].record.file}
           b == [jobs[j] EXCEPT !.phase = "commit", !.drop = drop]
<1>1. StoreTyped /\ jobs[j].phase = "act"
  BY DEF BackupsInv, DeleteArchive
<1>2. /\ jobs[j] \in JobSet /\ jobs[j].gen \in DOMAIN databases
      /\ jobs[j].phase \in JobPhase \ ResetPhase
  BY <1>1, InFlightTyped DEF JobPhase, ResetPhase
<1>3. /\ UNCHANGED <<databases, current, stamp, pool, resetLock, restored, stragglers>>
      /\ archives' = Without({jobs[j].record.file})
  BY DEF DeleteArchive, poolVars, doorVars
<1>4. jobs' = [jobs EXCEPT ![j] = b]
  BY <1>1 DEF DeleteArchive, StoreTyped, JobsTyped
<1>5. drop \in SUBSET RowSet
  <2>1. Visible(j) \in SUBSET RowSet
    BY <1>1, <1>2, RowsTyped DEF Visible, JobSet
  <2> QED
    BY <1>2, <2>1 DEF JobSet
<1>6. b \in JobSet /\ b.gen = jobs[j].gen /\ b.pooled = jobs[j].pooled /\ b.phase = "commit"
  <2> HIDE DEF drop
  <2> QED
    BY <1>2, <1>5 DEF JobSet, JobPhase
<1>7. torn' \in BOOLEAN
  BY <1>1, <1>2, Zenon DEF DeleteArchive, StoreTyped, FlagsTyped
<1>8. ArchivesTyped'
  BY <1>1, <1>3, FewerArchives DEF StoreTyped
<1>9. b.phase \notin ResetPhase
  BY <1>6 DEF ResetPhase
<1> HIDE DEF b
<1> QED
  BY <1>2, <1>3, <1>4, <1>6, <1>7, <1>8, <1>9, OwnStep

\* A new file at db_path takes the next place.
LEMMA NewFile ==
    ASSUME FilesTyped, NEW holds \in SUBSET RowSet, databases' = Append(databases, holds),
           current' = Len(databases) + 1
    PROVE  FilesTyped' /\ DOMAIN databases \subseteq DOMAIN databases'
BY DEF FilesTyped

LEMMA RestoreStep ==
    ASSUME BackupsInv, NEW j \in BackupSlot, RestoreArchive(j) PROVE BackupsInv'
<1> DEFINE holds == IF jobs[j].kind = "upload" THEN {} ELSE archives[jobs[j].record.file].holds
           row == [file |-> jobs[j].record.file, at |-> stamp, restore |-> TRUE]
           b == [jobs[j] EXCEPT !.phase = "flush", !.record = row]
<1>1. StoreTyped /\ SessionsInv /\ jobs[j].phase = "act"
      /\ (jobs[j].kind = "upload" \/ jobs[j].record.file \in Present)
  BY DEF BackupsInv, RestoreArchive
<1>2. /\ jobs[j] # NoJob /\ jobs[j] \in JobSet /\ jobs[j].gen \in DOMAIN databases
      /\ jobs[j].phase \in JobPhase \ ResetPhase
  BY <1>1, InFlightTyped DEF JobPhase, ResetPhase
<1>3. /\ UNCHANGED <<archives, pool, resetLock, stragglers>> /\ restored' = TRUE
      /\ databases' = Append(databases, holds) /\ current' = Len(databases) + 1
      /\ stamp' = stamp + 1
  BY DEF RestoreArchive
<1>4. jobs' = [jobs EXCEPT ![j] = b]
  BY <1>1 DEF RestoreArchive, StoreTyped, JobsTyped
<1>5. holds \in SUBSET RowSet
  BY <1>1 DEF StoreTyped, ArchivesTyped
<1>6. FilesTyped' /\ DOMAIN databases \subseteq DOMAIN databases'
  <2> HIDE DEF holds
  <2> QED
    BY <1>1, <1>3, <1>5, NewFile DEF StoreTyped
<1>7. row \in RowSet
  BY <1>1, <1>2 DEF RowSet, JobSet, StoreTyped, ArchivesTyped
<1>8. b \in JobSet /\ b.gen = jobs[j].gen /\ b.pooled = jobs[j].pooled /\ b.phase = "flush"
  <2> HIDE DEF row
  <2> QED
    BY <1>2, <1>7 DEF JobSet, JobPhase
<1> HIDE DEF b, holds
<1>9. StoreTyped'
  <2>1. JobsTyped'
    BY <1>1, <1>2, <1>4, <1>6, <1>8, JobsStep DEF SlotTyped, StoreTyped
  <2>2. PoolTyped'
    BY <1>1, <1>3, <1>6 DEF StoreTyped, PoolTyped
  <2>3. ArchivesTyped'
    <3>1. Present' = Present /\ stamp \in Nat
      BY <1>1, <1>3 DEF StoreTyped, ArchivesTyped, Present
    <3> QED
      BY <1>1, <1>3, <3>1 DEF StoreTyped, ArchivesTyped
  <2>4. FlagsTyped'
    <3>1. torn' \in BOOLEAN
      BY <1>1, Zenon DEF RestoreArchive, StoreTyped, FlagsTyped
    <3> QED
      BY <1>1, <1>3, <3>1 DEF StoreTyped, FlagsTyped
  <2> QED
    BY <1>6, <2>1, <2>2, <2>3, <2>4 DEF StoreTyped
<1>10. SessionsInv'
  <2>1. jobs[j].phase \notin ResetPhase /\ b.phase \notin ResetPhase
    BY <1>2, <1>8 DEF ResetPhase
  <2> QED
    BY <1>1, <1>2, <1>3, <1>4, <1>8, <2>1, SessionStays
<1> QED
  BY <1>9, <1>10 DEF BackupsInv

\* A session that ends, or commits and lets go of its connection for a while.
LEMMA LeaveStep ==
    ASSUME BackupsInv, NEW j \in BackupSlot, NEW b,
           b = NoJob \/ (b \in JobSet /\ ~b.pooled /\ b.gen = jobs[j].gen),
           jobs' = [jobs EXCEPT ![j] = b], pool' = PoolAfter(j),
           jobs[j].phase \in JobPhase \ ResetPhase, b.phase \notin ResetPhase,
           UNCHANGED <<archives, current, stamp, resetLock, restored, stragglers>>,
           databases' \in Seq(SUBSET RowSet), DOMAIN databases' = DOMAIN databases,
           torn' \in BOOLEAN
    PROVE  BackupsInv'
<1>1. StoreTyped /\ SessionsInv
  BY DEF BackupsInv
<1>2. jobs[j] # NoJob /\ jobs[j] \in JobSet /\ jobs[j].gen \in DOMAIN databases
  BY <1>1, InFlightTyped
<1>3. JobsTyped'
  BY <1>1, <1>2, JobsStep DEF SlotTyped, StoreTyped
<1>4. PoolTyped'
  BY <1>1, <1>2, PoolReturned
<1>5. ArchivesTyped'
  BY <1>1 DEF StoreTyped, ArchivesTyped, Present
<1>6. FilesTyped' /\ FlagsTyped'
  BY <1>1 DEF StoreTyped, FilesTyped, FlagsTyped
<1>7. SessionsInv'
  BY <1>1, <1>2, SessionLeaves
<1> QED
  BY <1>3, <1>4, <1>5, <1>6, <1>7 DEF BackupsInv, StoreTyped

LEMMA CommitStep ==
    ASSUME BackupsInv, NEW j \in BackupSlot, CommitBackup(j) PROVE BackupsInv'
<1> DEFINE rows == (databases[jobs[j].gen] \cup jobs[j].add) \ jobs[j].drop
           b == [jobs[j] EXCEPT !.phase = "again", !.pooled = FALSE]
<1>1. StoreTyped /\ jobs[j].phase = "commit"
  BY DEF BackupsInv, CommitBackup
<1>2. /\ jobs[j] \in JobSet /\ jobs[j].gen \in DOMAIN databases
      /\ jobs[j].phase \in JobPhase \ ResetPhase
  BY <1>1, InFlightTyped DEF JobPhase, ResetPhase
<1>3. /\ UNCHANGED <<archives, current, stamp, resetLock, restored, stragglers>>
      /\ databases' = [databases EXCEPT ![jobs[j].gen] = rows]
      /\ pool' = PoolAfter(j)
  BY DEF CommitBackup, doorVars, Ends
<1>4. jobs' = [jobs EXCEPT ![j] = b] \/ jobs' = [jobs EXCEPT ![j] = NoJob]
  BY <1>1 DEF CommitBackup, StoreTyped, JobsTyped, Ends
<1>5. databases' \in Seq(SUBSET RowSet) /\ DOMAIN databases' = DOMAIN databases
  <2>1. rows \in SUBSET RowSet
    BY <1>1, <1>2, RowsTyped DEF JobSet
  <2> HIDE DEF rows
  <2> QED
    BY <1>1, <1>2, <1>3, <2>1 DEF StoreTyped, FilesTyped
<1>6. torn' \in BOOLEAN
  BY <1>1, Zenon DEF CommitBackup, StoreTyped, FlagsTyped
<1>7. b \in JobSet /\ ~b.pooled /\ b.gen = jobs[j].gen /\ b.phase \notin ResetPhase
  BY <1>2 DEF JobSet, JobPhase, ResetPhase
<1>8. NoJob.phase \notin ResetPhase
  BY DEF NoJob, ResetPhase
<1> HIDE DEF b
<1>9. CASE jobs' = [jobs EXCEPT ![j] = b]
  BY <1>2, <1>3, <1>5, <1>6, <1>7, <1>9, LeaveStep
<1>10. CASE jobs' = [jobs EXCEPT ![j] = NoJob]
  BY <1>2, <1>3, <1>5, <1>6, <1>8, <1>10, LeaveStep
<1> QED
  BY <1>4, <1>9, <1>10

LEMMA EndStep ==
    ASSUME BackupsInv, NEW j \in BackupSlot, CloseSession(j) \/ Rollback(j) PROVE BackupsInv'
<1>1. StoreTyped /\ jobs[j].phase \in {"close", "act", "flush", "commit", "sync"}
  BY DEF BackupsInv, CloseSession, Rollback
<1>2. jobs[j].phase \in JobPhase \ ResetPhase /\ NoJob.phase \notin ResetPhase
  BY <1>1 DEF JobPhase, ResetPhase, NoJob
<1>3. /\ UNCHANGED <<archives, databases, current, stamp, resetLock, restored, stragglers>>
      /\ jobs' = [jobs EXCEPT ![j] = NoJob] /\ pool' = PoolAfter(j)
  BY DEF CloseSession, Rollback, Ends, storeVars, doorVars
<1>4. torn' \in BOOLEAN
  BY <1>1, Zenon DEF CloseSession, Rollback, storeVars, StoreTyped, FlagsTyped
<1>5. databases' \in Seq(SUBSET RowSet)
  BY <1>1, <1>3 DEF StoreTyped, FilesTyped
<1> QED
  BY <1>2, <1>3, <1>4, <1>5, LeaveStep

LEMMA AgainStep ==
    ASSUME BackupsInv, NEW j \in BackupSlot, TakeAgain(j) PROVE BackupsInv'
<1> DEFINE b == [jobs[j] EXCEPT !.phase = "close", !.pooled = TRUE, !.gen = Checkout]
<1>1. StoreTyped /\ SessionsInv /\ jobs[j].phase = "again"
  BY DEF BackupsInv, TakeAgain
<1>2. /\ jobs[j] # NoJob /\ jobs[j] \in JobSet /\ jobs[j].phase \in JobPhase \ ResetPhase
  BY <1>1, InFlightTyped DEF JobPhase, ResetPhase
<1>3. /\ UNCHANGED <<archives, databases, current, stamp, torn, resetLock, restored, stragglers>>
      /\ pool' = PoolAfterCheckout
  BY DEF TakeAgain, storeVars
<1>4. jobs' = [jobs EXCEPT ![j] = b]
  BY <1>1 DEF TakeAgain, StoreTyped, JobsTyped
<1>5. Checkout \in DOMAIN databases /\ Checkout \in Nat
  BY <1>1, CheckoutMembers DEF StoreTyped
<1>6. b \in JobSet /\ b.gen = Checkout /\ b.phase = "close"
  BY <1>2, <1>5 DEF JobSet, JobPhase
<1>7. b.phase \notin ResetPhase
  BY <1>6 DEF ResetPhase
<1> HIDE DEF b
<1>8. StoreTyped'
  <2>1. JobsTyped'
    BY <1>1, <1>3, <1>4, <1>5, <1>6, JobsStep DEF SlotTyped, StoreTyped
  <2>2. PoolTyped'
    BY <1>1, <1>3, PoolTaken
  <2> QED
    BY <1>1, <1>3, <2>1, <2>2 DEF StoreTyped, FilesTyped, ArchivesTyped, FlagsTyped, Present
<1>9. SessionsInv'
  BY <1>1, <1>2, <1>3, <1>4, <1>6, <1>7, SessionTakes
<1> QED
  BY <1>8, <1>9 DEF BackupsInv

---------------------------------------------------------------------------
(* The factory reset *)

LEMMA CloseDoorStep ==
    ASSUME BackupsInv, NEW j \in BackupSlot, CloseDoor(j) PROVE BackupsInv'
<1> DEFINE b == [jobs[j] EXCEPT !.phase = "capture"]
<1>1. StoreTyped /\ SessionsInv /\ jobs[j].phase = "lock" /\ resetLock = "none" /\ resetLock' = j
  BY DEF BackupsInv, CloseDoor
<1>2. jobs[j] \in JobSet /\ jobs[j].gen \in DOMAIN databases
  BY <1>1, InFlightTyped DEF JobPhase
<1>3. UNCHANGED <<archives, databases, current, stamp, torn, pool, restored, stragglers>>
  BY DEF CloseDoor, storeVars
<1>4. jobs' = [jobs EXCEPT ![j] = b]
  BY <1>1 DEF CloseDoor, Goes, StoreTyped, JobsTyped
<1>5. b \in JobSet /\ b.gen = jobs[j].gen /\ b.phase = "capture"
  BY <1>2 DEF JobSet, JobPhase, ResetPhase
<1> HIDE DEF b
<1>6. jobs'[j] = b /\ \A i \in BackupSlot \ {j} : jobs'[i] = jobs[i]
  BY <1>1, <1>4, OnePlace DEF StoreTyped
<1>7. StoreTyped'
  <2>1. JobsTyped'
    BY <1>1, <1>2, <1>3, <1>4, <1>5, JobsStep DEF SlotTyped, StoreTyped
  <2> QED
    BY <1>1, <1>3, <2>1 DEF StoreTyped, FilesTyped, PoolTyped, ArchivesTyped, FlagsTyped, Present
<1>8. DoorHeld'
  <2>1. \A i \in BackupSlot : jobs[i].phase \notin ResetPhase
    BY <1>1, BackupsAssumption DEF SessionsInv, DoorHeld
  <2> QED
    BY <1>1, <1>5, <1>6, <2>1 DEF DoorHeld, ResetPhase
<1>9. ResetAlone'
  BY <1>1, <1>5, <1>6 DEF ResetAlone
<1>10. SessionsShareDatabase'
  BY <1>1, BackupsAssumption DEF SessionsShareDatabase
<1> QED
  BY <1>7, <1>8, <1>9, <1>10 DEF BackupsInv, SessionsInv

LEMMA DisposeStep ==
    ASSUME BackupsInv, NEW j \in BackupSlot, DisposePool(j) PROVE BackupsInv'
<1> DEFINE kept(i) == [jobs[i] EXCEPT !.pooled = FALSE, !.phase = IF i = j THEN "recreate" ELSE @]
<1>1. StoreTyped /\ SessionsInv /\ jobs[j].phase = "dispose"
  BY DEF BackupsInv, DisposePool
<1>2. resetLock = j
  BY <1>1 DEF SessionsInv, DoorHeld, ResetPhase
<1>3. /\ UNCHANGED <<archives, databases, current, stamp, torn, resetLock, restored>>
      /\ pool' = <<>> /\ stragglers' = (InFlight # {j})
      /\ jobs' = [i \in BackupSlot |-> IF jobs[i] = NoJob THEN NoJob ELSE kept(i)]
  BY DEF DisposePool, storeVars, Disposed
<1>4. \A i \in BackupSlot : jobs[i] = NoJob \/ (jobs[i] \in JobSet /\ jobs[i].gen \in DOMAIN databases)
  BY <1>1 DEF StoreTyped, JobsTyped, SlotTyped
<1>5. jobs[j] \in JobSet
  BY <1>1, InFlightTyped DEF JobPhase, ResetPhase
<1>6. \A i \in BackupSlot : jobs[i] \in JobSet =>
          /\ kept(i) \in JobSet /\ kept(i).gen = jobs[i].gen /\ ~kept(i).pooled
          /\ kept(i).phase = IF i = j THEN "recreate" ELSE jobs[i].phase
  <2> SUFFICES ASSUME NEW i \in BackupSlot, jobs[i] \in JobSet
               PROVE  /\ kept(i) \in JobSet /\ kept(i).gen = jobs[i].gen /\ ~kept(i).pooled
                      /\ kept(i).phase = IF i = j THEN "recreate" ELSE jobs[i].phase
    OBVIOUS
  <2> DEFINE next == IF i = j THEN "recreate" ELSE jobs[i].phase
  <2>1. next \in JobPhase
    BY DEF JobSet, JobPhase, ResetPhase
  <2>2. kept(i) = [jobs[i] EXCEPT !.pooled = FALSE, !.phase = next]
    BY DEF JobSet
  <2> HIDE DEF next
  <2>3. kept(i) \in JobSet /\ kept(i).gen = jobs[i].gen /\ ~kept(i).pooled /\ kept(i).phase = next
    BY <2>1, <2>2 DEF JobSet
  <2> QED
    BY <2>3 DEF next
<1> HIDE DEF kept
<1>7. jobs' = [i \in BackupSlot |-> jobs'[i]]
      /\ \A i \in BackupSlot : jobs'[i] = IF jobs[i] = NoJob THEN NoJob ELSE kept(i)
  BY <1>3
<1>8. StoreTyped'
  <2>1. JobsTyped'
    BY <1>3, <1>4, <1>6, <1>7 DEF JobsTyped, SlotTyped
  <2>2. PoolTyped'
    <3>1. pool' \in Seq(Nat) /\ Range(pool') = {}
      BY <1>3 DEF Range
    <3> QED
      BY <3>1 DEF PoolTyped
  <2>3. stragglers' \in BOOLEAN
    BY <1>3
  <2> QED
    BY <1>1, <1>3, <2>1, <2>2, <2>3 DEF StoreTyped, FilesTyped, ArchivesTyped, FlagsTyped, Present
<1>9. \A i \in BackupSlot : i # j => jobs'[i].phase = jobs[i].phase
  BY <1>4, <1>6, <1>7
<1>10. jobs'[j] = kept(j) /\ kept(j).phase = "recreate" /\ ~kept(j).pooled /\ kept(j) \in JobSet
  BY <1>5, <1>6, <1>7, IdlePhase
<1>11. DoorHeld'
  BY <1>1, <1>2, <1>3, <1>9, <1>10 DEF SessionsInv, DoorHeld, ResetPhase
<1>12. InFlight' = InFlight
  BY <1>4, <1>6, <1>7, IdlePhase DEF InFlight
<1>13. ResetAlone'
  BY <1>2, <1>3, <1>10, <1>12 DEF ResetAlone
<1>14. SessionsShareDatabase'
  BY <1>2, <1>3, BackupsAssumption DEF SessionsShareDatabase
<1> QED
  BY <1>8, <1>11, <1>13, <1>14 DEF BackupsInv, SessionsInv

LEMMA RecreateStep ==
    ASSUME BackupsInv, NEW j \in BackupSlot, RecreateDatabase(j) PROVE BackupsInv'
<1> DEFINE b == [jobs[j] EXCEPT !.phase = "answer"]
<1>1. StoreTyped /\ SessionsInv /\ jobs[j].phase = "recreate"
  BY DEF BackupsInv, RecreateDatabase
<1>2. resetLock = j
  BY <1>1 DEF SessionsInv, DoorHeld, ResetPhase
<1>3. /\ UNCHANGED <<archives, stamp, pool, resetLock, stragglers>>
      /\ databases' = Append(databases, {}) /\ current' = Len(databases) + 1
      /\ torn' = FALSE /\ restored' = FALSE
  BY DEF RecreateDatabase
<1>4. jobs[j] \in JobSet /\ jobs[j].gen \in DOMAIN databases
  BY <1>1, InFlightTyped DEF JobPhase, ResetPhase
<1>5. jobs' = [jobs EXCEPT ![j] = b]
  BY <1>1 DEF RecreateDatabase, Goes, StoreTyped, JobsTyped
<1>6. b \in JobSet /\ b.gen = jobs[j].gen /\ b.pooled = jobs[j].pooled /\ b.phase = "answer"
  BY <1>4 DEF JobSet, JobPhase, ResetPhase
<1> HIDE DEF b
<1>7. jobs'[j] = b /\ \A i \in BackupSlot \ {j} : jobs'[i] = jobs[i]
  BY <1>1, <1>5, OnePlace DEF StoreTyped
<1>8. FilesTyped' /\ DOMAIN databases \subseteq DOMAIN databases'
  <2>1. {} \in SUBSET RowSet
    OBVIOUS
  <2> QED
    BY <1>1, <1>3, <2>1, NewFile DEF StoreTyped
<1>9. StoreTyped'
  <2>1. JobsTyped'
    BY <1>1, <1>4, <1>5, <1>6, <1>8, JobsStep DEF SlotTyped, StoreTyped
  <2> QED
    BY <1>1, <1>3, <1>8, <2>1 DEF StoreTyped, PoolTyped, ArchivesTyped, FlagsTyped, Present
<1>10. DoorHeld'
  BY <1>1, <1>2, <1>3, <1>6, <1>7 DEF SessionsInv, DoorHeld, ResetPhase
<1>11. InFlight' = InFlight
  BY <1>4, <1>6, <1>7, IdlePhase DEF InFlight
<1>12. ResetAlone'
  BY <1>1, <1>2, <1>3, <1>6, <1>7, <1>11 DEF SessionsInv, ResetAlone
<1>13. SessionsShareDatabase'
  BY <1>2, <1>3, BackupsAssumption DEF SessionsShareDatabase
<1> QED
  BY <1>9, <1>10, <1>12, <1>13 DEF BackupsInv, SessionsInv

LEMMA OpenDoorStep ==
    ASSUME BackupsInv, NEW j \in BackupSlot, OpenDoor(j) PROVE BackupsInv'
<1>1. StoreTyped /\ SessionsInv /\ jobs[j].phase = "answer" /\ resetLock' = "none"
  BY DEF BackupsInv, OpenDoor
<1>2. resetLock = j
  BY <1>1 DEF SessionsInv, DoorHeld, ResetPhase
<1>3. /\ UNCHANGED <<archives, databases, current, torn, stamp, restored, stragglers>>
      /\ jobs' = [jobs EXCEPT ![j] = NoJob] /\ pool' = PoolAfter(j)
  BY DEF OpenDoor, Ends, storeVars
<1>4. jobs[j] # NoJob
  BY <1>1, InFlightTyped DEF JobPhase, ResetPhase
<1>5. jobs'[j] = NoJob /\ \A i \in BackupSlot \ {j} : jobs'[i] = jobs[i]
  BY <1>1, <1>3, OnePlace DEF StoreTyped
<1>6. StoreTyped'
  <2>1. JobsTyped'
    BY <1>1, <1>3, JobsStep DEF SlotTyped, StoreTyped
  <2>2. PoolTyped'
    BY <1>1, <1>3, <1>4, PoolReturned
  <2> QED
    BY <1>1, <1>3, <2>1, <2>2 DEF StoreTyped, FilesTyped, ArchivesTyped, FlagsTyped, Present
<1>7. DoorHeld'
  <2>1. \A i \in BackupSlot \ {j} : jobs[i].phase \notin ResetPhase
    BY <1>1, <1>2 DEF SessionsInv, DoorHeld
  <2>2. \A i \in BackupSlot : jobs'[i].phase \notin ResetPhase
    BY <1>5, <2>1 DEF NoJob, ResetPhase
  <2> QED
    BY <1>1, <2>2, BackupsAssumption DEF DoorHeld
<1>8. ResetAlone'
  BY <1>1, BackupsAssumption DEF ResetAlone
<1>9. SessionsShareDatabase'
  <2>1. SUFFICES ASSUME ~stragglers'
                 PROVE  Range(pool') = {} /\ InFlight' = {}
    BY DEF SessionsShareDatabase
  <2>2. InFlight = {j} /\ pool = <<>> /\ ~jobs[j].pooled
    BY <1>1, <1>2, <1>3, <2>1 DEF SessionsInv, ResetAlone
  <2>3. pool' = <<>>
    BY <1>3, <2>2 DEF PoolAfter
  <2>4. InFlight' = {}
    BY <1>5, <2>2 DEF InFlight
  <2> QED
    BY <2>3, <2>4 DEF Range
<1> QED
  BY <1>6, <1>7, <1>8, <1>9 DEF BackupsInv, SessionsInv

\* Nothing is in flight, the pool is empty, the door is open.
LEMMA NobodyInside ==
    ASSUME jobs' = [j \in BackupSlot |-> NoJob], pool' = <<>>, resetLock' = "none"
    PROVE  SessionsInv' /\ JobsTyped' /\ PoolTyped'
<1>1. \A j \in BackupSlot : jobs'[j] = NoJob
  OBVIOUS
<1>2. InFlight' = {} /\ Range(pool') = {} /\ pool' \in Seq(Nat)
  BY <1>1 DEF InFlight, Range
<1>3. DoorHeld'
  BY <1>1, BackupsAssumption DEF DoorHeld, NoJob, ResetPhase
<1>4. ResetAlone'
  BY BackupsAssumption DEF ResetAlone
<1>5. SessionsShareDatabase'
  BY <1>2 DEF SessionsShareDatabase
<1>6. JobsTyped'
  BY <1>1 DEF JobsTyped, SlotTyped
<1> QED
  BY <1>2, <1>3, <1>4, <1>5, <1>6 DEF SessionsInv, PoolTyped

LEMMA RestartStep ==
    ASSUME BackupsInv, RestartBackups PROVE BackupsInv'
<1>1. StoreTyped
  BY DEF BackupsInv
<1>2. /\ UNCHANGED <<archives, databases, current, stamp>>
      /\ jobs' = [j \in BackupSlot |-> NoJob] /\ pool' = <<>>
      /\ resetLock' = "none" /\ restored' = FALSE /\ stragglers' = FALSE
  BY DEF RestartBackups
<1>3. torn' \in BOOLEAN
  BY <1>1, Zenon DEF RestartBackups, StoreTyped, FlagsTyped
<1>4. SessionsInv' /\ JobsTyped' /\ PoolTyped'
  BY <1>2, NobodyInside
<1>5. FilesTyped' /\ ArchivesTyped' /\ FlagsTyped'
  BY <1>1, <1>2, <1>3 DEF StoreTyped, FilesTyped, ArchivesTyped, FlagsTyped, Present
<1> QED
  BY <1>4, <1>5 DEF BackupsInv, StoreTyped

---------------------------------------------------------------------------

LEMMA BackupsStart == BackupsInit => BackupsInv
<1> SUFFICES ASSUME BackupsInit PROVE BackupsInv
  OBVIOUS
<1>1. Retention \in Nat
  BY BackupsAssumption
<1>2. \A times : times \subseteq Nat => RecordsOf(times) \in SUBSET RowSet
  <2>1. \A t \in Nat : [file |-> t, at |-> t, restore |-> FALSE] \in RowSet
    BY DEF RowSet
  <2> QED
    BY <2>1 DEF RecordsOf
<1>3. \A f \in 1..Retention : 1..f - 1 \subseteq Nat /\ f \in Nat
  BY <1>1
<1>4. 1..Retention \subseteq Nat
  BY <1>1
<1>5. FilesTyped
  <2>1. RecordsOf(1..Retention) \in SUBSET RowSet
    BY <1>2, <1>4
  <2> QED
    BY <2>1 DEF FilesTyped, BackupsInit
<1>6. ArchivesTyped
  <2> DEFINE entry(f) == [at |-> f, holds |-> RecordsOf(1..f - 1)]
  <2>1. archives = [f \in 1..Retention |-> entry(f)] /\ stamp = Retention + 1
    BY DEF BackupsInit
  <2>2. \A f \in 1..Retention : entry(f) \in [at : Nat, holds : SUBSET RowSet] /\ entry(f).at = f
    BY <1>2, <1>3
  <2> HIDE DEF entry
  <2>3. Present = 1..Retention /\ \A f \in Present : archives[f] = entry(f)
    BY <2>1 DEF Present
  <2>4. archives \in [Present -> [at : Nat, holds : SUBSET RowSet]]
    BY <2>1, <2>2, <2>3
  <2> QED
    BY <1>1, <1>4, <2>1, <2>2, <2>3, <2>4 DEF ArchivesTyped
<1>7. FlagsTyped /\ jobs = [j \in BackupSlot |-> NoJob] /\ pool = <<>> /\ resetLock = "none"
  BY DEF FlagsTyped, BackupsInit
<1>8. JobsTyped /\ PoolTyped
  BY <1>7 DEF JobsTyped, SlotTyped, PoolTyped, Range
<1>9. InFlight = {} /\ Range(pool) = {} /\ \A j \in BackupSlot : jobs[j].phase \notin ResetPhase
  BY <1>7 DEF InFlight, Range, NoJob, ResetPhase
<1>10. SessionsInv
  BY <1>7, <1>9, BackupsAssumption DEF SessionsInv, DoorHeld, ResetAlone, SessionsShareDatabase
<1> QED
  BY <1>5, <1>6, <1>7, <1>8, <1>10 DEF BackupsInv, StoreTyped

LEMMA BackupsStep == BackupsInv /\ [BackupsNext]_backupVars => BackupsInv'
<1> SUFFICES ASSUME BackupsInv, [BackupsNext]_backupVars PROVE BackupsInv'
  OBVIOUS
<1>1. ASSUME NEW j \in BackupSlot, BeginBackup(j) \/ WriteArchive(j) \/ RecordBackup(j) PROVE BackupsInv'
  BY <1>1, BeginStep, WriteStep, RecordStep
<1>2. ASSUME NEW j \in BackupSlot, PruneArchives(j) \/ SyncRecords(j) \/ DeleteArchive(j) PROVE BackupsInv'
  BY <1>2, PruneStep, SyncStep, DeleteStep
<1>3. ASSUME NEW j \in BackupSlot, RestoreArchive(j) \/ CommitBackup(j) \/ TakeAgain(j) PROVE BackupsInv'
  BY <1>3, RestoreStep, CommitStep, AgainStep
<1>4. ASSUME NEW j \in BackupSlot, CloseSession(j) \/ Rollback(j) PROVE BackupsInv'
  BY <1>4, EndStep
<1>5. ASSUME NEW j \in BackupSlot, CloseDoor(j) \/ DisposePool(j) PROVE BackupsInv'
  BY <1>5, CloseDoorStep, DisposeStep
<1>6. ASSUME NEW j \in BackupSlot, RecreateDatabase(j) \/ OpenDoor(j) PROVE BackupsInv'
  BY <1>6, RecreateStep, OpenDoorStep
<1>7. CASE RestartBackups
  BY <1>7, RestartStep
<1>8. CASE UNCHANGED backupVars
  <2>1. UNCHANGED <<archives, databases, current, torn, stamp, pool, jobs, resetLock, restored, stragglers>>
    BY <1>8 DEF backupVars, storeVars, poolVars, doorVars
  <2>2. StoreTyped'
    BY <2>1 DEF BackupsInv, StoreTyped, JobsTyped, FilesTyped, PoolTyped, ArchivesTyped, FlagsTyped,
           Present
  <2>3. DoorHeld' /\ ResetAlone'
    BY <2>1 DEF BackupsInv, SessionsInv, DoorHeld, ResetAlone, InFlight
  <2>4. SessionsShareDatabase'
    BY <2>1 DEF BackupsInv, SessionsInv, SessionsShareDatabase, InFlight
  <2> QED
    BY <2>2, <2>3, <2>4 DEF BackupsInv, SessionsInv
<1> QED
  BY <1>1, <1>2, <1>3, <1>4, <1>5, <1>6, <1>7, <1>8 DEF BackupsNext

\* Every connection is one to a file that there was, and every archive is older than the
\* next one, however sessions, restores, resets and restarts follow each other.
THEOREM BackupsTypeCorrect == BackupsSpec => []BackupsTypeOK
<1>1. BackupsInv => BackupsTypeOK
  <2> SUFFICES ASSUME StoreTyped PROVE BackupsTypeOK
    BY DEF BackupsInv
  <2> QED
    BY DEF StoreTyped, FilesTyped, PoolTyped, ArchivesTyped, FlagsTyped, BackupsTypeOK
<1> QED
  BY <1>1, BackupsStart, BackupsStep, PTL DEF BackupsSpec

\* get_db, commit_with_lock and the factory reset: outside a reset every pooled connection,
\* idle or in a session, is one to the database at db_path. A reset closes the door, and if
\* it finds nobody inside, it is alone until it opens the door: whatever the number of
\* sessions, and wherever their commits, failures and second queries fall.
THEOREM SessionsCorrect == BackupsSpec => []SessionsShareDatabase
<1>1. BackupsInv => SessionsShareDatabase
  BY DEF BackupsInv, SessionsInv
<1> QED
  BY <1>1, BackupsStart, BackupsStep, PTL DEF BackupsSpec

---------------------------------------------------------------------------
(* Records and archives *)

\* What a session has flushed and unlinked, by how far it has come: it flushes before it
\* prunes, and unlinks only what it is about to commit as deleted.
WellFormed(b) ==
    /\ b.phase # "commit" => b.drop = {}
    /\ b.phase = "prune" => b.add # {}
    /\ b.phase \in {"write", "again"} => b.add = {}
    /\ b.phase = "flush" => IF b.record.restore THEN b.kind \in {"restore", "refile", "upload"}
                            ELSE b.add = {}
    /\ b.kind = "delete" => b.add = {} /\ b.phase \in {"act", "commit"}
    /\ b.kind = "change" => b.add = {} /\ b.drop = {} /\ b.phase \in {"commit", "again", "close"}

FormInv == \A j \in BackupSlot : jobs[j] # NoJob => WellFormed(jobs[j])

\* The records that a session is about to delete: their archives are unlinked.
Leaving(b) == IF b.phase = "commit" THEN b.drop ELSE {}

\* What a session has flushed will be right when it commits.
AddsStored(b, rows, present) ==
    /\ OneRecordEach(b.add)
    /\ \A r \in WithFile(b.add) : r.file \in present \/ r \in Leaving(b)
    /\ b.phase = "prune" => FilesOf(WithFile(b.add)) \cap FilesOf(WithFile(rows)) = {}

\* A committed record has its archive or is about to be deleted.
RowsStored ==
    /\ OneRecordEach(databases[current])
    /\ \A r \in WithFile(databases[current]) :
           \/ r.file \in Present
           \/ \E j \in BackupSlot : r \in Leaving(jobs[j]) /\ jobs[j].gen = current

AddsInv ==
    \A j \in BackupSlot :
        jobs[j] # NoJob /\ jobs[j].gen = current => AddsStored(jobs[j], databases[current], Present)

StoredInv == ~torn => RowsStored /\ AddsInv

ArchivesInv == FormInv /\ StoredInv

LEMMA NoneLeaving == ASSUME NEW b, b.phase # "commit" PROVE Leaving(b) = {}
BY DEF Leaving

LEMMA NothingAdded ==
    ASSUME NEW b, NEW rows, NEW present, b.add = {}
    PROVE  AddsStored(b, rows, present)
BY DEF AddsStored, OneRecordEach, WithFile, FilesOf

\* A session that goes on, before it unlinks anything, keeps what it has flushed.
LEMMA SameAdds ==
    ASSUME NEW a, NEW b, NEW rows, NEW present, AddsStored(a, rows, present), Leaving(a) = {},
           b.add = a.add, b.phase # "prune"
    PROVE  AddsStored(b, rows, present)
BY DEF AddsStored

\* A step of one session that commits and unlinks nothing.
LEMMA StoreKept ==
    ASSUME StoreTyped, ArchivesInv, NEW j \in BackupSlot, NEW b, jobs' = [jobs EXCEPT ![j] = b],
           UNCHANGED <<databases, current>>, Present \subseteq Present',
           b = NoJob \/ WellFormed(b),
           ~torn' => ~torn /\ Leaving(jobs[j]) = {},
           ~torn' /\ AddsInv /\ b # NoJob /\ b.gen = current =>
               AddsStored(b, databases[current], Present)
    PROVE  ArchivesInv'
<1>1. jobs'[j] = b /\ \A i \in BackupSlot \ {j} : jobs'[i] = jobs[i]
  BY OnePlace DEF StoreTyped
<1>2. FormInv'
  BY <1>1 DEF ArchivesInv, FormInv
<1>3. ASSUME ~torn' PROVE RowsStored' /\ AddsInv'
  <2>1. RowsStored /\ AddsInv /\ Leaving(jobs[j]) = {}
    BY <1>3 DEF ArchivesInv, StoredInv
  <2>2. RowsStored'
    <3>1. \A i \in BackupSlot : \A r : r \in Leaving(jobs[i]) => jobs'[i] = jobs[i]
      BY <1>1, <2>1
    <3> QED
      BY <2>1, <3>1 DEF RowsStored
  <2>3. AddsInv'
    <3>1. \A i \in BackupSlot : jobs'[i] # NoJob /\ jobs'[i].gen = current =>
              AddsStored(jobs'[i], databases[current], Present)
      BY <1>1, <1>3, <2>1 DEF AddsInv
    <3>2. \A i \in BackupSlot : jobs'[i] # NoJob /\ jobs'[i].gen = current =>
              AddsStored(jobs'[i], databases[current], Present')
      BY <3>1 DEF AddsStored
    <3> QED
      BY <3>2 DEF AddsInv
  <2> QED
    BY <2>2, <2>3
<1> QED
  BY <1>2, <1>3 DEF ArchivesInv, StoredInv

LEMMA BeginArchived ==
    ASSUME BackupsInv, ArchivesInv, NEW j \in BackupSlot, BeginBackup(j) PROVE ArchivesInv'
<1> DEFINE named == [file : Present \cup {Daily} \cup UploadName, at : {0}, restore : {FALSE}]
           job(kind, r) ==
               [phase |-> FirstPhase(kind), kind |-> kind, record |-> r,
                gen |-> Checkout, pooled |-> TRUE,
                seen |-> IF kind \in {"remove", "refile"} THEN FilesOf(databases[Checkout]) ELSE {},
                add |-> {}, drop |-> {}]
<1>1. PICK kind \in BackupKinds, r \in databases[Checkout] \cup named :
          jobs[j] = NoJob /\ jobs' = [jobs EXCEPT ![j] = job(kind, r)]
  BY DEF BeginBackup
<1>2. UNCHANGED <<archives, databases, current, torn>>
  BY DEF BeginBackup, storeVars
<1>3. /\ job(kind, r).add = {} /\ job(kind, r).drop = {} /\ job(kind, r).kind = kind
      /\ job(kind, r).phase = FirstPhase(kind)
  OBVIOUS
<1> HIDE DEF job
<1>4. WellFormed(job(kind, r))
  BY <1>3 DEF WellFormed, FirstPhase, BackupKinds
<1>5. Leaving(jobs[j]) = {}
  BY <1>1 DEF Leaving, NoJob
<1>6. AddsStored(job(kind, r), databases[current], Present)
  BY <1>3, NothingAdded
<1>7. StoreTyped /\ Present' = Present
  BY <1>2 DEF BackupsInv, Present
<1> DEFINE b == job(kind, r)
<1>8. WellFormed(b) /\ AddsStored(b, databases[current], Present) /\ jobs' = [jobs EXCEPT ![j] = b]
  BY <1>1, <1>4, <1>6
<1> HIDE DEF named, b
<1> QED
  BY <1>2, <1>5, <1>7, <1>8, StoreKept

LEMMA WriteArchived ==
    ASSUME BackupsInv, ArchivesInv, NEW j \in BackupSlot, WriteArchive(j) PROVE ArchivesInv'
<1> DEFINE name == IF jobs[j].kind = "daily" THEN Daily ELSE stamp
           row == [file |-> name, at |-> stamp, restore |-> FALSE]
           next == IF jobs[j].phase = "write" THEN "flush" ELSE "dispose"
           b == [jobs[j] EXCEPT !.phase = next, !.record = row]
<1>1. StoreTyped /\ jobs[j].phase \in {"write", "capture"}
  BY DEF BackupsInv, WriteArchive
<1>2. jobs[j] # NoJob /\ jobs[j] \in JobSet
  BY <1>1, InFlightTyped DEF JobPhase, ResetPhase
<1>3. UNCHANGED <<databases, current, torn>> /\ Present \subseteq Present'
  BY DEF WriteArchive, Present
<1>4. jobs' = [jobs EXCEPT ![j] = b]
  BY <1>1 DEF WriteArchive, StoreTyped, JobsTyped
<1>5. ~row.restore
  OBVIOUS
<1> HIDE DEF row
<1>6. /\ b.phase = next /\ b.record = row /\ b.add = jobs[j].add /\ b.drop = jobs[j].drop
      /\ b.kind = jobs[j].kind /\ b.gen = jobs[j].gen
  BY <1>2 DEF JobSet
<1> HIDE DEF b
<1>7. WellFormed(jobs[j])
  BY <1>2 DEF ArchivesInv, FormInv
<1>8. WellFormed(b)
  BY <1>1, <1>5, <1>6, <1>7 DEF WellFormed
<1>9. Leaving(jobs[j]) = {}
  BY <1>1, NoneLeaving
<1>10. AddsInv /\ b.gen = current => AddsStored(b, databases[current], Present)
  <2>1. AddsInv /\ b.gen = current => AddsStored(jobs[j], databases[current], Present)
    BY <1>2, <1>6 DEF AddsInv
  <2>2. b.phase # "prune"
    BY <1>6
  <2> QED
    BY <1>6, <1>9, <2>1, <2>2, SameAdds
<1> QED
  BY <1>1, <1>3, <1>4, <1>8, <1>9, <1>10, StoreKept

LEMMA RecordArchived ==
    ASSUME BackupsInv, ArchivesInv, NEW j \in BackupSlot, RecordBackup(j) PROVE ArchivesInv'
<1> DEFINE next == CASE jobs[j].kind \in {"create", "daily"} -> "prune"
                     [] jobs[j].kind = "export" -> "close"
                     [] OTHER -> "commit"
           more == jobs[j].add \cup {jobs[j].record}
           b == [jobs[j] EXCEPT !.add = more, !.phase = next]
<1>1. StoreTyped /\ jobs[j].phase = "flush"
  BY DEF BackupsInv, RecordBackup
<1>2. jobs[j] # NoJob /\ jobs[j] \in JobSet
  BY <1>1, InFlightTyped DEF JobPhase, ResetPhase
<1>3. UNCHANGED <<archives, databases, current>>
  BY DEF RecordBackup
<1>4. jobs' = [jobs EXCEPT ![j] = b]
  BY <1>1 DEF RecordBackup, StoreTyped, JobsTyped
<1>5. ~torn' => /\ ~torn
                /\ jobs[j].record.restore \/ jobs[j].record.file \in
                       Present \ FilesOf(WithFile(databases[jobs[j].gen]))
  BY Zenon DEF RecordBackup
<1>6. /\ b.phase = next /\ b.add = more /\ b.drop = jobs[j].drop
      /\ b.kind = jobs[j].kind /\ b.gen = jobs[j].gen
  <2> HIDE DEF next, more
  <2> QED
    BY <1>2 DEF JobSet
<1> HIDE DEF b
<1>7. WellFormed(jobs[j])
  BY <1>2 DEF ArchivesInv, FormInv
<1>8. jobs[j].drop = {} /\ more # {} /\ jobs[j].kind \notin {"delete", "change"}
  BY <1>1, <1>7 DEF WellFormed
<1>9. WellFormed(b)
  <2>1. next \in {"prune", "close", "commit"}
    OBVIOUS
  <2> HIDE DEF next, more
  <2> QED
    BY <1>6, <1>8, <2>1 DEF WellFormed
<1>10. Leaving(jobs[j]) = {}
  BY <1>1, NoneLeaving
<1>11. ASSUME ~torn', AddsInv, b.gen = current PROVE AddsStored(b, databases[current], Present)
  <2>1. AddsStored(jobs[j], databases[current], Present)
    BY <1>2, <1>6, <1>11 DEF AddsInv
  <2>2. CASE jobs[j].record.restore
    <3>1. WithFile(more) = WithFile(jobs[j].add)
      BY <2>2 DEF WithFile
    <3>2. next # "prune"
      BY <1>1, <1>7, <2>2 DEF WellFormed
    <3> HIDE DEF next, more
    <3> QED
      BY <1>6, <1>10, <2>1, <3>1, <3>2 DEF AddsStored, OneRecordEach
  <2>3. CASE ~jobs[j].record.restore
    <3>1. more = {jobs[j].record}
      BY <1>1, <1>7, <2>3 DEF WellFormed
    <3>2. jobs[j].record.file \in Present \ FilesOf(WithFile(databases[current]))
      BY <1>5, <1>6, <1>11, <2>3
    <3>3. WithFile(b.add) = {jobs[j].record} /\ FilesOf(WithFile(b.add)) = {jobs[j].record.file}
      BY <1>6, <2>3, <3>1 DEF WithFile, FilesOf
    <3> HIDE DEF next, more
    <3> QED
      BY <3>2, <3>3 DEF AddsStored, OneRecordEach
  <2> QED
    BY <2>2, <2>3
<1> QED
  BY <1>1, <1>3, <1>4, <1>5, <1>9, <1>10, <1>11, StoreKept DEF Present

LEMMA SyncArchived ==
    ASSUME BackupsInv, ArchivesInv, NEW j \in BackupSlot, SyncRecords(j) PROVE ArchivesInv'
<1> DEFINE add == {[file |-> f, at |-> archives[f].at, restore |-> FALSE] : f \in Present \ jobs[j].seen}
           b == [jobs[j] EXCEPT !.phase = "act", !.add = add]
<1>1. StoreTyped /\ jobs[j].phase = "sync"
  BY DEF BackupsInv, SyncRecords
<1>2. jobs[j] # NoJob /\ jobs[j] \in JobSet
  BY <1>1, InFlightTyped DEF JobPhase, ResetPhase
<1>3. UNCHANGED <<archives, databases, current, torn>>
  BY DEF SyncRecords, storeVars
<1>4. jobs' = [jobs EXCEPT ![j] = b]
  BY <1>1 DEF SyncRecords, StoreTyped, JobsTyped
<1>5. /\ b.phase = "act" /\ b.add = add /\ b.drop = jobs[j].drop /\ b.kind = jobs[j].kind
  <2> HIDE DEF add
  <2> QED
    BY <1>2 DEF JobSet
<1>6. OneRecordEach(add) /\ \A r \in add : r.file \in Present
  <2>1. \A r \in add : r.file \in Present /\ r = [file |-> r.file, at |-> archives[r.file].at, restore |-> FALSE]
    OBVIOUS
  <2> HIDE DEF add
  <2>2. \A r, s \in add : r.file = s.file => r = s
    BY <2>1
  <2> QED
    BY <2>1, <2>2 DEF OneRecordEach, WithFile
<1> HIDE DEF b, add
<1>7. WellFormed(jobs[j])
  BY <1>2 DEF ArchivesInv, FormInv
<1>8. WellFormed(b)
  BY <1>1, <1>5, <1>7 DEF WellFormed
<1>9. AddsStored(b, databases[current], Present)
  BY <1>5, <1>6 DEF AddsStored, WithFile
<1>10. Leaving(jobs[j]) = {}
  BY <1>1, NoneLeaving
<1> QED
  BY <1>1, <1>3, <1>4, <1>8, <1>9, <1>10, StoreKept DEF Present

LEMMA AgainArchived ==
    ASSUME BackupsInv, ArchivesInv, NEW j \in BackupSlot, TakeAgain(j) PROVE ArchivesInv'
<1> DEFINE b == [jobs[j] EXCEPT !.phase = "close", !.pooled = TRUE, !.gen = Checkout]
<1>1. StoreTyped /\ jobs[j].phase = "again"
  BY DEF BackupsInv, TakeAgain
<1>2. jobs[j] # NoJob /\ jobs[j] \in JobSet
  BY <1>1, InFlightTyped DEF JobPhase, ResetPhase
<1>3. UNCHANGED <<archives, databases, current, torn>>
  BY DEF TakeAgain, storeVars
<1>4. jobs' = [jobs EXCEPT ![j] = b]
  BY <1>1 DEF TakeAgain, StoreTyped, JobsTyped
<1>5. b.phase = "close" /\ b.add = jobs[j].add /\ b.drop = jobs[j].drop /\ b.kind = jobs[j].kind
  BY <1>2 DEF JobSet
<1> HIDE DEF b
<1>6. WellFormed(jobs[j])
  BY <1>2 DEF ArchivesInv, FormInv
<1>7. WellFormed(b) /\ b.add = {}
  BY <1>1, <1>5, <1>6 DEF WellFormed
<1>8. AddsStored(b, databases[current], Present)
  BY <1>7, NothingAdded
<1>9. Leaving(jobs[j]) = {}
  BY <1>1, NoneLeaving
<1> QED
  BY <1>1, <1>3, <1>4, <1>7, <1>8, <1>9, StoreKept DEF Present

\* A session that ends without a commit.
LEMMA EndArchived ==
    ASSUME BackupsInv, ArchivesInv, NEW j \in BackupSlot,
           CloseSession(j) \/ Rollback(j) \/ OpenDoor(j)
    PROVE  ArchivesInv'
<1>1. StoreTyped /\ jobs[j].phase \in {"close", "act", "flush", "commit", "sync", "answer"}
  BY DEF BackupsInv, CloseSession, Rollback, OpenDoor
<1>2. jobs[j] # NoJob /\ jobs[j] \in JobSet
  BY <1>1, InFlightTyped DEF JobPhase, ResetPhase
<1>3. UNCHANGED <<archives, databases, current>> /\ jobs' = [jobs EXCEPT ![j] = NoJob]
  BY DEF CloseSession, Rollback, OpenDoor, Ends, storeVars
<1>4. WellFormed(jobs[j])
  BY <1>2 DEF ArchivesInv, FormInv
<1>5. ~torn' => ~torn /\ Leaving(jobs[j]) = {}
  <2>1. CASE CloseSession(j)
    BY <2>1 DEF CloseSession, storeVars, Leaving
  <2>2. CASE Rollback(j)
    <3>1. torn' = (torn \/ jobs[j].drop # {})
      BY <2>2 DEF Rollback
    <3> QED
      BY <3>1 DEF Leaving
  <2>3. CASE OpenDoor(j)
    BY <2>3 DEF OpenDoor, storeVars, Leaving
  <2> QED
    BY <2>1, <2>2, <2>3
<1> QED
  BY <1>1, <1>3, <1>5, StoreKept DEF Present

\* The door closes: the session that has it goes on, and the others are as they were.
LEMMA CloseDoorArchived ==
    ASSUME BackupsInv, ArchivesInv, NEW j \in BackupSlot, CloseDoor(j) PROVE ArchivesInv'
<1> DEFINE b == [jobs[j] EXCEPT !.phase = "capture"]
<1>1. StoreTyped /\ jobs[j].phase = "lock"
  BY DEF BackupsInv, CloseDoor
<1>2. jobs[j] # NoJob /\ jobs[j] \in JobSet
  BY <1>1, InFlightTyped DEF JobPhase
<1>3. UNCHANGED <<databases, current, torn>> /\ Present' = Present
  BY DEF CloseDoor, storeVars, Present
<1>4. jobs' = [jobs EXCEPT ![j] = b]
  BY <1>1 DEF CloseDoor, Goes, StoreTyped, JobsTyped
<1>5. /\ b.phase = "capture" /\ b.add = jobs[j].add /\ b.drop = jobs[j].drop
      /\ b.kind = jobs[j].kind /\ b.gen = jobs[j].gen
  BY <1>2 DEF JobSet
<1> HIDE DEF b
<1>6. WellFormed(jobs[j])
  BY <1>2 DEF ArchivesInv, FormInv
<1>7. WellFormed(b)
  BY <1>1, <1>5, <1>6 DEF WellFormed
<1>8. Leaving(jobs[j]) = {}
  BY <1>1, NoneLeaving
<1>9. AddsInv /\ b.gen = current => AddsStored(b, databases[current], Present)
  <2>1. AddsInv /\ b.gen = current => AddsStored(jobs[j], databases[current], Present)
    BY <1>2, <1>5 DEF AddsInv
  <2> QED
    BY <1>5, <1>8, <2>1, SameAdds
<1> QED
  BY <1>1, <1>3, <1>4, <1>7, <1>8, <1>9, StoreKept

LEMMA DisposeArchived ==
    ASSUME BackupsInv, ArchivesInv, NEW j \in BackupSlot, DisposePool(j) PROVE ArchivesInv'
<1> DEFINE kept(i) == [jobs[i] EXCEPT !.pooled = FALSE, !.phase = IF i = j THEN "recreate" ELSE @]
<1>1. StoreTyped /\ jobs[j].phase = "dispose"
  BY DEF BackupsInv, DisposePool
<1>2. UNCHANGED <<databases, current, torn>> /\ Present' = Present
      /\ jobs' = [i \in BackupSlot |-> IF jobs[i] = NoJob THEN NoJob ELSE kept(i)]
  BY DEF DisposePool, storeVars, Present
<1>3. \A i \in BackupSlot : jobs[i] = NoJob \/ jobs[i] \in JobSet
  BY <1>1 DEF StoreTyped, JobsTyped, SlotTyped
<1>4. ASSUME NEW i \in BackupSlot, jobs[i] # NoJob
      PROVE  /\ kept(i).add = jobs[i].add /\ kept(i).drop = jobs[i].drop
             /\ kept(i).kind = jobs[i].kind /\ kept(i).gen = jobs[i].gen
             /\ kept(i).record = jobs[i].record
             /\ kept(i).phase = IF i = j THEN "recreate" ELSE jobs[i].phase
  <2>1. jobs[i] \in JobSet
    BY <1>3, <1>4
  <2> DEFINE next == IF i = j THEN "recreate" ELSE jobs[i].phase
  <2>2. kept(i) = [jobs[i] EXCEPT !.pooled = FALSE, !.phase = next]
    BY <2>1 DEF JobSet
  <2> HIDE DEF next
  <2>3. /\ kept(i).add = jobs[i].add /\ kept(i).drop = jobs[i].drop
        /\ kept(i).kind = jobs[i].kind /\ kept(i).gen = jobs[i].gen
        /\ kept(i).record = jobs[i].record /\ kept(i).phase = next
    BY <2>1, <2>2 DEF JobSet
  <2> QED
    BY <2>3 DEF next
<1> HIDE DEF kept
<1>5. \A i \in BackupSlot : jobs'[i] = IF jobs[i] = NoJob THEN NoJob ELSE kept(i)
  BY <1>2
\* What the invariants read of a session is as it was, but for the phase of the reset.
<1>6. \A i \in BackupSlot : Leaving(jobs'[i]) = Leaving(jobs[i])
  BY <1>1, <1>4, <1>5 DEF Leaving
<1>7. FormInv'
  <2>1. \A i \in BackupSlot : jobs[i] # NoJob => WellFormed(jobs[i])
    BY DEF ArchivesInv, FormInv
  <2>2. \A i \in BackupSlot : jobs[i] # NoJob => WellFormed(kept(i))
    BY <1>1, <1>4, <2>1 DEF WellFormed
  <2> QED
    BY <1>5, <2>2 DEF FormInv
<1>8. ASSUME ~torn' PROVE RowsStored' /\ AddsInv'
  <2>1. RowsStored /\ AddsInv
    BY <1>2, <1>8 DEF ArchivesInv, StoredInv
  <2>2. RowsStored'
    <3>1. \A i \in BackupSlot : \A r : r \in Leaving(jobs[i]) => r \in Leaving(jobs'[i]) /\ jobs'[i].gen = jobs[i].gen
      <4>1. \A i \in BackupSlot : jobs[i] = NoJob => Leaving(jobs[i]) = {}
        BY DEF Leaving, NoJob
      <4> QED
        BY <1>4, <1>5, <1>6, <4>1
    <3> QED
      BY <1>2, <2>1, <3>1 DEF RowsStored
  <2>3. AddsInv'
    <3>1. \A i \in BackupSlot : jobs'[i] # NoJob /\ jobs'[i].gen = current =>
              AddsStored(jobs[i], databases[current], Present) /\ jobs'[i] = kept(i) /\ jobs[i] # NoJob
      BY <1>4, <1>5, <2>1 DEF AddsInv
    <3>2. \A i \in BackupSlot : jobs'[i] # NoJob /\ jobs'[i].gen = current =>
              AddsStored(jobs'[i], databases[current], Present)
      BY <1>4, <1>5, <1>6, <3>1 DEF AddsStored
    <3> QED
      BY <1>2, <3>2 DEF AddsInv
  <2> QED
    BY <2>2, <2>3
<1> QED
  BY <1>7, <1>8 DEF ArchivesInv, StoredInv

\* A file at db_path that no session has opened: what they flushed stays with the old ones.
LEMMA NewFileArchived ==
    ASSUME StoreTyped, ArchivesInv, NEW j \in BackupSlot, NEW b, jobs' = [jobs EXCEPT ![j] = b],
           jobs[j] # NoJob, b.gen = jobs[j].gen, WellFormed(b),
           NEW holds, databases' = Append(databases, holds), current' = Len(databases) + 1,
           ~torn' => FilesOf(WithFile(holds)) \subseteq Present' /\ OneRecordEach(holds)
    PROVE  ArchivesInv'
<1>1. jobs'[j] = b /\ \A i \in BackupSlot \ {j} : jobs'[i] = jobs[i]
  BY OnePlace DEF StoreTyped
<1>2. FormInv'
  BY <1>1 DEF ArchivesInv, FormInv
<1>3. databases'[current'] = holds /\ current' \notin DOMAIN databases
  BY DEF StoreTyped, FilesTyped
<1>4. ~torn' => RowsStored'
  BY <1>3 DEF RowsStored, FilesOf
<1>5. AddsInv'
  <2>1. \A i \in BackupSlot : jobs[i] # NoJob => jobs[i].gen \in DOMAIN databases
    BY DEF StoreTyped, JobsTyped, SlotTyped
  <2>2. \A i \in BackupSlot : jobs'[i] # NoJob => jobs'[i].gen \in DOMAIN databases
    BY <1>1, <2>1
  <2> QED
    BY <1>3, <2>2 DEF AddsInv
<1> QED
  BY <1>2, <1>4, <1>5 DEF ArchivesInv, StoredInv

LEMMA RecreateArchived ==
    ASSUME BackupsInv, ArchivesInv, NEW j \in BackupSlot, RecreateDatabase(j) PROVE ArchivesInv'
<1> DEFINE b == [jobs[j] EXCEPT !.phase = "answer"]
<1>1. StoreTyped /\ jobs[j].phase = "recreate"
  BY DEF BackupsInv, RecreateDatabase
<1>2. databases' = Append(databases, {}) /\ current' = Len(databases) + 1
  BY DEF RecreateDatabase
<1>3. jobs[j] # NoJob /\ jobs[j] \in JobSet
  BY <1>1, InFlightTyped DEF JobPhase, ResetPhase
<1>4. jobs' = [jobs EXCEPT ![j] = b]
  BY <1>1 DEF RecreateDatabase, Goes, StoreTyped, JobsTyped
<1>5. /\ b.phase = "answer" /\ b.add = jobs[j].add /\ b.drop = jobs[j].drop
      /\ b.kind = jobs[j].kind /\ b.gen = jobs[j].gen
  BY <1>3 DEF JobSet
<1> HIDE DEF b
<1>6. WellFormed(jobs[j])
  BY <1>3 DEF ArchivesInv, FormInv
<1>7. WellFormed(b)
  BY <1>1, <1>5, <1>6 DEF WellFormed
<1>8. FilesOf(WithFile({})) \subseteq Present' /\ OneRecordEach({})
  BY DEF FilesOf, WithFile, OneRecordEach
<1> QED
  BY <1>1, <1>2, <1>3, <1>4, <1>5, <1>7, <1>8, NewFileArchived

LEMMA RestoreArchived ==
    ASSUME BackupsInv, ArchivesInv, NEW j \in BackupSlot, RestoreArchive(j) PROVE ArchivesInv'
<1> DEFINE holds == IF jobs[j].kind = "upload" THEN {} ELSE archives[jobs[j].record.file].holds
           row == [file |-> jobs[j].record.file, at |-> stamp, restore |-> TRUE]
           b == [jobs[j] EXCEPT !.phase = "flush", !.record = row]
<1>1. StoreTyped /\ jobs[j].phase = "act" /\ jobs[j].kind \in {"restore", "refile", "upload"}
  BY DEF BackupsInv, RestoreArchive
<1>2. /\ databases' = Append(databases, holds) /\ current' = Len(databases) + 1
      /\ Present' = Present
      /\ ~torn' => FilesOf(WithFile(holds)) \subseteq Present /\ OneRecordEach(holds)
  BY DEF RestoreArchive, Present
<1>3. jobs[j] # NoJob /\ jobs[j] \in JobSet
  BY <1>1, InFlightTyped DEF JobPhase
<1>4. jobs' = [jobs EXCEPT ![j] = b]
  BY <1>1 DEF RestoreArchive, StoreTyped, JobsTyped
<1>5. row.restore
  OBVIOUS
<1> HIDE DEF row
<1>6. /\ b.phase = "flush" /\ b.record = row /\ b.add = jobs[j].add /\ b.drop = jobs[j].drop
      /\ b.kind = jobs[j].kind /\ b.gen = jobs[j].gen
  BY <1>3 DEF JobSet
<1> HIDE DEF b, holds
<1>7. WellFormed(jobs[j])
  BY <1>3 DEF ArchivesInv, FormInv
<1>8. WellFormed(b)
  BY <1>1, <1>5, <1>6, <1>7 DEF WellFormed
<1> QED
  BY <1>1, <1>2, <1>3, <1>4, <1>6, <1>8, NewFileArchived

---------------------------------------------------------------------------
(* Steps that unlink and commit *)

\* A session unlinks archives, all of which it is about to delete the records of, while no
\* other session has flushed a record of them.
LEMMA UnlinkArchived ==
    ASSUME StoreTyped, ArchivesInv, NEW j \in BackupSlot, NEW b, jobs' = [jobs EXCEPT ![j] = b],
           jobs[j] # NoJob, jobs[j].phase # "commit", WellFormed(b),
           b.gen = jobs[j].gen, b.add = jobs[j].add, b.phase # "prune",
           UNCHANGED <<databases, current>>, NEW gone, Present' = Present \ gone,
           ~torn' => ~torn,
           ~torn' => \/ gone \cap Present = {}
                     \/ OwnFiles(j, gone),
           ~torn' => \A r \in WithFile(databases[current]) \cup WithFile(b.add) :
                         r.file \in gone \cap Present => r \in Leaving(b) \/ jobs[j].gen # current
    PROVE  ArchivesInv'
<1>1. jobs'[j] = b /\ \A i \in BackupSlot \ {j} : jobs'[i] = jobs[i]
  BY OnePlace DEF StoreTyped
<1>2. FormInv'
  BY <1>1 DEF ArchivesInv, FormInv
<1>3. Leaving(jobs[j]) = {}
  BY NoneLeaving
<1>4. ASSUME ~torn' PROVE RowsStored' /\ AddsInv'
  <2>1. RowsStored /\ AddsInv
    BY <1>4 DEF ArchivesInv, StoredInv
  <2>2. gone \cap Present = {} \/ (jobs[j].gen = current /\ OwnFiles(j, gone))
    BY <1>4 DEF OwnFiles
  <2>3. RowsStored'
    <3>1. OneRecordEach(databases[current])
      BY <2>1 DEF RowsStored
    <3>2. ASSUME NEW r \in WithFile(databases[current])
          PROVE  \/ r.file \in Present'
                 \/ \E i \in BackupSlot : r \in Leaving(jobs'[i]) /\ jobs'[i].gen = current
      <4>1. CASE r.file \in Present
        BY <1>1, <1>4, <2>2, <4>1
      <4>2. CASE r.file \notin Present
        <5>1. PICK i \in BackupSlot : r \in Leaving(jobs[i]) /\ jobs[i].gen = current
          BY <2>1, <4>2 DEF RowsStored
        <5>2. jobs'[i] = jobs[i]
          BY <1>1, <1>3, <5>1
        <5> QED
          BY <5>1, <5>2
      <4> QED
        BY <4>1, <4>2
    <3> QED
      BY <3>1, <3>2 DEF RowsStored
  <2>4. AddsInv'
    <3>1. SUFFICES ASSUME NEW i \in BackupSlot, jobs'[i] # NoJob, jobs'[i].gen = current
                   PROVE  AddsStored(jobs'[i], databases[current], Present')
      BY DEF AddsInv
    <3>2. CASE i = j
      <4>1. AddsStored(jobs[j], databases[current], Present) /\ jobs[j].gen = current
        BY <1>1, <2>1, <3>1, <3>2 DEF AddsInv
      <4>2. \A r \in WithFile(b.add) : r.file \in Present
        BY <1>3, <4>1 DEF AddsStored
      <4>3. \A r \in WithFile(b.add) : r.file \in Present' \/ r \in Leaving(b)
        BY <1>4, <4>1, <4>2
      <4> QED
        BY <1>1, <3>2, <4>1, <4>3 DEF AddsStored
    <3>3. CASE i # j
      <4>1. jobs'[i] = jobs[i] /\ AddsStored(jobs[i], databases[current], Present) /\ i \in InFlight
        BY <1>1, <2>1, <3>1, <3>3 DEF AddsInv, InFlight
      <4>2. gone \cap Present \cap FilesOf(WithFile(jobs[i].add)) = {}
        BY <2>2, <3>3, <4>1 DEF OwnFiles
      <4>3. \A r \in WithFile(jobs[i].add) : r.file \in FilesOf(WithFile(jobs[i].add))
        BY DEF FilesOf
      <4>4. \A r \in WithFile(jobs[i].add) : r.file \in Present => r.file \in Present'
        BY <4>2, <4>3
      <4> QED
        BY <4>1, <4>4 DEF AddsStored
    <3> QED
      BY <3>2, <3>3
  <2> QED
    BY <2>3, <2>4
<1> QED
  BY <1>2, <1>4 DEF ArchivesInv, StoredInv

\* What a session sees before it prunes has one record of each archive.
LEMMA VisibleOnce ==
    ASSUME NEW j \in BackupSlot, jobs[j].phase = "prune", jobs[j].gen = current,
           RowsStored, AddsStored(jobs[j], databases[current], Present)
    PROVE  OneRecordEach(Visible(j))
<1>1. OneRecordEach(databases[current]) /\ OneRecordEach(jobs[j].add)
  BY DEF RowsStored, AddsStored
<1>2. \A r \in WithFile(jobs[j].add), s \in WithFile(databases[current]) : r.file # s.file
  BY DEF AddsStored, FilesOf
<1>3. WithFile(Visible(j)) = WithFile(databases[current]) \cup WithFile(jobs[j].add)
  BY DEF Visible, WithFile
<1> QED
  BY <1>1, <1>2, <1>3 DEF OneRecordEach

LEMMA PruneArchived ==
    ASSUME BackupsInv, ArchivesInv, NEW j \in BackupSlot, PruneArchives(j) PROVE ArchivesInv'
<1> DEFINE drop == Surplus(Visible(j))
           next == CyclePhase(jobs[j].kind, drop)
           b == [jobs[j] EXCEPT !.drop = drop, !.phase = next]
<1>1. StoreTyped /\ jobs[j].phase = "prune"
  BY DEF BackupsInv, PruneArchives
<1>2. jobs[j] # NoJob /\ jobs[j] \in JobSet
  BY <1>1, InFlightTyped DEF JobPhase, ResetPhase
<1>3. /\ UNCHANGED <<databases, current>> /\ Present' = Present \ FilesOf(drop)
      /\ ~torn' => ~torn /\ (drop = {} \/ OwnFiles(j, FilesOf(drop)))
  <2>1. UNCHANGED <<databases, current>> /\ archives' = Without(FilesOf(drop))
        /\ torn' = (torn \/ (drop # {} /\ ~OwnFiles(j, FilesOf(drop))))
    BY DEF PruneArchives
  <2> HIDE DEF drop
  <2> QED
    BY <2>1 DEF Without, Present
<1>4. jobs' = [jobs EXCEPT ![j] = b]
  BY <1>1 DEF PruneArchives, StoreTyped, JobsTyped
<1>5. drop \subseteq WithFile(Visible(j))
  BY DEF Surplus
<1>6. next \in {"close", "commit"} /\ (drop # {} => next = "commit")
  BY DEF CyclePhase
<1> HIDE DEF drop, next
<1>7. /\ b.phase = next /\ b.drop = drop /\ b.add = jobs[j].add
      /\ b.kind = jobs[j].kind /\ b.gen = jobs[j].gen
  BY <1>2 DEF JobSet
<1> HIDE DEF b
<1>8. WellFormed(jobs[j])
  BY <1>2 DEF ArchivesInv, FormInv
<1>9. WellFormed(b)
  BY <1>1, <1>6, <1>7, <1>8 DEF WellFormed
<1>10. ASSUME ~torn', NEW r \in WithFile(databases[current]) \cup WithFile(b.add),
              r.file \in FilesOf(drop), jobs[j].gen = current
       PROVE  r \in Leaving(b)
  <2>1. RowsStored /\ AddsStored(jobs[j], databases[current], Present)
    BY <1>2, <1>3, <1>10 DEF ArchivesInv, StoredInv, AddsInv
  <2>2. OneRecordEach(Visible(j))
    BY <1>1, <1>10, <2>1, VisibleOnce
  <2>3. PICK s \in drop : s.file = r.file
    BY <1>10 DEF FilesOf
  <2>4. r \in WithFile(Visible(j)) /\ s \in WithFile(Visible(j))
    BY <1>5, <1>7, <1>10, <2>3 DEF Visible, WithFile
  <2>5. r = s
    BY <2>2, <2>3, <2>4 DEF OneRecordEach
  <2> QED
    BY <1>6, <1>7, <2>3, <2>5 DEF Leaving
<1>11. ~torn' => \A r \in WithFile(databases[current]) \cup WithFile(b.add) :
                     r.file \in FilesOf(drop) \cap Present => r \in Leaving(b) \/ jobs[j].gen # current
  BY <1>10
<1>12. ~torn' => FilesOf(drop) \cap Present = {} \/ OwnFiles(j, FilesOf(drop))
  BY <1>3 DEF FilesOf
<1>13. jobs[j].phase # "commit" /\ b.phase # "prune"
  BY <1>1, <1>6, <1>7
<1> QED
  BY <1>1, <1>2, <1>3, <1>4, <1>7, <1>9, <1>11, <1>12, <1>13, UnlinkArchived

LEMMA DeleteArchived ==
    ASSUME BackupsInv, ArchivesInv, NEW j \in BackupSlot, DeleteArchive(j) PROVE ArchivesInv'
<1> DEFINE file == jobs[j].record.file
           drop == IF jobs[j].kind = "delete" THEN {jobs[j].record}
                   ELSE {r \in Visible(j) : r.file = jobs[j].record.file}
           b == [jobs[j] EXCEPT !.phase = "commit", !.drop = drop]
<1>1. StoreTyped /\ jobs[j].phase = "act" /\ jobs[j].kind \in {"delete", "remove"}
  BY DEF BackupsInv, DeleteArchive
<1>2. jobs[j] # NoJob /\ jobs[j] \in JobSet
  BY <1>1, InFlightTyped DEF JobPhase
<1>3. /\ UNCHANGED <<databases, current>> /\ Present' = Present \ {file}
      /\ ~torn' => /\ ~torn /\ OwnFiles(j, {file})
                   /\ jobs[j].kind = "delete" => jobs[j].record \in WithFile(databases[jobs[j].gen])
  BY DEF DeleteArchive, Without, Present
<1>4. jobs' = [jobs EXCEPT ![j] = b]
  BY <1>1 DEF DeleteArchive, StoreTyped, JobsTyped
<1>5. b.phase = "commit" /\ b.drop = drop /\ b.add = jobs[j].add
      /\ b.kind = jobs[j].kind /\ b.gen = jobs[j].gen
  <2> HIDE DEF drop
  <2> QED
    BY <1>2 DEF JobSet
<1> HIDE DEF b
<1>6. WellFormed(jobs[j])
  BY <1>2 DEF ArchivesInv, FormInv
<1>7. WellFormed(b)
  BY <1>1, <1>5, <1>6 DEF WellFormed
<1>8. ASSUME ~torn', NEW r \in WithFile(databases[current]) \cup WithFile(b.add),
             r.file = file, jobs[j].gen = current
      PROVE  r \in Leaving(b)
  <2>1. RowsStored
    BY <1>3, <1>8 DEF ArchivesInv, StoredInv
  <2>2. r \in drop
    <3>1. CASE jobs[j].kind = "delete"
      <4>1. jobs[j].add = {}
        BY <1>6, <3>1 DEF WellFormed
      <4>2. r \in WithFile(databases[current]) /\ jobs[j].record \in WithFile(databases[current])
        BY <1>3, <1>5, <1>8, <3>1, <4>1 DEF WithFile
      <4> QED
        BY <1>8, <2>1, <3>1, <4>2 DEF RowsStored, OneRecordEach
    <3>2. CASE jobs[j].kind # "delete"
      BY <1>5, <1>8, <3>2 DEF Visible, WithFile
    <3> QED
      BY <3>1, <3>2
  <2> HIDE DEF drop
  <2> QED
    BY <1>5, <2>2 DEF Leaving
<1> HIDE DEF file, drop
<1>9. ~torn' => \A r \in WithFile(databases[current]) \cup WithFile(b.add) :
                    r.file \in {file} \cap Present => r \in Leaving(b) \/ jobs[j].gen # current
  BY <1>8
<1>10. jobs[j].phase # "commit" /\ b.phase # "prune"
  BY <1>1, <1>5
<1> QED
  BY <1>1, <1>2, <1>3, <1>4, <1>5, <1>7, <1>9, <1>10, UnlinkArchived

\* While a session commits, no other one has flushed anything to the same file.
LEMMA CommitArchived ==
    ASSUME BackupsInv, ArchivesInv, NEW j \in BackupSlot, CommitBackup(j) PROVE ArchivesInv'
<1> DEFINE g == jobs[j].gen
           rows == (databases[g] \cup jobs[j].add) \ jobs[j].drop
           again == [jobs[j] EXCEPT !.phase = "again", !.pooled = FALSE]
<1>1. StoreTyped /\ jobs[j].phase = "commit" /\ ~Locked(j)
  BY DEF BackupsInv, CommitBackup
<1>2. jobs[j] # NoJob /\ jobs[j] \in JobSet /\ g \in DOMAIN databases
  BY <1>1, InFlightTyped DEF JobPhase, ResetPhase
<1>3. /\ current' = current /\ Present' = Present
      /\ databases' = [databases EXCEPT ![g] = rows]
      /\ torn' = (torn \/ FilesOf(WithFile(jobs[j].add)) \cap FilesOf(WithFile(databases[g])) # {})
  BY DEF CommitBackup, Present
<1>4. WellFormed(jobs[j])
  BY <1>2 DEF ArchivesInv, FormInv
<1>5. \/ jobs' = [jobs EXCEPT ![j] = NoJob]
      \/ jobs[j].kind = "change" /\ jobs' = [jobs EXCEPT ![j] = again]
  BY <1>1 DEF CommitBackup, StoreTyped, JobsTyped, Ends
<1>6. again.phase = "again" /\ again.add = jobs[j].add /\ again.drop = jobs[j].drop
      /\ again.kind = jobs[j].kind
  BY <1>2 DEF JobSet
<1> HIDE DEF again
<1>7. jobs[j].kind = "change" => WellFormed(again) /\ again.add = {}
  BY <1>4, <1>6 DEF WellFormed
<1>8. /\ \A i \in BackupSlot \ {j} : jobs'[i] = jobs[i]
      /\ jobs'[j] = NoJob \/ (WellFormed(jobs'[j]) /\ jobs'[j].add = {})
  <2>1. CASE jobs' = [jobs EXCEPT ![j] = NoJob]
    BY <1>1, <2>1, OnePlace DEF StoreTyped
  <2>2. CASE jobs[j].kind = "change" /\ jobs' = [jobs EXCEPT ![j] = again]
    BY <1>1, <1>7, <2>2, OnePlace DEF StoreTyped
  <2> QED
    BY <1>5, <2>1, <2>2
<1>9. FormInv'
  BY <1>8 DEF ArchivesInv, FormInv
<1>10. databases'[current] = IF g = current THEN rows ELSE databases[current]
  <2>1. current \in DOMAIN databases
    BY <1>1 DEF StoreTyped, FilesTyped
  <2> HIDE DEF rows, g
  <2> QED
    BY <1>2, <1>3, <2>1 DEF StoreTyped, FilesTyped
<1>11. ASSUME ~torn' PROVE RowsStored' /\ AddsInv'
  <2>1. RowsStored /\ AddsInv
    BY <1>3, <1>11 DEF ArchivesInv, StoredInv
  <2>2. CASE g # current
    <3>1. databases'[current] = databases[current]
      BY <1>10, <2>2
    <3>2. \A i \in BackupSlot : jobs[i].gen = current => jobs'[i] = jobs[i]
      BY <1>8, <2>2
    <3>3. RowsStored'
      BY <1>3, <2>1, <3>1, <3>2 DEF RowsStored
    <3>4. AddsInv'
      <4>1. \A i \in BackupSlot : jobs'[i] # NoJob /\ jobs'[i].gen = current =>
                AddsStored(jobs'[i], databases[current], Present)
        BY <1>8, <2>1, NothingAdded DEF AddsInv
      <4> QED
        BY <1>3, <3>1, <4>1 DEF AddsInv
    <3> QED
      BY <3>3, <3>4
  <2>3. CASE g = current
    <3>1. databases'[current] = (databases[current] \cup jobs[j].add) \ jobs[j].drop
      BY <1>10, <2>3
    <3>2. AddsStored(jobs[j], databases[current], Present)
      BY <1>2, <2>1, <2>3 DEF AddsInv
    <3>3. FilesOf(WithFile(jobs[j].add)) \cap FilesOf(WithFile(databases[current])) = {}
      BY <1>3, <1>11, <2>3
    <3>4. Leaving(jobs[j]) = jobs[j].drop
      BY <1>1 DEF Leaving
    <3>5. WithFile(databases'[current]) \subseteq
              (WithFile(databases[current]) \cup WithFile(jobs[j].add)) \ jobs[j].drop
      BY <3>1 DEF WithFile
    <3>6. OneRecordEach(databases'[current])
      <4>1. \A r \in WithFile(jobs[j].add), s \in WithFile(databases[current]) : r.file # s.file
        BY <3>3 DEF FilesOf
      <4>2. \A r, s \in WithFile(databases[current]) \cup WithFile(jobs[j].add) : r.file = s.file => r = s
        BY <2>1, <3>2, <4>1 DEF OneRecordEach, RowsStored, AddsStored
      <4> QED
        BY <3>5, <4>2 DEF OneRecordEach
    <3>7. ASSUME NEW r \in WithFile(databases'[current])
          PROVE  \/ r.file \in Present
                 \/ \E i \in BackupSlot : r \in Leaving(jobs'[i]) /\ jobs'[i].gen = current
      <4>1. r \notin Leaving(jobs[j])
        BY <3>4, <3>5, <3>7
      <4>2. CASE r \in WithFile(jobs[j].add)
        BY <3>2, <4>1, <4>2 DEF AddsStored
      <4>3. CASE r \in WithFile(databases[current])
        BY <1>8, <2>1, <4>1, <4>3 DEF RowsStored
      <4> QED
        BY <3>5, <3>7, <4>2, <4>3
    <3>8. RowsStored'
      BY <1>3, <3>6, <3>7 DEF RowsStored
    <3>9. AddsInv'
      <4>1. \A i \in BackupSlot \ {j} : jobs[i] # NoJob /\ jobs[i].gen = current => jobs[i].add = {}
        BY <1>1, <2>3 DEF Locked, Writing, InFlight
      <4>2. \A i \in BackupSlot : jobs'[i] # NoJob /\ jobs'[i].gen = current => jobs'[i].add = {}
        BY <1>8, <4>1
      <4> QED
        BY <1>3, <4>2, NothingAdded DEF AddsInv
    <3> QED
      BY <3>8, <3>9
  <2> QED
    BY <2>2, <2>3
<1> QED
  BY <1>9, <1>11 DEF ArchivesInv, StoredInv

LEMMA RestartArchived ==
    ASSUME BackupsInv, ArchivesInv, RestartBackups PROVE ArchivesInv'
<1>1. /\ UNCHANGED <<archives, databases, current>>
      /\ \A j \in BackupSlot : jobs'[j] = NoJob
      /\ torn' = (torn \/ \E j \in InFlight : jobs[j].drop # {})
  BY DEF RestartBackups
<1>2. FormInv' /\ AddsInv'
  BY <1>1 DEF FormInv, AddsInv
<1>3. ~torn' => RowsStored'
  <2>1. \A j \in BackupSlot : jobs[j] = NoJob => Leaving(jobs[j]) = {}
    BY DEF Leaving, NoJob
  <2>2. ~torn' => ~torn /\ \A j \in BackupSlot : Leaving(jobs[j]) = {}
    BY <1>1, <2>1 DEF Leaving, InFlight
  <2> QED
    BY <1>1, <2>2 DEF ArchivesInv, StoredInv, RowsStored, Present
<1> QED
  BY <1>2, <1>3 DEF ArchivesInv, StoredInv

LEMMA ArchivesStart == BackupsInit => ArchivesInv
<1> SUFFICES ASSUME BackupsInit PROVE ArchivesInv
  OBVIOUS
<1>1. /\ databases[current] = RecordsOf(1..Retention) /\ Present = 1..Retention
      /\ \A j \in BackupSlot : jobs[j] = NoJob
  BY DEF BackupsInit, Present
<1>2. \A r \in RecordsOf(1..Retention) :
          r.file \in 1..Retention /\ r = [file |-> r.file, at |-> r.file, restore |-> FALSE]
  BY DEF RecordsOf
<1>3. OneRecordEach(databases[current])
  <2>1. \A r, s \in RecordsOf(1..Retention) : r.file = s.file => r = s
    BY <1>2
  <2> QED
    BY <1>1, <2>1 DEF OneRecordEach, WithFile
<1>4. RowsStored
  BY <1>1, <1>2, <1>3 DEF RowsStored, WithFile
<1> QED
  BY <1>1, <1>4 DEF ArchivesInv, FormInv, StoredInv, AddsInv

LEMMA ArchivesStep == BackupsInv /\ ArchivesInv /\ [BackupsNext]_backupVars => ArchivesInv'
<1> SUFFICES ASSUME BackupsInv, ArchivesInv, [BackupsNext]_backupVars PROVE ArchivesInv'
  OBVIOUS
<1>1. ASSUME NEW j \in BackupSlot, BeginBackup(j) \/ WriteArchive(j) \/ RecordBackup(j) PROVE ArchivesInv'
  BY <1>1, BeginArchived, WriteArchived, RecordArchived
<1>2. ASSUME NEW j \in BackupSlot, PruneArchives(j) \/ SyncRecords(j) \/ DeleteArchive(j) PROVE ArchivesInv'
  BY <1>2, PruneArchived, SyncArchived, DeleteArchived
<1>3. ASSUME NEW j \in BackupSlot, RestoreArchive(j) \/ CommitBackup(j) \/ TakeAgain(j) PROVE ArchivesInv'
  BY <1>3, RestoreArchived, CommitArchived, AgainArchived
<1>4. ASSUME NEW j \in BackupSlot, CloseSession(j) \/ Rollback(j) \/ OpenDoor(j) PROVE ArchivesInv'
  BY <1>4, EndArchived
<1>5. ASSUME NEW j \in BackupSlot, CloseDoor(j) \/ DisposePool(j) \/ RecreateDatabase(j) PROVE ArchivesInv'
  BY <1>5, CloseDoorArchived, DisposeArchived, RecreateArchived
<1>6. CASE RestartBackups
  BY <1>6, RestartArchived
<1>7. CASE UNCHANGED backupVars
  <2>1. UNCHANGED <<archives, databases, current, torn, jobs>>
    BY <1>7 DEF backupVars, storeVars
  <2>2. FormInv'
    BY <2>1 DEF ArchivesInv, FormInv
  <2>3. RowsStored' = RowsStored /\ AddsInv' = AddsInv
    BY <2>1 DEF RowsStored, AddsInv, Present
  <2> QED
    BY <2>1, <2>2, <2>3 DEF ArchivesInv, StoredInv
<1> QED
  BY <1>1, <1>2, <1>3, <1>4, <1>5, <1>6, <1>7 DEF BackupsNext

\* backup.py keeps files and rows apart, and unlinks before it commits. Whenever nobody is
\* in flight and none of the accidents of the property's comment has happened, each record
\* of an archive has its file: whatever the number of sessions, and however creations,
\* deletions, pruning, restores, resets, failed commits and restarts overlap.
THEOREM RecordsCorrect == BackupsSpec => []RecordsHaveArchives
<1>1. ArchivesInv => RecordsHaveArchives
  <2> SUFFICES ASSUME ArchivesInv, InFlight = {}, ~torn
               PROVE  FilesOf(WithFile(databases[current])) \subseteq Present
    BY DEF RecordsHaveArchives
  <2>1. \A j \in BackupSlot : Leaving(jobs[j]) = {}
    BY DEF InFlight, Leaving, NoJob
  <2> QED
    BY <2>1 DEF ArchivesInv, StoredInv, RowsStored, FilesOf
<1> QED
  BY <1>1, BackupsStart, BackupsStep, ArchivesStart, ArchivesStep, PTL DEF BackupsSpec

---------------------------------------------------------------------------
(* Pruning *)

\* Counting archives takes that there are finitely many of everything.
ArchivesFinite == IsFiniteSet(Present) /\ \A f \in Present : IsFiniteSet(archives[f].holds)

RowsFinite == \A g \in DOMAIN databases : IsFiniteSet(databases[g])

JobFinite(b) == IsFiniteSet(b.add) /\ IsFiniteSet(b.drop)

JobsFinite ==
    /\ IsFiniteSet(InFlight)
    /\ \A j \in BackupSlot : jobs[j] # NoJob => JobFinite(jobs[j])

FiniteInv == ArchivesFinite /\ RowsFinite /\ JobsFinite

LEMMA ImageFinite ==
    ASSUME NEW S, NEW f, f = [x \in S |-> f[x]], IsFiniteSet(S)
    PROVE  IsFiniteSet({f[x] : x \in S})
<1> DEFINE T == {f[x] : x \in S}
<1>1. f \in Surjection(S, T)
  BY DEF Surjection
<1> HIDE DEF T
<1>2. IsFiniteSet(T)
  BY <1>1, FS_Surjection
<1> QED
  BY <1>2 DEF T

LEMMA FilesFinite ==
    ASSUME NEW records, IsFiniteSet(records)
    PROVE  IsFiniteSet(FilesOf(records))
<1> DEFINE f == [r \in records |-> r.file]
<1>1. f = [r \in records |-> f[r]] /\ FilesOf(records) = {f[r] : r \in records}
  BY DEF FilesOf
<1> HIDE DEF f
<1> QED
  BY <1>1, ImageFinite

LEMMA JobsFiniteStep ==
    ASSUME JobsTyped, JobsFinite, NEW j \in BackupSlot, NEW b, jobs' = [jobs EXCEPT ![j] = b],
           b = NoJob \/ JobFinite(b)
    PROVE  JobsFinite'
<1>1. jobs'[j] = b /\ \A i \in BackupSlot \ {j} : jobs'[i] = jobs[i]
  BY OnePlace
<1>2. InFlight' \subseteq InFlight \cup {j}
  BY <1>1 DEF InFlight
<1>3. IsFiniteSet(InFlight \cup {j})
  BY FS_AddElement DEF JobsFinite
<1>4. IsFiniteSet(InFlight')
  BY <1>2, <1>3, FS_Subset
<1> QED
  BY <1>1, <1>4 DEF JobsFinite

LEMMA BeginFinite ==
    ASSUME BackupsInv, FiniteInv, NEW j \in BackupSlot, BeginBackup(j) PROVE FiniteInv'
<1> DEFINE named == [file : Present \cup {Daily} \cup UploadName, at : {0}, restore : {FALSE}]
           job(kind, r) ==
               [phase |-> FirstPhase(kind), kind |-> kind, record |-> r,
                gen |-> Checkout, pooled |-> TRUE,
                seen |-> IF kind \in {"remove", "refile"} THEN FilesOf(databases[Checkout]) ELSE {},
                add |-> {}, drop |-> {}]
<1>1. PICK kind \in BackupKinds, r \in databases[Checkout] \cup named :
          jobs' = [jobs EXCEPT ![j] = job(kind, r)]
  BY DEF BeginBackup
<1>2. UNCHANGED <<archives, databases>> /\ JobsTyped
  BY DEF BeginBackup, storeVars, BackupsInv, StoreTyped
<1> DEFINE b == job(kind, r)
<1>3. JobFinite(b)
  BY FS_EmptySet DEF JobFinite
<1>4. jobs' = [jobs EXCEPT ![j] = b]
  BY <1>1
<1> HIDE DEF named, b
<1>5. JobsFinite'
  BY <1>2, <1>3, <1>4, JobsFiniteStep DEF FiniteInv
<1> QED
  BY <1>2, <1>5 DEF FiniteInv, ArchivesFinite, RowsFinite, Present

\* Steps of a session that has flushed and unlinked what it had before, or is over.
LEMMA SameFinite ==
    ASSUME BackupsInv, FiniteInv, NEW j \in BackupSlot,
           \/ WriteArchive(j) \/ TakeAgain(j) \/ CloseDoor(j) \/ CloseSession(j)
           \/ Rollback(j) \/ OpenDoor(j) \/ RestoreArchive(j) \/ RecreateDatabase(j)
           \/ CommitBackup(j)
    PROVE  JobsFinite'
<1>1. JobsTyped /\ jobs[j].phase \in JobPhase
  BY DEF BackupsInv, StoreTyped, JobPhase, ResetPhase, WriteArchive, TakeAgain, CloseDoor, CloseSession,
         Rollback, OpenDoor, RestoreArchive, RecreateDatabase, CommitBackup
<1>2. jobs[j] # NoJob /\ jobs[j] \in JobSet
  BY <1>1, InFlightTyped DEF BackupsInv
<1>3. JobsFinite /\ JobFinite(jobs[j])
  BY <1>2 DEF FiniteInv, JobsFinite
<1> DEFINE fine(b) == b.add = jobs[j].add /\ b.drop = jobs[j].drop
<1>4. \E b : (b = NoJob \/ fine(b)) /\ jobs' = [jobs EXCEPT ![j] = b]
  <2>1. CASE jobs' = [jobs EXCEPT ![j] = NoJob]
    BY <2>1
  <2>2. CASE WriteArchive(j)
    <3> DEFINE name == IF jobs[j].kind = "daily" THEN Daily ELSE stamp
               row == [file |-> name, at |-> stamp, restore |-> FALSE]
               next == IF jobs[j].phase = "write" THEN "flush" ELSE "dispose"
               b == [jobs[j] EXCEPT !.phase = next, !.record = row]
    <3>1. jobs' = [jobs EXCEPT ![j] = b]
      BY <1>1, <2>2 DEF WriteArchive, JobsTyped
    <3> HIDE DEF row, next
    <3>2. fine(b)
      BY <1>2 DEF JobSet
    <3> QED
      BY <3>1, <3>2
  <2>3. CASE TakeAgain(j)
    <3> DEFINE b == [jobs[j] EXCEPT !.phase = "close", !.pooled = TRUE, !.gen = Checkout]
    <3>1. jobs' = [jobs EXCEPT ![j] = b]
      BY <1>1, <2>3 DEF TakeAgain, JobsTyped
    <3>2. fine(b)
      BY <1>2 DEF JobSet
    <3> QED
      BY <3>1, <3>2
  <2>4. CASE RestoreArchive(j)
    <3> DEFINE row == [file |-> jobs[j].record.file, at |-> stamp, restore |-> TRUE]
               b == [jobs[j] EXCEPT !.phase = "flush", !.record = row]
    <3>1. jobs' = [jobs EXCEPT ![j] = b]
      BY <1>1, <2>4 DEF RestoreArchive, JobsTyped
    <3> HIDE DEF row
    <3>2. fine(b)
      BY <1>2 DEF JobSet
    <3> QED
      BY <3>1, <3>2
  <2>5. CASE CloseDoor(j) \/ RecreateDatabase(j)
    <3>1. PICK next : jobs' = [jobs EXCEPT ![j].phase = next]
      BY <2>5 DEF CloseDoor, RecreateDatabase, Goes
    <3> DEFINE b == [jobs[j] EXCEPT !.phase = next]
    <3>2. jobs' = [jobs EXCEPT ![j] = b]
      BY <1>1, <3>1 DEF JobsTyped
    <3>3. fine(b)
      BY <1>2 DEF JobSet
    <3> QED
      BY <3>2, <3>3
  <2>6. CASE CommitBackup(j)
    <3> DEFINE b == [jobs[j] EXCEPT !.phase = "again", !.pooled = FALSE]
    <3>1. jobs' = [jobs EXCEPT ![j] = b] \/ jobs' = [jobs EXCEPT ![j] = NoJob]
      BY <1>1, <2>6 DEF CommitBackup, JobsTyped, Ends
    <3>2. fine(b)
      BY <1>2 DEF JobSet
    <3> HIDE DEF b
    <3> QED
      BY <2>1, <3>1, <3>2
  <2>7. CASE CloseSession(j) \/ Rollback(j) \/ OpenDoor(j)
    BY <2>1, <2>7 DEF CloseSession, Rollback, OpenDoor, Ends
  <2> QED
    BY <2>2, <2>3, <2>4, <2>5, <2>6, <2>7
<1>5. PICK b : (b = NoJob \/ fine(b)) /\ jobs' = [jobs EXCEPT ![j] = b]
  BY <1>4
<1>6. b = NoJob \/ JobFinite(b)
  BY <1>3, <1>5 DEF JobFinite
<1> QED
  BY <1>1, <1>3, <1>5, <1>6, JobsFiniteStep

LEMMA WriteFinite ==
    ASSUME BackupsInv, FiniteInv, NEW j \in BackupSlot, WriteArchive(j) PROVE FiniteInv'
<1> DEFINE name == IF jobs[j].kind = "daily" THEN Daily ELSE stamp
           entry == [at |-> stamp, holds |-> databases[current]]
<1>1. /\ archives' = [f \in Present \cup {name} |-> IF f = name THEN entry ELSE archives[f]]
      /\ UNCHANGED databases
  BY DEF WriteArchive
<1>2. IsFiniteSet(entry.holds)
  BY DEF BackupsInv, StoreTyped, FilesTyped, FiniteInv, RowsFinite
<1>3. IsFiniteSet(Present \cup {name})
  BY FS_AddElement DEF FiniteInv, ArchivesFinite
<1> HIDE DEF entry, name
<1>4. Present' = Present \cup {name}
  BY <1>1 DEF Present
<1>5. \A f \in Present' : archives'[f] = IF f = name THEN entry ELSE archives[f]
  BY <1>1, <1>4
<1>6. ArchivesFinite'
  BY <1>2, <1>3, <1>4, <1>5 DEF FiniteInv, ArchivesFinite
<1> QED
  BY <1>1, <1>6, SameFinite DEF FiniteInv, RowsFinite

\* Steps of a session that leave files and rows alone.
LEMMA AloneFinite ==
    ASSUME BackupsInv, FiniteInv, NEW j \in BackupSlot,
           TakeAgain(j) \/ CloseDoor(j) \/ CloseSession(j) \/ Rollback(j) \/ OpenDoor(j)
    PROVE  FiniteInv'
<1>1. UNCHANGED <<archives, databases>>
  BY DEF TakeAgain, CloseDoor, CloseSession, Rollback, OpenDoor, storeVars
<1> QED
  BY <1>1, SameFinite DEF FiniteInv, ArchivesFinite, RowsFinite, Present

LEMMA ReplaceFinite ==
    ASSUME BackupsInv, FiniteInv, NEW j \in BackupSlot, RestoreArchive(j) \/ RecreateDatabase(j)
    PROVE  FiniteInv'
<1>1. databases \in Seq(SUBSET RowSet)
  BY DEF BackupsInv, StoreTyped, FilesTyped
<1>2. \E holds : IsFiniteSet(holds) /\ databases' = Append(databases, holds)
  <2>1. CASE RestoreArchive(j)
    <3> DEFINE holds == IF jobs[j].kind = "upload" THEN {} ELSE archives[jobs[j].record.file].holds
    <3>1. databases' = Append(databases, holds) /\ (jobs[j].kind = "upload" \/ jobs[j].record.file \in Present)
      BY <2>1 DEF RestoreArchive
    <3>2. IsFiniteSet(holds)
      BY <3>1, FS_EmptySet DEF FiniteInv, ArchivesFinite
    <3> QED
      BY <3>1, <3>2
  <2>2. CASE RecreateDatabase(j)
    BY <2>2, FS_EmptySet DEF RecreateDatabase
  <2> QED
    BY <2>1, <2>2
<1>3. PICK holds : IsFiniteSet(holds) /\ databases' = Append(databases, holds)
  BY <1>2
<1>4. RowsFinite'
  <2>1. \A g \in DOMAIN databases' : databases'[g] = holds \/ (g \in DOMAIN databases /\ databases'[g] = databases[g])
    BY <1>1, <1>3
  <2> QED
    BY <1>3, <2>1 DEF FiniteInv, RowsFinite
<1>5. UNCHANGED archives
  BY DEF RestoreArchive, RecreateDatabase
<1> QED
  BY <1>4, <1>5, SameFinite DEF FiniteInv, ArchivesFinite, Present

LEMMA CommitFinite ==
    ASSUME BackupsInv, FiniteInv, NEW j \in BackupSlot, CommitBackup(j) PROVE FiniteInv'
<1> DEFINE rows == (databases[jobs[j].gen] \cup jobs[j].add) \ jobs[j].drop
<1>1. StoreTyped /\ jobs[j].phase = "commit"
  BY DEF BackupsInv, CommitBackup
<1>2. jobs[j] # NoJob /\ jobs[j].gen \in DOMAIN databases
  BY <1>1, InFlightTyped DEF JobPhase
<1>3. IsFiniteSet(databases[jobs[j].gen]) /\ IsFiniteSet(jobs[j].add)
  BY <1>2 DEF FiniteInv, RowsFinite, JobsFinite, JobFinite
<1>4. IsFiniteSet(rows)
  BY <1>3, FS_Union, FS_Difference
<1>5. databases' = [databases EXCEPT ![jobs[j].gen] = rows] /\ UNCHANGED archives
  BY DEF CommitBackup
<1> HIDE DEF rows
<1>6. RowsFinite'
  <2>1. DOMAIN databases' = DOMAIN databases
        /\ \A g \in DOMAIN databases : databases'[g] = rows \/ databases'[g] = databases[g]
    BY <1>1, <1>2, <1>5 DEF StoreTyped, FilesTyped
  <2> QED
    BY <1>4, <2>1 DEF FiniteInv, RowsFinite
<1> QED
  BY <1>5, <1>6, SameFinite DEF FiniteInv, ArchivesFinite, Present

\* Steps of a session that flushes rows of its own and leaves files and rows alone.
LEMMA FlushFinite ==
    ASSUME BackupsInv, FiniteInv, NEW j \in BackupSlot, RecordBackup(j) \/ SyncRecords(j)
    PROVE  FiniteInv'
<1>1. UNCHANGED <<archives, databases>> /\ jobs[j].phase \in {"flush", "sync"} /\ JobsTyped
  BY DEF RecordBackup, SyncRecords, storeVars, BackupsInv, StoreTyped
<1>2. jobs[j] # NoJob /\ jobs[j] \in JobSet
  BY <1>1, InFlightTyped DEF BackupsInv, JobPhase
<1>3. JobFinite(jobs[j]) /\ IsFiniteSet(Present)
  BY <1>2 DEF FiniteInv, JobsFinite, ArchivesFinite
<1>4. \E next, more : /\ IsFiniteSet(more)
                      /\ jobs' = [jobs EXCEPT ![j] = [jobs[j] EXCEPT !.add = more, !.phase = next]]
  <2>1. CASE RecordBackup(j)
    <3> DEFINE next == CASE jobs[j].kind \in {"create", "daily"} -> "prune"
                         [] jobs[j].kind = "export" -> "close"
                         [] OTHER -> "commit"
               more == jobs[j].add \cup {jobs[j].record}
    <3>1. jobs' = [jobs EXCEPT ![j] = [jobs[j] EXCEPT !.add = more, !.phase = next]]
      BY <1>1, <2>1 DEF RecordBackup, JobsTyped
    <3>2. IsFiniteSet(more)
      BY <1>3, FS_AddElement DEF JobFinite
    <3> HIDE DEF next, more
    <3> QED
      BY <3>1, <3>2
  <2>2. CASE SyncRecords(j)
    <3> DEFINE found == Present \ jobs[j].seen
               f == [n \in found |-> [file |-> n, at |-> archives[n].at, restore |-> FALSE]]
               more == {f[n] : n \in found}
    <3>1. more = {[file |-> n, at |-> archives[n].at, restore |-> FALSE] : n \in found}
      OBVIOUS
    <3>2. jobs' = [jobs EXCEPT ![j] = [jobs[j] EXCEPT !.phase = "act", !.add = more]]
      BY <1>1, <2>2, <3>1 DEF SyncRecords, JobsTyped
    <3>3. IsFiniteSet(found)
      BY <1>3, FS_Difference
    <3>4. f = [n \in found |-> f[n]]
      OBVIOUS
    <3> HIDE DEF f, found
    <3>5. IsFiniteSet(more)
      BY <3>3, <3>4, ImageFinite
    <3> HIDE DEF more
    <3>6. jobs' = [jobs EXCEPT ![j] = [jobs[j] EXCEPT !.add = more, !.phase = "act"]]
      BY <1>2, <3>2 DEF JobSet
    <3> QED
      BY <3>5, <3>6
  <2> QED
    BY <2>1, <2>2
<1>5. PICK next, more : /\ IsFiniteSet(more)
                        /\ jobs' = [jobs EXCEPT ![j] = [jobs[j] EXCEPT !.add = more, !.phase = next]]
  BY <1>4
<1> DEFINE b == [jobs[j] EXCEPT !.add = more, !.phase = next]
<1>6. b.add = more /\ b.drop = jobs[j].drop
  BY <1>2 DEF JobSet
<1>7. jobs' = [jobs EXCEPT ![j] = b]
  BY <1>5
<1> HIDE DEF b
<1>8. JobFinite(b)
  BY <1>3, <1>5, <1>6 DEF JobFinite
<1>9. JobsFinite'
  BY <1>1, <1>7, <1>8, JobsFiniteStep DEF FiniteInv
<1> QED
  BY <1>1, <1>9 DEF FiniteInv, ArchivesFinite, RowsFinite, Present

LEMMA VisibleFinite ==
    ASSUME FiniteInv, StoreTyped, NEW j \in BackupSlot, jobs[j].phase \in JobPhase
    PROVE  IsFiniteSet(Visible(j)) /\ Visible(j) \subseteq RowSet
<1>1. jobs[j] # NoJob /\ jobs[j] \in JobSet /\ jobs[j].gen \in DOMAIN databases
  BY InFlightTyped
<1>2. IsFiniteSet(databases[jobs[j].gen]) /\ IsFiniteSet(jobs[j].add)
  BY <1>1 DEF FiniteInv, RowsFinite, JobsFinite, JobFinite
<1>3. databases[jobs[j].gen] \subseteq RowSet /\ jobs[j].add \subseteq RowSet
  BY <1>1, RowsTyped DEF JobSet
<1> QED
  BY <1>2, <1>3, FS_Union DEF Visible

LEMMA UnlinkFinite ==
    ASSUME BackupsInv, FiniteInv, NEW j \in BackupSlot, PruneArchives(j) \/ DeleteArchive(j)
    PROVE  FiniteInv'
<1>1. UNCHANGED databases /\ jobs[j].phase \in {"prune", "act"} /\ JobsTyped /\ StoreTyped
  BY DEF PruneArchives, DeleteArchive, BackupsInv, StoreTyped
<1>2. jobs[j] # NoJob /\ jobs[j] \in JobSet /\ jobs[j].phase \in JobPhase
  BY <1>1, InFlightTyped DEF JobPhase
<1>3. JobFinite(jobs[j])
  BY <1>2 DEF FiniteInv, JobsFinite
<1>4. IsFiniteSet(Visible(j))
  BY <1>1, <1>2, VisibleFinite
<1>5. \E next, drop : \E gone :
          /\ IsFiniteSet(drop) /\ archives' = Without(gone)
          /\ jobs' = [jobs EXCEPT ![j] = [jobs[j] EXCEPT !.drop = drop, !.phase = next]]
  <2>1. CASE PruneArchives(j)
    <3> DEFINE drop == Surplus(Visible(j))
               next == CyclePhase(jobs[j].kind, drop)
    <3>1. /\ archives' = Without(FilesOf(drop))
          /\ jobs' = [jobs EXCEPT ![j] = [jobs[j] EXCEPT !.drop = drop, !.phase = next]]
      BY <1>1, <2>1 DEF PruneArchives, JobsTyped
    <3>2. drop \in SUBSET Visible(j)
      BY DEF Surplus, WithFile
    <3> HIDE DEF drop, next
    <3>3. IsFiniteSet(drop)
      BY <1>4, <3>2, FS_Subset
    <3> QED
      BY <3>1, <3>3
  <2>2. CASE DeleteArchive(j)
    <3> DEFINE drop == IF jobs[j].kind = "delete" THEN {jobs[j].record}
                       ELSE {r \in Visible(j) : r.file = jobs[j].record.file}
    <3>1. archives' = Without({jobs[j].record.file})
      BY <2>2 DEF DeleteArchive
    <3>2. jobs' = [jobs EXCEPT ![j] = [jobs[j] EXCEPT !.phase = "commit", !.drop = drop]]
      BY <1>1, <2>2 DEF DeleteArchive, JobsTyped
    <3>3. IsFiniteSet(drop)
      <4>1. {r \in Visible(j) : r.file = jobs[j].record.file} \in SUBSET Visible(j)
        OBVIOUS
      <4> QED
        BY <1>4, <4>1, FS_Subset, FS_Singleton
    <3> HIDE DEF drop
    <3>4. jobs' = [jobs EXCEPT ![j] = [jobs[j] EXCEPT !.drop = drop, !.phase = "commit"]]
      BY <1>2, <3>2 DEF JobSet
    <3> QED
      BY <3>1, <3>3, <3>4
  <2> QED
    BY <2>1, <2>2
<1>6. PICK next, drop : \E gone :
          /\ IsFiniteSet(drop) /\ archives' = Without(gone)
          /\ jobs' = [jobs EXCEPT ![j] = [jobs[j] EXCEPT !.drop = drop, !.phase = next]]
  BY <1>5
<1>7. PICK gone : archives' = Without(gone)
  BY <1>6
<1> DEFINE b == [jobs[j] EXCEPT !.drop = drop, !.phase = next]
<1>8. b.add = jobs[j].add /\ b.drop = drop
  BY <1>2 DEF JobSet
<1>9. jobs' = [jobs EXCEPT ![j] = b]
  BY <1>6
<1> HIDE DEF b
<1>10. JobFinite(b)
  BY <1>3, <1>6, <1>8 DEF JobFinite
<1>11. JobsFinite'
  BY <1>1, <1>9, <1>10, JobsFiniteStep DEF FiniteInv
<1>12. ArchivesFinite'
  <2>1. Present' = Present \ gone /\ \A f \in Present' : f \in Present /\ archives'[f] = archives[f]
    BY <1>7 DEF Without, Present
  <2>2. IsFiniteSet(Present \ gone)
    BY FS_Difference DEF FiniteInv, ArchivesFinite
  <2> QED
    BY <2>1, <2>2 DEF FiniteInv, ArchivesFinite
<1> QED
  BY <1>1, <1>11, <1>12 DEF FiniteInv, RowsFinite

LEMMA DisposeFinite ==
    ASSUME BackupsInv, FiniteInv, NEW j \in BackupSlot, DisposePool(j) PROVE FiniteInv'
<1> DEFINE kept(i) == [jobs[i] EXCEPT !.pooled = FALSE, !.phase = IF i = j THEN "recreate" ELSE @]
<1>1. UNCHANGED <<archives, databases>>
      /\ jobs' = [i \in BackupSlot |-> IF jobs[i] = NoJob THEN NoJob ELSE kept(i)]
  BY DEF DisposePool, storeVars
<1>2. \A i \in BackupSlot : jobs[i] # NoJob => jobs[i] \in JobSet
  BY DEF BackupsInv, StoreTyped, JobsTyped, SlotTyped
<1>3. ASSUME NEW i \in BackupSlot, jobs[i] # NoJob
      PROVE  kept(i).add = jobs[i].add /\ kept(i).drop = jobs[i].drop
  <2>1. jobs[i] \in JobSet
    BY <1>2, <1>3
  <2> DEFINE next == IF i = j THEN "recreate" ELSE jobs[i].phase
  <2>2. kept(i) = [jobs[i] EXCEPT !.pooled = FALSE, !.phase = next]
    BY <2>1 DEF JobSet
  <2> HIDE DEF next
  <2> QED
    BY <2>1, <2>2 DEF JobSet
<1> HIDE DEF kept
<1>4. \A i \in BackupSlot : jobs'[i] = IF jobs[i] = NoJob THEN NoJob ELSE kept(i)
  BY <1>1
<1>5. InFlight' \subseteq InFlight
  BY <1>4 DEF InFlight
<1>6. IsFiniteSet(InFlight')
  BY <1>5, FS_Subset DEF FiniteInv, JobsFinite
<1>7. \A i \in BackupSlot : jobs'[i] # NoJob => JobFinite(jobs'[i])
  BY <1>3, <1>4 DEF FiniteInv, JobsFinite, JobFinite
<1> QED
  BY <1>1, <1>6, <1>7 DEF FiniteInv, JobsFinite, ArchivesFinite, RowsFinite, Present

LEMMA RestartFinite == ASSUME FiniteInv, RestartBackups PROVE FiniteInv'
<1>1. UNCHANGED <<archives, databases>> /\ \A j \in BackupSlot : jobs'[j] = NoJob
  BY DEF RestartBackups
<1>2. InFlight' = {}
  BY <1>1 DEF InFlight
<1>3. IsFiniteSet(InFlight')
  BY <1>2, FS_EmptySet
<1> QED
  BY <1>1, <1>3 DEF FiniteInv, JobsFinite, ArchivesFinite, RowsFinite, Present

LEMMA FiniteStart == BackupsInit => FiniteInv
<1> SUFFICES ASSUME BackupsInit PROVE FiniteInv
  OBVIOUS
<1>1. \A n \in Nat : IsFiniteSet(RecordsOf(1..n))
  <2> SUFFICES ASSUME NEW n \in Nat PROVE IsFiniteSet(RecordsOf(1..n))
    OBVIOUS
  <2> DEFINE f == [t \in 1..n |-> [file |-> t, at |-> t, restore |-> FALSE]]
  <2>1. f = [t \in 1..n |-> f[t]] /\ RecordsOf(1..n) = {f[t] : t \in 1..n}
    BY DEF RecordsOf
  <2>2. IsFiniteSet(1..n)
    BY FS_Interval
  <2> HIDE DEF f
  <2> QED
    BY <2>1, <2>2, ImageFinite
<1>2. Retention \in Nat /\ \A f \in 1..Retention : f - 1 \in Nat
  BY BackupsAssumption
<1>3. ArchivesFinite
  <2>1. Present = 1..Retention /\ \A f \in Present : archives[f].holds = RecordsOf(1..f - 1)
    BY DEF BackupsInit, Present
  <2>2. IsFiniteSet(1..Retention)
    BY <1>2, FS_Interval
  <2> QED
    BY <1>1, <1>2, <2>1, <2>2 DEF ArchivesFinite
<1>4. RowsFinite
  BY <1>1, <1>2 DEF RowsFinite, BackupsInit
<1>5. \A j \in BackupSlot : jobs[j] = NoJob
  BY DEF BackupsInit
<1>6. InFlight = {}
  BY <1>5 DEF InFlight
<1>7. JobsFinite
  BY <1>5, <1>6, FS_EmptySet DEF JobsFinite
<1> QED
  BY <1>3, <1>4, <1>7 DEF FiniteInv

LEMMA FiniteStep == BackupsInv /\ FiniteInv /\ [BackupsNext]_backupVars => FiniteInv'
<1> SUFFICES ASSUME BackupsInv, FiniteInv, [BackupsNext]_backupVars PROVE FiniteInv'
  OBVIOUS
<1>1. ASSUME NEW j \in BackupSlot, BeginBackup(j) \/ WriteArchive(j) PROVE FiniteInv'
  BY <1>1, BeginFinite, WriteFinite
<1>2. ASSUME NEW j \in BackupSlot, RecordBackup(j) \/ SyncRecords(j) PROVE FiniteInv'
  BY <1>2, FlushFinite
<1>3. ASSUME NEW j \in BackupSlot, PruneArchives(j) \/ DeleteArchive(j) PROVE FiniteInv'
  BY <1>3, UnlinkFinite
<1>4. ASSUME NEW j \in BackupSlot,
             TakeAgain(j) \/ CloseDoor(j) \/ CloseSession(j) \/ Rollback(j) \/ OpenDoor(j)
      PROVE  FiniteInv'
  BY <1>4, AloneFinite
<1>5. ASSUME NEW j \in BackupSlot, RestoreArchive(j) \/ RecreateDatabase(j) PROVE FiniteInv'
  BY <1>5, ReplaceFinite
<1>6. ASSUME NEW j \in BackupSlot, CommitBackup(j) \/ DisposePool(j) PROVE FiniteInv'
  BY <1>6, CommitFinite, DisposeFinite
<1>7. CASE RestartBackups
  BY <1>7, RestartFinite
<1>8. CASE UNCHANGED backupVars
  <2>1. UNCHANGED <<archives, databases, jobs>>
    BY <1>8 DEF backupVars, storeVars
  <2> QED
    BY <2>1 DEF FiniteInv, JobsFinite, ArchivesFinite, RowsFinite, Present, InFlight
<1> QED
  BY <1>1, <1>2, <1>3, <1>4, <1>5, <1>6, <1>7, <1>8 DEF BackupsNext

\* Of the rows that pruning takes away, one has no newer row that is taken away too.
LEMMA NewestDropped ==
    ASSUME NEW rows, IsFiniteSet(rows), rows \subseteq RowSet,
           NEW drop, drop \subseteq rows, drop # {}
    PROVE  \E r \in drop : \A s \in drop : ~(s.at > r.at)
<1> DEFINE newer(r) == {s \in rows : s.at > r.at}
           T == {newer(r) : r \in drop}
           R == StrictSubsetOrdering(rows)
           S == FiniteSubsetsOf(rows)
<1>1. T \subseteq S
  <2>1. \A r \in drop : newer(r) \in SUBSET rows
    OBVIOUS
  <2>2. \A r \in drop : IsFiniteSet(newer(r))
    BY <2>1, FS_Subset
  <2> QED
    BY <2>1, <2>2 DEF FiniteSubsetsOf
<1>2. T # {}
  OBVIOUS
<1>3. IsWellFoundedOn(R, S)
  BY FS_StrictSubsetOrderingWellFounded
<1>4. \E x \in T : \A y \in T : <<y, x>> \notin R
  <2> HIDE DEF R, S, T
  <2> QED
    BY <1>1, <1>2, <1>3, WFMin
<1>5. PICK r \in drop : \A y \in T : <<y, newer(r)>> \notin R
  BY <1>4
<1>6. ASSUME NEW s \in drop, s.at > r.at PROVE FALSE
  <2>1. s \in rows /\ \A t \in rows : t.at \in Nat
    BY DEF RowSet
  <2>2. newer(s) \subseteq newer(r) /\ s \in newer(r) /\ s \notin newer(s)
    BY <1>6, <2>1
  <2>3. <<newer(s), newer(r)>> \in R
    BY <2>2 DEF StrictSubsetOrdering
  <2> QED
    BY <1>5, <2>3
<1> QED
  BY <1>6

LEMMA DeletingFinite == ASSUME FiniteInv PROVE IsFiniteSet(Deleting)
<1> DEFINE f == [j \in InFlight |-> FilesOf(jobs[j].drop)]
<1>1. f = [j \in InFlight |-> f[j]] /\ Deleting = UNION {f[j] : j \in InFlight}
  BY DEF Deleting
<1>2. \A j \in InFlight : IsFiniteSet(f[j])
  BY FilesFinite DEF FiniteInv, JobsFinite, JobFinite, InFlight
<1> HIDE DEF f
<1>3. IsFiniteSet({f[j] : j \in InFlight})
  BY <1>1, ImageFinite DEF FiniteInv, JobsFinite
<1> QED
  BY <1>1, <1>2, <1>3, FS_UNION

LEMMA PruneEnough ==
    ASSUME BackupsInv, ArchivesInv, FiniteInv, NEW j \in BackupSlot, PruneArchives(j),
           Present' # Present, ~torn'
    PROVE  Cardinality(Present' \cup Deleting) >= Retention
<1> DEFINE rows == WithFile(Visible(j))
           drop == Surplus(Visible(j))
           newer(r) == {s \in rows : s.at > r.at}
<1>1. StoreTyped /\ jobs[j].phase = "prune" /\ jobs[j].phase \in JobPhase
  BY DEF BackupsInv, PruneArchives, JobPhase
<1>2. jobs[j] # NoJob
  BY <1>1, InFlightTyped
<1>3. /\ Present' = Present \ FilesOf(drop)
      /\ ~torn /\ (drop # {} => OwnFiles(j, FilesOf(drop)))
  <2>1. archives' = Without(FilesOf(drop)) /\ torn' = (torn \/ (drop # {} /\ ~OwnFiles(j, FilesOf(drop))))
    BY DEF PruneArchives
  <2> HIDE DEF drop
  <2> QED
    BY <2>1 DEF Without, Present
<1>4. drop # {} /\ jobs[j].gen = current
  BY <1>3 DEF FilesOf, OwnFiles
<1>5. RowsStored /\ AddsStored(jobs[j], databases[current], Present)
  BY <1>2, <1>3, <1>4 DEF ArchivesInv, StoredInv, AddsInv
<1>6. OneRecordEach(Visible(j))
  BY <1>1, <1>4, <1>5, VisibleOnce
<1>7. IsFiniteSet(rows) /\ rows \subseteq RowSet
  <2>1. IsFiniteSet(Visible(j)) /\ Visible(j) \subseteq RowSet /\ rows \in SUBSET Visible(j)
    BY <1>1, VisibleFinite DEF WithFile
  <2> QED
    BY <2>1, FS_Subset
<1>8. drop = {r \in rows : Cardinality(newer(r)) >= Retention}
  BY DEF Surplus
<1>9. PICK r \in drop : \A s \in drop : ~(s.at > r.at)
  <2>1. drop \subseteq rows
    BY <1>8
  <2> HIDE DEF drop, rows
  <2> QED
    BY <1>4, <1>7, <2>1, NewestDropped
<1>10. Cardinality(newer(r)) >= Retention /\ newer(r) \subseteq rows \ drop
  BY <1>8, <1>9
<1> HIDE DEF drop
<1>11. ASSUME NEW s \in newer(r) PROVE s.file \in Present' \cup Deleting
  <2>1. s \in rows /\ s \notin drop
    BY <1>10, <1>11
  <2>2. s.file \notin FilesOf(drop)
    <3>1. \A t \in drop : t \in rows
      BY <1>8
    <3>2. \A t \in drop : t.file # s.file
      BY <1>6, <2>1, <3>1 DEF OneRecordEach
    <3> QED
      BY <3>2 DEF FilesOf
  <2>3. CASE s.file \in Present
    BY <1>3, <2>2, <2>3
  <2>4. CASE s.file \notin Present
    <3>1. Leaving(jobs[j]) = {}
      BY <1>1, NoneLeaving
    <3>2. s \in WithFile(databases[current])
      BY <1>4, <1>5, <2>1, <2>4, <3>1 DEF AddsStored, Visible, WithFile
    <3>3. PICK i \in BackupSlot : s \in Leaving(jobs[i])
      BY <1>5, <2>4, <3>2 DEF RowsStored
    <3>4. i \in InFlight /\ s \in jobs[i].drop
      BY <3>3 DEF Leaving, InFlight, NoJob
    <3> QED
      BY <3>4 DEF Deleting, FilesOf
  <2> QED
    BY <2>3, <2>4
<1>12. IsFiniteSet(Present' \cup Deleting)
  <2>1. IsFiniteSet(Present \ FilesOf(drop))
    BY FS_Difference DEF FiniteInv, ArchivesFinite
  <2> QED
    BY <1>3, <2>1, DeletingFinite, FS_Union
<1>13. Cardinality(newer(r)) <= Cardinality(Present' \cup Deleting)
  <2> DEFINE f == [s \in newer(r) |-> s.file]
  <2>1. \A s, t \in newer(r) : s.file = t.file => s = t
    BY <1>6, <1>10 DEF OneRecordEach
  <2>2. \A s \in newer(r) : s.file \in Present' \cup Deleting
    BY <1>11
  <2> DEFINE N == newer(r)
             P == Present' \cup Deleting
  <2>3. f = [s \in N |-> f[s]] /\ \A s \in N : f[s] = s.file
    OBVIOUS
  <2>4. (\A s \in N : s.file \in P) /\ (\A s, t \in N : s.file = t.file => s = t)
    BY <2>1, <2>2
  <2> HIDE DEF newer, f, N, P
  <2>5. f \in Injection(N, P)
    BY <2>3, <2>4 DEF Injection, IsInjective
  <2>6. IsFiniteSet(P)
    BY <1>12 DEF P
  <2>7. Cardinality(N) <= Cardinality(P)
    BY <2>5, <2>6, FS_Injection
  <2> QED
    BY <2>7 DEF N, P
<1>14. Cardinality(newer(r)) \in Nat /\ Cardinality(Present' \cup Deleting) \in Nat
  <2>1. newer(r) \in SUBSET rows
    OBVIOUS
  <2>2. IsFiniteSet(newer(r))
    BY <1>7, <2>1, FS_Subset
  <2> HIDE DEF newer
  <2> QED
    BY <1>12, <2>2, FS_CardinalityType
<1> HIDE DEF newer
<1> QED
  BY <1>10, <1>13, <1>14, BackupsAssumption

\* prune_backup_files keeps the newest archives of those that have a record: whatever the
\* number of sessions and the retention, pruning leaves at least as many archives as the
\* operator asked for, those whose deletion another session has not committed yet included.
THEOREM PruningCorrect == BackupsSpec => PruneKeepsEnough
<1> DEFINE Enough ==
        (\E j \in BackupSlot : jobs[j] # NoJob /\ jobs[j].phase = "prune" /\ jobs'[j] # jobs[j]
                               /\ Present # DOMAIN archives')
        /\ ~torn' => Cardinality(DOMAIN archives' \cup Deleting) >= Retention
<1>1. BackupsInv /\ ArchivesInv /\ FiniteInv /\ [BackupsNext]_backupVars => [Enough]_backupVars
  <2> SUFFICES ASSUME BackupsInv, ArchivesInv, FiniteInv, [BackupsNext]_backupVars,
                      NEW j \in BackupSlot, jobs[j].phase = "prune", jobs'[j] # jobs[j],
                      Present # DOMAIN archives', ~torn'
               PROVE  Cardinality(DOMAIN archives' \cup Deleting) >= Retention
    OBVIOUS
  <2>1. archives' # archives /\ Present' = DOMAIN archives'
    BY DEF Present
  <2>2. \E i \in BackupSlot : WriteArchive(i) \/ PruneArchives(i) \/ DeleteArchive(i)
    <3>1. CASE UNCHANGED backupVars
      BY <2>1, <3>1 DEF backupVars, storeVars
    <3>2. CASE RestartBackups
      BY <2>1, <3>2 DEF RestartBackups
    <3>3. ASSUME NEW i \in BackupSlot,
                 \/ BeginBackup(i) \/ RecordBackup(i) \/ SyncRecords(i) \/ RestoreArchive(i)
                 \/ CommitBackup(i) \/ TakeAgain(i) \/ CloseSession(i) \/ Rollback(i)
                 \/ CloseDoor(i) \/ DisposePool(i) \/ RecreateDatabase(i) \/ OpenDoor(i)
          PROVE  FALSE
      BY <2>1, <3>3 DEF BeginBackup, RecordBackup, SyncRecords, RestoreArchive, CommitBackup, TakeAgain,
             CloseSession, Rollback, CloseDoor, DisposePool, RecreateDatabase, OpenDoor, storeVars
    <3> QED
      BY <3>1, <3>2, <3>3 DEF BackupsNext
  <2>3. PICK i \in BackupSlot : WriteArchive(i) \/ PruneArchives(i) \/ DeleteArchive(i)
    BY <2>2
  <2>4. \E b : jobs' = [jobs EXCEPT ![i] = b]
    <3>1. jobs = [k \in BackupSlot |-> jobs[k]]
      BY DEF BackupsInv, StoreTyped, JobsTyped
    <3> QED
      BY <2>3, <3>1 DEF WriteArchive, PruneArchives, DeleteArchive
  <2>5. i = j
    BY <2>4, OnePlace DEF BackupsInv, StoreTyped
  <2>6. PruneArchives(j)
    BY <2>3, <2>5 DEF WriteArchive, DeleteArchive
  <2> QED
    BY <2>1, <2>6, PruneEnough
<1> QED
  BY <1>1, BackupsStart, BackupsStep, ArchivesStart, ArchivesStep, FiniteStart, FiniteStep, PTL
     DEF BackupsSpec, PruneKeepsEnough

---------------------------------------------------------------------------
(* Devices *)

Resolving == cycle.phase \in {"candidates", "neighbours"}
\* The row of the device that a cycle resolves an address to, 0 for a new one
TargetOf(ip) == LET byMac == OneOf(ByMac(cycle.neigh[ip]))
              IN IF byMac # 0 THEN byMac ELSE OneOf(ByIp(ip))
Targets    == [ip \in DevIp |-> TargetOf(ip)]
Loaded(d)  == cycle.mem[d] # NoDevice
\* The rows as the cycle is going to leave them
Left == [d \in DevId |-> IF d \in cycle.dead THEN NoDevice ELSE Object(d)]

CycleType ==
    [phase: {"idle", "candidates", "neighbours", "reload"},
     neigh: [DevIp -> DevMac \cup {"none"}], here: SUBSET DevIp,
     seen: [Flow -> -1..MaxBytes], todo: SUBSET (Flow \cup DevIp),
     mem: [DevId -> Device \cup {NoDevice}], base: [DevId -> Device \cup {NoDevice}],
     dead: SUBSET DevId, dirty: BOOLEAN]

DevicesTyped ==
    /\ devices \in [DevId -> Device \cup {NoDevice}]
    /\ flows \in [Flow -> -1..MaxBytes]
    /\ overrides \subseteq DevIp \X (RouteTarget \ {"none"})
    /\ due \in BOOLEAN /\ overlap \in BOOLEAN /\ cycle \in CycleType
    /\ cycle.phase = "candidates" => \A f \in cycle.todo : f \in Flow /\ cycle.seen[f] >= 0
    /\ cycle.phase = "neighbours" => cycle.todo \subseteq DevIp

\* No two committed rows have one address, and a key made of an address is made of it.
AddressesApart ==
    /\ \A d, e \in Known : d # e => devices[d].ip # devices[e].ip
    /\ \A d \in Known : devices[d].key[1] = "ip" => devices[d].key = <<"ip", devices[d].ip>>

\* Where the cycle has put the rows
CyclePlaced == Resolving =>
    /\ \A d \in DevId \ Known : Loaded(d) =>
          /\ Targets[cycle.mem[d].ip] = 0
          /\ cycle.mem[d].key = NewRow(cycle.mem[d].ip, cycle.neigh[cycle.mem[d].ip]).key
    /\ \A d \in Known : Loaded(d) =>
          /\ cycle.mem[d].ip = devices[d].ip \/ Targets[cycle.mem[d].ip] = d
          /\ cycle.mem[d].key[1] = "ip" =>
               cycle.mem[d].ip = devices[d].ip /\ cycle.mem[d].key = <<"ip", cycle.mem[d].ip>>
    /\ \A d, e \in Known : d # e /\ Loaded(d) /\ cycle.mem[d].ip = devices[e].ip =>
          e \in cycle.dead \/ (Loaded(e) /\ cycle.mem[e].ip # devices[e].ip)
    /\ \A d \in cycle.dead : d \in Known /\ Targets[devices[d].ip] # d

\* What the cycle has done to the routes of devices
CycleRouted == Resolving /\ ~overlap =>
    /\ \A d \in DevId : cycle.base[d] \in {NoDevice, devices[d]}
    /\ \A d \in Known : Loaded(d) =>
          /\ cycle.mem[d].forced # devices[d].forced => Targets[cycle.mem[d].ip] = d
          /\ devices[d].forced # "none" => cycle.mem[d].forced # "none"
    /\ ~cycle.dirty =>
          /\ Overridden(Left) = Overridden(devices)
          /\ \A d \in Known : Loaded(d) /\ cycle.mem[d].ip # devices[d].ip =>
                /\ cycle.mem[d].forced = "none"
                /\ \A e \in Known : devices[e].ip = cycle.mem[d].ip => devices[e].forced = "none"

DevicesInv ==
    /\ DevicesTyped /\ AddressesApart /\ CyclePlaced /\ CycleRouted /\ OverridesCurrent

LEMMA NoDeviceApart == NoDevice \notin Device
BY DEF NoDevice, Device

LEMMA KnownDevice == ASSUME DevicesTyped, NEW d \in Known PROVE d \in DevId /\ devices[d] \in Device
BY DEF DevicesTyped, Known

LEMMA OneOfThem ==
    ASSUME NEW found, found \subseteq DevId
    PROVE  /\ OneOf(found) = 0 <=> found = {}
           /\ OneOf(found) # 0 => OneOf(found) \in found
<1>1. CASE found = {}
  BY <1>1 DEF OneOf
<1>2. CASE found # {}
  <2>1. PICK d : d \in found
    BY <1>2
  <2>2. (CHOOSE e \in found : TRUE) \in found
    BY <2>1
  <2>3. OneOf(found) \in found
    BY <1>2, <2>2 DEF OneOf
  <2>4. OneOf(found) # 0
    BY <2>3, DevicesAssumption
  <2> QED BY <1>2, <2>3, <2>4
<1> QED BY <1>1, <1>2

\* At an address there is one committed row at most.
LEMMA ByAddress ==
    ASSUME DevicesTyped, AddressesApart, NEW ip
    PROVE  /\ OneOf(ByIp(ip)) # 0 => OneOf(ByIp(ip)) \in Known /\ devices[OneOf(ByIp(ip))].ip = ip
           /\ \A e \in Known : devices[e].ip = ip => e = OneOf(ByIp(ip))
<1> DEFINE i == OneOf(ByIp(ip))
<1>1. ByIp(ip) \subseteq DevId /\ ByIp(ip) \subseteq Known
  BY DEF ByIp, Known
<1>2. (i = 0 <=> ByIp(ip) = {}) /\ (i # 0 => i \in ByIp(ip))
  BY <1>1, OneOfThem
<1>3. ASSUME NEW d \in ByIp(ip) PROVE devices[d].ip = ip
  <2>1. d \in Known /\ (devices[d].ip = ip \/ devices[d].key = <<"ip", ip>>)
    BY DEF ByIp
  <2>2. ASSUME devices[d].key = <<"ip", ip>> PROVE devices[d].ip = ip
    <3>1. devices[d].key[1] = "ip"
      BY <2>2
    <3>2. devices[d].key = <<"ip", devices[d].ip>>
      BY <2>1, <3>1 DEF AddressesApart
    <3>3. <<"ip", ip>>[2] = <<"ip", devices[d].ip>>[2]
      BY <2>2, <3>2
    <3> QED BY <3>3
  <2> QED BY <2>1, <2>2
<1>4. ASSUME NEW e \in Known, devices[e].ip = ip PROVE e = i
  <2>1. e \in ByIp(ip)
    BY <1>4 DEF ByIp
  <2>2. i \in ByIp(ip) /\ i \in Known /\ devices[i].ip = ip
    BY <1>1, <1>2, <1>3, <2>1
  <2> QED BY <1>4, <2>2 DEF AddressesApart
<1> HIDE DEF i
<1>5. i # 0 => i \in Known /\ devices[i].ip = ip
  BY <1>1, <1>2, <1>3
<1> QED BY <1>4, <1>5 DEF i

LEMMA TargetKnown ==
    ASSUME DevicesTyped, AddressesApart, NEW ip \in DevIp
    PROVE  /\ Targets[ip] # 0 => Targets[ip] \in Known
           /\ Targets[ip] = 0 => \A e \in Known : devices[e].ip # ip
<1>1. ByMac(cycle.neigh[ip]) \subseteq Known /\ Known \subseteq DevId
  BY DEF ByMac, Known
<1>2. /\ OneOf(ByMac(cycle.neigh[ip])) = 0 <=> ByMac(cycle.neigh[ip]) = {}
      /\ OneOf(ByMac(cycle.neigh[ip])) # 0 => OneOf(ByMac(cycle.neigh[ip])) \in Known
  BY <1>1, OneOfThem
<1>3. 0 \notin Known
  BY <1>1, DevicesAssumption
<1> QED BY <1>2, <1>3, ByAddress DEF Targets, TargetOf

\* A candidate without a row gets one.
MadeNew(ip, id, got) ==
    /\ Targets[ip] = 0 /\ id \in DevId \ Known /\ ~Loaded(id)
    /\ got \in Device /\ got.ip = ip /\ got.forced = "none"
    /\ got.key = NewRow(ip, cycle.neigh[ip]).key
    /\ cycle'.mem = [cycle.mem EXCEPT ![id] = got] /\ cycle'.base = cycle.base
    /\ cycle'.dead = cycle.dead \ {id} /\ cycle'.dirty = cycle.dirty

\* A candidate moves the row id to its address, where it takes the place of the row i.
MadeSeen(ip, id, i, got) ==
    /\ id = Targets[ip] /\ id \in Known /\ i = OneOf(ByIp(ip))
    /\ got \in Device /\ got.ip = ip
    /\ got.forced = IF i \notin {0, id} /\ Object(id).forced = "none" THEN Object(i).forced
                    ELSE Object(id).forced
    /\ got.key[1] = "ip" => i = id /\ got.key = Object(id).key
    /\ cycle'.mem = [e \in DevId |-> IF e = id THEN got
                                     ELSE IF e = i /\ ~Loaded(i) THEN devices[i] ELSE cycle.mem[e]]
    /\ \A e \in DevId : cycle'.base[e] \in {cycle.base[e], devices[e]}
    /\ cycle'.base \in [DevId -> Device \cup {NoDevice}]
    /\ cycle'.dead = (IF i \notin {0, id} THEN cycle.dead \cup {i} ELSE cycle.dead) \ {id}
    /\ cycle'.dirty = (cycle.dirty \/ (got.forced # "none" /\ Object(id).ip # ip))

\* The bytes of the rows that meet at an address
Gathered(id, i) == Object(id).total + (IF i \notin {0, id} THEN Object(i).total ELSE 0)

LEMMA ObjectType == ASSUME DevicesTyped, NEW d \in Known PROVE Object(d) \in Device
BY KnownDevice DEF DevicesTyped, CycleType, Object

LEMMA NewRowType ==
    ASSUME NEW ip \in DevIp, NEW mac \in DevMac \cup {"none"}
    PROVE  NewRow(ip, mac) \in Device
BY DEF NewRow, Device, RouteTarget

LEMMA MergedType ==
    ASSUME NEW a \in Device, NEW b \in Device
    PROVE  /\ MergedRow(a, b) \in Device
           /\ MergedRow(a, b).forced = IF a.forced = "none" THEN b.forced ELSE a.forced
           /\ MergedRow(a, b).key = a.key /\ MergedRow(a, b).total = a.total + b.total
<1>1. a = [mac |-> a.mac, ip |-> a.ip, key |-> a.key, forced |-> a.forced, total |-> a.total]
  BY DEF Device
<1>2. MergedRow(a, b) = [mac |-> a.mac, ip |-> a.ip, key |-> a.key,
                         forced |-> IF a.forced = "none" THEN b.forced ELSE a.forced,
                         total |-> a.total + b.total]
  <2> DEFINE to == IF a.forced = "none" THEN b.forced ELSE a.forced
  <2>1. MergedRow(a, b) = [a EXCEPT !.total = a.total + b.total, !.forced = to]
    BY <1>1 DEF MergedRow
  <2> HIDE DEF to
  <2>2. MergedRow(a, b) = [mac |-> a.mac, ip |-> a.ip, key |-> a.key, forced |-> to,
                           total |-> a.total + b.total]
    BY <1>1, <2>1
  <2> QED BY <2>2 DEF to
<1> QED BY <1>2 DEF Device

LEMMA ThreeColumns ==
    ASSUME NEW a \in Device, NEW p, NEW q, NEW r
    PROVE  [a EXCEPT !.ip = p, !.mac = q, !.key = r]
             = [mac |-> q, ip |-> p, key |-> r, forced |-> a.forced, total |-> a.total]
<1>0. PICK u, v, w, x, y : a = [mac |-> u, ip |-> v, key |-> w, forced |-> x, total |-> y]
  BY DEF Device
<1>1. [a EXCEPT !.ip = p] = [mac |-> u, ip |-> p, key |-> w, forced |-> x, total |-> y]
  BY <1>0
<1>2. \A b : b = [mac |-> u, ip |-> p, key |-> w, forced |-> x, total |-> y] =>
        [b EXCEPT !.mac = q] = [mac |-> q, ip |-> p, key |-> w, forced |-> x, total |-> y]
  OBVIOUS
<1>3. \A b : b = [mac |-> q, ip |-> p, key |-> w, forced |-> x, total |-> y] =>
        [b EXCEPT !.key = r] = [mac |-> q, ip |-> p, key |-> r, forced |-> x, total |-> y]
  OBVIOUS
<1>4. [a EXCEPT !.ip = p, !.mac = q, !.key = r]
        = [[[a EXCEPT !.ip = p] EXCEPT !.mac = q] EXCEPT !.key = r]
  BY <1>0
<1> QED BY <1>0, <1>1, <1>2, <1>3, <1>4

LEMMA SeenType ==
    ASSUME NEW a \in Device, NEW ip \in DevIp, NEW mac \in DevMac \cup {"none"}
    PROVE  /\ SeenAt(a, ip, mac) \in Device /\ SeenAt(a, ip, mac).ip = ip
           /\ SeenAt(a, ip, mac).forced = a.forced /\ SeenAt(a, ip, mac).total = a.total
           /\ SeenAt(a, ip, mac).key[1] = "ip" => mac = "none" /\ SeenAt(a, ip, mac).key = a.key
<1> DEFINE row == SeenAt(a, ip, mac)
           key == IF mac # "none" /\ a.key[1] = "ip" THEN <<"mac", mac>> ELSE a.key
<1>0. a = [mac |-> a.mac, ip |-> a.ip, key |-> a.key, forced |-> a.forced, total |-> a.total]
  BY DEF Device
<1> DEFINE hw == IF mac = "none" THEN a.mac ELSE mac
<1>a. row = [a EXCEPT !.ip = ip, !.mac = hw, !.key = key]
  <2>1. [a EXCEPT !.ip = ip].mac = a.mac
    BY <1>0
  <2>2. \A u : [a EXCEPT !.ip = ip, !.mac = u].key = a.key
    BY <1>0
  <2> QED BY <2>1, <2>2 DEF SeenAt
<1> HIDE DEF key, hw
<1>b. [a EXCEPT !.ip = ip, !.mac = hw, !.key = key]
        = [mac |-> hw, ip |-> ip, key |-> key, forced |-> a.forced, total |-> a.total]
  BY ThreeColumns
<1> USE DEF key, hw
<1>1. row = [mac |-> IF mac = "none" THEN a.mac ELSE mac, ip |-> ip, key |-> key,
             forced |-> a.forced, total |-> a.total]
  BY <1>a, <1>b
<1>2. key \in ({"mac"} \X DevMac) \cup ({"ip"} \X DevIp)
  BY DEF Device
<1>3. key[1] = "ip" => mac = "none" /\ key = a.key
  BY DEF Device
<1> HIDE DEF key
<1> QED BY <1>1, <1>2, <1>3 DEF Device

\* What the resolution of a candidate does
LEMMA ResolveMeans ==
    ASSUME DevicesTyped, AddressesApart, NEW ip \in DevIp, NEW bytes \in Nat, NEW rest, NEW phase,
           Resolve(ip, bytes, rest, phase)
    PROVE  /\ \/ \E id, got : MadeNew(ip, id, got) /\ got.total = bytes
              \/ \E id, i, got : MadeSeen(ip, id, i, got) /\ got.total = Gathered(id, i) + bytes
           /\ cycle'.phase = phase /\ cycle'.todo = rest /\ cycle'.neigh = cycle.neigh
           /\ cycle'.here = cycle.here /\ cycle'.seen = cycle.seen
           /\ cycle' = [phase |-> cycle'.phase, neigh |-> cycle'.neigh, here |-> cycle'.here,
                        seen |-> cycle'.seen, todo |-> cycle'.todo, mem |-> cycle'.mem,
                        base |-> cycle'.base, dead |-> cycle'.dead, dirty |-> cycle'.dirty]
           /\ devices' = devices /\ flows' = flows /\ overrides' = overrides
           /\ due' = due /\ overlap' = overlap
<1> DEFINE mac  == cycle.neigh[ip]
           byMac == OneOf(ByMac(mac))
           i    == OneOf(ByIp(ip))
           both == byMac # 0 /\ i # 0 /\ byMac # i
           d    == IF byMac # 0 THEN byMac ELSE i
           new  == CHOOSE e \in DevId : devices[e] = NoDevice /\ cycle.mem[e] = NoDevice
           id   == IF d = 0 THEN new ELSE d
           row  == IF d = 0 THEN NewRow(ip, mac)
                   ELSE SeenAt(IF both THEN MergedRow(Object(byMac), Object(i)) ELSE Object(d), ip, mac)
           got  == [row EXCEPT !.total = @ + bytes]
           old  == IF d = 0 THEN "none" ELSE Object(d).ip
           read == {e \in {byMac, i} \cap DevId : cycle.mem[e] = NoDevice}
           mem  == [e \in DevId |-> IF e = id THEN got ELSE IF e \in read THEN devices[e]
                                    ELSE cycle.mem[e]]
           base == [e \in DevId |-> IF e \in read THEN devices[e] ELSE cycle.base[e]]
           dead == (IF both THEN cycle.dead \cup {i} ELSE cycle.dead) \ {id}
           dirty == cycle.dirty \/ Dirties(old, IF d = 0 THEN got ELSE Object(d), got)
<1>1. /\ d = 0 => \E e \in DevId : devices[e] = NoDevice /\ cycle.mem[e] = NoDevice
      /\ cycle' = [cycle EXCEPT !.phase = phase, !.todo = rest, !.mem = mem, !.base = base,
                                !.dead = dead, !.dirty = dirty]
      /\ devices' = devices /\ flows' = flows /\ overrides' = overrides
      /\ due' = due /\ overlap' = overlap
  <2>1. base = [e \in DevId |-> IF e \in read THEN devices[e] ELSE cycle.base[e]]
    OBVIOUS
  <2> QED BY DEF Resolve
<1> HIDE DEF mem, base, dead, dirty
<1>2. cycle' = [phase |-> phase, neigh |-> cycle.neigh, here |-> cycle.here, seen |-> cycle.seen,
                todo |-> rest, mem |-> mem, base |-> base, dead |-> dead, dirty |-> dirty]
  BY <1>1 DEF DevicesTyped, CycleType
<1>3. /\ cycle'.phase = phase /\ cycle'.todo = rest /\ cycle'.neigh = cycle.neigh
      /\ cycle'.here = cycle.here /\ cycle'.seen = cycle.seen
      /\ cycle'.mem = mem /\ cycle'.base = base /\ cycle'.dead = dead /\ cycle'.dirty = dirty
  BY <1>2
<1>4. mac \in DevMac \cup {"none"} /\ Known \subseteq DevId /\ 0 \notin DevId
  BY DevicesAssumption DEF DevicesTyped, CycleType, Known
<1>5. /\ byMac # 0 => byMac \in Known
      /\ i # 0 => i \in Known
  <2>1. ByMac(mac) \subseteq Known
    BY DEF ByMac
  <2> QED BY <2>1, <1>4, OneOfThem, ByAddress
<1>6. d = Targets[ip]
  BY DEF Targets, TargetOf
<1>7. /\ cycle.mem \in [DevId -> Device \cup {NoDevice}] /\ cycle.base \in [DevId -> Device \cup {NoDevice}]
      /\ devices \in [DevId -> Device \cup {NoDevice}]
  BY DEF DevicesTyped, CycleType
<1>8. ASSUME row \in Device
      PROVE  /\ got \in Device /\ got.ip = row.ip /\ got.forced = row.forced /\ got.key = row.key
             /\ got.total = row.total + bytes
  <2> HIDE DEF row
  <2> QED BY <1>8 DEF Device
<1>9. CASE d = 0
  <2>1. byMac = 0 /\ i = 0 /\ ~both /\ row = NewRow(ip, mac) /\ id = new
    BY <1>9, <1>4, <1>5
  <2>2. new \in DevId /\ devices[new] = NoDevice /\ cycle.mem[new] = NoDevice
    BY <1>1, <1>9
  <2>3. read = {}
    BY <2>1, <1>4
  <2>4. row \in Device /\ row.ip = ip /\ row.forced = "none" /\ row.total = 0
    BY <2>1, <1>4, NewRowType DEF NewRow
  <2>5. /\ got \in Device /\ got.ip = ip /\ got.forced = "none" /\ got.key = NewRow(ip, mac).key
        /\ got.total = bytes
    BY <1>8, <2>1, <2>4
  <2> HIDE DEF got, new, read, id, old
  <2>6. mem = [cycle.mem EXCEPT ![id] = got] /\ base = cycle.base
    BY <2>1, <2>2, <2>3, <1>7 DEF mem, base
  <2>7. dead = cycle.dead \ {id}
    BY <2>1 DEF dead
  <2>8. dirty = cycle.dirty
    BY <2>5 DEF dirty, Dirties, DevicesTyped, CycleType
  <2>9. MadeNew(ip, id, got)
    BY <1>3, <1>6, <1>9, <2>1, <2>2, <2>5, <2>6, <2>7, <2>8 DEF MadeNew, Known, Loaded
  <2> QED BY <1>1, <1>2, <1>3, <2>5, <2>9
<1>10. CASE d # 0
  <2>1. id = d /\ d \in Known /\ Object(d) \in Device
    BY <1>10, <1>5, ObjectType
  <2>2. both <=> i \notin {0, d}
    <3>1. CASE byMac # 0
      BY <3>1
    <3>2. CASE byMac = 0
      BY <3>2
    <3> QED BY <3>1, <3>2
  <2> DEFINE from == IF both THEN MergedRow(Object(byMac), Object(i)) ELSE Object(d)
  <2>3. /\ from \in Device /\ from.key = Object(d).key
        /\ from.forced = IF i \notin {0, d} /\ Object(d).forced = "none" THEN Object(i).forced
                         ELSE Object(d).forced
        /\ from.total = Gathered(d, i)
    <3>1. CASE both
      <4>1. byMac = d /\ i \in Known /\ Object(i) \in Device
        BY <3>1, <1>5, ObjectType
      <4> QED BY <2>1, <2>2, <3>1, <4>1, MergedType DEF Gathered
    <3>2. CASE ~both
      <4>1. Gathered(d, i) = Object(d).total
        BY <2>1, <2>2, <3>2 DEF Gathered, Device
      <4> QED BY <2>1, <2>2, <3>2, <4>1
    <3> QED BY <3>1, <3>2
  <2>4. row = SeenAt(from, ip, mac)
    BY <1>10
  <2> HIDE DEF from
  <2>5. /\ row \in Device /\ row.ip = ip /\ row.forced = from.forced /\ row.total = from.total
        /\ row.key[1] = "ip" => mac = "none" /\ row.key = from.key
    BY <2>3, <2>4, <1>4, SeenType
  <2>6. /\ got \in Device /\ got.ip = ip /\ got.forced = from.forced
        /\ got.total = Gathered(d, i) + bytes
        /\ got.key[1] = "ip" => mac = "none" /\ got.key = from.key
    BY <1>8, <2>3, <2>5
  <2>7. mac = "none" => i = d
    <3>1. mac = "none" => ByMac(mac) = {}
      BY DEF ByMac
    <3>2. mac = "none" => byMac = 0
      BY <3>1, OneOfThem
    <3> QED BY <3>2
  <2>8. old = Object(d).ip
    BY <1>10
  <2>9. \A e \in DevId : e \in read /\ e # d <=> e = i /\ e # d /\ ~Loaded(i)
    <3>1. \A e : e \in {byMac, i} /\ e # d => e = i \/ e = 0
      OBVIOUS
    <3> QED BY <3>1, <1>5, <1>4 DEF Loaded
  <2> HIDE DEF got, read, old, row, id
  <2>10. mem = [e \in DevId |-> IF e = d THEN got
                                ELSE IF e = i /\ ~Loaded(i) THEN devices[i] ELSE cycle.mem[e]]
    BY <2>1, <2>9 DEF mem
  <2>11. /\ \A e \in DevId : base[e] \in {cycle.base[e], devices[e]}
         /\ base \in [DevId -> Device \cup {NoDevice}]
    BY <1>7 DEF base
  <2>12. dead = (IF i \notin {0, d} THEN cycle.dead \cup {i} ELSE cycle.dead) \ {d}
    BY <2>1, <2>2 DEF dead
  <2>13. dirty = (cycle.dirty \/ (got.forced # "none" /\ Object(d).ip # ip))
    BY <2>6, <2>8 DEF dirty, Dirties
  <2> HIDE DEF both, byMac, mac
  <2>14. MadeSeen(ip, d, i, got)
    BY <1>3, <1>6, <2>1, <2>3, <2>6, <2>7, <2>10, <2>11, <2>12, <2>13 DEF MadeSeen
  <2>15. \E id1, i1, got1 : MadeSeen(ip, id1, i1, got1) /\ got1.total = Gathered(id1, i1) + bytes
    <3> HIDE DEF i, d
    <3> QED BY <2>6, <2>14
  <2> QED BY <1>1, <1>2, <1>3, <2>15
<1> QED BY <1>9, <1>10

LEMMA MadeTyped ==
    ASSUME DevicesTyped, AddressesApart, NEW ip \in DevIp,
           (\E id, got : MadeNew(ip, id, got)) \/ (\E id, i, got : MadeSeen(ip, id, i, got))
    PROVE  /\ cycle'.mem \in [DevId -> Device \cup {NoDevice}]
           /\ cycle'.base \in [DevId -> Device \cup {NoDevice}]
           /\ cycle'.dead \in SUBSET DevId /\ cycle'.dirty \in BOOLEAN
<1>1. /\ cycle.mem \in [DevId -> Device \cup {NoDevice}] /\ cycle.base \in [DevId -> Device \cup {NoDevice}]
      /\ devices \in [DevId -> Device \cup {NoDevice}]
      /\ cycle.dead \in SUBSET DevId /\ cycle.dirty \in BOOLEAN
  BY DEF DevicesTyped, CycleType
<1>2. CASE \E id, got : MadeNew(ip, id, got)
  <2>1. PICK id, got : MadeNew(ip, id, got)
    BY <1>2
  <2> QED BY <1>1, <2>1 DEF MadeNew
<1>3. CASE \E id, i, got : MadeSeen(ip, id, i, got)
  <2>1. PICK id, i, got : MadeSeen(ip, id, i, got)
    BY <1>3
  <2>2. i \in DevId \cup {0}
    BY <2>1, ByAddress DEF MadeSeen, Known
  <2>3. cycle'.mem = [e \in DevId |-> IF e = id THEN got
                                      ELSE IF e = i /\ ~Loaded(i) THEN devices[i] ELSE cycle.mem[e]]
    BY <2>1 DEF MadeSeen
  <2>4. cycle'.mem \in [DevId -> Device \cup {NoDevice}]
    BY <1>1, <2>1, <2>3 DEF MadeSeen
  <2>5. cycle'.base \in [DevId -> Device \cup {NoDevice}] /\ cycle'.dirty \in BOOLEAN
    BY <1>1, <2>1 DEF MadeSeen
  <2>6. cycle'.dead \in SUBSET DevId
    BY <1>1, <2>1, <2>2 DEF MadeSeen
  <2> QED BY <2>4, <2>5, <2>6
<1> QED BY <1>2, <1>3

LEMMA TargetsStay ==
    ASSUME devices' = devices, cycle'.neigh = cycle.neigh
    PROVE  Targets' = Targets /\ Known' = Known
<1>1. Known' = Known
  BY DEF Known
<1>2. \A ip : TargetOf(ip)' = TargetOf(ip)
  BY <1>1 DEF TargetOf, OneOf, ByMac, ByIp
<1> QED BY <1>1, <1>2 DEF Targets

\* A row made new is at an address that no committed row has.
LEMMA NewPlaced ==
    ASSUME DevicesTyped, AddressesApart, CyclePlaced, Resolving, NEW ip \in DevIp,
           NEW id, NEW got, MadeNew(ip, id, got), devices' = devices, cycle'.neigh = cycle.neigh
    PROVE  CyclePlaced'
<1>1. /\ cycle.mem \in [DevId -> Device \cup {NoDevice}] /\ Known \subseteq DevId
      /\ Targets' = Targets /\ Known' = Known
  BY TargetsStay DEF DevicesTyped, CycleType, Known
<1>2. /\ id \in DevId \ Known /\ cycle'.mem[id] = got /\ cycle'.dead = cycle.dead \ {id}
      /\ Targets[got.ip] = 0 /\ got.key = NewRow(got.ip, cycle.neigh[got.ip]).key
      /\ \A d \in DevId \ {id} : cycle'.mem[d] = cycle.mem[d]
  BY <1>1 DEF MadeNew
<1>3. \A d \in DevId \ Known : Loaded(d)' =>
          /\ Targets'[cycle'.mem[d].ip] = 0
          /\ cycle'.mem[d].key = NewRow(cycle'.mem[d].ip, cycle'.neigh[cycle'.mem[d].ip]).key
  BY <1>1, <1>2 DEF CyclePlaced, Loaded
<1>4. \A d \in Known : cycle'.mem[d] = cycle.mem[d] /\ (d \in cycle'.dead <=> d \in cycle.dead)
  BY <1>1, <1>2
<1>5. \A d \in cycle'.dead : d \in cycle.dead
  BY <1>2
<1> QED BY <1>1, <1>3, <1>4, <1>5 DEF CyclePlaced, Loaded

\* A row that is seen again is at its target, and what was there is merged into it.
LEMMA SeenPlaced ==
    ASSUME DevicesTyped, AddressesApart, CyclePlaced, Resolving, NEW ip \in DevIp,
           NEW id, NEW i, NEW got, MadeSeen(ip, id, i, got),
           devices' = devices, cycle'.neigh = cycle.neigh
    PROVE  CyclePlaced'
<1>1. /\ cycle.mem \in [DevId -> Device \cup {NoDevice}] /\ Known \subseteq DevId /\ 0 \notin DevId
      /\ Targets' = Targets /\ Known' = Known
  BY TargetsStay, DevicesAssumption DEF DevicesTyped, CycleType, Known
<1>2. /\ id \in Known /\ id = Targets[ip] /\ got.ip = ip /\ got \in Device
      /\ i # 0 => i \in Known /\ devices[i].ip = ip
      /\ \A e \in Known : devices[e].ip = ip => e = i
  BY ByAddress DEF MadeSeen
<1>3. /\ cycle'.mem[id] = got
      /\ \A d \in DevId \ {id} :
            cycle'.mem[d] = IF d = i /\ ~Loaded(i) THEN devices[i] ELSE cycle.mem[d]
      /\ cycle'.dead = (IF i \notin {0, id} THEN cycle.dead \cup {i} ELSE cycle.dead) \ {id}
      /\ got.key[1] = "ip" => i = id /\ got.key = Object(id).key
  BY <1>1, <1>2 DEF MadeSeen
<1>4. ASSUME NEW d \in DevId \ Known, Loaded(d)'
      PROVE  /\ Targets'[cycle'.mem[d].ip] = 0
             /\ cycle'.mem[d].key = NewRow(cycle'.mem[d].ip, cycle'.neigh[cycle'.mem[d].ip]).key
  <2>1. cycle'.mem[d] = cycle.mem[d] /\ Loaded(d)
    BY <1>1, <1>2, <1>3, <1>4 DEF Loaded
  <2> QED BY <1>1, <2>1 DEF CyclePlaced
<1>5. ASSUME NEW d \in Known, Loaded(d)'
      PROVE  /\ cycle'.mem[d].ip = devices[d].ip \/ Targets[cycle'.mem[d].ip] = d
             /\ cycle'.mem[d].key[1] = "ip" =>
                  cycle'.mem[d].ip = devices[d].ip /\ cycle'.mem[d].key = <<"ip", cycle'.mem[d].ip>>
  <2>1. CASE d = id
    <3>1. ASSUME got.key[1] = "ip" PROVE devices[id].ip = ip /\ got.key = <<"ip", ip>>
      <4>1. i = id /\ got.key = Object(id).key /\ devices[id].ip = ip
        BY <1>1, <1>2, <1>3, <3>1
      <4>2. CASE Loaded(id)
        <5>1. Object(id) = cycle.mem[id]
          BY <4>2 DEF Object, Loaded
        <5> QED BY <1>2, <3>1, <4>1, <4>2, <5>1 DEF CyclePlaced
      <4>3. CASE ~Loaded(id)
        <5>1. Object(id) = devices[id]
          BY <4>3 DEF Object, Loaded
        <5> QED BY <1>2, <3>1, <4>1, <5>1 DEF AddressesApart
      <4> QED BY <4>2, <4>3
    <3> QED BY <1>2, <1>3, <2>1, <3>1
  <2>2. CASE d # id /\ d = i /\ ~Loaded(i)
    <3>1. cycle'.mem[d] = devices[d]
      BY <1>1, <1>3, <2>2
    <3> QED BY <3>1 DEF AddressesApart
  <2>3. CASE d # id /\ ~(d = i /\ ~Loaded(i))
    <3>1. cycle'.mem[d] = cycle.mem[d] /\ Loaded(d)
      BY <1>1, <1>3, <1>5, <2>3 DEF Loaded
    <3> QED BY <3>1 DEF CyclePlaced
  <2> QED BY <2>1, <2>2, <2>3
<1>6. ASSUME NEW d \in Known, NEW e \in Known, d # e, Loaded(d)', cycle'.mem[d].ip = devices[e].ip
      PROVE  e \in cycle'.dead \/ (Loaded(e)' /\ cycle'.mem[e].ip # devices[e].ip)
  <2>1. CASE d = id
    <3>1. e = i
      BY <1>2, <1>3, <1>6, <2>1
    <3> QED BY <1>1, <1>3, <1>6, <2>1, <3>1
  <2>2. CASE d # id
    <3>1. cycle'.mem[d] = cycle.mem[d] /\ Loaded(d)
      <4>1. CASE d = i /\ ~Loaded(i)
        <5>1. cycle'.mem[d] = devices[d]
          BY <1>1, <1>3, <2>2, <4>1
        <5> QED BY <1>6, <5>1 DEF AddressesApart
      <4>2. CASE ~(d = i /\ ~Loaded(i))
        BY <1>1, <1>3, <1>6, <2>2, <4>2 DEF Loaded
      <4> QED BY <4>1, <4>2
    <3>2. CASE e = id
      <4>1. devices[d].ip # devices[e].ip
        BY <1>6 DEF AddressesApart
      <4>2. Targets[cycle.mem[d].ip] = d
        BY <1>6, <3>1, <4>1 DEF CyclePlaced
      <4>3. cycle'.mem[e].ip # devices[e].ip
        BY <1>2, <1>3, <1>6, <3>1, <3>2, <4>2
      <4>4. Loaded(e)'
        BY <1>2, <1>3, <3>2, NoDeviceApart DEF Loaded
      <4> QED BY <4>3, <4>4
    <3>3. CASE e # id
      <4>1. e \in cycle.dead \/ (Loaded(e) /\ cycle.mem[e].ip # devices[e].ip)
        BY <1>6, <3>1 DEF CyclePlaced
      <4>2. e \in cycle.dead => e \in cycle'.dead
        BY <1>3, <3>3
      <4>3. Loaded(e) => cycle'.mem[e] = cycle.mem[e] /\ Loaded(e)'
        BY <1>1, <1>3, <3>3 DEF Loaded
      <4> QED BY <4>1, <4>2, <4>3
    <3> QED BY <3>2, <3>3
  <2> QED BY <2>1, <2>2
<1>7. ASSUME NEW d \in cycle'.dead PROVE d \in Known /\ Targets[devices[d].ip] # d
  <2>1. CASE d \in cycle.dead
    BY <2>1 DEF CyclePlaced
  <2>2. CASE d \notin cycle.dead
    <3>1. d = i /\ i \notin {0, id}
      BY <1>3, <2>2
    <3> QED BY <1>2, <3>1
  <2> QED BY <2>1, <2>2
<1> QED BY <1>1, <1>4, <1>5, <1>6, <1>7 DEF CyclePlaced, Loaded

\* The route of one row, as a set of at most one pair
RouteOf(row) == IF row = NoDevice \/ row.forced = "none" THEN {} ELSE {<<row.ip, row.forced>>}

LEMMA SameRoutes ==
    ASSUME NEW a, NEW b, \A d \in DevId : RouteOf(a[d]) = RouteOf(b[d])
    PROVE  Overridden(a) = Overridden(b)
<1>1. \A rows : Overridden(rows) = UNION {RouteOf(rows[d]) : d \in DevId}
  BY DEF Overridden, RouteOf
<1>2. {RouteOf(a[d]) : d \in DevId} = {RouteOf(b[d]) : d \in DevId}
  OBVIOUS
<1> QED BY <1>1, <1>2

LEMMA NewRouted ==
    ASSUME DevicesTyped, AddressesApart, CycleRouted, Resolving, NEW ip \in DevIp,
           NEW id, NEW got, MadeNew(ip, id, got), devices' = devices, cycle'.neigh = cycle.neigh,
           overlap' = overlap
    PROVE  CycleRouted'
<1> SUFFICES ASSUME ~overlap PROVE CycleRouted'
  BY DEF CycleRouted
<1>1. /\ cycle.mem \in [DevId -> Device \cup {NoDevice}] /\ Known \subseteq DevId
      /\ devices \in [DevId -> Device \cup {NoDevice}]
      /\ Targets' = Targets /\ Known' = Known
  BY TargetsStay DEF DevicesTyped, CycleType, Known
<1>2. /\ id \in DevId \ Known /\ cycle'.mem[id] = got /\ cycle'.dead = cycle.dead \ {id}
      /\ cycle'.base = cycle.base /\ cycle'.dirty = cycle.dirty
      /\ \A d \in DevId \ {id} : cycle'.mem[d] = cycle.mem[d]
      /\ got \in Device /\ got.forced = "none" /\ cycle.mem[id] = NoDevice /\ devices[id] = NoDevice
  BY <1>1 DEF MadeNew, Loaded, Known
<1>3. \A d \in Known : cycle'.mem[d] = cycle.mem[d]
  BY <1>1, <1>2
<1>4. Overridden(Left') = Overridden(Left)
  <2>1. ASSUME NEW d \in DevId PROVE RouteOf(Left'[d]) = RouteOf(Left[d])
    <3>1. CASE d = id
      <4>1. Left'[d] = got
        BY <1>2, <3>1, NoDeviceApart DEF Left, Object
      <4>2. Left[d] = NoDevice
        BY <1>2, <3>1 DEF Left, Object
      <4> QED BY <1>2, <4>1, <4>2 DEF RouteOf
    <3>2. CASE d # id
      <4>1. Left'[d] = Left[d]
        BY <1>2, <3>2 DEF Left, Object
      <4> QED BY <4>1
    <3> QED BY <3>1, <3>2
  <2> QED BY <2>1, SameRoutes
<1> QED BY <1>1, <1>2, <1>3, <1>4 DEF CycleRouted, Loaded

\* As long as no new plan is asked for, what a candidate merges or brings back has no route.
LEMMA QuietMerge ==
    ASSUME DevicesTyped, AddressesApart, CyclePlaced, CycleRouted, Resolving, ~overlap,
           NEW ip \in DevIp, NEW id, NEW i, NEW got, MadeSeen(ip, id, i, got), ~cycle'.dirty,
           i \notin {0, id} \/ id \in cycle.dead
    PROVE  got.forced = "none"
<1> SUFFICES ASSUME got.forced # "none" PROVE FALSE
  OBVIOUS
<1>0. Known \subseteq DevId /\ 0 \notin DevId
  BY DevicesAssumption DEF Known
<1>1. ~cycle.dirty /\ Object(id).ip = ip /\ id \in Known /\ id = Targets[ip]
  BY DEF MadeSeen, DevicesTyped, CycleType
<1>2. i # 0 => i \in Known /\ devices[i].ip = ip
  BY ByAddress DEF MadeSeen
<1>3. \A d \in Known : Loaded(d) /\ cycle.mem[d].ip # devices[d].ip =>
         /\ cycle.mem[d].forced = "none"
         /\ \A e \in Known : devices[e].ip = cycle.mem[d].ip => devices[e].forced = "none"
  BY <1>1 DEF CycleRouted
<1>4. \A d : Object(d) = IF Loaded(d) THEN cycle.mem[d] ELSE devices[d]
  BY DEF Object, Loaded
<1>5. CASE i \notin {0, id}
  <2>1. i \in Known /\ devices[i].ip = ip /\ devices[id].ip # ip
    BY <1>1, <1>2, <1>5 DEF AddressesApart
  <2>2. Loaded(id) /\ cycle.mem[id].ip = ip /\ cycle.mem[id].ip # devices[id].ip
    BY <1>1, <1>4, <2>1
  <2>3. Object(id).forced = "none" /\ devices[i].forced = "none"
    BY <1>1, <1>3, <1>4, <2>1, <2>2
  <2>4. Object(i).forced # "none"
    BY <1>5, <2>3 DEF MadeSeen
  <2>5. Loaded(i) /\ cycle.mem[i].forced # "none"
    BY <1>4, <2>3, <2>4
  <2>6. Targets[cycle.mem[i].ip] = i
    BY <2>1, <2>3, <2>5 DEF CycleRouted
  <2>7. cycle.mem[i].ip = ip
    BY <1>3, <2>1, <2>5
  <2> QED BY <1>1, <1>5, <2>6, <2>7
<1>6. CASE i \in {0, id}
  <2>1. id \in cycle.dead /\ Targets[devices[id].ip] # id
    BY <1>6 DEF CyclePlaced
  <2>2. got.forced = Object(id).forced
    BY <1>6 DEF MadeSeen
  <2>3. devices[id].ip = ip
    BY <1>1, <1>3, <1>4, <2>2
  <2> QED BY <1>1, <2>1, <2>3
<1> QED BY <1>5, <1>6

LEMMA SeenRouted ==
    ASSUME DevicesTyped, AddressesApart, CyclePlaced, CycleRouted, Resolving, NEW ip \in DevIp,
           NEW id, NEW i, NEW got, MadeSeen(ip, id, i, got), devices' = devices,
           cycle'.neigh = cycle.neigh, overlap' = overlap
    PROVE  CycleRouted'
<1> SUFFICES ASSUME ~overlap PROVE CycleRouted'
  BY DEF CycleRouted
<1>1. /\ cycle.mem \in [DevId -> Device \cup {NoDevice}] /\ Known \subseteq DevId /\ 0 \notin DevId
      /\ Targets' = Targets /\ Known' = Known
  BY TargetsStay, DevicesAssumption DEF DevicesTyped, CycleType, Known
<1>2. /\ id \in Known /\ id = Targets[ip] /\ got.ip = ip /\ got \in Device
      /\ i # 0 => i \in Known /\ devices[i].ip = ip
      /\ \A e \in Known : devices[e].ip = ip => e = i
  BY ByAddress DEF MadeSeen
<1>3. /\ cycle'.mem[id] = got
      /\ \A d \in DevId \ {id} :
            cycle'.mem[d] = IF d = i /\ ~Loaded(i) THEN devices[i] ELSE cycle.mem[d]
      /\ cycle'.dead = (IF i \notin {0, id} THEN cycle.dead \cup {i} ELSE cycle.dead) \ {id}
      /\ got.forced = IF i \notin {0, id} /\ Object(id).forced = "none" THEN Object(i).forced
                      ELSE Object(id).forced
      /\ ~cycle'.dirty => ~cycle.dirty /\ (got.forced = "none" \/ Object(id).ip = ip)
  BY <1>1, <1>2 DEF MadeSeen, DevicesTyped, CycleType
<1>4. \A d : Object(d) = IF Loaded(d) THEN cycle.mem[d] ELSE devices[d]
  BY DEF Object, Loaded
<1>5. Overridden(devices') = Overridden(devices)
  OBVIOUS
<1>6. ASSUME NEW d \in DevId PROVE cycle'.base[d] \in {NoDevice, devices[d]}
  BY DEF MadeSeen, CycleRouted
<1>7. \A d \in Known : devices[d].forced # "none" => Object(d).forced # "none"
  BY <1>4 DEF CycleRouted
<1>8. ASSUME NEW d \in Known, Loaded(d)'
      PROVE  /\ cycle'.mem[d].forced # devices[d].forced => Targets[cycle'.mem[d].ip] = d
             /\ devices[d].forced # "none" => cycle'.mem[d].forced # "none"
  <2>1. CASE d = id
    BY <1>2, <1>3, <1>7, <2>1
  <2>2. CASE d # id /\ d = i /\ ~Loaded(i)
    BY <1>1, <1>3, <2>2
  <2>3. CASE d # id /\ ~(d = i /\ ~Loaded(i))
    <3>1. cycle'.mem[d] = cycle.mem[d] /\ Loaded(d)
      BY <1>1, <1>3, <1>8, <2>3 DEF Loaded
    <3> QED BY <3>1 DEF CycleRouted
  <2> QED BY <2>1, <2>2, <2>3
<1>9. ASSUME ~cycle'.dirty
      PROVE  /\ Overridden(Left') = Overridden(devices)
             /\ \A d \in Known : Loaded(d)' /\ cycle'.mem[d].ip # devices[d].ip =>
                   /\ cycle'.mem[d].forced = "none"
                   /\ \A e \in Known : devices[e].ip = cycle'.mem[d].ip => devices[e].forced = "none"
  <2>0. ~cycle.dirty /\ (got.forced = "none" \/ Object(id).ip = ip)
    BY <1>3, <1>9
  <2>1. \A d \in Known : Loaded(d) /\ cycle.mem[d].ip # devices[d].ip =>
           /\ cycle.mem[d].forced = "none"
           /\ \A e \in Known : devices[e].ip = cycle.mem[d].ip => devices[e].forced = "none"
    BY <2>0 DEF CycleRouted
  <2>2. i \notin {0, id} \/ id \in cycle.dead => got.forced = "none"
    BY <1>9, QuietMerge
  <2>3. got.forced = "none" => /\ Object(id).forced = "none"
                               /\ i \notin {0, id} => Object(i).forced = "none"
    BY <1>3
  <2>4. ASSUME NEW d \in DevId PROVE RouteOf(Left'[d]) = RouteOf(Left[d])
    <3>1. CASE d = id
      <4>1. Left'[d] = got
        BY <1>2, <1>3, <3>1, NoDeviceApart DEF Left, Object
      <4>2. Left[d] = IF id \in cycle.dead THEN NoDevice ELSE Object(id)
        BY <3>1 DEF Left
      <4>3. Object(id) \in Device
        BY <1>2, ObjectType
      <4>4. CASE got.forced = "none"
        BY <2>3, <4>1, <4>2, <4>4 DEF RouteOf
      <4>5. CASE got.forced # "none"
        <5>1. Left[d] = Object(id) /\ got.forced = Object(id).forced /\ Object(id).ip = ip
          BY <1>3, <2>0, <2>2, <4>2, <4>5
        <5>2. got # NoDevice /\ Object(id) # NoDevice
          BY <1>2, <4>3, NoDeviceApart
        <5> QED BY <1>2, <4>1, <5>1, <5>2 DEF RouteOf
      <4> QED BY <4>4, <4>5
    <3>2. CASE d = i /\ d # id
      <4>1. i \notin {0, id} /\ d \in cycle'.dead
        BY <1>1, <1>3, <3>2
      <4>2. Left'[d] = NoDevice
        BY <4>1 DEF Left
      <4>3. Object(i).forced = "none"
        BY <2>2, <2>3, <4>1
      <4>4. Left[d] = NoDevice \/ Left[d] = Object(i)
        BY <3>2 DEF Left
      <4> QED BY <4>2, <4>3, <4>4 DEF RouteOf
    <3>3. CASE d # i /\ d # id
      <4>1. cycle'.mem[d] = cycle.mem[d] /\ (d \in cycle'.dead <=> d \in cycle.dead)
        BY <1>3, <3>3
      <4>2. Left'[d] = Left[d]
        BY <4>1 DEF Left, Object
      <4> QED BY <4>2
    <3> QED BY <3>1, <3>2, <3>3
  <2>5. Overridden(Left') = Overridden(devices)
    <3>1. Overridden(Left') = Overridden(Left)
      BY <2>4, SameRoutes
    <3> QED BY <2>0, <3>1 DEF CycleRouted
  <2>6. ASSUME NEW d \in Known, Loaded(d)', cycle'.mem[d].ip # devices[d].ip
        PROVE  /\ cycle'.mem[d].forced = "none"
               /\ \A e \in Known : devices[e].ip = cycle'.mem[d].ip => devices[e].forced = "none"
    <3>1. CASE d = id
      <4>1. devices[id].ip # ip
        BY <1>2, <1>3, <2>6, <3>1
      <4>2. got.forced = "none"
        <5> SUFFICES ASSUME got.forced # "none" PROVE FALSE
          OBVIOUS
        <5>1. i \in {0, id} /\ Object(id).ip = ip /\ got.forced = Object(id).forced
          BY <1>3, <2>0, <2>2
        <5>2. Loaded(id) /\ cycle.mem[id].ip = ip /\ cycle.mem[id].forced # "none"
          BY <1>4, <4>1, <5>1
        <5> QED BY <1>2, <2>1, <4>1, <5>2
      <4>3. ASSUME NEW e \in Known, devices[e].ip = ip PROVE devices[e].forced = "none"
        <5>1. e = i /\ i \notin {0, id}
          BY <1>1, <1>2, <4>1, <4>3
        <5> QED BY <1>7, <2>3, <4>2, <5>1
      <4> QED BY <1>2, <1>3, <3>1, <4>2, <4>3
    <3>2. CASE d # id
      <4>1. cycle'.mem[d] = cycle.mem[d] /\ Loaded(d)
        BY <1>1, <1>3, <2>6, <3>2 DEF Loaded
      <4> QED BY <2>1, <2>6, <4>1
    <3> QED BY <3>1, <3>2
  <2> QED BY <2>5, <2>6
<1> QED BY <1>1, <1>5, <1>6, <1>8, <1>9 DEF CycleRouted, Loaded

LEMMA ResolveKeeps ==
    ASSUME DevicesInv, Resolving, NEW ip \in DevIp, NEW bytes \in Nat, NEW rest, NEW phase,
           phase \in {"candidates", "neighbours"}, Resolve(ip, bytes, rest, phase),
           rest \in SUBSET (Flow \cup DevIp),
           phase = "candidates" => \A f \in rest : f \in Flow /\ cycle.seen[f] >= 0,
           phase = "neighbours" => rest \subseteq DevIp
    PROVE  DevicesInv'
<1>0. DevicesTyped /\ AddressesApart /\ CyclePlaced /\ CycleRouted
  BY DEF DevicesInv
<1>1. /\ (\E id, got : MadeNew(ip, id, got)) \/ (\E id, i, got : MadeSeen(ip, id, i, got))
      /\ cycle'.phase = phase /\ cycle'.todo = rest /\ cycle'.neigh = cycle.neigh
      /\ cycle'.here = cycle.here /\ cycle'.seen = cycle.seen
      /\ cycle' = [phase |-> cycle'.phase, neigh |-> cycle'.neigh, here |-> cycle'.here,
                   seen |-> cycle'.seen, todo |-> cycle'.todo, mem |-> cycle'.mem,
                   base |-> cycle'.base, dead |-> cycle'.dead, dirty |-> cycle'.dirty]
      /\ devices' = devices /\ flows' = flows /\ overrides' = overrides
      /\ due' = due /\ overlap' = overlap
  BY <1>0, ResolveMeans
<1>2. /\ cycle'.mem \in [DevId -> Device \cup {NoDevice}]
      /\ cycle'.base \in [DevId -> Device \cup {NoDevice}]
      /\ cycle'.dead \in SUBSET DevId /\ cycle'.dirty \in BOOLEAN
  BY <1>0, <1>1, MadeTyped
<1>3. cycle' \in CycleType
  <2>1. /\ cycle'.phase \in {"idle", "candidates", "neighbours", "reload"}
        /\ cycle'.neigh \in [DevIp -> DevMac \cup {"none"}] /\ cycle'.here \in SUBSET DevIp
        /\ cycle'.seen \in [Flow -> -1..MaxBytes] /\ cycle'.todo \in SUBSET (Flow \cup DevIp)
    BY <1>0, <1>1 DEF DevicesTyped, CycleType
  <2> QED BY <1>1, <1>2, <2>1 DEF CycleType
<1>4. DevicesTyped'
  BY <1>0, <1>1, <1>3 DEF DevicesTyped
<1>5. AddressesApart'
  BY <1>0, <1>1 DEF AddressesApart, Known
<1>6. CyclePlaced' /\ CycleRouted'
  BY <1>0, <1>1, NewPlaced, SeenPlaced, NewRouted, SeenRouted
<1>7. OverridesCurrent'
  BY <1>1 DEF DevicesInv, OverridesCurrent
<1> QED BY <1>4, <1>5, <1>6, <1>7 DEF DevicesInv

LEMMA BeginKeeps == ASSUME DevicesInv, BeginCycle PROVE DevicesInv'
<1>1. PICK s \in Sights :
        cycle' = [NoCycle EXCEPT !.phase = "candidates", !.neigh = s.neigh, !.here = s.here,
                                 !.seen = s.seen,
                                 !.todo = {f \in Flow : s.seen[f] >= 0 /\ Fresh(flows[f], s.seen[f])}]
  BY DEF BeginCycle
<1> DEFINE todo == {f \in Flow : s.seen[f] >= 0 /\ Fresh(flows[f], s.seen[f])}
<1>2. cycle' = [phase |-> "candidates", neigh |-> s.neigh, here |-> s.here, seen |-> s.seen,
                todo |-> todo, mem |-> NoRows, base |-> NoRows, dead |-> {}, dirty |-> FALSE]
  BY <1>1 DEF NoCycle
<1>3. /\ devices' = devices /\ flows' = flows /\ overrides' = overrides
      /\ due' = due /\ overlap' = overlap
      /\ DevicesTyped /\ AddressesApart /\ OverridesCurrent
  BY DEF BeginCycle, DevicesInv
<1>4. /\ s.neigh \in [DevIp -> DevMac \cup {"none"}] /\ s.here \in SUBSET DevIp
      /\ s.seen \in [Flow -> -1..MaxBytes]
  BY DevicesAssumption
<1>5. NoRows \in [DevId -> Device \cup {NoDevice}] /\ \A d \in DevId : NoRows[d] = NoDevice
  BY DEF NoRows
<1>6. todo \in SUBSET (Flow \cup DevIp) /\ \A f \in todo : f \in Flow /\ s.seen[f] >= 0
  OBVIOUS
<1> HIDE DEF todo
<1>7. /\ cycle'.phase = "candidates" /\ cycle'.todo = todo /\ cycle'.seen = s.seen
      /\ cycle'.mem = NoRows /\ cycle'.base = NoRows /\ cycle'.dead = {} /\ ~cycle'.dirty
  BY <1>2
<1>8. cycle' \in CycleType
  BY <1>2, <1>4, <1>5, <1>6 DEF CycleType
<1>9. DevicesTyped'
  BY <1>3, <1>6, <1>7, <1>8 DEF DevicesTyped
<1>10. AddressesApart' /\ Known' = Known
  BY <1>3 DEF AddressesApart, Known
<1>11. \A d \in DevId : ~Loaded(d)'
  BY <1>5, <1>7 DEF Loaded
<1>12. CyclePlaced'
  BY <1>7, <1>11 DEF CyclePlaced, Known
<1>13. Overridden(Left') = Overridden(devices)
  <2>1. \A d \in DevId : Left'[d] = devices[d]
    BY <1>3, <1>5, <1>7 DEF Left, Object
  <2> QED BY <2>1, SameRoutes
<1>14. CycleRouted'
  BY <1>3, <1>5, <1>7, <1>11, <1>13 DEF CycleRouted, Known
<1>15. OverridesCurrent'
  BY <1>3 DEF OverridesCurrent
<1> QED BY <1>9, <1>10, <1>12, <1>14, <1>15 DEF DevicesInv

LEMMA ConntrackKeeps == ASSUME DevicesInv, ConntrackCandidate PROVE DevicesInv'
<1>1. PICK f \in cycle.todo :
        Resolve(f[1], Delta(flows[f], cycle.seen[f]), cycle.todo \ {f}, "candidates")
  BY DEF ConntrackCandidate
<1>2. DevicesTyped /\ cycle.phase = "candidates" /\ Resolving
  BY DEF ConntrackCandidate, DevicesInv, Resolving
<1>3. f \in Flow /\ cycle.seen[f] >= 0 /\ f[1] \in DevIp
  BY <1>2, DevicesAssumption DEF DevicesTyped
<1>4. Delta(flows[f], cycle.seen[f]) \in Nat
  <2>1. cycle.seen[f] \in -1..MaxBytes /\ flows[f] \in -1..MaxBytes /\ MaxBytes \in Nat
    BY <1>2, <1>3, DevicesAssumption DEF DevicesTyped, CycleType
  <2> QED BY <1>3, <2>1 DEF Delta
<1>5. cycle.todo \in SUBSET (Flow \cup DevIp) /\ \A g \in cycle.todo : g \in Flow /\ cycle.seen[g] >= 0
  BY <1>2 DEF DevicesTyped, CycleType
<1> QED BY <1>1, <1>2, <1>3, <1>4, <1>5, ResolveKeeps

LEMMA NeighbourKeeps == ASSUME DevicesInv, NeighbourCandidate PROVE DevicesInv'
<1>1. PICK ip \in cycle.todo : Resolve(ip, 0, cycle.todo \ {ip}, "neighbours")
  BY DEF NeighbourCandidate
<1>2. DevicesTyped /\ cycle.phase = "neighbours" /\ Resolving
  BY DEF NeighbourCandidate, DevicesInv, Resolving
<1>3. cycle.todo \subseteq DevIp
  BY <1>2 DEF DevicesTyped
<1> QED BY <1>1, <1>2, <1>3, ResolveKeeps

LEMMA LoopKeeps == ASSUME DevicesInv, NeighbourLoop PROVE DevicesInv'
<1>1. /\ DevicesTyped /\ AddressesApart /\ CyclePlaced /\ CycleRouted
      /\ cycle' = [cycle EXCEPT !.phase = "neighbours", !.todo = cycle.here \ Sources]
      /\ devices' = devices /\ flows' = flows /\ overrides' = overrides
      /\ due' = due /\ overlap' = overlap
      /\ Resolving
  BY DEF NeighbourLoop, DevicesInv, Resolving
<1>2. cycle' = [phase |-> "neighbours", neigh |-> cycle.neigh, here |-> cycle.here,
                seen |-> cycle.seen, todo |-> cycle.here \ Sources, mem |-> cycle.mem,
                base |-> cycle.base, dead |-> cycle.dead, dirty |-> cycle.dirty]
  BY <1>1 DEF DevicesTyped, CycleType
<1>3. /\ cycle'.phase = "neighbours" /\ cycle'.neigh = cycle.neigh /\ cycle'.mem = cycle.mem
      /\ cycle'.base = cycle.base /\ cycle'.dead = cycle.dead /\ cycle'.dirty = cycle.dirty
      /\ cycle'.todo = cycle.here \ Sources
  BY <1>2
<1>4. cycle.here \in SUBSET DevIp
  BY <1>1 DEF DevicesTyped, CycleType
<1>5. cycle' \in CycleType
  BY <1>1, <1>2, <1>4 DEF CycleType, DevicesTyped
<1>6. DevicesTyped'
  BY <1>1, <1>3, <1>4, <1>5 DEF DevicesTyped
<1>7. Targets' = Targets /\ Known' = Known
  BY <1>1, <1>3, TargetsStay
<1>8. AddressesApart'
  BY <1>1, <1>7 DEF AddressesApart
<1>9. CyclePlaced'
  BY <1>1, <1>3, <1>7 DEF CyclePlaced, Loaded
<1>10. Left' = Left
  BY <1>1, <1>3 DEF Left, Object
<1>11. CycleRouted'
  BY <1>1, <1>3, <1>7, <1>10 DEF CycleRouted, Loaded
<1>12. OverridesCurrent'
  BY <1>1 DEF DevicesInv, OverridesCurrent
<1> QED BY <1>6, <1>8, <1>9, <1>11, <1>12 DEF DevicesInv

LEMMA NoCycleType == NoCycle \in CycleType /\ NoCycle.phase = "idle"
<1>1. NoRows \in [DevId -> Device \cup {NoDevice}]
  BY DEF NoRows
<1>2. /\ [i \in DevIp |-> "none"] \in [DevIp -> DevMac \cup {"none"}]
      /\ [f \in Flow |-> -1] \in [Flow -> -1..MaxBytes]
  BY DevicesAssumption
<1> QED BY <1>1, <1>2 DEF NoCycle, CycleType

LEMMA ReloadType == NoCycle.phase = "idle" /\ [NoCycle EXCEPT !.phase = "reload"] \in CycleType
                    /\ [NoCycle EXCEPT !.phase = "reload"].phase = "reload"
BY NoCycleType DEF CycleType

LEMMA OverriddenType ==
    ASSUME NEW rows \in [DevId -> Device \cup {NoDevice}]
    PROVE  Overridden(rows) \subseteq DevIp \X (RouteTarget \ {"none"})
BY DEF Overridden, Device

LEMMA LoseKeeps == ASSUME DevicesInv, LoseCycle PROVE DevicesInv'
<1>1. /\ DevicesTyped /\ AddressesApart /\ OverridesCurrent
      /\ cycle' = NoCycle /\ devices' = devices /\ flows' = flows /\ overrides' = overrides
      /\ due' = due /\ overlap' = overlap
  BY DEF LoseCycle, DevicesInv
<1>2. cycle'.phase = "idle" /\ cycle' \in CycleType
  BY <1>1, NoCycleType
<1>3. DevicesTyped' /\ AddressesApart'
  BY <1>1, <1>2 DEF DevicesTyped, AddressesApart, Known
<1>4. CyclePlaced' /\ CycleRouted'
  BY <1>2 DEF CyclePlaced, CycleRouted, Resolving
<1>5. OverridesCurrent'
  BY <1>1 DEF OverridesCurrent
<1> QED BY <1>3, <1>4, <1>5 DEF DevicesInv

\* What every outcome of a plan has in common
LEMMA PlanOutcome ==
    ASSUME DevicesTyped, OverridesCurrent, devices' = devices,
           PlanApplied \/ PlanBroken \/ UNCHANGED <<overrides, due, overlap>>
    PROVE  /\ overrides' \subseteq DevIp \X (RouteTarget \ {"none"})
           /\ due' \in BOOLEAN /\ overlap' \in BOOLEAN
           /\ Resolving /\ ~overlap' => ~overlap
           /\ OverridesCurrent'
<1>1. /\ overrides \subseteq DevIp \X (RouteTarget \ {"none"})
      /\ Overridden(devices) \subseteq DevIp \X (RouteTarget \ {"none"})
  BY OverriddenType DEF DevicesTyped
<1>2. CASE PlanApplied
  <2>1. overrides' = Overridden(devices') /\ due' = FALSE /\ overlap' = (overlap /\ Resolving)
    BY <1>2 DEF PlanApplied, Resolving
  <2>2. due' \in BOOLEAN /\ overlap' \in BOOLEAN /\ (Resolving /\ ~overlap' => ~overlap)
    BY <2>1
  <2> QED BY <1>1, <2>1, <2>2 DEF OverridesCurrent
<1>3. CASE PlanBroken
  <2>1. overrides' \in (SUBSET overrides) \cup (SUBSET Overridden(devices)) /\ due' = TRUE /\ overlap' = overlap
    BY <1>3 DEF PlanBroken
  <2>2. overrides' \subseteq overrides \/ overrides' \subseteq Overridden(devices)
    BY <2>1
  <2>3. overrides' \subseteq DevIp \X (RouteTarget \ {"none"})
    BY <1>1, <2>2, Zenon
  <2> QED BY <2>1, <2>3 DEF DevicesTyped, OverridesCurrent
<1>4. CASE UNCHANGED <<overrides, due, overlap>>
  BY <1>1, <1>4 DEF DevicesTyped, Resolving, OverridesCurrent
<1> QED BY <1>2, <1>3, <1>4

LEMMA ReloadKeeps == ASSUME DevicesInv, Reload PROVE DevicesInv'
<1>1. /\ DevicesTyped /\ AddressesApart /\ OverridesCurrent
      /\ cycle' = NoCycle /\ devices' = devices /\ flows' = flows
      /\ PlanApplied \/ PlanBroken \/ UNCHANGED <<overrides, due, overlap>>
  BY DEF Reload, DevicesInv
<1>2. cycle'.phase = "idle" /\ cycle' \in CycleType
  BY <1>1, NoCycleType
<1>3. /\ overrides' \subseteq DevIp \X (RouteTarget \ {"none"})
      /\ due' \in BOOLEAN /\ overlap' \in BOOLEAN /\ OverridesCurrent'
  BY <1>1, PlanOutcome
<1>4. DevicesTyped' /\ AddressesApart'
  BY <1>1, <1>2, <1>3 DEF DevicesTyped, AddressesApart, Known
<1>5. CyclePlaced' /\ CycleRouted'
  BY <1>2 DEF CyclePlaced, CycleRouted, Resolving
<1> QED BY <1>3, <1>4, <1>5 DEF DevicesInv

LEMMA PlanKeeps == ASSUME DevicesInv, Plan PROVE DevicesInv'
<1>1. /\ DevicesTyped /\ AddressesApart /\ CyclePlaced /\ CycleRouted /\ OverridesCurrent
      /\ cycle' = cycle /\ devices' = devices /\ flows' = flows /\ (PlanApplied \/ PlanBroken)
  BY DEF Plan, DevicesInv
<1>2. /\ overrides' \subseteq DevIp \X (RouteTarget \ {"none"})
      /\ due' \in BOOLEAN /\ overlap' \in BOOLEAN /\ OverridesCurrent'
      /\ Resolving /\ ~overlap' => ~overlap
  BY <1>1, PlanOutcome
<1>3. Targets' = Targets /\ Known' = Known
  BY <1>1, TargetsStay
<1>4. Left' = Left /\ \A d : Loaded(d)' <=> Loaded(d)
  BY <1>1 DEF Left, Object, Loaded
<1>5. DevicesTyped' /\ AddressesApart'
  BY <1>1, <1>2, <1>3 DEF DevicesTyped, AddressesApart
<1>6. CyclePlaced'
  BY <1>1, <1>3, <1>4 DEF CyclePlaced, Resolving, Loaded
<1>7. CycleRouted'
  BY <1>1, <1>2, <1>3, <1>4 DEF CycleRouted, Resolving, Loaded
<1> QED BY <1>2, <1>5, <1>6, <1>7 DEF DevicesInv

LEMMA PutKeeps == ASSUME DevicesInv, PutDevice PROVE DevicesInv'
<1>1. PICK d \in Known, forced \in RouteTarget : devices' = [devices EXCEPT ![d].forced = forced]
  BY DEF PutDevice
<1>2. /\ DevicesTyped /\ AddressesApart /\ CyclePlaced /\ flows' = flows /\ cycle' = cycle
      /\ overrides' = overrides /\ due' = TRUE /\ overlap' = (overlap \/ Resolving)
  BY DEF PutDevice, DevicesInv, Resolving
<1>3. /\ devices \in [DevId -> Device \cup {NoDevice}] /\ d \in DevId /\ devices[d] \in Device
  BY <1>2, KnownDevice DEF DevicesTyped
<1> DEFINE row == [devices[d] EXCEPT !.forced = forced]
<1>4. row \in Device /\ row.ip = devices[d].ip /\ row.mac = devices[d].mac /\ row.key = devices[d].key
  BY <1>3 DEF Device
<1>5. devices' = [devices EXCEPT ![d] = row]
  BY <1>1
<1> HIDE DEF row
<1>6. devices' \in [DevId -> Device \cup {NoDevice}]
  BY <1>3, <1>4, <1>5
<1>7. Known' = Known
  BY <1>3, <1>4, <1>5, NoDeviceApart DEF Known
<1>8. \A e \in Known : /\ devices'[e].ip = devices[e].ip /\ devices'[e].mac = devices[e].mac
                       /\ devices'[e].key = devices[e].key
  BY <1>3, <1>4, <1>5 DEF Known
<1>9. Targets' = Targets
  <2>1. ASSUME NEW ip \in DevIp PROVE TargetOf(ip)' = TargetOf(ip)
    <3>1. ByMac(cycle.neigh[ip])' = ByMac(cycle.neigh[ip])
      BY <1>2, <1>7, <1>8 DEF ByMac
    <3>2. ByIp(ip)' = ByIp(ip)
      BY <1>7, <1>8 DEF ByIp
    <3>3. OneOf(ByMac(cycle.neigh[ip]))' = OneOf(ByMac(cycle.neigh[ip]))
      BY <3>1 DEF OneOf
    <3>4. OneOf(ByIp(ip))' = OneOf(ByIp(ip))
      BY <3>2 DEF OneOf
    <3> QED BY <3>3, <3>4 DEF TargetOf
  <2> QED BY <2>1 DEF Targets
<1>10. AddressesApart'
  BY <1>2, <1>7, <1>8 DEF AddressesApart
<1>11. OverridesCurrent'
  BY <1>2 DEF OverridesCurrent
<1>12. DevicesTyped'
  BY <1>2, <1>6 DEF DevicesTyped
<1>13. CyclePlaced'
  <2> SUFFICES ASSUME Resolving' PROVE CyclePlaced'
    BY DEF CyclePlaced
  <2>1. Resolving /\ \A e : Loaded(e)' <=> Loaded(e)
    BY <1>2 DEF Resolving, Loaded
  <2>2. /\ \A e \in DevId \ Known : Loaded(e) =>
              /\ Targets[cycle.mem[e].ip] = 0
              /\ cycle.mem[e].key = NewRow(cycle.mem[e].ip, cycle.neigh[cycle.mem[e].ip]).key
        /\ \A e \in cycle.dead : e \in Known /\ Targets[devices[e].ip] # e
    BY <1>2, <2>1 DEF CyclePlaced
  <2>3. /\ \A e \in Known : Loaded(e) =>
              /\ cycle.mem[e].ip = devices[e].ip \/ Targets[cycle.mem[e].ip] = e
              /\ cycle.mem[e].key[1] = "ip" =>
                   cycle.mem[e].ip = devices[e].ip /\ cycle.mem[e].key = <<"ip", cycle.mem[e].ip>>
        /\ \A e, f \in Known : e # f /\ Loaded(e) /\ cycle.mem[e].ip = devices[f].ip =>
              f \in cycle.dead \/ (Loaded(f) /\ cycle.mem[f].ip # devices[f].ip)
    BY <1>2, <2>1 DEF CyclePlaced
  <2> QED BY <1>2, <1>7, <1>8, <1>9, <2>1, <2>2, <2>3 DEF CyclePlaced
<1>14. CycleRouted'
  BY <1>2 DEF CycleRouted, Resolving
<1> QED BY <1>10, <1>11, <1>12, <1>13, <1>14 DEF DevicesInv


LEMMA FlushedRow ==
    ASSUME DevicesTyped, NEW d \in DevId
    PROVE  /\ Flushed[d] \in Device \cup {NoDevice}
           /\ Flushed[d] = NoDevice <=> Object(d) = NoDevice
           /\ Flushed[d] # NoDevice => /\ Flushed[d].ip = Object(d).ip /\ Flushed[d].key = Object(d).key
                                        /\ Flushed[d].total = Object(d).total
           /\ Flushed[d] # NoDevice /\ cycle.base[d] \in {NoDevice, devices[d]} =>
                 Flushed[d].forced = Object(d).forced
<1>1. /\ cycle.mem[d] \in Device \cup {NoDevice} /\ devices[d] \in Device \cup {NoDevice}
      /\ NoDevice \notin Device
  BY NoDeviceApart DEF DevicesTyped, CycleType
<1>2. CASE ~Loaded(d)
  BY <1>1, <1>2 DEF Flushed, Object, Loaded
<1>3. CASE Loaded(d)
  <2> DEFINE new == cycle.mem[d]
  <2>1. Flushed[d] = WrittenRow(d) /\ Object(d) = new /\ new \in Device
    BY <1>1, <1>3 DEF Flushed, Object, Loaded
  <2>2. CASE cycle.base[d] # NoDevice /\ devices[d] # NoDevice /\ new.forced = cycle.base[d].forced
    <3> DEFINE to == devices[d].forced
    <3>1. WrittenRow(d) = [new EXCEPT !.forced = to]
      BY <2>2 DEF WrittenRow
    <3>2. to \in RouteTarget
      BY <1>1, <2>2 DEF Device
    <3>3. cycle.base[d] \in {NoDevice, devices[d]} => to = new.forced
      BY <2>2
    <3> HIDE DEF new, to
    <3>4. /\ [new EXCEPT !.forced = to] \in Device
          /\ [new EXCEPT !.forced = to].ip = new.ip /\ [new EXCEPT !.forced = to].key = new.key
          /\ [new EXCEPT !.forced = to].forced = to /\ [new EXCEPT !.forced = to].total = new.total
      BY <2>1, <3>2 DEF Device
    <3> QED BY <1>1, <2>1, <3>1, <3>3, <3>4
  <2>3. CASE ~(cycle.base[d] # NoDevice /\ devices[d] # NoDevice /\ new.forced = cycle.base[d].forced)
    <3>1. WrittenRow(d) = new
      BY <2>3 DEF WrittenRow
    <3> QED BY <1>1, <2>1, <3>1
  <2> QED BY <2>2, <2>3
<1> QED BY <1>2, <1>3

LEMMA JudgedRow ==
    ASSUME DevicesTyped, NEW rows \in [DevId -> Device \cup {NoDevice}], NEW d \in DevId
    PROVE  /\ Judged(rows)[d] \in Device \cup {NoDevice}
           /\ Judged(rows)[d] = NoDevice <=> rows[d] = NoDevice \/ d \in cycle.dead
           /\ Judged(rows)[d] # NoDevice =>
                 /\ Judged(rows)[d].ip = rows[d].ip /\ Judged(rows)[d].forced = rows[d].forced
                 /\ Judged(rows)[d].total = rows[d].total
                 /\ Judged(rows)[d].key[1] = "ip" => Judged(rows)[d].key = rows[d].key
<1> DEFINE row == rows[d]
           mac == cycle.neigh[row.ip]
<1>1. CASE row = NoDevice \/ d \in cycle.dead
  BY <1>1 DEF Judged
<1>2. CASE row # NoDevice /\ d \notin cycle.dead
  <2>1. row \in Device /\ NoDevice \notin Device
    BY <1>2, NoDeviceApart
  <2>2. mac \in DevMac \cup {"none"}
    BY <2>1 DEF DevicesTyped, CycleType, Device
  <2>3. CASE row.mac = "none" /\ mac # "none"
    <3> DEFINE key == <<"mac", mac>>
    <3>1. Judged(rows)[d] = [row EXCEPT !.mac = mac, !.key = key]
      BY <1>2, <2>3 DEF Judged
    <3>2. key \in {"mac"} \X DevMac /\ key[1] # "ip"
      BY <2>2, <2>3
    <3> HIDE DEF row, mac, key
    <3>3. /\ [row EXCEPT !.mac = mac, !.key = key] \in Device
          /\ [row EXCEPT !.mac = mac, !.key = key].ip = row.ip
          /\ [row EXCEPT !.mac = mac, !.key = key].forced = row.forced
          /\ [row EXCEPT !.mac = mac, !.key = key].key = key
          /\ [row EXCEPT !.mac = mac, !.key = key].total = row.total
      <4>1. PICK u, v, w, x, y : row = [mac |-> u, ip |-> v, key |-> w, forced |-> x, total |-> y]
        BY <2>1 DEF Device
      <4>2. [row EXCEPT !.mac = mac, !.key = key]
              = [mac |-> mac, ip |-> v, key |-> key, forced |-> x, total |-> y]
        <5>1. [row EXCEPT !.mac = mac] = [mac |-> mac, ip |-> v, key |-> w, forced |-> x, total |-> y]
          BY <4>1
        <5>2. \A b : b = [mac |-> mac, ip |-> v, key |-> w, forced |-> x, total |-> y] =>
                [b EXCEPT !.key = key] = [mac |-> mac, ip |-> v, key |-> key, forced |-> x, total |-> y]
          OBVIOUS
        <5>3. [row EXCEPT !.mac = mac, !.key = key] = [[row EXCEPT !.mac = mac] EXCEPT !.key = key]
          BY <4>1
        <5> QED BY <5>1, <5>2, <5>3
      <4> QED BY <2>1, <2>2, <3>2, <4>1, <4>2 DEF Device
    <3> QED BY <1>2, <2>1, <3>1, <3>2, <3>3 DEF row
  <2>4. CASE ~(row.mac = "none" /\ mac # "none")
    <3>1. Judged(rows)[d] = row
      BY <1>2, <2>4 DEF Judged
    <3> QED BY <1>2, <2>1, <3>1
  <2> QED BY <2>3, <2>4
<1> QED BY <1>1, <1>2

\* The rows that a cycle leaves have no address of one another, if not both are new.
LEMMA NewApart ==
    ASSUME DevicesTyped, AddressesApart, CyclePlaced, Resolving,
           NEW d \in DevId \ Known, NEW e \in Known, Object(d) # NoDevice
    PROVE  Object(d).ip # Object(e).ip
<1> SUFFICES ASSUME Object(d).ip = Object(e).ip PROVE FALSE
  OBVIOUS
<1>1. Loaded(d) /\ Object(d) = cycle.mem[d]
  BY DEF Object, Loaded, Known
<1>2. Object(d) \in Device
  BY <1>1 DEF DevicesTyped, CycleType
<1>3. Targets[Object(d).ip] = 0 /\ Object(d).ip \in DevIp
  BY <1>1, <1>2 DEF CyclePlaced, Device
<1>4. devices[e].ip # Object(d).ip
  BY <1>3, TargetKnown
<1>5. Loaded(e) /\ Object(e) = cycle.mem[e]
  BY <1>4 DEF Object, Loaded
<1>6. Targets[Object(e).ip] = e
  BY <1>4, <1>5 DEF CyclePlaced
<1>7. e # 0
  BY DevicesAssumption DEF Known
<1> QED BY <1>3, <1>6, <1>7

LEMMA OldApart ==
    ASSUME DevicesTyped, AddressesApart, CyclePlaced, Resolving,
           NEW d \in Known \ cycle.dead, NEW e \in Known \ cycle.dead, d # e
    PROVE  Object(d).ip # Object(e).ip
<1> SUFFICES ASSUME Object(d).ip = Object(e).ip PROVE FALSE
  OBVIOUS
<1>1. \A a : Object(a) = IF Loaded(a) THEN cycle.mem[a] ELSE devices[a]
  BY DEF Object, Loaded
<1>2. \A a, b \in Known : a # b /\ Loaded(a) /\ cycle.mem[a].ip = devices[b].ip =>
        b \in cycle.dead \/ (Loaded(b) /\ cycle.mem[b].ip # devices[b].ip)
  BY DEF CyclePlaced
<1>3. \A a \in Known : Loaded(a) => cycle.mem[a].ip = devices[a].ip \/ Targets[cycle.mem[a].ip] = a
  BY DEF CyclePlaced
<1>4. devices[d].ip # devices[e].ip
  BY DEF AddressesApart
<1>5. CASE ~Loaded(d) \/ ~Loaded(e)
  BY <1>1, <1>2, <1>4, <1>5
<1>6. CASE Loaded(d) /\ Loaded(e)
  <2>1. cycle.mem[d].ip = cycle.mem[e].ip
    BY <1>1, <1>6
  <2>2. cycle.mem[d].ip # devices[e].ip /\ cycle.mem[e].ip # devices[d].ip
    BY <1>2, <1>6, <2>1
  <2> QED BY <1>3, <1>6, <2>1, <2>2
<1> QED BY <1>5, <1>6

LEMMA FinishKeeps == ASSUME DevicesInv, FinishCycle PROVE DevicesInv'
<1>1. /\ DevicesTyped /\ AddressesApart /\ CyclePlaced /\ CycleRouted /\ Resolving
      /\ Unique(Flushed) /\ devices' = Judged(Flushed)
      /\ cycle' = IF cycle.dirty THEN [NoCycle EXCEPT !.phase = "reload"] ELSE NoCycle
      /\ overrides' = overrides /\ due' = (due \/ cycle.dirty) /\ overlap' = overlap
      /\ OverridesCurrent
  BY DEF FinishCycle, DevicesInv, Resolving
<1>2. PICK old : flows' = [f \in Flow |-> IF f \in old THEN -1 ELSE Counted[f]]
  BY DEF FinishCycle
<1>3. flows' \in [Flow -> -1..MaxBytes]
  <2>1. \A f \in Flow : Counted[f] \in -1..MaxBytes /\ -1 \in -1..MaxBytes
    BY <1>1, DevicesAssumption DEF Counted, DevicesTyped, CycleType
  <2> QED BY <1>2, <2>1
<1>4. Flushed \in [DevId -> Device \cup {NoDevice}]
  <2>1. \A d \in DevId : Flushed[d] \in Device \cup {NoDevice}
    BY <1>1, FlushedRow
  <2>2. Flushed = [d \in DevId |-> Flushed[d]]
    BY DEF Flushed
  <2> QED BY <2>1, <2>2
<1>5. devices' \in [DevId -> Device \cup {NoDevice}]
  <2>1. \A d \in DevId : devices'[d] \in Device \cup {NoDevice}
    BY <1>1, <1>4, JudgedRow
  <2>2. devices' = [d \in DevId |-> devices'[d]]
    BY <1>1 DEF Judged
  <2> QED BY <2>1, <2>2
<1>6. ASSUME NEW d \in DevId
      PROVE  /\ devices'[d] = NoDevice <=> Object(d) = NoDevice \/ d \in cycle.dead
             /\ devices'[d] # NoDevice =>
                   /\ devices'[d].ip = Object(d).ip
                   /\ devices'[d].key[1] = "ip" => devices'[d].key = Object(d).key
                   /\ cycle.base[d] \in {NoDevice, devices[d]} => devices'[d].forced = Object(d).forced
  <2>1. /\ Flushed[d] = NoDevice <=> Object(d) = NoDevice
        /\ Flushed[d] # NoDevice => Flushed[d].ip = Object(d).ip /\ Flushed[d].key = Object(d).key
        /\ Flushed[d] # NoDevice /\ cycle.base[d] \in {NoDevice, devices[d]} =>
              Flushed[d].forced = Object(d).forced
    BY <1>1, FlushedRow
  <2>2. /\ devices'[d] = NoDevice <=> Flushed[d] = NoDevice \/ d \in cycle.dead
        /\ devices'[d] # NoDevice =>
              /\ devices'[d].ip = Flushed[d].ip /\ devices'[d].forced = Flushed[d].forced
              /\ devices'[d].key[1] = "ip" => devices'[d].key = Flushed[d].key
    BY <1>1, <1>4, JudgedRow
  <2> QED BY <2>1, <2>2
<1>7. cycle' \in CycleType /\ cycle'.phase = IF cycle.dirty THEN "reload" ELSE "idle"
  BY <1>1, NoCycleType, ReloadType
<1>8. DevicesTyped'
  BY <1>1, <1>3, <1>5, <1>7 DEF DevicesTyped
<1>9. AddressesApart'
  <2>1. \A d \in Known' : d \in DevId \ cycle.dead /\ Object(d) # NoDevice
    BY <1>6 DEF Known
  <2>2. ASSUME NEW d \in Known', NEW e \in Known', d # e PROVE devices'[d].ip # devices'[e].ip
    <3>1. devices'[d].ip = Object(d).ip /\ devices'[e].ip = Object(e).ip
      BY <1>6, <2>2 DEF Known
    <3>2. CASE d \in Known \/ e \in Known
      BY <1>1, <2>1, <2>2, <3>1, <3>2, NewApart, OldApart
    <3>3. CASE d \notin Known /\ e \notin Known
      <4> SUFFICES ASSUME Object(d).ip = Object(e).ip PROVE FALSE
        BY <3>1
      <4>1. /\ Loaded(d) /\ Object(d) = cycle.mem[d] /\ Loaded(e) /\ Object(e) = cycle.mem[e]
            /\ d \in DevId \ Known /\ e \in DevId \ Known
        BY <2>1, <3>3 DEF Object, Loaded, Known
      <4>2. Object(d).key = Object(e).key
        <5>1. Object(d).key = NewRow(Object(d).ip, cycle.neigh[Object(d).ip]).key
          BY <1>1, <4>1 DEF CyclePlaced
        <5>2. Object(e).key = NewRow(Object(e).ip, cycle.neigh[Object(e).ip]).key
          BY <1>1, <4>1 DEF CyclePlaced
        <5> QED BY <5>1, <5>2
      <4>3. /\ Flushed[d] # NoDevice /\ Flushed[d].key = Object(d).key
            /\ Flushed[e] # NoDevice /\ Flushed[e].key = Object(e).key
        BY <1>1, <2>1, <4>1, FlushedRow
      <4> QED BY <1>1, <2>2, <4>1, <4>2, <4>3 DEF Unique
    <3> QED BY <3>2, <3>3
  <2>3. ASSUME NEW d \in Known', devices'[d].key[1] = "ip"
        PROVE  devices'[d].key = <<"ip", devices'[d].ip>>
    <3>1. /\ devices'[d].key = Object(d).key /\ devices'[d].ip = Object(d).ip
          /\ d \in DevId /\ Object(d) # NoDevice /\ Object(d).key[1] = "ip"
      BY <1>6, <2>3 DEF Known
    <3>2. CASE d \notin Known
      <4>1. Loaded(d) /\ Object(d) = cycle.mem[d]
        BY <3>1, <3>2 DEF Object, Loaded, Known
      <4>2. Object(d).key = NewRow(Object(d).ip, cycle.neigh[Object(d).ip]).key
        BY <1>1, <3>1, <3>2, <4>1 DEF CyclePlaced
      <4> QED BY <3>1, <4>2 DEF NewRow
    <3>3. CASE d \in Known /\ Loaded(d)
      <4>1. Object(d) = cycle.mem[d]
        BY <3>3 DEF Object, Loaded
      <4> QED BY <1>1, <3>1, <3>3, <4>1 DEF CyclePlaced
    <3>4. CASE d \in Known /\ ~Loaded(d)
      <4>1. Object(d) = devices[d]
        BY <3>4 DEF Object, Loaded
      <4> QED BY <1>1, <3>1, <3>4, <4>1 DEF AddressesApart
    <3> QED BY <3>2, <3>3, <3>4
  <2> QED BY <2>2, <2>3 DEF AddressesApart
<1>10. CyclePlaced' /\ CycleRouted'
  BY <1>7 DEF CyclePlaced, CycleRouted, Resolving
<1>11. ASSUME ~due', ~overlap' PROVE overrides' = Overridden(devices')
  <2>1. Overridden(Left) = overrides
    BY <1>1, <1>11 DEF CycleRouted, OverridesCurrent
  <2>2. \A d \in DevId : cycle.base[d] \in {NoDevice, devices[d]}
    BY <1>1, <1>11 DEF CycleRouted
  <2>3. ASSUME NEW d \in DevId PROVE RouteOf(devices'[d]) = RouteOf(Left[d])
    <3>1. Left[d] = NoDevice <=> devices'[d] = NoDevice
      BY <1>6 DEF Left
    <3>2. devices'[d] # NoDevice =>
            devices'[d].ip = Left[d].ip /\ devices'[d].forced = Left[d].forced
      BY <1>6, <2>2 DEF Left
    <3> QED BY <3>1, <3>2 DEF RouteOf
  <2>4. Overridden(devices') = Overridden(Left)
    BY <2>3, SameRoutes
  <2> QED BY <1>1, <2>1, <2>4
<1> QED BY <1>8, <1>9, <1>10, <1>11 DEF DevicesInv, OverridesCurrent

LEMMA DevicesStart == DevicesInit => DevicesInv
<1> SUFFICES ASSUME DevicesInit PROVE DevicesInv
  OBVIOUS
<1>1. cycle = NoCycle /\ cycle.phase = "idle" /\ cycle \in CycleType
  BY NoCycleType DEF DevicesInit
<1>2. \A d \in DevId : devices[d] = NoDevice
  BY DEF DevicesInit, NoRows
<1>3. Known = {} /\ devices \in [DevId -> Device \cup {NoDevice}]
  BY <1>2 DEF Known, DevicesInit, NoRows
<1>4. flows \in [Flow -> -1..MaxBytes]
  BY DevicesAssumption DEF DevicesInit
<1>5. OverridesCurrent
  BY <1>2 DEF Overridden, DevicesInit, OverridesCurrent
<1>6. DevicesTyped
  BY <1>1, <1>3, <1>4 DEF DevicesTyped, DevicesInit
<1>7. AddressesApart /\ CyclePlaced /\ CycleRouted
  BY <1>1, <1>3 DEF AddressesApart, CyclePlaced, CycleRouted, Resolving
<1> QED BY <1>5, <1>6, <1>7 DEF DevicesInv

LEMMA DevicesStep == DevicesInv /\ [DevicesNext]_devicesVars => DevicesInv'
<1> SUFFICES ASSUME DevicesInv, [DevicesNext]_devicesVars PROVE DevicesInv'
  OBVIOUS
<1>1. CASE BeginCycle BY <1>1, BeginKeeps
<1>2. CASE ConntrackCandidate BY <1>2, ConntrackKeeps
<1>3. CASE NeighbourLoop BY <1>3, LoopKeeps
<1>4. CASE NeighbourCandidate BY <1>4, NeighbourKeeps
<1>5. CASE FinishCycle BY <1>5, FinishKeeps
<1>6. CASE LoseCycle BY <1>6, LoseKeeps
<1>7. CASE Reload BY <1>7, ReloadKeeps
<1>8. CASE PutDevice BY <1>8, PutKeeps
<1>10. CASE Plan BY <1>10, PlanKeeps
<1>9. CASE UNCHANGED devicesVars
  <2>1. /\ devices' = devices /\ flows' = flows /\ overrides' = overrides
        /\ cycle' = cycle /\ due' = due /\ overlap' = overlap
    BY <1>9 DEF devicesVars
  <2>2. Targets' = Targets /\ Known' = Known
    BY <2>1, TargetsStay
  <2>3. Left' = Left /\ \A d : Loaded(d)' <=> Loaded(d)
    BY <2>1 DEF Left, Object, Loaded
  <2>4. DevicesTyped' /\ AddressesApart'
    BY <2>1, <2>2 DEF DevicesInv, DevicesTyped, AddressesApart
  <2>5. CyclePlaced'
    BY <2>1, <2>2, <2>3 DEF DevicesInv, CyclePlaced, Resolving, Loaded
  <2>6. CycleRouted'
    BY <2>1, <2>2, <2>3 DEF DevicesInv, CycleRouted, Resolving, Loaded
  <2>7. OverridesCurrent'
    BY <2>1 DEF DevicesInv, OverridesCurrent
  <2> QED BY <2>4, <2>5, <2>6, <2>7 DEF DevicesInv
<1> QED BY <1>1, <1>2, <1>3, <1>4, <1>5, <1>6, <1>7, <1>8, <1>9, <1>10 DEF DevicesNext

LEMMA DevicesAlways == DevicesSpec => []DevicesInv
BY DevicesStart, DevicesStep, PTL DEF DevicesSpec

\* Type correctness of the device inventory: what the neighbour table, merged rows and
\* changes by the operator make of a row of tracked_devices is a row again.
THEOREM DevicesTypeCorrect == DevicesSpec => []DevicesTypeOK
<1>1. DevicesInv => DevicesTypeOK
  BY DEF DevicesInv, DevicesTyped, CycleType, DevicesTypeOK
<1> QED BY <1>1, DevicesAlways, PTL

\* Unless a plan is due, or the operator changed a row in the middle of a cycle, the
\* routes of single devices in the kernel are those of the rows, whichever devices move,
\* merge, come back or share a table entry, whichever cycles are lost, and however many
\* plans were skipped or failed before: no cycle moves a route without asking for a plan.
THEOREM OverridesCorrect == DevicesSpec => []OverridesCurrent
<1>1. DevicesInv => OverridesCurrent
  BY DEF DevicesInv
<1> QED BY <1>1, DevicesAlways, PTL

---------------------------------------------------------------------------
(* Bytes of devices *)

\* Bytes of a row, of the committed rows, of the rows that the cycle leaves, of the flow
\* states, and of the flow states as the cycle has read them so far
Bytes(row) == IF row = NoDevice THEN 0 ELSE row.total
RowBytes  == [d \in DevId |-> Bytes(devices[d])]
LeftBytes == [d \in DevId |-> Bytes(Left[d])]
FlowBytes == [f \in Flow |-> IF flows[f] < 0 THEN 0 ELSE flows[f]]
Pending   == IF cycle.phase = "candidates" THEN cycle.todo ELSE {}
ReadBytes == [f \in Flow |-> IF cycle.seen[f] >= 0 /\ f \notin Pending THEN cycle.seen[f] ELSE FlowBytes[f]]

BytesInv ==
    /\ SumFunctionOnSet(RowBytes, DevId) >= SumFunctionOnSet(FlowBytes, Flow)
    /\ Resolving => SumFunctionOnSet(LeftBytes, DevId) >= SumFunctionOnSet(ReadBytes, Flow)

LEMMA DeviceSetsFinite == IsFiniteSet(DevId) /\ IsFiniteSet(Flow)
BY DevicesAssumption

LEMMA RowBytesType == ASSUME NEW row \in Device \cup {NoDevice} PROVE Bytes(row) \in Nat
BY DEF Bytes, Device

LEMMA LeftType ==
    ASSUME DevicesTyped, NEW d \in DevId
    PROVE  /\ Left[d] \in Device \cup {NoDevice} /\ LeftBytes[d] \in Nat
           /\ devices[d] \in Device \cup {NoDevice} /\ RowBytes[d] \in Nat
<1>1. Left[d] \in Device \cup {NoDevice} /\ devices[d] \in Device \cup {NoDevice}
  BY DEF DevicesTyped, CycleType, Left, Object
<1> QED BY <1>1, RowBytesType DEF LeftBytes, RowBytes

LEMMA FlowType ==
    ASSUME DevicesTyped, NEW f \in Flow
    PROVE  flows[f] \in Int /\ cycle.seen[f] \in Int /\ FlowBytes[f] \in Nat /\ ReadBytes[f] \in Nat
<1>1. flows[f] \in Int /\ cycle.seen[f] \in Int
  BY DevicesAssumption DEF DevicesTyped, CycleType
<1>2. FlowBytes[f] \in Nat
  BY <1>1 DEF FlowBytes
<1> QED BY <1>1, <1>2 DEF ReadBytes

\* A candidate adds its bytes to those of the rows that the cycle leaves, at least.
LEMMA ResolveAdds ==
    ASSUME DevicesTyped, AddressesApart, NEW ip \in DevIp, NEW bytes \in Nat, NEW rest, NEW phase,
           Resolve(ip, bytes, rest, phase)
    PROVE  SumFunctionOnSet(LeftBytes', DevId) >= SumFunctionOnSet(LeftBytes, DevId) + bytes
<1>1. /\ \/ \E id, got : MadeNew(ip, id, got) /\ got.total = bytes
         \/ \E id, i, got : MadeSeen(ip, id, i, got) /\ got.total = Gathered(id, i) + bytes
      /\ devices' = devices
  BY ResolveMeans
<1>2. /\ cycle.mem \in [DevId -> Device \cup {NoDevice}] /\ Known \subseteq DevId /\ 0 \notin DevId
      /\ \A d \in DevId : LeftBytes[d] \in Nat /\ LeftBytes'[d] = Bytes(Left'[d])
  BY LeftType, DevicesAssumption DEF DevicesTyped, CycleType, Known, LeftBytes, Bytes
<1>3. CASE \E id, got : MadeNew(ip, id, got) /\ got.total = bytes
  <2>1. PICK id, got : MadeNew(ip, id, got) /\ got.total = bytes
    BY <1>3
  <2>2. /\ id \in DevId \ Known /\ cycle'.mem[id] = got /\ cycle'.dead = cycle.dead \ {id}
        /\ \A d \in DevId \ {id} : cycle'.mem[d] = cycle.mem[d]
        /\ got \in Device /\ cycle.mem[id] = NoDevice /\ devices[id] = NoDevice
    BY <1>2, <2>1 DEF MadeNew, Loaded, Known
  <2>3. \A d \in DevId \ {id} : LeftBytes'[d] = LeftBytes[d]
    BY <1>1, <2>2 DEF LeftBytes, Left, Object, Bytes
  <2>4. LeftBytes[id] = 0 /\ LeftBytes'[id] = bytes
    <3>1. Left'[id] = got /\ Left[id] = NoDevice
      BY <2>2, NoDeviceApart DEF Left, Object
    <3> QED BY <2>1, <2>2, <3>1, NoDeviceApart DEF LeftBytes, Bytes
  <2> DEFINE f == LeftBytes
             g == LeftBytes'
  <2>5. /\ \A d \in DevId : f[d] \in Int /\ g[d] \in Int
        /\ \A d \in DevId : d \notin {id, id} => g[d] = f[d]
        /\ g[id] >= f[id] + bytes /\ id \in DevId
    BY <1>2, <2>2, <2>3, <2>4
  <2> HIDE DEF f, g
  <2>6. SumFunctionOnSet(g, DevId) >= SumFunctionOnSet(f, DevId) + bytes
    BY <2>5, DeviceSetsFinite, SumGains
  <2> QED BY <2>6 DEF f, g
<1>4. CASE \E id, i, got : MadeSeen(ip, id, i, got) /\ got.total = Gathered(id, i) + bytes
  <2>1. PICK id, i, got : MadeSeen(ip, id, i, got) /\ got.total = Gathered(id, i) + bytes
    BY <1>4
  <2>2. /\ id \in Known /\ got \in Device /\ (i # 0 => i \in Known)
    BY <2>1, ByAddress DEF MadeSeen
  <2>3. /\ cycle'.mem[id] = got
        /\ \A d \in DevId \ {id} :
              cycle'.mem[d] = IF d = i /\ ~Loaded(i) THEN devices[i] ELSE cycle.mem[d]
        /\ cycle'.dead = (IF i \notin {0, id} THEN cycle.dead \cup {i} ELSE cycle.dead) \ {id}
    BY <1>2, <2>1, <2>2 DEF MadeSeen
  <2>4. \A d \in DevId \ {id, i} : LeftBytes'[d] = LeftBytes[d]
    BY <1>1, <2>3 DEF LeftBytes, Left, Object, Bytes
  <2>5. Object(id) \in Device /\ (i # 0 => Object(i) \in Device)
    BY <2>2, ObjectType
  <2>6. /\ Object(id).total \in Nat /\ LeftBytes[id] <= Object(id).total
        /\ i # 0 => Object(i).total \in Nat /\ LeftBytes[i] <= Object(i).total
    BY <1>2, <2>2, <2>5, NoDeviceApart DEF LeftBytes, Left, Bytes, Device
  <2>7. LeftBytes'[id] = got.total
    <3>1. Left'[id] = got
      BY <1>2, <2>2, <2>3, NoDeviceApart DEF Left, Object
    <3> QED BY <1>2, <2>2, <3>1, NoDeviceApart DEF Bytes
  <2> DEFINE f == LeftBytes
             g == LeftBytes'
             y == IF i = 0 THEN id ELSE i
  <2>8. y \in DevId /\ id \in DevId
    BY <1>2, <2>2
  <2>9. \A d \in DevId : d \notin {id, y} => g[d] = f[d]
    BY <1>2, <2>4
  <2>10. got.total \in Nat
    BY <2>2 DEF Device
  <2>11. \A d \in DevId : f[d] \in Int /\ g[d] \in Int
    <3>1. ASSUME NEW d \in DevId PROVE LeftBytes'[d] \in Int
      <4>1. CASE d = id
        BY <2>7, <2>10, <4>1
      <4>2. CASE d = i /\ d # id
        <5>1. Left'[d] = NoDevice
          BY <1>2, <2>3, <4>2 DEF Left
        <5> QED BY <1>2, <5>1 DEF Bytes
      <4>3. CASE d \notin {i, id}
        BY <1>2, <2>4, <4>3
      <4> QED BY <4>1, <4>2, <4>3
    <3> QED BY <1>2, <3>1
  <2>12. IF id = y THEN g[id] >= f[id] + bytes ELSE g[id] + g[y] >= f[id] + f[y] + bytes
    <3>1. CASE id = y
      <4>1. i \in {0, id} /\ got.total = Object(id).total + bytes
        BY <2>1, <2>6, <3>1 DEF Gathered
      <4> QED BY <1>2, <2>2, <2>6, <2>7, <2>8, <3>1, <4>1
    <3>2. CASE id # y
      <4>1. y = i /\ i \notin {0, id} /\ got.total = Object(id).total + Object(i).total + bytes
        BY <2>1, <2>6, <3>2 DEF Gathered
      <4>2. Left'[i] = NoDevice /\ LeftBytes'[i] = 0
        BY <1>2, <2>2, <2>3, <4>1 DEF Left, Bytes
      <4>3. f[id] \in Nat /\ f[i] \in Nat
        BY <1>2, <2>8, <4>1
      <4> HIDE DEF y
      <4> QED BY <2>6, <2>7, <3>2, <4>1, <4>2, <4>3
    <3> QED BY <3>1, <3>2
  <2> HIDE DEF f, g, y
  <2>13. SumFunctionOnSet(g, DevId) >= SumFunctionOnSet(f, DevId) + bytes
    BY <2>8, <2>9, <2>11, <2>12, DeviceSetsFinite, SumGains
  <2> QED BY <2>13 DEF f, g
<1> QED BY <1>1, <1>3, <1>4

LEMMA SumsTyped ==
    ASSUME DevicesTyped
    PROVE  SumFunctionOnSet(LeftBytes, DevId) \in Int /\ SumFunctionOnSet(ReadBytes, Flow) \in Int
<1>1. (\A d \in DevId : LeftBytes[d] \in Int) /\ (\A f \in Flow : ReadBytes[f] \in Int)
  BY LeftType, FlowType
<1> QED BY <1>1, DeviceSetsFinite, SumTakesOne

LEMMA SumsTypedLater ==
    ASSUME DevicesTyped'
    PROVE  SumFunctionOnSet(LeftBytes', DevId) \in Int
<1>1. \A d \in DevId : Left'[d] \in Device \cup {NoDevice}
  BY DEF DevicesTyped, CycleType, Left, Object
<1>2. \A d \in DevId : LeftBytes'[d] \in Int
  BY <1>1, RowBytesType DEF LeftBytes, Bytes
<1> DEFINE g == LeftBytes'
<1>3. \A d \in DevId : g[d] \in Int
  BY <1>2
<1> HIDE DEF g
<1>4. SumFunctionOnSet(g, DevId) \in Int
  BY <1>3, DeviceSetsFinite, SumTakesOne
<1> QED BY <1>4 DEF g

LEMMA ResolveKeepsBytes ==
    ASSUME DevicesTyped, DevicesTyped', AddressesApart, BytesInv, Resolving, NEW ip \in DevIp,
           NEW bytes \in Nat, NEW rest, NEW phase, Resolve(ip, bytes, rest, phase),
           SumFunctionOnSet(ReadBytes', Flow) \in Int,
           SumFunctionOnSet(ReadBytes, Flow) + bytes >= SumFunctionOnSet(ReadBytes', Flow)
    PROVE  BytesInv'
<1>1. SumFunctionOnSet(LeftBytes', DevId) >= SumFunctionOnSet(LeftBytes, DevId) + bytes
  BY ResolveAdds
<1>2. devices' = devices /\ flows' = flows
  BY ResolveMeans
<1>3. RowBytes' = RowBytes /\ FlowBytes' = FlowBytes
  BY <1>2 DEF RowBytes, FlowBytes, Bytes
<1>4. SumFunctionOnSet(LeftBytes, DevId) >= SumFunctionOnSet(ReadBytes, Flow)
  BY DEF BytesInv
<1>5. SumFunctionOnSet(LeftBytes', DevId) >= SumFunctionOnSet(ReadBytes', Flow)
  BY <1>1, <1>4, SumsTyped, SumsTypedLater
<1> QED BY <1>3, <1>5 DEF BytesInv

\* What has been counted of a connection is at most what was, and its delta.
LEMMA DeltaCovers ==
    ASSUME NEW last \in Int, last >= -1, NEW now \in Nat
    PROVE  /\ Delta(last, now) \in Nat
           /\ (IF last < 0 THEN 0 ELSE last) + Delta(last, now) >= now
BY DEF Delta

LEMMA ConntrackKeepsBytes ==
    ASSUME DevicesTyped, DevicesTyped', AddressesApart, BytesInv, ConntrackCandidate
    PROVE  BytesInv'
<1>1. PICK f \in cycle.todo :
        Resolve(f[1], Delta(flows[f], cycle.seen[f]), cycle.todo \ {f}, "candidates")
  BY DEF ConntrackCandidate
<1>2. cycle.phase = "candidates" /\ Resolving
  BY DEF ConntrackCandidate, Resolving
<1>3. f \in Flow /\ cycle.seen[f] >= 0 /\ f[1] \in DevIp
  BY <1>2, DevicesAssumption DEF DevicesTyped
<1> DEFINE bytes == Delta(flows[f], cycle.seen[f])
<1>4. bytes \in Nat /\ FlowBytes[f] + bytes >= cycle.seen[f]
  <2>1. cycle.seen[f] \in Nat /\ flows[f] \in Int /\ flows[f] >= -1
    BY <1>3, DevicesAssumption DEF DevicesTyped, CycleType
  <2> QED BY <1>3, <2>1, DeltaCovers DEF FlowBytes
<1> HIDE DEF bytes
<1>5. Resolve(f[1], bytes, cycle.todo \ {f}, "candidates")
  BY <1>1 DEF bytes
<1>6. /\ flows' = flows /\ cycle'.seen = cycle.seen /\ cycle'.phase = "candidates"
      /\ cycle'.todo = cycle.todo \ {f}
  BY <1>3, <1>4, <1>5, ResolveMeans
<1>7. FlowBytes' = FlowBytes /\ Pending = cycle.todo /\ Pending' = cycle.todo \ {f}
  BY <1>2, <1>6 DEF FlowBytes, Pending
<1>8. /\ \A g \in Flow \ {f} : ReadBytes'[g] = ReadBytes[g]
      /\ ReadBytes[f] = FlowBytes[f] /\ ReadBytes'[f] = cycle.seen[f]
  BY <1>3, <1>6, <1>7 DEF ReadBytes
<1> DEFINE h == ReadBytes
           g == ReadBytes'
           n == 0 - bytes
<1>9. /\ \A u \in Flow : g[u] \in Int /\ h[u] \in Int
      /\ n \in Int /\ h[f] >= g[f] + n
      /\ \A u \in Flow : u \notin {f, f} => h[u] = g[u]
  <2>1. \A u \in Flow : ReadBytes[u] \in Int /\ cycle.seen[f] \in Int /\ FlowBytes[f] \in Int
    BY <1>3, FlowType
  <2> QED BY <1>3, <1>4, <1>8, <2>1
<1> HIDE DEF g, h
<1>10. SumFunctionOnSet(h, Flow) >= SumFunctionOnSet(g, Flow) + n
  <2> HIDE DEF n
  <2> QED BY <1>3, <1>9, DeviceSetsFinite, SumGains
<1>11. SumFunctionOnSet(g, Flow) \in Int /\ SumFunctionOnSet(h, Flow) \in Int
  BY <1>9, DeviceSetsFinite, SumTakesOne
<1>12. SumFunctionOnSet(h, Flow) + bytes >= SumFunctionOnSet(g, Flow)
  BY <1>4, <1>10, <1>11
<1> USE DEF g, h
<1>13. /\ SumFunctionOnSet(ReadBytes', Flow) \in Int
       /\ SumFunctionOnSet(ReadBytes, Flow) + bytes >= SumFunctionOnSet(ReadBytes', Flow)
  BY <1>11, <1>12
<1> QED BY <1>2, <1>3, <1>4, <1>5, <1>13, ResolveKeepsBytes

LEMMA NeighbourKeepsBytes ==
    ASSUME DevicesTyped, DevicesTyped', AddressesApart, BytesInv, NeighbourCandidate
    PROVE  BytesInv'
<1>1. PICK ip \in cycle.todo : Resolve(ip, 0, cycle.todo \ {ip}, "neighbours")
  BY DEF NeighbourCandidate
<1>2. cycle.phase = "neighbours" /\ Resolving /\ ip \in DevIp
  BY DEF NeighbourCandidate, Resolving, DevicesTyped
<1>3. flows' = flows /\ cycle'.seen = cycle.seen /\ cycle'.phase = "neighbours"
  BY <1>1, <1>2, ResolveMeans
<1>4. ReadBytes' = ReadBytes
  BY <1>2, <1>3 DEF ReadBytes, FlowBytes, Pending
<1>5. SumFunctionOnSet(ReadBytes, Flow) \in Int
  BY SumsTyped
<1>6. /\ SumFunctionOnSet(ReadBytes', Flow) \in Int
      /\ SumFunctionOnSet(ReadBytes, Flow) + 0 >= SumFunctionOnSet(ReadBytes', Flow)
  BY <1>4, <1>5
<1> QED BY <1>1, <1>2, <1>6, ResolveKeepsBytes

\* At its start a cycle has loaded no row, and connections that it leaves out have the
\* bytes of their flow state.
LEMMA BeginKeepsBytes == ASSUME DevicesTyped, BytesInv, BeginCycle PROVE BytesInv'
<1>1. PICK s \in Sights :
        cycle' = [NoCycle EXCEPT !.phase = "candidates", !.neigh = s.neigh, !.here = s.here,
                                 !.seen = s.seen,
                                 !.todo = {f \in Flow : s.seen[f] >= 0 /\ Fresh(flows[f], s.seen[f])}]
  BY DEF BeginCycle
<1> DEFINE todo == {f \in Flow : s.seen[f] >= 0 /\ Fresh(flows[f], s.seen[f])}
<1>2. /\ cycle'.phase = "candidates" /\ cycle'.todo = todo /\ cycle'.seen = s.seen
      /\ cycle'.mem = NoRows /\ cycle'.dead = {}
  BY <1>1 DEF NoCycle
<1>3. devices' = devices /\ flows' = flows
  BY DEF BeginCycle
<1>4. RowBytes' = RowBytes /\ FlowBytes' = FlowBytes
  BY <1>3 DEF RowBytes, FlowBytes, Bytes
<1>5. LeftBytes' = RowBytes
  <2>1. \A d \in DevId : Left'[d] = devices[d]
    BY <1>2, <1>3 DEF Left, Object, NoRows
  <2> QED BY <2>1 DEF LeftBytes, RowBytes, Bytes
<1>6. ReadBytes' = FlowBytes
  <2>1. ASSUME NEW f \in Flow, s.seen[f] >= 0, f \notin todo PROVE s.seen[f] = FlowBytes[f]
    <3>1. ~Fresh(flows[f], s.seen[f])
      BY <2>1
    <3>2. s.seen[f] \in Int /\ flows[f] \in Int /\ flows[f] >= -1
      BY DevicesAssumption DEF DevicesTyped
    <3> QED BY <2>1, <3>1, <3>2 DEF Fresh, FlowBytes
  <2>2. Pending' = todo
    BY <1>2 DEF Pending
  <2> HIDE DEF todo
  <2>3. \A f \in Flow : (IF s.seen[f] >= 0 /\ f \notin todo THEN s.seen[f] ELSE FlowBytes[f]) = FlowBytes[f]
    BY <2>1
  <2>4. ReadBytes' = [f \in Flow |-> IF s.seen[f] >= 0 /\ f \notin todo THEN s.seen[f] ELSE FlowBytes[f]]
    BY <1>2, <1>4, <2>2 DEF ReadBytes
  <2>5. FlowBytes = [f \in Flow |-> FlowBytes[f]]
    BY DEF FlowBytes
  <2> QED BY <2>3, <2>4, <2>5
<1> QED BY <1>4, <1>5, <1>6 DEF BytesInv

\* The rows of a cycle are committed with the flow states of what it has read.
LEMMA FinishKeepsBytes == ASSUME DevicesTyped, BytesInv, FinishCycle PROVE BytesInv'
<1>1. /\ devices' = Judged(Flushed) /\ cycle.phase = "neighbours" /\ Resolving
      /\ cycle' = IF cycle.dirty THEN [NoCycle EXCEPT !.phase = "reload"] ELSE NoCycle
  BY DEF FinishCycle, Resolving
<1>2. PICK old \in SUBSET {f \in Flow : cycle.seen[f] < 0} :
        flows' = [f \in Flow |-> IF f \in old THEN -1 ELSE Counted[f]]
  BY DEF FinishCycle
<1>3. ~Resolving'
  BY <1>1, NoCycleType, ReloadType DEF Resolving
<1>4. \A d \in DevId : Flushed[d] \in Device \cup {NoDevice}
  BY FlushedRow
<1>5. Flushed \in [DevId -> Device \cup {NoDevice}]
  BY <1>4 DEF Flushed
<1>6. RowBytes' = LeftBytes
  <2>1. ASSUME NEW d \in DevId PROVE Bytes(devices'[d]) = Bytes(Left[d])
    <3>1. /\ Flushed[d] = NoDevice <=> Object(d) = NoDevice
          /\ Flushed[d] # NoDevice => Flushed[d].total = Object(d).total
      BY FlushedRow
    <3>2. /\ devices'[d] = NoDevice <=> Flushed[d] = NoDevice \/ d \in cycle.dead
          /\ devices'[d] # NoDevice => devices'[d].total = Flushed[d].total
      BY <1>1, <1>5, JudgedRow
    <3> QED BY <3>1, <3>2 DEF Left, Bytes
  <2>2. RowBytes' = [d \in DevId |-> Bytes(devices'[d])]
    BY DEF RowBytes, Bytes
  <2> QED BY <2>1, <2>2 DEF LeftBytes
<1>7. ASSUME NEW f \in Flow
      PROVE  /\ FlowBytes'[f] \in Int /\ ReadBytes[f] \in Int /\ FlowBytes'[f] <= ReadBytes[f]
  <2>1. flows[f] \in Int /\ cycle.seen[f] \in Int /\ ReadBytes[f] \in Nat
    BY FlowType
  <2>2. flows'[f] = IF f \in old THEN -1 ELSE IF cycle.seen[f] >= 0 THEN cycle.seen[f] ELSE flows[f]
    BY <1>2 DEF Counted
  <2>3. ReadBytes[f] = IF cycle.seen[f] >= 0 THEN cycle.seen[f]
                       ELSE IF flows[f] < 0 THEN 0 ELSE flows[f]
    BY <1>1 DEF ReadBytes, FlowBytes, Pending
  <2>4. FlowBytes'[f] = IF flows'[f] < 0 THEN 0 ELSE flows'[f]
    BY DEF FlowBytes
  <2> QED BY <2>1, <2>2, <2>3, <2>4
<1> DEFINE g == FlowBytes'
           h == ReadBytes
<1>8. \A f \in Flow : g[f] \in Int /\ h[f] \in Int /\ g[f] <= h[f]
  BY <1>7
<1> HIDE DEF g, h
<1>9. /\ SumFunctionOnSet(g, Flow) \in Int /\ SumFunctionOnSet(h, Flow) \in Int
      /\ SumFunctionOnSet(g, Flow) <= SumFunctionOnSet(h, Flow)
  BY <1>8, DeviceSetsFinite, SumsOrdered
<1> USE DEF g, h
<1>10. SumFunctionOnSet(LeftBytes, DevId) >= SumFunctionOnSet(FlowBytes', Flow)
  <2>1. SumFunctionOnSet(LeftBytes, DevId) >= SumFunctionOnSet(ReadBytes, Flow)
    BY <1>1 DEF BytesInv
  <2> QED BY <1>9, <2>1, SumsTyped
<1> QED BY <1>3, <1>6, <1>10 DEF BytesInv

LEMMA PutKeepsBytes == ASSUME DevicesTyped, BytesInv, PutDevice PROVE BytesInv'
<1>1. PICK d \in Known, forced \in RouteTarget : devices' = [devices EXCEPT ![d].forced = forced]
  BY DEF PutDevice
<1>2. flows' = flows /\ cycle' = cycle
  BY DEF PutDevice
<1>3. /\ devices \in [DevId -> Device \cup {NoDevice}] /\ d \in DevId /\ devices[d] \in Device
  BY KnownDevice DEF DevicesTyped
<1> DEFINE row == [devices[d] EXCEPT !.forced = forced]
<1>4. row \in Device /\ row.total = devices[d].total
  BY <1>3 DEF Device
<1>5. devices' = [devices EXCEPT ![d] = row]
  BY <1>1
<1> HIDE DEF row
<1>6. \A e \in DevId : Bytes(devices'[e]) = Bytes(devices[e]) /\ (devices'[e] = NoDevice <=> devices[e] = NoDevice)
  BY <1>3, <1>4, <1>5, NoDeviceApart DEF Bytes
<1>7. RowBytes' = RowBytes
  BY <1>6 DEF RowBytes, Bytes
<1>8. LeftBytes' = LeftBytes
  <2>1. \A e \in DevId : Bytes(Left'[e]) = Bytes(Left[e])
    BY <1>2, <1>6 DEF Left, Object, Bytes
  <2> QED BY <2>1 DEF LeftBytes, Bytes
<1>9. FlowBytes' = FlowBytes /\ ReadBytes' = ReadBytes
  BY <1>2 DEF FlowBytes, ReadBytes, Pending
<1> QED BY <1>2, <1>7, <1>8, <1>9 DEF BytesInv, Resolving

LEMMA BytesStep == DevicesInv /\ BytesInv /\ [DevicesNext]_devicesVars => BytesInv'
<1> SUFFICES ASSUME DevicesInv, BytesInv, [DevicesNext]_devicesVars PROVE BytesInv'
  OBVIOUS
<1>1. DevicesTyped /\ AddressesApart /\ DevicesTyped'
  BY DevicesStep DEF DevicesInv
<1>2. CASE UNCHANGED <<devices, flows>> /\ ~Resolving'
  <2>1. RowBytes' = RowBytes /\ FlowBytes' = FlowBytes
    BY <1>2 DEF RowBytes, FlowBytes, Bytes
  <2> QED BY <1>2, <2>1 DEF BytesInv
<1>3. CASE NeighbourLoop \/ Plan \/ UNCHANGED devicesVars
  <2>1. /\ devices' = devices /\ flows' = flows /\ cycle'.mem = cycle.mem /\ cycle'.dead = cycle.dead
        /\ cycle'.seen = cycle.seen /\ (Resolving' => Resolving) /\ Pending' = Pending
    <3>1. CASE NeighbourLoop
      <4>1. /\ cycle' = [cycle EXCEPT !.phase = "neighbours", !.todo = cycle.here \ Sources]
            /\ devices' = devices /\ flows' = flows /\ cycle.phase = "candidates" /\ cycle.todo = {}
        BY <3>1 DEF NeighbourLoop
      <4>2. /\ cycle'.phase = "neighbours" /\ cycle'.mem = cycle.mem /\ cycle'.dead = cycle.dead
            /\ cycle'.seen = cycle.seen
        BY <1>1, <4>1 DEF DevicesTyped, CycleType
      <4> QED BY <4>1, <4>2 DEF Pending, Resolving
    <3>2. CASE Plan \/ UNCHANGED devicesVars
      BY <3>2 DEF Plan, devicesVars, Pending, Resolving
    <3> QED BY <1>3, <3>1, <3>2
  <2>2. RowBytes' = RowBytes /\ FlowBytes' = FlowBytes
    BY <2>1 DEF RowBytes, FlowBytes, Bytes
  <2>3. Left' = Left
    BY <2>1 DEF Left, Object
  <2>4. LeftBytes' = LeftBytes /\ ReadBytes' = ReadBytes
    BY <2>1, <2>2, <2>3 DEF LeftBytes, ReadBytes, Bytes
  <2> QED BY <2>1, <2>2, <2>4 DEF BytesInv
<1>4. CASE LoseCycle \/ Reload
  <2>1. UNCHANGED <<devices, flows>> /\ cycle' = NoCycle
    BY <1>4 DEF LoseCycle, Reload
  <2>2. ~Resolving'
    BY <2>1, NoCycleType DEF Resolving
  <2> QED BY <1>2, <2>1, <2>2
<1> QED BY <1>1, <1>3, <1>4, ConntrackKeepsBytes, NeighbourKeepsBytes, BeginKeepsBytes,
           FinishKeepsBytes, PutKeepsBytes DEF DevicesNext

LEMMA BytesStart == DevicesInit => BytesInv
<1> SUFFICES ASSUME DevicesInit PROVE BytesInv
  OBVIOUS
<1>1. DevicesTyped /\ ~Resolving
  BY DevicesStart, NoCycleType DEF DevicesInv, DevicesInit, Resolving
<1>2. \A d \in DevId : RowBytes[d] = 0
  BY DEF DevicesInit, NoRows, RowBytes, Bytes
<1>3. \A f \in Flow : FlowBytes[f] = 0
  BY DEF DevicesInit, FlowBytes
<1>4. SumFunctionOnSet(RowBytes, DevId) = SumFunctionOnSet(RowBytes, {})
  <2>1. \A d \in DevId : RowBytes[d] \in Int
    BY <1>2
  <2>2. {} \subseteq DevId /\ \A d \in DevId \ {} : RowBytes[d] = 0
    BY <1>2
  <2> HIDE DEF RowBytes
  <2> QED BY <2>1, <2>2, DeviceSetsFinite, SumOfPart
<1>5. SumFunctionOnSet(FlowBytes, Flow) = SumFunctionOnSet(FlowBytes, {})
  <2>1. \A d \in Flow : FlowBytes[d] \in Int
    BY <1>3
  <2>2. {} \subseteq Flow /\ \A d \in Flow \ {} : FlowBytes[d] = 0
    BY <1>3
  <2> QED BY <2>1, <2>2, DeviceSetsFinite, SumOfPart
<1>6. SumFunctionOnSet(RowBytes, {}) = 0 /\ SumFunctionOnSet(FlowBytes, {}) = 0
  <2>1. IsFiniteSet({})
    BY FS_EmptySet
  <2> QED BY <2>1, SumTakesOne
<1> QED BY <1>1, <1>4, <1>5, <1>6 DEF BytesInv

\* Whatever rows are merged, brought back or created, whichever cycles are lost and whatever
\* the operator does meanwhile, the bytes that the flow states say were counted are in the
\* totals of devices, for any devices, connections and sights; by the invariant that the rows
\* which a cycle is going to leave hold at least what it has read so far.
THEOREM BytesCorrect == DevicesSpec => []BytesKept
<1>1. DevicesInv /\ BytesInv => BytesKept
  <2> SUFFICES ASSUME DevicesInv, BytesInv PROVE BytesKept
    OBVIOUS
  <2>1. DevicesTyped
    BY DEF DevicesInv
  <2>2. SumFunctionOnSet(RowBytes, DevId) = SumFunctionOnSet([d \in Known |-> devices[d].total], Known)
    <3> DEFINE totals == [d \in Known |-> devices[d].total]
    <3>1. \A d \in DevId : RowBytes[d] \in Int
      BY <2>1, LeftType
    <3>2. Known \subseteq DevId /\ \A d \in DevId \ Known : RowBytes[d] = 0
      BY DEF Known, RowBytes, Bytes
    <3>3. SumFunctionOnSet(RowBytes, DevId) = SumFunctionOnSet(RowBytes, Known)
      BY <3>1, <3>2, DeviceSetsFinite, SumOfPart
    <3>4. IsFiniteSet(Known)
      BY <3>2, DeviceSetsFinite, FS_Subset
    <3>5. \A d \in Known : RowBytes[d] \in Int /\ totals[d] = RowBytes[d]
      BY <3>1, <3>2 DEF Known, RowBytes, Bytes
    <3> HIDE DEF totals
    <3>6. SumFunctionOnSet(RowBytes, Known) = SumFunctionOnSet(totals, Known)
      BY <3>4, <3>5, SumsEqual
    <3> QED BY <3>3, <3>6 DEF totals
  <2>3. SumFunctionOnSet(FlowBytes, Flow) = SumFunctionOnSet(flows, {f \in Flow : flows[f] >= 0})
    <3> DEFINE P == {f \in Flow : flows[f] >= 0}
    <3>1. \A f \in Flow : FlowBytes[f] \in Int /\ flows[f] \in Int
      BY <2>1, FlowType
    <3>2. P \subseteq Flow /\ \A f \in Flow \ P : FlowBytes[f] = 0
      BY <3>1 DEF FlowBytes
    <3>3. \A f \in P : FlowBytes[f] \in Int /\ flows[f] = FlowBytes[f]
      BY <3>1 DEF FlowBytes
    <3> HIDE DEF P
    <3>4. SumFunctionOnSet(FlowBytes, Flow) = SumFunctionOnSet(FlowBytes, P)
      BY <3>1, <3>2, DeviceSetsFinite, SumOfPart
    <3>5. IsFiniteSet(P)
      BY <3>2, DeviceSetsFinite, FS_Subset
    <3>6. SumFunctionOnSet(FlowBytes, P) = SumFunctionOnSet(flows, P)
      BY <3>3, <3>5, SumsEqual
    <3> QED BY <3>4, <3>6 DEF P
  <2> QED BY <2>2, <2>3 DEF BytesInv, BytesKept
<1>2. DevicesInit => BytesInv /\ DevicesInv
  BY BytesStart, DevicesStart
<1>3. DevicesInv /\ BytesInv /\ [DevicesNext]_devicesVars => DevicesInv' /\ BytesInv'
  BY BytesStep, DevicesStep
<1> QED BY <1>1, <1>2, <1>3, PTL DEF DevicesSpec
=============================================================================
