---------------------------- MODULE GatewayDns ----------------------------
(***************************************************************************)
(* The resolver of awg-gateway.  Every change of its rows commits under    *)
(* main_write_lock and then restarts dnsmasq: stop, read, start the        *)
(* proxies, read again, write the configuration, start.  Between these     *)
(* steps other requests run.  The rows are one version that a commit       *)
(* raises; what a process serves is the version that it was started with.  *)
(***************************************************************************)
EXTENDS Integers

CONSTANTS
    CallSlot,       \* requests in flight
    MaxCalls,       \* bound on the requests in a behaviour
    MaxDnsCrashes   \* bound on the faults in a behaviour

ASSUME GatewayDnsAssumption == MaxCalls \in Nat /\ MaxDnsCrashes \in Nat /\ "none" \notin CallSlot

VARIABLES
    dnsVersion,  \* of the committed rows
    writeLock,   \* holder of main_write_lock, or "none"
    dnsmasq,     \* version that dnsmasq serves, or Off
    handle,      \* _DNS_PROCESS is set
    pidFile,     \* the file with the process id exists
    dnsProxies,  \* version that the DoT and DoH proxies serve, or Off
    calls,       \* requests in flight
    stained,     \* history: the last restart failed, or overlapped a change or a restart
    callsLeft, crashesLeft

gatewayDnsVars ==
    <<dnsVersion, writeLock, dnsmasq, handle, pidFile, dnsProxies, calls, stained, callsLeft, crashesLeft>>

Off == -1
NoCall == [phase |-> "idle"]
Restarting(s) == calls[s].phase \in {"read", "render"}

\* Another request has committed or restarts as well: a session keeps the objects that it
\* has read, also over its own commit.
Stale(s) == [r \in CallSlot |->
    IF r # s /\ calls[r] # NoCall THEN [calls[r] EXCEPT !.clean = FALSE] ELSE calls[r]]

---------------------------------------------------------------------------
(* Requests *)

\* zone: POST /zones, which adds its domains after its first commit; bulk: POST
\* /domains/bulk; reload: POST /reload; change: the others, of settings and policy too
DnsCall(s) == \E kind \in {"change", "zone", "bulk", "reload"} :
    /\ calls[s] = NoCall /\ callsLeft > 0 /\ callsLeft' = callsLeft - 1
    /\ calls' = [calls EXCEPT ![s] =
            [phase |-> IF kind = "reload" THEN "stop" ELSE "commit", kind |-> kind, clean |-> TRUE]]
    /\ UNCHANGED <<dnsVersion, writeLock, dnsmasq, handle, pidFile, dnsProxies, stained, crashesLeft>>

\* commit_with_lock
CommitCall(s) ==
    /\ calls[s].phase = "commit" /\ calls[s].kind # "bulk" /\ writeLock = "none"
    /\ dnsVersion' = dnsVersion + 1
    /\ calls' = [Stale(s) EXCEPT ![s].phase = "stop"]
    /\ UNCHANGED <<writeLock, dnsmasq, handle, pidFile, dnsProxies, stained, callsLeft, crashesLeft>>

\* flush_with_lock takes the lock and calls the flush of a prepared session, which waits
\* for the same lock.
BulkFlush(s) ==
    /\ calls[s].phase = "commit" /\ calls[s].kind = "bulk" /\ writeLock = "none"
    /\ writeLock' = s /\ calls' = [calls EXCEPT ![s].phase = "locked"]
    /\ UNCHANGED <<dnsVersion, dnsmasq, handle, pidFile, dnsProxies, stained, callsLeft, crashesLeft>>

\* 409 for a domain that exists, when the zone is committed already
ZoneConflict(s) ==
    /\ calls[s].phase = "stop" /\ calls[s].kind = "zone"
    /\ stained' = TRUE /\ calls' = [calls EXCEPT ![s] = NoCall]
    /\ UNCHANGED <<dnsVersion, writeLock, dnsmasq, handle, pidFile, dnsProxies, callsLeft, crashesLeft>>

---------------------------------------------------------------------------
(* restart_dnsmasq *)

\* Mutant of AfterStop: only a process that is known is stopped
AfterStopKnown == IF handle THEN [dnsmasq |-> Off, dnsProxies |-> Off] ELSE [dnsmasq |-> dnsmasq, dnsProxies |-> dnsProxies]

\* stop_dnsmasq: the process that is known, with the proxies; or the one in the file
AfterStop ==
    [dnsmasq |-> IF handle \/ pidFile THEN Off ELSE dnsmasq,
     dnsProxies |-> IF handle THEN Off ELSE dnsProxies]

StopResolver(s) ==
    /\ calls[s].phase = "stop"
    /\ dnsmasq' = AfterStop.dnsmasq /\ dnsProxies' = AfterStop.dnsProxies
    /\ handle' = FALSE /\ pidFile' = FALSE
    /\ calls' = IF \E r \in CallSlot : Restarting(r)
                THEN [Stale(s) EXCEPT ![s].phase = "read", ![s].clean = FALSE]
                ELSE [calls EXCEPT ![s].phase = "read"]
    /\ UNCHANGED <<dnsVersion, writeLock, stained, callsLeft, crashesLeft>>

\* The zones are read, and the proxies started for them.
SyncProxies(s) ==
    /\ calls[s].phase = "read" /\ dnsProxies' = dnsVersion
    /\ calls' = [calls EXCEPT ![s].phase = "render"]
    /\ UNCHANGED <<dnsVersion, writeLock, dnsmasq, handle, pidFile, stained, callsLeft, crashesLeft>>

ProxyStartFails(s) ==
    /\ calls[s].phase = "read" /\ crashesLeft > 0 /\ crashesLeft' = crashesLeft - 1
    /\ dnsProxies' = Off /\ stained' = TRUE
    /\ calls' = [calls EXCEPT ![s] = NoCall]
    /\ UNCHANGED <<dnsVersion, writeLock, dnsmasq, handle, pidFile, callsLeft>>

\* The configuration is written from all rows, without those that the session has added
\* and not flushed, and the process is started, if the port is free.
StartResolver(s) ==
    /\ calls[s].phase = "render" /\ dnsmasq = Off
    /\ dnsmasq' = dnsVersion /\ handle' = TRUE /\ pidFile' = TRUE
    /\ stained' = ~calls[s].clean
    /\ calls' = [calls EXCEPT ![s] = IF @.kind = "zone" THEN [@ EXCEPT !.phase = "add"] ELSE NoCall]
    /\ UNCHANGED <<dnsVersion, writeLock, dnsProxies, callsLeft, crashesLeft>>

\* The port is taken by a process that another restart has started: this one forgets it.
PortTaken(s) ==
    /\ calls[s].phase = "render" /\ dnsmasq # Off
    /\ handle' = FALSE /\ stained' = ~calls[s].clean
    /\ calls' = [calls EXCEPT ![s] = NoCall]
    /\ UNCHANGED <<dnsVersion, writeLock, dnsmasq, pidFile, dnsProxies, callsLeft, crashesLeft>>

ResolverStartFails(s) ==
    /\ calls[s].phase = "render" /\ crashesLeft > 0 /\ crashesLeft' = crashesLeft - 1
    /\ handle' = FALSE /\ stained' = TRUE
    /\ calls' = [calls EXCEPT ![s] = NoCall]
    /\ UNCHANGED <<dnsVersion, writeLock, dnsmasq, pidFile, dnsProxies, callsLeft>>

\* get_db commits what is left: the domains of the new zone, which dnsmasq has not read.
AddDomains(s) ==
    /\ calls[s].phase = "add" /\ writeLock = "none"
    /\ dnsVersion' = dnsVersion + 1 /\ stained' = TRUE
    /\ calls' = [Stale(s) EXCEPT ![s] = NoCall]
    /\ UNCHANGED <<writeLock, dnsmasq, handle, pidFile, dnsProxies, callsLeft, crashesLeft>>

---------------------------------------------------------------------------
(* Faults *)

\* dnsmasq or a proxy ends; nothing watches them.
ProcessCrash ==
    /\ crashesLeft > 0 /\ crashesLeft' = crashesLeft - 1
    /\ \/ dnsmasq # Off /\ dnsmasq' = Off /\ dnsProxies' = dnsProxies
       \/ dnsProxies # Off /\ dnsProxies' = Off /\ dnsmasq' = dnsmasq
    /\ stained' = TRUE /\ calls' = [s \in CallSlot |->
            IF Restarting(s) THEN [calls[s] EXCEPT !.clean = FALSE] ELSE calls[s]]
    /\ UNCHANGED <<dnsVersion, writeLock, handle, pidFile, callsLeft>>

\* The container starts again.
DnsBackendRestart ==
    /\ crashesLeft > 0 /\ crashesLeft' = crashesLeft - 1
    /\ calls' = [s \in CallSlot |-> NoCall] /\ writeLock' = "none"
    /\ dnsmasq' = dnsVersion /\ dnsProxies' = dnsVersion /\ handle' = TRUE /\ pidFile' = TRUE
    /\ stained' = FALSE
    /\ UNCHANGED <<dnsVersion, callsLeft>>

---------------------------------------------------------------------------
(* Specification *)

GatewayDnsInit ==
    /\ dnsVersion = 0 /\ writeLock = "none"
    /\ dnsmasq = 0 /\ handle = TRUE /\ pidFile = TRUE /\ dnsProxies = 0
    /\ calls = [s \in CallSlot |-> NoCall] /\ stained = FALSE
    /\ callsLeft = MaxCalls /\ crashesLeft = MaxDnsCrashes

GatewayDnsNext ==
    \/ \E s \in CallSlot :
          \/ DnsCall(s) \/ CommitCall(s) \/ BulkFlush(s) \/ ZoneConflict(s)
          \/ StopResolver(s) \/ SyncProxies(s) \/ ProxyStartFails(s)
          \/ StartResolver(s) \/ PortTaken(s) \/ ResolverStartFails(s) \/ AddDomains(s)
    \/ ProcessCrash \/ DnsBackendRestart

GatewayDnsSpec == GatewayDnsInit /\ [][GatewayDnsNext]_gatewayDnsVars

---------------------------------------------------------------------------
(* Properties *)

\* Types of the variables
GatewayDnsTypeOK ==
    /\ dnsVersion \in Nat /\ {dnsmasq, dnsProxies} \subseteq {Off} \cup (0..dnsVersion)
    /\ {handle, pidFile, stained} \subseteq BOOLEAN
    /\ writeLock \in CallSlot \cup {"none"}
    /\ \A s \in CallSlot : writeLock = s <=> calls[s].phase = "locked"

\* A restart that no other restart and no commit overlapped leaves a resolver and proxies
\* that serve the committed rows, and the backend knows the process, whatever overlaps
\* and orphaned processes there were before it.
ResolverCurrent ==
    (\A s \in CallSlot : calls[s].phase \notin {"stop", "read", "render", "add"}) /\ ~stained
        => dnsmasq = dnsVersion /\ dnsProxies = dnsVersion /\ handle
=============================================================================
