---------------------------- MODULE ServerPeers ----------------------------
(***************************************************************************)
(* The clients of a server interface of awg-jump: rows with a key and an   *)
(* address, and the peers that the running interface knows.  A handler     *)
(* reads, flushes, synchronises the interface with what its session sees,  *)
(* and commits when it has answered.  From flush to commit it holds the    *)
(* write lock of SQLite, so that writers wait for each other; what they    *)
(* read before is not read again, as a query does not refresh objects that *)
(* a session has already.                                                  *)
(***************************************************************************)
EXTENDS Integers

CONSTANTS
    PeerId,           \* ids of rows, 1..n
    PeerKey,          \* public keys
    Address,          \* tunnel addresses of the network of the interface
    NoAddress,        \* none of them: allowed_ips are those of the client, 0.0.0.0/0
    PeerSlot,         \* handlers in flight
    MaxPeerRequests,  \* bound on the requests in a behaviour
    MaxPeerFaults     \* bound on the faults in a behaviour

ASSUME PeersAssumption ==
    /\ PeerId \subseteq Nat \ {0} /\ Address \subseteq Nat /\ NoAddress \in Nat \ Address
    /\ "none" \notin PeerSlot
    /\ MaxPeerRequests \in Nat /\ MaxPeerFaults \in Nat

\* own: the address is one that the server allocated.
Peer == [key: PeerKey, addr: Address \cup {NoAddress}, on: BOOLEAN, own: BOOLEAN]
NoPeer == [key |-> "no row"]

VARIABLES
    peers,       \* committed rows
    pending,     \* the rows as the writer sees them
    writer,      \* the handler that holds the write lock, or "none"
    up,          \* the interface runs
    kernel,      \* the pairs of key and address that it knows
    works,       \* handlers in flight
    behind,      \* history: the last synchronisation or apply failed, or a change overtook its reads
    twice,       \* history: a change was committed between an allocation and its flush
    peerRequests, peerFaults

peersVars == <<peers, pending, writer, up, kernel, works, behind, twice, peerRequests, peerFaults>>

NoWork == [phase |-> "idle"]
Rows(table) == {p \in PeerId : table[p] # NoPeer}
Keys(table) == {table[p].key : p \in Rows(table)}

---------------------------------------------------------------------------
(* Helpers *)

\* Mutant of Free: only the addresses of enabled peers are taken
FreeOfEnabled == Address \ {peers[p].addr : p \in {p \in Rows(peers) : peers[p].on}}

\* The addresses that _allocate_tunnel_address finds unused
Free == Address \ {peers[p].addr : p \in Rows(peers)}

\* _allocate_tunnel_address: the first free one, or none
Allocated == IF Free = {} THEN NoAddress ELSE CHOOSE a \in Free : \A b \in Free : a <= b

\* generate_interface_config for the rows that _sync_interface selects, with the objects
\* that the session has already
Configured(table, seen) ==
    {LET o == IF p \in DOMAIN seen THEN seen[p] ELSE table[p] IN <<o.key, o.addr>> :
        p \in {p \in Rows(table) : table[p].on /\ (p \in DOMAIN seen => seen[p].on)}}

NothingSeen == [p \in {} |-> NoPeer]

Idle(s) == works[s] = NoWork

\* A commit makes what others have read old.
Aged == [s \in PeerSlot |-> IF Idle(s) THEN NoWork ELSE [works[s] EXCEPT !.clean = FALSE]]

---------------------------------------------------------------------------
(* Requests: what a handler reads, and what it is going to change *)

Work(phase, kind, id, row, seen) ==
    [phase |-> phase, kind |-> kind, id |-> id, row |-> row, seen |-> seen, clean |-> TRUE]

Only(p) == [q \in {p} |-> peers[q]]

\* An interface is loaded with all its peers.  The operator gives the key and the address
\* (with a configuration of the client), or the server makes them.
CreatePeer(s) == \E key \in PeerKey, addr \in Address, own \in BOOLEAN :
    works' = [works EXCEPT ![s] =
        Work("flush", "create", 0,
             [key |-> key, addr |-> IF own THEN Allocated ELSE addr, on |-> TRUE, own |-> own],
             [p \in Rows(peers) |-> peers[p]])]

UpdatePeer(s) == \E p \in Rows(peers), key \in PeerKey, addr \in Address :
    works' = [works EXCEPT ![s] =
        Work("flush", "set", p,
             [peers[p] EXCEPT !.key = key, !.addr = addr], Only(p))]

TogglePeer(s) == \E p \in Rows(peers) :
    works' = [works EXCEPT ![s] = Work("flush", "set", p, [peers[p] EXCEPT !.on = ~@], Only(p))]

DeletePeer(s) == \E p \in Rows(peers) :
    works' = [works EXCEPT ![s] = Work("flush", "delete", p, NoPeer, Only(p))]

\* apply_interface of the router reads the enabled peers and recreates the interface.
ApplyServer(s) ==
    works' = [works EXCEPT ![s] =
        [Work("apply", "apply", 0, NoPeer, peers) EXCEPT !.clean = writer = "none"]]

\* _awg_health_check, one at a time, restarts an interface that is down; what the session
\* reads is committed.  A link that a failed apply has left counts as running.
HealthCheck(s) ==
    /\ Idle(s) /\ ~up
    /\ \A r \in PeerSlot : ~Idle(r) => works[r].kind # "health"
    /\ works' = [works EXCEPT ![s] =
           [Work("apply", "health", 0, NoPeer, peers) EXCEPT !.clean = writer = "none"]]
    /\ UNCHANGED <<up, peers, pending, writer, kernel, behind, twice, peerRequests, peerFaults>>

PeerRequest(s) ==
    /\ Idle(s) /\ peerRequests > 0 /\ peerRequests' = peerRequests - 1
    /\ CreatePeer(s) \/ UpdatePeer(s) \/ TogglePeer(s) \/ DeletePeer(s) \/ ApplyServer(s)
    /\ UNCHANGED <<up, peers, pending, writer, kernel, behind, twice, peerFaults>>

StopServer ==
    /\ up /\ peerRequests > 0 /\ peerRequests' = peerRequests - 1
    /\ up' = FALSE /\ kernel' = {}
    /\ UNCHANGED <<peers, pending, writer, works, behind, twice, peerFaults>>

---------------------------------------------------------------------------
(* Flush, synchronise, commit *)

\* Mutant of LockFree: writers do not wait
LockFreeAlways == TRUE

LockFree == writer = "none"

\* The id that SQLite gives to a new row
IsNextId(id) == (\A p \in Rows(peers) : p < id) /\ (id = 1 \/ id - 1 \in Rows(peers))

\* An UPDATE writes the columns that were changed; an address that the operator gives is
\* not one that the server allocated.
PeerUpdated(now, old, new) ==
    [now EXCEPT !.key  = IF new.key = old.key THEN @ ELSE new.key,
                !.addr = IF new.addr = old.addr THEN @ ELSE new.addr,
                !.on   = IF new.on = old.on THEN @ ELSE new.on,
                !.own  = @ /\ new.addr = old.addr]

Changed(w) ==
    CASE w.kind = "create" -> [peers EXCEPT ![CHOOSE id \in PeerId : IsNextId(id)] = w.row]
      [] w.kind = "set"    -> [peers EXCEPT ![w.id] = PeerUpdated(@, w.seen[w.id], w.row)]
      [] w.kind = "delete" -> [peers EXCEPT ![w.id] = NoPeer]

UniqueKeys(table) == \A p, q \in Rows(table) : p # q => table[p].key # table[q].key

\* The row that a handler wants to change is there, a new one finds an id, and keys stay
\* unique.
Accepted(w) ==
    /\ w.kind = "set" => peers[w.id] # NoPeer
    /\ w.kind = "create" => \E id \in PeerId : IsNextId(id)
    /\ UniqueKeys(Changed(w))

Flush(s) ==
    /\ works[s].phase = "flush" /\ LockFree /\ Accepted(works[s])
    /\ writer' = s /\ pending' = Changed(works[s])
    /\ works' = [works EXCEPT ![s].phase = "sync"]
    /\ twice' = (twice \/ (works[s].kind = "create" /\ ~works[s].clean))
    /\ UNCHANGED <<peers, kernel, behind, up, peerRequests, peerFaults>>

\* 404, 409, a row that another request has deleted, or a lock that is not free for 5 s
FlushFails(s) ==
    /\ works[s].phase = "flush" /\ ~(LockFree /\ Accepted(works[s]))
    /\ works' = [works EXCEPT ![s] = NoWork]
    /\ UNCHANGED <<peers, pending, writer, kernel, behind, twice, up, peerRequests, peerFaults>>

\* The objects of the session: its own changes are in them.
Objects(w) == [p \in DOMAIN w.seen |-> IF p = w.id /\ w.kind = "set" THEN w.row ELSE w.seen[p]]

\* Appliers that have read before are late now.
Passed(s) ==
    [r \in PeerSlot |->
        IF r = s THEN [works[s] EXCEPT !.phase = "commit"]
        ELSE IF works[r].phase = "apply" THEN [works[r] EXCEPT !.clean = FALSE] ELSE works[r]]

\* sync_peers, if the interface runs
SyncInterface(s) ==
    /\ works[s].phase = "sync"
    /\ kernel' = IF up THEN Configured(pending, Objects(works[s])) ELSE {}
    /\ behind' = IF up THEN ~works[s].clean ELSE behind
    /\ works' = Passed(s)
    /\ UNCHANGED <<peers, pending, writer, twice, up, peerRequests, peerFaults>>

\* A failure is logged, and the handler goes on.
SyncFails(s) ==
    /\ works[s].phase = "sync" /\ up /\ peerFaults > 0 /\ peerFaults' = peerFaults - 1
    /\ works' = Passed(s) /\ behind' = TRUE
    /\ UNCHANGED <<peers, pending, writer, kernel, twice, up, peerRequests>>

CommitPeers(s) ==
    /\ works[s].phase = "commit"
    /\ peers' = pending /\ writer' = "none" /\ pending' = [p \in PeerId |-> NoPeer]
    /\ works' = [Aged EXCEPT ![s] = NoWork]
    /\ UNCHANGED <<kernel, behind, twice, up, peerRequests, peerFaults>>

\* The interface is deleted and made again, from the peers read before.
Recreated(seen, clean) ==
    up' = TRUE /\ kernel' = Configured(seen, NothingSeen) /\ behind' = ~clean

\* A command of apply_interface fails: before there is a link, before setconf has given it
\* peers, or after (its address, the link up, the MTU).
HalfMade(seen) ==
    /\ behind' = TRUE
    /\ \/ up' = FALSE /\ kernel' = {}
       \/ up' = TRUE /\ kernel' \in {{}, Configured(seen, NothingSeen)}

RunApply(s) ==
    /\ works[s].phase = "apply" /\ Recreated(works[s].seen, works[s].clean)
    /\ works' = [works EXCEPT ![s] = NoWork]
    /\ UNCHANGED <<peers, pending, writer, twice, peerRequests, peerFaults>>

ApplyFails(s) ==
    /\ works[s].phase = "apply" /\ peerFaults > 0 /\ peerFaults' = peerFaults - 1
    /\ HalfMade(works[s].seen)
    /\ works' = [works EXCEPT ![s] = NoWork]
    /\ UNCHANGED <<peers, pending, writer, twice, peerRequests>>

\* The program starts again: what was not committed is gone, and load_interface applies
\* the enabled peers, or fails half-way.
PeersRestart ==
    /\ peerFaults > 0 /\ peerFaults' = peerFaults - 1
    /\ works' = [s \in PeerSlot |-> NoWork]
    /\ writer' = "none" /\ pending' = [p \in PeerId |-> NoPeer]
    /\ Recreated(peers, TRUE) \/ HalfMade(peers)
    /\ UNCHANGED <<peers, twice, peerRequests>>

---------------------------------------------------------------------------
(* Specification *)

PeersInit ==
    /\ peers = [p \in PeerId |-> NoPeer] /\ pending = peers
    /\ writer = "none" /\ up = TRUE /\ kernel = {}
    /\ works = [s \in PeerSlot |-> NoWork]
    /\ behind = FALSE /\ twice = FALSE
    /\ peerRequests = MaxPeerRequests /\ peerFaults = MaxPeerFaults

PeersNext ==
    \/ StopServer \/ PeersRestart
    \/ \E s \in PeerSlot :
          \/ PeerRequest(s) \/ HealthCheck(s)
          \/ Flush(s) \/ FlushFails(s)
          \/ SyncInterface(s) \/ SyncFails(s) \/ CommitPeers(s)
          \/ RunApply(s) \/ ApplyFails(s)

PeersSpec == PeersInit /\ [][PeersNext]_peersVars

---------------------------------------------------------------------------
(* Properties *)

\* Types of the variables; keys are unique, and the lock has a holder from flush to commit.
PeersTypeOK ==
    /\ peers \in [PeerId -> Peer \cup {NoPeer}] /\ UniqueKeys(peers)
    /\ \A s \in PeerSlot : works[s].phase \in {"sync", "commit"} <=> writer = s
    /\ (~up => kernel = {}) /\ kernel \subseteq PeerKey \X (Address \cup {NoAddress})

\* Whenever no change is under way, the running interface lets in exactly the enabled
\* peers, each at its address, although handlers synchronise before they commit and
\* write what they read before others committed.  A link counts as
\* running as soon as it is there.  Excepted is the time from a synchronisation or an apply
\* that failed, or that another change overtook after its first read, to the next one
\* without such an accident: nothing retries either, and the health job leaves alone what
\* a failed apply has left running.
KernelFollowsPeers ==
    writer = "none" /\ up /\ ~behind => kernel = Configured(peers, NothingSeen)

\* The server never gives two clients one address, also not that of a client that is
\* switched off, as long as no change is committed between an allocation and its flush:
\* nothing locks the table there, and the column is not unique.
AddressesDistinct ==
    ~twice => \A p, q \in Rows(peers) :
        p # q /\ peers[p].own /\ peers[q].own /\ peers[p].addr # NoAddress => peers[p].addr # peers[q].addr
=============================================================================
