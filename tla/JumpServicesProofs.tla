-------------------------- MODULE JumpServicesProofs --------------------------
(***************************************************************************)
(* Theorems about the services of awg-jump beside its nodes, and their     *)
(* proofs, for any set of rows, keys, zones, sources and handlers: peers   *)
(* (ServerPeers), the sets of GeoipZones, and split DNS (DnsZones).        *)
(***************************************************************************)
EXTENDS ServerPeers, GeoipZones, DnsZones, WellFoundedInduction, TLAPS

---------------------------------------------------------------------------
(* Peers and server interfaces: types *)

Tables  == [PeerId -> Peer \cup {NoPeer}]
Reads   == UNION {[D -> Peer \cup {NoPeer}] : D \in SUBSET PeerId}
Handled == [phase: {"flush", "sync", "commit", "apply"},
            kind: {"create", "set", "delete", "apply", "health"}, id: PeerId \cup {0},
            row: Peer \cup {NoPeer}, seen: Reads, clean: BOOLEAN]

\* A handler that changes a row has read it, and a new row or a changed one is a row.
Sound(w) ==
    /\ w.kind \in {"set", "delete"} => w.id \in PeerId /\ w.id \in DOMAIN w.seen
    /\ w.kind \in {"create", "set"} => w.row \in Peer
    /\ w.phase # "apply" => \A p \in DOMAIN w.seen : w.seen[p] \in Peer
    /\ w.phase = "apply" => w.seen \in Tables
    /\ w.phase = "apply" <=> w.kind \in {"apply", "health"}

TypeInv ==
    /\ peers \in Tables /\ pending \in Tables
    /\ UniqueKeys(peers) /\ (writer # "none" => UniqueKeys(pending))
    /\ works \in [PeerSlot -> Handled \cup {NoWork}]
    /\ \A s \in PeerSlot : works[s] # NoWork => Sound(works[s])
    /\ writer \in PeerSlot \cup {"none"}
    /\ \A s \in PeerSlot : works[s].phase \in {"sync", "commit"} <=> writer = s
    /\ up \in BOOLEAN /\ behind \in BOOLEAN /\ twice \in BOOLEAN
    /\ (~up => kernel = {}) /\ kernel \subseteq PeerKey \X (Address \cup {NoAddress})

LEMMA RowKinds ==
    /\ NoPeer \notin Peer
    /\ \A w \in Handled : w # NoWork
    /\ \A t \in Tables, p \in PeerId : p \in Rows(t) <=> t[p] \in Peer
<1>1. NoPeer \notin Peer
  <2>1. \A r \in Peer : DOMAIN r = {"key", "addr", "on", "own"}
    BY DEF Peer
  <2>2. DOMAIN NoPeer = {"key"}
    BY DEF NoPeer
  <2> QED
    BY <2>1, <2>2
<1>2. \A w \in Handled : w # NoWork
  <2>1. \A w \in Handled : w.phase # "idle"
    BY DEF Handled
  <2> QED
    BY <2>1 DEF NoWork
<1> QED
  BY <1>1, <1>2 DEF Tables, Rows

LEMMA ConfiguredType ==
    ASSUME NEW t \in Tables, NEW f \in Reads,
           \A p \in DOMAIN f : p \in Rows(t) => f[p] \in Peer
    PROVE  Configured(t, f) \subseteq PeerKey \X (Address \cup {NoAddress})
<1>1. \A p \in Rows(t) : t[p] \in Peer
  BY RowKinds DEF Rows
<1>2. \A o \in Peer : <<o.key, o.addr>> \in PeerKey \X (Address \cup {NoAddress})
  BY DEF Peer
<1> QED
  BY <1>1, <1>2 DEF Configured

LEMMA NothingSeenType == NothingSeen \in Reads /\ DOMAIN NothingSeen = {}
<1>1. {} \in SUBSET PeerId /\ NothingSeen \in [{} -> Peer \cup {NoPeer}]
  BY DEF NothingSeen
<1> QED
  BY <1>1 DEF Reads

\* Of a set of addresses that is not empty one is the first.
LEMMA FirstAddress ==
    ASSUME NEW S \in SUBSET Nat, S # {}
    PROVE  \E a \in S : \A b \in S : a <= b
<1> DEFINE Less == {ss \in Nat \X Nat : ss[1] < ss[2]}
<1>1. IsWellFoundedOn(Less, Nat)
  BY NatLessThanWellFounded DEF OpToRel
<1>2. \E a \in S : \A b \in S : <<b, a>> \notin Less
  <2> HIDE DEF Less
  <2> QED
    BY <1>1, WFMin
<1>3. \A a, b \in S : <<b, a>> \in Less \/ a <= b
  <2>1. \A a, b \in Nat : <<b, a>> \in Less \/ a <= b
    OBVIOUS
  <2> QED
    BY <2>1
<1> QED
  <2> HIDE DEF Less
  <2> QED
    BY <1>2, <1>3

LEMMA AllocatedType ==
    /\ Allocated \in Address \cup {NoAddress}
    /\ Allocated # NoAddress => \A p \in Rows(peers) : peers[p].addr # Allocated
<1>1. Free \in SUBSET Nat
  BY PeersAssumption DEF Free
<1>2. Free # {} => Allocated \in Free
  BY <1>1, FirstAddress DEF Allocated
<1> QED
  BY <1>2 DEF Allocated, Free

\* A change writes one row.
LEMMA ChangedType ==
    ASSUME TypeInv, NEW w \in Handled, Sound(w), w.phase # "apply", Accepted(w)
    PROVE  Changed(w) \in Tables
<1>1. CASE w.kind = "create"
  <2>1. (CHOOSE id \in PeerId : IsNextId(id)) \in PeerId
    BY <1>1 DEF Accepted
  <2> QED
    BY <1>1, <2>1 DEF Changed, Sound, TypeInv, Tables
<1>2. CASE w.kind = "set"
  <2>1. peers[w.id] \in Peer /\ w.seen[w.id] \in Peer /\ w.row \in Peer /\ w.id \in PeerId
    BY <1>2, RowKinds DEF Accepted, Sound, TypeInv, Tables
  <2>2. PeerUpdated(peers[w.id], w.seen[w.id], w.row) \in Peer
    BY ZenonT(40), <2>1 DEF PeerUpdated, Peer
  <2> QED
    BY <1>2, <2>1, <2>2 DEF Changed, TypeInv, Tables
<1>3. CASE w.kind = "delete"
  BY <1>3 DEF Changed, Sound, TypeInv, Tables
<1> QED
  BY <1>1, <1>2, <1>3 DEF Handled, Sound

\* The objects of a session are rows.
LEMMA ObjectsType ==
    ASSUME NEW w \in Handled, Sound(w), w.phase # "apply"
    PROVE  /\ Objects(w) \in Reads
           /\ \A p \in DOMAIN Objects(w) : Objects(w)[p] \in Peer
<1>1. \A p \in DOMAIN w.seen : Objects(w)[p] \in Peer
  BY DEF Objects, Sound
<1>2. DOMAIN w.seen \in SUBSET PeerId
  BY DEF Handled, Reads
<1>3. Objects(w) \in [DOMAIN w.seen -> Peer \cup {NoPeer}]
  BY <1>1 DEF Objects
<1> QED
  BY <1>1, <1>2, <1>3 DEF Reads, Objects

\* What a handler of the operator starts with
LEMMA RequestType ==
    ASSUME TypeInv, NEW s \in PeerSlot, \/ CreatePeer(s) \/ UpdatePeer(s) \/ TogglePeer(s)
                                         \/ DeletePeer(s) \/ ApplyServer(s) \/ HealthCheck(s)
    PROVE  \E w \in Handled : /\ works' = [works EXCEPT ![s] = w]
                              /\ Sound(w) /\ w.phase \in {"flush", "apply"}
<1>1. \A p \in Rows(peers) : peers[p] \in Peer /\ p \in PeerId
  BY RowKinds DEF TypeInv, Rows
<1>2. /\ [p \in Rows(peers) |-> peers[p]] \in Reads
      /\ \A p \in Rows(peers) : Only(p) \in Reads /\ DOMAIN Only(p) = {p} /\ Only(p)[p] \in Peer
      /\ peers \in Reads
  <2>1. Rows(peers) \in SUBSET PeerId /\ PeerId \in SUBSET PeerId
    BY DEF Rows
  <2>2. [p \in Rows(peers) |-> peers[p]] \in [Rows(peers) -> Peer \cup {NoPeer}]
    BY <1>1
  <2>3. \A p \in Rows(peers) : {p} \in SUBSET PeerId /\ Only(p) \in [{p} -> Peer \cup {NoPeer}]
    BY <1>1 DEF Only
  <2>4. \A p \in Rows(peers) : DOMAIN Only(p) = {p} /\ Only(p)[p] \in Peer
    BY <1>1 DEF Only
  <2>5. \A D \in SUBSET PeerId : [D -> Peer \cup {NoPeer}] \subseteq Reads
    BY DEF Reads
  <2>6. peers \in [PeerId -> Peer \cup {NoPeer}]
    BY DEF TypeInv, Tables
  <2> QED
    BY <2>1, <2>2, <2>3, <2>4, <2>5, <2>6
<1>3. CASE CreatePeer(s)
  <2>1. PICK key \in PeerKey, addr \in Address, own \in BOOLEAN :
          works' = [works EXCEPT ![s] =
            Work("flush", "create", 0,
                 [key |-> key, addr |-> IF own THEN Allocated ELSE addr, on |-> TRUE, own |-> own],
                 [p \in Rows(peers) |-> peers[p]])]
    BY <1>3 DEF CreatePeer
  <2> DEFINE row == [key |-> key, addr |-> IF own THEN Allocated ELSE addr, on |-> TRUE, own |-> own]
             w == Work("flush", "create", 0, row, [p \in Rows(peers) |-> peers[p]])
  <2>2. row \in Peer
    BY AllocatedType DEF Peer
  <2>3. w \in Handled /\ Sound(w) /\ w.phase = "flush"
    BY <1>1, <1>2, <2>2 DEF Work, Handled, Sound
  <2> QED
    BY <2>1, <2>3
<1>4. CASE UpdatePeer(s)
  <2>1. PICK p \in Rows(peers), key \in PeerKey, addr \in Address :
          works' = [works EXCEPT ![s] =
            Work("flush", "set", p, [peers[p] EXCEPT !.key = key, !.addr = addr], Only(p))]
    BY <1>4 DEF UpdatePeer
  <2> DEFINE row == [peers[p] EXCEPT !.key = key, !.addr = addr]
             w == Work("flush", "set", p, row, Only(p))
  <2>2. row \in Peer
    BY <1>1 DEF Peer
  <2>3. w \in Handled /\ Sound(w) /\ w.phase = "flush"
    BY ZenonT(40), <1>1, <1>2, <2>2 DEF Work, Handled, Sound
  <2> QED
    BY <2>1, <2>3
<1>5. CASE TogglePeer(s)
  <2>1. PICK p \in Rows(peers) :
          works' = [works EXCEPT ![s] =
            Work("flush", "set", p, [peers[p] EXCEPT !.on = ~@], Only(p))]
    BY <1>5 DEF TogglePeer
  <2> DEFINE row == [peers[p] EXCEPT !.on = ~@]
             w == Work("flush", "set", p, row, Only(p))
  <2>2. row \in Peer
    BY <1>1 DEF Peer
  <2>3. w \in Handled /\ Sound(w) /\ w.phase = "flush"
    BY ZenonT(40), <1>1, <1>2, <2>2 DEF Work, Handled, Sound
  <2> QED
    BY <2>1, <2>3
<1>6. CASE DeletePeer(s)
  <2>1. PICK p \in Rows(peers) :
          works' = [works EXCEPT ![s] = Work("flush", "delete", p, NoPeer, Only(p))]
    BY <1>6 DEF DeletePeer
  <2> DEFINE w == Work("flush", "delete", p, NoPeer, Only(p))
  <2>2. w \in Handled /\ Sound(w) /\ w.phase = "flush"
    BY ZenonT(40), <1>1, <1>2 DEF Work, Handled, Sound
  <2> QED
    BY <2>1, <2>2
<1>7. CASE ApplyServer(s)
  <2> DEFINE w == [Work("apply", "apply", 0, NoPeer, peers) EXCEPT !.clean = writer = "none"]
  <2>1. w \in Handled /\ Sound(w) /\ w.phase = "apply"
    BY <1>2 DEF Work, Handled, Sound, TypeInv
  <2> QED
    BY <1>7, <2>1 DEF ApplyServer
<1>8. CASE HealthCheck(s)
  <2> DEFINE w == [Work("apply", "health", 0, NoPeer, peers) EXCEPT !.clean = writer = "none"]
  <2>1. w \in Handled /\ Sound(w) /\ w.phase = "apply"
    BY <1>2 DEF Work, Handled, Sound, TypeInv
  <2> QED
    BY <1>8, <2>1 DEF HealthCheck
<1> QED
  BY <1>3, <1>4, <1>5, <1>6, <1>7, <1>8

---------------------------------------------------------------------------

\* A flush is accepted only with unique keys, and makes one handler the writer.
LEMMA FlushType ==
    ASSUME TypeInv, NEW s \in PeerSlot, Flush(s)
    PROVE  TypeInv'
<1>1. works[s] \in Handled /\ Sound(works[s]) /\ works[s].phase = "flush"
  <2>1. works[s] # NoWork
    BY DEF Flush, NoWork
  <2> QED
    BY <2>1 DEF Flush, TypeInv, Sound
<1> DEFINE w == [works[s] EXCEPT !.phase = "sync"]
<1>2. w \in Handled /\ Sound(w) /\ w.phase = "sync" /\ w # NoWork
  <2>1. w \in Handled
    BY <1>1 DEF Handled
  <2>2. Sound(w)
    BY <1>1 DEF Handled, Sound
  <2> QED
    BY <1>1, <2>1, <2>2, RowKinds DEF Handled
<1>3. works' = [works EXCEPT ![s] = w]
  BY DEF Flush
<1>4. pending' \in Tables /\ UniqueKeys(pending)' /\ peers' = peers /\ UniqueKeys(peers)'
  <2>1. pending' = Changed(works[s]) /\ UniqueKeys(Changed(works[s])) /\ peers' = peers
    BY DEF Flush, Accepted
  <2>2. Changed(works[s]) \in Tables
    BY <1>1, ChangedType DEF Flush
  <2> QED
    BY <2>1, <2>2 DEF UniqueKeys, Rows, TypeInv
<1>5. writer = "none" /\ writer' = s
  BY DEF Flush, LockFree
<1>6. twice' \in BOOLEAN
  BY DEF Flush, TypeInv
<1>7. works' \in [PeerSlot -> Handled \cup {NoWork}] /\ \A t \in PeerSlot : works'[t] # NoWork => Sound(works'[t])
  BY <1>2, <1>3 DEF TypeInv
<1>8. \A t \in PeerSlot : works'[t].phase \in {"sync", "commit"} <=> writer' = t
  BY <1>2, <1>3, <1>5, PeersAssumption DEF TypeInv
<1> QED
  BY <1>4, <1>5, <1>6, <1>7, <1>8 DEF TypeInv, Flush

\* What a handler has read is old now.
Late(w) == [w EXCEPT !.clean = FALSE]

LEMMA LateType ==
    ASSUME NEW w \in Handled, Sound(w)
    PROVE  Late(w) \in Handled /\ Sound(Late(w)) /\ Late(w).phase = w.phase
  BY DEF Late, Handled, Sound

\* A handler that has synchronised the interface, or others that are late now
LEMMA PassedType ==
    ASSUME TypeInv, NEW s \in PeerSlot, works[s].phase = "sync", works' = Passed(s), writer' = writer
    PROVE  /\ works' \in [PeerSlot -> Handled \cup {NoWork}]
           /\ \A t \in PeerSlot : works'[t] # NoWork => Sound(works'[t])
           /\ \A t \in PeerSlot : works'[t].phase \in {"sync", "commit"} <=> writer' = t
<1>1. \A t \in PeerSlot : works[t].phase # "idle" => works[t] \in Handled /\ Sound(works[t])
  BY DEF TypeInv, NoWork
<1>3. \A w \in Handled : Sound(w) /\ w.phase = "sync" =>
        /\ [w EXCEPT !.phase = "commit"] \in Handled /\ Sound([w EXCEPT !.phase = "commit"])
        /\ [w EXCEPT !.phase = "commit"].phase = "commit"
  BY DEF Handled, Sound
<1>4. \A t \in PeerSlot :
        works'[t] = IF t = s THEN [works[s] EXCEPT !.phase = "commit"]
                    ELSE IF works[t].phase = "apply" THEN [works[t] EXCEPT !.clean = FALSE] ELSE works[t]
  BY DEF Passed
<1>5. \A t \in PeerSlot : /\ works'[t] \in Handled \cup {NoWork}
                          /\ works'[t] # NoWork => Sound(works'[t])
                          /\ works'[t].phase \in {"sync", "commit"} <=> writer = t
  <2> TAKE t \in PeerSlot
  <2>1. CASE t = s
    <3>1. works'[t] = [works[t] EXCEPT !.phase = "commit"] /\ works[t] \in Handled /\ Sound(works[t])
      BY <1>1, <1>4, <2>1
    <3>2. works'[t] \in Handled /\ Sound(works'[t]) /\ works'[t].phase = "commit" /\ writer = t
      BY <1>3, <2>1, <3>1 DEF TypeInv
    <3> QED
      BY <3>2
  <2>2. CASE t # s /\ works[t].phase = "apply"
    <3>1. works'[t] = Late(works[t]) /\ works[t] \in Handled /\ Sound(works[t]) /\ writer # t
      BY <1>1, <1>4, <2>2 DEF TypeInv, Late
    <3> QED
      BY <2>2, <3>1, LateType
  <2>3. CASE t # s /\ works[t].phase # "apply"
    BY <1>4, <2>3 DEF TypeInv
  <2> QED
    BY <2>1, <2>2, <2>3
<1>6. works' \in [PeerSlot -> Handled \cup {NoWork}]
  BY <1>5 DEF Passed
<1> QED
  BY <1>5, <1>6

LEMMA AgedType ==
    ASSUME TypeInv, NEW s \in PeerSlot, writer = s, writer' = "none",
           works' = [Aged EXCEPT ![s] = NoWork]
    PROVE  /\ works' \in [PeerSlot -> Handled \cup {NoWork}]
           /\ \A t \in PeerSlot : works'[t] # NoWork => Sound(works'[t])
           /\ \A t \in PeerSlot : works'[t].phase \in {"sync", "commit"} <=> writer' = t
<1>1. \A t \in PeerSlot : works[t] # NoWork => works[t] \in Handled /\ Sound(works[t])
  BY DEF TypeInv
<1>3. \A t \in PeerSlot :
        works'[t] = IF t = s \/ works[t] = NoWork THEN NoWork ELSE [works[t] EXCEPT !.clean = FALSE]
  BY DEF Aged, Idle
<1>4. \A t \in PeerSlot : /\ works'[t] \in Handled \cup {NoWork}
                          /\ works'[t] # NoWork => Sound(works'[t])
                          /\ works'[t].phase \notin {"sync", "commit"}
  <2> TAKE t \in PeerSlot
  <2>1. CASE t = s \/ works[t] = NoWork
    <3>1. works'[t] = NoWork
      BY <1>3, <2>1
    <3>2. NoWork.phase = "idle"
      BY DEF NoWork
    <3> QED
      BY <3>1, <3>2
  <2>2. CASE t # s /\ works[t] # NoWork
    <3>1. works[t].phase \notin {"sync", "commit"}
      BY <2>2 DEF TypeInv
    <3>2. works'[t] = Late(works[t]) /\ works[t] \in Handled /\ Sound(works[t])
      BY <1>1, <1>3, <2>2 DEF Late
    <3> QED
      BY <3>1, <3>2, LateType
  <2> QED
    BY <2>1, <2>2
<1>5. works' = [t \in PeerSlot |-> works'[t]]
  BY DEF Aged
<1>6. works' \in [PeerSlot -> Handled \cup {NoWork}]
  BY <1>4, <1>5
<1> QED
  BY <1>4, <1>6, PeersAssumption

\* One handler changes, and is not the writer before or after.
LEMMA OneHandlerType ==
    ASSUME TypeInv, NEW s \in PeerSlot, NEW w \in Handled \cup {NoWork},
           works' = [works EXCEPT ![s] = w], w # NoWork => Sound(w),
           w.phase \notin {"sync", "commit"}, works[s].phase \notin {"sync", "commit"}, writer' = writer
    PROVE  /\ works' \in [PeerSlot -> Handled \cup {NoWork}]
           /\ \A t \in PeerSlot : works'[t] # NoWork => Sound(works'[t])
           /\ \A t \in PeerSlot : works'[t].phase \in {"sync", "commit"} <=> writer' = t
  BY DEF TypeInv

LEMMA NoWorkPhase == NoWork.phase = "idle"
  BY DEF NoWork

\* The link that an apply leaves, complete or not
LinkType ==
    /\ up' \in BOOLEAN /\ behind' \in BOOLEAN /\ (~up' => kernel' = {})
    /\ kernel' \subseteq PeerKey \X (Address \cup {NoAddress})

LEMMA LinkMade ==
    ASSUME NEW seen \in Tables, NEW clean \in BOOLEAN, Recreated(seen, clean) \/ HalfMade(seen)
    PROVE  LinkType
<1>1. Configured(seen, NothingSeen) \subseteq PeerKey \X (Address \cup {NoAddress})
  BY ConfiguredType, NothingSeenType
<1> QED
  BY <1>1 DEF Recreated, HalfMade, LinkType

LEMMA TypeStep ==
    ASSUME TypeInv, [PeersNext]_peersVars
    PROVE  TypeInv'
<1>1. CASE StopServer
  BY <1>1 DEF StopServer, TypeInv, UniqueKeys, Rows
<1>2. CASE PeersRestart
  <2>1. peers' = peers /\ writer' = "none" /\ pending' = [p \in PeerId |-> NoPeer]
        /\ works' = [s \in PeerSlot |-> NoWork] /\ twice' = twice
        /\ (Recreated(peers, TRUE) \/ HalfMade(peers))
    BY <1>2 DEF PeersRestart
  <2>2. peers \in Tables
    BY DEF TypeInv
  <2>3. LinkType
    BY <2>1, <2>2, LinkMade
  <2> QED
    BY <2>1, <2>3, NoWorkPhase, PeersAssumption DEF TypeInv, Tables, UniqueKeys, Rows, LinkType
<1>3. ASSUME NEW s \in PeerSlot, PeerRequest(s) \/ HealthCheck(s)
      PROVE  TypeInv'
  <2>1. PICK w \in Handled : /\ works' = [works EXCEPT ![s] = w]
                             /\ Sound(w) /\ w.phase \in {"flush", "apply"}
    BY <1>3, RequestType DEF PeerRequest
  <2>2. works[s].phase = "idle" /\ UNCHANGED <<up, peers, pending, writer, kernel, behind, twice>>
    BY <1>3 DEF PeerRequest, HealthCheck, Idle, NoWork
  <2> QED
    BY <2>1, <2>2, OneHandlerType DEF TypeInv, UniqueKeys, Rows
<1>4. ASSUME NEW s \in PeerSlot, Flush(s)
      PROVE  TypeInv'
  BY <1>4, FlushType
<1>5. ASSUME NEW s \in PeerSlot, FlushFails(s)
      PROVE  TypeInv'
  BY <1>5, OneHandlerType, NoWorkPhase DEF FlushFails, TypeInv, UniqueKeys, Rows
<1>6. ASSUME NEW s \in PeerSlot, SyncInterface(s)
      PROVE  TypeInv'
  <2>1. works[s].phase = "sync" /\ works[s] # NoWork
    BY <1>6, NoWorkPhase DEF SyncInterface
  <2>2. works[s] \in Handled /\ Sound(works[s]) /\ works[s].phase # "apply" /\ works[s].clean \in BOOLEAN
    BY <2>1 DEF TypeInv, Sound, Handled
  <2>3. kernel' \subseteq PeerKey \X (Address \cup {NoAddress}) /\ (~up => kernel' = {})
    <3>1. Configured(pending, Objects(works[s])) \subseteq PeerKey \X (Address \cup {NoAddress})
      BY <2>2, ObjectsType, ConfiguredType DEF TypeInv
    <3> QED
      BY <1>6, <3>1 DEF SyncInterface
  <2>4. up' = up /\ behind' \in BOOLEAN
    BY <1>6, <2>2 DEF SyncInterface, TypeInv
  <2> QED
    BY <1>6, <2>3, <2>4, PassedType DEF SyncInterface, TypeInv, UniqueKeys, Rows
<1>7. ASSUME NEW s \in PeerSlot, SyncFails(s)
      PROVE  TypeInv'
  BY <1>7, PassedType DEF SyncFails, TypeInv, UniqueKeys, Rows
<1>8. ASSUME NEW s \in PeerSlot, CommitPeers(s)
      PROVE  TypeInv'
  <2>1. writer = s /\ s # "none"
    BY <1>8, PeersAssumption DEF CommitPeers, TypeInv
  <2>2. peers' = pending /\ writer' = "none" /\ pending' \in Tables
    BY <1>8 DEF CommitPeers, Tables
  <2> QED
    BY <1>8, <2>1, <2>2, AgedType DEF CommitPeers, TypeInv, UniqueKeys, Rows
<1>9. ASSUME NEW s \in PeerSlot, RunApply(s)
      PROVE  TypeInv'
  <2>1. works[s] \in Handled /\ Sound(works[s]) /\ works[s].seen \in Tables /\ works[s].clean \in BOOLEAN
    <3>1. works[s] # NoWork
      BY <1>9, NoWorkPhase DEF RunApply
    <3> QED
      BY <1>9, <3>1 DEF RunApply, TypeInv, Sound, Handled
  <2>2. LinkType
    BY <1>9, <2>1, LinkMade DEF RunApply
  <2> QED
    BY <1>9, <2>1, <2>2, OneHandlerType, NoWorkPhase DEF RunApply, TypeInv, UniqueKeys, Rows, LinkType
<1>10. ASSUME NEW s \in PeerSlot, ApplyFails(s)
       PROVE  TypeInv'
  <2>1. works[s] # NoWork
    BY <1>10, NoWorkPhase DEF ApplyFails
  <2>2. LinkType
    BY <1>10, <2>1, LinkMade DEF ApplyFails, TypeInv, Sound
  <2> QED
    BY <1>10, <2>1, <2>2, OneHandlerType, NoWorkPhase DEF ApplyFails, TypeInv, UniqueKeys, Rows, LinkType
<1>11. CASE UNCHANGED peersVars
  BY <1>11 DEF peersVars, TypeInv, UniqueKeys, Rows
<1> QED
  BY <1>1, <1>2, <1>3, <1>4, <1>5, <1>6, <1>7, <1>8, <1>9, <1>10, <1>11 DEF PeersNext

LEMMA TypeStart == PeersInit => TypeInv
<1> SUFFICES ASSUME PeersInit PROVE TypeInv
  OBVIOUS
<1>1. peers \in Tables /\ pending \in Tables /\ Rows(peers) = {}
  BY DEF PeersInit, Tables, Rows
<1>2. UniqueKeys(peers)
  BY <1>1 DEF UniqueKeys
<1> QED
  BY <1>1, <1>2, NoWorkPhase, PeersAssumption DEF PeersInit, TypeInv

\* Every row has a public key of its own, and one handler at a time holds the lock, from
\* its flush to its commit.
THEOREM PeersTypeCorrect == PeersSpec => []PeersTypeOK
<1>1. TypeInv => PeersTypeOK
  BY DEF TypeInv, PeersTypeOK, Tables
<1> QED
  BY <1>1, TypeStart, TypeStep, PTL DEF PeersSpec

---------------------------------------------------------------------------
(* The running interface *)

\* What a handler without accident has read is committed, until the next commit; what a
\* writer puts into the interface are the rows that it commits; and an applier has not
\* been passed by a writer.
Current(w) ==
    /\ w.phase = "flush" /\ w.clean =>
         /\ \A p \in DOMAIN w.seen : w.seen[p] = peers[p]
         /\ w.kind = "create" => DOMAIN w.seen \subseteq Rows(peers)
         /\ w.kind # "create" => DOMAIN w.seen = {w.id}
    /\ w.phase = "sync" /\ w.clean =>
         Configured(pending, Objects(w)) = Configured(pending, NothingSeen)
    /\ w.phase = "commit" /\ up /\ ~behind => kernel = Configured(pending, NothingSeen)
    /\ w.phase = "apply" /\ w.clean =>
         w.seen = peers /\ \A t \in PeerSlot : works[t].phase # "commit"

KernelInv == KernelFollowsPeers /\ \A s \in PeerSlot : works[s] # NoWork => Current(works[s])

\* Objects that agree with the rows make no difference to the configuration.
LEMMA ConfiguredSame ==
    ASSUME NEW t, NEW f,
           \A p \in DOMAIN f : p \in Rows(t) =>
               f[p].key = t[p].key /\ f[p].addr = t[p].addr /\ f[p].on = t[p].on
    PROVE  Configured(t, f) = Configured(t, NothingSeen)
<1>1. DOMAIN NothingSeen = {}
  BY DEF NothingSeen
<1> DEFINE Kept(g) == {p \in Rows(t) : t[p].on /\ (p \in DOMAIN g => g[p].on)}
           Pair(g, p) == LET o == IF p \in DOMAIN g THEN g[p] ELSE t[p] IN <<o.key, o.addr>>
<1>2. Kept(f) = Kept(NothingSeen)
  BY <1>1
<1>3. \A p \in Kept(f) : Pair(f, p) = Pair(NothingSeen, p)
  BY <1>1
<1>4. Configured(t, f) = {Pair(f, p) : p \in Kept(f)} /\ Configured(t, NothingSeen) = {Pair(NothingSeen, p) : p \in Kept(NothingSeen)}
  BY DEF Configured
<1> QED
  <2> HIDE DEF Kept, Pair
  <2> QED
    BY <1>2, <1>3, <1>4

\* A handler whose reads are not old flushes what its session will see.
LEMMA FlushCurrent ==
    ASSUME TypeInv, NEW w \in Handled, Sound(w), w.phase = "flush", w.clean, Current(w), Accepted(w)
    PROVE  Configured(Changed(w), Objects(w)) = Configured(Changed(w), NothingSeen)
<1>0. w.kind \in {"create", "set", "delete"} /\ peers \in Tables
  BY DEF Handled, Sound, TypeInv
<1> SUFFICES ASSUME NEW p \in DOMAIN w.seen, p \in Rows(Changed(w))
             PROVE  /\ Objects(w)[p].key = Changed(w)[p].key
                    /\ Objects(w)[p].addr = Changed(w)[p].addr
                    /\ Objects(w)[p].on = Changed(w)[p].on
  <2>1. DOMAIN Objects(w) = DOMAIN w.seen
    BY DEF Objects
  <2> QED
    BY <2>1, ConfiguredSame
<1>1. CASE w.kind = "create"
  <2> DEFINE new == CHOOSE id \in PeerId : IsNextId(id)
  <2>1. new \in PeerId /\ IsNextId(new)
    BY <1>1 DEF Accepted
  <2>2. p \in Rows(peers) /\ w.seen[p] = peers[p]
    BY <1>1 DEF Current
  <2>3. p # new
    <3> HIDE DEF new
    <3>1. new \in Nat
      BY <2>1, PeersAssumption
    <3> QED
      BY <2>1, <2>2, <3>1 DEF IsNextId
  <2>4. Changed(w)[p] = peers[p]
    BY <1>0, <1>1, <2>2, <2>3 DEF Changed, Tables, Rows
  <2>5. Objects(w)[p] = w.seen[p]
    BY <1>1 DEF Objects
  <2> QED
    BY <2>2, <2>4, <2>5
<1>2. CASE w.kind = "set"
  <2>1. p = w.id /\ w.seen[p] = peers[p] /\ p \in PeerId
    BY <1>2 DEF Current, Sound
  <2>2. Objects(w)[p] = w.row /\ w.row \in Peer /\ peers[p] \in Peer
    BY <1>2, <2>1 DEF Objects, Sound
  <2>3. Changed(w)[p] = PeerUpdated(peers[p], peers[p], w.row)
    BY <1>0, <1>2, <2>1 DEF Changed, Tables
  <2> QED
    BY <2>2, <2>3 DEF PeerUpdated, Peer
<1>3. CASE w.kind = "delete"
  <2>1. p = w.id /\ p \in PeerId
    BY <1>3 DEF Current, Sound
  <2>2. Changed(w)[p] = NoPeer
    BY <1>0, <1>3, <2>1 DEF Changed, Tables
  <2> QED
    BY <2>2 DEF Rows
<1> QED
  BY <1>0, <1>1, <1>2, <1>3 DEF Handled

LEMMA CurrentHandlers ==
    ASSUME \A t \in PeerSlot : \A v : v = works'[t] /\ v # NoWork => Current(v)'
    PROVE  (\A t \in PeerSlot : works[t] # NoWork => Current(works[t]))'
  BY DEF Current

\* A handler that changes alone, and not to or from a commit
LEMMA OneCurrent ==
    ASSUME TypeInv, KernelInv, NEW s \in PeerSlot, NEW w \in Handled \cup {NoWork},
           works' = [works EXCEPT ![s] = w], w # NoWork => Current(w)',
           w.phase # "commit", peers' = peers, pending' = pending,
           \A t \in PeerSlot : t # s /\ works[t].phase = "commit" /\ up' /\ ~behind' =>
               kernel' = Configured(pending, NothingSeen)
    PROVE  (\A t \in PeerSlot : works[t] # NoWork => Current(works[t]))'
<1> SUFFICES ASSUME NEW t \in PeerSlot, t # s, NEW v, v = works[t], v # NoWork
             PROVE  Current(v)'
  BY CurrentHandlers DEF TypeInv
<1>1. Current(v) /\ works'[t] = works[t]
  BY DEF KernelInv, TypeInv
<1>2. \A r \in PeerSlot : works'[r].phase = "commit" => works[r].phase = "commit"
  BY DEF TypeInv
<1> QED
  BY <1>1, <1>2 DEF Current

\* What a handler reads at its start is committed.
LEMMA RequestCurrent ==
    ASSUME TypeInv, NEW s \in PeerSlot, PeerRequest(s) \/ HealthCheck(s)
    PROVE  \E w \in Handled : /\ works' = [works EXCEPT ![s] = w]
                              /\ w.phase \in {"flush", "apply"} /\ Current(w)
<1>1. Rows(peers) \subseteq PeerId /\ PeerId \subseteq PeerId
  BY DEF Rows
<1>2. \A p \in Rows(peers) : DOMAIN Only(p) = {p} /\ Only(p)[p] = peers[p]
  BY DEF Only
<1>3. PICK v \in Handled : works' = [works EXCEPT ![s] = v] /\ v.phase \in {"flush", "apply"}
  BY RequestType DEF PeerRequest
<1>4. works'[s] = v
  BY <1>3 DEF TypeInv
<1> SUFFICES Current(v)
  BY <1>3
<1>5. CASE CreatePeer(s)
  <2>1. PICK row : v = Work("flush", "create", 0, row, [p \in Rows(peers) |-> peers[p]])
    BY <1>4, <1>5 DEF CreatePeer, TypeInv
  <2> QED
    BY <2>1 DEF Current, Work
<1>6. CASE UpdatePeer(s) \/ TogglePeer(s) \/ DeletePeer(s)
  <2>p. PICK kind \in {"set", "delete"}, p \in Rows(peers) :
            \E row : v = Work("flush", kind, p, row, Only(p))
    <3>1. UpdatePeer(s) \/ TogglePeer(s) =>
            \E p \in Rows(peers) : \E row : works' = [works EXCEPT ![s] = Work("flush", "set", p, row, Only(p))]
      BY DEF UpdatePeer, TogglePeer
    <3>2. DeletePeer(s) =>
            \E p \in Rows(peers) : works' = [works EXCEPT ![s] = Work("flush", "delete", p, NoPeer, Only(p))]
      BY DEF DeletePeer
    <3> QED
      BY <1>4, <1>6, <3>1, <3>2 DEF TypeInv
  <2>1. PICK row : v = Work("flush", kind, p, row, Only(p))
    BY <2>p
  <2> QED
    BY <1>2, <2>1 DEF Current, Work
<1>7. CASE ApplyServer(s) \/ HealthCheck(s)
  <2>1. PICK kind \in {"apply", "health"} :
            v = [Work("apply", kind, 0, NoPeer, peers) EXCEPT !.clean = writer = "none"]
    BY <1>4, <1>7 DEF ApplyServer, HealthCheck, TypeInv
  <2>2. v.phase = "apply" /\ v.seen = peers /\ (v.clean => writer = "none")
    BY <2>1 DEF Work
  <2>3. v.clean => \A t \in PeerSlot : works[t].phase # "commit"
    BY <2>2, PeersAssumption DEF TypeInv
  <2> QED
    BY <2>2, <2>3 DEF Current
<1> QED
  BY <1>5, <1>6, <1>7 DEF PeerRequest

\* After a synchronisation the writer commits what it has put there, and appliers that
\* read before are late.
LEMMA PassedCurrent ==
    ASSUME TypeInv, KernelInv, NEW s \in PeerSlot, works[s].phase = "sync", works' = Passed(s),
           peers' = peers, pending' = pending,
           up' /\ ~behind' => kernel' = Configured(pending, NothingSeen)
    PROVE  (\A t \in PeerSlot : works[t] # NoWork => Current(works[t]))'
<1> SUFFICES ASSUME NEW t \in PeerSlot, NEW v, v = works'[t], v # NoWork
             PROVE  Current(v)'
  BY CurrentHandlers
<1>1. v = IF t = s THEN [works[s] EXCEPT !.phase = "commit"]
          ELSE IF works[t].phase = "apply" THEN [works[t] EXCEPT !.clean = FALSE] ELSE works[t]
  BY DEF Passed
<1>2. CASE t = s
  <2>1. works[s] \in Handled
    BY NoWorkPhase DEF TypeInv
  <2>2. v.phase = "commit"
    BY <1>1, <1>2, <2>1 DEF Handled
  <2> QED
    BY <2>2 DEF Current
<1>3. CASE t # s /\ works[t].phase = "apply"
  <2>1. works[t] \in Handled
    BY <1>3, NoWorkPhase DEF TypeInv
  <2>2. v.phase = "apply" /\ ~v.clean
    BY <1>1, <1>3, <2>1 DEF Handled
  <2> QED
    BY <2>2 DEF Current
<1>4. CASE t # s /\ works[t].phase # "apply"
  <2>1. v = works[t] /\ Current(v) /\ v.phase \notin {"sync", "commit"}
    BY <1>1, <1>4 DEF KernelInv, TypeInv
  <2> QED
    BY <1>4, <2>1 DEF Current
<1> QED
  BY <1>2, <1>3, <1>4

\* After a commit nothing that was read before counts.
LEMMA AgedCurrent ==
    ASSUME TypeInv, NEW s \in PeerSlot, writer = s, works' = [Aged EXCEPT ![s] = NoWork]
    PROVE  (\A t \in PeerSlot : works[t] # NoWork => Current(works[t]))'
<1> SUFFICES ASSUME NEW t \in PeerSlot, NEW v, v = works'[t], v # NoWork
             PROVE  Current(v)'
  BY CurrentHandlers
<1>1. v = [works[t] EXCEPT !.clean = FALSE] /\ t # s /\ works[t] # NoWork
  BY DEF Aged, Idle
<1>2. works[t] \in Handled /\ works[t].phase \notin {"sync", "commit"}
  BY <1>1 DEF TypeInv
<1>3. v.phase = works[t].phase /\ ~v.clean
  BY <1>1, <1>2 DEF Handled
<1> QED
  BY <1>2, <1>3 DEF Current

LEMMA KernelStep ==
    ASSUME TypeInv, KernelInv, [PeersNext]_peersVars
    PROVE  KernelInv'
<1>1. CASE StopServer
  <2>1. (\A t \in PeerSlot : works[t] # NoWork => Current(works[t]))'
    <3> SUFFICES ASSUME NEW t \in PeerSlot, NEW v, v = works'[t], v # NoWork
                 PROVE  Current(v)'
      BY CurrentHandlers
    <3> QED
      BY <1>1 DEF StopServer, KernelInv, Current
  <2>2. ~up'
    BY <1>1 DEF StopServer
  <2> QED
    BY <2>1, <2>2 DEF KernelInv, KernelFollowsPeers
<1>2. CASE PeersRestart
  <2>1. /\ works' = [s \in PeerSlot |-> NoWork] /\ peers' = peers
        /\ kernel' = Configured(peers, NothingSeen) \/ behind'
    BY <1>2 DEF PeersRestart, Recreated, HalfMade
  <2> QED
    BY <2>1 DEF KernelInv, KernelFollowsPeers
<1>3. ASSUME NEW s \in PeerSlot, PeerRequest(s) \/ HealthCheck(s)
      PROVE  KernelInv'
  <2>1. PICK w \in Handled : /\ works' = [works EXCEPT ![s] = w]
                             /\ w.phase \in {"flush", "apply"} /\ Current(w)
    BY <1>3, RequestCurrent
  <2>2. UNCHANGED <<up, peers, pending, writer, kernel, behind>>
    BY <1>3 DEF PeerRequest, HealthCheck
  <2>3. Current(w)'
    <3>1. \A r \in PeerSlot : works'[r].phase = "commit" => works[r].phase = "commit"
      BY <2>1 DEF TypeInv
    <3> QED
      BY <2>1, <2>2, <3>1 DEF Current
  <2>4. (\A t \in PeerSlot : works[t] # NoWork => Current(works[t]))'
    <3>1. \A t \in PeerSlot : works[t].phase = "commit" => works[t] # NoWork /\ Current(works[t])
      BY NoWorkPhase DEF KernelInv
    <3> QED
      BY <2>1, <2>2, <2>3, <3>1, OneCurrent DEF Current
  <2> QED
    BY <2>2, <2>4 DEF KernelInv, KernelFollowsPeers
<1>4. ASSUME NEW s \in PeerSlot, Flush(s)
      PROVE  KernelInv'
  <2>1. /\ works[s].phase = "flush" /\ writer = "none" /\ Accepted(works[s]) /\ writer' = s
        /\ pending' = Changed(works[s]) /\ works' = [works EXCEPT ![s].phase = "sync"]
        /\ UNCHANGED <<peers, kernel, behind, up>>
    BY <1>4 DEF Flush, LockFree
  <2>2. works[s] \in Handled /\ Sound(works[s]) /\ Current(works[s])
    BY <2>1, NoWorkPhase DEF TypeInv, KernelInv
  <2>3. works[s].clean => Configured(Changed(works[s]), Objects(works[s])) = Configured(Changed(works[s]), NothingSeen)
    BY <2>1, <2>2, FlushCurrent
  <2>4. (\A t \in PeerSlot : works[t] # NoWork => Current(works[t]))'
    <3> SUFFICES ASSUME NEW t \in PeerSlot, NEW v, v = works'[t], v # NoWork
                 PROVE  Current(v)'
      BY CurrentHandlers
    <3>1. CASE t = s
      <4>1. v = [works[s] EXCEPT !.phase = "sync"]
        BY <2>1, <3>1 DEF TypeInv
      <4>2. v.phase = "sync" /\ v.clean = works[s].clean /\ Objects(v) = Objects(works[s])
        BY <2>2, <4>1 DEF Handled, Objects
      <4> QED
        BY <2>1, <2>3, <4>2 DEF Current
    <3>2. CASE t # s
      <4>1. v = works[t] /\ Current(v) /\ v.phase \notin {"sync", "commit"}
        BY <2>1, <3>2, PeersAssumption DEF TypeInv, KernelInv
      <4>2. \A r \in PeerSlot : works'[r].phase = "commit" => works[r].phase = "commit"
        <5>1. works'[s].phase = "sync"
          BY <2>1, <2>2 DEF TypeInv, Handled
        <5> QED
          BY <2>1, <5>1 DEF TypeInv
      <4> QED
        BY <2>1, <4>1, <4>2 DEF Current
    <3> QED
      BY <3>1, <3>2
  <2>5. KernelFollowsPeers'
    BY <2>1, PeersAssumption DEF KernelFollowsPeers
  <2> QED
    BY <2>4, <2>5 DEF KernelInv
<1>5. ASSUME NEW s \in PeerSlot, FlushFails(s)
      PROVE  KernelInv'
  <2>1. /\ works[s].phase = "flush" /\ works' = [works EXCEPT ![s] = NoWork]
        /\ UNCHANGED <<peers, pending, writer, kernel, behind, up>>
    BY <1>5 DEF FlushFails
  <2>2. \A t \in PeerSlot : works[t].phase = "commit" => works[t] # NoWork /\ Current(works[t])
    BY NoWorkPhase DEF KernelInv
  <2> QED
    BY <2>1, <2>2, OneCurrent, NoWorkPhase DEF KernelInv, KernelFollowsPeers, Current
<1>6. ASSUME NEW s \in PeerSlot, SyncInterface(s)
      PROVE  KernelInv'
  <2>1. /\ works[s].phase = "sync" /\ works' = Passed(s) /\ UNCHANGED <<peers, pending, writer, up>>
        /\ up => kernel' = Configured(pending, Objects(works[s])) /\ behind' = ~works[s].clean
    BY <1>6 DEF SyncInterface
  <2>2. works[s] \in Handled /\ Current(works[s]) /\ writer = s
    BY <2>1, NoWorkPhase DEF TypeInv, KernelInv
  <2>3. up' /\ ~behind' => kernel' = Configured(pending, NothingSeen)
    BY <2>1, <2>2 DEF Current
  <2> QED
    BY <2>1, <2>2, <2>3, PassedCurrent, PeersAssumption DEF KernelInv, KernelFollowsPeers
<1>7. ASSUME NEW s \in PeerSlot, SyncFails(s)
      PROVE  KernelInv'
  BY <1>7, PassedCurrent DEF SyncFails, KernelInv, KernelFollowsPeers
<1>8. ASSUME NEW s \in PeerSlot, CommitPeers(s)
      PROVE  KernelInv'
  <2>1. /\ works[s].phase = "commit" /\ peers' = pending /\ works' = [Aged EXCEPT ![s] = NoWork]
        /\ UNCHANGED <<kernel, behind, up>>
    BY <1>8 DEF CommitPeers
  <2>2. writer = s /\ Current(works[s])
    BY <2>1, NoWorkPhase DEF TypeInv, KernelInv
  <2>3. KernelFollowsPeers'
    BY <2>1, <2>2 DEF Current, KernelFollowsPeers
  <2> QED
    BY <2>1, <2>2, <2>3, AgedCurrent DEF KernelInv
<1>9. ASSUME NEW s \in PeerSlot, RunApply(s)
      PROVE  KernelInv'
  <2>1. /\ works[s].phase = "apply" /\ kernel' = Configured(works[s].seen, NothingSeen)
        /\ behind' = ~works[s].clean /\ works' = [works EXCEPT ![s] = NoWork]
        /\ UNCHANGED <<peers, pending, writer>>
    BY <1>9 DEF RunApply, Recreated
  <2>2. Current(works[s]) /\ works[s] \in Handled
    BY <2>1, NoWorkPhase DEF KernelInv, TypeInv
  <2>3. KernelFollowsPeers'
    BY <2>1, <2>2 DEF KernelFollowsPeers, Current
  <2>4. \A t \in PeerSlot : works[t].phase = "commit" => behind'
    BY <2>1, <2>2 DEF Current, Handled
  <2> QED
    BY <2>1, <2>3, <2>4, OneCurrent, NoWorkPhase DEF KernelInv
<1>10. ASSUME NEW s \in PeerSlot, ApplyFails(s)
       PROVE  KernelInv'
  <2>1. /\ works' = [works EXCEPT ![s] = NoWork] /\ behind' /\ UNCHANGED <<peers, pending, writer>>
    BY <1>10 DEF ApplyFails, HalfMade
  <2> QED
    BY <2>1, OneCurrent, NoWorkPhase DEF KernelInv, KernelFollowsPeers
<1>11. CASE UNCHANGED peersVars
  <2>1. (\A t \in PeerSlot : works[t] # NoWork => Current(works[t]))'
    <3> SUFFICES ASSUME NEW t \in PeerSlot, NEW v, v = works'[t], v # NoWork
                 PROVE  Current(v)'
      BY CurrentHandlers
    <3> QED
      BY <1>11 DEF peersVars, KernelInv, Current
  <2> QED
    BY <1>11, <2>1 DEF KernelInv, KernelFollowsPeers, peersVars
<1> QED
  BY <1>1, <1>2, <1>3, <1>4, <1>5, <1>6, <1>7, <1>8, <1>9, <1>10, <1>11 DEF PeersNext

\* Whenever no change is under way, the running interface lets in exactly the enabled
\* peers, each at its address, whatever handlers read, wrote and synchronised in between,
\* unless the last synchronisation or apply failed, or was overtaken.
THEOREM KernelFollowsCommitted == PeersSpec => []KernelFollowsPeers
<1>1. PeersInit => KernelInv
  <2> SUFFICES ASSUME PeersInit PROVE KernelInv
    OBVIOUS
  <2>1. Rows(peers) = {}
    BY DEF PeersInit, Rows
  <2>2. Configured(peers, NothingSeen) = {}
    BY <2>1 DEF Configured
  <2> QED
    BY <2>2 DEF PeersInit, KernelInv, KernelFollowsPeers
<1>2. TypeInv /\ KernelInv /\ [PeersNext]_peersVars => TypeInv' /\ KernelInv'
  BY TypeStep, KernelStep
<1>3. KernelInv => KernelFollowsPeers
  BY DEF KernelInv
<1> QED
  BY <1>1, <1>2, <1>3, TypeStart, PTL DEF PeersSpec

---------------------------------------------------------------------------
(* Addresses *)

Distinct(table) ==
    \A p, q \in Rows(table) :
        p # q /\ table[p].own /\ table[q].own /\ table[p].addr # NoAddress => table[p].addr # table[q].addr

\* The address that a new row is going to have is free, if nothing was committed since.
Unused(w) ==
    w.phase = "flush" /\ w.kind = "create" /\ w.clean /\ w.row.own /\ w.row.addr # NoAddress =>
        \A p \in Rows(peers) : peers[p].addr # w.row.addr

AddressInv ==
    /\ ~twice => Distinct(peers) /\ (writer # "none" => Distinct(pending))
    /\ \A s \in PeerSlot : works[s] # NoWork => Unused(works[s])

\* A row keeps the mark of an allocated address only with the address.
LEMMA ChangedDistinct ==
    ASSUME TypeInv, NEW w \in Handled, Sound(w), w.phase = "flush", Unused(w), Accepted(w),
           Distinct(peers), w.kind = "create" => w.clean
    PROVE  Distinct(Changed(w))
<1>0. w.kind \in {"create", "set", "delete"} /\ peers \in Tables
  BY DEF Handled, Sound, TypeInv
<1>1. CASE w.kind = "create"
  <2> DEFINE new == CHOOSE id \in PeerId : IsNextId(id)
  <2>1. new \in PeerId
    BY <1>1 DEF Accepted
  <2>2. Changed(w) = [peers EXCEPT ![new] = w.row]
    BY <1>1 DEF Changed
  <2> HIDE DEF new
  <2>3. \A p \in Rows(Changed(w)) : p # new => p \in Rows(peers) /\ Changed(w)[p] = peers[p]
    BY <1>0, <2>1, <2>2 DEF Rows, Tables
  <2>4. Changed(w)[new] = w.row
    BY <1>0, <2>1, <2>2 DEF Tables
  <2>5. w.row.own /\ w.row.addr # NoAddress => \A p \in Rows(peers) : peers[p].addr # w.row.addr
    BY <1>1 DEF Unused
  <2> QED
    BY <2>3, <2>4, <2>5 DEF Distinct
<1>2. CASE w.kind \in {"set", "delete"}
  <2>1. w.id \in PeerId
    BY <1>2 DEF Sound
  <2>2. ASSUME NEW p \in Rows(Changed(w)), Changed(w)[p].own
        PROVE  p \in Rows(peers) /\ peers[p].own /\ Changed(w)[p].addr = peers[p].addr
    <3>1. CASE p # w.id
      BY <1>0, <1>2, <2>1, <2>2, <3>1 DEF Changed, Rows, Tables
    <3>2. CASE p = w.id /\ w.kind = "set"
      <4>1. peers[p] \in Peer /\ p \in Rows(peers)
        BY <1>0, <2>1, <3>2, RowKinds DEF Accepted, Rows, Tables
      <4>2. Changed(w)[p] = PeerUpdated(peers[p], w.seen[p], w.row)
        BY <1>0, <2>1, <3>2 DEF Changed, Tables
      <4> QED
        BY <2>2, <4>1, <4>2 DEF PeerUpdated, Peer
    <3>3. CASE p = w.id /\ w.kind = "delete"
      <4>1. Changed(w)[p] = NoPeer
        BY <1>0, <2>1, <3>3 DEF Changed, Tables
      <4> QED
        BY <4>1 DEF Rows
    <3> QED
      BY <1>2, <3>1, <3>2, <3>3
  <2> QED
    BY <2>2 DEF Distinct
<1> QED
  BY <1>0, <1>1, <1>2 DEF Handled

LEMMA UnusedHandlers ==
    ASSUME \A t \in PeerSlot : \A v : v = works'[t] /\ v # NoWork => Unused(v)'
    PROVE  (\A t \in PeerSlot : works[t] # NoWork => Unused(works[t]))'
  BY DEF Unused

\* A new handler asks for an address that is free.
LEMMA RequestUnused ==
    ASSUME TypeInv, NEW s \in PeerSlot, PeerRequest(s) \/ HealthCheck(s), NEW v, v = works'[s]
    PROVE  Unused(v)
<1>1. PICK w \in Handled : works' = [works EXCEPT ![s] = w]
  BY RequestType DEF PeerRequest
<1>2. v = w
  BY <1>1 DEF TypeInv
<1>3. CASE CreatePeer(s)
  <2>1. PICK key \in PeerKey, addr \in Address, own \in BOOLEAN :
          works' = [works EXCEPT ![s] =
            Work("flush", "create", 0,
                 [key |-> key, addr |-> IF own THEN Allocated ELSE addr, on |-> TRUE, own |-> own],
                 [p \in Rows(peers) |-> peers[p]])]
    BY <1>3 DEF CreatePeer
  <2>2. v.row = [key |-> key, addr |-> IF own THEN Allocated ELSE addr, on |-> TRUE, own |-> own]
    BY <2>1 DEF TypeInv, Work
  <2> QED
    BY <2>2, AllocatedType DEF Unused
<1>4. CASE UpdatePeer(s) \/ TogglePeer(s) \/ DeletePeer(s) \/ ApplyServer(s) \/ HealthCheck(s)
  <2>1. UpdatePeer(s) \/ TogglePeer(s) =>
          \E p \in Rows(peers) : \E row : works' = [works EXCEPT ![s] = Work("flush", "set", p, row, Only(p))]
    BY DEF UpdatePeer, TogglePeer
  <2>2. DeletePeer(s) =>
          \E p \in Rows(peers) : works' = [works EXCEPT ![s] = Work("flush", "delete", p, NoPeer, Only(p))]
    BY DEF DeletePeer
  <2>3. ApplyServer(s) \/ HealthCheck(s) => v.kind \in {"apply", "health"}
    BY DEF ApplyServer, HealthCheck, TypeInv, Work
  <2>4. UpdatePeer(s) \/ TogglePeer(s) \/ DeletePeer(s) => v.kind # "create"
    BY <2>1, <2>2 DEF TypeInv, Work
  <2> QED
    BY <1>4, <2>3, <2>4 DEF Unused
<1> QED
  BY <1>3, <1>4 DEF PeerRequest

\* A handler that changes alone
LEMMA OneUnused ==
    ASSUME TypeInv, AddressInv, NEW s \in PeerSlot, peers' = peers,
           NEW w, works' = [works EXCEPT ![s] = w], w # NoWork => w.phase # "flush" \/ Unused(w)
    PROVE  (\A t \in PeerSlot : works[t] # NoWork => Unused(works[t]))'
<1> SUFFICES ASSUME NEW t \in PeerSlot, NEW v, v = works'[t], v # NoWork
             PROVE  Unused(v)'
  BY UnusedHandlers
<1>1. v = IF t = s THEN w ELSE works[t]
  BY DEF TypeInv
<1>2. v.phase # "flush" \/ Unused(v)
  BY <1>1 DEF AddressInv
<1> QED
  BY <1>2 DEF Unused

LEMMA AddressStep ==
    ASSUME TypeInv, AddressInv, [PeersNext]_peersVars
    PROVE  AddressInv'
<1> DEFINE Tables2 == UNCHANGED <<peers, pending, writer, twice>>
<1>0. Tables2 => (~twice => Distinct(peers) /\ (writer # "none" => Distinct(pending)))'
  BY DEF AddressInv, Distinct, Rows
<1>1. CASE StopServer \/ UNCHANGED peersVars
  <2>1. Tables2 /\ works' = works
    BY <1>1 DEF StopServer, peersVars
  <2>2. (\A t \in PeerSlot : works[t] # NoWork => Unused(works[t]))'
    BY <2>1 DEF AddressInv, Unused
  <2> QED
    BY <1>0, <2>1, <2>2 DEF AddressInv
<1>2. CASE PeersRestart
  BY <1>2 DEF PeersRestart, AddressInv, Distinct, Rows
<1>3. ASSUME NEW s \in PeerSlot, PeerRequest(s) \/ HealthCheck(s)
      PROVE  AddressInv'
  <2>1. PICK w \in Handled : works' = [works EXCEPT ![s] = w]
    BY <1>3, RequestType DEF PeerRequest
  <2>2. works'[s] = w
    BY <2>1 DEF TypeInv
  <2>3. Unused(w)
    BY <1>3, <2>2, RequestUnused
  <2>4. Tables2
    BY <1>3 DEF PeerRequest, HealthCheck
  <2> QED
    BY <1>0, <2>1, <2>3, <2>4, OneUnused DEF AddressInv
<1>4. ASSUME NEW s \in PeerSlot, Flush(s)
      PROVE  AddressInv'
  <2>1. /\ works[s].phase = "flush" /\ Accepted(works[s]) /\ peers' = peers
        /\ pending' = Changed(works[s]) /\ works' = [works EXCEPT ![s] = [works[s] EXCEPT !.phase = "sync"]]
        /\ twice' = (twice \/ (works[s].kind = "create" /\ ~works[s].clean))
    BY <1>4 DEF Flush
  <2>2. works[s] \in Handled /\ Sound(works[s]) /\ Unused(works[s])
    BY <2>1, NoWorkPhase DEF TypeInv, AddressInv
  <2>3. ~twice' => Distinct(peers) /\ Distinct(Changed(works[s]))
    BY <2>1, <2>2, ChangedDistinct DEF AddressInv, Handled
  <2>4. (~twice => Distinct(peers) /\ (writer # "none" => Distinct(pending)))'
    BY <2>1, <2>3 DEF Distinct, Rows
  <2>5. [works[s] EXCEPT !.phase = "sync"].phase = "sync"
    BY <2>2 DEF Handled
  <2> QED
    BY <2>1, <2>4, <2>5, OneUnused DEF AddressInv
<1>5. ASSUME NEW s \in PeerSlot, FlushFails(s) \/ RunApply(s) \/ ApplyFails(s)
      PROVE  AddressInv'
  <2>1. Tables2 /\ works' = [works EXCEPT ![s] = NoWork]
    BY <1>5 DEF FlushFails, RunApply, ApplyFails
  <2> QED
    BY <1>0, <2>1, OneUnused DEF AddressInv
<1>6. ASSUME NEW s \in PeerSlot, SyncInterface(s) \/ SyncFails(s)
      PROVE  AddressInv'
  <2>1. works[s].phase = "sync" /\ works' = Passed(s) /\ Tables2
    BY <1>6 DEF SyncInterface, SyncFails
  <2>2. (\A t \in PeerSlot : works[t] # NoWork => Unused(works[t]))'
    <3> SUFFICES ASSUME NEW t \in PeerSlot, NEW v, v = works'[t], v # NoWork
                 PROVE  Unused(v)'
      BY UnusedHandlers
    <3>1. v = IF t = s THEN [works[s] EXCEPT !.phase = "commit"]
              ELSE IF works[t].phase = "apply" THEN [works[t] EXCEPT !.clean = FALSE] ELSE works[t]
      BY <2>1 DEF Passed
    <3>2. CASE v = works[t]
      BY <2>1, <3>2 DEF AddressInv, Unused
    <3>3. CASE v # works[t]
      <4>1. works[t] \in Handled
        BY <2>1, <3>1, <3>3, NoWorkPhase DEF TypeInv
      <4>2. v.phase # "flush"
        BY <3>1, <3>3, <4>1 DEF Handled
      <4> QED
        BY <4>2 DEF Unused
    <3> QED
      BY <3>2, <3>3
  <2> QED
    BY <1>0, <2>1, <2>2 DEF AddressInv
<1>7. ASSUME NEW s \in PeerSlot, CommitPeers(s)
      PROVE  AddressInv'
  <2>1. /\ works[s].phase = "commit" /\ peers' = pending /\ works' = [Aged EXCEPT ![s] = NoWork]
        /\ writer' = "none" /\ twice' = twice
    BY <1>7 DEF CommitPeers
  <2>2. writer # "none"
    BY <2>1, PeersAssumption DEF TypeInv
  <2>3. (~twice => Distinct(peers) /\ (writer # "none" => Distinct(pending)))'
    BY <2>1, <2>2 DEF AddressInv, Distinct, Rows
  <2>4. (\A t \in PeerSlot : works[t] # NoWork => Unused(works[t]))'
    <3> SUFFICES ASSUME NEW t \in PeerSlot, NEW v, v = works'[t], v # NoWork
                 PROVE  Unused(v)'
      BY UnusedHandlers
    <3>1. v = [works[t] EXCEPT !.clean = FALSE] /\ works[t] # NoWork
      BY <2>1 DEF Aged, Idle
    <3>2. ~v.clean
      BY <3>1 DEF TypeInv, Handled
    <3> QED
      BY <3>2 DEF Unused
  <2> QED
    BY <2>3, <2>4 DEF AddressInv
<1> QED
  BY <1>1, <1>2, <1>3, <1>4, <1>5, <1>6, <1>7 DEF PeersNext

\* The server never gives two clients one address, whatever handlers change at the same
\* time, as long as no change is committed between an allocation and its flush.
THEOREM AddressesStayDistinct == PeersSpec => []AddressesDistinct
<1>1. PeersInit => AddressInv
  <2> SUFFICES ASSUME PeersInit PROVE AddressInv
    OBVIOUS
  <2>1. Rows(peers) = {}
    BY DEF PeersInit, Rows
  <2> QED
    BY <2>1 DEF PeersInit, AddressInv, Distinct
<1>2. TypeInv /\ AddressInv /\ [PeersNext]_peersVars => TypeInv' /\ AddressInv'
  BY TypeStep, AddressStep
<1>3. AddressInv => AddressesDistinct
  BY DEF AddressInv, AddressesDistinct, Distinct
<1> QED
  BY <1>1, <1>2, <1>3, TypeStart, PTL DEF PeersSpec

---------------------------------------------------------------------------
(* Sources and exclusions: types *)

UpdatePhase == {"fetch", "fill", "swap", "note"}
ExclusionRows == [Excluded -> Exclusion]

CreateTask == [phase : {"commit"}, kind : {"create"}, id : {0}, seen : {NoSource}, row : GeoSource]
ChangeTask == [phase : {"commit"}, kind : {"update"}, id : SourceId, seen : GeoSource, row : GeoSource]
RemoveTask == [phase : {"commit"}, kind : {"delete"}, id : SourceId, seen : GeoSource, row : {NoSource}]
CommitTask == CreateTask \cup ChangeTask \cup RemoveTask
StartTask == [phase : {"start"}, kind : {"trigger", "change"}]
UpdateTask == [phase : UpdatePhase, left : SUBSET (SourceId \X GeoSource), got : SUBSET Url, clean : BOOLEAN]
ReadTask == [phase : {"read"}, whole : BOOLEAN]
FlushTask == [phase : {"flush"}, seen : ExclusionRows, rows : ExclusionRows]
WriterTask == [phase : {"sync", "settle"}]
InstallTask == [phase : {"install"}, whole : BOOLEAN, usable : BOOLEAN, list : SUBSET Excluded, clean : BOOLEAN]

TaskTyped(t) ==
    \/ t = NoTask \/ t \in CommitTask \/ t \in StartTask \/ t \in UpdateTask \/ t \in ReadTask
    \/ t \in FlushTask \/ t \in WriterTask \/ t \in InstallTask

TasksTyped ==
    /\ tasks = [s \in GeoSlot |-> tasks[s]]
    /\ \A s \in GeoSlot : TaskTyped(tasks[s])

GeoipTyped == GeoipTypeOK /\ TasksTyped

LEMMA PhaseOfTask ==
    ASSUME NEW t, TaskTyped(t)
    PROVE  /\ t.phase = "commit" => t \in CommitTask
           /\ t.phase = "start" => t \in StartTask
           /\ t.phase \in UpdatePhase => t \in UpdateTask
           /\ t.phase = "read" => t \in ReadTask
           /\ t.phase = "flush" => t \in FlushTask
           /\ t.phase \in {"sync", "settle"} => t \in WriterTask
           /\ t.phase = "install" => t \in InstallTask
<1>1. t \in CommitTask => t.phase = "commit"
  BY DEF CommitTask, CreateTask, ChangeTask, RemoveTask
<1>2. t \in StartTask => t.phase = "start"
  BY DEF StartTask
<1>3. t \in UpdateTask => t.phase \in UpdatePhase
  BY DEF UpdateTask
<1>4. t \in ReadTask => t.phase = "read"
  BY DEF ReadTask
<1>5. t \in FlushTask => t.phase = "flush"
  BY DEF FlushTask
<1>6. t \in WriterTask => t.phase \in {"sync", "settle"}
  BY DEF WriterTask
<1>7. t \in InstallTask => t.phase = "install"
  BY DEF InstallTask
<1>8. t = NoTask => t.phase = "idle"
  BY DEF NoTask
<1> QED
  BY <1>1, <1>2, <1>3, <1>4, <1>5, <1>6, <1>7, <1>8 DEF TaskTyped, UpdatePhase

LEMMA OneTaskSlot ==
    ASSUME TasksTyped, NEW s \in GeoSlot, NEW t, tasks' = [tasks EXCEPT ![s] = t]
    PROVE  /\ tasks'[s] = t /\ \A r \in GeoSlot \ {s} : tasks'[r] = tasks[r]
           /\ TaskTyped(t) => TasksTyped'
BY DEF TasksTyped

LEMMA NoRow == NoSource \notin GeoSource
<1>1. DOMAIN NoSource = {"code"}
  BY DEF NoSource
<1>2. \A r \in GeoSource : "url" \in DOMAIN r
  BY DEF GeoSource
<1> QED
  BY <1>1, <1>2

---------------------------------------------------------------------------
(* Exclusions *)

\* The writer is the request between flush and commit, and what it sees is committed if
\* there is none.
WriterHolds ==
    /\ \A s \in GeoSlot : holder = s <=> tasks[s].phase \in {"sync", "settle"}
    /\ holder = "none" => changed = exclusions

\* A list that nothing has overtaken is the one of the committed rows, and there is none
\* while a change is in the set but not committed.
CleanLists ==
    \A s \in GeoSlot : tasks[s].phase = "install" /\ tasks[s].clean =>
        /\ tasks[s].list = Prefixes(exclusions)
        /\ \A r \in GeoSlot : tasks[r].phase # "settle"

\* The set has the committed rows until the writer has synchronised it, also while there
\* are marks but the table does not lead into the tunnel.
SetFollows ==
    (tunnelled \/ marked) /\ ~late =>
        /\ marked
        /\ excluded = IF \E s \in GeoSlot : tasks[s].phase = "settle"
                      THEN Prefixes(changed) ELSE Prefixes(exclusions)

ExclusionInv == WriterHolds /\ CleanLists /\ SetFollows

\* Steps that have nothing to do with exclusions
LEMMA ExclusionsStay ==
    ASSUME ExclusionInv, UNCHANGED <<exclusions, changed, holder, excluded, marked, tunnelled, late>>,
           \A r \in GeoSlot : \/ tasks'[r] = tasks[r]
                              \/ /\ tasks[r].phase \notin {"sync", "settle", "install"}
                                 /\ tasks'[r].phase \notin {"sync", "settle", "install"}
                              \/ /\ tasks[r].phase = "install"
                                 /\ tasks'[r].phase \notin {"sync", "settle", "install"}
    PROVE  ExclusionInv'
<1>1. WriterHolds'
  BY DEF ExclusionInv, WriterHolds
<1>2. \A r \in GeoSlot : tasks'[r].phase = "settle" <=> tasks[r].phase = "settle"
  OBVIOUS
<1>3. CleanLists'
  BY <1>2 DEF ExclusionInv, CleanLists, Prefixes
<1>4. SetFollows'
  BY <1>2 DEF ExclusionInv, SetFollows, Prefixes
<1> QED
  BY <1>1, <1>3, <1>4 DEF ExclusionInv

\* Overtaken leaves phases alone, and no list clean.
LEMMA OvertakenTasks ==
    ASSUME TasksTyped
    PROVE  /\ Overtaken = [r \in GeoSlot |-> Overtaken[r]]
           /\ \A r \in GeoSlot :
                 /\ Overtaken[r].phase = tasks[r].phase /\ TaskTyped(Overtaken[r])
                 /\ tasks[r].phase = "install" => ~Overtaken[r].clean
                 /\ tasks[r].phase # "install" => Overtaken[r] = tasks[r]
<1>1. ASSUME NEW r \in GeoSlot, tasks[r].phase = "install"
      PROVE  Overtaken[r] \in InstallTask /\ Overtaken[r].phase = "install" /\ ~Overtaken[r].clean
  <2>1. tasks[r] \in InstallTask
    BY <1>1, PhaseOfTask DEF TasksTyped
  <2>2. Overtaken[r] = [tasks[r] EXCEPT !.clean = FALSE]
    BY <1>1 DEF Overtaken
  <2> QED
    BY <2>1, <2>2 DEF InstallTask
<1>2. ASSUME NEW r \in GeoSlot, tasks[r].phase # "install"
      PROVE  Overtaken[r] = tasks[r]
  BY <1>2 DEF Overtaken
<1>3. Overtaken = [r \in GeoSlot |-> Overtaken[r]]
  BY DEF Overtaken
<1> QED
  BY <1>1, <1>2, <1>3 DEF TasksTyped, TaskTyped

LEMMA FlushKeeps ==
    ASSUME GeoipTyped, ExclusionInv, NEW s \in GeoSlot, FlushExclusion(s)
    PROVE  ExclusionInv'
<1> DEFINE t == [phase |-> "sync"]
<1>1. /\ tasks[s].phase = "flush" /\ holder = "none" /\ holder' = s /\ tasks' = [tasks EXCEPT ![s] = t]
      /\ UNCHANGED <<exclusions, excluded, marked, tunnelled, late>>
  BY DEF FlushExclusion
<1>2. tasks'[s] = t /\ \A r \in GeoSlot \ {s} : tasks'[r] = tasks[r]
  BY <1>1, OneTaskSlot DEF GeoipTyped
<1>3. \A r \in GeoSlot : tasks[r].phase \notin {"sync", "settle"}
  BY <1>1, GeoipAssumption DEF ExclusionInv, WriterHolds
<1>4. \A r \in GeoSlot : tasks'[r].phase # "settle"
  BY <1>2, <1>3
<1>5. WriterHolds'
  BY <1>1, <1>2, <1>3, GeoipAssumption DEF WriterHolds
<1>6. CleanLists'
  BY <1>1, <1>2, <1>4 DEF ExclusionInv, CleanLists, Prefixes
<1>7. SetFollows'
  BY <1>1, <1>3, <1>4 DEF ExclusionInv, SetFollows, Prefixes
<1> QED
  BY <1>5, <1>6, <1>7 DEF ExclusionInv

LEMMA SyncKeeps ==
    ASSUME GeoipTyped, ExclusionInv, NEW s \in GeoSlot, SyncExclusion(s)
    PROVE  ExclusionInv'
<1> DEFINE t == [phase |-> "settle"]
<1>1. /\ tasks[s].phase = "sync" /\ tasks' = [Overtaken EXCEPT ![s] = t]
      /\ UNCHANGED <<exclusions, changed, holder, marked, tunnelled>>
      /\ late' \/ (excluded' = Prefixes(changed) /\ marked)
  BY DEF SyncExclusion
<1>2. tasks'[s] = t /\ \A r \in GeoSlot \ {s} : tasks'[r] = Overtaken[r]
  BY <1>1, OvertakenTasks DEF GeoipTyped
<1>3. \A r \in GeoSlot : r # s => /\ tasks'[r].phase = tasks[r].phase
                                  /\ tasks[r].phase = "install" => ~tasks'[r].clean
  BY <1>2, OvertakenTasks DEF GeoipTyped
<1>4. holder = s
  BY <1>1 DEF ExclusionInv, WriterHolds
<1>5. WriterHolds'
  BY <1>1, <1>2, <1>3, <1>4, GeoipAssumption DEF ExclusionInv, WriterHolds
<1>6. CleanLists'
  BY <1>2, <1>3 DEF CleanLists
<1>7. SetFollows'
  BY <1>1, <1>2 DEF ExclusionInv, SetFollows, Prefixes
<1> QED
  BY <1>5, <1>6, <1>7 DEF ExclusionInv

LEMMA SyncFailsKeeps ==
    ASSUME GeoipTyped, ExclusionInv, NEW s \in GeoSlot, SyncExclusionFails(s)
    PROVE  ExclusionInv'
<1>1. /\ tasks[s].phase = "sync" /\ tasks' = [tasks EXCEPT ![s] = NoTask]
      /\ holder' = "none" /\ changed' = exclusions
      /\ UNCHANGED <<exclusions, excluded, marked, tunnelled, late>>
  BY DEF SyncExclusionFails
<1>2. tasks'[s] = NoTask /\ \A r \in GeoSlot \ {s} : tasks'[r] = tasks[r]
  BY <1>1, OneTaskSlot DEF GeoipTyped
<1>3. holder = s
  BY <1>1 DEF ExclusionInv, WriterHolds
<1>4. \A r \in GeoSlot : tasks'[r].phase \notin {"sync", "settle"}
  BY <1>2, <1>3 DEF ExclusionInv, WriterHolds, NoTask
<1>5. \A r \in GeoSlot : tasks[r].phase # "settle"
  BY <1>1, <1>2, <1>4
<1>6. WriterHolds'
  BY <1>1, <1>4, GeoipAssumption DEF WriterHolds
<1>7. CleanLists'
  BY <1>1, <1>2, <1>4 DEF ExclusionInv, CleanLists, Prefixes, NoTask
<1>8. SetFollows'
  BY <1>1, <1>4, <1>5 DEF ExclusionInv, SetFollows, Prefixes
<1> QED
  BY <1>6, <1>7, <1>8 DEF ExclusionInv

LEMMA CommitKeeps ==
    ASSUME GeoipTyped, ExclusionInv, NEW s \in GeoSlot, CommitExclusion(s)
    PROVE  ExclusionInv'
<1>1. /\ tasks[s].phase = "settle" /\ tasks' = [Overtaken EXCEPT ![s] = NoTask]
      /\ holder' = "none" /\ exclusions' = changed
      /\ UNCHANGED <<changed, excluded, marked, tunnelled, late>>
  BY DEF CommitExclusion
<1>2. tasks'[s] = NoTask /\ \A r \in GeoSlot \ {s} : tasks'[r] = Overtaken[r]
  BY <1>1, OvertakenTasks DEF GeoipTyped
<1>3. \A r \in GeoSlot : r # s => /\ tasks'[r].phase = tasks[r].phase
                                  /\ tasks[r].phase = "install" => ~tasks'[r].clean
  BY <1>2, OvertakenTasks DEF GeoipTyped
<1>4. holder = s
  BY <1>1 DEF ExclusionInv, WriterHolds
<1>5. \A r \in GeoSlot : tasks'[r].phase \notin {"sync", "settle"}
  BY <1>2, <1>3, <1>4 DEF ExclusionInv, WriterHolds, NoTask
<1>6. WriterHolds'
  BY <1>1, <1>5, GeoipAssumption DEF WriterHolds
<1>7. CleanLists'
  BY <1>2, <1>3 DEF CleanLists, NoTask
<1>8. SetFollows'
  BY <1>1, <1>5 DEF ExclusionInv, SetFollows, Prefixes
<1> QED
  BY <1>6, <1>7, <1>8 DEF ExclusionInv

LEMMA ReadKeeps ==
    ASSUME GeoipTyped, ExclusionInv, NEW s \in GeoSlot, ReadExclusions(s)
    PROVE  ExclusionInv'
<1> DEFINE t == [phase |-> "install", whole |-> tasks[s].whole, usable |-> Usable,
                 list |-> Prefixes(exclusions), clean |-> holder = "none"]
<1>1. /\ tasks[s].phase = "read" /\ tasks' = [tasks EXCEPT ![s] = t]
      /\ UNCHANGED <<exclusions, changed, holder, excluded, marked, tunnelled, late>>
  BY DEF ReadExclusions, exclusionVars, GeoipTyped, TasksTyped
<1>2. t.phase = "install" /\ t.list = Prefixes(exclusions) /\ (t.clean => holder = "none")
  OBVIOUS
<1> HIDE DEF t
<1>3. tasks'[s] = t /\ \A r \in GeoSlot \ {s} : tasks'[r] = tasks[r]
  BY <1>1, OneTaskSlot DEF GeoipTyped
<1>4. \A r \in GeoSlot : tasks'[r].phase = "settle" <=> tasks[r].phase = "settle"
  BY <1>1, <1>2, <1>3
<1>5. WriterHolds'
  BY <1>1, <1>2, <1>3 DEF ExclusionInv, WriterHolds
<1>6. holder = "none" => \A r \in GeoSlot : tasks[r].phase # "settle"
  BY GeoipAssumption DEF ExclusionInv, WriterHolds
<1>7. CleanLists'
  BY <1>1, <1>2, <1>3, <1>4, <1>6 DEF ExclusionInv, CleanLists, Prefixes
<1>8. SetFollows'
  BY <1>1, <1>4 DEF ExclusionInv, SetFollows, Prefixes
<1> QED
  BY <1>5, <1>7, <1>8 DEF ExclusionInv

LEMMA InstallKeeps ==
    ASSUME GeoipTyped, ExclusionInv, NEW s \in GeoSlot, InstallExclusions(s) \/ InstallFails(s)
    PROVE  ExclusionInv'
<1> DEFINE t == tasks[s]
<1>1. /\ t.phase = "install" /\ tasks' = [tasks EXCEPT ![s] = NoTask]
      /\ UNCHANGED <<exclusions, changed, holder>>
  BY DEF InstallExclusions, InstallFails
<1>2. \/ late' = TRUE
      \/ UNCHANGED <<excluded, marked, tunnelled, late>>
      \/ /\ excluded' = (IF t.usable THEN t.list ELSE excluded)
         /\ marked' = (IF t.whole THEN t.usable ELSE marked)
         /\ tunnelled' = (IF t.whole THEN t.usable ELSE tunnelled)
         /\ late' = (IF t.usable THEN ~t.clean \/ ~(t.whole \/ marked) ELSE late)
  <2>1. CASE InstallExclusions(s)
    <3>1. CASE t.whole
      BY <2>1, <3>1 DEF InstallExclusions, Leaves, Routed, Net
    <3>2. CASE ~t.whole
      BY <2>1, <3>2 DEF InstallExclusions, Leaves, Net
    <3> QED
      BY <3>1, <3>2
  <2>2. CASE InstallFails(s)
    BY <2>2 DEF InstallFails, RoutingFails
  <2> QED
    BY <2>1, <2>2
<1>3. tasks'[s] = NoTask /\ \A r \in GeoSlot \ {s} : tasks'[r] = tasks[r]
  BY <1>1, OneTaskSlot DEF GeoipTyped
<1>4. NoTask.phase = "idle"
  BY DEF NoTask
<1>5. \A r \in GeoSlot : tasks'[r].phase = "settle" <=> tasks[r].phase = "settle"
  BY <1>1, <1>3, <1>4
<1>6. WriterHolds'
  BY <1>1, <1>3, <1>4 DEF ExclusionInv, WriterHolds
<1>7. CleanLists'
  BY <1>1, <1>3, <1>4, <1>5 DEF ExclusionInv, CleanLists, Prefixes
<1>8. t \in InstallTask
  BY <1>1, PhaseOfTask DEF GeoipTyped, TasksTyped
<1>9. SetFollows'
  <2>1. CASE late' = TRUE
    BY <2>1 DEF SetFollows
  <2>2. CASE UNCHANGED <<excluded, marked, tunnelled, late>>
    BY <1>1, <1>5, <2>2 DEF ExclusionInv, SetFollows, Prefixes
  <2>3. CASE /\ excluded' = (IF t.usable THEN t.list ELSE excluded)
             /\ marked' = (IF t.whole THEN t.usable ELSE marked)
             /\ tunnelled' = (IF t.whole THEN t.usable ELSE tunnelled)
             /\ late' = (IF t.usable THEN ~t.clean \/ ~(t.whole \/ marked) ELSE late)
    <3>1. CASE ~t.usable
      BY <1>1, <1>5, <2>3, <3>1 DEF ExclusionInv, SetFollows, Prefixes
    <3>2. CASE t.usable /\ ~t.clean
      BY <2>3, <3>2 DEF SetFollows
    <3>3. CASE t.usable /\ t.clean
      <4>1. t.list = Prefixes(exclusions) /\ \A r \in GeoSlot : tasks'[r].phase # "settle"
        BY <1>1, <1>5, <3>3 DEF ExclusionInv, CleanLists
      <4> QED
        BY <1>1, <2>3, <3>3, <4>1 DEF SetFollows, Prefixes
    <3> QED
      BY <3>1, <3>2, <3>3
  <2> QED
    BY <1>2, <2>1, <2>2, <2>3
<1> QED
  BY <1>6, <1>7, <1>9 DEF ExclusionInv

NodeAction ==
    SelectGeoip \/ SelectFails \/ ClearGeoip \/ ClearFails \/ RedeployGeoip \/ GeoipRedeployed

\* Steps of the node, without a task
LEMMA NodeKeeps ==
    ASSUME GeoipTyped, ExclusionInv, NodeAction
    PROVE  ExclusionInv'
<1>1. CASE SelectGeoip
  <2>1. /\ holder = "none" /\ UNCHANGED <<exclusions, changed, holder>> /\ tasks' = Overtaken
        /\ marked' /\ tunnelled' /\ excluded' = Prefixes(exclusions) /\ late' = FALSE
    BY <1>1 DEF SelectGeoip, NodeRequest, Leaves, Routed, Net
  <2>2. \A r \in GeoSlot : /\ tasks'[r].phase = tasks[r].phase
                           /\ tasks[r].phase = "install" => ~tasks'[r].clean
    BY <2>1, OvertakenTasks DEF GeoipTyped
  <2>3. \A r \in GeoSlot : tasks[r].phase # "settle"
    BY <2>1, GeoipAssumption DEF ExclusionInv, WriterHolds
  <2>4. WriterHolds' /\ CleanLists'
    BY <2>1, <2>2 DEF ExclusionInv, WriterHolds, CleanLists
  <2>5. SetFollows'
    BY <2>1, <2>2, <2>3 DEF SetFollows, Prefixes
  <2> QED
    BY <2>4, <2>5 DEF ExclusionInv
<1>2. CASE SelectFails \/ ClearGeoip \/ ClearFails \/ RedeployGeoip \/ GeoipRedeployed
  <2>1. UNCHANGED <<exclusions, changed, holder, tasks>>
    BY <1>2 DEF SelectFails, ClearGeoip, ClearFails, RedeployGeoip, GeoipRedeployed, NodeRequest
  <2>2. \/ late' = TRUE
        \/ marked' = FALSE /\ tunnelled' = FALSE
        \/ UNCHANGED <<marked, tunnelled, late, excluded>>
        \/ UNCHANGED <<marked, excluded>> /\ tunnelled' = TRUE /\ late' = (late \/ ~marked)
    <3>1. ClearGeoip => marked' = FALSE /\ tunnelled' = FALSE
      BY DEF ClearGeoip, Leaves, Routed, Net
    <3>2. SelectFails \/ ClearFails => late' = TRUE
      BY DEF SelectFails, ClearFails, RoutingFails
    <3> QED
      BY <1>2, <3>1, <3>2 DEF RedeployGeoip, GeoipRedeployed
  <2>3. WriterHolds' /\ CleanLists'
    BY <2>1 DEF ExclusionInv, WriterHolds, CleanLists, Prefixes
  <2>4. ASSUME late' = TRUE \/ (marked' = FALSE /\ tunnelled' = FALSE)
        PROVE  SetFollows'
    BY <2>4, Zenon DEF SetFollows
  <2>5. ASSUME UNCHANGED <<marked, tunnelled, late, excluded>>
        PROVE  SetFollows'
    BY <2>1, <2>5 DEF ExclusionInv, SetFollows, Prefixes
  <2>6. ASSUME UNCHANGED <<marked, excluded>>, tunnelled' = TRUE, late' = (late \/ ~marked)
        PROVE  SetFollows'
    <3>1. ASSUME ~late' PROVE ~late /\ marked
      BY <2>6, <3>1, Zenon
    <3> QED
      BY <2>1, <2>6, <3>1 DEF ExclusionInv, SetFollows, Prefixes
  <2>7. SetFollows'
    BY <2>2, <2>4, <2>5, <2>6
  <2> QED
    BY <2>3, <2>7 DEF ExclusionInv
<1> QED
  BY <1>1, <1>2 DEF NodeAction

\* After a start of the backend nothing is in flight, and all of it was set up from the rows,
\* or a command failed.
LEMMA FreshExclusions ==
    ASSUME tasks' = [s \in GeoSlot |-> NoTask], holder' = "none", changed' = exclusions',
           late' = TRUE \/ ((tunnelled' \/ marked') => marked' /\ excluded' = Prefixes(exclusions'))
    PROVE  ExclusionInv'
<1>1. \A s \in GeoSlot : tasks'[s].phase = "idle"
  BY DEF NoTask
<1>2. WriterHolds' /\ CleanLists'
  BY <1>1, GeoipAssumption DEF WriterHolds, CleanLists
<1>3. SetFollows'
  BY <1>1 DEF SetFollows, Prefixes
<1> QED
  BY <1>2, <1>3 DEF ExclusionInv

---------------------------------------------------------------------------
(* The local zone *)

Running(t) == t.phase \in UpdatePhase

\* A change of the sources that waits for its update
Waiting(t) == t.phase = "start" /\ t.kind = "change"

Wanted == {sources[i].url : i \in On(sources)}

\* The sources whose lists an update has fetched
Fetched(t) == {i \in On(sources) : <<i, sources[i]>> \notin t.left}

CacheOf(ids) == \A i \in ids : cache[sources[i].code] = sources[i].url

\* What an update has left to fetch and what it has, are of the sources as they are now.
Agrees(t) ==
    /\ \A p \in t.left : p[1] \in On(sources) /\ p[2] = sources[p[1]]
    /\ t.got = {sources[i].url : i \in Fetched(t)}
    /\ OneSourcePerCountry => CacheOf(Fetched(t))

\* Nothing but the one update touches the sets.
SetsFollow(t) ==
    /\ t.phase # "fetch" => t.left = {}
    /\ t.phase = "fill" /\ fresh # Absent => fresh = {}
    /\ t.phase = "swap" /\ fresh # Absent => fresh = t.got
    /\ t.phase = "note" => zone = t.got

OneUpdate ==
    /\ \A s \in GeoSlot : Running(tasks[s]) => updating
    /\ \A r, s \in GeoSlot : Running(tasks[r]) /\ Running(tasks[s]) => r = s
    /\ updating => \E s \in GeoSlot : Running(tasks[s])

SomeWaiting == \E s \in GeoSlot : Waiting(tasks[s])

UpdatesFollow ==
    \A s \in GeoSlot : Running(tasks[s]) =>
        /\ SetsFollow(tasks[s])
        /\ tasks[s].clean => Agrees(tasks[s])
        /\ Agrees(tasks[s]) \/ missed \/ SomeWaiting

\* Between updates the zone and the cache are those of the sources.
ZoneFollows ==
    ~updating /\ ~missed /\ ~SomeWaiting /\ OneSourcePerCountry =>
        zone = Wanted /\ CacheOf(On(sources))

ZoneInv == OneUpdate /\ UpdatesFollow /\ ZoneFollows

\* Steps that have nothing to do with updates
LEMMA ZoneStays ==
    ASSUME ZoneInv, UNCHANGED zoneVars,
           \A r \in GeoSlot : \/ tasks'[r] = tasks[r]
                              \/ /\ ~Running(tasks[r]) /\ ~Waiting(tasks[r])
                                 /\ ~Running(tasks'[r]) /\ ~Waiting(tasks'[r])
    PROVE  ZoneInv'
<1>1. \A r \in GeoSlot : /\ Running(tasks'[r]) <=> Running(tasks[r])
                         /\ Waiting(tasks'[r]) <=> Waiting(tasks[r])
                         /\ Running(tasks[r]) => tasks'[r] = tasks[r]
  BY DEF Running, Waiting
<1>2. SomeWaiting' <=> SomeWaiting
  BY <1>1 DEF SomeWaiting, Waiting
<1>3. UNCHANGED <<sources, cache, zone, fresh, updating, missed>>
  BY DEF zoneVars
<1>4. OneUpdate'
  BY <1>1, <1>3 DEF ZoneInv, OneUpdate, Running
<1>5. OneSourcePerCountry' <=> OneSourcePerCountry
  BY <1>3 DEF OneSourcePerCountry, Listed
<1>6. \A t : SetsFollow(t)' <=> SetsFollow(t)
  BY <1>3 DEF SetsFollow
<1>7. ASSUME NEW r \in GeoSlot, Running(tasks[r])
      PROVE  /\ SetsFollow(tasks[r])' <=> SetsFollow(tasks[r])
             /\ Agrees(tasks[r])' <=> Agrees(tasks[r])
  <2>1. tasks'[r] = tasks[r]
    BY <1>1, <1>7
  <2> QED
    BY <1>3, <1>5, <2>1 DEF SetsFollow, Agrees, Fetched, CacheOf, On, Listed
<1>8. UpdatesFollow'
  <2> SUFFICES ASSUME NEW r \in GeoSlot, Running(tasks'[r])
               PROVE  /\ SetsFollow(tasks[r])'
                      /\ tasks'[r].clean => Agrees(tasks[r])'
                      /\ Agrees(tasks[r])' \/ missed' \/ SomeWaiting'
    BY DEF UpdatesFollow, Running
  <2>1. Running(tasks[r]) /\ tasks'[r] = tasks[r]
    BY <1>1
  <2> QED
    BY <1>2, <1>3, <1>7, <2>1 DEF ZoneInv, UpdatesFollow
<1>9. ZoneFollows'
  BY <1>2, <1>3, <1>5 DEF ZoneInv, ZoneFollows, Wanted, CacheOf, On, Listed
<1> QED
  BY <1>4, <1>8, <1>9 DEF ZoneInv

\* A step of the update
LEMMA UpdateGoes ==
    ASSUME GeoipTyped, ZoneInv, NEW s \in GeoSlot, Running(tasks[s]),
           NEW t, Running(t), t.clean = tasks[s].clean, tasks' = [tasks EXCEPT ![s] = t],
           UNCHANGED <<sources, updating, missed>>,
           SetsFollow(t)', Agrees(tasks[s]) => Agrees(t)'
    PROVE  ZoneInv'
<1>1. tasks'[s] = t /\ \A r \in GeoSlot \ {s} : tasks'[r] = tasks[r]
  BY OneTaskSlot DEF GeoipTyped
<1>2. updating /\ \A r \in GeoSlot \ {s} : ~Running(tasks[r])
  BY DEF ZoneInv, OneUpdate
<1>3. \A r \in GeoSlot : Running(tasks'[r]) <=> r = s
  BY <1>1, <1>2 DEF Running
<1>4. SomeWaiting' <=> SomeWaiting
  <2>1. ~Waiting(t) /\ ~Waiting(tasks[s])
    BY DEF Running, Waiting, UpdatePhase
  <2> QED
    BY <1>1, <2>1 DEF SomeWaiting, Waiting
<1>5. OneUpdate'
  BY <1>2, <1>3 DEF OneUpdate, Running
<1>6. UpdatesFollow'
  <2>1. /\ tasks[s].clean => Agrees(tasks[s])
        /\ Agrees(tasks[s]) \/ missed \/ SomeWaiting
    BY DEF ZoneInv, UpdatesFollow
  <2>2. /\ SetsFollow(t)' /\ (t.clean => Agrees(t)')
        /\ Agrees(t)' \/ missed' \/ SomeWaiting'
    BY <1>4, <2>1
  <2> SUFFICES ASSUME NEW r \in GeoSlot, Running(tasks'[r])
               PROVE  /\ SetsFollow(tasks[r])'
                      /\ tasks'[r].clean => Agrees(tasks[r])'
                      /\ Agrees(tasks[r])' \/ missed' \/ SomeWaiting'
    BY DEF UpdatesFollow, Running
  <2>3. tasks'[r] = t
    BY <1>1, <1>3
  <2> QED
    BY <2>2, <2>3 DEF SetsFollow, Agrees, Fetched
<1>7. ZoneFollows'
  BY <1>2 DEF ZoneFollows
<1> QED
  BY <1>5, <1>6, <1>7 DEF ZoneInv

\* Fetched lists of sources, as long as those stay
LEMMA AgreesStays ==
    ASSUME NEW old, NEW new, Agrees(old), new.left = old.left, new.got = old.got,
           UNCHANGED <<sources, cache>>
    PROVE  Agrees(new)'
BY DEF Agrees, Fetched, CacheOf, OneSourcePerCountry, On, Listed

LEMMA FetchKeeps ==
    ASSUME GeoipTyped, ZoneInv, NEW s \in GeoSlot, FetchList(s)
    PROVE  ZoneInv'
<1>1. tasks[s].phase = "fetch" /\ UNCHANGED <<sources, zone, fresh, updating, missed>>
  BY DEF FetchList
<1>2. PICK p \in tasks[s].left :
          /\ cache' = [cache EXCEPT ![p[2].code] = p[2].url]
          /\ tasks' = [tasks EXCEPT ![s].left = @ \ {p}, ![s].got = @ \cup {p[2].url}]
  BY DEF FetchList
<1>3. tasks[s] \in UpdateTask /\ Running(tasks[s])
  BY <1>1, PhaseOfTask DEF GeoipTyped, TasksTyped, UpdatePhase, Running
<1>4. PICK t : t = [tasks[s] EXCEPT !.left = @ \ {p}, !.got = @ \cup {p[2].url}]
  OBVIOUS
<1>5. tasks' = [tasks EXCEPT ![s] = t]
  BY <1>2, <1>3, <1>4 DEF GeoipTyped, TasksTyped, UpdateTask
<1>6. t.phase = "fetch" /\ t.clean = tasks[s].clean
      /\ t.left = tasks[s].left \ {p} /\ t.got = tasks[s].got \cup {p[2].url}
  BY <1>1, <1>3, <1>4 DEF UpdateTask
<1>7. p \in SourceId \X GeoSource
  BY <1>3 DEF UpdateTask
<1>8. SetsFollow(t)'
  BY <1>6 DEF SetsFollow
<1>9. ASSUME Agrees(tasks[s]) PROVE Agrees(t)'
  <2> DEFINE i == p[1]
             old == tasks[s]
  <2>1. i \in On(sources) /\ p[2] = sources[i] /\ p = <<i, sources[i]>>
    BY <1>7, <1>9 DEF Agrees
  <2>2. Fetched(t) = Fetched(old) \cup {i}
    BY <1>6, <2>1 DEF Fetched
  <2>3. t.got = {sources[k].url : k \in Fetched(t)}
    BY <1>6, <1>9, <2>1, <2>2 DEF Agrees
  <2>4. \A q \in t.left : q[1] \in On(sources) /\ q[2] = sources[q[1]]
    BY <1>6, <1>9 DEF Agrees
  <2>5. ASSUME OneSourcePerCountry, NEW k \in Fetched(t)
        PROVE  cache'[sources[k].code] = sources[k].url
    <3>1. /\ cache' = [cache EXCEPT ![sources[i].code] = sources[i].url]
          /\ DOMAIN cache = Country /\ sources[i].code \in Country
      BY <1>2, <1>7, <2>1 DEF GeoipTyped, GeoipTypeOK, GeoSource
    <3>2. CASE k = i
      BY <3>1, <3>2
    <3>3. CASE k # i
      <4>1. cache[sources[k].code] = sources[k].url
        BY <1>9, <2>2, <2>5, <3>3 DEF Agrees, CacheOf
      <4>2. k \in Listed(sources) /\ i \in Listed(sources)
        BY <2>1 DEF Fetched, On
      <4>3. sources[k].code # sources[i].code
        BY <2>5, <3>3, <4>2 DEF OneSourcePerCountry
      <4>4. sources[k].code \in Country
        BY <4>2 DEF Listed, GeoipTyped, GeoipTypeOK, GeoSource
      <4> QED
        BY <3>1, <4>1, <4>3, <4>4
    <3> QED
      BY <3>2, <3>3
  <2> QED
    BY <1>1, <2>3, <2>4, <2>5 DEF Agrees, Fetched, CacheOf, OneSourcePerCountry, On, Listed
<1>10. Running(t)
  BY <1>6 DEF Running, UpdatePhase
<1> QED
  BY <1>1, <1>3, <1>5, <1>6, <1>8, <1>9, <1>10, UpdateGoes

\* create_or_update: the set is made, filled and swapped
LEMMA SwapKeeps ==
    ASSUME GeoipTyped, ZoneInv, NEW s \in GeoSlot, MakeSet(s) \/ FillSet(s) \/ SwapSet(s)
    PROVE  ZoneInv'
<1> DEFINE next == IF tasks[s].phase = "fetch" THEN "fill" ELSE IF tasks[s].phase = "fill" THEN "swap" ELSE "note"
<1>1. tasks[s].phase \in {"fetch", "fill", "swap"} /\ UNCHANGED <<sources, cache, updating, missed>>
  BY DEF MakeSet, FillSet, SwapSet
<1>2. tasks[s] \in UpdateTask /\ Running(tasks[s])
  BY <1>1, PhaseOfTask DEF GeoipTyped, TasksTyped, UpdatePhase, Running
<1>3. PICK t : t = [tasks[s] EXCEPT !.phase = next]
  OBVIOUS
<1>4. tasks' = [tasks EXCEPT ![s] = t]
  BY <1>2, <1>3 DEF MakeSet, FillSet, SwapSet, GeoipTyped, TasksTyped, UpdateTask
<1>5. t.phase = next /\ t.clean = tasks[s].clean /\ t.left = tasks[s].left /\ t.got = tasks[s].got
  BY <1>2, <1>3 DEF UpdateTask
<1>6. SetsFollow(tasks[s])
  BY <1>2 DEF ZoneInv, UpdatesFollow
<1>7. SetsFollow(t)'
  <2>1. CASE MakeSet(s)
    BY <1>5, <2>1 DEF MakeSet, SetsFollow, Absent
  <2>2. CASE FillSet(s)
    BY <1>5, <1>6, <2>2 DEF FillSet, SetsFollow
  <2>3. CASE SwapSet(s)
    BY <1>5, <1>6, <2>3 DEF SwapSet, SetsFollow
  <2> QED
    BY <2>1, <2>2, <2>3
<1>8. Agrees(tasks[s]) => Agrees(t)'
  BY <1>1, <1>5, AgreesStays
<1>9. Running(t)
  BY <1>5 DEF Running, UpdatePhase
<1> QED
  BY <1>1, <1>2, <1>4, <1>5, <1>7, <1>8, <1>9, UpdateGoes

\* The update ends.
LEMMA UpdateEnds ==
    ASSUME GeoipTyped, ZoneInv, NEW s \in GeoSlot, NoteCounts(s) \/ UpdateFails(s)
    PROVE  ZoneInv'
<1> DEFINE t == tasks[s]
<1>1. /\ Running(t) /\ tasks' = [tasks EXCEPT ![s] = NoTask] /\ updating' = FALSE
      /\ UNCHANGED <<sources, cache, zone>>
  BY DEF NoteCounts, UpdateFails, Running, UpdatePhase
<1>2. tasks'[s] = NoTask /\ \A r \in GeoSlot \ {s} : tasks'[r] = tasks[r]
  BY <1>1, OneTaskSlot DEF GeoipTyped
<1>3. \A r \in GeoSlot : ~Running(tasks'[r])
  BY <1>1, <1>2 DEF ZoneInv, OneUpdate, Running, NoTask, UpdatePhase
<1>4. OneUpdate' /\ UpdatesFollow'
  BY <1>1, <1>3 DEF OneUpdate, UpdatesFollow, Running
<1>5. ZoneFollows'
  <2>1. CASE UpdateFails(s)
    BY <2>1 DEF UpdateFails, ZoneFollows
  <2>2. CASE NoteCounts(s)
    <3> SUFFICES ASSUME ~missed', ~SomeWaiting', OneSourcePerCountry'
                 PROVE  zone' = Wanted' /\ CacheOf(On(sources))'
      BY DEF ZoneFollows
    <3>1. t.phase = "note" /\ missed' = (missed /\ ~t.clean)
      BY <2>2 DEF NoteCounts
    <3>2. SomeWaiting => SomeWaiting'
      BY <1>2, <3>1 DEF SomeWaiting, Waiting
    <3>3. OneSourcePerCountry
      BY <1>1 DEF OneSourcePerCountry, Listed
    <3>4. SetsFollow(t) /\ (t.clean => Agrees(t)) /\ (Agrees(t) \/ missed \/ SomeWaiting)
      BY <1>1 DEF ZoneInv, UpdatesFollow
    <3>5. Agrees(t)
      BY <3>1, <3>2, <3>4, Zenon
    <3>6. Fetched(t) = On(sources)
      BY <3>1, <3>4 DEF SetsFollow, Fetched
    <3>7. zone = Wanted /\ CacheOf(On(sources))
      BY <3>1, <3>3, <3>4, <3>5, <3>6 DEF SetsFollow, Agrees, Wanted
    <3> QED
      BY <1>1, <3>7 DEF Wanted, CacheOf, On, Listed
  <2> QED
    BY <2>1, <2>2
<1> QED
  BY <1>4, <1>5 DEF ZoneInv

LEMMA StartKeeps ==
    ASSUME GeoipTyped, ZoneInv, NEW s \in GeoSlot, StartUpdate(s)
    PROVE  ZoneInv'
<1>1. /\ ~updating /\ updating' = TRUE /\ tasks[s].phase = "start"
      /\ UNCHANGED <<sources, cache, zone, fresh, missed>>
  BY DEF StartUpdate, NoUpdate
<1>2. PICK t : t = [phase |-> "fetch", left |-> {<<i, sources[i]>> : i \in On(sources)}, got |-> {}, clean |-> TRUE]
  OBVIOUS
<1>3. tasks' = [tasks EXCEPT ![s] = t]
  BY <1>2 DEF StartUpdate
<1>4. t.phase = "fetch" /\ t.left = {<<i, sources[i]>> : i \in On(sources)} /\ t.got = {}
  BY <1>2
<1>5. tasks'[s] = t /\ \A r \in GeoSlot \ {s} : tasks'[r] = tasks[r]
  BY <1>3, OneTaskSlot DEF GeoipTyped
<1>6. \A r \in GeoSlot : Running(tasks'[r]) <=> r = s
  BY <1>1, <1>4, <1>5 DEF ZoneInv, OneUpdate, Running, UpdatePhase
<1>7. OneUpdate' /\ ZoneFollows'
  BY <1>1, <1>6 DEF OneUpdate, ZoneFollows, Running
<1>8. Agrees(t)
  <2>1. Fetched(t) = {}
    BY <1>4 DEF Fetched
  <2> QED
    BY <1>4, <2>1 DEF Agrees, CacheOf
<1>9. Agrees(t)' /\ SetsFollow(t)'
  BY <1>1, <1>4, <1>8, AgreesStays DEF SetsFollow
<1>10. UpdatesFollow'
  <2> SUFFICES ASSUME NEW r \in GeoSlot, Running(tasks'[r])
               PROVE  SetsFollow(tasks[r])' /\ Agrees(tasks[r])'
    BY DEF UpdatesFollow, Running
  <2>1. tasks'[r] = t
    BY <1>5, <1>6
  <2> QED
    BY <1>9, <2>1 DEF SetsFollow, Agrees, Fetched
<1> QED
  BY <1>7, <1>10 DEF ZoneInv

LEMMA SkipKeeps ==
    ASSUME GeoipTyped, ZoneInv, NEW s \in GeoSlot, SkipUpdate(s)
    PROVE  ZoneInv'
<1>1. /\ updating /\ tasks[s].phase = "start" /\ missed' = (missed \/ tasks[s].kind = "change")
      /\ tasks' = [tasks EXCEPT ![s] = NoTask] /\ UNCHANGED <<sources, cache, zone, fresh, updating>>
  BY DEF SkipUpdate, NoUpdate
<1>2. tasks'[s] = NoTask /\ \A r \in GeoSlot \ {s} : tasks'[r] = tasks[r]
  BY <1>1, OneTaskSlot DEF GeoipTyped
<1>3. ~Running(tasks[s]) /\ ~Running(NoTask)
  BY <1>1 DEF Running, UpdatePhase, NoTask
<1>4. \A r \in GeoSlot : Running(tasks'[r]) <=> Running(tasks[r])
  BY <1>2, <1>3 DEF Running
<1>5. OneUpdate' /\ ZoneFollows'
  BY <1>1, <1>4 DEF ZoneInv, OneUpdate, ZoneFollows, Running
<1>6. missed \/ SomeWaiting => missed' \/ SomeWaiting'
  <2>1. CASE missed
    BY <1>1, <2>1, Zenon
  <2>2. CASE SomeWaiting
    <3>1. PICK r \in GeoSlot : Waiting(tasks[r])
      BY <2>2 DEF SomeWaiting
    <3>2. CASE r = s
      BY <1>1, <3>1, <3>2, Zenon DEF Waiting
    <3>3. CASE r # s
      BY <1>2, <3>1, <3>3 DEF SomeWaiting, Waiting
    <3> QED
      BY <3>2, <3>3
  <2> QED
    BY <2>1, <2>2
<1>7. UpdatesFollow'
  <2> SUFFICES ASSUME NEW r \in GeoSlot, Running(tasks'[r])
               PROVE  /\ SetsFollow(tasks[r])'
                      /\ tasks'[r].clean => Agrees(tasks[r])'
                      /\ Agrees(tasks[r])' \/ missed' \/ SomeWaiting'
    BY DEF UpdatesFollow, Running
  <2>1. Running(tasks[r]) /\ tasks'[r] = tasks[r]
    BY <1>2, <1>3, <1>4
  <2>2. SetsFollow(tasks[r]) /\ (tasks[r].clean => Agrees(tasks[r]))
        /\ (Agrees(tasks[r]) \/ missed \/ SomeWaiting)
    BY <2>1 DEF ZoneInv, UpdatesFollow
  <2>3. Agrees(tasks[r]) => Agrees(tasks[r])'
    BY <1>1, <2>1 DEF Agrees, Fetched, CacheOf, OneSourcePerCountry, On, Listed
  <2>4. SetsFollow(tasks[r])'
    BY <1>1, <2>1, <2>2 DEF SetsFollow
  <2> QED
    BY <1>6, <2>1, <2>2, <2>3, <2>4
<1> QED
  BY <1>5, <1>7 DEF ZoneInv

\* A change with the old values leaves the rows alone.
LEMMA StoredRows ==
    ASSUME GeoipTyped, NEW s \in GeoSlot, tasks[s].phase = "commit", Storable(tasks[s])
    PROVE  /\ Stored(tasks[s]) \in [SourceId -> GeoSource \cup {NoSource}]
           /\ tasks[s].row = tasks[s].seen => Stored(tasks[s]) = sources
<1> DEFINE t == tasks[s]
<1>1. t \in CommitTask /\ sources \in [SourceId -> GeoSource \cup {NoSource}]
  BY PhaseOfTask DEF GeoipTyped, TasksTyped, GeoipTypeOK
<1>2. CASE t \in CreateTask
  <2>1. PICK id : Stored(t) = [sources EXCEPT ![id] = t.row]
    BY <1>2 DEF Stored, CreateTask
  <2>2. t.row \in GeoSource /\ t.seen = NoSource
    BY <1>2 DEF CreateTask
  <2> QED
    BY <1>1, <2>1, <2>2, NoRow
<1>3. CASE t \in RemoveTask
  <2>1. Stored(t) = [sources EXCEPT ![t.id] = NoSource]
    BY <1>3 DEF Stored, RemoveTask
  <2>2. t.row = NoSource /\ t.seen \in GeoSource
    BY <1>3 DEF RemoveTask
  <2> QED
    BY <1>1, <2>1, <2>2, NoRow
<1>4. CASE t \in ChangeTask
  <2> DEFINE old == sources[t.id]
             new == [f \in DOMAIN old |-> IF t.row[f] = t.seen[f] THEN old[f] ELSE t.row[f]]
  <2>1. t.id \in SourceId /\ t.row \in GeoSource /\ t.seen \in GeoSource /\ t.kind = "update"
    BY <1>4 DEF ChangeTask
  <2>2. old \in GeoSource
    BY <1>1, <2>1 DEF Storable
  <2>3. Stored(t) = [sources EXCEPT ![t.id] = new]
    BY <1>1, <2>1 DEF Stored
  <2>4. DOMAIN old = {"code", "url", "on"}
    BY <2>2 DEF GeoSource
  <2>5. new \in GeoSource
    <3>1. DOMAIN new = {"code", "url", "on"} /\ new = [f \in {"code", "url", "on"} |-> new[f]]
      BY <2>4
    <3>2. new["code"] \in Country /\ new["url"] \in Url /\ new["on"] \in BOOLEAN
      <4>1. /\ new["code"] = (IF t.row["code"] = t.seen["code"] THEN old["code"] ELSE t.row["code"])
            /\ new["url"] = (IF t.row["url"] = t.seen["url"] THEN old["url"] ELSE t.row["url"])
            /\ new["on"] = (IF t.row["on"] = t.seen["on"] THEN old["on"] ELSE t.row["on"])
        BY <2>4
      <4>2. \A r \in GeoSource : r["code"] \in Country /\ r["url"] \in Url /\ r["on"] \in BOOLEAN
        BY DEF GeoSource
      <4> HIDE DEF old, new
      <4> QED
        BY <2>1, <2>2, <4>1, <4>2, Zenon
    <3> HIDE DEF new
    <3>3. new = [code |-> new["code"], url |-> new["url"], on |-> new["on"]]
      BY <3>1
    <3> QED
      BY <3>2, <3>3 DEF GeoSource
  <2>6. t.row = t.seen => new = old
    <3>1. old = [f \in DOMAIN old |-> old[f]]
      BY <2>2 DEF GeoSource
    <3> QED
      BY <3>1
  <2> HIDE DEF new
  <2> QED
    BY <1>1, <2>1, <2>3, <2>5, <2>6
<1> QED
  BY <1>1, <1>2, <1>3, <1>4 DEF CommitTask

\* What the commit of a change does to the tasks
LEMMA CommitTasks ==
    ASSUME GeoipTyped, NEW s \in GeoSlot, CommitSource(s)
    PROVE  /\ tasks' = [r \in GeoSlot |-> tasks'[r]]
           /\ IF tasks[s].row = tasks[s].seen THEN tasks'[s] = NoTask
              ELSE tasks'[s] = [phase |-> "start", kind |-> "change"]
           /\ \A r \in GeoSlot \ {s} : ~Running(tasks[r]) => tasks'[r] = tasks[r]
           /\ \A r \in GeoSlot \ {s} : Running(tasks[r]) =>
                 /\ tasks'[r] \in UpdateTask /\ ~tasks'[r].clean
                 /\ tasks'[r].phase = tasks[r].phase
                 /\ tasks'[r].left = tasks[r].left /\ tasks'[r].got = tasks[r].got
<1>1. tasks' = [r \in GeoSlot |->
            IF r = s THEN IF tasks[s].row = tasks[s].seen THEN NoTask ELSE [phase |-> "start", kind |-> "change"]
            ELSE IF tasks[r].phase \in {"fetch", "fill", "swap", "note"} THEN [tasks[r] EXCEPT !.clean = FALSE]
            ELSE tasks[r]]
  BY DEF CommitSource
<1>2. tasks' = [r \in GeoSlot |-> tasks'[r]]
  BY <1>1
<1>3. ASSUME NEW r \in GeoSlot \ {s}, Running(tasks[r])
      PROVE  /\ tasks'[r] \in UpdateTask /\ ~tasks'[r].clean
             /\ tasks'[r].phase = tasks[r].phase
             /\ tasks'[r].left = tasks[r].left /\ tasks'[r].got = tasks[r].got
  <2>1. tasks'[r] = [tasks[r] EXCEPT !.clean = FALSE]
    BY <1>1, <1>3 DEF Running, UpdatePhase
  <2>2. tasks[r] \in UpdateTask
    BY <1>3, PhaseOfTask DEF Running, GeoipTyped, TasksTyped
  <2> QED
    BY <2>1, <2>2 DEF UpdateTask
<1>4. ASSUME NEW r \in GeoSlot \ {s}, ~Running(tasks[r])
      PROVE  tasks'[r] = tasks[r]
  BY <1>1, <1>4 DEF Running, UpdatePhase
<1>5. IF tasks[s].row = tasks[s].seen THEN tasks'[s] = NoTask
      ELSE tasks'[s] = [phase |-> "start", kind |-> "change"]
  BY <1>1
<1> QED
  BY <1>2, <1>3, <1>4, <1>5

LEMMA SourceKeeps ==
    ASSUME GeoipTyped, ZoneInv, NEW s \in GeoSlot, CommitSource(s)
    PROVE  ZoneInv'
<1>1. /\ tasks[s].phase = "commit" /\ Storable(tasks[s]) /\ sources' = Stored(tasks[s])
      /\ UNCHANGED <<cache, zone, fresh, updating, missed>>
  BY DEF CommitSource
<1>2. ~Running(tasks[s]) /\ ~Waiting(tasks[s])
  BY <1>1 DEF Running, Waiting, UpdatePhase
<1>3. ~Running(tasks'[s])
  BY CommitTasks DEF Running, UpdatePhase, NoTask
<1>4. \A r \in GeoSlot : Running(tasks'[r]) <=> Running(tasks[r])
  BY <1>2, <1>3, CommitTasks DEF Running
<1>5. \A r \in GeoSlot : Running(tasks[r]) => r # s
  BY <1>2
<1>6. OneUpdate'
  BY <1>1, <1>4 DEF ZoneInv, OneUpdate, Running
<1>7. SomeWaiting => SomeWaiting'
  <2> SUFFICES ASSUME NEW r \in GeoSlot, Waiting(tasks[r]) PROVE Waiting(tasks'[r])
    BY DEF SomeWaiting, Waiting
  <2>1. r # s /\ ~Running(tasks[r])
    BY <1>2 DEF Running, Waiting, UpdatePhase
  <2>2. tasks'[r] = tasks[r]
    BY <2>1, CommitTasks
  <2> QED
    BY <2>2
<1>8. ASSUME NEW r \in GeoSlot, Running(tasks'[r])
      PROVE  SetsFollow(tasks[r])' /\ ~tasks'[r].clean
  <2>1. Running(tasks[r]) /\ r # s
    BY <1>4, <1>5, <1>8
  <2>2. SetsFollow(tasks[r])
    BY <2>1 DEF ZoneInv, UpdatesFollow
  <2>3. /\ ~tasks'[r].clean /\ tasks'[r].phase = tasks[r].phase
        /\ tasks'[r].left = tasks[r].left /\ tasks'[r].got = tasks[r].got
    BY <2>1, CommitTasks
  <2> QED
    BY <1>1, <2>2, <2>3 DEF SetsFollow
<1>9. CASE tasks[s].row = tasks[s].seen
  <2>1. sources' = sources
    BY <1>1, <1>9, StoredRows
  <2>2. ASSUME NEW r \in GeoSlot, Running(tasks'[r]), Agrees(tasks[r])
        PROVE  Agrees(tasks[r])'
    <3>1. tasks'[r].left = tasks[r].left /\ tasks'[r].got = tasks[r].got
      BY <1>4, <1>5, <2>2, CommitTasks
    <3> QED
      BY <1>1, <2>1, <2>2, <3>1 DEF Agrees, Fetched, CacheOf, OneSourcePerCountry, On, Listed
  <2>3. UpdatesFollow'
    <3> SUFFICES ASSUME NEW r \in GeoSlot, Running(tasks'[r])
                 PROVE  /\ SetsFollow(tasks[r])' /\ ~tasks'[r].clean
                        /\ Agrees(tasks[r])' \/ missed' \/ SomeWaiting'
      BY DEF UpdatesFollow, Running
    <3>1. Agrees(tasks[r]) \/ missed \/ SomeWaiting
      BY <1>4 DEF ZoneInv, UpdatesFollow
    <3> QED
      BY <1>1, <1>7, <1>8, <2>2, <3>1
  <2>4. ZoneFollows'
    BY <1>1, <1>7, <2>1 DEF ZoneInv, ZoneFollows, Wanted, CacheOf, OneSourcePerCountry, On, Listed
  <2> QED
    BY <1>6, <2>3, <2>4 DEF ZoneInv
<1>10. CASE tasks[s].row # tasks[s].seen
  <2>1. SomeWaiting'
    <3>1. tasks'[s].phase = "start" /\ tasks'[s].kind = "change"
      BY <1>10, CommitTasks
    <3> QED
      BY <3>1 DEF SomeWaiting, Waiting
  <2>2. UpdatesFollow'
    BY <1>8, <2>1 DEF UpdatesFollow, Running
  <2>3. ZoneFollows'
    BY <2>1 DEF ZoneFollows
  <2> QED
    BY <1>6, <2>2, <2>3 DEF ZoneInv
<1> QED
  BY <1>9, <1>10

\* After a start of the backend nothing is in flight, and the set comes from the cache.
LEMMA RestartFollows ==
    ASSUME GeoipTyped, ZoneInv, GeoipRestart
    PROVE  ZoneInv'
<1>1. /\ tasks' = [s \in GeoSlot |-> NoTask] /\ updating' = FALSE
      /\ ZoneRestored \/ missed' = TRUE
      /\ UNCHANGED <<sources, cache>>
  BY DEF GeoipRestart, ZoneNotRestored
<1>2. \A s \in GeoSlot : ~Running(tasks'[s])
  BY <1>1 DEF Running, NoTask, UpdatePhase
<1>3. OneUpdate' /\ UpdatesFollow'
  BY <1>1, <1>2 DEF OneUpdate, UpdatesFollow, Running
<1>4. ZoneFollows'
  <2> SUFFICES ASSUME ~missed', OneSourcePerCountry'
               PROVE  zone' = Wanted' /\ CacheOf(On(sources))'
    BY DEF ZoneFollows
  <2>0. ZoneRestored
    BY <1>1
  <2>1. ~missed /\ \A s \in GeoSlot : tasks[s].phase \notin {"start", "fetch", "fill", "swap", "note"}
    BY <2>0, Zenon DEF ZoneRestored
  <2>2. ~SomeWaiting /\ ~updating
    BY <2>1 DEF SomeWaiting, Waiting, ZoneInv, OneUpdate, Running, UpdatePhase
  <2>3. OneSourcePerCountry
    BY <1>1 DEF OneSourcePerCountry, Listed
  <2>4. CacheOf(On(sources))
    BY <2>1, <2>2, <2>3 DEF ZoneInv, ZoneFollows
  <2>5. \A i \in On(sources) : sources[i].url # "none"
    BY GeoipAssumption DEF On, Listed, GeoipTyped, GeoipTypeOK, GeoSource
  <2>6. Restored = Wanted
    BY <2>4, <2>5 DEF Restored, Wanted, CacheOf
  <2> QED
    BY <1>1, <2>0, <2>4, <2>6 DEF ZoneRestored, Wanted, CacheOf, On, Listed
<1> QED
  BY <1>3, <1>4 DEF ZoneInv

---------------------------------------------------------------------------
(* Types *)

SourceTyped == sources \in [SourceId -> GeoSource \cup {NoSource}]
SetsTyped ==
    /\ cache \in [Country -> Url \cup {"none"}]
    /\ zone \subseteq Url /\ (fresh = Absent \/ fresh \subseteq Url)
    /\ updating \in BOOLEAN /\ missed \in BOOLEAN
ExclusionRowsTyped ==
    /\ exclusions \in ExclusionRows /\ changed \in ExclusionRows
    /\ holder \in GeoSlot \cup {"none"} /\ geoNode \in {"none", "up", "deploying"}
MarksTyped ==
    /\ marked \in BOOLEAN /\ tunnelled \in BOOLEAN /\ late \in BOOLEAN
    /\ excluded \subseteq Excluded

LEMMA TypeParts == GeoipTypeOK <=> SourceTyped /\ SetsTyped /\ ExclusionRowsTyped /\ MarksTyped
BY DEF GeoipTypeOK, SourceTyped, SetsTyped, ExclusionRowsTyped, MarksTyped, ExclusionRows

LEMMA PrefixesTyped == \A table : Prefixes(table) \subseteq Excluded
BY DEF Prefixes

LEMMA IdleTyped == TaskTyped(NoTask)
BY DEF TaskTyped

\* Requests are typed when they begin, and take a free slot.
LEMMA RequestStep ==
    ASSUME GeoipTyped, ExclusionInv, ZoneInv, NEW s \in GeoSlot,
           \/ CreateSource(s) \/ UpdateSource(s) \/ DeleteSource(s) \/ TriggerUpdate(s)
           \/ ChangeExclusion(s) \/ ApplyRouting(s)
    PROVE  GeoipTyped' /\ ExclusionInv' /\ ZoneInv'
<1>1. ASSUME NEW t, TaskTyped(t), Begin(s, t), t.phase \in {"commit", "start", "read", "flush"},
             t.phase = "start" => t.kind = "trigger"
      PROVE  GeoipTyped' /\ ExclusionInv' /\ ZoneInv'
  <2>1. tasks[s] = NoTask /\ tasks' = [tasks EXCEPT ![s] = t] /\ UNCHANGED <<zoneVars, exclusionVars>>
    BY <1>1 DEF Begin
  <2>2. /\ tasks'[s] = t /\ \A r \in GeoSlot \ {s} : tasks'[r] = tasks[r]
        /\ TasksTyped'
    BY <1>1, <2>1, OneTaskSlot DEF GeoipTyped
  <2>3. GeoipTypeOK'
    BY <2>1 DEF GeoipTyped, GeoipTypeOK, zoneVars, exclusionVars
  <2>4. tasks[s].phase = "idle"
    BY <2>1 DEF NoTask
  <2>5. ExclusionInv'
    BY <1>1, <2>1, <2>2, <2>4, ExclusionsStay DEF exclusionVars
  <2>6. ~Running(tasks[s]) /\ ~Waiting(tasks[s]) /\ ~Running(t) /\ ~Waiting(t)
    BY <1>1, <2>4 DEF Running, Waiting, UpdatePhase
  <2>7. ZoneInv'
    BY <2>1, <2>2, <2>6, ZoneStays
  <2> QED
    BY <2>2, <2>3, <2>5, <2>7 DEF GeoipTyped
<1>2. SourceTyped /\ ExclusionRowsTyped
  BY TypeParts DEF GeoipTyped
<1>3. CASE CreateSource(s)
  <2>1. PICK c \in Country, u \in Url :
            Begin(s, SourceTask("create", 0, NoSource, [code |-> c, url |-> u, on |-> TRUE]))
    BY <1>3 DEF CreateSource
  <2> DEFINE row == [code |-> c, url |-> u, on |-> TRUE]
             t == SourceTask("create", 0, NoSource, row)
  <2>2. row \in GeoSource
    BY DEF GeoSource
  <2> HIDE DEF row
  <2>3. t \in CreateTask /\ t.phase = "commit"
    BY <2>2 DEF SourceTask, CreateTask
  <2>4. TaskTyped(t)
    BY <2>3 DEF TaskTyped, CommitTask
  <2>5. Begin(s, t)
    BY <2>1 DEF row
  <2> HIDE DEF t
  <2> QED
    BY <1>1, <2>3, <2>4, <2>5
<1>4. CASE UpdateSource(s)
  <2>1. PICK i \in Listed(sources), u \in Url, on \in BOOLEAN :
            Begin(s, SourceTask("update", i, sources[i], [sources[i] EXCEPT !.url = u, !.on = on]))
    BY <1>4 DEF UpdateSource
  <2> DEFINE row == [sources[i] EXCEPT !.url = u, !.on = on]
             t == SourceTask("update", i, sources[i], row)
  <2>2. i \in SourceId /\ sources[i] \in GeoSource
    BY <1>2 DEF Listed, SourceTyped
  <2>3. row \in GeoSource
    BY <2>2 DEF GeoSource
  <2> HIDE DEF row
  <2>4. t \in ChangeTask /\ t.phase = "commit"
    BY <2>2, <2>3 DEF SourceTask, ChangeTask
  <2>5. TaskTyped(t)
    BY <2>4 DEF TaskTyped, CommitTask
  <2>6. Begin(s, t)
    BY <2>1 DEF row
  <2> HIDE DEF t
  <2> QED
    BY <1>1, <2>4, <2>5, <2>6
<1>5. CASE DeleteSource(s)
  <2>1. PICK i \in Listed(sources) : Begin(s, SourceTask("delete", i, sources[i], NoSource))
    BY <1>5 DEF DeleteSource
  <2> DEFINE t == SourceTask("delete", i, sources[i], NoSource)
  <2>2. i \in SourceId /\ sources[i] \in GeoSource
    BY <1>2 DEF Listed, SourceTyped
  <2>3. t \in RemoveTask /\ t.phase = "commit"
    BY <2>2 DEF SourceTask, RemoveTask
  <2>4. TaskTyped(t)
    BY <2>3 DEF TaskTyped, CommitTask
  <2> HIDE DEF t
  <2>5. Begin(s, t)
    BY <2>1 DEF t
  <2> QED
    BY <1>1, <2>3, <2>4, <2>5
<1>6. CASE TriggerUpdate(s)
  <2> DEFINE t == [phase |-> "start", kind |-> "trigger"]
  <2>1. t \in StartTask /\ t.phase = "start" /\ t.kind = "trigger" /\ Begin(s, t)
    BY <1>6 DEF TriggerUpdate, StartTask
  <2> HIDE DEF t
  <2> QED
    BY <1>1, <2>1 DEF TaskTyped
<1>7. CASE ApplyRouting(s)
  <2> DEFINE t == [phase |-> "read", whole |-> TRUE]
  <2>1. t \in ReadTask /\ t.phase = "read" /\ Begin(s, t)
    BY <1>7 DEF ApplyRouting, ReadTask
  <2> HIDE DEF t
  <2> QED
    BY <1>1, <2>1 DEF TaskTyped
<1>8. CASE ChangeExclusion(s)
  <2> DEFINE table(a, b, value) == [exclusions EXCEPT ![a] = IF a = b THEN value ELSE "none", ![b] = value]
             flush(a, b, value) == [phase |-> "flush", seen |-> exclusions, rows |-> table(a, b, value)]
             read == [phase |-> "read", whole |-> FALSE]
  <2>1. PICK a \in Excluded, b \in Excluded, value \in Exclusion :
            Begin(s, read) \/ Begin(s, flush(a, b, value))
    BY <1>8 DEF ChangeExclusion
  <2>2. CASE Begin(s, read)
    <3>1. read \in ReadTask /\ read.phase = "read"
      BY DEF ReadTask
    <3> HIDE DEF read
    <3> QED
      BY <1>1, <2>2, <3>1 DEF TaskTyped
  <2>3. CASE Begin(s, flush(a, b, value))
    <3>1. table(a, b, value) \in ExclusionRows /\ exclusions \in ExclusionRows
      BY <1>2 DEF ExclusionRowsTyped, ExclusionRows, Exclusion
    <3> HIDE DEF table
    <3>2. flush(a, b, value) \in FlushTask /\ flush(a, b, value).phase = "flush"
      BY <3>1 DEF FlushTask
    <3> HIDE DEF flush
    <3> QED
      BY <1>1, <2>3, <3>2 DEF TaskTyped
  <2> QED
    BY <2>1, <2>2, <2>3
<1> QED
  BY <1>3, <1>4, <1>5, <1>6, <1>7, <1>8

LEMMA SourceStep ==
    ASSUME GeoipTyped, ExclusionInv, ZoneInv, NEW s \in GeoSlot, CommitSource(s) \/ RefuseSource(s)
    PROVE  GeoipTyped' /\ ExclusionInv' /\ ZoneInv'
<1>1. tasks[s].phase = "commit"
  BY DEF CommitSource, RefuseSource
<1>2. CASE CommitSource(s)
  <2>1. /\ Storable(tasks[s]) /\ sources' = Stored(tasks[s])
        /\ UNCHANGED <<cache, zone, fresh, updating, missed, exclusionVars>>
    BY <1>2 DEF CommitSource
  <2>2. [phase |-> "start", kind |-> "change"] \in StartTask
    BY DEF StartTask
  <2>3. TaskTyped(tasks'[s])
    BY <1>2, <2>2, CommitTasks, IdleTyped DEF TaskTyped
  <2>4. \A r \in GeoSlot \ {s} : TaskTyped(tasks'[r])
    <3> SUFFICES ASSUME NEW r \in GeoSlot \ {s} PROVE TaskTyped(tasks'[r])
      OBVIOUS
    <3>1. CASE Running(tasks[r])
      BY <1>2, <3>1, CommitTasks DEF TaskTyped
    <3>2. CASE ~Running(tasks[r])
      <4>1. tasks'[r] = tasks[r]
        BY <1>2, <3>2, CommitTasks
      <4> QED
        BY <4>1 DEF GeoipTyped, TasksTyped
    <3> QED
      BY <3>1, <3>2
  <2>5. TasksTyped'
    BY <1>2, <2>3, <2>4, CommitTasks DEF TasksTyped
  <2>6. GeoipTypeOK'
    <3>1. SourceTyped'
      BY <1>1, <2>1, StoredRows DEF SourceTyped
    <3> QED
      BY <2>1, <3>1 DEF GeoipTyped, GeoipTypeOK, SourceTyped, exclusionVars
  <2>7. \A r \in GeoSlot : \/ tasks'[r] = tasks[r]
                           \/ /\ tasks[r].phase \notin {"sync", "settle", "install"}
                              /\ tasks'[r].phase \notin {"sync", "settle", "install"}
    <3> SUFFICES ASSUME NEW r \in GeoSlot, tasks'[r] # tasks[r]
                 PROVE  /\ tasks[r].phase \notin {"sync", "settle", "install"}
                        /\ tasks'[r].phase \notin {"sync", "settle", "install"}
      OBVIOUS
    <3>1. CASE r = s
      BY <1>1, <1>2, <3>1, CommitTasks DEF NoTask
    <3>2. CASE r # s
      BY <1>2, <3>2, CommitTasks DEF Running, UpdatePhase
    <3> QED
      BY <3>1, <3>2
  <2>8. ExclusionInv'
    BY <2>1, <2>7, ExclusionsStay DEF exclusionVars
  <2> QED
    BY <1>2, <2>5, <2>6, <2>8, SourceKeeps DEF GeoipTyped
<1>3. CASE RefuseSource(s)
  <2>1. tasks' = [tasks EXCEPT ![s] = NoTask] /\ UNCHANGED <<zoneVars, exclusionVars>>
    BY <1>3 DEF RefuseSource
  <2>2. /\ tasks'[s] = NoTask /\ \A r \in GeoSlot \ {s} : tasks'[r] = tasks[r]
        /\ TasksTyped'
    BY <2>1, OneTaskSlot, IdleTyped DEF GeoipTyped
  <2>3. GeoipTypeOK'
    BY <2>1 DEF GeoipTyped, GeoipTypeOK, zoneVars, exclusionVars
  <2>4. ExclusionInv'
    BY <1>1, <2>1, <2>2, ExclusionsStay DEF exclusionVars, NoTask
  <2>5. ~Running(tasks[s]) /\ ~Waiting(tasks[s]) /\ ~Running(NoTask) /\ ~Waiting(NoTask)
    BY <1>1 DEF Running, Waiting, UpdatePhase, NoTask
  <2>6. ZoneInv'
    BY <2>1, <2>2, <2>5, ZoneStays
  <2> QED
    BY <2>2, <2>3, <2>4, <2>6 DEF GeoipTyped
<1> QED
  BY <1>2, <1>3

LEMMA UpdateStep ==
    ASSUME GeoipTyped, ExclusionInv, ZoneInv, NEW s \in GeoSlot,
           \/ StartUpdate(s) \/ SkipUpdate(s) \/ FetchList(s)
           \/ MakeSet(s) \/ FillSet(s) \/ SwapSet(s) \/ NoteCounts(s) \/ UpdateFails(s)
    PROVE  GeoipTyped' /\ ExclusionInv' /\ ZoneInv'
<1>1. tasks[s].phase \in UpdatePhase \cup {"start"} /\ UNCHANGED <<sources, exclusionVars>>
  BY DEF StartUpdate, SkipUpdate, FetchList, MakeSet, FillSet, SwapSet, NoteCounts, UpdateFails, UpdatePhase
<1>2. SourceTyped /\ SetsTyped
  BY TypeParts DEF GeoipTyped
<1>3. tasks[s].phase # "start" => tasks[s] \in UpdateTask
  BY <1>1, PhaseOfTask DEF GeoipTyped, TasksTyped
<1>4. PICK t : /\ tasks' = [tasks EXCEPT ![s] = t] /\ TaskTyped(t)
               /\ t.phase \in UpdatePhase \cup {"idle"}
  <2>1. TaskTyped(NoTask) /\ NoTask.phase = "idle"
    BY IdleTyped DEF NoTask
  <2>2. CASE SkipUpdate(s) \/ NoteCounts(s) \/ UpdateFails(s)
    <3>1. tasks' = [tasks EXCEPT ![s] = NoTask]
      BY <2>2 DEF SkipUpdate, NoteCounts, UpdateFails
    <3> QED
      BY <2>1, <3>1
  <2>3. CASE StartUpdate(s)
    <3> DEFINE left == {<<i, sources[i]>> : i \in On(sources)}
               t == [phase |-> "fetch", left |-> left, got |-> {}, clean |-> TRUE]
    <3>1. left \in SUBSET (SourceId \X GeoSource)
      BY <1>2 DEF On, Listed, SourceTyped
    <3>2. tasks' = [tasks EXCEPT ![s] = t]
      BY <2>3 DEF StartUpdate
    <3> HIDE DEF left
    <3>3. t \in UpdateTask /\ t.phase = "fetch"
      BY <3>1 DEF UpdateTask, UpdatePhase
    <3> HIDE DEF t
    <3> QED
      BY <3>2, <3>3 DEF TaskTyped, UpdatePhase
  <2>4. CASE FetchList(s)
    <3>1. PICK p \in tasks[s].left :
              tasks' = [tasks EXCEPT ![s].left = @ \ {p}, ![s].got = @ \cup {p[2].url}]
      BY <2>4 DEF FetchList
    <3> DEFINE t == [tasks[s] EXCEPT !.left = @ \ {p}, !.got = @ \cup {p[2].url}]
    <3>2. tasks[s] \in UpdateTask
      BY <1>3, <2>4 DEF FetchList
    <3>3. p[2].url \in Url
      BY <3>2 DEF UpdateTask, GeoSource
    <3>4. tasks' = [tasks EXCEPT ![s] = t]
      BY <3>1, <3>2 DEF GeoipTyped, TasksTyped, UpdateTask
    <3>5. t \in UpdateTask
      BY <3>2, <3>3 DEF UpdateTask
    <3>6. t.phase \in UpdatePhase
      BY <3>5 DEF UpdateTask
    <3> HIDE DEF t
    <3> QED
      BY <3>4, <3>5, <3>6 DEF TaskTyped
  <2>5. CASE MakeSet(s) \/ FillSet(s) \/ SwapSet(s)
    <3>1. PICK next \in UpdatePhase : tasks' = [tasks EXCEPT ![s].phase = next]
      BY <2>5 DEF MakeSet, FillSet, SwapSet, UpdatePhase
    <3> DEFINE t == [tasks[s] EXCEPT !.phase = next]
    <3>2. tasks[s] \in UpdateTask
      BY <1>3, <2>5 DEF MakeSet, FillSet, SwapSet
    <3>3. tasks' = [tasks EXCEPT ![s] = t]
      BY <3>1, <3>2 DEF GeoipTyped, TasksTyped
    <3>4. t \in UpdateTask /\ t.phase = next
      BY <3>2 DEF UpdateTask
    <3> HIDE DEF t
    <3> QED
      BY <3>3, <3>4 DEF TaskTyped
  <2> QED
    BY <2>2, <2>3, <2>4, <2>5
<1>5. TasksTyped' /\ tasks'[s] = t /\ \A r \in GeoSlot \ {s} : tasks'[r] = tasks[r]
  BY <1>4, OneTaskSlot DEF GeoipTyped
<1>6. SetsTyped'
  <2>1. cache' \in [Country -> Url \cup {"none"}]
    <3>1. CASE FetchList(s)
      <4>1. PICK p \in tasks[s].left : cache' = [cache EXCEPT ![p[2].code] = p[2].url]
        BY <3>1 DEF FetchList
      <4>2. p[2] \in GeoSource
        BY <1>3, <3>1 DEF FetchList, UpdateTask
      <4>3. p[2].url \in Url
        BY <4>2 DEF GeoSource
      <4> QED
        BY <1>2, <4>1, <4>3 DEF SetsTyped
    <3>2. CASE ~FetchList(s)
      BY <1>2, <3>2 DEF SetsTyped, StartUpdate, SkipUpdate, MakeSet, FillSet, SwapSet, NoteCounts, UpdateFails
    <3> QED
      BY <3>1, <3>2
  <2>2. zone' \subseteq Url /\ (fresh' = Absent \/ fresh' \subseteq Url)
    <3>1. CASE FillSet(s)
      <4>1. tasks[s].got \subseteq Url
        BY <1>3, <3>1 DEF FillSet, UpdateTask
      <4> QED
        BY <1>2, <3>1, <4>1 DEF SetsTyped, FillSet
    <3>2. CASE MakeSet(s) \/ SwapSet(s)
      BY <1>2, <3>2 DEF SetsTyped, MakeSet, SwapSet
    <3>3. CASE UpdateFails(s)
      BY <1>2, <3>3 DEF SetsTyped, UpdateFails
    <3>4. CASE StartUpdate(s) \/ SkipUpdate(s) \/ FetchList(s) \/ NoteCounts(s)
      BY <1>2, <3>4 DEF SetsTyped, StartUpdate, SkipUpdate, FetchList, NoteCounts
    <3> QED
      BY <3>1, <3>2, <3>3, <3>4
  <2>3. updating' \in BOOLEAN /\ missed' \in BOOLEAN
    BY <1>2, ZenonT(30) DEF SetsTyped, StartUpdate, SkipUpdate, FetchList, MakeSet, FillSet, SwapSet,
       NoteCounts, UpdateFails
  <2> QED
    BY <2>1, <2>2, <2>3 DEF SetsTyped
<1>7. GeoipTypeOK'
  <2>1. SourceTyped' /\ ExclusionRowsTyped' /\ MarksTyped'
    BY <1>1, TypeParts DEF GeoipTyped, SourceTyped, ExclusionRowsTyped, MarksTyped, exclusionVars
  <2>2. SourceTyped' /\ SetsTyped' /\ ExclusionRowsTyped' /\ MarksTyped' => GeoipTypeOK'
    BY DEF GeoipTypeOK, SourceTyped, SetsTyped, ExclusionRowsTyped, MarksTyped, ExclusionRows
  <2> QED
    BY <1>6, <2>1, <2>2
<1>8. ExclusionInv'
  <2>1. /\ tasks[s].phase \notin {"sync", "settle", "install"}
        /\ tasks'[s].phase \notin {"sync", "settle", "install"}
    BY <1>1, <1>4, <1>5 DEF UpdatePhase
  <2> QED
    BY <1>1, <1>5, <2>1, ExclusionsStay DEF exclusionVars
<1>9. ZoneInv'
  BY StartKeeps, SkipKeeps, FetchKeeps, SwapKeeps, UpdateEnds
<1> QED
  BY <1>5, <1>7, <1>8, <1>9 DEF GeoipTyped

\* Steps of the exclusions and of the node change no part of the zone.
LEMMA TypesOfMarks ==
    ASSUME GeoipTyped, UNCHANGED zoneVars, ExclusionRowsTyped', MarksTyped'
    PROVE  GeoipTypeOK'
<1>1. SourceTyped' /\ SetsTyped'
  BY TypeParts DEF GeoipTyped, SourceTyped, SetsTyped, zoneVars
<1> QED
  BY <1>1 DEF GeoipTypeOK, SourceTyped, SetsTyped, ExclusionRowsTyped, MarksTyped, ExclusionRows

\* What routing leaves in the kernel, complete or not
NetTyped(n) == n \in [set : SUBSET Excluded, marks : BOOLEAN, table : BOOLEAN]

LEMMA NetNow == MarksTyped => NetTyped(Net)
BY DEF MarksTyped, NetTyped, Net

LEMMA RoutedTyped ==
    ASSUME NEW n, NetTyped(n), NEW usable \in BOOLEAN, NEW list \in SUBSET Excluded
    PROVE  /\ NetTyped(Routed(n, usable, list))
           /\ \A left \in RoutingFailures(n, usable, list) : NetTyped(left)
<1>1. Routed(n, usable, list) \in [set : SUBSET Excluded, marks : BOOLEAN, table : BOOLEAN]
  BY DEF NetTyped, Routed
<1>2. [n EXCEPT !.table = usable] \in [set : SUBSET Excluded, marks : BOOLEAN, table : BOOLEAN]
  BY DEF NetTyped
<1>3. \A b \in BOOLEAN : [Routed(n, usable, list) EXCEPT !.marks = b] \in [set : SUBSET Excluded, marks : BOOLEAN, table : BOOLEAN]
  BY <1>1
<1>4. n.marks \in BOOLEAN
  BY DEF NetTyped
<1> QED
  BY <1>1, <1>2, <1>3, <1>4 DEF NetTyped, RoutingFailures

LEMMA LeavesTyped ==
    ASSUME NEW n, NetTyped(n), Leaves(n), late' \in BOOLEAN
    PROVE  MarksTyped'
BY DEF NetTyped, Leaves, MarksTyped

LEMMA FailsTyped ==
    ASSUME NEW n, NetTyped(n), NEW usable \in BOOLEAN, NEW list \in SUBSET Excluded,
           RoutingFails(n, usable, list)
    PROVE  MarksTyped'
BY RoutedTyped, LeavesTyped DEF RoutingFails

LEMMA ExclusionStep ==
    ASSUME GeoipTyped, ExclusionInv, ZoneInv, NEW s \in GeoSlot,
           \/ FlushExclusion(s) \/ RefuseExclusion(s) \/ SyncExclusion(s) \/ SyncExclusionFails(s)
           \/ CommitExclusion(s) \/ ReadExclusions(s) \/ InstallExclusions(s) \/ InstallFails(s)
    PROVE  GeoipTyped' /\ ExclusionInv' /\ ZoneInv'
<1>1. tasks[s].phase \in {"flush", "sync", "settle", "read", "install"} /\ UNCHANGED zoneVars
  BY DEF FlushExclusion, RefuseExclusion, SyncExclusion, SyncExclusionFails, CommitExclusion,
     ReadExclusions, InstallExclusions, InstallFails
<1>2. ExclusionRowsTyped /\ MarksTyped
  BY TypeParts DEF GeoipTyped
<1>3. PICK t : /\ tasks' = [tasks EXCEPT ![s] = t] \/ tasks' = [Overtaken EXCEPT ![s] = t]
               /\ TaskTyped(t) /\ t.phase \in {"idle", "sync", "settle", "install"}
  <2>1. TaskTyped(NoTask) /\ NoTask.phase = "idle"
    BY IdleTyped DEF NoTask
  <2>2. TaskTyped([phase |-> "sync"]) /\ TaskTyped([phase |-> "settle"])
    BY DEF TaskTyped, WriterTask
  <2>3. CASE ReadExclusions(s)
    <3> DEFINE t == [phase |-> "install", whole |-> tasks[s].whole, usable |-> Usable,
                     list |-> Prefixes(exclusions), clean |-> holder = "none"]
    <3>1. tasks[s] \in ReadTask
      BY <2>3, PhaseOfTask DEF ReadExclusions, GeoipTyped, TasksTyped
    <3>2. tasks' = [tasks EXCEPT ![s] = t]
      BY <2>3 DEF ReadExclusions, GeoipTyped, TasksTyped
    <3>3. tasks[s].whole \in BOOLEAN
      BY <3>1 DEF ReadTask
    <3>4. t \in InstallTask /\ t.phase = "install"
      <4>1. Usable \in BOOLEAN /\ (holder = "none") \in BOOLEAN /\ Prefixes(exclusions) \in SUBSET Excluded
        BY PrefixesTyped DEF Usable
      <4> QED
        BY <3>3, <4>1 DEF InstallTask
    <3> HIDE DEF t
    <3> QED
      BY <3>2, <3>4 DEF TaskTyped
  <2>4. CASE ~ReadExclusions(s)
    <3>1. \/ tasks' = [tasks EXCEPT ![s] = NoTask]
          \/ tasks' = [tasks EXCEPT ![s] = [phase |-> "sync"]]
          \/ tasks' = [Overtaken EXCEPT ![s] = [phase |-> "settle"]]
          \/ tasks' = [Overtaken EXCEPT ![s] = NoTask]
      BY <2>4 DEF FlushExclusion, RefuseExclusion, SyncExclusion, SyncExclusionFails, CommitExclusion,
         InstallExclusions, InstallFails
    <3> QED
      BY <2>1, <2>2, <3>1
  <2> QED
    BY <2>3, <2>4
<1>4. /\ TasksTyped' /\ tasks'[s] = t
      /\ \A r \in GeoSlot \ {s} : tasks'[r] = tasks[r] \/ tasks'[r] = Overtaken[r]
  <2>1. CASE tasks' = [tasks EXCEPT ![s] = t]
    BY <1>3, <2>1, OneTaskSlot DEF GeoipTyped
  <2>2. CASE tasks' = [Overtaken EXCEPT ![s] = t]
    BY <1>3, <2>2, OvertakenTasks DEF GeoipTyped, TasksTyped
  <2> QED
    BY <1>3, <2>1, <2>2
<1>5. ExclusionRowsTyped'
  <2>1. CASE FlushExclusion(s)
    <3>1. tasks[s] \in FlushTask
      BY <2>1, PhaseOfTask DEF FlushExclusion, GeoipTyped, TasksTyped
    <3>2. changed' = [a \in Excluded |->
            IF tasks[s].rows[a] = tasks[s].seen[a] THEN exclusions[a] ELSE tasks[s].rows[a]]
      BY <2>1 DEF FlushExclusion
    <3>3. changed' \in ExclusionRows
      BY <1>2, <3>1, <3>2 DEF ExclusionRowsTyped, ExclusionRows, FlushTask
    <3> QED
      BY <1>2, <2>1, <3>3 DEF ExclusionRowsTyped, FlushExclusion
  <2>2. CASE ~FlushExclusion(s)
    BY <1>2, <2>2 DEF ExclusionRowsTyped, RefuseExclusion, SyncExclusion, SyncExclusionFails, CommitExclusion,
       ReadExclusions, InstallExclusions, InstallFails, exclusionVars
  <2> QED
    BY <2>1, <2>2
<1>6. MarksTyped'
  <2>1. CASE InstallExclusions(s) \/ InstallFails(s)
    <3>1. tasks[s] \in InstallTask
      BY <2>1, PhaseOfTask DEF InstallExclusions, InstallFails, GeoipTyped, TasksTyped
    <3>2. /\ tasks[s].whole \in BOOLEAN /\ tasks[s].usable \in BOOLEAN
          /\ tasks[s].clean \in BOOLEAN /\ tasks[s].list \in SUBSET Excluded
      BY <3>1 DEF InstallTask
    <3>3. NetTyped(Net)
      BY <1>2, NetNow
    <3>4. CASE InstallExclusions(s)
      <4>1. late' \in BOOLEAN
        BY <1>2, <3>2, <3>4, Zenon DEF MarksTyped, InstallExclusions
      <4>2. NetTyped([Net EXCEPT !.set = IF tasks[s].usable THEN tasks[s].list ELSE @])
        BY <3>2, <3>3 DEF NetTyped
      <4>3. NetTyped(Routed(Net, tasks[s].usable, tasks[s].list))
        BY <3>2, <3>3, RoutedTyped
      <4>4. PICK n : NetTyped(n) /\ Leaves(n)
        BY <3>4, <4>2, <4>3 DEF InstallExclusions
      <4> QED
        BY <4>1, <4>4, LeavesTyped
    <3>5. CASE InstallFails(s)
      <4>1. CASE tasks[s].whole
        BY <3>2, <3>3, <3>5, <4>1, FailsTyped DEF InstallFails
      <4>2. CASE ~tasks[s].whole
        BY <1>2, <3>5, <4>2 DEF InstallFails, MarksTyped
      <4> QED
        BY <4>1, <4>2
    <3> QED
      BY <2>1, <3>4, <3>5
  <2>2. CASE SyncExclusion(s)
    <3>1. late' \in BOOLEAN
      BY <1>2, <2>2, Zenon DEF MarksTyped, SyncExclusion
    <3> QED
      BY <1>2, <2>2, <3>1, PrefixesTyped DEF MarksTyped, SyncExclusion
  <2>3. CASE ~InstallExclusions(s) /\ ~InstallFails(s) /\ ~SyncExclusion(s)
    BY <1>2, <2>3 DEF MarksTyped, FlushExclusion, RefuseExclusion, SyncExclusionFails, CommitExclusion,
       ReadExclusions, exclusionVars
  <2> QED
    BY <2>1, <2>2, <2>3
<1>7. GeoipTyped'
  BY <1>1, <1>4, <1>5, <1>6, TypesOfMarks DEF GeoipTyped
<1>8. ZoneInv'
  <2>1. \A r \in GeoSlot : \/ tasks'[r] = tasks[r]
                           \/ /\ ~Running(tasks[r]) /\ ~Waiting(tasks[r])
                              /\ ~Running(tasks'[r]) /\ ~Waiting(tasks'[r])
    <3> SUFFICES ASSUME NEW r \in GeoSlot, tasks'[r] # tasks[r]
                 PROVE  /\ ~Running(tasks[r]) /\ ~Waiting(tasks[r])
                        /\ ~Running(tasks'[r]) /\ ~Waiting(tasks'[r])
      OBVIOUS
    <3>1. CASE r = s
      BY <1>1, <1>3, <1>4, <3>1 DEF Running, Waiting, UpdatePhase
    <3>2. CASE r # s
      <4>1. tasks'[r] = Overtaken[r]
        BY <1>4, <3>2
      <4>2. tasks[r].phase = "install" /\ tasks'[r].phase = "install"
        BY <4>1, OvertakenTasks DEF GeoipTyped
      <4> QED
        BY <4>2 DEF Running, Waiting, UpdatePhase
    <3> QED
      BY <3>1, <3>2
  <2> QED
    BY <1>1, <2>1, ZoneStays
<1>9. CASE RefuseExclusion(s)
  <2>1. /\ tasks[s].phase = "flush" /\ UNCHANGED exclusionVars /\ tasks' = [tasks EXCEPT ![s] = NoTask]
    BY <1>9 DEF RefuseExclusion
  <2>2. tasks'[s] = NoTask /\ \A r \in GeoSlot \ {s} : tasks'[r] = tasks[r]
    BY <2>1, OneTaskSlot DEF GeoipTyped
  <2>3. ExclusionInv'
    BY <2>1, <2>2, ExclusionsStay DEF exclusionVars, NoTask
  <2> QED
    BY <1>7, <1>8, <2>3
<1>10. CASE ~RefuseExclusion(s)
  BY <1>7, <1>8, <1>10, FlushKeeps, SyncKeeps, SyncFailsKeeps, CommitKeeps, ReadKeeps, InstallKeeps
<1> QED
  BY <1>9, <1>10

LEMMA NodeStep ==
    ASSUME GeoipTyped, ExclusionInv, ZoneInv, NodeAction
    PROVE  GeoipTyped' /\ ExclusionInv' /\ ZoneInv'
<1>0. SelectGeoip \/ SelectFails \/ ClearGeoip \/ ClearFails \/ RedeployGeoip \/ GeoipRedeployed
  BY DEF NodeAction
<1>1. UNCHANGED zoneVars
  BY <1>0 DEF SelectGeoip, SelectFails, ClearGeoip, ClearFails, RedeployGeoip, GeoipRedeployed, NodeRequest
<1>2. ExclusionRowsTyped /\ MarksTyped
  BY TypeParts DEF GeoipTyped
<1>3. tasks' = tasks \/ tasks' = Overtaken
  BY <1>0 DEF SelectGeoip, SelectFails, ClearGeoip, ClearFails, RedeployGeoip, GeoipRedeployed
<1>4. TasksTyped'
  BY <1>3, OvertakenTasks DEF GeoipTyped, TasksTyped
<1>5. ExclusionRowsTyped'
  BY <1>0, <1>2 DEF ExclusionRowsTyped, SelectGeoip, SelectFails, ClearGeoip, ClearFails, RedeployGeoip,
     GeoipRedeployed, NodeRequest
<1>6. MarksTyped'
  <2>1. NetTyped(Net) /\ Prefixes(exclusions) \in SUBSET Excluded /\ {} \in SUBSET Excluded
    BY <1>2, NetNow, PrefixesTyped
  <2>2. NetTyped([Net EXCEPT !.table = FALSE])
    BY <2>1 DEF NetTyped
  <2>3. CASE SelectGeoip
    BY <2>1, <2>3, RoutedTyped, LeavesTyped DEF SelectGeoip
  <2>4. CASE SelectFails
    BY <2>1, <2>4, FailsTyped DEF SelectFails
  <2>5. CASE ClearGeoip
    <3>1. late' \in BOOLEAN
      BY <1>2, <2>5 DEF ClearGeoip, MarksTyped
    <3> QED
      BY <2>1, <2>5, <3>1, RoutedTyped, LeavesTyped DEF ClearGeoip
  <2>6. CASE ClearFails
    BY <2>1, <2>2, <2>6, FailsTyped DEF ClearFails
  <2>7. CASE RedeployGeoip
    BY <1>2, <2>7 DEF RedeployGeoip, MarksTyped
  <2>8. CASE GeoipRedeployed
    <3>1. late' \in BOOLEAN
      BY <1>2, <2>8, Zenon DEF GeoipRedeployed, MarksTyped
    <3> QED
      BY <1>2, <2>8, <3>1 DEF GeoipRedeployed, MarksTyped
  <2> QED
    BY <1>0, <2>3, <2>4, <2>5, <2>6, <2>7, <2>8
<1>7. ZoneInv'
  <2>1. \A r \in GeoSlot : \/ tasks'[r] = tasks[r]
                           \/ tasks[r].phase = "install" /\ tasks'[r].phase = "install"
    BY <1>3, OvertakenTasks DEF GeoipTyped
  <2>2. \A t : t.phase = "install" => ~Running(t) /\ ~Waiting(t)
    BY DEF Running, Waiting, UpdatePhase
  <2> QED
    BY <1>1, <2>1, <2>2, ZoneStays
<1> QED
  BY <1>1, <1>4, <1>5, <1>6, <1>7, NodeKeeps, TypesOfMarks DEF GeoipTyped

LEMMA GeoipRestartStep ==
    ASSUME GeoipTyped, ExclusionInv, ZoneInv, GeoipRestart
    PROVE  GeoipTyped' /\ ExclusionInv' /\ ZoneInv'
<1>1. /\ tasks' = [s \in GeoSlot |-> NoTask] /\ updating' = FALSE
      /\ ZoneRestored \/ ZoneNotRestored
      /\ holder' = "none" /\ changed' = exclusions
      /\ UNCHANGED <<sources, cache, exclusions, geoNode>>
  BY DEF GeoipRestart
<1>2. SourceTyped /\ SetsTyped /\ ExclusionRowsTyped /\ MarksTyped
  BY TypeParts DEF GeoipTyped
<1>3. TasksTyped'
  <2>1. \A s \in GeoSlot : tasks'[s] = NoTask
    BY <1>1
  <2> QED
    BY <1>1, <2>1, IdleTyped DEF TasksTyped
<1>4. Restored \subseteq Url
  BY <1>2 DEF Restored, SetsTyped, SourceTyped, On, Listed, GeoSource
<1>5. missed' \in BOOLEAN
  BY <1>1, <1>2, Zenon DEF ZoneRestored, ZoneNotRestored, SetsTyped
<1>6. SetsTyped'
  BY <1>1, <1>2, <1>4, <1>5 DEF ZoneRestored, ZoneNotRestored, SetsTyped
<1>7. ExclusionRowsTyped' /\ SourceTyped'
  BY <1>1, <1>2 DEF ExclusionRowsTyped, SourceTyped
<1> DEFINE NoNet == [set |-> {}, marks |-> FALSE, table |-> FALSE]
<1>8. PICK net \in {Net, NoNet} : RoutingRestored(net)
  BY DEF GeoipRestart
<1>9. NetTyped(net) /\ Usable \in BOOLEAN /\ Prefixes(exclusions) \in SUBSET Excluded
  <2>1. NetTyped(NoNet)
    BY DEF NetTyped
  <2> QED
    BY <1>2, <2>1, NetNow, PrefixesTyped DEF Usable
<1>10. MarksTyped'
  <2> HIDE DEF NoNet
  <2>1. CASE late' = FALSE /\ Leaves(Routed(net, Usable, Prefixes(exclusions)))
    BY <1>9, <2>1, RoutedTyped, LeavesTyped
  <2>2. CASE RoutingFails(net, Usable, Prefixes(exclusions))
    BY <1>9, <2>2, FailsTyped
  <2> QED
    BY <1>8, <2>1, <2>2 DEF RoutingRestored
<1>11. GeoipTypeOK'
  BY <1>6, <1>7, <1>10 DEF GeoipTypeOK, SourceTyped, SetsTyped, ExclusionRowsTyped, MarksTyped, ExclusionRows
<1>12. ExclusionInv'
  <2>1. late' = TRUE \/ ((tunnelled' \/ marked') => marked' /\ excluded' = Prefixes(exclusions'))
    <3> HIDE DEF NoNet
    <3>1. CASE Leaves(Routed(net, Usable, Prefixes(exclusions)))
      BY <1>1, <3>1 DEF Leaves, Routed, Prefixes
    <3>2. CASE RoutingFails(net, Usable, Prefixes(exclusions))
      BY <3>2 DEF RoutingFails
    <3> QED
      BY <1>8, <3>1, <3>2 DEF RoutingRestored
  <2> QED
    BY <1>1, <2>1, FreshExclusions
<1> QED
  BY <1>3, <1>11, <1>12, RestartFollows DEF GeoipTyped

---------------------------------------------------------------------------

GeoipInv == GeoipTyped /\ ExclusionInv /\ ZoneInv

LEMMA GeoipStart == GeoipInit => GeoipInv
<1> SUFFICES ASSUME GeoipInit PROVE GeoipInv
  OBVIOUS
<1>1. FirstSource \in GeoSource /\ FirstSource.code \in Country /\ FirstSource.url \in Url
      /\ 1 \in SourceId
  BY GeoipAssumption DEF GeoSource
<1>2. \A s \in GeoSlot : tasks[s] = NoTask
  BY DEF GeoipInit
<1>3. TasksTyped
  BY <1>2, IdleTyped DEF TasksTyped, GeoipInit
<1>4. GeoipTypeOK
  <2>1. SourceTyped
    BY <1>1 DEF SourceTyped, GeoipInit
  <2>2. SetsTyped
    BY <1>1 DEF SetsTyped, GeoipInit
  <2>3. ExclusionRowsTyped /\ MarksTyped
    BY DEF ExclusionRowsTyped, MarksTyped, GeoipInit, ExclusionRows, Exclusion
  <2> QED
    BY <2>1, <2>2, <2>3, TypeParts
<1>5. ExclusionInv
  <2>1. \A s \in GeoSlot : tasks[s].phase = "idle"
    BY <1>2 DEF NoTask
  <2> QED
    BY <2>1, GeoipAssumption DEF GeoipInit, ExclusionInv, WriterHolds, CleanLists, SetFollows
<1>6. ZoneInv
  <2>1. \A s \in GeoSlot : ~Running(tasks[s])
    BY <1>2 DEF Running, NoTask, UpdatePhase
  <2>2. OneUpdate /\ UpdatesFollow
    BY <2>1 DEF OneUpdate, UpdatesFollow, GeoipInit
  <2>3. \A i \in SourceId : sources[i] = IF i = 1 THEN FirstSource ELSE NoSource
    BY DEF GeoipInit
  <2>4. \A i \in On(sources) : sources[i] = FirstSource
    BY <2>3 DEF On, Listed
  <2>5. CacheOf(On(sources))
    BY <1>1, <2>4 DEF CacheOf, GeoipInit
  <2>6. zone = Wanted
    <3>1. FirstSource # NoSource
      BY <1>1, NoRow
    <3>2. CASE FirstSource.on
      <4>1. On(sources) = {1}
        BY <1>1, <2>3, <3>1, <3>2 DEF On, Listed
      <4> QED
        BY <1>1, <2>3, <3>2, <4>1 DEF Wanted, GeoipInit
    <3>3. CASE ~FirstSource.on
      <4>1. On(sources) = {}
        BY <1>1, <2>3, <3>1, <3>3 DEF On, Listed
      <4> QED
        BY <3>3, <4>1 DEF Wanted, GeoipInit
    <3> QED
      BY <3>2, <3>3
  <2> QED
    BY <2>2, <2>5, <2>6 DEF ZoneInv, ZoneFollows
<1> QED
  BY <1>3, <1>4, <1>5, <1>6 DEF GeoipInv, GeoipTyped

LEMMA GeoipStep == GeoipInv /\ [GeoipNext]_geoipVars => GeoipInv'
<1> SUFFICES ASSUME GeoipInv, [GeoipNext]_geoipVars PROVE GeoipInv'
  OBVIOUS
<1>1. GeoipTyped /\ ExclusionInv /\ ZoneInv
  BY DEF GeoipInv
<1>2. ASSUME NEW s \in GeoSlot,
             \/ CreateSource(s) \/ UpdateSource(s) \/ DeleteSource(s) \/ TriggerUpdate(s)
             \/ ChangeExclusion(s) \/ ApplyRouting(s)
      PROVE  GeoipInv'
  BY <1>1, <1>2, RequestStep DEF GeoipInv
<1>3. ASSUME NEW s \in GeoSlot, CommitSource(s) \/ RefuseSource(s) PROVE GeoipInv'
  BY <1>1, <1>3, SourceStep DEF GeoipInv
<1>4. ASSUME NEW s \in GeoSlot,
             \/ StartUpdate(s) \/ SkipUpdate(s) \/ FetchList(s)
             \/ MakeSet(s) \/ FillSet(s) \/ SwapSet(s) \/ NoteCounts(s) \/ UpdateFails(s)
      PROVE  GeoipInv'
  BY <1>1, <1>4, UpdateStep DEF GeoipInv
<1>5. ASSUME NEW s \in GeoSlot,
             \/ FlushExclusion(s) \/ RefuseExclusion(s) \/ SyncExclusion(s) \/ SyncExclusionFails(s)
             \/ CommitExclusion(s) \/ ReadExclusions(s) \/ InstallExclusions(s) \/ InstallFails(s)
      PROVE  GeoipInv'
  BY <1>1, <1>5, ExclusionStep DEF GeoipInv
<1>6. CASE NodeAction
  BY <1>1, <1>6, NodeStep DEF GeoipInv
<1>7. CASE GeoipRestart
  BY <1>1, <1>7, GeoipRestartStep DEF GeoipInv
<1>8. CASE UNCHANGED geoipVars
  <2>1. UNCHANGED <<zoneVars, exclusionVars, tasks>>
    BY <1>8 DEF geoipVars
  <2>2. GeoipTyped'
    BY <1>1, <2>1 DEF GeoipTyped, GeoipTypeOK, TasksTyped, zoneVars, exclusionVars
  <2>3. ExclusionInv'
    BY <1>1, <2>1, ExclusionsStay DEF exclusionVars
  <2>4. ZoneInv'
    BY <1>1, <2>1, ZoneStays
  <2> QED
    BY <2>2, <2>3, <2>4 DEF GeoipInv
<1> QED
  BY <1>2, <1>3, <1>4, <1>5, <1>6, <1>7, <1>8 DEF GeoipNext, NodeAction

\* Every source, list, set and mark, and every request in flight, is of its type.
THEOREM GeoipTypeCorrect == GeoipSpec => []GeoipTypeOK
<1>1. GeoipInv => GeoipTypeOK
  BY DEF GeoipInv, GeoipTyped
<1> QED
  BY <1>1, GeoipStart, GeoipStep, PTL DEF GeoipSpec

\* The update of the lists, their cache and the swap of the set: when no update runs or
\* waits, the local zone holds the lists of all enabled sources and no other, whatever
\* changes of sources, triggers, failures and restarts come before.
THEOREM ZoneCorrect == GeoipSpec => []LocalZoneFollows
<1>1. GeoipInv => LocalZoneFollows
  <2> SUFFICES ASSUME GeoipInv, OneSourcePerCountry, ~missed,
                      \A s \in GeoSlot : tasks[s].phase \notin {"start", "fetch", "fill", "swap", "note"}
               PROVE  zone = {sources[i].url : i \in On(sources)}
    BY DEF LocalZoneFollows
  <2>1. ~updating /\ ~SomeWaiting
    BY DEF GeoipInv, ZoneInv, OneUpdate, SomeWaiting, Running, Waiting, UpdatePhase
  <2> QED
    BY <2>1 DEF GeoipInv, ZoneInv, ZoneFollows, Wanted
<1> QED
  BY <1>1, GeoipStart, GeoipStep, PTL DEF GeoipSpec

\* Exclusions of a zone that leads into the tunnel: the set has exactly the enabled ones
\* and the marks are there, whenever no change is under way, for any number of requests
\* that change, apply or select at a time, up to a command that fails.
THEOREM ExclusionsCorrect == GeoipSpec => []ExclusionsRespected
<1>1. GeoipInv => ExclusionsRespected
  <2> SUFFICES ASSUME GeoipInv, tunnelled, holder = "none", ~late
               PROVE  marked /\ excluded = {a \in Excluded : exclusions[a] = "on"}
    BY DEF ExclusionsRespected
  <2>1. \A s \in GeoSlot : tasks[s].phase # "settle"
    BY GeoipAssumption DEF GeoipInv, ExclusionInv, WriterHolds
  <2> QED
    BY <2>1 DEF GeoipInv, ExclusionInv, SetFollows, Prefixes
<1> QED
  BY <1>1, GeoipStart, GeoipStep, PTL DEF GeoipSpec

---------------------------------------------------------------------------
(* Split DNS: zones, rows and reloads *)

Reloading(x) == x.phase \in {"refresh", "zones", "rules", "write"}

Manual == rows["manual"]

\* What a session holds is what is committed.
UpToDate(own) == own = NoOwn \/ own.row = StoredRow(own.at)

\* What a reload has read, and what its session holds, is what is committed, unless
\* something came in between.
ReadsFollow ==
    \A s \in DnsSlot : Reloading(slots[s]) /\ slots[s].clean =>
        /\ slots[s].phase = "refresh" => Exists(StoredRow(slots[s].own.at))
        /\ slots[s].phase # "refresh" => UpToDate(slots[s].own)
        /\ slots[s].phase \in {"rules", "write"} => slots[s].zones = zones
        /\ slots[s].phase = "write" => slots[s].rules = Rules

\* Either dnsmasq was started from what is committed, or somebody will do so.
ReloadFollows ==
    ~disturbed /\ resolver # Stopped =>
        \/ resolver = Written(zones, Rules, Manual)
        \/ \E s \in DnsSlot : Reloading(slots[s]) /\ slots[s].clean

\* A table names nothing twice.
NamesDistinct ==
    \A t \in DnsTable : \A i, j \in Live(t) : rows[t][i].name = rows[t][j].name => i = j

PlainBuiltIn == \A z \in {"local", "vpn"} : zones[z] # NoZone => zones[z].proto = "plain"

Consistent ==
    /\ \A i \in Live("rules") : Rules[i].zone \in Zones
    /\ \A y, z \in Zones : zones[y].proto = zones[z].proto /\ zones[y].proto \in Proxy => y = z

\* What a handler found when it checked, as long as nothing was committed since
Found(kind, c) ==
    /\ kind = "addZone" => zones[c.zone] = NoZone /\ SlotFree(c.zone, c.new.proto)
    /\ kind = "setZone" => c.zone \in Zones /\ c.old = zones[c.zone] /\ SlotFree(c.zone, c.new.proto)
    /\ kind = "dropZone" => c.ids = Dropped(c.zone)
    /\ kind \in {"add", "bulk"} /\ c.table = "rules" => c.zone \in Zones
    /\ kind = "set" => c.id \in Live(c.table) /\ c.old = rows[c.table][c.id]
    /\ kind = "set" /\ c.table = "rules" => c.new.zone \in Zones \/ c.new.zone = c.old.zone

ChecksHold ==
    \A s \in DnsSlot : slots[s].phase = "commit" /\ slots[s].clean => Found(slots[s].kind, slots[s].change)

ZonesInv == PlainBuiltIn /\ NamesDistinct /\ ChecksHold /\ (~raced => Consistent)

SlotFields == {"phase", "kind", "change", "clean", "own", "zones", "rules"}

\* What the handlers have checked of their input
ChangeTyped(kind, c) ==
    /\ kind = "addZone" => c.zone \in ZoneKey /\ c.new \in Zone /\ c.names \subseteq DnsName
    /\ kind = "setZone" => /\ c.zone \in Key /\ c.old \in Zone /\ c.new \in Zone
                           /\ c.zone \in {"local", "vpn"} => c.new.proto = "plain"
    /\ kind = "dropZone" => c.zone \in ZoneKey
    /\ kind \in {"add", "bulk"} =>
                       /\ c.table \in DnsTable /\ c.names \subseteq DnsName /\ c.on \in BOOLEAN
                       /\ c.zone \in IF c.table = "rules" THEN Key ELSE {"none"}
    /\ kind = "set" => /\ c.table \in DnsTable /\ c.id \in DnsId
                       /\ c.old \in DnsRow(c.table) /\ c.new \in DnsRow(c.table)
    /\ kind = "drop" => c.table \in DnsTable /\ c.id \in DnsId

DnsSlotTyped(x) ==
    /\ DOMAIN x = SlotFields /\ x = [f \in SlotFields |-> x[f]]
    /\ x.phase \in {"commit", "refresh", "zones", "rules", "write"} /\ x.clean \in BOOLEAN
    /\ ChangeTyped(x.kind, x.change)

SlotsTyped ==
    /\ slots = [s \in DnsSlot |-> slots[s]]
    /\ \A s \in DnsSlot : slots[s] = NoSlot \/ DnsSlotTyped(slots[s])

ZonesTyped == zones \in [Key -> Zone \cup {NoZone}]

Table(t) == [DnsId -> DnsRow(t) \cup {NoDnsRow}]

RowsOfTables ==
    /\ rows = [t \in DnsTable |-> rows[t]]
    /\ \A t \in DnsTable : rows[t] \in Table(t)

DnsTyped ==
    /\ ZonesTyped /\ RowsOfTables /\ SlotsTyped
    /\ proxies \in [Proxy -> {"off", "ours", "orphan"}]
    /\ raced \in BOOLEAN /\ disturbed \in BOOLEAN

LEMMA Nothing ==
    /\ NoZone \notin Zone /\ \A t : NoDnsRow \notin DnsRow(t)
    /\ NoSlot.phase = "idle" /\ \A x : DnsSlotTyped(x) => x # NoSlot
<1>1. NoZone \notin Zone
  BY DnsAssumption DEF NoZone, Zone
<1>2. ASSUME NEW t PROVE NoDnsRow \notin DnsRow(t)
  <2>1. DOMAIN NoDnsRow = {"name"}
    BY DEF NoDnsRow
  <2>2. \A r \in DnsRow(t) : "on" \in DOMAIN r
    BY DEF DnsRow
  <2> QED
    BY <2>1, <2>2
<1>3. NoSlot.phase = "idle"
  BY DEF NoSlot
<1> QED
  BY <1>1, <1>2, <1>3 DEF DnsSlotTyped

---------------------------------------------------------------------------
(* Tables *)

NoNameTwice(table) ==
    \A i, j \in DnsId : table[i] # NoDnsRow /\ table[j] # NoDnsRow /\ table[i].name = table[j].name => i = j

ZoneOf(t) == IF t = "rules" THEN Key ELSE {"none"}

LEMMA RowFields ==
    ASSUME NEW t
    PROVE  /\ \A r \in DnsRow(t) : /\ DOMAIN r = {"name", "zone", "on"} /\ r.name \in DnsName
                                   /\ r.zone \in ZoneOf(t) /\ r.on \in BOOLEAN
                                   /\ r = [f \in {"name", "zone", "on"} |-> r[f]]
           /\ \A n \in DnsName, z \in ZoneOf(t), on \in BOOLEAN :
                  [name |-> n, zone |-> z, on |-> on] \in DnsRow(t)
<1>1. DnsRow(t) = [name : DnsName, zone : ZoneOf(t), on : BOOLEAN]
  BY DEF DnsRow, ZoneOf
<1> QED
  BY <1>1

LEMMA ZoneFields ==
    \A z \in Zone : /\ DOMAIN z = {"proto", "server"} /\ z = [f \in {"proto", "server"} |-> z[f]]
                    /\ z.proto \in {"plain"} \cup Proxy /\ z.server \in Server
BY DEF Zone

\* New rows have the names and the zone that were asked for; the others stay.
LEMMA InsertedRows ==
    ASSUME NEW t \in DnsTable, NEW table \in Table(t), NoNameTwice(table),
           NEW names \in SUBSET DnsName, NEW newZone \in ZoneOf(t), NEW on \in BOOLEAN,
           ~Taken(table, names), NEW new \in Inserted(table, names, newZone, on)
    PROVE  /\ new \in Table(t) /\ NoNameTwice(new)
           /\ \A i \in DnsId : new[i] # NoDnsRow => new[i] = table[i] \/ new[i].zone = newZone
<1>1. PICK place \in [names -> DnsId] :
          new = [i \in DnsId |-> IF table[i] # NoDnsRow \/ ~ \E n \in names : place[n] = i THEN table[i]
                      ELSE [name |-> CHOOSE n \in names : place[n] = i, zone |-> newZone, on |-> on]]
  BY DEF Inserted
<1> DEFINE kept(i) == table[i] # NoDnsRow \/ ~ \E n \in names : place[n] = i
           name(i) == CHOOSE n \in names : place[n] = i
<1>2. \A i \in DnsId : ~kept(i) => name(i) \in names /\ place[name(i)] = i
  OBVIOUS
<1>3. \A i \in DnsId : new[i] = IF kept(i) THEN table[i] ELSE [name |-> name(i), zone |-> newZone, on |-> on]
  BY <1>1
<1>4. \A i \in DnsId : kept(i) /\ table[i] # NoDnsRow => table[i].name \notin names
  BY DEF Taken
<1>5. \A i \in DnsId : table[i] = NoDnsRow /\ kept(i) => new[i] = NoDnsRow
  BY <1>3
<1> HIDE DEF kept, name
<1>6. \A i \in DnsId : ~kept(i) => /\ new[i].name = name(i) /\ new[i].zone = newZone
                                   /\ new[i] \in DnsRow(t)
  <2> SUFFICES ASSUME NEW i \in DnsId, ~kept(i)
               PROVE  new[i].name = name(i) /\ new[i].zone = newZone /\ new[i] \in DnsRow(t)
    OBVIOUS
  <2>1. name(i) \in DnsName
    BY <1>2
  <2>2. \A n \in DnsName : [name |-> n, zone |-> newZone, on |-> on] \in DnsRow(t)
    BY RowFields
  <2>3. new[i] = [name |-> name(i), zone |-> newZone, on |-> on]
    BY <1>3
  <2> QED
    BY <2>1, <2>2, <2>3
<1>7. new = [i \in DnsId |-> new[i]]
  BY <1>1
<1>8. new \in Table(t)
  BY <1>3, <1>6, <1>7 DEF Table
<1>9. NoNameTwice(new)
  <2> SUFFICES ASSUME NEW i \in DnsId, NEW j \in DnsId, new[i] # NoDnsRow, new[j] # NoDnsRow,
                      new[i].name = new[j].name
               PROVE  i = j
    BY DEF NoNameTwice
  <2>1. CASE kept(i) /\ kept(j)
    <3>1. new[i] = table[i] /\ new[j] = table[j]
      BY <1>3, <2>1
    <3>2. table[i] # NoDnsRow /\ table[j] # NoDnsRow /\ table[i].name = table[j].name
      BY <3>1
    <3> QED
      BY <3>2 DEF NoNameTwice
  <2>2. CASE kept(i) /\ ~kept(j)
    <3>1. new[i].name \notin names
      BY <1>3, <1>4, <2>2
    <3>2. new[j].name \in names
      BY <1>2, <1>6, <2>2
    <3> QED
      BY <3>1, <3>2
  <2>3. CASE ~kept(i) /\ kept(j)
    <3>1. new[j].name \notin names
      BY <1>3, <1>4, <2>3
    <3>2. new[i].name \in names
      BY <1>2, <1>6, <2>3
    <3> QED
      BY <3>1, <3>2
  <2>4. CASE ~kept(i) /\ ~kept(j)
    BY <1>2, <1>6, <2>4
  <2> QED
    BY <2>1, <2>2, <2>3, <2>4
<1> QED
  BY <1>3, <1>6, <1>8, <1>9

LEMMA UpdatedRow ==
    ASSUME NEW t, NEW now \in DnsRow(t), NEW old \in DnsRow(t), NEW new \in DnsRow(t)
    PROVE  /\ Updated(now, old, new) \in DnsRow(t)
           /\ now = old => Updated(now, old, new) = new
           /\ Updated(now, old, new).zone = now.zone \/ Updated(now, old, new).zone = new.zone
<1> DEFINE u == Updated(now, old, new)
<1>1. DOMAIN now = {"name", "zone", "on"} /\ DOMAIN new = {"name", "zone", "on"}
      /\ new = [f \in {"name", "zone", "on"} |-> new[f]]
  BY RowFields
<1>2. u = [c \in {"name", "zone", "on"} |-> IF new[c] = old[c] THEN now[c] ELSE new[c]]
  BY <1>1 DEF Updated
<1>3. \A c \in {"name", "zone", "on"} : u[c] = IF new[c] = old[c] THEN now[c] ELSE new[c]
  BY <1>2
<1>4. /\ u["name"] = (IF new["name"] = old["name"] THEN now["name"] ELSE new["name"])
      /\ u["zone"] = (IF new["zone"] = old["zone"] THEN now["zone"] ELSE new["zone"])
      /\ u["on"] = (IF new["on"] = old["on"] THEN now["on"] ELSE new["on"])
  BY <1>3
<1>5. u = [name |-> u["name"], zone |-> u["zone"], on |-> u["on"]]
  BY <1>2
<1> HIDE DEF u
<1>6. /\ now["name"] \in DnsName /\ now["zone"] \in ZoneOf(t) /\ now["on"] \in BOOLEAN
      /\ new["name"] \in DnsName /\ new["zone"] \in ZoneOf(t) /\ new["on"] \in BOOLEAN
  BY RowFields
<1>7. u["name"] \in DnsName /\ u["zone"] \in ZoneOf(t)
  BY <1>4, <1>6
<1>8. u["on"] \in BOOLEAN
  BY <1>4, <1>6, Zenon
<1>9. u \in DnsRow(t)
  BY <1>5, <1>7, <1>8, RowFields
<1>10. now = old => u = new
  <2> SUFFICES ASSUME now = old PROVE u = new
    OBVIOUS
  <2>1. u = [c \in {"name", "zone", "on"} |-> new[c]]
    BY <1>2
  <2> QED
    BY <1>1, <2>1
<1>11. u.zone = now.zone \/ u.zone = new.zone
  BY <1>4
<1> QED
  BY <1>9, <1>10, <1>11 DEF u

LEMMA UpdatedZone ==
    ASSUME NEW now \in Zone, NEW old \in Zone, NEW new \in Zone
    PROVE  /\ Updated(now, old, new) \in Zone
           /\ now = old => Updated(now, old, new) = new
           /\ Updated(now, old, new).proto = now.proto \/ Updated(now, old, new).proto = new.proto
<1> DEFINE u == Updated(now, old, new)
<1>1. DOMAIN now = {"proto", "server"} /\ new = [f \in {"proto", "server"} |-> new[f]]
  BY ZoneFields
<1>2. u = [c \in {"proto", "server"} |-> IF new[c] = old[c] THEN now[c] ELSE new[c]]
  BY <1>1 DEF Updated
<1>3. /\ u["proto"] = (IF new["proto"] = old["proto"] THEN now["proto"] ELSE new["proto"])
      /\ u["server"] = (IF new["server"] = old["server"] THEN now["server"] ELSE new["server"])
  BY <1>2
<1>4. u = [proto |-> u["proto"], server |-> u["server"]]
  BY <1>2
<1>5. now = old => u = new
  <2> SUFFICES ASSUME now = old PROVE u = new
    OBVIOUS
  <2>1. u = [c \in {"proto", "server"} |-> new[c]]
    BY <1>2
  <2> QED
    BY <1>1, <2>1
<1> HIDE DEF u
<1>6. u \in Zone
  BY <1>3, <1>4, ZoneFields DEF Zone
<1>7. u.proto = now.proto \/ u.proto = new.proto
  BY <1>3
<1> QED
  BY <1>5, <1>6, <1>7 DEF u


---------------------------------------------------------------------------
(* Requests *)

\* Checks are about committed rows.
LEMMA ZonesStay ==
    ASSUME ZonesInv, UNCHANGED <<zones, rows, raced>>,
           \A r \in DnsSlot : slots'[r].phase = "commit" /\ slots'[r].clean =>
               Found(slots'[r].kind, slots'[r].change)
    PROVE  ZonesInv'
<1>1. PlainBuiltIn' /\ NamesDistinct'
  BY DEF ZonesInv, PlainBuiltIn, NamesDistinct, Live
<1>2. \A kind, c : Found(kind, c) => Found(kind, c)'
  BY DEF Found, SlotFree, Dropped, Live, Rules, Zones
<1>3. ChecksHold'
  <2> SUFFICES ASSUME NEW r \in DnsSlot, slots'[r].phase = "commit", slots'[r].clean
               PROVE  Found(slots[r].kind, slots[r].change)'
    BY DEF ChecksHold
  <2>1. PICK kind, c : kind = slots'[r].kind /\ c = slots'[r].change
    OBVIOUS
  <2>2. Found(kind, c)'
    BY <1>2, <2>1
  <2> QED
    BY <2>1, <2>2 DEF Found, SlotFree, Dropped, Live, Rules, Zones
<1>4. Consistent => Consistent'
  BY DEF Consistent, Live, Rules, Zones
<1> QED
  BY <1>1, <1>3, <1>4 DEF ZonesInv

\* A session that holds what is committed, or nothing, sees what is committed.
LEMMA SeenCurrent ==
    ASSUME DnsTyped, NEW own, UpToDate(own)
    PROVE  /\ Seen(own, "zones", zones) = zones
           /\ Seen(own, "rules", Rules) = Rules /\ Seen(own, "manual", Manual) = Manual
<1>1. ASSUME NEW t \in {"zones", "rules", "manual"}, NEW k, own.at = <<t, k>>
      PROVE  own.row = IF t = "zones" THEN zones[k] ELSE rows[t][k]
  <2>1. own # NoOwn
    BY <1>1 DEF NoOwn
  <2> QED
    BY <1>1, <2>1 DEF UpToDate, StoredRow
<1>2. /\ zones = [k \in DOMAIN zones |-> zones[k]]
      /\ Rules = [k \in DOMAIN Rules |-> Rules[k]] /\ Manual = [k \in DOMAIN Manual |-> Manual[k]]
  BY DEF DnsTyped, ZonesTyped, RowsOfTables, Table, Rules, Manual, DnsTable
<1>3. Seen(own, "zones", zones) = [k \in DOMAIN zones |-> zones[k]]
  BY <1>1 DEF Seen
<1>4. Seen(own, "rules", Rules) = [k \in DOMAIN Rules |-> Rules[k]]
  BY <1>1 DEF Seen, Rules
<1>5. Seen(own, "manual", Manual) = [k \in DOMAIN Manual |-> Manual[k]]
  BY <1>1 DEF Seen, Manual
<1> QED
  BY <1>2, <1>3, <1>4, <1>5

\* Who was in the middle of a reload before
LEMMA ReloadsStay ==
    ASSUME ReadsFollow, ReloadFollows, UNCHANGED <<zones, rows, resolver, disturbed>>,
           \A r \in DnsSlot : \/ slots'[r] = slots[r]
                              \/ /\ ~Reloading(slots[r])
                                 /\ ~Reloading(slots'[r]) \/ (slots'[r].phase = "zones" /\ slots'[r].own = NoOwn)
    PROVE  ReadsFollow' /\ ReloadFollows'
<1>2. ReadsFollow'
  <2> SUFFICES ASSUME NEW r \in DnsSlot, Reloading(slots[r])', slots'[r].clean
               PROVE  /\ slots'[r].phase = "refresh" => Exists(StoredRow(slots[r].own.at))'
                      /\ slots'[r].phase # "refresh" => UpToDate(slots[r].own)'
                      /\ slots'[r].phase \in {"rules", "write"} => slots'[r].zones = zones'
                      /\ slots'[r].phase = "write" => slots'[r].rules = Rules'
    BY DEF ReadsFollow
  <2>1. CASE slots'[r] = slots[r]
    <3>1. Reloading(slots[r]) /\ slots[r].clean
      BY <2>1 DEF Reloading
    <3> QED
      BY <2>1, <3>1 DEF ReadsFollow, Rules, UpToDate, StoredRow, Exists
  <2>2. CASE slots'[r].phase = "zones" /\ slots'[r].own = NoOwn
    BY <2>2 DEF UpToDate
  <2> QED
    BY <2>1, <2>2 DEF Reloading
<1>3. \A r \in DnsSlot : Reloading(slots[r]) => slots'[r] = slots[r]
  OBVIOUS
<1>4. ReloadFollows'
  BY <1>3 DEF ReloadFollows, Reloading, Manual, Rules
<1> QED
  BY <1>2, <1>4

LEMMA NewSlot ==
    ASSUME NEW kind, NEW c
    PROVE  /\ Slot(kind, c).phase = "commit" /\ Slot(kind, c).clean /\ Slot(kind, c).clean \in BOOLEAN
           /\ Slot(kind, c).kind = kind /\ Slot(kind, c).change = c /\ Slot(kind, c).own = NoOwn
           /\ DOMAIN Slot(kind, c) = SlotFields
           /\ Slot(kind, c) = [f \in SlotFields |-> Slot(kind, c)[f]]
BY DEF Slot, SlotFields

DnsInv == DnsTyped /\ ZonesInv /\ ReadsFollow /\ ReloadFollows

LEMMA RequestBegins ==
    ASSUME DnsInv, NEW s \in DnsSlot, slots[s] = NoSlot, NEW kind, NEW c,
           ChangeTyped(kind, c), Found(kind, c), slots' = [slots EXCEPT ![s] = Slot(kind, c)],
           UNCHANGED <<zones, rows, resolver, proxies, disturbed, raced>>
    PROVE  DnsInv'
<1> DEFINE x == Slot(kind, c)
<1>1. /\ x.phase = "commit" /\ x.clean /\ x.kind = kind /\ x.change = c /\ DnsSlotTyped(x)
  BY NewSlot DEF DnsSlotTyped
<1> HIDE DEF x
<1>2. slots' = [slots EXCEPT ![s] = x]
  BY DEF x
<1>3. /\ slots' = [r \in DnsSlot |-> slots'[r]]
      /\ slots'[s] = x /\ \A r \in DnsSlot \ {s} : slots'[r] = slots[r]
  BY <1>2 DEF DnsInv, DnsTyped, SlotsTyped
<1>4. SlotsTyped'
  <2>1. \A r \in DnsSlot : slots'[r] = NoSlot \/ DnsSlotTyped(slots'[r])
    BY <1>1, <1>3 DEF DnsInv, DnsTyped, SlotsTyped
  <2> QED
    BY <1>3, <2>1 DEF SlotsTyped, DnsSlotTyped, ChangeTyped
<1>5. DnsTyped'
  BY <1>4 DEF DnsInv, DnsTyped, ZonesTyped, RowsOfTables
<1>6. \A r \in DnsSlot : slots'[r].phase = "commit" /\ slots'[r].clean =>
               Found(slots'[r].kind, slots'[r].change)
  BY <1>1, <1>3 DEF DnsInv, ZonesInv, ChecksHold
<1>7. ZonesInv'
  BY <1>6, ZonesStay DEF DnsInv
<1>8. ~Reloading(slots[s]) /\ ~Reloading(x)
  BY <1>1, Nothing DEF Reloading
<1>9. ReadsFollow' /\ ReloadFollows'
  BY <1>3, <1>8, ReloadsStay DEF DnsInv
<1> QED
  BY <1>5, <1>7, <1>9 DEF DnsInv

LEMMA DnsRequestStep ==
    ASSUME DnsInv, DnsRequest PROVE DnsInv'
<1>1. UNCHANGED <<zones, rows, resolver, proxies, disturbed, raced>>
  BY DEF DnsRequest
<1>2. /\ ZonesTyped /\ RowsOfTables /\ \A t \in DnsTable, i \in DnsId : rows[t][i] \in DnsRow(t) \cup {NoDnsRow}
  BY DEF DnsInv, DnsTyped, RowsOfTables, Table
<1>3. CASE AddZone
  <2>1. PICK z \in ZoneKey, newZone \in Zone, names \in SUBSET DnsName, s \in DnsSlot :
            /\ zones[z] = NoZone /\ SlotFree(z, newZone.proto) /\ slots[s] = NoSlot
            /\ slots' = [slots EXCEPT ![s] = Slot("addZone", [zone |-> z, new |-> newZone, names |-> names])]
    BY <1>3 DEF AddZone
  <2> DEFINE c == [zone |-> z, new |-> newZone, names |-> names]
  <2>2. c.zone = z /\ c.new = newZone /\ c.names = names
    OBVIOUS
  <2> HIDE DEF c
  <2>3. ChangeTyped("addZone", c) /\ Found("addZone", c)
    BY <2>1, <2>2 DEF ChangeTyped, Found
  <2> QED
    BY <1>1, <2>1, <2>3, RequestBegins DEF c
<1>4. CASE SetZone
  <2>1. PICK z \in Zones, newZone \in Zone, s \in DnsSlot :
            /\ z \in {"local", "vpn"} => newZone.proto = "plain"
            /\ SlotFree(z, newZone.proto) /\ slots[s] = NoSlot
            /\ slots' = [slots EXCEPT ![s] = Slot("setZone", [zone |-> z, old |-> zones[z], new |-> newZone])]
    BY <1>4 DEF SetZone
  <2> DEFINE c == [zone |-> z, old |-> zones[z], new |-> newZone]
  <2>2. c.zone = z /\ c.old = zones[z] /\ c.new = newZone /\ zones[z] \in Zone /\ z \in Key
    BY <1>2 DEF Zones, ZonesTyped
  <2> HIDE DEF c
  <2>3. ChangeTyped("setZone", c) /\ Found("setZone", c)
    BY <2>1, <2>2 DEF ChangeTyped, Found
  <2> QED
    BY <1>1, <2>1, <2>3, RequestBegins DEF c
<1>5. CASE DropZone
  <2>1. PICK z \in Zones \cap ZoneKey, s \in DnsSlot :
            /\ slots[s] = NoSlot
            /\ slots' = [slots EXCEPT ![s] = Slot("dropZone", [zone |-> z, ids |-> Dropped(z)])]
    BY <1>5 DEF DropZone
  <2> DEFINE c == [zone |-> z, ids |-> Dropped(z)]
  <2>2. c.zone = z /\ c.ids = Dropped(z)
    OBVIOUS
  <2> HIDE DEF c
  <2>3. ChangeTyped("dropZone", c) /\ Found("dropZone", c)
    BY <2>1, <2>2 DEF ChangeTyped, Found
  <2> QED
    BY <1>1, <2>1, <2>3, RequestBegins DEF c
<1>6. CASE AddRows
  <2>1. PICK t \in DnsTable, names \in SUBSET DnsName \ {{}}, z \in Zones \cup {"none"}, on \in BOOLEAN,
            kind \in {"add", "bulk"}, s \in DnsSlot :
            /\ t = "manual" <=> z = "none"
            /\ slots[s] = NoSlot
            /\ slots' = [slots EXCEPT ![s] = Slot(kind, [table |-> t, names |-> names, zone |-> z, on |-> on])]
    BY <1>6 DEF AddRows
  <2> DEFINE c == [table |-> t, names |-> names, zone |-> z, on |-> on]
  <2>2. c.table = t /\ c.names = names /\ c.zone = z /\ c.on = on
    OBVIOUS
  <2> HIDE DEF c
  <2>3. t = "rules" => z \in Zones
    BY <2>1 DEF DnsTable
  <2>4. t # "rules" => z = "none"
    BY <2>1 DEF DnsTable
  <2>5. ChangeTyped(kind, c) /\ Found(kind, c)
    BY <2>1, <2>2, <2>3, <2>4 DEF ChangeTyped, Found, Zones
  <2> QED
    BY <1>1, <2>1, <2>5, RequestBegins DEF c
<1>7. CASE ToggleRow
  <2> DEFINE flipped(r) == [r EXCEPT !.on = ~@]
             set(t, i) == Slot("set", [table |-> t, id |-> i, old |-> rows[t][i], new |-> flipped(rows[t][i])])
  <2>0. PICK t \in DnsTable : \E i \in Live(t) :
            slots' \in {[slots EXCEPT ![s] = set(t, i)] : s \in {s \in DnsSlot : slots[s] = NoSlot}}
    BY <1>7, Zenon DEF ToggleRow
  <2> HIDE DEF set
  <2>1. PICK i \in Live(t), s \in DnsSlot : slots[s] = NoSlot /\ slots' = [slots EXCEPT ![s] = set(t, i)]
    BY <2>0
  <2> DEFINE new == flipped(rows[t][i])
             c == [table |-> t, id |-> i, old |-> rows[t][i], new |-> new]
  <2>2. i \in DnsId /\ rows[t][i] \in DnsRow(t) /\ i \in Live(t)
    BY <1>2, <2>1 DEF Live
  <2>3. new \in DnsRow(t) /\ new.zone = rows[t][i].zone
    BY <2>2 DEF DnsRow
  <2> HIDE DEF new
  <2>4. c.table = t /\ c.id = i /\ c.old = rows[t][i] /\ c.new = new
    OBVIOUS
  <2> HIDE DEF c
  <2>5. ChangeTyped("set", c) /\ Found("set", c)
    BY <2>2, <2>3, <2>4 DEF ChangeTyped, Found
  <2> QED
    BY <1>1, <2>1, <2>5, RequestBegins DEF c, new, set
<1>8. CASE SetRow
  <2> DEFINE set(t, i, new) == Slot("set", [table |-> t, id |-> i, old |-> rows[t][i], new |-> new])
  <2>0. PICK t \in DnsTable : \E i \in Live(t) : \E new \in DnsRow(t) :
            /\ new.zone \in Zones \cup {"none"} \/ new.zone = rows[t][i].zone
            /\ slots' \in {[slots EXCEPT ![s] = set(t, i, new)] : s \in {s \in DnsSlot : slots[s] = NoSlot}}
    BY <1>8, Zenon DEF SetRow
  <2> HIDE DEF set
  <2>1. PICK i \in Live(t), new \in DnsRow(t), s \in DnsSlot :
            /\ new.zone \in Zones \cup {"none"} \/ new.zone = rows[t][i].zone
            /\ slots[s] = NoSlot /\ slots' = [slots EXCEPT ![s] = set(t, i, new)]
    BY <2>0
  <2> DEFINE c == [table |-> t, id |-> i, old |-> rows[t][i], new |-> new]
  <2>2. i \in DnsId /\ rows[t][i] \in DnsRow(t) /\ i \in Live(t)
    BY <1>2, <2>1 DEF Live
  <2>3. t = "rules" => new.zone \in Zones \/ new.zone = rows[t][i].zone
    <3>1. t = "rules" => new.zone \in Key
      BY RowFields DEF ZoneOf
    <3>2. "none" \notin Key
      BY DnsAssumption DEF Key
    <3> QED
      BY <2>1, <3>1, <3>2
  <2>4. c.table = t /\ c.id = i /\ c.old = rows[t][i] /\ c.new = new
    OBVIOUS
  <2> HIDE DEF c
  <2>5. ChangeTyped("set", c) /\ Found("set", c)
    BY <2>2, <2>3, <2>4 DEF ChangeTyped, Found
  <2> QED
    BY <1>1, <2>1, <2>5, RequestBegins DEF c, set
<1>9. CASE DropRow
  <2> DEFINE drop(t, i) == Slot("drop", [table |-> t, id |-> i])
  <2>0. PICK t \in DnsTable : \E i \in Live(t) :
            slots' \in {[slots EXCEPT ![s] = drop(t, i)] : s \in {s \in DnsSlot : slots[s] = NoSlot}}
    BY <1>9, Zenon DEF DropRow
  <2> HIDE DEF drop
  <2>1. PICK i \in Live(t), s \in DnsSlot : slots[s] = NoSlot /\ slots' = [slots EXCEPT ![s] = drop(t, i)]
    BY <2>0
  <2> DEFINE c == [table |-> t, id |-> i]
  <2>2. c.table = t /\ c.id = i /\ i \in DnsId
    BY DEF Live
  <2> HIDE DEF c
  <2>3. ChangeTyped("drop", c) /\ Found("drop", c)
    BY <2>1, <2>2 DEF ChangeTyped, Found
  <2> QED
    BY <1>1, <2>1, <2>3, RequestBegins DEF c, drop
<1>10. CASE ReloadRequest
  <2> DEFINE x == [Slot("reload", NoOwn) EXCEPT !.phase = "zones"]
  <2>1. PICK s \in DnsSlot : slots[s] = NoSlot /\ slots' = [slots EXCEPT ![s] = x]
    BY <1>10 DEF ReloadRequest
  <2>2. ChangeTyped("reload", NoOwn)
    BY DEF ChangeTyped
  <2>3. DnsSlotTyped(x) /\ x.phase = "zones" /\ x.own = NoOwn
    <3> DEFINE y == Slot("reload", NoOwn)
    <3>1. /\ y.clean \in BOOLEAN /\ y.kind = "reload" /\ y.change = NoOwn /\ y.own = NoOwn
          /\ DOMAIN y = SlotFields /\ y = [f \in SlotFields |-> y[f]]
      BY NewSlot
    <3> HIDE DEF y
    <3>2. x = [y EXCEPT !.phase = "zones"]
      BY DEF y
    <3> QED
      BY <2>2, <3>1, <3>2 DEF DnsSlotTyped, SlotFields
  <2> HIDE DEF x
  <2>4. /\ slots' = [r \in DnsSlot |-> slots'[r]]
        /\ slots'[s] = x /\ \A r \in DnsSlot \ {s} : slots'[r] = slots[r]
    BY <2>1 DEF DnsInv, DnsTyped, SlotsTyped
  <2>5. SlotsTyped'
    <3>1. \A r \in DnsSlot : slots'[r] = NoSlot \/ DnsSlotTyped(slots'[r])
      BY <2>3, <2>4 DEF DnsInv, DnsTyped, SlotsTyped
    <3> QED
      BY <2>4, <3>1 DEF SlotsTyped, DnsSlotTyped, ChangeTyped
  <2>6. DnsTyped'
    BY <1>1, <2>5 DEF DnsInv, DnsTyped, ZonesTyped, RowsOfTables
  <2>7. \A r \in DnsSlot : slots'[r].phase = "commit" /\ slots'[r].clean =>
               Found(slots'[r].kind, slots'[r].change)
    BY <2>3, <2>4 DEF DnsInv, ZonesInv, ChecksHold
  <2>8. ZonesInv'
    BY <1>1, <2>7, ZonesStay DEF DnsInv
  <2>9. ~Reloading(slots[s])
    BY <2>1, Nothing DEF Reloading
  <2>10. ReadsFollow' /\ ReloadFollows'
    BY <1>1, <2>3, <2>4, <2>9, ReloadsStay DEF DnsInv
  <2> QED
    BY <2>6, <2>8, <2>10 DEF DnsInv
<1> QED
  BY <1>3, <1>4, <1>5, <1>6, <1>7, <1>8, <1>9, <1>10 DEF DnsRequest

---------------------------------------------------------------------------
(* Commits *)

HasZones(rules, zs) == \A i \in DnsId : rules[i] # NoDnsRow => rules[i].zone \in Key /\ zs[rules[i].zone] # NoZone

OnePerProxy(zs) == \A y, z \in Key :
    zs[y] # NoZone /\ zs[z] # NoZone /\ zs[y].proto = zs[z].proto /\ zs[y].proto \in Proxy => y = z

PlainIn(zs) == \A z \in {"local", "vpn"} : zs[z] # NoZone => zs[z].proto = "plain"

LEMMA RowsReplaced ==
    ASSUME RowsOfTables, NamesDistinct, NEW t \in DnsTable, NEW table \in Table(t), NoNameTwice(table),
           rows' = [rows EXCEPT ![t] = table]
    PROVE  /\ RowsOfTables' /\ NamesDistinct'
           /\ rows'[t] = table /\ \A u \in DnsTable \ {t} : rows'[u] = rows[u]
<1>1. /\ rows' = [u \in DnsTable |-> rows'[u]]
      /\ rows'[t] = table /\ \A u \in DnsTable \ {t} : rows'[u] = rows[u]
  BY DEF RowsOfTables
<1>2. RowsOfTables'
  BY <1>1 DEF RowsOfTables, Table
<1>3. NamesDistinct'
  <2> SUFFICES ASSUME NEW u \in DnsTable, NEW i \in DnsId, NEW j \in DnsId,
                      rows'[u][i] # NoDnsRow, rows'[u][j] # NoDnsRow, rows'[u][i].name = rows'[u][j].name
               PROVE  i = j
    BY DEF NamesDistinct, Live
  <2>1. CASE u = t
    BY <1>1, <2>1 DEF NoNameTwice
  <2>2. CASE u # t
    BY <1>1, <2>2 DEF NamesDistinct, Live
  <2> QED
    BY <2>1, <2>2
<1> QED
  BY <1>1, <1>2, <1>3

\* One zone at a time: what keeps the protocols of the zones apart
LEMMA ZoneReplaced ==
    ASSUME ZonesTyped, PlainIn(zones), NEW z \in Key, NEW newZone \in Zone \cup {NoZone},
           zones' = [zones EXCEPT ![z] = newZone],
           newZone # NoZone /\ z \in {"local", "vpn"} => newZone.proto = "plain"
    PROVE  /\ ZonesTyped' /\ PlainIn(zones')
           /\ zones'[z] = newZone /\ \A y \in Key \ {z} : zones'[y] = zones[y]
           /\ OnePerProxy(zones) /\ (newZone # NoZone => SlotFree(z, newZone.proto)) => OnePerProxy(zones')
<1>1. /\ ZonesTyped'
      /\ zones'[z] = newZone /\ \A y \in Key \ {z} : zones'[y] = zones[y]
  BY DEF ZonesTyped
<1>2. {"local", "vpn"} \subseteq Key
  BY DEF Key
<1>3. PlainIn(zones')
  BY <1>1, <1>2 DEF PlainIn
<1>4. ASSUME OnePerProxy(zones), newZone # NoZone => SlotFree(z, newZone.proto)
      PROVE  OnePerProxy(zones')
  <2> SUFFICES ASSUME NEW x \in Key, NEW y \in Key, zones'[x] # NoZone, zones'[y] # NoZone,
                      zones'[x].proto = zones'[y].proto, zones'[x].proto \in Proxy, x # y
               PROVE  FALSE
    BY DEF OnePerProxy
  <2>1. "plain" \notin Proxy
    BY DnsAssumption
  <2>2. x \in ZoneKey /\ y \in ZoneKey
    BY <1>3, <2>1 DEF PlainIn, Key
  <2>3. CASE x # z /\ y # z
    BY <1>1, <1>4, <2>3 DEF OnePerProxy
  <2>4. CASE x = z
    BY <1>1, <1>4, <2>2, <2>4 DEF SlotFree
  <2>5. CASE y = z
    BY <1>1, <1>4, <2>2, <2>5 DEF SlotFree
  <2> QED
    BY <2>3, <2>4, <2>5
<1> QED
  BY <1>1, <1>3, <1>4

DatabaseSound == ZonesTyped /\ RowsOfTables /\ PlainBuiltIn /\ NamesDistinct

\* What a commit does to the database
LEMMA EffectKeeps ==
    ASSUME DatabaseSound, NEW kind, NEW c, ChangeTyped(kind, c), Possible(kind, c), Effect(kind, c)
    PROVE  DatabaseSound' /\ (Consistent /\ Found(kind, c) => Consistent')
<1>1. ZonesTyped /\ RowsOfTables /\ NamesDistinct /\ PlainIn(zones)
  BY DEF DatabaseSound, PlainBuiltIn, PlainIn
<1>2. \A t \in DnsTable : rows[t] \in Table(t) /\ NoNameTwice(rows[t])
  BY <1>1 DEF RowsOfTables, NamesDistinct, Live, NoNameTwice
<1>3. Consistent <=> HasZones(Rules, zones) /\ OnePerProxy(zones)
  <2>1. \A i \in DnsId : Rules[i] # NoDnsRow => Rules[i].zone \in Key
    <3>1. Rules \in Table("rules") /\ \A r \in DnsRow("rules") : r.zone \in Key
      BY <1>2, RowFields DEF Rules, DnsTable, ZoneOf
    <3> QED
      BY <3>1 DEF Table
  <2> QED
    BY <2>1 DEF Consistent, Live, Zones, HasZones, OnePerProxy, Rules
<1>4. PlainIn(zones') => PlainBuiltIn'
  BY DEF PlainIn, PlainBuiltIn
<1>5. HasZones(rows'["rules"], zones') /\ OnePerProxy(zones') => Consistent'
  BY DEF HasZones, OnePerProxy, Consistent, Live, Rules, Zones
<1>6. "rules" \in DnsTable /\ ZoneOf("rules") = Key /\ ZoneKey \subseteq Key /\ rows["rules"] = Rules
  BY DEF DnsTable, ZoneOf, Key, Rules
<1> SUFFICES /\ ZonesTyped' /\ RowsOfTables' /\ NamesDistinct' /\ PlainIn(zones')
             /\ HasZones(Rules, zones) /\ OnePerProxy(zones) /\ Found(kind, c) =>
                    HasZones(rows'["rules"], zones') /\ OnePerProxy(zones')
  BY <1>3, <1>4, <1>5 DEF DatabaseSound
<1>7. CASE kind = "addZone"
  <2>1. /\ c.zone \in ZoneKey /\ c.new \in Zone /\ c.names \in SUBSET DnsName
        /\ zones[c.zone] = NoZone /\ ~Taken(Rules, c.names)
    BY <1>7 DEF ChangeTyped, Possible
  <2>2. zones' = [zones EXCEPT ![c.zone] = c.new]
    BY <1>7 DEF Effect
  <2>3a. PICK on \in BOOLEAN : on = TRUE
    OBVIOUS
  <2>3. PICK rs \in Inserted(Rules, c.names, c.zone, on) : rows' = [rows EXCEPT !["rules"] = rs]
    BY <1>7, <2>3a DEF Effect
  <2>4. /\ rs \in Table("rules") /\ NoNameTwice(rs)
        /\ \A i \in DnsId : rs[i] # NoDnsRow => rs[i] = Rules[i] \/ rs[i].zone = c.zone
    <3>1. Rules \in Table("rules") /\ NoNameTwice(Rules) /\ c.zone \in ZoneOf("rules")
      BY <1>2, <1>6, <2>1
    <3> QED
      BY <1>6, <2>1, <2>3, <3>1, InsertedRows
  <2>5. RowsOfTables' /\ NamesDistinct' /\ rows'["rules"] = rs
    BY <1>1, <1>6, <2>3, <2>4, RowsReplaced
  <2>6. c.zone \notin {"local", "vpn"} /\ c.zone \in Key /\ c.new # NoZone
    BY <1>6, <2>1, DnsAssumption, Nothing
  <2>7. /\ ZonesTyped' /\ PlainIn(zones') /\ zones'[c.zone] = c.new /\ \A y \in Key \ {c.zone} : zones'[y] = zones[y]
        /\ OnePerProxy(zones) /\ SlotFree(c.zone, c.new.proto) => OnePerProxy(zones')
    BY <1>1, <2>1, <2>2, <2>6, ZoneReplaced
  <2>8. Found(kind, c) => SlotFree(c.zone, c.new.proto)
    BY <1>7 DEF Found
  <2>9. HasZones(Rules, zones) => HasZones(rs, zones')
    BY <2>4, <2>6, <2>7 DEF HasZones
  <2> QED
    BY <2>5, <2>7, <2>8, <2>9
<1>8. CASE kind = "setZone"
  <2>1. /\ c.zone \in Key /\ c.old \in Zone /\ c.new \in Zone
        /\ c.zone \in {"local", "vpn"} => c.new.proto = "plain"
        /\ zones[c.zone] # NoZone
    BY <1>8 DEF ChangeTyped, Possible
  <2> DEFINE now == zones[c.zone]
             newZone == Updated(now, c.old, c.new)
  <2>2. now \in Zone
    BY <1>1, <2>1 DEF ZonesTyped
  <2>3. zones' = [zones EXCEPT ![c.zone] = newZone] /\ rows' = rows
    BY <1>8 DEF Effect
  <2>4. newZone \in Zone /\ (now = c.old => newZone = c.new) /\ (newZone.proto = now.proto \/ newZone.proto = c.new.proto)
    BY <2>1, <2>2, UpdatedZone
  <2> HIDE DEF newZone
  <2>5. newZone # NoZone
    BY <2>4, Nothing
  <2>6. c.zone \in {"local", "vpn"} => newZone.proto = "plain"
    BY <1>1, <2>1, <2>4 DEF PlainIn
  <2>7. /\ ZonesTyped' /\ PlainIn(zones') /\ zones'[c.zone] = newZone /\ \A y \in Key \ {c.zone} : zones'[y] = zones[y]
        /\ OnePerProxy(zones) /\ SlotFree(c.zone, newZone.proto) => OnePerProxy(zones')
    BY <1>1, <2>1, <2>3, <2>4, <2>6, ZoneReplaced
  <2>8. Found(kind, c) => SlotFree(c.zone, newZone.proto)
    BY <1>8, <2>4 DEF Found
  <2>9. RowsOfTables' /\ NamesDistinct' /\ rows'["rules"] = Rules
    BY <1>1, <2>3 DEF RowsOfTables, NamesDistinct, Live, Rules, Table
  <2>10. HasZones(Rules, zones) => HasZones(Rules, zones')
    BY <2>5, <2>7 DEF HasZones
  <2> QED
    BY <2>7, <2>8, <2>9, <2>10
<1>9. CASE kind = "dropZone"
  <2> DEFINE rs == [i \in DnsId |-> IF i \in c.ids THEN NoDnsRow ELSE Rules[i]]
  <2>1. c.zone \in ZoneKey /\ (Found(kind, c) => c.ids = Dropped(c.zone))
    BY <1>9 DEF ChangeTyped, Found
  <2>2. zones' = [zones EXCEPT ![c.zone] = NoZone] /\ rows' = [rows EXCEPT !["rules"] = rs]
    BY <1>9, <1>6 DEF Effect
  <2>3. \A i \in DnsId : rs[i] = NoDnsRow \/ (i \notin c.ids /\ rs[i] = Rules[i])
    OBVIOUS
  <2>4. rs \in Table("rules")
    BY <1>2, <1>6 DEF Table
  <2> HIDE DEF rs
  <2>5. NoNameTwice(rs)
    BY <1>2, <1>6, <2>3 DEF NoNameTwice
  <2>6. RowsOfTables' /\ NamesDistinct' /\ rows'["rules"] = rs
    BY <1>1, <1>6, <2>2, <2>4, <2>5, RowsReplaced
  <2>7. /\ ZonesTyped' /\ PlainIn(zones') /\ \A y \in Key \ {c.zone} : zones'[y] = zones[y]
        /\ OnePerProxy(zones) => OnePerProxy(zones')
    BY <1>1, <1>6, <2>1, <2>2, ZoneReplaced
  <2>8. ASSUME HasZones(Rules, zones), Found(kind, c), NEW i \in DnsId, rs[i] # NoDnsRow
        PROVE  rs[i].zone \in Key /\ zones'[rs[i].zone] # NoZone
    <3>1. i \notin Dropped(c.zone) /\ rs[i] = Rules[i]
      BY <2>1, <2>3, <2>8
    <3>2. Rules[i].zone # c.zone
      BY <2>8, <3>1 DEF Dropped, Live, Rules
    <3> QED
      BY <2>7, <2>8, <3>1, <3>2 DEF HasZones
  <2> QED
    BY <2>6, <2>7, <2>8 DEF HasZones
<1>10. ASSUME kind \in {"add", "bulk", "set", "drop"}, c.table \in DnsTable, zones' = zones,
              NEW table \in Table(c.table), NoNameTwice(table), rows' = [rows EXCEPT ![c.table] = table],
              c.table = "rules" /\ HasZones(Rules, zones) /\ Found(kind, c) => HasZones(table, zones)
       PROVE  /\ ZonesTyped' /\ RowsOfTables' /\ NamesDistinct' /\ PlainIn(zones')
              /\ HasZones(Rules, zones) /\ OnePerProxy(zones) /\ Found(kind, c) =>
                    HasZones(rows'["rules"], zones') /\ OnePerProxy(zones')
  <2>1. /\ RowsOfTables' /\ NamesDistinct'
        /\ rows'[c.table] = table /\ \A u \in DnsTable \ {c.table} : rows'[u] = rows[u]
    BY <1>1, <1>10, RowsReplaced
  <2>2. ZonesTyped' /\ PlainIn(zones') /\ (OnePerProxy(zones) => OnePerProxy(zones'))
    BY <1>1, <1>10 DEF ZonesTyped
  <2>3. HasZones(Rules, zones) /\ Found(kind, c) => HasZones(rows'["rules"], zones')
    <3>1. CASE c.table = "rules"
      BY <1>10, <2>1, <3>1
    <3>2. CASE c.table # "rules"
      BY <1>6, <1>10, <2>1, <3>2
    <3> QED
      BY <3>1, <3>2
  <2> QED
    BY <2>1, <2>2, <2>3
<1>11. CASE kind \in {"add", "bulk"}
  <2>1. /\ c.table \in DnsTable /\ c.names \in SUBSET DnsName /\ c.on \in BOOLEAN /\ c.zone \in ZoneOf(c.table)
        /\ ~Taken(rows[c.table], c.names)
    BY <1>11 DEF ChangeTyped, Possible, ZoneOf
  <2>2. zones' = zones
    BY <1>11 DEF Effect
  <2>3. PICK rs \in Inserted(rows[c.table], c.names, c.zone, c.on) : rows' = [rows EXCEPT ![c.table] = rs]
    BY <1>11 DEF Effect
  <2>4. /\ rs \in Table(c.table) /\ NoNameTwice(rs)
        /\ \A i \in DnsId : rs[i] # NoDnsRow => rs[i] = rows[c.table][i] \/ rs[i].zone = c.zone
    BY <1>2, <2>1, <2>3, InsertedRows
  <2>5. c.table = "rules" /\ Found(kind, c) => c.zone \in Key /\ zones[c.zone] # NoZone
    BY <1>11 DEF Found, Zones
  <2>6. c.table = "rules" /\ HasZones(Rules, zones) /\ Found(kind, c) => HasZones(rs, zones)
    BY <2>4, <2>5 DEF HasZones, Rules
  <2> QED
    BY <1>10, <1>11, <2>1, <2>2, <2>3, <2>4, <2>6
<1>12. CASE kind = "set"
  <2> DEFINE now == rows[c.table][c.id]
             new == Updated(now, c.old, c.new)
             table == [rows[c.table] EXCEPT ![c.id] = new]
  <2>1. /\ c.table \in DnsTable /\ c.id \in DnsId /\ c.old \in DnsRow(c.table) /\ c.new \in DnsRow(c.table)
        /\ now # NoDnsRow /\ \A i \in Live(c.table) \ {c.id} : rows[c.table][i].name # new.name
    BY <1>12 DEF ChangeTyped, Possible
  <2>2. rows[c.table] \in Table(c.table) /\ NoNameTwice(rows[c.table])
    BY <1>2, <2>1
  <2>3. now \in DnsRow(c.table)
    BY <2>1, <2>2 DEF Table
  <2>4. new \in DnsRow(c.table) /\ (now = c.old => new = c.new) /\ (new.zone = now.zone \/ new.zone = c.new.zone)
    BY <2>1, <2>3, UpdatedRow
  <2>5. zones' = zones /\ rows' = [rows EXCEPT ![c.table] = table]
    BY <1>12 DEF Effect
  <2> HIDE DEF new
  <2>6. table \in Table(c.table) /\ table[c.id] = new /\ \A i \in DnsId \ {c.id} : table[i] = rows[c.table][i]
    BY <2>1, <2>2, <2>4 DEF Table
  <2> HIDE DEF table
  <2>7. NoNameTwice(table)
    <3> SUFFICES ASSUME NEW i \in DnsId, NEW j \in DnsId, i # j, table[i] # NoDnsRow, table[j] # NoDnsRow,
                        table[i].name = table[j].name
                 PROVE  FALSE
      BY DEF NoNameTwice
    <3>1. CASE i = c.id
      BY <2>1, <2>6, <3>1 DEF Live
    <3>2. CASE j = c.id
      BY <2>1, <2>6, <3>2 DEF Live
    <3>3. CASE i # c.id /\ j # c.id
      BY <2>2, <2>6, <3>3 DEF NoNameTwice
    <3> QED
      BY <3>1, <3>2, <3>3
  <2>8. ASSUME c.table = "rules", HasZones(Rules, zones), Found(kind, c)
        PROVE  HasZones(table, zones)
    <3>1. now = c.old /\ (c.new.zone \in Zones \/ c.new.zone = now.zone)
      BY <1>12, <2>8 DEF Found
    <3>2. now.zone \in Key /\ zones[now.zone] # NoZone
      BY <2>1, <2>8 DEF HasZones, Rules
    <3>3. new.zone \in Key /\ zones[new.zone] # NoZone
      BY <2>4, <3>1, <3>2 DEF Zones
    <3> QED
      BY <2>6, <2>8, <3>3 DEF HasZones, Rules
  <2> QED
    BY <1>10, <1>12, <2>1, <2>5, <2>6, <2>7, <2>8
<1>13. CASE kind = "drop"
  <2> DEFINE table == [rows[c.table] EXCEPT ![c.id] = NoDnsRow]
  <2>1. c.table \in DnsTable /\ c.id \in DnsId
    BY <1>13 DEF ChangeTyped
  <2>2. rows[c.table] \in Table(c.table) /\ NoNameTwice(rows[c.table])
    BY <1>2, <2>1
  <2>3. zones' = zones /\ rows' = [rows EXCEPT ![c.table] = table]
    BY <1>13 DEF Effect
  <2>4. table \in Table(c.table) /\ table[c.id] = NoDnsRow /\ \A i \in DnsId \ {c.id} : table[i] = rows[c.table][i]
    BY <2>1, <2>2 DEF Table
  <2> HIDE DEF table
  <2>5. NoNameTwice(table)
    BY <2>2, <2>4 DEF NoNameTwice
  <2>6. c.table = "rules" /\ HasZones(Rules, zones) => HasZones(table, zones)
    BY <2>4 DEF HasZones, Rules
  <2> QED
    BY <1>10, <1>13, <2>1, <2>3, <2>4, <2>5, <2>6
<1> QED
  BY <1>7, <1>8, <1>9, <1>11, <1>12, <1>13 DEF Effect

\* A handler holds the object that it has changed as it is committed.
LEMMA HeldCurrent ==
    ASSUME DatabaseSound, DatabaseSound', NEW kind, NEW c, ChangeTyped(kind, c), Possible(kind, c), Effect(kind, c),
           NEW own \in Held(kind, c, zones', rows')
    PROVE  /\ own = NoOwn \/ own.row = StoredRow(own.at)'
           /\ Refreshed(kind) => StoredRow(own.at)' \notin {NoZone, NoDnsRow}
<1>1. \A z \in Zone : z \notin {NoZone, NoDnsRow}
  <2>1. \A z \in Zone : DOMAIN z = {"proto", "server"}
    BY ZoneFields
  <2>2. DOMAIN NoZone = {"proto"} /\ DOMAIN NoDnsRow = {"name"}
    BY DEF NoZone, NoDnsRow
  <2> QED
    BY <2>1, <2>2
<1>2. \A t \in DnsTable : \A r \in DnsRow(t) : r \notin {NoZone, NoDnsRow}
  <2>1. \A t \in DnsTable : \A r \in DnsRow(t) : DOMAIN r = {"name", "zone", "on"}
    BY RowFields
  <2>2. DOMAIN NoZone = {"proto"} /\ DOMAIN NoDnsRow = {"name"}
    BY DEF NoZone, NoDnsRow
  <2> QED
    BY <2>1, <2>2
<1>3. CASE kind \in {"addZone", "setZone"}
  <2>1. own = [at |-> <<"zones", c.zone>>, row |-> zones'[c.zone]]
    BY <1>3 DEF Held
  <2>2. c.zone \in Key /\ c.new \in Zone /\ (kind = "setZone" => c.old \in Zone /\ zones[c.zone] \in Zone)
    BY <1>3 DEF ChangeTyped, Possible, DatabaseSound, ZonesTyped, Key
  <2>3. zones'[c.zone] \in Zone
    <3>1. CASE kind = "addZone"
      <4>1. zones' = [zones EXCEPT ![c.zone] = c.new]
        BY <3>1 DEF Effect
      <4> QED
        BY <2>2, <4>1 DEF DatabaseSound, ZonesTyped
    <3>2. CASE kind = "setZone"
      <4> DEFINE new == Updated(zones[c.zone], c.old, c.new)
      <4>1. zones' = [zones EXCEPT ![c.zone] = new]
        BY <3>2 DEF Effect
      <4>2. new \in Zone
        BY <2>2, <3>2, UpdatedZone
      <4> HIDE DEF new
      <4> QED
        BY <2>2, <4>1, <4>2 DEF DatabaseSound, ZonesTyped
    <3> QED
      BY <1>3, <3>1, <3>2
  <2> QED
    BY <1>1, <2>1, <2>3 DEF StoredRow
<1>4. CASE kind = "set"
  <2> DEFINE now == rows[c.table][c.id]
             new == Updated(now, c.old, c.new)
  <2>1. own = [at |-> <<c.table, c.id>>, row |-> rows'[c.table][c.id]]
    BY <1>4 DEF Held
  <2>2. /\ c.table \in DnsTable /\ c.id \in DnsId /\ c.old \in DnsRow(c.table) /\ c.new \in DnsRow(c.table)
        /\ now # NoDnsRow /\ c.table # "zones"
    BY <1>4 DEF ChangeTyped, Possible, DnsTable
  <2>3. rows[c.table] \in [DnsId -> DnsRow(c.table) \cup {NoDnsRow}] /\ rows = [t \in DnsTable |-> rows[t]]
    BY <2>2 DEF DatabaseSound, RowsOfTables, Table
  <2>4. new \in DnsRow(c.table)
    BY <2>2, <2>3, UpdatedRow
  <2>5. rows' = [rows EXCEPT ![c.table][c.id] = new]
    BY <1>4 DEF Effect
  <2> HIDE DEF new
  <2>6. rows'[c.table][c.id] = new
    BY <2>2, <2>3, <2>5
  <2> QED
    BY <1>2, <2>1, <2>2, <2>4, <2>6 DEF StoredRow
<1>5. CASE kind \in {"add", "bulk"}
  <2>1. PICK i \in Last(rows'[c.table]) : own = [at |-> <<c.table, i>>, row |-> rows'[c.table][i]]
    BY <1>5 DEF Held
  <2>2. c.table \in DnsTable /\ c.table # "zones"
    BY <1>5 DEF ChangeTyped, DnsTable
  <2>3. rows'[c.table] \in [DnsId -> DnsRow(c.table) \cup {NoDnsRow}]
    BY <2>2 DEF DatabaseSound, RowsOfTables, Table
  <2>4. rows'[c.table][i] \in DnsRow(c.table)
    BY <2>1, <2>3 DEF Last
  <2> QED
    BY <1>2, <2>1, <2>2, <2>4 DEF StoredRow
<1>6. CASE kind \notin {"addZone", "setZone", "set", "add", "bulk"}
  BY <1>6 DEF Held, Refreshed
<1> QED
  BY <1>3, <1>4, <1>5, <1>6

LEMMA DnsCommitStep ==
    ASSUME DnsInv, NEW s \in DnsSlot, Commit(s) PROVE DnsInv'
<1>1. slots[s].phase = "commit" /\ slots[s] # NoSlot /\ DnsSlotTyped(slots[s])
  BY Nothing DEF Commit, DnsInv, DnsTyped, SlotsTyped
<1> DEFINE next == IF Refreshed(slots[s].kind) THEN "refresh" ELSE "zones"
<1>2a. PICK own \in Held(slots[s].kind, slots[s].change, zones', rows') :
          slots' = [r \in DnsSlot |->
                    IF r = s THEN [slots[s] EXCEPT !.phase = next, !.clean = TRUE, !.own = own]
                    ELSE IF slots[r] = NoSlot THEN NoSlot ELSE [slots[r] EXCEPT !.clean = FALSE]]
  BY DEF Commit
<1>2b. next \in {"refresh", "zones"} /\ (next = "refresh" <=> Refreshed(slots[s].kind))
  OBVIOUS
<1> HIDE DEF next
<1>2. /\ slots' = [r \in DnsSlot |-> slots'[r]]
      /\ slots'[s] = [slots[s] EXCEPT !.phase = next, !.clean = TRUE, !.own = own]
      /\ \A r \in DnsSlot \ {s} : slots'[r] = IF slots[r] = NoSlot THEN NoSlot ELSE [slots[r] EXCEPT !.clean = FALSE]
  BY <1>2a
<1>3. DnsSlotTyped(slots'[s]) /\ slots'[s].phase = next /\ slots'[s].own = own /\ slots'[s].clean
  <2> DEFINE x == slots[s]
             y == [x EXCEPT !.phase = next, !.clean = TRUE, !.own = own]
  <2>1. y = [f \in SlotFields |-> y[f]] /\ DOMAIN y = SlotFields
    BY <1>1 DEF DnsSlotTyped, SlotFields
  <2>2. y.phase = next /\ y.clean = TRUE /\ y.own = own /\ y.kind = x.kind /\ y.change = x.change
    BY <1>1 DEF DnsSlotTyped, SlotFields
  <2> HIDE DEF y
  <2>3. DnsSlotTyped(y)
    BY <1>1, <1>2b, <2>1, <2>2 DEF DnsSlotTyped
  <2> QED
    BY <1>2, <2>2, <2>3 DEF y
<1>4. ASSUME NEW r \in DnsSlot \ {s}
      PROVE  slots'[r] = NoSlot \/ (DnsSlotTyped(slots'[r]) /\ slots'[r].clean = FALSE)
  <2>1. CASE slots[r] = NoSlot
    BY <1>2, <2>1
  <2>2. CASE slots[r] # NoSlot
    <3> DEFINE x == slots[r]
               y == [x EXCEPT !.clean = FALSE]
    <3>1. DnsSlotTyped(x)
      BY <2>2 DEF DnsInv, DnsTyped, SlotsTyped
    <3>2. y = [f \in SlotFields |-> y[f]] /\ DOMAIN y = SlotFields
      BY <3>1 DEF DnsSlotTyped, SlotFields
    <3>3. y.clean = FALSE /\ y.phase = x.phase /\ y.kind = x.kind /\ y.change = x.change
      BY <3>1 DEF DnsSlotTyped, SlotFields
    <3> HIDE DEF y
    <3>4. DnsSlotTyped(y) /\ y.clean = FALSE
      BY <3>1, <3>2, <3>3 DEF DnsSlotTyped
    <3> QED
      BY <1>2, <2>2, <3>4 DEF y
  <2> QED
    BY <2>1, <2>2
<1>5. SlotsTyped'
  <2>1. \A r \in DnsSlot : slots'[r] = NoSlot \/ DnsSlotTyped(slots'[r])
    BY <1>3, <1>4
  <2> QED
    BY <1>2, <2>1 DEF SlotsTyped, DnsSlotTyped, ChangeTyped
<1>6. PICK kind, c : kind = slots[s].kind /\ c = slots[s].change
  OBVIOUS
<1>7. ChangeTyped(kind, c) /\ Possible(kind, c) /\ Effect(kind, c)
  BY <1>1, <1>6 DEF Commit, DnsSlotTyped
<1>8. DatabaseSound
  BY DEF DnsInv, DnsTyped, ZonesInv, DatabaseSound
<1>9. DatabaseSound' /\ (Consistent /\ Found(kind, c) => Consistent')
  BY <1>7, <1>8, EffectKeeps
<1>10. ~raced' => Consistent'
  <2>1. ~raced' => ~raced /\ slots[s].clean
    BY DEF Commit
  <2>2. slots[s].clean => Found(kind, c)
    BY <1>1, <1>6 DEF DnsInv, ZonesInv, ChecksHold
  <2> QED
    BY <1>9, <2>1, <2>2 DEF DnsInv, ZonesInv
<1>11. ChecksHold'
  BY <1>2b, <1>3, <1>4, Nothing DEF ChecksHold
<1>12. /\ own = NoOwn \/ own.row = StoredRow(own.at)'
       /\ Refreshed(kind) => StoredRow(own.at)' \notin {NoZone, NoDnsRow}
  BY <1>6, <1>7, <1>8, <1>9, HeldCurrent
<1>13. ReadsFollow'
  <2> SUFFICES ASSUME NEW r \in DnsSlot, Reloading(slots[r])', slots'[r].clean
               PROVE  /\ slots'[r].phase = "refresh" => Exists(StoredRow(slots[r].own.at))'
                      /\ slots'[r].phase # "refresh" => UpToDate(slots[r].own)'
                      /\ slots'[r].phase \in {"rules", "write"} => slots'[r].zones = zones'
                      /\ slots'[r].phase = "write" => slots'[r].rules = Rules'
    BY DEF ReadsFollow
  <2>1. r = s
    BY <1>4, Nothing DEF Reloading
  <2> QED
    BY <1>2b, <1>3, <1>6, <1>12, <2>1 DEF Exists, UpToDate, StoredRow
<1>14. ReloadFollows'
  BY <1>2b, <1>3 DEF ReloadFollows, Reloading
<1>15. raced' \in BOOLEAN
  BY DEF Commit
<1>16. proxies' \in [Proxy -> {"off", "ours", "orphan"}] /\ disturbed' \in BOOLEAN
  BY DEF Commit, DnsInv, DnsTyped
<1> QED
  BY <1>5, <1>9, <1>10, <1>11, <1>13, <1>14, <1>15, <1>16 DEF DnsInv, DnsTyped, ZonesInv, DatabaseSound

---------------------------------------------------------------------------
(* Reloads *)

LEMMA ProxiesTyped ==
    ASSUME NEW zs, NEW before \in [Proxy -> {"off", "ours", "orphan"}]
    PROVE  /\ Synced(zs, before) \in [Proxy -> {"off", "ours", "orphan"}]
           /\ \A p : SyncEnds(zs, before, p) \in [Proxy -> {"off", "ours", "orphan"}]
           /\ \A found : StoppedWith(found, before) \in [Proxy -> {"off", "ours", "orphan"}]
<1>1. Synced(zs, before) \in [Proxy -> {"off", "ours", "orphan"}]
  BY DEF Synced
<1>2. ASSUME NEW p PROVE SyncEnds(zs, before, p) \in [Proxy -> {"off", "ours", "orphan"}]
  BY <1>1 DEF SyncEnds
<1>3. ASSUME NEW found PROVE StoppedWith(found, before) \in [Proxy -> {"off", "ours", "orphan"}]
  BY DEF StoppedWith
<1> QED
  BY <1>1, <1>2, <1>3

\* A handler goes on, or ends, without a commit.
LEMMA SlotSet ==
    ASSUME DnsInv, NEW s \in DnsSlot, NEW x, x = NoSlot \/ DnsSlotTyped(x), x.phase # "commit",
           slots' = [slots EXCEPT ![s] = x], UNCHANGED <<zones, rows, raced>>
    PROVE  /\ SlotsTyped' /\ ZonesTyped' /\ RowsOfTables' /\ raced' \in BOOLEAN /\ ZonesInv'
           /\ slots'[s] = x /\ \A r \in DnsSlot \ {s} : slots'[r] = slots[r]
<1>1. /\ slots' = [r \in DnsSlot |-> slots'[r]]
      /\ slots'[s] = x /\ \A r \in DnsSlot \ {s} : slots'[r] = slots[r]
  BY DEF DnsInv, DnsTyped, SlotsTyped
<1>2. SlotsTyped'
  <2>1. \A r \in DnsSlot : slots'[r] = NoSlot \/ DnsSlotTyped(slots'[r])
    BY <1>1 DEF DnsInv, DnsTyped, SlotsTyped
  <2> QED
    BY <1>1, <2>1 DEF SlotsTyped, DnsSlotTyped, ChangeTyped
<1>3. \A r \in DnsSlot : slots'[r].phase = "commit" /\ slots'[r].clean =>
               Found(slots'[r].kind, slots'[r].change)
  BY <1>1 DEF DnsInv, ZonesInv, ChecksHold
<1>4. ZonesInv'
  BY <1>3, ZonesStay DEF DnsInv
<1>5. ZonesTyped' /\ RowsOfTables' /\ raced' \in BOOLEAN
  BY DEF DnsInv, DnsTyped, ZonesTyped, RowsOfTables
<1> QED
  BY <1>1, <1>2, <1>4, <1>5

LEMMA IdleSlot ==
    NoSlot.phase \notin {"commit", "refresh", "zones", "rules", "write"} /\ ~Reloading(NoSlot)
BY Nothing DEF Reloading

\* A reload goes on: what it has read now is what is committed, unless it is unclean.
LEMMA ReloadGoesOn ==
    ASSUME DnsInv, NEW s \in DnsSlot, Reloading(slots[s]), NEW x, DnsSlotTyped(x), Reloading(x),
           slots' = [slots EXCEPT ![s] = x], UNCHANGED <<zones, rows, resolver, disturbed, raced>>,
           proxies' \in [Proxy -> {"off", "ours", "orphan"}],
           slots[s].clean => x.clean,
           x.clean => /\ x.phase # "refresh" /\ UpToDate(x.own)
                      /\ x.phase \in {"rules", "write"} => x.zones = zones
                      /\ x.phase = "write" => x.rules = Rules
    PROVE  DnsInv'
<1>1. x.phase # "commit"
  BY DEF Reloading
<1>2. /\ SlotsTyped' /\ ZonesTyped' /\ RowsOfTables' /\ raced' \in BOOLEAN /\ ZonesInv'
      /\ slots'[s] = x /\ \A r \in DnsSlot \ {s} : slots'[r] = slots[r]
  BY <1>1, SlotSet
<1>3. ReadsFollow'
  <2> SUFFICES ASSUME NEW r \in DnsSlot, Reloading(slots[r])', slots'[r].clean
               PROVE  /\ slots'[r].phase = "refresh" => Exists(StoredRow(slots[r].own.at))'
                      /\ slots'[r].phase # "refresh" => UpToDate(slots[r].own)'
                      /\ slots'[r].phase \in {"rules", "write"} => slots'[r].zones = zones'
                      /\ slots'[r].phase = "write" => slots'[r].rules = Rules'
    BY DEF ReadsFollow
  <2>1. CASE r = s
    BY <1>2, <2>1 DEF UpToDate, StoredRow, Rules
  <2>2. CASE r # s
    <3>1. slots'[r] = slots[r] /\ Reloading(slots[r]) /\ slots[r].clean
      BY <1>2, <2>2 DEF Reloading
    <3> QED
      BY <3>1 DEF DnsInv, ReadsFollow, Rules, UpToDate, StoredRow, Exists
  <2> QED
    BY <2>1, <2>2
<1>4. \A r \in DnsSlot : Reloading(slots[r]) /\ slots[r].clean => Reloading(slots'[r]) /\ slots'[r].clean
  BY <1>2
<1>5. ReloadFollows'
  BY <1>4 DEF DnsInv, ReloadFollows, Reloading, Rules, Manual
<1>6. disturbed' \in BOOLEAN
  BY DEF DnsInv, DnsTyped
<1> QED
  BY <1>2, <1>3, <1>5, <1>6 DEF DnsInv, DnsTyped

LEMMA RefreshStep ==
    ASSUME DnsInv, NEW s \in DnsSlot, Refresh(s) PROVE DnsInv'
<1> DEFINE old == slots[s]
           own == [at |-> old.own.at, row |-> StoredRow(old.own.at)]
           x == [old EXCEPT !.phase = "zones", !.clean = TRUE, !.own = own]
<1>1. /\ old.phase = "refresh" /\ UNCHANGED <<zones, rows, resolver, proxies, disturbed, raced>>
  BY DEF Refresh
<1>2. DnsSlotTyped(old)
  BY <1>1, IdleSlot DEF DnsInv, DnsTyped, SlotsTyped
<1>3. slots' = [slots EXCEPT ![s] = x]
  BY <1>2 DEF Refresh, DnsInv, DnsTyped, SlotsTyped, DnsSlotTyped, SlotFields
<1>4. UpToDate(own)
  BY DEF UpToDate
<1> HIDE DEF own
<1>5. x = [f \in SlotFields |-> x[f]] /\ DOMAIN x = SlotFields
  BY <1>2 DEF DnsSlotTyped, SlotFields
<1>6. x.phase = "zones" /\ x.clean = TRUE /\ x.own = own /\ x.kind = old.kind /\ x.change = old.change
  BY <1>2 DEF DnsSlotTyped, SlotFields
<1> HIDE DEF x
<1>7. DnsSlotTyped(x) /\ Reloading(x) /\ Reloading(old)
  BY <1>1, <1>2, <1>5, <1>6 DEF DnsSlotTyped, Reloading
<1>8. proxies' \in [Proxy -> {"off", "ours", "orphan"}]
  BY <1>1 DEF DnsInv, DnsTyped
<1> QED
  BY <1>1, <1>3, <1>4, <1>6, <1>7, <1>8, ReloadGoesOn

LEMMA ReadZonesStep ==
    ASSUME DnsInv, NEW s \in DnsSlot, ReadZones(s) PROVE DnsInv'
<1> DEFINE old == slots[s]
           clean == old.clean \/ old.own = NoOwn
           x == [old EXCEPT !.phase = "rules", !.zones = ZonesRead(s), !.clean = clean]
<1>1. /\ old.phase = "zones" /\ proxies' = Synced(ZonesRead(s), proxies)
      /\ UNCHANGED <<zones, rows, resolver, disturbed, raced>>
  BY DEF ReadZones
<1>2. DnsSlotTyped(old)
  BY <1>1, IdleSlot DEF DnsInv, DnsTyped, SlotsTyped
<1>3. slots' = [slots EXCEPT ![s] = x]
  BY DEF ReadZones, DnsInv, DnsTyped, SlotsTyped
<1>4. Reloading(old)
  BY <1>1 DEF Reloading
<1>5. clean => UpToDate(old.own)
  BY <1>1, <1>4 DEF DnsInv, ReadsFollow, UpToDate
<1>6. UpToDate(old.own) => ZonesRead(s) = zones
  BY SeenCurrent DEF DnsInv, ZonesRead
<1>7. clean \in BOOLEAN /\ (old.clean => clean)
  OBVIOUS
<1> HIDE DEF clean
<1>8. x = [f \in SlotFields |-> x[f]] /\ DOMAIN x = SlotFields
  BY <1>2 DEF DnsSlotTyped, SlotFields
<1>9. /\ x.phase = "rules" /\ x.zones = ZonesRead(s) /\ x.own = old.own
      /\ x.kind = old.kind /\ x.change = old.change
  BY <1>2 DEF DnsSlotTyped, SlotFields
<1>10. x.clean = clean
  BY <1>2 DEF DnsSlotTyped, SlotFields
<1> HIDE DEF x
<1>11. DnsSlotTyped(x) /\ Reloading(x)
  BY <1>2, <1>7, <1>8, <1>9, <1>10 DEF DnsSlotTyped, Reloading
<1>12. proxies' \in [Proxy -> {"off", "ours", "orphan"}]
  BY <1>1, ProxiesTyped DEF DnsInv, DnsTyped
<1>13. old.clean => x.clean
  BY <1>7, <1>10
<1>14. x.clean => UpToDate(x.own) /\ x.zones = zones
  BY <1>5, <1>6, <1>9, <1>10
<1> QED
  BY <1>1, <1>3, <1>4, <1>9, <1>11, <1>12, <1>13, <1>14, ReloadGoesOn

LEMMA ReadRulesStep ==
    ASSUME DnsInv, NEW s \in DnsSlot, ReadRules(s) PROVE DnsInv'
<1> DEFINE old == slots[s]
           seen == Seen(old.own, "rules", Rules)
           x == [old EXCEPT !.phase = "write", !.rules = seen]
<1>1. /\ old.phase = "rules" /\ UNCHANGED <<zones, rows, resolver, proxies, disturbed, raced>>
  BY DEF ReadRules
<1>2. DnsSlotTyped(old)
  BY <1>1, IdleSlot DEF DnsInv, DnsTyped, SlotsTyped
<1>3. slots' = [slots EXCEPT ![s] = x]
  BY DEF ReadRules, DnsInv, DnsTyped, SlotsTyped
<1>4. Reloading(old)
  BY <1>1 DEF Reloading
<1>5. old.clean => UpToDate(old.own) /\ old.zones = zones /\ seen = Rules
  <2>1. old.clean => UpToDate(old.own) /\ old.zones = zones
    BY <1>1, <1>4 DEF DnsInv, ReadsFollow
  <2> QED
    BY <2>1, SeenCurrent DEF DnsInv
<1> HIDE DEF seen
<1>6. x = [f \in SlotFields |-> x[f]] /\ DOMAIN x = SlotFields
  BY <1>2 DEF DnsSlotTyped, SlotFields
<1>7. /\ x.phase = "write" /\ x.zones = old.zones /\ x.rules = seen /\ x.own = old.own
      /\ x.clean = old.clean /\ x.kind = old.kind /\ x.change = old.change
  BY <1>2 DEF DnsSlotTyped, SlotFields
<1> HIDE DEF x
<1>8. DnsSlotTyped(x) /\ Reloading(x)
  BY <1>2, <1>6, <1>7 DEF DnsSlotTyped, Reloading
<1>9. proxies' \in [Proxy -> {"off", "ours", "orphan"}]
  BY <1>1 DEF DnsInv, DnsTyped
<1>10. x.clean => UpToDate(x.own) /\ x.zones = zones /\ x.rules = Rules
  BY <1>5, <1>7
<1> QED
  BY <1>1, <1>3, <1>4, <1>7, <1>8, <1>9, <1>10, ReloadGoesOn

\* The end of a handler, and what it leaves to the reloads of others
LEMMA HandlerEnds ==
    ASSUME DnsInv, NEW s \in DnsSlot, slots' = [slots EXCEPT ![s] = NoSlot],
           UNCHANGED <<zones, rows, raced>>,
           proxies' \in [Proxy -> {"off", "ours", "orphan"}], disturbed' \in BOOLEAN,
           ~disturbed' /\ resolver' # Stopped =>
               \/ resolver' = Written(zones, Rules, Manual)
               \/ \E r \in DnsSlot \ {s} : Reloading(slots[r]) /\ slots[r].clean
    PROVE  DnsInv'
<1>1. /\ SlotsTyped' /\ ZonesTyped' /\ RowsOfTables' /\ raced' \in BOOLEAN /\ ZonesInv'
      /\ slots'[s] = NoSlot /\ \A r \in DnsSlot \ {s} : slots'[r] = slots[r]
  BY IdleSlot, SlotSet
<1>2. ReadsFollow'
  <2> SUFFICES ASSUME NEW r \in DnsSlot, Reloading(slots[r])', slots'[r].clean
               PROVE  /\ slots'[r].phase = "refresh" => Exists(StoredRow(slots[r].own.at))'
                      /\ slots'[r].phase # "refresh" => UpToDate(slots[r].own)'
                      /\ slots'[r].phase \in {"rules", "write"} => slots'[r].zones = zones'
                      /\ slots'[r].phase = "write" => slots'[r].rules = Rules'
    BY DEF ReadsFollow
  <2>1. r # s
    BY <1>1, IdleSlot DEF Reloading
  <2>2. slots'[r] = slots[r] /\ Reloading(slots[r]) /\ slots[r].clean
    BY <1>1, <2>1 DEF Reloading
  <2> QED
    BY <2>2 DEF DnsInv, ReadsFollow, Rules, UpToDate, StoredRow, Exists
<1>3. ReloadFollows'
  BY <1>1 DEF ReloadFollows, Rules, Manual, Reloading
<1> QED
  BY <1>1, <1>2, <1>3 DEF DnsInv, DnsTyped

\* A handler that reloads nothing ends.
LEMMA NobodyReloads ==
    ASSUME DnsInv, NEW s \in DnsSlot, ~(Reloading(slots[s]) /\ slots[s].clean)
    PROVE  ~disturbed /\ resolver # Stopped =>
               \/ resolver = Written(zones, Rules, Manual)
               \/ \E r \in DnsSlot \ {s} : Reloading(slots[r]) /\ slots[r].clean
BY DEF DnsInv, ReloadFollows

LEMMA RefuseStep ==
    ASSUME DnsInv, NEW s \in DnsSlot, Refuse(s) PROVE DnsInv'
<1>1. /\ slots[s].phase = "commit" /\ slots' = [slots EXCEPT ![s] = NoSlot]
      /\ UNCHANGED <<zones, rows, resolver, proxies, disturbed, raced>>
  BY DEF Refuse
<1>2. ~(Reloading(slots[s]) /\ slots[s].clean)
  BY <1>1 DEF Reloading
<1>3. proxies' \in [Proxy -> {"off", "ours", "orphan"}] /\ disturbed' \in BOOLEAN
  BY <1>1 DEF DnsInv, DnsTyped
<1> QED
  BY <1>1, <1>2, <1>3, NobodyReloads, HandlerEnds

\* An object that is gone was deleted by another handler, since the commit.
LEMMA RefreshFailsStep ==
    ASSUME DnsInv, NEW s \in DnsSlot, RefreshFails(s) PROVE DnsInv'
<1>1. /\ slots[s].phase = "refresh" /\ ~Exists(StoredRow(slots[s].own.at))
      /\ slots' = [slots EXCEPT ![s] = NoSlot]
      /\ UNCHANGED <<zones, rows, resolver, proxies, disturbed, raced>>
  BY DEF RefreshFails
<1>2. ~(Reloading(slots[s]) /\ slots[s].clean)
  BY <1>1 DEF DnsInv, ReadsFollow
<1>3. proxies' \in [Proxy -> {"off", "ours", "orphan"}] /\ disturbed' \in BOOLEAN
  BY <1>1 DEF DnsInv, DnsTyped
<1> QED
  BY <1>1, <1>2, <1>3, NobodyReloads, HandlerEnds

LEMMA ProxyFailsStep ==
    ASSUME DnsInv, NEW s \in DnsSlot, ProxyFails(s) PROVE DnsInv'
<1>1. /\ slots' = [slots EXCEPT ![s] = NoSlot] /\ disturbed' = TRUE
      /\ UNCHANGED <<zones, rows, raced>>
  BY DEF ProxyFails
<1>2. proxies' \in [Proxy -> {"off", "ours", "orphan"}]
  BY ProxiesTyped DEF ProxyFails, DnsInv, DnsTyped
<1> QED
  BY <1>1, <1>2, HandlerEnds

LEMMA WriteConfigStep ==
    ASSUME DnsInv, NEW s \in DnsSlot, WriteConfig(s) PROVE DnsInv'
<1>1. /\ slots[s].phase = "write" /\ slots' = [slots EXCEPT ![s] = NoSlot]
      /\ disturbed' = ~slots[s].clean
      /\ resolver' = Written(slots[s].zones, slots[s].rules, Seen(slots[s].own, "manual", Manual))
      /\ UNCHANGED <<zones, rows, raced>>
  BY DEF WriteConfig, Manual
<1>2. proxies' \in [Proxy -> {"off", "ours", "orphan"}]
  BY ProxiesTyped DEF WriteConfig, DnsInv, DnsTyped
<1>3. slots[s].clean => slots[s].zones = zones /\ slots[s].rules = Rules /\ UpToDate(slots[s].own)
  BY <1>1 DEF DnsInv, ReadsFollow, Reloading
<1>4. slots[s].clean => Seen(slots[s].own, "manual", Manual) = Manual
  BY <1>3, SeenCurrent DEF DnsInv
<1>5. disturbed' \in BOOLEAN
  BY <1>1
<1>6. ~disturbed' => resolver' = Written(zones, Rules, Manual)
  BY <1>1, <1>3, <1>4
<1> QED
  BY <1>1, <1>2, <1>5, <1>6, HandlerEnds

LEMMA StartFailsStep ==
    ASSUME DnsInv, NEW s \in DnsSlot, StartFails(s) PROVE DnsInv'
<1>1. /\ slots' = [slots EXCEPT ![s] = NoSlot] /\ disturbed' = TRUE
      /\ UNCHANGED <<zones, rows, raced>>
  BY DEF StartFails
<1>2. proxies' \in [Proxy -> {"off", "ours", "orphan"}]
  BY ProxiesTyped DEF StartFails, DnsInv, DnsTyped
<1> QED
  BY <1>1, <1>2, HandlerEnds

LEMMA ResolverCrashStep ==
    ASSUME DnsInv, ResolverCrash PROVE DnsInv'
<1>1. resolver' = Stopped /\ UNCHANGED <<zones, rows, proxies, slots, disturbed, raced>>
  BY DEF ResolverCrash
<1>2. DnsTyped'
  BY <1>1 DEF DnsInv, DnsTyped, ZonesTyped, RowsOfTables, SlotsTyped, DnsSlotTyped, ChangeTyped
<1>3. ZonesInv'
  BY <1>1, ZonesStay DEF DnsInv, ZonesInv, ChecksHold
<1>4. ReadsFollow'
  BY <1>1 DEF DnsInv, ReadsFollow, Rules, Reloading, Exists, UpToDate, StoredRow
<1>5. ReloadFollows'
  BY <1>1 DEF ReloadFollows
<1> QED
  BY <1>2, <1>3, <1>4, <1>5 DEF DnsInv

\* Nobody is at work, and the resolver was started from what is committed.
LEMMA NobodyAtWork ==
    ASSUME \A s \in DnsSlot : slots[s] = NoSlot, slots = [s \in DnsSlot |-> NoSlot]
    PROVE  SlotsTyped /\ ChecksHold /\ ReadsFollow
BY IdleSlot DEF SlotsTyped, ChecksHold, ReadsFollow, Reloading

LEMMA DnsRestartStep ==
    ASSUME DnsInv, DnsRestart PROVE DnsInv'
<1> DEFINE States == {"off", "ours", "orphan"}
<1>1. slots' = [s \in DnsSlot |-> NoSlot] /\ UNCHANGED <<zones, rows, raced>>
  BY DEF DnsRestart
<1>2. \E found, known : known \in [Proxy -> States] /\ StartReloads(found, known)
  <2>1. CASE StartReloads(Stopped, [p \in Proxy |-> "off"])
    <3>1. [p \in Proxy |-> "off"] \in [Proxy -> States]
      OBVIOUS
    <3> QED
      BY <2>1, <3>1, Zenon
  <2>2. CASE StartReloads(resolver, [p \in Proxy |-> IF proxies[p] = "off" THEN "off" ELSE "orphan"])
    <3>1. [p \in Proxy |-> IF proxies[p] = "off" THEN "off" ELSE "orphan"] \in [Proxy -> States]
      OBVIOUS
    <3> QED
      BY <2>2, <3>1, Zenon
  <2> QED
    BY <2>1, <2>2 DEF DnsRestart
<1>2a. PICK found, known : known \in [Proxy -> States] /\ StartReloads(found, known)
  BY <1>2, Zenon
<1>3. \A s \in DnsSlot : slots'[s] = NoSlot
  BY <1>1
<1>4. SlotsTyped' /\ ReadsFollow'
  BY <1>1, <1>3, IdleSlot DEF SlotsTyped, ReadsFollow, Reloading
<1>5. /\ Synced(zones, known) \in [Proxy -> States]
      /\ \A p : SyncEnds(zones, known, p) \in [Proxy -> States]
  BY <1>2a, ProxiesTyped
<1>6. StoppedWith(found, Synced(zones, known)) \in [Proxy -> States]
  BY <1>5, ProxiesTyped
<1>7. proxies' \in [Proxy -> States] /\ disturbed' \in BOOLEAN
  BY <1>2a, <1>5, <1>6 DEF StartReloads
<1>8. ~disturbed' => resolver' = Written(zones, Rules, Manual)
  BY <1>2a DEF StartReloads, Manual
<1>9. DnsTyped'
  BY <1>1, <1>4, <1>7 DEF DnsInv, DnsTyped, ZonesTyped, RowsOfTables
<1>10. ZonesInv'
  BY <1>1, <1>3, IdleSlot, ZonesStay DEF DnsInv
<1>11. ReloadFollows'
  BY <1>1, <1>8 DEF ReloadFollows, Rules, Manual
<1> QED
  BY <1>4, <1>9, <1>10, <1>11 DEF DnsInv

LEMMA DnsInitInv == DnsInit => DnsInv
<1> SUFFICES ASSUME DnsInit PROVE DnsInv
  OBVIOUS
<1>1. PICK d \in Databases : zones = d.zones /\ rows = d.rows
  BY DEF DnsInit
<1>2. /\ ZonesTyped /\ PlainBuiltIn
      /\ \A y, z \in Zones : zones[y].proto = zones[z].proto /\ zones[y].proto \in Proxy => y = z
  BY <1>1, DatabasesAssumption DEF ZonesTyped, PlainBuiltIn, Zones
<1>3. RowsOfTables /\ NamesDistinct
  BY <1>1, DatabasesAssumption DEF RowsOfTables, NamesDistinct, Live, Table
<1>4. \A i \in Live("rules") : Rules[i].zone \in Zones
  <2> SUFFICES ASSUME NEW i \in DnsId, Rules[i] # NoDnsRow PROVE Rules[i].zone \in Zones
    BY DEF Live, Rules
  <2>1. Rules[i] \in DnsRow("rules")
    BY <1>3 DEF RowsOfTables, DnsTable, Table, Rules
  <2>2. Rules[i].zone \in Key
    BY <2>1, RowFields DEF ZoneOf
  <2> QED
    BY <1>1, <2>2, DatabasesAssumption DEF Zones, Rules
<1>5. /\ slots = [s \in DnsSlot |-> NoSlot] /\ disturbed = FALSE /\ raced = FALSE
      /\ resolver = Written(zones, Rules, Manual)
  BY DEF DnsInit, Manual
<1>6. SlotsTyped /\ ChecksHold /\ ReadsFollow
  BY <1>5, NobodyAtWork
<1>7. proxies \in [Proxy -> {"off", "ours", "orphan"}]
  BY ProxiesTyped DEF DnsInit
<1> QED
  BY <1>2, <1>3, <1>4, <1>5, <1>6, <1>7 DEF DnsInv, DnsTyped, ZonesInv, Consistent, ReloadFollows

LEMMA DnsSpecInv == DnsSpec => []DnsInv
<1>1. DnsInv /\ [DnsNext]_dnsVars => DnsInv'
  <2> SUFFICES ASSUME DnsInv, [DnsNext]_dnsVars PROVE DnsInv'
    OBVIOUS
  <2>1. CASE UNCHANGED dnsVars
    <3>1. UNCHANGED <<zones, rows, resolver, proxies, slots, disturbed, raced>>
      BY <2>1 DEF dnsVars
    <3>2. DnsTyped'
      BY <3>1 DEF DnsInv, DnsTyped, ZonesTyped, RowsOfTables, SlotsTyped, DnsSlotTyped, ChangeTyped
    <3>3. ZonesInv'
      BY <3>1, ZonesStay DEF DnsInv, ZonesInv, ChecksHold
    <3>4. ReadsFollow' /\ ReloadFollows'
      BY <3>1, ReloadsStay DEF DnsInv
    <3> QED
      BY <3>2, <3>3, <3>4 DEF DnsInv
  <2> QED
    BY <2>1, DnsRequestStep, DnsCommitStep, RefuseStep, RefreshStep, RefreshFailsStep, ReadZonesStep, ProxyFailsStep, ReadRulesStep,
       WriteConfigStep, StartFailsStep, ResolverCrashStep, DnsRestartStep DEF DnsNext
<1> QED
  BY <1>1, DnsInitInv, PTL DEF DnsSpec

---------------------------------------------------------------------------
(* Theorems *)

\* Zones, rows, proxies and handlers stay of their types, whatever is requested and fails.
THEOREM DnsTypeCorrect == DnsSpec => []DnsTypeOK
<1>1. DnsInv => DnsTypeOK
  BY DEF DnsInv, DnsTyped, DnsTypeOK, ZonesTyped, RowsOfTables, Table, SlotsTyped, DnsSlotTyped
<1> QED
  BY <1>1, DnsSpecInv, PTL

\* Without a change between the checks and the commit of another, rules have their zones
\* and proxies one zone each.
THEOREM ConsistentZones == DnsSpec => []ZonesConsistent
<1>1. DnsInv => ZonesConsistent
  BY DEF DnsInv, ZonesInv, Consistent, ZonesConsistent
<1> QED
  BY <1>1, DnsSpecInv, PTL

\* What a configuration of the committed rows answers
LEMMA AnswersOfRows ==
    ASSUME NamesDistinct, NEW n PROVE Answers(Written(zones, Rules, Manual), n) = Policy(n)
<1> DEFINE conf == Written(zones, Rules, Manual)
           served == {i \in DnsId : /\ Rules[i] # NoDnsRow /\ Rules[i].on /\ Rules[i].zone # "vpn"
                                    /\ zones[Rules[i].zone] # NoZone}
           line(i) == <<Rules[i].name, Target(Rules[i].zone, zones[Rules[i].zone])>>
           lines == {l \in conf.server : l[1] = n}
           own == {i \in Named("rules", n) : Rules[i].on /\ zones[Rules[i].zone] # NoZone}
<1>1. /\ conf.zones = zones /\ conf.server = {line(i) : i \in served}
      /\ conf.address = {Manual[i].name : i \in {i \in DnsId : Manual[i] # NoDnsRow /\ Manual[i].on}}
  BY DEF Written
<1> HIDE DEF conf
<1>2. n \in conf.address <=> \E i \in Named("manual", n) : rows["manual"][i].on
  BY <1>1 DEF Named, Live, Manual
<1>3. \A i : i \in own <=> /\ i \in DnsId /\ Rules[i] # NoDnsRow /\ Rules[i].name = n
                           /\ Rules[i].on /\ zones[Rules[i].zone] # NoZone
  BY DEF Named, Live, Rules
<1>4. \A i, j \in own : i = j
  BY <1>3 DEF NamesDistinct, Live, Rules, DnsTable
<1> HIDE DEF own
<1>5. \A l : l \in lines <=> \E i \in own : Rules[i].zone # "vpn" /\ l = line(i)
  BY <1>1, <1>3
<1>6. \A i : line(i)[2] = Target(Rules[i].zone, zones[Rules[i].zone])
  OBVIOUS
<1> HIDE DEF lines, line
<1> DEFINE default == {Target("vpn", zones["vpn"])}
           asked == {Target(z, zones[z]) : z \in IF own = {} THEN {"vpn"} ELSE {Rules[i].zone : i \in own}}
           given == IF lines = {} THEN default ELSE {l[2] : l \in lines}
<1>7. given = asked
  <2>1. CASE own = {}
    <3>1. lines = {}
      BY <1>5, <2>1
    <3> QED
      BY <2>1, <3>1
  <2>2. CASE own # {}
    <3>1. PICK i \in own : TRUE
      BY <2>2
    <3>2. own = {i}
      BY <1>4, <3>1
    <3>3. asked = {Target(Rules[i].zone, zones[Rules[i].zone])}
      BY <3>2
    <3>4. CASE Rules[i].zone = "vpn"
      <4>1. lines = {}
        BY <1>5, <3>2, <3>4
      <4> QED
        BY <3>3, <3>4, <4>1
    <3>5. CASE Rules[i].zone # "vpn"
      <4>1. lines = {line(i)}
        BY <1>5, <3>2, <3>5
      <4>2. given = {line(i)[2]}
        BY <4>1
      <4> QED
        BY <1>6, <3>3, <4>2
    <3> QED
      BY <3>4, <3>5
  <2> QED
    BY <2>1, <2>2
<1>8. Policy(n) = IF n \in conf.address THEN {<<"address", n>>} ELSE asked
  BY <1>2, Zenon DEF Policy, own
<1>9. Answers(conf, n) = IF n \in conf.address THEN {<<"address", n>>} ELSE given
  BY <1>1 DEF Answers, lines
<1> QED
  BY <1>7, <1>8, <1>9 DEF conf

\* A resolver that is done with its reloads answers as the committed rows say.
THEOREM ResolverFollows == DnsSpec => []ResolverFollowsRows
<1>1. DnsInv => ResolverFollowsRows
  <2> SUFFICES ASSUME DnsInv, Quiet PROVE \A n \in DnsName : Answers(resolver, n) = Policy(n)
    BY DEF ResolverFollowsRows
  <2>1. resolver = Written(zones, Rules, Manual)
    BY IdleSlot DEF DnsInv, ReloadFollows, Quiet, Reloading
  <2> QED
    BY <2>1, AnswersOfRows DEF DnsInv, ZonesInv
<1> QED
  BY <1>1, DnsSpecInv, PTL
===============================================================================
