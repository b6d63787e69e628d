------------------------- MODULE PeerRegistryProofs -------------------------
(***************************************************************************)
(* Theorems about PeerRegistry, for any keys, addresses and number of      *)
(* clients, hand edits and gateway faults.                                 *)
(***************************************************************************)
EXTENDS PeerRegistry, TLAPS

\* Adding a workstation to a list that gives no key and no address twice, or
\* removing one, keeps it so.
LEMMA ListOps ==
  ASSUME NEW list \in SUBSET Peer, UniqueIn(list)
  PROVE  /\ \A peer \in Peer : MergePeer(list, peer) \in SUBSET Peer /\ UniqueIn(MergePeer(list, peer))
         /\ \A address \in Addresses :
              WithoutPeer(list, address) \in SUBSET Peer /\ UniqueIn(WithoutPeer(list, address))
BY DEF MergePeer, WithoutPeer, UniqueIn

\* Every step keeps the state well typed.
LEMMA TypedStep == RegistryTypeOK /\ [Next]_registryVars => RegistryTypeOK'
<1> SUFFICES ASSUME RegistryTypeOK, [Next]_registryVars PROVE RegistryTypeOK'
  OBVIOUS
<1> USE DEF RegistryTypeOK
<1>0. CASE UNCHANGED registryVars
  BY <1>0 DEF registryVars
<1>1. ASSUME NEW c \in Clients, Client(c) PROVE RegistryTypeOK'
  <2>1. CASE \E peer \in Peer : UpsertPeer(c, peer)
    BY <2>1 DEF UpsertPeer, Computes, MergePeer, gatewayVars
  <2>2. CASE \E address \in Addresses : RemovePeer(c, address)
    BY <2>2 DEF RemovePeer, Computes, WithoutPeer, gatewayVars
  <2>3. CASE PutPeers(c)
    BY <2>3 DEF PutPeers, gatewayVars
  <2>4. CASE PutFails(c)
    BY <2>4 DEF PutFails, Computes, gatewayVars
  <2> QED
    BY <1>1, <2>1, <2>2, <2>3, <2>4 DEF Client
<1>2. CASE HandEdit
  BY <1>2, PeerRegistryAssumption DEF HandEdit, gatewayVars
<1>3. CASE Sync
  <2>1. CASE SyncRead
    BY <2>1 DEF SyncRead, SyncStarts
  <2>2. CASE SyncRemoved
    BY <2>2 DEF SyncRemoved
  <2>3. CASE SyncSave
    BY <2>3 DEF SyncSave
  <2>4. CASE \E key \in Keys : SyncRemove(key)
    BY <2>4 DEF SyncRemove
  <2>5. CASE \E p \in Peer : SyncSet(p)
    BY <2>5 DEF SyncSet, Peer
  <2> QED
    BY <1>3, <2>1, <2>2, <2>3, <2>4, <2>5 DEF Sync
<1>4. CASE SyncReadFails
  BY <1>4, PeerRegistryAssumption DEF SyncReadFails, SyncStarts, Fault
<1>5. CASE SyncSkips
  BY <1>5 DEF SyncSkips, registryVars
<1>6. CASE GatewayRestarts
  <2>1. saved' \in [trusted : SUBSET Keys, serves : [Addresses -> Keys \cup {NoKey}]]
    BY <1>6 DEF GatewayRestarts, Unrouted
  <2> QED
    BY <1>6, <2>1, PeerRegistryAssumption DEF GatewayRestarts, Fault
<1> QED
  BY <1>0, <1>1, <1>2, <1>3, <1>4, <1>5, <1>6 DEF Next

\* The initial state is well typed.
LEMMA TypedInit == Init => RegistryTypeOK
BY PeerRegistryAssumption DEF Init, RegistryTypeOK, Unrouted

\* In every state of every behaviour the state is well typed: no client, hand
\* edit, sync or restart leaves a list, a key or an address that is none.
THEOREM TypeCorrect == Spec => []RegistryTypeOK
BY TypedInit, TypedStep, PTL DEF Spec

-----------------------------------------------------------------------------
\* OneOwner alone is not inductive: a client writes what it computed earlier,
\* and the sync applies what it read earlier.
UniqueInv ==
  /\ RegistryTypeOK
  /\ OneOwner
  /\ \A c \in Clients : pending[c] /= Nothing => UniqueIn(pending[c])
  /\ UniqueIn(desired)

\* Every step keeps the lists free of duplicates.
LEMMA UniqueStep == UniqueInv /\ [Next]_registryVars => UniqueInv'
<1> SUFFICES ASSUME UniqueInv, [Next]_registryVars PROVE UniqueInv'
  OBVIOUS
<1>t. RegistryTypeOK /\ RegistryTypeOK'
  BY TypedStep DEF UniqueInv
<1>0. CASE UNCHANGED registryVars
  BY <1>0, <1>t DEF registryVars, UniqueInv, OneOwner, UniqueIn
<1>1. ASSUME NEW c \in Clients, Client(c) PROVE UniqueInv'
  <2>1. CASE \E peer \in Peer : UpsertPeer(c, peer)
    <3>1. PICK peer \in Peer : UpsertPeer(c, peer)
      BY <2>1
    <3>2. UniqueIn(MergePeer(registry, peer))
      BY <3>1, <1>t, ListOps DEF UpsertPeer, UniqueInv, OneOwner, RegistryTypeOK
    <3> QED
      BY <3>1, <3>2, <1>t DEF UpsertPeer, Computes, gatewayVars, UniqueInv, OneOwner, RegistryTypeOK
  <2>2. CASE \E address \in Addresses : RemovePeer(c, address)
    <3>1. PICK address \in Addresses : RemovePeer(c, address)
      BY <2>2
    <3>2. UniqueIn(WithoutPeer(registry, address))
      BY <3>1, <1>t, ListOps DEF RemovePeer, UniqueInv, OneOwner, RegistryTypeOK
    <3> QED
      BY <3>1, <3>2, <1>t DEF RemovePeer, Computes, gatewayVars, UniqueInv, OneOwner, RegistryTypeOK
  <2>3. CASE PutPeers(c)
    BY <2>3, <1>t DEF PutPeers, gatewayVars, UniqueInv, OneOwner, RegistryTypeOK
  <2>4. CASE PutFails(c)
    BY <2>4, <1>t DEF PutFails, Computes, gatewayVars, UniqueInv, OneOwner, RegistryTypeOK
  <2> QED
    BY <1>1, <2>1, <2>2, <2>3, <2>4 DEF Client
<1>2. CASE HandEdit
  BY <1>2, <1>t DEF HandEdit, gatewayVars, UniqueInv, OneOwner, UniqueIn
<1>3. CASE Sync
  <2>1. CASE SyncRead
    BY <2>1, <1>t DEF SyncRead, SyncStarts, UniqueInv, OneOwner
  <2>2. CASE SyncRemoved \/ \E key \in Keys : SyncRemove(key)
    BY <2>2, <1>t DEF SyncRemoved, SyncRemove, UniqueInv, OneOwner
  <2>3. CASE SyncSave
    BY <2>3, <1>t DEF SyncSave, UniqueInv, OneOwner, UniqueIn
  <2>4. CASE \E p \in Peer : SyncSet(p)
    BY <2>4, <1>t DEF SyncSet, UniqueInv, OneOwner
  <2> QED
    BY <1>3, <2>1, <2>2, <2>3, <2>4 DEF Sync
<1>4. CASE SyncReadFails
  BY <1>4, <1>t DEF SyncReadFails, SyncStarts, UniqueInv, OneOwner, UniqueIn
<1>5. CASE SyncSkips
  BY <1>5, <1>t DEF SyncSkips, registryVars, UniqueInv, OneOwner
<1>6. CASE GatewayRestarts
  BY <1>6, <1>t DEF GatewayRestarts, UniqueInv, OneOwner, UniqueIn
<1> QED
  BY <1>0, <1>1, <1>2, <1>3, <1>4, <1>5, <1>6 DEF Next

\* The initial lists have no duplicates.
LEMMA UniqueInit == Init => UniqueInv
BY TypedInit DEF Init, UniqueInv, OneOwner, UniqueIn

\* However many clients read, compute and write in whatever order, the
\* parameter never gives one key or one address to two workstations.
THEOREM UniqueOwner == Spec => []OneOwner
<1>1. UniqueInv => OneOwner
  BY DEF UniqueInv
<1> QED
  BY <1>1, UniqueInit, UniqueStep, PTL DEF Spec

-----------------------------------------------------------------------------
\* An entry is applied: its key is a peer and has its address and no other.
Applied(p) ==
  /\ p.key \in trusted
  /\ \A address \in Addresses : serves[address] = p.key <=> address = p.address

\* Half way through the sync the entries it has passed are applied, and stay
\* so: an entry set later has another key and another address.
SyncInv ==
  /\ phase = "remove" => todo = desired
  /\ phase = "set" => trusted \subseteq KeysOf(desired)
  /\ phase = "set" => \A p \in desired \ todo : Applied(p)

ApplyInv == UniqueInv /\ SyncInv

\* When nothing is left to apply the gateway serves the list it read.
LEMMA AllApplied == ApplyInv => SyncApplies
<1> SUFFICES ASSUME ApplyInv, phase = "set", todo = {}
             PROVE  trusted = KeysOf(desired) /\ Serving = desired
  BY DEF SyncApplies
<1>1. \A p \in desired : p \in Peer /\ Applied(p)
  BY DEF ApplyInv, SyncInv, UniqueInv, RegistryTypeOK
<1>2. trusted = KeysOf(desired)
  BY <1>1 DEF ApplyInv, SyncInv, KeysOf, Applied
<1>3. \A p \in desired : p \in Serving
  BY <1>1 DEF Serving, Applied, Peer
<1>4. ASSUME NEW p \in Serving PROVE p \in desired
  <2>1. p \in Peer /\ p.key \in trusted /\ serves[p.address] = p.key
    BY DEF Serving
  <2>2. PICK q \in desired : q.key = p.key
    BY <1>2, <2>1 DEF KeysOf
  <2>3. q.address = p.address
    BY <1>1, <2>1, <2>2 DEF Applied, Peer
  <2> QED
    BY <1>1, <2>1, <2>2, <2>3 DEF Peer
<1> QED
  BY <1>2, <1>3, <1>4

\* Every step of the clients, the sync and the gateway keeps SyncInv.
LEMMA ApplyStep == ApplyInv /\ [Next]_registryVars => ApplyInv'
<1> SUFFICES ASSUME ApplyInv, [Next]_registryVars PROVE SyncInv'
  BY UniqueStep DEF ApplyInv
<1>t. RegistryTypeOK /\ SyncInv /\ UniqueIn(desired)
  BY DEF ApplyInv, UniqueInv
<1>0. CASE UNCHANGED registryVars
  BY <1>0, <1>t DEF registryVars, SyncInv, Applied, KeysOf
<1>1. CASE (\E c \in Clients : Client(c)) \/ HandEdit
  <2>1. UNCHANGED gatewayVars
    BY <1>1 DEF Client, UpsertPeer, RemovePeer, PutPeers, PutFails, Computes, HandEdit
  <2> QED
    BY <2>1, <1>t DEF gatewayVars, SyncInv, Applied, KeysOf
<1>2. CASE SyncRead \/ SyncReadFails
  BY <1>2 DEF SyncRead, SyncReadFails, SyncStarts, SyncInv
<1>3. CASE SyncRemoved
  BY <1>3, <1>t DEF SyncRemoved, SyncInv, KeysOf
<1>4. CASE SyncSave
  BY <1>4 DEF SyncSave, SyncInv
<1>5. CASE \E key \in Keys : SyncRemove(key)
  BY <1>5, <1>t DEF SyncRemove, SyncInv
<1>6. ASSUME NEW p \in Peer, SyncSet(p) PROVE SyncInv'
  <2>1. /\ p \in desired /\ todo' = todo \ {p} /\ desired' = desired /\ phase' = "set"
        /\ trusted' = trusted \cup {p.key}
        /\ serves' = [address \in Addresses |->
                        IF address = p.address THEN p.key
                        ELSE IF serves[address] = p.key THEN NoKey
                        ELSE serves[address]]
        /\ phase = "set"
    BY <1>6, <1>t DEF SyncSet, RegistryTypeOK
  <2>2. trusted' \subseteq KeysOf(desired')
    BY <2>1, <1>t DEF SyncInv, KeysOf
  <2>3. Applied(p)'
    BY <2>1, <1>t, PeerRegistryAssumption DEF Applied, RegistryTypeOK, Peer
  <2>4. ASSUME NEW q \in desired \ todo, q /= p PROVE Applied(q)'
    <3>1. Applied(q) /\ q \in Peer
      BY <2>1, <1>t DEF SyncInv, RegistryTypeOK
    <3>2. q.key /= p.key /\ q.address /= p.address
      BY <2>1, <2>4, <1>t DEF UniqueIn
    <3>3. q.key /= NoKey
      BY <3>1, PeerRegistryAssumption DEF Peer
    <3> QED
      BY <2>1, <3>1, <3>2, <3>3, <1>t DEF Applied, RegistryTypeOK
  <2>5. \A q \in desired' \ todo' : Applied(q)'
    BY <2>1, <2>3, <2>4
  <2> QED
    BY <2>1, <2>2, <2>5 DEF SyncInv
<1>7. CASE SyncSkips
  BY <1>7, <1>t DEF SyncSkips, registryVars, SyncInv, Applied, KeysOf
<1>8. CASE GatewayRestarts
  BY <1>8 DEF GatewayRestarts, SyncInv
<1> QED
  BY <1>0, <1>1, <1>2, <1>3, <1>4, <1>5, <1>6, <1>7, <1>8 DEF Next, Sync

\* Whatever the interface held before, and however keys and addresses changed
\* hands, a sync that reaches its save serves exactly the list it read.
THEOREM SyncIsExact == Spec => []SyncApplies
<1>1. Init => ApplyInv
  BY UniqueInit DEF Init, ApplyInv, SyncInv
<1> QED
  BY <1>1, ApplyStep, AllApplied, PTL DEF Spec

-----------------------------------------------------------------------------
\* What a client is about to write is still one change to the list as it is.
StillCurrent(list) ==
  \/ \E peer \in Peer : list = MergePeer(registry, peer)
  \/ \E address \in Addresses : list = WithoutPeer(registry, address)

WriterInv ==
  /\ UniqueInv
  /\ registry /= Garbled
  /\ \A c \in Clients : pending[c] /= Nothing => StillCurrent(pending[c])

\* With no hand edit and no second writer, every step keeps WriterInv and is a
\* step of Registry, or changes nothing of it.
LEMMA WriterStep ==
  ASSUME MaxEdits = 0
  PROVE  WriterInv /\ OneWriter /\ [Next]_registryVars
           => WriterInv' /\ [Promise!Next]_registry
<1> SUFFICES ASSUME WriterInv, OneWriter, [Next]_registryVars
             PROVE  WriterInv' /\ [Promise!Next]_registry
  OBVIOUS
<1>u. UniqueInv /\ UniqueInv'
  BY UniqueStep DEF WriterInv
<1>t. RegistryTypeOK /\ RegistryTypeOK'
  BY <1>u DEF UniqueInv
<1>1. ASSUME UNCHANGED <<registry, pending>> PROVE WriterInv' /\ [Promise!Next]_registry
  BY <1>1, <1>u DEF WriterInv, StillCurrent, MergePeer, WithoutPeer
<1>2. CASE UNCHANGED registryVars
  BY <1>1, <1>2 DEF registryVars
<1>3. ASSUME NEW c \in Clients, Client(c) PROVE WriterInv' /\ [Promise!Next]_registry
  <2>1. CASE \/ \E peer \in Peer : UpsertPeer(c, peer)
             \/ \E address \in Addresses : RemovePeer(c, address)
    <3>1. PICK list : StillCurrent(list) /\ Computes(c, list)
      BY <2>1 DEF UpsertPeer, RemovePeer, StillCurrent
    <3> QED
      BY <3>1, <1>t, <1>u DEF Computes, WriterInv, StillCurrent, MergePeer, WithoutPeer, RegistryTypeOK
  <2>2. CASE PutPeers(c)
    <3>1. StillCurrent(pending[c]) /\ registry' = pending[c]
      BY <2>2 DEF PutPeers, WriterInv
    <3>2. Promise!Next
      BY <3>1 DEF StillCurrent, MergePeer, WithoutPeer, Promise!Next, Promise!Join,
           Promise!Leave, Promise!Without, Promise!Peer, Peer
    <3>3. registry' \in SUBSET Peer
      BY <2>2, <3>1, <1>t DEF PutPeers, RegistryTypeOK
    <3>4. \A d \in Clients : pending'[d] = Nothing
      BY <2>2, <1>t DEF PutPeers, OneWriter, RegistryTypeOK
    <3> QED
      BY <3>2, <3>3, <3>4, <1>u, PeerRegistryAssumption DEF WriterInv, Peer
  <2>3. CASE PutFails(c)
    BY <2>3, <1>t, <1>u DEF PutFails, Computes, WriterInv, StillCurrent, MergePeer, WithoutPeer, RegistryTypeOK
  <2> QED
    BY <1>3, <2>1, <2>2, <2>3 DEF Client
<1>4. CASE HandEdit
  BY <1>4, <1>t DEF HandEdit, RegistryTypeOK
<1>5. CASE Sync \/ SyncReadFails \/ SyncSkips \/ GatewayRestarts
  <2>1. UNCHANGED <<registry, pending>>
    BY <1>5 DEF Sync, SyncRead, SyncReadFails, SyncStarts, SyncRemoved, SyncSave, SyncRemove,
         SyncSet, SyncSkips, registryVars, GatewayRestarts
  <2> QED
    BY <2>1, <1>1
<1> QED
  BY <1>2, <1>3, <1>4, <1>5 DEF Next

\* Clients that never overlap between their read and their write implement the
\* one-at-a-time list: nobody's entry is lost.  The read-modify-write needs
\* exactly that, and nothing in peers.go provides it.
THEOREM OneWriterKeepsOthers ==
  ASSUME MaxEdits = 0
  PROVE  Spec /\ []OneWriter => KeepsOthers
<1>1. Init => WriterInv /\ Promise!Init
  BY UniqueInit, PeerRegistryAssumption DEF Init, WriterInv, UniqueIn, Promise!Init, Promise!Unique, Promise!Peer, Peer
<1> QED
  BY <1>1, WriterStep, PTL DEF Spec, KeepsOthers, Promise!Spec
=============================================================================
