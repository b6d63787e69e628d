---------------------------- MODULE PeerRegistry ----------------------------
(***************************************************************************)
(* The peer list of a deployment: an SSM parameter that every workstation  *)
(* reads, changes and writes back (internal/awsops/peers.go), and that the *)
(* gateway's timer applies to its WireGuard interface                      *)
(* (infra/cloudformation-microtunnel.yaml, microtunnel-gateway-sync).      *)
(*                                                                         *)
(* SSM has no compare-and-swap and the clients take no lock, so a client   *)
(* writes a list it computed from an older one.  The gateway's copy lags,  *)
(* is applied entry by entry, and is lost with the instance.               *)
(***************************************************************************)
EXTENDS Naturals

CONSTANTS
  Keys,       \* public keys of workstations
  NoKey,
  Addresses,  \* tunnel addresses
  Clients,    \* mymicrotunnel processes that may change the list
  Nothing,    \* no list to write
  Garbled,    \* contents that are not a peer list
  MaxEdits,   \* hand edits of the parameter (a bound)
  MaxFaults   \* failed reads and restarts of the gateway (a bound)

ASSUME PeerRegistryAssumption ==
  /\ NoKey \notin Keys
  /\ \A list \in SUBSET [key : Keys, address : Addresses] : Garbled /= list
  /\ MaxEdits \in Nat
  /\ MaxFaults \in Nat

VARIABLES
  registry,   \* what the parameter holds; no parameter is an empty list
  pending,    \* the list each client has computed and not written yet
  phase,      \* where the gateway's sync is
  desired,    \* its local variable: the list it read
  todo,       \* entries of it that are not applied yet
  trusted,    \* keys that are peers of the gateway's interface
  serves,     \* the peer each tunnel address is routed to
  saved,      \* the peers and routes in wg0.conf, as of the last save
  edits,
  faults

gatewayVars == <<phase, desired, todo, trusted, serves, saved>>
registryVars == <<registry, pending, phase, desired, todo, trusted, serves, saved, edits, faults>>

Peer == [key : Keys, address : Addresses]

KeysOf(list) == {p.key : p \in list}

\* A key and an address each identify a workstation.
UniqueIn(list) ==
  \A p, q \in list : p.key = q.key \/ p.address = q.address => p = q

Unrouted == [address \in Addresses |-> NoKey]

Init ==
  /\ registry \in {list \in SUBSET Peer : UniqueIn(list)}
  /\ pending = [c \in Clients |-> Nothing]
  /\ phase = "idle"
  /\ desired = {}
  /\ todo = {}
  /\ trusted = {}
  /\ serves = Unrouted
  /\ saved = [trusted |-> {}, serves |-> Unrouted]
  /\ edits = 0
  /\ faults = 0

-----------------------------------------------------------------------------
\* The clients: read, compute, and later write.  A read that fails, and a
\* list that does not parse, end the call with nothing changed.

\* Mutant of MergePeer: only the key identifies a workstation.
MergePeerByKey(existing, peer) == {p \in existing : p.key /= peer.key} \cup {peer}

MergePeer(existing, peer) ==
  {p \in existing : p.address /= peer.address /\ p.key /= peer.key} \cup {peer}

WithoutPeer(existing, address) == {p \in existing : p.address /= address}

Computes(c, list) ==
  /\ pending' = [pending EXCEPT ![c] = list]
  /\ UNCHANGED <<registry, gatewayVars, edits, faults>>

UpsertPeer(c, peer) ==
  /\ pending[c] = Nothing
  /\ registry /= Garbled
  /\ Computes(c, MergePeer(registry, peer))

\* Nothing is written when nothing was removed.
RemovePeer(c, address) ==
  /\ pending[c] = Nothing
  /\ registry /= Garbled
  /\ WithoutPeer(registry, address) /= registry
  /\ Computes(c, WithoutPeer(registry, address))

PutPeers(c) ==
  /\ pending[c] /= Nothing
  /\ registry' = pending[c]
  /\ pending' = [pending EXCEPT ![c] = Nothing]
  /\ UNCHANGED <<gatewayVars, edits, faults>>

\* The write is refused, or the process dies first.
PutFails(c) ==
  /\ pending[c] /= Nothing
  /\ Computes(c, Nothing)

\* Somebody edits the parameter by hand, or deletes it.
HandEdit ==
  /\ edits < MaxEdits
  /\ edits' = edits + 1
  /\ registry' \in {Garbled, {}}
  /\ UNCHANGED <<pending, gatewayVars, faults>>

-----------------------------------------------------------------------------
\* The gateway's sync.

Fault ==
  /\ faults < MaxFaults
  /\ faults' = faults + 1

SyncStarts(list) ==
  /\ phase = "idle"
  /\ phase' = "remove"
  /\ desired' = list
  /\ todo' = list
  /\ UNCHANGED <<registry, pending, trusted, serves, saved, edits>>

\* Mutant of SyncRead: the list is applied once, when the instance is new.
SyncReadOnce ==
  /\ registry /= Garbled
  /\ trusted = {}
  /\ SyncStarts(registry)
  /\ UNCHANGED faults

SyncRead ==
  /\ registry /= Garbled
  /\ SyncStarts(registry)
  /\ UNCHANGED faults

\* `aws ssm get-parameter ... || echo '[]'`: any failure reads as no peers.
SyncReadFails ==
  /\ Fault
  /\ SyncStarts({})

\* A malformed parameter leaves the peers alone.
SyncSkips ==
  /\ phase = "idle"
  /\ registry = Garbled
  /\ UNCHANGED registryVars

SyncRemove(key) ==
  /\ phase = "remove"
  /\ key \in trusted \ KeysOf(desired)
  /\ trusted' = trusted \ {key}
  /\ serves' = [address \in Addresses |->
                  IF serves[address] = key THEN NoKey ELSE serves[address]]
  /\ UNCHANGED <<registry, pending, phase, desired, todo, saved, edits, faults>>

\* Mutant of SyncRemoved: peers that left the list stay.
SyncKeepsAll ==
  /\ phase = "remove"
  /\ phase' = "set"
  /\ UNCHANGED <<registry, pending, desired, todo, trusted, serves, saved, edits, faults>>

SyncRemoved ==
  /\ phase = "remove"
  /\ trusted \subseteq KeysOf(desired)
  /\ phase' = "set"
  /\ UNCHANGED <<registry, pending, desired, todo, trusted, serves, saved, edits, faults>>

\* Mutant of SyncSet: the columns of the list are read the other way round.
SyncSetSwapped(p) ==
  /\ phase = "set"
  /\ p \in todo
  /\ todo' = todo \ {p}
  /\ trusted' = trusted \cup {p.address}
  /\ UNCHANGED <<registry, pending, phase, desired, serves, saved, edits, faults>>

\* `wg set ... allowed-ips` replaces what the peer had, and takes the address
\* from the peer that had it.
SyncSet(p) ==
  /\ phase = "set"
  /\ p \in todo
  /\ todo' = todo \ {p}
  /\ trusted' = trusted \cup {p.key}
  /\ serves' = [address \in Addresses |->
                  IF address = p.address THEN p.key
                  ELSE IF serves[address] = p.key THEN NoKey
                  ELSE serves[address]]
  /\ UNCHANGED <<registry, pending, phase, desired, saved, edits, faults>>

SyncSave ==
  /\ phase = "set"
  /\ todo = {}
  /\ saved' = [trusted |-> trusted, serves |-> serves]
  /\ phase' = "idle"
  /\ desired' = {}
  /\ UNCHANGED <<registry, pending, todo, trusted, serves, edits, faults>>

\* The instance restarts in the middle of anything, and wg-quick brings back
\* what was saved; or it is replaced, and the new one has no peers at all.
GatewayRestarts ==
  /\ Fault
  /\ \/ UNCHANGED saved
     \/ saved' = [trusted |-> {}, serves |-> Unrouted]
  /\ trusted' = saved'.trusted
  /\ serves' = saved'.serves
  /\ phase' = "idle"
  /\ desired' = {}
  /\ todo' = {}
  /\ UNCHANGED <<registry, pending, edits>>

-----------------------------------------------------------------------------
Sync ==
  \/ SyncRead \/ SyncRemoved \/ SyncSave
  \/ (\E key \in Keys : SyncRemove(key))
  \/ (\E p \in Peer : SyncSet(p))

Client(c) ==
  \/ \E peer \in Peer : UpsertPeer(c, peer)
  \/ \E address \in Addresses : RemovePeer(c, address)
  \/ PutPeers(c)
  \/ PutFails(c)

Next ==
  \/ \E c \in Clients : Client(c)
  \/ HandEdit
  \/ Sync
  \/ SyncReadFails
  \/ SyncSkips
  \/ GatewayRestarts

Spec == Init /\ [][Next]_registryVars

\* The timer runs the sync every minute (OnUnitActiveSec=60s).
FairSpec == Spec /\ WF_registryVars(Sync)

-----------------------------------------------------------------------------
RegistryTypeOK ==
  /\ registry \in (SUBSET Peer) \cup {Garbled}
  /\ pending \in [Clients -> (SUBSET Peer) \cup {Nothing}]
  /\ phase \in {"idle", "remove", "set"}
  /\ desired \in SUBSET Peer
  /\ todo \in SUBSET desired
  /\ trusted \in SUBSET Keys
  /\ serves \in [Addresses -> Keys \cup {NoKey}]
  /\ saved \in [trusted : SUBSET Keys, serves : [Addresses -> Keys \cup {NoKey}]]
  /\ edits \in 0 .. MaxEdits
  /\ faults \in 0 .. MaxFaults

\* The parameter never gives one key or one address to two workstations,
\* however the clients' reads and writes interleave (MergePeer, peers.go:89,
\* "the gateway resolves in favour of whichever handshook last").
OneOwner == registry /= Garbled => UniqueIn(registry)

\* What the gateway serves, as a list.
Serving == {p \in Peer : p.key \in trusted /\ serves[p.address] = p.key}

\* A sync that got to its save applied exactly the list it read: every peer of
\* it at its own address and no other peer at all, whatever the interface
\* held before, and through addresses and keys that changed hands.
SyncApplies ==
  phase = "set" /\ todo = {} => trusted = KeysOf(desired) /\ Serving = desired

\* Once the list stops changing, the gateway comes to serve exactly it, unless
\* it is not a list (README.md:306, yaml:601-636).
GatewayCatchesUp ==
  []<><<TRUE>>_registry \/ <>[](registry = Garbled \/ Serving = registry)

\* A workstation on the list is not cut off: what the sync removes is not on
\* it (yaml:617-619, "leave the running peers alone rather than take the
\* tunnel down").  For a list nobody is changing.
ListedIsKept ==
  [][phase = "remove" => \A key \in trusted \ trusted' : key \notin KeysOf(registry)]_registryVars

\* A client's read, computation and write look like one step: nobody else's
\* entry is lost (peers.go:104, "leaving the rest of the deployment serving").
Promise == INSTANCE Registry WITH peers <- registry

KeepsOthers == Promise!Spec

\* No two clients are between their read and their write.
OneWriter == \A c, d \in Clients : pending[c] /= Nothing /\ pending[d] /= Nothing => c = d
=============================================================================
