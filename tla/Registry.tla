------------------------------ MODULE Registry ------------------------------
(***************************************************************************)
(* What the peer list promises its users: workstations join and leave one  *)
(* at a time, and each leaves every other one where it was (peers.go:67    *)
(* and :104).                                                              *)
(***************************************************************************)
CONSTANTS Keys, Addresses

VARIABLE peers

Peer == [key : Keys, address : Addresses]

\* A key and an address each identify a workstation.
Unique(list) ==
  \A p, q \in list : p.key = q.key \/ p.address = q.address => p = q

Without(list, key, address) == {p \in list : p.key /= key /\ p.address /= address}

Init == peers \in {list \in SUBSET Peer : Unique(list)}

Join(p) == peers' = Without(peers, p.key, p.address) \cup {p}

Leave(address) == peers' = {p \in peers : p.address /= address}

Next == (\E p \in Peer : Join(p)) \/ (\E address \in Addresses : Leave(address))

Spec == Init /\ [][Next]_peers
=============================================================================
