------------------------------ MODULE MCSetup ------------------------------
(* Model-checking instance of Setup: the profiles are alike.  What an install *)
(* works out before it deploys is in NetworkPlan, and is asked here before    *)
(* any command has begun.                                                     *)
EXTENDS Setup, NetworkPlan, TLC

CONSTANTS home, work

Symmetry == Permutations(Profiles)

\* A range is refused just where it would take a local network's address away,
\* and the tunnel's addresses follow its range (internal/tunnel/collisions.go:92
\* and :118, settings.go:274).
AddressesWork == begun = 0 => OverlapIsSharing /\ CollisionsAreReal /\ AlignFollows

\* The subnets, the zone and the target groups found are the ones that serve,
\* in whatever order the account lists them (internal/awsops/discover.go:90
\* and :194, install.go:204).
PlanIsStable == begun = 0 => DiscoveryIsStable /\ RecordResolves /\ PortsReachTheirGroups
=============================================================================
