---------------------------- MODULE GatewayGroup ----------------------------
(***************************************************************************)
(* The gateway of a deployment with an idle timeout: an Auto Scaling group *)
(* of at most one instance (infra/cloudformation-microtunnel.yaml), which  *)
(* an alarm scales to zero and WakeGateway (internal/awsops/wake.go) back  *)
(* to one, for the supervisor, the menu bar, `wake` and the installer.     *)
(*                                                                         *)
(* What a new instance does to become the gateway is its boot script: it   *)
(* takes the Elastic IP, reads the server key back, and points the VPN     *)
(* route at itself; the sync does that last step again every minute.  Both *)
(* run until the machine is gone, also on an instance that the group has   *)
(* let go and replaced.                                                    *)
(***************************************************************************)
EXTENDS Naturals, FiniteSets

CONSTANTS
  Instances,   \* EC2 instances the group can have (a bound)
  NoInstance,
  Wakers,      \* processes that may call WakeGateway
  Supervisor,  \* the one of them that calls it by itself
  MaxClicks,   \* how often a user calls it (a bound)
  MaxVisits,   \* how often traffic returns after a silence (a bound)
  MaxFaults    \* failed instances, boots and reads (a bound)

ASSUME GatewayGroupAssumption ==
  /\ IsFiniteSet(Instances) /\ NoInstance \notin Instances
  /\ MaxClicks \in Nat /\ MaxVisits \in Nat /\ MaxFaults \in Nat

VARIABLES
  desired,    \* the group's desired capacity
  life,       \* each instance's lifecycle state
  boot,       \* how far its boot script is
  keyOf,      \* the server key it runs with
  storedKey,  \* the server key in SSM, 0 before there is one
  address,    \* the instance that has the Elastic IP
  route,      \* the instance the VPN route points at
  robbed,     \* history: instances from which the boot script of one that is
              \* no longer a member took the address
  quiet,      \* nothing has crossed the load balancer for the idle timeout
  cooling,    \* the scale-to-zero policy is in its cooldown
  pc,         \* where each waker is in WakeGateway
  sawZero,    \* its local: the desired capacity it read was below one
  supervised, \* the profile asks to be supervised
  clicks, visits, faults

groupVars == <<desired, life>>
bootVars  == <<boot, keyOf, storedKey, address, route, robbed>>
alarmVars == <<quiet, cooling>>
wakeVars  == <<pc, sawZero>>
bounds    == <<clicks, visits, faults, supervised>>
gatewayVars == <<desired, life, boot, keyOf, storedKey, address, route, robbed,
                 quiet, cooling, pc, sawZero, supervised, clicks, visits, faults>>

Lives == {"none", "pending", "inservice", "terminating"}
Boots == {"start", "claimed", "keyed", "synced", "dead"}

Init ==
  /\ desired = 1
  /\ life = [i \in Instances |-> "none"]
  /\ boot = [i \in Instances |-> "start"]
  /\ keyOf = [i \in Instances |-> 0]
  /\ storedKey = 0
  /\ address = NoInstance
  /\ route = NoInstance
  /\ robbed = {}
  /\ quiet = TRUE
  /\ cooling = FALSE
  /\ pc = [w \in Wakers |-> "idle"]
  /\ sawZero = [w \in Wakers |-> FALSE]
  /\ supervised \in BOOLEAN
  /\ clicks = 0
  /\ visits = 0
  /\ faults = 0

Fault ==
  /\ faults < MaxFaults
  /\ faults' = faults + 1
  /\ UNCHANGED <<supervised, clicks, visits>>

InService == {i \in Instances : life[i] = "inservice"}

Members == {i \in Instances : life[i] \in {"pending", "inservice"}}

\* Peers reach an instance that has the address and the route and answers to
\* the key their configurations name, which is the first one there was.
Serves(i) == boot[i] = "synced" /\ address = i /\ route = i /\ keyOf[i] = 1

Serving == \E i \in Members : Serves(i)

-----------------------------------------------------------------------------
\* WakeGateway.

\* A tunnel that should be up and has no handshake is the supervisor's reason
\* to call; anybody else's is a user.
Called(w) ==
  IF w = Supervisor
  THEN supervised /\ ~Serving /\ UNCHANGED clicks
  ELSE clicks < MaxClicks /\ clicks' = clicks + 1

\* It reads the group once; an instance in service is the end of it.
Describe(w) ==
  /\ pc[w] = "idle"
  /\ Called(w)
  /\ pc' = [pc EXCEPT ![w] = IF InService /= {} THEN "idle" ELSE "ask"]
  /\ sawZero' = [sawZero EXCEPT ![w] = InService = {} /\ desired < 1]
  /\ UNCHANGED <<groupVars, bootVars, alarmVars, supervised, visits, faults>>

\* HonorCooldown is false.
Ask(w) ==
  /\ pc[w] = "ask"
  /\ desired' = IF sawZero[w] THEN 1 ELSE desired
  /\ pc' = [pc EXCEPT ![w] = "wait"]
  /\ sawZero' = [sawZero EXCEPT ![w] = FALSE]
  /\ UNCHANGED <<life, bootVars, alarmVars, bounds>>

\* Mutant of StopWaiting: a wait that was in vain asks again.
AskAgain(w) ==
  /\ pc[w] = "wait"
  /\ pc' = [pc EXCEPT ![w] = IF InService = {} THEN "ask" ELSE "idle"]
  /\ sawZero' = [sawZero EXCEPT ![w] = InService = {} /\ desired < 1]
  /\ UNCHANGED <<groupVars, bootVars, alarmVars, bounds>>

\* In service, or not within the four minutes, or nobody waits (--wait 0).
StopWaiting(w) ==
  /\ pc[w] = "wait"
  /\ pc' = [pc EXCEPT ![w] = "idle"]
  /\ UNCHANGED <<groupVars, bootVars, alarmVars, sawZero, bounds>>

\* AWS cannot be reached, or refuses; or the process is killed.
WakeFails(w) ==
  /\ pc[w] \in {"ask", "wait"}
  /\ Fault
  /\ pc' = [pc EXCEPT ![w] = "idle"]
  /\ sawZero' = [sawZero EXCEPT ![w] = FALSE]
  /\ UNCHANGED <<groupVars, bootVars, alarmVars>>

Waker(w) == Describe(w) \/ Ask(w) \/ StopWaiting(w) \/ WakeFails(w)

-----------------------------------------------------------------------------
\* The group and its instances.

Becomes(i, state) ==
  /\ life' = [life EXCEPT ![i] = state]
  /\ UNCHANGED <<desired, alarmVars, wakeVars>>

Launch(i) ==
  /\ life[i] = "none"
  /\ Cardinality(Members) < desired
  /\ Becomes(i, "pending")
  /\ UNCHANGED <<bootVars, bounds>>

\* The instance runs; its boot script may not have.
EntersService(i) ==
  /\ life[i] = "pending"
  /\ Becomes(i, "inservice")
  /\ UNCHANGED <<bootVars, bounds>>

ScaleIn(i) ==
  /\ i \in Members
  /\ Cardinality(Members) > desired
  /\ Becomes(i, "terminating")
  /\ UNCHANGED <<bootVars, bounds>>

\* An EC2 health check fails; the group replaces the instance.
Unhealthy(i) ==
  /\ i \in Members
  /\ Fault
  /\ Becomes(i, "terminating")
  /\ UNCHANGED bootVars

\* The address is free again and the route is a black hole.
Terminated(i) ==
  /\ life[i] = "terminating"
  /\ Becomes(i, "none")
  /\ boot' = [boot EXCEPT ![i] = "start"]
  /\ keyOf' = [keyOf EXCEPT ![i] = 0]
  /\ address' = IF address = i THEN NoInstance ELSE address
  /\ route' = IF route = i THEN NoInstance ELSE route
  /\ robbed' = robbed \ {i}
  /\ UNCHANGED <<storedKey, bounds>>

\* The boot script runs until the machine is gone, whatever the group thinks of
\* the instance.
BootGoes(i, from, to) ==
  /\ life[i] /= "none"
  /\ boot[i] = from
  /\ boot' = [boot EXCEPT ![i] = to]
  /\ UNCHANGED <<groupVars, alarmVars, wakeVars>>

\* Mutant of ClaimAddress: an address that is still associated is left alone.
ClaimFreeAddress(i) ==
  /\ BootGoes(i, "start", "claimed")
  /\ address' = IF address = NoInstance THEN i ELSE address
  /\ UNCHANGED <<keyOf, storedKey, route, robbed, bounds>>

\* --allow-reassociation: whoever has it.
ClaimAddress(i) ==
  /\ BootGoes(i, "start", "claimed")
  /\ address' = i
  /\ robbed' = IF i \in Members THEN robbed ELSE robbed \cup (Members \cap {address})
  /\ UNCHANGED <<keyOf, storedKey, route, bounds>>

ReuseKey(i) ==
  /\ storedKey /= 0
  /\ BootGoes(i, "claimed", "keyed")
  /\ keyOf' = [keyOf EXCEPT ![i] = storedKey]
  /\ UNCHANGED <<storedKey, address, route, robbed, bounds>>

\* Mutant of GenerateKey: the stored key is not looked at.
GenerateKeyAlways(i) ==
  /\ BootGoes(i, "claimed", "keyed")
  /\ storedKey' = storedKey + 1
  /\ keyOf' = [keyOf EXCEPT ![i] = storedKey + 1]
  /\ UNCHANGED <<address, route, robbed, bounds>>

\* No stored key, or (a fault) it could not be read, or another instance stored
\* its own after this one had looked: the new one replaces it.
GenerateKey(i) ==
  /\ IF storedKey = 0 THEN UNCHANGED bounds ELSE Fault
  /\ BootGoes(i, "claimed", "keyed")
  /\ storedKey' = storedKey + 1
  /\ keyOf' = [keyOf EXCEPT ![i] = storedKey + 1]
  /\ UNCHANGED <<address, route, robbed>>

FirstSync(i) ==
  /\ BootGoes(i, "keyed", "synced")
  /\ route' = i
  /\ UNCHANGED <<keyOf, storedKey, address, robbed, bounds>>

\* set -e: the script stops, and the instance runs on without serving.
BootDies(i) ==
  /\ Fault
  /\ \E from \in {"start", "claimed", "keyed"} : BootGoes(i, from, "dead")
  /\ UNCHANGED <<keyOf, storedKey, address, route, robbed>>

\* Mutant of SyncAgain: it takes the address again, too.
SyncClaims(i) ==
  /\ life[i] /= "none"
  /\ boot[i] = "synced"
  /\ route /= i
  /\ route' = i
  /\ address' = i
  /\ UNCHANGED <<groupVars, boot, keyOf, storedKey, robbed, alarmVars, wakeVars, bounds>>

\* The timer runs until the machine is gone.
SyncAgain(i) ==
  /\ life[i] /= "none"
  /\ boot[i] = "synced"
  /\ route /= i
  /\ route' = i
  /\ UNCHANGED <<groupVars, boot, keyOf, storedKey, address, robbed, alarmVars, wakeVars, bounds>>

Instance(i) ==
  \/ EntersService(i) \/ Terminated(i)
  \/ ClaimAddress(i) \/ ReuseKey(i) \/ FirstSync(i)
  \/ (storedKey = 0 /\ GenerateKey(i))

-----------------------------------------------------------------------------
\* The alarm and the traffic it watches.

FallsQuiet ==
  /\ ~quiet
  /\ quiet' = TRUE
  /\ UNCHANGED <<groupVars, bootVars, cooling, wakeVars, bounds>>

Visit ==
  /\ quiet
  /\ visits < MaxVisits
  /\ visits' = visits + 1
  /\ quiet' = FALSE
  /\ UNCHANGED <<groupVars, bootVars, cooling, wakeVars, supervised, clicks, faults>>

\* The policy runs for as long as the alarm is in its state.
ScaleToZero ==
  /\ quiet
  /\ ~cooling
  /\ desired /= 0
  /\ desired' = 0
  /\ cooling' = TRUE
  /\ UNCHANGED <<life, bootVars, quiet, wakeVars, bounds>>

CooldownEnds ==
  /\ cooling
  /\ cooling' = FALSE
  /\ UNCHANGED <<groupVars, bootVars, quiet, wakeVars, bounds>>

-----------------------------------------------------------------------------
Next ==
  \/ \E w \in Wakers : Waker(w)
  \/ \E i \in Instances :
       \/ Launch(i) \/ ScaleIn(i) \/ EntersService(i) \/ Unhealthy(i) \/ Terminated(i)
       \/ ClaimAddress(i) \/ ReuseKey(i) \/ GenerateKey(i) \/ FirstSync(i) \/ BootDies(i)
       \/ SyncAgain(i)
  \/ FallsQuiet \/ Visit \/ ScaleToZero \/ CooldownEnds

Spec == Init /\ [][Next]_gatewayVars

\* The group keeps its desired capacity, a running instance boots and syncs,
\* the alarm acts, a wake that began ends, and the supervisor looks again.
\* Traffic need not end.
Fairness ==
  /\ WF_gatewayVars(\E i \in Instances : Launch(i) \/ ScaleIn(i))
  /\ \A i \in Instances : WF_gatewayVars(Instance(i)) /\ WF_gatewayVars(SyncAgain(i))
  /\ WF_gatewayVars(ScaleToZero) /\ WF_gatewayVars(CooldownEnds)
  /\ \A w \in Wakers : WF_gatewayVars(Ask(w) \/ StopWaiting(w))
  /\ WF_gatewayVars(\E w \in Wakers \cap {Supervisor} : Describe(w))

FairSpec == Spec /\ Fairness

-----------------------------------------------------------------------------
GroupTypeOK ==
  /\ desired \in 0 .. 1
  /\ life \in [Instances -> Lives]
  /\ boot \in [Instances -> Boots]
  /\ keyOf \in [Instances -> 0 .. MaxFaults + 1]
  /\ storedKey \in 0 .. MaxFaults + 1
  /\ address \in Instances \cup {NoInstance}
  /\ route \in Instances \cup {NoInstance}
  /\ robbed \in SUBSET Instances
  /\ quiet \in BOOLEAN
  /\ cooling \in BOOLEAN
  /\ pc \in [Wakers -> {"idle", "ask", "wait"}]
  /\ sawZero \in [Wakers -> BOOLEAN]
  /\ supervised \in BOOLEAN
  /\ clicks \in 0 .. MaxClicks
  /\ visits \in 0 .. MaxVisits
  /\ faults \in 0 .. MaxFaults

\* An instance whose boot script has taken the address.
Claimed(i) == boot[i] \in {"claimed", "keyed", "synced"}

\* However wakes race each other, the alarm and the replacement of instances,
\* a gateway that has taken the Elastic IP keeps it for as long as the group
\* keeps the gateway; only the boot script of an instance the group has already
\* let go can still take it away (wake.go:60, "cannot produce two gateways
\* fighting over one Elastic IP"; yaml:515-518 claims it whoever has it).
OneGateway == \A i \in Members : Claimed(i) /\ i \notin robbed => address = i

\* As long as the stored key was not replaced, a gateway that has synced and was
\* not robbed of its address lacks nothing but the route, which an instance on
\* its way out may have taken back (yaml:589-605) and its next sync takes again.
LacksOnlyTheRoute ==
  storedKey <= 1 =>
    \A i \in Members \ robbed : boot[i] = "synced" => Serves(i) \/ route # i

\* A group that goes on wanting a gateway, whose instances boot, whose key was
\* kept, and from which no late boot script took the address, comes to serve for
\* good: an instance that is going away takes the route back at most for a
\* minute (yaml:589-605).  The address is claimed at boot and never again, so a
\* gateway that was robbed of it stays without.
WantedServes ==
  <>[](/\ desired = 1
       /\ storedKey <= 1
       /\ \A i \in Members : boot[i] /= "dead" /\ i \notin robbed)
    => <>[]Serving

\* With nobody visiting, the gateway of a profile that is not supervised ends
\* up off and stays off, even if it was woken while the alarm was already in
\* its state (README.md:237, "With an idle timeout, it does not").  A
\* supervised tunnel that is left on wakes it every time.
IdleStaysOff == ~supervised /\ <>[]quiet => <>[](desired = 0)

\* A replacement keeps the identity every workstation's configuration names
\* (yaml:562, "Read back rather than regenerated").
IdentityKept == [][storedKey /= 0 => storedKey' = storedKey]_gatewayVars
=============================================================================
