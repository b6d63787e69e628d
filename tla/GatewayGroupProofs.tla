------------------------- MODULE GatewayGroupProofs -------------------------
(***************************************************************************)
(* Theorems about GatewayGroup, for any number of instances, wakers,       *)
(* clicks, visits and faults.                                              *)
(***************************************************************************)
EXTENDS GatewayGroup, FiniteSetTheorems, TLAPS

\* The key is generated once, and once more for every failure.
Typed == GroupTypeOK /\ storedKey <= faults + 1

\* The initial state is well typed.
LEMMA TypedInit == Init => Typed
<1> SUFFICES ASSUME Init PROVE Typed
  OBVIOUS
<1>1. quiet \in BOOLEAN /\ cooling \in BOOLEAN /\ supervised \in BOOLEAN
  BY Zenon DEF Init
<1>2. sawZero \in [Wakers -> BOOLEAN]
  BY Zenon DEF Init
<1> QED
  BY <1>1, <1>2, GatewayGroupAssumption DEF Init, Typed, GroupTypeOK, Lives, Boots

\* A waker's step keeps the state well typed.
LEMMA WakerTyped ==
  ASSUME Typed, NEW w \in Wakers, Waker(w)
  PROVE  Typed'
<1> USE GatewayGroupAssumption DEF Typed, GroupTypeOK, groupVars, bootVars, alarmVars, bounds
<1>1. CASE Describe(w)
  BY <1>1 DEF Describe, Called
<1>2. CASE Ask(w)
  BY <1>2 DEF Ask
<1>3. CASE StopWaiting(w)
  BY <1>3 DEF StopWaiting
<1>4. CASE WakeFails(w)
  BY <1>4 DEF WakeFails, Fault
<1> QED
  BY <1>1, <1>2, <1>3, <1>4 DEF Waker

\* A step of Auto Scaling keeps the state well typed.
LEMMA LifeTyped ==
  ASSUME Typed, NEW i \in Instances,
         Launch(i) \/ EntersService(i) \/ ScaleIn(i) \/ Unhealthy(i) \/ Terminated(i)
  PROVE  Typed'
<1> USE GatewayGroupAssumption
    DEF Typed, GroupTypeOK, Becomes, alarmVars, wakeVars, bootVars, bounds, Lives, Boots
<1>1. CASE Launch(i)
  BY <1>1 DEF Launch
<1>2. CASE EntersService(i)
  BY <1>2 DEF EntersService
<1>3. CASE ScaleIn(i)
  BY <1>3 DEF ScaleIn
<1>4. CASE Unhealthy(i)
  BY <1>4 DEF Unhealthy, Fault
<1>5. CASE Terminated(i)
  BY <1>5 DEF Terminated
<1> QED
  BY <1>1, <1>2, <1>3, <1>4, <1>5

\* A step of an instance's boot script or sync keeps the state well typed.
LEMMA BootTyped ==
  ASSUME Typed, NEW i \in Instances,
         \/ ClaimAddress(i) \/ ReuseKey(i) \/ GenerateKey(i)
         \/ FirstSync(i) \/ BootDies(i) \/ SyncAgain(i)
  PROVE  Typed'
<1> USE GatewayGroupAssumption
    DEF Typed, GroupTypeOK, BootGoes, groupVars, alarmVars, wakeVars, bounds, Boots
<1>1. CASE ClaimAddress(i)
  <2>1. robbed' \in SUBSET Instances
    BY <1>1 DEF ClaimAddress, Members
  <2> QED
    BY <1>1, <2>1 DEF ClaimAddress
<1>2. CASE ReuseKey(i)
  BY <1>2 DEF ReuseKey
<1>3. CASE GenerateKey(i)
  BY <1>3 DEF GenerateKey, Fault
<1>4. CASE FirstSync(i)
  BY <1>4 DEF FirstSync
<1>5. CASE BootDies(i)
  BY <1>5 DEF BootDies, Fault
<1>6. CASE SyncAgain(i)
  BY <1>6 DEF SyncAgain
<1> QED
  BY <1>1, <1>2, <1>3, <1>4, <1>5, <1>6

\* Every step keeps the state well typed.
LEMMA TypedStep == Typed /\ [Next]_gatewayVars => Typed'
<1> SUFFICES ASSUME Typed, [Next]_gatewayVars PROVE Typed'
  OBVIOUS
<1>0. CASE UNCHANGED gatewayVars
  BY <1>0 DEF gatewayVars, Typed, GroupTypeOK
<1>1. CASE \E w \in Wakers : Waker(w)
  BY <1>1, WakerTyped
<1>2. ASSUME NEW i \in Instances,
             \/ Launch(i) \/ ScaleIn(i) \/ EntersService(i) \/ Unhealthy(i) \/ Terminated(i)
             \/ ClaimAddress(i) \/ ReuseKey(i) \/ GenerateKey(i) \/ FirstSync(i) \/ BootDies(i)
             \/ SyncAgain(i)
      PROVE  Typed'
  BY <1>2, LifeTyped, BootTyped
<1>3. CASE FallsQuiet
  BY <1>3 DEF FallsQuiet, Typed, GroupTypeOK, groupVars, bootVars, wakeVars, bounds
<1>4. CASE Visit
  <2>1. visits' \in 0 .. MaxVisits
    BY <1>4, GatewayGroupAssumption DEF Visit, Typed, GroupTypeOK
  <2> QED
    BY <1>4, <2>1 DEF Visit, Typed, GroupTypeOK, groupVars, bootVars, wakeVars
<1>5. CASE ScaleToZero
  BY <1>5 DEF ScaleToZero, Typed, GroupTypeOK, bootVars, wakeVars, bounds
<1>6. CASE CooldownEnds
  BY <1>6 DEF CooldownEnds, Typed, GroupTypeOK, groupVars, bootVars, wakeVars, bounds
<1> QED
  BY <1>0, <1>1, <1>2, <1>3, <1>4, <1>5, <1>6 DEF Next

\* In every state of every behaviour the state is well typed; in particular
\* nobody ever asks for more than one instance.
THEOREM TypeCorrect == Spec => []GroupTypeOK
<1>1. Typed => GroupTypeOK
  BY DEF Typed
<1> QED
  BY <1>1, TypedInit, TypedStep, PTL DEF Spec

-----------------------------------------------------------------------------
\* An instance is only launched into an empty group.
SingleInv == GroupTypeOK /\ \A i, j \in Members : i = j

\* Two instances never boot or serve at once, however the wakers, the alarm,
\* the group and failures interleave.
LEMMA SingleStep == SingleInv /\ [Next]_gatewayVars => \A i, j \in Members' : i = j
<1> SUFFICES ASSUME SingleInv, [Next]_gatewayVars PROVE \A i, j \in Members' : i = j
  OBVIOUS
<1> USE DEF SingleInv, Members
<1>0. CASE life' = life
  BY <1>0
<1>1. ASSUME NEW k \in Instances, Launch(k) PROVE \A i, j \in Members' : i = j
  <2>1. Members = {}
    <3>1. IsFiniteSet(Members)
      BY GatewayGroupAssumption, FS_Subset
    <3>2. Cardinality(Members) \in Nat
      BY <3>1, FS_CardinalityType
    <3>3. Cardinality(Members) < desired /\ desired \in 0 .. 1
      BY <1>1 DEF Launch, GroupTypeOK
    <3>4. Cardinality(Members) = 0
      BY <3>2, <3>3
    <3> QED
      BY <3>1, <3>4, FS_EmptySet
  <2> QED
    BY <1>1, <2>1 DEF Launch, Becomes, GroupTypeOK
<1>2. ASSUME NEW k \in Instances,
             EntersService(k) \/ ScaleIn(k) \/ Unhealthy(k) \/ Terminated(k)
      PROVE  \A i, j \in Members' : i = j
  BY <1>2 DEF EntersService, ScaleIn, Unhealthy, Terminated, Becomes, GroupTypeOK
<1>3. ASSUME NEW w \in Wakers, Waker(w) PROVE life' = life
  BY <1>3 DEF Waker, Describe, Ask, StopWaiting, WakeFails, groupVars
<1>4. ASSUME NEW k \in Instances,
             \/ ClaimAddress(k) \/ ReuseKey(k) \/ GenerateKey(k)
             \/ FirstSync(k) \/ BootDies(k) \/ SyncAgain(k)
      PROVE  life' = life
  BY <1>4 DEF ClaimAddress, ReuseKey, GenerateKey, FirstSync, BootDies, SyncAgain,
              BootGoes, groupVars
<1>5. CASE FallsQuiet \/ Visit \/ ScaleToZero \/ CooldownEnds
  BY <1>0, <1>5 DEF FallsQuiet, Visit, ScaleToZero, CooldownEnds, groupVars
<1>6. CASE UNCHANGED gatewayVars
  BY <1>0, <1>6 DEF gatewayVars
<1> QED
  BY <1>0, <1>1, <1>2, <1>3, <1>4, <1>5, <1>6 DEF Next

\* The instance that has taken the address has it unless it was robbed of it,
\* and one that is not there has not begun to boot.
Single == \A i, j \in Members : i = j
Holding == /\ \A i \in Members \ robbed : Claimed(i) => address = i
           /\ \A i \in Instances : life[i] = "none" => boot[i] = "start"

\* The address changes hands when the group has let go of who had it, or when
\* one whom the group has let go of robs the member that has it.
LEMMA HoldingStep == GroupTypeOK /\ Single /\ Holding /\ [Next]_gatewayVars => Holding'
<1> SUFFICES ASSUME GroupTypeOK, Single, Holding, [Next]_gatewayVars PROVE Holding'
  OBVIOUS
<1> USE DEF GroupTypeOK, Holding, Members, Claimed
<1>0. CASE UNCHANGED <<life, boot, address, robbed>>
  BY <1>0
<1>1. ASSUME NEW k \in Instances, Launch(k) PROVE Holding'
  BY <1>1 DEF Launch, Becomes, bootVars
<1>2. ASSUME NEW k \in Instances, EntersService(k) \/ ScaleIn(k) \/ Unhealthy(k) PROVE Holding'
  BY <1>2 DEF EntersService, ScaleIn, Unhealthy, Becomes, bootVars
<1>3. ASSUME NEW k \in Instances, Terminated(k) PROVE Holding'
  <2>1. k \notin Members
    BY <1>3 DEF Terminated
  <2>2. \A i \in Members' : i \in Members /\ boot'[i] = boot[i] /\ (i \in robbed <=> i \in robbed')
    BY <1>3, <2>1 DEF Terminated, Becomes
  <2>3. \A i \in Members : address = i => address' = i
    BY <1>3, <2>1 DEF Terminated
  <2>4. \A i \in Instances : life'[i] = "none" => boot'[i] = "start"
    BY <1>3 DEF Terminated, Becomes
  <2> QED
    BY <2>2, <2>3, <2>4
<1>4. ASSUME NEW k \in Instances, ClaimAddress(k) PROVE Holding'
  <2>1. /\ life' = life /\ address' = k
        /\ \A i \in Instances : i # k => boot'[i] = boot[i]
        /\ \A i \in Instances : life'[i] = "none" => boot'[i] = "start"
    BY <1>4 DEF ClaimAddress, BootGoes, groupVars
  <2>2. CASE k \in Members
    BY <2>1, <2>2 DEF Single
  <2>3. CASE k \notin Members
    <3>1. robbed' = robbed \cup (Members \cap {address})
      BY <1>4, <2>3 DEF ClaimAddress
    <3> QED
      BY <2>1, <2>3, <3>1
  <2> QED
    BY <2>2, <2>3
<1>5. ASSUME NEW k \in Instances, ReuseKey(k) \/ GenerateKey(k) \/ FirstSync(k) PROVE Holding'
  BY <1>5 DEF ReuseKey, GenerateKey, FirstSync, BootGoes, groupVars
<1>6. ASSUME NEW k \in Instances, BootDies(k) PROVE Holding'
  BY <1>6 DEF BootDies, BootGoes, groupVars
<1>7. ASSUME NEW k \in Instances, SyncAgain(k) PROVE Holding'
  BY <1>0, <1>7 DEF SyncAgain, groupVars
<1>8. ASSUME NEW w \in Wakers, Waker(w) PROVE Holding'
  BY <1>0, <1>8 DEF Waker, Describe, Ask, StopWaiting, WakeFails, groupVars, bootVars
<1>9. CASE FallsQuiet \/ Visit \/ ScaleToZero \/ CooldownEnds
  BY <1>0, <1>9 DEF FallsQuiet, Visit, ScaleToZero, CooldownEnds, groupVars, bootVars
<1>10. CASE UNCHANGED gatewayVars
  BY <1>0, <1>10 DEF gatewayVars
<1> QED
  BY <1>1, <1>2, <1>3, <1>4, <1>5, <1>6, <1>7, <1>8, <1>9, <1>10 DEF Next

\* Holding and Single are kept by every step.
LEMMA HoldingInvariance == Spec => [](GroupTypeOK /\ Single /\ Holding)
<1>1. Init => Single /\ Holding
  BY DEF Init, Single, Holding, Members, Claimed
<1>2. GroupTypeOK /\ Single /\ [Next]_gatewayVars => Single'
  BY SingleStep DEF SingleInv, Single
<1> QED
  BY <1>1, <1>2, HoldingStep, TypeCorrect, PTL DEF Spec

\* In every state of every behaviour a member that has taken the Elastic IP has
\* it, unless the boot script of an instance that the group had let go took it:
\* no wake, alarm, scale-in, replacement, sync or termination ever does.
THEOREM AddressIsKept == Spec => []OneGateway
<1>1. Holding => OneGateway
  BY DEF Holding, OneGateway
<1> QED
  BY <1>1, HoldingInvariance, PTL

-----------------------------------------------------------------------------
\* An instance runs with a key that was stored once, and has one by the time
\* it syncs.
Keyed == \A i \in Instances :
           /\ keyOf[i] <= storedKey
           /\ boot[i] \in {"keyed", "synced"} => keyOf[i] # 0

\* No step gives an instance another key than the stored one.
LEMMA KeyedStep == GroupTypeOK /\ Keyed /\ [Next]_gatewayVars => Keyed'
<1> SUFFICES ASSUME GroupTypeOK, Keyed, [Next]_gatewayVars PROVE Keyed'
  OBVIOUS
<1>0. CASE UNCHANGED <<boot, keyOf, storedKey>>
  BY <1>0 DEF Keyed
<1>1. storedKey \in Nat /\ \A i \in Instances : keyOf[i] \in Nat
  BY GatewayGroupAssumption DEF GroupTypeOK
<1>2. boot \in [Instances -> Boots] /\ keyOf \in [Instances -> Nat]
  BY GatewayGroupAssumption DEF GroupTypeOK
<1>3. ASSUME NEW k \in Instances, ReuseKey(k) PROVE Keyed'
  BY <1>1, <1>2, <1>3 DEF ReuseKey, BootGoes, Keyed
<1>4. ASSUME NEW k \in Instances, GenerateKey(k) PROVE Keyed'
  BY <1>1, <1>2, <1>4 DEF GenerateKey, BootGoes, Keyed
<1>5. ASSUME NEW k \in Instances, Terminated(k) PROVE Keyed'
  BY <1>1, <1>2, <1>5 DEF Terminated, Keyed
<1>6. ASSUME NEW k \in Instances, ClaimAddress(k) \/ FirstSync(k) \/ BootDies(k) PROVE Keyed'
  BY <1>2, <1>6 DEF ClaimAddress, FirstSync, BootDies, BootGoes, Keyed
<1>7. ASSUME NEW k \in Instances,
             Launch(k) \/ EntersService(k) \/ ScaleIn(k) \/ Unhealthy(k) \/ SyncAgain(k)
      PROVE  Keyed'
  BY <1>0, <1>7 DEF Launch, EntersService, ScaleIn, Unhealthy, SyncAgain, bootVars
<1>8. ASSUME NEW w \in Wakers, Waker(w) PROVE Keyed'
  BY <1>0, <1>8 DEF Waker, Describe, Ask, StopWaiting, WakeFails, bootVars
<1>9. CASE FallsQuiet \/ Visit \/ ScaleToZero \/ CooldownEnds
  BY <1>0, <1>9 DEF FallsQuiet, Visit, ScaleToZero, CooldownEnds, bootVars
<1>10. CASE UNCHANGED gatewayVars
  BY <1>0, <1>10 DEF gatewayVars
<1> QED
  BY <1>3, <1>4, <1>5, <1>6, <1>7, <1>8, <1>9, <1>10 DEF Next

\* In every state of every behaviour a gateway that has synced and still has its
\* address serves, but for the route, as long as the stored key is the first
\* one: but for a late claim, what WantedServes asks for can only be lost in a
\* way that the gateway's own sync repairs.
THEOREM SyncedServes == Spec => []LacksOnlyTheRoute
<1>1. Init => Keyed
  BY DEF Init, Keyed
<1>2. ASSUME GroupTypeOK, Holding, Keyed PROVE LacksOnlyTheRoute
  <2> SUFFICES ASSUME storedKey <= 1, NEW i \in Members \ robbed, boot[i] = "synced", route = i
               PROVE  Serves(i)
    BY DEF LacksOnlyTheRoute
  <2>1. i \in Instances /\ address = i
    BY <1>2 DEF Holding, Claimed, Members
  <2>2. keyOf[i] \in Nat /\ storedKey \in Nat /\ keyOf[i] <= storedKey /\ keyOf[i] # 0
    BY <1>2, <2>1, GatewayGroupAssumption DEF Keyed, GroupTypeOK
  <2> QED
    BY <2>1, <2>2 DEF Serves
<1> QED
  BY <1>1, <1>2, KeyedStep, HoldingInvariance, TypeCorrect, PTL DEF Spec
=============================================================================
