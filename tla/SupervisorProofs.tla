-------------------------- MODULE SupervisorProofs --------------------------
(***************************************************************************)
(* Theorems about Tunnel and about Supervisor, for any interfaces, devices *)
(* and callers and any number of faults and clicks.                        *)
(***************************************************************************)
EXTENDS Supervisor, TLAPS

-----------------------------------------------------------------------------
\* The host's own steps, whoever calls (Tunnel).

\* A call is about an interface.
JobNamed == \A a \in Actors : ~Idle(a) => job[a] \in Names

Typed == TunnelTypeOK /\ JobNamed

\* What Device() answers is a device of the kernel's, or nothing.
LEMMA DeviceType ==
  ASSUME Typed, NEW n \in Names
  PROVE  Device(n) \in Devices \cup {NoDevice}
BY DEF Device, Typed, TunnelTypeOK

\* The device a new daemon gets is one that was free.
LEMMA NextIsFree == Existing /= Devices => NextDevice \in Devices \ Existing
BY DEF NextDevice, Existing

\* The initial state is well typed.
LEMMA TypedInit == TunnelInit => Typed
BY TunnelAssumption DEF TunnelInit, Typed, TunnelTypeOK, JobNamed, Idle, At, Outcomes

\* Every step of every caller, daemon and device keeps the state well typed.
LEMMA TypedStep == Typed /\ [TunnelNext]_tunnelVars => Typed'
<1> SUFFICES ASSUME Typed, [TunnelNext]_tunnelVars PROVE Typed'
  OBVIOUS
<1> USE DEF Typed, TunnelTypeOK, JobNamed
<1>0. CASE UNCHANGED tunnelVars
  BY <1>0 DEF tunnelVars, Idle, At
<1>1. ASSUME NEW a \in Actors, NEW n \in Names, CallUp(a, n) PROVE Typed'
  <2>1. Device(n) \in Devices \cup {NoDevice}
    BY DeviceType
  <2> QED
    BY <1>1, <2>1 DEF CallUp, host, Goto, Idle, At, UpSteps, Outcomes
<1>2. ASSUME NEW a \in Actors, NEW n \in Names, CallDown(a, n) PROVE Typed'
  <2>1. Device(n) \in Devices \cup {NoDevice}
    BY DeviceType
  <2> QED
    BY <1>2, <2>1 DEF CallDown, host, Goto, Idle, At, DownSteps, Outcomes
<1>3. ASSUME NEW a \in Actors, NEW n \in Names, CallDownAgain(a, n) PROVE Typed'
  BY <1>3 DEF CallDownAgain, Idle, At, Outcomes
<1>4. ASSUME NEW a \in Actors, UpStep(a) PROVE Typed'
  <2>1. CASE StartRemove(a)
    BY <2>1 DEF StartRemove, Goto, Idle, At, UpSteps
  <2>2. CASE StartSpawn(a)
    BY <2>2, NextIsFree DEF StartSpawn, Goto, Idle, At, UpSteps
  <2>3. CASE SpawnFails(a)
    BY <2>3, TunnelAssumption DEF SpawnFails, Fault, Return, Goto, Idle, At, host, Outcomes
  <2>4. CASE StartWait(a)
    <3>1. Device(job[a]) \in Devices \cup {NoDevice}
      BY <2>4, DeviceType DEF StartWait, At, Idle
    <3> QED
      BY <2>4, <3>1 DEF StartWait, Goto, Idle, At, UpSteps, host
  <2>5. CASE WaitExpires(a)
    BY <2>5 DEF WaitExpires, Return, Goto, Idle, At, host, Outcomes
  <2>6. CASE Configure(a)
    BY <2>6 DEF Configure, Goto, Idle, At, UpSteps
  <2>7. CASE ConfigureFails(a)
    BY <2>7, TunnelAssumption DEF ConfigureFails, Fault, Return, Goto, Idle, At, host, Outcomes
  <2>8. CASE Address(a)
    BY <2>8 DEF Address, Goto, Idle, At, UpSteps, Existing
  <2>9. CASE Routes(a)
    BY <2>9 DEF Routes, Return, Goto, Idle, At, Outcomes, Existing
  <2>10. CASE DeviceLost(a)
    BY <2>10 DEF DeviceLost, Return, Goto, Idle, At, host, Outcomes
  <2> QED
    BY <1>4, <2>1, <2>2, <2>3, <2>4, <2>5, <2>6, <2>7, <2>8, <2>9, <2>10 DEF UpStep
<1>5. ASSUME NEW a \in Actors, DownStep(a) PROVE Typed'
  <2>1. CASE DropSocket(a)
    BY <2>1 DEF DropSocket, Goto, Idle, At, DownSteps
  <2>2. CASE DropName(a)
    BY <2>2 DEF DropName, Goto, Idle, At, DownSteps
  <2>3. CASE DropDone(a)
    BY <2>3 DEF DropDone, Return, Goto, Idle, At, host, Outcomes
  <2>4. CASE DropExpires(a)
    BY <2>4 DEF DropExpires, Return, Goto, Idle, At, host, Outcomes
  <2> QED
    BY <1>5, <2>1, <2>2, <2>3, <2>4 DEF DownStep
<1>6. ASSUME NEW d \in Devices, Exits(d) \/ Dies(d) \/ Wedges(d) PROVE Typed'
  <2>1. CASE Exits(d) \/ Dies(d)
    BY <2>1, TunnelAssumption DEF Exits, Dies, DeviceGoes, Fault, calls, Idle, At
  <2>2. CASE Wedges(d)
    BY <2>2, TunnelAssumption DEF Wedges, Fault, calls, Idle, At
  <2> QED
    BY <1>6, <2>1, <2>2
<1>7. ASSUME NEW a \in Actors, Killed(a) PROVE Typed'
  BY <1>7, TunnelAssumption DEF Killed, CutOff, Fault, Return, Goto, Idle, At, host, Outcomes
<1>8. ASSUME NEW a \in Actors, Hangs(a) PROVE Typed'
  BY <1>8, TunnelAssumption DEF Hangs, Commands, Fault, Goto, Idle, At, host
<1> QED
  BY <1>0, <1>1, <1>2, <1>3, <1>4, <1>5, <1>6, <1>7, <1>8 DEF TunnelNext, CallStep, Environment

\* In every state of every behaviour the state is well typed: no caller leaves
\* a step of Up or Down with a device or an interface that does not exist.
THEOREM TypeCorrect == TunnelSpec => []TunnelTypeOK
<1>1. Typed => TunnelTypeOK
  BY DEF Typed
<1> QED
  BY <1>1, TypedInit, TypedStep, PTL DEF TunnelSpec

-----------------------------------------------------------------------------
\* A call that is about to start a daemon, or has told the serving one to
\* stop, has no serving daemon of its interface behind its back; one that is
\* about to stop a daemon has the only one.
CallsKnow ==
  \A a \in Actors :
    /\ pc[a] \in {"remove", "spawn", "unname"} => \A d \in sockets : owner[d] /= job[a]
    /\ pc[a] = "unlink" => \A d \in sockets : owner[d] = job[a] => d = dev[a]

\* ServingIsNamed alone is not inductive: a call between its look at Device()
\* and its write acts on what it saw.
NamedInv == Typed /\ ServingIsNamed /\ CallsKnow

\* An interface without a usable Device() has no serving daemon, and the only
\* one of an interface that has is that device.
LEMMA DeviceIsTheServer ==
  ASSUME Typed, ServingIsNamed, NEW n \in Names, NEW d \in sockets, owner[d] = n
  PROVE  IsUp(n) /\ Device(n) = d
BY TunnelAssumption DEF ServingIsNamed, Existing, IsUp, Device, Typed, TunnelTypeOK

\* The initial state satisfies the inductive invariant.
LEMMA NamedInit == TunnelInit => NamedInv
BY TypedInit DEF TunnelInit, NamedInv, ServingIsNamed, CallsKnow

\* While no two calls are about one interface, every step keeps it.
LEMMA NamedStep ==
  NamedInv /\ OneCallPerInterface /\ OneCallPerInterface' /\ [TunnelNext]_tunnelVars
    => NamedInv'
<1> SUFFICES ASSUME NamedInv, OneCallPerInterface, OneCallPerInterface',
                    [TunnelNext]_tunnelVars
             PROVE  (ServingIsNamed /\ CallsKnow)'
  BY TypedStep DEF NamedInv
<1> USE DEF NamedInv, Typed, TunnelTypeOK, JobNamed, ServingIsNamed, CallsKnow, OneCallPerInterface
<1>0. CASE UNCHANGED tunnelVars
  BY <1>0 DEF tunnelVars, Existing
<1>1. ASSUME NEW a \in Actors, NEW n \in Names, CallUp(a, n) PROVE (ServingIsNamed /\ CallsKnow)'
  <2>1. ServingIsNamed'
    BY <1>1 DEF CallUp, host, Existing
  <2>2. ~IsUp(n) => \A d \in sockets : owner[d] /= n
    BY DeviceIsTheServer
  <2>3. CallsKnow'
    BY <1>1, <2>2 DEF CallUp, host, Goto, Idle, At
  <2> QED
    BY <2>1, <2>3
<1>2. ASSUME NEW a \in Actors, NEW n \in Names, CallDown(a, n) PROVE (ServingIsNamed /\ CallsKnow)'
  <2>1. ServingIsNamed'
    BY <1>2 DEF CallDown, host, Existing
  <2>2. \A d \in sockets : owner[d] = n => d = Device(n)
    BY DeviceIsTheServer
  <2>3. CallsKnow'
    BY <1>2, <2>2 DEF CallDown, host, Goto, Idle, At
  <2> QED
    BY <2>1, <2>3
<1>3. ASSUME NEW a \in Actors, NEW n \in Names, CallDownAgain(a, n) PROVE (ServingIsNamed /\ CallsKnow)'
  <2>1. \A d \in sockets : owner[d] /= n
    BY <1>3, DeviceIsTheServer DEF CallDownAgain
  <2>2. ServingIsNamed'
    BY <1>3, <2>1 DEF CallDownAgain, Existing
  <2>3. CallsKnow'
    BY <1>3 DEF CallDownAgain, Idle, At
  <2> QED
    BY <2>2, <2>3
<1>4. ASSUME NEW a \in Actors, UpStep(a) PROVE (ServingIsNamed /\ CallsKnow)'
  <2>1. CASE StartRemove(a)
    <3>1. job[a] \in Names /\ \A d \in sockets : owner[d] /= job[a]
      BY <2>1 DEF StartRemove, Idle, At
    <3>2. ServingIsNamed'
      BY <2>1, <3>1 DEF StartRemove, Existing
    <3>3. CallsKnow'
      BY <2>1, <3>1 DEF StartRemove, Goto, At
    <3> QED
      BY <3>2, <3>3
  <2>2. CASE StartSpawn(a)
    <3>1. job[a] \in Names /\ \A d \in sockets : owner[d] /= job[a]
      BY <2>2 DEF StartSpawn, Idle, At
    <3>2. PICK e \in Devices \ Existing :
            /\ owner' = [owner EXCEPT ![e] = job[a]]
            /\ sockets' = sockets \cup {e}
            /\ nameFile' = [nameFile EXCEPT ![job[a]] = e]
      BY <2>2, NextIsFree DEF StartSpawn
    <3>3. ServingIsNamed'
      BY <3>1, <3>2, TunnelAssumption DEF Existing
    <3>4. \A b \in Actors : ~Idle(b) /\ b /= a => job[b] /= job[a]
      BY <2>2 DEF StartSpawn, Idle, At
    <3>5. CallsKnow'
      BY <2>2, <3>2, <3>4 DEF StartSpawn, Goto, Idle, At, Existing
    <3> QED
      BY <3>3, <3>5
  <2>3. CASE SpawnFails(a)
    BY <2>3 DEF SpawnFails, Return, Goto, At, host, Existing
  <2>4. CASE StartWait(a)
    BY <2>4 DEF StartWait, Goto, At, host, Existing
  <2>5. CASE WaitExpires(a)
    BY <2>5 DEF WaitExpires, Return, Goto, At, host, Existing
  <2>6. CASE Configure(a)
    BY <2>6 DEF Configure, Goto, At, Existing
  <2>7. CASE ConfigureFails(a)
    BY <2>7 DEF ConfigureFails, Return, Goto, At, host, Existing
  <2>8. CASE Address(a)
    BY <2>8 DEF Address, Goto, At, Existing
  <2>9. CASE Routes(a)
    BY <2>9 DEF Routes, Return, Goto, At, Existing
  <2>10. CASE DeviceLost(a)
    BY <2>10 DEF DeviceLost, Return, Goto, At, host, Existing
  <2> QED
    BY <1>4, <2>1, <2>2, <2>3, <2>4, <2>5, <2>6, <2>7, <2>8, <2>9, <2>10 DEF UpStep
<1>5. ASSUME NEW a \in Actors, DownStep(a) PROVE (ServingIsNamed /\ CallsKnow)'
  <2>1. CASE DropSocket(a)
    BY <2>1 DEF DropSocket, Goto, At, Existing
  <2>2. CASE DropName(a)
    <3>1. job[a] \in Names /\ \A d \in sockets : owner[d] /= job[a]
      BY <2>2 DEF DropName, Idle, At
    <3>2. ServingIsNamed'
      BY <2>2, <3>1 DEF DropName, Existing
    <3>3. CallsKnow'
      BY <2>2 DEF DropName, Goto, At
    <3> QED
      BY <3>2, <3>3
  <2>3. CASE DropDone(a)
    BY <2>3 DEF DropDone, Return, Goto, At, host, Existing
  <2>4. CASE DropExpires(a)
    BY <2>4 DEF DropExpires, Return, Goto, At, host, Existing
  <2> QED
    BY <1>5, <2>1, <2>2, <2>3, <2>4 DEF DownStep
<1>6. ASSUME NEW d \in Devices, Exits(d) \/ Dies(d) \/ Wedges(d)
      PROVE  (ServingIsNamed /\ CallsKnow)'
  <2>1. CASE Exits(d) \/ Dies(d)
    BY <2>1 DEF Exits, Dies, DeviceGoes, calls, Existing
  <2>2. CASE Wedges(d)
    BY <2>2 DEF Wedges, calls, Existing
  <2> QED
    BY <1>6, <2>1, <2>2
<1>7. ASSUME NEW a \in Actors, Killed(a) PROVE (ServingIsNamed /\ CallsKnow)'
  BY <1>7 DEF Killed, CutOff, Return, Goto, At, host, Existing
<1>8. ASSUME NEW a \in Actors, Hangs(a) PROVE (ServingIsNamed /\ CallsKnow)'
  BY <1>8 DEF Hangs, Commands, Goto, Idle, At, host, Existing
<1> QED
  BY <1>0, <1>1, <1>2, <1>3, <1>4, <1>5, <1>6, <1>7, <1>8 DEF TunnelNext, CallStep, Environment

\* As long as no two calls are about one interface, every serving daemon is
\* the one its name file leads to, so Down can always reach it: a lock per
\* interface would be enough to keep Up from building a second daemon,
\* whatever daemons, kernel and killed callers do.
THEOREM SerialCalls == TunnelSpec => SerialCallsAreNamed
<1>1. NamedInv => ServingIsNamed
  BY DEF NamedInv
<1> QED
  BY <1>1, NamedInit, NamedStep, PTL DEF TunnelSpec, SerialCallsAreNamed

\* So with one call at a time for each interface, Up never builds a second
\* daemon: nothing but the missing lock stands between the code and what
\* tunnel_darwin.go:40 says, which run tunnel_race refutes.
THEOREM SerialCallsOneDaemon == TunnelSpec => ([]OneCallPerInterface => []OneDaemon)
<1>1. ServingIsNamed => OneDaemon
  BY DEF ServingIsNamed, OneDaemon
<1> QED
  BY <1>1, SerialCalls, PTL DEF SerialCallsAreNamed

-----------------------------------------------------------------------------
\* Every call returns or hangs.

\* A call that has neither returned nor hung.
Underway(a) == ~Idle(a) /\ ~At(a, "hung")

\* How many steps a call still has at most.
StepsLeft(a) ==
  CASE pc[a] \in {"idle", "hung"} -> 0
    [] pc[a] \in {"routes", "gone"} -> 1
    [] pc[a] \in {"address", "unname"} -> 2
    [] pc[a] \in {"configure", "unlink"} -> 3
    [] pc[a] = "wait" -> 4
    [] pc[a] = "spawn" -> 5
    [] pc[a] = "remove" -> 6

\* A step of a call brings it closer to its end.
LEMMA StepsShrink ==
  ASSUME TunnelTypeOK, NEW a \in Actors, CallStep(a)
  PROVE  StepsLeft(a)' < StepsLeft(a)
<1> USE DEF TunnelTypeOK, Goto, Return, At, StepsLeft
<1>1. CASE UpStep(a)
  <2>1. CASE StartRemove(a) \/ StartSpawn(a) \/ SpawnFails(a)
    BY <2>1 DEF StartRemove, StartSpawn, SpawnFails
  <2>2. CASE StartWait(a) \/ WaitExpires(a) \/ Configure(a) \/ ConfigureFails(a)
    BY <2>2 DEF StartWait, WaitExpires, Configure, ConfigureFails
  <2>3. CASE Address(a) \/ Routes(a) \/ DeviceLost(a)
    BY <2>3 DEF Address, Routes, DeviceLost
  <2> QED
    BY <1>1, <2>1, <2>2, <2>3 DEF UpStep
<1>2. CASE DownStep(a)
  BY <1>2 DEF DownStep, DropSocket, DropName, DropDone, DropExpires
<1> QED
  BY <1>1, <1>2 DEF CallStep

\* And no other step takes a call further from it.
LEMMA StepsStay ==
  ASSUME TunnelTypeOK, TunnelTypeOK', [TunnelNext]_tunnelVars, NEW a \in Actors, ~Idle(a)
  PROVE  StepsLeft(a)' <= StepsLeft(a)
<1> USE DEF TunnelTypeOK, Idle, At
<1>0. StepsLeft(a) \in 0 .. 6
  BY DEF StepsLeft, UpSteps, DownSteps
<1>1. ASSUME pc'[a] = pc[a] PROVE StepsLeft(a)' <= StepsLeft(a)
  <2>1. StepsLeft(a)' = StepsLeft(a)
    BY <1>1 DEF StepsLeft
  <2> QED
    BY <1>0, <2>1
<1>2. CASE UNCHANGED tunnelVars
  BY <1>1, <1>2 DEF tunnelVars
<1>3. ASSUME NEW b \in Actors, NEW n \in Names, CallUp(b, n) \/ CallDown(b, n) \/ CallDownAgain(b, n)
      PROVE  StepsLeft(a)' <= StepsLeft(a)
  BY <1>1, <1>3 DEF CallUp, CallDown, CallDownAgain, Goto
<1>4. ASSUME NEW b \in Actors, CallStep(b) PROVE StepsLeft(a)' <= StepsLeft(a)
  <2>1. CASE b = a
    <3>1. StepsLeft(a)' < StepsLeft(a)
      BY <1>4, <2>1, StepsShrink
    <3>2. StepsLeft(a)' \in Nat
      BY DEF StepsLeft, UpSteps, DownSteps
    <3> QED
      BY <1>0, <3>1, <3>2
  <2>2. CASE b # a
    <3>1. pc'[a] = pc[a]
      <4>1. CASE UpStep(b)
        BY <2>2, <4>1 DEF UpStep, StartRemove, StartSpawn, SpawnFails, StartWait, WaitExpires,
                          Configure, ConfigureFails, Address, Routes, DeviceLost, Goto, Return
      <4>2. CASE DownStep(b)
        BY <2>2, <4>2 DEF DownStep, DropSocket, DropName, DropDone, DropExpires, Goto, Return
      <4> QED
        BY <1>4, <4>1, <4>2 DEF CallStep
    <3> QED
      BY <1>1, <3>1
  <2> QED
    BY <2>1, <2>2
<1>5. ASSUME NEW d \in Devices, Exits(d) \/ Dies(d) \/ Wedges(d) PROVE StepsLeft(a)' <= StepsLeft(a)
  BY <1>1, <1>5 DEF Exits, Dies, Wedges, DeviceGoes, calls
<1>6. ASSUME NEW b \in Actors, Killed(b) PROVE StepsLeft(a)' <= StepsLeft(a)
  <2>1. pc' = [pc EXCEPT ![b] = "idle"]
    BY <1>6 DEF Killed, CutOff, Return, Goto
  <2>2. CASE b = a
    <3>1. StepsLeft(a)' = 0
      BY <2>1, <2>2 DEF StepsLeft
    <3> QED
      BY <1>0, <3>1
  <2>3. CASE b # a
    BY <1>1, <2>1, <2>3
  <2> QED
    BY <2>2, <2>3
<1>7. ASSUME NEW b \in Actors, Hangs(b) PROVE StepsLeft(a)' <= StepsLeft(a)
  <2>1. pc' = [pc EXCEPT ![b] = "hung"]
    BY <1>7 DEF Hangs, Goto
  <2>2. CASE b = a
    <3>1. StepsLeft(a)' = 0
      BY <2>1, <2>2 DEF StepsLeft
    <3> QED
      BY <1>0, <3>1
  <2>3. CASE b # a
    BY <1>1, <2>1, <2>3
  <2> QED
    BY <2>2, <2>3
<1> QED
  BY <1>2, <1>3, <1>4, <1>5, <1>6, <1>7 DEF TunnelNext, Environment

\* What WF_tunnelVars(CallStep(a)) says of a process, with Underway(a) for
\* ENABLED: where a call is underway the guard of one of its steps is true, and
\* a call that hangs has none.  So of a process whose command never ends
\* nothing is assumed.
GoesOn(a) == []<>~Underway(a) \/ []<><<CallStep(a)>>_tunnelVars

\* Until it hangs, a process's call nears its return: it takes at most six
\* steps, none of which any other caller, daemon or device can undo.
LEMMA CallEnds ==
  ASSUME NEW a \in Actors
  PROVE  TunnelSpec /\ GoesOn(a) => (~Idle(a) ~> (Idle(a) \/ At(a, "hung")))
<1> DEFINE Near(k) == StepsLeft(a) <= k
           N0 == Near(0)
           N1 == Near(1)
           N2 == Near(2)
           N3 == Near(3)
           N4 == Near(4)
           N5 == Near(5)
           N6 == Near(6)
<1>1. TunnelTypeOK => N6 /\ (N0 => ~Underway(a))
  BY DEF TunnelTypeOK, StepsLeft, UpSteps, DownSteps, Underway, Idle, At
<1>2. ASSUME TunnelTypeOK, TunnelTypeOK', NEW k \in 0 .. 6, Near(k), Underway(a), [TunnelNext]_tunnelVars
      PROVE  Near(k)'
  <2>1. StepsLeft(a)' <= StepsLeft(a)
    BY <1>2, StepsStay DEF Underway
  <2>2. StepsLeft(a) \in Nat /\ StepsLeft(a)' \in Nat
    BY <1>2 DEF TunnelTypeOK, StepsLeft, UpSteps, DownSteps
  <2> QED
    BY <1>2, <2>1, <2>2
<1>3. ASSUME TunnelTypeOK, TunnelTypeOK', NEW k \in 1 .. 6, Near(k), <<CallStep(a)>>_tunnelVars
      PROVE  Near(k - 1)'
  <2>1. StepsLeft(a)' < StepsLeft(a)
    BY <1>3, StepsShrink
  <2>2. StepsLeft(a) \in Nat /\ StepsLeft(a)' \in Nat
    BY <1>3 DEF TunnelTypeOK, StepsLeft, UpSteps, DownSteps
  <2> QED
    BY <1>3, <2>1, <2>2
<1>4. TunnelTypeOK /\ TunnelTypeOK' /\ Underway(a) /\ [TunnelNext]_tunnelVars =>
        /\ N1 => N1'
        /\ N2 => N2'
        /\ N3 => N3'
        /\ N4 => N4'
        /\ N5 => N5'
  BY <1>2
<1>5. TunnelTypeOK /\ TunnelTypeOK' /\ <<CallStep(a)>>_tunnelVars =>
        /\ N1 => N0'
        /\ N2 => N1'
        /\ N3 => N2'
        /\ N4 => N3'
        /\ N5 => N4'
        /\ N6 => N5'
  BY <1>3
<1>6. Underway(a) <=> ~Idle(a) /\ ~At(a, "hung")
  BY DEF Underway
<1> HIDE DEF N0, N1, N2, N3, N4, N5, N6
<1> QED
  BY <1>1, <1>4, <1>5, <1>6, TypeCorrect, PTL DEF TunnelSpec, GoesOn

\* The only thing that keeps a call from returning is a command it runs that
\* never ends: with any number of processes, interfaces, devices and faults,
\* no wait loop of Up or Down goes round for ever, and no step of another
\* caller, daemon or device sends a call back to an earlier step.
THEOREM CallsEnd == TunnelSpec /\ (\A a \in Actors : GoesOn(a)) => CallsReturn
<1>1. \A a \in Actors :
        TunnelSpec /\ GoesOn(a) => (~Idle(a) ~> (Idle(a) \/ At(a, "hung")))
  BY CallEnds
<1> QED
  BY <1>1 DEF CallsReturn

-----------------------------------------------------------------------------
\* The daemon beside them (Supervisor).

\* The daemon is busy with an interface.
FocusNamed == phase \notin {"asleep", "next"} => focus \in Names

AllTyped == Typed /\ OwnTypeOK /\ FocusNamed

\* The machine's own steps keep its part of the state well typed, and so do
\* the steps that change nothing of it but how a call returned or how many
\* faults there were.
LEMMA HostTyped ==
  ASSUME Typed
  PROVE  /\ UNCHANGED tunnelVars => Typed'
         /\ \A a \in Actors : TakesOutcome(a) => Typed'
         /\ UNCHANGED <<host, calls>> /\ faults' \in 0 .. MaxFaults => Typed'
         /\ \A a \in Actors, n \in Names :
              CallUp(a, n) \/ CallDown(a, n) \/ CallDownAgain(a, n) => Typed'
         /\ \A a \in Actors : CallStep(a) => Typed'
         /\ \A a \in Actors : CutOff(a) /\ UNCHANGED faults => Typed'
         /\ \A a \in Actors : Hangs(a) => Typed'
         /\ \A d \in Devices : Exits(d) \/ Dies(d) \/ Wedges(d) => Typed'
<1>1. ASSUME NEW a \in Actors, TakesOutcome(a) PROVE Typed'
  BY <1>1 DEF TakesOutcome, Typed, TunnelTypeOK, JobNamed, Idle, At, host, Outcomes
<1>2. UNCHANGED <<host, calls>> /\ faults' \in 0 .. MaxFaults => Typed'
  BY DEF Typed, TunnelTypeOK, JobNamed, Idle, At, host, calls
<1>3. ASSUME NEW a \in Actors, CutOff(a), UNCHANGED faults PROVE Typed'
  BY <1>3 DEF CutOff, Return, Goto, Typed, TunnelTypeOK, JobNamed, Idle, At, host, Outcomes
<1> QED
  BY <1>1, <1>2, <1>3, TypedStep DEF TunnelNext, Environment

\* A fault is counted.
LEMMA FaultCounted == Typed /\ Fault => faults' \in 0 .. MaxFaults
BY TunnelAssumption DEF Typed, TunnelTypeOK, Fault

\* The initial state is well typed.
LEMMA AllTypedInit == Init => AllTyped
<1> SUFFICES ASSUME Init PROVE AllTyped
  OBVIOUS
<1>1. Typed
  BY TypedInit DEF Init
<1>2. wanted \in BOOLEAN
  BY Zenon DEF Init
<1>3. OwnTypeOK
  BY <1>2, SupervisorAssumption DEF Init, OwnTypeOK, Phases, MenuStates
<1> QED
  BY <1>1, <1>3 DEF AllTyped, FocusNamed, Init

\* A step of the daemon keeps the state well typed.
LEMMA DaemonTyped ==
  ASSUME AllTyped, Daemon
  PROVE  AllTyped'
<1>t. Typed /\ OwnTypeOK /\ FocusNamed /\ Sup \in Actors
  BY SupervisorAssumption DEF AllTyped
<1> SUFFICES Typed' /\ OwnTypeOK' /\ FocusNamed'
  BY DEF AllTyped
<1> USE DEF OwnTypeOK, FocusNamed, Phase, Phases, worldVars, linkVars, menuVars
<1>1. CASE StartPass
  BY <1>1, <1>t, HostTyped DEF StartPass
<1>2. CASE EndPass
  BY <1>2, <1>t, HostTyped DEF EndPass
<1>3. ASSUME NEW n \in Names, ReadDesired(n) PROVE Typed' /\ OwnTypeOK' /\ FocusNamed'
  <2>1. wanted' \in BOOLEAN
    BY <1>3, Zenon DEF ReadDesired
  <2> QED
    BY <1>3, <1>t, <2>1, HostTyped DEF ReadDesired
<1>4. CASE LeaveAlone
  <2>1. wanted' \in BOOLEAN
    BY <1>4, Zenon DEF LeaveAlone
  <2> QED
    BY <1>4, <1>t, <2>1, HostTyped DEF LeaveAlone
<1>5. CASE DecideToRaise \/ DecideToDrop \/ DecideToRepin
  BY <1>5, <1>t, HostTyped DEF DecideToRaise, DecideToDrop, DecideToRepin
<1>6. CASE WakeGateway
  <2>1. gateway' \in SUBSET Names
    BY <1>6, <1>t DEF WakeGateway
  <2>2. faults' \in 0 .. MaxFaults
    BY <1>6, <1>t, FaultCounted DEF WakeGateway, Typed, TunnelTypeOK
  <2>3. Typed'
    BY <1>6, <1>t, <2>2, HostTyped DEF WakeGateway, calls
  <2> QED
    BY <1>6, <1>t, <2>1, <2>3 DEF WakeGateway
<1>7. CASE Drop \/ Redrop \/ Raise
  <2>1. focus \in Names
    BY <1>7, <1>t DEF Drop, Redrop, Raise
  <2> QED
    BY <1>7, <1>t, <2>1, HostTyped DEF Drop, Redrop, Raise
<1>8. CASE DropReturned
  BY <1>8, <1>t, HostTyped DEF DropReturned
<1>9. CASE RaiseRefused
  BY <1>9, <1>t, HostTyped, FaultCounted DEF RaiseRefused, Typed, TunnelTypeOK
<1>10. CASE RaiseReturned
  BY <1>10, <1>t, HostTyped DEF RaiseReturned
<1> QED
  BY <1>1, <1>2, <1>3, <1>4, <1>5, <1>6, <1>7, <1>8, <1>9, <1>10 DEF Daemon

\* A step of the menu bar or its user keeps the state well typed.
LEMMA MenuTyped ==
  ASSUME AllTyped, NEW n \in Names, Toggle(n) \/ MenuStep(n)
  PROVE  AllTyped'
<1>t. Typed /\ OwnTypeOK /\ FocusNamed /\ n \in Actors
  BY SupervisorAssumption DEF AllTyped
<1> SUFFICES Typed' /\ OwnTypeOK' /\ FocusNamed'
  BY DEF AllTyped
<1> USE DEF OwnTypeOK, FocusNamed, MenuGoes, MenuStates, worldVars, linkVars, daemonVars
<1>1. CASE Toggle(n)
  <2>1. faults' \in 0 .. MaxFaults /\ toggles' \in 0 .. MaxToggles
    BY <1>1, <1>t, SupervisorAssumption, TunnelAssumption DEF Toggle, Typed, TunnelTypeOK
  <2>2. Typed'
    BY <1>1, <1>t, <2>1, HostTyped DEF Toggle
  <2>3. CASE ToggleOn(n)
    BY <1>1, <1>t, <2>1, <2>2, <2>3 DEF Toggle, ToggleOn
  <2>4. CASE ToggleOff(n)
    BY <1>1, <1>t, <2>1, <2>2, <2>4 DEF Toggle, ToggleOff
  <2> QED
    BY <1>1, <2>3, <2>4 DEF Toggle
<1>2. CASE MenuWake(n)
  <2>1. gateway' \in SUBSET Names
    BY <1>2, <1>t DEF MenuWake
  <2>2. faults' \in 0 .. MaxFaults
    BY <1>2, <1>t, FaultCounted DEF MenuWake, Typed, TunnelTypeOK
  <2>3. Typed'
    BY <1>2, <1>t, <2>2, HostTyped DEF MenuWake
  <2> QED
    BY <1>2, <1>t, <2>1, <2>3 DEF MenuWake
<1>3. CASE MenuCall(n)
  <2>1. Typed'
    BY <1>3, <1>t, HostTyped DEF MenuCall
  <2> QED
    BY <1>3, <1>t, <2>1 DEF MenuCall
<1>4. CASE MenuRefused(n)
  <2>1. Typed'
    BY <1>4, <1>t, HostTyped DEF MenuRefused, Typed, TunnelTypeOK
  <2> QED
    BY <1>4, <1>t, <2>1 DEF MenuRefused, Connected
<1>5. CASE MenuReturned(n)
  <2>1. Typed'
    BY <1>5, <1>t, HostTyped DEF MenuReturned
  <2> QED
    BY <1>5, <1>t, <2>1 DEF MenuReturned, Connected
<1> QED
  BY <1>1, <1>2, <1>3, <1>4, <1>5 DEF MenuStep

\* A restart of the daemon or of the machine keeps the state well typed.
LEMMA RestartTyped ==
  ASSUME AllTyped, DaemonKilled \/ Reboot
  PROVE  AllTyped'
<1>t. Typed /\ OwnTypeOK /\ Sup \in Actors
  BY SupervisorAssumption DEF AllTyped
<1>f. faults' \in 0 .. MaxFaults
  BY <1>t, FaultCounted DEF DaemonKilled, Reboot
<1>1. CASE DaemonKilled
  <2>1. Typed'
    BY <1>1, <1>t, <1>f DEF DaemonKilled, Return, Goto, Typed, TunnelTypeOK, JobNamed, Idle, At, host, Outcomes
  <2> QED
    BY <1>1, <1>t, <2>1 DEF DaemonKilled, AllTyped, OwnTypeOK, FocusNamed, Phases, worldVars, linkVars, menuVars
<1>2. CASE Reboot
  <2>1. Typed'
    BY <1>2, <1>t, <1>f DEF Reboot, Typed, TunnelTypeOK, JobNamed, Idle, At, Outcomes
  <2> QED
    BY <1>2, <1>t, <2>1 DEF Reboot, AllTyped, OwnTypeOK, FocusNamed, Phases, MenuStates, worldVars
<1> QED
  BY <1>1, <1>2

\* A step of the rest of the world keeps the state well typed.
LEMMA WorldTyped ==
  ASSUME AllTyped, World \/ Poll
  PROVE  AllTyped'
<1>t. Typed /\ OwnTypeOK /\ FocusNamed
  BY DEF AllTyped
<1>o. Names \subseteq Actors
  BY SupervisorAssumption
<1> USE DEF AllTyped, OwnTypeOK, FocusNamed, LinkFollows, worldVars, linkVars, daemonVars, menuVars
<1>1. ASSUME NEW a \in Actors, TunnelStep(a) PROVE AllTyped'
  <2>1. Typed'
    BY <1>1, <1>t, HostTyped DEF TunnelStep
  <2>2. fresh' \in SUBSET Devices /\ lost' \in SUBSET Devices
    BY <1>1, <1>t DEF TunnelStep
  <2> QED
    BY <1>1, <1>t, <2>1, <2>2 DEF TunnelStep
<1>2. ASSUME NEW d \in Devices, DeviceStep(d) PROVE AllTyped'
  <2>1. Typed'
    BY <1>2, <1>t, HostTyped DEF DeviceStep
  <2>2. fresh' \in SUBSET Devices /\ lost' \in SUBSET Devices
    BY <1>2, <1>t DEF DeviceStep
  <2> QED
    BY <1>2, <1>t, <2>1, <2>2 DEF DeviceStep
<1>3. ASSUME NEW d \in Devices, Handshakes(d) \/ GoesQuiet(d) PROVE AllTyped'
  <2>1. Typed'
    BY <1>3, <1>t, HostTyped, FaultCounted DEF Handshakes, GoesQuiet, Typed, TunnelTypeOK
  <2>2. fresh' \in SUBSET Devices /\ lost' \in SUBSET Devices
    BY <1>3, <1>t DEF Handshakes, GoesQuiet
  <2> QED
    BY <1>3, <1>t, <2>1, <2>2 DEF Handshakes, GoesQuiet
<1>4. ASSUME NEW n \in Names, HelperKilled(n) PROVE AllTyped'
  BY <1>4, <1>t, <1>o, HostTyped DEF HelperKilled
<1>5. ASSUME NEW n \in Names, Deploy(n) PROVE AllTyped'
  BY <1>5, <1>t, HostTyped DEF Deploy
<1>6. ASSUME NEW n \in Names, GatewayStops(n) PROVE AllTyped'
  <2>1. Typed'
    BY <1>6, <1>t, HostTyped, FaultCounted DEF GatewayStops
  <2> QED
    BY <1>6, <1>t, <2>1 DEF GatewayStops
<1>7. CASE Poll
  BY <1>7, <1>t, HostTyped DEF Poll, Connected
<1>8. ASSUME NEW a \in Actors, CallHangs(a) PROVE AllTyped'
  BY <1>8, <1>t, HostTyped DEF CallHangs
<1> QED
  BY <1>1, <1>2, <1>3, <1>4, <1>5, <1>6, <1>7, <1>8, RestartTyped DEF World

\* Every step keeps the state well typed.
LEMMA AllTypedStep == AllTyped /\ [Next]_vars => AllTyped'
<1>1. ASSUME AllTyped, UNCHANGED vars PROVE AllTyped'
  <2>1. Typed'
    BY <1>1, HostTyped DEF AllTyped, vars, tunnelVars
  <2> QED
    BY <1>1, <2>1 DEF AllTyped, vars, OwnTypeOK, FocusNamed
<1> QED
  BY <1>1, DaemonTyped, MenuTyped, WorldTyped DEF Next

\* In every state of every behaviour the state is well typed: the daemon, the
\* menu bar and the world leave no local variable without a meaning.
THEOREM SupervisorTypeCorrect == Spec => []TypeOK
<1>1. AllTyped => TypeOK
  BY DEF AllTyped, Typed, TypeOK
<1> QED
  BY <1>1, AllTypedInit, AllTypedStep, PTL DEF Spec

-----------------------------------------------------------------------------
\* Whoever is inside Up is carrying out an order: the daemon the one it read
\* in the file, a helper the one its switch was clicked for.
OrderKept ==
  /\ phase \in {"wake", "redrop", "repin", "raise", "raising"} => wanted
  /\ phase \in {"asleep", "next", "drop", "dropping"} => ~wanted
  /\ pc[Sup] \in UpSteps => phase = "raising" /\ job[Sup] = focus
  /\ \A n \in Names : pc[n] \in UpSteps => menu[n] = "raising" /\ job[n] = n

OrderInv == AllTyped /\ OrderKept

\* The initial state satisfies the inductive invariant.
LEMMA OrderInit == Init => OrderInv
BY AllTypedInit, SupervisorAssumption DEF Init, TunnelInit, OrderInv, OrderKept, UpSteps

\* An actor that goes on in a call goes from Up to Up or returns, and never
\* from Down into Up; it touches no other call.
LEMMA CallsGoOn ==
  ASSUME Typed, NEW a \in Actors, CallStep(a) \/ CutOff(a) \/ Hangs(a)
  PROVE  /\ job' = job
         /\ \A b \in Actors : pc'[b] \in UpSteps => pc[b] \in UpSteps
<1> USE DEF Typed, TunnelTypeOK, Goto, Return, At, Idle, UpSteps, DownSteps
<1>1. CASE UpStep(a)
  BY <1>1 DEF UpStep, StartRemove, StartSpawn, SpawnFails, StartWait, WaitExpires,
              Configure, ConfigureFails, Address, Routes, DeviceLost
<1>2. CASE DownStep(a)
  BY <1>2 DEF DownStep, DropSocket, DropName, DropDone, DropExpires
<1>3. CASE CutOff(a)
  BY <1>3 DEF CutOff
<1>4. CASE Hangs(a)
  BY <1>4 DEF Hangs
<1> QED
  BY <1>1, <1>2, <1>3, <1>4 DEF CallStep

\* A step of the daemon keeps the orders.
LEMMA DaemonOrders ==
  ASSUME OrderInv, Daemon
  PROVE  OrderKept'
<1>t. Typed /\ OwnTypeOK /\ OrderKept /\ Sup \in Actors /\ Sup \notin Names
  BY SupervisorAssumption DEF OrderInv, AllTyped
<1>o. \A n \in Names : n \in Actors /\ n /= Sup
  BY SupervisorAssumption
<1> USE DEF OrderKept, Phase, worldVars, linkVars, menuVars
<1>1. CASE StartPass \/ EndPass
  BY <1>1, <1>t DEF StartPass, EndPass, tunnelVars
<1>2. ASSUME NEW n \in Names, ReadDesired(n) PROVE OrderKept'
  BY <1>2, <1>t DEF ReadDesired, tunnelVars
<1>3. CASE LeaveAlone
  BY <1>3, <1>t DEF LeaveAlone, tunnelVars
<1>4. CASE DecideToRaise \/ DecideToDrop \/ DecideToRepin
  BY <1>4, <1>t DEF DecideToRaise, DecideToDrop, DecideToRepin, tunnelVars
<1>5. CASE WakeGateway \/ RaiseRefused
  BY <1>5, <1>t DEF WakeGateway, RaiseRefused, calls
<1>6. CASE Drop \/ Redrop
  BY <1>6, <1>t, <1>o
     DEF Drop, Redrop, CallDown, CallDownAgain, Goto, Idle, At, UpSteps, Typed, TunnelTypeOK
<1>7. CASE DropReturned \/ RaiseReturned
  BY <1>7, <1>t DEF DropReturned, RaiseReturned, TakesOutcome, Idle, At, UpSteps
<1>8. CASE Raise
  BY <1>8, <1>t, <1>o DEF Raise, CallUp, Goto, Idle, At, UpSteps, Typed, TunnelTypeOK
<1> QED
  BY <1>1, <1>2, <1>3, <1>4, <1>5, <1>6, <1>7, <1>8 DEF Daemon

\* A step of the menu bar or its user keeps the orders.
LEMMA MenuOrders ==
  ASSUME OrderInv, NEW n \in Names, Toggle(n) \/ MenuStep(n)
  PROVE  OrderKept'
<1>t. Typed /\ OwnTypeOK /\ OrderKept /\ Sup \in Actors /\ n /= Sup
  BY SupervisorAssumption DEF OrderInv, AllTyped
<1>o. \A m \in Names : m \in Actors
  BY SupervisorAssumption
<1> USE DEF OrderKept, OwnTypeOK, MenuGoes, MenuStates, daemonVars
<1>1. CASE Toggle(n)
  BY <1>1, <1>t DEF Toggle, ToggleOn, ToggleOff, calls
<1>2. CASE MenuWake(n)
  BY <1>2, <1>t DEF MenuWake, calls
<1>3. CASE MenuCall(n)
  BY <1>3, <1>t, <1>o
     DEF MenuCall, CallUp, CallDown, CallDownAgain, Goto, Idle, At, UpSteps, Typed, TunnelTypeOK
<1>4. CASE MenuRefused(n)
  BY <1>4, <1>t DEF MenuRefused, calls
<1>5. CASE MenuReturned(n)
  BY <1>5, <1>t DEF MenuReturned, TakesOutcome, Idle, At, UpSteps
<1> QED
  BY <1>1, <1>2, <1>3, <1>4, <1>5 DEF MenuStep

\* A step of the rest of the world keeps the orders.
LEMMA WorldOrders ==
  ASSUME OrderInv, World \/ Poll
  PROVE  OrderKept'
<1>t. Typed /\ OwnTypeOK /\ OrderKept /\ Sup \in Actors
  BY SupervisorAssumption DEF OrderInv, AllTyped
<1>o. \A n \in Names : n \in Actors /\ n /= Sup
  BY SupervisorAssumption
<1> USE DEF OrderKept, worldVars, daemonVars, menuVars
<1>1. ASSUME NEW a \in Actors, CallStep(a) \/ CutOff(a) \/ Hangs(a), UNCHANGED <<daemonVars, menuVars>>
      PROVE  OrderKept'
  BY <1>1, <1>t, <1>o, CallsGoOn
<1>2. ASSUME NEW d \in Devices, DeviceStep(d) PROVE OrderKept'
  BY <1>2, <1>t DEF DeviceStep, Exits, Dies, Wedges, DeviceGoes, calls
<1>3. ASSUME NEW d \in Devices, Handshakes(d) \/ GoesQuiet(d) PROVE OrderKept'
  BY <1>3, <1>t DEF Handshakes, GoesQuiet, tunnelVars, calls
<1>4. ASSUME NEW n \in Names, Deploy(n) \/ GatewayStops(n) PROVE OrderKept'
  BY <1>4, <1>t DEF Deploy, GatewayStops, tunnelVars, calls
<1>5. CASE DaemonKilled
  BY <1>5, <1>t, <1>o DEF DaemonKilled, Return, Goto, UpSteps, Typed, TunnelTypeOK
<1>6. CASE Reboot
  BY <1>6, <1>t, <1>o DEF Reboot, UpSteps
<1>7. CASE Poll
  BY <1>7, <1>t DEF Poll, tunnelVars
<1> QED
  BY <1>1, <1>2, <1>3, <1>4, <1>5, <1>6, <1>7, <1>o
     DEF World, TunnelStep, CallHangs, HelperKilled

\* Every step keeps the orders.
LEMMA OrderStep == OrderInv /\ [Next]_vars => OrderInv'
<1>1. ASSUME OrderInv, UNCHANGED vars PROVE OrderKept'
  BY <1>1 DEF OrderInv, OrderKept, vars, tunnelVars
<1>2. ASSUME OrderInv, Next PROVE OrderKept'
  BY <1>2, DaemonOrders, MenuOrders, WorldOrders DEF Next
<1> QED
  BY <1>1, <1>2, AllTypedStep DEF OrderInv

-----------------------------------------------------------------------------
\* Nothing but a spawned daemon gives an interface a socket or a name file, and
\* a daemon that still listens is the one that did.
Shrinks ==
  /\ sockets' \subseteq sockets
  /\ \A n \in Names : nameFile'[n] \in {nameFile[n], NoDevice}
  /\ \A d \in sockets' : owner'[d] = owner[d]

\* Every step but a spawn only takes names and sockets away.
LEMMA SpawnOrShrink ==
  ASSUME AllTyped, [Next]_vars
  PROVE  Shrinks \/ \E a \in Actors : StartSpawn(a)
<1>t. /\ Typed /\ nameFile \in [Names -> Devices \cup {NoDevice}]
      /\ owner \in [Devices -> Names \cup {NoName}] /\ sockets \in SUBSET Devices
  BY DEF AllTyped, Typed, TunnelTypeOK
<1> USE DEF Shrinks
<1>1. ASSUME UNCHANGED host PROVE Shrinks
  BY <1>1, <1>t DEF host
<1>2. ASSUME NEW a \in Actors, NEW n \in Names,
             CallUp(a, n) \/ CallDown(a, n) \/ CallDownAgain(a, n) \/ TakesOutcome(a)
      PROVE  Shrinks
  BY <1>1, <1>2, <1>t DEF CallUp, CallDown, CallDownAgain, TakesOutcome
<1>3. ASSUME NEW a \in Actors, CallStep(a) \/ CutOff(a) \/ Hangs(a)
      PROVE  Shrinks \/ StartSpawn(a)
  BY <1>1, <1>3, <1>t
     DEF CallStep, UpStep, DownStep, StartRemove, SpawnFails, StartWait, WaitExpires, Configure,
         ConfigureFails, Address, Routes, DeviceLost, DropSocket, DropName, DropDone, DropExpires,
         CutOff, Hangs
<1>4. ASSUME NEW d \in Devices, Exits(d) \/ Dies(d) \/ Wedges(d) PROVE Shrinks
  BY <1>4, <1>t DEF Exits, Dies, Wedges, DeviceGoes
<1>5. CASE Daemon
  <2>1. CASE Drop \/ Redrop \/ Raise \/ DropReturned \/ RaiseReturned
    <3>1. Drop \/ Redrop \/ Raise => focus \in Names
      BY DEF AllTyped, FocusNamed, Drop, Redrop, Raise, Phase
    <3> QED
      BY <2>1, <3>1, <1>1, <1>2, SupervisorAssumption
         DEF Drop, Redrop, Raise, DropReturned, RaiseReturned, TakesOutcome
  <2> QED
    BY <1>1, <1>5, <2>1
       DEF Daemon, StartPass, EndPass, ReadDesired, LeaveAlone, DecideToRaise, DecideToDrop,
           DecideToRepin, WakeGateway, RaiseRefused, tunnelVars, host
<1>6. ASSUME NEW n \in Names, Toggle(n) \/ MenuStep(n) PROVE Shrinks
  BY <1>1, <1>2, <1>6, SupervisorAssumption
     DEF Toggle, MenuStep, MenuWake, MenuCall, MenuRefused, MenuReturned
<1>7. CASE Poll \/ World
  BY <1>1, <1>3, <1>4, <1>7, <1>t, SupervisorAssumption
     DEF Poll, World, TunnelStep, CallHangs, DeviceStep, HelperKilled, DaemonKilled, Reboot,
         Deploy, Handshakes, GoesQuiet, GatewayStops, tunnelVars, host
<1> QED
  BY <1>1, <1>5, <1>6, <1>7 DEF Next, vars, tunnelVars, host

\* An interface comes up only where somebody is inside Up for it, provided
\* that its name file does not lead to the daemon of another interface.
LEMMA LinkRises ==
  ASSUME AllTyped, RightTunnel', [Next]_vars, NEW n \in Names, n \in Up' \ Up
  PROVE  \E a \in Actors : pc[a] \in UpSteps /\ job[a] = n
<1>t. /\ Typed /\ nameFile \in [Names -> Devices \cup {NoDevice}]
      /\ owner \in [Devices -> Names \cup {NoName}] /\ sockets \in SUBSET Devices
  BY DEF AllTyped, Typed, TunnelTypeOK
<1> USE DEF Up, IsUp, Device
<1>1. ~Shrinks
  BY <1>t, TunnelAssumption DEF Shrinks
<1>2. PICK a \in Actors : StartSpawn(a)
  BY <1>1, SpawnOrShrink
<1>3. PICK e \in Devices \ Existing :
        /\ owner' = [owner EXCEPT ![e] = job[a]]
        /\ sockets' = sockets \cup {e}
        /\ nameFile' = [nameFile EXCEPT ![job[a]] = e]
  BY <1>2, NextIsFree DEF StartSpawn
<1>4. n /= job[a] => nameFile'[n] = e /\ owner'[e] = n
  BY <1>3, <1>t, TunnelAssumption DEF RightTunnel
<1>5. n = job[a]
  BY <1>3, <1>4, <1>t
<1> QED
  BY <1>2, <1>5 DEF StartSpawn, At, UpSteps

\* The helpers that are carrying out an order.
Ordering == {"wake", "raise", "raising"}

\* Every order is placed by one who sees the switch on.
LEMMA OrdersAuthorised ==
  ASSUME OrderInv, [Next]_vars
  PROVE  Promise!Authorised
<1>t. OwnTypeOK /\ OrderKept
  BY DEF OrderInv, AllTyped
<1>1. ASSUME wanted' => wanted /\ focus' = focus,
             \A m \in Names : menu'[m] \in Ordering => menu[m] \in Ordering
      PROVE  Promise!Authorised
  BY <1>1 DEF Promise!Authorised, Orders, Ordering
<1>2. ASSUME UNCHANGED <<wanted, focus, menu>> PROVE Promise!Authorised
  BY <1>1, <1>2
<1> USE DEF OwnTypeOK, worldVars, linkVars, daemonVars, menuVars, Phase
<1>3. CASE Daemon
  <2>1. ASSUME NEW n \in Names, ReadDesired(n) PROVE Promise!Authorised
    <3>1. wanted' => n \in On /\ focus' = n
      BY <2>1 DEF ReadDesired, On
    <3>2. menu' = menu
      BY <2>1 DEF ReadDesired
    <3> QED
      BY <3>1, <3>2 DEF Promise!Authorised, Orders
  <2>2. CASE LeaveAlone \/ DropReturned \/ RaiseRefused \/ RaiseReturned
    BY <1>1, <2>2 DEF LeaveAlone, DropReturned, RaiseRefused, RaiseReturned
  <2> QED
    BY <1>2, <1>3, <2>1, <2>2
       DEF Daemon, StartPass, EndPass, DecideToRaise, DecideToDrop, DecideToRepin, WakeGateway,
           Drop, Redrop, Raise
<1>4. ASSUME NEW n \in Names, Toggle(n) PROVE Promise!Authorised
  <2>1. CASE ToggleOn(n)
    <3>1. n \in On' /\ UNCHANGED <<wanted, focus>>
      BY <1>4, <1>t, <2>1 DEF Toggle, ToggleOn, On
    <3>2. \A m \in Names : m /= n => menu'[m] = menu[m]
      BY <2>1 DEF ToggleOn, MenuGoes
    <3> QED
      BY <3>1, <3>2 DEF Promise!Authorised, Orders
  <2>2. CASE ToggleOff(n)
    BY <1>1, <1>4, <2>2 DEF Toggle, ToggleOff, MenuGoes, Ordering
  <2> QED
    BY <1>4, <2>1, <2>2 DEF Toggle
<1>5. ASSUME NEW n \in Names, MenuStep(n) PROVE Promise!Authorised
  BY <1>1, <1>t, <1>5
     DEF MenuStep, MenuWake, MenuCall, MenuRefused, MenuReturned, MenuGoes, Ordering, MenuStates
<1>6. CASE Poll \/ World
  BY <1>1, <1>2, <1>6
     DEF Poll, World, TunnelStep, CallHangs, DeviceStep, HelperKilled, DaemonKilled, Reboot,
         Deploy, Handshakes, GoesQuiet, GatewayStops, Ordering
<1> QED
  BY <1>2, <1>3, <1>4, <1>5, <1>6 DEF Next, vars

\* A step of daemon, menu bar and world is a step of the switch.
LEMMA PromiseStep ==
  ASSUME OrderInv, OrderInv', RightTunnel', [Next]_vars
  PROVE  Promise!Next
<1>1. Promise!Authorised
  BY OrdersAuthorised
<1>2. ASSUME NEW a \in Actors, pc[a] \in UpSteps PROVE <<a, job[a]>> \in Orders
  <2>1. CASE a = Sup
    BY <1>2, <2>1 DEF OrderInv, OrderKept, Orders
  <2>2. CASE a \in Names
    BY <1>2, <2>2 DEF OrderInv, OrderKept, Orders
  <2> QED
    BY <2>1, <2>2, SupervisorAssumption
<1>3. Promise!Ordered
  BY <1>2, LinkRises DEF Promise!Ordered, OrderInv, Up
<1>4. On' \subseteq Names /\ Up' \subseteq Names
  BY DEF On, Up
<1>5. Orders' \subseteq Actors \X Names
  BY SupervisorAssumption DEF Orders, OrderInv, OrderKept, AllTyped, FocusNamed, OwnTypeOK, Phases
<1> QED
  BY <1>1, <1>3, <1>4, <1>5 DEF Promise!Next

\* As long as no name file leads to another interface's daemon, the daemon and
\* the menu bar keep the switch's promise, however their steps fall between
\* each other (reconcileTunnel, supervise.go:150, and toggleTunnel): with
\* several interfaces the promise needs RightTunnel and nothing else.
THEOREM PromiseKept == Spec /\ []RightTunnel => KeepsPromise
<1>1. Init => Promise!Init
  <2> SUFFICES ASSUME Init PROVE Promise!Init
    OBVIOUS
  <2>1. On \subseteq Names
    BY DEF On
  <2>2. Up = {}
    BY DEF Init, TunnelInit, Up, IsUp, Device
  <2>3. Orders = {}
    BY DEF Init, Orders
  <2> QED
    BY <2>1, <2>2, <2>3 DEF Promise!Init
<1>2. OrderInv /\ OrderInv' /\ RightTunnel' /\ [Next]_vars => Promise!Next
  BY PromiseStep
<1> QED
  BY <1>1, <1>2, OrderInit, OrderStep, PTL DEF Spec, KeepsPromise, Promise!Spec

\* A socket is that of a running daemon.
ServedInv == OrderInv /\ sockets \subseteq Existing

\* Every step keeps it.
LEMMA ServedStep == ServedInv /\ [Next]_vars => ServedInv'
<1> SUFFICES ASSUME ServedInv, [Next]_vars PROVE sockets' \subseteq Existing'
  BY OrderStep DEF ServedInv
<1>t. /\ AllTyped /\ AllTyped' /\ sockets \subseteq Existing
      /\ owner \in [Devices -> Names \cup {NoName}] /\ sockets' \in SUBSET Devices
  BY OrderStep DEF ServedInv, OrderInv, AllTyped, Typed, TunnelTypeOK
<1>1. CASE Shrinks
  BY <1>1, <1>t DEF Shrinks, Existing
<1>2. ASSUME NEW a \in Actors, StartSpawn(a) PROVE sockets' \subseteq Existing'
  <2>1. job[a] \in Names
    BY <1>2, <1>t DEF StartSpawn, AllTyped, Typed, JobNamed, Idle, At
  <2> QED
    BY <1>2, <1>t, <2>1, NextIsFree, TunnelAssumption DEF StartSpawn, Existing
<1> QED
  BY <1>1, <1>2, <1>t, SpawnOrShrink

\* With one interface nothing has to be assumed: its name file can lead to no
\* daemon but its own, and the switch's promise is kept for any number of
\* devices, faults and clicks.
THEOREM PromiseOfOne ==
  ASSUME \A m, n \in Names : m = n
  PROVE  Spec => KeepsPromise
<1>1. Init => ServedInv
  BY OrderInit DEF Init, TunnelInit, ServedInv
<1>2. ServedInv => RightTunnel
  <2> SUFFICES ASSUME ServedInv, NEW n \in Names, IsUp(n) PROVE owner[Device(n)] = n
    BY DEF RightTunnel
  <2>1. owner \in [Devices -> Names \cup {NoName}] /\ Device(n) \in Existing
    BY DEF ServedInv, OrderInv, AllTyped, Typed, TunnelTypeOK, IsUp, Device
  <2> QED
    BY <2>1 DEF Existing
<1> QED
  BY <1>1, <1>2, ServedStep, PromiseKept, PTL DEF Spec
=============================================================================
