------------------------------- MODULE Tunnel -------------------------------
(***************************************************************************)
(* The WireGuard interfaces of one Mac as internal/tunnel/tunnel_darwin.go *)
(* keeps them.  Every logical interface (wg0, wg1, ...) has a name file    *)
(* holding the utun it runs on; every wireguard-go daemon has a UAPI       *)
(* socket named after its utun; AllowedIPs are routed to a utun.           *)
(*                                                                         *)
(* Up and Down are sequences of steps.  Nothing in the code keeps two      *)
(* callers apart (the supervisor, the menu bar's helper, `reload` and the  *)
(* installer all call them), so each Actor has a program counter and the   *)
(* steps interleave.  wireguard-go and the kernel are external: a daemon   *)
(* may fail to start, refuse a configuration, die, exit late or wedge, the *)
(* number of a utun that is gone is handed out again, and a command that a *)
(* call runs and waits for may never end.                                  *)
(***************************************************************************)
EXTENDS Naturals

CONSTANTS
  Names,      \* the logical interfaces, one per profile
  NoName,
  Devices,    \* the utun devices the kernel can hand out (a bound)
  NoDevice,   \* the empty string Device() returns
  Actors,     \* the processes that call Up and Down
  MaxFaults   \* how many external faults a behaviour has (a bound)

ASSUME TunnelAssumption ==
  /\ NoName \notin Names
  /\ NoDevice \notin Devices
  /\ MaxFaults \in Nat

VARIABLES
  nameFile,   \* contents of each <name>.name, NoDevice when there is none
  sockets,    \* devices whose .sock exists
  owner,      \* interface each device was started for, NoName: no such device
  wedged,     \* devices whose daemon answers nothing any more
  config,     \* interface whose key and peers each device was last given
  addressed,  \* interfaces whose client address each device carries
  route,      \* device the AllowedIPs of each interface are routed to
  pc,         \* where each actor is inside Up or Down
  job,        \* the interface each actor's call is about
  dev,        \* the local variable `device` of the call each actor is in
  outcome,    \* how each actor's last call returned
  faults      \* external faults so far

host  == <<nameFile, sockets, owner, wedged, config, addressed, route>>
calls == <<pc, job, dev, outcome>>
tunnelVars == <<nameFile, sockets, owner, wedged, config, addressed, route,
                pc, job, dev, outcome, faults>>

UpSteps   == {"remove", "spawn", "wait", "configure", "address", "routes"}
DownSteps == {"unlink", "unname", "gone"}
Outcomes  == {"none", "up", "down", "failed"}

TunnelInit ==
  /\ nameFile = [n \in Names |-> NoDevice]
  /\ sockets = {}
  /\ owner = [d \in Devices |-> NoName]
  /\ wedged = {}
  /\ config = [d \in Devices |-> NoName]
  /\ addressed = [d \in Devices |-> {}]
  /\ route = [n \in Names |-> NoDevice]
  /\ pc = [a \in Actors |-> "idle"]
  /\ job = [a \in Actors |-> NoName]
  /\ dev = [a \in Actors |-> NoDevice]
  /\ outcome = [a \in Actors |-> "none"]
  /\ faults = 0

-----------------------------------------------------------------------------
\* The devices ifconfig can see.
Existing == {d \in Devices : owner[d] /= NoName}

\* Mutant of Device: the interface is the device, as it is on Linux.
DeviceIsName(n) == IF nameFile[n] \in sockets THEN nameFile[n] ELSE n

\* A daemon that died leaves its name file behind; its socket goes with it.
Device(n) == IF nameFile[n] \in sockets THEN nameFile[n] ELSE NoDevice

IsUp(n) == Device(n) /= NoDevice

Goto(a, step) == pc' = [pc EXCEPT ![a] = step]

At(a, step) == pc[a] = step

Idle(a) == At(a, "idle")

Return(a, result) ==
  /\ Goto(a, "idle")
  /\ dev' = [dev EXCEPT ![a] = NoDevice]
  /\ outcome' = [outcome EXCEPT ![a] = result]

Fault ==
  /\ faults < MaxFaults
  /\ faults' = faults + 1

-----------------------------------------------------------------------------
\* Up: reuse the running device, or start a daemon; then configure, address
\* and route it.  Each error path returns and undoes nothing.

CallUp(a, n) ==
  /\ Idle(a)
  /\ job' = [job EXCEPT ![a] = n]
  /\ dev' = [dev EXCEPT ![a] = Device(n)]
  /\ outcome' = [outcome EXCEPT ![a] = "none"]
  /\ Goto(a, IF IsUp(n) THEN "configure" ELSE "remove")
  /\ UNCHANGED <<host, faults>>

StartRemove(a) ==
  /\ At(a, "remove")
  /\ nameFile' = [nameFile EXCEPT ![job[a]] = NoDevice]
  /\ Goto(a, "spawn")
  /\ UNCHANGED <<sockets, owner, wedged, config, addressed, route, job, dev, outcome, faults>>

\* The kernel hands out its first free unit.
NextDevice == CHOOSE d \in Devices : d \notin Existing

StartSpawn(a) ==
  /\ At(a, "spawn")
  /\ Existing /= Devices
  /\ owner' = [owner EXCEPT ![NextDevice] = job[a]]
  /\ sockets' = sockets \cup {NextDevice}
  /\ nameFile' = [nameFile EXCEPT ![job[a]] = NextDevice]
  /\ Goto(a, "wait")
  /\ UNCHANGED <<wedged, config, addressed, route, job, dev, outcome, faults>>

\* The engine is missing, or exits with an error; or Devices is used up.
SpawnFails(a) ==
  /\ At(a, "spawn")
  /\ IF Existing = Devices THEN UNCHANGED faults ELSE Fault
  /\ Return(a, "failed")
  /\ UNCHANGED <<host, job>>

StartWait(a) ==
  /\ At(a, "wait")
  /\ IsUp(job[a])
  /\ dev' = [dev EXCEPT ![a] = Device(job[a])]
  /\ Goto(a, "configure")
  /\ UNCHANGED <<host, job, outcome, faults>>

\* The fifteen seconds run out.
WaitExpires(a) ==
  /\ At(a, "wait")
  /\ ~IsUp(job[a])
  /\ Return(a, "failed")
  /\ UNCHANGED <<host, job, faults>>

Configure(a) ==
  /\ At(a, "configure")
  /\ dev[a] \in sockets \ wedged
  /\ config' = [config EXCEPT ![dev[a]] = job[a]]
  /\ Goto(a, "address")
  /\ UNCHANGED <<nameFile, sockets, owner, wedged, addressed, route, job, dev, outcome, faults>>

\* Nobody listens on the socket, the daemon never answers, or (a fault) it
\* answers with an errno.
ConfigureFails(a) ==
  /\ At(a, "configure")
  /\ IF dev[a] \in sockets \ wedged THEN Fault ELSE UNCHANGED faults
  /\ Return(a, "failed")
  /\ UNCHANGED <<host, job>>

Address(a) ==
  /\ At(a, "address")
  /\ dev[a] \in Existing
  /\ addressed' = [addressed EXCEPT ![dev[a]] = @ \cup {job[a]}]
  /\ Goto(a, "routes")
  /\ UNCHANGED <<nameFile, sockets, owner, wedged, config, route, job, dev, outcome, faults>>

\* A route that already exists is left where it points: "File exists" is not
\* an error.
Routes(a) ==
  /\ At(a, "routes")
  /\ \/ /\ route[job[a]] /= NoDevice
        /\ UNCHANGED route
     \/ /\ route[job[a]] = NoDevice
        /\ dev[a] \in Existing
        /\ route' = [route EXCEPT ![job[a]] = dev[a]]
  /\ Return(a, "up")
  /\ UNCHANGED <<nameFile, sockets, owner, wedged, config, addressed, job, faults>>

\* ifconfig or route is pointed at a device that is gone.
DeviceLost(a) ==
  /\ \/ At(a, "address")
     \/ At(a, "routes") /\ route[job[a]] = NoDevice
  /\ dev[a] \notin Existing
  /\ Return(a, "failed")
  /\ UNCHANGED <<host, job, faults>>

-----------------------------------------------------------------------------
\* Down: removing the socket is the daemon's signal to stop.

\* Mutant of CallDown: the name file goes before the socket.
CallDownNameFirst(a, n) ==
  /\ Idle(a)
  /\ IsUp(n)
  /\ job' = [job EXCEPT ![a] = n]
  /\ dev' = [dev EXCEPT ![a] = Device(n)]
  /\ outcome' = [outcome EXCEPT ![a] = "none"]
  /\ nameFile' = [nameFile EXCEPT ![n] = NoDevice]
  /\ Goto(a, "unlink")
  /\ UNCHANGED <<sockets, owner, wedged, config, addressed, route, faults>>

CallDown(a, n) ==
  /\ Idle(a)
  /\ IsUp(n)
  /\ job' = [job EXCEPT ![a] = n]
  /\ dev' = [dev EXCEPT ![a] = Device(n)]
  /\ outcome' = [outcome EXCEPT ![a] = "none"]
  /\ Goto(a, "unlink")
  /\ UNCHANGED <<host, faults>>

\* Already down: the name file goes and the call succeeds.
CallDownAgain(a, n) ==
  /\ Idle(a)
  /\ ~IsUp(n)
  /\ job' = [job EXCEPT ![a] = n]
  /\ dev' = [dev EXCEPT ![a] = NoDevice]
  /\ outcome' = [outcome EXCEPT ![a] = "down"]
  /\ nameFile' = [nameFile EXCEPT ![n] = NoDevice]
  /\ UNCHANGED <<sockets, owner, wedged, config, addressed, route, pc, faults>>

DropSocket(a) ==
  /\ At(a, "unlink")
  /\ sockets' = sockets \ {dev[a]}
  /\ Goto(a, "unname")
  /\ UNCHANGED <<nameFile, owner, wedged, config, addressed, route, job, dev, outcome, faults>>

DropName(a) ==
  /\ At(a, "unname")
  /\ nameFile' = [nameFile EXCEPT ![job[a]] = NoDevice]
  /\ Goto(a, "gone")
  /\ UNCHANGED <<sockets, owner, wedged, config, addressed, route, job, dev, outcome, faults>>

DropDone(a) ==
  /\ At(a, "gone")
  /\ dev[a] \notin Existing
  /\ Return(a, "down")
  /\ UNCHANGED <<host, job, faults>>

\* Mutant of DropExpires: it polls without a deadline.
DropPolls(a) == At(a, "gone") /\ dev[a] \in Existing /\ UNCHANGED tunnelVars

\* Five seconds pass and ifconfig still finds the device: the daemon is
\* wedged or slow, or another daemon got its number.
DropExpires(a) ==
  /\ At(a, "gone")
  /\ dev[a] \in Existing
  /\ Return(a, "failed")
  /\ UNCHANGED <<host, job, faults>>

-----------------------------------------------------------------------------
\* wireguard-go and the kernel.

\* The socket, the address and the routes go with the device.
DeviceGoes(d) ==
  /\ owner' = [owner EXCEPT ![d] = NoName]
  /\ sockets' = sockets \ {d}
  /\ wedged' = wedged \ {d}
  /\ config' = [config EXCEPT ![d] = NoName]
  /\ addressed' = [addressed EXCEPT ![d] = {}]
  /\ route' = [n \in Names |-> IF route[n] = d THEN NoDevice ELSE route[n]]
  /\ UNCHANGED <<nameFile, calls>>

\* A daemon whose socket was removed stops, unless it is wedged.
Exits(d) ==
  /\ d \in Existing \ (sockets \cup wedged)
  /\ DeviceGoes(d)
  /\ UNCHANGED faults

Dies(d) ==
  /\ d \in Existing
  /\ Fault
  /\ DeviceGoes(d)

Wedges(d) ==
  /\ d \in Existing \ wedged
  /\ Fault
  /\ wedged' = wedged \cup {d}
  /\ UNCHANGED <<nameFile, sockets, owner, config, addressed, route, calls>>

\* The steps that run a command and wait for it without a deadline: the engine,
\* which may have made its daemon by then, ifconfig and route.
Commands == {"spawn", "wait", "address", "routes", "gone"}

\* The command never ends, and the call with it.
Hangs(a) ==
  /\ pc[a] \in Commands
  /\ Fault
  /\ Goto(a, "hung")
  /\ UNCHANGED <<host, job, dev, outcome>>

\* The process in the middle of a call is killed: a bootout, a quit, a crash.
CutOff(a) ==
  /\ ~Idle(a)
  /\ Return(a, "none")
  /\ UNCHANGED <<host, job>>

Killed(a) == CutOff(a) /\ Fault

-----------------------------------------------------------------------------
UpStep(a) ==
  \/ StartRemove(a) \/ StartSpawn(a) \/ SpawnFails(a) \/ StartWait(a) \/ WaitExpires(a)
  \/ Configure(a) \/ ConfigureFails(a) \/ Address(a) \/ Routes(a) \/ DeviceLost(a)

DownStep(a) == DropSocket(a) \/ DropName(a) \/ DropDone(a) \/ DropExpires(a)

CallStep(a) == UpStep(a) \/ DownStep(a)

Environment ==
  \/ \E d \in Devices : Exits(d) \/ Dies(d) \/ Wedges(d)
  \/ \E a \in Actors : Killed(a) \/ Hangs(a)

TunnelNext ==
  \/ \E a \in Actors, n \in Names : CallUp(a, n) \/ CallDown(a, n) \/ CallDownAgain(a, n)
  \/ \E a \in Actors : CallStep(a)
  \/ Environment

\* A process that is running a call goes on running it unless a command it
\* runs has hung, and a daemon whose listener is gone stops by itself.
TunnelFairness ==
  /\ \A a \in Actors : WF_tunnelVars(CallStep(a))
  /\ \A d \in Devices : WF_tunnelVars(Exits(d))

TunnelSpec == TunnelInit /\ [][TunnelNext]_tunnelVars /\ TunnelFairness

-----------------------------------------------------------------------------
TunnelTypeOK ==
  /\ nameFile \in [Names -> Devices \cup {NoDevice}]
  /\ sockets \in SUBSET Devices
  /\ owner \in [Devices -> Names \cup {NoName}]
  /\ wedged \in SUBSET Devices
  /\ config \in [Devices -> Names \cup {NoName}]
  /\ addressed \in [Devices -> SUBSET Names]
  /\ route \in [Names -> Devices \cup {NoDevice}]
  /\ pc \in [Actors -> {"idle", "hung"} \cup UpSteps \cup DownSteps]
  /\ job \in [Actors -> Names \cup {NoName}]
  /\ dev \in [Actors -> Devices \cup {NoDevice}]
  /\ outcome \in [Actors -> Outcomes]
  /\ faults \in 0 .. MaxFaults

\* A daemon that has not been told to stop is the one its interface's name
\* file leads to; so an interface has at most one, and Down can reach it
\* (start and Down, tunnel_darwin.go:70 and :166).
ServingIsNamed == \A d \in sockets : d \in Existing /\ nameFile[owner[d]] = d

\* It takes two calls about one interface at a time to lose a daemon: as long
\* as they never overlap, ServingIsNamed holds, whatever else is going on
\* (Up and Down take no lock, tunnel_darwin.go:43 and :166).
OneCallPerInterface ==
  \A a, b \in Actors : ~Idle(a) /\ ~Idle(b) /\ job[a] = job[b] => a = b

SerialCallsAreNamed == []OneCallPerInterface => []ServingIsNamed

\* Up builds no second daemon beside a serving one (tunnel_darwin.go:40,
\* "rather than failing or building a second one").
OneDaemon == \A d, e \in sockets : owner[d] = owner[e] => d = e

\* What Up configures and what Down stops is a daemon of the interface they
\* were called for: the device Device answers is the interface's own
\* (tunnel_darwin.go:20, "the utun the logical interface is currently running
\* on, or "" when it is not up").
RightTunnel == \A n \in Names : IsUp(n) => owner[Device(n)] = n

\* A Down that reports success leaves no daemon of its interface that will
\* never stop: not the one it found, and not one an earlier Down gave up on
\* (tunnel_darwin.go:187, "instead of reporting a tunnel that is down and is
\* not").
DownMeansDown ==
  [][\A a \in Actors :
       outcome[a] /= "down" /\ outcome'[a] = "down"
         => \A d \in wedged' : owner'[d] /= job'[a]]_tunnelVars

\* A call returns unless a command it runs never ends: whatever the daemons and
\* the other callers do, no wait of its own lasts for ever.  Up's fifteen
\* seconds, Down's five and speak's deadline see to it (tunnel_darwin.go:88 and
\* :180, uapi_socket_darwin.go:28); runDetached, ifconfig and route have none.
CallsReturn == \A a \in Actors : ~Idle(a) ~> (Idle(a) \/ At(a, "hung"))
=============================================================================
