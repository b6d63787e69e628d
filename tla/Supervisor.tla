----------------------------- MODULE Supervisor -----------------------------
(***************************************************************************)
(* The supervisor daemon (internal/setup/supervise.go) and the menu bar    *)
(* (menubar/MyMicroTunnel.swift) moving the same tunnels.  They share the  *)
(* desired-state file and the tunnels themselves, and nothing else: no     *)
(* lock, no message.                                                       *)
(*                                                                         *)
(* Actors of Tunnel are the daemon, Sup, and for every interface n the     *)
(* helper process the menu bar runs for it, which is named n.              *)
(***************************************************************************)
EXTENDS Tunnel, FiniteSets

CONSTANTS
  Sup,        \* the daemon
  Idling,     \* interfaces whose deployment has an idle timeout
  MaxToggles, \* how often the user uses a switch (a bound)
  ToggleCost  \* how many of MaxFaults a use of the switch takes (a bound)

ASSUME SupervisorAssumption ==
  /\ Sup \notin Names
  /\ Actors = Names \cup {Sup}
  /\ Idling \subseteq Names
  /\ MaxToggles \in Nat /\ ToggleCost \in Nat

VARIABLES
  desired,    \* each desired-state file: "up", "down", or "none" (no file)
  installed,  \* interfaces whose configuration is on disk
  gateway,    \* interfaces whose gateway is running
  fresh,      \* devices with a peer that handshook within three minutes
  lost,       \* devices pinned to an address the gateway no longer has
  phase,      \* where the daemon is in its pass
  todo,       \* targets of the pass it has not reconciled yet
  focus,      \* the target it is reconciling
  wanted,     \* its local variable: what the file said when it was read
  menu,       \* what the menu bar is doing for each interface
  shown,      \* interfaces the menu bar shows as connected
  toggles

daemonVars == <<phase, todo, focus, wanted>>
menuVars   == <<menu, shown, toggles>>
worldVars  == <<desired, installed, gateway>>
linkVars   == <<fresh, lost>>
vars == <<tunnelVars, desired, installed, gateway, fresh, lost,
          phase, todo, focus, wanted, menu, shown, toggles>>

Phases == {"asleep", "next", "decide", "wake", "redrop", "repin", "raise", "raising", "drop", "dropping"}

MenuStates == {"ready", "wake", "raise", "raising", "drop", "dropping"}

Init ==
  /\ TunnelInit
  /\ desired \in [Names -> {"none", "up", "down"}]
  /\ installed \in SUBSET Names
  /\ gateway = Names
  /\ fresh = {}
  /\ lost = {}
  /\ phase = "asleep"
  /\ todo = {}
  /\ focus = NoName
  /\ wanted = FALSE
  /\ menu = [n \in Names |-> "ready"]
  /\ shown = {}
  /\ toggles = 0

-----------------------------------------------------------------------------
\* What the status query says.  A daemon that does not answer and one that
\* has no peers are both "not stale".

Reports(d) == d \in sockets \ wedged

HandshakeIsStale(n) ==
  LET d == Device(n) IN Reports(d) /\ config[d] /= NoName /\ d \notin fresh

\* A handshake goes with its daemon, and with a reconfiguration
\* (replace_peers), which also looks the gateway up again.
Reconfigured(d) == \E a \in Actors : At(a, "configure") /\ dev[a] = d /\ pc'[a] = "address"

LinkFollows ==
  /\ fresh' = {d \in fresh : d \in sockets' /\ ~Reconfigured(d)}
  /\ lost' = {d \in lost : d \in sockets' /\ ~Reconfigured(d)}

-----------------------------------------------------------------------------
\* The daemon: one pass over the targets every superviseInterval.

Phase(from, to) == phase = from /\ phase' = to

\* The caller is handed the outcome of its call.
TakesOutcome(a) ==
  /\ Idle(a)
  /\ outcome' = [outcome EXCEPT ![a] = "none"]
  /\ UNCHANGED <<host, pc, job, dev, faults>>

StartPass ==
  /\ Phase("asleep", "next")
  /\ todo' = Names
  /\ UNCHANGED <<tunnelVars, worldVars, linkVars, menuVars, focus, wanted>>

EndPass ==
  /\ todo = {}
  /\ Phase("next", "asleep")
  /\ UNCHANGED <<tunnelVars, worldVars, linkVars, menuVars, todo, focus, wanted>>

\* Mutant of ReadDesired: no file means up.
ReadDesiredUnlessDown(n) ==
  /\ n \in todo
  /\ Phase("next", "decide")
  /\ todo' = todo \ {n}
  /\ focus' = n
  /\ wanted' = (desired[n] /= "down")
  /\ UNCHANGED <<tunnelVars, worldVars, linkVars, menuVars>>

ReadDesired(n) ==
  /\ n \in todo
  /\ Phase("next", "decide")
  /\ todo' = todo \ {n}
  /\ focus' = n
  /\ wanted' = (desired[n] = "up")
  /\ UNCHANGED <<tunnelVars, worldVars, linkVars, menuVars>>

\* Nothing to do, or nothing that can be done: no configuration to raise.
LeaveAlone ==
  /\ Phase("decide", "next")
  /\ \/ wanted /\ focus \notin installed
     \/ wanted /\ focus \in installed /\ IsUp(focus) /\ ~HandshakeIsStale(focus)
     \/ ~wanted /\ ~IsUp(focus)
  /\ wanted' = FALSE
  /\ UNCHANGED <<tunnelVars, worldVars, linkVars, menuVars, todo, focus>>

DecideToRaise ==
  /\ Phase("decide", "raise")
  /\ wanted /\ focus \in installed /\ ~IsUp(focus)
  /\ UNCHANGED <<tunnelVars, worldVars, linkVars, menuVars, todo, focus, wanted>>

\* Mutant of DecideToDrop: dropping is left to the menu bar.
DecideToIgnore ==
  /\ Phase("decide", "next")
  /\ ~wanted /\ IsUp(focus)
  /\ UNCHANGED <<tunnelVars, worldVars, linkVars, menuVars, todo, focus, wanted>>

DecideToDrop ==
  /\ Phase("decide", "drop")
  /\ ~wanted /\ IsUp(focus)
  /\ UNCHANGED <<tunnelVars, worldVars, linkVars, menuVars, todo, focus, wanted>>

Drop ==
  /\ Phase("drop", "dropping")
  /\ CallDown(Sup, focus) \/ CallDownAgain(Sup, focus)
  /\ UNCHANGED <<worldVars, linkVars, menuVars, todo, focus, wanted>>

\* Mutant of DecideToRepin: a gateway is never woken.
DecideToRepinAsleep ==
  /\ Phase("decide", "redrop")
  /\ wanted /\ focus \in installed /\ HandshakeIsStale(focus)
  /\ UNCHANGED <<tunnelVars, worldVars, linkVars, menuVars, todo, focus, wanted>>

\* No handshake for three minutes.
DecideToRepin ==
  /\ Phase("decide", IF focus \in Idling THEN "wake" ELSE "redrop")
  /\ wanted /\ focus \in installed /\ HandshakeIsStale(focus)
  /\ UNCHANGED <<tunnelVars, worldVars, linkVars, menuVars, todo, focus, wanted>>

\* Waking blocks the daemon until the gateway runs or four minutes pass; a
\* failure (a fault) is only logged.
WakeGateway ==
  /\ Phase("wake", "redrop")
  /\ \/ gateway' = gateway \cup {focus} /\ UNCHANGED faults
     \/ Fault /\ UNCHANGED gateway
  /\ UNCHANGED <<host, calls, linkVars, desired, installed, menuVars, todo, focus, wanted>>

Redrop ==
  /\ Phase("redrop", "repin")
  /\ CallDown(Sup, focus) \/ CallDownAgain(Sup, focus)
  /\ UNCHANGED <<worldVars, linkVars, menuVars, todo, focus, wanted>>

DropReturned ==
  /\ TakesOutcome(Sup)
  /\ \/ Phase("repin", "raise") /\ outcome[Sup] = "down" /\ UNCHANGED wanted
     \/ Phase("repin", "next") /\ outcome[Sup] /= "down" /\ wanted' = FALSE
     \/ Phase("dropping", "next") /\ UNCHANGED wanted
  /\ UNCHANGED <<worldVars, linkVars, menuVars, todo, focus>>

Raise ==
  /\ Phase("raise", "raising")
  /\ focus \in installed
  /\ CallUp(Sup, focus)
  /\ UNCHANGED <<worldVars, linkVars, menuVars, todo, focus, wanted>>

\* The configuration cannot be read, or (a fault) it would route a network
\* this machine is on.
RaiseRefused ==
  /\ Phase("raise", "next")
  /\ IF focus \in installed THEN Fault ELSE UNCHANGED faults
  /\ wanted' = FALSE
  /\ UNCHANGED <<host, calls, worldVars, linkVars, menuVars, todo, focus>>

RaiseReturned ==
  /\ Phase("raising", "next")
  /\ TakesOutcome(Sup)
  /\ wanted' = FALSE
  /\ UNCHANGED <<worldVars, linkVars, menuVars, todo, focus>>

Daemon ==
  \/ StartPass \/ EndPass \/ (\E n \in Names : ReadDesired(n))
  \/ LeaveAlone \/ DecideToRaise \/ DecideToDrop \/ DecideToRepin
  \/ WakeGateway \/ Drop \/ Redrop \/ DropReturned
  \/ Raise \/ RaiseRefused \/ RaiseReturned

-----------------------------------------------------------------------------
\* The menu bar.  The switch records the decision, then carries it out.

MenuGoes(n, from, to) == menu[n] = from /\ menu' = [menu EXCEPT ![n] = to]

Connected == {n \in Names : \E d \in Existing : n \in addressed[d]}

Poll ==
  /\ shown /= Connected
  /\ shown' = Connected
  /\ UNCHANGED <<tunnelVars, worldVars, linkVars, daemonVars, menu, toggles>>

ToggleOn(n) ==
  /\ n \notin shown
  /\ MenuGoes(n, "ready", IF n \in Idling THEN "wake" ELSE "raise")
  /\ desired' = [desired EXCEPT ![n] = "up"]

\* Mutant of ToggleOff: the file says the menu's word.
ToggleOffInWords(n) ==
  /\ n \in shown
  /\ MenuGoes(n, "ready", "drop")
  /\ desired' = [desired EXCEPT ![n] = "Disconnect"]

ToggleOff(n) ==
  /\ n \in shown
  /\ MenuGoes(n, "ready", "drop")
  /\ desired' = [desired EXCEPT ![n] = "down"]

\* Only a deployed profile has a switch.
Toggle(n) ==
  /\ n \in installed
  /\ toggles < MaxToggles
  /\ toggles' = toggles + 1
  /\ faults' = faults + ToggleCost
  /\ faults' <= MaxFaults
  /\ ToggleOn(n) \/ ToggleOff(n)
  /\ UNCHANGED <<host, calls, installed, gateway, linkVars, daemonVars, shown>>

MenuWake(n) ==
  /\ MenuGoes(n, "wake", "raise")
  /\ \/ gateway' = gateway \cup {n} /\ UNCHANGED faults
     \/ Fault /\ UNCHANGED gateway
  /\ UNCHANGED <<host, calls, desired, installed, linkVars, daemonVars, shown, toggles>>

MenuCall(n) ==
  /\ \/ MenuGoes(n, "raise", "raising") /\ CallUp(n, n)
     \/ MenuGoes(n, "drop", "dropping") /\ (CallDown(n, n) \/ CallDownAgain(n, n))
  /\ UNCHANGED <<worldVars, linkVars, daemonVars, shown, toggles>>

\* The helper did not run, or refused.
MenuRefused(n) ==
  /\ MenuGoes(n, "raise", "ready") \/ MenuGoes(n, "drop", "ready")
  /\ shown' = Connected
  /\ UNCHANGED <<host, calls, faults, worldVars, linkVars, daemonVars, toggles>>

MenuReturned(n) ==
  /\ TakesOutcome(n)
  /\ MenuGoes(n, "raising", "ready") \/ MenuGoes(n, "dropping", "ready")
  /\ shown' = Connected
  /\ UNCHANGED <<worldVars, linkVars, daemonVars, toggles>>

MenuStep(n) == MenuWake(n) \/ MenuCall(n) \/ MenuRefused(n) \/ MenuReturned(n)

-----------------------------------------------------------------------------
\* The rest of the world.

TunnelStep(a) ==
  /\ CallStep(a)
  /\ LinkFollows
  /\ UNCHANGED <<worldVars, daemonVars, menuVars>>

DeviceStep(d) ==
  /\ Exits(d) \/ Dies(d) \/ Wedges(d)
  /\ LinkFollows
  /\ UNCHANGED <<worldVars, daemonVars, menuVars>>

\* A command that a call runs never ends.
CallHangs(a) ==
  /\ Hangs(a)
  /\ UNCHANGED <<worldVars, linkVars, daemonVars, menuVars>>

\* A click starts one helper, so its end needs no bound of its own.
HelperKilled(n) ==
  /\ CutOff(n)
  /\ UNCHANGED <<faults, worldVars, linkVars, daemonVars, menuVars>>

\* launchd starts the daemon again (KeepAlive).
DaemonKilled ==
  /\ phase /= "asleep"
  /\ Fault
  /\ phase' = "asleep"
  /\ todo' = {}
  /\ focus' = NoName
  /\ wanted' = FALSE
  /\ Return(Sup, "none")
  /\ UNCHANGED <<host, job, worldVars, linkVars, menuVars>>

\* The run directory, the devices and every process go; the files stay.
Reboot ==
  /\ Fault
  /\ nameFile' = [n \in Names |-> NoDevice]
  /\ sockets' = {}
  /\ owner' = [d \in Devices |-> NoName]
  /\ wedged' = {}
  /\ config' = [d \in Devices |-> NoName]
  /\ addressed' = [d \in Devices |-> {}]
  /\ route' = [n \in Names |-> NoDevice]
  /\ pc' = [a \in Actors |-> "idle"]
  /\ dev' = [a \in Actors |-> NoDevice]
  /\ outcome' = [a \in Actors |-> "none"]
  /\ fresh' = {}
  /\ lost' = {}
  /\ phase' = "asleep"
  /\ todo' = {}
  /\ focus' = NoName
  /\ wanted' = FALSE
  /\ menu' = [n \in Names |-> "ready"]
  /\ shown' = {}
  /\ UNCHANGED <<job, worldVars, toggles>>

Deploy(n) ==
  /\ n \notin installed
  /\ installed' = installed \cup {n}
  /\ UNCHANGED <<tunnelVars, desired, gateway, linkVars, daemonVars, menuVars>>

Handshakes(d) ==
  /\ Reports(d)
  /\ d \notin fresh \cup lost
  /\ config[d] \in gateway
  /\ fresh' = fresh \cup {d}
  /\ UNCHANGED <<tunnelVars, worldVars, lost, daemonVars, menuVars>>

\* Three minutes without a handshake: the gateway is off, or (a fault) its
\* address changed.
GoesQuiet(d) ==
  /\ d \in fresh
  /\ fresh' = fresh \ {d}
  /\ \/ config[d] \notin gateway /\ UNCHANGED <<faults, lost>>
     \/ Fault /\ lost' = lost \cup {d}
  /\ UNCHANGED <<host, calls, worldVars, daemonVars, menuVars>>

\* The idle alarm: nobody has been connected for the idle timeout.
GatewayStops(n) ==
  /\ n \in Idling \cap gateway
  /\ \A d \in fresh : config[d] /= n
  /\ Fault
  /\ gateway' = gateway \ {n}
  /\ UNCHANGED <<host, calls, desired, installed, linkVars, daemonVars, menuVars>>

World ==
  \/ \E a \in Actors : TunnelStep(a) \/ CallHangs(a)
  \/ \E d \in Devices : DeviceStep(d) \/ Handshakes(d) \/ GoesQuiet(d)
  \/ \E n \in Names : HelperKilled(n) \/ Deploy(n) \/ GatewayStops(n)
  \/ DaemonKilled \/ Reboot

Next ==
  \/ Daemon
  \/ \E n \in Names : Toggle(n) \/ MenuStep(n)
  \/ Poll
  \/ World

\* The daemon's loop never exits, and only a command of a call it is in can
\* keep it waiting for ever; the menu bar finishes what it started, a call goes
\* on unless it hangs, a stopped daemon exits.  A handshake
\* takes one round trip and the daemon looks every fifteen seconds, so a
\* tunnel that is raised again and again does handshake between two looks.
Fairness ==
  /\ WF_vars(Daemon)
  /\ \A n \in Names : WF_vars(MenuStep(n))
  /\ \A a \in Actors : WF_vars(TunnelStep(a))
  /\ \A d \in Devices : WF_vars(Exits(d) /\ DeviceStep(d))
  /\ \A n \in Names : SF_vars(\E d \in Devices : owner[d] = n /\ Handshakes(d))

Spec == Init /\ [][Next]_vars

FairSpec == Spec /\ Fairness

-----------------------------------------------------------------------------
OwnTypeOK ==
  /\ desired \in [Names -> {"none", "up", "down"}]
  /\ installed \in SUBSET Names
  /\ gateway \in SUBSET Names
  /\ fresh \in SUBSET Devices
  /\ lost \in SUBSET Devices
  /\ phase \in Phases
  /\ todo \in SUBSET Names
  /\ focus \in Names \cup {NoName}
  /\ wanted \in BOOLEAN
  /\ menu \in [Names -> MenuStates]
  /\ shown \in SUBSET Names
  /\ toggles \in 0 .. MaxToggles

TypeOK == TunnelTypeOK /\ OwnTypeOK

\* Who is raising what: the daemon from the moment it read "up" until it is
\* through with the target, a helper from the click until it returns.
Orders ==
  (IF wanted THEN {<<Sup, focus>>} ELSE {})
    \cup {<<n, n>> : n \in {m \in Names : menu[m] \in {"wake", "raise", "raising"}}}

On == {n \in Names : desired[n] = "up"}

Up == {n \in Names : IsUp(n)}

Promise == INSTANCE Switch WITH choice <- On, link <- Up, orders <- Orders

\* The daemon and the menu bar together keep the switch's promise: no tunnel
\* comes up on nobody's order, and no order is taken from a switch that is
\* off (supervise.go:19-28).
KeepsPromise == Promise!Spec

\* The daemon sits in ifconfig, route or wireguard-go for good; launchd only
\* restarts a daemon that exits.
Stuck == <>[]At(Sup, "hung")

\* The last position wins: a switch left off ends with its tunnel down, a
\* switch left on with a configuration on disk does not stay down (:26-28),
\* whatever becomes of the helpers, as long as the daemon itself is not stuck.
LastPositionWins ==
  \A n \in Names :
    /\ <>[](n \notin On) => <>[](n \notin Up) \/ Stuck
    /\ <>[](n \in On /\ n \in installed) => []<>(n \in Up) \/ Stuck

\* A tunnel left on handshakes again and again, through changed addresses,
\* which are re-pinned, and stopped gateways, which are woken (:186-206); only
\* a tunnel whose daemon answers nothing, or has no peers, is left as it is, and
\* none is repaired once the supervisor is stuck.
QuietIsRepaired ==
  \A n \in Names :
    <>[](n \in On /\ n \in installed) =>
      \/ []<>(Device(n) \in fresh)
      \/ <>[](IsUp(n) /\ (~Reports(Device(n)) \/ config[Device(n)] = NoName))
      \/ Stuck

\* A tunnel left on ends up carrying packets again and again: its daemon has
\* peers and one of them handshook (:15-17, "notice that a tunnel which still
\* has an interface has stopped carrying packets").
CarriesPackets ==
  \A n \in Names : <>[](n \in On /\ n \in installed) => []<>(Device(n) \in fresh) \/ Stuck
=============================================================================
