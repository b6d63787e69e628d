# MyMicroTunnel in TLA+

MyMicroTunnel publishes a service of one Mac on the internet: a load balancer in
AWS terminates TLS and forwards, through a small gateway instance and a WireGuard
tunnel, to a port of the Mac. This directory models the parts of it whose
correctness depends on order, concurrency and failure, checks them with TLC and
proves some of the results for every size of system with TLAPS.

Line numbers are those of the files under `src/`.

## 1. The system

| Component | State it keeps | Operations | Talks to |
|---|---|---|---|
| **Interfaces** `internal/tunnel` | per interface a name file, per daemon a UAPI socket, the utun, its address and routes | `Up`, `Down`, `Device`, `Report` | wireguard-go (a process), the kernel (`ifconfig`, `route`) |
| **Supervisor daemon** `internal/setup/supervise.go` | nothing between passes but the files | one pass every 15 s: `reconcileTunnel` for each profile, `wakeGateway`, `RaiseTunnel` | desired-state files, interfaces, `wake` |
| **Menu bar** `menubar/MyMicroTunnel.swift` | which profiles are busy and which it shows connected | `toggleTunnel`, `wakeGateway`, a poll every 3 s | desired-state files, the helper (`tunnel up`/`down`), `wake` |
| **Peer list** `internal/awsops/peers.go`, the sync script in `infra/cloudformation-microtunnel.yaml` | an SSM parameter; the gateway's interface; `wg0.conf` | `UpsertPeer`, `RemovePeer`; the sync, every minute | SSM |
| **Gateway group** the template, `internal/awsops/wake.go` | desired capacity, instances, Elastic IP, VPN route, server key | `WakeGateway`; the idle alarm; the boot script | Auto Scaling, EC2, SSM |
| **Keys** `EnsureClientKey`, `recordPublicKey` | a private key staged, then on disk; a public key beside it and in the peer list | create, reuse, keep, delete | peer list, root files |
| **Target groups** `RegisterTarget`, `DeregisterTarget` | workstations behind the load balancer | register, deregister, per exposed port | ELB |
| **Profile store** `profiles.go`, `settings.go` | a directory of settings per profile; the sudoers rule and the daemon they share | list, allocate an interface, detect conflicts, save | every command |
| **Deployment** `awsops.go`, `install.go`, `runInstall` | a CloudFormation stack, the alias record, the parameters the gateway publishes | plan, execute, wait, read outputs, delete | AWS |
| **Uninstall** `uninstall.go` | - | undoes an install, keeps the other profiles | everything above |
| **AWS identities** `appidentity.go`, `credentials_*.go` | at most two IAM access keys, a Keychain entry per Mac | create, evict, store, delete | IAM |
| **Network plan** `collisions.go`, `portmap.go`, `discover.go`, `AlignAddressesToVpnCidr` | - | overlap, alignment, choice of subnets, zone and target groups | - |
| **Quality report** `cmd/quality` | a page per run, `history.json` and the board in S3 | collect, store, compare, append, register | other builds |
| **Release pipeline** `cmd/build-pkg`, `appcast`, `publish`, `cask`, `cloudformation-updates.yaml` | the build directory, the bucket, what edges cache | build, notarize, pack, sign, validate, upload, roll back | installed copies, through edges |
| Diagnosis, setup window, terminal, other templates | - | read-only, presentation, or static | - |

### What is hard

* **Nothing locks.** The supervisor (root), the menu bar's helper (root, through
  sudo), `reload` and the installer all call `Up` and `Down`. They share files.
* **External processes end when they like.** wireguard-go can fail to start, die,
  hang, or exit after the caller gave up waiting; the kernel reuses utun numbers.
* **A decision is recorded first and carried out later**, by somebody else, from a
  value read before a wait of minutes.
* **The cloud has no transactions.** The peer list is read, changed and written
  back by any number of Macs and applied a minute later by a machine that is
  replaced now and then. The group is read and asked in two calls while an alarm
  works on it.
* **Restarts.** Reboots, killed daemons, replaced instances: what is on disk and
  in SSM has to be enough.
* **Commands of many steps that may stop between any two**: an install, an
  uninstall, a release. The next command finds whatever they left.
* **Several writers who do not know of each other**: Macs of different versions on
  one stack and one IAM user, CI builds on one history, profiles on one Mac.
* **Copies that outlive what they were made of**: the feed and the archives in the
  edges' caches, the settings an install reads before it writes them.

What makes each component correct is stated as properties in its module; the
hazards, each at its line with the property that covers it, are listed in
`PROJECT.json`.

## 2. The modules

```
   Switch <---refines--- Supervisor ----EXTENDS----> Tunnel
                              ^---- SupervisorProofs ---^
  Registry <---refines--- PeerRegistry <--- PeerRegistryProofs
                          GatewayGroup <--- GatewayGroupProofs
  QualityHistory <-refines- Quality --EXTENDS--> QualityReport
                              ^---- QualityProofs --EXTENDS--> FoldLemmas
                            Release <--- ReleaseProofs
                            Deployment <--- DeploymentProofs
          Setup, NetworkPlan <---EXTENDS--- MCSetup
                                               ^--- SetupProofs --EXTENDS--> FoldLemmas
```

`MC...` are the instances TLC checks and the `.cfg` files give their constants;
`MCSetup` has `Setup` and `NetworkPlan` together. `FoldLemmas` has the facts about
sums, folds and flattened sequences that the proofs about the two algorithms share. A
definition called a mutant in the line above it is a plausible bug in the definition
that follows; no action refers to it.

### Tunnel

`nameFile`, `sockets`, `owner` (which interface a device's daemon was started
for), `wedged`, `config`, `addressed` and `route` are the host; `pc`, `job`, `dev`
and `outcome` are the calls in progress. `dev` is the local variable `device` of
`Up` and `Down`, and one action is one system call, so two calls interleave at
every point at which the operating system could switch between them:

| Code | Actions |
|---|---|
| `Up` 43-58 | `CallUp`: reads `Device`, goes to `configure` or `remove` |
| `start` 69-96 | `StartRemove`, `StartSpawn` or `SpawnFails`, `StartWait` or `WaitExpires` |
| `configure`, `speak` | `Configure` or `ConfigureFails` |
| `address`, `routes` | `Address`, `Routes`, `DeviceLost` |
| `Down` 166-190 | `CallDown` or `CallDownAgain`, `DropSocket`, `DropName`, `DropDone` or `DropExpires` |
| wireguard-go, the kernel | `Exits`, `Dies`, `Wedges`, `NextDevice` |
| a command that never ends | `Hangs`: in `runDetached` (tunnel.go:71), `ifconfig` and `route`, which have no deadline |
| a killed caller | `Killed` |

Addresses and routes are abstracted to the interface they belong to. A socket
goes with its daemon; that is what the code assumes (line 31). The kernel hands
out the first free unit, which is what makes a number come back soon.
`DropExpires` needs no failure: five seconds may be too short for a healthy
daemon. The MTU, the text of the request and wg-quick's files are left out.

### Supervisor

Extends `Tunnel`: its actors are the daemon and one helper per interface. The
daemon's `phase`, `focus` and `wanted` are where `reconcileTunnel` is and its
local variables; `wanted` is read once (156) and is stale afterwards, and
`LeaveAlone`, `DecideToRaise`, `DecideToDrop` and `DecideToRepin` are the early
return and the three cases of its switch, which look at the interface one step
after the file was read. `WakeGateway` blocks the daemon and may fail. The menu
bar's `Toggle` records the decision before it acts (552), as `toggleTunnel` does;
`shown` is what the last poll saw. `CallHangs` leaves the daemon or a helper
inside a command for good: launchd restarts a daemon that exits, not one that hangs, and
a helper can still be killed. The world lets the interfaces handshake, go
quiet because the gateway's address changed or the gateway stopped, and be
rebooted, and daemon and helpers be killed.

Kept from the code: `handshakeIsStale` is false for a daemon that does not answer
and for one without peers; reconfiguring resolves the gateway again; a profile
without a configuration is left alone; an order refused because it would route a
local network changes nothing. Abstracted: the list of targets is every interface
(each profile is taken to be supervised), and time is order only.

`Switch` is what the supervisor's comment promises, stated without the machine:
a tunnel comes up only on an order, and an order is placed only by somebody who
saw the switch on. `KeepsPromise` is the refinement, with `Orders` the mapping.

### PeerRegistry

A client's `UpsertPeer` and `RemovePeer` are two steps: the read with the
computation, then `PutPeers` or `PutFails`. The sync is the shell script's: read,
remove each peer that is not listed, set each listed peer, save; between any two
of its steps the instance may restart from what was saved or be replaced. `serves`
models what `wg set ... allowed-ips` does, including that an address is taken
from the peer that had it. A parameter that is missing is the empty list, one that
is not a list is `Garbled`.

`Registry` is the abstract list: join and leave in one step. `KeepsOthers` is the
refinement.

### GatewayGroup

The group of at most one instance, its boot script (claim the address, read back
or generate the key, first sync), the sync that keeps pointing the route at its
own instance, the idle alarm with the policy's
cooldown, and `WakeGateway` with its read and its request as separate steps.
What AWS does is external: Auto Scaling launches and terminates towards the
desired capacity, and an alarm that stays in its state goes on invoking its
policy. Boot script and sync both run until the machine is gone, whatever the group
thinks of the instance, so one that is terminating may still claim the address from its
replacement with `--allow-reassociation`; `robbed` records to whom that has happened.
Starts with an idle timeout configured; without one there is no alarm.

### QualityReport, QualityHistory and Quality

`QualityReport` is what a build makes of its files: `ParsePackage` and the counts of
tests, `Coverage` with a block that two platforms compile counted once, the audit,
and `Collect`, the summary. A package is its tests' last actions and whether it
failed; a profile is its lines. The properties compare a summary with the files
by definitions of their own: `TestsCountOnce`, that every test without subtests is
counted once, by its result; `FailureShows`; and `BlocksCountOnce`.

`Quality` is any number of builds that publish at once. Each `Start`s, stores its
page (`StoreRun`), reads the history and compares (`ReadHistory`), puts it back on
condition that it has not changed (`WriteHistory`, or `WriteConflicts` and again,
`Attempts` times), and takes the board if it is of the default branch (`Register`).
S3 is external: a put compares an ETag, may be answered 409, and may be done and
not answered (`WriteIsUnanswered`: the SDK repeats it and is answered 412). A new
build of a ref cancels the one before it of the same ref (`Ref`, `Cancel`, ci.yml:22).
The filter by workflow (main.go:490) is left out: only `ci.yml` publishes.

`QualityHistory` is the list alone, one run added at a time; `RunsAreAdded` is the
refinement.

### Release

One maintainer's `make` recipes, a command a step at a time. A package or an
archive is a number, new with every build or packing; a signature is the number
of the archive it was made over. `build-pkg` is `BuildProduct` and `Notarize`,
`appcast` is `Pack`, `WriteFeed`, `SignFeed` and `Validate` (with `FetchPublished` for a
rollback), `publish` is `CheckRelease`, four uploads, `Invalidate` and `Verify`,
`cask` is `WriteCask` and `CheckCask`. `Stops` ends a command anywhere, between the
removal of a file and its replacement as well. `origin.latest` is the package behind the
download button and the version it is of. An invalidation is done at any of the edges by
the time the feed is read back, so `Verify` may see the old one, tries again, and may
give up. An edge keeps a feed until it
expires or is invalidated and an archive for good (`Asks`, `Expire`). Only the
Keychain's key can verify what it signed, as in `verifySignature`; without it
(`Keychain` FALSE) nothing is promised of signatures.

### Deployment

Macs of different versions and one account. One action is one call to AWS or to
the Keychain: `ResolveClient` to `StoreKey` is `resolveClient` with
`EnsureAppCredentials`, `StackExists` to `WaitForStack` is `DeployStack`,
`StackOutputs` to `SaveSettings` the rest of an install, `RemoveProfile` to
`DeleteParametersByPath` an uninstall's side of the account. `job` is what a command
has read and goes by. CloudFormation is external: `Takes` says when a stack accepts
a change set, `Finish` ends an operation well or badly, and an executed change set
deletes the others. `Publish` is the gateway's boot script, which may run on a stack
that is being deleted. `Fault` fails a call or kills the command; where the code only
warns, the command goes on (`Tolerated`), or has ended well (`Regardless`: a failed save
of the settings, or removal of the parameters). `GivesUp` is the time limit of every wait.

### Setup

One Mac and its profiles. An install is `BeginInstall` (settings, conflicts),
`EnsureClientKey`, `Register` (the deployment and the peer), `SaveProfileSettings`,
`CheckKey` to `SetSupervisor` (the root stage), `WriteAppConfig`, `Verify`. An uninstall is
`BeginUninstall`, `TakeDown`, `Withdraw`, `RewriteSudoers`, `RemoveProfile`,
`DeleteKeys`, `RestartSupervisor`, `DeleteStack`. `ProfileSave` is `profile save`, and
`DeletePublicKey` what the refusal of the root stage tells the user to do. `run` is
what a command holds in memory, `remaining` the profiles it read before it removed
one. `Kill` and `Reboot` stop a command between any two steps; a directory that is
being removed may be half gone, and a reboot empties the staging directory. A step whose
failure the code ignores or warns of may fail and the command goes on: the removal of the
daemon (`RemovesSupervisor`), the tunnel down, the withdrawal, the sudoers rule, the daemon
put back, the stack. `warned` is what was last left as it was: "rule" until a rule is
written, "daemon" until it is set.

From the setup window the deploy stage runs without root, so it cannot read
`/etc/wireguard`, and the root stage checks that a key is there; from a terminal
neither is so. `do shell script with administrator privileges` is taken to keep HOME,
which the code relies on. The root stage has a temporary directory of its own, so it
finds a staged key only where its path was recorded (`path`, `FoundStaged`). Commands do
not overlap: the window disables itself while
it runs. A stack, a range with its address, and a key are values; a fresh key is
one that is nowhere yet.

### NetworkPlan

The algorithms an install decides by, as operators over addresses of a few bits:
`Overlaps` and `Collisions`, `Align`, the choice of subnets and hosted zone, and
the way from an exposed port to its slot and its target group. Each is compared with
what it is for, said without it: two ranges overlap if some address is in both, a claim
is refused if it would take an address of a network the Mac is on (an address of a device
that is up, not loopback and not a tunnel of ours: `Attachments`, one at a time), the
aligned addresses are different hosts of the range, the choice does not depend on the
order AWS lists things in, the record is in the zone that answers for it, and after a
second deploy exactly the ports
it asked for are open, whatever slots the first had used. `TLS` and `WireGuard` are the two
published ports that are taken.

## 3. What is checked

Bounds: `MaxFaults` counts external failures and kills, `MaxToggles` uses of the
switch, `MaxEdits` hand edits, `MaxClicks` wakes by a user, `MaxVisits` returns of
traffic, `MaxRuns` commands begun, `MaxMade` packages and archives built;
`Devices` and `Instances` bound what the kernel and EC2 hand out. A use of the switch
takes `ToggleCost` of the faults: a behaviour of `supervisor` has two failures, or one
click whose helper may be refused or killed.

| Run | Instance | Shows |
|---|---|---|
| `tunnel_pair` | 2 processes, 1 interface, 2 devices, 1 fault | `CallsReturn`: a call returns unless a command it runs hangs; `SerialCallsAreNamed`: a serving daemon is lost only by overlapping calls |
| `supervisor` | 1 interface, 3 devices, 2 faults or 1 click | `KeepsPromise`: the refinement of `Switch`; `LastPositionWins`, `QuietIsRepaired` |
| `registry_sync` | 2 clients, 2 keys, 2 addresses, 1 edit, 2 faults | `OneOwner`, `SyncApplies`, `GatewayCatchesUp` |
| `gateway_race` | 2 instances, supervisor and menu bar, supervised or not, 1 wake by a user, 1 visit, 1 fault | `OneGateway`, `WantedServes`, `IdleStaysOff` |
| `quality` | 3 builds, 2 of them of the default branch, a history of 2, 2 attempts, 1 fault; 4 reports to publish and all small files to read | `RunsAreAdded`: the refinement of `QualityHistory`; `LinksWork`, `JudgedWhereItStands`, `ReportsAreFaithful` |
| `release` | 2 versions, 1 edge, 4 builds or packings, 1 stop; every recipe, `pkg` and `appcast` also alone | `ServedVerifies`, `FeedComesLast`, `ReleaseIsWhole`, `EdgesCatchUp` |
| `deploy` | 2 Macs, one of an older version whose template has other parameters, 3 commands, 1 fault | `KeysAreHeld`, `EndsAsSaid`, `CarriedOver`, `RefusedForCause`, `EveryRunEnds` |
| `setup` | 2 profiles, 2 interfaces, 2 ranges, 4 keys, 4 commands, 1 kill, reboot or failed call; addresses of 4 bits, 3 subnets, 2 zones | `DistinctInterfaces`, `GrantsAreExact`, `DaemonFollows`, `KeyMatches`, `LeavesNoPeer`, `OthersKept`; `AddressesWork`, `PlanIsStable` |

Why these sizes. A daemon is lost, or the wrong one taken, with two interfaces or
two processes, one device that dies and one that takes its number; a third device
leaves room for one daemon nobody can reach without `Up` running out, which the
liveness properties of the supervisor need (with a fault and a click together it
would need a fifth, and the run would not end in time). One click lets a click fall at
every point of a pass; that the refinement of `Switch` holds for any number of
clicks is proved. Two keys and two addresses are enough for every exchange of one
between two workstations, two clients for every overlap. Two instances are one
gateway and its replacement. Three builds are two of one branch, one of which cancels
the other, and one that publishes between them; a history of two makes the third
drop the first. Two versions are enough to roll back and to serve an old feed over
a new one, four builds to make a package twice and pack it twice. Three commands of
two Macs are an install, an update by the other and a removal, or a re-run after a
failure. Four commands on one Mac are two installs, a removal and an install again,
with a kill in any of them; every invariant of `SetupProofs` was also simulated with
3 profiles, 9 commands and 3 faults before it was proved for all.

`supervisor`, `gateway_race`, `quality`, `release`, `deploy` and `setup` turn deadlock
checking off, because there the system may stop: a daemon that hangs, a group that is
off and whose users are done,
builds that have all ended, a maintainer or a user with no more commands to give.
The other runs check it.

Every property has a mutant, a plausible bug in the code it is about; each
mutant stands just before the definition it replaces, and its run finds it.

### Fairness

* `Tunnel`: a process that runs a call goes on with it (every wait of its own has a
  deadline: 15 s in `start`, 5 s in `Down`, one in `speak`), and a daemon whose listener is
  gone stops. What has no deadline, the commands it runs, may hang: `Hangs` is a failure
  that ends a call's progress for good, so no fairness is assumed of a hung call. No
  fairness for failures and none for starting a call.
* `Supervisor`: the daemon's loop does not exit (`Supervise`) and launchd restarts
  it; the menu bar finishes what it began. Strong fairness only for the handshake
  of an interface: it takes one round trip, and the daemon looks every 15 s, so a
  tunnel that is raised again and again handshakes between two looks.
* `PeerRegistry`: the timer (`OnUnitActiveSec=60s`). None for clients.
* `GatewayGroup`: Auto Scaling follows its desired capacity, a running instance
  boots, the alarm acts, a wake that began ends, the supervisor looks again. None
  for a user's wake, for a visit, or for traffic to end: `IdleStaysOff` assumes that
  it ended, `WantedServes` that the group goes on wanting its gateway.

### Where the code does something else than the text beside it

Each is a run TLC must find violated; the finding in `PROJECT.json` quotes the line.

| Run | What happens |
|---|---|
| `tunnel_race` | two overlapping `Up` of one interface start two daemons |
| `registry_lost` | overlapping clients undo each other's write |
| `deploy_rerun` | a first deployment that fails leaves a stack that refuses every re-run until it is deleted |
| `setup_rekey` | a profile removed with its keys kept and installed again from the window: the gateway is given a new key, the Mac keeps the old one |

Six more are stated in the modules and have no run of their own. Name one as the only
property of the configuration beside it and TLC finds it violated:

| Definition | Configuration | What happens |
|---|---|---|
| `Tunnel!DownMeansDown` | `Tunnel_pair.cfg` | the second `Down` of a wedged daemon's interface reports success |
| `Supervisor!CarriesPackets` | `Supervisor.cfg` | a daemon that was started but never configured counts as healthy for good |
| `PeerRegistry!ListedIsKept` | `PeerRegistry_sync.cfg` | one failed read of the parameter cuts every workstation off until the next sync |
| `GatewayGroup!IdentityKept` | `Gateway_race.cfg` | a failed read of the server key replaces the key |
| `Release!FeedIsSigned` | `Release.cfg` | `appcast` stopped between writing the feed and signing it leaves a feed that the next `make publish` uploads: its check looks at the archive's signature, not at the feed's (appcast/main.go:385-457) |
| `Release!RollbackLands` | `Release.cfg` | a rollback is refused by `publish`, which validates the feed against VERSION |

With two interfaces a dead daemon's name file and a reused utun number make `Device`
answer with another profile's device; `SupervisorProofs!RightTunnel` names the case.

Not findings, but worth knowing:

* The daemon acts on a switch it read before a wake of up to four minutes, so a tunnel
  switched off meanwhile may come up once more before the next pass drops it (`Switch`
  allows that, `LastPositionWins` bounds it). Every other profile waits as well.
* The supervisor of a tunnel that is left on wakes what the idle alarm stops, round and
  round, so `IdleStaysOff` is about profiles that are not supervised. `WakeGateway` does
  not honour the policy's cooldown, which the comment above the call (wake.go:89) says
  it does.
* `ifconfig`, `route` and the start of wireguard-go have no deadline. If one hangs, so does
  its call; if it is the daemon's, no tunnel of the Mac is reconciled until the process is
  killed, for launchd restarts only what exits. `CallsReturn`, `LastPositionWins` and
  `QuietIsRepaired` leave that case out by name.
* An instance the group has let go that only then comes to the first step of its boot
  script takes the Elastic IP from its replacement (yaml:515-518), and goes away with it.
  Nothing claims it again: the sync repairs the route only, so that gateway stays without
  until it is replaced. `OneGateway` and `WantedServes` leave out the instances this
  happened to (`robbed`) and show that nothing else takes an address.
* An uninstall goes on where the sudoers rule cannot be rewritten or removed
  (uninstall.go:176-193), so the removed profile's grant outlives it until the next rule is
  written, against install.go:334. It says "Supervisor removed" and "Tunnel down" without
  a look at whether they are (supervise.go:418-424, uninstall.go:64). `GrantsAreExact` and
  `DaemonFollows` hold from one rule that was written, or one daemon that was set, to the
  next that could not be. The model's daemon is its definition on disk; a process that
  outlives its definition, until a reboot, is not in it.
* A key on disk is overlooked where an older one is recorded in `client.pub`, or where sudo
  does not let it be read, and the root stage run from a terminal skips the check for a
  missing key, writes the configuration before the key, and writes a key that an earlier run
  left staged over the one on disk (install.go:426-457). `odd` are the interfaces that one
  of the three happened to, until a deployment goes on with the key on disk; `KeyMatches`
  leaves them out, and `setup_rekey` is what becomes of one. What `KeyMatches` shows is that
  every other order of installs, kills, reboots and repairs keeps the key trusted.
* Settings that cannot be recorded at the end of a deployment are a warning
  (main.go:375), and the install has succeeded.
* A missing or garbled audit counts as no vulnerability in the board's numbers, although
  the comment there (quality/main.go:460) tells a missing one from a clean one.
* An uninstall takes down the interface the menu bar has for the profile, or wg0 where
  that has no configuration, even if it is another profile's now. `OthersKept` leaves
  that step out. Two removals of one profile that are cut off, with a save in between,
  may return it to an interface that was given away: hence `faults <= 1` there and in
  `DistinctInterfaces`.
* The profile's settings go before its stack does: an uninstall that stops in between
  has to be told again which stack to delete. An unprivileged uninstall from a terminal does not
  put the daemon back for the others; it says so.
* A stack that other Macs delete and begin anew between an update's `stackExists` and its
  `existingParameterKeys` has no parameters yet, so the update carries none over and takes
  the newest image. `CarriedOver` leaves it out (`pulled`).
* Two application keys are IAM's limit; a third Mac's install deletes the one listed
  first, whoever holds it. A revoked key is not replaced where one is stored
  (main.go:553).
* The history's baseline takes a run whose tests passed, even if its coverage fell.
  A lost answer makes a build compare with itself once (`JudgedWhereItStands` assumes no
  such fault).
* `make publish` by itself publishes a package that was never notarized. A forced
  re-upload leaves edges that already have the
  archive with the old bytes for good (`ServedVerifies` leaves out versions published
  twice).

## 4. What is proved

For every value of the constants, with tlapm:

* `SupervisorProofs!TypeCorrect`: `TunnelSpec => []TunnelTypeOK`.
* `SupervisorProofs!SerialCalls`: `TunnelSpec => SerialCallsAreNamed`. `ServingIsNamed`
  is not inductive: it says nothing of calls in progress. `NamedInv` adds
  `CallsKnow`, what each call may rely on at its step (a call about to start a
  daemon knows that its interface serves none, a `Down` that removed the
  socket knows the same), and the step lemma assumes that no two calls about one
  interface overlap, before and after. Without the assumption the theorem is
  false, which is run `tunnel_race`. `SerialCallsOneDaemon` is the other half of that
  run: `TunnelSpec => ([]OneCallPerInterface => []OneDaemon)`, so the property it
  finds violated needs two overlapping calls.
* `SupervisorProofs!CallsEnd`, `DeploymentProofs!CommandsEnd` and
  `ReleaseProofs!FeedReachesEdges`: `CallsReturn`, `EveryRunEnds` and `EdgesCatchUp`
  for every value of the constants; of a call, that it ends or that a command it runs hangs.
  The prover knows nothing of ENABLED, so the fairness
  of one process is stated without it: `GoesOn(a)` says that a is idle again and again or
  takes a step again and again, which is what weak fairness of its step comes to, as some
  step can be taken wherever a call is; `KeepsForAWhile(e)` says the same of an edge that
  keeps a feed. The argument for the first two is a bound on the steps that are left
  (`StepsLeft`: 6 of a call, 14 of a command) which every step of its own, a failed call
  included, brings down (`StepsShrink`) and nobody else's raises (`StepsStay`). An edge
  that serves the origin's feed goes on to until that feed changes (`CaughtStays`).
* `PeerRegistryProofs!TypeCorrect`: `Spec => []RegistryTypeOK`.
* `PeerRegistryProofs!UniqueOwner`: `Spec => []OneOwner`. Inductive with the lists
  clients have computed and not written yet, which are unambiguous as well.
* `PeerRegistryProofs!SyncIsExact`: `Spec => []SyncApplies`. `ApplyInv` says what
  holds halfway: what the first loop leaves is listed, what the second has set is
  served at its address and is not disturbed by what it sets next, because no two
  entries of the list share a key or an address.
* `PeerRegistryProofs!OneWriterKeepsOthers`: with no hand edits,
  `Spec /\ []OneWriter => KeepsOthers`, the refinement of `Registry` for any number of
  clients that take turns. `WriterInv` says that the list a client holds is still
  the result of a join or a leave on the current one.

* `SupervisorProofs!SupervisorTypeCorrect`: `Spec => []TypeOK`, with the lemmas about
  `Tunnel` for the machine underneath and `FocusNamed` (a daemon inside a pass
  is busy with a profile) beside it.
* `SupervisorProofs!PromiseKept`: `Spec /\ []RightTunnel => KeepsPromise`, the
  refinement of `Switch` for any number of interfaces. `OrderKept` is what makes it
  inductive: whoever is inside `Up` is carrying out an order, because the daemon's
  `wanted` is still true wherever it may raise and is false wherever it drops, and a
  helper is inside `Up` only while its menu says so. `SpawnOrShrink` says that nothing
  but a spawn can bring an interface up; a spawn can bring up the wrong one, when its
  device is the one a stale name file names, and that is exactly what `RightTunnel`
  excludes. TLC finds a behaviour that breaks the assumption with two names and a
  reused device, so with several interfaces it is needed.
* `SupervisorProofs!PromiseOfOne`: with one interface `Spec => KeepsPromise`, the formula
  run `supervisor` checks, for any number of devices, faults and clicks.
* `GatewayGroupProofs!TypeCorrect`: `Spec => []GroupTypeOK`; the version of the stored key
  is bounded by counting the faults that replace it.
* `GatewayGroupProofs!AddressIsKept`: `Spec => []OneGateway`: a member that is past the first
  step of its boot script has the Elastic IP, unless a late boot script took it (`robbed`).
  That there is one member at most (`Single`) rests on the maximum size of one in the
  template and on Auto Scaling launching only below the desired capacity, which is
  external; given that, a claim by a member takes the address from no other one, and
  nothing but a claim or the end of a machine moves it (`Holding`).
* `GatewayGroupProofs!SyncedServes`: `Spec => []LacksOnlyTheRoute`. While the stored key is
  the first one, an instance that has synced and was not robbed serves as soon as the
  route is its own: `Keyed`
  says that an instance past its key runs with one no newer than the stored key. The route
  is what a terminating predecessor may take back, and what the sync puts right every
  minute, so `WantedServes`, which is model-checked, is left with the sync alone.

* `QualityProofs!QualityTypeCorrect`, `PagesExist` and `HistoryIsShared`:
  `Spec => []QualityTypeOK`, `Spec => []LinksWork`, `Spec => RunsAreAdded`, for any number
  of builds and attempts. `QualityInv` adds that the history, and every copy a build has
  read, is no longer than the limit, which is why an appended run drops at most one of
  the others, as `QualityHistory` says; and what a build has behind it at each step
  (`Underway`), above all its page.
* `QualityProofs!VerdictsStand`: `Spec => []JudgedWhereItStands`. `Standing` is the
  invariant while no call has been repeated: a build is in the history once it has
  written it and not before; what it holds (`falls`) is the comparison with what it read,
  so the conditional write makes it the one with the history it joins; and every run of
  the history was compared with the last passing run before it (`Judged`). That dropping
  the oldest run keeps this (`JudgedAppended`) rests on what "the last" is (`LastInIs`).
* `QualityProofs!ReportsFaithful`: `Spec => []ReportsAreFaithful`, which is a fact about
  `Collect` for any packages, tests, source files and blocks. `ParseGoTest` folds over the
  tests of a package and `Collect` sums over packages and areas; the property counts the set
  of all tests that have a result and no subtests. `PackageCounts`, `AreaCounts` and
  `TestsCount` take that set apart, with `FoldLemmas!SumOfSizes` for the sizes of the
  parts. `Coverage` folds over the lines of
  the two profiles and notes each block as it comes; the property sums over the set of
  blocks. What relates them is that the notes after the first k lines are, for each file,
  the sums over the blocks of those k lines (`AreNotes`), whether the next line is a
  new block, one that is known or one that is covered only now (`NoteSteps`).
* `ReleaseProofs!ReleaseTypeCorrect`, `FeedIsLast` and `ServedFeedVerifies`:
  `Spec => []ReleaseTypeOK`, `[]FeedComesLast` and `[]ServedVerifies`, for any number of
  versions, edges and builds. `InStep` is what a publish knows between its check and
  its end: its feed signs its archive, and a version that was out is in `forced`.
  `ServedInv` says that the bucket's feed and every edge's verify against the bucket, and
  that an edge's archives are the bucket's, for every version published once.
* `ReleaseProofs!OneBuildThroughout`: `Spec => []ReleaseIsWhole`. `WholeInv` follows one
  recipe through its four commands: what is left of it is a tail of `make release`, and
  `Ready` adds one fact at each step (the ticket, the archive, the feed, what is
  uploaded, the cask), which no later step of the same recipe undoes.
* `SetupProofs`: `SetupTypeCorrect`, `GrantsExact`, `InterfacesDistinct`, `DaemonIsRight`,
  `KeysMatch`, `LeavesNothing` and `OthersAreKept`, one for each property of `Setup`. One
  invariant carries them (`CommandInv` and `SharedInv`): what the files of an installed
  profile have in common, and what the command under way knows at its step
  (`InstallKnows`, `UninstallKnows`, `KeyKnown`, `PeersKnown`), such as that its
  interface is no other profile's, that what it read of the others before it began is
  still so, and which key its gateway has by now. Finding it is what showed where the
  properties held only because a bound hid a longer sequence of commands: the stale
  staged key, the removal cut off twice, and the interface a menu bar configuration
  keeps granted are in their statements now, and TLC confirms each is needed. `GrantsExact` and
  `DaemonIsRight` carry what a failed step left behind: a rule that was not rewritten still
  names every installed profile, and the next command that writes it makes it exact again.
* `SetupProofs!AddressesFollow`, `PlanStable` and `ClosestZone`: `Spec => []AddressesWork`,
  `Spec => []PlanIsStable`, for any width of an address, any networks, subnets,
  zones and ports. Two ranges overlap just if an address is in both (`OverlapShares`: an
  aligned power of two has another inside it or beside it), and a claim is refused just if
  it would take an address of a local network (`CollidesRight`); the tunnel's
  addresses are different hosts of its range (`FollowsAlign`); the folds of the discovery
  arrive at the lowest public subnet of each zone in whatever order they go
  (`DiscoveryStable`), and at the longest suffix of the name (`RecordsResolve`,
  `ClosestZone`); the slots of the stack, flattened, list each port once with its own
  target group (`PortsReach`).
* `FoldLemmas`: what the two need of the library's operators. A sum over a set
  grows by what an added element weighs (`SumFunctionOnSet`), a fold over a
  sequence is determined by any invariant that its step keeps, a flattened sequence has the
  elements of its parts. Induction theorems take an operator as a parameter, which no
  installed prover can instantiate, so each is proved by the least counterexample: the set
  of the naturals where the claim fails has a smallest element.
* `DeploymentProofs`: `DeploymentTypeCorrect`, `NoKeyIsLost`, `ImageIsKept`,
  `RefusalsForCause` and `CommandsEndAsSaid`, one for each safety property of `Deployment`,
  for any number of Macs, of versions with their templates, of commands and of faults.
  Each has its own invariant. `OthersLeaveAlone` is what they share: a step of another
  Mac leaves a Mac's command alone and, unless it disturbs it, the deployment too. So an
  undisturbed command's view stays true (`SeenIsSo`) and what it has brought about stays
  (`Achieved`). `KeyInv` says that no key has two holders, that a live key has one, and
  that with two Macs there is room wherever a key is made, so that none is evicted.
  `ImageInv` says that whoever has looked at the stack holds the image it has
  (`CarriesImage`), from the look to the change set.

Assumptions used: the named ASSUMEs of the modules (null values are not elements
of the sets they stand beside; bounds are naturals; finitely many instances and Macs; no
more profiles than interface names), which TLC evaluates in the runs. Of `NetworkPlan`:
a byte has two bits at least, or an aligned range would not have the three hosts the tunnel
takes, and a subnet is positive, for 0 stands for none. Of `QualityReport`: a package
with a failed test has failed, as `go test` says at its end, every test has a name, and
a block has as many
statements on every line that names it, as the compiler writes it.

Only model-checked: `LastPositionWins`, `QuietIsRepaired`, `GatewayCatchesUp`, `WantedServes`
and `IdleStaysOff`. Liveness under fairness and ENABLED are out of the prover's reach, and
where the steps that are left have no fixed bound (a list of any length to apply, a user who
wakes the gateway again) the rank would be an induction inside a temporal formula. And
each violation, which needs no proof.

## 5. Plan

*Done*: the modules above, proofs of every safety property and of the algorithms, and of
three liveness properties from progress of one process.

What would come next:

1. `Targets`: the registrations behind the load balancer against the peer list, with
   `peers --remove` of a port given as LOCAL:PUBLIC, which today keeps its target.
2. `Supervisor` composed with `Setup`: a profile installed or removed while the daemon
   is inside a pass, and `SetDesiredState` as truncate and write.
3. Which device a route points at, with two devices of one interface alive.

## 6. What is not modelled, and why

Parsing and printing (UAPI text, configuration files, JSON, the feed's XML):
sequential, with table tests in the repository. Diagnosis: it changes nothing, and
nothing decides on it. The Linux tunnel: the kernel's own interface, with neither name
file nor daemon, so none of the races `Tunnel` is about. The setup window beyond the
order of its stages, menus and prompts: presentation. `fetch-wireguard` and
`fetch-sparkle`: two pinned downloads at build time. The deploy role's and the site's
templates: static declarations. The targets of the load balancer: one idempotent call
each. TLS, packets and WireGuard's own protocol: external.
