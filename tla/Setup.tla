------------------------------- MODULE Setup -------------------------------
(***************************************************************************)
(* The VPN profiles of one Mac: installing, saving and removing them       *)
(* (cmd/mymicrotunnel runInstall, runProfileSave and runUninstall over     *)
(* internal/setup), with what they share: the interfaces, the keys and     *)
(* configurations in /etc/wireguard, the sudoers rule and the daemon.      *)
(*                                                                         *)
(* One command runs at a time.  An install comes from the setup window, in *)
(* stages of which one is root, or from a terminal; it may be killed       *)
(* between any two of its steps.  Each profile has a stack of its own.  A  *)
(* range and the Mac's address in it are one net; two nets do not overlap. *)
(* Interfaces are numbered, wg0 first.                                     *)
(***************************************************************************)
EXTENDS Integers, FiniteSetsExt

CONSTANTS
  Profiles, Interfaces, Nets,
  DefaultNet,
  Keys,      \* WireGuard keys: a fresh one is the first that is nowhere
  None,
  MaxRuns,   \* commands begun (a bound)
  MaxFaults  \* kills, reboots, and removals that failed (a bound)

\* `path` is StagedKeyPath: where a key was staged is recorded.
Settings == [iface : Interfaces, net : Nets, deployed : BOOLEAN, supervise : BOOLEAN, path : BOOLEAN]
AppConfigs == [iface : Interfaces, net : Nets, supervise : BOOLEAN]

ASSUME SetupAssumption ==
  /\ IsFiniteSet(Profiles) /\ IsFiniteSet(Interfaces)
  /\ Interfaces \subseteq Nat /\ 0 \in Interfaces
  /\ Cardinality(Profiles) <= Cardinality(Interfaces)  \* 64 names are enough
  /\ DefaultNet \in Nets
  /\ Keys \subseteq Nat
  /\ None \notin Profiles \cup Nat \cup Nets \cup Settings \cup AppConfigs
  /\ {MaxRuns, MaxFaults} \subseteq Nat

VARIABLES
  store,    \* store[p]: settings.json: one of Settings, or None
  config,   \* config[p]: config.json, of the menu bar: [iface, net, supervise], or None
  pub,      \* pub[p]: client.pub, or None
  staged,   \* staged[p]: a new private key in p's staging directory, or None
  keyFile,  \* keyFile[i]: the private key in /etc/wireguard, or None
  conf,     \* conf[i]: the profile i's configuration is of, or None
  granted,  \* the interfaces the sudoers rule names
  daemon,   \* the supervisor's definition is installed
  peers,    \* peers[p]: the peers of p's stack that were this Mac: [net, key]
  up,       \* the interfaces that are up
  at, run,  \* the command: its next step, and what it holds in memory
  begun, faults,
  \* History, for the properties:
  refused,  \* profiles whose root stage found no key
  leaving,  \* profiles an uninstall has begun to remove
  cut,      \* profiles a command did not get to the end of
  odd,      \* interfaces whose key a deployment did not look at, or not get
  unsure,   \* since the daemon was last set, something it follows has changed
  warned    \* what was last left as it was, with no more than a warning

files == <<store, config, pub, staged>>
root == <<keyFile, conf, granted, daemon>>
history == <<refused, leaving, cut, odd, unsure, warned>>
setupVars == <<files, root, peers, up, at, run, begun, faults, history>>

Init ==
  /\ store = [p \in Profiles |-> None]
  /\ config = [p \in Profiles |-> None]
  /\ pub = [p \in Profiles |-> None]
  /\ staged = [p \in Profiles |-> None]
  /\ keyFile = [i \in Interfaces |-> None]
  /\ conf = [i \in Interfaces |-> None]
  /\ granted = {}
  /\ daemon = FALSE
  /\ peers = [p \in Profiles |-> {}]
  /\ up = {}
  /\ at = "idle" /\ run = None
  /\ begun = 0 /\ faults = 0
  /\ refused = {} /\ leaving = {} /\ cut = {} /\ odd = {} /\ unsure = FALSE /\ warned = {}

-----------------------------------------------------------------------------
\* The store.

\* Mutant of ListProfiles: a draft is not a profile yet.
ListInstalled == {p \in Profiles : config[p] # None}

ListProfiles == {p \in Profiles : store[p] # None \/ config[p] # None}

\* AllProfileSettings: without settings, what the app's config says.
SettingsOf(p) ==
  IF store[p] # None THEN store[p]
  ELSE [iface |-> config[p].iface, net |-> config[p].net, deployed |-> FALSE,
        supervise |-> config[p].supervise, path |-> FALSE]

Others(p) == ListProfiles \ {p}
TakenInterfaces(p) == {SettingsOf(q).iface : q \in Others(p)}

\* Mutant of NextFreeInterface: the one after the last that is taken.
InterfaceAfter(taken) == Max(taken \cup {-1}) + 1

NextFreeInterface(taken) == Min(Interfaces \ taken)

\* Where a command on p starts from.
Stored(p, iface) ==
  IF store[p] # None THEN store[p]
  ELSE [iface |-> iface, net |-> DefaultNet, deployed |-> FALSE, supervise |-> FALSE, path |-> FALSE]

\* withProfile and AnySupervised.
Everyone(p, s) == {SettingsOf(q) : q \in Others(p)} \cup {s}
AnySupervised(settings) == \E s \in settings : s.supervise
Granted(settings) == {s.iface : s \in settings}

ConflictsWithOtherProfiles(p, s) ==
  \E q \in Others(p) : SettingsOf(q).iface = s.iface \/ SettingsOf(q).net = s.net

Starts(step, r) ==
  /\ at = "idle"
  /\ begun < MaxRuns
  /\ begun' = begun + 1
  /\ at' = step /\ run' = r
  /\ UNCHANGED <<root, peers, up, faults, refused, cut, odd, warned>>

Fault == faults < MaxFaults /\ faults' = faults + 1

Proceeds(step) == at' = step /\ UNCHANGED begun
Goes(step) == Proceeds(step) /\ UNCHANGED faults
Ends == Goes("idle") /\ run' = None

\* RemoveSupervisor.  It does not look at whether sudo removed anything.
RemovesSupervisor ==
  \/ daemon' = FALSE /\ warned' = warned \ {"daemon"} /\ UNCHANGED faults
  \/ daemon /\ Fault /\ UNCHANGED daemon /\ warned' = warned \cup {"daemon"}

-----------------------------------------------------------------------------
\* Install.

\* Up to the conflict check, which ends it with nothing changed.
BeginInstall(p, window, net, supervise) ==
  LET was == Stored(p, 0)
      moves == ~was.deployed /\ was.iface \in TakenInterfaces(p)
      s == [was EXCEPT !.iface = IF moves THEN NextFreeInterface(TakenInterfaces(p)) ELSE @,
                       !.net = IF net = None THEN @ ELSE net,
                       !.supervise = supervise]
  IN  /\ ~ConflictsWithOtherProfiles(p, s)
      /\ Starts("key", [profile |-> p, window |-> window, s |-> s, key |-> None])
      /\ UNCHANGED <<files, leaving, unsure>>

FreshKeys ==
  Keys \ UNION ({{keyFile[i] : i \in Interfaces}, {pub[p] : p \in Profiles}, {staged[p] : p \in Profiles}}
                \cup {{e.key : e \in peers[p]} : p \in Profiles})

UsesKey(p, key) ==
  /\ run' = [run EXCEPT !.key = key]
  /\ pub' = [pub EXCEPT ![p] = key]
  /\ UNCHANGED staged

Generates(p) ==
  /\ FreshKeys # {}
  /\ run' = [run EXCEPT !.key = Min(FreshKeys), !.s.path = TRUE]
  /\ pub' = [pub EXCEPT ![p] = Min(FreshKeys)]
  /\ staged' = [staged EXCEPT ![p] = Min(FreshKeys)]

\* The key on disk is not the recorded one, or there is none to compare and
\* sudo does not let it be read.
Overlooks(p, file, readable) == file # None /\ IF pub[p] # None THEN pub[p] # file ELSE ~readable

\* Mutant of EnsureClientKey: the key on disk is not asked for.
EnsureRecordedKey ==
  /\ at = "key"
  /\ \E readable \in BOOLEAN :
       LET p == run.profile
           i == run.s.iface
       IN  /\ IF pub[p] # None THEN UsesKey(p, pub[p]) ELSE Generates(p)
           /\ odd' = IF Overlooks(p, keyFile[i], readable) THEN odd \cup {i} ELSE odd
  /\ Goes("register")
  /\ UNCHANGED <<store, config, root, peers, up, refused, leaving, cut, unsure, warned>>

\* A key that was recorded is used without a look at the disk.  One on disk is
\* read if sudo allows it, which the window does not ask for.
EnsureClientKey ==
  /\ at = "key"
  /\ \E readable \in BOOLEAN :
       LET p == run.profile
           i == run.s.iface
       IN  /\ IF pub[p] # None THEN UsesKey(p, pub[p])
              ELSE IF keyFile[i] # None /\ readable THEN UsesKey(p, keyFile[i])
              ELSE Generates(p)
           /\ odd' = IF Overlooks(p, keyFile[i], readable) THEN odd \cup {i} ELSE odd
  /\ Goes("register")
  /\ UNCHANGED <<store, config, root, peers, up, refused, leaving, cut, unsure, warned>>

\* Deploy, and RegisterWorkstation: the same address or the same key is this Mac.
Register ==
  /\ at = "register"
  /\ LET p == run.profile
         peer == [net |-> run.s.net, key |-> run.key]
     IN  /\ peers' = [peers EXCEPT ![p] = {e \in @ : e.net # peer.net /\ e.key # peer.key} \cup {peer}]
         /\ run' = [run EXCEPT !.s.deployed = TRUE]
         /\ odd' = IF keyFile[run.s.iface] = run.key THEN odd \ {run.s.iface} ELSE odd
  /\ Goes("settings")
  /\ UNCHANGED <<files, root, up, refused, leaving, cut, unsure, warned>>

SaveProfileSettings ==
  /\ at = "settings"
  /\ store' = [store EXCEPT ![run.profile] = run.s]
  /\ Goes("conf")
  /\ UNCHANGED <<config, pub, staged, root, peers, up, run, history>>

\* The staged key, where the stage that writes it looks: root has a temporary
\* directory of its own, and needs the path.
FoundStaged == IF run.window /\ ~run.s.path THEN None ELSE staged[run.profile]

\* WriteRootFiles: as root it keeps a key that is there, and refuses to go on
\* without any; from a terminal it does neither.
CheckKey ==
  /\ at = "conf"
  /\ LET p == run.profile
         i == run.s.iface
     IN  IF run.window /\ keyFile[i] = None /\ FoundStaged = None
         THEN /\ refused' = refused \cup {p}
              /\ cut' = cut \cup {p}
              /\ unsure' = TRUE
              /\ Ends
              /\ UNCHANGED <<staged, conf>>
         ELSE /\ staged' = IF run.window /\ keyFile[i] # None /\ FoundStaged # None
                          THEN [staged EXCEPT ![p] = None] ELSE staged
              /\ conf' = [conf EXCEPT ![i] = p]
              /\ Goes("grant")
              /\ UNCHANGED <<run, refused, cut, unsure>>
  /\ UNCHANGED <<store, config, pub, keyFile, granted, daemon, peers, up, leaving, odd, warned>>

WritesRule(settings) == granted' = Granted(settings) /\ warned' = warned \ {"rule"}

WriteSudoers ==
  /\ at = "grant"
  /\ WritesRule(Everyone(run.profile, run.s))
  /\ Goes("private")
  /\ UNCHANGED <<files, keyFile, conf, daemon, peers, up, run, refused, leaving, cut, odd, unsure>>

WritePrivateKey ==
  /\ at = "private"
  /\ LET p == run.profile
         i == run.s.iface
     IN  IF FoundStaged # None
         THEN /\ keyFile' = [keyFile EXCEPT ![i] = staged[p]]
              /\ staged' = [staged EXCEPT ![p] = None]
              /\ odd' = IF staged[p] = run.key THEN odd \ {i} ELSE odd \cup {i}
         ELSE UNCHANGED <<keyFile, staged, odd>>
  /\ Goes("daemon")
  /\ UNCHANGED <<store, config, pub, conf, granted, daemon, peers, up, run, refused, leaving, cut, unsure, warned>>

\* InstallSupervisor for these profiles, or RemoveSupervisor.
SetsSupervisor(settings) ==
  /\ at = "daemon"
  /\ IF AnySupervised(settings)
     THEN daemon' = TRUE /\ warned' = warned \ {"daemon"} /\ UNCHANGED faults
     ELSE RemovesSupervisor
  /\ unsure' = FALSE
  /\ Proceeds("finish")
  /\ UNCHANGED <<files, keyFile, conf, granted, peers, up, run, refused, leaving, cut, odd>>

\* Mutant of SetSupervisor: the profile installed decides for all.
SetOwnSupervisor == SetsSupervisor({run.s})

SetSupervisor == SetsSupervisor(Everyone(run.profile, run.s))

\* The app's config, the desired state and the settings again.
WriteAppConfig ==
  /\ at = "finish"
  /\ LET p == run.profile IN
     /\ config' = [config EXCEPT ![p] = [iface |-> run.s.iface, net |-> run.s.net, supervise |-> run.s.supervise]]
     /\ store' = [store EXCEPT ![p] = run.s]
     /\ leaving' = leaving \ {p}
  /\ Goes("verify")
  /\ UNCHANGED <<pub, staged, root, peers, up, run, refused, cut, odd, unsure, warned>>

\* Verify: a tunnel without its key does not come up.
Verify ==
  /\ at = "verify"
  /\ up' = IF keyFile[run.s.iface] # None THEN up \cup {run.s.iface} ELSE up
  /\ Ends
  /\ UNCHANGED <<files, root, peers, history>>

-----------------------------------------------------------------------------
\* Profile save: a draft, or new answers for what is deployed.

ProfileSave(p, net, supervise) ==
  /\ at = "idle"
  /\ begun < MaxRuns
  /\ begun' = begun + 1
  /\ LET was == Stored(p, NextFreeInterface(TakenInterfaces(p)))
         s == [was EXCEPT !.net = IF net = None THEN @ ELSE net, !.supervise = supervise]
     IN  /\ store' = [store EXCEPT ![p] = s]
         /\ unsure' = (unsure \/ supervise # (p \in ListProfiles /\ SettingsOf(p).supervise))
  /\ UNCHANGED <<config, pub, staged, root, peers, up, at, run, faults, refused, leaving, cut, odd, warned>>

-----------------------------------------------------------------------------
\* Uninstall.

\* installedTunnel: without the app's config, the defaults.
Installed(p) == IF config[p] # None THEN config[p] ELSE [iface |-> 0, net |-> DefaultNet, supervise |-> FALSE]

\* The daemon goes first.  What remains is read before anything is removed.
BeginUninstall(p, privileged, deletes) ==
  /\ p \in ListProfiles
  /\ at = "idle"
  /\ begun < MaxRuns
  /\ begun' = begun + 1
  /\ at' = "down"
  /\ run' = [profile |-> p, privileged |-> privileged, deletes |-> deletes, tunnel |-> Installed(p),
             iface |-> SettingsOf(p).iface, known |-> store[p] # None,
             remaining |-> {SettingsOf(q) : q \in Others(p)}]
  /\ RemovesSupervisor
  /\ unsure' = TRUE
  /\ leaving' = leaving \cup {p}
  /\ UNCHANGED <<files, keyFile, conf, granted, peers, up, refused, cut, odd>>

\* Called down, whether it goes or not.
TakeDown ==
  /\ at = "down"
  /\ \/ up' = up \ {run.tunnel.iface} /\ UNCHANGED faults
     \/ Fault /\ UNCHANGED up
  /\ Proceeds("withdraw")
  /\ UNCHANGED <<files, root, peers, run, history>>

\* Mutant of Withdraw: the address is the default one.
WithdrawDefault ==
  /\ at = "withdraw"
  /\ peers' = IF run.known /\ "stack" \notin run.deletes
              THEN [peers EXCEPT ![run.profile] = {e \in @ : e.net # DefaultNet}] ELSE peers
  /\ Goes("rule")
  /\ UNCHANGED <<files, root, up, run, history>>

\* Where the stack is known and stays; whether it succeeds or not.
Withdraw ==
  /\ at = "withdraw"
  /\ LET applies == run.known /\ "stack" \notin run.deletes IN
     \/ /\ peers' = IF applies THEN [peers EXCEPT ![run.profile] = {e \in @ : e.net # run.tunnel.net}] ELSE peers
        /\ cut' = IF run.known THEN cut ELSE cut \cup {run.profile}
        /\ UNCHANGED faults
     \/ applies /\ Fault /\ cut' = cut \cup {run.profile} /\ UNCHANGED peers
  /\ Proceeds("rule")
  /\ UNCHANGED <<files, root, up, run, refused, leaving, odd, unsure, warned>>

\* Mutant of RewriteSudoers: the rule is left to the profiles that remain.
KeepSudoers ==
  /\ at = "rule"
  /\ UNCHANGED granted
  /\ \/ warned' = warned \ {"rule"} /\ UNCHANGED faults
     \/ Fault /\ warned' = warned \cup {"rule"}
  /\ Proceeds("remove")
  /\ UNCHANGED <<files, keyFile, conf, daemon, peers, up, run, refused, leaving, cut, odd, unsure>>

\* The removal goes on where the rule cannot be written, or taken away.
RewriteSudoers ==
  /\ at = "rule"
  /\ \/ WritesRule(run.remaining) /\ UNCHANGED faults
     \/ Fault /\ UNCHANGED granted /\ warned' = warned \cup {"rule"}
  /\ Proceeds("remove")
  /\ UNCHANGED <<files, keyFile, conf, daemon, peers, up, run, refused, leaving, cut, odd, unsure>>

\* RemoveAll takes the profile's directory, file by file if it is killed.
RemoveProfile ==
  /\ at = "remove"
  /\ store' = [store EXCEPT ![run.profile] = None]
  /\ config' = [config EXCEPT ![run.profile] = None]
  /\ pub' = [pub EXCEPT ![run.profile] = None]
  /\ Goes("keys")
  /\ UNCHANGED <<staged, root, peers, up, run, history>>

\* Mutant of DeleteKeys: /etc/wireguard is the profile's.
DeleteAllKeys ==
  /\ at = "keys"
  /\ IF "keys" \in run.deletes
     THEN keyFile' = [i \in Interfaces |-> None] /\ conf' = [i \in Interfaces |-> None]
     ELSE UNCHANGED <<keyFile, conf>>
  /\ Goes("restart")
  /\ UNCHANGED <<files, granted, daemon, peers, up, run, history>>

DeleteKeys ==
  /\ at = "keys"
  /\ IF "keys" \in run.deletes
     THEN /\ keyFile' = [keyFile EXCEPT ![run.iface] = None]
          /\ conf' = [conf EXCEPT ![run.iface] = None]
     ELSE UNCHANGED <<keyFile, conf>>
  /\ Goes("restart")
  /\ UNCHANGED <<files, granted, daemon, peers, up, run, history>>

\* Only root can put the daemon back; the failure is a warning.  If nobody
\* wants it, nothing is done.
RestartSupervisor ==
  /\ at = "restart"
  /\ IF ~AnySupervised(run.remaining) THEN UNCHANGED <<daemon, warned, faults>>
     ELSE \/ /\ run.privileged
             /\ daemon' = TRUE /\ warned' = warned \ {"daemon"} /\ UNCHANGED faults
          \/ /\ IF run.privileged THEN Fault ELSE UNCHANGED faults
             /\ UNCHANGED daemon /\ warned' = warned \cup {"daemon"}
  /\ unsure' = FALSE
  /\ Proceeds("stack")
  /\ UNCHANGED <<files, keyFile, conf, granted, peers, up, run, refused, leaving, cut, odd>>

\* DeleteStack, and the parameters the gateway left, which may stay.
DeleteStack ==
  /\ at = "stack"
  /\ IF "stack" \notin run.deletes THEN UNCHANGED <<peers, cut, faults>>
     ELSE \/ peers' = [peers EXCEPT ![run.profile] = {}] /\ UNCHANGED <<cut, faults>>
          \/ Fault /\ cut' = cut \cup {run.profile} /\ UNCHANGED peers
  /\ Proceeds("idle") /\ run' = None
  /\ UNCHANGED <<files, root, up, refused, leaving, odd, unsure, warned>>

-----------------------------------------------------------------------------
\* What the refusal asks for.
DeletePublicKey(p) ==
  /\ at = "idle"
  /\ p \in refused /\ pub[p] # None
  /\ pub' = [pub EXCEPT ![p] = None]
  /\ refused' = refused \ {p}
  /\ UNCHANGED <<store, config, staged, root, peers, up, at, run, begun, faults, leaving, cut, odd, unsure, warned>>

\* The command is cut off; the directory it was removing may be half gone.
Interrupted ==
  /\ LET p == run.profile IN
     /\ IF at = "remove"
        THEN /\ \/ store' = [store EXCEPT ![p] = None] /\ UNCHANGED config
                \/ config' = [config EXCEPT ![p] = None] /\ UNCHANGED store
             /\ pub' \in {pub, [pub EXCEPT ![p] = None]}
        ELSE UNCHANGED <<store, config, pub>>
     /\ cut' = cut \cup {p}
  /\ unsure' = TRUE
  /\ at' = "idle" /\ run' = None

Kill ==
  /\ at # "idle"
  /\ Fault
  /\ Interrupted
  /\ UNCHANGED <<staged, root, peers, up, begun, refused, leaving, odd, warned>>

\* The temporary directories are emptied, and no tunnel is up.
Reboot ==
  /\ Fault
  /\ IF at = "idle" THEN UNCHANGED <<store, config, pub, at, run, cut, unsure>> ELSE Interrupted
  /\ staged' = [p \in Profiles |-> None]
  /\ up' = {}
  /\ UNCHANGED <<root, peers, begun, refused, leaving, odd, warned>>

Next ==
  \/ \E p \in Profiles, net \in Nets \cup {None}, window, supervise \in BOOLEAN :
       BeginInstall(p, window, net, supervise)
  \/ EnsureClientKey \/ Register \/ SaveProfileSettings \/ CheckKey \/ WriteSudoers
  \/ WritePrivateKey \/ SetSupervisor \/ WriteAppConfig \/ Verify
  \/ \E p \in Profiles, net \in Nets \cup {None}, supervise \in BOOLEAN : ProfileSave(p, net, supervise)
  \/ \E p \in Profiles, privileged \in BOOLEAN, deletes \in SUBSET {"keys", "stack"} :
       BeginUninstall(p, privileged, deletes)
  \/ TakeDown \/ Withdraw \/ RewriteSudoers \/ RemoveProfile \/ DeleteKeys
  \/ RestartSupervisor \/ DeleteStack
  \/ \E p \in Profiles : DeletePublicKey(p)
  \/ Kill \/ Reboot

Spec == Init /\ [][Next]_setupVars

-----------------------------------------------------------------------------
Installs == [profile : Profiles, window : BOOLEAN, s : Settings, key : Keys \cup {None}]
Uninstalls ==
  [profile : Profiles, privileged : BOOLEAN, deletes : SUBSET {"keys", "stack"}, tunnel : AppConfigs,
   iface : Interfaces, known : BOOLEAN, remaining : SUBSET Settings]
InstallSteps == {"key", "register", "settings", "conf", "grant", "private", "daemon", "finish", "verify"}
UninstallSteps == {"down", "withdraw", "rule", "remove", "keys", "restart", "stack"}

SetupTypeOK ==
  /\ store \in [Profiles -> Settings \cup {None}]
  /\ config \in [Profiles -> AppConfigs \cup {None}]
  /\ pub \in [Profiles -> Keys \cup {None}]
  /\ staged \in [Profiles -> Keys \cup {None}]
  /\ keyFile \in [Interfaces -> Keys \cup {None}]
  /\ conf \in [Interfaces -> Profiles \cup {None}]
  /\ granted \subseteq Interfaces
  /\ daemon \in BOOLEAN
  /\ peers \in [Profiles -> SUBSET [net : Nets, key : Keys]]
  /\ up \subseteq Interfaces
  /\ \/ at = "idle" /\ run = None
     \/ at \in InstallSteps /\ run \in Installs
     \/ at \in UninstallSteps /\ run \in Uninstalls
  /\ begun \in 0 .. MaxRuns /\ faults \in 0 .. MaxFaults
  /\ {refused, leaving, cut} \subseteq SUBSET Profiles
  /\ odd \subseteq Interfaces /\ unsure \in BOOLEAN
  /\ warned \subseteq {"rule", "daemon"}

NamedInterfaces ==
  {SettingsOf(p).iface : p \in ListProfiles} \cup {config[p].iface : p \in {q \in Profiles : config[q] # None}}

\* No two profiles of the Mac, drafts and half-removed ones included, have one
\* interface: neither's install writes the other's configuration
\* (internal/setup/profiles.go:218).  A profile whose removal is cut off twice,
\* with a save in between, may be back at an interface it had given up.
DistinctInterfaces ==
  LET kept == {p \in Profiles : store[p] # None \/ config[p] # None} IN
  faults <= 1 => \A p, q \in kept : SettingsOf(p).iface = SettingsOf(q).iface => p = q

\* Whatever is installed, saved and removed around it, a profile that is
\* installed can be switched without a password; and no interface can that is
\* not some profile's, in its settings or in what the menu bar has of it
\* (internal/setup/install.go:334, "an uninstalled profile's grant would outlive
\* it").  A removal that could not write the rule goes on without it
\* (uninstall.go:176): from then to the next rule that is written, a grant may
\* outlive its profile.
GrantsAreExact ==
  /\ \A p \in Profiles : config[p] # None /\ p \notin leaving => config[p].iface \in granted
  /\ at = "idle" /\ "rule" \notin warned => granted \subseteq NamedInterfaces

\* Between commands the daemon is installed just if some profile is
\* supervised: a removed profile neither takes it from the others
\* (internal/setup/uninstall.go:117) nor leaves it to nobody.  Except, until it
\* is next set, where a command could not remove it, which is not looked at
\* (supervise.go:418), or could not put it back, which is a warning.
DaemonFollows ==
  at = "idle" /\ ~unsure /\ "daemon" \notin warned =>
    daemon = AnySupervised({SettingsOf(p) : p \in ListProfiles})

\* At every moment the gateway of every installed profile trusts the key on
\* disk, through kills and reboots in the middle of installs and the repairs
\* that follow: a key that is there is asked for before another is made
\* (internal/setup/install.go:48).  Except where that could not help: no
\* sudo to read it, an older key recorded, or one an earlier run left staged;
\* then until a deployment goes on with the key on disk.
KeyMatches ==
  \A p \in Profiles :
    config[p] # None /\ p \notin leaving =>
      LET i == config[p].iface IN
      keyFile[i] # None /\ i \notin odd => \E e \in peers[p] : e.key = keyFile[i]

\* "An existing private key is never replaced. Overwriting one leaves the
\* gateway trusting a public key whose private half no longer exists"
\* (internal/setup/install.go:426): so the key that is kept is the one trusted.
GatewayTrustsKey ==
  \A p \in Profiles :
    config[p] # None /\ p \notin leaving /\ at = "idle" =>
      LET i == config[p].iface IN
      keyFile[i] # None => \E e \in peers[p] : e.key = keyFile[i]

\* A profile that was removed, by commands that came to their end, has left no
\* peer of this Mac behind, whatever was saved over its settings since it was
\* installed (internal/setup/uninstall.go:72).
LeavesNoPeer ==
  at = "idle" => \A p \in Profiles \ (cut \cup ListProfiles) : peers[p] = {}

\* No command on a profile touches the key, the configuration, the grant or
\* the tunnel of another's interface.  (One that removes a profile takes down
\* the interface the menu bar has for it, and wg0 where it has none, even if
\* the settings name another.)
OthersKept ==
  [][at # "idle" /\ ~Reboot /\ faults <= 1 /\ (at = "down" => run.tunnel.iface = run.iface) =>
       \A q \in Others(run.profile) :
         LET i == SettingsOf(q).iface IN
         /\ keyFile'[i] = keyFile[i]
         /\ conf'[i] = conf[i]
         /\ i \in granted => i \in granted'
         /\ i \in up => i \in up']_setupVars
=============================================================================
