---------------------------- MODULE SetupProofs ----------------------------
(***************************************************************************)
(* Proofs of the safety properties of Setup, for every number of profiles, *)
(* interfaces, ranges, keys, commands and faults, and of what is asked of  *)
(* NetworkPlan, for every width of an address and every VPC.               *)
(***************************************************************************)
EXTENDS MCSetup, FoldLemmas

-----------------------------------------------------------------------------
\* The inductive invariant: what is true of the files between commands, and
\* what the command under way may rely on at its step.

Installing == at \in InstallSteps
Uninstalling == at \in UninstallSteps

\* A profile that is installed and that no uninstall has begun on has its
\* settings, deployed, and they and the menu bar name one interface.
InstalledHasSettings ==
  \A p \in Profiles : config[p] # None /\ p \notin leaving =>
    store[p] # None /\ store[p].iface = config[p].iface /\ store[p].deployed

\* What an install knows of its profile and of the others.
InstallKnows ==
  Installing =>
    LET p == run.profile IN
    /\ run.s.iface \notin TakenInterfaces(p)
    /\ config[p] # None /\ p \notin leaving => run.s.iface = config[p].iface /\ run.s.deployed
    /\ at \in {"key", "register", "settings"} /\ store[p] # None =>
         store[p].iface \in TakenInterfaces(p) \cup {run.s.iface}
    /\ at \notin {"key", "register"} => run.s.deployed
    /\ at \notin {"key", "register", "settings"} => store[p] = run.s
    /\ at \in {"private", "daemon", "finish", "verify"} => granted = Granted(Everyone(p, run.s))
    /\ at \in {"finish", "verify"} /\ "daemon" \notin warned => daemon = AnySupervised(Everyone(p, run.s))

\* What an uninstall knows.
UninstallKnows ==
  Uninstalling =>
    LET p == run.profile IN
    /\ p \in leaving
    /\ run.remaining = {SettingsOf(q) : q \in Others(p)}
    /\ at \in {"remove", "keys", "restart", "stack"} /\ "rule" \notin warned => granted = Granted(run.remaining)
    /\ at \in {"keys", "restart", "stack"} => store[p] = None /\ config[p] = None
    /\ at # "stack" /\ "daemon" \notin warned => daemon = FALSE
    /\ at = "stack" /\ ~unsure /\ "daemon" \notin warned => daemon = AnySupervised(run.remaining)

\* No interface is granted that no profile names, since the rule was written.
GrantsAreNamed == "rule" \notin warned => granted \subseteq NamedInterfaces

InstalledIsGranted ==
  \A p \in Profiles : config[p] # None /\ p \notin leaving => config[p].iface \in granted

\* Until something has gone wrong the menu bar's configuration comes with
\* settings that name the same interface.
FilesAgree ==
  faults = 0 =>
    /\ \A p \in Profiles : config[p] # None => store[p] # None /\ store[p].iface = config[p].iface
    /\ Installing /\ config[run.profile] # None => run.s.iface = config[run.profile].iface

\* An uninstall's interface is no other profile's.
OwnInterface ==
  faults <= 1 /\ Uninstalling => run.iface \notin TakenInterfaces(run.profile)

\* What an install knows of its key.
KeyKnown ==
  Installing /\ at # "key" =>
    LET p == run.profile
        i == run.s.iface
    IN  /\ run.key \in Keys /\ pub[p] = run.key
        /\ keyFile[i] # None /\ i \notin odd => keyFile[i] = run.key
        /\ at # "register" => \E e \in peers[p] : e.key = run.key

\* A profile's peers are of the configuration the menu bar has, or there are none.
PeersAgree(p) ==
  /\ config[p] = None => peers[p] = {}
  /\ config[p] # None => \A e \in peers[p] : e.net = config[p].net /\ e.key = pub[p]

\* The peers of a profile no command on which was cut off.
PeersKnown ==
  /\ refused \subseteq cut
  /\ \A p \in Profiles \ cut : at = "idle" \/ run.profile # p => PeersAgree(p)
  /\ at # "idle" /\ run.profile \notin cut =>
       LET p == run.profile IN
       /\ at \in {"key", "register", "verify", "down", "withdraw"} => PeersAgree(p)
       /\ Installing /\ at \notin {"key", "register"} => peers[p] = {[net |-> run.s.net, key |-> run.key]}
       /\ at \in {"down", "withdraw"} => run.tunnel = Installed(p)
       /\ at \in {"rule", "remove", "keys", "restart", "stack"} => "stack" \in run.deletes \/ peers[p] = {}
-----------------------------------------------------------------------------
\* Operators.

\* Min is of the set.
LEMMA MinIsIn ==
  ASSUME NEW S \in SUBSET Nat, S # {}
  PROVE  Min(S) \in S
<1>1. PICK x \in S : \A y \in S : x <= y
  BY LeastNumber
<1> QED
  BY <1>1 DEF Min

\* The settings of a profile that is there.
LEMMA SettingsType ==
  ASSUME SetupTypeOK, NEW p \in ListProfiles
  PROVE  p \in Profiles /\ SettingsOf(p) \in Settings
BY SetupAssumption DEF SetupTypeOK, ListProfiles, SettingsOf, Settings, AppConfigs

\* 64 names are enough: one is always left.
LEMMA OneIsFree ==
  ASSUME SetupTypeOK, NEW p \in Profiles
  PROVE  LET taken == TakenInterfaces(p) IN
         taken \subseteq Interfaces /\ NextFreeInterface(taken) \in Interfaces \ taken
<1> DEFINE taken == TakenInterfaces(p)
           f == [q \in Others(p) |-> SettingsOf(q).iface]
<1>1. taken \subseteq Interfaces
  BY SettingsType DEF TakenInterfaces, Others, Settings
<1>2. f \in Surjection(Others(p), taken)
  BY DEF Surjection, TakenInterfaces
<1>3. Others(p) \subseteq Profiles \ {p}
  BY DEF Others, ListProfiles
<1>4. IsFiniteSet(Profiles) /\ IsFiniteSet(Profiles \ {p}) /\ Cardinality(Profiles \ {p}) = Cardinality(Profiles) - 1
  BY FS_RemoveElement, SetupAssumption
<1>5. IsFiniteSet(Others(p)) /\ Cardinality(Others(p)) <= Cardinality(Profiles \ {p})
  BY <1>3, <1>4, FS_Subset
<1>6. IsFiniteSet(taken) /\ Cardinality(taken) <= Cardinality(Others(p))
  BY <1>2, <1>5, FS_Surjection
<1>7. taken # Interfaces
  <2>1. Cardinality(taken) < Cardinality(Profiles)
    BY <1>4, <1>5, <1>6, FS_CardinalityType
  <2>2. Cardinality(Profiles) <= Cardinality(Interfaces) /\ IsFiniteSet(Interfaces)
    BY SetupAssumption
  <2> QED BY <1>4, <1>6, <2>1, <2>2, FS_CardinalityType
<1>8. Interfaces \ taken # {} /\ Interfaces \ taken \subseteq Nat
  BY <1>1, <1>7, SetupAssumption
<1> HIDE DEF taken
<1>9. Min(Interfaces \ taken) \in Interfaces \ taken
  BY <1>8, MinIsIn
<1> QED BY <1>1, <1>9 DEF taken, NextFreeInterface

-----------------------------------------------------------------------------
\* Types.

LEMMA InitTypes == Init => SetupTypeOK
<1> SUFFICES ASSUME Init PROVE SetupTypeOK
  OBVIOUS
<1>1. 0 \in 0 .. MaxRuns /\ 0 \in 0 .. MaxFaults
  BY SetupAssumption
<1>2. /\ store \in [Profiles -> Settings \cup {None}]
      /\ config \in [Profiles -> AppConfigs \cup {None}]
      /\ pub \in [Profiles -> Keys \cup {None}]
      /\ staged \in [Profiles -> Keys \cup {None}]
      /\ keyFile \in [Interfaces -> Keys \cup {None}]
      /\ conf \in [Interfaces -> Profiles \cup {None}]
      /\ peers \in [Profiles -> SUBSET [net : Nets, key : Keys]]
  BY DEF Init
<1> QED BY <1>1, <1>2 DEF Init, SetupTypeOK

LEMMA StoredType ==
  ASSUME SetupTypeOK, NEW p \in Profiles, NEW i \in Interfaces
  PROVE  Stored(p, i) \in Settings
BY SetupAssumption DEF SetupTypeOK, Stored, Settings

LEMMA FreshIsAKey ==
  ASSUME FreshKeys # {}
  PROVE  Min(FreshKeys) \in Keys
<1>1. FreshKeys \subseteq Keys /\ FreshKeys \in SUBSET Nat
  BY SetupAssumption DEF FreshKeys
<1> QED BY <1>1, MinIsIn

LEMMA InstallTypes ==
  ASSUME SetupTypeOK, at \in InstallSteps
  PROVE  /\ run \in Installs
         /\ run.profile \in Profiles /\ run.window \in BOOLEAN /\ run.s \in Settings /\ run.key \in Keys \cup {None}
         /\ run.s.iface \in Interfaces /\ run.s.net \in Nets /\ run.s.deployed \in BOOLEAN /\ run.s.supervise \in BOOLEAN
BY DEF SetupTypeOK, InstallSteps, UninstallSteps, Installs, Settings

LEMMA UninstallTypes ==
  ASSUME SetupTypeOK, at \in UninstallSteps
  PROVE  /\ run \in Uninstalls
         /\ run.profile \in Profiles /\ run.remaining \in SUBSET Settings /\ run.iface \in Interfaces
         /\ run.tunnel \in AppConfigs /\ run.tunnel.iface \in Interfaces /\ run.tunnel.net \in Nets
         /\ run.known \in BOOLEAN /\ run.privileged \in BOOLEAN
BY DEF SetupTypeOK, InstallSteps, UninstallSteps, Uninstalls, AppConfigs

LEMMA ProfileOfRun ==
  ASSUME SetupTypeOK, at # "idle"
  PROVE  run.profile \in Profiles
BY InstallTypes, UninstallTypes DEF SetupTypeOK

\* What an install knows once it has looked for a key.
LEMMA KeyStep ==
  ASSUME SetupTypeOK, EnsureClientKey
  PROVE  /\ at = "key" /\ at' = "register"
         /\ run \in Installs /\ run.profile \in Profiles /\ run.s.iface \in Interfaces
         /\ run' \in Installs /\ run'.profile = run.profile /\ run'.key \in Keys
         /\ run'.s.iface = run.s.iface /\ run'.s.deployed = run.s.deployed
         /\ pub' = [pub EXCEPT ![run.profile] = run'.key]
         /\ pub[run.profile] # None => run'.key = pub[run.profile]
         /\ staged' \in [Profiles -> Keys \cup {None}]
         /\ odd \subseteq odd' /\ odd' \subseteq odd \cup {run.s.iface}
         /\ keyFile[run.s.iface] \notin {None, run'.key} => run.s.iface \in odd'
         /\ UNCHANGED <<store, config, root, peers, up, begun, faults, refused, leaving, cut, unsure, warned>>
<1> DEFINE p == run.profile
           i == run.s.iface
<1>1. run \in Installs /\ p \in Profiles /\ run.s \in Settings /\ i \in Interfaces
  BY InstallTypes DEF EnsureClientKey, InstallSteps
<1>2. at = "key" /\ at' = "register"
      /\ UNCHANGED <<store, config, root, peers, up, begun, faults, refused, leaving, cut, unsure, warned>>
  BY DEF EnsureClientKey, Goes, Proceeds
<1>3. PICK readable \in BOOLEAN :
        /\ IF pub[p] # None THEN UsesKey(p, pub[p])
           ELSE IF keyFile[i] # None /\ readable THEN UsesKey(p, keyFile[i])
           ELSE Generates(p)
        /\ odd' = IF Overlooks(p, keyFile[i], readable) THEN odd \cup {i} ELSE odd
  BY DEF EnsureClientKey
<1>4. pub[p] \in Keys \cup {None} /\ keyFile[i] \in Keys \cup {None}
  BY <1>1 DEF SetupTypeOK
<1>5. PICK key \in Keys :
        /\ \/ UsesKey(p, key) /\ (pub[p] = None => key = keyFile[i])
           \/ Generates(p) /\ key = Min(FreshKeys) /\ pub[p] = None /\ (keyFile[i] = None \/ ~readable)
        /\ pub[p] # None => key = pub[p]
  <2>1. CASE pub[p] # None
    BY <1>3, <1>4, <2>1
  <2>2. CASE pub[p] = None /\ keyFile[i] # None /\ readable
    BY <1>3, <1>4, <2>2
  <2>3. CASE pub[p] = None /\ ~(keyFile[i] # None /\ readable)
    <3>1. Generates(p)
      BY <1>3, <2>3
    <3>2. Min(FreshKeys) \in Keys
      BY <3>1, FreshIsAKey DEF Generates
    <3> QED BY <2>3, <3>1, <3>2
  <2> QED BY <2>1, <2>2, <2>3
<1>6. /\ run' \in Installs /\ run'.profile = p /\ run'.key = key
      /\ run'.s.iface = i /\ run'.s.deployed = run.s.deployed
  <2>1. CASE UsesKey(p, key)
    BY <1>1, <2>1 DEF UsesKey, Installs
  <2>2. CASE Generates(p) /\ key = Min(FreshKeys)
    <3> DEFINE s == [run.s EXCEPT !.path = TRUE]
    <3>1. s \in Settings /\ s.iface = i /\ s.deployed = run.s.deployed
      BY <1>1 DEF Settings
    <3>2. run' = [run EXCEPT !.key = key, !.s = s]
      BY <1>1, <2>2 DEF Generates, Installs
    <3> HIDE DEF s
    <3> QED BY <1>1, <3>1, <3>2 DEF Installs
  <2> QED BY <1>5, <2>1, <2>2
<1>7. pub' = [pub EXCEPT ![p] = key]
  BY <1>5 DEF UsesKey, Generates
<1>8. staged' \in [Profiles -> Keys \cup {None}]
  BY <1>1, <1>5 DEF UsesKey, Generates, SetupTypeOK
<1>9. /\ odd \subseteq odd' /\ odd' \subseteq odd \cup {i}
      /\ keyFile[i] \notin {None, key} => i \in odd'
  BY <1>3, <1>5 DEF Overlooks
<1> QED BY <1>1, <1>2, <1>5, <1>6, <1>7, <1>8, <1>9

\* An install has a key once it has looked for one.
HasKey == at \in InstallSteps \ {"key"} => run.key \in Keys

LEMMA FaultTypes ==
  ASSUME SetupTypeOK, Fault \/ UNCHANGED faults
  PROVE  faults' \in 0 .. MaxFaults
BY SetupAssumption DEF SetupTypeOK, Fault

LEMMA RemovalTypes ==
  ASSUME SetupTypeOK, RemovesSupervisor
  PROVE  daemon' \in BOOLEAN /\ warned' \subseteq {"rule", "daemon"} /\ faults' \in 0 .. MaxFaults
BY FaultTypes DEF SetupTypeOK, RemovesSupervisor

LEMMA StepTypes ==
  ASSUME SetupTypeOK, HasKey, Next
  PROVE  SetupTypeOK'
<1> USE SetupAssumption DEF Goes, Proceeds, Ends, WritesRule, files, root, history
<1>1. ASSUME NEW p \in Profiles, NEW net \in Nets \cup {None}, NEW window \in BOOLEAN, NEW supervise \in BOOLEAN,
             BeginInstall(p, window, net, supervise)
      PROVE  SetupTypeOK'
  <2> DEFINE was == Stored(p, 0)
             moves == ~was.deployed /\ was.iface \in TakenInterfaces(p)
             s == [was EXCEPT !.iface = IF moves THEN NextFreeInterface(TakenInterfaces(p)) ELSE @,
                              !.net = IF net = None THEN @ ELSE net, !.supervise = supervise]
  <2>1. was \in Settings
    BY StoredType
  <2>2. NextFreeInterface(TakenInterfaces(p)) \in Interfaces
    BY OneIsFree
  <2> HIDE DEF was
  <2>3. s \in Settings
    BY <2>1, <2>2 DEF Settings
  <2>4. run' = [profile |-> p, window |-> window, s |-> s, key |-> None] /\ at' = "key" /\ begun' \in 0 .. MaxRuns
    BY <1>1 DEF BeginInstall, Starts, SetupTypeOK, was
  <2> HIDE DEF s
  <2>5. run' \in Installs /\ at' \in InstallSteps
    BY <2>3, <2>4 DEF Installs, InstallSteps
  <2> QED BY <1>1, <2>4, <2>5 DEF BeginInstall, Starts, SetupTypeOK
<1>2. ASSUME EnsureClientKey PROVE SetupTypeOK'
  <2>1. at' \in InstallSteps /\ pub' \in [Profiles -> Keys \cup {None}] /\ odd' \subseteq Interfaces
    BY <1>2, KeyStep DEF InstallSteps, SetupTypeOK
  <2>2. /\ run' \in Installs /\ staged' \in [Profiles -> Keys \cup {None}]
        /\ UNCHANGED <<store, config, root, peers, up, begun, faults, refused, leaving, cut, unsure, warned>>
    BY <1>2, KeyStep
  <2> QED BY <2>1, <2>2 DEF SetupTypeOK
<1>3. ASSUME Register PROVE SetupTypeOK'
  <2>1. at \in InstallSteps /\ at' \in InstallSteps
    BY <1>3 DEF Register, InstallSteps
  <2>2. run \in Installs /\ run.profile \in Profiles /\ run.s \in Settings
    BY <2>1, InstallTypes
  <2> DEFINE s == [run.s EXCEPT !.deployed = TRUE]
  <2>3. s \in Settings
    BY <2>2 DEF Settings
  <2>4. run' = [run EXCEPT !.s = s]
    BY <1>3 DEF Register
  <2> HIDE DEF s
  <2>5. run' \in Installs
    BY <2>2, <2>3, <2>4 DEF Installs
  <2>6. run.key \in Keys
    BY <1>3 DEF HasKey, Register, InstallSteps
  <2>7. peers' \in [Profiles -> SUBSET [net : Nets, key : Keys]]
    BY <1>3, <2>2, <2>6 DEF Register, SetupTypeOK, Settings
  <2> QED BY <1>3, <2>1, <2>2, <2>5, <2>7 DEF Register, SetupTypeOK
<1>4. ASSUME SaveProfileSettings \/ WriteSudoers \/ SetSupervisor \/ WriteAppConfig \/ Verify
      PROVE  SetupTypeOK'
  <2>1. at \in InstallSteps /\ (at' \in InstallSteps \/ at' = "idle")
    BY <1>4 DEF SaveProfileSettings, WriteSudoers, SetSupervisor, SetsSupervisor, WriteAppConfig, Verify, InstallSteps
  <2>2. run \in Installs /\ run.profile \in Profiles /\ run.s \in Settings /\ run.s.iface \in Interfaces
    BY <2>1, InstallTypes
  <2>3. CASE SaveProfileSettings
    BY <2>1, <2>2, <2>3 DEF SaveProfileSettings, SetupTypeOK, InstallSteps
  <2>4. CASE WriteSudoers
    <3>1. Granted(Everyone(run.profile, run.s)) \subseteq Interfaces
      BY <2>2, SettingsType DEF Granted, Everyone, Others, Settings
    <3> QED BY <2>1, <2>2, <2>4, <3>1 DEF WriteSudoers, SetupTypeOK, InstallSteps
  <2>5. CASE SetSupervisor
    <3>1. daemon' \in BOOLEAN /\ warned' \subseteq {"rule", "daemon"} /\ faults' \in 0 .. MaxFaults
      BY <2>5, RemovalTypes, FaultTypes DEF SetSupervisor, SetsSupervisor, SetupTypeOK
    <3> QED BY <2>1, <2>2, <2>5, <3>1 DEF SetSupervisor, SetsSupervisor, SetupTypeOK, InstallSteps
  <2>6. CASE WriteAppConfig
    <3>1. [iface |-> run.s.iface, net |-> run.s.net, supervise |-> run.s.supervise] \in AppConfigs
      BY <2>2 DEF AppConfigs, Settings
    <3> QED BY <2>1, <2>2, <2>6, <3>1 DEF WriteAppConfig, SetupTypeOK, InstallSteps
  <2>7. CASE Verify
    BY <2>1, <2>2, <2>7 DEF Verify, SetupTypeOK
  <2> QED BY <1>4, <2>3, <2>4, <2>5, <2>6, <2>7
<1>5. ASSUME CheckKey \/ WritePrivateKey PROVE SetupTypeOK'
  <2>1. at \in InstallSteps /\ (at' \in InstallSteps \/ at' = "idle")
    BY <1>5 DEF CheckKey, WritePrivateKey, InstallSteps
  <2>2. run \in Installs /\ run.profile \in Profiles /\ run.s.iface \in Interfaces
    BY <2>1, InstallTypes
  <2>3. CASE CheckKey
    <3>1. (at' = "idle" /\ run' = None) \/ (at' \in InstallSteps /\ run' \in Installs)
      BY <2>2, <2>3 DEF CheckKey, InstallSteps
    <3>2. /\ staged' \in [Profiles -> Keys \cup {None}] /\ conf' \in [Interfaces -> Profiles \cup {None}]
          /\ refused' \subseteq Profiles /\ cut' \subseteq Profiles /\ unsure' \in BOOLEAN
      BY <2>2, <2>3 DEF CheckKey, SetupTypeOK
    <3> QED BY <2>3, <3>1, <3>2 DEF CheckKey, SetupTypeOK
  <2>4. CASE WritePrivateKey
    <3>1. at' \in InstallSteps /\ run' \in Installs
      BY <2>2, <2>4 DEF WritePrivateKey, InstallSteps
    <3>2. /\ staged' \in [Profiles -> Keys \cup {None}] /\ keyFile' \in [Interfaces -> Keys \cup {None}]
          /\ odd' \subseteq Interfaces
      <4> DEFINE p == run.profile
                 i == run.s.iface
      <4>1. staged[p] \in Keys \cup {None} /\ i \in Interfaces /\ p \in Profiles
        BY <2>2 DEF SetupTypeOK
      <4>2. CASE FoundStaged # None
        <5>1. /\ keyFile' = [keyFile EXCEPT ![i] = staged[p]] /\ staged' = [staged EXCEPT ![p] = None]
              /\ odd' \in {odd \ {i}, odd \cup {i}}
          BY <2>4, <4>2 DEF WritePrivateKey
        <5> QED BY <4>1, <4>2, <5>1 DEF SetupTypeOK
      <4>3. CASE FoundStaged = None
        BY <2>4, <4>3 DEF WritePrivateKey, SetupTypeOK
      <4> QED BY <4>2, <4>3
    <3> QED BY <2>4, <3>1, <3>2 DEF WritePrivateKey, SetupTypeOK
  <2> QED BY <1>5, <2>3, <2>4
<1>6. ASSUME NEW p \in Profiles, NEW net \in Nets \cup {None}, NEW supervise \in BOOLEAN,
             ProfileSave(p, net, supervise)
      PROVE  SetupTypeOK'
  <2> DEFINE was == Stored(p, NextFreeInterface(TakenInterfaces(p)))
             s == [was EXCEPT !.net = IF net = None THEN @ ELSE net, !.supervise = supervise]
  <2>1. was \in Settings
    BY StoredType, OneIsFree
  <2>2. SettingsOf(p).supervise \in BOOLEAN \/ p \notin ListProfiles
    BY SettingsType DEF Settings
  <2>3. store' = [store EXCEPT ![p] = s] /\ begun' \in 0 .. MaxRuns /\ unsure' \in BOOLEAN
    BY <1>6, <2>2 DEF ProfileSave, SetupTypeOK
  <2> HIDE DEF was
  <2>4. s \in Settings
    BY <2>1 DEF Settings
  <2> HIDE DEF s
  <2>5. store' \in [Profiles -> Settings \cup {None}]
    BY <2>3, <2>4 DEF SetupTypeOK
  <2> QED BY <1>6, <2>3, <2>5 DEF ProfileSave, SetupTypeOK
<1>7. ASSUME NEW p \in Profiles, NEW privileged \in BOOLEAN, NEW deletes \in SUBSET {"keys", "stack"},
             BeginUninstall(p, privileged, deletes)
      PROVE  SetupTypeOK'
  <2>1. Installed(p) \in AppConfigs
    BY DEF Installed, SetupTypeOK, AppConfigs
  <2>2. {SettingsOf(q) : q \in Others(p)} \in SUBSET Settings
    BY SettingsType DEF Others
  <2>3. SettingsOf(p).iface \in Interfaces
    BY <1>7, SettingsType DEF BeginUninstall, Settings
  <2>4. run' \in Uninstalls /\ at' \in UninstallSteps
    BY <1>7, <2>1, <2>2, <2>3 DEF BeginUninstall, Uninstalls, UninstallSteps
  <2>5. /\ begun' \in 0 .. MaxRuns /\ leaving' \subseteq Profiles /\ unsure' = TRUE
        /\ daemon' \in BOOLEAN /\ faults' \in 0 .. MaxFaults /\ warned' \subseteq {"rule", "daemon"}
    BY <1>7, RemovalTypes DEF BeginUninstall, SetupTypeOK
  <2> QED BY <1>7, <2>4, <2>5 DEF BeginUninstall, SetupTypeOK
<1>8. ASSUME TakeDown \/ Withdraw \/ RewriteSudoers \/ RemoveProfile \/ DeleteKeys \/ RestartSupervisor \/ DeleteStack
      PROVE  SetupTypeOK'
  <2>1. at \in UninstallSteps /\ (at' \in UninstallSteps \/ at' = "idle")
    BY <1>8 DEF TakeDown, Withdraw, RewriteSudoers, RemoveProfile, DeleteKeys, RestartSupervisor, DeleteStack, UninstallSteps
  <2>2. /\ run \in Uninstalls /\ run.profile \in Profiles /\ run.remaining \in SUBSET Settings /\ run.iface \in Interfaces
        /\ run.privileged \in BOOLEAN
    BY <2>1, UninstallTypes
  <2>0. faults' \in 0 .. MaxFaults
    BY <1>8, FaultTypes DEF TakeDown, Withdraw, RewriteSudoers, RemoveProfile, DeleteKeys, RestartSupervisor, DeleteStack
  <2>3. CASE TakeDown
    BY <2>0, <2>1, <2>2, <2>3 DEF TakeDown, SetupTypeOK, UninstallSteps
  <2>4. CASE Withdraw
    BY <2>0, <2>1, <2>2, <2>4 DEF Withdraw, SetupTypeOK, UninstallSteps
  <2>5. CASE RewriteSudoers
    <3>1. Granted(run.remaining) \subseteq Interfaces
      BY <2>2 DEF Granted, Settings
    <3> QED BY <2>0, <2>1, <2>2, <2>5, <3>1 DEF RewriteSudoers, SetupTypeOK, UninstallSteps
  <2>6. CASE RemoveProfile
    BY <2>1, <2>2, <2>6 DEF RemoveProfile, SetupTypeOK, UninstallSteps
  <2>7. CASE DeleteKeys
    BY <2>1, <2>2, <2>7 DEF DeleteKeys, SetupTypeOK, UninstallSteps
  <2>8. CASE RestartSupervisor
    BY <2>0, <2>1, <2>2, <2>8 DEF RestartSupervisor, SetupTypeOK, UninstallSteps
  <2>9. CASE DeleteStack
    BY <2>0, <2>1, <2>2, <2>9 DEF DeleteStack, SetupTypeOK
  <2> QED BY <1>8, <2>3, <2>4, <2>5, <2>6, <2>7, <2>8, <2>9
<1>9. ASSUME NEW p \in Profiles, DeletePublicKey(p) PROVE SetupTypeOK'
  BY <1>9 DEF DeletePublicKey, SetupTypeOK
<1>10. ASSUME Kill \/ Reboot PROVE SetupTypeOK'
  <2>1. ASSUME at # "idle", Interrupted
        PROVE  /\ store' \in [Profiles -> Settings \cup {None}] /\ config' \in [Profiles -> AppConfigs \cup {None}]
               /\ pub' \in [Profiles -> Keys \cup {None}] /\ cut' \subseteq Profiles /\ unsure' = TRUE
               /\ at' = "idle" /\ run' = None
    BY <2>1, ProfileOfRun DEF Interrupted, SetupTypeOK
  <2>2. CASE Kill
    BY <2>1, <2>2, FaultTypes DEF Kill, SetupTypeOK
  <2>3. CASE Reboot
    <3>1. staged' = [p \in Profiles |-> None] /\ up' = {} /\ faults' \in 0 .. MaxFaults
      BY <2>3, FaultTypes DEF Reboot, SetupTypeOK
    <3>2. CASE at = "idle"
      BY <2>3, <3>1, <3>2 DEF Reboot, SetupTypeOK
    <3>3. CASE at # "idle"
      BY <2>1, <2>3, <3>1, <3>3 DEF Reboot, SetupTypeOK
    <3> QED BY <3>2, <3>3
  <2> QED BY <1>10, <2>2, <2>3
<1> QED BY <1>1, <1>2, <1>3, <1>4, <1>5, <1>6, <1>7, <1>8, <1>9, <1>10 DEF Next

LEMMA StepHasKey ==
  ASSUME SetupTypeOK, HasKey, Next
  PROVE  HasKey'
<1> USE DEF HasKey, Goes, Proceeds, Ends, Fault, WritesRule, RemovesSupervisor, InstallSteps
<1>1. ASSUME NEW p \in Profiles, NEW net \in Nets \cup {None}, NEW window \in BOOLEAN, NEW supervise \in BOOLEAN,
             BeginInstall(p, window, net, supervise)
      PROVE  HasKey'
  BY <1>1 DEF BeginInstall, Starts
<1>2. ASSUME EnsureClientKey PROVE HasKey'
  BY <1>2, KeyStep
<1>3. ASSUME Register PROVE HasKey'
  <2>1. run \in Installs
    BY <1>3, InstallTypes DEF Register
  <2> QED BY <1>3, <2>1 DEF Register, Installs
<1>4. ASSUME SaveProfileSettings \/ CheckKey \/ WriteSudoers \/ WritePrivateKey \/ SetSupervisor \/ WriteAppConfig \/ Verify
      PROVE  HasKey'
  BY <1>4 DEF SaveProfileSettings, CheckKey, WriteSudoers, WritePrivateKey, SetSupervisor, SetsSupervisor, WriteAppConfig, Verify
<1>5. ASSUME at \in UninstallSteps \cup {"idle"}, at' \in UninstallSteps \cup {"idle"} PROVE HasKey'
  BY <1>5 DEF UninstallSteps
<1>6. ASSUME NEW p \in Profiles, NEW net \in Nets \cup {None}, NEW supervise \in BOOLEAN,
             ProfileSave(p, net, supervise)
      PROVE  HasKey'
  BY <1>6 DEF ProfileSave
<1>7. ASSUME NEW p \in Profiles, NEW privileged \in BOOLEAN, NEW deletes \in SUBSET {"keys", "stack"},
             BeginUninstall(p, privileged, deletes)
      PROVE  HasKey'
  BY <1>7 DEF BeginUninstall
<1>8. ASSUME TakeDown \/ Withdraw \/ RewriteSudoers \/ RemoveProfile \/ DeleteKeys \/ RestartSupervisor \/ DeleteStack
      PROVE  HasKey'
  BY <1>8 DEF TakeDown, Withdraw, RewriteSudoers, RemoveProfile, DeleteKeys, RestartSupervisor, DeleteStack
<1>9. ASSUME (\E p \in Profiles : DeletePublicKey(p)) \/ Kill \/ Reboot PROVE HasKey'
  BY <1>9 DEF DeletePublicKey, Kill, Reboot, Interrupted
<1> QED BY <1>1, <1>2, <1>3, <1>4, <1>6, <1>7, <1>8, <1>9 DEF Next

LEMMA StutterKeepsTypes ==
  ASSUME SetupTypeOK, HasKey, UNCHANGED setupVars
  PROVE  SetupTypeOK' /\ HasKey'
BY DEF SetupTypeOK, HasKey, setupVars, files, root, history

LEMMA TypeInvariance == Spec => [](SetupTypeOK /\ HasKey)
<1>1. Init => SetupTypeOK /\ HasKey
  BY InitTypes DEF Init, HasKey, InstallSteps
<1>2. SetupTypeOK /\ HasKey /\ [Next]_setupVars => (SetupTypeOK /\ HasKey)'
  BY StepTypes, StepHasKey, StutterKeepsTypes
<1> QED BY <1>1, <1>2, PTL DEF Spec

\* Every variable has its type in every reachable state.
THEOREM SetupTypeCorrect == Spec => []SetupTypeOK
BY TypeInvariance, PTL

-----------------------------------------------------------------------------
\* The files.  Most steps leave settings and configurations alone.

LEMMA SameFiles ==
  ASSUME UNCHANGED <<store, config>>
  PROVE  /\ ListProfiles' = ListProfiles
         /\ NamedInterfaces' = NamedInterfaces
         /\ \A p \in Profiles : SettingsOf(p)' = SettingsOf(p) /\ Others(p)' = Others(p)
         /\ \A p \in Profiles : TakenInterfaces(p)' = TakenInterfaces(p)
BY DEF ListProfiles, SettingsOf, Others, TakenInterfaces, NamedInterfaces

\* The others' are as they were where only p's change.
LEMMA OthersUntouched ==
  ASSUME NEW p \in Profiles, \A q \in Profiles \ {p} : store'[q] = store[q] /\ config'[q] = config[q]
  PROVE  /\ Others(p)' = Others(p)
         /\ \A q \in Others(p) : SettingsOf(q)' = SettingsOf(q)
         /\ TakenInterfaces(p)' = TakenInterfaces(p)
         /\ {SettingsOf(q) : q \in Others(p)}' = {SettingsOf(q) : q \in Others(p)}
<1>1. Others(p)' = Others(p)
  BY DEF Others, ListProfiles
<1>2. \A q \in Others(p) : SettingsOf(q)' = SettingsOf(q)
  BY DEF Others, ListProfiles, SettingsOf
<1>3. TakenInterfaces(p)' = TakenInterfaces(p)
  BY <1>1, <1>2 DEF TakenInterfaces
<1>4. {SettingsOf(q) : q \in Others(p)}' = {SettingsOf(q) : q \in Others(p)}
  BY <1>1, <1>2
<1> QED BY <1>1, <1>2, <1>3, <1>4

\* A command is cut off.
CutShort ==
  /\ at # "idle" /\ Interrupted
  /\ Fault
  /\ UNCHANGED <<root, peers, begun, refused, leaving, odd, warned>>

LEMMA FileSteps ==
  ASSUME Next
  PROVE  \/ UNCHANGED <<store, config>> /\ leaving \subseteq leaving'
         \/ SaveProfileSettings \/ WriteAppConfig \/ RemoveProfile \/ CutShort
         \/ \E p \in Profiles, net \in Nets \cup {None}, supervise \in BOOLEAN : ProfileSave(p, net, supervise)
<1> USE DEF files, root, history, Goes, Proceeds, Ends, Fault, WritesRule, RemovesSupervisor
<1>1. ASSUME NEW p \in Profiles, NEW net \in Nets \cup {None}, NEW window \in BOOLEAN, NEW supervise \in BOOLEAN,
             BeginInstall(p, window, net, supervise)
      PROVE  UNCHANGED <<store, config, leaving>>
  BY <1>1 DEF BeginInstall
<1>2. ASSUME EnsureClientKey PROVE UNCHANGED <<store, config, leaving>>
  BY <1>2 DEF EnsureClientKey, UsesKey, Generates
<1>3. ASSUME Register \/ CheckKey \/ WriteSudoers \/ WritePrivateKey \/ SetSupervisor \/ Verify
      PROVE  UNCHANGED <<store, config, leaving>>
  BY <1>3 DEF Register, CheckKey, WriteSudoers, WritePrivateKey, SetSupervisor, SetsSupervisor, Verify
<1>4. ASSUME NEW p \in Profiles, NEW privileged \in BOOLEAN, NEW deletes \in SUBSET {"keys", "stack"},
             BeginUninstall(p, privileged, deletes)
      PROVE  UNCHANGED <<store, config>> /\ leaving \subseteq leaving'
  BY <1>4 DEF BeginUninstall
<1>5. ASSUME TakeDown \/ Withdraw \/ RewriteSudoers \/ DeleteKeys \/ RestartSupervisor \/ DeleteStack
      PROVE  UNCHANGED <<store, config, leaving>>
  BY <1>5 DEF TakeDown, Withdraw, RewriteSudoers, DeleteKeys, RestartSupervisor, DeleteStack
<1>6. ASSUME NEW p \in Profiles, DeletePublicKey(p) PROVE UNCHANGED <<store, config, leaving>>
  BY <1>6 DEF DeletePublicKey
<1>7. ASSUME Kill \/ Reboot PROVE UNCHANGED <<store, config, leaving>> \/ CutShort
  BY <1>7 DEF Kill, Reboot, CutShort
<1> QED BY <1>1, <1>2, <1>3, <1>4, <1>5, <1>6, <1>7 DEF Next

\* What a save makes of p's settings.
SavedAs(p, s, supervise) ==
  /\ store' = [store EXCEPT ![p] = s] /\ config' = config
  /\ s.supervise = supervise
  /\ store[p] # None => s.iface = store[p].iface /\ s.deployed = store[p].deployed
  /\ store[p] = None => s.iface \notin TakenInterfaces(p)

LEMMA SaveFacts ==
  ASSUME SetupTypeOK, NEW p \in Profiles, NEW net \in Nets \cup {None}, NEW supervise \in BOOLEAN,
         ProfileSave(p, net, supervise)
  PROVE  \E s \in Settings : SavedAs(p, s, supervise)
<1> DEFINE free == NextFreeInterface(TakenInterfaces(p))
           was == Stored(p, free)
           s == [was EXCEPT !.net = IF net = None THEN @ ELSE net, !.supervise = supervise]
<1>1. free \in Interfaces /\ free \notin TakenInterfaces(p)
  BY OneIsFree
<1>2. was \in Settings
  BY <1>1, StoredType
<1>3. store[p] # None => was = store[p]
  BY DEF Stored
<1>4. store[p] = None => was.iface = free
  BY DEF Stored
<1>5. store' = [store EXCEPT ![p] = s] /\ config' = config
  BY DEF ProfileSave
<1> HIDE DEF free, was
<1>6. s \in Settings /\ s.iface = was.iface /\ s.deployed = was.deployed /\ s.supervise = supervise
  BY <1>2 DEF Settings
<1> HIDE DEF s
<1>7. SavedAs(p, s, supervise)
  BY <1>1, <1>3, <1>4, <1>5, <1>6 DEF SavedAs
<1> QED BY <1>6, <1>7

\* What an install starts from.
InstallsAs(p, s) ==
  /\ s.iface \notin TakenInterfaces(p)
  /\ store[p] # None =>
       /\ store[p].iface \in TakenInterfaces(p) \cup {s.iface}
       /\ store[p].deployed => s.deployed /\ s.iface = store[p].iface

LEMMA InstallFacts ==
  ASSUME SetupTypeOK, NEW p \in Profiles, NEW net \in Nets \cup {None}, NEW window \in BOOLEAN, NEW supervise \in BOOLEAN,
         BeginInstall(p, window, net, supervise)
  PROVE  \E s \in Settings : run' = [profile |-> p, window |-> window, s |-> s, key |-> None] /\ InstallsAs(p, s)
<1> DEFINE was == Stored(p, 0)
           moves == ~was.deployed /\ was.iface \in TakenInterfaces(p)
           s == [was EXCEPT !.iface = IF moves THEN NextFreeInterface(TakenInterfaces(p)) ELSE @,
                            !.net = IF net = None THEN @ ELSE net, !.supervise = supervise]
<1>1. was \in Settings
  BY StoredType, SetupAssumption
<1>2. NextFreeInterface(TakenInterfaces(p)) \in Interfaces
  BY OneIsFree
<1>3. run' = [profile |-> p, window |-> window, s |-> s, key |-> None] /\ ~ConflictsWithOtherProfiles(p, s)
  BY DEF BeginInstall, Starts
<1>4. store[p] # None => was = store[p]
  BY DEF Stored
<1> HIDE DEF was
<1>5. s \in Settings /\ s.deployed = was.deployed /\ (~moves => s.iface = was.iface)
  BY <1>1, <1>2 DEF Settings
<1> HIDE DEF s
<1>6. s.iface \notin TakenInterfaces(p)
  BY <1>3 DEF ConflictsWithOtherProfiles, TakenInterfaces
<1>7. InstallsAs(p, s)
  BY <1>4, <1>5, <1>6 DEF InstallsAs
<1> QED BY <1>3, <1>5, <1>7

LEMMA StepInstalledHasSettings ==
  ASSUME SetupTypeOK, InstalledHasSettings, InstallKnows, UninstallKnows, Next
  PROVE  InstalledHasSettings'
<1> SUFFICES ASSUME NEW q \in Profiles, config'[q] # None, q \notin leaving'
             PROVE  store'[q] # None /\ store'[q].iface = config'[q].iface /\ store'[q].deployed
  BY DEF InstalledHasSettings
<1>1. CASE UNCHANGED <<store, config>> /\ leaving \subseteq leaving'
  BY <1>1 DEF InstalledHasSettings
<1>2. CASE SaveProfileSettings
  <2>1. Installing /\ run.profile \in Profiles /\ run.s \in Settings
    BY <1>2, InstallTypes DEF SaveProfileSettings, Installing, InstallSteps
  <2>2. run.s # None
    BY <2>1, SetupAssumption DEF InstallKnows, Settings
  <2> QED BY <1>2, <2>1, <2>2 DEF SaveProfileSettings, InstalledHasSettings, InstallKnows, SetupTypeOK, history
<1>3. CASE WriteAppConfig
  <2>1. Installing /\ run.profile \in Profiles /\ run.s \in Settings /\ run.s.deployed
    BY <1>3, InstallTypes DEF WriteAppConfig, Installing, InstallSteps, InstallKnows
  <2>2. run.s # None
    BY <2>1, SetupAssumption
  <2>3. CASE q = run.profile
    BY <1>3, <2>1, <2>2, <2>3 DEF WriteAppConfig, SetupTypeOK
  <2>4. CASE q # run.profile
    BY <1>3, <2>1, <2>4 DEF WriteAppConfig, InstalledHasSettings, SetupTypeOK
  <2> QED BY <2>3, <2>4
<1>4. CASE RemoveProfile
  BY <1>4 DEF RemoveProfile, InstalledHasSettings, SetupTypeOK, history
<1>5. CASE CutShort
  BY <1>5, ProfileOfRun DEF CutShort, Interrupted, InstalledHasSettings, UninstallKnows, Uninstalling, UninstallSteps, SetupTypeOK
<1>6. ASSUME NEW p \in Profiles, NEW net \in Nets \cup {None}, NEW supervise \in BOOLEAN, ProfileSave(p, net, supervise)
      PROVE  store'[q] # None /\ store'[q].iface = config'[q].iface /\ store'[q].deployed
  <2>1. PICK s \in Settings : SavedAs(p, s, supervise)
    BY <1>6, SaveFacts
  <2>2. store[q] # None /\ store[q].iface = config[q].iface /\ store[q].deployed
    BY <1>6, <2>1 DEF InstalledHasSettings, ProfileSave, SavedAs
  <2>3. s # None
    BY SetupAssumption
  <2> QED BY <2>1, <2>2, <2>3 DEF SavedAs, SetupTypeOK
<1> QED BY <1>1, <1>2, <1>3, <1>4, <1>5, <1>6, FileSteps

\* A step of a command changes nothing of the other profiles' files.
OthersStay == \A q \in Profiles \ {run.profile} : store'[q] = store[q] /\ config'[q] = config[q]

LEMMA EveryoneStays ==
  ASSUME at # "idle", SetupTypeOK, run' = run, OthersStay
  PROVE  /\ TakenInterfaces(run.profile)' = TakenInterfaces(run.profile)
         /\ Everyone(run.profile, run.s)' = Everyone(run.profile, run.s)
         /\ {SettingsOf(q) : q \in Others(run.profile)}' = {SettingsOf(q) : q \in Others(run.profile)}
<1>1. run.profile \in Profiles
  BY ProfileOfRun
<1> DEFINE p == run.profile
<1>2. /\ Others(p)' = Others(p)
      /\ \A q \in Others(p) : SettingsOf(q)' = SettingsOf(q)
  BY <1>1 DEF OthersStay, Others, ListProfiles, SettingsOf
<1>3. TakenInterfaces(p)' = TakenInterfaces(p)
  BY <1>2 DEF TakenInterfaces
<1>4. {SettingsOf(q) : q \in Others(p)}' = {SettingsOf(q) : q \in Others(p)}
  BY <1>2
<1> QED BY <1>3, <1>4 DEF Everyone

LEMMA StepInstallKnows ==
  ASSUME SetupTypeOK, InstalledHasSettings, InstallKnows, Next
  PROVE  InstallKnows'
<1> USE DEF Installing, InstallSteps, Goes, Proceeds, Fault, WritesRule, RemovesSupervisor
<1>1. ASSUME NEW p \in Profiles, NEW net \in Nets \cup {None}, NEW window \in BOOLEAN, NEW supervise \in BOOLEAN,
             BeginInstall(p, window, net, supervise)
      PROVE  InstallKnows'
  <2>1. PICK s \in Settings : run' = [profile |-> p, window |-> window, s |-> s, key |-> None] /\ InstallsAs(p, s)
    BY <1>1, InstallFacts
  <2>2. UNCHANGED <<store, config, leaving>> /\ at' = "key"
    BY <1>1 DEF BeginInstall, Starts, files
  <2>3. TakenInterfaces(p)' = TakenInterfaces(p)
    BY <2>2, SameFiles
  <2>4. run'.profile = p /\ run'.s = s
    BY <2>1
  <2>5. config[p] # None /\ p \notin leaving => s.iface = config[p].iface /\ s.deployed
    BY <2>1 DEF InstallsAs, InstalledHasSettings
  <2> QED BY <2>1, <2>2, <2>3, <2>4, <2>5 DEF InstallKnows, InstallsAs
<1>2. ASSUME EnsureClientKey PROVE InstallKnows'
  <2>1. TakenInterfaces(run.profile)' = TakenInterfaces(run.profile)
    BY <1>2, KeyStep, SameFiles
  <2> QED BY <1>2, <2>1, KeyStep DEF InstallKnows
<1>3. ASSUME Register PROVE InstallKnows'
  <2>1. run \in Installs /\ run.profile \in Profiles /\ run.s \in Settings /\ at = "register"
    BY <1>3, InstallTypes DEF Register
  <2>2. UNCHANGED <<store, config, leaving>> /\ at' = "settings" /\ run'.profile = run.profile
    BY <1>3, <2>1 DEF Register, files, Installs
  <2>3. run'.s.iface = run.s.iface /\ run'.s.deployed
    BY <1>3, <2>1 DEF Register, Installs, Settings
  <2>4. TakenInterfaces(run.profile)' = TakenInterfaces(run.profile)
    BY <2>1, <2>2 DEF TakenInterfaces, Others, ListProfiles, SettingsOf
  <2> QED BY <2>1, <2>2, <2>3, <2>4 DEF InstallKnows
<1>4. ASSUME SaveProfileSettings PROVE InstallKnows'
  <2>1. run.profile \in Profiles /\ at = "settings" /\ at' = "conf" /\ run' = run /\ UNCHANGED <<config, leaving>>
    BY <1>4, InstallTypes DEF SaveProfileSettings, history
  <2>2. store' = [store EXCEPT ![run.profile] = run.s]
    BY <1>4 DEF SaveProfileSettings
  <2>3. TakenInterfaces(run.profile)' = TakenInterfaces(run.profile)
    BY <2>1, <2>2, EveryoneStays DEF OthersStay, SetupTypeOK
  <2> QED BY <2>1, <2>2, <2>3 DEF InstallKnows, SetupTypeOK
<1>5. ASSUME CheckKey \/ WriteSudoers \/ WritePrivateKey \/ SetSupervisor, at' # "idle" PROVE InstallKnows'
  <2>1. run.profile \in Profiles /\ run' = run /\ UNCHANGED <<store, config, leaving>>
    BY <1>5, InstallTypes DEF CheckKey, WriteSudoers, WritePrivateKey, SetSupervisor, SetsSupervisor, Ends, history, files
  <2>2. /\ TakenInterfaces(run.profile)' = TakenInterfaces(run.profile)
        /\ Everyone(run.profile, run.s)' = Everyone(run.profile, run.s)
    BY <1>5, <2>1, EveryoneStays DEF OthersStay, CheckKey, WriteSudoers, WritePrivateKey, SetSupervisor, SetsSupervisor
  <2>3. CASE CheckKey
    BY <1>5, <2>1, <2>2, <2>3 DEF CheckKey, InstallKnows, Ends
  <2>4. CASE WriteSudoers
    BY <2>1, <2>2, <2>4 DEF WriteSudoers, InstallKnows, Granted
  <2>5. CASE WritePrivateKey
    BY <2>1, <2>2, <2>5 DEF WritePrivateKey, InstallKnows, Granted
  <2>6. CASE SetSupervisor
    BY <2>1, <2>2, <2>6 DEF SetSupervisor, SetsSupervisor, InstallKnows, Granted, AnySupervised
  <2> QED BY <1>5, <2>3, <2>4, <2>5, <2>6
<1>6. ASSUME WriteAppConfig PROVE InstallKnows'
  <2>1. run.profile \in Profiles /\ at = "finish" /\ at' = "verify" /\ run' = run /\ UNCHANGED <<granted, daemon, warned>>
    BY <1>6, InstallTypes DEF WriteAppConfig, root
  <2>2. /\ store' = [store EXCEPT ![run.profile] = run.s]
        /\ config' = [config EXCEPT ![run.profile] = [iface |-> run.s.iface, net |-> run.s.net, supervise |-> run.s.supervise]]
    BY <1>6 DEF WriteAppConfig
  <2>3. /\ TakenInterfaces(run.profile)' = TakenInterfaces(run.profile)
        /\ Everyone(run.profile, run.s)' = Everyone(run.profile, run.s)
    BY <2>1, <2>2, EveryoneStays DEF OthersStay, SetupTypeOK
  <2>4. config'[run.profile].iface = run.s.iface /\ store'[run.profile] = run.s
    BY <2>1, <2>2 DEF SetupTypeOK
  <2>5. granted = Granted(Everyone(run.profile, run.s))
        /\ ("daemon" \notin warned => daemon = AnySupervised(Everyone(run.profile, run.s)))
        /\ run.s.deployed /\ run.s.iface \notin TakenInterfaces(run.profile)
    BY <2>1 DEF InstallKnows
  <2> QED BY <2>1, <2>3, <2>4, <2>5 DEF InstallKnows, Granted, AnySupervised
<1>7. ASSUME at' \notin InstallSteps PROVE InstallKnows'
  BY <1>7 DEF InstallKnows
<1>8. ASSUME \/ Verify \/ Kill \/ Reboot \/ TakeDown \/ Withdraw \/ RewriteSudoers \/ RemoveProfile \/ DeleteKeys
             \/ RestartSupervisor \/ DeleteStack \/ \E p \in Profiles : DeletePublicKey(p)
      PROVE  at' \notin InstallSteps
  BY <1>8 DEF Verify, Kill, Reboot, Interrupted, TakeDown, Withdraw, RewriteSudoers, RemoveProfile, DeleteKeys,
     RestartSupervisor, DeleteStack, DeletePublicKey, Ends
<1>9. ASSUME NEW p \in Profiles, NEW net \in Nets \cup {None}, NEW supervise \in BOOLEAN, ProfileSave(p, net, supervise)
      PROVE  at' \notin InstallSteps
  BY <1>9 DEF ProfileSave
<1>10. ASSUME NEW p \in Profiles, NEW privileged \in BOOLEAN, NEW deletes \in SUBSET {"keys", "stack"},
              BeginUninstall(p, privileged, deletes)
       PROVE  at' \notin InstallSteps
  BY <1>10 DEF BeginUninstall
<1> QED BY <1>1, <1>2, <1>3, <1>4, <1>5, <1>6, <1>7, <1>8, <1>9, <1>10 DEF Next

LEMMA StepUninstallKnows ==
  ASSUME SetupTypeOK, UninstallKnows, Next
  PROVE  UninstallKnows'
<1> USE DEF Uninstalling, UninstallSteps, Goes, Proceeds, Fault, WritesRule, RemovesSupervisor
<1>1. ASSUME NEW p \in Profiles, NEW privileged \in BOOLEAN, NEW deletes \in SUBSET {"keys", "stack"},
             BeginUninstall(p, privileged, deletes)
      PROVE  UninstallKnows'
  <2>1. /\ run'.profile = p /\ run'.remaining = {SettingsOf(q) : q \in Others(p)}
        /\ at' = "down" /\ leaving' = leaving \cup {p} /\ UNCHANGED <<store, config>>
        /\ "daemon" \notin warned' => daemon' = FALSE
    BY <1>1 DEF BeginUninstall, files
  <2>2. {SettingsOf(q) : q \in Others(p)}' = {SettingsOf(q) : q \in Others(p)}
    BY <2>1, OthersUntouched
  <2> QED BY <2>1, <2>2 DEF UninstallKnows
<1>2. ASSUME TakeDown \/ Withdraw \/ RewriteSudoers \/ DeleteKeys \/ RestartSupervisor PROVE UninstallKnows'
  <2>1. run.profile \in Profiles /\ run' = run /\ UNCHANGED <<store, config, leaving>>
    BY <1>2, UninstallTypes DEF TakeDown, Withdraw, RewriteSudoers, DeleteKeys, RestartSupervisor, history, files
  <2>2. {SettingsOf(q) : q \in Others(run.profile)}' = {SettingsOf(q) : q \in Others(run.profile)}
    BY <1>2, <2>1, EveryoneStays DEF OthersStay, TakeDown, Withdraw, RewriteSudoers, DeleteKeys, RestartSupervisor
  <2>3. CASE TakeDown
    BY <2>1, <2>2, <2>3 DEF TakeDown, UninstallKnows, root, history
  <2>4. CASE Withdraw
    BY <2>1, <2>2, <2>4 DEF Withdraw, UninstallKnows, root
  <2>5. CASE RewriteSudoers
    BY <2>1, <2>2, <2>5 DEF RewriteSudoers, UninstallKnows, Granted
  <2>6. CASE DeleteKeys
    BY <2>1, <2>2, <2>6 DEF DeleteKeys, UninstallKnows, Granted, history
  <2>7. CASE RestartSupervisor
    BY <2>1, <2>2, <2>7 DEF RestartSupervisor, UninstallKnows, Granted, AnySupervised
  <2> QED BY <1>2, <2>3, <2>4, <2>5, <2>6, <2>7
<1>3. ASSUME RemoveProfile PROVE UninstallKnows'
  <2>1. /\ run.profile \in Profiles /\ at = "remove" /\ at' = "keys" /\ run' = run
        /\ UNCHANGED <<granted, daemon, leaving, warned>>
    BY <1>3, UninstallTypes DEF RemoveProfile, history, root
  <2>2. store' = [store EXCEPT ![run.profile] = None] /\ config' = [config EXCEPT ![run.profile] = None]
    BY <1>3 DEF RemoveProfile
  <2>3. {SettingsOf(q) : q \in Others(run.profile)}' = {SettingsOf(q) : q \in Others(run.profile)}
    BY <2>1, <2>2, EveryoneStays DEF OthersStay, SetupTypeOK
  <2> QED BY <2>1, <2>2, <2>3 DEF UninstallKnows, Granted, SetupTypeOK
<1>4. ASSUME at' \notin UninstallSteps PROVE UninstallKnows'
  BY <1>4 DEF UninstallKnows
<1>5. ASSUME NEW p \in Profiles, NEW net \in Nets \cup {None}, NEW window \in BOOLEAN, NEW supervise \in BOOLEAN,
             BeginInstall(p, window, net, supervise)
      PROVE  at' \notin UninstallSteps
  BY <1>5 DEF BeginInstall, Starts
<1>6. ASSUME EnsureClientKey \/ Register \/ SaveProfileSettings \/ CheckKey \/ WriteSudoers \/ WritePrivateKey
      PROVE  at' \notin UninstallSteps
  BY <1>6 DEF EnsureClientKey, UsesKey, Generates, Register, SaveProfileSettings, CheckKey, WriteSudoers, WritePrivateKey, Ends
<1>7. ASSUME \/ SetSupervisor \/ WriteAppConfig \/ Verify \/ DeleteStack \/ Kill \/ Reboot
             \/ \E p \in Profiles : DeletePublicKey(p)
      PROVE  at' \notin UninstallSteps
  BY <1>7 DEF SetSupervisor, SetsSupervisor, WriteAppConfig, Verify, DeleteStack, Kill, Reboot, Interrupted, DeletePublicKey, Ends
<1>8. ASSUME NEW p \in Profiles, NEW net \in Nets \cup {None}, NEW supervise \in BOOLEAN, ProfileSave(p, net, supervise)
      PROVE  at' \notin UninstallSteps
  BY <1>8 DEF ProfileSave
<1> QED BY <1>1, <1>2, <1>3, <1>4, <1>5, <1>6, <1>7, <1>8 DEF Next

\* Grants change in two steps.
SameGrants == UNCHANGED granted /\ ("rule" \notin warned' => "rule" \notin warned)

LEMMA GrantSteps ==
  ASSUME Next
  PROVE  WriteSudoers \/ RewriteSudoers \/ SameGrants
<1> USE DEF SameGrants, root, history, Goes, Proceeds, Ends, Fault, RemovesSupervisor
<1>1. ASSUME NEW p \in Profiles, NEW net \in Nets \cup {None}, NEW window \in BOOLEAN, NEW supervise \in BOOLEAN,
             BeginInstall(p, window, net, supervise)
      PROVE  SameGrants
  BY <1>1 DEF BeginInstall, Starts
<1>2. ASSUME EnsureClientKey \/ Register \/ SaveProfileSettings \/ CheckKey \/ WritePrivateKey \/ SetSupervisor
             \/ WriteAppConfig \/ Verify
      PROVE  SameGrants
  BY <1>2 DEF EnsureClientKey, UsesKey, Generates, Register, SaveProfileSettings, CheckKey, WritePrivateKey, SetSupervisor, SetsSupervisor,
     WriteAppConfig, Verify
<1>3. ASSUME NEW p \in Profiles, NEW net \in Nets \cup {None}, NEW supervise \in BOOLEAN, ProfileSave(p, net, supervise)
      PROVE  SameGrants
  BY <1>3 DEF ProfileSave
<1>4. ASSUME NEW p \in Profiles, NEW privileged \in BOOLEAN, NEW deletes \in SUBSET {"keys", "stack"},
             BeginUninstall(p, privileged, deletes)
      PROVE  SameGrants
  BY <1>4 DEF BeginUninstall
<1>5. ASSUME TakeDown \/ Withdraw \/ RemoveProfile \/ DeleteKeys \/ RestartSupervisor \/ DeleteStack \/ Kill \/ Reboot
             \/ \E p \in Profiles : DeletePublicKey(p)
      PROVE  SameGrants
  BY <1>5 DEF TakeDown, Withdraw, RemoveProfile, DeleteKeys, RestartSupervisor, DeleteStack, Kill, Reboot, DeletePublicKey
<1> QED BY <1>1, <1>2, <1>3, <1>4, <1>5 DEF Next

LEMMA StepInstalledIsGranted ==
  ASSUME SetupTypeOK, InstalledHasSettings, InstallKnows, UninstallKnows, InstalledIsGranted, Next
  PROVE  InstalledIsGranted'
<1> SUFFICES ASSUME NEW q \in Profiles, config'[q] # None, q \notin leaving'
             PROVE  config'[q].iface \in granted'
  BY DEF InstalledIsGranted
<1>1. ASSUME q \in Others(run.profile), config[q] # None, q \notin leaving
      PROVE  SettingsOf(q).iface = config[q].iface
  BY <1>1 DEF InstalledHasSettings, SettingsOf
<1>2. CASE WriteSudoers
  <2>1. UNCHANGED <<config, leaving, store>> /\ Installing /\ granted' = Granted(Everyone(run.profile, run.s))
    BY <1>2 DEF WriteSudoers, WritesRule, files, Installing, InstallSteps
  <2>2. CASE q = run.profile
    BY <2>1, <2>2 DEF InstallKnows, Granted, Everyone
  <2>3. CASE q # run.profile
    <3>1. q \in Others(run.profile)
      BY <2>1, <2>3 DEF Others, ListProfiles
    <3> QED BY <1>1, <2>1, <3>1 DEF Granted, Everyone
  <2> QED BY <2>2, <2>3
<1>3. CASE RewriteSudoers
  <2>0. CASE UNCHANGED granted
    BY <1>3, <2>0 DEF RewriteSudoers, files, InstalledIsGranted
  <2>1. SUFFICES ASSUME granted' = Granted(run.remaining)
        PROVE  config'[q].iface \in granted'
    BY <1>3, <2>0 DEF RewriteSudoers, WritesRule
  <2>3. UNCHANGED <<config, leaving, store>> /\ Uninstalling
    BY <1>3 DEF RewriteSudoers, files, Uninstalling, UninstallSteps
  <2>2. q # run.profile /\ run.remaining = {SettingsOf(r) : r \in Others(run.profile)}
    BY <2>3 DEF UninstallKnows
  <2>4. q \in Others(run.profile)
    BY <2>2, <2>3 DEF Others, ListProfiles
  <2> QED BY <1>1, <2>1, <2>2, <2>3, <2>4 DEF Granted
<1>4. CASE UNCHANGED granted
  <2>1. CASE UNCHANGED <<store, config>> /\ leaving \subseteq leaving'
    BY <1>4, <2>1 DEF InstalledIsGranted
  <2>2. CASE SaveProfileSettings
    BY <1>4, <2>2 DEF SaveProfileSettings, InstalledIsGranted, history
  <2>3. CASE WriteAppConfig
    <3>1. Installing /\ run.profile \in Profiles /\ granted = Granted(Everyone(run.profile, run.s))
      BY <2>3, InstallTypes DEF WriteAppConfig, InstallKnows, Installing, InstallSteps
    <3>2. CASE q = run.profile
      <4>1. config'[q].iface = run.s.iface
        BY <2>3, <3>1, <3>2 DEF WriteAppConfig, SetupTypeOK
      <4> QED BY <1>4, <3>1, <4>1 DEF Granted, Everyone
    <3>3. CASE q # run.profile
      BY <1>4, <2>3, <3>1, <3>3 DEF WriteAppConfig, InstalledIsGranted, SetupTypeOK
    <3> QED BY <3>2, <3>3
  <2>4. CASE RemoveProfile
    BY <1>4, <2>4 DEF RemoveProfile, InstalledIsGranted, SetupTypeOK, history
  <2>5. CASE CutShort
    BY <1>4, <2>5, ProfileOfRun DEF CutShort, Interrupted, InstalledIsGranted, SetupTypeOK
  <2>6. ASSUME NEW p \in Profiles, NEW net \in Nets \cup {None}, NEW supervise \in BOOLEAN, ProfileSave(p, net, supervise)
        PROVE  config'[q].iface \in granted'
    BY <1>4, <2>6 DEF ProfileSave, InstalledIsGranted
  <2> QED BY <2>1, <2>2, <2>3, <2>4, <2>5, <2>6, FileSteps
<1> QED BY <1>2, <1>3, <1>4, GrantSteps DEF SameGrants

\* A profile's settings or its daemon's configuration name the interface.
NamedBy(q, g) == (store[q] # None /\ g = store[q].iface) \/ (config[q] # None /\ g = config[q].iface)

LEMMA NamedMeans ==
  ASSUME NEW g
  PROVE  /\ g \in NamedInterfaces <=> \E q \in Profiles : NamedBy(q, g)
         /\ \A p \in Profiles : g \in TakenInterfaces(p) => \E q \in Profiles \ {p} : NamedBy(q, g)
BY DEF NamedInterfaces, NamedBy, ListProfiles, SettingsOf, TakenInterfaces, Others

LEMMA NamedMeansAfter ==
  ASSUME NEW q \in Profiles, NEW g, NamedBy(q, g)'
  PROVE  g \in NamedInterfaces'
BY DEF NamedInterfaces, NamedBy, ListProfiles, SettingsOf

LEMMA StepGrantsAreNamed ==
  ASSUME SetupTypeOK, InstallKnows, UninstallKnows, GrantsAreNamed, Next
  PROVE  GrantsAreNamed'
<1> SUFFICES ASSUME "rule" \notin warned', NEW g \in granted' PROVE \E q \in Profiles : NamedBy(q, g)'
  BY NamedMeansAfter DEF GrantsAreNamed
<1>1. ASSUME NEW p \in Profiles, OthersStay, p = run.profile, g \in TakenInterfaces(p)
      PROVE  \E q \in Profiles : NamedBy(q, g)'
  BY <1>1, NamedMeans DEF NamedBy, OthersStay
<1>2. ASSUME Installing, run.profile \in Profiles, store'[run.profile] = run.s, run.s \in Settings, OthersStay,
             g \in Granted(Everyone(run.profile, run.s))
      PROVE  \E q \in Profiles : NamedBy(q, g)'
  <2>1. g = run.s.iface \/ g \in TakenInterfaces(run.profile)
    BY <1>2 DEF Granted, Everyone, TakenInterfaces
  <2>2. run.s # None
    BY <1>2, SetupAssumption
  <2> QED BY <1>1, <1>2, <2>1, <2>2 DEF NamedBy
<1>3. ASSUME Uninstalling, OthersStay, g \in Granted(run.remaining)
      PROVE  \E q \in Profiles : NamedBy(q, g)'
  <2>1. run.profile \in Profiles /\ g \in TakenInterfaces(run.profile)
    BY <1>3, UninstallTypes DEF UninstallKnows, Uninstalling, Granted, TakenInterfaces
  <2> QED BY <1>1, <1>3, <2>1
<1>4. CASE WriteSudoers
  <2>1. Installing /\ run.profile \in Profiles /\ store' = store /\ OthersStay /\ run.s \in Settings
    BY <1>4, InstallTypes DEF WriteSudoers, OthersStay, files, Installing, InstallSteps
  <2>2. store[run.profile] = run.s
    BY <1>4, <2>1 DEF WriteSudoers, InstallKnows
  <2> QED BY <1>2, <1>4, <2>1, <2>2 DEF WriteSudoers, WritesRule
<1>5. CASE RewriteSudoers
  BY <1>3, <1>5 DEF RewriteSudoers, WritesRule, OthersStay, files, Uninstalling, UninstallSteps
<1>6. CASE SameGrants
  <2>0. UNCHANGED granted /\ "rule" \notin warned
    BY <1>6 DEF SameGrants
  <2>1. PICK q \in Profiles : NamedBy(q, g)
    BY <2>0, NamedMeans DEF GrantsAreNamed
  <2>2. CASE UNCHANGED <<store, config>>
    BY <2>1, <2>2 DEF NamedBy
  <2>3. CASE SaveProfileSettings
    <3>1. Installing /\ run.profile \in Profiles /\ run.s \in Settings /\ at = "settings"
      BY <2>3, InstallTypes DEF SaveProfileSettings, Installing, InstallSteps
    <3>2. config' = config /\ store' = [store EXCEPT ![run.profile] = run.s] /\ OthersStay
      BY <2>3 DEF SaveProfileSettings, OthersStay, SetupTypeOK
    <3>3. CASE q # run.profile \/ (config[q] # None /\ g = config[q].iface)
      BY <2>1, <3>2, <3>3 DEF NamedBy, OthersStay
    <3>4. CASE q = run.profile /\ store[q] # None /\ g = store[q].iface
      <4>1. g \in TakenInterfaces(q) \/ g = run.s.iface
        BY <3>1, <3>4 DEF InstallKnows
      <4>2. run.s # None /\ store'[q] = run.s
        BY <3>1, <3>2, <3>4, SetupAssumption DEF SetupTypeOK
      <4> QED BY <1>1, <3>2, <3>4, <4>1, <4>2 DEF NamedBy
    <3> QED BY <2>1, <3>3, <3>4 DEF NamedBy
  <2>4. CASE WriteAppConfig
    <3>1. Installing /\ run.profile \in Profiles /\ run.s \in Settings /\ granted = Granted(Everyone(run.profile, run.s))
      BY <2>4, InstallTypes DEF WriteAppConfig, Installing, InstallSteps, InstallKnows
    <3>2. OthersStay /\ store'[run.profile] = run.s
      BY <2>4, <3>1 DEF WriteAppConfig, OthersStay, SetupTypeOK
    <3> QED BY <1>2, <2>0, <3>1, <3>2
  <2>5. CASE RemoveProfile
    BY <1>3, <2>0, <2>5 DEF RemoveProfile, UninstallKnows, Uninstalling, UninstallSteps, OthersStay, SetupTypeOK
  <2>6. CASE CutShort
    BY <1>3, <2>0, <2>2, <2>6 DEF CutShort, Interrupted, UninstallKnows, Uninstalling, UninstallSteps, OthersStay, SetupTypeOK
  <2>7. ASSUME NEW p \in Profiles, NEW net \in Nets \cup {None}, NEW supervise \in BOOLEAN, ProfileSave(p, net, supervise)
        PROVE  \E r \in Profiles : NamedBy(r, g)'
    <3>1. PICK s \in Settings : SavedAs(p, s, supervise)
      BY <2>7, SaveFacts
    <3>2. s # None
      BY SetupAssumption
    <3> QED BY <2>1, <3>1, <3>2 DEF SavedAs, NamedBy, SetupTypeOK
  <2> QED BY <2>2, <2>3, <2>4, <2>5, <2>6, <2>7, FileSteps
<1> QED BY <1>4, <1>5, <1>6, GrantSteps

\* Faults are only ever counted up.
LEMMA FaultsGrow ==
  ASSUME SetupTypeOK, Next
  PROVE  faults \in Nat /\ faults' \in Nat /\ faults <= faults'
<1>1. SetupTypeOK /\ faults \in Nat
  BY SetupAssumption DEF SetupTypeOK
<1> USE DEF Goes, Proceeds, Ends, Fault, WritesRule, RemovesSupervisor
<1>2. ASSUME NEW p \in Profiles, NEW net \in Nets \cup {None}, NEW window \in BOOLEAN, NEW supervise \in BOOLEAN,
             BeginInstall(p, window, net, supervise)
      PROVE  UNCHANGED faults
  BY <1>2 DEF BeginInstall, Starts
<1>3. ASSUME EnsureClientKey \/ Register \/ SaveProfileSettings \/ CheckKey \/ WriteSudoers \/ WritePrivateKey
             \/ WriteAppConfig \/ Verify
      PROVE  UNCHANGED faults
  BY <1>3 DEF EnsureClientKey, Register, SaveProfileSettings, CheckKey, WriteSudoers, WritePrivateKey, WriteAppConfig, Verify
<1>4. ASSUME NEW p \in Profiles, NEW net \in Nets \cup {None}, NEW supervise \in BOOLEAN, ProfileSave(p, net, supervise)
      PROVE  UNCHANGED faults
  BY <1>4 DEF ProfileSave
<1>5. ASSUME NEW p \in Profiles, NEW privileged \in BOOLEAN, NEW deletes \in SUBSET {"keys", "stack"},
             BeginUninstall(p, privileged, deletes)
      PROVE  UNCHANGED faults \/ faults' = faults + 1
  BY <1>5 DEF BeginUninstall
<1>6. ASSUME RemoveProfile \/ DeleteKeys \/ \E p \in Profiles : DeletePublicKey(p)
      PROVE  UNCHANGED faults
  BY <1>6 DEF RemoveProfile, DeleteKeys, DeletePublicKey
<1>7. ASSUME SetSupervisor \/ TakeDown \/ Withdraw \/ RewriteSudoers \/ RestartSupervisor \/ DeleteStack \/ Kill \/ Reboot
      PROVE  UNCHANGED faults \/ faults' = faults + 1
  BY <1>7 DEF SetSupervisor, SetsSupervisor, TakeDown, Withdraw, RewriteSudoers, RestartSupervisor, DeleteStack, Kill, Reboot
<1>8. UNCHANGED faults \/ faults' = faults + 1
  BY <1>2, <1>3, <1>4, <1>5, <1>6, <1>7 DEF Next
<1> QED BY <1>1, <1>8

LEMMA DistinctMeans ==
  DistinctInterfaces <=>
    (faults <= 1 => \A p, q \in Profiles : p \in ListProfiles /\ q \in ListProfiles /\ SettingsOf(p).iface = SettingsOf(q).iface => p = q)
BY DEF DistinctInterfaces, ListProfiles

LEMMA StepDistinctInterfaces ==
  ASSUME SetupTypeOK, InstallKnows, FilesAgree, DistinctInterfaces, Next
  PROVE  DistinctInterfaces'
<1> SUFFICES ASSUME faults' <= 1, NEW p \in Profiles, NEW q \in Profiles, p # q,
                    p \in ListProfiles', q \in ListProfiles'
             PROVE  SettingsOf(p)'.iface # SettingsOf(q)'.iface
  BY DEF DistinctInterfaces, ListProfiles
<1>1. faults \in Nat /\ faults <= 1
  BY FaultsGrow
<1>2. \A r, u \in Profiles : r \in ListProfiles /\ u \in ListProfiles /\ r # u => SettingsOf(r).iface # SettingsOf(u).iface
  BY <1>1, DistinctMeans
<1>3. CASE UNCHANGED <<store, config>>
  BY <1>2, <1>3, SameFiles
<1>4. ASSUME NEW r \in Profiles, \A u \in Profiles \ {r} : store'[u] = store[u] /\ config'[u] = config[u],
             r \in ListProfiles' => SettingsOf(r)'.iface \notin TakenInterfaces(r)
      PROVE  SettingsOf(p)'.iface # SettingsOf(q)'.iface
  <2>1. \A u \in Profiles \ {r} : u \in ListProfiles' => u \in ListProfiles /\ SettingsOf(u)' = SettingsOf(u)
    BY <1>4 DEF ListProfiles, SettingsOf
  <2>2. \A u \in Profiles \ {r} : u \in ListProfiles => SettingsOf(u).iface \in TakenInterfaces(r)
    BY DEF TakenInterfaces, Others
  <2> QED BY <1>2, <1>4, <2>1, <2>2
<1>5. CASE SaveProfileSettings
  <2>1. Installing /\ run.profile \in Profiles /\ run.s \in Settings
    BY <1>5, InstallTypes DEF SaveProfileSettings, Installing, InstallSteps
  <2>2. PICK r \in Profiles : r = run.profile
    BY <2>1
  <2>3. SettingsOf(r)' = run.s /\ \A u \in Profiles \ {r} : store'[u] = store[u] /\ config'[u] = config[u]
    BY <1>5, <2>1, <2>2, SetupAssumption DEF SaveProfileSettings, SettingsOf, SetupTypeOK
  <2>4. run.s.iface \notin TakenInterfaces(r)
    BY <2>1, <2>2 DEF InstallKnows
  <2> QED BY <1>4, <2>3, <2>4
<1>6. CASE WriteAppConfig
  <2>1. Installing /\ run.profile \in Profiles /\ run.s \in Settings
    BY <1>6, InstallTypes DEF WriteAppConfig, Installing, InstallSteps
  <2>2. PICK r \in Profiles : r = run.profile
    BY <2>1
  <2>3. SettingsOf(r)' = run.s /\ \A u \in Profiles \ {r} : store'[u] = store[u] /\ config'[u] = config[u]
    BY <1>6, <2>1, <2>2, SetupAssumption DEF WriteAppConfig, SettingsOf, SetupTypeOK
  <2>4. run.s.iface \notin TakenInterfaces(r)
    BY <2>1, <2>2 DEF InstallKnows
  <2> QED BY <1>4, <2>3, <2>4
<1>7. CASE RemoveProfile
  <2>1. run.profile \in Profiles
    BY <1>7, UninstallTypes DEF RemoveProfile, UninstallSteps
  <2>2. OthersStay /\ run.profile \notin ListProfiles'
    BY <1>7, <2>1 DEF RemoveProfile, OthersStay, ListProfiles, SetupTypeOK
  <2> QED BY <1>4, <2>1, <2>2 DEF OthersStay
<1>8. CASE CutShort
  <2>1. faults = 0 /\ run.profile \in Profiles
    BY <1>1, <1>8, ProfileOfRun DEF CutShort, Fault
  <2>2. \A r \in Profiles : config[r] # None => store[r] # None /\ store[r].iface = config[r].iface
    BY <2>1 DEF FilesAgree
  <2>3. \A r \in Profiles : r \in ListProfiles' => r \in ListProfiles /\ SettingsOf(r)'.iface = SettingsOf(r).iface
    <3>1. CASE UNCHANGED <<store, config>>
      BY <3>1, SameFiles
    <3>2. CASE store' = [store EXCEPT ![run.profile] = None] /\ config' = config
      BY <2>1, <2>2, <3>2 DEF ListProfiles, SettingsOf, SetupTypeOK
    <3>3. CASE config' = [config EXCEPT ![run.profile] = None] /\ store' = store
      BY <2>1, <2>2, <3>3 DEF ListProfiles, SettingsOf, SetupTypeOK
    <3> QED BY <1>8, <3>1, <3>2, <3>3 DEF CutShort, Interrupted
  <2> QED BY <1>2, <2>3
<1>9. ASSUME NEW r \in Profiles, NEW net \in Nets \cup {None}, NEW supervise \in BOOLEAN, ProfileSave(r, net, supervise)
      PROVE  SettingsOf(p)'.iface # SettingsOf(q)'.iface
  <2>1. PICK s \in Settings : SavedAs(r, s, supervise)
    BY <1>9, SaveFacts
  <2>2. SettingsOf(r)' = s /\ \A u \in Profiles \ {r} : store'[u] = store[u] /\ config'[u] = config[u]
    BY <2>1, SetupAssumption DEF SavedAs, SettingsOf, SetupTypeOK
  <2>3. s.iface \notin TakenInterfaces(r)
    <3>1. CASE store[r] = None
      BY <2>1, <3>1 DEF SavedAs
    <3>2. CASE store[r] # None
      <4>1. r \in ListProfiles /\ SettingsOf(r).iface = s.iface
        BY <2>1, <3>2 DEF SavedAs, ListProfiles, SettingsOf
      <4> QED BY <1>2, <4>1 DEF TakenInterfaces, Others, ListProfiles
    <3> QED BY <3>1, <3>2
  <2> QED BY <1>4, <2>2, <2>3
<1> QED BY <1>3, <1>5, <1>6, <1>7, <1>8, <1>9, FileSteps

LEMMA StepFilesAgree ==
  ASSUME SetupTypeOK, InstallKnows, FilesAgree, DistinctInterfaces, Next
  PROVE  FilesAgree'
<1> SUFFICES ASSUME faults' = 0
             PROVE  FilesAgree'
  BY DEF FilesAgree
<1>1. faults = 0
  BY FaultsGrow
<1>2. \A p \in Profiles : config[p] # None => store[p] # None /\ store[p].iface = config[p].iface
  BY <1>1 DEF FilesAgree
<1>3. ASSUME NEW p \in Profiles, config'[p] # None
      PROVE  store'[p] # None /\ store'[p].iface = config'[p].iface
  <2>1. CASE UNCHANGED <<store, config>>
    BY <1>2, <1>3, <2>1
  <2>2. CASE SaveProfileSettings
    <3>1. Installing /\ run.profile \in Profiles /\ run.s # None
      BY <2>2, InstallTypes, SetupAssumption DEF SaveProfileSettings, Installing, InstallSteps
    <3> QED BY <1>1, <1>2, <1>3, <2>2, <3>1 DEF SaveProfileSettings, FilesAgree, SetupTypeOK
  <2>3. CASE WriteAppConfig
    <3>1. Installing /\ run.profile \in Profiles /\ run.s # None
      BY <2>3, InstallTypes, SetupAssumption DEF WriteAppConfig, Installing, InstallSteps
    <3>2. CASE p = run.profile
      BY <2>3, <3>1, <3>2 DEF WriteAppConfig, SetupTypeOK
    <3>3. CASE p # run.profile
      BY <1>2, <1>3, <2>3, <3>1, <3>3 DEF WriteAppConfig, SetupTypeOK
    <3> QED BY <3>2, <3>3
  <2>4. CASE RemoveProfile
    BY <1>2, <1>3, <2>4 DEF RemoveProfile, SetupTypeOK
  <2>5. CASE CutShort
    BY <1>1, <2>5 DEF CutShort, Fault
  <2>6. ASSUME NEW r \in Profiles, NEW net \in Nets \cup {None}, NEW supervise \in BOOLEAN, ProfileSave(r, net, supervise)
        PROVE  store'[p] # None /\ store'[p].iface = config'[p].iface
    <3>1. PICK s \in Settings : SavedAs(r, s, supervise)
      BY <2>6, SaveFacts
    <3>2. s # None
      BY SetupAssumption
    <3> QED BY <1>2, <1>3, <3>1, <3>2 DEF SavedAs, SetupTypeOK
  <2> QED BY <2>1, <2>2, <2>3, <2>4, <2>5, <2>6, FileSteps
<1>4. ASSUME Installing', config'[run'.profile] # None PROVE run'.s.iface = config'[run'.profile].iface
  <2> USE DEF Installing, InstallSteps, Goes, Proceeds, Fault, WritesRule, RemovesSupervisor
  <2>1. ASSUME NEW p \in Profiles, NEW net \in Nets \cup {None}, NEW window \in BOOLEAN, NEW supervise \in BOOLEAN,
               BeginInstall(p, window, net, supervise)
        PROVE  run'.s.iface = config'[run'.profile].iface
    <3>1. PICK s \in Settings : run' = [profile |-> p, window |-> window, s |-> s, key |-> None] /\ InstallsAs(p, s)
      BY <2>1, InstallFacts
    <3>2. config' = config /\ run'.profile = p /\ run'.s = s
      BY <2>1, <3>1 DEF BeginInstall, files
    <3>3. store[p] # None /\ store[p].iface = config[p].iface
      BY <1>2, <1>4, <3>2
    <3>4. store[p].iface \notin TakenInterfaces(p)
      <4>1. p \in ListProfiles /\ SettingsOf(p).iface = store[p].iface
        BY <3>3 DEF ListProfiles, SettingsOf
      <4> QED BY <1>1, <4>1, DistinctMeans DEF TakenInterfaces, Others, ListProfiles
    <3> QED BY <3>1, <3>2, <3>3, <3>4 DEF InstallsAs
  <2>2. ASSUME Installing, run'.profile = run.profile, run'.s.iface = run.s.iface, run.profile \in Profiles,
               config' = config
        PROVE  run'.s.iface = config'[run'.profile].iface
    BY <1>1, <1>4, <2>2 DEF FilesAgree
  <2>3. CASE EnsureClientKey
    BY <2>2, <2>3, KeyStep
  <2>4. CASE Register
    <3>1. run \in Installs /\ run.profile \in Profiles /\ run.s \in Settings /\ Installing
      BY <2>4, InstallTypes DEF Register
    <3>2. run'.s.iface = run.s.iface /\ run'.profile = run.profile /\ config' = config
      BY <2>4, <3>1 DEF Register, Installs, Settings, files
    <3> QED BY <2>2, <3>1, <3>2
  <2>5. CASE SaveProfileSettings \/ CheckKey \/ WriteSudoers \/ WritePrivateKey \/ SetSupervisor
    <3>1. Installing /\ run.profile \in Profiles
      BY <2>5, InstallTypes DEF SaveProfileSettings, CheckKey, WriteSudoers, WritePrivateKey, SetSupervisor, SetsSupervisor
    <3>2. run' = run /\ config' = config
      BY <1>4, <2>5 DEF SaveProfileSettings, CheckKey, WriteSudoers, WritePrivateKey, SetSupervisor, SetsSupervisor, files, Ends
    <3> QED BY <2>2, <3>1, <3>2
  <2>6. CASE WriteAppConfig
    <3>1. run.profile \in Profiles /\ run' = run
      BY <2>6, InstallTypes DEF WriteAppConfig
    <3> QED BY <2>6, <3>1 DEF WriteAppConfig, SetupTypeOK
  <2>7. ASSUME \/ Verify \/ Kill \/ Reboot \/ TakeDown \/ Withdraw \/ RewriteSudoers \/ RemoveProfile \/ DeleteKeys
               \/ RestartSupervisor \/ DeleteStack \/ \E p \in Profiles : DeletePublicKey(p)
        PROVE  FALSE
    BY <1>4, <2>7 DEF Verify, Kill, Reboot, Interrupted, TakeDown, Withdraw, RewriteSudoers, RemoveProfile, DeleteKeys,
       RestartSupervisor, DeleteStack, DeletePublicKey, Ends
  <2>8. ASSUME NEW p \in Profiles, NEW net \in Nets \cup {None}, NEW supervise \in BOOLEAN, ProfileSave(p, net, supervise)
        PROVE  FALSE
    BY <1>4, <2>8 DEF ProfileSave
  <2>9. ASSUME NEW p \in Profiles, NEW privileged \in BOOLEAN, NEW deletes \in SUBSET {"keys", "stack"},
               BeginUninstall(p, privileged, deletes)
        PROVE  FALSE
    BY <1>4, <2>9 DEF BeginUninstall
  <2> QED BY <2>1, <2>3, <2>4, <2>5, <2>6, <2>7, <2>8, <2>9 DEF Next
<1> QED BY <1>3, <1>4 DEF FilesAgree

LEMMA StepOwnInterface ==
  ASSUME SetupTypeOK, OwnInterface, DistinctInterfaces, Next
  PROVE  OwnInterface'
<1> SUFFICES ASSUME faults' <= 1, at' \in UninstallSteps
             PROVE  run'.iface \notin TakenInterfaces(run.profile)'
  BY DEF OwnInterface, Uninstalling
<1>1. faults <= 1
  BY FaultsGrow
<1> USE DEF UninstallSteps, Goes, Proceeds, Fault, WritesRule, RemovesSupervisor
<1>2. ASSUME NEW p \in Profiles, NEW privileged \in BOOLEAN, NEW deletes \in SUBSET {"keys", "stack"},
             BeginUninstall(p, privileged, deletes)
      PROVE  run'.iface \notin TakenInterfaces(run.profile)'
  <2>1. p \in ListProfiles /\ run'.profile = p /\ run'.iface = SettingsOf(p).iface /\ UNCHANGED <<store, config>>
    BY <1>2 DEF BeginUninstall, files
  <2>2. TakenInterfaces(p)' = TakenInterfaces(p)
    BY <2>1, SameFiles
  <2>3. SettingsOf(p).iface \notin TakenInterfaces(p)
    BY <1>1, <2>1, DistinctMeans DEF TakenInterfaces, Others, ListProfiles
  <2> QED BY <2>1, <2>2, <2>3
<1>3. ASSUME Uninstalling, run' = run, OthersStay
      PROVE  run'.iface \notin TakenInterfaces(run.profile)'
  BY <1>1, <1>3, EveryoneStays DEF OwnInterface, Uninstalling
<1>4. CASE TakeDown \/ Withdraw \/ RewriteSudoers \/ DeleteKeys \/ RestartSupervisor
  BY <1>3, <1>4 DEF Uninstalling, OthersStay, TakeDown, Withdraw, RewriteSudoers, DeleteKeys, RestartSupervisor, files
<1>5. CASE RemoveProfile
  BY <1>3, <1>5 DEF Uninstalling, OthersStay, RemoveProfile, SetupTypeOK
<1>6. ASSUME NEW p \in Profiles, NEW net \in Nets \cup {None}, NEW window \in BOOLEAN, NEW supervise \in BOOLEAN,
             BeginInstall(p, window, net, supervise)
      PROVE  FALSE
  BY <1>6 DEF BeginInstall, Starts
<1>7. ASSUME EnsureClientKey \/ Register \/ SaveProfileSettings \/ CheckKey \/ WriteSudoers \/ WritePrivateKey
      PROVE  FALSE
  BY <1>7 DEF EnsureClientKey, UsesKey, Generates, Register, SaveProfileSettings, CheckKey, WriteSudoers, WritePrivateKey, Ends
<1>8. ASSUME \/ SetSupervisor \/ WriteAppConfig \/ Verify \/ DeleteStack \/ Kill \/ Reboot
             \/ \E p \in Profiles : DeletePublicKey(p)
      PROVE  FALSE
  BY <1>8 DEF SetSupervisor, SetsSupervisor, WriteAppConfig, Verify, DeleteStack, Kill, Reboot, Interrupted, DeletePublicKey, Ends
<1>9. ASSUME NEW p \in Profiles, NEW net \in Nets \cup {None}, NEW supervise \in BOOLEAN, ProfileSave(p, net, supervise)
      PROVE  FALSE
  BY <1>9 DEF ProfileSave
<1> QED BY <1>2, <1>4, <1>5, <1>6, <1>7, <1>8, <1>9 DEF Next

\* Some profile is supervised.
LEMMA SomeoneSupervised ==
  AnySupervised({SettingsOf(p) : p \in ListProfiles}) <=> \E p \in ListProfiles : SettingsOf(p).supervise
BY DEF AnySupervised

LEMMA StepDaemonFollows ==
  ASSUME SetupTypeOK, InstallKnows, UninstallKnows, DaemonFollows, Next
  PROVE  DaemonFollows'
<1> DEFINE Right == daemon = AnySupervised({SettingsOf(p) : p \in ListProfiles})
<1> SUFFICES ASSUME at' = "idle", ~unsure', "daemon" \notin warned' PROVE Right'
  BY DEF DaemonFollows
<1> USE DEF Goes, Proceeds, Fault, WritesRule, RemovesSupervisor
<1>0. ASSUME UNCHANGED <<store, config>>
      PROVE  AnySupervised({SettingsOf(p) : p \in ListProfiles})' = AnySupervised({SettingsOf(p) : p \in ListProfiles})
  <2>1. {SettingsOf(p) : p \in ListProfiles}' = {SettingsOf(p) : p \in ListProfiles}
    <3>1. ListProfiles' = ListProfiles /\ ListProfiles \subseteq Profiles /\ \A p \in Profiles : SettingsOf(p)' = SettingsOf(p)
      BY <1>0, SameFiles DEF ListProfiles
    <3> QED BY <3>1
  <2> QED BY <2>1 DEF AnySupervised
<1>1. CASE Verify
  <2>1. Installing /\ run.profile \in Profiles /\ run.s \in Settings /\ at = "verify"
    BY <1>1, InstallTypes DEF Verify, Installing, InstallSteps
  <2>2. store[run.profile] = run.s /\ daemon = AnySupervised(Everyone(run.profile, run.s))
    BY <1>1, <2>1 DEF InstallKnows, Verify, history
  <2>3. run.profile \in ListProfiles /\ SettingsOf(run.profile) = run.s
    BY <2>1, <2>2, SetupAssumption DEF ListProfiles, SettingsOf
  <2>4. Everyone(run.profile, run.s) = {SettingsOf(p) : p \in ListProfiles}
    BY <2>3 DEF Everyone, Others
  <2>5. UNCHANGED <<store, config, daemon>>
    BY <1>1 DEF Verify, files, root
  <2> QED BY <1>0, <2>2, <2>4, <2>5
<1>2. CASE DeleteStack
  <2>1. Uninstalling /\ run.profile \in Profiles /\ at = "stack" /\ ~unsure /\ "daemon" \notin warned
    BY <1>2, UninstallTypes DEF DeleteStack, Uninstalling, UninstallSteps, history
  <2>2. /\ store[run.profile] = None /\ config[run.profile] = None
        /\ daemon = AnySupervised(run.remaining) /\ run.remaining = {SettingsOf(q) : q \in Others(run.profile)}
    BY <2>1 DEF UninstallKnows
  <2>3. Others(run.profile) = ListProfiles
    BY <2>2 DEF Others, ListProfiles
  <2>4. UNCHANGED <<store, config, daemon>>
    BY <1>2 DEF DeleteStack, files, root
  <2> QED BY <1>0, <2>2, <2>3, <2>4
<1>3. ASSUME NEW p \in Profiles, NEW net \in Nets \cup {None}, NEW supervise \in BOOLEAN, ProfileSave(p, net, supervise)
      PROVE  Right'
  <2>1. PICK s \in Settings : SavedAs(p, s, supervise)
    BY <1>3, SaveFacts
  <2>2. /\ daemon' = daemon /\ at = "idle" /\ ~unsure /\ "daemon" \notin warned
        /\ supervise <=> (p \in ListProfiles /\ SettingsOf(p).supervise)
    <3>1. SettingsOf(p).supervise \in BOOLEAN \/ p \notin ListProfiles
      BY SettingsType DEF Settings
    <3> QED BY <1>3, <3>1 DEF ProfileSave, root, SetupTypeOK
  <2>3. p \in ListProfiles' /\ SettingsOf(p)' = s
    BY <2>1, SetupAssumption DEF SavedAs, ListProfiles, SettingsOf, SetupTypeOK
  <2>4. \A q \in Profiles \ {p} : (q \in ListProfiles' <=> q \in ListProfiles) /\ SettingsOf(q)' = SettingsOf(q)
    BY <2>1 DEF SavedAs, ListProfiles, SettingsOf
  <2>5. (\E q \in ListProfiles : SettingsOf(q).supervise) <=> (\E q \in ListProfiles' : SettingsOf(q)'.supervise)
    BY <2>1, <2>2, <2>3, <2>4 DEF SavedAs, ListProfiles
  <2>6. daemon = AnySupervised({SettingsOf(q) : q \in ListProfiles})
    BY <2>2 DEF DaemonFollows
  <2>7. AnySupervised({SettingsOf(q) : q \in ListProfiles})' <=> AnySupervised({SettingsOf(q) : q \in ListProfiles})
    BY <2>5 DEF AnySupervised
  <2>8. /\ AnySupervised({SettingsOf(q) : q \in ListProfiles}) \in BOOLEAN
        /\ AnySupervised({SettingsOf(q) : q \in ListProfiles})' \in BOOLEAN
    BY DEF AnySupervised
  <2> QED BY <2>2, <2>6, <2>7, <2>8
<1>4. ASSUME at = "idle", UNCHANGED <<store, config, daemon, unsure, warned>> PROVE Right'
  BY <1>0, <1>4 DEF DaemonFollows
<1>5. CASE (\E p \in Profiles : DeletePublicKey(p)) \/ Kill \/ Reboot
  BY <1>4, <1>5 DEF DeletePublicKey, Kill, Reboot, Interrupted, root
<1>6. ASSUME NEW p \in Profiles, NEW net \in Nets \cup {None}, NEW window \in BOOLEAN, NEW supervise \in BOOLEAN,
             BeginInstall(p, window, net, supervise)
      PROVE  FALSE
  BY <1>6 DEF BeginInstall, Starts
<1>7. ASSUME EnsureClientKey \/ Register \/ SaveProfileSettings \/ CheckKey \/ WriteSudoers \/ WritePrivateKey
             \/ SetSupervisor \/ WriteAppConfig
      PROVE  FALSE
  BY <1>7 DEF EnsureClientKey, UsesKey, Generates, Register, SaveProfileSettings, CheckKey, WriteSudoers, WritePrivateKey,
     SetSupervisor, SetsSupervisor, WriteAppConfig, Ends
<1>8. ASSUME TakeDown \/ Withdraw \/ RewriteSudoers \/ RemoveProfile \/ DeleteKeys \/ RestartSupervisor
      PROVE  FALSE
  BY <1>8 DEF TakeDown, Withdraw, RewriteSudoers, RemoveProfile, DeleteKeys, RestartSupervisor
<1>9. ASSUME NEW p \in Profiles, NEW privileged \in BOOLEAN, NEW deletes \in SUBSET {"keys", "stack"},
             BeginUninstall(p, privileged, deletes)
      PROVE  FALSE
  BY <1>9 DEF BeginUninstall
<1> QED BY <1>1, <1>2, <1>3, <1>5, <1>6, <1>7, <1>8, <1>9 DEF Next

-----------------------------------------------------------------------------
\* Keys.

LEMMA OthersInterface ==
  ASSUME InstalledHasSettings, InstallKnows, Installing, NEW q \in Profiles, q # run.profile, config[q] # None, q \notin leaving
  PROVE  config[q].iface # run.s.iface
<1>1. q \in Others(run.profile) /\ SettingsOf(q).iface = config[q].iface
  BY DEF InstalledHasSettings, Others, ListProfiles, SettingsOf
<1>2. run.s.iface \notin TakenInterfaces(run.profile)
  BY DEF InstallKnows
<1> QED BY <1>1, <1>2 DEF TakenInterfaces

LEMMA StepKeyKnown ==
  ASSUME SetupTypeOK, HasKey, KeyKnown, Next
  PROVE  KeyKnown'
<1> USE DEF Installing, InstallSteps, Goes, Proceeds, Fault, WritesRule, RemovesSupervisor
<1>1. CASE EnsureClientKey
  <2>1. pub'[run.profile] = run'.key /\ keyFile' = keyFile
    BY <1>1, KeyStep DEF SetupTypeOK, root
  <2> QED BY <1>1, <2>1, KeyStep DEF KeyKnown
<1>2. CASE Register
  <2>1. run \in Installs /\ run.profile \in Profiles /\ run.s \in Settings /\ at = "register" /\ at' = "settings"
    BY <1>2, InstallTypes DEF Register
  <2>2. run'.profile = run.profile /\ run'.s.iface = run.s.iface /\ run'.key = run.key /\ UNCHANGED <<pub, keyFile>>
    BY <1>2, <2>1 DEF Register, Installs, Settings, files, root
  <2>3. [net |-> run.s.net, key |-> run.key] \in peers'[run.profile]
    BY <1>2, <2>1 DEF Register, SetupTypeOK
  <2>4. odd' = IF keyFile[run.s.iface] = run.key THEN odd \ {run.s.iface} ELSE odd
    BY <1>2 DEF Register
  <2> QED BY <2>1, <2>2, <2>3, <2>4 DEF KeyKnown
<1>3. CASE WritePrivateKey
  <2>1. run.profile \in Profiles /\ run.s.iface \in Interfaces /\ run' = run /\ UNCHANGED <<pub, peers>> /\ at = "private"
    BY <1>3, InstallTypes DEF WritePrivateKey
  <2>2. CASE FoundStaged = None
    BY <1>3, <2>1, <2>2 DEF WritePrivateKey, KeyKnown
  <2>3. CASE FoundStaged # None
    BY <1>3, <2>1, <2>3 DEF WritePrivateKey, KeyKnown, SetupTypeOK
  <2> QED BY <2>2, <2>3
<1>4. CASE SaveProfileSettings \/ CheckKey \/ WriteSudoers \/ SetSupervisor \/ WriteAppConfig
  <2>1. UNCHANGED <<pub, keyFile, peers, odd>> /\ (at' = "idle" \/ (run' = run /\ at \in InstallSteps \ {"key", "register"}))
    BY <1>4 DEF SaveProfileSettings, CheckKey, WriteSudoers, SetSupervisor, SetsSupervisor, WriteAppConfig, root, history, files, Ends
  <2> QED BY <2>1 DEF KeyKnown
<1>5. ASSUME at' \notin InstallSteps \ {"key"} PROVE KeyKnown'
  BY <1>5 DEF KeyKnown
<1>6. ASSUME NEW p \in Profiles, NEW net \in Nets \cup {None}, NEW window \in BOOLEAN, NEW supervise \in BOOLEAN,
             BeginInstall(p, window, net, supervise)
      PROVE  at' \notin InstallSteps \ {"key"}
  BY <1>6 DEF BeginInstall, Starts
<1>7. ASSUME \/ Verify \/ Kill \/ Reboot \/ TakeDown \/ Withdraw \/ RewriteSudoers \/ RemoveProfile \/ DeleteKeys
             \/ RestartSupervisor \/ DeleteStack \/ \E p \in Profiles : DeletePublicKey(p)
      PROVE  at' \notin InstallSteps \ {"key"}
  BY <1>7 DEF Verify, Kill, Reboot, Interrupted, TakeDown, Withdraw, RewriteSudoers, RemoveProfile, DeleteKeys,
     RestartSupervisor, DeleteStack, DeletePublicKey, Ends
<1>8. ASSUME NEW p \in Profiles, NEW net \in Nets \cup {None}, NEW supervise \in BOOLEAN, ProfileSave(p, net, supervise)
      PROVE  at' \notin InstallSteps \ {"key"}
  BY <1>8 DEF ProfileSave
<1>9. ASSUME NEW p \in Profiles, NEW privileged \in BOOLEAN, NEW deletes \in SUBSET {"keys", "stack"},
             BeginUninstall(p, privileged, deletes)
      PROVE  at' \notin InstallSteps \ {"key"}
  BY <1>9 DEF BeginUninstall
<1> QED BY <1>1, <1>2, <1>3, <1>4, <1>5, <1>6, <1>7, <1>8, <1>9 DEF Next

\* What a step does to keys and peers.
LEMMA KeySteps ==
  ASSUME Next
  PROVE  \/ UNCHANGED <<keyFile, peers>> /\ odd \subseteq odd'
         \/ Register \/ WritePrivateKey \/ Withdraw \/ DeleteKeys \/ DeleteStack
<1> USE DEF files, root, history
<1>1. ASSUME NEW p \in Profiles, NEW net \in Nets \cup {None}, NEW window \in BOOLEAN, NEW supervise \in BOOLEAN,
             BeginInstall(p, window, net, supervise)
      PROVE  UNCHANGED <<keyFile, peers, odd>>
  BY <1>1 DEF BeginInstall, Starts
<1>2. CASE EnsureClientKey
  BY <1>2 DEF EnsureClientKey, UsesKey, Generates
<1>3. ASSUME SaveProfileSettings \/ CheckKey \/ WriteSudoers \/ SetSupervisor \/ WriteAppConfig \/ Verify
      PROVE  UNCHANGED <<keyFile, peers, odd>>
  BY <1>3 DEF SaveProfileSettings, CheckKey, WriteSudoers, SetSupervisor, SetsSupervisor, WriteAppConfig, Verify
<1>4. ASSUME NEW p \in Profiles, NEW net \in Nets \cup {None}, NEW supervise \in BOOLEAN, ProfileSave(p, net, supervise)
      PROVE  UNCHANGED <<keyFile, peers, odd>>
  BY <1>4 DEF ProfileSave
<1>5. ASSUME NEW p \in Profiles, NEW privileged \in BOOLEAN, NEW deletes \in SUBSET {"keys", "stack"},
             BeginUninstall(p, privileged, deletes)
      PROVE  UNCHANGED <<keyFile, peers, odd>>
  BY <1>5 DEF BeginUninstall
<1>6. ASSUME TakeDown \/ RewriteSudoers \/ RemoveProfile \/ RestartSupervisor \/ Kill \/ Reboot
             \/ \E p \in Profiles : DeletePublicKey(p)
      PROVE  UNCHANGED <<keyFile, peers, odd>>
  BY <1>6 DEF TakeDown, RewriteSudoers, RemoveProfile, RestartSupervisor, Kill, Reboot, DeletePublicKey
<1> QED BY <1>1, <1>2, <1>3, <1>4, <1>5, <1>6 DEF Next

LEMMA StepKeyMatches ==
  ASSUME SetupTypeOK, InstalledHasSettings, InstallKnows, UninstallKnows, KeyKnown, KeyMatches, Next
  PROVE  KeyMatches'
<1> SUFFICES ASSUME NEW q \in Profiles, config'[q] # None, q \notin leaving',
                    keyFile'[config'[q].iface] # None, config'[q].iface \notin odd'
             PROVE  \E e \in peers'[q] : e.key = keyFile'[config'[q].iface]
  BY DEF KeyMatches
<1> USE DEF Installing, InstallSteps
<1>1. ASSUME Installing, run.profile = q, config'[q].iface = run.s.iface, at \notin {"key", "register"},
             UNCHANGED <<keyFile, peers, odd>>
      PROVE  \E e \in peers'[q] : e.key = keyFile'[config'[q].iface]
  BY <1>1 DEF KeyKnown
<1>2. CASE WriteAppConfig
  <2>1. run.profile \in Profiles /\ UNCHANGED <<keyFile, peers, odd>>
    BY <1>2, InstallTypes DEF WriteAppConfig, root
  <2>2. CASE q = run.profile
    BY <1>1, <1>2, <2>1, <2>2 DEF WriteAppConfig, SetupTypeOK
  <2>3. CASE q # run.profile
    BY <1>2, <2>1, <2>3 DEF WriteAppConfig, KeyMatches, SetupTypeOK
  <2> QED BY <2>2, <2>3
<1>3. CASE ~WriteAppConfig
  <2>1. config[q] = config'[q] /\ q \notin leaving
    <3>1. CASE CutShort
      BY <3>1, ProfileOfRun DEF CutShort, Interrupted, SetupTypeOK
    <3>2. CASE SaveProfileSettings
      BY <3>2 DEF SaveProfileSettings, history
    <3>3. CASE RemoveProfile
      BY <3>3 DEF RemoveProfile, history, SetupTypeOK
    <3>4. ASSUME NEW p \in Profiles, NEW net \in Nets \cup {None}, NEW supervise \in BOOLEAN, ProfileSave(p, net, supervise)
          PROVE  config[q] = config'[q] /\ q \notin leaving
      BY <3>4 DEF ProfileSave
    <3> QED BY <1>3, <3>1, <3>2, <3>3, <3>4, FileSteps
  <2> DEFINE i == config[q].iface
  <2>2. i \in Interfaces
    BY <2>1 DEF SetupTypeOK, AppConfigs
  <2>3. CASE UNCHANGED <<keyFile, peers>> /\ odd \subseteq odd'
    BY <2>1, <2>3 DEF KeyMatches
  <2>4. CASE Register
    <3>1. Installing /\ run.profile \in Profiles /\ run.s.iface \in Interfaces /\ at = "register"
      BY <2>4, InstallTypes DEF Register
    <3>2. keyFile' = keyFile
      BY <2>4 DEF Register, root
    <3>3. CASE q = run.profile
      <4>1. i = run.s.iface
        BY <2>1, <3>1, <3>3 DEF InstallKnows
      <4>2. keyFile[i] = run.key
        BY <2>1, <2>4, <3>1, <3>2, <4>1 DEF KeyKnown, Register
      <4>3. [net |-> run.s.net, key |-> run.key] \in peers'[q]
        BY <2>4, <3>1, <3>3 DEF Register, SetupTypeOK
      <4> QED BY <2>1, <3>2, <4>2, <4>3
    <3>4. CASE q # run.profile
      <4>1. i # run.s.iface
        BY <2>1, <3>1, <3>4, OthersInterface
      <4>2. peers'[q] = peers[q] /\ i \notin odd
        BY <2>1, <2>4, <3>1, <3>4, <4>1 DEF Register, SetupTypeOK
      <4> QED BY <2>1, <3>2, <4>2 DEF KeyMatches
    <3> QED BY <3>3, <3>4
  <2>5. CASE WritePrivateKey
    <3>1. Installing /\ run.profile \in Profiles /\ run.s.iface \in Interfaces /\ at = "private" /\ peers' = peers
      BY <2>5, InstallTypes DEF WritePrivateKey
    <3>2. CASE q = run.profile
      <4>1. i = run.s.iface
        BY <2>1, <3>1, <3>2 DEF InstallKnows
      <4>2. keyFile'[i] = run.key
        <5>1. CASE FoundStaged = None
          BY <2>1, <2>5, <3>1, <3>2, <4>1, <5>1 DEF WritePrivateKey, KeyKnown
        <5>2. CASE FoundStaged # None
          BY <2>1, <2>5, <3>1, <3>2, <4>1, <5>2 DEF WritePrivateKey, SetupTypeOK
        <5> QED BY <5>1, <5>2
      <4> QED BY <2>1, <3>1, <3>2, <4>2 DEF KeyKnown
    <3>3. CASE q # run.profile
      <4>1. i # run.s.iface
        BY <2>1, <3>1, <3>3, OthersInterface
      <4>2. keyFile'[i] = keyFile[i] /\ i \notin odd
        BY <2>1, <2>2, <2>5, <3>1, <4>1 DEF WritePrivateKey, SetupTypeOK
      <4> QED BY <2>1, <3>1, <4>2 DEF KeyMatches
    <3> QED BY <3>2, <3>3
  <2>6. CASE Withdraw \/ DeleteStack
    <3>1. Uninstalling /\ run.profile \in Profiles /\ UNCHANGED <<keyFile, odd>>
      BY <2>6, UninstallTypes DEF Withdraw, DeleteStack, Uninstalling, UninstallSteps, root, history
    <3>2. q # run.profile
      BY <2>1, <3>1 DEF UninstallKnows
    <3>3. peers'[q] = peers[q]
      BY <2>6, <3>1, <3>2 DEF Withdraw, DeleteStack, SetupTypeOK
    <3> QED BY <2>1, <3>1, <3>3 DEF KeyMatches
  <2>7. CASE DeleteKeys
    <3>1. run.iface \in Interfaces /\ UNCHANGED <<peers, odd>>
      BY <2>7, UninstallTypes DEF DeleteKeys, UninstallSteps, history
    <3>2. keyFile'[i] = keyFile[i]
      BY <2>1, <2>2, <2>7, <3>1 DEF DeleteKeys, SetupTypeOK
    <3> QED BY <2>1, <3>1, <3>2 DEF KeyMatches
  <2> QED BY <2>3, <2>4, <2>5, <2>6, <2>7, KeySteps
<1> QED BY <1>2, <1>3

\* The peers the gateways have of this Mac.

\* What one command does leaves the other profiles' as they were.
OthersPeersStay ==
  \A q \in Profiles \ {run.profile} : config'[q] = config[q] /\ pub'[q] = pub[q] /\ peers'[q] = peers[q]

LEMMA OthersAgree ==
  ASSUME PeersKnown, at # "idle", OthersPeersStay, cut \subseteq cut',
         NEW q \in Profiles, q # run.profile, q \notin cut'
  PROVE  PeersAgree(q)'
<1>1. PeersAgree(q)
  BY DEF PeersKnown
<1> QED BY <1>1 DEF PeersAgree, OthersPeersStay

LEMMA CommandPeers ==
  ASSUME SetupTypeOK, UninstallKnows, KeyKnown, PeersKnown, Next, at # "idle", at' # "idle"
  PROVE  PeersKnown'
<1> DEFINE p == run.profile
<1> USE DEF files, root, history, Goes, Proceeds, Ends, Fault, WritesRule, RemovesSupervisor
<1>0. p \in Profiles
  BY ProfileOfRun
<1>1. ASSUME refused' \subseteq cut', cut \subseteq cut', run'.profile = p, OthersPeersStay,
             p \notin cut' =>
               /\ at' \in {"key", "register", "verify", "down", "withdraw"} => PeersAgree(p)'
               /\ at' \in InstallSteps /\ at' \notin {"key", "register"} => peers'[p] = {[net |-> run'.s.net, key |-> run'.key]}
               /\ at' \in {"down", "withdraw"} => run'.tunnel = Installed(p)'
               /\ at' \in {"rule", "remove", "keys", "restart", "stack"} => "stack" \in run'.deletes \/ peers'[p] = {}
      PROVE  PeersKnown'
  BY <1>1, OthersAgree DEF PeersKnown, Installing
<1>2. refused \subseteq cut
  BY DEF PeersKnown
<1>3. CASE EnsureClientKey
  <2> DEFINE key == run'.key
  <2>1. at = "key" /\ at' = "register" /\ (pub[p] # None => key = pub[p])
    BY <1>3, KeyStep
  <2>3. run'.profile = p /\ pub' = [pub EXCEPT ![p] = key] /\ UNCHANGED <<config, peers, refused, cut>>
    BY <1>3, KeyStep
  <2> HIDE DEF key
  <2>4. ASSUME p \notin cut' PROVE PeersAgree(p)'
    <3>1. PeersAgree(p)
      BY <2>1, <2>3, <2>4 DEF PeersKnown
    <3>2. CASE pub[p] = None
      <4>1. \A e \in peers[p] : e.key # None
        <5>1. peers[p] \subseteq [net : Nets, key : Keys] /\ None \notin Keys
          BY <1>0, SetupAssumption DEF SetupTypeOK
        <5> QED BY <5>1
      <4>2. peers[p] = {}
        BY <3>1, <3>2, <4>1 DEF PeersAgree
      <4> QED BY <2>3, <4>2 DEF PeersAgree
    <3>3. CASE pub[p] # None
      <4>1. pub'[p] = pub[p]
        BY <1>0, <2>1, <2>3, <3>3 DEF SetupTypeOK
      <4> QED BY <2>3, <3>1, <4>1 DEF PeersAgree
    <3> QED BY <3>2, <3>3
  <2>5. OthersPeersStay
    BY <2>3 DEF OthersPeersStay, SetupTypeOK
  <2> QED BY <1>1, <1>2, <2>1, <2>3, <2>4, <2>5
<1>4. CASE Register
  <2>1. run \in Installs /\ run.s \in Settings /\ at = "register" /\ at' = "settings"
    BY <1>4, InstallTypes DEF Register, InstallSteps
  <2>2. /\ run'.profile = p /\ run'.s.net = run.s.net /\ run'.key = run.key
        /\ UNCHANGED <<config, pub, refused, cut>>
    BY <1>4, <2>1 DEF Register, Installs, Settings
  <2>3. ASSUME p \notin cut' PROVE peers'[p] = {[net |-> run'.s.net, key |-> run'.key]}
    <3>1. PeersAgree(p) /\ pub[p] = run.key
      BY <2>1, <2>2, <2>3 DEF PeersKnown, KeyKnown, Installing, InstallSteps
    <3>2. {e \in peers[p] : e.net # run.s.net /\ e.key # run.key} = {}
      BY <3>1 DEF PeersAgree
    <3> QED BY <1>0, <1>4, <2>2, <3>2 DEF Register, SetupTypeOK
  <2>4. OthersPeersStay
    BY <1>4, <2>2 DEF OthersPeersStay, Register, SetupTypeOK
  <2> QED BY <1>1, <1>2, <2>1, <2>2, <2>3, <2>4
<1>5. CASE SaveProfileSettings \/ WriteSudoers \/ WritePrivateKey \/ SetSupervisor \/ CheckKey
  <2>1. /\ run' = run /\ at \in InstallSteps \ {"key", "register"} /\ at' \in InstallSteps \ {"key", "register", "verify"}
        /\ UNCHANGED <<config, pub, peers, refused, cut>>
    BY <1>5 DEF SaveProfileSettings, WriteSudoers, WritePrivateKey, SetSupervisor, SetsSupervisor, CheckKey, InstallSteps
  <2>2. p \notin cut' => peers'[p] = {[net |-> run'.s.net, key |-> run'.key]}
    BY <2>1 DEF PeersKnown, Installing, InstallSteps
  <2> QED BY <1>1, <1>2, <2>1, <2>2 DEF OthersPeersStay, InstallSteps
<1>6. CASE WriteAppConfig
  <2>1. /\ run' = run /\ at = "finish" /\ at' = "verify" /\ run.s \in Settings
        /\ UNCHANGED <<pub, peers, refused, cut>>
        /\ config' = [config EXCEPT ![p] = [iface |-> run.s.iface, net |-> run.s.net, supervise |-> run.s.supervise]]
    BY <1>6, InstallTypes DEF WriteAppConfig, InstallSteps
  <2>2. ASSUME p \notin cut'
        PROVE  peers'[p] = {[net |-> run'.s.net, key |-> run'.key]} /\ PeersAgree(p)'
    <3>1. peers[p] = {[net |-> run.s.net, key |-> run.key]} /\ pub[p] = run.key
      BY <2>1, <2>2 DEF PeersKnown, KeyKnown, Installing, InstallSteps
    <3>2. [iface |-> run.s.iface, net |-> run.s.net, supervise |-> run.s.supervise] \in AppConfigs
      BY <2>1 DEF Settings, AppConfigs
    <3>3. config'[p] # None /\ config'[p].net = run.s.net
      BY <1>0, <2>1, <3>2, SetupAssumption DEF SetupTypeOK
    <3> QED BY <2>1, <3>1, <3>3 DEF PeersAgree
  <2>3. OthersPeersStay
    BY <2>1 DEF OthersPeersStay, SetupTypeOK
  <2> QED BY <1>1, <1>2, <2>1, <2>2, <2>3
<1>7. CASE TakeDown
  <2>1. run' = run /\ at = "down" /\ at' = "withdraw" /\ UNCHANGED <<config, pub, peers, refused, cut>>
    BY <1>7 DEF TakeDown
  <2>2. p \notin cut' => PeersAgree(p)' /\ run'.tunnel = Installed(p)'
    BY <2>1 DEF PeersKnown, PeersAgree, Installed
  <2> QED BY <1>1, <1>2, <2>1, <2>2 DEF OthersPeersStay, InstallSteps
<1>8. CASE Withdraw
  <2>1. /\ run' = run /\ at = "withdraw" /\ at' = "rule" /\ UNCHANGED <<config, pub, refused>> /\ cut \subseteq cut'
        /\ run.known \in BOOLEAN
    BY <1>8, UninstallTypes DEF Withdraw, UninstallSteps
  <2>2. ASSUME p \notin cut' PROVE "stack" \in run'.deletes \/ peers'[p] = {}
    <3>1. SUFFICES ASSUME "stack" \notin run.deletes PROVE peers'[p] = {}
      BY <2>1
    <3>2. run.known
      BY <1>8, <2>1, <2>2 DEF Withdraw
    <3>3. peers' = [peers EXCEPT ![p] = {e \in @ : e.net # run.tunnel.net}]
      BY <1>0, <1>8, <2>2, <3>1, <3>2 DEF Withdraw, SetupTypeOK
    <3>4. PeersAgree(p) /\ run.tunnel = Installed(p)
      BY <2>1, <2>2 DEF PeersKnown
    <3>5. {e \in peers[p] : e.net # run.tunnel.net} = {}
      BY <3>4 DEF PeersAgree, Installed
    <3> QED BY <1>0, <3>3, <3>5 DEF SetupTypeOK
  <2>3. OthersPeersStay
    BY <1>8, <2>1 DEF OthersPeersStay, Withdraw, SetupTypeOK
  <2> QED BY <1>1, <1>2, <2>1, <2>2, <2>3 DEF InstallSteps
<1>9. CASE RewriteSudoers \/ RemoveProfile \/ DeleteKeys \/ RestartSupervisor
  <2>1. /\ run' = run /\ UNCHANGED <<peers, refused, cut>>
        /\ at \in {"rule", "remove", "keys", "restart"} /\ at' \in {"remove", "keys", "restart", "stack"}
    BY <1>9 DEF RewriteSudoers, RemoveProfile, DeleteKeys, RestartSupervisor
  <2>2. OthersPeersStay
    BY <1>9 DEF OthersPeersStay, RewriteSudoers, RemoveProfile, DeleteKeys, RestartSupervisor, SetupTypeOK
  <2>3. p \notin cut' => "stack" \in run'.deletes \/ peers'[p] = {}
    BY <2>1 DEF PeersKnown
  <2> QED BY <1>1, <1>2, <2>1, <2>2, <2>3 DEF InstallSteps
<1>10. ASSUME NEW q \in Profiles, NEW net \in Nets \cup {None}, NEW window \in BOOLEAN, NEW supervise \in BOOLEAN,
              BeginInstall(q, window, net, supervise)
       PROVE  FALSE
  BY <1>10 DEF BeginInstall, Starts
<1>11. ASSUME NEW q \in Profiles, NEW net \in Nets \cup {None}, NEW supervise \in BOOLEAN, ProfileSave(q, net, supervise)
       PROVE  FALSE
  BY <1>11 DEF ProfileSave
<1>12. ASSUME NEW q \in Profiles, NEW privileged \in BOOLEAN, NEW deletes \in SUBSET {"keys", "stack"},
              BeginUninstall(q, privileged, deletes)
       PROVE  FALSE
  BY <1>12 DEF BeginUninstall
<1>13. ASSUME Verify \/ DeleteStack \/ Kill \/ Reboot \/ \E q \in Profiles : DeletePublicKey(q) PROVE FALSE
  BY <1>13 DEF Verify, DeleteStack, Kill, Reboot, Interrupted, DeletePublicKey
<1> QED BY <1>3, <1>4, <1>5, <1>6, <1>7, <1>8, <1>9, <1>10, <1>11, <1>12, <1>13 DEF Next

\* A command ends, or is cut off.
LEMMA EndPeers ==
  ASSUME SetupTypeOK, UninstallKnows, PeersKnown, Next, at # "idle", at' = "idle"
  PROVE  PeersKnown'
<1> PICK p \in Profiles : p = run.profile
  BY ProfileOfRun
<1> USE DEF files, root, history, Goes, Proceeds, Ends, Fault, WritesRule, RemovesSupervisor
<1>0. refused \subseteq cut
  BY DEF PeersKnown
<1>1. ASSUME refused' \subseteq cut', cut \subseteq cut', OthersPeersStay, p \notin cut' => PeersAgree(p)'
      PROVE  PeersKnown'
  BY <1>1, OthersAgree DEF PeersKnown
<1>2. CASE Verify
  <2>1. at = "verify" /\ UNCHANGED <<config, pub, peers, refused, cut>>
    BY <1>2 DEF Verify
  <2>2. p \notin cut' => PeersAgree(p)'
    BY <2>1 DEF PeersKnown, PeersAgree
  <2> QED BY <1>0, <1>1, <2>1, <2>2 DEF OthersPeersStay
<1>3. CASE CheckKey
  <2>1. UNCHANGED <<config, pub, peers>> /\ refused' = refused \cup {p} /\ cut' = cut \cup {p}
    BY <1>3 DEF CheckKey
  <2> QED BY <1>0, <1>1, <2>1 DEF OthersPeersStay
<1>4. CASE DeleteStack
  <2>1. /\ at = "stack" /\ UNCHANGED <<config, pub, refused>> /\ cut \subseteq cut'
        /\ peers' \in {peers, [peers EXCEPT ![p] = {}]}
        /\ p \notin cut' /\ "stack" \in run.deletes => peers' = [peers EXCEPT ![p] = {}]
    BY <1>4 DEF DeleteStack
  <2>2. config[p] = None
    BY <2>1 DEF UninstallKnows, Uninstalling, UninstallSteps
  <2>3. p \notin cut' => peers'[p] = {}
    BY <1>0, <2>1 DEF PeersKnown, SetupTypeOK
  <2>4. OthersPeersStay
    BY <2>1 DEF OthersPeersStay, SetupTypeOK
  <2> QED BY <1>0, <1>1, <2>1, <2>2, <2>3, <2>4 DEF PeersAgree
<1>5. CASE Kill \/ Reboot
  <2>1. cut' = cut \cup {p} /\ refused' = refused /\ peers' = peers
    BY <1>5 DEF Kill, Reboot, Interrupted
  <2>2. OthersPeersStay
    BY <1>5, <2>1 DEF OthersPeersStay, Kill, Reboot, Interrupted, SetupTypeOK
  <2> QED BY <1>0, <1>1, <2>1, <2>2
<1>6. ASSUME NEW q \in Profiles, NEW net \in Nets \cup {None}, NEW window \in BOOLEAN, NEW supervise \in BOOLEAN,
             BeginInstall(q, window, net, supervise)
      PROVE  FALSE
  BY <1>6 DEF BeginInstall, Starts
<1>7. ASSUME NEW q \in Profiles, NEW net \in Nets \cup {None}, NEW supervise \in BOOLEAN, ProfileSave(q, net, supervise)
      PROVE  FALSE
  BY <1>7 DEF ProfileSave
<1>8. ASSUME NEW q \in Profiles, NEW privileged \in BOOLEAN, NEW deletes \in SUBSET {"keys", "stack"},
             BeginUninstall(q, privileged, deletes)
      PROVE  FALSE
  BY <1>8 DEF BeginUninstall
<1>9. ASSUME EnsureClientKey \/ Register \/ SaveProfileSettings \/ WriteSudoers \/ WritePrivateKey \/ SetSupervisor
             \/ WriteAppConfig
      PROVE  FALSE
  BY <1>9 DEF EnsureClientKey, UsesKey, Generates, Register, SaveProfileSettings, WriteSudoers, WritePrivateKey,
     SetSupervisor, SetsSupervisor, WriteAppConfig
<1>10. ASSUME TakeDown \/ Withdraw \/ RewriteSudoers \/ RemoveProfile \/ DeleteKeys \/ RestartSupervisor
              \/ \E q \in Profiles : DeletePublicKey(q)
       PROVE  FALSE
  BY <1>10 DEF TakeDown, Withdraw, RewriteSudoers, RemoveProfile, DeleteKeys, RestartSupervisor, DeletePublicKey
<1> QED BY <1>2, <1>3, <1>4, <1>5, <1>6, <1>7, <1>8, <1>9, <1>10 DEF Next

LEMMA StepPeersKnown ==
  ASSUME SetupTypeOK, UninstallKnows, KeyKnown, PeersKnown, Next
  PROVE  PeersKnown'
<1> USE DEF files, root, history
<1>1. CASE at # "idle"
  BY <1>1, CommandPeers, EndPeers
<1>2. CASE at = "idle"
  <2>1. refused \subseteq cut /\ \A q \in Profiles \ cut : PeersAgree(q)
    BY <1>2 DEF PeersKnown
  <2>2. ASSUME UNCHANGED <<config, pub, peers, refused, cut>>,
               at' \in {"idle", "key"} \/ (at' = "down" /\ run'.tunnel = Installed(run'.profile)),
               at' # "idle" => run'.profile \in Profiles
        PROVE  PeersKnown'
    <3>1. \A q \in Profiles \ cut' : PeersAgree(q)'
      BY <2>1, <2>2 DEF PeersAgree
    <3>2. \A q \in Profiles : Installed(q)' = Installed(q)
      BY <2>2 DEF Installed
    <3>3. ASSUME at' # "idle", run'.profile \notin cut'
          PROVE  PeersAgree(run.profile)' /\ (at' = "down" => run'.tunnel = Installed(run.profile)')
      <4> PICK r \in Profiles : r = run'.profile
        BY <2>2, <3>3
      <4>1. PeersAgree(r)' /\ Installed(r)' = Installed(r)
        BY <3>1, <3>2, <3>3
      <4> QED BY <2>2, <4>1 DEF PeersAgree, Installed
    <3> QED BY <2>1, <2>2, <3>1, <3>3 DEF PeersKnown, Installing, InstallSteps
  <2>3. ASSUME NEW q \in Profiles, NEW net \in Nets \cup {None}, NEW window \in BOOLEAN, NEW supervise \in BOOLEAN,
               BeginInstall(q, window, net, supervise)
        PROVE  PeersKnown'
    <3>1. run'.profile = q /\ at' = "key" /\ UNCHANGED <<config, pub, peers, refused, cut>>
      <4>1. PICK s \in Settings : run' = [profile |-> q, window |-> window, s |-> s, key |-> None]
        BY <2>3, InstallFacts
      <4> QED BY <2>3, <4>1 DEF BeginInstall, Starts
    <3> QED BY <2>2, <3>1
  <2>4. ASSUME NEW q \in Profiles, NEW privileged \in BOOLEAN, NEW deletes \in SUBSET {"keys", "stack"},
               BeginUninstall(q, privileged, deletes)
        PROVE  PeersKnown'
    BY <2>2, <2>4 DEF BeginUninstall
  <2>5. ASSUME NEW q \in Profiles, NEW net \in Nets \cup {None}, NEW supervise \in BOOLEAN, ProfileSave(q, net, supervise)
        PROVE  PeersKnown'
    <3>1. at' = "idle" /\ UNCHANGED <<config, pub, peers, refused, cut>>
      BY <2>5 DEF ProfileSave
    <3> QED BY <2>2, <3>1
  <2>6. CASE Kill \/ Reboot
    <3>1. at' = "idle" /\ UNCHANGED <<config, pub, peers, refused, cut>>
      BY <1>2, <2>6 DEF Kill, Reboot
    <3> QED BY <2>2, <3>1
  <2>7. ASSUME NEW q \in Profiles, DeletePublicKey(q) PROVE PeersKnown'
    <3>1. /\ at' = "idle" /\ UNCHANGED <<config, peers, cut>> /\ q \in cut /\ refused' \subseteq cut
          /\ \A r \in Profiles \ {q} : pub'[r] = pub[r]
      BY <2>1, <2>7 DEF DeletePublicKey, SetupTypeOK
    <3>2. \A r \in Profiles \ cut' : PeersAgree(r)'
      BY <2>1, <3>1 DEF PeersAgree
    <3> QED BY <3>1, <3>2 DEF PeersKnown
  <2>8. ASSUME EnsureClientKey \/ Register \/ SaveProfileSettings \/ CheckKey \/ WriteSudoers \/ WritePrivateKey
               \/ SetSupervisor \/ WriteAppConfig \/ Verify
        PROVE  FALSE
    BY <1>2, <2>8 DEF EnsureClientKey, Register, SaveProfileSettings, CheckKey, WriteSudoers, WritePrivateKey, SetSupervisor, SetsSupervisor,
       WriteAppConfig, Verify
  <2>9. ASSUME TakeDown \/ Withdraw \/ RewriteSudoers \/ RemoveProfile \/ DeleteKeys \/ RestartSupervisor \/ DeleteStack
        PROVE  FALSE
    BY <1>2, <2>9 DEF TakeDown, Withdraw, RewriteSudoers, RemoveProfile, DeleteKeys, RestartSupervisor, DeleteStack
  <2> QED BY <2>3, <2>4, <2>5, <2>6, <2>7, <2>8, <2>9 DEF Next
<1> QED BY <1>1, <1>2

-----------------------------------------------------------------------------
\* What no command does to the profiles it is not about.

KeepsOthers ==
  at # "idle" /\ ~Reboot /\ faults <= 1 /\ (at = "down" => run.tunnel.iface = run.iface) =>
    \A q \in Others(run.profile) :
      LET i == SettingsOf(q).iface IN
      /\ keyFile'[i] = keyFile[i]
      /\ conf'[i] = conf[i]
      /\ i \in granted => i \in granted'
      /\ i \in up => i \in up'

LEMMA StepKeepsOthers ==
  ASSUME SetupTypeOK, InstallKnows, UninstallKnows, OwnInterface, Next
  PROVE  KeepsOthers
<1> SUFFICES ASSUME at # "idle", ~Reboot, faults <= 1, at = "down" => run.tunnel.iface = run.iface,
                    NEW q \in Others(run.profile), NEW i, i = SettingsOf(q).iface
             PROVE  /\ keyFile'[i] = keyFile[i] /\ conf'[i] = conf[i]
                    /\ i \in granted => i \in granted'
                    /\ i \in up => i \in up'
  BY DEF KeepsOthers
<1> USE DEF files, root, history, Goes, Proceeds, Ends, Fault, WritesRule, RemovesSupervisor
<1>0. i \in Interfaces /\ i \in TakenInterfaces(run.profile)
  <2>1. q \in ListProfiles
    BY DEF Others
  <2> QED BY <2>1, SettingsType DEF TakenInterfaces, Settings
<1>1. ASSUME EnsureClientKey \/ Register \/ SaveProfileSettings \/ SetSupervisor \/ WriteAppConfig \/ Withdraw
             \/ RemoveProfile \/ RestartSupervisor \/ DeleteStack \/ Kill
      PROVE  UNCHANGED <<keyFile, conf, granted, up>>
  BY <1>1 DEF EnsureClientKey, UsesKey, Generates, Register, SaveProfileSettings, SetSupervisor, SetsSupervisor, WriteAppConfig, Withdraw,
     RemoveProfile, RestartSupervisor, DeleteStack, Kill
<1>2. ASSUME CheckKey \/ WritePrivateKey
      PROVE  keyFile'[i] = keyFile[i] /\ conf'[i] = conf[i] /\ UNCHANGED <<granted, up>>
  <2>1. run.s.iface \in Interfaces /\ i # run.s.iface
    BY <1>0, <1>2, InstallTypes DEF CheckKey, WritePrivateKey, InstallSteps, InstallKnows, Installing
  <2>2. CASE CheckKey
    BY <1>0, <2>1, <2>2 DEF CheckKey, SetupTypeOK
  <2>3. CASE WritePrivateKey
    BY <1>0, <2>1, <2>3 DEF WritePrivateKey, SetupTypeOK
  <2> QED BY <1>2, <2>2, <2>3
<1>3. ASSUME WriteSudoers
      PROVE  UNCHANGED <<keyFile, conf, up>> /\ i \in granted'
  BY <1>3 DEF WriteSudoers, Granted, Everyone
<1>4. ASSUME Verify
      PROVE  UNCHANGED <<keyFile, conf, granted>> /\ (i \in up => i \in up')
  BY <1>4 DEF Verify
<1>5. ASSUME TakeDown
      PROVE  UNCHANGED <<keyFile, conf, granted>> /\ (i \in up => i \in up')
  <2>1. run.tunnel.iface # i
    BY <1>0, <1>5 DEF TakeDown, OwnInterface, Uninstalling, UninstallSteps
  <2> QED BY <1>5, <2>1 DEF TakeDown
<1>6. ASSUME RewriteSudoers
      PROVE  UNCHANGED <<keyFile, conf, up>> /\ (i \in granted => i \in granted')
  <2>1. run.remaining = {SettingsOf(r) : r \in Others(run.profile)}
    BY <1>6 DEF RewriteSudoers, UninstallKnows, Uninstalling, UninstallSteps
  <2> QED BY <1>6, <2>1 DEF RewriteSudoers, Granted
<1>7. ASSUME DeleteKeys
      PROVE  keyFile'[i] = keyFile[i] /\ conf'[i] = conf[i] /\ UNCHANGED <<granted, up>>
  <2>1. run.iface \in Interfaces /\ run.iface # i
    BY <1>0, <1>7, UninstallTypes DEF DeleteKeys, OwnInterface, Uninstalling, UninstallSteps
  <2> QED BY <1>0, <1>7, <2>1 DEF DeleteKeys, SetupTypeOK
<1>8. ASSUME NEW p \in Profiles, NEW net \in Nets \cup {None}, NEW window \in BOOLEAN, NEW supervise \in BOOLEAN,
             BeginInstall(p, window, net, supervise)
      PROVE  FALSE
  BY <1>8 DEF BeginInstall, Starts
<1>9. ASSUME NEW p \in Profiles, NEW net \in Nets \cup {None}, NEW supervise \in BOOLEAN, ProfileSave(p, net, supervise)
      PROVE  FALSE
  BY <1>9 DEF ProfileSave
<1>10. ASSUME NEW p \in Profiles, NEW privileged \in BOOLEAN, NEW deletes \in SUBSET {"keys", "stack"},
              BeginUninstall(p, privileged, deletes)
       PROVE  FALSE
  BY <1>10 DEF BeginUninstall
<1>11. ASSUME NEW p \in Profiles, DeletePublicKey(p) PROVE FALSE
  BY <1>11 DEF DeletePublicKey
<1> QED BY <1>1, <1>2, <1>3, <1>4, <1>5, <1>6, <1>7, <1>8, <1>9, <1>10, <1>11 DEF Next

-----------------------------------------------------------------------------
\* The invariant, and what follows from it.

CommandInv ==
  /\ SetupTypeOK /\ HasKey
  /\ InstalledHasSettings /\ InstallKnows /\ UninstallKnows

SharedInv ==
  /\ GrantsAreNamed /\ InstalledIsGranted
  /\ FilesAgree /\ DistinctInterfaces /\ OwnInterface
  /\ DaemonFollows
  /\ KeyKnown /\ KeyMatches /\ PeersKnown

LEMMA InitInv == Init => CommandInv /\ SharedInv
<1> SUFFICES ASSUME Init PROVE CommandInv /\ SharedInv
  OBVIOUS
<1>1. SetupTypeOK /\ at = "idle" /\ at \notin InstallSteps /\ at \notin UninstallSteps
  BY InitTypes DEF Init, InstallSteps, UninstallSteps
<1>2. CommandInv
  BY <1>1 DEF Init, CommandInv, HasKey, InstalledHasSettings, InstallKnows, UninstallKnows, Installing, Uninstalling
<1>3. ListProfiles = {} /\ granted = {} /\ daemon = FALSE /\ \A p \in Profiles : config[p] = None
  BY DEF Init, ListProfiles
<1>4. GrantsAreNamed /\ InstalledIsGranted /\ DaemonFollows /\ KeyMatches
  BY <1>3 DEF GrantsAreNamed, InstalledIsGranted, DaemonFollows, AnySupervised, KeyMatches
<1>5. DistinctInterfaces
  BY <1>3, DistinctMeans
<1>6. FilesAgree /\ OwnInterface /\ KeyKnown
  BY <1>1, <1>3 DEF FilesAgree, OwnInterface, KeyKnown, Installing, Uninstalling
<1>7. PeersKnown
  BY <1>1 DEF Init, PeersKnown, PeersAgree
<1> QED BY <1>2, <1>4, <1>5, <1>6, <1>7 DEF SharedInv

LEMMA StepInv == CommandInv /\ SharedInv /\ Next => (CommandInv /\ SharedInv)'
<1> SUFFICES ASSUME CommandInv, SharedInv, Next PROVE CommandInv' /\ SharedInv'
  OBVIOUS
<1> USE DEF CommandInv, SharedInv
<1>1. CommandInv'
  BY StepTypes, StepHasKey, StepInstalledHasSettings, StepInstallKnows, StepUninstallKnows
<1>2. GrantsAreNamed' /\ InstalledIsGranted'
  BY StepGrantsAreNamed, StepInstalledIsGranted
<1>3. FilesAgree' /\ DistinctInterfaces' /\ OwnInterface'
  BY StepFilesAgree, StepDistinctInterfaces, StepOwnInterface
<1>4. DaemonFollows' /\ KeyKnown' /\ KeyMatches' /\ PeersKnown'
  BY StepDaemonFollows, StepKeyKnown, StepKeyMatches, StepPeersKnown
<1> QED BY <1>1, <1>2, <1>3, <1>4

LEMMA StutterInv == CommandInv /\ SharedInv /\ UNCHANGED setupVars => (CommandInv /\ SharedInv)'
<1> SUFFICES ASSUME CommandInv, SharedInv, UNCHANGED setupVars PROVE CommandInv' /\ SharedInv'
  OBVIOUS
<1> USE DEF CommandInv, SharedInv, setupVars, files, root, history
<1>1. SetupTypeOK' /\ HasKey'
  BY StutterKeepsTypes
<1>2. /\ ListProfiles' = ListProfiles /\ NamedInterfaces' = NamedInterfaces
      /\ \A p \in Profiles : SettingsOf(p)' = SettingsOf(p)
      /\ \A p \in Profiles : Others(p)' = Others(p)
      /\ \A p \in Profiles : TakenInterfaces(p)' = TakenInterfaces(p)
  BY SameFiles
<1>3. InstalledHasSettings' /\ InstalledIsGranted' /\ GrantsAreNamed' /\ FilesAgree' /\ KeyKnown' /\ KeyMatches'
  BY <1>2 DEF InstalledHasSettings, InstalledIsGranted, GrantsAreNamed, FilesAgree, KeyKnown, KeyMatches, Installing
<1>4. DistinctInterfaces' /\ DaemonFollows'
  <2>1. DistinctInterfaces'
    BY DEF DistinctInterfaces, SettingsOf
  <2>2. DaemonFollows'
    <3>1. {SettingsOf(p) : p \in ListProfiles}' = {SettingsOf(p) : p \in ListProfiles}
      BY DEF ListProfiles, SettingsOf
    <3> QED BY <3>1 DEF DaemonFollows, AnySupervised
  <2> QED BY <2>1, <2>2
<1>5. at # "idle" => OthersStay
  BY ProfileOfRun DEF OthersStay
<1>6. InstallKnows' /\ UninstallKnows' /\ OwnInterface'
  <2>1. CASE at = "idle"
    BY <2>1 DEF InstallKnows, UninstallKnows, OwnInterface, Installing, Uninstalling, InstallSteps, UninstallSteps
  <2>2. CASE at # "idle"
    <3>1. /\ TakenInterfaces(run.profile)' = TakenInterfaces(run.profile)
          /\ Everyone(run.profile, run.s)' = Everyone(run.profile, run.s)
          /\ {SettingsOf(q) : q \in Others(run.profile)}' = {SettingsOf(q) : q \in Others(run.profile)}
      BY <1>5, <2>2, EveryoneStays
    <3> QED BY <3>1 DEF InstallKnows, UninstallKnows, OwnInterface, Installing, Uninstalling
  <2> QED BY <2>1, <2>2
<1>7. PeersKnown'
  BY DEF PeersKnown, PeersAgree, Installed, Installing
<1> QED BY <1>1, <1>3, <1>4, <1>6, <1>7

LEMMA Invariance == Spec => [](CommandInv /\ SharedInv)
<1>1. CommandInv /\ SharedInv /\ [Next]_setupVars => (CommandInv /\ SharedInv)'
  BY StepInv, StutterInv
<1> QED BY <1>1, InitInv, PTL DEF Spec

\* The sudoers rule names every installed profile's interface at every moment,
\* and between commands no interface but those profiles have
\* (internal/setup/install.go:334), from one rule that was written to the next
\* that could not be (uninstall.go:176).
THEOREM GrantsExact == Spec => []GrantsAreExact
<1>1. CommandInv /\ SharedInv => GrantsAreExact
  BY DEF SharedInv, GrantsAreExact, InstalledIsGranted, GrantsAreNamed
<1> QED BY <1>1, Invariance, PTL

\* No two profiles have one interface, drafts and half-removed ones included,
\* until a second fault (internal/setup/profiles.go:218).
THEOREM InterfacesDistinct == Spec => []DistinctInterfaces
<1>1. CommandInv /\ SharedInv => DistinctInterfaces
  BY DEF SharedInv
<1> QED BY <1>1, Invariance, PTL

\* Between commands the daemon is installed just if a profile is supervised
\* (internal/setup/uninstall.go:117), unless the last command that set it could
\* not remove it (supervise.go:418) or put it back.
THEOREM DaemonIsRight == Spec => []DaemonFollows
<1>1. CommandInv /\ SharedInv => DaemonFollows
  BY DEF SharedInv
<1> QED BY <1>1, Invariance, PTL

\* The gateway of an installed profile trusts the key on disk
\* (internal/setup/install.go:48), unless a deployment could not read it, had
\* another recorded, or wrote one over it that was left staged.
THEOREM KeysMatch == Spec => []KeyMatches
<1>1. CommandInv /\ SharedInv => KeyMatches
  BY DEF SharedInv
<1> QED BY <1>1, Invariance, PTL

\* A profile whose removal came to its end has left no peer of this Mac with
\* its gateway (internal/setup/uninstall.go:72).
THEOREM LeavesNothing == Spec => []LeavesNoPeer
<1>1. CommandInv /\ SharedInv => LeavesNoPeer
  BY DEF SharedInv, PeersKnown, PeersAgree, LeavesNoPeer, ListProfiles
<1> QED BY <1>1, Invariance, PTL

\* No command touches the key, the configuration, the grant or the tunnel of
\* another profile's interface, until a second fault.
THEOREM OthersAreKept == Spec => OthersKept
<1>1. CommandInv /\ SharedInv /\ [Next]_setupVars => [KeepsOthers]_setupVars
  BY StepKeepsOthers DEF CommandInv, SharedInv
<1>2. Spec => [][KeepsOthers]_setupVars
  BY <1>1, Invariance, PTL DEF Spec
<1> QED BY <1>2 DEF OthersKept, KeepsOthers


-----------------------------------------------------------------------------
\* NetworkPlan: ranges and addresses.

\* The sizes of ranges are powers of two: the shorter prefix's is a multiple.
LEMMA Sizes ==
  ASSUME NEW p \in 0 .. AddressBits, NEW q \in p .. AddressBits
  PROVE  /\ Size(p) \in Nat \ {0} /\ Size(q) \in Nat \ {0}
         /\ \E k \in Nat \ {0} : Size(p) = Size(q) * k
<1>1. AddressBits \in Nat
  BY NetworkPlanAssumption
<1>2. /\ AddressBits - p \in Nat /\ AddressBits - p \in 0 .. AddressBits - p
      /\ AddressBits - q \in Nat /\ AddressBits - q \in 0 .. AddressBits - p
  BY <1>1
<1>3. Size(p) = Pow2(AddressBits - p) /\ Size(q) = Pow2(AddressBits - q)
  BY Zenon DEF Size, Pow2
<1> QED
  BY <1>2, <1>3, PowersDivide

\* A range has an address of its own in it, at its start.
LEMMA CidrIs ==
  ASSUME NEW c \in Cidrs
  PROVE  /\ c.prefix \in 0 .. AddressBits /\ Size(c.prefix) \in Nat \ {0}
         /\ c.base \in Addresses /\ c.base \in Nat /\ c.base % Size(c.prefix) = 0
         /\ Holds(c, c.base)
<1>1. PICK a \in Addresses, p \in 0 .. AddressBits : c = Cidr(a, p)
  BY DEF Cidrs
<1>2. Size(p) \in Nat \ {0} /\ p \in p .. AddressBits
  BY Sizes, NetworkPlanAssumption
<1>3. c.prefix = p /\ c.base = a - (a % Size(p))
  BY <1>1 DEF Cidr
<1> DEFINE top == 2 ^ AddressBits - 1
<1>4. Addresses = 0 .. top
  BY Zenon DEF Addresses
<1>5. top \in Int
  BY NetworkPlanAssumption, PowersOfTwo
<1> HIDE DEF top
<1>6. a \in Nat
  BY <1>4, <1>5
<1>7. a % Size(p) \in 0 .. a
  <2> DEFINE n == Size(p)
  <2>1. n \in Nat \ {0}
    BY <1>2
  <2> HIDE DEF n
  <2>2. a % n \in 0 .. a
    BY <1>6, <2>1
  <2> QED
    BY <2>2 DEF n
<1>8. (a - (a % Size(p))) % Size(p) = 0
  <2> DEFINE n == Size(p)
  <2>1. n \in Nat \ {0}
    BY <1>2
  <2> HIDE DEF n
  <2>2. (a - (a % n)) % n = 0
    BY <1>6, <2>1
  <2> QED
    BY <2>2 DEF n
<1>9. c.base \in Addresses /\ c.base \in Nat
  BY <1>3, <1>4, <1>5, <1>6, <1>7
<1> QED
  BY <1>2, <1>3, <1>8, <1>9 DEF Holds

\* Where an address is in a range, so is it in every greater range that has
\* a part of it.
LEMMA Nested ==
  ASSUME NEW outer \in Cidrs, NEW inner \in Cidrs, outer.prefix <= inner.prefix,
         NEW a \in Nat, Holds(outer, a), Holds(inner, a)
  PROVE  Holds(outer, inner.base)
<1> DEFINE n == Size(inner.prefix)
<1>1. PICK k \in Nat \ {0} : Size(outer.prefix) = n * k
  BY CidrIs, Sizes, NetworkPlanAssumption
<1>2. n \in Nat \ {0} /\ outer.base \in Nat /\ inner.base \in Nat
  BY CidrIs
<1>3. a \div (n * k) = outer.base \div (n * k) /\ a \div n = inner.base \div n
  BY <1>1 DEF Holds
<1> HIDE DEF n
<1>4. inner.base \div (n * k) = (inner.base \div n) \div k /\ a \div (n * k) = (a \div n) \div k
  BY <1>2
<1>5. inner.base \div (n * k) = outer.base \div (n * k)
  BY <1>3, <1>4
<1> QED
  BY <1>1, <1>5 DEF Holds

\* Two ranges overlap just if they share an address.
LEMMA OverlapShares == OverlapIsSharing
<1> SUFFICES ASSUME NEW left \in Cidrs, NEW right \in Cidrs
             PROVE  Overlaps(left, right) <=> \E a \in Addresses : Holds(left, a) /\ Holds(right, a)
  BY DEF OverlapIsSharing
<1>1. ASSUME Overlaps(left, right) PROVE \E a \in Addresses : Holds(left, a) /\ Holds(right, a)
  BY <1>1, CidrIs DEF Overlaps
<1>2. ASSUME NEW a \in Addresses, Holds(left, a), Holds(right, a) PROVE Overlaps(left, right)
  <2>1. a \in Nat
    <3> DEFINE top == 2 ^ AddressBits - 1
    <3>1. Addresses = 0 .. top
      BY Zenon DEF Addresses
    <3> HIDE DEF top
    <3> QED
      BY <3>1
  <2>2. left.prefix \in Int /\ right.prefix \in Int
    BY CidrIs
  <2> QED
    BY <1>2, <2>1, <2>2, Nested DEF Overlaps
<1> QED
  BY <1>1, <1>2

\* A network is masked to the range of the addresses with its prefix.
LEMMA MaskedIs ==
  ASSUME NEW address \in Addresses, NEW prefix \in 0 .. AddressBits
  PROVE  LET c == Cidr(address, prefix) IN
         c \in Cidrs /\ c.prefix = prefix /\ \A a : Holds(c, a) <=> a \div Size(prefix) = address \div Size(prefix)
<1> DEFINE c == Cidr(address, prefix)
           n == Size(prefix)
<1>1. c \in Cidrs /\ c.prefix = prefix /\ c.base = address - (address % n)
  BY DEF Cidr, Cidrs
<1>2. n \in Nat \ {0} /\ address \in Nat
  <2>1. n \in Nat \ {0} /\ prefix \in prefix .. AddressBits
    BY Sizes, NetworkPlanAssumption
  <2> DEFINE top == 2 ^ AddressBits - 1
  <2>2. Addresses = 0 .. top
    BY Zenon DEF Addresses
  <2> HIDE DEF top
  <2> QED
    BY <2>1, <2>2
<1>3. c.base \div n = address \div n
  <2> HIDE DEF n
  <2>1. (address - (address % n)) \div n = address \div n
    BY <1>2
  <2> QED
    BY <1>1, <2>1
<1> HIDE DEF c
<1>4. \A a : Holds(c, a) <=> a \div n = address \div n
  BY <1>1, <1>3 DEF Holds
<1> QED
  BY <1>1, <1>4 DEF c

\* A claim is refused just if it takes something.
LEMMA CollidesRight == CollisionsAreReal
<1> SUFFICES ASSUME NEW claim \in Cidrs, NEW on \in Attachments
             PROVE  Collisions({claim}, LocalNetworks({on})) # {} <=>
                      /\ on.up /\ ~on.loopback /\ ~on.ours
                      /\ \E a \in Addresses : Holds(claim, a) /\ a \div Size(on.prefix) = on.address \div Size(on.prefix)
  BY DEF CollisionsAreReal
<1> DEFINE network == Cidr(on.address, on.prefix)
           counts == on.up /\ ~on.loopback /\ ~on.ours
<1>1. on.address \in Addresses /\ on.prefix \in 0 .. AddressBits
  BY DEF Attachments
<1>2. network \in Cidrs /\ \A a : Holds(network, a) <=> a \div Size(on.prefix) = on.address \div Size(on.prefix)
  BY <1>1, MaskedIs
<1>3. LocalNetworks({on}) = IF counts THEN {network} ELSE {}
  BY DEF LocalNetworks
<1> HIDE DEF network, counts
<1>4. Collisions({claim}, LocalNetworks({on})) # {} <=> counts /\ Overlaps(claim, network)
  BY <1>3 DEF Collisions
<1>5. Overlaps(claim, network) <=> \E a \in Addresses : Holds(claim, a) /\ Holds(network, a)
  BY <1>2, OverlapShares DEF OverlapIsSharing
<1> QED
  BY <1>2, <1>4, <1>5 DEF counts

\* The first four addresses of a subnet of four or more are in one byte.
LEMMA NthIs ==
  ASSUME NEW next \in Roomy, NEW offset \in 0 .. 3
  PROVE  /\ Nth(next, offset) = next.base + offset
         /\ Holds(next, Nth(next, offset))
<1> DEFINE n == Size(next.prefix)
           byte == 2 ^ ByteBits
           b == next.base
<1>1. n \in Nat \ {0} /\ n >= 4 /\ b \in Nat /\ b % n = 0
  BY CidrIs DEF Roomy
<1>2. byte = Size(AddressBits - ByteBits) /\ AddressBits - ByteBits \in 0 .. AddressBits
  <2>1. AddressBits - (AddressBits - ByteBits) = ByteBits
    BY NetworkPlanAssumption
  <2>2. AddressBits - ByteBits \in 0 .. AddressBits
    BY NetworkPlanAssumption
  <2> QED
    BY <2>1, <2>2, Zenon DEF Size
<1>3. byte \in Nat \ {0} /\ byte >= 4
  <2>1. PICK k \in Nat \ {0} : Pow2(ByteBits) = Pow2(2) * k
    BY PowersDivide, NetworkPlanAssumption
  <2>2. Pow2(2) = 4
    <3>1. Pow2(2) = 2 * Pow2(1) /\ Pow2(1) = 2 * Pow2(0) /\ Pow2(0) = 1
      <4>1. 2 ^ (1 + 1) = 2 * 2 ^ 1 /\ 2 ^ (0 + 1) = 2 * 2 ^ 0
        BY PowersOfTwo
      <4>2. 1 + 1 = 2 /\ 0 + 1 = 1
        OBVIOUS
      <4>3. 2 ^ 0 = 1
        OBVIOUS
      <4> QED
        BY <4>1, <4>2, <4>3, Zenon DEF Pow2
    <3> QED
      BY <3>1
  <2>3. byte = Pow2(ByteBits)
    BY Zenon DEF Pow2
  <2> HIDE DEF byte
  <2> QED
    BY <2>1, <2>2, <2>3
<1>4. Nth(next, offset) = b - (b % byte) + ((b + offset) % byte)
  BY Zenon DEF Nth
<1>5. Holds(next, b + offset)
  <2> HIDE DEF n, b
  <2>1. (b + offset) \div n = b \div n
    BY <1>1
  <2> QED
    BY <2>1 DEF Holds, n, b
<1>6. (\E k \in Nat \ {0} : n = byte * k) \/ (\E k \in Nat \ {0} : byte = n * k)
  <2>1. next.prefix \in 0 .. AddressBits
    BY CidrIs DEF Roomy
  <2> DEFINE q == AddressBits - ByteBits
  <2>2. q \in 0 .. AddressBits
    BY <1>2
  <2> HIDE DEF byte, q
  <2>3. CASE next.prefix <= q
    BY <2>1, <2>2, <2>3, <1>2, Sizes DEF q
  <2>4. CASE q <= next.prefix
    BY <2>1, <2>2, <2>4, <1>2, Sizes DEF q
  <2> QED
    BY <2>1, <2>2, <2>3, <2>4
<1> HIDE DEF n, byte, b
<1>7. (b % byte) + offset = (b + offset) % byte
  <2>0. PICK q \in Nat : b = n * q
    <3>1. b \div n \in Nat /\ b = n * (b \div n) + (b % n)
      BY <1>1, Quotient
    <3> DEFINE q == b \div n
    <3>2. q \in Nat /\ b = n * q + 0
      BY <1>1, <3>1
    <3> HIDE DEF q
    <3> QED
      BY <1>1, <3>2
  <2>1. CASE \E k \in Nat \ {0} : n = byte * k
    <3>1. PICK k \in Nat \ {0} : n = byte * k
      BY <2>1
    <3>2. k * q \in Nat /\ b = byte * (k * q) + 0 /\ b + offset = byte * (k * q) + offset
      BY <1>3, <2>0, <3>1
    <3>3. 0 \in 0 .. byte - 1 /\ offset \in 0 .. byte - 1
      BY <1>3
    <3>4. b % byte = 0 /\ (b + offset) % byte = offset
      BY <1>3, <3>2, <3>3, Remainder
    <3> QED
      BY <3>4
  <2>2. CASE \E k \in Nat \ {0} : byte = n * k
    <3>1. PICK k \in Nat \ {0} : byte = n * k
      BY <2>2
    <3>2. PICK x \in Nat, y \in 0 .. k - 1 : q = k * x + y
      BY Quotient
    <3>3. n * y \in Nat /\ n * y + n <= byte
      <4>1. n * (k - (y + 1)) >= 0
        BY <1>1, <3>2
      <4> QED
        BY <1>1, <3>1, <3>2, <4>1
    <3>4. b = byte * x + n * y /\ b + offset = byte * x + (n * y + offset)
      BY <1>1, <2>0, <3>1, <3>2
    <3>5. n * y \in 0 .. byte - 1 /\ n * y + offset \in 0 .. byte - 1
      BY <1>1, <1>3, <3>3
    <3>6. b % byte = n * y /\ (b + offset) % byte = n * y + offset
      BY <1>3, <3>4, <3>5, Remainder
    <3> QED
      BY <3>6
  <2> QED
    BY <1>6, <2>1, <2>2
<1>8. Nth(next, offset) = b + offset
  BY <1>1, <1>3, <1>4, <1>7
<1> QED
  BY <1>5, <1>8 DEF b

\* The addresses follow the range.
LEMMA FollowsAlign == AlignFollows
<1> SUFFICES ASSUME NEW s \in Deployments, NEW next \in Roomy
             PROVE  LET moved == Align([s EXCEPT !.subnet = next]) IN
                    /\ AddressesValid(moved) \/ s.client = Nth(next, 1) \/ s.gateway = Nth(next, 2)
                    /\ Holds(next, s.client) => moved.client = s.client
  BY DEF AlignFollows
<1> DEFINE moved == Align([s EXCEPT !.subnet = next])
<1>1. s \in [subnet : Roomy, client : Addresses, gateway : Addresses] /\ s.client # s.gateway
  BY DEF Deployments, AddressesValid
<1>2. /\ moved.subnet = next
      /\ moved.gateway = IF Holds(next, s.gateway) THEN s.gateway ELSE Nth(next, 1)
      /\ moved.client = IF Holds(next, s.client) THEN s.client ELSE Nth(next, 2)
  BY <1>1 DEF Align
<1>3. Holds(next, Nth(next, 1)) /\ Holds(next, Nth(next, 2)) /\ Nth(next, 1) # Nth(next, 2)
  <2>1. next.base \in Nat
    BY CidrIs DEF Roomy
  <2> QED
    BY <2>1, NthIs
<1> HIDE DEF moved
<1>4. AddressesValid(moved) \/ s.client = Nth(next, 1) \/ s.gateway = Nth(next, 2)
  BY <1>1, <1>2, <1>3 DEF AddressesValid
<1> QED
  BY <1>2, <1>4 DEF moved

\* Whatever the width of an address, a claim is refused just if it would take
\* an address of a local network away (internal/tunnel/collisions.go:92), and
\* the tunnel's addresses follow its range (settings.go:274).
THEOREM AddressesFollow == Spec => []AddressesWork
<1>1. AddressesWork
  BY OverlapShares, CollidesRight, FollowsAlign DEF AddressesWork
<1> QED
  BY <1>1, PTL

-----------------------------------------------------------------------------
\* NetworkPlan: what is found in the account, and the ports.

\* What is known of a network while its subnets are gone through.
Networks == [zones : [Zones -> Subnets \cup {0}], tables : [Zones -> Tables \cup {0}]]

\* One more subnet keeps it well typed.
LEMMA PickType ==
  ASSUME NEW vpc \in Vpcs, NEW subnet \in Subnets, NEW network \in Networks
  PROVE  Pick(vpc, subnet, network) \in Networks
<1>1. Governing(vpc, subnet) \in Tables /\ vpc.zone[subnet] \in Zones
  BY NetworkPlanAssumption DEF Governing, Vpcs
<1> QED
  BY <1>1 DEF Networks, Pick

\* The subnets are gone through one by one.
LEMMA DiscoverSteps ==
  ASSUME NEW vpc \in Vpcs, NEW n \in Nat, NEW listed \in [1 .. n -> Subnets]
  PROVE  \E found \in [0 .. n -> Networks] :
           /\ found[0] = Nowhere
           /\ \A i \in 1 .. n : found[i] = Pick(vpc, listed[i], found[i - 1])
           /\ DiscoverNetwork(vpc, listed) = found[n]
<1> DEFINE Body(f) == [s \in SUBSET (1 .. n) |->
              IF s = {} THEN Nowhere ELSE Pick(vpc, listed[Max(s)], f[s \ {Max(s)}])]
           fold == CHOOSE f : f = Body(f)
           step == [i \in 1 .. n |-> [network \in Networks |-> Pick(vpc, listed[i], network)]]
<1>1. DiscoverNetwork(vpc, listed) = fold[1 .. n]
  <2>1. DOMAIN listed = 1 .. n
    OBVIOUS
  <2> QED
    BY <2>1 DEF DiscoverNetwork, FoldLeft, MapThenFoldSet
<1>2. AreSteps(step, n, Networks)
  BY PickType DEF AreSteps
<1>3. Nowhere \in Networks
  BY DEF Nowhere, Networks
<1>4. PICK g : IsFold(g, n, Networks, Nowhere, step)
  <2> HIDE DEF step
  <2> QED
    BY <1>2, <1>3, FoldExists
<1>5. g = Body(g)
  <2>1. ASSUME NEW T \in SUBSET (1 .. n), T # {}
        PROVE  g[T] = Pick(vpc, listed[Max(T)], g[T \ {Max(T)}])
    <3>1. Max(T) \in 1 .. n
      BY <2>1, Greatest
    <3>2. g[T \ {Max(T)}] \in Networks /\ g[T] = step[Max(T)][g[T \ {Max(T)}]]
      BY <1>4, <2>1 DEF IsFold
    <3> QED
      BY <3>1, <3>2
  <2> QED
    BY <1>4, <2>1 DEF IsFold
<1>6. fold = Body(fold)
  BY <1>5
<1> HIDE DEF fold
<1>7. fold[{}] = Nowhere
  BY <1>6
<1>8. ASSUME NEW T \in SUBSET (1 .. n), T # {}, fold[T \ {Max(T)}] \in Networks
      PROVE  fold[T] = step[Max(T)][fold[T \ {Max(T)}]]
  <2>1. Max(T) \in 1 .. n
    BY <1>8, Greatest
  <2>2. fold[T] = Pick(vpc, listed[Max(T)], fold[T \ {Max(T)}])
    BY <1>6, <1>8
  <2> QED
    BY <1>8, <2>1, <2>2
<1>9. PICK found : IsRun(found, n, Networks, Nowhere, step) /\ found[n] = fold[1 .. n]
  <2>1. Recurs(fold, n, Networks, Nowhere, step)
    BY <1>7, <1>8 DEF Recurs
  <2> HIDE DEF step
  <2> QED
    BY <1>2, <1>3, <2>1, FoldRuns
<1>10. ASSUME NEW i \in 1 .. n PROVE found[i] = Pick(vpc, listed[i], found[i - 1])
  BY <1>9, i - 1 \in 0 .. n DEF IsRun
<1> QED
  BY <1>1, <1>9, <1>10 DEF IsRun

\* Every zone gets its public subnet with the lowest id, and its table.
LEMMA DiscoveryStable == DiscoveryIsStable
<1> SUFFICES ASSUME NEW vpc \in Vpcs, NEW listed \in SetToSeqs(Subnets), NEW zone \in Zones
             PROVE  LET network == DiscoverNetwork(vpc, listed)
                        public == {s \in Subnets : vpc.zone[s] = zone /\ Governing(vpc, s) \in vpc.igw}
                    IN  IF public = {} THEN network.zones[zone] = 0
                        ELSE /\ network.zones[zone] = Min(public)
                             /\ network.tables[zone] = Governing(vpc, Min(public))
  BY DEF DiscoveryIsStable
<1> DEFINE n == Cardinality(Subnets)
           public == {s \in Subnets : vpc.zone[s] = zone /\ Governing(vpc, s) \in vpc.igw}
           Seen(i) == {s \in public : \E k \in 1 .. i : listed[k] = s}
           Right(network, i) ==
             IF Seen(i) = {} THEN network.zones[zone] = 0
             ELSE /\ network.zones[zone] \in Seen(i)
                  /\ \A s \in Seen(i) : network.zones[zone] <= s
                  /\ network.tables[zone] = Governing(vpc, network.zones[zone])
<1>1. n \in Nat /\ listed \in [1 .. n -> Subnets]
  BY NetworkPlanAssumption, FS_CardinalityType DEF SetToSeqs
<1>2. Seen(n) = public
  <2>1. listed \in Injection(1 .. n, Subnets)
    BY <1>1 DEF SetToSeqs, Injection, IsInjective
  <2>2. Cardinality(1 .. n) = n
    BY <1>1, FS_Interval
  <2>3. listed \in Surjection(1 .. n, Subnets)
    BY <2>1, <2>2, NetworkPlanAssumption, FS_Injection
  <2> QED
    BY <2>3 DEF Surjection
<1>3. PICK found \in [0 .. n -> Networks] :
        /\ found[0] = Nowhere
        /\ \A i \in 1 .. n : found[i] = Pick(vpc, listed[i], found[i - 1])
        /\ DiscoverNetwork(vpc, listed) = found[n]
  <2> HIDE DEF n
  <2> QED
    BY <1>1, DiscoverSteps
<1> DEFINE G == {i \in 0 .. n : Right(found[i], i)}
<1>4. 0 \in G
  <2>1. Seen(0) = {}
    OBVIOUS
  <2> QED
    BY <1>1, <1>3, <2>1 DEF Nowhere
<1>5. ASSUME NEW i \in 1 .. n, i - 1 \in G PROVE i \in G
  <2> DEFINE subnet == listed[i]
             before == found[i - 1]
  <2>1. /\ subnet \in Subnets /\ subnet \in Nat \ {0} /\ vpc.zone[subnet] \in Zones
        /\ before \in Networks /\ Right(before, i - 1) /\ found[i] = Pick(vpc, subnet, before)
    BY <1>1, <1>3, <1>5, NetworkPlanAssumption DEF Vpcs
  <2>2. Seen(i) = IF subnet \in public THEN Seen(i - 1) \cup {subnet} ELSE Seen(i - 1)
    <3>1. \A k : k \in 1 .. i <=> (k \in 1 .. i - 1 \/ k = i)
      BY <1>1
    <3> QED
      BY <3>1, <2>1
  <2>3. Seen(i - 1) \subseteq Subnets /\ Subnets \subseteq Nat \ {0}
    BY NetworkPlanAssumption
  <2> HIDE DEF Seen
  <2>4. CASE subnet \notin public
    <3>1. found[i].zones[zone] = before.zones[zone] /\ found[i].tables[zone] = before.tables[zone]
      BY <2>1, <2>4 DEF Pick, Networks
    <3> QED
      BY <2>1, <2>2, <2>4, <3>1, <1>1
  <2>5. CASE subnet \in public
    <3>1. Governing(vpc, subnet) \in vpc.igw /\ vpc.zone[subnet] = zone
      BY <2>5
    <3>2. CASE before.zones[zone] # 0 /\ before.zones[zone] < subnet
      <4>1. found[i] = before
        BY <2>1, <3>1, <3>2 DEF Pick
      <4>2. /\ before.zones[zone] \in Seen(i - 1)
            /\ \A s \in Seen(i - 1) : before.zones[zone] <= s
            /\ before.tables[zone] = Governing(vpc, before.zones[zone])
        BY <2>1, <3>2
      <4>3. \A s \in Seen(i - 1) \cup {subnet} : before.zones[zone] <= s
        <5>1. before.zones[zone] \in Nat /\ before.zones[zone] <= subnet
          <6>1. before.zones[zone] \in Nat
            BY <2>3, <4>2
          <6>2. subnet \in Nat
            BY <2>1
          <6> HIDE DEF before, subnet
          <6> QED
            BY <3>2, <6>1, <6>2
        <5> QED
          BY <4>2, <5>1
      <4>4. Seen(i) = Seen(i - 1) \cup {subnet}
        BY <2>2, <2>5
      <4> QED
        BY <1>1, <4>1, <4>2, <4>3, <4>4
    <3>3. CASE ~ (before.zones[zone] # 0 /\ before.zones[zone] < subnet)
      <4>1. found[i].zones[zone] = subnet /\ found[i].tables[zone] = Governing(vpc, subnet)
        BY <2>1, <3>1, <3>3 DEF Pick, Networks
      <4>2. \A s \in Seen(i - 1) : subnet <= s
        <5> SUFFICES ASSUME NEW s \in Seen(i - 1) PROVE subnet <= s
          OBVIOUS
        <5>1. before.zones[zone] \in Seen(i - 1) /\ before.zones[zone] <= s
          BY <2>1
        <5>2. before.zones[zone] \in Nat \ {0} /\ s \in Nat
          BY <2>3, <5>1
        <5>3. subnet \in Nat
          BY <2>1
        <5> HIDE DEF before, subnet
        <5> QED
          BY <3>3, <5>1, <5>2, <5>3
      <4> QED
        BY <1>1, <2>1, <2>2, <2>5, <4>1, <4>2
    <3> QED
      BY <3>2, <3>3
  <2> QED
    BY <2>4, <2>5
<1>6. n \in G
  <2> HIDE DEF G
  <2> QED
    BY <1>1, <1>4, <1>5, IndexInduction, n \in 0 .. n
<1>7. Right(DiscoverNetwork(vpc, listed), n)
  BY <1>3, <1>6
<1>8. CASE public = {}
  BY <1>2, <1>7, <1>8
<1>9. CASE public # {}
  <2> DEFINE network == DiscoverNetwork(vpc, listed)
  <2>1. /\ network.zones[zone] \in public
        /\ \A s \in public : network.zones[zone] <= s
        /\ network.tables[zone] = Governing(vpc, network.zones[zone])
    BY <1>2, <1>7, <1>9
  <2>2. public \subseteq Nat
    BY NetworkPlanAssumption
  <2> HIDE DEF network, public
  <2>3. Min(public) = network.zones[zone]
    BY <2>1, <2>2, LeastIsMin
  <2> QED
    BY <1>9, <2>1, <2>3 DEF network, public
<1> QED
  BY <1>8, <1>9

\* A hosted zone and the name of the closest so far, of any length.
HostedZone == [name : Seq(Labels), private : BOOLEAN]

Closer(wanted, zone, best) == IF Better(wanted, zone, best) THEN zone.name ELSE best

\* The zones are gone through one by one.
LEMMA ZoneSteps ==
  ASSUME NEW wanted \in Seq(Labels), NEW n \in Nat, NEW listed \in [1 .. n -> HostedZone]
  PROVE  \E found \in [0 .. n -> Seq(Labels)] :
           /\ found[0] = <<>>
           /\ \A i \in 1 .. n : found[i] = Closer(wanted, listed[i], found[i - 1])
           /\ FindHostedZone(wanted, listed) = found[n]
<1> DEFINE X == Seq(Labels)
           Body(f) == [s \in SUBSET (1 .. n) |->
              IF s = {} THEN <<>> ELSE Closer(wanted, listed[Max(s)], f[s \ {Max(s)}])]
           fold == CHOOSE f : f = Body(f)
           step == [i \in 1 .. n |-> [best \in X |-> Closer(wanted, listed[i], best)]]
<1>1. FindHostedZone(wanted, listed) = fold[1 .. n]
  <2>1. DOMAIN listed = 1 .. n
    OBVIOUS
  <2> QED
    BY <2>1 DEF FindHostedZone, FoldLeft, MapThenFoldSet, Closer
<1>2. AreSteps(step, n, X)
  BY DEF Closer, HostedZone, AreSteps
<1>3. <<>> \in X
  OBVIOUS
<1> HIDE DEF X
<1>4. PICK g : IsFold(g, n, X, <<>>, step)
  <2> HIDE DEF step
  <2> QED
    BY <1>2, <1>3, FoldExists
<1>5. g = Body(g)
  <2>1. ASSUME NEW T \in SUBSET (1 .. n), T # {}
        PROVE  g[T] = Closer(wanted, listed[Max(T)], g[T \ {Max(T)}])
    <3>1. Max(T) \in 1 .. n
      BY <2>1, Greatest
    <3>2. g[T \ {Max(T)}] \in X /\ g[T] = step[Max(T)][g[T \ {Max(T)}]]
      BY <1>4, <2>1 DEF IsFold
    <3> QED
      BY <3>1, <3>2
  <2> QED
    BY <1>4, <2>1 DEF IsFold
<1>6. fold = Body(fold)
  BY <1>5
<1> HIDE DEF fold
<1>7. Recurs(fold, n, X, <<>>, step)
  <2>1. fold[{}] = <<>>
    BY <1>6
  <2>2. ASSUME NEW T \in SUBSET (1 .. n), T # {}, fold[T \ {Max(T)}] \in X
        PROVE  fold[T] = step[Max(T)][fold[T \ {Max(T)}]]
    <3>1. Max(T) \in 1 .. n
      BY <2>2, Greatest
    <3>2. fold[T] = Closer(wanted, listed[Max(T)], fold[T \ {Max(T)}])
      BY <1>6, <2>2
    <3> QED
      BY <2>2, <3>1, <3>2
  <2> QED
    BY <2>1, <2>2 DEF Recurs
<1>8. PICK found : IsRun(found, n, X, <<>>, step) /\ found[n] = fold[1 .. n]
  <2> HIDE DEF step
  <2> QED
    BY <1>2, <1>3, <1>7, FoldRuns
<1>9. ASSUME NEW i \in 1 .. n PROVE found[i] = Closer(wanted, listed[i], found[i - 1])
  BY <1>8, i - 1 \in 0 .. n DEF IsRun
<1> QED
  BY <1>1, <1>8, <1>9 DEF IsRun, X

\* Of however many hosted zones, with names of whatever length, FindHostedZone
\* takes a public one whose name ends the hostname, and none of those has a
\* longer name; where there is none it takes none.
THEOREM ClosestZone ==
  ASSUME NEW wanted \in Seq(Labels), NEW listed \in Seq(HostedZone)
  PROVE  LET best == FindHostedZone(wanted, listed)
             answers == {i \in DOMAIN listed : ~listed[i].private /\ IsPrefix(listed[i].name, wanted)}
         IN  IF answers = {} THEN best = <<>>
             ELSE /\ \E i \in answers : listed[i].name = best
                  /\ \A i \in answers : Len(listed[i].name) <= Len(best)
<1> DEFINE n == Len(listed)
           answers == {i \in 1 .. n : ~listed[i].private /\ IsPrefix(listed[i].name, wanted)}
           Right(best, i) ==
             /\ best = <<>> \/ \E k \in answers : k <= i /\ listed[k].name = best
             /\ \A k \in answers : k <= i => Len(listed[k].name) <= Len(best)
<1>1. n \in Nat /\ listed \in [1 .. n -> HostedZone] /\ DOMAIN listed = 1 .. n
  OBVIOUS
<1>2. PICK found \in [0 .. n -> Seq(Labels)] :
        /\ found[0] = <<>>
        /\ \A i \in 1 .. n : found[i] = Closer(wanted, listed[i], found[i - 1])
        /\ FindHostedZone(wanted, listed) = found[n]
  <2> HIDE DEF n
  <2> QED
    BY <1>1, ZoneSteps
<1> HIDE DEF n
<1> DEFINE G == {i \in 0 .. n : Right(found[i], i)}
<1>3. 0 \in G
  BY <1>1, <1>2
<1>4. ASSUME NEW i \in 1 .. n, i - 1 \in G PROVE i \in G
  <2> DEFINE before == found[i - 1]
             zone == listed[i]
  <2>1. /\ before \in Seq(Labels) /\ Len(before) \in Nat /\ Right(before, i - 1)
        /\ zone.name \in Seq(Labels) /\ Len(zone.name) \in Nat
        /\ found[i] = Closer(wanted, zone, before)
    <3>1. before \in Seq(Labels) /\ Right(before, i - 1) /\ found[i] = Closer(wanted, zone, before)
      BY <1>1, <1>2, <1>4
    <3>2. zone.name \in Seq(Labels)
      BY <1>1 DEF HostedZone
    <3>3. \A name \in Seq(Labels) : Len(name) \in Nat
      OBVIOUS
    <3> HIDE DEF before, zone, Right
    <3> QED
      BY <3>1, <3>2, <3>3
  <2>2. \A k \in answers : k <= i <=> (k <= i - 1 \/ k = i)
    BY <1>1
  <2>3. i \in answers <=> ~zone.private /\ IsPrefix(zone.name, wanted)
    OBVIOUS
  <2>4. CASE Better(wanted, zone, before)
    <3>1. found[i] = zone.name /\ i \in answers /\ Len(zone.name) > Len(before)
      BY <2>1, <2>3, <2>4 DEF Better, Closer
    <3>2. \A k \in answers : Len(listed[k].name) \in Nat
      BY <1>1 DEF HostedZone
    <3> HIDE DEF before, answers
    <3>3. \A k \in answers : k <= i => Len(listed[k].name) <= Len(zone.name)
      <4> SUFFICES ASSUME NEW k \in answers, k <= i PROVE Len(listed[k].name) <= Len(zone.name)
        OBVIOUS
      <4>1. CASE k = i
        BY <2>1, <4>1
      <4>2. CASE k <= i - 1
        <5>1. Len(listed[k].name) <= Len(before)
          BY <2>1, <4>2
        <5> QED
          BY <2>1, <3>1, <3>2, <5>1
      <4> QED
        BY <2>2, <4>1, <4>2
    <3>4. Right(found[i], i)
      BY <1>1, <3>1, <3>3
    <3> QED
      BY <3>4
  <2>5. CASE ~ Better(wanted, zone, before)
    <3>1. found[i] = before /\ (i \in answers => Len(zone.name) <= Len(before))
      BY <2>1, <2>3, <2>5 DEF Better, Closer
    <3> HIDE DEF before, answers
    <3>2. Right(before, i)
      BY <1>1, <2>1, <2>2, <3>1
    <3> QED
      BY <3>1, <3>2
  <2> QED
    BY <2>4, <2>5
<1>5. n \in G
  <2> HIDE DEF G
  <2> QED
    BY <1>1, <1>3, <1>4, IndexInduction, n \in 0 .. n
<1>6. Right(FindHostedZone(wanted, listed), n)
  BY <1>2, <1>5
<1> DEFINE best == FindHostedZone(wanted, listed)
<1> HIDE DEF best
<1>7. CASE answers = {}
  BY <1>1, <1>6, <1>7 DEF best
<1>8. CASE answers # {}
  <2>1. \A k \in answers : k <= n /\ listed[k].name \in Seq(Labels)
    BY <1>1 DEF HostedZone
  <2>2. \A k \in answers : Len(listed[k].name) <= Len(best)
    BY <1>6, <2>1 DEF best
  <2>3. ASSUME best = <<>> PROVE \E k \in answers : listed[k].name = best
    <3>1. PICK k : k \in answers
      BY <1>8
    <3>2. Len(listed[k].name) \in Nat /\ Len(listed[k].name) <= 0
      BY <2>1, <2>2, <2>3, <3>1
    <3>3. listed[k].name = <<>>
      BY <2>1, <3>1, <3>2
    <3> QED
      BY <2>3, <3>1, <3>3
  <2> QED
    BY <1>1, <1>6, <1>8, <2>2, <2>3 DEF best
<1> QED
  BY <1>7, <1>8, <1>1 DEF best

\* So a record goes into the zone that answers for it.
LEMMA RecordsResolve == RecordResolves
<1>1. Names \subseteq Seq(Labels)
  <2> SUFFICES ASSUME NEW n \in 1 .. 3, NEW name \in [1 .. n -> Labels] PROVE name \in Seq(Labels)
    BY DEF Names
  <2> QED
    OBVIOUS
<1>2. ZoneLists \subseteq Seq(HostedZone)
  <2> SUFFICES ASSUME NEW n \in 0 .. 2, NEW listed \in [1 .. n -> [name : Names, private : BOOLEAN]]
               PROVE  listed \in Seq(HostedZone)
    BY DEF ZoneLists
  <2>1. listed \in [1 .. n -> HostedZone]
    BY <1>1 DEF HostedZone
  <2>2. n \in Nat
    OBVIOUS
  <2> QED
    BY <2>1, <2>2
<1> SUFFICES ASSUME NEW wanted \in Names, NEW listed \in ZoneLists
             PROVE  LET best == FindHostedZone(wanted, listed)
                        answers == {i \in DOMAIN listed : ~listed[i].private /\ IsPrefix(listed[i].name, wanted)}
                    IN  IF answers = {} THEN best = <<>>
                        ELSE /\ \E i \in answers : listed[i].name = best
                             /\ \A i \in answers : Len(listed[i].name) <= Len(best)
  BY DEF RecordResolves
<1>3. wanted \in Seq(Labels) /\ listed \in Seq(HostedZone)
  BY <1>1, <1>2
<1> QED
  BY <1>3, ClosestZone

\* What is open and where it leads, after any two deploys.
LEMMA PortsReach == PortsReachTheirGroups
<1> SUFFICES ASSUME NEW first \in {p \in PortLists : PortsValid(p)},
                    NEW ports \in {p \in PortLists : PortsValid(p)}
             PROVE  LET slots == SlotsUsed(SlotsUsed(Unused, first), ports)
                        outputs == Outputs(slots)
                    IN  /\ {o.key.published : o \in outputs} = {ports[i].published : i \in DOMAIN ports}
                        /\ \A i \in DOMAIN ports :
                             \E arn \in 1 .. Slots :
                               /\ GroupOf(outputs, ports[i]) = {arn}
                               /\ slots[arn] = [port |-> ports[i].published, target |-> ports[i].local]
  BY DEF PortsReachTheirGroups
<1> DEFINE slots == StackParameters(ports)
           outputs == Outputs(slots)
<1>0. slots = SlotsUsed(SlotsUsed(Unused, first), ports)
  BY DEF SlotsUsed, StackParameters
<1>1. Slots \in Nat
  BY NetworkPlanAssumption
<1>2. PICK n \in 0 .. Slots : ports \in [1 .. n -> Mapping]
  <2>1. PICK n \in 0 .. Slots + 1 : ports \in [1 .. n -> Mapping]
    BY DEF PortLists
  <2>2. Len(ports) = n /\ Len(ports) <= Slots
    BY <1>1, <2>1 DEF PortsValid
  <2> QED
    BY <1>1, <2>1, <2>2
<1>3. \A i, j \in 1 .. n : ports[i].published = ports[j].published => i = j
  BY <1>2 DEF PortsValid
<1>4. \A i \in 1 .. n : ports[i].published \in Nat \ {0} /\ ports[i].local \in PortNumbers
                        /\ ports[i] = [local |-> ports[i].local, published |-> ports[i].published]
  BY <1>2, NetworkPlanAssumption DEF Mapping
<1>5. /\ \A i \in 1 .. Slots : i \in 1 .. n =>
           /\ slots[i] = [port |-> ports[i].published, target |-> ports[i].local]
           /\ slots[i].port = ports[i].published /\ slots[i].target = ports[i].local
      /\ \A i \in 1 .. Slots : i \notin 1 .. n => slots[i].port = 0
  BY <1>2 DEF StackParameters, Unused
<1> HIDE DEF slots
<1>6. \A i : i \in 1 .. Slots /\ slots[i].port # 0 <=> i \in 1 .. n
  <2>1. ASSUME NEW i \in 1 .. n PROVE i \in 1 .. Slots /\ slots[i].port # 0
    <3>1. i \in 1 .. Slots
      BY <1>1
    <3>2. slots[i].port = ports[i].published
      BY <1>5, <3>1
    <3> QED
      BY <1>4, <3>1, <3>2
  <2>2. ASSUME NEW i \in 1 .. Slots, i \notin 1 .. n PROVE slots[i].port = 0
    BY <1>5, <2>2
  <2> QED
    BY <2>1, <2>2
<1>7. \A o : o \in outputs <=> \E i \in 1 .. n : o = [key |-> ports[i], arn |-> i]
  <2>1. \A i \in 1 .. n : [local |-> slots[i].target, published |-> slots[i].port] = ports[i]
    <3> SUFFICES ASSUME NEW i \in 1 .. n
                 PROVE  [local |-> slots[i].target, published |-> slots[i].port] = ports[i]
      OBVIOUS
    <3>2. slots[i].target = ports[i].local /\ slots[i].port = ports[i].published
      BY <1>5, <1>6
    <3> QED
      BY <1>4, <3>2, Zenon
  <2>2. \A o : o \in outputs <=>
          \E i : /\ i \in 1 .. Slots /\ slots[i].port # 0
                 /\ o = [key |-> [local |-> slots[i].target, published |-> slots[i].port], arn |-> i]
    BY Zenon DEF Outputs
  <2> HIDE DEF outputs
  <2>3. ASSUME NEW o \in outputs PROVE \E i \in 1 .. n : o = [key |-> ports[i], arn |-> i]
    <3>1. PICK i : /\ i \in 1 .. Slots /\ slots[i].port # 0
                   /\ o = [key |-> [local |-> slots[i].target, published |-> slots[i].port], arn |-> i]
      BY <2>2, Zenon
    <3>2. i \in 1 .. n
      BY <1>6, <3>1, Zenon
    <3>3. o = [key |-> ports[i], arn |-> i]
      BY <2>1, <3>1, <3>2, Zenon
    <3> QED
      BY <3>2, <3>3, Zenon
  <2>4. ASSUME NEW i \in 1 .. n PROVE [key |-> ports[i], arn |-> i] \in outputs
    <3>1. i \in 1 .. Slots /\ slots[i].port # 0
      BY <1>6, Zenon
    <3>2. [key |-> ports[i], arn |-> i]
            = [key |-> [local |-> slots[i].target, published |-> slots[i].port], arn |-> i]
      BY <2>1, Zenon
    <3> QED
      BY <2>2, <3>1, <3>2, Zenon
  <2> QED
    BY <2>3, <2>4, Zenon
<1> HIDE DEF outputs
<1>8. {o.key.published : o \in outputs} = {ports[i].published : i \in 1 .. n}
  <2>1. ASSUME NEW o \in outputs PROVE o.key.published \in {ports[i].published : i \in 1 .. n}
    BY <1>7
  <2>2. ASSUME NEW i \in 1 .. n PROVE ports[i].published \in {o.key.published : o \in outputs}
    <3>1. [key |-> ports[i], arn |-> i] \in outputs
      BY <1>7, Zenon
    <3> DEFINE o == [key |-> ports[i], arn |-> i]
    <3>2. o.key.published = ports[i].published
      OBVIOUS
    <3> QED
      BY <3>1, <3>2, Zenon
  <2> QED
    BY <2>1, <2>2
<1>9. ASSUME NEW i \in 1 .. n
      PROVE  /\ i \in 1 .. Slots
             /\ GroupOf(outputs, ports[i]) = {i}
             /\ slots[i] = [port |-> ports[i].published, target |-> ports[i].local]
  <2>1. \A o \in outputs : o.key = ports[i] <=> o.arn = i
    BY <1>3, <1>7
  <2>2. [key |-> ports[i], arn |-> i] \in outputs
    BY <1>7
  <2>3. GroupOf(outputs, ports[i]) = {i}
    BY <2>1, <2>2 DEF GroupOf
  <2> QED
    BY <1>1, <1>5, <2>3
<1> QED
  BY <1>0, <1>2, <1>8, <1>9 DEF outputs

\* Whatever the account lists and in whatever order, the subnets, the zone and
\* the target groups found are the ones that serve.
THEOREM PlanStable == Spec => []PlanIsStable
<1>1. PlanIsStable
  BY DiscoveryStable, RecordsResolve, PortsReach DEF PlanIsStable
<1> QED
  BY <1>1, PTL
=============================================================================
