----------------------------- MODULE Deployment -----------------------------
(***************************************************************************)
(* Macs that deploy one stack into one account and take it away again      *)
(* (cmd/mymicrotunnel resolveClient, setup.Deploy, setup.Uninstall and the *)
(* internal/awsops calls under them), with the account: CloudFormation,    *)
(* IAM, Route 53 and the parameters the gateway publishes.                 *)
(*                                                                         *)
(* A Mac runs one command at a time; the commands of two Macs interleave   *)
(* at their calls.  A parameter that StackParameters sets has the Mac's    *)
(* name for its value; of images a new one comes out with every command    *)
(* that is begun; a load balancer is the number of the stack it came with. *)
(***************************************************************************)
EXTENDS Integers, FiniteSets

CONSTANTS
  Macs,
  Declares,   \* Declares[m]: the parameters of the template m's version embeds
  Sent,       \* the parameters StackParameters sets
  Image,      \* GatewayImageId, which it does not
  None,
  MaxRuns,    \* commands begun (a bound)
  MaxFaults   \* calls that fail, and commands that are killed (a bound)

Params == UNION {Declares[m] : m \in Macs}
Values == Macs \cup 0 .. MaxRuns \cup {None}
ParamMaps == UNION {[D -> Values] : D \in SUBSET Params}

Settled == {"CREATE_COMPLETE", "UPDATE_COMPLETE", "UPDATE_ROLLBACK_COMPLETE"}
Failed == {"ROLLBACK_COMPLETE", "UPDATE_ROLLBACK_COMPLETE", "DELETE_FAILED"}
Statuses == {"REVIEW_IN_PROGRESS", "CREATE_IN_PROGRESS", "UPDATE_IN_PROGRESS", "DELETE_IN_PROGRESS"}
            \cup Settled \cup Failed
Stacks == [status : Statuses, params : ParamMaps, next : ParamMaps, lb : Nat \cup {None}]

ASSUME DeploymentAssumption ==
  /\ IsFiniteSet(Macs)
  /\ Declares \in [Macs -> SUBSET UNION {Declares[m] : m \in Macs}]
  /\ \A m \in Macs : Image \in Declares[m]
  /\ Image \notin Sent
  /\ None \notin Macs \cup Nat \cup ParamMaps \cup Stacks
  /\ {MaxRuns, MaxFaults} \subseteq Nat

VARIABLES
  stack,      \* [status, params, next, lb], or None
  sets,       \* sets[m]: the change set m created: [kind, params], or None
  alias,      \* where the hostname points: a load balancer, 0 for elsewhere, None
  published,  \* /<stack>/... holds the gateway's public key
  keys,       \* the live access keys of mymicrotunnel-app
  minted,     \* access keys ever made
  created,    \* stacks ever created
  settings,   \* settings[m]: the load balancer m's profile recorded, or None
  keychain,   \* keychain[m]: the application key m holds, or None
  pc, job,    \* where m's command is, and what it has read
  ended,      \* how m's last command ended
  disturbed,  \* another Mac has changed the deployment since it began
  pulled,     \* a stack was gone before an update that had seen it
  begun, faults

account == <<stack, sets, alias, published, created>>
identity == <<keys, minted, keychain>>
control == <<pc, job, ended, disturbed, pulled, begun, faults>>
deploymentVars == <<account, identity, settings, control>>

NoJob == [exists |-> FALSE, carried |-> {}, key |-> None, lb |-> None, known |-> FALSE, deletes |-> FALSE]

Init ==
  /\ stack = None
  /\ sets = [m \in Macs |-> None]
  /\ alias = 0
  /\ published = FALSE
  /\ keys = {}
  /\ minted = 0
  /\ created = 0
  /\ settings = [m \in Macs |-> None]
  /\ keychain = [m \in Macs |-> None]
  /\ pc = [m \in Macs |-> "idle"]
  /\ job = [m \in Macs |-> NoJob]
  /\ ended = [m \in Macs |-> "never"]
  /\ disturbed = [m \in Macs |-> FALSE]
  /\ pulled = FALSE
  /\ begun = 0
  /\ faults = 0

\* Control.
Goes(m, step) == pc' = [pc EXCEPT ![m] = step] /\ UNCHANGED <<ended, pulled, begun, faults>>
Ends(m, how) ==
  pc' = [pc EXCEPT ![m] = "idle"] /\ ended' = [ended EXCEPT ![m] = how] /\ UNCHANGED <<pulled, begun, faults>>
Notes(m, j) == job' = [job EXCEPT ![m] = j]
Disturbs(m) == disturbed' = [n \in Macs |-> disturbed[n] \/ n # m]

Starts(m, step, j) ==
  /\ pc[m] = "idle"
  /\ begun < MaxRuns
  /\ begun' = begun + 1
  /\ pc' = [pc EXCEPT ![m] = step]
  /\ ended' = [ended EXCEPT ![m] = "running"]
  /\ disturbed' = [disturbed EXCEPT ![m] = FALSE]
  /\ Notes(m, j)
  /\ UNCHANGED <<account, identity, settings, pulled, faults>>

-----------------------------------------------------------------------------
\* resolveClient and EnsureAppCredentials.

\* A key that is stored is used if it works; if not, the person's credentials
\* are.  A new one is made only where none is stored.
ResolveClient(m) == Starts(m, IF keychain[m] # None THEN "exists" ELSE "list", NoJob)

\* Mutant of ListKeys: room is made for the only key, too.
ListKeysEager(m) ==
  /\ pc[m] = "list"
  /\ IF keys # {}
     THEN \E key \in keys : Notes(m, [job[m] EXCEPT !.key = key]) /\ Goes(m, "evict")
     ELSE UNCHANGED job /\ Goes(m, "mint")
  /\ UNCHANGED <<account, identity, settings, disturbed>>

\* Two keys are the limit: the one listed first makes room.
ListKeys(m) ==
  /\ pc[m] = "list"
  /\ IF Cardinality(keys) >= 2
     THEN \E key \in keys : Notes(m, [job[m] EXCEPT !.key = key]) /\ Goes(m, "evict")
     ELSE UNCHANGED job /\ Goes(m, "mint")
  /\ UNCHANGED <<account, identity, settings, disturbed>>

\* Whatever fails from here to StoreKey is a warning.
Evict(m) ==
  /\ pc[m] = "evict"
  /\ keys' = keys \ {job[m].key}
  /\ Goes(m, IF job[m].key \in keys THEN "mint" ELSE "exists")
  /\ Notes(m, NoJob)
  /\ UNCHANGED <<account, minted, keychain, settings, disturbed>>

CreateKey(m) ==
  /\ pc[m] = "mint"
  /\ IF Cardinality(keys) >= 2
     THEN Goes(m, "exists") /\ UNCHANGED <<keys, minted, job>>
     ELSE /\ minted' = minted + 1
          /\ keys' = keys \cup {minted + 1}
          /\ Notes(m, [job[m] EXCEPT !.key = minted + 1])
          /\ Goes(m, "store")
  /\ UNCHANGED <<account, keychain, settings, disturbed>>

StoreKey(m) ==
  /\ pc[m] = "store"
  /\ keychain' = [keychain EXCEPT ![m] = job[m].key]
  /\ Notes(m, NoJob)
  /\ Goes(m, "exists")
  /\ UNCHANGED <<account, keys, minted, settings, disturbed>>

-----------------------------------------------------------------------------
\* DeployStack.

Exists == stack # None
Status == IF Exists THEN stack.status ELSE "NONE"

\* Mutant of StackExists: a stack under review is one.
StackExistsAtAll(m) ==
  /\ pc[m] = "exists"
  /\ Notes(m, [NoJob EXCEPT !.exists = Exists])
  /\ Goes(m, IF Exists THEN "carry" ELSE "change")
  /\ UNCHANGED <<account, identity, settings, disturbed>>

StackExists(m) ==
  /\ pc[m] = "exists"
  /\ LET is == Status \notin {"NONE", "REVIEW_IN_PROGRESS"} IN
     /\ Notes(m, [NoJob EXCEPT !.exists = is])
     /\ Goes(m, IF is THEN "carry" ELSE "change")
  /\ UNCHANGED <<account, identity, settings, disturbed>>

\* Mutant of ExistingParameterKeys: an update starts from the defaults.
ExistingKeysForgotten(m) ==
  /\ pc[m] = "carry"
  /\ IF Exists THEN Goes(m, "change") ELSE Ends(m, "failed")
  /\ UNCHANGED <<account, identity, settings, job, disturbed>>

ExistingParameterKeys(m) ==
  /\ pc[m] = "carry"
  /\ IF Exists
     THEN Notes(m, [job[m] EXCEPT !.carried = DOMAIN stack.params]) /\ Goes(m, "change")
     ELSE Ends(m, "failed") /\ UNCHANGED job
  /\ UNCHANGED <<account, identity, settings, disturbed>>

\* The parameters of the change set, sent or carried over.
Input(m) == (Sent \cup job[m].carried) \cap Declares[m]

\* What CloudFormation makes of them: the default is the newest image.
Resolved(m) ==
  [p \in Declares[m] |->
     IF p \notin Input(m) THEN IF p = Image THEN begun ELSE None
     ELSE IF p \in Sent THEN m
     ELSE stack.params[p]]

\* CloudFormation: the stack may be created, or updated.
Takes(exists) == IF exists THEN Status \in Settled ELSE Status \in {"NONE", "REVIEW_IN_PROGRESS"}

CreateChangeSet(m) ==
  /\ pc[m] = "change"
  /\ LET refusal == IF ~(Input(m) \subseteq Declares[m]) THEN "undeclared" ELSE "refused" IN
     IF Takes(job[m].exists) /\ refusal # "undeclared"
        /\ (job[m].exists => Input(m) \ Sent \subseteq DOMAIN stack.params)
     THEN /\ sets' = [sets EXCEPT ![m] = Resolved(m)]
          /\ stack' = IF Exists THEN stack
                      ELSE [status |-> "REVIEW_IN_PROGRESS", params |-> <<>>, next |-> <<>>, lb |-> None]
          /\ Notes(m, [job[m] EXCEPT !.carried = {}])
          /\ Disturbs(m)
          /\ Goes(m, "planned")
     ELSE Ends(m, refusal) /\ UNCHANGED <<stack, sets, job, disturbed>>
  /\ UNCHANGED <<alias, published, created, identity, settings>>

\* One with nothing in it is deleted, and that is success.  Executing one
\* deletes the others.
WaitForChangeSet(m) ==
  /\ pc[m] = "planned"
  /\ IF sets[m] = None THEN Ends(m, "failed") /\ UNCHANGED sets
     ELSE IF job[m].exists /\ Exists /\ sets[m] = stack.params
     THEN sets' = [sets EXCEPT ![m] = None] /\ Goes(m, "outputs")
     ELSE Goes(m, "execute") /\ UNCHANGED sets
  /\ UNCHANGED <<stack, alias, published, created, identity, settings, job, disturbed>>

\* Mutant of ExecuteChangeSet: another's change set will do.
ExecuteBlindly(m) ==
  /\ pc[m] = "execute"
  /\ IF Takes(job[m].exists) /\ Exists
     THEN /\ sets' = [n \in Macs |-> None]
          /\ stack' = [stack EXCEPT !.status = IF job[m].exists THEN "UPDATE_IN_PROGRESS" ELSE "CREATE_IN_PROGRESS",
                                    !.next = sets[m]]
          /\ Disturbs(m)
          /\ Goes(m, "stack")
     ELSE Ends(m, "failed") /\ UNCHANGED <<stack, sets, disturbed>>
  /\ UNCHANGED <<alias, published, created, identity, settings, job>>

ExecuteChangeSet(m) ==
  /\ pc[m] = "execute"
  /\ IF sets[m] # None /\ Takes(job[m].exists) /\ Exists
     THEN /\ sets' = [n \in Macs |-> None]
          /\ stack' = [stack EXCEPT !.status = IF job[m].exists THEN "UPDATE_IN_PROGRESS" ELSE "CREATE_IN_PROGRESS",
                                    !.params = IF job[m].exists THEN @ ELSE sets[m],
                                    !.next = sets[m]]
          /\ Disturbs(m)
          /\ Goes(m, "stack")
     ELSE Ends(m, "failed") /\ UNCHANGED <<stack, sets, disturbed>>
  /\ UNCHANGED <<alias, published, created, identity, settings, job>>

\* Mutant of WaitForStack: the rollback of an update ends it, too.
WaitForStackAtRest(m) ==
  /\ pc[m] = "stack"
  /\ \/ Status \in Settled /\ Goes(m, "outputs")
     \/ Status \in (Failed \ Settled) \cup {"NONE"} /\ Ends(m, "failed")
  /\ UNCHANGED <<account, identity, settings, job, disturbed>>

WaitForStack(m) ==
  /\ pc[m] = "stack"
  /\ \/ Status \in {"CREATE_COMPLETE", "UPDATE_COMPLETE"} /\ Goes(m, "outputs")
     \/ Status \in Failed \cup {"NONE"} /\ Ends(m, "failed")
  /\ UNCHANGED <<account, identity, settings, job, disturbed>>

-----------------------------------------------------------------------------
\* The rest of Deploy, and what the install keeps of it.

StackOutputs(m) ==
  /\ pc[m] = "outputs"
  /\ IF Exists /\ stack.lb # None
     THEN Notes(m, [NoJob EXCEPT !.lb = stack.lb]) /\ Goes(m, "alias")
     ELSE Ends(m, "failed") /\ UNCHANGED job
  /\ UNCHANGED <<account, identity, settings, disturbed>>

UpsertAlias(m) ==
  /\ pc[m] = "alias"
  /\ alias' = job[m].lb
  /\ Disturbs(m)
  /\ Goes(m, "parameter")
  /\ UNCHANGED <<stack, sets, published, created, identity, settings, job>>

WaitForParameter(m) ==
  /\ pc[m] = "parameter"
  /\ published
  /\ Goes(m, "save")
  /\ UNCHANGED <<account, identity, settings, job, disturbed>>

SaveSettings(m) ==
  /\ pc[m] = "save"
  /\ settings' = [settings EXCEPT ![m] = job[m].lb]
  /\ Ends(m, "deployed")
  /\ UNCHANGED <<account, identity, job, disturbed>>

-----------------------------------------------------------------------------
\* Uninstall, of the Mac's only profile.

Uninstall(m, deletes) ==
  Starts(m, "remove", [NoJob EXCEPT !.lb = settings[m], !.known = settings[m] # None, !.deletes = deletes])

AfterKeys(m) == IF job[m].deletes THEN Goes(m, "unalias") ELSE Ends(m, "uninstalled")

\* The settings go before the stack does.
RemoveProfile(m) ==
  /\ pc[m] = "remove"
  /\ settings' = [settings EXCEPT ![m] = None]
  /\ IF job[m].known /\ keychain[m] # None THEN Goes(m, "revoke") ELSE AfterKeys(m)
  /\ UNCHANGED <<account, identity, job, disturbed>>

DeleteAppAccessKey(m) ==
  /\ pc[m] = "revoke"
  /\ keys' = keys \ {keychain[m]}
  /\ Goes(m, "forget")
  /\ UNCHANGED <<account, minted, keychain, settings, job, disturbed>>

ForgetAppCredentials(m) ==
  /\ pc[m] = "forget"
  /\ keychain' = [keychain EXCEPT ![m] = None]
  /\ AfterKeys(m)
  /\ UNCHANGED <<account, keys, minted, settings, job, disturbed>>

\* Only the record the profile knows of: Route 53 compares the target.
DeleteAlias(m) ==
  /\ pc[m] = "unalias"
  /\ IF job[m].known /\ alias = job[m].lb
     THEN alias' = None /\ Disturbs(m)
     ELSE UNCHANGED <<alias, disturbed>>
  /\ Goes(m, "delete")
  /\ UNCHANGED <<stack, sets, published, created, identity, settings, job>>

\* CloudFormation deletes anything but a stack in the middle of an update.
DeleteStack(m) ==
  /\ pc[m] = "delete"
  /\ IF Status = "UPDATE_IN_PROGRESS" THEN Ends(m, "failed") /\ UNCHANGED <<stack, sets, disturbed>>
     ELSE /\ stack' = IF Exists THEN [stack EXCEPT !.status = "DELETE_IN_PROGRESS"] ELSE None
          /\ sets' = [n \in Macs |-> None]
          /\ Disturbs(m)
          /\ Goes(m, "gone")
  /\ UNCHANGED <<alias, published, created, identity, settings, job>>

WaitUntilGone(m) ==
  /\ pc[m] = "gone"
  /\ ~Exists
  /\ Goes(m, "parameters")
  /\ UNCHANGED <<account, identity, settings, job, disturbed>>

DeleteParametersByPath(m) ==
  /\ pc[m] = "parameters"
  /\ published' = FALSE
  /\ Disturbs(m)
  /\ Ends(m, "deleted")
  /\ UNCHANGED <<stack, sets, alias, created, identity, settings, job>>

-----------------------------------------------------------------------------
\* Mutant of GivesUp: the wait for a deletion has no end.
GivesUpUnlessDeleting(m) ==
  /\ pc[m] \in {"stack", "parameter"}
  /\ Ends(m, "failed")
  /\ UNCHANGED <<account, identity, settings, job, disturbed>>

\* Every wait has its limit.
GivesUp(m) ==
  /\ pc[m] \in {"stack", "parameter", "gone"}
  /\ Ends(m, "failed")
  /\ UNCHANGED <<account, identity, settings, job, disturbed>>

\* Where a failed call is only a warning, and where the command goes on.
Tolerated ==
  [list |-> "exists", evict |-> "exists", mint |-> "exists", store |-> "exists",
   save |-> "idle", revoke |-> "forget", unalias |-> "delete", parameters |-> "idle"]

\* And how a command ends whose last step it was.
Regardless == [save |-> "deployed", parameters |-> "deleted"]

\* A call fails, or the command is killed.
Fault(m) ==
  /\ pc[m] # "idle"
  /\ faults < MaxFaults
  /\ faults' = faults + 1
  /\ \/ /\ pc' = [pc EXCEPT ![m] = "idle"]
        /\ ended' = [ended EXCEPT ![m] = "failed"]
     \/ /\ pc[m] \in DOMAIN Tolerated
        /\ pc' = [pc EXCEPT ![m] = Tolerated[pc[m]]]
        /\ ended' = [ended EXCEPT ![m] = IF pc[m] \in DOMAIN Regardless THEN Regardless[pc[m]] ELSE @]
  /\ UNCHANGED <<account, identity, settings, job, disturbed, pulled, begun>>

\* Between a look at the stack and the change set that goes by it.
Planning == {"carry", "change", "planned", "execute"}

\* CloudFormation finishes what it is at: a disturbance to those that do not
\* wait for it.
Finish ==
  /\ \/ /\ Status = "CREATE_IN_PROGRESS"
        /\ \/ /\ created' = created + 1
              /\ stack' = [stack EXCEPT !.status = "CREATE_COMPLETE", !.next = <<>>, !.lb = created + 1]
           \/ stack' = [stack EXCEPT !.status = "ROLLBACK_COMPLETE", !.next = <<>>] /\ UNCHANGED created
     \/ /\ Status = "UPDATE_IN_PROGRESS"
        /\ \E ok \in BOOLEAN :
             stack' = [stack EXCEPT !.status = IF ok THEN "UPDATE_COMPLETE" ELSE "UPDATE_ROLLBACK_COMPLETE",
                                    !.params = IF ok THEN stack.next ELSE @, !.next = <<>>]
        /\ UNCHANGED created
     \/ /\ Status = "DELETE_IN_PROGRESS"
        /\ stack' \in {None, [stack EXCEPT !.status = "DELETE_FAILED"]}
        /\ UNCHANGED created
  /\ pulled' = (pulled \/ (stack' = None /\ \E m \in Macs : pc[m] \in Planning /\ job[m].exists))
  /\ disturbed' = [m \in Macs |-> disturbed[m] \/ pc[m] \notin {"stack", "gone"}]
  /\ UNCHANGED <<sets, alias, published, identity, settings, pc, job, ended, begun, faults>>

\* The gateway's boot script; a gateway on its way out may still run it.
Publish ==
  /\ Status \in Settled \cup {"CREATE_IN_PROGRESS", "UPDATE_IN_PROGRESS", "DELETE_IN_PROGRESS"}
  /\ ~published
  /\ published' = TRUE
  /\ UNCHANGED <<stack, sets, alias, created, identity, settings, control>>

\* One step of the command m runs.
Step(m) ==
  \/ ListKeys(m) \/ Evict(m) \/ CreateKey(m) \/ StoreKey(m)
  \/ StackExists(m) \/ ExistingParameterKeys(m)
  \/ CreateChangeSet(m) \/ WaitForChangeSet(m) \/ ExecuteChangeSet(m) \/ WaitForStack(m)
  \/ StackOutputs(m) \/ UpsertAlias(m) \/ WaitForParameter(m) \/ SaveSettings(m)
  \/ RemoveProfile(m) \/ DeleteAppAccessKey(m) \/ ForgetAppCredentials(m)
  \/ DeleteAlias(m) \/ DeleteStack(m) \/ WaitUntilGone(m) \/ DeleteParametersByPath(m)
  \/ GivesUp(m)

Next ==
  \/ \E m \in Macs : ResolveClient(m) \/ Step(m) \/ Fault(m)
  \/ \E m \in Macs, deletes \in BOOLEAN : Uninstall(m, deletes)
  \/ Finish \/ Publish

Spec == Init /\ [][Next]_deploymentVars

FairSpec == Spec /\ \A m \in Macs : WF_deploymentVars(Step(m))

-----------------------------------------------------------------------------
Waits == {"stack", "parameter", "gone"}
Steps == {"idle", "list", "evict", "mint", "store", "exists", "carry", "change", "planned", "execute",
          "outputs", "alias", "save", "remove", "revoke", "forget", "unalias", "delete", "parameters"} \cup Waits
Endings == {"never", "running", "deployed", "uninstalled", "deleted", "failed", "refused", "undeclared"}

DeploymentTypeOK ==
  /\ stack \in Stacks \cup {None}
  /\ sets \in [Macs -> ParamMaps \cup {None}]
  /\ alias \in Nat \cup {None}
  /\ published \in BOOLEAN
  /\ keys \in SUBSET (1 .. minted)
  /\ minted \in Nat /\ created \in Nat
  /\ settings \in [Macs -> Nat \cup {None}]
  /\ keychain \in [Macs -> 1 .. minted \cup {None}]
  /\ pc \in [Macs -> Steps]
  /\ ended \in [Macs -> Endings]
  /\ disturbed \in [Macs -> BOOLEAN]
  /\ pulled \in BOOLEAN
  /\ begun \in 0 .. MaxRuns
  /\ faults \in 0 .. MaxFaults

\* With nothing going wrong, and no more Macs than IAM allows keys, the key a
\* Mac holds is live: no other Mac's first install and no uninstall revokes it
\* (internal/awsops/appidentity.go:66); and every live key is in a Keychain, or
\* on its way there: an uninstalled Mac leaves none behind (appidentity.go:105,
\* "a live credential belonging to a machine that has been uninstalled").
KeysAreHeld ==
  faults = 0 =>
    /\ Cardinality(Macs) <= 2 =>
         \A m \in Macs : keychain[m] # None /\ pc[m] # "forget" => keychain[m] \in keys
    /\ \A key \in keys : \E m \in Macs : keychain[m] = key \/ (pc[m] = "store" /\ job[m].key = key)

\* A parameter that no install sets survives every update of the stack, by
\* whatever version, whatever image has come out since: the gateway is not
\* replaced for it (awsops.go:290).
CarriedOver ==
  [][~pulled /\ stack # None /\ stack' # None /\ Image \in DOMAIN stack.params \cap DOMAIN stack'.params =>
       stack'.params[Image] = stack.params[Image]]_deploymentVars

\* A deployment that no other Mac has interfered with is refused only where
\* the stack can take none: never over a change set that an earlier run left
\* behind unexecuted (awsops.go:281), nor over a parameter that the stack holds
\* and a newer template has dropped (awsops.go:322).
RefusedForCause ==
  [][\A m \in Macs : ended[m] = "running" /\ ~disturbed[m] =>
       /\ ended'[m] # "undeclared"
       /\ ended'[m] = "refused" => Status \notin Settled \cup {"REVIEW_IN_PROGRESS"}]_deploymentVars

\* A command that no other Mac interferes with has done what it says.  An
\* install: the stack has its template and its values, the hostname points at
\* its load balancer and the gateway's key is published.  An uninstall that
\* deletes: the stack is gone and, where no call failed, nothing is left of it,
\* not the parameters of a gateway that was still booting (uninstall.go:141)
\* nor a hostname that points where its own profile had put it.
EndsAsSaid ==
  \A m \in Macs : ~disturbed[m] =>
    /\ ended[m] = "deployed" =>
         /\ Status \in Settled
         /\ DOMAIN stack.params = Declares[m]
         /\ \A p \in Sent \cap Declares[m] : stack.params[p] = m
         /\ alias = stack.lb
         /\ published
    /\ ended[m] = "deleted" =>
         /\ ~Exists
         /\ faults = 0 => ~published /\ (job[m].known => alias # job[m].lb)

\* Every command comes to an end, whatever CloudFormation does: a deletion
\* that failed is noticed only by its time limit (awsops.go:557).
EveryRunEnds == \A m \in Macs : pc[m] # "idle" ~> pc[m] = "idle"

\* "Re-run it. Existing keys and stacks are reused" (README.md:343): a
\* deployment no other Mac interferes with is not refused for good.
RerunIsTaken ==
  \A m \in Macs : ended[m] = "refused" /\ ~disturbed[m] => Status # "ROLLBACK_COMPLETE"
=============================================================================
