-------------------------- MODULE DeploymentProofs --------------------------
(***************************************************************************)
(* What Deployment's runs check on two Macs holds for every number of      *)
(* Macs, of commands and of faults, and for every set of parameters.       *)
(***************************************************************************)
EXTENDS Deployment, FiniteSetTheorems, TLAPS

Jobs == [exists : BOOLEAN, carried : SUBSET Params, key : Nat \cup {None}, lb : Nat \cup {None},
         known : BOOLEAN, deletes : BOOLEAN]

\* What a command has read, where a later step relies on it.
JobsOK ==
  /\ job \in [Macs -> Jobs]
  /\ \A m \in Macs :
       /\ pc[m] = "evict" => job[m].key \in 1 .. minted
       /\ pc[m] = "store" => job[m].key \in 1 .. minted
       /\ pc[m] = "carry" => job[m].exists
       /\ pc[m] = "change" => job[m].exists \/ job[m].carried = {}

Types == DeploymentTypeOK /\ JobsOK

-----------------------------------------------------------------------------
\* The empty map is one of parameters.
LEMMA EmptyMap == <<>> \in ParamMaps
<1>1. <<>> \in [{} -> Values]
  OBVIOUS
<1>. QED
  BY <1>1 DEF ParamMaps

LEMMA JobChanges ==
  ASSUME NEW j \in Jobs
  PROVE  /\ NoJob \in Jobs
         /\ \A k \in Nat \cup {None} : [j EXCEPT !.key = k] \in Jobs
         /\ \A k \in Nat \cup {None} : [NoJob EXCEPT !.lb = k] \in Jobs
         /\ \A c \in SUBSET Params : [j EXCEPT !.carried = c] \in Jobs
         /\ \A b \in BOOLEAN : [NoJob EXCEPT !.exists = b] \in Jobs
         /\ \A k \in Nat \cup {None}, b, c \in BOOLEAN :
              [NoJob EXCEPT !.lb = k, !.known = b, !.deletes = c] \in Jobs
  BY DEF Jobs, NoJob

\* What a change set resolves to is a map of parameters: each value that is
\* carried over is one the stack holds.
LEMMA ResolvedIsMap ==
  ASSUME Types, NEW m \in Macs, pc[m] = "change", Takes(job[m].exists),
         job[m].exists => Input(m) \ Sent \subseteq DOMAIN stack.params
  PROVE  Resolved(m) \in ParamMaps
<1>1. \A p \in Input(m) \ Sent : stack.params[p] \in Values
  <2>1. CASE job[m].exists
    <3>1. stack # None
      BY <2>1 DEF Takes, Status, Exists, Settled
    <3>2. stack.params \in ParamMaps
      BY <3>1 DEF Types, DeploymentTypeOK, Stacks
    <3>3. \A p \in DOMAIN stack.params : stack.params[p] \in Values
      BY <3>2 DEF ParamMaps
    <3>. QED
      BY <2>1, <3>3
  <2>2. CASE ~job[m].exists
    BY <2>2 DEF Types, JobsOK, Input
  <2>. QED
    BY <2>1, <2>2
<1>2. begun \in Values /\ None \in Values /\ m \in Values
  BY DEF Types, DeploymentTypeOK, Values
<1>3. \A p \in Declares[m] : (IF p \notin Input(m) THEN IF p = Image THEN begun ELSE None
                              ELSE IF p \in Sent THEN m ELSE stack.params[p]) \in Values
  BY <1>1, <1>2
<1>4. Resolved(m) \in [Declares[m] -> Values]
  BY <1>3 DEF Resolved
<1>5. Declares[m] \in SUBSET Params
  BY DEF Params
<1>. QED
  BY <1>4, <1>5 DEF ParamMaps

-----------------------------------------------------------------------------
\* Every step preserves the types.
LEMMA TypesOfKeySteps ==
  ASSUME Types, NEW m \in Macs,
         ListKeys(m) \/ Evict(m) \/ CreateKey(m) \/ StoreKey(m)
  PROVE  Types'
<1>. USE DEF Types, DeploymentTypeOK, JobsOK, account, identity, control, Goes, Ends, Notes
<1>0. job[m] \in Jobs /\ NoJob \in Jobs /\ \A k \in Nat \cup {None} : [job[m] EXCEPT !.key = k] \in Jobs
  BY JobChanges
<1>1. CASE ListKeys(m)
  <2>1. CASE Cardinality(keys) >= 2
    <3>1. PICK key \in keys : Notes(m, [job[m] EXCEPT !.key = key]) /\ Goes(m, "evict")
      BY <1>1, <2>1 DEF ListKeys
    <3>2. key \in 1 .. minted /\ [job[m] EXCEPT !.key = key] \in Jobs /\ [job[m] EXCEPT !.key = key].key = key
      BY <1>0 DEF Jobs
    <3>. QED
      BY <1>1, <3>1, <3>2 DEF ListKeys, Steps
  <2>2. CASE ~(Cardinality(keys) >= 2)
    BY <1>1, <2>2 DEF ListKeys, Steps
  <2>. QED
    BY <2>1, <2>2
<1>2. CASE Evict(m)
  BY <1>0, <1>2 DEF Evict, Steps
<1>3. CASE CreateKey(m)
  <2>1. CASE Cardinality(keys) >= 2
    BY <1>3, <2>1 DEF CreateKey, Steps
  <2>2. CASE ~(Cardinality(keys) >= 2)
    <3>1. [job[m] EXCEPT !.key = minted + 1] \in Jobs /\ [job[m] EXCEPT !.key = minted + 1].key = minted + 1
      BY <1>0 DEF Jobs
    <3>2. minted' = minted + 1 /\ keys' = keys \cup {minted + 1} /\ keychain' = keychain
      BY <1>3, <2>2 DEF CreateKey
    <3>3. minted' \in Nat /\ 1 .. minted \subseteq 1 .. minted' /\ minted + 1 \in 1 .. minted'
      BY <3>2
    <3>4. keys' \in SUBSET (1 .. minted') /\ keychain' \in [Macs -> 1 .. minted' \cup {None}]
      BY <3>2, <3>3
    <3>5. \A n \in Macs : n # m => pc'[n] = pc[n] /\ job'[n] = job[n]
      BY <1>3, <2>2 DEF CreateKey
    <3>6. pc'[m] = "store" /\ job'[m].key = minted + 1 /\ job' \in [Macs -> Jobs] /\ pc' \in [Macs -> Steps]
      BY <1>3, <2>2, <3>1 DEF CreateKey, Steps
    <3>7. JobsOK'
      BY <3>3, <3>5, <3>6
    <3>8. DeploymentTypeOK'
      BY <1>3, <2>2, <3>3, <3>4, <3>6 DEF CreateKey
    <3>. QED
      BY <3>7, <3>8
  <2>. QED
    BY <2>1, <2>2
<1>4. CASE StoreKey(m)
  BY <1>0, <1>4 DEF StoreKey, Steps
<1>. QED
  BY <1>1, <1>2, <1>3, <1>4

LEMMA TypesOfDeploySteps ==
  ASSUME Types, NEW m \in Macs,
         StackExists(m) \/ ExistingParameterKeys(m) \/ CreateChangeSet(m) \/ WaitForChangeSet(m)
           \/ ExecuteChangeSet(m) \/ WaitForStack(m)
  PROVE  Types'
<1>. USE DEF Types, DeploymentTypeOK, JobsOK, account, identity, control, Goes, Ends, Notes
<1>0. job[m] \in Jobs /\ NoJob \in Jobs
  BY JobChanges
<1>d. Disturbs(m) => disturbed' \in [Macs -> BOOLEAN]
  BY DEF Disturbs
<1>n. [n \in Macs |-> None] \in [Macs -> ParamMaps \cup {None}]
  OBVIOUS
<1>1. CASE StackExists(m)
  <2>1. PICK is \in BOOLEAN : /\ job' = [job EXCEPT ![m] = [NoJob EXCEPT !.exists = is]]
                              /\ pc' = [pc EXCEPT ![m] = IF is THEN "carry" ELSE "change"]
    BY <1>1 DEF StackExists
  <2>2. /\ [NoJob EXCEPT !.exists = is] \in Jobs
        /\ [NoJob EXCEPT !.exists = is].exists = is /\ [NoJob EXCEPT !.exists = is].carried = {}
    BY JobChanges DEF NoJob
  <2>. QED
    BY <1>1, <2>1, <2>2 DEF StackExists, Steps
<1>2. CASE ExistingParameterKeys(m)
  <2>1. CASE Exists
    <3>1. stack.params \in ParamMaps
      BY <2>1 DEF Exists, Stacks
    <3>2. DOMAIN stack.params \in SUBSET Params
      BY <3>1 DEF ParamMaps
    <3>3. /\ [job[m] EXCEPT !.carried = DOMAIN stack.params] \in Jobs
          /\ [job[m] EXCEPT !.carried = DOMAIN stack.params].exists = job[m].exists
      BY <1>0, <3>2 DEF Jobs
    <3>. QED
      BY <1>2, <2>1, <3>3 DEF ExistingParameterKeys, Steps
  <2>2. CASE ~Exists
    BY <1>2, <2>2 DEF ExistingParameterKeys, Steps, Endings
  <2>. QED
    BY <2>1, <2>2
<1>3. CASE CreateChangeSet(m)
  <2>1. CASE Ends(m, "undeclared") /\ UNCHANGED <<stack, sets, job, disturbed>>
    BY <1>3, <2>1 DEF CreateChangeSet, Steps, Endings
  <2>2. CASE Ends(m, "refused") /\ UNCHANGED <<stack, sets, job, disturbed>>
    BY <1>3, <2>2 DEF CreateChangeSet, Steps, Endings
  <2>3. CASE /\ Takes(job[m].exists)
             /\ job[m].exists => Input(m) \ Sent \subseteq DOMAIN stack.params
             /\ sets' = [sets EXCEPT ![m] = Resolved(m)]
             /\ stack' = IF Exists THEN stack
                         ELSE [status |-> "REVIEW_IN_PROGRESS", params |-> <<>>, next |-> <<>>, lb |-> None]
             /\ Notes(m, [job[m] EXCEPT !.carried = {}])
             /\ Disturbs(m)
             /\ Goes(m, "planned")
    <3>1. Resolved(m) \in ParamMaps
      BY <1>3, <2>3, ResolvedIsMap DEF CreateChangeSet
    <3>2. stack' \in Stacks \cup {None}
      BY <2>3, EmptyMap DEF Stacks, Statuses
    <3>3. [job[m] EXCEPT !.carried = {}] \in Jobs
      BY <1>0 DEF Jobs
    <3>. QED
      BY <1>3, <1>d, <2>3, <3>1, <3>2, <3>3 DEF CreateChangeSet, Steps
  <2>. QED
    BY <1>3, <2>1, <2>2, <2>3 DEF CreateChangeSet
<1>4. CASE WaitForChangeSet(m)
  BY <1>4 DEF WaitForChangeSet, Steps, Endings
<1>5. CASE ExecuteChangeSet(m)
  <2>1. CASE sets[m] # None /\ Takes(job[m].exists) /\ Exists
    <3>1. sets[m] \in ParamMaps /\ stack \in Stacks
      BY <2>1 DEF Exists
    <3>2. stack' \in Stacks
      BY <1>5, <2>1, <3>1 DEF ExecuteChangeSet, Stacks, Statuses
    <3>. QED
      BY <1>5, <1>d, <1>n, <2>1, <3>2 DEF ExecuteChangeSet, Steps, Waits
  <2>2. CASE ~(sets[m] # None /\ Takes(job[m].exists) /\ Exists)
    BY <1>5, <2>2 DEF ExecuteChangeSet, Steps, Endings
  <2>. QED
    BY <2>1, <2>2
<1>6. CASE WaitForStack(m)
  BY <1>6 DEF WaitForStack, Steps, Endings
<1>. QED
  BY <1>1, <1>2, <1>3, <1>4, <1>5, <1>6

LEMMA TypesOfLaterSteps ==
  ASSUME Types, NEW m \in Macs,
         \/ StackOutputs(m) \/ UpsertAlias(m) \/ WaitForParameter(m) \/ SaveSettings(m)
         \/ RemoveProfile(m) \/ DeleteAppAccessKey(m) \/ ForgetAppCredentials(m) \/ DeleteAlias(m)
         \/ DeleteStack(m) \/ WaitUntilGone(m) \/ DeleteParametersByPath(m) \/ GivesUp(m)
  PROVE  Types'
<1>j. job[m] \in Jobs
  BY DEF Types, JobsOK
<1>0. job[m] \in Jobs /\ NoJob \in Jobs /\ job[m].lb \in Nat \cup {None} /\ job[m].deletes \in BOOLEAN
  BY <1>j, JobChanges DEF Jobs
<1>. USE DEF Types, DeploymentTypeOK, JobsOK, account, identity, control, Goes, Ends, Notes
<1>d. Disturbs(m) => disturbed' \in [Macs -> BOOLEAN]
  BY DEF Disturbs
<1>n. [n \in Macs |-> None] \in [Macs -> ParamMaps \cup {None}]
  OBVIOUS
<1>1. CASE StackOutputs(m)
  <2>1. CASE Exists /\ stack.lb # None
    <3>1. [NoJob EXCEPT !.lb = stack.lb] \in Jobs
      BY <2>1, JobChanges DEF Exists, Stacks
    <3>. QED
      BY <1>1, <2>1, <3>1 DEF StackOutputs, Steps
  <2>2. CASE ~(Exists /\ stack.lb # None)
    BY <1>1, <2>2 DEF StackOutputs, Steps, Endings
  <2>. QED
    BY <2>1, <2>2
<1>2. CASE UpsertAlias(m)
  <2>1. alias' \in Nat \cup {None} /\ disturbed' \in [Macs -> BOOLEAN]
    BY <1>0, <1>2, <1>d DEF UpsertAlias
  <2>. QED
    BY <1>2, <2>1 DEF UpsertAlias, Steps, Waits
<1>3. CASE WaitForParameter(m)
  BY <1>3 DEF WaitForParameter, Steps, Waits
<1>4. CASE SaveSettings(m)
  BY <1>0, <1>4 DEF SaveSettings, Steps, Endings
<1>5. CASE RemoveProfile(m)
  BY <1>5 DEF RemoveProfile, AfterKeys, Steps, Endings
<1>6. CASE DeleteAppAccessKey(m)
  BY <1>6 DEF DeleteAppAccessKey, Steps
<1>7. CASE ForgetAppCredentials(m)
  BY <1>7 DEF ForgetAppCredentials, AfterKeys, Steps, Endings
<1>8. CASE DeleteAlias(m)
  BY <1>8, <1>d DEF DeleteAlias, Steps
<1>9. CASE DeleteStack(m)
  <2>1. CASE Status = "UPDATE_IN_PROGRESS"
    BY <1>9, <2>1 DEF DeleteStack, Steps, Endings
  <2>2. CASE Status # "UPDATE_IN_PROGRESS"
    <3>1. stack' \in Stacks \cup {None}
      BY <1>9, <2>2 DEF DeleteStack, Exists, Stacks, Statuses
    <3>. QED
      BY <1>9, <1>d, <1>n, <2>2, <3>1 DEF DeleteStack, Steps, Waits
  <2>. QED
    BY <2>1, <2>2
<1>10. CASE WaitUntilGone(m)
  BY <1>10 DEF WaitUntilGone, Steps
<1>11. CASE DeleteParametersByPath(m)
  BY <1>11, <1>d DEF DeleteParametersByPath, Steps, Endings
<1>12. CASE GivesUp(m)
  BY <1>12 DEF GivesUp, Steps, Endings
<1>. QED
  BY <1>1, <1>2, <1>3, <1>4, <1>5, <1>6, <1>7, <1>8, <1>9, <1>10, <1>11, <1>12

LEMMA TypesOfControlSteps ==
  ASSUME Types,
         \/ \E m \in Macs : ResolveClient(m) \/ Fault(m)
         \/ \E m \in Macs, deletes \in BOOLEAN : Uninstall(m, deletes)
         \/ Finish \/ Publish
  PROVE  Types'
<1>. USE DEF Types, DeploymentTypeOK, JobsOK, account, identity, control, Starts, Notes
<1>1. ASSUME NEW m \in Macs, ResolveClient(m)
      PROVE  Types'
  <2>1. begun' \in 0 .. MaxRuns
    BY <1>1, DeploymentAssumption DEF ResolveClient
  <2>2. NoJob \in Jobs
    BY JobChanges, <1>1
  <2>. QED
    BY <1>1, <2>1, <2>2 DEF ResolveClient, Steps, Endings
<1>2. ASSUME NEW m \in Macs, NEW deletes \in BOOLEAN, Uninstall(m, deletes)
      PROVE  Types'
  <2>1. begun' \in 0 .. MaxRuns
    <3>1. begun < MaxRuns /\ begun' = begun + 1
      BY <1>2 DEF Uninstall
    <3>. QED
      BY <3>1, DeploymentAssumption
  <2>2. [NoJob EXCEPT !.lb = settings[m], !.known = settings[m] # None, !.deletes = deletes] \in Jobs
    BY JobChanges, <1>2
  <2>3. PICK j \in Jobs : job' = [job EXCEPT ![m] = j]
    BY <1>2, <2>2 DEF Uninstall
  <2>. QED
    BY <1>2, <2>1, <2>3 DEF Uninstall, Steps, Endings
<1>3. ASSUME NEW m \in Macs, Fault(m)
      PROVE  Types'
  <2>1. faults' \in 0 .. MaxFaults
    BY <1>3, DeploymentAssumption DEF Fault
  <2>2. PICK step \in {"idle", "exists", "forget", "delete"} : pc' = [pc EXCEPT ![m] = step]
    BY <1>3 DEF Fault, Tolerated, Regardless
  <2>3. ended' \in [Macs -> Endings]
    BY <1>3 DEF Fault, Endings, Regardless
  <2>. QED
    BY <1>3, <2>1, <2>2, <2>3 DEF Fault, Steps
<1>4. CASE Finish
  <2>1. stack' \in Stacks \cup {None} /\ created' \in Nat
    <3>1. stack \in Stacks
      BY <1>4 DEF Finish, Status, Exists
    <3>2. stack.params \in ParamMaps /\ stack.next \in ParamMaps
      BY <3>1 DEF Stacks
    <3>3. CASE Status = "CREATE_IN_PROGRESS"
      <4>1. CASE /\ created' = created + 1
                 /\ stack' = [stack EXCEPT !.status = "CREATE_COMPLETE", !.next = <<>>, !.lb = created + 1]
        <5>1. created + 1 \in Nat
          OBVIOUS
        <5>2. "CREATE_COMPLETE" \in Statuses
          BY DEF Statuses, Settled
        <5>. QED
          BY <3>1, <4>1, <5>1, <5>2, EmptyMap DEF Stacks
      <4>2. CASE /\ created' = created
                 /\ stack' = [stack EXCEPT !.status = "ROLLBACK_COMPLETE", !.next = <<>>]
        BY <3>1, <4>2, EmptyMap DEF Stacks, Statuses, Failed
      <4>. QED
        BY <1>4, <3>3, <4>1, <4>2 DEF Finish
    <3>4. CASE Status = "UPDATE_IN_PROGRESS"
      BY <1>4, <3>1, <3>2, <3>4, EmptyMap DEF Finish, Stacks, Statuses, Settled, Failed
    <3>5. CASE Status = "DELETE_IN_PROGRESS"
      BY <1>4, <3>1, <3>5 DEF Finish, Stacks, Statuses, Failed
    <3>. QED
      BY <1>4, <3>3, <3>4, <3>5 DEF Finish
  <2>2. pulled' \in BOOLEAN
    BY <1>4 DEF Finish
  <2>. QED
    BY <1>4, <2>1, <2>2 DEF Finish
<1>5. CASE Publish
  BY <1>5 DEF Publish
<1>. QED
  BY <1>1, <1>2, <1>3, <1>4, <1>5

LEMMA TypesOfInit == Init => Types
<1>. SUFFICES ASSUME Init
              PROVE  Types
  OBVIOUS
<1>1. NoJob \in Jobs
  BY DEF NoJob, Jobs
<1>2. JobsOK
  BY <1>1 DEF Init, JobsOK
<1>3. begun \in 0 .. MaxRuns /\ faults \in 0 .. MaxFaults
  BY DeploymentAssumption DEF Init
<1>. QED
  BY <1>2, <1>3 DEF Init, Types, DeploymentTypeOK, Steps, Endings

LEMMA TypesOfNext == Types /\ [Next]_deploymentVars => Types'
<1>. SUFFICES ASSUME Types, [Next]_deploymentVars
              PROVE  Types'
  OBVIOUS
<1>1. ASSUME NEW m \in Macs, Step(m)
      PROVE  Types'
  BY <1>1, TypesOfKeySteps, TypesOfDeploySteps, TypesOfLaterSteps DEF Step
<1>2. CASE UNCHANGED deploymentVars
  BY <1>2 DEF deploymentVars, account, identity, control, Types, DeploymentTypeOK, JobsOK
<1>. QED
  BY <1>1, <1>2, TypesOfControlSteps DEF Next

\* The account, the Macs' records and their commands keep their shapes, in
\* whatever order the commands of however many Macs are carried out.
THEOREM DeploymentTypeCorrect == Spec => []DeploymentTypeOK
<1>1. Spec => []Types
  BY TypesOfInit, TypesOfNext, PTL DEF Spec
<1>. QED
  BY <1>1, PTL DEF Types

-----------------------------------------------------------------------------
\* A step of another Mac's command leaves a Mac's own state alone and, unless
\* it is a disturbance, the deployment too.
OthersStep(n) == Step(n) \/ ResolveClient(n) \/ Fault(n) \/ \E deletes \in BOOLEAN : Uninstall(n, deletes)

LEMMA OthersLeaveAlone ==
  ASSUME Types, NEW m \in Macs, NEW n \in Macs, n # m, OthersStep(n)
  PROVE  /\ pc'[m] = pc[m] /\ job'[m] = job[m] /\ ended'[m] = ended[m]
         /\ keychain'[m] = keychain[m] /\ sets'[m] \in {sets[m], None}
         /\ faults' >= faults /\ pulled' = pulled
         /\ ~disturbed'[m] =>
              ~disturbed[m] /\ stack' = stack /\ alias' = alias /\ published' = published /\ sets'[m] = sets[m]
<1>. DEFINE Same == /\ pc'[m] = pc[m] /\ job'[m] = job[m] /\ ended'[m] = ended[m]
                    /\ keychain'[m] = keychain[m] /\ sets'[m] \in {sets[m], None}
                    /\ faults' >= faults /\ pulled' = pulled
                    /\ ~disturbed'[m] =>
                         /\ ~disturbed[m] /\ stack' = stack /\ alias' = alias
                         /\ published' = published /\ sets'[m] = sets[m]
<1>0. /\ pc \in [Macs -> Steps] /\ job \in [Macs -> Jobs] /\ ended \in [Macs -> Endings]
      /\ sets \in [Macs -> ParamMaps \cup {None}] /\ disturbed \in [Macs -> BOOLEAN] /\ faults \in Int
      /\ keychain \in [Macs -> 1 .. minted \cup {None}]
  BY DEF Types, DeploymentTypeOK, JobsOK
<1>d. Disturbs(n) => disturbed'[m]
  BY DEF Disturbs
<1>. USE DEF account, identity, control, Goes, Ends, Notes, Starts
<1>1. CASE ListKeys(n) \/ Evict(n) \/ CreateKey(n) \/ StoreKey(n)
  BY <1>0, <1>1 DEF ListKeys, Evict, CreateKey, StoreKey
<1>2. CASE StackExists(n) \/ ExistingParameterKeys(n) \/ WaitForStack(n)
  BY <1>0, <1>2 DEF StackExists, ExistingParameterKeys, WaitForStack
<1>3. CASE CreateChangeSet(n)
  BY <1>0, <1>3, <1>d DEF CreateChangeSet
<1>4. CASE WaitForChangeSet(n)
  BY <1>0, <1>4 DEF WaitForChangeSet
<1>5. CASE ExecuteChangeSet(n)
  BY <1>0, <1>5, <1>d DEF ExecuteChangeSet
<1>6. CASE StackOutputs(n) \/ UpsertAlias(n) \/ WaitForParameter(n) \/ SaveSettings(n)
  BY <1>0, <1>6, <1>d DEF StackOutputs, UpsertAlias, WaitForParameter, SaveSettings
<1>7. CASE RemoveProfile(n) \/ DeleteAppAccessKey(n) \/ ForgetAppCredentials(n)
  BY <1>0, <1>7 DEF RemoveProfile, DeleteAppAccessKey, ForgetAppCredentials, AfterKeys
<1>8. CASE DeleteAlias(n) \/ WaitUntilGone(n) \/ DeleteParametersByPath(n) \/ GivesUp(n)
  BY <1>0, <1>8, <1>d DEF DeleteAlias, WaitUntilGone, DeleteParametersByPath, GivesUp
<1>9. CASE DeleteStack(n)
  BY <1>0, <1>9, <1>d DEF DeleteStack
<1>10. CASE ResolveClient(n)
  BY <1>0, <1>10 DEF ResolveClient
<1>11. CASE Fault(n)
  BY <1>0, <1>11 DEF Fault
<1>12. ASSUME NEW deletes \in BOOLEAN, Uninstall(n, deletes)
       PROVE  Same
  BY <1>0, <1>12 DEF Uninstall
<1>. HIDE DEF account, identity, control, Goes, Ends, Notes, Starts
<1>. QED
  BY <1>1, <1>2, <1>3, <1>4, <1>5, <1>6, <1>7, <1>8, <1>9, <1>10, <1>11, <1>12 DEF OthersStep, Step

LEMMA FinishChanges ==
  ASSUME Finish
  PROVE  /\ UNCHANGED <<sets, alias, published, keys, minted, keychain, settings, pc, job, ended, begun, faults>>
         /\ disturbed' = [n \in Macs |-> disturbed[n] \/ pc[n] \notin {"stack", "gone"}]
         /\ pulled' = (pulled \/ (stack' = None /\ \E n \in Macs : pc[n] \in Planning /\ job[n].exists))
  BY Zenon DEF Finish, identity

\* So do the account's own steps, but for a stack that the Mac waits for.
LEMMA AccountLeavesAlone ==
  ASSUME Types, NEW m \in Macs, Finish \/ Publish
  PROVE  /\ UNCHANGED <<pc, job, ended, keychain, sets, alias, faults, keys, minted>>
         /\ published => published'
         /\ ~disturbed'[m] => ~disturbed[m] /\ (stack' = stack \/ (Finish /\ pc[m] \in {"stack", "gone"}))
<1>0. disturbed \in [Macs -> BOOLEAN]
  BY DEF Types, DeploymentTypeOK
<1>1. CASE Finish
  <2>1. /\ UNCHANGED <<pc, job, ended, keychain, sets, alias, published, faults, keys, minted>>
        /\ disturbed'[m] = (disturbed[m] \/ pc[m] \notin {"stack", "gone"})
    BY <1>1, FinishChanges
  <2>. QED
    BY <1>0, <1>1, <2>1
<1>2. CASE Publish
  BY <1>0, <1>2 DEF Publish, identity, control
<1>. QED
  BY <1>1, <1>2

\* The states that a step is taken from, by a Mac, another or the account.
LEMMA WhoSteps ==
  ASSUME [Next]_deploymentVars
  PROVE  (\E n \in Macs : OthersStep(n)) \/ Finish \/ Publish \/ UNCHANGED deploymentVars
  BY DEF Next, OthersStep

-----------------------------------------------------------------------------
\* What a Mac that nobody disturbs has seen of the stack is so until its
\* change set is made.
SeenIsSo(m) ==
  /\ pc[m] \in {"carry", "change"} => (job[m].exists <=> Status \notin {"NONE", "REVIEW_IN_PROGRESS"})
  /\ pc[m] = "change" /\ job[m].exists => job[m].carried \subseteq DOMAIN stack.params

RefusalInv == \A m \in Macs : ~disturbed[m] => SeenIsSo(m)

LEMMA RefusalOfOwnStep ==
  ASSUME Types, RefusalInv, NEW m \in Macs, OthersStep(m), ~disturbed'[m]
  PROVE  SeenIsSo(m)'
<1>0. /\ pc \in [Macs -> Steps] /\ job \in [Macs -> Jobs] /\ disturbed \in [Macs -> BOOLEAN]
  BY DEF Types, DeploymentTypeOK, JobsOK
<1>. USE DEF account, identity, control, Goes, Ends, Notes, SeenIsSo
<1>1. CASE StackExists(m)
  <2>1. stack' = stack
    BY <1>1 DEF StackExists
  <2>2. PICK is \in BOOLEAN : /\ is <=> Status \notin {"NONE", "REVIEW_IN_PROGRESS"}
                              /\ job' = [job EXCEPT ![m] = [NoJob EXCEPT !.exists = is]]
    BY <1>1 DEF StackExists
  <2>3. job'[m].exists = is /\ job'[m].carried = {}
    BY <1>0, <2>2 DEF NoJob
  <2>. QED
    BY <2>1, <2>2, <2>3 DEF Status, Exists
<1>2. CASE ExistingParameterKeys(m)
  <2>1. stack' = stack /\ pc[m] = "carry" /\ disturbed' = disturbed
    BY <1>2 DEF ExistingParameterKeys
  <2>2. CASE Exists
    <3>1. job'[m].exists = job[m].exists /\ job'[m].carried = DOMAIN stack.params
      BY <1>0, <1>2, <2>2 DEF ExistingParameterKeys, Jobs
    <3>. QED
      BY <1>0, <2>1, <3>1 DEF RefusalInv, Status, Exists
  <2>3. CASE ~Exists
    BY <1>0, <1>2, <2>3 DEF ExistingParameterKeys
  <2>. QED
    BY <2>2, <2>3
<1>3. pc'[m] \notin {"carry", "change"} \/ StackExists(m) \/ ExistingParameterKeys(m)
  <2>. USE <1>0
  <2>1. CASE ListKeys(m) \/ Evict(m) \/ CreateKey(m) \/ StoreKey(m)
    BY <2>1 DEF ListKeys, Evict, CreateKey, StoreKey
  <2>2. CASE WaitForStack(m) \/ CreateChangeSet(m) \/ WaitForChangeSet(m) \/ ExecuteChangeSet(m)
    BY <2>2 DEF WaitForStack, CreateChangeSet, WaitForChangeSet, ExecuteChangeSet
  <2>3. CASE StackOutputs(m) \/ UpsertAlias(m) \/ WaitForParameter(m) \/ SaveSettings(m)
    BY <2>3 DEF StackOutputs, UpsertAlias, WaitForParameter, SaveSettings
  <2>4. CASE RemoveProfile(m) \/ DeleteAppAccessKey(m) \/ ForgetAppCredentials(m)
    BY <2>4 DEF RemoveProfile, DeleteAppAccessKey, ForgetAppCredentials, AfterKeys
  <2>5. CASE DeleteAlias(m) \/ WaitUntilGone(m) \/ DeleteParametersByPath(m) \/ GivesUp(m) \/ DeleteStack(m)
    BY <2>5 DEF DeleteAlias, WaitUntilGone, DeleteParametersByPath, GivesUp, DeleteStack
  <2>6. CASE ResolveClient(m)
    BY <2>6 DEF ResolveClient, Starts
  <2>7. CASE Fault(m)
    BY <2>7 DEF Fault, Tolerated, Regardless
  <2>8. ASSUME NEW deletes \in BOOLEAN, Uninstall(m, deletes)
        PROVE  pc'[m] \notin {"carry", "change"}
    BY <2>8 DEF Uninstall, Starts
  <2>. QED
    BY <2>1, <2>2, <2>3, <2>4, <2>5, <2>6, <2>7, <2>8 DEF OthersStep, Step
<1>. QED
  BY <1>1, <1>2, <1>3

LEMMA RefusalOfNext == Types /\ RefusalInv /\ [Next]_deploymentVars => RefusalInv'
<1>. SUFFICES ASSUME Types, RefusalInv, [Next]_deploymentVars, NEW m \in Macs, ~disturbed'[m]
              PROVE  SeenIsSo(m)'
  BY DEF RefusalInv
<1>1. CASE UNCHANGED deploymentVars
  BY <1>1 DEF deploymentVars, account, control, RefusalInv, SeenIsSo, Status, Exists
<1>2. ASSUME NEW n \in Macs, OthersStep(n)
      PROVE  SeenIsSo(m)'
  <2>1. CASE n = m
    BY <1>2, <2>1, RefusalOfOwnStep
  <2>2. CASE n # m
    <3>1. ~disturbed[m] /\ stack' = stack /\ pc'[m] = pc[m] /\ job'[m] = job[m]
      BY <1>2, <2>2, OthersLeaveAlone
    <3>. QED
      BY <3>1 DEF RefusalInv, SeenIsSo, Status, Exists
  <2>. QED
    BY <2>1, <2>2
<1>3. CASE Finish \/ Publish
  <2>1. /\ ~disturbed[m] /\ pc'[m] = pc[m] /\ job'[m] = job[m]
        /\ stack' = stack \/ pc[m] \in {"stack", "gone"}
    BY <1>3, AccountLeavesAlone
  <2>. QED
    BY <2>1 DEF RefusalInv, SeenIsSo, Status, Exists
<1>. QED
  BY <1>1, <1>2, <1>3, WhoSteps

RefusedNow ==
  \A m \in Macs : ended[m] = "running" /\ ~disturbed[m] =>
    /\ ended'[m] # "undeclared"
    /\ ended'[m] = "refused" => Status \notin Settled \cup {"REVIEW_IN_PROGRESS"}

LEMMA RefusalsHaveCauses == Types /\ RefusalInv /\ [Next]_deploymentVars => RefusedNow
<1>. SUFFICES ASSUME Types, RefusalInv, [Next]_deploymentVars,
                     NEW m \in Macs, ended[m] = "running", ~disturbed[m]
              PROVE  /\ ended'[m] # "undeclared"
                     /\ ended'[m] = "refused" => Status \notin Settled \cup {"REVIEW_IN_PROGRESS"}
  BY DEF RefusedNow
<1>0. ended \in [Macs -> Endings]
  BY DEF Types, DeploymentTypeOK
<1>1. CASE CreateChangeSet(m)
  <2>. DEFINE taken == /\ Takes(job[m].exists)
                       /\ job[m].exists => Input(m) \ Sent \subseteq DOMAIN stack.params
  <2>1. Input(m) \subseteq Declares[m] /\ Input(m) \ Sent \subseteq job[m].carried
    BY DEF Input
  <2>2. SeenIsSo(m) /\ pc[m] = "change"
    BY <1>1 DEF RefusalInv, CreateChangeSet
  <2>3. Status \in Settled \cup {"REVIEW_IN_PROGRESS"} => taken
    BY <2>1, <2>2 DEF SeenIsSo, Takes, Settled
  <2>4. taken => pc'[m] = "planned" /\ ended' = ended
    BY <1>1, <2>1 DEF CreateChangeSet, Goes, Types, DeploymentTypeOK
  <2>5. ended'[m] # "undeclared"
    BY <1>0, <1>1, <2>1 DEF CreateChangeSet, Goes, Ends
  <2>. QED
    BY <2>3, <2>4, <2>5
<1>2. CASE UNCHANGED deploymentVars
  BY <1>2 DEF deploymentVars, control
<1>3. CASE Finish \/ Publish
  BY <1>3, AccountLeavesAlone
<1>4. ASSUME NEW n \in Macs, n # m, OthersStep(n)
      PROVE  ended'[m] = "running"
  BY <1>4, OthersLeaveAlone
<1>5. ASSUME OthersStep(m), ~CreateChangeSet(m)
      PROVE  ended'[m] \notin {"undeclared", "refused"}
  <2>. USE <1>0, <1>5 DEF account, identity, control, Goes, Ends
  <2>1. CASE ListKeys(m) \/ Evict(m) \/ CreateKey(m) \/ StoreKey(m)
    BY <2>1 DEF ListKeys, Evict, CreateKey, StoreKey
  <2>2. CASE StackExists(m) \/ ExistingParameterKeys(m) \/ WaitForStack(m) \/ WaitForChangeSet(m)
    BY <2>2 DEF StackExists, ExistingParameterKeys, WaitForStack, WaitForChangeSet
  <2>3. CASE ExecuteChangeSet(m)
    BY <2>3 DEF ExecuteChangeSet
  <2>4. CASE StackOutputs(m) \/ UpsertAlias(m) \/ WaitForParameter(m) \/ SaveSettings(m)
    BY <2>4 DEF StackOutputs, UpsertAlias, WaitForParameter, SaveSettings
  <2>5. CASE RemoveProfile(m) \/ DeleteAppAccessKey(m) \/ ForgetAppCredentials(m)
    BY <2>5 DEF RemoveProfile, DeleteAppAccessKey, ForgetAppCredentials, AfterKeys
  <2>6. CASE DeleteAlias(m) \/ WaitUntilGone(m) \/ DeleteParametersByPath(m) \/ GivesUp(m) \/ DeleteStack(m)
    BY <2>6 DEF DeleteAlias, WaitUntilGone, DeleteParametersByPath, GivesUp, DeleteStack
  <2>7. CASE ResolveClient(m)
    BY <2>7 DEF ResolveClient, Starts
  <2>8. CASE Fault(m)
    BY <2>8 DEF Fault, Tolerated, Regardless
  <2>9. ASSUME NEW deletes \in BOOLEAN, Uninstall(m, deletes)
        PROVE  ended'[m] \notin {"undeclared", "refused"}
    BY <2>9 DEF Uninstall, Starts
  <2>. HIDE DEF account, identity, control, Goes, Ends
  <2>. QED
    BY <2>1, <2>2, <2>3, <2>4, <2>5, <2>6, <2>7, <2>8, <2>9 DEF OthersStep, Step
<1>. QED
  BY <1>1, <1>2, <1>3, <1>4, <1>5, WhoSteps

LEMMA RefusalOfInit == Init => RefusalInv
  BY DEF Init, RefusalInv, SeenIsSo

\* A deployment is refused only where the stack can take none: neither the
\* change set of an earlier run nor a parameter that a newer template has
\* dropped stops it, with any number of Macs and of versions.
THEOREM RefusalsForCause == Spec => RefusedForCause
<1>1. Spec => [](Types /\ RefusalInv)
  BY TypesOfInit, TypesOfNext, RefusalOfInit, RefusalOfNext, PTL DEF Spec
<1>2. Types /\ RefusalInv /\ [Next]_deploymentVars => [RefusedNow]_deploymentVars
  BY RefusalsHaveCauses
<1>3. Spec => [][RefusedNow]_deploymentVars
  BY <1>1, <1>2, PTL DEF Spec
<1>. QED
  BY <1>3 DEF RefusedNow, RefusedForCause

-----------------------------------------------------------------------------
\* How a step of a command that leaves the stack alone comes to be, or to stay,
\* between the look at the stack and its change set.
Plans(m) ==
  pc'[m] \in Planning /\ job'[m].exists =>
    \/ pc'[m] = "carry" /\ Status \notin {"NONE", "REVIEW_IN_PROGRESS"}
    \/ pc[m] = "carry" /\ job[m].exists /\ pc'[m] = "change" /\ Exists /\ job'[m].carried = DOMAIN stack.params
    \/ pc[m] = "planned" /\ pc'[m] = "execute" /\ job'[m] = job[m]

Quiet(m) == stack' = stack /\ pulled' = pulled /\ (\A n \in Macs : sets'[n] \in {sets[n], None}) /\ Plans(m)

LEMMA QuietSteps ==
  ASSUME Types, NEW m \in Macs, OthersStep(m),
         ~CreateChangeSet(m), ~ExecuteChangeSet(m), ~DeleteStack(m)
  PROVE  Quiet(m)
<1>0. /\ pc \in [Macs -> Steps] /\ job \in [Macs -> Jobs]
      /\ sets \in [Macs -> ParamMaps \cup {None}]
  BY DEF Types, DeploymentTypeOK, JobsOK
<1>. USE DEF account, identity, control, Goes, Ends, Notes, Quiet, Plans, Planning
<1>1. CASE StackExists(m)
  <2>1. PICK is \in BOOLEAN : /\ is <=> Status \notin {"NONE", "REVIEW_IN_PROGRESS"}
                              /\ job' = [job EXCEPT ![m] = [NoJob EXCEPT !.exists = is]]
                              /\ pc' = [pc EXCEPT ![m] = IF is THEN "carry" ELSE "change"]
    BY <1>1 DEF StackExists
  <2>2. job'[m].exists = is /\ pc'[m] = IF is THEN "carry" ELSE "change"
    BY <1>0, <2>1 DEF NoJob
  <2>3. stack' = stack /\ sets' = sets /\ pulled' = pulled
    BY <1>1 DEF StackExists
  <2>. QED
    BY <2>1, <2>2, <2>3
<1>2. CASE ExistingParameterKeys(m)
  <2>1. CASE Exists
    <3>1. job'[m].exists = job[m].exists /\ job'[m].carried = DOMAIN stack.params
      BY <1>0, <1>2, <2>1 DEF ExistingParameterKeys, Jobs
    <3>. QED
      BY <1>0, <1>2, <2>1, <3>1 DEF ExistingParameterKeys
  <2>2. CASE ~Exists
    BY <1>0, <1>2, <2>2 DEF ExistingParameterKeys
  <2>. QED
    BY <2>1, <2>2
<1>3. CASE WaitForChangeSet(m)
  BY <1>0, <1>3 DEF WaitForChangeSet
<1>. USE <1>0
<1>4. CASE ListKeys(m) \/ Evict(m) \/ CreateKey(m) \/ StoreKey(m)
  BY <1>4 DEF ListKeys, Evict, CreateKey, StoreKey
<1>5. CASE WaitForStack(m) \/ StackOutputs(m) \/ UpsertAlias(m) \/ WaitForParameter(m) \/ SaveSettings(m)
  BY <1>5 DEF WaitForStack, StackOutputs, UpsertAlias, WaitForParameter, SaveSettings
<1>6. CASE RemoveProfile(m) \/ DeleteAppAccessKey(m) \/ ForgetAppCredentials(m)
  BY <1>6 DEF RemoveProfile, DeleteAppAccessKey, ForgetAppCredentials, AfterKeys
<1>7. CASE DeleteAlias(m) \/ WaitUntilGone(m) \/ DeleteParametersByPath(m) \/ GivesUp(m)
  BY <1>7 DEF DeleteAlias, WaitUntilGone, DeleteParametersByPath, GivesUp
<1>8. CASE ResolveClient(m)
  BY <1>8 DEF ResolveClient, Starts
<1>9. CASE Fault(m)
  BY <1>9 DEF Fault, Tolerated, Regardless
<1>10. ASSUME NEW deletes \in BOOLEAN, Uninstall(m, deletes)
       PROVE  Quiet(m)
  BY <1>10 DEF Uninstall, Starts
<1>. HIDE DEF account, identity, control, Goes, Ends, Notes, Quiet, Plans, Planning
<1>. QED
  BY <1>1, <1>2, <1>3, <1>4, <1>5, <1>6, <1>7, <1>8, <1>9, <1>10 DEF OthersStep, Step

\* The image goes with the stack, through every change of it.
HasImage ==
  /\ Status \in Settled \cup {"CREATE_IN_PROGRESS", "UPDATE_IN_PROGRESS"} => Image \in DOMAIN stack.params
  /\ Status = "REVIEW_IN_PROGRESS" => stack.params = <<>>
  /\ Status = "UPDATE_IN_PROGRESS" =>
       Image \in DOMAIN stack.next /\ (~pulled => stack.next[Image] = stack.params[Image])
  /\ \A m \in Macs : sets[m] # None => Image \in DOMAIN sets[m]

\* An update that has seen the stack carries the image it still has.
CarriesImage(m) ==
  ~pulled /\ pc[m] \in Planning /\ job[m].exists =>
    /\ Exists /\ Status # "REVIEW_IN_PROGRESS"
    /\ pc[m] = "change" /\ Image \in DOMAIN stack.params => Image \in job[m].carried
    /\ pc[m] \in {"planned", "execute"} /\ sets[m] # None /\ Image \in DOMAIN stack.params =>
         sets[m][Image] = stack.params[Image]

ImageInv == HasImage /\ \A m \in Macs : CarriesImage(m)

ImageKept ==
  ~pulled /\ stack # None /\ stack' # None /\ Image \in DOMAIN stack.params \cap DOMAIN stack'.params =>
    stack'.params[Image] = stack.params[Image]

LEMMA ImageOfQuietStep ==
  ASSUME Types, ImageInv, NEW n \in Macs, OthersStep(n), Quiet(n)
  PROVE  ImageInv' /\ ImageKept
<1>1. stack' = stack /\ pulled' = pulled /\ \A m \in Macs : sets'[m] \in {sets[m], None}
  BY DEF Quiet
<1>2. HasImage'
  BY <1>1 DEF ImageInv, HasImage, Status, Exists
<1>3. ASSUME NEW m \in Macs
      PROVE  CarriesImage(m)'
  <2>1. CASE m # n
    <3>1. pc'[m] = pc[m] /\ job'[m] = job[m]
      BY <2>1, OthersLeaveAlone
    <3>. QED
      BY <1>1, <3>1 DEF ImageInv, CarriesImage, Status, Exists
  <2>2. CASE m = n
    BY <1>1, <2>2 DEF ImageInv, CarriesImage, Status, Exists, Quiet, Plans, Planning
  <2>. QED
    BY <2>1, <2>2
<1>. QED
  BY <1>1, <1>2, <1>3 DEF ImageInv, ImageKept

LEMMA ImageOfCreateChangeSet ==
  ASSUME Types, ImageInv, NEW n \in Macs, CreateChangeSet(n)
  PROVE  ImageInv' /\ ImageKept
<1>0. /\ pc \in [Macs -> Steps] /\ job \in [Macs -> Jobs]
      /\ sets \in [Macs -> ParamMaps \cup {None}] /\ pc[n] = "change" /\ pulled' = pulled
  BY DEF Types, DeploymentTypeOK, JobsOK, CreateChangeSet, Goes, Ends
<1>. DEFINE new == [status |-> "REVIEW_IN_PROGRESS", params |-> <<>>, next |-> <<>>, lb |-> None]
<1>1. CASE UNCHANGED <<stack, sets, job, disturbed>> /\ (Ends(n, "undeclared") \/ Ends(n, "refused"))
  <2>1. \A m \in Macs : pc'[m] = IF m = n THEN "idle" ELSE pc[m]
    BY <1>0, <1>1 DEF Ends
  <2>. QED
    BY <1>0, <1>1, <2>1 DEF ImageInv, ImageKept, HasImage, CarriesImage, Status, Exists, Planning
<1>2. CASE /\ Takes(job[n].exists)
           /\ job[n].exists => Input(n) \ Sent \subseteq DOMAIN stack.params
           /\ sets' = [sets EXCEPT ![n] = Resolved(n)]
           /\ stack' = IF Exists THEN stack ELSE new
           /\ Notes(n, [job[n] EXCEPT !.carried = {}])
           /\ Goes(n, "planned")
  <2>1. \A m \in Macs : /\ pc'[m] = IF m = n THEN "planned" ELSE pc[m]
                        /\ sets'[m] = IF m = n THEN Resolved(n) ELSE sets[m]
                        /\ job'[m].exists = job[m].exists
                        /\ m # n => job'[m] = job[m]
    BY <1>0, <1>2 DEF Goes, Notes, Jobs
  <2>2. Image \in DOMAIN Resolved(n)
    BY DeploymentAssumption DEF Resolved
  <2>3. new.status = "REVIEW_IN_PROGRESS" /\ new.params = <<>> /\ Image \notin DOMAIN new.params
    OBVIOUS
  <2>4. new # None
    <3>1. new \in Stacks
      BY EmptyMap DEF Stacks, Statuses
    <3>. QED
      BY <3>1, DeploymentAssumption
  <2>. HIDE DEF new
  <2>5. Exists => stack' = stack
    BY <1>2
  <2>6. ~Exists => Status' = "REVIEW_IN_PROGRESS" /\ stack'.params = <<>> /\ Exists'
    BY <1>2, <2>3, <2>4 DEF Status, Exists
  <2>7. Exists => Status' = Status /\ Exists'
    BY <2>5 DEF Status, Exists
  <2>8. HasImage'
    <3>1. \A m \in Macs : sets'[m] # None => Image \in DOMAIN sets'[m]
      BY <2>1, <2>2 DEF ImageInv, HasImage
    <3>2. CASE Exists
      BY <1>0, <2>5, <2>7, <3>1, <3>2 DEF ImageInv, HasImage
    <3>3. CASE ~Exists
      BY <2>6, <3>1, <3>3 DEF HasImage, Settled
    <3>. QED
      BY <3>2, <3>3
  <2>9. ASSUME NEW m \in Macs
        PROVE  CarriesImage(m)'
    <3>1. CASE ~pulled /\ job[m].exists /\ pc'[m] \in Planning
      <4>1. pc[m] \in Planning /\ CarriesImage(m)
        BY <1>0, <2>1, <3>1 DEF ImageInv, Planning
      <4>2. Exists /\ Status # "REVIEW_IN_PROGRESS" /\ stack' = stack
        BY <2>5, <3>1, <4>1 DEF CarriesImage
      <4>3. CASE m # n
        BY <1>0, <2>1, <2>7, <4>1, <4>2, <4>3 DEF CarriesImage
      <4>4. CASE m = n
        <5>1. Image \in DOMAIN stack.params => Image \in Input(n) /\ Image \notin Sent
          BY <1>0, <3>1, <4>1, <4>4, DeploymentAssumption DEF CarriesImage, Input
        <5>2. Image \in DOMAIN stack.params => Resolved(n)[Image] = stack.params[Image]
          BY <5>1, DeploymentAssumption DEF Resolved
        <5>. QED
          BY <1>0, <2>1, <2>7, <4>2, <4>4, <5>2 DEF CarriesImage
      <4>. QED
        BY <4>3, <4>4
    <3>2. CASE ~(~pulled /\ job[m].exists /\ pc'[m] \in Planning)
      BY <1>0, <2>1, <3>2 DEF CarriesImage
    <3>. QED
      BY <3>1, <3>2
  <2>10. ImageKept
    BY <2>5 DEF ImageKept, Exists
  <2>. QED
    BY <2>8, <2>9, <2>10 DEF ImageInv
<1>. QED
  BY <1>1, <1>2 DEF CreateChangeSet

LEMMA ImageOfExecuteChangeSet ==
  ASSUME Types, ImageInv, NEW n \in Macs, ExecuteChangeSet(n)
  PROVE  ImageInv' /\ ImageKept
<1>0. /\ pc \in [Macs -> Steps] /\ job' = job /\ pc[n] = "execute" /\ pulled' = pulled
      /\ pc'[n] \in {"stack", "idle"} /\ \A m \in Macs : m # n => pc'[m] = pc[m]
  BY DEF Types, DeploymentTypeOK, ExecuteChangeSet, Goes, Ends, Steps
<1>1. CASE Ends(n, "failed") /\ UNCHANGED <<stack, sets, disturbed>>
  BY <1>0, <1>1 DEF ImageInv, ImageKept, HasImage, CarriesImage, Status, Exists, Planning
<1>2. CASE sets[n] # None /\ Takes(job[n].exists) /\ Exists
  <2>1. stack \in Stacks /\ stack # None /\ Status = stack.status
    BY <1>2 DEF Types, DeploymentTypeOK, Exists, Status
  <2>2. sets' = [m \in Macs |-> None]
    BY <1>2 DEF ExecuteChangeSet
  <2>3. Image \in DOMAIN sets[n]
    BY <1>2 DEF ImageInv, HasImage
  <2>4. PICK s \in {"UPDATE_IN_PROGRESS", "CREATE_IN_PROGRESS"}, p \in {stack.params, sets[n]} :
          /\ stack' = [stack EXCEPT !.status = s, !.params = p, !.next = sets[n]]
          /\ job[n].exists => s = "UPDATE_IN_PROGRESS" /\ p = stack.params
          /\ ~job[n].exists => s = "CREATE_IN_PROGRESS" /\ p = sets[n]
    <3>1. CASE job[n].exists
      <4>1. stack' = [stack EXCEPT !.status = "UPDATE_IN_PROGRESS", !.params = stack.params, !.next = sets[n]]
        BY <1>2, <3>1 DEF ExecuteChangeSet
      <4>. QED
        BY <3>1, <4>1
    <3>2. CASE ~job[n].exists
      <4>1. stack' = [stack EXCEPT !.status = "CREATE_IN_PROGRESS", !.params = sets[n], !.next = sets[n]]
        BY <1>2, <3>2 DEF ExecuteChangeSet
      <4>. QED
        BY <3>2, <4>1
    <3>. QED
      BY <3>1, <3>2
  <2>5. stack'.status = s /\ stack'.params = p /\ stack'.next = sets[n]
    BY <2>1, <2>4 DEF Stacks
  <2>6. stack' # None
    <3>1. stack' \in Stacks \cup {None}
      BY TypesOfDeploySteps DEF Types, DeploymentTypeOK
    <3>2. sets[n] \in ParamMaps /\ stack.params \in ParamMaps /\ s \in Statuses
      BY <1>2, <2>1 DEF Types, DeploymentTypeOK, Stacks, Statuses
    <3>3. stack' \in Stacks
      BY <2>1, <2>4, <3>2 DEF Stacks
    <3>. QED
      BY <3>3, DeploymentAssumption
  <2>7. Exists' /\ Status' = s
    BY <2>5, <2>6 DEF Status, Exists
  <2>8. CASE job[n].exists
    <3>1. Image \in DOMAIN stack.params
      BY <1>2, <2>8 DEF ImageInv, HasImage, Takes
    <3>2. ~pulled => sets[n][Image] = stack.params[Image]
      BY <1>0, <1>2, <2>8, <3>1 DEF ImageInv, CarriesImage, Planning
    <3>3. HasImage'
      BY <1>0, <2>2, <2>3, <2>4, <2>5, <2>7, <2>8, <3>1, <3>2 DEF HasImage
    <3>4. ASSUME NEW m \in Macs
          PROVE  CarriesImage(m)'
      BY <1>0, <2>2, <2>4, <2>5, <2>7, <2>8 DEF ImageInv, CarriesImage, Planning
    <3>. QED
      BY <2>4, <2>5, <2>8, <3>3, <3>4 DEF ImageInv, ImageKept
  <2>9. CASE ~job[n].exists
    <3>1. Status = "REVIEW_IN_PROGRESS" /\ Image \notin DOMAIN stack.params
      <4>1. Status # "NONE"
        BY <2>1 DEF Stacks, Statuses, Settled, Failed
      <4>2. Status = "REVIEW_IN_PROGRESS"
        BY <1>2, <2>9, <4>1 DEF Takes
      <4>3. stack.params = <<>>
        BY <4>2 DEF ImageInv, HasImage
      <4>. QED
        BY <4>2, <4>3
    <3>2. HasImage'
      BY <2>2, <2>3, <2>4, <2>5, <2>7, <2>9 DEF HasImage, Settled
    <3>3. ASSUME NEW m \in Macs
          PROVE  CarriesImage(m)'
      BY <1>0, <2>9, <3>1 DEF ImageInv, CarriesImage, Planning
    <3>. QED
      BY <3>1, <3>2, <3>3 DEF ImageInv, ImageKept
  <2>. QED
    BY <2>8, <2>9
<1>. QED
  BY <1>1, <1>2 DEF ExecuteChangeSet

LEMMA ImageOfDeleteStack ==
  ASSUME Types, ImageInv, NEW n \in Macs, DeleteStack(n)
  PROVE  ImageInv' /\ ImageKept
<1>0. /\ pc \in [Macs -> Steps] /\ job' = job /\ pc[n] = "delete" /\ pulled' = pulled
      /\ pc'[n] \in {"gone", "idle"} /\ \A m \in Macs : m # n => pc'[m] = pc[m]
  BY DEF Types, DeploymentTypeOK, DeleteStack, Goes, Ends, Steps
<1>1. CASE UNCHANGED <<stack, sets>>
  BY <1>0, <1>1 DEF ImageInv, ImageKept, HasImage, CarriesImage, Status, Exists, Planning
<1>2. CASE /\ stack' = IF Exists THEN [stack EXCEPT !.status = "DELETE_IN_PROGRESS"] ELSE None
           /\ sets' = [m \in Macs |-> None]
  <2>1. CASE Exists
    <3>1. stack \in Stacks /\ "DELETE_IN_PROGRESS" \in Statuses
      BY <2>1 DEF Types, DeploymentTypeOK, Exists, Statuses
    <3>2. stack' \in Stacks /\ stack'.params = stack.params /\ stack'.status = "DELETE_IN_PROGRESS"
      BY <1>2, <2>1, <3>1 DEF Stacks
    <3>3. Exists' /\ Status' = "DELETE_IN_PROGRESS"
      BY <3>2, DeploymentAssumption DEF Exists, Status
    <3>4. HasImage'
      BY <1>2, <3>3 DEF HasImage, Settled
    <3>5. ASSUME NEW m \in Macs
          PROVE  CarriesImage(m)'
      BY <1>0, <1>2, <3>2, <3>3 DEF ImageInv, CarriesImage, Planning
    <3>. QED
      BY <3>2, <3>4, <3>5 DEF ImageInv, ImageKept
  <2>2. CASE ~Exists
    <3>1. ~Exists' /\ Status' = "NONE"
      BY <1>2, <2>2 DEF Exists, Status
    <3>2. HasImage'
      BY <1>2, <3>1 DEF HasImage, Settled
    <3>3. ASSUME NEW m \in Macs
          PROVE  CarriesImage(m)'
      BY <1>0, <2>2 DEF ImageInv, CarriesImage, Planning
    <3>. QED
      BY <2>2, <3>2, <3>3 DEF ImageInv, ImageKept, Exists
  <2>. QED
    BY <2>1, <2>2
<1>. QED
  BY <1>1, <1>2 DEF DeleteStack

\* What CloudFormation makes of a stack.
LEMMA FinishedStack ==
  ASSUME Types, Finish
  PROVE  /\ stack \in Stacks /\ Exists /\ Status = stack.status
         /\ \/ stack' = None /\ Status = "DELETE_IN_PROGRESS"
            \/ /\ stack' \in Stacks /\ Exists' /\ Status' = stack'.status
               /\ \/ /\ Status = "CREATE_IN_PROGRESS" /\ stack'.params = stack.params
                     /\ Status' \in {"CREATE_COMPLETE", "ROLLBACK_COMPLETE"}
                  \/ /\ Status = "UPDATE_IN_PROGRESS"
                     /\ \/ Status' = "UPDATE_COMPLETE" /\ stack'.params = stack.next
                        \/ Status' = "UPDATE_ROLLBACK_COMPLETE" /\ stack'.params = stack.params
                  \/ /\ Status = "DELETE_IN_PROGRESS" /\ Status' = "DELETE_FAILED"
                     /\ stack'.params = stack.params
<1>0. Status \in {"CREATE_IN_PROGRESS", "UPDATE_IN_PROGRESS", "DELETE_IN_PROGRESS"}
  BY Zenon DEF Finish
<1>1. stack \in Stacks /\ Exists /\ Status = stack.status
  BY <1>0 DEF Types, DeploymentTypeOK, Status, Exists
<1>2. stack' \in Stacks => Exists' /\ Status' = stack'.status
  BY DeploymentAssumption DEF Exists, Status
<1>3. stack' \in Stacks \cup {None}
  BY TypesOfControlSteps DEF Types, DeploymentTypeOK
<1>4. CASE Status = "CREATE_IN_PROGRESS"
  <2>1. \/ stack' = [stack EXCEPT !.status = "CREATE_COMPLETE", !.next = <<>>, !.lb = created + 1]
        \/ stack' = [stack EXCEPT !.status = "ROLLBACK_COMPLETE", !.next = <<>>]
    BY <1>4 DEF Finish
  <2>2. stack' \in Stacks
    <3>1. created + 1 \in Nat
      BY DEF Types, DeploymentTypeOK
    <3>2. {"CREATE_COMPLETE", "ROLLBACK_COMPLETE"} \subseteq Statuses
      BY DEF Statuses, Settled, Failed
    <3>. QED
      BY <1>1, <2>1, <3>1, <3>2, EmptyMap DEF Stacks
  <2>3. stack'.params = stack.params /\ stack'.status \in {"CREATE_COMPLETE", "ROLLBACK_COMPLETE"}
    BY <1>1, <2>1 DEF Stacks
  <2>. QED
    BY <1>1, <1>2, <1>4, <2>2, <2>3
<1>5. CASE Status = "UPDATE_IN_PROGRESS"
  <2>1. PICK ok \in BOOLEAN :
          stack' = [stack EXCEPT !.status = IF ok THEN "UPDATE_COMPLETE" ELSE "UPDATE_ROLLBACK_COMPLETE",
                                 !.params = IF ok THEN stack.next ELSE @, !.next = <<>>]
    BY <1>5, Zenon DEF Finish
  <2>2. stack' \in Stacks
    BY <1>1, <2>1, EmptyMap DEF Stacks, Statuses, Settled
  <2>3. /\ stack'.status = IF ok THEN "UPDATE_COMPLETE" ELSE "UPDATE_ROLLBACK_COMPLETE"
        /\ stack'.params = IF ok THEN stack.next ELSE stack.params
    BY <1>1, <2>1 DEF Stacks
  <2>. QED
    BY <1>1, <1>2, <1>5, <2>2, <2>3
<1>6. CASE Status = "DELETE_IN_PROGRESS"
  <2>1. stack' = None \/ stack' = [stack EXCEPT !.status = "DELETE_FAILED"]
    BY <1>6 DEF Finish
  <2>2. CASE stack' = [stack EXCEPT !.status = "DELETE_FAILED"]
    <3>1. "DELETE_FAILED" \in Statuses
      BY DEF Statuses, Failed
    <3>2. stack' \in Stacks /\ stack'.status = "DELETE_FAILED" /\ stack'.params = stack.params
      BY <1>1, <2>2, <3>1 DEF Stacks
    <3>. QED
      BY <1>1, <1>2, <1>6, <3>2
  <2>. QED
    BY <1>1, <1>6, <2>1, <2>2
<1>. QED
  BY <1>0, <1>4, <1>5, <1>6

LEMMA ImageOfAccountStep ==
  ASSUME Types, ImageInv, Finish \/ Publish
  PROVE  ImageInv' /\ ImageKept
<1>1. CASE Publish
  <2>1. UNCHANGED <<stack, sets, pc, job, pulled>>
    BY <1>1 DEF Publish, control
  <2>. QED
    BY <2>1 DEF ImageInv, ImageKept, HasImage, CarriesImage, Status, Exists
<1>2. CASE Finish
  <2>1. UNCHANGED <<sets, pc, job>>
    BY <1>2, FinishChanges
  <2>2. pulled' = (pulled \/ (stack' = None /\ \E n \in Macs : pc[n] \in Planning /\ job[n].exists))
    BY <1>2, FinishChanges
  <2>3. ~pulled' => ~pulled
    BY <2>2
  <2>4. CASE stack' = None
    <3>1. ~Exists' /\ Status' = "NONE"
      BY <2>4 DEF Exists, Status
    <3>2. HasImage'
      BY <2>1, <3>1 DEF ImageInv, HasImage, Settled
    <3>3. \A m \in Macs : CarriesImage(m)'
      BY <2>1, <2>2, <2>4 DEF CarriesImage
    <3>. QED
      BY <2>4, <3>2, <3>3 DEF ImageInv, ImageKept
  <2>5. CASE stack' # None
    <3>1. Exists' /\ Status' # "REVIEW_IN_PROGRESS" /\ Status # "REVIEW_IN_PROGRESS"
      BY <1>2, <2>5, FinishedStack
    <3>2. ~pulled /\ Image \in DOMAIN stack'.params =>
            Image \in DOMAIN stack.params /\ stack'.params[Image] = stack.params[Image]
      BY <1>2, <2>5, FinishedStack DEF ImageInv, HasImage
    <3>3. Status' \in Settled \cup {"CREATE_IN_PROGRESS", "UPDATE_IN_PROGRESS"} => Image \in DOMAIN stack'.params
      BY <1>2, <2>5, FinishedStack DEF ImageInv, HasImage, Settled
    <3>4. Status' # "UPDATE_IN_PROGRESS"
      BY <1>2, <2>5, FinishedStack
    <3>5. HasImage'
      BY <2>1, <3>1, <3>3, <3>4 DEF ImageInv, HasImage
    <3>6. ASSUME NEW m \in Macs
          PROVE  CarriesImage(m)'
      BY <2>1, <2>3, <3>1, <3>2 DEF ImageInv, CarriesImage
    <3>. QED
      BY <3>2, <3>5, <3>6 DEF ImageInv, ImageKept
  <2>. QED
    BY <2>4, <2>5
<1>. QED
  BY <1>1, <1>2

LEMMA ImageOfNext == Types /\ ImageInv /\ [Next]_deploymentVars => ImageInv' /\ ImageKept
<1>. SUFFICES ASSUME Types, ImageInv, [Next]_deploymentVars
              PROVE  ImageInv' /\ ImageKept
  OBVIOUS
<1>1. CASE UNCHANGED deploymentVars
  <2>1. UNCHANGED <<stack, sets, pc, job, pulled>>
    BY <1>1 DEF deploymentVars, account, control
  <2>. QED
    BY <2>1 DEF ImageInv, ImageKept, HasImage, CarriesImage, Status, Exists
<1>2. ASSUME NEW n \in Macs, OthersStep(n)
      PROVE  ImageInv' /\ ImageKept
  BY <1>2, QuietSteps, ImageOfQuietStep, ImageOfCreateChangeSet, ImageOfExecuteChangeSet, ImageOfDeleteStack
<1>. QED
  BY <1>1, <1>2, ImageOfAccountStep, WhoSteps

LEMMA ImageOfInit == Init => ImageInv
  BY DEF Init, ImageInv, HasImage, CarriesImage, Status, Exists, Settled, Planning

\* Whatever the Macs, their versions and the order of their calls, a stack that
\* is there keeps the image it has, but where one was deleted and made anew in
\* the middle of an update.
THEOREM ImageIsKept == Spec => CarriedOver
<1>1. Spec => [](Types /\ ImageInv)
  BY TypesOfInit, TypesOfNext, ImageOfInit, ImageOfNext, PTL DEF Spec
<1>2. Types /\ ImageInv /\ [Next]_deploymentVars => [ImageKept]_deploymentVars
  BY ImageOfNext
<1>3. Spec => [][ImageKept]_deploymentVars
  BY <1>1, <1>2, PTL DEF Spec
<1>. QED
  BY <1>3 DEF ImageKept, CarriedOver

-----------------------------------------------------------------------------
\* The Mac m has the key k, in its Keychain or on the way there.
Holds(m, k) == keychain[m] = k \/ (pc[m] = "store" /\ job[m].key = k)

\* No two Macs hold one key, and none makes a key while it has one.
OwnKeys ==
  /\ \A m \in Macs : pc[m] \in {"list", "evict", "mint", "store"} => keychain[m] = None
  /\ \A m, n \in Macs : \A k \in 1 .. minted : Holds(m, k) /\ Holds(n, k) => m = n

\* With no fault, every live key is held, and a key about to be forgotten is
\* revoked.
LiveKeys ==
  /\ \A k \in keys : \E m \in Macs : Holds(m, k)
  /\ \A m \in Macs : pc[m] = "forget" => keychain[m] \notin keys

\* With no more Macs than IAM allows keys, room is never made for a new one.
SafeKeys ==
  /\ \A m \in Macs : pc[m] # "evict"
  /\ \A m \in Macs : \A k \in 1 .. minted : Holds(m, k) /\ pc[m] # "forget" => k \in keys

KeyInv == OwnKeys /\ (faults = 0 => LiveKeys /\ (Cardinality(Macs) <= 2 => SafeKeys))

LEMMA ThreeElements ==
  ASSUME NEW a, NEW b, NEW c, a # b, a # c, b # c
  PROVE  Cardinality({a, b, c}) = 3
<1>1. Cardinality({a}) = 1 /\ IsFiniteSet({a})
  BY FS_Singleton
<1>2. {a, b} = {a} \cup {b} /\ b \notin {a} /\ {a, b, c} = {a, b} \cup {c} /\ c \notin {a, b}
  OBVIOUS
<1>3. Cardinality({a, b}) = Cardinality({a}) + 1 /\ IsFiniteSet({a, b})
  BY <1>1, <1>2, FS_AddElement
<1>4. Cardinality({a, b, c}) = Cardinality({a, b}) + 1
  BY <1>2, <1>3, FS_AddElement
<1>. QED
  BY <1>1, <1>3, <1>4

LEMMA RoomForAKey ==
  ASSUME Types, OwnKeys, LiveKeys, Cardinality(Macs) <= 2, NEW m \in Macs, pc[m] = "list"
  PROVE  ~(Cardinality(keys) >= 2)
<1>1. ASSUME NEW k1 \in keys, NEW k2 \in keys, k1 # k2
      PROVE  FALSE
  <2>1. k1 \in 1 .. minted /\ k2 \in 1 .. minted
    BY <1>1 DEF Types, DeploymentTypeOK
  <2>2. PICK h1 \in Macs : Holds(h1, k1)
    BY <1>1 DEF LiveKeys
  <2>3. PICK h2 \in Macs : Holds(h2, k2)
    BY <1>1 DEF LiveKeys
  <2>4. None \notin 1 .. minted
    BY DeploymentAssumption DEF Types, DeploymentTypeOK
  <2>5. h1 # m /\ h2 # m
    BY <2>1, <2>2, <2>3, <2>4 DEF OwnKeys, Holds
  <2>6. h1 # h2
    BY <1>1, <2>1, <2>2, <2>3, <2>4 DEF OwnKeys, Holds
  <2>7. Cardinality({m, h1, h2}) = 3
    BY <2>5, <2>6, ThreeElements
  <2>8. IsFiniteSet(Macs) /\ {m, h1, h2} \subseteq Macs
    BY DeploymentAssumption
  <2>9. Cardinality({m, h1, h2}) <= Cardinality(Macs) /\ Cardinality(Macs) \in Nat
    BY <2>8, FS_Subset, FS_CardinalityType
  <2>. QED
    BY <2>7, <2>9
<1>2. CASE keys = {}
  <2>1. Cardinality(keys) = 0
    BY <1>2, FS_EmptySet
  <2>. QED
    BY <2>1
<1>3. CASE keys # {}
  <2>1. PICK k \in keys : TRUE
    BY <1>3
  <2>2. keys = {k}
    BY <1>1, <2>1
  <2>3. Cardinality(keys) = 1
    BY <2>2, FS_Singleton
  <2>. QED
    BY <2>3
<1>. QED
  BY <1>2, <1>3

\* Steps that neither make, store nor revoke a key.
LEMMA OtherThanKeySteps ==
  ASSUME Types, NEW m \in Macs, OthersStep(m),
         ~ListKeys(m), ~Evict(m), ~CreateKey(m), ~StoreKey(m), ~DeleteAppAccessKey(m), ~ForgetAppCredentials(m)
  PROVE  /\ UNCHANGED <<keys, minted, keychain>>
         /\ pc'[m] \in {"list", "evict", "mint", "store"} => keychain[m] = None /\ pc'[m] = "list"
         /\ pc'[m] = "forget" \/ pc[m] \in {"store", "forget"} => faults' # 0
         /\ faults' >= faults
<1>. DEFINE Same == /\ UNCHANGED <<keys, minted, keychain>>
                    /\ pc'[m] \in {"list", "evict", "mint", "store"} => keychain[m] = None /\ pc'[m] = "list"
                    /\ pc'[m] = "forget" \/ pc[m] \in {"store", "forget"} => faults' # 0
                    /\ faults' >= faults
<1>0. pc \in [Macs -> Steps] /\ faults \in Nat
  BY DeploymentAssumption DEF Types, DeploymentTypeOK
<1>. USE <1>0 DEF account, identity, control, Goes, Ends
<1>1. CASE StackExists(m) \/ ExistingParameterKeys(m) \/ WaitForStack(m) \/ WaitForChangeSet(m)
  BY <1>1 DEF StackExists, ExistingParameterKeys, WaitForStack, WaitForChangeSet
<1>2. CASE CreateChangeSet(m)
  BY <1>2 DEF CreateChangeSet
<1>3. CASE ExecuteChangeSet(m)
  BY <1>3 DEF ExecuteChangeSet
<1>4. CASE StackOutputs(m) \/ UpsertAlias(m) \/ WaitForParameter(m) \/ SaveSettings(m)
  BY <1>4 DEF StackOutputs, UpsertAlias, WaitForParameter, SaveSettings
<1>5. CASE RemoveProfile(m)
  BY <1>5 DEF RemoveProfile, AfterKeys
<1>6. CASE DeleteAlias(m) \/ WaitUntilGone(m) \/ DeleteParametersByPath(m) \/ GivesUp(m) \/ DeleteStack(m)
  BY <1>6 DEF DeleteAlias, WaitUntilGone, DeleteParametersByPath, GivesUp, DeleteStack
<1>7. CASE ResolveClient(m)
  BY <1>7 DEF ResolveClient, Starts
<1>8. CASE Fault(m)
  BY <1>8 DEF Fault, Tolerated, Regardless
<1>9. ASSUME NEW deletes \in BOOLEAN, Uninstall(m, deletes)
      PROVE  Same
  BY <1>9 DEF Uninstall, Starts
<1>. HIDE DEF account, identity, control, Goes, Ends
<1>. QED
  BY <1>1, <1>2, <1>3, <1>4, <1>5, <1>6, <1>7, <1>8, <1>9 DEF OthersStep, Step

LEMMA KeysOfOtherStep ==
  ASSUME Types, KeyInv, NEW m \in Macs, OthersStep(m),
         ~ListKeys(m), ~Evict(m), ~CreateKey(m), ~StoreKey(m), ~DeleteAppAccessKey(m), ~ForgetAppCredentials(m)
  PROVE  KeyInv'
<1>1. /\ UNCHANGED <<keys, minted, keychain>>
      /\ pc'[m] \in {"list", "evict", "mint", "store"} => keychain[m] = None /\ pc'[m] = "list"
      /\ pc'[m] = "forget" \/ pc[m] \in {"store", "forget"} => faults' # 0
      /\ faults' >= faults
  BY OtherThanKeySteps
<1>2. \A n \in Macs : n # m => pc'[n] = pc[n] /\ job'[n] = job[n]
  BY OthersLeaveAlone
<1>3. \A n \in Macs : \A k : Holds(n, k)' => Holds(n, k)
  BY <1>1, <1>2 DEF Holds
<1>4. OwnKeys'
  BY <1>1, <1>2, <1>3 DEF KeyInv, OwnKeys
<1>5. ASSUME faults' = 0
      PROVE  LiveKeys' /\ (Cardinality(Macs) <= 2 => SafeKeys')
  <2>1. faults = 0
    BY <1>1, <1>5, DeploymentAssumption DEF Types, DeploymentTypeOK
  <2>2. \A n \in Macs : \A k : Holds(n, k)' <=> Holds(n, k)
    BY <1>1, <1>2, <1>3, <1>5 DEF Holds
  <2>3. LiveKeys'
    BY <1>1, <1>2, <1>5, <2>1, <2>2 DEF KeyInv, LiveKeys
  <2>4. Cardinality(Macs) <= 2 => SafeKeys'
    BY <1>1, <1>2, <1>3, <1>5, <2>1 DEF KeyInv, SafeKeys
  <2>. QED
    BY <2>3, <2>4
<1>. QED
  BY <1>4, <1>5 DEF KeyInv

LEMMA KeysOfListKeys ==
  ASSUME Types, KeyInv, NEW m \in Macs, ListKeys(m)
  PROVE  KeyInv'
<1>0. /\ pc \in [Macs -> Steps] /\ job \in [Macs -> Jobs]
      /\ UNCHANGED <<keys, minted, keychain, faults>> /\ pc[m] = "list" /\ keychain[m] = None
  BY DEF Types, DeploymentTypeOK, JobsOK, ListKeys, Goes, identity, KeyInv, OwnKeys
<1>1. \A n \in Macs : n # m => pc'[n] = pc[n] /\ job'[n] = job[n]
  BY OthersLeaveAlone DEF OthersStep, Step
<1>2. pc'[m] \in {"evict", "mint"} /\ (~(Cardinality(keys) >= 2) => pc'[m] = "mint")
  BY <1>0 DEF ListKeys, Goes
<1>3. \A n \in Macs : \A k : Holds(n, k)' <=> Holds(n, k)
  BY <1>0, <1>1, <1>2 DEF Holds
<1>4. OwnKeys'
  BY <1>0, <1>1, <1>2, <1>3 DEF KeyInv, OwnKeys
<1>5. ASSUME faults' = 0
      PROVE  LiveKeys'
  BY <1>0, <1>1, <1>2, <1>3, <1>5 DEF KeyInv, LiveKeys
<1>6. ASSUME faults' = 0, Cardinality(Macs) <= 2
      PROVE  SafeKeys'
  <2>1. pc'[m] = "mint"
    BY <1>0, <1>2, <1>6, RoomForAKey DEF KeyInv
  <2>. QED
    BY <1>0, <1>1, <1>3, <1>6, <2>1 DEF KeyInv, SafeKeys
<1>. QED
  BY <1>4, <1>5, <1>6 DEF KeyInv

LEMMA KeysOfEvict ==
  ASSUME Types, KeyInv, NEW m \in Macs, Evict(m)
  PROVE  KeyInv'
<1>0. /\ pc \in [Macs -> Steps] /\ job \in [Macs -> Jobs]
      /\ UNCHANGED <<minted, keychain, faults>> /\ pc[m] = "evict" /\ keychain[m] = None
      /\ keys' \subseteq keys
  BY DEF Types, DeploymentTypeOK, JobsOK, Evict, Goes, identity, KeyInv, OwnKeys
<1>1. \A n \in Macs : n # m => pc'[n] = pc[n] /\ job'[n] = job[n]
  BY OthersLeaveAlone DEF OthersStep, Step
<1>2. pc'[m] \in {"exists", "mint"}
  BY <1>0 DEF Evict, Goes
<1>3. \A n \in Macs : \A k : Holds(n, k)' <=> Holds(n, k)
  BY <1>0, <1>1, <1>2 DEF Holds
<1>4. OwnKeys'
  BY <1>0, <1>1, <1>2, <1>3 DEF KeyInv, OwnKeys
<1>5. ASSUME faults' = 0
      PROVE  LiveKeys' /\ (Cardinality(Macs) <= 2 => SafeKeys')
  BY <1>0, <1>1, <1>2, <1>3, <1>5 DEF KeyInv, LiveKeys, SafeKeys
<1>. QED
  BY <1>4, <1>5 DEF KeyInv

LEMMA KeysOfCreateKey ==
  ASSUME Types, KeyInv, NEW m \in Macs, CreateKey(m)
  PROVE  KeyInv'
<1>0. /\ pc \in [Macs -> Steps] /\ job \in [Macs -> Jobs] /\ minted \in Nat /\ keys \subseteq 1 .. minted
      /\ UNCHANGED <<keychain, faults>> /\ pc[m] = "mint" /\ keychain[m] = None
  BY DEF Types, DeploymentTypeOK, JobsOK, CreateKey, Goes, identity, KeyInv, OwnKeys
<1>1. \A n \in Macs : n # m => pc'[n] = pc[n] /\ job'[n] = job[n]
  BY OthersLeaveAlone DEF OthersStep, Step
<1>2. CASE Cardinality(keys) >= 2
  <2>1. pc'[m] = "exists" /\ UNCHANGED <<keys, minted>>
    BY <1>0, <1>2 DEF CreateKey, Goes
  <2>2. \A n \in Macs : \A k : Holds(n, k)' <=> Holds(n, k)
    BY <1>0, <1>1, <2>1 DEF Holds
  <2>3. OwnKeys'
    BY <1>0, <1>1, <2>1, <2>2 DEF KeyInv, OwnKeys
  <2>4. ASSUME faults' = 0
        PROVE  LiveKeys' /\ (Cardinality(Macs) <= 2 => SafeKeys')
    BY <1>0, <1>1, <2>1, <2>2, <2>4 DEF KeyInv, LiveKeys, SafeKeys
  <2>. QED
    BY <2>3, <2>4 DEF KeyInv
<1>3. CASE ~(Cardinality(keys) >= 2)
  <2>1. pc'[m] = "store" /\ minted' = minted + 1 /\ keys' = keys \cup {minted + 1} /\ job'[m].key = minted + 1
    BY <1>0, <1>3 DEF CreateKey, Goes, Notes, Jobs
  <2>2. \A k \in 1 .. minted : k # minted + 1 /\ k \in 1 .. minted'
    BY <1>0, <2>1
  <2>3. \A k \in 1 .. minted' : k \in 1 .. minted \/ k = minted + 1
    BY <1>0, <2>1
  <2>4. \A n \in Macs : ~Holds(n, minted + 1)
    BY <1>0, <2>2, DeploymentAssumption DEF Types, DeploymentTypeOK, JobsOK, Holds
  <2>5. \A n \in Macs : n # m => \A k : Holds(n, k)' <=> Holds(n, k)
    BY <1>0, <1>1 DEF Holds
  <2>6. \A k \in 1 .. minted' : Holds(m, k)' <=> k = minted + 1
    BY <1>0, <2>1, DeploymentAssumption DEF Holds
  <2>7. \A k \in 1 .. minted : ~Holds(m, k)
    BY <1>0, DeploymentAssumption DEF Holds
  <2>8. OwnKeys'
    BY <1>0, <1>1, <2>1, <2>2, <2>3, <2>4, <2>5, <2>6 DEF KeyInv, OwnKeys
  <2>9. ASSUME faults' = 0
        PROVE  LiveKeys'
    <3>1. ASSUME NEW k \in keys'
          PROVE  \E n \in Macs : Holds(n, k)'
      <4>1. CASE k = minted + 1
        BY <2>1, <4>1 DEF Holds
      <4>2. CASE k \in keys
        <5>1. PICK n \in Macs : Holds(n, k)
          BY <1>0, <2>9, <4>2 DEF KeyInv, LiveKeys
        <5>. QED
          BY <1>0, <2>5, <2>7, <4>2, <5>1
      <4>. QED
        BY <2>1, <4>1, <4>2
    <3>2. ASSUME NEW n \in Macs, pc'[n] = "forget"
          PROVE  keychain'[n] \notin keys'
      <4>1. n # m /\ pc[n] = "forget" /\ keychain[n] \notin keys
        BY <1>0, <1>1, <2>1, <2>9, <3>2 DEF KeyInv, LiveKeys
      <4>2. keychain[n] # minted + 1
        BY <2>4 DEF Holds
      <4>. QED
        BY <1>0, <2>1, <4>1, <4>2
    <3>. QED
      BY <3>1, <3>2 DEF LiveKeys
  <2>10. ASSUME faults' = 0, Cardinality(Macs) <= 2
         PROVE  SafeKeys'
    BY <1>0, <1>1, <2>1, <2>3, <2>4, <2>5, <2>6, <2>10 DEF KeyInv, SafeKeys
  <2>. QED
    BY <2>8, <2>9, <2>10 DEF KeyInv
<1>. QED
  BY <1>2, <1>3

LEMMA KeysOfStoreKey ==
  ASSUME Types, KeyInv, NEW m \in Macs, StoreKey(m)
  PROVE  KeyInv'
<1>0. /\ pc \in [Macs -> Steps] /\ job \in [Macs -> Jobs] /\ keychain \in [Macs -> 1 .. minted \cup {None}]
      /\ UNCHANGED <<keys, minted, faults>> /\ pc[m] = "store" /\ keychain[m] = None
  BY DEF Types, DeploymentTypeOK, JobsOK, StoreKey, Goes, identity, KeyInv, OwnKeys
<1>1. \A n \in Macs : n # m => pc'[n] = pc[n] /\ job'[n] = job[n] /\ keychain'[n] = keychain[n]
  BY OthersLeaveAlone DEF OthersStep, Step
<1>2. pc'[m] = "exists" /\ keychain'[m] = job[m].key
  BY <1>0 DEF StoreKey, Goes
<1>3. None \notin 1 .. minted
  BY DeploymentAssumption DEF Types, DeploymentTypeOK
<1>4. \A n \in Macs : \A k \in 1 .. minted : Holds(n, k)' <=> Holds(n, k)
  BY <1>0, <1>1, <1>2, <1>3 DEF Holds
<1>5. OwnKeys'
  BY <1>0, <1>1, <1>2, <1>4 DEF KeyInv, OwnKeys
<1>6. ASSUME faults' = 0
      PROVE  LiveKeys'
  <2>1. keys \subseteq 1 .. minted
    BY DEF Types, DeploymentTypeOK
  <2>. QED
    BY <1>0, <1>1, <1>2, <1>4, <1>6, <2>1 DEF KeyInv, LiveKeys
<1>7. ASSUME faults' = 0, Cardinality(Macs) <= 2
      PROVE  SafeKeys'
  BY <1>0, <1>1, <1>2, <1>4, <1>7 DEF KeyInv, SafeKeys
<1>. QED
  BY <1>5, <1>6, <1>7 DEF KeyInv

LEMMA KeysOfDeleteAppAccessKey ==
  ASSUME Types, KeyInv, NEW m \in Macs, DeleteAppAccessKey(m)
  PROVE  KeyInv'
<1>0. /\ pc \in [Macs -> Steps] /\ UNCHANGED <<minted, keychain, faults, job>> /\ pc[m] = "revoke"
      /\ keys' = keys \ {keychain[m]} /\ keys \subseteq 1 .. minted
  BY DEF Types, DeploymentTypeOK, DeleteAppAccessKey, Goes
<1>1. \A n \in Macs : n # m => pc'[n] = pc[n]
  BY OthersLeaveAlone DEF OthersStep, Step
<1>2. pc'[m] = "forget"
  BY <1>0 DEF DeleteAppAccessKey, Goes
<1>3. \A n \in Macs : \A k : Holds(n, k)' <=> Holds(n, k)
  BY <1>0, <1>1, <1>2 DEF Holds
<1>4. OwnKeys'
  BY <1>0, <1>1, <1>2, <1>3 DEF KeyInv, OwnKeys
<1>5. ASSUME faults' = 0
      PROVE  LiveKeys'
  BY <1>0, <1>1, <1>2, <1>3, <1>5 DEF KeyInv, LiveKeys
<1>6. ASSUME faults' = 0, Cardinality(Macs) <= 2
      PROVE  SafeKeys'
  <2>1. ASSUME NEW n \in Macs, NEW k \in 1 .. minted, Holds(n, k), pc'[n] # "forget"
        PROVE  k \in keys'
    <3>1. n # m /\ pc[n] # "forget" /\ k \in keys
      BY <1>0, <1>1, <1>2, <1>6, <2>1 DEF KeyInv, SafeKeys
    <3>2. k # keychain[m]
      BY <2>1, <3>1 DEF KeyInv, OwnKeys, Holds
    <3>. QED
      BY <1>0, <3>1, <3>2
  <2>. QED
    BY <1>0, <1>1, <1>2, <1>3, <1>6, <2>1 DEF KeyInv, SafeKeys
<1>. QED
  BY <1>4, <1>5, <1>6 DEF KeyInv

LEMMA KeysOfForgetAppCredentials ==
  ASSUME Types, KeyInv, NEW m \in Macs, ForgetAppCredentials(m)
  PROVE  KeyInv'
<1>0. /\ pc \in [Macs -> Steps] /\ keychain \in [Macs -> 1 .. minted \cup {None}]
      /\ UNCHANGED <<keys, minted, faults, job>> /\ pc[m] = "forget"
      /\ keys \subseteq 1 .. minted
  BY DEF Types, DeploymentTypeOK, ForgetAppCredentials, AfterKeys, Goes, Ends
<1>1. \A n \in Macs : n # m => pc'[n] = pc[n] /\ keychain'[n] = keychain[n]
  BY OthersLeaveAlone DEF OthersStep, Step
<1>2. pc'[m] \in {"unalias", "idle"} /\ keychain'[m] = None
  BY <1>0 DEF ForgetAppCredentials, AfterKeys, Goes, Ends
<1>3. None \notin 1 .. minted
  BY DeploymentAssumption DEF Types, DeploymentTypeOK
<1>4. \A n \in Macs : n # m => \A k : Holds(n, k)' <=> Holds(n, k)
  BY <1>0, <1>1 DEF Holds
<1>5. \A k \in 1 .. minted : ~Holds(m, k)'
  BY <1>2, <1>3 DEF Holds
<1>6. OwnKeys'
  BY <1>0, <1>1, <1>2, <1>4, <1>5 DEF KeyInv, OwnKeys
<1>7. ASSUME faults' = 0
      PROVE  LiveKeys'
  <2>1. ASSUME NEW k \in keys
        PROVE  \E n \in Macs : Holds(n, k)'
    <3>1. PICK n \in Macs : Holds(n, k)
      BY <1>0, <1>7 DEF KeyInv, LiveKeys
    <3>2. n # m
      BY <1>0, <1>7, <3>1 DEF KeyInv, LiveKeys, Holds
    <3>. QED
      BY <1>4, <3>1, <3>2
  <2>2. \A n \in Macs : pc'[n] = "forget" => keychain'[n] \notin keys
    BY <1>0, <1>1, <1>2, <1>7 DEF KeyInv, LiveKeys
  <2>. QED
    BY <1>0, <2>1, <2>2 DEF LiveKeys
<1>8. ASSUME faults' = 0, Cardinality(Macs) <= 2
      PROVE  SafeKeys'
  BY <1>0, <1>1, <1>2, <1>4, <1>5, <1>8 DEF KeyInv, SafeKeys
<1>. QED
  BY <1>6, <1>7, <1>8 DEF KeyInv

LEMMA KeysOfNext == Types /\ KeyInv /\ [Next]_deploymentVars => KeyInv'
<1>. SUFFICES ASSUME Types, KeyInv, [Next]_deploymentVars
              PROVE  KeyInv'
  OBVIOUS
<1>1. CASE UNCHANGED <<keys, minted, keychain, pc, job, faults>>
  BY <1>1 DEF KeyInv, OwnKeys, LiveKeys, SafeKeys, Holds
<1>2. CASE UNCHANGED deploymentVars
  BY <1>1, <1>2 DEF deploymentVars, identity, control
<1>3. CASE Finish \/ Publish
  <2>1. UNCHANGED <<keys, minted, keychain, pc, job, faults>>
    BY <1>3, FinishChanges DEF Publish, identity, control
  <2>. QED
    BY <1>1, <2>1
<1>4. ASSUME NEW m \in Macs, OthersStep(m)
      PROVE  KeyInv'
  BY <1>4, KeysOfOtherStep, KeysOfListKeys, KeysOfEvict, KeysOfCreateKey, KeysOfStoreKey,
     KeysOfDeleteAppAccessKey, KeysOfForgetAppCredentials
<1>. QED
  BY <1>2, <1>3, <1>4, WhoSteps

LEMMA KeysOfInit == Init => KeyInv
<1>. SUFFICES ASSUME Init
              PROVE  KeyInv
  OBVIOUS
<1>1. minted = 0 /\ \A k \in 1 .. minted : FALSE
  BY DEF Init
<1>. QED
  BY <1>1 DEF Init, KeyInv, OwnKeys, LiveKeys, SafeKeys, Holds

\* Up to two Macs never lose the key they hold to one another, whichever of
\* them installs, uninstalls or installs again; and, with any number of Macs,
\* no live key is without one, as long as nothing fails.
THEOREM NoKeyIsLost == Spec => []KeysAreHeld
<1>1. Types /\ KeyInv => KeysAreHeld
  <2>. SUFFICES ASSUME Types, KeyInv, faults = 0
                PROVE  /\ Cardinality(Macs) <= 2 =>
                            \A m \in Macs : keychain[m] # None /\ pc[m] # "forget" => keychain[m] \in keys
                       /\ \A key \in keys :
                            \E m \in Macs : keychain[m] = key \/ (pc[m] = "store" /\ job[m].key = key)
    BY DEF KeysAreHeld
  <2>1. ASSUME Cardinality(Macs) <= 2, NEW m \in Macs, keychain[m] # None, pc[m] # "forget"
        PROVE  keychain[m] \in keys
    <3>1. keychain[m] \in 1 .. minted
      BY <2>1 DEF Types, DeploymentTypeOK
    <3>. QED
      BY <2>1, <3>1 DEF KeyInv, SafeKeys, Holds
  <2>2. ASSUME NEW key \in keys
        PROVE  \E m \in Macs : keychain[m] = key \/ (pc[m] = "store" /\ job[m].key = key)
    BY <2>2 DEF KeyInv, LiveKeys, Holds
  <2>. QED
    BY <2>1, <2>2
<1>2. Spec => [](Types /\ KeyInv)
  BY TypesOfInit, TypesOfNext, KeysOfInit, KeysOfNext, PTL DEF Spec
<1>. QED
  BY <1>1, <1>2, PTL

-----------------------------------------------------------------------------
\* The parameters p are those of m's template, with m's values.
Mine(m, p) == DOMAIN p = Declares[m] /\ \A q \in Sent \cap Declares[m] : p[q] = m

\* What holds of a Mac's command whatever the others do.
Sound(m) ==
  /\ sets[m] # None => Mine(m, sets[m])
  /\ pc[m] # "idle" => ended[m] = "running"
  /\ pc[m] \in {"remove", "revoke", "forget", "unalias"} /\ job[m].known => job[m].lb # None

\* The stack that an undisturbed command waits for is the one it asked for.
Awaited(m) ==
  \/ Status = "UPDATE_IN_PROGRESS" /\ Mine(m, stack.next)
  \/ Status \in {"CREATE_IN_PROGRESS", "CREATE_COMPLETE", "UPDATE_COMPLETE"} /\ Mine(m, stack.params)
  \/ Status \in Failed

\* What an undisturbed command has brought about, at each of its later steps.
Achieved(m) ==
  /\ pc[m] \in {"planned", "execute"} /\ job[m].exists => Status \in Settled
  /\ pc[m] = "stack" => Awaited(m)
  /\ pc[m] \in {"outputs", "alias", "parameter", "save"} \/ ended[m] = "deployed" =>
       Status \in Settled /\ Mine(m, stack.params)
  /\ pc[m] \in {"alias", "parameter", "save"} => job[m].lb = stack.lb
  /\ pc[m] \in {"parameter", "save"} \/ ended[m] = "deployed" => alias = stack.lb
  /\ pc[m] = "save" \/ ended[m] = "deployed" => published
  /\ pc[m] \in {"delete", "gone", "parameters"} \/ ended[m] = "deleted" =>
       (faults = 0 /\ job[m].known => alias # job[m].lb)
  /\ pc[m] = "parameters" \/ ended[m] = "deleted" => ~Exists
  /\ ended[m] = "deleted" /\ faults = 0 => ~published

EndInv == \A m \in Macs : Sound(m) /\ (~disturbed[m] => Achieved(m))

LEMMA ResolvedIsMine ==
  ASSUME NEW m \in Macs
  PROVE  Mine(m, Resolved(m))
<1>1. DOMAIN Resolved(m) = Declares[m]
  BY DEF Resolved
<1>2. ASSUME NEW q \in Sent \cap Declares[m]
      PROVE  Resolved(m)[q] = m
  BY <1>2 DEF Resolved, Input
<1>. QED
  BY <1>1, <1>2 DEF Mine

LEMMA SoundOfOwnStep ==
  ASSUME Types, NEW m \in Macs, Sound(m), OthersStep(m)
  PROVE  Sound(m)'
<1>. DEFINE kept == sets'[m] = sets[m] \/ sets'[m] = None \/ sets'[m] = Resolved(m)
            going == pc'[m] # "idle" => ended'[m] = "running"
            knows == pc'[m] \in {"remove", "revoke", "forget", "unalias"} /\ job'[m].known => job'[m].lb # None
<1>0. /\ pc \in [Macs -> Steps] /\ job \in [Macs -> Jobs] /\ ended \in [Macs -> Endings]
      /\ sets \in [Macs -> ParamMaps \cup {None}]
      /\ pc[m] # "idle" => ended[m] = "running"
      /\ pc[m] \in {"remove", "revoke", "forget", "unalias"} /\ job[m].known => job[m].lb # None
  BY DEF Types, DeploymentTypeOK, JobsOK, Sound
<1>. SUFFICES kept /\ going /\ knows
  BY ResolvedIsMine DEF Sound
<1>. HIDE DEF Sound
<1>. USE <1>0 DEF account, identity, control, Goes, Ends
<1>1. CASE ListKeys(m) \/ Evict(m) \/ CreateKey(m) \/ StoreKey(m)
  BY <1>1 DEF ListKeys, Evict, CreateKey, StoreKey
<1>2. CASE StackExists(m) \/ ExistingParameterKeys(m) \/ WaitForStack(m) \/ WaitForChangeSet(m)
  BY <1>2 DEF StackExists, ExistingParameterKeys, WaitForStack, WaitForChangeSet
<1>3. CASE CreateChangeSet(m)
  BY <1>3 DEF CreateChangeSet
<1>4. CASE ExecuteChangeSet(m)
  BY <1>4 DEF ExecuteChangeSet
<1>5. CASE StackOutputs(m) \/ UpsertAlias(m) \/ WaitForParameter(m) \/ SaveSettings(m)
  BY <1>5 DEF StackOutputs, UpsertAlias, WaitForParameter, SaveSettings
<1>6. CASE RemoveProfile(m) \/ DeleteAppAccessKey(m) \/ ForgetAppCredentials(m)
  BY <1>6 DEF RemoveProfile, DeleteAppAccessKey, ForgetAppCredentials, AfterKeys
<1>7. CASE DeleteAlias(m) \/ WaitUntilGone(m) \/ DeleteParametersByPath(m) \/ GivesUp(m)
  BY <1>7 DEF DeleteAlias, WaitUntilGone, DeleteParametersByPath, GivesUp
<1>8. CASE DeleteStack(m)
  BY <1>8 DEF DeleteStack
<1>9. CASE ResolveClient(m)
  BY <1>9 DEF ResolveClient, Starts
<1>10. CASE Fault(m)
  BY <1>10 DEF Fault, Tolerated, Regardless
<1>11. ASSUME NEW deletes \in BOOLEAN, Uninstall(m, deletes)
       PROVE  kept /\ going /\ knows
  <2>1. job'[m].lb = settings[m] /\ (job'[m].known <=> settings[m] # None)
    BY <1>11 DEF Uninstall, Starts, Notes, NoJob
  <2>. QED
    BY <1>11, <2>1 DEF Uninstall, Starts
<1>. HIDE DEF account, identity, control, Goes, Ends, kept, going, knows
<1>. QED
  BY <1>1, <1>2, <1>3, <1>4, <1>5, <1>6, <1>7, <1>8, <1>9, <1>10, <1>11 DEF OthersStep, Step

LEMMA NothingAchieved ==
  ASSUME NEW m \in Macs,
         pc'[m] \notin {"planned", "execute", "stack", "outputs", "alias", "parameter", "save", "delete", "gone",
                        "parameters"},
         ended'[m] \notin {"deployed", "deleted"}
  PROVE  Achieved(m)'
  BY DEF Achieved

LEMMA AchievedByInstall ==
  ASSUME Types, NEW m \in Macs, Sound(m), Achieved(m),
         \/ CreateChangeSet(m) \/ WaitForChangeSet(m) \/ ExecuteChangeSet(m) \/ WaitForStack(m)
         \/ StackOutputs(m) \/ UpsertAlias(m) \/ WaitForParameter(m) \/ SaveSettings(m)
  PROVE  Achieved(m)'
<1>0. /\ pc \in [Macs -> Steps] /\ job \in [Macs -> Jobs] /\ ended \in [Macs -> Endings]
      /\ sets \in [Macs -> ParamMaps \cup {None}]
  BY DEF Types, DeploymentTypeOK, JobsOK
<1>r. pc[m] # "idle" => ended[m] = "running"
  BY DEF Sound
<1>i. ASSUME pc'[m] = "idle", ended'[m] \in {"failed", "refused", "undeclared"}
      PROVE  Achieved(m)'
  BY <1>i, NothingAchieved
<1>1. CASE CreateChangeSet(m)
  <2>1. CASE Goes(m, "planned") /\ Takes(job[m].exists) /\ Notes(m, [job[m] EXCEPT !.carried = {}])
             /\ (Exists => stack' = stack)
    <3>1. pc'[m] = "planned" /\ ended'[m] = "running" /\ job'[m].exists = job[m].exists
      BY <1>0, <1>1, <1>r, <2>1 DEF CreateChangeSet, Goes, Notes, Jobs
    <3>2. job[m].exists => Status' \in Settled
      BY <2>1 DEF Takes, Status, Exists, Settled
    <3>. QED
      BY <3>1, <3>2 DEF Achieved
  <2>2. CASE Ends(m, "refused") \/ Ends(m, "undeclared")
    <3>1. pc'[m] = "idle" /\ ended'[m] \in {"refused", "undeclared"}
      BY <1>0, <2>2 DEF Ends
    <3>. QED
      BY <1>i, <3>1
  <2>. QED
    BY <1>1, <2>1, <2>2 DEF CreateChangeSet
<1>2. CASE WaitForChangeSet(m)
  <2>0. pc[m] = "planned" /\ stack' = stack /\ job' = job /\ Status' = Status
    BY <1>2 DEF WaitForChangeSet, Status, Exists
  <2>1. CASE Ends(m, "failed")
    <3>1. pc'[m] = "idle" /\ ended'[m] = "failed"
      BY <1>0, <2>1 DEF Ends
    <3>. QED
      BY <1>i, <3>1
  <2>2. CASE Goes(m, "outputs") /\ job[m].exists /\ sets[m] # None /\ sets[m] = stack.params
    <3>1. pc'[m] = "outputs" /\ ended'[m] = "running"
      BY <1>0, <1>r, <2>0, <2>2 DEF Goes
    <3>2. Status \in Settled /\ Mine(m, stack.params)
      BY <2>0, <2>2 DEF Achieved, Sound
    <3>. QED
      BY <2>0, <3>1, <3>2 DEF Achieved, Mine
  <2>3. CASE Goes(m, "execute")
    <3>1. pc'[m] = "execute" /\ ended'[m] = "running"
      BY <1>0, <1>r, <2>0, <2>3 DEF Goes
    <3>. QED
      BY <2>0, <3>1 DEF Achieved
  <2>. QED
    BY <1>2, <2>1, <2>2, <2>3 DEF WaitForChangeSet
<1>3. CASE ExecuteChangeSet(m)
  <2>1. CASE sets[m] # None /\ Takes(job[m].exists) /\ Exists
    <3>1. pc'[m] = "stack" /\ ended'[m] = "running"
      BY <1>0, <1>3, <1>r, <2>1 DEF ExecuteChangeSet, Goes
    <3>2. stack \in Stacks /\ Mine(m, sets[m])
      BY <2>1 DEF Types, DeploymentTypeOK, Exists, Sound
    <3>3. /\ stack'.next = sets[m]
          /\ stack'.status = IF job[m].exists THEN "UPDATE_IN_PROGRESS" ELSE "CREATE_IN_PROGRESS"
          /\ ~job[m].exists => stack'.params = sets[m]
      BY <1>3, <2>1, <3>2 DEF ExecuteChangeSet, Stacks
    <3>4. stack' # None
      <4>1. stack' \in Stacks \cup {None}
        BY <1>3, TypesOfDeploySteps DEF Types, DeploymentTypeOK
      <4>2. stack' = [status |-> stack'.status, params |-> stack'.params, next |-> stack'.next, lb |-> stack'.lb]
        BY <1>3, <2>1, <3>2 DEF ExecuteChangeSet, Stacks
      <4>3. /\ stack'.params = IF job[m].exists THEN stack.params ELSE sets[m]
            /\ stack'.lb = stack.lb
        BY <1>3, <2>1, <3>2 DEF ExecuteChangeSet, Stacks
      <4>4. sets[m] \in ParamMaps /\ stack'.status \in Statuses
        BY <1>0, <2>1, <3>3 DEF Statuses
      <4>5. stack' \in Stacks
        BY <3>2, <3>3, <4>2, <4>3, <4>4 DEF Stacks
      <4>. QED
        BY <4>5, DeploymentAssumption
    <3>5. Status' = stack'.status
      BY <3>4 DEF Status, Exists
    <3>6. Awaited(m)'
      BY <3>2, <3>3, <3>5 DEF Awaited, Mine
    <3>. QED
      BY <3>1, <3>6 DEF Achieved
  <2>2. CASE Ends(m, "failed")
    <3>1. pc'[m] = "idle" /\ ended'[m] = "failed"
      BY <1>0, <2>2 DEF Ends
    <3>. QED
      BY <1>i, <3>1
  <2>. QED
    BY <1>3, <2>1, <2>2 DEF ExecuteChangeSet
<1>4. CASE WaitForStack(m)
  <2>0. pc[m] = "stack" /\ stack' = stack /\ Status' = Status
    BY <1>4 DEF WaitForStack, account, Status, Exists
  <2>1. CASE Status \in {"CREATE_COMPLETE", "UPDATE_COMPLETE"} /\ Goes(m, "outputs")
    <3>1. pc'[m] = "outputs" /\ ended'[m] = "running"
      BY <1>0, <1>r, <2>0, <2>1 DEF Goes
    <3>2. Status \in Settled /\ Mine(m, stack.params)
      BY <2>0, <2>1 DEF Achieved, Awaited, Settled, Failed
    <3>. QED
      BY <2>0, <3>1, <3>2 DEF Achieved, Mine
  <2>2. CASE Ends(m, "failed")
    <3>1. pc'[m] = "idle" /\ ended'[m] = "failed"
      BY <1>0, <2>2 DEF Ends
    <3>. QED
      BY <1>i, <3>1
  <2>. QED
    BY <1>4, <2>1, <2>2 DEF WaitForStack
<1>5. CASE StackOutputs(m)
  <2>0. pc[m] = "outputs" /\ stack' = stack /\ Status' = Status
    BY <1>5 DEF StackOutputs, account, Status, Exists
  <2>1. CASE Exists /\ stack.lb # None
    <3>1. pc'[m] = "alias" /\ ended'[m] = "running" /\ job'[m].lb = stack.lb
      BY <1>0, <1>5, <1>r, <2>1 DEF StackOutputs, Goes, Notes, NoJob
    <3>2. Status \in Settled /\ Mine(m, stack.params)
      BY <2>0 DEF Achieved
    <3>. QED
      BY <2>0, <3>1, <3>2 DEF Achieved, Mine
  <2>2. CASE Ends(m, "failed")
    <3>1. pc'[m] = "idle" /\ ended'[m] = "failed"
      BY <1>0, <2>2 DEF Ends
    <3>. QED
      BY <1>i, <3>1
  <2>. QED
    BY <1>5, <2>1, <2>2 DEF StackOutputs
<1>6. CASE UpsertAlias(m)
  <2>1. /\ pc[m] = "alias" /\ pc'[m] = "parameter" /\ ended'[m] = "running"
        /\ UNCHANGED <<stack, job, published>> /\ alias' = job[m].lb
    BY <1>0, <1>6, <1>r DEF UpsertAlias, Goes
  <2>. QED
    BY <2>1 DEF Achieved, Status, Exists, Mine
<1>7. CASE WaitForParameter(m)
  <2>1. /\ pc[m] = "parameter" /\ pc'[m] = "save" /\ ended'[m] = "running"
        /\ UNCHANGED <<stack, job, alias, published>> /\ published
    BY <1>0, <1>7, <1>r DEF WaitForParameter, Goes, account
  <2>. QED
    BY <2>1 DEF Achieved, Status, Exists, Mine
<1>8. CASE SaveSettings(m)
  <2>1. /\ pc[m] = "save" /\ pc'[m] = "idle" /\ ended'[m] = "deployed"
        /\ UNCHANGED <<stack, job, alias, published>>
    BY <1>0, <1>8 DEF SaveSettings, Ends, account
  <2>. QED
    BY <2>1 DEF Achieved, Status, Exists, Mine
<1>. QED
  BY <1>1, <1>2, <1>3, <1>4, <1>5, <1>6, <1>7, <1>8

LEMMA AchievedByUninstall ==
  ASSUME Types, NEW m \in Macs, Sound(m), Achieved(m),
         \/ DeleteAlias(m) \/ DeleteStack(m) \/ WaitUntilGone(m) \/ DeleteParametersByPath(m) \/ Fault(m)
  PROVE  Achieved(m)'
<1>0. /\ pc \in [Macs -> Steps] /\ job \in [Macs -> Jobs] /\ ended \in [Macs -> Endings] /\ faults \in Nat
  BY DeploymentAssumption DEF Types, DeploymentTypeOK, JobsOK
<1>r. pc[m] # "idle" => ended[m] = "running"
  BY DEF Sound
<1>1. CASE DeleteAlias(m)
  <2>1. /\ pc[m] = "unalias" /\ pc'[m] = "delete" /\ ended'[m] = "running" /\ job' = job
        /\ job[m].known => alias' # job[m].lb
    BY <1>0, <1>1, <1>r DEF DeleteAlias, Goes, Sound
  <2>. QED
    BY <2>1 DEF Achieved
<1>2. CASE DeleteStack(m)
  <2>1. CASE Goes(m, "gone")
    <3>1. /\ pc[m] = "delete" /\ pc'[m] = "gone" /\ ended'[m] = "running"
          /\ UNCHANGED <<alias, job, faults>>
      BY <1>0, <1>2, <1>r, <2>1 DEF DeleteStack, Goes
    <3>. QED
      BY <3>1 DEF Achieved
  <2>2. CASE Ends(m, "failed")
    <3>1. pc'[m] = "idle" /\ ended'[m] = "failed"
      BY <1>0, <2>2 DEF Ends
    <3>. QED
      BY <3>1, NothingAchieved
  <2>. QED
    BY <1>2, <2>1, <2>2 DEF DeleteStack
<1>3. CASE WaitUntilGone(m)
  <2>1. /\ pc[m] = "gone" /\ pc'[m] = "parameters" /\ ended'[m] = "running" /\ ~Exists
        /\ UNCHANGED <<stack, alias, job, faults>>
    BY <1>0, <1>3, <1>r DEF WaitUntilGone, Goes, account
  <2>. QED
    BY <2>1 DEF Achieved, Exists
<1>4. CASE DeleteParametersByPath(m)
  <2>1. /\ pc[m] = "parameters" /\ pc'[m] = "idle" /\ ended'[m] = "deleted" /\ ~published'
        /\ UNCHANGED <<stack, alias, job, faults>>
    BY <1>0, <1>4 DEF DeleteParametersByPath, Ends
  <2>. QED
    BY <2>1 DEF Achieved, Exists
<1>5. CASE Fault(m)
  <2>1. pc[m] # "idle" /\ UNCHANGED <<stack, alias, published, job>> /\ faults' # 0 /\ ended[m] = "running"
    BY <1>0, <1>5, <1>r DEF Fault, account
  <2>2. CASE pc'[m] \in {"idle", "exists", "forget"} /\ ended'[m] \in {"failed", "running"}
    BY <2>2, NothingAchieved
  <2>3. CASE pc'[m] = "delete" /\ ended'[m] = "running"
    BY <2>1, <2>3 DEF Achieved
  <2>4. CASE pc[m] = "parameters" /\ pc'[m] = "idle" /\ ended'[m] = "deleted"
    BY <2>1, <2>4 DEF Achieved, Exists
  <2>5. CASE pc[m] = "save" /\ pc'[m] = "idle" /\ ended'[m] = "deployed"
    BY <2>1, <2>5 DEF Achieved, Status, Exists
  <2>. QED
    BY <1>0, <1>5, <2>1, <2>2, <2>3, <2>4, <2>5 DEF Fault, Tolerated, Regardless
<1>. QED
  BY <1>1, <1>2, <1>3, <1>4, <1>5

LEMMA EndOfOwnStep ==
  ASSUME Types, NEW m \in Macs, Sound(m), ~disturbed[m] => Achieved(m), OthersStep(m), ~disturbed'[m]
  PROVE  Achieved(m)'
<1>0. /\ pc \in [Macs -> Steps] /\ ended \in [Macs -> Endings] /\ disturbed \in [Macs -> BOOLEAN]
      /\ pc[m] # "idle" => ended[m] = "running"
  BY DEF Types, DeploymentTypeOK, Sound
<1>. DEFINE nothing == /\ pc'[m] \in {"idle", "list", "evict", "mint", "store", "exists", "carry", "change",
                                      "remove", "revoke", "forget", "unalias"}
                       /\ ended'[m] \in {"running", "failed", "uninstalled"}
            by == \/ CreateChangeSet(m) \/ WaitForChangeSet(m) \/ ExecuteChangeSet(m) \/ WaitForStack(m)
                  \/ StackOutputs(m) \/ UpsertAlias(m) \/ WaitForParameter(m) \/ SaveSettings(m)
                  \/ DeleteAlias(m) \/ DeleteStack(m) \/ WaitUntilGone(m) \/ DeleteParametersByPath(m)
                  \/ Fault(m)
<1>1. CASE nothing
  BY <1>1, NothingAchieved
<1>2. CASE by
  <2>1. ~disturbed[m]
    <3>1. disturbed' = disturbed \/ Disturbs(m)
      BY <1>2 DEF CreateChangeSet, WaitForChangeSet, ExecuteChangeSet, WaitForStack, StackOutputs, UpsertAlias,
         WaitForParameter, SaveSettings, DeleteAlias, DeleteStack, WaitUntilGone, DeleteParametersByPath, Fault
    <3>. QED
      BY <1>0, <3>1 DEF Disturbs
  <2>. QED
    BY <1>2, <2>1, AchievedByInstall, AchievedByUninstall
<1>3. CASE ListKeys(m) \/ Evict(m) \/ CreateKey(m) \/ StoreKey(m)
  <2>1. nothing
    BY <1>0, <1>3 DEF ListKeys, Evict, CreateKey, StoreKey, Goes
  <2>. QED
    BY <1>1, <2>1
<1>4. CASE StackExists(m) \/ ExistingParameterKeys(m) \/ GivesUp(m)
  <2>1. nothing
    BY <1>0, <1>4 DEF StackExists, ExistingParameterKeys, GivesUp, Goes, Ends
  <2>. QED
    BY <1>1, <2>1
<1>5. CASE RemoveProfile(m) \/ DeleteAppAccessKey(m) \/ ForgetAppCredentials(m)
  <2>1. nothing
    BY <1>0, <1>5 DEF RemoveProfile, DeleteAppAccessKey, ForgetAppCredentials, AfterKeys, Goes, Ends
  <2>. QED
    BY <1>1, <2>1
<1>6. CASE ResolveClient(m) \/ \E deletes \in BOOLEAN : Uninstall(m, deletes)
  <2>1. nothing
    <3>1. PICK step \in {"exists", "list", "remove"} : \E j : Starts(m, step, j)
      BY <1>6 DEF ResolveClient, Uninstall
    <3>. QED
      BY <1>0, <3>1 DEF Starts
  <2>. QED
    BY <1>1, <2>1
<1>. HIDE DEF nothing
<1>. QED
  BY <1>2, <1>3, <1>4, <1>5, <1>6 DEF OthersStep, Step

LEMMA EndOfOthersStep ==
  ASSUME Types, NEW m \in Macs, NEW n \in Macs, n # m, OthersStep(n),
         Sound(m), ~disturbed[m] => Achieved(m)
  PROVE  Sound(m)' /\ (~disturbed'[m] => Achieved(m)')
<1>1. /\ pc'[m] = pc[m] /\ job'[m] = job[m] /\ ended'[m] = ended[m]
      /\ sets'[m] \in {sets[m], None} /\ faults' >= faults
  BY OthersLeaveAlone
<1>2. Sound(m)'
  BY <1>1 DEF Sound, Mine
<1>3. ASSUME ~disturbed'[m]
      PROVE  Achieved(m)'
  <2>1. ~disturbed[m] /\ stack' = stack /\ alias' = alias /\ published' = published
    BY <1>3, OthersLeaveAlone
  <2>2. Status' = Status /\ (Exists' <=> Exists)
    BY <2>1 DEF Status, Exists
  <2>3. Awaited(m) => Awaited(m)'
    BY <2>1, <2>2 DEF Awaited, Mine
  <2>4. faults' = 0 => faults = 0
    BY <1>1, DeploymentAssumption DEF Types, DeploymentTypeOK
  <2>5. Mine(m, stack.params)' <=> Mine(m, stack.params)
    BY <2>1 DEF Mine
  <2>6. Achieved(m)
    BY <2>1
  <2>. QED
    BY <1>1, <2>1, <2>2, <2>3, <2>4, <2>5, <2>6 DEF Achieved
<1>. QED
  BY <1>2, <1>3

LEMMA EndOfAccountStep ==
  ASSUME Types, NEW m \in Macs, Finish \/ Publish, Sound(m), ~disturbed[m] => Achieved(m)
  PROVE  Sound(m)' /\ (~disturbed'[m] => Achieved(m)')
<1>1. /\ UNCHANGED <<pc, job, ended, sets, alias, faults>> /\ (published => published')
      /\ ~disturbed'[m] => ~disturbed[m] /\ (stack' = stack \/ (Finish /\ pc[m] \in {"stack", "gone"}))
  BY AccountLeavesAlone
<1>2. Sound(m)'
  BY <1>1 DEF Sound, Mine
<1>3. ASSUME ~disturbed'[m], stack' = stack
      PROVE  Achieved(m)'
  <2>1. Achieved(m)
    BY <1>1, <1>3
  <2>2. Status' = Status /\ (Exists' <=> Exists)
    BY <1>3 DEF Status, Exists
  <2>3. Awaited(m) => Awaited(m)'
    BY <1>3, <2>2 DEF Awaited, Mine
  <2>4. Mine(m, stack.params)' <=> Mine(m, stack.params)
    BY <1>3 DEF Mine
  <2>5. ~Exists => published' = published
    <3>1. CASE Finish
      BY <3>1, FinishChanges
    <3>2. CASE Publish
      BY <3>2 DEF Publish, Status, Settled
    <3>. QED
      BY <3>1, <3>2
  <2>. QED
    BY <1>1, <1>3, <2>1, <2>2, <2>3, <2>4, <2>5 DEF Achieved
<1>4. ASSUME ~disturbed'[m], Finish, pc[m] \in {"stack", "gone"}
      PROVE  Achieved(m)'
  <2>1. Achieved(m) /\ ended[m] = "running"
    BY <1>1, <1>4 DEF Sound
  <2>2. CASE pc[m] = "gone"
    BY <1>1, <2>1, <2>2 DEF Achieved
  <2>3. CASE pc[m] = "stack"
    <3>1. Awaited(m)
      BY <2>1, <2>3 DEF Achieved
    <3>2. Status \in {"CREATE_IN_PROGRESS", "UPDATE_IN_PROGRESS"}
      BY <1>4, <3>1, FinishedStack DEF Awaited, Failed
    <3>3. Awaited(m)'
      BY <1>4, <3>1, <3>2, FinishedStack DEF Awaited, Failed, Mine
    <3>. QED
      BY <1>1, <2>1, <2>3, <3>3 DEF Achieved
  <2>. QED
    BY <1>4, <2>2, <2>3
<1>. QED
  BY <1>1, <1>2, <1>3, <1>4

LEMMA EndOfNext == Types /\ EndInv /\ [Next]_deploymentVars => EndInv'
<1>. SUFFICES ASSUME Types, EndInv, [Next]_deploymentVars, NEW m \in Macs
              PROVE  Sound(m)' /\ (~disturbed'[m] => Achieved(m)')
  BY DEF EndInv
<1>0. Sound(m) /\ (~disturbed[m] => Achieved(m))
  BY DEF EndInv
<1>1. CASE UNCHANGED deploymentVars
  <2>1. UNCHANGED <<stack, sets, alias, published, pc, job, ended, disturbed, faults>>
    BY <1>1 DEF deploymentVars, account, control
  <2>. QED
    BY <1>0, <2>1 DEF Sound, Achieved, Awaited, Mine, Status, Exists
<1>2. ASSUME NEW n \in Macs, OthersStep(n)
      PROVE  Sound(m)' /\ (~disturbed'[m] => Achieved(m)')
  <2>1. CASE n = m
    BY <1>0, <1>2, <2>1, SoundOfOwnStep, EndOfOwnStep
  <2>2. CASE n # m
    BY <1>0, <1>2, <2>2, EndOfOthersStep
  <2>. QED
    BY <2>1, <2>2
<1>3. CASE Finish \/ Publish
  BY <1>0, <1>3, EndOfAccountStep
<1>. QED
  BY <1>1, <1>2, <1>3, WhoSteps

LEMMA EndOfInit == Init => EndInv
  BY DEF Init, EndInv, Sound, Achieved

\* A command that no other Mac interferes with has done what it says, however
\* many Macs there are and whatever the templates of their versions declare.
THEOREM CommandsEndAsSaid == Spec => []EndsAsSaid
<1>1. Types /\ EndInv => EndsAsSaid
  <2>. SUFFICES ASSUME Types, EndInv, NEW m \in Macs, ~disturbed[m]
                PROVE  /\ ended[m] = "deployed" =>
                            /\ Status \in Settled
                            /\ DOMAIN stack.params = Declares[m]
                            /\ \A p \in Sent \cap Declares[m] : stack.params[p] = m
                            /\ alias = stack.lb
                            /\ published
                       /\ ended[m] = "deleted" =>
                            /\ ~Exists
                            /\ faults = 0 => ~published /\ (job[m].known => alias # job[m].lb)
    BY DEF EndsAsSaid
  <2>1. Achieved(m)
    BY DEF EndInv
  <2>. QED
    BY <2>1 DEF Achieved, Mine
<1>2. Spec => [](Types /\ EndInv)
  BY TypesOfInit, TypesOfNext, EndOfInit, EndOfNext, PTL DEF Spec
<1>. QED
  BY <1>1, <1>2, PTL

-----------------------------------------------------------------------------
\* Every command ends.

\* How many steps a command still has at most.
StepsLeft(m) ==
  CASE pc[m] = "idle" -> 0
    [] pc[m] \in {"save", "parameters"} -> 1
    [] pc[m] \in {"parameter", "gone"} -> 2
    [] pc[m] \in {"alias", "delete"} -> 3
    [] pc[m] \in {"outputs", "unalias"} -> 4
    [] pc[m] \in {"stack", "forget"} -> 5
    [] pc[m] \in {"execute", "revoke"} -> 6
    [] pc[m] \in {"planned", "remove"} -> 7
    [] pc[m] = "change" -> 8
    [] pc[m] = "carry" -> 9
    [] pc[m] = "exists" -> 10
    [] pc[m] = "store" -> 11
    [] pc[m] = "mint" -> 12
    [] pc[m] = "evict" -> 13
    [] OTHER -> 14

LEMMA StepsCounted ==
  ASSUME NEW m \in Macs
  PROVE  /\ Types => StepsLeft(m) \in 0 .. 14 /\ (StepsLeft(m) <= 0 => pc[m] = "idle")
         /\ Types' => StepsLeft(m)' \in 0 .. 14
<1>1. ASSUME pc[m] \in Steps
      PROVE  StepsLeft(m) \in 0 .. 14 /\ (StepsLeft(m) <= 0 => pc[m] = "idle")
  BY <1>1, SMTT(30) DEF Steps, Waits, StepsLeft
<1>2. ASSUME pc'[m] \in Steps
      PROVE  StepsLeft(m)' \in 0 .. 14
  BY <1>2, SMTT(30) DEF Steps, Waits, StepsLeft
<1>3. (Types => pc[m] \in Steps) /\ (Types' => pc'[m] \in Steps)
  BY DEF Types, DeploymentTypeOK
<1>. QED
  BY <1>1, <1>2, <1>3

\* A step of a command brings it closer to its end, and so does a call that
\* fails without ending it.
LEMMA StepsShrink ==
  ASSUME DeploymentTypeOK, NEW m \in Macs, Step(m) \/ Fault(m)
  PROVE  StepsLeft(m)' < StepsLeft(m)
<1>0. pc \in [Macs -> Steps]
  BY DEF DeploymentTypeOK
<1>. USE <1>0 DEF Goes, Ends, StepsLeft
<1>1. CASE ListKeys(m) \/ Evict(m) \/ CreateKey(m) \/ StoreKey(m)
  <2>1. CASE ListKeys(m)
    <3>1. pc[m] = "list" /\ (Goes(m, "evict") \/ Goes(m, "mint"))
      BY <2>1, Zenon DEF ListKeys
    <3>. QED
      BY <3>1
  <2>2. CASE Evict(m) \/ CreateKey(m) \/ StoreKey(m)
    BY <2>2 DEF Evict, CreateKey, StoreKey
  <2>. QED
    BY <1>1, <2>1, <2>2
<1>2. CASE StackExists(m) \/ ExistingParameterKeys(m) \/ CreateChangeSet(m)
  BY <1>2 DEF StackExists, ExistingParameterKeys, CreateChangeSet
<1>3. CASE WaitForChangeSet(m) \/ ExecuteChangeSet(m) \/ WaitForStack(m)
  BY <1>3 DEF WaitForChangeSet, ExecuteChangeSet, WaitForStack
<1>4. CASE StackOutputs(m) \/ UpsertAlias(m) \/ WaitForParameter(m) \/ SaveSettings(m)
  BY <1>4 DEF StackOutputs, UpsertAlias, WaitForParameter, SaveSettings
<1>5. CASE RemoveProfile(m) \/ DeleteAppAccessKey(m) \/ ForgetAppCredentials(m)
  BY <1>5 DEF RemoveProfile, DeleteAppAccessKey, ForgetAppCredentials, AfterKeys
<1>6. CASE DeleteAlias(m) \/ DeleteStack(m) \/ WaitUntilGone(m) \/ DeleteParametersByPath(m)
  BY <1>6 DEF DeleteAlias, DeleteStack, WaitUntilGone, DeleteParametersByPath
<1>7. CASE GivesUp(m)
  BY <1>7 DEF GivesUp
<1>8. CASE Fault(m)
  <2>1. CASE pc' = [pc EXCEPT ![m] = "idle"]
    BY <1>8, <2>1 DEF Fault, Steps, Waits
  <2>2. CASE pc[m] \in DOMAIN Tolerated /\ pc' = [pc EXCEPT ![m] = Tolerated[pc[m]]]
    <3>1. pc[m] \in {"list", "evict", "mint", "store", "save", "revoke", "unalias", "parameters"}
      BY <2>2 DEF Tolerated
    <3>2. pc'[m] = Tolerated[pc[m]]
      BY <2>2
    <3>. QED
      BY <3>1, <3>2 DEF Tolerated
  <2>. QED
    BY <1>8, <2>1, <2>2 DEF Fault
<1>. QED
  BY <1>1, <1>2, <1>3, <1>4, <1>5, <1>6, <1>7, <1>8 DEF Step

\* And no other step, of another Mac or of the account, takes it further away.
LEMMA StepsStay ==
  ASSUME Types, Types', NEW m \in Macs, pc[m] # "idle", [Next]_deploymentVars
  PROVE  StepsLeft(m)' <= StepsLeft(m)
<1>0. StepsLeft(m) \in 0 .. 14 /\ StepsLeft(m)' \in 0 .. 14
  BY StepsCounted
<1>1. ASSUME pc'[m] = pc[m] PROVE StepsLeft(m)' <= StepsLeft(m)
  <2>1. StepsLeft(m)' = StepsLeft(m)
    BY <1>1 DEF StepsLeft
  <2>. QED
    BY <1>0, <2>1
<1>2. ASSUME NEW n \in Macs, OthersStep(n), n # m PROVE StepsLeft(m)' <= StepsLeft(m)
  BY <1>1, <1>2, OthersLeaveAlone
<1>3. CASE OthersStep(m)
  <2>1. Step(m) \/ Fault(m)
    BY <1>3 DEF OthersStep, ResolveClient, Uninstall, Starts
  <2>2. StepsLeft(m)' < StepsLeft(m)
    BY <2>1, StepsShrink DEF Types
  <2>. QED
    BY <1>0, <2>2
<1>4. CASE Finish \/ Publish
  BY <1>1, <1>4, AccountLeavesAlone
<1>5. CASE UNCHANGED deploymentVars
  BY <1>1, <1>5 DEF deploymentVars, control
<1>. QED
  BY <1>2, <1>3, <1>4, <1>5, WhoSteps

\* What WF_deploymentVars(Step(m)) says of a Mac, with pc[m] # "idle" for
\* ENABLED: some step's guard is true wherever a command is, for a wait may be
\* given up.  The Mac is idle again and again, or its command goes on.
GoesOn(m) == []<>(pc[m] = "idle") \/ []<><<Step(m)>>_deploymentVars

\* One Mac's command ends: it takes at most fourteen steps, none of which any
\* other Mac, CloudFormation or a failing call can undo.
LEMMA RunEnds ==
  ASSUME NEW m \in Macs
  PROVE  Spec /\ GoesOn(m) => (pc[m] # "idle" ~> pc[m] = "idle")
<1>. DEFINE Near(k) == StepsLeft(m) <= k
           N0 == Near(0)
           N1 == Near(1)
           N2 == Near(2)
           N3 == Near(3)
           N4 == Near(4)
           N5 == Near(5)
           N6 == Near(6)
           N7 == Near(7)
           N8 == Near(8)
           N9 == Near(9)
           N10 == Near(10)
           N11 == Near(11)
           N12 == Near(12)
           N13 == Near(13)
           N14 == Near(14)
<1>0. (pc[m] # "idle") <=> ~(pc[m] = "idle")
  OBVIOUS
<1>1. Types => N14 /\ (N0 => pc[m] = "idle")
  BY StepsCounted
<1>2. ASSUME Types, Types', NEW k \in 0 .. 14, Near(k), pc[m] # "idle", [Next]_deploymentVars
      PROVE  Near(k)'
  <2>1. StepsLeft(m)' <= StepsLeft(m)
    BY <1>2, StepsStay
  <2>2. StepsLeft(m) \in 0 .. 14 /\ StepsLeft(m)' \in 0 .. 14
    BY <1>2, StepsCounted
  <2>. QED
    BY <1>2, <2>1, <2>2
<1>3. ASSUME Types, Types', NEW k \in 1 .. 14, Near(k), <<Step(m)>>_deploymentVars
      PROVE  Near(k - 1)'
  <2>1. StepsLeft(m)' < StepsLeft(m)
    BY <1>3, StepsShrink DEF Types
  <2>2. StepsLeft(m) \in 0 .. 14 /\ StepsLeft(m)' \in 0 .. 14
    BY <1>3, StepsCounted
  <2>. QED
    BY <1>3, <2>1, <2>2
<1>4. Types /\ Types' /\ pc[m] # "idle" /\ [Next]_deploymentVars =>
        /\ N1 => N1'
        /\ N2 => N2'
        /\ N3 => N3'
        /\ N4 => N4'
        /\ N5 => N5'
        /\ N6 => N6'
        /\ N7 => N7'
        /\ N8 => N8'
        /\ N9 => N9'
        /\ N10 => N10'
        /\ N11 => N11'
        /\ N12 => N12'
        /\ N13 => N13'
  BY <1>2
<1>5. Types /\ Types' /\ <<Step(m)>>_deploymentVars =>
        /\ N1 => N0'
        /\ N2 => N1'
        /\ N3 => N2'
        /\ N4 => N3'
        /\ N5 => N4'
        /\ N6 => N5'
        /\ N7 => N6'
        /\ N8 => N7'
        /\ N9 => N8'
        /\ N10 => N9'
        /\ N11 => N10'
        /\ N12 => N11'
        /\ N13 => N12'
        /\ N14 => N13'
  BY <1>3
<1>6. Spec => []Types
  BY TypesOfInit, TypesOfNext, PTL DEF Spec
<1>. HIDE DEF N0, N1, N2, N3, N4, N5, N6, N7, N8, N9, N10, N11, N12, N13, N14
<1>7. Spec /\ GoesOn(m) => [](pc[m] # "idle" => <>(N7 \/ pc[m] = "idle"))
  BY <1>0, <1>1, <1>4, <1>5, <1>6, PTL DEF Spec, GoesOn
<1>8. Spec /\ GoesOn(m) => [](N7 /\ pc[m] # "idle" => <>(pc[m] = "idle"))
  BY <1>0, <1>1, <1>4, <1>5, <1>6, PTL DEF Spec, GoesOn
<1>. QED
  BY <1>0, <1>7, <1>8, PTL

\* Every command of every Mac comes to an end, however many Macs there are and
\* whatever CloudFormation, the other Macs and failing calls do, if only each
\* command goes on: every wait has its limit (awsops.go:557).
THEOREM CommandsEnd == Spec /\ (\A m \in Macs : GoesOn(m)) => EveryRunEnds
<1>1. \A m \in Macs : Spec /\ GoesOn(m) => (pc[m] # "idle" ~> pc[m] = "idle")
  BY RunEnds
<1>. QED
  BY <1>1 DEF EveryRunEnds
=============================================================================
