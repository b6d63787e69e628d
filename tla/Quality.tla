------------------------------ MODULE Quality ------------------------------
(***************************************************************************)
(* Builds that publish to one quality site (cmd/quality/main.go): each     *)
(* collects its reports, stores its run, adds it to the history that all   *)
(* builds share, and takes the first place on the board when it is a build *)
(* of the default branch.                                                  *)
(*                                                                         *)
(* The store is S3: a put may be made conditional on the ETag that was     *)
(* read.  An ETag is the digest of the contents, so it is modelled by      *)
(* them.  Builds of two refs run at once; a new build of a ref cancels the *)
(* one before it (ci.yml:22).                                              *)
(***************************************************************************)
EXTENDS QualityReport

CONSTANTS
  Builds,        \* one attempt of one CI run each: what buildContext calls ID
  Main,          \* those of the default branch
  Ref,           \* what each build is of: a branch, or a pull request
  Reports,       \* what a build may have written
  HistoryLimit,
  Attempts,      \* of writing the history
  MaxFaults,     \* calls to the store that fail (a bound)
  None           \* nothing there yet

ASSUME QualityAssumption ==
  /\ Main \subseteq Builds
  /\ HistoryLimit \in Nat \ {0}
  /\ Attempts \in Nat \ {0}
  /\ MaxFaults \in Nat
  /\ None \notin Builds
  /\ None \notin Seq(Builds)

VARIABLES
  pc,          \* where each build is
  summary,     \* of each build, once it is collected
  seen,        \* the history it read last
  attempt,
  falls,       \* what findRegressions said of it
  outcome,     \* of its job
  stored,      \* the runs that have a page
  history,     \* the contents of history.json
  latest,      \* the run on the board
  faults

buildVars == <<pc, summary, seen, attempt, falls, outcome>>
storeVars == <<stored, history, latest>>
qualityVars == <<pc, summary, seen, attempt, falls, outcome, stored, history, latest, faults>>

Runs(h) == IF h = None THEN <<>> ELSE h

-----------------------------------------------------------------------------
\* A drop bigger than this, in tenths, fails the build (regressionTolerance).
Tolerance == 5

Falls(now, before) ==
  {a \in DOMAIN now.coverage \cap DOMAIN before.coverage :
     /\ now.coverage[a] # NoData
     /\ before.coverage[a] # NoData
     /\ now.coverage[a] < before.coverage[a] - Tolerance}
  \cup (IF now.total < before.total THEN {"tests"} ELSE {})

\* The latest build of the default branch whose tests passed, among runs[1 .. n].
Baseline(runs, n) ==
  SelectLastInSubSeq(runs, 1, n, LAMBDA r : r \in Main /\ summary[r].status = "passed")

FindRegressions(b, runs) ==
  LET last == Baseline(runs, Len(runs))
  IN  IF last = 0 THEN {} ELSE Falls(summary[b], summary[runs[last]])

\* An ID is in the history once at most.
Without(runs, b) ==
  IF b \in Range(runs) THEN RemoveAt(runs, CHOOSE i \in DOMAIN runs : runs[i] = b) ELSE runs

AppendRun(runs, b) ==
  LET all == Append(Without(runs, b), b) IN
  IF Len(all) > HistoryLimit THEN SubSeq(all, Len(all) - HistoryLimit + 1, Len(all)) ELSE all

-----------------------------------------------------------------------------
Init ==
  /\ pc = [b \in Builds |-> "waiting"]
  /\ summary = [b \in Builds |-> None]
  /\ seen = [b \in Builds |-> None]
  /\ attempt = [b \in Builds |-> 0]
  /\ falls = [b \in Builds |-> {}]
  /\ outcome = [b \in Builds |-> "none"]
  /\ stored = {}
  /\ history = None
  /\ latest = None
  /\ faults = 0

Running(b) == pc[b] \notin {"waiting", "ended"}

Goes(b, to) == pc' = [pc EXCEPT ![b] = to]

Ends(b, how) == Goes(b, "ended") /\ outcome' = [outcome EXCEPT ![b] = how]

\* The job's exit code: the tests, and what the last comparison said.
Verdict(b) == IF summary[b].status = "passed" /\ falls[b] = {} THEN "passed" ELSE "failed"

\* One build of a ref at a time.
Start(b, report) ==
  /\ pc[b] = "waiting"
  /\ \A other \in Builds : Running(other) => Ref[other] # Ref[b]
  /\ IF Unreadable(report)
     THEN Ends(b, "failed") /\ UNCHANGED summary
     ELSE /\ summary' = [summary EXCEPT ![b] = Collect(report)]
          /\ Goes(b, "storing")
          /\ UNCHANGED outcome
  /\ UNCHANGED <<seen, attempt, falls, stored, history, latest, faults>>

\* Mutant of StoreRun: the page is left for later.
StoreRunLater(b) ==
  /\ pc[b] = "storing"
  /\ Goes(b, "reading")
  /\ UNCHANGED <<summary, seen, attempt, falls, outcome, stored, history, latest, faults>>

StoreRun(b) ==
  /\ pc[b] = "storing"
  /\ stored' = stored \cup {b}
  /\ Goes(b, "reading")
  /\ UNCHANGED <<summary, seen, attempt, falls, outcome, history, latest, faults>>

\* Mutant of ReadHistory: only the first attempt compares.
ReadAndCompareOnce(b) ==
  /\ pc[b] = "reading"
  /\ seen' = [seen EXCEPT ![b] = history]
  /\ attempt' = [attempt EXCEPT ![b] = @ + 1]
  /\ falls' = IF attempt[b] = 0 THEN [falls EXCEPT ![b] = FindRegressions(b, Runs(history))] ELSE falls
  /\ Goes(b, "writing")
  /\ UNCHANGED <<summary, outcome, stored, history, latest, faults>>

\* Compared with what is there now, in every attempt.
ReadHistory(b) ==
  /\ pc[b] = "reading"
  /\ seen' = [seen EXCEPT ![b] = history]
  /\ attempt' = [attempt EXCEPT ![b] = @ + 1]
  /\ falls' = [falls EXCEPT ![b] = FindRegressions(b, Runs(history))]
  /\ Goes(b, "writing")
  /\ UNCHANGED <<summary, outcome, stored, history, latest, faults>>

\* Mutant of Written: every build takes the board.
WrittenAny(b) == Goes(b, "registering") /\ UNCHANGED outcome

\* After the write, a build of the default branch has the board to take.
Written(b) ==
  IF b \in Main THEN Goes(b, "registering") /\ UNCHANGED outcome ELSE Ends(b, Verdict(b))

\* Mutant of WriteHistory: the put is not conditional.
WriteHistoryAnyway(b) ==
  /\ pc[b] = "writing"
  /\ history' = AppendRun(Runs(seen[b]), b)
  /\ Written(b)
  /\ UNCHANGED <<summary, seen, attempt, falls, stored, latest, faults>>

\* The put succeeds if the history still is what was read (If-Match), or is
\* still not there (If-None-Match).
WriteHistory(b) ==
  /\ pc[b] = "writing"
  /\ history = seen[b]
  /\ history' = AppendRun(Runs(seen[b]), b)
  /\ Written(b)
  /\ UNCHANGED <<summary, seen, attempt, falls, stored, latest, faults>>

\* 412 or 409: read again and try again, up to the last attempt.
Again(b) ==
  IF attempt[b] < Attempts THEN Goes(b, "reading") /\ UNCHANGED outcome ELSE Ends(b, "gave up")

WriteConflicts(b) ==
  /\ pc[b] = "writing"
  /\ history # seen[b]
  /\ Again(b)
  /\ UNCHANGED <<summary, seen, attempt, falls, stored, history, latest, faults>>

Fault == faults < MaxFaults /\ faults' = faults + 1

\* 409: another conditional put is under way.
WriteIsBusy(b) ==
  /\ pc[b] = "writing"
  /\ \E other \in Builds \ {b} : pc[other] = "writing"
  /\ Fault
  /\ Again(b)
  /\ UNCHANGED <<summary, seen, attempt, falls, stored, history, latest>>

\* The put is done and its answer is lost; the SDK sends it again, and the
\* build's own entry answers 412.
WriteIsUnanswered(b) ==
  /\ pc[b] = "writing"
  /\ history = seen[b]
  /\ Fault
  /\ history' = AppendRun(Runs(seen[b]), b)
  /\ Again(b)
  /\ UNCHANGED <<summary, seen, attempt, falls, stored, latest>>

Register(b) ==
  /\ pc[b] = "registering"
  /\ latest' = b
  /\ Ends(b, Verdict(b))
  /\ UNCHANGED <<summary, seen, attempt, falls, stored, history, faults>>

\* A call fails for any other reason, and the job with it.
CallFails(b) ==
  /\ pc[b] \in {"storing", "reading", "writing", "registering"}
  /\ Fault
  /\ Ends(b, "failed")
  /\ UNCHANGED <<summary, seen, attempt, falls, stored, history, latest>>

\* A newer build of the ref cancels this one, wherever it is.
Cancel(b) ==
  /\ Running(b)
  /\ \E newer \in Builds : pc[newer] = "waiting" /\ Ref[newer] = Ref[b]
  /\ Ends(b, "cancelled")
  /\ UNCHANGED <<summary, seen, attempt, falls, stored, history, latest, faults>>

Publishes(b) ==
  \/ StoreRun(b) \/ ReadHistory(b) \/ WriteHistory(b) \/ WriteConflicts(b)
  \/ Register(b)

Next ==
  \E b \in Builds :
    \/ \E report \in Reports : Start(b, report)
    \/ Publishes(b)
    \/ WriteIsBusy(b)
    \/ WriteIsUnanswered(b)
    \/ CallFails(b)
    \/ Cancel(b)

Spec == Init /\ [][Next]_qualityVars

-----------------------------------------------------------------------------
Summaries == {Collect(report) : report \in {r \in Reports : ~Unreadable(r)}}

Histories == {None} \cup Seq(Builds)

QualityTypeOK ==
  /\ pc \in [Builds -> {"waiting", "storing", "reading", "writing", "registering", "ended"}]
  /\ summary \in [Builds -> {None} \cup Summaries]
  /\ seen \in [Builds -> Histories]
  /\ attempt \in [Builds -> 0 .. Attempts]
  /\ falls \in [Builds -> SUBSET (Measured \cup {"tests"})]
  /\ outcome \in [Builds -> {"none", "passed", "failed", "gave up", "cancelled"}]
  /\ stored \in SUBSET Builds
  /\ history \in Histories
  /\ latest \in Main \cup {None}
  /\ faults \in 0 .. MaxFaults

\* Whatever the site links to has a page: every run of the history, the run on
\* the board and every run a build still means to add is stored, whichever
\* builds were cut off between two puts (publish, main.go:663).
LinksWork ==
  /\ Range(Runs(history)) \subseteq stored
  /\ latest # None => latest \in stored
  /\ \A b \in Builds : Range(Runs(seen[b])) \subseteq stored

\* The history grows by whole runs, one at a time: no build overwrites what
\* another published after it read ("retried when another build got there
\* first", main.go:664).
Promise == INSTANCE QualityHistory WITH
  Limit <- HistoryLimit, published <- Runs(history)

RunsAreAdded == Promise!Spec

\* While no call is repeated behind its back, a build is judged against the
\* build it comes after: a job that passed has not fallen against the last
\* passing run of the default branch before its own in the history, whatever
\* was published between its first read and its write.
JudgedWhereItStands ==
  faults = 0 =>
    \A i \in DOMAIN Runs(history) :
      LET last == Baseline(history, i - 1) IN
      outcome[history[i]] = "passed" /\ last # 0 =>
        Falls(summary[history[i]], summary[history[last]]) = {}

\* What a report says is what the files say (QualityReport), asked before any
\* build has begun.
ReportsAreFaithful ==
  (\A b \in Builds : pc[b] = "waiting") => FailureShows /\ TestsCountOnce /\ BlocksCountOnce
=============================================================================
