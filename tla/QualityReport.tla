--------------------------- MODULE QualityReport ---------------------------
(***************************************************************************)
(* What cmd/quality makes of one build's reports: `go test -json` and a    *)
(* coverage profile per area, and govulncheck's findings.                  *)
(*                                                                         *)
(* A report holds, per area, the packages that wrote events; a package     *)
(* holds the last action of each test it named (a subtest's name extends   *)
(* its parent's: <<"T">>, <<"T", "a">>) and whether a "fail" event was     *)
(* written for the package itself.  Names, messages and durations are left *)
(* out; coverage is a percentage in tenths, as pct rounds it.              *)
(***************************************************************************)
EXTENDS Integers, FiniteSets, SequencesExt

CONSTANTS
  Missing,  \* a file the build did not write
  Garbled   \* a file that is not JSON to its end

Areas == {"macos", "linux", "e2e"}

\* The end-to-end suite runs the built binary and has no coverage.
Measured == {"macos", "linux"}

NoData == -1

Pct(hit, found) == IF found <= 0 THEN NoData ELSE (2000 * hit + found) \div (2 * found)

-----------------------------------------------------------------------------
\* Tests.

HasSubtests(test, names) == \E other \in names : IsStrictPrefix(test, other)

\* A parent whose subtests ran is a grouping, and a test that never ended has
\* no result.
Counted(results) ==
  {t \in DOMAIN results : results[t] # "started" /\ ~HasSubtests(t, DOMAIN results)}

With(results, action) == Cardinality({t \in Counted(results) : results[t] = action})

\* Mutant of ParsePackage: a package that does not build is not a failure.
ParsePackageByTests(p) ==
  [total |-> Cardinality(Counted(p.results)), passed |-> With(p.results, "pass"),
   failed |-> With(p.results, "fail"), skipped |-> With(p.results, "skip")]

\* A package that failed with no failing test did not build, or crashed.
ParsePackage(p) ==
  LET crashed == IF p.failed /\ With(p.results, "fail") = 0 THEN 1 ELSE 0
  IN  [total   |-> Cardinality(Counted(p.results)) + crashed,
       passed  |-> With(p.results, "pass"),
       failed  |-> With(p.results, "fail") + crashed,
       skipped |-> With(p.results, "skip")]

\* The suites of one area.  A package with nothing to count has none, and an
\* area without a report is one failed suite.
ParseGoTest(file) ==
  IF file = Missing
  THEN [none |-> [total |-> 1, passed |-> 0, failed |-> 1, skipped |-> 0]]
  ELSE [pkg \in {p \in DOMAIN file : ParsePackage(file[p]).total > 0} |-> ParsePackage(file[pkg])]

-----------------------------------------------------------------------------
\* Coverage.  A profile is a sequence of lines, each the statements of a block
\* and how often it ran; the same block may be reported again.

Note(blocks, line) ==
  IF line.at \in DOMAIN blocks /\ line.count <= blocks[line.at].count
  THEN blocks
  ELSE [at \in DOMAIN blocks \cup {line.at} |-> IF at = line.at THEN line ELSE blocks[at]]

ParseCoverProfile(profile) ==
  LET blocks == FoldLeft(Note, [at \in {} |-> 0], profile)
      statements == [at \in DOMAIN blocks |-> blocks[at].statements]
  IN  Pct(SumFunctionOnSet(statements, {at \in DOMAIN blocks : blocks[at].count > 0}),
          SumFunction(statements))

\* Each vulnerability the code calls counts once.
VulnCounts(findings) == Cardinality({f.osv : f \in {f \in Range(findings) : f.called}})

-----------------------------------------------------------------------------
\* A test report that is not JSON to its end makes no run at all.
Unreadable(report) == \E a \in Areas : report.tests[a] = Garbled

\* All suites of a build as <<area, package, tally>>, so that equal tallies
\* stay apart.
AllSuites(report) ==
  UNION {LET suites == ParseGoTest(report.tests[a])
         IN  {<<a, p, suites[p]>> : p \in DOMAIN suites} : a \in Areas}

TestCount(report) == SumFunction([s \in AllSuites(report) |-> s[3].total])
FailedCount(report) == SumFunction([s \in AllSuites(report) |-> s[3].failed])

Profiled(report) == {a \in Measured : report.cover[a] # Missing}

\* A block both platforms compile is counted once, covered if either ran it.
Overall(report) ==
  LET areas == SetToSeq(Profiled(report))
  IN  IF areas = <<>> THEN NoData
      ELSE ParseCoverProfile(FlattenSeq([i \in DOMAIN areas |-> report.cover[areas[i]]]))

\* A missing audit, or one that could not be made, is no vulnerability.
Security(report) ==
  IF report.vulns \in {Missing, Garbled} THEN 0 ELSE VulnCounts(report.vulns)

Collect(report) ==
  [status   |-> IF FailedCount(report) > 0 THEN "failed" ELSE "passed",
   total    |-> TestCount(report),
   coverage |-> [a \in Profiled(report) |-> ParseCoverProfile(report.cover[a])],
   overall  |-> Overall(report),
   security |-> Security(report)]

-----------------------------------------------------------------------------
CONSTANT Samples   \* the reports the two properties below are about

\* All lines of a report's profiles.
LinesOf(report) == UNION {Range(report.cover[a]) : a \in Profiled(report)}

\* What the Go tools write: a test has a name, a package with a failed test
\* has failed itself, and
\* a block has as many statements on every line and every platform.
ASSUME QualityReportAssumption ==
  \A report \in Samples :
    /\ \A a \in Areas : report.tests[a] \notin {Missing, Garbled} =>
         /\ IsFiniteSet(DOMAIN report.tests[a])
         /\ \A p \in DOMAIN report.tests[a] :
              LET pkg == report.tests[a][p] IN
              /\ IsFiniteSet(DOMAIN pkg.results) /\ <<>> \notin DOMAIN pkg.results
              /\ pkg.failed \in BOOLEAN
              /\ (\E t \in DOMAIN pkg.results : pkg.results[t] = "fail") => pkg.failed
    /\ \A a \in Profiled(report) : report.cover[a] \in Seq(LinesOf(report))
    /\ \A l, m \in LinesOf(report) :
         /\ l.statements \in Nat /\ l.count \in Nat
         /\ l.at = m.at => l.statements = m.statements

\* A run shows as passed exactly when every area reported and no package of
\* any failed, whatever hides the failure: a parent and its subtests, a
\* package that did not build, a platform whose step never got to write
\* ("must not look like a clean run", main.go:11).
FailureShows ==
  \A report \in Samples : ~Unreadable(report) =>
    (Collect(report).status = "passed" <=>
       \A a \in Areas : /\ report.tests[a] # Missing
                        /\ \A p \in DOMAIN report.tests[a] : ~report.tests[a][p].failed)

\* What came of the tests of a package: each that ended, with nothing run
\* below it, and one without a name for a failure that no test accounts for.
Ended(p) ==
  {t \in DOMAIN p.results : p.results[t] # "started" /\ \A u \in DOMAIN p.results : ~IsStrictPrefix(t, u)}

ResultsOf(p) ==
  IF p.failed /\ \A t \in Ended(p) : p.results[t] # "fail" THEN Ended(p) \cup {<<>>} ELSE Ended(p)

\* And of an area.
AreaResults(report, a) ==
  LET file == report.tests[a] IN
  IF file = Missing THEN {<<a, "none", <<>>>>}
  ELSE UNION {{<<a, p, t>> : t \in ResultsOf(file[p])} : p \in DOMAIN file}

\* The number a later build's is compared with counts each of them once: no
\* parent of subtests, no test that never ended, and no failure left out
\* (main.go:282).
TestsCountOnce ==
  \A report \in Samples : ~Unreadable(report) =>
    Collect(report).total = Cardinality(UNION {AreaResults(report, a) : a \in Areas})

\* The blocks some lines are about, those that one of them ran, and how many
\* statements each has.
BlocksOf(lines) == {l.at : l \in lines}
RanOf(lines) == {l.at : l \in {l \in lines : l.count > 0}}
SizeOf(lines) == [at \in BlocksOf(lines) |-> (CHOOSE l \in lines : l.at = at).statements]

\* Rounded to the nearest tenth of a per cent.
NearestTenth(pct, hit, found) ==
  IF found = 0 THEN pct = NoData
  ELSE /\ 2000 * hit <= (2 * pct + 1) * found
       /\ 2000 * hit >= (2 * pct - 1) * found

\* A block counts once however many lines name it and in whatever order they
\* come, and is covered when any of them ran it: the overall figure is that of
\* the set of blocks of both platforms.
BlocksCountOnce ==
  \A report \in Samples : ~Unreadable(report) =>
    LET lines == LinesOf(report)
    IN  NearestTenth(Collect(report).overall,
                     SumFunctionOnSet(SizeOf(lines), RanOf(lines)), SumFunction(SizeOf(lines)))
=============================================================================
