----------------------------- MODULE MCQuality -----------------------------
(* Model-checking instance of Quality: the reports of the publishing       *)
(* machine, and the reports QualityReport is checked on.                   *)
EXTENDS Quality, TLC

\* The builds of the default branch are pushes to it, the others of one pull
\* request.
MCRef == [b \in Builds |-> IF b \in Main THEN "push" ELSE "pull request"]

\* Two statements, of which the first h ran.
Profile(h) ==
  [i \in 1 .. 2 |-> [at |-> i, statements |-> 1, count |-> IF i <= h THEN 1 ELSE 0]]

Ok(tests) == [results |-> [t \in tests |-> "pass"], failed |-> FALSE]

Report(tests, hits) ==
  [tests |-> [a \in Areas |-> [p |-> Ok(tests)]],
   cover |-> [a \in Measured |-> Profile(hits)],
   vulns |-> <<>>]

T == <<"T">>
Sub == <<"T", "a">>
Other == <<"U">>

\* A full build, one that covers less and has a test fewer, one that does not
\* build on Linux, and one whose last line was cut.
MCReports ==
  LET full == Report({T, Other}, 2) IN
  {full, Report({T}, 1),
   [full EXCEPT !.tests["linux"] = [p |-> [results |-> [t \in {} |-> "pass"], failed |-> TRUE]]],
   [full EXCEPT !.tests["e2e"] = Garbled]}

Falling == {Report({T, Other}, 2), Report({T, Other}, 1)}

\* Every package of a test, its subtest and another test: each may be absent,
\* passed, failed, skipped or never ended, and a package with a failed test
\* has failed.
Actions == {"started", "pass", "fail", "skip"}
Packages ==
  {p \in [results : UNION {[S -> Actions] : S \in SUBSET {T, Sub, Other}}, failed : BOOLEAN] :
     (\E t \in DOMAIN p.results : p.results[t] = "fail") => p.failed}

Lines == [at : {1, 2}, count : {0, 1}]
Sized(line) == [at |-> line.at, statements |-> line.at, count |-> line.count]
Profiles == {[i \in DOMAIN s |-> Sized(s[i])] : s \in UNION {[1 .. n -> Lines] : n \in 0 .. 3}}

Vulns == {<<[osv |-> "v", called |-> TRUE], [osv |-> "v", called |-> TRUE]>>, Garbled}

MCSamples ==
  LET full == Report({T}, 2) IN
  {[full EXCEPT !.tests["macos"] = file, !.vulns = v] :
     file \in {Missing} \cup {[p |-> p] : p \in Packages}, v \in Vulns}
  \cup {[full EXCEPT !.cover["macos"] = m, !.cover["linux"] = l] :
     m \in {Missing} \cup Profiles, l \in {Missing} \cup {s \in Profiles : Len(s) < 3}}
=============================================================================
