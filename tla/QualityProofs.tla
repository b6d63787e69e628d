--------------------------- MODULE QualityProofs ---------------------------
(***************************************************************************)
(* Theorems about Quality, for any builds, reports, history limit and      *)
(* number of attempts and failed calls.                                    *)
(***************************************************************************)
EXTENDS Quality, FoldLemmas, SequenceTheorems

\* Leaving a run out of a sequence and adding one to it.
LEMMA WithoutType ==
  ASSUME NEW runs \in Seq(Builds), NEW b
  PROVE  /\ Without(runs, b) \in Seq(Builds)
         /\ Range(Without(runs, b)) \subseteq Range(runs)
         /\ Len(Without(runs, b)) <= Len(runs)
<1>1. CASE b \notin Range(runs)
  BY <1>1 DEF Without
<1>2. CASE b \in Range(runs)
  <2> DEFINE i == CHOOSE i \in DOMAIN runs : runs[i] = b
             front == SubSeq(runs, 1, i - 1)
             back == SubSeq(runs, i + 1, Len(runs))
  <2>1. i \in 1 .. Len(runs)
    BY <1>2 DEF Range
  <2>2. Without(runs, b) = front \o back
    BY <1>2 DEF Without, RemoveAt
  <2> HIDE DEF i
  <2>3. /\ front \in Seq(Builds) /\ Len(front) = i - 1
        /\ \A k \in 1 .. Len(front) : front[k] = runs[k]
    BY <2>1
  <2>4. /\ back \in Seq(Builds) /\ Len(back) = Len(runs) - i
        /\ \A k \in 1 .. Len(back) : back[k] = runs[i + k]
    BY <2>1
  <2> HIDE DEF front, back
  <2> DEFINE all == front \o back
  <2>5. /\ all \in Seq(Builds) /\ Len(all) = Len(front) + Len(back)
        /\ \A k \in 1 .. Len(front) + Len(back) :
             all[k] = IF k <= Len(front) THEN front[k] ELSE back[k - Len(front)]
    <3> HIDE DEF front, back
    <3> QED
      BY <2>3, <2>4, ConcatProperties, Zenon
  <2> HIDE DEF all
  <2>6. \A j \in 1 .. Len(runs) : runs[j] \in Range(runs)
    BY DEF Range
  <2>9. ASSUME NEW k \in 1 .. Len(all) PROVE all[k] \in Range(runs)
    <3>1. CASE k <= Len(front)
      <4>1. k \in 1 .. Len(runs) /\ all[k] = runs[k]
        BY <2>1, <2>3, <2>4, <2>5, <3>1
      <4> QED
        BY <4>1, <2>6
    <3>2. CASE k > Len(front)
      <4>1. k - Len(front) \in 1 .. Len(back) /\ k - Len(front) + i \in 1 .. Len(runs)
        BY <2>1, <2>3, <2>4, <2>5, <3>2
      <4>2. all[k] = back[k - Len(front)]
        BY <2>1, <2>3, <2>4, <2>5, <3>2, <4>1
      <4>3. back[k - Len(front)] = runs[i + (k - Len(front))]
        BY <2>4, <4>1
      <4> QED
        BY <4>1, <4>2, <4>3, <2>1, <2>3, <2>6
    <3> QED
      BY <3>1, <3>2, <2>3, <2>4, <2>5
  <2>7. Range(all) \subseteq Range(runs) /\ Len(all) <= Len(runs)
    <3>1. \A r \in Range(all) : \E k \in 1 .. Len(all) : r = all[k]
      BY <2>5 DEF Range
    <3>2. Len(all) <= Len(runs)
      BY <2>1, <2>3, <2>4, <2>5
    <3>3. Range(all) \subseteq Range(runs)
      <4> SUFFICES ASSUME NEW r \in Range(all) PROVE r \in Range(runs)
        OBVIOUS
      <4>1. PICK k \in 1 .. Len(all) : r = all[k]
        BY <3>1
      <4> QED
        BY <4>1, <2>9
    <3> QED
      BY <3>2, <3>3
  <2>8. Without(runs, b) = all
    BY <2>2 DEF all
  <2> QED
    BY <2>5, <2>7, <2>8
<1> QED
  BY <1>1, <1>2

LEMMA AppendRunType ==
  ASSUME NEW runs \in Seq(Builds), Len(runs) <= HistoryLimit, NEW b \in Builds
  PROVE  /\ AppendRun(runs, b) \in Seq(Builds)
         /\ Len(AppendRun(runs, b)) <= HistoryLimit
         /\ Range(AppendRun(runs, b)) \subseteq Range(runs) \cup {b}
<1> DEFINE all == Append(Without(runs, b), b)
           drop == Len(all) - HistoryLimit + 1
           last == SubSeq(all, drop, Len(all))
<1>1. /\ all \in Seq(Builds) /\ Len(all) <= HistoryLimit + 1
      /\ Range(all) \subseteq Range(runs) \cup {b}
  <2> DEFINE less == Without(runs, b)
  <2>1. less \in Seq(Builds) /\ Range(less) \subseteq Range(runs) /\ Len(less) <= Len(runs)
    BY WithoutType
  <2> HIDE DEF less
  <2>2. /\ Append(less, b) \in Seq(Builds) /\ Len(Append(less, b)) = Len(less) + 1
        /\ \A k \in 1 .. Len(less) + 1 : Append(less, b)[k] = IF k <= Len(less) THEN less[k] ELSE b
    BY <2>1
  <2>3. Range(Append(less, b)) \subseteq Range(less) \cup {b}
    BY <2>1, <2>2 DEF Range
  <2> QED
    BY <2>1, <2>2, <2>3, QualityAssumption DEF less
<1>2. AppendRun(runs, b) = IF Len(all) > HistoryLimit THEN last ELSE all
  BY DEF AppendRun
<1> HIDE DEF all
<1>3. CASE Len(all) > HistoryLimit
  <2>1. Len(all) = HistoryLimit + 1 /\ drop = 2
    BY <1>1, <1>3, QualityAssumption
  <2>2. /\ last \in Seq(Builds) /\ Len(last) = Len(all) - 1
        /\ \A k \in 1 .. Len(last) : last[k] = all[k + 1]
    BY <1>1, <2>1, QualityAssumption
  <2>3. Range(last) \subseteq Range(all)
    BY <1>1, <2>2 DEF Range
  <2> QED
    BY <1>1, <1>2, <1>3, <2>1, <2>2, <2>3, QualityAssumption
<1> QED
  BY <1>1, <1>2, <1>3, QualityAssumption

-----------------------------------------------------------------------------
\* The histories are kept short; a build that is under way has been collected,
\* one past its first put has its page, and one that reads has attempts left.
Short(h) == Len(Runs(h)) <= HistoryLimit

Underway ==
  \A b \in Builds :
    /\ Running(b) => summary[b] \in Summaries
    /\ pc[b] \in {"reading", "writing", "registering"} => b \in stored
    /\ pc[b] \in {"waiting", "storing"} => attempt[b] = 0
    /\ pc[b] = "reading" => attempt[b] < Attempts
    /\ pc[b] = "registering" => b \in Main

QualityInv ==
  /\ QualityTypeOK
  /\ Short(history)
  /\ \A b \in Builds : Short(seen[b])
  /\ Underway
  /\ LinksWork

LEMMA Bounds == Attempts \in Nat /\ Attempts > 0 /\ MaxFaults \in Nat
BY QualityAssumption

LEMMA RunsType == ASSUME NEW h \in Histories PROVE Runs(h) \in Seq(Builds)
BY QualityAssumption DEF Histories, Runs

\* What is compared is coverage of the measured areas, and the test count.
LEMMA FallsType ==
  ASSUME NEW now \in Summaries, NEW before
  PROVE  Falls(now, before) \in SUBSET (Measured \cup {"tests"})
<1>1. PICK report : now = Collect(report)
  BY DEF Summaries
<1>2. now.coverage = [a \in Profiled(report) |-> ParseCoverProfile(report.cover[a])]
  BY <1>1 DEF Collect
<1>3. DOMAIN now.coverage \subseteq Measured
  BY <1>2, Zenon DEF Profiled
<1> QED
  BY <1>3 DEF Falls

\* What a write leaves behind.
LEMMA Appended ==
  ASSUME QualityInv, NEW b \in Builds, pc[b] = "writing"
  PROVE  LET new == AppendRun(Runs(seen[b]), b) IN
         new \in Histories /\ Short(new) /\ Range(Runs(new)) \subseteq stored
<1> DEFINE new == AppendRun(Runs(seen[b]), b)
<1>1. Runs(seen[b]) \in Seq(Builds) /\ Len(Runs(seen[b])) <= HistoryLimit
  BY RunsType DEF QualityInv, QualityTypeOK, Short
<1>2. new \in Seq(Builds) /\ Len(new) <= HistoryLimit /\ Range(new) \subseteq Range(Runs(seen[b])) \cup {b}
  BY <1>1, AppendRunType
<1>3. Runs(new) = new /\ new \in Histories
  BY <1>2, QualityAssumption DEF Runs, Histories
<1>4. Range(Runs(seen[b])) \cup {b} \subseteq stored
  BY DEF QualityInv, LinksWork, Underway
<1> HIDE DEF new
<1> QED
  BY <1>2, <1>3, <1>4 DEF Short, new

LEMMA InvInit == Init => QualityInv
<1> SUFFICES ASSUME Init PROVE QualityInv
  OBVIOUS
<1>1. Runs(None) = <<>>
  BY DEF Runs
<1>2. QualityTypeOK
  BY QualityAssumption DEF Init, QualityTypeOK, Histories
<1>3. Short(None) /\ Range(Runs(None)) = {}
  BY <1>1, QualityAssumption DEF Short, Range
<1> QED
  BY <1>2, <1>3 DEF QualityInv, Init, Underway, Running, LinksWork

LEMMA InvStep == QualityInv /\ [Next]_qualityVars => QualityInv'
<1> SUFFICES ASSUME QualityInv, [Next]_qualityVars PROVE QualityInv'
  OBVIOUS
<1> USE DEF QualityInv
<1>0. CASE UNCHANGED qualityVars
  BY <1>0 DEF qualityVars, QualityTypeOK, Short, Runs, Underway, Running, LinksWork
<1>1. ASSUME NEW b \in Builds, NEW report \in Reports, Start(b, report) PROVE QualityInv'
  <2>0. ~Unreadable(report) => Collect(report) \in Summaries
    BY DEF Summaries
  <2>1. QualityTypeOK'
    BY <1>1, <2>0 DEF QualityTypeOK, Start, Ends, Goes
  <2>2. Underway'
    BY <1>1, <2>0 DEF QualityTypeOK, Underway, Start, Ends, Goes, Running
  <2> QED
    BY <1>1, <2>1, <2>2 DEF Start, Short, Runs, LinksWork
<1>2. ASSUME NEW b \in Builds, StoreRun(b) PROVE QualityInv'
  <2>1. QualityTypeOK'
    BY <1>2 DEF QualityTypeOK, StoreRun, Goes
  <2>2. Underway'
    BY <1>2, Bounds DEF QualityTypeOK, Underway, StoreRun, Goes, Running
  <2> QED
    BY <1>2, <2>1, <2>2 DEF StoreRun, Short, Runs, LinksWork
<1>3. ASSUME NEW b \in Builds, ReadHistory(b) PROVE QualityInv'
  <2>1. FindRegressions(b, Runs(history)) \in SUBSET (Measured \cup {"tests"})
    BY <1>3, FallsType DEF ReadHistory, FindRegressions, Underway, Running
  <2> HIDE DEF Measured
  <2>2. attempt[b] + 1 \in 0 .. Attempts
    <3>1. attempt[b] \in 0 .. Attempts /\ attempt[b] < Attempts
      BY <1>3 DEF ReadHistory, QualityTypeOK, Underway
    <3> QED
      BY <3>1, Bounds
  <2>3. QualityTypeOK'
    BY <1>3, <2>1, <2>2 DEF QualityTypeOK, ReadHistory, Goes
  <2>4. Underway'
    BY <1>3 DEF QualityTypeOK, Underway, ReadHistory, Goes, Running
  <2> QED
    BY <1>3, <2>3, <2>4 DEF ReadHistory, Short, Runs, LinksWork, QualityTypeOK
<1>4. ASSUME NEW b \in Builds, pc[b] = "writing", history' = AppendRun(Runs(seen[b]), b),
             Written(b) \/ Again(b), faults' \in 0 .. MaxFaults,
             UNCHANGED <<summary, seen, attempt, falls, stored, latest>>
      PROVE  QualityInv'
  <2>1. history' \in Histories /\ Short(history') /\ Range(Runs(history')) \subseteq stored
    BY <1>4, Appended
  <2>2. QualityTypeOK'
    <3>1. Verdict(b) \in {"passed", "failed"}
      BY DEF Verdict
    <3> QED
      BY <1>4, <2>1, <3>1 DEF QualityTypeOK, Written, Again, Goes, Ends
  <2>3. Underway'
    BY <1>4 DEF QualityTypeOK, Underway, Written, Again, Goes, Ends, Running
  <2> QED
    BY <1>4, <2>1, <2>2, <2>3 DEF Short, Runs, LinksWork
<1>5. ASSUME NEW b \in Builds, WriteHistory(b) PROVE QualityInv'
  BY <1>4, <1>5 DEF WriteHistory, QualityTypeOK
<1>6. ASSUME NEW b \in Builds, WriteIsUnanswered(b) PROVE QualityInv'
  <2>1. faults' \in 0 .. MaxFaults
    <3>1. faults \in 0 .. MaxFaults /\ faults < MaxFaults /\ faults' = faults + 1
      BY <1>6 DEF WriteIsUnanswered, Fault, QualityTypeOK
    <3> QED
      BY <3>1, Bounds
  <2> QED
    BY <1>4, <1>6, <2>1 DEF WriteIsUnanswered
<1>7. ASSUME NEW b \in Builds, Running(b), faults' \in 0 .. MaxFaults,
             (pc[b] = "writing" /\ Again(b)) \/ (\E how \in {"failed", "cancelled", "passed"} : Ends(b, how)),
             latest' = latest \/ (latest' = b /\ b \in Main \cap stored),
             UNCHANGED <<summary, seen, attempt, falls, stored, history>>
      PROVE  QualityInv'
  <2>1. QualityTypeOK'
    BY <1>7 DEF QualityTypeOK, Again, Goes, Ends
  <2>2. Underway'
    BY <1>7 DEF QualityTypeOK, Underway, Again, Goes, Ends, Running
  <2> QED
    BY <1>7, <2>1, <2>2 DEF Short, Runs, LinksWork
<1>8. ASSUME Fault PROVE faults' \in 0 .. MaxFaults
  <2>1. faults \in 0 .. MaxFaults /\ faults < MaxFaults /\ faults' = faults + 1
    BY <1>8 DEF Fault, QualityTypeOK
  <2> QED
    BY <2>1, Bounds
<1>9. faults' = faults => faults' \in 0 .. MaxFaults
  BY DEF QualityTypeOK
<1>10. ASSUME NEW b \in Builds, WriteConflicts(b) PROVE QualityInv'
  BY <1>7, <1>9, <1>10 DEF WriteConflicts, Running
<1>11. ASSUME NEW b \in Builds, WriteIsBusy(b) PROVE QualityInv'
  BY <1>7, <1>8, <1>11 DEF WriteIsBusy, Running
<1>12. ASSUME NEW b \in Builds, CallFails(b) PROVE QualityInv'
  BY <1>7, <1>8, <1>12 DEF CallFails, Running
<1>13. ASSUME NEW b \in Builds, Cancel(b) PROVE QualityInv'
  BY <1>7, <1>9, <1>13 DEF Cancel
<1>14. ASSUME NEW b \in Builds, Register(b) PROVE QualityInv'
  <2>1. b \in Main \cap stored
    BY <1>14 DEF Register, Underway
  <2> QED
    BY <1>7, <1>9, <1>14, <2>1 DEF Register, Running, Verdict
<1> QED
  BY <1>0, <1>1, <1>2, <1>3, <1>5, <1>6, <1>10, <1>11, <1>12, <1>13, <1>14 DEF Next, Publishes

THEOREM Invariance == Spec => []QualityInv
BY InvInit, InvStep, PTL DEF Spec

\* Every reachable state is well typed.
THEOREM QualityTypeCorrect == Spec => []QualityTypeOK
BY Invariance, PTL DEF QualityInv

\* Every run the site links to has its page, whichever builds are cut off.
THEOREM PagesExist == Spec => []LinksWork
BY Invariance, PTL DEF QualityInv

\* The publishing machine adds whole runs to the history, one at a time: it
\* implements QualityHistory.
THEOREM HistoryIsShared == Spec => RunsAreAdded
<1>1. Init => Promise!Init
  BY DEF Init, Promise!Init, Runs
<1>2. QualityInv /\ [Next]_qualityVars => [Promise!Next]_(Runs(history))
  <2> SUFFICES ASSUME QualityInv, [Next]_qualityVars
               PROVE  history' = history \/ \E b \in Builds : Runs(history)' = Promise!Newest(Append(Promise!Others(b), b))
    BY DEF Promise!Next, Promise!Publish, Runs
  <2>1. ASSUME NEW b \in Builds, pc[b] = "writing", history = seen[b],
               history' = AppendRun(Runs(seen[b]), b)
        PROVE  Runs(history)' = Promise!Newest(Append(Promise!Others(b), b))
    <3> DEFINE runs == Runs(history)
               all == Append(Without(runs, b), b)
    <3>1. runs \in Seq(Builds) /\ Len(runs) <= HistoryLimit
      BY RunsType DEF QualityInv, QualityTypeOK, Short
    <3>2. all \in Seq(Builds) /\ Len(all) <= HistoryLimit + 1 /\ Len(all) \in Nat
      <4> HIDE DEF runs
      <4>1. Without(runs, b) \in Seq(Builds) /\ Len(Without(runs, b)) <= Len(runs)
        BY <3>1, WithoutType
      <4> QED
        BY <3>1, <4>1, QualityAssumption
    <3>3. Promise!Others(b) = Without(runs, b)
      BY DEF Promise!Others, Without, Promise!Range, Promise!RemoveAt, Range, RemoveAt
    <3>4. Runs(history)' = AppendRun(runs, b)
      <4>1. history' = AppendRun(runs, b)
        BY <2>1
      <4>2. AppendRun(runs, b) # None
        <5> HIDE DEF runs
        <5> QED
          BY <3>1, AppendRunType, QualityAssumption
      <4> QED
        BY <4>1, <4>2 DEF Runs
    <3> HIDE DEF all
    <3>5. Len(all) > HistoryLimit => SubSeq(all, Len(all) - HistoryLimit + 1, Len(all)) = Tail(all)
      <4> SUFFICES ASSUME Len(all) > HistoryLimit PROVE SubSeq(all, 2, Len(all)) = Tail(all)
        BY <3>2, QualityAssumption
      <4>1. all # <<>>
        BY <3>2, QualityAssumption
      <4> QED
        BY <3>2, <4>1, TailIsSubSeq
    <3> QED
      BY <3>3, <3>4, <3>5 DEF AppendRun, Promise!Newest, all
  <2> QED
    BY <2>1 DEF Next, qualityVars, Publishes, Start, StoreRun, ReadHistory, WriteHistory, WriteConflicts,
                WriteIsBusy, WriteIsUnanswered, CallFails, Cancel, Register
<1> QED
  BY <1>1, <1>2, Invariance, PTL DEF Spec, RunsAreAdded, Promise!Spec

-----------------------------------------------------------------------------
\* Judged where it stands.


\* The last of the first n runs that is one of good, or 0: what Baseline looks
\* for, with the state it reads as a parameter.
LastIn(runs, n, good) ==
  LET I == {i \in 1 .. n : runs[i] \in good} IN IF I # {} THEN Max(I) ELSE 0

Passing == {r \in Main : summary[r].status = "passed"}

LEMMA BaselineIsLast ==
  ASSUME NEW runs, NEW n
  PROVE  Baseline(runs, n) = LastIn(runs, n, Passing)
<1>1. {i \in 1 .. n : runs[i] \in Main /\ summary[runs[i]].status = "passed"} = {i \in 1 .. n : runs[i] \in Passing}
  BY DEF Passing
<1> QED
  BY <1>1 DEF Baseline, SelectLastInSubSeq, LastIn

LEMMA LastInIs ==
  ASSUME NEW runs, NEW n \in Nat, NEW good
  PROVE  LET m == LastIn(runs, n, good) IN
         \/ m = 0 /\ \A j \in 1 .. n : runs[j] \notin good
         \/ m \in 1 .. n /\ runs[m] \in good /\ \A j \in 1 .. n : runs[j] \in good => j <= m
<1> DEFINE I == {i \in 1 .. n : runs[i] \in good}
           m == LastIn(runs, n, good)
<1>1. m = IF I # {} THEN Max(I) ELSE 0
  BY DEF LastIn
<1>2. I \in SUBSET (1 .. n) /\ \A j \in 1 .. n : j \in I <=> runs[j] \in good
  OBVIOUS
<1> HIDE DEF I, m
<1>3. CASE I = {}
  BY <1>1, <1>2, <1>3 DEF m
<1>4. CASE I # {}
  <2>1. Max(I) \in I /\ \A j \in I : Max(I) >= j
    BY <1>2, <1>4, Greatest
  <2>2. m = Max(I)
    BY <1>1, <1>4
  <2> QED
    BY <1>2, <2>1, <2>2 DEF m
<1> QED
  BY <1>3, <1>4

\* It depends on nothing but which of the first n are good.
LEMMA LastInSame ==
  ASSUME NEW runs, NEW other, NEW n \in Nat, NEW good, NEW fair,
         \A j \in 1 .. n : runs[j] \in good <=> other[j] \in fair
  PROVE  LastIn(runs, n, good) = LastIn(other, n, fair)
<1>1. {i \in 1 .. n : runs[i] \in good} = {i \in 1 .. n : other[i] \in fair}
  OBVIOUS
<1> QED
  BY <1>1 DEF LastIn

\* Every run was judged against the last good one before it.
Judged(runs, good, sum, fell) ==
  \A i \in 1 .. Len(runs) :
    LastIn(runs, i - 1, good) # 0 =>
      fell[runs[i]] = Falls(sum[runs[i]], sum[runs[LastIn(runs, i - 1, good)]])

LEMMA JudgedSame ==
  ASSUME NEW runs \in Seq(Builds), NEW good, NEW fair, NEW sum, NEW sum2, NEW fell, NEW fell2,
         \A i \in 1 .. Len(runs) : /\ runs[i] \in good <=> runs[i] \in fair
                                   /\ sum2[runs[i]] = sum[runs[i]]
                                   /\ fell2[runs[i]] = fell[runs[i]],
         Judged(runs, good, sum, fell)
  PROVE  Judged(runs, fair, sum2, fell2)
<1> SUFFICES ASSUME NEW i \in 1 .. Len(runs), LastIn(runs, i - 1, fair) # 0
             PROVE  fell2[runs[i]] = Falls(sum2[runs[i]], sum2[runs[LastIn(runs, i - 1, fair)]])
  BY DEF Judged
<1>0. i - 1 \in Nat /\ \A j \in 1 .. i - 1 : j \in 1 .. Len(runs)
  OBVIOUS
<1>1. LastIn(runs, i - 1, good) = LastIn(runs, i - 1, fair)
  <2>1. \A j \in 1 .. i - 1 : runs[j] \in good <=> runs[j] \in fair
    BY <1>0
  <2> QED
    BY <1>0, <2>1, LastInSame
<1>2. LastIn(runs, i - 1, fair) \in 1 .. Len(runs)
  <2>1. LastIn(runs, i - 1, fair) \in 1 .. i - 1
    BY <1>0, LastInIs
  <2> QED
    BY <1>0, <2>1
<1>3. fell[runs[i]] = Falls(sum[runs[i]], sum[runs[LastIn(runs, i - 1, fair)]])
  BY <1>1 DEF Judged
<1> QED
  BY <1>2, <1>3

\* A run that is judged against the history it is added to keeps it so.
LEMMA JudgedAppended ==
  ASSUME NEW runs \in Seq(Builds), Len(runs) <= HistoryLimit, NEW b \in Builds, b \notin Range(runs),
         NEW good, NEW sum, NEW fell, Judged(runs, good, sum, fell),
         LastIn(runs, Len(runs), good) # 0 =>
           fell[b] = Falls(sum[b], sum[runs[LastIn(runs, Len(runs), good)]])
  PROVE  Judged(AppendRun(runs, b), good, sum, fell)
<1> DEFINE all == Append(runs, b)
<1>1. /\ all \in Seq(Builds) /\ Len(all) = Len(runs) + 1
      /\ \A j \in 1 .. Len(runs) : all[j] = runs[j]
      /\ all[Len(runs) + 1] = b
  OBVIOUS
<1>2. AppendRun(runs, b) =
        IF Len(all) > HistoryLimit THEN SubSeq(all, Len(all) - HistoryLimit + 1, Len(all)) ELSE all
  BY DEF AppendRun, Without
<1> HIDE DEF all
<1>3. Judged(all, good, sum, fell)
  <2> SUFFICES ASSUME NEW i \in 1 .. Len(all), LastIn(all, i - 1, good) # 0
               PROVE  fell[all[i]] = Falls(sum[all[i]], sum[all[LastIn(all, i - 1, good)]])
    BY DEF Judged
  <2>1. i - 1 \in Nat /\ \A j \in 1 .. i - 1 : j \in 1 .. Len(runs)
    BY <1>1
  <2>2. LastIn(all, i - 1, good) = LastIn(runs, i - 1, good)
    <3>1. \A j \in 1 .. i - 1 : all[j] \in good <=> runs[j] \in good
      BY <1>1, <2>1
    <3> QED
      BY <2>1, <3>1, LastInSame
  <2> DEFINE last == LastIn(runs, i - 1, good)
  <2>3. last \in 1 .. Len(runs)
    <3>1. last \in 1 .. i - 1
      BY <2>1, <2>2, LastInIs
    <3> QED
      BY <2>1, <3>1
  <2>4. all[last] = runs[last]
    BY <1>1, <2>3
  <2>5. CASE i \in 1 .. Len(runs)
    <3>1. fell[runs[i]] = Falls(sum[runs[i]], sum[runs[last]])
      BY <2>2, <2>5 DEF Judged
    <3> QED
      BY <1>1, <2>2, <2>4, <2>5, <3>1
  <2>6. CASE i = Len(runs) + 1
    <3>1. last = LastIn(runs, Len(runs), good)
      BY <2>6
    <3> HIDE DEF last
    <3>2. fell[b] = Falls(sum[b], sum[runs[last]])
      BY <2>2, <3>1 DEF last
    <3> QED
      BY <1>1, <2>2, <2>4, <2>6, <3>2 DEF last
  <2> QED
    BY <1>1, <2>5, <2>6
<1>4. CASE Len(all) > HistoryLimit
  <2> DEFINE tail == SubSeq(all, 2, Len(all))
  <2>1. AppendRun(runs, b) = tail
    <3>1. Len(all) - HistoryLimit + 1 = 2
      BY <1>1, <1>4, QualityAssumption
    <3> QED
      BY <1>2, <1>4, <3>1
  <2>2. /\ tail \in Seq(Builds) /\ Len(tail) = Len(runs)
        /\ \A j \in 1 .. Len(runs) : tail[j] = all[j + 1]
    BY <1>1
  <2> HIDE DEF tail
  <2>3. ASSUME NEW i \in 1 .. Len(runs), LastIn(tail, i - 1, good) # 0
        PROVE  fell[tail[i]] = Falls(sum[tail[i]], sum[tail[LastIn(tail, i - 1, good)]])
    <3> DEFINE m == LastIn(tail, i - 1, good)
               k == LastIn(all, i, good)
    <3>1. i \in Nat /\ i - 1 \in Nat /\ i + 1 \in 1 .. Len(all) /\ i + 1 - 1 = i
      BY <1>1
    <3>2. m \in 1 .. i - 1 /\ tail[m] \in good /\ \A j \in 1 .. i - 1 : tail[j] \in good => j <= m
      BY <2>3, <3>1, LastInIs
    <3>3. \/ k = 0 /\ \A j \in 1 .. i : all[j] \notin good
          \/ k \in 1 .. i /\ all[k] \in good /\ \A j \in 1 .. i : all[j] \in good => j <= k
      BY <3>1, LastInIs
    <3> HIDE DEF m, k
    <3>4. m + 1 \in 1 .. i /\ all[m + 1] = tail[m]
      BY <2>2, <3>2
    <3>5. k \in 1 .. i /\ all[k] \in good /\ m + 1 <= k
      BY <3>2, <3>3, <3>4
    <3>6. k - 1 \in 1 .. i - 1 /\ tail[k - 1] = all[k]
      <4>1. k - 1 \in 1 .. i - 1 /\ k - 1 \in 1 .. Len(runs) /\ k - 1 + 1 = k
        BY <3>2, <3>5
      <4> QED
        BY <2>2, <4>1
    <3>7. k = m + 1
      <4>1. k - 1 <= m
        BY <3>2, <3>5, <3>6
      <4> QED
        BY <3>2, <3>5, <4>1
    <3>8. fell[all[i + 1]] = Falls(sum[all[i + 1]], sum[all[k]])
      BY <1>3, <3>1, <3>5 DEF Judged, k
    <3> QED
      BY <2>2, <3>4, <3>7, <3>8 DEF m
  <2> QED
    BY <2>1, <2>2, <2>3 DEF Judged
<1> QED
  BY <1>1, <1>2, <1>3, <1>4, QualityAssumption

\* A build has an outcome when it has ended, has passed only if nothing fell,
\* and is stored only after it was collected.
Settled ==
  /\ \A r \in stored : pc[r] \notin {"waiting", "storing"}
  /\ \A b \in Builds : outcome[b] # "none" => pc[b] = "ended"
  /\ \A b \in Builds : outcome[b] = "passed" => falls[b] = {}

\* With no call repeated behind its back, a build is in the history once it
\* has written it and not before, holds the comparison with what it read, and
\* every run of the history the one with what it came after.
Standing ==
  /\ \A r \in Range(Runs(history)) : pc[r] \in {"registering", "ended"}
  /\ \A b \in Builds : pc[b] = "writing" => falls[b] = FindRegressions(b, Runs(seen[b]))
  /\ Judged(Runs(history), Passing, summary, falls)

LEMMA SettledStep == QualityInv /\ Settled /\ [Next]_qualityVars => Settled'
<1> SUFFICES ASSUME QualityInv, Settled, [Next]_qualityVars PROVE Settled'
  OBVIOUS
<1> USE DEF Settled
<1>0. QualityTypeOK
  BY DEF QualityInv
<1>1. CASE UNCHANGED qualityVars
  BY <1>1 DEF qualityVars
<1>2. ASSUME NEW b \in Builds, NEW report \in Reports, Start(b, report) PROVE Settled'
  BY <1>0, <1>2 DEF QualityTypeOK, Start, Ends, Goes
<1>3. ASSUME NEW b \in Builds, StoreRun(b) PROVE Settled'
  BY <1>0, <1>3 DEF QualityTypeOK, StoreRun, Goes
<1>4. ASSUME NEW b \in Builds, ReadHistory(b) PROVE Settled'
  BY <1>0, <1>4 DEF QualityTypeOK, ReadHistory, Goes
<1>5. ASSUME NEW b \in Builds, WriteHistory(b) PROVE Settled'
  BY <1>0, <1>5 DEF QualityTypeOK, WriteHistory, Written, Verdict, Ends, Goes
<1>6. ASSUME NEW b \in Builds, WriteConflicts(b) \/ WriteIsBusy(b) \/ WriteIsUnanswered(b) PROVE Settled'
  BY <1>0, <1>6 DEF QualityTypeOK, WriteConflicts, WriteIsBusy, WriteIsUnanswered, Again, Ends, Goes
<1>7. ASSUME NEW b \in Builds, Register(b) PROVE Settled'
  BY <1>0, <1>7 DEF QualityTypeOK, Register, Verdict, Ends, Goes
<1>8. ASSUME NEW b \in Builds, CallFails(b) \/ Cancel(b) PROVE Settled'
  BY <1>0, <1>8 DEF QualityTypeOK, CallFails, Cancel, Ends, Goes
<1> QED
  BY <1>1, <1>2, <1>3, <1>4, <1>5, <1>6, <1>7, <1>8 DEF Next, Publishes

\* What a build found is what a comparison with the same runs finds later: no
\* run that is stored is collected again.
LEMMA SameRegressions ==
  ASSUME NEW runs \in Seq(Builds), NEW b \in Builds,
         summary'[b] = summary[b],
         \A r \in Range(runs) : summary'[r] = summary[r]
  PROVE  FindRegressions(b, runs)' = FindRegressions(b, runs)
<1> DEFINE n == Len(runs)
           last == LastIn(runs, n, Passing)
<1>0. n \in Nat /\ \A j \in 1 .. n : runs[j] \in Range(runs)
  BY DEF Range
<1>1. Baseline(runs, n) = last
  BY BaselineIsLast
<1>2. Baseline(runs, n)' = LastIn(runs, n, Passing')
  <2>1. {i \in 1 .. n : runs[i] \in Main /\ summary'[runs[i]].status = "passed"}
          = {i \in 1 .. n : runs[i] \in Passing'}
    BY DEF Passing
  <2> QED
    BY <2>1 DEF Baseline, SelectLastInSubSeq, LastIn
<1>3. LastIn(runs, n, Passing') = last
  <2>1. \A j \in 1 .. n : runs[j] \in Passing' <=> runs[j] \in Passing
    BY <1>0 DEF Passing
  <2> QED
    BY <1>0, <2>1, LastInSame
<1>4. last # 0 => summary'[runs[last]] = summary[runs[last]]
  <2>1. last # 0 => last \in 1 .. n
    BY <1>0, LastInIs
  <2> QED
    BY <1>0, <2>1
<1> HIDE DEF last
<1> QED
  BY <1>1, <1>2, <1>3, <1>4 DEF FindRegressions

LEMMA StandingStep ==
  QualityInv /\ Settled /\ Standing /\ [Next]_qualityVars /\ faults' = faults => Standing'
<1> SUFFICES ASSUME QualityInv, Settled, Standing, [Next]_qualityVars, faults' = faults
             PROVE  Standing'
  OBVIOUS
<1>0. /\ QualityTypeOK /\ faults \in Nat
      /\ Runs(history) \in Seq(Builds) /\ Len(Runs(history)) <= HistoryLimit
      /\ Range(Runs(history)) \subseteq stored /\ stored \subseteq Builds
      /\ \A b \in Builds : Runs(seen[b]) \in Seq(Builds) /\ Range(Runs(seen[b])) \subseteq stored
  <2>1. QualityTypeOK /\ Short(history) /\ LinksWork
    BY DEF QualityInv
  <2>2. faults \in Nat
    <3>1. faults \in 0 .. MaxFaults
      BY <2>1 DEF QualityTypeOK
    <3> QED
      BY <3>1, Bounds
  <2>3. Runs(history) \in Seq(Builds) /\ stored \subseteq Builds
    BY <2>1, RunsType DEF QualityTypeOK
  <2>4. \A b \in Builds : Runs(seen[b]) \in Seq(Builds)
    BY <2>1, RunsType DEF QualityTypeOK
  <2> QED
    BY <2>1, <2>2, <2>3, <2>4 DEF Short, LinksWork
<1>1. ~Fault
  BY <1>0 DEF Fault
\* A step that leaves the history, and what stored builds and those that
\* write are and found, is harmless.
<1>2. ASSUME history' = history,
             \A r \in Range(Runs(history)) : pc'[r] \in {"registering", "ended"},
             \A r \in stored : summary'[r] = summary[r],
             \A r \in Range(Runs(history)) : falls'[r] = falls[r],
             \A b \in Builds : pc'[b] = "writing" /\ ~(seen'[b] = history /\ falls'[b] = FindRegressions(b, Runs(history))) =>
               pc[b] = "writing" /\ seen'[b] = seen[b] /\ falls'[b] = falls[b],
             \A b \in Builds : pc'[b] = "writing" => summary'[b] = summary[b]
      PROVE  Standing'
  <2>1. Runs(history)' = Runs(history)
    BY <1>2 DEF Runs
  <2>2. Judged(Runs(history), Passing', summary', falls')
    <3> DEFINE runs == Runs(history)
    <3>1. \A i \in 1 .. Len(runs) : runs[i] \in Range(runs)
      BY DEF Range
    <3>2. \A i \in 1 .. Len(runs) : /\ runs[i] \in Passing <=> runs[i] \in Passing'
                                    /\ summary'[runs[i]] = summary[runs[i]]
                                    /\ falls'[runs[i]] = falls[runs[i]]
      BY <1>0, <1>2, <3>1 DEF Passing
    <3> HIDE DEF runs
    <3>3. runs \in Seq(Builds) /\ Judged(runs, Passing, summary, falls)
      BY <1>0 DEF Standing, runs
    <3>4. Judged(runs, Passing', summary', falls')
      BY <3>2, <3>3, JudgedSame
    <3> QED
      BY <3>4 DEF runs
  <2>3. Judged(Runs(history), Passing, summary, falls)'
    BY <2>1, <2>2 DEF Judged
  <2>4. ASSUME NEW b \in Builds, pc'[b] = "writing"
        PROVE  falls'[b] = FindRegressions(b, Runs(seen[b]))'
    <3>1. CASE seen'[b] = history /\ falls'[b] = FindRegressions(b, Runs(history))
      <4>1. FindRegressions(b, Runs(history))' = FindRegressions(b, Runs(history))
        <5>1. summary'[b] = summary[b] /\ \A r \in Range(Runs(history)) : summary'[r] = summary[r]
          BY <1>0, <1>2, <2>4
        <5> QED
          BY <1>0, <2>1, <5>1, SameRegressions DEF FindRegressions, Baseline
      <4>2. FindRegressions(b, Runs(seen[b]))' = FindRegressions(b, Runs(history))'
        BY <1>2, <3>1 DEF FindRegressions, Baseline, Runs
      <4> QED
        BY <3>1, <4>1, <4>2
    <3>2. CASE pc[b] = "writing" /\ seen'[b] = seen[b] /\ falls'[b] = falls[b]
      <4>1. FindRegressions(b, Runs(seen[b]))' = FindRegressions(b, Runs(seen[b]))
        <5>1. summary'[b] = summary[b] /\ \A r \in Range(Runs(seen[b])) : summary'[r] = summary[r]
          BY <1>0, <1>2, <2>4
        <5>2. Runs(seen[b])' = Runs(seen[b])
          BY <3>2 DEF Runs
        <5> QED
          BY <1>0, <5>1, <5>2, SameRegressions DEF FindRegressions, Baseline
      <4> QED
        BY <3>2, <4>1 DEF Standing
    <3> QED
      BY <1>2, <2>4, <3>1, <3>2
  <2> QED
    BY <1>2, <2>1, <2>3, <2>4 DEF Standing
<1> USE DEF Settled
<1>3. CASE UNCHANGED qualityVars
  BY <1>2, <1>3 DEF qualityVars, Standing
<1>4. ASSUME NEW b \in Builds, NEW report \in Reports, Start(b, report) PROVE Standing'
  <2>1. b \notin stored
    BY <1>4 DEF Start
  <2> QED
    BY <1>0, <1>2, <1>4, <2>1 DEF QualityTypeOK, Standing, Start, Ends, Goes
<1>5. ASSUME NEW b \in Builds, StoreRun(b) PROVE Standing'
  BY <1>0, <1>2, <1>5 DEF QualityTypeOK, Standing, StoreRun, Goes
<1>6. ASSUME NEW b \in Builds, ReadHistory(b) PROVE Standing'
  BY <1>0, <1>2, <1>6 DEF QualityTypeOK, Standing, ReadHistory, Goes
<1>7. ASSUME NEW b \in Builds, WriteConflicts(b) \/ Register(b) \/ Cancel(b) PROVE Standing'
  BY <1>0, <1>2, <1>7
     DEF QualityTypeOK, Standing, WriteConflicts, Again, Register, Cancel, Running, Ends, Goes
<1>8. ASSUME NEW b \in Builds, WriteHistory(b) PROVE Standing'
  <2> DEFINE runs == Runs(history)
             new == AppendRun(runs, b)
  <2>1. b \notin Range(runs)
    BY <1>8 DEF Standing, WriteHistory
  <2>2. LastIn(runs, Len(runs), Passing) # 0 =>
          falls[b] = Falls(summary[b], summary[runs[LastIn(runs, Len(runs), Passing)]])
    <3>1. Baseline(runs, Len(runs)) = LastIn(runs, Len(runs), Passing)
      BY BaselineIsLast
    <3>2. falls[b] = FindRegressions(b, runs)
      BY <1>8 DEF Standing, WriteHistory
    <3> QED
      BY <3>1, <3>2 DEF FindRegressions
  <2>3. new \in Seq(Builds) /\ Range(new) \subseteq Range(runs) \cup {b}
    BY <1>0, AppendRunType
  <2>4. history' = new /\ Runs(new) = new
    <3>1. history' = new
      BY <1>8 DEF WriteHistory
    <3>2. Runs(new) = new
      BY <2>3, QualityAssumption DEF Runs
    <3> QED
      BY <3>1, <3>2
  <2>5. Judged(runs, Passing, summary, falls)
    BY DEF Standing
  <2>6. Judged(new, Passing, summary, falls)
    <3> HIDE DEF runs
    <3>1. runs \in Seq(Builds) /\ Len(runs) <= HistoryLimit
      BY <1>0 DEF runs
    <3> QED
      BY <2>1, <2>2, <2>5, <3>1, JudgedAppended
  <2> HIDE DEF new
  <2>7. Runs(history)' = new
    BY <2>4 DEF Runs
  <2>8. Judged(Runs(history), Passing, summary, falls)'
    <3>1. Passing' = Passing /\ summary' = summary /\ falls' = falls
      BY <1>8 DEF WriteHistory, Passing
    <3>2. Judged(Runs(history)', Passing', summary', falls')
      BY <2>6, <2>7, <3>1
    <3> QED
      BY <3>2 DEF Judged
  <2>9. \A r \in Range(new) : pc'[r] \in {"registering", "ended"}
    BY <1>0, <1>8, <2>3 DEF QualityTypeOK, Standing, WriteHistory, Written, Ends, Goes
  <2>10. ASSUME NEW c \in Builds, pc'[c] = "writing"
         PROVE  falls'[c] = FindRegressions(c, Runs(seen[c]))'
    <3>1. pc[c] = "writing"
      BY <1>0, <1>8, <2>10 DEF QualityTypeOK, WriteHistory, Written, Ends, Goes
    <3>2. falls[c] = FindRegressions(c, Runs(seen[c]))
      BY <3>1 DEF Standing
    <3>3. falls' = falls /\ seen' = seen /\ summary' = summary
      BY <1>8 DEF WriteHistory
    <3>4. Runs(seen[c])' = Runs(seen[c])
      BY <3>3 DEF Runs
    <3>5. FindRegressions(c, Runs(seen[c]))' = FindRegressions(c, Runs(seen[c]))
      BY <1>0, <3>3, <3>4, SameRegressions DEF FindRegressions, Baseline
    <3> QED
      BY <3>2, <3>3, <3>5
  <2> QED
    BY <2>7, <2>8, <2>9, <2>10 DEF Standing
<1> QED
  BY <1>1, <1>3, <1>4, <1>5, <1>6, <1>7, <1>8
     DEF Next, Publishes, WriteIsBusy, WriteIsUnanswered, CallFails

StandingInv == QualityInv /\ Settled /\ (faults = 0 => Standing)

LEMMA StandingInit == Init => StandingInv
<1> SUFFICES ASSUME Init PROVE StandingInv
  OBVIOUS
<1>1. Runs(history) = <<>>
  BY DEF Init, Runs
<1>2. Settled
  BY DEF Init, Settled
<1>3. Standing
  <2>1. Judged(Runs(history), Passing, summary, falls)
    BY <1>1 DEF Judged
  <2>2. Range(Runs(history)) = {}
    BY <1>1 DEF Range
  <2> QED
    BY <2>1, <2>2 DEF Init, Standing
<1> QED
  BY <1>2, <1>3, InvInit DEF StandingInv

\* A call that failed is never forgotten.
LEMMA FaultsCount == QualityInv /\ [Next]_qualityVars /\ faults' = 0 => faults' = faults
<1> SUFFICES ASSUME QualityInv, [Next]_qualityVars, faults' = 0, faults' # faults PROVE FALSE
  OBVIOUS
<1>1. faults \in Nat
  <2>1. faults \in 0 .. MaxFaults
    BY DEF QualityInv, QualityTypeOK
  <2> QED
    BY <2>1, Bounds
<1>2. faults' = faults + 1
  BY DEF Next, Publishes, qualityVars, Start, StoreRun, ReadHistory, WriteHistory, WriteConflicts,
         WriteIsBusy, WriteIsUnanswered, CallFails, Cancel, Register, Fault
<1> QED
  BY <1>1, <1>2

LEMMA StandingInvStep == StandingInv /\ [Next]_qualityVars => StandingInv'
BY InvStep, SettledStep, StandingStep, FaultsCount DEF StandingInv

LEMMA StandingJudges == StandingInv => JudgedWhereItStands
<1> SUFFICES ASSUME StandingInv, faults = 0, NEW i \in DOMAIN Runs(history),
                    outcome[history[i]] = "passed", Baseline(history, i - 1) # 0
             PROVE  Falls(summary[history[i]], summary[history[Baseline(history, i - 1)]]) = {}
  BY DEF JudgedWhereItStands
<1>1. Runs(history) = history /\ history \in Seq(Builds)
  <2>1. Runs(history) \in Seq(Builds)
    BY RunsType DEF StandingInv, QualityInv, QualityTypeOK
  <2>2. history # None
    BY DEF Runs
  <2> QED
    BY <2>1, <2>2 DEF Runs
<1>2. i \in 1 .. Len(history) /\ history[i] \in Builds
  BY <1>1
<1>3. falls[history[i]] = Falls(summary[history[i]], summary[history[Baseline(history, i - 1)]])
  <2>1. Baseline(history, i - 1) = LastIn(history, i - 1, Passing)
    BY BaselineIsLast
  <2>2. Judged(history, Passing, summary, falls)
    BY <1>1 DEF StandingInv, Standing
  <2> QED
    BY <1>2, <2>1, <2>2 DEF Judged
<1>4. falls[history[i]] = {}
  BY <1>2 DEF StandingInv, Settled
<1> QED
  BY <1>3, <1>4

\* A job that passed has not fallen against the last passing run of the
\* default branch before its own, while no call was repeated behind its back.
THEOREM VerdictsStand == Spec => []JudgedWhereItStands
BY StandingInit, StandingInvStep, StandingJudges, PTL DEF Spec

-----------------------------------------------------------------------------
\* What a report says is what the files say: the failures.

\* A package fails at least one of the tests it counts just if it failed.
LEMMA PackageFails ==
  ASSUME NEW p, IsFiniteSet(DOMAIN p.results), p.failed \in BOOLEAN,
         (\E t \in DOMAIN p.results : p.results[t] = "fail") => p.failed
  PROVE  LET tally == ParsePackage(p)
         IN  /\ tally.failed \in Nat /\ tally.total \in Nat
             /\ tally.failed > 0 <=> p.failed
             /\ tally.failed > 0 => tally.total > 0
<1> DEFINE all == Counted(p.results)
           bad == {t \in all : p.results[t] = "fail"}
<1>1. /\ IsFiniteSet(all) /\ IsFiniteSet(bad)
      /\ bad \subseteq all
  <2>1. all \subseteq DOMAIN p.results
    BY DEF Counted
  <2> QED
    BY <2>1, FS_Subset
<1>2. /\ Cardinality(all) \in Nat /\ Cardinality(bad) \in Nat
      /\ Cardinality(bad) <= Cardinality(all)
      /\ Cardinality(bad) = 0 <=> bad = {}
  BY <1>1, FS_Subset, FS_CardinalityType, FS_EmptySet
<1>3. bad # {} => p.failed
  BY DEF Counted
<1>4. With(p.results, "fail") = Cardinality(bad)
  BY DEF With
<1> HIDE DEF all, bad
<1> DEFINE crashed == IF p.failed /\ Cardinality(bad) = 0 THEN 1 ELSE 0
<1>5. /\ ParsePackage(p).failed = Cardinality(bad) + crashed
      /\ ParsePackage(p).total = Cardinality(all) + crashed
  BY <1>4 DEF ParsePackage, all
<1>6. crashed \in {0, 1} /\ (crashed = 1 <=> p.failed /\ Cardinality(bad) = 0)
  OBVIOUS
<1> HIDE DEF crashed
<1> QED
  BY <1>2, <1>3, <1>5, <1>6

\* The suites of an area, as AllSuites lists them.
SuitesOf(report, a) ==
  LET suites == ParseGoTest(report.tests[a])
  IN  {<<a, p, suites[p]>> : p \in DOMAIN suites}

\* An area has finitely many suites, each with a number of failures, and one of
\* them has a failure just if the area did not report or a package failed.
LEMMA AreaFails ==
  ASSUME NEW report \in Samples, ~Unreadable(report), NEW a \in Areas
  PROVE  /\ IsFiniteSet(SuitesOf(report, a))
         /\ \A s \in SuitesOf(report, a) : s[3].failed \in Nat
         /\ (\E s \in SuitesOf(report, a) : s[3].failed > 0) <=>
              \/ report.tests[a] = Missing
              \/ \E p \in DOMAIN report.tests[a] : report.tests[a][p].failed
<1> DEFINE file == report.tests[a]
           suites == ParseGoTest(file)
           listed == [p \in DOMAIN suites |-> <<a, p, suites[p]>>]
<1>1. file # Garbled
  BY DEF Unreadable
<1>2. SuitesOf(report, a) = {listed[p] : p \in DOMAIN suites}
  BY DEF SuitesOf
<1>3. \A s \in SuitesOf(report, a) : \E p \in DOMAIN suites : s = listed[p] /\ s[3] = suites[p]
  BY <1>2
<1>4. \A p \in DOMAIN suites : listed[p] \in SuitesOf(report, a) /\ listed[p][3] = suites[p]
  BY <1>2
<1>5. ASSUME IsFiniteSet(DOMAIN suites) PROVE IsFiniteSet(SuitesOf(report, a))
  <2> HIDE DEF suites
  <2>1. DOMAIN listed = DOMAIN suites
    OBVIOUS
  <2> HIDE DEF listed
  <2> QED
    BY <1>2, <1>5, <2>1, FiniteImage
<1>6. CASE file = Missing
  <2>1. suites = [none |-> [total |-> 1, passed |-> 0, failed |-> 1, skipped |-> 0]]
    BY <1>6 DEF ParseGoTest
  <2>2. DOMAIN suites = {"none"} /\ suites["none"].failed = 1
    BY <2>1
  <2>3. IsFiniteSet({"none"})
    BY FS_Singleton
  <2> HIDE DEF suites, listed
  <2>4. listed["none"] \in SuitesOf(report, a) /\ listed["none"][3] = suites["none"]
    BY <1>4, <2>2
  <2>5. \A s \in SuitesOf(report, a) : s[3].failed = 1
    BY <1>3, <2>2
  <2>6. listed["none"][3].failed > 0
    BY <2>2, <2>4
  <2> QED
    BY <1>5, <1>6, <2>2, <2>3, <2>4, <2>5, <2>6
<1>7. CASE file # Missing
  <2>1. /\ IsFiniteSet(DOMAIN file)
        /\ \A p \in DOMAIN file :
             /\ IsFiniteSet(DOMAIN file[p].results)
             /\ file[p].failed \in BOOLEAN
             /\ (\E t \in DOMAIN file[p].results : file[p].results[t] = "fail") => file[p].failed
    BY <1>1, <1>7, QualityReportAssumption, Zenon
  <2>2. suites = [p \in {q \in DOMAIN file : ParsePackage(file[q]).total > 0} |-> ParsePackage(file[p])]
    BY <1>7 DEF ParseGoTest
  <2>3. /\ \A p \in DOMAIN suites : p \in DOMAIN file /\ suites[p] = ParsePackage(file[p])
        /\ \A p \in DOMAIN file : ParsePackage(file[p]).total > 0 => p \in DOMAIN suites
    BY <2>2
  <2>4. ASSUME NEW p \in DOMAIN file
        PROVE  /\ ParsePackage(file[p]).failed \in Nat
               /\ ParsePackage(file[p]).failed > 0 <=> file[p].failed
               /\ ParsePackage(file[p]).failed > 0 => ParsePackage(file[p]).total > 0
    <3> DEFINE pkg == file[p]
    <3>1. /\ IsFiniteSet(DOMAIN pkg.results)
          /\ pkg.failed \in BOOLEAN
          /\ (\E t \in DOMAIN pkg.results : pkg.results[t] = "fail") => pkg.failed
      BY <2>1
    <3> HIDE DEF pkg
    <3>2. LET tally == ParsePackage(pkg)
          IN  /\ tally.failed \in Nat /\ tally.total \in Nat
              /\ tally.failed > 0 <=> pkg.failed
              /\ tally.failed > 0 => tally.total > 0
      BY <3>1, PackageFails
    <3> QED
      BY <3>2, Zenon DEF pkg
  <2>5. IsFiniteSet(DOMAIN suites)
    BY <2>1, <2>3, FS_Subset
  <2> HIDE DEF suites, listed, file
  <2>6. \A s \in SuitesOf(report, a) : s[3].failed \in Nat
    BY <1>3, <2>3, <2>4
  <2>7. ASSUME NEW p \in DOMAIN file, file[p].failed
        PROVE  \E s \in SuitesOf(report, a) : s[3].failed > 0
    <3>1. p \in DOMAIN suites /\ suites[p].failed > 0
      BY <2>3, <2>4, <2>7
    <3>2. listed[p] \in SuitesOf(report, a) /\ listed[p][3].failed > 0
      BY <1>4, <3>1
    <3> QED
      BY <3>2
  <2>8. ASSUME NEW s \in SuitesOf(report, a), s[3].failed > 0
        PROVE  \E p \in DOMAIN file : file[p].failed
    <3>1. PICK p \in DOMAIN suites : s[3] = suites[p]
      BY <1>3, Zenon
    <3> QED
      BY <2>3, <2>4, <2>8, <3>1
  <2> QED
    BY <1>5, <1>7, <2>5, <2>6, <2>7, <2>8 DEF file
<1> QED
  BY <1>6, <1>7

\* A build has finitely many suites.
LEMMA SuitesFinite ==
  ASSUME NEW report \in Samples, ~Unreadable(report)
  PROVE  IsFiniteSet(AllSuites(report))
<1> DEFINE areas == [a \in Areas |-> SuitesOf(report, a)]
<1>1. IsFiniteSet(Areas)
  <2>1. IsFiniteSet({"macos"})
    BY FS_Singleton
  <2>2. IsFiniteSet({"macos"} \cup {"linux"})
    BY <2>1, FS_AddElement
  <2>3. IsFiniteSet(({"macos"} \cup {"linux"}) \cup {"e2e"})
    BY <2>2, FS_AddElement
  <2>4. Areas = ({"macos"} \cup {"linux"}) \cup {"e2e"}
    BY DEF Areas
  <2> QED
    BY <2>3, <2>4
<1>2. \A a \in Areas : IsFiniteSet(areas[a])
  BY AreaFails
<1>3. IsFiniteSet({areas[a] : a \in Areas})
  BY <1>1, FiniteImage, DOMAIN areas = Areas
<1>4. AllSuites(report) = UNION {areas[a] : a \in Areas}
  BY DEF AllSuites, SuitesOf
<1> HIDE DEF areas
<1> QED
  BY <1>2, <1>3, <1>4, FS_UNION

\* A run shows as passed just if nothing failed.
LEMMA FailuresShow == FailureShows
<1> SUFFICES ASSUME NEW report \in Samples, ~Unreadable(report)
             PROVE  Collect(report).status = "passed" <=>
                      \A a \in Areas : /\ report.tests[a] # Missing
                                       /\ \A p \in DOMAIN report.tests[a] : ~report.tests[a][p].failed
  BY DEF FailureShows
<1> DEFINE all == AllSuites(report)
           failed == [s \in all |-> s[3].failed]
<1>1. all = UNION {SuitesOf(report, a) : a \in Areas}
  BY DEF AllSuites, SuitesOf
<1>2. IsFiniteSet(all)
  BY SuitesFinite
<1>3. \A s : s \in all <=> \E a \in Areas : s \in SuitesOf(report, a)
  BY <1>1
<1> HIDE DEF all
<1>4. \A s \in all : failed[s] \in Nat
  BY <1>3, AreaFails
<1>5. SumFunctionOnSet(failed, all) > 0 <=> \E s \in all : failed[s] > 0
  <2> HIDE DEF failed
  <2> QED
    BY <1>2, <1>4, SumPositive
<1>6. FailedCount(report) = SumFunctionOnSet(failed, all)
  BY DEF FailedCount, SumFunction, all
<1>7. Collect(report).status = "passed" <=> ~ (FailedCount(report) > 0)
  BY DEF Collect
<1>8. (\E s \in all : failed[s] > 0) <=>
        \E a \in Areas : \E s \in SuitesOf(report, a) : s[3].failed > 0
  BY <1>3
<1> QED
  BY <1>5, <1>6, <1>7, <1>8, AreaFails

-----------------------------------------------------------------------------
\* The number of tests.

\* The number of a package is that of what came of its tests.
LEMMA PackageCounts ==
  ASSUME NEW p, IsFiniteSet(DOMAIN p.results), <<>> \notin DOMAIN p.results
  PROVE  /\ IsFiniteSet(ResultsOf(p))
         /\ Cardinality(ResultsOf(p)) = ParsePackage(p).total
         /\ ParsePackage(p).total \in Nat
         /\ ParsePackage(p).total = 0 <=> ResultsOf(p) = {}
<1> DEFINE all == Counted(p.results)
           bad == {t \in all : p.results[t] = "fail"}
<1>1. all = Ended(p)
  BY DEF Counted, Ended, HasSubtests
<1>2. /\ IsFiniteSet(all) /\ IsFiniteSet(bad)
      /\ <<>> \notin all
  <2>1. all \subseteq DOMAIN p.results
    BY DEF Counted
  <2> QED
    BY <2>1, FS_Subset
<1>3. /\ Cardinality(all) \in Nat
      /\ Cardinality(bad) = 0 <=> bad = {}
  BY <1>2, FS_CardinalityType, FS_EmptySet
<1>4. ParsePackage(p).total = Cardinality(all) + (IF p.failed /\ Cardinality(bad) = 0 THEN 1 ELSE 0)
  BY DEF ParsePackage, With
<1>5. bad = {} <=> \A t \in Ended(p) : p.results[t] # "fail"
  BY <1>1
<1> HIDE DEF all, bad
<1>6. CASE p.failed /\ bad = {}
  <2>1. ResultsOf(p) = all \cup {<<>>}
    BY <1>1, <1>5, <1>6 DEF ResultsOf
  <2>2. IsFiniteSet(all \cup {<<>>}) /\ Cardinality(all \cup {<<>>}) = Cardinality(all) + 1
    BY <1>2, FS_AddElement
  <2>3. ParsePackage(p).total = Cardinality(all) + 1
    BY <1>3, <1>4, <1>6
  <2> QED
    BY <1>3, <2>1, <2>2, <2>3
<1>7. CASE ~ (p.failed /\ bad = {})
  <2>1. ResultsOf(p) = all
    BY <1>1, <1>5, <1>7 DEF ResultsOf
  <2>2. ParsePackage(p).total = Cardinality(all)
    BY <1>3, <1>4, <1>7
  <2>3. Cardinality(all) = 0 <=> all = {}
    BY <1>2, FS_EmptySet
  <2> QED
    BY <1>2, <1>3, <2>1, <2>2, <2>3
<1> QED
  BY <1>6, <1>7

Labelled(a, p, T) == {<<a, p, t>> : t \in T}

\* A set is as large as that of its elements with two others before each.
LEMMA SameSize ==
  ASSUME NEW T, IsFiniteSet(T), NEW a, NEW p
  PROVE  IsFiniteSet(Labelled(a, p, T)) /\ Cardinality(Labelled(a, p, T)) = Cardinality(T)
<1> DEFINE S == Labelled(a, p, T)
           f == [t \in T |-> <<a, p, t>>]
<1>1. f \in [T -> S] /\ \A t, u \in T : f[t] = f[u] => t = u
  BY DEF Labelled
<1>2. \A s \in S : \E t \in T : f[t] = s
  BY DEF Labelled
<1>3. f \in Bijection(T, S)
  BY <1>1, <1>2 DEF Bijection, Injection, IsInjective, Surjection
<1> QED
  BY <1>3, FS_Bijection DEF ExistsBijection

\* What came of the tests of one suite.
SuiteResults(report, s) ==
  LET file == report.tests[s[1]] IN
  IF file = Missing THEN {<<s[1], "none", <<>>>>} ELSE {<<s[1], s[2], t>> : t \in ResultsOf(file[s[2]])}

\* A suite has the number of its results, and those of an area's suites are all
\* of the area's.
LEMMA AreaCounts ==
  ASSUME NEW report \in Samples, ~Unreadable(report), NEW a \in Areas
  PROVE  /\ \A s \in SuitesOf(report, a) :
              /\ s[1] = a /\ s[3] = ParseGoTest(report.tests[a])[s[2]]
              /\ s = <<s[1], s[2], s[3]>>
              /\ s[3].total \in Nat
              /\ IsFiniteSet(SuiteResults(report, s))
              /\ Cardinality(SuiteResults(report, s)) = s[3].total
              /\ \A r \in SuiteResults(report, s) : r[1] = s[1] /\ r[2] = s[2]
         /\ AreaResults(report, a) = UNION {SuiteResults(report, s) : s \in SuitesOf(report, a)}
<1> DEFINE file == report.tests[a]
           suites == ParseGoTest(file)
<1>1. file # Garbled
  BY DEF Unreadable
<1>2. SuitesOf(report, a) = {<<a, p, suites[p]>> : p \in DOMAIN suites}
  BY DEF SuitesOf
<1>3. CASE file = Missing
  <2>1. suites = [none |-> [total |-> 1, passed |-> 0, failed |-> 1, skipped |-> 0]]
    BY <1>3 DEF ParseGoTest
  <2>2. DOMAIN suites = {"none"} /\ suites["none"].total = 1
    BY <2>1
  <2> HIDE DEF suites
  <2>3. SuitesOf(report, a) = {<<a, "none", suites["none"]>>}
    BY <1>2, <2>2
  <2>4. \A s \in SuitesOf(report, a) : s = <<a, "none", suites["none"]>>
    BY <2>3
  <2>5. \A s \in SuitesOf(report, a) : SuiteResults(report, s) = {<<a, "none", <<>>>>}
    BY <1>3, <2>4 DEF SuiteResults
  <2>6. IsFiniteSet({<<a, "none", <<>>>>}) /\ Cardinality({<<a, "none", <<>>>>}) = 1
    BY FS_Singleton
  <2>7. AreaResults(report, a) = {<<a, "none", <<>>>>}
    BY <1>3 DEF AreaResults
  <2>8. UNION {SuiteResults(report, s) : s \in SuitesOf(report, a)} = {<<a, "none", <<>>>>}
    BY <2>3, <2>5
  <2>9. \A s \in SuitesOf(report, a) :
          /\ s[1] = a /\ s[2] = "none" /\ s[3] = suites["none"] /\ s = <<s[1], s[2], s[3]>>
          /\ s[3].total = 1
    BY <2>2, <2>4
  <2>10. \A s \in SuitesOf(report, a) : \A r \in SuiteResults(report, s) : r[1] = s[1] /\ r[2] = s[2]
    BY <2>5, <2>9
  <2>11. \A s \in SuitesOf(report, a) :
           IsFiniteSet(SuiteResults(report, s)) /\ Cardinality(SuiteResults(report, s)) = s[3].total
    BY <2>5, <2>6, <2>9
  <2>12. \A s \in SuitesOf(report, a) : s[3] = ParseGoTest(file)[s[2]]
    BY <2>9 DEF suites
  <2> QED
    BY <2>7, <2>8, <2>9, <2>10, <2>11, <2>12
<1>4. CASE file # Missing
  <2>1. \A p \in DOMAIN file : IsFiniteSet(DOMAIN file[p].results) /\ <<>> \notin DOMAIN file[p].results
    BY <1>1, <1>4, QualityReportAssumption, Zenon
  <2>2. suites = [p \in {q \in DOMAIN file : ParsePackage(file[q]).total > 0} |-> ParsePackage(file[p])]
    BY <1>4 DEF ParseGoTest
  <2>3. /\ \A p \in DOMAIN suites : p \in DOMAIN file /\ suites[p] = ParsePackage(file[p])
        /\ \A p \in DOMAIN file : ParsePackage(file[p]).total > 0 => p \in DOMAIN suites
    BY <2>2
  <2>4. ASSUME NEW p \in DOMAIN file
        PROVE  /\ IsFiniteSet(ResultsOf(file[p]))
               /\ Cardinality(ResultsOf(file[p])) = ParsePackage(file[p]).total
               /\ ParsePackage(file[p]).total \in Nat
               /\ ParsePackage(file[p]).total = 0 <=> ResultsOf(file[p]) = {}
    <3> DEFINE pkg == file[p]
    <3>1. IsFiniteSet(DOMAIN pkg.results) /\ <<>> \notin DOMAIN pkg.results
      BY <2>1
    <3> HIDE DEF pkg
    <3>2. /\ IsFiniteSet(ResultsOf(pkg))
          /\ Cardinality(ResultsOf(pkg)) = ParsePackage(pkg).total
          /\ ParsePackage(pkg).total \in Nat
          /\ ParsePackage(pkg).total = 0 <=> ResultsOf(pkg) = {}
      BY <3>1, PackageCounts
    <3> QED
      BY <3>2, Zenon DEF pkg
  <2>5. \A p \in DOMAIN file : p \notin DOMAIN suites => ResultsOf(file[p]) = {}
    BY <2>3, <2>4
  <2> DEFINE Of(p) == {<<a, p, t>> : t \in ResultsOf(file[p])}
  <2>6. ASSUME NEW s \in SuitesOf(report, a)
        PROVE  /\ s[1] = a /\ s[2] \in DOMAIN suites /\ s[3] = suites[s[2]] /\ s = <<s[1], s[2], s[3]>>
               /\ SuiteResults(report, s) = Of(s[2])
    <3>1. PICK p \in DOMAIN suites : s = <<a, p, suites[p]>>
      BY <1>2
    <3> HIDE DEF suites
    <3>2. s[1] = a /\ s[2] = p /\ s[3] = suites[p]
      BY <3>1
    <3> QED
      BY <1>4, <3>1, <3>2 DEF SuiteResults
  <2>7. ASSUME NEW s \in SuitesOf(report, a)
        PROVE  /\ s[3].total \in Nat
               /\ IsFiniteSet(SuiteResults(report, s))
               /\ Cardinality(SuiteResults(report, s)) = s[3].total
               /\ \A r \in SuiteResults(report, s) : r[1] = s[1] /\ r[2] = s[2]
    <3> DEFINE p == s[2]
               T == ResultsOf(file[p])
    <3>1. p \in DOMAIN file /\ s[3] = ParsePackage(file[p])
      BY <2>3, <2>6
    <3>2. IsFiniteSet(T) /\ Cardinality(T) = s[3].total /\ s[3].total \in Nat
      <4> HIDE DEF p, file
      <4>1. /\ IsFiniteSet(ResultsOf(file[p]))
            /\ Cardinality(ResultsOf(file[p])) = ParsePackage(file[p]).total
            /\ ParsePackage(file[p]).total \in Nat
        BY <2>4, <3>1
      <4> QED
        BY <3>1, <4>1, Zenon
    <3> HIDE DEF p, T
    <3>3. IsFiniteSet(Labelled(a, p, T)) /\ Cardinality(Labelled(a, p, T)) = Cardinality(T)
      BY <3>2, SameSize, Zenon
    <3>4. SuiteResults(report, s) = Labelled(a, p, T)
      BY <2>6 DEF p, T, Labelled
    <3>5. \A r \in Labelled(a, p, T) : r[1] = a /\ r[2] = p
      BY DEF Labelled
    <3> QED
      BY <2>6, <3>2, <3>3, <3>4, <3>5 DEF p
  <2>8. AreaResults(report, a) = UNION {Of(p) : p \in DOMAIN file}
    BY <1>4 DEF AreaResults
  <2> HIDE DEF suites, file
  <2>9. UNION {Of(p) : p \in DOMAIN file} = UNION {SuiteResults(report, s) : s \in SuitesOf(report, a)}
    <3>1. ASSUME NEW p \in DOMAIN file, NEW r \in Of(p)
          PROVE  \E s \in SuitesOf(report, a) : r \in SuiteResults(report, s)
      <4>1. p \in DOMAIN suites
        BY <2>5
      <4>2. <<a, p, suites[p]>> \in SuitesOf(report, a)
        BY <1>2, <4>1
      <4>3. SuiteResults(report, <<a, p, suites[p]>>) = Of(p)
        BY <2>6, <4>2
      <4> QED
        BY <4>2, <4>3
    <3>2. ASSUME NEW s \in SuitesOf(report, a), NEW r \in SuiteResults(report, s)
          PROVE  \E p \in DOMAIN file : r \in Of(p)
      BY <2>3, <2>6
    <3> HIDE DEF Of
    <3> QED
      BY <3>1, <3>2
  <2> QED
    BY <2>6, <2>7, <2>8, <2>9 DEF suites, file
<1> QED
  BY <1>3, <1>4

\* A build's number of tests is that of what came of them.
LEMMA TestsCount == TestsCountOnce
<1> SUFFICES ASSUME NEW report \in Samples, ~Unreadable(report)
             PROVE  Collect(report).total = Cardinality(UNION {AreaResults(report, a) : a \in Areas})
  BY DEF TestsCountOnce
<1> DEFINE all == AllSuites(report)
           total == [s \in all |-> s[3].total]
           results == [s \in all |-> SuiteResults(report, s)]
<1>1. \A s : s \in all <=> \E a \in Areas : s \in SuitesOf(report, a)
  BY DEF AllSuites, SuitesOf
<1>2. IsFiniteSet(all)
  BY SuitesFinite
<1>3. Collect(report).total = SumFunctionOnSet(total, all)
  BY DEF Collect, TestCount, SumFunction
<1> HIDE DEF all
<1>4. \A s \in all : total[s] \in Nat /\ IsFiniteSet(results[s]) /\ Cardinality(results[s]) = total[s]
  BY <1>1, AreaCounts
<1>5. \A s, t \in all : s # t => results[s] \cap results[t] = {}
  <2> SUFFICES ASSUME NEW s \in all, NEW t \in all, NEW r \in results[s], r \in results[t] PROVE s = t
    OBVIOUS
  <2>1. PICK a \in Areas : s \in SuitesOf(report, a)
    BY <1>1
  <2>2. PICK b \in Areas : t \in SuitesOf(report, b)
    BY <1>1
  <2>3. /\ s[1] = a /\ s[3] = ParseGoTest(report.tests[a])[s[2]] /\ s = <<s[1], s[2], s[3]>>
        /\ r[1] = s[1] /\ r[2] = s[2]
    BY <2>1, AreaCounts
  <2>4. /\ t[1] = b /\ t[3] = ParseGoTest(report.tests[b])[t[2]] /\ t = <<t[1], t[2], t[3]>>
        /\ r[1] = t[1] /\ r[2] = t[2]
    BY <2>2, AreaCounts
  <2>5. s[1] = t[1] /\ s[2] = t[2] /\ s[3] = t[3]
    BY <2>3, <2>4
  <2> QED
    BY <2>3, <2>4, <2>5
<1>6. Cardinality(UNION {results[s] : s \in all}) = SumFunctionOnSet(total, all)
  <2> HIDE DEF total, results
  <2> QED
    BY <1>2, <1>4, <1>5, SumOfSizes
<1>7. UNION {results[s] : s \in all} = UNION {AreaResults(report, a) : a \in Areas}
  <2>1. \A r : (\E s \in all : r \in results[s]) <=>
               \E a \in Areas : \E s \in SuitesOf(report, a) : r \in SuiteResults(report, s)
    BY <1>1
  <2>2. \A a \in Areas : AreaResults(report, a) = UNION {SuiteResults(report, s) : s \in SuitesOf(report, a)}
    BY AreaCounts
  <2>3. \A r : (\E s \in all : r \in results[s]) <=> \E a \in Areas : r \in AreaResults(report, a)
    BY <2>1, <2>2
  <2> HIDE DEF results
  <2> QED
    BY <2>3
<1> QED
  BY <1>3, <1>6, <1>7

-----------------------------------------------------------------------------
\* And the coverage.

\* Lines of a profile, as the Go tools write them.
AreLines(L) ==
  /\ \A l \in L : l.statements \in Nat /\ l.count \in Nat
  /\ \A l, m \in L : l.at = m.at => l.statements = m.statements

\* Tables of a line for some of the blocks.
BestLines(L) == UNION {[D -> L] : D \in SUBSET BlocksOf(L)}

\* What noting a line makes of a table.
IsNoted(after, before, l) ==
  /\ DOMAIN after = DOMAIN before \cup {l.at}
  /\ \A at \in DOMAIN before : at # l.at => after[at] = before[at]
  /\ IF l.at \in DOMAIN before /\ l.count <= before[l.at].count
     THEN after[l.at] = before[l.at]
     ELSE after[l.at] = l

\* Noting a line does no more.
LEMMA NoteType ==
  ASSUME NEW L, NEW table \in BestLines(L), NEW l \in L
  PROVE  /\ Note(table, l) \in BestLines(L)
         /\ IsNoted(Note(table, l), table, l)
<1>1. PICK D \in SUBSET BlocksOf(L) : table \in [D -> L]
  BY DEF BestLines
<1>2. l.at \in BlocksOf(L)
  BY DEF BlocksOf
<1> DEFINE new == [at \in D \cup {l.at} |-> IF at = l.at THEN l ELSE table[at]]
<1>3. DOMAIN table = D
  BY <1>1
<1>4. new \in [D \cup {l.at} -> L] /\ D \cup {l.at} \in SUBSET BlocksOf(L)
  BY <1>1, <1>2
<1>5. new \in BestLines(L)
  BY <1>4 DEF BestLines
<1>6. CASE l.at \in DOMAIN table /\ l.count <= table[l.at].count
  <2>1. Note(table, l) = table
    BY <1>6 DEF Note
  <2> QED
    BY <1>6, <2>1 DEF IsNoted
<1>7. CASE ~ (l.at \in DOMAIN table /\ l.count <= table[l.at].count)
  <2>1. Note(table, l) = new
    BY <1>3, <1>7, Zenon DEF Note
  <2>2. DOMAIN new = DOMAIN table \cup {l.at} /\ new[l.at] = l
    BY <1>1
  <2>3. \A at \in DOMAIN table : at # l.at => new[at] = table[at]
    BY <1>1
  <2> HIDE DEF new
  <2>4. IsNoted(new, table, l)
    BY <1>7, <2>2, <2>3 DEF IsNoted
  <2> QED
    BY <1>5, <2>1, <2>4
<1> QED
  BY <1>6, <1>7

\* The tables on the way.
AreNotes(run, profile, n, L) ==
  /\ run \in [0 .. n -> BestLines(L)]
  /\ run[0] = [at \in {} |-> 0]
  /\ \A i \in 1 .. n : run[i] = Note(run[i - 1], profile[i])

\* A profile is noted line by line.
LEMMA NoteSteps ==
  ASSUME NEW L, NEW n \in Nat, NEW profile \in [1 .. n -> L]
  PROVE  \E run : /\ AreNotes(run, profile, n, L)
                  /\ FoldLeft(Note, [at \in {} |-> 0], profile) = run[n]
<1> DEFINE X == BestLines(L)
           none == [at \in {} |-> 0]
           Body(f) == [s \in SUBSET (1 .. n) |->
              IF s = {} THEN none ELSE Note(f[s \ {Max(s)}], profile[Max(s)])]
           fold == CHOOSE f : f = Body(f)
           step == [i \in 1 .. n |-> [table \in X |-> Note(table, profile[i])]]
<1>1. FoldLeft(Note, none, profile) = fold[1 .. n]
  <2>1. DOMAIN profile = 1 .. n
    OBVIOUS
  <2> QED
    BY <2>1 DEF FoldLeft, MapThenFoldSet
<1>2. AreSteps(step, n, X)
  <2>1. \A i \in 1 .. n : \A table \in X : Note(table, profile[i]) \in X
    BY NoteType
  <2> QED
    BY <2>1 DEF AreSteps
<1>3. none \in X
  <2>1. none \in [{} -> L] /\ {} \in SUBSET BlocksOf(L)
    OBVIOUS
  <2> QED
    BY <2>1 DEF BestLines
<1> HIDE DEF X, none
<1>4. PICK g : IsFold(g, n, X, none, step)
  <2> HIDE DEF step
  <2> QED
    BY <1>2, <1>3, FoldExists
<1>5. g = Body(g)
  <2>1. ASSUME NEW T \in SUBSET (1 .. n), T # {}
        PROVE  g[T] = Note(g[T \ {Max(T)}], profile[Max(T)])
    <3>1. Max(T) \in 1 .. n
      BY <2>1, Greatest
    <3>2. g[T \ {Max(T)}] \in X /\ g[T] = step[Max(T)][g[T \ {Max(T)}]]
      BY <1>4, <2>1 DEF IsFold
    <3> QED
      BY <3>1, <3>2
  <2> QED
    BY <1>4, <2>1 DEF IsFold
<1>6. fold = Body(fold)
  BY <1>5
<1> HIDE DEF fold
<1>7. Recurs(fold, n, X, none, step)
  <2>1. fold[{}] = none
    BY <1>6
  <2>2. ASSUME NEW T \in SUBSET (1 .. n), T # {}, fold[T \ {Max(T)}] \in X
        PROVE  fold[T] = step[Max(T)][fold[T \ {Max(T)}]]
    <3>1. Max(T) \in 1 .. n
      BY <2>2, Greatest
    <3>2. fold[T] = Note(fold[T \ {Max(T)}], profile[Max(T)])
      BY <1>6, <2>2
    <3> QED
      BY <2>2, <3>1, <3>2
  <2> QED
    BY <2>1, <2>2 DEF Recurs
<1>8. PICK run : IsRun(run, n, X, none, step) /\ run[n] = fold[1 .. n]
  <2> HIDE DEF step
  <2> QED
    BY <1>2, <1>3, <1>7, FoldRuns
<1>9. ASSUME NEW i \in 1 .. n PROVE run[i] = Note(run[i - 1], profile[i])
  BY <1>8, i - 1 \in 0 .. n DEF IsRun
<1> QED
  BY <1>1, <1>8, <1>9 DEF AreNotes, IsRun, X, none

\* A profile comes to a table of a block's best line for each of its blocks.
LEMMA BlocksAre ==
  ASSUME NEW L, AreLines(L), NEW profile \in Seq(L)
  PROVE  LET blocks == FoldLeft(Note, [at \in {} |-> 0], profile)
         IN  /\ DOMAIN blocks = BlocksOf(Range(profile))
             /\ \A at \in DOMAIN blocks :
                  /\ blocks[at] \in Range(profile) /\ blocks[at].at = at
                  /\ \A l \in Range(profile) : l.at = at => l.count <= blocks[at].count
<1> DEFINE n == Len(profile)
<1>1. n \in Nat /\ profile \in [1 .. n -> L]
  OBVIOUS
<1> HIDE DEF n
<1>2. PICK run : /\ AreNotes(run, profile, n, L)
                 /\ FoldLeft(Note, [at \in {} |-> 0], profile) = run[n]
  BY <1>1, NoteSteps, Zenon
<1> DEFINE Right(table, i) ==
             /\ DOMAIN table = {profile[k].at : k \in 1 .. i}
             /\ \A at \in DOMAIN table :
                  /\ \E k \in 1 .. i : table[at] = profile[k] /\ profile[k].at = at
                  /\ \A k \in 1 .. i : profile[k].at = at => profile[k].count <= table[at].count
           G == {i \in 0 .. n : Right(run[i], i)}
<1>3. 0 \in G
  <2>1. DOMAIN run[0] = {} /\ 1 .. 0 = {}
    BY <1>2 DEF AreNotes
  <2>2. Right(run[0], 0)
    BY <2>1
  <2> HIDE DEF Right
  <2> QED
    BY <1>1, <2>2
<1>4. ASSUME NEW i \in 1 .. n, i - 1 \in G PROVE i \in G
  <2> DEFINE before == run[i - 1]
             after == run[i]
             l == profile[i]
  <2>1. before \in BestLines(L) /\ Right(before, i - 1) /\ after = Note(before, l) /\ l \in L
    BY <1>1, <1>2, <1>4 DEF AreNotes
  <2> HIDE DEF before, after
  <2>2. IsNoted(after, before, l)
    <3> HIDE DEF l
    <3> QED
      BY <2>1, NoteType
  <2>3. \A k : k \in 1 .. i <=> k \in 1 .. i - 1 \/ k = i
    BY <1>1
  <2>4. DOMAIN after = {profile[k].at : k \in 1 .. i}
    BY <2>1, <2>2, <2>3 DEF IsNoted
  <2>5. \A k \in 1 .. i : profile[k].count \in Nat
    BY <1>1 DEF AreLines
  <2>6. ASSUME NEW at \in DOMAIN after
        PROVE  /\ \E k \in 1 .. i : after[at] = profile[k] /\ profile[k].at = at
               /\ \A k \in 1 .. i : profile[k].at = at => profile[k].count <= after[at].count
    <3>1. CASE at # l.at
      <4>1. at \in DOMAIN before /\ after[at] = before[at]
        BY <2>2, <2>6, <3>1 DEF IsNoted
      <4> QED
        BY <2>1, <2>3, <3>1, <4>1
    <3>2. CASE at = l.at /\ l.at \in DOMAIN before /\ l.count <= before[l.at].count
      <4>1. after[at] = before[at]
        BY <2>2, <3>2 DEF IsNoted
      <4> QED
        BY <2>1, <2>3, <3>2, <4>1
    <3>3. CASE at = l.at /\ ~ (l.at \in DOMAIN before /\ l.count <= before[l.at].count)
      <4>1. after[at] = l
        BY <2>2, <3>3 DEF IsNoted
      <4>2. ASSUME NEW k \in 1 .. i, profile[k].at = at PROVE profile[k].count <= l.count
        <5>1. CASE k = i
          BY <2>5, <5>1
        <5>2. CASE k \in 1 .. i - 1
          <6>1. at \in DOMAIN before /\ profile[k].count <= before[at].count
            BY <2>1, <4>2, <5>2
          <6>2. before[at].count \in Nat
            BY <2>1, <2>3, <2>5, <6>1
          <6> QED
            BY <2>3, <2>5, <3>3, <6>1, <6>2
        <5> QED
          BY <2>3, <5>1, <5>2
      <4> QED
        BY <2>3, <3>3, <4>1, <4>2
    <3> QED
      BY <3>1, <3>2, <3>3
  <2>7. Right(after, i)
    BY <2>4, <2>6
  <2> HIDE DEF Right
  <2> QED
    BY <1>1, <2>7 DEF after
<1>5. n \in G
  <2> HIDE DEF G
  <2> QED
    BY <1>1, <1>3, <1>4, IndexInduction, n \in 0 .. n
<1> DEFINE blocks == FoldLeft(Note, [at \in {} |-> 0], profile)
<1>6. Right(blocks, n)
  BY <1>2, <1>5
<1>7. \A x : x \in Range(profile) <=> \E k \in 1 .. n : x = profile[k]
  BY <1>1 DEF Range
<1> HIDE DEF blocks
<1>8. DOMAIN blocks = BlocksOf(Range(profile))
  BY <1>6, <1>7 DEF BlocksOf
<1>9. ASSUME NEW at \in DOMAIN blocks
      PROVE  /\ blocks[at] \in Range(profile) /\ blocks[at].at = at
             /\ \A l \in Range(profile) : l.at = at => l.count <= blocks[at].count
  BY <1>6, <1>7
<1> QED
  BY <1>8, <1>9 DEF blocks

\* So a profile's figure is that of the set of its blocks.
LEMMA CoverIs ==
  ASSUME NEW L, AreLines(L), NEW profile \in Seq(L), Range(profile) = L
  PROVE  ParseCoverProfile(profile) =
           Pct(SumFunctionOnSet(SizeOf(L), RanOf(L)), SumFunctionOnSet(SizeOf(L), BlocksOf(L)))
<1> DEFINE blocks == FoldLeft(Note, [at \in {} |-> 0], profile)
           statements == [at \in DOMAIN blocks |-> blocks[at].statements]
           ran == {at \in DOMAIN blocks : blocks[at].count > 0}
<1>1. /\ DOMAIN blocks = BlocksOf(L)
      /\ \A at \in DOMAIN blocks :
           /\ blocks[at] \in L /\ blocks[at].at = at
           /\ \A l \in L : l.at = at => l.count <= blocks[at].count
  BY BlocksAre
<1>2. ParseCoverProfile(profile) =
        Pct(SumFunctionOnSet(statements, ran), SumFunctionOnSet(statements, DOMAIN statements))
  BY DEF ParseCoverProfile, SumFunction
<1> HIDE DEF blocks
<1>3. ASSUME NEW at \in BlocksOf(L) PROVE SizeOf(L)[at] = blocks[at].statements
  <2> DEFINE l == CHOOSE l \in L : l.at = at
  <2>1. l \in L /\ l.at = at
    BY DEF BlocksOf
  <2>2. SizeOf(L)[at] = l.statements
    BY DEF SizeOf
  <2> HIDE DEF l
  <2> QED
    BY <1>1, <2>1, <2>2 DEF AreLines
<1>4. statements = SizeOf(L)
  BY <1>1, <1>3 DEF SizeOf
<1>5. ran = RanOf(L)
  <2>1. ASSUME NEW at \in ran PROVE at \in RanOf(L)
    BY <1>1 DEF RanOf
  <2>2. ASSUME NEW l \in L, l.count > 0 PROVE l.at \in ran
    <3>1. l.at \in DOMAIN blocks /\ l.count <= blocks[l.at].count /\ blocks[l.at] \in L
      BY <1>1 DEF BlocksOf
    <3>2. l.count \in Nat /\ blocks[l.at].count \in Nat
      BY <3>1 DEF AreLines
    <3> QED
      BY <2>2, <3>1, <3>2
  <2> HIDE DEF ran
  <2> QED
    BY <2>1, <2>2 DEF RanOf
<1>6. DOMAIN statements = BlocksOf(L)
  BY <1>1
<1> QED
  BY <1>2, <1>4, <1>5, <1>6

\* Percentages are to the nearest tenth.
LEMMA Rounded ==
  ASSUME NEW hit \in Nat, NEW found \in Nat
  PROVE  NearestTenth(Pct(hit, found), hit, found)
<1>1. CASE found = 0
  BY <1>1 DEF Pct, NearestTenth
<1>2. CASE found # 0
  <2> DEFINE a == 2000 * hit + found
             b == 2 * found
             q == a \div b
             r == a % b
  <2>1. a \in Nat /\ b \in Nat \ {0}
    BY <1>2
  <2>2. Pct(hit, found) = q
    BY <1>2 DEF Pct
  <2>3. q \in Nat /\ r \in 0 .. b - 1 /\ a = b * q + r
    <3> HIDE DEF a, b
    <3> QED
      BY <2>1, Quotient
  <2> HIDE DEF q, r
  <2>4. 2000 * hit = 2 * (found * q) + r - found /\ r < 2 * found /\ r >= 0
    BY <2>3
  <2>5. (2 * q + 1) * found = 2 * (found * q) + found /\ (2 * q - 1) * found = 2 * (found * q) - found
    BY <2>3
  <2>6. found * q \in Nat
    BY <2>3
  <2> QED
    BY <1>2, <2>2, <2>3, <2>4, <2>5, <2>6 DEF NearestTenth
<1> QED
  BY <1>1, <1>2

\* All lines of both platforms, one after another.
LEMMA AllLines ==
  ASSUME NEW report \in Samples, Profiled(report) # {}
  PROVE  \E profile \in Seq(LinesOf(report)) :
           Range(profile) = LinesOf(report) /\ Overall(report) = ParseCoverProfile(profile)
<1> DEFINE P == Profiled(report)
           L == LinesOf(report)
           areas == SetToSeq(P)
           seqs == [i \in DOMAIN areas |-> report.cover[areas[i]]]
<1>1. IsFiniteSet(P)
  <2>1. IsFiniteSet({"macos"})
    BY FS_Singleton
  <2>2. IsFiniteSet({"macos"} \cup {"linux"})
    BY <2>1, FS_AddElement
  <2>3. P \in SUBSET ({"macos"} \cup {"linux"})
    BY DEF Profiled, Measured
  <2> HIDE DEF P
  <2> QED
    BY <2>2, <2>3, FS_Subset
<1>2. areas \in Seq(P) /\ Range(areas) = P
  <2> HIDE DEF P
  <2> QED
    BY <1>1, SetAsSequence
<1>3. areas # <<>>
  <2>1. Range(areas) # {}
    BY <1>2
  <2>2. DOMAIN <<>> = {}
    OBVIOUS
  <2> HIDE DEF areas
  <2> QED
    BY <2>1, <2>2 DEF Range
<1>4. Overall(report) = ParseCoverProfile(FlattenSeq(seqs))
  BY <1>3 DEF Overall
<1>5. \A a \in P : report.cover[a] \in Seq(L)
  BY QualityReportAssumption
<1>6. \A x : x \in L <=> \E a \in P : x \in Range(report.cover[a])
  BY DEF LinesOf
<1> HIDE DEF P, L, areas
<1>7. /\ seqs \in Seq(Seq(L)) /\ DOMAIN seqs = DOMAIN areas
      /\ \A i \in DOMAIN seqs : seqs[i] = report.cover[areas[i]]
  <2>1. Len(areas) \in Nat /\ DOMAIN areas = 1 .. Len(areas) /\ \A i \in DOMAIN areas : areas[i] \in P
    BY <1>2
  <2>2. \A i \in DOMAIN areas : report.cover[areas[i]] \in Seq(L)
    BY <1>5, <2>1
  <2>3. seqs \in [1 .. Len(areas) -> Seq(L)]
    BY <2>1, <2>2
  <2> QED
    BY <2>1, <2>3
<1> HIDE DEF seqs
<1> DEFINE profile == FlattenSeq(seqs)
<1>8. profile \in Seq(L) /\ \A x : x \in Range(profile) <=> \E i \in DOMAIN seqs : x \in Range(seqs[i])
  BY <1>7, Flattened
<1> HIDE DEF profile
<1>9. \A a \in P : \E i \in DOMAIN areas : areas[i] = a
  BY <1>2 DEF Range
<1>10. \A i \in DOMAIN areas : areas[i] \in P
  BY <1>2
<1>11. \A x : x \in Range(profile) <=> x \in L
  <2> SUFFICES ASSUME NEW x PROVE x \in Range(profile) <=> x \in L
    OBVIOUS
  <2>1. ASSUME x \in Range(profile) PROVE x \in L
    <3>1. PICK i \in DOMAIN areas : x \in Range(report.cover[areas[i]])
      BY <1>7, <1>8, <2>1, Zenon
    <3> QED
      BY <1>6, <1>10, <3>1, Zenon
  <2>2. ASSUME x \in L PROVE x \in Range(profile)
    <3>1. PICK a \in P : x \in Range(report.cover[a])
      BY <1>6, <2>2, Zenon
    <3>2. PICK i \in DOMAIN areas : areas[i] = a
      BY <1>9
    <3>3. x \in Range(seqs[i])
      BY <1>7, <3>1, <3>2, Zenon
    <3> QED
      BY <1>7, <1>8, <3>2, <3>3, Zenon
  <2> QED
    BY <2>1, <2>2
<1>12. Range(profile) = L
  <2> HIDE DEF Range
  <2>1. \A x : x \in Range(profile) <=> x \in L
    BY <1>11
  <2> QED
    BY <2>1
<1> QED
  BY <1>4, <1>8, <1>12 DEF profile, L

\* The overall figure is that of the set of all blocks.
LEMMA BlocksCount == BlocksCountOnce
<1> SUFFICES ASSUME NEW report \in Samples
             PROVE  NearestTenth(Collect(report).overall,
                      SumFunctionOnSet(SizeOf(LinesOf(report)), RanOf(LinesOf(report))),
                      SumFunction(SizeOf(LinesOf(report))))
  BY Zenon DEF BlocksCountOnce
<1> DEFINE L == LinesOf(report)
           size == SizeOf(L)
           hit == SumFunctionOnSet(size, RanOf(L))
           found == SumFunctionOnSet(size, BlocksOf(L))
           overall == Overall(report)
<1>1. AreLines(L)
  BY QualityReportAssumption DEF AreLines
<1>2. IsFiniteSet(L)
  <2>1. CASE Profiled(report) = {}
    BY <2>1, FS_EmptySet DEF LinesOf
  <2>2. CASE Profiled(report) # {}
    <3>1. PICK profile \in Seq(L) : Range(profile) = L
      BY <2>2, AllLines
    <3> HIDE DEF L
    <3>2. Len(profile) \in Nat /\ DOMAIN profile = 1 .. Len(profile)
      OBVIOUS
    <3>3. IsFiniteSet(DOMAIN profile)
      BY <3>2, FS_Interval
    <3>4. IsFiniteSet({profile[i] : i \in DOMAIN profile})
      BY <3>3, FiniteImage
    <3> QED
      BY <3>1, <3>4 DEF Range
  <2> QED
    BY <2>1, <2>2
<1>3. IsFiniteSet(BlocksOf(L)) /\ RanOf(L) \in SUBSET BlocksOf(L)
  <2> DEFINE f == [l \in L |-> l.at]
  <2>1. IsFiniteSet({f[l] : l \in L})
    <3>1. DOMAIN f = L
      OBVIOUS
    <3> HIDE DEF f, L
    <3> QED
      BY <1>2, <3>1, FiniteImage
  <2> QED
    BY <2>1 DEF BlocksOf, RanOf
<1>4. \A at \in BlocksOf(L) : size[at] \in Nat
  <2> SUFFICES ASSUME NEW at \in BlocksOf(L) PROVE size[at] \in Nat
    OBVIOUS
  <2> HIDE DEF L
  <2> DEFINE l == CHOOSE l \in L : l.at = at
  <2>1. l \in L
    BY DEF BlocksOf
  <2>2. size[at] = l.statements
    BY DEF SizeOf
  <2> QED
    BY <1>1, <2>1, <2>2 DEF AreLines
<1> HIDE DEF L, size
<1>5. hit \in Nat /\ found \in Nat
  <2>1. IsFiniteSet(RanOf(L)) /\ \A at \in RanOf(L) : size[at] \in Nat
    BY <1>3, <1>4, FS_Subset
  <2> QED
    BY <1>3, <1>4, <2>1, SumPositive
<1>6. NearestTenth(overall, hit, found)
  <2>1. CASE Profiled(report) = {}
    <3>1. SetToSeq(Profiled(report)) = <<>>
      <4>1. IsFiniteSet({}) 
        BY FS_EmptySet
      <4>2. SetToSeq({}) \in Seq({})
        BY <4>1, SetAsSequence
      <4>3. SetToSeq({}) = <<>>
        BY <4>2
      <4> QED
        BY <2>1, <4>3
    <3>2. overall = NoData
      BY <3>1 DEF Overall
    <3>3. L = {}
      BY <2>1 DEF L, LinesOf
    <3>4. BlocksOf(L) = {}
      BY <3>3 DEF BlocksOf
    <3>5. ~ (found > 0)
      BY <1>3, <1>4, <3>4, SumPositive
    <3> HIDE DEF found, hit, overall
    <3>6. found = 0
      BY <1>5, <3>5
    <3> QED
      BY <3>2, <3>6 DEF NearestTenth
  <2>2. CASE Profiled(report) # {}
    <3>1. overall = Pct(hit, found)
      <4>1. PICK profile \in Seq(L) : Range(profile) = L /\ overall = ParseCoverProfile(profile)
        BY <2>2, AllLines DEF L
      <4> QED
        BY <1>1, <4>1, CoverIs DEF size
    <3> HIDE DEF hit, found, overall
    <3> QED
      BY <1>5, <3>1, Rounded
  <2> QED
    BY <2>1, <2>2
<1>7. SumFunction(size) = found
  <2>1. DOMAIN size = BlocksOf(L)
    BY DEF size, SizeOf
  <2> QED
    BY <2>1 DEF SumFunction
<1>8. Collect(report).overall = overall
  BY DEF Collect
<1> HIDE DEF overall, found
<1> QED
  BY <1>6, <1>7, <1>8, Zenon DEF L, size

\* Whatever the files of a build hold, its run shows as passed just if every
\* area reported and nothing failed, and its overall coverage is that of the
\* set of blocks of both platforms, however often and in whatever order the
\* profiles name them.
THEOREM ReportsFaithful == Spec => []ReportsAreFaithful
<1>1. ReportsAreFaithful
  BY FailuresShow, TestsCount, BlocksCount DEF ReportsAreFaithful
<1> QED
  BY <1>1, PTL
=============================================================================
