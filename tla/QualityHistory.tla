--------------------------- MODULE QualityHistory ---------------------------
(***************************************************************************)
(* What history.json promises (cmd/quality/main.go:578): it is shared by   *)
(* concurrent builds, and each build that publishes adds its run to what   *)
(* the others have published, in one step: the newest last, a run once,    *)
(* the oldest dropped beyond the limit.                                    *)
(***************************************************************************)
EXTENDS Naturals, SequencesExt

CONSTANTS Builds, Limit

VARIABLE published

Others(r) ==
  IF r \in Range(published)
  THEN RemoveAt(published, CHOOSE i \in DOMAIN published : published[i] = r)
  ELSE published

Newest(runs) == IF Len(runs) > Limit THEN Tail(runs) ELSE runs

Init == published = <<>>

Publish(r) == published' = Newest(Append(Others(r), r))

Next == \E r \in Builds : Publish(r)

Spec == Init /\ [][Next]_published
=============================================================================
