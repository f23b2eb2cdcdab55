---------------------------- MODULE Calibration ----------------------------
(***************************************************************************)
(* What is kept of the runs of one command in one directory (one signature *)
(* of calibration-v3.json), the imported route policy, and the route both  *)
(* lead to: routing/mod.rs, routing/calibration.rs, routing/policy.rs.     *)
(*                                                                         *)
(* A context stands for the context signature with the contract of the     *)
(* adapter, which is part of it.  Durations and token counts are small     *)
(* numbers; a median is doubled and a percentage multiplied out, so that   *)
(* they stay whole.                                                        *)
(***************************************************************************)
EXTENDS Naturals, Sequences, SequencesExt

CONSTANTS
    Contexts,       \* adaptive contexts: configuration, PATH and contract
    Objective,      \* the policy objective of a context
    MaxSamples      \* CALIBRATION_MAX_SAMPLES

ASSUME ContextsAssumption == "none" \notin Contexts
ASSUME ObjectiveAssumption == Objective \in [Contexts -> {"latency", "balanced", "tokens"}]
ASSUME MaxSamplesAssumption == MaxSamples \in Nat /\ MaxSamples > 2

\* An entry with no samples is one the file does not hold: validate refuses it
NoEntry == [context |-> "none", raw |-> <<>>, native |-> <<>>]
EmptyEntry(c) == [NoEntry EXCEPT !.context = c]

Total(numbers) == FoldLeft(LAMBDA sum, n : sum + n, 0, numbers)

\* Twice the median; for a sequence that is not empty
DoubleMedian(times) ==
    LET sorted == SortSeq(times, <=)
        middle == Len(times) \div 2
    IN  IF Len(times) % 2 = 0 THEN sorted[middle] + sorted[middle + 1]
                              ELSE 2 * sorted[middle + 1]

\* rawIsFaster: both medians are known, and that of raw is not the larger
Select(rawIsFaster, saved, input, objective) ==
    IF \/ objective = "balanced" /\ input > 0 /\ 4 * saved >= input
       \/ objective = "tokens" /\ input > 0 /\ saved > 0
       \/ ~rawIsFaster
    THEN "native-rtk"
    ELSE "raw"

SelectedRoute(e, objective) ==
    LET Column(field) == [n \in DOMAIN e.native |-> e.native[n][field]]
    IN  Select(/\ e.raw # <<>> /\ e.native # <<>>
               /\ DoubleMedian(e.raw) <= DoubleMedian(Column("ms")),
               Total(Column("saved")), Total(Column("input")), objective)

Phase(e) ==
    CASE e.raw = <<>> \/ Len(e.native) < 2 -> "candidate"
      [] e.raw # <<>> /\ Len(e.native) >= 2 /\ Len(e.raw) < 2 -> "provisional"
      [] OTHER -> "stable"

\* Mutant: a provisional choice is never checked against a second raw run
NextRoute_Trusting(e, c) ==
    CASE e.context # c -> "native-rtk"
      [] e.context = c /\ e.raw = <<>> -> "raw"
      [] e.context = c /\ e.raw # <<>> /\ Len(e.native) < 2 -> "native-rtk"
      [] OTHER -> SelectedRoute(e, Objective[c])

\* The observation an entry still lacks comes first, then the choice
NextRoute(e, c) ==
    CASE e.context # c -> "native-rtk"
      [] e.context = c /\ e.raw = <<>> -> "raw"
      [] e.context = c /\ e.raw # <<>> /\ Len(e.native) < 2 -> "native-rtk"
      [] e.context = c /\ Len(e.raw) = 1 /\ Len(e.native) > 2 -> "raw"
      [] OTHER -> SelectedRoute(e, Objective[c])

----------------------------------------------------------------------------
(* Recording *)

Newest(samples) ==
    IF Len(samples) > MaxSamples
    THEN SubSeq(samples, Len(samples) - MaxSamples + 1, Len(samples))
    ELSE samples

\* Mutant: what was measured in another context stays
Recorded_Mixed(e, c, route, sample) ==
    IF route = "raw"
    THEN [e EXCEPT !.context = c, !.raw = Newest(Append(@, sample.ms))]
    ELSE [e EXCEPT !.context = c, !.native = Newest(Append(@, sample))]

\* The entry once a run of context c is added; one of another context makes room
Recorded(e, c, route, sample) ==
    LET own == IF e.context = c THEN e ELSE EmptyEntry(c)
    IN  IF route = "raw" THEN [own EXCEPT !.raw = Newest(Append(@, sample.ms))]
                         ELSE [own EXCEPT !.native = Newest(Append(@, sample))]

IsEvidence(exit, route) == exit = 0 /\ route \in {"raw", "native-rtk"}

----------------------------------------------------------------------------
(* The imported policy: evidence of a benchmark, under the key of the command *)
(* itself ("git:status") or under that of its kind ("git:read-only") *)

Keys == {"command", "kind"}
NoEvidence == [raw |-> 0, candidate |-> 0, savings |-> 0, samples |-> 0]
NoPolicy == [context |-> "none", evidence |-> [k \in Keys |-> NoEvidence]]

IsValid(evidence) == evidence.samples >= 5

\* The route of an evidence for key k, or "none"
RouteFor(policy, k, c) ==
    LET evidence == policy.evidence[k]
    IN  IF policy.context = c /\ IsValid(evidence)
        THEN Select(evidence.raw <= evidence.candidate, evidence.savings, 100, Objective[c])
        ELSE "none"

\* import refuses what was measured in another context than that of now or of the file
MayImport(policy, from, evidence, now) ==
    /\ IsValid(evidence) /\ from = now
    /\ policy.context \in {"none", from}

Merged(policy, from, k, evidence) ==
    [context |-> from, evidence |-> [policy.evidence EXCEPT ![k] = evidence]]
=============================================================================
