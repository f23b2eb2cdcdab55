--------------------------- MODULE MCMeasurement ---------------------------
(* Two invocations that repeat, two contexts, and samples that pull the choice both ways. *)
EXTENDS Measurement, TLC

CONSTANTS a, b, earlier, later

MCObjective == [c \in {earlier, later} |-> IF c = earlier THEN "balanced" ELSE "tokens"]
MCMetricsOn == [c \in {earlier, later} |-> c = earlier]
MCRawTime == [n \in 1..MaxRuns |-> n]
MCNativeSample == [n \in 1..MaxRuns |-> [ms |-> n, input |-> 4, saved |-> n % 2]]
MCEvidence == {[raw |-> 1, candidate |-> 2, savings |-> 0, samples |-> 5],
               [raw |-> 1, candidate |-> 2, savings |-> 30, samples |-> 5],
               [raw |-> 1, candidate |-> 2, savings |-> 30, samples |-> 4]}
Callers == Permutations({a, b})
=============================================================================
