---------------------------- MODULE StateRegister ----------------------------
(***************************************************************************)
(* What src/state.rs promises of one JSON document: however the processes   *)
(* that update it interleave, fail and die, the document is the sum of the  *)
(* updates that took effect, each of which took effect at one instant, and  *)
(* an update that was reported as done is part of it for good.              *)
(***************************************************************************)
CONSTANT Procs      \* the processes, each with one update to make

VARIABLES value,    \* the updates the document contains
          acked     \* the updates reported as done

vars == <<value, acked>>

Init == value = {} /\ acked = {}

\* The update of p takes effect; a process that could not tell may repeat it.
Commit(p) ==
  /\ value' = value \union {p}
  /\ UNCHANGED acked

Acknowledge(p) ==
  /\ p \in value
  /\ acked' = acked \union {p}
  /\ UNCHANGED value

Next == \E p \in Procs : Commit(p) \/ Acknowledge(p)

Spec == Init /\ [][Next]_vars
=============================================================================
