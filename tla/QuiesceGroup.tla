--------------------------- MODULE QuiesceGroup ---------------------------
(***************************************************************************)
(* quiesce_process_group of scripts/launch.sh (and of plan_launch.sh),     *)
(* read by read: the launcher lists /proc once per scan and then opens one *)
(* stat file after the other, while the members of its group run, fork and *)
(* exit.  WslLaunch takes the whole scan for one step; the names here are  *)
(* others than there, so that one module can speak of both.                *)
(***************************************************************************)
EXTENDS Naturals, FiniteSets

CONSTANTS
    Pids,       \* process numbers other than the launcher's own
    Rounds,     \* 20 in the scripts: rounds of 50 ms after a signal
    MaxForks    \* bound of the model: forks the group performs

ASSUME PidsAssumption == IsFiniteSet(Pids)
ASSUME RoundsAssumption == Rounds \in Nat
ASSUME ForksAssumption == MaxForks \in Nat

VARIABLES
    pc,         \* the scan the launcher is in, or the result it has
    open,       \* the scan has its list of /proc
    unread,     \* members on that list whose stat is still to be read
    remaining,  \* the loop counter
    live,       \* members of the group other than the launcher, in /proc
    killed,     \* members with SIGKILL pending: they do nothing any more
    forks,      \* number of forks so far
    born,       \* history: members forked since the last list of /proc
    young       \* history: members forked since the list of the KILL pass

loopVars == <<pc, open, unread, remaining>>
scanVars == <<pc, open, unread, remaining, live, killed, forks, born, young>>

Queries == {"check", "wait", "recheck", "drain", "verify"}
Passes == {"term", "kill"}
Results == {"quiet", "survivors"}

(***************************************************************************)
(* Types: at every state the counters are in range and the sets are sets   *)
(* of process numbers (the locals of launch.sh:53-83).                     *)
(***************************************************************************)
ScanTypeOK ==
    /\ pc \in Queries \cup Passes \cup Results
    /\ open \in BOOLEAN
    /\ remaining \in 0..Rounds
    /\ forks \in 0..MaxForks
    /\ unread \subseteq Pids
    /\ live \subseteq Pids
    /\ killed \subseteq live
    /\ born \subseteq Pids
    /\ young \subseteq Pids

ScanInit ==
    /\ pc = "check"
    /\ open = FALSE
    /\ remaining = Rounds
    /\ live \in SUBSET Pids
    /\ unread = {} /\ killed = {} /\ born = {} /\ young = {}
    /\ forks = 0

----------------------------------------------------------------------------
(* The launcher. *)

\* The shell expands /proc/[0-9]*/stat once, at the head of the for loop.
ListProc ==
    /\ pc \in Queries \cup Passes
    /\ ~open
    /\ open' = TRUE
    /\ unread' = live
    /\ born' = {}
    /\ young' = IF pc = "kill" THEN {} ELSE young
    /\ UNCHANGED <<pc, remaining, live, killed, forks>>

\* A listed process is gone when its stat is opened: continue.
SkipGone(p) ==
    /\ open
    /\ p \in unread \ live
    /\ unread' = unread \ {p}
    /\ UNCHANGED <<pc, open, remaining, live, killed, forks, born, young>>

\* Leave the scan for the next line of quiesce_process_group.
GoOn(line, rounds) ==
    /\ pc' = line
    /\ open' = FALSE
    /\ remaining' = rounds
    /\ UNCHANGED <<unread, live, forks, born, young, killed>>

\* Mutant: the loops test the counter but never decrement it.
Found_Forever ==
    \/ pc = "check" /\ GoOn("term", remaining)
    \/ pc \in {"wait", "drain"} /\ remaining > 0 /\ GoOn(pc, remaining)
    \/ pc = "recheck" /\ GoOn("kill", remaining)
    \/ pc = "verify" /\ GoOn("survivors", remaining)

\* group_has_other_members returned 0.
Found ==
    \/ pc = "check" /\ GoOn("term", remaining)
    \/ pc \in {"wait", "drain"} /\ remaining > 0 /\ GoOn(pc, remaining - 1)
    \/ pc = "wait" /\ remaining = 0 /\ GoOn("recheck", remaining)
    \/ pc = "recheck" /\ GoOn("kill", remaining)
    \/ pc = "drain" /\ remaining = 0 /\ GoOn("verify", remaining)
    \/ pc = "verify" /\ GoOn("survivors", remaining)

\* group_has_other_members returned 1.
NotFound ==
    \/ pc = "wait" /\ GoOn("recheck", remaining)
    \/ pc = "drain" /\ GoOn("verify", remaining)
    \/ pc \in {"check", "recheck", "verify"} /\ GoOn("quiet", remaining)

\* Mutant: a stat file that is gone ends the query instead of the round of its loop.
EndQuery_Gone ==
    /\ open /\ pc \in Queries
    /\ unread = {} \/ unread \ live # {}
    /\ NotFound

\* The first member read in the group ends the query.
ReadMember == open /\ unread \cap live # {} /\ Found

EndQuery == open /\ pc \in Queries /\ unread = {} /\ NotFound

\* signal_other_members TERM: what a member does about it is up to it.
Term(p) ==
    /\ open /\ pc = "term"
    /\ p \in unread \cap live
    /\ unread' = unread \ {p}
    /\ UNCHANGED <<pc, open, remaining, live, killed, forks, born, young>>

\* signal_other_members KILL.
Kill(p) ==
    /\ open /\ pc = "kill"
    /\ p \in unread \cap live
    /\ unread' = unread \ {p}
    /\ killed' = killed \cup {p}
    /\ UNCHANGED <<pc, open, remaining, live, forks, born, young>>

EndPass ==
    /\ open /\ unread = {}
    /\ \/ pc = "term" /\ GoOn("wait", Rounds)
       \/ pc = "kill" /\ GoOn("drain", Rounds)

----------------------------------------------------------------------------
(* The group. *)

\* A member forks: the child has any free number and the same group.
ForkMember(p, q) ==
    /\ p \in live \ killed
    /\ q \in Pids \ live
    /\ forks < MaxForks
    /\ forks' = forks + 1
    /\ live' = live \cup {q}
    /\ born' = born \cup {q}
    /\ young' = young \cup {q}
    /\ UNCHANGED <<loopVars, killed>>

\* A member exits and is reaped: its entry of /proc is gone.
Exit(p) ==
    /\ p \in live
    /\ live' = live \ {p}
    /\ killed' = killed \ {p}
    /\ born' = born \ {p}
    /\ young' = young \ {p}
    /\ UNCHANGED <<loopVars, forks>>

Launcher ==
    \/ ListProc
    \/ ReadMember
    \/ EndQuery
    \/ EndPass
    \/ \E p \in Pids : SkipGone(p) \/ Term(p) \/ Kill(p)

Group == \E p \in Pids : Exit(p) \/ \E q \in Pids : ForkMember(p, q)

ScanNext == Launcher \/ Group

ScanSpec == ScanInit /\ [][ScanNext]_scanVars

\* The shell is scheduled; nothing is assumed of the group.
ScanFairSpec == ScanSpec /\ WF_scanVars(Launcher)

----------------------------------------------------------------------------
(* Properties. *)

(***************************************************************************)
(* What "quiet" is worth (launch.sh:67-83): nobody who was in the group    *)
(* when the last list of /proc was made lives; whoever lives was forked    *)
(* while that list was being read.                                         *)
(***************************************************************************)
QuietLeavesOnlyNewborn == pc = "quiet" => live \subseteq born

(***************************************************************************)
(* The KILL pass (launch.sh:76) reaches every member that was in the group *)
(* when it began: who lives without a pending SIGKILL was forked later.    *)
(***************************************************************************)
KillMissesOnlyYoung ==
    pc \in {"drain", "verify", "survivors"} => live \subseteq killed \cup young

(***************************************************************************)
(* quiesce_process_group returns, whatever the group does: the loops of    *)
(* launch.sh:71-81 are bounded.                                            *)
(***************************************************************************)
QuiesceEnds == <>(pc \in Results)
=============================================================================
