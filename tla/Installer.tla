----------------------------- MODULE Installer -----------------------------
(***************************************************************************)
(* The bundle transactions of scripts/install.ps1, install-lifecycle.ps1   *)
(* and uninstall.ps1: install, rollback, uninstall and the recovery of one *)
(* that was interrupted.  A bundle is a directory; a transaction moves     *)
(* bundles between names beside the target and records its phase in a      *)
(* journal.  Every file operation may fail and every step may be the last. *)
(***************************************************************************)
EXTENDS Naturals

CONSTANTS
    None,            \* no directory, no journal
    Operations,      \* the operations the user asks for
    MaxTransactions, \* bounds of the model: transactions,
    MaxMishaps       \* and crashes and failures together

ASSUME OperationsAssumption == Operations \subseteq {"install", "rollback", "uninstall"}
ASSUME BoundsAssumption == MaxTransactions \in Nat /\ MaxMishaps \in Nat

VARIABLES
    dirs,       \* what each directory name holds
    journal,    \* .<bundle>.transaction.json
    pc,         \* the step the running script is at
    flags,      \* its locals: $activated, $rotatedCurrent, $retiredPrevious, ...
    txn,        \* the transaction: operation, and target and previous before it
    outcome,    \* how the last script ended
    crashes, failures, made

vars == <<dirs, journal, pc, flags, txn, outcome, crashes, failures, made>>
history == <<crashes, failures, made>>

\* The names beside the target.  Those of a transaction carry its nonce: a
\* new transaction finds none of them.
Names == {"target", "previous", "stage", "retired", "failed", "swap",
          "removed", "removedPrevious", "recovery"}
Kept == {"target", "previous"}

\* A bundle is the number of its installation and whether all its files are
\* there: the ownership marker lists them.
Bundle == [v : Nat, whole : BOOLEAN]
Phases == {"prepared", "previous_retired", "current_rotated", "candidate_activated",
           "previous_activated", "current_removed", "previous_removed", "committed"}
Journal == [op : {"install", "rollback", "uninstall"}, phase : Phases, had : BOOLEAN]

ASSUME NoneAssumption == None \notin Bundle \cup Journal

Exists(d) == dirs[d] # None
Owned(d) == Exists(d) /\ dirs[d].whole      \* Get-XuvaOwnedBundle does not throw
Candidate == [v |-> made, whole |-> TRUE]

----------------------------------------------------------------------------
(* Control. *)

Body == {"stage", "prepare", "retire", "note_retired", "rotate", "note_rotated",
         "activate", "note_activated", "scan", "drop_retired", "commit", "clear"}
CatchBlock == {"catch", "catch_rotated", "catch_retired", "catch_failed", "catch_journal"}
RollbackBody == {"b_in", "b_note_in", "b_keep", "b_commit", "b_clear"}
UninstallBody == {"u_current", "u_note_current", "u_previous", "u_note_previous", "u_commit"}
Tombstones == {"u_drop_previous", "u_drop_current"}

\* Where an error of the line at pc goes: to the catch block, from the catch
\* block to the finally block, past -ErrorAction SilentlyContinue, or out.
Guarded == Body \cup CatchBlock \cup RollbackBody \cup UninstallBody \cup Tombstones \cup {"u_clear"}

ToHandler ==
    \/ pc \in Body /\ pc' = "catch"
    \/ pc \in CatchBlock /\ pc' = "finally_stage"
    \/ pc \in RollbackBody /\ pc' = "b_catch"
    \/ pc \in UninstallBody /\ pc' = "u_catch"
    \/ pc = "u_drop_previous" /\ pc' = "u_drop_current"
    \/ pc = "u_drop_current" /\ pc' = "u_clear"
    \/ pc = "u_clear" /\ pc' = "done"
    \/ pc \notin Guarded /\ pc' = "failed"

At(line) == pc = line
Goto(line) == pc' = line /\ UNCHANGED <<txn, outcome, history>>
Skip(line) == Goto(line) /\ UNCHANGED <<dirs, journal, flags>>

\* A file operation fails.
Throw ==
    /\ crashes + failures < MaxMishaps
    /\ failures' = failures + 1
    /\ ToHandler
    /\ flags' = flags \cup (IF pc \in Body THEN {"threw"} ELSE {})
                      \cup (IF pc \in Tombstones THEN {"pending"} ELSE {})
    /\ UNCHANGED <<journal, txn, outcome, crashes, made>>

\* The process or the machine stops.
Stop ==
    /\ crashes + failures < MaxMishaps
    /\ crashes' = crashes + 1
    /\ pc' = "idle"
    /\ outcome' = "crashed"
    /\ UNCHANGED <<journal, flags, txn, failures, made>>

\* The script ends.
End(how) ==
    /\ pc' = "idle"
    /\ outcome' = how
    /\ UNCHANGED <<dirs, journal, flags, txn, history>>

----------------------------------------------------------------------------
(* File operations: they are done, or throw. *)

\* Move-Item of a directory: into the destination if that exists, which then
\* is no longer a flat bundle.
Move(from, to) ==
    /\ Exists(from)
    /\ dirs' = [dirs EXCEPT
          ![from] = None,
          ![to] = IF @ = None THEN dirs[from] ELSE [@ EXCEPT !.whole = FALSE]]

MoveTo(from, to, flag, line) ==
    \/ Move(from, to) /\ flags' = flags \cup flag /\ Goto(line) /\ UNCHANGED journal
    \/ Throw /\ UNCHANGED dirs

WriteTransaction(phase) ==
    journal' = [op |-> txn.op, phase |-> phase, had |-> txn.target # None]

Record(phase, line) ==
    \/ WriteTransaction(phase) /\ Goto(line) /\ UNCHANGED <<dirs, flags>>
    \/ Throw /\ UNCHANGED dirs

Forget(line) ==
    \/ journal' = None /\ Goto(line) /\ UNCHANGED <<dirs, flags>>
    \/ Throw /\ UNCHANGED dirs

\* Remove-Item -Recurse deletes one file after the other.
Damage(d) == Exists(d) /\ dirs' = [dirs EXCEPT ![d].whole = FALSE]

Remove(d, flag, line) ==
    \/ /\ dirs' = [dirs EXCEPT ![d] = None]
       /\ flags' = flags \ flag
       /\ Goto(line)
       /\ UNCHANGED journal
    \/ Exists(d) /\ Throw /\ (UNCHANGED dirs \/ Damage(d))
    \/ Damage(d) /\ Stop

----------------------------------------------------------------------------
(* The user starts a script. *)

Begin(op, line) ==
    /\ pc = "idle" /\ journal = None
    /\ op \in Operations
    /\ txn.n < MaxTransactions
    /\ txn' = [n |-> txn.n + 1, op |-> op,
               target |-> dirs["target"], previous |-> dirs["previous"]]
    /\ dirs' = [d \in Names |-> IF d \in Kept THEN dirs[d] ELSE None]
    /\ pc' = line
    /\ flags' = {}
    /\ outcome' = "running"
    /\ UNCHANGED <<journal, history>>

StartInstall ==
    /\ Exists("target") => Owned("target")
    /\ Begin("install", "stage")

StartRollback ==
    /\ Owned("target") /\ Owned("previous")
    /\ Begin("rollback", "b_prepare")

StartUninstall ==
    /\ Owned("target")
    /\ Exists("previous") => Owned("previous")
    /\ Begin("uninstall", "u_prepare")

StartRecover ==
    /\ pc = "idle" /\ journal # None
    /\ pc' = [install |-> "r_install", rollback |-> "r_rollback",
               uninstall |-> "r_uninstall"][journal.op]
    /\ outcome' = "running"
    /\ UNCHANGED <<dirs, journal, flags, txn, history>>

----------------------------------------------------------------------------
(* install.ps1 *)

\* Mutant: the journal begins with the first move.
Prepare_Unrecorded == At("prepare") /\ Skip("retire")

\* Copy the files, run the candidate with --version, write its marker.
Stage ==
    /\ At("stage")
    /\ \/ /\ made' = made + 1
          /\ dirs' = [dirs EXCEPT !["stage"] = [v |-> made + 1, whole |-> TRUE]]
          /\ pc' = "prepare"
          /\ UNCHANGED <<journal, flags, txn, outcome, crashes, failures>>
       \/ Throw /\ UNCHANGED dirs

Prepare == At("prepare") /\ Record("prepared", "retire")

\* A fresh installation has a new ID: a previous bundle is never its own.
RetirePrevious ==
    /\ At("retire")
    /\ \/ /\ Owned("previous") /\ txn.target # None
          /\ MoveTo("previous", "retired", {"retired"}, "note_retired")
       \/ ~Exists("previous") /\ Skip("rotate")
       \/ /\ Exists("previous") /\ ~(Owned("previous") /\ txn.target # None)
          /\ pc' = "catch"
          /\ flags' = flags \cup {"threw"}
          /\ UNCHANGED <<dirs, journal, txn, outcome, history>>

NoteRetired == At("note_retired") /\ Record("previous_retired", "rotate")

RotateCurrent ==
    /\ At("rotate")
    /\ IF txn.target # None
       THEN MoveTo("target", "previous", {"rotated"}, "note_rotated")
       ELSE Skip("activate")

NoteRotated == At("note_rotated") /\ Record("current_rotated", "activate")
Activate == At("activate") /\ MoveTo("stage", "target", {"activated"}, "note_activated")
NoteActivated == At("note_activated") /\ Record("candidate_activated", "scan")

\* xuva scan and the user's PATH.
Scan ==
    /\ At("scan")
    /\ \/ /\ flags' = flags \cup {"scanned"}
          /\ Goto("drop_retired")
          /\ UNCHANGED <<dirs, journal>>
       \/ Throw /\ UNCHANGED dirs

DropRetired == At("drop_retired") /\ Remove("retired", {"retired"}, "commit")

Commit == At("commit") /\ Record("committed", "clear")
Clear == At("clear") /\ Forget("finally_stage")

\* The catch block.
Undo(line, flag, from, to, next) ==
    /\ At(line)
    /\ IF flag \in flags /\ Exists(from)
       THEN MoveTo(from, to, {}, next)
       ELSE Skip(next)

\* Mutant: the old backup is not put back.
UndoRetirement_Forgotten == At("catch_retired") /\ Skip("catch_failed")

\* Mutant: the current bundle is not put back.
UndoRotation_Forgotten == At("catch_rotated") /\ Skip("catch_retired")

UndoActivation == Undo("catch", "activated", "target", "failed", "catch_rotated")
UndoRotation == Undo("catch_rotated", "rotated", "previous", "target", "catch_retired")
UndoRetirement == Undo("catch_retired", "retired", "retired", "previous", "catch_failed")
DropFailed == At("catch_failed") /\ Remove("failed", {}, "catch_journal")
Abandon == At("catch_journal") /\ Forget("finally_stage")

\* The finally block: Remove-XuvaEphemeralDirectory asks for no owner.
SweepStage == At("finally_stage") /\ Remove("stage", {}, "finally_failed")
SweepFailed == At("finally_failed") /\ Remove("failed", {}, "finally_retired")
SweepRetired ==
    /\ At("finally_retired")
    /\ Remove("retired", {}, IF "threw" \in flags THEN "failed" ELSE "done")

Install ==
    \/ Stage \/ Prepare \/ RetirePrevious \/ NoteRetired \/ RotateCurrent
    \/ NoteRotated \/ Activate \/ NoteActivated \/ Scan \/ DropRetired
    \/ Commit \/ Clear \/ UndoActivation \/ UndoRotation \/ UndoRetirement
    \/ DropFailed \/ Abandon \/ SweepStage \/ SweepFailed \/ SweepRetired

----------------------------------------------------------------------------
(* install.ps1 -Rollback *)

PrepareRollback == At("b_prepare") /\ Record("prepared", "b_out")
SwapOut == At("b_out") /\ MoveTo("target", "swap", {}, "b_note_out")
NoteSwapOut == At("b_note_out") /\ Record("current_rotated", "b_in")
SwapIn == At("b_in") /\ MoveTo("previous", "target", {"activated"}, "b_note_in")
NoteSwapIn == At("b_note_in") /\ Record("previous_activated", "b_keep")
SwapKeep == At("b_keep") /\ MoveTo("swap", "previous", {}, "b_commit")
CommitRollback == At("b_commit") /\ Record("committed", "b_clear")
ClearRollback == At("b_clear") /\ Forget("done")

\* The catch block.
UndoSwapIn ==
    /\ At("b_catch")
    /\ IF "activated" \in flags /\ Exists("target") /\ ~Exists("previous")
       THEN MoveTo("target", "previous", {}, "b_catch_out")
       ELSE Skip("b_catch_out")

UndoSwapOut ==
    /\ At("b_catch_out")
    /\ IF ~Exists("target") /\ Exists("swap")
       THEN MoveTo("swap", "target", {}, "b_catch_journal")
       ELSE Skip("b_catch_journal")

AbandonRollback == At("b_catch_journal") /\ Forget("failed")

Rollback ==
    \/ PrepareRollback \/ SwapOut \/ NoteSwapOut \/ SwapIn \/ NoteSwapIn \/ SwapKeep
    \/ CommitRollback \/ ClearRollback
    \/ UndoSwapIn \/ UndoSwapOut \/ AbandonRollback

----------------------------------------------------------------------------
(* uninstall.ps1 *)

PrepareUninstall == At("u_prepare") /\ Record("prepared", "u_current")
RemoveCurrent == At("u_current") /\ MoveTo("target", "removed", {}, "u_note_current")
NoteCurrent == At("u_note_current") /\ Record("current_removed", "u_previous")

RemovePrevious ==
    /\ At("u_previous")
    /\ IF Exists("previous")
       THEN MoveTo("previous", "removedPrevious", {}, "u_note_previous")
       ELSE Skip("u_decide")

NotePrevious == At("u_note_previous") /\ Record("previous_removed", "u_decide")

\* $committed is set before the journal says so.
Decide ==
    /\ At("u_decide")
    /\ flags' = flags \cup {"committed"}
    /\ Goto("u_commit")
    /\ UNCHANGED <<dirs, journal>>

CommitUninstall == At("u_commit") /\ Record("committed", "u_drop_previous")

\* The catch block.
RestorePrevious ==
    /\ At("u_catch")
    /\ IF "committed" \notin flags /\ ~Exists("previous") /\ Exists("removedPrevious")
       THEN MoveTo("removedPrevious", "previous", {}, "u_catch_current")
       ELSE Skip("u_catch_current")

RestoreCurrent ==
    /\ At("u_catch_current")
    /\ IF "committed" \notin flags /\ ~Exists("target") /\ Exists("removed")
       THEN MoveTo("removed", "target", {}, "u_catch_journal")
       ELSE Skip("u_catch_journal")

AbandonUninstall == At("u_catch_journal") /\ Forget("failed")

DropPrevious == At("u_drop_previous") /\ Remove("removedPrevious", {}, "u_drop_current")
DropCurrent == At("u_drop_current") /\ Remove("removed", {}, "u_clear")

\* A tombstone that could not be removed keeps the journal.
ClearUninstall ==
    /\ At("u_clear")
    /\ IF "pending" \in flags THEN Skip("done") ELSE Forget("done")

Uninstall ==
    \/ PrepareUninstall \/ RemoveCurrent \/ NoteCurrent \/ RemovePrevious
    \/ NotePrevious \/ Decide \/ CommitUninstall \/ RestorePrevious
    \/ RestoreCurrent \/ AbandonUninstall
    \/ DropPrevious \/ DropCurrent \/ ClearUninstall

----------------------------------------------------------------------------
(* Invoke-XuvaTransactionRecovery *)

\* Remove-XuvaOwnedDirectory: nothing to do for a missing directory; what is
\* there but not owned ends the recovery.
RemoveOwned(d, line) ==
    IF Exists(d) => Owned(d) THEN Remove(d, {}, line) ELSE End("refused")

\* Test-Path, Get-XuvaOwnedBundle, Move-Item.
Return(from, to, line) ==
    IF Owned(from) THEN MoveTo(from, to, {}, line) ELSE End("refused")

RecoverInstall ==
    /\ At("r_install")
    /\ \/ journal.phase = "committed" /\ Skip("r_commit_stage")
       \/ /\ journal.phase # "committed"
          /\ Exists("target") /\ ~Owned("target")
          /\ End("refused")
       \/ /\ journal.phase = "candidate_activated"
          /\ Exists("target") => Owned("target")
          /\ Skip("r_activated")
       \/ /\ journal.phase \notin {"committed", "candidate_activated"}
          /\ Exists("target") => Owned("target")
          /\ IF ~Exists("target") /\ Exists("previous")
             THEN Return("previous", "target", "r_retired")
             ELSE Skip("r_retired")

\* The candidate is in place: it is set aside, not the bundle it replaced.
RecoverActivated ==
    /\ At("r_activated")
    /\ IF journal.had
       THEN IF Exists("previous") /\ Exists("target")
            THEN MoveTo("target", "recovery", {}, "r_back")
            ELSE End("refused")
       ELSE RemoveOwned("target", "r_retired")

RecoverCurrent == At("r_back") /\ MoveTo("previous", "target", {}, "r_scrap")
RecoverScrap == At("r_scrap") /\ RemoveOwned("recovery", "r_retired")

RecoverRetired ==
    /\ At("r_retired")
    /\ IF Exists("retired") /\ ~Exists("previous")
       THEN Return("retired", "previous", "r_stage")
       ELSE Skip("r_stage")

RecoverStage == At("r_stage") /\ RemoveOwned("stage", "r_clear")
CleanStage == At("r_commit_stage") /\ RemoveOwned("stage", "r_commit_retired")
CleanRetired == At("r_commit_retired") /\ RemoveOwned("retired", "r_clear")

RecoverRollback ==
    /\ At("r_rollback")
    /\ IF journal.phase = "committed"
       THEN Skip("r_clear")
       ELSE IF Exists("target") /\ ~Exists("previous") /\ Exists("swap")
            THEN Return("target", "previous", "r_swap")
            ELSE Skip("r_swap")

\* Mutant: the recovery swaps back only a pair it finds complete.
RecoverSwap_Pair ==
    /\ At("r_swap")
    /\ IF ~Exists("target") /\ ~Exists("previous") /\ Exists("swap")
       THEN Return("swap", "target", "r_clear")
       ELSE Skip("r_clear")

RecoverSwap ==
    /\ At("r_swap")
    /\ IF ~Exists("target") /\ Exists("swap")
       THEN Return("swap", "target", "r_clear")
       ELSE Skip("r_clear")

RecoverUninstall ==
    /\ At("r_uninstall")
    /\ IF journal.phase = "committed"
       THEN RemoveOwned("removed", "r_tombstone")
       ELSE IF ~Exists("target") /\ Exists("removed")
            THEN Return("removed", "target", "r_previous")
            ELSE Skip("r_previous")

CleanTombstone == At("r_tombstone") /\ RemoveOwned("removedPrevious", "r_clear")

\* Mutant: the recovery of an uninstall expects a backup.
RecoverPrevious_Expected ==
    /\ At("r_previous")
    /\ IF ~Exists("previous")
       THEN Return("removedPrevious", "previous", "r_clear")
       ELSE Skip("r_clear")

RecoverPrevious ==
    /\ At("r_previous")
    /\ IF ~Exists("previous") /\ Exists("removedPrevious")
       THEN Return("removedPrevious", "previous", "r_clear")
       ELSE Skip("r_clear")

EndRecovery ==
    /\ At("r_clear")
    /\ \/ /\ journal' = None
          /\ pc' = "idle"
          /\ outcome' = IF journal.phase = "committed" THEN "cleaned" ELSE "restored"
          /\ UNCHANGED <<dirs, flags, txn, history>>
       \/ Throw /\ UNCHANGED dirs

RecoveryOfInstall ==
    \/ RecoverInstall \/ RecoverActivated \/ RecoverCurrent \/ RecoverScrap
    \/ RecoverRetired \/ RecoverStage \/ CleanStage \/ CleanRetired

RecoveryOfRollback == RecoverRollback \/ RecoverSwap
RecoveryOfUninstall == RecoverUninstall \/ CleanTombstone \/ RecoverPrevious
Recover == RecoveryOfInstall \/ RecoveryOfRollback \/ RecoveryOfUninstall \/ EndRecovery

----------------------------------------------------------------------------
Ending == pc \in {"done", "failed"} /\ End(pc)
Crash == pc # "idle" /\ Stop /\ UNCHANGED dirs

\* A machine without XUVA, with one installation, or with an upgraded one.
Init ==
    /\ made \in 0..2
    /\ dirs = [d \in Names |->
          CASE d = "target" /\ made > 0 -> [v |-> made, whole |-> TRUE]
            [] d = "previous" /\ made = 2 -> [v |-> 1, whole |-> TRUE]
            [] OTHER -> None]
    /\ journal = None
    /\ pc = "idle"
    /\ flags = {}
    /\ txn = [n |-> 0, op |-> "none", target |-> dirs["target"], previous |-> dirs["previous"]]
    /\ outcome = "done"
    /\ crashes = 0 /\ failures = 0

Next ==
    \/ StartInstall \/ StartRollback \/ StartUninstall \/ StartRecover
    \/ Install \/ Rollback \/ Uninstall \/ Recover
    \/ Ending \/ Crash

Spec == Init /\ [][Next]_vars

----------------------------------------------------------------------------
(* Properties. *)

Lines == Body \cup CatchBlock \cup RollbackBody \cup UninstallBody \cup Tombstones
  \cup {"idle", "done", "failed", "finally_stage", "finally_failed", "finally_retired",
        "b_prepare", "b_out", "b_note_out", "b_catch", "b_catch_out", "b_catch_journal",
        "u_prepare", "u_decide", "u_clear", "u_catch", "u_catch_current", "u_catch_journal",
        "r_install", "r_activated", "r_back", "r_scrap", "r_retired", "r_stage",
        "r_commit_stage", "r_commit_retired", "r_rollback", "r_swap", "r_uninstall",
        "r_tombstone", "r_previous", "r_clear"}
Flags == {"activated", "rotated", "retired", "scanned", "committed", "pending", "threw"}

(***************************************************************************)
(* Types of the directories, the journal and the locals of the scripts.    *)
(***************************************************************************)
TypeOK ==
    /\ dirs \in [Names -> Bundle \cup {None}]
    /\ journal \in Journal \cup {None}
    /\ pc \in Lines
    /\ flags \subseteq Flags
    /\ txn \in [n : 0..MaxTransactions,
                op : {"none", "install", "rollback", "uninstall"},
                target : Bundle \cup {None}, previous : Bundle \cup {None}]
    /\ outcome \in {"running", "done", "failed", "crashed", "refused", "restored", "cleaned"}
    /\ crashes \in Nat /\ failures \in Nat /\ crashes + failures <= MaxMishaps
    /\ made \in Nat

Settled == pc = "idle" /\ journal = None
Now == <<dirs["target"], dirs["previous"]>>
Before == <<txn.target, txn.previous>>
Swapped == <<txn.previous, txn.target>>

(***************************************************************************)
(* Once an install is over and its journal gone, the old bundle is active, *)
(* or the candidate with the old one behind it (install.ps1:228-416),      *)
(* if it was interrupted once.                                             *)
(***************************************************************************)
InstallAllOrNothing ==
    Settled /\ txn.op = "install" /\ crashes + failures <= 1 =>
      dirs["target"] = txn.target \/ Now = <<Candidate, txn.target>>

(***************************************************************************)
(* Once a rollback is over and its journal gone, the pair is as it was or  *)
(* swapped, and no error of its recovery is permanent (install.ps1:135-190,*)
(* install-lifecycle.ps1:278-292), however often either is interrupted.    *)
(***************************************************************************)
RollbackAllOrNothing ==
    txn.op = "rollback" =>
      /\ Settled => Now \in {Before, Swapped}
      /\ outcome # "refused"

(***************************************************************************)
(* Once an uninstall is over and its journal gone, both bundles are in     *)
(* place or none is; before the commit its recovery never refuses          *)
(* (uninstall.ps1:73-126, install-lifecycle.ps1:297-308).                  *)
(***************************************************************************)
UninstallAllOrNothing ==
    txn.op = "uninstall" =>
      /\ Settled => Now \in {Before, <<None, None>>}
      /\ outcome = "refused" => journal.phase = "committed"

(***************************************************************************)
(* The bundle that was active when an upgrade or a rollback began exists,  *)
(* whole, under some name, whatever fails or crashes and however often the *)
(* recovery runs.                                                          *)
(***************************************************************************)
ActiveSurvives ==
    txn.op \in {"install", "rollback"} /\ txn.target # None =>
      \E d \in Names : dirs[d] = txn.target

(***************************************************************************)
(* One crash or failure, in a script or in its recovery, never loses it.   *)
(***************************************************************************)
OneMishapKeepsActive == crashes + failures <= 1 => ActiveSurvives

(***************************************************************************)
(* An install that fails once, before it deletes the retired backup,       *)
(* leaves target and backup as they were (packaging-contract.ps1:160-161). *)
(***************************************************************************)
FailureRestores ==
    /\ Settled /\ outcome = "failed" /\ failures <= 1 /\ crashes = 0
    /\ txn.op = "install" /\ "scanned" \notin flags
    => Now = Before
=============================================================================
