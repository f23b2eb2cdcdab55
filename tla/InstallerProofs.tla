-------------------------- MODULE InstallerProofs --------------------------
(***************************************************************************)
(* Proofs about Installer, for every number of transactions, crashes and   *)
(* failures.                                                               *)
(*                                                                         *)
(* TypeInv: the types, and which transaction a line of a script belongs    *)
(* to.  RollbackInv: a rollback knows four arrangements of its two bundles *)
(* and its catch block and its recovery lead from each of them back to a   *)
(* complete pair.  UninstallInv: the same of the two bundles and their     *)
(* tombstones; nothing is deleted before both are gone from their places.  *)
(* InstallInv: up to one mishap, what an install, its catch block and its  *)
(* recovery find at each of their lines.                                   *)
(***************************************************************************)
EXTENDS Installer, TLAPS

InstallLines == Body \cup CatchBlock
  \cup {"finally_stage", "finally_failed", "finally_retired",
        "r_install", "r_activated", "r_back", "r_scrap", "r_retired", "r_stage",
        "r_commit_stage", "r_commit_retired"}
RollbackLines == RollbackBody
  \cup {"b_prepare", "b_out", "b_note_out", "b_catch", "b_catch_out", "b_catch_journal",
        "r_rollback", "r_swap"}
UninstallLines == UninstallBody \cup Tombstones
  \cup {"u_prepare", "u_decide", "u_clear", "u_catch", "u_catch_current",
        "u_catch_journal", "r_uninstall", "r_tombstone", "r_previous"}

\* A line of the running transaction, or of none in particular.
Fits(line) ==
    /\ line \in Lines
    /\ line \in InstallLines => txn.op = "install"
    /\ line \in RollbackLines => txn.op = "rollback"
    /\ line \in UninstallLines => txn.op = "uninstall"

DirsType == [Names -> Bundle \cup {None}]

TypeInv ==
    /\ TypeOK
    /\ Fits(pc)
    /\ journal # None => journal.op = txn.op

Outcomes == {"running", "done", "failed", "crashed", "refused", "restored", "cleaned"}

----------------------------------------------------------------------------
(* The helpers keep TypeInv and the transaction. *)

\* The three scripts share no line.
LEMMA Disjoint ==
  /\ InstallLines \cap RollbackLines = {}
  /\ InstallLines \cap UninstallLines = {}
  /\ RollbackLines \cap UninstallLines = {}
  /\ {"idle", "done", "failed", "r_clear"} \cap (InstallLines \cup RollbackLines \cup UninstallLines) = {}
BY DEF InstallLines, RollbackLines, UninstallLines, Body, CatchBlock, RollbackBody,
       UninstallBody, Tombstones

LEMMA HandlerFits ==
  ASSUME TypeInv, ToHandler, txn' = txn
  PROVE  Fits(pc)'
<1>1. CASE pc \in Body /\ pc' = "catch"
  <2>1. "catch" \in InstallLines /\ "catch" \in Lines
    BY DEF InstallLines, Lines, CatchBlock, RollbackBody, UninstallBody, Tombstones
  <2>2. txn.op = "install"
    BY <1>1 DEF TypeInv, Fits, InstallLines, Tombstones
  <2> QED
    BY <1>1, <2>1, <2>2, Disjoint DEF Fits
<1>2. CASE pc \in CatchBlock /\ pc' = "finally_stage"
  <2>1. "finally_stage" \in InstallLines /\ "finally_stage" \in Lines
    BY DEF InstallLines, Lines, CatchBlock, RollbackBody, UninstallBody, Tombstones
  <2>2. txn.op = "install"
    BY <1>2 DEF TypeInv, Fits, InstallLines, Tombstones
  <2> QED
    BY <1>2, <2>1, <2>2, Disjoint DEF Fits
<1>3. CASE pc \in RollbackBody /\ pc' = "b_catch"
  <2>1. "b_catch" \in RollbackLines /\ "b_catch" \in Lines
    BY DEF RollbackLines, Lines, CatchBlock, RollbackBody, UninstallBody, Tombstones
  <2>2. txn.op = "rollback"
    BY <1>3 DEF TypeInv, Fits, RollbackLines, Tombstones
  <2> QED
    BY <1>3, <2>1, <2>2, Disjoint DEF Fits
<1>4. CASE pc \in UninstallBody /\ pc' = "u_catch"
  <2>1. "u_catch" \in UninstallLines /\ "u_catch" \in Lines
    BY DEF UninstallLines, Lines, CatchBlock, RollbackBody, UninstallBody, Tombstones
  <2>2. txn.op = "uninstall"
    BY <1>4 DEF TypeInv, Fits, UninstallLines, Tombstones
  <2> QED
    BY <1>4, <2>1, <2>2, Disjoint DEF Fits
<1>5. CASE pc = "u_drop_previous" /\ pc' = "u_drop_current"
  <2>1. "u_drop_current" \in UninstallLines /\ "u_drop_current" \in Lines
    BY DEF UninstallLines, Lines, CatchBlock, RollbackBody, UninstallBody, Tombstones
  <2>2. txn.op = "uninstall"
    BY <1>5 DEF TypeInv, Fits, UninstallLines, Tombstones
  <2> QED
    BY <1>5, <2>1, <2>2, Disjoint DEF Fits
<1>6. CASE pc = "u_drop_current" /\ pc' = "u_clear"
  <2>1. "u_clear" \in UninstallLines /\ "u_clear" \in Lines
    BY DEF UninstallLines, Lines, CatchBlock, RollbackBody, UninstallBody, Tombstones
  <2>2. txn.op = "uninstall"
    BY <1>6 DEF TypeInv, Fits, UninstallLines, Tombstones
  <2> QED
    BY <1>6, <2>1, <2>2, Disjoint DEF Fits
<1>7. CASE pc' \in {"done", "failed"}
  BY <1>7, Disjoint DEF Fits, Lines
<1> QED
  BY <1>1, <1>2, <1>3, <1>4, <1>5, <1>6, <1>7 DEF ToHandler

LEMMA ThrowKeeps ==
  ASSUME TypeInv, Throw, dirs' \in DirsType
  PROVE  TypeInv' /\ txn' = txn
<1>1. txn' = txn /\ journal' = journal /\ ToHandler
  BY DEF Throw
<1>2. Fits(pc)'
  BY <1>1, HandlerFits
<1>3. failures' \in Nat /\ crashes' + failures' <= MaxMishaps
  BY BoundsAssumption DEF Throw, TypeInv, TypeOK
<1>4. flags' \subseteq Flags
  BY DEF Throw, TypeInv, TypeOK, Flags
<1>5. outcome' = outcome /\ crashes' = crashes /\ made' = made
  BY DEF Throw
<1>6. TypeOK'
  BY <1>1, <1>2, <1>3, <1>4, <1>5 DEF TypeInv, TypeOK, Fits, DirsType
<1> QED
  BY <1>1, <1>2, <1>6 DEF TypeInv

LEMMA StopKeeps ==
  ASSUME TypeInv, Stop, dirs' \in DirsType
  PROVE  TypeInv' /\ txn' = txn
<1>1. txn' = txn /\ journal' = journal /\ pc' = "idle" /\ outcome' = "crashed"
  BY DEF Stop
<1>2. Fits(pc)'
  BY <1>1, Disjoint DEF Fits, Lines
<1>3. crashes' \in Nat /\ crashes' + failures' <= MaxMishaps
  BY BoundsAssumption DEF Stop, TypeInv, TypeOK
<1>4. flags' = flags /\ failures' = failures /\ made' = made
  BY DEF Stop
<1>5. TypeOK'
  BY <1>1, <1>2, <1>3, <1>4 DEF TypeInv, TypeOK, Fits, DirsType
<1> QED
  BY <1>1, <1>2, <1>5 DEF TypeInv

LEMMA GotoKeeps ==
  ASSUME TypeInv, NEW line, Fits(line), Goto(line), dirs' \in DirsType,
         flags' \subseteq Flags,
         journal' \in Journal \cup {None}, journal' # None => journal'.op = txn.op
  PROVE  TypeInv' /\ txn' = txn
<1>1. txn' = txn /\ outcome' = outcome /\ pc' = line
  BY DEF Goto
<1>2. crashes' = crashes /\ failures' = failures /\ made' = made
  BY DEF Goto, history
<1>3. Fits(pc)'
  BY <1>1 DEF Fits
<1>4. TypeOK'
  BY <1>1, <1>2, <1>3 DEF TypeInv, TypeOK, Fits, DirsType
<1> QED
  BY <1>1, <1>3, <1>4 DEF TypeInv

LEMMA SkipKeeps ==
  ASSUME TypeInv, NEW line, Fits(line), Skip(line)
  PROVE  TypeInv' /\ txn' = txn
<1>1. Goto(line) /\ dirs' = dirs /\ journal' = journal /\ flags' = flags
  BY DEF Skip
<1> QED
  BY <1>1, GotoKeeps DEF TypeInv, TypeOK, DirsType

LEMMA EndKeeps ==
  ASSUME TypeInv, NEW how \in Outcomes, End(how)
  PROVE  TypeInv' /\ txn' = txn
<1>1. txn' = txn /\ dirs' = dirs /\ journal' = journal /\ pc' = "idle" /\ outcome' = how
  BY DEF End
<1>2. flags' = flags /\ crashes' = crashes /\ failures' = failures /\ made' = made
  BY DEF End, history
<1>3. Fits(pc)'
  BY <1>1, Disjoint DEF Fits, Lines
<1>4. TypeOK'
  BY <1>1, <1>2, <1>3 DEF TypeInv, TypeOK, Fits, Outcomes
<1> QED
  BY <1>1, <1>3, <1>4 DEF TypeInv

LEMMA MoveToKeeps ==
  ASSUME TypeInv, NEW from \in Names, NEW to \in Names, NEW flag \in SUBSET Flags,
         NEW line, Fits(line), MoveTo(from, to, flag, line)
  PROVE  TypeInv' /\ txn' = txn
<1>1. CASE Move(from, to) /\ flags' = flags \cup flag /\ Goto(line) /\ UNCHANGED journal
  <2>1. dirs[from] \in Bundle /\ dirs[to] \in Bundle \cup {None}
    BY <1>1 DEF Move, Exists, TypeInv, TypeOK
  <2>2. dirs' \in DirsType
    BY <1>1, <2>1 DEF Move, TypeInv, TypeOK, DirsType, Bundle
  <2> QED
    BY <1>1, <2>2, GotoKeeps DEF TypeInv, TypeOK
<1>2. CASE Throw /\ UNCHANGED dirs
  BY <1>2, ThrowKeeps DEF TypeInv, TypeOK, DirsType
<1> QED
  BY <1>1, <1>2 DEF MoveTo

LEMMA RecordKeeps ==
  ASSUME TypeInv, NEW phase \in Phases, NEW line, Fits(line), Record(phase, line),
         txn.op # "none"
  PROVE  TypeInv' /\ txn' = txn
<1>1. CASE WriteTransaction(phase) /\ Goto(line) /\ UNCHANGED <<dirs, flags>>
  <2>1. journal' \in Journal /\ journal'.op = txn.op
    BY <1>1 DEF WriteTransaction, TypeInv, TypeOK, Journal
  <2> QED
    BY <1>1, <2>1, GotoKeeps DEF TypeInv, TypeOK, DirsType
<1>2. CASE Throw /\ UNCHANGED dirs
  BY <1>2, ThrowKeeps DEF TypeInv, TypeOK, DirsType
<1> QED
  BY <1>1, <1>2 DEF Record

LEMMA ForgetKeeps ==
  ASSUME TypeInv, NEW line, Fits(line), Forget(line)
  PROVE  TypeInv' /\ txn' = txn
<1>1. CASE journal' = None /\ Goto(line) /\ UNCHANGED <<dirs, flags>>
  BY <1>1, GotoKeeps DEF TypeInv, TypeOK, DirsType
<1>2. CASE Throw /\ UNCHANGED dirs
  BY <1>2, ThrowKeeps DEF TypeInv, TypeOK, DirsType
<1> QED
  BY <1>1, <1>2 DEF Forget

LEMMA RemoveKeeps ==
  ASSUME TypeInv, NEW d \in Names, NEW flag, NEW line, Fits(line), Remove(d, flag, line)
  PROVE  TypeInv' /\ txn' = txn
<1>1. ASSUME Damage(d) PROVE dirs' \in DirsType
  <2>1. dirs[d] \in Bundle
    BY <1>1 DEF Damage, Exists, TypeInv, TypeOK
  <2> QED
    BY <1>1, <2>1 DEF Damage, TypeInv, TypeOK, DirsType, Bundle
<1>2. CASE /\ dirs' = [dirs EXCEPT ![d] = None]
           /\ flags' = flags \ flag
           /\ Goto(line)
           /\ UNCHANGED journal
  <2>1. dirs' \in DirsType
    BY <1>2 DEF TypeInv, TypeOK, DirsType
  <2> QED
    BY <1>2, <2>1, GotoKeeps DEF TypeInv, TypeOK
<1>3. CASE Exists(d) /\ Throw /\ (UNCHANGED dirs \/ Damage(d))
  BY <1>1, <1>3, ThrowKeeps DEF TypeInv, TypeOK, DirsType
<1>4. CASE Damage(d) /\ Stop
  BY <1>1, <1>4, StopKeeps
<1> QED
  BY <1>2, <1>3, <1>4 DEF Remove

LEMMA RemoveOwnedKeeps ==
  ASSUME TypeInv, NEW d \in Names, NEW line, Fits(line), RemoveOwned(d, line)
  PROVE  TypeInv' /\ txn' = txn
BY RemoveKeeps, EndKeeps DEF RemoveOwned, Outcomes

LEMMA ReturnKeeps ==
  ASSUME TypeInv, NEW from \in Names, NEW to \in Names, NEW line, Fits(line),
         Return(from, to, line)
  PROVE  TypeInv' /\ txn' = txn
<1>1. {} \in SUBSET Flags
  OBVIOUS
<1> QED
  BY <1>1, MoveToKeeps, EndKeeps DEF Return, Outcomes

----------------------------------------------------------------------------
(* Every action keeps TypeInv. *)

\* Lines that belong to no transaction in particular.
Common == {"idle", "done", "failed", "r_clear"}

LEMMA FamiliesAreLines ==
  InstallLines \cup RollbackLines \cup UninstallLines \cup Common \subseteq Lines
BY DEF InstallLines, RollbackLines, UninstallLines, Common, Lines, Body, CatchBlock,
       RollbackBody, UninstallBody, Tombstones

LEMMA InstallKeeps ==
  ASSUME TypeInv, Install \/ RecoveryOfInstall
  PROVE  TypeInv' /\ txn' = txn /\ txn.op = "install" /\ pc \in InstallLines
<1>1. pc \in InstallLines
  <2>1. Stage \/ Prepare \/ RetirePrevious \/ NoteRetired => pc \in InstallLines
    BY DEF Stage, Prepare, RetirePrevious, NoteRetired, At, Undo, InstallLines,
       Body, CatchBlock
  <2>2. RotateCurrent \/ NoteRotated \/ Activate \/ NoteActivated => pc \in InstallLines
    BY DEF RotateCurrent, NoteRotated, Activate, NoteActivated, At, Undo,
       InstallLines, Body, CatchBlock
  <2>3. Scan \/ DropRetired \/ Commit \/ Clear => pc \in InstallLines
    BY DEF Scan, DropRetired, Commit, Clear, At, Undo, InstallLines, Body, CatchBlock
  <2>4. UndoActivation \/ UndoRotation \/ UndoRetirement \/ DropFailed => pc \in InstallLines
    BY DEF UndoActivation, UndoRotation, UndoRetirement, DropFailed, At, Undo,
       InstallLines, Body, CatchBlock
  <2>5. Abandon \/ SweepStage \/ SweepFailed \/ SweepRetired => pc \in InstallLines
    BY DEF Abandon, SweepStage, SweepFailed, SweepRetired, At, Undo, InstallLines,
       Body, CatchBlock
  <2>6. RecoverInstall \/ RecoverActivated \/ RecoverCurrent \/ RecoverScrap => pc \in InstallLines
    BY DEF RecoverInstall, RecoverActivated, RecoverCurrent, RecoverScrap, At, Undo,
       InstallLines, Body, CatchBlock
  <2>7. RecoverRetired \/ RecoverStage \/ CleanStage \/ CleanRetired => pc \in InstallLines
    BY DEF RecoverRetired, RecoverStage, CleanStage, CleanRetired, At, Undo,
       InstallLines, Body, CatchBlock
  <2> QED
    BY <2>1, <2>2, <2>3, <2>4, <2>5, <2>6, <2>7 DEF Install, RecoveryOfInstall
<1>2. txn.op = "install"
  BY <1>1 DEF TypeInv, Fits
<1>3. \A line \in InstallLines \cup Common : Fits(line)
  BY <1>2, Disjoint, FamiliesAreLines DEF Fits, Common
<1> SUFFICES TypeInv' /\ txn' = txn
  BY <1>1, <1>2
<1> USE DEF InstallLines, Body, CatchBlock, Common, At, Names, Flags, Phases
<1>4. CASE Stage
  <2>1. CASE Throw /\ UNCHANGED dirs
    BY <2>1, <1>2, ThrowKeeps DEF TypeInv, TypeOK, DirsType
  <2>2. CASE /\ made' = made + 1
             /\ dirs' = [dirs EXCEPT !["stage"] = [v |-> made + 1, whole |-> TRUE]]
             /\ pc' = "prepare"
             /\ UNCHANGED <<journal, flags, txn, outcome, crashes, failures>>
    <3>1. made' \in Nat /\ [v |-> made + 1, whole |-> TRUE] \in Bundle
      BY <2>2 DEF TypeInv, TypeOK, Bundle
    <3>2. dirs' \in DirsType
      BY <2>2, <3>1 DEF TypeInv, TypeOK, DirsType
    <3>3. Fits(pc)'
      BY <2>2, <1>3 DEF Fits
    <3>4. txn' = txn /\ journal' = journal /\ flags' = flags /\ outcome' = outcome
          /\ crashes' = crashes /\ failures' = failures
      BY <2>2
    <3>5. TypeOK'
      BY <3>1, <3>2, <3>3, <3>4 DEF TypeInv, TypeOK, Fits, DirsType
    <3> QED
      BY <1>2, <3>3, <3>4, <3>5 DEF TypeInv
  <2> QED
    BY <1>4, <2>1, <2>2 DEF Stage
<1>5. CASE Prepare
  BY <1>5, <1>2, <1>3, RecordKeeps DEF Prepare
<1>6. CASE RetirePrevious
  <2>1. CASE Owned("previous") /\ txn.target # None
             /\ MoveTo("previous", "retired", {"retired"}, "note_retired")
    BY <2>1, <1>2, <1>3, MoveToKeeps
  <2>2. CASE Skip("rotate")
    BY <2>2, <1>2, <1>3, SkipKeeps
  <2>3. CASE /\ pc' = "catch"
             /\ flags' = flags \cup {"threw"}
             /\ UNCHANGED <<dirs, journal, txn, outcome, history>>
    <3>1. Goto("catch") /\ dirs' = dirs /\ journal' = journal
      BY <2>3 DEF Goto
    <3>2. flags' \subseteq Flags /\ dirs' \in DirsType /\ journal' \in Journal \cup {None}
      BY <2>3, <3>1 DEF TypeInv, TypeOK, DirsType
    <3> QED
      BY <3>1, <3>2, <1>2, <1>3, GotoKeeps DEF TypeInv
  <2> QED
    BY <1>6, <2>1, <2>2, <2>3 DEF RetirePrevious
<1>7. CASE NoteRetired
  BY <1>7, <1>2, <1>3, RecordKeeps DEF NoteRetired
<1>8. CASE RotateCurrent
  BY <1>8, <1>2, <1>3, MoveToKeeps, SkipKeeps DEF RotateCurrent
<1>9. CASE NoteRotated
  BY <1>9, <1>2, <1>3, RecordKeeps DEF NoteRotated
<1>10. CASE Activate
  BY <1>10, <1>2, <1>3, MoveToKeeps DEF Activate
<1>11. CASE NoteActivated
  BY <1>11, <1>2, <1>3, RecordKeeps DEF NoteActivated
<1>12. CASE Scan
  <2>1. CASE Throw /\ UNCHANGED dirs
    BY <2>1, <1>2, ThrowKeeps DEF TypeInv, TypeOK, DirsType
  <2>2. CASE /\ flags' = flags \cup {"scanned"}
             /\ Goto("drop_retired")
             /\ UNCHANGED <<dirs, journal>>
    <3>1. flags' \subseteq Flags /\ dirs' \in DirsType /\ journal' \in Journal \cup {None}
      BY <2>2 DEF TypeInv, TypeOK, DirsType
    <3> QED
      BY <2>2, <3>1, <1>2, <1>3, GotoKeeps DEF TypeInv
  <2> QED
    BY <1>12, <2>1, <2>2 DEF Scan
<1>13. CASE DropRetired
  BY <1>13, <1>2, <1>3, RemoveKeeps DEF DropRetired
<1>14. CASE Commit
  BY <1>14, <1>2, <1>3, RecordKeeps DEF Commit
<1>15. CASE Clear
  BY <1>15, <1>2, <1>3, ForgetKeeps DEF Clear
<1>16. CASE UndoActivation
  BY <1>16, <1>2, <1>3, MoveToKeeps, SkipKeeps DEF UndoActivation, Undo
<1>17. CASE UndoRotation
  BY <1>17, <1>2, <1>3, MoveToKeeps, SkipKeeps DEF UndoRotation, Undo
<1>18. CASE UndoRetirement
  BY <1>18, <1>2, <1>3, MoveToKeeps, SkipKeeps DEF UndoRetirement, Undo
<1>19. CASE DropFailed
  BY <1>19, <1>2, <1>3, RemoveKeeps DEF DropFailed
<1>20. CASE Abandon
  BY <1>20, <1>2, <1>3, ForgetKeeps DEF Abandon
<1>21. CASE SweepStage
  BY <1>21, <1>2, <1>3, RemoveKeeps DEF SweepStage
<1>22. CASE SweepFailed
  BY <1>22, <1>2, <1>3, RemoveKeeps DEF SweepFailed
<1>23. CASE SweepRetired
  BY <1>23, <1>2, <1>3, RemoveKeeps DEF SweepRetired
<1>24. CASE RecoverInstall
  BY <1>24, <1>2, <1>3, SkipKeeps, EndKeeps, ReturnKeeps DEF RecoverInstall, Outcomes
<1>25. CASE RecoverActivated
  BY <1>25, <1>2, <1>3, MoveToKeeps, EndKeeps, RemoveOwnedKeeps
  DEF RecoverActivated, Outcomes
<1>26. CASE RecoverCurrent
  BY <1>26, <1>2, <1>3, MoveToKeeps DEF RecoverCurrent
<1>27. CASE RecoverScrap
  BY <1>27, <1>2, <1>3, RemoveOwnedKeeps DEF RecoverScrap
<1>28. CASE RecoverRetired
  BY <1>28, <1>2, <1>3, ReturnKeeps, SkipKeeps DEF RecoverRetired
<1>29. CASE RecoverStage
  BY <1>29, <1>2, <1>3, RemoveOwnedKeeps DEF RecoverStage
<1>30. CASE CleanStage
  BY <1>30, <1>2, <1>3, RemoveOwnedKeeps DEF CleanStage
<1>31. CASE CleanRetired
  BY <1>31, <1>2, <1>3, RemoveOwnedKeeps DEF CleanRetired
<1> QED
  BY <1>4, <1>5, <1>6, <1>7, <1>8, <1>9, <1>10, <1>11, <1>12, <1>13, <1>14, <1>15,
     <1>16, <1>17, <1>18, <1>19, <1>20, <1>21, <1>22, <1>23, <1>24, <1>25, <1>26,
     <1>27, <1>28, <1>29, <1>30, <1>31
  DEF Install, RecoveryOfInstall

LEMMA RollbackKeeps ==
  ASSUME TypeInv, Rollback \/ RecoveryOfRollback
  PROVE  TypeInv' /\ txn' = txn /\ txn.op = "rollback" /\ pc \in RollbackLines
<1>1. pc \in RollbackLines
  <2>1. PrepareRollback \/ SwapOut \/ NoteSwapOut \/ SwapIn => pc \in RollbackLines
    BY DEF PrepareRollback, SwapOut, NoteSwapOut, SwapIn, At, Undo, RollbackLines,
       RollbackBody
  <2>2. NoteSwapIn \/ SwapKeep \/ CommitRollback \/ ClearRollback => pc \in RollbackLines
    BY DEF NoteSwapIn, SwapKeep, CommitRollback, ClearRollback, At, Undo,
       RollbackLines, RollbackBody
  <2>3. UndoSwapIn \/ UndoSwapOut \/ AbandonRollback \/ RecoverRollback => pc \in RollbackLines
    BY DEF UndoSwapIn, UndoSwapOut, AbandonRollback, RecoverRollback, At, Undo,
       RollbackLines, RollbackBody
  <2>4. RecoverSwap => pc \in RollbackLines
    BY DEF RecoverSwap, At, Undo, RollbackLines, RollbackBody
  <2> QED
    BY <2>1, <2>2, <2>3, <2>4 DEF Rollback, RecoveryOfRollback
<1>2. txn.op = "rollback"
  BY <1>1 DEF TypeInv, Fits
<1>3. \A line \in RollbackLines \cup Common : Fits(line)
  BY <1>2, Disjoint, FamiliesAreLines DEF Fits, Common
<1> SUFFICES TypeInv' /\ txn' = txn
  BY <1>1, <1>2
<1> USE DEF RollbackLines, RollbackBody, Common, At, Names, Flags, Phases
<1>4. CASE PrepareRollback
  BY <1>4, <1>2, <1>3, RecordKeeps DEF PrepareRollback
<1>5. CASE SwapOut
  BY <1>5, <1>2, <1>3, MoveToKeeps DEF SwapOut
<1>6. CASE NoteSwapOut
  BY <1>6, <1>2, <1>3, RecordKeeps DEF NoteSwapOut
<1>7. CASE SwapIn
  BY <1>7, <1>2, <1>3, MoveToKeeps DEF SwapIn
<1>8. CASE NoteSwapIn
  BY <1>8, <1>2, <1>3, RecordKeeps DEF NoteSwapIn
<1>9. CASE SwapKeep
  BY <1>9, <1>2, <1>3, MoveToKeeps DEF SwapKeep
<1>10. CASE CommitRollback
  BY <1>10, <1>2, <1>3, RecordKeeps DEF CommitRollback
<1>11. CASE ClearRollback
  BY <1>11, <1>2, <1>3, ForgetKeeps DEF ClearRollback
<1>12. CASE UndoSwapIn
  BY <1>12, <1>2, <1>3, MoveToKeeps, SkipKeeps DEF UndoSwapIn
<1>13. CASE UndoSwapOut
  BY <1>13, <1>2, <1>3, MoveToKeeps, SkipKeeps DEF UndoSwapOut
<1>14. CASE AbandonRollback
  BY <1>14, <1>2, <1>3, ForgetKeeps DEF AbandonRollback
<1>15. CASE RecoverRollback
  BY <1>15, <1>2, <1>3, ReturnKeeps, SkipKeeps DEF RecoverRollback
<1>16. CASE RecoverSwap
  BY <1>16, <1>2, <1>3, ReturnKeeps, SkipKeeps DEF RecoverSwap
<1> QED
  BY <1>4, <1>5, <1>6, <1>7, <1>8, <1>9, <1>10, <1>11, <1>12, <1>13, <1>14, <1>15,
     <1>16
  DEF Rollback, RecoveryOfRollback

LEMMA UninstallKeeps ==
  ASSUME TypeInv, Uninstall \/ RecoveryOfUninstall
  PROVE  TypeInv' /\ txn' = txn /\ txn.op = "uninstall" /\ pc \in UninstallLines
<1>1. pc \in UninstallLines
  <2>1. PrepareUninstall \/ RemoveCurrent \/ NoteCurrent \/ RemovePrevious => pc \in UninstallLines
    BY DEF PrepareUninstall, RemoveCurrent, NoteCurrent, RemovePrevious, At, Undo,
       UninstallLines, UninstallBody, Tombstones
  <2>2. NotePrevious \/ Decide \/ CommitUninstall \/ RestorePrevious => pc \in UninstallLines
    BY DEF NotePrevious, Decide, CommitUninstall, RestorePrevious, At, Undo,
       UninstallLines, UninstallBody, Tombstones
  <2>3. RestoreCurrent \/ AbandonUninstall \/ DropPrevious \/ DropCurrent => pc \in UninstallLines
    BY DEF RestoreCurrent, AbandonUninstall, DropPrevious, DropCurrent, At, Undo,
       UninstallLines, UninstallBody, Tombstones
  <2>4. ClearUninstall \/ RecoverUninstall \/ CleanTombstone \/ RecoverPrevious => pc \in UninstallLines
    BY DEF ClearUninstall, RecoverUninstall, CleanTombstone, RecoverPrevious, At,
       Undo, UninstallLines, UninstallBody, Tombstones
  <2> QED
    BY <2>1, <2>2, <2>3, <2>4 DEF Uninstall, RecoveryOfUninstall
<1>2. txn.op = "uninstall"
  BY <1>1 DEF TypeInv, Fits
<1>3. \A line \in UninstallLines \cup Common : Fits(line)
  BY <1>2, Disjoint, FamiliesAreLines DEF Fits, Common
<1> SUFFICES TypeInv' /\ txn' = txn
  BY <1>1, <1>2
<1> USE DEF UninstallLines, UninstallBody, Tombstones, Common, At, Names, Flags, Phases
<1>4. CASE PrepareUninstall
  BY <1>4, <1>2, <1>3, RecordKeeps DEF PrepareUninstall
<1>5. CASE RemoveCurrent
  BY <1>5, <1>2, <1>3, MoveToKeeps DEF RemoveCurrent
<1>6. CASE NoteCurrent
  BY <1>6, <1>2, <1>3, RecordKeeps DEF NoteCurrent
<1>7. CASE RemovePrevious
  BY <1>7, <1>2, <1>3, MoveToKeeps, SkipKeeps DEF RemovePrevious
<1>8. CASE NotePrevious
  BY <1>8, <1>2, <1>3, RecordKeeps DEF NotePrevious
<1>9. CASE Decide
  <2>1. flags' \subseteq Flags /\ dirs' \in DirsType /\ journal' \in Journal \cup {None}
    BY <1>9 DEF Decide, TypeInv, TypeOK, DirsType
  <2>2. Goto("u_commit") /\ journal' = journal
    BY <1>9 DEF Decide
  <2> QED
    BY <2>1, <2>2, <1>2, <1>3, GotoKeeps DEF TypeInv
<1>10. CASE CommitUninstall
  BY <1>10, <1>2, <1>3, RecordKeeps DEF CommitUninstall
<1>11. CASE RestorePrevious
  BY <1>11, <1>2, <1>3, MoveToKeeps, SkipKeeps DEF RestorePrevious
<1>12. CASE RestoreCurrent
  BY <1>12, <1>2, <1>3, MoveToKeeps, SkipKeeps DEF RestoreCurrent
<1>13. CASE AbandonUninstall
  BY <1>13, <1>2, <1>3, ForgetKeeps DEF AbandonUninstall
<1>14. CASE DropPrevious
  BY <1>14, <1>2, <1>3, RemoveKeeps DEF DropPrevious
<1>15. CASE DropCurrent
  BY <1>15, <1>2, <1>3, RemoveKeeps DEF DropCurrent
<1>16. CASE ClearUninstall
  BY <1>16, <1>2, <1>3, ForgetKeeps, SkipKeeps DEF ClearUninstall
<1>17. CASE RecoverUninstall
  BY <1>17, <1>2, <1>3, RemoveOwnedKeeps, ReturnKeeps, SkipKeeps DEF RecoverUninstall
<1>18. CASE CleanTombstone
  BY <1>18, <1>2, <1>3, RemoveOwnedKeeps DEF CleanTombstone
<1>19. CASE RecoverPrevious
  BY <1>19, <1>2, <1>3, ReturnKeeps, SkipKeeps DEF RecoverPrevious
<1> QED
  BY <1>4, <1>5, <1>6, <1>7, <1>8, <1>9, <1>10, <1>11, <1>12, <1>13, <1>14, <1>15,
     <1>16, <1>17, <1>18, <1>19
  DEF Uninstall, RecoveryOfUninstall

LEMMA BeginKeeps ==
  ASSUME TypeInv, NEW op, NEW line, Begin(op, line),
         line \in Lines,
         \/ op = "install" /\ line \in InstallLines
         \/ op = "rollback" /\ line \in RollbackLines
         \/ op = "uninstall" /\ line \in UninstallLines
  PROVE  TypeInv'
<1>1. /\ journal = None /\ journal' = None
      /\ pc' = line /\ flags' = {} /\ outcome' = "running"
  BY DEF Begin
<1>2. txn'.op = op /\ txn'.n = txn.n + 1 /\ txn.n < MaxTransactions
  BY DEF Begin
<1>3. dirs["target"] \in Bundle \cup {None} /\ dirs["previous"] \in Bundle \cup {None}
  BY DEF TypeInv, TypeOK, Names
<1>4. txn' \in [n : 0..MaxTransactions, op : {"none", "install", "rollback", "uninstall"},
                target : Bundle \cup {None}, previous : Bundle \cup {None}]
  <2>1. txn.n + 1 \in 0..MaxTransactions
    BY <1>2, BoundsAssumption DEF TypeInv, TypeOK
  <2> QED
    BY <2>1, <1>3 DEF Begin
<1>5. dirs' \in DirsType
  BY DEF Begin, TypeInv, TypeOK, DirsType
<1>6. Fits(pc)'
  BY <1>1, <1>2, Disjoint DEF Fits
<1>7. crashes' = crashes /\ failures' = failures /\ made' = made
  BY DEF Begin, history
<1>8. TypeOK'
  BY <1>1, <1>4, <1>5, <1>6, <1>7 DEF TypeInv, TypeOK, Fits, DirsType
<1> QED
  BY <1>1, <1>6, <1>8 DEF TypeInv

LEMMA StartRecoverKeeps ==
  ASSUME TypeInv, StartRecover
  PROVE  TypeInv' /\ txn' = txn
<1>1. /\ txn' = txn /\ dirs' = dirs /\ journal' = journal /\ flags' = flags
      /\ outcome' = "running" /\ crashes' = crashes /\ failures' = failures /\ made' = made
  BY DEF StartRecover, history
<1>2. journal \in Journal /\ journal.op = txn.op
  BY DEF StartRecover, TypeInv, TypeOK
<1>3. \/ txn.op = "install" /\ pc' = "r_install"
      \/ txn.op = "rollback" /\ pc' = "r_rollback"
      \/ txn.op = "uninstall" /\ pc' = "r_uninstall"
  BY <1>2 DEF StartRecover, Journal
<1>4. "r_install" \in InstallLines /\ "r_rollback" \in RollbackLines
      /\ "r_uninstall" \in UninstallLines
  BY DEF InstallLines, RollbackLines, UninstallLines
<1>5. Fits(pc)'
  BY <1>1, <1>3, <1>4, Disjoint, FamiliesAreLines DEF Fits
<1>6. TypeOK'
  BY <1>1, <1>5 DEF TypeInv, TypeOK, Fits
<1> QED
  BY <1>1, <1>5, <1>6 DEF TypeInv

LEMMA EndRecoveryKeeps ==
  ASSUME TypeInv, EndRecovery
  PROVE  TypeInv' /\ txn' = txn
<1>1. CASE Throw /\ UNCHANGED dirs
  BY <1>1, ThrowKeeps DEF TypeInv, TypeOK, DirsType
<1>2. CASE /\ journal' = None
           /\ pc' = "idle"
           /\ outcome' = IF journal.phase = "committed" THEN "cleaned" ELSE "restored"
           /\ UNCHANGED <<dirs, flags, txn, history>>
  <2>1. /\ txn' = txn /\ dirs' = dirs /\ flags' = flags
        /\ crashes' = crashes /\ failures' = failures /\ made' = made
    BY <1>2 DEF history
  <2>2. Fits(pc)'
    BY <1>2, Disjoint, FamiliesAreLines DEF Fits, Common
  <2>3. TypeOK'
    BY <1>2, <2>1, <2>2 DEF TypeInv, TypeOK, Fits
  <2> QED
    BY <1>2, <2>1, <2>2, <2>3 DEF TypeInv
<1> QED
  BY <1>1, <1>2 DEF EndRecovery

LEMMA TypeInductive == TypeInv /\ [Next]_vars => TypeInv'
<1> SUFFICES ASSUME TypeInv, [Next]_vars PROVE TypeInv'
  OBVIOUS
<1>1. CASE StartInstall
  BY <1>1, BeginKeeps, FamiliesAreLines DEF StartInstall, InstallLines, Body
<1>2. CASE StartRollback
  BY <1>2, BeginKeeps, FamiliesAreLines DEF StartRollback, RollbackLines
<1>3. CASE StartUninstall
  BY <1>3, BeginKeeps, FamiliesAreLines DEF StartUninstall, UninstallLines
<1>4. CASE StartRecover
  BY <1>4, StartRecoverKeeps
<1>5. CASE Install \/ RecoveryOfInstall
  BY <1>5, InstallKeeps
<1>6. CASE Rollback \/ RecoveryOfRollback
  BY <1>6, RollbackKeeps
<1>7. CASE Uninstall \/ RecoveryOfUninstall
  BY <1>7, UninstallKeeps
<1>8. CASE EndRecovery
  BY <1>8, EndRecoveryKeeps
<1>9. CASE Ending
  BY <1>9, EndKeeps DEF Ending, Outcomes
<1>10. CASE Crash
  BY <1>10, StopKeeps DEF Crash, TypeInv, TypeOK, DirsType
<1>11. CASE UNCHANGED vars
  BY <1>11 DEF vars, TypeInv, TypeOK, Fits
<1> QED
  BY <1>1, <1>2, <1>3, <1>4, <1>5, <1>6, <1>7, <1>8, <1>9, <1>10, <1>11
  DEF Next, Recover

LEMMA TypeInitial == Init => TypeInv
<1> SUFFICES ASSUME Init PROVE TypeInv
  OBVIOUS
<1>1. dirs \in DirsType
  <2>1. ASSUME NEW d \in Names
        PROVE  (CASE d = "target" /\ made > 0 -> [v |-> made, whole |-> TRUE]
                  [] d = "previous" /\ made = 2 -> [v |-> 1, whole |-> TRUE]
                  [] OTHER -> None) \in Bundle \cup {None}
    BY DEF Init, Bundle
  <2> QED
    BY <2>1 DEF Init, DirsType
<1>2. txn \in [n : 0..MaxTransactions, op : {"none", "install", "rollback", "uninstall"},
               target : Bundle \cup {None}, previous : Bundle \cup {None}]
  BY <1>1, BoundsAssumption DEF Init, DirsType, Names
<1>3. /\ crashes \in Nat /\ failures \in Nat /\ crashes + failures <= MaxMishaps
      /\ made \in Nat
  BY BoundsAssumption DEF Init
<1>4. Fits(pc) /\ journal = None /\ flags \subseteq Flags
  BY Disjoint, FamiliesAreLines DEF Init, Fits, Common
<1>5. outcome = "done"
  BY DEF Init
<1> QED
  BY <1>1, <1>2, <1>3, <1>4, <1>5 DEF TypeInv, TypeOK, DirsType, Fits

(***************************************************************************)
(* The directories, the journal and the locals of the scripts keep their   *)
(* types through any sequence of transactions, crashes and failures.       *)
(***************************************************************************)
THEOREM InstallerTypeCorrect == Spec => []TypeOK
<1>1. TypeInv => TypeOK
  BY DEF TypeInv
<1> QED
  BY <1>1, TypeInitial, TypeInductive, PTL DEF Spec

----------------------------------------------------------------------------

\* A move to a free name moves the bundle and nothing else.
LEMMA MoveIsExact ==
  ASSUME TypeInv, NEW from \in Names, NEW to \in Names, from # to, dirs[to] = None,
         Move(from, to)
  PROVE  /\ dirs'[from] = None /\ dirs'[to] = dirs[from]
         /\ \A d \in Names \ {from, to} : dirs'[d] = dirs[d]
BY DEF Move, TypeInv, TypeOK

LEMMA RecordIsWritten ==
  ASSUME TypeInv, txn.op # "none", NEW phase \in Phases, WriteTransaction(phase)
  PROVE  journal' # None /\ journal'.phase = phase
<1>1. journal' \in Journal
  BY DEF WriteTransaction, TypeInv, TypeOK, Journal
<1> QED
  BY <1>1, NoneAssumption DEF WriteTransaction

----------------------------------------------------------------------------
(* Rollback. *)

\* The arrangements of the two bundles of a rollback.
Places(target, previous, swap) ==
    dirs["target"] = target /\ dirs["previous"] = previous /\ dirs["swap"] = swap
Untouched == Places(txn.target, txn.previous, None)
TakenOut == Places(None, txn.previous, txn.target)
HalfWay == Places(txn.previous, None, txn.target)
Exchanged == Places(txn.previous, txn.target, None)

WholeBundle(b) == b \in Bundle /\ b.whole
Committed == journal # None /\ journal.phase = "committed"

RollbackState ==
    /\ WholeBundle(txn.target) /\ WholeBundle(txn.previous)
    /\ outcome # "refused"
    /\ Untouched \/ TakenOut \/ HalfWay \/ Exchanged
    /\ journal = None => Untouched \/ Exchanged
    /\ Committed => Exchanged
    /\ pc \in (RollbackLines \ {"b_prepare"}) \cup {"r_clear"} => journal # None
    /\ pc \in {"b_prepare", "b_out"} => Untouched /\ ~Committed
    /\ pc \in {"b_note_out", "b_in"} => TakenOut
    /\ pc \in {"b_note_in", "b_keep"} => HalfWay /\ "activated" \in flags
    /\ pc \in {"b_commit", "b_clear"} => Exchanged
    /\ pc = "b_catch" /\ HalfWay => "activated" \in flags
    /\ pc \in {"b_catch_out", "r_swap"} => ~HalfWay
    /\ pc \in {"b_catch_journal", "r_clear"} => Untouched \/ Exchanged

RollbackInv == txn.op = "rollback" => RollbackState


\* An error of a line of the rollback leads to its catch block, or ends it.
LEMMA RollbackThrows ==
  ASSUME TypeInv, txn.op = "rollback", RollbackState, Throw, UNCHANGED dirs
  PROVE  RollbackState'
<1>1. pc \notin InstallLines \cup UninstallLines
  BY DEF TypeInv, Fits
<1>2. \/ pc \in RollbackBody /\ pc' = "b_catch"
      \/ pc' = "failed"
  BY <1>1 DEF Throw, ToHandler, InstallLines, UninstallLines, Tombstones
<1>3. /\ txn' = txn /\ dirs' = dirs /\ journal' = journal /\ outcome' = outcome
      /\ flags \subseteq flags'
  BY DEF Throw
<1>4. pc \in RollbackBody => journal # None /\ (HalfWay => "activated" \in flags)
  BY NoneAssumption
  DEF RollbackState, RollbackLines, RollbackBody, Untouched, TakenOut, HalfWay,
      Exchanged, Places, Committed, WholeBundle
<1> QED
  BY <1>2, <1>3, <1>4
  DEF RollbackState, RollbackLines, RollbackBody, Untouched, TakenOut, HalfWay,
      Exchanged, Places, Committed, WholeBundle

LEMMA RollbackBegins ==
  ASSUME TypeInv, StartRollback
  PROVE  RollbackState'
<1>1. /\ journal' = None /\ pc' = "b_prepare" /\ flags' = {} /\ outcome' = "running"
  BY DEF StartRollback, Begin
<1>2. txn'.target = dirs["target"] /\ txn'.previous = dirs["previous"]
  BY DEF StartRollback, Begin
<1>3. dirs'["target"] = dirs["target"] /\ dirs'["previous"] = dirs["previous"]
      /\ dirs'["swap"] = None
  BY DEF StartRollback, Begin, Names, Kept
<1>4. WholeBundle(dirs["target"]) /\ WholeBundle(dirs["previous"])
  BY DEF StartRollback, Owned, Exists, TypeInv, TypeOK, Names, WholeBundle
<1> QED
  BY <1>1, <1>2, <1>3, <1>4, NoneAssumption
  DEF RollbackState, RollbackLines, RollbackBody, Untouched, TakenOut, HalfWay,
      Exchanged, Places, Committed, WholeBundle

\* Every line of the rollback, of its catch block and of its recovery.
LEMMA RollbackStep ==
  ASSUME TypeInv, txn.op = "rollback", RollbackState, Rollback \/ RecoveryOfRollback
  PROVE  RollbackState'
<1> USE NoneAssumption
<1>1. dirs \in [Names -> Bundle \cup {None}] /\ journal \in Journal \cup {None}
  BY DEF TypeInv, TypeOK
<1>2. CASE PrepareRollback
  <2>1. CASE Throw /\ UNCHANGED dirs
    BY <2>1, RollbackThrows
  <2>2. CASE WriteTransaction("prepared") /\ Goto("b_out") /\ UNCHANGED <<dirs, flags>>
    <3>1. journal' # None /\ journal'.phase = "prepared"
      BY <2>2, RecordIsWritten DEF Phases
    <3> QED
      BY <1>2, <2>2, <3>1
      DEF PrepareRollback, At, Goto, RollbackState, RollbackLines, RollbackBody,
          Untouched, TakenOut, HalfWay, Exchanged, Places, Committed, WholeBundle
  <2> QED
    BY <1>2, <2>1, <2>2 DEF PrepareRollback, Record
<1>3. CASE SwapOut
  <2>1. CASE Throw /\ UNCHANGED dirs
    BY <2>1, RollbackThrows
  <2>2. CASE Move("target", "swap") /\ flags' = flags \cup {} /\ Goto("b_note_out") /\ UNCHANGED journal
             /\ Untouched
    <3>1. dirs["swap"] = None
      BY <2>2
      DEF Untouched, TakenOut, HalfWay, Exchanged, Places, Committed, WholeBundle
    <3>2. TakenOut'
      BY <2>2, <3>1, MoveIsExact
      DEF Goto, Names, Untouched, TakenOut, HalfWay, Exchanged, Places, Committed,
          WholeBundle
    <3> QED
      BY <1>3, <2>2, <3>2
      DEF SwapOut, At, Goto, RollbackState, RollbackLines, RollbackBody, Untouched,
          TakenOut, HalfWay, Exchanged, Places, Committed, WholeBundle
  <2> QED
    BY <1>3, <2>1, <2>2 DEF SwapOut, At, MoveTo, RollbackState
<1>4. CASE NoteSwapOut
  <2>1. CASE Throw /\ UNCHANGED dirs
    BY <2>1, RollbackThrows
  <2>2. CASE WriteTransaction("current_rotated") /\ Goto("b_in") /\ UNCHANGED <<dirs, flags>>
    <3>1. journal' # None /\ journal'.phase = "current_rotated"
      BY <2>2, RecordIsWritten DEF Phases
    <3> QED
      BY <1>4, <2>2, <3>1
      DEF NoteSwapOut, At, Goto, RollbackState, RollbackLines, RollbackBody,
          Untouched, TakenOut, HalfWay, Exchanged, Places, Committed, WholeBundle
  <2> QED
    BY <1>4, <2>1, <2>2 DEF NoteSwapOut, Record
<1>5. CASE SwapIn
  <2>1. CASE Throw /\ UNCHANGED dirs
    BY <2>1, RollbackThrows
  <2>2. CASE Move("previous", "target") /\ flags' = flags \cup {"activated"} /\ Goto("b_note_in") /\ UNCHANGED journal
             /\ TakenOut
    <3>1. dirs["target"] = None
      BY <2>2
      DEF Untouched, TakenOut, HalfWay, Exchanged, Places, Committed, WholeBundle
    <3>2. HalfWay'
      BY <2>2, <3>1, MoveIsExact
      DEF Goto, Names, Untouched, TakenOut, HalfWay, Exchanged, Places, Committed,
          WholeBundle
    <3> QED
      BY <1>5, <2>2, <3>2
      DEF SwapIn, At, Goto, RollbackState, RollbackLines, RollbackBody, Untouched,
          TakenOut, HalfWay, Exchanged, Places, Committed, WholeBundle
  <2> QED
    BY <1>5, <2>1, <2>2 DEF SwapIn, At, MoveTo, RollbackState
<1>6. CASE NoteSwapIn
  <2>1. CASE Throw /\ UNCHANGED dirs
    BY <2>1, RollbackThrows
  <2>2. CASE WriteTransaction("previous_activated") /\ Goto("b_keep") /\ UNCHANGED <<dirs, flags>>
    <3>1. journal' # None /\ journal'.phase = "previous_activated"
      BY <2>2, RecordIsWritten DEF Phases
    <3> QED
      BY <1>6, <2>2, <3>1
      DEF NoteSwapIn, At, Goto, RollbackState, RollbackLines, RollbackBody,
          Untouched, TakenOut, HalfWay, Exchanged, Places, Committed, WholeBundle
  <2> QED
    BY <1>6, <2>1, <2>2 DEF NoteSwapIn, Record
<1>7. CASE SwapKeep
  <2>1. CASE Throw /\ UNCHANGED dirs
    BY <2>1, RollbackThrows
  <2>2. CASE Move("swap", "previous") /\ flags' = flags \cup {} /\ Goto("b_commit") /\ UNCHANGED journal
             /\ HalfWay
    <3>1. dirs["previous"] = None
      BY <2>2
      DEF Untouched, TakenOut, HalfWay, Exchanged, Places, Committed, WholeBundle
    <3>2. Exchanged'
      BY <2>2, <3>1, MoveIsExact
      DEF Goto, Names, Untouched, TakenOut, HalfWay, Exchanged, Places, Committed,
          WholeBundle
    <3> QED
      BY <1>7, <2>2, <3>2
      DEF SwapKeep, At, Goto, RollbackState, RollbackLines, RollbackBody, Untouched,
          TakenOut, HalfWay, Exchanged, Places, Committed, WholeBundle
  <2> QED
    BY <1>7, <2>1, <2>2 DEF SwapKeep, At, MoveTo, RollbackState
<1>8. CASE CommitRollback
  <2>1. CASE Throw /\ UNCHANGED dirs
    BY <2>1, RollbackThrows
  <2>2. CASE WriteTransaction("committed") /\ Goto("b_clear") /\ UNCHANGED <<dirs, flags>>
    <3>1. journal' # None /\ journal'.phase = "committed"
      BY <2>2, RecordIsWritten DEF Phases
    <3> QED
      BY <1>8, <2>2, <3>1
      DEF CommitRollback, At, Goto, RollbackState, RollbackLines, RollbackBody,
          Untouched, TakenOut, HalfWay, Exchanged, Places, Committed, WholeBundle
  <2> QED
    BY <1>8, <2>1, <2>2 DEF CommitRollback, Record
<1>9. CASE ClearRollback
  <2>1. CASE Throw /\ UNCHANGED dirs
    BY <2>1, RollbackThrows
  <2>2. CASE journal' = None /\ Goto("done") /\ UNCHANGED <<dirs, flags>>
    BY <1>9, <2>2
    DEF ClearRollback, At, Goto, RollbackState, RollbackLines, RollbackBody,
        Untouched, TakenOut, HalfWay, Exchanged, Places, Committed, WholeBundle
  <2> QED
    BY <1>9, <2>1, <2>2 DEF ClearRollback, Forget
<1>10. CASE UndoSwapIn
  <2>1. CASE Throw /\ UNCHANGED dirs
    BY <2>1, RollbackThrows
  <2>2. CASE Move("target", "previous") /\ flags' = flags \cup {} /\ Goto("b_catch_out") /\ UNCHANGED journal
             /\ HalfWay
    <3>1. dirs["previous"] = None
      BY <2>2
      DEF Untouched, TakenOut, HalfWay, Exchanged, Places, Committed, WholeBundle
    <3>2. TakenOut'
      BY <2>2, <3>1, MoveIsExact
      DEF Goto, Names, Untouched, TakenOut, HalfWay, Exchanged, Places, Committed,
          WholeBundle
    <3> QED
      BY <1>10, <2>2, <3>2
      DEF UndoSwapIn, At, Goto, RollbackState, RollbackLines, RollbackBody,
          Untouched, TakenOut, HalfWay, Exchanged, Places, Committed, WholeBundle
  <2>3. CASE Skip("b_catch_out") /\ ~HalfWay
    BY <1>10, <2>3
    DEF UndoSwapIn, At, Skip, Goto, RollbackState, RollbackLines, RollbackBody,
        Untouched, TakenOut, HalfWay, Exchanged, Places, Committed, WholeBundle
  <2>4. CASE HalfWay
    <3>1. MoveTo("target", "previous", {}, "b_catch_out")
      BY <1>10, <2>4
      DEF UndoSwapIn, At, Exists, RollbackState, Untouched, TakenOut, HalfWay,
          Exchanged, Places, Committed, WholeBundle
    <3> QED
      BY <2>1, <2>2, <2>4, <3>1 DEF MoveTo
  <2>5. CASE ~HalfWay
    <3>1. Skip("b_catch_out")
      BY <1>10, <2>5
      DEF UndoSwapIn, At, Exists, RollbackState, Untouched, TakenOut, HalfWay,
          Exchanged, Places, Committed, WholeBundle
    <3> QED
      BY <2>3, <2>5, <3>1
  <2> QED
    BY <2>4, <2>5
<1>11. CASE UndoSwapOut
  <2>1. CASE Throw /\ UNCHANGED dirs
    BY <2>1, RollbackThrows
  <2>2. CASE Move("swap", "target") /\ flags' = flags \cup {} /\ Goto("b_catch_journal") /\ UNCHANGED journal
             /\ TakenOut
    <3>1. dirs["target"] = None
      BY <2>2
      DEF Untouched, TakenOut, HalfWay, Exchanged, Places, Committed, WholeBundle
    <3>2. Untouched'
      BY <2>2, <3>1, MoveIsExact
      DEF Goto, Names, Untouched, TakenOut, HalfWay, Exchanged, Places, Committed,
          WholeBundle
    <3> QED
      BY <1>11, <2>2, <3>2
      DEF UndoSwapOut, At, Goto, RollbackState, RollbackLines, RollbackBody,
          Untouched, TakenOut, HalfWay, Exchanged, Places, Committed, WholeBundle
  <2>3. CASE Skip("b_catch_journal") /\ ~TakenOut
    BY <1>11, <2>3
    DEF UndoSwapOut, At, Skip, Goto, RollbackState, RollbackLines, RollbackBody,
        Untouched, TakenOut, HalfWay, Exchanged, Places, Committed, WholeBundle
  <2>4. CASE TakenOut
    <3>1. MoveTo("swap", "target", {}, "b_catch_journal")
      BY <1>11, <2>4
      DEF UndoSwapOut, At, Exists, RollbackState, Untouched, TakenOut, HalfWay,
          Exchanged, Places, Committed, WholeBundle
    <3> QED
      BY <2>1, <2>2, <2>4, <3>1 DEF MoveTo
  <2>5. CASE ~TakenOut
    <3>1. Skip("b_catch_journal")
      BY <1>11, <2>5
      DEF UndoSwapOut, At, Exists, RollbackState, Untouched, TakenOut, HalfWay,
          Exchanged, Places, Committed, WholeBundle
    <3> QED
      BY <2>3, <2>5, <3>1
  <2> QED
    BY <2>4, <2>5
<1>12. CASE AbandonRollback
  <2>1. CASE Throw /\ UNCHANGED dirs
    BY <2>1, RollbackThrows
  <2>2. CASE journal' = None /\ Goto("failed") /\ UNCHANGED <<dirs, flags>>
    BY <1>12, <2>2
    DEF AbandonRollback, At, Goto, RollbackState, RollbackLines, RollbackBody,
        Untouched, TakenOut, HalfWay, Exchanged, Places, Committed, WholeBundle
  <2> QED
    BY <1>12, <2>1, <2>2 DEF AbandonRollback, Forget
<1>13. CASE RecoverRollback
  <2>1. CASE Throw /\ UNCHANGED dirs
    BY <2>1, RollbackThrows
  <2>2. CASE Move("target", "previous") /\ flags' = flags \cup {} /\ Goto("r_swap") /\ UNCHANGED journal
             /\ HalfWay
    <3>1. dirs["previous"] = None
      BY <2>2
      DEF Untouched, TakenOut, HalfWay, Exchanged, Places, Committed, WholeBundle
    <3>2. TakenOut'
      BY <2>2, <3>1, MoveIsExact
      DEF Goto, Names, Untouched, TakenOut, HalfWay, Exchanged, Places, Committed,
          WholeBundle
    <3> QED
      BY <1>13, <2>2, <3>2
      DEF RecoverRollback, At, Goto, RollbackState, RollbackLines, RollbackBody,
          Untouched, TakenOut, HalfWay, Exchanged, Places, Committed, WholeBundle
  <2>3. CASE Skip("r_clear") /\ Exchanged
    BY <1>13, <2>3
    DEF RecoverRollback, At, Skip, Goto, RollbackState, RollbackLines, RollbackBody,
        Untouched, TakenOut, HalfWay, Exchanged, Places, Committed, WholeBundle
  <2>4. CASE Skip("r_swap") /\ ~HalfWay
    BY <1>13, <2>4
    DEF RecoverRollback, At, Skip, Goto, RollbackState, RollbackLines, RollbackBody,
        Untouched, TakenOut, HalfWay, Exchanged, Places, Committed, WholeBundle
  <2>5. journal # None
    BY <1>13 DEF RecoverRollback, At, RollbackState, RollbackLines
  <2>6. CASE Committed
    <3>1. Skip("r_clear") /\ Exchanged
      BY <1>13, <2>6 DEF RecoverRollback, RollbackState, Committed
    <3> QED
      BY <2>3, <3>1
  <2>7. CASE ~Committed /\ HalfWay
    <3>1. MoveTo("target", "previous", {}, "r_swap")
      BY <1>13, <2>5, <2>7
      DEF RecoverRollback, At, Return, Owned, Exists, RollbackState, Untouched,
          TakenOut, HalfWay, Exchanged, Places, Committed, WholeBundle
    <3> QED
      BY <2>1, <2>2, <2>7, <3>1 DEF MoveTo
  <2>8. CASE ~Committed /\ ~HalfWay
    <3>1. Skip("r_swap")
      BY <1>13, <2>5, <2>8
      DEF RecoverRollback, At, Exists, RollbackState, Untouched, TakenOut, HalfWay,
          Exchanged, Places, Committed, WholeBundle
    <3> QED
      BY <2>4, <2>8, <3>1
  <2> QED
    BY <2>6, <2>7, <2>8
<1>14. CASE RecoverSwap
  <2>1. CASE Throw /\ UNCHANGED dirs
    BY <2>1, RollbackThrows
  <2>2. CASE Move("swap", "target") /\ flags' = flags \cup {} /\ Goto("r_clear") /\ UNCHANGED journal
             /\ TakenOut
    <3>1. dirs["target"] = None
      BY <2>2
      DEF Untouched, TakenOut, HalfWay, Exchanged, Places, Committed, WholeBundle
    <3>2. Untouched'
      BY <2>2, <3>1, MoveIsExact
      DEF Goto, Names, Untouched, TakenOut, HalfWay, Exchanged, Places, Committed,
          WholeBundle
    <3> QED
      BY <1>14, <2>2, <3>2
      DEF RecoverSwap, At, Goto, RollbackState, RollbackLines, RollbackBody,
          Untouched, TakenOut, HalfWay, Exchanged, Places, Committed, WholeBundle
  <2>3. CASE Skip("r_clear") /\ ~TakenOut
    BY <1>14, <2>3
    DEF RecoverSwap, At, Skip, Goto, RollbackState, RollbackLines, RollbackBody,
        Untouched, TakenOut, HalfWay, Exchanged, Places, Committed, WholeBundle
  <2>4. CASE TakenOut
    <3>1. MoveTo("swap", "target", {}, "r_clear")
      BY <1>14, <2>4
      DEF RecoverSwap, At, Return, Owned, Exists, RollbackState, Untouched,
          TakenOut, HalfWay, Exchanged, Places, Committed, WholeBundle
    <3> QED
      BY <2>1, <2>2, <2>4, <3>1 DEF MoveTo
  <2>5. CASE ~TakenOut
    <3>1. Skip("r_clear")
      BY <1>14, <2>5
      DEF RecoverSwap, At, Exists, RollbackState, Untouched, TakenOut, HalfWay,
          Exchanged, Places, Committed, WholeBundle
    <3> QED
      BY <2>3, <2>5, <3>1
  <2> QED
    BY <2>4, <2>5
<1> QED
  BY <1>2, <1>3, <1>4, <1>5, <1>6, <1>7, <1>8, <1>9, <1>10, <1>11, <1>12, <1>13,
     <1>14
  DEF Rollback, RecoveryOfRollback

LEMMA RollbackInductive == TypeInv /\ RollbackInv /\ [Next]_vars => RollbackInv'
<1> SUFFICES ASSUME TypeInv, RollbackInv, [Next]_vars, txn'.op = "rollback"
             PROVE  RollbackState'
  BY DEF RollbackInv
<1> USE NoneAssumption
<1>1. CASE StartInstall \/ StartUninstall
  BY <1>1 DEF StartInstall, StartUninstall, Begin
<1>2. CASE StartRollback
  BY <1>2, RollbackBegins
<1>3. CASE StartRecover
  <2>1. journal # None /\ journal \in Journal /\ journal.op = txn.op
    BY <1>3 DEF StartRecover, TypeInv, TypeOK
  <2>2. txn' = txn /\ dirs' = dirs /\ journal' = journal /\ flags' = flags
        /\ outcome' = "running" /\ pc = "idle"
    BY <1>3 DEF StartRecover
  <2>3. pc' = "r_rollback"
    BY <1>3, <2>1, <2>2 DEF StartRecover
  <2> QED
    BY <2>1, <2>2, <2>3
    DEF RollbackInv, RollbackState, RollbackLines, RollbackBody, Untouched,
        TakenOut, HalfWay, Exchanged, Places, Committed, WholeBundle
<1>4. CASE Install \/ RecoveryOfInstall
  BY <1>4, InstallKeeps
<1>5. CASE Rollback \/ RecoveryOfRollback
  BY <1>5, RollbackKeeps, RollbackStep DEF RollbackInv
<1>6. CASE Uninstall \/ RecoveryOfUninstall
  BY <1>6, UninstallKeeps
<1>7. CASE EndRecovery
  <2>1. CASE Throw /\ UNCHANGED dirs
    <3>1. txn' = txn
      BY <2>1 DEF Throw
    <3> QED
      BY <2>1, <3>1, RollbackThrows DEF RollbackInv
  <2>2. CASE /\ journal' = None
             /\ pc' = "idle"
             /\ outcome' = IF journal.phase = "committed" THEN "cleaned" ELSE "restored"
             /\ UNCHANGED <<dirs, flags, txn, history>>
    BY <1>7, <2>2
    DEF EndRecovery, At, RollbackInv, RollbackState, RollbackLines, RollbackBody,
        Untouched, TakenOut, HalfWay, Exchanged, Places, Committed, WholeBundle
  <2> QED
    BY <1>7, <2>1, <2>2 DEF EndRecovery
<1>8. CASE Ending
  BY <1>8
  DEF Ending, End, RollbackInv, RollbackState, RollbackLines, RollbackBody,
      Untouched, TakenOut, HalfWay, Exchanged, Places, Committed, WholeBundle
<1>9. CASE Crash
  BY <1>9
  DEF Crash, Stop, RollbackInv, RollbackState, RollbackLines, RollbackBody,
      Untouched, TakenOut, HalfWay, Exchanged, Places, Committed, WholeBundle
<1>10. CASE UNCHANGED vars
  BY <1>10
  DEF vars, RollbackInv, RollbackState, RollbackLines, RollbackBody, Untouched,
      TakenOut, HalfWay, Exchanged, Places, Committed, WholeBundle
<1> QED
  BY <1>1, <1>2, <1>3, <1>4, <1>5, <1>6, <1>7, <1>8, <1>9, <1>10 DEF Next, Recover

(***************************************************************************)
(* A rollback ends with the pair as it was or swapped and its recovery is  *)
(* never refused, however often script and recovery fail or crash.         *)
(***************************************************************************)
THEOREM RollbackSafe == Spec => []RollbackAllOrNothing
<1>1. Init => RollbackInv
  BY DEF Init, RollbackInv
<1>2. RollbackInv => RollbackAllOrNothing
  BY DEF RollbackInv, RollbackState, RollbackAllOrNothing, Settled, Now, Before,
     Swapped, Untouched, Exchanged, Places
<1> QED
  BY <1>1, <1>2, TypeInitial, TypeInductive, RollbackInductive, PTL DEF Spec

----------------------------------------------------------------------------
(* Uninstall. *)

InPlace(bundle, name, tombstone) == dirs[name] = bundle /\ dirs[tombstone] = None
Removed(bundle, name, tombstone) == dirs[name] = None /\ dirs[tombstone] = bundle

TargetIn == InPlace(txn.target, "target", "removed")
TargetOut == Removed(txn.target, "target", "removed")
BackupIn == InPlace(txn.previous, "previous", "removedPrevious")
BackupOut == Removed(txn.previous, "previous", "removedPrevious")
BothGone == dirs["target"] = None /\ dirs["previous"] = None
Decided == "committed" \in flags

UninstallState ==
    /\ WholeBundle(txn.target)
    /\ txn.previous # None => WholeBundle(txn.previous)
    /\ outcome = "refused" => Committed /\ pc = "idle"
    /\ Committed => BothGone
    /\ journal = None => Now \in {Before, <<None, None>>}
    /\ journal # None /\ ~Committed => (TargetIn \/ TargetOut) /\ (BackupIn \/ BackupOut)
    /\ pc \in (UninstallLines \ {"u_prepare"}) \cup {"r_clear"} => journal # None
    /\ pc \in Tombstones \cup {"u_clear", "r_tombstone"} => Committed
    /\ pc \in {"u_prepare", "u_current"} => TargetIn /\ BackupIn /\ ~Committed
    /\ pc \in {"u_prepare", "u_current", "u_note_current", "u_previous", "u_note_previous", "u_decide"}
         => ~Decided
    /\ pc \in {"u_note_current", "u_previous"} => TargetOut /\ BackupIn /\ ~Committed
    /\ pc \in {"u_note_previous", "u_decide", "u_commit"} => TargetOut /\ BackupOut /\ ~Committed
    /\ pc \in {"u_catch", "u_catch_current", "u_catch_journal"} /\ Decided => BothGone
    /\ pc \in {"u_catch", "u_catch_current", "u_catch_journal"} /\ ~Decided => ~Committed
    /\ pc = "u_catch_current" /\ ~Decided => BackupIn
    /\ pc = "u_catch_journal" /\ ~Decided => TargetIn /\ BackupIn
    /\ pc = "r_previous" => ~Committed /\ TargetIn
    /\ pc = "r_clear" /\ ~Committed => TargetIn /\ BackupIn
    /\ pc = "done" => BothGone

UninstallInv == txn.op = "uninstall" => UninstallState

LEMMA UninstallBegins ==
  ASSUME TypeInv, StartUninstall
  PROVE  UninstallState'
<1>1. /\ journal' = None /\ pc' = "u_prepare" /\ flags' = {} /\ outcome' = "running"
  BY DEF StartUninstall, Begin
<1>2. txn'.target = dirs["target"] /\ txn'.previous = dirs["previous"]
  BY DEF StartUninstall, Begin
<1>3. /\ dirs'["target"] = dirs["target"] /\ dirs'["previous"] = dirs["previous"]
      /\ dirs'["removed"] = None /\ dirs'["removedPrevious"] = None
  BY DEF StartUninstall, Begin, Names, Kept
<1>4. WholeBundle(dirs["target"])
      /\ (dirs["previous"] # None => WholeBundle(dirs["previous"]))
  BY DEF StartUninstall, Owned, Exists, TypeInv, TypeOK, Names, WholeBundle
<1> QED
  BY <1>1, <1>2, <1>3, <1>4, NoneAssumption
  DEF UninstallState, UninstallLines, UninstallBody, Tombstones, InPlace, Removed,
      TargetIn, TargetOut, BackupIn, BackupOut, BothGone, Decided, Committed,
      WholeBundle, Now, Before

\* An error of a line that has deleted nothing.
LEMMA UninstallThrows ==
  ASSUME TypeInv, txn.op = "uninstall", UninstallState, pc # "idle", Throw, UNCHANGED dirs
  PROVE  UninstallState'
<1>1. pc \notin InstallLines \cup RollbackLines
  BY DEF TypeInv, Fits
<1>2. \/ pc \in UninstallBody /\ pc' = "u_catch"
      \/ pc \in Tombstones \cup {"u_clear"} /\ pc' \in {"u_drop_current", "u_clear", "done"}
      \/ pc' = "failed"
  BY <1>1 DEF Throw, ToHandler, InstallLines, RollbackLines, Tombstones
<1>3. /\ txn' = txn /\ dirs' = dirs /\ journal' = journal /\ outcome' = outcome
      /\ pc \notin Tombstones => flags' = flags
  BY <1>1 DEF Throw, InstallLines
<1>4. outcome # "refused"
  BY DEF UninstallState
<1>5. CASE pc \in UninstallBody /\ pc' = "u_catch"
  <2>1. flags' = flags /\ journal # None
    BY <1>3, <1>5 DEF UninstallState, UninstallLines, UninstallBody, Tombstones
  <2> QED
    BY <1>3, <1>4, <1>5, <2>1, NoneAssumption
    DEF UninstallState, UninstallLines, UninstallBody, Tombstones, InPlace, Removed,
        TargetIn, TargetOut, BackupIn, BackupOut, BothGone, Decided, Committed,
        WholeBundle, Now, Before
<1>6. CASE pc \in Tombstones \cup {"u_clear"} /\ pc' \in {"u_drop_current", "u_clear", "done"}
  BY <1>3, <1>4, <1>6
  DEF UninstallState, UninstallLines, UninstallBody, Tombstones, InPlace, Removed,
      TargetIn, TargetOut, BackupIn, BackupOut, BothGone, Decided, Committed,
      WholeBundle, Now, Before
<1>7. CASE pc' = "failed"
  BY <1>3, <1>4, <1>7
  DEF UninstallState, UninstallLines, UninstallBody, Tombstones, InPlace, Removed,
      TargetIn, TargetOut, BackupIn, BackupOut, BothGone, Decided, Committed,
      WholeBundle, Now, Before
<1> QED
  BY <1>2, <1>5, <1>6, <1>7

\* Once the removal is committed only tombstones change.
LEMMA CommittedStays ==
  ASSUME UninstallState, Committed, UNCHANGED <<journal, txn>>,
         dirs'["target"] = dirs["target"], dirs'["previous"] = dirs["previous"],
         pc' \in {"idle", "failed", "done", "u_drop_current", "u_clear", "r_tombstone", "r_clear"},
         outcome' = "refused" => pc' = "idle"
  PROVE  UninstallState'
BY DEF UninstallState, UninstallLines, UninstallBody, Tombstones, InPlace, Removed,
   TargetIn, TargetOut, BackupIn, BackupOut, BothGone, Decided, Committed,
   WholeBundle, Now, Before

LEMMA TombstoneSwept ==
  ASSUME TypeInv, txn.op = "uninstall", UninstallState, Committed,
         NEW d \in {"removed", "removedPrevious"},
         NEW line \in {"u_drop_current", "u_clear", "r_tombstone", "r_clear"},
         pc \in Tombstones \cup {"r_uninstall", "r_tombstone"},
         Remove(d, {}, line)
  PROVE  UninstallState'
<1>1. journal' = journal /\ txn' = txn
  BY DEF Remove, Goto, Throw, Stop
<1>2. dirs'["target"] = dirs["target"] /\ dirs'["previous"] = dirs["previous"]
  BY DEF Remove, Damage, Names, TypeInv, TypeOK
<1>3. pc' \in {"idle", "failed", "done", "u_drop_current", "u_clear", "r_tombstone", "r_clear"}
  BY DEF Remove, Goto, Stop, Throw, ToHandler, Tombstones, Body, CatchBlock,
         RollbackBody, UninstallBody
<1>4. outcome # "refused"
  BY DEF UninstallState, Tombstones
<1>5. outcome' = "refused" => pc' = "idle"
  BY <1>4 DEF Remove, Goto, Stop, Throw
<1> QED
  BY <1>1, <1>2, <1>3, <1>5, CommittedStays

LEMMA TombstoneRecovered ==
  ASSUME TypeInv, txn.op = "uninstall", UninstallState, Committed,
         NEW d \in {"removed", "removedPrevious"},
         NEW line \in {"r_tombstone", "r_clear"},
         pc \in {"r_uninstall", "r_tombstone"},
         RemoveOwned(d, line)
  PROVE  UninstallState'
<1>1. CASE Remove(d, {}, line)
  BY <1>1, TombstoneSwept
<1>2. CASE End("refused")
  BY <1>2, CommittedStays DEF End
<1> QED
  BY <1>1, <1>2 DEF RemoveOwned

\* Every line of the uninstall, of its catch block and of its recovery.
LEMMA UninstallStep ==
  ASSUME TypeInv, txn.op = "uninstall", UninstallState, Uninstall \/ RecoveryOfUninstall
  PROVE  UninstallState'
<1> USE NoneAssumption
<1>1. outcome # "refused" /\ pc # "idle"
  <2>1. pc \in UninstallLines
    BY UninstallKeeps
  <2> QED
    BY <2>1 DEF UninstallState, UninstallLines, UninstallBody, Tombstones
<1>2. CASE PrepareUninstall
  <2>1. CASE Throw /\ UNCHANGED dirs
    BY <1>1, <2>1, UninstallThrows
  <2>2. CASE WriteTransaction("prepared") /\ Goto("u_current") /\ UNCHANGED <<dirs, flags>>
    <3>1. journal' # None /\ journal'.phase = "prepared"
      BY <2>2, RecordIsWritten DEF Phases
    <3> QED
      BY <1>1, <1>2, <2>2, <3>1
      DEF PrepareUninstall, At, Goto, UninstallState, UninstallLines, UninstallBody,
          Tombstones, InPlace, Removed, TargetIn, TargetOut, BackupIn, BackupOut,
          BothGone, Decided, Committed, WholeBundle, Now, Before
  <2> QED
    BY <1>2, <2>1, <2>2 DEF PrepareUninstall, Record
<1>3. CASE RemoveCurrent
  <2>1. CASE Throw /\ UNCHANGED dirs
    BY <1>1, <2>1, UninstallThrows
  <2>2. CASE Move("target", "removed") /\ flags' = flags \cup {} /\ Goto("u_note_current") /\ UNCHANGED journal
             /\ dirs["removed"] = None
    <3>1. /\ dirs'["target"] = None /\ dirs'["removed"] = dirs["target"]
          /\ \A d \in Names \ {"target", "removed"} : dirs'[d] = dirs[d]
      BY <2>2, MoveIsExact DEF Names
    <3>2. txn' = txn /\ flags' = flags /\ journal' = journal /\ pc' = "u_note_current" /\ outcome' = outcome
      BY <2>2 DEF Goto
    <3> QED
      BY <1>1, <1>3, <2>2, <3>1, <3>2
      DEF RemoveCurrent, At, Move, Exists, Names, UninstallState, UninstallLines,
          UninstallBody, Tombstones, InPlace, Removed, TargetIn, TargetOut,
          BackupIn, BackupOut, BothGone, Decided, Committed, WholeBundle
  <2>3. dirs["removed"] = None
    BY <1>3
    DEF RemoveCurrent, At, UninstallState, UninstallLines, UninstallBody,
        Tombstones, InPlace, Removed, TargetIn, TargetOut, BackupIn, BackupOut,
        BothGone, Decided, Committed, WholeBundle, Now, Before
  <2> QED
    BY <1>3, <2>1, <2>2, <2>3 DEF RemoveCurrent, MoveTo
<1>4. CASE NoteCurrent
  <2>1. CASE Throw /\ UNCHANGED dirs
    BY <1>1, <2>1, UninstallThrows
  <2>2. CASE WriteTransaction("current_removed") /\ Goto("u_previous") /\ UNCHANGED <<dirs, flags>>
    <3>1. journal' # None /\ journal'.phase = "current_removed"
      BY <2>2, RecordIsWritten DEF Phases
    <3> QED
      BY <1>1, <1>4, <2>2, <3>1
      DEF NoteCurrent, At, Goto, UninstallState, UninstallLines, UninstallBody,
          Tombstones, InPlace, Removed, TargetIn, TargetOut, BackupIn, BackupOut,
          BothGone, Decided, Committed, WholeBundle, Now, Before
  <2> QED
    BY <1>4, <2>1, <2>2 DEF NoteCurrent, Record
<1>5. CASE RemovePrevious
  <2>1. CASE Throw /\ UNCHANGED dirs
    BY <1>1, <2>1, UninstallThrows
  <2>2. CASE Move("previous", "removedPrevious") /\ flags' = flags \cup {} /\ Goto("u_note_previous") /\ UNCHANGED journal
             /\ dirs["removedPrevious"] = None
    <3>1. /\ dirs'["previous"] = None /\ dirs'["removedPrevious"] = dirs["previous"]
          /\ \A d \in Names \ {"previous", "removedPrevious"} : dirs'[d] = dirs[d]
      BY <2>2, MoveIsExact DEF Names
    <3>2. txn' = txn /\ flags' = flags /\ journal' = journal /\ pc' = "u_note_previous" /\ outcome' = outcome
      BY <2>2 DEF Goto
    <3> QED
      BY <1>1, <1>5, <2>2, <3>1, <3>2
      DEF RemovePrevious, At, Move, Exists, Names, UninstallState, UninstallLines,
          UninstallBody, Tombstones, InPlace, Removed, TargetIn, TargetOut,
          BackupIn, BackupOut, BothGone, Decided, Committed, WholeBundle
  <2>3. journal # None
    BY <1>5 DEF RemovePrevious, At, UninstallState, UninstallLines, UninstallBody
  <2>4. CASE Exists("previous")
    <3>1. MoveTo("previous", "removedPrevious", {}, "u_note_previous")
      BY <1>5, <2>4 DEF RemovePrevious, Decided
    <3>2. dirs["removedPrevious"] = None
      BY <1>5, <2>4
      DEF RemovePrevious, At, Exists, UninstallState, UninstallLines, UninstallBody,
          Tombstones, InPlace, Removed, TargetIn, TargetOut, BackupIn, BackupOut,
          BothGone, Decided, Committed, WholeBundle
    <3> QED
      BY <2>1, <2>2, <2>4, <3>1, <3>2 DEF MoveTo
  <2>5. CASE ~(Exists("previous"))
    <3>1. Skip("u_decide") /\ pc = "u_previous"
      BY <1>5, <2>5 DEF RemovePrevious, At, Decided
    <3>2. /\ dirs' = dirs /\ journal' = journal /\ flags' = flags /\ txn' = txn
          /\ outcome' = outcome /\ pc' = "u_decide"
      BY <3>1 DEF Skip, Goto
    <3> QED
      BY <1>1, <2>3, <2>5, <3>1, <3>2
      DEF Exists, UninstallState, UninstallLines, UninstallBody, Tombstones,
          InPlace, Removed, TargetIn, TargetOut, BackupIn, BackupOut, BothGone,
          Decided, Committed, WholeBundle
  <2> QED
    BY <2>4, <2>5
<1>6. CASE NotePrevious
  <2>1. CASE Throw /\ UNCHANGED dirs
    BY <1>1, <2>1, UninstallThrows
  <2>2. CASE WriteTransaction("previous_removed") /\ Goto("u_decide") /\ UNCHANGED <<dirs, flags>>
    <3>1. journal' # None /\ journal'.phase = "previous_removed"
      BY <2>2, RecordIsWritten DEF Phases
    <3> QED
      BY <1>1, <1>6, <2>2, <3>1
      DEF NotePrevious, At, Goto, UninstallState, UninstallLines, UninstallBody,
          Tombstones, InPlace, Removed, TargetIn, TargetOut, BackupIn, BackupOut,
          BothGone, Decided, Committed, WholeBundle, Now, Before
  <2> QED
    BY <1>6, <2>1, <2>2 DEF NotePrevious, Record
<1>7. CASE Decide
  BY <1>1, <1>7
  DEF Decide, At, Goto, UninstallState, UninstallLines, UninstallBody, Tombstones,
      InPlace, Removed, TargetIn, TargetOut, BackupIn, BackupOut, BothGone, Decided,
      Committed, WholeBundle, Now, Before
<1>8. CASE CommitUninstall
  <2>1. CASE Throw /\ UNCHANGED dirs
    BY <1>1, <2>1, UninstallThrows
  <2>2. CASE WriteTransaction("committed") /\ Goto("u_drop_previous") /\ UNCHANGED <<dirs, flags>>
    <3>1. journal' # None /\ journal'.phase = "committed"
      BY <2>2, RecordIsWritten DEF Phases
    <3> QED
      BY <1>1, <1>8, <2>2, <3>1
      DEF CommitUninstall, At, Goto, UninstallState, UninstallLines, UninstallBody,
          Tombstones, InPlace, Removed, TargetIn, TargetOut, BackupIn, BackupOut,
          BothGone, Decided, Committed, WholeBundle, Now, Before
  <2> QED
    BY <1>8, <2>1, <2>2 DEF CommitUninstall, Record
<1>9. CASE RestorePrevious
  <2>1. CASE Throw /\ UNCHANGED dirs
    BY <1>1, <2>1, UninstallThrows
  <2>2. CASE Move("removedPrevious", "previous") /\ flags' = flags \cup {} /\ Goto("u_catch_current") /\ UNCHANGED journal
             /\ dirs["previous"] = None /\ ~Decided
    <3>1. /\ dirs'["removedPrevious"] = None /\ dirs'["previous"] = dirs["removedPrevious"]
          /\ \A d \in Names \ {"removedPrevious", "previous"} : dirs'[d] = dirs[d]
      BY <2>2, MoveIsExact DEF Names
    <3>2. txn' = txn /\ flags' = flags /\ journal' = journal /\ pc' = "u_catch_current" /\ outcome' = outcome
      BY <2>2 DEF Goto
    <3> QED
      BY <1>1, <1>9, <2>2, <3>1, <3>2
      DEF RestorePrevious, At, Move, Exists, Names, UninstallState, UninstallLines,
          UninstallBody, Tombstones, InPlace, Removed, TargetIn, TargetOut,
          BackupIn, BackupOut, BothGone, Decided, Committed, WholeBundle
  <2>3. journal # None
    BY <1>9 DEF RestorePrevious, At, UninstallState, UninstallLines, UninstallBody
  <2>4. CASE ~Decided /\ ~Exists("previous") /\ Exists("removedPrevious")
    <3>1. MoveTo("removedPrevious", "previous", {}, "u_catch_current")
      BY <1>9, <2>4 DEF RestorePrevious, Decided
    <3>2. dirs["previous"] = None
      BY <1>9, <2>4
      DEF RestorePrevious, At, Exists, UninstallState, UninstallLines,
          UninstallBody, Tombstones, InPlace, Removed, TargetIn, TargetOut,
          BackupIn, BackupOut, BothGone, Decided, Committed, WholeBundle
    <3> QED
      BY <2>1, <2>2, <2>4, <3>1, <3>2 DEF MoveTo
  <2>5. CASE ~(~Decided /\ ~Exists("previous") /\ Exists("removedPrevious"))
    <3>1. Skip("u_catch_current") /\ pc = "u_catch"
      BY <1>9, <2>5 DEF RestorePrevious, At, Decided
    <3>2. /\ dirs' = dirs /\ journal' = journal /\ flags' = flags /\ txn' = txn
          /\ outcome' = outcome /\ pc' = "u_catch_current"
      BY <3>1 DEF Skip, Goto
    <3> QED
      BY <1>1, <2>3, <2>5, <3>1, <3>2
      DEF Exists, UninstallState, UninstallLines, UninstallBody, Tombstones,
          InPlace, Removed, TargetIn, TargetOut, BackupIn, BackupOut, BothGone,
          Decided, Committed, WholeBundle
  <2> QED
    BY <2>4, <2>5
<1>10. CASE RestoreCurrent
  <2>1. CASE Throw /\ UNCHANGED dirs
    BY <1>1, <2>1, UninstallThrows
  <2>2. CASE Move("removed", "target") /\ flags' = flags \cup {} /\ Goto("u_catch_journal") /\ UNCHANGED journal
             /\ dirs["target"] = None /\ ~Decided
    <3>1. /\ dirs'["removed"] = None /\ dirs'["target"] = dirs["removed"]
          /\ \A d \in Names \ {"removed", "target"} : dirs'[d] = dirs[d]
      BY <2>2, MoveIsExact DEF Names
    <3>2. txn' = txn /\ flags' = flags /\ journal' = journal /\ pc' = "u_catch_journal" /\ outcome' = outcome
      BY <2>2 DEF Goto
    <3> QED
      BY <1>1, <1>10, <2>2, <3>1, <3>2
      DEF RestoreCurrent, At, Move, Exists, Names, UninstallState, UninstallLines,
          UninstallBody, Tombstones, InPlace, Removed, TargetIn, TargetOut,
          BackupIn, BackupOut, BothGone, Decided, Committed, WholeBundle
  <2>3. journal # None
    BY <1>10 DEF RestoreCurrent, At, UninstallState, UninstallLines, UninstallBody
  <2>4. CASE ~Decided /\ ~Exists("target") /\ Exists("removed")
    <3>1. MoveTo("removed", "target", {}, "u_catch_journal")
      BY <1>10, <2>4 DEF RestoreCurrent, Decided
    <3>2. dirs["target"] = None
      BY <1>10, <2>4
      DEF RestoreCurrent, At, Exists, UninstallState, UninstallLines, UninstallBody,
          Tombstones, InPlace, Removed, TargetIn, TargetOut, BackupIn, BackupOut,
          BothGone, Decided, Committed, WholeBundle
    <3> QED
      BY <2>1, <2>2, <2>4, <3>1, <3>2 DEF MoveTo
  <2>5. CASE ~(~Decided /\ ~Exists("target") /\ Exists("removed"))
    <3>1. Skip("u_catch_journal") /\ pc = "u_catch_current"
      BY <1>10, <2>5 DEF RestoreCurrent, At, Decided
    <3>2. /\ dirs' = dirs /\ journal' = journal /\ flags' = flags /\ txn' = txn
          /\ outcome' = outcome /\ pc' = "u_catch_journal"
      BY <3>1 DEF Skip, Goto
    <3> QED
      BY <1>1, <2>3, <2>5, <3>1, <3>2
      DEF Exists, UninstallState, UninstallLines, UninstallBody, Tombstones,
          InPlace, Removed, TargetIn, TargetOut, BackupIn, BackupOut, BothGone,
          Decided, Committed, WholeBundle
  <2> QED
    BY <2>4, <2>5
<1>11. CASE AbandonUninstall
  <2>1. CASE Throw /\ UNCHANGED dirs
    BY <1>1, <2>1, UninstallThrows
  <2>2. CASE journal' = None /\ Goto("failed") /\ UNCHANGED <<dirs, flags>>
    BY <1>1, <1>11, <2>2
    DEF AbandonUninstall, At, Goto, UninstallState, UninstallLines, UninstallBody,
        Tombstones, InPlace, Removed, TargetIn, TargetOut, BackupIn, BackupOut,
        BothGone, Decided, Committed, WholeBundle, Now, Before
  <2> QED
    BY <1>11, <2>1, <2>2 DEF AbandonUninstall, Forget
<1>12. CASE DropPrevious
  BY <1>12, TombstoneSwept DEF DropPrevious, At, UninstallState, Tombstones
<1>13. CASE DropCurrent
  BY <1>13, TombstoneSwept DEF DropCurrent, At, UninstallState, Tombstones
<1>14. CASE ClearUninstall
  <2>1. CASE Throw /\ UNCHANGED dirs
    BY <1>1, <2>1, UninstallThrows
  <2>2. CASE journal' = None /\ Goto("done") /\ UNCHANGED <<dirs, flags>>
    BY <1>1, <1>14, <2>2
    DEF ClearUninstall, At, Goto, UninstallState, UninstallLines, UninstallBody,
        Tombstones, InPlace, Removed, TargetIn, TargetOut, BackupIn, BackupOut,
        BothGone, Decided, Committed, WholeBundle, Now, Before
  <2>3. CASE Skip("done")
    BY <1>1, <1>14, <2>3, CommittedStays
    DEF ClearUninstall, At, Skip, Goto, UninstallState
  <2> QED
    BY <1>14, <2>1, <2>2, <2>3 DEF ClearUninstall, Forget
<1>15. CASE RecoverUninstall
  <2>1. CASE Throw /\ UNCHANGED dirs
    BY <1>1, <2>1, UninstallThrows
  <2>2. journal # None
    BY <1>15 DEF RecoverUninstall, At, UninstallState, UninstallLines
  <2>3. CASE Committed
    <3>1. RemoveOwned("removed", "r_tombstone") /\ pc = "r_uninstall"
      BY <1>15, <2>3 DEF RecoverUninstall, At, Committed
    <3> QED
      BY <2>3, <3>1, TombstoneRecovered
  <2>4. CASE Move("removed", "target") /\ flags' = flags \cup {} /\ Goto("r_previous") /\ UNCHANGED journal
             /\ dirs["target"] = None /\ ~Committed
    <3>1. /\ dirs'["removed"] = None /\ dirs'["target"] = dirs["removed"]
          /\ \A d \in Names \ {"removed", "target"} : dirs'[d] = dirs[d]
      BY <2>4, MoveIsExact DEF Names
    <3>2. txn' = txn /\ flags' = flags /\ journal' = journal /\ pc' = "r_previous" /\ outcome' = outcome
      BY <2>4 DEF Goto
    <3> QED
      BY <1>1, <1>15, <2>4, <3>1, <3>2
      DEF RecoverUninstall, At, Move, Exists, Names, UninstallState, UninstallLines,
          UninstallBody, Tombstones, InPlace, Removed, TargetIn, TargetOut,
          BackupIn, BackupOut, BothGone, Decided, Committed, WholeBundle
  <2>5. CASE ~Committed /\ ~Exists("target") /\ Exists("removed")
    <3>1. MoveTo("removed", "target", {}, "r_previous")
      BY <1>15, <2>2, <2>5
      DEF RecoverUninstall, At, Return, Owned, Exists, UninstallState,
          UninstallLines, UninstallBody, Tombstones, InPlace, Removed, TargetIn,
          TargetOut, BackupIn, BackupOut, BothGone, Decided, Committed, WholeBundle,
          Now, Before
    <3> QED
      BY <2>1, <2>4, <2>5, <3>1 DEF MoveTo, Exists
  <2>6. CASE ~Committed /\ ~(~Exists("target") /\ Exists("removed"))
    <3>1. Skip("r_previous")
      BY <1>15, <2>2, <2>6 DEF RecoverUninstall, Committed
    <3> QED
      BY <1>1, <2>2, <2>6, <3>1
      DEF Skip, Goto, Exists, UninstallState, UninstallLines, UninstallBody,
          Tombstones, InPlace, Removed, TargetIn, TargetOut, BackupIn, BackupOut,
          BothGone, Decided, Committed, WholeBundle, Now, Before
  <2> QED
    BY <2>3, <2>5, <2>6
<1>16. CASE CleanTombstone
  BY <1>16, TombstoneRecovered DEF CleanTombstone, At, UninstallState
<1>17. CASE RecoverPrevious
  <2>1. CASE Throw /\ UNCHANGED dirs
    BY <1>1, <2>1, UninstallThrows
  <2>2. CASE Move("removedPrevious", "previous") /\ flags' = flags \cup {} /\ Goto("r_clear") /\ UNCHANGED journal
             /\ dirs["previous"] = None
    <3>1. /\ dirs'["removedPrevious"] = None /\ dirs'["previous"] = dirs["removedPrevious"]
          /\ \A d \in Names \ {"removedPrevious", "previous"} : dirs'[d] = dirs[d]
      BY <2>2, MoveIsExact DEF Names
    <3>2. txn' = txn /\ flags' = flags /\ journal' = journal /\ pc' = "r_clear" /\ outcome' = outcome
      BY <2>2 DEF Goto
    <3> QED
      BY <1>1, <1>17, <2>2, <3>1, <3>2
      DEF RecoverPrevious, At, Move, Exists, Names, UninstallState, UninstallLines,
          UninstallBody, Tombstones, InPlace, Removed, TargetIn, TargetOut,
          BackupIn, BackupOut, BothGone, Decided, Committed, WholeBundle
  <2>3. journal # None /\ ~Committed /\ TargetIn /\ (BackupIn \/ BackupOut)
    BY <1>17 DEF RecoverPrevious, At, UninstallState, UninstallLines
  <2>4. CASE ~Exists("previous") /\ Exists("removedPrevious")
    <3>1. MoveTo("removedPrevious", "previous", {}, "r_clear")
      BY <1>17, <2>3, <2>4
      DEF RecoverPrevious, Return, Owned, Exists, UninstallState, UninstallLines,
          UninstallBody, Tombstones, InPlace, Removed, TargetIn, TargetOut,
          BackupIn, BackupOut, BothGone, Decided, Committed, WholeBundle, Now,
          Before
    <3> QED
      BY <2>1, <2>2, <2>4, <3>1 DEF MoveTo, Exists
  <2>5. CASE ~(~Exists("previous") /\ Exists("removedPrevious"))
    <3>1. Skip("r_clear")
      BY <1>17, <2>5 DEF RecoverPrevious
    <3> QED
      BY <1>1, <2>3, <2>5, <3>1
      DEF Skip, Goto, Exists, UninstallState, UninstallLines, UninstallBody,
          Tombstones, InPlace, Removed, TargetIn, TargetOut, BackupIn, BackupOut,
          BothGone, Decided, Committed, WholeBundle, Now, Before
  <2> QED
    BY <2>4, <2>5
<1> QED
  BY <1>2, <1>3, <1>4, <1>5, <1>6, <1>7, <1>8, <1>9, <1>10, <1>11, <1>12, <1>13,
     <1>14, <1>15, <1>16, <1>17
  DEF Uninstall, RecoveryOfUninstall

LEMMA UninstallInductive == TypeInv /\ UninstallInv /\ [Next]_vars => UninstallInv'
<1> SUFFICES ASSUME TypeInv, UninstallInv, [Next]_vars, txn'.op = "uninstall"
             PROVE  UninstallState'
  BY DEF UninstallInv
<1> USE NoneAssumption
<1>1. CASE StartInstall \/ StartRollback
  BY <1>1 DEF StartInstall, StartRollback, Begin
<1>2. CASE StartUninstall
  BY <1>2, UninstallBegins
<1>3. CASE StartRecover
  <2>1. journal # None /\ journal \in Journal /\ journal.op = txn.op
    BY <1>3 DEF StartRecover, TypeInv, TypeOK
  <2>2. txn' = txn /\ dirs' = dirs /\ journal' = journal /\ flags' = flags
        /\ outcome' = "running" /\ pc = "idle"
    BY <1>3 DEF StartRecover
  <2>3. pc' = "r_uninstall"
    BY <1>3, <2>1, <2>2 DEF StartRecover
  <2> QED
    BY <2>1, <2>2, <2>3
    DEF UninstallInv, UninstallState, UninstallLines, UninstallBody, Tombstones,
        InPlace, Removed, TargetIn, TargetOut, BackupIn, BackupOut, BothGone,
        Decided, Committed, WholeBundle, Now, Before
<1>4. CASE Install \/ RecoveryOfInstall
  BY <1>4, InstallKeeps
<1>5. CASE Rollback \/ RecoveryOfRollback
  BY <1>5, RollbackKeeps
<1>6. CASE Uninstall \/ RecoveryOfUninstall
  BY <1>6, UninstallKeeps, UninstallStep DEF UninstallInv
<1>7. CASE EndRecovery
  <2>1. CASE Throw /\ UNCHANGED dirs
    <3>1. txn' = txn
      BY <2>1 DEF Throw
    <3> QED
      BY <1>7, <2>1, <3>1, UninstallThrows DEF EndRecovery, At, UninstallInv
  <2>2. CASE /\ journal' = None
             /\ pc' = "idle"
             /\ outcome' = IF journal.phase = "committed" THEN "cleaned" ELSE "restored"
             /\ UNCHANGED <<dirs, flags, txn, history>>
    BY <1>7, <2>2
    DEF EndRecovery, At, UninstallInv, UninstallState, UninstallLines,
        UninstallBody, Tombstones, InPlace, Removed, TargetIn, TargetOut, BackupIn,
        BackupOut, BothGone, Decided, Committed, WholeBundle, Now, Before
  <2> QED
    BY <1>7, <2>1, <2>2 DEF EndRecovery
<1>8. CASE Ending
  BY <1>8
  DEF Ending, End, UninstallInv, UninstallState, UninstallLines, UninstallBody,
      Tombstones, InPlace, Removed, TargetIn, TargetOut, BackupIn, BackupOut,
      BothGone, Decided, Committed, WholeBundle, Now, Before
<1>9. CASE Crash
  BY <1>9
  DEF Crash, Stop, UninstallInv, UninstallState, UninstallLines, UninstallBody,
      Tombstones, InPlace, Removed, TargetIn, TargetOut, BackupIn, BackupOut,
      BothGone, Decided, Committed, WholeBundle, Now, Before
<1>10. CASE UNCHANGED vars
  BY <1>10
  DEF vars, UninstallInv, UninstallState, UninstallLines, UninstallBody, Tombstones,
      InPlace, Removed, TargetIn, TargetOut, BackupIn, BackupOut, BothGone, Decided,
      Committed, WholeBundle, Now, Before
<1> QED
  BY <1>1, <1>2, <1>3, <1>4, <1>5, <1>6, <1>7, <1>8, <1>9, <1>10 DEF Next, Recover

(***************************************************************************)
(* An uninstall ends with both bundles in place or with none, and only a   *)
(* committed one can be refused its recovery.                              *)
(***************************************************************************)
THEOREM UninstallSafe == Spec => []UninstallAllOrNothing
<1>1. Init => UninstallInv
  BY DEF Init, UninstallInv
<1>2. UninstallInv => UninstallAllOrNothing
  BY DEF UninstallInv, UninstallState, UninstallAllOrNothing, Settled, Committed
<1> QED
  BY <1>1, <1>2, TypeInitial, TypeInductive, UninstallInductive, PTL DEF Spec

----------------------------------------------------------------------------
(* Install. *)

Mishaps == crashes + failures
Trio(target, previous, retired) ==
    dirs["target"] = target /\ dirs["previous"] = previous /\ dirs["retired"] = retired

\* The four arrangements an install goes through.  An install without an
\* active bundle goes from the first to the last.
Unmoved == Trio(txn.target, txn.previous, None)
SetAside == Trio(txn.target, None, txn.previous)
Rotated == Trio(None, txn.target, txn.previous)
Replaced == Trio(Candidate, txn.target, txn.previous)

\* The backup as it was, or what is left of it once its removal has begun.
Backup(b) == b = txn.previous \/ ("scanned" \in flags /\ (txn.previous = None => b = None))

Restored == dirs["target"] = txn.target /\ Backup(dirs["previous"])
Upgraded == dirs["target"] = Candidate /\ dirs["previous"] = txn.target

PhaseIn(phases) == journal # None /\ journal.phase \in phases
Early == {"prepared", "previous_retired", "current_rotated"}

InstallPair ==
    /\ txn.target # None => WholeBundle(txn.target)
    /\ txn.target = None => txn.previous = None
    /\ Mishaps = 0 /\ txn.previous # None => WholeBundle(txn.previous)
    /\ journal # None => journal.had = (txn.target # None)

RetiredFlag == IF txn.previous # None THEN {"retired"} ELSE {}
RotatedFlag == IF txn.target # None THEN {"rotated"} ELSE {}

BodyState ==
    /\ dirs["failed"] = None /\ dirs["recovery"] = None
    /\ dirs["stage"] = IF pc \in {"prepare", "retire", "note_retired", "rotate",
                                  "note_rotated", "activate"}
                       THEN Candidate ELSE None
    /\ pc \in {"stage", "prepare", "retire"} => Unmoved /\ flags = {}
    /\ pc \in {"note_retired", "rotate"} => SetAside /\ flags = RetiredFlag
    /\ pc = "note_retired" => txn.target # None /\ txn.previous # None
    /\ pc \in {"note_rotated", "activate"} => Rotated /\ flags = RetiredFlag \cup RotatedFlag
    /\ pc = "note_rotated" => txn.target # None
    /\ pc \in {"note_activated", "scan"} =>
         Replaced /\ flags = RetiredFlag \cup RotatedFlag \cup {"activated"}
    /\ pc = "drop_retired" =>
         Replaced /\ flags = RetiredFlag \cup RotatedFlag \cup {"activated", "scanned"}
    /\ pc \in {"commit", "clear"} =>
         Trio(Candidate, txn.target, None) /\ flags = RotatedFlag \cup {"activated", "scanned"}
    /\ pc \notin {"stage", "prepare", "retire"} /\ txn.previous # None =>
         WholeBundle(txn.previous)
    /\ IF pc \in {"stage", "prepare"} THEN journal = None
       ELSE IF pc \in {"scan", "drop_retired", "commit"} THEN PhaseIn({"candidate_activated"})
       ELSE IF pc = "clear" THEN PhaseIn({"committed"})
       ELSE PhaseIn(Early)

\* What the catch block still has to undo.
RetiredHeld ==
    IF "retired" \in flags
    THEN dirs["previous"] = None /\ dirs["retired"] # None /\ Backup(dirs["retired"])
    ELSE Backup(dirs["previous"])

RotatedHeld ==
    IF "rotated" \in flags
    THEN /\ txn.target # None
         /\ dirs["target"] = None /\ dirs["previous"] = txn.target
         /\ Backup(dirs["retired"])
         /\ "retired" \in flags <=> dirs["retired"] # None
    ELSE dirs["target"] = txn.target /\ RetiredHeld

ActivatedHeld ==
    IF "activated" \in flags
    THEN /\ dirs["target"] = Candidate /\ dirs["previous"] = txn.target
         /\ "rotated" \in flags <=> txn.target # None
         /\ Backup(dirs["retired"])
         /\ "retired" \in flags <=> dirs["retired"] # None
         /\ dirs["failed"] = None
    ELSE RotatedHeld

CatchState ==
    /\ Mishaps = 1 /\ "threw" \in flags
    /\ pc = "catch" => ActivatedHeld
    /\ pc = "catch_rotated" => RotatedHeld
    /\ pc = "catch_retired" => dirs["target"] = txn.target /\ RetiredHeld
    /\ pc \in {"catch_failed", "catch_journal"} => Restored

\* Nothing is left to do but to remove what is in the way.
Finally == {"finally_stage", "finally_failed", "finally_retired", "done", "failed"}
Over ==
    \/ Restored /\ Mishaps = 1
    \/ Upgraded /\ ("scanned" \in flags \/ crashes = 1)

\* The recovery of what a crash left.
Staged == dirs["stage"] \in {None, Candidate}
Refused ==
    /\ PhaseIn({"candidate_activated"})
    /\ txn.target # None
    /\ dirs["target"] = txn.target /\ dirs["previous"] = None
    /\ dirs["retired"] # None /\ ~dirs["retired"].whole

ActivatedLeft ==
    /\ PhaseIn({"candidate_activated"})
    /\ \/ Upgraded /\ Backup(dirs["retired"])
       \/ Refused

Interrupted ==
    \/ PhaseIn(Early) /\ (Unmoved \/ SetAside \/ Rotated \/ Replaced)
    \/ ActivatedLeft
    \/ PhaseIn({"committed"}) /\ Upgraded /\ dirs["retired"] = None

RecoveryLines == {"r_install", "r_activated", "r_back", "r_scrap", "r_retired",
                  "r_stage", "r_commit_stage", "r_commit_retired", "r_clear"}

RecoveryState ==
    /\ crashes = 1 /\ journal # None /\ Staged
    /\ txn.previous # None => WholeBundle(txn.previous)
    /\ pc \in {"idle", "r_install"} => Interrupted
    /\ pc \notin {"r_back", "r_scrap"} => dirs["recovery"] = None
    /\ pc = "r_activated" => ActivatedLeft
    /\ pc = "r_back" =>
         /\ PhaseIn({"candidate_activated"}) /\ txn.target # None
         /\ dirs["target"] = None /\ dirs["previous"] = txn.target
         /\ Backup(dirs["retired"]) /\ dirs["recovery"] = Candidate
    /\ pc = "r_scrap" =>
         /\ PhaseIn({"candidate_activated"}) /\ txn.target # None
         /\ dirs["target"] = txn.target /\ dirs["previous"] = None
         /\ Backup(dirs["retired"]) /\ dirs["recovery"] = Candidate
    /\ pc = "r_retired" =>
         \/ PhaseIn(Early) /\ (Unmoved \/ SetAside \/ Replaced)
         \/ /\ PhaseIn({"candidate_activated"})
            /\ dirs["target"] = txn.target /\ dirs["previous"] = None
            /\ Backup(dirs["retired"])
    /\ pc \in {"r_commit_stage", "r_commit_retired"} =>
         Upgraded /\ dirs["retired"] = None
    /\ pc \in {"r_stage", "r_clear"} => Restored \/ Upgraded

InstallState ==
    /\ InstallPair
    /\ pc \in Body => BodyState
    /\ pc \in CatchBlock => CatchState
    /\ pc \in Finally \/ (pc = "idle" /\ journal = None) => journal = None /\ Over
    /\ pc \in RecoveryLines \/ (pc = "idle" /\ journal # None) => RecoveryState

----------------------------------------------------------------------------
(* The lines of the four families. *)

LEMMA InstallFamilies ==
  /\ Body \cap (CatchBlock \cup Finally \cup RecoveryLines \cup {"idle"}) = {}
  /\ CatchBlock \cap (Finally \cup RecoveryLines \cup {"idle"}) = {}
  /\ Finally \cap (RecoveryLines \cup {"idle"}) = {}
  /\ "idle" \notin RecoveryLines
BY DEF Body, CatchBlock, Finally, RecoveryLines

LEMMA ToBody ==
  ASSUME pc' \in Body, InstallPair', BodyState'
  PROVE  InstallState'
BY InstallFamilies DEF InstallState

LEMMA ToCatch ==
  ASSUME pc' \in CatchBlock, InstallPair', CatchState'
  PROVE  InstallState'
BY InstallFamilies DEF InstallState

LEMMA ToOver ==
  ASSUME pc' \in Finally \cup {"idle"}, journal' = None, InstallPair', Over'
  PROVE  InstallState'
BY InstallFamilies DEF InstallState

LEMMA ToRecovery ==
  ASSUME \/ pc' \in RecoveryLines
         \/ pc' = "idle" /\ journal' # None,
         InstallPair', RecoveryState'
  PROVE  InstallState'
BY InstallFamilies DEF InstallState

LEMMA CandidateIsWhole == TypeInv => WholeBundle(Candidate) /\ Candidate # None
<1> SUFFICES ASSUME TypeInv PROVE WholeBundle(Candidate) /\ Candidate # None
  OBVIOUS
<1>1. Candidate \in Bundle
  BY DEF TypeInv, TypeOK, Candidate, Bundle
<1>2. Candidate.whole
  BY DEF Candidate
<1> QED
  BY <1>1, <1>2, NoneAssumption DEF WholeBundle

\* What the transaction was given does not change while it runs.
LEMMA PairKept ==
  ASSUME TypeInv, InstallPair, txn' = txn, Mishaps' = 0 => Mishaps = 0,
         \/ journal' = journal
         \/ journal' = None
         \/ journal' # None /\ journal'.had = (txn.target # None)
  PROVE  InstallPair'
BY DEF InstallPair, WholeBundle

LEMMA InstallRecords ==
  ASSUME TypeInv, txn.op = "install", NEW phase \in Phases, WriteTransaction(phase)
  PROVE  /\ journal' # None /\ journal'.phase = phase
         /\ journal'.had = (txn.target # None)
<1>1. journal' # None /\ journal'.phase = phase
  BY RecordIsWritten
<1> QED
  BY <1>1 DEF WriteTransaction

----------------------------------------------------------------------------
(* A failure or a crash. *)

\* An error of a line of the body leads to the catch block, which finds the
\* arrangement that the flags say.
LEMMA BodyCaught ==
  ASSUME TypeInv, InstallState, pc \in Body, flags' = flags \cup {"threw"},
         txn' = txn, made' = made, UNCHANGED dirs, pc' = "catch", Mishaps' = 1
  PROVE  CatchState'
<1> USE DEF Body, CatchBlock
<1>1. BodyState /\ InstallPair
  BY DEF InstallState
<1>2. Candidate' = Candidate /\ Candidate # None
  BY CandidateIsWhole DEF Candidate
<1>3. "threw" \in flags' /\ \A f \in {"activated", "rotated", "retired", "scanned"} :
          f \in flags' <=> f \in flags
  OBVIOUS
<1>4. CASE pc \in {"stage", "prepare", "retire"}
  BY <1>1, <1>2, <1>3, <1>4
  DEF BodyState, CatchState, ActivatedHeld, RotatedHeld, RetiredHeld, Backup,
      Unmoved, Trio
<1>5. CASE pc \in {"note_retired", "rotate"}
  BY <1>1, <1>2, <1>3, <1>5
  DEF BodyState, CatchState, ActivatedHeld, RotatedHeld, RetiredHeld, Backup,
      SetAside, Trio, RetiredFlag
<1>6. CASE pc \in {"note_rotated", "activate"}
  BY <1>1, <1>2, <1>3, <1>6
  DEF BodyState, CatchState, ActivatedHeld, RotatedHeld, RetiredHeld, Backup,
      Rotated, Trio, RetiredFlag, RotatedFlag, InstallPair
<1>7. CASE pc \in {"note_activated", "scan"}
  BY <1>1, <1>2, <1>3, <1>7
  DEF BodyState, CatchState, ActivatedHeld, Backup,
      Replaced, Trio, RetiredFlag, RotatedFlag
<1>8. CASE pc = "drop_retired"
  BY <1>1, <1>2, <1>3, <1>8
  DEF BodyState, CatchState, ActivatedHeld, Backup,
      Replaced, Trio, RetiredFlag, RotatedFlag
<1>9. CASE pc \in {"commit", "clear"}
  BY <1>1, <1>2, <1>3, <1>9
  DEF BodyState, CatchState, ActivatedHeld, Backup,
      Trio, RetiredFlag, RotatedFlag
<1> QED
  BY <1>4, <1>5, <1>6, <1>7, <1>8, <1>9

\* After the body nothing the transaction promises can be disturbed.
LEMMA OverKept ==
  ASSUME TypeInv, InstallState, pc \in Finally \cup {"idle"}, journal = None,
         txn' = txn, made' = made, journal' = journal, flags' = flags,
         dirs'["target"] = dirs["target"], dirs'["previous"] = dirs["previous"],
         pc' \in Finally \cup {"idle"},
         \/ Mishaps' = Mishaps /\ crashes' = crashes
         \/ Mishaps = 0 /\ crashes = 0
  PROVE  InstallState'
<1>1. Over /\ InstallPair
  BY DEF InstallState
<1>2. Candidate' = Candidate
  BY DEF Candidate
<1>3. InstallPair'
  BY <1>1, PairKept
<1>4. Over'
  BY <1>1, <1>2 DEF Over, Restored, Upgraded, Backup
<1> QED
  BY <1>3, <1>4, ToOver

\* The lines of an installation.
LEMMA InstallPlaces ==
  ASSUME TypeInv, txn.op = "install"
  PROVE  pc \in Body \cup CatchBlock \cup Finally \cup RecoveryLines \cup {"idle"}
<1>1. pc \in Lines /\ pc \notin RollbackLines /\ pc \notin UninstallLines
  BY DEF TypeInv, Fits
<1> QED
  BY <1>1 DEF Lines, Finally, RecoveryLines, RollbackLines, UninstallLines

LEMMA FirstMishap ==
  ASSUME TypeInv, Mishaps' <= 1, Throw \/ Stop
  PROVE  /\ Mishaps = 0 /\ crashes = 0 /\ failures = 0 /\ Mishaps' = 1
         /\ Stop => crashes' = 1
  BY DEF TypeInv, TypeOK, Throw, Stop, Mishaps

\* Only the body and the clean-up are left to a first mishap.
LEMMA CalmPlaces ==
  ASSUME TypeInv, txn.op = "install", InstallState, Mishaps = 0, crashes = 0, pc # "idle"
  PROVE  pc \in Body \cup Finally
<1>1. pc \notin CatchBlock /\ pc \notin RecoveryLines
  BY DEF InstallState, CatchState, RecoveryState
<1> QED
  BY <1>1, InstallPlaces

LEMMA InstallThrows ==
  ASSUME TypeInv, txn.op = "install", InstallState, Mishaps' <= 1, pc # "idle",
         Throw,
         \/ UNCHANGED dirs
         \/ /\ pc \in Finally
            /\ dirs'["target"] = dirs["target"] /\ dirs'["previous"] = dirs["previous"]
  PROVE  InstallState'
<1>1. /\ Mishaps = 0 /\ crashes = 0 /\ Mishaps' = 1 /\ pc \in Body \cup Finally
  BY FirstMishap, CalmPlaces
<1>2. txn' = txn /\ made' = made /\ journal' = journal /\ ToHandler
  BY DEF Throw
<1>3. InstallPair /\ InstallPair'
  BY <1>1, <1>2, PairKept DEF InstallState
<1>4. CASE pc \in Body
  <2>1. pc' = "catch" /\ flags' = flags \cup {"threw"}
    BY <1>2, <1>4 DEF Throw, ToHandler, Body, CatchBlock, RollbackBody,
       UninstallBody, Tombstones, Guarded
  <2>2. UNCHANGED dirs
    BY <1>4, InstallFamilies
  <2>3. CatchState'
    BY <1>1, <1>2, <1>4, <2>1, <2>2, BodyCaught
  <2> QED
    BY <1>3, <2>1, <2>3, ToCatch DEF CatchBlock
<1>5. CASE pc \in Finally
  <2>1. pc' = "failed" /\ flags' = flags
    BY <1>2, <1>5 DEF Throw, ToHandler, Body, CatchBlock, RollbackBody,
       UninstallBody, Tombstones, Guarded, Finally
  <2>2. pc' \in Finally /\ journal = None
    BY <1>5, <2>1 DEF Finally, InstallState
  <2> QED
    BY <1>1, <1>2, <1>5, <2>1, <2>2, OverKept
<1> QED
  BY <1>1, <1>4, <1>5

LEMMA InstallStops ==
  ASSUME TypeInv, txn.op = "install", InstallState, Mishaps' <= 1, pc # "idle",
         Stop,
         \/ UNCHANGED dirs
         \/ /\ pc \in Finally
            /\ dirs'["target"] = dirs["target"] /\ dirs'["previous"] = dirs["previous"]
  PROVE  InstallState'
<1> USE NoneAssumption
<1>1. /\ Mishaps = 0 /\ crashes = 0 /\ Mishaps' = 1 /\ crashes' = 1
      /\ pc \in Body \cup Finally
  BY FirstMishap, CalmPlaces
<1>2. /\ txn' = txn /\ made' = made /\ journal' = journal /\ flags' = flags
      /\ pc' = "idle"
  BY DEF Stop
<1>3. InstallPair /\ InstallPair'
  BY <1>1, <1>2, PairKept DEF InstallState
<1>4. Candidate' = Candidate /\ Candidate # None /\ Candidate.whole
  BY <1>2, CandidateIsWhole DEF Candidate, WholeBundle
<1>5. CASE pc \in Body
  <2>1. BodyState /\ UNCHANGED dirs
    BY <1>5, InstallFamilies DEF InstallState
  <2>2. CASE pc \in {"stage", "prepare"}
    <3>1. journal = None /\ Unmoved
      BY <2>1, <2>2 DEF BodyState
    <3>2. Over'
      BY <1>1, <1>2, <2>1, <3>1 DEF Unmoved, Trio, Over, Restored, Backup
    <3> QED
      BY <1>2, <1>3, <3>1, <3>2, ToOver
  <2>3. CASE pc \notin {"stage", "prepare"}
    <3>1. journal # None
      BY <1>5, <2>1, <2>3 DEF BodyState, PhaseIn, Body
    <3>2. Interrupted'
      <4>1. CASE pc = "retire"
        BY <1>2, <2>1, <4>1 DEF BodyState, Interrupted, Unmoved, Trio, PhaseIn
      <4>2. CASE pc \in {"note_retired", "rotate"}
        BY <1>2, <2>1, <4>2 DEF BodyState, Interrupted, SetAside, Trio, PhaseIn
      <4>3. CASE pc \in {"note_rotated", "activate"}
        BY <1>2, <2>1, <4>3 DEF BodyState, Interrupted, Rotated, Trio, PhaseIn
      <4>4. CASE pc = "note_activated"
        BY <1>2, <1>4, <2>1, <4>4 DEF BodyState, Interrupted, Replaced, Trio, PhaseIn
      <4>5. CASE pc \in {"scan", "drop_retired"}
        BY <1>2, <1>4, <2>1, <4>5
        DEF BodyState, Interrupted, ActivatedLeft, Upgraded, Backup, Replaced, Trio,
            PhaseIn
      <4>6. CASE pc = "commit"
        BY <1>2, <1>4, <2>1, <4>6
        DEF BodyState, Interrupted, ActivatedLeft, Upgraded, Backup, Trio, PhaseIn,
            RotatedFlag
      <4>7. CASE pc = "clear"
        BY <1>2, <1>4, <2>1, <4>7 DEF BodyState, Interrupted, Upgraded, Trio, PhaseIn
      <4> QED
        BY <1>5, <2>3, <4>1, <4>2, <4>3, <4>4, <4>5, <4>6, <4>7 DEF Body
    <3>3. Staged' /\ dirs'["recovery"] = None
      BY <1>4, <2>1 DEF BodyState, Staged
    <3>4. RecoveryState'
      BY <1>1, <1>2, <1>3, <3>1, <3>2, <3>3 DEF RecoveryState, InstallPair, WholeBundle
    <3> QED
      BY <1>2, <1>3, <3>1, <3>4, ToRecovery
  <2> QED
    BY <2>2, <2>3
<1>6. CASE pc \in Finally
  <2>1. pc' \in Finally \cup {"idle"} /\ journal = None
    BY <1>2, <1>6 DEF InstallState
  <2> QED
    BY <1>1, <1>2, <1>6, <2>1, OverKept
<1> QED
  BY <1>1, <1>5, <1>6

----------------------------------------------------------------------------
(* The script. *)

\* What the first installation of all finds.
Fresh ==
    /\ dirs["target"] = None => dirs["previous"] = None
    /\ dirs["previous"] # None => WholeBundle(dirs["previous"])

LEMMA InstallBegins ==
  ASSUME TypeInv, StartInstall,
         dirs["target"] = None => dirs["previous"] = None,
         Mishaps = 0 /\ dirs["previous"] # None => WholeBundle(dirs["previous"])
  PROVE  InstallState'
<1>1. /\ journal' = None /\ pc' = "stage" /\ flags' = {} /\ Mishaps' = Mishaps
      /\ txn'.target = dirs["target"] /\ txn'.previous = dirs["previous"]
  BY DEF StartInstall, Begin, history, Mishaps
<1>2. /\ dirs'["target"] = dirs["target"] /\ dirs'["previous"] = dirs["previous"]
      /\ \A d \in Names \ Kept : dirs'[d] = None
  BY DEF StartInstall, Begin, Names, Kept
<1>3. dirs["target"] # None => WholeBundle(dirs["target"])
  BY DEF StartInstall, Owned, Exists, TypeInv, TypeOK, Names, WholeBundle
<1>4. InstallPair'
  BY <1>1, <1>3 DEF InstallPair, WholeBundle
<1>5. BodyState'
  BY <1>1, <1>2 DEF BodyState, Unmoved, Trio, Names, Kept
<1> QED
  BY <1>1, <1>4, <1>5, ToBody DEF Body

\* A move to a free name, as it reads in InstallState.
LEMMA InstallMoves ==
  ASSUME TypeInv, NEW from \in Names, NEW to \in Names, NEW flag \in SUBSET Flags,
         NEW line, from # to, dirs[to] = None, Move(from, to),
         flags' = flags \cup flag, Goto(line), UNCHANGED journal
  PROVE  /\ dirs[from] # None
         /\ dirs'[from] = None /\ dirs'[to] = dirs[from]
         /\ \A d \in Names \ {from, to} : dirs'[d] = dirs[d]
         /\ pc' = line /\ flags' = flags \cup flag /\ journal' = journal
         /\ txn' = txn /\ Candidate' = Candidate
         /\ Mishaps' = Mishaps /\ crashes' = crashes
<1>1. dirs[from] # None
  BY DEF Move, Exists
<1> QED
  BY <1>1, MoveIsExact DEF Goto, history, Candidate, Mishaps

LEMMA OfInstall ==
  /\ {"target", "previous", "stage", "retired", "failed", "recovery"} \subseteq Names
  /\ \A f \in {"retired", "rotated", "activated"} : {f} \in SUBSET Flags
  /\ {} \in SUBSET Flags
BY DEF Names, Flags

\* A step that moves nothing.
LEMMA InstallGoes ==
  ASSUME TypeInv, NEW line, Goto(line), UNCHANGED dirs
  PROVE  /\ dirs' = dirs /\ pc' = line
         /\ txn' = txn /\ Candidate' = Candidate
         /\ Mishaps' = Mishaps /\ crashes' = crashes
BY DEF Goto, history, Candidate, Mishaps

\* The lines of the body.
LEMMA BodyStep ==
  ASSUME TypeInv, txn.op = "install", InstallState, Mishaps' <= 1, pc \in Body,
         \/ Stage \/ Prepare \/ RetirePrevious \/ NoteRetired \/ RotateCurrent
         \/ NoteRotated \/ Activate \/ NoteActivated \/ Scan \/ DropRetired
         \/ Commit \/ Clear
  PROVE  InstallState'
<1> USE NoneAssumption DEF Body
<1>0. InstallPair /\ BodyState /\ pc # "idle"
  BY InstallFamilies DEF InstallState
<1>a. Candidate # None /\ WholeBundle(Candidate)
  BY CandidateIsWhole
<1>t. ASSUME Throw /\ UNCHANGED dirs PROVE InstallState'
  BY <1>0, <1>t, InstallThrows
<1>1. CASE Stage
  <2>1. CASE /\ made' = made + 1
             /\ dirs' = [dirs EXCEPT !["stage"] = [v |-> made + 1, whole |-> TRUE]]
             /\ pc' = "prepare"
             /\ UNCHANGED <<journal, flags, txn, outcome, crashes, failures>>
    <3>1. pc = "stage" /\ Unmoved /\ flags = {} /\ journal = None
      BY <1>0, <1>1 DEF Stage, At, BodyState
    <3>2. /\ dirs'["stage"] = Candidate'
          /\ \A d \in Names \ {"stage"} : dirs'[d] = dirs[d]
      BY <2>1 DEF Candidate, TypeInv, TypeOK, Names
    <3>3. InstallPair'
      BY <1>0, <2>1, PairKept DEF Mishaps
    <3>4. BodyState'
      BY <1>0, <2>1, <3>1, <3>2 DEF BodyState, Unmoved, Trio, Names
    <3> QED
      BY <2>1, <3>3, <3>4, ToBody
  <2> QED
    BY <1>1, <1>t, <2>1 DEF Stage
<1>2. CASE Prepare
  <2>1. CASE WriteTransaction("prepared") /\ Goto("retire") /\ UNCHANGED <<dirs, flags>>
    <3>1. pc = "prepare"
      BY <1>2 DEF Prepare, At
    <3>2. journal' # None /\ journal'.phase = "prepared" /\ journal'.had = (txn.target # None)
      BY <2>1, InstallRecords DEF Phases
    <3>3. /\ dirs' = dirs /\ pc' = "retire" /\ txn' = txn /\ Candidate' = Candidate
          /\ Mishaps' = Mishaps
      BY <2>1, InstallGoes
    <3>4. InstallPair'
      BY <1>0, <3>2, <3>3, PairKept
    <3>5. BodyState'
      BY <1>0, <2>1, <3>1, <3>2, <3>3 DEF BodyState, Unmoved, Trio, PhaseIn, Early
    <3> QED
      BY <3>3, <3>4, <3>5, ToBody
  <2> QED
    BY <1>2, <1>t, <2>1 DEF Prepare, Record
<1>3. CASE RetirePrevious
  <2>0. pc = "retire" /\ Unmoved /\ flags = {} /\ PhaseIn(Early)
    BY <1>0, <1>3 DEF RetirePrevious, At, BodyState
  <2>1. CASE /\ Owned("previous") /\ txn.target # None
             /\ Move("previous", "retired") /\ flags' = flags \cup {"retired"}
             /\ Goto("note_retired") /\ UNCHANGED journal
    <3>1. dirs["retired"] = None
      BY <2>0 DEF Unmoved, Trio
    <3>2. /\ dirs["previous"] # None
          /\ dirs'["previous"] = None /\ dirs'["retired"] = dirs["previous"]
          /\ \A d \in Names \ {"previous", "retired"} : dirs'[d] = dirs[d]
          /\ pc' = "note_retired" /\ flags' = flags \cup {"retired"} /\ journal' = journal
          /\ txn' = txn /\ Candidate' = Candidate /\ Mishaps' = Mishaps
      BY <2>1, <3>1, InstallMoves, OfInstall
    <3>3. WholeBundle(txn.previous)
      BY <2>0, <2>1 DEF Unmoved, Trio, Owned, Exists, TypeInv, TypeOK, Names, WholeBundle
    <3>4. InstallPair'
      BY <1>0, <3>2, PairKept
    <3>5. BodyState'
      BY <1>0, <2>0, <2>1, <3>2, <3>3
      DEF BodyState, Unmoved, SetAside, Trio, PhaseIn, RetiredFlag, Names, WholeBundle
    <3> QED
      BY <3>2, <3>4, <3>5, ToBody
  <2>2. CASE ~Exists("previous") /\ Skip("rotate")
    <3>1. /\ dirs' = dirs /\ pc' = "rotate" /\ txn' = txn /\ Candidate' = Candidate
          /\ Mishaps' = Mishaps /\ journal' = journal /\ flags' = flags
      BY <2>2, InstallGoes DEF Skip
    <3>2. InstallPair'
      BY <1>0, <3>1, PairKept
    <3>3. BodyState'
      BY <1>0, <2>0, <2>2, <3>1
      DEF BodyState, Unmoved, SetAside, Trio, PhaseIn, RetiredFlag, Exists
    <3> QED
      BY <3>1, <3>2, <3>3, ToBody
  <2>3. CASE /\ Exists("previous") /\ ~(Owned("previous") /\ txn.target # None)
             /\ pc' = "catch"
             /\ flags' = flags \cup {"threw"}
             /\ UNCHANGED <<dirs, journal, txn, outcome, history>>
    <3>1. made' = made /\ txn' = txn /\ Mishaps' = Mishaps /\ journal' = journal
      BY <2>3 DEF history, Mishaps
    <3>2. ~WholeBundle(txn.previous) /\ txn.previous # None
      BY <1>0, <2>0, <2>3
      DEF Unmoved, Trio, Owned, Exists, WholeBundle, InstallPair
    <3>3. Mishaps' = 1
      BY <1>0, <3>1, <3>2 DEF InstallPair, Mishaps, TypeInv, TypeOK
    <3>4. InstallPair'
      BY <1>0, <3>1, PairKept
    <3>5. CatchState'
      BY <2>3, <3>1, <3>3, BodyCaught
    <3> QED
      BY <2>3, <3>4, <3>5, ToCatch DEF CatchBlock
  <2> QED
    BY <1>3, <1>t, <2>1, <2>2, <2>3 DEF RetirePrevious, MoveTo
<1>4. CASE NoteRetired
  <2>1. CASE WriteTransaction("previous_retired") /\ Goto("rotate") /\ UNCHANGED <<dirs, flags>>
    <3>1. pc = "note_retired"
      BY <1>4 DEF NoteRetired, At
    <3>2. journal' # None /\ journal'.phase = "previous_retired" /\ journal'.had = (txn.target # None)
      BY <2>1, InstallRecords DEF Phases
    <3>3. /\ dirs' = dirs /\ pc' = "rotate" /\ txn' = txn /\ Candidate' = Candidate
          /\ Mishaps' = Mishaps
      BY <2>1, InstallGoes
    <3>4. InstallPair'
      BY <1>0, <3>2, <3>3, PairKept
    <3>5. BodyState'
      BY <1>0, <2>1, <3>1, <3>2, <3>3
      DEF BodyState, SetAside, Trio, PhaseIn, Early, RetiredFlag, WholeBundle
    <3> QED
      BY <3>3, <3>4, <3>5, ToBody
  <2> QED
    BY <1>4, <1>t, <2>1 DEF NoteRetired, Record
<1>5. CASE RotateCurrent
  <2>0. pc = "rotate" /\ SetAside /\ flags = RetiredFlag /\ PhaseIn(Early)
    BY <1>0, <1>5 DEF RotateCurrent, At, BodyState
  <2>1. CASE /\ txn.target # None
             /\ Move("target", "previous") /\ flags' = flags \cup {"rotated"}
             /\ Goto("note_rotated") /\ UNCHANGED journal
    <3>1. dirs["previous"] = None
      BY <2>0 DEF SetAside, Trio
    <3>2. /\ dirs'["target"] = None /\ dirs'["previous"] = dirs["target"]
          /\ \A d \in Names \ {"target", "previous"} : dirs'[d] = dirs[d]
          /\ pc' = "note_rotated" /\ flags' = flags \cup {"rotated"} /\ journal' = journal
          /\ txn' = txn /\ Candidate' = Candidate /\ Mishaps' = Mishaps
      BY <2>1, <3>1, InstallMoves, OfInstall
    <3>3. InstallPair'
      BY <1>0, <3>2, PairKept
    <3>4. BodyState'
      BY <1>0, <2>0, <2>1, <3>2
      DEF BodyState, SetAside, Rotated, Trio, PhaseIn, RetiredFlag, RotatedFlag, Names,
          WholeBundle
    <3> QED
      BY <3>2, <3>3, <3>4, ToBody
  <2>2. CASE txn.target = None /\ Skip("activate")
    <3>1. /\ dirs' = dirs /\ pc' = "activate" /\ txn' = txn /\ Candidate' = Candidate
          /\ Mishaps' = Mishaps /\ journal' = journal /\ flags' = flags
      BY <2>2, InstallGoes DEF Skip
    <3>2. InstallPair'
      BY <1>0, <3>1, PairKept
    <3>3. BodyState'
      BY <1>0, <2>0, <2>2, <3>1
      DEF BodyState, SetAside, Rotated, Trio, PhaseIn, RetiredFlag, RotatedFlag,
          InstallPair
    <3> QED
      BY <3>1, <3>2, <3>3, ToBody
  <2> QED
    BY <1>5, <1>t, <2>1, <2>2 DEF RotateCurrent, MoveTo
<1>6. CASE NoteRotated
  <2>1. CASE WriteTransaction("current_rotated") /\ Goto("activate") /\ UNCHANGED <<dirs, flags>>
    <3>1. pc = "note_rotated"
      BY <1>6 DEF NoteRotated, At
    <3>2. journal' # None /\ journal'.phase = "current_rotated" /\ journal'.had = (txn.target # None)
      BY <2>1, InstallRecords DEF Phases
    <3>3. /\ dirs' = dirs /\ pc' = "activate" /\ txn' = txn /\ Candidate' = Candidate
          /\ Mishaps' = Mishaps
      BY <2>1, InstallGoes
    <3>4. InstallPair'
      BY <1>0, <3>2, <3>3, PairKept
    <3>5. BodyState'
      BY <1>0, <2>1, <3>1, <3>2, <3>3
      DEF BodyState, Rotated, Trio, PhaseIn, Early, RetiredFlag, RotatedFlag, WholeBundle
    <3> QED
      BY <3>3, <3>4, <3>5, ToBody
  <2> QED
    BY <1>6, <1>t, <2>1 DEF NoteRotated, Record
<1>7. CASE Activate
  <2>0. /\ pc = "activate" /\ Rotated /\ flags = RetiredFlag \cup RotatedFlag
        /\ PhaseIn(Early) /\ dirs["stage"] = Candidate
    BY <1>0, <1>7 DEF Activate, At, BodyState
  <2>1. CASE /\ Move("stage", "target") /\ flags' = flags \cup {"activated"}
             /\ Goto("note_activated") /\ UNCHANGED journal
    <3>1. dirs["target"] = None
      BY <2>0 DEF Rotated, Trio
    <3>2. /\ dirs'["stage"] = None /\ dirs'["target"] = dirs["stage"]
          /\ \A d \in Names \ {"stage", "target"} : dirs'[d] = dirs[d]
          /\ pc' = "note_activated" /\ flags' = flags \cup {"activated"} /\ journal' = journal
          /\ txn' = txn /\ Candidate' = Candidate /\ Mishaps' = Mishaps
      BY <2>1, <3>1, InstallMoves, OfInstall
    <3>3. InstallPair'
      BY <1>0, <3>2, PairKept
    <3>4. BodyState'
      BY <1>0, <2>0, <3>2
      DEF BodyState, Rotated, Replaced, Trio, PhaseIn, RetiredFlag, RotatedFlag, Names,
          WholeBundle
    <3> QED
      BY <3>2, <3>3, <3>4, ToBody
  <2> QED
    BY <1>7, <1>t, <2>1 DEF Activate, MoveTo
<1>8. CASE NoteActivated
  <2>1. CASE WriteTransaction("candidate_activated") /\ Goto("scan") /\ UNCHANGED <<dirs, flags>>
    <3>1. pc = "note_activated"
      BY <1>8 DEF NoteActivated, At
    <3>2. journal' # None /\ journal'.phase = "candidate_activated" /\ journal'.had = (txn.target # None)
      BY <2>1, InstallRecords DEF Phases
    <3>3. /\ dirs' = dirs /\ pc' = "scan" /\ txn' = txn /\ Candidate' = Candidate
          /\ Mishaps' = Mishaps
      BY <2>1, InstallGoes
    <3>4. InstallPair'
      BY <1>0, <3>2, <3>3, PairKept
    <3>5. BodyState'
      BY <1>0, <2>1, <3>1, <3>2, <3>3
      DEF BodyState, Replaced, Trio, PhaseIn, RetiredFlag, RotatedFlag, WholeBundle
    <3> QED
      BY <3>3, <3>4, <3>5, ToBody
  <2> QED
    BY <1>8, <1>t, <2>1 DEF NoteActivated, Record
<1>9. CASE Scan
  <2>1. CASE flags' = flags \cup {"scanned"} /\ Goto("drop_retired") /\ UNCHANGED <<dirs, journal>>
    <3>1. pc = "scan"
      BY <1>9 DEF Scan, At
    <3>2. /\ dirs' = dirs /\ pc' = "drop_retired" /\ txn' = txn /\ Candidate' = Candidate
          /\ Mishaps' = Mishaps
      BY <2>1, InstallGoes
    <3>3. InstallPair'
      BY <1>0, <2>1, <3>2, PairKept
    <3>4. BodyState'
      BY <1>0, <2>1, <3>1, <3>2
      DEF BodyState, Replaced, Trio, PhaseIn, RetiredFlag, RotatedFlag, WholeBundle
    <3> QED
      BY <3>2, <3>3, <3>4, ToBody
  <2> QED
    BY <1>9, <1>t, <2>1 DEF Scan
<1>10. CASE DropRetired
  <2>0. /\ pc = "drop_retired" /\ Replaced /\ PhaseIn({"candidate_activated"})
        /\ flags = RetiredFlag \cup RotatedFlag \cup {"activated", "scanned"}
    BY <1>0, <1>10 DEF DropRetired, At, BodyState
  <2>1. CASE /\ dirs' = [dirs EXCEPT !["retired"] = None] /\ flags' = flags \ {"retired"}
             /\ Goto("commit") /\ UNCHANGED journal
    <3>1. /\ pc' = "commit" /\ txn' = txn /\ Candidate' = Candidate /\ Mishaps' = Mishaps
      BY <2>1 DEF Goto, history, Candidate, Mishaps
    <3>2. dirs'["retired"] = None /\ \A d \in Names \ {"retired"} : dirs'[d] = dirs[d]
      BY <2>1 DEF TypeInv, TypeOK, Names
    <3>3. InstallPair'
      BY <1>0, <2>1, <3>1, PairKept
    <3>4. BodyState'
      BY <1>0, <2>0, <2>1, <3>1, <3>2
      DEF BodyState, Replaced, Trio, PhaseIn, RetiredFlag, RotatedFlag, Names, WholeBundle
    <3> QED
      BY <3>1, <3>3, <3>4, ToBody
  <2>2. ASSUME Damage("retired")
        PROVE  /\ dirs["retired"] # None /\ dirs'["retired"] # None
               /\ ~dirs'["retired"].whole
               /\ \A d \in Names \ {"retired"} : dirs'[d] = dirs[d]
    <3>1. dirs["retired"] \in Bundle /\ dirs["retired"] # None
      BY <2>2 DEF Damage, Exists, TypeInv, TypeOK, Names
    <3>2. dirs'["retired"] = [dirs["retired"] EXCEPT !.whole = FALSE]
          /\ \A d \in Names \ {"retired"} : dirs'[d] = dirs[d]
      BY <2>2 DEF Damage, TypeInv, TypeOK, Names
    <3>3. dirs'["retired"] \in Bundle /\ ~dirs'["retired"].whole
      BY <3>1, <3>2 DEF Bundle
    <3> QED
      BY <3>1, <3>2, <3>3
  <2>3. CASE Throw /\ Damage("retired")
    <3>1. Mishaps = 0 /\ Mishaps' = 1
      BY <2>3, FirstMishap
    <3>2. txn' = txn /\ Candidate' = Candidate /\ journal' = journal
      BY <2>3 DEF Throw, Candidate
    <3>3. pc' = "catch" /\ flags' = flags \cup {"threw"}
      BY <2>0, <2>3 DEF Throw, ToHandler, CatchBlock, RollbackBody,
         UninstallBody, Tombstones, Guarded
    <3>4. InstallPair'
      BY <1>0, <3>1, <3>2, PairKept
    <3>5. "retired" \in flags /\ txn.previous # None
      BY <2>0, <2>2, <2>3 DEF Replaced, Trio, RetiredFlag
    <3>6. CatchState'
      BY <1>0, <2>0, <2>2, <2>3, <3>1, <3>2, <3>3, <3>5
      DEF BodyState, CatchState, ActivatedHeld, Backup, Replaced, Trio, RetiredFlag,
          RotatedFlag, CatchBlock, Names
    <3> QED
      BY <3>3, <3>4, <3>6, ToCatch DEF CatchBlock
  <2>4. CASE Stop /\ Damage("retired")
    <3>1. Mishaps = 0 /\ Mishaps' = 1 /\ crashes' = 1
      BY <2>4, FirstMishap
    <3>2. txn' = txn /\ Candidate' = Candidate /\ journal' = journal /\ flags' = flags
          /\ pc' = "idle"
      BY <2>4 DEF Stop, Candidate
    <3>3. InstallPair'
      BY <1>0, <3>1, <3>2, PairKept
    <3>4. txn.previous # None
      BY <2>0, <2>2, <2>4 DEF Replaced, Trio
    <3>5. Interrupted'
      BY <2>0, <2>2, <2>4, <3>2, <3>4
      DEF Interrupted, ActivatedLeft, Upgraded, Backup, Replaced, Trio, PhaseIn, Names
    <3>6. Staged' /\ dirs'["recovery"] = None
      BY <1>0, <2>0, <2>2, <2>4 DEF BodyState, Staged, Names
    <3>7. RecoveryState'
      BY <1>0, <2>0, <3>1, <3>2, <3>5, <3>6
      DEF RecoveryState, BodyState, PhaseIn, WholeBundle
    <3> QED
      BY <2>0, <3>2, <3>3, <3>7, ToRecovery DEF PhaseIn
  <2> QED
    BY <1>10, <1>t, <2>1, <2>3, <2>4 DEF DropRetired, Remove
<1>11. CASE Commit
  <2>1. CASE WriteTransaction("committed") /\ Goto("clear") /\ UNCHANGED <<dirs, flags>>
    <3>1. pc = "commit"
      BY <1>11 DEF Commit, At
    <3>2. journal' # None /\ journal'.phase = "committed" /\ journal'.had = (txn.target # None)
      BY <2>1, InstallRecords DEF Phases
    <3>3. /\ dirs' = dirs /\ pc' = "clear" /\ txn' = txn /\ Candidate' = Candidate
          /\ Mishaps' = Mishaps
      BY <2>1, InstallGoes
    <3>4. InstallPair'
      BY <1>0, <3>2, <3>3, PairKept
    <3>5. BodyState'
      BY <1>0, <2>1, <3>1, <3>2, <3>3
      DEF BodyState, Trio, PhaseIn, RotatedFlag, WholeBundle
    <3> QED
      BY <3>3, <3>4, <3>5, ToBody
  <2> QED
    BY <1>11, <1>t, <2>1 DEF Commit, Record
<1>12. CASE Clear
  <2>1. CASE journal' = None /\ Goto("finally_stage") /\ UNCHANGED <<dirs, flags>>
    <3>1. pc = "clear"
      BY <1>12 DEF Clear, At
    <3>2. /\ dirs' = dirs /\ pc' = "finally_stage" /\ txn' = txn /\ Candidate' = Candidate
          /\ Mishaps' = Mishaps
      BY <2>1, InstallGoes
    <3>3. InstallPair'
      BY <1>0, <2>1, <3>2, PairKept
    <3>4. Over'
      BY <1>0, <2>1, <3>1, <3>2 DEF BodyState, Over, Upgraded, Trio
    <3> QED
      BY <2>1, <3>2, <3>3, <3>4, ToOver DEF Finally
  <2> QED
    BY <1>12, <1>t, <2>1 DEF Clear, Forget
<1> QED
  BY <1>1, <1>2, <1>3, <1>4, <1>5, <1>6, <1>7, <1>8, <1>9, <1>10, <1>11, <1>12

\* The lines of the catch block: the mishap has happened.
LEMMA CatchStep ==
  ASSUME TypeInv, txn.op = "install", InstallState, Mishaps' <= 1, pc \in CatchBlock,
         UndoActivation \/ UndoRotation \/ UndoRetirement \/ DropFailed \/ Abandon
  PROVE  InstallState'
<1> USE NoneAssumption DEF CatchBlock
<1>0. InstallPair /\ CatchState /\ Mishaps = 1
  BY DEF InstallState, CatchState
<1>a. Candidate # None
  BY CandidateIsWhole
<1>t. ~Throw /\ ~Stop
  BY <1>0, FirstMishap
<1>1. CASE UndoActivation
  <2>0. pc = "catch" /\ ActivatedHeld
    BY <1>0, <1>1 DEF UndoActivation, Undo, At, CatchState
  <2>1. CASE "activated" \in flags
    <3>1. dirs["target"] = Candidate /\ dirs["failed"] = None
      BY <2>0, <2>1 DEF ActivatedHeld
    <3>2. /\ Move("target", "failed") /\ flags' = flags \cup {}
          /\ Goto("catch_rotated") /\ UNCHANGED journal
      BY <1>1, <1>a, <1>t, <2>1, <3>1 DEF UndoActivation, Undo, Exists, MoveTo
    <3>3. /\ dirs'["target"] = None /\ dirs'["failed"] = dirs["target"]
          /\ \A d \in Names \ {"target", "failed"} : dirs'[d] = dirs[d]
          /\ pc' = "catch_rotated" /\ flags' = flags \cup {} /\ journal' = journal
          /\ txn' = txn /\ Candidate' = Candidate /\ Mishaps' = Mishaps
      BY <3>1, <3>2, InstallMoves, OfInstall
    <3>4. InstallPair'
      BY <1>0, <3>3, PairKept
    <3>5. RotatedHeld'
      BY <1>0, <2>0, <2>1, <3>3
      DEF ActivatedHeld, RotatedHeld, RetiredHeld, Backup, InstallPair, Names
    <3>6. CatchState'
      BY <1>0, <3>3, <3>5 DEF CatchState
    <3> QED
      BY <3>3, <3>4, <3>6, ToCatch
  <2>2. CASE "activated" \notin flags
    <3>1. /\ dirs' = dirs /\ pc' = "catch_rotated" /\ txn' = txn
          /\ Mishaps' = Mishaps /\ journal' = journal /\ flags' = flags
      BY <1>1, <2>2, InstallGoes DEF UndoActivation, Undo, Skip
    <3>2. InstallPair'
      BY <1>0, <3>1, PairKept
    <3>3. CatchState'
      BY <1>0, <2>0, <2>2, <3>1
      DEF CatchState, ActivatedHeld, RotatedHeld, RetiredHeld, Backup
    <3> QED
      BY <3>1, <3>2, <3>3, ToCatch
  <2> QED
    BY <2>1, <2>2
<1>2. CASE UndoRotation
  <2>0. pc = "catch_rotated" /\ RotatedHeld
    BY <1>0, <1>2 DEF UndoRotation, Undo, At, CatchState
  <2>1. CASE "rotated" \in flags
    <3>1. dirs["target"] = None /\ dirs["previous"] = txn.target /\ txn.target # None
      BY <2>0, <2>1 DEF RotatedHeld
    <3>2. /\ Move("previous", "target") /\ flags' = flags \cup {}
          /\ Goto("catch_retired") /\ UNCHANGED journal
      BY <1>2, <1>t, <2>1, <3>1 DEF UndoRotation, Undo, Exists, MoveTo
    <3>3. /\ dirs'["previous"] = None /\ dirs'["target"] = dirs["previous"]
          /\ \A d \in Names \ {"previous", "target"} : dirs'[d] = dirs[d]
          /\ pc' = "catch_retired" /\ flags' = flags \cup {} /\ journal' = journal
          /\ txn' = txn /\ Candidate' = Candidate /\ Mishaps' = Mishaps
      BY <3>1, <3>2, InstallMoves, OfInstall
    <3>4. InstallPair'
      BY <1>0, <3>3, PairKept
    <3>5. dirs'["target"] = txn'.target /\ RetiredHeld'
      BY <2>0, <2>1, <3>1, <3>3 DEF RotatedHeld, RetiredHeld, Backup, Names
    <3>6. CatchState'
      BY <1>0, <3>3, <3>5 DEF CatchState
    <3> QED
      BY <3>3, <3>4, <3>6, ToCatch
  <2>2. CASE "rotated" \notin flags
    <3>1. /\ dirs' = dirs /\ pc' = "catch_retired" /\ txn' = txn
          /\ Mishaps' = Mishaps /\ journal' = journal /\ flags' = flags
      BY <1>2, <2>2, InstallGoes DEF UndoRotation, Undo, Skip
    <3>2. InstallPair'
      BY <1>0, <3>1, PairKept
    <3>3. CatchState'
      BY <1>0, <2>0, <2>2, <3>1 DEF CatchState, RotatedHeld, RetiredHeld, Backup
    <3> QED
      BY <3>1, <3>2, <3>3, ToCatch
  <2> QED
    BY <2>1, <2>2
<1>3. CASE UndoRetirement
  <2>0. pc = "catch_retired" /\ dirs["target"] = txn.target /\ RetiredHeld
    BY <1>0, <1>3 DEF UndoRetirement, Undo, At, CatchState
  <2>1. CASE "retired" \in flags
    <3>1. dirs["previous"] = None /\ dirs["retired"] # None /\ Backup(dirs["retired"])
      BY <2>0, <2>1 DEF RetiredHeld
    <3>2. /\ Move("retired", "previous") /\ flags' = flags \cup {}
          /\ Goto("catch_failed") /\ UNCHANGED journal
      BY <1>3, <1>t, <2>1, <3>1 DEF UndoRetirement, Undo, Exists, MoveTo
    <3>3. /\ dirs'["retired"] = None /\ dirs'["previous"] = dirs["retired"]
          /\ \A d \in Names \ {"retired", "previous"} : dirs'[d] = dirs[d]
          /\ pc' = "catch_failed" /\ flags' = flags \cup {} /\ journal' = journal
          /\ txn' = txn /\ Candidate' = Candidate /\ Mishaps' = Mishaps
      BY <3>1, <3>2, InstallMoves, OfInstall
    <3>4. InstallPair'
      BY <1>0, <3>3, PairKept
    <3>5. Restored'
      BY <2>0, <3>1, <3>3 DEF Restored, Backup, Names
    <3>6. CatchState'
      BY <1>0, <3>3, <3>5 DEF CatchState
    <3> QED
      BY <3>3, <3>4, <3>6, ToCatch
  <2>2. CASE "retired" \notin flags
    <3>1. /\ dirs' = dirs /\ pc' = "catch_failed" /\ txn' = txn
          /\ Mishaps' = Mishaps /\ journal' = journal /\ flags' = flags
      BY <1>3, <2>2, InstallGoes DEF UndoRetirement, Undo, Skip
    <3>2. InstallPair'
      BY <1>0, <3>1, PairKept
    <3>3. CatchState'
      BY <1>0, <2>0, <2>2, <3>1 DEF CatchState, RetiredHeld, Restored, Backup
    <3> QED
      BY <3>1, <3>2, <3>3, ToCatch
  <2> QED
    BY <2>1, <2>2
<1>4. CASE DropFailed
  <2>1. /\ dirs' = [dirs EXCEPT !["failed"] = None] /\ flags' = flags \ {}
        /\ Goto("catch_journal") /\ UNCHANGED journal
    BY <1>4, <1>t DEF DropFailed, Remove
  <2>2. /\ pc' = "catch_journal" /\ txn' = txn /\ Mishaps' = Mishaps
    BY <2>1 DEF Goto, history, Mishaps
  <2>3. dirs'["target"] = dirs["target"] /\ dirs'["previous"] = dirs["previous"]
    BY <2>1 DEF TypeInv, TypeOK, Names
  <2>4. InstallPair'
    BY <1>0, <2>1, <2>2, PairKept
  <2>5. CatchState'
    BY <1>0, <1>4, <2>1, <2>2, <2>3 DEF DropFailed, At, CatchState, Restored, Backup
  <2> QED
    BY <2>2, <2>4, <2>5, ToCatch
<1>5. CASE Abandon
  <2>1. journal' = None /\ Goto("finally_stage") /\ UNCHANGED <<dirs, flags>>
    BY <1>5, <1>t DEF Abandon, Forget
  <2>2. /\ dirs' = dirs /\ pc' = "finally_stage" /\ txn' = txn /\ Mishaps' = Mishaps
    BY <2>1, InstallGoes
  <2>3. InstallPair'
    BY <1>0, <2>1, <2>2, PairKept
  <2>4. Over'
    BY <1>0, <1>5, <2>1, <2>2 DEF Abandon, At, CatchState, Over, Restored, Backup
  <2> QED
    BY <2>1, <2>2, <2>3, <2>4, ToOver DEF Finally
<1> QED
  BY <1>1, <1>2, <1>3, <1>4, <1>5

\* The finally block deletes nothing that is to stay.
LEMMA SweepKeeps ==
  ASSUME TypeInv, txn.op = "install", InstallState, Mishaps' <= 1, pc \in Finally,
         NEW d \in Names \ Kept, NEW line \in Finally, Remove(d, {}, line)
  PROVE  InstallState'
<1>0. journal = None /\ pc # "idle"
  BY InstallFamilies DEF InstallState
<1>1. CASE /\ dirs' = [dirs EXCEPT ![d] = None] /\ flags' = flags \ {}
           /\ Goto(line) /\ UNCHANGED journal
  <2>1. /\ pc' = line /\ txn' = txn /\ made' = made /\ Mishaps' = Mishaps
        /\ crashes' = crashes
    BY <1>1 DEF Goto, history, Mishaps
  <2>2. dirs'["target"] = dirs["target"] /\ dirs'["previous"] = dirs["previous"]
    BY <1>1 DEF TypeInv, TypeOK, Names, Kept
  <2> QED
    BY <1>0, <1>1, <2>1, <2>2, OverKept
<1>2. dirs' = dirs \/ Damage(d) =>
        dirs'["target"] = dirs["target"] /\ dirs'["previous"] = dirs["previous"]
  BY DEF Damage, TypeInv, TypeOK, Names, Kept
<1>3. CASE Throw /\ (UNCHANGED dirs \/ Damage(d))
  BY <1>0, <1>2, <1>3, InstallThrows
<1>4. CASE Damage(d) /\ Stop
  BY <1>0, <1>2, <1>4, InstallStops
<1> QED
  BY <1>1, <1>3, <1>4 DEF Remove

LEMMA FinallyStep ==
  ASSUME TypeInv, txn.op = "install", InstallState, Mishaps' <= 1,
         SweepStage \/ SweepFailed \/ SweepRetired
  PROVE  InstallState'
<1>1. {"stage", "failed", "retired"} \subseteq Names \ Kept
  BY DEF Names, Kept
<1>2. CASE SweepStage
  <2>1. pc \in Finally /\ "finally_failed" \in Finally
    BY <1>2 DEF SweepStage, At, Finally
  <2> QED
    BY <1>1, <1>2, <2>1, SweepKeeps DEF SweepStage
<1>3. CASE SweepFailed
  <2>1. pc \in Finally /\ "finally_retired" \in Finally
    BY <1>3 DEF SweepFailed, At, Finally
  <2> QED
    BY <1>1, <1>3, <2>1, SweepKeeps DEF SweepFailed
<1>4. CASE SweepRetired
  <2>1. pc \in Finally /\ (IF "threw" \in flags THEN "failed" ELSE "done") \in Finally
    BY <1>4 DEF SweepRetired, At, Finally
  <2> QED
    BY <1>1, <1>4, <2>1, SweepKeeps DEF SweepRetired
<1> QED
  BY <1>2, <1>3, <1>4

----------------------------------------------------------------------------
(* Its recovery. *)

LEMMA RecoveryStep ==
  ASSUME TypeInv, txn.op = "install", InstallState, Mishaps' <= 1, pc \in RecoveryLines,
         RecoveryOfInstall
  PROVE  InstallState'
<1> USE NoneAssumption DEF RecoveryLines
<1>0. InstallPair /\ RecoveryState /\ Mishaps = 1 /\ crashes = 1 /\ journal # None /\ Staged
  <2>1. InstallPair /\ RecoveryState
    BY DEF InstallState
  <2>2. Mishaps <= 1 \/ Throw \/ Stop
    BY DEF RecoveryOfInstall, RecoverInstall, RecoverActivated, RecoverCurrent,
       RecoverScrap, RecoverRetired, RecoverStage, CleanStage, CleanRetired,
       Return, RemoveOwned, Remove, MoveTo, Skip, Goto, End, history, Mishaps
  <2>3. Mishaps = 1
    BY <2>1, <2>2, FirstMishap DEF RecoveryState, Mishaps, TypeInv, TypeOK
  <2> QED
    BY <2>1, <2>3 DEF RecoveryState
<1>a. Candidate # None /\ WholeBundle(Candidate)
  BY CandidateIsWhole
<1>t. ~Throw /\ ~Stop
  BY <1>0, FirstMishap
<1>w. /\ txn.target # None => WholeBundle(txn.target)
      /\ txn.previous # None => WholeBundle(txn.previous)
      /\ txn.target = None => txn.previous = None
  BY <1>0 DEF InstallPair, RecoveryState
<1>s. ASSUME NEW line \in RecoveryLines, Skip(line)
      PROVE  /\ dirs' = dirs /\ pc' = line /\ txn' = txn /\ Candidate' = Candidate
             /\ Mishaps' = Mishaps /\ crashes' = crashes /\ journal' = journal
             /\ flags' = flags /\ InstallPair'
  <2>1. /\ dirs' = dirs /\ pc' = line /\ txn' = txn /\ Candidate' = Candidate
        /\ Mishaps' = Mishaps /\ crashes' = crashes /\ journal' = journal
        /\ flags' = flags
    BY <1>s, InstallGoes DEF Skip
  <2> QED
    BY <1>0, <2>1, PairKept
<1>m. ASSUME NEW from \in Names, NEW to \in Names, NEW line \in RecoveryLines,
             from # to, dirs[to] = None, MoveTo(from, to, {}, line)
      PROVE  /\ dirs[from] # None /\ dirs'[from] = None /\ dirs'[to] = dirs[from]
             /\ \A d \in Names \ {from, to} : dirs'[d] = dirs[d]
             /\ pc' = line /\ txn' = txn /\ Candidate' = Candidate
             /\ Mishaps' = Mishaps /\ crashes' = crashes /\ journal' = journal
             /\ flags' = flags /\ InstallPair'
  <2>1. /\ Move(from, to) /\ flags' = flags \cup {} /\ Goto(line) /\ UNCHANGED journal
    BY <1>t, <1>m DEF MoveTo
  <2>2. /\ dirs[from] # None /\ dirs'[from] = None /\ dirs'[to] = dirs[from]
        /\ \A d \in Names \ {from, to} : dirs'[d] = dirs[d]
        /\ pc' = line /\ flags' = flags \cup {} /\ journal' = journal
        /\ txn' = txn /\ Candidate' = Candidate
        /\ Mishaps' = Mishaps /\ crashes' = crashes
    BY <1>m, <2>1, InstallMoves, OfInstall
  <2> QED
    BY <1>0, <2>2, PairKept
<1>r. ASSUME NEW d \in Names, NEW line \in RecoveryLines, RemoveOwned(d, line),
             dirs[d] # None => WholeBundle(dirs[d])
      PROVE  /\ dirs'[d] = None /\ \A e \in Names \ {d} : dirs'[e] = dirs[e]
             /\ pc' = line /\ txn' = txn /\ Candidate' = Candidate
             /\ Mishaps' = Mishaps /\ crashes' = crashes /\ journal' = journal
             /\ flags' = flags /\ InstallPair'
  <2>1. /\ dirs' = [dirs EXCEPT ![d] = None] /\ flags' = flags \ {} /\ Goto(line)
        /\ UNCHANGED journal
    BY <1>t, <1>r DEF RemoveOwned, Remove, Owned, Exists, WholeBundle
  <2>2. /\ pc' = line /\ txn' = txn /\ Candidate' = Candidate
        /\ Mishaps' = Mishaps /\ crashes' = crashes /\ journal' = journal
        /\ flags' = flags
    BY <2>1 DEF Goto, history, Mishaps, Candidate
  <2>3. dirs'[d] = None /\ \A e \in Names \ {d} : dirs'[e] = dirs[e]
    BY <2>1 DEF TypeInv, TypeOK
  <2> QED
    BY <1>0, <2>2, <2>3, PairKept
<1>e. ASSUME End("refused"), Interrupted, dirs["recovery"] = None
      PROVE  InstallState'
  <2>1. /\ dirs' = dirs /\ pc' = "idle" /\ txn' = txn /\ Candidate' = Candidate
        /\ Mishaps' = Mishaps /\ crashes' = crashes /\ journal' = journal
        /\ flags' = flags
    BY <1>e DEF End, history, Mishaps, Candidate
  <2>2. InstallPair'
    BY <1>0, <2>1, PairKept
  <2>3. Interrupted' /\ Staged'
    BY <1>0, <1>e, <2>1
    DEF Interrupted, ActivatedLeft, Refused, Upgraded, Backup, Unmoved, SetAside,
        Rotated, Replaced, Trio, PhaseIn, Staged
  <2>4. RecoveryState'
    BY <1>0, <1>e, <1>w, <2>1, <2>3 DEF RecoveryState, WholeBundle
  <2> QED
    BY <1>0, <2>1, <2>2, <2>4, ToRecovery
<1>1. CASE RecoverInstall
  <2>0. pc = "r_install" /\ Interrupted /\ dirs["recovery"] = None
    BY <1>0, <1>1 DEF RecoverInstall, At, RecoveryState
  <2>1. Exists("target") => Owned("target")
    BY <1>a, <1>w, <2>0
    DEF Interrupted, ActivatedLeft, Refused, Upgraded, Unmoved, SetAside,
        Rotated, Replaced, Trio, Exists, Owned, WholeBundle
  <2>2. CASE journal.phase = "committed"
    <3>1. Skip("r_commit_stage")
      BY <1>1, <2>1, <2>2 DEF RecoverInstall
    <3>2. Upgraded /\ dirs["retired"] = None
      BY <2>0, <2>2 DEF Interrupted, ActivatedLeft, Refused, PhaseIn, Early
    <3>3. RecoveryState'
      BY <1>0, <1>s, <1>w, <3>1, <3>2
      DEF RecoveryState, Staged, Upgraded, WholeBundle
    <3> QED
      BY <1>s, <3>1, <3>3, ToRecovery
  <2>3. CASE journal.phase = "candidate_activated"
    <3>1. Skip("r_activated")
      BY <1>1, <2>1, <2>3 DEF RecoverInstall
    <3>2. ActivatedLeft
      BY <2>0, <2>3 DEF Interrupted, PhaseIn, Early
    <3>3. ActivatedLeft'
      BY <1>s, <3>1, <3>2
      DEF ActivatedLeft, Refused, Upgraded, Backup, PhaseIn
    <3>4. RecoveryState'
      BY <1>0, <1>s, <1>w, <2>0, <3>1, <3>3
      DEF RecoveryState, Staged, WholeBundle
    <3> QED
      BY <1>s, <3>1, <3>4, ToRecovery
  <2>4. CASE journal.phase \notin {"committed", "candidate_activated"}
    <3>1. PhaseIn(Early) /\ (Unmoved \/ SetAside \/ Rotated \/ Replaced)
      BY <2>0, <2>4 DEF Interrupted, ActivatedLeft, PhaseIn
    <3>2. CASE ~Exists("target") /\ Exists("previous")
      <4>1. Rotated /\ txn.target # None
        BY <1>a, <1>w, <3>1, <3>2 DEF Unmoved, SetAside, Rotated, Replaced, Trio, Exists
      <4>2. MoveTo("previous", "target", {}, "r_retired")
        BY <1>1, <1>w, <2>1, <2>4, <3>2, <4>1
        DEF RecoverInstall, Return, Owned, Exists, Rotated, Trio, WholeBundle
      <4>3. /\ dirs'["previous"] = None /\ dirs'["target"] = dirs["previous"]
            /\ \A d \in Names \ {"previous", "target"} : dirs'[d] = dirs[d]
            /\ pc' = "r_retired" /\ txn' = txn /\ Candidate' = Candidate
            /\ Mishaps' = Mishaps /\ crashes' = crashes /\ journal' = journal
            /\ flags' = flags /\ InstallPair'
        BY <1>m, <3>2, <4>2, OfInstall DEF Exists
      <4>4. SetAside' /\ PhaseIn(Early)' /\ Staged'
        BY <1>0, <3>1, <4>1, <4>3 DEF Rotated, SetAside, Trio, PhaseIn, Staged, Names
      <4>5. RecoveryState'
        BY <1>0, <1>w, <2>0, <4>3, <4>4 DEF RecoveryState, WholeBundle, Names
      <4> QED
        BY <4>3, <4>5, ToRecovery
    <3>3. CASE ~(~Exists("target") /\ Exists("previous"))
      <4>1. Skip("r_retired")
        BY <1>1, <2>1, <2>4, <3>3 DEF RecoverInstall
      <4>2. Unmoved \/ SetAside \/ Replaced
        BY <1>w, <3>1, <3>3 DEF Unmoved, SetAside, Rotated, Replaced, Trio, Exists
      <4>3. (Unmoved \/ SetAside \/ Replaced)' /\ PhaseIn(Early)' /\ Staged'
        BY <1>0, <1>s, <3>1, <4>1, <4>2
        DEF Unmoved, SetAside, Replaced, Trio, PhaseIn, Staged
      <4>4. RecoveryState'
        BY <1>0, <1>s, <1>w, <2>0, <4>1, <4>3 DEF RecoveryState, WholeBundle
      <4> QED
        BY <1>s, <4>1, <4>4, ToRecovery
    <3> QED
      BY <3>2, <3>3
  <2> QED
    BY <2>2, <2>3, <2>4
<1>2. CASE RecoverActivated
  <2>0. /\ pc = "r_activated" /\ ActivatedLeft /\ dirs["recovery"] = None
        /\ journal.had = (txn.target # None)
    BY <1>0, <1>2 DEF RecoverActivated, At, RecoveryState, InstallPair
  <2>1. CASE Refused
    <3>1. End("refused")
      BY <1>2, <2>0, <2>1 DEF RecoverActivated, Refused, Exists
    <3> QED
      BY <1>e, <2>0, <3>1 DEF Interrupted
  <2>2. CASE ~Refused /\ txn.target # None
    <3>0. PhaseIn({"candidate_activated"}) /\ Upgraded /\ Backup(dirs["retired"])
      BY <2>0, <2>2 DEF ActivatedLeft
    <3>1. MoveTo("target", "recovery", {}, "r_back")
      BY <1>2, <1>a, <2>0, <2>2, <3>0 DEF RecoverActivated, Upgraded, Exists
    <3>2. /\ dirs'["target"] = None /\ dirs'["recovery"] = dirs["target"]
          /\ \A d \in Names \ {"target", "recovery"} : dirs'[d] = dirs[d]
          /\ pc' = "r_back" /\ txn' = txn /\ Candidate' = Candidate
          /\ Mishaps' = Mishaps /\ crashes' = crashes /\ journal' = journal
          /\ flags' = flags /\ InstallPair'
      BY <1>m, <2>0, <3>1, OfInstall
    <3>3. RecoveryState'
      BY <1>0, <1>w, <2>2, <3>0, <3>2
      DEF RecoveryState, PhaseIn, Upgraded, Backup, Staged, Names, WholeBundle
    <3> QED
      BY <3>2, <3>3, ToRecovery
  <2>3. CASE ~Refused /\ txn.target = None
    <3>0. PhaseIn({"candidate_activated"}) /\ Upgraded /\ Backup(dirs["retired"])
      BY <2>0, <2>3 DEF ActivatedLeft
    <3>1. RemoveOwned("target", "r_retired")
      BY <1>2, <2>0, <2>3 DEF RecoverActivated
    <3>2. /\ dirs'["target"] = None
          /\ \A d \in Names \ {"target"} : dirs'[d] = dirs[d]
          /\ pc' = "r_retired" /\ txn' = txn /\ Candidate' = Candidate
          /\ Mishaps' = Mishaps /\ crashes' = crashes /\ journal' = journal
          /\ flags' = flags /\ InstallPair'
      BY <1>a, <1>r, <3>0, <3>1, OfInstall DEF Upgraded
    <3>3. RecoveryState'
      BY <1>0, <1>w, <2>0, <2>3, <3>0, <3>2
      DEF RecoveryState, PhaseIn, Upgraded, Backup, Staged, Names, WholeBundle
    <3> QED
      BY <3>2, <3>3, ToRecovery
  <2> QED
    BY <2>1, <2>2, <2>3
<1>3. CASE RecoverCurrent
  <2>0. /\ pc = "r_back" /\ PhaseIn({"candidate_activated"}) /\ txn.target # None
        /\ dirs["target"] = None /\ dirs["previous"] = txn.target
        /\ Backup(dirs["retired"]) /\ dirs["recovery"] = Candidate
    BY <1>0, <1>3 DEF RecoverCurrent, At, RecoveryState
  <2>1. /\ dirs'["previous"] = None /\ dirs'["target"] = dirs["previous"]
        /\ \A d \in Names \ {"previous", "target"} : dirs'[d] = dirs[d]
        /\ pc' = "r_scrap" /\ txn' = txn /\ Candidate' = Candidate
        /\ Mishaps' = Mishaps /\ crashes' = crashes /\ journal' = journal
        /\ flags' = flags /\ InstallPair'
    BY <1>3, <1>m, <2>0, OfInstall DEF RecoverCurrent
  <2>2. RecoveryState'
    BY <1>0, <1>w, <2>0, <2>1
    DEF RecoveryState, PhaseIn, Backup, Staged, Names, WholeBundle
  <2> QED
    BY <2>1, <2>2, ToRecovery
<1>4. CASE RecoverScrap
  <2>0. /\ pc = "r_scrap" /\ PhaseIn({"candidate_activated"}) /\ txn.target # None
        /\ dirs["target"] = txn.target /\ dirs["previous"] = None
        /\ Backup(dirs["retired"]) /\ dirs["recovery"] = Candidate
    BY <1>0, <1>4 DEF RecoverScrap, At, RecoveryState
  <2>1. /\ dirs'["recovery"] = None
        /\ \A d \in Names \ {"recovery"} : dirs'[d] = dirs[d]
        /\ pc' = "r_retired" /\ txn' = txn /\ Candidate' = Candidate
        /\ Mishaps' = Mishaps /\ crashes' = crashes /\ journal' = journal
        /\ flags' = flags /\ InstallPair'
    BY <1>4, <1>a, <1>r, <2>0, OfInstall DEF RecoverScrap
  <2>2. RecoveryState'
    BY <1>0, <1>w, <2>0, <2>1
    DEF RecoveryState, PhaseIn, Backup, Staged, Names, WholeBundle
  <2> QED
    BY <2>1, <2>2, ToRecovery
<1>5. CASE RecoverRetired
  <2>0. /\ pc = "r_retired" /\ dirs["recovery"] = None
        /\ \/ PhaseIn(Early) /\ (Unmoved \/ SetAside \/ Replaced)
           \/ /\ PhaseIn({"candidate_activated"})
              /\ dirs["target"] = txn.target /\ dirs["previous"] = None
              /\ Backup(dirs["retired"])
    BY <1>0, <1>5 DEF RecoverRetired, At, RecoveryState
  <2>1. CASE Exists("retired") /\ ~Exists("previous") /\ Owned("retired")
    <3>1. MoveTo("retired", "previous", {}, "r_stage")
      BY <1>5, <2>1 DEF RecoverRetired, Return
    <3>2. /\ dirs'["retired"] = None /\ dirs'["previous"] = dirs["retired"]
          /\ \A d \in Names \ {"retired", "previous"} : dirs'[d] = dirs[d]
          /\ pc' = "r_stage" /\ txn' = txn /\ Candidate' = Candidate
          /\ Mishaps' = Mishaps /\ crashes' = crashes /\ journal' = journal
          /\ flags' = flags /\ InstallPair'
      BY <1>m, <2>1, <3>1, OfInstall DEF Exists
    <3>3. Restored'
      BY <1>w, <2>0, <2>1, <3>2
      DEF Unmoved, SetAside, Replaced, Trio, Restored, Backup, Exists, Names
    <3>4. RecoveryState'
      BY <1>0, <1>w, <2>0, <3>2, <3>3 DEF RecoveryState, Staged, Names, WholeBundle
    <3> QED
      BY <3>2, <3>4, ToRecovery
  <2>2. CASE Exists("retired") /\ ~Exists("previous") /\ ~Owned("retired")
    <3>1. End("refused")
      BY <1>5, <2>2 DEF RecoverRetired, Return
    <3>2. ~WholeBundle(txn.previous) \/ dirs["retired"] # txn.previous
      BY <2>2 DEF Owned, WholeBundle
    <3>3. PhaseIn({"candidate_activated"}) /\ txn.previous # None
      BY <1>w, <2>0, <2>2, <3>2
      DEF Unmoved, SetAside, Replaced, Trio, Backup, Exists
    <3>4. Refused
      BY <1>w, <2>0, <2>2, <3>3
      DEF Refused, PhaseIn, Early, Unmoved, SetAside, Replaced, Trio, Exists, Owned
    <3> QED
      BY <1>e, <2>0, <3>1, <3>4 DEF Interrupted, ActivatedLeft, Refused
  <2>3. CASE ~(Exists("retired") /\ ~Exists("previous"))
    <3>1. Skip("r_stage")
      BY <1>5, <2>3 DEF RecoverRetired
    <3>2. Restored \/ Upgraded
      BY <1>w, <2>0, <2>3
      DEF Unmoved, SetAside, Replaced, Trio, Restored, Upgraded, Backup, Exists
    <3>3. (Restored \/ Upgraded)'
      BY <1>s, <3>1, <3>2 DEF Restored, Upgraded, Backup
    <3>4. RecoveryState'
      BY <1>0, <1>s, <1>w, <2>0, <3>1, <3>3 DEF RecoveryState, Staged, WholeBundle
    <3> QED
      BY <1>s, <3>1, <3>4, ToRecovery
  <2> QED
    BY <2>1, <2>2, <2>3
<1>6. CASE RecoverStage
  <2>0. pc = "r_stage" /\ (Restored \/ Upgraded) /\ dirs["recovery"] = None
    BY <1>0, <1>6 DEF RecoverStage, At, RecoveryState
  <2>1. /\ dirs'["stage"] = None
        /\ \A d \in Names \ {"stage"} : dirs'[d] = dirs[d]
        /\ pc' = "r_clear" /\ txn' = txn /\ Candidate' = Candidate
        /\ Mishaps' = Mishaps /\ crashes' = crashes /\ journal' = journal
        /\ flags' = flags /\ InstallPair'
    BY <1>0, <1>6, <1>a, <1>r, OfInstall DEF RecoverStage, Staged
  <2>2. (Restored \/ Upgraded)'
    BY <2>0, <2>1 DEF Restored, Upgraded, Backup, Names
  <2>3. RecoveryState'
    BY <1>0, <1>w, <2>0, <2>1, <2>2 DEF RecoveryState, Staged, Names, WholeBundle
  <2> QED
    BY <2>1, <2>3, ToRecovery
<1>7. CASE CleanStage
  <2>0. /\ pc = "r_commit_stage" /\ Upgraded /\ dirs["retired"] = None
        /\ dirs["recovery"] = None
    BY <1>0, <1>7 DEF CleanStage, At, RecoveryState
  <2>1. /\ dirs'["stage"] = None
        /\ \A d \in Names \ {"stage"} : dirs'[d] = dirs[d]
        /\ pc' = "r_commit_retired" /\ txn' = txn /\ Candidate' = Candidate
        /\ Mishaps' = Mishaps /\ crashes' = crashes /\ journal' = journal
        /\ flags' = flags /\ InstallPair'
    BY <1>0, <1>7, <1>a, <1>r, OfInstall DEF CleanStage, Staged
  <2>2. RecoveryState'
    BY <1>0, <1>w, <2>0, <2>1 DEF RecoveryState, Upgraded, Staged, Names, WholeBundle
  <2> QED
    BY <2>1, <2>2, ToRecovery
<1>8. CASE CleanRetired
  <2>0. /\ pc = "r_commit_retired" /\ Upgraded /\ dirs["retired"] = None
        /\ dirs["recovery"] = None
    BY <1>0, <1>8 DEF CleanRetired, At, RecoveryState
  <2>1. /\ dirs'["retired"] = None
        /\ \A d \in Names \ {"retired"} : dirs'[d] = dirs[d]
        /\ pc' = "r_clear" /\ txn' = txn /\ Candidate' = Candidate
        /\ Mishaps' = Mishaps /\ crashes' = crashes /\ journal' = journal
        /\ flags' = flags /\ InstallPair'
    BY <1>8, <1>r, <2>0, OfInstall DEF CleanRetired
  <2>2. RecoveryState'
    BY <1>0, <1>w, <2>0, <2>1 DEF RecoveryState, Upgraded, Staged, Names, WholeBundle
  <2> QED
    BY <2>1, <2>2, ToRecovery
<1> QED
  BY <1>1, <1>2, <1>3, <1>4, <1>5, <1>6, <1>7, <1>8 DEF RecoveryOfInstall

InstallInv ==
    /\ txn.op = "none" => Fresh
    /\ txn.op = "install" /\ Mishaps <= 1 => InstallState

\* What an install finds: an earlier operation that is over has left a bundle
\* in front of every backup, and a whole backup as long as nothing failed.
LEMMA SettledPair ==
  ASSUME TypeInv, RollbackInv, UninstallInv, InstallInv, Mishaps <= 1,
         pc = "idle", journal = None
  PROVE  /\ dirs["target"] = None => dirs["previous"] = None
         /\ Mishaps = 0 /\ dirs["previous"] # None => WholeBundle(dirs["previous"])
<1> USE NoneAssumption
<1>1. CASE txn.op = "none"
  BY <1>1 DEF InstallInv, Fresh
<1>2. CASE txn.op = "rollback"
  BY <1>2 DEF RollbackInv, RollbackState, Untouched, Exchanged, Places, WholeBundle
<1>3. CASE txn.op = "uninstall"
  BY <1>3 DEF UninstallInv, UninstallState, Now, Before, WholeBundle
<1>4. CASE txn.op = "install"
  <2>1. InstallPair /\ Over
    BY <1>4 DEF InstallInv, InstallState
  <2>2. Candidate # None
    BY CandidateIsWhole
  <2> QED
    BY <2>1, <2>2 DEF InstallPair, Over, Restored, Upgraded, Backup
<1> QED
  BY <1>1, <1>2, <1>3, <1>4 DEF TypeInv, TypeOK

LEMMA FreshInductive ==
  ASSUME TypeInv, InstallInv, [Next]_vars, txn'.op = "none"
  PROVE  Fresh'
<1>1. CASE StartInstall \/ StartRollback \/ StartUninstall
  BY <1>1 DEF StartInstall, StartRollback, StartUninstall, Begin
<1>2. CASE Install \/ RecoveryOfInstall
  BY <1>2, InstallKeeps
<1>3. CASE Rollback \/ RecoveryOfRollback
  BY <1>3, RollbackKeeps
<1>4. CASE Uninstall \/ RecoveryOfUninstall
  BY <1>4, UninstallKeeps
<1>5. CASE StartRecover \/ EndRecovery \/ Ending \/ Crash \/ UNCHANGED vars
  <2>1. dirs' = dirs /\ txn' = txn
    BY <1>5 DEF StartRecover, EndRecovery, Ending, Crash, End, Throw, Stop, vars
  <2> QED
    BY <2>1 DEF InstallInv, Fresh, WholeBundle
<1> QED
  BY <1>1, <1>2, <1>3, <1>4, <1>5 DEF Next, Recover

LEMMA MishapsGrow ==
  ASSUME TypeInv, [Next]_vars
  PROVE  Mishaps \in Nat /\ Mishaps' \in Nat /\ Mishaps <= Mishaps'
<1>0. TypeInv'
  BY TypeInductive
<1> USE DEF Mishaps, TypeInv, TypeOK
<1>1. CASE StartInstall \/ StartRollback \/ StartUninstall \/ StartRecover \/ UNCHANGED vars
  BY <1>1 DEF StartInstall, StartRollback, StartUninstall, StartRecover, Begin, history, vars
<1>2. CASE Throw \/ Stop
  BY <1>2 DEF Throw, Stop
<1>3. CASE UNCHANGED history
  BY <1>3 DEF history
<1>4. Install => Throw \/ Stop \/ UNCHANGED <<crashes, failures>>
  BY DEF Install, Stage, Prepare, RetirePrevious, NoteRetired, RotateCurrent,
     NoteRotated, Activate, NoteActivated, Scan, DropRetired, Commit, Clear,
     UndoActivation, UndoRotation, UndoRetirement, Undo, DropFailed, Abandon,
     SweepStage, SweepFailed, SweepRetired,
     Remove, MoveTo, Record, Forget, Skip, Goto, history
<1>5. Rollback => Throw \/ Stop \/ UNCHANGED <<crashes, failures>>
  BY DEF Rollback, PrepareRollback, SwapOut, NoteSwapOut, SwapIn, NoteSwapIn, SwapKeep,
     CommitRollback, ClearRollback, UndoSwapIn, UndoSwapOut, AbandonRollback,
     MoveTo, Record, Forget, Skip, Goto, history
<1>6. Uninstall => Throw \/ Stop \/ UNCHANGED <<crashes, failures>>
  BY DEF Uninstall, PrepareUninstall, RemoveCurrent, NoteCurrent, RemovePrevious,
     NotePrevious, Decide, CommitUninstall, RestorePrevious, RestoreCurrent,
     AbandonUninstall, DropPrevious, DropCurrent, ClearUninstall,
     Remove, MoveTo, Record, Forget, Skip, Goto, history
<1>7. Recover => Throw \/ Stop \/ UNCHANGED <<crashes, failures>>
  BY DEF Recover, RecoveryOfInstall, RecoveryOfRollback, RecoveryOfUninstall,
     RecoverInstall, RecoverActivated, RecoverCurrent, RecoverScrap, RecoverRetired,
     RecoverStage, CleanStage, CleanRetired, RecoverRollback, RecoverSwap,
     RecoverUninstall, CleanTombstone, RecoverPrevious, EndRecovery,
     Return, RemoveOwned, Remove, MoveTo, Skip, Goto, End, history
<1>8. CASE UNCHANGED <<crashes, failures>>
  BY <1>8
<1>9. CASE Ending \/ Crash
  BY <1>2, <1>3, <1>9 DEF Ending, Crash, End
<1> QED
  BY <1>0, <1>1, <1>2, <1>4, <1>5, <1>6, <1>7, <1>8, <1>9 DEF Next

LEMMA InstallInductive ==
  TypeInv /\ RollbackInv /\ UninstallInv /\ InstallInv /\ [Next]_vars => InstallInv'
<1> SUFFICES ASSUME TypeInv, RollbackInv, UninstallInv, InstallInv, [Next]_vars,
                    txn'.op = "install", Mishaps' <= 1
             PROVE  InstallState'
  BY FreshInductive DEF InstallInv
<1> USE NoneAssumption
<1>0. Mishaps <= 1
  BY MishapsGrow
<1>1. CASE StartInstall
  <2>1. pc = "idle" /\ journal = None
    BY <1>1 DEF StartInstall, Begin
  <2> QED
    BY <1>0, <1>1, <2>1, SettledPair, InstallBegins
<1>2. CASE StartRollback \/ StartUninstall
  BY <1>2 DEF StartRollback, StartUninstall, Begin
<1>3. CASE StartRecover
  <2>1. journal # None /\ journal \in Journal /\ journal.op = txn.op
    BY <1>3 DEF StartRecover, TypeInv, TypeOK
  <2>2. /\ txn' = txn /\ dirs' = dirs /\ journal' = journal /\ flags' = flags
        /\ pc = "idle" /\ Mishaps' = Mishaps /\ crashes' = crashes
        /\ Candidate' = Candidate
    BY <1>3 DEF StartRecover, history, Mishaps, Candidate
  <2>3. pc' = "r_install"
    BY <1>3, <2>1, <2>2 DEF StartRecover
  <2>4. InstallPair /\ RecoveryState
    BY <1>0, <2>1, <2>2 DEF InstallInv, InstallState
  <2>5. InstallPair'
    BY <2>2, <2>4, PairKept
  <2>6. Interrupted'
    BY <2>2, <2>4
    DEF RecoveryState, Interrupted, ActivatedLeft, Refused, Upgraded, Backup,
        Unmoved, SetAside, Rotated, Replaced, Trio, PhaseIn
  <2>7. RecoveryState'
    BY <2>2, <2>3, <2>4, <2>6 DEF RecoveryState, Staged, WholeBundle
  <2> QED
    BY <2>3, <2>5, <2>7, ToRecovery DEF RecoveryLines
<1>4. CASE Install \/ RecoveryOfInstall
  <2>1. txn.op = "install" /\ InstallState
    BY <1>0, <1>4, InstallKeeps DEF InstallInv
  <2>2. CASE \/ Stage \/ Prepare \/ RetirePrevious \/ NoteRetired \/ RotateCurrent
             \/ NoteRotated \/ Activate \/ NoteActivated \/ Scan \/ DropRetired
             \/ Commit \/ Clear
    <3>1. pc \in Body
      BY <2>2 DEF Stage, Prepare, RetirePrevious, NoteRetired, RotateCurrent,
         NoteRotated, Activate, NoteActivated, Scan, DropRetired, Commit, Clear, At, Body
    <3> QED
      BY <2>1, <2>2, <3>1, BodyStep
  <2>3. CASE UndoActivation \/ UndoRotation \/ UndoRetirement \/ DropFailed \/ Abandon
    <3>1. pc \in CatchBlock
      BY <2>3 DEF UndoActivation, UndoRotation, UndoRetirement, Undo, DropFailed,
         Abandon, At, CatchBlock
    <3> QED
      BY <2>1, <2>3, <3>1, CatchStep
  <2>4. CASE SweepStage \/ SweepFailed \/ SweepRetired
    BY <2>1, <2>4, FinallyStep
  <2>5. CASE RecoveryOfInstall
    <3>1. pc \in RecoveryLines
      BY <2>5 DEF RecoveryOfInstall, RecoverInstall, RecoverActivated, RecoverCurrent,
         RecoverScrap, RecoverRetired, RecoverStage, CleanStage, CleanRetired, At,
         RecoveryLines
    <3> QED
      BY <2>1, <2>5, <3>1, RecoveryStep
  <2> QED
    BY <1>4, <2>2, <2>3, <2>4, <2>5 DEF Install
<1>5. CASE Rollback \/ RecoveryOfRollback
  BY <1>5, RollbackKeeps
<1>6. CASE Uninstall \/ RecoveryOfUninstall
  BY <1>6, UninstallKeeps
<1>7. CASE EndRecovery
  <2>1. pc = "r_clear" /\ txn' = txn
    BY <1>7 DEF EndRecovery, At, Throw
  <2>2. InstallState
    BY <1>0, <2>1 DEF InstallInv
  <2>3. InstallPair /\ RecoveryState /\ crashes = 1 /\ Mishaps = 1
    BY <1>0, <2>1, <2>2 DEF InstallState, RecoveryLines, RecoveryState, Mishaps,
       TypeInv, TypeOK
  <2>4. /\ journal' = None /\ pc' = "idle" /\ UNCHANGED <<dirs, flags, txn, history>>
    BY <1>7, <2>3, FirstMishap DEF EndRecovery
  <2>5. Mishaps' = Mishaps /\ crashes' = crashes /\ Candidate' = Candidate
    BY <2>4 DEF history, Mishaps, Candidate
  <2>6. InstallPair'
    BY <2>1, <2>3, <2>4, <2>5, PairKept
  <2>7. Over'
    BY <2>1, <2>3, <2>4, <2>5 DEF RecoveryState, Over, Restored, Upgraded, Backup
  <2> QED
    BY <2>4, <2>6, <2>7, ToOver
<1>8. CASE Ending
  <2>1. /\ pc \in Finally /\ pc' = "idle" /\ txn' = txn
        /\ UNCHANGED <<dirs, journal, flags, made, crashes>> /\ Mishaps' = Mishaps
    BY <1>8 DEF Ending, End, Finally, history, Mishaps
  <2>2. InstallState /\ journal = None
    BY <1>0, <2>1 DEF InstallInv, InstallState
  <2> QED
    BY <2>1, <2>2, OverKept
<1>9. CASE Crash
  <2>1. pc # "idle" /\ Stop /\ UNCHANGED dirs /\ txn' = txn
    BY <1>9 DEF Crash, Stop
  <2>2. InstallState
    BY <1>0, <2>1 DEF InstallInv
  <2> QED
    BY <2>1, <2>2, InstallStops
<1>10. CASE UNCHANGED vars
  BY <1>0, <1>10
  DEF vars, InstallInv, InstallState, InstallPair, BodyState, CatchState, RecoveryState,
      Over, ActivatedHeld, RotatedHeld, RetiredHeld, Interrupted, ActivatedLeft, Refused,
      Restored, Upgraded, Backup, Staged, Unmoved, SetAside, Rotated, Replaced, Trio,
      PhaseIn, RetiredFlag, RotatedFlag, Mishaps, Candidate, WholeBundle
<1> QED
  BY <1>1, <1>2, <1>3, <1>4, <1>5, <1>6, <1>7, <1>8, <1>9, <1>10 DEF Next, Recover

LEMMA InstallInitial == Init => InstallInv
<1> SUFFICES ASSUME Init PROVE Fresh
  BY DEF Init, InstallInv
<1>1. /\ dirs["target"] = IF made > 0 THEN [v |-> made, whole |-> TRUE] ELSE None
      /\ dirs["previous"] = IF made = 2 THEN [v |-> 1, whole |-> TRUE] ELSE None
  BY DEF Init, Names
<1> DEFINE first == [v |-> 1, whole |-> TRUE]
<1>2. [v |-> made, whole |-> TRUE] \in Bundle
  BY DEF Init, Bundle
<1>3. first \in Bundle /\ first.whole
  BY DEF Bundle
<1>4. made = 2 => made > 0
  OBVIOUS
<1>5. dirs["previous"] \in {first, None} /\ (dirs["target"] = None => dirs["previous"] = None)
  BY <1>1, <1>2, <1>4, NoneAssumption
<1> QED
  BY <1>3, <1>5 DEF Fresh, WholeBundle

LEMMA InstallerInvariant ==
  Spec => [](TypeInv /\ RollbackInv /\ UninstallInv /\ InstallInv)
<1>1. Init => RollbackInv /\ UninstallInv
  BY DEF Init, RollbackInv, UninstallInv
<1> QED
  BY <1>1, TypeInitial, InstallInitial, TypeInductive, RollbackInductive,
     UninstallInductive, InstallInductive, PTL DEF Spec

(***************************************************************************)
(* Interrupted at most once, an install that is over has left the old      *)
(* bundle active, or the candidate with the old one behind it              *)
(* (install.ps1:228-416, install-lifecycle.ps1:244-275).                   *)
(***************************************************************************)
THEOREM InstallSafe == Spec => []InstallAllOrNothing
<1>1. InstallInv => InstallAllOrNothing
  BY DEF InstallInv, InstallState, Over, Restored, Upgraded, InstallAllOrNothing,
     Settled, Now, Mishaps
<1> QED
  BY <1>1, InstallerInvariant, PTL

(***************************************************************************)
(* An install that fails once before it deletes the old backup puts both   *)
(* bundles back (install.ps1:388-408).                                     *)
(***************************************************************************)
THEOREM FailureSafe == Spec => []FailureRestores
<1>1. TypeInv /\ InstallInv => FailureRestores
  BY DEF TypeInv, TypeOK, InstallInv, InstallState, Over, Restored, Backup,
     FailureRestores, Settled, Now, Before, Mishaps
<1> QED
  BY <1>1, InstallerInvariant, PTL

(***************************************************************************)
(* One crash or failure loses no active bundle, wherever it comes          *)
(* (install.ps1:135-416, install-lifecycle.ps1:228-314).                   *)
(***************************************************************************)
THEOREM ActiveSafe == Spec => []OneMishapKeepsActive
<1>1. ASSUME TypeInv, RollbackInv, InstallInv PROVE OneMishapKeepsActive
  <2> SUFFICES ASSUME Mishaps <= 1, txn.op \in {"install", "rollback"}, txn.target # None
               PROVE  \E d \in Names : dirs[d] = txn.target
    BY DEF OneMishapKeepsActive, ActiveSurvives, Mishaps
  <2>1. CASE txn.op = "rollback"
    BY <1>1, <2>1 DEF RollbackInv, RollbackState, Untouched, TakenOut, HalfWay,
       Exchanged, Places, Names
  <2>2. CASE txn.op = "install"
    <3>0. InstallState
      BY <1>1, <2>2 DEF InstallInv
    <3>1. dirs["target"] = txn.target \/ dirs["previous"] = txn.target
      <4>1. CASE pc \in Body
        <5>1. BodyState
          BY <3>0, <4>1 DEF InstallState
        <5> QED
          BY <4>1, <5>1 DEF Body, BodyState, Unmoved, SetAside, Rotated, Replaced, Trio
      <4>2. CASE pc \in CatchBlock
        <5>1. CatchState
          BY <3>0, <4>2 DEF InstallState
        <5> QED
          BY <4>2, <5>1 DEF CatchBlock, CatchState, ActivatedHeld, RotatedHeld, Restored
      <4>3. CASE pc \in Finally \/ (pc = "idle" /\ journal = None)
        BY <3>0, <4>3 DEF InstallState, Over, Restored, Upgraded
      <4>4. CASE pc \in RecoveryLines \/ (pc = "idle" /\ journal # None)
        <5>1. RecoveryState
          BY <3>0, <4>4 DEF InstallState
        <5> QED
          BY <4>4, <5>1 DEF RecoveryLines, RecoveryState, Interrupted, ActivatedLeft,
             Refused, Restored, Upgraded, Unmoved, SetAside, Rotated, Replaced, Trio
      <4> QED
        BY <1>1, <2>2, <4>1, <4>2, <4>3, <4>4, InstallPlaces
    <3> QED
      BY <3>1 DEF Names
  <2> QED
    BY <2>1, <2>2
<1> QED
  BY <1>1, InstallerInvariant, PTL

=============================================================================
