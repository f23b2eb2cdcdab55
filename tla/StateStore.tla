------------------------------ MODULE StateStore ------------------------------
(***************************************************************************)
(* The files behind one JSON document (src/state.rs, the Windows build):    *)
(* processes read-modify-write it under a lock file and put a new version   *)
(* in place with ReplaceFileW, which retires the old one to a `.replaced`   *)
(* sibling first.  Every file operation may fail, every process may die     *)
(* between any two of them, and the next holder of the lock tidies up.      *)
(*                                                                          *)
(* A document is the set of processes whose update it contains; a version   *)
(* also carries the modification time that recovery sorts by.               *)
(***************************************************************************)
EXTENDS Integers

CONSTANTS Procs,          \* the processes, each with one update to make
          Nobody,         \* no holder
          MaxWrites,      \* bound on the versions written
          ScanReliable    \* directory listings and metadata never fail

ASSUME StoreAssumption ==
  /\ Nobody \notin Procs
  /\ MaxWrites \in Nat
  /\ ScanReliable \in BOOLEAN

VARIABLES pc,             \* where each process stands in with_state_lock
          lock,           \* who holds the `.lock` file
          dest,           \* the document's file
          backups,        \* the `.replaced` siblings
          pending,        \* the `.pending` file of a running update
          retired,        \* its local `backup`
          clock,          \* versions written so far, as modification times
          acked           \* processes whose update returned Ok

vars == <<pc, lock, dest, backups, pending, retired, clock, acked>>

Version == [data : SUBSET Procs, time : Nat]
NoFile  == [data |-> {}, time |-> 0]      \* written versions have time > 0

TypeOK ==
  /\ pc \in [Procs -> {"idle", "wait", "recover", "sweep", "load", "replace",
                       "activate", "restore", "drop", "return"}]
  /\ lock \in Procs \union {Nobody}
  /\ dest \in Version
  /\ backups \in SUBSET Version
  /\ pending \in [Procs -> Version]
  /\ retired \in [Procs -> Version]
  /\ clock \in Nat
  /\ acked \in SUBSET Procs

Init ==
  /\ pc = [p \in Procs |-> "idle"]
  /\ lock = Nobody
  /\ dest = NoFile /\ backups = {}
  /\ pending = [p \in Procs |-> NoFile]
  /\ retired = [p \in Procs |-> NoFile]
  /\ clock = 0 /\ acked = {}

At(p, here)    == pc[p] = here
Goto(p, there) == pc' = [pc EXCEPT ![p] = there]

\* The action returns, with or without an error: PendingFile is dropped, the
\* lock's handle closed.
Leave(p) ==
  /\ Goto(p, "idle")
  /\ lock' = IF lock = p THEN Nobody ELSE lock
  /\ pending' = [pending EXCEPT ![p] = NoFile]
  /\ retired' = [retired EXCEPT ![p] = NoFile]
  /\ UNCHANGED clock

Fail(p) == Leave(p) /\ UNCHANGED <<dest, backups, acked>>

\* Path::exists answers no also when it cannot tell.
Exists      == dest # NoFile
SeemsAbsent == dest = NoFile \/ ~ScanReliable

Begin(p) ==
  /\ At(p, "idle") /\ p \notin acked
  /\ Goto(p, "wait")
  /\ UNCHANGED <<lock, dest, backups, pending, retired, clock, acked>>

\* Mutant: a lock that excludes nobody.
Acquire_Shared(p) ==
  /\ At(p, "wait") /\ clock < MaxWrites
  /\ lock' = p /\ Goto(p, "recover")
  /\ UNCHANGED <<dest, backups, pending, retired, clock, acked>>

Acquire(p) ==
  /\ At(p, "wait") /\ lock = Nobody /\ clock < MaxWrites
  /\ lock' = p /\ Goto(p, "recover")
  /\ UNCHANGED <<dest, backups, pending, retired, clock, acked>>

\* Mutant: a waiter gives up only when it could have had the lock.
TimeOut_Free(p) == At(p, "wait") /\ lock = Nobody /\ Fail(p)

\* Ten seconds without the lock.
TimeOut(p) == At(p, "wait") /\ Fail(p)

\* Mutant: the list is popped at the wrong end.
Latest_Oldest(versions) ==
  {b \in versions : \A c \in versions : b.time <= c.time}

\* The sibling modified last; one whose metadata cannot be read sorts first.
Latest(versions) ==
  {b \in versions : ~ScanReliable \/ \A c \in versions : c.time <= b.time}

\* recover_and_cleanup_orphaned_siblings, first half.
Recover(p) ==
  /\ At(p, "recover")
  /\ \/ /\ Exists \/ backups = {}       \* nothing to recover
        /\ Goto(p, "sweep")
        /\ UNCHANGED <<lock, dest, backups, pending, retired, clock, acked>>
     \/ /\ SeemsAbsent /\ backups # {}
        /\ \/ \E b \in Latest(backups) :             \* rename replaces dest
                /\ dest' = b /\ backups' = backups \ {b}
                /\ Goto(p, "sweep")
                /\ UNCHANGED <<lock, pending, retired, clock, acked>>
           \/ Fail(p)
     \/ /\ ~ScanReliable                             \* read_dir failed
        /\ Goto(p, "load")
        /\ UNCHANGED <<lock, dest, backups, pending, retired, clock, acked>>

\* Second half: what is left is removed, as far as Windows lets it.
Sweep(p) ==
  /\ At(p, "sweep")
  /\ backups' \in SUBSET backups
  /\ Goto(p, "load")
  /\ UNCHANGED <<lock, dest, pending, retired, clock, acked>>

\* mutate, validate, write and sync the pending file.
Prepare(p, loaded) ==
  /\ clock' = clock + 1
  /\ pending' = [pending EXCEPT ![p] =
                   [data |-> loaded \union {p}, time |-> clock']]
  /\ Goto(p, "replace")
  /\ UNCHANGED <<lock, dest, backups, retired, acked>>

\* The document is loaded under the lock; one that does not exist is empty.
Load(p) ==
  /\ At(p, "load")
  /\ \/ Exists /\ Prepare(p, dest.data)
     \/ SeemsAbsent /\ Prepare(p, {})
     \/ Fail(p)

\* replace_file up to the first half of ReplaceFileW, or the plain move when
\* there is nothing to replace (MoveFileExW refuses an existing target).
Replace(p) ==
  /\ At(p, "replace")
  /\ \/ /\ Exists
        /\ dest' = NoFile /\ backups' = backups \union {dest}
        /\ retired' = [retired EXCEPT ![p] = dest]
        /\ Goto(p, "activate")
        /\ UNCHANGED <<lock, pending, clock, acked>>
     \/ /\ ~Exists
        /\ dest' = pending[p]
        /\ pending' = [pending EXCEPT ![p] = NoFile]
        /\ Goto(p, "return")
        /\ UNCHANGED <<lock, backups, retired, clock, acked>>
     \/ Fail(p)

\* The second half of ReplaceFileW.
Activate(p) ==
  /\ At(p, "activate")
  /\ \/ /\ dest' = pending[p]
        /\ pending' = [pending EXCEPT ![p] = NoFile]
        /\ Goto(p, "drop")
     \/ /\ Goto(p, "restore")
        /\ UNCHANGED <<dest, pending>>
  /\ UNCHANGED <<lock, backups, retired, clock, acked>>

\* ReplaceFileW failed half-way: the old version is moved back, or that fails
\* as well and is left to the next holder.
Restore(p) ==
  /\ At(p, "restore")
  /\ \/ /\ ~Exists
        /\ dest' = retired[p] /\ backups' = backups \ {retired[p]}
        /\ Leave(p) /\ UNCHANGED acked
     \/ Fail(p)

Drop(p) ==
  /\ At(p, "drop")
  /\ backups' \in {backups, backups \ {retired[p]}}
  /\ Goto(p, "return")
  /\ UNCHANGED <<lock, dest, pending, retired, clock, acked>>

Return(p) ==
  /\ At(p, "return")
  /\ acked' = acked \union {p}
  /\ Leave(p) /\ UNCHANGED <<dest, backups>>

\* The process dies; Windows closes its lock handle.  An orphaned pending file
\* has a name nobody reads again, so it is forgotten here.
Crash(p) == ~At(p, "idle") /\ Fail(p)

Step(p) ==
  \/ Begin(p) \/ Acquire(p) \/ TimeOut(p) \/ Recover(p) \/ Sweep(p) \/ Load(p)
  \/ Replace(p) \/ Activate(p) \/ Restore(p) \/ Drop(p) \/ Return(p) \/ Crash(p)

Next == \E p \in Procs : Step(p)

Spec == Init /\ [][Next]_vars

\* A waiter keeps polling; nothing is assumed of the holder.
FairSpec == Spec /\ \A p \in Procs : WF_vars(Acquire(p) \/ TimeOut(p))

----------------------------------------------------------------------------
(* Properties. *)

Newest(versions) ==
  CHOOSE b \in versions : \A c \in versions : c.time <= b.time

\* The document as the next holder of the lock will find it.
Current ==
  IF dest # NoFile THEN dest.data
  ELSE IF backups = {} THEN {} ELSE Newest(backups).data

\* Updates that returned Ok are never lost, whatever fails or dies after them.
NoLostUpdate == acked \subseteq Current

\* The store behaves as one register to which each update is applied at one
\* instant.
Register == INSTANCE StateRegister WITH value <- Current
RegisterSpec == Register!Spec

\* Waiting for the lock ends even if its holder never moves again.
WaiterReturns == \A p \in Procs : At(p, "wait") ~> ~At(p, "wait")
=============================================================================
