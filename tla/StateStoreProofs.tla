--------------------------- MODULE StateStoreProofs ---------------------------
(***************************************************************************)
(* The state store keeps acknowledged updates and implements the register,  *)
(* for any number of processes and writes, as long as directories can be    *)
(* listed.                                                                  *)
(*                                                                          *)
(* FileInv orders the versions on disk by their times, WorkInv says what    *)
(* the holder of the lock knows about them at each point of its update.     *)
(***************************************************************************)
EXTENDS StateStore, TLAPS

Locked == {"recover", "sweep", "load", "replace", "activate", "restore",
           "drop", "return"}

Tops(b, versions) == b \in versions /\ \A c \in versions : c.time <= b.time

FileInv ==
  /\ dest # NoFile => dest.time \in 1..clock
  /\ \A b \in backups : b.time \in 1..clock
  /\ \A b, c \in backups : b.time = c.time => b = c
  /\ dest # NoFile => \A b \in backups : b.time < dest.time
  /\ dest = NoFile /\ backups # {} => \E b \in backups : Tops(b, backups)

HolderInv == \A p \in Procs : pc[p] \in Locked => lock = p

Work(p) ==
  /\ pc[p] \in {"sweep", "load", "replace"} => dest # NoFile \/ backups = {}
  /\ pc[p] \in {"replace", "activate"} =>
       /\ pending[p].time \in 1..clock
       /\ \A b \in backups : b.time < pending[p].time
  /\ pc[p] = "replace" =>
       /\ dest.time < pending[p].time
       /\ pending[p].data = dest.data \union {p}
  /\ pc[p] \in {"activate", "restore"} =>
       dest = NoFile /\ Tops(retired[p], backups)
  /\ pc[p] = "activate" => pending[p].data = retired[p].data \union {p}
  /\ pc[p] \in {"drop", "return"} => dest # NoFile /\ p \in dest.data

WorkInv == \A p \in Procs : Work(p)

Inv == TypeOK /\ FileInv /\ HolderInv /\ WorkInv /\ NoLostUpdate

----------------------------------------------------------------------------

\* The version that tops the backups is the one recovery picks.
LEMMA NewestTops ==
  ASSUME NEW versions, NEW b, Tops(b, versions),
         \A c, d \in versions : c.time = d.time => c = d,
         \A c \in versions : c.time \in Int
  PROVE  Newest(versions) = b
<1> DEFINE n == Newest(versions)
<1>1. n \in versions /\ \A c \in versions : c.time <= n.time
  BY DEF Newest, Tops
<1>2. n.time <= b.time /\ b.time <= n.time
  BY <1>1 DEF Tops
<1>3. n.time = b.time
  BY <1>1, <1>2 DEF Tops
<1> QED  BY <1>1, <1>3 DEF Tops

\* Types survive every step.
LEMMA TypeStep == TypeOK /\ [Next]_vars => TypeOK'
<1> SUFFICES ASSUME TypeOK, [Next]_vars PROVE TypeOK'
  OBVIOUS
<1> USE StoreAssumption DEF TypeOK
<1>1. NoFile \in Version
  BY DEF NoFile, Version
<1>2. ASSUME NEW p \in Procs, Step(p) PROVE TypeOK'
  <2> USE <1>1 DEF At, Goto, Exists
  <2>0. ASSUME Leave(p)
        PROVE  /\ pc' \in [Procs -> {"idle", "wait", "recover", "sweep", "load",
                                     "replace", "activate", "restore", "drop",
                                     "return"}]
               /\ lock' \in Procs \union {Nobody}
               /\ pending' \in [Procs -> Version]
               /\ retired' \in [Procs -> Version]
               /\ clock' \in Nat
    BY <2>0 DEF Leave
  <2>1. CASE Begin(p)
    BY <2>1 DEF Begin
  <2>2. CASE Acquire(p)
    BY <2>2 DEF Acquire
  <2>3. CASE TimeOut(p)
    BY <2>0, <2>3 DEF TimeOut, Fail
  <2>4. CASE Recover(p)
    BY <2>0, <2>4 DEF Recover, Latest, Fail
  <2>5. CASE Sweep(p)
    BY <2>5 DEF Sweep
  <2>6. CASE Load(p)
    <3>1. ASSUME NEW loaded \in SUBSET Procs, Prepare(p, loaded) PROVE TypeOK'
      <4>1. [data |-> loaded \union {p}, time |-> clock'] \in Version
        BY <3>1 DEF Prepare, Version
      <4> QED  BY <3>1, <4>1 DEF Prepare
    <3>2. dest.data \in SUBSET Procs
      BY DEF Version
    <3> QED  BY <2>0, <2>6, <3>1, <3>2 DEF Load, Fail
  <2>7. CASE Replace(p)
    BY <2>0, <2>7 DEF Replace, Fail
  <2>8. CASE Activate(p)
    BY <2>8 DEF Activate
  <2>9. CASE Restore(p)
    BY <2>0, <2>9 DEF Restore, Fail
  <2>10. CASE Drop(p)
    BY <2>10 DEF Drop
  <2>11. CASE Return(p)
    BY <2>0, <2>11 DEF Return
  <2>12. CASE Crash(p)
    BY <2>0, <2>12 DEF Crash, Fail
  <2> QED
    BY <1>2, <2>1, <2>2, <2>3, <2>4, <2>5, <2>6, <2>7, <2>8, <2>9, <2>10,
       <2>11, <2>12 DEF Step
<1>3. CASE UNCHANGED vars
  BY <1>3 DEF vars
<1> QED  BY <1>2, <1>3 DEF Next

----------------------------------------------------------------------------

\* The lock excludes: while p holds it nobody else is inside.
LEMMA OthersOutside ==
  ASSUME HolderInv, NEW p \in Procs, NEW q \in Procs, q # p, pc[p] \in Locked
  PROVE  pc[q] \notin Locked
BY DEF HolderInv

\* Outside, a process has nothing at stake.
LEMMA OutsideWork ==
  ASSUME NEW q \in Procs, pc'[q] \notin Locked
  PROVE  Work(q)'
BY DEF Work, Locked

\* A step of p that leaves the other processes where they are preserves the
\* holder's and everyone's working knowledge, if it preserves p's.
LEMMA Framed ==
  ASSUME TypeOK, HolderInv, WorkInv, NEW p \in Procs, NEW there,
         pc' = [pc EXCEPT ![p] = there],
         pc[p] \in Locked,
         lock' = lock \/ there \notin Locked,
         Work(p)'
  PROVE  HolderInv' /\ WorkInv'
<1>1. ASSUME NEW q \in Procs, q # p PROVE pc'[q] = pc[q] /\ pc[q] \notin Locked
  BY <1>1, OthersOutside DEF TypeOK
<1>2. pc'[p] = there
  BY DEF TypeOK
<1>3. HolderInv'
  BY <1>1, <1>2 DEF HolderInv
<1>4. WorkInv'
  BY <1>1, OutsideWork DEF WorkInv
<1> QED  BY <1>3, <1>4

\* Leaving without touching the files preserves everything.
LEMMA FailKeeps ==
  ASSUME Inv, NEW p \in Procs, Fail(p)
  PROVE  FileInv' /\ HolderInv' /\ WorkInv' /\ UNCHANGED <<Current, acked>>
<1>1. /\ UNCHANGED <<dest, backups, acked, clock>>
      /\ pc' = [pc EXCEPT ![p] = "idle"]
      /\ pending' = [pending EXCEPT ![p] = NoFile]
      /\ retired' = [retired EXCEPT ![p] = NoFile]
      /\ lock' = IF lock = p THEN Nobody ELSE lock
  BY DEF Fail, Leave, Goto
<1>2. FileInv'
  BY <1>1 DEF Inv, FileInv, Tops
<1>3. pc'[p] = "idle"
  BY <1>1 DEF Inv, TypeOK
<1>4. ASSUME NEW q \in Procs, q # p
      PROVE  pc'[q] = pc[q] /\ pending'[q] = pending[q] /\ retired'[q] = retired[q]
  BY <1>1, <1>4 DEF Inv, TypeOK
<1>5. HolderInv'
  BY <1>1, <1>3, <1>4 DEF Inv, HolderInv, Locked
<1>6. ASSUME NEW q \in Procs PROVE Work(q)'
  <2>1. CASE q = p
    BY <1>3, <2>1, OutsideWork DEF Locked
  <2>2. CASE q # p
    BY <1>1, <1>4, <2>2 DEF Inv, WorkInv, Work, Tops
  <2> QED  BY <2>1, <2>2
<1>7. WorkInv'
  BY <1>6 DEF WorkInv
<1>8. Current' = Current
  BY <1>1 DEF Current
<1> QED  BY <1>1, <1>2, <1>5, <1>7, <1>8

Keeps(p) ==
  /\ FileInv' /\ HolderInv' /\ WorkInv'
  /\ UNCHANGED <<Current, acked>> \/ Register!Commit(p) \/ Register!Acknowledge(p)

\* Beginning, getting the lock and giving up on it.
LEMMA OutsideKeeps ==
  ASSUME Inv, NEW p \in Procs, Begin(p) \/ Acquire(p) \/ TimeOut(p) \/ Crash(p)
  PROVE  Keeps(p)
<1>1. CASE TimeOut(p) \/ Crash(p)
  BY <1>1, FailKeeps DEF TimeOut, Crash, Keeps
<1>2. CASE Begin(p) \/ Acquire(p)
  <2>1. /\ UNCHANGED <<dest, backups, pending, retired, clock, acked>>
        /\ pc' \in {[pc EXCEPT ![p] = "wait"], [pc EXCEPT ![p] = "recover"]}
        /\ \/ UNCHANGED lock /\ pc' = [pc EXCEPT ![p] = "wait"]
           \/ lock = Nobody /\ lock' = p
    BY <1>2 DEF Begin, Acquire, Goto
  <2>2. FileInv' /\ Current' = Current
    BY <2>1 DEF Inv, FileInv, Tops, Current
  <2>3. ASSUME NEW q \in Procs, q # p PROVE pc'[q] = pc[q]
    BY <2>1, <2>3 DEF Inv, TypeOK
  <2>4. pc'[p] \in {"wait", "recover"}
    BY <2>1 DEF Inv, TypeOK
  <2>5. HolderInv'
    <3>1. CASE UNCHANGED lock /\ pc' = [pc EXCEPT ![p] = "wait"]
      <4>1. pc'[p] = "wait"
        BY <3>1 DEF Inv, TypeOK
      <4> QED  BY <2>3, <3>1, <4>1 DEF Inv, HolderInv, Locked
    <3>2. CASE lock = Nobody /\ lock' = p
      <4>1. \A q \in Procs : pc[q] \notin Locked
        BY <3>2, StoreAssumption DEF Inv, HolderInv
      <4> QED  BY <2>3, <3>2, <4>1 DEF HolderInv
    <3> QED  BY <2>1, <3>1, <3>2
  <2>6. ASSUME NEW q \in Procs PROVE Work(q)'
    <3>1. CASE q = p
      BY <2>4, <3>1 DEF Work
    <3>2. CASE q # p
      BY <2>1, <2>3, <3>2 DEF Inv, WorkInv, Work, Tops
    <3> QED  BY <3>1, <3>2
  <2> QED  BY <2>1, <2>2, <2>5, <2>6 DEF Keeps, WorkInv
<1> QED  BY <1>1, <1>2

\* Recovery brings back the current document and nothing else.
LEMMA RecoverKeeps ==
  ASSUME ScanReliable, Inv, NEW p \in Procs, Recover(p)
  PROVE  Keeps(p)
<1> USE DEF Inv
<1>0. pc[p] = "recover" /\ pc[p] \in Locked
  BY DEF Recover, At, Locked
<1>1. CASE Fail(p)
  BY <1>1, FailKeeps DEF Keeps
<1>2. CASE /\ Exists \/ backups = {}
           /\ Goto(p, "sweep")
           /\ UNCHANGED <<lock, dest, backups, pending, retired, clock, acked>>
  <2>1. FileInv' /\ Current' = Current
    BY <1>2 DEF FileInv, Tops, Current
  <2>2. pc' = [pc EXCEPT ![p] = "sweep"] /\ pc'[p] = "sweep"
    BY <1>2 DEF Goto, TypeOK
  <2>3. Work(p)'
    BY <1>2, <2>2 DEF Work, Exists
  <2>4. HolderInv' /\ WorkInv'
    BY <1>0, <1>2, <2>2, <2>3, Framed
  <2> QED  BY <1>2, <2>1, <2>4 DEF Keeps
<1>3. CASE /\ SeemsAbsent
           /\ \E b \in Latest(backups) :
                /\ dest' = b /\ backups' = backups \ {b}
                /\ Goto(p, "sweep")
                /\ UNCHANGED <<lock, pending, retired, clock, acked>>
  <2>1. PICK b \in Latest(backups) :
               /\ dest' = b /\ backups' = backups \ {b}
               /\ Goto(p, "sweep")
               /\ UNCHANGED <<lock, pending, retired, clock, acked>>
    BY <1>3
  <2>2. Tops(b, backups) /\ dest = NoFile
    BY <1>3 DEF Latest, Tops, SeemsAbsent
  <2>3. b # NoFile /\ b.time \in 1..clock
    BY <2>2 DEF FileInv, Tops, NoFile
  <2>4. \A c \in backups' : c.time < b.time
    <3> SUFFICES ASSUME NEW c \in backups, c # b PROVE c.time < b.time
      BY <2>1
    <3>1. c.time <= b.time /\ c.time # b.time
      BY <2>2 DEF FileInv, Tops
    <3> QED  BY <2>3, <3>1 DEF FileInv
  <2>5. FileInv'
    BY <2>1, <2>3, <2>4 DEF FileInv
  <2>6. Current = b.data
    <3>1. Newest(backups) = b
      BY <2>2, NewestTops DEF FileInv
    <3> QED  BY <2>2, <3>1 DEF Current, Tops
  <2>7. Current' = b.data
    BY <2>1, <2>3 DEF Current
  <2>8. pc' = [pc EXCEPT ![p] = "sweep"] /\ pc'[p] = "sweep"
    BY <2>1 DEF Goto, TypeOK
  <2>9. Work(p)'
    BY <2>1, <2>3, <2>8 DEF Work
  <2>10. HolderInv' /\ WorkInv'
    BY <1>0, <2>1, <2>8, <2>9, Framed
  <2> QED  BY <2>1, <2>5, <2>6, <2>7, <2>10 DEF Keeps
<1> QED  BY <1>1, <1>2, <1>3 DEF Recover

\* What the sweep removes is older than the document.
LEMMA SweepKeeps ==
  ASSUME Inv, NEW p \in Procs, Sweep(p)
  PROVE  Keeps(p)
<1> USE DEF Inv
<1>1. /\ pc[p] = "sweep" /\ pc[p] \in Locked
      /\ backups' \subseteq backups
      /\ UNCHANGED <<lock, dest, pending, retired, clock, acked>>
      /\ pc' = [pc EXCEPT ![p] = "load"] /\ pc'[p] = "load"
  BY DEF Sweep, At, Goto, Locked, TypeOK
<1>2. dest # NoFile \/ backups = {}
  BY <1>1 DEF WorkInv, Work
<1>3. FileInv'
  BY <1>1, <1>2 DEF FileInv
<1>4. Current' = Current
  BY <1>1, <1>2 DEF Current
<1>5. Work(p)'
  BY <1>1, <1>2 DEF Work
<1>6. HolderInv' /\ WorkInv'
  BY <1>1, <1>5, Framed
<1> QED  BY <1>1, <1>3, <1>4, <1>6 DEF Keeps

\* The new version is the current document and the update, and newer than
\* every version there is.
LEMMA LoadKeeps ==
  ASSUME ScanReliable, Inv, NEW p \in Procs, Load(p)
  PROVE  Keeps(p)
<1> USE DEF Inv
<1>1. CASE Fail(p)
  BY <1>1, FailKeeps DEF Keeps
<1>2. CASE Prepare(p, dest.data)
  <2>1. /\ pc[p] = "load" /\ pc[p] \in Locked
        /\ clock' = clock + 1 /\ clock \in Nat
        /\ UNCHANGED <<lock, dest, backups, retired, acked>>
        /\ pc' = [pc EXCEPT ![p] = "replace"] /\ pc'[p] = "replace"
        /\ pending'[p] = [data |-> dest.data \union {p}, time |-> clock + 1]
    BY <1>2 DEF Load, Prepare, At, Goto, Locked, TypeOK
  <2>2. dest # NoFile \/ backups = {}
    BY <2>1 DEF WorkInv, Work
  <2>3. dest.time \in 0..clock
    BY <2>1 DEF FileInv, NoFile
  <2>4. FileInv'
    BY <2>1 DEF FileInv, Tops
  <2>5. Current' = Current
    BY <2>1 DEF Current
  <2>6. pending'[p].time = clock + 1 /\ pending'[p].data = dest.data \union {p}
    BY <2>1
  <2>7. Work(p)'
    BY <2>1, <2>2, <2>3, <2>6 DEF Work, FileInv
  <2>8. HolderInv' /\ WorkInv'
    BY <2>1, <2>7, Framed
  <2> QED  BY <2>1, <2>4, <2>5, <2>8 DEF Keeps
<1>3. CASE SeemsAbsent /\ Prepare(p, {})
  <2>1. dest.data = {}
    BY <1>3 DEF SeemsAbsent, NoFile
  <2> QED  BY <1>2, <1>3, <2>1
<1> QED  BY <1>1, <1>2, <1>3 DEF Load

\* Retiring the document makes it the newest sibling; with nothing to retire
\* the new version is in place at once.
LEMMA ReplaceKeeps ==
  ASSUME Inv, NEW p \in Procs, Replace(p)
  PROVE  Keeps(p)
<1> USE DEF Inv
<1>0. pc[p] = "replace" /\ pc[p] \in Locked /\ Work(p)
  BY DEF Replace, At, Locked, WorkInv
<1>1. CASE Fail(p)
  BY <1>1, FailKeeps DEF Keeps
<1>2. CASE /\ Exists
           /\ dest' = NoFile /\ backups' = backups \union {dest}
           /\ retired' = [retired EXCEPT ![p] = dest]
           /\ Goto(p, "activate")
           /\ UNCHANGED <<lock, pending, clock, acked>>
  <2>1. /\ pc' = [pc EXCEPT ![p] = "activate"] /\ pc'[p] = "activate"
        /\ retired'[p] = dest
    BY <1>2 DEF Goto, TypeOK
  <2>2. dest.time \in 1..clock /\ \A b \in backups : b.time < dest.time
    BY <1>2 DEF FileInv, Exists
  <2>3. Tops(dest, backups')
    BY <1>2, <2>2 DEF Tops, FileInv
  <2>4. FileInv'
    BY <1>2, <2>2, <2>3 DEF FileInv
  <2>5. Current = dest.data
    BY <1>2 DEF Current, Exists
  <2>6. Current' = dest.data
    <3>1. Newest(backups') = dest
      BY <2>3, <2>4, NewestTops DEF FileInv
    <3> QED  BY <1>2, <3>1 DEF Current
  <2>7. Work(p)'
    BY <1>0, <1>2, <2>1, <2>3 DEF Work
  <2>8. HolderInv' /\ WorkInv'
    BY <1>0, <1>2, <2>1, <2>7, Framed
  <2> QED  BY <1>2, <2>4, <2>5, <2>6, <2>8 DEF Keeps
<1>3. CASE /\ ~Exists
           /\ dest' = pending[p]
           /\ pending' = [pending EXCEPT ![p] = NoFile]
           /\ Goto(p, "return")
           /\ UNCHANGED <<lock, backups, retired, clock, acked>>
  <2>1. pc' = [pc EXCEPT ![p] = "return"] /\ pc'[p] = "return"
    BY <1>3 DEF Goto, TypeOK
  <2>2. dest = NoFile /\ backups = {}
    BY <1>0, <1>3 DEF Work, Exists
  <2>3. pending[p].time \in 1..clock /\ pending[p].data = dest.data \union {p}
    BY <1>0 DEF Work
  <2>4. pending[p] # NoFile /\ p \in pending[p].data
    BY <2>3 DEF NoFile
  <2>5. FileInv'
    BY <1>3, <2>2, <2>3 DEF FileInv
  <2>6. Current = {} /\ dest.data = {}
    BY <2>2 DEF Current, NoFile
  <2>7. Current' = {p}
    BY <1>3, <2>3, <2>4, <2>6 DEF Current
  <2>8. Work(p)'
    BY <1>3, <2>1, <2>4 DEF Work
  <2>9. HolderInv' /\ WorkInv'
    BY <1>0, <1>3, <2>1, <2>8, Framed
  <2> QED  BY <1>3, <2>5, <2>6, <2>7, <2>9 DEF Keeps, Register!Commit
<1> QED  BY <1>1, <1>2, <1>3 DEF Replace

\* The instant at which an update takes effect.
LEMMA ActivateKeeps ==
  ASSUME Inv, NEW p \in Procs, Activate(p)
  PROVE  Keeps(p)
<1> USE DEF Inv
<1>0. /\ pc[p] = "activate" /\ pc[p] \in Locked /\ Work(p)
      /\ UNCHANGED <<lock, backups, retired, clock, acked>>
  BY DEF Activate, At, Locked, WorkInv
<1>1. dest = NoFile /\ Tops(retired[p], backups)
  BY <1>0 DEF Work
<1>2. Current = retired[p].data
  <2>1. Newest(backups) = retired[p]
    BY <1>1, NewestTops DEF FileInv
  <2> QED  BY <1>1, <2>1 DEF Current, Tops
<1>3. CASE /\ dest' = pending[p]
           /\ pending' = [pending EXCEPT ![p] = NoFile]
           /\ Goto(p, "drop")
  <2>1. pc' = [pc EXCEPT ![p] = "drop"] /\ pc'[p] = "drop"
    BY <1>3 DEF Goto, TypeOK
  <2>2. /\ pending[p].time \in 1..clock
        /\ \A b \in backups : b.time < pending[p].time
        /\ pending[p].data = retired[p].data \union {p}
    BY <1>0 DEF Work
  <2>3. pending[p] # NoFile /\ p \in pending[p].data
    BY <2>2 DEF NoFile
  <2>4. FileInv'
    BY <1>0, <1>3, <2>2, <2>3 DEF FileInv
  <2>5. Current' = Current \union {p}
    BY <1>2, <1>3, <2>2, <2>3 DEF Current
  <2>6. Work(p)'
    BY <1>3, <2>1, <2>3 DEF Work
  <2>7. HolderInv' /\ WorkInv'
    BY <1>0, <2>1, <2>6, Framed
  <2> QED  BY <1>0, <2>4, <2>5, <2>7 DEF Keeps, Register!Commit
<1>4. CASE Goto(p, "restore") /\ UNCHANGED <<dest, pending>>
  <2>1. pc' = [pc EXCEPT ![p] = "restore"] /\ pc'[p] = "restore"
    BY <1>4 DEF Goto, TypeOK
  <2>2. FileInv' /\ Current' = Current
    BY <1>0, <1>4 DEF FileInv, Tops, Current
  <2>3. Work(p)'
    BY <1>0, <1>1, <1>4, <2>1 DEF Work, Tops
  <2>4. HolderInv' /\ WorkInv'
    BY <1>0, <2>1, <2>3, Framed
  <2> QED  BY <1>0, <2>2, <2>4 DEF Keeps
<1> QED  BY <1>3, <1>4 DEF Activate

\* Moving the retired document back changes where it is, not what it is.
LEMMA RestoreKeeps ==
  ASSUME Inv, NEW p \in Procs, Restore(p)
  PROVE  Keeps(p)
<1> USE DEF Inv
<1>0. pc[p] = "restore" /\ pc[p] \in Locked /\ Work(p)
  BY DEF Restore, At, Locked, WorkInv
<1>1. CASE Fail(p)
  BY <1>1, FailKeeps DEF Keeps
<1>2. CASE /\ dest' = retired[p] /\ backups' = backups \ {retired[p]}
           /\ Leave(p) /\ UNCHANGED acked
  <2>1. /\ pc' = [pc EXCEPT ![p] = "idle"] /\ pc'[p] = "idle"
        /\ UNCHANGED <<clock, acked>>
    BY <1>2 DEF Leave, Goto, TypeOK
  <2>2. dest = NoFile /\ Tops(retired[p], backups)
    BY <1>0 DEF Work
  <2>3. retired[p] # NoFile /\ retired[p].time \in 1..clock
    BY <2>2 DEF FileInv, Tops, NoFile
  <2>4. \A c \in backups' : c.time < retired[p].time
    <3> SUFFICES ASSUME NEW c \in backups, c # retired[p]
                 PROVE  c.time < retired[p].time
      BY <1>2
    <3>1. c.time <= retired[p].time /\ c.time # retired[p].time
      BY <2>2 DEF FileInv, Tops
    <3> QED  BY <2>3, <3>1 DEF FileInv
  <2>5. FileInv'
    BY <1>2, <2>1, <2>3, <2>4 DEF FileInv
  <2>6. Current = retired[p].data
    <3>1. Newest(backups) = retired[p]
      BY <2>2, NewestTops DEF FileInv
    <3> QED  BY <2>2, <3>1 DEF Current, Tops
  <2>7. Current' = retired[p].data
    BY <1>2, <2>3 DEF Current
  <2>8. Work(p)'
    BY <2>1, OutsideWork DEF Locked
  <2>9. HolderInv' /\ WorkInv'
    BY <1>0, <2>1, <2>8, Framed DEF Locked
  <2> QED  BY <2>1, <2>5, <2>6, <2>7, <2>9 DEF Keeps
<1> QED  BY <1>1, <1>2 DEF Restore

\* The retired version is older than the document.
LEMMA DropKeeps ==
  ASSUME Inv, NEW p \in Procs, Drop(p)
  PROVE  Keeps(p)
<1> USE DEF Inv
<1>1. /\ pc[p] = "drop" /\ pc[p] \in Locked
      /\ backups' \subseteq backups
      /\ UNCHANGED <<lock, dest, pending, retired, clock, acked>>
      /\ pc' = [pc EXCEPT ![p] = "return"] /\ pc'[p] = "return"
  BY DEF Drop, At, Goto, Locked, TypeOK
<1>2. dest # NoFile /\ p \in dest.data
  BY <1>1 DEF WorkInv, Work
<1>3. FileInv'
  BY <1>1, <1>2 DEF FileInv
<1>4. Current' = Current
  BY <1>1, <1>2 DEF Current
<1>5. Work(p)'
  BY <1>1, <1>2 DEF Work
<1>6. HolderInv' /\ WorkInv'
  BY <1>1, <1>5, Framed
<1> QED  BY <1>1, <1>3, <1>4, <1>6 DEF Keeps

\* An update is reported when it is in the document.
LEMMA ReturnKeeps ==
  ASSUME Inv, NEW p \in Procs, Return(p)
  PROVE  Keeps(p)
<1> USE DEF Inv
<1>1. /\ pc[p] = "return" /\ pc[p] \in Locked
      /\ acked' = acked \union {p}
      /\ UNCHANGED <<dest, backups, clock>>
      /\ pc' = [pc EXCEPT ![p] = "idle"] /\ pc'[p] = "idle"
  BY DEF Return, Leave, At, Goto, Locked, TypeOK
<1>2. dest # NoFile /\ p \in dest.data
  BY <1>1 DEF WorkInv, Work
<1>3. FileInv' /\ Current' = Current /\ p \in Current
  BY <1>1, <1>2 DEF FileInv, Tops, Current
<1>4. Work(p)'
  BY <1>1, OutsideWork DEF Locked
<1>5. HolderInv' /\ WorkInv'
  BY <1>1, <1>4, Framed DEF Locked
<1> QED  BY <1>1, <1>3, <1>5 DEF Keeps, Register!Acknowledge

----------------------------------------------------------------------------

\* Every step preserves the invariant and is a step of the register.
LEMMA StepKeeps ==
  ASSUME ScanReliable
  PROVE  Inv /\ [Next]_vars => Inv' /\ [Register!Next]_(Register!vars)
<1> SUFFICES ASSUME Inv, [Next]_vars
             PROVE  Inv' /\ [Register!Next]_(Register!vars)
  OBVIOUS
<1>1. TypeOK'
  BY TypeStep DEF Inv
<1>2. ASSUME NEW p \in Procs, Step(p)
      PROVE  Inv' /\ [Register!Next]_(Register!vars)
  <2>1. Keeps(p)
    BY <1>2, OutsideKeeps, RecoverKeeps, SweepKeeps, LoadKeeps, ReplaceKeeps,
       ActivateKeeps, RestoreKeeps, DropKeeps, ReturnKeeps DEF Step
  <2>2. NoLostUpdate'
    BY <2>1 DEF Keeps, Inv, NoLostUpdate, Register!Commit, Register!Acknowledge
  <2>3. [Register!Next]_(Register!vars)
    BY <2>1 DEF Keeps, Register!Next, Register!vars
  <2> QED  BY <1>1, <2>1, <2>2, <2>3 DEF Keeps, Inv
<1>3. CASE UNCHANGED vars
  <2>1. Current' = Current /\ acked' = acked
    BY <1>3 DEF vars, Current
  <2>2. Inv'
    BY <1>1, <1>3, <2>1 DEF vars, Inv, FileInv, Tops, HolderInv, WorkInv, Work,
       NoLostUpdate
  <2> QED  BY <2>1, <2>2 DEF Register!vars
<1> QED  BY <1>2, <1>3 DEF Next

LEMMA InitInv == Init => Inv /\ Register!Init
<1> SUFFICES ASSUME Init PROVE Inv /\ Register!Init
  OBVIOUS
<1>1. Current = {} /\ acked = {} /\ backups = {}
  BY DEF Init, Current
<1>2. NoFile \in Version
  BY DEF NoFile, Version
<1>3. TypeOK
  BY <1>2, StoreAssumption DEF Init, TypeOK
<1>4. FileInv
  BY DEF Init, FileInv
<1>5. HolderInv /\ WorkInv
  BY DEF Init, HolderInv, WorkInv, Work, Locked
<1> QED  BY <1>1, <1>3, <1>4, <1>5 DEF Inv, NoLostUpdate, Register!Init

\* Every variable of the store keeps its type, reliable listings or not.
THEOREM StoreTypeCorrect == Spec => []TypeOK
<1>1. Init => TypeOK
  BY InitInv DEF Inv
<1> QED  BY <1>1, TypeStep, PTL DEF Spec

\* If directories can be listed, an update that returned Ok is never lost
\* (with_state_lock, recover_and_cleanup_orphaned_siblings, replace_file).
THEOREM NoUpdateLost ==
  ASSUME ScanReliable
  PROVE  Spec => []NoLostUpdate
<1>1. Inv /\ [Next]_vars => Inv'
  BY StepKeeps
<1>2. Inv => NoLostUpdate
  BY DEF Inv
<1> QED  BY InitInv, <1>1, <1>2, PTL DEF Spec

\* If directories can be listed, the store implements the register: every
\* update takes effect at one instant.
THEOREM StoreIsRegister ==
  ASSUME ScanReliable
  PROVE  Spec => RegisterSpec
<1>1. Inv /\ [Next]_vars => Inv' /\ [Register!Next]_(Register!vars)
  BY StepKeeps
<1> QED  BY InitInv, <1>1, PTL DEF Spec, RegisterSpec, Register!Spec
=============================================================================
