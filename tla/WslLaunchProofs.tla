--------------------------- MODULE WslLaunchProofs ---------------------------
(***************************************************************************)
(* The safety of WslLaunch, for every set of target exit codes, and what a  *)
(* scan of /proc that takes its time (QuiesceGroup) is worth.               *)
(*                                                                          *)
(* LifeInv says how far the launcher, the target, the token, the permit and *)
(* the completion can be apart; StatusInv follows one exit status from the  *)
(* target to the caller.  Each is inductive, StatusInv relative to LifeInv. *)
(* ScanInv and KillInv, at the end, speak of the scan alone.                *)
(***************************************************************************)
EXTENDS WslLaunch, QuiesceGroup, TLAPS

BeforeTarget == {"boot", "attest", "permit", "lock", "start"}
HoldsToken   == {"attest", "permit", "lock", "start", "running"}
PastPermit   == {"lock", "start", "running"}

LifeInv ==
  /\ permit => authorized
  /\ lpc \in PastPermit \/ target # "unborn" => authorized
  /\ lpc \in HoldsToken \/ TargetLive => token
  /\ lpc \in BeforeTarget => target = "unborn"
  /\ target = "unborn" => ~kids
  /\ target = "alive" => lpc \in {"running", "gone"}
  /\ kids => lpc \in {"running", "quiesce", "gone"}
  /\ completion # NoCode => ~TargetLive /\ lpc \in {"cleanup", "gone"}
  /\ target = "dead" => targetCode # NoCode
  /\ lpc \in {"quiesce", "publish", "cleanup"} => launcherCode # NoCode
  /\ lpc = "cleanup" => completion # NoCode \/ Returned
  /\ lpc = "boot" => ~token
  /\ group = "Gone" => ~GroupAlive
  /\ result # "None" => sup = "done" /\ ~permit
  /\ result = "Ok" => ~TargetLive /\ lpc \notin PastPermit

StatusInv ==
  /\ targetCode # NoCode => target = "dead"
  /\ launcherCode = 0 => targetCode = 0
  /\ lpc \in {"quiesce", "publish"} /\ targetCode # NoCode => launcherCode = targetCode
  /\ completion # NoCode /\ targetCode # NoCode => completion = targetCode
  /\ completion = 0 => targetCode = 0
  /\ proxyCode = 0 => targetCode = 0
  /\ proxySeen = 0 => targetCode = 0
  /\ sup \in {"control", "INT", "TERM", "KILL", "probe", "finalize"} => cancelling
  /\ StatusIsTargets

----------------------------------------------------------------------------

\* The loop goes on to a signal or to the probe, from every position.
LEMMA NextControlType ==
  ASSUME NEW i \in 0..3
  PROVE  NextControl(i) \in {"INT", "TERM", "KILL", "probe"}
<1> DEFINE due == {j \in (i + 1)..3 : Due(Order[j])}
           first == CHOOSE j \in due : \A k \in due : j <= k
<1>1. CASE due = {}
  BY <1>1 DEF NextControl
<1>2. CASE due # {}
  <2>1. due \subseteq 1..3
    OBVIOUS
  <2>2. \E j \in due : \A k \in due : j <= k
    <3>1. CASE 1 \in due  BY <2>1, <3>1
    <3>2. CASE 1 \notin due /\ 2 \in due  BY <2>1, <3>2
    <3>3. CASE 1 \notin due /\ 2 \notin due  BY <1>2, <2>1, <3>3
    <3> QED  BY <3>1, <3>2, <3>3
  <2>3. first \in due
    BY <2>2
  <2>4. first \in 1..3
    BY <2>1, <2>3
  <2>5. Order[1] = "INT" /\ Order[2] = "TERM" /\ Order[3] = "KILL"
    BY DEF Order
  <2>6. Order[first] \in {"INT", "TERM", "KILL"}
    <3>1. first = 1 \/ first = 2 \/ first = 3
      BY <2>4
    <3> QED  BY <2>5, <3>1
  <2> QED  BY <1>2, <2>6 DEF NextControl
<1> QED  BY <1>1, <1>2

\* Type correctness of every step.
LEMMA TypeStep == TypeOK /\ [Next]_vars => TypeOK'
<1> SUFFICES ASSUME Flags, Values, [Next]_vars PROVE Flags' /\ Values'
  BY DEF TypeOK
<1> USE DEF Codes, LastPhase, NoCode, LaunchFailed, Unclean, Signals
<1>1. CASE Poll
  <2>1. Flags'
    BY <1>1 DEF Flags, Poll, KeepClocks, KeepFlag,
    fileVars, linuxVars
  <2>2. Values'
    BY <1>1 DEF Values, Poll, KeepClocks, KeepFlag,
    fileVars, linuxVars
  <2> QED  BY <2>1, <2>2
<1>2. CASE PollFails
  <2>1. Flags'
    BY <1>2 DEF Flags, PollFails, Return, LocalsEnd,
    linuxVars
  <2>2. Values'
    BY <1>2 DEF Values, PollFails, Return, LocalsEnd,
    linuxVars
  <2> QED  BY <2>1, <2>2
<1>3. CASE Authorize
  <2>1. Flags'
    BY <1>3 DEF Flags, Authorize, MayAuthorize, StartCancelling, KeepClocks,
    KeepFlag, linuxVars
  <2>2. Values'
    <3>1. /\ sup' = "settle"
          /\ UNCHANGED <<sent, group, proxySeen, result, resultCode, completion,
                         proxyCode, elapsed, lpc, launcherCode, target, targetCode>>
      BY <1>3 DEF Authorize, KeepClocks, linuxVars
    <3> QED  BY <3>1 DEF Values
  <2> QED  BY <2>1, <2>2
<1>4. CASE Settle
  <2>1. Flags'
    BY <1>4 DEF Flags, Settle, SettleNothing, SettleReturn, SettleWait,
       SettleCancel, Return, LocalsEnd, KeepLocals, KeepClocks,
       KeepFlag, StartCancelling, fileVars, linuxVars
  <2>2. CASE SettleNothing
    BY <1>4, <2>1, <2>2 DEF Values, Settle, SettleNothing, KeepLocals,
       KeepClocks, fileVars, linuxVars
  <2>3. CASE SettleReturn
    BY <1>4, <2>1, <2>3 DEF Values, Settle, SettleReturn, Return, LocalsEnd,
       linuxVars
  <2>4. CASE SettleWait
    BY <1>4, <2>1, <2>4 DEF Values, Settle, SettleWait, KeepLocals,
       KeepClocks, fileVars, linuxVars
  <2>5. CASE SettleCancel
    BY <1>4, <2>1, <2>5 DEF Values, Settle, SettleCancel, KeepLocals,
       KeepClocks, fileVars, linuxVars
  <2> QED  BY <1>4, <2>2, <2>3, <2>4, <2>5 DEF Settle
<1>5. CASE Control
  <2>0. NextControl(0) \in {"INT", "TERM", "KILL", "probe"}
    BY NextControlType
  <2>1. Flags'
    BY <1>5 DEF Flags, Control,
    clockVars, fileVars, linuxVars
  <2>2. Values'
    BY <1>5, <2>0 DEF Values, Control,
    clockVars, fileVars, linuxVars
  <2> QED  BY <2>1, <2>2
<1>6. ASSUME NEW i \in 1..3, SendSignal(i) PROVE Flags' /\ Values'
  <2>1. NextControl(i) \in {"INT", "TERM", "KILL", "probe"} /\ Order[i] \in Signals
    BY NextControlType DEF Order
  <2>2. sent' \in SUBSET Signals
    BY <1>6, <2>1 DEF SendSignal, Values
  <2>3. kids' \in BOOLEAN
    BY <1>6 DEF Flags, SendSignal, MembersHit, targetVars
  <2>4. Flags'
    BY <1>6, <2>3 DEF Flags, SendSignal, clockVars, fileVars
  <2>5. /\ lpc' \in {"boot", "attest", "permit", "lock", "start", "running",
                     "quiesce", "publish", "cleanup", "gone"}
        /\ launcherCode' \in Codes \union {NoCode}
    BY <1>6 DEF Values, SendSignal, LauncherHit, launcherVars
  <2>6. /\ target' \in {"unborn", "alive", "dead"}
        /\ targetCode' \in TargetCodes \union {NoCode}
    BY <1>6 DEF Values, SendSignal, MembersHit, targetVars
  <2>7. Values'
    BY <1>6, <2>1, <2>2, <2>5, <2>6 DEF Values, SendSignal, clockVars, fileVars
  <2> QED  BY <2>4, <2>7
<1>7. CASE Probe
  <2>1. Flags'
    BY <1>7 DEF Flags, Probe, ProbeAnswer,
    clockVars, fileVars, launcherVars, targetVars
  <2>2. Values'
    BY <1>7 DEF Values, Probe, ProbeAnswer,
    clockVars, fileVars, launcherVars, targetVars
  <2> QED  BY <2>1, <2>2
<1>8. CASE Finalize
  <2>1. PICK readable \in BOOLEAN :
          LET done == readable /\ completion # NoCode
              bad  == failed \/ (~readable /\ completion # NoCode)
          IN  /\ failed' = bad
              /\ \/ CleanupProven(done, bad) \/ NextIteration(done)
                 \/ GiveUp(done) \/ ReapFails(done)
    BY <1>8 DEF Finalize
  <2> DEFINE done == readable /\ completion # NoCode
             bad  == failed \/ (~readable /\ completion # NoCode)
  <2>2. Flags'
    BY <1>8, <2>1 DEF Flags, Finalize, CleanupProven, NextIteration, GiveUp,
       ReapFails, Return, LocalsEnd, clockVars, fileVars, linuxVars
  <2>3. UNCHANGED linuxVars
    BY <1>8 DEF Finalize
  <2>4. CASE CleanupProven(done, bad)
    BY <2>2, <2>3, <2>4 DEF Values, CleanupProven, KillProxy, Return, LocalsEnd, linuxVars
  <2>5. CASE NextIteration(done)
    BY <2>2, <2>3, <2>5 DEF Values, NextIteration, KillProxy, clockVars, fileVars, linuxVars
  <2>6. CASE GiveUp(done)
    BY <2>2, <2>3, <2>6 DEF Values, GiveUp, KillProxy, Return, LocalsEnd, linuxVars
  <2>7. CASE ReapFails(done)
    BY <2>2, <2>3, <2>7 DEF Values, ReapFails, KillProxy, Return, LocalsEnd, linuxVars
  <2> QED  BY <2>1, <2>2, <2>4, <2>5, <2>6, <2>7
<1>9. CASE Launch
  <2>1. CASE Attest
    <3>1. Flags'
      BY <2>1 DEF Flags, Attest, Goto, Refuse, supVars, clockVars,
         fileVars, launcherVars, targetVars
    <3>2. Values'
      BY <2>1 DEF Values, Attest, Goto, Refuse, supVars, clockVars,
         fileVars, launcherVars, targetVars
    <3> QED  BY <3>1, <3>2
  <2>2. CASE AwaitPermit
    <3>1. Flags'
      BY <2>2 DEF Flags, AwaitPermit, Goto, Refuse, supVars, clockVars,
         fileVars, launcherVars, targetVars
    <3>2. Values'
      BY <2>2 DEF Values, AwaitPermit, Goto, Refuse, supVars, clockVars,
         fileVars, launcherVars, targetVars
    <3> QED  BY <3>1, <3>2
  <2>3. CASE AwaitLock
    <3>1. Flags'
      BY <2>3 DEF Flags, AwaitLock, Goto, Refuse, supVars, clockVars,
         fileVars, launcherVars, targetVars
    <3>2. Values'
      BY <2>3 DEF Values, AwaitLock, Goto, Refuse, supVars, clockVars,
         fileVars, launcherVars, targetVars
    <3> QED  BY <3>1, <3>2
  <2>4. CASE IdentityChanged
    <3>1. Flags'
      BY <2>4 DEF Flags, IdentityChanged, Refuse, supVars, clockVars,
         fileVars, launcherVars, targetVars
    <3>2. Values'
      BY <2>4 DEF Values, IdentityChanged, Refuse, supVars, clockVars,
         fileVars, launcherVars, targetVars
    <3> QED  BY <3>1, <3>2
  <2>5. CASE StartTarget
    <3>1. Flags'
      BY <2>5 DEF Flags, StartTarget, Goto, supVars, clockVars,
         fileVars, launcherVars, targetVars
    <3>2. Values'
      BY <2>5 DEF Values, StartTarget, Goto, supVars, clockVars,
         fileVars, launcherVars, targetVars
    <3> QED  BY <3>1, <3>2
  <2>6. CASE ReapTarget
    <3>1. Flags'
      BY <2>6 DEF Flags, ReapTarget, supVars, clockVars,
         fileVars, launcherVars, targetVars
    <3>2. Values'
      BY <2>6 DEF Values, ReapTarget, supVars, clockVars,
         fileVars, launcherVars, targetVars
    <3> QED  BY <3>1, <3>2
  <2>7. CASE Quiesce
    <3>0. kids' \in BOOLEAN
      BY <2>7 DEF Flags, Quiesce
    <3>1. Flags'
      BY <2>7, <3>0 DEF Flags, Quiesce, supVars, clockVars, fileVars
    <3>2. Values'
      BY <2>7 DEF Values, Quiesce, Goto, supVars, clockVars,
         fileVars, launcherVars, targetVars
    <3> QED  BY <3>1, <3>2
  <2>8. CASE PublishCompletion
    <3>1. Flags'
      BY <2>8 DEF Flags, PublishCompletion, Goto, supVars, clockVars,
         fileVars, launcherVars, targetVars
    <3>2. Values'
      BY <2>8 DEF Values, PublishCompletion, Goto, supVars, clockVars,
         fileVars, launcherVars, targetVars
    <3> QED  BY <3>1, <3>2
  <2>9. CASE RemoveToken
    <3>1. Flags'
      BY <2>9 DEF Flags, RemoveToken, Goto, supVars, clockVars,
         fileVars, launcherVars, targetVars
    <3>2. Values'
      BY <2>9 DEF Values, RemoveToken, Goto, supVars, clockVars,
         fileVars, launcherVars, targetVars
    <3> QED  BY <3>1, <3>2
  <2> QED
    BY <1>9, <2>1, <2>2, <2>3, <2>4, <2>5, <2>6, <2>7, <2>8, <2>9 DEF Launch
<1>10. CASE Environment
  <2>1. CASE Crash
    <3>1. Flags'
      BY <2>1 DEF Flags, Crash, LocalsEnd, supVars, clockVars,
         fileVars, launcherVars, targetVars, linuxVars
    <3>2. Values'
      BY <2>1 DEF Values, Crash, LocalsEnd, supVars, clockVars,
         fileVars, launcherVars, targetVars, linuxVars
    <3> QED  BY <3>1, <3>2
  <2>2. CASE CreateToken
    <3>1. Flags'
      BY <2>2 DEF Flags, CreateToken, Goto, Refuse, supVars, clockVars,
         fileVars, launcherVars, targetVars, linuxVars
    <3>2. Values'
      BY <2>2 DEF Values, CreateToken, Goto, Refuse, supVars, clockVars,
         fileVars, launcherVars, targetVars, linuxVars
    <3> QED  BY <3>1, <3>2
  <2>3. CASE TargetExits
    <3>1. Flags'
      BY <2>3 DEF Flags, TargetExits, supVars, clockVars,
         fileVars, launcherVars, targetVars, linuxVars
    <3>2. Values'
      BY <2>3 DEF Values, TargetExits, supVars, clockVars,
         fileVars, launcherVars, targetVars, linuxVars
    <3> QED  BY <3>1, <3>2
  <2>4. CASE Fork
    <3>1. Flags'
      BY <2>4 DEF Flags, Fork, supVars, clockVars,
         fileVars, launcherVars, targetVars, linuxVars
    <3>2. Values'
      BY <2>4 DEF Values, Fork, supVars, clockVars,
         fileVars, launcherVars, targetVars, linuxVars
    <3> QED  BY <3>1, <3>2
  <2>5. CASE KidsExit
    <3>1. Flags'
      BY <2>5 DEF Flags, KidsExit, supVars, clockVars,
         fileVars, launcherVars, targetVars, linuxVars
    <3>2. Values'
      BY <2>5 DEF Values, KidsExit, supVars, clockVars,
         fileVars, launcherVars, targetVars, linuxVars
    <3> QED  BY <3>1, <3>2
  <2>6. CASE ProxyExits
    <3>1. Flags'
      BY <2>6 DEF Flags, ProxyExits, supVars, clockVars,
         fileVars, launcherVars, targetVars, linuxVars
    <3>2. Values'
      BY <2>6 DEF Values, ProxyExits, supVars, clockVars,
         fileVars, launcherVars, targetVars, linuxVars
    <3> QED  BY <3>1, <3>2
  <2>7. CASE PressCtrlC
    <3>1. Flags'
      BY <2>7 DEF Flags, PressCtrlC, supVars, clockVars,
         fileVars, launcherVars, targetVars, linuxVars
    <3>2. Values'
      BY <2>7 DEF Values, PressCtrlC, supVars, clockVars,
         fileVars, launcherVars, targetVars, linuxVars
    <3> QED  BY <3>1, <3>2
  <2>8. CASE SweepStaleToken
    <3>1. Flags'
      BY <2>8 DEF Flags, SweepStaleToken, supVars, clockVars,
         fileVars, launcherVars, targetVars, linuxVars
    <3>2. Values'
      BY <2>8 DEF Values, SweepStaleToken, supVars, clockVars,
         fileVars, launcherVars, targetVars, linuxVars
    <3> QED  BY <3>1, <3>2
  <2> QED
    BY <1>10, <2>1, <2>2, <2>3, <2>4, <2>5, <2>6, <2>7, <2>8 DEF Environment
<1>11. CASE Time
  <2>1. Flags'
    BY <1>11 DEF Flags, Time, Tick,
    supVars, fileVars, linuxVars
  <2>2. Values'
    BY <1>11 DEF Values, Time, Tick,
    supVars, fileVars, linuxVars
  <2> QED  BY <2>1, <2>2
<1>12. CASE UNCHANGED vars
  <2>1. Flags'
    BY <1>12 DEF Flags, vars
  <2>2. Values'
    BY <1>12 DEF Values, vars
  <2> QED  BY <2>1, <2>2
<1> QED
  BY <1>1, <1>2, <1>3, <1>4, <1>5, <1>6, <1>7, <1>8, <1>9, <1>10, <1>11, <1>12
  DEF Next, Supervise

----------------------------------------------------------------------------

\* Every step keeps the launcher, the target, the token, the permit and the
\* completion as close together as LifeInv says.
LEMMA LifeStep == TypeOK /\ LifeInv /\ [Next]_vars => LifeInv'
<1> SUFFICES ASSUME TypeOK, LifeInv, [Next]_vars PROVE LifeInv'
  OBVIOUS
<1> USE DEF LifeInv, TargetLive, GroupAlive, Returned, BeforeTarget, HoldsToken,
            PastPermit, NoCode, LaunchFailed, Unclean, fileVars, launcherVars,
            targetVars, linuxVars
<1>0. /\ {token, kids, permit, authorized} \subseteq BOOLEAN
      /\ lpc \in {"boot", "attest", "permit", "lock", "start", "running",
                  "quiesce", "publish", "cleanup", "gone"}
      /\ NoCode \notin TargetCodes
  BY TargetCodesAssumption DEF TypeOK, Flags, Values
<1>1. CASE Poll
  BY <1>1 DEF Poll
<1>2. CASE PollFails
  BY <1>2 DEF PollFails, Return, LocalsEnd
<1>3. CASE Authorize
  BY <1>3 DEF Authorize, MayAuthorize
<1>4. CASE Settle
  <2>1. CASE SettleNothing
    BY <1>4, <2>1 DEF Settle, SettleNothing, KeepLocals
  <2>2. CASE SettleReturn
    BY <1>4, <2>2 DEF Settle, SettleReturn, Return, LocalsEnd
  <2>3. CASE SettleWait
    BY <1>4, <2>3 DEF Settle, SettleWait, KeepLocals
  <2>4. CASE SettleCancel
    BY <1>4, <2>4 DEF Settle, SettleCancel, KeepLocals
  <2> QED  BY <1>4, <2>1, <2>2, <2>3, <2>4 DEF Settle
<1>5. CASE Control
  <2>1. NextControl(0) \in {"INT", "TERM", "KILL", "probe"}
    BY NextControlType
  <2> QED  BY <1>5, <2>1 DEF Control
<1>6. ASSUME NEW i \in 1..3, SendSignal(i) PROVE LifeInv'
  <2>1. /\ NextControl(i) \in {"INT", "TERM", "KILL", "probe"}
        /\ Order[i] \in {"INT", "TERM", "KILL"}
    BY NextControlType DEF Order
  <2>2. CASE UNCHANGED launcherVars /\ UNCHANGED targetVars
    BY <1>6, <2>1, <2>2 DEF SendSignal
  <2>3. CASE token /\ GroupAlive /\ LauncherHit(Order[i]) /\ MembersHit
    <3>1. UNCHANGED launcherVars \/ lpc' = "gone"
      BY <2>3 DEF LauncherHit
    <3>2. /\ target' = target \/ (target = "alive" /\ target' = "dead")
          /\ kids' => kids
          /\ target' = "dead" => targetCode' # NoCode
      BY <1>0, <2>3 DEF MembersHit
    <3>3. token' = token /\ GroupAlive /\ UNCHANGED <<permit, authorized, completion, group, result>>
      BY <1>6, <2>3 DEF SendSignal
    <3> QED  BY <1>6, <2>1, <2>3, <3>1, <3>2, <3>3 DEF SendSignal
  <2> QED  BY <1>6, <2>2, <2>3 DEF SendSignal
<1>7. CASE Probe
  <2>1. CASE group' = "Unknown" /\ UNCHANGED token
    BY <1>0, <1>7, <2>1 DEF Probe
  <2>2. CASE token' = (token /\ GroupAlive) /\ group' \in {"Unknown", ProbeAnswer}
    BY <1>0, <1>7, <2>2 DEF Probe, ProbeAnswer
  <2> QED BY <1>7, <2>1, <2>2 DEF Probe
<1>8. CASE Finalize
  <2>1. PICK readable \in BOOLEAN :
          LET done == readable /\ completion # NoCode
              bad  == failed \/ (~readable /\ completion # NoCode)
          IN  /\ failed' = bad
              /\ \/ CleanupProven(done, bad) \/ NextIteration(done)
                 \/ GiveUp(done) \/ ReapFails(done)
    BY <1>8 DEF Finalize
  <2> DEFINE done == readable /\ completion # NoCode
             bad  == failed \/ (~readable /\ completion # NoCode)
  <2>2. UNCHANGED linuxVars /\ UNCHANGED authorized /\ sup = "finalize"
    BY <1>8 DEF Finalize
  <2>3. CASE CleanupProven(done, bad)
    BY <2>2, <2>3, <1>0 DEF CleanupProven, Finalized, Return, LocalsEnd
  <2>4. CASE NextIteration(done)
    BY <2>2, <2>4 DEF NextIteration
  <2>5. CASE GiveUp(done)
    BY <2>2, <2>5 DEF GiveUp, Return, LocalsEnd
  <2>6. CASE ReapFails(done)
    BY <2>2, <2>6 DEF ReapFails, Return, LocalsEnd
  <2> QED  BY <2>1, <2>3, <2>4, <2>5, <2>6
<1>9. CASE Launch
  <2>1. CASE Attest             BY <2>1 DEF Attest, Goto, Refuse, supVars, clockVars
  <2>2. CASE AwaitPermit        BY <2>2 DEF AwaitPermit, Goto, Refuse, supVars, clockVars
  <2>3. CASE AwaitLock          BY <2>3 DEF AwaitLock, Goto, Refuse, supVars, clockVars
  <2>4. CASE IdentityChanged    BY <2>4 DEF IdentityChanged, Refuse, supVars, clockVars
  <2>5. CASE StartTarget        BY <2>5 DEF StartTarget, Goto, supVars, clockVars
  <2>6. CASE ReapTarget         BY <2>6 DEF ReapTarget, supVars, clockVars
  <2>7. CASE Quiesce            BY <2>7 DEF Quiesce, Goto, supVars, clockVars
  <2>8. CASE PublishCompletion  BY <2>8 DEF PublishCompletion, Goto, supVars, clockVars
  <2>9. CASE RemoveToken        BY <2>9 DEF RemoveToken, Goto, supVars, clockVars
  <2> QED  BY <1>9, <2>1, <2>2, <2>3, <2>4, <2>5, <2>6, <2>7, <2>8, <2>9 DEF Launch
<1>10. CASE Environment
  <2>1. CASE Crash            BY <2>1 DEF Crash, LocalsEnd
  <2>2. CASE CreateToken      BY <2>2 DEF CreateToken, Goto, Refuse, supVars, clockVars
  <2>3. CASE TargetExits      BY <1>0, <2>3 DEF TargetExits, supVars, clockVars
  <2>4. CASE Fork             BY <2>4 DEF Fork, supVars, clockVars
  <2>5. CASE KidsExit         BY <2>5 DEF KidsExit, supVars, clockVars
  <2>6. CASE ProxyExits       BY <2>6 DEF ProxyExits, supVars, clockVars
  <2>7. CASE PressCtrlC       BY <2>7 DEF PressCtrlC, supVars, clockVars
  <2>8. CASE SweepStaleToken  BY <2>8 DEF SweepStaleToken, supVars, clockVars
  <2> QED  BY <1>10, <2>1, <2>2, <2>3, <2>4, <2>5, <2>6, <2>7, <2>8 DEF Environment
<1>11. CASE Time
  BY <1>11 DEF Time, supVars
<1>12. CASE UNCHANGED vars
  BY <1>12 DEF vars
<1> QED
  BY <1>1, <1>2, <1>3, <1>4, <1>5, <1>6, <1>7, <1>8, <1>9, <1>10, <1>11, <1>12
  DEF Next, Supervise

\* Every step keeps one exit status from the target to the caller.
LEMMA StatusStep == TypeOK /\ LifeInv /\ StatusInv /\ [Next]_vars => StatusInv'
<1> SUFFICES ASSUME TypeOK, LifeInv, StatusInv, [Next]_vars
             PROVE  StatusInv'
  OBVIOUS
<1> USE DEF LifeInv, StatusInv, StatusIsTargets, TargetLive, GroupAlive,
            Returned, BeforeTarget, HoldsToken, PastPermit, NoCode, LaunchFailed, Unclean, fileVars, launcherVars,
            targetVars, linuxVars
<1>0. /\ {token, kids, permit, authorized} \subseteq BOOLEAN
      /\ lpc \in {"boot", "attest", "permit", "lock", "start", "running",
                  "quiesce", "publish", "cleanup", "gone"}
      /\ NoCode \notin TargetCodes
  BY TargetCodesAssumption DEF TypeOK, Flags, Values
<1>1. CASE Poll
  BY <1>1 DEF Poll
<1>2. CASE PollFails
  BY <1>2 DEF PollFails, Return, LocalsEnd
<1>3. CASE Authorize
  BY <1>3 DEF Authorize, MayAuthorize
<1>4. CASE Settle
  <2>1. CASE SettleNothing
    BY <1>4, <2>1 DEF Settle, SettleNothing, KeepLocals
  <2>2. CASE SettleReturn
    BY <1>4, <2>2 DEF Settle, SettleReturn, Return, LocalsEnd
  <2>3. CASE SettleWait
    BY <1>4, <2>3 DEF Settle, SettleWait, KeepLocals
  <2>4. CASE SettleCancel
    BY <1>4, <2>4 DEF Settle, SettleCancel, StartCancelling, KeepLocals
  <2> QED  BY <1>4, <2>1, <2>2, <2>3, <2>4 DEF Settle
<1>5. CASE Control
  <2>1. NextControl(0) \in {"INT", "TERM", "KILL", "probe"}
    BY NextControlType
  <2> QED  BY <1>5, <2>1 DEF Control
<1>6. ASSUME NEW i \in 1..3, SendSignal(i) PROVE StatusInv'
  <2>1. /\ NextControl(i) \in {"INT", "TERM", "KILL", "probe"}
        /\ Order[i] \in {"INT", "TERM", "KILL"}
    BY NextControlType DEF Order
  <2>2. \/ UNCHANGED launcherVars
        \/ lpc' = "gone" /\ launcherCode' \in {launcherCode, 1}
    BY <1>0, <1>6 DEF SendSignal, LauncherHit
  <2>3. \/ UNCHANGED <<target, targetCode>>
        \/ target = "alive" /\ target' = "dead"
    BY <1>6 DEF SendSignal, MembersHit
  <2> QED  BY <1>6, <2>1, <2>2, <2>3 DEF SendSignal
<1>7. CASE Probe
  BY <1>7 DEF Probe, ProbeAnswer
<1>8. CASE Finalize
  <2>1. PICK readable \in BOOLEAN :
          LET done == readable /\ completion # NoCode
              bad  == failed \/ (~readable /\ completion # NoCode)
          IN  /\ failed' = bad
              /\ \/ CleanupProven(done, bad) \/ NextIteration(done)
                 \/ GiveUp(done) \/ ReapFails(done)
    BY <1>8 DEF Finalize
  <2> DEFINE done == readable /\ completion # NoCode
             bad  == failed \/ (~readable /\ completion # NoCode)
  <2>2. UNCHANGED linuxVars /\ UNCHANGED cancelling /\ sup = "finalize"
    BY <1>8 DEF Finalize
  <2>3. CASE CleanupProven(done, bad)
    BY <2>2, <2>3, <1>0 DEF CleanupProven, KillProxy, Finalized, Return, LocalsEnd
  <2>4. CASE NextIteration(done)
    BY <2>2, <2>4 DEF NextIteration, KillProxy
  <2>5. CASE GiveUp(done)
    BY <2>2, <2>5 DEF GiveUp, KillProxy, Return, LocalsEnd
  <2>6. CASE ReapFails(done)
    BY <2>2, <2>6 DEF ReapFails, KillProxy, Return, LocalsEnd
  <2> QED  BY <2>1, <2>3, <2>4, <2>5, <2>6
<1>9. CASE Launch
  <2>1. CASE Attest             BY <2>1 DEF Attest, Goto, Refuse, supVars, clockVars
  <2>2. CASE AwaitPermit        BY <2>2 DEF AwaitPermit, Goto, Refuse, supVars, clockVars
  <2>3. CASE AwaitLock          BY <2>3 DEF AwaitLock, Goto, Refuse, supVars, clockVars
  <2>4. CASE IdentityChanged    BY <2>4 DEF IdentityChanged, Refuse, supVars, clockVars
  <2>5. CASE StartTarget        BY <2>5 DEF StartTarget, Goto, supVars, clockVars
  <2>6. CASE ReapTarget         BY <2>6 DEF ReapTarget, supVars, clockVars
  <2>7. CASE Quiesce            BY <2>7 DEF Quiesce, Goto, supVars, clockVars
  <2>8. CASE PublishCompletion  BY <2>8 DEF PublishCompletion, Goto, supVars, clockVars
  <2>9. CASE RemoveToken        BY <2>9 DEF RemoveToken, Goto, supVars, clockVars
  <2> QED  BY <1>9, <2>1, <2>2, <2>3, <2>4, <2>5, <2>6, <2>7, <2>8, <2>9 DEF Launch
<1>10. CASE Environment
  <2>1. CASE Crash            BY <2>1 DEF Crash, LocalsEnd
  <2>2. CASE CreateToken      BY <2>2 DEF CreateToken, Goto, Refuse, supVars, clockVars
  <2>3. CASE TargetExits      BY <1>0, <2>3 DEF TargetExits, supVars, clockVars
  <2>4. CASE Fork             BY <2>4 DEF Fork, supVars, clockVars
  <2>5. CASE KidsExit         BY <2>5 DEF KidsExit, supVars, clockVars
  <2>6. CASE ProxyExits       BY <2>6 DEF ProxyExits, supVars, clockVars
  <2>7. CASE PressCtrlC       BY <2>7 DEF PressCtrlC, supVars, clockVars
  <2>8. CASE SweepStaleToken  BY <2>8 DEF SweepStaleToken, supVars, clockVars
  <2> QED  BY <1>10, <2>1, <2>2, <2>3, <2>4, <2>5, <2>6, <2>7, <2>8 DEF Environment
<1>11. CASE Time
  BY <1>11 DEF Time, supVars
<1>12. CASE UNCHANGED vars
  BY <1>12 DEF vars
<1> QED
  BY <1>1, <1>2, <1>3, <1>4, <1>5, <1>6, <1>7, <1>8, <1>9, <1>10, <1>11, <1>12
  DEF Next, Supervise

----------------------------------------------------------------------------

LEMMA InitInv == Init => TypeOK /\ LifeInv /\ StatusInv
<1> SUFFICES ASSUME Init PROVE Flags /\ Values /\ LifeInv /\ StatusInv
  BY DEF TypeOK
<1> USE DEF NoCode, LaunchFailed, Unclean
<1>1. Flags
  BY DEF Init, Flags
<1>2. Values
  BY DEF Init, Values, Codes, LastPhase, Signals
<1>3. LifeInv
  BY DEF Init, LifeInv, TargetLive, GroupAlive, Returned, BeforeTarget,
     HoldsToken, PastPermit
<1>4. StatusInv
  BY DEF Init, StatusInv, StatusIsTargets
<1> QED  BY <1>1, <1>2, <1>3, <1>4

LEMMA Invariant == Spec => [](TypeOK /\ LifeInv /\ StatusInv)
<1>1. TypeOK /\ LifeInv /\ StatusInv /\ [Next]_vars
        => (TypeOK /\ LifeInv /\ StatusInv)'
  BY TypeStep, LifeStep, StatusStep
<1> QED  BY InitInv, <1>1, PTL DEF Spec

\* Every variable of the launch (supervisor.rs, launch.sh) keeps its type.
THEOREM TypeCorrect == Spec => []TypeOK
BY Invariant, PTL

\* No member of the target's process group lives without the token through
\* which it can be signalled and without a permit (launch.sh:158-217).
THEOREM CancellationReadyHolds == Spec => []CancellationReady
<1>1. LifeInv => CancellationReady
  BY DEF LifeInv, CancellationReady, TargetLive
<1> QED  BY Invariant, <1>1, PTL

\* A completion record exists only once the group is quiet for good
\* (launch.sh:95-117).
THEOREM CompletionSound == Spec => []CompletionMeansQuiesced
<1>1. LifeInv => CompletionMeansQuiesced
  BY DEF LifeInv, CompletionMeansQuiesced
<1> QED  BY Invariant, <1>1, PTL

\* When wait_for_wsl_child returned Ok no part of the command lives, then or
\* later (supervisor.rs:297-304, 371-388, 434-454).
THEOREM OkSound == Spec => []OkMeansQuiet
<1>1. LifeInv => OkMeansQuiet
  BY DEF LifeInv, OkMeansQuiet
<1> QED  BY Invariant, <1>1, PTL

\* The status returned is the target's, and success is never invented
\* (authorization.rs:262-274, supervisor.rs:371-388).
THEOREM StatusSound == Spec => []StatusIsTargets
<1>1. StatusInv => StatusIsTargets
  BY DEF StatusInv
<1> QED  BY Invariant, <1>1, PTL

\* "Gone", remembered across iterations of the loop, stays true
\* (supervisor.rs:351-376).
THEOREM GoneSound == Spec => []GoneIsFinal
<1>1. LifeInv => GoneIsFinal
  BY DEF LifeInv, GoneIsFinal
<1> QED  BY Invariant, <1>1, PTL

\* A cancellation observed before the permit keeps the target from ever
\* starting (supervisor.rs:253-296, launch.sh:173-186).
THEOREM EarlyCancelSound == Spec => EarlyCancelNeverStarts
<1>1. LifeInv /\ [Next]_vars =>
        [cancelling /\ ~authorized => ~authorized' /\ target' = "unborn"]_vars
  <2> SUFFICES ASSUME LifeInv, [Next]_vars, cancelling, ~authorized,
                      ~UNCHANGED vars
               PROVE  ~authorized' /\ target' = "unborn"
    OBVIOUS
  <2>1. Next
    OBVIOUS
  <2>2. target = "unborn" /\ lpc # "start"
    BY DEF LifeInv, PastPermit
  <2>3. CASE Supervise
    <3>1. ~authorized'
      BY <2>3 DEF Supervise, Poll, PollFails, Authorize, MayAuthorize, Settle,
         Control, SendSignal, Probe, Finalize
    <3>2. UNCHANGED linuxVars \/ UNCHANGED targetVars \/ MembersHit
      BY <2>3 DEF Supervise, Poll, PollFails, Authorize, Settle, Control,
         SendSignal, Probe, Finalize
    <3>3. target' = "unborn"
      BY <2>2, <3>2 DEF MembersHit, linuxVars, targetVars
    <3> QED  BY <3>1, <3>3
  <2>4. CASE Launch
    <3>1. target' = target /\ UNCHANGED supVars
      BY <2>2, <2>4 DEF Launch, Attest, AwaitPermit, AwaitLock,
         IdentityChanged, StartTarget, ReapTarget, Quiesce, PublishCompletion,
         RemoveToken, targetVars
    <3>2. authorized' = authorized
      BY <3>1 DEF supVars
    <3> QED  BY <2>2, <3>1, <3>2
  <2>5. CASE Environment
    <3>0. UNCHANGED linuxVars \/ UNCHANGED targetVars \/ UNCHANGED target
          \/ target = "alive"
      BY <2>5 DEF Environment, Crash, CreateToken, TargetExits, Fork, KidsExit,
         ProxyExits, PressCtrlC, SweepStaleToken
    <3>1. target' = target
      BY <2>2, <3>0 DEF targetVars, linuxVars
    <3>2. UNCHANGED supVars \/ UNCHANGED authorized
      BY <2>5 DEF Environment, Crash, CreateToken, TargetExits, Fork, KidsExit,
         ProxyExits, PressCtrlC, SweepStaleToken
    <3>3. authorized' = authorized
      BY <3>2 DEF supVars
    <3> QED  BY <2>2, <3>1, <3>3
  <2>6. CASE Time
    <3>1. UNCHANGED supVars /\ UNCHANGED linuxVars
      BY <2>6 DEF Time
    <3>2. authorized' = authorized
      BY <3>1 DEF supVars
    <3>3. target' = target
      BY <3>1 DEF linuxVars
    <3> QED  BY <2>2, <3>2, <3>3
  <2> QED  BY <2>1, <2>3, <2>4, <2>5, <2>6 DEF Next
<1>2. Spec => [][Next]_vars
  BY DEF Spec
<1> QED  BY Invariant, <1>1, <1>2, PTL DEF EarlyCancelNeverStarts

\* The token of a group that still has a member goes away only behind a
\* completion, or once nobody supervises (launch.sh:95-117, cancel_probe.sh).
THEOREM TokenSound == Spec => TokenOutlivesGroup
<1>1. LifeInv /\ [Next]_vars =>
        [token /\ ~token' /\ GroupAlive => completion # NoCode \/ Returned]_vars
  <2> SUFFICES ASSUME LifeInv, [Next]_vars, token, ~token', GroupAlive
               PROVE  completion # NoCode \/ Returned
    OBVIOUS
  <2>1. Next
    BY DEF vars
  <2>2. CASE Supervise
    <3>1. token' = token \/ token' = (token /\ GroupAlive)
      BY <2>2 DEF Supervise, Poll, PollFails, Authorize, Settle, Control,
         SendSignal, Probe, Finalize, linuxVars
    <3> QED  BY <3>1
  <2>3. CASE Launch
    <3>1. token' = token \/ lpc = "cleanup"
      BY <2>3 DEF Launch, Attest, AwaitPermit, AwaitLock, IdentityChanged,
         StartTarget, ReapTarget, Quiesce, PublishCompletion, RemoveToken
    <3> QED  BY <3>1 DEF LifeInv
  <2>4. CASE Environment
    <3>1. token' = token \/ lpc = "boot" \/ ~GroupAlive
      BY <2>4 DEF Environment, Crash, CreateToken, TargetExits, Fork, KidsExit,
         ProxyExits, PressCtrlC, SweepStaleToken, linuxVars
    <3> QED  BY <3>1 DEF LifeInv
  <2>5. CASE Time
    BY <2>5 DEF Time, linuxVars
  <2> QED  BY <2>1, <2>2, <2>3, <2>4, <2>5 DEF Next
<1>2. Spec => [][Next]_vars
  BY DEF Spec
<1> QED  BY Invariant, <1>1, <1>2, PTL DEF TokenOutlivesGroup
----------------------------------------------------------------------------

\* What the caller of a launch can see stays as it is.
Unseen == UNCHANGED <<Call, resultCode, authorized, cancelling, target,
                      targetCode, kids>>

LEMMA UnseenIsStutter == Unseen => UNCHANGED Run!vars
BY DEF Unseen, Run!vars

\* Until it returns or its dispatcher dies, a call is open.
LEMMA OpenCall ==
  ASSUME TypeOK, LifeInv
  PROVE  ~Returned => Call = "open"
BY DEF TypeOK, Values, LifeInv, Returned, Call

\* A return is the caller's success, if nothing lives and the status is
\* honest, or its error.
LEMMA ReturnRun ==
  ASSUME TypeOK, LifeInv, ~Returned, NEW r \in {"Ok", "Err"}, NEW code,
         Return(r, code), cancelling' \in {cancelling, TRUE},
         UNCHANGED <<authorized, target, targetCode, kids>>,
         r = "Ok" => OkMeansQuiet' /\ StatusIsTargets' /\ cancelling' = cancelling,
         r = "Err" => code = NoCode
  PROVE  Run!Return \/ Run!Fail
<1>1. Call = "open" /\ result' = r /\ resultCode' = code
  BY OpenCall DEF Return
<1>2. CASE r = "Ok"
  <2>1. Call' = "ok"
    BY <1>1, <1>2 DEF Call
  <2>2. ~TargetLive
    BY <1>1, <1>2 DEF OkMeansQuiet, TargetLive
  <2>3. /\ resultCode' = 0 => targetCode = 0
        /\ ~cancelling /\ targetCode # NoCode => resultCode' = targetCode
    BY <1>1, <1>2 DEF StatusIsTargets
  <2> QED  BY <1>1, <1>2, <2>1, <2>2, <2>3
           DEF Run!Return, Run!Live, Run!Honest, Run!Command, Run!NoCode,
               TargetLive, NoCode
<1>3. CASE r = "Err"
  <2>1. Call' = "err"
    BY <1>1, <1>3 DEF Call
  <2> QED  BY <1>1, <1>3, <2>1 DEF Run!Fail, Run!Command, Run!NoCode, NoCode
<1> QED  BY <1>2, <1>3

\* A step that ends nothing but may begin a cancellation.
LEMMA CancelRun ==
  ASSUME TypeOK, LifeInv, ~Returned, Call' = "open",
         cancelling' \in {cancelling, TRUE},
         UNCHANGED <<resultCode, authorized, target, targetCode, kids>>
  PROVE  Run!Cancel \/ Unseen
<1>1. Call = "open"
  BY OpenCall
<1> QED  BY <1>1 DEF Run!Cancel, Run!Command, Unseen

\* A step of the dispatcher's loop is at most the caller's: a permit, a
\* cancellation or a return; a signal may end what is left of the command.
LEMMA SuperviseRun ==
  ASSUME TypeOK, LifeInv, Supervise, TypeOK', LifeInv', OkMeansQuiet',
         StatusIsTargets'
  PROVE  Run!Next \/ Unseen
<1>0. ~Returned
  BY DEF Supervise, Poll, PollFails, Authorize, Settle, SettleNothing,
     SettleReturn, SettleWait, SettleCancel, Control, SendSignal, Order, Probe,
     Finalize, Returned
<1>1. Call = "open"
  BY <1>0, OpenCall
<1>2. cancelling \in BOOLEAN
  BY DEF TypeOK, Flags
<1> DEFINE Kept == UNCHANGED <<resultCode, authorized, target, targetCode, kids>>
\* What a step that leaves the call open amounts to.
<1>3. ASSUME ~Returned', Kept, cancelling' \in {cancelling, TRUE}
      PROVE  Run!Cancel \/ Unseen
  <2>1. Call' = "open"
    BY <1>3 DEF TypeOK, Values, LifeInv, Returned, Call
  <2> QED  BY <1>0, <1>3, <2>1, CancelRun
<1>4. ASSUME Poll PROVE Run!Next \/ Unseen
  <2>1. ~Returned' /\ cancelling' \in {cancelling, TRUE}
    BY <1>2, <1>4 DEF Poll, Returned
  <2>2. Kept
    BY <1>4 DEF Poll, linuxVars
  <2> QED  BY <1>3, <2>1, <2>2 DEF Run!Next
<1>5. ASSUME PollFails PROVE Run!Next \/ Unseen
  <2>1. Return("Err", NoCode) /\ cancelling' \in {cancelling, TRUE}
    BY <1>2, <1>5 DEF PollFails
  <2>2. UNCHANGED <<authorized, target, targetCode, kids>>
    BY <1>5 DEF PollFails, linuxVars
  <2> QED  BY <1>0, <2>1, <2>2, ReturnRun DEF Run!Next
<1>6. ASSUME Authorize PROVE Run!Next \/ Unseen
  <2>1. /\ ~Returned'
        /\ UNCHANGED <<resultCode, target, targetCode, kids>>
    BY <1>6 DEF Authorize, Returned, linuxVars
  <2>2. CASE UNCHANGED authorized
    <3>1. cancelling' \in {cancelling, TRUE}
      BY <1>6 DEF Authorize, StartCancelling
    <3> QED  BY <1>3, <2>1, <2>2, <3>1 DEF Run!Next
  <2>3. CASE MayAuthorize /\ authorized' = TRUE /\ UNCHANGED cancelling
    <3>1. Call' = "open"
      BY <2>1 DEF TypeOK, Values, LifeInv, Returned, Call
    <3>2. Run!Permit
      BY <1>1, <2>1, <2>3, <3>1 DEF MayAuthorize, Run!Permit, Run!Command
    <3> QED  BY <3>2 DEF Run!Next
  <2> QED  BY <1>6, <2>2, <2>3 DEF Authorize
<1>7. ASSUME Settle PROVE Run!Next \/ Unseen
  <2>1. UNCHANGED <<authorized, target, targetCode, kids>>
    BY <1>7 DEF Settle, linuxVars
  <2>2. CASE SettleNothing \/ SettleWait \/ SettleCancel
    <3>1. ~Returned' /\ cancelling' \in {cancelling, TRUE} /\ UNCHANGED resultCode
      BY <2>2 DEF SettleNothing, SettleWait, SettleCancel, StartCancelling,
         Returned
    <3> QED  BY <1>3, <2>1, <3>1 DEF Run!Next
  <2>3. CASE SettleReturn
    <3>1. /\ UNCHANGED cancelling
          /\ Return("Ok", completion) \/ Return("Err", NoCode)
      BY <2>3 DEF SettleReturn
    <3> QED  BY <1>0, <2>1, <3>1, ReturnRun DEF Run!Next
  <2> QED  BY <1>7, <2>2, <2>3 DEF Settle
<1>8. ASSUME Control PROVE Run!Next \/ Unseen
  <2>1. NextControl(0) \in {"INT", "TERM", "KILL", "probe"}
    BY NextControlType
  <2>2. ~Returned' /\ UNCHANGED <<resultCode, authorized, cancelling>>
    BY <1>8, <2>1 DEF Control, Returned
  <2>3. UNCHANGED <<target, targetCode, kids>>
    BY <1>8 DEF Control, linuxVars
  <2> QED  BY <1>3, <2>2, <2>3 DEF Run!Next
<1>9. ASSUME NEW i \in 1..3, SendSignal(i) PROVE Run!Next \/ Unseen
  <2>1. NextControl(i) \in {"INT", "TERM", "KILL", "probe"}
    BY NextControlType
  <2>2. ~Returned' /\ UNCHANGED <<resultCode, authorized, cancelling>>
    BY <1>9, <2>1 DEF SendSignal, Returned
  <2>3. CASE UNCHANGED <<target, targetCode, kids>>
    BY <1>3, <2>2, <2>3 DEF Run!Next
  <2>4. CASE MembersHit
    <3>1. Call' = Call
      BY <1>1, <2>2 DEF TypeOK, Values, LifeInv, Returned, Call
    <3>2. Run!Call
      BY <2>2, <3>1 DEF Run!Call
    <3>3. kids \in BOOLEAN
      BY DEF TypeOK, Flags
    <3>4. CASE UNCHANGED <<target, targetCode>>
      BY <2>2, <2>4, <3>1, <3>2, <3>4 DEF MembersHit, Run!Next, Run!KidsEnd, Unseen
    <3>5. CASE target = "alive" /\ target' = "dead" /\ targetCode' \in TargetCodes
      <4>1. Run!End
        BY <2>4, <3>2, <3>5 DEF MembersHit, Run!End
      <4> QED  BY <4>1 DEF Run!Next
    <3> QED  BY <2>4, <3>4, <3>5 DEF MembersHit
  <2> QED  BY <1>9, <2>3, <2>4 DEF SendSignal, targetVars
<1>10. ASSUME Probe PROVE Run!Next \/ Unseen
  <2>1. ~Returned' /\ UNCHANGED <<resultCode, authorized, cancelling>>
    BY <1>10 DEF Probe, Returned
  <2>2. UNCHANGED <<target, targetCode, kids>>
    BY <1>10 DEF Probe, targetVars
  <2> QED  BY <1>3, <2>1, <2>2 DEF Run!Next
<1>11. ASSUME Finalize PROVE Run!Next \/ Unseen
  <2>1. UNCHANGED <<authorized, cancelling, target, targetCode, kids>>
    BY <1>11 DEF Finalize, linuxVars
  <2>2. \/ \E code : Return("Ok", code)
        \/ Return("Err", NoCode)
        \/ sup' = "poll" /\ UNCHANGED resultCode
    BY <1>11 DEF Finalize, CleanupProven, NextIteration, GiveUp, ReapFails
  <2>3. CASE \E code : Return("Ok", code)
    BY <1>0, <2>1, <2>3, ReturnRun DEF Run!Next
  <2>4. CASE Return("Err", NoCode)
    BY <1>0, <2>1, <2>4, ReturnRun DEF Run!Next
  <2>5. CASE sup' = "poll" /\ UNCHANGED resultCode
    <3>1. ~Returned'
      BY <2>5 DEF Returned
    <3> QED  BY <1>3, <2>1, <2>5, <3>1 DEF Run!Next
  <2> QED  BY <2>2, <2>3, <2>4, <2>5
<1> QED
  BY <1>4, <1>5, <1>6, <1>7, <1>8, <1>9, <1>10, <1>11 DEF Supervise

\* What the caller can see of itself does not depend on the Linux side.
LEMMA CallKept == UNCHANGED supVars => Run!Call
BY DEF supVars, Run!Call, Call

\* The launcher starts a permitted command, or ends what it left behind.
LEMMA LaunchRun ==
  ASSUME TypeOK, LifeInv, Launch
  PROVE  Run!Next \/ Unseen
<1>1. UNCHANGED supVars
  BY DEF Launch, Attest, AwaitPermit, AwaitLock, IdentityChanged, StartTarget,
     ReapTarget, Quiesce, PublishCompletion, RemoveToken
<1>2. Run!Call
  BY <1>1, CallKept
<1>3. ASSUME UNCHANGED targetVars PROVE Unseen
  BY <1>1, <1>3 DEF supVars, targetVars, Call, Unseen
<1>4. CASE StartTarget
  <2>1. authorized /\ target = "unborn" /\ result # "Ok"
    BY <1>4 DEF StartTarget, LifeInv, PastPermit, BeforeTarget
  <2>2. Call # "ok"
    BY <2>1 DEF Call
  <2>3. Run!Start
    BY <1>2, <1>4, <2>1, <2>2 DEF StartTarget, Run!Start
  <2> QED  BY <2>3 DEF Run!Next
<1>5. CASE Quiesce
  <2>1. UNCHANGED <<target, targetCode>> /\ (kids' = FALSE \/ kids' = kids)
    BY <1>5 DEF Quiesce
  <2>2. kids' = kids => Unseen
    BY <1>3, <2>1 DEF targetVars
  <2>3. kids' = FALSE => Run!KidsEnd
    BY <1>2, <2>1 DEF Run!KidsEnd
  <2> QED  BY <2>1, <2>2, <2>3 DEF Run!Next
<1>6. CASE ~StartTarget /\ ~Quiesce
  <2>1. UNCHANGED targetVars
    BY <1>6 DEF Launch, Attest, AwaitPermit, AwaitLock, IdentityChanged,
       ReapTarget, PublishCompletion, RemoveToken
  <2> QED  BY <1>3, <2>1
<1> QED  BY <1>4, <1>5, <1>6

\* So does the rest of the world; and a dispatcher may die.
LEMMA EnvironmentRun ==
  ASSUME TypeOK, LifeInv, Environment \/ Time
  PROVE  Run!Next \/ Unseen
<1>1. CASE Crash
  <2>1. Call = "open" /\ Call' = "lost"
    BY <1>1, OpenCall DEF Crash, Returned, LifeInv, TypeOK, Values, Call
  <2>2. Run!Lose
    BY <1>1, <2>1 DEF Crash, linuxVars, Run!Lose, Run!Command
  <2> QED  BY <2>2 DEF Run!Next
<1>2. CASE (Environment /\ ~Crash) \/ Time
  <2>1. UNCHANGED supVars
    BY <1>2 DEF Environment, CreateToken, TargetExits, Fork, KidsExit,
       ProxyExits, PressCtrlC, SweepStaleToken, Time
  <2>2. Run!Call
    BY <2>1, CallKept
  <2>3. CASE TargetExits
    BY <2>2, <2>3 DEF TargetExits, Run!End, Run!Next
  <2>4. CASE Fork
    BY <2>2, <2>4 DEF Fork, Run!Fork, Run!Next
  <2>5. CASE KidsExit
    BY <2>2, <2>5 DEF KidsExit, Run!KidsEnd, Run!Next
  <2>6. CASE ~TargetExits /\ ~Fork /\ ~KidsExit
    <3>1. UNCHANGED targetVars
      BY <1>2, <2>6 DEF Environment, CreateToken, ProxyExits, PressCtrlC,
         SweepStaleToken, Time, linuxVars, targetVars
    <3> QED  BY <2>1, <3>1 DEF supVars, targetVars, Call, Unseen
  <2> QED  BY <2>3, <2>4, <2>5, <2>6
<1> QED  BY <1>1, <1>2

\* A supervised WSL2 launch is one supervised run: whatever the exchange
\* files, signals, probes and deadlines do, its caller sees a permit that no
\* cancellation preceded, one honest answer and no command behind a status
\* (supervisor.rs:224-454, launch.sh).
THEOREM LaunchIsRun == Spec => RunSpec
<1>1. Init => Run!Init
  BY DEF Init, Run!Init, Call, NoCode, Run!NoCode
<1>2. TypeOK /\ LifeInv /\ StatusInv /\ (TypeOK /\ LifeInv /\ StatusInv)' /\ [Next]_vars
        => [Run!Next]_(Run!vars)
  <2> SUFFICES ASSUME TypeOK, LifeInv, StatusInv, TypeOK', LifeInv', StatusInv',
                      [Next]_vars
               PROVE  [Run!Next]_(Run!vars)
    OBVIOUS
  <2>1. OkMeansQuiet' /\ StatusIsTargets'
    BY DEF LifeInv, StatusInv, OkMeansQuiet
  <2>2. ASSUME UNCHANGED vars PROVE Unseen
    BY <2>2 DEF vars, Unseen, Call
  <2>3. Run!Next \/ Unseen
    BY <2>1, <2>2, SuperviseRun, LaunchRun, EnvironmentRun DEF Next
  <2> QED  BY <2>3, UnseenIsStutter
<1> QED  BY Invariant, <1>1, <1>2, PTL DEF Spec, RunSpec, Run!Spec
----------------------------------------------------------------------------
(* The scan that WslLaunch takes for one step, read by read, for every     *)
(* finite set of processes, number of rounds and number of forks.          *)

\* During a query, who lives is still to be read or was born since the list was made.
ScanInv ==
    /\ open /\ pc \in Queries => live \subseteq unread \cup born
    /\ QuietLeavesOnlyNewborn

\* The same of the KILL pass, where who was read is as good as dead.
KillInv ==
    /\ open /\ pc = "kill" => live \subseteq unread \cup killed \cup young
    /\ KillMissesOnlyYoung

(***************************************************************************)
(* Every variable of the scan keeps its type (launch.sh:53-83).            *)
(***************************************************************************)
THEOREM GroupTypeCorrect == ScanSpec => []ScanTypeOK
<1>1. ScanInit => ScanTypeOK
  <2> SUFFICES ASSUME ScanInit PROVE ScanTypeOK
    OBVIOUS
  <2>1. pc \in Queries \cup Passes \cup Results /\ open \in BOOLEAN
    BY DEF ScanInit, Queries
  <2>2. remaining \in 0..Rounds /\ forks \in 0..MaxForks
    BY RoundsAssumption, ForksAssumption DEF ScanInit
  <2>3. live \subseteq Pids /\ unread = {} /\ killed = {} /\ born = {} /\ young = {}
    BY DEF ScanInit
  <2> QED
    BY <2>1, <2>2, <2>3 DEF ScanTypeOK
<1>2. ScanTypeOK /\ [ScanNext]_scanVars => ScanTypeOK'
  <2> SUFFICES ASSUME ScanTypeOK, [ScanNext]_scanVars PROVE ScanTypeOK'
    OBVIOUS
  <2> USE RoundsAssumption, ForksAssumption DEF ScanTypeOK
  <2>1. CASE ListProc
    BY <2>1 DEF ListProc
  <2>2. CASE ReadMember
    <3>1. remaining' \in 0..Rounds
      BY <2>2 DEF ReadMember, Found, GoOn
    <3>2. pc' \in Queries \cup Passes \cup Results /\ open' \in BOOLEAN
      BY <2>2 DEF ReadMember, Found, GoOn, Queries, Passes, Results
    <3>3. UNCHANGED <<unread, live, forks, born, young, killed>>
      BY <2>2 DEF ReadMember, Found, GoOn
    <3> QED
      BY <3>1, <3>2, <3>3
  <2>3. CASE EndQuery
    BY <2>3 DEF EndQuery, NotFound, GoOn, Queries, Passes, Results
  <2>4. CASE EndPass
    <3>1. remaining' \in 0..Rounds
      BY <2>4 DEF EndPass, GoOn
    <3>2. pc' \in Queries \cup Passes \cup Results /\ open' \in BOOLEAN
      BY <2>4 DEF EndPass, GoOn, Queries, Passes, Results
    <3>3. UNCHANGED <<unread, live, forks, born, young, killed>>
      BY <2>4 DEF EndPass, GoOn
    <3> QED
      BY <3>1, <3>2, <3>3
  <2>5. ASSUME NEW p \in Pids, SkipGone(p) PROVE ScanTypeOK'
    BY <2>5 DEF SkipGone
  <2>6. ASSUME NEW p \in Pids, Term(p) PROVE ScanTypeOK'
    BY <2>6 DEF Term
  <2>7. ASSUME NEW p \in Pids, Kill(p) PROVE ScanTypeOK'
    BY <2>7 DEF Kill
  <2>8. ASSUME NEW p \in Pids, Exit(p) PROVE ScanTypeOK'
    BY <2>8 DEF Exit, loopVars
  <2>9. ASSUME NEW p \in Pids, NEW q \in Pids, ForkMember(p, q) PROVE ScanTypeOK'
    BY <2>9 DEF ForkMember, loopVars
  <2>10. CASE UNCHANGED scanVars
    BY <2>10 DEF scanVars
  <2> QED
    BY <2>1, <2>2, <2>3, <2>4, <2>5, <2>6, <2>7, <2>8, <2>9, <2>10
    DEF ScanNext, Launcher, Group
<1> QED
  BY <1>1, <1>2, PTL DEF ScanSpec

(***************************************************************************)
(* Whoever lives when quiesce_process_group says "quiet" was forked while  *)
(* its last list of /proc was being read (launch.sh:38-52).                *)
(***************************************************************************)
THEOREM QuietIsAlmostEmpty == ScanSpec => []QuietLeavesOnlyNewborn
<1> USE DEF ScanInv, QuietLeavesOnlyNewborn
<1>1. ScanInit => ScanInv
  BY DEF ScanInit, Queries
<1>2. ScanInv /\ [ScanNext]_scanVars => ScanInv'
  <2> SUFFICES ASSUME ScanInv, [ScanNext]_scanVars PROVE ScanInv'
    OBVIOUS
  <2>1. CASE ListProc
    BY <2>1 DEF ListProc, Queries, Passes
  <2>2. CASE ReadMember
    BY <2>2 DEF ReadMember, Found, GoOn
  <2>3. CASE EndQuery
    \* The list is read to its end: who lives was born since.
    BY <2>3 DEF EndQuery, NotFound, GoOn
  <2>4. CASE EndPass
    BY <2>4 DEF EndPass, GoOn
  <2>5. ASSUME NEW p \in Pids, SkipGone(p) PROVE ScanInv'
    BY <2>5 DEF SkipGone
  <2>6. ASSUME NEW p \in Pids, Term(p) PROVE ScanInv'
    BY <2>6 DEF Term, Queries
  <2>7. ASSUME NEW p \in Pids, Kill(p) PROVE ScanInv'
    BY <2>7 DEF Kill, Queries
  <2>8. ASSUME NEW p \in Pids, Exit(p) PROVE ScanInv'
    BY <2>8 DEF Exit, loopVars
  <2>9. ASSUME NEW p \in Pids, NEW q \in Pids, ForkMember(p, q) PROVE ScanInv'
    BY <2>9 DEF ForkMember, loopVars
  <2>10. CASE UNCHANGED scanVars
    BY <2>10 DEF scanVars
  <2> QED
    BY <2>1, <2>2, <2>3, <2>4, <2>5, <2>6, <2>7, <2>8, <2>9, <2>10
    DEF ScanNext, Launcher, Group
<1> QED
  BY <1>1, <1>2, PTL DEF ScanSpec

(***************************************************************************)
(* After the KILL pass, whoever lives without a pending SIGKILL was forked *)
(* after that pass had made its list (launch.sh:53-66, 76).                *)
(***************************************************************************)
THEOREM KillReachesTheOld == ScanSpec => []KillMissesOnlyYoung
<1> USE DEF KillInv, KillMissesOnlyYoung
<1>1. ScanInit => KillInv
  BY DEF ScanInit
<1>2. KillInv /\ [ScanNext]_scanVars => KillInv'
  <2> SUFFICES ASSUME KillInv, [ScanNext]_scanVars PROVE KillInv'
    OBVIOUS
  <2>1. CASE ListProc
    BY <2>1 DEF ListProc, Queries, Passes
  <2>2. CASE ReadMember
    BY <2>2 DEF ReadMember, Found, GoOn
  <2>3. CASE EndQuery
    BY <2>3 DEF EndQuery, NotFound, GoOn
  <2>4. CASE EndPass
    BY <2>4 DEF EndPass, GoOn
  <2>5. ASSUME NEW p \in Pids, SkipGone(p) PROVE KillInv'
    BY <2>5 DEF SkipGone
  <2>6. ASSUME NEW p \in Pids, Term(p) PROVE KillInv'
    BY <2>6 DEF Term
  <2>7. ASSUME NEW p \in Pids, Kill(p) PROVE KillInv'
    BY <2>7 DEF Kill
  <2>8. ASSUME NEW p \in Pids, Exit(p) PROVE KillInv'
    BY <2>8 DEF Exit, loopVars
  <2>9. ASSUME NEW p \in Pids, NEW q \in Pids, ForkMember(p, q) PROVE KillInv'
    BY <2>9 DEF ForkMember, loopVars
  <2>10. CASE UNCHANGED scanVars
    BY <2>10 DEF scanVars
  <2> QED
    BY <2>1, <2>2, <2>3, <2>4, <2>5, <2>6, <2>7, <2>8, <2>9, <2>10
    DEF ScanNext, Launcher, Group
<1> QED
  BY <1>1, <1>2, PTL DEF ScanSpec
=============================================================================
