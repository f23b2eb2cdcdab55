-------------------------- MODULE Wsl1LaunchProofs --------------------------
(***************************************************************************)
(* The safety of Wsl1Launch, for every number of dispatchers, runs of the   *)
(* provisioning script and set of exit codes.                               *)
(*                                                                          *)
(* Life says of one command how far its call, its session, its processes    *)
(* and its files can be apart, and that a call in progress holds the mutex; *)
(* Stat follows one exit status from the target to the caller.  A step      *)
(* belongs to one command and leaves the others Untouched, except a reset   *)
(* or a restart of the distro, which reaches every session (StopLife).      *)
(***************************************************************************)
EXTENDS Wsl1Launch, TLAPS

USE DispatchersAssumption, CodesAssumption, ProvisionsAssumption

----------------------------------------------------------------------------
(* Types. *)

LEMMA FreshType == Fresh \in Local
BY DEF Fresh, Local

LEMMA NoFilesType == NoFiles \in Files
BY DEF NoFiles, Files

\* What the program does to a dispatcher's locals keeps their type.
LEMMA LocalType ==
  ASSUME NEW f \in [Dispatchers -> Local], NEW d \in Dispatchers
  PROVE  /\ \A l \in Local : [f EXCEPT ![d] = l] \in [Dispatchers -> Local]
         /\ \A id \in Ids \cup {NoId} :
              [f EXCEPT ![d].id = id] \in [Dispatchers -> Local]
         /\ \A code \in Codes \cup {NoCode} :
              [f EXCEPT ![d].proxy = code] \in [Dispatchers -> Local]
         /\ [f EXCEPT ![d].ctrlC = TRUE] \in [Dispatchers -> Local]
         /\ [f EXCEPT ![d].grace = TRUE] \in [Dispatchers -> Local]
         /\ \A t \in 0..2 : [f EXCEPT ![d].late = t] \in [Dispatchers -> Local]
         /\ \A id \in Ids \cup {NoId}, why \in {"cancel", "error"} :
              [f EXCEPT ![d] = [Fresh EXCEPT !.id = id, !.why = why, !.proxy = f[d].proxy]]
                \in [Dispatchers -> Local]
         /\ f[d].id \in Ids \cup {NoId}
         /\ f[d].proxy \in Codes \cup {NoCode}
         /\ f[d].why \in {"cancel", "error"}
         /\ f[d].late \in 0..2
         /\ f[d].grace \in BOOLEAN /\ f[d].ctrlC \in BOOLEAN
<1>1. f[d] \in Local
  OBVIOUS
<1>2. \A l \in Local : [f EXCEPT ![d] = l] \in [Dispatchers -> Local]
  OBVIOUS
<1>3. \A id \in Ids \cup {NoId} : [f[d] EXCEPT !.id = id] \in Local
  BY <1>1 DEF Local
<1>4. \A code \in Codes \cup {NoCode} : [f[d] EXCEPT !.proxy = code] \in Local
  BY <1>1 DEF Local
<1>5. \A b \in BOOLEAN : [f[d] EXCEPT !.ctrlC = b] \in Local
  BY <1>1 DEF Local
<1>5a. \A b \in BOOLEAN : [f[d] EXCEPT !.grace = b] \in Local
  BY <1>1 DEF Local
<1>6. \A t \in 0..2 : [f[d] EXCEPT !.late = t] \in Local
  BY <1>1 DEF Local
<1>7. f[d].proxy \in Codes \cup {NoCode}
  BY <1>1 DEF Local
<1>8. \A id \in Ids \cup {NoId}, why \in {"cancel", "error"} :
        [Fresh EXCEPT !.id = id, !.why = why, !.proxy = f[d].proxy] \in Local
  <2> SUFFICES ASSUME NEW id \in Ids \cup {NoId}, NEW why \in {"cancel", "error"}
               PROVE  [Fresh EXCEPT !.id = id, !.why = why, !.proxy = f[d].proxy] \in Local
    OBVIOUS
  <2>1. Fresh \in Local
    BY FreshType
  <2>2. [Fresh EXCEPT !.id = id] \in Local
    BY <2>1 DEF Local
  <2>3. [[Fresh EXCEPT !.id = id] EXCEPT !.why = why] \in Local
    BY <2>2 DEF Local
  <2>4. [[[Fresh EXCEPT !.id = id] EXCEPT !.why = why] EXCEPT !.proxy = f[d].proxy] \in Local
    BY <1>7, <2>3 DEF Local
  <2> QED  BY <2>4
<1>9. /\ f[d].id \in Ids \cup {NoId}
      /\ f[d].why \in {"cancel", "error"}
      /\ f[d].late \in 0..2
      /\ f[d].grace \in BOOLEAN /\ f[d].ctrlC \in BOOLEAN
  BY <1>1 DEF Local
<1>10. \A id \in Ids \cup {NoId} : [f EXCEPT ![d].id = id] \in [Dispatchers -> Local]
  BY <1>3
<1>11. \A code \in Codes \cup {NoCode} : [f EXCEPT ![d].proxy = code] \in [Dispatchers -> Local]
  BY <1>4
<1>12. [f EXCEPT ![d].ctrlC = TRUE] \in [Dispatchers -> Local]
  BY <1>5
<1>13. [f EXCEPT ![d].grace = TRUE] \in [Dispatchers -> Local]
  BY <1>5a
<1>14. \A t \in 0..2 : [f EXCEPT ![d].late = t] \in [Dispatchers -> Local]
  BY <1>6
<1>15. \A id \in Ids \cup {NoId}, why \in {"cancel", "error"} :
         [f EXCEPT ![d] = [Fresh EXCEPT !.id = id, !.why = why, !.proxy = f[d].proxy]]
           \in [Dispatchers -> Local]
  BY <1>8, <1>2
<1> QED  BY <1>2, <1>7, <1>9, <1>10, <1>11, <1>12, <1>13, <1>14, <1>15

LEMMA FilesType ==
  ASSUME NEW f \in [Dispatchers -> Files], NEW d \in Dispatchers
  PROVE  /\ \A x \in Files : [f EXCEPT ![d] = x] \in [Dispatchers -> Files]
         /\ [f EXCEPT ![d].permit = TRUE] \in [Dispatchers -> Files]
         /\ [NoFiles EXCEPT !.permit = f[d].permit] \in Files
         /\ \A id \in Ids : [f[d] EXCEPT !.attested = id] \in Files
         /\ \A code \in Codes \cup {NoCode} : [f[d] EXCEPT !.completion = code] \in Files
         /\ f[d].attested \in Ids \cup {NoId}
         /\ f[d].permit \in BOOLEAN
         /\ f[d].completion \in Codes \cup {NoCode}
<1>1. f[d] \in Files
  OBVIOUS
<1>2. \A x \in Files : [f EXCEPT ![d] = x] \in [Dispatchers -> Files]
  OBVIOUS
<1>3. [f[d] EXCEPT !.permit = TRUE] \in Files
  BY <1>1 DEF Files
<1>4. [f EXCEPT ![d].permit = TRUE] \in [Dispatchers -> Files]
  BY <1>3
<1>5. /\ f[d].attested \in Ids \cup {NoId}
      /\ f[d].permit \in BOOLEAN
      /\ f[d].completion \in Codes \cup {NoCode}
  BY <1>1 DEF Files
<1>6. [NoFiles EXCEPT !.permit = f[d].permit] \in Files
  BY <1>5 DEF NoFiles, Files
<1>7. \A id \in Ids : [f[d] EXCEPT !.attested = id] \in Files
  BY <1>1 DEF Files
<1>8. \A code \in Codes \cup {NoCode} : [f[d] EXCEPT !.completion = code] \in Files
  BY <1>1 DEF Files
<1> QED  BY <1>2, <1>4, <1>5, <1>6, <1>7, <1>8

Lines == {"wait", "spawn", "release", "drop", "done", "crashed"} \cup Supervising \cup Resetting

\* The type invariant in three parts: dispatchers, sessions, and the rest.
SupOK ==
  /\ pc \in [Dispatchers -> Lines]
  /\ local \in [Dispatchers -> Local]
  /\ authorized \in [Dispatchers -> BOOLEAN]
  /\ term \in [Dispatchers -> {"none", "ok", "failed"}]
  /\ outcome \in [Dispatchers -> {"none", "ok", "err"}]
  /\ status \in [Dispatchers -> Codes \cup {NoCode}]
  /\ seen \in [Dispatchers -> BOOLEAN]
  /\ proxyCode \in [Dispatchers -> Codes \cup {NoCode}]

LinuxOK ==
  /\ session \in [Dispatchers -> {"none", "boot", "permit", "start", "running",
                                  "quiesce", "publish", "exit", "gone"}]
  /\ sessionCode \in [Dispatchers -> Codes \cup {NoCode}]
  /\ target \in [Dispatchers -> {"unborn", "alive", "dead"}]
  /\ targetCode \in [Dispatchers -> TargetCodes \cup {NoCode}]
  /\ kids \in [Dispatchers -> BOOLEAN]

RestOK ==
  /\ mutex \in Dispatchers \cup {Nobody}
  /\ marker \in Ids /\ provisioning \in BOOLEAN
  /\ files \in [Dispatchers -> Files]

LEMMA TypeParts ==
  /\ TypeOK <=> SupOK /\ LinuxOK /\ RestOK
  /\ TypeOK' <=> SupOK' /\ LinuxOK' /\ RestOK'
BY DEF TypeOK, SupOK, LinuxOK, RestOK, Lines

LEMMA LoopType ==
  ASSUME SupOK, NEW d \in Dispatchers, NEW there \in Lines, Loop(d, there),
         seen' \in [Dispatchers -> BOOLEAN]
  PROVE  SupOK'
BY DEF SupOK, Loop, Goto, KeepResult

LEMMA ReturnType ==
  ASSUME SupOK, NEW d \in Dispatchers, NEW how \in {"ok", "err"},
         NEW code \in Codes \cup {NoCode}, Return(d, how, code), UNCHANGED seen
  PROVE  SupOK'
<1>1. local' \in [Dispatchers -> Local]
  BY FreshType, LocalType DEF Return, SupOK
<1>2. "release" \in Lines
  BY DEF Lines
<1>3. pc' \in [Dispatchers -> Lines]
  BY <1>2 DEF SupOK, Return, Goto
<1> QED  BY <1>1, <1>3 DEF SupOK, Return

LEMMA FailType ==
  ASSUME SupOK, NEW d \in Dispatchers, Fail(d), UNCHANGED seen
  PROVE  SupOK'
BY ReturnType DEF Fail

LEMMA ResetType ==
  ASSUME SupOK, NEW d \in Dispatchers, NEW id \in Ids \cup {NoId},
         NEW why \in {"cancel", "error"},
         Reset(d, id, why), seen' \in [Dispatchers -> BOOLEAN]
  PROVE  SupOK'
<1>1. local' \in [Dispatchers -> Local]
  BY LocalType DEF Reset, SupOK
<1>2. "kill" \in Lines
  BY DEF Lines, Resetting
<1> QED  BY <1>1, <1>2 DEF SupOK, Reset, Goto, KeepResult

LEMMA ThenType ==
  ASSUME SupOK, NEW d \in Dispatchers, NEW there \in Lines,
         NEW how \in {"none", "ok", "failed"},
         Then(d, there, how), proxyCode' \in [Dispatchers -> Codes \cup {NoCode}]
  PROVE  SupOK' /\ (RestOK => RestOK')
BY DEF SupOK, RestOK, Then, Goto, hostVars

LEMMA CodesHave == LaunchFailed \in Codes /\ Unclean \in Codes
BY DEF Codes

LEMMA StopType == LinuxOK /\ StopDistro => LinuxOK'
BY DEF LinuxOK, StopDistro, Each, Codes

LEMMA SessionType ==
  ASSUME LinuxOK, NEW d \in Dispatchers, UNCHANGED <<target, targetCode>>,
         kids' \in [Dispatchers -> BOOLEAN],
         NEW there \in {"none", "boot", "permit", "start", "running",
                        "quiesce", "publish", "exit", "gone"}
  PROVE  /\ Move(d, there) => LinuxOK'
         /\ \A code \in Codes \cup {NoCode} : Leave(d, there, code) => LinuxOK'
BY DEF LinuxOK, Move, Leave

LEMMA WindowsType ==
  ASSUME SupOK, RestOK, Windows, UNCHANGED proxyCode, files' \in [Dispatchers -> Files]
  PROVE  SupOK' /\ RestOK'
BY DEF SupOK, RestOK, Windows, supVars, hostVars

\* Every step keeps the types.
LEMMA TypeStep == TypeOK /\ [Next]_vars => TypeOK'
<1> SUFFICES ASSUME TypeOK, [Next]_vars PROVE TypeOK'
  OBVIOUS
<1>0. SupOK /\ LinuxOK /\ RestOK
  BY TypeParts
<1> USE <1>0
<1>1. ASSUME NEW d \in Dispatchers, Acquire(d) PROVE TypeOK'
  BY <1>1 DEF TypeOK, Acquire, Goto, Loop, KeepResult, linuxVars, hostVars
<1>2. ASSUME NEW d \in Dispatchers, StopWaiting(d) PROVE TypeOK'
  BY <1>2, FreshType, LocalType DEF TypeOK, StopWaiting, Goto, Fail, Return, linuxVars,
     hostVars
<1>3. ASSUME NEW d \in Dispatchers, NotSpawned(d) PROVE TypeOK'
  BY <1>3, FreshType, LocalType DEF TypeOK, NotSpawned, Goto, Fail, Return, linuxVars,
     hostVars
<1>4. ASSUME NEW d \in Dispatchers, Spawn(d) PROVE TypeOK'
  BY <1>4 DEF TypeOK, Supervising, Spawn, Goto, Loop, KeepResult, hostVars
<1>5. ASSUME NEW d \in Dispatchers, Poll(d) PROVE TypeOK'
  <2>1. seen' \in [Dispatchers -> BOOLEAN]
    BY <1>5, LocalType DEF SupOK, Poll
  <2>2. local[d].id \in Ids \cup {NoId} /\ files[d].attested \in Ids \cup {NoId}
    BY LocalType, FilesType DEF SupOK, RestOK
  <2>3. ASSUME Loop(d, "status") \/ Loop(d, "authorize") PROVE SupOK'
    BY <2>1, <2>3, LoopType DEF Lines, Supervising
  <2>4. ASSUME \E id \in {local[d].id, files[d].attested, NoId}, why \in {"cancel", "error"} :
                 Reset(d, id, why)
        PROVE  SupOK'
    BY <2>1, <2>2, <2>4, ResetType
  <2>5. Cancel(d) \/ Loop(d, "authorize")
    BY <1>5 DEF Poll
  <2>s. SupOK'
    BY <2>3, <2>4, <2>5 DEF Cancel
  <2>l. LinuxOK' /\ RestOK'
    BY <1>5 DEF LinuxOK, RestOK, Poll, linuxVars, hostVars
  <2> QED  BY <2>l, <2>s, TypeParts
<1>6. ASSUME NEW d \in Dispatchers, Authorize(d) PROVE TypeOK'
  <2>1. local[d].id \in Ids \cup {NoId} /\ files[d].attested \in Ids \cup {NoId}
    BY LocalType, FilesType DEF SupOK, RestOK
  <2>2. seen' \in [Dispatchers -> BOOLEAN]
    BY <1>6 DEF SupOK, Authorize
  <2>3. ASSUME Loop(d, "status") PROVE SupOK'
    BY <2>2, <2>3, LoopType DEF Lines, Supervising
  <2>4. ASSUME \E id \in {files[d].attested, NoId} : Reset(d, id, "error") PROVE SupOK'
    BY <2>1, <2>2, <2>4, ResetType
  <2>5. ASSUME local' = [local EXCEPT ![d].id = files[d].attested],
               authorized' = [authorized EXCEPT ![d] = TRUE],
               Goto(d, "status"),
               UNCHANGED <<term, outcome, status, proxyCode>>
        PROVE  SupOK'
    <3>1. local' \in [Dispatchers -> Local]
      BY <2>1, <2>5, LocalType DEF SupOK
    <3>2. "status" \in Lines
      BY DEF Lines, Supervising
    <3> QED  BY <2>2, <2>5, <3>1, <3>2 DEF SupOK, Goto
  <2>s. SupOK'
    BY <1>6, <2>3, <2>4, <2>5 DEF Authorize
  <2>6. files' \in [Dispatchers -> Files]
    <3>1. files' = files \/ files' = [files EXCEPT ![d].permit = TRUE]
      BY <1>6 DEF Authorize
    <3>2. files \in [Dispatchers -> Files]
      BY DEF RestOK
    <3>3. [files EXCEPT ![d].permit = TRUE] \in [Dispatchers -> Files]
      BY <3>2, FilesType
    <3> QED  BY <3>1, <3>2, <3>3
  <2>l. LinuxOK' /\ RestOK'
    BY <1>6, <2>6 DEF LinuxOK, RestOK, Authorize, linuxVars, hostVars
  <2> QED  BY <2>l, <2>s, TypeParts
<1>7. ASSUME NEW d \in Dispatchers, TryWait(d) PROVE TypeOK'
  <2>1. local[d].id \in Ids \cup {NoId} /\ local[d].proxy \in Codes \cup {NoCode}
    BY LocalType DEF SupOK
  <2>2. seen' \in [Dispatchers -> BOOLEAN]
    BY <1>7 DEF SupOK, TryWait
  <2>3. ASSUME Reset(d, local[d].id, "error") PROVE SupOK'
    BY <2>1, <2>2, <2>3, ResetType
  <2>4. ASSUME local' = [local EXCEPT ![d].proxy = IF @ = NoCode THEN proxyCode[d] ELSE @],
               Goto(d, "judge"), KeepResult, UNCHANGED proxyCode
        PROVE  SupOK'
    <3> DEFINE code == IF local[d].proxy = NoCode THEN proxyCode[d] ELSE local[d].proxy
    <3>1. code \in Codes \cup {NoCode}
      BY <2>1 DEF SupOK
    <3>2. local' = [local EXCEPT ![d].proxy = code]
      BY <2>4
    <3>3. local' \in [Dispatchers -> Local]
      <4> HIDE DEF code
      <4> QED  BY <3>1, <3>2, LocalType DEF SupOK
    <3>4. "judge" \in Lines
      BY DEF Lines, Supervising
    <3> QED  BY <2>2, <2>4, <3>3, <3>4 DEF SupOK, Goto, KeepResult
  <2>s. SupOK'
    BY <1>7, <2>3, <2>4 DEF TryWait
  <2>l. LinuxOK' /\ RestOK'
    BY <1>7 DEF LinuxOK, RestOK, TryWait, linuxVars, hostVars
  <2> QED  BY <2>l, <2>s, TypeParts
<1>8. ASSUME NEW d \in Dispatchers, Judge(d) PROVE TypeOK'
  <2>1. /\ local[d].id \in Ids \cup {NoId} /\ local[d].proxy \in Codes \cup {NoCode}
        /\ files[d].completion \in Codes \cup {NoCode}
    BY LocalType, FilesType DEF SupOK, RestOK
  <2>2. UNCHANGED seen /\ seen' \in [Dispatchers -> BOOLEAN]
    BY <1>8 DEF SupOK, Judge
  <2>3. ASSUME Loop(d, "poll") PROVE SupOK'
    BY <2>2, <2>3, LoopType DEF Lines, Supervising
  <2>4. ASSUME Reset(d, local[d].id, "error") PROVE SupOK'
    BY <2>1, <2>2, <2>4, ResetType
  <2>5. ASSUME Fail(d) PROVE SupOK'
    BY <2>2, <2>5, FailType
  <2>6. ASSUME \E code \in {local[d].proxy, files[d].completion} : Return(d, "ok", code)
        PROVE  SupOK'
    BY <2>1, <2>2, <2>6, ReturnType
  <2>7. ASSUME JudgeUnauthorized(d) PROVE SupOK'
    BY <2>5, <2>6, <2>7 DEF JudgeUnauthorized
  <2>8. ASSUME JudgeCompletion(d) PROVE SupOK'
    BY <2>3, <2>4, <2>6, <2>8 DEF JudgeCompletion
  <2>9. ASSUME JudgeRunning(d) PROVE SupOK'
    BY <2>3, <2>4, <2>9 DEF JudgeRunning
  <2>s. SupOK'
    BY <1>8, <2>7, <2>8, <2>9 DEF Judge
  <2>l. LinuxOK' /\ RestOK'
    BY <1>8 DEF LinuxOK, RestOK, Judge, linuxVars, hostVars
  <2> QED  BY <2>l, <2>s, TypeParts
<1>9. ASSUME NEW d \in Dispatchers, KillProxy(d) PROVE TypeOK'
  <2>1. proxyCode' \in [Dispatchers -> Codes \cup {NoCode}]
    BY <1>9, CodesHave DEF SupOK, KillProxy
  <2>2. \E there \in {"reap", "revalidate"} : Then(d, there, "none")
    BY <1>9 DEF KillProxy
  <2>3. SupOK' /\ RestOK'
    BY <2>1, <2>2, ThenType DEF Lines, Resetting
  <2>4. LinuxOK'
    BY <1>9 DEF KillProxy, linuxVars, LinuxOK
  <2> QED  BY <2>3, <2>4, TypeParts
<1>10. ASSUME NEW d \in Dispatchers, Revalidate(d) PROVE TypeOK'
  BY <1>10 DEF TypeOK, Resetting, Revalidate, Goto, Then, linuxVars, hostVars
<1>11. ASSUME NEW d \in Dispatchers, Terminate(d) PROVE TypeOK'
  <2>1. Then(d, "stopping", "none") \/ Then(d, "reap", "failed")
    BY <1>11 DEF Terminate
  <2>2. proxyCode' \in [Dispatchers -> Codes \cup {NoCode}]
    BY <1>11 DEF SupOK, Terminate
  <2>3. SupOK' /\ RestOK'
    BY <2>1, <2>2, ThenType DEF Lines, Resetting
  <2>4. LinuxOK'
    BY <1>11, StopType DEF Terminate, linuxVars, LinuxOK
  <2> QED  BY <2>3, <2>4, TypeParts
<1>12. ASSUME NEW d \in Dispatchers, AwaitStop(d) PROVE TypeOK'
  BY <1>12 DEF TypeOK, Resetting, AwaitStop, Goto, Then, linuxVars, hostVars
<1>13. ASSUME NEW d \in Dispatchers, Reap(d) PROVE TypeOK'
  <2>1. UNCHANGED seen /\ seen' \in [Dispatchers -> BOOLEAN]
    BY <1>13 DEF SupOK, Reap
  <2>2. ASSUME Loop(d, "expire") PROVE SupOK'
    BY <2>1, <2>2, LoopType DEF Lines, Resetting
  <2>3. ASSUME Fail(d) PROVE SupOK'
    BY <2>1, <2>3, FailType
  <2>4. ASSUME Return(d, "ok", proxyCode[d]) PROVE SupOK'
    <3>1. proxyCode[d] \in Codes \cup {NoCode}
      BY DEF SupOK
    <3> QED  BY <2>1, <2>4, <3>1, ReturnType
  <2>s. SupOK'
    BY <1>13, <2>2, <2>3, <2>4 DEF Reap
  <2>l. LinuxOK' /\ RestOK'
    BY <1>13 DEF LinuxOK, RestOK, Reap, linuxVars, hostVars
  <2> QED  BY <2>l, <2>s, TypeParts
<1>14. ASSUME NEW d \in Dispatchers, Expire(d) PROVE TypeOK'
  BY <1>14, FreshType, LocalType DEF TypeOK, Expire, Goto, Fail, Return, linuxVars, hostVars
<1>15. ASSUME NEW d \in Dispatchers, Release(d) PROVE TypeOK'
  BY <1>15 DEF TypeOK, Release, Goto, Loop, KeepResult, linuxVars, hostVars
<1>5a. ASSUME NEW d \in Dispatchers, DropGuard(d) PROVE TypeOK'
  BY <1>5a, FilesType, NoFilesType DEF TypeOK, DropGuard, Goto, Loop, KeepResult, linuxVars,
     hostVars
<1>17. ASSUME NEW d \in Dispatchers, Crash(d) PROVE TypeOK'
  BY <1>17, FilesType, LocalType, FreshType DEF TypeOK, Crash, Goto, KeepResult, linuxVars,
     hostVars
<1>18. ASSUME NEW d \in Dispatchers, Attest(d) PROVE TypeOK'
  <2>1. files' \in [Dispatchers -> Files]
    <3>1. files' \in {files, [files EXCEPT ![d] = [files[d] EXCEPT !.attested = marker]]}
      BY <1>18 DEF Attest, Write
    <3>2. [files[d] EXCEPT !.attested = marker] \in Files
      BY FilesType DEF RestOK
    <3> QED  BY <3>1, <3>2, FilesType DEF RestOK
  <2>2. SupOK' /\ RestOK'
    BY <1>18, <2>1, WindowsType DEF Attest
  <2>3. kids' \in [Dispatchers -> BOOLEAN]
    BY <1>18 DEF LinuxOK, Attest
  <2>4. Move(d, "permit") \/ Leave(d, "gone", LaunchFailed)
    BY <1>18 DEF Attest
  <2>5. LinuxOK'
    BY <1>18, <2>3, <2>4, SessionType, CodesHave DEF Attest
  <2> QED  BY <2>2, <2>5, TypeParts
<1>19. ASSUME NEW d \in Dispatchers, AwaitPermit(d) PROVE TypeOK'
  BY <1>19 DEF TypeOK, Codes, AwaitPermit, Move, Leave, Windows, supVars, hostVars
<1>20. ASSUME NEW d \in Dispatchers, Refuse(d) PROVE TypeOK'
  BY <1>20 DEF TypeOK, Codes, Refuse, Leave, Windows, supVars, hostVars
<1>21. ASSUME NEW d \in Dispatchers, StartTarget(d) PROVE TypeOK'
  BY <1>21 DEF TypeOK, StartTarget, Move, Windows, supVars, hostVars
<1>22. ASSUME NEW d \in Dispatchers, ReapTarget(d) PROVE TypeOK'
  BY <1>22 DEF TypeOK, Codes, ReapTarget, Leave, Windows, supVars, hostVars
<1>23. ASSUME NEW d \in Dispatchers, Quiesce(d) PROVE TypeOK'
  <2>1. files' \in [Dispatchers -> Files]
    BY <1>23 DEF RestOK, Quiesce
  <2>2. SupOK' /\ RestOK'
    BY <1>23, <2>1, WindowsType DEF Quiesce
  <2>3. kids' \in [Dispatchers -> BOOLEAN]
    BY <1>23 DEF LinuxOK, Quiesce
  <2>4. Move(d, "publish") \/ \E code \in Codes : Leave(d, "gone", code)
    BY <1>23, CodesHave DEF Quiesce
  <2>5. LinuxOK'
    BY <1>23, <2>3, <2>4, SessionType DEF Quiesce
  <2> QED  BY <2>2, <2>5, TypeParts
<1>24. ASSUME NEW d \in Dispatchers, Publish(d) PROVE TypeOK'
  <2>1. sessionCode[d] \in Codes \cup {NoCode}
    BY DEF LinuxOK
  <2>2. files' \in [Dispatchers -> Files]
    <3>1. files' \in {files, [files EXCEPT ![d] = [files[d] EXCEPT !.completion = sessionCode[d]]]}
      BY <1>24 DEF Publish, Write
    <3>2. [files[d] EXCEPT !.completion = sessionCode[d]] \in Files
      BY <2>1, FilesType DEF RestOK
    <3> QED  BY <3>1, <3>2, FilesType DEF RestOK
  <2>3. SupOK' /\ RestOK'
    BY <1>24, <2>2, WindowsType DEF Publish
  <2>4. kids' \in [Dispatchers -> BOOLEAN]
    BY <1>24 DEF LinuxOK, Publish
  <2>5. Move(d, "exit") \/ Leave(d, "gone", Unclean)
    BY <1>24 DEF Publish
  <2>6. LinuxOK'
    BY <1>24, <2>4, <2>5, SessionType, CodesHave DEF Publish
  <2> QED  BY <2>3, <2>6, TypeParts
<1>25. ASSUME NEW d \in Dispatchers, Exit(d) PROVE TypeOK'
  BY <1>25 DEF TypeOK, Exit, Move, Windows, supVars, hostVars
<1>26. ASSUME NEW d \in Dispatchers, TargetExits(d) PROVE TypeOK'
  BY <1>26 DEF TypeOK, TargetExits, Windows, supVars, hostVars
<1>27. ASSUME NEW d \in Dispatchers, Fork(d) PROVE TypeOK'
  BY <1>27 DEF TypeOK, Fork, Windows, supVars, hostVars
<1>28. ASSUME NEW d \in Dispatchers, KidsExit(d) PROVE TypeOK'
  BY <1>28 DEF TypeOK, KidsExit, Windows, supVars, hostVars
<1>29. ASSUME NEW d \in Dispatchers, ProxyExits(d) PROVE TypeOK'
  BY <1>29 DEF TypeOK, Codes, ProxyExits, Windows, supVars, hostVars, linuxVars
<1>30. ASSUME NEW d \in Dispatchers, PressCtrlC(d) PROVE TypeOK'
  BY <1>30, LocalType DEF TypeOK, PressCtrlC, linuxVars, hostVars
<1>31. ASSUME NEW d \in Dispatchers, Tick(d) PROVE TypeOK'
  <2>1. local[d].late \in 0..2
    BY LocalType DEF SupOK
  <2>2. ASSUME local[d].late < 2, local' = [local EXCEPT ![d].late = @ + 1]
        PROVE  local' \in [Dispatchers -> Local]
    <3>1. local[d].late + 1 \in 0..2
      BY <2>1, <2>2
    <3> DEFINE t == local[d].late + 1
    <3>2. local' = [local EXCEPT ![d].late = t]
      BY <2>2
    <3> HIDE DEF t
    <3> QED  BY <3>1, <3>2, LocalType DEF SupOK, t
  <2>3. local' \in [Dispatchers -> Local]
    <3>1. ASSUME local' = [local EXCEPT ![d].grace = TRUE] PROVE local' \in [Dispatchers -> Local]
      BY <3>1, LocalType DEF SupOK
    <3> QED  BY <1>31, <2>2, <3>1 DEF Tick
  <2>s. SupOK'
    BY <1>31, <2>3 DEF SupOK, Tick
  <2>l. LinuxOK' /\ RestOK'
    BY <1>31 DEF LinuxOK, RestOK, Tick, linuxVars, hostVars
  <2> QED  BY <2>l, <2>s, TypeParts
<1>32. CASE WriteMarker
  BY <1>32 DEF TypeOK, Ids, WriteMarker, supVars, linuxVars
<1>33. CASE RestartDistro
  <2>1. LinuxOK'
    BY <1>33, StopType DEF RestartDistro, linuxVars, LinuxOK
  <2>2. SupOK' /\ RestOK'
    BY <1>33 DEF RestartDistro, SupOK, RestOK, supVars
  <2> QED  BY <2>1, <2>2, TypeParts
<1>34. CASE UNCHANGED vars
  BY <1>34 DEF TypeOK, vars
<1> QED
  BY <1>1, <1>2, <1>3, <1>4, <1>5, <1>6, <1>7, <1>8, <1>9, <1>10, <1>11, <1>12, <1>13, <1>14,
     <1>15, <1>5a, <1>17, <1>18, <1>19, <1>20, <1>21, <1>22, <1>23, <1>24, <1>25, <1>26,
     <1>27, <1>28, <1>29, <1>30, <1>31, <1>32, <1>33, <1>34 DEF Next, Dispatch, Launch,
     Environment

(***************************************************************************)
(* Every variable keeps its type, for any number of dispatchers and runs of *)
(* the provisioning script.                                                 *)
(***************************************************************************)
THEOREM Wsl1TypeCorrect == Spec => []TypeOK
<1>1. Init => TypeOK
  <2> SUFFICES ASSUME Init PROVE TypeOK
    OBVIOUS
  <2>1. local \in [Dispatchers -> Local] /\ files \in [Dispatchers -> Files]
    BY FreshType, NoFilesType DEF Init, Each
  <2>2. SupOK
    BY <2>1 DEF Init, SupOK, Each, Lines
  <2>3. LinuxOK
    BY DEF Init, LinuxOK, Each
  <2>4. RestOK
    <3>1. 0 \in Ids
      BY DEF Ids
    <3> QED  BY <2>1, <3>1 DEF Init, RestOK
  <2> QED  BY <2>2, <2>3, <2>4, TypeParts
<1> QED  BY <1>1, TypeStep, PTL DEF Spec

----------------------------------------------------------------------------

(* One command. *)

After == {"release", "drop", "done", "crashed"}
Holding == {"spawn"} \cup Supervising \cup Resetting

\* How far the dispatcher of a command, its session, its processes and its
\* files can be apart.
LifeFiles(e) ==
  /\ files[e].permit => authorized[e]
  /\ session[e] \in {"start", "running", "quiesce", "publish", "exit"} \/ target[e] # "unborn"
       => authorized[e]
  /\ files[e].completion # NoCode => session[e] \in {"exit", "gone"} /\ ~TargetLive(e)
  /\ files[e].attested # NoId \/ local[e].id # NoId \/ authorized[e]
       => session[e] \notin {"none", "boot"}

LifeTarget(e) ==
  /\ session[e] \in {"none", "boot", "permit", "start"} => target[e] = "unborn"
  /\ target[e] = "unborn" => ~kids[e]
  /\ target[e] = "alive" => session[e] = "running"
  /\ kids[e] => session[e] \in {"running", "quiesce", "gone"}

LifeCall(e) ==
  /\ pc[e] \in {"revalidate", "terminate", "stopping"} => local[e].id # NoId
  /\ term[e] = "ok" => session[e] = "gone" /\ ~TargetLive(e)
  /\ outcome[e] = "ok" /\ authorized[e] => session[e] \in {"exit", "gone"} /\ ~TargetLive(e)
  /\ pc[e] \in After \/ outcome[e] = "none"
  /\ pc[e] \in {"release", "drop", "done"} => outcome[e] # "none"
  /\ pc[e] \in {"wait", "spawn"} => session[e] = "none"
  /\ pc[e] \in Holding => mutex = e
  /\ pc[e] = "authorize" => ~seen[e]

Life(e) == LifeFiles(e) /\ LifeTarget(e) /\ LifeCall(e)
LifeInv == \A e \in Dispatchers : Life(e)

\* What belongs to e stays as it is.
Untouched(e) ==
  /\ pc'[e] = pc[e] /\ local'[e] = local[e] /\ authorized'[e] = authorized[e]
  /\ term'[e] = term[e] /\ outcome'[e] = outcome[e] /\ status'[e] = status[e]
  /\ seen'[e] = seen[e] /\ files'[e] = files[e] /\ proxyCode'[e] = proxyCode[e]
  /\ session'[e] = session[e] /\ sessionCode'[e] = sessionCode[e]
  /\ target'[e] = target[e] /\ targetCode'[e] = targetCode[e] /\ kids'[e] = kids[e]
  /\ mutex = e => mutex' = e

\* A command nothing happens to stays in order.
LEMMA UntouchedLife ==
  ASSUME NEW e \in Dispatchers, Life(e), Untouched(e)
  PROVE  Life(e)'
BY DEF Life, LifeFiles, LifeTarget, LifeCall, Untouched, TargetLive

\* A step of one dispatcher, its session or its processes leaves the others
\* alone, unless it restarts the distro.
LEMMA Elsewhere ==
  ASSUME TypeOK, NEW d \in Dispatchers, NEW e \in Dispatchers, d # e,
         Dispatch(d) \/ Launch(d) \/ Environment(d) \/ Tick(d), ~Terminate(d)
  PROVE  Untouched(e)
<1>1. ASSUME Acquire(d) PROVE Untouched(e)
  BY <1>1, DispatchersAssumption DEF TypeOK, Untouched, Acquire, Goto, Loop, KeepResult,
     linuxVars
<1>2. ASSUME StopWaiting(d) PROVE Untouched(e)
  BY <1>2, DispatchersAssumption DEF TypeOK, Untouched, StopWaiting, Goto, Fail, Return,
     linuxVars
<1>3. ASSUME NotSpawned(d) PROVE Untouched(e)
  BY <1>3, DispatchersAssumption DEF TypeOK, Untouched, NotSpawned, Goto, Fail, Return,
     linuxVars
<1>4. ASSUME Spawn(d) PROVE Untouched(e)
  BY <1>4, DispatchersAssumption DEF TypeOK, Untouched, Spawn, Goto, Loop, KeepResult
<1>5. ASSUME Poll(d) PROVE Untouched(e)
  BY <1>5, DispatchersAssumption DEF TypeOK, Untouched, Poll, Goto, Cancel, Loop, KeepResult,
     Reset, linuxVars
<1>6. ASSUME Authorize(d) PROVE Untouched(e)
  BY <1>6, DispatchersAssumption DEF TypeOK, Untouched, Authorize, Goto, Loop, KeepResult,
     Reset, linuxVars
<1>7. ASSUME TryWait(d) PROVE Untouched(e)
  BY <1>7, DispatchersAssumption DEF TypeOK, Untouched, TryWait, Goto, Reset, KeepResult,
     linuxVars
<1>8. ASSUME Judge(d) PROVE Untouched(e)
  BY <1>8, DispatchersAssumption DEF TypeOK, Untouched, Judge, Goto, JudgeUnauthorized,
     JudgeCompletion, JudgeRunning, Fail, Loop, KeepResult, Reset, Return, linuxVars
<1>9. ASSUME KillProxy(d) PROVE Untouched(e)
  BY <1>9, DispatchersAssumption DEF TypeOK, Untouched, KillProxy, Goto, Then, linuxVars
<1>10. ASSUME Revalidate(d) PROVE Untouched(e)
  BY <1>10, DispatchersAssumption DEF TypeOK, Untouched, Revalidate, Goto, Then, linuxVars
<1>11. ASSUME AwaitStop(d) PROVE Untouched(e)
  BY <1>11, DispatchersAssumption DEF TypeOK, Untouched, AwaitStop, Goto, Then, linuxVars
<1>12. ASSUME Reap(d) PROVE Untouched(e)
  BY <1>12, DispatchersAssumption DEF TypeOK, Untouched, Reap, Goto, Loop, KeepResult, Fail,
     Return, linuxVars
<1>13. ASSUME Expire(d) PROVE Untouched(e)
  BY <1>13, DispatchersAssumption DEF TypeOK, Untouched, Expire, Goto, Fail, Return, linuxVars
<1>14. ASSUME Release(d) PROVE Untouched(e)
  BY <1>14, DispatchersAssumption DEF TypeOK, Untouched, Release, Goto, Loop, KeepResult,
     linuxVars
<1>15. ASSUME DropGuard(d) PROVE Untouched(e)
  BY <1>15, DispatchersAssumption DEF TypeOK, Untouched, DropGuard, Goto, Loop, KeepResult,
     linuxVars
<1>5a. ASSUME Crash(d) PROVE Untouched(e)
  BY <1>5a, DispatchersAssumption DEF TypeOK, Untouched, Crash, Goto, KeepResult, linuxVars
<1>17. ASSUME Attest(d) PROVE Untouched(e)
  BY <1>17, DispatchersAssumption DEF TypeOK, Untouched, Attest, Move, Leave, Write, Windows,
     supVars
<1>18. ASSUME AwaitPermit(d) PROVE Untouched(e)
  BY <1>18, DispatchersAssumption DEF TypeOK, Untouched, AwaitPermit, Move, Leave, Windows,
     supVars
<1>19. ASSUME Refuse(d) PROVE Untouched(e)
  BY <1>19, DispatchersAssumption DEF TypeOK, Untouched, Refuse, Leave, Windows, supVars
<1>20. ASSUME StartTarget(d) PROVE Untouched(e)
  BY <1>20, DispatchersAssumption DEF TypeOK, Untouched, StartTarget, Move, Windows, supVars
<1>21. ASSUME ReapTarget(d) PROVE Untouched(e)
  BY <1>21, DispatchersAssumption DEF TypeOK, Untouched, ReapTarget, Leave, Windows, supVars
<1>22. ASSUME Quiesce(d) PROVE Untouched(e)
  BY <1>22, DispatchersAssumption DEF TypeOK, Untouched, Quiesce, Move, Leave, Windows,
     supVars
<1>23. ASSUME Publish(d) PROVE Untouched(e)
  BY <1>23, DispatchersAssumption DEF TypeOK, Untouched, Publish, Move, Leave, Write, Windows,
     supVars
<1>24. ASSUME Exit(d) PROVE Untouched(e)
  BY <1>24, DispatchersAssumption DEF TypeOK, Untouched, Exit, Move, Windows, supVars
<1>25. ASSUME TargetExits(d) PROVE Untouched(e)
  BY <1>25, DispatchersAssumption DEF TypeOK, Untouched, TargetExits, Windows, supVars
<1>26. ASSUME Fork(d) PROVE Untouched(e)
  BY <1>26, DispatchersAssumption DEF TypeOK, Untouched, Fork, Windows, supVars
<1>27. ASSUME KidsExit(d) PROVE Untouched(e)
  BY <1>27, DispatchersAssumption DEF TypeOK, Untouched, KidsExit, Windows, supVars
<1>28. ASSUME ProxyExits(d) PROVE Untouched(e)
  BY <1>28, DispatchersAssumption DEF TypeOK, Untouched, ProxyExits, Windows, supVars,
     linuxVars
<1>29. ASSUME PressCtrlC(d) PROVE Untouched(e)
  BY <1>29, DispatchersAssumption DEF TypeOK, Untouched, PressCtrlC, linuxVars
<1>30. ASSUME Tick(d) PROVE Untouched(e)
  BY <1>30, DispatchersAssumption DEF TypeOK, Untouched, Tick, linuxVars
<1> QED
  BY <1>1, <1>2, <1>3, <1>4, <1>5, <1>6, <1>7, <1>8, <1>9, <1>10, <1>11, <1>12, <1>13, <1>14,
     <1>15, <1>5a, <1>17, <1>18, <1>19, <1>20, <1>21, <1>22, <1>23, <1>24, <1>25, <1>26,
     <1>27, <1>28, <1>29, <1>30 DEF Dispatch, Launch, Environment

Quiet(e) == session[e] \in {"exit", "gone"} /\ ~TargetLive(e)

LinuxKept(e) ==
  /\ session'[e] = session[e] /\ target'[e] = target[e] /\ kids'[e] = kids[e]
  /\ files'[e] = files[e] /\ authorized'[e] = authorized[e]

\* Within a call: the effect on what Life speaks of of the steps that have no
\* effect outside their dispatcher.
LEMMA CallLife ==
  ASSUME NEW d \in Dispatchers, Life(d), LinuxKept(d), mutex' = mutex,
         local'[d].id # NoId => session[d] \notin {"none", "boot"},
         pc'[d] \notin {"wait", "spawn", "revalidate", "terminate", "stopping"},
         pc'[d] \in Holding => mutex = d /\ outcome'[d] = "none",
         pc'[d] \in {"release", "drop", "done"} => outcome'[d] # "none",
         pc'[d] \in After \/ pc'[d] \in Holding,
         outcome'[d] = "ok" /\ authorized[d] => Quiet(d),
         term'[d] = "ok" => session[d] = "gone" /\ ~TargetLive(d),
         pc'[d] = "authorize" => ~seen'[d]
  PROVE  Life(d)'
<1>1. LifeFiles(d)'
  BY DEF Life, LifeFiles, LinuxKept, TargetLive
<1>2. LifeTarget(d)'
  BY DEF Life, LifeTarget, LinuxKept
<1>3. LifeCall(d)'
  BY DEF LifeCall, LinuxKept, Quiet, TargetLive
<1> QED  BY <1>1, <1>2, <1>3 DEF Life

\* The four ways on from a line of a call: its return, its failure, a reset,
\* another line of the loop.
LEMMA ReturnLife ==
  ASSUME TypeOK, NEW d \in Dispatchers, Life(d),
         NEW how \in {"ok", "err"}, NEW code, Return(d, how, code),
         how = "ok" /\ authorized[d] => Quiet(d),
         UNCHANGED <<mutex, seen, files, linuxVars>>
  PROVE  Life(d)'
<1>1. LinuxKept(d)
  BY DEF LinuxKept, linuxVars, Return
<1>2. local'[d] = Fresh
  BY DEF TypeOK, Return
<1>3. pc'[d] = "release" /\ outcome'[d] = how /\ term'[d] = term[d]
  BY DEF TypeOK, Return, Goto
<1>4. local'[d].id = NoId
  BY <1>2 DEF Fresh
<1>5. term'[d] = "ok" => session[d] = "gone" /\ ~TargetLive(d)
  BY <1>3 DEF Life, LifeCall
<1> QED  BY <1>1, <1>3, <1>4, <1>5, CallLife DEF After, Holding, Supervising, Resetting

LEMMA FailLife ==
  ASSUME TypeOK, NEW d \in Dispatchers, Life(d), Fail(d),
         UNCHANGED <<mutex, seen, files, linuxVars>>
  PROVE  Life(d)'
BY ReturnLife DEF Fail

\* What holds inside a call.
LEMMA InCall ==
  ASSUME NEW d \in Dispatchers, Life(d), pc[d] \in Holding
  PROVE  /\ outcome[d] = "none" /\ mutex = d
         /\ (term[d] = "ok" => session[d] = "gone" /\ ~TargetLive(d))
BY DEF Life, LifeCall, After, Holding, Supervising, Resetting

LEMMA ResetLife ==
  ASSUME TypeOK, NEW d \in Dispatchers, Life(d), pc[d] \in Holding,
         NEW id, NEW why, Reset(d, id, why),
         id # NoId => session[d] \notin {"none", "boot"},
         UNCHANGED <<mutex, files, linuxVars>>
  PROVE  Life(d)'
<1>1. LinuxKept(d)
  BY DEF LinuxKept, linuxVars, Reset, KeepResult
<1>2. local'[d] = [Fresh EXCEPT !.id = id, !.why = why, !.proxy = local[d].proxy]
  BY DEF TypeOK, Reset
<1>3. local'[d].id = id
  BY <1>2 DEF Fresh
<1>4. pc'[d] = "kill" /\ outcome'[d] = outcome[d] /\ term'[d] = term[d]
  BY DEF TypeOK, Reset, Goto, KeepResult
<1>5. /\ outcome'[d] = "none" /\ mutex = d
      /\ (term'[d] = "ok" => session[d] = "gone" /\ ~TargetLive(d))
  BY <1>4, InCall
<1> QED  BY <1>1, <1>3, <1>4, <1>5, CallLife DEF Holding, Resetting

LEMMA LoopLife ==
  ASSUME TypeOK, NEW d \in Dispatchers, Life(d), pc[d] \in Holding,
         NEW there \in {"poll", "authorize", "status", "expire"}, Loop(d, there),
         there = "authorize" => ~seen'[d],
         UNCHANGED <<mutex, files, linuxVars>>
  PROVE  Life(d)'
<1>1. LinuxKept(d)
  BY DEF LinuxKept, linuxVars, Loop, KeepResult
<1>2. /\ pc'[d] = there /\ outcome'[d] = outcome[d] /\ term'[d] = term[d]
      /\ local'[d].id = local[d].id
  BY DEF TypeOK, Loop, Goto, KeepResult
<1>3. /\ outcome'[d] = "none" /\ mutex = d
      /\ (term'[d] = "ok" => session[d] = "gone" /\ ~TargetLive(d))
  BY <1>2, InCall
<1>4. local'[d].id # NoId => session[d] \notin {"none", "boot"}
  BY <1>2 DEF Life, LifeFiles
<1> QED  BY <1>1, <1>2, <1>3, <1>4, CallLife DEF Holding, Supervising, Resetting

\* A step of a dispatcher, of its session or of its processes keeps its own
\* life in order.
LEMMA LifeHere ==
  ASSUME TypeOK, NEW d \in Dispatchers, Life(d),
         Dispatch(d) \/ Launch(d) \/ Environment(d) \/ Tick(d), ~Terminate(d)
  PROVE  Life(d)'
<1>1. ASSUME Acquire(d) PROVE Life(d)'
  BY <1>1 DEF TypeOK, Life, LifeFiles, LifeTarget, LifeCall, After, Acquire, At, Goto, Loop,
     KeepResult, linuxVars
<1>2. ASSUME StopWaiting(d) PROVE Life(d)'
  BY <1>2, FailLife DEF StopWaiting
<1>3. ASSUME NotSpawned(d) PROVE Life(d)'
  BY <1>3, FailLife DEF NotSpawned
<1>4. ASSUME Spawn(d) PROVE Life(d)'
  BY <1>4 DEF TypeOK, Life, LifeFiles, LifeTarget, LifeCall, After, Holding, Spawn, At, Goto,
     Loop, KeepResult
<1>5. ASSUME Poll(d) PROVE Life(d)'
  <2>1. pc[d] \in Holding
    BY <1>5 DEF Poll, At, Holding, Supervising
  <2>2. \A id \in {local[d].id, files[d].attested} : id # NoId => session[d] \notin {"none", "boot"}
    BY DEF Life, LifeFiles
  <2>3. UNCHANGED <<mutex, files, linuxVars>>
    BY <1>5 DEF Poll, hostVars
  <2>4. ASSUME NEW id \in {local[d].id, files[d].attested, NoId}, NEW why, Reset(d, id, why)
        PROVE  Life(d)'
    BY <2>1, <2>2, <2>3, <2>4, ResetLife
  <2>5. ASSUME Loop(d, "status") PROVE Life(d)'
    BY <2>1, <2>3, <2>5, LoopLife
  <2>6. CASE local[d].ctrlC
    BY <1>5, <2>4, <2>5, <2>6 DEF Poll, Cancel
  <2>7. CASE ~local[d].ctrlC
    <3>1. seen'[d] = local[d].ctrlC
      BY <1>5 DEF Poll, TypeOK
    <3> QED  BY <1>5, <2>1, <2>3, <2>7, <3>1, LoopLife DEF Poll
  <2> QED  BY <2>6, <2>7
<1>6. ASSUME Authorize(d) PROVE Life(d)'
  <2>1. pc[d] \in Holding
    BY <1>6 DEF Authorize, At, Holding, Supervising
  <2>2. \A id \in {files[d].attested, NoId} : id # NoId => session[d] \notin {"none", "boot"}
    BY DEF Life, LifeFiles
  <2>3. UNCHANGED <<mutex, linuxVars>>
    BY <1>6 DEF Authorize, hostVars
  <2>4. ASSUME NEW id \in {files[d].attested, NoId}, Reset(d, id, "error"), UNCHANGED files
        PROVE  Life(d)'
    BY <2>1, <2>2, <2>3, <2>4, ResetLife
  <2>5. ASSUME Loop(d, "status"), UNCHANGED files PROVE Life(d)'
    BY <2>1, <2>3, <2>5, LoopLife
  <2>6. ASSUME files[d].attested # NoId,
               local' = [local EXCEPT ![d].id = files[d].attested],
               authorized' = [authorized EXCEPT ![d] = TRUE],
               files' = [files EXCEPT ![d].permit = TRUE],
               Goto(d, "status"),
               UNCHANGED <<term, outcome, status, proxyCode>>
        PROVE  Life(d)'
    <3>1. files'[d] = [files[d] EXCEPT !.permit = TRUE] /\ files[d] \in Files
      BY <2>6 DEF TypeOK
    <3>2. files'[d].attested = files[d].attested /\ files'[d].completion = files[d].completion
      BY <3>1 DEF Files
    <3>3. authorized'[d] /\ pc'[d] = "status"
      BY <2>6 DEF TypeOK, Goto
    <3>4. session[d] \notin {"none", "boot"}
      BY <2>6 DEF Life, LifeFiles
    <3>5. LifeFiles(d)'
      BY <2>3, <3>2, <3>3, <3>4 DEF Life, LifeFiles, TargetLive, linuxVars
    <3>6. LifeTarget(d)'
      BY <2>3 DEF Life, LifeTarget, linuxVars
    <3>7. outcome'[d] = "none" /\ mutex' = d
      BY <2>1, <2>3, <2>6, InCall
    <3>8. LifeCall(d)'
      BY <2>3, <2>6, <3>3, <3>7 DEF Life, LifeCall, TargetLive, linuxVars
    <3> QED  BY <3>5, <3>6, <3>8 DEF Life
  <2> QED  BY <1>6, <2>4, <2>5, <2>6 DEF Authorize
<1>7. ASSUME TryWait(d) PROVE Life(d)'
  <2>1. pc[d] \in Holding
    BY <1>7 DEF TryWait, At, Holding, Supervising
  <2>2. UNCHANGED <<mutex, files, linuxVars>>
    BY <1>7 DEF TryWait, hostVars
  <2>3. local[d].id # NoId => session[d] \notin {"none", "boot"}
    BY DEF Life, LifeFiles
  <2>4. ASSUME Reset(d, local[d].id, "error") PROVE Life(d)'
    BY <2>1, <2>2, <2>3, <2>4, ResetLife
  <2>5. ASSUME NEW code, local' = [local EXCEPT ![d].proxy = code], Goto(d, "judge"), KeepResult
        PROVE  Life(d)'
    <3>1. local'[d].id = local[d].id
      BY <2>5 DEF TypeOK, Local
    <3>2. pc'[d] = "judge" /\ outcome'[d] = outcome[d] /\ term'[d] = term[d]
      BY <2>5 DEF TypeOK, Goto, KeepResult
    <3>3. /\ outcome'[d] = "none" /\ mutex = d
          /\ (term'[d] = "ok" => session[d] = "gone" /\ ~TargetLive(d))
      BY <2>1, <3>2, InCall
    <3>4. LinuxKept(d)
      BY <2>2, <2>5 DEF LinuxKept, linuxVars, KeepResult
    <3> QED  BY <2>2, <2>3, <3>1, <3>2, <3>3, <3>4, CallLife DEF Holding, Supervising
  <2> QED  BY <1>7, <2>4, <2>5 DEF TryWait
<1>8. ASSUME Judge(d) PROVE Life(d)'
  <2>1. pc[d] \in Holding
    BY <1>8 DEF Judge, At, Holding, Supervising
  <2>2. UNCHANGED <<mutex, seen, files, linuxVars>>
    BY <1>8 DEF Judge, hostVars
  <2>3. local[d].id # NoId => session[d] \notin {"none", "boot"}
    BY DEF Life, LifeFiles
  <2>4. ASSUME Reset(d, local[d].id, "error") PROVE Life(d)'
    BY <2>1, <2>2, <2>3, <2>4, ResetLife
  <2>5. ASSUME Loop(d, "poll") PROVE Life(d)'
    BY <2>1, <2>2, <2>5, LoopLife
  <2>6. ASSUME JudgeUnauthorized(d) PROVE Life(d)'
    BY <2>2, <2>6, ReturnLife, FailLife DEF JudgeUnauthorized
  <2>7. ASSUME JudgeCompletion(d) PROVE Life(d)'
    <3>1. files[d].completion # NoCode => Quiet(d)
      BY DEF Life, LifeFiles, Quiet
    <3>2. ASSUME files[d].completion = local[d].proxy, Return(d, "ok", files[d].completion)
          PROVE  Life(d)'
      BY <2>2, <2>7, <3>1, <3>2, ReturnLife DEF JudgeCompletion
    <3> QED  BY <2>4, <2>5, <2>7, <3>2 DEF JudgeCompletion
  <2>8. ASSUME JudgeRunning(d) PROVE Life(d)'
    BY <2>4, <2>5, <2>8 DEF JudgeRunning
  <2> QED  BY <1>8, <2>6, <2>7, <2>8 DEF Judge
<1>9. ASSUME KillProxy(d) PROVE Life(d)'
  BY <1>9 DEF TypeOK, Life, LifeFiles, LifeTarget, LifeCall, TargetLive, After, Holding,
     KillProxy, At, Goto, Then, linuxVars
<1>10. ASSUME Revalidate(d) PROVE Life(d)'
  BY <1>10 DEF TypeOK, Life, LifeFiles, LifeTarget, LifeCall, TargetLive, After, Holding,
     Revalidate, At, Goto, Then, linuxVars
<1>11. ASSUME AwaitStop(d) PROVE Life(d)'
  <2>1. /\ pc'[d] = "reap" /\ outcome'[d] = outcome[d] /\ local'[d] = local[d]
        /\ mutex' = mutex
        /\ term'[d] = "failed" \/ (term'[d] = "ok" /\ ~Running)
    BY <1>11 DEF AwaitStop, Then, Goto, TypeOK
  <2>2. LinuxKept(d)
    BY <1>11 DEF AwaitStop, Then, LinuxKept, linuxVars
  <2>3. pc[d] = "stopping"
    BY <1>11 DEF AwaitStop, At
  <2>4. session[d] \notin {"none", "boot"} /\ outcome[d] = "none" /\ mutex = d
    BY <2>3, InCall DEF Life, LifeFiles, LifeCall, Holding, Resetting
  <2>5. ~Running => session[d] = "gone" /\ ~TargetLive(d)
    BY <2>4 DEF Running, InDistro
  <2> QED  BY <2>1, <2>2, <2>4, <2>5, CallLife DEF Holding, Resetting
<1>12. ASSUME Reap(d) PROVE Life(d)'
  <2>1. pc[d] \in Holding
    BY <1>12 DEF Reap, At, Holding, Resetting
  <2>2. UNCHANGED <<mutex, seen, files, linuxVars>>
    BY <1>12 DEF Reap, hostVars
  <2>3. term[d] = "ok" => Quiet(d)
    BY DEF Life, LifeCall, Quiet
  <2>4. ASSUME term[d] = "ok", Return(d, "ok", proxyCode[d]) PROVE Life(d)'
    BY <2>2, <2>3, <2>4, ReturnLife
  <2>5. ASSUME Loop(d, "expire") PROVE Life(d)'
    BY <2>1, <2>2, <2>5, LoopLife
  <2> QED  BY <1>12, <2>2, <2>4, <2>5, FailLife DEF Reap
<1>13. ASSUME Expire(d) PROVE Life(d)'
  BY <1>13, FailLife DEF Expire
<1>14. ASSUME Release(d) PROVE Life(d)'
  BY <1>14 DEF TypeOK, Life, LifeFiles, LifeTarget, LifeCall, TargetLive, After, Holding,
     Supervising, Resetting, Release, At, Goto, Loop, KeepResult, linuxVars
<1>15. ASSUME DropGuard(d) PROVE Life(d)'
  <2>1. files'[d] = NoFiles /\ pc'[d] = "done" /\ pc[d] = "drop"
    BY <1>15 DEF DropGuard, Loop, Goto, At, TypeOK
  <2>2. ~files'[d].permit /\ files'[d].completion = NoCode /\ files'[d].attested = NoId
    BY <2>1 DEF NoFiles
  <2>3. UNCHANGED <<mutex, seen, local, authorized, term, outcome, linuxVars>>
    BY <1>15 DEF DropGuard, Loop, KeepResult
  <2>4. LifeFiles(d)'
    BY <2>2, <2>3 DEF Life, LifeFiles, linuxVars
  <2>5. LifeTarget(d)'
    BY <2>3 DEF Life, LifeTarget, linuxVars
  <2>6. LifeCall(d)'
    BY <2>1, <2>3 DEF Life, LifeCall, TargetLive, After, Holding, Supervising, Resetting,
       linuxVars
  <2> QED  BY <2>4, <2>5, <2>6 DEF Life
<1>5a. ASSUME Crash(d) PROVE Life(d)'
  <2>1. /\ files'[d] = [NoFiles EXCEPT !.permit = files[d].permit]
        /\ pc'[d] = "crashed" /\ local'[d] = Fresh
    BY <1>5a DEF Crash, Goto, TypeOK
  <2>2. /\ files'[d].permit = files[d].permit /\ files'[d].completion = NoCode
        /\ files'[d].attested = NoId /\ local'[d].id = NoId
    BY <2>1 DEF NoFiles, Fresh
  <2>3. UNCHANGED <<seen, authorized, term, outcome, linuxVars>>
    BY <1>5a DEF Crash, KeepResult
  <2>4. LifeFiles(d)'
    BY <2>2, <2>3 DEF Life, LifeFiles, linuxVars
  <2>5. LifeTarget(d)'
    BY <2>3 DEF Life, LifeTarget, linuxVars
  <2>6. LifeCall(d)'
    BY <2>1, <2>3 DEF Life, LifeCall, TargetLive, After, Holding, Supervising, Resetting,
       linuxVars
  <2> QED  BY <2>4, <2>5, <2>6 DEF Life
<1>17. ASSUME Attest(d) PROVE Life(d)'
  <2>1. /\ session[d] = "boot" /\ session'[d] \in {"permit", "gone"}
        /\ UNCHANGED <<mutex, supVars, target, kids>>
    BY <1>17 DEF Attest, Move, Leave, Windows, TypeOK
  <2>2. \/ files'[d] = files[d]
        \/ files'[d] = [files[d] EXCEPT !.attested = marker]
    BY <1>17 DEF Attest, Write, TypeOK
  <2>3. files[d] \in Files
    BY DEF TypeOK
  <2>4. files'[d].permit = files[d].permit /\ files'[d].completion = files[d].completion
    BY <2>2, <2>3 DEF Files
  <2>5. LifeFiles(d)'
    BY <2>1, <2>4 DEF Life, LifeFiles
  <2>6. LifeTarget(d)'
    BY <2>1 DEF Life, LifeTarget
  <2>7. LifeCall(d)'
    BY <2>1 DEF Life, LifeCall, supVars
  <2> QED  BY <2>5, <2>6, <2>7 DEF Life
<1>18. ASSUME AwaitPermit(d) PROVE Life(d)'
  BY <1>18 DEF TypeOK, Life, LifeFiles, LifeTarget, LifeCall, AwaitPermit, Move, Leave,
     Windows, supVars
<1>19. ASSUME Refuse(d) PROVE Life(d)'
  BY <1>19 DEF TypeOK, Life, LifeFiles, LifeTarget, LifeCall, Refuse, Leave, Windows, supVars
<1>20. ASSUME StartTarget(d) PROVE Life(d)'
  BY <1>20 DEF TypeOK, Life, LifeFiles, LifeTarget, LifeCall, StartTarget, Move, Windows,
     supVars
<1>21. ASSUME ReapTarget(d) PROVE Life(d)'
  BY <1>21 DEF TypeOK, Life, LifeFiles, LifeTarget, LifeCall, ReapTarget, Leave, Windows,
     supVars
<1>22. ASSUME Quiesce(d) PROVE Life(d)'
  BY <1>22 DEF TypeOK, Life, LifeFiles, LifeTarget, LifeCall, Quiesce, Move, Leave, Windows,
     supVars
<1>23. ASSUME Publish(d) PROVE Life(d)'
  BY <1>23 DEF TypeOK, Life, LifeFiles, LifeTarget, LifeCall, TargetLive, Publish, Move,
     Leave, Write, Windows, supVars
<1>24. ASSUME Exit(d) PROVE Life(d)'
  BY <1>24 DEF TypeOK, Life, LifeFiles, LifeTarget, LifeCall, TargetLive, Exit, Move, Windows,
     supVars
<1>25. ASSUME TargetExits(d) PROVE Life(d)'
  BY <1>25 DEF TypeOK, Life, LifeFiles, LifeTarget, LifeCall, TargetExits, Windows, supVars
<1>26. ASSUME Fork(d) PROVE Life(d)'
  BY <1>26 DEF TypeOK, Life, LifeFiles, LifeTarget, LifeCall, Fork, Windows, supVars
<1>27. ASSUME KidsExit(d) PROVE Life(d)'
  BY <1>27 DEF TypeOK, Life, LifeFiles, LifeTarget, LifeCall, TargetLive, KidsExit, Windows,
     supVars
<1>28. ASSUME ProxyExits(d) PROVE Life(d)'
  BY <1>28 DEF TypeOK, Life, LifeFiles, LifeTarget, LifeCall, TargetLive, ProxyExits, Windows,
     supVars, linuxVars
<1>29. ASSUME PressCtrlC(d) PROVE Life(d)'
  BY <1>29 DEF TypeOK, Life, LifeFiles, LifeTarget, LifeCall, TargetLive, PressCtrlC,
     linuxVars
<1>30. ASSUME Tick(d) PROVE Life(d)'
  <2>1. local[d] \in Local
    BY DEF TypeOK
  <2>2. \/ local'[d] = [local[d] EXCEPT !.late = @ + 1]
        \/ local'[d] = [local[d] EXCEPT !.grace = TRUE]
    BY <1>30 DEF Tick, TypeOK
  <2>3. local'[d].id = local[d].id
    BY <2>1, <2>2 DEF Local
  <2>4. UNCHANGED <<mutex, pc, authorized, term, outcome, seen, files, linuxVars>>
    BY <1>30 DEF Tick
  <2> QED  BY <2>3, <2>4 DEF Life, LifeFiles, LifeTarget, LifeCall, TargetLive, linuxVars
<1> QED
  BY <1>1, <1>2, <1>3, <1>4, <1>5, <1>6, <1>7, <1>8, <1>9, <1>10, <1>11, <1>12, <1>13, <1>14,
     <1>15, <1>5a, <1>17, <1>18, <1>19, <1>20, <1>21, <1>22, <1>23, <1>24, <1>25, <1>26,
     <1>27, <1>28, <1>29, <1>30 DEF Dispatch, Launch, Environment

\* A restart of the distro, whether or not anything ran in it, ends what runs
\* and leaves what is over as it was.
LEMMA StopLife ==
  ASSUME NEW e \in Dispatchers, TypeOK, Life(e), StopDistro \/ UNCHANGED linuxVars,
         UNCHANGED <<mutex, seen, local, authorized, outcome, files>>,
         \/ pc'[e] = pc[e] /\ term'[e] = term[e]
         \/ /\ pc[e] = "terminate" /\ pc'[e] \in {"stopping", "reap"}
            /\ term'[e] \in {"none", "failed"}
  PROVE  Life(e)'
<1>1. \/ session'[e] = session[e] /\ target'[e] = target[e] /\ kids'[e] = kids[e]
      \/ /\ session'[e] = (IF InDistro(e) THEN "gone" ELSE session[e])
         /\ target'[e] = (IF target[e] = "alive" THEN "dead" ELSE target[e])
         /\ ~kids'[e]
  BY DEF StopDistro, Each, linuxVars, TypeOK
<1>2. LifeFiles(e)'
  BY <1>1 DEF Life, LifeFiles, TargetLive
<1>3. LifeTarget(e)'
  BY <1>1 DEF Life, LifeTarget
<1>4. LifeCall(e)'
  BY <1>1 DEF Life, LifeCall, TargetLive, InDistro, After, Holding, Resetting
<1> QED  BY <1>2, <1>3, <1>4 DEF Life

LEMMA LifeStep == TypeOK /\ LifeInv /\ [Next]_vars => LifeInv'
<1> SUFFICES ASSUME TypeOK, LifeInv, [Next]_vars, NEW e \in Dispatchers PROVE Life(e)'
  BY DEF LifeInv
<1>1. Life(e)
  BY DEF LifeInv
<1>2. ASSUME NEW d \in Dispatchers, Terminate(d) PROVE Life(e)'
  <2>1. UNCHANGED <<mutex, seen, local, authorized, outcome, files>>
    BY <1>2 DEF Terminate, Then
  <2>2. \/ pc'[e] = pc[e] /\ term'[e] = term[e]
        \/ /\ pc[e] = "terminate" /\ pc'[e] \in {"stopping", "reap"}
           /\ term'[e] \in {"none", "failed"}
    BY <1>2 DEF Terminate, Then, Goto, At, TypeOK
  <2>3. StopDistro \/ UNCHANGED linuxVars
    BY <1>2 DEF Terminate
  <2> QED  BY <1>1, <2>1, <2>2, <2>3, StopLife
<1>3. ASSUME NEW d \in Dispatchers, Dispatch(d) \/ Launch(d) \/ Environment(d) \/ Tick(d),
             ~Terminate(d)
      PROVE  Life(e)'
  BY <1>1, <1>3, LifeHere, Elsewhere, UntouchedLife
<1>4. CASE WriteMarker
  BY <1>1, <1>4, UntouchedLife DEF WriteMarker, Untouched, supVars, linuxVars
<1>5. CASE RestartDistro
  BY <1>1, <1>5, StopLife DEF RestartDistro, supVars
<1>6. CASE UNCHANGED vars
  BY <1>1, <1>6, UntouchedLife DEF vars, Untouched
<1> QED  BY <1>2, <1>3, <1>4, <1>5, <1>6 DEF Next

LEMMA LifeInit == Init => LifeInv
<1> SUFFICES ASSUME Init, NEW e \in Dispatchers PROVE Life(e)
  BY DEF LifeInv
<1>1. /\ pc[e] = "wait" /\ ~authorized[e] /\ term[e] = "none" /\ outcome[e] = "none"
      /\ session[e] = "none" /\ target[e] = "unborn" /\ ~kids[e]
  BY DEF Init, Each
<1>2. /\ ~files[e].permit /\ files[e].completion = NoCode /\ files[e].attested = NoId
      /\ local[e].id = NoId
  BY DEF Init, Each, NoFiles, Fresh
<1> QED  BY <1>1, <1>2 DEF Life, LifeFiles, LifeTarget, LifeCall, Holding, Supervising,
        Resetting

LEMMA LifeCorrect == Spec => [](TypeOK /\ LifeInv)
BY Wsl1TypeCorrect, LifeInit, LifeStep, PTL DEF Spec

(***************************************************************************)
(* A successful return means that nothing of the command is alive, then or  *)
(* later, however the calls, their sessions, the resets and the             *)
(* provisioning script interleave.                                          *)
(***************************************************************************)
THEOREM Quietness == Spec => []OkMeansQuiet
<1>1. TypeOK /\ LifeInv => OkMeansQuiet
  BY DEF OkMeansQuiet, LifeInv, Life, LifeFiles, LifeTarget, LifeCall, TargetLive, TypeOK
<1> QED  BY <1>1, LifeCorrect, PTL

(***************************************************************************)
(* A proof that the distro has stopped stays true of the command it was     *)
(* made for.                                                                *)
(***************************************************************************)
THEOREM StopsAreFinal == Spec => []StopIsFinal
<1>1. LifeInv => StopIsFinal
  BY DEF StopIsFinal, LifeInv, Life, LifeCall
<1> QED  BY <1>1, LifeCorrect, PTL

(***************************************************************************)
(* Commands overlap only after a crash or an error: one that has neither is *)
(* not live before it has the mutex, and keeps it while it is.              *)
(***************************************************************************)
THEOREM OneAtATime == Spec => []OneCommand
<1>1. ASSUME TypeOK, LifeInv, NEW c \in Dispatchers, TargetLive(c),
             ~(pc[c] = "crashed" \/ outcome[c] = "err")
      PROVE  mutex = c
  <2>1. Life(c) /\ authorized[c]
    BY <1>1 DEF LifeInv, Life, LifeFiles, LifeTarget, TargetLive, TypeOK
  <2>2. outcome[c] = "none"
    BY <1>1, <2>1 DEF Life, LifeCall, TypeOK
  <2>3. pc[c] \notin After \cup {"wait"}
    BY <1>1, <2>1, <2>2 DEF Life, LifeTarget, LifeCall, TargetLive, After, TypeOK
  <2>4. pc[c] \in Holding
    BY <1>1, <2>3 DEF TypeOK, After, Holding
  <2> QED  BY <2>1, <2>4 DEF Life, LifeCall
<1>2. TypeOK /\ LifeInv => OneCommand
  BY <1>1 DEF OneCommand
<1> QED  BY <1>2, LifeCorrect, PTL

(***************************************************************************)
(* A command whose cancellation was seen before its permit, or whose call   *)
(* has ended without one, gets no permit later and never starts.            *)
(***************************************************************************)
THEOREM NoLateStart == Spec => EarlyCancelNeverStarts
<1> DEFINE A == \A d \in Dispatchers :
         (seen[d] \/ Over(d)) /\ ~authorized[d] =>
           ~authorized'[d] /\ target'[d] = "unborn"
<1>1. ASSUME TypeOK, LifeInv, [Next]_vars PROVE A
  <2> SUFFICES ASSUME NEW d \in Dispatchers, seen[d] \/ Over(d), ~authorized[d]
               PROVE  ~authorized'[d] /\ target'[d] = "unborn"
    OBVIOUS
  <2>1. pc[d] # "authorize"
    BY <1>1 DEF LifeInv, Life, LifeCall, Over
  <2>2. ~authorized'[d]
    <3>1. ASSUME NEW e \in Dispatchers, e # d, Dispatch(e) \/ Launch(e) \/ Environment(e) \/ Tick(e)
          PROVE  ~authorized'[d]
      <4>1. CASE Terminate(e)
        BY <4>1 DEF Terminate, Then
      <4>2. CASE ~Terminate(e)
        BY <1>1, <3>1, <4>2, Elsewhere DEF Untouched
      <4> QED  BY <4>1, <4>2
    <3>2. ASSUME Dispatch(d) PROVE ~authorized'[d]
      BY <2>1, <3>2 DEF Dispatch, Acquire, StopWaiting, NotSpawned, Spawn, Poll, Authorize,
         TryWait, Judge, KillProxy, Revalidate, Terminate, AwaitStop, Reap, Expire, Release,
         DropGuard, Fail, Return, Loop, KeepResult, Reset, Cancel, JudgeUnauthorized,
         JudgeCompletion, JudgeRunning, Then, At
    <3>3. ASSUME Launch(d) \/ Environment(d) \/ Tick(d) PROVE ~authorized'[d]
      BY <3>3 DEF Launch, Environment, AwaitPermit, Refuse, StartTarget, ReapTarget, Quiesce,
         Publish, Exit, Attest, TargetExits, Fork, KidsExit, ProxyExits, PressCtrlC, Crash,
         Tick, Windows, supVars, KeepResult
    <3>4. ASSUME WriteMarker \/ RestartDistro \/ UNCHANGED vars PROVE ~authorized'[d]
      BY <3>4 DEF WriteMarker, RestartDistro, vars, supVars
    <3> QED  BY <1>1, <3>1, <3>2, <3>3, <3>4 DEF Next
  <2>3. LifeInv' /\ TypeOK'
    BY <1>1, LifeStep, TypeStep
  <2> QED  BY <2>2, <2>3 DEF LifeInv, Life, LifeFiles
<1>2. TypeOK /\ LifeInv /\ [Next]_vars => [A]_vars
  BY <1>1
<1> QED  BY <1>2, LifeCorrect, PTL DEF Spec, EarlyCancelNeverStarts

(***************************************************************************)
(* A reset happens under the mutex, so no other call has a session to lose. *)
(***************************************************************************)
THEOREM ResetsSpare == Spec => ResetSparesOthers
<1> DEFINE A == \A d, e \in Dispatchers :
         d # e /\ Terminate(d) /\ pc[e] \in Supervising \cup Resetting => session'[e] = session[e]
<1>1. LifeInv => A
  BY DEF LifeInv, Life, LifeCall, Terminate, At, Holding, Resetting
<1> QED  BY <1>1, LifeCorrect, PTL DEF Spec, ResetSparesOthers

----------------------------------------------------------------------------
(* Its statuses. *)

\* How the statuses of a command relate: the target's, the one its launcher
\* ends with, the completion, the proxy's and the call's.
StatLinux(e) ==
  /\ targetCode[e] # NoCode => target[e] = "dead"
  /\ session[e] = "running" /\ target[e] = "dead" => targetCode[e] # NoCode
  /\ session[e] \in {"quiesce", "publish", "exit"}
       => sessionCode[e] # NoCode /\ targetCode[e] \in {NoCode, sessionCode[e]}
  /\ sessionCode[e] = 0 => targetCode[e] = 0

StatCall(e) ==
  /\ files[e].completion # NoCode => targetCode[e] \in {NoCode, files[e].completion}
  /\ files[e].completion = 0 => targetCode[e] = 0
  /\ proxyCode[e] = 0 => targetCode[e] = 0
  /\ local[e].proxy = 0 => targetCode[e] = 0
  /\ local[e].why = "cancel" => seen[e] /\ pc[e] \in Resetting

\* StatusIsTargets of one command.
StatEnd(e) ==
  outcome[e] = "ok" =>
    /\ status[e] = 0 => targetCode[e] = 0
    /\ ~seen[e] /\ targetCode[e] # NoCode => status[e] = targetCode[e]

Stat(e) == StatLinux(e) /\ StatCall(e) /\ StatEnd(e)
StatInv == \A e \in Dispatchers : Stat(e)

LEMMA UntouchedStat ==
  ASSUME NEW e \in Dispatchers, Stat(e), Untouched(e)
  PROVE  Stat(e)'
BY DEF Stat, StatLinux, StatCall, StatEnd, Untouched

\* Within a call: what is left to show of a step that leaves the session alone.
LEMMA CallStat ==
  ASSUME NEW d \in Dispatchers, Stat(d), UNCHANGED linuxVars,
         files'[d].completion \in {NoCode, files[d].completion},
         proxyCode'[d] \in {NoCode, LaunchFailed, proxyCode[d]},
         local'[d].proxy \in {NoCode, proxyCode[d], local[d].proxy},
         local'[d].why = "cancel" => seen'[d] /\ pc'[d] \in Resetting,
         StatEnd(d)'
  PROVE  Stat(d)'
<1>1. StatLinux(d)'
  BY DEF Stat, StatLinux, linuxVars
<1>2. targetCode'[d] = targetCode[d] /\ StatCall(d)
  BY DEF Stat, linuxVars
<1>3. StatCall(d)'
  BY <1>2 DEF StatCall, NoCode, LaunchFailed
<1> QED  BY <1>1, <1>3 DEF Stat

\* Again the four ways on.
LEMMA ReturnStat ==
  ASSUME TypeOK, NEW d \in Dispatchers, Stat(d),
         NEW how \in {"ok", "err"}, NEW code, Return(d, how, code),
         how = "ok" => /\ code = 0 => targetCode[d] = 0
                       /\ ~seen[d] /\ targetCode[d] # NoCode => code = targetCode[d],
         UNCHANGED <<mutex, seen, files, linuxVars>>
  PROVE  Stat(d)'
<1>1. outcome'[d] = how /\ status'[d] = code /\ proxyCode'[d] = NoCode /\ local'[d] = Fresh
  BY DEF TypeOK, Return
<1>2. local'[d].proxy = NoCode /\ local'[d].why = "error"
  BY <1>1 DEF Fresh
<1>3. StatEnd(d)'
  BY <1>1 DEF StatEnd, linuxVars
<1> QED  BY <1>1, <1>2, <1>3, CallStat

LEMMA FailStat ==
  ASSUME TypeOK, NEW d \in Dispatchers, Stat(d), Fail(d),
         UNCHANGED <<mutex, seen, files, linuxVars>>
  PROVE  Stat(d)'
BY ReturnStat DEF Fail

LEMMA ResetStat ==
  ASSUME TypeOK, NEW d \in Dispatchers, Life(d), Stat(d), pc[d] \in Holding,
         NEW id, NEW why, Reset(d, id, why), why = "cancel" => seen'[d],
         UNCHANGED <<mutex, files, linuxVars>>
  PROVE  Stat(d)'
<1>1. local'[d] = [Fresh EXCEPT !.id = id, !.why = why, !.proxy = local[d].proxy]
  BY DEF TypeOK, Reset
<1>2. local'[d].why = why /\ local'[d].proxy = local[d].proxy
  BY <1>1 DEF Fresh
<1>3. pc'[d] = "kill" /\ outcome'[d] = outcome[d] /\ proxyCode'[d] = proxyCode[d]
  BY DEF TypeOK, Reset, Goto, KeepResult
<1>4. StatEnd(d)'
  BY <1>3, InCall DEF StatEnd
<1> QED  BY <1>2, <1>3, <1>4, CallStat DEF Resetting

LEMMA LoopStat ==
  ASSUME TypeOK, NEW d \in Dispatchers, Life(d), Stat(d), pc[d] \in Holding,
         NEW there, Loop(d, there), pc[d] \in Resetting => there \in Resetting /\ seen'[d] = seen[d],
         UNCHANGED <<mutex, files, linuxVars>>
  PROVE  Stat(d)'
<1>1. pc'[d] = there /\ outcome'[d] = outcome[d] /\ proxyCode'[d] = proxyCode[d] /\ local'[d] = local[d]
  BY DEF TypeOK, Loop, Goto, KeepResult
<1>2. StatEnd(d)'
  BY <1>1, InCall DEF StatEnd
<1>3. local'[d].why = "cancel" => seen'[d] /\ pc'[d] \in Resetting
  BY <1>1 DEF Stat, StatCall
<1> QED  BY <1>1, <1>2, <1>3, CallStat

\* A step of a dispatcher, of its session or of its processes keeps its own
\* statuses in order.
LEMMA StatHere ==
  ASSUME TypeOK, NEW d \in Dispatchers, Life(d), Stat(d),
         Dispatch(d) \/ Launch(d) \/ Environment(d) \/ Tick(d), ~Terminate(d)
  PROVE  Stat(d)'
<1>1. ASSUME Acquire(d) PROVE Stat(d)'
  <2>1. /\ pc[d] = "wait"
        /\ UNCHANGED <<seen, files, local, outcome, status, proxyCode, linuxVars>>
    BY <1>1 DEF Acquire, Loop, KeepResult, At, TypeOK
  <2>2. StatEnd(d)'
    BY <2>1 DEF Stat, StatEnd, linuxVars
  <2>3. local'[d].why # "cancel"
    BY <2>1 DEF Stat, StatCall, Resetting
  <2> QED  BY <2>1, <2>2, <2>3, CallStat
<1>2. ASSUME StopWaiting(d) PROVE Stat(d)'
  BY <1>2, FailStat DEF StopWaiting
<1>3. ASSUME NotSpawned(d) PROVE Stat(d)'
  BY <1>3, FailStat DEF NotSpawned
<1>4. ASSUME Spawn(d) PROVE Stat(d)'
  BY <1>4 DEF TypeOK, Stat, StatLinux, StatCall, StatEnd, Resetting, Spawn, At, Loop,
     KeepResult
<1>5. ASSUME Poll(d) PROVE Stat(d)'
  <2>1. pc[d] \in Holding /\ pc[d] \notin Resetting
    BY <1>5 DEF Poll, At, Holding, Supervising, Resetting
  <2>2. UNCHANGED <<mutex, files, linuxVars>> /\ seen'[d] = local[d].ctrlC
    BY <1>5 DEF Poll, TypeOK
  <2>3. ASSUME NEW id, NEW why, Reset(d, id, why), local[d].ctrlC PROVE Stat(d)'
    BY <2>1, <2>2, <2>3, ResetStat
  <2>4. ASSUME NEW there, Loop(d, there) PROVE Stat(d)'
    BY <2>1, <2>2, <2>4, LoopStat
  <2> QED  BY <1>5, <2>3, <2>4 DEF Poll, Cancel
<1>6. ASSUME Authorize(d) PROVE Stat(d)'
  <2>1. pc[d] \in Holding /\ pc[d] \notin Resetting
    BY <1>6 DEF Authorize, At, Holding, Supervising, Resetting
  <2>2. UNCHANGED <<mutex, seen, linuxVars>>
    BY <1>6 DEF Authorize, hostVars
  <2>3. ASSUME NEW id, Reset(d, id, "error"), UNCHANGED files PROVE Stat(d)'
    BY <2>1, <2>2, <2>3, ResetStat
  <2>4. ASSUME Loop(d, "status"), UNCHANGED files PROVE Stat(d)'
    BY <2>1, <2>2, <2>4, LoopStat
  <2>5. ASSUME local' = [local EXCEPT ![d].id = files[d].attested],
               files' = [files EXCEPT ![d].permit = TRUE],
               UNCHANGED <<outcome, status, proxyCode>>
        PROVE  Stat(d)'
    <3>1. files'[d] = [files[d] EXCEPT !.permit = TRUE] /\ files[d] \in Files
      BY <2>5 DEF TypeOK
    <3>2. local'[d] = [local[d] EXCEPT !.id = files[d].attested] /\ local[d] \in Local
      BY <2>5 DEF TypeOK
    <3>3. files'[d].completion = files[d].completion
      BY <3>1 DEF Files
    <3>4. local'[d].proxy = local[d].proxy /\ local'[d].why = local[d].why
      BY <3>2 DEF Local
    <3>5. StatEnd(d)'
      BY <2>2, <2>5 DEF Stat, StatEnd, linuxVars
    <3>6. local[d].why # "cancel"
      BY <2>1 DEF Stat, StatCall
    <3> QED  BY <2>2, <2>5, <3>3, <3>4, <3>5, <3>6, CallStat
  <2> QED  BY <1>6, <2>3, <2>4, <2>5 DEF Authorize
<1>7. ASSUME TryWait(d) PROVE Stat(d)'
  <2>1. pc[d] \in Holding /\ pc[d] \notin Resetting
    BY <1>7 DEF TryWait, At, Holding, Supervising, Resetting
  <2>2. UNCHANGED <<mutex, seen, files, linuxVars>>
    BY <1>7 DEF TryWait, hostVars
  <2>3. ASSUME Reset(d, local[d].id, "error") PROVE Stat(d)'
    BY <2>1, <2>2, <2>3, ResetStat
  <2>4. ASSUME NEW code \in {local[d].proxy, proxyCode[d]},
               local' = [local EXCEPT ![d].proxy = code], KeepResult, UNCHANGED proxyCode
        PROVE  Stat(d)'
    <3>1. local'[d] = [local[d] EXCEPT !.proxy = code] /\ local[d] \in Local
      BY <2>4 DEF TypeOK
    <3>2. local'[d].proxy = code /\ local'[d].why = local[d].why
      BY <3>1 DEF Local
    <3>3. StatEnd(d)'
      BY <2>2, <2>4 DEF Stat, StatEnd, KeepResult, linuxVars
    <3>4. local[d].why # "cancel"
      BY <2>1 DEF Stat, StatCall
    <3> QED  BY <2>2, <2>4, <3>2, <3>3, <3>4, CallStat
  <2> QED  BY <1>7, <2>3, <2>4 DEF TryWait
<1>8. ASSUME Judge(d) PROVE Stat(d)'
  <2>1. pc[d] \in Holding /\ pc[d] \notin Resetting
    BY <1>8 DEF Judge, At, Holding, Supervising, Resetting
  <2>2. UNCHANGED <<mutex, seen, files, linuxVars>>
    BY <1>8 DEF Judge, hostVars
  <2>3. ASSUME NEW id, Reset(d, id, "error") PROVE Stat(d)'
    BY <2>1, <2>2, <2>3, ResetStat
  <2>4. ASSUME Loop(d, "poll") PROVE Stat(d)'
    BY <2>1, <2>2, <2>4, LoopStat
  <2>5. ASSUME JudgeUnauthorized(d) PROVE Stat(d)'
    <3>1. targetCode[d] = NoCode
      BY <2>5 DEF JudgeUnauthorized, Life, LifeFiles, Stat, StatLinux
    <3> QED  BY <2>2, <2>5, <3>1, ReturnStat, FailStat DEF JudgeUnauthorized
  <2>6. ASSUME JudgeCompletion(d) PROVE Stat(d)'
    <3>1. ASSUME files[d].completion = local[d].proxy, Return(d, "ok", files[d].completion)
          PROVE  Stat(d)'
      <4>1. /\ files[d].completion = 0 => targetCode[d] = 0
            /\ targetCode[d] # NoCode => files[d].completion = targetCode[d]
        BY <2>6, <3>1 DEF JudgeCompletion, Stat, StatCall
      <4> QED  BY <2>2, <3>1, <4>1, ReturnStat
    <3> QED  BY <2>3, <2>4, <2>6, <3>1 DEF JudgeCompletion
  <2>7. ASSUME JudgeRunning(d) PROVE Stat(d)'
    BY <2>3, <2>4, <2>7 DEF JudgeRunning
  <2> QED  BY <1>8, <2>5, <2>6, <2>7 DEF Judge
<1>9. ASSUME KillProxy(d) PROVE Stat(d)'
  <2>1. /\ pc[d] \in Resetting /\ pc'[d] \in Resetting /\ proxyCode'[d] \in {LaunchFailed, proxyCode[d]}
        /\ UNCHANGED <<seen, local, outcome, status, files, linuxVars>>
    BY <1>9 DEF KillProxy, Then, Goto, At, Resetting, TypeOK
  <2>2. StatEnd(d)'
    BY <2>1 DEF Stat, StatEnd, linuxVars
  <2>3. local'[d].why = "cancel" => seen'[d] /\ pc'[d] \in Resetting
    BY <2>1 DEF Stat, StatCall
  <2> QED  BY <2>1, <2>2, <2>3, CallStat
<1>10. ASSUME Revalidate(d) PROVE Stat(d)'
  <2>1. /\ pc[d] \in Resetting /\ pc'[d] \in Resetting /\ proxyCode'[d] = proxyCode[d]
        /\ UNCHANGED <<seen, local, outcome, status, files, linuxVars>>
    BY <1>10 DEF Revalidate, Then, Goto, At, Resetting, TypeOK
  <2>2. StatEnd(d)'
    BY <2>1 DEF Stat, StatEnd, linuxVars
  <2>3. local'[d].why = "cancel" => seen'[d] /\ pc'[d] \in Resetting
    BY <2>1 DEF Stat, StatCall
  <2> QED  BY <2>1, <2>2, <2>3, CallStat
<1>11. ASSUME AwaitStop(d) PROVE Stat(d)'
  <2>1. /\ pc[d] \in Resetting /\ pc'[d] \in Resetting /\ proxyCode'[d] = proxyCode[d]
        /\ UNCHANGED <<seen, local, outcome, status, files, linuxVars>>
    BY <1>11 DEF AwaitStop, Then, Goto, At, Resetting, TypeOK
  <2>2. StatEnd(d)'
    BY <2>1 DEF Stat, StatEnd, linuxVars
  <2>3. local'[d].why = "cancel" => seen'[d] /\ pc'[d] \in Resetting
    BY <2>1 DEF Stat, StatCall
  <2> QED  BY <2>1, <2>2, <2>3, CallStat
<1>12. ASSUME Reap(d) PROVE Stat(d)'
  <2>1. pc[d] \in Holding /\ pc[d] \in Resetting
    BY <1>12 DEF Reap, At, Holding, Resetting
  <2>2. UNCHANGED <<mutex, seen, files, linuxVars>>
    BY <1>12 DEF Reap, hostVars
  <2>3. ASSUME local[d].why = "cancel", Return(d, "ok", proxyCode[d]) PROVE Stat(d)'
    <3>1. seen[d] /\ (proxyCode[d] = 0 => targetCode[d] = 0)
      BY <2>3 DEF Stat, StatCall
    <3> QED  BY <2>2, <2>3, <3>1, ReturnStat
  <2>4. ASSUME Loop(d, "expire") PROVE Stat(d)'
    BY <2>1, <2>2, <2>4, LoopStat DEF Resetting
  <2> QED  BY <1>12, <2>2, <2>3, <2>4, FailStat DEF Reap
<1>13. ASSUME Expire(d) PROVE Stat(d)'
  BY <1>13, FailStat DEF Expire
<1>14. ASSUME Release(d) PROVE Stat(d)'
  <2>1. /\ pc[d] = "release"
        /\ UNCHANGED <<seen, files, local, outcome, status, proxyCode, linuxVars>>
    BY <1>14 DEF Release, Loop, KeepResult, At, TypeOK
  <2>2. StatEnd(d)'
    BY <2>1 DEF Stat, StatEnd, linuxVars
  <2>3. local'[d].why # "cancel"
    BY <2>1 DEF Stat, StatCall, Resetting
  <2> QED  BY <2>1, <2>2, <2>3, CallStat
<1>15. ASSUME DropGuard(d) PROVE Stat(d)'
  <2>1. /\ pc[d] = "drop" /\ files'[d] = NoFiles
        /\ UNCHANGED <<seen, local, outcome, status, proxyCode, linuxVars>>
    BY <1>15 DEF DropGuard, Loop, KeepResult, At, TypeOK
  <2>2. StatEnd(d)'
    BY <2>1 DEF Stat, StatEnd, linuxVars
  <2>3. local'[d].why # "cancel"
    BY <2>1 DEF Stat, StatCall, Resetting
  <2>4. files'[d].completion = NoCode
    BY <2>1 DEF NoFiles
  <2> QED  BY <2>1, <2>2, <2>3, <2>4, CallStat
<1>5a. ASSUME Crash(d) PROVE Stat(d)'
  <2>1. /\ files'[d] = [NoFiles EXCEPT !.permit = files[d].permit]
        /\ local'[d] = Fresh /\ proxyCode'[d] = NoCode
        /\ UNCHANGED <<seen, outcome, status, linuxVars>>
    BY <1>5a DEF Crash, KeepResult, TypeOK
  <2>2. StatEnd(d)'
    BY <2>1 DEF Stat, StatEnd, linuxVars
  <2>3. /\ files'[d].completion = NoCode
        /\ local'[d].proxy = NoCode /\ local'[d].why = "error"
    BY <2>1 DEF NoFiles, Fresh
  <2> QED  BY <2>1, <2>2, <2>3, CallStat
<1>17. ASSUME Attest(d) PROVE Stat(d)'
  <2>1. /\ session[d] = "boot" /\ session'[d] \in {"permit", "gone"}
        /\ sessionCode'[d] \in {sessionCode[d], LaunchFailed}
        /\ UNCHANGED <<supVars, target, targetCode, proxyCode>>
    BY <1>17 DEF Attest, Move, Leave, Windows, TypeOK
  <2>2. \/ files'[d] = files[d]
        \/ files'[d] = [files[d] EXCEPT !.attested = marker]
    BY <1>17 DEF Attest, Write, TypeOK
  <2>3. files'[d].completion = files[d].completion
    BY <2>2 DEF TypeOK, Files
  <2>4. StatLinux(d)'
    BY <2>1 DEF Stat, StatLinux, LaunchFailed
  <2>5. StatCall(d)' /\ StatEnd(d)'
    BY <2>1, <2>3 DEF Stat, StatCall, StatEnd, supVars
  <2> QED  BY <2>4, <2>5 DEF Stat
<1>18. ASSUME AwaitPermit(d) PROVE Stat(d)'
  BY <1>18 DEF TypeOK, Stat, StatLinux, StatCall, StatEnd, LaunchFailed, AwaitPermit, Move,
     Leave, Windows, supVars
<1>19. ASSUME Refuse(d) PROVE Stat(d)'
  BY <1>19 DEF TypeOK, Stat, StatLinux, StatCall, StatEnd, Life, LifeTarget, NoCode,
     LaunchFailed, Refuse, Leave, Windows, supVars
<1>20. ASSUME StartTarget(d) PROVE Stat(d)'
  BY <1>20 DEF TypeOK, Stat, StatLinux, StatCall, StatEnd, Life, LifeTarget, StartTarget,
     Move, Windows, supVars
<1>21. ASSUME ReapTarget(d) PROVE Stat(d)'
  BY <1>21 DEF TypeOK, Stat, StatLinux, StatCall, StatEnd, ReapTarget, Leave, Windows, supVars
<1>22. ASSUME Quiesce(d) PROVE Stat(d)'
  BY <1>22 DEF TypeOK, Stat, StatLinux, StatCall, StatEnd, LaunchFailed, Unclean, Quiesce,
     Move, Leave, Windows, supVars
<1>23. ASSUME Publish(d) PROVE Stat(d)'
  <2>1. /\ session[d] = "publish" /\ session'[d] \in {"exit", "gone"}
        /\ \/ session'[d] = "exit" /\ sessionCode'[d] = sessionCode[d]
           \/ session'[d] = "gone" /\ sessionCode'[d] = Unclean
        /\ UNCHANGED <<supVars, target, targetCode, proxyCode>>
    BY <1>23 DEF Publish, Move, Leave, Windows, TypeOK
  <2>2. \/ files'[d] = files[d]
        \/ files'[d] = [files[d] EXCEPT !.completion = sessionCode[d]]
    BY <1>23 DEF Publish, Write, TypeOK
  <2>3. files'[d].completion \in {files[d].completion, sessionCode[d]}
    BY <2>2 DEF TypeOK, Files
  <2>4. StatLinux(d)'
    BY <2>1 DEF Stat, StatLinux, Unclean
  <2>5. StatCall(d)'
    BY <2>1, <2>3 DEF Stat, StatLinux, StatCall, supVars
  <2>6. StatEnd(d)'
    BY <2>1 DEF Stat, StatEnd, supVars
  <2> QED  BY <2>4, <2>5, <2>6 DEF Stat
<1>24. ASSUME Exit(d) PROVE Stat(d)'
  BY <1>24 DEF TypeOK, Stat, StatLinux, StatCall, StatEnd, Exit, Move, Windows, supVars
<1>25. ASSUME TargetExits(d) PROVE Stat(d)'
  <2>1. /\ target[d] = "alive" /\ target'[d] = "dead" /\ targetCode'[d] \in TargetCodes
        /\ UNCHANGED <<supVars, files, session, sessionCode, proxyCode>>
    BY <1>25 DEF TargetExits, Windows, TypeOK
  <2>2. targetCode[d] = NoCode /\ session[d] = "running" /\ TargetLive(d)
    BY <2>1 DEF Stat, StatLinux, Life, LifeTarget, TargetLive
  <2>3. targetCode'[d] # NoCode
    BY <2>1, CodesAssumption DEF NoCode
  <2>4. StatLinux(d)'
    BY <2>1, <2>2, <2>3 DEF Stat, StatLinux, NoCode
  <2>5. files[d].completion = NoCode
    BY <2>2 DEF Life, LifeFiles
  <2>6. StatCall(d)'
    BY <2>1, <2>2, <2>5 DEF Stat, StatCall, supVars, NoCode
  <2>7. outcome[d] # "ok"
    BY <2>1, <2>2 DEF Life, LifeFiles, LifeCall
  <2> QED  BY <2>1, <2>4, <2>6, <2>7 DEF Stat, StatEnd, supVars
<1>26. ASSUME Fork(d) PROVE Stat(d)'
  BY <1>26 DEF TypeOK, Stat, StatLinux, StatCall, StatEnd, Fork, Windows, supVars
<1>27. ASSUME KidsExit(d) PROVE Stat(d)'
  BY <1>27 DEF TypeOK, Stat, StatLinux, StatCall, StatEnd, KidsExit, Windows, supVars
<1>28. ASSUME ProxyExits(d) PROVE Stat(d)'
  BY <1>28 DEF TypeOK, Stat, StatLinux, StatCall, StatEnd, LaunchFailed, ProxyExits, Windows,
     supVars, linuxVars
<1>29. ASSUME PressCtrlC(d) PROVE Stat(d)'
  <2>1. /\ local'[d] = [local[d] EXCEPT !.ctrlC = TRUE]
        /\ local[d] \in Local
        /\ UNCHANGED <<pc, seen, files, outcome, status, proxyCode, linuxVars>>
    BY <1>29 DEF PressCtrlC, TypeOK
  <2>2. local'[d].proxy = local[d].proxy /\ local'[d].why = local[d].why
    BY <2>1 DEF Local
  <2>3. StatEnd(d)'
    BY <2>1 DEF Stat, StatEnd, linuxVars
  <2>4. local'[d].why = "cancel" => seen'[d] /\ pc'[d] \in Resetting
    BY <2>1, <2>2 DEF Stat, StatCall
  <2> QED  BY <2>1, <2>2, <2>3, <2>4, CallStat
<1>30. ASSUME Tick(d) PROVE Stat(d)'
  <2>1. /\ local'[d] \in {[local[d] EXCEPT !.late = @ + 1], [local[d] EXCEPT !.grace = TRUE]}
        /\ local[d] \in Local
        /\ UNCHANGED <<pc, seen, files, outcome, status, proxyCode, linuxVars>>
    BY <1>30 DEF Tick, TypeOK
  <2>2. local'[d].proxy = local[d].proxy /\ local'[d].why = local[d].why
    BY <2>1 DEF Local
  <2>3. StatEnd(d)'
    BY <2>1 DEF Stat, StatEnd, linuxVars
  <2>4. local'[d].why = "cancel" => seen'[d] /\ pc'[d] \in Resetting
    BY <2>1, <2>2 DEF Stat, StatCall
  <2> QED  BY <2>1, <2>2, <2>3, <2>4, CallStat
<1> QED
  BY <1>1, <1>2, <1>3, <1>4, <1>5, <1>6, <1>7, <1>8, <1>9, <1>10, <1>11, <1>12, <1>13, <1>14,
     <1>15, <1>5a, <1>17, <1>18, <1>19, <1>20, <1>21, <1>22, <1>23, <1>24, <1>25, <1>26,
     <1>27, <1>28, <1>29, <1>30 DEF Dispatch, Launch, Environment

\* A restart of the distro makes no status up but its own.
LEMMA StopStat ==
  ASSUME NEW e \in Dispatchers, TypeOK, Life(e), Stat(e), StopDistro \/ UNCHANGED linuxVars,
         UNCHANGED <<seen, local, outcome, status, files, proxyCode>>,
         pc'[e] = pc[e] \/ (pc[e] = "terminate" /\ pc'[e] \in {"stopping", "reap"})
  PROVE  Stat(e)'
<1>1. /\ targetCode'[e] = targetCode[e]
      /\ \/ session'[e] = session[e] /\ sessionCode'[e] = sessionCode[e] /\ target'[e] = target[e]
         \/ /\ session'[e] = (IF InDistro(e) THEN "gone" ELSE session[e])
            /\ sessionCode'[e] = (IF InDistro(e) THEN LaunchFailed ELSE sessionCode[e])
            /\ target'[e] = (IF target[e] = "alive" THEN "dead" ELSE target[e])
  <2>1. CASE StopDistro
    BY <2>1 DEF StopDistro
  <2>2. CASE UNCHANGED linuxVars
    BY <2>2 DEF linuxVars
  <2> QED  BY <2>1, <2>2
<1>2. StatLinux(e)'
  BY <1>1 DEF Stat, StatLinux, InDistro, LaunchFailed
<1>3. StatCall(e)' /\ StatEnd(e)'
  BY <1>1 DEF Stat, StatCall, StatEnd, Resetting
<1> QED  BY <1>2, <1>3 DEF Stat

LEMMA StatStep == TypeOK /\ LifeInv /\ StatInv /\ [Next]_vars => StatInv'
<1> SUFFICES ASSUME TypeOK, LifeInv, StatInv, [Next]_vars, NEW e \in Dispatchers PROVE Stat(e)'
  BY DEF StatInv
<1>1. Life(e) /\ Stat(e)
  BY DEF LifeInv, StatInv
<1>2. ASSUME NEW d \in Dispatchers, Terminate(d) PROVE Stat(e)'
  <2>1. UNCHANGED <<seen, local, outcome, status, files, proxyCode>>
    BY <1>2 DEF Terminate, Then
  <2>2. pc'[e] = pc[e] \/ (pc[e] = "terminate" /\ pc'[e] \in {"stopping", "reap"})
    BY <1>2 DEF Terminate, Then, Goto, At, TypeOK
  <2>3. StopDistro \/ UNCHANGED linuxVars
    BY <1>2 DEF Terminate
  <2> QED  BY <1>1, <2>1, <2>2, <2>3, StopStat
<1>3. ASSUME NEW d \in Dispatchers, Dispatch(d) \/ Launch(d) \/ Environment(d) \/ Tick(d),
             ~Terminate(d)
      PROVE  Stat(e)'
  BY <1>1, <1>3, StatHere, Elsewhere, UntouchedStat
<1>4. CASE WriteMarker
  BY <1>1, <1>4, UntouchedStat DEF WriteMarker, Untouched, supVars, linuxVars
<1>5. CASE RestartDistro
  BY <1>1, <1>5, StopStat DEF RestartDistro, supVars
<1>6. CASE UNCHANGED vars
  BY <1>1, <1>6, UntouchedStat DEF vars, Untouched
<1> QED  BY <1>2, <1>3, <1>4, <1>5, <1>6 DEF Next

LEMMA StatInit == Init => StatInv
<1> SUFFICES ASSUME Init, NEW e \in Dispatchers PROVE Stat(e)
  BY DEF StatInv
<1>1. /\ targetCode[e] = NoCode /\ sessionCode[e] = NoCode /\ proxyCode[e] = NoCode
      /\ outcome[e] = "none" /\ session[e] = "none"
  BY DEF Init, Each
<1>2. files[e].completion = NoCode /\ local[e].proxy = NoCode /\ local[e].why = "error"
  BY DEF Init, Each, NoFiles, Fresh
<1> QED  BY <1>1, <1>2 DEF Stat, StatLinux, StatCall, StatEnd

LEMMA StatCorrect == Spec => [](TypeOK /\ LifeInv /\ StatInv)
BY LifeCorrect, StatInit, StatStep, PTL DEF Spec

(***************************************************************************)
(* A call never reports a success that is not the target's, and one that    *)
(* was not cancelled reports the target's status if there is one.           *)
(***************************************************************************)
THEOREM StatusesAreTargets == Spec => []StatusIsTargets
<1>1. StatInv => StatusIsTargets
  BY DEF StatInv, Stat, StatEnd, StatusIsTargets
<1> QED  BY <1>1, StatCorrect, PTL

----------------------------------------------------------------------------
(* Its run. *)

\* What the caller of e can see stays as it is.
Unseen(e) ==
  UNCHANGED <<Call(e), status[e], authorized[e], seen[e], target[e], targetCode[e], kids[e]>>

LEMMA UnseenIsStutter ==
  ASSUME NEW e \in Dispatchers, Unseen(e)
  PROVE  UNCHANGED Run(e)!vars
BY DEF Unseen, Run!vars

LEMMA UntouchedRun ==
  ASSUME NEW e \in Dispatchers, Untouched(e)
  PROVE  Unseen(e)
BY DEF Untouched, Unseen, Call

\* A Ctrl+C that was seen is not forgotten while the call may still look at it.
SeenInv ==
  \A d \in Dispatchers :
    pc[d] \in {"wait", "spawn"} \cup Supervising /\ seen[d] => local[d].ctrlC

LEMMA SeenStep == TypeOK /\ SeenInv /\ [Next]_vars => SeenInv'
<1> DEFINE S(e) == pc[e] \in {"wait", "spawn"} \cup Supervising /\ seen[e] => local[e].ctrlC
<1> SUFFICES ASSUME TypeOK, SeenInv, [Next]_vars, NEW e \in Dispatchers PROVE S(e)'
  BY DEF SeenInv
<1>1. S(e)
  BY DEF SeenInv
<1>2. ASSUME Untouched(e) PROVE S(e)'
  BY <1>1, <1>2 DEF Untouched
<1>3. ASSUME NEW d \in Dispatchers, Terminate(d) PROVE S(e)'
  <2>1. UNCHANGED <<seen, local>> /\ (pc'[e] = pc[e] \/ pc'[e] \in Resetting)
    BY <1>3 DEF Terminate, Then, Goto, TypeOK, Resetting
  <2> QED  BY <1>1, <2>1 DEF Resetting, Supervising
<1>4. ASSUME Dispatch(e) \/ Launch(e) \/ Environment(e) \/ Tick(e), ~Terminate(e)
      PROVE  S(e)'
  <2>1. local \in [Dispatchers -> Local] /\ pc \in [Dispatchers -> Lines]
    BY TypeParts DEF SupOK
  <2>2. ASSUME NEW there, Loop(e, there), UNCHANGED seen,
               pc[e] \in {"wait", "spawn"} \cup Supervising
                 \/ there \notin {"wait", "spawn"} \cup Supervising
        PROVE  S(e)'
    BY <1>1, <2>1, <2>2 DEF Loop, Goto
  <2>3. ASSUME NEW id, NEW why, Reset(e, id, why) PROVE S(e)'
    BY <2>1, <2>3 DEF Reset, Goto, Supervising
  <2>4. ASSUME NEW how, NEW code, Return(e, how, code) PROVE S(e)'
    BY <2>1, <2>4 DEF Return, Goto, Supervising
  <2>5. ASSUME UNCHANGED <<pc, local, seen>> PROVE S(e)'
    BY <1>1, <2>5
  <2>6. CASE Poll(e)
    <3>1. seen'[e] = local[e].ctrlC
      BY <2>6 DEF Poll, TypeOK
    <3>2. CASE UNCHANGED local
      BY <3>1, <3>2
    <3>3. CASE \E id, why : Reset(e, id, why)
      BY <2>3, <3>3
    <3> QED  BY <2>6, <3>2, <3>3 DEF Poll, Cancel, Loop
  <2>7. CASE Authorize(e)
    <3>1. UNCHANGED seen /\ pc[e] \in Supervising
      BY <2>7 DEF Authorize, At, Supervising
    <3>2. CASE \E there : Loop(e, there)
      BY <2>2, <3>1, <3>2
    <3>3. CASE \E id, why : Reset(e, id, why)
      BY <2>3, <3>3
    <3>4. CASE local' = [local EXCEPT ![e].id = files[e].attested]
      <4>1. local'[e].ctrlC = local[e].ctrlC
        BY <2>1, <3>4 DEF Local
      <4> QED  BY <1>1, <3>1, <4>1
    <3> QED  BY <2>7, <3>2, <3>3, <3>4 DEF Authorize
  <2>8. CASE TryWait(e)
    <3>1. UNCHANGED seen /\ pc[e] \in Supervising
      BY <2>8 DEF TryWait, At, Supervising
    <3>3. CASE \E id, why : Reset(e, id, why)
      BY <2>3, <3>3
    <3>4. CASE local' = [local EXCEPT ![e].proxy = IF @ = NoCode THEN proxyCode[e] ELSE @]
      <4>1. local'[e].ctrlC = local[e].ctrlC
        BY <2>1, <3>4 DEF Local
      <4> QED  BY <1>1, <3>1, <4>1
    <3> QED  BY <2>8, <3>3, <3>4 DEF TryWait
  <2>9. CASE Judge(e)
    <3>1. UNCHANGED seen /\ pc[e] \in Supervising
      BY <2>9 DEF Judge, At, Supervising
    <3>2. \/ \E there : Loop(e, there)
          \/ \E id, why : Reset(e, id, why)
          \/ \E how, code : Return(e, how, code)
      BY <2>9 DEF Judge, JudgeUnauthorized, JudgeCompletion, JudgeRunning, Fail
    <3> QED  BY <2>2, <2>3, <2>4, <3>1, <3>2
  <2>10. CASE Acquire(e) \/ Spawn(e)
    <3>1. UNCHANGED seen /\ pc[e] \in {"wait", "spawn"} /\ \E there : Loop(e, there)
      BY <2>10 DEF Acquire, Spawn, At
    <3> QED  BY <2>2, <3>1
  <2>11. CASE StopWaiting(e) \/ NotSpawned(e) \/ Expire(e)
    BY <2>4, <2>11 DEF StopWaiting, NotSpawned, Expire, Fail
  <2>12. CASE KillProxy(e) \/ Revalidate(e) \/ AwaitStop(e)
    <3>1. UNCHANGED <<local, seen>> /\ pc'[e] \in Resetting
      BY <2>1, <2>12 DEF KillProxy, Revalidate, AwaitStop, Then, Goto, Resetting
    <3> QED  BY <3>1 DEF Resetting, Supervising
  <2>13. CASE Reap(e)
    <3>1. UNCHANGED seen
      BY <2>13 DEF Reap
    <3>2. Loop(e, "expire") \/ \E how, code : Return(e, how, code)
      BY <2>13 DEF Reap, Fail
    <3> QED  BY <2>2, <2>4, <3>1, <3>2 DEF Supervising
  <2>14. CASE Release(e) \/ DropGuard(e)
    <3>1. UNCHANGED seen /\ (Loop(e, "drop") \/ Loop(e, "done"))
      BY <2>14 DEF Release, DropGuard
    <3> QED  BY <2>2, <3>1 DEF Supervising
  <2>15. CASE Launch(e) \/ Attest(e) \/ TargetExits(e) \/ Fork(e) \/ KidsExit(e) \/ ProxyExits(e)
    BY <2>5, <2>15 DEF Launch, AwaitPermit, Refuse, StartTarget, ReapTarget, Quiesce, Publish,
       Exit, Attest, TargetExits, Fork, KidsExit, ProxyExits, Windows, supVars
  <2>16. CASE PressCtrlC(e)
    <3>1. local'[e].ctrlC
      BY <2>1, <2>16 DEF PressCtrlC, Local
    <3> QED  BY <3>1
  <2>17. CASE Crash(e)
    <3>1. pc'[e] = "crashed"
      BY <2>1, <2>17 DEF Crash, Goto
    <3> QED  BY <3>1 DEF Supervising
  <2>18. CASE Tick(e)
    <3>1. UNCHANGED <<pc, seen>>
      BY <2>18 DEF Tick
    <3>2. local'[e].ctrlC = local[e].ctrlC
      BY <2>1, <2>18 DEF Tick, Local
    <3> QED  BY <1>1, <3>1, <3>2
  <2> QED
    BY <1>4, <2>6, <2>7, <2>8, <2>9, <2>10, <2>11, <2>12, <2>13, <2>14, <2>15, <2>16, <2>17,
       <2>18 DEF Dispatch, Environment
<1>5. CASE WriteMarker \/ RestartDistro \/ UNCHANGED vars
  BY <1>1, <1>5 DEF WriteMarker, RestartDistro, supVars, vars
<1>6. ASSUME NEW d \in Dispatchers, Dispatch(d) \/ Launch(d) \/ Environment(d) \/ Tick(d)
      PROVE  S(e)'
  BY <1>2, <1>3, <1>4, <1>6, Elsewhere
<1> QED  BY <1>5, <1>6 DEF Next

LEMMA SeenInit == Init => SeenInv
BY DEF Init, SeenInv, Each

\* The abstract steps a step of its own may be, from the caller's side.

LEMMA OpenRun ==
  ASSUME TypeOK, NEW d \in Dispatchers, Life(d), pc[d] \notin After
  PROVE  outcome[d] = "none" /\ Call(d) = "open"
BY DEF Life, LifeCall, After, Call

LEMMA ReturnRun ==
  ASSUME TypeOK, NEW d \in Dispatchers, Life(d), pc[d] \notin After,
         NEW how \in {"ok", "err"}, NEW code, Return(d, how, code),
         how = "err" => code = NoCode,
         UNCHANGED <<seen, linuxVars>>, OkMeansQuiet', StatEnd(d)'
  PROVE  Run(d)!Return \/ Run(d)!Fail
<1>1. outcome'[d] = how /\ status'[d] = code /\ UNCHANGED authorized
  BY DEF TypeOK, Return
<1>2. Call(d) = "open" /\ Call(d)' = how
  BY <1>1, OpenRun DEF Call
<1>3. UNCHANGED <<target, targetCode, kids>>
  BY DEF linuxVars
<1>4. CASE how = "ok"
  <2>1. ~TargetLive(d)
    BY <1>1, <1>3, <1>4 DEF OkMeansQuiet, TargetLive
  <2>2. /\ status'[d] = 0 => targetCode[d] = 0
        /\ ~seen[d] /\ targetCode[d] # NoCode => status'[d] = targetCode[d]
    BY <1>1, <1>3, <1>4 DEF StatEnd
  <2> QED
    BY <1>1, <1>2, <1>3, <1>4, <2>1, <2>2
    DEF Run!Return, Run!Live, Run!Honest, Run!Command, Run!NoCode, TargetLive, NoCode
<1>5. CASE how = "err"
  BY <1>1, <1>2, <1>3, <1>5 DEF Run!Fail, Run!Command, Run!NoCode, NoCode
<1> QED  BY <1>4, <1>5

\* Another line of the call, and what it does to its flags.
LEMMA StayRun ==
  ASSUME TypeOK, NEW d \in Dispatchers, Life(d), pc[d] \notin After, pc'[d] \notin After,
         outcome'[d] = outcome[d], status'[d] = status[d], authorized'[d] = authorized[d],
         seen'[d] \in {seen[d], TRUE}, UNCHANGED linuxVars
  PROVE  Run(d)!Cancel \/ Unseen(d)
<1>1. Call(d) = "open" /\ Call(d)' = "open"
  BY OpenRun DEF Call, After
<1>2. UNCHANGED <<target, targetCode, kids>>
  BY DEF linuxVars
<1> QED  BY <1>1, <1>2 DEF Run!Cancel, Run!Command, Unseen

\* A step of the dispatcher.
LEMMA DispatchRun ==
  ASSUME TypeOK, SeenInv, NEW d \in Dispatchers, Life(d), Dispatch(d), ~Terminate(d),
         OkMeansQuiet', StatEnd(d)'
  PROVE  Run(d)!Next \/ Unseen(d)
<1> DEFINE Kept == /\ outcome'[d] = outcome[d] /\ status'[d] = status[d]
                   /\ authorized'[d] = authorized[d] /\ UNCHANGED linuxVars
           Open == pc[d] \notin After
<1>0. pc \in [Dispatchers -> Lines]
  BY TypeParts DEF SupOK
<1>1. ASSUME Open, Kept, pc'[d] \notin After, seen'[d] = seen[d]
      PROVE  Run(d)!Next \/ Unseen(d)
  BY <1>1, StayRun DEF Run!Next
<1>2. ASSUME Open, NEW how \in {"ok", "err"}, NEW code, Return(d, how, code),
             how = "err" => code = NoCode, UNCHANGED <<seen, linuxVars>>
      PROVE  Run(d)!Next \/ Unseen(d)
  BY <1>2, ReturnRun DEF Run!Next
<1>3. ASSUME Open, NEW there, Loop(d, there), there \notin After,
             UNCHANGED <<seen, linuxVars>>
      PROVE  Run(d)!Next \/ Unseen(d)
  <2>1. Kept /\ pc'[d] = there
    BY <1>0, <1>3 DEF Loop, KeepResult, Goto
  <2> QED  BY <1>1, <1>3, <2>1
<1>4. ASSUME Open, NEW id, NEW why, Reset(d, id, why), UNCHANGED <<seen, linuxVars>>
      PROVE  Run(d)!Next \/ Unseen(d)
  <2>1. Kept /\ pc'[d] = "kill"
    BY <1>0, <1>4 DEF Reset, KeepResult, Goto
  <2> QED  BY <1>1, <1>4, <2>1 DEF After
<1>5. CASE Acquire(d)
  BY <1>3, <1>5 DEF Acquire, At, After
<1>6. CASE StopWaiting(d) \/ NotSpawned(d) \/ Expire(d)
  <2>1. Open /\ Return(d, "err", NoCode) /\ UNCHANGED <<seen, linuxVars>>
    BY <1>6 DEF StopWaiting, NotSpawned, Expire, Fail, At, After
  <2> QED  BY <1>2, <2>1
<1>7. CASE Spawn(d)
  <2>1. Open /\ pc'[d] = "poll" /\ UNCHANGED <<seen, authorized, outcome, status, target, targetCode, kids>>
    BY <1>0, <1>7 DEF Spawn, Loop, KeepResult, Goto, At, After
  <2>2. Call(d)' = Call(d)
    BY <2>1, OpenRun DEF Call
  <2> QED  BY <2>1, <2>2 DEF Unseen
<1>8. CASE Poll(d)
  <2>1. Open /\ seen'[d] = local[d].ctrlC /\ UNCHANGED linuxVars
    BY <1>8 DEF Poll, At, After, TypeOK
  <2>2. seen'[d] \in {seen[d], TRUE}
    <3>1. local[d] \in Local /\ seen[d] \in BOOLEAN
      BY DEF TypeOK
    <3>2. local[d].ctrlC \in BOOLEAN
      BY <3>1 DEF Local
    <3>3. seen[d] => local[d].ctrlC
      BY <1>8 DEF Poll, At, SeenInv, Supervising
    <3> QED  BY <2>1, <3>1, <3>2, <3>3
  <2>3. \/ Loop(d, "authorize") \/ Loop(d, "status")
        \/ \E id, why : Reset(d, id, why)
    BY <1>8 DEF Poll, Cancel
  <2>4. Kept /\ pc'[d] \in {"authorize", "status", "kill"}
    BY <1>0, <2>1, <2>3 DEF Loop, Reset, KeepResult, Goto
  <2>5. pc'[d] \notin After
    BY <2>4 DEF After
  <2> QED  BY <2>1, <2>2, <2>4, <2>5, StayRun DEF Run!Next
<1>9. CASE Authorize(d)
  <2>1. Open /\ UNCHANGED <<seen, linuxVars>>
    BY <1>9 DEF Authorize, At, After
  <2>2. CASE Loop(d, "status")
    BY <1>3, <2>1, <2>2 DEF After
  <2>3. CASE \E id : Reset(d, id, "error")
    BY <1>4, <2>1, <2>3
  <2>4. CASE /\ authorized' = [authorized EXCEPT ![d] = TRUE]
             /\ UNCHANGED <<outcome, status>> /\ Goto(d, "status")
    <3>1. authorized'[d] = TRUE /\ pc'[d] = "status" /\ ~seen[d]
      BY <1>0, <1>9, <2>4 DEF Authorize, At, Life, LifeCall, Goto, TypeOK
    <3>2. Call(d) = "open" /\ Call(d)' = "open"
      BY <2>1, <2>4, <3>1, OpenRun DEF Call
    <3>3. Run(d)!Permit
      BY <2>1, <2>4, <3>1, <3>2 DEF Run!Permit, Run!Command, linuxVars
    <3> QED  BY <3>3 DEF Run!Next
  <2> QED  BY <1>9, <2>2, <2>3, <2>4 DEF Authorize
<1>10. CASE TryWait(d)
  <2>1. Open /\ UNCHANGED <<seen, linuxVars>>
    BY <1>10 DEF TryWait, At, After
  <2>2. CASE \E id : Reset(d, id, "error")
    BY <1>4, <2>1, <2>2
  <2>3. CASE Goto(d, "judge") /\ KeepResult
    <3>1. Kept /\ pc'[d] = "judge"
      BY <1>0, <2>1, <2>3 DEF Goto, KeepResult
    <3> QED  BY <1>1, <2>1, <3>1 DEF After
  <2> QED  BY <1>10, <2>2, <2>3 DEF TryWait
<1>11. CASE Judge(d)
  <2>1. Open /\ UNCHANGED <<seen, linuxVars>>
    BY <1>11 DEF Judge, At, After
  <2>2. \/ Loop(d, "poll")
        \/ \E id : Reset(d, id, "error")
        \/ \E code : Return(d, "ok", code)
        \/ Return(d, "err", NoCode)
    BY <1>11 DEF Judge, JudgeUnauthorized, JudgeCompletion, JudgeRunning, Fail
  <2> QED  BY <1>2, <1>3, <1>4, <2>1, <2>2 DEF After
<1>12. CASE KillProxy(d) \/ Revalidate(d) \/ AwaitStop(d)
  <2>1. /\ Open /\ Kept /\ seen'[d] = seen[d]
        /\ pc'[d] \in {"reap", "revalidate", "terminate"}
    BY <1>0, <1>12 DEF KillProxy, Revalidate, AwaitStop, Then, Goto, At, After
  <2> QED  BY <1>1, <2>1 DEF After
<1>13. CASE Reap(d)
  <2>1. Open /\ UNCHANGED <<seen, linuxVars>>
    BY <1>13 DEF Reap, At, After
  <2>2. \/ Return(d, "ok", proxyCode[d]) \/ Return(d, "err", NoCode) \/ Loop(d, "expire")
    BY <1>13 DEF Reap, Fail
  <2> QED  BY <1>2, <1>3, <2>1, <2>2 DEF After
<1>14. CASE Release(d) \/ DropGuard(d)
  <2>1. outcome[d] # "none"
    BY <1>14 DEF Release, DropGuard, At, Life, LifeCall
  <2>2. Kept /\ seen'[d] = seen[d]
    BY <1>14 DEF Release, DropGuard, Loop, KeepResult
  <2> QED  BY <2>1, <2>2 DEF Unseen, Call, linuxVars
<1> QED
  BY <1>5, <1>6, <1>7, <1>8, <1>9, <1>10, <1>11, <1>12, <1>13, <1>14 DEF Dispatch

\* A step of its launcher, its processes, its user or its clocks, or its death.
LEMMA OwnRun ==
  ASSUME TypeOK, NEW d \in Dispatchers, Life(d), Launch(d) \/ Environment(d) \/ Tick(d)
  PROVE  Run(d)!Next \/ Unseen(d)
<1>1. CASE Crash(d)
  <2>1. pc'[d] = "crashed" /\ UNCHANGED <<authorized, outcome, status, seen, linuxVars>>
    BY <1>1 DEF Crash, Goto, KeepResult, TypeOK
  <2>2. CASE outcome[d] = "none"
    <3>1. Call(d) = "open" /\ Call(d)' = "lost"
      BY <1>1, <2>1, <2>2 DEF Crash, Over, Call
    <3>2. Run(d)!Lose
      BY <2>1, <3>1 DEF Run!Lose, Run!Command, linuxVars
    <3> QED  BY <3>2 DEF Run!Next
  <2>3. CASE outcome[d] # "none"
    BY <2>1, <2>3 DEF Unseen, Call, linuxVars
  <2> QED  BY <2>2, <2>3
<1>2. CASE PressCtrlC(d) \/ Tick(d) \/ ProxyExits(d)
  BY <1>2 DEF PressCtrlC, Tick, ProxyExits, Windows, supVars, linuxVars, Unseen, Call
<1>3. CASE Launch(d) \/ Attest(d) \/ TargetExits(d) \/ Fork(d) \/ KidsExit(d)
  <2>1. UNCHANGED <<pc, authorized, outcome, status, seen>>
    BY <1>3 DEF Launch, AwaitPermit, Refuse, StartTarget, ReapTarget, Quiesce, Publish, Exit,
       Attest, TargetExits, Fork, KidsExit, Windows, supVars
  <2>2. Run(d)!Call
    BY <2>1 DEF Run!Call, Call
  <2>3. ASSUME UNCHANGED <<target, targetCode, kids>> PROVE Unseen(d)
    BY <2>1, <2>3 DEF Unseen, Call
  <2>4. CASE StartTarget(d)
    <3>1. authorized[d] /\ target[d] = "unborn" /\ outcome[d] # "ok"
      BY <2>4 DEF StartTarget, Life, LifeFiles, LifeTarget, LifeCall
    <3>2. Call(d) # "ok"
      BY <3>1 DEF Call
    <3>3. target'[d] = "alive" /\ UNCHANGED <<targetCode, kids>>
      BY <2>4 DEF StartTarget, TypeOK
    <3>4. Run(d)!Start
      BY <2>2, <3>1, <3>2, <3>3 DEF Run!Start
    <3> QED  BY <3>4 DEF Run!Next
  <2>5. CASE Quiesce(d)
    <3>1. UNCHANGED <<target, targetCode>> /\ (kids'[d] = FALSE \/ UNCHANGED kids)
      BY <2>5 DEF Quiesce, TypeOK
    <3>2. kids'[d] = FALSE => Run(d)!KidsEnd
      BY <2>2, <3>1 DEF Run!KidsEnd
    <3> QED  BY <2>3, <3>1, <3>2 DEF Run!Next
  <2>6. CASE TargetExits(d)
    <3>1. /\ target[d] = "alive" /\ target'[d] = "dead" /\ targetCode'[d] \in TargetCodes
          /\ UNCHANGED kids
      BY <2>6 DEF TargetExits, TypeOK
    <3>2. Run(d)!End
      BY <2>2, <3>1 DEF Run!End
    <3> QED  BY <3>2 DEF Run!Next
  <2>7. CASE Fork(d)
    <3>1. target[d] = "alive" /\ kids'[d] = TRUE /\ UNCHANGED <<target, targetCode>>
      BY <2>7 DEF Fork, TypeOK
    <3>2. Run(d)!Fork
      BY <2>2, <3>1 DEF Run!Fork
    <3> QED  BY <3>2 DEF Run!Next
  <2>8. CASE KidsExit(d)
    <3>1. kids'[d] = FALSE /\ UNCHANGED <<target, targetCode>>
      BY <2>8 DEF KidsExit, TypeOK
    <3>2. Run(d)!KidsEnd
      BY <2>2, <3>1 DEF Run!KidsEnd
    <3> QED  BY <3>2 DEF Run!Next
  <2>9. CASE ~StartTarget(d) /\ ~Quiesce(d) /\ ~TargetExits(d) /\ ~Fork(d) /\ ~KidsExit(d)
    <3>1. UNCHANGED <<target, targetCode, kids>>
      BY <1>3, <2>9 DEF Launch, AwaitPermit, Refuse, ReapTarget, Publish, Exit, Attest
    <3> QED  BY <2>3, <3>1
  <2> QED  BY <2>4, <2>5, <2>6, <2>7, <2>8, <2>9
<1> QED  BY <1>1, <1>2, <1>3 DEF Environment

\* A restart of the distro ends what is there of the command, whoever asked.
LEMMA StopRun ==
  ASSUME TypeOK, NEW e \in Dispatchers, Life(e), Stat(e), StopDistro \/ UNCHANGED linuxVars,
         UNCHANGED <<authorized, outcome, status, seen>>,
         pc'[e] = "crashed" <=> pc[e] = "crashed"
  PROVE  Run(e)!Next \/ Unseen(e)
<1>1. Call(e)' = Call(e)
  BY DEF Call
<1>2. Run(e)!Call
  BY <1>1 DEF Run!Call
<1>3. CASE UNCHANGED linuxVars
  BY <1>1, <1>3 DEF linuxVars, Unseen
<1>4. CASE StopDistro
  <2>1. /\ target'[e] = IF target[e] = "alive" THEN "dead" ELSE target[e]
        /\ kids'[e] = FALSE /\ UNCHANGED targetCode
    BY <1>4 DEF StopDistro, Each
  <2>2. CASE target[e] = "alive"
    <3>1. targetCode[e] = NoCode
      BY <2>2 DEF Stat, StatLinux
    <3>2. Run(e)!End
      BY <1>2, <2>1, <2>2, <3>1 DEF Run!End, Run!NoCode, NoCode
    <3> QED  BY <3>2 DEF Run!Next
  <2>3. CASE target[e] # "alive"
    BY <1>2, <2>1, <2>3 DEF Run!KidsEnd, Run!Next
  <2> QED  BY <2>2, <2>3
<1> QED  BY <1>3, <1>4

(***************************************************************************)
(* Every call is one supervised run of its own, for any number of           *)
(* dispatchers, crashes, resets and provisionings.                          *)
(***************************************************************************)
THEOREM CallsAreRuns == Spec => RunsSpec
<1> DEFINE Inv == TypeOK /\ LifeInv /\ StatInv /\ SeenInv
           Steps == \A d \in Dispatchers : [Run(d)!Next]_(Run(d)!vars)
<1>1. Init => \A d \in Dispatchers : Run(d)!Init
  BY DEF Init, Each, Run!Init, Run!NoCode, NoCode, Call
<1>2. Inv /\ Inv' /\ [Next]_vars => Steps
  <2> SUFFICES ASSUME Inv, Inv', [Next]_vars, NEW e \in Dispatchers
               PROVE  [Run(e)!Next]_(Run(e)!vars)
    OBVIOUS
  <2>1. Life(e) /\ Stat(e) /\ StatEnd(e)' /\ OkMeansQuiet'
    BY DEF LifeInv, StatInv, Stat, OkMeansQuiet, Life, LifeFiles, LifeTarget, LifeCall,
       TargetLive, TypeOK
  <2>2. ASSUME NEW d \in Dispatchers, Terminate(d) PROVE Run(e)!Next \/ Unseen(e)
    <3>1. UNCHANGED <<authorized, outcome, status, seen>>
      BY <2>2 DEF Terminate, Then
    <3>2. pc'[e] = "crashed" <=> pc[e] = "crashed"
      BY <2>2 DEF Terminate, Then, Goto, At, TypeOK
    <3>3. StopDistro \/ UNCHANGED linuxVars
      BY <2>2 DEF Terminate
    <3> QED  BY <2>1, <3>1, <3>2, <3>3, StopRun
  <2>3. ASSUME NEW d \in Dispatchers, d # e, ~Terminate(d),
               Dispatch(d) \/ Launch(d) \/ Environment(d) \/ Tick(d)
        PROVE  Unseen(e)
    BY <2>3, Elsewhere, UntouchedRun
  <2>4. ASSUME ~Terminate(e), Dispatch(e) \/ Launch(e) \/ Environment(e) \/ Tick(e)
        PROVE  Run(e)!Next \/ Unseen(e)
    BY <2>1, <2>4, DispatchRun, OwnRun
  <2>5. ASSUME WriteMarker \/ UNCHANGED vars PROVE Unseen(e)
    BY <2>5 DEF WriteMarker, supVars, linuxVars, vars, Unseen, Call
  <2>6. ASSUME RestartDistro PROVE Run(e)!Next \/ Unseen(e)
    <3>1. /\ UNCHANGED <<authorized, outcome, status, seen, pc>>
          /\ StopDistro \/ UNCHANGED linuxVars
      BY <2>6 DEF RestartDistro, supVars
    <3> QED  BY <2>1, <3>1, StopRun
  <2>7. Run(e)!Next \/ Unseen(e)
    BY <2>2, <2>3, <2>4, <2>5, <2>6 DEF Next
  <2> QED  BY <2>7, UnseenIsStutter
<1>3. Spec => []Inv
  BY StatCorrect, SeenInit, SeenStep, PTL DEF Spec
<1> QED  BY <1>1, <1>2, <1>3, PTL DEF Spec, RunsSpec

=============================================================================
