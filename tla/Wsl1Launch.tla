----------------------------- MODULE Wsl1Launch -----------------------------
(***************************************************************************)
(* Supervised WSL1 launches (src/wsl/supervisor.rs, src/wsl/lifecycle.rs,   *)
(* scripts/wsl1_launch.sh).  WSL1 has no signals to send: a dispatcher that *)
(* wants its command stopped terminates the whole dedicated distro.  The    *)
(* dispatchers therefore take turns under a named Windows mutex, which the  *)
(* system hands on when its holder dies; and scripts/provision-wsl1.ps1 may *)
(* give the distro a new identity and restart it at any time.               *)
(***************************************************************************)
EXTENDS Integers

CONSTANTS
    Dispatchers,     \* each has one command to run
    Nobody,          \* no holder of the mutex
    TargetCodes,     \* exit codes a target may end with
    MaxProvisions    \* bound of the model: runs of the provisioning script

NoCode       == -1              \* "no status yet"
LaunchFailed == 1               \* a refusal (126), a killed proxy or session
Unclean      == 125             \* launcher could not quiesce or publish
NoId         == -1              \* no installation ID

ASSUME DispatchersAssumption == Nobody \notin Dispatchers
ASSUME CodesAssumption == TargetCodes \subseteq 0..255
ASSUME ProvisionsAssumption == MaxProvisions \in Nat

Codes == TargetCodes \cup {LaunchFailed, Unclean}
Ids == 0..MaxProvisions

VARIABLES
    mutex,          \* Local\xuva-wsl1-global-lock
    marker,         \* the installation ID in /etc/xuva-dedicated-wsl1
    provisioning,   \* provision-wsl1.ps1 has yet to restart the distro
    \* the dispatchers: run_wsl_route and wait_for_wsl1_child
    pc,             \* where each stands
    local,          \* the locals and clocks of its loop
    authorized,     \* it has published the permit
    term,           \* what became of a termination of the distro
    outcome, status,
    seen,           \* history: it has seen its Ctrl+C
    files,          \* the exchange files
    \* the sessions inside the distro, and their Windows proxies
    session, sessionCode, target, targetCode, kids, proxyCode

supVars   == <<pc, local, authorized, term, outcome, status, seen>>
hostVars  == <<marker, provisioning>>
linuxVars == <<session, sessionCode, target, targetCode, kids>>
vars == <<mutex, marker, provisioning, pc, local, authorized, term, outcome, status,
          seen, files, session, sessionCode, target, targetCode, kids, proxyCode>>

\* id: accepted_installation_id; proxy: proxy_status; why: the caller of
\* stop_cancelled_wsl1_child returns its result, or an error of its own; late:
\* 10 s and 60 s since the launch; grace: 500 ms since the proxy's exit.
Local == [id : Ids \cup {NoId}, proxy : Codes \cup {NoCode}, why : {"cancel", "error"},
          late : 0..2, grace : BOOLEAN, ctrlC : BOOLEAN]
Fresh == [id |-> NoId, proxy |-> NoCode, why |-> "error",
          late |-> 0, grace |-> FALSE, ctrlC |-> FALSE]

Files == [attested : Ids \cup {NoId}, permit : BOOLEAN, completion : Codes \cup {NoCode}]
NoFiles == [attested |-> NoId, permit |-> FALSE, completion |-> NoCode]

Supervising == {"poll", "authorize", "status", "judge"}
Resetting   == {"kill", "revalidate", "terminate", "stopping", "reap", "expire"}
Over(d)       == pc[d] \in {"done", "crashed"}
TargetLive(d) == target[d] = "alive" \/ kids[d]
InDistro(d)   == session[d] \notin {"none", "boot", "gone"}
Running       == \E d \in Dispatchers : InDistro(d) \/ TargetLive(d)

(***************************************************************************)
(* Types of the dispatchers' locals, the exchange files and the sessions.   *)
(***************************************************************************)
TypeOK ==
    /\ mutex \in Dispatchers \cup {Nobody}
    /\ marker \in Ids /\ provisioning \in BOOLEAN
    /\ pc \in [Dispatchers -> {"wait", "spawn", "release", "drop", "done", "crashed"}
                              \cup Supervising \cup Resetting]
    /\ local \in [Dispatchers -> Local]
    /\ authorized \in [Dispatchers -> BOOLEAN]
    /\ term \in [Dispatchers -> {"none", "ok", "failed"}]
    /\ outcome \in [Dispatchers -> {"none", "ok", "err"}]
    /\ status \in [Dispatchers -> Codes \cup {NoCode}]
    /\ seen \in [Dispatchers -> BOOLEAN]
    /\ files \in [Dispatchers -> Files]
    /\ session \in [Dispatchers -> {"none", "boot", "permit", "start", "running",
                                    "quiesce", "publish", "exit", "gone"}]
    /\ sessionCode \in [Dispatchers -> Codes \cup {NoCode}]
    /\ target \in [Dispatchers -> {"unborn", "alive", "dead"}]
    /\ targetCode \in [Dispatchers -> TargetCodes \cup {NoCode}]
    /\ kids \in [Dispatchers -> BOOLEAN]
    /\ proxyCode \in [Dispatchers -> Codes \cup {NoCode}]

Each(x) == [d \in Dispatchers |-> x]

Init ==
    /\ mutex = Nobody
    /\ marker = 0 /\ provisioning = FALSE
    /\ pc = Each("wait") /\ local = Each(Fresh) /\ files = Each(NoFiles)
    /\ authorized = Each(FALSE) /\ term = Each("none") /\ seen = Each(FALSE)
    /\ outcome = Each("none") /\ status = Each(NoCode)
    /\ session = Each("none") /\ sessionCode = Each(NoCode) /\ proxyCode = Each(NoCode)
    /\ target = Each("unborn") /\ targetCode = Each(NoCode) /\ kids = Each(FALSE)

----------------------------------------------------------------------------
(* The dispatcher. *)

At(d, here) == pc[d] = here
Goto(d, there) == pc' = [pc EXCEPT ![d] = there]

\* The call has its result; the locals of its loop end, the proxy's handle is
\* closed.
Return(d, how, code) ==
    /\ Goto(d, "release")
    /\ outcome' = [outcome EXCEPT ![d] = how]
    /\ status' = [status EXCEPT ![d] = code]
    /\ local' = [local EXCEPT ![d] = Fresh]
    /\ proxyCode' = [proxyCode EXCEPT ![d] = NoCode]
    /\ UNCHANGED <<authorized, term>>

Fail(d) == Return(d, "err", NoCode)

KeepResult == UNCHANGED <<authorized, term, outcome, status>>

Loop(d, there) == Goto(d, there) /\ KeepResult /\ UNCHANGED <<local, proxyCode>>

\* stop_cancelled_wsl1_child is called with the identity, if one was accepted;
\* its caller returns its result, or the error that made it call.
Reset(d, id, why) ==
    /\ Goto(d, "kill")
    /\ local' = [local EXCEPT ![d] =
                   [Fresh EXCEPT !.id = id, !.why = why, !.proxy = local[d].proxy]]
    /\ KeepResult /\ UNCHANGED proxyCode

\* Mutant: the mutex is opened but never waited for.
Acquire_Shared(d) ==
    /\ At(d, "wait")
    /\ mutex' = d
    /\ Loop(d, "spawn")
    /\ UNCHANGED <<seen, files, linuxVars, hostVars>>

\* windows_lock::acquire: a holder that died leaves the mutex abandoned, which
\* is as good as free.
Acquire(d) ==
    /\ At(d, "wait") /\ mutex = Nobody
    /\ mutex' = d
    /\ Loop(d, "spawn")
    /\ UNCHANGED <<seen, files, linuxVars, hostVars>>

\* Ctrl+C, or lock_wait has run out.
StopWaiting(d) ==
    /\ At(d, "wait")
    /\ Fail(d)
    /\ UNCHANGED <<mutex, seen, files, linuxVars, hostVars>>

\* The distro is not WSL1, the console flag is set, wsl.exe does not start.
NotSpawned(d) ==
    /\ At(d, "spawn")
    /\ Fail(d)
    /\ UNCHANGED <<mutex, seen, files, linuxVars, hostVars>>

Spawn(d) ==
    /\ At(d, "spawn") /\ ~local[d].ctrlC
    /\ Loop(d, "poll")
    /\ session' = [session EXCEPT ![d] = "boot"]
    /\ UNCHANGED <<mutex, seen, files, hostVars, sessionCode, target, targetCode, kids>>

\* What the top of the loop does about a Ctrl+C.  One that no attestation has
\* preceded waits ten seconds for it, with no permit published.
Cancel(d) ==
    LET id == local[d].id
        file == files[d].attested
    IN  \/ id # NoId /\ Reset(d, id, "cancel")
        \/ id = NoId /\ file # NoId /\ Reset(d, file, "cancel")
        \/ id = NoId /\ file # NoId /\ Reset(d, NoId, "error")      \* unreadable
        \/ id = NoId /\ file = NoId /\ local[d].late > 0 /\ Reset(d, NoId, "error")
        \/ id = NoId /\ file = NoId /\ local[d].late = 0 /\ Loop(d, "status")

Poll(d) ==
    /\ At(d, "poll")
    /\ seen' = [seen EXCEPT ![d] = local[d].ctrlC]
    /\ IF local[d].ctrlC THEN Cancel(d) ELSE Loop(d, "authorize")
    /\ UNCHANGED <<mutex, files, linuxVars, hostVars>>

\* The identity the launcher attests is accepted and the permit renamed into
\* place, unless the one cannot be read or the other not be written.
Authorize(d) ==
    /\ At(d, "authorize")
    /\ \/ /\ authorized[d] \/ files[d].attested = NoId
          /\ Loop(d, "status")
          /\ UNCHANGED files
       \/ /\ ~authorized[d] /\ files[d].attested # NoId
          /\ local' = [local EXCEPT ![d].id = files[d].attested]
          /\ authorized' = [authorized EXCEPT ![d] = TRUE]
          /\ files' = [files EXCEPT ![d].permit = TRUE]
          /\ Goto(d, "status")
          /\ UNCHANGED <<term, outcome, status, proxyCode>>
       \/ /\ ~authorized[d] /\ files[d].attested # NoId
          /\ \E id \in {files[d].attested, NoId} : Reset(d, id, "error")
          /\ UNCHANGED files
    /\ UNCHANGED <<mutex, seen, linuxVars, hostVars>>

\* try_wait, unless the proxy's exit is known already.
TryWait(d) ==
    /\ At(d, "status")
    /\ \/ /\ local' = [local EXCEPT ![d].proxy = IF @ = NoCode THEN proxyCode[d] ELSE @]
          /\ Goto(d, "judge")
          /\ KeepResult /\ UNCHANGED proxyCode
       \/ /\ local[d].proxy = NoCode
          /\ Reset(d, local[d].id, "error")
    /\ UNCHANGED <<mutex, seen, files, linuxVars, hostVars>>

\* The proxy is gone without a permit: what it reports is not the target's.
JudgeUnauthorized(d) ==
    /\ local[d].proxy # NoCode /\ ~authorized[d]
    /\ IF local[d].proxy = 0 THEN Fail(d) ELSE Return(d, "ok", local[d].proxy)

\* Mutant: no end to the grace period.
JudgeCompletion_Patient(d) ==
    /\ local[d].proxy # NoCode /\ authorized[d]
    /\ LET done == files[d].completion
       IN  \/ done = local[d].proxy /\ Return(d, "ok", done)
           \/ done # NoCode /\ Reset(d, local[d].id, "error")
           \/ done = NoCode /\ Loop(d, "poll")

\* verify_proxy_completion_status; a contradiction, an unreadable completion
\* or none in time is a reset.
JudgeCompletion(d) ==
    /\ local[d].proxy # NoCode /\ authorized[d]
    /\ LET done == files[d].completion
       IN  \/ done = local[d].proxy /\ Return(d, "ok", done)
           \/ /\ done # NoCode \/ local[d].grace
              /\ Reset(d, local[d].id, "error")
           \/ done = NoCode /\ ~local[d].grace /\ Loop(d, "poll")

JudgeRunning(d) ==
    /\ local[d].proxy = NoCode
    /\ IF ~authorized[d] /\ local[d].late = 2
       THEN Reset(d, local[d].id, "error")
       ELSE Loop(d, "poll")

Judge(d) ==
    /\ At(d, "judge")
    /\ JudgeUnauthorized(d) \/ JudgeCompletion(d) \/ JudgeRunning(d)
    /\ UNCHANGED <<mutex, seen, files, linuxVars, hostVars>>

----------------------------------------------------------------------------
(* stop_cancelled_wsl1_child and terminate_dedicated_wsl1_distro. *)

Then(d, there, how) ==
    /\ Goto(d, there)
    /\ term' = [term EXCEPT ![d] = how]
    /\ UNCHANGED <<mutex, seen, local, authorized, outcome, status, files, hostVars>>

\* Mutant: the mutex is given up before the reset.
KillProxy_Unlocks(d) ==
    /\ At(d, "kill")
    /\ Goto(d, IF local[d].id = NoId THEN "reap" ELSE "revalidate")
    /\ mutex' = Nobody
    /\ UNCHANGED <<seen, local, authorized, term, outcome, status, files, hostVars,
                   linuxVars, proxyCode>>

\* child.kill() may fail, and nobody asks.
KillProxy(d) ==
    /\ At(d, "kill")
    /\ Then(d, IF local[d].id = NoId THEN "reap" ELSE "revalidate", "none")
    /\ \/ proxyCode' = [proxyCode EXCEPT ![d] = IF @ = NoCode THEN LaunchFailed ELSE @]
       \/ UNCHANGED proxyCode
    /\ UNCHANGED linuxVars

\* The marker is read by a probe of its own, for three seconds.
Revalidate(d) ==
    /\ At(d, "revalidate")
    /\ \/ marker = local[d].id /\ Then(d, "terminate", "none")
       \/ Then(d, "reap", "failed")
    /\ UNCHANGED <<linuxVars, proxyCode>>

\* wsl --terminate ends every process of the distro.  A session that wsl.exe
\* has asked for may still be created afterwards.
StopDistro ==
    /\ session' = [e \in Dispatchers |-> IF InDistro(e) THEN "gone" ELSE session[e]]
    /\ sessionCode' = [e \in Dispatchers |-> IF InDistro(e) THEN LaunchFailed ELSE sessionCode[e]]
    /\ target' = [e \in Dispatchers |-> IF target[e] = "alive" THEN "dead" ELSE target[e]]
    /\ kids' = Each(FALSE)
    /\ UNCHANGED targetCode

\* The command may act and be reported as failed, or the other way round.
Terminate(d) ==
    /\ At(d, "terminate")
    /\ Then(d, "stopping", "none") \/ Then(d, "reap", "failed")
    /\ StopDistro \/ UNCHANGED linuxVars
    /\ UNCHANGED proxyCode

\* Mutant: a terminate command that succeeded is believed.
AwaitStop_Assumed(d) ==
    /\ At(d, "stopping")
    /\ Then(d, "reap", "ok")
    /\ UNCHANGED <<linuxVars, proxyCode>>

\* Mutant: the wait for the distro to stop has no end.
AwaitStop_Patient(d) ==
    /\ At(d, "stopping")
    /\ ~Running /\ Then(d, "reap", "ok")
    /\ UNCHANGED <<linuxVars, proxyCode>>

\* wait_for_wsl_distro_to_stop
AwaitStop(d) ==
    /\ At(d, "stopping")
    /\ \/ ~Running /\ Then(d, "reap", "ok")
       \/ Then(d, "reap", "failed")
    /\ UNCHANGED <<linuxVars, proxyCode>>

\* The killed proxy has three seconds to exit; an error of try_wait returns at
\* once, whatever the termination did.
Reap(d) ==
    /\ At(d, "reap")
    /\ \/ /\ term[d] = "ok" /\ local[d].why = "cancel" /\ proxyCode[d] # NoCode
          /\ Return(d, "ok", proxyCode[d])
       \/ Fail(d)
       \/ term[d] # "ok" /\ Loop(d, "expire")
    /\ UNCHANGED <<mutex, seen, files, linuxVars, hostVars>>

\* Without a successful termination the distro gets twelve seconds to stop by
\* itself; the call fails either way, and says so if it did not.
Expire(d) ==
    /\ At(d, "expire")
    /\ Fail(d)
    /\ UNCHANGED <<mutex, seen, files, linuxVars, hostVars>>

----------------------------------------------------------------------------
(* The end of a call. *)

\* drop(lock)
Release(d) ==
    /\ At(d, "release")
    /\ Loop(d, "drop")
    /\ mutex' = IF mutex = d THEN Nobody ELSE mutex
    /\ UNCHANGED <<seen, files, linuxVars, hostVars>>

\* LaunchPermitGuard::drop, after the lock's.
DropGuard(d) ==
    /\ At(d, "drop")
    /\ Loop(d, "done")
    /\ files' = [files EXCEPT ![d] = NoFiles]
    /\ UNCHANGED <<mutex, seen, linuxVars, hostVars>>

\* The dispatcher is killed or its console closed: the mutex is abandoned, and
\* of the files left behind only the permit is read again.
Crash(d) ==
    /\ ~Over(d)
    /\ Goto(d, "crashed")
    /\ mutex' = IF mutex = d THEN Nobody ELSE mutex
    /\ local' = [local EXCEPT ![d] = Fresh]
    /\ proxyCode' = [proxyCode EXCEPT ![d] = NoCode]
    /\ files' = [files EXCEPT ![d] = [NoFiles EXCEPT !.permit = files[d].permit]]
    /\ KeepResult /\ UNCHANGED <<seen, linuxVars, hostVars>>

----------------------------------------------------------------------------
(* The launcher of a session. *)

Windows == UNCHANGED <<mutex, supVars, hostVars>>

Move(d, there) ==
    /\ session' = [session EXCEPT ![d] = there]
    /\ UNCHANGED sessionCode

Leave(d, there, code) ==
    /\ session' = [session EXCEPT ![d] = there]
    /\ sessionCode' = [sessionCode EXCEPT ![d] = code]

\* A file written when the call is over is read by nobody.
Write(d, new) == files' = IF Over(d) THEN files ELSE [files EXCEPT ![d] = new]

\* Validate the marker and attest what it says.
Attest(d) ==
    /\ session[d] = "boot"
    /\ \/ Move(d, "permit") /\ Write(d, [files[d] EXCEPT !.attested = marker])
       \/ Leave(d, "gone", LaunchFailed) /\ UNCHANGED files
    /\ UNCHANGED <<target, targetCode, kids, proxyCode>> /\ Windows

\* Ten seconds; no trap is set yet.
AwaitPermit(d) ==
    /\ session[d] = "permit"
    /\ \/ files[d].permit /\ Move(d, "start")
       \/ Leave(d, "gone", LaunchFailed)
    /\ UNCHANGED <<files, target, targetCode, kids, proxyCode>> /\ Windows

\* The planned executable is not the one identified: finish() publishes that.
Refuse(d) ==
    /\ session[d] = "start"
    /\ Leave(d, "quiesce", LaunchFailed)
    /\ UNCHANGED <<files, target, targetCode, kids, proxyCode>> /\ Windows

StartTarget(d) ==
    /\ session[d] = "start"
    /\ Move(d, "running")
    /\ target' = [target EXCEPT ![d] = "alive"]
    /\ UNCHANGED <<files, targetCode, kids, proxyCode>> /\ Windows

ReapTarget(d) ==
    /\ session[d] = "running" /\ target[d] = "dead"
    /\ Leave(d, "quiesce", targetCode[d])
    /\ UNCHANGED <<files, target, targetCode, kids, proxyCode>> /\ Windows

\* Mutant: survivors of the KILL are ignored.
Quiesce_Survivors(d) ==
    /\ session[d] = "quiesce"
    /\ kids' \in {kids, [kids EXCEPT ![d] = FALSE]}
    /\ Move(d, "publish")
    /\ UNCHANGED <<files, target, targetCode, proxyCode>> /\ Windows

\* quiesce_process_group: a survivor ends the launcher without a completion.
\* So does one that signals its own group: finish() has reset the traps.
Quiesce(d) ==
    /\ session[d] = "quiesce"
    /\ \/ kids' = [kids EXCEPT ![d] = FALSE] /\ Move(d, "publish")
       \/ /\ kids[d] /\ UNCHANGED kids
          /\ \E code \in {Unclean, LaunchFailed} : Leave(d, "gone", code)
    /\ UNCHANGED <<files, target, targetCode, proxyCode>> /\ Windows

Publish(d) ==
    /\ session[d] = "publish"
    /\ \/ Move(d, "exit") /\ Write(d, [files[d] EXCEPT !.completion = sessionCode[d]])
       \/ Leave(d, "gone", Unclean) /\ UNCHANGED files
    /\ UNCHANGED <<target, targetCode, kids, proxyCode>> /\ Windows

Exit(d) ==
    /\ session[d] = "exit"
    /\ Move(d, "gone")
    /\ UNCHANGED <<files, target, targetCode, kids, proxyCode>> /\ Windows

----------------------------------------------------------------------------
(* The rest of the world. *)

TargetExits(d) ==
    /\ target[d] = "alive"
    /\ target' = [target EXCEPT ![d] = "dead"]
    /\ \E code \in TargetCodes : targetCode' = [targetCode EXCEPT ![d] = code]
    /\ UNCHANGED <<files, session, sessionCode, kids, proxyCode>> /\ Windows

Fork(d) ==
    /\ target[d] = "alive"
    /\ kids' = [kids EXCEPT ![d] = TRUE]
    /\ UNCHANGED <<files, session, sessionCode, target, targetCode, proxyCode>> /\ Windows

KidsExit(d) ==
    /\ kids[d]
    /\ kids' = [kids EXCEPT ![d] = FALSE]
    /\ UNCHANGED <<files, session, sessionCode, target, targetCode, proxyCode>> /\ Windows

\* wsl.exe relays the launcher's status, or dies before it could.
ProxyExits(d) ==
    /\ pc[d] \in Supervising \cup Resetting /\ proxyCode[d] = NoCode
    /\ \E code \in {LaunchFailed} \cup (IF session[d] = "gone" THEN {sessionCode[d]} ELSE {}) :
          proxyCode' = [proxyCode EXCEPT ![d] = code]
    /\ UNCHANGED <<files, linuxVars>> /\ Windows

PressCtrlC(d) ==
    /\ pc[d] \in Supervising \cup {"wait", "spawn"} /\ ~local[d].ctrlC
    /\ local' = [local EXCEPT ![d].ctrlC = TRUE]
    /\ UNCHANGED <<mutex, pc, authorized, term, outcome, status, seen, files, linuxVars,
                   hostVars, proxyCode>>

\* A threshold passes that the loop has yet to compare with.
Tick(d) ==
    /\ pc[d] \in Supervising
    /\ \/ /\ ~authorized[d] /\ local[d].late < 2
          /\ local' = [local EXCEPT ![d].late = @ + 1]
       \/ /\ authorized[d] /\ local[d].proxy # NoCode /\ ~local[d].grace
          /\ local' = [local EXCEPT ![d].grace = TRUE]
    /\ UNCHANGED <<mutex, pc, authorized, term, outcome, status, seen, files, linuxVars,
                   hostVars, proxyCode>>

\* provision-wsl1.ps1 takes no lock: it writes a marker with a new ID and then
\* restarts the distro, or ends with an error in between.
WriteMarker ==
    /\ ~provisioning /\ marker < MaxProvisions
    /\ marker' = marker + 1 /\ provisioning' = TRUE
    /\ UNCHANGED <<mutex, supVars, files, linuxVars, proxyCode>>

RestartDistro ==
    /\ provisioning
    /\ provisioning' = FALSE
    /\ StopDistro \/ UNCHANGED linuxVars
    /\ UNCHANGED <<mutex, marker, supVars, files, proxyCode>>

Dispatch(d) ==
    \/ Acquire(d) \/ StopWaiting(d) \/ NotSpawned(d) \/ Spawn(d)
    \/ Poll(d) \/ Authorize(d) \/ TryWait(d) \/ Judge(d)
    \/ KillProxy(d) \/ Revalidate(d) \/ Terminate(d) \/ AwaitStop(d)
    \/ Reap(d) \/ Expire(d) \/ Release(d) \/ DropGuard(d)

\* The launcher once it runs: it waits without a bound for its target only.
Launch(d) ==
    \/ AwaitPermit(d) \/ Refuse(d) \/ StartTarget(d) \/ ReapTarget(d)
    \/ Quiesce(d) \/ Publish(d) \/ Exit(d)

Environment(d) ==
    \/ Attest(d) \/ TargetExits(d) \/ Fork(d) \/ KidsExit(d) \/ ProxyExits(d)
    \/ PressCtrlC(d) \/ Crash(d)

Next ==
    \/ \E d \in Dispatchers : Dispatch(d) \/ Launch(d) \/ Environment(d) \/ Tick(d)
    \/ WriteMarker \/ RestartDistro

Spec == Init /\ [][Next]_vars

\* Every dispatcher and launcher is scheduled and time passes.  Nothing is
\* assumed of targets, proxies, users or the provisioning script.
FairSpec ==
    /\ Spec
    /\ \A d \in Dispatchers : WF_vars(Dispatch(d)) /\ WF_vars(Launch(d)) /\ WF_vars(Tick(d))

----------------------------------------------------------------------------
(* Properties. *)

(***************************************************************************)
(* A successful return means that no part of the command is alive, then or  *)
(* later: the completion, the reset or the missing permit proves it         *)
(* (supervisor.rs:166-215, README.md:283-288).                              *)
(***************************************************************************)
OkMeansQuiet == \A d \in Dispatchers : outcome[d] = "ok" => ~TargetLive(d)

(***************************************************************************)
(* Success is never invented, and a call that was not cancelled reports the *)
(* status of the target if there is one (authorization.rs:262-286).         *)
(***************************************************************************)
StatusIsTargets ==
    \A d \in Dispatchers : outcome[d] = "ok" =>
      /\ status[d] = 0 => targetCode[d] = 0
      /\ ~seen[d] /\ targetCode[d] # NoCode => status[d] = targetCode[d]

(***************************************************************************)
(* Without a permit no target: one cancelled first never starts, neither    *)
(* during the ten seconds its dispatcher waits for an attestation nor after *)
(* its return (supervisor.rs:74-78, README.md:280-282).                     *)
(***************************************************************************)
EarlyCancelNeverStarts ==
    [][\A d \in Dispatchers :
         (seen[d] \/ Over(d)) /\ ~authorized[d] =>
           ~authorized'[d] /\ target'[d] = "unborn"]_vars

(***************************************************************************)
(* The proof that the distro stopped is never stale: nothing of the command *)
(* it was made for comes back (lifecycle.rs:53-75).                         *)
(***************************************************************************)
StopIsFinal ==
    \A d \in Dispatchers : term[d] = "ok" => session[d] = "gone" /\ ~TargetLive(d)

(***************************************************************************)
(* Two commands run at once only if one of them has lost its dispatcher, or *)
(* its dispatcher reported an error (WSL1_BRIDGE.md:137-150).               *)
(***************************************************************************)
OneCommand ==
    \A d, e \in Dispatchers :
      d # e /\ TargetLive(d) /\ TargetLive(e) =>
        \E c \in {d, e} : pc[c] = "crashed" \/ outcome[c] = "err"

(***************************************************************************)
(* A reset never hits a command that another dispatcher still supervises:   *)
(* it happens before the mutex is released (lifecycle.rs:77-99).            *)
(***************************************************************************)
ResetSparesOthers ==
    [][\A d, e \in Dispatchers :
         d # e /\ Terminate(d) /\ pc[e] \in Supervising \cup Resetting => session'[e] = session[e]]_vars

(***************************************************************************)
(* A cancelled call returns, before and after it has the mutex, whatever    *)
(* wsl.exe, the distro and the holder of the mutex do.                      *)
(***************************************************************************)
CancellationReturns == \A d \in Dispatchers : local[d].ctrlC ~> Over(d)

(***************************************************************************)
(* A call whose proxy has exited returns.                                   *)
(***************************************************************************)
ProxyExitReturns == \A d \in Dispatchers : proxyCode[d] # NoCode ~> Over(d)
\* A call as its caller sees it.
Call(d) ==
    IF outcome[d] # "none" THEN outcome[d]
    ELSE IF pc[d] = "crashed" THEN "lost" ELSE "open"

Run(d) == INSTANCE SupervisedRun
            WITH call <- Call(d), status <- status[d],
                 permitted <- authorized[d], cancelled <- seen[d],
                 target <- target[d], targetCode <- targetCode[d], kids <- kids[d]

(***************************************************************************)
(* Behind the mutex, the exchange files and the resets of the distro each   *)
(* call is one supervised run, whatever the others and the provisioning     *)
(* script do to it (supervisor.rs:42-222, lifecycle.rs:23-99).              *)
(***************************************************************************)
RunsSpec ==
    /\ \A d \in Dispatchers : Run(d)!Init
    /\ [][\A d \in Dispatchers : [Run(d)!Next]_(Run(d)!vars)]_vars
=============================================================================
