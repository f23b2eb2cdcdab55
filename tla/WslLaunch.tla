------------------------------ MODULE WslLaunch ------------------------------
(***************************************************************************)
(* One supervised WSL2 launch: the Windows dispatcher that waits for it     *)
(* (src/wsl/supervisor.rs), the wsl.exe proxy it spawned, the launcher      *)
(* script that leads the Linux process group (scripts/launch.sh and         *)
(* plan_launch.sh), the target and its descendants, and the three exchange  *)
(* files and the token file they talk through.                              *)
(*                                                                          *)
(* Windows and Linux share no memory: the dispatcher learns of the group    *)
(* only by reading files and by running cancel.sh and cancel_probe.sh, each *)
(* of which may take effect and yet be reported as failed (the one-second   *)
(* bound on wsl.exe).  Every step of the dispatcher's 50 ms loop that reads *)
(* or changes something the other side can change is an action of its own.  *)
(***************************************************************************)
EXTENDS Integers

CONSTANT TargetCodes            \* exit codes a target may end with

NoCode       == -1              \* "no status yet"
LaunchFailed == 1               \* launcher refusal (1, 126), a killed proxy
Unclean      == 125             \* launcher could not quiesce or publish

ASSUME TargetCodesAssumption == TargetCodes \subseteq 0..255

Codes == TargetCodes \union {LaunchFailed, Unclean}
LastPhase == 4

VARIABLES
  \* the dispatcher: wait_for_wsl_child
  sup,             \* where its loop stands
  authorized,      \* it has published the permit
  cancelling,      \* cancellation_started.is_some()
  failed,          \* pending_error.is_some()
  sent,            \* signals it believes delivered
  group,           \* last_group_state
  proxySeen,       \* proxy_status
  result,          \* what the call returned
  resultCode,
  \* clocks, as the thresholds the dispatcher compares them with
  elapsed,         \* since cancellation: <1.5 s, 1.5 s, 3 s, 4 s, 15 s
  attestLate,      \* 60 s since the launch
  graceOver,       \* 500 ms since the proxy's exit was seen
  \* shared with the dispatcher
  ctrlC,           \* CANCEL_REQUESTED
  attested, permit, completion,   \* the exchange files in the Windows temp
  token,           \* cancel-<nonce>.pid exists and names the group
  \* the Linux side
  lpc,             \* where the launcher script stands
  launcherCode,    \* $? it exits with
  target, targetCode,
  kids,            \* other descendants in the group are alive
  proxyCode        \* exit status of wsl.exe

supVars      == <<sup, authorized, cancelling, failed, sent, group,
                  proxySeen, result, resultCode>>
clockVars    == <<elapsed, attestLate, graceOver>>
fileVars     == <<attested, permit, completion>>
launcherVars == <<lpc, launcherCode>>
targetVars   == <<target, targetCode, kids>>
linuxVars    == <<token, lpc, launcherCode, target, targetCode, kids>>
vars == <<sup, authorized, cancelling, failed, sent, group, proxySeen, result,
          resultCode, elapsed, attestLate, graceOver, ctrlC, attested, permit,
          completion, token, lpc, launcherCode, target, targetCode, kids,
          proxyCode>>

Signals    == {"INT", "TERM", "KILL"}
Returned   == sup \in {"done", "crashed"}
TargetLive == target = "alive" \/ kids
GroupAlive == lpc # "gone" \/ TargetLive
\* Inside finish() the traps are back to their defaults.
Finishing  == lpc \in {"quiesce", "publish", "cleanup"}

Flags ==
  /\ authorized \in BOOLEAN /\ cancelling \in BOOLEAN /\ failed \in BOOLEAN
  /\ attestLate \in BOOLEAN /\ graceOver \in BOOLEAN /\ ctrlC \in BOOLEAN
  /\ attested \in BOOLEAN /\ permit \in BOOLEAN /\ token \in BOOLEAN
  /\ kids \in BOOLEAN

Values ==
  /\ sup \in {"poll", "authorize", "settle", "control", "INT", "TERM", "KILL",
              "probe", "finalize", "done", "crashed"}
  /\ elapsed \in 0..LastPhase
  /\ sent \in SUBSET Signals
  /\ group \in {"NotProbed", "Unknown", "Alive", "Gone", "TokenUnavailable"}
  /\ proxySeen \in Codes \union {NoCode}
  /\ proxyCode \in Codes \union {NoCode}
  /\ result \in {"None", "Ok", "Err"}
  /\ resultCode \in Codes \union {NoCode}
  /\ completion \in Codes \union {NoCode}
  /\ lpc \in {"boot", "attest", "permit", "lock", "start", "running",
              "quiesce", "publish", "cleanup", "gone"}
  /\ launcherCode \in Codes \union {NoCode}
  /\ target \in {"unborn", "alive", "dead"}
  /\ targetCode \in TargetCodes \union {NoCode}

TypeOK == Flags /\ Values

\* run_wsl_route and run_wsl_execution_plan: a fresh nonce and guard, no
\* exchange file, the proxy just spawned.
Init ==
  /\ sup = "poll" /\ authorized = FALSE /\ cancelling = FALSE /\ failed = FALSE
  /\ sent = {} /\ group = "NotProbed"
  /\ proxySeen = NoCode /\ result = "None" /\ resultCode = NoCode
  /\ elapsed = 0 /\ attestLate = FALSE /\ graceOver = FALSE
  /\ ctrlC = FALSE
  /\ attested = FALSE /\ permit = FALSE /\ completion = NoCode
  /\ token = FALSE /\ lpc = "boot" /\ launcherCode = NoCode
  /\ target = "unborn" /\ targetCode = NoCode /\ kids = FALSE
  /\ proxyCode = NoCode

----------------------------------------------------------------------------
(* The dispatcher. *)

\* The call's locals, and the clocks only it reads, end with it.
LocalsEnd ==
  /\ sent' = {} /\ group' = "NotProbed" /\ proxySeen' = NoCode
  /\ elapsed' = 0 /\ attestLate' = FALSE /\ graceOver' = FALSE

\* Once there is a cancellation, the two deadlines that lead to one are not
\* compared with any more, nor is the console flag read.
KeepClocks ==
  /\ UNCHANGED elapsed
  /\ attestLate' = (attestLate /\ ~cancelling')
  /\ graceOver' = (graceOver /\ ~cancelling')
KeepFlag == ctrlC' = (ctrlC /\ ~cancelling')

KeepLocals == UNCHANGED <<sent, group, proxySeen>> /\ KeepClocks

\* The call returns and drops the guard, which deletes the exchange files.
Return(r, code) ==
  /\ sup' = "done" /\ result' = r /\ resultCode' = code
  /\ attested' = FALSE /\ permit' = FALSE /\ completion' = NoCode
  /\ LocalsEnd

StartCancelling == cancelling' = TRUE /\ failed' = TRUE

\* Top of the loop: the console flag, then try_wait on the proxy.
Poll ==
  /\ sup = "poll"
  /\ sup' = "authorize"
  /\ cancelling' = (cancelling \/ ctrlC)
  /\ proxySeen' = IF proxySeen = NoCode THEN proxyCode ELSE proxySeen
  /\ UNCHANGED <<authorized, failed, sent, group, result, resultCode, proxyCode>>
  /\ KeepClocks /\ KeepFlag /\ UNCHANGED fileVars /\ UNCHANGED linuxVars

\* try_wait()? leaves the loop at once when Windows cannot answer: no
\* cancellation, no signal, whatever the group is doing.
PollFails ==
  /\ sup = "poll" /\ proxySeen = NoCode
  /\ cancelling' = (cancelling \/ ctrlC)
  /\ Return("Err", NoCode)
  /\ UNCHANGED <<authorized, failed, ctrlC, proxyCode>> /\ UNCHANGED linuxVars

\* Mutant: a cancellation no longer blocks the permit.
MayAuthorize_Cancelled == ~authorized /\ proxySeen = NoCode

MayAuthorize == ~authorized /\ ~cancelling /\ proxySeen = NoCode

\* The attestation is read and, if it is ours, the permit renamed into place.
\* Unreadable or foreign attestations, a failed publication and a late
\* attestation all turn into a cancellation with an error.
Authorize ==
  /\ sup = "authorize"
  /\ sup' = "settle"
  /\ \/ /\ MayAuthorize /\ attested
        /\ authorized' = TRUE /\ permit' = TRUE
        /\ UNCHANGED <<cancelling, failed>>
     \/ /\ MayAuthorize /\ (attested \/ attestLate)
        /\ StartCancelling
        /\ UNCHANGED <<authorized, permit>>
     \/ /\ ~MayAuthorize \/ (~attested /\ ~attestLate)
        /\ UNCHANGED <<authorized, permit, cancelling, failed>>
  /\ UNCHANGED <<sent, group, proxySeen, result, resultCode, attested,
                 completion, proxyCode>>
  /\ KeepClocks /\ KeepFlag /\ UNCHANGED linuxVars

\* With the proxy gone and nothing wrong yet, the completion decides.
Judging == proxySeen # NoCode /\ ~cancelling

SettleNothing ==
  /\ sup = "settle" /\ ~Judging
  /\ sup' = IF cancelling THEN "control" ELSE "poll"
  /\ UNCHANGED <<cancelling, failed, result, resultCode>>
  /\ UNCHANGED fileVars /\ KeepLocals

\* Mutant: the proxy's own status is believed.
SettleReturn_Unverified ==
  /\ sup = "settle" /\ Judging
  /\ completion # NoCode
  /\ Return("Ok", proxySeen)
  /\ UNCHANGED <<cancelling, failed>>

\* verify_proxy_completion_status
SettleReturn ==
  /\ sup = "settle" /\ Judging
  /\ completion # NoCode
  /\ IF proxySeen = completion THEN Return("Ok", completion)
                               ELSE Return("Err", NoCode)
  /\ UNCHANGED <<cancelling, failed>>

\* Mutant: no end to the grace period.
SettleWait_Forever ==
  /\ sup = "settle" /\ Judging
  /\ completion = NoCode
  /\ sup' = "poll"
  /\ UNCHANGED <<cancelling, failed, result, resultCode>>
  /\ UNCHANGED fileVars /\ KeepLocals

SettleWait ==
  /\ sup = "settle" /\ Judging
  /\ completion = NoCode /\ ~graceOver
  /\ sup' = "poll"
  /\ UNCHANGED <<cancelling, failed, result, resultCode>>
  /\ UNCHANGED fileVars /\ KeepLocals

\* No completion past the grace period, or one that cannot be read.
SettleCancel ==
  /\ sup = "settle" /\ Judging
  /\ completion # NoCode \/ graceOver
  /\ StartCancelling
  /\ sup' = "control"
  /\ UNCHANGED <<result, resultCode>>
  /\ UNCHANGED fileVars /\ KeepLocals

Settle ==
  /\ SettleNothing \/ SettleReturn \/ SettleWait \/ SettleCancel
  /\ KeepFlag /\ UNCHANGED <<authorized, proxyCode>> /\ UNCHANGED linuxVars

Order == <<"INT", "TERM", "KILL">>

Due(s) ==
  /\ s \notin sent
  /\ elapsed >= [INT |-> 0, TERM |-> 1, KILL |-> 2][s]

\* The first signal of Order that is due after position i, else the probe.
NextControl(i) ==
  LET due == {j \in (i + 1)..3 : Due(Order[j])}
  IN  IF due = {} THEN "probe"
      ELSE Order[CHOOSE j \in due : \A k \in due : j <= k]

\* The cancellation block: `elapsed` is read once; signals and the probe run
\* at most every 250 ms, the first time at once.
Control ==
  /\ sup = "control"
  /\ \/ sup' = NextControl(0)
     \/ group # "NotProbed" /\ sup' = "finalize"
  /\ UNCHANGED <<authorized, cancelling, failed, sent, group, proxySeen,
                 result, resultCode, ctrlC, proxyCode>>
  /\ UNCHANGED clockVars /\ UNCHANGED fileVars /\ UNCHANGED linuxVars

\* The launcher ignores INT and TERM until finish() resets its traps.
LauncherHit(s) ==
  \/ /\ s = "KILL" \/ Finishing
     /\ lpc' = "gone"
     /\ launcherCode' = IF lpc = "gone" THEN launcherCode ELSE LaunchFailed
  \/ s # "KILL" /\ ~Finishing /\ UNCHANGED launcherVars

\* The target and its descendants die of a signal or outlive it.
MembersHit ==
  /\ \/ UNCHANGED <<target, targetCode>>
     \/ target = "alive" /\ target' = "dead" /\ targetCode' \in TargetCodes
  /\ kids' = FALSE \/ UNCHANGED kids

\* One send_linux_signal that is due: cancel.sh finds the token and signals the
\* group, or there is no group or wsl.exe fails first; a delivered signal may
\* still be reported as failed.
SendSignal(i) ==
  /\ sup = Order[i]
  /\ sup' = NextControl(i)
  /\ \/ /\ token /\ GroupAlive      \* /bin/kill -SIG -- -worker
        /\ LauncherHit(Order[i]) /\ MembersHit
        /\ sent' \in {sent, sent \union {Order[i]}}
     \/ UNCHANGED sent /\ UNCHANGED launcherVars /\ UNCHANGED targetVars
  /\ UNCHANGED <<authorized, cancelling, failed, group, proxySeen, result,
                 resultCode, ctrlC, token, proxyCode>>
  /\ UNCHANGED clockVars /\ UNCHANGED fileVars

ProbeAnswer ==
  IF ~token THEN "TokenUnavailable" ELSE IF GroupAlive THEN "Alive" ELSE "Gone"

\* linux_process_group_state: cancel_probe.sh removes the token of a group that
\* is gone; the answer may be lost after that, or wsl.exe fails before the script.
Probe ==
  /\ sup = "probe"
  /\ sup' = "finalize"
  /\ \/ token' = (token /\ GroupAlive) /\ group' \in {"Unknown", ProbeAnswer}
     \/ group' = "Unknown" /\ UNCHANGED token
  /\ UNCHANGED <<authorized, cancelling, failed, sent, proxySeen, result,
                 resultCode, ctrlC, proxyCode>>
  /\ UNCHANGED clockVars /\ UNCHANGED fileVars /\ UNCHANGED launcherVars
  /\ UNCHANGED targetVars

\* Mutant: the proxy's exit proves cleanup unless the group is seen alive.
Finalized_ProxyExit(done) ==
  \/ group = "Gone"
  \/ group = "TokenUnavailable" /\ done
  \/ group # "Alive" /\ proxySeen # NoCode

\* wsl2_cancellation_finalized
Finalized(done) ==
  \/ group = "Gone"
  \/ group = "TokenUnavailable" /\ done
  \/ group = "TokenUnavailable" /\ ~authorized /\ proxySeen # NoCode

\* Killing a proxy that has already exited changes nothing.
KillProxy == proxyCode' = IF proxyCode = NoCode THEN LaunchFailed ELSE proxyCode

CleanupProven(done, bad) ==
  /\ Finalized(done)
  /\ KillProxy
  /\ IF bad THEN Return("Err", NoCode)
            ELSE Return("Ok",
                        IF proxySeen # NoCode THEN proxySeen ELSE proxyCode')

\* Mutant: the 15 s deadline does not stop the loop.
NextIteration_NoDeadline(done) ==
  /\ ~Finalized(done)
  /\ sup' = "poll"
  /\ UNCHANGED <<sent, group, proxySeen, proxyCode, result, resultCode>>
  /\ UNCHANGED clockVars /\ UNCHANGED fileVars

NextIteration(done) ==
  /\ ~Finalized(done) /\ elapsed < LastPhase
  /\ sup' = "poll"
  /\ \/ /\ elapsed < 3 \/ proxySeen # NoCode
        /\ UNCHANGED <<proxySeen, proxyCode>>
     \/ /\ elapsed = 3 /\ proxySeen = NoCode      \* 4 s: the proxy is killed
        /\ KillProxy
        /\ proxySeen' = NoCode \/ proxySeen' = proxyCode'
  /\ UNCHANGED <<sent, group, result, resultCode>>
  /\ UNCHANGED clockVars /\ UNCHANGED fileVars

\* 15 s without proof.
GiveUp(done) ==
  /\ ~Finalized(done) /\ elapsed = LastPhase
  /\ KillProxy
  /\ Return("Err", NoCode)

\* wait()? or try_wait()? on the killed proxy fails.
ReapFails(done) ==
  /\ Finalized(done) \/ elapsed >= 3
  /\ proxySeen = NoCode
  /\ KillProxy
  /\ Return("Err", NoCode)

\* Read the completion (an unreadable one is an error and counts as absent);
\* return when cleanup is proven, kill the proxy after 4 s, give up after 15 s.
Finalize ==
  /\ sup = "finalize"
  /\ \E readable \in BOOLEAN :
       LET done == readable /\ completion # NoCode
           bad  == failed \/ (~readable /\ completion # NoCode)
       IN
       /\ failed' = bad
       /\ \/ CleanupProven(done, bad)
          \/ NextIteration(done)
          \/ GiveUp(done)
          \/ ReapFails(done)
  /\ UNCHANGED <<authorized, cancelling, ctrlC>> /\ UNCHANGED linuxVars

\* The dispatcher is killed, or its console window is closed (the handler
\* takes Ctrl+C and Ctrl+Break only): nothing is dropped, nobody supervises.
Crash ==
  /\ ~Returned
  /\ sup' = "crashed" /\ LocalsEnd
  /\ UNCHANGED <<authorized, cancelling, failed, result, resultCode, ctrlC,
                 proxyCode>>
  /\ UNCHANGED fileVars /\ UNCHANGED linuxVars

----------------------------------------------------------------------------
(* The launcher. *)

Goto(at) == lpc' = at /\ UNCHANGED launcherCode

\* Any `exit` before the target runs: finish() takes over with that status.
Refuse == lpc' = "quiesce" /\ launcherCode' = LaunchFailed

\* Set the traps, check the runtime directory, create the token exclusively.
CreateToken ==
  /\ lpc = "boot"
  /\ \/ token' = TRUE /\ Goto("attest")
     \/ token' = FALSE /\ Refuse
  /\ UNCHANGED <<ctrlC, proxyCode>> /\ UNCHANGED supVars /\ UNCHANGED clockVars
  /\ UNCHANGED fileVars /\ UNCHANGED targetVars

\* Rename the attestation into place, or fail to.
Attest ==
  /\ lpc = "attest"
  /\ \/ attested' = TRUE /\ Goto("permit")
     \/ Refuse /\ UNCHANGED attested
  /\ UNCHANGED <<ctrlC, permit, completion, token, proxyCode>>
  /\ UNCHANGED supVars /\ UNCHANGED clockVars /\ UNCHANGED targetVars

\* Mutant: the wait for the permit has no end.
AwaitPermit_Forever ==
  /\ lpc = "permit"
  /\ permit /\ Goto("lock")
  /\ UNCHANGED <<ctrlC, token, proxyCode>> /\ UNCHANGED supVars
  /\ UNCHANGED clockVars /\ UNCHANGED fileVars /\ UNCHANGED targetVars

\* Mutant: the launcher starts on its attestation alone.
AwaitPermit_Unasked ==
  /\ lpc = "permit"
  /\ Goto("lock") \/ Refuse
  /\ UNCHANGED <<ctrlC, token, proxyCode>> /\ UNCHANGED supVars
  /\ UNCHANGED clockVars /\ UNCHANGED fileVars /\ UNCHANGED targetVars

\* Wait 10 s for the permit and compare its nonce; the wait may run out, or the
\* read may fail, at any moment.
AwaitPermit ==
  /\ lpc = "permit"
  /\ \/ permit /\ Goto("lock")
     \/ Refuse
  /\ UNCHANGED <<ctrlC, token, proxyCode>> /\ UNCHANGED supVars
  /\ UNCHANGED clockVars /\ UNCHANGED fileVars /\ UNCHANGED targetVars

\* flock on descriptor 9, which the target inherits; or lock_wait runs out.
AwaitLock ==
  /\ lpc = "lock"
  /\ \/ Goto("start")
     \/ Refuse
  /\ UNCHANGED <<ctrlC, token, proxyCode>> /\ UNCHANGED supVars
  /\ UNCHANGED clockVars /\ UNCHANGED fileVars /\ UNCHANGED targetVars

\* The planned executable is no longer the one that was identified.
IdentityChanged ==
  /\ lpc = "start"
  /\ Refuse
  /\ UNCHANGED <<ctrlC, token, proxyCode>> /\ UNCHANGED supVars
  /\ UNCHANGED clockVars /\ UNCHANGED fileVars /\ UNCHANGED targetVars

StartTarget ==
  /\ lpc = "start"
  /\ Goto("running") /\ target' = "alive"
  /\ UNCHANGED <<ctrlC, token, targetCode, kids, proxyCode>>
  /\ UNCHANGED supVars /\ UNCHANGED clockVars /\ UNCHANGED fileVars

\* The launcher's `wait` for the foreground target returns.
ReapTarget ==
  /\ lpc = "running" /\ target = "dead"
  /\ lpc' = "quiesce" /\ launcherCode' = targetCode
  /\ UNCHANGED <<ctrlC, token, proxyCode>> /\ UNCHANGED supVars
  /\ UNCHANGED clockVars /\ UNCHANGED fileVars /\ UNCHANGED targetVars

\* Mutant: survivors of the KILL are ignored.
Quiesce_Survivors ==
  /\ lpc = "quiesce"
  /\ Goto("publish")
  /\ kids' = FALSE \/ UNCHANGED kids
  /\ UNCHANGED <<ctrlC, token, target, targetCode, proxyCode>>
  /\ UNCHANGED supVars /\ UNCHANGED clockVars /\ UNCHANGED fileVars

\* Mutant: the token goes before the completion is published.
Quiesce_DropsToken ==
  /\ lpc = "quiesce"
  /\ kids' = FALSE /\ Goto("publish") /\ token' = FALSE
  /\ UNCHANGED <<ctrlC, target, targetCode, proxyCode>>
  /\ UNCHANGED supVars /\ UNCHANGED clockVars /\ UNCHANGED fileVars

\* quiesce_process_group: TERM and KILL whatever else is in the group.  A
\* survivor ends the launcher with the token kept and no completion.
Quiesce ==
  /\ lpc = "quiesce"
  /\ \/ kids' = FALSE /\ Goto("publish")
     \/ kids /\ UNCHANGED kids /\ lpc' = "gone" /\ launcherCode' = Unclean
  /\ UNCHANGED <<ctrlC, token, target, targetCode, proxyCode>>
  /\ UNCHANGED supVars /\ UNCHANGED clockVars /\ UNCHANGED fileVars

\* Rename the completion into place; a failure keeps the token.
PublishCompletion ==
  /\ lpc = "publish"
  /\ \/ completion' = launcherCode /\ Goto("cleanup")
     \/ lpc' = "gone" /\ launcherCode' = Unclean /\ UNCHANGED completion
  /\ UNCHANGED <<ctrlC, attested, permit, token, proxyCode>>
  /\ UNCHANGED supVars /\ UNCHANGED clockVars /\ UNCHANGED targetVars

RemoveToken ==
  /\ lpc = "cleanup"
  /\ Goto("gone") /\ token' = FALSE
  /\ UNCHANGED <<ctrlC, proxyCode>> /\ UNCHANGED supVars /\ UNCHANGED clockVars
  /\ UNCHANGED fileVars /\ UNCHANGED targetVars

----------------------------------------------------------------------------
(* The rest of the world. *)

TargetExits ==
  /\ target = "alive"
  /\ target' = "dead" /\ targetCode' \in TargetCodes
  /\ UNCHANGED <<ctrlC, token, kids, proxyCode>> /\ UNCHANGED supVars
  /\ UNCHANGED clockVars /\ UNCHANGED fileVars /\ UNCHANGED launcherVars

\* The target, or a descendant, leaves or loses descendants in the group.
Fork ==
  /\ target = "alive" /\ kids' = TRUE
  /\ UNCHANGED <<ctrlC, token, target, targetCode, proxyCode>>
  /\ UNCHANGED supVars /\ UNCHANGED clockVars /\ UNCHANGED fileVars
  /\ UNCHANGED launcherVars

KidsExit ==
  /\ kids /\ kids' = FALSE
  /\ UNCHANGED <<ctrlC, token, target, targetCode, proxyCode>>
  /\ UNCHANGED supVars /\ UNCHANGED clockVars /\ UNCHANGED fileVars
  /\ UNCHANGED launcherVars

\* wsl.exe relays the launcher's status, or dies before it could.
ProxyExits ==
  /\ proxyCode = NoCode
  /\ \/ lpc = "gone" /\ proxyCode' = launcherCode
     \/ proxyCode' = LaunchFailed
  /\ UNCHANGED ctrlC /\ UNCHANGED supVars /\ UNCHANGED clockVars
  /\ UNCHANGED fileVars /\ UNCHANGED linuxVars

PressCtrlC ==
  /\ ~ctrlC /\ ~cancelling /\ ~Returned     \* read only until then
  /\ ctrlC' = TRUE
  /\ UNCHANGED proxyCode /\ UNCHANGED supVars /\ UNCHANGED clockVars
  /\ UNCHANGED fileVars /\ UNCHANGED linuxVars

\* Another invocation's launcher sweeps the tokens of groups that are gone.
SweepStaleToken ==
  /\ token /\ ~GroupAlive
  /\ token' = FALSE
  /\ UNCHANGED <<ctrlC, proxyCode>> /\ UNCHANGED supVars /\ UNCHANGED clockVars
  /\ UNCHANGED fileVars /\ UNCHANGED launcherVars /\ UNCHANGED targetVars

\* Time passes a threshold the dispatcher has yet to compare with.  The time
\* since cancellation is read in one place, so it advances just before that.
Tick ==
  \/ /\ sup = "control" /\ elapsed < LastPhase /\ elapsed' = elapsed + 1
     /\ UNCHANGED <<attestLate, graceOver>>
  \/ /\ ~Returned /\ ~cancelling /\ ~authorized /\ ~attestLate
     /\ attestLate' = TRUE
     /\ UNCHANGED <<elapsed, graceOver>>
  \/ /\ ~Returned /\ ~cancelling /\ proxySeen # NoCode /\ ~graceOver
     /\ graceOver' = TRUE
     /\ UNCHANGED <<elapsed, attestLate>>

Time ==
  /\ Tick
  /\ UNCHANGED <<ctrlC, proxyCode>> /\ UNCHANGED supVars
  /\ UNCHANGED fileVars /\ UNCHANGED linuxVars

----------------------------------------------------------------------------

Supervise ==
  \/ Poll \/ PollFails \/ Authorize \/ Settle \/ Control
  \/ \E i \in 1..3 : SendSignal(i)
  \/ Probe \/ Finalize

\* The launcher once it has a token: it waits on nothing without a bound
\* except the target itself.
Launch ==
  \/ Attest \/ AwaitPermit \/ AwaitLock \/ IdentityChanged \/ StartTarget
  \/ ReapTarget \/ Quiesce \/ PublishCompletion \/ RemoveToken

Environment ==
  \/ Crash \/ CreateToken \/ TargetExits \/ Fork \/ KidsExit \/ ProxyExits
  \/ PressCtrlC \/ SweepStaleToken

Next == Supervise \/ Launch \/ Environment \/ Time

Spec == Init /\ [][Next]_vars

\* The dispatcher's thread, the launcher's process and the clocks keep going.
\* Nothing is assumed of the target, the proxy, the user, other invocations,
\* or that a spawned launcher ever gets as far as its token.
FairSpec == Spec /\ WF_vars(Supervise) /\ WF_vars(Launch) /\ SF_vars(Time)

----------------------------------------------------------------------------
(* Properties. *)

\* A target or descendant is never alive without the token that lets the
\* dispatcher signal and probe its group, nor without a permit: the
\* cancellation boundary is ready before the target and outlives it.
CancellationReady == TargetLive => token /\ authorized

\* A completion record says the group has been stopped: from then on no member
\* lives and the launcher can no longer start one.
CompletionMeansQuiesced ==
  completion # NoCode => ~TargetLive /\ lpc \in {"cleanup", "gone"}

\* When the call returned success nothing of the command is alive, now or
\* later, whatever the launcher still does on its own.
OkMeansQuiet == result = "Ok" => ~TargetLive

\* Status 0 is only reported for a target that ran and ended with 0, and
\* without a cancellation the status reported is the target's own.
StatusIsTargets ==
  result = "Ok" =>
    /\ resultCode = 0 => targetCode = 0
    /\ ~cancelling /\ targetCode # NoCode => resultCode = targetCode

\* The probe's answer "gone", which is remembered and used in later
\* iterations, never goes stale.
GoneIsFinal == group = "Gone" => ~GroupAlive

\* The group's identity goes away only with the group, or behind a published
\* completion (which the dispatcher may since have read and dropped).
TokenOutlivesGroup ==
  [][token /\ ~token' /\ GroupAlive => completion # NoCode \/ Returned]_vars

\* A cancellation seen before the permit was published keeps the target from
\* ever starting, also after the dispatcher has returned.
EarlyCancelNeverStarts ==
  [][cancelling /\ ~authorized => ~authorized' /\ target' = "unborn"]_vars

\* Every cancellation, whatever the Linux side does, ends the call.
CancellationReturns == cancelling ~> Returned

\* A proxy that has exited ends the call, with or without a completion.
ProxyExitReturns == proxyCode # NoCode ~> Returned

\* A launcher that was never authorized does not linger once the dispatcher
\* has returned: its wait for the permit is bounded.
UnpermittedLauncherEnds ==
  (Returned /\ ~authorized /\ lpc # "boot") ~> lpc = "gone"
\* The call as its caller sees it.
Call ==
  IF result = "Ok" THEN "ok" ELSE IF result = "Err" THEN "err"
  ELSE IF sup = "crashed" THEN "lost" ELSE "open"

Run == INSTANCE SupervisedRun
         WITH call <- Call, status <- resultCode,
              permitted <- authorized, cancelled <- cancelling

\* Behind the exchange files, signals, probes and deadlines is one supervised
\* run.
RunSpec == Run!Spec
=============================================================================
