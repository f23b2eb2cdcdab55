# Verification of XUVA

TLA+ models of the dispatcher in this repository (`src/` of the repository is
called `src/` below), TLC configurations that check them on small instances and
TLAPS proofs of what matters most for every instance.

## 1. The system

XUVA is a foreground command dispatcher on Windows. One invocation plans where a
command runs (Windows, WSL2 or the dedicated WSL1 distro), starts it there,
supervises it and reports its status. There is no daemon: several invocations
run side by side and meet in files, a named mutex, a `flock` and each other's
leftovers.

| Component | State it keeps | Operations | What makes it correct |
|---|---|---|---|
| WSL2 supervised launch (`wsl/supervisor.rs`, `scripts/launch.sh`, `cancel*.sh`) | locals of the wait loop; attestation, permit and completion files; the token file; the process group | the 50 ms loop, signals and probes through `wsl.exe`; attest, wait for the permit, lock, run, quiesce, publish, clean up | no target without a cancellation boundary; nothing alive behind a successful return; the status is the target's; every call ends |
| WSL1 supervised launch (`wsl/lifecycle.rs`, `wsl1_launch.sh`) | a global Windows mutex, the same three files, the distro itself | handshake bound to the installation ID, normal completion, reset of the distro | one WSL1 command at a time; reset only of the revalidated distro and only under the mutex |
| State store (`state.rs`) | JSON documents, `.lock`, `.tmp-*`, `.replaced-*` siblings | read, locked read-modify-write, replace, recovery of orphans | no lost update, no torn or resurrected document, a crash at any point is recovered by the next writer |
| Installer transactions (`scripts/install.ps1`, `install-lifecycle.ps1`) | target and backup bundle, nonce-named leftovers, journal | install, rollback, recover, uninstall | a transaction that fails or is interrupted ends with the old bundles or the new ones, and the active one is never lost |
| Provider discovery, cache, dispatch (`providers/`, `execution/planner.rs`, `execution/runner.rs`) | the cache document with its TTL; plans with the identity of their executable | probe, list, complete, save; candidates; decide; try; fall back | one start; the right side for Git and for a distro's project; bounded age of the evidence; stale answers heal |
| Routing, calibration, policy (`routing/`) | calibration and policy documents (through the state store) | look up, plan, choose, record, import | the evidence is the newest of its context; a choice becomes stable; a policy for the command silences calibration |
| Metrics (`metrics.rs`) | ledger, tracker template, scratch databases | prepare, count, file and prune, purge, sweep | a run's numbers are its own; the newest rows stay |
| Bounded process runner (`process.rs`) | child, job object, two pipe readers, an input writer | run with a deadline | returned output is whole; nothing supervised survives; the call ends |
| Command classification and argument building (`command/`, `paths.rs`, `providers/mapping.rs`) | none | classify, describe, key, translate | three readers of a command line agree; translation keeps what was decided |
| Setup journal (`setup.rs`) | one record | plan, apply, verify, show | the later run's record is what is shown |
| Bridge, agent hooks, configuration, CLI, self update | none | parse, print, start a package manager | unit tests enumerate them |

Interactions: the CLI plans (provider cache, calibration, policy: all through the
state store), probing hosts with the bounded runner, then `execution/runner.rs`
starts one supervised launch, which reports an exit status that metrics and
calibration record through the state store. The installer replaces the executable
under all of it.

Hard behaviours: the dispatcher and the Linux side share no memory and every
`wsl.exe` call may take effect without being acknowledged; either side may die
between two steps; several invocations share the state store, the token
directory and the locks; documents are replaced by a sequence of file operations
any of which may be the last one. `PROJECT.json` lists these hazards at their
lines with the properties that cover them.

## 2. Modules

### WslLaunch: one supervised WSL2 launch

| In the model | In the code |
|---|---|
| `sup` | where `wait_for_wsl_child` (`wsl/supervisor.rs:228-432`) stands: `poll` 252-268, `authorize` 269-296, `settle` 297-319, `control` 320-332, `INT`/`TERM`/`KILL` 333-350, `probe` 351-361, `finalize` 362-428 |
| `authorized`, `cancelling`, `failed`, `sent`, `group`, `proxySeen` | its locals `authorized`, `cancellation_started`, `pending_error`, the three `*_sent` flags, `last_group_state`, `proxy_status` |
| `elapsed`, `attestLate`, `graceOver` | its clocks, as the thresholds they are compared with: 1.5, 3, 4 and 15 s since the cancellation, 60 s since the launch, 500 ms since the proxy's exit |
| `attested`, `permit`, `completion` | the three files of `LaunchPermitGuard` (`wsl/authorization.rs`) |
| `token` | `cancel-<nonce>.pid`, naming the process group |
| `lpc`, `launcherCode` | the line `launch.sh` (or `plan_launch.sh`) is at, and the status it exits with |
| `target`, `targetCode`, `kids` | the foreground command and whether other group members live |
| `proxyCode` | the exit status of `wsl.exe` |
| `ctrlC` | `CANCEL_REQUESTED` (`wsl/cancellation.rs:75-103`) |

A step of the loop that reads or changes something the other side can change is
an action of its own; `?` on a failing call is an early return (`PollFails`,
`ReapFails`). `SendSignal` and `Probe` may act and report failure, or not act. Once a
cancellation has begun the loop reads neither `attestLate`, `graceOver` nor `ctrlC`, and
`KeepClocks` and `KeepFlag` forget them.
`Crash` is the dispatcher being killed or its console window being closed.

Abstractions: an exit status is a member of `TargetCodes`, 1 (a refusal, a killed
proxy or launcher) or 125 (could not quiesce). Contents of the exchange files
are reduced to "ours" or "unusable". The launcher's scan of `/proc` in
`quiesce_process_group` is one atomic step here; `QuiesceGroup` takes it apart.
Reuse of a process group's number, processes of another user in the group and
processes that left it with `setsid` (which `README.md:297-300` puts out of scope)
are left out. Another invocation holding the `flock` is the choice in `AwaitLock`;
another invocation's sweep of stale tokens is `SweepStaleToken`.

### Wsl1Launch: supervised launches on the dedicated WSL1 distro

WSL1 offers no process group to signal from outside, so a dispatcher that wants
its command stopped terminates the whole distro. The module has several
dispatchers, one command each.

| In the model | In the code |
|---|---|
| `mutex` | `Local\xuva-wsl1-global-lock` (`wsl/cancellation.rs:118-199`); a holder that dies abandons it, which frees it |
| `marker`, `provisioning` | the installation ID in `/etc/xuva-dedicated-wsl1`; `provision-wsl1.ps1` has written a new one and not yet restarted the distro |
| `pc` | `wait` for the mutex, `spawn`, `poll` / `authorize` / `status` / `judge` in `wait_for_wsl1_child` (`wsl/supervisor.rs:30-226`), `kill` / `revalidate` / `terminate` / `stopping` / `reap` / `expire` in `stop_cancelled_wsl1_child` (`wsl/lifecycle.rs`), `release` of the mutex, `drop` of the files |
| `local` | `accepted_installation_id`, `proxy_status`, the caller of the reset, the thresholds of 10 s, 60 s and 500 ms, `CANCEL_REQUESTED` |
| `term` | the local `termination`: none, succeeded, failed |
| `files` | attestation (an installation ID), permit, completion |
| `session`, `sessionCode` | the line `wsl1_launch.sh` is at (`boot` before it attests), and the status it exits with |
| `target`, `kids`, `proxyCode` | the foreground command, other group members, the exit status of `wsl.exe` |

`StopDistro` is what `wsl --terminate` does to every session at once; the command
may act and be reported as failed, or be reported as done and not act yet. A
session that `wsl.exe` has asked for (`boot`) may still appear after a reset,
after its dispatcher has returned, and even after its proxy is gone.

Abstractions: the exchange files carry a nonce in their names, so a call reads
only its own; the launcher uses the one ID it attested, hence permit and
completion agree with it. The probe that revalidates the marker runs a session of
its own in the distro, which is over when it answers and is not counted. The
scan of the process group is one step, as in WslLaunch. `setsid` and a process
group of its own keep Ctrl+C and hang-ups away from the launcher. The mutex is
local to a logon session; dispatchers of two sessions are left out.

An observation the model makes and no document denies: after a crash the mutex
is free while the command of the dead dispatcher still runs, and the next one
starts a second session beside it (`OneCommand` allows exactly this, and the same
after an error return).

### SupervisedRun: what both launches promise

An abstract specification of one call and the command it is about: the call is open,
returned a status (`ok`), returned an error or is lost with its dispatcher; the
command starts at most once, under a permit that only an open call which has seen no
cancellation gives; a status is returned when nothing of the command is alive, and is
the target's own unless the call was cancelled; then nothing of the command starts any
more. An error, or the loss of the dispatcher, promises nothing of a command that was
permitted. `Run` in `WslLaunch` and `Run(d)` in `Wsl1Launch` map the call to `result`
or `outcome` and to a dispatcher that died, a cancellation to `cancelling` or `seen`;
files, signals, probes, the mutex and the resets are not visible. `RunSpec` and
`RunsSpec` say that the launches implement it.

### QuiesceGroup: the scan behind "the group is quiet"

`quiesce_process_group` with its two helpers `group_has_other_members` and
`signal_other_members` (`scripts/launch.sh:38-83`, and the same text in
`plan_launch.sh`), one read of `/proc` at a time.

| In the model | In the code |
|---|---|
| `pc` | which scan runs: the first question (`check`), the TERM pass (`term`), the 20 rounds after it (`wait`), the question after them (`recheck`), the KILL pass (`kill`), its 20 rounds (`drain`), the last question (`verify`); or the result |
| `open`, `unread` | the `for stat in /proc/[0-9]*/stat` loop: the shell expands the pattern once, then opens one file after the other |
| `remaining` | the loop counter |
| `live`, `killed` | members of the group other than the launcher; those with a `SIGKILL` pending |
| `forks`, `born`, `young` | history, for the bound and the properties |

A member may fork or exit between any two reads. A stat file that has vanished
is skipped, as `[ -r "$stat" ] || continue` does. What a member does about
`SIGTERM` is its own choice, so `Term` only advances the scan.

### StateStore and StateRegister: one JSON document

| In the model | In the code (`state.rs`) |
|---|---|
| `pc` | where a process stands in `with_state_lock` and `update_json_locked`: `wait` for the lock, `recover` and `sweep` orphaned siblings, `load`, `replace` / `activate` / `restore` / `drop` in `replace_file`, `return` |
| `lock` | the holder of the `.lock` file; the operating system closes the handle of a process that dies |
| `dest`, `backups`, `pending`, `retired` | the document, its `.replaced` siblings, the `PendingFile` and the local `backup` |
| `clock` | versions written, standing for modification times: a later version has a later one |
| `acked` | processes whose update returned `Ok` |

A document is the set of updates it contains, which is all `NoLostUpdate` has to
tell apart. Every file operation may fail and every process may die between two
of them. `ScanReliable` says whether `read_dir`, `metadata` and `Path::exists`
always answer: the code ignores their errors, and the answer decides whether the
store is correct. `StateRegister` is what the store promises, an atomic register;
the refinement mapping `Current` is the document or, when there is none, the
newest retired version, which is what the next holder of the lock will restore.

Abstractions: the Windows build only (the POSIX one has a single `rename`); a
pending file whose process died has a name nobody reads and is forgotten; ACLs,
symlink refusal, validation of contents and loss of power are left out; the ten
seconds of the lock are the choice in `TimeOut`. `recover_replaced_file` takes the
newest of the retired files by modification time (`state.rs:200-205`); two with the
same time, or a clock set back between two writes, are not modelled, and the model
says nothing of which one is taken then.

### Installer: bundle transactions and their recovery

| In the model | In the code |
|---|---|
| `dirs` | what each name beside the target holds: `target`, `previous`, and the nonce-named `stage`, `retired`, `failed`, `swap`, `removed`, `removedPrevious`, `recovery` |
| `[v, whole]` | a bundle: the installation it came from and whether it is complete (`Get-XuvaOwnedBundle` lists its files) |
| `journal` | `.<bundle>.transaction.json`: operation, phase, whether a target existed |
| `pc` | the line of the running script: install body and its catch and finally blocks (`install.ps1:228-416`), rollback (`b_`, `install.ps1:135-190`), uninstall (`u_`, `uninstall.ps1:73-140`), recovery (`r_`, `install-lifecycle.ps1`) |
| `flags` | the script's locals: `$activated`, `$rotatedCurrent`, `$retiredPrevious`, `$committed`, cleanup pending |
| `txn`, `outcome`, `crashes`, `failures`, `made` | history: the pair before the transaction, how the last script ended, and the bounds |

`Throw` is a failing file operation and goes where PowerShell takes it: to the
catch block, from there to the finally block, past `-ErrorAction SilentlyContinue`,
or out. `Stop` is the process or machine going down. `Remove` deletes file by
file, so a failure or a crash leaves a bundle that is no longer whole.

Abstractions: the journal is replaced atomically (a temporary file and
`Move-Item -Force`); one script runs at a time; a transaction's nonce is fresh, so
a new one sees no leftovers of another; a fresh installation has a new
installation ID, so an existing `previous` is never its own; copying, the version
check and the tokenizer are one step that may fail (`Stage`), the scan and the
user's PATH another (`Scan`); the helper of `lifecycle.rs`, which waits for the
dispatcher to exit before it starts the script, is left out.

Two behaviours the model shows that no document denies: a crash between the
activation of a candidate and the journal entry for it leaves the recovery with
the candidate in place and unscanned (`InstallAllOrNothing` therefore allows it);
and a retired backup whose deletion failed half-way is moved back as the backup
by the catch block.

### BoundedProcess: a helper under a deadline

`run_bounded` and `run_status_bounded` on Windows, with which every probe is made.

| In the model | In the code (`process.rs`) |
|---|---|
| `pc`, `outcome`, `expired`, `seen` | the line of the caller, what it returns, its `Instant` deadline, `status.is_some()` |
| `mode`, `hasInput` | which of the two functions was called, and whether with an input |
| `job`, `inJob` | the job object that closes with its members, and its members |
| `reader`, `retained`, `truncated` | the drain thread of each output pipe with its buffer of at most `output_limit` bytes |
| `writer`, `inputLeft` | the thread that writes the input |
| `proc`, `parent`, `holders`, `want`, `pipe` | the helper and its descendants: who runs, who forked whom, who was given the pipes, the read or write each is in, and how full the pipes are |
| `written`, `work`, `faults` | history and bounds |

A pipe ends when no holder runs any more, so a helper that exits may leave a
descendant that keeps its pipe open. The job is assigned after the spawn: what is
forked in that gap is outside (`Assign`). `taskkill /T` reaches the living
descendants whose chain of parents is unbroken.

Abstractions: bytes are counted, not read; the poll interval is the interleaving;
what is left of processes and threads after the call has returned is not followed.

### Providers and Dispatch: from a command line to a start

`Routing` holds the pure functions over one request (`route_for_plan`, the exclusions,
the fast path and the optimistic try), `Providers` the pure functions over one discovery
(the candidates with their places in the list, the plans, and the decision, which orders
the offers by distance and then by place), `Dispatch` the invocations that share the
cache.

| In the model | In the code |
|---|---|
| `request` | what the command line, the configuration and the working directory amount to: tool, access, origin, project, the route asked for, the keys it has |
| `installed` | what is on Windows and in each distro, as the number of a version; a stand-in for path, size and time of a file |
| `cache` | the entries of the tool in `provider-cache-v6.json`, one per context |
| `inv[i].pc`, `want` | `execution/planner.rs` and `providers/dispatch.rs`: lookup, the Windows probe, the listing, one distro after the other, save, decide; whether Windows, everything or the rest of a partial inventory is asked |
| `found`, `todo`, `plans` | the `Discovery` in hand, the places of the distros not asked yet, and the plans of the decision not tried yet |
| `starts`, `outcome` | history: children started, how the invocation ended |
| `age`, `seen` | what the clock says since `observed_unix_seconds`, less than 0 for a stamp in the future; history: the time since the oldest observation in the entry, whatever the clock says |
| `back` | how far the clock of the machine was set back so far |

`Change` installs, replaces or removes a binary between any two steps; `LoseCache`
stands for the cap of 128 entries and for a cache that could not be read when
another was added. Listings, probes, saves and starts may fail. A failure to start
that says "not found" goes on to the next plan; every other one ends the command.

Abstractions: the probes of a discovery run in threads of the code and one after the
other here, each reading its host at one moment; mappings are reduced to whether
there is one (`mapped`). A clock set back (`SetBack`) makes every stamp nearer or puts
it into the future, where `now.saturating_sub(observed)` is 0 and the entry fresh until
the clock has caught up and a lifetime has passed (`cache.rs:92`); one set forward
makes entries expire, which is what `LoseCache` does to them.

### Calibration and Measurement: evidence on disk

`Calibration` is the arithmetic of one entry (phases, next route, choice, recording,
import of a benchmark); `Measurement` the invocations that plan from it, run with a
scratch database and record.

| In the model | In the code |
|---|---|
| `context` | the adaptive context of now: release, PATH, setting (`routing/calibration.rs`) |
| `entry`, `policy` | the entry of the signature in `calibration-v3.json` and of the command or its kind in `route-policy-v2.json` |
| `template` | `tracker-template-v2.sqlite`: `bare` when the file exists without schema, `view` while the view has no triggers, `ready` |
| `folder`, `ledger` | the scratch directory, `metrics-v1.sqlite` as a set of numbered rows |
| `inv[i]` | plan, begin, template, copy, run, finish, record of `execution/runner.rs` and `metrics.rs`, with the context it planned in, the route it was diverted to and its scratch database |
| `purge` | what a `metrics purge` still has to remove |
| `history`, `filed` | history: the samples recorded since another context gave way, by kind, with how many of them calibration asked for; the rows filed since the ledger was made |

What RTK does with the database is external: it counts into a whole one, cannot
count into a view without triggers, and makes its own or none where there is no
schema. A step on one database, or under the lock of one file, is one action.

Abstractions: a sample is a time and two token counts; ages of files are the choice in
`Begin`; the update of the calibration document is atomic, which is what
`StateStore` shows to refine.

### Arguments, RgWorkload, CommandLine: three readers of one command line

A token is a flag, a value, or a flag with its value attached; a value is a class of
strings (a word, a path below `/mnt/c`, a drive path and so on). `Arguments` is
`argument_contract` (`command/arguments.rs`) with the translators of `paths.rs` and
`providers/mapping.rs`; `RgWorkload` is `rg_workload_key` (`command/workload.rs`);
`CommandLine` adds the git reader of `command.rs` and a user who types a line token by
token until it is translated for a provider. The tables of options are those of the
source, and each reader is a left fold over the tokens as in the code.

Abstractions: quoting, patterns inside values and the values of numeric options; the
output shapes of a key are its members. `wslpath` resolves any of a few sets of values
(`Answers`), the largest of which holds every class: a word, a subcommand and a pattern
are relative names, and `wsl_project_path_from_windows` hands every name that does not
start with `/` to it (`providers/mapping.rs:28-40`). A token without a flag has the
flag `"none"`; a response file (`@name`) has the flag `"@"`, which belongs to its name
where the whole token is a path. An option is the name of no file here.

## 3. Runs

| Run | Instance | Asks and shows |
|---|---|---|
| `wsl2` | target exits with 0 or 3, fairness; 145 996 states | the safety of a launch under every order of Ctrl+C, lost or unacknowledged signals and probes, a dying proxy, a dying dispatcher, a launcher shot between two lines and a sweep of tokens, and that it implements `SupervisedRun`; cancellation and proxy exit are followed by the return; a launcher without a permit ends by itself |
| `wsl1_pair` | 2 dispatchers, target exits with 0, symmetry; 1 477 531 states | the safety of a launch beside another one that waits, supervises, resets, is killed or has left an orphan; each implements `SupervisedRun` |
| `wsl1_live` | 1 dispatcher, target exits with 0 or 3, 2 provisionings, fairness; 65 236 states | cancellation and proxy exit are followed by the return although somebody renames and restarts the distro |
| `quiesce` | 4 processes, 2 rounds, 2 forks; 32 982 states | exactly what "quiet" is worth, and that quiescing ends |
| `store` | 3 processes, 5 writes; 94 957 states | acknowledged updates survive, the store refines the register, a waiter returns |
| `installer` | 3 transactions of any kind, 4 mishaps; 287 765 states | rollback and uninstall are all or nothing under repeated crashes; one crash or failure neither loses the active bundle nor leaves an install half done |
| `process` | the helper and one descendant, pipes, limit and input of one byte, 2 pipe operations, 1 failing call; about 270 000 states | output handed back is whole, supervised processes die with the call, no order of pipe operations blocks it, and after the deadline it returns |
| `commandline` | lines of three arguments for six tools; about 123 000 states | translation changes nothing that was decided on, whichever names are files, as long as no git option has an option for its value (section 6); the two readers of `rg` agree, a search has one key |
| `dispatch` | an invocation that repeats, 2 distros, nine requests, 1 change, 1 fault or step back of the clock; about 353 000 states | one start at most, Git and a distro's project on their side, evidence of bounded age, an end to stale answers |
| `calibration` | 2 callers, 2 contexts, 6 runs, 1 mishap, symmetry; 1.19 million states | evidence and ledger are the newest of what happened; a choice is stable after few runs |
| `dispatch_absent` | 1 invocation, nothing changes or fails | violated: see section 6 |
| `installer_lost` | 1 install, 2 mishaps | violated: a recovery run twice deletes the restored bundle |

Why the bounds are enough:

- *WslLaunch* has no bound on steps. Its clocks are thresholds, so "0.9 s" and
  "1.4 s" are one state. A target exits with a success or a failure, beside the
  reserved 1 and 125 of refusals and launchers; no other code is treated differently.
- *Wsl1Launch* has no bound on steps either. A third dispatcher adds nobody whom
  the second could not stand for: the mutex lets one through, and each orphan left
  behind makes its own dispatcher crashed or failed. One provisioning makes an
  accepted ID stale, a second one comes between revalidation and termination.
  `wsl1_pair` leaves provisioning to `wsl1_live`, where it meets one dispatcher:
  what it does to a second one, a restart, is what the first one's reset does. That
  two dispatchers beside a provisioning script keep to one command, and that a stop
  once proved stays one, is in the theorems only (`OneAtATime`, `StopsAreFinal`).
- *QuiesceGroup*: missing a member takes a parent, a child and one more process to
  be read in between; four leave room for a second generation. `Rounds` is 20 in
  the scripts; two let a loop continue and run out. The proofs are for all values.
- *StateStore*: two processes race and a third comes after both; five writes allow
  two dead updates beside three acknowledged ones, and several retired versions
  at a time. The proofs are for any number.
- *Installer*: an upgraded machine has two bundles, and three transactions rotate
  past both. Four mishaps are one in the body, one in the catch block and two
  recoveries. `InstallAllOrNothing`, `FailureRestores` and `OneMishapKeepsActive`
  speak of behaviours with at most one, because with two they fail
  (`installer_lost`); the proofs for rollback and uninstall are for any number.
- *BoundedProcess*: one descendant can outlive the helper, be outside the job or
  hold a pipe it does not use. Two pipe operations of one byte fill a pipe, go past
  the limit (which cuts at one byte) and read while another waits; the proofs
  are for all sizes and any family of processes.
- *CommandLine*: an option, its value and an operand are three tokens. Every option
  of every table stands in some line (`Rare`), in each of the three places, beside
  tokens that combine freely.
- *Dispatch*: the two distros are one of WSL2 and one dedicated of WSL1, the only kinds
  there are. The nine requests are one for each way a route can be decided: asked for,
  forced by Git, calibrated, dispatched, optimistic, the fast path, a UNC project, a
  bridge from a distro, and `providers scan` or `exec`. The invocation repeats, so it
  meets the cache that earlier ones left, including what it completed itself; `TTL` and
  `Slow` of one let an entry expire before, during and after a discovery, and a clock
  set back by one (`MaxBack`) makes an expired entry fresh again or keeps a fresh one so
  for twice as long. A behaviour has one fault or one such step (`MaxFaults` bounds their
  sum); `EvidenceStaysBounded` is for any number of both. An entry that no step of the clock can make fresh any more grows no
  older (`Outdated`). Two invocations at once are beyond TLC here; the theorems are for
  any number of them.
- *Measurement*: `MaxSamples` is 5 in the code; with 3 a choice needs most of a
  window, and six runs fill one and push its first sample out. `MaxRows` (10 000) of
  2 makes a third row push one out. One mishap among the first three
  runs, then quiet, because a change of context starts the evidence over. The bound in
  `StabilisesInFew` is tight: with one run less for the same callers TLC finds a counterexample.

`CHECK_DEADLOCK FALSE` is in the configurations of programs that stop: a launch
returns, updates are done, the transactions or runs of the bound are over. In
`Dispatch` an invocation begins anew, and deadlock is checked.

## 4. Fairness

- *WslLaunch*: weak fairness of the dispatcher's loop and of the launcher script
  (both are scheduled), strong fairness of its clock (time passes whatever the
  loop does meanwhile). Nothing is assumed of the target, the proxy, the user or
  another dispatcher: a target that ignores every signal and a proxy that never
  exits are behaviours of `FairSpec`. `Crash` ends the obligation to return.
- *Wsl1Launch*: weak fairness of every dispatcher, of every launcher that has begun
  to wait for its permit, and of the dispatchers' clocks. A waiter's own timeout is
  part of its loop, so nothing is assumed of the holder of the mutex; nothing of
  targets, proxies, `wsl --terminate` or the provisioning script either.
- *QuiesceGroup*: weak fairness of the launcher; the group may run, fork within the
  bound, or hang for ever.
- *StateStore*: weak fairness of each waiter's polling (`Acquire` or `TimeOut`).
  The holder may stop anywhere and for ever.
- *BoundedProcess*: weak fairness of the caller and its threads. Processes and the
  clock owe nothing; `CooperativeFinishes` says what follows if the processes do go
  on (`Cooperative`), `DeadlineEnds` what follows once the clock has struck.
- *Dispatch*: time passes (`Tick`), and an invocation under way goes on, as every
  wait in it has a timeout. Nobody has to begin another one.
- *Installer*, *Measurement*, *CommandLine*: none. A user may never run the recovery.

## 5. Proofs

All are checked by TLAPS for every value of the constants; each starts from a type
invariant and a strengthening that TLC found to hold first.

- `WslLaunchProofs`. `LifeInv` relates the launcher's line, the token, the permit
  and the life of the group: it is what makes `CancellationReady`, `GoneIsFinal` and
  `CompletionMeansQuiesced` inductive, because each of them speaks of files whose
  meaning depends on the line the launcher has reached. `StatusInv` adds which
  status the proxy, the launcher and the completion can show, for `StatusIsTargets`.
  `EarlyCancelNeverStarts` is an action property derived from both;
  `TokenOutlivesGroup` needs that a token is there only from the boot of the launcher
  on, as otherwise a sweep could take one a group will need. `LaunchIsRun` maps every
  step to one of `SupervisedRun` or to a stutter, from the invariants before and after
  it: what a return promises is what they say of the state it leads to.
  At its end stand the theorems of `QuiesceGroup`: `ScanInv` splits the living members
  into those still unread and those born since the list; `KillInv` does the same for
  the KILL pass.
- `Wsl1LaunchProofs`, for any number of dispatchers. `LifeInv` says the like of each
  command by itself, and that whoever is inside a call holds the mutex. A step of one
  dispatcher leaves what belongs to another as it was (`Elsewhere`), so an action has
  only its own command to answer for; the two that reach every session, the reset and
  the restart by the provisioning script, end what runs and change nothing of what is
  over (`StopLife`). `StatInv`, relative to `LifeInv`, relates the statuses of target,
  launcher, completion, proxy and call. Exclusion (`OneCommand`, `ResetSparesOthers`)
  follows because a command that is alive while neither crashed nor in error is inside
  its call. `CallsAreRuns`: a step is one of `SupervisedRun` for the command whose
  dispatcher or session takes it and a stutter for the others, but for a restart of the
  distro, which ends each command there. It needs one fact more, that a Ctrl+C once seen
  is not forgotten (`SeenInv`).
- `StateStoreProofs`, under `ScanReliable`. `HolderInv` says a process past `wait`
  holds the lock; `FileInv` that modification times order the versions and that a
  document in place is newer than every retired one; `WorkInv` what each line knows
  of `pending` and `retired`. Together: the newest version is always the last one
  committed. `NoUpdateLost` and the refinement `StoreIsRegister` follow step by step.
- `InstallerProofs`. `TypeInv` adds to the types which transaction a line belongs to,
  so that the recovery of one kind is never entered with the journal of another.
  `RollbackState` lists the four arrangements of the pair (untouched, taken out,
  half-way, exchanged) and the lines each can be met at; `UninstallState` does so for
  the two bundles of an uninstall and the commit. Every operation of script, catch
  block and recovery moves between the arrangements, and a crash keeps them: hence
  all or nothing, for any number of mishaps. An install has a third bundle, its catch
  block acts on flags that may lag behind the files, and a second mishap can break it
  (finding 1), so `InstallInv` counts the mishaps: with none it follows the body from
  arrangement to arrangement (retired, rotated, activated), with one it says what the
  catch block still has to move back (`CatchState`), what a recovery that finds the
  journal meets (`RecoveryState`) and what it never repairs (`Refused`). From it:
  all or nothing, a failure that restores, and a complete active bundle throughout.
- `BoundedProcessProofs`, for any set of descendants and all sizes. `StreamInv` counts
  the bytes of a stream (written = in the pipe, kept or dropped) and says what a reader
  that reported its end knows of the holders; `InputInv` does so for the input;
  `JobInv` says who is in the job at which line; `Born` that only the tree of the
  child runs. From them: whole output (`OkOutputComplete`), death with the call
  (`JobDiesWithCall`) and a reaped child (`ChildIsReaped`).
- `MeasurementProofs`, for any number of callers and runs. `LedgerKeepsNewest` is
  inductive by itself. `SamplesAreLatest` needs `SoundInv` (a run that nothing
  disturbed still has, at every line that relies on it, the template, the scratch
  database and the table it was given) and `Matches` (the entry is the newest of the
  history, and a sample added to the newest of a sequence leaves the newest of the
  longer one). `StabilisesInFew` needs `FewInv`: as long as one kind of run is missing,
  calibration asks for no more of the other, so those asked for and not yet recorded
  are all that can come, and those in flight are at most the callers (`Budget`). It is
  why a window has to hold three samples (`MaxSamplesAssumption`; the code has five).
- `DispatchProofs`, for any number of invocations, distros and requests and all times.
  The invariant is a conjunction of inequalities for each cache entry (`Entry`) and each
  invocation (`InTime`, `Completes`, `Fresh`): an entry's oldest observation is at most
  one lifetime and two discoveries older than its stamp (and what the clock was set
  back), because only an entry that is partial is completed and a completed one never is
  again. `StartsOnce` says that an invocation still holding plans has started nothing.
  `OrderedIsOrder` shows that the offers can be put in order at all (by counting those
  not behind an offer) and `DecidedAre` what the plans of a decision are: of an eligible
  candidate each, and the home distro's first if it has one. What the clock takes from a
  stamp goes into `back`, so `age + back` never shrinks, and the bound on decisions is
  two lifetimes, three discoveries and `back`. For `SameDistroFirst`, `HeardInv` says
  what an inventory covers while nothing has failed: every distro when it is complete,
  the first one whenever it has an answer. That is why answers of a partial inventory,
  which may be another distro's, suffice only after the home distro was asked. For
  `MutatingGitStaysOnWindows`, `Pinned` lists every way to a start that is left (the
  route, the plans, what was started) and each step keeps it.

- `CommandLineProofs`, for every vocabulary of tokens and lines of any length. The
  readers are recursive functions of the position, so the module first proves what the
  prover does not bring: induction over sets of numbers (`SetInduction`, `UpTo`, from
  the well-foundedness of the naturals), and that a function defined by recursion exists
  (`Recursion`), which makes the definitions of the readers equations (`RgReadIs`,
  `GitReadIs`, `KeyReadIs`). Each property is then a relation kept from one position to
  the next. `Alike` holds of an argument and its translation: the flag is the same,
  unless it is the `@` of a response file that is a path as a whole. The reader of `rg`
  tells alike tokens apart nowhere. The one of git does, by the names of subcommands;
  but where it finds the subcommand the contract finds no path (`SubcommandIsNoPath`),
  unless an option stands where a value is due, and what is no path is left as it is
  (`AlikeAt`). So `ProviderReadsTheSame` holds whichever names are files, with `LineInv`
  as its inductive invariant. `Agree` holds of the two readers of `rg` as long as
  neither has given the line up, which is for good (`RgStaysClosed`, `KeyStaysFailed`):
  the count of patterns of one is the flag `pattern` or a positional of the other, or an
  option whose value is still to come. It is where the tables of `arguments.rs` and
  `workload.rs` have to fit (`Tables`, `OptionAgrees`): `ReadersOfRgAgree`. `Same` holds
  of two states that end in one key; two tokens that exchange their places lead to
  `Same` states because modes commute or both give the line up (`ModesCommute`,
  `PositionalCommutes`), and what follows keeps them `Same`: `OneKeyForOneSearch`.

Assumed are only the named `ASSUME`s of the modules, among them what the code makes true
of every request (`RequestAssumption` of Dispatch: a calibration key of git is a
read-only command's, `routing/mod.rs:364`; the Windows path of a distro's project comes
with the configured distro, `planning.rs:51-57`, which is asked first,
`providers/probe.rs:207`). In StateStore `ScanReliable`
is a hypothesis of the theorems, because without it they are false. Proved
without a run of their own are the type invariants and `LineInv`, `GoneIsFinal`,
`KillMissesOnlyYoung`, `StoppedMeansStopped`, the early cancellation of a WSL2 launch,
and the quietness, status and start theorems of `Wsl1LaunchProofs`; what the last two
groups state is part of what `RunSpec` and `RunsSpec` check.

Model-checked only:

- every liveness property (`CancellationReturns`, `ProxyExitReturns`,
  `UnpermittedLauncherEnds`, `WaiterReturns`, `QuiesceEnds`, `CooperativeFinishes`,
  `DeadlineEnds`, `Heals`), out of the prover's reach.

Every safety invariant and action property of the runs is stated by a theorem.

`WslLaunch` takes the launcher's scan for one step, so `OkMeansQuiet` and
`CompletionMeansQuiesced` hold to the extent that a scan is exact. `QuiesceGroup`
says how far that is: all who were in the group when the last list was made are
gone, and only a child forked while the list was being read can be left.

## 6. Where code and documents disagree

With a run that shows it:

1. `installer_lost`: recovery of `candidate_activated` is not idempotent
   (`install-lifecycle.ps1:259`); run twice it deletes the bundle it restored.
   `RELEASE_PROVENANCE.md:57` calls interrupted rotation recoverable.
2. `dispatch_absent`: a native RTK counts as a provider of every tool
   (`providers/resolution.rs:195`), so a tool it has no adapter for and that only a
   distro has is reported missing without a distro having been asked.
   `docs/P7_DISPATCHER_FOUNDATION.md:92-95` and `providers/dispatch.rs:314-318` promise
   the expansion. A partial inventory whose only candidate is such an RTK is taken
   for sufficient in the same way and cannot be planned.

Found while modelling, described without a run:

- `child.try_wait()?` (`wsl/supervisor.rs:263`) returns without a cancellation, and a
  launcher that holds the permit starts its target after the return;
  `README.md:297-298` says a command cannot outlive XUVA's return.
- A WSL1 reset that fails after the permit returns its error with the target alive
  (`wsl/lifecycle.rs:134-141`, 116); the comment at 130-133 says the runtime was
  proved stopped. `OneCommand` allows it for this reason.
- A directory or document that cannot be read is taken for an absent one
  (`state.rs:185`) and replaced: `ScanReliable` excludes it.
- `Remove-XuvaOwnedDirectory` (`install-lifecycle.ps1:207`) accepts only a complete
  bundle, so a half-deleted one blocks every later recovery.
- A child forked during the last scan of `/proc`, whose parent exits before it is read,
  is seen by nobody; `README.md:293-294` says every member is reaped or stopped.
  `QuietLeavesOnlyNewborn` is exactly what remains true.
- `ReplaceFileW` has a moment without a document while readers take no lock;
  `LOCAL_ADAPTIVE_CALIBRATION_P10.md:81` calls the replacement atomic.
- Paths are translated by their spelling, patterns and messages that look like one
  included: `rg -- --file=/mnt/c/a` (`command/arguments.rs:278`, `paths.rs:52-54`).
- The readers of `rg` differ on `--trim` (it takes a value in `command/arguments.rs:109`
  and none in `command/workload.rs:243`) and on `-l`, `--files-with-matches` and
  `--files-without-match`, with which the key takes the first operand for a path, as
  with `--files` (`workload.rs:401-416`), and the contract for the pattern.
  `Disputed` keeps the four out of `ReadersAgree`. It matters to the key on which side
  of the first operand such a flag, `--files` or `--type-list` stands, so
  `KeyIgnoresFlagPlace` does not move them (`FilesModes`). Both take a first operand for the
  pattern although an `-e` may follow it.
- `git -C/path` (attached) is read for the project but not translated.
- `git --namespace -C status` has two readings. The git reader takes `-C` for the value
  of `--namespace` and `status` for the subcommand (`command.rs:62-70`); the contract
  sees `-C` before `status` and calls it a path (`command/arguments.rs:271-276`). Where
  a file of that name exists, the command is classified as read-only and handed to WSL
  with `/mnt/...` for its subcommand; `git -C -C status` and `git --namespace -- status`
  go the same way. `README.md:270-273` says that paths are translated only in positions
  the command defines. TLC finds all three when `ValueReadsAsOption` is dropped from
  `TranslationKeepsReading`, which is the exception the property makes.
- Calibration decides for a command with a typed Linux path too, and overrides its
  static WSL1 route (`Calibrates`); `docs/LOCAL_ADAPTIVE_CALIBRATION_P10.md:24` keeps
  "any WSL path" out of it.
- A plan on Windows that goes through RTK under the raw route is filed as a raw
  sample (`execution/runner.rs:56-62`); `Dispatched` includes it.
- Completion of a partial inventory stamps the old answers anew
  (`providers/probe.rs:279`), so evidence may be nearly two lifetimes old, and older by
  as much as the clock was set back: `EvidenceBounded` states the bound that holds.
- `docs/P7_DISPATCHER_FOUNDATION.md:128-129` and 342-354 let a hit depend on a second
  look at the binaries. The code looks at the stamp, the context and the level only
  (`providers/cache.rs:81-95`), as `docs/XUVA.md:155-159` says and the test at
  `tests/process_contract.rs:1066-1169` expects: a replaced binary is met by an answer
  that is up to a lifetime old (and longer if the clock is set back), refused at its
  start, and found anew afterwards, which is `Heals`.
- A failed `wsl --list` is cached as a complete empty inventory
  (`providers/discovery.rs:249`): `List`.
- A template that is read while another process makes it has a view without triggers,
  which loses the counts, or no schema, in which case RTK makes its own tables;
  `docs/METRICS_PRIVACY.md:25` describes the redacted ones.
- A finish after a purge fails, and the native sample is still recorded, with no
  tokens. `SamplesAreLatest` speaks of samples that nothing of the kind disturbed.
- Descendants forked between spawn and the assignment of the job survive a timeout,
  and `try_wait()?` of the status mode leaves the child running: `SupervisedDie`
  speaks of the members of the job and of the ends that say "stopped".

## 7. Not modelled

- Setup journal: one record written before and after a package manager runs, read
  back only to be shown.
- Bridge payloads, agent hooks, configuration, CLI printing: parsing and printing, a
  table of cases that unit tests enumerate. Self update starts a package manager.
- Build, packaging, release verification and benchmarks: sequential scripts outside
  the product.
- In *Dispatch*: executables named by their path, an identity probe that fails right
  after its lookup, provider reports without `--refresh`, an unreadable calibration
  state. Mapping tables of `providers/mapping.rs` appear in `Arguments` only.
- In *Measurement*: an unreadable calibration file, unsafe metric dimensions, the
  export and review commands. RTK and SQLite are external.
- In *Installer* and *StateStore*: what section 2 lists. Provisioning of a first distro,
  when there is nothing to launch in.
- What Windows, WSL and Linux do inside a call; PowerShell's own semantics beyond
  where an error goes.

## 8. What is left

The order of the work was: the WSL2 launch, its scan, the state store, the installer,
the WSL1 launch, the bounded runner, dispatch, calibration with metrics, the readers
of command lines. What would add most from here:

1. Several invocations of `Dispatch` in one run, if the discovery can be made coarser.
2. The setup journal: two runs that write it without reading it under the lock.
