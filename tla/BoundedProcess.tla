-------------------------- MODULE BoundedProcess --------------------------
(***************************************************************************)
(* run_bounded and run_status_bounded of src/process.rs on Windows: one    *)
(* helper process under a job object, its two output pipes drained by a    *)
(* thread each, its input written by a third, and a caller that polls for  *)
(* the status and the three results until a deadline.  The processes run,  *)
(* fork and inherit handles as they like.                                  *)
(***************************************************************************)
EXTENDS Naturals, FiniteSets

CONSTANTS
    Child,        \* the process that is spawned
    Descendants,  \* the processes it and its descendants can fork
    PipeSize,     \* bytes a pipe holds before a writer blocks
    Limit,        \* output_limit: bytes retained per stream
    InputSize,    \* length of the input, when there is one
    MaxWork,      \* bound of the model: pipe operations of all processes
    MaxFaults     \* bound of the model: calls that fail although they need not

ASSUME ChildAssumption == Child \notin Descendants
ASSUME SizesAssumption ==
    /\ PipeSize \in Nat \ {0} /\ Limit \in Nat /\ InputSize \in Nat
    /\ MaxWork \in Nat /\ MaxFaults \in Nat

Procs == {Child} \cup Descendants
Streams == {"stdout", "stderr"}
Channels == Streams \cup {"stdin"}

VARIABLES
    pc,         \* where the caller is
    mode,       \* "output": run_bounded, "status": run_status_bounded
    hasInput,   \* run_bounded got Some(input)
    outcome,    \* what the call returns, or "none"
    expired,    \* the deadline has passed
    job,        \* the job handle: "none", "open", "closed"
    seen,       \* status is Some: the caller knows that the child has exited
    reader,     \* state of each drain thread
    retained,   \* bytes each drain thread has kept
    truncated,  \* its truncated flag
    writer,     \* state of the thread that writes the input
    inputLeft,  \* bytes it has not written yet
    proc,       \* "unborn", "running" or "exited"
    parent,     \* who forked it
    inJob,      \* members of the job object
    holders,    \* processes that were given the handles of the pipes
    want,       \* the pipe operation a process is in, or "none"
    pipe,       \* bytes in each pipe
    written,    \* history: bytes that ever entered an output pipe
    work,       \* number of pipe operations so far
    faults      \* number of failures so far

callerVars == <<pc, outcome, expired, job, seen>>
threadVars == <<reader, retained, truncated, writer, inputLeft>>
procVars   == <<proc, parent, inJob, holders, want>>
pipeVars   == <<pipe, written>>
runVars    == <<mode, hasInput>>
vars == <<callerVars, threadVars, procVars, pipeVars, runVars, work, faults>>

Running == {p \in Procs : proc[p] = "running"}

\* Bound of the model: the threads and the processes are followed until the call returns.
Observed == pc # "returned"
Smaller(a, b) == IF a <= b THEN a ELSE b

(***************************************************************************)
(* Types: the buffers never grow past the limit, pipes never past their    *)
(* size, and nobody outside the tree of the child is in the job (the       *)
(* locals of process.rs:177-337).                                          *)
(***************************************************************************)
TypeOK ==
    /\ pc \in {"spawn", "assign", "poll", "collect", "job", "tree", "kill", "reap", "returned"}
    /\ mode \in {"output", "status"}
    /\ hasInput \in BOOLEAN /\ expired \in BOOLEAN /\ seen \in BOOLEAN
    /\ outcome \in {"none", "ok", "timeout", "unsupervised", "error"}
    /\ job \in {"none", "open", "closed"}
    /\ reader \in [Streams -> {"idle", "reading", "ok", "err", "gone"}]
    /\ retained \in [Streams -> 0..Limit]
    /\ truncated \in [Streams -> BOOLEAN]
    /\ writer \in {"idle", "writing", "ok", "err"}
    /\ inputLeft \in 0..InputSize
    /\ proc \in [Procs -> {"unborn", "running", "exited"}]
    /\ parent \in [Descendants -> Procs]
    /\ inJob \subseteq Procs /\ holders \subseteq Procs
    /\ want \in [Procs -> Channels \cup {"none"}]
    /\ pipe \in [Channels -> 0..PipeSize]
    /\ written \in [Streams -> Nat]
    /\ work \in 0..MaxWork /\ faults \in 0..MaxFaults

Init ==
    /\ pc = "spawn" /\ outcome = "none" /\ expired = FALSE
    /\ job = "none" /\ seen = FALSE
    /\ mode \in {"output", "status"}
    /\ hasInput \in (IF mode = "output" THEN BOOLEAN ELSE {FALSE})
    /\ reader = [s \in Streams |-> "idle"]
    /\ retained = [s \in Streams |-> 0]
    /\ truncated = [s \in Streams |-> FALSE]
    /\ writer = "idle"
    /\ inputLeft = (IF hasInput THEN InputSize ELSE 0)
    /\ proc = [p \in Procs |-> "unborn"]
    /\ parent = [p \in Descendants |-> Child]
    /\ inJob = {} /\ holders = {}
    /\ want = [p \in Procs |-> "none"]
    /\ pipe = [c \in Channels |-> 0]
    /\ written = [s \in Streams |-> 0]
    /\ work = 0 /\ faults = 0

CanFail == faults < MaxFaults
Fault == CanFail /\ faults' = faults + 1

----------------------------------------------------------------------------
(* The caller. *)

\* What the death of a set of processes does.
Kill(dead) == proc' = [p \in Procs |-> IF p \in dead /\ p \in Running THEN "exited" ELSE proc[p]]

\* Mutant: run_bounded takes the limits of assign_for_timeout.
KillOnClose_Never == FALSE

\* ProcessJob::assign sets KILL_ON_JOB_CLOSE, assign_for_timeout does not.
KillOnClose == mode = "output"

\* The locals go out of scope: the job handle is closed.
Return(result) ==
    /\ pc' = "returned"
    /\ outcome' = result
    /\ job' = IF job = "open" THEN "closed" ELSE job
    /\ IF job = "open" /\ KillOnClose THEN Kill(inJob) ELSE UNCHANGED proc
    /\ UNCHANGED <<expired, parent, inJob, holders, want, pipeVars, runVars, work>>

\* command.spawn(): the pipes are the child's only in run_bounded.
Spawn ==
    /\ pc = "spawn"
    /\ pc' = "assign"
    /\ proc' = [proc EXCEPT ![Child] = "running"]
    /\ holders' = IF mode = "output" THEN {Child} ELSE {}
    /\ UNCHANGED <<outcome, expired, job, seen, threadVars, parent, inJob, want, pipeVars, runVars, work, faults>>

SpawnFails ==
    /\ pc = "spawn"
    /\ Fault
    /\ Return("error")
    /\ UNCHANGED <<seen, threadVars>>

\* The job gets the child and what the child forks from now on; the threads start.
Assign ==
    /\ pc = "assign"
    /\ pc' = "poll"
    /\ job' = "open"
    /\ inJob' = {Child} \cap Running
    /\ IF mode = "output"
       THEN /\ reader' = [s \in Streams |-> "reading"]
            /\ writer' = IF hasInput THEN "writing" ELSE writer
       ELSE UNCHANGED <<reader, writer>>
    /\ UNCHANGED <<outcome, expired, seen, retained, truncated, inputLeft, proc, parent, holders, want, pipeVars, runVars, work, faults>>

\* Creating, limiting or assigning the job fails: terminate_process_tree(.., None).
AssignFails ==
    /\ pc = "assign"
    /\ Fault
    /\ pc' = "tree"
    /\ outcome' = "unsupervised"
    /\ UNCHANGED <<expired, job, seen, threadVars, procVars, pipeVars, runVars, work>>

\* status = child.try_wait()?, unless it is known already.
PollStatus ==
    /\ pc = "poll"
    /\ pc' = "collect"
    /\ seen' = (seen \/ proc[Child] = "exited")
    /\ UNCHANGED <<outcome, expired, job, threadVars, procVars, pipeVars, runVars, work, faults>>

\* try_wait fails: the ? leaves the function at once.
PollFails ==
    /\ pc = "poll"
    /\ ~seen
    /\ Fault
    /\ Return("error")
    /\ UNCHANGED <<seen, threadVars>>

\* Channels on which a result has been sent; what receive_once takes from them stays.
Sent == {s \in Streams : reader[s] \in {"ok", "err"}}
        \cup (IF writer \in {"ok", "err"} THEN {"stdin"} ELSE {})

\* Mutant: the loop forgets the standard error.
Awaited_NoStderr ==
    IF mode = "output"
    THEN {"stdout"} \cup (IF hasInput THEN {"stdin"} ELSE {})
    ELSE {}

\* The results the loop waits for (stdin_result starts as Some without an input).
Awaited ==
    IF mode = "output"
    THEN Streams \cup (IF hasInput THEN {"stdin"} ELSE {})
    ELSE {}

\* Some thread went away without a result: "exited without reporting completion".
Disconnected == \E s \in Streams : reader[s] = "gone"

Complete == seen /\ Awaited \subseteq Sent

\* All is there: unwrap in the order of the code.
Finish ==
    /\ pc = "collect"
    /\ ~Disconnected
    /\ Complete
    /\ Return(IF writer = "err" \/ \E s \in Streams : reader[s] = "err" THEN "error" ELSE "ok")
    /\ UNCHANGED <<seen, threadVars, faults>>

ReceiveFails ==
    /\ pc = "collect"
    /\ Disconnected
    /\ Return("error")
    /\ UNCHANGED <<seen, threadVars, faults>>

\* Nothing to return yet: sleep 10 ms and look again.
KeepPolling ==
    /\ pc = "collect"
    /\ ~Disconnected
    /\ ~Complete
    /\ ~expired
    /\ pc' = "poll"
    /\ UNCHANGED <<outcome, expired, job, seen, threadVars, procVars, pipeVars, runVars, work, faults>>

\* Mutant: the deadline is only for a child that has not exited.
GiveUp_OnlyChild ==
    /\ pc = "collect"
    /\ ~Disconnected
    /\ ~Complete
    /\ expired /\ ~seen
    /\ pc' = "job"
    /\ outcome' = "timeout"
    /\ UNCHANGED <<expired, job, seen, threadVars, procVars, pipeVars, runVars, work, faults>>

\* started.elapsed() >= timeout.
GiveUp ==
    /\ pc = "collect"
    /\ ~Disconnected
    /\ ~Complete
    /\ expired
    /\ pc' = "job"
    /\ outcome' = "timeout"
    /\ UNCHANGED <<expired, job, seen, threadVars, procVars, pipeVars, runVars, work, faults>>

\* process_job.terminate().
KillJob ==
    /\ pc = "job"
    /\ pc' = "tree"
    /\ Kill(inJob)
    /\ UNCHANGED <<outcome, expired, job, seen, threadVars, parent, inJob, holders, want, pipeVars, runVars, work, faults>>

\* Who taskkill /T reaches: running processes under a chain of running parents.
Below(reached) == {q \in Descendants \cap Running : parent[q] \in reached}
Tree ==
    LET chain[n \in 0..Cardinality(Procs)] ==
            IF n = 0 THEN {Child} \cap Running ELSE chain[n - 1] \cup Below(chain[n - 1])
    IN chain[Cardinality(Procs)]

\* taskkill.exe /PID child /T /F.
KillTree ==
    /\ pc = "tree"
    /\ pc' = "kill"
    /\ Kill(Tree)
    /\ UNCHANGED <<outcome, expired, job, seen, threadVars, parent, inJob, holders, want, pipeVars, runVars, work, faults>>

\* taskkill.exe cannot be started; its result is ignored.
KillTreeFails ==
    /\ pc = "tree"
    /\ Fault
    /\ pc' = "kill"
    /\ UNCHANGED <<outcome, expired, job, seen, threadVars, procVars, pipeVars, runVars, work>>

\* child.kill().
KillChild ==
    /\ pc = "kill"
    /\ pc' = "reap"
    /\ Kill({Child})
    /\ UNCHANGED <<outcome, expired, job, seen, threadVars, parent, inJob, holders, want, pipeVars, runVars, work, faults>>

\* child.wait(), then the error: pipes that no thread took are closed with the Child.
Reap ==
    /\ pc = "reap"
    /\ proc[Child] = "exited"
    /\ Return(outcome)
    /\ reader' = [s \in Streams |-> IF reader[s] = "idle" THEN "gone" ELSE reader[s]]
    /\ UNCHANGED <<seen, retained, truncated, writer, inputLeft, faults>>

\* The clock: Instant::elapsed reaches the timeout.
Expire ==
    /\ pc \in {"poll", "collect"}
    /\ ~expired
    /\ expired' = TRUE
    /\ UNCHANGED <<pc, outcome, job, seen, threadVars, procVars, pipeVars, runVars, work, faults>>

----------------------------------------------------------------------------
(* The threads. *)

\* Mutant: one loop drains the standard output to its end and then the standard error.
ReaderRead_Sequential(s, n) ==
    /\ Observed /\ reader[s] = "reading"
    /\ s = "stderr" => reader["stdout"] # "reading"
    /\ n \in 1..pipe[s]
    /\ LET keep == Smaller(Limit - retained[s], n)
       IN /\ retained' = [retained EXCEPT ![s] = @ + keep]
          /\ truncated' = [truncated EXCEPT ![s] = @ \/ keep < n]
    /\ pipe' = [pipe EXCEPT ![s] = @ - n]
    /\ UNCHANGED <<callerVars, reader, writer, inputLeft, procVars, written, runVars, work, faults>>

\* One round of drain_bounded: n bytes read, as many kept as the limit leaves.
ReaderRead(s, n) ==
    /\ Observed /\ reader[s] = "reading"
    /\ n \in 1..pipe[s]
    /\ LET keep == Smaller(Limit - retained[s], n)
       IN /\ retained' = [retained EXCEPT ![s] = @ + keep]
          /\ truncated' = [truncated EXCEPT ![s] = @ \/ keep < n]
    /\ pipe' = [pipe EXCEPT ![s] = @ - n]
    /\ UNCHANGED <<callerVars, reader, writer, inputLeft, procVars, written, runVars, work, faults>>

\* read returns 0: the pipe is empty and nobody can write to it.
ReaderEnds(s) ==
    /\ Observed /\ reader[s] = "reading"
    /\ pipe[s] = 0
    /\ holders \cap Running = {}
    /\ reader' = [reader EXCEPT ![s] = "ok"]
    /\ UNCHANGED <<callerVars, retained, truncated, writer, inputLeft, procVars, pipeVars, runVars, work, faults>>

\* read fails, or the thread goes away without sending.
ReaderFails(s) ==
    /\ Observed /\ reader[s] = "reading"
    /\ Fault
    /\ \E end \in {"err", "gone"} : reader' = [reader EXCEPT ![s] = end]
    /\ UNCHANGED <<callerVars, retained, truncated, writer, inputLeft, procVars, pipeVars, runVars, work>>

\* write_all: as many bytes as the pipe takes.
WriterWrite ==
    /\ Observed /\ writer = "writing"
    /\ holders \cap Running # {}
    /\ inputLeft > 0 /\ pipe["stdin"] < PipeSize
    /\ inputLeft' = inputLeft - 1
    /\ pipe' = [pipe EXCEPT !["stdin"] = @ + 1]
    /\ UNCHANGED <<callerVars, reader, retained, truncated, writer, procVars, written, runVars, work, faults>>

\* Everything is written, or nobody is left to read it.
WriterEnds ==
    /\ Observed /\ writer = "writing"
    /\ \/ inputLeft = 0 /\ writer' = "ok"
       \/ inputLeft > 0 /\ holders \cap Running = {} /\ writer' = "err"
    /\ UNCHANGED <<callerVars, reader, retained, truncated, inputLeft, procVars, pipeVars, runVars, work, faults>>

----------------------------------------------------------------------------
(* The processes of the helper. *)

Idle(p) == Observed /\ p \in Running /\ want[p] = "none"

\* p enters a read or a write of one byte (bounds of the model: MaxWork of them, and
\* none that begins after the outcome is decided).
Begin(p) ==
    /\ Idle(p) /\ p \in holders
    /\ work < MaxWork /\ outcome = "none"
    /\ \E c \in Streams \cup (IF hasInput THEN {"stdin"} ELSE {}) :
            want' = [want EXCEPT ![p] = c]
    /\ work' = work + 1
    /\ UNCHANGED <<callerVars, threadVars, proc, parent, inJob, holders, pipeVars, runVars, faults>>

Done(p) == want' = [want EXCEPT ![p] = "none"]

\* The write completes when there is room; with no reader it fails.
WriteOutput(p) ==
    /\ Observed /\ p \in Running
    /\ want[p] \in Streams
    /\ LET s == want[p]
       IN \/ /\ reader[s] \in {"idle", "reading"} /\ pipe[s] < PipeSize
             /\ pipe' = [pipe EXCEPT ![s] = @ + 1]
             /\ written' = [written EXCEPT ![s] = @ + 1]
          \/ reader[s] \in {"ok", "err", "gone"} /\ UNCHANGED pipeVars
    /\ Done(p)
    /\ UNCHANGED <<callerVars, threadVars, proc, parent, inJob, holders, runVars, work, faults>>

\* A byte of the input, or the end of it.
ReadInput(p) ==
    /\ Observed /\ p \in Running
    /\ want[p] = "stdin"
    /\ \/ pipe["stdin"] > 0 /\ pipe' = [pipe EXCEPT !["stdin"] = @ - 1]
       \/ pipe["stdin"] = 0 /\ writer \in {"ok", "err"} /\ UNCHANGED pipe
    /\ Done(p)
    /\ UNCHANGED <<callerVars, threadVars, proc, parent, inJob, holders, written, runVars, work, faults>>

\* A fork is in its parent's job and may or may not inherit the handles.
Fork(p, q) ==
    /\ Idle(p)
    /\ proc[q] = "unborn"
    /\ proc' = [proc EXCEPT ![q] = "running"]
    /\ parent' = [parent EXCEPT ![q] = p]
    /\ inJob' = IF p \in inJob THEN inJob \cup {q} ELSE inJob
    /\ holders' \in (IF p \in holders THEN {holders, holders \cup {q}} ELSE {holders})
    /\ UNCHANGED <<callerVars, threadVars, want, pipeVars, runVars, work, faults>>

Exit(p) ==
    /\ Idle(p)
    /\ proc' = [proc EXCEPT ![p] = "exited"]
    /\ UNCHANGED <<callerVars, threadVars, parent, inJob, holders, want, pipeVars, runVars, work, faults>>

----------------------------------------------------------------------------

Caller ==
    \/ Spawn \/ SpawnFails \/ Assign \/ AssignFails
    \/ PollStatus \/ PollFails \/ Finish \/ ReceiveFails \/ KeepPolling \/ GiveUp
    \/ KillJob \/ KillTree \/ KillTreeFails \/ KillChild \/ Reap

Reader(s) == (\E n \in 1..PipeSize : ReaderRead(s, n)) \/ ReaderEnds(s)
Writer == WriterWrite \/ WriterEnds
PipeStep(p) == WriteOutput(p) \/ ReadInput(p)

Next ==
    \/ Caller \/ Expire \/ Writer
    \/ \E s \in Streams : Reader(s) \/ ReaderFails(s)
    \/ \E p \in Procs :
        \/ Begin(p) \/ PipeStep(p) \/ Exit(p)
        \/ \E q \in Descendants : Fork(p, q)

Spec == Init /\ [][Next]_vars

(***************************************************************************)
(* The caller and the threads are scheduled; nothing is assumed of the     *)
(* processes or of the clock.                                              *)
(***************************************************************************)
FairSpec ==
    /\ Spec
    /\ WF_vars(Caller)
    /\ \A s \in Streams : WF_vars(Reader(s))
    /\ WF_vars(Writer)

\* Processes that go on as long as their pipes let them, and exit.
Cooperative == \A p \in Procs : WF_vars(PipeStep(p)) /\ WF_vars(Exit(p))

----------------------------------------------------------------------------
(* Properties. *)

(***************************************************************************)
(* Output handed to the caller is the whole output: every process that     *)
(* held a pipe is gone, each stream was kept up to the limit, and the flag *)
(* says whether more was written; an input was taken completely            *)
(* (process.rs:217-232 and 297-337).                                       *)
(***************************************************************************)
OkIsComplete ==
    (outcome = "ok" /\ mode = "output") =>
        /\ holders \cap Running = {}
        /\ inputLeft = 0
        /\ \A s \in Streams :
            /\ retained[s] = Smaller(written[s], Limit)
            /\ truncated[s] <=> written[s] > Limit

(***************************************************************************)
(* However run_bounded ends, early returns included, and whenever either   *)
(* runner times out, nothing it supervised still runs; what does was       *)
(* forked in the gap between spawn and assign (process.rs:145-157, 248-260 *)
(* and 135-142).                                                           *)
(***************************************************************************)
SupervisedDie ==
    (pc = "returned" /\ (mode = "output" \/ outcome = "timeout")) => inJob \cap Running = {}

(***************************************************************************)
(* The child itself is never left behind by an error that says it was      *)
(* stopped (process.rs:189-196, 205-212, 251-258 and 314-324).             *)
(***************************************************************************)
StoppedMeansStopped ==
    (pc = "returned" /\ outcome \in {"timeout", "unsupervised"}) => proc[Child] = "exited"

(***************************************************************************)
(* No order of writes fills one pipe for ever while the runner waits for   *)
(* another: with processes that go on by themselves the call returns       *)
(* although no deadline ever passes (process.rs:270-296).                  *)
(***************************************************************************)
CooperativeFinishes == Cooperative => <>(pc = "returned")

(***************************************************************************)
(* After the deadline the call returns whatever the processes do, also     *)
(* when the child has exited and a descendant holds its pipes open for     *)
(* ever (process.rs:314-324).                                              *)
(***************************************************************************)
DeadlineEnds == expired ~> pc = "returned"
=============================================================================
