------------------------ MODULE BoundedProcessProofs ------------------------
(***************************************************************************)
(* What a bounded run promises about its output and about the processes    *)
(* it leaves, for every finite or infinite set of descendants, every size  *)
(* of the pipes, of the input and of what is retained.                     *)
(*                                                                         *)
(* Phases: which outcomes and which job handles a place of the caller      *)
(* allows.  Stream: what a drain thread kept is what left its pipe, up to  *)
(* the limit, and it reports the end only when nobody is left to write.    *)
(* Job: an unassigned job has no members, and a terminated one no living.  *)
(***************************************************************************)
EXTENDS BoundedProcess, TLAPS

Starting == {"spawn", "assign"}
Waiting == {"poll", "collect"}
Stopping == {"tree", "kill", "reap"}

Phases ==
    /\ pc \in Starting \cup Waiting => outcome = "none"
    /\ pc = "job" => outcome = "timeout"
    /\ pc \in Stopping => outcome \in {"timeout", "unsupervised"}
    /\ pc \in Starting => job = "none" /\ writer = "idle" /\ \A s \in Streams : reader[s] = "idle"
    /\ job = "closed" => pc = "returned"

Stream(s) ==
    /\ pipe[s] <= written[s]
    /\ retained[s] = Smaller(written[s] - pipe[s], Limit)
    /\ truncated[s] <=> written[s] - pipe[s] > Limit
    /\ reader[s] = "ok" => pipe[s] = 0 /\ holders \cap Running = {}

StreamInv == \A s \in Streams : Stream(s)

InputInv == (writer = "ok" \/ ~hasInput) => inputLeft = 0

\* Who holds a pipe or is in the job was born
Born == \A p \in holders \cup inJob : proc[p] # "unborn"

JobInv ==
    /\ job = "none" => inJob = {}
    /\ pc \in Stopping /\ outcome = "timeout" => inJob \cap Running = {}

Inv ==
    /\ TypeOK /\ Phases /\ Born /\ StreamInv /\ InputInv /\ JobInv
    /\ OkIsComplete /\ SupervisedDie /\ StoppedMeansStopped

----------------------------------------------------------------------------
(* Effects that several actions share *)

LEMMA KillEffect ==
    ASSUME TypeOK, NEW dead, Kill(dead)
    PROVE  /\ proc' \in [Procs -> {"unborn", "running", "exited"}]
           /\ Running' = Running \ dead
           /\ \A p \in Procs : proc[p] = "exited" => proc'[p] = "exited"
BY DEF Kill, TypeOK, Running

LEMMA ReturnEffect ==
    ASSUME TypeOK, NEW result, Return(result)
    PROVE  /\ pc' = "returned" /\ outcome' = result
           /\ job' = (IF job = "open" THEN "closed" ELSE job)
           /\ proc' \in [Procs -> {"unborn", "running", "exited"}]
           /\ Running' = IF job = "open" /\ mode = "output" THEN Running \ inJob ELSE Running
           /\ \A p \in Procs : proc[p] = "exited" => proc'[p] = "exited"
           /\ UNCHANGED <<expired, parent, inJob, holders, want, pipeVars, runVars, work>>
<1>1. CASE job = "open" /\ mode = "output"
  <2>1. Kill(inJob)
    BY <1>1 DEF Return, KillOnClose
  <2> QED BY <1>1, <2>1, KillEffect DEF Return
<1>2. CASE ~(job = "open" /\ mode = "output")
  <2>1. UNCHANGED proc
    BY <1>2 DEF Return, KillOnClose
  <2> QED BY <1>2, <2>1 DEF Return, TypeOK, Running
<1> QED BY <1>1, <1>2

----------------------------------------------------------------------------
(* Types *)

LEMMA CallerType == TypeOK /\ Caller => TypeOK'
<1> SUFFICES ASSUME TypeOK, Caller PROVE TypeOK'
  OBVIOUS
<1> USE SizesAssumption, ChildAssumption DEF callerVars, threadVars, procVars, pipeVars, runVars
<1>1. ASSUME NEW result \in {"ok", "timeout", "unsupervised", "error"}, Return(result),
             UNCHANGED <<seen, threadVars>>, faults' \in 0..MaxFaults
      PROVE  TypeOK'
  BY <1>1, ReturnEffect DEF TypeOK
<1>2. ASSUME NEW dead, Kill(dead), UNCHANGED <<outcome, expired, job, seen, threadVars, parent, inJob,
             holders, want, pipeVars, runVars, work, faults>>, pc' \in Stopping
      PROVE  TypeOK'
  BY <1>2, KillEffect DEF TypeOK, Stopping
<1>3. ASSUME Fault PROVE faults' \in 0..MaxFaults
  BY <1>3 DEF Fault, CanFail, TypeOK
<1>4. CASE Spawn
  <2>1. proc' \in [Procs -> {"unborn", "running", "exited"}] /\ holders' \subseteq Procs
    BY <1>4 DEF Spawn, TypeOK, Procs
  <2> QED BY <1>4, <2>1 DEF Spawn, TypeOK
<1>5. CASE SpawnFails
  BY <1>1, <1>3, <1>5 DEF SpawnFails
<1>6. CASE Assign
  <2>1. inJob' \subseteq Procs
    BY <1>6 DEF Assign, Procs
  <2>2. reader' \in [Streams -> {"idle", "reading", "ok", "err", "gone"}]
    BY <1>6 DEF Assign, TypeOK
  <2>3. writer' \in {"idle", "writing", "ok", "err"}
    BY <1>6 DEF Assign, TypeOK
  <2> QED BY <1>6, <2>1, <2>2, <2>3 DEF Assign, TypeOK
<1>7. CASE AssignFails
  BY <1>3, <1>7 DEF AssignFails, TypeOK
<1>8. CASE PollStatus
  BY <1>8 DEF PollStatus, TypeOK
<1>9. CASE PollFails
  BY <1>1, <1>3, <1>9 DEF PollFails
<1>10. CASE Finish
  <2>1. faults' \in 0..MaxFaults
    BY <1>10 DEF Finish, TypeOK
  <2> QED BY <1>1, <1>10, <2>1 DEF Finish
<1>11. CASE ReceiveFails
  <2>1. faults' \in 0..MaxFaults
    BY <1>11 DEF ReceiveFails, TypeOK
  <2> QED BY <1>1, <1>11, <2>1 DEF ReceiveFails
<1>12. CASE KeepPolling
  BY <1>12 DEF KeepPolling, TypeOK
<1>13. CASE GiveUp
  BY <1>13 DEF GiveUp, TypeOK
<1>14. CASE KillJob
  BY <1>2, <1>14 DEF KillJob, Stopping
<1>15. CASE KillTree
  BY <1>2, <1>15 DEF KillTree, Stopping
<1>16. CASE KillTreeFails
  BY <1>3, <1>16 DEF KillTreeFails, TypeOK
<1>17. CASE KillChild
  BY <1>2, <1>17 DEF KillChild, Stopping
<1>18. CASE Reap
  <2>1. reader' \in [Streams -> {"idle", "reading", "ok", "err", "gone"}]
    BY <1>18 DEF Reap, TypeOK
  <2> QED BY <1>18, <2>1, ReturnEffect DEF Reap, TypeOK
<1> QED BY <1>4, <1>5, <1>6, <1>7, <1>8, <1>9, <1>10, <1>11, <1>12, <1>13, <1>14, <1>15, <1>16,
           <1>17, <1>18 DEF Caller

LEMMA ThreadType ==
    ASSUME TypeOK, \/ Writer \/ \E s \in Streams : Reader(s) \/ ReaderFails(s)
    PROVE  TypeOK'
<1> USE SizesAssumption DEF callerVars, threadVars, procVars, pipeVars, runVars
<1>1. CASE WriterWrite
  <2>1. inputLeft' \in 0..InputSize
    BY <1>1 DEF WriterWrite, TypeOK
  <2>2. pipe' \in [Channels -> 0..PipeSize]
    <3>1. pipe["stdin"] + 1 \in 0..PipeSize
      BY <1>1 DEF WriterWrite, TypeOK, Channels
    <3> QED BY <1>1, <3>1 DEF WriterWrite, TypeOK
  <2> QED BY <1>1, <2>1, <2>2 DEF WriterWrite, TypeOK
<1>2. CASE WriterEnds
  BY <1>2 DEF WriterEnds, TypeOK
<1>3. ASSUME NEW s \in Streams, NEW n \in 1..PipeSize, ReaderRead(s, n) PROVE TypeOK'
  <2>1. /\ pipe[s] \in 0..PipeSize /\ n \in 1..pipe[s] /\ retained[s] \in 0..Limit
        /\ s \in Channels
    BY <1>3 DEF ReaderRead, TypeOK, Channels
  <2> DEFINE keep == Smaller(Limit - retained[s], n)
  <2>2. keep \in Nat /\ retained[s] + keep \in 0..Limit
    BY <2>1 DEF Smaller
  <2>3. retained' = [retained EXCEPT ![s] = @ + keep]
    BY <1>3 DEF ReaderRead
  <2>4. truncated' = [truncated EXCEPT ![s] = @ \/ keep < n]
    BY <1>3 DEF ReaderRead
  <2> HIDE DEF keep
  <2>5. retained' \in [Streams -> 0..Limit]
    BY <2>2, <2>3 DEF TypeOK
  <2>6. truncated' \in [Streams -> BOOLEAN]
    <3>1. (truncated[s] \/ keep < n) \in BOOLEAN
      OBVIOUS
    <3> QED BY <2>4, <3>1 DEF TypeOK
  <2>7. pipe' \in [Channels -> 0..PipeSize]
    <3>1. pipe[s] - n \in 0..PipeSize
      BY <2>1
    <3> QED BY <1>3, <2>1, <3>1 DEF ReaderRead, TypeOK
  <2> QED BY <1>3, <2>5, <2>6, <2>7 DEF ReaderRead, TypeOK
<1>4. ASSUME NEW s \in Streams, ReaderEnds(s) PROVE TypeOK'
  BY <1>4 DEF ReaderEnds, TypeOK
<1>5. ASSUME NEW s \in Streams, ReaderFails(s) PROVE TypeOK'
  <2>1. faults' \in 0..MaxFaults
    BY <1>5 DEF ReaderFails, Fault, CanFail, TypeOK
  <2>2. reader' \in [Streams -> {"idle", "reading", "ok", "err", "gone"}]
    BY <1>5 DEF ReaderFails, TypeOK
  <2> QED BY <1>5, <2>1, <2>2 DEF ReaderFails, TypeOK
<1> QED BY <1>1, <1>2, <1>3, <1>4, <1>5 DEF Writer, Reader

ProcStep(p) == Begin(p) \/ PipeStep(p) \/ Exit(p) \/ \E q \in Descendants : Fork(p, q)

LEMMA ProcType == ASSUME TypeOK, NEW p \in Procs, ProcStep(p) PROVE TypeOK'
<1> USE SizesAssumption DEF callerVars, threadVars, procVars, pipeVars, runVars
<1>1. CASE Begin(p)
  <2>1. want' \in [Procs -> Channels \cup {"none"}]
    BY <1>1 DEF Begin, TypeOK, Channels
  <2>2. work' \in 0..MaxWork
    BY <1>1 DEF Begin, TypeOK
  <2> QED BY <1>1, <2>1, <2>2 DEF Begin, TypeOK
<1>2. CASE WriteOutput(p)
  <2>1. want' \in [Procs -> Channels \cup {"none"}]
    BY <1>2 DEF WriteOutput, Done, TypeOK
  <2>2. pipe' \in [Channels -> 0..PipeSize] /\ written' \in [Streams -> Nat]
    <3> DEFINE s == want[p]
    <3>1. s \in Streams /\ s \in Channels /\ pipe[s] \in 0..PipeSize /\ written[s] \in Nat
      BY <1>2 DEF WriteOutput, TypeOK, Channels
    <3>2. CASE UNCHANGED pipeVars
      BY <3>2 DEF TypeOK
    <3>3. CASE /\ pipe[s] < PipeSize
               /\ pipe' = [pipe EXCEPT ![s] = @ + 1]
               /\ written' = [written EXCEPT ![s] = @ + 1]
      <4>1. pipe[s] + 1 \in 0..PipeSize /\ written[s] + 1 \in Nat
        BY <3>1, <3>3
      <4> HIDE DEF s
      <4> QED BY <3>1, <3>3, <4>1 DEF TypeOK
    <3> QED BY <1>2, <3>2, <3>3 DEF WriteOutput
  <2> QED BY <1>2, <2>1, <2>2 DEF WriteOutput, TypeOK
<1>3. CASE ReadInput(p)
  <2>1. want' \in [Procs -> Channels \cup {"none"}]
    BY <1>3 DEF ReadInput, Done, TypeOK
  <2>2. pipe' \in [Channels -> 0..PipeSize]
    <3>1. CASE UNCHANGED pipe
      BY <3>1 DEF TypeOK
    <3>2. CASE pipe["stdin"] > 0 /\ pipe' = [pipe EXCEPT !["stdin"] = @ - 1]
      <4>1. pipe["stdin"] - 1 \in 0..PipeSize
        BY <3>2 DEF TypeOK, Channels
      <4> QED BY <3>2, <4>1 DEF TypeOK
    <3> QED BY <1>3, <3>1, <3>2 DEF ReadInput
  <2> QED BY <1>3, <2>1, <2>2 DEF ReadInput, TypeOK
<1>4. CASE Exit(p)
  BY <1>4 DEF Exit, TypeOK
<1>5. ASSUME NEW q \in Descendants, Fork(p, q) PROVE TypeOK'
  <2>1. q \in Procs
    BY DEF Procs
  <2>2. inJob' \subseteq Procs /\ holders' \subseteq Procs
    BY <1>5, <2>1 DEF Fork, TypeOK
  <2>3. /\ proc' \in [Procs -> {"unborn", "running", "exited"}]
        /\ parent' \in [Descendants -> Procs]
    BY <1>5, <2>1 DEF Fork, TypeOK
  <2> QED BY <1>5, <2>2, <2>3 DEF Fork, TypeOK
<1> QED BY <1>1, <1>2, <1>3, <1>4, <1>5 DEF ProcStep, PipeStep

LEMMA Steps ==
    Next <=> \/ Caller \/ Expire
             \/ Writer \/ \E s \in Streams : Reader(s) \/ ReaderFails(s)
             \/ \E p \in Procs : ProcStep(p)
BY DEF Next, ProcStep

LEMMA TypeStep == TypeOK /\ [Next]_vars => TypeOK'
<1>1. ASSUME TypeOK, Expire PROVE TypeOK'
  BY <1>1 DEF Expire, TypeOK, threadVars, procVars, pipeVars, runVars
<1>2. ASSUME TypeOK, UNCHANGED vars PROVE TypeOK'
  BY <1>2 DEF TypeOK, vars, callerVars, threadVars, procVars, pipeVars, runVars
<1> QED BY <1>1, <1>2, CallerType, ThreadType, ProcType, Steps

LEMMA TypeInit == Init => TypeOK
<1> SUFFICES ASSUME Init PROVE TypeOK
  OBVIOUS
<1>1. hasInput \in BOOLEAN
  BY DEF Init
<1>2. inputLeft \in 0..InputSize
  BY SizesAssumption DEF Init
<1>3. /\ pipe \in [Channels -> 0..PipeSize] /\ written \in [Streams -> Nat]
      /\ retained \in [Streams -> 0..Limit] /\ truncated \in [Streams -> BOOLEAN]
      /\ work \in 0..MaxWork /\ faults \in 0..MaxFaults
  BY SizesAssumption DEF Init
<1>4. /\ proc \in [Procs -> {"unborn", "running", "exited"}] /\ parent \in [Descendants -> Procs]
      /\ want \in [Procs -> Channels \cup {"none"}]
  BY DEF Init, Procs
<1> QED BY <1>1, <1>2, <1>3, <1>4 DEF Init, TypeOK

(***************************************************************************)
(* The buffers never grow past the limit and the pipes never past their    *)
(* size, whatever the processes do (process.rs:177-337).                   *)
(***************************************************************************)
THEOREM ProcessTypeCorrect == Spec => []TypeOK
BY TypeInit, TypeStep, PTL DEF Spec

----------------------------------------------------------------------------
(* The invariant, part by part *)

LEMMA PhasesStep == Inv /\ [Next]_vars => Phases'
<1> SUFFICES ASSUME Inv, [Next]_vars PROVE Phases'
  OBVIOUS
<1> USE DEF Starting, Waiting, Stopping, callerVars, threadVars, procVars, pipeVars, runVars
<1>1. TypeOK /\ Phases
  BY DEF Inv
<1>2. ASSUME NEW result, Return(result) PROVE Phases'
  BY <1>1, <1>2, ReturnEffect DEF Phases, TypeOK
<1>3. CASE Caller
  <2>1. CASE Spawn \/ Assign \/ AssignFails \/ PollStatus \/ KeepPolling \/ GiveUp
    BY <1>1, <2>1 DEF Phases, Spawn, Assign, AssignFails, PollStatus, KeepPolling, GiveUp
  <2>2. CASE KillJob \/ KillTree \/ KillTreeFails \/ KillChild
    BY <1>1, <2>2 DEF Phases, KillJob, KillTree, KillTreeFails, KillChild
  <2>3. CASE SpawnFails \/ PollFails \/ Finish \/ ReceiveFails \/ Reap
    <3>1. \E result : Return(result)
      BY <2>3 DEF SpawnFails, PollFails, Finish, ReceiveFails, Reap
    <3> QED BY <3>1, <1>2
  <2> QED BY <1>3, <2>1, <2>2, <2>3 DEF Caller
<1>4. CASE Expire
  BY <1>1, <1>4 DEF Expire, Phases
<1>5. CASE Writer
  BY <1>1, <1>5 DEF Writer, WriterWrite, WriterEnds, Phases
<1>6. ASSUME NEW s \in Streams, Reader(s) \/ ReaderFails(s) PROVE Phases'
  <2>1. pc \notin Starting /\ UNCHANGED callerVars
    BY <1>1, <1>6 DEF Reader, ReaderRead, ReaderEnds, ReaderFails, Phases
  <2> QED BY <1>1, <2>1 DEF Phases
<1>7. ASSUME NEW p \in Procs, ProcStep(p) PROVE Phases'
  <2>1. UNCHANGED <<callerVars, threadVars>>
    BY <1>7 DEF ProcStep, Begin, PipeStep, WriteOutput, ReadInput, Exit, Fork
  <2> QED BY <1>1, <2>1 DEF Phases
<1>8. CASE UNCHANGED vars
  BY <1>1, <1>8 DEF Phases, vars
<1> QED BY <1>3, <1>4, <1>5, <1>6, <1>7, <1>8, Steps

\* Nobody who could write is born once nobody could
LEMMA HoldersDie ==
    ASSUME Inv, [Next]_vars, pc # "spawn", holders \cap Running = {}
    PROVE  (holders \cap Running)' = {}
<1> USE DEF callerVars, threadVars, procVars, pipeVars, runVars
<1>1. TypeOK
  BY DEF Inv
<1>2. ASSUME UNCHANGED holders, Running' \subseteq Running PROVE (holders \cap Running)' = {}
  BY <1>2
<1>3. ASSUME NEW result, Return(result) PROVE UNCHANGED holders /\ Running' \subseteq Running
  BY <1>1, <1>3, ReturnEffect
<1>4. CASE Caller
  <2>1. CASE Assign \/ AssignFails \/ PollStatus \/ KeepPolling \/ GiveUp \/ KillTreeFails
    BY <1>2, <2>1 DEF Assign, AssignFails, PollStatus, KeepPolling, GiveUp, KillTreeFails, Running
  <2>2. CASE KillJob \/ KillTree \/ KillChild
    <3>1. UNCHANGED holders /\ \E dead : Kill(dead)
      BY <2>2 DEF KillJob, KillTree, KillChild
    <3> QED BY <1>1, <1>2, <3>1, KillEffect
  <2>3. CASE SpawnFails \/ PollFails \/ Finish \/ ReceiveFails \/ Reap
    <3>1. \E result : Return(result)
      BY <2>3 DEF SpawnFails, PollFails, Finish, ReceiveFails, Reap
    <3> QED BY <3>1, <1>2, <1>3
  <2> QED BY <1>4, <2>1, <2>2, <2>3 DEF Caller, Spawn
<1>5. CASE Expire \/ Writer \/ \E s \in Streams : Reader(s) \/ ReaderFails(s)
  <2>1. UNCHANGED <<holders, proc>>
    BY <1>5 DEF Expire, Writer, WriterWrite, WriterEnds, Reader, ReaderRead, ReaderEnds, ReaderFails
  <2> QED BY <1>2, <2>1 DEF Running
<1>6. ASSUME NEW p \in Procs, ProcStep(p) PROVE (holders \cap Running)' = {}
  <2>1. CASE Begin(p) \/ PipeStep(p)
    <3>1. UNCHANGED <<holders, proc>>
      BY <2>1 DEF Begin, PipeStep, WriteOutput, ReadInput
    <3> QED BY <1>2, <3>1 DEF Running
  <2>2. CASE Exit(p)
    <3>1. UNCHANGED holders /\ Running' \subseteq Running
      BY <1>1, <2>2 DEF Exit, Running, TypeOK
    <3> QED BY <1>2, <3>1
  <2>3. ASSUME NEW q \in Descendants, Fork(p, q) PROVE (holders \cap Running)' = {}
    <3>1. p \in Running /\ p \notin holders
      BY <2>3 DEF Fork, Idle
    <3>2. holders' = holders
      BY <2>3, <3>1 DEF Fork
    <3>3. CASE q \notin holders
      <4>1. Running' \subseteq Running \cup {q}
        BY <1>1, <2>3 DEF Fork, Running, TypeOK
      <4> QED BY <3>2, <3>3, <4>1
    <3>4. q \notin holders
      BY <2>3 DEF Fork, Inv, Born
    <3> QED BY <3>3, <3>4
  <2> QED BY <1>6, <2>1, <2>2, <2>3 DEF ProcStep
<1>7. CASE UNCHANGED vars
  BY <1>2, <1>7 DEF vars, Running
<1> QED BY <1>4, <1>5, <1>6, <1>7, Steps

LEMMA BornStep == Inv /\ [Next]_vars => Born'
<1> SUFFICES ASSUME Inv, [Next]_vars PROVE Born'
  OBVIOUS
<1> USE DEF callerVars, threadVars, procVars, pipeVars, runVars
<1>1. TypeOK /\ Born
  BY DEF Inv
<1>2. ASSUME UNCHANGED <<holders, inJob>>, \A p \in Procs : proc[p] # "unborn" => proc'[p] # "unborn"
      PROVE  Born'
  BY <1>1, <1>2 DEF Born, TypeOK
<1>3. CASE Caller
  <2>1. CASE Spawn
    <3>1. holders' \subseteq {Child} /\ proc'[Child] = "running" /\ inJob' = inJob
      BY <1>1, <2>1 DEF Spawn, TypeOK, Procs
    <3>2. \A p \in inJob : proc'[p] # "unborn"
      BY <1>1, <2>1 DEF Spawn, Born, TypeOK
    <3> QED BY <3>1, <3>2 DEF Born
  <2>2. CASE Assign
    BY <1>1, <2>2 DEF Assign, Born, Running
  <2>3. CASE AssignFails \/ PollStatus \/ KeepPolling \/ GiveUp \/ KillTreeFails
    BY <1>2, <2>3 DEF AssignFails, PollStatus, KeepPolling, GiveUp, KillTreeFails
  <2>4. CASE KillJob \/ KillTree \/ KillChild
    <3>1. UNCHANGED <<holders, inJob>> /\ \E dead : Kill(dead)
      BY <2>4 DEF KillJob, KillTree, KillChild
    <3> QED BY <1>1, <1>2, <3>1 DEF Kill, TypeOK
  <2>5. CASE SpawnFails \/ PollFails \/ Finish \/ ReceiveFails \/ Reap
    <3>1. PICK result : Return(result)
      BY <2>5 DEF SpawnFails, PollFails, Finish, ReceiveFails, Reap
    <3>2. UNCHANGED <<holders, inJob>> /\ (UNCHANGED proc \/ \E dead : Kill(dead))
      BY <3>1 DEF Return
    <3> QED BY <1>1, <1>2, <3>2 DEF Kill, TypeOK
  <2> QED BY <1>3, <2>1, <2>2, <2>3, <2>4, <2>5 DEF Caller
<1>4. CASE Expire \/ Writer \/ \E s \in Streams : Reader(s) \/ ReaderFails(s)
  <2>1. UNCHANGED <<holders, inJob, proc>>
    BY <1>4 DEF Expire, Writer, WriterWrite, WriterEnds, Reader, ReaderRead, ReaderEnds, ReaderFails
  <2> QED BY <1>2, <2>1
<1>5. ASSUME NEW p \in Procs, ProcStep(p) PROVE Born'
  <2>1. CASE Begin(p) \/ PipeStep(p)
    BY <1>2, <2>1 DEF Begin, PipeStep, WriteOutput, ReadInput
  <2>2. CASE Exit(p)
    BY <1>1, <1>2, <2>2 DEF Exit, TypeOK
  <2>3. ASSUME NEW q \in Descendants, Fork(p, q) PROVE Born'
    <3>1. holders' \subseteq holders \cup {q} /\ inJob' \subseteq inJob \cup {q}
      BY <2>3 DEF Fork
    <3>2. q \in Procs /\ proc' = [proc EXCEPT ![q] = "running"]
      BY <2>3 DEF Fork, Procs
    <3>3. proc'[q] = "running" /\ \A r \in Procs : proc[r] # "unborn" => proc'[r] # "unborn"
      BY <1>1, <3>2 DEF TypeOK
    <3> QED BY <1>1, <3>1, <3>3 DEF Born, TypeOK
  <2> QED BY <1>5, <2>1, <2>2, <2>3 DEF ProcStep
<1>6. CASE UNCHANGED vars
  BY <1>2, <1>6 DEF vars
<1> QED BY <1>3, <1>4, <1>5, <1>6, Steps

LEMMA InputStep == Inv /\ [Next]_vars => InputInv'
<1> SUFFICES ASSUME Inv, [Next]_vars PROVE InputInv'
  OBVIOUS
<1> USE DEF callerVars, threadVars, procVars, pipeVars, runVars
<1>1. TypeOK /\ InputInv
  BY DEF Inv
<1>2. ASSUME UNCHANGED <<writer, inputLeft, hasInput>> PROVE InputInv'
  BY <1>1, <1>2 DEF InputInv
<1>3. CASE Caller
  <2>1. CASE Assign
    BY <1>1, <2>1 DEF Assign, InputInv
  <2>2. CASE ~Assign
    BY <1>2, <1>3, <2>2
    DEF Caller, Spawn, SpawnFails, AssignFails, PollStatus, PollFails, Finish, ReceiveFails,
        KeepPolling, GiveUp, KillJob, KillTree, KillTreeFails, KillChild, Reap, Return
  <2> QED BY <2>1, <2>2
<1>4. CASE WriterWrite
  <2>1. inputLeft > 0 /\ writer = "writing" /\ UNCHANGED <<writer, hasInput>>
    BY <1>4 DEF WriterWrite
  <2>2. writer # "ok" /\ hasInput
    BY <1>1, <2>1 DEF InputInv
  <2> QED BY <1>1, <2>1, <2>2 DEF InputInv, TypeOK
<1>5. CASE WriterEnds
  BY <1>1, <1>5 DEF WriterEnds, InputInv
<1>6. CASE Expire \/ \E s \in Streams : Reader(s) \/ ReaderFails(s)
  BY <1>2, <1>6 DEF Expire, Reader, ReaderRead, ReaderEnds, ReaderFails
<1>7. ASSUME NEW p \in Procs, ProcStep(p) PROVE InputInv'
  BY <1>2, <1>7 DEF ProcStep, Begin, PipeStep, WriteOutput, ReadInput, Exit, Fork
<1>8. CASE UNCHANGED vars
  BY <1>2, <1>8 DEF vars
<1> QED BY <1>3, <1>4, <1>5, <1>6, <1>7, <1>8, Steps DEF Writer

----------------------------------------------------------------------------
(* The job *)

\* What is dead in the job stays alone in it
LEMMA JobDies ==
    ASSUME Inv, NEW p \in Procs, ProcStep(p), inJob \cap Running = {}
    PROVE  (inJob \cap Running)' = {}
<1>1. TypeOK /\ Born
  BY DEF Inv
<1>2. CASE Begin(p) \/ PipeStep(p)
  <2>1. UNCHANGED <<inJob, proc>>
    BY <1>2 DEF Begin, PipeStep, WriteOutput, ReadInput
  <2> QED BY <2>1 DEF Running
<1>3. CASE Exit(p)
  <2>1. UNCHANGED inJob /\ Running' \subseteq Running
    BY <1>1, <1>3 DEF Exit, Running, TypeOK
  <2> QED BY <2>1
<1>4. ASSUME NEW q \in Descendants, Fork(p, q) PROVE (inJob \cap Running)' = {}
  <2>1. inJob' = inJob /\ q \notin inJob
    BY <1>1, <1>4 DEF Fork, Idle, Born
  <2>2. Running' \subseteq Running \cup {q}
    BY <1>1, <1>4 DEF Fork, Running, TypeOK
  <2> QED BY <2>1, <2>2
<1> QED BY <1>2, <1>3, <1>4 DEF ProcStep

LEMMA JobStep == Inv /\ [Next]_vars => JobInv'
<1> SUFFICES ASSUME Inv, [Next]_vars PROVE JobInv'
  OBVIOUS
<1> USE DEF callerVars, threadVars, procVars, pipeVars, runVars
<1>1. TypeOK /\ Phases /\ JobInv
  BY DEF Inv
<1>2. ASSUME UNCHANGED <<pc, outcome, job, inJob, proc>> PROVE JobInv'
  BY <1>1, <1>2 DEF JobInv, Running
<1>3. CASE Caller
  <2>1. CASE Spawn \/ Assign \/ PollStatus \/ KeepPolling \/ GiveUp
    <3>1. job' = "none" => inJob' = {}
      BY <1>1, <2>1 DEF Spawn, Assign, PollStatus, KeepPolling, GiveUp, JobInv
    <3>2. pc' \notin Stopping
      BY <2>1 DEF Spawn, Assign, PollStatus, KeepPolling, GiveUp, Stopping
    <3> QED BY <3>1, <3>2 DEF JobInv
  <2>2. CASE AssignFails
    BY <1>1, <2>2 DEF AssignFails, JobInv
  <2>3. CASE KillJob
    <3>1. Running' = Running \ inJob /\ UNCHANGED <<job, inJob>>
      BY <1>1, <2>3, KillEffect DEF KillJob
    <3> QED BY <1>1, <3>1 DEF JobInv
  <2>4. CASE KillTree \/ KillTreeFails \/ KillChild
    <3>1. pc \in Stopping /\ UNCHANGED <<outcome, job, inJob>>
      BY <2>4 DEF KillTree, KillTreeFails, KillChild, Stopping
    <3>2. Running' \subseteq Running
      <4>1. (\E dead : Kill(dead)) \/ UNCHANGED proc
        BY <2>4 DEF KillTree, KillTreeFails, KillChild
      <4> QED BY <1>1, <4>1, KillEffect DEF Running
    <3> QED BY <1>1, <3>1, <3>2 DEF JobInv
  <2>5. CASE SpawnFails \/ PollFails \/ Finish \/ ReceiveFails \/ Reap
    <3>1. PICK result : Return(result)
      BY <2>5 DEF SpawnFails, PollFails, Finish, ReceiveFails, Reap
    <3>2. pc' = "returned" /\ (job' = "none" => job = "none") /\ inJob' = inJob
      BY <1>1, <3>1, ReturnEffect
    <3> QED BY <1>1, <3>2 DEF JobInv, Stopping
  <2> QED BY <1>3, <2>1, <2>2, <2>3, <2>4, <2>5 DEF Caller
<1>4. CASE Expire \/ Writer \/ \E s \in Streams : Reader(s) \/ ReaderFails(s)
  BY <1>2, <1>4 DEF Expire, Writer, WriterWrite, WriterEnds, Reader, ReaderRead, ReaderEnds, ReaderFails
<1>5. ASSUME NEW p \in Procs, ProcStep(p) PROVE JobInv'
  <2>1. UNCHANGED <<pc, outcome, job>>
    BY <1>5 DEF ProcStep, Begin, PipeStep, WriteOutput, ReadInput, Exit, Fork
  <2>2. job = "none" => inJob' = {}
    BY <1>1, <1>5 DEF ProcStep, Begin, PipeStep, WriteOutput, ReadInput, Exit, Fork, JobInv
  <2> QED BY <1>1, <1>5, <2>1, <2>2, JobDies DEF JobInv
<1>6. CASE UNCHANGED vars
  BY <1>2, <1>6 DEF vars
<1> QED BY <1>3, <1>4, <1>5, <1>6, Steps

\* Nothing moves once the call has returned, and only the caller returns it
LEMMA Returned ==
    ASSUME Inv, [Next]_vars, pc' = "returned"
    PROVE  \/ UNCHANGED vars
           \/ pc # "returned" /\ (SpawnFails \/ PollFails \/ Finish \/ ReceiveFails \/ Reap)
<1> USE DEF callerVars, threadVars, procVars, pipeVars, runVars
<1>1. CASE Caller
  <2>1. SpawnFails \/ PollFails \/ Finish \/ ReceiveFails \/ Reap
    BY <1>1
    DEF Caller, Spawn, Assign, AssignFails, PollStatus, KeepPolling, GiveUp, KillJob, KillTree,
        KillTreeFails, KillChild
  <2>2. pc # "returned"
    BY <2>1 DEF SpawnFails, PollFails, Finish, ReceiveFails, Reap
  <2> QED BY <2>1, <2>2
<1>2. ASSUME Expire \/ Writer \/ \E s \in Streams : Reader(s) \/ ReaderFails(s) PROVE FALSE
  BY <1>2 DEF Expire, Observed, Writer, WriterWrite, WriterEnds, Reader, ReaderRead, ReaderEnds,
     ReaderFails
<1>3. ASSUME NEW p \in Procs, ProcStep(p) PROVE FALSE
  BY <1>3 DEF Observed, ProcStep, Begin, PipeStep, WriteOutput, ReadInput, Exit, Fork, Idle
<1> QED BY <1>1, <1>2, <1>3, Steps

LEMMA SupervisedStep == Inv /\ [Next]_vars => SupervisedDie' /\ StoppedMeansStopped'
<1> SUFFICES ASSUME Inv, [Next]_vars, pc' = "returned" PROVE SupervisedDie' /\ StoppedMeansStopped'
  BY DEF SupervisedDie, StoppedMeansStopped
<1> USE DEF runVars
<1>1. TypeOK /\ Phases /\ JobInv /\ SupervisedDie /\ StoppedMeansStopped
  BY DEF Inv
<1>2. CASE UNCHANGED vars
  BY <1>1, <1>2
  DEF vars, callerVars, procVars, SupervisedDie, StoppedMeansStopped, Running
<1>3. CASE pc # "returned" /\ (SpawnFails \/ PollFails \/ Finish \/ ReceiveFails \/ Reap)
  <2>1. PICK result : Return(result) /\ (result \in {"timeout", "unsupervised"} => Reap)
    BY <1>3 DEF SpawnFails, PollFails, Finish, ReceiveFails, Reap
  <2>2. /\ outcome' = result /\ mode' = mode /\ inJob' = inJob
        /\ Running' = IF job = "open" /\ mode = "output" THEN Running \ inJob ELSE Running
        /\ \A p \in Procs : proc[p] = "exited" => proc'[p] = "exited"
    BY <1>1, <2>1, ReturnEffect
  <2>3. job \in {"none", "open"}
    BY <1>1, <1>3 DEF Phases, TypeOK
  <2>4. mode = "output" => (inJob \cap Running)' = {}
    BY <1>1, <2>2, <2>3 DEF JobInv
  <2>5. result \in {"timeout", "unsupervised"} =>
            pc = "reap" /\ outcome = result /\ proc[Child] = "exited"
    BY <2>1, <2>2 DEF Reap, Return
  <2>6. result = "timeout" => (inJob \cap Running)' = {}
    BY <1>1, <2>2, <2>5 DEF JobInv, Stopping
  <2>7. result \in {"timeout", "unsupervised"} => proc'[Child] = "exited"
    BY <2>2, <2>5 DEF Procs
  <2> QED BY <2>2, <2>4, <2>6, <2>7 DEF SupervisedDie, StoppedMeansStopped
<1> QED BY <1>2, <1>3, Returned

----------------------------------------------------------------------------
(* The streams *)

\* The arithmetic of one round of a drain thread: c bytes came out so far, n now
LEMMA Retains ==
    ASSUME NEW c \in Nat, NEW n \in Nat,
           NEW kept, kept = Smaller(c, Limit), NEW keep, keep = Smaller(Limit - kept, n)
    PROVE  /\ kept + keep = Smaller(c + n, Limit)
           /\ (c > Limit \/ keep < n) <=> c + n > Limit
BY SizesAssumption DEF Smaller

LEMMA ReadKeeps ==
    ASSUME Inv, NEW s \in Streams, NEW n \in 1..PipeSize, ReaderRead(s, n), NEW t \in Streams
    PROVE  Stream(t)'
<1> USE DEF callerVars, threadVars, procVars, pipeVars, runVars
<1>1. TypeOK /\ Stream(s) /\ Stream(t)
  BY DEF Inv, StreamInv
<1>2. /\ UNCHANGED <<written, reader, holders, proc>>
      /\ pipe[s] \in 0..PipeSize /\ written[s] \in Nat /\ n \in 1..pipe[s]
      /\ s \in Channels /\ t \in Channels /\ reader[s] = "reading"
  BY <1>1 DEF ReaderRead, TypeOK, Channels
<1>3. CASE t # s
  <2>1. UNCHANGED <<pipe[t], retained[t], truncated[t]>>
    BY <1>1, <1>2, <1>3 DEF ReaderRead, TypeOK
  <2> QED BY <1>1, <1>2, <2>1 DEF Stream, Running
<1>4. CASE t = s
  <2> DEFINE c == written[s] - pipe[s]
             keep == Smaller(Limit - retained[s], n)
  <2>1. /\ c \in Nat /\ n \in Nat /\ retained[s] = Smaller(c, Limit)
        /\ truncated[s] = (c > Limit) /\ truncated[s] \in BOOLEAN
    BY <1>1, <1>2 DEF Stream, TypeOK
  <2>2. /\ retained[s] + keep = Smaller(c + n, Limit)
        /\ (c > Limit \/ keep < n) <=> c + n > Limit
    BY <2>1, Retains
  <2>3. pipe'[s] = pipe[s] - n
    BY <1>1, <1>2 DEF ReaderRead, TypeOK
  <2>4. retained'[s] = retained[s] + keep
    BY <1>1 DEF ReaderRead, TypeOK
  <2>5. truncated'[s] <=> (truncated[s] \/ keep < n)
    <3>1. truncated' = [truncated EXCEPT ![s] = @ \/ keep < n]
      BY DEF ReaderRead
    <3> HIDE DEF keep
    <3> QED BY <1>1, <3>1 DEF TypeOK
  <2>6. written'[s] - pipe'[s] = c + n /\ pipe'[s] <= written'[s]
    BY <1>2, <2>1, <2>3
  <2>7. retained'[s] = Smaller(written'[s] - pipe'[s], Limit)
    BY <2>2, <2>4, <2>6
  <2>8. truncated'[s] <=> written'[s] - pipe'[s] > Limit
    BY <2>1, <2>2, <2>5, <2>6
  <2>9. reader'[s] # "ok"
    BY <1>2
  <2> QED BY <1>4, <2>6, <2>7, <2>8, <2>9 DEF Stream
<1> QED BY <1>3, <1>4

LEMMA WriteKeeps ==
    ASSUME Inv, NEW p \in Procs, WriteOutput(p), NEW t \in Streams
    PROVE  Stream(t)'
<1> USE DEF callerVars, threadVars, procVars, pipeVars, runVars
<1>1. TypeOK /\ Stream(t)
  BY DEF Inv, StreamInv
<1>2. UNCHANGED <<reader, retained, truncated, holders, proc>>
  BY DEF WriteOutput
<1>3. t \in Channels /\ pipe[t] \in Nat /\ written[t] \in Nat
  BY <1>1 DEF TypeOK, Channels
<1>4. CASE UNCHANGED <<pipe[t], written[t]>>
  BY <1>1, <1>2, <1>4 DEF Stream, Running
<1>5. CASE ~UNCHANGED <<pipe[t], written[t]>>
  <2>1. /\ pipe'[t] = pipe[t] + 1 /\ written'[t] = written[t] + 1
        /\ reader[t] \in {"idle", "reading"}
    BY <1>1, <1>3, <1>5 DEF WriteOutput, TypeOK
  <2>2. written'[t] - pipe'[t] = written[t] - pipe[t] /\ (pipe[t] <= written[t] => pipe'[t] <= written'[t])
    BY <1>3, <2>1
  <2> QED BY <1>1, <1>2, <2>1, <2>2 DEF Stream
<1> QED BY <1>4, <1>5

LEMMA StreamStep == Inv /\ [Next]_vars => StreamInv'
<1> SUFFICES ASSUME Inv, [Next]_vars, NEW t \in Streams PROVE Stream(t)'
  BY DEF StreamInv
<1> USE DEF callerVars, threadVars, procVars, pipeVars, runVars
<1>1. TypeOK /\ Phases /\ Stream(t)
  BY DEF Inv, StreamInv
<1>2. ASSUME UNCHANGED <<pipe[t], written[t], retained[t], truncated[t]>>,
             reader'[t] = "ok" => reader[t] = "ok"
      PROVE  Stream(t)'
  <2>1. reader[t] = "ok" => pc # "spawn"
    BY <1>1 DEF Phases, Starting
  <2> QED BY <1>1, <1>2, <2>1, HoldersDie DEF Stream
<1>3. CASE Caller
  <2>1. UNCHANGED <<pipe, written, retained, truncated>>
    BY <1>3
    DEF Caller, Spawn, SpawnFails, Assign, AssignFails, PollStatus, PollFails, Finish, ReceiveFails,
        KeepPolling, GiveUp, KillJob, KillTree, KillTreeFails, KillChild, Reap, Return
  <2>2. reader'[t] = "ok" => reader[t] = "ok"
    <3>1. CASE Assign \/ Reap
      BY <1>1, <3>1 DEF Assign, Reap
    <3>2. CASE ~(Assign \/ Reap)
      BY <1>3, <3>2
      DEF Caller, Spawn, SpawnFails, AssignFails, PollStatus, PollFails, Finish, ReceiveFails,
          KeepPolling, GiveUp, KillJob, KillTree, KillTreeFails, KillChild
    <3> QED BY <3>1, <3>2
  <2> QED BY <1>2, <2>1, <2>2
<1>4. CASE Expire
  BY <1>2, <1>4 DEF Expire
<1>5. CASE Writer
  <2>1. UNCHANGED <<written, retained, truncated, reader>>
    BY <1>5 DEF Writer, WriterWrite, WriterEnds
  <2>2. pipe'[t] = pipe[t]
    BY <1>1, <1>5 DEF Writer, WriterWrite, WriterEnds, TypeOK, Streams, Channels
  <2> QED BY <1>2, <2>1, <2>2
<1>6. ASSUME NEW s \in Streams, ReaderEnds(s) PROVE Stream(t)'
  <2>1. UNCHANGED <<pipe, written, retained, truncated, holders, proc>>
    BY <1>6 DEF ReaderEnds
  <2>2. reader'[t] = "ok" => reader[t] = "ok" \/ t = s
    BY <1>1, <1>6 DEF ReaderEnds, TypeOK
  <2>3. t = s => pipe[t] = 0 /\ holders \cap Running = {}
    BY <1>6 DEF ReaderEnds
  <2> QED BY <1>1, <2>1, <2>2, <2>3 DEF Stream, Running
<1>7. ASSUME NEW s \in Streams, ReaderFails(s) PROVE Stream(t)'
  <2>1. UNCHANGED <<pipe, written, retained, truncated>>
    BY <1>7 DEF ReaderFails
  <2>2. reader'[t] = "ok" => reader[t] = "ok"
    BY <1>1, <1>7 DEF ReaderFails, TypeOK
  <2> QED BY <1>2, <2>1, <2>2
<1>8. ASSUME NEW p \in Procs, ProcStep(p) PROVE Stream(t)'
  <2>1. CASE ReadInput(p)
    <3>1. UNCHANGED <<written, retained, truncated, reader>>
      BY <2>1 DEF ReadInput
    <3>2. pipe'[t] = pipe[t]
      BY <1>1, <2>1 DEF ReadInput, TypeOK, Streams, Channels
    <3> QED BY <1>2, <3>1, <3>2
  <2>2. CASE Begin(p) \/ Exit(p) \/ \E q \in Descendants : Fork(p, q)
    BY <1>2, <2>2 DEF Begin, Exit, Fork
  <2> QED BY <1>8, <2>1, <2>2, WriteKeeps DEF ProcStep, PipeStep
<1>9. CASE UNCHANGED vars
  BY <1>2, <1>9 DEF vars
<1> QED BY <1>3, <1>4, <1>5, <1>6, <1>7, <1>8, <1>9, ReadKeeps, Steps DEF Reader

LEMMA OkStep == Inv /\ [Next]_vars => OkIsComplete'
<1> SUFFICES ASSUME Inv, [Next]_vars, outcome' = "ok" PROVE OkIsComplete'
  BY DEF OkIsComplete
<1> USE DEF callerVars, threadVars, procVars, pipeVars, runVars
<1>1. TypeOK /\ StreamInv /\ InputInv /\ OkIsComplete
  BY DEF Inv
<1>2. pc' = "returned"
  <2>1. Phases' /\ TypeOK'
    BY PhasesStep, TypeStep DEF Inv
  <2> QED BY <2>1 DEF Phases, Starting, Waiting, Stopping, TypeOK
<1>3. CASE UNCHANGED vars
  BY <1>1, <1>3 DEF vars, OkIsComplete, Running
<1>4. CASE pc # "returned" /\ (SpawnFails \/ PollFails \/ Finish \/ ReceiveFails \/ Reap)
  <2>1. Finish
    <3>1. ASSUME SpawnFails \/ PollFails \/ ReceiveFails PROVE FALSE
      BY <3>1 DEF SpawnFails, PollFails, ReceiveFails, Return
    <3>2. ASSUME Reap PROVE FALSE
      BY <3>2 DEF Reap, Return, Inv, Phases, Stopping
    <3> QED BY <1>4, <3>1, <3>2
  <2>2. /\ writer # "err" /\ \A s \in Streams : reader[s] # "err"
        /\ Awaited \subseteq Sent
    BY <2>1 DEF Finish, Complete, Return
  <2>3. UNCHANGED <<retained, truncated, writer, inputLeft, holders, written, mode>>
    BY <2>1 DEF Finish, Return
  <2>4. Running' \subseteq Running
    BY <1>1, <2>1, ReturnEffect DEF Finish
  <2>5. ASSUME mode = "output", NEW s \in Streams
        PROVE  reader[s] = "ok"
    BY <2>2, <2>5 DEF Awaited, Sent, Streams
  <2>6. mode = "output" => inputLeft = 0
    BY <1>1, <2>2 DEF Awaited, Sent, Streams, InputInv
  <2>7. ASSUME mode = "output", NEW s \in Streams
        PROVE  /\ retained[s] = Smaller(written[s], Limit)
               /\ truncated[s] <=> written[s] > Limit
               /\ holders \cap Running = {}
    <3>1. Stream(s) /\ pipe[s] = 0 /\ written[s] \in Nat
      BY <1>1, <2>5, <2>7 DEF StreamInv, Stream, TypeOK
    <3>2. written[s] - pipe[s] = written[s]
      BY <3>1
    <3> QED BY <2>5, <2>7, <3>1, <3>2 DEF Stream
  <2> QED BY <2>3, <2>4, <2>6, <2>7 DEF OkIsComplete, Streams
<1> QED BY <1>2, <1>3, <1>4, Returned

----------------------------------------------------------------------------

LEMMA InvInit == Init => Inv
<1> SUFFICES ASSUME Init PROVE Inv
  OBVIOUS
<1>1. TypeOK
  BY TypeInit
<1>2. Phases
  BY DEF Init, Phases, Starting, Waiting, Stopping
<1>3. StreamInv
  BY SizesAssumption DEF Init, StreamInv, Stream, Smaller, Channels
<1>4. Born /\ InputInv /\ JobInv
  BY DEF Init, Born, InputInv, JobInv, Stopping
<1>5. OkIsComplete /\ SupervisedDie /\ StoppedMeansStopped
  BY DEF Init, OkIsComplete, SupervisedDie, StoppedMeansStopped
<1> QED BY <1>1, <1>2, <1>3, <1>4, <1>5 DEF Inv

LEMMA InvStep == Inv /\ [Next]_vars => Inv'
BY TypeStep, PhasesStep, BornStep, StreamStep, InputStep, JobStep, OkStep, SupervisedStep DEF Inv

LEMMA Invariant == Spec => []Inv
BY InvInit, InvStep, PTL DEF Spec

(***************************************************************************)
(* Output that is handed over is complete: nobody is left who could write, *)
(* each stream was kept up to the limit and the flag says whether that was *)
(* all (process.rs:217-232 and 297-337).                                   *)
(***************************************************************************)
THEOREM OkOutputComplete == Spec => []OkIsComplete
<1>1. Inv => OkIsComplete
  BY DEF Inv
<1> QED BY <1>1, Invariant, PTL

(***************************************************************************)
(* Nothing in the job survives run_bounded, nor a timeout of either        *)
(* runner, whatever it forked (process.rs:135-157, 248-260 and 314-324).   *)
(***************************************************************************)
THEOREM JobDiesWithCall == Spec => []SupervisedDie
<1>1. Inv => SupervisedDie
  BY DEF Inv
<1> QED BY <1>1, Invariant, PTL

(***************************************************************************)
(* A timeout, and an error about supervision, is reported after the child  *)
(* has been waited for (process.rs:189-196, 205-212, 251-258, 314-324).    *)
(***************************************************************************)
THEOREM ChildIsReaped == Spec => []StoppedMeansStopped
<1>1. Inv => StoppedMeansStopped
  BY DEF Inv
<1> QED BY <1>1, Invariant, PTL
=============================================================================
