---------------------------- MODULE Measurement ----------------------------
(***************************************************************************)
(* Invocations of one command plan from the evidence on disk, run with a   *)
(* scratch database that RTK counts into, file a row of the ledger and add *)
(* their sample to the evidence.  Between the plan and the sample others   *)
(* record theirs, the context changes, a policy is imported, and `metrics  *)
(* purge` removes the ledger, the template and the scratch databases.      *)
(*                                                                         *)
(* Every step on one database or under the lock of a file is one action;   *)
(* two steps of an invocation are never one.                               *)
(***************************************************************************)
EXTENDS Calibration, Integers, FiniteSets

CONSTANTS
    Invocations,
    MetricsOn,      \* XUVA_METRICS=on in a context
    MaxRows,        \* MAX_LEDGER_INVOCATIONS
    RawTime,        \* how long a run takes without RTK, by its number
    NativeSample,   \* what it takes, reads and saves through RTK
    Evidence,       \* what a benchmark may have found
    MaxRuns,        \* bound of the model: runs of the command
    MaxMishaps,     \* bound of the model: failures, purges, crashes, imports, new contexts
    Calm            \* bound of the model: no mishap begins, or purge goes on, once so many
                    \* runs have begun

ASSUME InvocationsAssumption == IsFiniteSet(Invocations)
ASSUME MetricsAssumption == MetricsOn \in [Contexts -> BOOLEAN]
ASSUME SampleAssumption ==
    /\ RawTime \in [1..MaxRuns -> Nat]
    /\ NativeSample \in [1..MaxRuns -> [ms : Nat, input : Nat, saved : Nat]]
ASSUME MaxRowsAssumption == MaxRows \in Nat \ {0}
ASSUME BoundAssumption == MaxRuns \in Nat /\ MaxMishaps \in Nat /\ Calm \in Nat

VARIABLES
    context,    \* the adaptive context of now
    entry,      \* the entry of the signature in calibration-v3.json
    policy,     \* route-policy-v2.json
    template,   \* tracker-template-v2.sqlite: absent, bare, view (no triggers yet), ready
    folder,     \* the scratch directory exists
    ledger,     \* metrics-v1.sqlite: [table, rows], a set of rows [id, run]
    inv,        \* the state of every invocation
    purge,      \* what a purge still has to remove
    runs,       \* bound: runs so far
    mishaps,    \* bound: mishaps so far
    history,    \* history variable: what was recorded since another context gave way
    filed       \* history variable: the runs filed since the ledger was made

files == <<template, folder, ledger>>
vars == <<context, entry, policy, files, inv, purge, runs, mishaps, history, filed>>

----------------------------------------------------------------------------
(* State *)

NoSample == [ms |-> 0, input |-> 0, saved |-> 0]

\* tracker: RTK is to count into scratch; persist: the run gets a row of the ledger
\* spoilt: its counters were at the mercy of a purge or of an unfinished template
Idle == [pc |-> "idle", run |-> 0, route |-> "none", adapter |-> "none", context |-> "none",
         calibrated |-> FALSE, chosen |-> FALSE, tracker |-> FALSE, persist |-> FALSE,
         scratch |-> "none", counted |-> FALSE, exit |-> 0, sample |-> NoSample,
         totals |-> NoSample, spoilt |-> FALSE]

NoLedger == [table |-> FALSE, rows |-> {}]

\* The samples of either route, and how many of them calibration itself had asked for
Unrecorded(c) == [context |-> c, raw |-> <<>>, native |-> <<>>, chosen |-> 0]

Init ==
    /\ context \in Contexts
    /\ entry = NoEntry /\ policy = NoPolicy
    /\ template = "absent" /\ folder = FALSE
    /\ ledger = NoLedger
    /\ inv = [i \in Invocations |-> Idle]
    /\ purge = "idle"
    /\ runs = 0 /\ mishaps = 0
    /\ history = Unrecorded("none") /\ filed = <<>>

Set(i, r) == inv' = [inv EXCEPT ![i] = r]
Mishap == mishaps < MaxMishaps /\ runs < Calm /\ mishaps' = mishaps + 1

\* A mishap or none
Perhaps(mishap) == IF mishap THEN Mishap ELSE UNCHANGED mishaps

----------------------------------------------------------------------------
(* An invocation *)

\* Where dispatch takes a route: it stays, moves to WSL, or finds no tool beside RTK
\* on Windows and runs RTK under the name of the raw route
Dispatched(route) ==
    {[route |-> route, adapter |-> IF route = "raw" THEN "raw" ELSE "rtk"],
     [route |-> "wsl1", adapter |-> "rtk"], [route |-> "raw", adapter |-> "rtk"]}

\* A policy for the command itself keeps calibration out; the other one only replaces
\* the choice
Plan(i) ==
    /\ inv[i].pc = "idle" /\ runs < MaxRuns
    /\ runs >= Calm => purge = "idle"
    /\ LET imposed == RouteFor(policy, "command", context)
           preferred == RouteFor(policy, "kind", context)
           route == CASE imposed # "none" -> imposed
                      [] imposed = "none" /\ preferred # "none" -> preferred
                      [] OTHER -> NextRoute(entry, context)
       IN  \E d \in Dispatched(route) :
             LET diverted == d # [route |-> route, adapter |-> IF route = "raw" THEN "raw" ELSE "rtk"]
             IN  /\ Set(i, [Idle EXCEPT !.pc = "begin", !.run = runs + 1, !.context = context,
                                        !.route = d.route, !.adapter = d.adapter,
                                        !.calibrated = imposed = "none",
                                        !.chosen = /\ imposed = "none" /\ preferred = "none"
                                                   /\ ~diverted])
                 /\ Perhaps(diverted)
    /\ runs' = runs + 1
    /\ UNCHANGED <<context, entry, policy, files, purge, history, filed>>

\* Without metrics a raw run needs nothing, nor does one that is no evidence
Unmeasured(r) == ~MetricsOn[r.context] /\ (r.adapter = "raw" \/ ~r.calibrated)

\* The sweep of files a day old may hit a run that takes that long
Swept(j, r) == [r EXCEPT !.scratch = "none", !.counted = FALSE, !.spoilt = TRUE]
HasScratch(r) == r.scratch # "none"

\* CREATE TABLE IF NOT EXISTS
InitializedLedger == [ledger EXCEPT !.table = TRUE]

Begin(i) ==
    /\ inv[i].pc = "begin"
    /\ IF Unmeasured(inv[i])
       THEN Set(i, [inv[i] EXCEPT !.pc = "run"]) /\ UNCHANGED <<files, filed, mishaps>>
       ELSE /\ folder' = TRUE
            /\ \E old \in SUBSET {j \in Invocations \ {i} : HasScratch(inv[j])} :
                 /\ Perhaps(old # {})
                 /\ inv' = [j \in Invocations |->
                              CASE j \in old -> Swept(j, inv[j])
                                [] j # i /\ j \notin old -> inv[j]
                                [] OTHER -> [inv[i] EXCEPT
                                     !.persist = MetricsOn[inv[i].context],
                                     !.tracker = inv[i].adapter = "rtk",
                                     !.pc = CASE inv[i].adapter = "raw" -> "run"
                                              [] inv[i].adapter = "rtk" /\ template = "absent" -> "template"
                                              [] OTHER -> "copy"]]
            /\ template' = IF inv[i].adapter = "rtk" /\ template = "absent" THEN "bare" ELSE template
            /\ ledger' = IF inv[i].adapter = "raw" THEN InitializedLedger ELSE ledger
            /\ UNCHANGED filed
    /\ UNCHANGED <<context, entry, policy, purge, runs, history>>

\* The statements of the template's schema are committed one by one
InitializeTemplate(i) ==
    /\ inv[i].pc = "template"
    /\ template' = IF template = "bare" THEN "view" ELSE "ready"
    /\ Set(i, [inv[i] EXCEPT !.pc = IF template = "bare" THEN "template" ELSE "copy"])
    /\ UNCHANGED <<context, entry, policy, folder, ledger, purge, runs, mishaps,
                   history, filed>>

\* A template or a directory that is gone by now leaves the run without metrics
Copy(i) ==
    /\ inv[i].pc = "copy"
    /\ IF template # "absent" /\ folder
       THEN /\ Set(i, [inv[i] EXCEPT !.pc = "run", !.scratch = template,
                                     !.spoilt = @ \/ template # "ready"])
            /\ ledger' = IF inv[i].persist THEN InitializedLedger ELSE ledger
       ELSE /\ Set(i, [inv[i] EXCEPT !.pc = "run", !.tracker = FALSE, !.persist = FALSE,
                                     !.spoilt = TRUE])
            /\ UNCHANGED ledger
    /\ UNCHANGED <<context, entry, policy, template, folder, purge, runs, mishaps,
                   history, filed>>

\* What RTK may leave behind: it counts into a whole scratch database, cannot into a view
\* without triggers, and makes its own tables, or none, where there is no schema
Counts(r) ==
    CASE r.adapter = "raw" \/ ~r.tracker \/ r.scratch = "view" -> {FALSE}
      [] r.adapter = "rtk" /\ r.tracker /\ r.scratch = "ready" -> {TRUE}
      [] OTHER -> BOOLEAN
Taken(r) ==
    IF r.adapter = "raw" THEN [NoSample EXCEPT !.ms = RawTime[r.run]] ELSE NativeSample[r.run]

\* The command runs; native RTK that is not there falls back to WSL1
Run(i) ==
    /\ inv[i].pc = "run"
    /\ \E exit \in {0, 1}, fallback \in BOOLEAN, c \in Counts(inv[i]) :
         /\ fallback => inv[i].route = "native-rtk"
         /\ Perhaps(exit # 0 \/ fallback)
         /\ Set(i, [inv[i] EXCEPT !.pc = "finish", !.exit = exit, !.sample = Taken(inv[i]), !.counted = c,
                                  !.route = IF fallback THEN "wsl1" ELSE @,
                                  !.scratch = IF @ = "none" /\ c THEN "own" ELSE @])
    /\ UNCHANGED <<context, entry, policy, files, purge, runs, history, filed>>

\* A scratch database that is gone, or that RTK could not count into, adds up to nothing
Counters(r) == IF r.counted /\ HasScratch(r) THEN r.sample ELSE NoSample

LastId(rows) == IF rows = {} THEN 0 ELSE Max({row.id : row \in rows})

\* Mutant: the rows to go are chosen before the new one is in
Filed_Early(rows, run) ==
    {row \in rows : row.id > LastId(rows) - MaxRows} \cup {[id |-> LastId(rows) + 1, run |-> run]}

\* INSERT, then DELETE of all but the newest MaxRows
Filed(rows, run) ==
    LET new == LastId(rows) + 1
    IN  {row \in rows \cup {[id |-> new, run |-> run]} : row.id > new - MaxRows}

\* Reads the counters, files a row and prunes in one transaction, drops the scratch database
Finish(i) ==
    /\ inv[i].pc = "finish"
    /\ LET fails == inv[i].persist /\ ~ledger.table
       IN  /\ Set(i, [inv[i] EXCEPT !.pc = "record", !.scratch = "none",
                                    !.totals = IF fails THEN NoSample ELSE Counters(inv[i])])
           /\ IF inv[i].persist /\ ~fails
              THEN /\ ledger' = [ledger EXCEPT !.rows = Filed(@, inv[i].run)]
                   /\ filed' = Append(filed, inv[i].run)
              ELSE UNCHANGED <<ledger, filed>>
    /\ UNCHANGED <<context, entry, policy, template, folder, purge, runs, mishaps, history>>

\* The sample as it is kept: the time of this process, the tokens of the counters
Kept(r) == [r.totals EXCEPT !.ms = r.sample.ms]

Noted(r) ==
    LET own == IF history.context = r.context THEN history ELSE Unrecorded(r.context)
        new == [sample |-> r.sample, spoilt |-> r.spoilt]
        chosen == own.chosen + (IF r.chosen THEN 1 ELSE 0)
    IN  IF r.route = "raw" THEN [own EXCEPT !.raw = Append(@, new), !.chosen = chosen]
                           ELSE [own EXCEPT !.native = Append(@, new), !.chosen = chosen]

Record(i) ==
    /\ inv[i].pc = "record"
    /\ IF inv[i].calibrated /\ IsEvidence(inv[i].exit, inv[i].route)
       THEN /\ entry' = Recorded(entry, inv[i].context, inv[i].route, Kept(inv[i]))
            /\ history' = Noted(inv[i])
       ELSE UNCHANGED <<entry, history>>
    /\ Set(i, Idle)
    /\ UNCHANGED <<context, policy, files, purge, runs, mishaps, filed>>

----------------------------------------------------------------------------
(* Everything else *)

\* The process is killed; its scratch database stays until a sweep
Crash(i) ==
    /\ inv[i].pc # "idle" /\ Mishap
    /\ Set(i, Idle)
    /\ UNCHANGED <<context, entry, policy, files, purge, runs, history, filed>>

\* A new PATH, setting or release
Switch ==
    /\ Mishap
    /\ context' \in Contexts \ {context}
    /\ UNCHANGED <<entry, policy, files, inv, purge, runs, history, filed>>

Import ==
    /\ Mishap
    /\ \E from \in Contexts, k \in Keys, e \in Evidence :
         /\ MayImport(policy, from, e, context)
         /\ policy' = Merged(policy, from, k, e)
    /\ UNCHANGED <<context, entry, files, inv, purge, runs, history, filed>>

\* Who is under way when something of the metrics is removed cannot rely on its counters
Disturbed == [i \in Invocations |-> [inv[i] EXCEPT !.spoilt = inv[i].pc # "idle"]]

PurgeLedger ==
    /\ purge = "idle" /\ Mishap
    /\ ledger' = NoLedger /\ filed' = <<>>
    /\ inv' = Disturbed
    /\ purge' = "template"
    /\ UNCHANGED <<context, entry, policy, template, folder, runs, history>>

\* A template somebody has open cannot be removed, and the purge ends there
PurgeTemplate ==
    /\ purge = "template"
    /\ IF \E i \in Invocations : inv[i].pc = "template"
       THEN purge' = "idle" /\ UNCHANGED <<template, inv>>
       ELSE purge' = "scratch" /\ template' = "absent" /\ inv' = Disturbed
    /\ UNCHANGED <<context, entry, policy, folder, ledger, runs, mishaps, history, filed>>

\* Nor can a scratch database RTK has open; the directory goes when nothing is left in it
PurgeScratch ==
    /\ purge = "scratch"
    /\ \E open \in SUBSET {i \in Invocations : HasScratch(inv[i]) /\ inv[i].pc = "run"} :
         /\ inv' = [i \in Invocations |->
                      IF i \notin open /\ HasScratch(inv[i]) THEN Swept(i, inv[i]) ELSE Disturbed[i]]
         /\ folder' = (folder /\ open # {})
    /\ purge' = "idle"
    /\ UNCHANGED <<context, entry, policy, template, ledger, runs, mishaps, history, filed>>

Step(i) ==
    \/ Plan(i) \/ Begin(i) \/ InitializeTemplate(i) \/ Copy(i) \/ Run(i) \/ Finish(i) \/ Record(i)
    \/ Crash(i)

Next ==
    \/ \E i \in Invocations : Step(i)
    \/ Switch \/ Import \/ PurgeLedger \/ PurgeTemplate \/ PurgeScratch

Spec == Init /\ [][Next]_vars

----------------------------------------------------------------------------
(* Types *)

Sample == [ms : Nat, input : Nat, saved : Nat]
States ==
    [pc : {"idle", "begin", "template", "copy", "run", "finish", "record"},
     run : 0..MaxRuns, route : {"none", "raw", "native-rtk", "wsl1"},
     adapter : {"none", "raw", "rtk"}, context : Contexts \cup {"none"},
     calibrated : BOOLEAN, chosen : BOOLEAN, tracker : BOOLEAN, persist : BOOLEAN,
     scratch : {"none", "bare", "view", "ready", "own"}, counted : BOOLEAN, exit : {0, 1},
     sample : Sample, totals : Sample, spoilt : BOOLEAN]
Begun(r) == r.run # 0 /\ r.context # "none" /\ r.route # "none" /\ r.adapter # "none"

Entries == [context : Contexts \cup {"none"}, raw : Seq(Nat), native : Seq(Sample)]
Note == [sample : Sample, spoilt : BOOLEAN]
Histories ==
    [context : Contexts \cup {"none"}, raw : Seq(Note), native : Seq(Note), chosen : Nat]

(***************************************************************************)
(* Every variable keeps its type, and a run that began has been planned.   *)
(***************************************************************************)
TypeOK ==
    /\ context \in Contexts
    /\ entry \in Entries
    /\ policy \in [context : Contexts \cup {"none"}, evidence : [Keys -> Evidence \cup {NoEvidence}]]
    /\ template \in {"absent", "bare", "view", "ready"} /\ folder \in BOOLEAN
    /\ ledger \in [table : BOOLEAN, rows : SUBSET [id : Nat, run : 1..MaxRuns]]
    /\ inv \in [Invocations -> States]
    /\ \A i \in Invocations : inv[i].pc # "idle" => Begun(inv[i])
    /\ purge \in {"idle", "template", "scratch"}
    /\ runs \in 0..MaxRuns /\ mishaps \in 0..MaxMishaps
    /\ history \in Histories
    /\ filed \in Seq(1..MaxRuns)

----------------------------------------------------------------------------
(* Properties *)

\* The last n elements of s, and their positions
End(s, n) == SubSeq(s, IF Len(s) > n THEN Len(s) - n + 1 ELSE 1, Len(s))
Latest(s, n) == {m \in DOMAIN s : m > Len(s) - n}

(***************************************************************************)
(* The evidence of a route is the newest MaxSamples of the runs recorded   *)
(* for it since another context last had the entry, in their order,        *)
(* whichever invocation ran them and in which context it now is; and the   *)
(* tokens of a sample are those of its own run unless a purge, a sweep or  *)
(* an unfinished template came between.                                    *)
(***************************************************************************)
SamplesAreLatest ==
    LET raw == End(history.raw, MaxSamples)
        native == End(history.native, MaxSamples)
    IN  /\ entry.context = history.context
        /\ entry.raw = [n \in DOMAIN raw |-> raw[n].sample.ms]
        /\ DOMAIN entry.native = DOMAIN native
        /\ \A n \in DOMAIN native :
             /\ entry.native[n].ms = native[n].sample.ms
             /\ ~native[n].spoilt => entry.native[n] = native[n].sample

(***************************************************************************)
(* calibration_plan asks for what the entry lacks, so few runs make it     *)
(* stable: four leave a lone caller one short, and every further caller    *)
(* can add no more than one run it planned before the others' were there.  *)
(***************************************************************************)
StabilisesInFew ==
    Phase(entry) # "stable" => history.chosen <= 3 + Cardinality(Invocations)

(***************************************************************************)
(* The ledger holds the newest MaxRows of the runs that finished since it  *)
(* was made, numbered in the order they finished, though invocations       *)
(* start, end and purge it in any order.                                   *)
(***************************************************************************)
LedgerKeepsNewest ==
    ledger.rows = {[id |-> n, run |-> filed[n]] : n \in Latest(filed, MaxRows)}
=============================================================================
