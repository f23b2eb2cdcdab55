------------------------- MODULE MeasurementProofs -------------------------
(***************************************************************************)
(* What the evidence and the ledger say, for any number of invocations,    *)
(* contexts and runs, and every objective.                                 *)
(*                                                                         *)
(* Sound: a run nothing disturbed has its scratch database and its table   *)
(* at every line that relies on them.  Matches: a sample that is added to  *)
(* the newest of a sequence leaves the newest of the longer one.  Few: as  *)
(* long as one kind of run is missing, calibration asks for no more of the *)
(* other, so those asked for and not yet recorded are all that can come.   *)
(***************************************************************************)
EXTENDS Measurement, FiniteSetTheorems, SequenceTheorems, TLAPS

----------------------------------------------------------------------------
(* Types *)

LEMMA IdleType == NoSample \in Sample /\ Idle \in States /\ Idle.pc = "idle"
BY BoundAssumption DEF NoSample, Sample, Idle, States

LEMMA Elements ==
    ASSUME NEW S, NEW s \in Seq(S) PROVE \A n \in DOMAIN s : n \in Nat /\ s[n] \in S
OBVIOUS

\* An invocation whose state is replaced by another of the type
LEMMA SetType ==
    ASSUME TypeOK, NEW i \in Invocations, NEW r \in States, Set(i, r),
           r.pc # "idle" => Begun(r)
    PROVE  /\ inv' \in [Invocations -> States]
           /\ \A j \in Invocations : inv'[j].pc # "idle" => Begun(inv'[j])
BY DEF TypeOK, Set

LEMMA SelectType == ASSUME NEW a, NEW b, NEW c, NEW d PROVE Select(a, b, c, d) \in {"raw", "native-rtk"}
BY DEF Select

LEMMA NextRouteType == ASSUME NEW e, NEW c PROVE NextRoute(e, c) \in {"raw", "native-rtk"}
BY SelectType DEF NextRoute, SelectedRoute

LEMMA RouteForType ==
    ASSUME NEW p, NEW k, NEW c PROVE RouteFor(p, k, c) \in {"none", "raw", "native-rtk"}
BY SelectType DEF RouteFor

LEMMA NewestType ==
    ASSUME NEW S, NEW s \in Seq(S) PROVE Newest(s) \in Seq(S)
BY MaxSamplesAssumption DEF Newest

LEMMA KeptType == ASSUME NEW r \in States PROVE Kept(r) \in Sample
BY DEF Kept, States, Sample

LEMMA RecordedType ==
    ASSUME NEW e \in Entries,
           NEW c \in Contexts \cup {"none"}, NEW route, NEW s \in Sample
    PROVE  Recorded(e, c, route, s) \in Entries
<1> DEFINE own == IF e.context = c THEN e ELSE EmptyEntry(c)
<1>1. own \in Entries
  <2>1. EmptyEntry(c) = [context |-> c, raw |-> <<>>, native |-> <<>>]
    BY DEF EmptyEntry, NoEntry
  <2> QED
    BY <2>1 DEF Entries
<1>2. s.ms \in Nat
  BY DEF Sample
<1>3. Append(own.raw, s.ms) \in Seq(Nat) /\ Append(own.native, s) \in Seq(Sample)
  BY <1>1, <1>2 DEF Entries
<1>4. Newest(Append(own.raw, s.ms)) \in Seq(Nat) /\ Newest(Append(own.native, s)) \in Seq(Sample)
  BY <1>3, NewestType
<1>5. Recorded(e, c, route, s) =
        IF route = "raw" THEN [own EXCEPT !.raw = Newest(Append(own.raw, s.ms))]
                         ELSE [own EXCEPT !.native = Newest(Append(own.native, s))]
  BY <1>1 DEF Recorded
<1> QED
  BY <1>1, <1>4, <1>5 DEF Entries


LEMMA NotedType ==
    ASSUME history \in Histories, NEW r \in States
    PROVE  Noted(r) \in Histories
<1> DEFINE own == IF history.context = r.context THEN history ELSE Unrecorded(r.context)
           new == [sample |-> r.sample, spoilt |-> r.spoilt]
           chosen == own.chosen + (IF r.chosen THEN 1 ELSE 0)
<1>1. own \in Histories
  BY DEF Unrecorded, Histories, States
<1>2. new \in Note
  BY DEF Note, States
<1>3. Append(own.raw, new) \in Seq(Note) /\ Append(own.native, new) \in Seq(Note)
  BY <1>1, <1>2 DEF Histories
<1>4. chosen \in Nat
  BY <1>1 DEF Histories
<1>5. Noted(r) = IF r.route = "raw"
                 THEN [own EXCEPT !.raw = Append(own.raw, new), !.chosen = chosen]
                 ELSE [own EXCEPT !.native = Append(own.native, new), !.chosen = chosen]
  BY <1>1 DEF Noted, Histories
<1> QED
  BY <1>1, <1>3, <1>4, <1>5 DEF Histories

LEMMA TypeInit == Init => TypeOK
<1> SUFFICES ASSUME Init PROVE TypeOK
  OBVIOUS
<1>1. entry \in Entries
  BY DEF Init, NoEntry, Entries
<1>2. policy \in [context : Contexts \cup {"none"}, evidence : [Keys -> Evidence \cup {NoEvidence}]]
  BY DEF Init, NoPolicy, Keys
<1>3. ledger \in [table : BOOLEAN, rows : SUBSET [id : Nat, run : 1..MaxRuns]]
  BY DEF Init, NoLedger
<1>4. history \in Histories
  BY DEF Init, Unrecorded, Histories
<1> QED
  <2>1. inv \in [Invocations -> States] /\ \A i \in Invocations : inv[i].pc = "idle"
    BY IdleType DEF Init
  <2>2. filed \in Seq(1..MaxRuns) /\ runs \in 0..MaxRuns /\ mishaps \in 0..MaxMishaps
    BY BoundAssumption DEF Init
  <2>3. /\ context \in Contexts
        /\ template \in {"absent", "bare", "view", "ready"} /\ folder \in BOOLEAN
        /\ purge \in {"idle", "template", "scratch"}
    BY DEF Init
  <2> QED
    BY <1>1, <1>2, <1>3, <1>4, <2>1, <2>2, <2>3 DEF TypeOK

\* The part of TypeOK that nearly every step changes
InvType ==
    /\ inv \in [Invocations -> States]
    /\ \A j \in Invocations : inv[j].pc # "idle" => Begun(inv[j])

LEMMA PlanType == ASSUME TypeOK, NEW i \in Invocations, Plan(i) PROVE TypeOK'
<1>1. runs < MaxRuns /\ runs' = runs + 1
  BY DEF Plan
<1> DEFINE imposed == RouteFor(policy, "command", context)
           preferred == RouteFor(policy, "kind", context)
           route == CASE imposed # "none" -> imposed
                      [] imposed = "none" /\ preferred # "none" -> preferred
                      [] OTHER -> NextRoute(entry, context)
<1>2. route \in {"raw", "native-rtk"}
  BY NextRouteType, RouteForType
<1>3. PICK d \in Dispatched(route) :
        LET diverted == d # [route |-> route, adapter |-> IF route = "raw" THEN "raw" ELSE "rtk"]
        IN /\ Set(i, [Idle EXCEPT !.pc = "begin", !.run = runs + 1, !.context = context,
                                  !.route = d.route, !.adapter = d.adapter,
                                  !.calibrated = imposed = "none",
                                  !.chosen = /\ imposed = "none" /\ preferred = "none"
                                             /\ ~diverted])
           /\ Perhaps(diverted)
  BY DEF Plan
<1>4. d.route \in {"raw", "native-rtk", "wsl1"} /\ d.adapter \in {"raw", "rtk"}
  BY <1>2 DEF Dispatched
<1> DEFINE calibrated == imposed = "none"
           chosen == /\ imposed = "none" /\ preferred = "none"
                     /\ ~(d # [route |-> route, adapter |-> IF route = "raw" THEN "raw" ELSE "rtk"])
           r == [Idle EXCEPT !.pc = "begin", !.run = runs + 1, !.context = context,
                             !.route = d.route, !.adapter = d.adapter,
                             !.calibrated = calibrated, !.chosen = chosen]
<1>5. runs + 1 \in 1..MaxRuns /\ context \in Contexts
  BY <1>1, BoundAssumption DEF TypeOK
<1>6. r \in States /\ Begun(r)
  <2>1. calibrated \in BOOLEAN /\ chosen \in BOOLEAN
    OBVIOUS
  <2> HIDE DEF calibrated, chosen
  <2>2. runs + 1 # 0 /\ runs + 1 \in 0..MaxRuns /\ context # "none"
    BY <1>5, BoundAssumption, ContextsAssumption
  <2>3. r \in States
    BY ZenonT(60), <1>4, <1>5, <2>1, <2>2, IdleType DEF States
  <2>4. Begun(r)
    BY <1>4, <1>5, <2>2, IdleType DEF States, Begun
  <2> QED
    BY <2>3, <2>4
<1> HIDE DEF r
<1>7. Set(i, r)
  BY <1>3 DEF r
<1>8. InvType'
  BY <1>6, <1>7, SetType DEF InvType
<1>9. mishaps' \in 0..MaxMishaps
  BY <1>3, BoundAssumption DEF Perhaps, Mishap, TypeOK
<1> QED
  BY <1>1, <1>5, <1>8, <1>9, BoundAssumption DEF Plan, TypeOK, files, InvType

LEMMA SweptType ==
    ASSUME NEW r \in States, NEW j
    PROVE  Swept(j, r) \in States /\ (Begun(r) => Begun(Swept(j, r))) /\ Swept(j, r).pc = r.pc
BY ZenonT(60) DEF Swept, States, Begun

LEMMA BeginType == ASSUME TypeOK, NEW i \in Invocations, Begin(i) PROVE TypeOK'
<1>0. inv[i] \in States /\ Begun(inv[i])
  BY DEF TypeOK, Begin
<1>1. CASE Unmeasured(inv[i])
  <2> DEFINE r == [inv[i] EXCEPT !.pc = "run"]
  <2>1. Set(i, r) /\ UNCHANGED <<files, filed, mishaps>>
    BY <1>1 DEF Begin
  <2>2. r \in States /\ Begun(r)
    BY <1>0 DEF States, Begun
  <2> HIDE DEF r
  <2>3. InvType'
    BY <2>1, <2>2, SetType DEF InvType
  <2> QED
    BY <2>1, <2>3 DEF Begin, TypeOK, files, InvType
<1>2. CASE ~Unmeasured(inv[i])
  <2> DEFINE mine == [inv[i] EXCEPT
                        !.persist = MetricsOn[inv[i].context],
                        !.tracker = inv[i].adapter = "rtk",
                        !.pc = CASE inv[i].adapter = "raw" -> "run"
                                 [] inv[i].adapter = "rtk" /\ template = "absent" -> "template"
                                 [] OTHER -> "copy"]
  <2>1. PICK old \in SUBSET {j \in Invocations \ {i} : HasScratch(inv[j])} :
          /\ Perhaps(old # {})
          /\ inv' = [j \in Invocations |->
                       CASE j \in old -> Swept(j, inv[j])
                         [] j # i /\ j \notin old -> inv[j]
                         [] OTHER -> mine]
    BY <1>2 DEF Begin
  <2>2. MetricsOn[inv[i].context] \in BOOLEAN
    BY <1>0, MetricsAssumption DEF States, Begun
  <2>3. mine \in States /\ Begun(mine)
    BY ZenonT(60), <1>0, <2>2 DEF States, Begun
  <2>4. \A j \in Invocations : Swept(j, inv[j]) \in States /\ (Begun(inv[j]) => Begun(Swept(j, inv[j])))
                               /\ Swept(j, inv[j]).pc = inv[j].pc
    <3>1. \A j \in Invocations : inv[j] \in States
      BY DEF TypeOK
    <3> QED
      BY <3>1, SweptType
  <2> HIDE DEF mine
  <2>5. InvType'
    BY <2>1, <2>3, <2>4 DEF InvType, TypeOK
  <2>6. mishaps' \in 0..MaxMishaps
    BY <2>1, BoundAssumption DEF Perhaps, Mishap, TypeOK
  <2>7. /\ folder' \in BOOLEAN /\ template' \in {"absent", "bare", "view", "ready"}
        /\ ledger' \in [table : BOOLEAN, rows : SUBSET [id : Nat, run : 1..MaxRuns]]
        /\ filed' = filed
    BY <1>2 DEF Begin, TypeOK, InitializedLedger
  <2> QED
    BY <2>5, <2>6, <2>7 DEF Begin, TypeOK, InvType
<1> QED
  BY <1>1, <1>2

LEMMA InitializeTemplateType ==
    ASSUME TypeOK, NEW i \in Invocations, InitializeTemplate(i) PROVE TypeOK'
<1> DEFINE r == [inv[i] EXCEPT !.pc = IF template = "bare" THEN "template" ELSE "copy"]
<1>0. inv[i] \in States /\ Begun(inv[i])
  BY DEF TypeOK, InitializeTemplate
<1>1. r \in States /\ Begun(r)
  BY <1>0 DEF States, Begun
<1>2. Set(i, r)
  BY DEF InitializeTemplate
<1> HIDE DEF r
<1>3. InvType'
  BY <1>1, <1>2, SetType DEF InvType
<1>4. template' \in {"absent", "bare", "view", "ready"}
  BY DEF InitializeTemplate
<1> QED
  BY <1>3, <1>4 DEF InitializeTemplate, TypeOK, InvType

LEMMA CopyType == ASSUME TypeOK, NEW i \in Invocations, Copy(i) PROVE TypeOK'
<1> DEFINE r == [inv[i] EXCEPT !.pc = "run", !.scratch = template, !.spoilt = @ \/ template # "ready"]
           q == [inv[i] EXCEPT !.pc = "run", !.tracker = FALSE, !.persist = FALSE, !.spoilt = TRUE]
<1>0. inv[i] \in States /\ Begun(inv[i]) /\ template \in {"absent", "bare", "view", "ready"}
  BY DEF TypeOK, Copy
<1>1. template # "absent" => r \in States /\ Begun(r)
  <2>1. (inv[i].spoilt \/ template # "ready") \in BOOLEAN
    OBVIOUS
  <2> QED
    BY <1>0, <2>1 DEF States, Begun
<1>2. q \in States /\ Begun(q)
  BY ZenonT(60), <1>0 DEF States, Begun
<1>3. \/ template # "absent" /\ Set(i, r)
      \/ Set(i, q)
  BY DEF Copy
<1>4. ledger' \in [table : BOOLEAN, rows : SUBSET [id : Nat, run : 1..MaxRuns]]
  BY DEF Copy, TypeOK, InitializedLedger
<1> HIDE DEF r, q
<1>5. InvType'
  BY <1>1, <1>2, <1>3, SetType DEF InvType
<1> QED
  BY <1>4, <1>5 DEF Copy, TypeOK, InvType

LEMMA RanType ==
    ASSUME NEW s \in States, NEW exit \in {0, 1}, NEW t \in Sample, NEW c \in BOOLEAN,
           NEW route \in {"none", "raw", "native-rtk", "wsl1"},
           NEW scratch \in {"none", "bare", "view", "ready", "own"}
    PROVE  [s EXCEPT !.pc = "finish", !.exit = exit, !.sample = t, !.counted = c,
                     !.route = route, !.scratch = scratch] \in States
BY ZenonT(60) DEF States

LEMMA RunType == ASSUME TypeOK, NEW i \in Invocations, Run(i) PROVE TypeOK'
<1>1. PICK exit \in {0, 1}, fallback \in BOOLEAN, c \in Counts(inv[i]) :
         /\ Perhaps(exit # 0 \/ fallback)
         /\ Set(i, [inv[i] EXCEPT !.pc = "finish", !.exit = exit, !.sample = Taken(inv[i]), !.counted = c,
                                  !.route = IF fallback THEN "wsl1" ELSE @,
                                  !.scratch = IF @ = "none" /\ c THEN "own" ELSE @])
  BY ZenonT(60) DEF Run
<1> DEFINE route == IF fallback THEN "wsl1" ELSE inv[i].route
           scratch == IF inv[i].scratch = "none" /\ c THEN "own" ELSE inv[i].scratch
           sample == Taken(inv[i])
           was == inv[i]
           r == [was EXCEPT !.pc = "finish", !.exit = exit, !.sample = sample, !.counted = c,
                               !.route = route, !.scratch = scratch]
<1>2. inv[i] \in States /\ Begun(inv[i]) /\ c \in BOOLEAN
  BY DEF TypeOK, Run, Counts
<1>3. inv[i].run \in 1..MaxRuns
  BY <1>2, BoundAssumption DEF States, Begun
<1>4. sample \in Sample
  BY <1>3, SampleAssumption, IdleType DEF Taken, Sample
<1>5. r \in States /\ Begun(r)
  <2>1. /\ route \in {"none", "raw", "native-rtk", "wsl1"} /\ route # "none"
        /\ scratch \in {"none", "bare", "view", "ready", "own"}
    BY <1>2 DEF States, Begun
  <2>2. exit \in {0, 1} /\ c \in BOOLEAN
    BY <1>2
  <2>5. was \in States /\ Begun(was)
    BY <1>2
  <2> HIDE DEF route, scratch, sample, was
  <2>3. r \in States
    <3>1. sample \in Sample
      BY <1>4
    <3>2. route \in {"none", "raw", "native-rtk", "wsl1"} /\ scratch \in {"none", "bare", "view", "ready", "own"}
      BY <2>1
    <3>3. was \in States
      BY <2>5
    <3> QED
      BY ZenonT(60), <2>2, <3>1, <3>2, <3>3 DEF States
  <2>4. Begun(r)
    BY <2>1, <2>5 DEF States, Begun
  <2> QED
    BY <2>3, <2>4
<1> HIDE DEF r
<1>6. InvType'
  BY <1>1, <1>5, SetType DEF InvType, r
<1>7. mishaps' \in 0..MaxMishaps
  BY <1>1, BoundAssumption DEF Perhaps, Mishap, TypeOK
<1> QED
  BY <1>6, <1>7 DEF Run, TypeOK, InvType, files

LEMMA CountersType == ASSUME NEW r \in States PROVE Counters(r) \in Sample
BY IdleType DEF Counters, States

----------------------------------------------------------------------------
(* The ledger *)

\* The rows are numbered like the runs that were filed, so the newest has their number
LEMMA LastIdIsLen ==
    ASSUME filed \in Seq(1..MaxRuns), LedgerKeepsNewest
    PROVE  LastId(ledger.rows) = Len(filed)
<1> DEFINE ids == {row.id : row \in ledger.rows}
<1>1. ids = Latest(filed, MaxRows)
  <2>1. \A n \in Latest(filed, MaxRows) : [id |-> n, run |-> filed[n]] \in ledger.rows
    BY DEF LedgerKeepsNewest
  <2>2. \A n \in Latest(filed, MaxRows) : n \in ids
    <3>1. ASSUME NEW n \in Latest(filed, MaxRows) PROVE n \in ids
      <4>1. [id |-> n, run |-> filed[n]].id = n
        OBVIOUS
      <4> QED
        BY <2>1, <4>1
    <3> QED
      BY <3>1
  <2>3. \A row \in ledger.rows : row.id \in Latest(filed, MaxRows)
    BY DEF LedgerKeepsNewest
  <2> QED
    BY <2>2, <2>3
<1>2. CASE filed = <<>>
  BY <1>2 DEF LastId, LedgerKeepsNewest, Latest
<1>3. CASE filed # <<>>
  <2>1. Len(filed) \in Latest(filed, MaxRows) /\ \A n \in Latest(filed, MaxRows) : n \in Nat /\ n <= Len(filed)
    BY <1>3, MaxRowsAssumption DEF Latest
  <2>2. Len(filed) \in ids /\ \A n \in ids : n \in Nat /\ n <= Len(filed)
    BY <1>1, <2>1
  <2>3. ledger.rows # {}
    BY <2>2
  <2> HIDE DEF ids
  <2>4. Max(ids) = Len(filed)
    BY <2>2 DEF Max
  <2> QED
    BY <2>3, <2>4 DEF LastId, ids
<1> QED
  BY <1>2, <1>3

LEMMA FiledKeepsNewest ==
    ASSUME filed \in Seq(1..MaxRuns), LedgerKeepsNewest, NEW run \in 1..MaxRuns
    PROVE  Filed(ledger.rows, run) =
               {[id |-> n, run |-> Append(filed, run)[n]] : n \in Latest(Append(filed, run), MaxRows)}
<1> DEFINE more == Append(filed, run)
           new == Len(filed) + 1
           young == {row \in ledger.rows \cup {[id |-> new, run |-> run]} : row.id > new - MaxRows}
           newest == {[id |-> n, run |-> more[n]] : n \in Latest(more, MaxRows)}
<1>1. Filed(ledger.rows, run) = young
  BY LastIdIsLen DEF Filed
<1>2. /\ Len(more) = new /\ DOMAIN more = 1..new /\ more[new] = run
      /\ \A n \in DOMAIN filed : more[n] = filed[n]
      /\ DOMAIN filed = 1..Len(filed) /\ Len(filed) \in Nat
  OBVIOUS
<1> HIDE DEF more
<1>3. ASSUME NEW row \in young PROVE row \in newest
  <2>1. CASE row = [id |-> new, run |-> run]
    BY <1>2, <2>1, MaxRowsAssumption DEF Latest
  <2>2. CASE row \in ledger.rows
    <3>1. PICK n \in Latest(filed, MaxRows) : row = [id |-> n, run |-> filed[n]]
      BY <2>2 DEF LedgerKeepsNewest
    <3>2. n \in 1..Len(filed) /\ n > new - MaxRows
      BY <1>2, <3>1 DEF Latest
    <3> QED
      BY <1>2, <3>1, <3>2, MaxRowsAssumption DEF Latest
  <2> QED
    BY <2>1, <2>2
<1>4. ASSUME NEW row \in newest PROVE row \in young
  <2>1. PICK n \in Latest(more, MaxRows) : row = [id |-> n, run |-> more[n]]
    OBVIOUS
  <2>2. n \in 1..new /\ n > new - MaxRows
    BY <1>2, <2>1 DEF Latest
  <2>3. CASE n = new
    BY <1>2, <2>1, <2>2, <2>3
  <2>4. CASE n # new
    <3>1. n \in Latest(filed, MaxRows) /\ row = [id |-> n, run |-> filed[n]]
      BY <1>2, <2>1, <2>2, <2>4, MaxRowsAssumption DEF Latest
    <3>2. row \in ledger.rows
      BY <3>1 DEF LedgerKeepsNewest
    <3> QED
      BY <2>1, <2>2, <3>2
  <2> QED
    BY <2>3, <2>4
<1>5. young = newest
  BY <1>3, <1>4
<1> QED
  BY <1>1, <1>5 DEF more

LEMMA FinishLedger ==
    ASSUME TypeOK, LedgerKeepsNewest, NEW i \in Invocations, Finish(i)
    PROVE  /\ ledger' \in [table : BOOLEAN, rows : SUBSET [id : Nat, run : 1..MaxRuns]]
           /\ filed' \in Seq(1..MaxRuns)
           /\ LedgerKeepsNewest'
<1> DEFINE run == inv[i].run
<1>1. run \in 1..MaxRuns
  BY BoundAssumption DEF TypeOK, Finish, Begun, States
<1>2. filed \in Seq(1..MaxRuns)
  BY DEF TypeOK
<1>3. CASE UNCHANGED <<ledger, filed>>
  BY <1>3 DEF TypeOK, LedgerKeepsNewest
<1>4. CASE /\ ledger' = [ledger EXCEPT !.rows = Filed(ledger.rows, run)]
           /\ filed' = Append(filed, run)
  <2>1. filed' \in Seq(1..MaxRuns)
    BY <1>1, <1>2, <1>4
  <2>2. ledger'.rows = {[id |-> n, run |-> filed'[n]] : n \in Latest(filed', MaxRows)}
    <3>1. ledger'.rows = Filed(ledger.rows, run)
      BY <1>4 DEF TypeOK
    <3> QED
      BY ZenonT(60), <1>1, <1>2, <1>4, <3>1, FiledKeepsNewest
  <2>3. \A n \in Latest(filed', MaxRows) : n \in Nat /\ filed'[n] \in 1..MaxRuns
    <3>1. \A n \in DOMAIN filed' : n \in Nat /\ filed'[n] \in 1..MaxRuns
      BY <2>1, Elements
    <3> QED
      BY <3>1 DEF Latest
  <2>4. ledger'.rows \in SUBSET [id : Nat, run : 1..MaxRuns]
    BY <2>2, <2>3
  <2>5. ledger' \in [table : BOOLEAN, rows : SUBSET [id : Nat, run : 1..MaxRuns]]
    BY <1>4, <2>4 DEF TypeOK
  <2> QED
    BY <2>1, <2>2, <2>5 DEF LedgerKeepsNewest
<1> QED
  BY <1>3, <1>4 DEF Finish

LEMMA FinishType ==
    ASSUME TypeOK, LedgerKeepsNewest, NEW i \in Invocations, Finish(i) PROVE TypeOK'
<1> DEFINE fails == inv[i].persist /\ ~ledger.table
           totals == IF fails THEN NoSample ELSE Counters(inv[i])
           r == [inv[i] EXCEPT !.pc = "record", !.scratch = "none", !.totals = totals]
<1>1. inv[i] \in States /\ Begun(inv[i]) /\ inv[i].run \in 1..MaxRuns
  BY BoundAssumption DEF TypeOK, Finish, Begun, States
<1>2. totals \in Sample
  BY <1>1, CountersType, IdleType
<1>3. Set(i, r)
  BY DEF Finish
<1>4. r \in States /\ Begun(r)
  <2> HIDE DEF totals
  <2> QED
    BY <1>1, <1>2 DEF States, Begun
<1>5. InvType'
  <2> HIDE DEF r
  <2> QED
    BY <1>3, <1>4, SetType DEF InvType
<1>6. /\ ledger' \in [table : BOOLEAN, rows : SUBSET [id : Nat, run : 1..MaxRuns]]
      /\ filed' \in Seq(1..MaxRuns)
  BY FinishLedger
<1> QED
  BY <1>5, <1>6 DEF Finish, TypeOK, InvType

LEMMA RecordType == ASSUME TypeOK, NEW i \in Invocations, Record(i) PROVE TypeOK'
<1>1. inv[i] \in States /\ entry \in Entries /\ history \in Histories
  BY DEF TypeOK
<1>2. entry' \in Entries
  <2>1. Kept(inv[i]) \in Sample /\ inv[i].context \in Contexts \cup {"none"}
    BY <1>1, KeptType DEF States
  <2>2. Recorded(entry, inv[i].context, inv[i].route, Kept(inv[i])) \in Entries
    BY <1>1, <2>1, RecordedType
  <2>3. \/ entry' = Recorded(entry, inv[i].context, inv[i].route, Kept(inv[i]))
        \/ entry' = entry
    BY DEF Record
  <2> QED
    BY <1>1, <2>2, <2>3
<1>3. history' \in Histories
  BY <1>1, NotedType DEF Record
<1>4. InvType'
  BY IdleType, SetType DEF InvType, Record
<1> QED
  BY <1>2, <1>3, <1>4 DEF Record, TypeOK, InvType, files

LEMMA CrashType == ASSUME TypeOK, NEW i \in Invocations, Crash(i) PROVE TypeOK'
<1>1. InvType'
  BY IdleType, SetType DEF InvType, Crash
<1> QED
  BY <1>1, BoundAssumption DEF Crash, Mishap, TypeOK, InvType, files

LEMMA DisturbedType ==
    ASSUME InvType, NEW j \in Invocations
    PROVE  /\ Disturbed[j] \in States /\ Disturbed[j].pc = inv[j].pc
           /\ Begun(inv[j]) => Begun(Disturbed[j])
<1>1. Disturbed[j] = [inv[j] EXCEPT !.spoilt = inv[j].pc # "idle"]
  BY DEF Disturbed
<1>2. inv[j] \in States
  BY DEF InvType
<1> QED
  BY ZenonT(60), <1>1, <1>2 DEF States, Begun

LEMMA PurgeType == ASSUME TypeOK, PurgeLedger \/ PurgeTemplate \/ PurgeScratch PROVE TypeOK'
<1>0. InvType
  BY DEF TypeOK, InvType
<1>1. Disturbed = [j \in Invocations |-> Disturbed[j]]
  BY DEF Disturbed
<1>2. inv' = Disturbed => InvType'
  BY <1>0, <1>1, DisturbedType DEF InvType
<1>3. CASE PurgeLedger
  <2>1. ledger' \in [table : BOOLEAN, rows : SUBSET [id : Nat, run : 1..MaxRuns]]
        /\ filed' \in Seq(1..MaxRuns)
    BY <1>3 DEF PurgeLedger, NoLedger
  <2> QED
    BY <1>2, <1>3, <2>1, BoundAssumption DEF PurgeLedger, Mishap, TypeOK, InvType
<1>4. CASE PurgeTemplate
  BY <1>2, <1>4 DEF PurgeTemplate, TypeOK, InvType
<1>5. CASE PurgeScratch
  <2>1. PICK open \in SUBSET Invocations :
          /\ inv' = [j \in Invocations |->
                       IF j \notin open /\ HasScratch(inv[j]) THEN Swept(j, inv[j]) ELSE Disturbed[j]]
          /\ folder' = (folder /\ open # {})
    BY <1>5 DEF PurgeScratch
  <2>2. \A j \in Invocations : /\ inv'[j] \in States /\ inv'[j].pc = inv[j].pc
                               /\ Begun(inv[j]) => Begun(inv'[j])
    BY <1>0, <2>1, DisturbedType, SweptType DEF InvType
  <2>3. InvType'
    BY <1>0, <2>1, <2>2 DEF InvType
  <2> QED
    BY <1>5, <2>1, <2>3 DEF PurgeScratch, TypeOK, InvType
<1> QED
  BY <1>3, <1>4, <1>5

LEMMA SwitchType == ASSUME TypeOK, Switch PROVE TypeOK'
BY BoundAssumption DEF Switch, Mishap, TypeOK, files

LEMMA ImportType == ASSUME TypeOK, Import PROVE TypeOK'
<1>1. PICK from \in Contexts, k \in Keys, e \in Evidence : policy' = Merged(policy, from, k, e)
  BY DEF Import
<1>2. policy' \in [context : Contexts \cup {"none"}, evidence : [Keys -> Evidence \cup {NoEvidence}]]
  BY <1>1 DEF Merged, TypeOK
<1> QED
  BY <1>2, BoundAssumption DEF Import, Mishap, TypeOK, files

LEMMA TypeStep == ASSUME TypeOK, LedgerKeepsNewest, [Next]_vars PROVE TypeOK'
<1>1. ASSUME NEW i \in Invocations, Step(i) PROVE TypeOK'
  BY <1>1, PlanType, BeginType, InitializeTemplateType, CopyType, RunType, FinishType,
     RecordType, CrashType DEF Step
<1>2. CASE UNCHANGED vars
  BY <1>2 DEF vars, files, TypeOK
<1> QED
  BY <1>1, <1>2, PurgeType, SwitchType, ImportType DEF Next

LEMMA LedgerInit == Init => LedgerKeepsNewest
BY DEF Init, LedgerKeepsNewest, NoLedger, Latest

LEMMA LedgerStep == ASSUME TypeOK, LedgerKeepsNewest, [Next]_vars PROVE LedgerKeepsNewest'
<1>1. CASE ledger'.rows = ledger.rows /\ filed' = filed
  BY <1>1 DEF LedgerKeepsNewest
<1>2. CASE PurgeLedger
  BY <1>2 DEF PurgeLedger, LedgerKeepsNewest, NoLedger, Latest
<1>3. ASSUME NEW i \in Invocations, Step(i), ~Finish(i) PROVE ledger'.rows = ledger.rows /\ filed' = filed
  BY <1>3 DEF Step, Plan, Begin, InitializeTemplate, Copy, Run, Record, Crash, files,
              InitializedLedger, TypeOK
<1> QED
  BY <1>1, <1>2, <1>3, FinishLedger
     DEF Next, vars, files, Switch, Import, PurgeTemplate, PurgeScratch, Step

----------------------------------------------------------------------------
(* The samples *)

\* A run whose counters nothing disturbed holds what its sample will be made of
Sound(r, table) ==
    /\ r.route = "native-rtk" => r.adapter = "rtk"
    /\ ~r.spoilt /\ r.calibrated /\ r.adapter = "rtk" =>
         /\ r.pc \in {"template", "copy"} => r.tracker
         /\ r.pc \in {"run", "finish"} =>
              r.tracker /\ r.scratch = "ready" /\ (r.persist => table)
         /\ r.pc = "finish" => r.counted
         /\ r.pc = "record" => r.totals = r.sample
SoundInv == \A i \in Invocations : Sound(inv[i], ledger.table)

LEMMA SoundSet ==
    ASSUME TypeOK, SoundInv, NEW i \in Invocations, NEW r, Set(i, r), Sound(r, ledger'.table),
           ledger.table => ledger'.table
    PROVE  SoundInv'
<1>1. \A j \in Invocations : inv'[j] = IF j = i THEN r ELSE inv[j]
  BY DEF Set, TypeOK
<1>2. ASSUME NEW j \in Invocations PROVE Sound(inv[j], ledger.table) => Sound(inv[j], ledger'.table)
  BY DEF Sound
<1> QED
  BY <1>1, <1>2 DEF SoundInv

LEMMA SoundIdle == ASSUME NEW t PROVE Sound(Idle, t)
BY DEF Sound, Idle

LEMMA SoundInit == Init => SoundInv
BY SoundIdle DEF Init, SoundInv

LEMMA PlanSound == ASSUME TypeOK, SoundInv, NEW i \in Invocations, Plan(i) PROVE SoundInv'
<1> DEFINE imposed == RouteFor(policy, "command", context)
           preferred == RouteFor(policy, "kind", context)
           route == CASE imposed # "none" -> imposed
                      [] imposed = "none" /\ preferred # "none" -> preferred
                      [] OTHER -> NextRoute(entry, context)
<1>1. PICK d \in Dispatched(route) :
        LET diverted == d # [route |-> route, adapter |-> IF route = "raw" THEN "raw" ELSE "rtk"]
        IN Set(i, [Idle EXCEPT !.pc = "begin", !.run = runs + 1, !.context = context,
                               !.route = d.route, !.adapter = d.adapter,
                               !.calibrated = imposed = "none",
                               !.chosen = /\ imposed = "none" /\ preferred = "none"
                                          /\ ~diverted])
  BY DEF Plan
<1>2. d.route = "native-rtk" => d.adapter = "rtk"
  BY DEF Dispatched
<1> HIDE DEF route, imposed, preferred
<1> DEFINE calibrated == imposed = "none"
           chosen == /\ imposed = "none" /\ preferred = "none"
                     /\ ~(d # [route |-> route, adapter |-> IF route = "raw" THEN "raw" ELSE "rtk"])
           r == [Idle EXCEPT !.pc = "begin", !.run = runs + 1, !.context = context,
                             !.route = d.route, !.adapter = d.adapter,
                             !.calibrated = calibrated, !.chosen = chosen]
<1>3. Set(i, r)
  BY <1>1
<1> HIDE DEF calibrated, chosen
<1>4. r.route = d.route /\ r.adapter = d.adapter /\ r.pc = "begin"
  BY IdleType DEF States
<1>5. ledger' = ledger
  BY DEF Plan, files
<1> HIDE DEF r
<1>6. Sound(r, ledger'.table)
  BY <1>2, <1>4 DEF Sound
<1> QED
  BY <1>3, <1>5, <1>6, SoundSet

LEMMA SpoiltSound ==
    ASSUME NEW r \in States, NEW t, NEW u, NEW q \in States,
           Sound(r, t), q.spoilt, q.route = r.route, q.adapter = r.adapter
    PROVE  Sound(q, u)
BY DEF Sound

LEMMA SweptIs ==
    ASSUME NEW r \in States, NEW j
    PROVE  /\ Swept(j, r) \in States /\ Swept(j, r).spoilt
           /\ Swept(j, r).route = r.route /\ Swept(j, r).adapter = r.adapter
BY DEF Swept, States

LEMMA BeginSound == ASSUME TypeOK, SoundInv, NEW i \in Invocations, Begin(i) PROVE SoundInv'
<1>0. inv[i] \in States /\ Sound(inv[i], ledger.table) /\ inv[i].pc = "begin"
      /\ inv[i].adapter \in {"raw", "rtk"}
  BY DEF TypeOK, SoundInv, Begin, Begun, States
<1>1. CASE Unmeasured(inv[i])
  <2> DEFINE r == [inv[i] EXCEPT !.pc = "run"]
  <2>1. Set(i, r) /\ ledger' = ledger
    BY <1>1 DEF Begin, files
  <2>2. /\ r.adapter = inv[i].adapter /\ r.route = inv[i].route
        /\ r.adapter = "rtk" => ~r.calibrated
    BY <1>0, <1>1 DEF States, Unmeasured
  <2> HIDE DEF r
  <2>3. Sound(r, ledger'.table)
    BY <1>0, <2>2 DEF Sound
  <2> QED
    BY <2>1, <2>3, SoundSet
<1>2. CASE ~Unmeasured(inv[i])
  <2> DEFINE pc == CASE inv[i].adapter = "raw" -> "run"
                     [] inv[i].adapter = "rtk" /\ template = "absent" -> "template"
                     [] OTHER -> "copy"
             persist == MetricsOn[inv[i].context]
             tracker == inv[i].adapter = "rtk"
             mine == [inv[i] EXCEPT !.persist = persist, !.tracker = tracker, !.pc = pc]
  <2>1. PICK old \in SUBSET {j \in Invocations \ {i} : HasScratch(inv[j])} :
          inv' = [j \in Invocations |->
                       CASE j \in old -> Swept(j, inv[j])
                         [] j # i /\ j \notin old -> inv[j]
                         [] OTHER -> mine]
    BY <1>2 DEF Begin
  <2>2. ledger.table => ledger'.table
    BY <1>2 DEF Begin, InitializedLedger, TypeOK
  <2>3. /\ mine.route = inv[i].route /\ mine.adapter = inv[i].adapter
        /\ mine.pc = pc /\ mine.tracker = tracker
    <3> HIDE DEF pc, tracker, persist
    <3> QED
      BY <1>0 DEF States
  <2>4. /\ mine.adapter = "rtk" => mine.tracker /\ mine.pc \in {"template", "copy"}
    BY <1>0, <2>3
  <2> HIDE DEF mine
  <2>5. Sound(mine, ledger'.table)
    BY <1>0, <2>3, <2>4 DEF Sound
  <2>6. ASSUME NEW j \in Invocations PROVE Sound(inv'[j], ledger'.table)
    <3>1. inv[j] \in States /\ Sound(inv[j], ledger.table)
      BY DEF TypeOK, SoundInv
    <3>2. Sound(Swept(j, inv[j]), ledger'.table)
      BY <3>1, SweptIs, SpoiltSound
    <3>3. Sound(inv[j], ledger'.table)
      BY <2>2, <3>1 DEF Sound
    <3> QED
      BY <2>1, <2>5, <3>2, <3>3
  <2> QED
    BY <2>6 DEF SoundInv
<1> QED
  BY <1>1, <1>2

LEMMA InitializeTemplateSound ==
    ASSUME TypeOK, SoundInv, NEW i \in Invocations, InitializeTemplate(i) PROVE SoundInv'
<1> DEFINE r == [inv[i] EXCEPT !.pc = IF template = "bare" THEN "template" ELSE "copy"]
<1>1. inv[i] \in States /\ Sound(inv[i], ledger.table) /\ inv[i].pc = "template"
  BY DEF TypeOK, SoundInv, InitializeTemplate
<1>2. Set(i, r) /\ ledger' = ledger
  BY DEF InitializeTemplate
<1>3. /\ r.pc \in {"template", "copy"} /\ r.route = inv[i].route /\ r.adapter = inv[i].adapter
      /\ r.spoilt = inv[i].spoilt /\ r.calibrated = inv[i].calibrated /\ r.tracker = inv[i].tracker
  BY <1>1 DEF States
<1> HIDE DEF r
<1>4. Sound(r, ledger'.table)
  BY <1>1, <1>2, <1>3 DEF Sound
<1> QED
  BY <1>2, <1>4, SoundSet

LEMMA CopySound == ASSUME TypeOK, SoundInv, NEW i \in Invocations, Copy(i) PROVE SoundInv'
<1> DEFINE spoilt == inv[i].spoilt \/ template # "ready"
           r == [inv[i] EXCEPT !.pc = "run", !.scratch = template, !.spoilt = spoilt]
           q == [inv[i] EXCEPT !.pc = "run", !.tracker = FALSE, !.persist = FALSE, !.spoilt = TRUE]
<1>1. inv[i] \in States /\ Sound(inv[i], ledger.table) /\ inv[i].pc = "copy"
  BY DEF TypeOK, SoundInv, Copy
<1>2. CASE template # "absent" /\ folder
  <2>1. /\ Set(i, r)
        /\ ledger' = IF inv[i].persist THEN InitializedLedger ELSE ledger
    BY <1>2 DEF Copy
  <2>2. (inv[i].persist => ledger'.table) /\ (ledger.table => ledger'.table)
    BY <2>1 DEF InitializedLedger, TypeOK
  <2>3. /\ r.pc = "run" /\ r.route = inv[i].route /\ r.adapter = inv[i].adapter
        /\ r.spoilt = spoilt /\ r.calibrated = inv[i].calibrated /\ r.tracker = inv[i].tracker
        /\ r.persist = inv[i].persist /\ r.scratch = template
    <3> HIDE DEF spoilt
    <3> QED
      BY <1>1 DEF States
  <2> HIDE DEF r
  <2>4. Sound(r, ledger'.table)
    BY <1>1, <2>2, <2>3 DEF Sound
  <2> QED
    BY <2>1, <2>2, <2>4, SoundSet
<1>3. CASE ~(template # "absent" /\ folder)
  <2>1. Set(i, q) /\ ledger' = ledger
    BY <1>3 DEF Copy
  <2>2. q.spoilt /\ q.route = inv[i].route /\ q.adapter = inv[i].adapter
    BY <1>1 DEF States
  <2> HIDE DEF q
  <2>3. Sound(q, ledger'.table)
    BY <1>1, <2>2 DEF Sound
  <2> QED
    BY <2>1, <2>3, SoundSet
<1> QED
  BY <1>2, <1>3

LEMMA RunSound == ASSUME TypeOK, SoundInv, NEW i \in Invocations, Run(i) PROVE SoundInv'
<1>1. inv[i] \in States /\ Sound(inv[i], ledger.table) /\ inv[i].pc = "run"
  BY DEF TypeOK, SoundInv, Run
<1>2. PICK exit \in {0, 1}, fallback \in BOOLEAN, c \in Counts(inv[i]) :
         Set(i, [inv[i] EXCEPT !.pc = "finish", !.exit = exit, !.sample = Taken(inv[i]), !.counted = c,
                               !.route = IF fallback THEN "wsl1" ELSE @,
                               !.scratch = IF @ = "none" /\ c THEN "own" ELSE @])
  BY ZenonT(60) DEF Run
<1> DEFINE was == inv[i]
           route == IF fallback THEN "wsl1" ELSE was.route
           scratch == IF was.scratch = "none" /\ c THEN "own" ELSE was.scratch
           sample == Taken(was)
           r == [was EXCEPT !.pc = "finish", !.exit = exit, !.sample = sample, !.counted = c,
                            !.route = route, !.scratch = scratch]
<1>3. Set(i, r) /\ ledger' = ledger
  BY <1>2 DEF Run, files
<1>4. was \in States /\ Sound(was, ledger.table) /\ was.pc = "run"
  BY <1>1
<1>5. was.adapter = "rtk" /\ was.tracker /\ was.scratch = "ready" => c = TRUE
  BY DEF Counts
<1>6. /\ r.pc = "finish" /\ r.adapter = was.adapter /\ r.spoilt = was.spoilt
      /\ r.calibrated = was.calibrated /\ r.tracker = was.tracker /\ r.persist = was.persist
      /\ r.route = route /\ r.scratch = scratch /\ r.counted = c
  <2> HIDE DEF was, route, scratch, sample
  <2> QED
    BY <1>4 DEF States
<1> HIDE DEF r, was
<1>7. Sound(r, ledger'.table)
  BY <1>3, <1>4, <1>5, <1>6 DEF Sound
<1> QED
  BY <1>3, <1>7, SoundSet

LEMMA FinishSound == ASSUME TypeOK, SoundInv, NEW i \in Invocations, Finish(i) PROVE SoundInv'
<1> DEFINE was == inv[i]
           fails == was.persist /\ ~ledger.table
           totals == IF fails THEN NoSample ELSE Counters(was)
           r == [was EXCEPT !.pc = "record", !.scratch = "none", !.totals = totals]
<1>1. was \in States /\ Sound(was, ledger.table) /\ was.pc = "finish"
  BY DEF TypeOK, SoundInv, Finish
<1>2. Set(i, r) /\ ledger'.table = ledger.table
  BY DEF Finish, TypeOK
<1>3. was.counted /\ was.scratch = "ready" => Counters(was) = was.sample
  BY DEF Counters, HasScratch
<1>4. /\ r.pc = "record" /\ r.adapter = was.adapter /\ r.spoilt = was.spoilt
      /\ r.calibrated = was.calibrated /\ r.route = was.route /\ r.sample = was.sample
      /\ r.totals = totals
  <2> HIDE DEF was, totals
  <2> QED
    BY <1>1 DEF States
<1> HIDE DEF r, was
<1>5. Sound(r, ledger'.table)
  BY <1>1, <1>2, <1>3, <1>4 DEF Sound
<1> QED
  BY <1>2, <1>5, SoundSet

LEMMA DisturbedIs ==
    ASSUME TypeOK, SoundInv, NEW j \in Invocations, NEW u
    PROVE  Sound(Disturbed[j], u)
<1>1. inv[j] \in States /\ Sound(inv[j], ledger.table)
  BY DEF TypeOK, SoundInv
<1>2. Disturbed[j] = [inv[j] EXCEPT !.spoilt = inv[j].pc # "idle"]
  BY DEF Disturbed
<1> DEFINE spoilt == inv[j].pc # "idle"
           q == [inv[j] EXCEPT !.spoilt = spoilt]
<1>3. /\ q.spoilt = spoilt /\ q.route = inv[j].route /\ q.adapter = inv[j].adapter
      /\ q.pc = inv[j].pc
  <2> HIDE DEF spoilt
  <2> QED
    BY <1>1 DEF States
<1> HIDE DEF q
<1>4. Sound(q, u)
  BY <1>1, <1>3 DEF Sound
<1> QED
  BY <1>2, <1>4 DEF q

LEMMA PurgeSound ==
    ASSUME TypeOK, SoundInv, PurgeLedger \/ PurgeTemplate \/ PurgeScratch PROVE SoundInv'
<1>1. inv' = Disturbed => SoundInv'
  BY DisturbedIs DEF SoundInv
<1>2. CASE PurgeLedger
  BY <1>1, <1>2 DEF PurgeLedger
<1>3. CASE PurgeTemplate
  BY <1>1, <1>3 DEF PurgeTemplate, SoundInv
<1>4. CASE PurgeScratch
  <2>1. PICK open \in SUBSET Invocations :
          inv' = [j \in Invocations |->
                    IF j \notin open /\ HasScratch(inv[j]) THEN Swept(j, inv[j]) ELSE Disturbed[j]]
    BY <1>4 DEF PurgeScratch
  <2>2. \A j \in Invocations : inv[j] \in States /\ Sound(inv[j], ledger.table)
    BY DEF TypeOK, SoundInv
  <2>3. \A j \in Invocations : Sound(Swept(j, inv[j]), ledger'.table)
    BY <2>2, SweptIs, SpoiltSound
  <2> QED
    BY <2>1, <2>3, DisturbedIs DEF SoundInv
<1> QED
  BY <1>2, <1>3, <1>4

LEMMA SoundStep == ASSUME TypeOK, SoundInv, [Next]_vars PROVE SoundInv'
<1>1. ASSUME NEW i \in Invocations, Record(i) \/ Crash(i) PROVE SoundInv'
  BY <1>1, SoundIdle, SoundSet DEF Record, Crash, files
<1>2. ASSUME NEW i \in Invocations, Step(i) PROVE SoundInv'
  BY <1>1, <1>2, PlanSound, BeginSound, InitializeTemplateSound, CopySound, RunSound, FinishSound
     DEF Step
<1>3. CASE UNCHANGED vars \/ Switch \/ Import
  BY <1>3 DEF vars, files, Switch, Import, SoundInv
<1> QED
  BY <1>2, <1>3, PurgeSound DEF Next

----------------------------------------------------------------------------
(* The newest of a sequence *)

LEMMA SuffixIs ==
    ASSUME NEW S, NEW s \in Seq(S), NEW a \in 1..(Len(s) + 1)
    PROVE  /\ SubSeq(s, a, Len(s)) \in Seq(S)
           /\ Len(SubSeq(s, a, Len(s))) = Len(s) - a + 1
           /\ \A m \in 1..(Len(s) - a + 1) : SubSeq(s, a, Len(s))[m] = s[a + m - 1]
OBVIOUS

\* How many the newest n are, and which
Few(m, n) == IF m > n THEN n ELSE m

LEMMA FewIs ==
    ASSUME NEW m \in Nat, NEW n \in Nat
    PROVE  /\ Few(m, n) \in Nat /\ Few(m, n) <= m /\ Few(m, n) <= n
           /\ m > n => Few(m, n) = n
           /\ m <= n => Few(m, n) = m
           /\ Few(Few(m, n) + 1, n) = Few(m + 1, n)
           /\ m - Few(m, n) + 1 \in 1..(m + 1)
           /\ m - (m - Few(m, n) + 1) + 1 = Few(m, n)
           /\ \A l \in Nat : m - Few(m, n) + 1 + l - 1 = m - Few(m, n) + l
BY DEF Few

LEMMA EndIs ==
    ASSUME NEW S, NEW s \in Seq(S), NEW n \in Nat
    PROVE  /\ End(s, n) \in Seq(S) /\ Len(End(s, n)) = Few(Len(s), n)
           /\ DOMAIN End(s, n) = 1..Few(Len(s), n)
           /\ \A m \in 1..Few(Len(s), n) : End(s, n)[m] = s[Len(s) - Few(Len(s), n) + m]
<1> DEFINE k == Few(Len(s), n)
           a == Len(s) - k + 1
           t == SubSeq(s, a, Len(s))
<1>0. Len(s) \in Nat
  OBVIOUS
<1>1. /\ k \in Nat /\ a \in 1..(Len(s) + 1) /\ Len(s) - a + 1 = k
      /\ \A m \in Nat : a + m - 1 = Len(s) - k + m
  BY <1>0, FewIs
<1>2. End(s, n) = t
  <2>1. CASE Len(s) > n
    BY <1>0, <2>1, FewIs DEF End
  <2>2. CASE ~(Len(s) > n)
    <3>1. k = Len(s)
      BY <1>0, <2>2 DEF Few
    <3>2. a = 1
      BY <1>0, <3>1
    <3> QED
      BY <2>2, <3>2 DEF End
  <2> QED
    BY <2>1, <2>2
<1> HIDE DEF a
<1>3. /\ t \in Seq(S) /\ Len(t) = Len(s) - a + 1
      /\ \A m \in 1..(Len(s) - a + 1) : t[m] = s[a + m - 1]
  BY <1>1, SuffixIs
<1> HIDE DEF t, k
<1>4. /\ Len(t) = k /\ \A m \in 1..k : t[m] = s[Len(s) - k + m]
  BY <1>1, <1>3
<1>5. DOMAIN t = 1..k
  BY <1>3, <1>4
<1> QED
  BY <1>2, <1>3, <1>4, <1>5 DEF k

LEMMA NewestIsEnd ==
    ASSUME NEW S, NEW s \in Seq(S) PROVE Newest(s) = End(s, MaxSamples)
<1>1. Len(s) > MaxSamples => Newest(s) = End(s, MaxSamples)
  BY DEF Newest, End
<1>2. SubSeq(s, 1, Len(s)) = s
  OBVIOUS
<1> QED
  BY <1>1, <1>2 DEF Newest, End

\* Whoever adds one to the newest of s, and keeps the newest of that, has the newest of s
\* and the one that was added
LEMMA NewestFollows ==
    ASSUME NEW S, NEW T, NEW e \in Seq(T), NEW s \in Seq(S), NEW x \in T, NEW y \in S,
           Len(e) = Len(End(s, MaxSamples))
    PROVE  LET a == Newest(Append(e, x))
               b == End(Append(s, y), MaxSamples)
           IN  /\ a \in Seq(T) /\ b \in Seq(S)
               /\ Len(a) = Len(b) /\ Len(b) = Few(Len(s) + 1, MaxSamples)
               /\ \A m \in 1..Len(b) :
                    \/ a[m] = x /\ b[m] = y
                    \/ \E l \in 1..Len(e) : a[m] = e[l] /\ b[m] = End(s, MaxSamples)[l]
<1> DEFINE a == Newest(Append(e, x))
           b == End(Append(s, y), MaxSamples)
           c == End(s, MaxSamples)
           L == Len(s)
           k == Few(L, MaxSamples)
           j == Few(L + 1, MaxSamples)
<1>1. /\ MaxSamples \in Nat /\ L \in Nat /\ k \in Nat /\ j \in Nat
      /\ k <= L /\ j <= k + 1 /\ j <= L + 1 /\ Few(k + 1, MaxSamples) = j
  <2>1. MaxSamples \in Nat /\ L \in Nat /\ L + 1 \in Nat
    BY MaxSamplesAssumption
  <2>2. Few(k + 1, MaxSamples) = j /\ k <= L /\ k \in Nat /\ j \in Nat /\ j <= L + 1
    BY <2>1, FewIs
  <2>3. j <= k + 1
    BY <2>1, <2>2, FewIs
  <2> QED
    BY <2>1, <2>2, <2>3
<1>2. Len(c) = k /\ \A m \in 1..k : c[m] = s[L - k + m]
  BY <1>1, EndIs
<1>3. /\ Append(e, x) \in Seq(T) /\ Len(Append(e, x)) = k + 1
      /\ Append(s, y) \in Seq(S) /\ Len(Append(s, y)) = L + 1
  BY <1>2
<1>5. a = End(Append(e, x), MaxSamples)
  BY <1>3, NewestIsEnd
<1>6. a \in Seq(T) /\ Len(a) = j /\ \A m \in 1..j : a[m] = Append(e, x)[k + 1 - j + m]
  <2> DEFINE q == Append(e, x)
  <2>1. q \in Seq(T) /\ Len(q) = k + 1 /\ a = End(q, MaxSamples)
    BY <1>3, <1>5
  <2> HIDE DEF q, j, k, a
  <2>2. /\ End(q, MaxSamples) \in Seq(T)
        /\ Len(End(q, MaxSamples)) = Few(Len(q), MaxSamples)
        /\ \A m \in 1..Few(Len(q), MaxSamples) :
             End(q, MaxSamples)[m] = q[Len(q) - Few(Len(q), MaxSamples) + m]
    BY <1>1, <2>1, EndIs
  <2>3. Few(Len(q), MaxSamples) = j
    BY <1>1, <2>1
  <2>4. a \in Seq(T) /\ Len(a) = j /\ \A m \in 1..j : a[m] = q[k + 1 - j + m]
    <3>1. a \in Seq(T) /\ Len(a) = j
      BY <2>1, <2>2, <2>3
    <3>2. \A m \in 1..j : a[m] = q[Len(q) - j + m]
      BY <2>1, <2>2, <2>3
    <3>3. \A m \in 1..j : Len(q) - j + m = k + 1 - j + m
      BY <1>1, <2>1
    <3> QED
      BY <3>1, <3>2, <3>3
  <2> QED
    BY <2>4 DEF q
<1>7. b \in Seq(S) /\ Len(b) = j /\ \A m \in 1..j : b[m] = Append(s, y)[L + 1 - j + m]
  <2> DEFINE q == Append(s, y)
  <2>1. q \in Seq(S) /\ Len(q) = L + 1 /\ b = End(q, MaxSamples)
    BY <1>3
  <2> HIDE DEF q, L, k, b
  <2>2. /\ End(q, MaxSamples) \in Seq(S)
        /\ Len(End(q, MaxSamples)) = Few(Len(q), MaxSamples)
        /\ \A m \in 1..Few(Len(q), MaxSamples) :
             End(q, MaxSamples)[m] = q[Len(q) - Few(Len(q), MaxSamples) + m]
    BY <1>1, <2>1, EndIs
  <2> QED
    BY <1>1, <2>1, <2>2 DEF q
<1>8. ASSUME NEW m \in 1..j
      PROVE  \/ a[m] = x /\ b[m] = y
             \/ \E l \in 1..Len(e) : a[m] = e[l] /\ b[m] = c[l]
  <2> HIDE DEF a, b, c, k, j
  <2>1. CASE m = j
    <3>1. k + 1 - j + m = k + 1 /\ L + 1 - j + m = L + 1
      BY <1>1, <2>1
    <3>2. a[m] = Append(e, x)[k + 1] /\ b[m] = Append(s, y)[L + 1]
      BY <1>6, <1>7, <3>1
    <3>3. Len(e) = k
      BY <1>2 DEF c
    <3> QED
      BY <3>2, <3>3
  <2>2. CASE m # j
    <3> DEFINE l == k + 1 - j + m
    <3>1. m \in Nat /\ m >= 1 /\ m < j
      BY <1>1, <2>2
    <3>2. l \in 1..k /\ L - k + l = L + 1 - j + m /\ L + 1 - j + m \in 1..L
      BY <1>1, <3>1
    <3>3. Len(e) = k
      BY <1>2 DEF c
    <3>4. a[m] = Append(e, x)[l] /\ b[m] = Append(s, y)[L + 1 - j + m]
      BY <1>6, <1>7
    <3> HIDE DEF l
    <3>5. a[m] = e[l] /\ b[m] = s[L + 1 - j + m]
      BY <3>2, <3>3, <3>4
    <3>6. c[l] = s[L + 1 - j + m]
      BY <1>2, <3>2
    <3> QED
      BY <3>2, <3>3, <3>5, <3>6
  <2> QED
    BY <2>1, <2>2
<1> HIDE DEF a, b, c, j, k, L
<1>9. /\ a \in Seq(T) /\ b \in Seq(S) /\ Len(a) = Len(b) /\ Len(b) = j
      /\ \A m \in 1..Len(b) :
           \/ a[m] = x /\ b[m] = y
           \/ \E l \in 1..Len(e) : a[m] = e[l] /\ b[m] = c[l]
  BY <1>6, <1>7, <1>8
<1> QED
  BY <1>9 DEF a, b, c, j, L

----------------------------------------------------------------------------
(* The evidence *)

\* SamplesAreLatest of any entry and history, element by element
Times(raw, notes) ==
    /\ Len(raw) = Len(End(notes, MaxSamples))
    /\ \A n \in 1..Len(raw) : raw[n] = End(notes, MaxSamples)[n].sample.ms
Tokens(native, notes) ==
    /\ Len(native) = Len(End(notes, MaxSamples))
    /\ \A n \in 1..Len(native) :
         LET note == End(notes, MaxSamples)[n]
         IN  /\ native[n].ms = note.sample.ms
             /\ ~note.spoilt => native[n] = note.sample
Matches(e, h) == e.context = h.context /\ Times(e.raw, h.raw) /\ Tokens(e.native, h.native)

LEMMA MatchesIs ==
    ASSUME TypeOK PROVE SamplesAreLatest <=> Matches(entry, history)
<1> DEFINE raw == End(history.raw, MaxSamples)
           native == End(history.native, MaxSamples)
<1>1. /\ entry.raw \in Seq(Nat) /\ entry.native \in Seq(Sample)
      /\ history.raw \in Seq(Note) /\ history.native \in Seq(Note)
  BY DEF TypeOK, Entries, Histories
<1>2. raw \in Seq(Note) /\ native \in Seq(Note)
  BY <1>1, EndIs, MaxSamplesAssumption
<1> HIDE DEF raw, native
<1>3. /\ DOMAIN raw = 1..Len(raw) /\ DOMAIN native = 1..Len(native)
      /\ DOMAIN entry.raw = 1..Len(entry.raw) /\ DOMAIN entry.native = 1..Len(entry.native)
      /\ Len(raw) \in Nat /\ Len(native) \in Nat /\ Len(entry.raw) \in Nat /\ Len(entry.native) \in Nat
  BY <1>1, <1>2
<1>4. entry.raw = [n \in DOMAIN raw |-> raw[n].sample.ms] <=>
        /\ Len(entry.raw) = Len(raw)
        /\ \A n \in 1..Len(entry.raw) : entry.raw[n] = raw[n].sample.ms
  <2>1. entry.raw = [n \in 1..Len(entry.raw) |-> entry.raw[n]]
    <3>1. entry.raw \in [1..Len(entry.raw) -> Nat]
      BY <1>1, LenProperties
    <3> QED
      BY <3>1
  <2>2. ASSUME entry.raw = [n \in DOMAIN raw |-> raw[n].sample.ms]
        PROVE  /\ Len(entry.raw) = Len(raw)
               /\ \A n \in 1..Len(entry.raw) : entry.raw[n] = raw[n].sample.ms
    <3>1. DOMAIN entry.raw = DOMAIN raw /\ \A n \in DOMAIN raw : entry.raw[n] = raw[n].sample.ms
      BY <2>2
    <3> QED
      BY <1>3, <3>1
  <2>3. ASSUME Len(entry.raw) = Len(raw),
               \A n \in 1..Len(entry.raw) : entry.raw[n] = raw[n].sample.ms
        PROVE  entry.raw = [n \in DOMAIN raw |-> raw[n].sample.ms]
    BY <1>3, <2>1, <2>3
  <2> QED
    BY <2>2, <2>3
<1>5. DOMAIN entry.native = DOMAIN native <=> Len(entry.native) = Len(native)
  BY <1>3
<1> QED
  BY <1>3, <1>4, <1>5 DEF SamplesAreLatest, Matches, Times, Tokens, raw, native

LEMMA EmptyMatches == ASSUME NEW c PROVE Matches(EmptyEntry(c), Unrecorded(c))
<1>1. <<>> \in Seq(Note) /\ Len(<<>>) = 0 /\ MaxSamples \in Nat
  BY MaxSamplesAssumption
<1>2. Len(End(<<>>, MaxSamples)) = Few(0, MaxSamples)
  BY <1>1, EndIs
<1>3. Few(0, MaxSamples) = 0
  BY <1>1 DEF Few
<1> QED
  BY <1>2, <1>3 DEF Matches, Times, Tokens, EmptyEntry, NoEntry, Unrecorded

LEMMA TimesFollow ==
    ASSUME NEW e \in Seq(Nat), NEW notes \in Seq(Note), NEW x \in Nat, NEW y \in Note,
           Times(e, notes), y.sample.ms = x
    PROVE  Times(Newest(Append(e, x)), Append(notes, y))
<1> DEFINE a == Newest(Append(e, x))
           b == End(Append(notes, y), MaxSamples)
           c == End(notes, MaxSamples)
<1>1. Len(e) = Len(c) /\ \A l \in 1..Len(e) : e[l] = c[l].sample.ms
  BY DEF Times
<1>2. /\ Len(a) = Len(b)
      /\ \A m \in 1..Len(b) : \/ a[m] = x /\ b[m] = y
                              \/ \E l \in 1..Len(e) : a[m] = e[l] /\ b[m] = c[l]
  <2> DEFINE T == Nat
  <2>1. e \in Seq(T) /\ x \in T
    OBVIOUS
  <2> HIDE DEF T
  <2> QED
    BY SMTT(30), <1>1, <2>1, NewestFollows
<1> HIDE DEF a, b, c
<1>3. \A m \in 1..Len(a) : a[m] = b[m].sample.ms
  BY <1>1, <1>2
<1> QED
  BY <1>2, <1>3 DEF Times, a, b

LEMMA TokensFollow ==
    ASSUME NEW e \in Seq(Sample), NEW notes \in Seq(Note), NEW x \in Sample, NEW y \in Note,
           Tokens(e, notes), y.sample.ms = x.ms, ~y.spoilt => x = y.sample
    PROVE  Tokens(Newest(Append(e, x)), Append(notes, y))
<1> DEFINE a == Newest(Append(e, x))
           b == End(Append(notes, y), MaxSamples)
           c == End(notes, MaxSamples)
<1>1. Len(e) = Len(c) /\ \A l \in 1..Len(e) : e[l].ms = c[l].sample.ms /\ (~c[l].spoilt => e[l] = c[l].sample)
  BY DEF Tokens
<1>2. /\ Len(a) = Len(b)
      /\ \A m \in 1..Len(b) : \/ a[m] = x /\ b[m] = y
                              \/ \E l \in 1..Len(e) : a[m] = e[l] /\ b[m] = c[l]
  BY <1>1, NewestFollows
<1> HIDE DEF a, b, c
<1>3. \A m \in 1..Len(a) : a[m].ms = b[m].sample.ms /\ (~b[m].spoilt => a[m] = b[m].sample)
  BY <1>1, <1>2
<1> QED
  BY <1>2, <1>3 DEF Tokens, a, b

\* What a record makes of entry and history, in terms of what it finds of its own context
LEMMA RecordIs ==
    ASSUME TypeOK, Matches(entry, history), NEW r \in States
    PROVE  \E e \in Entries, h \in Histories :
             LET entry2 == Recorded(entry, r.context, r.route, Kept(r))
                 history2 == Noted(r)
                 new == [sample |-> r.sample, spoilt |-> r.spoilt]
             IN  /\ Matches(e, h) /\ e.context = r.context
                 /\ \/ e = entry /\ h = history /\ entry.context = r.context
                    \/ e = EmptyEntry(r.context) /\ h = Unrecorded(r.context) /\ entry.context # r.context
                 /\ history2.chosen = h.chosen + (IF r.chosen THEN 1 ELSE 0)
                 /\ entry2.context = r.context /\ history2.context = r.context
                 /\ r.route = "raw" => /\ entry2.raw = Newest(Append(e.raw, r.sample.ms))
                                       /\ history2.raw = Append(h.raw, new)
                                       /\ entry2.native = e.native /\ history2.native = h.native
                 /\ r.route # "raw" => /\ entry2.native = Newest(Append(e.native, Kept(r)))
                                       /\ history2.native = Append(h.native, new)
                                       /\ entry2.raw = e.raw /\ history2.raw = h.raw
<1> DEFINE e == IF entry.context = r.context THEN entry ELSE EmptyEntry(r.context)
           h == IF history.context = r.context THEN history ELSE Unrecorded(r.context)
           new == [sample |-> r.sample, spoilt |-> r.spoilt]
           entry2 == Recorded(entry, r.context, r.route, Kept(r))
           history2 == Noted(r)
           chosen == h.chosen + (IF r.chosen THEN 1 ELSE 0)
<1>1. entry.context = history.context /\ r.context \in Contexts \cup {"none"}
  BY DEF Matches, States
<1>2. /\ EmptyEntry(r.context) = [context |-> r.context, raw |-> <<>>, native |-> <<>>]
      /\ EmptyEntry(r.context) \in Entries /\ Unrecorded(r.context) \in Histories
  <2>1. EmptyEntry(r.context) = [context |-> r.context, raw |-> <<>>, native |-> <<>>]
    BY DEF EmptyEntry, NoEntry
  <2> QED
    BY <1>1, <2>1 DEF Unrecorded, Entries, Histories
<1>3. e \in Entries /\ h \in Histories
  BY <1>2 DEF TypeOK
<1>4. Matches(e, h) /\ e.context = r.context /\ h.context = r.context
  BY <1>1, <1>2, EmptyMatches DEF Unrecorded
<1>5. Kept(r).ms = r.sample.ms
  BY DEF Kept, States, Sample
<1>6. entry2 = IF r.route = "raw" THEN [e EXCEPT !.raw = Newest(Append(e.raw, Kept(r).ms))]
                                  ELSE [e EXCEPT !.native = Newest(Append(e.native, Kept(r)))]
  BY <1>3 DEF Recorded, Entries
<1>7. history2 = IF r.route = "raw"
                 THEN [h EXCEPT !.raw = Append(h.raw, new), !.chosen = chosen]
                 ELSE [h EXCEPT !.native = Append(h.native, new), !.chosen = chosen]
  BY <1>3 DEF Noted, Histories
<1>8. \/ e = entry /\ h = history /\ entry.context = r.context
      \/ e = EmptyEntry(r.context) /\ h = Unrecorded(r.context) /\ entry.context # r.context
  BY <1>1
<1> HIDE DEF e, h, new, entry2, history2, chosen
<1>9. /\ entry2.context = r.context
      /\ r.route = "raw" => entry2.raw = Newest(Append(e.raw, r.sample.ms)) /\ entry2.native = e.native
      /\ r.route # "raw" => entry2.native = Newest(Append(e.native, Kept(r))) /\ entry2.raw = e.raw
  BY <1>3, <1>4, <1>5, <1>6 DEF Entries
<1>10. /\ history2.context = r.context /\ history2.chosen = chosen
       /\ r.route = "raw" => history2.raw = Append(h.raw, new) /\ history2.native = h.native
       /\ r.route # "raw" => history2.native = Append(h.native, new) /\ history2.raw = h.raw
  BY <1>3, <1>4, <1>7 DEF Histories
<1> QED
  BY <1>3, <1>4, <1>8, <1>9, <1>10 DEF entry2, history2, new, chosen

LEMMA RecordMatches ==
    ASSUME TypeOK, SoundInv, Matches(entry, history), NEW i \in Invocations, Record(i)
    PROVE  Matches(entry', history')
<1> DEFINE r == inv[i]
           new == [sample |-> r.sample, spoilt |-> r.spoilt]
<1>1. CASE UNCHANGED <<entry, history>>
  BY <1>1
<1>2. CASE /\ r.calibrated /\ r.route \in {"raw", "native-rtk"}
           /\ entry' = Recorded(entry, r.context, r.route, Kept(r))
           /\ history' = Noted(r)
  <2>1. r \in States /\ Sound(r, ledger.table) /\ r.pc = "record"
    BY DEF TypeOK, SoundInv, Record
  <2>2. /\ new \in Note /\ new.sample = r.sample /\ new.spoilt = r.spoilt
        /\ r.sample \in Sample /\ r.sample.ms \in Nat /\ Kept(r) \in Sample
    BY <2>1, KeptType DEF Note, States, Sample
  <2>3. /\ r.sample.ms = Kept(r).ms
        /\ r.route = "native-rtk" /\ ~r.spoilt => Kept(r) = r.sample
    <3>1. Kept(r) = [r.totals EXCEPT !.ms = r.sample.ms] /\ r.totals \in Sample
      BY <2>1 DEF Kept, States
    <3>2. r.route = "native-rtk" /\ ~r.spoilt => r.totals = r.sample
      BY <1>2, <2>1 DEF Sound
    <3> QED
      BY <2>2, <3>1, <3>2 DEF Sample
  <2>4. PICK e \in Entries, h \in Histories :
          /\ Matches(e, h)
          /\ entry'.context = r.context /\ history'.context = r.context
          /\ r.route = "raw" => /\ entry'.raw = Newest(Append(e.raw, r.sample.ms))
                                /\ history'.raw = Append(h.raw, new)
                                /\ entry'.native = e.native /\ history'.native = h.native
          /\ r.route # "raw" => /\ entry'.native = Newest(Append(e.native, Kept(r)))
                                /\ history'.native = Append(h.native, new)
                                /\ entry'.raw = e.raw /\ history'.raw = h.raw
    BY <1>2, <2>1, RecordIs
  <2>5. /\ Times(e.raw, h.raw) /\ Tokens(e.native, h.native)
        /\ e.raw \in Seq(Nat) /\ e.native \in Seq(Sample)
        /\ h.raw \in Seq(Note) /\ h.native \in Seq(Note)
    BY <2>4 DEF Matches, Entries, Histories
  <2> HIDE DEF r, new
  <2>6. CASE r.route = "raw"
    <3>1. Times(Newest(Append(e.raw, r.sample.ms)), Append(h.raw, new))
      BY <2>2, <2>5, TimesFollow
    <3> QED
      BY <2>4, <2>5, <2>6, <3>1 DEF Matches
  <2>7. CASE r.route = "native-rtk"
    <3>1. ~new.spoilt => Kept(r) = new.sample
      BY <2>2, <2>3, <2>7
    <3>2. Tokens(Newest(Append(e.native, Kept(r))), Append(h.native, new))
      BY <2>2, <2>3, <2>5, <3>1, TokensFollow
    <3> QED
      BY <2>4, <2>5, <2>7, <3>2 DEF Matches
  <2> QED
    BY <1>2, <2>6, <2>7
<1> QED
  BY <1>1, <1>2 DEF Record, IsEvidence

LEMMA MatchesInit == Init => Matches(entry, history)
<1>1. EmptyEntry("none") = NoEntry
  BY DEF EmptyEntry, NoEntry
<1> QED
  BY <1>1, EmptyMatches DEF Init

LEMMA EvidenceFrame ==
    ASSUME [Next]_vars, \A i \in Invocations : ~Record(i)
    PROVE  UNCHANGED <<entry, history>>
BY DEF Next, vars, Step, Plan, Begin, InitializeTemplate, Copy, Run, Finish, Crash,
       Switch, Import, PurgeLedger, PurgeTemplate, PurgeScratch

LEMMA MatchesStep ==
    ASSUME TypeOK, SoundInv, Matches(entry, history), [Next]_vars
    PROVE  Matches(entry', history')
<1>1. CASE \E i \in Invocations : Record(i)
  BY <1>1, RecordMatches
<1>2. CASE \A i \in Invocations : ~Record(i)
  BY <1>2, EvidenceFrame
<1> QED
  BY <1>1, <1>2

----------------------------------------------------------------------------
(* How soon the entry is stable *)

\* Who runs what the entry, as calibration_plan saw it, was to have next
Going(route) ==
    {i \in Invocations : /\ inv[i].chosen /\ inv[i].route = route
                         /\ inv[i].context = entry.context}
Callers == Cardinality(Invocations)

\* While one kind of run is missing, calibration asks for no more of the other: those that
\* were asked for already are all that can come
Budget(R, N, chosen, recorded, raws, natives) ==
    /\ chosen <= recorded
    /\ R = 0 => chosen + natives <= Callers
    /\ R = 1 => chosen + natives <= Callers + 3
    /\ N = 0 => chosen + raws <= Callers
    /\ N = 1 => chosen + raws <= Callers + 1
FewInv ==
    Budget(Len(entry.raw), Len(entry.native),
           history.chosen, Len(history.raw) + Len(history.native),
           Cardinality(Going("raw")), Cardinality(Going("native-rtk")))

LEMMA GoingSize ==
    ASSUME NEW G \in SUBSET Invocations
    PROVE  /\ IsFiniteSet(G) /\ Cardinality(G) \in Nat /\ Cardinality(G) <= Callers /\ Callers \in Nat
           /\ \A F \in SUBSET G : Cardinality(F) <= Cardinality(G) /\ Cardinality(F) \in Nat
           /\ \A i \in G : \A F \in SUBSET (G \ {i}) : Cardinality(F) + 1 <= Cardinality(G)
<1>1. IsFiniteSet(G) /\ Cardinality(G) <= Callers /\ Callers \in Nat
  BY InvocationsAssumption, FS_Subset, FS_CardinalityType DEF Callers
<1>2. Cardinality(G) \in Nat
  BY <1>1, FS_CardinalityType
<1>3. ASSUME NEW F \in SUBSET G PROVE Cardinality(F) <= Cardinality(G) /\ Cardinality(F) \in Nat
  BY <1>1, FS_Subset, FS_CardinalityType
<1>4. ASSUME NEW i \in G, NEW F \in SUBSET (G \ {i}) PROVE Cardinality(F) + 1 <= Cardinality(G)
  <2>1. IsFiniteSet(G \ {i}) /\ Cardinality(G \ {i}) = Cardinality(G) - 1
    BY <1>1, FS_RemoveElement
  <2>2. Cardinality(F) <= Cardinality(G \ {i}) /\ Cardinality(F) \in Nat
    BY <2>1, FS_Subset, FS_CardinalityType
  <2> QED
    BY <1>2, <2>1, <2>2
<1> QED
  BY <1>1, <1>2, <1>3, <1>4

LEMMA FewFrame ==
    ASSUME TypeOK, FewInv, UNCHANGED <<entry, history>>,
           \A j \in Invocations : inv'[j].chosen =>
               /\ inv[j].chosen /\ inv'[j].context = inv[j].context
               /\ inv'[j].route = inv[j].route \/ inv'[j].route = "wsl1"
    PROVE  FewInv'
<1>1. Going("raw")' \subseteq Going("raw") /\ Going("native-rtk")' \subseteq Going("native-rtk")
  BY DEF Going
<1>2. /\ Going("raw") \in SUBSET Invocations /\ Going("native-rtk") \in SUBSET Invocations
  BY DEF Going
<1>3. /\ Cardinality(Going("raw")') <= Cardinality(Going("raw"))
      /\ Cardinality(Going("native-rtk")') <= Cardinality(Going("native-rtk"))
      /\ Cardinality(Going("raw")) \in Nat /\ Cardinality(Going("native-rtk")) \in Nat
      /\ Cardinality(Going("raw")') \in Nat /\ Cardinality(Going("native-rtk")') \in Nat
      /\ Callers \in Nat
  BY <1>1, <1>2, GoingSize
<1>4. history.chosen \in Nat
  BY DEF TypeOK, Histories
<1> DEFINE raws == Cardinality(Going("raw"))
           natives == Cardinality(Going("native-rtk"))
<1>5. /\ raws' <= raws /\ natives' <= natives
      /\ raws \in Nat /\ natives \in Nat /\ raws' \in Nat /\ natives' \in Nat
  BY <1>3
<1> HIDE DEF raws, natives
<1>6. \A R, N, recorded : Budget(R, N, history.chosen, recorded, raws, natives)
                         => Budget(R, N, history.chosen, recorded, raws', natives')
  BY <1>3, <1>4, <1>5 DEF Budget
<1>7. /\ FewInv <=> Budget(Len(entry.raw), Len(entry.native), history.chosen,
                           Len(history.raw) + Len(history.native), raws, natives)
      /\ FewInv' <=> Budget(Len(entry'.raw), Len(entry'.native), history'.chosen,
                            Len(history'.raw) + Len(history'.native), raws', natives')
  BY DEF FewInv, raws, natives, Budget, Callers
<1> QED
  BY <1>6, <1>7

LEMMA SizesMatch ==
    ASSUME NEW e, NEW h \in Histories, Matches(e, h)
    PROVE  /\ Len(e.raw) = Few(Len(h.raw), MaxSamples)
           /\ Len(e.native) = Few(Len(h.native), MaxSamples)
           /\ Len(h.raw) \in Nat /\ Len(h.native) \in Nat
<1>1. /\ h.raw \in Seq(Note) /\ h.native \in Seq(Note)
      /\ Len(h.raw) \in Nat /\ Len(h.native) \in Nat
  BY DEF Histories
<1> QED
  BY <1>1, MaxSamplesAssumption, EndIs DEF Matches, Times, Tokens

\* How many samples are kept says how many were recorded, as long as they are few
LEMMA KeptOfRecorded ==
    ASSUME TypeOK, Matches(entry, history)
    PROVE  /\ Len(entry.raw) \in Nat /\ Len(entry.native) \in Nat
           /\ \A n \in 0..2 : /\ Len(entry.raw) = n => Len(history.raw) = n
                              /\ Len(entry.native) = n => Len(history.native) = n
<1>1. Len(entry.raw) \in Nat /\ Len(entry.native) \in Nat
  BY DEF TypeOK, Entries
<1>2. \A m \in Nat, n \in 0..2 : Few(m, MaxSamples) = n => m = n
  BY MaxSamplesAssumption DEF Few
<1>3. history \in Histories
  BY DEF TypeOK
<1> QED
  <2> DEFINE A == Len(history.raw)
             B == Len(history.native)
             R == Len(entry.raw)
             N == Len(entry.native)
  <2>1. R = Few(A, MaxSamples) /\ N = Few(B, MaxSamples) /\ A \in Nat /\ B \in Nat
    BY <1>3, SizesMatch
  <2> HIDE DEF A, B, R, N
  <2>2. \A n \in 0..2 : (R = n => A = n) /\ (N = n => B = n)
    BY <1>2, <2>1
  <2> QED
    BY <1>1, <2>2 DEF A, B, R, N

LEMMA NextRouteIs ==
    ASSUME NEW e \in Entries
    PROVE  /\ NextRoute(e, e.context) = "raw" => Len(e.raw) = 0 \/ Len(e.native) >= 2
           /\ NextRoute(e, e.context) = "native-rtk" =>
                  Len(e.raw) >= 2 \/ (Len(e.raw) = 1 /\ Len(e.native) <= 2)
<1> DEFINE R == Len(e.raw)
           N == Len(e.native)
<1>1. R \in Nat /\ N \in Nat /\ (e.raw = <<>> <=> R = 0)
  BY DEF Entries
<1>2. CASE e.raw = <<>>
  BY <1>1, <1>2 DEF NextRoute
<1>3. CASE e.raw # <<>> /\ N < 2
  <2>1. NextRoute(e, e.context) = "native-rtk"
    BY <1>3 DEF NextRoute
  <2> HIDE DEF R, N
  <2>2. R >= 2 \/ (R = 1 /\ N <= 2)
    BY <1>1, <1>3
  <2> QED
    BY <2>1, <2>2 DEF R, N
<1>4. CASE R = 1 /\ N > 2
  <2>1. e.raw # <<>> /\ ~(N < 2)
    <3> HIDE DEF R, N
    <3> QED
      BY <1>1, <1>4
  <2>2. NextRoute(e, e.context) = "raw"
    BY <1>4, <2>1 DEF NextRoute
  <2> HIDE DEF R, N
  <2>3. N >= 2
    BY <1>1, <1>4
  <2> QED
    BY <2>2, <2>3 DEF R, N
<1>5. CASE e.raw # <<>> /\ ~(N < 2) /\ ~(R = 1 /\ N > 2)
  <2> HIDE DEF R, N
  <2>1. N >= 2 /\ (R >= 2 \/ (R = 1 /\ N <= 2))
    BY <1>1, <1>5
  <2> QED
    BY <2>1 DEF R, N
<1> QED
  BY <1>2, <1>3, <1>4, <1>5

\* A plan adds one run of a kind only where the entry lacks it, or knows too little
LEMMA BudgetOfPlan ==
    ASSUME NEW R \in Nat, NEW N \in Nat, NEW c \in Nat, NEW recorded \in Nat,
           NEW raws \in Nat, NEW natives \in Nat, NEW raws2 \in Nat, NEW natives2 \in Nat,
           Callers \in Nat, raws2 <= Callers, natives2 <= Callers,
           Budget(R, N, c, recorded, raws, natives),
           R <= 1 /\ N <= 2 => recorded = R + N,
           raws2 <= raws \/ R = 0 \/ N >= 2,
           natives2 <= natives \/ R >= 2 \/ (R = 1 /\ N <= 2)
    PROVE  Budget(R, N, c, recorded, raws2, natives2)
BY DEF Budget

LEMMA PlanFew ==
    ASSUME TypeOK, Matches(entry, history), FewInv, NEW i \in Invocations, Plan(i)
    PROVE  FewInv'
<1> DEFINE imposed == RouteFor(policy, "command", context)
           preferred == RouteFor(policy, "kind", context)
           route == CASE imposed # "none" -> imposed
                      [] imposed = "none" /\ preferred # "none" -> preferred
                      [] OTHER -> NextRoute(entry, context)
           asked == [route |-> route, adapter |-> IF route = "raw" THEN "raw" ELSE "rtk"]
<1>1. PICK d \in Dispatched(route) :
        LET diverted == d # [route |-> route, adapter |-> IF route = "raw" THEN "raw" ELSE "rtk"]
        IN Set(i, [Idle EXCEPT !.pc = "begin", !.run = runs + 1, !.context = context,
                               !.route = d.route, !.adapter = d.adapter,
                               !.calibrated = imposed = "none",
                               !.chosen = /\ imposed = "none" /\ preferred = "none"
                                          /\ ~diverted])
  BY DEF Plan
<1> DEFINE calibrated == imposed = "none"
           chosen == /\ imposed = "none" /\ preferred = "none" /\ ~(d # asked)
           r == [Idle EXCEPT !.pc = "begin", !.run = runs + 1, !.context = context,
                             !.route = d.route, !.adapter = d.adapter,
                             !.calibrated = calibrated, !.chosen = chosen]
<1>2. Set(i, r)
  BY <1>1
<1>3. chosen => d.route = NextRoute(entry, context)
  <2> SUFFICES ASSUME chosen PROVE d.route = NextRoute(entry, context)
    OBVIOUS
  <2>1. route = NextRoute(entry, context)
    OBVIOUS
  <2> HIDE DEF route
  <2>2. d.route = route
    BY DEF asked
  <2> QED
    BY <2>1, <2>2
<1> HIDE DEF imposed, preferred, route, calibrated, chosen
<1>4. r.chosen = chosen /\ r.route = d.route /\ r.context = context
  BY IdleType DEF States
<1> HIDE DEF r
<1>5. \A j \in Invocations : inv'[j] = IF j = i THEN r ELSE inv[j]
  BY <1>2 DEF Set, TypeOK
<1>6. UNCHANGED <<entry, history>>
  BY DEF Plan
<1> DEFINE raw == Going("raw")
           native == Going("native-rtk")
           R == Len(entry.raw)
           N == Len(entry.native)
           c == history.chosen
           recorded == Len(history.raw) + Len(history.native)
           raws == Cardinality(raw)
           natives == Cardinality(native)
<1>7. /\ raw \in SUBSET Invocations /\ native \in SUBSET Invocations
      /\ raw' \in SUBSET Invocations /\ native' \in SUBSET Invocations
  BY DEF Going
\* Only what the entry lacks is added to
<1>8. /\ ~(raw' \subseteq raw) => R = 0 \/ N >= 2
      /\ ~(native' \subseteq native) => R >= 2 \/ (R = 1 /\ N <= 2)
  <2>1. \A j \in Invocations : j # i => /\ j \in raw' => j \in raw
                                        /\ j \in native' => j \in native
    BY <1>5, <1>6 DEF Going
  <2>2. i \in raw' => r.chosen /\ r.route = "raw" /\ r.context = entry.context
    BY <1>5, <1>6 DEF Going
  <2>3. i \in native' => r.chosen /\ r.route = "native-rtk" /\ r.context = entry.context
    BY <1>5, <1>6 DEF Going
  <2>5. i \in raw' => R = 0 \/ N >= 2
    BY <1>3, <1>4, <2>2, NextRouteIs DEF TypeOK
  <2>6. i \in native' => R >= 2 \/ (R = 1 /\ N <= 2)
    BY <1>3, <1>4, <2>3, NextRouteIs DEF TypeOK
  <2> QED
    BY <1>7, <2>1, <2>5, <2>6
<1>9. /\ raws \in Nat /\ natives \in Nat /\ raws' \in Nat /\ natives' \in Nat /\ Callers \in Nat
      /\ raws' <= Callers /\ natives' <= Callers
      /\ raw' \subseteq raw => raws' <= raws
      /\ native' \subseteq native => natives' <= natives
  BY <1>7, GoingSize
<1>10. /\ R \in Nat /\ N \in Nat /\ c \in Nat /\ recorded \in Nat
       /\ R <= 1 /\ N <= 2 => recorded = R + N
  <2> DEFINE A == Len(history.raw)
             B == Len(history.native)
  <2>1. R \in Nat /\ N \in Nat /\ c \in Nat /\ A \in Nat /\ B \in Nat
    BY KeptOfRecorded DEF TypeOK, Histories
  <2>2. R <= 1 /\ N <= 2 => A = R /\ B = N
    <3>1. R <= 1 /\ N <= 2 => R \in 0..2 /\ N \in 0..2
      <4> HIDE DEF R, N
      <4> QED
        BY <2>1
    <3> QED
      BY <3>1, KeptOfRecorded
  <2>3. recorded = A + B
    OBVIOUS
  <2> HIDE DEF R, N, A, B, recorded
  <2> QED
    BY <2>1, <2>2, <2>3
<1>11. Budget(R, N, c, recorded, raws, natives)
  BY DEF FewInv
<1>12. /\ FewInv' <=> Budget(R', N', c', recorded', raws', natives')
       /\ R' = R /\ N' = N /\ c' = c /\ recorded' = recorded
  BY <1>6 DEF FewInv, Budget, Callers
<1>13. /\ raws' <= raws \/ R = 0 \/ N >= 2
       /\ natives' <= natives \/ R >= 2 \/ (R = 1 /\ N <= 2)
  <2> HIDE DEF R, N, raws, natives, raw, native
  <2> QED
    BY <1>8, <1>9
<1> HIDE DEF R, N, c, recorded, raws, natives, raw, native
<1>14. Budget(R, N, c, recorded, raws', natives')
  BY <1>9, <1>10, <1>11, <1>13, BudgetOfPlan
<1> QED
  BY <1>12, <1>14

LEMMA BudgetOfRecord ==
    ASSUME NEW R \in Nat, NEW N \in Nat, NEW c \in Nat, NEW recorded \in Nat,
           NEW raws \in Nat, NEW natives \in Nat, NEW raws2 \in Nat, NEW natives2 \in Nat,
           NEW c2 \in Nat, Callers \in Nat, raws2 <= raws, natives2 <= natives, c2 <= c + 1,
           Budget(R, N, c, recorded, raws, natives)
    PROVE  /\ c2 + raws2 <= c + raws =>
                  \A R2 : R2 = R + 1 \/ (R2 = R /\ R > 1) =>
                      Budget(R2, N, c2, recorded + 1, raws2, natives2)
           /\ c2 + natives2 <= c + natives =>
                  \A N2 : N2 = N + 1 \/ (N2 = N /\ N > 1) =>
                      Budget(R, N2, c2, recorded + 1, raws2, natives2)
BY DEF Budget

LEMMA BudgetOfSwitch ==
    ASSUME NEW R, NEW N, NEW c \in Nat, c <= 1, Callers \in Nat,
           NEW raws \in Nat, NEW natives \in Nat, raws + 1 <= Callers, natives + 1 <= Callers
    PROVE  Budget(R, N, c, 1, raws, natives)
BY DEF Budget

LEMMA Traded ==
    ASSUME NEW c \in Nat, NEW c2 \in Nat, NEW n \in Nat, NEW n2 \in Nat,
           \/ c2 <= c + 1 /\ n2 + 1 <= n
           \/ c2 = c /\ n2 <= n
    PROVE  c2 + n2 <= c + n
OBVIOUS

LEMMA FewMore ==
    ASSUME NEW n \in Nat
    PROVE  \/ Few(n + 1, MaxSamples) = Few(n, MaxSamples) + 1
           \/ Few(n + 1, MaxSamples) = Few(n, MaxSamples) /\ Few(n, MaxSamples) > 1
BY MaxSamplesAssumption DEF Few

LEMMA RecordFew ==
    ASSUME TypeOK, SoundInv, Matches(entry, history), FewInv, NEW i \in Invocations, Record(i)
    PROVE  FewInv'
<1> DEFINE r == inv[i]
<1>0. r \in States /\ r.pc = "record"
  BY DEF TypeOK, Record
<1>1. \A j \in Invocations : inv'[j] = IF j = i THEN Idle ELSE inv[j]
  BY DEF Record, Set, TypeOK
<1>2. ~Idle.chosen
  BY DEF Idle
<1>3. CASE UNCHANGED <<entry, history>>
  BY <1>1, <1>2, <1>3, FewFrame
<1>4. CASE /\ r.route \in {"raw", "native-rtk"}
           /\ entry' = Recorded(entry, r.context, r.route, Kept(r))
           /\ history' = Noted(r)
  <2> DEFINE raw == Going("raw")
             native == Going("native-rtk")
             R == Len(entry.raw)
             N == Len(entry.native)
             c == history.chosen
             recorded == Len(history.raw) + Len(history.native)
             raws == Cardinality(raw)
             natives == Cardinality(native)
             new == [sample |-> r.sample, spoilt |-> r.spoilt]
  <2>1. Matches(entry', history') /\ TypeOK'
    <3>1. Record(i) => [Next]_vars
      BY DEF Next, Step
    <3>2. entry' \in Entries /\ history' \in Histories
      BY RecordType DEF TypeOK
    <3> QED
      BY RecordMatches, RecordType
  <2>2. PICK e \in Entries, h \in Histories :
          /\ \/ e = entry /\ h = history /\ entry.context = r.context
             \/ e = EmptyEntry(r.context) /\ h = Unrecorded(r.context) /\ entry.context # r.context
          /\ c' = h.chosen + (IF r.chosen THEN 1 ELSE 0)
          /\ entry'.context = r.context
          /\ r.route = "raw" => history'.raw = Append(h.raw, new) /\ history'.native = h.native
          /\ r.route # "raw" => history'.native = Append(h.native, new) /\ history'.raw = h.raw
    BY <1>0, <1>4, RecordIs
  <2>3. /\ h.raw \in Seq(Note) /\ h.native \in Seq(Note) /\ h.chosen \in Nat
        /\ Len(h.raw) \in Nat /\ Len(h.native) \in Nat
    BY DEF Histories
  <2>4. /\ r.route = "raw" => Len(history'.raw) = Len(h.raw) + 1 /\ Len(history'.native) = Len(h.native)
        /\ r.route # "raw" => Len(history'.native) = Len(h.native) + 1 /\ Len(history'.raw) = Len(h.raw)
    BY <2>2, <2>3
  <2>5. /\ raw \in SUBSET Invocations /\ native \in SUBSET Invocations
        /\ raw' \in SUBSET (Invocations \ {i}) /\ native' \in SUBSET (Invocations \ {i})
    BY <1>1, <1>2 DEF Going
  <2>6. /\ raws \in Nat /\ natives \in Nat /\ raws' \in Nat /\ natives' \in Nat /\ Callers \in Nat
        /\ raws' + 1 <= Callers /\ natives' + 1 <= Callers
    <3>1. \A F \in SUBSET (Invocations \ {i}) : Cardinality(F) + 1 <= Callers /\ Cardinality(F) \in Nat
      BY GoingSize DEF Callers
    <3> QED
      BY <2>5, <3>1, GoingSize
  <2>7. /\ Len(history'.raw) \in Nat /\ Len(history'.native) \in Nat
        /\ R' = Few(Len(history'.raw), MaxSamples) /\ N' = Few(Len(history'.native), MaxSamples)
    BY <2>1, SizesMatch DEF TypeOK
  <2>8. FewInv' <=> Budget(R', N', c', recorded', raws', natives')
    BY DEF FewInv, Budget, Callers
  <2>9. CASE entry.context = r.context
    <3>1. e = entry /\ h = history
      BY <2>2, <2>9
    <3>2. raw' \subseteq raw /\ native' \subseteq native
      BY <1>1, <1>2, <2>2, <2>9 DEF Going
    <3>3. raws' <= raws /\ natives' <= natives
      BY <2>5, <3>2, GoingSize
    <3>4. c \in Nat /\ c' \in Nat /\ c' <= c + 1
      BY <2>2, <2>3, <3>1
    <3>5. r.route = "raw" => c' + raws' <= c + raws
      <4>1. CASE r.route = "raw" /\ r.chosen
        <5>1. i \in raw /\ raw' \subseteq raw \ {i}
          BY <2>5, <2>9, <3>2, <4>1 DEF Going
        <5>2. raws' + 1 <= raws
          BY <2>5, <5>1, GoingSize
        <5> HIDE DEF raws, c
        <5> QED
          BY <2>6, <3>4, <5>2, Traded
      <4>2. CASE ~r.chosen
        <5>1. c' = c
          BY <2>2, <3>1, <3>4, <4>2
        <5> HIDE DEF raws, natives, c
        <5> QED
          BY <2>6, <3>3, <3>4, <5>1, Traded
      <4> QED
        BY <4>1, <4>2
    <3>6. r.route # "raw" => c' + natives' <= c + natives
      <4>1. CASE r.route # "raw" /\ r.chosen
        <5>1. i \in native /\ native' \subseteq native \ {i}
          BY <1>4, <2>5, <2>9, <3>2, <4>1 DEF Going
        <5>2. natives' + 1 <= natives
          BY <2>5, <5>1, GoingSize
        <5> HIDE DEF natives, c
        <5> QED
          BY <2>6, <3>4, <5>2, Traded
      <4>2. CASE ~r.chosen
        <5>1. c' = c
          BY <2>2, <3>1, <3>4, <4>2
        <5> HIDE DEF raws, natives, c
        <5> QED
          BY <2>6, <3>3, <3>4, <5>1, Traded
      <4> QED
        BY <4>1, <4>2
    <3>7. /\ R = Few(Len(history.raw), MaxSamples) /\ N = Few(Len(history.native), MaxSamples)
          /\ Len(history.raw) \in Nat /\ Len(history.native) \in Nat /\ R \in Nat /\ N \in Nat
      BY SizesMatch, KeptOfRecorded DEF TypeOK
    <3>8. /\ r.route = "raw" => /\ R' = R + 1 \/ (R' = R /\ R > 1)
                                /\ N' = N /\ recorded' = recorded + 1
          /\ r.route # "raw" => /\ N' = N + 1 \/ (N' = N /\ N > 1)
                                /\ R' = R /\ recorded' = recorded + 1
      <4> DEFINE A == Len(history.raw)
                 B == Len(history.native)
      <4>1. /\ r.route = "raw" => A' = A + 1 /\ B' = B
            /\ r.route # "raw" => B' = B + 1 /\ A' = A
        BY <2>4, <3>1
      <4>2. R = Few(A, MaxSamples) /\ N = Few(B, MaxSamples) /\ A \in Nat /\ B \in Nat
            /\ R' = Few(A', MaxSamples) /\ N' = Few(B', MaxSamples)
        BY <2>7, <3>7
      <4>3. recorded = A + B /\ recorded' = A' + B'
        OBVIOUS
      <4> HIDE DEF A, B, R, N, recorded, r
      <4> QED
        BY <4>1, <4>2, <4>3, FewMore
    <3>9. Budget(R, N, c, recorded, raws, natives) /\ recorded \in Nat
      <4>1. Budget(R, N, c, recorded, raws, natives)
        BY DEF FewInv
      <4> DEFINE A == Len(history.raw)
                 B == Len(history.native)
      <4>2. A \in Nat /\ B \in Nat /\ recorded = A + B
        BY <3>7
      <4> HIDE DEF A, B, R, N, c, recorded, raws, natives
      <4> QED
        BY <4>1, <4>2
    <3> HIDE DEF R, N, c, recorded, raws, natives, r
    <3>10. Budget(R', N', c', recorded', raws', natives')
      <4>1. CASE r.route = "raw"
        <5>1. \A R2 : R2 = R + 1 \/ (R2 = R /\ R > 1) =>
                Budget(R2, N, c', recorded + 1, raws', natives')
          BY <2>6, <3>3, <3>4, <3>5, <3>7, <3>9, <4>1, BudgetOfRecord
        <5> QED
          BY <3>8, <4>1, <5>1
      <4>2. CASE r.route # "raw"
        <5>1. \A N2 : N2 = N + 1 \/ (N2 = N /\ N > 1) =>
                Budget(R, N2, c', recorded + 1, raws', natives')
          BY <2>6, <3>3, <3>4, <3>6, <3>7, <3>9, <4>2, BudgetOfRecord
        <5> QED
          BY <3>8, <4>2, <5>1
      <4> QED
        BY <4>1, <4>2
    <3> QED
      BY <2>8, <3>10
  <2>10. CASE entry.context # r.context
    <3>1. h.chosen = 0 /\ h.raw = <<>> /\ h.native = <<>>
      BY <2>2, <2>10 DEF Unrecorded
    <3>2. c' \in Nat /\ c' <= 1
      BY <2>2, <3>1
    <3>3. recorded' = 1
      <4>1. Len(h.raw) = 0 /\ Len(h.native) = 0
        BY <3>1
      <4>2. \/ Len(history'.raw) = 1 /\ Len(history'.native) = 0
            \/ Len(history'.raw) = 0 /\ Len(history'.native) = 1
        BY <2>4, <4>1
      <4> DEFINE A == Len(history.raw)
                 B == Len(history.native)
      <4>3. recorded' = A' + B' /\ ((A' = 1 /\ B' = 0) \/ (A' = 0 /\ B' = 1))
        BY <4>2
      <4> HIDE DEF A, B, recorded
      <4> QED
        BY <4>3
    <3> HIDE DEF R, N, c, recorded, raws, natives
    <3>4. Budget(R', N', c', recorded', raws', natives')
      BY <2>6, <3>2, <3>3, BudgetOfSwitch
    <3> QED
      BY <2>8, <3>4
  <2> QED
    BY <2>9, <2>10
<1> QED
  BY <1>3, <1>4 DEF Record, IsEvidence

LEMMA FewInit == Init => FewInv
<1> SUFFICES ASSUME Init PROVE FewInv
  OBVIOUS
<1>1. Going("raw") = {} /\ Going("native-rtk") = {}
  BY DEF Init, Going, Idle
<1>2. Cardinality({}) = 0 /\ Callers \in Nat
  BY FS_EmptySet, FS_CardinalityType, InvocationsAssumption DEF Callers
<1>3. /\ entry.raw = <<>> /\ entry.native = <<>>
      /\ history.raw = <<>> /\ history.native = <<>> /\ history.chosen = 0
  BY DEF Init, NoEntry, Unrecorded
<1>4. Len(<<>>) = 0
  OBVIOUS
<1>5. /\ Len(entry.raw) = 0 /\ Len(entry.native) = 0 /\ history.chosen = 0
      /\ Len(history.raw) = 0 /\ Len(history.native) = 0
      /\ Cardinality(Going("raw")) = 0 /\ Cardinality(Going("native-rtk")) = 0
  BY <1>1, <1>2, <1>3, <1>4
<1>6. Budget(0, 0, 0, 0 + 0, 0, 0)
  BY <1>2 DEF Budget
<1> QED
  BY <1>5, <1>6 DEF FewInv

\* Every other step only forgets what was asked for
LEMMA OthersForget ==
    ASSUME TypeOK, [Next]_vars, \A i \in Invocations : ~Plan(i) /\ ~Record(i), NEW j \in Invocations,
           inv'[j].chosen
    PROVE  /\ inv[j].chosen /\ inv'[j].context = inv[j].context
           /\ inv'[j].route = inv[j].route \/ inv'[j].route = "wsl1"
<1> DEFINE Same(r, q) == /\ q.chosen => r.chosen /\ q.context = r.context
                         /\ q.chosen => q.route = r.route \/ q.route = "wsl1"
<1>0. \A k \in Invocations : inv[k] \in States
  BY DEF TypeOK
<1>1. ASSUME NEW i \in Invocations, NEW r, Set(i, r), Same(inv[i], r) PROVE Same(inv[j], inv'[j])
  BY <1>1 DEF Set, TypeOK
<1>2. Same(inv[j], Idle)
  BY DEF Idle
<1>3. ASSUME NEW k \in Invocations PROVE Same(inv[k], Swept(k, inv[k])) /\ Same(inv[k], Disturbed[k])
  <2>1. Disturbed[k] = [inv[k] EXCEPT !.spoilt = inv[k].pc # "idle"]
    BY DEF Disturbed
  <2> QED
    BY <1>0, <2>1 DEF Swept, States
<1>4. ASSUME NEW i \in Invocations, Begin(i) PROVE Same(inv[j], inv'[j])
  <2>1. CASE Unmeasured(inv[i])
    <3>1. Set(i, [inv[i] EXCEPT !.pc = "run"])
      BY <1>4, <2>1 DEF Begin
    <3>2. Same(inv[i], [inv[i] EXCEPT !.pc = "run"])
      BY <1>0 DEF States
    <3> HIDE DEF Same
    <3> QED
      BY <1>1, <3>1, <3>2
  <2>2. CASE ~Unmeasured(inv[i])
    <3> DEFINE pc == CASE inv[i].adapter = "raw" -> "run"
                       [] inv[i].adapter = "rtk" /\ template = "absent" -> "template"
                       [] OTHER -> "copy"
               persist == MetricsOn[inv[i].context]
               tracker == inv[i].adapter = "rtk"
               mine == [inv[i] EXCEPT !.persist = persist, !.tracker = tracker, !.pc = pc]
    <3>1. PICK old \in SUBSET {k \in Invocations \ {i} : HasScratch(inv[k])} :
            inv' = [k \in Invocations |->
                      CASE k \in old -> Swept(k, inv[k])
                        [] k # i /\ k \notin old -> inv[k]
                        [] OTHER -> mine]
      BY <1>4, <2>2 DEF Begin
    <3>2. Same(inv[i], mine)
      <4> HIDE DEF pc, persist, tracker
      <4> QED
        BY <1>0 DEF States
    <3>3. Same(inv[j], inv[j])
      OBVIOUS
    <3> HIDE DEF mine, Same
    <3> QED
      BY <1>3, <3>1, <3>2, <3>3
  <2> QED
    BY <2>1, <2>2
<1>5. ASSUME NEW i \in Invocations, InitializeTemplate(i) \/ Copy(i) \/ Finish(i)
      PROVE  Same(inv[j], inv'[j])
  <2>1. \A p, s, x : Same(inv[i], [inv[i] EXCEPT !.pc = p, !.scratch = s, !.spoilt = x])
    BY <1>0 DEF States
  <2>2. \A p : Same(inv[i], [inv[i] EXCEPT !.pc = p])
    BY <1>0 DEF States
  <2>3. \A p, t, q, x : Same(inv[i], [inv[i] EXCEPT !.pc = p, !.tracker = t, !.persist = q, !.spoilt = x])
    BY <1>0 DEF States
  <2>4. \A p, s, t : Same(inv[i], [inv[i] EXCEPT !.pc = p, !.scratch = s, !.totals = t])
    BY <1>0 DEF States
  <2> HIDE DEF Same
  <2>5. \/ \E p : Set(i, [inv[i] EXCEPT !.pc = p])
        \/ \E p, s, x : Set(i, [inv[i] EXCEPT !.pc = p, !.scratch = s, !.spoilt = x])
        \/ \E p, t, q, x : Set(i, [inv[i] EXCEPT !.pc = p, !.tracker = t, !.persist = q, !.spoilt = x])
        \/ \E p, s, t : Set(i, [inv[i] EXCEPT !.pc = p, !.scratch = s, !.totals = t])
    BY <1>5, Zenon DEF InitializeTemplate, Copy, Finish
  <2> QED
    BY <1>1, <2>1, <2>2, <2>3, <2>4, <2>5
<1>6. ASSUME NEW i \in Invocations, Run(i) PROVE Same(inv[j], inv'[j])
  <2>1. PICK exit \in {0, 1}, fallback \in BOOLEAN, c \in Counts(inv[i]) :
          Set(i, [inv[i] EXCEPT !.pc = "finish", !.exit = exit, !.sample = Taken(inv[i]), !.counted = c,
                                !.route = IF fallback THEN "wsl1" ELSE @,
                                !.scratch = IF @ = "none" /\ c THEN "own" ELSE @])
    BY ZenonT(60), <1>6 DEF Run
  <2> DEFINE route == IF fallback THEN "wsl1" ELSE inv[i].route
             scratch == IF inv[i].scratch = "none" /\ c THEN "own" ELSE inv[i].scratch
             sample == Taken(inv[i])
             r == [inv[i] EXCEPT !.pc = "finish", !.exit = exit, !.sample = sample, !.counted = c,
                                 !.route = route, !.scratch = scratch]
  <2>2. route = inv[i].route \/ route = "wsl1"
    OBVIOUS
  <2>3. Same(inv[i], r)
    <3> HIDE DEF route, scratch, sample
    <3>1. r.chosen = inv[i].chosen /\ r.context = inv[i].context /\ r.route = route
      BY <1>0 DEF States
    <3> HIDE DEF r
    <3> QED
      BY <2>2, <3>1
  <2> HIDE DEF Same
  <2> QED
    BY <1>1, <2>1, <2>3
<1>7. Same(inv[j], inv[j])
  OBVIOUS
<1> HIDE DEF Same
<1>8. ASSUME NEW i \in Invocations, Step(i) PROVE Same(inv[j], inv'[j])
  <2>1. Crash(i) => Same(inv[j], inv'[j])
    BY <1>1, <1>2, <1>7 DEF Crash, Set, TypeOK
  <2> QED
    BY <1>4, <1>5, <1>6, <1>8, <2>1 DEF Step
<1>9. ASSUME UNCHANGED vars \/ Switch \/ Import PROVE Same(inv[j], inv'[j])
  BY <1>7, <1>9 DEF vars, files, Switch, Import
<1>10. ASSUME PurgeLedger \/ PurgeTemplate PROVE Same(inv[j], inv'[j])
  BY <1>3, <1>7, <1>10 DEF PurgeLedger, PurgeTemplate
<1>11. ASSUME PurgeScratch PROVE Same(inv[j], inv'[j])
  <2>1. PICK open \in SUBSET Invocations :
          inv' = [k \in Invocations |->
                    IF k \notin open /\ HasScratch(inv[k]) THEN Swept(k, inv[k]) ELSE Disturbed[k]]
    BY <1>11 DEF PurgeScratch
  <2> QED
    BY <1>3, <2>1
<1>12. Same(inv[j], inv'[j])
  BY <1>8, <1>9, <1>10, <1>11 DEF Next
<1> QED
  BY <1>12 DEF Same

LEMMA FewStep ==
    ASSUME TypeOK, SoundInv, Matches(entry, history), FewInv, [Next]_vars
    PROVE  FewInv'
<1>1. CASE \E i \in Invocations : Plan(i)
  BY <1>1, PlanFew
<1>2. CASE \E i \in Invocations : Record(i)
  BY <1>2, RecordFew
<1>3. CASE \A i \in Invocations : ~Plan(i) /\ ~Record(i)
  <2>1. UNCHANGED <<entry, history>>
    BY <1>3, EvidenceFrame
  <2> QED
    BY <1>3, <2>1, OthersForget, FewFrame
<1> QED
  BY <1>1, <1>2, <1>3

----------------------------------------------------------------------------
(* Theorems *)

Inv ==
    /\ TypeOK /\ LedgerKeepsNewest
    /\ SoundInv /\ Matches(entry, history) /\ FewInv

LEMMA Invariant == Spec => []Inv
<1>1. Init => Inv
  BY TypeInit, LedgerInit, SoundInit, MatchesInit, FewInit DEF Inv
<1>2. Inv /\ [Next]_vars => Inv'
  <2> SUFFICES ASSUME Inv, [Next]_vars PROVE Inv'
    OBVIOUS
  <2>1. TypeOK' /\ LedgerKeepsNewest'
    BY TypeStep, LedgerStep DEF Inv
  <2>2. SoundInv' /\ FewInv'
    BY SoundStep, FewStep DEF Inv
  <2>3. Matches(entry, history)'
    BY MatchesStep DEF Inv
  <2> QED
    BY <2>1, <2>2, <2>3 DEF Inv
<1> QED
  BY <1>1, <1>2, PTL DEF Spec

(***************************************************************************)
(* Every variable keeps its type, and a run that began has been planned.   *)
(***************************************************************************)
THEOREM TypeCorrect == Spec => []TypeOK
<1>1. Inv => TypeOK
  BY DEF Inv
<1> QED
  BY <1>1, Invariant, PTL

(***************************************************************************)
(* The ledger holds the newest MaxRows of the runs filed since it was      *)
(* made, numbered as they finished, for any number of invocations.         *)
(***************************************************************************)
THEOREM LedgerSound == Spec => []LedgerKeepsNewest
<1>1. Inv => LedgerKeepsNewest
  BY DEF Inv
<1> QED
  BY <1>1, Invariant, PTL

(***************************************************************************)
(* The evidence is that of the newest runs of its context, and the tokens  *)
(* of a sample nothing disturbed are its own run's.                        *)
(***************************************************************************)
THEOREM SamplesSound == Spec => []SamplesAreLatest
<1>1. Inv => SamplesAreLatest
  BY MatchesIs DEF Inv
<1> QED
  BY <1>1, Invariant, PTL

(***************************************************************************)
(* However many invocations are under way at once, the entry is stable     *)
(* after three runs that calibration asked for and one more of each.       *)
(***************************************************************************)
THEOREM StableSoon == Spec => []StabilisesInFew
<1>1. Inv => StabilisesInFew
  <2> SUFFICES ASSUME Inv, Phase(entry) # "stable"
               PROVE  history.chosen <= 3 + Cardinality(Invocations)
    BY DEF StabilisesInFew
  <2> DEFINE R == Len(entry.raw)
             N == Len(entry.native)
             raws == Cardinality(Going("raw"))
             natives == Cardinality(Going("native-rtk"))
             c == history.chosen
  <2>1. R \in Nat /\ N \in Nat /\ c \in Nat /\ (entry.raw = <<>> <=> R = 0)
    BY DEF Inv, TypeOK, Entries, Histories
  <2>2. raws \in Nat /\ natives \in Nat /\ Callers \in Nat
    <3>1. Going("raw") \in SUBSET Invocations /\ Going("native-rtk") \in SUBSET Invocations
      BY DEF Going
    <3> QED
      BY <3>1, GoingSize
  <2>3. entry.raw = <<>> \/ N < 2 \/ R < 2
    BY DEF Phase
  <2>4. /\ R = 0 => c + natives <= Callers
        /\ R = 1 => c + natives <= Callers + 3
        /\ N = 0 => c + raws <= Callers
        /\ N = 1 => c + raws <= Callers + 1
    BY DEF Inv, FewInv, Budget
  <2>5. R \in {0, 1} \/ N \in {0, 1}
    <3> HIDE DEF R, N
    <3> QED
      BY <2>1, <2>3
  <2> HIDE DEF R, N, c, raws, natives
  <2>6. c <= 3 + Callers
    BY <2>1, <2>2, <2>4, <2>5
  <2> QED
    BY <2>6 DEF c, Callers
<1> QED
  BY <1>1, Invariant, PTL
=============================================================================
