------------------------- MODULE CommandLineProofs -------------------------
(***************************************************************************)
(* The three readers of a command line, for every vocabulary of tokens and *)
(* for command lines of any length.                                        *)
(*                                                                         *)
(* A reader is a recursive function of the position.  That it exists       *)
(* (Recursion), what it computes step by step (RgReadIs, GitReadIs,        *)
(* KeyReadIs) and every fact about all positions follow by induction,      *)
(* which is stated here about sets of numbers (SetInduction, UpTo).        *)
(*                                                                         *)
(* Each theorem follows a relation from position to position: Alike, of an *)
(* argument and its translation; Agree, of the states of the two readers   *)
(* of rg; Same, of two states of one reader that end in one key.           *)
(***************************************************************************)
EXTENDS CommandLine, SequenceTheorems, WellFoundedInduction, TLAPS

----------------------------------------------------------------------------
(* Induction over the positions of a list. *)

(***************************************************************************)
(* A set of numbers that holds 0 and the successor of each of its numbers  *)
(* holds every number: its complement has no least element.                *)
(***************************************************************************)
LEMMA SetInduction ==
  ASSUME NEW T, 0 \in T, \A n \in Nat : n \in T => n + 1 \in T
  PROVE  Nat \subseteq T
<1> DEFINE Out == Nat \ T
<1>1. SUFFICES ASSUME Out # {} PROVE FALSE
  OBVIOUS
<1>2. PICK x \in Out : \A y \in Out : ~ (<<y, x>> \in OpToRel(<, Nat))
  <2> HIDE DEF Out
  <2>1. Out \subseteq Nat
    BY DEF Out
  <2> QED
    BY <2>1, <1>1, NatLessThanWellFounded, WFMin
<1>3. x # 0 /\ x \in Nat
  OBVIOUS
<1>4. x - 1 \in Out
  BY <1>3
<1>5. <<x - 1, x>> \in OpToRel(<, Nat)
  BY <1>3 DEF OpToRel
<1> QED
  BY <1>2, <1>4, <1>5

\* The same up to the end of a list.
LEMMA UpTo ==
  ASSUME NEW N \in Nat, NEW T, 0 \in T, \A n \in 1..N : n - 1 \in T => n \in T
  PROVE  0..N \subseteq T
<1> DEFINE U == {n \in Nat : n <= N => n \in T}
<1>1. 0 \in U
  OBVIOUS
<1>2. \A n \in Nat : n \in U => n + 1 \in U
  <2> SUFFICES ASSUME NEW n \in Nat, n \in U, n + 1 <= N
               PROVE  n + 1 \in T
    OBVIOUS
  <2>1. n + 1 \in 1..N /\ (n + 1) - 1 = n /\ n \in T
    OBVIOUS
  <2> QED
    BY <2>1
<1>3. Nat \subseteq U
  <2> HIDE DEF U
  <2> QED
    BY <1>1, <1>2, SetInduction
<1> QED
  BY <1>3

(***************************************************************************)
(* A function may be defined by recursion over the positions of a list,    *)
(* from start, with step[<<s, n>>] the state after s at position n.        *)
(***************************************************************************)
StepFunctions(S, N) == [S \X (1..N) -> S]

Follows(f, S, start, N, step) ==
  /\ f \in [0..N -> S]
  /\ f[0] = start
  /\ \A n \in 1..N : f[n] = step[<<f[n - 1], n>>]

LEMMA Recursion ==
  ASSUME NEW S, NEW start \in S, NEW N \in Nat, NEW step \in StepFunctions(S, N)
  PROVE  \E f : Follows(f, S, start, N, step)
<1> USE DEF StepFunctions
<1> DEFINE Run(f, m) == f[0] = start /\ \A n \in 1..m : f[n] = step[<<f[n - 1], n>>]
           T == {m \in 0..N : \E f \in [0..m -> S] : Run(f, m)}
<1>1. 0 \in T
  <2> DEFINE g == [n \in 0..0 |-> start]
  <2>1. g \in [0..0 -> S] /\ Run(g, 0)
    OBVIOUS
  <2>2. 0 \in 0..N
    OBVIOUS
  <2> HIDE DEF g, Run
  <2> QED
    BY <2>1, <2>2
<1>2. ASSUME NEW m \in 1..N, m - 1 \in T PROVE m \in T
  <2>1. PICK f \in [0..(m - 1) -> S] : Run(f, m - 1)
    BY <1>2
  <2> DEFINE last == step[<<f[m - 1], m>>]
             g == [n \in 0..m |-> IF n = m THEN last ELSE f[n]]
  <2>2. last \in S
    OBVIOUS
  <2>3. g \in [0..m -> S]
    <3> HIDE DEF last
    <3>1. \A n \in 0..m : n # m => n \in 0..(m - 1)
      OBVIOUS
    <3> QED
      BY <2>2, <3>1
  <2>4. g[0] = start
    BY <2>1
  <2>5. ASSUME NEW n \in 1..m PROVE g[n] = step[<<g[n - 1], n>>]
    <3>1. CASE n = m
      <4>1. g[n] = step[<<f[m - 1], m>>]
        BY <3>1
      <4>2. g[n - 1] = f[m - 1]
        BY <3>1
      <4> QED
        BY <3>1, <4>1, <4>2
    <3>2. CASE n # m
      <4>1. n \in 1..(m - 1) /\ n - 1 \in 0..m /\ n - 1 # m
        BY <3>2
      <4>2. g[n] = f[n] /\ g[n - 1] = f[n - 1]
        BY <3>2, <4>1
      <4> QED
        BY <2>1, <4>1, <4>2
    <3> QED
      BY <3>1, <3>2
  <2>6. Run(g, m)
    BY <2>4, <2>5
  <2> HIDE DEF g, Run
  <2> QED
    BY <2>3, <2>6
<1>3. N \in T
  <2> HIDE DEF T
  <2> QED
    BY <1>1, <1>2, UpTo
<1> QED
  BY <1>3 DEF Follows

(***************************************************************************)
(* What follows the recursion as long as it stays in S does stay in S.     *)
(***************************************************************************)
LEMMA RecursionStays ==
  ASSUME NEW S, NEW start \in S, NEW N \in Nat, NEW f, f[0] = start,
         \A n \in 1..N : f[n - 1] \in S => f[n] \in S
  PROVE  \A n \in 0..N : f[n] \in S
<1> DEFINE T == {n \in 0..N : f[n] \in S}
<1>1. 0 \in T
  OBVIOUS
<1>2. \A n \in 1..N : n - 1 \in T => n \in T
  OBVIOUS
<1>3. 0..N \subseteq T
  <2> HIDE DEF T
  <2> QED
    BY <1>1, <1>2, UpTo
<1> QED
  BY <1>3

----------------------------------------------------------------------------
(* What a reader knows after a token.  These are the types of its state.   *)

RgStates ==
  [awaits : rg_option_takes_value \cup {"none"}, positional : Nat, pattern : BOOLEAN,
   pathOnly : BOOLEAN, ended : BOOLEAN, closed : BOOLEAN,
   semantic : {"Opaque", "Path", "Pattern", "PathList"}]

GitStates ==
  [awaits : is_global_option_with_separate_value \cup {"none"}, wsl : BOOLEAN,
   found : BOOLEAN, access : {"Unknown", "ReadOnly", "Mutating"}, subcommand : Nat]

\* The modes of the key, and what they can be set to.
Fields == {"output", "matcher", "case", "layout"}
Modes == {"default", "count", "files", "json", "quiet", "stats", "fixed", "pcre2", "engine",
          "insensitive", "sensitive", "smart", "only", "invert", "context"}

KeyStates ==
  [source : {"pos", "re", "file", "mix"}, shape : {"none", "lit", "complex", "mix"},
   size : {"none", "s", "m", "mix"}, patterns : Nat, paths : Nat, filters : Nat,
   output : Modes, matcher : Modes, case : Modes, layout : Modes,
   ended : BOOLEAN, awaits : separate_value_option \cup {"none"}, failed : BOOLEAN,
   role : {"none", "path", "pattern"}]

\* Each step of a reader keeps the type of its state.
LEMMA RgStepType ==
  ASSUME NEW s \in RgStates, NEW t \in Tokens
  PROVE  RgStep(s, t) \in RgStates
<1> USE DEF RgStates
<1>2. RgOptionValue(s.awaits) \in {"Opaque", "Path", "Pattern"}
  BY DEF RgOptionValue
<1>3. RgOption(s, t) \in RgStates
  <2> DEFINE p == s.pathOnly \/ (Alone(t) /\ t.flag \in {"--files", "--type-list"})
             q == s.pattern \/ t.flag \in (IF Alone(t) THEN {"-e", "--regexp", "-f", "--file"}
                                             ELSE {"--regexp=", "-e", "--file="})
             c == s.closed \/ t.flag \notin (IF Alone(t) THEN rg_known_flag
                                       ELSE {"--regexp=", "--file=", "--glob=", "--iglob="})
             a == IF Alone(t) /\ t.flag \in rg_option_takes_value THEN t.flag ELSE "none"
             m == IF t.flag = "--file=" THEN "Path" ELSE "Opaque"
  <2>1. RgOption(s, t) = [s EXCEPT !.pathOnly = p, !.pattern = q, !.closed = c, !.awaits = a, !.semantic = m]
    BY DEF RgOption
  <2>2. p \in BOOLEAN /\ q \in BOOLEAN /\ c \in BOOLEAN
    OBVIOUS
  <2>3. a \in rg_option_takes_value \cup {"none"} /\ m \in {"Opaque", "Path", "Pattern", "PathList"}
    OBVIOUS
  <2> HIDE DEF p, q, c, a, m
  <2> QED
    BY <2>1, <2>2, <2>3
<1>4. RgPositional(s) \in RgStates
  <2> DEFINE m == IF s.closed THEN "Opaque"
                     ELSE IF s.pathOnly \/ s.pattern \/ s.positional > 0 THEN "PathList"
                     ELSE "Pattern"
  <2>1. RgPositional(s) = [s EXCEPT !.positional = s.positional + 1, !.semantic = m]
    BY DEF RgPositional
  <2>2. m \in {"Opaque", "Path", "Pattern", "PathList"} /\ s.positional + 1 \in Nat
    OBVIOUS
  <2> HIDE DEF m
  <2> QED
    BY <2>1, <2>2
<1>5. [s EXCEPT !.awaits = "none", !.semantic = RgOptionValue(s.awaits)] \in RgStates
  BY <1>2
<1>6. [s EXCEPT !.ended = TRUE, !.semantic = "Opaque"] \in RgStates
  OBVIOUS
<1> HIDE DEF RgStates
<1> QED
  BY <1>3, <1>4, <1>5, <1>6 DEF RgStep

LEMMA GitStepType ==
  ASSUME NEW s \in GitStates, NEW t \in Tokens, NEW n \in Nat
  PROVE  GitStep(s, [token |-> t, index |-> n]) \in GitStates
<1>1. Access(t) \in {"Unknown", "ReadOnly", "Mutating"}
  BY DEF Access
<1> QED
  BY <1>1 DEF GitStates, GitStep

LEMMA ObserveType ==
  ASSUME NEW s \in KeyStates, NEW v
  PROVE  observe_pattern(s, v) \in KeyStates
<1>1. PatternShape(v) \in {"lit", "complex"} /\ PatternSize(v) \in {"s", "m"}
  BY DEF PatternShape, PatternSize
<1>2. merge(s.shape, PatternShape(v), "mix") \in {"lit", "complex", "mix"}
  BY <1>1 DEF merge
<1>3. merge(s.size, PatternSize(v), "mix") \in {"s", "m", "mix"}
  BY <1>1 DEF merge
<1>4. observe_pattern(s, v) =
        [s EXCEPT !.shape = merge(s.shape, PatternShape(v), "mix"),
                  !.size = merge(s.size, PatternSize(v), "mix"), !.patterns = s.patterns + 1]
  BY DEF observe_pattern
<1>5. s.patterns + 1 \in Nat
  BY DEF KeyStates
<1> QED
  BY <1>2, <1>3, <1>4, <1>5 DEF KeyStates

LEMMA SetModeType ==
  ASSUME NEW s \in KeyStates, NEW m \in Fields, NEW x \in Modes
  PROVE  set_mode(s, m, x) \in KeyStates
BY DEF set_mode, KeyStates, Fields

LEMMA ModeType ==
  ASSUME NEW f
  PROVE  \/ Mode(f)[1] = "none"
         \/ Mode(f)[1] \in Fields /\ Mode(f)[2] \in Modes \ {"default"}
BY DEF Mode, Fields, Modes

LEMMA OptionType ==
  ASSUME NEW s \in KeyStates, NEW f, NEW v
  PROVE  OptionWithValue(s, f, v) \in KeyStates
<1>1. \A kind \in {"re", "file"} : Source(s, kind) \in KeyStates
  BY DEF Source, KeyStates
<1>2. observe_pattern(Source(s, "re"), v) \in KeyStates
  BY <1>1, ObserveType
<1>3. [Source(s, "file") EXCEPT !.patterns = @ + 1] \in KeyStates
  <2> DEFINE x == Source(s, "file")
  <2>1. \A k \in KeyStates, n \in Nat : [k EXCEPT !.patterns = n] \in KeyStates
    BY DEF KeyStates
  <2>2. x \in KeyStates /\ x.patterns + 1 \in Nat
    BY <1>1 DEF KeyStates
  <2>3. [x EXCEPT !.patterns = x.patterns + 1] \in KeyStates
    <3> HIDE DEF x
    <3> QED
      BY <2>1, <2>2
  <2> QED
    BY <2>3
<1>4. [s EXCEPT !.filters = @ + 1] \in KeyStates
  BY DEF KeyStates
<1>5. set_mode(s, "layout", "context") \in KeyStates
  BY SetModeType DEF Fields, Modes
<1>6. [s EXCEPT !.matcher = "engine"] \in KeyStates
  BY DEF KeyStates, Modes
<1> QED
  BY <1>2, <1>3, <1>4, <1>5, <1>6 DEF OptionWithValue

LEMMA KeyStepType ==
  ASSUME NEW s \in KeyStates, NEW t \in Tokens
  PROVE  KeyStep(s, t) \in KeyStates
<1> DEFINE r == [s EXCEPT !.role = "none"]
<1>1. r \in KeyStates
  BY DEF KeyStates
<1>2. [r EXCEPT !.awaits = "none"] \in KeyStates
  BY DEF KeyStates
<1>3. [r EXCEPT !.ended = TRUE] \in KeyStates
  BY DEF KeyStates
<1> HIDE DEF r
<1>4. OptionWithValue([r EXCEPT !.awaits = "none"], r.awaits, t.value) \in KeyStates
  BY <1>2, OptionType
<1>5. KeyOption(r, t) \in KeyStates
  <2>1. OptionWithValue(r, t.flag, t.value) \in KeyStates
    BY <1>1, OptionType
  <2>2. t.flag \in separate_value_option => [r EXCEPT !.awaits = t.flag] \in KeyStates
    BY <1>1 DEF KeyStates
  <2>3. Mode(t.flag)[1] # "none" => set_mode(r, Mode(t.flag)[1], Mode(t.flag)[2]) \in KeyStates
    BY <1>1, ModeType, SetModeType
  <2>4. [r EXCEPT !.failed = TRUE] \in KeyStates
    BY <1>1 DEF KeyStates
  <2> QED
    BY <1>1, <2>1, <2>2, <2>3, <2>4 DEF KeyOption
<1>6. KeyPositional(r, t.value) \in KeyStates
  <2>1. [r EXCEPT !.paths = r.paths + 1, !.role = "path"] \in KeyStates
    <3>1. r.paths + 1 \in Nat
      BY <1>1 DEF KeyStates
    <3> QED
      BY <1>1, <3>1 DEF KeyStates
  <2> DEFINE o == observe_pattern(r, t.value)
  <2>2. o \in KeyStates
    BY <1>1, ObserveType
  <2>3. [o EXCEPT !.role = "pattern"] \in KeyStates
    <3> HIDE DEF o
    <3> QED
      BY <2>2 DEF KeyStates
  <2> QED
    BY <2>1, <2>3 DEF KeyPositional
<1> QED
  BY <1>3, <1>4, <1>5, <1>6 DEF KeyStep, r

----------------------------------------------------------------------------
(* Each reader is the recursion its definition says. *)

\* The step is a function of the state: after it there is one state.
LEMMA AfterIs ==
  ASSUME NEW s, NEW t
  PROVE  /\ After(RgStep, s, t) = RgStep(s, t)
         /\ After(KeyStep, s, t) = KeyStep(s, t)
         /\ After(GitStep, s, t) = GitStep(s, t)
BY DEF After

(***************************************************************************)
(* rg_positional_semantic reads a list token by token                      *)
(* (arguments.rs:181-261).                                                 *)
(***************************************************************************)
LEMMA RgReadIs ==
  ASSUME NEW list \in Seq(Tokens)
  PROVE  /\ RgRead(list)[0] = RgStart
         /\ \A n \in 1..Len(list) : RgRead(list)[n] = RgStep(RgRead(list)[n - 1], list[n])
         /\ \A n \in 0..Len(list) : RgRead(list)[n] \in RgStates
<1> DEFINE N == Len(list)
           Equation(f) == f = [n \in 0..N |-> IF n = 0 THEN RgStart
                                              ELSE After(RgStep, f[n - 1], list[n])]
           step == [p \in RgStates \X (1..N) |-> RgStep(p[1], list[p[2]])]
           read == RgRead(list)
<1>1. N \in Nat /\ \A n \in 1..N : list[n] \in Tokens
  OBVIOUS
<1>2. RgStart \in RgStates
  BY DEF RgStart, RgStates
<1>3. step \in StepFunctions(RgStates, N)
  <2> HIDE DEF N
  <2> QED
    BY <1>1, RgStepType DEF StepFunctions
<1>4. \A n \in 1..N : n - 1 \in 0..N /\ n # 0 /\ n \in Nat
  BY <1>1
<1>5. \E f : Equation(f)
  <2>1. PICK f : Follows(f, RgStates, RgStart, N, step)
    <3> HIDE DEF N, step
    <3> QED
      BY <1>1, <1>2, <1>3, Recursion
  <2>2. ASSUME NEW n \in 1..N PROVE f[n] = After(RgStep, f[n - 1], list[n])
    <3>1. f[n] = RgStep(f[n - 1], list[n])
      BY <1>4, <2>1 DEF Follows
    <3> QED
      BY <3>1, AfterIs
  <2>3. \A n \in 0..N : n # 0 => n \in 1..N
    BY <1>1
  <2>4. f = [n \in 0..N |-> f[n]] /\ f[0] = RgStart
    BY <2>1 DEF Follows
  <2>5. Equation(f)
    <3> HIDE DEF N
    <3> QED
      BY <2>2, <2>3, <2>4
  <2> QED
    BY <2>5
<1>6. Equation(read)
  <2>1. read = CHOOSE f : Equation(f)
    BY DEF RgRead
  <2> HIDE DEF Equation, read
  <2> QED
    BY <1>5, <2>1
<1>7. read[0] = RgStart
  BY <1>1, <1>6
<1>8. ASSUME NEW n \in 1..N PROVE read[n] = RgStep(read[n - 1], list[n])
  <2>1. n \in 0..N /\ n # 0
    OBVIOUS
  <2>2. read[n] = After(RgStep, read[n - 1], list[n])
    <3> HIDE DEF N, read
    <3> QED
      BY <1>6, <2>1
  <2> QED
    BY <2>2, AfterIs
<1>9. \A n \in 0..N : read[n] \in RgStates
  <2> HIDE DEF N, read
  <2>1. \A n \in 1..N : read[n - 1] \in RgStates => read[n] \in RgStates
    BY <1>1, <1>4, <1>8, RgStepType
  <2> QED
    BY <1>1, <1>2, <1>7, <2>1, RecursionStays
<1> QED
  BY <1>7, <1>8, <1>9

(***************************************************************************)
(* classify of command.rs reads the arguments of git token by token.       *)
(***************************************************************************)
LEMMA GitReadIs ==
  ASSUME NEW list \in Seq(Tokens)
  PROVE  /\ GitRead(list)[0] = GitStart
         /\ \A n \in 1..Len(list) : GitRead(list)[n] = GitStep(GitRead(list)[n - 1], [token |-> list[n], index |-> n])
         /\ \A n \in 0..Len(list) : GitRead(list)[n] \in GitStates
<1> DEFINE N == Len(list)
           Equation(f) == f = [n \in 0..N |-> IF n = 0 THEN GitStart
                                              ELSE After(GitStep, f[n - 1], [token |-> list[n], index |-> n])]
           step == [p \in GitStates \X (1..N) |-> GitStep(p[1], [token |-> list[p[2]], index |-> p[2]])]
           read == GitRead(list)
<1>1. N \in Nat /\ \A n \in 1..N : list[n] \in Tokens
  OBVIOUS
<1>2. GitStart \in GitStates
  BY DEF GitStart, GitStates
<1>3. step \in StepFunctions(GitStates, N)
  <2> HIDE DEF N
  <2> QED
    BY <1>1, GitStepType DEF StepFunctions
<1>4. \A n \in 1..N : n - 1 \in 0..N /\ n # 0 /\ n \in Nat
  BY <1>1
<1>5. \E f : Equation(f)
  <2>1. PICK f : Follows(f, GitStates, GitStart, N, step)
    <3> HIDE DEF N, step
    <3> QED
      BY <1>1, <1>2, <1>3, Recursion
  <2>2. ASSUME NEW n \in 1..N PROVE f[n] = After(GitStep, f[n - 1], [token |-> list[n], index |-> n])
    <3>1. f[n] = GitStep(f[n - 1], [token |-> list[n], index |-> n])
      BY <1>4, <2>1 DEF Follows
    <3> QED
      BY <3>1, AfterIs
  <2>3. \A n \in 0..N : n # 0 => n \in 1..N
    BY <1>1
  <2>4. f = [n \in 0..N |-> f[n]] /\ f[0] = GitStart
    BY <2>1 DEF Follows
  <2>5. Equation(f)
    <3> HIDE DEF N
    <3> QED
      BY <2>2, <2>3, <2>4
  <2> QED
    BY <2>5
<1>6. Equation(read)
  <2>1. read = CHOOSE f : Equation(f)
    BY DEF GitRead
  <2> HIDE DEF Equation, read
  <2> QED
    BY <1>5, <2>1
<1>7. read[0] = GitStart
  BY <1>1, <1>6
<1>8. ASSUME NEW n \in 1..N PROVE read[n] = GitStep(read[n - 1], [token |-> list[n], index |-> n])
  <2>1. n \in 0..N /\ n # 0
    OBVIOUS
  <2>2. read[n] = After(GitStep, read[n - 1], [token |-> list[n], index |-> n])
    <3> HIDE DEF N, read
    <3> QED
      BY <1>6, <2>1
  <2> QED
    BY <2>2, AfterIs
<1>9. \A n \in 0..N : read[n] \in GitStates
  <2> HIDE DEF N, read
  <2>1. \A n \in 1..N : read[n - 1] \in GitStates => read[n] \in GitStates
    BY <1>1, <1>4, <1>8, GitStepType
  <2> QED
    BY <1>1, <1>2, <1>7, <2>1, RecursionStays
<1> QED
  BY <1>7, <1>8, <1>9

(***************************************************************************)
(* rg_workload_key reads a list token by token (workload.rs:100-437).      *)
(***************************************************************************)
LEMMA KeyReadIs ==
  ASSUME NEW list \in Seq(Tokens)
  PROVE  /\ KeyRead(list)[0] = KeyStart
         /\ \A n \in 1..Len(list) : KeyRead(list)[n] = KeyStep(KeyRead(list)[n - 1], list[n])
         /\ \A n \in 0..Len(list) : KeyRead(list)[n] \in KeyStates
<1> DEFINE N == Len(list)
           Equation(f) == f = [n \in 0..N |-> IF n = 0 THEN KeyStart
                                              ELSE After(KeyStep, f[n - 1], list[n])]
           step == [p \in KeyStates \X (1..N) |-> KeyStep(p[1], list[p[2]])]
           read == KeyRead(list)
<1>1. N \in Nat /\ \A n \in 1..N : list[n] \in Tokens
  OBVIOUS
<1>2. KeyStart \in KeyStates
  BY DEF KeyStart, KeyStates, Modes
<1>3. step \in StepFunctions(KeyStates, N)
  <2> HIDE DEF N
  <2> QED
    BY <1>1, KeyStepType DEF StepFunctions
<1>4. \A n \in 1..N : n - 1 \in 0..N /\ n # 0 /\ n \in Nat
  BY <1>1
<1>5. \E f : Equation(f)
  <2>1. PICK f : Follows(f, KeyStates, KeyStart, N, step)
    <3> HIDE DEF N, step
    <3> QED
      BY <1>1, <1>2, <1>3, Recursion
  <2>2. ASSUME NEW n \in 1..N PROVE f[n] = After(KeyStep, f[n - 1], list[n])
    <3>1. f[n] = KeyStep(f[n - 1], list[n])
      BY <1>4, <2>1 DEF Follows
    <3> QED
      BY <3>1, AfterIs
  <2>3. \A n \in 0..N : n # 0 => n \in 1..N
    BY <1>1
  <2>4. f = [n \in 0..N |-> f[n]] /\ f[0] = KeyStart
    BY <2>1 DEF Follows
  <2>5. Equation(f)
    <3> HIDE DEF N
    <3> QED
      BY <2>2, <2>3, <2>4
  <2> QED
    BY <2>5
<1>6. Equation(read)
  <2>1. read = CHOOSE f : Equation(f)
    BY DEF KeyRead
  <2> HIDE DEF Equation, read
  <2> QED
    BY <1>5, <2>1
<1>7. read[0] = KeyStart
  BY <1>1, <1>6
<1>8. ASSUME NEW n \in 1..N PROVE read[n] = KeyStep(read[n - 1], list[n])
  <2>1. n \in 0..N /\ n # 0
    OBVIOUS
  <2>2. read[n] = After(KeyStep, read[n - 1], list[n])
    <3> HIDE DEF N, read
    <3> QED
      BY <1>6, <2>1
  <2> QED
    BY <2>2, AfterIs
<1>9. \A n \in 0..N : read[n] \in KeyStates
  <2> HIDE DEF N, read
  <2>1. \A n \in 1..N : read[n - 1] \in KeyStates => read[n] \in KeyStates
    BY <1>1, <1>4, <1>8, KeyStepType
  <2> QED
    BY <1>1, <1>2, <1>7, <2>1, RecursionStays
<1> QED
  BY <1>7, <1>8, <1>9

----------------------------------------------------------------------------
(* Translation: the form of a command line is what the readers look at. *)

\* A translator maps classes of values to classes of values.
IsTranslator(mapping) == \A v \in Values : mapping[v] \in Values \cup {"none"}

\* An argument and its translation: a response file may become a name.
Alike(t, u) ==
  /\ t.flag = u.flag \/ (t.flag = "@" /\ u.flag = "none")
  /\ Alone(t) = Alone(u)

\* An argument that is no path is left as it is, one that is a path in part keeps its prefix.
AlikeAt(program, a, b, i) ==
  /\ Alike(a[i], b[i])
  /\ a[i].flag # b[i].flag => argument_contract(program, a, i).path = "whole"
  /\ argument_contract(program, a, i).path = "none" => b[i] = a[i]

AllAlike(program, a, b) == Len(a) = Len(b) /\ \A i \in 1..Len(a) : AlikeAt(program, a, b, i)

(***************************************************************************)
(* What the two translators do to one value (paths.rs:88-190, mapping.rs). *)
(***************************************************************************)
LEMMA TranslatorsTranslate ==
  ASSUME NEW origin, NEW answers
  PROVE  /\ IsTranslator([v \in Values |-> ToWindows(v, origin, answers)])
         /\ IsTranslator([v \in Values |-> ToWsl(v, origin, answers)])
<1>1. \A v : mapped_wsl_project_path(v, answers) \in Values \cup {"none"}
  BY DEF mapped_wsl_project_path, Values
<1>2. \A v : mapped_windows_project_path(v, answers) \in Values \cup {"none"}
  BY DEF mapped_windows_project_path, Values
<1>3. \A v : ToWindows(v, origin, answers) \in Values \cup {"none"}
  BY <1>1 DEF ToWindows, wsl_path_to_windows_path, Values
<1>4. \A v : ToWsl(v, origin, answers) \in Values \cup {"none"}
  BY <1>2 DEF ToWsl, windows_path_to_wsl_path, Values
<1> QED
  BY <1>3, <1>4 DEF IsTranslator

LEMMA TokenFields ==
  ASSUME NEW t \in Tokens
  PROVE  /\ t.value \in Values \cup {"none"}
         /\ t.flag \in {"none", "@"} => t.value \in Values
         /\ \A f : t = Flag(f) <=> t.flag = f /\ Alone(t)
         /\ t = Separator <=> t.flag = "--" /\ Alone(t)
<1>1. t = [flag |-> t.flag, value |-> t.value]
  BY DEF Tokens
<1>2. \A f : Flag(f).flag = f /\ Flag(f).value = "none"
  BY DEF Flag
<1>3. \A f : t = Flag(f) <=> t.flag = f /\ Alone(t)
  <2>1. ASSUME NEW f, t.flag = f, t.value = "none" PROVE t = Flag(f)
    BY <1>1, <2>1 DEF Flag
  <2> QED
    BY <1>2, <2>1 DEF Alone
<1> QED
  BY <1>3 DEF Tokens, Separator

\* What translate_arguments_with makes of a command line (paths.rs:64-86).
LEMMA TranslatedAlike ==
  ASSUME NEW program, NEW a \in Seq(Tokens), NEW mapping, IsTranslator(mapping)
  PROVE  LET b == translate_arguments_with(program, a, mapping)
         IN b \in Seq(Tokens) /\ AllAlike(program, a, b)
<1> DEFINE b == translate_arguments_with(program, a, mapping)
           contract(i) == argument_contract(program, a, i)
           path(i) == PathOf(a[i], contract(i))
           new(i) == IF path(i) = "none" THEN "none" ELSE mapping[path(i)]
<1>1. b = [i \in 1..Len(a) |-> Rewritten(a[i], contract(i), new(i))]
  BY DEF translate_arguments_with
<1>2. ASSUME NEW i \in 1..Len(a) PROVE b[i] \in Tokens /\ AlikeAt(program, a, b, i)
  <2>1. a[i] \in Tokens
    OBVIOUS
  <2>2. b[i] = Rewritten(a[i], contract(i), new(i))
    BY <1>1
  <2>3. path(i) # "none" => /\ path(i) \in Values
                            /\ \/ contract(i).path = "prefixed" /\ a[i].value # "none"
                               \/ contract(i).path = "whole" /\ a[i].flag \in {"none", "@"}
    <3>1. "word" \in Values /\ a[i].value \in Values \cup {"none"}
      BY <2>1, TokenFields DEF Values
    <3> HIDE DEF contract
    <3> QED
      BY <3>1 DEF PathOf
  <2>4. path(i) # "none" => new(i) \in Values \cup {"none"}
    <3> HIDE DEF path
    <3> QED
      BY <2>3 DEF IsTranslator
  <2>5. CASE new(i) = "none"
    <3>1. b[i] = a[i]
      <4> HIDE DEF b, new
      <4> QED
        BY <2>2, <2>5 DEF Rewritten
    <3> QED
      BY <2>1, <3>1 DEF AlikeAt, Alike
  <2>6. CASE new(i) # "none"
    <3>1. path(i) # "none"
      BY <2>6
    <3>2. PICK c \in Values : c = new(i)
      <4> HIDE DEF new, path
      <4> QED
        BY <2>4, <2>6, <3>1
    <3>3. c # "none"
      BY DEF Values
    <3>4. CASE contract(i).path = "prefixed"
      <4>1. b[i] = [a[i] EXCEPT !.value = c]
        <5> HIDE DEF b, new, contract
        <5> QED
          BY <2>2, <2>6, <3>2, <3>4 DEF Rewritten
      <4>2. b[i] \in Tokens /\ b[i].flag = a[i].flag /\ b[i].value = c
        <5> HIDE DEF b
        <5> QED
          BY <2>1, <3>3, <4>1 DEF Tokens
      <4>3. a[i].value # "none"
        <5> HIDE DEF path, contract
        <5> QED
          BY <2>3, <3>1, <3>4
      <4> HIDE DEF b
      <4> QED
        BY <3>3, <3>4, <4>2, <4>3 DEF AlikeAt, Alike, Alone
    <3>5. CASE contract(i).path # "prefixed"
      <4>1. contract(i).path = "whole" /\ a[i].flag \in {"none", "@"}
        <5> HIDE DEF path, contract
        <5> QED
          BY <2>3, <3>1, <3>5
      <4>2. b[i] = [flag |-> "none", value |-> c]
        <5> HIDE DEF b, new, contract
        <5> QED
          BY <2>2, <2>6, <3>2, <3>5 DEF Rewritten, Value
      <4>3. b[i] \in Tokens /\ b[i].flag = "none" /\ b[i].value = c
        <5> HIDE DEF b
        <5> QED
          BY <3>3, <4>2 DEF Tokens
      <4>4. a[i].value # "none"
        <5>1. a[i].value \in Values
          <6> HIDE DEF b, path, contract, new
          <6> QED
            BY <2>1, <4>1, TokenFields
        <5> HIDE DEF b, path, contract, new
        <5> QED
          BY <5>1 DEF Values
      <4> HIDE DEF b
      <4> QED
        BY <3>3, <4>1, <4>3, <4>4 DEF AlikeAt, Alike, Alone
    <3> QED
      BY <3>4, <3>5
  <2> QED
    BY <2>5, <2>6
<1>3. Len(a) \in Nat /\ DOMAIN b = 1..Len(a)
  BY <1>1
<1>4. b \in [1..Len(a) -> Tokens]
  BY <1>1, <1>2
<1>5. b \in Seq(Tokens) /\ Len(b) = Len(a)
  <2> HIDE DEF b
  <2> QED
    BY <1>3, <1>4, SeqDef, LenProperties
<1> QED
  BY <1>2, <1>5 DEF AllAlike

\* rg_positional_semantic reads flags only, not values.
LEMMA RgReadAlike ==
  ASSUME NEW program, NEW a \in Seq(Tokens), NEW b \in Seq(Tokens), AllAlike(program, a, b)
  PROVE  \A n \in 0..Len(a) : RgRead(a)[n] = RgRead(b)[n]
<1> DEFINE N == Len(a)
           T == {n \in 0..N : RgRead(a)[n] = RgRead(b)[n]}
<1>1. N \in Nat /\ Len(b) = N
  BY DEF AllAlike
<1>2. 0 \in T
  BY <1>1, RgReadIs
<1>3. ASSUME NEW n \in 1..N, n - 1 \in T PROVE n \in T
  <2>1. a[n] \in Tokens /\ b[n] \in Tokens /\ Alike(a[n], b[n])
    BY <1>1 DEF AllAlike, AlikeAt
  <2>2. a[n] = Separator <=> b[n] = Separator
    BY <2>1, TokenFields DEF Alike
  <2>3. \A s : RgStep(s, a[n]) = RgStep(s, b[n])
    <3>1. IsOption(a[n]) => \A s : RgOption(s, a[n]) = RgOption(s, b[n])
      <4> SUFFICES ASSUME IsOption(a[n]) PROVE \A s : RgOption(s, a[n]) = RgOption(s, b[n])
        OBVIOUS
      <4>1. a[n].flag = b[n].flag /\ Alone(a[n]) = Alone(b[n])
        BY <2>1 DEF Alike, IsOption
      <4> DEFINE Read(s, f, alone) ==
                   [s EXCEPT
                      !.pathOnly = @ \/ (alone /\ f \in {"--files", "--type-list"}),
                      !.pattern = @ \/ f \in (IF alone THEN {"-e", "--regexp", "-f", "--file"}
                                              ELSE {"--regexp=", "-e", "--file="}),
                      !.closed = @ \/ f \notin (IF alone THEN rg_known_flag
                                                ELSE {"--regexp=", "--file=", "--glob=", "--iglob="}),
                      !.awaits = IF alone /\ f \in rg_option_takes_value THEN f ELSE "none",
                      !.semantic = IF f = "--file=" THEN "Path" ELSE "Opaque"]
      <4>2. \A s, t : RgOption(s, t) = Read(s, t.flag, Alone(t))
        BY DEF RgOption
      <4> HIDE DEF Read
      <4> QED
        BY <4>1, <4>2
    <3>2. IsOption(a[n]) <=> IsOption(b[n])
      BY <2>1 DEF IsOption, Alike
    <3> QED
      BY <2>2, <3>1, <3>2 DEF RgStep
  <2>4. RgRead(a)[n] = RgStep(RgRead(a)[n - 1], a[n])
    BY RgReadIs
  <2>5. RgRead(b)[n] = RgStep(RgRead(b)[n - 1], b[n])
    BY <1>1, RgReadIs
  <2> QED
    BY <1>3, <2>3, <2>4, <2>5
<1>4. 0..N \subseteq T
  <2> HIDE DEF T, N
  <2> QED
    BY <1>1, <1>2, <1>3, UpTo
<1> QED
  BY <1>4

(***************************************************************************)
(* The contract of an argument depends on the form of the command line     *)
(* only: flags, which of them stand alone, and their order                 *)
(* (arguments.rs:44-142).                                                  *)
(***************************************************************************)
LEMMA ContractAlike ==
  ASSUME NEW program, NEW a \in Seq(Tokens), NEW b \in Seq(Tokens), AllAlike(program, a, b),
         NEW index \in 1..Len(a)
  PROVE  argument_contract(program, a, index) = argument_contract(program, b, index)
<1> DEFINE AfterFlag(c) == index > 1 /\ Alone(c[index - 1]) /\ c[index - 1].flag \in separate_path_flag(program)
<1>1. Len(a) \in Nat /\ Len(b) = Len(a)
  BY DEF AllAlike
<1>2. ASSUME NEW i \in 1..Len(a)
      PROVE  Alike(a[i], b[i]) /\ (a[i] = Separator <=> b[i] = Separator)
  <2>1. a[i] \in Tokens /\ b[i] \in Tokens /\ Alike(a[i], b[i])
    BY <1>1 DEF AllAlike, AlikeAt
  <2> QED
    BY <2>1, TokenFields DEF Alike
<1>3. \A i \in 1..(index - 1) : i \in 1..Len(a)
  BY <1>1
<1>4. index > 1 => index - 1 \in 1..Len(a)
  BY <1>1
<1>5. (\E i \in 1..(index - 1) : a[i] = Separator) <=> (\E i \in 1..(index - 1) : b[i] = Separator)
  BY <1>2, <1>3
<1>6. AfterFlag(a) <=> AfterFlag(b)
  <2>1. {"none", "@"} \cap separate_path_flag(program) = {}
    BY DEF separate_path_flag
  <2> QED
    BY <1>2, <1>4, <2>1 DEF Alike
<1>7. ~AfterFlag(a) => (Prefixed(program, a, index) <=> Prefixed(program, b, index))
  <2>1. SUFFICES ASSUME ~AfterFlag(a), a[index].flag # b[index].flag
                 PROVE  ~Prefixed(program, a, index) /\ ~Prefixed(program, b, index)
    BY <1>2 DEF Prefixed, Alike
  <2>2. a[index].flag = "@" /\ b[index].flag = "none" /\ argument_contract(program, a, index).path = "whole"
    BY <2>1 DEF AllAlike, AlikeAt, Alike
  <2>3. {"none", "@"} \cap attached_path(program) = {}
    BY DEF attached_path
  <2>4. ~Prefixed(program, a, index)
    BY <2>1, <2>2 DEF argument_contract, Contract
  <2>5. ~Prefixed(program, b, index)
    BY <2>2, <2>3 DEF Prefixed
  <2> QED
    BY <2>4, <2>5
<1>8. IsOption(a[index]) <=> IsOption(b[index])
  BY <1>2 DEF IsOption, Alike
<1>9. rg_positional_semantic(a, index) = rg_positional_semantic(b, index)
  <2>1. \A n \in 0..Len(a) : RgRead(a)[n] = RgRead(b)[n]
    BY RgReadAlike
  <2>2. index \in 0..Len(a)
    BY <1>1
  <2> QED
    BY <2>1, <2>2 DEF rg_positional_semantic
<1>10. CASE AfterFlag(a)
  BY <1>6, <1>10 DEF argument_contract
<1>11. CASE ~AfterFlag(a)
  BY <1>5, <1>6, <1>7, <1>8, <1>9, <1>11 DEF argument_contract
<1> QED
  BY <1>10, <1>11

\* Two states of the reader of git that say the same but for the directory.
SameVerdict(s, u) ==
  /\ s.awaits = u.awaits
  /\ s.found = u.found
  /\ s.access = u.access
  /\ s.subcommand = u.subcommand

\* What an argument of git is before the subcommand (command.rs:56-90).
TakesNext(t) == Alone(t) /\ t.flag \in is_global_option_with_separate_value
HoldsDirectory(t) == ~Alone(t) /\ t.flag \in attached_git_directory
PassedOver(t) == t.flag \in (IF Alone(t) THEN is_known_global_flag ELSE is_attached_global_value)
IsOperand(t) == ~IsOption(t)

\* The step of the reader of git from a state in which it reads a new option.
LEMMA GitStepCases ==
  ASSUME NEW s \in GitStates, NEW at, ~s.found, s.awaits = "none"
  PROVE  LET r == GitStep(s, at)
             t == at.token
         IN  /\ TakesNext(t) => r = [s EXCEPT !.awaits = t.flag]
             /\ HoldsDirectory(t) => r = [s EXCEPT !.wsl = @ \/ t.value \in LinuxPaths]
             /\ PassedOver(t) => r = s
             /\ IsOperand(t) => r = [s EXCEPT !.found = TRUE, !.access = Access(t), !.subcommand = at.index]
             /\ ~TakesNext(t) /\ ~HoldsDirectory(t) /\ ~PassedOver(t) /\ ~IsOperand(t) => r = [s EXCEPT !.found = TRUE]
<1> DEFINE t == at.token
<1>2. ~IsOperand(t) \/ (~TakesNext(t) /\ ~HoldsDirectory(t) /\ ~PassedOver(t))
  BY DEF TakesNext, HoldsDirectory, PassedOver, IsOperand, IsOption, is_global_option_with_separate_value,
         attached_git_directory, is_known_global_flag, is_attached_global_value
<1>3. ~PassedOver(t) \/ (~TakesNext(t) /\ ~HoldsDirectory(t))
  BY DEF TakesNext, HoldsDirectory, PassedOver, is_global_option_with_separate_value, attached_git_directory,
         is_known_global_flag, is_attached_global_value
<1> USE DEF GitStep
<1>4. TakesNext(t) => GitStep(s, at) = [s EXCEPT !.awaits = t.flag]
  BY <1>2, <1>3 DEF TakesNext, HoldsDirectory, PassedOver, IsOperand
<1>5. HoldsDirectory(t) => GitStep(s, at) = [s EXCEPT !.wsl = @ \/ t.value \in LinuxPaths]
  BY <1>2, <1>3 DEF TakesNext, HoldsDirectory, PassedOver, IsOperand
<1>6. PassedOver(t) => GitStep(s, at) = s
  BY <1>2, <1>3 DEF TakesNext, HoldsDirectory, PassedOver, IsOperand
<1>7. IsOperand(t) => GitStep(s, at) = [s EXCEPT !.found = TRUE, !.access = Access(t), !.subcommand = at.index]
  BY <1>2 DEF TakesNext, HoldsDirectory, PassedOver, IsOperand
<1>8. ~TakesNext(t) /\ ~HoldsDirectory(t) /\ ~PassedOver(t) /\ ~IsOperand(t) => GitStep(s, at) = [s EXCEPT !.found = TRUE]
  BY DEF TakesNext, HoldsDirectory, PassedOver, IsOperand
<1> QED
  BY <1>4, <1>5, <1>6, <1>7, <1>8

\* The reader of git sees no difference between an argument and its translation, unless it
\* reads an operand there.
LEMMA GitStepAlike ==
  ASSUME NEW s \in GitStates, NEW u \in GitStates, SameVerdict(s, u),
         NEW at, NEW bt, at.index = bt.index, Alike(at.token, bt.token),
         ~s.found /\ s.awaits = "none" /\ IsOperand(at.token) => bt.token = at.token
  PROVE  SameVerdict(GitStep(s, at), GitStep(u, bt))
<1> DEFINE t == at.token
           v == bt.token
           rs == GitStep(s, at)
           ru == GitStep(u, bt)
<1>1. CASE s.found
  BY <1>1 DEF GitStep, SameVerdict
<1>2. CASE ~s.found /\ s.awaits # "none"
  BY <1>2 DEF GitStep, SameVerdict, GitStates
<1>3. CASE ~s.found /\ s.awaits = "none"
  <2>1. ~u.found /\ u.awaits = "none"
    BY <1>3 DEF SameVerdict
  <2>2. (TakesNext(t) <=> TakesNext(v)) /\ (HoldsDirectory(t) <=> HoldsDirectory(v)) /\ (PassedOver(t) <=> PassedOver(v)) /\ (IsOperand(t) <=> IsOperand(v))
    BY DEF TakesNext, HoldsDirectory, PassedOver, IsOperand, Alike, IsOption, is_global_option_with_separate_value,
           attached_git_directory, is_known_global_flag, is_attached_global_value
  <2>3. (~IsOperand(t) => t.flag = v.flag) /\ (IsOperand(t) => v = t)
    BY <1>3 DEF Alike, IsOperand, IsOption
  <2>4. CASE TakesNext(t)
    <3>1. rs = [s EXCEPT !.awaits = t.flag] /\ ru = [u EXCEPT !.awaits = v.flag]
      BY <1>3, <2>1, <2>2, <2>4, GitStepCases
    <3>2. t.flag = v.flag
      BY <2>3, <2>4 DEF TakesNext, IsOperand, IsOption, is_global_option_with_separate_value
    <3> QED
      BY <3>1, <3>2 DEF GitStates, SameVerdict
  <2>5. CASE HoldsDirectory(t)
    <3>1. /\ rs = [s EXCEPT !.wsl = @ \/ t.value \in LinuxPaths]
          /\ ru = [u EXCEPT !.wsl = @ \/ v.value \in LinuxPaths]
      BY <1>3, <2>1, <2>2, <2>5, GitStepCases
    <3> QED
      BY <3>1 DEF GitStates, SameVerdict
  <2>6. CASE PassedOver(t)
    <3>1. rs = s /\ ru = u
      BY <1>3, <2>1, <2>2, <2>6, GitStepCases
    <3> QED
      BY <3>1
  <2>7. CASE IsOperand(t)
    <3>1. /\ rs = [s EXCEPT !.found = TRUE, !.access = Access(t), !.subcommand = at.index]
          /\ ru = [u EXCEPT !.found = TRUE, !.access = Access(v), !.subcommand = bt.index]
      BY <1>3, <2>1, <2>2, <2>7, GitStepCases
    <3>2. Access(v) = Access(t)
      BY <2>3, <2>7
    <3> QED
      BY <3>1, <3>2 DEF GitStates, SameVerdict
  <2>8. CASE ~TakesNext(t) /\ ~HoldsDirectory(t) /\ ~PassedOver(t) /\ ~IsOperand(t)
    <3>1. rs = [s EXCEPT !.found = TRUE] /\ ru = [u EXCEPT !.found = TRUE]
      BY <1>3, <2>1, <2>2, <2>8, GitStepCases
    <3> QED
      BY <3>1 DEF GitStates, SameVerdict
  <2> QED
    BY <2>4, <2>5, <2>6, <2>7, <2>8
<1> QED
  BY <1>1, <1>2, <1>3

(***************************************************************************)
(* A "--" that is no value of an option ends what git reads as its own     *)
(* options (command.rs:56-97).                                             *)
(***************************************************************************)
LEMMA SeparatorEnds ==
  ASSUME NEW a \in Seq(Tokens), ~ValueReadsAsOption(a)
  PROVE  \A n \in 0..Len(a) : (\E i \in 1..n : a[i] = Separator) => GitRead(a)[n].found
<1> DEFINE N == Len(a)
           T == {n \in 0..N : (\E i \in 1..n : a[i] = Separator) => GitRead(a)[n].found}
<1>1. N \in Nat /\ 0 \in T
  OBVIOUS
<1>2. ASSUME NEW n \in 1..N, n - 1 \in T, NEW i \in 1..n, a[i] = Separator PROVE GitRead(a)[n].found
  <2> DEFINE s == GitRead(a)[n - 1]
             at == [token |-> a[n], index |-> n]
  <2>1. s \in GitStates /\ GitRead(a)[n] = GitStep(s, at)
    <3>1. n - 1 \in 0..N
      OBVIOUS
    <3> QED
      BY <3>1, GitReadIs
  <2>2. CASE s.found
    BY <2>1, <2>2 DEF GitStep
  <2>3. CASE ~s.found
    <3>1. i = n
      <4>1. i # n => i \in 1..(n - 1)
        OBVIOUS
      <4> QED
        BY <1>2, <2>3, <4>1
    <3>2. at.token.flag = "--" /\ Alone(at.token)
      BY <1>2, <3>1 DEF Separator, Flag, Alone
    <3>3. s.awaits = "none"
      <4>1. n \in DOMAIN a /\ Alone(a[n]) /\ a[n].flag = "--"
        BY <3>2
      <4> QED
        BY <4>1 DEF ValueReadsAsOption
    <3>4. ~TakesNext(at.token) /\ ~HoldsDirectory(at.token) /\ ~PassedOver(at.token) /\ ~IsOperand(at.token)
      <4> HIDE DEF at
      <4> QED
        BY <3>2 DEF TakesNext, HoldsDirectory, PassedOver, IsOperand, IsOption,
             is_global_option_with_separate_value, is_known_global_flag
    <3>5. GitStep(s, at) = [s EXCEPT !.found = TRUE]
      <4> HIDE DEF s, at
      <4> QED
        BY <2>1, <2>3, <3>3, <3>4, GitStepCases
    <3> HIDE DEF s, at
    <3> QED
      BY <2>1, <3>5 DEF GitStates
  <2> QED
    BY <2>2, <2>3
<1>3. \A n \in 1..N : n - 1 \in T => n \in T
  BY <1>2
<1>4. 0..N \subseteq T
  <2> HIDE DEF T, N
  <2> QED
    BY <1>1, <1>3, UpTo
<1> QED
  BY <1>4

(***************************************************************************)
(* What git reads as its subcommand argument_contract never takes for a    *)
(* path, unless an option of git has an option for its value               *)
(* (command.rs:56-97, arguments.rs:263-306).                               *)
(***************************************************************************)
LEMMA SubcommandIsNoPath ==
  ASSUME NEW a \in Seq(Tokens), ~ValueReadsAsOption(a), NEW n \in 1..Len(a),
         ~GitRead(a)[n - 1].found, GitRead(a)[n - 1].awaits = "none", IsOperand(a[n])
  PROVE  argument_contract("git", a, n).path = "none"
<1>1. n - 1 \in 0..Len(a) /\ a[n] \in Tokens
  OBVIOUS
<1>2. ~ \E i \in 1..(n - 1) : a[i] = Separator
  BY <1>1, SeparatorEnds
<1>3. ~Prefixed("git", a, n)
  BY DEF Prefixed, IsOperand, IsOption, attached_path
<1>4. ASSUME n > 1, Alone(a[n - 1]), a[n - 1].flag \in separate_path_flag("git") PROVE FALSE
  <2> DEFINE s == GitRead(a)[n - 2]
             at == [token |-> a[n - 1], index |-> n - 1]
  <2>1. n - 2 \in 0..Len(a) /\ n - 1 \in 1..Len(a) /\ (n - 1) - 1 = n - 2
    BY <1>4
  <2>2. s \in GitStates /\ GitRead(a)[n - 1] = GitStep(s, at)
    BY <2>1, GitReadIs
  <2>3. ~s.found
    BY <2>2 DEF GitStep
  <2>4. s.awaits = "none"
    <3>1. n - 1 \in DOMAIN a
      BY <2>1
    <3> QED
      BY <1>4, <2>1, <3>1 DEF ValueReadsAsOption
  <2>5. TakesNext(at.token)
    BY <1>4 DEF TakesNext, separate_path_flag, is_global_option_with_separate_value
  <2>6. GitStep(s, at) = [s EXCEPT !.awaits = at.token.flag]
    <3> HIDE DEF s, at
    <3>1. s \in GitStates
      BY <2>2
    <3> QED
      BY <2>3, <2>4, <2>5, <3>1, GitStepCases
  <2>7. at.token.flag # "none"
    BY <2>5 DEF TakesNext, is_global_option_with_separate_value
  <2>8. GitRead(a)[n - 1].awaits = at.token.flag
    <3> HIDE DEF s, at
    <3> QED
      BY <2>2, <2>6 DEF GitStates
  <2> QED
    BY <2>7, <2>8
<1> QED
  BY <1>2, <1>3, <1>4 DEF argument_contract, Contract

LEMMA GitReadAlike ==
  ASSUME NEW a \in Seq(Tokens), NEW b \in Seq(Tokens), AllAlike("git", a, b), ~ValueReadsAsOption(a)
  PROVE  \A n \in 0..Len(a) : SameVerdict(GitRead(a)[n], GitRead(b)[n])
<1> DEFINE N == Len(a)
           T == {n \in 0..N : SameVerdict(GitRead(a)[n], GitRead(b)[n])}
<1>1. N \in Nat /\ Len(b) = N
  BY DEF AllAlike
<1>2. 0 \in T
  BY <1>1, GitReadIs DEF SameVerdict
<1>3. ASSUME NEW n \in 1..N, n - 1 \in T PROVE n \in T
  <2>1. AlikeAt("git", a, b, n)
    BY DEF AllAlike
  <2>2. n - 1 \in 0..N /\ n \in 1..Len(b)
    BY <1>1
  <2>3. GitRead(a)[n - 1] \in GitStates /\ GitRead(b)[n - 1] \in GitStates
    BY <1>1, <2>2, GitReadIs
  <2> DEFINE at == [token |-> a[n], index |-> n]
             bt == [token |-> b[n], index |-> n]
  <2>4. GitRead(a)[n] = GitStep(GitRead(a)[n - 1], at)
    BY GitReadIs
  <2>5. GitRead(b)[n] = GitStep(GitRead(b)[n - 1], bt)
    BY <2>2, GitReadIs
  <2>6. at.index = bt.index /\ at.token = a[n] /\ bt.token = b[n]
    OBVIOUS
  <2>7. ~GitRead(a)[n - 1].found /\ GitRead(a)[n - 1].awaits = "none" /\ IsOperand(a[n]) => b[n] = a[n]
    BY <2>1, SubcommandIsNoPath DEF AlikeAt
  <2>8. Alike(a[n], b[n])
    BY <2>1 DEF AlikeAt
  <2> HIDE DEF at, bt
  <2> QED
    BY <1>3, <2>3, <2>4, <2>5, <2>6, <2>7, <2>8, GitStepAlike
<1>4. 0..N \subseteq T
  <2> HIDE DEF T, N
  <2> QED
    BY <1>1, <1>2, <1>3, UpTo
<1> QED
  BY <1>4

\* What a git command may do is decided alike on both sides (command.rs:39-97).
LEMMA ClassifyAlike ==
  ASSUME NEW a \in Seq(Tokens), NEW b \in Seq(Tokens), AllAlike("git", a, b), ~ValueReadsAsOption(a)
  PROVE  SameVerdict(classify_git(a), classify_git(b))
<1>1. Len(a) \in Nat /\ Len(b) = Len(a)
  BY DEF AllAlike
<1>2. \A i \in 1..Len(a) : a[i] \in Tokens /\ b[i] \in Tokens /\ Alike(a[i], b[i])
  BY <1>1 DEF AllAlike, AlikeAt
<1>3. Len(a) = 1 => (a[1] \in {Flag(f) : f \in {"--version", "-v", "--help", "-h"}}
                     <=> b[1] \in {Flag(f) : f \in {"--version", "-v", "--help", "-h"}})
  <2> SUFFICES ASSUME Len(a) = 1
               PROVE  \A f \in {"--version", "-v", "--help", "-h"} : a[1] = Flag(f) <=> b[1] = Flag(f)
    OBVIOUS
  <2>1. a[1] \in Tokens /\ b[1] \in Tokens /\ Alike(a[1], b[1])
    BY <1>2
  <2>2. \A f : a[1] = Flag(f) <=> a[1].flag = f /\ Alone(a[1])
    BY <2>1, TokenFields
  <2>3. \A f : b[1] = Flag(f) <=> b[1].flag = f /\ Alone(b[1])
    BY <2>1, TokenFields
  <2> QED
    BY <2>1, <2>2, <2>3 DEF Alike
<1>4. SameVerdict(GitRead(a)[Len(a)], GitRead(b)[Len(b)])
  BY <1>1, GitReadAlike
<1> QED
  BY <1>1, <1>3, <1>4 DEF classify_git, SameVerdict

----------------------------------------------------------------------------
(* The readers of rg agree. *)

(***************************************************************************)
(* What the two tables of options have in common (arguments.rs:263-361,    *)
(* workload.rs:109-263).                                                   *)
(***************************************************************************)
LEMMA Tables ==
  /\ separate_value_option \cap rg_known_flag \subseteq rg_option_takes_value
  /\ known_flag \cap rg_option_takes_value \subseteq {"--trim"}
  /\ known_flag \cap separate_value_option = {}
  /\ known_flag \cap {"none", "@", "--", "-e", "--regexp", "-f", "--file"} = {}
  /\ "none" \notin separate_value_option
  /\ separate_value_option \cap {"--files", "--type-list"} = {}
  /\ \A f \in separate_value_option : f \in PatternFlags \cup PatternFileFlags <=> f \in {"-e", "--regexp", "-f", "--file"}
  /\ {"--regexp=", "--file=", "--glob=", "--iglob="} \subseteq attached_value
<1> USE DEF separate_value_option, rg_option_takes_value
<1>1. separate_value_option \cap rg_known_flag \subseteq rg_option_takes_value
  BY DEF rg_known_flag
<1>2. known_flag \cap rg_option_takes_value \subseteq {"--trim"}
  BY DEF known_flag
<1>3. known_flag \cap separate_value_option = {}
  BY DEF known_flag
<1>4. known_flag \cap {"none", "@", "--", "-e", "--regexp", "-f", "--file"} = {}
  BY DEF known_flag
<1>5. "none" \notin separate_value_option /\ separate_value_option \cap {"--files", "--type-list"} = {}
  OBVIOUS
<1>6. \A f \in separate_value_option : f \in PatternFlags \cup PatternFileFlags <=> f \in {"-e", "--regexp", "-f", "--file"}
  BY DEF PatternFlags, PatternFileFlags
<1>7. {"--regexp=", "--file=", "--glob=", "--iglob="} \subseteq attached_value
  BY DEF attached_value
<1> QED
  BY <1>1, <1>2, <1>3, <1>4, <1>5, <1>6, <1>7

PatternTaking == PatternFlags \cup PatternFileFlags

\* What a mode of the search changes.
LEMMA ModeEffects ==
  ASSUME NEW s \in KeyStates, NEW m \in Fields, NEW x \in Modes
  PROVE  LET r == set_mode(s, m, x)
         IN  /\ r.ended = s.ended /\ r.awaits = s.awaits /\ r.role = s.role
             /\ r.patterns = s.patterns
             /\ s.failed => r.failed
             /\ m # "output" => r.output = s.output
             /\ m = "output" /\ ~r.failed => r.output = x /\ s.output \in {"default", x}
BY DEF set_mode, KeyStates, Fields

\* What an option with a value leaves alone, and when it counts as a pattern.
LEMMA OptionEffects ==
  ASSUME NEW s \in KeyStates, NEW f, NEW v
  PROVE  LET r == OptionWithValue(s, f, v)
         IN  /\ r.ended = s.ended /\ r.awaits = s.awaits /\ r.role = s.role
             /\ r.output = s.output
             /\ s.failed => r.failed
             /\ r.patterns = IF f \in PatternTaking THEN s.patterns + 1 ELSE s.patterns
<1> DEFINE r == OptionWithValue(s, f, v)
           Kept(x) == x.ended = s.ended /\ x.awaits = s.awaits /\ x.role = s.role /\ x.output = s.output
                      /\ (s.failed => x.failed)
<1>1. \A kind : /\ Source(s, kind).ended = s.ended /\ Source(s, kind).awaits = s.awaits
                /\ Source(s, kind).role = s.role /\ Source(s, kind).output = s.output
                /\ Source(s, kind).failed = s.failed /\ Source(s, kind).patterns = s.patterns
  BY DEF Source, KeyStates
<1>2. \A kind \in {"re", "file"} : Source(s, kind) \in KeyStates
  BY DEF Source, KeyStates
<1>3. CASE f \in PatternFlags
  <2> DEFINE x == Source(s, "re")
  <2>1. r = observe_pattern(x, v)
    BY <1>3 DEF OptionWithValue, PatternFlags, PatternFileFlags, FilterFlags, ContextFlags
  <2>2. x \in KeyStates /\ Kept(x) /\ x.patterns = s.patterns
    BY <1>1, <1>2
  <2>3. Kept(r) /\ r.patterns = s.patterns + 1
    <3> HIDE DEF x, r
    <3> QED
      BY <2>1, <2>2 DEF observe_pattern, KeyStates
  <2> QED
    BY <1>3, <2>3 DEF PatternTaking
<1>4. CASE f \in PatternFileFlags
  <2> DEFINE x == Source(s, "file")
  <2>1. r = [x EXCEPT !.patterns = @ + 1]
    BY <1>4 DEF OptionWithValue, PatternFlags, PatternFileFlags, FilterFlags, ContextFlags
  <2>2. x \in KeyStates /\ Kept(x) /\ x.patterns = s.patterns
    BY <1>1, <1>2
  <2>3. Kept(r) /\ r.patterns = s.patterns + 1
    <3> HIDE DEF x, r
    <3> QED
      BY <2>1, <2>2 DEF KeyStates
  <2> QED
    BY <1>4, <2>3 DEF PatternTaking
<1>5. CASE f \notin PatternTaking
  <2>1. /\ f \notin PatternFlags /\ f \notin PatternFileFlags
    BY <1>5 DEF PatternTaking
  <2>2. \/ r = [s EXCEPT !.filters = @ + 1]
        \/ r = set_mode(s, "layout", "context")
        \/ r = [s EXCEPT !.matcher = "engine"]
        \/ r = s
    BY <2>1 DEF OptionWithValue
  <2>3. LET l == set_mode(s, "layout", "context")
        IN  Kept(l) /\ l.patterns = s.patterns
    BY ModeEffects DEF Fields, Modes
  <2>4. Kept(r) /\ r.patterns = s.patterns
    <3> HIDE DEF r
    <3> QED
      BY <2>2, <2>3 DEF KeyStates
  <2> QED
    BY <1>5, <2>4
<1> QED
  BY <1>3, <1>4, <1>5 DEF PatternTaking

(***************************************************************************)
(* One step of both readers.                                               *)
(*                                                                         *)
(* While neither has given the command line up, they are in the same place *)
(* (after "--", or at the value of the same option), know equally whether  *)
(* files are listed, and whether the next operand is a path.               *)
(***************************************************************************)
Agree(R, K) ==
  /\ R.ended = K.ended
  /\ R.awaits = K.awaits
  /\ R.pathOnly <=> K.output = "files"
  /\ R.pathOnly \/ R.pattern \/ R.positional > 0
       <=> K.output = "files" \/ K.patterns > 0 \/ K.awaits \in PatternTaking
  /\ K.role = "path" => R.semantic = "PathList"
  /\ K.role = "pattern" => R.semantic = "Pattern"

\* The value of an option read before.
LEMMA ValueAgrees ==
  ASSUME NEW R \in RgStates, NEW K \in KeyStates, NEW t \in Tokens, Agree(R, K),
         K.awaits # "none"
  PROVE  Agree(RgStep(R, t), KeyStep(K, t))
<1> DEFINE k == [K EXCEPT !.role = "none", !.awaits = "none"]
           L == OptionWithValue(k, K.awaits, t.value)
           Q == [R EXCEPT !.awaits = "none", !.semantic = RgOptionValue(R.awaits)]
<1>1. RgStep(R, t) = Q
  BY DEF RgStep, Agree
<1>2. KeyStep(K, t) = L
  <2>1. [K EXCEPT !.role = "none"].awaits = K.awaits
    BY DEF KeyStates
  <2> QED
    BY <2>1 DEF KeyStep
<1>3. k \in KeyStates
  BY DEF KeyStates
<1>4. /\ k.ended = K.ended /\ k.awaits = "none" /\ k.role = "none" /\ k.output = K.output
      /\ k.patterns = K.patterns
  BY DEF KeyStates
<1>5. /\ L.ended = K.ended /\ L.awaits = "none" /\ L.role = "none" /\ L.output = K.output
      /\ L.patterns = IF K.awaits \in PatternTaking THEN K.patterns + 1 ELSE K.patterns
  <2> HIDE DEF k
  <2> QED
    BY <1>3, <1>4, OptionEffects
<1>6. /\ Q.ended = R.ended /\ Q.awaits = "none" /\ Q.pathOnly = R.pathOnly
      /\ Q.pattern = R.pattern /\ Q.positional = R.positional
  BY DEF RgStates
<1>7. K.patterns \in Nat /\ R.positional \in Nat
  BY DEF KeyStates, RgStates
<1>8. "none" \notin PatternTaking
  BY DEF PatternTaking, PatternFlags, PatternFileFlags
<1> HIDE DEF L, Q
<1>9. Agree(Q, L)
  BY <1>5, <1>6, <1>7, <1>8 DEF Agree
<1> QED
  BY <1>1, <1>2, <1>9

\* An option that both know.
LEMMA OptionAgrees ==
  ASSUME NEW R \in RgStates, NEW K \in KeyStates, NEW t \in Tokens, Agree(R, K),
         K.awaits = "none", ~K.ended, IsOption(t), t # Separator, t \notin Disputed,
         ~RgStep(R, t).closed, ~KeyStep(K, t).failed
  PROVE  Agree(RgStep(R, t), KeyStep(K, t))
<1> DEFINE k == [K EXCEPT !.role = "none"]
           Q == RgOption(R, t)
           L == KeyOption(k, t)
           f == t.flag
<1>1. RgStep(R, t) = Q
  BY DEF RgStep, Agree
<1>2. k \in KeyStates
  BY DEF KeyStates
<1>3. /\ k.ended = K.ended /\ k.awaits = "none" /\ k.role = "none" /\ k.output = K.output
      /\ k.patterns = K.patterns
  BY DEF KeyStates
<1>4. KeyStep(K, t) = L
  BY <1>3 DEF KeyStep
<1>5. /\ Q.ended = R.ended /\ Q.positional = R.positional
      /\ Q.pathOnly <=> R.pathOnly \/ (Alone(t) /\ f \in {"--files", "--type-list"})
      /\ Q.pattern <=> R.pattern \/ f \in (IF Alone(t) THEN {"-e", "--regexp", "-f", "--file"}
                                             ELSE {"--regexp=", "-e", "--file="})
      /\ Q.awaits = IF Alone(t) /\ f \in rg_option_takes_value THEN f ELSE "none"
  BY DEF RgOption, RgStates
<1>6. f \in (IF Alone(t) THEN rg_known_flag ELSE {"--regexp=", "--file=", "--glob=", "--iglob="})
  BY <1>1 DEF RgOption, RgStates
<1>7. ~L.failed
  BY <1>4
<1>8. K.patterns \in Nat /\ R.positional \in Nat
  BY DEF KeyStates, RgStates
<1>9. "none" \notin PatternTaking
  BY DEF PatternTaking, PatternFlags, PatternFileFlags
<1> HIDE DEF Q, k
<1>10. CASE ~Alone(t)
  <2>1. f \in {"--regexp=", "--file=", "--glob=", "--iglob="}
    BY <1>6, <1>10
  <2>2. L = OptionWithValue(k, f, t.value)
    BY <1>10, <2>1, Tables DEF KeyOption
  <2>3. /\ L.ended = K.ended /\ L.awaits = "none" /\ L.role = "none" /\ L.output = K.output
        /\ L.patterns = IF f \in PatternTaking THEN K.patterns + 1 ELSE K.patterns
    BY <1>2, <1>3, <2>2, OptionEffects
  <2>4. f \in PatternTaking <=> f \in {"--regexp=", "-e", "--file="}
    BY <2>1 DEF PatternTaking, PatternFlags, PatternFileFlags
  <2> HIDE DEF L
  <2> QED
    BY <1>1, <1>4, <1>5, <1>8, <1>9, <1>10, <2>3, <2>4 DEF Agree
<1>11. CASE Alone(t) /\ f \in separate_value_option
  <2>1. L = [k EXCEPT !.awaits = f]
    BY <1>11, Tables DEF KeyOption
  <2>2. /\ L.ended = K.ended /\ L.awaits = f /\ L.role = "none" /\ L.output = K.output
        /\ L.patterns = K.patterns
    BY <1>2, <1>3, <2>1 DEF KeyStates
  <2>3. f \in rg_option_takes_value /\ f \notin {"--files", "--type-list"}
    BY <1>6, <1>11, Tables
  <2>4. f \in PatternTaking <=> f \in {"-e", "--regexp", "-f", "--file"}
    BY <1>11, Tables DEF PatternTaking
  <2> HIDE DEF L
  <2> QED
    BY <1>1, <1>4, <1>5, <1>8, <1>9, <1>11, <2>2, <2>3, <2>4 DEF Agree
<1>12. CASE Alone(t) /\ f \notin separate_value_option
  <2>1. f \in known_flag
    <3>1. f \notin known_flag => L = [k EXCEPT !.failed = TRUE]
      BY <1>12 DEF KeyOption
    <3> QED
      BY <1>2, <1>7, <3>1 DEF KeyStates
  <2>2. f \notin {"--trim", "-l", "--files-with-matches", "--files-without-match"}
    BY <1>12, TokenFields DEF Disputed
  <2>3. /\ f \notin rg_option_takes_value
        /\ f \notin {"-e", "--regexp", "-f", "--file"}
    BY <2>1, <2>2, Tables
  <2>4. L = IF Mode(f)[1] = "none" THEN k ELSE set_mode(k, Mode(f)[1], Mode(f)[2])
    BY <1>12, <2>1 DEF KeyOption
  <2>5. /\ L.ended = K.ended /\ L.awaits = "none" /\ L.role = "none" /\ L.patterns = K.patterns
    BY <1>2, <1>3, <2>4, ModeType, ModeEffects
  <2>6. L.output = "files" <=> K.output = "files" \/ f \in {"--files", "--type-list"}
    <3>1. CASE f \in {"--files", "--type-list"}
      <4>1. Mode(f)[1] = "output" /\ Mode(f)[2] = "files"
        BY <3>1 DEF Mode
      <4> QED
        BY <1>2, <1>7, <2>4, <3>1, <4>1, ModeEffects DEF Fields, Modes
    <3>2. CASE f \notin {"--files", "--type-list"}
      <4>1. Mode(f)[1] = "output" => Mode(f)[2] \in Modes \ {"files", "default"}
        BY <2>2, <3>2 DEF Mode, Modes
      <4>2. CASE Mode(f)[1] = "none"
        BY <1>3, <2>4, <3>2, <4>2
      <4>3. CASE Mode(f)[1] = "output"
        BY <1>2, <1>3, <1>7, <2>4, <3>2, <4>1, <4>3, ModeEffects DEF Fields
      <4>4. CASE Mode(f)[1] \notin {"none", "output"}
        BY <1>2, <1>3, <2>4, <3>2, <4>4, ModeType, ModeEffects
      <4> QED
        BY <4>2, <4>3, <4>4
    <3> QED
      BY <3>1, <3>2
  <2> HIDE DEF L
  <2> QED
    BY <1>1, <1>4, <1>5, <1>8, <1>9, <1>12, <2>3, <2>5, <2>6 DEF Agree
<1> QED
  BY <1>10, <1>11, <1>12

\* An operand: the pattern, or a path if there is a pattern or a list of files.
LEMMA PositionalAgrees ==
  ASSUME NEW R \in RgStates, NEW K \in KeyStates, NEW t \in Tokens, Agree(R, K),
         K.awaits = "none", K.ended \/ ~IsOption(t), K.ended \/ t # Separator,
         ~RgStep(R, t).closed
  PROVE  Agree(RgStep(R, t), KeyStep(K, t))
<1> DEFINE k == [K EXCEPT !.role = "none"]
           Q == RgPositional(R)
           L == KeyPositional(k, t.value)
<1>1. RgStep(R, t) = Q
  BY DEF RgStep, Agree
<1>2. k \in KeyStates
  BY DEF KeyStates
<1>3. /\ k.ended = K.ended /\ k.awaits = "none" /\ k.role = "none" /\ k.output = K.output
      /\ k.patterns = K.patterns
  BY DEF KeyStates
<1>4. KeyStep(K, t) = L
  BY <1>3 DEF KeyStep
<1>5. K.patterns \in Nat /\ R.positional \in Nat
  BY DEF KeyStates, RgStates
<1>6. "none" \notin PatternTaking
  BY DEF PatternTaking, PatternFlags, PatternFileFlags
<1>7. ~R.closed
  BY <1>1 DEF RgPositional, RgStates
<1>8. /\ Q.ended = R.ended /\ Q.awaits = R.awaits /\ Q.pathOnly = R.pathOnly
      /\ Q.pattern = R.pattern /\ Q.positional = R.positional + 1
      /\ Q.semantic = IF R.pathOnly \/ R.pattern \/ R.positional > 0 THEN "PathList" ELSE "Pattern"
  BY <1>7 DEF RgPositional, RgStates
<1> HIDE DEF Q, k
<1>9. CASE k.output = "files" \/ k.patterns > 0
  <2>1. L = [k EXCEPT !.paths = @ + 1, !.role = "path"]
    BY <1>9 DEF KeyPositional
  <2>2. /\ L.ended = K.ended /\ L.awaits = "none" /\ L.role = "path" /\ L.output = K.output
        /\ L.patterns = K.patterns
    BY <1>2, <1>3, <2>1 DEF KeyStates
  <2> HIDE DEF L
  <2> QED
    BY <1>1, <1>3, <1>4, <1>5, <1>6, <1>8, <1>9, <2>2 DEF Agree
<1>10. CASE ~(k.output = "files" \/ k.patterns > 0)
  <2> DEFINE o == observe_pattern(k, t.value)
  <2>1. L = [o EXCEPT !.role = "pattern"]
    BY <1>10 DEF KeyPositional
  <2>2. /\ o.ended = K.ended /\ o.awaits = "none" /\ o.output = K.output
        /\ o.patterns = K.patterns + 1
    BY <1>2, <1>3 DEF observe_pattern, KeyStates
  <2>3. o \in KeyStates
    BY <1>2, ObserveType
  <2>4. /\ L.ended = K.ended /\ L.awaits = "none" /\ L.role = "pattern" /\ L.output = K.output
        /\ L.patterns = K.patterns + 1
    <3> HIDE DEF o
    <3> QED
      BY <2>1, <2>2, <2>3 DEF KeyStates
  <2> HIDE DEF L
  <2> QED
    BY <1>1, <1>3, <1>4, <1>5, <1>6, <1>8, <1>10, <2>4 DEF Agree
<1> QED
  BY <1>9, <1>10

\* One token, read by both.
LEMMA StepAgrees ==
  ASSUME NEW R \in RgStates, NEW K \in KeyStates, NEW t \in Tokens, Agree(R, K),
         t \notin Disputed, ~RgStep(R, t).closed, ~KeyStep(K, t).failed
  PROVE  Agree(RgStep(R, t), KeyStep(K, t))
<1>1. CASE K.awaits # "none"
  BY <1>1, ValueAgrees
<1>2. CASE K.awaits = "none" /\ ~K.ended /\ t = Separator
  <2> DEFINE k == [K EXCEPT !.role = "none"]
  <2>1. RgStep(R, t) = [R EXCEPT !.ended = TRUE, !.semantic = "Opaque"]
    BY <1>2 DEF RgStep, Agree
  <2>2. k.ended = K.ended /\ k.awaits = "none"
    BY <1>2 DEF KeyStates
  <2>3. KeyStep(K, t) = [k EXCEPT !.ended = TRUE]
    BY <1>2, <2>2 DEF KeyStep
  <2>4. [k EXCEPT !.ended = TRUE] = [K EXCEPT !.ended = TRUE, !.role = "none"]
    BY DEF KeyStates
  <2>5. LET r == [R EXCEPT !.ended = TRUE, !.semantic = "Opaque"]
        IN  r.ended /\ r.awaits = R.awaits /\ r.pathOnly = R.pathOnly /\ r.pattern = R.pattern
            /\ r.positional = R.positional
    BY DEF RgStates
  <2>6. LET r == [K EXCEPT !.ended = TRUE, !.role = "none"]
        IN  r.ended /\ r.awaits = K.awaits /\ r.output = K.output /\ r.patterns = K.patterns /\ r.role = "none"
    BY DEF KeyStates
  <2> QED
    BY <2>1, <2>3, <2>4, <2>5, <2>6 DEF Agree
<1>3. CASE K.awaits = "none" /\ ~K.ended /\ IsOption(t) /\ t # Separator
  BY <1>3, OptionAgrees
<1>4. CASE K.awaits = "none" /\ (K.ended \/ (~IsOption(t) /\ t # Separator))
  BY <1>4, PositionalAgrees
<1> QED
  BY <1>1, <1>2, <1>3, <1>4

\* A reader that gave the command line up never takes it back.
LEMMA RgStaysClosed ==
  ASSUME NEW s \in RgStates, NEW t, s.closed
  PROVE  RgStep(s, t).closed
<1>1. RgOption(s, t).closed
  BY DEF RgOption, RgStates
<1>2. RgPositional(s).closed
  BY DEF RgPositional, RgStates
<1>3. \A x : [s EXCEPT !.awaits = "none", !.semantic = x].closed /\ [s EXCEPT !.ended = TRUE, !.semantic = x].closed
  BY DEF RgStates
<1> QED
  BY <1>1, <1>2, <1>3 DEF RgStep

LEMMA KeyStaysFailed ==
  ASSUME NEW s \in KeyStates, NEW t, s.failed
  PROVE  KeyStep(s, t).failed
<1> DEFINE k == [s EXCEPT !.role = "none"]
           w == [k EXCEPT !.awaits = "none"]
<1>1. k \in KeyStates /\ k.failed /\ w \in KeyStates /\ w.failed
  BY DEF KeyStates
<1>2. [k EXCEPT !.ended = TRUE].failed
  BY <1>1 DEF KeyStates
<1> HIDE DEF k, w
<1>3. OptionWithValue(w, k.awaits, t.value).failed
  BY <1>1, OptionEffects
<1>4. KeyOption(k, t).failed
  <2>1. OptionWithValue(k, t.flag, t.value).failed
    BY <1>1, OptionEffects
  <2>2. [k EXCEPT !.awaits = t.flag].failed /\ [k EXCEPT !.failed = TRUE].failed
    BY <1>1 DEF KeyStates
  <2>3. Mode(t.flag)[1] # "none" => set_mode(k, Mode(t.flag)[1], Mode(t.flag)[2]).failed
    BY <1>1, ModeType, ModeEffects
  <2> QED
    BY <1>1, <2>1, <2>2, <2>3 DEF KeyOption
<1>5. KeyPositional(k, t.value).failed
  <2>1. [k EXCEPT !.paths = @ + 1, !.role = "path"].failed
    BY <1>1 DEF KeyStates
  <2>2. [observe_pattern(k, t.value) EXCEPT !.role = "pattern"].failed
    BY <1>1 DEF observe_pattern, KeyStates
  <2> QED
    BY <2>1, <2>2 DEF KeyPositional
<1> QED
  BY <1>2, <1>3, <1>4, <1>5 DEF KeyStep, k, w

(***************************************************************************)
(* At every position of a command line that neither reader gives up.       *)
(***************************************************************************)
LEMMA ReadsAgree ==
  ASSUME NEW list \in Seq(Tokens), \A i \in 1..Len(list) : list[i] \notin Disputed,
         ~RgRead(list)[Len(list)].closed, ~KeyRead(list)[Len(list)].failed
  PROVE  \A n \in 0..Len(list) : Agree(RgRead(list)[n], KeyRead(list)[n])
<1> DEFINE N == Len(list)
           R == RgRead(list)
           K == KeyRead(list)
           Open(n) == ~R[n].closed /\ ~K[n].failed
           T == {n \in 0..N : Open(n) => Agree(R[n], K[n])}
           U == {n \in 0..N : Open(N - n)}
<1>1. N \in Nat /\ \A n \in 1..N : list[n] \in Tokens /\ n - 1 \in 0..N /\ n \in 0..N
  OBVIOUS
<1>2. \A n \in 1..N : R[n] = RgStep(R[n - 1], list[n]) /\ K[n] = KeyStep(K[n - 1], list[n])
  BY RgReadIs, KeyReadIs
<1>3. \A n \in 0..N : R[n] \in RgStates /\ K[n] \in KeyStates
  BY RgReadIs, KeyReadIs
<1>4. R[0] = RgStart /\ K[0] = KeyStart
  BY RgReadIs, KeyReadIs
<1> HIDE DEF N, R, K
<1>5. ASSUME NEW n \in 1..N, Open(n) PROVE Open(n - 1)
  BY <1>1, <1>2, <1>3, <1>5, RgStaysClosed, KeyStaysFailed
<1>6. 0..N \subseteq U
  <2>1. 0 \in U
    BY <1>1 DEF R, K, N
  <2>2. ASSUME NEW n \in 1..N, n - 1 \in U PROVE n \in U
    <3>1. N - (n - 1) \in 1..N /\ (N - (n - 1)) - 1 = N - n
      BY <1>1
    <3>2. Open(N - (n - 1))
      BY <2>2
    <3>3. Open(N - n)
      <4> HIDE DEF Open
      <4> QED
        BY <1>5, <3>1, <3>2
    <3> QED
      BY <1>1, <3>3
  <2> HIDE DEF U
  <2> QED
    BY <1>1, <2>1, <2>2, UpTo
<1>7. \A n \in 0..N : Open(n)
  <2> SUFFICES ASSUME NEW n \in 0..N PROVE Open(n)
    OBVIOUS
  <2>1. N - n \in 0..N /\ N - (N - n) = n
    BY <1>1
  <2> QED
    BY <1>6, <2>1
<1>8. 0..N \subseteq T
  <2>1. 0 \in T
    <3>1. Agree(RgStart, KeyStart)
      BY DEF RgStart, KeyStart, Agree, PatternTaking, PatternFlags, PatternFileFlags
    <3> QED
      BY <1>1, <1>4, <3>1
  <2>2. ASSUME NEW n \in 1..N, n - 1 \in T PROVE n \in T
    <3>1. n - 1 \in 0..N /\ list[n] \in Tokens /\ list[n] \notin Disputed
      BY <1>1 DEF N
    <3>2. Open(n - 1) /\ Open(n)
      BY <1>1, <1>7
    <3>3. Agree(R[n - 1], K[n - 1])
      BY <2>2, <3>2
    <3>4. Agree(R[n], K[n])
      BY <1>2, <1>3, <3>1, <3>2, <3>3, StepAgrees
    <3> QED
      BY <1>1, <3>4
  <2> HIDE DEF T
  <2> QED
    BY <1>1, <2>1, <2>2, UpTo
<1> QED
  BY <1>7, <1>8 DEF N, R, K

----------------------------------------------------------------------------
(* The key does not see where a flag stands. *)

\* Two states of the reader that go on alike and end in the same key.
Same(x, y) ==
  \/ x.failed /\ y.failed
  \/ [x EXCEPT !.role = "none"] = [y EXCEPT !.role = "none"]

\* Alike they go on.
LEMMA SameStep ==
  ASSUME NEW x \in KeyStates, NEW y \in KeyStates, NEW t, Same(x, y)
  PROVE  Same(KeyStep(x, t), KeyStep(y, t))
<1>1. CASE x.failed /\ y.failed
  BY <1>1, KeyStaysFailed DEF Same
<1>2. CASE [x EXCEPT !.role = "none"] = [y EXCEPT !.role = "none"]
  <2> DEFINE Go(r) ==
               IF r.awaits # "none"
               THEN OptionWithValue([r EXCEPT !.awaits = "none"], r.awaits, t.value)
               ELSE IF ~r.ended /\ t = Separator THEN [r EXCEPT !.ended = TRUE]
               ELSE IF ~r.ended /\ IsOption(t) THEN KeyOption(r, t)
               ELSE KeyPositional(r, t.value)
  <2>0. \A z : KeyStep(z, t) = Go([z EXCEPT !.role = "none"])
    BY DEF KeyStep
  <2>1. KeyStep(x, t) = KeyStep(y, t)
    <3> HIDE DEF Go
    <3> QED
      BY <1>2, <2>0
  <2> QED
    BY <2>1 DEF Same
<1> QED
  BY <1>1, <1>2 DEF Same

\* The flags whose place KeyIgnoresFlagPlace is about.
MovableFlags == {Flag(f) : f \in known_flag} \ FilesModes

\* The mode a movable flag sets never lists files.
LEMMA MovableStep ==
  ASSUME NEW s \in KeyStates, NEW t \in MovableFlags, ~s.ended, s.awaits = "none"
  PROVE  LET k == [s EXCEPT !.role = "none"]
             m == Mode(t.flag)
         IN  /\ KeyStep(s, t) = IF m[1] = "none" THEN k ELSE set_mode(k, m[1], m[2])
             /\ m[1] # "none" => m[1] \in Fields /\ m[2] \in Modes \ {"default"}
             /\ m[1] = "output" => m[2] # "files"
<1> DEFINE k == [s EXCEPT !.role = "none"]
           m == Mode(t.flag)
<1>1. PICK f \in known_flag : t = Flag(f)
  BY DEF MovableFlags
<1>2. t.flag = f /\ Alone(t)
  BY <1>1 DEF Flag, Alone
<1>3. f \notin {"none", "@", "--"} /\ f \notin separate_value_option
  BY Tables
<1>4. IsOption(t) /\ t # Separator
  BY <1>2, <1>3 DEF IsOption, Separator, Flag
<1>5. ~k.ended /\ k.awaits = "none"
  BY DEF KeyStates
<1>6. KeyStep(s, t) = KeyOption(k, t)
  BY <1>4, <1>5 DEF KeyStep
<1>7. KeyOption(k, t) = IF m[1] = "none" THEN k ELSE set_mode(k, m[1], m[2])
  BY <1>2, <1>3 DEF KeyOption
<1>8. m[1] # "none" => m[1] \in Fields /\ m[2] \in Modes \ {"default"}
  BY ModeType
<1>9. m[1] = "output" => m[2] # "files"
  <2> SUFFICES ASSUME m[1] = "output", m[2] = "files" PROVE FALSE
    OBVIOUS
  <2>1. Mode(f) = <<"output", "files">>
    BY <1>2 DEF Mode
  <2>2. f \in {g \in known_flag : Mode(g) = <<"output", "files">>}
    BY <2>1
  <2>3. t \in FilesModes
    BY <1>1, <2>2, Zenon DEF FilesModes
  <2> QED
    BY <2>3 DEF MovableFlags
<1> QED
  BY <1>6, <1>7, <1>8, <1>9

\* A state without the role of the last token, and with the mode of a flag set.
Bare(s) == [s EXCEPT !.role = "none"]
Flagged(k, t) == LET m == Mode(t.flag) IN IF m[1] = "none" THEN k ELSE set_mode(k, m[1], m[2])
Ready(s) == s \in KeyStates /\ ~s.ended /\ s.awaits = "none"

LEMMA BareIs ==
  ASSUME NEW s, Ready(s)
  PROVE  Ready(Bare(s)) /\ Bare(s).role = "none" /\ Bare(Bare(s)) = Bare(s)
         /\ (s.role = "none" => Bare(s) = s)
BY DEF Ready, Bare, KeyStates

\* A movable flag sets its mode and nothing else.
LEMMA FlaggedIs ==
  ASSUME NEW s, Ready(s), NEW t \in MovableFlags
  PROVE  LET r == KeyStep(s, t)
         IN  r = Flagged(Bare(s), t) /\ Ready(r) /\ r.role = "none" /\ Bare(r) = r
<1> DEFINE m == Mode(t.flag)
           k == Bare(s)
<1>1. /\ KeyStep(s, t) = IF m[1] = "none" THEN k ELSE set_mode(k, m[1], m[2])
      /\ m[1] # "none" => m[1] \in Fields /\ m[2] \in Modes
  BY MovableStep DEF Ready, Bare
<1>2. Ready(k) /\ k.role = "none" /\ Bare(k) = k
  BY BareIs
<1> HIDE DEF m, k
<1>3. CASE m[1] = "none"
  BY <1>1, <1>2, <1>3 DEF Flagged, m, k
<1>4. CASE m[1] # "none"
  <2> DEFINE r == set_mode(k, m[1], m[2])
  <2>1. Ready(r) /\ r.role = "none"
    BY <1>1, <1>2, <1>4, SetModeType, ModeEffects DEF Ready
  <2>2. Bare(r) = r
    <3> HIDE DEF r
    <3> QED
      BY <2>1, BareIs
  <2> QED
    BY <1>1, <1>4, <2>1, <2>2 DEF Flagged, m, k
<1> QED
  BY <1>3, <1>4

\* Two modes set in either order: the same two modes, or no key.
LEMMA ModesCommute ==
  ASSUME NEW k \in KeyStates, NEW m \in Fields, NEW n \in Fields,
         NEW x \in Modes \ {"default"}, NEW y \in Modes \ {"default"}
  PROVE  Same(set_mode(set_mode(k, m, x), n, y), set_mode(set_mode(k, n, y), m, x))
<1> DEFINE a == set_mode(k, m, x)
           b == set_mode(k, n, y)
<1>1. a \in KeyStates /\ b \in KeyStates
  BY SetModeType
<1>2. CASE m = n
  <2>1. CASE x = y
    BY <1>2, <2>1 DEF Same
  <2>2. CASE x # y
    <3>1. ASSUME NEW p \in Modes \ {"default"}, NEW q \in Modes, p # q
          PROVE  set_mode(set_mode(k, m, p), m, q).failed
      <4>1. CASE k[m] \in {"default", p}
        <5>1. set_mode(k, m, p) = [k EXCEPT ![m] = p]
          BY <4>1 DEF set_mode
        <5>2. [k EXCEPT ![m] = p] \in KeyStates /\ [k EXCEPT ![m] = p][m] = p
          BY DEF KeyStates, Fields
        <5>3. set_mode([k EXCEPT ![m] = p], m, q) = [[k EXCEPT ![m] = p] EXCEPT !.failed = TRUE]
          BY <3>1, <5>2 DEF set_mode
        <5> QED
          BY <5>1, <5>2, <5>3 DEF KeyStates
      <4>2. CASE k[m] \notin {"default", p}
        <5>1. set_mode(k, m, p) \in KeyStates /\ set_mode(k, m, p).failed
          BY <4>2, SetModeType DEF set_mode, KeyStates
        <5> QED
          BY <5>1, ModeEffects
      <4> QED
        BY <4>1, <4>2
    <3> QED
      BY <1>2, <2>2, <3>1 DEF Same
  <2> QED
    BY <2>1, <2>2
<1>3. CASE m # n
  <2>1. CASE k[m] \in {"default", x} /\ k[n] \in {"default", y}
    <3>1. set_mode(a, n, y) = [[k EXCEPT ![m] = x] EXCEPT ![n] = y]
      BY <1>3, <2>1 DEF set_mode, KeyStates, Fields
    <3>2. set_mode(b, m, x) = [[k EXCEPT ![n] = y] EXCEPT ![m] = x]
      BY <1>3, <2>1 DEF set_mode, KeyStates, Fields
    <3>3. [[k EXCEPT ![m] = x] EXCEPT ![n] = y] = [[k EXCEPT ![n] = y] EXCEPT ![m] = x]
      BY <1>3 DEF KeyStates, Fields
    <3> QED
      BY <3>1, <3>2, <3>3 DEF Same
  <2>2. ASSUME NEW p \in Fields, NEW q \in Fields, NEW u \in Modes, NEW v \in Modes,
               p # q, k[p] \notin {"default", u}
        PROVE  set_mode(set_mode(k, p, u), q, v).failed /\ set_mode(set_mode(k, q, v), p, u).failed
    <3>1. set_mode(k, p, u) \in KeyStates /\ set_mode(k, p, u).failed
      BY <2>2, SetModeType DEF set_mode, KeyStates
    <3>2. set_mode(k, q, v) \in KeyStates /\ set_mode(k, q, v)[p] = k[p]
      <4>1. [k EXCEPT ![q] = v][p] = k[p] /\ [k EXCEPT !.failed = TRUE][p] = k[p]
        BY <2>2 DEF KeyStates, Fields
      <4> QED
        BY <4>1, SetModeType DEF set_mode
    <3>3. set_mode(set_mode(k, q, v), p, u).failed
      BY <2>2, <3>2 DEF set_mode, KeyStates
    <3> QED
      BY <3>1, <3>3, ModeEffects
  <2> QED
    BY <1>3, <2>1, <2>2 DEF Same
<1> QED
  BY <1>2, <1>3

\* Two flags in either order.
LEMMA FlagsCommute ==
  ASSUME NEW s, Ready(s), NEW t \in MovableFlags, NEW u \in MovableFlags
  PROVE  Same(KeyStep(KeyStep(s, t), u), KeyStep(KeyStep(s, u), t))
<1> DEFINE k == Bare(s)
           m == Mode(t.flag)
           n == Mode(u.flag)
<1>1. /\ KeyStep(KeyStep(s, t), u) = Flagged(Flagged(k, t), u)
      /\ KeyStep(KeyStep(s, u), t) = Flagged(Flagged(k, u), t)
  BY FlaggedIs
<1>2. k \in KeyStates
  BY BareIs DEF Ready
<1>3. /\ m[1] # "none" => m[1] \in Fields /\ m[2] \in Modes \ {"default"}
      /\ n[1] # "none" => n[1] \in Fields /\ n[2] \in Modes \ {"default"}
  BY ModeType
<1> HIDE DEF k
<1>4. CASE m[1] = "none" \/ n[1] = "none"
  BY <1>1, <1>4 DEF Flagged, Same
<1>5. CASE m[1] # "none" /\ n[1] # "none"
  BY <1>1, <1>2, <1>3, <1>5, ModesCommute DEF Flagged
<1> QED
  BY <1>4, <1>5

\* A mode other than listing files is no matter to an operand.
LEMMA PositionalCommutes ==
  ASSUME NEW k \in KeyStates, NEW m \in Fields, NEW x \in Modes, NEW v,
         m = "output" => x # "files", k[m] \in {"default", x}
  PROVE  Bare(KeyPositional([k EXCEPT ![m] = x], v)) = Bare([Bare(KeyPositional(k, v)) EXCEPT ![m] = x])
<1> DEFINE a == [k EXCEPT ![m] = x]
           p == KeyPositional(k, v)
<1>1. a.patterns = k.patterns /\ (a.output = "files" <=> k.output = "files")
  BY DEF KeyStates, Fields
<1>2. CASE k.output = "files" \/ k.patterns > 0
  <2> DEFINE n == k.paths + 1
             z == [k EXCEPT !.paths = n, !.role = "path"]
             w == [a EXCEPT !.paths = n, !.role = "path"]
  <2>1. p = z
    BY <1>2 DEF KeyPositional
  <2>2. a.paths = k.paths
    BY DEF KeyStates, Fields
  <2>3. KeyPositional(a, v) = w
    BY <1>1, <1>2, <2>2 DEF KeyPositional
  <2> HIDE DEF n, p
  <2>4. [z EXCEPT !.role = "none"] = [k EXCEPT !.paths = n, !.role = "none"]
    BY DEF KeyStates
  <2>5. [w EXCEPT !.role = "none"] = [a EXCEPT !.paths = n, !.role = "none"]
    BY DEF KeyStates, Fields
  <2>6. [a EXCEPT !.paths = n, !.role = "none"] = [[k EXCEPT !.paths = n, !.role = "none"] EXCEPT ![m] = x]
    BY DEF KeyStates, Fields
  <2>7. [[a EXCEPT !.paths = n, !.role = "none"] EXCEPT !.role = "none"] = [a EXCEPT !.paths = n, !.role = "none"]
    BY DEF KeyStates, Fields
  <2>8. Bare(KeyPositional(a, v)) = [a EXCEPT !.paths = n, !.role = "none"]
    BY <2>3, <2>5 DEF Bare
  <2>9. Bare(p) = [k EXCEPT !.paths = n, !.role = "none"]
    BY <2>1, <2>4 DEF Bare
  <2> QED
    BY <2>6, <2>7, <2>8, <2>9, Zenon DEF Bare, p
<1>3. CASE ~(k.output = "files" \/ k.patterns > 0)
  <2> DEFINE c == merge(k.shape, PatternShape(v), "mix")
             d == merge(k.size, PatternSize(v), "mix")
             e == k.patterns + 1
             y == [k EXCEPT !.shape = c, !.size = d, !.patterns = e]
             u == [a EXCEPT !.shape = c, !.size = d, !.patterns = e]
             z == [y EXCEPT !.role = "pattern"]
             w == [u EXCEPT !.role = "pattern"]
  <2>1. p = z
    BY <1>3 DEF KeyPositional, observe_pattern
  <2>2. a.shape = k.shape /\ a.size = k.size
    BY DEF KeyStates, Fields
  <2>3. observe_pattern(a, v) = u
    BY <1>1, <2>2 DEF observe_pattern
  <2>4. KeyPositional(a, v) = w
    BY <1>1, <1>3, <2>3 DEF KeyPositional
  <2> HIDE DEF c, d, e, p
  <2>5. [z EXCEPT !.role = "none"] = [k EXCEPT !.shape = c, !.size = d, !.patterns = e, !.role = "none"]
    BY DEF KeyStates
  <2>6. [w EXCEPT !.role = "none"] = [a EXCEPT !.shape = c, !.size = d, !.patterns = e, !.role = "none"]
    BY DEF KeyStates, Fields
  <2>7. [a EXCEPT !.shape = c, !.size = d, !.patterns = e, !.role = "none"]
        = [[k EXCEPT !.shape = c, !.size = d, !.patterns = e, !.role = "none"] EXCEPT ![m] = x]
    BY DEF KeyStates, Fields
  <2>8. [[a EXCEPT !.shape = c, !.size = d, !.patterns = e, !.role = "none"] EXCEPT !.role = "none"]
        = [a EXCEPT !.shape = c, !.size = d, !.patterns = e, !.role = "none"]
    BY DEF KeyStates, Fields
  <2>9. Bare(KeyPositional(a, v)) = [a EXCEPT !.shape = c, !.size = d, !.patterns = e, !.role = "none"]
    BY <2>4, <2>6 DEF Bare
  <2>10. Bare(p) = [k EXCEPT !.shape = c, !.size = d, !.patterns = e, !.role = "none"]
    BY <2>1, <2>5 DEF Bare
  <2> QED
    BY <2>7, <2>8, <2>9, <2>10, Zenon DEF Bare, p
<1> QED
  BY <1>2, <1>3

\* An operand and a flag in either order.
LEMMA OperandCommutes ==
  ASSUME NEW s, Ready(s), NEW t \in MovableFlags, NEW u \in Tokens, u.flag = "none"
  PROVE  Same(KeyStep(KeyStep(s, t), u), KeyStep(KeyStep(s, u), t))
<1> DEFINE k == Bare(s)
           v == u.value
           p == KeyPositional(k, v)
           m == Mode(t.flag)[1]
           x == Mode(t.flag)[2]
<1>1. ASSUME NEW r, Ready(r) PROVE KeyStep(r, u) = KeyPositional(Bare(r), v)
  <2>1. u # Separator /\ ~IsOption(u)
    BY TokenFields DEF IsOption
  <2>2. Bare(r).awaits = "none" /\ ~Bare(r).ended
    BY <1>1, BareIs DEF Ready
  <2> QED
    BY <2>1, <2>2 DEF KeyStep, Bare
<1>2. k \in KeyStates /\ Ready(k) /\ k.role = "none"
  BY BareIs DEF Ready
<1>3. KeyStep(KeyStep(s, t), u) = KeyPositional(Flagged(k, t), v)
  BY <1>1, FlaggedIs
<1>4. \A r \in KeyStates : KeyPositional(r, v) \in KeyStates /\ KeyPositional(r, v).ended = r.ended
           /\ KeyPositional(r, v).awaits = r.awaits /\ KeyPositional(r, v).failed = r.failed
           /\ \A f \in Fields : KeyPositional(r, v)[f] = r[f]
  <2> SUFFICES ASSUME NEW r \in KeyStates
               PROVE  KeyPositional(r, v) \in KeyStates /\ KeyPositional(r, v).ended = r.ended
           /\ KeyPositional(r, v).awaits = r.awaits /\ KeyPositional(r, v).failed = r.failed
           /\ \A f \in Fields : KeyPositional(r, v)[f] = r[f]
    OBVIOUS
  <2> DEFINE o == observe_pattern(r, v)
  <2>1. r.paths + 1 \in Nat
    BY DEF KeyStates
  <2>2. LET z == [r EXCEPT !.paths = r.paths + 1, !.role = "path"]
        IN  z \in KeyStates /\ z.ended = r.ended /\ z.awaits = r.awaits /\ z.failed = r.failed
            /\ \A f \in Fields : z[f] = r[f]
    BY <2>1 DEF KeyStates, Fields
  <2>3. o \in KeyStates
    BY ObserveType
  <2>4. o.ended = r.ended /\ o.awaits = r.awaits /\ o.failed = r.failed /\ \A f \in Fields : o[f] = r[f]
    BY DEF observe_pattern, KeyStates, Fields
  <2> HIDE DEF o
  <2>5. LET z == [o EXCEPT !.role = "pattern"]
        IN  z \in KeyStates /\ z.ended = r.ended /\ z.awaits = r.awaits /\ z.failed = r.failed
            /\ \A f \in Fields : z[f] = r[f]
    BY <2>3, <2>4 DEF KeyStates, Fields
  <2> QED
    BY <2>2, <2>5 DEF KeyPositional, o
<1>5. KeyStep(s, u) = p /\ Ready(p)
  BY <1>1, <1>2, <1>4 DEF Ready
<1>6. KeyStep(KeyStep(s, u), t) = Flagged(Bare(p), t)
  BY <1>5, FlaggedIs
<1>7. /\ m # "none" => m \in Fields /\ x \in Modes
      /\ m = "output" => x # "files"
  BY MovableStep DEF Ready
<1>8. Bare(p) \in KeyStates /\ Bare(Bare(p)) = Bare(p)
  BY <1>5, BareIs DEF Ready
<1> HIDE DEF k
<1>9. CASE m = "none"
  <2>1. Flagged(k, t) = k /\ Flagged(Bare(p), t) = Bare(p)
    BY <1>9 DEF Flagged
  <2> QED
    BY <1>3, <1>6, <1>8, <2>1 DEF Same, Bare
<1>10. CASE m # "none" /\ k[m] \notin {"default", x}
  <2>1. Flagged(k, t) = [k EXCEPT !.failed = TRUE]
    BY <1>10 DEF Flagged, set_mode
  <2>2. [k EXCEPT !.failed = TRUE] \in KeyStates /\ [k EXCEPT !.failed = TRUE].failed
    BY <1>2 DEF KeyStates
  <2>3. KeyPositional(Flagged(k, t), v).failed
    BY <1>4, <2>1, <2>2
  <2>4. Bare(p)[m] = k[m]
    BY <1>2, <1>4, <1>5, <1>7, <1>10 DEF Bare, Ready, KeyStates, Fields
  <2>5. Flagged(Bare(p), t) = [Bare(p) EXCEPT !.failed = TRUE]
    BY <1>10, <2>4 DEF Flagged, set_mode
  <2>6. Flagged(Bare(p), t).failed
    BY <1>8, <2>5 DEF KeyStates
  <2> QED
    BY <1>3, <1>6, <2>3, <2>6 DEF Same
<1>11. CASE m # "none" /\ k[m] \in {"default", x}
  <2> DEFINE a == [k EXCEPT ![m] = x]
  <2>1. m \in Fields /\ x \in Modes
    BY <1>7, <1>11
  <2>2. Flagged(k, t) = a
    BY <1>11 DEF Flagged, set_mode
  <2>3. Bare(p)[m] = k[m]
    BY <1>2, <1>4, <1>5, <2>1 DEF Bare, Ready, KeyStates, Fields
  <2>4. Flagged(Bare(p), t) = [Bare(p) EXCEPT ![m] = x]
    BY <1>11, <2>3 DEF Flagged, set_mode
  <2>5. Bare(KeyPositional(a, v)) = Bare([Bare(p) EXCEPT ![m] = x])
    BY <1>2, <1>7, <1>11, <2>1, PositionalCommutes
  <2> QED
    BY <1>3, <1>6, <2>2, <2>4, <2>5 DEF Same, Bare
<1> QED
  BY <1>9, <1>10, <1>11
\* The key that is made of the state at the end.
KeyOf(s) ==
  IF s.failed \/ s.awaits # "none" \/ (s.patterns = 0 /\ s.output # "files")
  THEN NoKey
  ELSE <<s.source, s.shape, s.size, count_bucket(s.patterns), count_bucket(s.paths),
         s.output, s.matcher, s.case, s.layout, count_bucket(s.filters)>>

(***************************************************************************)
(* A movable flag and what stands after it exchange their places: the      *)
(* states differ between the two, then go on alike to the end.             *)
(***************************************************************************)
LEMMA KeyIgnoresPlace ==
  ASSUME NEW a \in Seq(Tokens), NEW i \in 1..(Len(a) - 1),
         ~KeyRead(a)[i - 1].ended, KeyRead(a)[i - 1].awaits = "none",
         a[i] \in MovableFlags, a[i + 1] \in MovableFlags \/ a[i + 1].flag = "none"
  PROVE  rg_workload_key(a) = rg_workload_key([a EXCEPT ![i] = a[i + 1], ![i + 1] = a[i]])
<1> DEFINE N == Len(a)
           b == [a EXCEPT ![i] = a[i + 1], ![i + 1] = a[i]]
           A == KeyRead(a)
           B == KeyRead(b)
<1>1. /\ N \in Nat /\ i \in 1..N /\ i + 1 \in 1..N /\ i - 1 \in 0..N /\ (i + 1) - 1 = i /\ i \in 0..N /\ i + 1 \in 0..N
      /\ \A n \in 1..N : a[n] \in Tokens /\ n \in 0..N /\ n - 1 \in 0..N
  OBVIOUS
<1>2. b \in Seq(Tokens) /\ Len(b) = N
  BY <1>1
<1>3. /\ b[i] = a[i + 1] /\ b[i + 1] = a[i]
      /\ \A n \in 1..N : n # i /\ n # i + 1 => b[n] = a[n]
  BY <1>1
<1> HIDE DEF b
<1>4. /\ A[0] = KeyStart
      /\ \A n \in 1..N : A[n] = KeyStep(A[n - 1], a[n])
      /\ \A n \in 0..N : A[n] \in KeyStates
  BY KeyReadIs
<1>5. /\ B[0] = KeyStart
      /\ \A n \in 1..N : B[n] = KeyStep(B[n - 1], b[n])
      /\ \A n \in 0..N : B[n] \in KeyStates
  BY <1>2, KeyReadIs
<1> HIDE DEF N, A, B
<1>6. A[i - 1] = B[i - 1]
  <2> DEFINE T == {n \in 0..(i - 1) : A[n] = B[n]}
  <2>1. 0 \in T
    BY <1>1, <1>4, <1>5
  <2>2. ASSUME NEW n \in 1..(i - 1), n - 1 \in T PROVE n \in T
    <3>1. n \in 1..N /\ n \in 0..(i - 1) /\ n # i /\ n # i + 1
      BY <1>1
    <3>2. A[n - 1] = B[n - 1]
      BY <2>2
    <3>3. A[n] = B[n]
      BY <1>3, <1>4, <1>5, <3>1, <3>2
    <3> QED
      BY <3>1, <3>3
  <2>3. i - 1 \in Nat
    BY <1>1
  <2> HIDE DEF T
  <2>4. 0..(i - 1) \subseteq T
    BY <2>1, <2>2, <2>3, UpTo
  <2>5. i - 1 \in 0..(i - 1)
    BY <2>3
  <2> QED
    BY <2>4, <2>5 DEF T
<1>7. Ready(A[i - 1])
  BY <1>1, <1>4 DEF Ready, A
<1>8. /\ A[i + 1] = KeyStep(KeyStep(A[i - 1], a[i]), a[i + 1])
      /\ B[i + 1] = KeyStep(KeyStep(A[i - 1], a[i + 1]), a[i])
  BY <1>1, <1>3, <1>4, <1>5, <1>6
<1>9. Same(A[i + 1], B[i + 1])
  <2>1. CASE a[i + 1] \in MovableFlags
    BY <1>7, <1>8, <2>1, FlagsCommute
  <2>2. CASE a[i + 1].flag = "none"
    BY <1>1, <1>7, <1>8, <2>2, OperandCommutes
  <2> QED
    BY <2>1, <2>2
<1>10. Same(A[N], B[N])
  <2> DEFINE T == {n \in 0..N : n >= i + 1 => Same(A[n], B[n])}
  <2>1. 0 \in T
    BY <1>1
  <2>2. ASSUME NEW n \in 1..N, n - 1 \in T PROVE n \in T
    <3>1. CASE n <= i
      BY <1>1, <3>1
    <3>2. CASE n = i + 1
      BY <1>1, <1>9, <3>2
    <3>3. CASE n > i + 1
      <4>1. n - 1 \in 0..N /\ n - 1 >= i + 1 /\ n # i /\ n # i + 1
        BY <1>1, <3>3
      <4>2. Same(A[n - 1], B[n - 1])
        BY <2>2, <4>1
      <4>3. Same(A[n], B[n])
        BY <1>3, <1>4, <1>5, <4>1, <4>2, SameStep
      <4> QED
        BY <1>1, <4>3
    <3> QED
      BY <1>1, <3>1, <3>2, <3>3
  <2> HIDE DEF T
  <2>3. 0..N \subseteq T
    BY <1>1, <2>1, <2>2, UpTo
  <2>4. N \in 0..N /\ N >= i + 1
    BY <1>1
  <2> QED
    BY <2>3, <2>4 DEF T
<1> DEFINE x == A[N]
           y == B[N]
<1>11. x \in KeyStates /\ y \in KeyStates
  BY <1>1, <1>4, <1>5
<1>12. rg_workload_key(a) = KeyOf(x) /\ rg_workload_key(b) = KeyOf(y)
  BY <1>2 DEF rg_workload_key, KeyOf, A, B, N
<1>13. KeyOf(x) = KeyOf(y)
  <2> HIDE DEF x, y
  <2>1. CASE x.failed /\ y.failed
    BY <2>1 DEF KeyOf
  <2>2. CASE [x EXCEPT !.role = "none"] = [y EXCEPT !.role = "none"]
    <3>1. \A z \in KeyStates : KeyOf([z EXCEPT !.role = "none"]) = KeyOf(z)
      BY DEF KeyOf, KeyStates
    <3> QED
      BY <1>11, <2>2, <3>1
  <2> QED
    BY <1>10, <2>1, <2>2 DEF Same, x, y
<1> QED
  BY <1>12, <1>13 DEF b

----------------------------------------------------------------------------
(* The theorems. *)

\* The arguments are tokens, and once translated alike the given ones.
LineInv ==
  /\ tool \in DOMAIN Vocabulary
  /\ arguments \in Seq(Tokens) /\ given \in Seq(Tokens)
  /\ host \in {"none", "windows", "wsl"} /\ spent \in BOOLEAN
  /\ host # "none" => AllAlike(tool, given, arguments)

\* The user types an argument.
LEMMA Typing ==
  ASSUME LineInv, NEW t \in Tokens, Type(t)
  PROVE  /\ tool' \in DOMAIN Vocabulary
         /\ arguments' \in Seq(Tokens) /\ given' \in Seq(Tokens)
         /\ host' = "none"
BY DEF LineInv, Type

\* The command line is translated for either side.
LEMMA Translating ==
  ASSUME LineInv, NEW side \in {"windows", "wsl"}, NEW mapping, IsTranslator(mapping),
         Translate(side, mapping)
  PROVE  LineInv'
<1>1. arguments' \in Seq(Tokens) /\ AllAlike(tool, arguments, arguments')
  BY TranslatedAlike DEF LineInv, Translate
<1>2. given' = arguments /\ host' = side /\ UNCHANGED <<tool, spent>>
  BY DEF Translate
<1> QED
  BY <1>1, <1>2 DEF LineInv, AllAlike, AlikeAt

LEMMA LineStep ==
  ASSUME LineInv, [Next]_vars
  PROVE  LineInv'
<1>1. Vocabulary[tool] \subseteq Tokens /\ Rare[tool] \subseteq Tokens
  BY VocabularyAssumption DEF LineInv
<1>2. CASE TypeCommon
  BY <1>1, <1>2, Typing DEF TypeCommon, LineInv
<1>3. CASE TypeRare
  BY <1>1, <1>3, Typing DEF TypeRare, LineInv
<1>4. ASSUME NEW origin \in Origins, NEW answers \in Answers,
             translate_arguments_to_windows(origin, answers)
      PROVE  LineInv'
  BY <1>4, TranslatorsTranslate, Translating DEF translate_arguments_to_windows
<1>5. ASSUME NEW origin \in Origins, NEW answers \in Answers,
             translate_arguments_to_wsl(origin, answers)
      PROVE  LineInv'
  BY <1>5, TranslatorsTranslate, Translating DEF translate_arguments_to_wsl
<1>6. CASE UNCHANGED vars
  BY <1>6 DEF vars, LineInv, AllAlike, AlikeAt
<1> QED
  BY <1>2, <1>3, <1>4, <1>5, <1>6 DEF Next

(***************************************************************************)
(* Whatever is typed and however it is translated, the arguments are       *)
(* tokens; those handed to the provider are as many as the given ones, and *)
(* only a path differs, which keeps its prefix unless all of it is one     *)
(* (translate_arguments_with, paths.rs:64-86).                             *)
(***************************************************************************)
THEOREM LineInvariant == Spec => []LineInv
<1>1. Init => LineInv
  <2>1. <<>> \in Seq(Tokens)
    BY EmptySeq
  <2> QED
    BY <2>1 DEF Init, LineInv
<1>2. LineInv /\ [Next]_vars => LineInv'
  BY LineStep
<1> QED
  BY <1>1, <1>2, PTL DEF Spec

(***************************************************************************)
(* The provider reads a translated command line as the dispatcher read the *)
(* original, at every position and for every tool, and git finds the same  *)
(* subcommand with the same access even if it bears the name of a file, as *)
(* long as no option of git has an option for its value (paths.rs:64-86,   *)
(* command.rs:39-106, arguments.rs:263-306).                               *)
(***************************************************************************)
THEOREM ProviderReadsTheSame == Spec => []TranslationKeepsReading
<1>1. LineInv => TranslationKeepsReading
  <2> SUFFICES ASSUME LineInv, host # "none" PROVE TranslationKeepsReading
    BY DEF TranslationKeepsReading
  <2>1. given \in Seq(Tokens) /\ arguments \in Seq(Tokens) /\ AllAlike(tool, given, arguments)
    BY DEF LineInv
  <2>2. ASSUME NEW i \in DOMAIN given PROVE Semantic(arguments, i) = Semantic(given, i)
    <3>1. i \in 1..Len(given)
      BY <2>1
    <3>2. argument_contract(tool, given, i) = argument_contract(tool, arguments, i)
      BY <2>1, <3>1, ContractAlike
    <3> QED
      BY <3>2 DEF Semantic
  <2>3. tool = "git" /\ ~ValueReadsAsOption(given) => SameVerdict(classify_git(given), classify_git(arguments))
    BY <2>1, ClassifyAlike
  <2> QED
    BY <2>2, <2>3 DEF TranslationKeepsReading, SameVerdict
<1> QED
  BY <1>1, LineInvariant, PTL

(***************************************************************************)
(* On a command line of rg that both know, argument_contract and           *)
(* rg_workload_key take the same tokens for paths and for the pattern      *)
(* (arguments.rs:181-261, workload.rs:292-437).                            *)
(***************************************************************************)
THEOREM ReadersOfRgAgree == Spec => []ReadersAgree
<1>1. LineInv => ReadersAgree
  <2> SUFFICES ASSUME LineInv, tool = "rg", rg_workload_key(arguments) # NoKey,
                      ~RgRead(arguments)[Len(arguments)].closed,
                      \A i \in 1..Len(arguments) : arguments[i] \notin Disputed,
                      NEW i \in 1..Len(arguments)
               PROVE  /\ KeyRead(arguments)[i].role = "path" => RgRead(arguments)[i].semantic = "PathList"
                      /\ KeyRead(arguments)[i].role = "pattern" => RgRead(arguments)[i].semantic = "Pattern"
    BY DEF ReadersAgree
  <2>1. arguments \in Seq(Tokens)
    BY DEF LineInv
  <2>2. ~KeyRead(arguments)[Len(arguments)].failed
    BY DEF rg_workload_key
  <2>3. i \in 0..Len(arguments)
    OBVIOUS
  <2>4. Agree(RgRead(arguments)[i], KeyRead(arguments)[i])
    BY <2>1, <2>2, <2>3, ReadsAgree
  <2> QED
    BY <2>4 DEF Agree
<1> QED
  BY <1>1, LineInvariant, PTL

(***************************************************************************)
(* A flag without a value, unless it is one that lists files, may exchange *)
(* its place with the flag or operand after it: the samples of the search  *)
(* are kept under one key (workload.rs:100-107 and 401-437).               *)
(***************************************************************************)
THEOREM OneKeyForOneSearch == Spec => []KeyIgnoresFlagPlace
<1>1. LineInv => KeyIgnoresFlagPlace
  <2> SUFFICES ASSUME LineInv, tool = "rg", NEW i \in 1..(Len(arguments) - 1),
                      ~KeyRead(arguments)[i - 1].ended, KeyRead(arguments)[i - 1].awaits = "none",
                      arguments[i] \in MovableFlags,
                      arguments[i + 1] \in MovableFlags \/ arguments[i + 1].flag = "none"
               PROVE  rg_workload_key(arguments) = rg_workload_key(Swapped(i))
    BY Zenon DEF KeyIgnoresFlagPlace, MovableFlags
  <2>1. arguments \in Seq(Tokens)
    BY DEF LineInv
  <2> QED
    BY <2>1, KeyIgnoresPlace DEF Swapped
<1> QED
  BY <1>1, LineInvariant, PTL
=============================================================================
