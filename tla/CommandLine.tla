---------------------------- MODULE CommandLine ----------------------------
(***************************************************************************)
(* A command line grows token by token and is then handed to a provider on *)
(* Windows or in WSL.  Three readers look at it, each with its own tables: *)
(* argument_contract decides what is translated, rg_workload_key under     *)
(* which key a run is measured, classify of src/command.rs what a git      *)
(* command may do.                                                         *)
(***************************************************************************)
EXTENDS RgWorkload, FiniteSets

CONSTANTS
    Vocabulary,     \* tool -> the tokens it can be given
    Rare,           \* tool -> those of which a command line has at most one
    MaxLength,      \* bound of the model: arguments after the program
    Answers         \* sets of values that wslpath may resolve

\* A flag, a value or both, never neither.
Tokens ==
    {t \in [flag : STRING \cup {"none"}, value : Values \cup {"none"}] :
        t.flag \in {"none", "@"} => t.value # "none"}

ASSUME VocabularyAssumption ==
    /\ DOMAIN Rare = DOMAIN Vocabulary
    /\ \A t \in DOMAIN Vocabulary : Vocabulary[t] \cup Rare[t] \subseteq Tokens
ASSUME LengthAssumption == MaxLength \in Nat

VARIABLES
    tool,       \* the program
    arguments,  \* its arguments
    host,       \* the side it was translated for, or "none"
    given,      \* history: the arguments before they were translated
    spent       \* the one rare token is used

vars == <<tool, arguments, host, given, spent>>

----------------------------------------------------------------------------
(* classify of command.rs *)

GitReadOnly == {"status"}       \* raw_read_only_subcommands of the manifest, of the Values
GitMutating == {"commit"}       \* raw_mutation_subcommands

is_global_option_with_separate_value == {"-C", "-c", "--git-dir", "--work-tree", "--namespace"}
is_git_directory_option == {"-C", "--git-dir", "--work-tree"}
attached_git_directory == {"--git-dir=", "--work-tree=", "-C"}
is_known_global_flag ==
    {"--paginate", "-p", "--no-pager", "-P", "--bare", "--no-replace-objects",
     "--literal-pathspecs", "--glob-pathspecs", "--noglob-pathspecs", "--icase-pathspecs",
     "--no-optional-locks", "--no-lazy-fetch"}
is_attached_global_value == {"--namespace=", "--super-prefix=", "--config-env=", "-c"}

GitStart == [awaits |-> "none", wsl |-> FALSE, found |-> FALSE, access |-> "Unknown", subcommand |-> 0]

Access(t) ==
    CASE t.flag = "none" /\ t.value \in GitReadOnly -> "ReadOnly"
      [] t.flag = "none" /\ t.value \in GitMutating -> "Mutating"
      [] OTHER -> "Unknown"

GitStep(s, at) ==
    LET t == at.token IN
    CASE s.found -> s
      [] ~s.found /\ s.awaits # "none" ->
           [s EXCEPT !.awaits = "none",
                     !.wsl = @ \/ (s.awaits \in is_git_directory_option /\ t.flag = "none" /\ t.value \in LinuxPaths)]
      [] ~s.found /\ s.awaits = "none" /\ Alone(t) /\ t.flag \in is_global_option_with_separate_value ->
           [s EXCEPT !.awaits = t.flag]
      [] ~s.found /\ s.awaits = "none" /\ ~Alone(t) /\ t.flag \in attached_git_directory ->
           [s EXCEPT !.wsl = @ \/ t.value \in LinuxPaths]
      [] ~s.found /\ s.awaits = "none"
         /\ t.flag \in (IF Alone(t) THEN is_known_global_flag ELSE is_attached_global_value) -> s
      [] ~s.found /\ s.awaits = "none" /\ ~IsOption(t) ->
           [s EXCEPT !.found = TRUE, !.access = Access(t), !.subcommand = at.index]
      [] OTHER -> [s EXCEPT !.found = TRUE]

GitRead(list) ==
    LET read[n \in 0..Len(list)] ==
            IF n = 0 THEN GitStart ELSE After(GitStep, read[n - 1], [token |-> list[n], index |-> n])
    IN read

classify_git(list) ==
    IF Len(list) = 1 /\ list[1] \in {Flag(f) : f \in {"--version", "-v", "--help", "-h"}}
    THEN [GitStart EXCEPT !.found = TRUE, !.access = "ReadOnly"]
    ELSE GitRead(list)[Len(list)]

----------------------------------------------------------------------------

Origins == {"windows", "same", "other"}

Init ==
    /\ tool \in DOMAIN Vocabulary
    /\ arguments = <<>> /\ given = <<>>
    /\ host = "none"
    /\ spent = FALSE

\* The user types one more argument.
Type(t) ==
    /\ host = "none"
    /\ Len(arguments) < MaxLength
    /\ arguments' = Append(arguments, t)
    /\ UNCHANGED <<tool, host, given>>

TypeCommon == (\E t \in Vocabulary[tool] : Type(t)) /\ UNCHANGED spent
TypeRare == ~spent /\ spent' = TRUE /\ \E t \in Rare[tool] : Type(t)

\* The plan for a provider is made: side names its host.
Translate(side, mapping) ==
    /\ host = "none" /\ arguments # <<>>
    /\ host' = side
    /\ given' = arguments
    /\ arguments' = translate_arguments_with(tool, arguments, mapping)
    /\ UNCHANGED <<tool, spent>>

translate_arguments_to_windows(origin, answers) ==
    Translate("windows", [v \in Values |-> ToWindows(v, origin, answers)])

translate_arguments_to_wsl(origin, answers) ==
    Translate("wsl", [v \in Values |-> ToWsl(v, origin, answers)])

Next ==
    \/ TypeCommon
    \/ TypeRare
    \/ \E origin \in Origins, answers \in Answers :
        \/ translate_arguments_to_windows(origin, answers)
        \/ translate_arguments_to_wsl(origin, answers)

Spec == Init /\ [][Next]_vars

----------------------------------------------------------------------------
(* Properties. *)

Semantic(list, i) == argument_contract(tool, list, i).semantic

\* The value of a git option is itself an option to argument_contract (README), as in
\* git --namespace -C status: what follows is a path to one and the subcommand to the other.
ValueReadsAsOption(list) ==
    \E i \in DOMAIN list :
        /\ GitRead(list)[i - 1].awaits # "none"
        /\ Alone(list[i]) /\ list[i].flag \in separate_path_flag("git") \cup {"--"}

(***************************************************************************)
(* The provider reads every position the way the dispatcher read it, and a *)
(* git command keeps its subcommand and its access, although its name may  *)
(* be that of a file: what was decided on the original stays true of what  *)
(* is run (paths.rs:64-86).  No option may have an option for its value.   *)
(***************************************************************************)
TranslationKeepsReading ==
    host # "none" =>
        /\ \A i \in DOMAIN given : Semantic(arguments, i) = Semantic(given, i)
        /\ tool = "git" /\ ~ValueReadsAsOption(given) =>
                           LET before == classify_git(given)
                               after == classify_git(arguments)
                           IN before.access = after.access /\ before.subcommand = after.subcommand

\* Tokens on which the two readers of rg are known to differ (README).
Disputed == {Flag(f) : f \in {"--trim", "-l", "--files-with-matches", "--files-without-match"}}

(***************************************************************************)
(* The two readers of an rg command line agree on its pattern and on its   *)
(* paths whenever both know all of its options, although each has tables   *)
(* of its own (arguments.rs:181-261, workload.rs:292-437).                 *)
(***************************************************************************)
ReadersAgree ==
    LET n == Len(arguments)
        contract == RgRead(arguments)
        key == KeyRead(arguments)
    IN (tool = "rg" /\ rg_workload_key(arguments) # NoKey /\ ~contract[n].closed
        /\ \A i \in 1..n : arguments[i] \notin Disputed) =>
            \A i \in 1..n :
                /\ key[i].role = "path" => contract[i].semantic = "PathList"
                /\ key[i].role = "pattern" => contract[i].semantic = "Pattern"

Swapped(i) == [arguments EXCEPT ![i] = arguments[i + 1], ![i + 1] = arguments[i]]

\* The flags that turn the first operand into a path: before it or after it is not the same.
FilesModes == {Flag(f) : f \in {f \in known_flag : Mode(f) = <<"output", "files">>}}

(***************************************************************************)
(* A search has one key: where among the operands and flags a flag without *)
(* a value stands makes no difference, so samples of one search are not    *)
(* kept under several keys (workload.rs:100-107 and 401-437).              *)
(***************************************************************************)
KeyIgnoresFlagPlace ==
    tool = "rg" =>
        \A i \in 1..(Len(arguments) - 1) :
            LET before == KeyRead(arguments)[i - 1]
                movable == {Flag(f) : f \in known_flag} \ FilesModes
            IN (/\ ~before.ended /\ before.awaits = "none"
                /\ arguments[i] \in movable
                /\ arguments[i + 1] \in movable \/ arguments[i + 1].flag = "none") =>
                    rg_workload_key(arguments) = rg_workload_key(Swapped(i))
=============================================================================
