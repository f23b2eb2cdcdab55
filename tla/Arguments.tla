----------------------------- MODULE Arguments -----------------------------
(***************************************************************************)
(* What an argument of a command line means, and which arguments are paths *)
(* to translate for a provider on the other side: argument_contract of     *)
(* src/command/arguments.rs, the translators of src/paths.rs and           *)
(* src/providers/mapping.rs.                                               *)
(*                                                                         *)
(* A token is a flag with the value attached to it, a flag alone, or a     *)
(* value alone (flag "none").  Values are classes of strings: one spelling *)
(* tells as much as another as long as it starts the same way.             *)
(***************************************************************************)
EXTENDS Naturals, Sequences

Values == {"word", "regex", "status", "commit", "linux", "mount", "drive", "unc"}
LinuxPaths == {"linux", "mount"}    \* value.starts_with('/')

Flag(f) == [flag |-> f, value |-> "none"]
Value(v) == [flag |-> "none", value |-> v]
Attached(f, v) == [flag |-> f, value |-> v]

Alone(t) == t.value = "none"
IsOption(t) == t.flag \notin {"none", "@"}      \* starts_with('-')
Separator == Flag("--")

\* Step(s, t), with s evaluated once.
After(Step(_, _), s, t) == CHOOSE r \in {Step(x, t) : x \in {s}} : TRUE

\* An ArgumentContract: the semantic, and how much of the token is a path.
Contract(semantic, path) == [semantic |-> semantic, path |-> path]

----------------------------------------------------------------------------
(* Tables. *)

separate_path_flag(tool) ==
    CASE tool = "git" -> {"-C", "--git-dir", "--work-tree"}
      [] tool = "go" -> {"-C", "-modfile", "-overlay", "-o"}
      [] tool \in {"cargo", "rustc"} -> {"--manifest-path", "--target-dir", "--out-dir", "-o"}
      [] tool \in {"rg", "fd"} -> {"--ignore-file"}
      [] OTHER -> {}

attached_path(tool) ==
    CASE tool = "git" -> {"--git-dir=", "--work-tree="}
      [] tool = "go" -> {"-modfile=", "-overlay=", "-o="}
      [] tool \in {"cargo", "rustc"} -> {"--manifest-path=", "--target-dir=", "--out-dir="}
      [] tool \in {"rg", "fd"} -> {"--ignore-file=", "--file="}
      [] OTHER -> {}

rg_option_takes_value ==
    {"-e", "--regexp", "-f", "--file", "-g", "--glob", "--iglob", "--ignore-file",
     "-t", "--type", "-T", "--type-not", "--type-add", "--type-clear",
     "-A", "--after-context", "-B", "--before-context", "-C", "--context",
     "--context-separator", "-E", "--encoding", "-M", "--max-columns", "-m", "--max-count",
     "--max-depth", "--max-filesize", "--path-separator", "-r", "--replace",
     "--sort", "--sortr", "--threads", "--trim"}

rg_known_flag == rg_option_takes_value \cup
    {"--", "--files", "--type-list", "--json", "--count", "-c", "--count-matches",
     "--files-with-matches", "-l", "--files-without-match", "--no-filename", "-I",
     "--with-filename", "-H", "--line-number", "-n", "--no-line-number", "-N", "--column",
     "--heading", "--no-heading", "--hidden", "-.", "--no-hidden", "--no-ignore",
     "--no-ignore-vcs", "--no-ignore-parent", "--no-ignore-global", "--follow", "-L",
     "--fixed-strings", "-F", "--ignore-case", "-i", "--case-sensitive", "-s",
     "--smart-case", "-S", "--multiline", "-U", "--multiline-dotall", "--pcre2", "-P",
     "--word-regexp", "-w", "--line-regexp", "-x", "--invert-match", "-v", "--text", "-a",
     "--binary", "--null", "-0", "--null-data", "--only-matching", "-o", "--passthru",
     "--quiet", "-q", "--stats", "--one-file-system"}

----------------------------------------------------------------------------
(* rg: the arguments are read from the left up to the one asked about. *)

RgStart == [awaits |-> "none", positional |-> 0, pattern |-> FALSE, pathOnly |-> FALSE,
            ended |-> FALSE, closed |-> FALSE, semantic |-> "Opaque"]

RgOptionValue(flag) ==
    CASE flag \in {"-f", "--file", "--ignore-file"} -> "Path"
      [] flag \in {"-e", "--regexp", "-g", "--glob", "--iglob"} -> "Pattern"
      [] OTHER -> "Opaque"

RgOption(s, t) ==
    [s EXCEPT
        !.pathOnly = @ \/ (Alone(t) /\ t.flag \in {"--files", "--type-list"}),
        !.pattern = @ \/ t.flag \in (IF Alone(t) THEN {"-e", "--regexp", "-f", "--file"}
                                             ELSE {"--regexp=", "-e", "--file="}),
        !.closed = @ \/ t.flag \notin (IF Alone(t) THEN rg_known_flag
                                       ELSE {"--regexp=", "--file=", "--glob=", "--iglob="}),
        !.awaits = IF Alone(t) /\ t.flag \in rg_option_takes_value THEN t.flag ELSE "none",
        !.semantic = IF t.flag = "--file=" THEN "Path" ELSE "Opaque"]

RgPositional(s) ==
    [s EXCEPT
        !.positional = @ + 1,
        !.semantic = IF s.closed THEN "Opaque"
                     ELSE IF s.pathOnly \/ s.pattern \/ s.positional > 0 THEN "PathList"
                     ELSE "Pattern"]

RgStep(s, t) ==
    IF s.awaits # "none" THEN [s EXCEPT !.awaits = "none", !.semantic = RgOptionValue(s.awaits)]
    ELSE IF ~s.ended /\ t = Separator THEN [s EXCEPT !.ended = TRUE, !.semantic = "Opaque"]
    ELSE IF ~s.ended /\ IsOption(t) THEN RgOption(s, t)
    ELSE RgPositional(s)

RgRead(arguments) ==
    LET read[n \in 0..Len(arguments)] ==
            IF n = 0 THEN RgStart ELSE After(RgStep, read[n - 1], arguments[n])
    IN read

rg_positional_semantic(arguments, index) == RgRead(arguments)[index].semantic

----------------------------------------------------------------------------

\* A path that the spelling of its argument gives away.
Prefixed(tool, arguments, index) ==
    \/ ~Alone(arguments[index]) /\ arguments[index].flag \in attached_path(tool)
    \/ arguments[index].flag = "@" /\ tool \in {"cargo", "rustc", "go"}

\* index counts from 1: the arguments are those after the program.
argument_contract(tool, arguments, index) ==
    LET t == arguments[index]
        before == 1..(index - 1)
        separated == \E i \in before : arguments[i] = Separator
        afterFlag == /\ index > 1 /\ Alone(arguments[index - 1])
                     /\ arguments[index - 1].flag \in separate_path_flag(tool)
        ByTool ==
            CASE tool = "git" /\ separated -> Contract("PathList", "whole")
              [] tool = "git" /\ ~separated /\ before # {} -> Contract("Revision", "none")
              [] tool = "read" /\ ~IsOption(t) -> Contract("Path", "whole")
              [] tool \in {"proxy", "run"} /\ before = {} -> Contract("ExecutablePath", "whole")
              [] tool \in {"rg", "fd"} ->
                   LET semantic == rg_positional_semantic(arguments, index)
                   IN Contract(semantic, IF semantic \in {"Path", "PathList"} THEN "whole" ELSE "none")
              [] OTHER -> Contract("Opaque", "none")
    IN IF afterFlag THEN Contract("Path", "whole")
       ELSE IF Prefixed(tool, arguments, index) THEN Contract("Path", "prefixed")
       ELSE ByTool

\* The string the contract calls a path: with its "@" it is a relative name, and a whole
\* option is no path of any class (wslpath takes it for an option of its own and fails).
PathOf(t, contract) ==
    CASE contract.path = "prefixed" \/ (contract.path = "whole" /\ t.flag = "none") -> t.value
      [] contract.path = "whole" /\ t.flag = "@" -> "word"
      [] OTHER -> "none"

\* program is "/" for one given by its Linux path.
has_typed_wsl_path(program, arguments) ==
    \/ program = "/"
    \/ \E i \in 1..Len(arguments) :
            PathOf(arguments[i], argument_contract(program, arguments, i)) \in LinuxPaths

----------------------------------------------------------------------------
(* Translation.  A translator gives the class of the result, "none" when   *)
(* the argument is left alone; answers are the values wslpath resolves.    *)

wsl_path_to_windows_path(v) == IF v = "mount" THEN "drive" ELSE "none"
windows_path_to_wsl_path(v) == IF v = "drive" THEN "mount" ELSE "none"

\* wslpath -w -a in the distro of the caller.
mapped_wsl_project_path(v, answers) ==
    CASE v \notin answers -> "none"
      [] v = "linux" -> "unc"
      [] v = "mount" -> "drive"
      [] OTHER -> "none"

\* wslpath -a in the distro of the target: any name is made absolute, whatever it spells.
mapped_windows_project_path(v, answers) ==
    CASE v \notin answers \/ v \in LinuxPaths -> "none"
      [] v \in answers /\ v = "unc" -> "linux"
      [] OTHER -> "mount"

\* origin: "windows", "same" (the distro of the provider) or "other" (another distro).
ToWindows(v, origin, answers) ==
    LET mapped == mapped_wsl_project_path(v, answers)
    IN IF v \in LinuxPaths /\ origin # "windows" /\ mapped # "none"
       THEN mapped ELSE wsl_path_to_windows_path(v)

ToWsl(v, origin, answers) ==
    IF v \in LinuxPaths
    THEN IF origin = "other" /\ mapped_wsl_project_path(v, answers) = "drive"
         THEN mapped_windows_project_path("drive", answers) ELSE "none"
    ELSE LET mapped == mapped_windows_project_path(v, answers)
         IN IF mapped # "none" THEN mapped ELSE windows_path_to_wsl_path(v)

\* A path that is part of its argument is put back behind its prefix.
Rewritten(t, contract, new) ==
    IF new = "none" THEN t
    ELSE IF contract.path = "prefixed" THEN [t EXCEPT !.value = new] ELSE Value(new)

\* Mutant: the prefix is not written back.
translate_arguments_with_Bare(tool, arguments, mapping) ==
    [i \in 1..Len(arguments) |->
        LET path == PathOf(arguments[i], argument_contract(tool, arguments, i))
            new == IF path = "none" THEN "none" ELSE mapping[path]
        IN IF new = "none" THEN arguments[i] ELSE Value(new)]

\* Every argument by its contract in the original command line; mapping: Values -> a value or "none".
translate_arguments_with(tool, arguments, mapping) ==
    [i \in 1..Len(arguments) |->
        LET path == PathOf(arguments[i], argument_contract(tool, arguments, i))
            new == IF path = "none" THEN "none" ELSE mapping[path]
        IN Rewritten(arguments[i], argument_contract(tool, arguments, i), new)]
=============================================================================
