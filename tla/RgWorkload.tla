---------------------------- MODULE RgWorkload ----------------------------
(***************************************************************************)
(* rg_workload_key of src/command/workload.rs: the second reader of an rg  *)
(* command line.  It gives the shape of the search, under which samples of *)
(* runs are kept, or nothing for a command line it does not know.          *)
(***************************************************************************)
EXTENDS Arguments

separate_value_option ==
    {"-A", "-B", "-C", "-E", "-M", "-e", "-f", "-g", "-j", "-m", "-r", "-t", "-T",
     "--after-context", "--before-context", "--color", "--colors", "--context",
     "--context-separator", "--dfa-size-limit", "--encoding", "--engine",
     "--field-context-separator", "--field-match-separator", "--file", "--glob",
     "--hostname-bin", "--hyperlink-format", "--iglob", "--ignore-file", "--max-columns",
     "--max-count", "--max-depth", "--max-filesize", "--path-separator", "--pre",
     "--pre-glob", "--regex-size-limit", "--regexp", "--replace", "--sort", "--sortr",
     "--threads", "--type", "--type-add", "--type-clear", "--type-not"}

known_flag ==
    {"-0", "-F", "-H", "-I", "-L", "-N", "-P", "-S", "-U", "-V", "-a", "-b", "-c", "-h",
     "-i", "-l", "-n", "-o", "-p", "-q", "-s", "-u", "-v", "-w", "-x", "--binary",
     "--block-buffered", "--byte-offset", "--case-sensitive", "--column", "--count",
     "--count-matches", "--crlf", "--debug", "--files", "--files-with-matches",
     "--files-without-match", "--fixed-strings", "--follow", "--heading", "--hidden",
     "--ignore-case", "--include-zero", "--invert-match", "--json", "--line-buffered",
     "--line-number", "--mmap", "--multiline", "--multiline-dotall", "--no-config",
     "--no-filename", "--no-heading", "--no-ignore", "--no-ignore-dot",
     "--no-ignore-exclude", "--no-ignore-files", "--no-ignore-global",
     "--no-ignore-messages", "--no-ignore-parent", "--no-ignore-vcs", "--no-line-number",
     "--no-mmap", "--no-messages", "--no-pcre2-unicode", "--no-require-git",
     "--no-unicode", "--null", "--null-data", "--one-file-system", "--only-matching",
     "--passthru", "--pcre2", "--pcre2-unicode", "--pretty", "--quiet", "--smart-case",
     "--stats", "--stop-on-nonmatch", "--text", "--trim", "--type-list",
     "--unrestricted", "--version", "--vimgrep", "--with-filename", "--word-regexp",
     "--line-regexp"}

attached_value ==
    {"--after-context=", "--before-context=", "--color=", "--colors=", "--context=",
     "--dfa-size-limit=", "--encoding=", "--engine=", "--file=", "--glob=",
     "--hostname-bin=", "--hyperlink-format=", "--iglob=", "--ignore-file=",
     "--max-columns=", "--max-count=", "--max-depth=", "--max-filesize=", "--pre=",
     "--pre-glob=", "--regex-size-limit=", "--regexp=", "--replace=", "--sort=",
     "--sortr=", "--threads=", "--type=", "--type-add=", "--type-clear=", "--type-not="}

\* The two-letter options whose value may follow without a space.
ShortAttached == {"-e", "-f", "-g", "-t", "-T"}

PatternFlags == {"-e", "--regexp", "--regexp="}
PatternFileFlags == {"-f", "--file", "--file="}
FilterFlags ==
    {"-g", "-t", "-T", "--glob", "--iglob", "--ignore-file", "--type", "--type-add",
     "--type-clear", "--type-not", "--glob=", "--iglob=", "--ignore-file=", "--type=",
     "--type-add=", "--type-clear=", "--type-not="}
ContextFlags ==
    {"-A", "-B", "-C", "--after-context", "--before-context", "--context",
     "--after-context=", "--before-context=", "--context="}

\* Which mode a flag sets, and to what.
Mode(flag) ==
    CASE flag \in {"-c", "--count", "--count-matches"} -> <<"output", "count">>
      [] flag \in {"-l", "--files-with-matches", "--files-without-match", "--files", "--type-list"}
           -> <<"output", "files">>
      [] flag = "--json" -> <<"output", "json">>
      [] flag \in {"-q", "--quiet"} -> <<"output", "quiet">>
      [] flag = "--stats" -> <<"output", "stats">>
      [] flag \in {"-F", "--fixed-strings"} -> <<"matcher", "fixed">>
      [] flag \in {"-P", "--pcre2"} -> <<"matcher", "pcre2">>
      [] flag \in {"-i", "--ignore-case"} -> <<"case", "insensitive">>
      [] flag \in {"-s", "--case-sensitive"} -> <<"case", "sensitive">>
      [] flag \in {"-S", "--smart-case"} -> <<"case", "smart">>
      [] flag \in {"-o", "--only-matching"} -> <<"layout", "only">>
      [] flag \in {"-v", "--invert-match"} -> <<"layout", "invert">>
      [] OTHER -> <<"none", "none">>

----------------------------------------------------------------------------
(* The state of the reader; role is what it took the last token for. *)

KeyStart ==
    [source |-> "pos", shape |-> "none", size |-> "none", patterns |-> 0, paths |-> 0,
     filters |-> 0, output |-> "default", matcher |-> "default", case |-> "default",
     layout |-> "default", ended |-> FALSE, awaits |-> "none", failed |-> FALSE,
     role |-> "none"]

merge(current, next, mixed) ==
    IF current \in {"none", next} THEN next ELSE mixed

\* Patterns of a class of values: those with a backslash or a metacharacter are complex.
PatternShape(v) == IF v \in {"regex", "drive", "unc"} THEN "complex" ELSE "lit"
PatternSize(v) == IF v = "regex" THEN "m" ELSE "s"

observe_pattern(s, v) ==
    [s EXCEPT !.shape = merge(@, PatternShape(v), "mix"),
              !.size = merge(@, PatternSize(v), "mix"),
              !.patterns = @ + 1]

\* Mutant: the last flag wins instead of giving the command line up.
set_mode_Last(s, mode, next) == [s EXCEPT ![mode] = next]

set_mode(s, mode, next) ==
    IF s[mode] \in {"default", next} THEN [s EXCEPT ![mode] = next]
    ELSE [s EXCEPT !.failed = TRUE]

count_bucket(n) == CASE n = 0 -> "none" [] n = 1 -> "one" [] OTHER -> "many"

Source(s, kind) == [s EXCEPT !.source = IF s.patterns = 0 THEN kind ELSE "mix"]

\* An option that has its value v, attached or separate.
OptionWithValue(s, flag, v) ==
    CASE flag \in PatternFlags -> observe_pattern(Source(s, "re"), v)
      [] flag \in PatternFileFlags -> [Source(s, "file") EXCEPT !.patterns = @ + 1]
      [] flag \in FilterFlags -> [s EXCEPT !.filters = @ + 1]
      [] flag \in ContextFlags -> set_mode(s, "layout", "context")
      [] flag = "--engine" -> [s EXCEPT !.matcher = "engine"]
      [] OTHER -> s

KeyOption(s, t) ==
    CASE ~Alone(t) /\ t.flag \in attached_value \cup ShortAttached
           -> OptionWithValue(s, t.flag, t.value)
      [] Alone(t) /\ t.flag \in separate_value_option -> [s EXCEPT !.awaits = t.flag]
      [] Alone(t) /\ t.flag \in known_flag ->
           LET mode == Mode(t.flag)
           IN IF mode[1] = "none" THEN s ELSE set_mode(s, mode[1], mode[2])
      [] OTHER -> [s EXCEPT !.failed = TRUE]

\* Mutant: a pattern given by an option does not turn the operands into paths.
KeyPositional_NoFile(s, v) ==
    IF s.output = "files" \/ (s.patterns > 0 /\ s.source = "pos")
    THEN [s EXCEPT !.paths = @ + 1, !.role = "path"]
    ELSE [observe_pattern(s, v) EXCEPT !.role = "pattern"]

KeyPositional(s, v) ==
    IF s.output = "files" \/ s.patterns > 0
    THEN [s EXCEPT !.paths = @ + 1, !.role = "path"]
    ELSE [observe_pattern(s, v) EXCEPT !.role = "pattern"]

KeyStep(s, t) ==
    LET r == [s EXCEPT !.role = "none"]
    IN IF r.awaits # "none"
       THEN OptionWithValue([r EXCEPT !.awaits = "none"], r.awaits, t.value)
       ELSE IF ~r.ended /\ t = Separator THEN [r EXCEPT !.ended = TRUE]
       ELSE IF ~r.ended /\ IsOption(t) THEN KeyOption(r, t)
       ELSE KeyPositional(r, t.value)

KeyRead(arguments) ==
    LET read[n \in 0..Len(arguments)] ==
            IF n = 0 THEN KeyStart ELSE After(KeyStep, read[n - 1], arguments[n])
    IN read

NoKey == "none"

\* An option at the end whose value is missing gives no key.
rg_workload_key(arguments) ==
    LET s == KeyRead(arguments)[Len(arguments)]
    IN IF s.failed \/ s.awaits # "none" \/ (s.patterns = 0 /\ s.output # "files")
       THEN NoKey
       ELSE <<s.source, s.shape, s.size, count_bucket(s.patterns), count_bucket(s.paths),
              s.output, s.matcher, s.case, s.layout, count_bucket(s.filters)>>
=============================================================================
