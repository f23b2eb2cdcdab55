--------------------------- MODULE MCCommandLine ---------------------------
(***************************************************************************)
(* Every option of every table stands once in some command line, among a   *)
(* few tokens that combine freely.                                         *)
(***************************************************************************)
EXTENDS CommandLine

Flags(set) == {Flag(f) : f \in set}
Operands == {Value(v) : v \in {"word", "mount", "drive"}}

MCRare ==
    [rg |-> Flags(rg_known_flag \cup separate_value_option \cup known_flag
                  \cup {"--future-option"})
            \cup {Attached(f, "word") : f \in attached_value \cup ShortAttached}
            \cup {Value("regex"), Value("linux")},
     git |-> Flags({"--paginate", "--version", "--git-dir", "--namespace", "--hard"})
             \cup {Attached("-C", "linux"), Attached("-c", "word"), Attached("--git-dir=", "drive")},
     cargo |-> Flags({"--target-dir"}) \cup {Attached("@", "drive"), Value("linux")},
     go |-> {Attached("-modfile=", "drive"), Attached("@", "mount")},
     read |-> {Value("unc")},
     run |-> {Value("unc")}]

MCVocabulary ==
    [rg |-> Operands \cup {Separator, Flag("-e"), Flag("-F"), Flag("--json"), Attached("--file=", "mount")},
     git |-> {Value("status"), Value("commit"), Value("mount"), Value("drive"), Separator, Flag("-C"),
              Attached("--work-tree=", "mount")},
     cargo |-> {Value("word"), Value("drive"), Value("mount"), Separator, Flag("--manifest-path"),
                Attached("--out-dir=", "mount")},
     go |-> Operands \cup {Flag("-C"), Flag("-o")},
     read |-> Operands \cup {Flag("-n")},
     run |-> Operands \cup {Flag("-c")}]

\* Nothing, the paths, or every name there is, among them one of a subcommand.
MCAnswers == {{}, {"linux", "mount", "drive", "unc"}, Values}
=============================================================================
