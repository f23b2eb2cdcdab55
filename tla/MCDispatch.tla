----------------------------- MODULE MCDispatch -----------------------------
(* Two distros, the configured one first, and one request of each kind the code tells apart. *)
EXTENDS Dispatch

CONSTANTS i1, ubuntu, dedicated1

MCListing == <<ubuntu, dedicated1>>
MCWslVersion == [d \in {ubuntu, dedicated1} |-> IF d = ubuntu THEN 2 ELSE 1]

Usual ==
    [tool |-> "rg", access |-> "none", typedWsl |-> FALSE, gitInWsl |-> FALSE, policyKey |-> FALSE,
     calibrationKey |-> FALSE, policyRoute |-> "none", origin |-> "windows", driveCwd |-> TRUE,
     project |-> "windows", home |-> "none", windowsPath |-> FALSE, mapped |-> TRUE,
     requested |-> "auto", environment |-> "adaptive", adapter |-> "auto", gitMode |-> "auto",
     calibration |-> TRUE, modes |-> {"run"}]
Unc == [Usual EXCEPT !.driveCwd = FALSE, !.project = "wsl", !.home = dedicated1]
Bridge == [Usual EXCEPT !.origin = "wsl", !.project = "wsl", !.home = ubuntu, !.windowsPath = TRUE]

Git(access) == [Usual EXCEPT !.tool = "git", !.access = access, !.policyKey = TRUE,
                             !.calibrationKey = access = "ReadOnly"]

MCRequests ==
    {[Git("Mutating") EXCEPT !.gitMode = "off"],
     Git("Mutating"),
     [Usual EXCEPT !.calibrationKey = TRUE, !.policyKey = TRUE],
     [Usual EXCEPT !.tool = "go"],
     [Usual EXCEPT !.tool = "go", !.modes = {"exec", "scan"}],
     [Usual EXCEPT !.requested = "wsl2"],
     [Unc EXCEPT !.tool = "jq"],
     [Bridge EXCEPT !.requested = "native-rtk"],
     [Bridge EXCEPT !.requested = "raw", !.windowsPath = FALSE]}

Has(tool, rtk) == [tool |-> tool, rtk |-> rtk]
Host(w, u, d) ==
    [where \in {"windows", ubuntu, dedicated1} |->
       CASE where = "windows" -> w [] where = ubuntu -> u [] OTHER -> d]
MCInstallations ==
    {Host(w, u, d) : w \in {Has(0, 1), Has(1, 0)}, u \in {Has(1, 0)}, d \in {Has(1, 1)}}

\* A tool that only a distro has, beside an RTK on Windows
MCAbsentRequests == {[Usual EXCEPT !.tool = "jq"]}
MCAbsentInstallations == {Host(Has(0, 1), Has(1, 0), Has(0, 0))}
=============================================================================
