----------------------------- MODULE Providers -----------------------------
(***************************************************************************)
(* From what discovery found to the plans that may run: the candidates of  *)
(* resolution.rs, the execution plan of planner.rs for one candidate, and  *)
(* the decision of dispatch.rs over all of them.                           *)
(*                                                                         *)
(* A binary is its identity, a positive number, and Absent if there is     *)
(* none that can be used; an adapter of a version that the contract does   *)
(* not list is Absent.  What discovery found is a record                   *)
(*   windows   [tool, rtk]                                                 *)
(*   wsl       a sequence of [distro, dedicated, tool, rtk], in the order  *)
(*             of the probes                                               *)
(*   complete  every distro was asked                                      *)
(***************************************************************************)
EXTENDS Routing, Naturals, Sequences, FiniteSets

CONSTANT WslVersion     \* distro -> 1 or 2

Absent == 0

WindowsRaw(tool, windows) == windows.tool # Absent /\ tool \notin WindowsRawIncompatible
WindowsRtk(windows) == windows.rtk # Absent

\* windows_probe_has_compatible_provider
WindowsCompatible(tool, windows) == WindowsRaw(tool, windows) \/ WindowsRtk(windows)

RtkStandsIn(tool) == command_surface(tool) = "NativeStructured"

----------------------------------------------------------------------------
(* Candidates *)

WindowsProject(r) ==
    \/ r.project = "windows"
    \/ r.project = "wsl" /\ (r.windowsPath \/ r.mapped)

WslProject(r, distro) ==
    CASE r.project = "windows" -> r.mapped
      [] r.project = "wsl" -> distro = r.home \/ (r.windowsPath /\ r.mapped)
      [] OTHER -> FALSE

WindowsListed(r, windows) ==
    windows.tool # Absent \/ (RtkStandsIn(r.tool) /\ r.tool # "git" /\ windows.rtk # Absent)
WslListed(r, probe) == probe.tool # Absent \/ (RtkStandsIn(r.tool) /\ probe.rtk # Absent)

\* What the code does not list at all is a candidate that is not usable
WindowsCandidate(r, windows) ==
    [place |-> 0, host |-> "windows", distro |-> "none", tool |-> windows.tool, rtk |-> windows.rtk,
     raw |-> WindowsRaw(r.tool, windows), adapted |-> WindowsRtk(windows),
     usable |-> /\ WindowsListed(r, windows) /\ WindowsProject(r)
                /\ WindowsCompatible(r.tool, windows)]

WslCandidate(r, place, probe) ==
    [place |-> place, host |-> IF WslVersion[probe.distro] = 1 THEN "wsl1" ELSE "wsl2",
     distro |-> probe.distro, tool |-> probe.tool, rtk |-> probe.rtk,
     raw |-> probe.tool # Absent, adapted |-> probe.rtk # Absent,
     usable |-> /\ WslListed(r, probe) /\ WslProject(r, probe.distro)
                /\ WslVersion[probe.distro] = 1 => probe.dedicated]

\* resolve_tool_provider_from_discovery_with_user: a candidate and its place in the list, which has
\* Windows first and then the order of the probes
Candidates(r, found) ==
    {WindowsCandidate(r, found.windows)}
    \cup {WslCandidate(r, n, found.wsl[n]) : n \in DOMAIN found.wsl}

----------------------------------------------------------------------------
(* Plans *)

\* Git on Windows, the POSIX tools, and without a preference what has no adapter contract
RawRequired(r, candidate, preference) ==
    \/ r.tool = "git" /\ candidate.host = "windows"
    \/ r.tool \in RawPosix
    \/ preference = "auto" /\ command_surface(r.tool) \in {"RawNative", "Unknown"}

\* provider_adapter, with the raw requirement before it
Adapter(r, candidate, preference) ==
    CASE RawRequired(r, candidate, preference) \/ preference = "raw" ->
           IF candidate.raw THEN "raw" ELSE "none"
      [] ~RawRequired(r, candidate, preference) /\ preference = "rtk" ->
           IF candidate.adapted THEN "rtk" ELSE "none"
      [] OTHER -> IF candidate.adapted THEN "rtk" ELSE IF candidate.raw THEN "raw" ELSE "none"

\* execution_plan_for_provider_candidate; a plan of adapter "none" is an error
PlanFor(r, candidate, preference) ==
    LET adapter == Adapter(r, candidate, preference) IN
    [host |-> candidate.host, distro |-> candidate.distro, adapter |-> adapter,
     identity |-> IF adapter = "rtk" THEN candidate.rtk ELSE candidate.tool]

----------------------------------------------------------------------------
(* Decisions *)

\* Mutant: Git is dispatched like any other tool
PinsWindowsGit_Never(r) == FALSE

PinsWindowsGit(r) == r.project = "windows" /\ r.tool = "git" /\ ~VerifiedReadOnlyGit(r)

Eligible(r, candidate) ==
    /\ candidate.usable
    /\ PinsWindowsGit(r) => candidate.host = "windows"
    /\ r.adapter = "rtk" => candidate.adapted

\* partial_inventory_has_usable_candidate: whether the remaining distros need not be asked
PartialSuffices(r, found) ==
    \E candidate \in Candidates(r, found) :
        Eligible(r, candidate) /\ (r.project = "wsl" => candidate.host # "windows")

\* Mutant: a WSL project takes the candidates as they were found
Distance_Same(r, candidate) == 0

\* A WSL project prefers its own distro, then the other ones, and Windows last
Distance(r, candidate) ==
    CASE r.project # "wsl" \/ candidate.distro = r.home -> 0
      [] r.project = "wsl" /\ candidate.distro # r.home /\ candidate.host # "windows" -> 1
      [] OTHER -> 2

\* What can be planned
Offers(r, found) ==
    {[plan |-> PlanFor(r, candidate, r.adapter), distance |-> Distance(r, candidate),
      place |-> candidate.place] :
        candidate \in {c \in Candidates(r, found) : Eligible(r, c) /\ Adapter(r, c, r.adapter) # "none"}}

Before(o, q) == o.distance < q.distance \/ (o.distance = q.distance /\ o.place < q.place)
Ordered(offers) ==
    CHOOSE s \in [1..Cardinality(offers) -> offers] :
        \A p, q \in 1..Cardinality(offers) : p < q => Before(s[p], s[q])

\* windows_tool_is_usable: the static route stands
KeepsStatic(r, route, windows) ==
    /\ r.project # "wsl"
    /\ \/ route = "raw" /\ windows.tool # Absent /\ r.tool \notin WindowsRawIncompatible
       \/ route = "native-rtk" /\ windows.rtk # Absent

\* provider_dispatch_decision_from_resolution: the first plan and its fallbacks
DecidedPlans(r, found) ==
    LET ordered == Ordered(Offers(r, found)) IN [p \in DOMAIN ordered |-> ordered[p].plan]

\* first_compatible_provider_plan of `provider exec`: one plan, and no fallback
ExecPreference(r, candidate) ==
    IF r.adapter = "auto" /\ candidate.rtk # Absent THEN "rtk" ELSE r.adapter
ExecPlans(r, found) ==
    LET possible == {c \in Candidates(r, found) :
                       c.usable /\ Adapter(r, c, ExecPreference(r, c)) # "none"}
        first == CHOOSE c \in possible : \A other \in possible : c.place <= other.place
    IN  IF possible = {} THEN <<>> ELSE <<PlanFor(r, first, ExecPreference(r, first))>>
=============================================================================
