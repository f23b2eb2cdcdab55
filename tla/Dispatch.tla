------------------------------ MODULE Dispatch ------------------------------
(***************************************************************************)
(* Invocations of one command share the provider cache while binaries come *)
(* and go.  An invocation resolves a static route, may try Windows at      *)
(* once, looks discovery up or probes the hosts one after the other, and   *)
(* runs the plans of the decision until one does not end in NotFound.      *)
(*                                                                         *)
(* What is installed is read by a probe at one moment and used at a later  *)
(* one; only the start of a Windows plan compares the binary again, and    *)
(* does so in one step with the start.                                     *)
(***************************************************************************)
EXTENDS Providers, Integers

CONSTANTS
    Invocations,
    Requests,       \* what the command line and the configuration amount to
    Installations,  \* what may be installed at first
    Listing,        \* the distros, in the order in which discovery asks them
    Dedicated,      \* the WSL1 distros whose marker names this installation
    TTL,            \* PROVIDER_CACHE_TTL_SECONDS
    Slow,           \* the longest an invocation takes from its lookup to its decision
    Versions,       \* bound of the model: identities of a binary
    MaxChanges,     \* bound of the model: binaries installed, replaced or removed
    MaxFaults,      \* bound of the model: failing probes, writes and starts, and `back`
    MaxBack         \* bound of the model: how far the clock is set back, all together

Distros == {Listing[n] : n \in DOMAIN Listing}
Contexts == {"windows", "wsl"}
Binary == Absent..Versions
Oldest == 2 * TTL + 3 * Slow    \* as far as the clock goes forward

ASSUME TimeAssumption == TTL \in Nat \ {0} /\ Slow \in Nat \ {0}
ASSUME ListingAssumption == Listing \in Seq(Distros)
ASSUME RequestAssumption ==
    \A r \in Requests :
       /\ r.tool = "git" /\ r.calibrationKey => r.access = "ReadOnly"
       \* Only a bridge call knows the Windows path of its project, in the configured distro
       /\ r.project = "wsl" /\ r.windowsPath /\ r.home \in Distros => r.home = Listing[1]
ASSUME BoundAssumption == Versions \in Nat \ {0} /\ MaxChanges \in Nat /\ MaxFaults \in Nat /\ MaxBack \in Nat

VARIABLES
    request,    \* the command of this behaviour, a member of Requests
    installed,  \* the binaries of Windows and of every distro
    cache,      \* the entries of the tool in provider-cache-v6.json, by context
    inv,        \* the state of every invocation
    changes,    \* bound: changes of `installed` so far
    faults,     \* bound: failures so far
    back        \* how far the clock was set back so far

vars == <<request, installed, cache, inv, changes, faults, back>>

----------------------------------------------------------------------------
(* State *)

Nothing == [tool |-> Absent, rtk |-> Absent]

\* age: what the clock says since observed_unix_seconds, less than 0 for a stamp in the future;
\* seen: history: the time since the oldest observation in it, whatever the clock says
NoDiscovery == [present |-> FALSE, windows |-> Nothing, wsl |-> <<>>, complete |-> FALSE,
                age |-> 0, seen |-> 0]

Idle == [pc |-> "idle", mode |-> "run", route |-> "none", want |-> "none",
         found |-> NoDiscovery, todo |-> {}, plans |-> <<>>, starts |-> <<>>,
         elapsed |-> 0, outcome |-> "none"]

Looking == {"lookup", "windows", "list", "distro", "save", "decide"}

Init ==
    /\ request \in Requests
    /\ installed \in Installations
    /\ cache = [c \in Contexts |-> NoDiscovery]
    /\ inv = [i \in Invocations |-> Idle]
    /\ changes = 0 /\ faults = 0 /\ back = 0

Set(i, r) == inv' = [inv EXCEPT ![i] = r]
Fault == faults + back < MaxFaults /\ faults' = faults + 1
SameWorld == UNCHANGED <<request, installed, changes, back>>

----------------------------------------------------------------------------
(* The world *)

Changed(at, v) == changes' = changes + 1 /\ installed' = [installed EXCEPT ![at[1]][at[2]] = v]

\* A binary is installed, replaced by another version or removed
Change ==
    /\ changes < MaxChanges
    /\ \E where \in DOMAIN installed, what \in {"tool", "rtk"}, v \in Binary :
          v # installed[where][what] /\ Changed(<<where, what>>, v)
    /\ UNCHANGED <<request, cache, inv, faults, back>>

Older(d) == IF d.present THEN [d EXCEPT !.age = @ + 1, !.seen = @ + 1] ELSE d

\* Bound: an entry past the age from which the clock may still make it fresh grows no older
Outdated(d, latest) == [d EXCEPT !.age = latest + 1, !.seen = Oldest + MaxBack + 1]

\* Every probe is bounded by a timeout, so a discovery takes at most Slow
Tick ==
    /\ \A i \in Invocations : inv[i].pc \in Looking => inv[i].elapsed < Slow
    /\ LET latest == TTL + MaxBack - back IN
       cache' = [c \in Contexts |->
                   IF cache[c].age >= latest THEN Outdated(cache[c], latest) ELSE Older(cache[c])]
    /\ inv' = [i \in Invocations |->
                 IF inv[i].pc \in Looking
                 THEN [inv[i] EXCEPT !.elapsed = @ + 1, !.found = Older(@)]
                 ELSE inv[i]]
    /\ UNCHANGED <<request, installed, changes, faults, back>>

Newer(d, by) == IF d.present THEN [d EXCEPT !.age = @ - by] ELSE d

\* The clock of the machine is set back: every stamp is nearer, or in the future.  One that
\* is set forward only makes entries expire, as LoseCache does.
SetBack(by) ==
    /\ faults + back + by <= MaxFaults
    /\ back' = back + by
    /\ cache' = [c \in Contexts |-> Newer(cache[c], by)]
    /\ inv' = [i \in Invocations |->
                 IF inv[i].pc \in Looking THEN [inv[i] EXCEPT !.found = Newer(@, by)] ELSE inv[i]]
    /\ UNCHANGED <<request, installed, changes, faults>>

\* The entry is one of those the cap of 128 drops, or the file was unreadable at an update
LoseCache ==
    /\ Fault
    /\ \E c \in Contexts : cache[c].present /\ cache' = [cache EXCEPT ![c] = NoDiscovery]
    /\ UNCHANGED <<inv>> /\ SameWorld

----------------------------------------------------------------------------
(* Planning *)

Begin(i) ==
    /\ inv[i].pc = "idle"
    /\ \/ "run" \in request.modes
          /\ Set(i, [Idle EXCEPT !.route = IF FastPath(request) THEN "raw" ELSE ResolvedRoute(request),
                              !.pc = CASE FastPath(request) -> "fast"
                                       [] ~FastPath(request) /\ OptimisticRaw(request) -> "optimistic"
                                       [] OTHER -> "plan"])
       \/ \E mode \in request.modes \ {"run"} :
             Set(i, [Idle EXCEPT !.mode = mode, !.pc = "windows", !.want = "all"])
    /\ UNCHANGED <<cache, faults>> /\ SameWorld

\* complete_calibration and the first half of build_execution_plan.  What the calibration file
\* says is the business of Calibration: either route is possible here.
Plan(i) ==
    /\ inv[i].pc = "plan"
    /\ \E route \in IF Calibrates(request) THEN {"raw", "native-rtk"} ELSE {inv[i].route} :
          Set(i, [inv[i] EXCEPT !.route = route,
                                !.pc = IF Dispatchable(request) THEN "lookup" ELSE "run",
                                !.want = IF Dispatchable(request) THEN "windows" ELSE "none"])
    /\ UNCHANGED <<cache, faults>> /\ SameWorld

Context(want) == IF want = "windows" THEN "windows" ELSE "wsl"

\* Mutant: an entry of the right context is fresh for ever
Hit_Forever(want, entry) == entry.present /\ (want = "wsl" => entry.complete \/ entry.wsl # <<>>)

\* cache_entry_is_fresh, and what a lookup that needs WSL asks of an entry besides: a stamp in
\* the future is fresh (the subtraction saturates)
Hit(want, entry) ==
    /\ entry.present /\ entry.age <= TTL
    /\ want = "wsl" => entry.complete \/ entry.wsl # <<>>

\* cached_or_discovered_tool
Lookup(i) ==
    /\ inv[i].pc = "lookup"
    /\ LET entry == cache[Context(inv[i].want)] IN
       IF Hit(inv[i].want, entry)
       THEN Set(i, [inv[i] EXCEPT !.pc = "decide", !.found = entry])
       ELSE Set(i, [inv[i] EXCEPT !.pc = "windows", !.found = NoDiscovery])
    /\ UNCHANGED <<cache, faults>> /\ SameWorld

\* discover_tool: the Windows half
ProbeWindows(i) ==
    /\ inv[i].pc = "windows"
    /\ Set(i, [inv[i] EXCEPT !.found = [NoDiscovery EXCEPT !.present = TRUE,
                                                           !.windows = installed["windows"]],
                             !.pc = IF inv[i].want = "windows" THEN "save" ELSE "list"])
    /\ UNCHANGED <<cache, faults>> /\ SameWorld

\* Mutant: what was completed counts as partial again
Stamped_Partial(found, complete) == [found EXCEPT !.age = 0, !.complete = FALSE]

\* The restamp of what was found, complete or not
Stamped(found, complete) == [found EXCEPT !.age = 0, !.complete = complete]

Asked(found) == {found.wsl[n].distro : n \in DOMAIN found.wsl}

\* installed_wsl_distributions: a listing that fails is an empty list
List(i) ==
    /\ inv[i].pc = "list"
    /\ \E listed \in {Listing, <<>>} :
          LET asked == IF inv[i].want = "rest" THEN Asked(inv[i].found) ELSE {}
              todo == {n \in DOMAIN listed : listed[n] \notin asked}
          IN  /\ IF listed = Listing THEN UNCHANGED faults ELSE Fault
              /\ Set(i, IF todo = {}
                        THEN [inv[i] EXCEPT !.pc = "save", !.found = Stamped(@, TRUE)]
                        ELSE [inv[i] EXCEPT !.pc = "distro", !.todo = todo])
    /\ UNCHANGED <<cache>> /\ SameWorld

Sufficient(probe) == probe.tool # Absent \/ (RtkStandsIn(request.tool) /\ probe.rtk # Absent)

\* probe_wsl_tool and the loop around it; a probe that fails or times out reports nothing
ProbeDistro(i) ==
    /\ inv[i].pc = "distro"
    /\ \E fails \in BOOLEAN :
          LET next == CHOOSE n \in inv[i].todo : \A m \in inv[i].todo : n <= m
              d == Listing[next]
              rest == inv[i].todo \ {next}
              seen == IF fails THEN Nothing ELSE installed[d]
              probe == [distro |-> d, dedicated |-> ~fails /\ d \in Dedicated,
                        tool |-> seen.tool, rtk |-> seen.rtk]
              found == [inv[i].found EXCEPT !.wsl = Append(@, probe)]
              stops == rest = {} \/ (inv[i].want = "wsl" /\ Sufficient(probe))
          IN  /\ IF fails THEN Fault ELSE UNCHANGED faults
              /\ Set(i, [inv[i] EXCEPT !.todo = rest,
                                       !.found = IF stops THEN Stamped(found, rest = {}) ELSE found,
                                       !.pc = IF stops THEN "save" ELSE "distro"])
    /\ UNCHANGED <<cache>> /\ SameWorld

\* update_provider_cache; an entry that cannot be written is used all the same
Save(i) ==
    /\ inv[i].pc = "save"
    /\ \/ cache' = [cache EXCEPT ![Context(inv[i].want)] = inv[i].found] /\ UNCHANGED faults
       \/ Fault /\ UNCHANGED cache
    /\ Set(i, [inv[i] EXCEPT !.pc = "decide"])
    /\ SameWorld

----------------------------------------------------------------------------
(* The decision *)

\* What was found goes out of scope with the decision it led to
Rests(r) == [r EXCEPT !.found = NoDiscovery, !.todo = {}, !.elapsed = 0, !.want = "none"]

Decided(r, plans) ==
    [Rests(r) EXCEPT !.pc = IF plans = <<>> THEN "done" ELSE "run", !.plans = plans,
                     !.outcome = IF plans = <<>> THEN "missing" ELSE "none"]

\* provider_dispatch_decision_from_resolution; without plans the static route runs
Resolved(r) ==
    IF KeepsStatic(request, r.route, r.found.windows)
    THEN [Rests(r) EXCEPT !.pc = "run"]
    ELSE Decided(r, DecidedPlans(request, r.found))

\* provider_dispatch_decision after each of its three lookups
Decide(i) ==
    /\ inv[i].pc = "decide"
    /\ LET r == inv[i] IN
       Set(i, CASE r.want = "all" /\ r.mode = "exec" -> Decided(r, ExecPlans(request, r.found))
                [] r.want = "all" /\ r.mode = "scan" ->
                     [Rests(r) EXCEPT !.pc = "done", !.outcome = "reported"]
                [] r.want = "windows" ->
                     IF request.project # "wsl" /\ WindowsCompatible(request.tool, r.found.windows)
                     THEN Resolved(r)
                     ELSE [r EXCEPT !.pc = "lookup", !.want = "wsl"]
                [] r.want = "wsl" ->
                     IF r.found.complete \/ PartialSuffices(request, r.found)
                     THEN Resolved(r)
                     ELSE [r EXCEPT !.pc = "list", !.want = "rest"]
                [] OTHER -> Resolved(r))
    /\ UNCHANGED <<cache, faults>> /\ SameWorld

----------------------------------------------------------------------------
(* Execution *)

Finished(r, outcome) == [r EXCEPT !.pc = "done", !.outcome = outcome]
Started(r, host, adapter, distro) ==
    [r EXCEPT !.starts = Append(@, [host |-> host, adapter |-> adapter, distro |-> distro])]

\* A command that was started ends in success or in failure, for the caller to see
Runs(i, host, adapter, distro) == Set(i, Finished(Started(inv[i], host, adapter, distro), "started"))

\* Mutant: the fallbacks follow any error
Breaks_FallsBack(i, host, adapter, distro) ==
    LET begun == Started(inv[i], host, adapter, distro) IN
    /\ Fault
    /\ Set(i, IF Len(begun.plans) > 1 THEN [begun EXCEPT !.plans = Tail(@)] ELSE Finished(begun, "error"))

\* An error that is not NotFound: before the start, or while the child is waited for
Breaks(i, host, adapter, distro) ==
    /\ Fault
    /\ \/ Set(i, Finished(inv[i], "error"))
       \/ Set(i, Finished(Started(inv[i], host, adapter, distro), "error"))

WindowsHas(adapter) == installed["windows"][IF adapter = "rtk" THEN "rtk" ELSE "tool"]

\* direct_windows_fast_path and optimistic_windows_raw
TryRaw(i) ==
    /\ inv[i].pc \in {"fast", "optimistic"}
    /\ \/ /\ WindowsHas("raw") # Absent
          /\ \/ Runs(i, "windows", "raw", "none") /\ UNCHANGED faults
             \/ Breaks(i, "windows", "raw", "none")
       \/ /\ WindowsHas("raw") = Absent
          /\ Set(i, IF inv[i].pc = "fast" THEN Finished(inv[i], "notfound")
                    ELSE [inv[i] EXCEPT !.pc = "plan"])
          /\ UNCHANGED faults
    /\ UNCHANGED <<cache>> /\ SameWorld

\* The distro a static WSL route uses
RouteDistro(route) == CHOOSE d \in Distros : WslVersion[d] = IF route = "wsl1" THEN 1 ELSE 2

RunWslRoute(i, route) ==
    LET d == RouteDistro(route) IN
    \/ installed[d].rtk # Absent /\ Runs(i, route, "rtk", d) /\ UNCHANGED faults
    \/ installed[d].rtk = Absent /\ Set(i, Finished(inv[i], "refused")) /\ UNCHANGED faults
    \/ Breaks(i, route, "rtk", d)

\* A native RTK that is not there may give way to WSL1
FallsBackToWsl1 == request.requested = "auto" /\ request.environment = "adaptive"

\* execute without a plan: the route itself; the fallback of a bridge call needs a plan
RunStatic(i) ==
    /\ inv[i].pc = "run" /\ inv[i].plans = <<>>
    /\ LET route == inv[i].route
           adapter == IF route = "native-rtk" THEN "rtk" ELSE "raw"
           isolated == request.origin = "wsl"
       IN  \/ /\ route \in {"raw", "native-rtk"} /\ isolated /\ ~request.windowsPath
              /\ Set(i, Finished(inv[i], "unmapped")) /\ UNCHANGED faults
           \/ /\ route \in {"raw", "native-rtk"} /\ isolated => request.windowsPath
              /\ route \in {"raw", "native-rtk"} /\ WindowsHas(adapter) # Absent
              /\ \/ Runs(i, "windows", adapter, "none")
                    /\ UNCHANGED faults
                 \/ Breaks(i, "windows", adapter, "none")
           \/ /\ route \in {"raw", "native-rtk"} /\ isolated => request.windowsPath
              /\ route \in {"raw", "native-rtk"} /\ WindowsHas(adapter) = Absent
              /\ IF route = "native-rtk" /\ FallsBackToWsl1 /\ ~isolated
                 THEN RunWslRoute(i, "wsl1")
                 ELSE Set(i, Finished(inv[i], "notfound")) /\ UNCHANGED faults
           \/ route \in {"wsl1", "wsl2"} /\ RunWslRoute(i, route)
    /\ UNCHANGED <<cache>> /\ SameWorld

\* What follows a plan that ended in NotFound: the next one, if there is one
AfterNotFound(r) == IF Len(r.plans) = 1 THEN Finished(r, "notfound") ELSE [r EXCEPT !.plans = Tail(@)]

\* run_execution_plan on Windows, with validate_windows_binary_identity before it
RunWindowsPlan(i, plan) ==
    \/ WindowsHas(plan.adapter) = Absent /\ Set(i, AfterNotFound(inv[i])) /\ UNCHANGED faults
    \/ /\ WindowsHas(plan.adapter) \notin {Absent, plan.identity}
       /\ Set(i, Finished(inv[i], "identity")) /\ UNCHANGED faults
    \/ /\ WindowsHas(plan.adapter) = plan.identity
       /\ \/ Runs(i, "windows", plan.adapter, "none") /\ UNCHANGED faults
          \/ Breaks(i, "windows", plan.adapter, "none")

\* In WSL the launcher compares the identity and refuses with an exit status
RunWslPlan(i, plan) ==
    LET has == installed[plan.distro][IF plan.adapter = "rtk" THEN "rtk" ELSE "tool"] IN
    \/ has # plan.identity /\ Set(i, Finished(inv[i], "identity")) /\ UNCHANGED faults
    \/ /\ has = plan.identity
       /\ Runs(i, plan.host, plan.adapter, plan.distro) /\ UNCHANGED faults
    \/ Breaks(i, plan.host, plan.adapter, plan.distro)
    \/ Fault /\ Set(i, AfterNotFound(inv[i]))

RunPlan(i) ==
    /\ inv[i].pc = "run" /\ inv[i].plans # <<>>
    /\ LET plan == Head(inv[i].plans) IN
       IF plan.host = "windows" THEN RunWindowsPlan(i, plan) ELSE RunWslPlan(i, plan)
    /\ UNCHANGED <<cache>> /\ SameWorld

End(i) ==
    /\ inv[i].pc = "done"
    /\ Set(i, Idle)
    /\ UNCHANGED <<cache, faults>> /\ SameWorld

Step(i) ==
    \/ Begin(i) \/ Plan(i) \/ Lookup(i) \/ ProbeWindows(i) \/ List(i) \/ ProbeDistro(i)
    \/ Save(i) \/ Decide(i) \/ TryRaw(i) \/ RunStatic(i) \/ RunPlan(i) \/ End(i)

Next ==
    \/ Change \/ Tick \/ LoseCache
    \/ \E by \in 1..(MaxBack - back) : SetBack(by)
    \/ \E i \in Invocations : Step(i)

\* What is under way goes on: every wait in it has a timeout.  Nobody has to begin anew.
GoesOn(i) == inv[i].pc # "idle" /\ Step(i)

Spec == Init /\ [][Next]_vars /\ WF_vars(Tick) /\ \A i \in Invocations : WF_vars(GoesOn(i))

----------------------------------------------------------------------------
(* Properties *)

(***************************************************************************)
(* A command is started at most once: the next candidate is tried only     *)
(* when the one before it was not found, which the code knows before any   *)
(* child exists, and never after an error of a child that was started.     *)
(***************************************************************************)
AtMostOneStart == \A i \in Invocations : Len(inv[i].starts) <= 1

(***************************************************************************)
(* A git command that is not known to only read, in a Windows project and  *)
(* without a route asked for, runs on Windows or not at all, whatever      *)
(* discovery found and whichever starts failed.                            *)
(***************************************************************************)
MutatingGitStaysOnWindows ==
    \A i \in Invocations :
       /\ inv[i].mode = "run" /\ request.requested = "auto"
       /\ request.tool = "git" /\ request.access # "ReadOnly" /\ request.project = "windows"
       => \A n \in DOMAIN inv[i].starts :
             inv[i].starts[n].host = "windows" /\ inv[i].starts[n].adapter = "raw"

(***************************************************************************)
(* In a project of a distro, that distro's own provider goes first: a      *)
(* decision that begins elsewhere was taken after the distro was asked,    *)
(* and with nothing there that could be planned.                           *)
(***************************************************************************)
HomeHasPlan(found) ==
    \E n \in DOMAIN DecidedPlans(request, found) : DecidedPlans(request, found)[n].distro = request.home
Begins(r) == r.pc = "run" /\ r.plans # <<>>
SameDistroFirst ==
    [][\A i \in Invocations :
         /\ inv[i].pc = "decide" /\ inv[i].mode = "run" /\ faults = 0
         /\ request.project = "wsl" /\ request.home \in Distros
         /\ Begins(inv'[i]) /\ Head(inv'[i].plans).distro # request.home
         => request.home \in Asked(inv[i].found) /\ ~HomeHasPlan(inv[i].found)]_vars

(***************************************************************************)
(* A decision never rests on an observation older than two cache lifetimes *)
(* and three discoveries, and what the clock was set back: a stamp in the  *)
(* future is fresh until the clock has caught up (cache.rs:92).  A partial *)
(* inventory is completed, and stamped anew with its old answers in it,    *)
(* once and not again and again (probe.rs:262-292).                        *)
(***************************************************************************)
EvidenceBounded ==
    \A i \in Invocations : inv[i].pc = "decide" => inv[i].found.seen <= Oldest + back

(***************************************************************************)
(* A binary that was replaced behind a cached answer stops commands for a  *)
(* while, not for ever: once nothing changes any more, no invocation ends  *)
(* with "executable identity changed" again.                               *)
(***************************************************************************)
Heals == <>[](\A i \in Invocations : inv[i].outcome # "identity")

(***************************************************************************)
(* docs/P7_DISPATCHER_FOUNDATION.md:92-95: if the native candidate is      *)
(* absent, discovery expands once to the complete WSL inventory.  Then no  *)
(* command is called missing that a complete inventory has a plan for.     *)
(***************************************************************************)
Complete ==
    [NoDiscovery EXCEPT !.present = TRUE, !.complete = TRUE, !.windows = installed["windows"],
        !.wsl = [n \in DOMAIN Listing |->
                   [distro |-> Listing[n], dedicated |-> Listing[n] \in Dedicated, tool |-> installed[Listing[n]].tool,
                    rtk |-> installed[Listing[n]].rtk]]]
AbsentCandidateExpands ==
    \A i \in Invocations :
       inv[i].outcome = "missing" /\ inv[i].mode = "run" /\ changes = 0 /\ faults = 0
       => DecidedPlans(request, Complete) = <<>>
=============================================================================
