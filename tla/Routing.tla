------------------------------ MODULE Routing ------------------------------
(***************************************************************************)
(* Which route a command is given before anything is looked up: the        *)
(* command surface of the manifest, the built-in decision of               *)
(* routing/decision.rs, and the two paths of cli/execution.rs that start a *)
(* Windows command without planning.                                       *)
(*                                                                         *)
(* A request is a record of what the code asks of a command line, of the   *)
(* configuration and of the directory it stands in:                        *)
(*   tool         the program                                              *)
(*   access       what a git command may do; "ReadOnly" also for the cargo *)
(*                commands check, test and clippy, "none" for the rest     *)
(*   typedWsl     an argument in a path position is a Linux path           *)
(*   gitInWsl     git was given a Linux directory (-C and its like)        *)
(*   policyKey    route_policy_key knows the command                       *)
(*   calibrationKey  calibration_key knows it                              *)
(*   policyRoute  the route of the imported policy, or "none"              *)
(*   origin       "windows", or "wsl" when a bridge called                 *)
(*   driveCwd     the process stands in a directory of a drive             *)
(*   project      "windows", "wsl" or "unknown", with its distro in home   *)
(*   windowsPath  a WSL project carries its Windows path (a bridge call)   *)
(*   mapped       wslpath can map the project directory to the other side  *)
(*   requested    the route asked for, environment, adapter, gitMode       *)
(*   calibration  local calibration is enabled                             *)
(*   modes        "run" for the command itself, "exec" for `provider exec`, *)
(*                "scan" for a refreshed report on the tool                *)
(***************************************************************************)

NativeStructured == {"ls", "tree", "read", "git", "find", "diff", "grep", "rg", "cargo"}
RawNative == {"npm", "npx", "pnpm", "go", "dotnet"}
CoreInternal == {"gain", "stats"}
MetaCommands ==
    {"smart", "err", "test", "json", "deps", "env", "log", "summary", "init", "wget", "wc",
     "cc-economics", "config", "discover", "session", "telemetry", "learn", "run", "proxy",
     "pipe", "trust", "untrust", "verify", "hook-audit", "rewrite", "hook"}
Wsl1Conservative ==
    MetaCommands \cup
    {"gh", "glab", "aws", "psql", "docker", "kubectl", "oc", "jest", "vitest", "prisma", "tsc",
     "next", "lint", "prettier", "format", "playwright", "curl", "ruff", "pytest", "mypy",
     "rake", "rubocop", "rspec", "pip", "gt", "golangci-lint", "gradlew", "mvn"}

command_surface(tool) ==
    CASE tool \in NativeStructured -> "NativeStructured"
      [] tool \in RawNative -> "RawNative"
      [] tool \in Wsl1Conservative -> "Wsl1Conservative"
      [] tool \in CoreInternal -> "CoreInternal"
      [] OTHER -> "Unknown"

RawPosix == {"awk", "cat", "find", "head", "ls", "sed", "tail", "tree", "wc"}
WindowsRawIncompatible == RawPosix \cup {"grep"}
AdapterOnly(tool) == tool \in MetaCommands \ RawPosix
WindowsShims == {"dart", "flutter"}

VerifiedReadOnlyGit(r) == r.tool = "git" /\ r.access = "ReadOnly"

----------------------------------------------------------------------------

\* authorized_policy_route: what the policy may decide is narrower than what it knows
AuthorizedPolicyRoute(r) ==
    IF /\ r.policyKey /\ r.requested = "auto"
       /\ r.tool \in {"git", "cargo"} => r.access = "ReadOnly"
    THEN r.policyRoute
    ELSE "none"

StaticByManifest(r) ==
    CASE command_surface(r.tool) = "RawNative" -> "raw"
      [] command_surface(r.tool) = "NativeStructured" ->
           IF r.tool = "git" /\ ~VerifiedReadOnlyGit(r) THEN "raw" ELSE "native-rtk"
      [] r.tool \in WindowsShims -> "raw"
      [] OTHER -> "wsl1"

AutoRouteWithContext(r) ==
    CASE r.typedWsl \/ ~r.driveCwd -> "wsl1"
      [] ~r.typedWsl /\ r.driveCwd /\ AuthorizedPolicyRoute(r) # "none" -> AuthorizedPolicyRoute(r)
      [] OTHER -> StaticByManifest(r)

AutoRouteWindowsOnly(r) ==
    CASE r.tool \in MetaCommands \cup CoreInternal -> "native-rtk"
      [] command_surface(r.tool) = "NativeStructured" /\ (r.tool = "git" => VerifiedReadOnlyGit(r)) ->
           "native-rtk"
      [] OTHER -> "raw"

\* The route of resolve_policy
ResolvedRoute(r) ==
    CASE r.requested # "auto" -> r.requested
      [] r.requested = "auto" /\ r.environment = "adaptive" -> AutoRouteWithContext(r)
      [] OTHER -> AutoRouteWindowsOnly(r)

----------------------------------------------------------------------------

ShouldUseNativeGit(r) ==
    /\ r.tool = "git" /\ ~r.gitInWsl
    /\ \/ r.gitMode = "native"
       \/ r.gitMode = "auto" /\ r.origin = "windows" /\ r.driveCwd

\* direct_windows_fast_path runs the command before any planning
FastPath(r) ==
    /\ r.origin = "windows"
    /\ \/ r.requested = "raw"
       \/ r.requested = "auto" /\ ~VerifiedReadOnlyGit(r) /\ ShouldUseNativeGit(r)

CalibrationEligible(r) == r.calibration /\ r.requested = "auto" /\ r.calibrationKey

\* optimistic_windows_raw: a command whose route nothing will change is tried at once
OptimisticRaw(r) ==
    /\ r.origin = "windows" /\ r.requested = "auto" /\ ResolvedRoute(r) = "raw"
    /\ \/ ~r.policyKey /\ ~CalibrationEligible(r)
       \/ AuthorizedPolicyRoute(r) = "raw"

\* complete_calibration: local evidence decides where no policy does; whether an
\* argument or the directory is of Linux it does not ask
Calibrates(r) == CalibrationEligible(r) /\ AuthorizedPolicyRoute(r) = "none"

\* Adaptive provider planning, and not only the static route, decides
Dispatchable(r) ==
    r.requested = "auto" /\ r.environment = "adaptive" /\ ~AdapterOnly(r.tool)
=============================================================================
