---------------------------- MODULE SupervisedRun ----------------------------
(***************************************************************************)
(* What wait_for_wsl_child and wait_for_wsl1_child (src/wsl/supervisor.rs)  *)
(* promise whoever runs a command through them: it starts under a permit    *)
(* that no cancellation has preceded, a call that returns a status leaves   *)
(* nothing of the command behind, and the status is the target's or at      *)
(* least no invented success.  How the two sides talk, and what it takes to *)
(* end a command, is not visible here.                                      *)
(***************************************************************************)
EXTENDS Integers

CONSTANT TargetCodes    \* exit codes a target may end with

VARIABLES
    call,               \* "open", "ok", "err", or "lost" with its dispatcher
    status,             \* what a call that ended "ok" returned
    permitted,          \* the command may start
    cancelled,          \* the call has seen a reason to end it
    target, targetCode, \* "unborn", "alive" or "dead", and its exit code
    kids                \* it has descendants that live

vars == <<call, status, permitted, cancelled, target, targetCode, kids>>

NoCode == -1
Live == target = "alive" \/ kids

Init ==
    /\ call = "open" /\ status = NoCode
    /\ permitted = FALSE /\ cancelled = FALSE
    /\ target = "unborn" /\ targetCode = NoCode /\ kids = FALSE

----------------------------------------------------------------------------
(* The call. *)

Command == UNCHANGED <<target, targetCode, kids>>

Permit ==
    /\ call = "open" /\ ~cancelled
    /\ permitted' = TRUE
    /\ UNCHANGED <<call, status, cancelled>> /\ Command

Cancel ==
    /\ call = "open"
    /\ cancelled' = TRUE
    /\ UNCHANGED <<call, status, permitted>> /\ Command

\* A success is the target's own, and so is the status of a call that was not
\* cancelled, if the target has one.
Honest(code) ==
    /\ code = 0 => targetCode = 0
    /\ ~cancelled /\ targetCode # NoCode => code = targetCode

Return ==
    /\ call = "open" /\ ~Live
    /\ call' = "ok"
    /\ Honest(status')
    /\ UNCHANGED <<permitted, cancelled>> /\ Command

\* An error says nothing of the command.
Fail ==
    /\ call = "open"
    /\ call' = "err" /\ status' = NoCode
    /\ cancelled' \in {cancelled, TRUE}
    /\ UNCHANGED permitted /\ Command

Lose ==
    /\ call = "open"
    /\ call' = "lost"
    /\ UNCHANGED <<status, permitted, cancelled>> /\ Command

----------------------------------------------------------------------------
(* The command. *)

Call == UNCHANGED <<call, status, permitted, cancelled>>

\* Not behind the back of a caller that has its status.
Start ==
    /\ permitted /\ target = "unborn" /\ call # "ok"
    /\ target' = "alive"
    /\ UNCHANGED <<targetCode, kids>> /\ Call

\* By itself, or ended from outside: without a code, or with its descendants.
End ==
    /\ target = "alive"
    /\ target' = "dead"
    /\ targetCode' \in TargetCodes \cup {NoCode}
    /\ kids' \in {kids, FALSE}
    /\ Call

Fork ==
    /\ target = "alive"
    /\ kids' = TRUE
    /\ UNCHANGED <<target, targetCode>> /\ Call

KidsEnd ==
    /\ kids' = FALSE
    /\ UNCHANGED <<target, targetCode>> /\ Call

Next ==
    \/ Permit \/ Cancel \/ Return \/ Fail \/ Lose
    \/ Start \/ End \/ Fork \/ KidsEnd

Spec == Init /\ [][Next]_vars
=============================================================================
