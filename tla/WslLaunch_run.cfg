SPECIFICATION FairSpec
CONSTANT TargetCodes <- MCTargetCodes
INVARIANTS CancellationReady CompletionMeansQuiesced OkMeansQuiet StatusIsTargets
PROPERTIES TokenOutlivesGroup RunSpec CancellationReturns ProxyExitReturns UnpermittedLauncherEnds
CHECK_DEADLOCK FALSE
