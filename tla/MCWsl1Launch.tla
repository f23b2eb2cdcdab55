---------------------------- MODULE MCWsl1Launch ----------------------------
EXTENDS Wsl1Launch, TLC

CONSTANTS d1, d2

MCDispatchers == {d1, d2}
MCOneDispatcher == {d1}

\* One success and one failure a target may end with.
MCTargetCodes == {0, 3}
MCOneCode == {0}

Swap == Permutations(MCDispatchers)
=============================================================================
