---------------------------- MODULE MCWslLaunch ----------------------------
EXTENDS WslLaunch

\* One success and one failure a target may end with.
MCTargetCodes == {0, 3}
=============================================================================
