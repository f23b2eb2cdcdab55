SPECIFICATION Spec
CONSTANTS
    i1 = i1
    ubuntu = ubuntu
    dedicated1 = dedicated1
    Invocations = {i1}
    Listing <- MCListing
    Dedicated = {dedicated1}
    WslVersion <- MCWslVersion
    Requests <- MCRequests
    Installations <- MCInstallations
    TTL = 1
    Slow = 1
    Versions = 2
    MaxChanges = 1
    MaxFaults = 1
    MaxBack = 1
INVARIANTS AtMostOneStart MutatingGitStaysOnWindows EvidenceBounded
PROPERTIES SameDistroFirst Heals
