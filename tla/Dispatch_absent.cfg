SPECIFICATION Spec
CONSTANTS
    i1 = i1
    ubuntu = ubuntu
    dedicated1 = dedicated1
    Invocations = {i1}
    Listing <- MCListing
    Dedicated = {dedicated1}
    WslVersion <- MCWslVersion
    Requests <- MCAbsentRequests
    Installations <- MCAbsentInstallations
    TTL = 1
    Slow = 1
    Versions = 2
    MaxChanges = 0
    MaxFaults = 0
    MaxBack = 0
INVARIANTS AbsentCandidateExpands
