SPECIFICATION ReleaseSpec
CONSTANTS
    Runs = {r1, r2}
    Commits = 2
    MaxReleases = 3
    MaxEdits = 2
INVARIANTS
    ReleaseTypeOK
    SucceededIsExact
    OneOwner
    VersionStaysReserved
    OneReleasePerRun
    PublishedIsBound
CHECK_DEADLOCK FALSE
