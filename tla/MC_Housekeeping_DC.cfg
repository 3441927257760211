\* Deactivation sweep, two replicas, transient failures, one crash.
CONSTANTS
    r1 = r1
    r2 = r2
    Replicas <- MCReplicas
    NumTenants = 3
    PageSize = 2
    CandidateLimit <- MCLimitOne
    SweepKinds <- MCDeactivateOnly
    Clients <- MCClients
    Docs <- MCDocs
    ClientProject <- MCClientProject
    DocProject <- MCDocProject
    Version <- MCSameVersion
    StoreWraps = FALSE
    PersistentFailure = FALSE
    MaxFailures = 2
    MaxCrashes = 1
    MaxActivity = 0
SPECIFICATION FairSpec
INVARIANTS TypeOK LockHeld MutualExclusion Coverage
PROPERTIES CursorAfterBatch EventuallyApplied StopTerminates SweepRefinement
