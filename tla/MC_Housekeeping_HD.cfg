\* Hard-deletion sweep, two replicas, wrapping store, transient failures, one crash.
CONSTANTS
    r1 = r1
    r2 = r2
    Replicas <- MCReplicas
    NumTenants = 3
    PageSize = 2
    CandidateLimit <- MCLimitOne
    SweepKinds <- MCHardDeleteOnly
    Clients <- MCClients
    Docs <- MCDocs
    ClientProject <- MCClientProject
    DocProject <- MCDocProject
    Version <- MCSameVersion
    StoreWraps = TRUE
    PersistentFailure = FALSE
    MaxFailures = 2
    MaxCrashes = 1
    MaxActivity = 0
SPECIFICATION FairSpec
INVARIANTS MutualExclusion Coverage
PROPERTIES CursorAfterBatch EventuallyApplied SweepRefinement
