\* Hard-deletion sweep during a rolling upgrade: r1 runs the housekeeping
\* package, r2 the clients package, whose lock keys differ.
CONSTANTS
    r1 = r1
    r2 = r2
    Replicas <- MCReplicas
    NumTenants = 3
    PageSize = 2
    CandidateLimit <- MCLimitOne
    SweepKinds <- MCHardDeleteOnly
    Clients <- MCClients
    Docs <- MCDocs
    ClientProject <- MCClientProject
    DocProject <- MCDocProject
    Version <- MCMixedVersions
    StoreWraps = TRUE
    PersistentFailure = FALSE
    MaxFailures = 0
    MaxCrashes = 0
    MaxActivity = 0
SPECIFICATION Spec
INVARIANT MutualExclusion
