\* Deactivation sweep while the store or coordinator keeps failing: the
\* loop retries without waiting and never reaches the select.
CONSTANTS
    r1 = r1
    r2 = r2
    Replicas <- MCReplicas
    NumTenants = 3
    PageSize = 2
    CandidateLimit <- MCLimitOne
    SweepKinds <- MCDeactivateOnly
    Clients <- MCClients
    Docs <- MCDocs
    ClientProject <- MCClientProject
    DocProject <- MCDocProject
    Version <- MCSameVersion
    StoreWraps = FALSE
    PersistentFailure = TRUE
    MaxFailures = 0
    MaxCrashes = 0
    MaxActivity = 0
SPECIFICATION FairSpec
PROPERTY StopTerminates
