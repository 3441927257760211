\* Deactivation sweep while clients keep sending requests and the store
\* fails once: progress and the cursor rule do not depend on activity.
CONSTANTS
    r1 = r1
    r2 = r2
    Replicas <- MCReplicas
    NumTenants = 3
    PageSize = 2
    CandidateLimit <- MCLimitOne
    SweepKinds <- MCDeactivateOnly
    Clients <- MCClients
    Docs <- MCDocs
    ClientProject <- MCClientProject
    DocProject <- MCDocProject
    Version <- MCSameVersion
    StoreWraps = FALSE
    PersistentFailure = FALSE
    MaxFailures = 1
    MaxCrashes = 0
    MaxActivity = 1
SPECIFICATION FairSpec
PROPERTIES  EventuallyApplied
