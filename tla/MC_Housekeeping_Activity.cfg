\* Deactivation sweep while clients keep sending requests: a candidate
\* can become active between the lookup and clients.Deactivate.
CONSTANTS
    r1 = r1
    r2 = r2
    Replicas <- MCReplicas
    NumTenants = 3
    PageSize = 2
    CandidateLimit <- MCLimitOne
    SweepKinds <- MCDeactivateOnly
    Clients <- MCClients
    Docs <- MCDocs
    ClientProject <- MCClientProject
    DocProject <- MCDocProject
    Version <- MCSameVersion
    StoreWraps = FALSE
    PersistentFailure = FALSE
    MaxFailures = 0
    MaxCrashes = 0
    MaxActivity = 1
SPECIFICATION Spec
PROPERTY DeactivatesIdleOnly
