CONSTANTS
    Requests = {r1}
    Emails = {a}
    Clis = {c1, c2}
    MaxAttempts = 2
    Retries = 1
    Deployments <- MCDeployments
    MaxLaunches = 2
    NoEmail = NoEmail

SPECIFICATION Spec
INVARIANTS
    TypeOK
    MailCounted
    ReportsMatchDiscards
    ProductionMailLeaves
    OrphansNeedACrash
    PoolOutlivesWork
    WelcomeFollowsAccount
PROPERTIES
    ShutdownEnds
    EveryJobEnds
