SPECIFICATION Spec
CONSTANTS
    system = system
    stats = stats
    mesh = mesh
    policies = policies
    update = update
    Source = {system, stats, mesh}
    Critical = {system}
    Stage2 = {stats}
    Tracked = {stats, mesh}
    Volatile = {}
    HostPolicies = {}
    UpdateCheck = {}
    Kind = {"full"}
    Every <- MCEvery
    CycleTicks = 6
    CritGrace = 1
    OptGrace = 1
    MaxGen = 1
    MaxToken = 2
INVARIANTS
    FreshnessSound
    OutageSound
    RequestsHonoured
PROPERTY
    MailboxSpec
