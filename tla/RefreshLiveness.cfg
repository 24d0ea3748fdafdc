SPECIFICATION FairSpec
CONSTANTS
    system = system
    stats = stats
    mesh = mesh
    policies = policies
    update = update
    Source = {system, update}
    Critical = {system}
    Stage2 = {}
    Tracked = {}
    Volatile = {update}
    HostPolicies = {}
    UpdateCheck = {update}
    Kind = {"full", "updateCheck"}
    Every <- MCEvery
    CycleTicks = 6
    CritGrace = 1
    OptGrace = 1
    MaxGen = 1
    MaxToken = 1
PROPERTIES
    RequestsServed
    Converges
