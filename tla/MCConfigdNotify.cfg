\* A server thread, an in-process caller and one client, under the fairness of LiveSpec.
SPECIFICATION LiveSpec
CONSTANTS
    srv = srv  plugin = plugin  c1 = c1  c2 = c2
    dhcp = dhcp  internal = internal  vpn = vpn  en1 = en1  en0 = en0
    r1 = r1  r2 = r2  d1 = d1  d2 = d2  p1 = p1  pat = pat
    None = None
    Server = srv
    Callers = {plugin}
    Sessions = {c1}
    Services = {dhcp, internal}
    Interfaces = {en0}
    Routers = {r1}
    Resolvers = {d1}
    PlainKeys = {p1}
    Patterns = {pat}
    PatternKeys <- MCPatternKeys
    Writes <- MCWrites
    Removals <- MCRemovals
    Watchable <- MCWatchable
    Batches <- MCBatches
    StoreBatches <- MCBatches
    Preferences <- MCNoPreferences
    InternalState = FALSE
    InternalService <- MCInternalService
    DefaultRouter = r1
    DefaultResolver = d1
    QLimit = 1
    MaxInstance = 1
INVARIANTS TypeOK NoLostChange
PROPERTY EventuallySeen
