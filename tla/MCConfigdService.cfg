\* As staged by default: the internal publisher on, the plug-in's thread updating
\* services on two interfaces beside the server thread.
SPECIFICATION LiveSpec
CONSTANTS
    srv = srv  plugin = plugin  c1 = c1  c2 = c2
    dhcp = dhcp  internal = internal  vpn = vpn  en1 = en1  en0 = en0
    r1 = r1  r2 = r2  d1 = d1  d2 = d2  p1 = p1  pat = pat
    None = None
    Server = srv
    Callers = {plugin}
    Sessions = {}
    Services = {dhcp, internal, vpn}
    Interfaces = {en0, en1}
    Routers = {r1, r2}
    Resolvers = {d1}
    PlainKeys = {p1}
    Patterns = {}
    PatternKeys <- MCPatternKeys
    Writes <- Nothing
    Removals <- Nothing
    Watchable <- Nothing
    Batches <- LinkBatches
    StoreBatches <- ServiceBatches
    Preferences <- MCPreferences
    InternalState = TRUE
    InternalService <- MCInternalService
    DefaultRouter = r1
    DefaultResolver = d1
    QLimit = 1
    MaxInstance = 4
INVARIANT GlobalMatchesInterface
PROPERTIES NetworkUpIsJustified NetworkUpIsTold GlobalStaysDerived
