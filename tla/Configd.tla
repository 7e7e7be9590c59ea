------------------------------ MODULE Configd ------------------------------
(***************************************************************************)
(* Panthera's configd: the SCDynamicStore server of                        *)
(* userland/configd/panthera_configd.c, with its route manager and its     *)
(* built-in network-state publisher.                                       *)
(*                                                                         *)
(* configd keeps one dictionary, g_store, under g_store_mutex, and one     *)
(* list of notification sessions under g_notify_mutex.  A request handler  *)
(* is not one critical section but a sequence of them: a store write, the  *)
(* route manager, the notification of the sessions, the derived global     *)
(* keys, each with its own lock or with none.  Here a thread holds in      *)
(* todo[t] the sections its handler has still to run, and one step runs    *)
(* the first of them, so that the steps of two threads interleave exactly  *)
(* where the code releases its locks.                                      *)
(*                                                                         *)
(* The server thread takes Mach requests one at a time (mach_msg_server);  *)
(* Callers are threads of the same process that use the exported           *)
(* panthera_configd_store_* entry points.                                  *)
(***************************************************************************)
EXTENDS Integers, Sequences, FiniteSets

CONSTANTS
    Server,           \* the thread that runs mach_msg_server
    Callers,          \* in-process threads using the exported entry points
    Sessions,         \* notification sessions, one per client and port
    Services,         \* network service identifiers
    Interfaces,       \* network interfaces
    Routers,          \* router addresses
    Resolvers,        \* DNS server addresses
    PlainKeys,        \* keys configd gives no meaning to
    Patterns,         \* notification patterns
    PatternKeys,      \* the keys each pattern matches
    Writes,           \* <<key, value>> pairs clients set or add
    Removals,         \* keys clients remove
    Watchable,        \* keys clients subscribe to by name
    Batches,          \* multiple-key updates that come in Mach requests
    StoreBatches,     \* multiple-key updates by the threads of Callers
    Preferences,      \* what preferences.plist may hold
    InternalState,    \* PANTHERA_CONFIGD_NETWORK_STATE_INTERNAL is set
    InternalService,  \* the service identifier "Panthera-<interface>"
    DefaultRouter,    \* the publisher's built-in router, 10.0.2.2
    DefaultResolver,  \* the publisher's built-in DNS server, 10.0.2.3
    QLimit,           \* length of a client port's message queue
    MaxInstance,      \* bound: no request starts once g_instance is here
    None

-----------------------------------------------------------------------------
(* Keys and values                                                         *)

ServiceIPv4(s)   == <<"State:Service:IPv4", s>>
ServiceDNS(s)    == <<"State:Service:DNS", s>>
PluginService(s) == <<"Plugin:IPConfigurationService", s>>
InterfaceIPv4(i) == <<"State:Interface:IPv4", i>>
InterfaceLink(i) == <<"State:Interface:Link", i>>
PlainKey(p)      == <<"Plain", p>>
GlobalIPv4       == <<"State:Global:IPv4", None>>
GlobalDNS        == <<"State:Global:DNS", None>>
InterfaceList    == <<"State:Interface", None>>
SetupInterface(s) == <<"Setup:Service:Interface", s>>
SetupIPv4(s)     == <<"Setup:Service:IPv4", s>>
SetupGlobalIPv4  == <<"Setup:Global:IPv4", None>>

Key ==
    {ServiceIPv4(s) : s \in Services} \cup {ServiceDNS(s) : s \in Services}
        \cup {PluginService(s) : s \in Services}
        \cup {SetupInterface(s) : s \in Services} \cup {SetupIPv4(s) : s \in Services}
        \cup {InterfaceIPv4(i) : i \in Interfaces}
        \cup {InterfaceLink(i) : i \in Interfaces}
        \cup {PlainKey(p) : p \in PlainKeys}
        \cup {GlobalIPv4, GlobalDNS, InterfaceList, SetupGlobalIPv4}

Absent == [type |-> "absent"]         \* the key is not in g_store
Opaque == [type |-> "opaque"]         \* a value that is not a dictionary

IPv4Value ==
    [type : {"ipv4"}, iface : Interfaces \cup {None}, router : Routers \cup {None}]
DNSValue == [type : {"dns"}, server : Resolvers]
GlobalValue ==
    [type : {"global"}, iface : Interfaces, service : Services,
     router : Routers \cup {None}]
PluginValue ==
    [type : {"plugin"}, ipv4 : IPv4Value \cup {Absent}, dns : DNSValue \cup {Absent}]
LinkValue  == [type : {"link"}, active : BOOLEAN]
ListValue  == [type : {"list"}, ifaces : SUBSET Interfaces]
SetupValue == [type : {"setup"}, origin : {"preferences", "builtin"}]
OrderValue == [type : {"order"}, order : SUBSET Services]

Value ==
    IPv4Value \cup DNSValue \cup GlobalValue \cup PluginValue \cup LinkValue
        \cup ListValue \cup SetupValue \cup OrderValue \cup {Opaque}

Entry == Key \X Value
Preference == [services : SUBSET Services, order : (SUBSET Services) \cup {None}]
Batch == [set : Seq(Entry), remove : Seq(Key), notify : Seq(Key)]

Threads == {Server} \cup Callers

ASSUME ConfigdAssumption ==
    /\ Server \notin Callers
    /\ PatternKeys \in [Patterns -> SUBSET Key]
    /\ Writes \subseteq Entry
    /\ Removals \subseteq Key
    /\ Watchable \subseteq Key
    /\ Batches \subseteq Batch
    /\ StoreBatches \subseteq Batch
    /\ Preferences \subseteq Preference
    /\ InternalState \in BOOLEAN
    /\ InternalService \in [Interfaces -> Services]
    /\ DefaultRouter \in Routers
    /\ DefaultResolver \in Resolvers
    /\ QLimit \in Nat \ {0}
    /\ MaxInstance \in Nat
    /\ None \notin Interfaces \cup Routers

-----------------------------------------------------------------------------
(* Critical sections a handler still has to run                            *)

SetItem(k, v)        == [op |-> "set", key |-> k, val |-> v]
AddItem(k, v)        == [op |-> "add", key |-> k, val |-> v]
RemoveItem(k)        == [op |-> "remove", key |-> k]
DeleteItem(k)        == [op |-> "delete", key |-> k]
RouteItem(k, v)      == [op |-> "route", key |-> k, val |-> v]
NotifyItem(k)        == [op |-> "notify", key |-> k]
PublishItem(e, pend) == [op |-> "publish", entry |-> e, pending |-> pend]
GetItem(c, ks)       == [op |-> "get", session |-> c, keys |-> ks]
OpenItem(c)          == [op |-> "open", session |-> c]
UpItem               == [op |-> "up"]
RaiseItem            == [op |-> "raise"]
RefreshItem          == [op |-> "refresh"]

Item ==
    [op : {"set", "add", "route"}, key : Key, val : Value]
        \cup [op : {"remove", "delete", "notify"}, key : Key]
        \cup [op : {"publish"}, entry : Entry, pending : Seq(Entry)]
        \cup [op : {"get"}, session : Sessions, keys : SUBSET Key]
        \cup [op : {"open"}, session : Sessions]
        \cup [op : {"up", "raise", "refresh"}]

-----------------------------------------------------------------------------
VARIABLES
    store,      \* g_store
    instance,   \* g_instance
    published,  \* g_network_state_published
    notified,   \* g_launchd_network_up_notified
    opened,     \* the sessions on the list g_notify_sessions
    keys,       \* session->keys
    patterns,   \* session->patterns
    changes,    \* session->changes
    port,       \* the client's port is in session->ports
    queued,     \* messages waiting in the client's port
    todo,       \* what each thread's handler has still to run
    signals,    \* SIGUSR1 signals sent to launchd
    route,      \* the kernel's default route
    address,    \* the interface that has an IPv4 address, if any
    woken,      \* the client took a message and will ask for the changes
    toRead,     \* keys the client has decided to read
    seen        \* keys whose present value the client has read

storeVars   == <<store, instance, published>>
upVars      == <<notified, signals>>
sessionVars == <<opened, keys, patterns, changes, port>>
clientVars  == <<woken, toRead, seen>>
vars == <<storeVars, upVars, sessionVars, queued, todo, route, address, clientVars>>

-----------------------------------------------------------------------------
(* Start: main loads the preferences and, when the internal publisher is   *)
(* on and an interface already has an address, the network state, before   *)
(* any thread serves a request.                                            *)

\* load_setup_preferences: services with both dictionaries, and the order of
\* the current set or, without one, of the services just published.
LoadedPreferences(p) ==
    [k \in Key |->
        CASE \E s \in p.services : k \in {SetupInterface(s), SetupIPv4(s)}
               -> [type |-> "setup", origin |-> "preferences"]
          [] k = SetupGlobalIPv4 /\ p.services # {}
               -> [type |-> "order",
                   order |-> IF p.order = None THEN p.services ELSE p.order]
          [] OTHER -> Absent]

\* panthera_network_state_publish_dictionary for the interface i.
InternalPublication(st, i) ==
    LET s    == InternalService[i]
        ipv4 == [type |-> "ipv4", iface |-> i, router |-> None]
        entity == [type |-> "setup", origin |-> "builtin"]
    IN  [st EXCEPT ![InterfaceList]    = [type |-> "list", ifaces |-> {i}],
                   ![InterfaceIPv4(i)] = ipv4,
                   ![ServiceIPv4(s)]   = ipv4,
                   ![GlobalIPv4]       = [type |-> "global", iface |-> i, service |-> s,
                                          router |-> DefaultRouter],
                   ![GlobalDNS]        = [type |-> "dns", server |-> DefaultResolver],
                   ![SetupInterface(s)] = entity,
                   ![SetupIPv4(s)]     = entity,
                   ![SetupGlobalIPv4]  = [type |-> "order", order |-> {s}]]

\* The keys it writes.
InternalKeys(i) ==
    {InterfaceList, InterfaceIPv4(i), ServiceIPv4(InternalService[i]), GlobalIPv4, GlobalDNS,
     SetupInterface(InternalService[i]), SetupIPv4(InternalService[i]), SetupGlobalIPv4}

Init ==
    /\ address \in Interfaces \cup {None}
    /\ \E p \in Preferences :
         LET loaded == LoadedPreferences(p)
             n      == IF p.services = {} THEN 0 ELSE 1
         IN  IF InternalState /\ address # None
             THEN /\ store = InternalPublication(loaded, address)
                  /\ instance = n + 1
                  /\ published = TRUE
                  /\ notified = TRUE
                  /\ signals = 1
             ELSE /\ store = loaded
                  /\ instance = n
                  /\ published = FALSE
                  /\ notified = FALSE
                  /\ signals = 0
    /\ opened = {}
    /\ keys = [c \in Sessions |-> {}]
    /\ patterns = [c \in Sessions |-> {}]
    /\ changes = [c \in Sessions |-> {}]
    /\ port = [c \in Sessions |-> FALSE]
    /\ queued = [c \in Sessions |-> 0]
    /\ todo = [t \in Threads |-> << >>]
    /\ route = None
    /\ woken = [c \in Sessions |-> FALSE]
    /\ toRead = [c \in Sessions |-> {}]
    /\ seen = [c \in Sessions |-> {}]

-----------------------------------------------------------------------------
(* The critical sections                                                   *)

\* The keys session c is told about: notify_session_matches_key_locked.
Watched(c) == keys[c] \cup UNION {PatternKeys[p] : p \in patterns[c]}

Running(t, op) == todo[t] # << >> /\ Head(todo[t]).op = op

\* The section at the head of todo[t] is done; items is what it leaves to run.
Continue(t, items) == todo' = [todo EXCEPT ![t] = items \o Tail(@)]

\* g_store changes at the keys ks, so no client has read their present value.
Forget(ks) == seen' = [c \in Sessions |-> seen[c] \ ks]

\* set_value_for_key: write under the lock, then route manager, then notify.
SetValue(t) ==
    /\ Running(t, "set")
    /\ LET k == Head(todo[t]).key
           v == Head(todo[t]).val
       IN  /\ store' = [store EXCEPT ![k] = v]
           /\ Forget({k})
           /\ Continue(t, <<RouteItem(k, v), NotifyItem(k)>>)
    /\ instance' = instance + 1
    /\ UNCHANGED <<published, upVars, sessionVars, queued, route, address, woken, toRead>>

\* _configadd: the same when the key is absent; kSCStatusKeyExists otherwise.
AddValue(t) ==
    /\ Running(t, "add")
    /\ LET k == Head(todo[t]).key
           v == Head(todo[t]).val
       IN  IF store[k] = Absent
           THEN /\ store' = [store EXCEPT ![k] = v]
                /\ instance' = instance + 1
                /\ Forget({k})
                /\ Continue(t, <<RouteItem(k, v), NotifyItem(k)>>)
           ELSE /\ Continue(t, << >>)
                /\ UNCHANGED <<store, instance, seen>>
    /\ UNCHANGED <<published, upVars, sessionVars, queued, route, address, woken, toRead>>

\* remove_value_for_key: removes and notifies even when the key is absent.
RemoveValue(t) ==
    /\ Running(t, "remove")
    /\ LET k == Head(todo[t]).key
       IN  /\ store' = [store EXCEPT ![k] = Absent]
           /\ Forget({k})
           /\ Continue(t, <<NotifyItem(k)>>)
    /\ instance' = instance + 1
    /\ UNCHANGED <<published, upVars, sessionVars, queued, route, address, woken, toRead>>

\* _configremove: the same when the key is present; kSCStatusNoKey otherwise.
DeleteValue(t) ==
    /\ Running(t, "delete")
    /\ LET k == Head(todo[t]).key
       IN  IF store[k] = Absent
           THEN /\ Continue(t, << >>)
                /\ UNCHANGED <<store, instance, seen>>
           ELSE /\ store' = [store EXCEPT ![k] = Absent]
                /\ instance' = instance + 1
                /\ Forget({k})
                /\ Continue(t, <<NotifyItem(k)>>)
    /\ UNCHANGED <<published, upVars, sessionVars, queued, route, address, woken, toRead>>

\* panthera_route_manager_store_value_changed: a service IPv4 dictionary with
\* an interface and a router adds a default route.  RTM_ADD of a route that
\* exists fails in the kernel, and the route manager ignores the result.
ApplyRoute(t) ==
    /\ Running(t, "route")
    /\ LET k == Head(todo[t]).key
           v == Head(todo[t]).val
           applies == /\ \E s \in Services : k = ServiceIPv4(s)
                      /\ v.type = "ipv4"
                      /\ v.iface # None
                      /\ v.router # None
       IN  route' = IF applies /\ route = None THEN v.router ELSE route
    /\ Continue(t, << >>)
    /\ UNCHANGED <<storeVars, upVars, sessionVars, queued, address, clientVars>>

\* Faulty variant: a send that waits for no room and drops nothing.
SendUnbounded(n) == n + 1

\* mach_msg with MACH_SEND_TIMEOUT 0: the message is dropped when the queue
\* is full.
Send(n) == IF n < QLimit THEN n + 1 ELSE n

\* Faulty variant: a session is sent a message only for a key not yet recorded.
NotifyFirstChange(t) ==
    /\ Running(t, "notify")
    /\ LET k == Head(todo[t]).key
           hit == {c \in opened : k \in Watched(c) \ changes[c]}
       IN  /\ changes' = [c \in Sessions |->
                            IF c \in hit THEN changes[c] \cup {k} ELSE changes[c]]
           /\ queued' = [c \in Sessions |->
                            IF c \in hit /\ port[c] THEN Send(queued[c]) ELSE queued[c]]
    /\ Continue(t, << >>)
    /\ UNCHANGED <<storeVars, upVars, opened, keys, patterns, port, route, address, clientVars>>

\* notify_store_key_changed: every session that watches the key records it
\* and is sent a message, even when the key was already recorded.
NotifyKeyChanged(t) ==
    /\ Running(t, "notify")
    /\ LET k == Head(todo[t]).key
           hit == {c \in opened : k \in Watched(c)}
       IN  /\ changes' = [c \in Sessions |->
                            IF c \in hit THEN changes[c] \cup {k} ELSE changes[c]]
           /\ queued' = [c \in Sessions |->
                            IF c \in hit /\ port[c] THEN Send(queued[c]) ELSE queued[c]]
    /\ Continue(t, << >>)
    /\ UNCHANGED <<storeVars, upVars, opened, keys, patterns, port, route, address, clientVars>>

IsDictionary(v) == v.type \notin {"absent", "opaque"}

\* copy_pending_or_stored_dictionary: the update's own value for the key or,
\* read without g_store_mutex, the stored one.
PendingOrStored(pending, k) ==
    IF \E i \in DOMAIN pending : pending[i][1] = k
    THEN pending[CHOOSE i \in DOMAIN pending : pending[i][1] = k][2]
    ELSE store[k]

\* Faulty variants: the Global entity stored before the interface's, launchd
\* told before either.
GlobalFirst(s, ipv4, dns) ==
    IF ipv4.type # "ipv4" \/ ipv4.iface = None
    THEN << >>
    ELSE <<SetItem(GlobalIPv4, [type |-> "global", iface |-> ipv4.iface,
                                service |-> s, router |-> ipv4.router]),
           SetItem(InterfaceIPv4(ipv4.iface), ipv4), UpItem>>

UpFirst(s, ipv4, dns) ==
    IF ipv4.type # "ipv4" \/ ipv4.iface = None
    THEN << >>
    ELSE <<UpItem, SetItem(InterfaceIPv4(ipv4.iface), ipv4),
           SetItem(GlobalIPv4, [type |-> "global", iface |-> ipv4.iface,
                                service |-> s, router |-> ipv4.router])>>

\* publish_global_network_state_from_service
FromService(s, ipv4, dns) ==
    IF ipv4.type # "ipv4" \/ ipv4.iface = None
    THEN << >>
    ELSE <<SetItem(InterfaceIPv4(ipv4.iface), ipv4),
           SetItem(GlobalIPv4, [type |-> "global", iface |-> ipv4.iface,
                                service |-> s, router |-> ipv4.router]),
           UpItem>>
         \o IF IsDictionary(dns) THEN <<SetItem(GlobalDNS, dns)>> ELSE << >>

\* The body of the loop in publish_global_network_state_from_pending_set.
PublicationOf(k, v, pending) ==
    LET link == \E i \in Interfaces : k = InterfaceLink(i)
        svc  == {s \in Services : k = ServiceIPv4(s)}
        plug == {s \in Services : k = PluginService(s)}
        dict == PendingOrStored(pending, k)
    IN  CASE link /\ v.type = "link" -> IF v.active THEN <<UpItem>> ELSE << >>
          [] svc # {} -> LET s == CHOOSE s \in svc : TRUE
                         IN  FromService(s, v, PendingOrStored(pending, ServiceDNS(s)))
          [] plug # {} /\ dict.type = "plugin"
               -> FromService(CHOOSE s \in plug : TRUE, dict.ipv4, dict.dns)
          [] OTHER -> << >>

PublishGlobal(t) ==
    /\ Running(t, "publish")
    /\ LET e == Head(todo[t]).entry
       IN  Continue(t, PublicationOf(e[1], e[2], Head(todo[t]).pending))
    /\ UNCHANGED <<storeVars, upVars, sessionVars, queued, route, address, clientVars>>

\* notify_launchd_network_up, its test of the flag ...
NetworkUp(t) ==
    /\ Running(t, "up")
    /\ Continue(t, IF notified THEN << >> ELSE <<RaiseItem>>)
    /\ UNCHANGED <<storeVars, upVars, sessionVars, queued, route, address, clientVars>>

\* ... and what follows when it was clear: nothing holds a lock in between.
SignalLaunchd(t) ==
    /\ Running(t, "raise")
    /\ notified' = TRUE
    /\ signals' = signals + 1
    /\ Continue(t, << >>)
    /\ UNCHANGED <<storeVars, sessionVars, queued, route, address, clientVars>>

\* Faulty variants: a publication that is not remembered, and one of which
\* launchd is not told.
RefreshAgain(t) ==
    /\ Running(t, "refresh")
    /\ IF InternalState /\ address # None
       THEN /\ store' = InternalPublication(store, address)
            /\ instance' = instance + 1
            /\ published' = TRUE
            /\ Forget(InternalKeys(address))
            /\ Continue(t, <<UpItem>>)
       ELSE /\ Continue(t, << >>)
            /\ UNCHANGED <<storeVars, seen>>
    /\ UNCHANGED <<upVars, sessionVars, queued, route, address, woken, toRead>>

RefreshQuietly(t) ==
    /\ Running(t, "refresh")
    /\ IF InternalState /\ ~published /\ address # None
       THEN /\ store' = InternalPublication(store, address)
            /\ instance' = instance + 1
            /\ published' = TRUE
            /\ Forget(InternalKeys(address))
       ELSE UNCHANGED <<storeVars, seen>>
    /\ Continue(t, << >>)
    /\ UNCHANGED <<upVars, sessionVars, queued, route, address, woken, toRead>>

\* refresh_network_state_if_needed: publishes once, when an interface has an
\* address, and tells launchd but no session.
RefreshNetworkState(t) ==
    /\ Running(t, "refresh")
    /\ IF InternalState /\ ~published /\ address # None
       THEN /\ store' = InternalPublication(store, address)
            /\ instance' = instance + 1
            /\ published' = TRUE
            /\ Forget(InternalKeys(address))
            /\ Continue(t, <<UpItem>>)
       ELSE /\ Continue(t, << >>)
            /\ UNCHANGED <<storeVars, seen>>
    /\ UNCHANGED <<upVars, sessionVars, queued, route, address, woken, toRead>>

\* The locked read of _configget and _configget_m, for the client of session c.
ReadValues(t) ==
    /\ Running(t, "get")
    /\ LET c  == Head(todo[t]).session
           ks == Head(todo[t]).keys
       IN  /\ seen' = [seen EXCEPT ![c] = @ \cup ks]
           /\ toRead' = [toRead EXCEPT ![c] = @ \ ks]
    /\ Continue(t, << >>)
    /\ UNCHANGED <<storeVars, upVars, sessionVars, queued, route, address, woken>>

\* The locked part of _configopen: the new session joins the list.
CreateSession(t) ==
    /\ Running(t, "open")
    /\ opened' = opened \cup {Head(todo[t]).session}
    /\ Continue(t, << >>)
    /\ UNCHANGED <<storeVars, upVars, keys, patterns, changes, port, queued, route,
                   address, clientVars>>

Section(t) ==
    \/ SetValue(t) \/ AddValue(t) \/ RemoveValue(t) \/ DeleteValue(t)
    \/ ApplyRoute(t) \/ NotifyKeyChanged(t) \/ PublishGlobal(t)
    \/ NetworkUp(t) \/ SignalLaunchd(t) \/ RefreshNetworkState(t)
    \/ ReadValues(t) \/ CreateSession(t)

-----------------------------------------------------------------------------
(* Requests                                                                *)

Idle(t) == todo[t] = << >>

Start(t, items) ==
    /\ Idle(t)
    /\ todo' = [todo EXCEPT ![t] = items]
    /\ UNCHANGED <<storeVars, upVars, sessionVars, queued, route, address, clientVars>>

\* A request that may change the store.
StartWrite(t, items) == instance < MaxInstance /\ Start(t, items)

\* The sections of _configset_m: every write, then the derived global keys,
\* then the removals, then the notifications asked for.
SetItems(b)     == [i \in DOMAIN b.set |-> SetItem(b.set[i][1], b.set[i][2])]
PublishItems(b) == [i \in DOMAIN b.set |-> PublishItem(b.set[i], b.set)]
RemoveItems(b)  == [i \in DOMAIN b.remove |-> RemoveItem(b.remove[i])]
NotifyItems(b)  == [i \in DOMAIN b.notify |-> NotifyItem(b.notify[i])]
BatchItems(b) ==
    SetItems(b) \o PublishItems(b) \o RemoveItems(b) \o NotifyItems(b)

ConfigSet         == \E w \in Writes : StartWrite(Server, <<SetItem(w[1], w[2])>>)
ConfigAdd         == \E w \in Writes : StartWrite(Server, <<AddItem(w[1], w[2])>>)
ConfigRemove      == \E k \in Removals : StartWrite(Server, <<DeleteItem(k)>>)
ConfigSetMultiple == \E b \in Batches : StartWrite(Server, BatchItems(b))

\* _configlist, and a read by a client that has no session here.
ConfigList == Start(Server, <<RefreshItem>>)

\* _configopen; the new port may fail to be made or added to the port set.
ConfigOpen(c) ==
    /\ c \notin opened
    /\ \/ Start(Server, <<RefreshItem, OpenItem(c)>>)
       \/ Start(Server, <<RefreshItem>>)

\* A client reads what it decided to read, key by key or all at once.
ConfigGet(c) ==
    \E k \in toRead[c] : Start(Server, <<RefreshItem, GetItem(c, {k})>>)

ConfigGetMultiple(c) ==
    toRead[c] # {} /\ Start(Server, <<RefreshItem, GetItem(c, toRead[c])>>)

\* panthera_configd_store_set_value and _set_multiple, from another thread of
\* the process.  A set_multiple whose removals are not an array returns
\* kSCStatusInvalidArgument after its writes.
StoreSetValue(t) == \E w \in Writes : StartWrite(t, <<SetItem(w[1], w[2])>>)

StoreSetMultiple(t) ==
    \E b \in StoreBatches : \/ StartWrite(t, BatchItems(b))
                            \/ StartWrite(t, SetItems(b) \o PublishItems(b))

-----------------------------------------------------------------------------
(* Notification requests: one critical section each, on the server thread, *)
(* with what the client of the session does about them.                    *)

SessionRequest(c) ==
    /\ c \in opened
    /\ Idle(Server)
    /\ UNCHANGED <<storeVars, upVars, opened, todo, route, address, seen>>

\* _notifyadd; the client then reads the keys it added.
NotifyAdd(c) ==
    /\ SessionRequest(c)
    /\ \/ \E k \in Watchable : /\ k \notin keys[c]
                               /\ keys' = [keys EXCEPT ![c] = @ \cup {k}]
                               /\ toRead' = [toRead EXCEPT ![c] = @ \cup {k}]
                               /\ UNCHANGED patterns
       \/ \E p \in Patterns :
            /\ p \notin patterns[c]
            /\ patterns' = [patterns EXCEPT ![c] = @ \cup {p}]
            /\ toRead' = [toRead EXCEPT ![c] = @ \cup PatternKeys[p]]
            /\ UNCHANGED keys
    /\ UNCHANGED <<changes, port, queued, woken>>

\* _notifyremove
NotifyRemove(c) ==
    /\ SessionRequest(c)
    /\ \/ \E k \in keys[c] : keys' = [keys EXCEPT ![c] = @ \ {k}] /\ UNCHANGED patterns
       \/ \E p \in patterns[c] :
            patterns' = [patterns EXCEPT ![c] = @ \ {p}] /\ UNCHANGED keys
    /\ UNCHANGED <<changes, port, queued, woken, toRead>>

\* _notifyset replaces the subscription and drops the recorded changes; the
\* client then reads every key it now watches.
NotifySet(c) ==
    /\ SessionRequest(c)
    /\ \E ks \in SUBSET Watchable, ps \in SUBSET Patterns :
         /\ keys' = [keys EXCEPT ![c] = ks]
         /\ patterns' = [patterns EXCEPT ![c] = ps]
         /\ toRead' = [toRead EXCEPT ![c] = ks \cup UNION {PatternKeys[p] : p \in ps}]
    /\ changes' = [changes EXCEPT ![c] = {}]
    /\ UNCHANGED <<port, queued, woken>>

\* _notifyviaport adds the client's port, and sends nothing for changes that
\* are already recorded; the client then reads every key it watches.
NotifyViaPort(c) ==
    /\ SessionRequest(c)
    /\ port' = [port EXCEPT ![c] = TRUE]
    /\ toRead' = [toRead EXCEPT ![c] = @ \cup Watched(c)]
    /\ UNCHANGED <<keys, patterns, changes, queued, woken>>

\* _notifycancel
NotifyCancel(c) ==
    /\ SessionRequest(c)
    /\ keys' = [keys EXCEPT ![c] = {}]
    /\ patterns' = [patterns EXCEPT ![c] = {}]
    /\ changes' = [changes EXCEPT ![c] = {}]
    /\ port' = [port EXCEPT ![c] = FALSE]
    /\ toRead' = [toRead EXCEPT ![c] = {}]
    /\ UNCHANGED <<queued, woken>>

\* Faulty variant: the changes are cleared before they are copied out.
NotifyChangesCleared(c) ==
    /\ SessionRequest(c)
    /\ woken[c]
    /\ woken' = [woken EXCEPT ![c] = FALSE]
    /\ changes' = [changes EXCEPT ![c] = {}]
    /\ UNCHANGED <<keys, patterns, port, queued, toRead>>

\* _notifychanges returns the recorded changes and clears them; the client
\* then reads the keys it got.
NotifyChanges(c) ==
    /\ SessionRequest(c)
    /\ woken[c]
    /\ woken' = [woken EXCEPT ![c] = FALSE]
    /\ toRead' = [toRead EXCEPT ![c] = @ \cup changes[c]]
    /\ changes' = [changes EXCEPT ![c] = {}]
    /\ UNCHANGED <<keys, patterns, port, queued>>

\* The client receives a message on its port.
Receive(c) ==
    /\ queued[c] > 0
    /\ ~woken[c]
    /\ queued' = [queued EXCEPT ![c] = @ - 1]
    /\ woken' = [woken EXCEPT ![c] = TRUE]
    /\ UNCHANGED <<storeVars, upVars, sessionVars, todo, route, address, toRead, seen>>

\* DHCP, or the boot scripts, gave an interface an address.
AssignAddress ==
    /\ address = None
    /\ address' \in Interfaces
    /\ UNCHANGED <<storeVars, upVars, sessionVars, queued, todo, route, clientVars>>

-----------------------------------------------------------------------------
Client(c) == NotifyChanges(c) \/ Receive(c) \/ ConfigGet(c) \/ ConfigGetMultiple(c)

Next ==
    \/ \E t \in Threads : Section(t)
    \/ ConfigSet \/ ConfigAdd \/ ConfigRemove \/ ConfigSetMultiple \/ ConfigList
    \/ \E t \in Callers : StoreSetValue(t) \/ StoreSetMultiple(t)
    \/ \E c \in Sessions :
         \/ ConfigOpen(c) \/ NotifyAdd(c) \/ NotifyRemove(c) \/ NotifySet(c)
         \/ NotifyViaPort(c) \/ NotifyCancel(c) \/ Client(c)
    \/ AssignAddress

Spec == Init /\ [][Next]_vars

\* Threads are scheduled; a client takes its messages, and a request that it
\* has sent waits in the port set's FIFO queue until the server takes it.
Fairness ==
    /\ \A t \in Threads : WF_vars(Section(t))
    /\ \A c \in Sessions : /\ WF_vars(Receive(c))
                           /\ SF_vars(NotifyChanges(c))
                           /\ SF_vars(ConfigGetMultiple(c))

LiveSpec == Spec /\ Fairness

-----------------------------------------------------------------------------
(* Properties                                                              *)

\* Every variable keeps its shape; in particular a port's queue never holds
\* more than QLimit messages.
TypeOK ==
    /\ store \in [Key -> Value \cup {Absent}]
    /\ instance \in Nat
    /\ published \in BOOLEAN
    /\ notified \in BOOLEAN
    /\ opened \subseteq Sessions
    /\ keys \in [Sessions -> SUBSET Key]
    /\ patterns \in [Sessions -> SUBSET Patterns]
    /\ changes \in [Sessions -> SUBSET Key]
    /\ port \in [Sessions -> BOOLEAN]
    /\ queued \in [Sessions -> 0..QLimit]
    /\ todo \in [Threads -> Seq(Item)]
    /\ signals \in Nat
    /\ route \in Routers \cup {None}
    /\ address \in Interfaces \cup {None}
    /\ woken \in [Sessions -> BOOLEAN]
    /\ toRead \in [Sessions -> SUBSET Key]
    /\ seen \in [Sessions -> SUBSET Key]

\* Some handler has still to notify the sessions of a change of k.
PendingIn(lists, k) ==
    \E t \in Threads : \E i \in DOMAIN lists[t] : lists[t][i] = NotifyItem(k)

\* A client whose port is registered never misses a change of a key it
\* watches: as long as it has not read the present value, a handler is still
\* to notify it, or the key is recorded in session->changes with a wake-up on
\* its way, or it is about to read the key.  (set_value_for_key, _configadd,
\* _configremove, notify_store_key_changed, _notifychanges.)
NoLostChange ==
    \A c \in Sessions : \A k \in Watched(c) :
        (port[c] /\ k \notin seen[c]) =>
            \/ PendingIn(todo, k)
            \/ k \in toRead[c]
            \/ k \in changes[c] /\ (queued[c] > 0 \/ woken[c])

\* A client keeps catching up: again and again it has read the present value
\* of every key it watches, once the bounded number of writes is over.
EventuallySeen ==
    \A c \in Sessions : []<>(port[c] => Watched(c) \subseteq seen[c])

\* The Global IPv4 entity never names a primary interface whose own IPv4 entity
\* is not stored: publish_global_network_state_from_service and the lazy
\* publication store the interface's first, and no interleaving of a derivation
\* with the other thread's requests undoes it.  When no handler is running, the
\* two entities also give the same router, but for one case: the interface's
\* entity is the lazy publication's, which holds none.
GlobalMatchesInterface ==
    store[GlobalIPv4].type = "global" =>
        LET g == store[GlobalIPv4]
            v == store[InterfaceIPv4(g.iface)]
        IN  /\ v.type = "ipv4" /\ v.iface = g.iface
            /\ (\A t \in Threads : Idle(t)) =>
                  \/ v.router = g.router
                  \/ published /\ g.iface = address /\ v.router = None

\* launchd is told that the network is up at most once by each thread, the test
\* of g_launchd_network_up_notified being unlocked, and only when the store
\* already shows why: a Global IPv4 entity or an active link.
NetworkUpIsJustified ==
    [][signals' # signals =>
          /\ signals < Cardinality(Threads)
          /\ \/ store[GlobalIPv4] # Absent
             \/ \E i \in Interfaces :
                  store[InterfaceLink(i)] = [type |-> "link", active |-> TRUE]]_vars

\* Once the store has a Global IPv4 entity, derived from a service or published
\* by a read request, launchd comes to be told, whichever thread finds
\* g_launchd_network_up_notified clear.
NetworkUpIsTold == store[GlobalIPv4] # Absent ~> signals > 0

\* The Global IPv4 entity is one a service's IPv4 dictionary gives.
DerivedGlobal(st) ==
    \E s \in Services :
        \E v \in {st[ServiceIPv4(s)]} \cup
                {p.ipv4 : p \in {st[PluginService(s)]} \cap PluginValue} :
            /\ v.type = "ipv4"
            /\ st[GlobalIPv4] = [type |-> "global", iface |-> v.iface, service |-> s,
                                router |-> v.router]

\* The lazy publication of refresh_network_state_if_needed may replace what was
\* derived from a service once; from then on only a service's dictionary
\* replaces the Global IPv4 entity, and no later read brings the built-in one
\* back.
GlobalStaysDerived ==
    [][published /\ store'[GlobalIPv4] # store[GlobalIPv4] => DerivedGlobal(store')]_vars

=============================================================================
