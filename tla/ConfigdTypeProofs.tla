------------------------- MODULE ConfigdTypeProofs -------------------------
(* Proof that every step of Configd keeps its variables well typed, with    *)
(* the lemmas about what its operators return.                              *)
EXTENDS Configd, TLAPS

-----------------------------------------------------------------------------
(* Sequences                                                               *)

LEMMA HeadTailProperties ==
    ASSUME NEW S, NEW s \in Seq(S), s # << >>
    PROVE  Head(s) \in S /\ Tail(s) \in Seq(S)
  OBVIOUS

LEMMA ConcatProperties ==
    ASSUME NEW S, NEW s \in Seq(S), NEW t \in Seq(S)
    PROVE  s \o t \in Seq(S)
  OBVIOUS

-----------------------------------------------------------------------------
(* Sections                                                                *)

\* What a handler puts on its list is a section.
LEMMA ItemTypes ==
    /\ \A k \in Key, v \in Value :
         SetItem(k, v) \in Item /\ AddItem(k, v) \in Item /\ RouteItem(k, v) \in Item
    /\ \A k \in Key : RemoveItem(k) \in Item /\ DeleteItem(k) \in Item /\ NotifyItem(k) \in Item
    /\ \A e \in Entry, p \in Seq(Entry) : PublishItem(e, p) \in Item
    /\ \A c \in Sessions, ks \in SUBSET Key : GetItem(c, ks) \in Item
    /\ \A c \in Sessions : OpenItem(c) \in Item
    /\ UpItem \in Item /\ RaiseItem \in Item /\ RefreshItem \in Item
  BY DEF SetItem, AddItem, RouteItem, RemoveItem, DeleteItem, NotifyItem, PublishItem,
         GetItem, OpenItem, UpItem, RaiseItem, RefreshItem, Item

\* The fields a section has, by its operation.
LEMMA ItemFields ==
    ASSUME NEW x \in Item
    PROVE  /\ x.op \in {"set", "add", "route"} => x.key \in Key /\ x.val \in Value
           /\ x.op \in {"remove", "delete", "notify"} => x.key \in Key
           /\ x.op = "publish" => x.entry \in Entry /\ x.pending \in Seq(Entry)
           /\ x.op = "get" => x.session \in Sessions /\ x.keys \in SUBSET Key
           /\ x.op = "open" => x.session \in Sessions
  BY DEF Item

\* The first section of a running thread is a section, and so is the rest.
LEMMA RunningType ==
    ASSUME TypeOK, NEW t \in Threads, NEW op, Running(t, op)
    PROVE  Head(todo[t]) \in Item /\ Tail(todo[t]) \in Seq(Item)
  <1>1. todo[t] \in Seq(Item) /\ todo[t] # << >>
    BY DEF TypeOK, Running
  <1> QED BY <1>1, HeadTailProperties

\* Replacing the first section by others keeps the list well typed.
LEMMA ContinueType ==
    ASSUME TypeOK, NEW t \in Threads, NEW op, Running(t, op),
           NEW items \in Seq(Item), Continue(t, items)
    PROVE  todo' \in [Threads -> Seq(Item)]
  <1>1. Tail(todo[t]) \in Seq(Item)
    BY RunningType
  <1>2. items \o Tail(todo[t]) \in Seq(Item)
    BY <1>1, ConcatProperties
  <1> QED BY <1>2 DEF TypeOK, Continue

\* Lists of no, one, two and three sections.
LEMMA SmallLists ==
    /\ << >> \in Seq(Item)
    /\ \A x \in Item : <<x>> \in Seq(Item)
    /\ \A x, y \in Item : <<x, y>> \in Seq(Item)
    /\ \A x, y, z \in Item : <<x, y, z>> \in Seq(Item)
  OBVIOUS

-----------------------------------------------------------------------------
(* What the operators return                                               *)

LEMMA SpecialKeys ==
    /\ \A s \in Services : /\ ServiceIPv4(s) \in Key /\ ServiceDNS(s) \in Key
                           /\ PluginService(s) \in Key
    /\ \A i \in Interfaces : InterfaceIPv4(i) \in Key /\ InterfaceLink(i) \in Key
    /\ GlobalIPv4 \in Key /\ GlobalDNS \in Key
  BY DEF Key

\* A value is told apart by its type.
LEMMA ValueTypes ==
    ASSUME NEW v \in Value \cup {Absent}
    PROVE  /\ v.type = "ipv4" => v \in IPv4Value
           /\ v.type = "plugin" => v \in PluginValue
           /\ v.type \notin {"absent", "opaque"} => v \in Value
  BY DEF Value, IPv4Value, DNSValue, GlobalValue, PluginValue, LinkValue, ListValue,
         SetupValue, OrderValue, Opaque, Absent

LEMMA LoadedPreferencesType ==
    ASSUME NEW p \in Preference
    PROVE  LoadedPreferences(p) \in [Key -> Value \cup {Absent}]
  <1>1. [type |-> "setup", origin |-> "preferences"] \in Value
    BY DEF Value, SetupValue
  <1>2. \A o \in SUBSET Services : [type |-> "order", order |-> o] \in Value
    BY DEF Value, OrderValue
  <1>3. (IF p.order = None THEN p.services ELSE p.order) \in SUBSET Services
    BY DEF Preference
  <1> QED BY <1>1, <1>2, <1>3 DEF LoadedPreferences

LEMMA InternalPublicationType ==
    ASSUME NEW st \in [Key -> Value \cup {Absent}], NEW i \in Interfaces
    PROVE  InternalPublication(st, i) \in [Key -> Value \cup {Absent}]
  <1> DEFINE s == InternalService[i]
  <1>0. s \in Services /\ DefaultRouter \in Routers /\ DefaultResolver \in Resolvers
    BY ConfigdAssumption
  <1>1. [type |-> "ipv4", iface |-> i, router |-> None] \in Value
    BY DEF Value, IPv4Value
  <1>2. [type |-> "global", iface |-> i, service |-> s, router |-> DefaultRouter] \in Value
    BY <1>0 DEF Value, GlobalValue
  <1>3. [type |-> "dns", server |-> DefaultResolver] \in Value
    BY <1>0 DEF Value, DNSValue
  <1>4. [type |-> "setup", origin |-> "builtin"] \in Value
    BY DEF Value, SetupValue
  <1>5. [type |-> "order", order |-> {s}] \in Value
    BY <1>0 DEF Value, OrderValue
  <1>6. [type |-> "list", ifaces |-> {i}] \in Value
    BY DEF Value, ListValue
  <1> QED BY Zenon, <1>1, <1>2, <1>3, <1>4, <1>5, <1>6 DEF InternalPublication

LEMMA FromServiceType ==
    ASSUME NEW s \in Services, NEW ipv4 \in Value \cup {Absent}, NEW dns \in Value \cup {Absent}
    PROVE  FromService(s, ipv4, dns) \in Seq(Item)
  <1>1. CASE ipv4.type # "ipv4" \/ ipv4.iface = None
    BY <1>1, SmallLists DEF FromService
  <1>2. CASE ipv4.type = "ipv4" /\ ipv4.iface # None
    <2> DEFINE g == [type |-> "global", iface |-> ipv4.iface, service |-> s,
                     router |-> ipv4.router]
               first == <<SetItem(InterfaceIPv4(ipv4.iface), ipv4), SetItem(GlobalIPv4, g), UpItem>>
               last == IF IsDictionary(dns) THEN <<SetItem(GlobalDNS, dns)>> ELSE << >>
    <2>1. ipv4 \in IPv4Value /\ ipv4.iface \in Interfaces /\ ipv4.router \in Routers \cup {None}
      BY <1>2, ValueTypes DEF IPv4Value
    <2>2. ipv4 \in Value /\ g \in Value
      BY <2>1 DEF Value, GlobalValue
    <2>3. first \in Seq(Item)
      <3>1. /\ SetItem(InterfaceIPv4(ipv4.iface), ipv4) \in Item
            /\ SetItem(GlobalIPv4, g) \in Item
            /\ UpItem \in Item
        BY <2>1, <2>2, SpecialKeys, ItemTypes
      <3> QED BY <3>1, SmallLists
    <2>4. last \in Seq(Item)
      <3>1. CASE IsDictionary(dns)
        <4>1. dns \in Value
          BY <3>1, ValueTypes DEF IsDictionary
        <4> QED BY <3>1, <4>1, SpecialKeys, ItemTypes, SmallLists
      <3>2. CASE ~IsDictionary(dns)
        BY <3>2, SmallLists
      <3> QED BY <3>1, <3>2
    <2>5. first \o last \in Seq(Item)
      BY <2>3, <2>4, ConcatProperties
    <2> QED BY <2>5, <1>2 DEF FromService
  <1> QED BY <1>1, <1>2

LEMMA PublicationType ==
    ASSUME TypeOK, NEW k \in Key, NEW v \in Value, NEW pending \in Seq(Entry)
    PROVE  PublicationOf(k, v, pending) \in Seq(Item)
  <1>1. \A x \in Key : PendingOrStored(pending, x) \in Value \cup {Absent}
    <2> SUFFICES ASSUME NEW x \in Key
                 PROVE  PendingOrStored(pending, x) \in Value \cup {Absent}
      OBVIOUS
    <2>1. \A i \in DOMAIN pending : pending[i][2] \in Value
      <3>1. \A i \in DOMAIN pending : pending[i] \in Entry
        OBVIOUS
      <3> QED BY <3>1 DEF Entry
    <2>2. store[x] \in Value \cup {Absent}
      BY DEF TypeOK
    <2> QED BY <2>1, <2>2 DEF PendingOrStored
  <1> DEFINE dict == PendingOrStored(pending, k)
             svc  == {s \in Services : k = ServiceIPv4(s)}
             plug == {s \in Services : k = PluginService(s)}
  <1>2. dict \in Value \cup {Absent}
    BY <1>1
  <1>3. <<UpItem>> \in Seq(Item) /\ << >> \in Seq(Item)
    BY ItemTypes, SmallLists
  <1>4. ASSUME svc # {}
        PROVE  LET s == CHOOSE s \in svc : TRUE
               IN  FromService(s, v, PendingOrStored(pending, ServiceDNS(s))) \in Seq(Item)
    <2> DEFINE s == CHOOSE s \in svc : TRUE
    <2>1. s \in svc
      BY Zenon, <1>4
    <2>2. s \in Services
      BY Zenon, <2>1
    <2>3. PendingOrStored(pending, ServiceDNS(s)) \in Value \cup {Absent}
      BY <1>1, <2>2, SpecialKeys
    <2> HIDE DEF s
    <2> QED BY <2>2, <2>3, FromServiceType DEF s
  <1>5. ASSUME plug # {}, dict.type = "plugin"
        PROVE  FromService(CHOOSE s \in plug : TRUE, dict.ipv4, dict.dns) \in Seq(Item)
    <2>1. dict \in PluginValue
      BY <1>2, <1>5, ValueTypes
    <2>2. dict.ipv4 \in Value \cup {Absent} /\ dict.dns \in Value \cup {Absent}
      BY <2>1 DEF PluginValue, Value
    <2>3. (CHOOSE s \in plug : TRUE) \in Services
      BY <1>5
    <2> QED BY Zenon, <2>2, <2>3, FromServiceType
  <1> QED BY <1>3, <1>4, <1>5 DEF PublicationOf

\* The sections of a multiple-key update.
LEMMA BatchType ==
    ASSUME NEW b \in Batches \cup StoreBatches
    PROVE  /\ BatchItems(b) \in Seq(Item)
           /\ SetItems(b) \o PublishItems(b) \in Seq(Item)
  <1>1. b.set \in Seq(Entry) /\ b.remove \in Seq(Key) /\ b.notify \in Seq(Key)
    BY ConfigdAssumption DEF Batch
  <1>2. \A i \in DOMAIN b.set : b.set[i] \in Entry /\ b.set[i][1] \in Key /\ b.set[i][2] \in Value
    <2>1. \A i \in DOMAIN b.set : b.set[i] \in Entry
      BY <1>1
    <2> QED BY <2>1 DEF Entry
  <1>3. SetItems(b) \in Seq(Item)
    <2>1. \A i \in 1..Len(b.set) : SetItem(b.set[i][1], b.set[i][2]) \in Item
      BY <1>1, <1>2, ItemTypes
    <2>2. Len(b.set) \in Nat /\ DOMAIN b.set = 1..Len(b.set)
      BY <1>1
    <2> QED BY <2>1, <2>2 DEF SetItems
  <1>4. PublishItems(b) \in Seq(Item)
    <2>1. \A i \in 1..Len(b.set) : PublishItem(b.set[i], b.set) \in Item
      BY <1>1, <1>2, ItemTypes, SMTT(30)
    <2>2. Len(b.set) \in Nat /\ DOMAIN b.set = 1..Len(b.set)
      BY <1>1
    <2> QED BY <2>1, <2>2 DEF PublishItems
  <1>5. RemoveItems(b) \in Seq(Item) /\ NotifyItems(b) \in Seq(Item)
    <2>1. /\ \A i \in 1..Len(b.remove) : RemoveItem(b.remove[i]) \in Item
          /\ \A i \in 1..Len(b.notify) : NotifyItem(b.notify[i]) \in Item
      BY <1>1, ItemTypes
    <2>2. /\ Len(b.remove) \in Nat /\ DOMAIN b.remove = 1..Len(b.remove)
          /\ Len(b.notify) \in Nat /\ DOMAIN b.notify = 1..Len(b.notify)
      BY <1>1
    <2> QED BY <2>1, <2>2 DEF RemoveItems, NotifyItems
  <1> QED BY <1>3, <1>4, <1>5, ConcatProperties DEF BatchItems

-----------------------------------------------------------------------------
(* Type correctness                                                        *)

LEMMA InitType == Init => TypeOK
  <1> SUFFICES ASSUME Init PROVE TypeOK
    OBVIOUS
  <1>1. PICK p \in Preferences :
          LET loaded == LoadedPreferences(p)
              n      == IF p.services = {} THEN 0 ELSE 1
          IN  IF InternalState /\ address # None
              THEN /\ store = InternalPublication(loaded, address)
                   /\ instance = n + 1
                   /\ published = TRUE
                   /\ notified = TRUE
                   /\ signals = 1
              ELSE /\ store = loaded
                   /\ instance = n
                   /\ published = FALSE
                   /\ notified = FALSE
                   /\ signals = 0
    BY DEF Init
  <1>2. LoadedPreferences(p) \in [Key -> Value \cup {Absent}]
    BY ZenonT(30), ConfigdAssumption, LoadedPreferencesType
  <1>3. address # None => InternalPublication(LoadedPreferences(p), address)
                            \in [Key -> Value \cup {Absent}]
    BY <1>2, InternalPublicationType DEF Init
  <1>4. /\ store \in [Key -> Value \cup {Absent}]
        /\ instance \in Nat /\ published \in BOOLEAN /\ notified \in BOOLEAN /\ signals \in Nat
    <2>1. CASE InternalState /\ address # None
      <3>1. /\ store = InternalPublication(LoadedPreferences(p), address)
            /\ instance \in {1, 2} /\ published = TRUE /\ notified = TRUE /\ signals = 1
        BY <1>1, <2>1, SMTT(30)
      <3>2. InternalPublication(LoadedPreferences(p), address) \in [Key -> Value \cup {Absent}]
        BY <1>3, <2>1
      <3> HIDE DEF InternalPublication
      <3> QED BY <3>1, <3>2
    <2>2. CASE ~(InternalState /\ address # None)
      <3>1. /\ store = LoadedPreferences(p)
            /\ instance \in {0, 1} /\ published = FALSE /\ notified = FALSE /\ signals = 0
        BY <1>1, <2>2
      <3>2. instance \in Nat /\ signals \in Nat
        BY <3>1
      <3> QED BY <1>2, <3>1, <3>2, Zenon
    <2> QED BY <2>1, <2>2
  <1> QED BY <1>4, ConfigdAssumption, SmallLists, SMTT(30) DEF Init, TypeOK

\* Sections that write the store at one key.
LEMMA WriteType ==
    ASSUME TypeOK, NEW t \in Threads,
           SetValue(t) \/ AddValue(t) \/ RemoveValue(t) \/ DeleteValue(t)
    PROVE  TypeOK'
  <1> DEFINE h == Head(todo[t])
  <1>0. /\ store \in [Key -> Value \cup {Absent}]
        /\ instance \in Nat
        /\ seen \in [Sessions -> SUBSET Key]
    BY DEF TypeOK
  <1>w. ASSUME NEW k \in Key, NEW v \in Value \cup {Absent}
        PROVE  /\ [store EXCEPT ![k] = v] \in [Key -> Value \cup {Absent}]
               /\ instance + 1 \in Nat
               /\ Forget({k}) => seen' \in [Sessions -> SUBSET Key]
    <2>1. [store EXCEPT ![k] = v] \in [Key -> Value \cup {Absent}]
      BY <1>0
    <2>2. instance + 1 \in Nat
      BY <1>0
    <2>3. Forget({k}) => seen' \in [Sessions -> SUBSET Key]
      BY <1>0 DEF Forget
    <2> QED BY <2>1, <2>2, <2>3
  <1>1. ASSUME SetValue(t) \/ AddValue(t) PROVE TypeOK'
    <2>0. Running(t, "set") \/ Running(t, "add")
      BY <1>1 DEF SetValue, AddValue
    <2>1. h \in Item /\ h.key \in Key /\ h.val \in Value
      BY <2>0, RunningType, ItemFields DEF Running
    <2>2. <<RouteItem(h.key, h.val), NotifyItem(h.key)>> \in Seq(Item) /\ << >> \in Seq(Item)
      BY <2>1, ItemTypes, SmallLists
    <2>3. todo' \in [Threads -> Seq(Item)]
      BY Zenon, <1>1, <2>0, <2>2, ContinueType DEF SetValue, AddValue
    <2>4. /\ store' \in [Key -> Value \cup {Absent}]
          /\ instance' \in Nat
          /\ seen' \in [Sessions -> SUBSET Key]
      <3>1. CASE SetValue(t)
        BY Zenon, <3>1, <2>1, <1>w DEF SetValue
      <3>2. CASE AddValue(t)
        <4>1. CASE store[h.key] = Absent
          BY ZenonT(60), <3>2, <4>1, <2>1, <1>w DEF AddValue
        <4>2. CASE store[h.key] # Absent
          BY Zenon, <3>2, <4>2, <1>0 DEF AddValue
        <4> QED BY Zenon, <4>1, <4>2
      <3> QED BY Zenon, <1>1, <3>1, <3>2
    <2>5. UNCHANGED <<published, notified, signals, opened, keys, patterns, changes, port,
                      queued, route, address, woken, toRead>>
      BY Zenon, <1>1 DEF SetValue, AddValue, upVars, sessionVars
    <2> QED BY Zenon, <2>3, <2>4, <2>5 DEF TypeOK
  <1>2. ASSUME RemoveValue(t) \/ DeleteValue(t) PROVE TypeOK'
    <2>0. Running(t, "remove") \/ Running(t, "delete")
      BY Zenon, <1>2 DEF RemoveValue, DeleteValue
    <2>1. h \in Item /\ h.key \in Key
      BY <2>0, RunningType, ItemFields DEF Running
    <2>2. <<NotifyItem(h.key)>> \in Seq(Item) /\ << >> \in Seq(Item)
      BY <2>1, ItemTypes, SmallLists
    <2>3. todo' \in [Threads -> Seq(Item)]
      BY Zenon, <1>2, <2>0, <2>2, ContinueType DEF RemoveValue, DeleteValue
    <2>4. /\ store' \in [Key -> Value \cup {Absent}]
          /\ instance' \in Nat
          /\ seen' \in [Sessions -> SUBSET Key]
      <3>1. CASE RemoveValue(t)
        BY Zenon, <3>1, <2>1, <1>w DEF RemoveValue
      <3>2. CASE DeleteValue(t)
        <4>1. CASE store[h.key] = Absent
          BY <3>2, <4>1, <1>0 DEF DeleteValue
        <4>2. CASE store[h.key] # Absent
          <5>1. /\ store' = [store EXCEPT ![h.key] = Absent]
                /\ instance' = instance + 1
                /\ Forget({h.key})
            BY Zenon, <3>2, <4>2 DEF DeleteValue
          <5> QED BY Zenon, <5>1, <2>1, <1>w
        <4> QED BY <4>1, <4>2
      <3> QED BY <1>2, <3>1, <3>2
    <2>5. UNCHANGED <<published, notified, signals, opened, keys, patterns, changes, port,
                      queued, route, address, woken, toRead>>
      BY Zenon, <1>2 DEF RemoveValue, DeleteValue, upVars, sessionVars
    <2> QED BY <2>3, <2>4, <2>5 DEF TypeOK
  <1> QED BY <1>1, <1>2

LEMMA SectionType ==
    ASSUME TypeOK, NEW t \in Threads, Section(t)
    PROVE  TypeOK'
  <1> DEFINE h == Head(todo[t])
  <1>0. << >> \in Seq(Item) /\ <<UpItem>> \in Seq(Item) /\ <<RaiseItem>> \in Seq(Item)
    BY ItemTypes, SmallLists
  <1>1. CASE SetValue(t) \/ AddValue(t) \/ RemoveValue(t) \/ DeleteValue(t)
    BY <1>1, WriteType
  <1>2. CASE ApplyRoute(t)
    <2>1. Running(t, "route") /\ todo' \in [Threads -> Seq(Item)]
      BY Zenon, <1>0, <1>2, ContinueType DEF ApplyRoute
    <2>2. h \in Item /\ h.val \in Value
      BY <2>1, RunningType, ItemFields DEF Running
    <2>3. h.val.type = "ipv4" => h.val.router \in Routers \cup {None}
      BY <2>2, ValueTypes DEF IPv4Value
    <2>4. route' \in Routers \cup {None}
      BY Zenon, <1>2, <2>3 DEF ApplyRoute, TypeOK
    <2> QED BY <1>2, <2>1, <2>4
            DEF ApplyRoute, TypeOK, storeVars, upVars, sessionVars, clientVars
  <1>3. CASE NotifyKeyChanged(t)
    <2>1. Running(t, "notify") /\ todo' \in [Threads -> Seq(Item)]
      BY Zenon, <1>0, <1>3, ContinueType DEF NotifyKeyChanged
    <2>2. h \in Item /\ h.key \in Key
      BY <2>1, RunningType, ItemFields DEF Running
    <2>3. \A n \in 0..QLimit : Send(n) \in 0..QLimit
      BY ConfigdAssumption DEF Send
    <2>4. changes' \in [Sessions -> SUBSET Key] /\ queued' \in [Sessions -> 0..QLimit]
      BY Zenon, <1>3, <2>2, <2>3 DEF NotifyKeyChanged, TypeOK
    <2> QED BY <1>3, <2>1, <2>4
            DEF NotifyKeyChanged, TypeOK, storeVars, upVars, clientVars
  <1>4. CASE PublishGlobal(t)
    <2>1. Running(t, "publish")
      BY <1>4 DEF PublishGlobal
    <2>2. h \in Item /\ h.entry \in Entry /\ h.pending \in Seq(Entry)
      BY <2>1, RunningType, ItemFields DEF Running
    <2>3. PublicationOf(h.entry[1], h.entry[2], h.pending) \in Seq(Item)
      BY <2>2, PublicationType DEF Entry
    <2>4. todo' \in [Threads -> Seq(Item)]
      BY <1>4, <2>1, <2>3, ContinueType DEF PublishGlobal
    <2> QED BY <1>4, <2>4
            DEF PublishGlobal, TypeOK, storeVars, upVars, sessionVars, clientVars
  <1>5. CASE NetworkUp(t)
    <2>1. todo' \in [Threads -> Seq(Item)]
      BY Zenon, <1>0, <1>5, ContinueType DEF NetworkUp
    <2> QED BY <1>5, <2>1 DEF NetworkUp, TypeOK, storeVars, upVars, sessionVars, clientVars
  <1>6. CASE SignalLaunchd(t)
    <2>1. todo' \in [Threads -> Seq(Item)]
      BY Zenon, <1>0, <1>6, ContinueType DEF SignalLaunchd
    <2> QED BY <1>6, <2>1, SMTT(30) DEF SignalLaunchd, TypeOK, storeVars, sessionVars, clientVars
  <1>7. CASE RefreshNetworkState(t)
    <2>1. todo' \in [Threads -> Seq(Item)]
      BY Zenon, <1>0, <1>7, ContinueType DEF RefreshNetworkState
    <2>2. address # None => InternalPublication(store, address) \in [Key -> Value \cup {Absent}]
      BY Zenon, InternalPublicationType DEF TypeOK
    <2>3. /\ store' \in [Key -> Value \cup {Absent}]
          /\ instance' \in Nat
          /\ seen' \in [Sessions -> SUBSET Key]
      BY <1>7, <2>2, SMTT(30) DEF RefreshNetworkState, TypeOK, Forget, storeVars
    <2>4. published' \in BOOLEAN
      BY <1>7, Zenon DEF RefreshNetworkState, TypeOK, storeVars
    <2>5. UNCHANGED <<notified, signals, opened, keys, patterns, changes, port, queued,
                      route, address, woken, toRead>>
      BY Zenon, <1>7 DEF RefreshNetworkState, upVars, sessionVars
    <2> QED BY <2>1, <2>3, <2>4, <2>5 DEF TypeOK
  <1>8. CASE ReadValues(t)
    <2>1. Running(t, "get") /\ todo' \in [Threads -> Seq(Item)]
      BY Zenon, <1>0, <1>8, ContinueType DEF ReadValues
    <2>2. h \in Item /\ h.session \in Sessions /\ h.keys \in SUBSET Key
      BY ZenonT(30), <2>1, RunningType, ItemFields DEF Running
    <2> QED BY Zenon, <1>8, <2>1, <2>2 DEF ReadValues, TypeOK, storeVars, upVars, sessionVars
  <1>9. CASE CreateSession(t)
    <2>1. Running(t, "open") /\ todo' \in [Threads -> Seq(Item)]
      BY Zenon, <1>0, <1>9, ContinueType DEF CreateSession
    <2>2. h \in Item /\ h.session \in Sessions
      BY <2>1, RunningType, ItemFields DEF Running
    <2> QED BY <1>9, <2>1, <2>2 DEF CreateSession, TypeOK, storeVars, upVars, clientVars
  <1> QED BY <1>1, <1>2, <1>3, <1>4, <1>5, <1>6, <1>7, <1>8, <1>9 DEF Section

\* The steps that start a handler.
Request ==
    \/ ConfigSet \/ ConfigAdd \/ ConfigRemove \/ ConfigSetMultiple \/ ConfigList
    \/ \E t \in Callers : StoreSetValue(t) \/ StoreSetMultiple(t)
    \/ \E c \in Sessions : ConfigOpen(c) \/ ConfigGet(c) \/ ConfigGetMultiple(c)

\* Each of them puts a well-typed list on an idle thread and does nothing else.
LEMMA RequestStarts ==
    ASSUME TypeOK, Request
    PROVE  \E t \in Threads : \E items \in Seq(Item) : Start(t, items)
  <1>0. Server \in Threads /\ Callers \subseteq Threads
    BY DEF Threads
  <1>1. \A w \in Writes : /\ w[1] \in Key /\ w[2] \in Value
                          /\ <<SetItem(w[1], w[2])>> \in Seq(Item)
                          /\ <<AddItem(w[1], w[2])>> \in Seq(Item)
    BY ConfigdAssumption, ItemTypes, SmallLists DEF Entry
  <1>2. \A k \in Removals : <<DeleteItem(k)>> \in Seq(Item)
    BY ConfigdAssumption, ItemTypes, SmallLists
  <1>3. <<RefreshItem>> \in Seq(Item)
    BY ItemTypes, SmallLists
  <1>4. \A c \in Sessions : <<RefreshItem, OpenItem(c)>> \in Seq(Item)
    BY ItemTypes, SmallLists
  <1>5. \A c \in Sessions : \A ks \in SUBSET Key : <<RefreshItem, GetItem(c, ks)>> \in Seq(Item)
    BY ItemTypes, SmallLists
  <1>6. CASE ConfigSet \/ ConfigAdd \/ ConfigRemove
    BY Zenon, <1>0, <1>1, <1>2, <1>6 DEF ConfigSet, ConfigAdd, ConfigRemove, StartWrite
  <1>7. CASE ConfigSetMultiple
    BY <1>0, <1>7, BatchType DEF ConfigSetMultiple, StartWrite
  <1>8. CASE ConfigList
    BY Zenon, <1>0, <1>3, <1>8 DEF ConfigList
  <1>9. ASSUME NEW t \in Callers, StoreSetValue(t) \/ StoreSetMultiple(t)
        PROVE  \E items \in Seq(Item) : Start(t, items)
    BY Zenon, <1>1, <1>9, BatchType DEF StoreSetValue, StoreSetMultiple, StartWrite
  <1>10. ASSUME NEW c \in Sessions, ConfigOpen(c) \/ ConfigGet(c) \/ ConfigGetMultiple(c)
         PROVE  \E items \in Seq(Item) : Start(Server, items)
    <2>1. toRead[c] \in SUBSET Key /\ \A k \in toRead[c] : {k} \in SUBSET Key
      BY DEF TypeOK
    <2> QED BY Zenon, <1>3, <1>4, <1>5, <1>10, <2>1 DEF ConfigOpen, ConfigGet, ConfigGetMultiple
  <1> QED BY <1>0, <1>6, <1>7, <1>8, <1>9, <1>10 DEF Request

LEMMA RequestType ==
    ASSUME TypeOK, Request
    PROVE  TypeOK'
  <1>1. PICK t \in Threads, items \in Seq(Item) : Start(t, items)
    BY RequestStarts
  <1> QED BY <1>1 DEF Start, TypeOK, storeVars, upVars, sessionVars, clientVars

\* The notification requests and the steps of a client.
Notification(c) ==
    \/ NotifyAdd(c) \/ NotifyRemove(c) \/ NotifySet(c) \/ NotifyViaPort(c)
    \/ NotifyCancel(c) \/ NotifyChanges(c) \/ Receive(c)

LEMMA NotificationType ==
    ASSUME TypeOK, NEW c \in Sessions, Notification(c)
    PROVE  TypeOK'
  <1> USE DEF storeVars, upVars, sessionVars, SessionRequest
  <1>0. /\ \A p \in Patterns : PatternKeys[p] \in SUBSET Key
        /\ Watchable \in SUBSET Key
    BY ConfigdAssumption
  <1>t. /\ keys \in [Sessions -> SUBSET Key]
        /\ patterns \in [Sessions -> SUBSET Patterns]
        /\ toRead \in [Sessions -> SUBSET Key]
    BY DEF TypeOK
  <1>1. CASE NotifyAdd(c)
    <2>0. UNCHANGED <<store, instance, published, notified, signals, opened, changes, port,
                      queued, todo, route, address, woken, seen>>
      BY ZenonT(30), <1>1 DEF NotifyAdd
    <2>1. /\ keys' \in [Sessions -> SUBSET Key]
          /\ patterns' \in [Sessions -> SUBSET Patterns]
          /\ toRead' \in [Sessions -> SUBSET Key]
      <3>1. CASE \E k \in Watchable : /\ keys' = [keys EXCEPT ![c] = @ \cup {k}]
                                      /\ toRead' = [toRead EXCEPT ![c] = @ \cup {k}]
                                      /\ UNCHANGED patterns
        BY <1>0, <1>t, <3>1, SMTT(30)
      <3>2. CASE \E p \in Patterns : /\ patterns' = [patterns EXCEPT ![c] = @ \cup {p}]
                                     /\ toRead' = [toRead EXCEPT ![c] = @ \cup PatternKeys[p]]
                                     /\ UNCHANGED keys
        BY <1>0, <1>t, <3>2
      <3> QED BY Zenon, <1>1, <3>1, <3>2 DEF NotifyAdd
    <2> QED BY Zenon, <2>0, <2>1 DEF TypeOK
  <1>2. CASE NotifyRemove(c)
    <2>0. UNCHANGED <<store, instance, published, notified, signals, opened, changes, port,
                      queued, todo, route, address, woken, seen, toRead>>
      BY <1>2 DEF NotifyRemove
    <2>1. keys' \in [Sessions -> SUBSET Key] /\ patterns' \in [Sessions -> SUBSET Patterns]
      BY ZenonT(30), <1>2, <1>t DEF NotifyRemove
    <2> QED BY <2>0, <2>1 DEF TypeOK
  <1>3. CASE NotifySet(c)
    <2>0. UNCHANGED <<store, instance, published, notified, signals, opened, port, queued,
                      todo, route, address, woken, seen>>
      BY ZenonT(30), <1>3 DEF NotifySet
    <2>1. PICK ks \in SUBSET Watchable, ps \in SUBSET Patterns :
            /\ keys' = [keys EXCEPT ![c] = ks]
            /\ patterns' = [patterns EXCEPT ![c] = ps]
            /\ toRead' = [toRead EXCEPT ![c] = ks \cup UNION {PatternKeys[p] : p \in ps}]
      BY Zenon, <1>3 DEF NotifySet
    <2>2. ks \in SUBSET Key /\ ks \cup UNION {PatternKeys[p] : p \in ps} \in SUBSET Key
      BY ONLY <1>0, ks \in SUBSET Watchable, ps \in SUBSET Patterns
    <2>3. keys' \in [Sessions -> SUBSET Key] /\ patterns' \in [Sessions -> SUBSET Patterns]
      BY ONLY <1>t, <2>1, <2>2, ps \in SUBSET Patterns
    <2>4. toRead' \in [Sessions -> SUBSET Key]
      <3> DEFINE rs == ks \cup UNION {PatternKeys[p] : p \in ps}
      <3>1. rs \in SUBSET Key /\ toRead' = [toRead EXCEPT ![c] = rs]
        BY ONLY <2>1, <2>2, Zenon
      <3> HIDE DEF rs
      <3> QED BY ONLY <1>t, <3>1
    <2>5. changes' \in [Sessions -> SUBSET Key]
      <3>1. changes \in [Sessions -> SUBSET Key] /\ changes' = [changes EXCEPT ![c] = {}]
        BY Zenon, <1>3 DEF NotifySet, TypeOK
      <3> QED BY ONLY <3>1
    <2> QED BY Zenon, <2>0, <2>3, <2>4, <2>5 DEF TypeOK
  <1>4. CASE NotifyViaPort(c)
    <2>1. Watched(c) \in SUBSET Key
      <3>1. keys[c] \in SUBSET Key /\ \A p \in patterns[c] : p \in Patterns
        BY <1>t
      <3> QED BY <1>0, <3>1 DEF Watched
    <2>2. UNCHANGED <<store, instance, published, notified, signals, opened, keys, patterns,
                      changes, queued, todo, route, address, woken, seen>>
      BY ZenonT(30), <1>4 DEF NotifyViaPort
    <2>3. /\ port \in [Sessions -> BOOLEAN] /\ port' = [port EXCEPT ![c] = TRUE]
          /\ toRead' = [toRead EXCEPT ![c] = @ \cup Watched(c)]
      BY Zenon, <1>4 DEF NotifyViaPort, TypeOK
    <2>4. port' \in [Sessions -> BOOLEAN]
      BY ONLY <2>3, Zenon
    <2>5. toRead' \in [Sessions -> SUBSET Key]
      BY ONLY <1>t, <2>1, <2>3
    <2> QED BY Zenon, <2>2, <2>4, <2>5 DEF TypeOK
  <1>5. CASE NotifyCancel(c)
    BY <1>5 DEF NotifyCancel, TypeOK
  <1>6. CASE NotifyChanges(c)
    BY <1>6 DEF NotifyChanges, TypeOK
  <1>7. CASE Receive(c)
    BY <1>7, ConfigdAssumption, SMTT(30) DEF Receive, TypeOK
  <1> QED BY <1>1, <1>2, <1>3, <1>4, <1>5, <1>6, <1>7 DEF Notification

LEMMA NextSplit ==
    Next <=> \/ \E t \in Threads : Section(t)
             \/ Request
             \/ \E c \in Sessions : Notification(c)
             \/ AssignAddress
  BY DEF Next, Request, Notification, Client

LEMMA StepType == TypeOK /\ [Next]_vars => TypeOK'
  <1> SUFFICES ASSUME TypeOK, [Next]_vars PROVE TypeOK'
    OBVIOUS
  <1>1. CASE Next
    <2>1. CASE AssignAddress
      BY <2>1 DEF AssignAddress, TypeOK, storeVars, upVars, sessionVars, clientVars
    <2> QED BY <1>1, <2>1, NextSplit, SectionType, RequestType, NotificationType
  <1>2. CASE UNCHANGED vars
    BY <1>2 DEF vars, TypeOK, storeVars, upVars, sessionVars, clientVars
  <1> QED BY <1>1, <1>2

\* configd's state keeps its shape whatever requests arrive and however the
\* threads interleave; no port queue exceeds its limit.
THEOREM TypeCorrect == Spec => []TypeOK
  BY InitType, StepType, PTL DEF Spec

=============================================================================
