--------------------------- MODULE ConfigdProofs ---------------------------
(* Proof that a watching client never loses a change while the internal    *)
(* publisher is off.                                                       *)
EXTENDS ConfigdTypeProofs

-----------------------------------------------------------------------------
(* No change is lost                                                       *)

\* A session that is not on the list watches nothing: notify_store_key_changed
\* walks the list, so it would not be told.
ClosedWatchesNothing ==
    \A c \in Sessions \ opened : keys[c] = {} /\ patterns[c] = {}

\* A notification a thread has still to send stays on its list until the
\* thread sends it.
LEMMA PendingKept ==
    ASSUME TypeOK, NEW t \in Threads, todo[t] # << >>,
           NEW items \in Seq(Item), Continue(t, items),
           NEW k, Head(todo[t]) # NotifyItem(k), PendingIn(todo, k)
    PROVE  PendingIn(todo', k)
  <1>0. PICK u \in Threads : \E i \in DOMAIN todo[u] : todo[u][i] = NotifyItem(k)
    BY DEF PendingIn
  <1>1. PICK i \in DOMAIN todo[u] : todo[u][i] = NotifyItem(k)
    BY <1>0
  <1>2. CASE u # t
    <2>1. todo'[u] = todo[u]
      BY <1>2 DEF Continue, TypeOK
    <2> QED BY <1>1, <2>1 DEF PendingIn
  <1>3. CASE u = t
    <2>1. todo[t] \in Seq(Item)
      BY DEF TypeOK
    <2>2. i \in 2..Len(todo[t])
      BY <1>1, <1>3, <2>1
    <2>3. todo'[t] = items \o Tail(todo[t])
      BY DEF Continue, TypeOK
    <2> DEFINE j == Len(items) + i - 1
    <2>4. /\ Tail(todo[t]) \in Seq(Item)
          /\ Len(Tail(todo[t])) = Len(todo[t]) - 1
          /\ i - 1 \in 1..Len(Tail(todo[t]))
          /\ Tail(todo[t])[i - 1] = todo[t][i]
      BY <2>1, <2>2
    <2>5. j \in DOMAIN todo'[t] /\ todo'[t][j] = Tail(todo[t])[i - 1]
      BY <2>3, <2>4, SMTT(30)
    <2> QED BY <1>1, <1>3, <2>4, <2>5 DEF PendingIn
  <1> QED BY <1>2, <1>3

\* A section that leaves a notification to send has it on the list.
LEMMA PendingAdded ==
    ASSUME TypeOK, NEW t \in Threads, todo[t] # << >>,
           NEW items \in Seq(Item), Continue(t, items),
           NEW k, NEW i \in DOMAIN items, items[i] = NotifyItem(k)
    PROVE  PendingIn(todo', k)
  <1>1. Tail(todo[t]) \in Seq(Item)
    BY HeadTailProperties DEF TypeOK
  <1>2. todo'[t] = items \o Tail(todo[t])
    BY DEF Continue, TypeOK
  <1>3. i \in DOMAIN todo'[t] /\ todo'[t][i] = items[i]
    BY <1>1, <1>2
  <1> QED BY <1>3 DEF PendingIn

\* What a client is owed stays owed when a section that notifies nobody leaves
\* the sessions and their clients alone.
LEMMA OwedKept ==
    ASSUME TypeOK, NoLostChange, NEW t \in Threads,
           todo[t] # << >>, Head(todo[t]).op # "notify",
           NEW items \in Seq(Item), Continue(t, items),
           UNCHANGED <<keys, patterns, changes, port, queued, woken, toRead>>,
           NEW c \in Sessions, NEW k \in Watched(c), port[c], k \notin seen[c]
    PROVE  \/ PendingIn(todo', k)
           \/ k \in toRead'[c]
           \/ k \in changes'[c] /\ (queued'[c] > 0 \/ woken'[c])
  <1>1. \/ PendingIn(todo, k)
        \/ k \in toRead[c]
        \/ k \in changes[c] /\ (queued[c] > 0 \/ woken[c])
    BY DEF NoLostChange
  <1>2. Head(todo[t]) # NotifyItem(k)
    BY DEF NotifyItem
  <1>3. ASSUME PendingIn(todo, k) PROVE PendingIn(todo', k)
    BY <1>2, <1>3, PendingKept
  <1> QED BY <1>1, <1>3

\* Such a section loses nothing when it changes one key at most and has the
\* key's notification on its list.
LEMMA SectionKeeps ==
    ASSUME TypeOK, NoLostChange, NEW t \in Threads,
           todo[t] # << >>, Head(todo[t]).op # "notify",
           NEW items \in Seq(Item), Continue(t, items),
           NEW x, PendingIn(todo', x),
           \A c \in Sessions : seen[c] \ {x} \subseteq seen'[c],
           UNCHANGED <<keys, patterns, changes, port, queued, woken, toRead>>
    PROVE  NoLostChange'
  <1> SUFFICES ASSUME NEW c \in Sessions, NEW k \in Watched(c)', port'[c], k \notin seen'[c]
               PROVE  \/ PendingIn(todo', k)
                      \/ k \in toRead'[c]
                      \/ k \in changes'[c] /\ (queued'[c] > 0 \/ woken'[c])
    BY DEF NoLostChange
  <1>1. k \in Watched(c) /\ port[c]
    BY DEF Watched
  <1>2. CASE k = x
    BY <1>2
  <1>3. CASE k # x
    <2>1. k \notin seen[c]
      BY <1>3
    <2> QED BY <1>1, <2>1, OwedKept
  <1> QED BY <1>2, <1>3

LEMMA SectionKeepsAll ==
    ASSUME TypeOK, NoLostChange, NEW t \in Threads,
           todo[t] # << >>, Head(todo[t]).op # "notify",
           NEW items \in Seq(Item), Continue(t, items),
           UNCHANGED <<keys, patterns, changes, port, queued, woken, toRead, seen>>
    PROVE  NoLostChange'
  <1> SUFFICES ASSUME NEW c \in Sessions, NEW k \in Watched(c)', port'[c], k \notin seen'[c]
               PROVE  \/ PendingIn(todo', k)
                      \/ k \in toRead'[c]
                      \/ k \in changes'[c] /\ (queued'[c] > 0 \/ woken'[c])
    BY DEF NoLostChange
  <1>1. k \in Watched(c) /\ port[c] /\ k \notin seen[c]
    BY DEF Watched
  <1> QED BY <1>1, OwedKept

LEMMA SectionLosesNothing ==
    ASSUME TypeOK, ClosedWatchesNothing, NoLostChange, ~InternalState,
           NEW t \in Threads, Section(t)
    PROVE  NoLostChange'
  <1> DEFINE h == Head(todo[t])
  <1>0. << >> \in Seq(Item) /\ <<UpItem>> \in Seq(Item) /\ <<RaiseItem>> \in Seq(Item)
    BY ItemTypes, SmallLists
  <1>1. ASSUME NEW k \in Key
        PROVE  <<NotifyItem(k)>> \in Seq(Item)
               /\ \E i \in DOMAIN <<NotifyItem(k)>> : <<NotifyItem(k)>>[i] = NotifyItem(k)
    BY ItemTypes, SmallLists
  <1>2. ASSUME NEW k \in Key, NEW v \in Value
        PROVE  LET l == <<RouteItem(k, v), NotifyItem(k)>>
               IN  l \in Seq(Item) /\ \E i \in DOMAIN l : l[i] = NotifyItem(k)
    <2> DEFINE l == <<RouteItem(k, v), NotifyItem(k)>>
    <2>1. l \in Seq(Item)
      BY ItemTypes, SmallLists
    <2>2. 2 \in DOMAIN l /\ l[2] = NotifyItem(k)
      OBVIOUS
    <2> QED BY <2>1, <2>2
  <1>3. CASE SetValue(t) \/ AddValue(t)
    <2>1. PICK op \in {"set", "add"} : Running(t, op)
      BY <1>3 DEF SetValue, AddValue
    <2>2. h \in Item /\ h.key \in Key /\ h.val \in Value
      BY <2>1, RunningType, ItemFields DEF Running
    <2>3. UNCHANGED <<keys, patterns, changes, port, queued, woken, toRead>>
      BY <1>3 DEF SetValue, AddValue, sessionVars
    <2>4. CASE Forget({h.key}) /\ Continue(t, <<RouteItem(h.key, h.val), NotifyItem(h.key)>>)
      <3>1. PICK x \in Key : x = h.key
        BY <2>2
      <3>2. PICK l \in Seq(Item) : /\ Continue(t, l)
                                   /\ \E i \in DOMAIN l : l[i] = NotifyItem(x)
        BY Zenon, <1>2, <2>2, <2>4, <3>1
      <3>3. \A c \in Sessions : seen[c] \ {x} \subseteq seen'[c]
        BY <2>4, <3>1 DEF Forget
      <3>4. todo[t] # << >> /\ Head(todo[t]).op # "notify"
        BY <2>1 DEF Running
      <3>5. PendingIn(todo', x)
        BY <3>2, <3>4, PendingAdded
      <3> QED BY <2>3, <3>2, <3>3, <3>4, <3>5, SectionKeeps
    <2>5. CASE seen' = seen /\ Continue(t, << >>)
      BY Zenon, <1>0, <2>1, <2>3, <2>5, SectionKeepsAll DEF Running
    <2> QED BY <1>3, <2>4, <2>5 DEF SetValue, AddValue
  <1>4. CASE RemoveValue(t) \/ DeleteValue(t)
    <2>1. PICK op \in {"remove", "delete"} : Running(t, op)
      BY <1>4 DEF RemoveValue, DeleteValue
    <2>2. h \in Item /\ h.key \in Key
      BY <2>1, RunningType, ItemFields DEF Running
    <2>3. UNCHANGED <<keys, patterns, changes, port, queued, woken, toRead>>
      BY <1>4 DEF RemoveValue, DeleteValue, sessionVars
    <2>4. CASE Forget({h.key}) /\ Continue(t, <<NotifyItem(h.key)>>)
      <3>1. PICK x \in Key : x = h.key
        BY <2>2
      <3>2. PICK l \in Seq(Item) : /\ Continue(t, l)
                                   /\ \E i \in DOMAIN l : l[i] = NotifyItem(x)
        BY Zenon, <1>1, <2>2, <2>4, <3>1
      <3>3. \A c \in Sessions : seen[c] \ {x} \subseteq seen'[c]
        BY <2>4, <3>1 DEF Forget
      <3>4. todo[t] # << >> /\ Head(todo[t]).op # "notify"
        BY <2>1 DEF Running
      <3>5. PendingIn(todo', x)
        BY <3>2, <3>4, PendingAdded
      <3> QED BY <2>3, <3>2, <3>3, <3>4, <3>5, SectionKeeps
    <2>5. CASE seen' = seen /\ Continue(t, << >>)
      BY Zenon, <1>0, <2>1, <2>3, <2>5, SectionKeepsAll DEF Running
    <2> QED BY <1>4, <2>4, <2>5 DEF RemoveValue, DeleteValue
  <1>5. CASE PublishGlobal(t)
    <2>1. Running(t, "publish")
      BY <1>5 DEF PublishGlobal
    <2>2. h \in Item /\ h.entry \in Entry /\ h.pending \in Seq(Entry)
      BY <2>1, RunningType, ItemFields DEF Running
    <2>3. PICK l \in Seq(Item) : Continue(t, l)
      BY <1>5, <2>2, PublicationType DEF PublishGlobal, Entry
    <2>4. UNCHANGED <<keys, patterns, changes, port, queued, woken, toRead, seen>>
      BY <1>5 DEF PublishGlobal, sessionVars, clientVars
    <2> QED BY <2>1, <2>3, <2>4, SectionKeepsAll DEF Running
  <1>6. CASE ApplyRoute(t) \/ NetworkUp(t) \/ SignalLaunchd(t) \/ CreateSession(t)
    <2>1. PICK op \in {"route", "up", "raise", "open"} : Running(t, op)
      BY <1>6 DEF ApplyRoute, NetworkUp, SignalLaunchd, CreateSession
    <2>2. PICK l \in Seq(Item) : Continue(t, l)
      BY Zenon, <1>0, <1>6 DEF ApplyRoute, NetworkUp, SignalLaunchd, CreateSession
    <2>3. UNCHANGED <<keys, patterns, changes, port, queued, woken, toRead, seen>>
      BY <1>6 DEF ApplyRoute, NetworkUp, SignalLaunchd, CreateSession, sessionVars, clientVars
    <2> QED BY <2>1, <2>2, <2>3, SectionKeepsAll DEF Running
  <1>7. CASE RefreshNetworkState(t)
    <2>1. Running(t, "refresh") /\ Continue(t, << >>)
      BY <1>7 DEF RefreshNetworkState
    <2>2. UNCHANGED <<keys, patterns, changes, port, queued, woken, toRead, seen>>
      BY <1>7 DEF RefreshNetworkState, sessionVars
    <2> QED BY Zenon, <1>0, <2>1, <2>2, SectionKeepsAll DEF Running
  <1>8. CASE NotifyKeyChanged(t)
    <2>1. Running(t, "notify") /\ Continue(t, << >>)
      BY <1>8 DEF NotifyKeyChanged
    <2>2. h \in Item /\ h.key \in Key /\ h = NotifyItem(h.key)
      BY <2>1, RunningType DEF Running, Item, NotifyItem
    <2> SUFFICES ASSUME NEW c \in Sessions, NEW k \in Watched(c)', port'[c], k \notin seen'[c]
                 PROVE  \/ PendingIn(todo', k)
                        \/ k \in toRead'[c]
                        \/ k \in changes'[c] /\ (queued'[c] > 0 \/ woken'[c])
      BY DEF NoLostChange
    <2>3. UNCHANGED <<opened, keys, patterns, port, woken, toRead, seen>>
      BY <1>8 DEF NotifyKeyChanged, clientVars
    <2>4. k \in Watched(c) /\ port[c] /\ k \notin seen[c]
      BY <2>3 DEF Watched
    <2>5. queued[c] \in 0..QLimit /\ QLimit \in Nat \ {0}
      BY ConfigdAssumption DEF TypeOK
    <2>6. changes[c] \subseteq changes'[c] /\ (queued[c] > 0 => queued'[c] > 0)
      <3>1. changes[c] \subseteq changes'[c]
        BY <1>8 DEF NotifyKeyChanged
      <3>2. queued'[c] = queued[c] \/ queued'[c] = Send(queued[c])
        BY <1>8 DEF NotifyKeyChanged
      <3>3. queued[c] > 0 => queued'[c] > 0
        BY <2>5, <3>2, SMTT(30) DEF Send
      <3> QED BY <3>1, <3>3
    <2>7. CASE k = h.key
      <3>1. c \in opened
        BY <2>4 DEF ClosedWatchesNothing, Watched
      <3>2. k \in changes'[c] /\ queued'[c] = Send(queued[c])
        <4>1. h.key \in Watched(c) /\ port[c]
          BY <2>4, <2>7
        <4> QED BY <1>8, <2>7, <3>1, <4>1 DEF NotifyKeyChanged
      <3>3. queued'[c] > 0
        BY <2>5, <3>2, SMTT(30) DEF Send
      <3> QED BY <3>2, <3>3
    <2>8. CASE k # h.key
      <3>1. Head(todo[t]) # NotifyItem(k)
        <4>1. NotifyItem(k).key = k
          BY ONLY TRUE DEF NotifyItem
        <4> QED BY ONLY <2>8, <4>1, Zenon
      <3>2. \/ PendingIn(todo, k)
            \/ k \in toRead[c]
            \/ k \in changes[c] /\ (queued[c] > 0 \/ woken[c])
        BY <2>4 DEF NoLostChange
      <3>3. ASSUME PendingIn(todo, k) PROVE PendingIn(todo', k)
        BY Zenon, <1>0, <2>1, <3>1, <3>3, PendingKept DEF Running
      <3> QED BY <2>3, <2>6, <3>2, <3>3
    <2> QED BY <2>7, <2>8
  <1>9. CASE ReadValues(t)
    <2>1. Running(t, "get") /\ Continue(t, << >>)
      BY <1>9 DEF ReadValues
    <2>2. h \in Item /\ h.session \in Sessions /\ h.keys \in SUBSET Key
      BY <2>1, RunningType, ItemFields DEF Running
    <2> SUFFICES ASSUME NEW c \in Sessions, NEW k \in Watched(c)', port'[c], k \notin seen'[c]
                 PROVE  \/ PendingIn(todo', k)
                        \/ k \in toRead'[c]
                        \/ k \in changes'[c] /\ (queued'[c] > 0 \/ woken'[c])
      BY DEF NoLostChange
    <2>3. UNCHANGED <<keys, patterns, changes, port, queued, woken>>
      BY <1>9 DEF ReadValues, sessionVars
    <2>4. /\ seen[c] \subseteq seen'[c]
          /\ toRead[c] \subseteq toRead'[c] \cup seen'[c]
      BY <1>9, <2>2 DEF ReadValues, TypeOK
    <2>5. k \in Watched(c) /\ port[c] /\ k \notin seen[c]
      BY <2>3, <2>4 DEF Watched
    <2>6. Head(todo[t]) # NotifyItem(k)
      BY <2>1 DEF Running, NotifyItem
    <2>7. \/ PendingIn(todo, k)
          \/ k \in toRead[c]
          \/ k \in changes[c] /\ (queued[c] > 0 \/ woken[c])
      BY <2>5 DEF NoLostChange
    <2>8. ASSUME PendingIn(todo, k) PROVE PendingIn(todo', k)
      BY Zenon, <1>0, <2>1, <2>6, <2>8, PendingKept DEF Running
    <2> QED BY <2>3, <2>4, <2>7, <2>8
  <1> QED BY <1>3, <1>4, <1>5, <1>6, <1>7, <1>8, <1>9 DEF Section

LEMMA RequestLosesNothing ==
    ASSUME TypeOK, NoLostChange, Request
    PROVE  NoLostChange'
  <1>1. PICK t \in Threads, items \in Seq(Item) : Start(t, items)
    BY RequestStarts
  <1>2. UNCHANGED <<keys, patterns, changes, port, queued, woken, toRead, seen>>
    BY <1>1 DEF Start, sessionVars, clientVars
  <1>3. ASSUME NEW k, PendingIn(todo, k)
        PROVE  PendingIn(todo', k)
    <2>1. PICK u \in Threads : \E i \in DOMAIN todo[u] : todo[u][i] = NotifyItem(k)
      BY <1>3 DEF PendingIn
    <2>2. u # t
      BY <1>1, <2>1 DEF Start, Idle
    <2>3. todo'[u] = todo[u]
      BY <1>1, <2>2 DEF Start, TypeOK
    <2> QED BY <2>1, <2>3 DEF PendingIn
  <1>4. \A c \in Sessions : Watched(c)' = Watched(c)
    BY <1>2 DEF Watched
  <1> QED BY <1>2, <1>3, <1>4 DEF NoLostChange

LEMMA NotificationLosesNothing ==
    ASSUME TypeOK, NoLostChange, NEW d \in Sessions, Notification(d)
    PROVE  NoLostChange'
  <1> USE DEF SessionRequest, sessionVars
  <1>1. UNCHANGED <<todo, seen>>
    BY DEF Notification, NotifyAdd, NotifyRemove, NotifySet, NotifyViaPort, NotifyCancel,
           NotifyChanges, Receive
  <1>2. \A k : PendingIn(todo', k) <=> PendingIn(todo, k)
    BY <1>1 DEF PendingIn
  <1> SUFFICES ASSUME NEW c \in Sessions, NEW k \in Watched(c)', port'[c], k \notin seen'[c]
               PROVE  \/ PendingIn(todo, k)
                      \/ k \in toRead'[c]
                      \/ k \in changes'[c] /\ (queued'[c] > 0 \/ woken'[c])
    BY Zenon, <1>2 DEF NoLostChange
  <1>3. ASSUME k \in Watched(c), port[c]
        PROVE  \/ PendingIn(todo, k)
               \/ k \in toRead[c]
               \/ k \in changes[c] /\ (queued[c] > 0 \/ woken[c])
    BY Zenon, <1>1, <1>3 DEF NoLostChange
  <1>4. CASE c # d
    <2>1. /\ keys'[c] = keys[c] /\ patterns'[c] = patterns[c] /\ changes'[c] = changes[c]
          /\ port'[c] = port[c] /\ queued'[c] = queued[c] /\ woken'[c] = woken[c]
          /\ toRead'[c] = toRead[c]
      <3>1. CASE NotifyAdd(d)
        BY <1>4, <3>1 DEF NotifyAdd, TypeOK
      <3>2. CASE NotifyRemove(d)
        BY <1>4, <3>2 DEF NotifyRemove, TypeOK
      <3>3. CASE NotifySet(d)
        BY <1>4, <3>3 DEF NotifySet, TypeOK
      <3>4. CASE NotifyViaPort(d) \/ NotifyCancel(d)
        BY Zenon, <1>4, <3>4 DEF NotifyViaPort, NotifyCancel, TypeOK
      <3>5. CASE NotifyChanges(d) \/ Receive(d)
        BY ZenonT(30), <1>4, <3>5 DEF NotifyChanges, Receive, TypeOK
      <3> QED BY Zenon, <3>1, <3>2, <3>3, <3>4, <3>5 DEF Notification
    <2>2. k \in Watched(c) /\ port[c]
      BY Zenon, <2>1 DEF Watched
    <2> QED BY <1>3, <2>1, <2>2
  <1>5. CASE c = d
    <2>t. /\ keys \in [Sessions -> SUBSET Key]
          /\ patterns \in [Sessions -> SUBSET Patterns]
          /\ toRead \in [Sessions -> SUBSET Key]
      BY Zenon DEF TypeOK
    <2>1. CASE NotifyAdd(c)
      <3>0. UNCHANGED <<changes, port, queued, woken>>
        BY ZenonT(30), <2>1 DEF NotifyAdd
      <3>1. CASE \E x \in Watchable : /\ keys' = [keys EXCEPT ![c] = @ \cup {x}]
                                      /\ toRead' = [toRead EXCEPT ![c] = @ \cup {x}]
                                      /\ UNCHANGED patterns
        <4>1. k \in Watched(c) \/ k \in toRead'[c]
          BY <3>1, <2>t DEF Watched
        <4>2. toRead[c] \subseteq toRead'[c]
          BY <3>1, <2>t
        <4> QED BY <1>3, <3>0, <4>1, <4>2
      <3>2. CASE \E p \in Patterns : /\ patterns' = [patterns EXCEPT ![c] = @ \cup {p}]
                                     /\ toRead' = [toRead EXCEPT ![c] = @ \cup PatternKeys[p]]
                                     /\ UNCHANGED keys
        <4>1. k \in Watched(c) \/ k \in toRead'[c]
          BY <3>2, <2>t, SMTT(30) DEF Watched
        <4>2. toRead[c] \subseteq toRead'[c]
          BY <3>2, <2>t
        <4> QED BY <1>3, <3>0, <4>1, <4>2
      <3> QED BY Zenon, <2>1, <3>1, <3>2 DEF NotifyAdd
    <2>2. CASE NotifyRemove(c)
      <3>0. UNCHANGED <<changes, port, queued, woken, toRead>>
        BY <2>2 DEF NotifyRemove
      <3>1. keys'[c] \subseteq keys[c] /\ patterns'[c] \subseteq patterns[c]
        BY <2>2, <2>t DEF NotifyRemove
      <3>2. k \in Watched(c)
        BY <3>1 DEF Watched
      <3> QED BY <1>3, <3>0, <3>2
    <2>3. CASE NotifySet(c)
      <3>1. PICK ks \in SUBSET Watchable, ps \in SUBSET Patterns :
                /\ keys' = [keys EXCEPT ![c] = ks]
                /\ patterns' = [patterns EXCEPT ![c] = ps]
                /\ toRead' = [toRead EXCEPT ![c] = ks \cup UNION {PatternKeys[p] : p \in ps}]
        BY Zenon, <2>3 DEF NotifySet
      <3>2. /\ keys'[c] = ks /\ patterns'[c] = ps
            /\ toRead'[c] = ks \cup UNION {PatternKeys[p] : p \in ps}
        BY <2>t, <3>1
      <3> QED BY <3>2 DEF Watched
    <2>4. CASE NotifyViaPort(c)
      <3>1. k \in Watched(c)
        BY Zenon, <2>4 DEF NotifyViaPort, Watched
      <3> QED BY Zenon, <2>4, <3>1 DEF NotifyViaPort, TypeOK
    <2>5. CASE NotifyCancel(c)
      BY Zenon, <2>5 DEF NotifyCancel, TypeOK
    <2>6. CASE NotifyChanges(c)
      <3>1. k \in Watched(c) /\ port[c]
        BY <2>6 DEF NotifyChanges, Watched
      <3>2. toRead'[c] = toRead[c] \cup changes[c]
        BY Zenon, <2>6 DEF NotifyChanges, TypeOK
      <3> QED BY Zenon, <1>3, <3>1, <3>2
    <2>7. CASE Receive(c)
      <3>1. k \in Watched(c) /\ port[c]
        BY <2>7 DEF Receive, Watched
      <3>2. woken'[c] /\ UNCHANGED <<toRead, changes>>
        BY Zenon, <2>7 DEF Receive, TypeOK
      <3> QED BY Zenon, <1>3, <3>1, <3>2
    <2> QED BY Zenon, <1>5, <2>1, <2>2, <2>3, <2>4, <2>5, <2>6, <2>7 DEF Notification
  <1> QED BY <1>4, <1>5

LEMMA ClosedStep ==
    ASSUME TypeOK, ClosedWatchesNothing, [Next]_vars
    PROVE  ClosedWatchesNothing'
  <1>1. ASSUME NEW t \in Threads, Section(t)
        PROVE  opened \subseteq opened' /\ UNCHANGED <<keys, patterns>>
    BY Zenon, <1>1 DEF Section, SetValue, AddValue, RemoveValue, DeleteValue, ApplyRoute,
       NotifyKeyChanged, PublishGlobal, NetworkUp, SignalLaunchd, RefreshNetworkState,
       ReadValues, CreateSession, sessionVars
  <1>2. Request => UNCHANGED <<opened, keys, patterns>>
    <2> SUFFICES ASSUME Request PROVE UNCHANGED <<opened, keys, patterns>>
      OBVIOUS
    <2>1. PICK t \in Threads, items \in Seq(Item) : Start(t, items)
      BY RequestStarts
    <2> QED BY <2>1 DEF Start, sessionVars
  <1>3. ASSUME NEW d \in Sessions, Notification(d)
        PROVE  ClosedWatchesNothing'
    <2>1. opened' = opened
      BY Zenon, <1>3 DEF Notification, NotifyAdd, NotifyRemove, NotifySet, NotifyViaPort,
         NotifyCancel, NotifyChanges, Receive, SessionRequest, sessionVars
    <2>2. d \in opened \/ UNCHANGED <<keys, patterns>>
      BY Zenon, <1>3 DEF Notification, NotifyAdd, NotifyRemove, NotifySet, NotifyViaPort,
         NotifyCancel, NotifyChanges, Receive, SessionRequest, sessionVars
    <2>3. \A c \in Sessions \ {d} : keys'[c] = keys[c] /\ patterns'[c] = patterns[c]
      BY Zenon, <1>3 DEF Notification, NotifyAdd, NotifyRemove, NotifySet, NotifyViaPort,
         NotifyCancel, NotifyChanges, Receive, SessionRequest, sessionVars, TypeOK
    <2> QED BY Zenon, <2>1, <2>2, <2>3 DEF ClosedWatchesNothing
  <1>4. (AssignAddress \/ UNCHANGED vars) => UNCHANGED <<opened, keys, patterns>>
    BY DEF AssignAddress, vars, sessionVars
  <1> QED BY <1>1, <1>2, <1>3, <1>4, NextSplit DEF ClosedWatchesNothing

\* With the internal publisher off, a watching client never loses a change,
\* for any number of threads, clients, keys and requests: every store write
\* leaves its notification on the writing thread's list, sending it records
\* the key and wakes the client, and asking for the changes hands the key to
\* the client before it is cleared.
THEOREM NoChangeIsLost ==
    ASSUME ~InternalState
    PROVE  Spec => []NoLostChange
  <1>1. Init => NoLostChange /\ ClosedWatchesNothing
    BY DEF Init, NoLostChange, ClosedWatchesNothing, Watched
  <1>2. TypeOK /\ ClosedWatchesNothing /\ NoLostChange /\ [Next]_vars => NoLostChange'
    <2> SUFFICES ASSUME TypeOK, ClosedWatchesNothing, NoLostChange, [Next]_vars
                 PROVE  NoLostChange'
      BY Zenon
    <2>1. CASE AssignAddress \/ UNCHANGED vars
      <3>1. UNCHANGED <<keys, patterns, changes, port, queued, todo, woken, toRead, seen>>
        BY <2>1 DEF AssignAddress, vars, sessionVars, clientVars
      <3> QED BY Zenon, <3>1 DEF NoLostChange, PendingIn, Watched
    <2> QED BY <2>1, NextSplit, SectionLosesNothing, RequestLosesNothing,
               NotificationLosesNothing
  <1> QED BY <1>1, <1>2, ClosedStep, TypeCorrect, PTL DEF Spec

=============================================================================
