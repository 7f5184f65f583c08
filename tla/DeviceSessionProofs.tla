------------------------- MODULE DeviceSessionProofs -------------------------
(***************************************************************************)
(* The safety properties of DeviceSession, for any number of devices,      *)
(* connections and waiting signals; from the handlers alone, that what the *)
(* interface shows exists; and that USB connections stay announced.        *)
(***************************************************************************)
EXTENDS DeviceSession, TLAPS

-----------------------------------------------------------------------------
(* The inductive invariant.                                                *)

SessionTypeOK == SignalsTypeOK /\ FeedTypeOK /\ ContextTypeOK

(* A number is known once its connection was registered.                   *)
KnownNumbers ==
  /\ \A u \in Udid : registry[u] # NoDevice => registry[u].id \in inserted
  /\ \A e \in ConnectionEvent : Coming(e) => e.id \in inserted

(* An end is announced only for a connection that left the registry.       *)
EndedConnections ==
  \A u \in Udid, c \in ConnId : Coming(Disconnected(u, c)) => ~IsCurrent(u, c)

IsConnected(e, c) == e.type = "connected" /\ e.id = c

(* At most one connected signal of a connection is on its way ...          *)
OneAnnouncement ==
  /\ \A i, j \in 1 .. Len(events) :
       events[i].type = "connected" /\ IsConnected(events[j], events[i].id) => i = j
  /\ \A d, e \in owed : d.type = "connected" /\ IsConnected(e, d.id) => d = e
  /\ \A i \in 1 .. Len(events), e \in owed :
       events[i].type = "connected" => ~IsConnected(e, events[i].id)

(* ... and none once the interface has seen it.                            *)
Unannounced(c) ==
  /\ \A i \in 1 .. Len(events) : ~IsConnected(events[i], c)
  /\ \A e \in owed : ~IsConnected(e, c)

SeenConnections ==
  /\ \A u \in Udid :
       row[u] # NoDevice => row[u].id \in inserted /\ Unannounced(row[u].id)
  /\ \A u \in Udid, c \in ConnId :
       <<u, c>> \in removals => row[u].id # c /\ c \in inserted /\ Unannounced(c)

SessionInv ==
  /\ SessionTypeOK
  /\ KnownNumbers
  /\ EndedConnections
  /\ OneAnnouncement
  /\ SeenConnections
  /\ NoGhostRow

-----------------------------------------------------------------------------
(* Type correctness.                                                       *)

LEMMA DestinationFacts ==
  /\ Welcome \in Destination /\ Page \in Destination
  /\ \A u \in Udid : DevicePage(u) \in Destination /\ PendingPage(u) \in Destination
  /\ \A r \in RecoveryId : RecoveryPage(r) \in Destination
BY DEF Destination

(* Whatever takes the place of what left a list is a possible selection.   *)
LEMMA FallbackType ==
  ASSUME ContextTypeOK, NEW cur \in Udid \cup {NoUdid}, NEW rows,
         NEW recs \in SUBSET RecoveryId, NEW pends \in SUBSET Udid,
         Fallback(cur, rows, recs, pends)
  PROVE  current' \in Udid \cup {NoUdid} /\ dest' \in Destination
BY DestinationFacts DEF Fallback, ShowDevice, Listed

LEMMA UnlistType ==
  ASSUME ContextTypeOK, NEW u \in Udid, NEW pends \in SUBSET Udid, Unlist(u, pends)
  PROVE  /\ row' = [row EXCEPT ![u] = NoDevice]
         /\ row' \in [Udid -> Connection \cup {NoDevice}]
         /\ current' \in Udid \cup {NoUdid} /\ dest' \in Destination
<1> DEFINE rows == [row EXCEPT ![u] = NoDevice]
<1>1. row' = rows
  BY DEF Unlist
<1>2. rows \in [Udid -> Connection \cup {NoDevice}]
  BY DEF ContextTypeOK
<1>3. PICK cur \in NextCurrent(u, rows) :
        IF dest = DevicePage(u) THEN Fallback(cur, rows, recovery, pends)
        ELSE current' = cur /\ UNCHANGED dest
  BY DEF Unlist
<1>4. cur \in Udid \cup {NoUdid}
  BY <1>3 DEF NextCurrent, Listed, ContextTypeOK
<1>5. current' \in Udid \cup {NoUdid} /\ dest' \in Destination
  BY <1>3, <1>4, FallbackType DEF ContextTypeOK
<1> QED
  BY <1>1, <1>2, <1>5

LEMMA HandlerType ==
  ASSUME SessionTypeOK, NEW e \in ConnectionEvent \cup NoticeEvent, HandleEvent(e)
  PROVE  ContextTypeOK' /\ UNCHANGED <<discovering, removals>>
<1>e. e.udid \in Udid /\ e.wireless \in BOOLEAN
  BY DEF ConnectionEvent, NoticeEvent
<1>1. CASE IgnoreConnected(e) \/ IgnoreDisconnected(e)
  BY <1>1 DEF HandleEvent, IgnoreConnected, IgnoreDisconnected, SessionTypeOK, ContextTypeOK,
             contextVars, lists, selection
<1>2. CASE SkipWireless(e)
  BY <1>2, <1>e, DestinationFacts
     DEF HandleEvent, SkipWireless, SessionTypeOK, ContextTypeOK, ShowDevice, lists
<1>3. CASE AcceptConnected(e)
  <2>1. e.id \in ConnId
    BY <1>3 DEF AcceptConnected, ConnectionEvent, NoticeEvent
  <2>2. [id |-> e.id, wireless |-> e.wireless] \in Connection
    BY <2>1, <1>e DEF Connection
  <2>3. row' \in [Udid -> Connection \cup {NoDevice}] /\ pending' \in SUBSET Udid
    BY <1>3, <1>e, <2>2 DEF AcceptConnected, SessionTypeOK, ContextTypeOK
  <2>4. attempts' \in [Udid -> Attempt]
    BY <1>3, <1>e DEF AcceptConnected, SessionTypeOK, ContextTypeOK, FinishAttempt, Attempt
  <2>5. current' \in Udid \cup {NoUdid} /\ dest' \in Destination
    BY <1>3, <1>e, DestinationFacts
       DEF AcceptConnected, SessionTypeOK, ContextTypeOK, ShowDevice
  <2> QED
    BY <1>3, <2>3, <2>4, <2>5 DEF AcceptConnected, HandleEvent, SessionTypeOK, ContextTypeOK
<1>4. CASE AcceptDisconnected(e)
  <2>1. Unlist(e.udid, pending \ {e.udid}) /\ pending \ {e.udid} \in SUBSET Udid
    BY <1>4 DEF AcceptDisconnected, SessionTypeOK, ContextTypeOK
  <2>2. /\ row' \in [Udid -> Connection \cup {NoDevice}]
        /\ current' \in Udid \cup {NoUdid} /\ dest' \in Destination
    BY <2>1, <1>e, UnlistType DEF SessionTypeOK
  <2>3. later' \in SUBSET (Udid \X BOOLEAN)
    <3>1. (current = e.udid) \in BOOLEAN
      OBVIOUS
    <3>2. <<e.udid, current = e.udid>> \in Udid \X BOOLEAN
      BY <1>e, <3>1
    <3>3. later' \in {later, later \cup {<<e.udid, current = e.udid>>}}
      BY <1>4 DEF AcceptDisconnected
    <3> QED
      BY <3>2, <3>3 DEF SessionTypeOK, ContextTypeOK
  <2> QED
    BY <1>4, <2>1, <2>2, <2>3 DEF AcceptDisconnected, HandleEvent, SessionTypeOK, ContextTypeOK
<1>5. CASE HandlePending(e)
  BY <1>5, <1>e, DestinationFacts DEF HandlePending, HandleEvent, SessionTypeOK, ContextTypeOK
<1>6. CASE HandleFail(e)
  <2>1. pending \ {e.udid} \in SUBSET Udid
    BY DEF SessionTypeOK, ContextTypeOK
  <2>2. current' \in Udid \cup {NoUdid} /\ dest' \in Destination
    BY <1>6, <2>1, FallbackType DEF HandleFail, SessionTypeOK, ContextTypeOK, selection
  <2> QED
    BY <1>6, <2>1, <2>2 DEF HandleFail, HandleEvent, SessionTypeOK, ContextTypeOK
<1>7. CASE HandleAttemptFailed(e)
  BY <1>7, <1>e DEF HandleAttemptFailed, HandleEvent, SessionTypeOK, ContextTypeOK, lists,
                    selection, FinishAttempt, Attempt
<1> QED
  BY <1>1, <1>2, <1>3, <1>4, <1>5, <1>6, <1>7 DEF HandleEvent

LEMMA TryConnectType ==
  ASSUME SessionTypeOK, NEW u \in Udid, NEW select \in BOOLEAN, TryConnect(u, select)
  PROVE  /\ current' \in Udid \cup {NoUdid} /\ dest' \in Destination
         /\ attempts' \in [Udid -> Attempt]
         /\ discovering' \in [Udid -> Nat]
<1> USE DEF SessionTypeOK, SignalsTypeOK, ContextTypeOK
<1>1. CASE AlreadyConnected(u, select)
  BY <1>1, DestinationFacts DEF AlreadyConnected, ShowDevice, selection
<1>2. CASE UpgradeAttempt(u, select)
  BY <1>2 DEF UpgradeAttempt, Attempt, selection
<1>3. CASE StartAttempt(u, select)
  BY <1>3 DEF StartAttempt, Attempt, selection
<1> QED
  BY <1>1, <1>2, <1>3 DEF TryConnect

LEMMA InterfaceType ==
  ASSUME SessionTypeOK, InterfaceStep
  PROVE  /\ ContextTypeOK'
         /\ discovering' \in [Udid -> Nat]
         /\ removals' \in SUBSET (Udid \X ConnId)
<1> USE DEF SessionTypeOK, SignalsTypeOK
<1>1. CASE \E r \in RecoveryId : RecoveryAdded(r)
  BY <1>1, DestinationFacts DEF RecoveryAdded, ContextTypeOK
<1>2. ASSUME NEW r \in RecoveryId, RecoveryRemoved(r)
      PROVE  ContextTypeOK' /\ UNCHANGED <<discovering, removals>>
  <2>1. recovery \ {r} \in SUBSET RecoveryId
    BY DEF ContextTypeOK
  <2>2. current' \in Udid \cup {NoUdid} /\ dest' \in Destination
    BY <1>2, <2>1, FallbackType DEF RecoveryRemoved, ContextTypeOK, selection
  <2> QED
    BY <1>2, <2>1, <2>2 DEF RecoveryRemoved, ContextTypeOK
<1>3. ASSUME NEW u \in Udid, NEW select \in BOOLEAN, ConnectNetworkDevice(u, select)
      PROVE  ContextTypeOK' /\ discovering' \in [Udid -> Nat] /\ UNCHANGED removals
  BY <1>3, TryConnectType DEF ConnectNetworkDevice, ContextTypeOK, lists
<1>4. ASSUME NEW u \in Udid, NEW select \in BOOLEAN, RunLater(u, select)
      PROVE  ContextTypeOK' /\ discovering' \in [Udid -> Nat] /\ UNCHANGED removals
  <2>1. later' \in SUBSET (Udid \X BOOLEAN) /\ UNCHANGED lists /\ UNCHANGED removals
    BY <1>4 DEF RunLater, ContextTypeOK
  <2>2. CASE TryConnect(u, select)
    BY <2>1, <2>2, TryConnectType DEF ContextTypeOK, lists
  <2>3. CASE UNCHANGED <<selection, attempts, discovering>>
    BY <2>1, <2>3 DEF ContextTypeOK, lists, selection
  <2> QED
    BY <1>4, <2>2, <2>3 DEF RunLater
<1>5. ASSUME NEW u \in Udid, RemoveDevice(u)
      PROVE  /\ ContextTypeOK' /\ UNCHANGED discovering
             /\ removals' \in SUBSET (Udid \X ConnId)
  <2>1. pending \in SUBSET Udid /\ Unlist(u, pending)
    BY <1>5 DEF RemoveDevice, ContextTypeOK
  <2>2. row[u].id \in ConnId
    BY <1>5 DEF RemoveDevice, Listed, ContextTypeOK, Connection
  <2> QED
    BY <1>5, <2>1, <2>2, UnlistType DEF RemoveDevice, ContextTypeOK
<1>6. CASE Navigate
  BY <1>6, DestinationFacts DEF Navigate, ContextTypeOK, lists, ShowDevice, Listed
<1> QED
  BY <1>1, <1>2, <1>3, <1>4, <1>5, <1>6 DEF InterfaceStep, RecoveryAdded

LEMMA FeedSignals ==
  /\ \A u \in Udid, c \in ConnId :
       /\ Disconnected(u, c) \in ConnectionEvent
       /\ \A w \in BOOLEAN : Connected(u, c, w) \in ConnectionEvent
  /\ \A u \in Udid, type \in {"initFailed", "noPairingFile"} : Notice(type, u) \in NoticeEvent
BY DEF Connected, Disconnected, Notice, Event, ConnectionEvent, NoticeEvent

LEMMA FeedType ==
  ASSUME FeedTypeOK,
         \/ \E u \in Udid, c \in ConnId, w \in BOOLEAN : Register(u, c, w)
         \/ \E u \in Udid, c \in ConnId : Drop(u, c) \/ Forget(u, c)
         \/ \E e \in owed : Emit(e)
         \/ \E e \in NoticeEvent : Notify(e)
         \/ Deliver
  PROVE  FeedTypeOK'
<1> USE DEF FeedTypeOK, RegistryTypeOK
<1>1. ASSUME NEW u \in Udid, NEW c \in ConnId, NEW w \in BOOLEAN, Register(u, c, w)
      PROVE  FeedTypeOK'
  <2>1. [id |-> c, wireless |-> w] \in Connection
    BY DEF Connection
  <2>2. registry' \in [Udid -> Connection \cup {NoDevice}]
    BY <1>1, <2>1 DEF Register, Insert
  <2>3. registry[u] # NoDevice => registry[u].id \in ConnId
    BY DEF Connection
  <2>4. owed' \in SUBSET ConnectionEvent
    BY <1>1, <2>3, FeedSignals DEF Register
  <2> QED
    BY <1>1, <2>2, <2>4 DEF Register
<1>2. ASSUME NEW u \in Udid, NEW c \in ConnId, Drop(u, c)
      PROVE  FeedTypeOK'
  BY <1>2, FeedSignals DEF Drop, RemoveIfCurrent
<1>3. ASSUME NEW u \in Udid, NEW c \in ConnId, Forget(u, c)
      PROVE  FeedTypeOK'
  BY <1>3 DEF Forget, RemoveIfCurrent
<1>4. ASSUME NEW e \in owed, Emit(e)
      PROVE  FeedTypeOK'
  BY <1>4 DEF Emit, Queue
<1>5. ASSUME NEW e \in NoticeEvent, Notify(e)
      PROVE  FeedTypeOK'
  BY <1>5 DEF Notify, Queue
<1>6. CASE Deliver
  BY <1>6 DEF Deliver
<1> QED
  BY <1>1, <1>2, <1>3, <1>4, <1>5, <1>6

LEMMA TypeInit == SessionInit => SessionTypeOK
BY DestinationFacts
   DEF SessionInit, SignalsInit, FeedInit, ContextInit, RegistryInit, SessionTypeOK,
       SignalsTypeOK, FeedTypeOK, ContextTypeOK, RegistryTypeOK, Attempt

LEMMA TypeStep == SessionTypeOK /\ [SessionNext]_sessionVars => SessionTypeOK'
<1> SUFFICES ASSUME SessionTypeOK, [SessionNext]_sessionVars
             PROVE  FeedTypeOK' /\ ContextTypeOK'
                    /\ discovering' \in [Udid -> Nat] /\ removals' \in SUBSET (Udid \X ConnId)
  BY DEF SessionTypeOK, SignalsTypeOK, FeedTypeOK
<1>c. UNCHANGED contextVars => ContextTypeOK'
  BY DEF SessionTypeOK, ContextTypeOK, contextVars, lists, selection
<1>f. UNCHANGED feedVars => FeedTypeOK'
  BY DEF SessionTypeOK, FeedTypeOK, RegistryTypeOK, feedVars
<1>d. UNCHANGED <<discovering, removals>> =>
        discovering' \in [Udid -> Nat] /\ removals' \in SUBSET (Udid \X ConnId)
  BY DEF SessionTypeOK, SignalsTypeOK
<1>1. CASE Backend
  BY <1>1, <1>c, <1>d, FeedType DEF Backend, SessionTypeOK
<1>2. CASE \E e \in owed : EmitOwed(e)
  BY <1>2, <1>c, <1>d, FeedType DEF EmitOwed, SessionTypeOK
<1>3. ASSUME NEW u \in Udid, Discover(u)
      PROVE  FeedTypeOK' /\ ContextTypeOK' /\ discovering' \in [Udid -> Nat]
             /\ UNCHANGED removals
  <2>1. FeedTypeOK'
    BY <1>3, <1>f, FeedType, FeedSignals DEF Discover, SessionTypeOK
  <2> QED
    BY <1>3, <2>1, <1>c DEF Discover, SessionTypeOK, SignalsTypeOK
<1>4. ASSUME NEW u \in Udid, NEW c \in ConnId, RunRemoval(u, c)
      PROVE  FeedTypeOK' /\ ContextTypeOK' /\ UNCHANGED discovering
             /\ removals' \in SUBSET (Udid \X ConnId)
  <2>1. FeedTypeOK'
    BY <1>4, <1>f, FeedType DEF RunRemoval, SessionTypeOK
  <2> QED
    BY <1>4, <2>1, <1>c DEF RunRemoval, SessionTypeOK, SignalsTypeOK
<1>5. CASE HandleSignal
  <2>1. Head(events) \in ConnectionEvent \cup NoticeEvent
    BY <1>5 DEF HandleSignal, Deliver, SessionTypeOK, SignalsTypeOK
  <2> QED
    BY <1>5, <2>1, <1>d, HandlerType, FeedType DEF HandleSignal, SessionTypeOK
<1>6. CASE Interface
  BY <1>6, <1>f, InterfaceType DEF Interface, SessionTypeOK
<1>7. CASE UNCHANGED sessionVars
  BY <1>7, <1>c, <1>d, <1>f DEF sessionVars
<1> QED
  BY <1>1, <1>2, <1>3, <1>4, <1>5, <1>6, <1>7, <1>d DEF SessionNext, SessionTypeOK, SignalsTypeOK

(* Every variable keeps its type, whatever the two sides do.               *)
THEOREM SessionTypes == SessionSpec => []SessionTypeOK
BY TypeInit, TypeStep, PTL DEF SessionSpec

-----------------------------------------------------------------------------
(* The queue, the list and the registry, as the steps change them.         *)

LEMMA QueueGrows ==
  ASSUME SessionTypeOK, NEW e \in ConnectionEvent \cup NoticeEvent, Queue(e)
  PROVE  /\ Len(events') = Len(events) + 1
         /\ \A i \in 1 .. Len(events) : events'[i] = events[i]
         /\ events'[Len(events) + 1] = e
         /\ Len(events) \in Nat
BY DEF Queue, SessionTypeOK, SignalsTypeOK

LEMMA QueueShrinks ==
  ASSUME SessionTypeOK, Deliver
  PROVE  /\ Len(events) \in Nat \ {0}
         /\ Len(events') = Len(events) - 1
         /\ \A i \in 1 .. Len(events') : events'[i] = events[i + 1]
         /\ Head(events) = events[1]
         /\ Head(events) \in ConnectionEvent \cup NoticeEvent
BY DEF Deliver, SessionTypeOK, SignalsTypeOK

LEMMA QueueElements ==
  ASSUME SessionTypeOK
  PROVE  /\ \A i \in 1 .. Len(events) :
              /\ events[i] \in ConnectionEvent \cup NoticeEvent
              /\ events[i].type = "connected" => events[i] \in ConnectionEvent
         /\ owed \in SUBSET ConnectionEvent
<1>1. \A i \in 1 .. Len(events) : events[i] \in ConnectionEvent \cup NoticeEvent
  BY DEF SessionTypeOK, SignalsTypeOK
<1>2. \A e \in NoticeEvent : e.type # "connected"
  BY DEF NoticeEvent
<1> QED
  BY <1>1, <1>2 DEF SessionTypeOK, FeedTypeOK

(* The interface's own steps take a row away only with a removal.          *)
LEMMA InterfaceRows ==
  ASSUME SessionTypeOK, InterfaceStep
  PROVE  \/ UNCHANGED <<row, removals>>
         \/ \E u \in Udid :
              /\ row[u] # NoDevice
              /\ row' = [row EXCEPT ![u] = NoDevice]
              /\ removals' = removals \cup {<<u, row[u].id>>}
<1>1. ASSUME NEW u \in Udid, RemoveDevice(u)
      PROVE  /\ row[u] # NoDevice
             /\ row' = [row EXCEPT ![u] = NoDevice]
             /\ removals' = removals \cup {<<u, row[u].id>>}
  BY <1>1, UnlistType DEF RemoveDevice, Listed, SessionTypeOK, ContextTypeOK
<1>2. ASSUME NEW r \in RecoveryId, RecoveryAdded(r) \/ RecoveryRemoved(r)
      PROVE  UNCHANGED <<row, removals>>
  BY <1>2 DEF RecoveryAdded, RecoveryRemoved
<1>3. ASSUME NEW u \in Udid, NEW select \in BOOLEAN,
             ConnectNetworkDevice(u, select) \/ RunLater(u, select)
      PROVE  UNCHANGED <<row, removals>>
  BY <1>3 DEF ConnectNetworkDevice, RunLater, lists
<1>4. CASE Navigate
  BY <1>4 DEF Navigate, lists
<1> QED
  BY <1>1, <1>2, <1>3, <1>4 DEF InterfaceStep

(* A handler lists a current connection, or takes away the one that ended, *)
(* or leaves the rows alone because the event names another connection.    *)
LEMMA HandlerRows ==
  ASSUME SessionTypeOK, NEW e \in ConnectionEvent \cup NoticeEvent, HandleEvent(e)
  PROVE  /\ e.udid \in Udid
         /\ \/ /\ e.type = "connected" /\ IsCurrent(e.udid, e.id)
               /\ row' = [row EXCEPT ![e.udid] = [id |-> e.id, wireless |-> e.wireless]]
            \/ /\ e.type = "disconnected" /\ row[e.udid].id = e.id
               /\ row' = [row EXCEPT ![e.udid] = NoDevice]
            \/ /\ e.type = "disconnected" => row[e.udid].id # e.id
               /\ row' = row
<1>e. e.udid \in Udid
  BY DEF ConnectionEvent, NoticeEvent
<1>1. CASE AcceptDisconnected(e)
  <2>1. pending \ {e.udid} \in SUBSET Udid /\ Unlist(e.udid, pending \ {e.udid})
    BY <1>1 DEF AcceptDisconnected, SessionTypeOK, ContextTypeOK
  <2> QED
    BY <1>1, <1>e, <2>1, UnlistType DEF AcceptDisconnected, SessionTypeOK
<1>2. CASE AcceptConnected(e)
  BY <1>2, <1>e DEF AcceptConnected, Fresh
<1>3. CASE IgnoreConnected(e) \/ SkipWireless(e)
  BY <1>3, <1>e DEF IgnoreConnected, SkipWireless, contextVars, lists
<1>4. CASE IgnoreDisconnected(e)
  BY <1>4, <1>e DEF IgnoreDisconnected, contextVars, lists
<1>5. CASE HandlePending(e) \/ HandleFail(e) \/ HandleAttemptFailed(e)
  BY <1>5, <1>e DEF HandlePending, HandleFail, HandleAttemptFailed, lists
<1> QED
  BY <1>1, <1>2, <1>3, <1>4, <1>5 DEF HandleEvent

-----------------------------------------------------------------------------
(* Every step preserves the invariant.                                     *)

LEMMA InvInit == SessionInit => SessionInv
<1> SUFFICES ASSUME SessionInit PROVE SessionInv
  OBVIOUS
<1>1. SessionTypeOK
  BY TypeInit
<1>2. /\ registry = [u \in Udid |-> NoDevice] /\ row = [u \in Udid |-> NoDevice]
      /\ events = <<>> /\ owed = {} /\ removals = {}
  BY DEF SessionInit, SignalsInit, FeedInit, ContextInit, RegistryInit
<1>3. \A e : ~Coming(e)
  BY <1>2 DEF Coming, InQueue
<1> QED
  BY <1>1, <1>2, <1>3
     DEF SessionInv, KnownNumbers, EndedConnections, OneAnnouncement, SeenConnections, NoGhostRow

(* A connection registers, perhaps in place of another.                    *)
LEMMA RegisterKeepsInv ==
  ASSUME SessionInv, SessionTypeOK', NEW u \in Udid, NEW c \in ConnId, NEW w \in BOOLEAN,
         Register(u, c, w), UNCHANGED <<discovering, removals, contextVars>>
  PROVE  SessionInv'
<1> DEFINE old == registry[u].id
<1>1. /\ c \notin inserted /\ inserted' = inserted \cup {c}
      /\ events' = events /\ row' = row /\ removals' = removals
      /\ registry' = [registry EXCEPT ![u] = [id |-> c, wireless |-> w]]
  BY DEF Register, Insert, contextVars, lists
<1>2. \/ owed' = owed \cup {Connected(u, c, w)} /\ registry[u] = NoDevice
      \/ owed' = owed \cup {Connected(u, c, w), Disconnected(u, old)} /\ registry[u] # NoDevice
  BY DEF Register
<1>3. registry[u] # NoDevice => old \in ConnId /\ old # c /\ old \in inserted
  BY <1>1 DEF SessionInv, SessionTypeOK, SignalsTypeOK, RegistryTypeOK, Connection, KnownNumbers
<1>4. \A e : Coming(e)' => \/ Coming(e)
                           \/ e = Connected(u, c, w)
                           \/ registry[u] # NoDevice /\ e = Disconnected(u, old)
  <2> TAKE e
  <2> HAVE Coming(e)'
  <2>1. InQueue(e)' => InQueue(e)
    BY <1>1 DEF InQueue
  <2>2. e \in owed' \/ InQueue(e)
    BY <2>1 DEF Coming
  <2> QED
    BY <1>2, <2>2 DEF Coming
<1>5. Coming(Connected(u, c, w))' /\ \A e : Coming(e) => Coming(e)'
  BY <1>1, <1>2 DEF Coming, InQueue
<1>6. KnownNumbers'
  <2>1. \A v \in Udid : registry'[v] # NoDevice => registry'[v].id \in inserted'
    BY <1>1 DEF SessionInv, SessionTypeOK, SignalsTypeOK, RegistryTypeOK, KnownNumbers
  <2>2. ASSUME NEW e \in ConnectionEvent, Coming(e)'
        PROVE  e.id \in inserted'
    <3>1. CASE Coming(e)
      BY <1>1, <3>1 DEF SessionInv, KnownNumbers
    <3>2. CASE e = Connected(u, c, w)
      BY <1>1, <3>2 DEF Connected, Event
    <3>3. CASE registry[u] # NoDevice /\ e = Disconnected(u, old)
      BY <1>1, <1>3, <3>3 DEF Disconnected, Event
    <3> QED
      BY <1>4, <2>2, <3>1, <3>2, <3>3
  <2> QED
    BY <2>1, <2>2 DEF KnownNumbers
<1>7. EndedConnections'
  <2> SUFFICES ASSUME NEW v \in Udid, NEW d \in ConnId, Coming(Disconnected(v, d))'
               PROVE  ~IsCurrent(v, d)'
    BY DEF EndedConnections
  <2>1. Disconnected(v, d) # Connected(u, c, w)
    BY DEF Disconnected, Connected, Event
  <2>2. CASE Coming(Disconnected(v, d))
    <3>1. ~IsCurrent(v, d) /\ d \in inserted
      BY <2>2, FeedSignals DEF SessionInv, EndedConnections, KnownNumbers, Disconnected, Event
    <3> QED
      BY <1>1, <3>1 DEF SessionInv, SessionTypeOK, SignalsTypeOK, RegistryTypeOK, IsCurrent
  <2>3. CASE registry[u] # NoDevice /\ Disconnected(v, d) = Disconnected(u, old)
    <3>1. v = u /\ d = old
      BY <2>3 DEF Disconnected, Event
    <3> QED
      BY <1>1, <1>3, <2>3, <3>1
         DEF SessionInv, SessionTypeOK, SignalsTypeOK, RegistryTypeOK, IsCurrent
  <2> QED
    BY <1>4, <2>1, <2>2, <2>3
<1>8. OneAnnouncement'
  <2>1. \A i \in 1 .. Len(events) : ~IsConnected(events[i], c)
    BY <1>1, QueueElements DEF SessionInv, KnownNumbers, Coming, InQueue, IsConnected
  <2>2. \A e \in owed : ~IsConnected(e, c)
    BY <1>1, QueueElements DEF SessionInv, KnownNumbers, Coming, IsConnected
  <2>3. \A x : ~IsConnected(Disconnected(u, old), x)
    BY DEF IsConnected, Disconnected, Event
  <2>4. Connected(u, c, w).type = "connected" /\ Connected(u, c, w).id = c
    BY DEF Connected, Event
  <2>5. Disconnected(u, old).type # "connected"
    BY DEF Disconnected, Event
  <2> QED
    BY <1>1, <1>2, <2>1, <2>2, <2>3, <2>4, <2>5 DEF SessionInv, OneAnnouncement, IsConnected
<1>9. SeenConnections'
  <2>1. \A d \in inserted : Unannounced(d) => Unannounced(d)'
    <3> SUFFICES ASSUME NEW d \in inserted, Unannounced(d)
                 PROVE  Unannounced(d)'
      OBVIOUS
    <3>1. ~IsConnected(Connected(u, c, w), d) /\ ~IsConnected(Disconnected(u, old), d)
      BY <1>1 DEF IsConnected, Connected, Disconnected, Event
    <3> QED
      BY <1>1, <1>2, <3>1 DEF Unannounced
  <2> QED
    BY <1>1, <2>1 DEF SessionInv, SeenConnections
<1>10. NoGhostRow'
  <2> SUFFICES ASSUME NEW v \in Udid, NEW d, row[v] # NoDevice, d = row[v].id,
                      ~IsCurrent(v, d)'
               PROVE  Coming(Disconnected(v, d))'
    BY <1>1 DEF NoGhostRow
  <2>1. CASE IsCurrent(v, d)
    <3>1. v = u /\ registry[u] # NoDevice /\ old = d
      BY <1>1, <2>1 DEF SessionInv, SessionTypeOK, SignalsTypeOK, RegistryTypeOK, IsCurrent
    <3> QED
      BY <1>2, <3>1, <1>1 DEF Coming
  <2>2. CASE ~IsCurrent(v, d)
    BY <1>5, <2>2 DEF SessionInv, NoGhostRow
  <2> QED
    BY <2>1, <2>2
<1> QED
  BY <1>6, <1>7, <1>8, <1>9, <1>10 DEF SessionInv

(* A connection is lost: its end is owed from the same step on.            *)
LEMMA DropKeepsInv ==
  ASSUME SessionInv, SessionTypeOK', NEW u \in Udid, NEW c \in ConnId, Drop(u, c),
         UNCHANGED <<discovering, removals, contextVars>>
  PROVE  SessionInv'
<1>1. /\ IsCurrent(u, c) /\ registry' = [registry EXCEPT ![u] = NoDevice]
      /\ owed' = owed \cup {Disconnected(u, c)}
      /\ events' = events /\ inserted' = inserted
      /\ row' = row /\ removals' = removals
  BY DEF Drop, RemoveIfCurrent, contextVars, lists
<1>2. c \in inserted
  BY <1>1 DEF SessionInv, KnownNumbers, IsCurrent
<1>3. \A e : Coming(e)' <=> Coming(e) \/ e = Disconnected(u, c)
  BY <1>1 DEF Coming, InQueue
<1>4. \A v \in Udid, d \in ConnId : IsCurrent(v, d)' <=> IsCurrent(v, d) /\ v # u
  BY <1>1 DEF SessionInv, SessionTypeOK, SignalsTypeOK, RegistryTypeOK, IsCurrent
<1>5. \A x : ~IsConnected(Disconnected(u, c), x)
  BY DEF IsConnected, Disconnected, Event
<1>6. KnownNumbers'
  <2>1. \A v \in Udid : registry'[v] # NoDevice => registry'[v] = registry[v]
    BY <1>1 DEF SessionInv, SessionTypeOK, SignalsTypeOK, RegistryTypeOK
  <2>2. Disconnected(u, c).id = c
    BY DEF Disconnected, Event
  <2> QED
    BY <1>1, <1>2, <1>3, <2>1, <2>2 DEF SessionInv, KnownNumbers
<1>7. EndedConnections'
  <2>1. \A v \in Udid, d \in ConnId : Disconnected(v, d) = Disconnected(u, c) => v = u
    BY DEF Disconnected, Event
  <2> QED
    BY <1>3, <1>4, <2>1 DEF SessionInv, EndedConnections
<1>8. OneAnnouncement'
  <2>1. Disconnected(u, c).type # "connected"
    BY DEF Disconnected, Event
  <2> QED
    BY <1>1, <1>5, <2>1 DEF SessionInv, OneAnnouncement
<1>9. SeenConnections'
  BY <1>1, <1>5 DEF SessionInv, SeenConnections, Unannounced
<1>10. NoGhostRow'
  <2> SUFFICES ASSUME NEW v \in Udid, NEW d, row[v] # NoDevice, d = row[v].id,
                      ~IsCurrent(v, d)'
               PROVE  Coming(Disconnected(v, d))'
    BY <1>1 DEF NoGhostRow
  <2>1. CASE IsCurrent(v, d)
    <3>1. v = u /\ d = c
      BY <1>1, <2>1 DEF SessionInv, SessionTypeOK, SignalsTypeOK, RegistryTypeOK, IsCurrent
    <3> QED
      BY <1>3, <3>1
  <2>2. CASE ~IsCurrent(v, d)
    BY <1>3, <2>2 DEF SessionInv, NoGhostRow
  <2> QED
    BY <2>1, <2>2
<1> QED
  BY <1>6, <1>7, <1>8, <1>9, <1>10 DEF SessionInv

(* A removal runs: the interface has no row of that connection.            *)
LEMMA RemovalKeepsInv ==
  ASSUME SessionInv, SessionTypeOK', NEW u \in Udid, NEW c \in ConnId, RunRemoval(u, c)
  PROVE  SessionInv'
<1>1. /\ <<u, c>> \in removals /\ removals' \in SUBSET removals
      /\ owed' = owed /\ events' = events /\ inserted' = inserted /\ row' = row
      /\ \/ IsCurrent(u, c) /\ registry' = [registry EXCEPT ![u] = NoDevice]
         \/ registry' = registry
  BY DEF RunRemoval, Forget, RemoveIfCurrent, feedVars, contextVars, lists
<1>2. \A e : Coming(e)' <=> Coming(e)
  BY <1>1 DEF Coming, InQueue
<1>3. \A v \in Udid : \A d : IsCurrent(v, d)' => IsCurrent(v, d)
  BY <1>1 DEF SessionInv, SessionTypeOK, SignalsTypeOK, RegistryTypeOK, IsCurrent
<1>4. \A v \in Udid : row[v] # NoDevice /\ IsCurrent(v, row[v].id) => IsCurrent(v, row[v].id)'
  <2>1. row[u].id # c
    BY <1>1 DEF SessionInv, SeenConnections
  <2> QED
    BY <1>1, <2>1 DEF SessionInv, SessionTypeOK, SignalsTypeOK, RegistryTypeOK, IsCurrent
<1>5. KnownNumbers'
  <2>1. \A v \in Udid : registry'[v] # NoDevice => registry'[v] = registry[v]
    BY <1>1 DEF SessionInv, SessionTypeOK, SignalsTypeOK, RegistryTypeOK
  <2> QED
    BY <1>1, <1>2, <2>1 DEF SessionInv, KnownNumbers
<1>6. EndedConnections'
  BY <1>2, <1>3 DEF SessionInv, EndedConnections
<1>7. OneAnnouncement'
  BY <1>1 DEF SessionInv, OneAnnouncement
<1>8. SeenConnections'
  BY <1>1 DEF SessionInv, SeenConnections, Unannounced
<1>9. NoGhostRow'
  BY <1>1, <1>2, <1>4 DEF SessionInv, NoGhostRow
<1> QED
  BY <1>5, <1>6, <1>7, <1>8, <1>9 DEF SessionInv

(* A task queues what it owes.                                             *)
LEMMA EmitKeepsInv ==
  ASSUME SessionInv, SessionTypeOK', NEW e \in owed, EmitOwed(e)
  PROVE  SessionInv'
<1>1. /\ registry' = registry /\ owed' = owed \ {e} /\ inserted' = inserted
      /\ row' = row /\ removals' = removals /\ Queue(e)
  BY DEF EmitOwed, Emit, contextVars, lists
<1>2. /\ Len(events') = Len(events) + 1 /\ Len(events) \in Nat
      /\ \A i \in 1 .. Len(events) : events'[i] = events[i]
      /\ events'[Len(events) + 1] = e
  BY <1>1, QueueGrows, QueueElements DEF SessionInv
<1>3. \A x : Coming(x)' <=> Coming(x)
  BY <1>1, <1>2 DEF Coming, InQueue
<1>4. \A c : Unannounced(c) => Unannounced(c)'
  BY <1>1, <1>2 DEF Unannounced
<1>5. KnownNumbers' /\ EndedConnections' /\ NoGhostRow'
  BY <1>1, <1>3 DEF SessionInv, KnownNumbers, EndedConnections, NoGhostRow, IsCurrent
<1>6. OneAnnouncement'
  BY <1>1, <1>2 DEF SessionInv, OneAnnouncement, IsConnected
<1>7. SeenConnections'
  BY <1>1, <1>4 DEF SessionInv, SeenConnections
<1> QED
  BY <1>5, <1>6, <1>7 DEF SessionInv

(* A notice names no connection.                                           *)
LEMMA NotifyKeepsInv ==
  ASSUME SessionInv, SessionTypeOK', NEW e \in NoticeEvent, Notify(e),
         UNCHANGED <<removals, contextVars>>
  PROVE  SessionInv'
<1>1. /\ registry' = registry /\ owed' = owed /\ inserted' = inserted
      /\ row' = row /\ removals' = removals /\ Queue(e)
  BY DEF Notify, contextVars, lists
<1>2. /\ Len(events') = Len(events) + 1 /\ Len(events) \in Nat
      /\ \A i \in 1 .. Len(events) : events'[i] = events[i]
      /\ events'[Len(events) + 1] = e
  BY <1>1, QueueGrows DEF SessionInv
<1>3. e.type # "connected" /\ e \notin ConnectionEvent
  BY DEF NoticeEvent, ConnectionEvent
<1>4. \A x \in ConnectionEvent : Coming(x)' <=> Coming(x)
  BY <1>1, <1>2, <1>3 DEF Coming, InQueue
<1>5. \A c : Unannounced(c) => Unannounced(c)'
  BY <1>1, <1>2, <1>3 DEF Unannounced, IsConnected
<1>6. \A v \in Udid, d \in ConnId : Coming(Disconnected(v, d))' <=> Coming(Disconnected(v, d))
  BY <1>4, FeedSignals
<1>7. KnownNumbers' /\ EndedConnections'
  BY <1>1, <1>4, <1>6 DEF SessionInv, KnownNumbers, EndedConnections, IsCurrent
<1>8. NoGhostRow'
  <2>1. \A u \in Udid : row[u] # NoDevice => row[u].id \in ConnId
    BY DEF SessionInv, SessionTypeOK, ContextTypeOK, Connection
  <2> QED
    BY <1>1, <1>6, <2>1 DEF SessionInv, NoGhostRow, IsCurrent
<1>9. OneAnnouncement'
  BY <1>1, <1>2, <1>3 DEF SessionInv, OneAnnouncement, IsConnected
<1>10. SeenConnections'
  BY <1>1, <1>5 DEF SessionInv, SeenConnections
<1> QED
  BY <1>7, <1>8, <1>9, <1>10 DEF SessionInv

(* The interface handles a signal: what it lists is current, and the only  *)
(* end it may ignore is one that its row is not waiting for.               *)
LEMMA SignalKeepsInv ==
  ASSUME SessionInv, SessionTypeOK', HandleSignal
  PROVE  SessionInv'
<1> PICK e \in ConnectionEvent \cup NoticeEvent : e = Head(events)
  BY QueueShrinks DEF HandleSignal, SessionInv
<1>1. /\ registry' = registry /\ owed' = owed /\ inserted' = inserted /\ removals' = removals
      /\ HandleEvent(e) /\ Deliver
  BY DEF HandleSignal, Deliver, HandleEvent
<1>2. /\ Len(events) \in Nat \ {0} /\ Len(events') = Len(events) - 1
      /\ \A i \in 1 .. Len(events') : events'[i] = events[i + 1]
      /\ e = events[1] /\ e \in ConnectionEvent \cup NoticeEvent
  BY <1>1, QueueShrinks DEF SessionInv
<1>3. /\ e.udid \in Udid
      /\ \/ /\ e.type = "connected" /\ IsCurrent(e.udid, e.id)
            /\ row' = [row EXCEPT ![e.udid] = [id |-> e.id, wireless |-> e.wireless]]
         \/ /\ e.type = "disconnected" /\ row[e.udid].id = e.id
            /\ row' = [row EXCEPT ![e.udid] = NoDevice]
         \/ /\ e.type = "disconnected" => row[e.udid].id # e.id
            /\ row' = row
  BY <1>1, <1>2, HandlerRows DEF SessionInv
<1>4. \A x : Coming(x)' => Coming(x)
  BY <1>1, <1>2 DEF Coming, InQueue
<1>5. \A x : Coming(x) => Coming(x)' \/ x = e
  <2> TAKE x
  <2> HAVE Coming(x)
  <2>1. CASE x \in owed
    BY <1>1, <2>1 DEF Coming
  <2>2. CASE InQueue(x)
    <3>1. PICK i \in 1 .. Len(events) : events[i] = x
      BY <2>2 DEF InQueue
    <3>2. CASE i = 1
      BY <1>2, <3>1, <3>2
    <3>3. CASE i # 1
      <4>1. i - 1 \in 1 .. Len(events') /\ events'[i - 1] = x
        BY <1>2, <3>1, <3>3
      <4> QED
        BY <4>1 DEF Coming, InQueue
    <3> QED
      BY <3>2, <3>3
  <2> QED
    BY <2>1, <2>2 DEF Coming
<1>6. \A c : Unannounced(c) => Unannounced(c)'
  BY <1>1, <1>2 DEF Unannounced
<1>7. KnownNumbers' /\ EndedConnections'
  BY <1>1, <1>4 DEF SessionInv, KnownNumbers, EndedConnections, IsCurrent
<1>8. OneAnnouncement'
  <2>1. \A i \in 1 .. Len(events') : i + 1 \in 1 .. Len(events) /\ events'[i] = events[i + 1]
    BY <1>2
  <2>2. \A i, j \in 1 .. Len(events') : i + 1 = j + 1 => i = j
    BY <1>2
  <2> QED
    BY <1>1, <2>1, <2>2 DEF SessionInv, OneAnnouncement
<1>9. ASSUME e.type = "connected"
      PROVE  Unannounced(e.id)'
  <2>1. \A i \in 1 .. Len(events') : ~IsConnected(events'[i], e.id)
    <3>1. \A i \in 1 .. Len(events') : i + 1 \in 1 .. Len(events) /\ i + 1 # 1
      BY <1>2
    <3> QED
      BY <1>2, <1>9, <3>1 DEF SessionInv, OneAnnouncement
  <2>2. \A x \in owed : ~IsConnected(x, e.id)
    BY <1>2, <1>9 DEF SessionInv, OneAnnouncement
  <2> QED
    BY <1>1, <2>1, <2>2 DEF Unannounced
<1>10. e.type = "connected" => e.id \in inserted /\ e.id \in ConnId
  <2>1. e.type = "connected" => e \in ConnectionEvent
    BY <1>2 DEF NoticeEvent
  <2>2. Coming(e)
    BY <1>2 DEF Coming, InQueue
  <2> QED
    BY <2>1, <2>2 DEF SessionInv, KnownNumbers, ConnectionEvent
<1>11. row \in [Udid -> Connection \cup {NoDevice}] /\ NoDevice.id \notin ConnId
  BY DEF SessionInv, SessionTypeOK, ContextTypeOK, NoDevice, ConnId
<1>12. SeenConnections'
  <2>1. ASSUME NEW u \in Udid, NEW c, row'[u] # NoDevice, row'[u].id = c
        PROVE  c \in inserted' /\ Unannounced(c)'
    <3>1. CASE row'[u] = row[u]
      BY <1>1, <1>6, <2>1, <3>1 DEF SessionInv, SeenConnections
    <3>2. CASE row'[u] # row[u]
      <4>1. e.type = "connected" /\ c = e.id
        BY <1>3, <1>11, <2>1, <3>2
      <4> QED
        BY <1>1, <1>9, <1>10, <4>1
    <3> QED
      BY <3>1, <3>2
  <2>2. ASSUME NEW u \in Udid, NEW c \in ConnId, <<u, c>> \in removals'
        PROVE  row'[u].id # c /\ c \in inserted' /\ Unannounced(c)'
    <3>1. row[u].id # c /\ c \in inserted /\ Unannounced(c)
      BY <1>1, <2>2 DEF SessionInv, SeenConnections
    <3>2. e.type = "connected" => e.id # c
      BY <1>2, <3>1 DEF Unannounced, IsConnected
    <3>3. \/ row'[u] \in {row[u], NoDevice}
          \/ row'[u].id = e.id /\ e.type = "connected"
      BY <1>3, <1>11
    <3> QED
      BY <1>1, <1>6, <1>11, <3>1, <3>2, <3>3
  <2> QED
    BY <2>1, <2>2 DEF SeenConnections
<1>13. NoGhostRow'
  <2> SUFFICES ASSUME NEW u \in Udid, NEW d, row'[u] # NoDevice, d = row'[u].id,
                      ~IsCurrent(u, d)
               PROVE  Coming(Disconnected(u, d))'
    BY <1>1 DEF NoGhostRow, IsCurrent
  <2>1. row'[u] = row[u]
    BY <1>3, <1>11
  <2>2. Coming(Disconnected(u, d))
    BY <2>1 DEF SessionInv, NoGhostRow
  <2>3. Disconnected(u, d) # e
    BY <1>3, <1>11, <2>1 DEF Disconnected, Event
  <2> QED
    BY <1>5, <2>2, <2>3
<1> QED
  BY <1>7, <1>8, <1>12, <1>13 DEF SessionInv

(* The user and the interface's own calls.                                 *)
LEMMA InterfaceKeepsInv ==
  ASSUME SessionInv, SessionTypeOK', Interface
  PROVE  SessionInv'
<1>1. /\ registry' = registry /\ events' = events /\ owed' = owed /\ inserted' = inserted
      /\ InterfaceStep
  BY DEF Interface, feedVars
<1>2. KnownNumbers' /\ EndedConnections' /\ OneAnnouncement'
  BY <1>1 DEF SessionInv, KnownNumbers, EndedConnections, OneAnnouncement, IsCurrent, Coming, InQueue
<1>3. \A c : Unannounced(c)' <=> Unannounced(c)
  BY <1>1 DEF Unannounced
<1>4. \A x : Coming(x)' <=> Coming(x)
  BY <1>1 DEF Coming, InQueue
<1>5. CASE UNCHANGED <<row, removals>>
  <2>1. SeenConnections' /\ NoGhostRow'
    BY <1>1, <1>3, <1>4, <1>5 DEF SessionInv, SeenConnections, NoGhostRow, IsCurrent
  <2> QED
    BY <1>2, <2>1 DEF SessionInv
<1>6. ASSUME NEW u \in Udid, row[u] # NoDevice,
             row' = [row EXCEPT ![u] = NoDevice],
             removals' = removals \cup {<<u, row[u].id>>}
      PROVE  SessionInv'
  <2>1. row \in [Udid -> Connection \cup {NoDevice}] /\ NoDevice.id \notin ConnId
    BY DEF SessionInv, SessionTypeOK, ContextTypeOK, NoDevice, ConnId
  <2>2. \A v \in Udid : row'[v] # NoDevice => row'[v] = row[v] /\ v # u
    BY <1>6, <2>1
  <2>3. NoGhostRow'
    BY <1>1, <1>4, <2>2 DEF SessionInv, NoGhostRow, IsCurrent
  <2>4. ASSUME NEW v \in Udid, NEW c \in ConnId, <<v, c>> \in removals'
        PROVE  row'[v].id # c /\ c \in inserted' /\ Unannounced(c)'
    <3>1. CASE <<v, c>> \in removals
      BY <1>1, <1>3, <1>6, <2>1, <3>1 DEF SessionInv, SeenConnections
    <3>2. CASE v = u /\ c = row[u].id
      BY <1>1, <1>3, <1>6, <2>1, <3>2 DEF SessionInv, SeenConnections
    <3> QED
      BY <1>6, <2>4, <3>1, <3>2
  <2>5. SeenConnections'
    BY <1>1, <1>3, <2>2, <2>4 DEF SessionInv, SeenConnections
  <2> QED
    BY <1>2, <2>3, <2>5 DEF SessionInv
<1> QED
  BY <1>1, <1>5, <1>6, InterfaceRows DEF SessionInv

LEMMA StutterKeepsInv ==
  ASSUME SessionInv, SessionTypeOK', UNCHANGED feedVars, UNCHANGED <<removals, contextVars>>
  PROVE  SessionInv'
<1>1. /\ registry' = registry /\ events' = events /\ owed' = owed /\ inserted' = inserted
      /\ row' = row /\ removals' = removals
  BY DEF feedVars, contextVars, lists
<1> QED
  BY <1>1 DEF SessionInv, KnownNumbers, EndedConnections, OneAnnouncement, SeenConnections,
              NoGhostRow, IsCurrent, Coming, InQueue, Unannounced

LEMMA InvStep == SessionInv /\ [SessionNext]_sessionVars => SessionInv'
<1> SUFFICES ASSUME SessionInv, [SessionNext]_sessionVars PROVE SessionInv'
  OBVIOUS
<1>1. SessionTypeOK'
  BY TypeStep DEF SessionInv
<1>2. CASE Backend
  BY <1>1, <1>2, RegisterKeepsInv, DropKeepsInv, NotifyKeepsInv DEF Backend
<1>3. CASE \E e \in owed : EmitOwed(e)
  BY <1>1, <1>3, EmitKeepsInv
<1>4. ASSUME NEW u \in Udid, Discover(u)
      PROVE  SessionInv'
  <2>1. CASE UNCHANGED feedVars
    BY <1>1, <1>4, <2>1, StutterKeepsInv DEF Discover
  <2>2. CASE \E type \in {"initFailed", "noPairingFile"} : Notify(Notice(type, u))
    BY <1>1, <1>4, <2>2, FeedSignals, NotifyKeepsInv DEF Discover
  <2> QED
    BY <1>4, <2>1, <2>2 DEF Discover
<1>5. CASE \E u \in Udid, c \in ConnId : RunRemoval(u, c)
  BY <1>1, <1>5, RemovalKeepsInv
<1>6. CASE HandleSignal
  BY <1>1, <1>6, SignalKeepsInv
<1>7. CASE Interface
  BY <1>1, <1>7, InterfaceKeepsInv
<1>8. CASE UNCHANGED sessionVars
  BY <1>1, <1>8, StutterKeepsInv DEF sessionVars
<1> QED
  BY <1>2, <1>3, <1>4, <1>5, <1>6, <1>7, <1>8 DEF SessionNext

LEMMA InvAlways == SessionSpec => []SessionInv
BY InvInit, InvStep, PTL DEF SessionSpec

-----------------------------------------------------------------------------
(* The theorems.                                                           *)

(* The list never keeps a lost connection that nothing will take away.     *)
THEOREM NoGhosts == SessionSpec => []NoGhostRow
<1>1. SessionInv => NoGhostRow
  BY DEF SessionInv
<1> QED
  BY <1>1, InvAlways, PTL

(* A connection the user removed never comes back by itself.               *)
THEOREM Removals == SessionSpec => []RemovedStaysRemoved
<1>1. SessionInv => RemovedStaysRemoved
  <2> SUFFICES ASSUME SessionInv, NEW u \in Udid, NEW c \in ConnId, <<u, c>> \in removals,
                      NEW w \in BOOLEAN
               PROVE  row[u].id # c /\ ~Coming(Connected(u, c, w))
    BY DEF RemovedStaysRemoved
  <2>1. row[u].id # c /\ Unannounced(c)
    BY DEF SessionInv, SeenConnections
  <2>2. IsConnected(Connected(u, c, w), c)
    BY DEF IsConnected, Connected, Event
  <2> QED
    BY <2>1, <2>2 DEF Unannounced, Coming, InQueue
<1> QED
  BY <1>1, InvAlways, PTL

(* No signal takes a live row away: an end is announced only after the     *)
(* connection left the registry, and a number is never registered again.   *)
THEOREM LiveRowsStay == SessionSpec => ListedWhileRegistered
<1>1. SessionInv /\ SessionInv' /\ [SessionNext]_sessionVars =>
        [\A u \in Udid :
           row[u] # NoDevice /\ IsCurrent(u, row[u].id) /\ row'[u] # row[u] =>
             <<u, row[u].id>> \in removals' \ removals]_sessionVars
  <2> SUFFICES ASSUME SessionInv, SessionNext, NEW u \in Udid,
                      row[u] # NoDevice, IsCurrent(u, row[u].id), row'[u] # row[u]
               PROVE  <<u, row[u].id>> \in removals' \ removals
    OBVIOUS
  <2>1. row \in [Udid -> Connection \cup {NoDevice}] /\ row[u].id \in ConnId
    BY DEF SessionInv, SessionTypeOK, ContextTypeOK, Connection
  <2>2. CASE UNCHANGED contextVars
    BY <2>2 DEF contextVars, lists
  <2>3. CASE Interface
    <3>1. <<u, row[u].id>> \notin removals
      BY <2>1 DEF SessionInv, SeenConnections
    <3> QED
      BY <2>1, <2>3, <3>1, InterfaceRows DEF Interface, SessionInv
  <2>4. CASE HandleSignal
    <3> PICK e \in ConnectionEvent \cup NoticeEvent : e = Head(events)
      BY <2>4, QueueShrinks DEF HandleSignal, SessionInv
    <3>1. e = events[1] /\ 1 \in 1 .. Len(events)
      BY <2>4, QueueShrinks DEF HandleSignal, SessionInv
    <3>2. HandleEvent(e)
      BY <2>4 DEF HandleSignal
    <3>3. e.udid = u
      BY <2>1, <3>2, HandlerRows DEF SessionInv
    <3>4. CASE e.type = "connected" /\ IsCurrent(u, e.id)
      <4>1. e.id = row[u].id
        BY <3>4 DEF IsCurrent
      <4>2. Unannounced(e.id)
        BY <4>1 DEF SessionInv, SeenConnections
      <4> QED
        BY <3>1, <3>4, <4>2 DEF Unannounced, IsConnected
    <3>5. CASE e.type = "disconnected" /\ row[u].id = e.id
      <4>1. e = Disconnected(u, row[u].id)
        BY <3>3, <3>5 DEF ConnectionEvent, NoticeEvent, Disconnected, Event
      <4>2. Coming(e)
        BY <3>1 DEF Coming, InQueue
      <4> QED
        BY <2>1, <4>1, <4>2 DEF SessionInv, EndedConnections
    <3> QED
      BY <2>1, <3>2, <3>3, <3>4, <3>5, HandlerRows DEF SessionInv
  <2> QED
    BY <2>2, <2>3, <2>4 DEF SessionNext, Backend, EmitOwed, Discover, RunRemoval
<1> QED
  BY <1>1, InvAlways, PTL DEF SessionSpec, ListedWhileRegistered

-----------------------------------------------------------------------------
(* What the interface shows exists, for any number of devices in recovery  *)
(* mode too.  The handlers keep this by themselves: of the Rust side only  *)
(* the types of its signals are used.                                      *)

ListsInv == SessionTypeOK /\ SelectionExists /\ PendingNotListed

-----------------------------------------------------------------------------
(* Pages name the entry they show.                                         *)

LEMMA Pages ==
  /\ \A u \in Udid : /\ DevicePage(u).kind = "device" /\ DevicePage(u).id = u
                     /\ PendingPage(u).kind = "pendingDevice" /\ PendingPage(u).id = u
  /\ \A r \in RecoveryId : RecoveryPage(r).kind = "recoveryDevice" /\ RecoveryPage(r).id = r
  /\ \A d \in {Welcome, Page} : d.kind \notin {"device", "pendingDevice", "recoveryDevice"}
BY DEF DevicePage, PendingPage, RecoveryPage, Welcome, Page

LEMMA PageOf ==
  ASSUME NEW d \in Destination
  PROVE  /\ d.kind = "device" => d.id \in Udid /\ d = DevicePage(d.id)
         /\ d.kind = "pendingDevice" => d.id \in Udid /\ d = PendingPage(d.id)
         /\ d.kind = "recoveryDevice" => d.id \in RecoveryId /\ d = RecoveryPage(d.id)
BY DEF Destination, DevicePage, PendingPage, RecoveryPage, Welcome, Page

LEMMA ListedAfterRemoval ==
  ASSUME SessionTypeOK, NEW u \in Udid
  PROVE  Listed([row EXCEPT ![u] = NoDevice]) = Listed(row) \ {u}
BY DEF SessionTypeOK, ContextTypeOK, Listed

(* The parts of SelectionExists, for values of the lists and the selection.*)
ShownIn(d, rows, pends, recs) ==
  /\ d.kind = "device" => d.id \in Listed(rows)
  /\ d.kind = "pendingDevice" => d.id \in pends
  /\ d.kind = "recoveryDevice" => d.id \in recs

CurrentIn(cur, rows) ==
  IF Listed(rows) = {} THEN cur = NoUdid ELSE cur \in Listed(rows)

LEMMA SelectionParts ==
  /\ SelectionExists <=> ShownIn(dest, row, pending, recovery) /\ CurrentIn(current, row)
  /\ SelectionExists' <=> /\ ShownIn(dest', row', pending', recovery')
                          /\ CurrentIn(current', row')
BY DEF SelectionExists, ShownIn, CurrentIn, Listed

LEMMA ShowDeviceExists ==
  ASSUME NEW rows, NEW pends, NEW recs, NEW u \in Listed(rows), ShowDevice(u)
  PROVE  ShownIn(dest', rows, pends, recs) /\ CurrentIn(current', rows)
<1>1. u \in Udid
  BY DEF Listed
<1> QED
  BY <1>1, Pages DEF ShowDevice, ShownIn, CurrentIn

(* Whatever takes the place of a lost page is in its list.                 *)
LEMMA FallbackExists ==
  ASSUME NEW cur, NEW rows, NEW recs \in SUBSET RecoveryId, NEW pends \in SUBSET Udid,
         CurrentIn(cur, rows), Fallback(cur, rows, recs, pends)
  PROVE  ShownIn(dest', rows, pends, recs) /\ CurrentIn(current', rows)
<1>1. CASE \E u \in Listed(rows) : ShowDevice(u)
  BY <1>1, ShowDeviceExists
<1>2. CASE /\ Listed(rows) = {}
           /\ current' = cur
           /\ \/ \E r \in recs : dest' = RecoveryPage(r)
              \/ recs = {} /\ \E u \in pends : dest' = PendingPage(u)
              \/ recs = {} /\ pends = {} /\ dest' = Welcome
  <2>1. CurrentIn(current', rows)
    BY <1>2
  <2>2. CASE \E r \in recs : dest' = RecoveryPage(r)
    BY <2>1, <2>2, Pages DEF ShownIn
  <2>3. CASE \E u \in pends : dest' = PendingPage(u)
    BY <2>1, <2>3, Pages DEF ShownIn
  <2>4. CASE dest' = Welcome
    BY <2>1, <2>4, Pages DEF ShownIn
  <2> QED
    BY <1>2, <2>2, <2>3, <2>4
<1> QED
  BY <1>1, <1>2 DEF Fallback

(* A listed device leaves, and its pairing entry, if any, is dropped.      *)
LEMMA UnlistExists ==
  ASSUME ListsInv, NEW u \in Listed(row), NEW pends \in SUBSET Udid,
         pends \in {pending, pending \ {u}}, Unlist(u, pends)
  PROVE  /\ row' = [row EXCEPT ![u] = NoDevice]
         /\ Listed(row') = Listed(row) \ {u}
         /\ ShownIn(dest', row', pends, recovery) /\ CurrentIn(current', row')
<1> DEFINE rows == [row EXCEPT ![u] = NoDevice]
<1>1. row' = rows /\ u \in Udid
  BY DEF Unlist, Listed
<1>2. Listed(rows) = Listed(row) \ {u}
  BY <1>1, ListedAfterRemoval DEF ListsInv
<1>3. PICK cur \in NextCurrent(u, rows) :
        IF dest = DevicePage(u) THEN Fallback(cur, rows, recovery, pends)
        ELSE current' = cur /\ UNCHANGED dest
  BY DEF Unlist
<1>4. ShownIn(dest, row, pending, recovery) /\ current \in Listed(row)
  BY SelectionParts DEF ListsInv, CurrentIn
<1>5. CurrentIn(cur, rows)
  BY <1>2, <1>3, <1>4 DEF NextCurrent, CurrentIn
<1>6. recovery \in SUBSET RecoveryId /\ dest \in Destination
  BY DEF ListsInv, SessionTypeOK, ContextTypeOK
<1>7. CASE dest = DevicePage(u)
  <2>1. ShownIn(dest', rows, pends, recovery) /\ CurrentIn(current', rows)
    BY <1>3, <1>5, <1>6, <1>7, FallbackExists
  <2> QED
    BY <1>1, <1>2, <2>1
<1>8. CASE dest # DevicePage(u)
  <2>1. dest' = dest /\ current' = cur
    BY <1>3, <1>8
  <2>2. dest.kind = "device" => dest.id \in Listed(row) \ {u}
    BY <1>4, <1>6, <1>8, PageOf DEF ShownIn
  <2>3. dest.kind = "pendingDevice" => dest.id \in pends
    BY <1>4 DEF ShownIn, ListsInv, PendingNotListed
  <2>4. ShownIn(dest', rows, pends, recovery)
    BY <1>2, <1>4, <2>1, <2>2, <2>3 DEF ShownIn
  <2> QED
    BY <1>1, <1>2, <1>5, <2>1, <2>4
<1> QED
  BY <1>7, <1>8

-----------------------------------------------------------------------------
(* One lemma per handler and step that changes a list or the selection.    *)

LEMMA ConnectedExists ==
  ASSUME ListsInv, NEW e \in ConnectionEvent \cup NoticeEvent, AcceptConnected(e)
  PROVE  SelectionExists' /\ PendingNotListed'
<1> DEFINE u == e.udid
<1>1. u \in Udid /\ e.id \in ConnId
  BY DEF AcceptConnected, ConnectionEvent, NoticeEvent
<1>2. [id |-> e.id, wireless |-> e.wireless] # NoDevice
  BY <1>1 DEF NoDevice, ConnId
<1>3. /\ Listed(row') = Listed(row) \cup {u}
      /\ pending' = pending \ {u} /\ recovery' = recovery
  BY <1>1, <1>2 DEF AcceptConnected, Listed, ListsInv, SessionTypeOK, ContextTypeOK
<1>4. PendingNotListed'
  BY <1>3 DEF ListsInv, PendingNotListed, Listed
<1>5. CASE ShowDevice(u)
  BY <1>3, <1>4, <1>5, ShowDeviceExists, SelectionParts
<1>6. CASE dest # PendingPage(u) /\ current' = u /\ dest' = dest
  <2>1. dest \in Destination /\ ShownIn(dest, row, pending, recovery)
    BY SelectionParts DEF ListsInv, SessionTypeOK, ContextTypeOK
  <2>2. dest.kind = "pendingDevice" => dest.id \in pending \ {u}
    BY <1>6, <2>1, PageOf DEF ShownIn
  <2>3. ShownIn(dest', row', pending', recovery') /\ CurrentIn(current', row')
    BY <1>3, <1>6, <2>1, <2>2 DEF ShownIn, CurrentIn
  <2> QED
    BY <1>4, <2>3, SelectionParts
<1> QED
  BY <1>5, <1>6 DEF AcceptConnected

LEMMA DisconnectedExists ==
  ASSUME ListsInv, NEW e \in ConnectionEvent \cup NoticeEvent, AcceptDisconnected(e)
  PROVE  SelectionExists' /\ PendingNotListed'
<1> DEFINE u == e.udid
<1>1. /\ u \in Udid /\ e.id \in ConnId /\ row[u].id = e.id
      /\ pending' = pending \ {u} /\ recovery' = recovery
      /\ Unlist(u, pending \ {u})
  BY DEF AcceptDisconnected, ConnectionEvent, NoticeEvent
<1>2. u \in Listed(row)
  BY <1>1 DEF Listed, NoDevice, ConnId
<1>3. pending \ {u} \in SUBSET Udid
  BY DEF ListsInv, SessionTypeOK, ContextTypeOK
<1>4. /\ Listed(row') = Listed(row) \ {u}
      /\ ShownIn(dest', row', pending', recovery') /\ CurrentIn(current', row')
  BY <1>1, <1>2, <1>3, UnlistExists
<1>5. PendingNotListed'
  BY <1>1, <1>4 DEF ListsInv, PendingNotListed, Listed
<1> QED
  BY <1>4, <1>5, SelectionParts

LEMMA PendingExists ==
  ASSUME ListsInv, NEW e \in ConnectionEvent \cup NoticeEvent,
         HandlePending(e) \/ HandleFail(e)
  PROVE  SelectionExists' /\ PendingNotListed'
<1> DEFINE u == e.udid
<1>1. u \in Udid /\ row' = row /\ recovery' = recovery
  BY DEF HandlePending, HandleFail, ConnectionEvent, NoticeEvent
<1>2. /\ dest \in Destination /\ pending \in SUBSET Udid /\ recovery \in SUBSET RecoveryId
      /\ ShownIn(dest, row, pending, recovery) /\ CurrentIn(current, row)
  BY SelectionParts DEF ListsInv, SessionTypeOK, ContextTypeOK
<1>3. CASE HandlePending(e) /\ u \in Listed(row) \cup pending
  <2>1. /\ pending' = pending /\ dest' = dest /\ current' = current
    BY <1>3 DEF HandlePending
  <2> QED
    BY <1>1, <1>2, <2>1, SelectionParts DEF ListsInv, PendingNotListed, Listed
<1>4. CASE HandlePending(e) /\ u \notin Listed(row) \cup pending
  <2>1. /\ pending' = pending \cup {u} /\ current' = current
        /\ dest' \in {dest, PendingPage(u)}
    BY <1>4 DEF HandlePending
  <2>2. PendingNotListed'
    BY <1>1, <1>4, <2>1 DEF ListsInv, PendingNotListed, Listed
  <2>3. ShownIn(dest', row', pending', recovery') /\ CurrentIn(current', row')
    BY <1>1, <1>2, <2>1, Pages DEF ShownIn
  <2> QED
    BY <2>2, <2>3, SelectionParts
<1>5. CASE HandleFail(e)
  <2>1. pending' = pending \ {u} /\ pending \ {u} \in SUBSET Udid
    BY <1>2, <1>5 DEF HandleFail
  <2>2. PendingNotListed'
    BY <1>1, <2>1 DEF ListsInv, PendingNotListed, Listed
  <2>3. CASE dest = PendingPage(u) /\ u \in pending
    BY <1>1, <1>2, <1>5, <2>1, <2>2, <2>3, FallbackExists, SelectionParts DEF HandleFail
  <2>4. CASE ~(dest = PendingPage(u) /\ u \in pending)
    <3>1. dest' = dest /\ current' = current
      BY <1>5, <2>4 DEF HandleFail, selection
    <3>2. dest.kind = "pendingDevice" => dest.id \in pending \ {u}
      BY <1>2, <2>4, PageOf DEF ShownIn
    <3>3. ShownIn(dest', row', pending', recovery') /\ CurrentIn(current', row')
      BY <1>1, <1>2, <2>1, <3>1, <3>2 DEF ShownIn
    <3> QED
      BY <2>2, <3>3, SelectionParts
  <2> QED
    BY <2>3, <2>4
<1> QED
  BY <1>3, <1>4, <1>5

LEMMA RecoveryExists ==
  ASSUME ListsInv, NEW r \in RecoveryId, RecoveryAdded(r) \/ RecoveryRemoved(r)
  PROVE  SelectionExists' /\ PendingNotListed'
<1>1. row' = row /\ pending' = pending
  BY DEF RecoveryAdded, RecoveryRemoved
<1>2. /\ dest \in Destination /\ pending \in SUBSET Udid /\ recovery \in SUBSET RecoveryId
      /\ ShownIn(dest, row, pending, recovery) /\ CurrentIn(current, row)
  BY SelectionParts DEF ListsInv, SessionTypeOK, ContextTypeOK
<1>3. PendingNotListed'
  BY <1>1 DEF ListsInv, PendingNotListed, Listed
<1>4. CASE RecoveryAdded(r)
  <2>1. /\ recovery' = recovery \cup {r} /\ current' = current
        /\ dest' \in {dest, RecoveryPage(r)}
    BY <1>4 DEF RecoveryAdded
  <2>2. ShownIn(dest', row', pending', recovery') /\ CurrentIn(current', row')
    BY <1>1, <1>2, <2>1, Pages DEF ShownIn
  <2> QED
    BY <1>3, <2>2, SelectionParts
<1>5. CASE RecoveryRemoved(r) /\ dest = RecoveryPage(r)
  <2>1. recovery' = recovery \ {r} /\ Fallback(current, row, recovery \ {r}, pending)
    BY <1>5 DEF RecoveryRemoved
  <2>2. recovery \ {r} \in SUBSET RecoveryId
    BY <1>2
  <2> QED
    BY <1>1, <1>2, <1>3, <2>1, <2>2, FallbackExists, SelectionParts
<1>6. CASE RecoveryRemoved(r) /\ dest # RecoveryPage(r)
  <2>1. recovery' = recovery \ {r} /\ dest' = dest /\ current' = current
    BY <1>6 DEF RecoveryRemoved, selection
  <2>2. dest.kind = "recoveryDevice" => dest.id \in recovery \ {r}
    BY <1>2, <1>6, PageOf DEF ShownIn
  <2>3. ShownIn(dest', row', pending', recovery') /\ CurrentIn(current', row')
    BY <1>1, <1>2, <2>1, <2>2 DEF ShownIn
  <2> QED
    BY <1>3, <2>3, SelectionParts
<1> QED
  BY <1>4, <1>5, <1>6

(* Steps that leave the lists alone and move the selection within them.    *)
LEMMA SelectionMoves ==
  ASSUME ListsInv, UNCHANGED lists,
         \/ UNCHANGED selection
         \/ \E u \in Listed(row) : ShowDevice(u)
         \/ \E u \in Listed(row) : current' = u /\ UNCHANGED dest
         \/ \E u \in pending : dest' = PendingPage(u) /\ UNCHANGED current
         \/ \E r \in recovery : dest' = RecoveryPage(r) /\ UNCHANGED current
         \/ dest' \in {Welcome, Page} /\ UNCHANGED current
  PROVE  SelectionExists' /\ PendingNotListed'
<1>1. row' = row /\ pending' = pending /\ recovery' = recovery
  BY DEF lists
<1>2. PendingNotListed'
  BY <1>1 DEF ListsInv, PendingNotListed, Listed
<1>3. /\ pending \in SUBSET Udid /\ recovery \in SUBSET RecoveryId
      /\ ShownIn(dest, row, pending, recovery) /\ CurrentIn(current, row)
  BY SelectionParts DEF ListsInv, SessionTypeOK, ContextTypeOK
<1>4. CASE \E u \in Listed(row) : ShowDevice(u)
  BY <1>1, <1>2, <1>4, ShowDeviceExists, SelectionParts
<1>5. CASE \E u \in Listed(row) : current' = u /\ UNCHANGED dest
  <2>1. ShownIn(dest', row', pending', recovery') /\ CurrentIn(current', row')
    BY <1>1, <1>3, <1>5 DEF CurrentIn
  <2> QED
    BY <1>2, <2>1, SelectionParts
<1>6. CASE UNCHANGED selection
  <2>1. ShownIn(dest', row', pending', recovery') /\ CurrentIn(current', row')
    BY <1>1, <1>3, <1>6 DEF selection
  <2> QED
    BY <1>2, <2>1, SelectionParts
<1>7. CASE /\ UNCHANGED current
           /\ \/ \E u \in pending : dest' = PendingPage(u)
              \/ \E r \in recovery : dest' = RecoveryPage(r)
              \/ dest' \in {Welcome, Page}
  <2>1. ShownIn(dest', row', pending', recovery') /\ CurrentIn(current', row')
    BY <1>1, <1>3, <1>7, Pages DEF ShownIn
  <2> QED
    BY <1>2, <2>1, SelectionParts
<1> QED
  BY <1>4, <1>5, <1>6, <1>7

LEMMA HandlerLists ==
  ASSUME ListsInv, NEW e \in ConnectionEvent \cup NoticeEvent, HandleEvent(e)
  PROVE  SelectionExists' /\ PendingNotListed'
<1>1. CASE IgnoreConnected(e) \/ IgnoreDisconnected(e) \/ HandleAttemptFailed(e)
  BY <1>1, SelectionMoves
     DEF IgnoreConnected, IgnoreDisconnected, HandleAttemptFailed, contextVars
<1>2. CASE SkipWireless(e)
  <2>1. e.udid \in Listed(row)
    BY <1>2 DEF SkipWireless, UsbListed, Listed, ConnectionEvent, NoticeEvent
  <2> QED
    BY <1>2, <2>1, SelectionMoves DEF SkipWireless
<1> QED
  BY <1>1, <1>2, ConnectedExists, DisconnectedExists, PendingExists DEF HandleEvent

LEMMA TryConnectMoves ==
  ASSUME NEW u \in Udid, NEW select \in BOOLEAN, TryConnect(u, select)
  PROVE  UNCHANGED selection \/ \E v \in Listed(row) : ShowDevice(v)
BY DEF TryConnect, AlreadyConnected, UpgradeAttempt, StartAttempt

LEMMA InterfaceLists ==
  ASSUME ListsInv, InterfaceStep
  PROVE  SelectionExists' /\ PendingNotListed'
<1>1. CASE \E r \in RecoveryId : RecoveryAdded(r) \/ RecoveryRemoved(r)
  BY <1>1, RecoveryExists
<1>2. ASSUME NEW u \in Udid, NEW select \in BOOLEAN,
             ConnectNetworkDevice(u, select) \/ RunLater(u, select)
      PROVE  SelectionExists' /\ PendingNotListed'
  <2>1. UNCHANGED lists /\ (TryConnect(u, select) \/ UNCHANGED selection)
    BY <1>2 DEF ConnectNetworkDevice, RunLater
  <2> QED
    BY <2>1, TryConnectMoves, SelectionMoves
<1>3. ASSUME NEW u \in Udid, RemoveDevice(u)
      PROVE  SelectionExists' /\ PendingNotListed'
  <2>1. u \in Listed(row) /\ Unlist(u, pending) /\ pending' = pending /\ recovery' = recovery
    BY <1>3 DEF RemoveDevice
  <2>2. pending \in SUBSET Udid
    BY DEF ListsInv, SessionTypeOK, ContextTypeOK
  <2>3. /\ Listed(row') = Listed(row) \ {u}
        /\ ShownIn(dest', row', pending', recovery') /\ CurrentIn(current', row')
    BY <2>1, <2>2, UnlistExists
  <2>4. PendingNotListed'
    BY <2>1, <2>3 DEF ListsInv, PendingNotListed, Listed
  <2> QED
    BY <2>3, <2>4, SelectionParts
<1>4. CASE Navigate
  BY <1>4, SelectionMoves DEF Navigate
<1> QED
  BY <1>1, <1>2, <1>3, <1>4 DEF InterfaceStep

-----------------------------------------------------------------------------
(* The invariant and its two parts.                                        *)

LEMMA ListsInit == SessionInit => ListsInv
<1> SUFFICES ASSUME SessionInit PROVE ListsInv
  OBVIOUS
<1>1. Listed(row) = {} /\ pending = {} /\ current = NoUdid /\ dest = Welcome
  BY DEF SessionInit, ContextInit, Listed
<1>2. SelectionExists
  BY <1>1, Pages DEF SelectionExists
<1>3. PendingNotListed
  BY <1>1 DEF PendingNotListed
<1> QED
  BY <1>2, <1>3, TypeInit DEF ListsInv

LEMMA ListsStep == ListsInv /\ [SessionNext]_sessionVars => ListsInv'
<1> SUFFICES ASSUME ListsInv, [SessionNext]_sessionVars
             PROVE  SelectionExists' /\ PendingNotListed'
  BY TypeStep DEF ListsInv
<1>1. CASE UNCHANGED contextVars
  BY <1>1, SelectionMoves DEF contextVars
<1>2. CASE HandleSignal
  <2>1. Head(events) \in ConnectionEvent \cup NoticeEvent
    BY <1>2, QueueShrinks DEF HandleSignal, ListsInv
  <2> QED
    BY <1>2, <2>1, HandlerLists DEF HandleSignal
<1>3. CASE Interface
  BY <1>3, InterfaceLists DEF Interface
<1> QED
  BY <1>1, <1>2, <1>3
     DEF SessionNext, Backend, EmitOwed, Discover, RunRemoval, sessionVars

LEMMA ListsAlways == SessionSpec => []ListsInv
BY ListsInit, ListsStep, PTL DEF SessionSpec

(* No order of signals, removals and clicks leaves the page or the current *)
(* device on an entry that is no longer listed.                            *)
THEOREM ShownExists == SessionSpec => []SelectionExists
<1>1. ListsInv => SelectionExists
  BY DEF ListsInv
<1> QED
  BY <1>1, ListsAlways, PTL

(* No device is listed as connected and as pairing at once.                *)
THEOREM ConnectedNotPairing == SessionSpec => []PendingNotListed
<1>1. ListsInv => PendingNotListed
  BY DEF ListsInv
<1> QED
  BY <1>1, ListsAlways, PTL

-----------------------------------------------------------------------------
(* What UsbIsListed rests on.                                              *)

(* A registered USB connection that is not listed has its announcement     *)
(* still to come, unless the user has it removed.                          *)
UsbAnnounced ==
  \A u \in Udid :
    registry[u] # NoDevice /\ ~registry[u].wireless /\ row[u].id # registry[u].id =>
      \/ <<u, registry[u].id>> \in removals
      \/ Coming(Connected(u, registry[u].id, FALSE))

(* A step of the backend lists nothing, and announces what it registers.   *)
LEMMA BackendKeepsUsb ==
  ASSUME SessionInv, SessionTypeOK', UsbAnnounced, UNCHANGED <<row, removals>>,
         \A x \in ConnectionEvent : Coming(x) => Coming(x)',
         \A u \in Udid, c \in ConnId : IsCurrent(u, c)' =>
           \/ registry'[u] = registry[u]
           \/ \E w \in BOOLEAN : registry'[u].wireless = w /\ Coming(Connected(u, c, w))'
  PROVE  UsbAnnounced'
<1> SUFFICES ASSUME NEW u \in Udid, NEW c, c = registry'[u].id, registry'[u] # NoDevice,
                    ~registry'[u].wireless, row[u].id # c
             PROVE  <<u, c>> \in removals \/ Coming(Connected(u, c, FALSE))'
  BY DEF UsbAnnounced
<1>1. registry'[u] \in Connection
  BY DEF SessionTypeOK, SignalsTypeOK, RegistryTypeOK
<1>2. c \in ConnId /\ registry'[u].wireless = FALSE /\ IsCurrent(u, c)'
  BY <1>1 DEF Connection, IsCurrent
<1>3. CASE registry'[u] = registry[u]
  BY <1>2, <1>3, FeedSignals DEF UsbAnnounced
<1>4. CASE \E w \in BOOLEAN : registry'[u].wireless = w /\ Coming(Connected(u, c, w))'
  BY <1>2, <1>4
<1> QED
  BY <1>2, <1>3, <1>4

LEMMA RegisterKeepsUsb ==
  ASSUME SessionInv, SessionTypeOK', UsbAnnounced,
         NEW u \in Udid, NEW c \in ConnId, NEW w \in BOOLEAN,
         Register(u, c, w), UNCHANGED <<removals, contextVars>>
  PROVE  UsbAnnounced'
<1>1. /\ registry' = [registry EXCEPT ![u] = [id |-> c, wireless |-> w]]
      /\ owed \subseteq owed' /\ Connected(u, c, w) \in owed' /\ events' = events
      /\ UNCHANGED <<row, removals>>
  BY DEF Register, Insert, contextVars, lists
<1>2. \A x : Coming(x) => Coming(x)'
  BY <1>1 DEF Coming, InQueue
<1>3. Coming(Connected(u, c, w))'
  BY <1>1 DEF Coming
<1>4. \A v \in Udid :
        \/ registry'[v] = registry[v]
        \/ v = u /\ registry'[v].id = c /\ registry'[v].wireless = w
  BY <1>1 DEF SessionInv, SessionTypeOK, SignalsTypeOK, RegistryTypeOK
<1>5. \A v \in Udid, d \in ConnId : IsCurrent(v, d)' =>
        \/ registry'[v] = registry[v]
        \/ v = u /\ d = c /\ registry'[v].wireless = w
  BY <1>4 DEF IsCurrent
<1> QED
  BY <1>1, <1>2, <1>3, <1>5, BackendKeepsUsb

(* A connection leaves the registry; the removal that took it out was its  *)
(* own.                                                                    *)
LEMMA DropKeepsUsb ==
  ASSUME SessionInv, SessionTypeOK', UsbAnnounced, NEW u \in Udid, NEW c \in ConnId,
         Drop(u, c), UNCHANGED <<removals, contextVars>>
  PROVE  UsbAnnounced'
<1>1. /\ registry' = [registry EXCEPT ![u] = NoDevice]
      /\ owed \subseteq owed' /\ events' = events /\ UNCHANGED <<row, removals>>
  BY DEF Drop, RemoveIfCurrent, contextVars, lists
<1>2. \A x : Coming(x) => Coming(x)'
  BY <1>1 DEF Coming, InQueue
<1>3. \A v \in Udid, d \in ConnId : IsCurrent(v, d)' => registry'[v] = registry[v]
  BY <1>1 DEF SessionInv, SessionTypeOK, SignalsTypeOK, RegistryTypeOK, IsCurrent
<1> QED
  BY <1>1, <1>2, <1>3, BackendKeepsUsb

LEMMA RemovalKeepsUsb ==
  ASSUME SessionInv, UsbAnnounced, NEW u \in Udid, NEW c \in ConnId, RunRemoval(u, c)
  PROVE  UsbAnnounced'
<1>1. /\ removals' = removals \ {<<u, c>>}
      /\ owed' = owed /\ events' = events /\ row' = row
      /\ \/ registry' = [registry EXCEPT ![u] = NoDevice]
         \/ registry' = registry /\ ~IsCurrent(u, c)
  BY DEF RunRemoval, Forget, RemoveIfCurrent, feedVars, contextVars, lists
<1>2. \A x : Coming(x)' <=> Coming(x)
  BY <1>1 DEF Coming, InQueue
<1>3. \A v \in Udid : registry'[v] # NoDevice =>
        registry'[v] = registry[v] /\ (v = u => registry[v].id # c)
  BY <1>1 DEF SessionInv, SessionTypeOK, SignalsTypeOK, RegistryTypeOK, IsCurrent
<1> QED
  BY <1>1, <1>2, <1>3 DEF UsbAnnounced

(* What is queued or noticed takes no announcement away.                   *)
LEMMA QueueKeepsUsb ==
  ASSUME SessionInv, SessionTypeOK', UsbAnnounced, NEW e \in ConnectionEvent \cup NoticeEvent,
         Queue(e), registry' = registry, owed \ {e} \subseteq owed',
         UNCHANGED <<removals, contextVars>>
  PROVE  UsbAnnounced'
<1>1. /\ Len(events') = Len(events) + 1 /\ Len(events) \in Nat
      /\ \A i \in 1 .. Len(events) : events'[i] = events[i]
      /\ events'[Len(events) + 1] = e
  BY QueueGrows DEF SessionInv
<1>2. \A i \in 1 .. Len(events) : i \in 1 .. Len(events')
  BY <1>1
<1>3. Len(events) + 1 \in 1 .. Len(events')
  BY <1>1
<1>4. \A x : InQueue(x) => InQueue(x)'
  BY <1>1, <1>2 DEF InQueue
<1>5. InQueue(e)'
  BY <1>1, <1>3 DEF InQueue
<1>6. \A x : Coming(x) => Coming(x)'
  BY <1>4, <1>5 DEF Coming
<1>7. UNCHANGED <<row, removals>>
  BY DEF contextVars, lists
<1> QED
  BY <1>6, <1>7, BackendKeepsUsb

(* The announcement of a USB connection that is registered and not listed  *)
(* is accepted: it is neither stale nor superfluous, and skipping is for   *)
(* wireless connections only.                                              *)
LEMMA UsbAccepted ==
  ASSUME SessionTypeOK, NEW u \in Udid, NEW c \in ConnId, IsCurrent(u, c), row[u].id # c,
         HandleEvent(Connected(u, c, FALSE))
  PROVE  row'[u].id = c
<1> DEFINE e == Connected(u, c, FALSE)
<1>1. e.type = "connected" /\ e.udid = u /\ e.id = c /\ e.wireless = FALSE
  BY DEF Connected, Event
<1>2. Fresh(e)
  BY <1>1 DEF Fresh
<1> HIDE DEF e
<1>3. HandleEvent(e)
  BY DEF e
<1>4. AcceptConnected(e)
  BY <1>1, <1>2, <1>3
     DEF HandleEvent, IgnoreConnected, SkipWireless, IgnoreDisconnected, AcceptDisconnected,
         HandlePending, HandleFail, HandleAttemptFailed
<1> QED
  BY <1>1, <1>4 DEF AcceptConnected, SessionTypeOK, ContextTypeOK

LEMMA SignalKeepsUsb ==
  ASSUME SessionInv, UsbAnnounced, HandleSignal
  PROVE  UsbAnnounced'
<1> PICK e \in ConnectionEvent \cup NoticeEvent : e = Head(events)
  BY QueueShrinks DEF HandleSignal, SessionInv
<1>1. /\ registry' = registry /\ owed' = owed /\ removals' = removals
      /\ HandleEvent(e) /\ Deliver
  BY DEF HandleSignal, Deliver, HandleEvent
<1>2. /\ Len(events) \in Nat \ {0} /\ Len(events') = Len(events) - 1
      /\ \A i \in 1 .. Len(events') : events'[i] = events[i + 1]
      /\ e = events[1]
  BY <1>1, QueueShrinks DEF SessionInv
<1>3. \A x : InQueue(x) => InQueue(x)' \/ x = e
  <2> TAKE x
  <2> HAVE InQueue(x)
  <2>1. PICK i \in 1 .. Len(events) : events[i] = x
    BY DEF InQueue
  <2>2. CASE i = 1
    BY <1>2, <2>1, <2>2
  <2>3. CASE i # 1
    <3>1. i - 1 \in 1 .. Len(events') /\ events'[i - 1] = x
      BY <1>2, <2>1, <2>3
    <3> QED
      BY <3>1 DEF InQueue
  <2> QED
    BY <2>2, <2>3
<1> SUFFICES ASSUME NEW u \in Udid, NEW c, c = registry[u].id, registry[u] # NoDevice,
                    ~registry[u].wireless, row'[u].id # c, <<u, c>> \notin removals
             PROVE  Coming(Connected(u, c, FALSE))'
  BY <1>1 DEF UsbAnnounced
<1>4. c \in ConnId /\ IsCurrent(u, c)
  BY DEF SessionInv, SessionTypeOK, SignalsTypeOK, RegistryTypeOK, Connection, IsCurrent
<1>5. CASE row[u].id = c
  <2>1. row \in [Udid -> Connection \cup {NoDevice}]
    BY DEF SessionInv, SessionTypeOK, ContextTypeOK
  <2>2. row'[u] # row[u]
    BY <1>5
  <2>r. /\ e.udid \in Udid
        /\ \/ /\ e.type = "connected" /\ IsCurrent(e.udid, e.id)
              /\ row' = [row EXCEPT ![e.udid] = [id |-> e.id, wireless |-> e.wireless]]
           \/ /\ e.type = "disconnected" /\ row[e.udid].id = e.id
              /\ row' = [row EXCEPT ![e.udid] = NoDevice]
           \/ row' = row
    BY <1>1, HandlerRows DEF SessionInv
  <2>3. e.udid = u
    BY <2>r, <2>1, <2>2
  <2>4. CASE e.type = "connected" /\ IsCurrent(e.udid, e.id)
    <3>1. e.id = c
      BY <1>4, <2>3, <2>4 DEF IsCurrent
    <3>2. row'[u] = [id |-> e.id, wireless |-> e.wireless] \/ row'[u] = row[u]
      BY <2>r, <2>1, <2>3, <2>4
    <3> QED
      BY <2>2, <3>1, <3>2
  <2>5. CASE e.type = "disconnected" /\ row[e.udid].id = e.id
    <3>1. e = Disconnected(u, c)
      BY <1>5, <2>3, <2>5 DEF ConnectionEvent, NoticeEvent, Disconnected, Event
    <3>2. Coming(Disconnected(u, c))
      BY <1>2, <3>1 DEF Coming, InQueue
    <3> QED
      BY <1>4, <3>2 DEF SessionInv, EndedConnections
  <2> QED
    BY <2>r, <2>2, <2>4, <2>5
<1>6. CASE row[u].id # c
  <2>1. Coming(Connected(u, c, FALSE))
    BY <1>6 DEF UsbAnnounced
  <2>2. Connected(u, c, FALSE) # e
    BY <1>1, <1>4, <1>6, UsbAccepted DEF SessionInv
  <2> QED
    BY <1>1, <1>3, <2>1, <2>2 DEF Coming
<1> QED
  BY <1>5, <1>6

LEMMA InterfaceKeepsUsb ==
  ASSUME SessionInv, UsbAnnounced, Interface
  PROVE  UsbAnnounced'
<1>1. registry' = registry /\ events' = events /\ owed' = owed /\ InterfaceStep
  BY DEF Interface, feedVars
<1>2. \A x : Coming(x)' <=> Coming(x)
  BY <1>1 DEF Coming, InQueue
<1>3. CASE UNCHANGED <<row, removals>>
  BY <1>1, <1>2, <1>3 DEF UsbAnnounced
<1>4. ASSUME NEW u \in Udid, row' = [row EXCEPT ![u] = NoDevice],
             removals' = removals \cup {<<u, row[u].id>>}
      PROVE  UsbAnnounced'
  <2>1. \A v \in Udid : v # u => row'[v] = row[v]
    BY <1>4 DEF SessionInv, SessionTypeOK, ContextTypeOK
  <2> QED
    BY <1>1, <1>2, <1>4, <2>1 DEF UsbAnnounced
<1> QED
  BY <1>1, <1>3, <1>4, InterfaceRows DEF SessionInv

LEMMA UsbInitially == SessionInit => UsbAnnounced
BY DEF SessionInit, SignalsInit, FeedInit, RegistryInit, UsbAnnounced

LEMMA UsbStep == SessionInv /\ UsbAnnounced /\ [SessionNext]_sessionVars => UsbAnnounced'
<1> SUFFICES ASSUME SessionInv, UsbAnnounced, [SessionNext]_sessionVars PROVE UsbAnnounced'
  OBVIOUS
<1>1. SessionTypeOK'
  BY TypeStep DEF SessionInv
<1>2. UNCHANGED feedVars /\ UNCHANGED <<removals, contextVars>> => UsbAnnounced'
  BY DEF UsbAnnounced, Coming, InQueue, feedVars, contextVars, lists
<1>3. ASSUME NEW e \in NoticeEvent, Notify(e), UNCHANGED <<removals, contextVars>>
      PROVE  UsbAnnounced'
  BY <1>1, <1>3, QueueKeepsUsb DEF Notify
<1>4. CASE Backend
  BY <1>1, <1>3, <1>4, RegisterKeepsUsb, DropKeepsUsb DEF Backend
<1>5. ASSUME NEW e \in owed, EmitOwed(e)
      PROVE  UsbAnnounced'
  <2>1. e \in ConnectionEvent \cup NoticeEvent
    BY QueueElements DEF SessionInv
  <2> QED
    BY <1>1, <1>5, <2>1, QueueKeepsUsb DEF EmitOwed, Emit
<1>6. ASSUME NEW u \in Udid, Discover(u)
      PROVE  UsbAnnounced'
  BY <1>2, <1>3, <1>6, FeedSignals DEF Discover
<1>7. CASE \E u \in Udid, c \in ConnId : RunRemoval(u, c)
  BY <1>7, RemovalKeepsUsb
<1>8. CASE HandleSignal
  BY <1>8, SignalKeepsUsb
<1>9. CASE Interface
  BY <1>9, InterfaceKeepsUsb
<1>10. CASE UNCHANGED sessionVars
  BY <1>2, <1>10 DEF sessionVars
<1> QED
  BY <1>4, <1>5, <1>6, <1>7, <1>8, <1>9, <1>10 DEF SessionNext

(* No USB connection is passed over: while one is registered and not       *)
(* listed, and the user did not have it removed, the signal that will list *)
(* it is owed or queued (insert_device and qt_emit in core.rs; the checks  *)
(* of onDeviceEvent in DeviceContext.qml).                                 *)
THEOREM UsbStaysAnnounced == SessionSpec => []UsbAnnounced
BY InvInit, InvStep, UsbInitially, UsbStep, PTL DEF SessionSpec
=============================================================================
