-------------------------- MODULE DaemonThreadsProofs -------------------------
(***************************************************************************)
(* Proofs about the two background threads of the daemon that tell its     *)
(* clients what is new: SysDiag, the warnings of the system diagnostics    *)
(* (for every number of clients and all warnings), and RosState, the lists *)
(* of ROS nodes, topics and services (for every number of clients, lists   *)
(* and changes of the graph).  The two share no state; what both modules   *)
(* would call Init, Next or Spec has the prefix Diag in SysDiag.           *)
(***************************************************************************)
EXTENDS SysDiag, RosState, TLAPS

-----------------------------------------------------------------------------
(* SysDiag: the invariant. *)

(* What the thread knows of a subscriber that its count passed over: the    *)
(* client subscribed after it was asked.  So nothing was sent to it yet,    *)
(* and unless the event is set its change is still, or never, announced.    *)
NewComer(c) ==
    /\ known[c] = Unknown
    /\ ~wakeup /\ stopper = "no" => c \in announcing \cup silent

PassedOver ==
    /\ thread = "count" /\ ~found => \A c \in subscribers \ toAsk : NewComer(c)
    /\ thread = "reset" => \A c \in subscribers : NewComer(c)

DiagIInv == DiagTypeOK /\ PassedOver /\ ChangeSeen /\ KnownIsState /\ NewsOnly

LEMMA DiagInitIInv == DiagInit => DiagIInv
<1> SUFFICES ASSUME DiagInit
             PROVE  DiagIInv
  OBVIOUS
<1>1. DiagTypeOK
  BY SignaturesAssumption DEF DiagInit, DiagTypeOK, Places
<1>2. PassedOver /\ ChangeSeen /\ KnownIsState /\ NewsOnly
  BY DEF DiagInit, PassedOver, ChangeSeen, KnownIsState, NewsOnly
<1> QED
  BY <1>1, <1>2 DEF DiagIInv

(* The type invariant is inductive on its own. *)
LEMMA DiagNextTypeOK == DiagTypeOK /\ [DiagNext]_diagVars => DiagTypeOK'
<1> SUFFICES ASSUME DiagTypeOK, [DiagNext]_diagVars
             PROVE  DiagTypeOK'
  OBVIOUS
<1> USE DEF DiagTypeOK
<1>1. CASE CheckStop \/ ClearWakeup \/ EndCount \/ Reset \/ IdleEnds \/ PauseEnds
  BY <1>1, SignaturesAssumption
  DEF CheckStop, ClearWakeup, EndCount, Reset, IdleEnds, PauseEnds, At, Places,
      WakeupAfterCount, StateOfReset, loopVars, stopVars, clientVars
<1>2. ASSUME NEW c \in Clients, AskClient(c)
      PROVE  DiagTypeOK'
  BY <1>2 DEF AskClient, Counted, stopVars, clientVars
<1>3. CASE Measure \/ MeasureNothing
  BY <1>3 DEF Measure, MeasureNothing, At, Places, loopVars, stopVars, clientVars
<1>4. CASE Publish
  BY <1>4 DEF Publish, At, Places, loopVars, stopVars
<1>5. CASE Stop
  BY <1>5 DEF Stop, RemoveListener, SetStopEvent, SetWakeup, Join, StopAt, loopVars, clientVars
<1>6. CASE WarningsChange \/ ReloadParameter
  BY <1>6 DEF WarningsChange, ReloadParameter, loopVars, stopVars, clientVars
<1>7. ASSUME NEW c \in Clients, Subscribe(c) \/ Unsubscribe(c) \/ OnSubscriptionChanged(c)
      PROVE  DiagTypeOK'
  BY <1>7 DEF Subscribe, Unsubscribe, Announced, OnSubscriptionChanged, loopVars, stopVars
<1>8. CASE UNCHANGED diagVars
  BY <1>8 DEF diagVars
<1> QED
  BY <1>1, <1>2, <1>3, <1>4, <1>5, <1>6, <1>7, <1>8 DEF DiagNext, Loop

-----------------------------------------------------------------------------
(* The steps of the loop. *)

LEMMA LoopPassedOver ==
    ASSUME DiagIInv, Loop
    PROVE  PassedOver'
<1> USE DEF DiagIInv, PassedOver, NewComer
<1>1. CASE ClearWakeup
  BY <1>1 DEF ClearWakeup, At, DiagTypeOK, clientVars
<1>2. ASSUME NEW c \in Clients, AskClient(c)
      PROVE  PassedOver'
  <2>1. ASSUME ~found', NEW d \in subscribers \ toAsk'
        PROVE  d \in subscribers \ toAsk /\ ~found
    BY <1>2, <2>1 DEF AskClient, Counted
  <2> QED
    BY <1>2, <2>1 DEF AskClient, clientVars, stopVars
<1>3. CASE EndCount
  BY <1>3 DEF EndCount, WakeupAfterCount, loopVars, clientVars, stopVars
<1>4. CASE CheckStop \/ Reset \/ IdleEnds \/ PauseEnds \/ Measure \/ MeasureNothing \/ Publish
  BY <1>4 DEF CheckStop, Reset, IdleEnds, PauseEnds, Measure, MeasureNothing, Publish, At
<1> QED
  BY <1>1, <1>2, <1>3, <1>4 DEF Loop

LEMMA LoopChangeSeen ==
    ASSUME DiagIInv, Loop
    PROVE  ChangeSeen'
<1>1. CASE Reset
  BY <1>1 DEF DiagIInv, PassedOver, NewComer, Reset, At, ChangeSeen, clientVars, stopVars
<1>2. CASE ~ Reset
  <2>1. thread' # "idle"
    BY <1>2 DEF Loop, CheckStop, ClearWakeup, EndCount, IdleEnds, PauseEnds, Measure,
                MeasureNothing, Publish, AskClient, At
  <2> QED
    BY <2>1 DEF ChangeSeen
<1> QED
  BY <1>1, <1>2

(* The two steps that change the state or what the clients know. *)
LEMMA LoopKnown ==
    ASSUME DiagIInv, Loop
    PROVE  KnownIsState' /\ NewsOnly'
<1> USE DEF DiagIInv, KnownIsState, NewsOnly
<1>1. CASE Reset
  BY <1>1 DEF PassedOver, NewComer, Reset, At, clientVars
<1>2. CASE Measure
  <2>1. \A c \in subscribers : known[c] # active
    BY <1>2, SignaturesAssumption DEF Measure, At, News, DiagTypeOK
  <2> QED
    BY <1>2, <2>1 DEF Measure, At, clientVars
<1>3. CASE Publish
  <2>1. PICK full \in SUBSET Slow :
          known' = [c \in Clients |->
            IF c \notin subscribers THEN known[c] ELSE IF c \in full THEN Missed ELSE state]
    BY <1>3 DEF Publish
  <2>2. subscribers' = subscribers /\ state' = state /\ thread' = "pause"
    BY <1>3 DEF Publish, At, loopVars
  <2>3. \A c \in subscribers : known'[c] \in {Missed, state}
    BY <2>1 DEF DiagTypeOK
  <2> QED
    BY <2>2, <2>3
<1>4. CASE CheckStop \/ ClearWakeup \/ EndCount \/ IdleEnds \/ PauseEnds \/ MeasureNothing
  BY <1>4 DEF CheckStop, ClearWakeup, EndCount, IdleEnds, PauseEnds, MeasureNothing, At,
              loopVars, clientVars
<1>5. ASSUME NEW c \in Clients, AskClient(c)
      PROVE  KnownIsState' /\ NewsOnly'
  BY <1>5 DEF AskClient, clientVars
<1> QED
  BY <1>1, <1>2, <1>3, <1>4, <1>5 DEF Loop

-----------------------------------------------------------------------------
(* The steps of the others. *)

(* A client that subscribes is a new comer. *)
LEMMA SubscribeIInv ==
    ASSUME DiagIInv, NEW c \in Clients, Subscribe(c), DiagTypeOK'
    PROVE  DiagIInv'
<1> USE DEF DiagIInv, Subscribe, Announced, loopVars, stopVars
<1>1. /\ \A d \in subscribers' : d = c \/ (d \in subscribers /\ d # c)
      /\ known'[c] = Unknown /\ c \in announcing' \cup silent'
      /\ \A d \in subscribers : d # c => known'[d] = known[d]
      /\ \A d \in subscribers : d \in announcing \cup silent => d \in announcing' \cup silent'
  <2>1. known' = [known EXCEPT ![c] = Unknown] /\ known \in [Clients -> Signatures \cup {Unknown, Missed}]
    BY DEF DiagTypeOK
  <2>2. \A d \in Clients : known'[d] = IF d = c THEN Unknown ELSE known[d]
    BY <2>1
  <2>3. subscribers \subseteq Clients /\ c \notin subscribers
    BY DEF DiagTypeOK
  <2> QED
    BY <2>2, <2>3
<1>2. PassedOver'
  BY <1>1 DEF PassedOver, NewComer
<1>3. ChangeSeen'
  BY <1>1 DEF ChangeSeen
<1>4. KnownIsState'
  BY <1>1 DEF KnownIsState
<1>5. NewsOnly'
  BY <1>1, SignaturesAssumption DEF NewsOnly, DiagTypeOK
<1> QED
  BY <1>2, <1>3, <1>4, <1>5

LEMMA UnsubscribeIInv ==
    ASSUME DiagIInv, NEW c \in Clients, Unsubscribe(c), DiagTypeOK'
    PROVE  DiagIInv'
<1> USE DEF DiagIInv, Unsubscribe, Announced, loopVars, stopVars
<1>1. /\ subscribers' \subseteq subscribers
      /\ \A d \in subscribers' : d \in announcing \cup silent => d \in announcing' \cup silent'
  OBVIOUS
<1>2. PassedOver'
  BY <1>1 DEF PassedOver, NewComer
<1>3. ChangeSeen'
  BY <1>1 DEF ChangeSeen
<1>4. KnownIsState' /\ NewsOnly'
  BY <1>1 DEF KnownIsState, NewsOnly
<1> QED
  BY <1>2, <1>3, <1>4

(* The listener sets the event, unless stop() removed it. *)
LEMMA AnnouncedIInv ==
    ASSUME DiagIInv, NEW c \in Clients, OnSubscriptionChanged(c), DiagTypeOK'
    PROVE  DiagIInv'
<1> USE DEF DiagIInv, OnSubscriptionChanged, loopVars, stopVars
<1>1. PassedOver' /\ ChangeSeen'
  BY DEF PassedOver, NewComer, ChangeSeen
<1>2. KnownIsState' /\ NewsOnly'
  BY DEF KnownIsState, NewsOnly
<1> QED
  BY <1>1, <1>2

LEMMA OthersIInv ==
    ASSUME DiagIInv, DiagTypeOK', Stop \/ WarningsChange \/ ReloadParameter \/ UNCHANGED diagVars
    PROVE  DiagIInv'
<1> USE DEF DiagIInv
<1>1. /\ UNCHANGED <<thread, loopVars, clientVars>>
      /\ wakeup => wakeup'
      /\ stopper' = "no" => stopper = "no"
  BY DEF Stop, RemoveListener, SetStopEvent, SetWakeup, Join, StopAt, WarningsChange,
         ReloadParameter, loopVars, stopVars, clientVars, diagVars
<1>2. PassedOver' /\ ChangeSeen'
  BY <1>1 DEF PassedOver, NewComer, ChangeSeen, loopVars, clientVars
<1>3. KnownIsState' /\ NewsOnly'
  BY <1>1 DEF KnownIsState, NewsOnly, loopVars, clientVars
<1> QED
  BY <1>2, <1>3

LEMMA DiagNextIInv == DiagIInv /\ [DiagNext]_diagVars => DiagIInv'
<1> SUFFICES ASSUME DiagIInv, [DiagNext]_diagVars
             PROVE  DiagIInv'
  OBVIOUS
<1>1. DiagTypeOK'
  BY DiagNextTypeOK DEF DiagIInv
<1>2. CASE Loop
  BY <1>1, <1>2, LoopPassedOver, LoopChangeSeen, LoopKnown DEF DiagIInv
<1>3. ASSUME NEW c \in Clients, Subscribe(c) \/ Unsubscribe(c) \/ OnSubscriptionChanged(c)
      PROVE  DiagIInv'
  BY <1>1, <1>3, SubscribeIInv, UnsubscribeIInv, AnnouncedIInv
<1>4. CASE Stop \/ WarningsChange \/ ReloadParameter \/ UNCHANGED diagVars
  BY <1>1, <1>4, OthersIInv
<1> QED
  BY <1>2, <1>3, <1>4 DEF DiagNext

LEMMA DiagInductive == DiagSpec => []DiagIInv
BY DiagInitIInv, DiagNextIInv, PTL DEF DiagSpec

-----------------------------------------------------------------------------
(* Every variable of the thread and its callers keeps its type. *)
THEOREM DiagTypeCorrect == DiagSpec => []DiagTypeOK
<1>1. DiagIInv => DiagTypeOK
  BY DEF DiagIInv
<1> QED
  BY <1>1, DiagInductive, PTL

(* However changes of the subscriptions interleave with the count, the      *)
(* thread never sleeps over a subscriber that was announced.                *)
THEOREM NoSubscriberMissed == DiagSpec => []ChangeSeen
<1>1. DiagIInv => ChangeSeen
  BY DEF DiagIInv
<1> QED
  BY <1>1, DiagInductive, PTL

(* A client that got a message knows what the thread compares with: the     *)
(* state is never reset behind the back of a client that listens.           *)
THEOREM StateShared == DiagSpec => []KnownIsState
<1>1. DiagIInv => KnownIsState
  BY DEF DiagIInv
<1> QED
  BY <1>1, DiagInductive, PTL

(* No subscriber is sent the same set of warnings twice in a row. *)
THEOREM NothingTwice == DiagSpec => []NewsOnly
<1>1. DiagIInv => NewsOnly
  BY DEF DiagIInv
<1> QED
  BY <1>1, DiagInductive, PTL

-----------------------------------------------------------------------------
(* RosState: what the running update has in hand. *)

(* The thread has the graph of its update in hand.                         *)
Storing == pc \in {"take", "store", "notified", "publish", "clear"}

(* The running update has stored list l.                                   *)
Stored(l) ==
    \/ pc \in {"take", "store"} /\ l < local.list
    \/ pc \in {"notified", "publish"} /\ l <= local.list
    \/ pc = "clear"

(* What it has stored is what it read, unless a refresh came after it.     *)
StoredIsRead ==
    \A l \in Lists : Stored(l) =>
        served[l] = local.snap \/ (l = Nodes /\ "refresh" \in missed)

(* The stamp that makes a report look old is taken no more.                *)
Stamped ==
    \/ pc \in {"store", "notified"} /\ since /\ ~HasNext
    \/ pc = "publish" /\ ~HasNext
    \/ pc = "clear"

(* A change that came after the graph was read is known.                   *)
LaterIsKnown ==
    Storing /\ local.snap # graph => reports > 0 \/ "change" \in missed \/ (newer /\ Stamped)

(* Between two updates, what is out of date is known.                      *)
RestIsKnown ==
    ~Storing => \A l \in Lists : served[l] # graph =>
        \/ ~hadClients \/ force \/ newer \/ reports > 0
        \/ "change" \in missed
        \/ l = Nodes /\ "refresh" \in missed

(* There are no more reports than there were changes.                      *)
ReportsOfChanges == reports <= graph

-----------------------------------------------------------------------------
(* NextList goes on with the next list or leaves the loop.                 *)
LEMMA NextListTyped ==
    ASSUME local \in Local, NextList
    PROVE  local' \in Local /\ pc' \in {"take", "clear"}
<1>1. CASE HasNext
    <2>1. local.list + 1 \in Lists
        BY <1>1, BoundsAssumption DEF HasNext, Local, Lists
    <2> QED BY <1>1, <2>1 DEF NextList, Local
<1>2. CASE ~HasNext
    BY <1>2 DEF NextList, Local
<1> QED BY <1>1, <1>2

(* What the clients have of the lists.                                     *)
SeenTyped ==
    /\ seen \in [Guis -> [Lists -> Versions \cup {Empty, Told, Outdated}]]
    /\ \A c \in Guis \ SlowGuis, l \in Lists : seen[c][l] # Outdated

(* An event changes what the clients have of its list only: they are told, *)
(* or it is lost for those whose queue is full.                            *)
LEMMA PublishSeen ==
    ASSUME TypeOK, PublishChanged
    PROVE  /\ SeenTyped'
           /\ \A c \in clients : seen'[c][local.list] \in {Told, Outdated}
           /\ \A c \in Guis, l \in Lists : l # local.list => seen'[c][l] = seen[c][l]
<1>0. /\ local.list \in Lists /\ clients \subseteq Guis
      /\ seen \in [Guis -> [Lists -> Versions \cup {Empty, Told, Outdated}]]
      /\ \A c \in Guis \ SlowGuis, l \in Lists : seen[c][l] # Outdated
    BY DEF TypeOK, Local
<1>1. PICK full \in SUBSET SlowGuis :
        seen' = [c \in Guis |->
            IF c \in clients
            THEN [seen[c] EXCEPT ![local.list] = Notified(seen[c][local.list], c \in full)]
            ELSE seen[c]]
    BY DEF PublishChanged
<1>2. ASSUME NEW c \in Guis
      PROVE  /\ seen'[c] \in [Lists -> Versions \cup {Empty, Told, Outdated}]
             /\ c \in clients => seen'[c][local.list] \in {Told, Outdated}
             /\ \A l \in Lists : l # local.list => seen'[c][l] = seen[c][l]
             /\ c \notin SlowGuis => \A l \in Lists : seen'[c][l] # Outdated
    <2>1. CASE c \notin clients
        <3>1. seen'[c] = seen[c]
            BY <1>1, <2>1
        <3> QED BY <1>0, <2>1, <3>1
    <2>2. CASE c \in clients
        <3>1. seen'[c] = [seen[c] EXCEPT ![local.list] = Notified(seen[c][local.list], c \in full)]
            BY <1>1, <2>2
        <3>2. seen[c] \in [Lists -> Versions \cup {Empty, Told, Outdated}]
            BY <1>0
        <3>3. /\ seen'[c][local.list] = Notified(seen[c][local.list], c \in full)
              /\ \A l \in Lists : l # local.list => seen'[c][l] = seen[c][l]
            BY <1>0, <3>1, <3>2
        <3>4. Notified(seen[c][local.list], c \in full) \in {Told, Outdated}
            BY DEF Notified
        <3>5. c \notin SlowGuis => Notified(seen[c][local.list], c \in full) = Told
            BY <1>1 DEF Notified
        <3>6. seen'[c] \in [Lists -> Versions \cup {Empty, Told, Outdated}]
            BY <3>1, <3>2, <3>4
        <3> QED BY <1>0, <3>3, <3>4, <3>5, <3>6, MarksAssumption
    <2> QED BY <2>1, <2>2
<1>3. seen' \in [Guis -> [Lists -> Versions \cup {Empty, Told, Outdated}]]
    <2>1. seen' = [c \in Guis |-> seen'[c]]
        BY <1>1
    <2> QED BY <1>2, <2>1
<1> QED BY <1>0, <1>2, <1>3 DEF SeenTyped

(* A client that comes is told to ask for everything, one that goes has    *)
(* nothing; a request answers for one list of one client.                  *)
LEMMA RequestSeen ==
    ASSUME TypeOK, NEW c \in Guis,
           Connect(c) \/ Disconnect(c) \/ GetList(c) \/ GetNodeListForced(c)
    PROVE  SeenTyped'
<1>0. /\ Nodes \in Lists /\ served \in [Lists -> Versions \cup {Empty}]
      /\ seen \in [Guis -> [Lists -> Versions \cup {Empty, Told, Outdated}]]
      /\ \A d \in Guis \ SlowGuis, l \in Lists : seen[d][l] # Outdated
    BY BoundsAssumption DEF TypeOK, Lists, Nodes
<1>1. ASSUME NEW list \in Versions \cup {Empty, Told, Outdated}, c \notin SlowGuis => list # Outdated,
             seen' = [seen EXCEPT ![c] = [l \in Lists |-> list]]
      PROVE  SeenTyped'
    BY <1>0, <1>1 DEF SeenTyped
<1>2. ASSUME NEW list \in Versions \cup {Empty, Told, Outdated}, c \notin SlowGuis => list # Outdated,
             NEW l \in Lists, seen' = [seen EXCEPT ![c][l] = list]
      PROVE  SeenTyped'
    BY <1>0, <1>2 DEF SeenTyped
<1>3. CASE Connect(c)
    BY <1>1, <1>3, MarksAssumption DEF Connect
<1>4. CASE Disconnect(c)
    BY <1>1, <1>4, MarksAssumption DEF Disconnect
<1>5. CASE GetList(c)
    <2>1. PICK l \in Lists : \/ seen' = [seen EXCEPT ![c][l] = served[l]]
                             \/ c \in SlowGuis /\ seen' = [seen EXCEPT ![c][l] = Outdated]
        BY <1>5 DEF GetList
    <2>2. served[l] \in Versions \cup {Empty} /\ served[l] # Outdated
        BY <1>0, MarksAssumption
    <2> QED BY <1>2, <2>1, <2>2
<1>6. CASE GetNodeListForced(c)
    BY <1>0, <1>2, <1>6, MarksAssumption DEF GetNodeListForced, SeenTyped
<1> QED BY <1>3, <1>4, <1>5, <1>6

(* The state of the servicer keeps its types.                              *)
LEMMA TypeStep == TypeOK /\ ReportsOfChanges /\ [Next]_vars => TypeOK' /\ ReportsOfChanges'
<1> SUFFICES ASSUME TypeOK, ReportsOfChanges, [Next]_vars PROVE TypeOK' /\ ReportsOfChanges'
    OBVIOUS
<1> USE BoundsAssumption
<1>0. /\ local \in Local /\ graph \in Versions /\ Idle \in Local /\ Nodes \in Lists
      /\ served \in [Lists -> Versions \cup {Empty}] /\ CountOf[graph] \in Nat
    BY CountOfAssumption DEF TypeOK, Idle, Local, Versions, Lists, Nodes
<1>1. CASE Look \/ TakeTime \/ Wait \/ UNCHANGED vars
    BY <1>1 DEF Look, TakeTime, Wait, Goto, vars, TypeOK, ReportsOfChanges, rosVars, timeVars,
       forceVars, threadVars, guiVars
<1>2. CASE ReadStamps \/ CountClients \/ Build
    <2>1. local' \in Local
        BY <1>0, <1>2 DEF ReadStamps, CountClients, Build, Local
    <2> QED BY <1>2, <2>1 DEF ReadStamps, CountClients, Build, Goto, TypeOK, ReportsOfChanges,
            rosVars, timeVars, forceVars, guiVars
<1>3. CASE ReadForce
    <2>1. local.connected \in BOOLEAN
        BY <1>0 DEF Local
    <2> QED BY <1>0, <1>3, <2>1 DEF ReadForce, TypeOK, ReportsOfChanges, rosVars, timeVars, guiVars
<1>4. CASE Poll
    BY <1>0, <1>4 DEF Poll, TypeOK, ReportsOfChanges, rosVars, timeVars, forceVars, guiVars
<1>5. CASE BuildFails \/ ClearForce
    BY <1>0, <1>5 DEF BuildFails, ForceIfFailed, ClearForce, Goto, TypeOK, ReportsOfChanges,
       rosVars, timeVars, guiVars
<1>6. CASE StoreList
    <2>1. local' \in Local
        BY <1>0, <1>6 DEF StoreList, Differs, Local
    <2>2. served' \in [Lists -> Versions \cup {Empty}] /\ missed' \subseteq missed
        BY <1>0, <1>6 DEF StoreList, Local
    <2> QED BY <1>6, <2>1, <2>2 DEF StoreList, Goto, TypeOK, ReportsOfChanges, rosVars, timeVars,
            forceVars, guiVars
<1>7. CASE SetStateNotified
    <2>1. local' \in Local /\ pc' \in {"publish", "take", "clear"}
        BY <1>0, <1>7, NextListTyped DEF SetStateNotified
    <2>2. newer' \in BOOLEAN /\ since' \in BOOLEAN
        BY <1>7 DEF SetStateNotified, NewerThanStamp, TypeOK
    <2>3. age' \in 0..2 /\ ReportsOfChanges'
        BY <1>7 DEF SetStateNotified, ReportsOfChanges, rosVars
    <2> QED BY <1>7, <2>1, <2>2, <2>3 DEF SetStateNotified, TypeOK, rosVars, forceVars, guiVars
<1>8. CASE PublishChanged
    <2>1. local' \in Local /\ pc' \in {"take", "clear"}
        BY <1>0, <1>8, NextListTyped DEF PublishChanged
    <2>2. SeenTyped'
        BY <1>8, PublishSeen
    <2> QED BY <1>8, <2>1, <2>2 DEF PublishChanged, TypeOK, SeenTyped, ReportsOfChanges, rosVars,
            timeVars, forceVars
<1>9. CASE GraphChanges
    <2>1. graph' \in Versions /\ reports' \in 0..MaxChanges /\ ReportsOfChanges'
        BY <1>9 DEF GraphChanges, TypeOK, ReportsOfChanges, Versions
    <2>2. missed' \subseteq {"change", "refresh"}
        BY <1>9 DEF GraphChanges, TypeOK
    <2> QED BY <1>9, <2>1, <2>2 DEF GraphChanges, TypeOK, timeVars, forceVars, threadVars, guiVars
<1>10. CASE OnMsgState
    BY <1>10 DEF OnMsgState, TypeOK, ReportsOfChanges, Versions, forceVars, threadVars, guiVars
<1>11. CASE TimePasses \/ DelayUpdateState \/ DelayEnds
    <2>1. age' \in 0..2 /\ delay' \in {"none", "on", "over"} /\ ReportsOfChanges'
        BY <1>11 DEF TimePasses, DelayUpdateState, DelayEnds, TypeOK, ReportsOfChanges, rosVars
    <2> QED BY <1>11, <2>1 DEF TimePasses, DelayUpdateState, DelayEnds, TypeOK, rosVars,
            forceVars, threadVars, guiVars
<1>12. ASSUME NEW c \in Guis,
             Connect(c) \/ Disconnect(c) \/ GetList(c) \/ GetNodeListForced(c)
      PROVE  TypeOK' /\ ReportsOfChanges'
    <2>1. SeenTyped'
        BY <1>12, RequestSeen
    <2>2. /\ clients' \subseteq Guis /\ forces' \in 0..MaxForces /\ force' \in BOOLEAN
          /\ served' \in [Lists -> Versions \cup {Empty}]
          /\ missed' \subseteq {"change", "refresh"}
        <3>1. CASE Connect(c) \/ Disconnect(c) \/ GetList(c)
            BY <3>1 DEF Connect, Disconnect, GetList, TypeOK, forceVars
        <3>2. CASE GetNodeListForced(c)
            <4>1. /\ clients' = clients /\ forces < MaxForces /\ forces' = forces + 1
                  /\ force' = TRUE /\ served' = [served EXCEPT ![Nodes] = Empty]
                  /\ missed' \subseteq missed \cup {"refresh"}
                BY <3>2 DEF GetNodeListForced
            <4> QED BY <1>0, <4>1 DEF TypeOK
        <3> QED BY <1>12, <3>1, <3>2
    <2>3. UNCHANGED <<rosVars, timeVars, threadVars>>
        BY <1>12 DEF Connect, Disconnect, GetList, GetNodeListForced
    <2> QED BY <2>1, <2>2, <2>3 DEF TypeOK, SeenTyped, ReportsOfChanges, rosVars, timeVars, threadVars
<1> QED BY <1>1, <1>2, <1>3, <1>4, <1>5, <1>6, <1>7, <1>8, <1>9, <1>10, <1>11, <1>12
    DEF Next, CheckThread

(* What is stored and stamped while the daemon runs is of the right type.  *)
LEMMA TypeInit == Init => TypeOK /\ ReportsOfChanges
<1> SUFFICES ASSUME Init PROVE TypeOK /\ ReportsOfChanges
    OBVIOUS
<1>1. Idle \in Local
    BY BoundsAssumption DEF Idle, Local, Versions, Lists, Nodes
<1>2. graph \in Versions /\ reports \in 0..MaxChanges /\ forces \in 0..MaxForces /\ age \in 0..2
      /\ counted \in Nat /\ ReportsOfChanges
    BY BoundsAssumption DEF Init, ReportsOfChanges, Versions
<1>3. \A c \in Guis \ SlowGuis, l \in Lists : seen[c][l] # Outdated
    BY MarksAssumption DEF Init
<1> QED BY <1>1, <1>2, <1>3 DEF Init, TypeOK

(* The state of the servicer keeps its types, whatever the graph, the      *)
(* clients and the thread do.                                              *)
THEOREM TypeCorrect == Spec => []TypeOK
<1> QED BY TypeInit, TypeStep, PTL DEF Spec
-----------------------------------------------------------------------------
(* What the clients show.                                                  *)
LEMMA FollowStep == TypeOK /\ ClientFollows /\ [Next]_vars => ClientFollows'
<1> SUFFICES ASSUME TypeOK, ClientFollows, [Next]_vars PROVE ClientFollows'
    OBVIOUS
<1>0. /\ local \in Local /\ Nodes \in Lists /\ clients \subseteq Guis
      /\ served \in [Lists -> Versions \cup {Empty}]
      /\ seen \in [Guis -> [Lists -> Versions \cup {Empty, Told, Outdated}]]
    BY BoundsAssumption DEF TypeOK, Lists, Nodes
<1>1. ASSUME UNCHANGED <<served, guiVars>>, \A l \in Lists : WillTell(l) => WillTell(l)'
      PROVE  ClientFollows'
    BY <1>1 DEF ClientFollows, guiVars
<1>2. CASE Look \/ ReadStamps \/ CountClients \/ ReadForce \/ Poll \/ TakeTime \/ ClearForce
           \/ Wait \/ Build \/ BuildFails
    BY <1>1, <1>2 DEF Look, ReadStamps, CountClients, ReadForce, Poll, TakeTime, ClearForce, Wait,
       Build, BuildFails, Goto, WillTell
<1>3. CASE GraphChanges \/ OnMsgState \/ TimePasses \/ DelayUpdateState \/ DelayEnds
           \/ UNCHANGED vars
    BY <1>1, <1>3 DEF GraphChanges, OnMsgState, TimePasses, DelayUpdateState, DelayEnds, vars,
       threadVars, WillTell
<1>4. CASE SetStateNotified
    <2>1. UNCHANGED <<served, guiVars>>
        BY <1>4 DEF SetStateNotified
    <2>2. \A l \in Lists : WillTell(l) => WillTell(l)'
        BY <1>4 DEF SetStateNotified, WillTell
    <2> QED BY <1>1, <2>1, <2>2
<1>5. CASE StoreList
    <2>1. /\ UNCHANGED guiVars /\ pc = "store" /\ pc' = "notified"
          /\ local'.list = local.list
          /\ local'.changed = (served[local.list] # local.snap)
          /\ served' = [served EXCEPT ![local.list] = local.snap]
        BY <1>0, <1>5 DEF StoreList, Goto, Differs, Local
    <2>2. ASSUME NEW c \in clients, NEW l \in Lists
          PROVE  \/ seen[c][l] = served'[l] \/ seen[c][l] \in {Told, Outdated} \/ WillTell(l)'
                 \/ l = Nodes /\ served'[l] = Empty
        <3>1. \/ seen[c][l] = served[l] \/ seen[c][l] \in {Told, Outdated}
              \/ l = Nodes /\ served[l] = Empty
            BY <2>1 DEF ClientFollows, WillTell
        <3>2. CASE l = local.list /\ served[l] # local.snap
            BY <2>1, <3>2 DEF WillTell
        <3>3. CASE ~(l = local.list /\ served[l] # local.snap)
            <4>1. served'[l] = served[l]
                BY <1>0, <2>1, <3>3
            <4> QED BY <3>1, <4>1
        <3> QED BY <3>2, <3>3
    <2> QED BY <2>1, <2>2 DEF ClientFollows, guiVars
<1>6. CASE PublishChanged
    <2>1. UNCHANGED <<served, clients>>
        BY <1>6 DEF PublishChanged
    <2>2. /\ \A c \in clients : seen'[c][local.list] \in {Told, Outdated}
          /\ \A c \in Guis, l \in Lists : l # local.list => seen'[c][l] = seen[c][l]
        BY <1>6, PublishSeen
    <2> QED BY <1>0, <2>1, <2>2 DEF ClientFollows, WillTell
<1>7. ASSUME NEW c \in Guis, Connect(c) \/ Disconnect(c) \/ GetList(c) PROVE ClientFollows'
    <2>1. UNCHANGED <<pc, local, served>>
        BY <1>7 DEF Connect, Disconnect, GetList, threadVars
    <2>2. \A l : WillTell(l)' <=> WillTell(l)
        BY <2>1 DEF WillTell
    <2>3. ASSUME NEW d \in clients', NEW l \in Lists
          PROVE  \/ seen'[d][l] \in {served[l], Told, Outdated}
                 \/ d \in clients /\ seen'[d][l] = seen[d][l]
        <3>1. CASE Connect(c)
            BY <1>0, <2>3, <3>1 DEF Connect
        <3>2. CASE Disconnect(c)
            BY <1>0, <2>3, <3>2 DEF Disconnect
        <3>3. CASE GetList(c)
            <4>1. PICK k \in Lists : \/ seen' = [seen EXCEPT ![c][k] = served[k]]
                                     \/ seen' = [seen EXCEPT ![c][k] = Outdated]
                BY <3>3 DEF GetList
            <4>2. d \in clients /\ d \in Guis
                BY <1>0, <2>3, <3>3 DEF GetList
            <4>3. CASE d = c /\ l = k
                BY <1>0, <4>1, <4>3
            <4>4. CASE ~(d = c /\ l = k)
                BY <1>0, <4>1, <4>2, <4>4
            <4> QED BY <4>3, <4>4
        <3> QED BY <1>7, <3>1, <3>2, <3>3
    <2> QED BY <2>1, <2>2, <2>3 DEF ClientFollows
<1>8. ASSUME NEW c \in Guis, GetNodeListForced(c) PROVE ClientFollows'
    <2>1. /\ UNCHANGED <<pc, local, clients>>
          /\ served' = [served EXCEPT ![Nodes] = Empty]
          /\ \/ seen' = seen
             \/ \E list \in {Empty, Outdated} : seen' = [seen EXCEPT ![c][Nodes] = list]
        BY <1>8 DEF GetNodeListForced, threadVars
    <2>2. \A l : WillTell(l)' <=> WillTell(l)
        BY <2>1 DEF WillTell
    <2>3. ASSUME NEW d \in Guis, NEW l \in Lists, l # Nodes
          PROVE  seen'[d][l] = seen[d][l] /\ served'[l] = served[l]
        BY <1>0, <2>1, <2>3
    <2>4. served'[Nodes] = Empty
        BY <1>0, <2>1
    <2> QED BY <1>0, <2>1, <2>2, <2>3, <2>4 DEF ClientFollows
<1> QED BY <1>2, <1>3, <1>4, <1>5, <1>6, <1>7, <1>8 DEF Next, CheckThread

(* A connected client shows what the daemon serves, or will be told, or    *)
(* has yet to ask for what it was told of, or its full queue lost the last *)
(* event or reply about the list: every change of a list that is stored is *)
(* told, for any number of clients, lists and refreshes.                   *)
THEOREM ClientsFollow == Spec => []ClientFollows
<1>1. Init => ClientFollows
    BY DEF Init, ClientFollows
<1>2. TypeOK /\ ClientFollows /\ [Next]_vars => ClientFollows'
    BY FollowStep
<1> QED BY <1>1, <1>2, TypeCorrect, PTL DEF Spec
-----------------------------------------------------------------------------
(* What the daemon knows to be out of date.                                *)

Known == StoredIsRead /\ LaterIsKnown /\ RestIsKnown

(* Nothing that the facts above speak of changes, but for more being known.*)
LEMMA NothingForgotten ==
    ASSUME Known, UNCHANGED <<graph, pc, local, served, hadClients>>,
           missed \subseteq missed', newer => newer', reports' = reports, force => force',
           since' = since
    PROVE  Known'
BY DEF Known, StoredIsRead, LaterIsKnown, RestIsKnown, Storing, Stored, Stamped, HasNext

(* The thread goes on between two updates.                                 *)
LEMMA RestGoesOn ==
    ASSUME Known, ~Storing, ~Storing', UNCHANGED <<graph, reports, newer, served, missed>>,
           force => force', hadClients' /\ ~hadClients => force'
    PROVE  Known'
BY DEF Known, StoredIsRead, LaterIsKnown, RestIsKnown, Storing, Stored

(* From one list to the next.                                              *)
LEMMA NextListKnown ==
    ASSUME Known, TypeOK, pc \in {"notified", "publish"}, NextList,
           UNCHANGED <<graph, reports, served, missed>>,
           Stamped /\ newer => newer'
    PROVE  Known'
<1>0. /\ local \in Local /\ local.list \in Nat /\ local.list <= NumLists
      /\ NumLists \in Nat /\ local.list + 1 \in Nat
    BY BoundsAssumption DEF TypeOK, Local, Lists
<1>1. CASE HasNext
    <2>1. /\ pc' = "take" /\ local'.snap = local.snap /\ local'.list = local.list + 1
        BY <1>0, <1>1 DEF NextList, Local
    <2>2. \A l \in Lists : Stored(l)' => Stored(l)
        BY <1>0, <2>1 DEF Stored, Lists
    <2>3. ~Stamped
        BY <1>1 DEF Stamped
    <2> QED BY <2>1, <2>2, <2>3 DEF Known, StoredIsRead, LaterIsKnown, RestIsKnown, Storing
<1>2. CASE ~HasNext
    <2>1. pc' = "clear" /\ local'.snap = local.snap
        BY <1>0, <1>2 DEF NextList, Local
    <2>2. \A l \in Lists : Stored(l)
        BY <1>0, <1>2 DEF Stored, HasNext, Lists
    <2> QED BY <2>1, <2>2 DEF Known, StoredIsRead, LaterIsKnown, RestIsKnown, Storing, Stored, Stamped
<1> QED BY <1>1, <1>2

(* No step of the thread, of the graph or of a client makes a list stale   *)
(* that nobody knows of.                                                   *)
LEMMA KnownStep == TypeOK /\ Known /\ [Next]_vars => Known'
<1> SUFFICES ASSUME TypeOK, Known, [Next]_vars PROVE Known'
    OBVIOUS
<1>0. /\ local \in Local /\ served \in [Lists -> Versions \cup {Empty}]
      /\ local.list \in Lists /\ Nodes \in Lists
    BY BoundsAssumption DEF TypeOK, Local, Lists, Nodes
<1>1. CASE Look \/ ReadStamps \/ CountClients \/ Wait \/ Poll \/ BuildFails
    <2>1. /\ ~Storing /\ ~Storing' /\ UNCHANGED <<graph, reports, newer, served, missed, hadClients>>
          /\ force' = force
        BY <1>1 DEF Look, ReadStamps, CountClients, Wait, Poll, BuildFails, ForceIfFailed, Goto,
           Storing, rosVars, timeVars, forceVars
    <2> QED BY <2>1, RestGoesOn
<1>2. CASE ReadForce
    <2>1. /\ ~Storing /\ ~Storing' /\ UNCHANGED <<graph, reports, newer, served, missed>>
          /\ hadClients' = local.connected /\ force' = (force \/ (local.connected /\ ~hadClients))
        BY <1>2 DEF ReadForce, Storing, rosVars, timeVars
    <2> QED BY <2>1, RestGoesOn
<1>3. CASE Build
    <2>1. pc' = "take" /\ local'.snap = graph /\ local'.list = Nodes /\ graph' = graph
        BY <1>0, <1>3 DEF Build, Goto, rosVars, Local
    <2>2. \A l \in Lists : ~Stored(l)'
        BY <2>1, BoundsAssumption DEF Stored, Lists, Nodes
    <2> QED BY <2>1, <2>2 DEF Known, StoredIsRead, LaterIsKnown, RestIsKnown, Storing
<1>4. CASE TakeTime
    <2>1. /\ pc = "take" /\ pc' = "store"
          /\ UNCHANGED <<graph, reports, newer, served, missed, local, since>>
        BY <1>4 DEF TakeTime, Goto, rosVars, timeVars
    <2> QED BY <2>1 DEF Known, StoredIsRead, LaterIsKnown, RestIsKnown, Storing, Stored, Stamped, HasNext
<1>5. CASE StoreList
    <2>1. /\ pc = "store" /\ pc' = "notified"
          /\ UNCHANGED <<graph, reports, newer, since>>
          /\ local'.snap = local.snap /\ local'.list = local.list
          /\ served' = [served EXCEPT ![local.list] = local.snap]
          /\ missed' = IF local.list = Nodes THEN missed \ {"refresh"} ELSE missed
        BY <1>0, <1>5 DEF StoreList, Goto, rosVars, timeVars, Local
    <2>2. ASSUME NEW l \in Lists, Stored(l)'
          PROVE  served'[l] = local.snap \/ (l = Nodes /\ "refresh" \in missed')
        <3>1. CASE l = local.list
            BY <1>0, <2>1, <3>1
        <3>2. CASE l # local.list
            <4>1. l < local.list
                BY <1>0, <2>1, <2>2, <3>2, BoundsAssumption DEF Stored, Lists
            <4>2. served'[l] = served[l] /\ local.list # Nodes
                BY <1>0, <2>1, <3>2, <4>1, BoundsAssumption DEF Lists, Nodes
            <4>3. Stored(l)
                BY <2>1, <4>1 DEF Stored
            <4> QED BY <2>1, <4>2, <4>3 DEF Known, StoredIsRead
        <3> QED BY <3>1, <3>2
    <2>3. StoredIsRead'
        BY <2>1, <2>2 DEF StoredIsRead
    <2>4. LaterIsKnown'
        BY <2>1 DEF Known, LaterIsKnown, Storing, Stamped, HasNext
    <2> QED BY <2>1, <2>3, <2>4 DEF Known, RestIsKnown, Storing
<1>6. CASE SetStateNotified
    <2>1. /\ pc = "notified" /\ newer' = since
          /\ UNCHANGED <<graph, reports, served, missed>>
        BY <1>6 DEF SetStateNotified, NewerThanStamp, rosVars
    <2>2. CASE local.changed
        <3>1. pc' = "publish" /\ local' = local
            BY <1>6, <2>2 DEF SetStateNotified
        <3> QED BY <2>1, <3>1 DEF Known, StoredIsRead, LaterIsKnown, RestIsKnown, Storing, Stored,
                Stamped, HasNext
    <2>3. CASE ~local.changed
        <3>1. NextList
            BY <1>6, <2>3 DEF SetStateNotified
        <3>2. Stamped /\ newer => newer'
            BY <2>1 DEF Stamped
        <3> QED BY <2>1, <3>1, <3>2, NextListKnown
    <2> QED BY <2>2, <2>3
<1>7. CASE PublishChanged
    <2>1. /\ pc = "publish" /\ NextList
          /\ UNCHANGED <<graph, reports, served, missed, newer>>
        BY <1>7 DEF PublishChanged, rosVars, timeVars
    <2> QED BY <2>1, NextListKnown
<1>8. CASE ClearForce
    <2>1. /\ pc = "clear" /\ pc' = "wait"
          /\ UNCHANGED <<graph, reports, served, missed, newer>>
        BY <1>8 DEF ClearForce, Goto, rosVars, timeVars
    <2>2. \A l \in Lists : served[l] = local.snap \/ (l = Nodes /\ "refresh" \in missed)
        BY <2>1 DEF Known, StoredIsRead, Stored
    <2>3. local.snap # graph => reports > 0 \/ "change" \in missed \/ newer
        BY <2>1 DEF Known, LaterIsKnown, Storing
    <2> QED BY <2>1, <2>2, <2>3 DEF Known, StoredIsRead, LaterIsKnown, RestIsKnown, Storing, Stored
<1>9. CASE GraphChanges
    <2>1. /\ UNCHANGED <<pc, local, served, hadClients, force>> /\ missed \subseteq missed'
          /\ reports' > 0 \/ "change" \in missed'
        <3>1. reports \in Nat
            BY BoundsAssumption DEF TypeOK
        <3> QED BY <1>9, <3>1 DEF GraphChanges, forceVars, threadVars
    <2>2. \A l : Stored(l)' <=> Stored(l)
        BY <2>1 DEF Stored
    <2> QED BY <2>1, <2>2 DEF Known, StoredIsRead, LaterIsKnown, RestIsKnown, Storing
<1>10. CASE OnMsgState
    <2>1. /\ UNCHANGED <<graph, pc, local, served, hadClients, force>> /\ newer' = TRUE
          /\ since' = (pc \in {"store", "notified"})
          /\ missed' = IF WillOverstamp /\ local.snap # graph THEN missed \cup {"change"} ELSE missed
        BY <1>10 DEF OnMsgState, forceVars, threadVars
    <2>2. \A l : Stored(l)' <=> Stored(l)
        BY <2>1 DEF Stored
    <2>3. Storing /\ ~WillOverstamp => Stamped'
        BY <2>1 DEF Storing, WillOverstamp, Stamped, HasNext
    <2> QED BY <2>1, <2>2, <2>3 DEF Known, StoredIsRead, LaterIsKnown, RestIsKnown, Storing
<1>11. CASE TimePasses \/ DelayUpdateState \/ DelayEnds \/ UNCHANGED vars
    <2>1. UNCHANGED <<graph, reports, pc, local, served, hadClients, missed, newer, since, force>>
        BY <1>11 DEF TimePasses, DelayUpdateState, DelayEnds, vars, rosVars, timeVars, forceVars,
           threadVars
    <2> QED BY <2>1, NothingForgotten
<1>12. ASSUME NEW c \in Guis, Connect(c) \/ Disconnect(c) \/ GetList(c) PROVE Known'
    <2>1. UNCHANGED <<graph, reports, pc, local, served, hadClients, missed, newer, since, force>>
        BY <1>12 DEF Connect, Disconnect, GetList, rosVars, timeVars, forceVars, threadVars
    <2> QED BY <2>1, NothingForgotten
<1>13. ASSUME NEW c \in Guis, GetNodeListForced(c) PROVE Known'
    <2>1. /\ UNCHANGED <<graph, reports, pc, local, hadClients, newer, since>> /\ force' = TRUE
          /\ served' = [served EXCEPT ![Nodes] = Empty]
          /\ missed' = IF WillClearForce THEN missed \cup {"refresh"} ELSE missed
        BY <1>13 DEF GetNodeListForced, rosVars, timeVars, threadVars
    <2>2. \A l : Stored(l)' <=> Stored(l)
        BY <2>1 DEF Stored
    <2>3. Stored(Nodes) => WillClearForce
        BY <1>0, BoundsAssumption DEF Stored, WillClearForce, Lists, Nodes
    <2>4. \A l \in Lists : l # Nodes => served'[l] = served[l]
        BY <1>0, <2>1
    <2>5. StoredIsRead'
        BY <2>1, <2>2, <2>3, <2>4 DEF Known, StoredIsRead
    <2>6. LaterIsKnown'
        BY <2>1 DEF Known, LaterIsKnown, Storing, Stamped, HasNext
    <2> QED BY <2>1, <2>5, <2>6 DEF Known, RestIsKnown, Storing
<1> QED BY <1>1, <1>2, <1>3, <1>4, <1>5, <1>6, <1>7, <1>8, <1>9, <1>10, <1>11, <1>12, <1>13
        DEF Next, CheckThread

(* While the thread stores, a list is either stored already or still to    *)
(* come, and a change since the graph was read is known.                   *)
LEMMA KnownIsKnown == TypeOK /\ Known => StaleIsKnown
<1> SUFFICES ASSUME TypeOK, Known, NEW l \in Lists, served[l] # graph
             PROVE  \/ ~hadClients \/ force \/ newer \/ reports > 0
                    \/ WillStore(l)
                    \/ "change" \in missed
                    \/ l = Nodes /\ "refresh" \in missed
    BY DEF StaleIsKnown
<1>1. CASE ~Storing
    BY <1>1 DEF Known, RestIsKnown
<1>2. CASE Storing /\ local.snap # graph
    BY <1>2 DEF Known, LaterIsKnown
<1>3. CASE Storing /\ local.snap = graph
    <2>1. CASE Stored(l)
        BY <1>3, <2>1 DEF Known, StoredIsRead
    <2>2. CASE ~Stored(l)
        <3>1. local.list \in Lists
            BY DEF TypeOK, Local
        <3> QED BY <1>3, <2>2, <3>1, BoundsAssumption DEF Storing, Stored, WillStore, Lists
    <2> QED BY <2>1, <2>2
<1> QED BY <1>1, <1>2, <1>3

(* A list that is out of date is made anew: there is always somebody or    *)
(* something left that knows of it, but for the changes nobody reports and *)
(* the two races of a report and of a refresh with a running update.       *)
THEOREM StaleKnown == Spec => []StaleIsKnown
<1>1. Init => Known
    BY DEF Init, Known, StoredIsRead, LaterIsKnown, RestIsKnown, Storing, Stored
<1>2. TypeOK /\ Known /\ [Next]_vars => Known'
    BY KnownStep
<1>3. TypeOK /\ Known => StaleIsKnown
    BY KnownIsKnown
<1> QED BY <1>1, <1>2, <1>3, TypeCorrect, PTL DEF Spec
=============================================================================
