------------------------------ MODULE RosState ------------------------------
(***************************************************************************)
(* How the daemon keeps the lists of ROS nodes, topics and services that   *)
(* its clients see (rosstate_servicer.py): the thread that checks for      *)
(* changes and rebuilds the lists, the ROS callback that is told of a      *)
(* change, and the threads that answer the clients, one of whose requests  *)
(* empties the list of nodes and asks for a refresh.                       *)
(*                                                                         *)
(* The ROS graph is a version number; reading it is one step.  Times are   *)
(* kept as what the code asks of them: was the last report of a change     *)
(* later than the stamp of the last notification (newer), and how old is   *)
(* that stamp (age).                                                       *)
(*                                                                         *)
(* What the daemon puts for a client, an event or a reply, is lost when    *)
(* the outgoing queue of that client is full.  Nobody notices: publish()   *)
(* returns FALSE, which the callbacks ignore, and the list that a lost     *)
(* event spoke of is stored, so that nothing repeats it.                   *)
(*                                                                         *)
(* History: the variable missed, and Outdated in seen.                     *)
(***************************************************************************)
EXTENDS Naturals, FiniteSets

CONSTANTS
    Guis,       \* the GUIs
    SlowGuis,   \* those whose outgoing queue may be full
    NumLists,   \* list 1 are the nodes, 2 the topics, 3 the services
    MaxChanges, \* bound: changes of the ROS graph
    MaxForces,  \* bound: requests with forceRefresh
    CountOf,    \* how many entities a version of the graph has
    Empty,      \* the empty list
    Told,       \* in the place of a list: the client was told to ask for it
    Outdated    \* the same: the last event or reply about it was lost

Versions == 0..MaxChanges
Lists == 1..NumLists
Nodes == 1

ASSUME BoundsAssumption == MaxChanges \in Nat /\ MaxForces \in Nat /\ NumLists \in Nat \ {0}
ASSUME CountOfAssumption == CountOf \in [Versions -> Nat]
ASSUME SlowGuisAssumption == SlowGuis \subseteq Guis
ASSUME MarksAssumption ==
    /\ Empty \notin Versions
    /\ Told \notin Versions \cup {Empty}
    /\ Outdated \notin Versions \cup {Empty, Told}

VARIABLES
    graph,      \* the version of the ROS graph
    reports,    \* ChangedState messages under way
    newer,      \* _ts_state_updated > _ts_state_notified
    since,      \* a report came since the callback took its ts_notified
    age,        \* now - _ts_state_notified, in units of _check_delay, up to 2
    delay,      \* is _ts_delay_until ahead? "none", "on" or "over"
    force,      \* _force_refresh
    forces,     \* requests with forceRefresh so far
    hadClients, \* _had_clients
    counted,    \* _count_nodes, _count_topics, _count_services
    pc,         \* where the checking thread is
    local,      \* its local variables
    served,     \* served[l]: _ros_node_list_str and its like
    clients,    \* the connected clients
    seen,       \* seen[c][l]: the list l that client c got last, Told or Outdated
    missed      \* what the thread cannot know of: a "change", a "refresh"

rosVars == <<graph, reports>>
timeVars == <<newer, since, age, delay>>
forceVars == <<force, forces>>
threadVars == <<hadClients, counted, pc, local>>
guiVars == <<clients, seen>>
vars == <<rosVars, timeVars, forceVars, threadVars, served, guiVars, missed>>

Local == [due : BOOLEAN, old : BOOLEAN, connected : BOOLEAN,
          snap : Versions, list : Lists, changed : BOOLEAN]

(* Locals that are not in use have these values. *)
Idle == [due |-> FALSE, old |-> FALSE, connected |-> FALSE,
         snap |-> 0, list |-> Nodes, changed |-> FALSE]

TypeOK ==
    /\ graph \in Versions /\ reports \in 0..MaxChanges
    /\ newer \in BOOLEAN /\ since \in BOOLEAN /\ age \in 0..2
    /\ delay \in {"none", "on", "over"}
    /\ force \in BOOLEAN /\ forces \in 0..MaxForces
    /\ hadClients \in BOOLEAN
    /\ counted \in Nat
    /\ pc \in {"top", "stamps", "clients", "force", "poll", "build",
               "take", "store", "notified", "publish", "clear", "wait"}
    /\ local \in Local
    /\ served \in [Lists -> Versions \cup {Empty}]
    /\ clients \subseteq Guis
    /\ seen \in [Guis -> [Lists -> Versions \cup {Empty, Told, Outdated}]]
    /\ \A c \in Guis \ SlowGuis, l \in Lists : seen[c][l] # Outdated
    /\ missed \subseteq {"change", "refresh"}

Init ==
    /\ graph = 0 /\ reports = 0
    /\ newer = FALSE /\ since = FALSE /\ age = 2
    /\ delay = "none"
    /\ force = FALSE /\ forces = 0
    /\ hadClients = FALSE
    /\ counted = 0
    /\ pc = "top"
    /\ local = Idle
    /\ served = [l \in Lists |-> Empty]
    /\ clients = {}
    /\ seen = [c \in Guis |-> [l \in Lists |-> Empty]]
    /\ missed = {}

-----------------------------------------------------------------------------
(* Faulty variants of definitions below, each a plausible slip in the code. *)

(* The counter over the lists runs one too far. *)
HasNextOneMore == local.list <= NumLists

(* Two lists are taken for equal when they have equally many entries. *)
DiffersInSize(l) ==
    served[l] = Empty \/ CountOf[served[l]] # CountOf[local.snap]

(* The stamp is the time when it is stored, not when the list was made. *)
StampWhenStored == FALSE

(* The flag of a refresh is cleared although the update failed. *)
ForceAfterFailure == FALSE

-----------------------------------------------------------------------------
(* The checking thread, _check_discovery_node. *)

Goto(here, there) == pc = here /\ pc' = there

(* The top of the loop.  While updates are delayed, and no refresh is       *)
(* asked for, "continue" leads back here, without the wait.                 *)
Look ==
    /\ Goto("top", "stamps")
    /\ delay = "on" => force
    /\ UNCHANGED <<rosVars, timeVars, forceVars, hadClients, counted, local, served, guiVars, missed>>

(* Under _lock_check: is there a report to act on?                          *)
ReadStamps ==
    /\ Goto("stamps", "clients")
    /\ local' = [local EXCEPT !.due = newer /\ age >= 1, !.old = (age = 2)]
    /\ UNCHANGED <<rosVars, timeVars, forceVars, hadClients, counted, served, guiVars, missed>>

CountClients ==
    /\ Goto("clients", "force")
    /\ local' = [local EXCEPT !.connected = (clients # {})]
    /\ UNCHANGED <<rosVars, timeVars, forceVars, hadClients, counted, served, guiVars, missed>>

(* Under the mutex of the nodes: the first client makes a refresh.  Then    *)
(* the thread decides what to do: nothing is done for nobody.               *)
ReadForce ==
    /\ pc = "force"
    /\ force' = (force \/ (local.connected /\ ~hadClients))
    /\ hadClients' = local.connected
    /\ pc' = CASE local.connected /\ (local.due \/ force') -> "build"
               [] local.connected /\ ~(local.due \/ force') /\ local.old /\ delay # "on" -> "poll"
               [] OTHER -> "wait"
    /\ local' = Idle
    /\ UNCHANGED <<rosVars, timeVars, forces, counted, served, guiVars, missed>>

(* "check own state": the numbers of topics, services and nodes. *)
Poll ==
    /\ pc = "poll"
    /\ pc' = IF counted # CountOf[graph] THEN "build" ELSE "wait"
    /\ counted' = CountOf[graph]
    /\ UNCHANGED <<rosVars, timeVars, forceVars, hadClients, local, served, guiVars, missed>>

(* RosStateJsonify.update_state collects the graph. *)
Build ==
    /\ Goto("build", "take")
    /\ local' = [local EXCEPT !.snap = graph, !.list = Nodes]
    /\ missed' = missed \ {"change"}
    /\ UNCHANGED <<rosVars, timeVars, forceVars, hadClients, counted, served, guiVars>>

(* It raises: a warning, and the flag of the refresh is kept. *)
ForceIfFailed == force

BuildFails ==
    /\ Goto("build", "wait")
    /\ force' = ForceIfFailed
    /\ UNCHANGED <<rosVars, timeVars, forces, hadClients, counted, local, served, guiVars, missed>>

(* The callbacks _callback_nodes, _callback_topics, _callback_services, one *)
(* after the other: first the time, ...                                     *)
TakeTime ==
    /\ Goto("take", "store")
    /\ UNCHANGED <<rosVars, timeVars, forceVars, hadClients, counted, local, served, guiVars, missed>>

(* ... then the list, under its mutex, ... *)
Differs(l) == served[l] # local.snap

StoreList ==
    /\ Goto("store", "notified")
    /\ local' = [local EXCEPT !.changed = Differs(local.list)]
    /\ served' = [served EXCEPT ![local.list] = local.snap]
    /\ missed' = IF local.list = Nodes THEN missed \ {"refresh"} ELSE missed
    /\ UNCHANGED <<rosVars, timeVars, forceVars, hadClients, counted, guiVars>>

(* ... then _set_state_notified, under _lock_check, ... *)
HasNext == local.list < NumLists

NextList ==
    IF HasNext
    THEN pc' = "take" /\ local' = [local EXCEPT !.list = @ + 1, !.changed = FALSE]
    ELSE pc' = "clear" /\ local' = [local EXCEPT !.changed = FALSE]

NewerThanStamp == since

SetStateNotified ==
    /\ pc = "notified"
    /\ newer' = NewerThanStamp
    /\ since' = FALSE
    /\ age' = 0
    /\ IF local.changed THEN pc' = "publish" /\ UNCHANGED local ELSE NextList
    /\ UNCHANGED <<rosVars, delay, forceVars, hadClients, counted, served, guiVars, missed>>

(* ... and at last the message to the clients, into the queue of each.      *)
(* Where that is full the message is lost, which does not matter to a       *)
(* client that has yet to ask for the list because of an earlier one.       *)
Notified(list, full) == IF full /\ list # Told THEN Outdated ELSE Told

PublishChanged ==
    /\ pc = "publish"
    /\ \E full \in SUBSET SlowGuis :
        seen' = [c \in Guis |->
            IF c \in clients THEN [seen[c] EXCEPT ![local.list] = Notified(@, c \in full)]
                             ELSE seen[c]]
    /\ NextList
    /\ UNCHANGED <<rosVars, timeVars, forceVars, hadClients, counted, served, clients, missed>>

(* The update is done, and with it the refresh. *)
ClearForce ==
    /\ Goto("clear", "wait")
    /\ force' = FALSE
    /\ local' = Idle
    /\ UNCHANGED <<rosVars, timeVars, forces, hadClients, counted, served, guiVars, missed>>

(* The thread waits for _check_delay. *)
Wait ==
    /\ Goto("wait", "top")
    /\ UNCHANGED <<rosVars, timeVars, forceVars, hadClients, counted, local, served, guiVars, missed>>

-----------------------------------------------------------------------------
(* The ROS graph and the discovery node. *)

(* The graph changes; where no discovery node runs, nobody reports it.      *)
GraphChanges ==
    /\ graph < MaxChanges
    /\ graph' = graph + 1
    /\ \/ reports' = reports + 1 /\ UNCHANGED missed
       \/ UNCHANGED reports /\ missed' = missed \cup {"change"}
    /\ UNCHANGED <<timeVars, forceVars, threadVars, served, guiVars>>

(* The graph was read for an update that has yet to take its last time:     *)
(* that time will be later than a report that comes now.                    *)
WillOverstamp ==
    \/ pc \in {"take", "store", "notified", "publish"} /\ HasNext
    \/ pc = "take"

(* _on_msg_state *)
OnMsgState ==
    /\ reports > 0
    /\ reports' = reports - 1
    /\ newer' = TRUE
    /\ since' = (pc \in {"store", "notified"})
    /\ missed' = IF WillOverstamp /\ local.snap # graph THEN missed \cup {"change"} ELSE missed
    /\ UNCHANGED <<graph, age, delay, forceVars, threadVars, served, guiVars>>

TimePasses ==
    /\ age < 2
    /\ age' = age + 1
    /\ UNCHANGED <<rosVars, newer, since, delay, forceVars, threadVars, served, guiVars, missed>>

(* delay_update_state, once; and its end. *)
DelayUpdateState ==
    /\ delay = "none"
    /\ delay' = "on"
    /\ UNCHANGED <<rosVars, newer, since, age, forceVars, threadVars, served, guiVars, missed>>

DelayEnds ==
    /\ delay = "on"
    /\ delay' = "over"
    /\ UNCHANGED <<rosVars, newer, since, age, forceVars, threadVars, served, guiVars, missed>>

-----------------------------------------------------------------------------
(* The clients. *)

(* A client subscribes and then asks for everything. *)
Connect(c) ==
    /\ c \notin clients
    /\ clients' = clients \cup {c}
    /\ seen' = [seen EXCEPT ![c] = [l \in Lists |-> Told]]
    /\ UNCHANGED <<rosVars, timeVars, forceVars, threadVars, served, missed>>

Disconnect(c) ==
    /\ c \in clients
    /\ clients' = clients \ {c}
    /\ seen' = [seen EXCEPT ![c] = [l \in Lists |-> Empty]]
    /\ UNCHANGED <<rosVars, timeVars, forceVars, threadVars, served, missed>>

(* get_node_list, get_topic_list, get_service_list.  The reply is lost when *)
(* the queue of the client is full.                                         *)
GetList(c) ==
    /\ c \in clients
    /\ \E l \in Lists :
        /\ seen[c][l] = Told
        /\ \/ seen' = [seen EXCEPT ![c][l] = served[l]]
           \/ c \in SlowGuis /\ seen' = [seen EXCEPT ![c][l] = Outdated]
    /\ UNCHANGED <<rosVars, timeVars, forceVars, threadVars, served, clients, missed>>

(* The nodes of the running update are stored, its flag is not cleared.     *)
WillClearForce ==
    \/ pc = "clear"
    \/ pc \in {"take", "store"} /\ local.list # Nodes
    \/ pc \in {"notified", "publish"}

(* get_node_list(forceRefresh): whatever becomes of the reply, a client     *)
(* that was told before asks once more.                                     *)
GetNodeListForced(c) ==
    /\ c \in clients
    /\ forces < MaxForces
    /\ forces' = forces + 1
    /\ force' = TRUE
    /\ served' = [served EXCEPT ![Nodes] = Empty]
    /\ \/ seen[c][Nodes] = Told /\ UNCHANGED seen
       \/ seen[c][Nodes] # Told /\ seen' = [seen EXCEPT ![c][Nodes] = Empty]
       \/ seen[c][Nodes] # Told /\ c \in SlowGuis /\ seen' = [seen EXCEPT ![c][Nodes] = Outdated]
    /\ missed' = IF WillClearForce THEN missed \cup {"refresh"} ELSE missed
    /\ UNCHANGED <<rosVars, timeVars, threadVars, clients>>

-----------------------------------------------------------------------------
CheckThread ==
    \/ Look \/ ReadStamps \/ CountClients \/ ReadForce \/ Poll
    \/ TakeTime \/ StoreList \/ SetStateNotified \/ PublishChanged
    \/ ClearForce \/ Wait

Next ==
    \/ CheckThread \/ Build \/ BuildFails
    \/ GraphChanges \/ OnMsgState
    \/ TimePasses \/ DelayUpdateState \/ DelayEnds
    \/ \E c \in Guis :
        Connect(c) \/ Disconnect(c) \/ GetList(c) \/ GetNodeListForced(c)

(* The thread runs, an update that is tried again and again succeeds at     *)
(* last, reports arrive, time passes, and a client asks for what it was     *)
(* told has changed.  Nobody has to connect or to change anything.          *)
Fairness ==
    /\ WF_vars(CheckThread) /\ SF_vars(Build)
    /\ WF_vars(OnMsgState) /\ WF_vars(TimePasses) /\ WF_vars(DelayEnds)
    /\ \A c \in Guis : WF_vars(GetList(c))

Spec == Init /\ [][Next]_vars /\ Fairness

-----------------------------------------------------------------------------
(* Properties *)

(* The thread has a list in hand whose change it has yet to tell. *)
WillTell(l) == pc \in {"notified", "publish"} /\ local.list = l /\ local.changed

(* A connected client that was told of nothing new shows the list that the  *)
(* daemon would serve, unless a refresh has emptied that list since: the    *)
(* message is sent after the list is stored, for every change of the text   *)
(* of the list, and the client asks after it subscribed.  The exception is  *)
(* a list of which the client's full queue lost the last event or reply:    *)
(* it stays outdated until the next change that gets through.               *)
ClientFollows ==
    \A c \in clients, l \in Lists :
        \/ seen[c][l] = served[l]
        \/ seen[c][l] \in {Told, Outdated}
        \/ WillTell(l)
        \/ l = Nodes /\ served[l] = Empty

(* The running update will store the present graph in list l. *)
WillStore(l) ==
    \/ pc = "build"
    \/ pc \in {"take", "store"} /\ local.snap = graph /\ local.list <= l
    \/ pc \in {"notified", "publish"} /\ local.snap = graph /\ local.list < l

(* A list that is out of date will be made anew: the daemon had no client,  *)
(* or a report is under way, or it is later than the stamp, also when it    *)
(* came while the lists were stored and stamped, or a refresh is asked for. *)
(* The exceptions are the changes that no report tells of and the two races *)
(* in which a report or a refresh falls into an update (missed).            *)
StaleIsKnown ==
    \A l \in Lists :
        served[l] # graph =>
            \/ ~hadClients \/ force \/ newer \/ reports > 0
            \/ WillStore(l)
            \/ "change" \in missed
            \/ l = Nodes /\ "refresh" \in missed

(* What nothing will bring to light. *)
Unnoticed(l) ==
    \/ "change" \in missed /\ counted = CountOf[graph]
    \/ "refresh" \in missed /\ l = Nodes

(* A client that stays connected ends up with the present lists, whatever   *)
(* delays, failed updates and refreshes there were, and although a report   *)
(* may be missed: the comparison of the counts makes up for it, unless the  *)
(* change left the counts as they were or the one update it started failed. *)
(* A list stays old, too, whose last event or reply its full queue lost.    *)
Converges ==
    \A c \in Guis :
        <>[](c \in clients) =>
            <>[](\A l \in Lists : seen[c][l] \in {graph, Outdated} \/ Unnoticed(l))

(* The comment in _get_ros_node_list: the list is emptied, and "after the   *)
(* state is ready, a 'ros.nodes.changed' notification will be send".        *)
RefreshAnswered ==
    \A c \in Guis :
        c \in clients /\ seen[c][Nodes] = Empty ~> c \notin clients \/ seen[c][Nodes] = Told
=============================================================================
