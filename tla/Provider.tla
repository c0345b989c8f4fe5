-------------------------------- MODULE Provider ------------------------------
(***************************************************************************)
(* The provider of the GUI (Provider.ts): the state of the connection to   *)
(* one daemon, the requests that run over it, and the list of nodes that   *)
(* is pulled whenever the daemon says that it changed.                     *)
(*                                                                         *)
(* The functions of Provider are asynchronous and interleave at every      *)
(* await; each one in progress is a task.  A request goes through makeCall:*)
(* it is refused without connection, it waits one second if the same       *)
(* request is under way, and is refused if it still is.  A request ends by *)
(* a reply on the socket it was sent over, or by its timeout, which may    *)
(* come long after that socket is gone.                                    *)
(*                                                                         *)
(* Here one socket follows the other (WsConnection has several at a time). *)
(* Of the requests three are modelled: the version of the daemon, the list *)
(* of hosts and the list of nodes, that is, those whose result decides     *)
(* about the state of the connection, and one of those that carry data;    *)
(* the others that updateDaemonInit makes have its form.  The list of      *)
(* nodes is the number of its version; 0 is the empty list.                *)
(***************************************************************************)
EXTENDS Integers, Sequences, SequencesExt

CONSTANTS
  MaxSockets,   \* bound: sockets that are opened
  MaxChanges,   \* bound: versions of the nodes on the host
  MaxTasks      \* bound: tasks at a time, for what starts further ones at will

ASSUME BoundsAreNumbers ==
  MaxSockets \in Nat /\ MaxChanges \in Nat \ {0} /\ MaxTasks \in Nat \ {0}

VARIABLES
  state,      \* connectionState
  link,       \* the socket: "down", "trying", "open", or "closing" (close() was
              \* called or an error reported, the close event is to come)
  socket,     \* number of the last socket
  daemon,     \* this.daemon
  locked,     \* currentRequestList
  tasks,      \* asynchronous functions in progress, the oldest first
  subscribed, \* the socket over which the callbacks are registered, or 0
  version,    \* the nodes on the host
  events,     \* events about changed nodes that are under way
  nodes,      \* rosRunningNodes
  missed,     \* history: the nodes on the host when a pull failed or the event
              \* about a change was lost last
  unlockedBy  \* history: a call of an earlier socket took another's lock

vars == <<state, link, socket, daemon, locked, tasks, subscribed, version,
          events, nodes, missed, unlockedBy>>

States == {"unknown", "connecting", "connected to server",
           "subscriptions registered", "connected", "closed", "errored"}
Requests == {"version", "hosts", "nodes"}
Task(job, req, pc) ==
  [job |-> job, req |-> req, pc |-> pc, socket |-> 0, since |-> 0]

\* The functions: updateDaemonInit, updateProviderList, updateRosNodes, and the
\* registration of the callbacks, whose request stands for its unsub calls.
DaemonInit == Task("init", "version", "begin")
ProviderList == Task("list", "hosts", "begin")
RosNodes == Task("nodes", "nodes", "begin")
Registration == Task("register", "unsub", "begin")

Init ==
  /\ state = "unknown"
  /\ link = "down" /\ socket = 0
  /\ daemon = FALSE
  /\ locked = {}
  /\ tasks = <<>>
  /\ subscribed = 0
  /\ version = 1 /\ events = 0
  /\ nodes = 0 /\ missed = 0
  /\ unlockedBy = FALSE

isAvailable == link = "open"

\* A continuation runs before the next event: nothing else happens while some
\* task is about to begin its request.
Settled == \A k \in DOMAIN tasks : tasks[k].pc # "begin"

\* Faulty variant: what daemon.ready would set off is left to it alone.
StateAlone(s, rest) == state' = s /\ tasks' = rest

\* setConnectionState: what follows a change to s is added to the tasks.  (For
\* "connected to server" see OnOpen.)
SetState(s, rest) ==
  /\ state' = s
  /\ tasks' = IF s # state /\ s = "subscriptions registered"
              THEN Append(rest, DaemonInit) ELSE rest

-------------------------------------------------------------------------------
(* The connection.                                                         *)

\* init, and the reconnect timer of the connection.
Connecting ==
  /\ Settled /\ link = "down" /\ socket < MaxSockets
  /\ link' = "trying" /\ socket' = socket + 1
  /\ state' = "connecting"
  /\ UNCHANGED <<daemon, locked, tasks, subscribed, version, events, nodes,
                 missed, unlockedBy>>

\* onOpenConnection, and setConnectionState("connected to server").
OnOpen ==
  /\ Settled /\ link = "trying"
  /\ link' = "open"
  /\ daemon' = FALSE
  /\ state' = "connected to server"
  /\ tasks' = Append(tasks, Registration)
  /\ UNCHANGED <<socket, locked, subscribed, version, events, nodes, missed,
                 unlockedBy>>

\* onError: the attempt or the connection failed; the close event follows.
OnError ==
  /\ Settled
  /\ link \in {"trying", "open"}
  /\ link' = "closing"
  /\ state' = "errored"
  /\ UNCHANGED <<socket, daemon, locked, tasks, subscribed, version, events,
                 nodes, missed, unlockedBy>>

\* onCloseConnection.
OnClose ==
  /\ Settled
  /\ link # "down"
  /\ link' = "down"
  /\ state' = "closed"
  /\ locked' = {}
  /\ events' = 0
  /\ UNCHANGED <<socket, daemon, tasks, subscribed, version, nodes, missed,
                 unlockedBy>>

\* close(), called by the user: the socket takes its time.
Close ==
  /\ Settled
  /\ link \in {"trying", "open"}
  /\ link' = "closing"
  /\ state' = "closed"
  /\ UNCHANGED <<socket, daemon, locked, tasks, subscribed, version, events,
                 nodes, missed, unlockedBy>>

-------------------------------------------------------------------------------
(* What the daemon sends.                                                  *)

\* An event for a subscribed provider gets under way, or is lost because the
\* daemon's queue for this connection is full.
NodesChange ==
  /\ Settled
  /\ version < MaxChanges
  /\ version' = version + 1
  /\ LET listens == link = "open" /\ subscribed = socket
     IN  \/ listens /\ events' = events + 1 /\ UNCHANGED missed
         \/ listens /\ missed' = version + 1 /\ UNCHANGED events
         \/ ~listens /\ UNCHANGED <<events, missed>>
  /\ UNCHANGED <<state, link, socket, daemon, locked, tasks, subscribed, nodes,
                 unlockedBy>>

\* The event about changed nodes: updateRosNodes.
NodesChanged ==
  /\ Settled /\ link # "down" /\ events > 0
  /\ events' = events - 1
  /\ tasks' = Append(tasks, RosNodes)
  /\ UNCHANGED <<state, link, socket, daemon, locked, subscribed, version,
                 nodes, missed, unlockedBy>>

Subscribed == Settled /\ link # "down" /\ subscribed = socket

\* callbackDaemonReady: the daemon says every three seconds that it is ready.
DaemonReady ==
  /\ Subscribed /\ ~daemon
  /\ Len(tasks) < MaxTasks
  /\ tasks' = Append(tasks, DaemonInit)
  /\ daemon' = TRUE
  /\ UNCHANGED <<state, link, socket, locked, subscribed, version, events,
                 nodes, missed, unlockedBy>>

\* The daemon says that it ends.
DaemonEnds ==
  /\ Subscribed /\ daemon
  /\ daemon' = FALSE
  /\ UNCHANGED <<state, link, socket, locked, tasks, subscribed, version,
                 events, nodes, missed, unlockedBy>>

\* providerUpdated: the list of hosts changed.
HostsChanged ==
  /\ Subscribed
  /\ Len(tasks) < MaxTasks
  /\ tasks' = Append(tasks, ProviderList)
  /\ UNCHANGED <<state, link, socket, daemon, locked, subscribed, version,
                 events, nodes, missed, unlockedBy>>

\* The user refreshes the nodes of a connected provider.
Refresh ==
  /\ Settled /\ state = "connected"
  /\ Len(tasks) < MaxTasks
  /\ tasks' = Append(tasks, RosNodes)
  /\ UNCHANGED <<state, link, socket, daemon, locked, subscribed, version,
                 events, nodes, missed, unlockedBy>>

-------------------------------------------------------------------------------
(* The end of a request and what its function does next.                   *)

\* Task k goes on with its next request.
GoesOn(k, req) == [tasks EXCEPT ![k] = Task(tasks[k].job, req, "begin")]
Gone(k) == RemoveAt(tasks, k)

\* getDaemonVersion; updateDaemonInit goes on if there is still a connection.
VersionEnds(k, ok) ==
  /\ daemon' = ok
  /\ IF ~ok THEN SetState("errored", Gone(k))
     ELSE /\ state' = state
          /\ tasks' = IF isAvailable THEN GoesOn(k, "hosts") ELSE Gone(k)
  /\ missed' = IF ok THEN missed ELSE version
  /\ UNCHANGED <<nodes, subscribed>>

\* updateProviderList.  A list that arrives contains at least its sender.
HostsEnd(k, ok) ==
  /\ SetState(IF ok THEN "connected" ELSE "errored",
              IF tasks[k].job = "init" THEN GoesOn(k, "nodes") ELSE Gone(k))
  /\ UNCHANGED <<daemon, nodes, missed, subscribed>>

EmptyList == 0

\* updateRosNodes: getNodeList returns an empty list when the request failed.
NodesEnd(k, ok, data) ==
  /\ nodes' = IF ok THEN data ELSE EmptyList
  /\ missed' = IF ok THEN missed ELSE version
  /\ state' = state
  /\ tasks' = Gone(k)
  /\ UNCHANGED <<daemon, subscribed>>

\* registerCallbacks: the callbacks are subscribed after the calls to unsub have
\* ended, on the connection there is now.
Registered(k) ==
  /\ IF isAvailable
     THEN /\ subscribed' = socket
          /\ SetState("subscriptions registered", Gone(k))
     ELSE /\ subscribed' = subscribed
          /\ state' = state
          /\ tasks' = Gone(k)
  /\ UNCHANGED <<daemon, nodes, missed>>

Ends(k, ok, data) ==
  CASE tasks[k].req = "version" -> VersionEnds(k, ok)
    [] tasks[k].req = "hosts" -> HostsEnd(k, ok)
    [] tasks[k].req = "nodes" -> NodesEnd(k, ok, data)
    [] tasks[k].req = "unsub" -> Registered(k)

-------------------------------------------------------------------------------
(* makeCall.                                                               *)

Calling(k) ==
  tasks' = [tasks EXCEPT ![k] =
              [@ EXCEPT !.pc = "call", !.socket = socket, !.since = version]]

\* lockRequest finds the request free.
TakesLock(k) ==
  /\ locked' = locked \cup {tasks[k].req}
  /\ Calling(k)
  /\ UNCHANGED <<state, daemon, subscribed, nodes, missed>>

\* Faulty variant: a request does not wait for another one.
FreeAlways(req) == TRUE

Free(req) == req \notin locked

\* The beginning of a request, up to the first await.
Begin(k) ==
  /\ tasks[k].pc = "begin"
  /\ \/ /\ tasks[k].req # "unsub"
        /\ \/ /\ ~isAvailable
              /\ Ends(k, FALSE, 0)
              /\ locked' = locked
           \/ /\ isAvailable /\ Free(tasks[k].req)
              /\ TakesLock(k)
           \/ /\ isAvailable /\ ~Free(tasks[k].req)
              /\ tasks' = [tasks EXCEPT ![k].pc = "wait"]
              /\ UNCHANGED <<state, daemon, locked, subscribed, nodes, missed>>
     \/ /\ tasks[k].req = "unsub"
        /\ \/ /\ subscribed = 0     \* there is nothing to unsubscribe
              /\ Ends(k, TRUE, 0)
           \/ /\ subscribed > 0
              /\ Calling(k)
              /\ UNCHANGED <<state, daemon, subscribed, nodes, missed>>
        /\ locked' = locked
  /\ UNCHANGED <<link, socket, version, events, unlockedBy>>

\* The second is over.  The connection is not asked for again: without it the
\* call fails at once.
WaitOver(k) ==
  /\ Settled
  /\ tasks[k].pc = "wait"
  /\ \/ /\ ~Free(tasks[k].req)
        /\ Ends(k, FALSE, 0)
        /\ locked' = locked
     \/ /\ Free(tasks[k].req) /\ isAvailable
        /\ TakesLock(k)
     \/ /\ Free(tasks[k].req) /\ ~isAvailable
        /\ Ends(k, FALSE, 0)
        /\ locked' = locked
  /\ UNCHANGED <<link, socket, version, events, unlockedBy>>

\* The reply of the daemon, with the nodes of some moment after the call.
Reply(k) ==
  /\ Settled
  /\ tasks[k].pc = "call"
  /\ link # "down" /\ tasks[k].socket = socket
  /\ \E data \in tasks[k].since .. version : Ends(k, TRUE, data)
  /\ locked' = locked \ {tasks[k].req}
  /\ UNCHANGED <<link, socket, version, events, unlockedBy>>

\* The timeout of the call, or an error of the daemon.
Timeout(k) ==
  /\ Settled
  /\ tasks[k].pc = "call"
  /\ Ends(k, FALSE, 0)
  /\ locked' = locked \ {tasks[k].req}
  /\ unlockedBy' = (unlockedBy \/ (/\ tasks[k].socket # socket
                                   /\ tasks[k].req \in locked))
  /\ UNCHANGED <<link, socket, version, events>>

Step(k) == Begin(k) \/ WaitOver(k) \/ Reply(k) \/ Timeout(k)

Next ==
  \/ Connecting \/ OnOpen \/ OnError \/ OnClose \/ Close
  \/ NodesChange \/ NodesChanged
  \/ DaemonReady \/ DaemonEnds \/ HostsChanged \/ Refresh
  \/ \E k \in DOMAIN tasks : Step(k)

\* Every call has a timeout, and timers fire: the oldest task goes on.  Events
\* that arrived are delivered, and a socket that closes is closed.
FirstGoesOn == tasks # <<>> /\ Step(1)
BeginsNow == \E k \in DOMAIN tasks : Begin(k)
Fairness ==
  /\ WF_vars(BeginsNow) /\ WF_vars(FirstGoesOn)
  /\ WF_vars(NodesChanged)
  /\ WF_vars(link = "closing" /\ OnClose)

Spec == Init /\ [][Next]_vars /\ Fairness

-------------------------------------------------------------------------------
(* Properties.                                                             *)

TypeOK ==
  /\ state \in States
  /\ link \in {"down", "trying", "open", "closing"}
  /\ socket \in 0 .. MaxSockets /\ subscribed \in 0 .. socket
  /\ locked \subseteq Requests
  /\ \A k \in DOMAIN tasks :
       /\ tasks[k].job \in {"init", "list", "nodes", "register"}
       /\ tasks[k].req \in Requests \cup {"unsub"}
       /\ tasks[k].pc \in {"begin", "wait", "call"}
       /\ tasks[k].socket \in 0 .. socket
       /\ tasks[k].since \in 0 .. version
  /\ version \in 1 .. MaxChanges
  /\ events \in Nat
  /\ nodes \in 0 .. version /\ missed \in 0 .. version
  /\ daemon \in BOOLEAN /\ unlockedBy \in BOOLEAN

\* lockRequest "prevents multiple calls to the same [request]": over one socket
\* no request is sent again before its answer, unless a call of an earlier socket
\* ended late and took the lock away.
OneCallPerRequest ==
  ~unlockedBy =>
    \A j, k \in DOMAIN tasks :
      (/\ tasks[j].pc = "call" /\ tasks[k].pc = "call"
       /\ tasks[j].req = tasks[k].req /\ tasks[j].req \in Requests
       /\ tasks[j].socket = socket /\ tasks[k].socket = socket) => j = k

\* The nodes of the provider are those of the host once nothing is under way:
\* replies do not overtake each other, and no change is missed between the
\* registration and the first pull, or while a pull is under way.  What may
\* leave another list behind is a pull that was refused or failed after the last
\* change, a lost event about it, and the lost lock of OneCallPerRequest.
NodesConverge ==
  (/\ tasks = <<>> /\ events = 0
   /\ link = "open" /\ subscribed = socket
   /\ ~unlockedBy)
    => nodes = version \/ missed = version

\* A provider with a connection does not stay between the states: it ends up
\* connected, or says that it is not.
Settles ==
  (state \in {"connected to server", "subscriptions registered"})
    ~> (state \in {"connected", "errored", "closed"})

===============================================================================
