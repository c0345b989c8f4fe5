# TLA+ models of the multi agent suite

The suite supervises ROS systems: a **daemon** on every host (Python), a **GUI**
(Electron, TypeScript) that connects to the daemons, and small **introspection
nodes** that the daemon starts and that talk to it like a GUI does. All of them
talk over one websocket protocol (`doc/websocket.md`). This directory holds TLA+
modules of the parts where threads, sockets and timers interleave, TLC
configurations that check them, and TLAPS proofs for any number of threads,
clients and messages.

Check a module with `tlc -config X.cfg M` (the configurations and their modules
are listed under *Runs*), prove one with `tlapm M.tla`.

## The system

| part | state | operations | talks to |
|---|---|---|---|
| **PQueue** `websocket/queue.py` | three lists by priority, a counter each, a total | `put` (check without the lock, append under it), `get` (waits once), `clear` | producers: all threads; consumer: the sender thread |
| **WebSocketHandler** `websocket/handler.py` | subscriptions, registered methods, map of forwarded calls, next id, shutdown flag | `spin` (receiving thread: `sub`, `unsub`, `reg`, calls, responses, messages), `handle_callback` (8 workers), `remote_call`, `publish`, `_send_handler` (sender thread) | its client, the server, handlers of other clients |
| **WebSocketServer** `websocket/server.py` | handlers, local and remote methods, local subscriptions, listeners | `ws_handler`, `register_rpc`, `unregister_rpc`, `subscribe`, `subscriptions` (count), `publish`, `_cb_subs_changed`, watchdog, `shutdown` | all handlers, the servicers |
| **WebSocketClient** `websocket/client.py` | connection, queue, callbacks, pending calls | reconnect loop, sender thread, calls | the server |
| **WebsocketConnection** (GUI) | current socket, promise of the attempt, reconnect flag, timers, pending calls | `open`, `close`, socket events, connect timeout, reconnect, `call`, `subscribe` | the daemon, Provider |
| **Provider** (GUI) | state of the connection, request locks, lists of nodes, launches, screens, their merge | `init`, `close`, `makeCall`, `lockRequest`, `updateDaemonInit`, callbacks for messages, `mergeNodeStates` | WebsocketConnection, RosContext |
| **Node list** (GUI) `HostTreeViewPanel.tsx`, `useQueue.ts` | action queue, pending kills and their timers, pending restart, nodes to start | start, stop, kill, restart, abort; effects that work off the queue | Provider, the user, other panels by events |
| **MonitorServicer** | stored set of warnings, wake-up and stop events, interval | background thread, `stop`, `reload_parameter`, requests | the server (counts, publishes, is a listener) |
| **RosStateServicer**, `rosstate_jsonify.py` | change flags, forced refresh, notified state, generations of composable nodes | check loop, update, requests, lifecycle events | ROS graph, the server |
| **FileObserverRegistry** `launch/file_observer.py` | references of paths, watches, throttle state | reserve, release, flush, start, stop, events | the file system observer, LaunchServicer |
| **LaunchServicer** | loaded launch files, started nodes, observed ids | load, reload, start, node events | FileObserverRegistry, screens |
| launch configuration, indexes and caches; screens; files; parameters; sensors; introspection nodes; discovery (ROS 1) | mostly caches over files, processes and ROS | requests | operating system, ROS |

How they interact. Every client connection has a receiving thread, a sender
thread and up to eight workers in the daemon. The receiving thread of one client
works on the state of another one (a forwarded call is put into the callee's
queue, a response into the caller's). A change of a subscription makes the
thread of the client that changed it count all subscribers, publish the number
and call listeners in the servicers, which wake up their own threads.

Hard behaviours, and the properties that make the parts correct:

* *Queue*: check and append are not one step; the condition variable is waited
  on once. Correct when no wake-up is lost, order within a priority is kept, the
  limit is overrun only boundedly and the sender thread ends with the connection.
* *RPC*: ids collide, registrations are replaced, callers and callees leave in
  the middle. Correct when a reply reaches the call it belongs to, once, when
  nothing of an answered call stays behind, and when every call that is not
  answered has a known reason.
* *Subscriptions*: the count is not a snapshot and is announced without a lock.
  Correct when the last count is right and no listener misses the last change.
* *GUI connection*: several sockets and timers report to one object. Correct
  when it never stops trying, does not multiply, and closes when told to.
* *System diagnostics*: event cleared, subscribers counted, state reset in
  separate steps. Correct when no subscriber is slept over and no listening
  client misses a change.
* *File observer*: the counts are kept under a lock, watchdog is told after it
  was released. Correct when the counts are the references there are, no watch is
  left behind and every directory that a file needs is watched.
* *ROS state*: stamps and flags are read, set and cleared around a slow update while
  reports and refreshes arrive. Correct when a client shows what the daemon serves,
  as long as its outgoing queue takes the messages, and when that is the present graph or is known to be out of date.
* *Provider*: asynchronous functions that interleave at every `await` and
  outlive the connection, a lock per request that is lost with the connection,
  lists that arrive in any order. Correct when no request runs twice, the lists
  become those of the host, the provider does not stay between two states, and
  what it announces is what the lists say together.
* *Node list*: state that is rendered later than the refs it mirrors, effects that
  run again, timers and answers that come after an abort or a start. Correct when
  every queued action is performed once and in order, a start is not undone by the
  kill of an earlier stop, and queue and restart come to their end.

## Modules

| module | models | state and actions |
|---|---|---|
| `PriorityBuffer` | what a queue promises (abstract): accepted messages leave once, first in first out within a priority | `Accept`, `Take`, `Done`, `Leave`, `Discard` |
| `PQueue` | `queue.py` with the threads of a handler | one variable per field; `PutCheck`/`PutAppend` are the two halves of `put`; `GetTakes`, `GetWaits`, `GetReturnsNone`, `SendItem` the sender thread; `SpinEnds`, `SpinWakes` the end of `spin`; `HandlerShutdown` the shutdown |
| `MCPQueue` | bounds of the above for TLC | |
| `WsRpc` | `spin`, `remote_call`, `handle_callback` of `handler.py`; the method tables and `ws_handler` of `server.py` | `RegisterRpc`/`NoteRegistration` are the two halves of `reg`, `ReceiveCall`/`ForwardCall` of a call; `ReceiveResponse` routes an answer; `SpinEnds`, `UnregisterRpc`, `RemoveHandler` are the end of a connection; `Deliver` is the sender thread |
| `WsSubs` | `sub`, `unsub`, `subscriptions`, `_cb_subs_changed` | a change and its announcement in the steps `BeginCount`, `AskHandler`, `EndCount`, `PublishEvent`, `CallListeners`; `ReplyFails` is the reply that a full queue refuses |
| `WsConnection` | `open`, `close`, the socket handlers and timers of `WebsocketConnection.ts` | one action per handler; the socket's `readyState` is part of the state |
| `SysDiag` | the loop of `MonitorServicer`, its listener and `stop` | one action per line that reads or writes shared state |
| `WatchRegistry` | references, entries and watches of `file_observer.py`, the flush of calls to watchdog, `stop` | `AddFile`, `RemoveFile`, `Dispatch` and `Rollback` are the sections under the lock; `CheckReferenced`, `Unschedule`, `Schedule`, `NoteWatch`, `NoteFailure` the steps of `_flush_watch_operations`; `Granted`, `Return` the end of a call; `StopBegins`, `UnscheduleAll`, `StopEnds` are `stop()` |
| `MCWatchRegistry` | which target covers which directory | |
| `UseQueue` | the hook `useQueue.ts` | operators on a record of its refs, one per function: `Update`, `GetAt`, `Pending` (what `has` looks at), `AddStatus`; `Idle` is also `clear` |
| `NodeQueue` | starting and stopping of nodes in `HostTreeViewPanel.tsx` | `StartClicked`, `StopClicked`, `RestartClicked`, `KillClicked`, `Abort` are the clicks and events; `Render` and `RunEffects` React; `Done` the end of a queued handler; `TimerFires` the SIGKILL timer; `AlarmRings` the timer of a restart; `Refresh` a new node map |
| `MCNodeQueue` | two nodes, one loaded into the other | |
| `Provider` | connection state, requests and the pull of the nodes of `Provider.ts` | `tasks` are the asynchronous functions in progress; `Begin`, `WaitOver`, `Reply`, `Timeout` the stations of `makeCall`, each with what its function does next (`VersionEnds`, `HostsEnd`, `NodesEnd`, `Registered`) |
| `ProviderNodes` | `mergeNodeStates` and what triggers it | one action per list that arrives; `applyLaunchInfo`, `applyScreens` as in the code |
| `RosState` | the check loop, callbacks and flags of `rosstate_servicer.py` | `Look` to `Wait` are the loop, one action per access to shared state; `TakeTime`, `StoreList`, `SetStateNotified`, `PublishChanged` are a callback, once for each list; `OnMsgState` a report; `GetNodeListForced` a request with `forceRefresh` |
| `MCRosState` | how many entities a version of the graph has | |
| `PQueueProofs`, `WsRpcProofs`, `WsSubsProofs`, `WatchRegistryProofs`, `ProviderProofs`, `ProviderNodesProofs` | theorems about the module of that name | |
| `DaemonThreadsProofs` | theorems about `SysDiag` and `RosState`, the two threads of the daemon that look for changes | the names of `SysDiag`'s specification begin with `Diag` (`DiagSpec`), so that one module can extend both |
| `GuiProofs` | theorems about `WsConnection` and `NodeQueue`, the two parts of the GUI that its user drives | likewise `Conn` (`ConnSpec`) |

`PQueue` implements `PriorityBuffer` (`ImplementsBuffer`). `WsRpc` and `WsSubs`
use the queue at the level of that buffer: one bounded sequence for the one
priority that their messages have. `SysDiag` uses of `WsSubs` that a change
comes before its announcement and that the count asks one handler after the
other.

`NodeQueue` uses `UseQueue` as the component uses the hook: the refs (`q`) change
at once, the rendered index (`shown`) at the next rendering. A click is rendered,
and its effects run, before anything else happens (React flushes discrete events
at once; `sync`); after timers and answers a rendering may wait. The effects read
the rendered index and the current refs. `shifted` and `startedSince` are history.

`Provider` gives each function in progress a task; between two `await`s it runs
without interruption, so nothing else happens while a task is about to begin a
request (`Settled`). Of the requests the version, the list of hosts and the list of
nodes are modelled, and the `unsub` calls of a registration as one; the list of
nodes is the number of its version. It assumes of `WsConnection` one socket at a
time, and that a call ends by its reply over the same socket or by its timer
(`WebsocketConnection.call`), also after the socket is gone. That a list of hosts
contains at least the daemon that sends it is the daemon's part. An event about
changed nodes may be lost, because the daemon's queue for the connection was full;
`missed` remembers this, and a pull that failed. `missed` and `unlockedBy` are history.
That a `sub` call fails after a registration makes no difference: `subscribe` of the
connection (`WebsocketConnection.ts:262`) takes the result of a failed call, an object,
for success and keeps the callback, and the daemon adds the subscription before it
replies. The model therefore has no action for it, and takes the frames of `sub` as
received while the socket is open. `ProviderNodes` is the other half: what happens to the
lists once they are there; it knows no connection, any list may come at any time.

In `WatchRegistry` a file has a set of directories and a directory a target (a
directory of its own or a watch root); `disk` is what `_path_details` would find
at the moment, and changes when a file or a link moves. watchdog is external: a
set of watched targets per observer, where scheduling an equal watch again does
nothing and unscheduling takes the one there is, whoever scheduled it. It calls
the registry with its own lock held, so the dispatcher excludes the calls of
other threads (`ObserverFree`). `register_launch` and `unregister_launch` are
sequences of `add_file` and `remove_file`. Three variables are history: `held`
counts what callers were granted, `raced` in an entry says that a thread had
already decided to unschedule its target, `unbalanced` names targets whose
count a failure took away.

In `RosState` the ROS graph is a version, and reading it one step (`update_state`
asks ROS many times; a change during that is either in the snapshot or not). A list
is the version it was made from, so a list that is made anew for another version
counts as another list. Of times the module keeps what the code compares: whether
the last report is later than the last stamp, and how old that stamp is. The topics
and services go through callbacks of the same form as the nodes; only the list of
nodes is emptied by a refresh. `missed` is history. What happens to a list in the
client is the part of `Provider`; here a request and its answer are one step, and
`seen` is the list that a client got last, or in its place `Told` (it was told of a
change and has yet to ask) or `Outdated`. The latter is history: the queue of a client
in `SlowGuis` was full when the last event or reply about that list was put. `publish`
of the server swallows the exception and returns `False` (`server.py:349-354`), the
callbacks ignore that, and as the list is stored nothing repeats the event. Neither is a
reply that a full queue refuses (`handler.py:224`) ever sent again.

Definitions under "Faulty variant" in a module are not used by the
specification: each one is what a plausible bug would make of a definition
below it, and shows that a property notices.

## Runs

| run | question | bounds |
|---|---|---|
| `MCPQueue.cfg` | `OvershootBounded`, `NoLostWakeup`, `SenderStops`, `ImplementsBuffer` with fairness | 2 workers and the receiving thread, 2 messages, limit 2, the 2 priorities in use, `clear` may be called while the connection is in use |
| `MCWsRpc.cfg` | replies, routes, leaks, owners, drops | 3 clients (one of them caller and provider), 1 method, 1 id each, queues of 2 |
| `MCWsRpcLive.cfg` | `CallsSettle` | 2 clients, 2 calls, a local and a remote method |
| `WsSubs.cfg` | `LastCountRight`, `ListenersUpToDate` | 2 clients, 1 of them slow, 1 local subscriber |
| `WsConnection.cfg` | `NeverGivesUp`, `AttemptsBounded`, `CurrentMayReconnect`, `Reconnects` | 3 opens, any number of closes, 3 sockets |
| `SysDiag.cfg` | `ChangeSeen`, `KnownIsState`, `NewsOnly`, `StopEnds` | 2 clients, 1 of them slow, 3 sets of warnings |
| `MCWatchRegistry.cfg` | `CountsAreReferences`, `ReferencesOwned`, `NoOrphanWatch`, `WatchedUnlessRaced` | 2 callers and the dispatcher, 2 files, 2 directories, one of them under a root, one target that may be refused, 2 references, 2 generations, 1 move |
| `MCWatchRegistryAgain.cfg` | *violated*: `ReferencedAgainIsWatched` | the same without refusals and moves |
| `MCNodeQueue.cfg` | `OneAfterTheOther`, `StartWithdrawsKill`, `WorkEnds` | 2 nodes, a container with a kill time and a member, 3 clicks |
| `Provider.cfg` | `OneCallPerRequest`, `NodesConverge`, `Settles` | 2 sockets, 2 versions of the nodes, 2 requests at will |
| `ProviderNodes.cfg` | `ToldIsReference` | 2 nodes, 2 launch files, 2 process ids |
| `MCRosState.cfg` | `ClientFollows`, `StaleIsKnown`, `Converges` | 1 client that comes and goes and whose queue may be full at any time, 2 lists, 2 changes of the graph, 1 forced refresh, 1 delay |

The type invariant of every module is proved; in five runs it is checked as well
(queue, calls, file observer, node list, ROS state).

Five more configurations keep counterexamples to what a comment or document says,
for comparison: `WsSubsEvents.cfg`, `WsConnectionClose.cfg`, `SysDiagNext.cfg`,
`MCNodeQueueStale.cfg` and `MCRosStateRefresh.cfg`. TLC violates the property of each (see *Where the code and
its documentation differ*).

Why the bounds are enough to be interesting: the races are between two threads
over one datum, with a third as a bystander; three queued frames already contain
every order of two; 3 sockets allow a stale one, a current one and one that a
timer opens; two generations are an entry and the one that replaces it (with
three, 9 million states, the run of the file observer finds nothing either). Three
clicks are stop, restart and start of one node, or stop, abort and stop; two
sockets leave calls of the first to end over the second; two versions of the nodes
are a pull with a change behind it, two requests at will two pulls at a time beside
those that a connection sets off. Two lists are the one that a refresh empties and one
that is stored and stamped after it; of two changes the first alters the counts and the
second does not; a second client would multiply the states, and the proofs have any
number of clients, slow and fast ones. Two launch files are a node that stays in one of
them. The
safety properties that are proved do not depend on the bounds at all.

Bounds that are part of the modules: `MaxOpens` (how often the user opens the
GUI connection), `MaxLocal` (local subscriptions at a time), `CallIds` (each id
is used for one call), a connection in `WsRpc` and `WsSubs` is used once (a
client that comes back is another handler, as in the code), `MaxRefs`, `MaxGen`
and `MaxMoves` in `WatchRegistry` (references of a file, entries made, moves). An
event refreshes one file there, and the new entries of one call share a
generation, which is only compared for equal targets. `stop()` is called once and
a second `start()` is not made, as in the daemon. `MaxClicks` bounds the clicks in
`NodeQueue`, `Selections` what they are about; `MaxSockets`, `MaxChanges` and
`MaxTasks` the sockets, versions and voluntary requests in `Provider`; `MaxChanges` and
`MaxForces` the changes and forced refreshes in `RosState`, where updates are delayed once.

`CHECK_DEADLOCK FALSE` is set where the system may stop: connections that all
ended in the websocket modules, a user who opened or clicked as often as the bound
allows, file references and generations at their bound, the last socket of a
provider closed, a ROS graph that no longer changes.

## Fairness

* `PQueue`: threads that can run do so; the peer need not close, nobody need put.
* `WsRpc`: threads and workers go on, the sender delivers to a live client, and
  a client answers what it was asked. The last one is strong fairness: the answer
  competes with other messages of the same client, which are read in order.
* `WsConnection`: timers fire and a closing socket is closed (the browser
  guarantees both). That one of the attempts to connect succeeds is strong
  fairness on `SocketOpens` of the current socket, an assumption on the daemon.
* `SysDiag`: the loop runs and its waits time out; `stop()` goes on once begun.
* `NodeQueue`: React renders what is set and runs its effects, timers fire, and a
  handler ends, because its calls to the daemon have a timeout. The user need not
  click and the provider need not report.
* `Provider`: a task that is about to begin does so, the oldest task goes on
  (every call has a timeout, every wait is one second), events that arrived are
  delivered and a closing socket is closed. That the daemon answers, that a socket
  opens or that the nodes change is not assumed.
* `RosState`: the thread goes on, reports arrive, delays end, a client asks for what
  it was told of. Strong fairness on `Build` says that of updates which are tried
  again and again one succeeds; that a failed one is tried again is not assumed.
* `WsSubs`, `WatchRegistry` and `ProviderNodes` have safety properties only, and no fairness.

## What is proved

Every safety property that a run checks, state or action property, is a theorem. All
proofs are by an inductive invariant, from the assumptions on the
constants only (finite sets of threads, callers, clients, files and nodes, a positive
limit, distinct special values).

* `PQueueProofs`: `TypeCorrect`, `Overshoot`, `Wakeup`, `ImplementsSafeBuffer`.
  `OvershootBounded` says that no list is longer than the limit plus the number
  of threads less one. It is not inductive: a thread that passed the check will
  append. `RoomShared` adds those threads to the length. `CountsMatch` ties the
  counters, which the check reads, to the lists. The refinement uses the same
  invariant, because a miscounted list would let `get` return nothing.
* `WsRpcProofs`: `TypeCorrect`, `RepliesAreOwn`, `CallsAreRouted`,
  `EntriesArePending`, `GoneServeNothing`, `Withdrawals`, `DropsWhileRegistering`.
  There are three inductive invariants. `OneQuestion`: a question is in one place
  at a time (with the thread that forwards it, with a worker thread, in one outgoing
  queue, with one client), and while it is anywhere its client waits for it; each
  action moves one question. `Routed`: the entries of a handler have different ids
  below `nextId`, so a call that leaves takes its own entry with it and no other.
  `Registered`: a method that leads to a handler is noted there or about to be,
  which leaves one window in which `remote_call` finds nothing.
* `WsSubsProofs`: `TypeCorrect`, `LastCountIsRight`, `ListenersNotMissed`. The
  argument is in `AddsUp`: when no change waits for its announcement, all
  changes came before the last count began, so what that count has found and
  what it will still find add up to the subscribers there are.
* `GuiProofs` on `WsConnection`: `ConnTypeCorrect`, `NoMultiplying`, `AlwaysUnderWay`,
  `EarlyReturnsSafe`. The four invariants are inductive together: that attempts
  are bounded needs that `open` returns early for the right sockets.
* `GuiProofs` on `NodeQueue`: `QueueTypeCorrect`, `WorkedOffInOrder`, `RestartedIsSafe`.
  `OneAfterTheOther` is not inductive, because what is rendered may lag behind the
  queue. `QueueInv` adds that a handler at work is on the item that was performed last
  (`Current`) and that effects which are still to run see no item, the current one, or
  the one before it, and that one is the item performed last (`Rendered`): then
  `lastProcessedKeyRef` tells them apart. That the statuses are those of the first items
  (`InOrder`) is kept by what `update` appends (`UpdateKeeps`) and by the status of the
  current item (`StatusInOrder`). `StartWithdrawsKill` follows from `Withdrawn`: as long
  as a node waits for its SIGKILL (`pendingKill`), it was not started since the stop of
  its timer or a later timer has it too; and a timer kills only what waits. Most of the
  module shows that the lists are lists of nodes.
* `DaemonThreadsProofs` on `SysDiag`: `DiagTypeCorrect`, `NoSubscriberMissed`, `StateShared`,
  `NothingTwice`. `PassedOver` says what the thread may assume of a subscriber
  that its count did not find: it is new, nothing was sent to it, and its change
  is still to be announced. This is why resetting the state is harmless.
* `DaemonThreadsProofs` on `RosState`: `TypeCorrect`, `ClientsFollow`, `StaleKnown`.
  `ClientFollows` is inductive with the types: a list is stored and its change decided in
  one step, and announced before the next list. What a full queue loses is marked in the
  same step (`PublishSeen`, `RequestSeen`), and only for clients in `SlowGuis` (`TypeOK`):
  for the others the theorem has no such exception. `StaleIsKnown` speaks of lists while they
  are replaced one by one. Three statements take it apart (`Known`): what the running
  update has stored is what it read (`StoredIsRead`); a change that came after it read the
  graph is on its way, later than the stamp, or among the known losses (`LaterIsKnown`);
  and between two updates what is out of date is known (`RestIsKnown`).
* `WatchRegistryProofs`: `TypeCorrect`, `NothingLeftBehind`, `NotedIsWatched`,
  `ReferencesAreOwned`, `CountsAreRight`, `HeldIsWatched`.
  `NoOrphanWatch` needs to know why a thread that finds a target referenced may
  keep its watch: the entry either has the watch noted, or the call that made the
  entry is still to note it (`EntryPending`), or was refused, and then the watch
  that is there is being undone (`RefusedUnwatched`). Generations identify that
  call (`Generations`). The locked sections are instances of one lemma,
  `Section`: entries by reservations, then by releases. The references of a file are
  counted in two ways (`ReferencesOwned`, with the threads that are adding it), and the
  count of a target is a sum over files (`CountsAreReferences`): each locked section
  changes one summand and the entry by the same amount (`CountsShift`), and keeps a count
  at zero exactly when there is no entry. With both, a target of a file that somebody
  holds has an entry, and `NotedIsWatched` says that it is watched (`WatchedUnlessRaced`).
* `ProviderProofs`: `TypeCorrect`, `OneCall`, `NodesArrive`. The invariant ties the
  locks to the tasks: a call of the current socket holds its lock (`LockHeld`), one
  that waits is a request that can be locked (`WaitsForLock`), as long as no lock
  was taken away. `NodesConverge` needs to know why the list will still change
  (`PullComes`): an event is under way, a task will pull, or the registration whose
  init pulls is still to come (`SubscribedLate`).
* `ProviderNodesProofs`: `TypeCorrect`, `AnnouncedIsReference`. Here the work is
  in lemmas about data: what `applyLaunchInfo` and `applyScreens` make of any three
  lists is their reference, and a merge that notices no change changes nothing. The
  invariant adds that what was announced is the merged list (`AnnouncedIsMerged`),
  because the merge compares with that list and not with what it announced.

Two of the modules work with data that the library defines by recursion and states no
usable theorem about: sums over a set (`SumFunctionOnSet`) and the flattening of a
sequence of sequences (`FlattenSeq`). An induction rule with a predicate as its parameter
is beyond the provers, but one with a *set* of the good cases is not: `SubsetInduction`
(over the subsets of a finite set) and `UptoInduction` (over the numbers up to one) follow
from the well-foundedness of both orders, and give the recursive function behind the
operator, its type, and that a sum changes by as much as one of its summands.
`SelectSeq` stays out of reach, because tlapm does not expand its recursive definition;
`NodeQueue` therefore chooses from a list by flattening it (`Only`, `Without`).

Only model-checked: liveness (`SenderStops`, `CallsSettle`, `Reconnects`,
`StopEnds`, `WorkEnds`, `Settles`, `Converges`, and the fairness part of
`ImplementsBuffer`), because the prover has no rules for fairness and `ENABLED`. What the
lists of `NodeQueue` hold beside their types (their order and that nothing is in
them twice, `ToStop`, `ToStart`) no theorem says; that what a timer kills was pending
is proved (`ToKillTyped`).

## Where the code and its documentation differ

1. `doc/websocket.md:19` an event tells the number of subscriptions "when the
   number … has changed": count and publication are not one step, and the last
   event may carry an old number (`WsSubsEvents.cfg`), on which introspection
   nodes rely to exit.
2. `WebsocketConnection.ts:233` "Close the WebSocket connection": the late close
   event of an older socket makes the object forget the current one, which
   `close` then leaves open (`WsConnectionClose.cfg`).
3. `monitor_servicer.py:173` "so the next subscriber gets the current warnings
   once": only if the thread counts zero in between (`SysDiagNext.cfg`).
4. `file_observer.py:808` "a watch target which is released and immediately
   re-referenced ends up with a valid watch": not when it is referenced again
   between the check and the call to watchdog (`MCWatchRegistryAgain.cfg`).

5. `HostTreeViewPanel.tsx:200` "Re-read the node from the current node map and check
   whether it is still alive": the timer of a stop calls `isStillRunning` of the
   rendering in which the nodes were stopped, with the node map of that moment. It
   puts a KILL into the queue for nodes that ended since (`MCNodeQueueStale.cfg`).
   `useCallback` with `rosCtx.nodeMap` makes a new function, which the pending timer
   does not see.
6. `rosstate_servicer.py:861` "after the state is ready, a 'ros.nodes.changed'
   notification will be send": a request with `forceRefresh` that arrives after the
   nodes of a running update were stored empties their list and sets the flag, which
   the end of that update clears (line 466). The daemon serves an empty list of nodes,
   and tells nobody otherwise, until the next change (`MCRosStateRefresh.cfg`). The
   refresh buttons of the GUI and the panels of topics, services and actions make such
   requests.

Of these the fourth is a run of `PROJECT.json`; the others are the configurations
named.

More that was met while modelling has no configuration of its own. `queue.py:40` says that no items are added
at the limit, but the check is outside of the lock; `OvershootBounded` says by
how much the limit can be overrun. When a target is refused, its entry is deleted
with the references that other calls have added to it (`file_observer.py:843`).
And the rollback of a refused `add_file` releases the directories that the file
had when the call began, although an event may have changed them
(`file_observer.py:955`): a count is lost and another one stays. Both leave the
counts of the targets concerned wrong for good, which `CountsAreReferences` and
`WatchedUnlessRaced` therefore leave out by `unbalanced`.

In the ROS state:

* A report of a change that arrives between the snapshot and the last time stamp of an
  update is taken as notified. The comparison of the counts brings the change to light
  when it altered them; a node that was replaced by another is missed (`missed`).
* The new counts are stored before the update they cause (lines 441-456): when that
  update fails, nothing repeats it (the second reason in `Unnoticed`).
* A client whose outgoing queue is full when a list changes is not told, and shows the
  old list until that list changes again, however long its queue has been empty since
  (`Outdated`). The same holds for the reply to its request.
* While updates are delayed, `continue` (line 404) skips the wait at the end of the
  loop: the thread spins until the delay is over.

In the node list:

* After an abort the handler that was at work still reports. `addStatus` counts its
  status for the current item of the next queue, which then goes on before that item
  is done (`shifted`). `statusForIndexRef` was meant against it (`useQueue.ts:41`),
  but it compares the index with itself: the index moves on with every status, so
  the test at line 110 never holds.
* A node that is stopped, started and stopped again is killed by the timer of the
  first stop, before the time of the second is over (the exception in
  `StartWithdrawsKill`). A companion (container or associated node) that is started
  with a node keeps its pending SIGKILL, because only the selected nodes are removed
  from the list.
* `stopNodes` looks for nodes that are queued before it queues anything: a node that
  is selected and associated with another selected one gets two STOPs. `onKillNodes`
  queues without a look.

In the provider:

* Calls are not rejected when their socket closes. They end 11 seconds later, after
  a reconnect: the provider then says *errored* although it is connected, or shows
  an empty list of nodes until the next change (`missed`), and the lock of a newer
  call is taken away (`unlockedBy`), so that an older reply may replace a newer one.
* An event that comes while a pull takes more than a second is refused as *running*,
  which empties the list. The retries of `makeCall` (`callAttempts`) are never
  reached, because the rejection is caught before.
* A registration of an old socket that ends late registers again and sets the state
  from *connected* back to *subscriptions registered*; the init that follows repairs
  it.
* The end of the last launch file, or of the last screen, is not announced by
  itself (`applyLaunchInfo` returns whether there are files, not whether they
  changed), and a request for the launch files that fails empties their list without
  a merge. Both show with the next event (`unsaid`).

## What is not modelled, and why

* Contents of messages, parameters, results and paths: a call is named by its
  caller and id, a set of warnings is a value. Nothing checked depends on more.
* The server socket, its watchdog and `shutdown` (next to the handlers' end,
  which is modelled); the Python client; `subscribe` and the promises of `open` in
  the GUI connection.
* Of the provider: requests that hand their result to a panel and keep no state
  (files, parameters, loggers, message types), subscribers and introspection,
  diagnostics, lifecycle and composable nodes; ROS 1 nodes on other hosts; the state
  *starting*, in which the GUI starts a daemon on the host before it connects, and which
  hides failed attempts. Of a node
  list what a node carries beside status and process.
* Of the node list panel: unregister, clear log and dynamic reconfigure, whose
  handlers have the form of the modelled ones; the dialogs (several launch files,
  processes to kill, shutdown); selection and filter.
* What a measurement reads, what ROS or the operating system do: inputs.
* Of the file observer: the table of launch files, the throttling of events and
  the worker that calls back; a second `start()`.
* Of the ROS state: the end of the discovery node, which only marks the state as
  changed; time jumps; the list of other daemons and its timeouts; lifecycle states
  and composable nodes; stopping of nodes and calls of ROS services; `stop()`.
* Launch file interpretation, caches, screens, files, parameters: sequential
  code over external state, with little that interleaves.
* The GUI's other panels and the Electron main process. Two fifths of the lines of
  the repository are such components (`.tsx`), which turn state into markup, tables, menus,
  editors and settings, one handler per widget. What they share, the provider, its
  connection and the action queue, is modelled; the rest has few states that a model
  could tell apart. This is why the modules stand for a small share of all lines, and
  for about a third of the files that they are about. Terminals (reconnect of a
  session) and the command executor of the main process are candidates.

## Plan

Modules in the order of what matters most; those up to 10 exist.

1. `PQueue` with `PriorityBuffer`, proofs of safety and refinement.
2. `WsRpc` with proofs; 3. `WsSubs` with proofs; 4. `WsConnection` with proofs;
   5. `SysDiag` with proofs; 6. `WatchRegistry` with proofs.
7. `UseQueue`, `NodeQueue` with proofs: the actions of the node list.
8. `Provider` with proofs; 9. `ProviderNodes` with proofs.
10. `RosState` with proofs.
11. What is left of the file observer: `FileEvents`, the throttling of change events
    with their worker (*the last change of a file is reported*), and `LaunchWatch`,
    which composes the registry with `register_launch` and the order of events of
    the launch servicer.
12. `Composables`: generations and retries of component queries; `PyClient`: the
    reconnecting Python client.
13. `Provider` over `WsConnection`: several sockets at a time, the promises of `open`.
