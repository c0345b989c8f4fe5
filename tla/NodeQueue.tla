------------------------------- MODULE NodeQueue ------------------------------
(***************************************************************************)
(* The node list of the GUI (HostTreeViewPanel.tsx) starts, stops, kills   *)
(* and restarts nodes through one queue (UseQueue).  An effect of the      *)
(* component performs the item at the rendered index; the handler of the   *)
(* item awaits a call to the daemon and reports with addStatus, which      *)
(* advances the queue.  A stop arms a timer that kills what is left after  *)
(* the time of the launch file; a restart stops, waits for the queue and   *)
(* for that time, and starts.                                              *)
(*                                                                         *)
(* React: a set-state makes the component "dirty", Render takes the new    *)
(* values and schedules the effects, RunEffects runs them with the index   *)
(* that was rendered while the refs may have moved on.  A click is         *)
(* rendered, and its effects run, before anything else happens ("sync");   *)
(* after everything else a rendering may wait.                             *)
(*                                                                         *)
(* Left out: the dialogs (several launch files, processes to kill), nodes  *)
(* without launch file and system nodes, and the queued actions unregister *)
(* and clear log, whose handlers and requests have the form of KILL.       *)
(***************************************************************************)
EXTENDS UseQueue, SequencesExt, FiniteSets

CONSTANTS
  Nodes,
  Associated,     \* Associated[n]: nodes to be started and stopped with n
  ContainersOf,   \* ContainersOf[n]: containers that n is loaded into
  Timed,          \* nodes with a sigkill_timeout in a launch file
  NoRestart,
  AliveAtStart,   \* nodes that run when the panel is opened
  Selections,     \* bound: the selections of nodes a click is about
  MaxClicks       \* bound: clicks of the user and events of other panels

ASSUME NodesAssumption == IsFiniteSet(Nodes)
ASSUME RelationsOfNodes ==
  /\ Associated \in [Nodes -> SUBSET Nodes]
  /\ ContainersOf \in [Nodes -> SUBSET Nodes]
  /\ Timed \subseteq Nodes
  /\ AliveAtStart \subseteq Nodes
  /\ Selections \subseteq (SUBSET Nodes) \ {{}}
ASSUME ClicksBounded == MaxClicks \in Nat

VARIABLES
  q,            \* the refs of useQueue
  running,      \* handlers that await the daemon, in the order they began
  alive,        \* nodes that run on the host
  known,        \* nodes that run according to the rendered node map
  pendingKill,  \* pendingKillNodesRef, a list with repetitions
  killTimers,   \* pending SIGKILL timers
  restart,      \* pendingRestart
  batch,        \* nodesToStart, <<>> for undefined
  shown,        \* queue.currentIndex as rendered
  lastKey,      \* lastProcessedKeyRef
  dirty,        \* state was set and is not rendered
  effects,      \* rendered, the effects are still to run
  sync,         \* a click is being rendered
  clicks,       \* clicks so far
  shifted,      \* history: a status of an abandoned item advanced this queue
  startedSince  \* history: [timer |-> id, node |-> n] if the user started n, or
                \* a restart did, after the stop that armed the timer

vars == <<q, running, alive, known, pendingKill, killTimers, restart, batch, shown,
          lastKey, dirty, effects, sync, clicks, shifted, startedSince>>

Kinds == {"START", "STOP", "KILL"}
QueueItem == [action : Kinds, node : Nodes]
Item(kind, n) == [action |-> kind, node |-> n]
Items(kind, list) == [k \in DOMAIN list |-> Item(kind, list[k])]
IsQueued(queue, kind, n) == Item(kind, n) \in Pending(queue)

\* The entries of a list that are in S, or are not, in their order.  (Not by
\* SelectSeq, of which the provers know nothing.)
Only(list, S) ==
  FlattenSeq([k \in 1 .. Len(list) |-> IF list[k] \in S THEN <<list[k]>> ELSE <<>>])
Without(list, S) ==
  FlattenSeq([k \in 1 .. Len(list) |-> IF list[k] \notin S THEN <<list[k]>> ELSE <<>>])

Init ==
  /\ q = Idle
  /\ running = <<>>
  /\ alive = AliveAtStart
  /\ known = alive
  /\ pendingKill = <<>>
  /\ killTimers = {}
  /\ restart = NoRestart
  /\ batch = <<>>
  /\ shown = -1
  /\ lastKey = <<-1, NoItem>>
  /\ dirty = FALSE /\ effects = FALSE /\ sync = FALSE
  /\ clicks = 0
  /\ shifted = FALSE
  /\ startedSince = {}

-------------------------------------------------------------------------------
(* Which nodes a request is about.                                         *)

\* updateWithAssociations: the associated nodes in front of each node.  A node
\* that is selected and associated is in the list twice.
WithAssociated(S) ==
  FlattenSeq([k \in 1 .. Cardinality(S) |->
                Append(SetToSeq(Associated[SetToSeq(S)[k]]), SetToSeq(S)[k])])

\* sortByContainerHierarchy(.., "first"): of the nodes N, what is loaded into a
\* container of N ends with the container and is dropped, unless the container
\* is itself loaded into it, maybe by way of others.  (What is not a container
\* is in no ContainersOf, so is_container needs no test of its own.)
LeadsTo(N, from, target) ==
  LET reach[k \in Nat] ==
        IF k = 0 THEN {from}
        ELSE reach[k - 1] \cup UNION {ContainersOf[c] \cap N : c \in reach[k - 1] \cap N}
  IN target \in reach[Cardinality(N)]
ContainersFirst(N) ==
  {n \in N : \A c \in ContainersOf[n] \cap N : c = n \/ LeadsTo(N, c, n)}

\* stopNodes: running nodes, not in the queue to be stopped.
ToStop(S) ==
  Only(WithAssociated(S),
       ContainersFirst({n \in Range(WithAssociated(S)) \cap known : ~IsQueued(q, "STOP", n)}))

\* startNodesWithLaunchCheck: each node once, its container in front of it
\* (getNodeLetManager), none that runs, unless its state is to be ignored, and
\* none that is queued.
Addable(queue, ignoreRunState, n) ==
  ~IsQueued(queue, "START", n) /\ (ignoreRunState \/ n \notin known)
ToStart(queue, S, ignoreRunState) ==
  LET list == WithAssociated(S)
      managers(n) == {c \in ContainersOf[n] :
                        /\ ~IsQueued(queue, "START", c)
                        /\ (c \notin known \/ (ignoreRunState /\ c \in S))}
      added(n) == IF Addable(queue, ignoreRunState, n) THEN managers(n) \cup {n} ELSE {}
      new(k) == added(list[k]) \ UNION {added(list[j]) : j \in 1 .. k - 1}
  IN FlattenSeq([k \in 1 .. Len(list) |->
       SetToSeq(new(k) \ {list[k]}) \o SetToSeq(new(k) \cap {list[k]})])

\* History: the nodes S are started, whatever timers are pending.
NowStarted(S) ==
  startedSince \cup {[timer |-> t.id, node |-> n] : t \in killTimers, n \in S}

-------------------------------------------------------------------------------
(* Clicks, and the events by which other panels ask for the same.          *)

Click ==
  /\ ~sync /\ ~effects
  /\ clicks < MaxClicks
  /\ clicks' = clicks + 1
  /\ sync' = TRUE /\ dirty' = TRUE

\* Faulty variant: a restart without nodes remains.
DropLeavesRestart(S) ==
  IF restart = NoRestart THEN NoRestart ELSE [restart EXCEPT !.nodes = @ \ S]

\* removePendingNodes: a node that is started is neither killed nor restarted.
DropFromRestart(S) ==
  IF restart = NoRestart \/ restart.nodes \subseteq S THEN NoRestart
  ELSE [restart EXCEPT !.nodes = @ \ S]

\* Faulty variant: a node that is started keeps its pending SIGKILL.
KeepsPendingKill(S) == pendingKill

\* removePendingKill.
WithoutPendingKill(S) == Without(pendingKill, S)

\* startSelectedNodes, startNodesFromId.
StartClicked(S) ==
  /\ Click
  /\ pendingKill' = WithoutPendingKill(S)
  /\ restart' = DropFromRestart(S)
  /\ batch' = LET list == ToStart(q, S, FALSE) IN
              IF list = <<>> THEN batch ELSE list
  /\ startedSince' = NowStarted(S)
  /\ UNCHANGED <<q, running, alive, known, killTimers, shown, lastKey,
                 effects, shifted>>

\* stopNodes: the STOPs, and one timer for the nodes with a sigkill_timeout.
\* The timer keeps isStillRunning of this rendering, and with it the node map.
Stop(S) ==
  LET list == ToStop(S)
      timed == Range(list) \cap Timed
  IN /\ q' = Update(q, Items("STOP", list))
     /\ IF timed = {} THEN UNCHANGED <<pendingKill, killTimers>>
        ELSE /\ pendingKill' = pendingKill \o SetToSeq(timed)
             /\ killTimers' = killTimers \cup
                  {[id |-> clicks, nodes |-> timed, view |-> known]}

StopClicked(S) ==
  /\ Click
  /\ Stop(S)
  /\ UNCHANGED <<running, alive, known, restart, batch, shown, lastKey,
                 effects, shifted, startedSince>>

\* restartNodes: stop, and merge with the restart that waits.  "after" are the
\* timers that fire before notBefore.
RestartClicked(S) ==
  /\ Click
  /\ Stop(S)
  /\ restart' =
       LET mine == {t.id : t \in killTimers' \ killTimers}
           old == IF restart = NoRestart THEN [nodes |-> {}, after |-> {}]
                  ELSE restart
       IN [nodes |-> old.nodes \cup S, after |-> old.after \cup mine,
           killTried |-> FALSE]
  /\ UNCHANGED <<running, alive, known, batch, shown, lastKey, effects,
                 shifted, startedSince>>

\* killSelectedNodes, and EVENT_KILL_NODES, which does not look at the queue
\* (and is the same unless something is queued).
KillClicked(S, event) ==
  /\ Click
  /\ event => \E n \in S : IsQueued(q, "KILL", n)
  /\ q' = Update(q, Items("KILL", SetToSeq({n \in S : event \/ ~IsQueued(q, "KILL", n)})))
  /\ UNCHANGED <<running, alive, known, pendingKill, killTimers, restart, batch,
                 shown, lastKey, effects, shifted, startedSince>>

\* clear() abandons the handlers that run: their status finds another queue.
Abandoned == [k \in DOMAIN running |-> [running[k] EXCEPT !.old = TRUE]]

\* The stop button beside the progress bar.
Abort ==
  /\ Click
  /\ shown >= 0
  /\ killTimers' = {} /\ pendingKill' = <<>>
  /\ restart' = NoRestart
  /\ q' = Idle
  /\ running' = Abandoned
  /\ shifted' = FALSE
  /\ UNCHANGED <<alive, known, batch, shown, lastKey, effects, startedSince>>

-------------------------------------------------------------------------------
(* Rendering and effects.                                                  *)

Render ==
  /\ dirty /\ ~effects
  /\ shown' = q.index
  /\ dirty' = FALSE /\ effects' = TRUE
  /\ UNCHANGED <<q, running, alive, known, pendingKill, killTimers, restart, batch,
                 lastKey, sync, clicks, shifted, startedSince>>

\* Effect of nodesToStart.
Batched == Update(q, Items("START", batch))

\* Effect of pendingRestart: the queue is idle and notBefore is over, which is
\* later than the timers of its stops.
TimeIsOver == restart.after \cap {t.id : t \in killTimers} = {}
RestartDue == restart # NoRestart /\ shown < 0 /\ TimeIsOver

\* What a last SIGKILL is sent to, once for each restart.
StillAlive ==
  IF restart.killTried THEN {}
  ELSE {n \in restart.nodes : /\ n \in Range(pendingKill) /\ n \in known
                              /\ ~IsQueued(Batched, "KILL", n)}

\* Faulty variant: an item is known by its name alone.
KeyOfName(queue) == <<0, GetAt(queue, shown)>>

\* "update queue" effect: an item is known by its index and its name.
Key(queue) == <<shown, GetAt(queue, shown)>>

\* Faulty variant: every run of the effect performs the item.
AlwaysNew(queue) == TRUE

\* The item was not performed before (lastProcessedKeyRef).
IsNew(queue) == Key(queue) # lastKey

Perform(queue) ==
  LET item == GetAt(queue, shown) IN
  /\ lastKey' = Key(queue)
  /\ \/ /\ (~IsNew(queue) \/ shown < 0)
        /\ q' = queue
        /\ UNCHANGED <<running, shifted>>
     \/ /\ IsNew(queue) /\ shown >= 0 /\ item # NoItem
        /\ \/ \* the handler calls the daemon
              /\ q' = queue
              /\ running' = Append(running,
                   [item |-> item, index |-> shown, old |-> FALSE])
           \/ \* the provider is not available
              /\ q' = AddStatus(queue, item)
              /\ running' = running
        /\ shifted' = shifted
     \/ /\ IsNew(queue) /\ shown >= 0 /\ item = NoItem
        /\ q' = Idle
        /\ running' = Abandoned
        /\ shifted' = FALSE

RunEffects ==
  /\ effects
  /\ effects' = FALSE /\ sync' = FALSE
  /\ \/ /\ ~RestartDue
        /\ batch' = <<>>
        /\ Perform(Batched)
        /\ UNCHANGED <<restart, pendingKill, startedSince>>
     \/ /\ RestartDue
        /\ pendingKill' = Without(pendingKill, restart.nodes)
        /\ IF StillAlive # {}
           THEN /\ restart' = [restart EXCEPT !.killTried = TRUE, !.after = {}]
                /\ startedSince' = startedSince
                /\ batch' = <<>>
                /\ Perform(Update(Batched, Items("KILL", SetToSeq(StillAlive))))
           ELSE /\ restart' = NoRestart
                /\ startedSince' = NowStarted(restart.nodes)
                /\ batch' = ToStart(Batched, restart.nodes, TRUE)
                /\ Perform(Batched)
  /\ dirty' = (dirty \/ q' # q \/ batch' # batch \/ restart' # restart)
  /\ UNCHANGED <<alive, known, killTimers, shown, clicks>>

-------------------------------------------------------------------------------
(* What happens beside the user.                                           *)

\* The nodes that end with n.
EndsWith(n) == {n} \cup {m \in Nodes : n \in ContainersOf[m]}

\* The answer of the daemon, a refusal or a timeout: the handler reports.
Done(k) ==
  LET h == running[k]
      n == h.item.node
  IN /\ ~sync
     /\ running' = RemoveAt(running, k)
     /\ q' = AddStatus(q, h.item)
     /\ dirty' = (dirty \/ q' # q)
     /\ shifted' = (shifted \/ (h.old /\ q' # q))
     /\ \/ alive' = alive
        \/ /\ h.item.action = "START"
           /\ alive' = alive \cup {n}
        \/ /\ h.item.action # "START"
           /\ alive' = alive \ EndsWith(n)
     /\ UNCHANGED <<known, pendingKill, killTimers, restart, batch, shown, lastKey,
                    effects, sync, clicks, startedSince>>

\* What the timer takes for running: the node map of the rendering in which
\* the nodes were stopped.
SeenRunning(t) == t.view

\* Of the nodes the timer is about, those that still wait for a SIGKILL get one,
\* as often as they are listed.
ToKill(t) ==
  Only(pendingKill, {n \in t.nodes \cap SeenRunning(t) : ~IsQueued(q, "KILL", n)})

TimerFires(t) ==
  /\ ~sync
  /\ killTimers' = killTimers \ {t}
  /\ pendingKill' = Without(pendingKill, t.nodes)
  /\ q' = Update(q, Items("KILL", ToKill(t)))
  /\ dirty' = (dirty \/ q' # q)
  /\ UNCHANGED <<running, alive, known, restart, batch, shown, lastKey,
                 effects, sync, clicks, shifted, startedSince>>

\* The effect of pendingRestart found the queue idle and the time not over; its
\* own timer touches the state.
AlarmRings ==
  /\ ~sync /\ ~dirty /\ ~effects
  /\ restart # NoRestart /\ shown < 0 /\ TimeIsOver
  /\ dirty' = TRUE
  /\ UNCHANGED <<q, running, alive, known, pendingKill, killTimers, restart, batch,
                 shown, lastKey, effects, sync, clicks, shifted, startedSince>>

\* The provider reports its nodes and the component renders the new map.
Refresh ==
  /\ ~sync
  /\ known # alive
  /\ known' = alive
  /\ dirty' = TRUE
  /\ UNCHANGED <<q, running, alive, pendingKill, killTimers, restart, batch, shown,
                 lastKey, effects, sync, clicks, shifted, startedSince>>

HandlerDone == \E k \in DOMAIN running : Done(k)
KillTimer == \E t \in killTimers : TimerFires(t)

Next ==
  \/ \E S \in Selections :
       \/ StartClicked(S) \/ StopClicked(S) \/ RestartClicked(S)
       \/ \E event \in BOOLEAN : KillClicked(S, event)
  \/ Abort
  \/ Render \/ RunEffects
  \/ HandlerDone \/ KillTimer \/ AlarmRings \/ Refresh

\* React renders and runs effects, timers fire, and a call to the daemon ends
\* by its timeout at the latest (WebsocketConnection.call).
Fairness ==
  /\ WF_vars(Render) /\ WF_vars(RunEffects)
  /\ WF_vars(HandlerDone) /\ WF_vars(KillTimer) /\ WF_vars(AlarmRings)

Spec == Init /\ [][Next]_vars /\ Fairness

-------------------------------------------------------------------------------
(* Properties.                                                             *)

TypeOK ==
  /\ Range(q.items) \cup Range(q.results) \subseteq QueueItem
  /\ q.index \in Nat \cup {-1}
  /\ q.statusFor \in -1 .. q.index
  /\ \A k \in DOMAIN running :
       running[k] \in [item : QueueItem, index : Nat, old : BOOLEAN]
  /\ {alive, known} \subseteq SUBSET Nodes
  /\ Range(pendingKill) \cup Range(batch) \subseteq Nodes
  /\ restart = NoRestart \/ restart \in
       [nodes : (SUBSET Nodes) \ {{}}, after : SUBSET Nat, killTried : BOOLEAN]
  /\ shown \in Int
  /\ {dirty, effects, sync, shifted} \subseteq BOOLEAN

\* The queue works off its items one after the other (useQueue, performQueueMain):
\* as long as no status of an abandoned item came in, the statuses are those of
\* the first items in their order, and no handler works on any other than the
\* current item.
OneAfterTheOther ==
  (q.index >= 0 /\ ~shifted) =>
    /\ q.results = SubSeq(q.items, 1, q.index)
    /\ \A j, k \in DOMAIN running :
         (~running[j].old /\ ~running[k].old) => j = k
    /\ \A k \in DOMAIN running :
         ~running[k].old => /\ running[k].index = q.index
                            /\ running[k].item = GetAt(q, q.index)

\* A start withdraws the SIGKILL of an earlier stop (removePendingNodes): a
\* timer kills no node that the user or a restart started since the stop that
\* armed it, unless a later stop has armed another timer for the node.  (Then
\* the earlier timer does kill it, before its time.)
StartWithdrawsKill ==
  [][\A t \in killTimers \ killTimers' : TimerFires(t) =>
       \A n \in Range(ToKill(t)) :
         \/ [timer |-> t.id, node |-> n] \notin startedSince
         \/ \E later \in killTimers : later.id > t.id /\ n \in later.nodes]_vars

\* All work comes to its end once the user leaves it alone: the queue is worked
\* off and a restart is carried out.  A late status of an abandoned item may
\* prevent that.
WorkEnds ==
  (q.index >= 0 \/ restart # NoRestart) ~>
    ((q.index < 0 /\ restart = NoRestart) \/ shifted)

\* "Re-read the node from the current node map and check whether it is still
\* alive" (HostTreeViewPanel.tsx:200, isStillRunning): what a SIGKILL timer puts
\* into the queue runs according to the current node map.  It does not hold
\* (MCNodeQueueStale.cfg): the timer keeps the node map of the stop.
TimerKillsOnlyRunning ==
  [][\A t \in killTimers \ killTimers' :
       TimerFires(t) => Range(ToKill(t)) \subseteq known]_vars

===============================================================================
