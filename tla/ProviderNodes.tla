------------------------------ MODULE ProviderNodes ---------------------------
(***************************************************************************)
(* The list of nodes that a provider of the GUI shows (Provider.ts): it is *)
(* put together from three things that arrive one by one, the nodes that   *)
(* run, the loaded launch files and the screens of the host, each time one *)
(* of them changes, and announced by an event if something changed.        *)
(*                                                                         *)
(* Nodes have distinct names here.  Left out: what a node carries besides  *)
(* (topics, parameters, groups, diagnostics) and the nodes of other hosts, *)
(* which are filtered before.                                              *)
(***************************************************************************)
EXTENDS Integers, FiniteSets, Functions

CONSTANTS
  Nodes,     \* names
  Files,     \* launch files
  Pids       \* process ids of running nodes

ASSUME PidsAreNumbers == Pids \subseteq Nat \ {0}
ASSUME NodesAreFinite == IsFiniteSet(Nodes)

VARIABLES
  running,   \* rosRunningNodes: a function on their names
  launch,    \* launchFiles: a function from loaded files to their nodes
  screens,   \* screens: a function on names; TRUE if the list is not empty
  rosNodes,  \* the merged list: a function on names
  told,      \* the nodes of the last EVENT_PROVIDER_ROS_NODES
  unsaid     \* history: the last launch file or the last screen ended, and no
             \* event was sent since

vars == <<running, launch, screens, rosNodes, told, unsaid>>

\* Functions on any of the elements of S.
Partial(S, T) == UNION {[D -> T] : D \in SUBSET S}

\* What is known of a node that the daemon reports: it says "running", and
\* updateRosNodes takes a ROS 1 node without process for dead.  A ROS 2 node
\* may be without process id.  The other states come from the merge.
Reported ==
  [status : {"running"}, pid : Pids \cup {0}] \cup [status : {"dead"}, pid : {0}]
Status == {"running", "inactive", "dead", "only_screen"}
RosNode == [status : Status, pid : Pids \cup {0}, launch : SUBSET Files,
            screens : BOOLEAN]

Init ==
  /\ running = <<>> /\ launch = <<>> /\ screens = <<>>
  /\ rosNodes = <<>>
  /\ told = <<>>
  /\ unsaid = FALSE

-------------------------------------------------------------------------------
(* mergeNodeStates, of what arrived last.                                  *)

HasScreens(scr, n) == n \in DOMAIN scr /\ scr[n]
FilesOf(lau, n) == {f \in DOMAIN lau : n \in lau[f]}
Launched(lau) == UNION Range(lau)

\* The running nodes, reset.
Reset(run) ==
  [n \in DOMAIN run |->
     [status |-> run[n].status, pid |-> run[n].pid, launch |-> {},
      screens |-> FALSE]]

\* applyLaunchInfo: notes the files of the running nodes and adds the others.
applyLaunchInfo(nodes, lau, scr) ==
  [n \in DOMAIN nodes \cup Launched(lau) |->
     IF n \in DOMAIN nodes THEN [nodes[n] EXCEPT !.launch = FilesOf(lau, n)]
     ELSE [status |-> "inactive", pid |-> 0, launch |-> FilesOf(lau, n),
           screens |-> HasScreens(scr, n)]]

\* What applyLaunchInfo returns: something may have changed.
Applied(lau) == DOMAIN lau # {}

\* applyScreens: a node without entry in the list of screens keeps its status, one
\* that is in no other list is added.
StatusOf(node, has) ==
  IF has /\ node.status = "inactive" THEN "only_screen"
  ELSE IF ~has /\ node.status = "only_screen" THEN "inactive"
  ELSE node.status
WithScreens(nodes, scr) ==
  [n \in DOMAIN nodes \cup DOMAIN scr |->
     IF n \notin DOMAIN scr THEN nodes[n]
     ELSE IF n \in DOMAIN nodes
     THEN [nodes[n] EXCEPT !.screens = scr[n], !.status = StatusOf(nodes[n], scr[n])]
     ELSE [status |-> "only_screen", pid |-> 0, launch |-> {},
           screens |-> scr[n]]]

\* Faulty variant: a node that ended stays because it ran once.
StaysForEver(node) == TRUE

\* A node stays that runs, has screens or is in a launch file.
Stays(node) == node.status = "running" \/ node.screens \/ node.launch # {}

applyScreens(nodes, scr) ==
  Restrict(WithScreens(nodes, scr),
           {n \in DOMAIN nodes \cup DOMAIN scr : Stays(WithScreens(nodes, scr)[n])})

\* What applyScreens returns: a node was added, changed or removed.
ScreensChanged(nodes, scr) ==
  ~(DOMAIN scr \subseteq DOMAIN nodes) \/ applyScreens(nodes, scr) # nodes

\* What listeners see of a node.
Shown(node) == [status |-> node.status, pid |-> node.pid]
ShownList(nodes) == [n \in DOMAIN nodes |-> Shown(nodes[n])]

\* Neither a launch file nor a screen is left.
Bare(lau, scr) == DOMAIN lau = {} /\ \A n \in DOMAIN scr : ~scr[n]
Ended(lau, scr) == Bare(lau, scr) /\ ~Bare(launch, screens)

mergeNodeStates(run, lau, scr, changedRunningNodes) ==
  LET nodes == applyLaunchInfo(Reset(run), lau, scr)
      merged == applyScreens(nodes, scr)
      changed == Applied(lau) \/ changedRunningNodes \/ ScreensChanged(nodes, scr)
  IN /\ rosNodes' = merged
     /\ IF changed
        THEN /\ told' = ShownList(merged)
             /\ unsaid' = FALSE
        ELSE /\ told' = told
             /\ unsaid' = (unsaid \/ Ended(lau, scr))

-------------------------------------------------------------------------------
(* What arrives.                                                           *)

\* updateRosNodes; a request that failed gives an empty list.
RunningChanged(run) ==
  \/ \E n \in DOMAIN run :
       n \notin DOMAIN rosNodes \/ rosNodes[n].pid # run[n].pid
  \/ Cardinality(DOMAIN run) # Cardinality(DOMAIN running)
updateRosNodes(run) ==
  /\ running' = run
  /\ mergeNodeStates(run, launch, screens, RunningChanged(run))
  /\ UNCHANGED <<launch, screens>>

\* updateLaunchContent; a request that failed empties the list, and nothing is
\* merged.
updateLaunchContent(lau) ==
  /\ launch' = lau
  /\ mergeNodeStates(running, lau, screens, FALSE)
  /\ UNCHANGED <<running, screens>>
LaunchContentFails ==
  /\ DOMAIN launch # {}
  /\ launch' = <<>>
  /\ unsaid' = TRUE
  /\ UNCHANGED <<running, screens, rosNodes, told>>

\* updateScreens, if the request succeeds, and callbackScreensUpdate.
updateScreens(scr) ==
  /\ screens' = scr
  /\ mergeNodeStates(running, launch, scr, FALSE)
  /\ UNCHANGED <<running, launch>>

Next ==
  \/ \E run \in Partial(Nodes, Reported) : updateRosNodes(run)
  \/ \E lau \in Partial(Files, SUBSET Nodes) : updateLaunchContent(lau)
  \/ LaunchContentFails
  \/ \E scr \in Partial(Nodes, BOOLEAN) : updateScreens(scr)

Spec == Init /\ [][Next]_vars

-------------------------------------------------------------------------------
(* Properties.                                                             *)

TypeOK ==
  /\ running \in Partial(Nodes, Reported)
  /\ launch \in Partial(Files, SUBSET Nodes)
  /\ screens \in Partial(Nodes, BOOLEAN)
  /\ rosNodes \in Partial(Nodes, RosNode)
  /\ told \in Partial(Nodes, [status : Status, pid : Pids \cup {0}])
  /\ unsaid \in BOOLEAN

\* The reference: which nodes are to be shown, and how, whatever the order in
\* which the lists arrived.
ToBeShown ==
  {n \in DOMAIN running : running[n].status = "running"} \cup Launched(launch)
    \cup {n \in DOMAIN screens : screens[n]}
Reference ==
  [n \in ToBeShown |->
     IF n \in DOMAIN running THEN running[n]
     ELSE [status |-> IF HasScreens(screens, n) THEN "only_screen" ELSE "inactive",
           pid |-> 0]]

\* What was announced last (mergeNodeStates) is what is to be shown, although a
\* merge announces nothing unless it notices a change, and looks for changes in
\* the merged list (process ids), in the raw lists (their lengths) and on its
\* way (screens).  Left out is the end of the last launch file or of the last
\* screen, which a merge does not notice by itself, up to the next event.
ToldIsReference == unsaid \/ told = Reference

===============================================================================
