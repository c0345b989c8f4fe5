--------------------------- MODULE ProviderNodesProofs -------------------------
(***************************************************************************)
(* Proofs about ProviderNodes, for every number of nodes, launch files and *)
(* process ids: what the merge of the three lists gives does not depend on *)
(* the order in which they arrive, and a merge that announces nothing has  *)
(* nothing to announce.                                                    *)
(***************************************************************************)
EXTENDS ProviderNodes, FiniteSetTheorems, TLAPS

Running == Partial(Nodes, Reported)
Launch == Partial(Files, SUBSET Nodes)
Screens == Partial(Nodes, BOOLEAN)

(* The merged list, and its reference, of any three lists. *)
Base(run, lau, scr) == applyLaunchInfo(Reset(run), lau, scr)
Merged(run, lau, scr) == applyScreens(Base(run, lau, scr), scr)
Wanted(run, lau, scr) ==
  {n \in DOMAIN run : run[n].status = "running"} \cup Launched(lau)
    \cup {n \in DOMAIN scr : scr[n]}
ReferenceOf(run, lau, scr) ==
  [n \in Wanted(run, lau, scr) |->
     IF n \in DOMAIN run THEN run[n]
     ELSE [status |-> IF HasScreens(scr, n) THEN "only_screen" ELSE "inactive",
           pid |-> 0]]

-------------------------------------------------------------------------------
(* Partial functions. *)

LEMMA PartialIs ==
  ASSUME NEW S, NEW T, NEW f \in Partial(S, T)
  PROVE  /\ DOMAIN f \subseteq S
         /\ f \in [DOMAIN f -> T]
         /\ \A x \in DOMAIN f : f[x] \in T
BY DEF Partial

LEMMA IsPartial ==
  ASSUME NEW S, NEW T, NEW D \in SUBSET S, NEW f \in [D -> T]
  PROVE  f \in Partial(S, T)
BY DEF Partial

LEMMA EmptyIsPartial ==
  ASSUME NEW S, NEW T
  PROVE  <<>> \in Partial(S, T) /\ DOMAIN <<>> = {}
<1>1. DOMAIN <<>> = {} /\ <<>> \in [{} -> T]
  OBVIOUS
<1> QED
  BY <1>1, IsPartial

-------------------------------------------------------------------------------
(* The merge. *)

(* The nodes of the launch files are in the list, the screens are not yet. *)
LEMMA BaseIs ==
  ASSUME NEW run \in Running, NEW lau \in Launch, NEW scr \in Screens
  PROVE  /\ DOMAIN Base(run, lau, scr) = DOMAIN run \cup Launched(lau)
         /\ \A n \in DOMAIN run : Base(run, lau, scr)[n] =
              [status |-> run[n].status, pid |-> run[n].pid,
               launch |-> FilesOf(lau, n), screens |-> FALSE]
         /\ \A n \in Launched(lau) \ DOMAIN run : Base(run, lau, scr)[n] =
              [status |-> "inactive", pid |-> 0,
               launch |-> FilesOf(lau, n), screens |-> HasScreens(scr, n)]
BY DEF Base, applyLaunchInfo, Reset

LEMMA LaunchedHaveFiles ==
  ASSUME NEW lau \in Launch, NEW n
  PROVE  n \in Launched(lau) <=> FilesOf(lau, n) # {}
BY PartialIs DEF Launch, Launched, FilesOf, Range

LEMMA TwoUpdates ==
  ASSUME NEW s, NEW p, NEW l, NEW x, NEW y, NEW h, NEW r,
         r = [status |-> s, pid |-> p, launch |-> l, screens |-> x]
  PROVE  [r EXCEPT !.screens = h, !.status = y] =
           [status |-> y, pid |-> p, launch |-> l, screens |-> h]
<1>1. PICK q : q = [r EXCEPT !.screens = h]
  OBVIOUS
<1>2. q = [status |-> s, pid |-> p, launch |-> l, screens |-> h]
  BY <1>1
<1>3. [q EXCEPT !.status = y] =
        [status |-> y, pid |-> p, launch |-> l, screens |-> h]
  BY <1>2
<1>4. [r EXCEPT !.screens = h, !.status = y] = [q EXCEPT !.status = y]
  BY <1>1
<1> QED
  BY <1>3, <1>4

LEMMA ResetParts ==
  ASSUME NEW s, NEW p, NEW r,
         r = [status |-> s, pid |-> p, launch |-> {}, screens |-> FALSE]
  PROVE  r.status = s /\ r.launch = {} /\ ~r.screens
<1>1. ~r.screens
  OBVIOUS
<1>2. r.status = s /\ r.launch = {}
  OBVIOUS
<1> QED
  BY <1>1, <1>2

(* What a node is after the screens were applied. *)
LEMMA WithScreensIs ==
  ASSUME NEW run \in Running, NEW lau \in Launch, NEW scr \in Screens,
         NEW n \in DOMAIN run \cup Launched(lau) \cup DOMAIN scr
  PROVE  LET node == WithScreens(Base(run, lau, scr), scr)[n]
         IN /\ node \in RosNode
            /\ Stays(node) <=> n \in Wanted(run, lau, scr)
            /\ Stays(node) => Shown(node) = ReferenceOf(run, lau, scr)[n]
<1> DEFINE base == Base(run, lau, scr)
           node == WithScreens(base, scr)[n]
           files == FilesOf(lau, n)
           reference == ReferenceOf(run, lau, scr)
<1> SUFFICES /\ node \in RosNode
             /\ Stays(node) <=> n \in Wanted(run, lau, scr)
             /\ Stays(node) => Shown(node) = reference[n]
  OBVIOUS
<1>h. PICK has \in BOOLEAN : /\ has = HasScreens(scr, n)
                             /\ n \in DOMAIN scr => has = scr[n]
                             /\ n \notin DOMAIN scr => has = FALSE
  <2>1. n \in DOMAIN scr => scr[n] \in BOOLEAN
    BY PartialIs DEF Screens
  <2> QED
    BY <2>1 DEF HasScreens
<1>f. /\ files \subseteq Files
      /\ n \in Launched(lau) <=> files # {}
  <2>1. DOMAIN lau \subseteq Files
    BY PartialIs DEF Launch
  <2>2. files \subseteq Files
    BY <2>1 DEF FilesOf
  <2> QED
    BY <2>2, LaunchedHaveFiles
<1>d. DOMAIN base = DOMAIN run \cup Launched(lau)
  BY BaseIs
<1>v. n \in Wanted(run, lau, scr) <=>
        \/ n \in DOMAIN run /\ run[n].status = "running"
        \/ files # {}
        \/ has
  BY <1>f, <1>h DEF Wanted
<1>r. n \in Wanted(run, lau, scr) => reference[n] =
        IF n \in DOMAIN run THEN run[n]
        ELSE [status |-> IF has THEN "only_screen" ELSE "inactive", pid |-> 0]
  BY <1>h DEF ReferenceOf
<1>w. node = IF n \notin DOMAIN scr THEN base[n]
             ELSE IF n \in DOMAIN base
             THEN [base[n] EXCEPT !.screens = scr[n],
                                  !.status = StatusOf(base[n], scr[n])]
             ELSE [status |-> "only_screen", pid |-> 0, launch |-> {},
                   screens |-> scr[n]]
  BY <1>d DEF WithScreens
(* It is enough to know the parts of the node. *)
<1>p. ASSUME NEW st \in Status, NEW p \in Pids \cup {0},
             node = [status |-> st, pid |-> p, launch |-> files, screens |-> has]
      PROVE  /\ node \in RosNode
             /\ Stays(node) <=> (st = "running" \/ files # {} \/ has)
             /\ Shown(node) = [status |-> st, pid |-> p]
  <2> HIDE DEF node, files
  <2>1. node \in RosNode
    BY <1>p, <1>f, <1>h DEF RosNode
  <2>2. /\ node.status = st /\ node.pid = p
        /\ node.launch = files /\ node.screens = has
    BY <1>p
  <2> QED
    BY <2>1, <2>2 DEF Stays, Shown
<1>1. CASE n \in DOMAIN run
  <2>1. run[n] \in Reported
    BY <1>1, PartialIs DEF Running
  <2>2. base[n] = [status |-> run[n].status, pid |-> run[n].pid,
                   launch |-> files, screens |-> FALSE]
    BY <1>1, BaseIs
  <2>3. /\ run[n].status \in {"running", "dead"} /\ run[n].pid \in Pids \cup {0}
        /\ run[n] = [status |-> run[n].status, pid |-> run[n].pid]
    BY <2>1 DEF Reported
  <2>4. n \in DOMAIN scr => StatusOf(base[n], scr[n]) = run[n].status
    BY <2>2, <2>3 DEF StatusOf
  <2>5. node = [status |-> run[n].status, pid |-> run[n].pid,
                launch |-> files, screens |-> has]
    <3> HIDE DEF node, files, base
    <3>1. CASE n \notin DOMAIN scr
      BY <3>1, <1>w, <1>h, <2>2
    <3>2. CASE n \in DOMAIN scr
      <4>1. PICK b, s, p : b = base[n] /\ s = run[n].status /\ p = run[n].pid
        OBVIOUS
      <4>2. b = [status |-> s, pid |-> p, launch |-> files, screens |-> FALSE]
        BY <4>1, <2>2
      <4>3. node = [b EXCEPT !.screens = has, !.status = s]
        BY <3>2, <4>1, <1>w, <1>h, <1>d, <1>1, <2>4
      <4>4. node = [status |-> s, pid |-> p, launch |-> files, screens |-> has]
        BY <4>2, <4>3, TwoUpdates
      <4> QED
        BY <4>1, <4>4
    <3> QED
      BY <3>1, <3>2
  <2>6. run[n].status \in Status
    BY <2>3 DEF Status
  <2>7. /\ node \in RosNode
        /\ Stays(node) <=> (run[n].status = "running" \/ files # {} \/ has)
        /\ Shown(node) = run[n]
    <3> HIDE DEF node, files
    <3> QED
      BY <2>3, <2>5, <2>6, <1>p
  <2> HIDE DEF node, files, reference
  <2> QED
    BY <2>7, <1>v, <1>r, <1>1
<1>2. CASE n \notin DOMAIN run /\ n \in Launched(lau)
  <2> DEFINE st == IF has THEN "only_screen" ELSE "inactive"
  <2>1. base[n] = [status |-> "inactive", pid |-> 0, launch |-> files,
                   screens |-> HasScreens(scr, n)]
    BY <1>2, BaseIs
  <2>2. base[n] = [status |-> "inactive", pid |-> 0, launch |-> files,
                   screens |-> has]
    <3> HIDE DEF base, files
    <3> QED
      BY <2>1, <1>h
  <2>3. n \in DOMAIN scr => StatusOf(base[n], scr[n]) = st
    BY <2>2, <1>h DEF StatusOf
  <2>4. node = [status |-> st, pid |-> 0, launch |-> files, screens |-> has]
    <3> HIDE DEF node, files, base
    <3>1. CASE n \notin DOMAIN scr
      BY <3>1, <1>w, <1>h, <2>2
    <3>2. CASE n \in DOMAIN scr
      <4>1. PICK b : b = base[n]
        OBVIOUS
      <4>2. b = [status |-> "inactive", pid |-> 0, launch |-> files, screens |-> has]
        BY <4>1, <2>2
      <4>3. node = [b EXCEPT !.screens = has, !.status = st]
        BY <3>2, <4>1, <1>w, <1>h, <1>d, <1>2, <2>3
      <4>4. PICK s : s = st
        OBVIOUS
      <4>5. node = [status |-> s, pid |-> 0, launch |-> files, screens |-> has]
        BY <4>2, <4>3, <4>4, TwoUpdates
      <4> QED
        BY <4>4, <4>5
    <3> QED
      BY <3>1, <3>2
  <2>5. st \in Status /\ st # "running"
    BY <1>h DEF Status
  <2>6. /\ node \in RosNode
        /\ Stays(node) <=> (files # {} \/ has)
        /\ Shown(node) = [status |-> st, pid |-> 0]
    <3> HIDE DEF node, files, st
    <3> QED
      BY <2>4, <2>5, <1>p
  <2> HIDE DEF node, files, reference
  <2> QED
    BY <2>6, <1>v, <1>r, <1>2, <1>f
<1>3. CASE n \notin DOMAIN run \cup Launched(lau)
  <2>1. n \in DOMAIN scr /\ n \notin DOMAIN base /\ files = {}
    BY <1>3, <1>d, <1>f
  <2>2. node = [status |-> "only_screen", pid |-> 0, launch |-> files,
                screens |-> has]
    <3> HIDE DEF node, files, base
    <3> QED
      BY <2>1, <1>w, <1>h
  <2>3. /\ node \in RosNode
        /\ Stays(node) <=> has
        /\ Shown(node) = [status |-> "only_screen", pid |-> 0]
    <3> HIDE DEF node, files
    <3>1. "only_screen" \in Status /\ "only_screen" # "running"
      BY DEF Status
    <3> QED
      BY <3>1, <2>1, <2>2, <1>p
  <2> HIDE DEF node, files, reference
  <2> QED
    BY <2>1, <2>3, <1>v, <1>r, <1>3
<1> QED
  BY <1>1, <1>2, <1>3

(* The merged list is the reference, whatever the order of the arrivals. *)
LEMMA MergedIsReference ==
  ASSUME NEW run \in Running, NEW lau \in Launch, NEW scr \in Screens
  PROVE  /\ Merged(run, lau, scr) \in Partial(Nodes, RosNode)
         /\ ShownList(Merged(run, lau, scr)) = ReferenceOf(run, lau, scr)
<1> DEFINE all == DOMAIN run \cup Launched(lau) \cup DOMAIN scr
           list == WithScreens(Base(run, lau, scr), scr)
           merged == Merged(run, lau, scr)
<1>1. DOMAIN Base(run, lau, scr) \cup DOMAIN scr = all
  BY BaseIs
<1>2. Merged(run, lau, scr) = [n \in {m \in all : Stays(list[m])} |-> list[n]]
  BY <1>1 DEF Merged, applyScreens, Restrict
<1>3. all \subseteq Nodes /\ Wanted(run, lau, scr) \subseteq all
  BY PartialIs DEF Running, Launch, Screens, Launched, Range, Wanted
<1>4. {m \in all : Stays(list[m])} = Wanted(run, lau, scr)
  BY <1>3, WithScreensIs
<1>5. \A n \in Wanted(run, lau, scr) :
        /\ list[n] \in RosNode
        /\ Shown(list[n]) = ReferenceOf(run, lau, scr)[n]
  BY <1>3, <1>4, WithScreensIs
<1>6. /\ merged = [n \in Wanted(run, lau, scr) |-> list[n]]
      /\ DOMAIN merged = Wanted(run, lau, scr)
      /\ \A n \in Wanted(run, lau, scr) : merged[n] = list[n]
  BY <1>2, <1>4
<1>7. merged \in [Wanted(run, lau, scr) -> RosNode]
  BY <1>5, <1>6
<1>8. ShownList(merged) = [n \in Wanted(run, lau, scr) |-> ReferenceOf(run, lau, scr)[n]]
  BY <1>5, <1>6 DEF ShownList
<1>9. ReferenceOf(run, lau, scr) =
        [n \in Wanted(run, lau, scr) |-> ReferenceOf(run, lau, scr)[n]]
  BY DEF ReferenceOf
<1> QED
  BY <1>3, <1>7, <1>8, <1>9, IsPartial

(* A merge that announces nothing had only running nodes to merge. *)
LEMMA SilentMerge ==
  ASSUME NEW run \in Running, NEW lau \in Launch, NEW scr \in Screens,
         ~Applied(lau), ~ScreensChanged(Base(run, lau, scr), scr)
  PROVE  /\ Bare(lau, scr)
         /\ \A n \in DOMAIN run : run[n].status = "running"
         /\ ReferenceOf(run, lau, scr) = run
<1> DEFINE base == Base(run, lau, scr)
           list == WithScreens(base, scr)
<1>1. DOMAIN lau = {} /\ Launched(lau) = {}
  BY DEF Applied, Launched, Range
<1>2. /\ DOMAIN base = DOMAIN run
      /\ DOMAIN scr \subseteq DOMAIN run
      /\ applyScreens(base, scr) = base
  BY <1>1, BaseIs DEF ScreensChanged
<1>3. ASSUME NEW n \in DOMAIN run
      PROVE  base[n] = [status |-> run[n].status, pid |-> run[n].pid,
                        launch |-> {}, screens |-> FALSE]
  <2>1. FilesOf(lau, n) = {}
    BY <1>1 DEF FilesOf
  <2> QED
    BY <2>1, BaseIs
<1>4. applyScreens(base, scr) =
        [n \in {m \in DOMAIN run : Stays(list[m])} |-> list[n]]
  <2>1. DOMAIN base \cup DOMAIN scr = DOMAIN run
    BY <1>2
  <2> QED
    BY <2>1 DEF applyScreens, Restrict
<1>5. ASSUME NEW n \in DOMAIN run
      PROVE  Stays(list[n]) /\ list[n] = base[n]
  <2>1. n \in {m \in DOMAIN run : Stays(list[m])}
    <3> HIDE DEF base, list
    <3> QED
      BY <1>2, <1>4
  <2>2. applyScreens(base, scr)[n] = list[n]
    <3> HIDE DEF base, list
    <3> QED
      BY <2>1, <1>4
  <2> QED
    BY <2>1, <2>2, <1>2
<1>6. ASSUME NEW n \in DOMAIN run
      PROVE  run[n].status = "running" /\ ~base[n].screens
  <2> HIDE DEF base, list
  <2>1. PICK s, p, b : s = run[n].status /\ p = run[n].pid /\ b = base[n]
    OBVIOUS
  <2>2. b = [status |-> s, pid |-> p, launch |-> {}, screens |-> FALSE]
    BY <1>3, <2>1
  <2>3. b.status = s /\ b.launch = {} /\ ~b.screens
    BY <2>2, ResetParts
  <2>4. Stays(b)
    BY <1>5, <2>1
  <2> QED
    BY <2>1, <2>3, <2>4 DEF Stays
<1>7. ASSUME NEW n \in DOMAIN scr PROVE ~scr[n]
  <2>1. n \in DOMAIN run /\ n \in DOMAIN base
    BY <1>2
  <2>2. list[n] = [base[n] EXCEPT !.screens = scr[n],
                                  !.status = StatusOf(base[n], scr[n])]
    BY <2>1 DEF WithScreens
  <2>3. list[n].screens = scr[n]
    <3> HIDE DEF base, list
    <3> QED
      BY <1>3, <2>1, <2>2, TwoUpdates
  <2>4. ~list[n].screens
    <3> HIDE DEF base, list
    <3>1. list[n] = base[n]
      BY <1>5, <2>1
    <3>2. ~base[n].screens
      BY <1>6, <2>1
    <3> QED
      BY <3>1, <3>2
  <2> QED
    BY <2>3, <2>4
<1>8. Bare(lau, scr)
  BY <1>1, <1>7 DEF Bare
<1>9. Wanted(run, lau, scr) = DOMAIN run
  BY <1>1, <1>2, <1>6, <1>7 DEF Wanted
<1>10. ReferenceOf(run, lau, scr) = [n \in DOMAIN run |-> run[n]]
  BY <1>9 DEF ReferenceOf
<1>11. run = [n \in DOMAIN run |-> run[n]]
  BY PartialIs DEF Running
<1> QED
  BY <1>6, <1>8, <1>10, <1>11

-------------------------------------------------------------------------------
(* The inductive invariant: what was announced is the reference, and it is *)
(* what the merged list shows, unless something was left unsaid.           *)

AnnouncedIsMerged == unsaid \/ told = ShownList(rosNodes)

IInv == TypeOK /\ ToldIsReference /\ AnnouncedIsMerged

LEMMA ReferenceIs == Reference = ReferenceOf(running, launch, screens)
BY DEF Reference, ReferenceOf, ToBeShown, Wanted

LEMMA ReferenceIsPartial ==
  ASSUME NEW run \in Running, NEW lau \in Launch, NEW scr \in Screens
  PROVE  ReferenceOf(run, lau, scr) \in
           Partial(Nodes, [status : Status, pid : Pids \cup {0}])
<1> DEFINE merged == Merged(run, lau, scr)
<1>1. merged \in Partial(Nodes, RosNode)
  BY MergedIsReference
<1> HIDE DEF merged
<1>2. /\ DOMAIN merged \subseteq Nodes
      /\ \A n \in DOMAIN merged : merged[n] \in RosNode
  BY <1>1, PartialIs
<1>3. \A n \in DOMAIN merged :
        Shown(merged[n]) \in [status : Status, pid : Pids \cup {0}]
  BY <1>2 DEF RosNode, Shown
<1>4. ShownList(merged) \in [DOMAIN merged -> [status : Status, pid : Pids \cup {0}]]
  BY <1>3 DEF ShownList
<1>5. ShownList(merged) \in Partial(Nodes, [status : Status, pid : Pids \cup {0}])
  BY <1>2, <1>4, IsPartial
<1> QED
  BY <1>5, MergedIsReference DEF merged

LEMMA InitHolds == Init => IInv
<1> SUFFICES ASSUME Init PROVE IInv
  OBVIOUS
<1>1. TypeOK
  BY EmptyIsPartial DEF Init, TypeOK
<1>2. Launched(<<>>) = {} /\ DOMAIN <<>> = {}
  BY EmptyIsPartial DEF Launched, Range
<1>3. Reference = <<>>
  BY <1>2 DEF Init, Reference, ToBeShown
<1>4. ShownList(<<>>) = <<>>
  BY <1>2 DEF ShownList
<1> QED
  BY <1>1, <1>3, <1>4 DEF Init, IInv, ToldIsReference, AnnouncedIsMerged

-------------------------------------------------------------------------------
(* The steps. *)

(* Without launch files and screens the running nodes are all there is. *)
LEMMA BareReference ==
  ASSUME NEW run \in Running, NEW lau, NEW scr, Bare(lau, scr)
  PROVE  ReferenceOf(run, lau, scr) =
           [n \in {m \in DOMAIN run : run[m].status = "running"} |-> run[n]]
<1>1. Launched(lau) = {} /\ {n \in DOMAIN scr : scr[n]} = {}
  BY DEF Bare, Launched, Range
<1>2. Wanted(run, lau, scr) = {m \in DOMAIN run : run[m].status = "running"}
  BY <1>1 DEF Wanted
<1> QED
  BY <1>2 DEF ReferenceOf

LEMMA AllRunning ==
  ASSUME NEW run \in Running, NEW lau, NEW scr, Bare(lau, scr),
         \A n \in DOMAIN run : run[n].status = "running"
  PROVE  ReferenceOf(run, lau, scr) = run
<1>1. Launched(lau) = {} /\ {n \in DOMAIN scr : scr[n]} = {}
  BY DEF Bare, Launched, Range
<1>2. Wanted(run, lau, scr) = DOMAIN run
  BY <1>1 DEF Wanted
<1>4. ReferenceOf(run, lau, scr) = [n \in DOMAIN run |-> run[n]]
  BY <1>2 DEF ReferenceOf
<1>3. run = [n \in DOMAIN run |-> run[n]]
  BY PartialIs DEF Running
<1> QED
  BY <1>3, <1>4

(* A merge keeps the invariant if it is told of changes among running nodes. *)
LEMMA MergeHolds ==
  ASSUME IInv, NEW run \in Running, NEW lau \in Launch, NEW scr \in Screens,
         NEW changed \in BOOLEAN,
         mergeNodeStates(run, lau, scr, changed),
         running' = run, launch' = lau, screens' = scr,
         (/\ ~changed /\ ~unsaid
          /\ Bare(launch, screens)
          /\ \A n \in DOMAIN run : run[n].status = "running") => told = run
  PROVE  IInv'
<1> DEFINE merged == Merged(run, lau, scr)
           base == Base(run, lau, scr)
           any == Applied(lau) \/ changed \/ ScreensChanged(base, scr)
<1>1. /\ rosNodes' = merged
      /\ IF any THEN told' = ShownList(merged) /\ unsaid' = FALSE
         ELSE told' = told /\ unsaid' = (unsaid \/ Ended(lau, scr))
  BY DEF mergeNodeStates, Merged, Base
<1>2. /\ merged \in Partial(Nodes, RosNode)
      /\ ShownList(merged) = ReferenceOf(run, lau, scr)
  BY MergedIsReference
<1>3. Reference' = ReferenceOf(run, lau, scr)
  BY DEF Reference, ReferenceOf, ToBeShown, Wanted
<1>4. CASE any
  <2>1. told' = Reference' /\ told' = ShownList(rosNodes') /\ unsaid' = FALSE
    BY <1>1, <1>2, <1>3, <1>4
  <2>2. told' \in Partial(Nodes, [status : Status, pid : Pids \cup {0}])
    BY <2>1, <1>3, ReferenceIsPartial
  <2>3. TypeOK'
    BY <2>1, <2>2, <1>1, <1>2 DEF TypeOK, Running, Launch, Screens
  <2> QED
    BY <2>1, <2>3 DEF IInv, ToldIsReference, AnnouncedIsMerged
<1>5. CASE ~any
  <2>1. /\ Bare(lau, scr)
        /\ \A n \in DOMAIN run : run[n].status = "running"
        /\ ReferenceOf(run, lau, scr) = run
    BY <1>5, SilentMerge
  <2>2. told' = told /\ unsaid' = (unsaid \/ ~Bare(launch, screens))
    BY <1>1, <1>5, <2>1 DEF Ended
  <2>3. unsaid' \in BOOLEAN
    BY <2>2 DEF IInv, TypeOK, Bare
  <2>4. TypeOK'
    BY <2>2, <2>3, <1>1, <1>2 DEF IInv, TypeOK, Running, Launch, Screens
  <2>5. ~unsaid' => told' = run
    BY <2>1, <2>2, <1>5
  <2> QED
    BY <2>1, <2>4, <2>5, <1>1, <1>2, <1>3 DEF IInv, ToldIsReference, AnnouncedIsMerged
<1> QED
  BY <1>4, <1>5

LEMMA RosNodesHolds ==
  ASSUME IInv, NEW run \in Running, updateRosNodes(run)
  PROVE  IInv'
<1>1. /\ running \in Running /\ launch \in Launch /\ screens \in Screens
      /\ rosNodes \in Partial(Nodes, RosNode)
  BY DEF IInv, TypeOK, Running, Launch, Screens
<1>2. ASSUME ~RunningChanged(run), ~unsaid, Bare(launch, screens),
             \A n \in DOMAIN run : run[n].status = "running"
      PROVE  told = run
  <2> DEFINE up == {m \in DOMAIN running : running[m].status = "running"}
  <2>1. told = [n \in up |-> running[n]]
    BY <1>1, <1>2, ReferenceIs, BareReference DEF IInv, ToldIsReference
  <2>2. told = ShownList(rosNodes)
    BY <1>2 DEF IInv, AnnouncedIsMerged
  <2>3. DOMAIN rosNodes = up
    BY <2>1, <2>2 DEF ShownList
  <2>4. /\ \A n \in DOMAIN run : n \in DOMAIN rosNodes /\ rosNodes[n].pid = run[n].pid
        /\ Cardinality(DOMAIN run) = Cardinality(DOMAIN running)
    BY <1>2 DEF RunningChanged
  <2>5. DOMAIN run = DOMAIN running
    <3>1. DOMAIN run \subseteq DOMAIN running /\ DOMAIN running \subseteq Nodes
      BY <2>3, <2>4, <1>1, PartialIs DEF Running
    <3>2. IsFiniteSet(DOMAIN running)
      BY <3>1, NodesAreFinite, FS_Subset
    <3> QED
      BY <3>1, <3>2, <2>4, FS_Subset
  <2>6. up = DOMAIN run
    BY <2>3, <2>4, <2>5
  <2>7. ASSUME NEW n \in DOMAIN run PROVE told[n] = run[n]
    <3>1. told[n] = Shown(rosNodes[n]) /\ told[n] = running[n]
      BY <2>1, <2>2, <2>3, <2>6 DEF ShownList
    <3>2. told[n].status = "running" /\ told[n].pid = run[n].pid
      BY <3>1, <2>4, <2>6 DEF Shown
    <3>3. running[n] \in Reported /\ run[n] \in Reported
      BY <1>1, <2>5, PartialIs DEF Running
    <3>4. /\ running[n] = [status |-> running[n].status, pid |-> running[n].pid]
          /\ run[n] = [status |-> run[n].status, pid |-> run[n].pid]
      BY <3>3 DEF Reported
    <3> QED
      BY <3>1, <3>2, <3>4, <1>2
  <2>8. told = [n \in DOMAIN run |-> run[n]]
    BY <2>1, <2>6, <2>7
  <2>9. run = [n \in DOMAIN run |-> run[n]]
    BY PartialIs DEF Running
  <2> QED
    BY <2>8, <2>9
<1>3. /\ mergeNodeStates(run, launch, screens, RunningChanged(run))
      /\ running' = run /\ launch' = launch /\ screens' = screens
  BY DEF updateRosNodes
<1>4. PICK changed \in BOOLEAN : changed = RunningChanged(run)
  BY DEF RunningChanged
<1>5. mergeNodeStates(run, launch, screens, changed)
  BY <1>3, <1>4 DEF mergeNodeStates
<1> QED
  BY <1>1, <1>2, <1>3, <1>4, <1>5, MergeHolds

LEMMA OthersHold ==
  ASSUME IInv, NEW lau \in Launch, NEW scr \in Screens,
         mergeNodeStates(running, lau, scr, FALSE),
         running' = running, launch' = lau, screens' = scr
  PROVE  IInv'
<1>1. running \in Running
  BY DEF IInv, TypeOK, Running
<1>2. ASSUME ~unsaid, Bare(launch, screens),
             \A n \in DOMAIN running : running[n].status = "running"
      PROVE  told = running
  BY <1>1, <1>2, ReferenceIs, AllRunning DEF IInv, ToldIsReference
<1> QED
  BY <1>1, <1>2, MergeHolds

LEMMA NextHolds == IInv /\ [Next]_vars => IInv'
<1> SUFFICES ASSUME IInv, [Next]_vars PROVE IInv'
  OBVIOUS
<1>t. running \in Running /\ launch \in Launch /\ screens \in Screens
  BY DEF IInv, TypeOK, Running, Launch, Screens
<1>1. ASSUME NEW run \in Partial(Nodes, Reported), updateRosNodes(run) PROVE IInv'
  BY <1>1, RosNodesHolds DEF Running
<1>2. ASSUME NEW lau \in Partial(Files, SUBSET Nodes), updateLaunchContent(lau)
      PROVE  IInv'
  BY <1>2, <1>t, OthersHold DEF updateLaunchContent, Launch
<1>3. ASSUME NEW scr \in Partial(Nodes, BOOLEAN), updateScreens(scr) PROVE IInv'
  BY <1>3, <1>t, OthersHold DEF updateScreens, Screens
<1>4. CASE LaunchContentFails
  <2>1. TypeOK'
    BY <1>4, EmptyIsPartial DEF LaunchContentFails, IInv, TypeOK
  <2> QED
    BY <2>1, <1>4 DEF LaunchContentFails, IInv, ToldIsReference, AnnouncedIsMerged
<1>5. CASE UNCHANGED vars
  BY <1>5 DEF vars, IInv, TypeOK, ToldIsReference, AnnouncedIsMerged, Reference,
     ToBeShown
<1> QED
  BY <1>1, <1>2, <1>3, <1>4, <1>5 DEF Next

(* The types of the three lists and of the merged one (Provider.ts). *)
THEOREM TypeCorrect == Spec => []TypeOK
<1>1. IInv => TypeOK
  BY DEF IInv
<1> QED
  BY <1>1, InitHolds, NextHolds, PTL DEF Spec

(* However many nodes, files and processes there are, and in whatever order  *)
(* the lists arrive, what mergeNodeStates announced last is what is to be     *)
(* shown, or the end of the last launch file or screen was left unsaid.       *)
THEOREM AnnouncedIsReference == Spec => []ToldIsReference
<1>1. IInv => ToldIsReference
  BY DEF IInv
<1> QED
  BY <1>1, InitHolds, NextHolds, PTL DEF Spec

===============================================================================
