------------------------------ MODULE GuiProofs -------------------------------
(***************************************************************************)
(* Proofs about the two parts of the GUI that react to its user:           *)
(* WsConnection, for every number of sockets and of calls of open(), and   *)
(* NodeQueue, for every finite set of nodes, any relations between them    *)
(* and any number of clicks.                                               *)
(*                                                                         *)
(* The lists of NodeQueue are made by FlattenSeq, which the library        *)
(* defines by a recursive function and states no theorem about.  What it   *)
(* yields is shown here by an induction over its length with a set of      *)
(* numbers in place of a predicate.                                        *)
(***************************************************************************)
EXTENDS WsConnection, NodeQueue, FiniteSetTheorems, SequenceTheorems,
        WellFoundedInduction, TLAPS

-----------------------------------------------------------------------------
(* The connection.                                                         *)

ConnInv == ConnTypeOK /\ AttemptsBounded /\ NeverGivesUp /\ CurrentMayReconnect

-----------------------------------------------------------------------------
(* How the number of living sockets changes.                               *)

LEMMA LiveFinite ==
    /\ IsFiniteSet(Live) /\ Cardinality(Live) \in Nat
    /\ IsFiniteSet(Live') /\ Cardinality(Live') \in Nat
<1>1. Live \subseteq Sockets /\ Live' \subseteq Sockets
  BY DEF Live
<1> QED
  BY <1>1, SocketsAssumption, FS_Subset, FS_CardinalityType

(* Closing, timing out and opening a socket does not bring another to life. *)
LEMMA LiveShrinks ==
    ASSUME \A s \in Sockets : ready[s] = "closed" => ready'[s] = "closed"
    PROVE  Cardinality(Live') <= Cardinality(Live)
<1>1. Live' \subseteq Live
  BY DEF Live
<1> QED
  BY <1>1, LiveFinite, FS_Subset

(* open() makes at most one socket.                                        *)
LEMMA OpenAddsOne ==
    ASSUME ConnTypeOK, Open
    PROVE  Cardinality(Live') <= Cardinality(Live) + 1
<1>1. CASE Connected \/ Connecting
  <2>1. Live' = Live
    BY <1>1 DEF Open, Live
  <2> QED
    BY <2>1, LiveFinite
<1>2. CASE ~ (Connected \/ Connecting)
  <2>1. PICK s \in Sockets :
          ready[s] = "closed" /\ ready' = [ready EXCEPT ![s] = "connecting"]
    BY <1>2 DEF Open
  <2>2. Live' = Live \cup {s} /\ s \notin Live
    BY <2>1 DEF Live, ConnTypeOK
  <2>3. Cardinality(Live') = Cardinality(Live) + 1
    BY <2>2, LiveFinite, FS_AddElement
  <2> QED
    BY <2>3, LiveFinite
<1> QED
  BY <1>1, <1>2

(* The event "close" ends the life of one socket.                          *)
LEMMA CloseEndsOne ==
    ASSUME ConnTypeOK, NEW s \in Sockets, SocketCloses(s)
    PROVE  Cardinality(Live') = Cardinality(Live) - 1
<1>1. Live' = Live \ {s} /\ s \in Live
  BY DEF SocketCloses, Live, ConnTypeOK
<1> QED
  BY <1>1, LiveFinite, FS_RemoveElement

-----------------------------------------------------------------------------
LEMMA ConnInitInv == ConnInit => ConnInv
<1> SUFFICES ASSUME ConnInit
             PROVE  ConnInv
  OBVIOUS
<1>1. ConnTypeOK
  <2>1. shouldReconnect \in BOOLEAN /\ wanted \in BOOLEAN
    BY DEF ConnInit
  <2>2. timers \in 0..MaxOpens /\ opens \in 0..MaxOpens
    BY MaxOpensAssumption DEF ConnInit
  <2> QED
    BY <2>1, <2>2 DEF ConnInit, ConnTypeOK
<1>2. AttemptsBounded
  <2>1. Live = {}
    BY DEF ConnInit, Live
  <2> QED
    BY <2>1, FS_EmptySet DEF ConnInit, AttemptsBounded, Attempts
<1>3. NeverGivesUp /\ CurrentMayReconnect
  BY DEF ConnInit, NeverGivesUp, CurrentMayReconnect
<1> QED
  BY <1>1, <1>2, <1>3 DEF ConnInv

(* What open() leaves behind, whoever calls it: the object has a socket    *)
(* that lives and that may reconnect.                                      *)
LEMMA OpenLeavesSocket ==
    ASSUME ConnInv, Open
    PROVE  /\ ready' \in [Sockets -> {"connecting", "open", "closing", "closed"}]
           /\ websocket' \in Sockets
           /\ promise' \in Sockets \cup {NoSocket}
           /\ shouldReconnect' = TRUE
           /\ connectTimer' \subseteq Sockets
           /\ ready'[websocket'] \in {"connecting", "open"}
<1>1. CASE Connected \/ Connecting
  BY <1>1 DEF ConnInv, ConnTypeOK, Open, Connected, Connecting, CurrentMayReconnect
<1>2. CASE ~ (Connected \/ Connecting)
  BY <1>2 DEF ConnInv, ConnTypeOK, Open, FlagOfOpen
<1> QED
  BY <1>1, <1>2

LEMMA UserOpenInv ==
    ASSUME ConnInv, UserOpen
    PROVE  ConnInv'
<1>1. Open
  BY DEF UserOpen
<1>2. ConnTypeOK'
  <2>1. shouldReconnect' \in BOOLEAN /\ wanted' \in BOOLEAN
    BY <1>1, OpenLeavesSocket DEF UserOpen
  <2>2. timers' \in 0..MaxOpens /\ opens' \in 0..MaxOpens
    BY MaxOpensAssumption DEF ConnInv, ConnTypeOK, UserOpen
  <2> QED
    BY <1>1, <2>1, <2>2, OpenLeavesSocket DEF ConnTypeOK
<1>3. AttemptsBounded'
  <2>1. Cardinality(Live') <= Cardinality(Live) + 1
    BY <1>1, OpenAddsOne DEF ConnInv
  <2> QED
    BY <2>1, LiveFinite, MaxOpensAssumption DEF ConnInv, ConnTypeOK, UserOpen, AttemptsBounded, Attempts
<1>4. NeverGivesUp' /\ CurrentMayReconnect'
  BY <1>1, OpenLeavesSocket, SocketsAssumption DEF NeverGivesUp, CurrentMayReconnect
<1> QED
  BY <1>2, <1>3, <1>4 DEF ConnInv

(* A timer that fires is used up by the one socket that it makes.          *)
LEMMA ReconnectTimerInv ==
    ASSUME ConnInv, ReconnectTimer
    PROVE  ConnInv'
<1>1. CASE shouldReconnect
  <2>1. Open
    BY <1>1 DEF ReconnectTimer
  <2>2. ConnTypeOK'
    <3>1. shouldReconnect' \in BOOLEAN /\ wanted' \in BOOLEAN
      BY <2>1, OpenLeavesSocket DEF ConnInv, ConnTypeOK, ReconnectTimer
    <3>2. timers' \in 0..MaxOpens /\ opens' \in 0..MaxOpens
      BY MaxOpensAssumption DEF ConnInv, ConnTypeOK, ReconnectTimer
    <3> QED
      BY <2>1, <3>1, <3>2, OpenLeavesSocket DEF ConnTypeOK
  <2>3. AttemptsBounded'
    <3>1. Cardinality(Live') <= Cardinality(Live) + 1
      BY <2>1, OpenAddsOne DEF ConnInv
    <3> QED
      BY <3>1, LiveFinite, MaxOpensAssumption
      DEF ConnInv, ConnTypeOK, ReconnectTimer, AttemptsBounded, Attempts
  <2>4. NeverGivesUp' /\ CurrentMayReconnect'
    BY <2>1, OpenLeavesSocket, SocketsAssumption DEF NeverGivesUp, CurrentMayReconnect
  <2> QED
    BY <2>2, <2>3, <2>4 DEF ConnInv
<1>2. CASE ~ shouldReconnect
  <2>1. ConnTypeOK'
    BY <1>2, MaxOpensAssumption DEF ConnInv, ConnTypeOK, ReconnectTimer
  <2>2. AttemptsBounded'
    <3>1. Live' = Live
      BY <1>2 DEF ReconnectTimer, Live
    <3> QED
      BY <3>1, LiveFinite, MaxOpensAssumption
      DEF ConnInv, ConnTypeOK, ReconnectTimer, AttemptsBounded, Attempts
  <2>3. NeverGivesUp' /\ CurrentMayReconnect'
    BY <1>2 DEF ConnInv, ReconnectTimer, NeverGivesUp, CurrentMayReconnect
  <2> QED
    BY <2>1, <2>2, <2>3 DEF ConnInv
<1> QED
  BY <1>1, <1>2

(* The event "close" trades a socket for at most one timer.                *)
LEMMA SocketClosesInv ==
    ASSUME ConnInv, NEW s \in Sockets, SocketCloses(s)
    PROVE  ConnInv'
<1>1. AttemptsBounded'
  <2>1. Cardinality(Live') = Cardinality(Live) - 1
    BY CloseEndsOne DEF ConnInv
  <2>2. timers' <= timers + 1 /\ timers' \in Nat
    BY MaxOpensAssumption DEF ConnInv, ConnTypeOK, SocketCloses, Schedule
  <2> QED
    BY <2>1, <2>2, LiveFinite, MaxOpensAssumption
    DEF ConnInv, ConnTypeOK, SocketCloses, AttemptsBounded, Attempts
<1>2. ConnTypeOK'
  <2>1. timers' \in 0..MaxOpens
    <3>1. timers' \in Nat
      BY MaxOpensAssumption DEF ConnInv, ConnTypeOK, SocketCloses, Schedule
    <3>2. timers' <= opens' /\ opens' \in 0..MaxOpens
      BY <1>1, <3>1, LiveFinite, MaxOpensAssumption
      DEF ConnInv, ConnTypeOK, SocketCloses, AttemptsBounded, Attempts
    <3> QED
      BY <3>1, <3>2, MaxOpensAssumption
  <2> QED
    BY <2>1 DEF ConnInv, ConnTypeOK, SocketCloses
<1>3. NeverGivesUp' /\ CurrentMayReconnect'
  BY MaxOpensAssumption
  DEF ConnInv, ConnTypeOK, SocketCloses, Schedule, NeverGivesUp, CurrentMayReconnect
<1> QED
  BY <1>1, <1>2, <1>3 DEF ConnInv

(* What neither makes a socket nor starts a timer.                         *)
LEMMA ConnOthersInv ==
    ASSUME ConnInv,
           \/ UserClose
           \/ \E s \in Sockets : SocketOpens(s) \/ ConnectTimeout(s)
           \/ UNCHANGED connVars
    PROVE  ConnInv'
<1>1. ConnTypeOK'
  BY DEF ConnInv, ConnTypeOK, UserClose, SocketOpens, ConnectTimeout, StartClosing, connVars
<1>2. AttemptsBounded'
  <2>1. \A s \in Sockets : ready[s] = "closed" => ready'[s] = "closed"
    BY DEF ConnInv, ConnTypeOK, UserClose, SocketOpens, ConnectTimeout, StartClosing, connVars
  <2>2. Cardinality(Live') <= Cardinality(Live)
    BY <2>1, LiveShrinks
  <2>3. timers' = timers /\ opens' = opens
    BY DEF UserClose, SocketOpens, ConnectTimeout, connVars
  <2> QED
    BY <2>2, <2>3, LiveFinite, MaxOpensAssumption
    DEF ConnInv, ConnTypeOK, AttemptsBounded, Attempts
<1>3. NeverGivesUp' /\ CurrentMayReconnect'
  <2>1. CASE UserClose
    BY <2>1 DEF ConnInv, ConnTypeOK, UserClose, StartClosing, NeverGivesUp, CurrentMayReconnect
  <2>2. ASSUME NEW s \in Sockets, SocketOpens(s)
        PROVE  NeverGivesUp' /\ CurrentMayReconnect'
    BY <2>2 DEF ConnInv, ConnTypeOK, SocketOpens, NeverGivesUp, CurrentMayReconnect
  <2>3. ASSUME NEW s \in Sockets, ConnectTimeout(s)
        PROVE  NeverGivesUp' /\ CurrentMayReconnect'
    BY <2>3, SocketsAssumption
    DEF ConnInv, ConnTypeOK, ConnectTimeout, StartClosing, NeverGivesUp, CurrentMayReconnect
  <2>4. CASE UNCHANGED connVars
    BY <2>4 DEF ConnInv, connVars, NeverGivesUp, CurrentMayReconnect
  <2> QED
    BY <2>1, <2>2, <2>3, <2>4
<1> QED
  BY <1>1, <1>2, <1>3 DEF ConnInv

LEMMA ConnNextInv == ConnInv /\ [ConnNext]_connVars => ConnInv'
BY UserOpenInv, ReconnectTimerInv, SocketClosesInv, ConnOthersInv DEF ConnNext

LEMMA ConnInductive == ConnSpec => []ConnInv
BY ConnInitInv, ConnNextInv, PTL DEF ConnSpec

-----------------------------------------------------------------------------
(* Every variable keeps its type, and there are never more timers than     *)
(* calls of open(), however often a connection is lost.                    *)
THEOREM ConnTypeCorrect == ConnSpec => []ConnTypeOK
<1>1. ConnInv => ConnTypeOK
  BY DEF ConnInv
<1> QED
  BY <1>1, ConnInductive, PTL

(* For any number of sockets and in any order of their events, sockets and *)
(* reconnect timers together are never more than the calls of open(): what *)
(* open() and scheduleReconnect() start anew replaces what ended.          *)
THEOREM NoMultiplying == ConnSpec => []AttemptsBounded
<1>1. ConnInv => AttemptsBounded
  BY DEF ConnInv
<1> QED
  BY <1>1, ConnInductive, PTL

(* A connection that should reconnect always has something under way: a    *)
(* socket of its own, a socket about to report its end, or a timer.        *)
THEOREM AlwaysUnderWay == ConnSpec => []NeverGivesUp
<1>1. ConnInv => NeverGivesUp
  BY DEF ConnInv
<1> QED
  BY <1>1, ConnInductive, PTL

(* The early returns of open() never leave a connection that was closed by *)
(* the user before without the flag that makes it reconnect.               *)
THEOREM EarlyReturnsSafe == ConnSpec => []CurrentMayReconnect
<1>1. ConnInv => CurrentMayReconnect
  BY DEF ConnInv
<1> QED
  BY <1>1, ConnInductive, PTL

-----------------------------------------------------------------------------
(* Lists and their flattening.                                             *)

(* Induction over the numbers up to n, with a set in place of a predicate. *)
LEMMA UptoInduction ==
    ASSUME NEW n \in Nat, NEW G, 0 \in G,
           \A k \in 1..n : k - 1 \in G => k \in G
    PROVE  \A k \in 0..n : k \in G
<1> SUFFICES ASSUME NEW k \in 0..n, k \notin G PROVE FALSE
    OBVIOUS
<1> DEFINE B == {j \in 0..n : j \notin G}
<1>1. B \subseteq Nat /\ B # {}
    OBVIOUS
<1> DEFINE R == {ss \in Nat \X Nat : ss[1] < ss[2]}
<1>2. PICK m \in B : \A j \in B : <<j, m>> \notin R
    <2>1. R = OpToRel(<, Nat)
        BY Zenon DEF OpToRel
    <2> HIDE DEF B, R
    <2>2. IsWellFoundedOn(R, Nat)
        BY <2>1, NatLessThanWellFounded, Zenon
    <2> QED BY <1>1, <2>2, WFMin
<1>3. m \in 1..n /\ m - 1 \in 0..n
    OBVIOUS
<1>4. m - 1 \in B
    BY <1>3
<1>5. <<m - 1, m>> \in R
    <2>1. m \in Nat /\ m - 1 \in Nat /\ m - 1 < m
        BY <1>3
    <2> QED BY <2>1
<1> HIDE DEF B, R
<1> QED BY <1>2, <1>4, <1>5

(* The body of the function that FlattenSeq is defined by.                 *)
FlattenBody(ss, g, i) == IF i = 1 THEN ss[i] ELSE g[i - 1] \o ss[i]

(* That function exists.                                                   *)
LEMMA FlattenFcnExists ==
    ASSUME NEW n \in Nat, NEW ss
    PROVE  \E g : g = [i \in 1..n |-> FlattenBody(ss, g, i)]
<1> DEFINE G == {m \in Nat : \E g : g = [i \in 1..m |-> FlattenBody(ss, g, i)]}
<1>1. 0 \in G
    <2> DEFINE g == [i \in 1..0 |-> i]
    <2>1. g = [i \in 1..0 |-> FlattenBody(ss, g, i)]
        OBVIOUS
    <2> QED BY <2>1
<1>2. ASSUME NEW m \in 1..n, m - 1 \in G PROVE m \in G
    <2>1. PICK g : g = [i \in 1..(m - 1) |-> FlattenBody(ss, g, i)]
        BY <1>2
    <2> DEFINE h == [i \in 1..m |-> FlattenBody(ss, g, i)]
    <2>2. ASSUME NEW i \in 1..m PROVE h[i] = FlattenBody(ss, h, i)
        <3>1. CASE i = 1
            BY <3>1 DEF FlattenBody
        <3>2. CASE i # 1
            <4>1. i - 1 \in 1..(m - 1) /\ i - 1 \in 1..m
                BY <3>2
            <4>2. g[i - 1] = FlattenBody(ss, g, i - 1)
                BY <2>1, <4>1
            <4>3. h[i - 1] = g[i - 1]
                BY <4>1, <4>2
            <4> QED BY <3>2, <4>3 DEF FlattenBody
        <3> QED BY <3>1, <3>2
    <2>3. h = [i \in 1..m |-> h[i]]
        OBVIOUS
    <2> HIDE DEF h
    <2>4. h = [i \in 1..m |-> FlattenBody(ss, h, i)]
        BY <2>2, <2>3
    <2> QED BY <2>4
<1>3. n \in G
    <2> HIDE DEF G
    <2> QED BY <1>1, <1>2, UptoInduction
<1> QED BY <1>3

(* FlattenSeq yields a list of what its lists are made of.                 *)
LEMMA FlattenTyped ==
    ASSUME NEW S, NEW n \in Nat, NEW ss \in [1..n -> Seq(S)]
    PROVE  FlattenSeq(ss) \in Seq(S)
<1>0. Len(ss) = n /\ ss \in Seq(Seq(S))
    <2>1. ss \in Seq(Seq(S))
        BY SeqDef
    <2> QED BY <2>1, LenProperties
<1>1. CASE n = 0
    BY <1>0, <1>1, EmptySeq DEF FlattenSeq
<1>2. CASE n # 0
    <2> DEFINE c == CHOOSE g : g = [i \in 1..n |-> FlattenBody(ss, g, i)]
    <2>1. c = [i \in 1..n |-> FlattenBody(ss, c, i)]
        BY FlattenFcnExists
    <2>2. FlattenSeq(ss) = c[n]
        BY <1>0, <1>2 DEF FlattenSeq, FlattenBody
    <2> HIDE DEF c
    <2> DEFINE G == {0} \cup {i \in 1..n : c[i] \in Seq(S)}
    <2>3. 0 \in G
        OBVIOUS
    <2>4. ASSUME NEW k \in 1..n, k - 1 \in G PROVE k \in G
        <3>1. c[k] = FlattenBody(ss, c, k)
            BY <2>1
        <3>2. c[k] \in Seq(S)
            <4>1. CASE k = 1
                BY <3>1, <4>1 DEF FlattenBody
            <4>2. CASE k # 1
                <5>1. c[k - 1] \in Seq(S) /\ ss[k] \in Seq(S)
                    BY <2>4, <4>2
                <5>2. c[k] = c[k - 1] \o ss[k]
                    BY <3>1, <4>2 DEF FlattenBody
                <5> HIDE DEF G
                <5> QED BY <5>1, <5>2, ConcatProperties
            <4> QED BY <4>1, <4>2
        <3> QED BY <3>2
    <2>5. n \in G
        <3> HIDE DEF G
        <3>1. \A k \in 1..n : k - 1 \in G => k \in G
            BY <2>4
        <3>2. \A k \in 0..n : k \in G
            BY <2>3, <3>1, UptoInduction
        <3> QED BY <3>2
    <2> QED BY <1>2, <2>2, <2>5
<1> QED BY <1>1, <1>2

(* SetToSeq lists the elements of a finite set.                            *)
LEMMA SetToSeqTyped ==
    ASSUME NEW S, IsFiniteSet(S)
    PROVE  /\ SetToSeq(S) \in Seq(S)
           /\ Cardinality(S) \in Nat
           /\ \A k \in 1..Cardinality(S) : SetToSeq(S)[k] \in S
<1>1. Cardinality(S) \in Nat /\ \E f \in [1..Cardinality(S) -> S] : IsInjective(f)
    BY FS_CardinalityType DEF ExistsBijection, Bijection, Injection
<1>2. SetToSeq(S) \in [1..Cardinality(S) -> S]
    BY <1>1 DEF SetToSeq
<1> QED BY <1>1, <1>2, SeqDef

-----------------------------------------------------------------------------
(* The lists of nodes that the handlers make.                              *)

(* What is chosen from a list is in it and in the set.                     *)
LEMMA OnlyTyped ==
    ASSUME NEW T, NEW list \in Seq(T), NEW S
    PROVE  Only(list, S) \in Seq(T \cap S)
<1> DEFINE ss == [k \in 1..Len(list) |-> IF list[k] \in S THEN <<list[k]>> ELSE <<>>]
<1>1. Len(list) \in Nat /\ \A k \in 1..Len(list) : list[k] \in T
    BY LenProperties
<1>2. ss \in [1..Len(list) -> Seq(T \cap S)]
    <2>1. ASSUME NEW k \in 1..Len(list) PROVE ss[k] \in Seq(T \cap S)
        <3>1. ss[k] = IF list[k] \in S THEN <<list[k]>> ELSE <<>>
            OBVIOUS
        <3> HIDE DEF ss
        <3>2. CASE list[k] \in S
            <4>1. list[k] \in T \cap S
                BY <1>1, <3>2
            <4> QED BY <3>1, <3>2, <4>1
        <3>3. CASE ~(list[k] \in S)
            BY <3>1, <3>3, EmptySeq
        <3> QED BY <3>2, <3>3
    <2>2. ss = [k \in 1..Len(list) |-> ss[k]]
        OBVIOUS
    <2> HIDE DEF ss
    <2> QED BY <2>1, <2>2
<1> HIDE DEF ss
<1>3. FlattenSeq(ss) \in Seq(T \cap S)
    BY <1>1, <1>2, FlattenTyped
<1> QED BY <1>3 DEF Only, ss

(* What is left of a list is in it and not in the set.                     *)
LEMMA WithoutTyped ==
    ASSUME NEW T, NEW list \in Seq(T), NEW S
    PROVE  Without(list, S) \in Seq(T \ S)
<1> DEFINE ss == [k \in 1..Len(list) |-> IF list[k] \notin S THEN <<list[k]>> ELSE <<>>]
<1>1. Len(list) \in Nat /\ \A k \in 1..Len(list) : list[k] \in T
    BY LenProperties
<1>2. ss \in [1..Len(list) -> Seq(T \ S)]
    <2>1. ASSUME NEW k \in 1..Len(list) PROVE ss[k] \in Seq(T \ S)
        <3>1. ss[k] = IF list[k] \notin S THEN <<list[k]>> ELSE <<>>
            OBVIOUS
        <3> HIDE DEF ss
        <3>2. CASE list[k] \notin S
            <4>1. list[k] \in T \ S
                BY <1>1, <3>2
            <4> QED BY <3>1, <3>2, <4>1
        <3>3. CASE ~(list[k] \notin S)
            BY <3>1, <3>3, EmptySeq
        <3> QED BY <3>2, <3>3
    <2>2. ss = [k \in 1..Len(list) |-> ss[k]]
        OBVIOUS
    <2> HIDE DEF ss
    <2> QED BY <2>1, <2>2
<1> HIDE DEF ss
<1>3. FlattenSeq(ss) \in Seq(T \ S)
    BY <1>1, <1>2, FlattenTyped
<1> QED BY <1>3 DEF Without, ss

(* A set of nodes can be listed.                                           *)
LEMMA NodesFinite ==
    ASSUME NEW S, S \subseteq Nodes
    PROVE  /\ IsFiniteSet(S) /\ SetToSeq(S) \in Seq(Nodes)
           /\ Cardinality(S) \in Nat
           /\ \A k \in 1..Cardinality(S) : SetToSeq(S)[k] \in S
<1>1. IsFiniteSet(S)
    BY NodesAssumption, FS_Subset
<1>2. SetToSeq(S) \in Seq(S)
    BY <1>1, SetToSeqTyped
<1> QED BY <1>1, <1>2, SetToSeqTyped, SeqMonotonic

(* The lists that a click is about are lists of nodes.                     *)
LEMMA AssociatedTyped ==
    ASSUME NEW S, S \subseteq Nodes
    PROVE  WithAssociated(S) \in Seq(Nodes)
<1> DEFINE ss == [k \in 1..Cardinality(S) |->
                    Append(SetToSeq(Associated[SetToSeq(S)[k]]), SetToSeq(S)[k])]
<1>1. Cardinality(S) \in Nat
    BY NodesFinite
<1>2. ASSUME NEW k \in 1..Cardinality(S) PROVE ss[k] \in Seq(Nodes)
    <2> DEFINE n == SetToSeq(S)[k]
    <2>1. n \in Nodes
        BY NodesFinite
    <2> HIDE DEF n
    <2>2. SetToSeq(Associated[n]) \in Seq(Nodes)
        BY <2>1, RelationsOfNodes, NodesFinite
    <2>3. Append(SetToSeq(Associated[n]), n) \in Seq(Nodes)
        BY <2>1, <2>2, AppendProperties
    <2> QED BY <2>3 DEF n
<1>3. ss \in [1..Cardinality(S) -> Seq(Nodes)]
    <2>1. ss = [k \in 1..Cardinality(S) |-> ss[k]]
        OBVIOUS
    <2> HIDE DEF ss
    <2> QED BY <1>2, <2>1
<1> HIDE DEF ss
<1>4. FlattenSeq(ss) \in Seq(Nodes)
    BY <1>1, <1>3, FlattenTyped
<1> QED BY <1>4 DEF WithAssociated, ss

(* What is stopped, or started, is a list of nodes.                        *)
LEMMA ToStopTyped ==
    ASSUME NEW S, S \subseteq Nodes
    PROVE  ToStop(S) \in Seq(Nodes)
<1> DEFINE N == ContainersFirst({n \in Range(WithAssociated(S)) \cap known :
                                    ~IsQueued(q, "STOP", n)})
<1>1. WithAssociated(S) \in Seq(Nodes)
    BY AssociatedTyped
<1> HIDE DEF N
<1>2. Only(WithAssociated(S), N) \in Seq(Nodes \cap N)
    BY <1>1, OnlyTyped
<1>3. Only(WithAssociated(S), N) \in Seq(Nodes)
    BY <1>2, SeqMonotonic
<1> QED BY <1>3 DEF ToStop, N

(* The containers of the nodes are nodes as well.                          *)
LEMMA ToStartTyped ==
    ASSUME NEW queue, NEW S, S \subseteq Nodes, NEW ignoreRunState
    PROVE  ToStart(queue, S, ignoreRunState) \in Seq(Nodes)
<1> DEFINE list == WithAssociated(S)
           managers(n) == {c \in ContainersOf[n] :
                             /\ ~IsQueued(queue, "START", c)
                             /\ (c \notin known \/ (ignoreRunState /\ c \in S))}
           added(n) == IF Addable(queue, ignoreRunState, n) THEN managers(n) \cup {n} ELSE {}
           new(k) == added(list[k]) \ UNION {added(list[j]) : j \in 1 .. k - 1}
           ss == [k \in 1 .. Len(list) |->
                    SetToSeq(new(k) \ {list[k]}) \o SetToSeq(new(k) \cap {list[k]})]
<1>1. list \in Seq(Nodes) /\ Len(list) \in Nat
    BY AssociatedTyped, LenProperties
<1>2. ASSUME NEW k \in 1..Len(list) PROVE ss[k] \in Seq(Nodes)
    <2> HIDE DEF list
    <2>1. list[k] \in Nodes
        BY <1>1, ElementOfSeq
    <2>2. added(list[k]) \subseteq Nodes
        BY <2>1, RelationsOfNodes
    <2> HIDE DEF added
    <2>3. new(k) \subseteq Nodes
        BY <2>2
    <2> HIDE DEF new
    <2>4. SetToSeq(new(k) \ {list[k]}) \in Seq(Nodes) /\ SetToSeq(new(k) \cap {list[k]}) \in Seq(Nodes)
        <3>1. new(k) \ {list[k]} \subseteq Nodes /\ new(k) \cap {list[k]} \subseteq Nodes
            BY <2>3
        <3> QED BY <3>1, NodesFinite
    <2> QED BY <2>4, ConcatProperties
<1>3. ss \in [1..Len(list) -> Seq(Nodes)]
    <2>1. ss = [k \in 1..Len(list) |-> ss[k]]
        OBVIOUS
    <2> HIDE DEF ss
    <2> QED BY <1>2, <2>1
<1>4. FlattenSeq(ss) \in Seq(Nodes)
    <2> HIDE DEF ss, list
    <2> QED BY <1>1, <1>3, FlattenTyped
<1> QED BY <1>4 DEF ToStart

(* What a timer kills is pending, and is what the timer is about.          *)
LEMMA ToKillTyped ==
    ASSUME pendingKill \in Seq(Nodes), NEW t
    PROVE  /\ ToKill(t) \in Seq(Nodes)
           /\ Range(ToKill(t)) \subseteq t.nodes \cap Range(pendingKill)
<1> DEFINE N == {n \in t.nodes \cap SeenRunning(t) : ~IsQueued(q, "KILL", n)}
<1>1. N \subseteq t.nodes
    OBVIOUS
<1> HIDE DEF N
<1>2. Only(pendingKill, N) \in Seq(Nodes \cap N)
    BY OnlyTyped
<1>3. Only(pendingKill, N) \in Seq(Range(pendingKill) \cap N)
    BY SeqOfRange, OnlyTyped
<1>4. Only(pendingKill, N) \in Seq(Nodes) /\ Range(Only(pendingKill, N)) \subseteq Range(pendingKill) \cap N
    BY <1>2, <1>3, SeqMonotonic, RangeOfSeq
<1> QED BY <1>1, <1>4 DEF ToKill, N

(* An item for each node of a list.                                        *)
LEMMA ItemsTyped ==
    ASSUME NEW kind \in Kinds, NEW list \in Seq(Nodes)
    PROVE  Items(kind, list) \in Seq(QueueItem)
<1>1. DOMAIN list = 1..Len(list) /\ Len(list) \in Nat /\ list \in [1..Len(list) -> Nodes]
    BY LenProperties
<1>2. Items(kind, list) \in [1..Len(list) -> QueueItem]
    BY <1>1 DEF Items, Item, QueueItem
<1> QED BY <1>1, <1>2, SeqDef

-----------------------------------------------------------------------------
(* The queue.                                                              *)

Queue == [items : Seq(QueueItem), index : Nat \cup {-1}, statusFor : Int,
          results : Seq(QueueItem)]

(* An idle queue is empty; the current item of another has no status yet.  *)
Sound(u) ==
    /\ u \in Queue
    /\ IF u.index = -1 THEN u = Idle ELSE u.statusFor = u.index - 1

(* The statuses are those of the items before the current one.             *)
InOrder(u) ==
    u.index >= 0 => u.index <= Len(u.items) /\ u.results = SubSeq(u.items, 1, u.index)

(* One handler works, on the current item, which is rendered.              *)
Current(u) ==
    /\ \A j, k \in DOMAIN running : ~running[j].old /\ ~running[k].old => j = k
    /\ \A k \in DOMAIN running : ~running[k].old =>
         /\ shown = u.index /\ running[k].index = u.index
         /\ u.index \in 0 .. Len(u.items) - 1
         /\ running[k].item = GetAt(u, u.index)
         /\ lastKey = <<u.index, GetAt(u, u.index)>>

(* The effects will see the current item, or none, or the one before it,   *)
(* which was performed: its handler reported since the rendering.          *)
Rendered(u) ==
    \/ shown \in {-1, u.index}
    \/ shown >= 0 /\ u.index = shown + 1 /\ lastKey = <<shown, GetAt(u, shown)>>

QueueInv ==
    ~shifted => InOrder(q) /\ Current(q) /\ (effects => Rendered(q))

(* What update() keeps.                                                    *)
LEMMA UpdateQueue ==
    ASSUME NEW u, Sound(u), NEW list \in Seq(QueueItem), NEW v, v = Update(u, list)
    PROVE  /\ Sound(v)
           /\ v.results = u.results
           /\ v.index = u.index \/ (u = Idle /\ v.index = 0)
           /\ Len(u.items) <= Len(v.items) /\ Len(v.items) \in Nat /\ Len(u.items) \in Nat
           /\ \A i \in 1..Len(u.items) : v.items[i] = u.items[i]
<1>1. u \in Queue /\ u.items \in Seq(QueueItem) /\ u.index \in Nat \cup {-1}
    BY DEF Sound, Queue
<1>2. /\ u.items \o list \in Seq(QueueItem)
      /\ Len(u.items \o list) = Len(u.items) + Len(list)
      /\ Len(u.items) \in Nat /\ Len(list) \in Nat /\ Len(u.items \o list) \in Nat
      /\ \A i \in 1..Len(u.items) : (u.items \o list)[i] = u.items[i]
    BY <1>1, ConcatProperties, LenProperties
<1>3. v = [items |-> u.items \o list, index |-> IF list # <<>> /\ u.index = -1 THEN 0 ELSE u.index,
           statusFor |-> u.statusFor, results |-> u.results]
    BY <1>1 DEF Update, Queue
<1>4. v \in Queue
    BY <1>1, <1>2, <1>3 DEF Queue
<1>5. Sound(v)
    <2>1. CASE u.index = -1 /\ list # <<>>
        <3>1. u.statusFor = -1
            BY <2>1 DEF Sound, Idle
        <3> QED BY <1>3, <1>4, <2>1, <3>1 DEF Sound
    <2>2. CASE u.index = -1 /\ list = <<>>
        <3>1. u = Idle /\ u.items \o list = <<>>
            BY <2>2 DEF Sound, Idle
        <3> QED BY <1>3, <1>4, <2>2, <3>1 DEF Sound, Idle
    <2>3. CASE u.index # -1
        BY <1>3, <1>4, <2>3 DEF Sound
    <2> QED BY <2>1, <2>2, <2>3
<1> QED BY <1>2, <1>3, <1>5 DEF Sound

(* What update() appends disturbs neither the order nor the handler.       *)
LEMMA UpdateKeeps ==
    ASSUME NEW u, Sound(u), NEW list \in Seq(QueueItem), NEW v, v = Update(u, list),
           InOrder(u), Current(u), shown \in Nat \cup {-1}
    PROVE  InOrder(v) /\ Current(v) /\ (Rendered(u) => Rendered(v))
<1>1. /\ Sound(v)
      /\ v.results = u.results
      /\ v.index = u.index \/ (u = Idle /\ v.index = 0)
      /\ Len(u.items) <= Len(v.items) /\ Len(v.items) \in Nat /\ Len(u.items) \in Nat
      /\ \A i \in 1..Len(u.items) : v.items[i] = u.items[i]
    BY UpdateQueue
<1>2. /\ u.items \in Seq(QueueItem) /\ v.items \in Seq(QueueItem)
      /\ u.index \in Nat \cup {-1} /\ v.index \in Nat \cup {-1}
    BY <1>1 DEF Sound, Queue
<1>3. \A i \in 0..Len(u.items) - 1 : GetAt(v, i) = GetAt(u, i)
    BY <1>1 DEF GetAt
<1>4. InOrder(v)
    <2>1. CASE u = Idle
        <3>1. u.results = <<>> /\ u.index = -1 /\ u.items = <<>>
            BY <2>1 DEF Idle
        <3>2. CASE v.index = 0
            <4>1. SubSeq(v.items, 1, 0) = <<>>
                BY SubSeqEmpty
            <4> QED BY <1>1, <3>1, <3>2, <4>1 DEF InOrder
        <3>3. CASE v.index # 0
            BY <1>1, <3>1, <3>3 DEF InOrder
        <3> QED BY <3>2, <3>3
    <2>2. CASE u # Idle /\ u.index >= 0
        <3>1. v.index = u.index /\ u.index <= Len(u.items) /\ u.results = SubSeq(u.items, 1, u.index)
            BY <1>1, <2>2 DEF InOrder
        <3>2. /\ SubSeq(u.items, 1, u.index) \in Seq(QueueItem)
              /\ SubSeq(v.items, 1, u.index) \in Seq(QueueItem)
              /\ Len(SubSeq(u.items, 1, u.index)) = u.index
              /\ Len(SubSeq(v.items, 1, u.index)) = u.index
              /\ \A i \in 1..u.index : SubSeq(u.items, 1, u.index)[i] = u.items[i]
              /\ \A i \in 1..u.index : SubSeq(v.items, 1, u.index)[i] = v.items[i]
            <4>1. /\ \A i \in 1..u.index : u.items[i] \in QueueItem
                  /\ \A i \in 1..u.index : v.items[i] \in QueueItem
                BY <1>1, <1>2, <2>2, <3>1, ElementOfSeq
            <4> QED BY <1>2, <2>2, <4>1, SubSeqProperties
        <3>3. SubSeq(u.items, 1, u.index) = SubSeq(v.items, 1, u.index)
            BY <1>1, <1>2, <3>1, <3>2, SeqEqual
        <3>4. v.index <= Len(v.items)
            BY <1>1, <1>2, <3>1
        <3>5. v.results = SubSeq(v.items, 1, v.index)
            BY <1>1, <3>1, <3>3
        <3> QED BY <3>4, <3>5 DEF InOrder
    <2>3. CASE u # Idle /\ ~(u.index >= 0)
        BY <1>1, <2>3 DEF InOrder
    <2> QED BY <2>1, <2>2, <2>3
<1>5. Current(v)
    BY <1>1, <1>2, <1>3 DEF Current, Idle
<1>6. Rendered(u) => Rendered(v)
    <2>1. CASE shown \in {-1, u.index}
        BY <1>1, <2>1 DEF Rendered, Idle
    <2>2. CASE shown >= 0 /\ u.index = shown + 1 /\ lastKey = <<shown, GetAt(u, shown)>>
        <3>1. v.index = u.index /\ shown \in 0..Len(u.items) - 1
            BY <1>1, <1>2, <2>2 DEF InOrder, Idle
        <3> QED BY <1>3, <2>2, <3>1 DEF Rendered
    <2> QED BY <2>1, <2>2 DEF Rendered
<1> QED BY <1>4, <1>5, <1>6

(* addStatus() advances every queue that is not idle.                      *)
LEMMA StatusQueue ==
    ASSUME NEW u, Sound(u), NEW item \in QueueItem, NEW v, v = AddStatus(u, item)
    PROVE  /\ Sound(v)
           /\ u.index = -1 => v = u
           /\ u.index # -1 => /\ v.index = u.index + 1 /\ v.items = u.items
                              /\ v.results = Append(u.results, item)
<1>1. u \in Queue /\ u.results \in Seq(QueueItem) /\ u.index \in Nat \cup {-1}
    BY DEF Sound, Queue
<1>2. CASE u.index = -1
    BY <1>2 DEF AddStatus, Advances
<1>3. CASE u.index # -1
    <2>0. u.statusFor = u.index - 1 /\ u.index \in Nat
        BY <1>1, <1>3 DEF Sound
    <2>1. v = [items |-> u.items, index |-> u.index + 1, statusFor |-> u.index,
               results |-> Append(u.results, item)]
        <3>1. v = [u EXCEPT !.index = @ + 1, !.statusFor = u.index, !.results = Append(@, item)]
            BY <2>0 DEF AddStatus, Advances
        <3> DEFINE r == Append(u.results, item)
        <3>2. v = [u EXCEPT !.index = @ + 1, !.statusFor = u.index, !.results = r]
            BY <3>1
        <3> HIDE DEF r
        <3>3. v = [items |-> u.items, index |-> u.index + 1, statusFor |-> u.index, results |-> r]
            BY <1>1, <3>2 DEF Queue
        <3> QED BY <3>3 DEF r
    <2>2. Append(u.results, item) \in Seq(QueueItem)
        BY <1>1, AppendProperties
    <2>3. v \in Queue /\ v.index \in Nat
        BY <1>1, <1>3, <2>1, <2>2 DEF Queue
    <2> QED BY <1>1, <1>3, <2>1, <2>3 DEF Sound
<1> QED BY <1>2, <1>3

(* The status of the current item keeps the order.                         *)
LEMMA StatusInOrder ==
    ASSUME NEW u, Sound(u), InOrder(u), u.index \in 0 .. Len(u.items) - 1,
           NEW item, item = GetAt(u, u.index), NEW v, v = AddStatus(u, item)
    PROVE  InOrder(v) /\ item \in QueueItem
<1>1. /\ u.items \in Seq(QueueItem) /\ u.results \in Seq(QueueItem) /\ u.index \in Nat
      /\ Len(u.items) \in Nat
    BY LenProperties DEF Sound, Queue
<1>2. item = u.items[u.index + 1] /\ item \in QueueItem
    <2>1. item = u.items[u.index + 1] /\ u.index + 1 \in 1..Len(u.items)
        BY <1>1 DEF GetAt
    <2> QED BY <1>1, <2>1, ElementOfSeq
<1>3. v.index = u.index + 1 /\ v.items = u.items /\ v.results = Append(u.results, item)
    <2>1. u.index # -1
        BY <1>1
    <2> QED BY <1>2, <2>1, StatusQueue, Zenon
<1>4. u.results = SubSeq(u.items, 1, u.index)
    BY <1>1 DEF InOrder
<1>5. Append(SubSeq(u.items, 1, u.index), u.items[u.index + 1]) = SubSeq(u.items, 1, u.index + 1)
    <2>1. /\ \A i \in 1..u.index : u.items[i] \in QueueItem
          /\ \A i \in 1..u.index + 1 : u.items[i] \in QueueItem
        BY <1>1, ElementOfSeq
    <2> DEFINE s == SubSeq(u.items, 1, u.index)
               t == SubSeq(u.items, 1, u.index + 1)
    <2>2. s \in Seq(QueueItem) /\ Len(s) = u.index /\ \A i \in 1..u.index : s[i] = u.items[i]
        BY <1>1, <2>1, SubSeqProperties
    <2>3. t \in Seq(QueueItem) /\ Len(t) = u.index + 1 /\ \A i \in 1..u.index + 1 : t[i] = u.items[i]
        BY <1>1, <2>1, SubSeqProperties
    <2> HIDE DEF s, t
    <2> DEFINE a == Append(s, item)
    <2>4. /\ a \in Seq(QueueItem) /\ Len(a) = u.index + 1
          /\ \A i \in 1..u.index : a[i] = s[i]
        BY <1>2, <2>2, AppendProperties
    <2>5. a[u.index + 1] = item
        BY <1>2, <2>2, AppendProperties
    <2> HIDE DEF a
    <2>6. \A i \in 1..Len(a) : a[i] = t[i]
        <3> SUFFICES ASSUME NEW i \in 1..u.index + 1 PROVE a[i] = t[i]
            BY <2>4
        <3>1. CASE i = u.index + 1
            BY <1>1, <1>2, <2>3, <2>5, <3>1
        <3>2. CASE i # u.index + 1
            BY <1>1, <2>2, <2>3, <2>4, <3>2
        <3> QED BY <3>1, <3>2
    <2>7. a = t
        BY <2>3, <2>4, <2>6, SeqEqual
    <2> QED BY <1>2, <2>7 DEF a, s, t
<1>6. v.results = SubSeq(v.items, 1, v.index)
    BY <1>2, <1>3, <1>4, <1>5
<1>7. v.index <= Len(v.items)
    BY <1>1, <1>3
<1> QED BY <1>2, <1>6, <1>7 DEF InOrder

-----------------------------------------------------------------------------
(* The types.                                                              *)

Handler == [item : QueueItem, index : Nat, old : BOOLEAN]
Waiting == [nodes : (SUBSET Nodes) \ {{}}, after : SUBSET Nat, killTried : BOOLEAN]
Timer == [id : Nat, nodes : SUBSET Nodes, view : SUBSET Nodes]

TypeInv ==
    /\ Sound(q)
    /\ running \in Seq(Handler)
    /\ alive \subseteq Nodes /\ known \subseteq Nodes
    /\ pendingKill \in Seq(Nodes) /\ batch \in Seq(Nodes)
    /\ killTimers \subseteq Timer
    /\ restart = NoRestart \/ restart \in Waiting
    /\ shown \in Nat \cup {-1}
    /\ dirty \in BOOLEAN /\ effects \in BOOLEAN /\ sync \in BOOLEAN /\ shifted \in BOOLEAN
    /\ clicks \in Nat

(* The type invariant says no more.                                        *)
LEMMA TypeInvTypes == TypeInv => TypeOK
<1> SUFFICES ASSUME TypeInv PROVE TypeOK
    OBVIOUS
<1>1. /\ q.items \in Seq(QueueItem) /\ q.results \in Seq(QueueItem)
      /\ q.index \in Nat \cup {-1} /\ q.statusFor \in Int
    BY DEF TypeInv, Sound, Queue
<1>2. Range(q.items) \cup Range(q.results) \subseteq QueueItem
    BY <1>1, RangeOfSeq
<1>3. q.statusFor \in -1 .. q.index
    BY <1>1 DEF TypeInv, Sound, Idle
<1>4. \A k \in DOMAIN running : running[k] \in Handler
    BY ElementOfSeq, LenProperties DEF TypeInv
<1>5. Range(pendingKill) \cup Range(batch) \subseteq Nodes
    BY RangeOfSeq DEF TypeInv
<1>6. shown \in Int
    BY DEF TypeInv
<1> QED BY <1>1, <1>2, <1>3, <1>4, <1>5, <1>6 DEF TypeOK, TypeInv, Handler, Waiting

(* clear() leaves the handlers to themselves.                              *)
LEMMA AbandonedTyped ==
    ASSUME running \in Seq(Handler)
    PROVE  /\ Abandoned \in Seq(Handler)
           /\ \A k \in DOMAIN Abandoned : Abandoned[k].old
<1>1. DOMAIN running = 1..Len(running) /\ Len(running) \in Nat
      /\ \A k \in 1..Len(running) : running[k] \in Handler
    BY LenProperties, ElementOfSeq
<1>2. \A k \in 1..Len(running) :
        [running[k] EXCEPT !.old = TRUE] \in Handler /\ [running[k] EXCEPT !.old = TRUE].old
    BY <1>1 DEF Handler
<1>3. Abandoned = [k \in 1..Len(running) |-> [running[k] EXCEPT !.old = TRUE]]
    BY <1>1 DEF Abandoned
<1>4. Abandoned \in [1..Len(running) -> Handler]
    BY <1>2, <1>3
<1> QED BY <1>1, <1>2, <1>3, <1>4, SeqDef

(* A handler that reports is taken out.                                    *)
LEMMA RemovedTyped ==
    ASSUME NEW s \in Seq(Handler), NEW k \in DOMAIN s, NEW t, t = RemoveAt(s, k)
    PROVE  /\ t \in Seq(Handler) /\ DOMAIN t = 1 .. Len(s) - 1
           /\ Len(s) \in Nat /\ DOMAIN s = 1..Len(s)
           /\ \A i \in DOMAIN t : t[i] = IF i < k THEN s[i] ELSE s[i + 1]
<1>1. DOMAIN s = 1..Len(s) /\ Len(s) \in Nat /\ k \in 1..Len(s)
      /\ \A i \in 1..Len(s) : s[i] \in Handler
    BY LenProperties, ElementOfSeq
<1> DEFINE a == SubSeq(s, 1, k - 1)
           b == SubSeq(s, k + 1, Len(s))
<1>2. a \in Seq(Handler) /\ Len(a) = k - 1 /\ \A i \in 1 .. k - 1 : a[i] = s[i]
    <2>1. \A i \in 1..k - 1 : s[i] \in Handler
        BY <1>1
    <2>2. /\ a \in Seq(Handler)
          /\ Len(a) = IF 1 <= k - 1 THEN k - 1 - 1 + 1 ELSE 0
          /\ \A i \in 1 .. k - 1 - 1 + 1 : a[i] = s[1 + i - 1]
        BY <1>1, <2>1, SubSeqProperties
    <2> HIDE DEF a
    <2> QED BY <1>1, <2>2
<1>3. b \in Seq(Handler) /\ Len(b) = Len(s) - k /\ \A i \in 1 .. Len(s) - k : b[i] = s[k + i]
    <2>1. \A i \in k + 1..Len(s) : s[i] \in Handler
        BY <1>1
    <2>2. /\ b \in Seq(Handler)
          /\ Len(b) = IF k + 1 <= Len(s) THEN Len(s) - (k + 1) + 1 ELSE 0
          /\ \A i \in 1 .. Len(s) - (k + 1) + 1 : b[i] = s[(k + 1) + i - 1]
        <3>1. k + 1 \in Int /\ Len(s) \in Int
            BY <1>1
        <3> QED BY <2>1, <3>1, SubSeqProperties
    <2> HIDE DEF b
    <2>3. Len(b) = Len(s) - k
        BY <1>1, <2>2
    <2>4. ASSUME NEW i \in 1 .. Len(s) - k PROVE b[i] = s[k + i]
        <3>1. i \in 1 .. Len(s) - (k + 1) + 1 /\ (k + 1) + i - 1 = k + i
            BY <1>1
        <3> QED BY <2>2, <3>1
    <2> QED BY <2>2, <2>3, <2>4
<1>4. t = a \o b
    BY DEF RemoveAt
<1> HIDE DEF a, b
<1>5. /\ t \in Seq(Handler) /\ Len(t) = Len(s) - 1
      /\ \A i \in 1 .. Len(s) - 1 : t[i] = IF i <= k - 1 THEN a[i] ELSE b[i - (k - 1)]
    <2>1. /\ t \in Seq(Handler) /\ Len(t) = Len(a) + Len(b)
          /\ \A i \in 1 .. Len(a) + Len(b) : t[i] = IF i <= Len(a) THEN a[i] ELSE b[i - Len(a)]
        <3>1. a \in Seq(Handler) /\ b \in Seq(Handler)
            BY <1>2, <1>3
        <3> QED BY <1>4, <3>1, ConcatProperties
    <2>2. Len(a) = k - 1 /\ Len(a) + Len(b) = Len(s) - 1
        BY <1>1, <1>2, <1>3
    <2>3. ASSUME NEW i \in 1 .. Len(s) - 1 PROVE t[i] = IF i <= k - 1 THEN a[i] ELSE b[i - (k - 1)]
        BY <2>1, <2>2
    <2> QED BY <2>1, <2>2, <2>3
<1>6. DOMAIN t = 1 .. Len(s) - 1
    BY <1>5, LenProperties
<1>7. ASSUME NEW i \in 1 .. Len(s) - 1 PROVE t[i] = IF i < k THEN s[i] ELSE s[i + 1]
    <2>1. CASE i < k
        BY <1>1, <1>2, <1>5, <2>1
    <2>2. CASE ~(i < k)
        <3>1. i - (k - 1) \in 1..Len(s) - k /\ k + (i - (k - 1)) = i + 1
            BY <1>1, <2>2
        <3>2. t[i] = b[i - (k - 1)]
            <4>1. ~(i <= k - 1)
                BY <1>1, <2>2
            <4> QED BY <1>5, <4>1
        <3> QED BY <1>3, <2>2, <3>1, <3>2
    <2> QED BY <2>1, <2>2
<1> QED BY <1>1, <1>5, <1>6, <1>7

(* What the "update queue" effect makes of the queue u.                    *)
LEMMA PerformTyped ==
    ASSUME TypeInv, NEW u, Sound(u), Perform(u)
    PROVE  Sound(q)' /\ running' \in Seq(Handler) /\ shifted' \in BOOLEAN
<1>1. running \in Seq(Handler) /\ shifted \in BOOLEAN /\ shown \in Nat \cup {-1}
    BY DEF TypeInv
<1>2. GetAt(u, shown) # NoItem => GetAt(u, shown) \in QueueItem
    <2>1. u.items \in Seq(QueueItem) /\ Len(u.items) \in Nat
        BY LenProperties DEF Sound, Queue
    <2> QED BY <1>1, <2>1, ElementOfSeq DEF GetAt
<1>3. CASE q' = u /\ UNCHANGED <<running, shifted>>
    BY <1>1, <1>3 DEF Sound
<1>4. CASE /\ shown >= 0 /\ GetAt(u, shown) # NoItem /\ q' = u /\ shifted' = shifted
           /\ running' = Append(running, [item |-> GetAt(u, shown), index |-> shown, old |-> FALSE])
    <2>1. [item |-> GetAt(u, shown), index |-> shown, old |-> FALSE] \in Handler
        BY <1>1, <1>2, <1>4 DEF Handler
    <2>2. running' \in Seq(Handler)
        BY <1>1, <1>4, <2>1, AppendProperties
    <2> QED BY <1>1, <1>4, <2>2 DEF Sound
<1>5. CASE /\ GetAt(u, shown) # NoItem /\ q' = AddStatus(u, GetAt(u, shown))
           /\ running' = running /\ shifted' = shifted
    <2>1. Sound(q')
        BY <1>2, <1>5, StatusQueue
    <2> QED BY <1>1, <1>5, <2>1 DEF Sound
<1>6. CASE q' = Idle /\ running' = Abandoned /\ shifted' = FALSE
    <2>1. Idle \in Queue /\ Idle.index = -1
        BY EmptySeq DEF Idle, Queue
    <2> QED BY <1>1, <1>6, <2>1, AbandonedTyped DEF Sound
<1> QED BY <1>3, <1>4, <1>5, <1>6 DEF Perform

-----------------------------------------------------------------------------
(* The steps of NodeQueue keep the types.                                  *)

(* A click is about some nodes.                                            *)
LEMMA SelectionsTyped ==
    ASSUME NEW S \in Selections
    PROVE  S \subseteq Nodes /\ S # {}
BY RelationsOfNodes

(* The idle queue.                                                         *)
LEMMA IdleSound == Sound(Idle)
BY EmptySeq DEF Idle, Sound, Queue

(* What is appended to the queue leaves it sound.                          *)
LEMMA ItemsAppended ==
    ASSUME NEW u, Sound(u), NEW kind \in Kinds, NEW list \in Seq(Nodes),
           NEW v, v = Update(u, Items(kind, list))
    PROVE  Sound(v) /\ Items(kind, list) \in Seq(QueueItem)
<1>1. Items(kind, list) \in Seq(QueueItem)
    BY ItemsTyped
<1> QED BY <1>1, UpdateQueue

(* The STOPs and the timer of a stop.                                      *)
LEMMA StopTyped ==
    ASSUME TypeInv, NEW S \in Selections, Stop(S)
    PROVE  /\ Sound(q)' /\ pendingKill' \in Seq(Nodes) /\ killTimers' \subseteq Timer
           /\ ToStop(S) \in Seq(Nodes) /\ Range(ToStop(S)) \subseteq Nodes
<1> DEFINE list == ToStop(S)
           timed == Range(list) \cap Timed
<1>1. list \in Seq(Nodes) /\ Range(list) \subseteq Nodes
    BY SelectionsTyped, ToStopTyped, RangeOfSeq
<1> HIDE DEF list
<1>2. q' = Update(q, Items("STOP", list)) /\ Sound(q)
    BY DEF Stop, TypeInv, list
<1>3. Sound(q')
    BY <1>1, <1>2, ItemsAppended DEF Kinds
<1>4. timed \subseteq Nodes
    BY <1>1
<1>5. SetToSeq(timed) \in Seq(Nodes)
    BY <1>4, NodesFinite
<1>6. pendingKill \in Seq(Nodes) /\ killTimers \subseteq Timer /\ clicks \in Nat /\ known \subseteq Nodes
    BY DEF TypeInv
<1>7. pendingKill \o SetToSeq(timed) \in Seq(Nodes)
    BY <1>5, <1>6, ConcatProperties
<1>8. [id |-> clicks, nodes |-> timed, view |-> known] \in Timer
    BY <1>4, <1>6 DEF Timer
<1>9. \/ UNCHANGED <<pendingKill, killTimers>>
      \/ /\ pendingKill' = pendingKill \o SetToSeq(timed)
         /\ killTimers' = killTimers \cup {[id |-> clicks, nodes |-> timed, view |-> known]}
    BY DEF Stop, list
<1> HIDE DEF timed
<1>10. pendingKill' \in Seq(Nodes) /\ killTimers' \subseteq Timer
    BY <1>6, <1>7, <1>8, <1>9
<1>11. Sound(q)'
    BY <1>3 DEF Sound
<1> QED BY <1>1, <1>10, <1>11 DEF list

(* What every click changes.                                               *)
LEMMA ClickTyped ==
    ASSUME TypeInv, Click
    PROVE  clicks' \in Nat /\ sync' \in BOOLEAN /\ dirty' \in BOOLEAN
BY DEF Click, TypeInv

(* One lemma for each action; a restart that waits always has nodes.       *)
LEMMA StartTyped ==
    ASSUME TypeInv, NEW S \in Selections, StartClicked(S)
    PROVE  TypeInv'
<1>1. S \subseteq Nodes
    BY SelectionsTyped
<1>2. clicks' \in Nat /\ sync' \in BOOLEAN /\ dirty' \in BOOLEAN
    BY ClickTyped DEF StartClicked
<1>3. pendingKill' \in Seq(Nodes)
    <2>1. Without(pendingKill, S) \in Seq(Nodes \ S)
        BY WithoutTyped DEF TypeInv
    <2>2. Without(pendingKill, S) \in Seq(Nodes)
        BY <2>1, SeqMonotonic
    <2> QED BY <2>2 DEF StartClicked, WithoutPendingKill
<1>4. batch' \in Seq(Nodes)
    <2>1. ToStart(q, S, FALSE) \in Seq(Nodes)
        BY <1>1, ToStartTyped
    <2>2. batch \in Seq(Nodes)
        BY DEF TypeInv
    <2>3. batch' = batch \/ batch' = ToStart(q, S, FALSE)
        BY DEF StartClicked
    <2> QED BY <2>1, <2>2, <2>3
<1>5. restart' = NoRestart \/ restart' \in Waiting
    <2>1. CASE restart = NoRestart \/ restart.nodes \subseteq S
        BY <2>1 DEF StartClicked, DropFromRestart
    <2>2. CASE ~(restart = NoRestart \/ restart.nodes \subseteq S)
        <3>1. restart \in Waiting
            BY <2>2 DEF TypeInv
        <3>2. restart' = [restart EXCEPT !.nodes = @ \ S]
            BY <2>2 DEF StartClicked, DropFromRestart
        <3>3. restart.nodes \ S \in (SUBSET Nodes) \ {{}}
            BY <2>2, <3>1 DEF Waiting
        <3> QED BY <3>1, <3>2, <3>3 DEF Waiting
    <2> QED BY <2>1, <2>2
<1> QED BY <1>2, <1>3, <1>4, <1>5 DEF TypeInv, StartClicked, Sound

LEMMA StopClickTyped ==
    ASSUME TypeInv, NEW S \in Selections, StopClicked(S)
    PROVE  TypeInv'
<1>1. Sound(q)' /\ pendingKill' \in Seq(Nodes) /\ killTimers' \subseteq Timer
    BY StopTyped DEF StopClicked
<1>2. clicks' \in Nat /\ sync' \in BOOLEAN /\ dirty' \in BOOLEAN
    BY ClickTyped DEF StopClicked
<1> QED BY <1>1, <1>2 DEF TypeInv, StopClicked

LEMMA RestartTyped ==
    ASSUME TypeInv, NEW S \in Selections, RestartClicked(S)
    PROVE  TypeInv'
<1>1. Sound(q)' /\ pendingKill' \in Seq(Nodes) /\ killTimers' \subseteq Timer
    BY StopTyped DEF RestartClicked
<1>2. clicks' \in Nat /\ sync' \in BOOLEAN /\ dirty' \in BOOLEAN
    BY ClickTyped DEF RestartClicked
<1> DEFINE mine == {t.id : t \in killTimers' \ killTimers}
           old == IF restart = NoRestart THEN [nodes |-> {}, after |-> {}] ELSE restart
<1>3. mine \subseteq Nat
    BY <1>1 DEF Timer
<1>4. old.nodes \subseteq Nodes /\ old.after \subseteq Nat
    BY DEF TypeInv, Waiting
<1>5. restart' = [nodes |-> old.nodes \cup S, after |-> old.after \cup mine, killTried |-> FALSE]
    BY DEF RestartClicked
<1>6. S \subseteq Nodes /\ S # {}
    BY SelectionsTyped
<1> HIDE DEF mine, old
<1>7. restart' \in Waiting
    BY <1>3, <1>4, <1>5, <1>6 DEF Waiting
<1> QED BY <1>1, <1>2, <1>7 DEF TypeInv, RestartClicked

LEMMA KillTyped ==
    ASSUME TypeInv, NEW S \in Selections, NEW event \in BOOLEAN, KillClicked(S, event)
    PROVE  TypeInv'
<1> DEFINE N == {n \in S : event \/ ~IsQueued(q, "KILL", n)}
<1>1. N \subseteq Nodes
    BY SelectionsTyped
<1> HIDE DEF N
<1>2. SetToSeq(N) \in Seq(Nodes)
    BY <1>1, NodesFinite
<1>3. q' = Update(q, Items("KILL", SetToSeq(N))) /\ Sound(q)
    BY DEF KillClicked, N, TypeInv
<1>4. Sound(q')
    BY <1>2, <1>3, ItemsAppended DEF Kinds
<1>5. clicks' \in Nat /\ sync' \in BOOLEAN /\ dirty' \in BOOLEAN
    BY ClickTyped DEF KillClicked
<1> QED BY <1>4, <1>5 DEF TypeInv, KillClicked, Sound

LEMMA AbortTyped ==
    ASSUME TypeInv, Abort
    PROVE  TypeInv'
<1>1. Sound(q') /\ running' \in Seq(Handler)
    BY IdleSound, AbandonedTyped DEF Abort, TypeInv
<1>2. clicks' \in Nat /\ sync' \in BOOLEAN /\ dirty' \in BOOLEAN
    BY ClickTyped DEF Abort
<1>3. pendingKill' \in Seq(Nodes) /\ killTimers' \subseteq Timer /\ restart' = NoRestart
    BY EmptySeq DEF Abort
<1> QED BY <1>1, <1>2, <1>3 DEF TypeInv, Abort, Sound

LEMMA RenderTyped ==
    ASSUME TypeInv, Render
    PROVE  TypeInv'
<1>1. shown' \in Nat \cup {-1}
    BY DEF TypeInv, Render, Sound, Queue
<1> QED BY <1>1 DEF TypeInv, Render, Sound

(* The queue with the nodes to be started, and with those to be killed.    *)
LEMMA BatchedSound ==
    ASSUME TypeInv
    PROVE  Sound(Batched) /\ Items("START", batch) \in Seq(QueueItem)
<1>1. batch \in Seq(Nodes) /\ Sound(q) /\ Batched = Update(q, Items("START", batch))
    BY DEF TypeInv, Batched
<1> QED BY <1>1, ItemsAppended DEF Kinds

LEMMA KillsSound ==
    ASSUME TypeInv, restart # NoRestart, NEW v,
           v = Update(Batched, Items("KILL", SetToSeq(StillAlive)))
    PROVE  Sound(v) /\ Items("KILL", SetToSeq(StillAlive)) \in Seq(QueueItem)
<1>1. StillAlive \subseteq Nodes
    BY DEF TypeInv, Waiting, StillAlive
<1>2. SetToSeq(StillAlive) \in Seq(Nodes)
    BY <1>1, NodesFinite
<1> QED BY <1>2, BatchedSound, ItemsAppended DEF Kinds

(* The effects run.                                                        *)
LEMMA RunTyped ==
    ASSUME TypeInv, RunEffects
    PROVE  TypeInv'
<1>1. /\ effects' \in BOOLEAN /\ sync' \in BOOLEAN /\ dirty' \in BOOLEAN
    BY DEF RunEffects, TypeInv
<1>2. UNCHANGED <<alive, known, killTimers, shown, clicks>>
    BY DEF RunEffects
<1>3. CASE /\ batch' = <<>> /\ Perform(Batched)
           /\ UNCHANGED <<restart, pendingKill, startedSince>>
    <2>1. Sound(q)' /\ running' \in Seq(Handler) /\ shifted' \in BOOLEAN
        BY <1>3, BatchedSound, PerformTyped
    <2>2. batch' \in Seq(Nodes)
        BY <1>3, EmptySeq
    <2> QED BY <1>1, <1>2, <1>3, <2>1, <2>2 DEF TypeInv
<1>4. CASE /\ RestartDue /\ pendingKill' = Without(pendingKill, restart.nodes)
           /\ StillAlive # {}
           /\ restart' = [restart EXCEPT !.killTried = TRUE, !.after = {}]
           /\ batch' = <<>>
           /\ Perform(Update(Batched, Items("KILL", SetToSeq(StillAlive))))
    <2>1. restart # NoRestart /\ restart \in Waiting
        BY <1>4 DEF RestartDue, TypeInv
    <2>2. Sound(q)' /\ running' \in Seq(Handler) /\ shifted' \in BOOLEAN
        BY <1>4, <2>1, KillsSound, PerformTyped
    <2>3. Without(pendingKill, restart.nodes) \in Seq(Nodes \ restart.nodes)
        BY WithoutTyped DEF TypeInv
    <2>4. pendingKill' \in Seq(Nodes)
        BY <1>4, <2>3, SeqMonotonic
    <2>5. restart' \in Waiting
        BY <1>4, <2>1 DEF Waiting
    <2>6. batch' \in Seq(Nodes)
        BY <1>4, EmptySeq
    <2> QED BY <1>1, <1>2, <2>2, <2>4, <2>5, <2>6 DEF TypeInv
<1>5. CASE /\ RestartDue /\ pendingKill' = Without(pendingKill, restart.nodes)
           /\ restart' = NoRestart
           /\ batch' = ToStart(Batched, restart.nodes, TRUE)
           /\ Perform(Batched)
    <2>1. restart \in Waiting
        BY <1>5 DEF RestartDue, TypeInv
    <2>2. Sound(q)' /\ running' \in Seq(Handler) /\ shifted' \in BOOLEAN
        BY <1>5, BatchedSound, PerformTyped
    <2>3. Without(pendingKill, restart.nodes) \in Seq(Nodes \ restart.nodes)
        BY WithoutTyped DEF TypeInv
    <2>4. pendingKill' \in Seq(Nodes)
        BY <1>5, <2>3, SeqMonotonic
    <2>5. restart.nodes \subseteq Nodes
        BY <2>1 DEF Waiting
    <2>6. batch' \in Seq(Nodes)
        BY <1>5, <2>5, ToStartTyped
    <2> QED BY <1>1, <1>2, <1>5, <2>2, <2>4, <2>6 DEF TypeInv
<1> QED BY <1>3, <1>4, <1>5 DEF RunEffects

(* A handler is about an item of the queue.                                *)
LEMMA HandlerItem ==
    ASSUME running \in Seq(Handler), NEW k \in DOMAIN running
    PROVE  running[k] \in Handler /\ running[k].item \in QueueItem
<1>1. running[k] \in Handler
    BY ElementOfSeq, LenProperties
<1> QED BY <1>1 DEF Handler

(* A handler reports.                                                      *)
LEMMA DoneTyped ==
    ASSUME TypeInv, NEW k \in DOMAIN running, Done(k)
    PROVE  TypeInv'
<1>1. running \in Seq(Handler) /\ Sound(q) /\ alive \subseteq Nodes
    BY DEF TypeInv
<1>2. running[k] \in Handler /\ running[k].item \in QueueItem
    BY <1>1, HandlerItem
<1>3. running' = RemoveAt(running, k) /\ q' = AddStatus(q, running[k].item)
    BY DEF Done
<1>4. running' \in Seq(Handler)
    BY <1>1, <1>3, RemovedTyped
<1>5. Sound(q')
    BY <1>1, <1>2, <1>3, StatusQueue
<1>6. alive' \subseteq Nodes
    <2>1. running[k].item.node \in Nodes
        BY <1>2 DEF QueueItem
    <2> QED BY <1>1, <2>1 DEF Done
<1>7. dirty' \in BOOLEAN /\ shifted' \in BOOLEAN
    <2>1. running[k].old \in BOOLEAN
        BY <1>2 DEF Handler
    <2>2. dirty' = (dirty \/ q' # q) /\ shifted' = (shifted \/ (running[k].old /\ q' # q))
        BY DEF Done
    <2> QED BY <2>1, <2>2 DEF TypeInv
<1>8. UNCHANGED <<known, pendingKill, killTimers, restart, batch, shown, lastKey,
                  effects, sync, clicks, startedSince>>
    BY DEF Done
<1>9. Sound(q)'
    BY <1>5 DEF Sound
<1> QED BY <1>4, <1>6, <1>7, <1>8, <1>9 DEF TypeInv

(* A timer fires.                                                          *)
LEMMA TimerTyped ==
    ASSUME TypeInv, NEW t \in killTimers, TimerFires(t)
    PROVE  TypeInv'
<1>1. pendingKill \in Seq(Nodes) /\ Sound(q)
    BY DEF TypeInv
<1>2. ToKill(t) \in Seq(Nodes)
    BY <1>1, ToKillTyped
<1>3. q' = Update(q, Items("KILL", ToKill(t)))
    BY DEF TimerFires
<1>4. Sound(q')
    BY <1>1, <1>2, <1>3, ItemsAppended DEF Kinds
<1>5. Without(pendingKill, t.nodes) \in Seq(Nodes \ t.nodes)
    BY <1>1, WithoutTyped
<1>6. pendingKill' \in Seq(Nodes)
    BY <1>5, SeqMonotonic DEF TimerFires
<1>7. dirty' \in BOOLEAN /\ killTimers' \subseteq Timer
    BY DEF TimerFires, TypeInv
<1>8. Sound(q)'
    BY <1>4 DEF Sound
<1> QED BY <1>6, <1>7, <1>8 DEF TypeInv, TimerFires

(* Every step keeps the types.                                             *)
LEMMA QueueTypeStep == TypeInv /\ [Next]_vars => TypeInv'
<1> SUFFICES ASSUME TypeInv, [Next]_vars PROVE TypeInv'
    OBVIOUS
<1>1. ASSUME NEW S \in Selections, StartClicked(S) PROVE TypeInv'
    BY <1>1, StartTyped
<1>2. ASSUME NEW S \in Selections, StopClicked(S) PROVE TypeInv'
    BY <1>2, StopClickTyped
<1>3. ASSUME NEW S \in Selections, RestartClicked(S) PROVE TypeInv'
    BY <1>3, RestartTyped
<1>4. ASSUME NEW S \in Selections, NEW event \in BOOLEAN, KillClicked(S, event) PROVE TypeInv'
    BY <1>4, KillTyped
<1>5. CASE Abort
    BY <1>5, AbortTyped
<1>6. CASE Render
    BY <1>6, RenderTyped
<1>7. CASE RunEffects
    BY <1>7, RunTyped
<1>8. ASSUME NEW k \in DOMAIN running, Done(k) PROVE TypeInv'
    BY <1>8, DoneTyped
<1>9. ASSUME NEW t \in killTimers, TimerFires(t) PROVE TypeInv'
    BY <1>9, TimerTyped
<1>10. CASE AlarmRings
    BY <1>10 DEF AlarmRings, TypeInv, Sound
<1>11. CASE Refresh
    BY <1>11 DEF Refresh, TypeInv, Sound
<1>12. CASE UNCHANGED vars
    BY <1>12 DEF vars, TypeInv, Sound
<1> QED BY <1>1, <1>2, <1>3, <1>4, <1>5, <1>6, <1>7, <1>8, <1>9, <1>10, <1>11, <1>12
        DEF Next, HandlerDone, KillTimer

(* The panel is opened.                                                    *)
LEMMA QueueTypeInit == Init => TypeInv
<1> SUFFICES ASSUME Init PROVE TypeInv
    OBVIOUS
<1>1. Sound(q)
    BY IdleSound DEF Init
<1>2. running \in Seq(Handler) /\ pendingKill \in Seq(Nodes) /\ batch \in Seq(Nodes)
    BY EmptySeq DEF Init
<1>3. alive \subseteq Nodes /\ known \subseteq Nodes
    BY RelationsOfNodes DEF Init
<1> QED BY <1>1, <1>2, <1>3 DEF Init, TypeInv

(* The types hold throughout.                                              *)
LEMMA QueueTypeInv == Spec => []TypeInv
BY QueueTypeInit, QueueTypeStep, PTL DEF Spec

(* For any nodes and relations between them, every variable of the node list
   keeps its type: the queue is about nodes only, its status never runs ahead of
   its index, and a restart that waits is about at least one node. *)
THEOREM QueueTypeCorrect == Spec => []TypeOK
BY QueueTypeInv, TypeInvTypes, PTL

-----------------------------------------------------------------------------
(* What a SIGKILL timer may kill.                                          *)

(* A timer is older than the click to come.                                *)
Ids ==
    /\ \A t \in killTimers : t.id < clicks
    /\ \A s \in startedSince : s.timer \in Nat /\ s.timer < clicks

(* What waits for a SIGKILL was not started since the stop that armed the  *)
(* timer, or a later stop has armed a timer for it.                        *)
Withdrawn ==
    \A t \in killTimers : \A n \in t.nodes \cap Range(pendingKill) :
      \/ [timer |-> t.id, node |-> n] \notin startedSince
      \/ \E later \in killTimers : later.id > t.id /\ n \in later.nodes

KillInv == TypeInv /\ Ids /\ Withdrawn

(* What is withdrawn waits no more.                                        *)
LEMMA PendingWithout ==
    ASSUME TypeInv, NEW S
    PROVE  Range(Without(pendingKill, S)) \subseteq Range(pendingKill) \ S
<1>1. pendingKill \in Seq(Nodes) /\ pendingKill \in Seq(Range(pendingKill))
    BY SeqOfRange DEF TypeInv
<1>2. Without(pendingKill, S) \in Seq(Range(pendingKill) \ S)
    BY <1>1, WithoutTyped
<1> QED BY <1>2, RangeOfSeq

(* What is started is withdrawn from what waits for a SIGKILL.             *)
LEMMA StartWithdraws ==
    ASSUME KillInv, NEW S, pendingKill' = Without(pendingKill, S),
           startedSince' = NowStarted(S) \/ startedSince' = startedSince,
           killTimers' = killTimers, clicks' \in Nat, clicks <= clicks'
    PROVE  Ids' /\ Withdrawn'
<1>1. Range(pendingKill') \subseteq Range(pendingKill) \ S
    BY PendingWithout DEF KillInv
<1>2. \A t \in killTimers : t.id \in Nat
    BY DEF KillInv, TypeInv, Timer
<1>3. \A s \in startedSince' : s \in startedSince \/ \E t \in killTimers : s.timer = t.id /\ s.node \in S
    BY DEF NowStarted
<1>4. clicks \in Nat
    BY DEF KillInv, TypeInv
<1>5. Ids'
    BY <1>2, <1>3, <1>4 DEF Ids, KillInv
<1>6. Withdrawn'
    <2> SUFFICES ASSUME NEW t \in killTimers, NEW n \in t.nodes \cap Range(pendingKill')
        PROVE \/ [timer |-> t.id, node |-> n] \notin startedSince'
              \/ \E later \in killTimers : later.id > t.id /\ n \in later.nodes
        BY DEF Withdrawn
    <2>1. n \in Range(pendingKill) /\ n \notin S
        BY <1>1
    <2>2. [timer |-> t.id, node |-> n] \in startedSince' => [timer |-> t.id, node |-> n] \in startedSince
        BY <1>3, <2>1
    <2> QED BY <2>1, <2>2 DEF KillInv, Withdrawn
<1> QED BY <1>5, <1>6

(* A stop arms a timer later than all others.                              *)
LEMMA StopArms ==
    ASSUME KillInv, NEW S \in Selections, Click, Stop(S), startedSince' = startedSince
    PROVE  Ids' /\ Withdrawn'
<1> DEFINE timed == Range(ToStop(S)) \cap Timed
           new == [id |-> clicks, nodes |-> timed, view |-> known]
<1>1. /\ clicks \in Nat /\ clicks' = clicks + 1
      /\ \A t \in killTimers : t.id \in Nat /\ t.id < clicks
    BY DEF KillInv, TypeInv, Ids, Timer, Click
<1>2. timed \subseteq Nodes
    BY StopTyped DEF KillInv
<1>3. CASE UNCHANGED <<pendingKill, killTimers>>
    BY <1>1, <1>3 DEF KillInv, Ids, Withdrawn
<1>4. CASE /\ pendingKill' = pendingKill \o SetToSeq(timed)
           /\ killTimers' = killTimers \cup {new}
    <2> HIDE DEF timed
    <2>1. SetToSeq(timed) \in Seq(timed) /\ SetToSeq(timed) \in Seq(Nodes)
        BY <1>2, NodesFinite, SetToSeqTyped
    <2>2. pendingKill \in Seq(Nodes)
        BY DEF KillInv, TypeInv
    <2>3. Range(pendingKill') = Range(pendingKill) \cup Range(SetToSeq(timed))
        BY <1>4, <2>1, <2>2, RangeConcatenation
    <2>4. Range(SetToSeq(timed)) \subseteq timed
        BY <2>1, RangeOfSeq
    <2>5. Range(pendingKill') \subseteq Range(pendingKill) \cup timed
        BY <2>3, <2>4
    <2>6. Ids'
        BY <1>1, <1>4 DEF Ids, KillInv
    <2>7. Withdrawn'
        <3> SUFFICES ASSUME NEW t \in killTimers', NEW n \in t.nodes \cap Range(pendingKill')
            PROVE \/ [timer |-> t.id, node |-> n] \notin startedSince
                  \/ \E later \in killTimers' : later.id > t.id /\ n \in later.nodes
            BY DEF Withdrawn
        <3>1. CASE t = new
            <4>1. \A s \in startedSince : s.timer < clicks
                BY DEF KillInv, Ids
            <4>2. [timer |-> t.id, node |-> n].timer = clicks
                BY <3>1
            <4> QED BY <1>1, <4>1, <4>2
        <3>2. CASE t \in killTimers /\ n \in timed
            <4>1. new.id > t.id /\ n \in new.nodes /\ new \in killTimers'
                BY <1>1, <1>4, <3>2
            <4> QED BY <4>1
        <3>3. CASE t \in killTimers /\ n \notin timed
            <4>1. n \in Range(pendingKill)
                BY <2>5, <3>3
            <4>2. \/ [timer |-> t.id, node |-> n] \notin startedSince
                  \/ \E later \in killTimers : later.id > t.id /\ n \in later.nodes
                BY <3>3, <4>1 DEF KillInv, Withdrawn
            <4> QED BY <1>4, <4>2
        <3> QED BY <1>4, <3>1, <3>2, <3>3
    <2> QED BY <2>6, <2>7
<1> QED BY <1>3, <1>4 DEF Stop

(* A timer that fires withdraws what it is about.                          *)
LEMMA TimerWithdraws ==
    ASSUME KillInv, NEW t \in killTimers, TimerFires(t)
    PROVE  Ids' /\ Withdrawn'
<1>1. Range(pendingKill') \subseteq Range(pendingKill) \ t.nodes
    BY PendingWithout DEF KillInv, TimerFires
<1>2. killTimers' = killTimers \ {t} /\ startedSince' = startedSince /\ clicks' = clicks
    BY DEF TimerFires
<1>3. Ids'
    BY <1>2 DEF KillInv, Ids
<1>4. Withdrawn'
    <2> SUFFICES ASSUME NEW u \in killTimers', NEW n \in u.nodes \cap Range(pendingKill')
        PROVE \/ [timer |-> u.id, node |-> n] \notin startedSince
              \/ \E later \in killTimers' : later.id > u.id /\ n \in later.nodes
        BY <1>2 DEF Withdrawn
    <2>1. u \in killTimers /\ n \in Range(pendingKill) /\ n \notin t.nodes
        BY <1>1, <1>2
    <2>2. \/ [timer |-> u.id, node |-> n] \notin startedSince
          \/ \E later \in killTimers : later.id > u.id /\ n \in later.nodes
        BY <2>1 DEF KillInv, Withdrawn
    <2> QED BY <1>2, <2>1, <2>2
<1> QED BY <1>3, <1>4

(* No step lets a timer kill what was started since its stop.              *)
LEMMA KillStep == KillInv /\ [Next]_vars => KillInv'
<1> SUFFICES ASSUME KillInv, [Next]_vars PROVE Ids' /\ Withdrawn'
    BY QueueTypeStep DEF KillInv
<1>1. clicks \in Nat
    BY DEF KillInv, TypeInv
<1>2. ASSUME NEW S \in Selections, StartClicked(S) PROVE Ids' /\ Withdrawn'
    <2>1. /\ pendingKill' = Without(pendingKill, S) /\ startedSince' = NowStarted(S)
          /\ killTimers' = killTimers /\ clicks' \in Nat /\ clicks <= clicks'
        BY <1>1, <1>2 DEF StartClicked, WithoutPendingKill, Click
    <2> QED BY <2>1, StartWithdraws
<1>3. ASSUME NEW S \in Selections, StopClicked(S) PROVE Ids' /\ Withdrawn'
    BY <1>3, StopArms DEF StopClicked
<1>4. ASSUME NEW S \in Selections, RestartClicked(S) PROVE Ids' /\ Withdrawn'
    BY <1>4, StopArms DEF RestartClicked
<1>5. CASE Abort
    <2>1. killTimers' = {} /\ startedSince' = startedSince /\ clicks' = clicks + 1
        BY <1>5 DEF Abort, Click
    <2>2. \A s \in startedSince : s.timer \in Nat /\ s.timer < clicks
        BY DEF KillInv, Ids
    <2>3. Ids'
        BY <1>1, <2>1, <2>2 DEF Ids
    <2> QED BY <2>1, <2>3 DEF Withdrawn
<1>6. CASE RunEffects
    <2>1. killTimers' = killTimers /\ clicks' = clicks
        BY <1>6 DEF RunEffects
    <2>2. CASE UNCHANGED <<pendingKill, startedSince>>
        BY <2>1, <2>2 DEF KillInv, Ids, Withdrawn
    <2>3. CASE /\ pendingKill' = Without(pendingKill, restart.nodes)
               /\ startedSince' = NowStarted(restart.nodes) \/ startedSince' = startedSince
        BY <1>1, <2>1, <2>3, StartWithdraws
    <2> QED BY <1>6, <2>2, <2>3 DEF RunEffects
<1>7. ASSUME NEW t \in killTimers, TimerFires(t) PROVE Ids' /\ Withdrawn'
    BY <1>7, TimerWithdraws
<1>8. ASSUME \/ \E S \in Selections : \E event \in BOOLEAN : KillClicked(S, event)
             \/ Render \/ HandlerDone \/ AlarmRings \/ Refresh \/ UNCHANGED vars
      PROVE  Ids' /\ Withdrawn'
    <2>1. UNCHANGED <<pendingKill, killTimers, startedSince>> /\ clicks' \in {clicks, clicks + 1}
        BY <1>8 DEF KillClicked, Click, Render, HandlerDone, Done, AlarmRings, Refresh, vars
    <2>2. \A t \in killTimers : t.id \in Nat
        BY DEF KillInv, TypeInv, Timer
    <2>3. Ids'
        BY <1>1, <2>1, <2>2 DEF KillInv, Ids
    <2> QED BY <2>1, <2>3 DEF KillInv, Withdrawn
<1> QED BY <1>2, <1>3, <1>4, <1>5, <1>6, <1>7, <1>8 DEF Next, KillTimer

(* There are no timers at first.                                           *)
LEMMA KillInit == Init => KillInv
BY QueueTypeInit DEF Init, KillInv, Ids, Withdrawn

(* This invariant holds throughout.                                        *)
LEMMA KillInductive == Spec => []KillInv
BY KillInit, KillStep, PTL DEF Spec

(* What a timer kills.                                                     *)
LEMMA KillsWithdrawn ==
    ASSUME KillInv, NEW t \in killTimers, NEW n \in Range(ToKill(t))
    PROVE  \/ [timer |-> t.id, node |-> n] \notin startedSince
           \/ \E later \in killTimers : later.id > t.id /\ n \in later.nodes
<1>1. n \in t.nodes \cap Range(pendingKill)
    BY ToKillTyped DEF KillInv, TypeInv
<1> QED BY <1>1 DEF KillInv, Withdrawn

(* For any nodes, clicks and delays: a SIGKILL timer (stopNodes) kills no  *)
(* node that was started since the stop that armed it, unless a later stop *)
(* armed another one, because a start removes its nodes from the pending   *)
(* kills (removePendingNodes, removePendingKill) and each timer kills only *)
(* what is pending.                                                        *)
THEOREM RestartedIsSafe == Spec => StartWithdrawsKill
<1>1. KillInv => \A t \in killTimers \ killTimers' : TimerFires(t) =>
           \A n \in Range(ToKill(t)) :
             \/ [timer |-> t.id, node |-> n] \notin startedSince
             \/ \E later \in killTimers : later.id > t.id /\ n \in later.nodes
    BY KillsWithdrawn
<1> QED BY <1>1, KillInductive, PTL DEF StartWithdrawsKill

-----------------------------------------------------------------------------
(* The order in which the queue is worked off.                             *)

(* What is asked of the queue u unless a late status has shifted it.       *)
Orderly(u) == InOrder(u) /\ Current(u) /\ (effects => Rendered(u))

(* Items are appended while no handler is begun.                           *)
LEMMA AppendKeeps ==
    ASSUME TypeInv, QueueInv, NEW list \in Seq(QueueItem), q' = Update(q, list),
           UNCHANGED <<running, shown, lastKey, effects, shifted>>
    PROVE  QueueInv'
<1> SUFFICES ASSUME ~shifted PROVE InOrder(q)' /\ Current(q)' /\ (effects => Rendered(q)')
    BY DEF QueueInv
<1>1. InOrder(q) /\ Current(q) /\ (effects => Rendered(q)) /\ Sound(q) /\ shown \in Nat \cup {-1}
    BY DEF QueueInv, TypeInv
<1>2. InOrder(q') /\ Current(q') /\ (Rendered(q) => Rendered(q'))
    BY <1>1, UpdateKeeps
<1> QED BY <1>1, <1>2 DEF InOrder, Current, Rendered

(* An idle queue, after clear().                                           *)
LEMMA ClearKeeps ==
    ASSUME TypeInv, q' = Idle, running' = Abandoned, effects' = FALSE
    PROVE  QueueInv'
<1>1. \A k \in DOMAIN running' : running'[k].old
    BY AbandonedTyped DEF TypeInv
<1>2. InOrder(q)'
    BY DEF InOrder, Idle
<1>3. Current(q)'
    BY <1>1 DEF Current
<1> QED BY <1>2, <1>3 DEF QueueInv

(* The effect performs the current item once.                              *)
LEMMA PerformKeeps ==
    ASSUME TypeInv, NEW u, Sound(u),
           ~shifted => InOrder(u) /\ Current(u) /\ Rendered(u),
           Perform(u), shown' = shown, effects' = FALSE
    PROVE  QueueInv'
<1> DEFINE item == GetAt(u, shown)
<1>1. running \in Seq(Handler) /\ shown \in Nat \cup {-1} /\ shown \in Int
    BY DEF TypeInv
<1>2. /\ u.items \in Seq(QueueItem) /\ Len(u.items) \in Nat /\ u.index \in Nat \cup {-1}
    BY LenProperties DEF Sound, Queue
<1>3. lastKey' = <<shown, item>>
    BY DEF Perform, Key
<1>4. CASE q' = u /\ UNCHANGED <<running, shifted>>
    <2> SUFFICES ASSUME ~shifted PROVE InOrder(q)' /\ Current(q)'
        BY <1>4 DEF QueueInv
    <2>1. InOrder(q)'
        BY <1>4 DEF InOrder
    <2>2. Current(q)'
        BY <1>3, <1>4 DEF Current
    <2> QED BY <2>1, <2>2
<1>5. CASE shown >= 0 /\ item # NoItem /\ IsNew(u) /\ shifted' = shifted
           /\ \/ /\ q' = u
                 /\ running' = Append(running, [item |-> item, index |-> shown, old |-> FALSE])
              \/ /\ q' = AddStatus(u, item)
                 /\ running' = running
    <2> SUFFICES ASSUME ~shifted PROVE InOrder(q)' /\ Current(q)'
        BY <1>5 DEF QueueInv
    <2>1. lastKey # <<shown, item>>
        BY <1>5 DEF IsNew, Key
    <2>2. shown = u.index
        BY <1>1, <1>5, <2>1 DEF Rendered
    <2>3. u.index \in 0 .. Len(u.items) - 1
        BY <1>2, <1>5, <2>2 DEF GetAt
    <2>4. \A k \in DOMAIN running : running[k].old
        BY <2>1, <2>2 DEF Current
    <2>5. CASE /\ q' = u
               /\ running' = Append(running, [item |-> item, index |-> shown, old |-> FALSE])
        <3> DEFINE h == [item |-> item, index |-> shown, old |-> FALSE]
        <3>1. h \in Handler
            <4>1. item \in QueueItem
                BY <1>2, <2>2, <2>3, ElementOfSeq DEF GetAt
            <4> QED BY <1>2, <2>2, <2>3, <4>1 DEF Handler
        <3>2. h.item = item /\ h.index = shown /\ h.old = FALSE
            OBVIOUS
        <3> HIDE DEF h
        <3>3. /\ DOMAIN running = 1..Len(running) /\ Len(running) \in Nat
              /\ DOMAIN running' = 1..Len(running) + 1
              /\ \A k \in 1..Len(running) : running'[k] = running[k]
              /\ running'[Len(running) + 1] = h
            <4>1. running' = Append(running, h)
                BY <2>5 DEF h
            <4>2. /\ running' \in Seq(Handler) /\ Len(running') = Len(running) + 1
                  /\ \A k \in 1..Len(running) : running'[k] = running[k]
                  /\ running'[Len(running) + 1] = h
                BY <1>1, <3>1, <4>1, AppendProperties
            <4>3. DOMAIN running = 1..Len(running) /\ Len(running) \in Nat
                BY <1>1, LenProperties
            <4>4. DOMAIN running' = 1..Len(running')
                BY <4>2, LenProperties
            <4> QED BY <4>2, <4>3, <4>4
        <3>4. \A k \in DOMAIN running' : ~running'[k].old => k = Len(running) + 1
            BY <2>4, <3>3
        <3>5. InOrder(q)'
            BY <2>5 DEF InOrder
        <3>6. Current(q)'
            <4>1. \A k \in DOMAIN running' : ~running'[k].old => running'[k] = h
                BY <3>3, <3>4
            <4>2. \A j, k \in DOMAIN running' : ~running'[j].old /\ ~running'[k].old => j = k
                BY <3>4
            <4>3. lastKey' = <<u.index, GetAt(u, u.index)>> /\ item = GetAt(u, u.index)
                BY <1>3, <2>2
            <4> HIDE DEF item
            <4> QED BY <2>2, <2>3, <2>5, <3>2, <4>1, <4>2, <4>3 DEF Current
        <3> QED BY <3>5, <3>6
    <2>6. CASE q' = AddStatus(u, item) /\ running' = running
        <3>1. InOrder(q')
            BY <2>2, <2>3, <2>6, StatusInOrder
        <3>2. Current(q)'
            BY <2>4, <2>6 DEF Current
        <3> QED BY <3>1, <3>2 DEF InOrder
    <2> QED BY <1>5, <2>5, <2>6
<1>6. CASE q' = Idle /\ running' = Abandoned
    BY <1>6, ClearKeeps
<1> QED BY <1>4, <1>5, <1>6 DEF Perform

(* A handler reports.                                                      *)
LEMMA DoneKeeps ==
    ASSUME TypeInv, QueueInv, NEW k \in DOMAIN running, Done(k)
    PROVE  QueueInv'
<1> SUFFICES ASSUME ~shifted' PROVE InOrder(q)' /\ Current(q)' /\ (effects' => Rendered(q)')
    BY DEF QueueInv
<1> DEFINE h == running[k]
<1>1. /\ running' = RemoveAt(running, k) /\ q' = AddStatus(q, h.item)
      /\ UNCHANGED <<shown, lastKey, effects>>
      /\ shifted' = (shifted \/ (h.old /\ q' # q))
    BY DEF Done
<1>2. running \in Seq(Handler) /\ Sound(q)
    BY DEF TypeInv
<1>3. ~shifted /\ (h.old => q' = q)
    BY <1>1
<1>4. InOrder(q) /\ Current(q) /\ (effects => Rendered(q))
    BY <1>3 DEF QueueInv
<1>5. /\ DOMAIN running' = 1 .. Len(running) - 1
      /\ Len(running) \in Nat /\ DOMAIN running = 1..Len(running)
      /\ \A i \in DOMAIN running' : running'[i] = IF i < k THEN running[i] ELSE running[i + 1]
    BY <1>1, <1>2, RemovedTyped
<1> DEFINE before(i) == IF i < k THEN i ELSE i + 1
<1>6. \A i \in DOMAIN running' : before(i) \in DOMAIN running /\ before(i) # k
                                 /\ running'[i] = running[before(i)]
    BY <1>5
<1>7. \A i, j \in DOMAIN running' : before(i) = before(j) => i = j
    BY <1>5
<1> HIDE DEF before
<1>8. CASE h.old
    <2>1. q' = q
        BY <1>3, <1>8
    <2>2. InOrder(q)'
        BY <1>4, <2>1 DEF InOrder
    <2>3. Current(q)'
        BY <1>1, <1>4, <1>6, <1>7, <2>1 DEF Current
    <2>4. effects' => Rendered(q)'
        BY <1>1, <1>4, <2>1 DEF Rendered
    <2> QED BY <2>2, <2>3, <2>4
<1>9. CASE ~h.old
    <2>1. /\ shown = q.index /\ q.index \in 0 .. Len(q.items) - 1
          /\ h.item = GetAt(q, q.index) /\ lastKey = <<q.index, GetAt(q, q.index)>>
        BY <1>4, <1>9 DEF Current
    <2>2. InOrder(q') /\ h.item \in QueueItem
        BY <1>1, <1>2, <1>4, <2>1, StatusInOrder
    <2>3. \A i \in DOMAIN running' : running'[i].old
        BY <1>4, <1>6, <1>9 DEF Current
    <2>4. q.index \in Nat /\ q.index # -1
        BY <1>2, <2>1 DEF Sound, Queue
    <2>5. q'.index = q.index + 1 /\ q'.items = q.items
        BY <1>1, <1>2, <2>2, <2>4, StatusQueue
    <2>6. Rendered(q)'
        BY <1>1, <2>1, <2>4, <2>5 DEF Rendered, GetAt
    <2> QED BY <2>2, <2>3, <2>6 DEF InOrder, Current
<1> QED BY <1>8, <1>9

(* The effects run with the batch appended, and maybe the last kills.      *)
LEMMA RunKeeps ==
    ASSUME TypeInv, QueueInv, RunEffects
    PROVE  QueueInv'
<1>1. effects /\ effects' = FALSE /\ shown' = shown
    BY DEF RunEffects
<1>2. Sound(q) /\ shown \in Nat \cup {-1}
    BY DEF TypeInv
<1>3. Sound(Batched) /\ Items("START", batch) \in Seq(QueueItem)
    BY BatchedSound
<1>4. ~shifted => InOrder(Batched) /\ Current(Batched) /\ Rendered(Batched)
    <2> DEFINE v == Batched
    <2>1. v = Update(q, Items("START", batch))
        BY DEF Batched
    <2> HIDE DEF v
    <2>2. ~shifted => InOrder(q) /\ Current(q) /\ Rendered(q)
        BY <1>1 DEF QueueInv
    <2>3. ~shifted => InOrder(v) /\ Current(v) /\ Rendered(v)
        BY <1>2, <1>3, <2>1, <2>2, UpdateKeeps
    <2> QED BY <2>3 DEF v
<1>5. CASE Perform(Batched)
    BY <1>1, <1>3, <1>4, <1>5, PerformKeeps
<1>6. CASE restart # NoRestart /\ Perform(Update(Batched, Items("KILL", SetToSeq(StillAlive))))
    <2> DEFINE v == Update(Batched, Items("KILL", SetToSeq(StillAlive)))
    <2>1. Sound(v) /\ Items("KILL", SetToSeq(StillAlive)) \in Seq(QueueItem)
        BY <1>6, KillsSound
    <2>2. ~shifted => InOrder(v) /\ Current(v) /\ Rendered(v)
        BY <1>2, <1>3, <1>4, <2>1, UpdateKeeps
    <2>3. Perform(v)
        BY <1>6
    <2> HIDE DEF v
    <2> QED BY <1>1, <2>1, <2>2, <2>3, PerformKeeps
<1> QED BY <1>5, <1>6 DEF RunEffects, RestartDue

(* Every step keeps the order.                                             *)
LEMMA QueueStep == TypeInv /\ QueueInv /\ [Next]_vars => QueueInv'
<1> SUFFICES ASSUME TypeInv, QueueInv, [Next]_vars PROVE QueueInv'
    OBVIOUS
<1>1. ASSUME UNCHANGED <<q, running, shown, lastKey, effects, shifted>> PROVE QueueInv'
    BY <1>1 DEF QueueInv, InOrder, Current, Rendered
<1>2. ASSUME NEW S \in Selections, StartClicked(S) PROVE QueueInv'
    BY <1>1, <1>2 DEF StartClicked
<1>3. ASSUME NEW S \in Selections, StopClicked(S) \/ RestartClicked(S) PROVE QueueInv'
    <2>1. q' = Update(q, Items("STOP", ToStop(S))) /\ UNCHANGED <<running, shown, lastKey, effects, shifted>>
        BY <1>3 DEF StopClicked, RestartClicked, Stop
    <2>2. Items("STOP", ToStop(S)) \in Seq(QueueItem)
        BY SelectionsTyped, ToStopTyped, ItemsTyped DEF Kinds
    <2> QED BY <2>1, <2>2, AppendKeeps
<1>4. ASSUME NEW S \in Selections, NEW event \in BOOLEAN, KillClicked(S, event) PROVE QueueInv'
    <2> DEFINE N == {n \in S : event \/ ~IsQueued(q, "KILL", n)}
    <2>1. q' = Update(q, Items("KILL", SetToSeq(N))) /\ UNCHANGED <<running, shown, lastKey, effects, shifted>>
        BY <1>4 DEF KillClicked
    <2>2. N \subseteq Nodes
        BY SelectionsTyped
    <2> HIDE DEF N
    <2>3. Items("KILL", SetToSeq(N)) \in Seq(QueueItem)
        BY <2>2, NodesFinite, ItemsTyped DEF Kinds
    <2> QED BY <2>1, <2>3, AppendKeeps
<1>5. CASE Abort
    BY <1>5, ClearKeeps DEF Abort, Click, TypeInv
<1>6. CASE Render
    <2>1. shown' = q.index /\ UNCHANGED <<q, running, lastKey, shifted>>
        BY <1>6 DEF Render
    <2> QED BY <2>1 DEF QueueInv, InOrder, Current, Rendered
<1>7. CASE RunEffects
    BY <1>7, RunKeeps
<1>8. ASSUME NEW k \in DOMAIN running, Done(k) PROVE QueueInv'
    BY <1>8, DoneKeeps
<1>9. ASSUME NEW t \in killTimers, TimerFires(t) PROVE QueueInv'
    <2>1. q' = Update(q, Items("KILL", ToKill(t))) /\ UNCHANGED <<running, shown, lastKey, effects, shifted>>
        BY <1>9 DEF TimerFires
    <2>2. Items("KILL", ToKill(t)) \in Seq(QueueItem)
        BY ToKillTyped, ItemsTyped DEF Kinds, TypeInv
    <2> QED BY <2>1, <2>2, AppendKeeps
<1>10. CASE AlarmRings \/ Refresh \/ UNCHANGED vars
    BY <1>1, <1>10 DEF AlarmRings, Refresh, vars
<1> QED BY <1>2, <1>3, <1>4, <1>5, <1>6, <1>7, <1>8, <1>9, <1>10
        DEF Next, HandlerDone, KillTimer

(* The queue is idle at first.                                             *)
LEMMA QueueInit == Init => QueueInv
<1> SUFFICES ASSUME Init PROVE QueueInv
    OBVIOUS
<1>1. q = Idle /\ q.index = -1 /\ effects = FALSE /\ running = <<>>
    BY DEF Init, Idle
<1> QED BY <1>1 DEF QueueInv, InOrder, Current

(* This invariant holds throughout.                                        *)
LEMMA QueueInductive == Spec => [](TypeInv /\ QueueInv)
BY QueueTypeInit, QueueTypeStep, QueueInit, QueueStep, PTL DEF Spec

(* The invariant says what is to be shown.                                 *)
LEMMA OneByOne == TypeInv /\ QueueInv => OneAfterTheOther
<1> SUFFICES ASSUME TypeInv, QueueInv, q.index >= 0, ~shifted PROVE
    /\ q.results = SubSeq(q.items, 1, q.index)
    /\ \A j, k \in DOMAIN running :
         (~running[j].old /\ ~running[k].old) => j = k
    /\ \A k \in DOMAIN running :
         ~running[k].old => /\ running[k].index = q.index
                            /\ running[k].item = GetAt(q, q.index)
    BY DEF OneAfterTheOther
<1> QED BY DEF QueueInv, InOrder, Current

(* For any clicks, late renderings and answers in any order: unless the    *)
(* status of an abandoned item came in, the queue has the statuses of its  *)
(* first items in their order, and at most one handler works, on the current *)
(* item (useQueue, performQueueMain).                                      *)
THEOREM WorkedOffInOrder == Spec => []OneAfterTheOther
BY QueueInductive, OneByOne, PTL
=============================================================================
