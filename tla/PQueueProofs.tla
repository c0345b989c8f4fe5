---------------------------- MODULE PQueueProofs ----------------------------
(***************************************************************************)
(* Proofs about PQueue, for every number of producer threads, every        *)
(* maxsize and every set of messages.                                      *)
(***************************************************************************)
EXTENDS PQueue, FiniteSetTheorems, TLAPS

USE DEF Prios

(* The threads that passed the size check of priority p and did not append  *)
(* yet: the reason for every message above maxsize.                         *)
Pending(p) == {t \in Threads : putting[t] # Nothing /\ putting[t].prio = p}

CountsMatch ==
    /\ \A p \in Prios : counts[p] = Len(pq[p])
    /\ count = counts[0] + counts[1] + counts[2]

(* A message that is queued and a message that is checked share the room.   *)
RoomShared ==
    \A p \in Prios :
        Len(pq[p]) + Cardinality(Pending(p)) < MaxSize + Cardinality(Threads)

IInv == TypeOK /\ CountsMatch /\ RoomShared /\ NoLostWakeup

LEMMA ThreadsFinite == IsFiniteSet(Threads)
BY WorkersAssumption, FS_AddElement DEF Threads

(* A set of threads has a size, at most the number of threads. *)
LEMMA SizeOfThreads ==
    ASSUME NEW S \in SUBSET Threads
    PROVE  /\ IsFiniteSet(S)
           /\ Cardinality(S) \in Nat
           /\ Cardinality(Threads) \in Nat
           /\ Cardinality(S) <= Cardinality(Threads)
<1>1. IsFiniteSet(S) /\ Cardinality(S) <= Cardinality(Threads)
  BY ThreadsFinite, FS_Subset
<1>2. Cardinality(S) \in Nat
  BY <1>1, FS_CardinalityType
<1>3. Cardinality(Threads) \in Nat
  BY ThreadsFinite, FS_CardinalityType
<1> QED
  BY <1>1, <1>2, <1>3

LEMMA InitIInv == Init => IInv
<1> SUFFICES ASSUME Init PROVE IInv
  OBVIOUS
<1>1. TypeOK
  <2>1. pq \in [Prios -> Seq(Data)]
    BY DEF Init
  <2>2. counts \in [Prios -> Nat] /\ count \in Nat
    BY DEF Init
  <2>3. putting \in [Threads -> Item \cup {Nothing}]
    BY DEF Init
  <2> QED
    BY <2>1, <2>2, <2>3 DEF Init, TypeOK, SenderStates
<1>2. CountsMatch
  BY DEF Init, CountsMatch
<1>3. RoomShared
  <2> SUFFICES ASSUME NEW p \in Prios
               PROVE  Len(pq[p]) + Cardinality(Pending(p)) < MaxSize + Cardinality(Threads)
    BY DEF RoomShared
  <2>1. Pending(p) \in SUBSET Threads
    BY DEF Pending
  <2> QED
    BY <2>1, SizeOfThreads, MaxSizeAssumption DEF Init
<1>4. NoLostWakeup
  BY DEF Init, NoLostWakeup
<1> QED
  BY <1>1, <1>2, <1>3, <1>4 DEF IInv

(* The room of a priority only depends on its queue and on its pending      *)
(* threads.                                                                 *)
LEMMA RoomUnchanged ==
    ASSUME RoomShared, UNCHANGED <<pq, putting>>
    PROVE  RoomShared'
BY DEF RoomShared, Pending

LEMMA PutCheckIInv ==
    ASSUME IInv, NEW t \in Threads, PutCheck(t)
    PROVE  IInv'
<1> USE DEF IInv
<1>1. PICK p \in PutPrios, m \in Messages :
        /\ counts[p] < MaxSize
        /\ putting' = [putting EXCEPT ![t] = [prio |-> p, data |-> m]]
  BY DEF PutCheck, HasRoom
<1>2. p \in Prios
  BY PutPriosAssumption
<1>3. TypeOK'
  BY <1>1, <1>2 DEF TypeOK, PutCheck, queueVars, senderVars, Item, Data
<1>4. CountsMatch'
  BY DEF CountsMatch, PutCheck, queueVars
<1>5. RoomShared'
  <2> SUFFICES ASSUME NEW q \in Prios
               PROVE  (Len(pq[q]) + Cardinality(Pending(q)) < MaxSize + Cardinality(Threads))'
    BY DEF RoomShared
  <2>1. CASE q = p
    <3>1. Pending(q)' \in SUBSET Threads
      BY DEF Pending
    <3>2. Len(pq'[q]) < MaxSize /\ Len(pq'[q]) \in Nat
      BY <1>1, <1>2, <2>1 DEF PutCheck, queueVars, CountsMatch, TypeOK
    <3> QED
      BY <3>1, <3>2, SizeOfThreads, MaxSizeAssumption
  <2>2. CASE q # p
    <3>1. Pending(q)' = Pending(q)
      BY <1>1, <2>2 DEF Pending, PutCheck, TypeOK
    <3> QED
      BY <3>1 DEF RoomShared, PutCheck, queueVars
  <2> QED
    BY <2>1, <2>2
<1>6. NoLostWakeup'
  BY DEF NoLostWakeup, PutCheck, queueVars, senderVars
<1> QED
  BY <1>3, <1>4, <1>5, <1>6

LEMMA PutAppendIInv ==
    ASSUME IInv, NEW t \in Threads, PutAppend(t)
    PROVE  IInv'
<1> USE DEF IInv
<1>1. PICK p \in Prios, x \in Data : putting[t] = [prio |-> p, data |-> x]
  BY DEF PutAppend, TypeOK, Item
<1>2. /\ pq' = [pq EXCEPT ![p] = Append(@, x)]
      /\ counts' = [counts EXCEPT ![p] = @ + 1]
      /\ count' = count + 1
      /\ putting' = [putting EXCEPT ![t] = Nothing]
  BY <1>1 DEF PutAppend, Enqueue
<1>3. pq[p] \in Seq(Data)
  BY <1>1 DEF TypeOK
<1>4. pq'[p] = Append(pq[p], x) /\ Len(pq'[p]) = Len(pq[p]) + 1
  BY <1>1, <1>2, <1>3 DEF TypeOK
<1>5. TypeOK'
  <2>1. pq' \in [Prios -> Seq(Data)]
    BY <1>1, <1>2, <1>3 DEF TypeOK
  <2>2. counts' \in [Prios -> Nat] /\ count' \in Nat
    BY <1>1, <1>2 DEF TypeOK
  <2>3. putting' \in [Threads -> Item \cup {Nothing}]
    BY <1>2 DEF TypeOK
  <2>4. sender' \in SenderStates
    BY DEF TypeOK, PutAppend, Notify, SenderStates
  <2>5. spin' \in {"reading", "closing", "waking", "done"}
    BY DEF TypeOK, PutAppend
  <2> QED
    BY <2>1, <2>2, <2>3, <2>4, <2>5 DEF TypeOK, PutAppend
<1>6. CountsMatch'
  <2>1. \A q \in Prios : counts'[q] = Len(pq'[q])
    BY <1>1, <1>2, <1>4 DEF CountsMatch, TypeOK
  <2>2. count' = counts'[0] + counts'[1] + counts'[2]
    BY <1>1, <1>2 DEF CountsMatch, TypeOK
  <2> QED
    BY <2>1, <2>2 DEF CountsMatch
<1>7. RoomShared'
  <2> SUFFICES ASSUME NEW q \in Prios
               PROVE  (Len(pq[q]) + Cardinality(Pending(q)) < MaxSize + Cardinality(Threads))'
    BY DEF RoomShared
  <2>1. CASE q = p
    <3>1. t \in Pending(p)
      BY <1>1 DEF Pending, PutAppend
    <3>2. Pending(p)' = Pending(p) \ {t}
      BY <1>1, <1>2 DEF Pending, TypeOK
    <3>3. Pending(p) \in SUBSET Threads
      BY DEF Pending
    <3>4. Cardinality(Pending(p)') = Cardinality(Pending(p)) - 1
      BY <3>1, <3>2, <3>3, SizeOfThreads, FS_RemoveElement
    <3>5. Len(pq[p]) \in Nat /\ Cardinality(Pending(p)) \in Nat /\ Cardinality(Threads) \in Nat
      BY <1>3, <3>3, SizeOfThreads
    <3>6. Len(pq[p]) + Cardinality(Pending(p)) < MaxSize + Cardinality(Threads)
      BY DEF RoomShared
    <3>7. Len(pq'[p]) + Cardinality(Pending(p)') < MaxSize + Cardinality(Threads)
      BY <1>4, <3>4, <3>5, <3>6, MaxSizeAssumption
    <3> QED
      BY <2>1, <3>7
  <2>2. CASE q # p
    <3>1. Pending(q)' = Pending(q)
      BY <1>1, <1>2, <2>2 DEF Pending, TypeOK
    <3>2. pq'[q] = pq[q]
      BY <1>2, <2>2 DEF TypeOK
    <3> QED
      BY <3>1, <3>2 DEF RoomShared
  <2> QED
    BY <2>1, <2>2
<1>8. NoLostWakeup'
  BY DEF NoLostWakeup, PutAppend, Notify
<1> QED
  BY <1>5, <1>6, <1>7, <1>8

(* Taking a message changes neither the pending threads nor the other       *)
(* priorities.                                                              *)
LEMMA GetTakesIInv ==
    ASSUME IInv, GetTakes
    PROVE  IInv'
<1> USE DEF IInv
<1>1. PICK p \in Prios :
        /\ counts[p] # 0
        /\ hand' = Head(pq[p])
        /\ pq' = [pq EXCEPT ![p] = Tail(@)]
        /\ counts' = [counts EXCEPT ![p] = @ - 1]
        /\ count' = count - 1
  BY DEF GetTakes, TakeFirst
<1>2. pq[p] \in Seq(Data) /\ pq[p] # <<>> /\ Len(pq[p]) = counts[p]
  BY <1>1 DEF TypeOK, CountsMatch
<1>3. /\ Head(pq[p]) \in Data
      /\ Tail(pq[p]) \in Seq(Data)
      /\ Len(Tail(pq[p])) = Len(pq[p]) - 1
      /\ Len(pq[p]) \in Nat \ {0}
  BY <1>2
<1>4. \A q \in Prios : pq'[q] = IF q = p THEN Tail(pq[p]) ELSE pq[q]
  BY <1>1 DEF TypeOK
<1>5. TypeOK'
  <2>1. pq' \in [Prios -> Seq(Data)]
    BY <1>1, <1>3 DEF TypeOK
  <2>2. counts' \in [Prios -> Nat]
    BY <1>1, <1>2, <1>3 DEF TypeOK
  <2>3. count' \in Nat
    BY <1>1 DEF GetTakes, TypeOK
  <2> QED
    BY <1>1, <1>3, <2>1, <2>2, <2>3 DEF TypeOK, GetTakes, SenderStates
<1>6. CountsMatch'
  <2>1. \A q \in Prios : counts'[q] = Len(pq'[q])
    BY <1>1, <1>2, <1>3, <1>4 DEF TypeOK, CountsMatch
  <2>2. count' = counts'[0] + counts'[1] + counts'[2]
    BY <1>1 DEF TypeOK, CountsMatch
  <2> QED
    BY <2>1, <2>2 DEF CountsMatch
<1>7. RoomShared'
  <2> SUFFICES ASSUME NEW q \in Prios
               PROVE  (Len(pq[q]) + Cardinality(Pending(q)) < MaxSize + Cardinality(Threads))'
    BY DEF RoomShared
  <2>1. Pending(q)' = Pending(q)
    BY DEF Pending, GetTakes
  <2>2. Pending(q) \in SUBSET Threads
    BY DEF Pending
  <2>3. Cardinality(Pending(q)) \in Nat /\ Cardinality(Threads) \in Nat
    BY <2>2, SizeOfThreads
  <2>4. Len(pq[q]) \in Nat /\ Len(pq'[q]) \in Nat /\ Len(pq'[q]) <= Len(pq[q])
    <3>1. pq[q] \in Seq(Data) /\ Len(pq[q]) \in Nat
      BY DEF TypeOK
    <3>2. CASE q = p
      <4>1. pq'[q] = Tail(pq[p])
        BY <1>4, <3>2
      <4>2. Len(pq'[q]) = Len(pq[q]) - 1 /\ Len(pq[q]) \in Nat \ {0}
        BY <1>3, <3>2, <4>1
      <4> QED
        BY <4>2
    <3>3. CASE q # p
      <4>1. pq'[q] = pq[q]
        BY <1>4, <3>3
      <4> QED
        BY <3>1, <4>1
    <3> QED
      BY <3>2, <3>3
  <2>5. Len(pq[q]) + Cardinality(Pending(q)) < MaxSize + Cardinality(Threads)
    BY DEF RoomShared
  <2> QED
    BY <2>1, <2>3, <2>4, <2>5, MaxSizeAssumption
<1>8. NoLostWakeup'
  BY DEF NoLostWakeup, GetTakes
<1> QED
  BY <1>5, <1>6, <1>7, <1>8

LEMMA ClearIInv ==
    ASSUME IInv, Clear
    PROVE  IInv'
<1> USE DEF IInv
<1>1. TypeOK'
  <2>1. pq' \in [Prios -> Seq(Data)]
    BY DEF Clear
  <2>2. counts' \in [Prios -> Nat] /\ count' \in Nat
    BY DEF Clear
  <2>3. sender' \in SenderStates
    BY DEF Clear, Notify, TypeOK, SenderStates
  <2> QED
    BY <2>1, <2>2, <2>3 DEF Clear, TypeOK
<1>2. CountsMatch'
  BY DEF Clear, CountsMatch
<1>3. RoomShared'
  <2> SUFFICES ASSUME NEW q \in Prios
               PROVE  (Len(pq[q]) + Cardinality(Pending(q)) < MaxSize + Cardinality(Threads))'
    BY DEF RoomShared
  <2>1. Pending(q)' \in SUBSET Threads
    BY DEF Pending
  <2>2. Len(pq'[q]) = 0
    BY DEF Clear
  <2> QED
    BY <2>1, <2>2, SizeOfThreads, MaxSizeAssumption
<1>4. NoLostWakeup'
  BY DEF NoLostWakeup, Clear
<1> QED
  BY <1>1, <1>2, <1>3, <1>4

(* The wake up message of the receiving thread passes the size check like   *)
(* any other message.                                                       *)
LEMMA SpinWakesIInv ==
    ASSUME IInv, SpinWakes
    PROVE  IInv'
<1> USE DEF IInv
<1>1. TypeOK' /\ CountsMatch' /\ NoLostWakeup'
  BY DEF SpinWakes, TypeOK, CountsMatch, NoLostWakeup, queueVars, senderVars, Item, Data, Threads
<1>2. CASE ~ HasRoom(0)
  <2>1. UNCHANGED <<pq, putting>>
    BY <1>2 DEF SpinWakes, queueVars
  <2> QED
    BY <1>1, <2>1, RoomUnchanged
<1>3. CASE HasRoom(0)
  <2> SUFFICES ASSUME NEW q \in Prios
               PROVE  (Len(pq[q]) + Cardinality(Pending(q)) < MaxSize + Cardinality(Threads))'
    BY <1>1 DEF RoomShared
  <2>1. putting' = [putting EXCEPT ![Spin] = [prio |-> 0, data |-> WakeUp]]
    BY <1>3 DEF SpinWakes
  <2>2. CASE q = 0
    <3>1. Pending(q)' \in SUBSET Threads
      BY DEF Pending
    <3>2. Len(pq'[q]) < MaxSize /\ Len(pq'[q]) \in Nat
      BY <1>3, <2>2 DEF HasRoom, SpinWakes, queueVars, CountsMatch, TypeOK
    <3> QED
      BY <3>1, <3>2, SizeOfThreads, MaxSizeAssumption
  <2>3. CASE q # 0
    <3>1. Pending(q)' \in SUBSET Pending(q)
      BY <2>1, <2>3 DEF Pending, TypeOK
    <3>2. IsFiniteSet(Pending(q)) /\ Cardinality(Pending(q)) \in Nat /\ Cardinality(Threads) \in Nat
      <4>1. Pending(q) \in SUBSET Threads
        BY DEF Pending
      <4> QED
        BY <4>1, SizeOfThreads
    <3>3. Cardinality(Pending(q)') <= Cardinality(Pending(q)) /\ Cardinality(Pending(q)') \in Nat
      BY <3>1, <3>2, FS_Subset, FS_CardinalityType
    <3>4. pq' = pq /\ Len(pq[q]) \in Nat
      BY DEF SpinWakes, queueVars, TypeOK
    <3>5. Len(pq[q]) + Cardinality(Pending(q)) < MaxSize + Cardinality(Threads)
      BY DEF RoomShared
    <3> QED
      BY <3>2, <3>3, <3>4, <3>5, MaxSizeAssumption
  <2> QED
    BY <2>2, <2>3
<1> QED
  BY <1>2, <1>3

LEMMA NextIInv == IInv /\ [Next]_vars => IInv'
<1> SUFFICES ASSUME IInv, [Next]_vars
             PROVE  IInv'
  OBVIOUS
<1> USE DEF IInv
<1>1. ASSUME NEW t \in Threads, PutCheck(t)
      PROVE  IInv'
  BY <1>1, PutCheckIInv
<1>2. ASSUME NEW t \in Threads, PutAppend(t)
      PROVE  IInv'
  BY <1>2, PutAppendIInv
<1>3. CASE Clear
  BY <1>3, ClearIInv
<1>4. CASE GetTakes
  BY <1>4, GetTakesIInv
<1>5. CASE GetWaits
  <2>1. TypeOK' /\ CountsMatch'
    BY <1>5 DEF GetWaits, TypeOK, CountsMatch, queueVars, SenderStates
  <2>2. RoomShared'
    BY <1>5, RoomUnchanged DEF GetWaits, queueVars
  <2>3. \A p \in Prios : Len(pq[p]) = 0
    BY <1>5 DEF GetWaits, CountsMatch, TypeOK
  <2>4. NoLostWakeup'
    BY <1>5, <2>3 DEF GetWaits, NoLostWakeup, queueVars, TypeOK
  <2> QED
    BY <2>1, <2>2, <2>4
<1>6. CASE SpinWakes
  BY <1>6, SpinWakesIInv
<1>7. CASE SenderLoop \/ GetReturnsNone \/ SendItem
  <2>1. TypeOK' /\ CountsMatch' /\ NoLostWakeup'
    BY <1>7 DEF SenderLoop, GetReturnsNone, SendItem, TypeOK, CountsMatch, NoLostWakeup,
                queueVars, SenderStates
  <2>2. RoomShared'
    BY <1>7, RoomUnchanged DEF SenderLoop, GetReturnsNone, SendItem, queueVars
  <2> QED
    BY <2>1, <2>2
<1>8. CASE HandlerShutdown \/ CloseAfterShutdown \/ PeerCloses \/ SpinEnds
  <2>1. TypeOK' /\ CountsMatch' /\ NoLostWakeup'
    BY <1>8 DEF HandlerShutdown, CloseAfterShutdown, PeerCloses, SpinEnds, TypeOK,
                CountsMatch, NoLostWakeup, queueVars, senderVars
  <2>2. RoomShared'
    BY <1>8, RoomUnchanged DEF HandlerShutdown, CloseAfterShutdown, PeerCloses, SpinEnds,
                queueVars
  <2> QED
    BY <2>1, <2>2
<1>9. CASE UNCHANGED vars
  <2>1. TypeOK' /\ CountsMatch' /\ NoLostWakeup'
    BY <1>9 DEF vars, TypeOK, CountsMatch, NoLostWakeup
  <2>2. RoomShared'
    BY <1>9, RoomUnchanged DEF vars
  <2> QED
    BY <2>1, <2>2
<1> QED
  BY <1>1, <1>2, <1>3, <1>4, <1>5, <1>6, <1>7, <1>8, <1>9 DEF Next, Sender

(* The inductive invariant holds in every state. *)
LEMMA Inductive == Spec => []IInv
<1>1. Init /\ [][Next]_vars => []IInv
  BY InitIInv, NextIInv, PTL
<1> QED
  BY <1>1, PTL DEF Spec

-----------------------------------------------------------------------------
(* Every variable of the queue and of its threads keeps its type: put and   *)
(* get never take a counter below zero or a message from an empty list.     *)
THEOREM TypeCorrect == Spec => []TypeOK
<1>1. IInv => TypeOK
  BY DEF IInv
<1> QED
  BY <1>1, Inductive, PTL

LEMMA IInvOvershoot == IInv => OvershootBounded
<1> SUFFICES ASSUME IInv, NEW p \in Prios
             PROVE  Len(pq[p]) < MaxSize + Cardinality(Threads)
  BY DEF OvershootBounded
<1>1. Pending(p) \in SUBSET Threads
  BY DEF Pending
<1>2. Cardinality(Pending(p)) \in Nat /\ Cardinality(Threads) \in Nat
  BY <1>1, SizeOfThreads
<1>3. Len(pq[p]) \in Nat
  BY DEF IInv, TypeOK
<1>4. Len(pq[p]) + Cardinality(Pending(p)) < MaxSize + Cardinality(Threads)
  BY DEF IInv, RoomShared
<1> QED
  BY <1>2, <1>3, <1>4, MaxSizeAssumption

(* The unlocked size check of put() never costs more than one message per   *)
(* thread: a priority stays below maxsize plus the number of threads.       *)
THEOREM Overshoot == Spec => []OvershootBounded
BY IInvOvershoot, Inductive, PTL

(* The sender thread never waits on a queue that has a message, for any     *)
(* interleaving of put, get and clear.                                      *)
THEOREM Wakeup == Spec => []NoLostWakeup
<1>1. IInv => NoLostWakeup
  BY DEF IInv
<1> QED
  BY <1>1, Inductive, PTL

-----------------------------------------------------------------------------
(* The refinement: every step of the queue and its threads is a step of the *)
(* abstract buffer or leaves it alone.                                      *)

LEMMA BufferInit == Init => Buffer!Init
BY DEF Init, Buffer!Init

(* A completed put is Accept; the bound on the overshoot is the capacity.   *)
LEMMA PutAppendAccepts ==
    ASSUME IInv, NEW t \in Threads, PutAppend(t)
    PROVE  Buffer!Accept
<1>1. PICK p \in Prios, x \in Data : putting[t] = [prio |-> p, data |-> x]
  BY DEF IInv, PutAppend, TypeOK, Item
<1>2. pq' = [pq EXCEPT ![p] = Append(@, x)]
  BY <1>1 DEF PutAppend, Enqueue
<1>3. Len(pq[p]) < MaxSize + Cardinality(Threads)
  BY IInvOvershoot DEF OvershootBounded
<1>4. (sender' \in {"loop", "get", "wait", "woken"}) = (sender \in {"loop", "get", "wait", "woken"})
  BY DEF PutAppend, Notify
<1> QED
  BY <1>2, <1>3, <1>4 DEF Buffer!Accept

LEMMA GetTakesTakes ==
    ASSUME IInv, GetTakes
    PROVE  Buffer!Take
<1>1. PICK p \in Prios :
        /\ counts[p] # 0
        /\ \A q \in Prios : q > p => counts[q] = 0
        /\ pq' = [pq EXCEPT ![p] = Tail(@)]
  BY DEF GetTakes, TakeFirst
<1>2. \A q \in Prios : pq[q] = <<>> <=> counts[q] = 0
  BY DEF IInv, CountsMatch, TypeOK
<1>3. sender \in {"get", "woken"} /\ sender' = "send"
  BY DEF GetTakes
<1>4. pq[p] # <<>> /\ \A q \in Prios : q > p => pq[q] = <<>>
  BY <1>1, <1>2
<1>5. sender \in {"loop", "get", "wait", "woken"}
  BY <1>3
<1>6. (sender \in {"loop", "get", "wait", "woken"})' = FALSE
  BY <1>3
<1> QED
  BY <1>1, <1>4, <1>5, <1>6 DEF Buffer!Take

LEMMA BufferNext == IInv /\ [Next]_vars => [Buffer!Next]_(Buffer!bvars)
<1> SUFFICES ASSUME IInv, [Next]_vars
             PROVE  [Buffer!Next]_(Buffer!bvars)
  OBVIOUS
<1> USE DEF Buffer!bvars
<1>1. ASSUME NEW t \in Threads, PutCheck(t)
      PROVE  UNCHANGED Buffer!bvars
  BY <1>1 DEF PutCheck, queueVars, senderVars
<1>2. ASSUME NEW t \in Threads, PutAppend(t)
      PROVE  Buffer!Next
  BY <1>2, PutAppendAccepts DEF Buffer!Next
<1>3. CASE Clear
  <2>1. Buffer!Discard
    BY <1>3 DEF Clear, Notify, Buffer!Discard
  <2> QED
    BY <2>1 DEF Buffer!Next
<1>4. CASE GetTakes
  BY <1>4, GetTakesTakes DEF Buffer!Next
<1>5. CASE GetWaits \/ GetReturnsNone
  BY <1>5 DEF GetWaits, GetReturnsNone, queueVars
<1>6. CASE SendItem
  <2>1. Buffer!Done
    BY <1>6 DEF SendItem, queueVars, Buffer!Done
  <2> QED
    BY <2>1 DEF Buffer!Next
<1>7. CASE SenderLoop
  <2>1. CASE shutdown
    <3>1. Buffer!Leave
      BY <1>7, <2>1 DEF SenderLoop, queueVars, Buffer!Leave
    <3> QED
      BY <3>1 DEF Buffer!Next
  <2>2. CASE ~shutdown
    BY <1>7, <2>2 DEF SenderLoop, queueVars
  <2> QED
    BY <2>1, <2>2
<1>8. CASE HandlerShutdown \/ CloseAfterShutdown \/ PeerCloses \/ SpinEnds \/ SpinWakes
  BY <1>8 DEF HandlerShutdown, CloseAfterShutdown, PeerCloses, SpinEnds, SpinWakes,
              queueVars, senderVars
<1>9. CASE UNCHANGED vars
  BY <1>9 DEF vars
<1> QED
  BY <1>1, <1>2, <1>3, <1>4, <1>5, <1>6, <1>7, <1>8, <1>9 DEF Next, Sender

(* The safety part of the refinement: whatever the threads do, messages     *)
(* leave the queue in the order of the abstract buffer, the oldest of the   *)
(* most urgent priority first, and none is lost or doubled.                 *)
THEOREM ImplementsSafeBuffer == Spec => Buffer!SafeSpec
<1>1. Init /\ []IInv /\ [][Next]_vars => Buffer!SafeSpec
  BY BufferInit, BufferNext, PTL DEF Buffer!SafeSpec
<1> QED
  BY <1>1, Inductive, PTL DEF Spec

=============================================================================
