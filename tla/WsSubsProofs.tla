----------------------------- MODULE WsSubsProofs -----------------------------
(***************************************************************************)
(* Proofs about WsSubs, for every number of clients and of local           *)
(* subscriptions: the count that is begun last is right, and no listener   *)
(* misses the last change.                                                 *)
(***************************************************************************)
EXTENDS WsSubs, FiniteSetTheorems, TLAPS

Counting(t) == step[t].at = "counting"

(* The handlers that the count of t has yet to find subscribed. *)
Remaining(t) == {h \in step[t].left : subscribed[h]}

SumBounded ==
    \A t \in Threads : Counting(t) =>
        step[t].sum + Cardinality(step[t].left) <= Cardinality(Handlers) + MaxLocal

NewUnsubscribed == \A h \in Handlers : stage[h] = "new" => ~subscribed[h]

NoCountWhileCounting == lastCount = NoCount <=> Counting(latest)

(* When no change waits to be announced or went unsaid, all changes were    *)
(* made before the last count began.  So what this count found and what it  *)
(* will find add up to the subscribers there are.                           *)
AddsUp ==
    ~unsaid /\ (\A t \in Threads : step[t] # Changed) =>
        IF Counting(latest)
        THEN step[latest].sum + Cardinality(Remaining(latest)) = Actual
        ELSE lastCount = Actual

(* A change that the listeners were not called for, and that did not go     *)
(* unsaid, has a thread that will call them.                                *)
CallPending == ~heard /\ ~unsaid => \E t \in Threads : step[t] # Idle

IInv ==
    /\ TypeOK /\ SumBounded /\ NewUnsubscribed
    /\ NoCountWhileCounting /\ AddsUp /\ CallPending

-----------------------------------------------------------------------------
LEMMA SetOfHandlers ==
    ASSUME NEW S \in SUBSET Handlers
    PROVE  IsFiniteSet(S) /\ Cardinality(S) \in Nat /\ Cardinality(S) <= Cardinality(Handlers)
BY ThreadsAssumption, FS_Subset, FS_CardinalityType

LEMMA HandlersCounted == IsFiniteSet(Handlers) /\ Cardinality(Handlers) \in Nat
BY ThreadsAssumption, FS_CardinalityType

(* What the type of a step says of its fields. *)
LEMMA StepFields ==
    ASSUME TypeOK, NEW t \in Threads
    PROVE  /\ step[t] = Idle <=> step[t].at = "idle"
           /\ step[t] = Changed <=> step[t].at = "changed"
           /\ Counting(t) => step[t].left \in SUBSET Handlers /\ step[t].sum \in Nat
           /\ step[t].at \in {"counting", "counted"} => step[t].sum \in Counts
<1>1. step[t] \in Steps
  BY DEF TypeOK
<1>2. Counts \subseteq Nat
  BY HandlersCounted, BoundsAssumption DEF Counts
<1>3. CASE step[t] \in {Idle, Changed}
  BY <1>3 DEF Idle, Changed, Counting
<1>4. CASE step[t] \in [at : {"counting"}, left : SUBSET Handlers, sum : Counts]
  <2>1. step[t].at = "counting" /\ step[t].left \in SUBSET Handlers /\ step[t].sum \in Counts
    BY <1>4
  <2>2. step[t] # Idle /\ step[t] # Changed
    BY <2>1 DEF Idle, Changed
  <2> QED
    BY <1>2, <2>1, <2>2 DEF Counting
<1>5. CASE step[t] \in [at : {"counted"}, sum : Counts]
  BY <1>5 DEF Idle, Changed, Counting
<1>6. CASE step[t] \in [at : {"published"}]
  BY <1>6 DEF Idle, Changed, Counting
<1> QED
  BY <1>1, <1>3, <1>4, <1>5, <1>6 DEF Steps

(* A thread that moves on leaves the others where they are. *)
LEMMA OnlyOneMoves ==
    ASSUME TypeOK, NEW t \in Threads, NEW r, step' = [step EXCEPT ![t] = r]
    PROVE  step'[t] = r /\ \A u \in Threads : u # t => step'[u] = step[u]
BY DEF TypeOK

LEMMA ActualTyped == TypeOK => Actual \in Counts /\ Actual \in Nat
<1> SUFFICES ASSUME TypeOK
             PROVE  Actual \in Counts /\ Actual \in Nat
  OBVIOUS
<1>1. Subscribers \in SUBSET Handlers
  BY DEF Subscribers, TypeOK
<1>2. Cardinality(Subscribers) \in Nat /\ Cardinality(Subscribers) <= Cardinality(Handlers)
  BY <1>1, SetOfHandlers
<1> QED
  BY <1>2, HandlersCounted, BoundsAssumption DEF Actual, TypeOK, Counts

-----------------------------------------------------------------------------
LEMMA InitIInv == Init => IInv
<1> SUFFICES ASSUME Init
             PROVE  IInv
  OBVIOUS
<1>1. 0 \in Counts /\ 0 \in 0..MaxLocal /\ Local \in Threads
  BY HandlersCounted, BoundsAssumption DEF Counts, Threads
<1>2. TypeOK
  <2>1. heard \in BOOLEAN /\ unsaid \in BOOLEAN /\ subscribed \in [Handlers -> BOOLEAN]
    BY DEF Init
  <2>2. events \in Seq(Counts) /\ Len(events) <= QueueSize
    BY BoundsAssumption DEF Init
  <2> QED
    BY <1>1, <2>1, <2>2 DEF Init, TypeOK, Steps
<1>3. \A t \in Threads : ~Counting(t) /\ step[t] # Changed
  BY DEF Init, Counting, Idle, Changed
<1>4. SumBounded /\ NewUnsubscribed /\ CallPending
  BY <1>3 DEF Init, SumBounded, NewUnsubscribed, CallPending
<1>5. NoCountWhileCounting
  BY <1>1, <1>3, BoundsAssumption DEF Init, NoCountWhileCounting
<1>6. Actual = 0
  <2>1. Subscribers = {}
    BY DEF Init, Subscribers
  <2> QED
    BY <2>1, FS_EmptySet DEF Init, Actual
<1>7. AddsUp
  BY <1>1, <1>3, <1>6 DEF Init, AddsUp
<1> QED
  BY <1>2, <1>4, <1>5, <1>7 DEF IInv

-----------------------------------------------------------------------------
(* A change is always announced: as long as the thread is in "changed",     *)
(* nothing is claimed about the last count.                                 *)
LEMMA AnnounceIInv ==
    ASSUME IInv, NEW t \in Threads, step[t] = Idle, Announce(t),
           TypeOK', NewUnsubscribed'
    PROVE  IInv'
<1> USE DEF IInv
<1>1. step'[t] = Changed /\ \A u \in Threads : u # t => step'[u] = step[u]
  BY OnlyOneMoves DEF Announce
<1>2. ~Counting(t) /\ ~Counting(t)'
  BY <1>1 DEF Counting, Idle, Changed
<1>3. \A u \in Threads : Counting(u)' <=> Counting(u)
  BY <1>1, <1>2 DEF Counting
<1>4. SumBounded'
  BY <1>1, <1>2, <1>3 DEF SumBounded
<1>5. NoCountWhileCounting'
  BY <1>3 DEF NoCountWhileCounting, Announce, TypeOK
<1>6. AddsUp'
  BY <1>1 DEF AddsUp
<1>7. CallPending'
  BY <1>1 DEF CallPending, Changed, Idle
<1> QED
  BY <1>4, <1>5, <1>6, <1>7

(* A change that goes unsaid moves no thread, and nothing is claimed then.  *)
LEMMA ReplyFailsIInv ==
    ASSUME IInv, NEW h \in Handlers, ReplyFails(h), TypeOK', NewUnsubscribed'
    PROVE  IInv'
BY DEF IInv, ReplyFails, SumBounded, NoCountWhileCounting, AddsUp, CallPending, Counting

LEMMA SubIInv ==
    ASSUME IInv, NEW h \in Handlers, Sub(h) \/ Unsub(h)
    PROVE  IInv'
<1>1. h \in Threads /\ step[h] = Idle /\ (Announce(h) \/ ReplyFails(h))
  BY DEF Sub, Unsub, Receiving, Threads
<1>2. TypeOK'
  <2>1. subscribed' \in [Handlers -> BOOLEAN]
    BY DEF IInv, TypeOK, Sub, Unsub
  <2>2. step' \in [Threads -> Steps] /\ heard' \in BOOLEAN /\ unsaid' \in BOOLEAN
    BY <1>1 DEF IInv, TypeOK, Announce, ReplyFails, Steps
  <2> QED
    BY <1>1, <2>1, <2>2 DEF IInv, TypeOK, Sub, Unsub, Announce, ReplyFails
<1>3. NewUnsubscribed'
  <2>1. stage[h] = "live" /\ stage' = stage
    BY DEF Sub, Unsub, Receiving
  <2>2. \A g \in Handlers : g # h => subscribed'[g] = subscribed[g]
    BY DEF IInv, TypeOK, Sub, Unsub
  <2> QED
    BY <2>1, <2>2 DEF IInv, NewUnsubscribed
<1> QED
  BY <1>1, <1>2, <1>3, AnnounceIInv, ReplyFailsIInv

LEMMA LocalChangeIInv ==
    ASSUME IInv, LocalChange
    PROVE  IInv'
<1>1. Local \in Threads /\ step[Local] = Idle /\ Announce(Local)
  BY DEF LocalChange, Threads
<1>2. TypeOK'
  <2>1. step' \in [Threads -> Steps] /\ heard' \in BOOLEAN
    BY <1>1 DEF IInv, TypeOK, Announce, Steps
  <2> QED
    BY <1>1, <2>1 DEF IInv, TypeOK, LocalChange, Announce
<1>3. NewUnsubscribed'
  BY DEF IInv, NewUnsubscribed, LocalChange
<1> QED
  BY <1>1, <1>2, <1>3, AnnounceIInv

(* What neither moves a thread nor changes who is subscribed. *)
LEMMA SilentIInv ==
    ASSUME IInv, TypeOK', NewUnsubscribed', Subscribers' = Subscribers,
           UNCHANGED <<subscribed, localSubs, step, latest, lastCount, heard, unsaid>>
    PROVE  IInv'
<1> USE DEF IInv
<1>1. Actual' = Actual
  BY DEF Actual
<1>2. SumBounded' /\ NoCountWhileCounting' /\ CallPending'
  BY DEF SumBounded, NoCountWhileCounting, CallPending, Counting
<1>3. AddsUp'
  <2>1. Remaining(latest)' = Remaining(latest)
    BY DEF Remaining
  <2> QED
    BY <1>1, <2>1 DEF AddsUp, Counting
<1> QED
  BY <1>2, <1>3

LEMMA ConnectIInv ==
    ASSUME IInv, NEW h \in Handlers, Connect(h)
    PROVE  IInv'
<1>1. TypeOK'
  BY DEF IInv, TypeOK, Connect
<1>2. NewUnsubscribed'
  BY DEF IInv, TypeOK, NewUnsubscribed, Connect
<1>3. Subscribers' = Subscribers
  BY DEF IInv, NewUnsubscribed, Subscribers, Connect
<1> QED
  BY <1>1, <1>2, <1>3, SilentIInv DEF Connect

LEMMA RemoveHandlerIInv ==
    ASSUME IInv, NEW h \in Handlers, RemoveHandler(h)
    PROVE  IInv'
<1>1. h \in Threads /\ step[h] = Idle
  BY DEF RemoveHandler, Receiving, Threads
<1>2. NewUnsubscribed'
  BY DEF IInv, TypeOK, NewUnsubscribed, RemoveHandler
<1>3. CASE subscribed[h]
  <2>1. Announce(h)
    BY <1>3 DEF RemoveHandler
  <2>2. TypeOK'
    <3>1. step' \in [Threads -> Steps] /\ heard' \in BOOLEAN
      BY <1>1, <2>1 DEF IInv, TypeOK, Announce, Steps
    <3> QED
      BY <2>1, <3>1 DEF IInv, TypeOK, RemoveHandler, Announce
  <2> QED
    BY <1>1, <1>2, <2>1, <2>2, AnnounceIInv
<1>4. CASE ~subscribed[h]
  <2>1. TypeOK'
    BY <1>4 DEF IInv, TypeOK, RemoveHandler
  <2>2. Subscribers' = Subscribers
    BY <1>4 DEF Subscribers, RemoveHandler
  <2> QED
    BY <1>2, <1>4, <2>1, <2>2, SilentIInv DEF RemoveHandler
<1> QED
  BY <1>3, <1>4

LEMMA ReadEventIInv ==
    ASSUME IInv, ReadEvent
    PROVE  IInv'
<1>1. TypeOK'
  <2>1. events \in Seq(Counts) /\ events # <<>> /\ Len(events) <= QueueSize
    BY DEF IInv, TypeOK, ReadEvent
  <2>2. Head(events) \in Counts /\ Tail(events) \in Seq(Counts) /\ Len(Tail(events)) <= QueueSize
    BY <2>1, BoundsAssumption
  <2> QED
    BY <2>2 DEF IInv, TypeOK, ReadEvent, subVars
<1>2. NewUnsubscribed'
  BY DEF IInv, NewUnsubscribed, ReadEvent, subVars
<1>3. Subscribers' = Subscribers
  BY DEF Subscribers, ReadEvent, subVars
<1> QED
  BY <1>1, <1>2, <1>3, SilentIInv DEF ReadEvent, subVars

-----------------------------------------------------------------------------
(* The announcement. *)

(* The copy of the handlers holds all subscribers, and becomes the last     *)
(* count.                                                                   *)
LEMMA BeginCountIInv ==
    ASSUME IInv, NEW t \in Threads, BeginCount(t)
    PROVE  IInv'
<1> USE DEF IInv
<1> DEFINE r == [at |-> "counting", left |-> members, sum |-> localSubs]
<1>1. step'[t] = r /\ \A u \in Threads : u # t => step'[u] = step[u]
  BY OnlyOneMoves DEF BeginCount
<1>2. UNCHANGED <<stage, members, subscribed, localSubs, events, seen, heard>>
  BY DEF BeginCount, subVars
<1>3. members \in SUBSET Handlers /\ localSubs \in 0..MaxLocal /\ localSubs \in Counts
  BY HandlersCounted, BoundsAssumption DEF TypeOK, Counts
<1>4. TypeOK'
  <2>1. r \in Steps
    BY <1>3 DEF Steps
  <2>2. step' \in [Threads -> Steps]
    BY <2>1 DEF TypeOK, BeginCount
  <2> QED
    BY <1>2, <2>2 DEF TypeOK, BeginCount
<1>5. SumBounded'
  <2>1. localSubs + Cardinality(members) <= Cardinality(Handlers) + MaxLocal
    BY <1>3, SetOfHandlers, HandlersCounted, BoundsAssumption
  <2> QED
    BY <1>1, <2>1 DEF SumBounded, Counting
<1>6. NewUnsubscribed'
  BY <1>2 DEF NewUnsubscribed
<1>7. Counting(latest)' /\ step'[latest'] = r
  BY <1>1 DEF BeginCount, Counting
<1>8. NoCountWhileCounting'
  BY <1>7 DEF NoCountWhileCounting, BeginCount
<1>9. AddsUp'
  <2>1. Remaining(latest)' = Subscribers
    BY <1>2, <1>7 DEF Remaining, Subscribers
  <2>2. Actual' = Actual /\ Cardinality(Subscribers) \in Nat
    <3>1. Subscribers \in SUBSET Handlers
      BY <1>3 DEF Subscribers
    <3> QED
      BY <1>2, <3>1, SetOfHandlers DEF Actual, Subscribers
  <2>3. step'[latest'].sum + Cardinality(Remaining(latest)') = Actual'
    BY <1>3, <1>7, <2>1, <2>2 DEF Actual
  <2> QED
    BY <1>7, <2>3 DEF AddsUp
<1>10. CallPending'
  BY <1>1 DEF CallPending, Idle
<1> QED
  BY <1>4, <1>5, <1>6, <1>8, <1>9, <1>10

(* A handler that was asked moves from what remains to the sum, if it is    *)
(* subscribed.                                                              *)
LEMMA AskHandlerIInv ==
    ASSUME IInv, NEW t \in Threads, NEW h \in Handlers, AskHandler(t, h)
    PROVE  IInv'
<1> USE DEF IInv
<1> DEFINE n == WithHandler(h, step[t].sum)
           r == [at |-> "counting", left |-> step[t].left \ {h}, sum |-> n]
<1>1. Counting(t) /\ h \in step[t].left
  BY DEF AskHandler, Counting
<1>2. step[t].left \in SUBSET Handlers /\ step[t].sum \in Nat
  BY <1>1, StepFields
<1>3. /\ step'[t] = [step[t] EXCEPT !.left = @ \ {h}, !.sum = n]
      /\ \A u \in Threads : u # t => step'[u] = step[u]
  BY DEF TypeOK, AskHandler
<1>4. step'[t] = r
  <2>1. step[t] \in [at : {"counting"}, left : SUBSET Handlers, sum : Counts]
    BY <1>1 DEF TypeOK, Steps, Counting, Idle, Changed
  <2> QED
    BY <1>3, <2>1
<1>5. UNCHANGED <<stage, members, subscribed, localSubs, events, seen, latest, lastCount, heard, unsaid>>
  BY DEF AskHandler, subVars
<1>6. /\ Cardinality(step[t].left) \in Nat
      /\ Cardinality(step[t].left \ {h}) = Cardinality(step[t].left) - 1
      /\ Cardinality(step[t].left \ {h}) \in Nat
  <2>1. IsFiniteSet(step[t].left)
    BY <1>2, SetOfHandlers
  <2> QED
    BY <1>1, <2>1, FS_RemoveElement, FS_CardinalityType
<1>7. n \in Nat /\ n <= step[t].sum + 1
  BY <1>2 DEF WithHandler
<1>8. step[t].sum + Cardinality(step[t].left) <= Cardinality(Handlers) + MaxLocal
  BY <1>1 DEF SumBounded
<1>9. TypeOK'
  <2>1. n \in Counts
    BY <1>2, <1>6, <1>7, <1>8, HandlersCounted, BoundsAssumption DEF Counts
  <2>2. r \in Steps
    BY <1>2, <2>1 DEF Steps
  <2>3. step' \in [Threads -> Steps]
    <3>1. step' = [step EXCEPT ![t] = r]
      BY <1>3, <1>4 DEF TypeOK, AskHandler
    <3> QED
      BY <2>2, <3>1 DEF TypeOK
  <2> QED
    BY <1>5, <2>3 DEF TypeOK
<1>10. SumBounded'
  <2>1. n + Cardinality(step[t].left \ {h}) <= Cardinality(Handlers) + MaxLocal
    BY <1>2, <1>6, <1>7, <1>8, HandlersCounted, BoundsAssumption
  <2> QED
    BY <1>3, <1>4, <2>1 DEF SumBounded, Counting
<1>11. NewUnsubscribed'
  BY <1>5 DEF NewUnsubscribed
<1>12. \A u \in Threads : Counting(u)' <=> Counting(u)
  BY <1>1, <1>3, <1>4 DEF Counting
<1>13. NoCountWhileCounting'
  BY <1>5, <1>12 DEF NoCountWhileCounting, TypeOK, Counting
<1>14. AddsUp'
  <2>1. Actual' = Actual
    BY <1>5 DEF Actual, Subscribers
  <2>2. CASE latest # t
    <3>1. step'[latest] = step[latest] /\ latest' = latest
      BY <1>3, <1>5, <2>2 DEF TypeOK
    <3>2. Remaining(latest)' = Remaining(latest)
      BY <1>5, <3>1 DEF Remaining
    <3>3. (\A u \in Threads : step'[u] # Changed) => \A u \in Threads : step[u] # Changed
      BY <1>1, <1>3 DEF Counting, Changed
    <3> QED
      BY <1>5, <2>1, <3>1, <3>2, <3>3 DEF AddsUp, Counting
  <2>3. CASE latest = t
    <3>1. Remaining(t)' = Remaining(t) \ {h} /\ Remaining(t) \in SUBSET Handlers
      BY <1>2, <1>4, <1>5 DEF Remaining
    <3>2. IsFiniteSet(Remaining(t)) /\ Cardinality(Remaining(t)) \in Nat
      BY <3>1, SetOfHandlers
    <3>3. h \in Remaining(t) <=> subscribed[h]
      BY <1>1 DEF Remaining
    <3>4. n + Cardinality(Remaining(t)') = step[t].sum + Cardinality(Remaining(t))
      <4>1. CASE subscribed[h]
        <5>1. Cardinality(Remaining(t)') = Cardinality(Remaining(t)) - 1
          BY <3>1, <3>2, <3>3, <4>1, FS_RemoveElement
        <5>2. n = step[t].sum + 1
          BY <4>1 DEF WithHandler
        <5> QED
          BY <1>2, <3>2, <5>1, <5>2
      <4>2. CASE ~subscribed[h]
        <5>1. Remaining(t)' = Remaining(t)
          BY <3>1, <3>3, <4>2
        <5>2. n = step[t].sum
          BY <1>2, <4>2 DEF WithHandler
        <5> QED
          BY <5>1, <5>2
      <4> QED
        BY <4>1, <4>2
    <3>5. (\A u \in Threads : step'[u] # Changed) => \A u \in Threads : step[u] # Changed
      BY <1>1, <1>3 DEF Counting, Changed
    <3>6. latest' = t /\ step'[t].sum = n
      BY <1>4, <1>5, <2>3
    <3> QED
      BY <1>1, <1>5, <1>12, <2>1, <2>3, <3>4, <3>5, <3>6 DEF AddsUp
  <2> QED
    BY <2>2, <2>3
<1>15. CallPending'
  BY <1>4 DEF CallPending, Idle
<1> QED
  BY <1>9, <1>10, <1>11, <1>13, <1>14, <1>15

(* Nothing remains, so the sum is the number of subscribers. *)
LEMMA EndCountIInv ==
    ASSUME IInv, NEW t \in Threads, EndCount(t)
    PROVE  IInv'
<1> USE DEF IInv
<1> DEFINE r == [at |-> "counted", sum |-> step[t].sum]
<1>1. Counting(t) /\ step[t].left = {}
  BY DEF EndCount, Counting
<1>2. step'[t] = r /\ \A u \in Threads : u # t => step'[u] = step[u]
  BY OnlyOneMoves DEF EndCount
<1>3. UNCHANGED <<stage, members, subscribed, localSubs, events, seen, latest, heard, unsaid>>
  BY DEF EndCount, subVars
<1>4. step[t].sum \in Counts /\ step[t].sum \in Nat
  BY <1>1, StepFields DEF Counting
<1>5. ~Counting(t)' /\ \A u \in Threads : u # t => (Counting(u)' <=> Counting(u))
  BY <1>2 DEF Counting
<1>6. TypeOK'
  <2>1. r \in Steps
    BY <1>4 DEF Steps
  <2>2. step' \in [Threads -> Steps]
    BY <2>1 DEF TypeOK, EndCount
  <2>3. lastCount' \in Counts \cup {NoCount}
    BY <1>4 DEF TypeOK, EndCount
  <2> QED
    BY <1>3, <2>2, <2>3 DEF TypeOK
<1>7. SumBounded'
  BY <1>2, <1>5 DEF SumBounded
<1>8. NewUnsubscribed'
  BY <1>3 DEF NewUnsubscribed
<1>9. (\A u \in Threads : step'[u] # Changed) => \A u \in Threads : step[u] # Changed
  BY <1>1, <1>2 DEF Counting, Changed
<1>10. Actual' = Actual
  BY <1>3 DEF Actual, Subscribers
<1>11. NoCountWhileCounting' /\ AddsUp'
  <2>1. CASE latest = t
    <3>1. latest' = t /\ lastCount' = step[t].sum /\ ~Counting(latest)'
      BY <1>3, <1>5, <2>1 DEF EndCount, Counting
    <3>2. NoCountWhileCounting'
      BY <1>4, <3>1, HandlersCounted, BoundsAssumption DEF NoCountWhileCounting
    <3>3. Remaining(t) = {}
      BY <1>1 DEF Remaining
    <3>4. step[t].sum + Cardinality(Remaining(t)) = step[t].sum
      BY <1>4, <3>3, FS_EmptySet
    <3>5. AddsUp'
      BY <1>1, <1>3, <1>9, <1>10, <2>1, <3>1, <3>4 DEF AddsUp
    <3> QED
      BY <3>2, <3>5
  <2>2. CASE latest # t
    <3>1. latest' = latest /\ lastCount' = lastCount /\ step'[latest] = step[latest]
      BY <1>2, <1>3, <2>2 DEF EndCount, TypeOK
    <3>2. Counting(latest)' <=> Counting(latest)
      BY <3>1 DEF Counting
    <3>3. Remaining(latest)' = Remaining(latest)
      BY <1>3, <3>1 DEF Remaining
    <3> QED
      BY <1>3, <1>9, <1>10, <3>1, <3>2, <3>3 DEF NoCountWhileCounting, AddsUp
  <2> QED
    BY <2>1, <2>2
<1>12. CallPending'
  BY <1>2 DEF CallPending, Idle
<1> QED
  BY <1>6, <1>7, <1>8, <1>11, <1>12

(* The end of an announcement does not touch the counts. *)
LEMMA FinishIInv ==
    ASSUME IInv, NEW t \in Threads, PublishEvent(t) \/ CallListeners(t)
    PROVE  IInv'
<1> USE DEF IInv
<1>1. PICK r \in Steps :
        /\ step' = [step EXCEPT ![t] = r]
        /\ r.at \notin {"counting", "changed"}
        /\ r = Idle => heard'
        /\ heard => heard'
        /\ heard' \in BOOLEAN
  <2>1. CASE PublishEvent(t)
    <3>1. [at |-> "published"] \in Steps /\ [at |-> "published"] # Idle
      BY DEF Steps, Idle
    <3> QED
      BY <2>1, <3>1 DEF PublishEvent, TypeOK
  <2>2. CASE CallListeners(t)
    <3>1. Idle \in Steps /\ Idle.at = "idle"
      BY DEF Steps, Idle
    <3> QED
      BY <2>2, <3>1 DEF CallListeners, TypeOK
  <2> QED
    BY <2>1, <2>2
<1>2. step'[t] = r /\ \A u \in Threads : u # t => step'[u] = step[u]
  BY <1>1, OnlyOneMoves
<1>3. UNCHANGED <<stage, members, subscribed, localSubs, latest, lastCount, unsaid>>
  BY DEF PublishEvent, CallListeners, subVars
<1>4. step[t].at \in {"counted", "published"}
  BY DEF PublishEvent, CallListeners
<1>5. \A u \in Threads : Counting(u)' <=> Counting(u)
  BY <1>1, <1>2, <1>4 DEF Counting
<1>6. TypeOK'
  <2>1. events' \in Seq(Counts) /\ Len(events') <= QueueSize
    <3>1. CASE PublishEvent(t)
      <4>1. events \in Seq(Counts) /\ Len(events) <= QueueSize /\ Len(events) \in Nat
        BY DEF TypeOK
      <4>2. step[t].sum \in Counts
        BY <3>1, StepFields DEF PublishEvent
      <4>3. CASE Len(events) < QueueSize
        <5>1. events' = Append(events, step[t].sum)
          BY <3>1, <4>3 DEF PublishEvent
        <5>2. Len(events') = Len(events) + 1 /\ events' \in Seq(Counts)
          BY <4>1, <4>2, <5>1
        <5> QED
          BY <4>1, <4>3, <5>2, BoundsAssumption
      <4>4. CASE ~(Len(events) < QueueSize)
        BY <3>1, <4>1, <4>4 DEF PublishEvent
      <4> QED
        BY <4>3, <4>4
    <3>2. CASE CallListeners(t)
      BY <3>2 DEF CallListeners, TypeOK
    <3> QED
      BY <3>1, <3>2
  <2>2. step' \in [Threads -> Steps] /\ seen' = seen
    BY <1>1 DEF TypeOK, PublishEvent, CallListeners
  <2> QED
    BY <1>1, <1>3, <2>1, <2>2 DEF TypeOK
<1>7. SumBounded'
  <2>1. \A u \in Threads : Counting(u)' => step'[u] = step[u]
    BY <1>1, <1>2 DEF Counting
  <2> QED
    BY <1>5, <2>1 DEF SumBounded
<1>8. NewUnsubscribed'
  BY <1>3 DEF NewUnsubscribed
<1>9. NoCountWhileCounting'
  BY <1>3, <1>5 DEF NoCountWhileCounting, TypeOK, Counting
<1>10. AddsUp'
  <2>1. (\A u \in Threads : step'[u] # Changed) => \A u \in Threads : step[u] # Changed
    BY <1>2, <1>4 DEF Changed
  <2>2. Actual' = Actual
    BY <1>3 DEF Actual, Subscribers
  <2>3. Counting(latest)' <=> Counting(latest)
    BY <1>3, <1>5 DEF TypeOK, Counting
  <2>4. Counting(latest) => step'[latest] = step[latest]
    BY <1>2, <1>4 DEF TypeOK, Counting
  <2>5. Counting(latest) => Remaining(latest)' = Remaining(latest)
    BY <1>3, <2>4 DEF Remaining
  <2> QED
    BY <1>3, <2>1, <2>2, <2>3, <2>4, <2>5 DEF AddsUp
<1>11. CallPending'
  BY <1>1, <1>2 DEF CallPending
<1> QED
  BY <1>6, <1>7, <1>8, <1>9, <1>10, <1>11

-----------------------------------------------------------------------------
LEMMA NextIInv == IInv /\ [Next]_vars => IInv'
<1> SUFFICES ASSUME IInv, [Next]_vars
             PROVE  IInv'
  OBVIOUS
<1>1. ASSUME NEW h \in Handlers, Connect(h) \/ Sub(h) \/ Unsub(h) \/ RemoveHandler(h)
      PROVE  IInv'
  BY <1>1, ConnectIInv, SubIInv, RemoveHandlerIInv
<1>2. CASE LocalChange
  BY <1>2, LocalChangeIInv
<1>3. ASSUME NEW t \in Threads, Announcing(t)
      PROVE  IInv'
  BY <1>3, BeginCountIInv, AskHandlerIInv, EndCountIInv, FinishIInv DEF Announcing
<1>4. CASE ReadEvent
  BY <1>4, ReadEventIInv
<1>5. CASE UNCHANGED vars
  <2>1. TypeOK' /\ NewUnsubscribed' /\ Subscribers' = Subscribers
    BY <1>5 DEF IInv, TypeOK, NewUnsubscribed, Subscribers, vars
  <2> QED
    BY <1>5, <2>1, SilentIInv DEF vars
<1> QED
  BY <1>1, <1>2, <1>3, <1>4, <1>5 DEF Next

LEMMA Inductive == Spec => []IInv
BY InitIInv, NextIInv, PTL DEF Spec

-----------------------------------------------------------------------------
(* Every variable keeps its type; no count exceeds the number of those who  *)
(* can subscribe.                                                           *)
THEOREM TypeCorrect == Spec => []TypeOK
<1>1. IInv => TypeOK
  BY DEF IInv
<1> QED
  BY <1>1, Inductive, PTL

LEMMA IInvLastCount == IInv => LastCountRight
<1> SUFFICES ASSUME IInv, Quiet, ~unsaid
             PROVE  lastCount = Actual
  BY DEF LastCountRight
<1>1. \A t \in Threads : step[t] # Changed /\ ~Counting(t)
  BY DEF Quiet, Idle, Changed, Counting
<1>2. ~Counting(latest)
  BY <1>1 DEF IInv, TypeOK
<1> QED
  BY <1>1, <1>2 DEF IInv, AddsUp

(* For any number of clients, local subscriptions and concurrent counts:    *)
(* the count that is begun last gives the true number of subscribers.       *)
THEOREM LastCountIsRight == Spec => []LastCountRight
BY IInvLastCount, Inductive, PTL

(* For any number of clients, the listeners are called after every change   *)
(* that was announced.                                                      *)
THEOREM ListenersNotMissed == Spec => []ListenersUpToDate
<1>1. IInv => ListenersUpToDate
  BY DEF IInv, ListenersUpToDate, Quiet, CallPending
<1> QED
  BY <1>1, Inductive, PTL
=============================================================================
