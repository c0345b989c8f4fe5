-------------------------------- MODULE WsSubs --------------------------------
(***************************************************************************)
(* Who is subscribed to one uri of the websocket server, and how a change  *)
(* is announced.  A handler that gets "sub" or "unsub" changes its set     *)
(* under its own lock, and only then, with no lock held, asks the server   *)
(* to count the subscribers, to publish the count as an "event" and to     *)
(* call the listeners (WebSocketServer._cb_subs_changed).  The server does *)
(* the same when a client is gone and when a part of the daemon subscribes *)
(* itself.  Every one of these runs in a thread of its own.                *)
(*                                                                         *)
(* The count is not a snapshot either: the set of handlers is copied under *)
(* the server lock and the handlers are asked one after the other, each    *)
(* under its own lock.                                                     *)
(***************************************************************************)
EXTENDS Naturals, Sequences, FiniteSets

CONSTANTS
    Handlers,   \* connections of clients that may subscribe; each is used once
    Slow,       \* those that do not read, so that their own queue may be full
    Local,      \* the thread of the daemon that subscribes itself
    MaxLocal,   \* bound: how many local subscriptions there are at a time
    QueueSize,  \* the limit of the queue to the watcher
    NoCount     \* the last count is not finished

Threads == Handlers \cup {Local}

ASSUME ThreadsAssumption == IsFiniteSet(Handlers) /\ Local \notin Handlers
ASSUME SlowAssumption == Slow \subseteq Handlers
ASSUME BoundsAssumption == MaxLocal \in Nat /\ QueueSize \in Nat /\ NoCount \notin Nat

VARIABLES
    stage,       \* a connection is "new", "live" or "gone"
    members,     \* _handler of the server
    subscribed,  \* the uri is in _subscriptions of the handler
    localSubs,   \* number of local callbacks for the uri
    step,        \* what a thread is in the middle of
    events,      \* events on their way to a client that subscribed "event"
    seen,        \* the count in the last event the client read
    latest,      \* history: the thread that was the last to begin to count
    lastCount,   \* history: what it counted, NoCount while it counts
    heard,       \* history: the listeners were called after the last change
    unsaid       \* history: a change was not announced, and no count began since

subVars == <<members, subscribed, localSubs>>
vars == <<stage, members, subscribed, localSubs, step, events, seen, latest, lastCount, heard,
          unsaid>>

Idle == [at |-> "idle"]
Changed == [at |-> "changed"]

Subscribers == {h \in members : subscribed[h]}
Actual == Cardinality(Subscribers) + localSubs

Counts == 0..(Cardinality(Handlers) + MaxLocal)

Steps ==
    {Idle, Changed}
    \cup [at : {"counting"}, left : SUBSET Handlers, sum : Counts]
    \cup [at : {"counted"}, sum : Counts]
    \cup [at : {"published"}]

TypeOK ==
    /\ stage \in [Handlers -> {"new", "live", "gone"}]
    /\ members \subseteq Handlers
    /\ subscribed \in [Handlers -> BOOLEAN]
    /\ localSubs \in 0..MaxLocal
    /\ step \in [Threads -> Steps]
    /\ events \in Seq(Counts) /\ Len(events) <= QueueSize
    /\ seen \in Counts
    /\ latest \in Threads
    /\ lastCount \in Counts \cup {NoCount}
    /\ heard \in BOOLEAN
    /\ unsaid \in BOOLEAN

Init ==
    /\ stage = [h \in Handlers |-> "new"]
    /\ members = {}
    /\ subscribed = [h \in Handlers |-> FALSE]
    /\ localSubs = 0
    /\ step = [t \in Threads |-> Idle]
    /\ events = <<>>
    /\ seen = 0
    /\ latest = Local
    /\ lastCount = 0
    /\ heard = TRUE
    /\ unsaid = FALSE

(* The receiving thread of h can take the next message. *)
Receiving(h) == stage[h] = "live" /\ step[h] = Idle

-----------------------------------------------------------------------------
(* Faulty variants of definitions below; the runs have to reject them. *)

(* The subscribers are copied before the change instead of after it. *)
AnnounceTooEarly(t) ==
    /\ step' = [step EXCEPT ![t] = [at |-> "counting", left |-> members, sum |-> localSubs]]
    /\ latest' = t
    /\ lastCount' = NoCount
    /\ heard' = FALSE
    /\ UNCHANGED <<events, seen, unsaid>>

(* A full queue of the watcher ends the announcement. *)
PublishRaises(t) ==
    /\ step[t].at = "counted"
    /\ events' = IF Len(events) < QueueSize THEN Append(events, step[t].sum) ELSE events
    /\ step' = [step EXCEPT ![t] =
            IF Len(events) < QueueSize THEN [at |-> "published"] ELSE Idle]
    /\ UNCHANGED <<stage, subVars, seen, latest, lastCount, heard, unsaid>>

-----------------------------------------------------------------------------
(* A thread that changed the subscriptions goes on to announce it. *)
Announce(t) ==
    /\ step' = [step EXCEPT ![t] = Changed]
    /\ heard' = FALSE
    /\ UNCHANGED <<events, seen, latest, lastCount, unsaid>>

(* The reply to a change cannot be put: the exception Full leaves the branch *)
(* before the change is announced, and nobody takes the change back.        *)
ReplyFails(h) ==
    /\ h \in Slow
    /\ heard' = FALSE
    /\ unsaid' = TRUE
    /\ UNCHANGED <<step, events, seen, latest, lastCount>>

(* ws_handler adds the handler of a new connection. *)
Connect(h) ==
    /\ stage[h] = "new"
    /\ stage' = [stage EXCEPT ![h] = "live"]
    /\ members' = members \cup {h}
    /\ UNCHANGED <<subscribed, localSubs, step, events, seen, latest, lastCount, heard, unsaid>>

(* "sub" is announced also when the client was subscribed already. *)
Sub(h) ==
    /\ Receiving(h)
    /\ subscribed' = [subscribed EXCEPT ![h] = TRUE]
    /\ Announce(h) \/ ReplyFails(h)
    /\ UNCHANGED <<stage, members, localSubs>>

(* "unsub" is announced only when the client was subscribed. *)
Unsub(h) ==
    /\ Receiving(h)
    /\ subscribed[h]
    /\ subscribed' = [subscribed EXCEPT ![h] = FALSE]
    /\ Announce(h) \/ ReplyFails(h)
    /\ UNCHANGED <<stage, members, localSubs>>

(* The "finally" of ws_handler: the handler is removed, and what the client *)
(* was subscribed to is announced.  The handler keeps its own set.          *)
RemoveHandler(h) ==
    /\ Receiving(h)
    /\ stage' = [stage EXCEPT ![h] = "gone"]
    /\ members' = members \ {h}
    /\ IF subscribed[h] THEN Announce(h)
       ELSE UNCHANGED <<step, events, seen, latest, lastCount, heard, unsaid>>
    /\ UNCHANGED <<subscribed, localSubs>>

(* WebSocketServer.subscribe and unsubscribe by a part of the daemon. *)
LocalChange ==
    /\ step[Local] = Idle
    /\ localSubs' \in 0..MaxLocal
    /\ localSubs' \in {localSubs + 1, localSubs - 1}
    /\ Announce(Local)
    /\ UNCHANGED <<stage, members, subscribed>>

-----------------------------------------------------------------------------
(* subscriptions(): the handlers are copied under the server lock ... *)
BeginCount(t) ==
    /\ step[t] = Changed
    /\ step' = [step EXCEPT ![t] = [at |-> "counting", left |-> members, sum |-> localSubs]]
    /\ latest' = t
    /\ lastCount' = NoCount
    /\ unsaid' = FALSE
    /\ UNCHANGED <<stage, subVars, events, seen, heard>>

WithHandler(h, n) == n + (IF subscribed[h] THEN 1 ELSE 0)

(* ... and asked one by one, in any order, with has_subscription. *)
AskHandler(t, h) ==
    /\ step[t].at = "counting"
    /\ h \in step[t].left
    /\ step' = [step EXCEPT ![t].left = @ \ {h}, ![t].sum = WithHandler(h, @)]
    /\ UNCHANGED <<stage, subVars, events, seen, latest, lastCount, heard, unsaid>>

EndCount(t) ==
    /\ step[t].at = "counting"
    /\ step[t].left = {}
    /\ step' = [step EXCEPT ![t] = [at |-> "counted", sum |-> step[t].sum]]
    /\ lastCount' = IF latest = t THEN step[t].sum ELSE lastCount
    /\ UNCHANGED <<stage, subVars, events, seen, latest, heard, unsaid>>

(* publish("event"): a full queue of the watcher loses the event. *)
PublishEvent(t) ==
    /\ step[t].at = "counted"
    /\ events' = IF Len(events) < QueueSize THEN Append(events, step[t].sum) ELSE events
    /\ step' = [step EXCEPT ![t] = [at |-> "published"]]
    /\ UNCHANGED <<stage, subVars, seen, latest, lastCount, heard, unsaid>>

(* The listeners are called, which do not use the count but look themselves. *)
CallListeners(t) ==
    /\ step[t].at = "published"
    /\ heard' = TRUE
    /\ step' = [step EXCEPT ![t] = Idle]
    /\ UNCHANGED <<stage, subVars, events, seen, latest, lastCount, unsaid>>

(* The watcher, e.g. an introspection node, reads an event. *)
ReadEvent ==
    /\ events # <<>>
    /\ seen' = Head(events)
    /\ events' = Tail(events)
    /\ UNCHANGED <<stage, subVars, step, latest, lastCount, heard, unsaid>>

Announcing(t) ==
    \/ BeginCount(t) \/ EndCount(t) \/ PublishEvent(t) \/ CallListeners(t)
    \/ \E h \in Handlers : AskHandler(t, h)

Next ==
    \/ \E h \in Handlers : Connect(h) \/ Sub(h) \/ Unsub(h) \/ RemoveHandler(h)
    \/ LocalChange
    \/ \E t \in Threads : Announcing(t)
    \/ ReadEvent

Spec == Init /\ [][Next]_vars

-----------------------------------------------------------------------------
(* Properties *)

Quiet == \A t \in Threads : step[t] = Idle

(* Although a count is put together while others change their             *)
(* subscriptions, and a handler may be removed between the copy and the     *)
(* question, the count that was begun last is right once nobody is at work, *)
(* unless the last changes could not be announced; the next count mends     *)
(* that.                                                                    *)
LastCountRight == Quiet => lastCount = Actual \/ unsaid

(* No listener misses the last change: once nobody is at work, the          *)
(* listeners were called after it, by the thread that made it or by another *)
(* one, so that a listener that looks for itself sees the current           *)
(* subscribers, unless that change could not be announced.                  *)
ListenersUpToDate == Quiet => heard \/ unsaid

(* The number in the last event is the number of subscribers once nobody is *)
(* at work and every event was read: what the protocol says of the message  *)
(* "when the number of subscriptions for URI has changed", and what a node  *)
(* that exits at the number 0 relies on.  It does not hold                  *)
(* (WsSubsEvents.cfg): count and publication are not one step.              *)
EventsConverge == Quiet /\ events = <<>> => seen = Actual
=============================================================================
