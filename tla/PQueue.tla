------------------------------- MODULE PQueue -------------------------------
(***************************************************************************)
(* The outgoing message queue of one websocket connection (PQueue) with    *)
(* the threads that use it: any number of producers (the worker threads of *)
(* the handler and the threads that publish), the receiving thread of the  *)
(* connection (WebSocketHandler.spin), and the sender thread, which is the *)
(* only consumer (WebSocketHandler._send_handler).                         *)
(*                                                                         *)
(* A "with self._cv" block is one step, because nothing else can touch the *)
(* queue inside it.  The size check of put() is outside of that block, so  *)
(* it is a step of its own.                                                *)
(***************************************************************************)
EXTENDS Naturals, Sequences, FiniteSets

CONSTANTS
    Workers,   \* threads that put messages: executor workers and publishers
    Spin,      \* the receiving thread of the connection
    MaxSize,   \* maxsize of the queue, per priority
    PutPrios,  \* the priorities that callers use
    CallsClear, \* somebody calls clear() before the end; nothing in the repository does
    Messages,  \* non-empty message texts
    WakeUp,    \* the empty message that spin() queues when it ends
    Nothing    \* no message

Prios == 0..2

Threads == Workers \cup {Spin}

ASSUME WorkersAssumption == IsFiniteSet(Workers) /\ Spin \notin Workers
ASSUME MaxSizeAssumption == MaxSize \in Nat \ {0}
ASSUME PutPriosAssumption == PutPrios \subseteq Prios
ASSUME CallsClearAssumption == CallsClear \in BOOLEAN
ASSUME MessagesAssumption == WakeUp \notin Messages /\ Nothing \notin Messages \cup {WakeUp}

VARIABLES
    pq,        \* _pq: the queued messages of each priority
    counts,    \* _counts
    count,     \* _count
    putting,   \* what a thread is about to append: it passed the size check
    sender,    \* where the sender thread is
    hand,      \* the message the sender thread took
    shutdown,  \* _shutdown of the handler
    conn,      \* the connection: "open" or "closed"
    spin       \* where the receiving thread is

queueVars  == <<pq, counts, count>>
senderVars == <<sender, hand>>
vars == <<pq, counts, count, putting, sender, hand, shutdown, conn, spin>>

Data == Messages \cup {WakeUp}

Item == [prio : Prios, data : Data]

SenderStates == {"loop", "get", "wait", "woken", "send", "stopped"}

TypeOK ==
    /\ pq \in [Prios -> Seq(Data)]
    /\ counts \in [Prios -> Nat]
    /\ count \in Nat
    /\ putting \in [Threads -> Item \cup {Nothing}]
    /\ sender \in SenderStates
    /\ hand \in Data \cup {Nothing}
    /\ shutdown \in BOOLEAN
    /\ conn \in {"open", "closed"}
    /\ spin \in {"reading", "closing", "waking", "done"}

Init ==
    /\ pq = [p \in Prios |-> <<>>]
    /\ counts = [p \in Prios |-> 0]
    /\ count = 0
    /\ putting = [t \in Threads |-> Nothing]
    /\ sender = "loop"
    /\ hand = Nothing
    /\ shutdown = FALSE
    /\ conn = "open"
    /\ spin = "reading"

-----------------------------------------------------------------------------
(* Faulty variants of definitions below, each a plausible slip in the code. *)
(* The runs have to tell them from the real ones.                           *)

(* put() compares with > instead of >=. *)
HasRoomOffByOne(p) == counts[p] <= MaxSize

(* put() forgets notify(). *)
NotifyNobody == sender

(* put() inserts at the head. *)
EnqueueInFront(p, x) ==
    /\ pq' = [pq EXCEPT ![p] = <<x>> \o @]
    /\ counts' = [counts EXCEPT ![p] = @ + 1]
    /\ count' = count + 1

(* get() takes the messages of the whole priority off the total. *)
TakeFirstMiscounts ==
    \E p \in Prios :
        /\ counts[p] # 0
        /\ \A q \in Prios : q > p => counts[q] = 0
        /\ hand' = Head(pq[p])
        /\ pq' = [pq EXCEPT ![p] = Tail(@)]
        /\ counts' = [counts EXCEPT ![p] = @ - 1]
        /\ count' = count - counts[p]

(* spin() ends without the wake up message. *)
SpinEndsSilently ==
    /\ spin = "closing"
    /\ spin' = "done"
    /\ UNCHANGED <<queueVars, putting, senderVars, shutdown, conn>>

-----------------------------------------------------------------------------
(* PQueue.put: the size check, made without the lock.  A caller that finds  *)
(* the priority full gets the exception Full and queues nothing.            *)
HasRoom(p) == counts[p] < MaxSize

PutCheck(t) ==
    /\ putting[t] = Nothing
    /\ t = Spin => spin = "reading"
    /\ \E p \in PutPrios, m \in Messages :
        /\ HasRoom(p)
        /\ putting' = [putting EXCEPT ![t] = [prio |-> p, data |-> m]]
    /\ UNCHANGED <<queueVars, senderVars, shutdown, conn, spin>>

(* notify(): the sender thread, if it waits, may go on. *)
Notify == IF sender = "wait" THEN "woken" ELSE sender

(* PQueue.put: append and notify under the lock. *)
Enqueue(p, x) ==
    /\ pq' = [pq EXCEPT ![p] = Append(@, x)]
    /\ counts' = [counts EXCEPT ![p] = @ + 1]
    /\ count' = count + 1

PutAppend(t) ==
    /\ putting[t] # Nothing
    /\ Enqueue(putting[t].prio, putting[t].data)
    /\ putting' = [putting EXCEPT ![t] = Nothing]
    /\ sender' = Notify
    /\ spin' = IF t = Spin /\ spin = "waking" THEN "done" ELSE spin
    /\ UNCHANGED <<hand, shutdown, conn>>

(* PQueue.clear: it notifies although there is nothing to get.  A caller    *)
(* must not use it once the connection ends: it would drop the wake up      *)
(* message of spin() like any other.                                        *)
Clear ==
    /\ CallsClear
    /\ ~shutdown /\ conn = "open"
    /\ pq' = [p \in Prios |-> <<>>]
    /\ counts' = [p \in Prios |-> 0]
    /\ count' = 0
    /\ sender' = Notify
    /\ UNCHANGED <<putting, hand, shutdown, conn, spin>>

-----------------------------------------------------------------------------
(* The sender thread, WebSocketHandler._send_handler. *)

SenderLoop ==
    /\ sender = "loop"
    /\ sender' = IF shutdown THEN "stopped" ELSE "get"
    /\ UNCHANGED <<queueVars, putting, hand, shutdown, conn, spin>>

(* PQueue.get on a queue that is not empty: the oldest message of the       *)
(* highest priority that has one.                                           *)
TakeFirst ==
    \E p \in Prios :
        /\ counts[p] # 0
        /\ \A q \in Prios : q > p => counts[q] = 0
        /\ hand' = Head(pq[p])
        /\ pq' = [pq EXCEPT ![p] = Tail(@)]
        /\ counts' = [counts EXCEPT ![p] = @ - 1]
        /\ count' = count - 1

GetTakes ==
    /\ sender \in {"get", "woken"}
    /\ count > 0
    /\ TakeFirst
    /\ sender' = "send"
    /\ UNCHANGED <<putting, shutdown, conn, spin>>

(* PQueue.get on an empty queue: wait() releases the lock. *)
GetWaits ==
    /\ sender = "get"
    /\ count = 0
    /\ sender' = "wait"
    /\ UNCHANGED <<queueVars, putting, hand, shutdown, conn, spin>>

(* get() does not wait a second time, it returns None, and the loop logs    *)
(* the AttributeError and goes on.                                          *)
GetReturnsNone ==
    /\ sender = "woken"
    /\ count = 0
    /\ sender' = "loop"
    /\ UNCHANGED <<queueVars, putting, hand, shutdown, conn, spin>>

(* connection.send() of a message; an empty one is skipped.  On a closed    *)
(* connection send() raises and the thread flags the handler as shut down.  *)
SendItem ==
    /\ sender = "send"
    /\ sender' = "loop"
    /\ hand' = Nothing
    /\ shutdown' = (shutdown \/ (hand # WakeUp /\ conn = "closed"))
    /\ UNCHANGED <<queueVars, putting, conn, spin>>

Sender == SenderLoop \/ GetTakes \/ GetWaits \/ GetReturnsNone \/ SendItem

-----------------------------------------------------------------------------
(* The end of the connection. *)

(* WebSocketHandler.shutdown sets the flag and then closes the connection. *)
HandlerShutdown ==
    /\ ~shutdown
    /\ shutdown' = TRUE
    /\ UNCHANGED <<queueVars, putting, senderVars, conn, spin>>

CloseAfterShutdown ==
    /\ shutdown
    /\ conn = "open"
    /\ conn' = "closed"
    /\ UNCHANGED <<queueVars, putting, senderVars, shutdown, spin>>

(* The peer or the network ends the connection. *)
PeerCloses ==
    /\ conn = "open"
    /\ conn' = "closed"
    /\ UNCHANGED <<queueVars, putting, senderVars, shutdown, spin>>

(* The loop over the received messages ends: the "finally" of spin(). *)
SpinEnds ==
    /\ spin = "reading"
    /\ putting[Spin] = Nothing
    /\ conn = "closed"
    /\ shutdown' = TRUE
    /\ spin' = "closing"
    /\ UNCHANGED <<queueVars, putting, senderVars, conn>>

(* The wake up message for the sender thread; a full queue is ignored. *)
SpinWakes ==
    /\ spin = "closing"
    /\ IF HasRoom(0)
       THEN /\ putting' = [putting EXCEPT ![Spin] = [prio |-> 0, data |-> WakeUp]]
            /\ spin' = "waking"
       ELSE /\ spin' = "done"
            /\ UNCHANGED putting
    /\ UNCHANGED <<queueVars, senderVars, shutdown, conn>>

Next ==
    \/ \E t \in Threads : PutCheck(t) \/ PutAppend(t)
    \/ Clear
    \/ Sender
    \/ HandlerShutdown \/ CloseAfterShutdown \/ PeerCloses
    \/ SpinEnds \/ SpinWakes

(* Threads that are running do run.  Nobody has to put a message or to end  *)
(* a connection, but shutdown() does close the connection that it announced *)
(* as shut down.  That send() returns is assumed for a closed connection    *)
(* only: an open one may block as long as the peer does not read.           *)
Fairness ==
    /\ WF_vars(SenderLoop) /\ WF_vars(GetTakes \/ GetWaits \/ GetReturnsNone)
    /\ WF_vars(SendItem /\ conn = "closed")
    /\ \A t \in Threads : WF_vars(PutAppend(t))
    /\ WF_vars(SpinEnds) /\ WF_vars(SpinWakes)
    /\ WF_vars(CloseAfterShutdown)

Spec == Init /\ [][Next]_vars /\ Fairness

-----------------------------------------------------------------------------
(* Properties *)

(* However the unlocked size checks of put() interleave, a priority exceeds *)
(* maxsize by less than the number of threads that put: each thread can     *)
(* slip in one message that it checked before the others appended theirs.   *)
OvershootBounded ==
    \A p \in Prios : Len(pq[p]) < MaxSize + Cardinality(Threads)

(* The sender thread never waits while a message is queued: get() waits     *)
(* only on an empty queue, and every put wakes it.                          *)
NoLostWakeup == sender = "wait" => \A p \in Prios : pq[p] = <<>>

(* When the connection ends, the sender thread stops, although it may be    *)
(* blocked in get(): either the wake up message arrives, or the queue was   *)
(* full and the thread had something to take anyway.                        *)
SenderStops == conn = "closed" ~> sender = "stopped"

(* The queue and its threads implement the abstract buffer: every message   *)
(* that passed put() is kept, in order, until the sender thread takes it,   *)
(* and a sender thread that is between two messages takes the next.         *)
Buffer == INSTANCE PriorityBuffer WITH
    Items <- Data,
    Capacity <- MaxSize + Cardinality(Threads),
    buf <- pq,
    ready <- sender \in {"loop", "get", "wait", "woken"}

ImplementsBuffer == Buffer!Spec
=============================================================================
