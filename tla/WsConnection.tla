----------------------------- MODULE WsConnection -----------------------------
(***************************************************************************)
(* The connection of the GUI to a daemon (WebsocketConnection): one object *)
(* that is opened and closed by the user, and that opens itself again,     *)
(* after a delay, whenever its socket was closed.                          *)
(*                                                                         *)
(* JavaScript runs one handler at a time, so a handler is one step.  What  *)
(* interleaves are the events: several sockets may be alive, because close *)
(* of a socket only begins to close it, and each of them still reports to  *)
(* the same object.  A failed connect fires "error" and then "close"; the  *)
(* two handlers together do what the close handler does, and no other      *)
(* handler of the connection runs between them.                            *)
(***************************************************************************)
EXTENDS Naturals, FiniteSets

CONSTANTS
    Sockets,   \* WebSocket objects; one that is closed can stand for a new one
    NoSocket,  \* null
    MaxOpens   \* bound: how often the user opens the connection

ASSUME SocketsAssumption == IsFiniteSet(Sockets) /\ NoSocket \notin Sockets
ASSUME MaxOpensAssumption == MaxOpens \in Nat

VARIABLES
    ready,            \* readyState of each socket
    websocket,        \* this.websocket
    promise,          \* connectingPromise: the socket it was made for
    shouldReconnect,  \* shouldReconnect
    timers,           \* number of reconnect timers that are running
    connectTimer,     \* sockets whose connect timeout is running
    opens,            \* history: how often the user called open()
    wanted            \* history: the last the user did was open(), not close()

connVars == <<ready, websocket, promise, shouldReconnect, timers, connectTimer, opens, wanted>>

Live == {s \in Sockets : ready[s] # "closed"}

(* What is under way to a connection: a socket that lives, or a timer that  *)
(* will open one.                                                           *)
Attempts == Cardinality(Live) + timers

ConnTypeOK ==
    /\ ready \in [Sockets -> {"connecting", "open", "closing", "closed"}]
    /\ websocket \in Sockets \cup {NoSocket}
    /\ promise \in Sockets \cup {NoSocket}
    /\ shouldReconnect \in BOOLEAN
    /\ timers \in 0..MaxOpens
    /\ connectTimer \subseteq Sockets
    /\ opens \in 0..MaxOpens
    /\ wanted \in BOOLEAN

ConnInit ==
    /\ ready = [s \in Sockets |-> "closed"]
    /\ websocket = NoSocket
    /\ promise = NoSocket
    /\ shouldReconnect = TRUE
    /\ timers = 0
    /\ connectTimer = {}
    /\ opens = 0
    /\ wanted = FALSE

-----------------------------------------------------------------------------
(* Faulty variants of definitions below; the runs have to reject them. *)

(* A failed attempt does not lead to another one. *)
ScheduleOnceConnected(s) == IF shouldReconnect /\ ready[s] = "open" THEN timers + 1 ELSE timers

(* Both handlers of a failed connect schedule a reconnect. *)
ScheduleTwice(s) == IF shouldReconnect THEN timers + 2 ELSE timers

(* open() does not set the flag again that close() cleared. *)
FlagUntouched == shouldReconnect

-----------------------------------------------------------------------------
Connected == websocket # NoSocket /\ ready[websocket] = "open"

(* open() returns the promise of an attempt that is in progress. *)
Connecting ==
    /\ websocket # NoSocket
    /\ ready[websocket] = "connecting"
    /\ promise # NoSocket

(* The flag after a new socket was made. *)
FlagOfOpen == TRUE

(* open(): a new socket, unless there is one. *)
Open ==
    IF Connected \/ Connecting
    THEN UNCHANGED <<ready, websocket, promise, shouldReconnect, connectTimer>>
    ELSE \E s \in Sockets :
            /\ ready[s] = "closed"
            /\ ready' = [ready EXCEPT ![s] = "connecting"]
            /\ websocket' = s
            /\ promise' = s
            /\ shouldReconnect' = FlagOfOpen
            /\ connectTimer' = connectTimer \cup {s}

(* close() of a socket that is not closed yet. *)
StartClosing(s) == [ready EXCEPT ![s] = IF @ = "closed" THEN @ ELSE "closing"]

(* scheduleReconnect(), as the close handler of s calls it. *)
Schedule(s) == IF shouldReconnect THEN timers + 1 ELSE timers

UserOpen ==
    /\ opens < MaxOpens
    /\ opens' = opens + 1
    /\ wanted' = TRUE
    /\ Open
    /\ UNCHANGED timers

(* close(): no reconnect any more, and the current socket is closed. *)
UserClose ==
    /\ shouldReconnect' = FALSE
    /\ wanted' = FALSE
    /\ ready' = IF websocket = NoSocket THEN ready ELSE StartClosing(websocket)
    /\ UNCHANGED <<websocket, promise, timers, connectTimer, opens>>

(* handleOpen of socket s. *)
SocketOpens(s) ==
    /\ ready[s] = "connecting"
    /\ ready' = [ready EXCEPT ![s] = "open"]
    /\ promise' = NoSocket
    /\ UNCHANGED <<websocket, shouldReconnect, timers, connectTimer, opens, wanted>>

(* handleError and handleClose of socket s, whatever the current socket is. *)
SocketCloses(s) ==
    /\ ready[s] # "closed"
    /\ ready' = [ready EXCEPT ![s] = "closed"]
    /\ websocket' = NoSocket
    /\ promise' = NoSocket
    /\ timers' = Schedule(s)
    /\ connectTimer' = connectTimer \ {s}
    /\ UNCHANGED <<shouldReconnect, opens, wanted>>

(* The connect timeout of socket s.  It does nothing when the object is     *)
(* connected, through whichever socket, or s is not connecting any more.    *)
ConnectTimeout(s) ==
    /\ s \in connectTimer
    /\ connectTimer' = connectTimer \ {s}
    /\ IF ~Connected /\ ready[s] = "connecting"
       THEN /\ ready' = StartClosing(s)
            /\ websocket' = NoSocket
            /\ promise' = NoSocket
       ELSE UNCHANGED <<ready, websocket, promise>>
    /\ UNCHANGED <<shouldReconnect, timers, opens, wanted>>

(* A reconnect timer. *)
ReconnectTimer ==
    /\ timers > 0
    /\ timers' = timers - 1
    /\ IF shouldReconnect
       THEN Open
       ELSE UNCHANGED <<ready, websocket, promise, shouldReconnect, connectTimer>>
    /\ UNCHANGED <<opens, wanted>>

ConnNext ==
    \/ UserOpen \/ UserClose \/ ReconnectTimer
    \/ \E s \in Sockets : SocketOpens(s) \/ SocketCloses(s) \/ ConnectTimeout(s)

(* Timers fire, and a socket that is closing gets closed.  The last one is  *)
(* an assumption on the daemon: of the attempts to connect, one succeeds    *)
(* now and then.                                                            *)
ConnFairness ==
    /\ WF_connVars(ReconnectTimer)
    /\ \A s \in Sockets :
        /\ WF_connVars(ready[s] = "closing" /\ SocketCloses(s))
        /\ WF_connVars(ConnectTimeout(s))
    /\ SF_connVars(\E s \in Sockets : s = websocket /\ SocketOpens(s))

ConnSpec == ConnInit /\ [][ConnNext]_connVars /\ ConnFairness

-----------------------------------------------------------------------------
(* Properties *)

(* The object never gives up: as long as it should reconnect, it is         *)
(* connected, or its socket lives and will report, or some other socket is  *)
(* about to report that it is closed, or a timer is running.                *)
NeverGivesUp ==
    shouldReconnect /\ opens > 0 =>
        \/ websocket # NoSocket /\ ready[websocket] # "closed"
        \/ \E s \in Sockets : ready[s] = "closing"
        \/ timers > 0

(* Reconnecting does not multiply: sockets and timers together are never    *)
(* more than the user asked for, however the events interleave, although    *)
(* several handlers and timers call open() and scheduleReconnect().         *)
AttemptsBounded == Attempts <= opens

(* A current socket that is connecting or open may reconnect: open()        *)
(* returns early for it and does not set the flag again.                    *)
CurrentMayReconnect ==
    websocket # NoSocket /\ ready[websocket] \in {"connecting", "open"} => shouldReconnect

(* While the connection is wanted, it is established again and again. *)
Reconnects == wanted ~> Connected \/ ~wanted

(* "Close the WebSocket connection and disable auto-reconnect": once the    *)
(* user closed the connection and all sockets settled, none is open.  It    *)
(* does not hold (WsConnectionClose.cfg): a late close event of an older    *)
(* socket makes the object forget the current one.                          *)
CloseCloses ==
    ~wanted /\ (\A s \in Sockets : ready[s] \in {"open", "closed"}) =>
        \A s \in Sockets : ready[s] = "closed"
=============================================================================
