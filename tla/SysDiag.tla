------------------------------- MODULE SysDiag -------------------------------
(***************************************************************************)
(* The background thread of the daemon that publishes the system           *)
(* diagnostics (MonitorServicer).  It measures only while a client is      *)
(* subscribed, publishes only when the set of warnings changed, and pauses *)
(* in a wait that a change of the subscriptions or stop() ends early.      *)
(*                                                                         *)
(* A client changes its subscription in the receiving thread of its        *)
(* handler; the listener of the servicer is called later, by the same      *)
(* thread (WsSubs).  The count of the subscribers asks one handler after   *)
(* the other.  A message is put for all subscribers in one step: what is   *)
(* put for one client does not depend on another one.                      *)
(***************************************************************************)
EXTENDS FiniteSets

CONSTANTS
    Clients,     \* connected clients that may subscribe
    Slow,        \* the clients whose outgoing queue may be full
    Signatures,  \* the sets of active warnings
    NoWarnings,  \* the empty one
    Unknown,     \* a client was sent nothing since it subscribed
    Missed       \* the last message for a client was lost

ASSUME ClientsAssumption == IsFiniteSet(Clients) /\ Slow \subseteq Clients
ASSUME SignaturesAssumption ==
    NoWarnings \in Signatures /\ Unknown \notin Signatures /\ Missed \notin Signatures

VARIABLES
    thread,      \* where the thread is
    toAsk,       \* the handlers that the thread still asks
    found,       \* the count so far is not zero
    state,       \* _sysdiag_warning_state
    wakeup,      \* _sysdiag_wakeup
    stopEvent,   \* _sysdiag_stop_event
    stopper,     \* where stop() is
    active,      \* the warnings that a measurement finds
    subscribers, \* the clients that are subscribed
    announcing,  \* the clients whose change the listener was not told yet
    silent,      \* history: the clients whose last change is never announced
    known,       \* the last that a client was sent since it subscribed
    first        \* history: clients that subscribed while nobody else was

loopVars   == <<toAsk, found, state>>
stopVars   == <<stopEvent, stopper>>
clientVars == <<subscribers, announcing, silent, known, first>>
diagVars == <<thread, toAsk, found, state, wakeup, stopEvent, stopper, active,
          subscribers, announcing, silent, known, first>>

Places == {"check", "clear", "count", "reset", "idle", "measure", "publish", "pause", "ended"}

DiagTypeOK ==
    /\ thread \in Places
    /\ toAsk \subseteq Clients
    /\ found \in BOOLEAN
    /\ state \in Signatures
    /\ wakeup \in BOOLEAN
    /\ stopEvent \in BOOLEAN
    /\ stopper \in {"no", "removed", "stopping", "joining", "done"}
    /\ active \in Signatures
    /\ subscribers \subseteq Clients
    /\ announcing \subseteq Clients
    /\ silent \subseteq Clients
    /\ known \in [Clients -> Signatures \cup {Unknown, Missed}]
    /\ first \subseteq Clients

DiagInit ==
    /\ thread = "check"
    /\ toAsk = {}
    /\ found = FALSE
    /\ state = NoWarnings
    /\ wakeup = FALSE
    /\ stopEvent = FALSE
    /\ stopper = "no"
    /\ active = NoWarnings
    /\ subscribers = {}
    /\ announcing = {}
    /\ silent = {}
    /\ known = [c \in Clients |-> Unknown]
    /\ first = {}

-----------------------------------------------------------------------------
(* Faulty variants of definitions below; the runs have to reject them. *)

(* The count is assigned instead of added to. *)
CountedLast(c) == c \in subscribers

(* The event is cleared after the check of the subscribers. *)
ClearedAfterCount == FALSE

(* Whatever was measured is published. *)
AlwaysNews(signature) == TRUE

(* The loop waits without a timeout. *)
WaitForEvent == wakeup

-----------------------------------------------------------------------------
(* The loop. *)

At(here, there) == thread = here /\ thread' = there

CheckStop ==
    /\ thread = "check"
    /\ thread' = IF stopEvent THEN "ended" ELSE "clear"
    /\ UNCHANGED <<loopVars, wakeup, stopVars, active, clientVars>>

(* "Clear before the check, so a change during the cycle is not lost." *)
ClearWakeup ==
    /\ At("clear", "count")
    /\ wakeup' = FALSE
    /\ toAsk' = Clients
    /\ found' = FALSE
    /\ UNCHANGED <<state, stopVars, active, clientVars>>

(* _count_subscriptions: what is left of the count is whether it is zero. *)
Counted(c) == found \/ c \in subscribers

AskClient(c) ==
    /\ thread = "count"
    /\ c \in toAsk
    /\ toAsk' = toAsk \ {c}
    /\ found' = Counted(c)
    /\ UNCHANGED <<thread, state, wakeup, stopVars, active, clientVars>>

(* The event is not touched between the count and the wait. *)
WakeupAfterCount == wakeup

EndCount ==
    /\ thread = "count"
    /\ toAsk = {}
    /\ thread' = IF found THEN "measure" ELSE "reset"
    /\ wakeup' = WakeupAfterCount
    /\ UNCHANGED <<loopVars, stopVars, active, clientVars>>

(* Nobody is listening: the state is reset. *)
StateOfReset == NoWarnings

Reset ==
    /\ At("reset", "idle")
    /\ state' = StateOfReset
    /\ UNCHANGED <<toAsk, found, wakeup, stopVars, active, clientVars>>

(* wait() returns when the event is set, or after its timeout. *)
WaitOver == TRUE

IdleEnds ==
    /\ At("idle", "check")
    /\ WaitOver
    /\ UNCHANGED <<loopVars, wakeup, stopVars, active, clientVars>>

(* The pause after a cycle; there is none when the cycle took too long. *)
PauseEnds ==
    /\ At("pause", "check")
    /\ WaitOver
    /\ UNCHANGED <<loopVars, wakeup, stopVars, active, clientVars>>

(* _publish_system_diagnostics: the state is stored before the message is   *)
(* put.                                                                     *)
News(signature) == signature # state

Measure ==
    /\ At("measure", "publish")
    /\ News(active)
    /\ state' = active
    /\ UNCHANGED <<toAsk, found, wakeup, stopVars, active, clientVars>>

(* Nothing changed, or the measurement raised an exception, which is logged. *)
MeasureNothing ==
    /\ At("measure", "pause")
    /\ UNCHANGED <<loopVars, wakeup, stopVars, active, clientVars>>

(* publish() puts the message for everybody who is subscribed by now.  A    *)
(* queue that is full loses it, which nobody notices.                       *)
Publish ==
    /\ At("publish", "pause")
    /\ \E full \in SUBSET Slow :
        known' = [c \in Clients |->
            IF c \notin subscribers THEN known[c] ELSE IF c \in full THEN Missed ELSE state]
    /\ UNCHANGED <<loopVars, wakeup, stopVars, active, subscribers, announcing, silent, first>>

-----------------------------------------------------------------------------
(* The clients, and the warnings. *)

(* The change of c is going to be announced, unless the reply to it cannot  *)
(* be put: the exception Full leaves the branch before the announcement.    *)
Announced(c) ==
    \/ announcing' = announcing \cup {c} /\ silent' = silent \ {c}
    \/ c \in Slow /\ silent' = silent \cup {c} /\ UNCHANGED announcing

Subscribe(c) ==
    /\ c \notin subscribers \cup announcing
    /\ subscribers' = subscribers \cup {c}
    /\ Announced(c)
    /\ known' = [known EXCEPT ![c] = Unknown]
    /\ first' = IF subscribers = {} THEN first \cup {c} ELSE first
    /\ UNCHANGED <<thread, loopVars, wakeup, stopVars, active>>

Unsubscribe(c) ==
    /\ c \in subscribers \ announcing
    /\ subscribers' = subscribers \ {c}
    /\ Announced(c)
    /\ first' = first \ {c}
    /\ UNCHANGED <<thread, loopVars, wakeup, stopVars, active, known>>

(* _on_subscription_changed.  Once stop() removed the listener it is called *)
(* only by a thread that copied the listeners before.                       *)
OnSubscriptionChanged(c) ==
    /\ c \in announcing
    /\ announcing' = announcing \ {c}
    /\ \/ wakeup' = TRUE
       \/ stopper # "no" /\ UNCHANGED wakeup
    /\ UNCHANGED <<thread, loopVars, stopVars, active, subscribers, silent, known, first>>

(* A warning appears or disappears. *)
WarningsChange ==
    /\ active' \in Signatures \ {active}
    /\ UNCHANGED <<thread, loopVars, wakeup, stopVars, clientVars>>

(* reload_parameter with another interval. *)
ReloadParameter ==
    /\ ~wakeup
    /\ wakeup' = TRUE
    /\ UNCHANGED <<thread, loopVars, stopVars, active, clientVars>>

-----------------------------------------------------------------------------
(* stop(). *)

StopAt(here, there) == stopper = here /\ stopper' = there

RemoveListener ==
    /\ StopAt("no", "removed")
    /\ UNCHANGED <<thread, loopVars, wakeup, stopEvent, active, clientVars>>

SetStopEvent ==
    /\ StopAt("removed", "stopping")
    /\ stopEvent' = TRUE
    /\ UNCHANGED <<thread, loopVars, wakeup, active, clientVars>>

SetWakeup ==
    /\ StopAt("stopping", "joining")
    /\ wakeup' = TRUE
    /\ UNCHANGED <<thread, loopVars, stopEvent, active, clientVars>>

(* join() returns when the thread ended, or after its timeout. *)
Join ==
    /\ StopAt("joining", "done")
    /\ UNCHANGED <<thread, loopVars, wakeup, stopEvent, active, clientVars>>

Loop ==
    \/ CheckStop \/ ClearWakeup \/ EndCount \/ Reset \/ IdleEnds
    \/ Measure \/ MeasureNothing \/ Publish \/ PauseEnds
    \/ \E c \in Clients : AskClient(c)

Stop == RemoveListener \/ SetStopEvent \/ SetWakeup \/ Join

DiagNext ==
    \/ Loop \/ Stop \/ WarningsChange \/ ReloadParameter
    \/ \E c \in Clients : Subscribe(c) \/ Unsubscribe(c) \/ OnSubscriptionChanged(c)

(* The thread runs, its waits time out, and stop() goes on once it began. *)
DiagFairness == WF_diagVars(Loop) /\ WF_diagVars(SetStopEvent \/ SetWakeup \/ Join)

DiagSpec == DiagInit /\ [][DiagNext]_diagVars /\ DiagFairness

-----------------------------------------------------------------------------
(* Properties *)

(* The thread does not sleep over a subscriber: when it waits for           *)
(* subscribers and the event is not set, every client that is subscribed is *)
(* about to have its change announced, however the change fell between the  *)
(* clearing of the event, the questions to the handlers and the wait.  Only *)
(* a client whose change is never announced waits for the next poll.        *)
ChangeSeen ==
    thread = "idle" /\ ~wakeup /\ stopper = "no" => subscribers \subseteq announcing \cup silent

(* A client that was sent something since it subscribed knows the state     *)
(* that the thread compares with, unless its queue was full: the reset of   *)
(* the state never hits a client that has been listening all the time,      *)
(* although others come and go during the count.                            *)
KnownIsState ==
    \A c \in subscribers :
        thread # "publish" /\ known[c] \notin {Unknown, Missed} => known[c] = state

(* What is published is news for every subscriber, also for those that      *)
(* subscribed or resubscribed since the last message.                       *)
NewsOnly == thread = "publish" => \A c \in subscribers : known[c] # state

(* stop() ends the thread, although the thread may clear the event that     *)
(* stop() just set and then waits: the wait has a timeout.                  *)
StopEnds == stopper = "joining" ~> thread = "ended"

(* "Nobody is listening: reset the state, so the next subscriber gets the   *)
(* current warnings once": at the end of a cycle that began after its       *)
(* subscription was announced, a client that subscribed while nobody was    *)
(* listening knows the warnings.  It does not hold (SysDiagNext.cfg): a     *)
(* cycle that does not count zero resets nothing.                           *)
NextSubscriberTold ==
    thread = "pause" /\ ~wakeup /\ stopper = "no" =>
        \A c \in first \ announcing : known[c] = Unknown => state = NoWarnings
=============================================================================
