--------------------------- MODULE PriorityBuffer ---------------------------
(***************************************************************************)
(* What the outgoing queue of a websocket connection promises to its       *)
(* users, without threads, locks or counters: a message that was accepted  *)
(* is buffered, the one consumer takes the oldest message of the highest   *)
(* priority that has one, and a consumer that is ready for work while      *)
(* something is buffered does get it.  PQueue.tla is the implementation.   *)
(***************************************************************************)
EXTENDS Naturals, Sequences

CONSTANTS
    Prios,    \* the priorities, a set of naturals
    Items,    \* what can be buffered
    Capacity  \* the most a priority ever holds

VARIABLES
    buf,      \* buf[p]: the accepted messages of priority p, oldest first
    ready     \* the consumer can take a message

bvars == <<buf, ready>>

Init ==
    /\ buf = [p \in Prios |-> <<>>]
    /\ ready = TRUE

(* A message is accepted. *)
Accept ==
    \E p \in Prios, x \in Items :
        /\ Len(buf[p]) < Capacity
        /\ buf' = [buf EXCEPT ![p] = Append(@, x)]
        /\ UNCHANGED ready

(* The consumer takes the oldest message of the most urgent priority. *)
Take ==
    /\ ready
    /\ \E p \in Prios :
        /\ buf[p] # <<>>
        /\ \A q \in Prios : q > p => buf[q] = <<>>
        /\ buf' = [buf EXCEPT ![p] = Tail(@)]
    /\ ready' = FALSE

(* The consumer is done with what it took. *)
Done ==
    /\ ~ready
    /\ ready' = TRUE
    /\ UNCHANGED buf

(* The consumer gives up. *)
Leave ==
    /\ ready
    /\ ready' = FALSE
    /\ UNCHANGED buf

(* Everything that is buffered is thrown away. *)
Discard ==
    /\ buf' = [p \in Prios |-> <<>>]
    /\ UNCHANGED ready

Next == Accept \/ Take \/ Done \/ Leave \/ Discard

SafeSpec == Init /\ [][Next]_bvars

Spec == SafeSpec /\ WF_bvars(Take)
=============================================================================
